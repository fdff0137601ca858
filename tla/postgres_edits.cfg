SPECIFICATION Spec
CONSTANTS
    i1 = i1  i2 = i2  p1 = p1  a1 = a1  a2 = a2  t1 = t1  t2 = t2  blue = blue  green = green
    Issues = {i1, i2}
    Projects = {p1}
    ProjectOf <- OneProject
    Humans = {}
    Agents = {}
    NoOne = NoOne
    Labels = {l1}
    Receipts = {r1}
    MaxTTL = 1
    AgentTTL = 1
    Deadlines = {1}
    Grace = 0
    EditDeferral = 0
    Horizon = 0
    Servers = {blue}
    Threads = {t1}
    ServerOf <- BlueGreen
    Ops = {"project", "create", "update", "close", "supersede", "label", "unlabel", "dep"}
    TTLRequests = {}
    PatchStatuses = {"review"}
    AvailableTimes = {}
    MaxLag = 1
SYMMETRY Symmetry
PROPERTY AuditTrail

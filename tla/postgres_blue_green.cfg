SPECIFICATION Spec
CONSTANTS
    i1 = i1  i2 = i2  p1 = p1  a1 = a1  a2 = a2  t1 = t1  t2 = t2  blue = blue  green = green
    Issues = {i1}
    Projects = {p1}
    ProjectOf <- OneProject
    Humans = {h1}
    Agents = {a1, a2}
    NoOne = NoOne
    Labels = {}
    Receipts = {r1}
    MaxTTL = 2
    AgentTTL = 1
    Deadlines = {1, 3}
    Grace = 0
    EditDeferral = 0
    Horizon = 3
    Servers = {blue, green}
    Threads = {t1, t2}
    ServerOf <- BlueGreen
    Ops = {"create", "claim", "touch", "sweep", "close", "release", "crash"}
    TTLRequests = {0}
    PatchStatuses = {}
    AvailableTimes = {}
    MaxLag = 2
PROPERTIES LeaseSpec AuditTrail

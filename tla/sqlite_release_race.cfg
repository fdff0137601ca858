SPECIFICATION Spec
CONSTANTS
    i1 = i1  i2 = i2  i3 = i3  p1 = p1  p2 = p2  h1 = h1  a1 = a1  a2 = a2  t1 = t1  t2 = t2
    Issues = {i1}
    Projects = {p1}
    ProjectOf <- OneProject
    Humans = {}
    Agents = {a1, a2}
    NoOne = NoOne
    Labels = {}
    Receipts = {r1}
    MaxTTL = 2
    AgentTTL = 1
    Deadlines = {1}
    Grace = 1
    EditDeferral = 1
    Horizon = 2
    Threads = {t1}
    Ops = {"create", "claim", "release"}
    TTLRequests = {0, 2}
    PatchStatuses = {"in_progress"}
    AvailableTimes = {0}
    MaxLag = 1
PROPERTY ReleaseByHolder

SPECIFICATION Spec
CONSTANTS
    i1 = i1  i2 = i2  i3 = i3  p1 = p1  p2 = p2  h1 = h1  a1 = a1  a2 = a2  t1 = t1  t2 = t2
    Issues = {i1, i2, i3}
    Projects = {p1, p2}
    ProjectOf <- TwoProjects
    Humans = {}
    Agents = {}
    NoOne = NoOne
    Labels = {l1}
    Receipts = {r1}
    MaxTTL = 1
    AgentTTL = 1
    Deadlines = {1}
    Grace = 0
    EditDeferral = 0
    Horizon = 0
    Threads = {t1}
    Ops = {"project", "drop", "create", "dep", "close", "label", "unlabel", "crash"}
    TTLRequests = {}
    PatchStatuses = {}
    AvailableTimes = {}
    MaxLag = 0
SYMMETRY GraphSymmetry
INVARIANTS DepAcyclic EdgesResolve

SPECIFICATION Spec
CONSTANTS
    i1 = i1  i2 = i2  p1 = p1  p2 = p2  m1 = m1  m2 = m2
    Issues = {i1, i2}
    Projects = {p1, p2}
    ProjectOf <- TwoProjects
    Humans = {h1}
    Agents = {a1}
    NoOne = NoOne
    Labels = {}
    Receipts = {r1}
    MaxTTL = 1
    AgentTTL = 1
    Deadlines = {1}
    Grace = 0
    EditDeferral = 0
    Horizon = 1
    Procs = {m1, m2}
    Hosts = {TRUE, FALSE}
    Ops = {"create", "claim", "touch", "release", "sweep", "update", "close", "supersede", "dep", "drop", "project", "mark"}
    TTLRequests = {}
    PatchStatuses = {"review"}
    MaxAppends = 14
    Stock <- BothIssues
INVARIANTS OutboxHasAudit EdgesResolve
PROPERTIES SequencesKept ImplementsTables NeverStolen
CHECK_DEADLOCK FALSE
SYMMETRY TwoProcesses

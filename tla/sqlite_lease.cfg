SPECIFICATION FairSpec
CONSTANTS
    i1 = i1  i2 = i2  i3 = i3  p1 = p1  p2 = p2  h1 = h1  a1 = a1  a2 = a2  t1 = t1  t2 = t2
    Issues = {i1}
    Projects = {p1}
    ProjectOf <- OneProject
    Humans = {h1}
    Agents = {a1, a2}
    NoOne = NoOne
    Labels = {}
    Receipts = {r1}
    MaxTTL = 2
    AgentTTL = 1
    Deadlines = {1, 3}
    Grace = 1
    EditDeferral = 1
    Horizon = 3
    Threads = {t1}
    Ops = {"create", "claim", "touch", "release", "sweep", "update", "close", "supersede", "crash"}
    TTLRequests = {0, 2}
    PatchStatuses = {"in_progress"}
    AvailableTimes = {0}
    MaxLag = 1
PROPERTIES LeaseSpec AuditTrail LiveClaimEnds LapsedAgentRequeued LapsedHumanEscalates

SPECIFICATION Spec
CONSTANTS
    p1 = p1  p2 = p2  grp = grp
    Issues = {1, 2, 3, 4}
    Projects = {p1, p2}
    ProjectOf <- TwoProjects
    Humans = {}
    Agents = {a1}
    NoOne = NoOne
    Labels = {}
    Receipts = {r1}
    MaxTTL = 1
    AgentTTL = 1
    Deadlines = {}
    Grace = 1
    EditDeferral = 1
    Horizon = 1
    Keys = {1, 2, 3, 4}
    Groups = {grp}
    NoGroup = NoGroup
    Estimates = {0, 1, 2}
    DefaultEstimate = 2
    Folders = {f1, f2}
    NoFolder = NoFolder
    Clients = {c1}
    Cases <- Scenes
    Window = 1
INVARIANTS ChartSound FrontierSound PlanUnique ImportLands FolderForest ReportsAgree
CHECK_DEADLOCK FALSE

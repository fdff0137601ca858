SPECIFICATION Spec
CONSTANTS
    Stores = {"s1"}
    RemoteIssues = {i1, i2, i3}
    Known = {"open", "closed"}
    States = {"open", "closed", "archived"}
    Names = {"n1"}
    Commands = {"c1", "c2"}
    Slow = {"c1"}
    Overlaps = {1}
    Window = 1
    Skew = 0
    MaxEntries = 2
    Ahead = 1
    Horizon = 2
    MaxKeys = 2
    MaxRestores = 1
    MaxSigned = 1
    MaxBroken = 1
INVARIANTS GateSound AuditAgrees
PROPERTIES RetiredStays LastKnownKept
CHECK_DEADLOCK FALSE
SYMMETRY IssueSymmetry

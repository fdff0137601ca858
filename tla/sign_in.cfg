SPECIFICATION BothSpec
CONSTANTS
    Commands = {p1, p2}
    Profiles = {q1, q2}
    Lifetimes = {0, 2}
    Margin = 1
    NoOne = NoOne
    NoFile = NoFile
    Horizon = 2
    MaxMinted = 3
    NoRequest = NoRequest
    Requests = {r1, r2}
    Ttl = 3
    Cooldown = 2
    FetchLimit = 1
    KeyHorizon = 5
    MaxKeys = 2
INVARIANTS SavedLoginUsable NoNeedlessLogin TokenForItsServer
PROPERTIES NewKeySeen WithdrawnKeyEnds
CHECK_DEADLOCK FALSE
SYMMETRY Interchangeable

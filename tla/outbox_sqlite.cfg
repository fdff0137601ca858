SPECIFICATION FairSpec
CONSTANTS
    Stores = {1, 2}
    Publishers = {server}
    Sqlite = TRUE
    Limit = 2
    MaxExp = 1
    Refused <- OneRefused
    MaxSeq <- ThreeAndOne
    MaxFaults = 2
INVARIANT DeliveredWasAccepted
PROPERTIES FreshIds EventuallyDelivered

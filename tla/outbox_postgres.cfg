SPECIFICATION FairSpec
CONSTANTS
    Stores = {1, 2}
    Publishers = {blue, green}
    Sqlite = FALSE
    Limit = 2
    MaxExp = 1
    Refused <- OneRefused
    MaxSeq <- TwoAndOne
    MaxFaults = 1
INVARIANT DeliveredWasAccepted
PROPERTY EventuallyDelivered

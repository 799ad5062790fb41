SPECIFICATION MCSpec
CONSTANTS
    Machines = {"mac", "mini", "other"}
    Strangers = {"other"}
    Addresses = {"a1", "a2", "a3", "a4"}
    HomeOf <- MCHome
    Reuse = FALSE
    Ttl = 1
    UpgradeGrace = 2
    MaxPeers = 2
    MaxEvents = 2
    Peers = {"p1", "p2"}
    Conflicting = {2}
    MaxEdits = 2
    MaxCalls = 2
    MaxActs = 2
    MaxFaults = 1
INVARIANT RowsAreTrue
PROPERTY RowsSettle
PROPERTY AllAgree
PROPERTY PairingIsKept
CHECK_DEADLOCK FALSE

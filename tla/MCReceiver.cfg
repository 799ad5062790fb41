SPECIFICATION MCSpec
CONSTANTS
    c1 = c1
    c2 = c2
    b1 = b1
    d1 = d1
    d2 = d2
    k1 = k1
    k2 = k2
    t1 = t1
    t2 = t2
    left = left
    None = None
    Connections <- TwoConnections
    Boots <- OneBoot
    Displays <- TwoDisplays
    Keys <- TwoKeys
    ScanCoded <- TwoKeys
    Targets <- TwoTargets
    Buttons <- OneButton
    Mappings <- TwoMappings
    MaxRequest = 2
    MaxSeq = 5
    MaxMotion = 3
    Lease = 1
INVARIANT SessionInv
INVARIANT HeldIsRecorded
INVARIANT KeysFollowHands
PROPERTY CleanStart
PROPERTY MotionKeepsOrder
PROPERTY SilenceEnds

SPECIFICATION MCSpec
CONSTANTS
    mac = mac
    s1 = s1
    s2 = s2
    None = None
    Peers <- MCPeers
    Sessions <- MCSessions
    MaxGen = 5
    MaxTime = 6
    HandoffTimeout = 3
    KeysTimeout = 2
    NoPosition = NoPosition
    Slots = 2
    MaxFrames = 3
    Sizes = {1, 2}
    MaxSends = 3
    QueueFrames = 1
    QueueBytes = 8
    PrefixBytes = 2
    ChunkBytes = 5
    Hosts = {"win", "mac"}
    Sends <- MCSends
    From <- MCFrom
    To <- MCTo
    Bytes <- MCBytes
    Pairing <- MCPairing
    Limit = 8
    Inbound = 6
    EncodeBytes = 2
    StreamSlots = 1
    InboundSlots = 2
INVARIANT TypeOK
INVARIANT GateOpenIsActive
INVARIANT LocalIsRestored
PROPERTY NoLateActivation
PROPERTY ImplementsHandoff
INVARIANT NotStranded
INVARIANT InputInv
INVARIANT BulkInv
PROPERTY ImplementsChannel
PROPERTY TrafficMoves

SPECIFICATION ControllerFairSpec
CONSTANTS
    mac = mac
    s1 = s1
    s2 = s2
    s3 = s3
    s4 = s4
    None = None
    Peers <- MCPeers
    Sessions <- MCSessions
    Nonce <- MCNonce
    MaxGen = 4
    MaxTime = 4
    HandoffTimeout = 2
    KeysTimeout = 1
    MaxInput = 2
INVARIANT BetweenCalls
INVARIANT ClientInv
PROPERTY ImplementsRouting
PROPERTY PollingReturns

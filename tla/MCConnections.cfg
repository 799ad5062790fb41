SPECIFICATION MCSpec
CONSTANTS
    None = None
    Connecting = Connecting
    MaxSessions = 1
    MaxBulk = 1
    MaxConns = 2
    MaxDatagrams = 1
    ControlSlots = 1
    InputSlots = 1
    StreamSlots = 1
    FailThreshold = 1
    LengthBytes = 2
    MaxFrame = 2
    MaxCapabilities = 2
    MaxRgba = 32
    FramesPerWindow = 1
    MaxWritten = 2
    Seconds = 1
    NoOne = NoOne
    Controllers = {"c1", "c2"}
    Codes = {1, 2}
    MaxAttempts = 2
    MaxConfirms = 2
    MaxUpsets = 1
INVARIANT NoConnectStorm
INVARIANT DecoderInv
INVARIANT PairedIsTrusted
INVARIANT RestartKeepsTrust
CHECK_DEADLOCK FALSE

SPECIFICATION Spec
CONSTANTS
    winHost = winHost
    macHost = macHost
    None = None
    Peers <- Machines
    Rank <- MacFirst
    Queued <- Listening
    Sizes <- OneSize
    Limit <- Limits
    Boots <- OneBoot
    MaxUser = 2
    MaxRevision = 3
PROPERTY LocalCopySurvives
CHECK_DEADLOCK FALSE

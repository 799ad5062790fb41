SPECIFICATION FairCaptureSpec
CONSTANTS
    t1 = t1
    t2 = t2
    None = None
    Threads <- TwoThreads
    KeyOf <- DefaultKeys
    HookQueue = 1
    MaxSessions = 2
    MaxOverrides = 1
    CaptureScenarios <- Everyday
INVARIANT HooksAreServed
INVARIANT ForwardInSession
PROPERTY PressesCount
PROPERTY OverrideIsNoticed

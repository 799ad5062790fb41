SPECIFICATION FairCaptureSpec
CONSTANTS
    t1 = t1
    t2 = t2
    None = None
    Threads <- OneThread
    KeyOf <- DefaultKeys
    HookQueue = 1
    MaxSessions = 1
    MaxOverrides = 1
    CaptureScenarios <- EdgeAndTray
PROPERTY HandoffIsCancelled

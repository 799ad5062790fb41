SPECIFICATION MCSpec
CONSTANTS
    winHost = winHost
    macHost = macHost
    None = None
    Peers <- Machines
    Rank <- MacFirst
    Queued <- Listening
    Sizes <- TwoSizes
    Limit <- Limits
    Boots <- MacRestarts
    MaxUser = 2
    MaxRevision = 3
    Keys = {"k1", "k2", "k3"}
    MaxSaves = 2
    MaxOthers = 1
    Nowhere = Nowhere
    Layouts <- TwoLayouts
    Selected = "R2"
    Tolerance = 1
    Deltas <- ShortMoves
    CrossingScenarios <- OneAtATime
    LeftShift = LeftShift
    RightShift = RightShift
    Control = Control
    Letter = Letter
    here = here
    beside = beside
    far = far
    Nothing = Nothing
    InjectedKeys = {LeftShift, RightShift, Control, Letter}
    ModifierFlag <- MCModifierFlag
    UnknownKeys = {Letter}
    ClickButtons = {"Left", "Right"}
    SideButtons = {"Back"}
    Points = {here, beside, far}
    NearPoints <- MCNear
    Platforms = {"unix", "windows"}
    Processes = {"p1", "p2", "p3"}
    NoProcess = "none"
    MaxTries = 2
    MaxCrashes = 1
INVARIANT Settled
PROPERTY WinnerNeverOlder
INVARIANT CrossingInv
INVARIANT NoModifierLeftOver
PROPERTY HotkeysServe
PROPERTY AsksAsMoved
PROPERTY ClicksPair
PROPERTY LaunchesAct
CHECK_DEADLOCK FALSE

CONSTANTS
    Creates = {"cr"}
    Sends = {}
    Steers = {}
    Cancels = {}
    Keys = {}
    Closes = {}
    FenceCloses = {"fc"}
    WithFiles = {}
    Initiator <- FirstGeneration
    Chapter = 0
    MaxGen = 2
    Capacity = 2
    Texts = {"original", "edited"}
    Original = "original"
    MaxRevision = 1
    Withdrawable = {}
    Editable = {}
    FenceRepeats = FALSE
    HarnessAsks = FALSE
    HarnessWorks = TRUE
    HarnessExits = FALSE
    MaxCrashes = 0
SPECIFICATION Spec
INVARIANTS
    CancelledNeverWritten
CHECK_DEADLOCK FALSE

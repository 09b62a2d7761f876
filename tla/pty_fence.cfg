CONSTANTS
    Creates = {}
    Sends = {"s1", "s2"}
    Steers = {}
    Cancels = {}
    Keys = {"k1"}
    Closes = {}
    FenceCloses = {"fc"}
    WithFiles = {}
    Initiator <- FirstGeneration
    Chapter = 1
    MaxGen = 2
    Capacity = 2
    Texts = {"original", "edited"}
    Original = "original"
    MaxRevision = 1
    Withdrawable = {"s1"}
    Editable = {}
    FenceRepeats = TRUE
    HarnessAsks = FALSE
    HarnessWorks = FALSE
    HarnessExits = FALSE
    MaxCrashes = 0
SPECIFICATION Spec
INVARIANTS
    CancelledNeverWritten
    AckAccountsForWrites
CHECK_DEADLOCK FALSE

CONSTANTS
    Creates = {}
    Sends = {"s1"}
    Steers = {"t1", "t2", "t3"}
    Cancels = {}
    Keys = {}
    Closes = {}
    FenceCloses = {}
    WithFiles = {"t2"}
    Initiator <- NoInitiator
    Chapter = 0
    MaxGen = 0
    Capacity = 3
    Texts = {"original", "edited"}
    Original = "original"
    MaxRevision = 1
    Withdrawable = {}
    Editable = {}
    FenceRepeats = FALSE
    HarnessAsks = TRUE
    HarnessWorks = TRUE
    HarnessExits = FALSE
    MaxCrashes = 0
SPECIFICATION Spec
PROPERTIES
    EscBeforeSteer
CHECK_DEADLOCK FALSE

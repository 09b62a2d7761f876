CONSTANTS
    Creates = {}
    Sends = {"s1", "s2"}
    Steers = {"t1"}
    Cancels = {}
    Keys = {}
    Closes = {"close"}
    FenceCloses = {}
    WithFiles = {"s1"}
    Initiator <- NoInitiator
    Chapter = 0
    MaxGen = 0
    Capacity = 2
    Texts = {"original", "edited"}
    Original = "original"
    MaxRevision = 1
    Withdrawable = {"s1", "t1"}
    Editable = {"s1"}
    FenceRepeats = FALSE
    HarnessAsks = FALSE
    HarnessWorks = TRUE
    HarnessExits = FALSE
    MaxCrashes = 0
SPECIFICATION Spec
INVARIANTS
    WithdrawnNeverWritten
    EditedTextWritten
    FifoWithinClass
    AcceptedIsOwned
    QueuedRowIsQueued
PROPERTIES
    RefinesDelivery
CHECK_DEADLOCK FALSE

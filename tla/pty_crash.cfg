CONSTANTS
    Creates = {"cr"}
    Sends = {"s1"}
    Steers = {}
    Cancels = {"esc"}
    Keys = {}
    Closes = {"close"}
    FenceCloses = {}
    WithFiles = {}
    Initiator <- NoInitiator
    Chapter = 0
    MaxGen = 0
    Capacity = 2
    Texts = {"original", "edited"}
    Original = "original"
    MaxRevision = 1
    Withdrawable = {"cr", "s1"}
    Editable = {"cr"}
    FenceRepeats = FALSE
    HarnessAsks = FALSE
    HarnessWorks = TRUE
    HarnessExits = TRUE
    MaxCrashes = 1
SPECIFICATION Spec
INVARIANTS
    DeliveryInv
    AtMostOneWrite
    SettlementIsTruthful
PROPERTIES
    SettledIsFinal
CHECK_DEADLOCK FALSE

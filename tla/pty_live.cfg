CONSTANTS
    Creates = {}
    Sends = {"s1"}
    Steers = {"t1"}
    Cancels = {}
    Keys = {}
    Closes = {}
    FenceCloses = {"fc"}
    WithFiles = {"s1"}
    Initiator <- FirstGeneration
    Chapter = 1
    MaxGen = 2
    Capacity = 3
    Texts = {"original", "edited"}
    Original = "original"
    MaxRevision = 1
    Withdrawable = {"t1"}
    Editable = {}
    FenceRepeats = FALSE
    HarnessAsks = FALSE
    HarnessWorks = FALSE
    HarnessExits = FALSE
    MaxCrashes = 0
SPECIFICATION FairSpec
PROPERTIES
    AcceptedSettles
    FencedChapterEnds
CHECK_DEADLOCK FALSE

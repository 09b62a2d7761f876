CONSTANTS
    Creates = {}
    Sends = {"s1"}
    Steers = {}
    Cancels = {}
    Keys = {}
    Closes = {}
    FenceCloses = {"fc"}
    WithFiles = {}
    Initiator <- FirstGeneration
    Chapter = 1
    MaxGen = 2
    Capacity = 1
    Texts = {"original", "edited"}
    Original = "original"
    MaxRevision = 1
    Withdrawable = {}
    Editable = {}
    FenceRepeats = FALSE
    HarnessAsks = FALSE
    HarnessWorks = FALSE
    HarnessExits = FALSE
    MaxCrashes = 0
SPECIFICATION FairSpec
PROPERTIES
    FencedChapterEnds
CHECK_DEADLOCK FALSE

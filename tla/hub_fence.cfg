SPECIFICATION Spec
CONSTANTS
    Direct = {d1}
    Cmd = {c1}
    MaxTry = 2
    MaxOp = 1
    MaxGen = 2
    MaxFault = 1
INVARIANTS TypeOK OutcomeIsTrue UnfinishedIsRecorded
PROPERTIES OldWorkStops OutcomeIsFinal FenceIsAcked
CHECK_DEADLOCK FALSE

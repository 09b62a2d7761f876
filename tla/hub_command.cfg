SPECIFICATION Spec
CONSTANTS
    Cmd = cmd
    Edits = {e1, e2}
    Withdraws = {w1}
    Original = original
    NoText = NoText
    NoReq = NoReq
    MaxFailures = 2
CHECK_DEADLOCK FALSE
INVARIANTS
    TypeOK
    ForwardedOnce
    WithdrawnStaysUnwritten
    RowTextIsWritten
    WithdrawalIsCredited
    HubRejectionIsTrue
    LineRidesOnce
    JournalConverges
PROPERTIES
    HubSettledIsFinal

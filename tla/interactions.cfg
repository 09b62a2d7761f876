SPECIFICATION Spec
CONSTANTS
    MaxCall = 2
    Command = {a1, a2}
    None = None
    MaxCrash = 1
INVARIANTS TypeOK OneAnswerHanded RepliesAreTrue ExpiredCardUnanswered
PROPERTIES NoWinAfterRetirement CardSettles
CHECK_DEADLOCK FALSE

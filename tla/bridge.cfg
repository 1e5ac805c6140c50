\* Three calls of Send at once, with failing commands, a dying tmux and Stop.
SPECIFICATION FairSpec
CONSTANTS
    Calls = {c1, c2, c3}
    Detach = detach
    None = none
INVARIANTS
    AnswersMatch
    QueueFollowsPty
PROPERTIES
    KeepsExchange
    EverySendReturns
    DisconnectIsSeen
CHECK_DEADLOCK FALSE

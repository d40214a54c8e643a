SPECIFICATION MCSpec
CONSTANTS
    NoAgent = NoAgent
    ann = ann
    a = a
    b = b
    Agent = {ann}
    Task = {a, b}
    Owner <- OneOwner
    Children <- BisChildOfA
    Cli = {b}
    MaxLive = 2
    MaxUpsets = 2
\* Every task may end BLOCKED or DONE.
CHECK_DEADLOCK FALSE
INVARIANTS
    BusyAgentOnlyByRace
    NobodyLeavesSilently
PROPERTIES
    QueuedIsTakenUp
    WaitingEnds

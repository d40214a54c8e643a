SPECIFICATION SessionSpec
CONSTANTS
    NoAgent = NoAgent
    NoTask = NoTask
    NoWorker = NoWorker
    goal = goal
    init = init
    epic1 = epic1
    epic2 = epic2
    epic3 = epic3
    Task = {goal, init, epic1, epic2, epic3}
    Worker = {w1, w2}
    Kind <- MCKind
    Parent <- MCParent
    Start <- LastEpics
    Moves <- Endings
    Filings <- LateEpic
    Budgets <- EpicBudgets
    Charges <- WorkingEpic
PROPERTIES
    CommitsFollowTheBoard
    EveryTransactionEnds

SPECIFICATION Spec
CONSTANTS
    NoAgent = NoAgent
    ceo = ceo
    lead = lead
    m1 = m1
    n1 = n1
    m2 = m2
    m3 = m3
    call = call
    hook = hook
    Agent = {ceo, lead, m1, n1, m2, m3}
    Executive = {ceo}
    NameOf <- MCName
    NumberOf <- MCNumber
    Lead = {lead}
    Member = {m1, n1, m2, m3}
    StartTeams <- MCTeams
    Call = call
    Hook = hook
    Tab = {1}
    Movable = {ceo, m1}
    Heads = {0, 1}
    Needs = {0, 3}
    Attempts = 3
    MaxActs = 3
    MaxUpsets = 1
\* The project may be executing.
CHECK_DEADLOCK FALSE
INVARIANTS
    LinesFormAForest
    HiresAreGranted
    ExecutingIsReady
    AskedOnceUnlessRaced
    ConfirmedPlanIsEnough
PROPERTIES
    PlanningMovesOn

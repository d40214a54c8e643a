SPECIFICATION Spec
CONSTANTS
    NoAgent = NoAgent
    NoTask = NoTask
    dev = dev
    lead = lead
    goal = goal
    init = init
    epic = epic
    Task = {goal, init, epic}
    Agent = {dev, lead}
    ReassignLimit = 1
    Kind <- MCKind
    Parent <- MCParent
    DefaultRole <- MCDefaultRole
    Above <- MCAbove
    HelperRequests <- EpicHelper
    EdgeRequests <- PairEdges
    Creators <- TheFounder
    OwnerRequests <- EpicOwner
\* Every task has ended and every edge is resolved.
CHECK_DEADLOCK FALSE
INVARIANTS
    DeliveryRestsOnReviewedWork
    NoDependencyCycle
    NoStrandedContainer
PROPERTIES
    FollowsTheBoard

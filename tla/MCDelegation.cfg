SPECIFICATION DelegationSpec
CONSTANTS
    first = first
    later = later
    Agent = {ann, bob}
    Child = {first, later}
    Manager = {mgr}
    Sweep = sweep
    NoAgent = NoAgent
    NoChild = NoChild
    NoBudget = NoBudget
    WipLimit <- MCWipLimit
    QueueCap = 1
    ReassignCap = 1
    ParentBudget = 10
    Effort <- MCEffort
    Explicit <- MCExplicit
    Start <- MCStart
    MaxDelegations = 2
    MaxCrashes = 1
\* Every child may have ended.
CHECK_DEADLOCK FALSE
INVARIANTS
    QueueOverfilledByRaceOnly
    SharesFitThePool
PROPERTIES
    OrphansAreAssigned

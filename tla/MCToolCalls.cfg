SPECIFICATION MCSpec
CONSTANTS
    ann = ann
    cto = cto
    build = build
    look = look
    ask = ask
    work = work
    free = free
    NoBudget = NoBudget
    Agent = {ann, cto}
    Task = {work, free}
    Call = {build, look, ask}
    AgentOf <- MCAgentOf
    TaskOf <- MCTaskOf
    Estimate <- MCEstimate
    SideEffectFree = {look}
    AuditOnly = {ask}
    Budget <- MCBudget
    Spared = {cto}
    Limits = {2, 3}
    Attempts <- MCAttempts
    MaxSteps = 1
    MaxUpsets = 2
\* Every call may have been answered.
CHECK_DEADLOCK FALSE
INVARIANTS
    EveryCallIsBilledOnce
    CallsKeepTheBudget
    BreakerHolds
    SideEffectsHappenOnce

SPECIFICATION MemorySpec
CONSTANTS
    w1 = w1
    w2 = w2
    e1 = e1
    e2 = e2
    e3 = e3
    e4 = e4
    e5 = e5
    e6 = e6
    Window = {w1, w2}
    Event = {e1, e2, e3, e4, e5, e6}
    None = None
    TaskOf <- MCTaskOf
    ProjectOf <- MCProjectOf
    retry = retry
    wait = wait
    Text = {retry, wait}
    Type = {"failure", "decision"}
    Yields <- MCYields
    ConfidenceCap = 60
    Rules <- MCRules
    SourceLimit = 1
    MaxMemories = 3
    MaxMishaps = 1
\* Every window may have been consolidated.
CHECK_DEADLOCK FALSE
INVARIANTS
    NoDuplicateOfWhatWasKnown
    PolicyRestsOnSeveralIncidents
PROPERTIES
    EvidenceIsWeighed

SPECIFICATION Spec
CONSTANTS
    NoAgent = NoAgent
    dev = dev
    lead = lead
    Agent = {dev, lead}
    FirstOwner = dev
    Eligible <- Anyone
    Attempts = 3
    MaxRows = 4
    MaxReassign = 1
    MaxMishap = 1
\* The task ends, or its rows reach their bound.
CHECK_DEADLOCK FALSE
INVARIANTS
    OneOpenRound
    MergedOnceThenDone
    MergedWorkWasAccepted
PROPERTIES
    ReviewIsDecided
    QaIsLeft

SPECIFICATION Spec
CONSTANTS
    Shown = 1
    MaxApprovals = 2
    MaxUpsets = 1
\* The task may be DONE.
CHECK_DEADLOCK FALSE
INVARIANTS
    DecisionIsDelivered
PROPERTIES
    DecidedIsFinal

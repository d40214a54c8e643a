SPECIFICATION Spec
CONSTANTS
    Tool = {t1}
    Cli = {s1}
    MaxLevel = 3
    MaxRows = 2
    MaxCalls = 4
    MaxUpsets = 1
\* The bound on calls ends every behaviour.
CHECK_DEADLOCK FALSE
INVARIANTS
    OneWorkspaceUnlessRaced
    CallsRunAtTheirLevel
    MergeEndsTheWorkspace
    NothingOutlivesTheWorkspace

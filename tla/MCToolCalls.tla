------------------------------ MODULE MCToolCalls ------------------------------
EXTENDS ToolCalls
CONSTANTS ann, cto, build, look, ask, work, free

MCAgentOf == [c \in Call |-> ann]
\* build and ask compete for the budget of work; look is under the company's day.
MCTaskOf == [c \in Call |-> IF c = look THEN free ELSE work]
MCEstimate == [c \in Call |-> IF c = build THEN 2 ELSE 1]
MCAttempts == [c \in Call |-> IF c = build THEN 2 ELSE 1]
MCBudget == [t \in Task |-> IF t = work THEN 2 ELSE NoBudget]
\* The day starts with the higher limit; the lower one may be set later.
MCInit == Init /\ limit = 3
MCSpec == MCInit /\ [][Next]_vars
================================================================================

------------------------------ MODULE MCAgentTurns ------------------------------
EXTENDS AgentTurns
CONSTANTS ann, a, b

OneOwner == [t \in Task |-> ann]
BisChildOfA == [t \in Task |-> IF t = a THEN {b} ELSE {}]

\* Two tasks from the start with every upset spent; one task with all of them to
\* come; or, with all of them to come, the moment after b ended a's wait.
MCInit ==
    /\ edge = [t \in Task |-> {}]
    /\ run = [id \in Id |-> "none"]
    /\ leaked = {} /\ ended = {} /\ raced = {} /\ dropped = {}
    /\ \/ /\ status = [t \in Task |-> "PLANNED"]
          /\ told = {} /\ upsets = MaxUpsets
       \/ /\ \E t \in Task : status = [u \in Task |-> IF u = t THEN "PLANNED" ELSE "DONE"]
          /\ told = {} /\ upsets = 0
       \/ /\ status = [t \in Task |-> IF t = a THEN "WAITING" ELSE "DONE"]
          /\ told = {<<a, b>>} /\ upsets = 0

MCSpec == MCInit /\ [][Next]_vars /\ Fairness
================================================================================

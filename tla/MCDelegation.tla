------------------------------ MODULE MCDelegation ------------------------------
(* A manager and the sweep hand out two children to a team of two.         *)
EXTENDS Delegation
CONSTANTS first, later

MCWipLimit == [a \in Agent |-> 1]
MCEffort == [t \in Child |-> IF t = later THEN 2 ELSE 1]
\* One child has a budget of its own, the other one inherits its share.
MCExplicit == [t \in Child |-> IF t = first THEN 2 ELSE NoBudget]
MCStart == [t \in Child |-> IF t = first THEN "DRAFT" ELSE "BACKLOG"]
================================================================================

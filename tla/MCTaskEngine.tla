------------------------------ MODULE MCTaskEngine ------------------------------
(* Small instances of TaskEngine for TLC.                                  *)
EXTENDS TaskEngine

CONSTANTS dev, lead, goal, init, epic

\* The lead is the developer's manager, and a reviewer of what is not his.
MCDefaultRole == [a \in Agent |-> IF a = lead THEN "lead" ELSE "member"]
MCAbove == [a \in Agent |-> {lead} \ {a}]

MCKind == [t \in Task |-> CASE t = goal -> "goal"
                            [] t = init -> "initiative"
                            [] OTHER -> "epic"]
MCParent == [t \in Task |-> CASE t = init -> goal
                              [] t = epic -> init
                              [] OTHER -> NoTask]

\* Who files tasks, and the rows and edges the callers ask for.
TheFounder == {NoAgent}
EpicOwner == {<<epic, dev>>, <<epic, lead>>}
EpicHelper == {<<epic, dev, "qa">>}
\* A goal that waits for its epic, and an epic that waits for its goal.
PairEdges == {<<goal, epic>>, <<epic, goal>>}
================================================================================

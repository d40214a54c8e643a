--------------------------- MODULE MCTaskTransactions ---------------------------
(* Small instances of TaskTransactions for TLC.                            *)
EXTENDS TaskTransactions

CONSTANTS goal, init, epic1, epic2, epic3

MCKind == [t \in Task |-> CASE t = goal -> "goal"
                            [] t = init -> "initiative"
                            [] OTHER    -> "epic"]
MCParent == [t \in Task |-> CASE t = goal -> NoTask
                              [] t = init -> goal
                              [] OTHER    -> init]

\* A goal on its last epics: one in QA, one at work, one not filed yet.
LastEpics == [t \in Task |-> CASE t = epic1 -> "QA"
                               [] t = epic2 -> "IN_PROGRESS"
                               [] t = epic3 -> "ABSENT"
                               [] OTHER     -> "IN_PROGRESS"]
Endings == {<<epic1, "DONE">>, <<epic2, "FAILED">>, <<epic2, "CANCELLED">>,
            <<epic3, "CANCELLED">>, <<init, "CANCELLED">>, <<goal, "CANCELLED">>}
LateEpic == {epic3}
EpicBudgets == {epic2}
WorkingEpic == {epic1}
================================================================================

-------------------------------- MODULE TaskTree --------------------------------
(***************************************************************************)
(* The task hierarchy and the container roll-up of                         *)
(* packages/db/src/task-engine.ts, as functions of the task statuses: a    *)
(* goal or an initiative holds no work of its own and closes when its      *)
(* children have ended.                                                    *)
(***************************************************************************)
EXTENDS TaskMachine

CONSTANTS
    Task,    \* the ids a caller may create
    NoTask,  \* the null of parent_id
    Kind,    \* [Task -> TaskKinds], the kind each id is created with
    Parent   \* [Task -> Task \cup {NoTask}], the parent it names

TaskKinds == {"goal", "initiative", "epic", "task", "subtask"}
Containers == {"goal", "initiative"}

ASSUME TreeAssumption ==
    /\ NoTask \notin Task
    /\ Kind \in [Task -> TaskKinds]
    /\ Parent \in [Task -> Task \cup {NoTask}]

\* KIND_PARENT: a kind sits exactly one level under its parent's.
LevelUp == {<<"initiative", "goal">>, <<"epic", "initiative">>,
            <<"task", "epic">>, <<"subtask", "task">>}
Parentless == {"goal", "task"}

\* A container is not closed by hand: its DONE or FAILED comes from roll-up.
ClosedByHand(t, to) == Kind[t] \in Containers /\ to \in {"DONE", "FAILED"}

Children(s, p) == {c \in Task : Parent[c] = p /\ s[c] # "ABSENT"}

\* A FAILED child is tolerated when a sibling of the same kind delivered.
Unreplaced(s, p) ==
    \E f \in Children(s, p) :
        /\ s[f] = "FAILED"
        /\ \A d \in Children(s, p) : s[d] = "DONE" => Kind[d] # Kind[f]

\* rollUpContainer gets past its early returns; cancellations alone close nothing.
RollsUp(s, p) ==
    /\ p # NoTask
    /\ Kind[p] \in Containers
    /\ s[p] \notin Terminal
    /\ \A c \in Children(s, p) : s[c] \in Terminal
    /\ \E c \in Children(s, p) : s[c] \in {"DONE", "FAILED"}

RollUp(s, p) ==
    IF RollsUp(s, p)
    THEN [s EXCEPT ![p] = IF Unreplaced(s, p) THEN "FAILED" ELSE "DONE"]
    ELSE s

\* Mutant: the roll-up stops at the parent.
SettledOnce(s, t, to) ==
    LET written == [s EXCEPT ![t] = to]
    IN  IF to \in Terminal THEN RollUp(written, Parent[t]) ELSE written

\* The statuses after `to` is written to t: a terminal status rolls up into
\* the parent, and a parent that closes rolls up into its own.
Settled(s, t, to) ==
    LET written == [s EXCEPT ![t] = to]
        once == RollUp(written, Parent[t])
    IN  IF to \notin Terminal \/ ~ RollsUp(written, Parent[t])
        THEN written
        ELSE RollUp(once, Parent[Parent[t]])
================================================================================

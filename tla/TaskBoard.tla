------------------------------- MODULE TaskBoard --------------------------------
(***************************************************************************)
(* What the task engine promises about the statuses alone: a task is filed *)
(* as DRAFT, moves along the edges of the state machine one at a time, and *)
(* a move that ends it closes, in the same instant, every container above  *)
(* it that it completes.  TaskEngine implements this transaction by        *)
(* transaction, TaskTransactions statement by statement.                   *)
(***************************************************************************)
EXTENDS TaskTree

CONSTANT Start    \* [Task -> TaskStatus \cup {"ABSENT"}], the first statuses

VARIABLE status

Init == status = Start

File(t) ==
    /\ status[t] = "ABSENT"
    /\ Parent[t] # NoTask => status[Parent[t]] # "ABSENT"
    /\ status' = [status EXCEPT ![t] = "DRAFT"]

\* A goal or an initiative is closed by roll-up only.
Move(t, to) ==
    /\ CanTransition(status[t], to)
    /\ ~ ClosedByHand(t, to)
    /\ status' = Settled(status, t, to)

Next ==
    \/ \E t \in Task : File(t)
    \/ \E t \in Task, to \in TaskStatus : Move(t, to)

Spec == Init /\ [][Next]_status
================================================================================

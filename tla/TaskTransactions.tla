---------------------------- MODULE TaskTransactions ----------------------------
(***************************************************************************)
(* The task engine's transactions statement by statement: what Postgres    *)
(* lets interleave between the row locks of packages/db/src/task-engine.ts *)
(* (create, transitionInTx, rollUpContainer), delegation.ts                *)
(* (allocateBudget) and the agent worker's persistStep with costs.ts       *)
(* (recordCostInTx).  Isolation is READ COMMITTED: a statement sees what   *)
(* is committed when it runs, and its own transaction's writes.  Every     *)
(* transaction that emits an event holds the company's event_seq counter   *)
(* from then to its commit (sequences.ts), so the lock order is            *)
(*     transition: task, event_seq, parent, grandparent                    *)
(*     create:     task_number, parent, event_seq                          *)
(*     budget:     parent, task, event_seq                                 *)
(*     step:       event_seq, task                                         *)
(* and two of them can wait for one another; the database then aborts one. *)
(***************************************************************************)
EXTENDS TaskTree

CONSTANTS
    Start,      \* the statuses the run starts from
    Worker,     \* the database sessions
    NoWorker,
    Moves,      \* the <<task, status>> moves the callers ask for: a bound
    Filings,    \* the tasks the callers file: a bound
    Budgets,    \* the tasks whose budget a delegation materialises: a bound
    Charges     \* the tasks whose agent records a step that costs: a bound

Counters == {"event_seq", "task_number"}
Resources == Task \cup Counters

ASSUME SessionAssumption ==
    /\ NoWorker \notin Worker
    /\ Start \in [Task -> TaskStatus \cup {"ABSENT"}]
    /\ Moves \subseteq Task \X TaskStatus
    /\ Filings \subseteq Task
    /\ Budgets \subseteq {t \in Task : Parent[t] # NoTask}
    /\ Charges \subseteq Task

\* The rows there are and those to be filed, which create has let through: each
\* is a level under its parent (KIND_PARENT), whose row came first.
Rows == Filings \cup {t \in Task : Start[t] # "ABSENT"}

ASSUME RowAssumption ==
    /\ \A t \in Rows : Parent[t] # NoTask => <<Kind[t], Kind[Parent[t]]>> \in LevelUp
    /\ \A t \in Task : Start[t] # "ABSENT" /\ Parent[t] # NoTask => Start[Parent[t]] # "ABSENT"

VARIABLES
    committed, \* tasks.status as committed
    held,      \* [Resources -> Worker \cup {NoWorker}], the row locks
    pc,        \* [Worker -> Steps], the statement a session runs next
    on,        \* [Worker -> Task \cup {NoTask}], the row that statement is about
    asked,     \* [Worker -> Moves], the move a transition was called for
    view       \* [Worker -> [Task -> statuses]], committed rows and its own writes

sessionVars == <<committed, held, pc, on, asked, view>>

Steps == {"idle", "lock_task", "emit", "lock_parent", "look",
          "number", "insert", "file_event", "budget_parent", "budget_task",
          "budget_event", "step_event", "step_cost", "commit"}

NoMove == <<NoTask, "ABSENT">>

-----------------------------------------------------------------------------
(* Locks.                                                                  *)

\* Mutant: the parent is read without FOR UPDATE, before the event is numbered.
WantsNoParentLock(w) ==
    CASE pc[w] \in {"lock_task", "budget_task", "step_cost"} -> {on[w]}
      [] pc[w] \in {"file_event", "budget_event", "step_event"} -> {"event_seq"}
      [] pc[w] = "number" -> {"task_number"}
      [] OTHER -> {}

\* What the session's next statement must hold before it runs.
Wants(w) ==
    CASE pc[w] \in {"lock_task", "lock_parent", "budget_task", "step_cost"} -> {on[w]}
      [] pc[w] \in {"insert", "budget_parent"} -> {Parent[on[w]]} \ {NoTask}
      [] pc[w] \in {"emit", "file_event", "budget_event", "step_event"} -> {"event_seq"}
      [] pc[w] = "number" -> {"task_number"}
      [] OTHER -> {}

WaitsFor(w) == {held[r] : r \in Wants(w)} \ {w, NoWorker}

\* A statement that gets its lock keeps it to the end of the transaction.
Acquire(w) ==
    /\ WaitsFor(w) = {}
    /\ held' = [r \in Resources |-> IF r \in Wants(w) THEN w ELSE held[r]]

Release(w) == held' = [r \in Resources |-> IF held[r] = w THEN NoWorker ELSE held[r]]

Goto(w, step, row) ==
    /\ pc' = [pc EXCEPT ![w] = step]
    /\ on' = [on EXCEPT ![w] = row]

\* The rows as the session sees them: what it wrote hides what is committed.
Sees(w) == [t \in Task |-> IF view[w][t] # "ABSENT" THEN view[w][t] ELSE committed[t]]
Write(w, t, to) == view' = [view EXCEPT ![w][t] = to]
NothingWritten == [t \in Task |-> "ABSENT"]

\* The transaction is over and its locks are free.
End(w) ==
    /\ Release(w)
    /\ Goto(w, "idle", NoTask)
    /\ asked' = [asked EXCEPT ![w] = NoMove]
    /\ view' = [view EXCEPT ![w] = NothingWritten]

-----------------------------------------------------------------------------
(* transition                                                              *)

Begin(w) ==
    /\ pc[w] = "idle"
    /\ \E m \in Moves :
        /\ Goto(w, "lock_task", m[1])
        /\ asked' = [asked EXCEPT ![w] = m]
    /\ UNCHANGED <<committed, held, view>>

\* SELECT ... FOR UPDATE, the guards on the row it returns, the UPDATE.
LockTask(w) ==
    LET to == asked[w][2]
        t == on[w]
    IN  /\ pc[w] = "lock_task"
        /\ WaitsFor(w) = {}
        /\ IF CanTransition(Sees(w)[t], to) /\ ~ ClosedByHand(t, to)
           THEN /\ Acquire(w)
                /\ Write(w, t, to)
                /\ Goto(w, "emit", t)
                /\ UNCHANGED <<committed, asked>>
           ELSE End(w) /\ UNCHANGED committed

\* emitDomainEvent, and on to the parent when the row on[w] has ended.
Emit(w) ==
    LET t == on[w]
        up == Sees(w)[t] \in Terminal /\ Parent[t] # NoTask
    IN  /\ pc[w] = "emit"
        /\ Acquire(w)
        /\ IF up THEN Goto(w, "lock_parent", Parent[t]) ELSE Goto(w, "commit", t)
        /\ UNCHANGED <<committed, asked, view>>

\* rollUpContainer's SELECT ... FOR UPDATE of the parent, whatever its kind.
LockParent(w) ==
    LET p == on[w]
    IN  /\ pc[w] = "lock_parent"
        /\ Acquire(w)
        /\ IF Kind[p] \in Containers /\ Sees(w)[p] \notin Terminal
           THEN Goto(w, "look", p)
           ELSE Goto(w, "commit", p)
        /\ UNCHANGED <<committed, asked, view>>

\* Its SELECT of the children, and the derived transition it ends in.
Look(w) ==
    LET p == on[w]
        closed == RollUp(Sees(w), p)[p]
    IN  /\ pc[w] = "look"
        /\ IF RollsUp(Sees(w), p)
           THEN Write(w, p, closed) /\ Goto(w, "emit", p)
           ELSE Goto(w, "commit", p) /\ UNCHANGED view
        /\ UNCHANGED <<committed, held, asked>>

-----------------------------------------------------------------------------
(* create: the counter, the row, whose foreign key locks the parent, and   *)
(* the event.                                                              *)

BeginFiling(w) ==
    /\ pc[w] = "idle"
    /\ \E t \in Filings :
        /\ committed[t] = "ABSENT"
        /\ Parent[t] # NoTask => committed[Parent[t]] # "ABSENT"
        /\ Goto(w, "number", t)
    /\ UNCHANGED <<committed, held, asked, view>>

TakeNumber(w) ==
    /\ pc[w] = "number"
    /\ Acquire(w)
    /\ Goto(w, "insert", on[w])
    /\ UNCHANGED <<committed, asked, view>>

\* A second INSERT of the id fails on the primary key.
Insert(w) ==
    /\ pc[w] = "insert"
    /\ IF committed[on[w]] # "ABSENT"
       THEN End(w) /\ UNCHANGED committed
       ELSE /\ Acquire(w)
            /\ Write(w, on[w], "DRAFT")
            /\ Goto(w, "file_event", on[w])
            /\ UNCHANGED <<committed, asked>>

-----------------------------------------------------------------------------
(* allocateBudget writes no status; it locks against the others' order.    *)

BeginBudget(w) ==
    /\ pc[w] = "idle"
    /\ \E t \in Budgets :
        /\ committed[t] # "ABSENT"
        /\ Goto(w, "budget_parent", t)
    /\ UNCHANGED <<committed, held, asked, view>>

\* Mutant: the early return leaves the transaction open behind it.
ReturnsHoldingParent(w) ==
    /\ pc[w] = "budget_parent"
    /\ Acquire(w)
    /\ Goto(w, "budget_task", on[w]) \/ Goto(w, "idle", NoTask)
    /\ UNCHANGED <<committed, asked, view>>

\* It returns early when the parent has no budget or an exhausted pool.
LockBudgetParent(w) ==
    /\ pc[w] = "budget_parent"
    /\ WaitsFor(w) = {}
    /\ \/ Acquire(w) /\ Goto(w, "budget_task", on[w]) /\ UNCHANGED <<asked, view>>
       \/ End(w)
    /\ UNCHANGED committed

WriteBudget(w) ==
    /\ pc[w] = "budget_task"
    /\ Acquire(w)
    /\ Goto(w, "budget_event", on[w])
    /\ UNCHANGED <<committed, asked, view>>

\* The last event of create and of allocateBudget.
LastEvent(w) ==
    /\ pc[w] \in {"file_event", "budget_event"}
    /\ Acquire(w)
    /\ Goto(w, "commit", on[w])
    /\ UNCHANGED <<committed, asked, view>>

-----------------------------------------------------------------------------
(* persistStep: the step's event comes before the cost that updates the    *)
(* task's row, against the order of every transition.                      *)

BeginStep(w) ==
    /\ pc[w] = "idle"
    /\ \E t \in Charges :
        /\ committed[t] # "ABSENT"
        /\ Goto(w, "step_event", t)
    /\ UNCHANGED <<committed, held, asked, view>>

\* A step that cost nothing leaves the task alone.
StepEvent(w) ==
    /\ pc[w] = "step_event"
    /\ Acquire(w)
    /\ Goto(w, "step_cost", on[w]) \/ Goto(w, "commit", on[w])
    /\ UNCHANGED <<committed, asked, view>>

\* The ledger entry and tasks.spent_cents; its own event needs no new lock.
StepCost(w) ==
    /\ pc[w] = "step_cost"
    /\ Acquire(w)
    /\ Goto(w, "commit", on[w])
    /\ UNCHANGED <<committed, asked, view>>

-----------------------------------------------------------------------------
(* The end of a transaction.                                               *)

Commit(w) ==
    /\ pc[w] = "commit"
    /\ committed' = Sees(w)
    /\ End(w)

\* A server that dies or a connection that is lost rolls its work back.
Lose(w) ==
    /\ pc[w] # "idle"
    /\ End(w)
    /\ UNCHANGED committed

\* w waits, in some number of hops, for itself.
Deadlocked(w) ==
    \E S \in SUBSET Worker :
        w \in S /\ \A v \in S : WaitsFor(v) \cap S # {}

\* deadlock_timeout: the database aborts one of the sessions of the cycle.
DetectDeadlock(w) ==
    /\ Deadlocked(w)
    /\ End(w)
    /\ UNCHANGED committed

-----------------------------------------------------------------------------
SessionInit ==
    /\ committed = Start
    /\ held = [r \in Resources |-> NoWorker]
    /\ pc = [w \in Worker |-> "idle"]
    /\ on = [w \in Worker |-> NoTask]
    /\ asked = [w \in Worker |-> NoMove]
    /\ view = [w \in Worker |-> NothingWritten]

TransitionStatement(w) == LockTask(w) \/ Emit(w) \/ LockParent(w) \/ Look(w)
CreateStatement(w) == TakeNumber(w) \/ Insert(w)
BudgetStatement(w) == LockBudgetParent(w) \/ WriteBudget(w)
StepStatement(w) == StepEvent(w) \/ StepCost(w)

\* The session's next statement, if its lock is free.
Statement(w) ==
    \/ TransitionStatement(w)
    \/ CreateStatement(w)
    \/ BudgetStatement(w)
    \/ LastEvent(w)
    \/ StepStatement(w)
    \/ Commit(w)

SessionNext ==
    \E w \in Worker :
        \/ Begin(w)
        \/ BeginFiling(w)
        \/ BeginBudget(w)
        \/ BeginStep(w)
        \/ Statement(w)
        \/ Lose(w)
        \/ DetectDeadlock(w)

\* The program awaits each statement and issues the next.  Postgres grants a
\* lock to its waiters in turn, so one that is freed again and again is got
\* (SF), and every cycle of waiters meets the deadlock detector (WF).
SessionFairness ==
    \A w \in Worker : SF_sessionVars(Statement(w)) /\ WF_sessionVars(DetectDeadlock(w))

SessionSpec == SessionInit /\ [][SessionNext]_sessionVars /\ SessionFairness

-----------------------------------------------------------------------------
(* Properties                                                              *)

SessionTypeOK ==
    /\ committed \in [Task -> TaskStatus \cup {"ABSENT"}]
    /\ held \in [Resources -> Worker \cup {NoWorker}]
    /\ pc \in [Worker -> Steps]
    /\ on \in [Worker -> Task \cup {NoTask}]
    /\ asked \in [Worker -> Moves \cup {NoMove}]
    /\ view \in [Worker -> [Task -> TaskStatus \cup {"ABSENT"}]]

\* Read committed and row locks are enough: whatever the sessions interleave,
\* each commit is one step of the board, with the containers it completes
\* closed in it: no lost update, no stale guard, no roll-up that missed the
\* sibling that ended, or the child that was filed, next to it.
CommittedBoard == INSTANCE TaskBoard WITH status <- committed
CommitsFollowTheBoard == CommittedBoard!Spec

\* Locks taken against the order of another transaction, or left behind by
\* one that failed, never stop the engine: every transaction ends.
EveryTransactionEnds == \A w \in Worker : (pc[w] # "idle") ~> (pc[w] = "idle")
================================================================================

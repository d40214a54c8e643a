------------------------------- MODULE Delegation -------------------------------
(***************************************************************************)
(* How the children of one task are handed out:                            *)
(* DelegationService.delegateTask of packages/db/src/delegation.ts, called *)
(* by the managers' delegate_task actions and by the sweep for orphaned    *)
(* children (stuck-tasks.ts).  Its capacity check, its two grooming moves, *)
(* the assignment, the budget share and the intervention it files at the   *)
(* reassignment limit are transactions of their own, so delegations        *)
(* interleave between them and a server that dies leaves them halfway.     *)
(*                                                                         *)
(* Who may delegate to whom, and which agent is the best one, is left to   *)
(* the callers' choice.  The team is the set Agent.  Assignments of the    *)
(* Founder ask for no capacity and are left out, and so are children filed *)
(* meanwhile; delegations with a budget of their own or with force have no *)
(* caller.                                                                 *)
(***************************************************************************)
EXTENDS Budgets

CONSTANTS
    Child,
    Manager,       \* sessions that delegate when their agents decide to
    Sweep,         \* the stuck-task sweep
    NoAgent, NoChild,
    WipLimit,      \* [Agent -> Nat], WIP_LIMIT_BY_ROLE
    QueueCap,      \* ASSIGNED_QUEUE_CAP
    ReassignCap,   \* the reassignment limit, 3
    ParentBudget,  \* tasks.budget_cents of the parent
    Effort,        \* [Child -> Nat \ {0}], context.estimatedEffort
    Explicit,      \* [Child -> Nat \cup {NoBudget}], the budget it is filed with
    Start,         \* [Child -> Unassigned], the statuses the run starts from
    MaxDelegations, \* delegations the managers ask for: a bound
    MaxCrashes      \* servers that die in the middle: a bound

Delegator == Manager \cup {Sweep}

Unassigned == {"DRAFT", "BACKLOG", "PLANNED"}
\* IN_PROGRESS stands for the five statuses that count as work in progress,
\* ENDED for the three terminal ones.
Status == Unassigned \cup {"ASSIGNED", "IN_PROGRESS", "ENDED"}
ASSUME DelegationAssumption ==
    /\ Sweep \notin Manager /\ NoAgent \notin Agent /\ NoChild \notin Child
    /\ IsFiniteSet(Child) /\ IsFiniteSet(Delegator) /\ IsFiniteSet(Agent)
    /\ WipLimit \in [Agent -> Nat]
    /\ {QueueCap, ReassignCap, ParentBudget, MaxDelegations, MaxCrashes} \subseteq Nat
    /\ Effort \in [Child -> Nat \ {0}]
    /\ Explicit \in [Child -> Nat \cup {NoBudget}]
    /\ Start \in [Child -> Unassigned]

Steps == {"none", "groom", "backlog", "plan", "assign", "share", "flag", "look", "create"}

VARIABLES
    status, owner, moves,  \* tasks.status, owner_agent_id, reassignment_count
    budget,                \* tasks.budget_cents
    flagged,               \* context.needsManagerIntervention
    filed,                 \* [Child -> Nat], interventions filed for it
    del,                   \* [Delegator -> where its delegateTask stands]
    asks, crashes,
    crowded                \* history: agents two delegations were bound for at once

tasks == <<status, owner, moves>>
counts == <<asks, crashes>>
delegationVars == <<tasks, budget, flagged, filed, del, counts, crowded>>

Idle == [pc |-> "none", task |-> NoChild, to |-> NoAgent, had |-> NoBudget]
Go(m, pc) == del' = [del EXCEPT ![m].pc = pc]
Return(m) == del' = [del EXCEPT ![m] = Idle]

Queued(a) == {t \in Child : owner[t] = a /\ status[t] = "ASSIGNED"}
Active(a) == {t \in Child : owner[t] = a /\ status[t] = "IN_PROGRESS"}

-----------------------------------------------------------------------------
(* delegateTask                                                            *)

\* Mutant: the queue may hold one more than its cap when it is asked.
HasRoomForOneMore(a) ==
    /\ Cardinality(Active(a)) < WipLimit[a]
    /\ Cardinality(Queued(a)) <= QueueCap
    /\ Cardinality(UNION {Active(b) : b \in Agent}) < 2 * Cardinality(Agent)

\* capacityCheck: the agent's work, its queue and the team's umbrella.
HasCapacity(a) ==
    /\ Cardinality(Active(a)) < WipLimit[a]
    /\ Cardinality(Queued(a)) < QueueCap
    /\ Cardinality(UNION {Active(b) : b \in Agent}) < 2 * Cardinality(Agent)

\* The delegations between their check and their assignment to a.
BoundFor(a) == {m \in Delegator : del[m].to = a /\
                   del[m].pc \in {"groom", "backlog", "plan", "assign"}}

\* A delegation that finds no capacity returns without a trace.
Check(m, t, a) ==
    /\ del[m].pc = "none"
    /\ HasCapacity(a)
    /\ del' = [del EXCEPT ![m] = [Idle EXCEPT !.pc = "groom", !.task = t, !.to = a]]
    /\ crowded' = IF BoundFor(a) = {} THEN crowded ELSE crowded \cup {a}
    /\ UNCHANGED <<tasks, budget, flagged, filed, crashes>>

\* A manager hands out any child, also one that somebody has.
Delegate(m) ==
    /\ asks < MaxDelegations
    /\ asks' = asks + 1
    /\ \E t \in Child, a \in Agent : Check(m, t, a)

\* Mutant: the sweep looks for children as they were filed.
FreshOrphans == {t \in Child : status[t] = "DRAFT" /\ owner[t] = NoAgent}

Orphans == {t \in Child : status[t] \in Unassigned /\ owner[t] = NoAgent}

\* The sweep's rule 3; resolveDelegateTarget prefers agents that have room.
SweepOrphan(t) ==
    /\ t \in Orphans
    /\ \E a \in Agent : Check(Sweep, t, a)
    /\ UNCHANGED asks

\* The status is read, and decides which moves precede the assignment.
Groom(m) ==
    /\ del[m].pc = "groom"
    /\ Go(m, CASE status[del[m].task] = "DRAFT" -> "backlog"
               [] status[del[m].task] = "BACKLOG" -> "plan"
               [] OTHER -> "assign")
    /\ UNCHANGED <<tasks, budget, flagged, filed, counts, crowded>>

\* One grooming transition; when another one came first it is illegal.
Move(m, from, to, then) ==
    LET t == del[m].task
    IN  /\ IF status[t] = from
           THEN status' = [status EXCEPT ![t] = to] /\ Go(m, then)
           ELSE Return(m) /\ UNCHANGED status
        /\ UNCHANGED <<owner, moves, budget, flagged, filed, counts, crowded>>

ToBacklog(m) == del[m].pc = "backlog" /\ Move(m, "DRAFT", "BACKLOG", "plan")
ToPlanned(m) == del[m].pc = "plan" /\ Move(m, "BACKLOG", "PLANNED", "assign")

AtLimit(t) == moves[t] >= ReassignCap

\* TaskStateService.assign, and the row it returns.
Assign(m) ==
    LET t == del[m].task
        a == del[m].to
        again == status[t] # "PLANNED" /\ owner[t] = a
        reassigned == owner[t] \notin {NoAgent, a}
        limited == reassigned /\ AtLimit(t)
    IN  /\ del[m].pc = "assign"
        /\ IF limited
           THEN /\ del' = [del EXCEPT ![m].pc = "flag", ![m].to = NoAgent]
                /\ UNCHANGED tasks
           ELSE /\ status' = IF status[t] = "PLANNED"
                             THEN [status EXCEPT ![t] = "ASSIGNED"] ELSE status
                /\ owner' = [owner EXCEPT ![t] = a]
                /\ moves' = IF reassigned /\ ~ again
                            THEN [moves EXCEPT ![t] = @ + 1] ELSE moves
                /\ del' = [del EXCEPT ![m].pc = "share", ![m].to = NoAgent,
                                      ![m].had = budget[t]]
        /\ UNCHANGED <<budget, flagged, filed, counts, crowded>>

-----------------------------------------------------------------------------
(* allocateBudget, under the lock on the parent                            *)

Budgeted(S) == {t \in S : budget[t] # NoBudget}
Own == {t \in Child : Explicit[t] # NoBudget}
Open == {t \in Child : status[t] # "ENDED"}

Pool == (ParentBudget * 8) \div 10

\* Mutant: siblings that have ended give their share back.
AllocatedToOpen(t) == Total(budget, Budgeted(Open \ {t}))

Allocated(t) == Total(budget, Budgeted(Child \ {t}))

\* floor(B * 0.8 * effort / total), or what the siblings have left.
Share(t) ==
    LET total == Total(Effort, Open)
        fair == (ParentBudget * 8 * Effort[t]) \div (10 * IF total = 0 THEN 1 ELSE total)
        left == Pool - Allocated(t)
    IN  IF fair < left THEN fair ELSE left

\* Whether it has one was read by the assignment.
AllocateBudget(m) ==
    LET t == del[m].task
    IN  /\ del[m].pc = "share"
        /\ Return(m)
        /\ IF del[m].had # NoBudget \/ Share(t) <= 0
           THEN UNCHANGED budget
           ELSE budget' = [budget EXCEPT ![t] = Share(t)]
        /\ UNCHANGED <<tasks, flagged, filed, counts, crowded>>

-----------------------------------------------------------------------------
(* flagManagerIntervention                                                 *)

\* "already flagged once" ends the transaction, not the function.
Flag(m) ==
    /\ del[m].pc = "flag"
    /\ flagged' = flagged \cup {del[m].task}
    /\ Go(m, "look")
    /\ UNCHANGED <<tasks, budget, filed, counts, crowded>>

\* Is there an intervention for the task?  The caller learns of
\* the limit either way.
Look(m) ==
    LET t == del[m].task
    IN  /\ del[m].pc = "look"
        /\ IF filed[t] > 0 THEN Return(m) ELSE Go(m, "create")
        /\ UNCHANGED <<tasks, budget, flagged, filed, counts, crowded>>

FileIntervention(m) ==
    LET t == del[m].task
    IN  /\ del[m].pc = "create"
        /\ filed' = [filed EXCEPT ![t] = @ + 1]
        /\ Return(m)
        /\ UNCHANGED <<tasks, budget, flagged, counts, crowded>>

-----------------------------------------------------------------------------
(* The rest of the system.                                                 *)

\* The owner takes the child up, and ends it; anybody may cancel it.
Become(t, from, to) ==
    /\ status[t] \in from
    /\ status' = [status EXCEPT ![t] = to]
    /\ UNCHANGED <<owner, moves, budget, flagged, filed, del, counts, crowded>>

Take(t) == Become(t, {"ASSIGNED"}, "IN_PROGRESS")
Finish(t) == Become(t, {"IN_PROGRESS"}, "ENDED")
Cancel(t) == Become(t, Status \ {"ENDED"}, "ENDED")

\* A process dies between two transactions of a delegation.
Crash(m) ==
    /\ crashes < MaxCrashes
    /\ del[m].pc # "none"
    /\ crashes' = crashes + 1
    /\ Return(m)
    /\ UNCHANGED <<tasks, budget, flagged, filed, asks, crowded>>

-----------------------------------------------------------------------------
DelegationInit ==
    /\ status = Start
    /\ owner = [t \in Child |-> NoAgent]
    /\ moves = [t \in Child |-> 0]
    /\ budget = Explicit
    /\ flagged = {}
    /\ filed = [t \in Child |-> 0]
    /\ del = [m \in Delegator |-> Idle]
    /\ asks = 0 /\ crashes = 0
    /\ crowded = {}

\* The transactions of a delegation that has begun.
GoOn(m) ==
    \/ Groom(m) \/ ToBacklog(m) \/ ToPlanned(m) \/ Assign(m)
    \/ AllocateBudget(m)
    \/ Flag(m) \/ Look(m) \/ FileIntervention(m)

DelegationNext ==
    \/ \E m \in Manager : Delegate(m)
    \/ \E m \in Delegator : GoOn(m) \/ Crash(m)
    \/ \E t \in Child : SweepOrphan(t) \/ Take(t) \/ Finish(t) \/ Cancel(t)

\* A delegation runs to its end, owners work their queues off, and each run of
\* the sweep tries every orphan: one that is tried again and again with room
\* for it is got hold of (SF).
DelegationFairness ==
    /\ \A m \in Delegator : WF_delegationVars(GoOn(m))
    /\ \A t \in Child : WF_delegationVars(Take(t) \/ Finish(t)) /\ SF_delegationVars(SweepOrphan(t))

DelegationSpec == DelegationInit /\ [][DelegationNext]_delegationVars /\ DelegationFairness

-----------------------------------------------------------------------------
(* Properties                                                              *)

DelegationTypeOK ==
    /\ status \in [Child -> Status]
    /\ owner \in [Child -> Agent \cup {NoAgent}]
    /\ moves \in [Child -> 0..ReassignCap]
    /\ budget \in [Child -> Nat \cup {NoBudget}]
    /\ flagged \subseteq Child
    /\ filed \in [Child -> Nat]
    /\ del \in [Delegator -> [pc : Steps, task : Child \cup {NoChild},
                              to : Agent \cup {NoAgent}, had : Nat \cup {NoBudget}]]
    /\ asks \in 0..MaxDelegations /\ crashes \in 0..MaxCrashes
    /\ crowded \subseteq Agent

\* The check and the assignment are apart: an agent's queue is overfilled,
\* but only when two delegations were bound for the agent at once.
QueueOverfilledByRaceOnly ==
    \A a \in Agent : Cardinality(Queued(a)) > QueueCap => a \in crowded

\* What is shared out never exceeds the four fifths of the parent's budget
\* that the children filed before with budgets of their own leave.
SharesFitThePool ==
    LET total == Total(budget, Budgeted(Child \ Own))
    IN  total > 0 => total + Total(Explicit, Own) <= Pool

\* A child that nobody has is assigned or ended, wherever a delegation of it
\* stopped and whoever else is handed out meanwhile.
OrphansAreAssigned ==
    \A t \in Child :
        (owner[t] = NoAgent) ~> (owner[t] # NoAgent \/ status[t] = "ENDED")
================================================================================

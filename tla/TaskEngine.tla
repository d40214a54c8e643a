------------------------------ MODULE TaskEngine -------------------------------
(***************************************************************************)
(* The task engine of packages/db/src/task-engine.ts at the grain of its   *)
(* database transactions: TasksService.create, addDependency and           *)
(* removeDependency, TaskStateService.transition and assign, with the      *)
(* container roll-up and the dependency resolution a terminal transition   *)
(* carries in the same transaction.  TaskTransactions looks inside those   *)
(* transactions, statement by statement.                                   *)
(*                                                                         *)
(* The service promises its properties to every caller, so an actor here   *)
(* may ask for any target status at any time; what the callers really ask  *)
(* for is narrower.  An assignment to an agent that is not active changes  *)
(* nothing: Agent is the set of active ones.                               *)
(***************************************************************************)
EXTENDS Integers, TaskTree

CONSTANTS
    Agent,
    DefaultRole,    \* [Agent -> roles], the default_role of its position
    Above,          \* [Agent -> SUBSET Agent], its transitive reports_to chain
    ReassignLimit,  \* the reassignment cap (3 in the code)
    Creators,       \* who files tasks, NoAgent for the Founder: a bound
    OwnerRequests,  \* the <<task, agent>> owners callers assign: a bound
    HelperRequests, \* the <<task, agent, role>> rows callers insert: a bound
    EdgeRequests    \* the <<task, predecessor>> edges callers add: a bound

HelperRoles == {"reviewer", "qa", "collaborator"}

ASSUME EngineAssumption ==
    /\ NoAgent \notin Agent
    /\ Above \in [Agent -> SUBSET Agent]
    /\ ReassignLimit \in Nat
    /\ Creators \subseteq Agent \cup {NoAgent}
    /\ OwnerRequests \subseteq Task \X Agent
    /\ HelperRequests \subseteq Task \X Agent \X HelperRoles
    /\ EdgeRequests \subseteq Task \X Task

VARIABLES
    status,      \* tasks.status, "ABSENT" before the row exists
    owner,       \* tasks.owner_agent_id
    creator,     \* tasks.creator_agent_id, NoAgent for the Founder
    reassigned,  \* tasks.reassignment_count
    helpers,     \* the non-owner rows of task_assignments
    blocks,      \* task_dependencies with resolved_at null
    resolved,    \* task_dependencies with resolved_at set
    accepted     \* history: who took REVIEW -> QA since the last rework, and
                 \* whose work it was at that moment

vars == <<status, owner, creator, reassigned, helpers, blocks, resolved, accepted>>

AnyAgent == Agent \cup {NoAgent}
Actors == [kind: {"founder", "system", "approval_engine"}, agent: {NoAgent}]
            \cup [kind: {"agent"}, agent: Agent]
NotAccepted == [by |-> NoAgent, work |-> NoAgent]

Exists(t) == t # NoTask /\ status[t] # "ABSENT"

-----------------------------------------------------------------------------
(* What a terminal status carries with it.                                 *)

\* resolveDependents, for every task the transaction brings to DONE.
Reached(s, t) == s[t] # "DONE" /\ status'[t] = "DONE"

ResolveDependents ==
    LET done == {e \in blocks : Reached(status, e[2])}
    IN  /\ blocks' = blocks \ done
        /\ resolved' = resolved \cup done

-----------------------------------------------------------------------------
(* actorClasses: the classes of an actor for a task, from org data.        *)

IsManager(a, t) ==
    \/ DefaultRole[a] = "executive"
    \/ owner[t] # NoAgent /\ a \in Above[owner[t]]
    \/ owner[t] = NoAgent /\ DefaultRole[a] \in {"manager", "lead"}

AgentClasses(a, t) ==
    {k \in TaskActorKinds :
        \/ k = "owner" /\ owner[t] = a
        \/ k = "creator" /\ creator[t] = a
        \/ k = "reviewer" /\ (<<t, a, "reviewer">> \in helpers
                                \/ DefaultRole[a] \in {"reviewer", "lead"})
        \/ k = "qa" /\ (<<t, a, "qa">> \in helpers \/ DefaultRole[a] = "reviewer")
        \/ k = "manager" /\ IsManager(a, t)}

ActorClasses(actor, t) ==
    IF actor.kind = "agent" THEN AgentClasses(actor.agent, t) ELSE {actor.kind}

\* Mutant: the permission is asked for, the edge is not.
MayTakePermitted(actor, t, to) ==
    \E k \in ActorClasses(actor, t) : k \in PermittedKinds(status[t], to)

MayTake(actor, t, to) ==
    \E k \in ActorClasses(actor, t) :
        AuthorizeTaskTransition(status[t], to, k, actor.agent, owner[t])

-----------------------------------------------------------------------------
Init ==
    /\ status = [t \in Task |-> "ABSENT"]
    /\ owner = [t \in Task |-> NoAgent]
    /\ creator = [t \in Task |-> NoAgent]
    /\ reassigned = [t \in Task |-> 0]
    /\ helpers = {}
    /\ blocks = {}
    /\ resolved = {}
    /\ accepted = [t \in Task |-> NotAccepted]

\* A replayed create finds the row and returns it: no step.  The parent's
\* status is not looked at.  Four levels below a goal keep the depth under 5.
Create(t, by) ==
    /\ status[t] = "ABSENT"
    /\ IF Parent[t] = NoTask
       THEN Kind[t] \in Parentless
       ELSE Exists(Parent[t]) /\ <<Kind[t], Kind[Parent[t]]>> \in LevelUp
    /\ status' = [status EXCEPT ![t] = "DRAFT"]
    /\ creator' = [creator EXCEPT ![t] = by]
    /\ UNCHANGED <<owner, reassigned, helpers, blocks, resolved, accepted>>

Transition(t, to, actor) ==
    /\ Exists(t)
    /\ ~ ClosedByHand(t, to)
    /\ MayTake(actor, t, to)
    /\ status' = Settled(status, t, to)
    /\ ResolveDependents
    /\ accepted' =
         [accepted EXCEPT ![t] =
            IF to = "QA" THEN [by |-> actor.agent, work |-> owner[t]]
            ELSE IF to = "IN_PROGRESS" THEN NotAccepted
            ELSE accepted[t]]
    /\ UNCHANGED <<owner, creator, reassigned, helpers>>

\* assign with a role other than owner: no permission, no status is checked.
AssignHelper(t, a, role) ==
    /\ Exists(t)
    /\ helpers' = helpers \cup {<<t, a, role>>}
    /\ UNCHANGED <<status, owner, creator, reassigned, blocks, resolved, accepted>>

IsReassignment(t, a) == owner[t] # NoAgent /\ owner[t] # a

AtLimit(t) == reassigned[t] >= ReassignLimit

\* assign with the owner role.  Only a PLANNED task is checked against the
\* matrix; any other, ended or in review, takes a new owner from anyone.  Past
\* the limit it takes force and a managerial actor, and is no longer counted.
AssignOwner(t, a, actor, force) ==
    /\ Exists(t)
    /\ IF status[t] = "PLANNED" THEN MayTake(actor, t, "ASSIGNED") ELSE owner[t] # a
    /\ IsReassignment(t, a) /\ AtLimit(t) =>
         force /\ ActorClasses(actor, t) \cap {"manager", "founder"} # {}
    /\ owner' = [owner EXCEPT ![t] = a]
    /\ reassigned' =
         [reassigned EXCEPT ![t] =
            IF IsReassignment(t, a) /\ ~ AtLimit(t) THEN @ + 1 ELSE @]
    /\ status' = [status EXCEPT ![t] = IF @ = "PLANNED" THEN "ASSIGNED" ELSE @]
    /\ UNCHANGED <<creator, helpers, blocks, resolved, accepted>>

\* The recursive walk over unresolved edges: b is in every set of tasks that
\* holds what a depends on and is closed under depending.
Reaches(edges, a, b) ==
    \A S \in SUBSET Task :
        (\A e \in edges : e[1] = a \/ e[1] \in S => e[2] \in S) => b \in S

\* Mutant: the walk starts from the wrong end of the edge.
ClosesCycleBackwards(t, d) == Reaches(blocks, t, d)

\* addDependency's check before it inserts the edge.
ClosesCycle(t, d) == Reaches(blocks, d, t)

\* The pair is unique, so a resolved edge cannot be added again.
AddDependency(t, d) ==
    /\ t # d
    /\ Exists(t) /\ Exists(d)
    /\ ~ ClosesCycle(t, d)
    /\ <<t, d>> \notin blocks \cup resolved
    /\ blocks' = blocks \cup {<<t, d>>}
    /\ UNCHANGED <<status, owner, creator, reassigned, helpers, resolved, accepted>>

RemoveDependency(t, d) ==
    /\ <<t, d>> \in blocks
    /\ blocks' = blocks \ {<<t, d>>}
    /\ resolved' = resolved \cup {<<t, d>>}
    /\ UNCHANGED <<status, owner, creator, reassigned, helpers, accepted>>

Next ==
    \/ \E t \in Task, by \in Creators : Create(t, by)
    \/ \E t \in Task, to \in TaskStatus, actor \in Actors : Transition(t, to, actor)
    \/ \E row \in HelperRequests : AssignHelper(row[1], row[2], row[3])
    \/ \E row \in OwnerRequests, actor \in Actors, force \in BOOLEAN :
            AssignOwner(row[1], row[2], actor, force)
    \/ \E e \in EdgeRequests : AddDependency(e[1], e[2])
    \/ \E e \in EdgeRequests : RemoveDependency(e[1], e[2])

Spec == Init /\ [][Next]_vars

-----------------------------------------------------------------------------
(* Properties                                                              *)

\* Every column stays in its domain; the reassignment count within its CHECK.
TypeOK ==
    /\ status \in [Task -> TaskStatus \cup {"ABSENT"}]
    /\ owner \in [Task -> AnyAgent]
    /\ creator \in [Task -> AnyAgent]
    /\ reassigned \in [Task -> 0..ReassignLimit]
    /\ helpers \subseteq Task \X Agent \X HelperRoles
    /\ blocks \subseteq Task \X Task
    /\ resolved \subseteq Task \X Task
    /\ accepted \in [Task -> [by: AnyAgent, work: AnyAgent]]

\* A goal or an initiative is never left open once all its children have
\* ended and one of them delivered or failed: the roll-up of the last child
\* closes it, through as many levels as have ended.
NoStrandedContainer == \A p \in Task : ~ RollsUp(status, p)

\* What is DONE was delivered: a container has a DONE child, and a work item
\* was accepted in review by an agent who did not own it at that moment, with
\* no rework since.  Through the levels, a delivered goal rests on reviewed work.
DeliveryRestsOnReviewedWork ==
    \A t \in Task :
        status[t] = "DONE" =>
            IF Kind[t] \in Containers
            THEN \E c \in Task : Parent[c] = t /\ status[c] = "DONE"
            ELSE accepted[t].by \in Agent /\ accepted[t].by # accepted[t].work

\* Whoever acts, and whatever else the transactions change, the statuses
\* follow the board.
Board == INSTANCE TaskBoard WITH Start <- [t \in Task |-> "ABSENT"]
FollowsTheBoard == Board!Spec

\* The unresolved dependency edges never close a cycle of tasks that wait for
\* one another (addDependency's recursive walk).
NoDependencyCycle == \A t \in Task : ~ Reaches(blocks, t, t)

\* An ended task stays as it ended: no late transition, no assignment and no
\* roll-up of a child that ends after its container was cancelled revives it.
TerminalIsFinal ==
    [][\A t \in Task : status[t] \in Terminal => status'[t] = status[t]]_vars

\* When a task reaches DONE, by hand or by roll-up at any level, every edge
\* that waited for it is resolved in the same transaction.
DoneResolvesDependents ==
    [][\A t \in Task : Reached(status, t) => \A e \in blocks' : e[2] # t]_vars
================================================================================

------------------------------- MODULE AgentTurns -------------------------------
(***************************************************************************)
(* Which agent works on which task: the start of agentTaskWorkflow behind  *)
(* the session gate (packages/db/src/session-gate.ts and the two starters),*)
(* the workflow's turn in both runtimes (workers/agent-worker: the step    *)
(* loop, and the CLI session that drive.ts watches), the rows of           *)
(* agent_sessions, and everything that starts a turn again: the drain on   *)
(* agent.session.ended, the wake on a resolved dependency or a message,    *)
(* the stuck-task sweep and the rework entry of the review chain.          *)
(*                                                                         *)
(* Left out: pause and cancel (ToolCalls has the pause), approvals          *)
(* (Approvals), containers (TaskEngine), the managers' decision on a       *)
(* BLOCKED task.  The review chain is two steps here and a module of its   *)
(* own (ReviewFlow).                                                       *)
(***************************************************************************)
EXTENDS Integers, FiniteSets, TaskMachine

CONSTANTS
    Agent, Task,
    Owner,        \* [Task -> Agent], tasks.owner_agent_id
    Children,     \* [Task -> SUBSET Task], by tasks.parent_id
    Cli,          \* the tasks whose turn resolveAgentRuntimeActivity gives the CLI
    MaxLive,      \* maxLiveSessionsPerCompany
    MaxUpsets     \* what happens beside the ordinary course: processes that die,
                  \* calls that fail, events lost, rework, messages.  A bound.

ASSUME TurnsAssumption ==
    /\ NoAgent \notin Agent
    /\ Owner \in [Task -> Agent]
    /\ Children \in [Task -> SUBSET Task]
    /\ Cli \subseteq Task
    /\ {MaxLive, MaxUpsets} \subseteq Nat

VARIABLES
    status,       \* tasks.status
    edge,         \* unresolved rows of task_dependencies, per waiting task
    run,          \* the workflow of each id: agent-task.<task>.<agent>[.rework-..]
    leaked,       \* ids with a running session row and no workflow behind it
    ended,        \* agents with an agent.session.ended the drain has not read
    told,         \* task.dependency.resolved the bridge has not read
    upsets,
    raced,        \* history: tasks started while the agent had a start without a row
    dropped       \* history: tasks whose last turn ended without an answer

vars == <<status, edge, run, leaked, ended, told, upsets,
          raced, dropped>>

Id == Task \X {"main", "rework"}
OfTask(t) == {t} \X {"main", "rework"}
AgentOf(id) == Owner[id[1]]

Phase == {"none", "queued", "step", "parked", "closing", "closed"}
Running(id) == run[id] # "none"
HasRow(id) == run[id] \in {"step", "parked", "closing"}
LiveRow(id) == HasRow(id) \/ id \in leaked
LiveCount == Cardinality({id \in Id : HasRow(id)}) + Cardinality(leaked)
Worked(t) == \E id \in OfTask(t) : Running(id)
LiveOn(t) == \E id \in OfTask(t) : LiveRow(id)

\* Mutant: what the queue looked for before the rework states were added to it.
AssignedOnly == {"ASSIGNED"}

\* The owner's turn: what the queue, the drain and the sweep look for.
Queued == {"ASSIGNED"} \cup Rework

-----------------------------------------------------------------------------
(* The gate and the starters                                               *)

\* Mutant: the gate counts the sessions of the task at hand only.
GateOpenToOthers(t) == LiveOn(t) \/ LiveCount < MaxLive

Upset == upsets < MaxUpsets /\ upsets' = upsets + 1

\* checkSessionGate: a restart of the same task always passes; otherwise the
\* agent has no live session and the company has room.
GateOpen(t) ==
    \/ LiveOn(t)
    \/ /\ ~ \E id \in Id : AgentOf(id) = Owner[t] /\ LiveRow(id)
       /\ LiveCount < MaxLive

\* The gate looks at rows only, so a start sees nothing of one that has no row yet.
\* workflow.start refuses an id that runs.
Start(ids) ==
    LET passed == {id \in ids : GateOpen(id[1]) /\ ~Running(id)}
        under_way(id) == id \in passed \/ run[id] = "queued"
    IN
    /\ run' = [id \in Id |-> IF id \in passed THEN "queued" ELSE run[id]]
    /\ raced' = raced \cup
          {id[1] : id \in {i \in passed :
              \E other \in Id \ OfTask(i[1]) : AgentOf(other) = AgentOf(i) /\ under_way(other)}}

StartOne(id) == Start({id})
NoStart == UNCHANGED <<run, raced>>

\* assign, and the start its route or its dispatcher makes after the commit, if it
\* is still there and Temporal answers.
Assign(t) ==
    /\ status[t] = "PLANNED"
    /\ status' = [status EXCEPT ![t] = "ASSIGNED"]
    /\ \/ StartOne(<<t, "main">>) /\ UNCHANGED upsets
       \/ Upset /\ NoStart
    /\ UNCHANGED <<edge, leaked, ended, told, dropped>>

-----------------------------------------------------------------------------
(* The turn                                                                *)

\* What a step of the workflow that stays inside the turn leaves alone.
outside == <<leaked, ended, told, upsets, raced>>

\* drive.ts HANDOFF_STATUSES
Handoff == {"DONE", "REVIEW", "QA", "APPROVAL", "BLOCKED", "WAITING", "FAILED", "CANCELLED"}

TakesUp(t) ==
    status' = IF status[t] \in Queued THEN [status EXCEPT ![t] = "IN_PROGRESS"] ELSE status

\* startAgentSessionActivity: the row, and the owner takes the task up.  A CLI session
\* polls the task before the CLI has done anything.
OpenSession(id) ==
    LET t == id[1] IN
    /\ run[id] = "queued"
    /\ TakesUp(t)
    /\ run' = [run EXCEPT ![id] = IF t \in Cli /\ status'[t] \in Handoff THEN "closing" ELSE "step"]
    /\ UNCHANGED <<edge, dropped, outside>>

\* The history of a race ends with the last run and row of its task.
Over(id) ==
    /\ run' = [run EXCEPT ![id] = "none"]
    /\ raced' = IF \/ \E other \in OfTask(id[1]) \ {id} : Running(other)
                   \/ OfTask(id[1]) \cap leaked # {}
                THEN raced ELSE raced \ {id[1]}

\* A session that cannot be opened ends the workflow before there is a row.
OpenFails(id) ==
    /\ Upset
    /\ run[id] = "queued"
    /\ Over(id)
    /\ UNCHANGED <<status, edge, leaked, ended, told, dropped>>

\* The guard snapshot stands outside the try block: when it fails so does the workflow,
\* the task is taken up and nobody closes the row.
BeginFails(id) ==
    /\ Upset
    /\ run[id] = "queued"
    /\ TakesUp(id[1])
    /\ run' = [run EXCEPT ![id] = "none"]
    /\ leaked' = leaked \cup {id}
    /\ dropped' = dropped \cup {id[1]}
    /\ UNCHANGED <<edge, ended, told, raced>>

\* update_task_status by the owner.
MoveTask(id) ==
    /\ run[id] = "step"
    /\ \E to \in {"IN_PROGRESS", "WAITING", "BLOCKED"} :
          /\ AuthorizeTaskTransition(status[id[1]], to, "owner", AgentOf(id), AgentOf(id))
          /\ status' = [status EXCEPT ![id[1]] = to]
    /\ UNCHANGED <<run, edge, dropped, outside>>

OpenChildren(t) == {c \in Children[t] : status[c] \notin Terminal}

\* wait_for, an action of the step loop only (mcp/actions.ts offers a CLI none): the
\* edges, then IN_PROGRESS -> WAITING, then the loop sleeps on its condition.
WaitFor(id) ==
    LET t == id[1] IN
    /\ run[id] = "step" /\ t \notin Cli
    /\ \E for \in {OpenChildren(t), {}} : edge' = [edge EXCEPT ![t] = @ \cup for]
    /\ run' = [run EXCEPT ![id] = "parked"]
    /\ status' = IF status[t] = "IN_PROGRESS" THEN [status EXCEPT ![t] = "WAITING"] ELSE status
    /\ UNCHANGED <<dropped, outside>>

\* The condition holds or its 15 minutes are over, then resumeFromWaitActivity.
Resume(id) ==
    /\ run[id] = "parked"
    /\ run' = [run EXCEPT ![id] = "step"]
    /\ status' = IF status[id[1]] = "WAITING"
                 THEN [status EXCEPT ![id[1]] = "IN_PROGRESS"] ELSE status
    /\ UNCHANGED <<edge, dropped, outside>>

-----------------------------------------------------------------------------
(* How a turn ends                                                         *)

EndsAs(id, at) == run' = [run EXCEPT ![id] = at]
Answered(t) == dropped' = dropped \ {t}
Dropped(t) == dropped' = dropped \cup {t}

\* request_review and complete_task: the owner submits.  complete_task answers
\* "completed" to a task that is nowhere near it, and that ends a step loop too.
Submit(id) ==
    LET t == id[1] IN
    /\ run[id] = "step"
    /\ IF status[t] \in {"ASSIGNED", "IN_PROGRESS", "CHANGES_REQUESTED"}
       THEN status' = [status EXCEPT ![t] = "REVIEW"]
       ELSE UNCHANGED status
    /\ IF t \in Cli THEN UNCHANGED run ELSE EndsAs(id, "closing")
    /\ Answered(t)
    /\ UNCHANGED <<edge, outside>>

\* Budget, step cap and loop: guardEscalateActivity parks the task.
GuardStop(id) ==
    LET t == id[1] IN
    /\ run[id] = "step" /\ t \notin Cli
    /\ EndsAs(id, "closing")
    /\ status' = IF status[t] = "IN_PROGRESS" THEN [status EXCEPT ![t] = "WAITING"] ELSE status
    /\ Answered(t)
    /\ UNCHANGED <<edge, outside>>

\* abandon, or three replies that do not parse: the turn ends, the task stays.
GiveUp(id) ==
    /\ run[id] = "step" /\ id[1] \notin Cli
    /\ EndsAs(id, "closing")
    /\ Dropped(id[1])
    /\ UNCHANGED <<status, edge, outside>>

\* driveSession: the task was handed off, or the CLI exits, or a ceiling is reached.
CliEnds(id) ==
    /\ run[id] = "step" /\ id[1] \in Cli
    /\ EndsAs(id, "closing")
    /\ IF status[id[1]] \in Handoff THEN Answered(id[1]) ELSE Dropped(id[1])
    /\ UNCHANGED <<status, edge, outside>>

\* Mutant: a task that was not IN_PROGRESS is brought there and left.
CrashHalfway(t) ==
    IF status[t] = "IN_PROGRESS" THEN "BLOCKED"
    ELSE IF status[t] \in {"WAITING"} \cup Queued THEN "IN_PROGRESS" ELSE status[t]

\* reportWorkflowCrashActivity moves the task over IN_PROGRESS to BLOCKED.
CrashStatus(t) ==
    IF status[t] \in {"IN_PROGRESS", "WAITING"} \cup Queued THEN "BLOCKED" ELSE status[t]

\* An activity fails for good: the catch block reports before the session closes,
\* as well as it can.
Crash(id) ==
    /\ Upset
    /\ run[id] \in {"step", "parked"}
    /\ EndsAs(id, "closing")
    /\ \/ status' = [status EXCEPT ![id[1]] = CrashStatus(id[1])] /\ Answered(id[1])
       \/ UNCHANGED status /\ Dropped(id[1])
    /\ UNCHANGED <<edge, leaked, ended, told, raced>>

\* closeAgentSessionActivity: the row ends and the event goes out with it.
CloseSession(id) ==
    /\ run[id] = "closing"
    /\ EndsAs(id, "closed")
    /\ ended' = ended \cup {AgentOf(id)}
    /\ UNCHANGED <<status, edge, leaked, told, upsets, raced, dropped>>

CloseFails(id) ==
    /\ Upset
    /\ run[id] = "closing"
    /\ run' = [run EXCEPT ![id] = "none"]
    /\ leaked' = leaked \cup {id}
    /\ UNCHANGED <<status, edge, ended, told, raced, dropped>>

\* The workflow completes after its session row has.
Complete(id) ==
    /\ run[id] = "closed"
    /\ Over(id)
    /\ UNCHANGED <<status, edge, leaked, ended, told, upsets, dropped>>

-----------------------------------------------------------------------------
(* What starts a turn again                                                *)

PredecessorsMet(t) == \A p \in edge[t] : status[p] \in {"DONE", "CANCELLED"}
Waiting(t) == status[t] \in Queued /\ PredecessorsMet(t)

\* The drain on agent.session.ended: the agent's own queue (pickNextQueuedTaskId),
\* then what the company has room for (pickCompanyQueuedTasks), an agent's first each.
Drain(a) ==
    LET waiting == {t \in Task : Waiting(t)}
        first == {S \in SUBSET waiting : /\ \A t, u \in S : Owner[t] = Owner[u] => t = u
                                         /\ \A t \in waiting : \E u \in S : Owner[t] = Owner[u]}
        idle(t) == ~ \E id \in Id : AgentOf(id) = Owner[t] /\ LiveRow(id)
    IN
    /\ a \in ended
    /\ ended' = ended \ {a}
    /\ \E S \in first : \E rest \in SUBSET {t \in S : idle(t)} :
          /\ Cardinality(rest) <= MaxLive - LiveCount \/ rest = {}
          /\ Start(({t \in S : Owner[t] = a} \cup rest) \X {"main"})
    /\ UNCHANGED <<status, edge, leaked, told, upsets, dropped>>

\* A core NATS subscription: an event nobody was listening for is gone.
LoseEnded(a) ==
    /\ Upset
    /\ a \in ended
    /\ ended' = ended \ {a}
    /\ UNCHANGED <<status, edge, run, leaked, told, raced, dropped>>

\* The bridge (dependency-signal.ts) signals the workflows with a live row; when none
\* is reached, wakeOnResolvedDependency starts the owner's turn.
Bridge(t, p) ==
    LET heard == {id \in OfTask(t) : LiveRow(id) /\ Running(id)} IN
    /\ <<t, p>> \in told
    /\ told' = told \ {<<t, p>>}
    /\ IF heard = {} /\ status[t] = "WAITING" /\ edge[t] = {} /\ ~LiveOn(t)
       THEN StartOne(<<t, "main">>) ELSE NoStart
    /\ UNCHANGED <<status, edge, leaked, ended, upsets, dropped>>

\* An event that fails is redelivered after its successors, and the high-water mark
\* skips it.
BridgeSkips(t, p) ==
    /\ Upset
    /\ <<t, p>> \in told
    /\ told' = told \ {<<t, p>>}
    /\ UNCHANGED <<status, edge, run, leaked, ended, raced, dropped>>

\* A message in the task's thread (deliverMessage): it is signalled to the main
\* workflow of every task the owner has a live session on; when none takes it, a
\* server-side sender starts the turn of a WAITING task (wakeResolvedWait).
Message(t) ==
    LET mains == {id \in Task \X {"main"} :
                     AgentOf(id) = Owner[t] /\ LiveOn(id[1]) /\ Running(id)} IN
    /\ Upset
    /\ mains = {} /\ status[t] = "WAITING"
    /\ StartOne(<<t, "main">>)
    /\ UNCHANGED <<status, edge, leaked, ended, told, dropped>>

\* Mutant: the sweep takes the row of a session for the session.
StaleWithoutRow(t) == ended = {} /\ ~LiveOn(t)

\* What a status that has stood still for longer than a wait lasts (15 minutes) says:
\* no event of NATS is unread, no step of a turn under way.
Stale(t) ==
    /\ ended = {}
    /\ \A id \in OfTask(t) : run[id] \in {"none", "queued", "step"}

\* sweepStuckTasks rules 1 and 2: a WAITING task past its wait is BLOCKED, and a task
\* without a live session is started again.
Sweep(t) ==
    /\ Stale(t)
    /\ status[t] \in Queued \cup {"WAITING"}
    /\ status' = IF status[t] = "WAITING" THEN [status EXCEPT ![t] = "BLOCKED"] ELSE status
    /\ IF LiveOn(t) THEN NoStart ELSE StartOne(<<t, "main">>)
    /\ UNCHANGED <<edge, leaked, ended, told, upsets, dropped>>

\* The server stops between the sweep's two transitions.
SweepCut(t) ==
    /\ Upset
    /\ Stale(t)
    /\ status[t] = "WAITING"
    /\ status' = [status EXCEPT ![t] = "IN_PROGRESS"]
    /\ Dropped(t)
    /\ UNCHANGED <<edge, run, leaked, ended, told, raced>>

-----------------------------------------------------------------------------
(* The review chain, in two steps                                          *)

\* resolveDependents runs in the transaction that reaches DONE.
Deliver(t) ==
    /\ status[t] = "REVIEW"
    /\ status' = [status EXCEPT ![t] = "DONE"]
    /\ edge' = [u \in Task |-> edge[u] \ {t}]
    /\ told' = told \cup {u \in Task : t \in edge[u]} \X {t}
    /\ UNCHANGED <<run, leaked, ended, upsets, raced, dropped>>

\* Changes are requested, and the rework turn is started under an id of its own.
SendBack(t) ==
    /\ status[t] = "REVIEW"
    /\ Upset
    /\ \E to \in {"CHANGES_REQUESTED", "QA_FAILED"} : status' = [status EXCEPT ![t] = to]
    /\ StartOne(<<t, "rework">>) \/ NoStart
    /\ UNCHANGED <<edge, leaked, ended, told, dropped>>

-----------------------------------------------------------------------------
(* Specification                                                           *)

Init ==
    /\ status = [t \in Task |-> "PLANNED"]
    /\ edge = [t \in Task |-> {}]
    /\ run = [id \in Id |-> "none"]
    /\ leaked = {} /\ ended = {} /\ told = {}
    /\ upsets = 0
    /\ raced = {} /\ dropped = {}

Turn(id) ==
    \/ OpenSession(id) \/ OpenFails(id) \/ BeginFails(id)
    \/ MoveTask(id) \/ WaitFor(id) \/ Resume(id)
    \/ Submit(id) \/ GuardStop(id) \/ GiveUp(id) \/ CliEnds(id)
    \/ Crash(id) \/ CloseSession(id) \/ CloseFails(id) \/ Complete(id)

Next ==
    \/ \E id \in Id : Turn(id)
    \/ \E a \in Agent : Drain(a) \/ LoseEnded(a)
    \/ \E t, p \in Task : Bridge(t, p) \/ BridgeSkips(t, p)
    \/ \E t \in Task :
          Assign(t) \/ Message(t) \/ Sweep(t) \/ SweepCut(t) \/ Deliver(t) \/ SendBack(t)

\* The one step that is due in each phase but "step".
Proceed(id) ==
    \/ OpenSession(id) \/ Resume(id) \/ CliEnds(id)
    \/ CloseSession(id) \/ Complete(id)

\* A turn has at most 120 steps and a CLI session a wall clock: it cannot go on
\* stepping for good.  The sweep runs every 30 minutes over all tasks, and no event
\* stays unread as long.
Fairness ==
    /\ \A id \in Id : WF_vars(Proceed(id))
    /\ \A id \in {i \in Id : i[1] \notin Cli} : SF_vars(GuardStop(id))
    /\ \A t \in Task : SF_vars(Sweep(t))
    /\ \A a \in Agent : WF_vars(Drain(a))

Spec == Init /\ [][Next]_vars /\ Fairness

-----------------------------------------------------------------------------
(* Properties                                                              *)

TypeOK ==
    /\ status \in [Task -> TaskStatus]
    /\ edge \in [Task -> SUBSET Task] /\ \A t \in Task : edge[t] \subseteq Children[t]
    /\ run \in [Id -> Phase]
    /\ leaked \subseteq Id /\ raced \subseteq Task
    /\ ended \subseteq Agent
    /\ told \subseteq Task \X Task
    /\ upsets \in 0..MaxUpsets
    /\ dropped \subseteq Task

\* session-gate.ts: an agent has one live session.  Two tasks of one agent are under
\* way together only when one start passed the gate while the other's workflow had
\* not written its row yet.
BusyAgentOnlyByRace ==
    \A i, j \in Id :
        (HasRow(i) /\ HasRow(j) /\ i[1] # j[1] /\ AgentOf(i) = AgentOf(j))
            => {i[1], j[1]} \cap raced # {}

\* A task nobody works on and no sweep looks at (IN_PROGRESS) was left by a turn that
\* ended without an answer: given up, cut off by a ceiling, died unreported, or lost
\* in the sweep itself.  Guard stops, reported crashes and waits never leave one.
NobodyLeavesSilently ==
    \A t \in Task : status[t] = "IN_PROGRESS" /\ ~Worked(t) => t \in dropped

\* A task that waits for its owner is taken up, or some session row of the owner has
\* outlived its workflow and keeps the gate shut.
QueuedIsTakenUp ==
    \A t \in Task :
        (status[t] \in {"ASSIGNED"} \cup Rework)
            ~> (status[t] \notin {"ASSIGNED"} \cup Rework \/ leaked # {})

\* No wait is for good: whatever was lost, the sweep ends it.
WaitingEnds == \A t \in Task : (status[t] = "WAITING") ~> (status[t] # "WAITING")
================================================================================

# A verification project for ACOS

ACOS runs a company of AI agents: a Founder sets goals, agents plan, delegate,
work, review each other and merge, and a server keeps what they do in Postgres.
This directory holds TLA+ models of the parts where that goes wrong in ways a
test hardly reaches, their TLC configurations, and TLAPS proofs about them.
Paths below are relative to `src/`.

## The system

A TypeScript monorepo. `packages/domain` holds pure rules, `packages/db` the
services over Postgres (READ COMMITTED, row locks), `apps/server` the HTTP
server with the tool gateway and the periodic sweeps, `workers/agent-worker` the
Temporal workflows, `services/sandbox-manager` the containers and the git
repositories. Events are rows of an outbox, relayed to NATS JetStream.

| Component | State | Operations | Meets | What makes it correct |
|---|---|---|---|---|
| Task state machine `packages/domain/src/state-machines/task.ts` | none | transition table, permission matrix | every caller that moves a task | verdicts are independent of the owner; terminal states are final |
| Task engine `packages/db/src/task-engine.ts` | tasks, assignments, dependencies | create, transition, assign, add/remove dependency, shelve; roll-up and dependency resolution inside a transition | delegation, agents, reviews, approvals, sweeps | containers close when and only when their children ended; no dependency cycle; what is DONE was reviewed |
| Its transactions (and `sequences.ts`, `outbox.ts`, `delegation.ts`, `costs.ts`) | row locks, the per-company counters | the statements of create, transition, allocateBudget, of booking a model step | each other | serialisable in effect; every transaction ends |
| Review chain `packages/db/src/reviews.ts`, `workers/agent-worker/src/review` | review rows, one workflow per row | request, start, verdict, QA round, merge | owner's dispatch, task engine, gateway | one merge, of accepted work; a submission is decided |
| Agent task workflow and CLI driver `workers/agent-worker/src` | workflow, session row, signals | open, step, park, resume, submit, stop, crash report, close | starters, approvals, workspaces | no turn leaves a task behind unnoticed |
| Session gate and starters `packages/db/src/session-gate.ts` | rows of agent_sessions | check, start, drain | assignment, wakes, sweep | an agent works on one task; nothing queued is forgotten |
| Dependency wake, messages, stuck-task sweep | WAITING, queued and silent tasks | wake, block, start again | task engine, workflows | a wait is not for good |
| Approval engine `packages/db/src/approvals.ts` | approvals | request, verdict, expire, signal | gateway, tasks, workflows | one verdict; whoever asked is told it |
| Tool gateway `apps/server/src/modules/tools` | invocations, idempotency keys, reservations | authorise, reserve, run, record | agents, sandbox manager, costs | a side effect happens once; no call is billed twice |
| Costs and breaker `packages/db/src/costs.ts`, `modules/costs` | ledger, budgets, paused agents | book, trip, restore | gateway, workflows, events | calls keep the budget; a spent budget stops the work |
| Outbox and relay `apps/server/src/modules/events` | events, sequence, stream, dead letters | append, publish, consume, park | all emitters | in order per company; handled once by one life of a consumer; never lost |
| Workspaces `packages/db/src/workspaces.ts`, dispatcher | workspace rows, containers, locks, terminals | provision, escalate, merge, run, lock | gateway, CLI sessions, sandbox manager | one workspace per task; calls run at the level of their row; a merge ends it |
| Delegation `packages/db/src/delegation.ts` | queues, budgets | delegate, assign, allocate, intervene | task engine, sweep | queues and pool are not overdrawn |
| Memory lifecycle `packages/db/src`, `apps/server` | memories, evidence, promotions | consolidate, merge, propose, decide | events, workflows | nothing known is remembered twice; policy rests on several incidents |
| Planning: staffing, org forest, goal workflow | proposals, hires, edges, the project | propose, confirm, apply, approve, hire, continue | Founder, workflows | hires are granted; the lines form a forest; planning goes on |

`PROJECT.json` lists every component, those not modelled with the reason, and
the hazards: the lines where the code is exposed to an order of steps, a crash
or a limit, and the properties that would catch it.

## The modules

    TaskMachine          the transition table and the permission matrix
      TaskTree           the hierarchy and the container roll-up, as functions
        TaskBoard            abstract: what the statuses alone may do
        TaskEngine           one action per service call; implements TaskBoard
        TaskTransactions     the same calls by statement; implements TaskBoard
      ReviewFlow         the review chain of one task up to the merge
      AgentTurns         who works on which task, and how a turn begins and ends
    Approvals            from a request to the verdict's arrival
    Budgets              agents, and sums of money as numbers of cents
      ToolCalls          gateway, ledger and breaker
      Delegation         children handed out by several callers at once
    EventRelay           from the draw of a seq to acknowledgement or dead letter
    Workspaces           the workspace of one task, its container and its callers
    MemoryLifecycle      windows, memories, promotions
    OrgChart             agents and the lines between them
      Planning           a project from its objective to its execution

`MC*` modules hold instances, `*_proof` modules the theorems: TaskEngine_proof also those of
TaskTransactions, Budgets_proof those of ToolCalls and Delegation, Events_proof those of
EventRelay and MemoryLifecycle, Planning_proof also those of OrgChart, and ReviewFlow_proof,
AgentTurns_proof, Approvals_proof and Workspaces_proof those of one module each. Where one proof
module extends two components, the second carries its own names for state and specification
(`SessionSpec`, `DelegationSpec`, `MemorySpec`).

**TaskEngine** has the columns of `tasks`, `task_assignments` and
`task_dependencies` that decide anything, and one action per method of
`TasksService` and `TaskStateService`. `Transition` is `transitionInTx` with all
it calls: the guards, the write, `resolveDependents` and `rollUpContainer`, which
in the code is a transition again (`Settled` in TaskTree unrolls it: containers
are only two levels deep). A refused call is no step. `accepted` is a history
variable: who took REVIEW to QA, and whose work it was then.

**TaskTransactions** takes those transactions apart at the row locks. `held` are
the locks, `view` is what a session wrote and has not committed, `Sees` what a
statement reads. The foreign key of a new child takes a KEY SHARE lock on its
parent, which the model holds exclusively; that orders a filing against the
roll-up that would miss it. The event counter of the company is a row like
any other and is held from the first event to the commit; a booked model step
takes it before the task's row, since `agent_steps` has no foreign key on tasks.
`Lose` is a lost connection, `DetectDeadlock` Postgres's answer to a cycle of
waiters. Locks and visibility are Postgres's, and external in the map. The
permission matrix is left out here, since it reads only the locked row.

**ReviewFlow** is one task with a branch. `rows` are its reviews, `run[i]` the
workflow `review.<id>` of row i, named by the step it stands before: every step
is one transaction or one call, and a mishap may fall before any. `opener` and
`toStart` are an owner's dispatch between its move to REVIEW and its start of the
workflow; `sweep` is the sweep between its SELECT, the round it opens and the
workflow it starts; `key` is the idempotency key `merge:<task>`. The model takes
for granted that the company has a lead with the grant for `git.merge` and a
branch with commits (the closures of an empty branch and of a task without one
are left out), and that the sweep's age threshold keeps rule 4 off a task
whose round a live process is about to open.

**AgentTurns** has one workflow per id: `agent-task.<task>` and its rework
variant. `run` is its phase; between "queued" and "step" it has passed the gate
and has no row, which is the gate's blind spot. `leaked` are rows that outlived
their workflow (nothing reaps them). `Turn` is the workflow in both runtimes;
Drain, Bridge, Message and Sweep are all that starts a turn again. `raced` and
`dropped` are history: starts the gate could not see, and turns that ended
without an answer. The review chain is two steps here.

**Approvals** follows decisions: the row, what the server still has to do
(signal, then wake), the workflow's one slot for a verdict, and the last `Shown`
approvals the working set shows a new turn (three in the code). A decision is
reached, or missed for a reason that DecisionIsDelivered names.

**ToolCalls** takes `invoke` apart at its transactions: identity and key, the
reservation, dispatch, settlement. Each call may be attempted again while the
first attempt still runs. `cost` and `old`
make up what a call weighs against a budget, `spent` and `today` are the ledger; whoever
crosses a limit pauses the company but for `Spared`.

**EventRelay** draws seqs from the company's counter inside a transaction,
publishes in batches of the oldest unmarked rows under the advisory lock, and
delivers at least once. The stream removes duplicates only inside its window. One
consumer, with its high-water mark in memory (`mark`), handles, naks, dies.

**Workspaces** is one task. A row has a status and an isolation level, the
container (found by its name) a level of its own; callers provision, run,
write, lock; sessions run inside. `call` holds where each caller stands and what
it has read, `merge` the same for git.merge: no transaction spans a call of the
sandbox. `spoilt` and `late` are history: rows whose container two calls changed
at once or whose change ended halfway, and what was about to be added to a row as
it ended.

**Delegation** runs a manager and the sweep through delegateTask's separate
transactions: capacity, assignment, budget.

**MemoryLifecycle** runs the stages of consolidation and of promotion with their
retries. A window yields a candidate with the events it cites, and an event leads to
a task and a project, or to none. A rule (`Rule`) asks for a scope, a type, a
confidence, rows of evidence, tasks and projects, as a row of the policies table
does; it looks at `SourceLimit` of the memories it could take, in no order, those
with a standing proposal among them, and passes over what has no project to belong
to. What contradicts a memory is saved with at most `ConfidenceCap`; confidence is written
once, so that no evidence that is merged later lifts a memory over a rule's floor.
`unread` is history: the memories that were due when a full list last left them out.

**OrgChart** is hiring, lines, offboarding; **Planning** the goal workflow, the staffing proposal, the hire
approval and the Founder's interventions over it, `call` and `hook` being the
continuations the server runs beside the workflow.

**TaskBoard** is the abstract specification: a file, a legal move, and the
containers the move completes. TaskEngine refines it with Start = all absent,
TaskTransactions from any Start whose rows hang together: a commit is one step of the board.

An operator whose comment begins with `Mutant:` is no part of the model. It is
the definition below it as a plausible bug would have it (a dropped guard, a
limit one too late, a lock not taken), kept to show that a property can fail:
with it in that definition's place, TLC refutes the property that `PROJECT.json`
names beside it.

## The runs

Bounds are the model's constants, in the `.cfg` files.

| Run | Instance | Shows |
|---|---|---|
| engine | goal > initiative > epic, developer and lead, edges both ways between goal and epic, one helper, one reassignment | deliveries rest on reviewed work, roll-up over two levels, no cycle, refinement of the board |
| transactions | two sessions; the last two epics end, a late one is filed, a container is cancelled, budgets, a booked step | each commit is a step of the board; every transaction ends |
| review_live | developer and lead, four rows, one change of owner (to the one who may be reviewing), one mishap | one open round; one merge, of work both rounds accepted; REVIEW and QA are left |
| turns | one agent, task a in the step loop and its child b in a CLI session, two upsets, room for two sessions | one task at a time but for the race; nobody leaves silently; nothing queued or waiting is forgotten |
| approvals | two approvals of one task, either runtime, one shown, one upset | a decision is final and is delivered, or missed for a stated reason |
| spending | two calls on a budget of 2, one made twice, a third under the day's limit (2 or 3), one model step, two upsets | billed once, run once, within the budget; the breaker holds |
| relay | three events, two writers, two relays, two deliveries, two upsets | the stream follows the seq; handled once a life; every event arrives |
| workspaces | one tool caller and one CLI session, three levels, two rows, four calls, one upset | one workspace but for the race; calls at their level; a merge ends it |
| delegation | a manager and the sweep, two children (one with a budget of its own), two agents, queue and reassignment caps of 1, two delegations, one upset | queues overfilled by races only; shares fit the pool; orphans are assigned |
| memory | two windows, six events, two texts that contradict, two types, two rules (agent to project from 70 %, and a project's decisions to company) over lists of one, three rows, one upset | no duplicate of what was known; policy rests on several incidents; evidence is weighed |
| planning | nobody, or a member at work whose lead has left; two candidates for the first member's name; plans of 0 or 1 member, needs of 0 or 3, one tab of the Founder, three acts, one upset | forest, granted hires, readiness, one question, the confirmed plan is enough, planning moves on |
| dropped_redelivery | relay with one upset | a violation, see below |

The instances are the smallest in which the hazard happens. A goal over an
initiative is the deepest chain of containers there is, and an edge each way
between its ends closes every cycle it can; two sessions give every pair of
transactions and all pairwise deadlocks. Four review rows allow a rework
after one round of each kind. One agent with two tasks is what the gate is about, and
two of the upsets are what it takes to lose a row and an event. `Shown` is 1 of
two approvals as 3 of four would be: the shorter list hides the same thing
earlier. Two relays take over from one another and two writers commit out of turn.
A tool and a session are the two kinds of caller, and two rows a workspace and its
twin. A third memory is the promoted copy of one of two, a list of one is full with the
second, and 60 % is below the first rule's floor of 70, so that what contradicts is
not promoted. Of the six events, two are of one task, one of another, all three of no
project, which is evidence enough with nowhere to belong to; the others are of two projects.
In the planning instance the CEO, the lead and the first member have three names, and
the member's has two candidates: two requests that build at once both come to it, one
second, and a member who left is replaced by the other. Who starts with a team starts without its
lead, for whom the factory then looks again.

Where a configuration does not check for deadlock it says why: the task ends, or
its bound is reached. `turns` starts in one of three situations (`MCInit`): both
tasks to come and the bound on upsets used up; one task to come, the other done; or the
moment after b ended a's wait, which lies many steps away. `spending` takes the higher limit first.

TypeOK is stated in every module that keeps rows; where there is a proof it is proved, and
no run spends time on it.

### Where the code and its documentation part

`dropped_redelivery` expects a violation of what `apps/server/src/modules/events/dlq.ts:3-4`
says ("the consumer's cursor moves past the message (max_deliver exhausted), so
nothing is silently dropped - it lands here, visibly"). An event whose handling fails is
nak'd; meanwhile a later one is handled and moves `lastSeq` on; the redelivery is
then skipped as old and acknowledged
(`apps/server/src/modules/costs/breaker-consumer.ts:113`). The memory trigger has the
same mark, and says (`apps/server/src/modules/memory/trigger.ts:24-26`) that a nak'd
message is still reprocessed.

These have no run of their own; each was met while the code was modelled.

- Tasks. Transitions never look at dependencies, though
  `docs/architecture/docs/07-TASK-ENGINE.md:97` has BLOCKED wait for them. The comment at
  `packages/db/src/task-engine.ts:914` has a container fail unless its failed
  child is replaced: it fails in that very transaction, and for good.
- Reviews. A QA reviewer who is made the owner meanwhile approves himself, and
  only the requesting author is kept from reviewing a branch
  (`15-ENGINEERING-DEPARTMENT.md:81` and `:78`). `packages/db/src/reviews.ts:129`
  resets only the oldest row. A recorded merge conflict is replayed for ever
  (`:208` of the same document: retry merge), a key whose attempt died
  stays in flight (`modules/tools/gateway.ts:400`: still running).
- Turns. `packages/db/src/dependency-wake.ts:23-24` says a woken task waits in the
  ASSIGNED queue; it is WAITING, and only the sweep looks at it, to block it.
  `apps/server/src/main.ts:649` has the CLI end its turn with `wait_for`, which
  `mcp/actions.ts` does not offer. No turn's start asks whether the agent is paused,
  though `modules/costs/breaker-consumer.ts:6` says so. A dependency that was
  resolved once ends all later waits of the run at once.
- Approvals. The verdict's slot is not tied to an approval and the working set shows the last
  three, though `workers/agent-worker/src/activities/agent-task.ts:546` has every later step see
  the decision. An approved tool_execution does not let the call that
  asked run. `resubmit` and `endorse` have no caller, and expiry moves
  needs_review rows against `lifecycles.ts:64-71`.
- Spending. `restoreBudget` has no caller and a new day resumes nobody, against
  `33-FAILURE-MODES.md:238`; the company's day is not asked for tasks with a
  budget of their own; work that times out may go on and is not billed.
- Workspaces. Two provisions at different levels both insert, against the comment
  "ONE workspace per task"; an escalation destroys the old container before it creates the
  new one, against its own comment; terminals of live CLI sessions are closed when the
  server starts.
- Delegation. The capacity check is outside the transaction that
  `packages/db/src/delegation.ts:110-111` puts it in; a server that dies between assignment and
  allocation leaves the child without a budget for good.
- Memory. `persistCandidate`, made again after a lost answer, inserts twice, though
  `12-MEMORY-ARCHITECTURE.md:298` calls every stage idempotent; the nightly workflows of
  `:533` and `:552` do not exist; `memoryMachine` has no caller and the
  Founder's actions leave it; a start that fails loses the window. Not "each enabled rule ×
  qualifying active memory" is proposed (`packages/db/src/memory-promotion.ts:248-251`):
  the query takes 200 of them without an order (`:282`), and as what was proposed
  already keeps its place, a memory may be left out every time; what is met in no project is
  never promoted to one (`:310`). EvidenceIsWeighed says what is left: a memory that a
  rule asks for (`Due`: scope, type, confidence, evidence and a project) is proposed
  unless a full list left it out.
- Planning. A staffing approval stores the difference (`gap.missing`) that applyPlan
  takes for a target (`modules/staffing/proposal.ts:518-519`), so a team of two that
  needs three is never completed and is asked for again. A confirmation is lost when the
  server dies between commit and signal, against `proposal-routes.ts:4-6`. Ending
  an edge leaves its inverse, against `04-ORGANIZATION-ENGINE.md:87-89`. A
  crash between GOAL and assignment leaves it unassigned in an executing project, which is why
  ExecutingIsReady names it.

## Fairness

TaskEngine, Approvals, ToolCalls, Workspaces and OrgChart have none: what is
checked there is safety. In TaskTransactions a session issues its next statement
when its lock is free; the fairness is strong because Postgres queues the waiters
of a lock. A cycle is always detected. Nobody has to begin a transaction.

In ReviewFlow Temporal drives every workflow step and retry, a live dispatch
goes on to its next call, and the sweep runs on a timer. Owners, Founder and the
decision to take up rework owe nothing. ReviewIsDecided needs fewer mishaps than
`Attempts`: three failed attempts of one activity end the workflow with the row
in review, which no sweep rule looks at. QaIsLeft exempts a task whose merge is behind
a key in flight, failed or in conflict.

In AgentTurns each phase but "step" has one step that is due; a step loop has
at most 120 steps and a CLI session a wall clock, so a stop cannot be put off for good
(strong, since the phase may be left and come back); the sweep runs every 30
minutes over all tasks, which a start elsewhere may put off but not for ever. In EventRelay
the relay's loop, the broker's delivery and the consumer's loop go on; in
Delegation a delegation runs to its end, owners work their queues off and the sweep tries
every orphan; in MemoryLifecycle an open run goes on, but nobody has to start one
or to decide; in Planning the worker runs its workflow and the server serves what
that asks, while what the Founder asks may hang.

## What is proved

TLAPS proves these for all values of the constants that meet the named assumptions
of the module (which TLC evaluates in its runs; those that say a set is finite are for the
sums and counts): any tasks, agents, trees, callers, budgets,
limits and bounds. Each proof has an inductive `IInv`, one preservation lemma per
action, and theorems `Spec => []...` that follow from it. Where `IInv` says more
than the property, TLC checked it on the run's instance first.

**TaskEngine_proof**: TypeOK, NoStrandedContainer, DeliveryRestsOnReviewedWork,
NoDependencyCycle, refinement of TaskBoard; and TerminalIsFinal and
DoneResolvesDependents, which no run checks. A write strands only the parent of
what it ended, and to know that two roll-ups are enough one needs every
filed task to sit one level under an existing parent (`Placed`). Delivery needs the
acceptance to be known from QA on (`AcceptedFromQA`), from the permission matrix
alone. If adding t -> d closes a cycle, the old edges lead from d to t already.
Reachability is written over closed sets, not as a recursive operator: it says what
the code's recursive query computes.

**Planning_proof**: LinesFormAForest (for OrgChart alone and for Planning), HiresAreGranted,
ExecutingIsReady, AskedOnceUnlessRaced. The managers above m are a closed set, and new
lines to m add only that set to those below (`NewLinesCloseNoCycle`); offboarding adds
several lines at once. `Fits` says what a request may count on where it stands, since it
acts on what it read long ago: a plan that is being built has been granted, and so has
whatever an edit makes of the proposal meanwhile (`Plans`). Members of one plan carry
different names, counted from 1, so the names bound how many there are (`Names`); the
unique name is what keeps two builders apart. Of the continuations at most one is under way
until `raced`; a GOAL in DRAFT is being groomed by one of them unless a server died. The
proof needed three facts which the runs' constants had by chance, now assumptions: a team at work
at the start was staffed by a plan, agents are finitely many, somebody is asked for at all.
ConfirmedPlanIsEnough holds because the workflow waits for the newest proposal and stays with
it (`Numbered`): the team is at least as large as what it built until somebody leaves (`Enough`),
the factory's next member is at most one more than those staffed, and so its continuation finds
somebody missing only when more was agreed to than was built (`Runs`).

**ReviewFlow_proof**: OneOpenRound, MergedOnceThenDone, MergedWorkWasAccepted. There is
never more than one code row, as a re-request resets it and a QA verdict of the policy is always
an approval. A dispatch that is about to open a round and a sweep that is about to
exclude each other (`Settled`); the key is with one run at a time, which alone may
merge; and reviewers are not the first owner until the task is reassigned.

**AgentTurns_proof**: BusyAgentOnlyByRace, NobodyLeavesSilently. Alone neither is
inductive: a session of today was a start without a row before. `OneTaskAnAgent`
counts queued starts and rows that outlived their workflow as well: who joins an agent
that is taken either passed the gate on a row of his own task, and then was
there already, or is noted as raced. `Accounted` asks for a run in the middle of
its turn, because one that is queued or closing answers for nothing.

**Approvals_proof**: DecidedIsFinal, DecisionIsDelivered. A decision is with the
server, in the slot, before the next step, reached or missed; rows are made in
order. The proof failed at first, on more than three approvals and a CLI turn that looks at the
latest only; that is where `Shown` and the corresponding reason in `missed` come from.

**TaskTransactions**, in TaskEngine_proof: CommitsFollowTheBoard, a refinement. `SessionInv`
says for each statement a session may stand before what it has read and written and what it holds
(`Stands`). From its first event to the commit a session holds the company's counter, so no
two roll-ups are ever under way: whoever looks at children sees all that will be committed
before him. Before that event a transition has written its own row only, which it has locked, so
nobody else's commit touches what its guard read (`Holds`); a filing's row is not there for
anybody else, and the task counter keeps a second filing of it away (`Filed`). What it sees at
the commit is `Settled`, because containers end after two levels: a goal has no parent.
The assumption RowAssumption states what create lets through: rows are a level under
their parents, which came first.

**Budgets_proof**: SideEffectsHappenOnce, EveryCallIsBilledOnce, CallsKeepTheBudget,
BreakerHolds. Sums over calls are the cardinality of sets of numbered cents, so that two
sums add when the sets are disjoint. The weight of live calls is at most what
is spent and reserved; the key is claimed by one attempt before the first run.
For Delegation: QueueOverfilledByRaceOnly, SharesFitThePool. Whoever passed the check for an
agent had a place then, and until a race is noted that place is still there, for only
delegations bound for the same agent fill his queue (`PlaceKept`). A child that was filed with
a budget keeps it, and a delegation that read none shares for a child that had none (`Handed`).
A share is taken from what the others left of the pool, in one transaction, so the sum grows by
no more than was left.

**Events_proof**: StreamFollowsTheSeq, HandledOncePerLife. Commits are a prefix of the
seqs because the draw is serial; a batch is the oldest unmarked events, so everything
below one of its members is in the stream or the batch. `handled[n]` is at most the deaths, and one more
only for what the mark has passed. For MemoryLifecycle: NoDuplicateOfWhatWasKnown,
PolicyRestsOnSeveralIncidents, for any rules, events and limits. Memories are only added, their
evidence only grows, and none but a promoted copy becomes active again (`GoesOn`); so what a run
knows of the rows its search had seen is still true when it inserts, and what it weighed of a
memory's evidence still is when it proposes (`Knows`, `RestsOn`).

**Workspaces_proof**: OneWorkspaceUnlessRaced, CallsRunAtTheirLevel,
MergeEndsTheWorkspace, NothingOutlivesTheWorkspace. An unspoilt row has at most
one caller that changes it, its level only rises, and its container is at that level but for
what that caller is doing; a row in provisioning is its inserter's; a merge remembers what
the first row was; nobody adds to an ended row without being noted.

## Only model-checked

Liveness under fairness is out of the prover's reach: ReviewIsDecided, QaIsLeft,
QueuedIsTakenUp, WaitingEnds, EveryEventArrives, EveryTransactionEnds, OrphansAreAssigned,
EvidenceIsWeighed, PlanningMovesOn. Every safety property of the passing runs is the statement
of a theorem. Type correctness of TaskTransactions is a conjunct of `SessionInv`. What the
violation run shows is about the code's documentation and not a theorem.

## Not modelled

Texts, priorities, tenancy, notifications and events' content; the load ranking of
reviewers (any eligible one is picked); shelving a task (many transactions over a
stale list); agents' inboxes, pauses and continue-as-new; memory retrieval, the
Founder's edits of memories and of rules, and evidence that does not count for
promotion (statements); units, positions and model bindings; creation of units while they are
looked up; a second objective given while the first is planned. Components whose
status in `PROJECT.json` is `not_modelled`, each with its reason: views (web and
desktop apps, office projector), provider I/O, scripts and CRUD, which are the
greater part of the repository's lines. One hazard has no property: two sessions that add
opposite dependency edges at once (`packages/db/src/task-engine.ts:352`), for which
TaskEngine's actions are too coarse.

## What could come next

Dependency edges by statement, which would give the one hazard without a property
its own; a second objective given while the first is planned; the components that are
not modelled.

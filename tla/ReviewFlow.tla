------------------------------- MODULE ReviewFlow -------------------------------
(***************************************************************************)
(* The quality chain of one task with a branch, from REVIEW over QA to the *)
(* merge: the review rows of packages/db/src/reviews.ts, the owner's       *)
(* request_review (packages/agent-actions/src/dispatch.ts), reviewWorkflow *)
(* and its activities (workers/agent-worker), the stuck-task sweep         *)
(* (packages/db/src/stuck-tasks.ts and apps/server/src/main.ts) and the    *)
(* git.merge call behind its idempotency key (apps/server tools).          *)
(*                                                                         *)
(* Every step is one database transaction or one Temporal call; a crash    *)
(* may fall between any two.  Rule 4 of the sweep acts on tasks that have  *)
(* stood in their status longer than a dispatch or an activity lasts, so   *)
(* it does not meet one that is about to open a round.  A merge starts     *)
(* long after the move to QA: that one it may meet.                        *)
(***************************************************************************)
EXTENDS Integers, Sequences, TaskMachine

CONSTANTS
    Agent,
    Eligible,       \* [Kinds -> SUBSET Agent], REVIEWER_ROLES
    FirstOwner,
    Attempts,       \* maximumAttempts of the review activities (3 in the code)
    MaxRows,        \* review rows of the task: a bound
    MaxReassign,    \* changes of owner: a bound
    MaxMishap       \* failed attempts, lost calls and cut merges: a bound

Kinds == {"code", "qa"}
Open == {"pending", "in_review"}

ASSUME FlowAssumption ==
    /\ NoAgent \notin Agent
    /\ Eligible \in [Kinds -> SUBSET Agent]
    /\ FirstOwner \in Agent
    /\ {Attempts, MaxRows, MaxReassign, MaxMishap} \subseteq Nat

VARIABLES
    status,      \* tasks.status
    owner,       \* tasks.owner_agent_id
    rows,        \* reviews of the task, oldest first
    run,         \* reviewWorkflow review.<id> of each row
    opener,      \* the agent whose dispatch moved the task and opens the round next
    toStart,     \* the row a dispatch starts the workflow of next
    sweep,       \* the orphaned kind the sweep found, the row it starts next
    key,         \* idempotency key merge:<task>
    merges,      \* squash merges of the branch into main
    authors,     \* history: the agents that submitted work on the branch
    reassigned,
    mishaps

vars == <<status, owner, rows, run, opener, toStart, sweep, key, merges, authors,
          reassigned, mishaps>>

\* What a call that only touches rows and their workflows leaves alone.
elsewhere == <<owner, key, merges, authors, reassigned, mishaps>>

Row == [kind: Kinds, author: Agent, reviewer: Agent,
        state: Open \cup {"changes_requested", "approved"}, decided: BOOLEAN]
Steps == {"start", "decide", "submit", "open_qa", "start_qa", "merge", "dispatch",
          "close"}
Run == [at: Steps \cup {"none", "over"}, tries: 0..Attempts,
        verdict: {"none", "approved", "changes_requested"}, next: 0..MaxRows]
AtRest == [kind |-> "none", by |-> NoAgent, row |-> 0]
NoRun == [at |-> "none", tries |-> 0, verdict |-> "none", next |-> 0]

Running(i) == run[i].at \in Steps
OfKind(kind) == {i \in DOMAIN rows : rows[i].kind = kind}
OldestOf(kind) == CHOOSE i \in OfKind(kind) : \A j \in OfKind(kind) : i <= j
OpenRows == {i \in DOMAIN rows : rows[i].state \in Open}

-----------------------------------------------------------------------------
(* ReviewsService                                                          *)

\* Mutant: the requester is a candidate too.
MayReviewOwnWork(kind, author) == Eligible[kind]

\* pickReviewer: the load ranking is any choice among the eligible.
MayReview(kind, author) == Eligible[kind] \ {author}

Unopened(kind, author) ==
    /\ OfKind(kind) = {} \/ rows[OldestOf(kind)].state = "approved"
    /\ MayReview(kind, author) = {}

\* requestReview looks at the oldest row of the kind: open, it is returned;
\* sent back, it is reset with its author and its reviewer; otherwise a new
\* row is inserted.  i is the row returned.
RequestReview(kind, author, i) ==
    IF OfKind(kind) # {} /\ rows[OldestOf(kind)].state # "approved"
    THEN /\ i = OldestOf(kind)
         /\ rows' = [rows EXCEPT ![i].state = IF @ \in Open THEN @ ELSE "pending"]
    ELSE /\ i = Len(rows) + 1
         /\ i <= MaxRows
         /\ \E a \in MayReview(kind, author) :
                rows' = Append(rows, [kind |-> kind, author |-> author, reviewer |-> a,
                                      state |-> "pending", decided |-> FALSE])

Inserted(i) == i > Len(rows)

\* Starting review.<id> while it runs is swallowed; a closed run is restarted.
Started(runs, i) ==
    [runs EXCEPT ![i] = IF @.at \in Steps THEN @ ELSE [NoRun EXCEPT !.at = "start"]]
RunsFor(i) == IF Inserted(i) THEN Append(run, NoRun) ELSE run

MergeEligible == rows # <<>> /\ \A i \in DOMAIN rows : rows[i].state = "approved"

-----------------------------------------------------------------------------
(* The owner                                                               *)

\* request_review and complete_task: the move commits before the round opens.
SubmitWork ==
    /\ status = "IN_PROGRESS"
    /\ opener = NoAgent /\ toStart = 0
    /\ status' = "REVIEW"
    /\ opener' = owner
    /\ authors' = authors \cup {owner}
    /\ UNCHANGED <<owner, rows, run, toStart, sweep, key, merges, reassigned, mishaps>>

\* openCodeReview; without an eligible reviewer it returns null.
OpenCodeReview ==
    /\ opener # NoAgent
    /\ opener' = NoAgent
    /\ IF Unopened("code", opener)
       THEN UNCHANGED <<rows, run, toStart>>
       ELSE \E i \in 1..MaxRows :
                /\ RequestReview("code", opener, i)
                /\ run' = RunsFor(i)
                /\ toStart' = i
    /\ UNCHANGED <<status, sweep, elsewhere>>

StartWorkflow ==
    /\ toStart # 0
    /\ run' = Started(run, toStart)
    /\ toStart' = 0
    /\ UNCHANGED <<status, rows, opener, sweep, elsewhere>>

\* The process dies.  The replay finds the task moved: it opens nothing.
LoseCall ==
    /\ opener # NoAgent \/ toStart # 0 \/ sweep # AtRest
    /\ mishaps < MaxMishap
    /\ mishaps' = mishaps + 1
    /\ opener' = NoAgent
    /\ toStart' = 0
    /\ sweep' = AtRest
    /\ UNCHANGED <<status, owner, rows, run, key, merges, authors, reassigned>>

\* The rework run, restarted by the sweep if it was lost.
Resume ==
    /\ status \in Rework
    /\ AuthorizeTaskTransition(status, "IN_PROGRESS", "owner", owner, owner)
    /\ status' = "IN_PROGRESS"
    /\ UNCHANGED <<rows, run, opener, toStart, sweep, elsewhere>>

\* TaskStateService.assign by a manager or the Founder, in any status.
Reassign ==
    /\ reassigned < MaxReassign
    /\ status \notin Terminal
    /\ \E a \in Agent \ {owner} : owner' = a
    /\ reassigned' = reassigned + 1
    /\ UNCHANGED <<status, rows, run, opener, toStart, sweep, key, merges, authors, mishaps>>

Cancel ==
    /\ AuthorizeTaskTransition(status, "CANCELLED", "founder", NoAgent, owner)
    /\ status' = "CANCELLED"
    /\ UNCHANGED <<rows, run, opener, toStart, sweep, elsewhere>>

-----------------------------------------------------------------------------
(* reviewWorkflow                                                          *)

Step(i, to) == run' = [run EXCEPT ![i].at = to, ![i].tries = 0]

StartReview(i) ==
    /\ run[i].at = "start"
    /\ rows' = [rows EXCEPT ![i].state = IF @ = "pending" THEN "in_review" ELSE @]
    /\ Step(i, "decide")
    /\ UNCHANGED <<status, opener, toStart, sweep, elsewhere>>

\* The policy sends the first code round back and approves everything after.
PolicyVerdict(i) ==
    IF rows[i].kind = "code" /\ ~ \E j \in OfKind("code") : rows[j].decided
    THEN "changes_requested"
    ELSE "approved"

DecideReview(i) ==
    /\ run[i].at = "decide"
    /\ run' = [run EXCEPT ![i].at = "submit", ![i].tries = 0, ![i].verdict = PolicyVerdict(i)]
    /\ UNCHANGED <<status, rows, opener, toStart, sweep, elsewhere>>

\* The task move a verdict makes; an approved QA round moves nothing.
VerdictMove(i) ==
    IF rows[i].kind = "code"
    THEN IF run[i].verdict = "approved" THEN "QA" ELSE "CHANGES_REQUESTED"
    ELSE IF run[i].verdict = "approved" THEN status ELSE "QA_FAILED"

VerdictAllowed(i) ==
    VerdictMove(i) # status =>
        AuthorizeTaskTransition(status, VerdictMove(i),
            IF rows[i].kind = "qa" THEN "qa" ELSE "reviewer", rows[i].reviewer, owner)

\* A run whose row is decided already has nothing left to do.
SkipDecided(i) ==
    /\ run[i].at = "submit"
    /\ rows[i].state \notin Open
    /\ Step(i, "over")
    /\ UNCHANGED <<status, rows, opener, toStart, sweep, elsewhere>>

SubmitVerdict(i) ==
    /\ run[i].at = "submit"
    /\ rows[i].state \in Open
    /\ VerdictAllowed(i)
    /\ rows' = [rows EXCEPT ![i].state = run[i].verdict, ![i].decided = TRUE]
    /\ status' = VerdictMove(i)
    /\ Step(i, IF run[i].verdict = "changes_requested" THEN "over"
               ELSE IF rows[i].kind = "code" THEN "open_qa" ELSE "merge")
    /\ UNCHANGED <<opener, toStart, sweep, elsewhere>>

\* The QA round is asked for in the name of whoever owns the task now.
OpenQaRound(i) ==
    /\ run[i].at = "open_qa"
    /\ IF Unopened("qa", owner)
       THEN Step(i, "over") /\ UNCHANGED rows
       ELSE \E j \in 1..MaxRows :
                /\ RequestReview("qa", owner, j)
                /\ run' = [RunsFor(j) EXCEPT
                             ![i].at = IF Inserted(j) THEN "start_qa" ELSE "over",
                             ![i].next = IF Inserted(j) THEN j ELSE 0]
    /\ UNCHANGED <<status, opener, toStart, sweep, elsewhere>>

StartQaRound(i) ==
    /\ run[i].at = "start_qa"
    /\ run' = Started([run EXCEPT ![i].at = "over", ![i].next = 0], run[i].next)
    /\ UNCHANGED <<status, rows, opener, toStart, sweep, elsewhere>>

\* Mutant: a key in flight is taken over, as it once was.
MayTakeOver == key \in {"free", "in_flight"}

\* A key in flight is refused and a recorded answer is replayed.
MayClaim == key = "free"

\* mergeIfEligible, up to the gateway's claim of the key.
RequestMerge(i) ==
    /\ run[i].at = "merge"
    /\ IF MergeEligible /\ MayClaim
       THEN key' = "in_flight" /\ Step(i, "dispatch")
       ELSE UNCHANGED key /\ Step(i, "over")
    /\ UNCHANGED <<status, owner, rows, opener, toStart, sweep, merges, authors, reassigned, mishaps>>

\* The dispatcher asks for eligibility again; a throw is recorded as failed.
\* A branch main has moved away from conflicts, which is an answer like any.
DispatchMerge(i) ==
    /\ run[i].at = "dispatch"
    /\ \/ MergeEligible /\ merges' = merges + 1 /\ Step(i, "close") /\ UNCHANGED key
       \/ MergeEligible /\ key' = "conflict" /\ Step(i, "over") /\ UNCHANGED merges
       \/ ~ MergeEligible /\ key' = "failed" /\ Step(i, "over") /\ UNCHANGED merges
    /\ UNCHANGED <<status, owner, rows, opener, toStart, sweep, authors, reassigned, mishaps>>

\* An illegal transition to DONE is swallowed; the answer is recorded.
CloseTask(i) ==
    /\ run[i].at = "close"
    /\ status' = IF CanTransition(status, "DONE") THEN "DONE" ELSE status
    /\ key' = "merged"
    /\ Step(i, "over")
    /\ UNCHANGED <<owner, rows, opener, toStart, sweep, merges, authors, reassigned, mishaps>>

\* Once the verdict is committed the next attempt returns early; before that
\* an attempt is made again, up to the limit.
Retries(i) == run[i].at \in {"start", "decide", "submit"} /\ run[i].tries + 1 < Attempts

FailAttempt(i) ==
    /\ IF Retries(i)
       THEN run' = [run EXCEPT ![i].tries = @ + 1]
       ELSE run' = [run EXCEPT ![i].at = "over", ![i].tries = 0, ![i].next = 0]
    /\ UNCHANGED <<status, owner, rows, opener, toStart, sweep, key, merges, authors, reassigned>>

CrashAttempt(i) ==
    /\ Running(i)
    /\ mishaps < MaxMishap
    /\ mishaps' = mishaps + 1
    /\ FailAttempt(i)

\* The permission matrix or the task's status refuses the verdict.
RefuseVerdict(i) ==
    /\ run[i].at = "submit"
    /\ rows[i].state \in Open
    /\ ~ VerdictAllowed(i)
    /\ FailAttempt(i)
    /\ UNCHANGED mishaps

-----------------------------------------------------------------------------
(* The stuck-task sweep                                                    *)

\* Nothing that opens a round is under way.
Settled == opener = NoAgent /\ toStart = 0
           /\ \A i \in DOMAIN run : run[i].at \notin {"open_qa", "start_qa"}

\* A merge on its way, which a new row makes ineligible.
Merging == \E i \in DOMAIN run : run[i].at \in {"merge", "dispatch", "close"}

\* Mutants: the sweep looks at REVIEW only, and at tasks with an open row too.
OrphanedInReview == status = "REVIEW" /\ Settled /\ OpenRows = {}
OrphanedOrNot == status \in {"REVIEW", "QA"} /\ Settled

\* Rule 4 finds a task in REVIEW or QA without an open row ...
Orphaned == status \in {"REVIEW", "QA"} /\ Settled /\ OpenRows = {}

FindOrphan ==
    /\ sweep = AtRest
    /\ Orphaned
    /\ IF Merging
       THEN mishaps < MaxMishap /\ mishaps' = mishaps + 1
       ELSE UNCHANGED mishaps
    /\ sweep' = [AtRest EXCEPT !.kind = IF status = "QA" THEN "qa" ELSE "code",
                                !.by = owner]
    /\ UNCHANGED <<status, owner, rows, run, opener, toStart, key, merges, authors,
                   reassigned>>

\* ... and opens a round for what it found, whatever the task is by now.
AdoptOrphan ==
    /\ sweep.kind # "none"
    /\ IF Unopened(sweep.kind, sweep.by)
       THEN sweep' = AtRest /\ UNCHANGED <<rows, run>>
       ELSE \E i \in 1..MaxRows :
                /\ RequestReview(sweep.kind, sweep.by, i)
                /\ run' = RunsFor(i)
                /\ sweep' = [AtRest EXCEPT !.row = i]
    /\ UNCHANGED <<status, opener, toStart, elsewhere>>

\* Mutant: only rounds of QA are looked at.
UnstartedInQa(i) == status = "QA" /\ rows[i].state = "pending"

\* Rule 4b finds a pending row, by the age of the row.
Unstarted(i) == status \in {"REVIEW", "QA"} /\ rows[i].state = "pending"

FindUnstarted ==
    /\ sweep = AtRest
    /\ \E i \in DOMAIN rows : Unstarted(i) /\ sweep' = [AtRest EXCEPT !.row = i]
    /\ UNCHANGED <<status, rows, run, opener, toStart, elsewhere>>

SweepStarts ==
    /\ sweep.row # 0
    /\ run' = Started(run, sweep.row)
    /\ sweep' = AtRest
    /\ UNCHANGED <<status, rows, opener, toStart, elsewhere>>

-----------------------------------------------------------------------------
Init ==
    /\ status = "IN_PROGRESS"
    /\ owner = FirstOwner
    /\ rows = <<>>
    /\ run = <<>>
    /\ opener = NoAgent
    /\ toStart = 0
    /\ sweep = AtRest
    /\ key = "free"
    /\ merges = 0
    /\ authors = {}
    /\ reassigned = 0
    /\ mishaps = 0

ReviewStep(i) ==
    \/ StartReview(i) \/ DecideReview(i) \/ SkipDecided(i) \/ SubmitVerdict(i)
    \/ RefuseVerdict(i) \/ OpenQaRound(i) \/ StartQaRound(i)
    \/ RequestMerge(i) \/ DispatchMerge(i) \/ CloseTask(i)

Sweep == FindOrphan \/ AdoptOrphan \/ FindUnstarted \/ SweepStarts

Next ==
    \/ SubmitWork \/ OpenCodeReview \/ StartWorkflow \/ LoseCall \/ Resume
    \/ Reassign \/ Cancel
    \/ \E i \in DOMAIN rows : ReviewStep(i) \/ CrashAttempt(i)
    \/ Sweep

\* Temporal drives a workflow until it ends, a dispatch goes on to its next
\* call, and the sweep runs on a timer.  The owner and the Founder owe nothing.
Fairness ==
    /\ WF_vars(OpenCodeReview) /\ WF_vars(StartWorkflow) /\ WF_vars(Sweep)
    /\ \A i \in 1..MaxRows : WF_vars(i \in DOMAIN rows /\ ReviewStep(i))

Spec == Init /\ [][Next]_vars /\ Fairness

-----------------------------------------------------------------------------
(* Properties                                                              *)

TypeOK ==
    /\ status \in TaskStatus
    /\ owner \in Agent
    /\ rows \in Seq(Row) /\ Len(rows) <= MaxRows
    /\ run \in Seq(Run) /\ Len(run) = Len(rows)
    /\ opener \in Agent \cup {NoAgent}
    /\ toStart \in 0..Len(rows)
    /\ sweep \in [kind: Kinds \cup {"none"}, by: Agent \cup {NoAgent}, row: 0..Len(rows)]
    /\ key \in {"free", "in_flight", "failed", "conflict", "merged"}
    /\ merges \in Nat
    /\ authors \subseteq Agent
    /\ reassigned \in 0..MaxReassign
    /\ mishaps \in 0..MaxMishap

\* Retries, replays, restarted workflows and second QA rounds merge the branch
\* into main at most once, and the task is DONE only after that.
MergedOnceThenDone == merges <= 1 /\ (status = "DONE" => merges = 1)

\* What reached main passed both rounds, each decided by an agent that
\* submitted none of the work, as long as the task stayed in one hand: a former
\* owner may be picked to review.
MergedWorkWasAccepted ==
    merges > 0 /\ reassigned = 0 =>
        \A k \in Kinds : \E i \in OfKind(k) :
            rows[i].state = "approved" /\ rows[i].reviewer \notin authors

\* However crashes, the sweep and rework interleave, a kind of review has at
\* most one round open.
OneOpenRound == \A k \in Kinds : \A i, j \in OfKind(k) \cap OpenRows : i = j

\* A round whose reviewer has come to own the task: its approval is refused,
\* and after the last attempt nobody looks at the row again.
OwnRound == \E i \in OpenRows : rows[i].reviewer = owner

\* A task handed in for review is decided or withdrawn: no lost call, failed
\* attempt or change of owner leaves it in REVIEW for good, unless the new
\* owner is the reviewer of the round.
ReviewIsDecided == (status = "REVIEW") ~> (status # "REVIEW" \/ OwnRound)

\* A task in QA leaves it, unless its merge died behind the key.
QaIsLeft ==
    (status = "QA") ~> (status # "QA" \/ key \in {"in_flight", "failed", "conflict"})
================================================================================

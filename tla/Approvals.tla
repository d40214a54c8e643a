-------------------------------- MODULE Approvals --------------------------------
(***************************************************************************)
(* Asking the Founder: the approvals of one task, from the two places that *)
(* open them (the escalate action of packages/agent-actions/src/dispatch.ts*)
(* and the Tool Gateway's held calls) through verdict, expiry and sweep    *)
(* (packages/db/src/approvals.ts) to the way a decision gets back to the   *)
(* agent: the signal into its workflow, the wake of a new turn             *)
(* (approval-wake.ts), or the agent's own look into the rows.              *)
(*                                                                         *)
(* Left out: reminders, endorsements, notes and briefs; resubmit, which    *)
(* nothing in src/ calls; settleParkedTask, as nothing moves a task to     *)
(* APPROVAL; the gate a woken turn passes (AgentTurns), here a start that  *)
(* may be refused.                                                         *)
(***************************************************************************)
EXTENDS Integers, FiniteSets

CONSTANTS
    Shown,        \* the last approvals that the working set shows
    MaxApprovals, \* approvals of the task.  A bound.
    MaxUpsets     \* servers that die, starts refused, activities that fail.  A bound.

ASSUME ApprovalsAssumption == {Shown, MaxApprovals, MaxUpsets} \subseteq Nat

VARIABLES
    task,         \* tasks.status
    cli,          \* the agent's runtime: a CLI session, or the step loop
    turn,         \* where the agent's workflow stands
    on,           \* the approval an escalate of this step opened, or 0
    slot,         \* the verdicts behind signals.approvalVerdict, if it is set
    ap,           \* approvals.status by order of creation
    due,          \* approvals whose expiry has passed
    scan,         \* rows the running sweep has read as open
    post,         \* <<i, by>>: decisions committed and not signalled yet
    wakes,        \* decisions no workflow took, wakeOnDecidedApproval to come
    upsets,
    reached,      \* history: decisions a later step of the agent could see or ask for
    missed        \* history: decisions whose delivery ended short of that

agentVars == <<task, cli, turn, on, slot>>
founderVars == <<ap, due, scan, post, wakes>>
vars == <<agentVars, founderVars, upsets, reached, missed>>

Approval == 1..MaxApprovals
Open == {"pending", "needs_review"}
Decided == {"approved", "rejected", "expired"}
DecidedOnes == {i \in Approval : ap[i] \in Decided}
Latest == Cardinality({i \in Approval : ap[i] # "none"})
LastStatus == IF Latest = 0 THEN "none" ELSE ap[Latest]

TerminalTask == {"DONE", "FAILED", "CANCELLED"}
Handoff == TerminalTask \cup {"REVIEW", "QA", "APPROVAL", "BLOCKED", "WAITING"}

Phase == {"none", "begin", "step", "asking", "parking", "held", "expiring", "ending", "closed"}
Working == turn \notin {"none", "ending", "closed"}
TakesSignals == turn # "none"

\* Decisions the server still has to bring to the agent.
Outstanding == wakes \cup {p[1] : p \in post}

Upset == upsets < MaxUpsets /\ upsets' = upsets + 1
Reach(S) == reached' = reached \cup S
Miss(S) == missed' = missed \cup S

-----------------------------------------------------------------------------
(* The agent's turn                                                        *)

\* What a step has of the decisions.  The step loop's working set shows the last
\* approvals, and the verdict signal says of any other only what the verdict was.  A
\* CLI session can ask again and be told the last verdict: its brief has no approvals.
Visible ==
    IF cli THEN {i \in DecidedOnes : i = Latest /\ ap[i] # "expired"}
           ELSE {i \in DecidedOnes : i > Latest - Shown}

BeginStep ==
    /\ turn = "begin" /\ ~(cli /\ task \in Handoff)
    /\ turn' = "step"
    /\ slot' = IF cli THEN slot ELSE {}
    /\ Reach(Visible)
    /\ Miss(DecidedOnes \ (Visible \cup reached \cup Outstanding))
    /\ UNCHANGED <<task, cli, on, founderVars, upsets>>

\* The first poll of a CLI session ends it when the task was handed off, and the owner's
\* start moves neither a WAITING nor a BLOCKED task.
BeginsInVain ==
    /\ turn = "begin" /\ cli /\ task \in Handoff
    /\ turn' = "ending"
    /\ Miss(DecidedOnes \ (reached \cup Outstanding))
    /\ UNCHANGED <<task, cli, on, slot, founderVars, upsets, reached>>

NextStep == turn' = IF cli THEN "step" ELSE "begin"

\* update_task_status.
MoveTask ==
    /\ turn = "step"
    /\ \E edge \in {<<"IN_PROGRESS", "WAITING">>, <<"IN_PROGRESS", "BLOCKED">>,
                    <<"WAITING", "IN_PROGRESS">>, <<"BLOCKED", "IN_PROGRESS">>} :
          task = edge[1] /\ task' = edge[2]
    /\ NextStep
    /\ UNCHANGED <<cli, on, slot, founderVars, upsets, reached, missed>>

\* escalate while the task's last approval is open: the same row is the answer, with
\* no expiry in it; the step loop waits for it if it is pending.
EscalateAgain ==
    /\ turn = "step"
    /\ LastStatus \in Open
    /\ IF ~cli /\ LastStatus = "pending" THEN turn' = "held" ELSE NextStep
    /\ UNCHANGED <<task, cli, on, slot, founderVars, upsets, reached, missed>>

\* escalate after a verdict: the verdict is the answer.
EscalateDecided ==
    /\ turn = "step"
    /\ LastStatus \in {"approved", "rejected"}
    /\ Reach({Latest})
    /\ NextStep
    /\ UNCHANGED <<task, cli, on, slot, founderVars, upsets, missed>>

\* escalate with nothing asked, or an answer that never came.
Escalate ==
    /\ turn = "step"
    /\ LastStatus \in {"none", "expired"}
    /\ Latest < MaxApprovals
    /\ turn' = "asking"
    /\ UNCHANGED <<task, cli, on, slot, founderVars, upsets, reached, missed>>

OpenNext == ap' = [ap EXCEPT ![Latest + 1] = "pending"]

\* The row, in a transaction of its own.
CreateApproval ==
    /\ turn = "asking"
    /\ OpenNext
    /\ on' = Latest + 1
    /\ turn' = "parking"
    /\ UNCHANGED <<task, cli, slot, due, scan, post, wakes, upsets, reached, missed>>

\* wait_for approval: a decision that is there is the answer, else the loop sleeps.
WaitForApproval ==
    /\ turn = "step" /\ ~cli
    /\ IF LastStatus \in Decided
       THEN Reach({Latest}) /\ turn' = "begin"
       ELSE UNCHANGED reached /\ turn' = "parking"
    /\ UNCHANGED <<task, cli, on, slot, founderVars, upsets, missed>>

\* IN_PROGRESS -> WAITING, in the next transaction.  The step loop sleeps for at most
\* 15 minutes; an approval that expires within them is "expiring".
Park ==
    /\ turn = "parking"
    /\ task' = IF task = "IN_PROGRESS" THEN "WAITING" ELSE task
    /\ turn' \in IF cli THEN {"step"} ELSE {"held"} \cup (IF on = 0 THEN {} ELSE {"expiring"})
    /\ on' = IF turn' = "expiring" THEN on ELSE 0
    /\ UNCHANGED <<cli, slot, founderVars, upsets, reached, missed>>

\* resumeFromWaitActivity
Resumed == task' = IF task = "WAITING" THEN "IN_PROGRESS" ELSE task

\* A verdict, a message or the end of the slice.
WaitEnds ==
    /\ turn \in {"held", "expiring"}
    /\ Resumed
    /\ turn' = "begin" /\ on' = 0
    /\ UNCHANGED <<cli, slot, founderVars, upsets, reached, missed>>

\* The Tool Gateway holds a call: the row, in the transaction of the invocation.
HoldCall ==
    /\ turn = "step"
    /\ Latest < MaxApprovals
    /\ OpenNext
    /\ NextStep
    /\ UNCHANGED <<task, cli, on, slot, due, scan, post, wakes, upsets, reached, missed>>

\* request_review and complete_task.
Submit ==
    /\ turn = "step"
    /\ task = "IN_PROGRESS"
    /\ task' = "REVIEW"
    /\ turn' = IF cli THEN "step" ELSE "ending"
    /\ UNCHANGED <<cli, on, slot, founderVars, upsets, reached, missed>>

\* abandon and the guards of the step loop; the CLI exits, or its task was handed off.
TurnEnds ==
    /\ turn = "step"
    /\ turn' = "ending"
    /\ UNCHANGED <<task, cli, on, slot, founderVars, upsets, reached, missed>>

\* An activity fails for good and reportWorkflowCrashActivity runs.
Crash ==
    /\ Upset
    /\ Working
    /\ turn' = "ending" /\ on' = 0
    /\ task' = IF task \in {"IN_PROGRESS", "WAITING"} THEN "BLOCKED" ELSE task
    /\ Miss(DecidedOnes \ (reached \cup Outstanding))
    /\ UNCHANGED <<cli, slot, founderVars, reached>>

\* The session row ends, then the workflow does.
CloseSession ==
    /\ turn = "ending"
    /\ turn' = "closed"
    /\ UNCHANGED <<task, cli, on, slot, founderVars, upsets, reached, missed>>

Complete ==
    /\ turn = "closed"
    /\ turn' = "none" /\ slot' = {}
    /\ Miss(slot \ reached)
    /\ UNCHANGED <<task, cli, on, founderVars, upsets, reached>>

\* The review chain accepts (ReviewFlow).
Deliver ==
    /\ task = "REVIEW"
    /\ task' = "DONE"
    /\ UNCHANGED <<cli, turn, on, slot, founderVars, upsets, reached, missed>>

-----------------------------------------------------------------------------
(* Verdicts and expiry                                                     *)

\* verdict, under the row's lock: from pending only.
Verdict(i, v) ==
    /\ ap[i] = "pending"
    /\ ap' = [ap EXCEPT ![i] = v]
    /\ post' = post \cup {<<i, "route">>}
    /\ UNCHANGED <<agentVars, due, scan, wakes, upsets, reached, missed>>

TimePasses(i) ==
    /\ ap[i] \in Open /\ i \notin due
    /\ due' = due \cup {i}
    /\ UNCHANGED <<agentVars, ap, scan, post, wakes, upsets, reached, missed>>

\* Mutant: the row that was read without a lock is expired as it was read.
ExpireAsRead(i) == "expired"

\* expire, under the row's lock: whoever committed first has won.
Expire(i) == IF ap[i] \in Open THEN "expired" ELSE ap[i]

\* The workflow expires the approval it waits for, and takes what the row then says
\* for the verdict.
ExpireOwn ==
    /\ turn = "expiring" /\ slot = {}
    /\ ap' = [ap EXCEPT ![on] = Expire(on)]
    /\ slot' = {on}
    /\ Resumed
    /\ turn' = "begin" /\ on' = 0
    /\ UNCHANGED <<cli, due, scan, post, wakes, upsets, reached, missed>>

\* sweepApprovals: the open rows are read first, then each is expired by itself.
ExpiredRows == {i \in due : ap[i] \in Open}

SweepScan ==
    /\ scan = {}
    /\ scan' = ExpiredRows
    /\ scan' # {}
    /\ UNCHANGED <<agentVars, ap, due, post, wakes, upsets, reached, missed>>

SweepExpires(i) ==
    /\ i \in scan
    /\ scan' = scan \ {i}
    /\ ap' = [ap EXCEPT ![i] = Expire(i)]
    /\ post' = IF ap'[i] = ap[i] THEN post ELSE post \cup {<<i, "sweep">>}
    /\ UNCHANGED <<agentVars, due, wakes, upsets, reached, missed>>

-----------------------------------------------------------------------------
(* The way back to the agent                                               *)

\* The signal, after the commit.  Any running workflow of the task's id takes it, one
\* that takes no more steps too; only the step loop reads it.
Signal(i, by) ==
    /\ <<i, by>> \in post /\ TakesSignals
    /\ post' = post \ {<<i, by>>}
    /\ slot' = slot \cup {i}
    /\ UNCHANGED <<task, cli, turn, on, ap, due, scan, wakes, upsets, reached, missed>>

\* Mutant: the route leaves it at the signal.
NobodyWakes(i, by) == wakes' = wakes /\ UNCHANGED missed

\* Nobody took the signal: the verdict route wakes the agent, the sweep does not.
Undelivered(i, by) ==
    IF by = "route" THEN wakes' = wakes \cup {i} /\ UNCHANGED missed
                    ELSE wakes' = wakes /\ Miss({i})

SignalFails(i, by) ==
    /\ <<i, by>> \in post /\ ~TakesSignals
    /\ post' = post \ {<<i, by>>}
    /\ Undelivered(i, by)
    /\ UNCHANGED <<agentVars, ap, due, scan, upsets, reached>>

\* wakeOnDecidedApproval: the start of a turn, which the gate may refuse for good.
Wake(i) ==
    /\ i \in wakes /\ turn = "none" /\ task \notin TerminalTask
    /\ wakes' = wakes \ {i}
    /\ \/ turn' = "begin" /\ UNCHANGED <<upsets, missed>>
       \/ Upset /\ Miss({i}) /\ UNCHANGED turn
    /\ UNCHANGED <<task, cli, on, slot, ap, due, scan, post, reached>>

\* No wake when the task is over, nor when a session has opened since or a workflow is
\* still on its way out.
NoWake(i) ==
    /\ i \in wakes /\ (turn # "none" \/ task \in TerminalTask)
    /\ wakes' = wakes \ {i}
    /\ IF turn = "begin" THEN UNCHANGED missed ELSE Miss({i})
    /\ UNCHANGED <<agentVars, ap, due, scan, post, upsets, reached>>

\* The server stops: what it had to do after a commit is nowhere written down.
ServerDies ==
    /\ Upset
    /\ post' = {} /\ wakes' = {} /\ scan' = {}
    /\ Miss(Outstanding)
    /\ UNCHANGED <<agentVars, ap, due, reached>>

\* sweepStuckTasks, rules 1 and 2: 2 hours of WAITING.
StuckSweep ==
    /\ turn = "none" /\ task = "WAITING"
    /\ task' = "BLOCKED"
    /\ turn' = "begin"
    /\ UNCHANGED <<cli, on, slot, founderVars, upsets, reached, missed>>

\* The manager's decision on a BLOCKED task: the owner goes on.
Unblock ==
    /\ turn = "none" /\ task = "BLOCKED"
    /\ task' = "IN_PROGRESS"
    /\ turn' = "begin"
    /\ UNCHANGED <<cli, on, slot, founderVars, upsets, reached, missed>>

-----------------------------------------------------------------------------
(* Specification                                                           *)

Init ==
    /\ task = "IN_PROGRESS"
    /\ cli \in BOOLEAN
    /\ turn = "begin"
    /\ on = 0 /\ slot = {}
    /\ ap = [i \in Approval |-> "none"]
    /\ due = {} /\ scan = {} /\ post = {} /\ wakes = {}
    /\ upsets = 0 /\ reached = {} /\ missed = {}

AgentStep ==
    \/ BeginStep \/ BeginsInVain \/ MoveTask
    \/ EscalateAgain \/ EscalateDecided \/ Escalate \/ CreateApproval
    \/ WaitForApproval \/ Park \/ WaitEnds \/ ExpireOwn
    \/ HoldCall \/ Submit \/ TurnEnds \/ Crash \/ CloseSession \/ Complete

Next ==
    \/ AgentStep
    \/ Deliver \/ StuckSweep \/ Unblock \/ SweepScan \/ ServerDies
    \/ \E i \in Approval :
          \/ \E v \in {"approved", "rejected", "needs_review"} : Verdict(i, v)
          \/ TimePasses(i) \/ SweepExpires(i)
          \/ \E by \in {"route", "sweep"} : Signal(i, by) \/ SignalFails(i, by)
          \/ Wake(i) \/ NoWake(i)

Spec == Init /\ [][Next]_vars

-----------------------------------------------------------------------------
(* Properties                                                              *)

ApprovalStatus == {"none"} \cup Open \cup Decided

TypeOK ==
    /\ task \in {"IN_PROGRESS", "WAITING", "BLOCKED", "REVIEW", "DONE"}
    /\ cli \in BOOLEAN
    /\ turn \in Phase
    /\ on \in 0..MaxApprovals /\ (turn = "expiring" => on # 0)
    /\ ap \in [Approval -> ApprovalStatus]
    /\ slot \subseteq Approval /\ wakes \subseteq Approval
    /\ due \subseteq Approval /\ scan \subseteq due
    /\ reached \subseteq Approval /\ missed \subseteq Approval
    /\ post \subseteq Approval \X {"route", "sweep"}
    /\ upsets \in 0..MaxUpsets

\* approvals.ts, "whoever committed first won": the Founder's verdict, the sweep that
\* read its rows long before, and the workflow's own timer never overrule one another.
DecidedIsFinal ==
    [][\A i \in Approval : ap[i] \in Decided => ap'[i] = ap[i]]_vars

\* When nothing is under way any more, a decision has come to a step of the agent, or
\* one of the deliveries that end without one has taken it: an expiry nobody listened
\* for, a signal into a turn that took no further step, a step that later approvals hide
\* it from, a CLI turn that found its task handed off, a start refused, a server that died.
DecisionIsDelivered ==
    (turn = "none" /\ post = {} /\ wakes = {} /\ task \notin TerminalTask)
        => DecidedOnes \subseteq reached \cup missed
=================================================================================

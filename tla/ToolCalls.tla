-------------------------------- MODULE ToolCalls --------------------------------
(***************************************************************************)
(* What a tool call may cost and how often it may run: ToolGateway.invoke  *)
(* (apps/server/src/modules/tools/gateway.ts) between its transactions,    *)
(* with the idempotency keys of packages/db/src/idempotency.ts, and the    *)
(* ledger, budgets and circuit breaker of packages/db/src/costs.ts, which  *)
(* the model steps of the workers book into as well.                       *)
(*                                                                         *)
(* An invocation is one call of invoke(): <<c, n>> is the n-th attempt of  *)
(* the call with idempotency key c.  The caller may give an attempt up and *)
(* make the next one while the gateway still works on the first.  What     *)
(* grants, policies, constraints, the rate limit and an approval decide is *)
(* one choice; the requests themselves are sound.                          *)
(***************************************************************************)
EXTENDS Budgets

CONSTANTS
    Task, Call,
    AgentOf,         \* [Call -> Agent]
    TaskOf,          \* [Call -> Task]
    Estimate,        \* [Call -> Nat], the tool's estimateCost in cents
    SideEffectFree,  \* the calls of tools with sideEffectFree
    AuditOnly,       \* the calls the CLI runs itself and only asks about
    Budget,          \* [Task -> Nat \cup {NoBudget}], tasks.budget_cents
    Spared,          \* the agents tripBreaker does not pause
    Limits,          \* the hard daily limits of the company that are ever set
    Attempts,        \* [Call -> Nat], how often its caller makes it: a bound
    MaxSteps,        \* LLM steps booked: a bound
    MaxUpsets        \* deaths, failures, new days, changed limits: a bound

ASSUME CallsAssumption ==
    /\ IsFiniteSet(Call)
    /\ AgentOf \in [Call -> Agent]
    /\ TaskOf \in [Call -> Task]
    /\ Estimate \in [Call -> Nat]
    /\ SideEffectFree \subseteq Call /\ AuditOnly \subseteq Call
    /\ Budget \in [Task -> Nat \cup {NoBudget}]
    /\ Spared \subseteq Agent
    /\ Limits \subseteq Nat \ {0} /\ Limits # {}
    /\ Attempts \in [Call -> Nat]
    /\ {MaxSteps, MaxUpsets} \subseteq Nat

Inv == UNION {{c} \X (1..Attempts[c]) : c \in Call}

VARIABLES
    at,      \* [Inv -> Points], where invoke() stands
    row,     \* [Inv -> RowStatus], tool_invocations.status
    cost,    \* [Inv -> Nat], tool_invocations.cost_cents
    old,     \* invocations whose row is older than IN_FLIGHT_RESERVATION_MS
    key,     \* [Call -> ...], the row of idempotency_keys
    spent,   \* [Task -> Nat], tasks.spent_cents
    today,   \* the company's cost_entries of this day, summed
    limit,   \* budgets.limit_cents of the company's daily budget
    paused,  \* agents with employment.paused_by_breaker
    upsets,
    runs,    \* history: [Call -> Nat], how often the tool itself was started
    steps,   \* history: [Task -> Nat], the cents of the model steps in spent
    waived   \* history: the limit was set when the day's spending had reached it

ledger == <<spent, today, paused>>
vars == <<at, row, cost, old, key, spent, today, limit, paused, upsets,
          runs, steps, waived>>

Points == {"idle", "claimed", "allowed", "denied", "held", "reserved",
           "running", "recording", "answered", "dead"}
RowStatus == {"none", "denied", "awaiting_approval", "dispatched", "failed", "succeeded"}

Goto(i, p) == at' = [at EXCEPT ![i] = p]
SetRow(i, s, cents) == row' = [row EXCEPT ![i] = s] /\ cost' = [cost EXCEPT ![i] = cents]
Upset == upsets < MaxUpsets /\ upsets' = upsets + 1

TaskIn(i) == TaskOf[i[1]]
EstimateOf(i) == Estimate[i[1]]

-----------------------------------------------------------------------------
(* Reservations and budgets                                                *)

\* inFlightReservedCents: the estimates on the dispatched rows of the last hour.
InFlight == {i \in Inv : row[i] = "dispatched" /\ i \notin old}
Reserved(S) == Total(cost, S \cap InFlight)
OnTask(t) == {i \in Inv : TaskIn(i) = t}

\* tightestBudget: the task's own budget governs if there is one, the
\* company's day only if there is none.
Remaining(t) ==
    IF Budget[t] # NoBudget
    THEN Budget[t] - spent[t] - Reserved(OnTask(t))
    ELSE limit - today - Reserved(Inv)

Affords(i) == EstimateOf(i) = 0 \/ EstimateOf(i) <= Remaining(TaskIn(i))

-----------------------------------------------------------------------------
(* The ledger                                                              *)

\* Mutant: an entry that lands on the limit is not a crossing.
PassesOver(n) == today + n > limit /\ today < limit

\* The entry that takes the day's sum across the limit, and no later one.
Crosses(n) == today + n >= limit /\ today < limit

\* recordCostInTx and tripBreaker.  The event of the entry takes the company's
\* event sequence, so that no two of these transactions sum the day at once.
Book(t, n) ==
    /\ spent' = [spent EXCEPT ![t] = @ + n]
    /\ today' = today + n
    /\ paused' = IF Crosses(n) THEN paused \cup (Agent \ Spared) ELSE paused

\* persistStepActivity: the entry of a model step asks no budget.
PersistStep(t, n) ==
    /\ Total(steps, Task) + n <= MaxSteps
    /\ Book(t, n)
    /\ steps' = [steps EXCEPT ![t] = @ + n]
    /\ UNCHANGED <<at, row, cost, old, key, limit, upsets, runs, waived>>

\* setBudget of the company's day.
SetBudget(n) ==
    /\ Upset
    /\ limit' = n
    /\ waived' = (today >= n)
    /\ UNCHANGED <<at, row, cost, old, key, ledger, runs, steps>>

\* restoreBudget, with a new limit or without one.
RestoreBudget(n) ==
    /\ Upset
    /\ limit' = n
    /\ paused' = {}
    /\ waived' = (today >= n)
    /\ UNCHANGED <<at, row, cost, old, key, spent, today, runs, steps>>

\* periodStart: the daily sum starts again at midnight; nobody is resumed.
NewDay ==
    /\ Upset
    /\ today' = 0
    /\ waived' = FALSE
    /\ UNCHANGED <<at, row, cost, old, key, spent, limit, paused, runs, steps>>

-----------------------------------------------------------------------------
(* invoke                                                                  *)

\* Mutant: a retry takes the key of a call in flight over, whatever the tool.
TakesOver(c) == key[c] # "recorded"

\* beginIdempotent: fresh, or in flight and repeatable.
MayClaim(c) == key[c] = "absent" \/ (key[c] = "in_flight" /\ c \in SideEffectFree)

\* The caller makes an attempt after it has made the one before.
MayBegin(i) ==
    at[i] = "idle" /\ \A n \in 1..(i[2] - 1) : at[<<i[1], n>>] # "idle"

\* The agent must be active.  A key with a response is answered from it; one in
\* flight with a side effect is refused, and the refusal is not recorded.
Invoke(i) ==
    LET c == i[1]
        active == AgentOf[c] \notin paused
    IN  /\ MayBegin(i)
        /\ IF active /\ MayClaim(c)
           THEN Goto(i, "claimed") /\ key' = [key EXCEPT ![c] = "in_flight"]
           ELSE Goto(i, "answered") /\ UNCHANGED key
        /\ row' = [row EXCEPT ![i] = IF active /\ key[c] = "in_flight" /\ ~ MayClaim(c)
                                     THEN "denied" ELSE @]
        /\ UNCHANGED <<cost, old, ledger, limit, upsets, runs, steps, waived>>

\* Steps 3 to 7 and the rate limit; the budget is read without a lock.
Decide(i) ==
    /\ at[i] = "claimed"
    /\ \E verdict \in {"allowed", "denied", "held"} :
        /\ verdict = "allowed" => Affords(i)
        /\ Goto(i, verdict)
    /\ UNCHANGED <<row, cost, old, key, ledger, limit, upsets, runs, steps, waived>>

\* Mutant: the budget read before the transaction is the decision.
ReserveOnAdvice(i) ==
    /\ at[i] = "allowed"
    /\ SetRow(i, "dispatched", EstimateOf(i))
    /\ Goto(i, "reserved")
    /\ UNCHANGED <<old, key, ledger, limit, upsets, runs, steps, waived>>

\* The audit transaction of an allowed call: the budget again, its row locked.
Reserve(i) ==
    /\ at[i] = "allowed"
    /\ IF Affords(i)
       THEN SetRow(i, "dispatched", EstimateOf(i)) /\ Goto(i, "reserved")
       ELSE SetRow(i, "denied", 0) /\ Goto(i, "recording")
    /\ UNCHANGED <<old, key, ledger, limit, upsets, runs, steps, waived>>

\* The audit transaction of any other.
Turndown(i) ==
    /\ at[i] \in {"denied", "held"}
    /\ SetRow(i, IF at[i] = "held" THEN "awaiting_approval" ELSE "denied", 0)
    /\ Goto(i, "recording")
    /\ UNCHANGED <<old, key, ledger, limit, upsets, runs, steps, waived>>

\* auditOnly: the decision was all; the row must not look like a cost.
OnlyAudit(i) ==
    /\ at[i] = "reserved"
    /\ i[1] \in AuditOnly
    /\ SetRow(i, "succeeded", 0)
    /\ Goto(i, "recording")
    /\ UNCHANGED <<old, key, ledger, limit, upsets, runs, steps, waived>>

\* Credentials and provisioning are behind it: the tool itself starts.
Dispatch(i) ==
    /\ at[i] = "reserved"
    /\ i[1] \notin AuditOnly
    /\ Goto(i, "running")
    /\ runs' = [runs EXCEPT ![i[1]] = @ + 1]
    /\ UNCHANGED <<row, cost, old, key, ledger, limit, upsets, steps, waived>>

\* prepare or dispatch threw or ran out of time: the reservation is released.
Fail(i) ==
    /\ at[i] \in {"reserved", "running"}
    /\ i[1] \notin AuditOnly
    /\ Upset
    /\ SetRow(i, "failed", 0)
    /\ Goto(i, "recording")
    /\ UNCHANGED <<old, key, ledger, limit, runs, steps, waived>>

\* What a run that was estimated at n costs: whole minutes, the last one begun.
Actual(n) == IF n = 0 THEN {0} ELSE 1..(n + 1)

\* Mutant: the row and the ledger entry are two transactions, the process
\* dies between them.
SettleOnly(i) ==
    /\ at[i] = "running"
    /\ \E n \in Actual(EstimateOf(i)) : SetRow(i, "succeeded", n)
    /\ Goto(i, "recording")
    /\ UNCHANGED <<old, key, ledger, limit, upsets, runs, steps, waived>>

\* The row and the ledger entry it prices, in one transaction.
Settle(i) ==
    /\ at[i] = "running"
    /\ \E n \in Actual(EstimateOf(i)) :
        /\ SetRow(i, "succeeded", n)
        /\ IF n > 0 THEN Book(TaskIn(i), n) ELSE UNCHANGED ledger
    /\ Goto(i, "recording")
    /\ UNCHANGED <<old, key, limit, upsets, runs, steps, waived>>

\* recordIdempotent, in a transaction of its own after the outcome's.
Record(i) ==
    /\ at[i] = "recording"
    /\ key' = [key EXCEPT ![i[1]] = "recorded"]
    /\ Goto(i, "answered")
    /\ UNCHANGED <<row, cost, old, ledger, limit, upsets, runs, steps, waived>>

-----------------------------------------------------------------------------
\* The process dies, or a transaction of the invocation fails: nobody resumes it.
Die(i) ==
    /\ at[i] \notin {"idle", "answered", "dead"}
    /\ Upset
    /\ Goto(i, "dead")
    /\ UNCHANGED <<row, cost, old, key, ledger, limit, runs, steps, waived>>

\* An hour passes.  The time-outs of prepare and dispatch end a living
\* invocation before that.
GrowOld(i) ==
    /\ at[i] = "dead"
    /\ row[i] = "dispatched"
    /\ i \notin old
    /\ old' = old \cup {i}
    /\ UNCHANGED <<at, row, cost, key, ledger, limit, upsets, runs, steps, waived>>

-----------------------------------------------------------------------------
Init ==
    /\ at = [i \in Inv |-> "idle"]
    /\ row = [i \in Inv |-> "none"]
    /\ cost = [i \in Inv |-> 0]
    /\ old = {}
    /\ key = [c \in Call |-> "absent"]
    /\ spent = [t \in Task |-> 0]
    /\ today = 0
    /\ limit \in Limits
    /\ paused = {}
    /\ upsets = 0
    /\ runs = [c \in Call |-> 0]
    /\ steps = [t \in Task |-> 0]
    /\ waived = FALSE

\* What the gateway does of itself once it has been called.
Proceed(i) ==
    Decide(i) \/ Reserve(i) \/ Turndown(i) \/ OnlyAudit(i) \/ Dispatch(i)
    \/ Settle(i) \/ Record(i)

Next ==
    \/ \E i \in Inv : Invoke(i) \/ Proceed(i) \/ Fail(i) \/ Die(i) \/ GrowOld(i)
    \/ \E t \in Task, n \in 1..MaxSteps : PersistStep(t, n)
    \/ \E n \in Limits : SetBudget(n) \/ RestoreBudget(n)
    \/ NewDay

Spec == Init /\ [][Next]_vars

-----------------------------------------------------------------------------
(* Properties                                                              *)

\* The types, and the hold of the points in invoke() over the rows.
TypeOK ==
    /\ at \in [Inv -> Points]
    /\ row \in [Inv -> RowStatus]
    /\ cost \in [Inv -> Nat]
    /\ old \subseteq {i \in Inv : row[i] = "dispatched"}
    /\ key \in [Call -> {"absent", "in_flight", "recorded"}]
    /\ spent \in [Task -> Nat]
    /\ today \in Nat
    /\ limit \in Limits
    /\ paused \subseteq Agent
    /\ upsets \in 0..MaxUpsets
    /\ runs \in [Call -> Nat]
    /\ steps \in [Task -> Nat]
    /\ waived \in BOOLEAN

\* Whatever dies and whatever is retried, what a task has spent is what its
\* model steps and its succeeded calls cost: nothing is billed twice, nothing
\* that succeeded is free, and a failed or forgotten call costs nothing.
EveryCallIsBilledOnce ==
    \A t \in Task :
        spent[t] = steps[t] + Total(cost, {i \in OnTask(t) : row[i] = "succeeded"})

\* What a call weighs against the budget it was allowed under: no more than
\* its estimate, should its last minute cost one cent more.
Weight == [i \in Inv |-> IF cost[i] < EstimateOf(i) THEN cost[i] ELSE EstimateOf(i)]

\* Calls that are decided at once and billed later never overspend a task's
\* budget together.  It is exceeded by model steps, which ask nobody, by a run
\* that outlasts its estimate, and by rows an hour old.
CallsKeepTheBudget ==
    \A t \in Task :
        LET live == {i \in OnTask(t) : row[i] = "succeeded" \/ i \in InFlight}
        IN  Budget[t] # NoBudget =>
                Total(Weight, live) <= Budget[t]

\* While the day's spending is over its limit, the breaker has everyone paused
\* whom it does not spare, whichever call or step crossed the limit.  Only a
\* limit that somebody set when the day had reached it already is no crossing.
BreakerHolds == today >= limit /\ ~ waived => Agent \ Spared \subseteq paused

\* A tool with side effects runs at most once under its key, whatever the
\* caller retries and whichever attempt dies.
SideEffectsHappenOnce == \A c \in Call \ SideEffectFree : runs[c] <= 1

================================================================================

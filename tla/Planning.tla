-------------------------------- MODULE Planning --------------------------------
(***************************************************************************)
(* How a project gets its team and starts: one run of projectGoalWorkflow  *)
(* (agent-worker/src/workflows/intake), the staffing proposal the Founder  *)
(* edits, confirms or cancels (server/src/modules/staffing/proposal.ts),   *)
(* the agent factory applyPlan, and continueProjectPlanning                *)
(* (staffing/service.ts), which the workflow, the Founder's button and the *)
(* hook of an approved hire all call.  Each of them is a series of         *)
(* transactions, so they interleave and a server that dies leaves them     *)
(* halfway; the organisation itself is OrgChart.                           *)
(*                                                                         *)
(* The project has one objective and the plans name one team, whose unit   *)
(* and positions exist: a plan is the number of its members, 0 for none.   *)
(* Costs, rationales, notifications, tool grants, the project's members    *)
(* and its teams are left out.                                             *)
(***************************************************************************)
EXTENDS OrgChart, FiniteSets, FiniteSetsExt, SequencesExt

CONSTANTS
    Lead,        \* agents the factory may hire as the team's lead
    Member,      \* agents it may hire as members; their names are 1, 2, ...
    StartTeams,  \* sets of agents one of which works at the start
    Call,        \* the request the workflow's current activity makes
    Hook,        \* what runs after an approved hire
    Tab,         \* the Founder's requests under way at once, numbers: a bound
    Heads,       \* numbers of members a plan has, 0 for no plan: a bound
    Needs,       \* numbers of members an analysis asks for, 0 for none: a bound
    Movable,     \* agents the Founder pauses, moves or parts with: a bound
    Attempts,    \* of one activity, 5
    MaxActs,     \* what the Founder asks and decides: a bound
    MaxUpsets    \* servers that die and changes of the organisation: a bound

Team == Lead \cup Member
Thread == {Call, Hook} \cup Tab
MaxHeads == Max(Heads \cup Needs)

\* A team that is at work already was built by the factory: one executive, one lead,
\* and the names of its members are used once and counted from 1.
StaffedByPlan(team) ==
    /\ \A a, b \in team : {a, b} \subseteq Executive \/ {a, b} \subseteq Lead => a = b
    /\ \A a, b \in team \cap Member : NameOf[a] = NameOf[b] => a = b
    /\ \A a \in team \cap Member : NameOf[a] <= Cardinality(team \cap Member)

ASSUME PlanningAssumption ==
    /\ Team \subseteq Agent /\ Lead \cap Member = {} /\ Executive \cap Team = {}
    /\ \A a \in Member : NameOf[a] \in 1..MaxHeads
    /\ \A a \in Agent \ Member : NameOf[a] \notin 1..MaxHeads
    /\ IsFiniteSet(Agent) /\ Movable \subseteq Agent /\ StartTeams \subseteq SUBSET Agent
    /\ \A team \in StartTeams : StaffedByPlan(team)
    /\ Call # Hook /\ {Call, Hook} \cap Tab = {} /\ Tab \subseteq Nat
    /\ 0 \in Heads \cap Needs /\ Heads \cup Needs # {0} /\ IsFiniteSet(Heads \cup Needs)
    /\ Heads \cup Needs \cup {Attempts, MaxActs, MaxUpsets} \subseteq Nat

VARIABLES
    project,    \* projects.status
    analysis,   \* members its requirement analysis asks for, 0 without one
    proposals,  \* staffing_proposals in the order of their creation
    goals,      \* the GOAL tasks of the objective, in the order of their creation
    approvals,  \* approvals of the kind "hire"
    workflow,   \* where projectGoalWorkflow stands
    signals,    \* staffingProposalDecided signals it was sent
    thread,     \* [Thread -> where the request stands]
    acts, upsets,
    granted,    \* history: the numbers of members the Founder agreed to
    raced,      \* history: two continuations have overlapped
    cut,        \* history: a server died in a continuation
    built,      \* history: the members the workflow's own factory call provided for
    shrunk      \* history: somebody was paused or left

counts == <<acts, upsets>>
rows == <<project, analysis, proposals, goals, approvals>>
history == <<granted, raced, cut, built, shrunk>>
vars == <<org, rows, workflow, signals, thread, counts, history>>

-----------------------------------------------------------------------------
(* The rows                                                                *)

ProjectStatus == {"planning", "staffing_review", "waiting_for_founder", "executing"}

\* projectMachine, as far as planning asks for it; advance swallows the rest.
Leads == [s \in ProjectStatus |->
    CASE s = "planning" -> ProjectStatus \ {s}
      [] s = "staffing_review" -> {"waiting_for_founder", "executing"}
      [] s = "waiting_for_founder" -> {"staffing_review", "executing"}
      [] s = "executing" -> {}]
Advance(to) == project' = IF to \in Leads[project] THEN to ELSE project

Editable == {"draft", "awaiting_human"}
OpenStatuses == Editable \cup {"confirmed"}
Positions(s, Is(_)) == {i \in DOMAIN s : Is(s[i])}
IsOpen(p) == p.status \in OpenStatuses
OpenProposals == Positions(proposals, IsOpen)

\* The partial unique index: a proposal opens only when no other is open.
MayOpen(i) == OpenProposals \subseteq {i}
Latest(is) == IF is = {} THEN 0 ELSE Max(is)
Proposed(status, heads, human) ==
    [status |-> status, heads |-> heads, human |-> human, version |-> 1]
Set(i, status) == proposals' = [proposals EXCEPT ![i].status = status]

\* Mutant: a plan no longer counts once it is applied.
BaselineConfirmed ==
    LET Settled(p) == p.status = "confirmed"
        i == Latest(Positions(proposals, Settled))
    IN  IF i = 0 THEN 0 ELSE proposals[i].heads

\* confirmedStaffingBaseline: what the Founder confirmed takes the place of
\* the analysis; a plan without members does not.
Baseline ==
    LET Settled(p) == p.status \in {"confirmed", "applied"}
        i == Latest(Positions(proposals, Settled))
    IN  IF i = 0 THEN 0 ELSE proposals[i].heads

-----------------------------------------------------------------------------
(* Requests                                                                *)

\* Where a request stands: it edits, confirms or cancels; proposes; builds a plan;
\* or continues the planning.
Deciding == {"edit", "confirm", "signal", "cancel", "apply", "brief"}
Proposing == {"find", "insert", "fill"}
Building == {"boss", "count", "lead", "hire_lead", "hire"}
Continuing == {"exec", "shelve", "gap", "route", "create", "groom", "ask", "note",
               "file", "await", "assign", "start"}

\* id is the proposal or the goal, heads the members asked for.
Idle == [pc |-> "idle", id |-> 0, heads |-> 0, version |-> 0, next |-> 0,
         missing |-> 0, boss |-> NoAgent, lead |-> NoAgent]
At(t, pc) == thread[t].pc = pc
Go(t, pc) == thread' = [thread EXCEPT ![t].pc = pc]
Put(t, r) == thread' = [thread EXCEPT ![t] = r]

\* Mutant: without a proposal the workflow ends.
EndsUnproposed == [propose |-> "done", apply |-> "continue", continue |-> "done"]

\* The step of the workflow after the one whose activity ended or was given up.
Following == [propose |-> "continue", apply |-> "continue", continue |-> "done"]
MoveOn == [workflow EXCEPT !.pc = Following[@], !.attempt = 1]
Repeat == IF workflow.attempt < Attempts
          THEN [workflow EXCEPT !.attempt = @ + 1]
          ELSE MoveOn

Return(t) ==
    /\ Put(t, Idle)
    /\ workflow' = IF t = Call THEN MoveOn ELSE workflow
Throw(t) ==
    /\ Put(t, Idle)
    /\ workflow' = IF t = Call THEN Repeat ELSE workflow

-----------------------------------------------------------------------------
(* applyProposal and applyPlan                                             *)

Apply(t) ==
    /\ At(t, "apply")
    /\ LET p == proposals[thread[t].id] IN
       CASE p.status = "applied" -> Return(t)
         [] p.status = "confirmed" ->
              /\ Put(t, [thread[t] EXCEPT !.pc = "boss", !.heads = p.heads])
              /\ UNCHANGED workflow
         [] OTHER -> Throw(t)
    /\ UNCHANGED <<org, rows, signals, counts, history>>

\* What the hook of an approved hire reads first: the plan its GOAL carries.
Brief(t) ==
    /\ At(t, "brief")
    /\ LET plan == goals[thread[t].id].plan IN
       Put(t, IF plan = 0 THEN Idle
              ELSE [thread[t] EXCEPT !.pc = "boss", !.heads = plan])
    /\ UNCHANGED <<org, rows, workflow, signals, counts, history>>

FindBoss(t) ==
    /\ At(t, "boss")
    /\ Put(t, [thread[t] EXCEPT !.pc = "count", !.boss = TopExecutive])
    /\ UNCHANGED <<org, rows, workflow, signals, counts, history>>

\* The unit's active agents, a lead of an earlier attempt included.
Count(t) ==
    /\ At(t, "count")
    /\ Put(t, [thread[t] EXCEPT !.pc = "lead", !.next = Cardinality(Team \cap Active) + 1])
    /\ UNCHANGED <<org, rows, workflow, signals, counts, history>>

FindLead(t) ==
    /\ At(t, "lead")
    /\ IF Lead \cap Active = {}
       THEN Go(t, "hire_lead")
       ELSE \E a \in Lead \cap Active :
               Put(t, [thread[t] EXCEPT !.pc = "hire", !.lead = a])
    /\ UNCHANGED <<org, rows, workflow, signals, counts, history>>

\* The row the next hire from pool inserts.
Fresh(pool) == {a \in pool : /\ ~ Hired(a)
                             /\ \A b \in pool : ~ Hired(b) => NumberOf[a] <= NumberOf[b]}

\* One hire of the factory; a name that is taken, or an edge that is in the
\* way, fails the whole request.
HireFrom(t, pool, boss, r) ==
    IF \E a \in Fresh(pool) : MayHire(a, boss)
    THEN /\ \E a \in Fresh(pool) :
               Hire(a, boss, TRUE) /\ Put(t, IF a \in Lead THEN [r EXCEPT !.lead = a] ELSE r)
         /\ UNCHANGED workflow
    ELSE Throw(t) /\ UNCHANGED org

HireLead(t) ==
    /\ At(t, "hire_lead")
    /\ HireFrom(t, Lead, thread[t].boss, [thread[t] EXCEPT !.pc = "hire"])
    /\ UNCHANGED <<rows, signals, counts, history>>

HireMember(t) ==
    /\ At(t, "hire") /\ thread[t].next <= thread[t].heads
    /\ HireFrom(t, {a \in Member : NameOf[a] = thread[t].next}, thread[t].lead,
                [thread[t] EXCEPT !.next = @ + 1])
    /\ UNCHANGED <<rows, signals, counts, history>>

\* The plan is built; the hook goes on to the planning, a proposal becomes
\* applied whatever its status is now.
Mark(t) ==
    /\ At(t, "hire") /\ thread[t].next > thread[t].heads
    /\ IF t = Hook
       THEN Go(t, "read") /\ UNCHANGED <<rows, workflow, history>>
       ELSE /\ Set(thread[t].id, "applied")
            /\ Return(t)
            /\ built' = IF t = Call THEN thread[t].heads ELSE built
            /\ UNCHANGED <<project, analysis, goals, approvals, granted, raced, cut, shrunk>>
    /\ UNCHANGED <<org, signals, counts>>

-----------------------------------------------------------------------------
(* continueProjectPlanning                                                 *)

\* Mutant: a project without an analysis asks for nobody.
RequiredAsAnalysed == IF Baseline > 0 THEN Baseline ELSE analysis

\* Fail closed: without a plan and an analysis one member is asked for.
Required == IF Baseline > 0 THEN Baseline ELSE IF analysis > 0 THEN analysis ELSE 1

Read(t) ==
    /\ At(t, "read")
    /\ Put(t, [Idle EXCEPT !.pc = "exec", !.heads = Required])
    /\ analysis' = IF Baseline > 0 THEN analysis ELSE Required
    /\ raced' = (raced \/ \E u \in Thread \ {t} : thread[u].pc \in Continuing)
    /\ UNCHANGED <<org, project, proposals, goals, approvals, workflow, signals,
                   counts, granted, cut, built, shrunk>>

FindExecutive(t) ==
    /\ At(t, "exec")
    /\ Go(t, IF TopExecutive = NoAgent THEN "shelve" ELSE "gap")
    /\ UNCHANGED <<org, rows, workflow, signals, counts, history>>

Shelve(t) ==
    /\ At(t, "shelve")
    /\ Advance("staffing_review")
    /\ Return(t)
    /\ UNCHANGED <<org, analysis, proposals, goals, approvals, signals, counts, history>>

\* analyzeGap: whoever is active in the team counts, its lead included.
Gap(t) ==
    /\ At(t, "gap")
    /\ LET have == Cardinality(Team \cap Active) IN
       Put(t, [thread[t] EXCEPT !.pc = "route",
                  !.missing = IF thread[t].heads > have THEN thread[t].heads - have ELSE 0])
    /\ UNCHANGED <<org, rows, workflow, signals, counts, history>>

Routed(t, i, boss) == [thread[t] EXCEPT
    !.id = i, !.boss = boss, !.pc = IF thread[t].missing > 0 THEN "ask" ELSE "assign"]

\* Mutant: only a GOAL that is ready to be assigned is found again.
FoundPlanned == Latest({i \in DOMAIN goals : goals[i].status # "DRAFT"})

\* The newest GOAL of the objective.
Found == Latest(DOMAIN goals)

\* routeIntake: its executive, and the GOAL it finds.
Route(t) ==
    /\ At(t, "route")
    /\ IF TopExecutive = NoAgent
       THEN Throw(t)
       ELSE /\ Put(t, IF Found > 0 THEN Routed(t, Found, TopExecutive)
                      ELSE [thread[t] EXCEPT !.pc = "create", !.boss = TopExecutive])
            /\ UNCHANGED workflow
    /\ UNCHANGED <<org, rows, signals, counts, history>>

Create(t) ==
    /\ At(t, "create")
    /\ goals' = Append(goals, [status |-> "DRAFT", plan |-> 0])
    /\ Put(t, [thread[t] EXCEPT !.pc = "groom", !.id = Len(goals) + 1])
    /\ UNCHANGED <<org, project, analysis, proposals, approvals, workflow, signals,
                   counts, history>>

\* DRAFT over BACKLOG to PLANNED; DRAFT stands for both.
Groom(t) ==
    /\ At(t, "groom")
    /\ goals' = [goals EXCEPT ![thread[t].id].status = "PLANNED"]
    /\ Put(t, Routed(t, thread[t].id, thread[t].boss))
    /\ UNCHANGED <<org, project, analysis, proposals, approvals, workflow, signals,
                   counts, history>>

\* createStaffingApproval: a hire that is pending is not asked for again.
Ask(t) ==
    /\ At(t, "ask")
    /\ Go(t, IF \E i \in DOMAIN approvals : approvals[i] = [goal |-> thread[t].id, status |-> "pending"]
             THEN "await" ELSE "note")
    /\ UNCHANGED <<org, rows, workflow, signals, counts, history>>

\* The GOAL carries the first plan it was given.
Note(t) ==
    /\ At(t, "note")
    /\ goals' = [goals EXCEPT ![thread[t].id].plan = IF @ = 0 THEN thread[t].missing ELSE @]
    /\ Go(t, "file")
    /\ UNCHANGED <<org, project, analysis, proposals, approvals, workflow, signals,
                   counts, history>>

File(t) ==
    /\ At(t, "file")
    /\ approvals' = Append(approvals, [goal |-> thread[t].id, status |-> "pending"])
    /\ Go(t, "await")
    /\ UNCHANGED <<org, project, analysis, proposals, goals, workflow, signals,
                   counts, history>>

\* Over staffing_review to waiting_for_founder.
Await(t) ==
    /\ At(t, "await")
    /\ project' = IF project = "executing" THEN project ELSE "waiting_for_founder"
    /\ Return(t)
    /\ UNCHANGED <<org, analysis, proposals, goals, approvals, signals, counts, history>>

\* A GOAL that is PLANNED and has no owner yet.
Assignable(t) == goals[thread[t].id].status = "PLANNED"

Assign(t) ==
    /\ At(t, "assign")
    /\ goals' = IF Assignable(t)
                THEN [goals EXCEPT ![thread[t].id].status = "ASSIGNED"] ELSE goals
    /\ Go(t, "start")
    /\ UNCHANGED <<org, project, analysis, proposals, approvals, workflow, signals,
                   counts, history>>

Start(t) ==
    /\ At(t, "start")
    /\ Advance("executing")
    /\ Return(t)
    /\ UNCHANGED <<org, analysis, proposals, goals, approvals, signals, counts, history>>

-----------------------------------------------------------------------------
(* projectGoalWorkflow                                                     *)

Step(pc, next) ==
    /\ workflow.pc = pc
    /\ workflow' = [workflow EXCEPT !.pc = next]

\* openDraftProposal, before the workflow thinks.
OpenDraft ==
    /\ Step("open", "analyze")
    /\ proposals' = IF OpenProposals = {} THEN Append(proposals, Proposed("draft", 0, FALSE))
                    ELSE proposals
    /\ UNCHANGED <<org, project, analysis, goals, approvals, signals, thread, counts, history>>

\* analyzeRequirementsActivity, which may come back with nothing.
Analyze ==
    /\ workflow.pc = "analyze"
    /\ \E n \in Needs :
          /\ workflow' = [workflow EXCEPT !.pc = "propose", !.known = n]
          /\ analysis' = IF n > 0 THEN n ELSE analysis
    /\ UNCHANGED <<org, project, proposals, goals, approvals, signals, thread, counts, history>>

\* proposeStaffingActivity: the model's plan, or the analysis; without either
\* there is nothing to propose.
Propose ==
    /\ workflow.pc = "propose" /\ At(Call, "idle")
    /\ \E n \in Heads :
          LET plan == IF n > 0 THEN n ELSE workflow.known IN
          IF plan = 0
          THEN workflow' = MoveOn /\ UNCHANGED thread
          ELSE Put(Call, [Idle EXCEPT !.pc = "find", !.heads = plan]) /\ UNCHANGED workflow
    /\ UNCHANGED <<org, rows, signals, counts, history>>

\* The answer of upsertProposal: a plan with members is waited for, and a
\* project is parked only for one that awaits the Founder.
Answer(i, p) ==
    /\ thread' = [thread EXCEPT ![Call] = Idle]
    /\ IF p.status = "awaiting_human" THEN Advance("waiting_for_founder") ELSE UNCHANGED project
    /\ workflow' = IF p.heads > 0
                   THEN [workflow EXCEPT !.pc = "wait", !.id = i, !.attempt = 1]
                   ELSE MoveOn

Find ==
    /\ At(Call, "find")
    /\ UNCHANGED <<org, analysis, proposals, goals, approvals, signals, counts, history>>
    /\ IF OpenProposals = {}
       THEN Go(Call, "insert") /\ UNCHANGED <<project, workflow>>
       ELSE LET i == Latest(OpenProposals) IN
            IF proposals[i].status = "draft" /\ proposals[i].heads = 0 /\ ~ proposals[i].human
            THEN /\ Put(Call, [thread[Call] EXCEPT !.pc = "fill", !.id = i,
                                                   !.version = proposals[i].version])
                 /\ UNCHANGED <<project, workflow>>
            ELSE Answer(i, proposals[i])

\* The unique index fails the insert beside an open proposal.
Insert ==
    /\ At(Call, "insert")
    /\ LET p == Proposed("awaiting_human", thread[Call].heads, FALSE) IN
       IF OpenProposals = {}
       THEN proposals' = Append(proposals, p) /\ Answer(Len(proposals) + 1, p)
       ELSE Throw(Call) /\ UNCHANGED <<project, proposals>>
    /\ UNCHANGED <<org, analysis, goals, approvals, signals, counts, history>>

\* The draft is filled unless its version moved on; an edit wins.
Fill ==
    /\ At(Call, "fill")
    /\ LET i == thread[Call].id
           p == [proposals[i] EXCEPT !.status = "awaiting_human", !.heads = thread[Call].heads]
       IN  CASE proposals[i].version # thread[Call].version ->
                   Answer(i, proposals[i]) /\ UNCHANGED proposals
             [] proposals[i].version = thread[Call].version /\ MayOpen(i) ->
                   proposals' = [proposals EXCEPT ![i] = p] /\ Answer(i, p)
             [] OTHER -> Throw(Call) /\ UNCHANGED <<project, proposals>>
    /\ UNCHANGED <<org, analysis, goals, approvals, signals, counts, history>>

\* Decisions on another proposal are not for this workflow.
Decided ==
    /\ workflow.pc = "wait"
    /\ \E s \in signals :
          /\ s[1] = workflow.id
          /\ workflow' = [workflow EXCEPT !.pc = IF s[2] = "confirmed" THEN "apply" ELSE "done"]
    /\ UNCHANGED <<org, rows, signals, thread, counts, history>>

\* Seven days without a decision.
TimeOut ==
    /\ Step("wait", "done")
    /\ UNCHANGED <<org, rows, signals, thread, counts, history>>

\* applyStaffingProposalActivity and continueProjectPlanningActivity.
Request ==
    /\ workflow.pc \in {"apply", "continue"} /\ At(Call, "idle")
    /\ Put(Call, IF workflow.pc = "apply"
                 THEN [Idle EXCEPT !.pc = "apply", !.id = workflow.id]
                 ELSE [Idle EXCEPT !.pc = "read"])
    /\ UNCHANGED <<org, rows, workflow, signals, counts, history>>

-----------------------------------------------------------------------------
(* The Founder                                                             *)

Does == acts < MaxActs /\ acts' = acts + 1 /\ UNCHANGED upsets
Opens(t, r) == At(t, "idle") /\ Does /\ Put(t, r)

\* Requests are alike, so the first place that is free takes the next one.
Free == {t \in Tab : At(t, "idle") /\ \A u \in Tab : u < t => ~ At(u, "idle")}

\* editProposal reads the newest proposal and writes it if its version, not
\* its status, is the one it read.
Edit(t) ==
    /\ proposals # <<>> /\ Last(proposals).status \in Editable
    /\ \E n \in Heads :
          Opens(t, [Idle EXCEPT !.pc = "edit", !.id = Len(proposals), !.heads = n,
                                !.version = Last(proposals).version])
    /\ UNCHANGED <<org, rows, workflow, signals, history>>

WriteEdit(t) ==
    /\ At(t, "edit")
    /\ LET i == thread[t].id IN
       IF proposals[i].version = thread[t].version
       THEN /\ proposals' = [proposals EXCEPT ![i].heads = thread[t].heads,
                                ![i].human = TRUE, ![i].version = @ + 1]
            /\ granted' = granted \cup {thread[t].heads}
       ELSE UNCHANGED <<proposals, granted>>
    /\ Put(t, Idle)
    /\ UNCHANGED <<org, project, analysis, goals, approvals, workflow, signals, counts,
                   raced, cut, built, shrunk>>

\* confirmProposal reads the status and writes without looking at it again.
Confirm(t) ==
    /\ proposals # <<>>
    /\ LET p == Last(proposals)
           r == [Idle EXCEPT !.id = Len(proposals)]
       IN  \/ p.status \in {"confirmed", "applied"} /\ Opens(t, [r EXCEPT !.pc = "signal"])
           \/ p.status \in Editable /\ p.heads > 0 /\ Opens(t, [r EXCEPT !.pc = "confirm"])
    /\ UNCHANGED <<org, rows, workflow, signals, history>>

WriteConfirm(t) ==
    /\ At(t, "confirm")
    /\ LET i == thread[t].id IN
       IF MayOpen(i)
       THEN /\ Set(i, "confirmed") /\ Go(t, "signal")
            /\ granted' = granted \cup {proposals[i].heads}
       ELSE Put(t, Idle) /\ UNCHANGED <<proposals, granted>>
    /\ UNCHANGED <<org, project, analysis, goals, approvals, workflow, signals, counts,
                   raced, cut, built, shrunk>>

\* The confirm route's wake-up: what the workflow cannot be told is built here.
Signal(t) ==
    /\ At(t, "signal")
    /\ IF workflow.pc # "done"
       THEN signals' = signals \cup {<<thread[t].id, "confirmed">>} /\ Put(t, Idle)
       ELSE Go(t, "apply") /\ UNCHANGED signals
    /\ UNCHANGED <<org, rows, workflow, counts, history>>

\* The cancel route signals first and writes whatever the status is.
Cancel(t) ==
    /\ proposals # <<>>
    /\ Opens(t, [Idle EXCEPT !.pc = "cancel", !.id = Len(proposals)])
    /\ signals' = IF workflow.pc = "done" THEN signals
                  ELSE signals \cup {<<Len(proposals), "cancelled">>}
    /\ UNCHANGED <<org, rows, workflow, history>>

WriteCancel(t) ==
    /\ At(t, "cancel")
    /\ Set(thread[t].id, "cancelled") /\ Put(t, Idle)
    /\ UNCHANGED <<org, project, analysis, goals, approvals, workflow, signals, counts, history>>

\* The button that continues the planning.
Continue(t) ==
    /\ Opens(t, [Idle EXCEPT !.pc = "read"])
    /\ UNCHANGED <<org, rows, workflow, signals, history>>

\* The verdict on a hire; an approval starts the hook, and nobody waits for it.
Decide ==
    /\ \E i \in DOMAIN approvals, verdict \in {"approved", "rejected"} :
          /\ approvals[i].status = "pending"
          /\ approvals' = [approvals EXCEPT ![i].status = verdict]
          /\ IF verdict = "approved"
             THEN /\ Opens(Hook, [Idle EXCEPT !.pc = "brief", !.id = approvals[i].goal])
                  /\ granted' = granted \cup {goals[approvals[i].goal].plan}
             ELSE Does /\ UNCHANGED <<thread, granted>>
    /\ UNCHANGED <<org, project, analysis, proposals, goals, workflow, signals,
                   raced, cut, built, shrunk>>

\* The Founder rearranges the organisation.
Reorganise ==
    /\ upsets < MaxUpsets /\ upsets' = upsets + 1
    /\ \/ EndEdge
       \/ \E a \in Movable : Activate(a) \/ Pause(a) \/ Offboard(a)
       \/ \E a \in Movable, m \in Agent \cup {NoAgent} : ChangeManager(a, m)
       \/ \E a \in Movable, m \in Agent : CreateEdge(a, m) \/ CreateManages(m, a)
       \/ \E a \in Executive : Hire(a, NoAgent, TRUE)
    /\ shrunk' = (shrunk \/ ~ Active \subseteq Active')
    /\ UNCHANGED <<rows, workflow, signals, thread, acts, granted, raced, cut, built>>

-----------------------------------------------------------------------------
\* The server dies with every request it serves; the worker tries its again.
Crash ==
    /\ upsets < MaxUpsets /\ upsets' = upsets + 1 /\ UNCHANGED acts
    /\ \E t \in Thread : ~ At(t, "idle")
    /\ thread' = [t \in Thread |-> Idle]
    /\ workflow' = IF At(Call, "idle") THEN workflow ELSE Repeat
    /\ cut' = (cut \/ \E t \in Thread : thread[t].pc \in Continuing)
    /\ UNCHANGED <<org, rows, signals, granted, raced, built, shrunk>>

Serve(t) ==
    \/ Apply(t) \/ Brief(t) \/ FindBoss(t) \/ Count(t) \/ FindLead(t)
    \/ HireLead(t) \/ HireMember(t) \/ Mark(t)
    \/ Read(t) \/ FindExecutive(t) \/ Shelve(t) \/ Gap(t) \/ Route(t) \/ Create(t)
    \/ Groom(t) \/ Ask(t) \/ Note(t) \/ File(t) \/ Await(t) \/ Assign(t) \/ Start(t)
    \/ WriteEdit(t) \/ WriteConfirm(t) \/ Signal(t) \/ WriteCancel(t)
    \/ t = Call /\ (Find \/ Insert \/ Fill)

Run == OpenDraft \/ Analyze \/ Propose \/ Decided \/ TimeOut \/ Request

Founder ==
    \/ \E t \in Free : Edit(t) \/ Confirm(t) \/ Cancel(t) \/ Continue(t)
    \/ Decide
    \/ Reorganise

\* The edges of a team the factory has built: a storey under one manager each.
Storeys(team) == {e \in team \X team : \/ e[1] \in Member /\ e[2] \in Lead
                                       \/ e[1] \in Lead /\ e[2] \in Executive}

Init ==
    /\ \E team \in StartTeams :
          /\ employment = [a \in Agent |-> IF a \in team THEN "active" ELSE "none"]
          /\ reportsTo = Storeys(team)
          /\ manages = {<<e[2], e[1]>> : e \in reportsTo}
          /\ everReported = {e[1] : e \in reportsTo}
          /\ granted = {Cardinality(team \cap Member)}
    /\ project = "planning" /\ analysis = 0
    /\ proposals = <<>> /\ goals = <<>> /\ approvals = <<>>
    /\ workflow = [pc |-> "open", known |-> 0, id |-> 0, attempt |-> 1]
    /\ signals = {}
    /\ thread = [t \in Thread |-> Idle]
    /\ acts = 0 /\ upsets = 0
    /\ raced = FALSE /\ cut = FALSE /\ shrunk = FALSE /\ built = 0

Next == Run \/ (\E t \in Thread : Serve(t)) \/ Founder \/ Crash

\* The worker runs its workflow and the server serves what that asks of it;
\* what the Founder asks may hang.
Fairness == WF_vars(Run) /\ WF_vars(Serve(Call))
Spec == Init /\ [][Next]_vars /\ Fairness

-----------------------------------------------------------------------------
ThreadState == [pc : {"idle", "read"} \cup Deciding \cup Proposing \cup Building \cup Continuing,
                id : Nat, heads : 0..MaxHeads, version : Nat, next : Nat, missing : 0..MaxHeads,
                boss : Agent \cup {NoAgent}, lead : Agent \cup {NoAgent}]

TypeOK ==
    /\ OrgTypeOK
    /\ project \in ProjectStatus /\ analysis \in 0..MaxHeads
    /\ proposals \in Seq([status : OpenStatuses \cup {"applied", "cancelled"}, heads : 0..MaxHeads,
                          human : BOOLEAN, version : Nat \ {0}])
    /\ goals \in Seq([status : {"DRAFT", "PLANNED", "ASSIGNED"}, plan : 0..MaxHeads])
    /\ approvals \in Seq([goal : DOMAIN goals, status : {"pending", "approved", "rejected"}])
    /\ workflow \in [pc : {"open", "analyze", "wait", "done"} \cup DOMAIN Following,
                     known : 0..MaxHeads, id : Nat, attempt : Nat]
    /\ signals \subseteq (DOMAIN proposals) \X {"confirmed", "cancelled"}
    /\ thread \in [Thread -> ThreadState]
    /\ granted \subseteq Nat /\ built \in 0..MaxHeads
    /\ {raced, cut, shrunk} \subseteq BOOLEAN
    /\ acts \in 0..MaxActs /\ upsets \in 0..MaxUpsets

\* Plans are applied by the workflow, by the confirm route and by the hook, at
\* once, again after a crash, and over whoever is there: the team never has
\* more members than one of the numbers the Founder agreed to (applyPlan).
HiresAreGranted ==
    \E n \in granted : Cardinality(Member \cap Staff) <= n

\* A project executes only if somebody was hired for its team, and its GOAL
\* has been assigned unless a server died or another continuation ran while it was created
\* (continueProjectPlanning, whichever of its callers came through).
ExecutingIsReady ==
    project = "executing" =>
        /\ \E a \in Team : Hired(a)
        /\ cut \/ raced \/ \E i \in DOMAIN goals : goals[i].status = "ASSIGNED"

\* Only continuations that overlap file two GOALs or leave two hires to decide
\* on; one after the other, also after a crash, finds what is there.
AskedOnceUnlessRaced ==
    raced \/ /\ Len(goals) <= 1
             /\ Cardinality({i \in DOMAIN approvals : approvals[i].status = "pending"}) <= 1

\* The plan the Founder confirmed is the last word: once the workflow has built
\* it and nobody left, a continuation that starts while the plan stands misses
\* nobody, and the workflow's own asks for a hire only when the Founder agreed to
\* more, or to nothing, after it (confirmedStaffingBaseline).
ConfirmedPlanIsEnough ==
    built > 0 /\ ~ shrunk =>
        /\ LET p == proposals[workflow.id]
           IN  p.status \in {"confirmed", "applied"} /\ p.heads \in 1..built
               => Required <= Cardinality(Team \cap Active)
        /\ thread[Call].pc \in {"ask", "note", "file", "await"} => thread[Call].heads > built

\* The project leaves "planning", without a model and with a server that dies
\* as well, unless the Founder took the draft in hand before there was a plan.
PlanningMovesOn ==
    <>(project # "planning" \/ \E i \in DOMAIN proposals : proposals[i].human)
================================================================================

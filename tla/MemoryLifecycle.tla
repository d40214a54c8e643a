---------------------------- MODULE MemoryLifecycle ----------------------------
(***************************************************************************)
(* What the company remembers: the consolidation workflow of               *)
(* workers/agent-worker/src/workflows/memory, one execution for each       *)
(* window of events, with its activities and the services of               *)
(* packages/db/src/memory.ts and memory-promotion.ts, and what the Founder *)
(* and the approvers do to memories meanwhile.                             *)
(*                                                                         *)
(* A step of a workflow is one activity, which Temporal makes again until  *)
(* it is answered; the evaluation of promotions is taken apart further,    *)
(* at its queries.  There is one agent, one project and the company to     *)
(* remember for.  A window yields one candidate, or none that counts.  The *)
(* Founder's edits of rules and of words are left out, and so are the      *)
(* statements among the evidence, whose weight is below what promotion     *)
(* counts; events stand for reviews, artifacts and metrics as well.        *)
(***************************************************************************)
EXTENDS Integers, Sequences, FiniteSets, FiniteSetsExt

CONSTANTS
    Window,        \* the trigger occurrences, one workflow id each
    Event,         \* what evidence refers to
    None,          \* SQL's NULL
    TaskOf,        \* [Event -> its task or None]
    ProjectOf,     \* [Event -> its project, its task's if need be, or None]
    Text,          \* what there is to remember: two of them contradict
    Type,          \* memories.type
    Yields,        \* [Window -> the candidates it may yield]: a bound
    ConfidenceCap, \* of what contradicts a memory, in percent (60)
    Rules,         \* the promotion rules that are enabled
    SourceLimit,   \* memories a rule looks at (200)
    MaxMemories,   \* bound on rows
    MaxMishaps     \* bound on lost answers, failed runs, late deliveries and
                   \* what the Founder does to memories

VARIABLES
    mem,        \* memories, in the order of their insertion
    disputed,   \* memory_relations of kind contradicts
    proposals,  \* memory_promotions
    run,        \* the workflow of each window
    mishaps,
    unread      \* history: memories due when a full list last left them out

memoryVars == <<mem, disputed, proposals, run, mishaps, unread>>

\* What a window teaches, and the evidence it cites that could be resolved and counts.
Candidate == [scope: {"agent", "project"}, text: Text, type: Type, confidence: Nat,
              status: {"active", "candidate"}, cites: SUBSET Event]

\* A rule of the policies table: from which scope to which, of what type (None for
\* any), and how much it asks for (0 for what it does not ask).
Rule == [from: {"agent", "project"}, to: {"project", "company"}, type: Type \cup {None},
         confidence: Nat, evidence: Nat, tasks: Nat, projects: Nat]

ASSUME MemoryAssumption ==
    /\ Yields \in [Window -> SUBSET Candidate]
    /\ Rules \subseteq Rule
    /\ IsFiniteSet(Event)
    /\ None \notin Candidate \cup Rule \cup Type
    /\ {ConfidenceCap, SourceLimit, MaxMemories, MaxMishaps} \subseteq Nat

MemoryStatus == {"candidate", "active", "superseded", "archived", "rejected"}
ProposalStatus == {"proposed", "approved", "rejected"}
Scope == {"agent", "project", "company"}

Memory == DOMAIN mem
Proposal == DOMAIN proposals

\* The steps of a run.  seen is what there was when it searched: history, to
\* tell a race from a mistake.
NoRun == [at |-> "none", found |-> None,
          online |-> TRUE, into |-> 0, against |-> {}, seen |-> 0,
          done |-> {}, rule |-> None, todo |-> {}, source |-> 0,
          failed |-> FALSE]
Busy(w) == run[w].at \notin {"none", "over"}
GoTo(w, step) == run' = [run EXCEPT ![w].at = step]

Mishap == mishaps < MaxMishaps /\ mishaps' = mishaps + 1

-----------------------------------------------------------------------------
(* The trigger                                                             *)

\* Starting a run that is open is swallowed.
Start(w) ==
    /\ run[w].at = "none"
    /\ GoTo(w, "extract")
    /\ UNCHANGED <<mem, disputed, proposals, mishaps, unread>>

\* A delivery after the run has closed starts it again: the id is free.
StartAgain(w) ==
    /\ run[w].at = "over"
    /\ Mishap
    /\ run' = [run EXCEPT ![w] = [NoRun EXCEPT !.at = "extract", !.failed = run[w].failed]]
    /\ UNCHANGED <<mem, disputed, proposals, unread>>

-----------------------------------------------------------------------------
(* The pipeline                                                            *)

\* Nothing found, nothing important, nobody to anchor it to or no reference
\* that resolves: the run reports and is over.
Discard(w) ==
    /\ run[w].at = "extract"
    /\ GoTo(w, "over")
    /\ UNCHANGED <<mem, disputed, proposals, mishaps, unread>>

\* The candidate and its scope, never the company's; its importance decides
\* whether it is active at once or stays a candidate.
Extract(w) ==
    /\ run[w].at = "extract"
    /\ \E c \in Yields[w] :
           run' = [run EXCEPT ![w].at = "search", ![w].found = c]
    /\ UNCHANGED <<mem, disputed, proposals, mishaps, unread>>

\* Mutant: without an embedding nothing is compared, as it once was.
VisibleOnline(w, online) ==
    {i \in Memory : /\ mem[i].scope = run[w].found.scope
                    /\ online /\ mem[i].embedded /\ mem[i].status \in {"active", "candidate"}}

\* With an embedding similarTopK looks at what has one too; without,
\* findExactActive looks at titles of what is active.
Visible(w, online) ==
    {i \in Memory :
        /\ mem[i].scope = run[w].found.scope
        /\ IF online
           THEN mem[i].embedded /\ mem[i].status \in {"active", "candidate"}
           ELSE mem[i].status = "active"}

\* A duplicate is merged into; what is close and different contradicts, and
\* only an embedding shows it.
Search(w) ==
    /\ run[w].at = "search"
    /\ \E online \in BOOLEAN :
         LET twins == {i \in Visible(w, online) : mem[i].text = run[w].found.text}
         IN \E into \in IF twins = {} THEN {0} ELSE twins :
              run' = [run EXCEPT ![w].at = "save", ![w].online = online,
                                 ![w].into = into, ![w].seen = Len(mem),
                                 ![w].against = IF online /\ into = 0
                                                THEN Visible(w, TRUE) ELSE {}]
    /\ UNCHANGED <<mem, disputed, proposals, mishaps, unread>>

\* persistCandidate.  What contradicts is no surer than the cap.
Confidence(w) ==
    IF run[w].against = {} THEN run[w].found.confidence
                           ELSE Min({run[w].found.confidence, ConfidenceCap})

Persist(w) ==
    /\ run[w].into = 0
    /\ Len(mem) < MaxMemories
    /\ LET c == run[w].found
       IN  mem' = Append(mem, [scope |-> c.scope, text |-> c.text, type |-> c.type,
                               confidence |-> Confidence(w), status |-> c.status,
                               embedded |-> run[w].online, evidence |-> c.cites,
                               from |-> 0, seen |-> run[w].seen])
    /\ disputed' = disputed \cup {<<Len(mem) + 1, i>> : i \in run[w].against}

\* mergeIntoExisting: whatever the memory has become since the search, and
\* only the evidence it does not have.  Its confidence stays what it was.
Merge(w) ==
    /\ run[w].into # 0
    /\ mem' = [mem EXCEPT ![run[w].into].evidence = @ \cup run[w].found.cites]
    /\ UNCHANGED disputed

\* Mutant: only what was inserted is worth an evaluation.
AfterInsertOnly(w) == IF run[w].into = 0 THEN "evaluate" ELSE "over"

\* Promotions are evaluated after every window, whatever it saved.
AfterSave(w) == "evaluate"

Save(w) ==
    /\ run[w].at = "save"
    /\ Persist(w) \/ Merge(w)
    /\ run' = [run EXCEPT ![w] = [NoRun EXCEPT !.at = AfterSave(w), !.failed = run[w].failed]]
    /\ UNCHANGED <<proposals, mishaps, unread>>

\* It is committed and the worker dies before it says so: the activity is made
\* again.
LoseAnswer(w) ==
    /\ run[w].at = "save"
    /\ Mishap
    /\ Persist(w) \/ Merge(w)
    /\ UNCHANGED <<proposals, run, unread>>

\* The last attempt of an activity fails, and with it the run.
FailRun(w) ==
    /\ Busy(w)
    /\ Mishap
    /\ run' = [run EXCEPT ![w] = [NoRun EXCEPT !.at = "over", !.failed = TRUE]]
    /\ UNCHANGED <<mem, disputed, proposals, unread>>

-----------------------------------------------------------------------------
(* evaluateCompany: one rule after the other                               *)

Standing == {p \in Proposal : proposals[p].status \in {"proposed", "approved"}}
HasProposal(i, target) ==
    \E p \in Standing : proposals[p].source = i /\ proposals[p].rule.to = target

\* evidenceStats: the tasks and projects they lead to.
TasksOf(i) == {TaskOf[e] : e \in mem[i].evidence} \ {None}
ProjectsOf(i) == {ProjectOf[e] : e \in mem[i].evidence} \ {None}

\* Mutant: rows are counted, and not where they come from.
EnoughRows(i, rule) == Cardinality(mem[i].evidence) >= rule.evidence

EnoughEvidence(i, rule) ==
    /\ Cardinality(mem[i].evidence) >= rule.evidence
    /\ Cardinality(TasksOf(i)) >= rule.tasks
    /\ Cardinality(ProjectsOf(i)) >= rule.projects

\* A copy for the project needs one to belong to.
Anchored(i, rule) == rule.to = "project" => ProjectsOf(i) # {}

\* The query of a rule.
Eligible(i, rule) ==
    /\ mem[i].status = "active" /\ mem[i].scope = rule.from
    /\ mem[i].confidence >= rule.confidence
    /\ rule.type \in {None, mem[i].type}

\* What a rule asks to propose.
Due(i, rule) == Eligible(i, rule) /\ EnoughEvidence(i, rule) /\ Anchored(i, rule)

\* The loops go on: with nothing left of its list a rule is done.
GoOn(r) == IF r.todo = {} /\ r.source = 0
           THEN [r EXCEPT !.at = "evaluate", !.done = @ \cup {r.rule}, !.rule = None]
           ELSE r

\* The rules come in any order, and each list is read once: some of those there
\* are when the limit leaves others out, with a standing proposal or without.
ReadSources(w) ==
    /\ run[w].at = "evaluate"
    /\ \E rule \in Rules \ run[w].done :
         LET eligible == {i \in Memory : Eligible(i, rule)}
         IN  \E todo \in SUBSET eligible :
               /\ Cardinality(todo) = Min({SourceLimit, Cardinality(eligible)})
               /\ run' = [run EXCEPT ![w] = GoOn([@ EXCEPT !.at = "weigh", !.rule = rule,
                                                           !.todo = todo])]
               /\ unread' = (unread \ todo) \cup {i \in eligible \ todo : Due(i, rule)}
    /\ UNCHANGED <<mem, disputed, proposals, mishaps>>

\* The next of the list: a standing proposal, too little evidence or no project to
\* belong to passes it over.
Weigh(w) ==
    /\ run[w].at = "weigh" /\ run[w].source = 0
    /\ \E i \in run[w].todo :
         LET rule == run[w].rule
             source == IF /\ ~ HasProposal(i, rule.to)
                          /\ EnoughEvidence(i, rule) /\ Anchored(i, rule)
                       THEN i ELSE 0
         IN  run' = [run EXCEPT ![w] = GoOn([@ EXCEPT !.todo = run[w].todo \ {i},
                                                      !.source = source])]
    /\ UNCHANGED <<mem, disputed, proposals, mishaps, unread>>

\* The copy, a candidate, and its proposal: the copy's evidence starts anew.
Propose(w) ==
    /\ run[w].source # 0
    /\ Len(mem) < MaxMemories
    /\ LET i == run[w].source
           rule == run[w].rule
       IN  /\ mem' = Append(mem, [mem[i] EXCEPT !.scope = rule.to, !.status = "candidate",
                                                !.evidence = {}, !.from = i])
           /\ proposals' = Append(proposals, [source |-> i, rule |-> rule,
                                              copy |-> Len(mem) + 1, status |-> "proposed"])
    /\ run' = [run EXCEPT ![w] = GoOn([@ EXCEPT !.source = 0])]
    /\ UNCHANGED <<disputed, mishaps, unread>>

EndEvaluation(w) ==
    /\ run[w].at = "evaluate" /\ run[w].done = Rules
    /\ run' = [run EXCEPT ![w].at = "over", ![w].done = {}]
    /\ UNCHANGED <<mem, disputed, proposals, mishaps, unread>>

\* An attempt is lost on its way, and the next one evaluates from the start.
EvaluateAgain(w) ==
    /\ run[w].at = "weigh" \/ (run[w].at = "evaluate" /\ run[w].done # {})
    /\ Mishap
    /\ run' = [run EXCEPT ![w] = [NoRun EXCEPT !.at = "evaluate", !.failed = run[w].failed]]
    /\ UNCHANGED <<mem, disputed, proposals, unread>>

-----------------------------------------------------------------------------
(* The Founder and the approvers                                           *)

\* founderUpdate with archive, of a memory in any status.
Archive(i) ==
    /\ Mishap
    /\ mem' = [mem EXCEPT ![i].status = "archived"]
    /\ UNCHANGED <<disputed, proposals, run, unread>>

\* decide: once; the copy follows the verdict whatever it has become.
Decide(p, verdict) ==
    /\ proposals[p].status = "proposed"
    /\ proposals' = [proposals EXCEPT ![p].status = verdict]
    /\ mem' = [mem EXCEPT ![proposals[p].copy].status =
                  IF verdict = "approved" THEN "active" ELSE "rejected"]
    /\ UNCHANGED <<disputed, run, mishaps, unread>>

\* resolveContradiction, which asks nothing of the two it finds: the other side
\* of the winner is superseded.
Resolve(pair, loser) ==
    /\ Mishap
    /\ mem' = [mem EXCEPT ![loser].status = "superseded"]
    /\ UNCHANGED <<disputed, proposals, run, unread>>

-----------------------------------------------------------------------------
MemoryInit ==
    /\ mem = <<>> /\ disputed = {} /\ proposals = <<>>
    /\ run = [w \in Window |-> NoRun]
    /\ mishaps = 0 /\ unread = {}

Step(w) ==
    \/ Discard(w) \/ Extract(w) \/ Search(w) \/ Save(w)
    \/ ReadSources(w) \/ Weigh(w) \/ Propose(w) \/ EndEvaluation(w)

MemoryNext ==
    \/ \E w \in Window :
        \/ Start(w) \/ StartAgain(w) \/ Step(w)
        \/ LoseAnswer(w) \/ FailRun(w) \/ EvaluateAgain(w)
    \/ \E i \in Memory : Archive(i)
    \/ \E p \in Proposal, verdict \in {"approved", "rejected"} : Decide(p, verdict)
    \/ \E pair \in disputed : \E loser \in {pair[1], pair[2]} : Resolve(pair, loser)

\* Temporal goes on with an open run; nobody has to start one, or to decide.
MemoryFairness == \A w \in Window : WF_memoryVars(Step(w))

MemorySpec == MemoryInit /\ [][MemoryNext]_memoryVars /\ MemoryFairness

-----------------------------------------------------------------------------
(* Properties                                                              *)

Steps == {"none", "extract", "search", "save", "evaluate", "weigh", "over"}

MemoryRow == [scope : Scope, text : Text, type : Type, confidence : Nat,
              status : MemoryStatus, embedded : BOOLEAN, evidence : SUBSET Event,
              from : Nat, seen : Nat]
ProposalRow == [source : Memory, rule : Rules, copy : Memory, status : ProposalStatus]
RunState == [at : Steps, found : Candidate \cup {None},
             online : BOOLEAN, into : {0} \cup Memory, against : SUBSET Memory,
             seen : 0..Len(mem), done : SUBSET Rules, rule : Rules \cup {None},
             todo : SUBSET Memory, source : {0} \cup Memory,
             failed : BOOLEAN]

MemoryTypeOK ==
    /\ mem \in Seq(MemoryRow)
    /\ \A i \in Memory :
        /\ mem[i].from < i /\ mem[i].seen < i
        /\ mem[i].from = 0 => mem[i].scope # "company"
    /\ proposals \in Seq(ProposalRow)
    /\ disputed \subseteq Memory \X Memory
    /\ run \in [Window -> RunState]
    /\ mishaps \in 0..MaxMishaps /\ unread \subseteq Memory

\* A run stacks no second active memory of a text on one that its search could
\* have found: duplicates come of races, of activities made twice, and of a
\* search by embedding past what was kept without one.
NoDuplicateOfWhatWasKnown ==
    \A i, j \in Memory :
        /\ i < j
        /\ mem[i].from = 0 /\ mem[j].from = 0
        /\ mem[i].scope = mem[j].scope /\ mem[i].text = mem[j].text
        /\ mem[i].status = "active" /\ mem[j].status = "active"
        => i > mem[j].seen \/ (mem[j].embedded /\ ~ mem[i].embedded)

\* A single failure never becomes policy: whatever is proposed for a wider
\* scope was met in as many tasks and as many projects as the rule asks for,
\* however often a window is consolidated and its evidence merged.
PolicyRestsOnSeveralIncidents ==
    \A p \in Proposal :
        LET rule == proposals[p].rule
            source == proposals[p].source
        IN  /\ Cardinality(TasksOf(source)) >= rule.tasks
            /\ Cardinality(ProjectsOf(source)) >= rule.projects

\* What may come of a memory that is due.
Asked(i) == IF i \in Memory THEN \E rule \in Rules : Due(i, rule) ELSE FALSE
Attended(i) ==
    \/ \E p \in Proposal : proposals[p].source = i
    \/ i \in unread
    \/ \E w \in Window : run[w].failed
    \/ IF i \in Memory THEN mem[i].status # "active" ELSE FALSE
    \/ Len(mem) = MaxMemories

\* An active memory that a rule asks to propose is proposed, whichever run
\* brought the last of its evidence and however two of them overlap, unless a run
\* fails before it has evaluated, for no nightly evaluation comes after it, or the
\* rule's list was full without it.  The last row has no room for a copy.
EvidenceIsWeighed == \A i \in 1..(MaxMemories - 1) : Asked(i) ~> Attended(i)
================================================================================

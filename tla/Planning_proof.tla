----------------------------- MODULE Planning_proof -----------------------------
(***************************************************************************)
(* The lines of reporting stay a forest, whatever is hired, moved and      *)
(* ended; a project that is planned hires what was granted, asks once and  *)
(* executes when it is ready; and the plan the workflow has built leaves   *)
(* nobody to ask for: for every organisation, plan and number of requests  *)
(* at once.                                                                *)
(***************************************************************************)
EXTENDS Planning, FiniteSetTheorems, SequenceTheorems, WellFoundedInduction, TLAPS

-----------------------------------------------------------------------------
(* Lines of reporting as a set of edges.                                   *)

Closed(lines, a, S) == \A e \in lines : e[1] = a \/ e[1] \in S => e[2] \in S
Acyclic(lines) == \A a \in Agent : ~ Reaches(lines, a, a)
OneManager(lines) == \A d, e \in lines : d[1] = e[1] => d = e

\* What Report adds to the lines.
LEMMA NewLine ==
    ASSUME NEW as, NEW m, NEW e \in {<<a, m>> : a \in as}
    PROVE  e[1] \in as /\ e[2] = m /\ e = <<e[1], m>>
  <1>1. PICK a \in as : e = <<a, m>>
    OBVIOUS
  <1> QED
    BY <1>1

\* The managers above an agent are closed under having a manager.
LEMMA ChainIsClosed ==
    ASSUME NEW lines \in SUBSET (Agent \X Agent), NEW m
    PROVE  Closed(lines, m, {b \in Agent : Reaches(lines, m, b)})
  <1> DEFINE B == {b \in Agent : Reaches(lines, m, b)}
  <1> SUFFICES ASSUME NEW e \in lines, e[1] = m \/ e[1] \in B
               PROVE  e[2] \in B
    BY DEF Closed
  <1>1. e[2] \in Agent
    OBVIOUS
  <1>2. ASSUME NEW S \in SUBSET Agent,
               \A f \in lines : f[1] = m \/ f[1] \in S => f[2] \in S
        PROVE  e[2] \in S
    BY <1>2 DEF Reaches
  <1> QED
    BY <1>1, <1>2 DEF Reaches

\* Lines from several agents to one manager close no cycle when none of them
\* is the manager or above him: the chain of managers above him stays as it
\* was, and whoever is not in it only gains that chain.
LEMMA NewLinesCloseNoCycle ==
    ASSUME NEW lines \in SUBSET (Agent \X Agent), NEW as \in SUBSET Agent,
           NEW m \in Agent, Acyclic(lines),
           \A a \in as : a # m /\ ~ Reaches(lines, m, a)
    PROVE  Acyclic(lines \cup {<<a, m>> : a \in as})
  <1> DEFINE more == lines \cup {<<a, m>> : a \in as}
             B == {b \in Agent : Reaches(lines, m, b)}
             R == {m} \cup B
  <1> SUFFICES ASSUME NEW t \in Agent
               PROVE  ~ Reaches(more, t, t)
    BY DEF Acyclic
  <1>1. Closed(lines, m, B)
    BY ChainIsClosed
  <1>2. as \cap R = {}
    OBVIOUS
  <1>3. PICK T \in SUBSET Agent : Closed(lines, t, T) /\ t \notin T
    BY DEF Acyclic, Reaches, Closed
  <1>4. \A e \in more \ lines : e[1] \in as /\ e[2] = m
    BY NewLine
  <1>5. \A e \in more : e[1] \in R => e \in lines /\ e[2] \in B
    BY <1>1, <1>2, <1>4 DEF Closed
  <1>6. CASE t \in R
    <2>1. Closed(more, t, T \cap R)
      BY <1>3, <1>5, <1>6 DEF Closed
    <2> QED
      BY <1>3, <2>1 DEF Reaches, Closed
  <1>7. CASE t \notin R
    <2>1. Closed(more, t, T \cup R)
      <3> SUFFICES ASSUME NEW e \in more, e[1] = t \/ e[1] \in T \cup R
                   PROVE  e[2] \in T \cup R
        BY DEF Closed
      <3>1. CASE e \in lines
        BY <1>3, <1>5, <3>1 DEF Closed
      <3>2. CASE e \notin lines
        BY <1>4, <3>2
      <3> QED
        BY <3>1, <3>2
    <2>2. t \notin T \cup R
      BY <1>3, <1>7
    <2>3. T \cup R \in SUBSET Agent
      OBVIOUS
    <2> QED
      BY <2>1, <2>2, <2>3 DEF Reaches, Closed
  <1> QED
    BY <1>6, <1>7

\* Fewer lines make no new way up.
LEMMA FewerLinesReachLess ==
    ASSUME NEW lines, NEW fewer \in SUBSET lines, Acyclic(lines)
    PROVE  Acyclic(fewer)
  BY DEF Acyclic, Reaches

-----------------------------------------------------------------------------
(* The two ways in which a transaction leaves the lines.                   *)

Forest(lines) == OneManager(lines) /\ Acyclic(lines)

LEMMA ForestIsForest == LinesFormAForest <=> Forest(reportsTo)
  BY DEF LinesFormAForest, Forest, OneManager, Acyclic

LEMMA KeepLeavesAForest ==
    ASSUME Forest(reportsTo), NEW lines \in SUBSET reportsTo, NEW inverse,
           Keep(lines, inverse)
    PROVE  Forest(reportsTo')
  <1>1. reportsTo' = lines
    BY DEF Keep
  <1>2. Acyclic(lines)
    BY FewerLinesReachLess DEF Forest
  <1> QED
    BY <1>1, <1>2 DEF Forest, OneManager

LEMMA ReportLeavesAForest ==
    ASSUME reportsTo \subseteq Agent \X Agent, Forest(reportsTo),
           NEW lines \in SUBSET reportsTo, NEW inverse,
           NEW as \in SUBSET Agent, NEW m \in Agent,
           Report(as, m, lines, inverse)
    PROVE  Forest(reportsTo')
  <1>1. reportsTo' = lines \cup {<<a, m>> : a \in as}
    BY DEF Report
  <1>2. \A a \in as : /\ a # m /\ ~ Reaches(lines, m, a)
                      /\ \A e \in lines : e[1] # a
    BY DEF Report, MayReport
  <1>3. lines \in SUBSET (Agent \X Agent) /\ Acyclic(lines)
    BY FewerLinesReachLess DEF Forest
  <1>4. Acyclic(lines \cup {<<a, m>> : a \in as})
    BY <1>2, <1>3, NewLinesCloseNoCycle
  <1>5. OneManager(lines \cup {<<a, m>> : a \in as})
    <2>1. \A e \in {<<a, m>> : a \in as} : e[1] \in as /\ e = <<e[1], m>>
      BY NewLine
    <2> QED
      BY <1>2, <2>1 DEF Forest, OneManager
  <1> QED
    BY <1>1, <1>4, <1>5 DEF Forest
-----------------------------------------------------------------------------
(* The invariant.                                                          *)

OrgInv == OrgTypeOK /\ Forest(reportsTo)

LEMMA OrgStarts == OrgInit => OrgInv
  BY DEF OrgInit, OrgInv, OrgTypeOK, Employment, Forest, OneManager, Acyclic, Reaches

\* Every transaction is one of the two ways for the lines, or leaves them.
LEMMA NextPreservesForest ==
    ASSUME OrgInv, [OrgNext]_org
    PROVE  Forest(reportsTo')
  <1> USE DEF OrgInv, OrgTypeOK
  <1>1. CASE UNCHANGED reportsTo
    BY <1>1
  <1>2. ASSUME NEW lines \in SUBSET reportsTo, NEW inverse, Keep(lines, inverse)
        PROVE  Forest(reportsTo')
    BY <1>2, KeepLeavesAForest
  <1>3. ASSUME NEW as \in SUBSET Agent, NEW m \in Agent,
               NEW lines \in SUBSET reportsTo, NEW inverse, Report(as, m, lines, inverse)
        PROVE  Forest(reportsTo')
    BY <1>3, ReportLeavesAForest
  <1>4. CASE EndEdge
    BY <1>2, <1>4 DEF EndEdge
  <1>5. ASSUME NEW a \in Agent, Activate(a) \/ Pause(a)
        PROVE  Forest(reportsTo')
    BY <1>1, <1>5 DEF Activate, Pause
  <1>6. ASSUME NEW a \in Agent, Offboard(a)
        PROVE  Forest(reportsTo')
    <2> DEFINE lines == {e \in reportsTo : a \notin {e[1], e[2]}}
               inverse == {e \in manages : a \notin {e[1], e[2]}}
               reports == {r \in Agent : <<r, a>> \in reportsTo}
    <2>1. \/ Keep(lines, inverse)
          \/ \E m \in Agent : Report(reports, m, lines, inverse)
      BY <1>6 DEF Offboard
    <2>2. lines \in SUBSET reportsTo /\ reports \in SUBSET Agent
      OBVIOUS
    <2> HIDE DEF lines, inverse, reports
    <2> QED
      BY <1>2, <1>3, <2>1, <2>2
  <1>7. ASSUME NEW a \in Agent, NEW m \in Agent \cup {NoAgent}, ChangeManager(a, m)
        PROVE  Forest(reportsTo')
    <2> DEFINE lines == {e \in reportsTo : e[1] # a}
               inverse == {e \in manages : e[2] # a}
    <2>1. \/ Keep(lines, inverse)
          \/ m \in Agent /\ Report({a}, m, lines, inverse)
      BY <1>7 DEF ChangeManager, Staff
    <2>2. lines \in SUBSET reportsTo /\ {a} \in SUBSET Agent
      OBVIOUS
    <2> HIDE DEF lines, inverse
    <2> QED
      BY <1>2, <1>3, <2>1, <2>2
  <1>8. ASSUME NEW a \in Agent, NEW m \in Agent \cup {NoAgent}, NEW activate \in BOOLEAN,
               Hire(a, m, activate)
        PROVE  Forest(reportsTo')
    <2>1. \/ Keep(reportsTo, manages)
          \/ m \in Agent /\ Report({a}, m, reportsTo, manages)
      BY <1>8 DEF Hire
    <2> QED
      BY <1>2, <1>3, <2>1
  <1>9. ASSUME NEW a \in Agent, NEW m \in Agent, CreateEdge(a, m)
        PROVE  Forest(reportsTo')
    BY <1>3, <1>9 DEF CreateEdge
  <1>10. ASSUME NEW a \in Agent, NEW m \in Agent, CreateManages(a, m)
         PROVE  Forest(reportsTo')
    BY <1>1, <1>10 DEF CreateManages
  <1> QED
    BY <1>1, <1>4, <1>5, <1>6, <1>7, <1>8, <1>9, <1>10 DEF OrgNext, org

LEMMA KeepIsTyped ==
    ASSUME OrgTypeOK, NEW lines \in SUBSET reportsTo, NEW inverse \in SUBSET manages,
           Keep(lines, inverse)
    PROVE  /\ reportsTo' \subseteq Agent \X Agent /\ manages' \subseteq Agent \X Agent
           /\ everReported' \subseteq Agent
  BY DEF Keep, OrgTypeOK

LEMMA ReportIsTyped ==
    ASSUME OrgTypeOK, NEW lines \in SUBSET reportsTo, NEW inverse \in SUBSET manages,
           NEW as \in SUBSET Agent, NEW m \in Agent, Report(as, m, lines, inverse)
    PROVE  /\ reportsTo' \subseteq Agent \X Agent /\ manages' \subseteq Agent \X Agent
           /\ everReported' \subseteq Agent
  <1>1. ASSUME NEW e \in {<<a, m>> : a \in as}
        PROVE  e \in Agent \X Agent
    <2>1. PICK a \in as : e = <<a, m>>
      OBVIOUS
    <2> QED
      BY <2>1
  <1>2. ASSUME NEW e \in {<<m, a>> : a \in as}
        PROVE  e \in Agent \X Agent
    <2>1. PICK a \in as : e = <<m, a>>
      OBVIOUS
    <2> QED
      BY <2>1
  <1> QED
    BY <1>1, <1>2 DEF Report, OrgTypeOK

LEMMA NextPreservesType ==
    ASSUME OrgTypeOK, [OrgNext]_org
    PROVE  OrgTypeOK'
  <1> USE DEF OrgTypeOK
  <1> DEFINE Edges(lines, inverse, as) ==
          \/ Keep(lines, inverse)
          \/ \E m \in Agent : Report(as, m, lines, inverse)
  <1>1. ASSUME NEW lines \in SUBSET reportsTo, NEW inverse \in SUBSET manages,
               NEW as \in SUBSET Agent, Edges(lines, inverse, as)
        PROVE  /\ reportsTo' \subseteq Agent \X Agent /\ manages' \subseteq Agent \X Agent
               /\ everReported' \subseteq Agent
    BY <1>1, KeepIsTyped, ReportIsTyped
  <1> HIDE DEF Edges
  <1>2. CASE EndEdge
    BY <1>2 DEF EndEdge, Keep
  <1>3. ASSUME NEW a \in Agent, Activate(a) \/ Pause(a)
        PROVE  OrgTypeOK'
    BY <1>3 DEF Activate, Pause, Employment
  <1>4. ASSUME NEW a \in Agent, Offboard(a)
        PROVE  OrgTypeOK'
    <2> DEFINE lines == {e \in reportsTo : a \notin {e[1], e[2]}}
               inverse == {e \in manages : a \notin {e[1], e[2]}}
               reports == {r \in Agent : <<r, a>> \in reportsTo}
    <2>1. Edges(lines, inverse, reports)
      BY <1>4 DEF Offboard, Edges
    <2>2. /\ lines \in SUBSET reportsTo /\ inverse \in SUBSET manages
          /\ reports \in SUBSET Agent
      OBVIOUS
    <2>3. employment' \in [Agent -> Employment]
      BY <1>4 DEF Offboard, Employment
    <2> HIDE DEF lines, inverse, reports
    <2> QED
      BY <1>1, <2>1, <2>2, <2>3
  <1>5. ASSUME NEW a \in Agent, NEW m \in Agent \cup {NoAgent}, ChangeManager(a, m)
        PROVE  OrgTypeOK'
    <2> DEFINE lines == {e \in reportsTo : e[1] # a}
               inverse == {e \in manages : e[2] # a}
    <2>1. Edges(lines, inverse, {a})
      BY <1>5 DEF ChangeManager, Staff, Edges
    <2>2. lines \in SUBSET reportsTo /\ inverse \in SUBSET manages
      OBVIOUS
    <2>3. employment' \in [Agent -> Employment]
      BY <1>5 DEF ChangeManager
    <2> HIDE DEF lines, inverse
    <2> QED
      BY <1>1, <2>1, <2>2, <2>3
  <1>6. ASSUME NEW a \in Agent, NEW m \in Agent \cup {NoAgent}, NEW activate \in BOOLEAN,
               Hire(a, m, activate)
        PROVE  OrgTypeOK'
    <2>1. Edges(reportsTo, manages, {a})
      BY <1>6 DEF Hire, Edges
    <2>2. employment' \in [Agent -> Employment]
      BY <1>6 DEF Hire, Employment
    <2> QED
      BY <1>1, <2>1, <2>2
  <1>7. ASSUME NEW a \in Agent, NEW m \in Agent, CreateEdge(a, m)
        PROVE  OrgTypeOK'
    <2>1. Edges(reportsTo, manages, {a})
      BY <1>7 DEF CreateEdge, Edges
    <2>2. employment' \in [Agent -> Employment]
      BY <1>7 DEF CreateEdge
    <2> QED
      BY <1>1, <2>1, <2>2
  <1>8. ASSUME NEW a \in Agent, NEW m \in Agent, CreateManages(m, a)
        PROVE  OrgTypeOK'
    BY <1>8 DEF CreateManages
  <1>9. CASE UNCHANGED org
    BY <1>9 DEF org
  <1> QED
    BY <1>2, <1>3, <1>4, <1>5, <1>6, <1>7, <1>8, <1>9 DEF OrgNext

\* A step of the organisation keeps the invariant, whoever takes it: Planning
\* takes the same steps.
LEMMA OrgKeeps == OrgInv /\ [OrgNext]_org => OrgInv'
  BY NextPreservesForest, NextPreservesType DEF OrgInv

THEOREM OrgHolds == OrgSpec => []OrgInv
  BY OrgStarts, OrgKeeps, PTL DEF OrgSpec

\* In every organisation that hires, moves, ends and offboards in any order,
\* nobody has two managers and nobody is above himself.
THEOREM OrgIsAForest == OrgSpec => []LinesFormAForest
  <1>1. OrgInv => LinesFormAForest
    BY ForestIsForest DEF OrgInv
  <1> QED
    BY <1>1, OrgHolds, PTL


-----------------------------------------------------------------------------
(* The inductive invariant                                                 *)

\* What the workflow is in while its activity runs, and what it waits for.
Flow ==
    /\ At(Call, "idle") \/ workflow.pc \in {"propose", "apply", "continue"}
    /\ workflow.pc \in {"wait", "apply"} => workflow.id \in DOMAIN proposals

\* Nobody drafts an empty plan but the workflow: the Founder's is marked as his.
Meant(i) == proposals[i].heads > 0 \/ proposals[i].human

\* What the Founder agreed to covers every plan that may still be built.
Plans ==
    /\ \A i \in DOMAIN proposals :
          proposals[i].status \in {"confirmed", "applied"} => proposals[i].heads \in granted /\ Meant(i)
    /\ \A i \in DOMAIN approvals : goals[approvals[i].goal].plan # 0

\* ... and the names of whoever was hired.
Names ==
    /\ \E n \in granted : \A a \in Member \cap Staff : NameOf[a] <= n
    /\ \A a, b \in Member \cap Staff : NameOf[a] = NameOf[b] => a = b

HasTeam == \E a \in Team : Hired(a)
IsAssigned == cut \/ raced \/ \E i \in DOMAIN goals : goals[i].status = "ASSIGNED"
Pending == {i \in DOMAIN approvals : approvals[i].status = "pending"}

\* What a request may count on where it stands.
Fits(t, r) ==
    /\ r.pc \in {"apply", "edit", "confirm", "signal", "cancel", "fill"} => r.id \in DOMAIN proposals
    /\ r.pc = "confirm" => Meant(r.id)
    /\ r.pc \in Proposing => t = Call /\ r.heads > 0
    /\ r.pc = "fill" =>
          /\ proposals[r.id].version >= r.version
          /\ proposals[r.id].version = r.version => ~ Meant(r.id)
    /\ r.pc \in Building =>
          /\ r.heads \in granted
          /\ t # Hook => r.id \in DOMAIN proposals /\ proposals[r.id].heads \in granted /\ Meant(r.id)
    /\ r.pc \in {"brief", "groom", "ask", "note", "file", "assign"} => r.id \in DOMAIN goals
    /\ r.pc = "brief" => t = Hook /\ goals[r.id].plan \in granted \ {0}
    /\ r.pc \in {"exec", "gap"} => r.heads > 0
    /\ r.pc \in {"route", "create", "groom"} /\ r.missing = 0 => HasTeam
    /\ r.pc \in {"assign", "start"} => HasTeam
    /\ r.pc \in {"ask", "note"} => r.missing > 0
    /\ r.pc = "file" => goals[r.id].plan # 0
    /\ r.pc = "start" => IsAssigned
    /\ ~ raced =>
          /\ r.pc = "create" => Len(goals) = 0
          /\ r.pc = "groom" => goals[r.id].status = "DRAFT"
          /\ r.pc \in {"note", "file"} => Pending = {}

Alone ==
    ~ raced => \A t, u \in Thread :
                  thread[t].pc \in Continuing /\ thread[u].pc \in Continuing => t = u

Goals ==
    /\ ~ raced => /\ Len(goals) <= 1
                  /\ \A i, j \in Pending : i = j
    /\ cut \/ raced \/ \A i \in DOMAIN goals : goals[i].status = "DRAFT" =>
                          \E t \in Thread : thread[t].pc = "groom" /\ thread[t].id = i
    /\ project = "executing" => HasTeam /\ IsAssigned

IInv ==
    /\ TypeOK /\ LinesFormAForest
    /\ Flow /\ Plans /\ Names /\ Alone /\ Goals
    /\ \A t \in Thread : Fits(t, thread[t])
-----------------------------------------------------------------------------
(* Finite sets and sequences                                               *)

\* Induction over the subsets of a finite set, by the smallest counterexample.
LEMMA SomeLeast ==
    ASSUME NEW S, IsFiniteSet(S), S # {}, NEW f \in [S -> Int]
    PROVE  \E a \in S : \A b \in S : f[a] <= f[b]
  <1> DEFINE Least(T) == \E a \in T : \A b \in T : f[a] <= f[b]
             Q == {T \in SUBSET S : T # {} /\ ~ Least(T)}
  <1>1. SUFFICES ASSUME Q # {}
                 PROVE  FALSE
    OBVIOUS
  <1>2. IsWellFoundedOn(StrictSubsetOrdering(S), FiniteSubsetsOf(S))
    BY FS_StrictSubsetOrderingWellFounded
  <1>3. Q \subseteq FiniteSubsetsOf(S)
    BY FS_Subset DEF FiniteSubsetsOf
  <1>4. PICK T \in Q : \A U \in Q : ~ (<<U, T>> \in StrictSubsetOrdering(S))
    <2> HIDE DEF Q
    <2>1. QED
      BY <1>1, <1>2, <1>3, WFMin
  <1>5. PICK x \in T : TRUE
    OBVIOUS
  <1>6. T \ {x} \notin Q
    BY <1>4, <1>5 DEF StrictSubsetOrdering
  <1>7. CASE T \ {x} = {}
    <2>1. T = {x}
      BY <1>5, <1>7
    <2>2. Least(T)
      BY <2>1
    <2>3. QED
      BY <1>4, <2>2
  <1>8. CASE T \ {x} # {}
    <2>1. PICK y \in T \ {x} : \A b \in T \ {x} : f[y] <= f[b]
      BY <1>4, <1>6, <1>8
    <2>2. x \in S /\ y \in S /\ T \subseteq S
      BY <1>4, <1>5, <2>1
    <2>3. f[x] \in Int /\ f[y] \in Int /\ \A b \in T : f[b] \in Int
      BY <2>2
    <2>4. CASE f[x] <= f[y]
      <3>1. \A b \in T : f[x] <= f[b]
        BY <2>1, <2>3, <2>4
      <3>2. QED
        BY <1>4, <1>5, <3>1
    <2>5. CASE f[y] <= f[x]
      <3>1. \A b \in T : f[y] <= f[b]
        BY <2>1, <2>3, <2>5
      <3>2. QED
        BY <1>4, <2>1, <3>1
    <2>6. QED
      BY <2>3, <2>4, <2>5
  <1>9. QED
    BY <1>7, <1>8

LEMMA MaxOfFinite ==
    ASSUME NEW S \in SUBSET Int, IsFiniteSet(S), S # {}
    PROVE  Max(S) \in S /\ \A x \in S : x <= Max(S)
  <1> DEFINE f == [x \in S |-> - x]
  <1>1. f \in [S -> Int]
    OBVIOUS
  <1>2. PICK a \in S : \A b \in S : f[a] <= f[b]
    BY <1>1, SomeLeast
  <1>3. \A b \in S : a >= b
    BY <1>2
  <1>4. QED
    BY <1>3 DEF Max

\* A row of a table changes.
LEMMA RowChanges ==
    ASSUME NEW S, NEW s \in Seq(S), NEW i \in DOMAIN s, NEW x \in S
    PROVE  LET n == [s EXCEPT ![i] = x]
           IN  /\ n \in Seq(S) /\ Len(n) = Len(s) /\ DOMAIN n = DOMAIN s
               /\ n[i] = x /\ \A j \in DOMAIN s \ {i} : n[j] = s[j]
  BY ExceptSeq

LEMMA RowIsAdded ==
    ASSUME NEW S, NEW s \in Seq(S), NEW x \in S
    PROVE  LET n == Append(s, x)
           IN  /\ n \in Seq(S) /\ Len(n) = Len(s) + 1
               /\ DOMAIN n = DOMAIN s \cup {Len(s) + 1} /\ Len(s) + 1 \notin DOMAIN s
               /\ n[Len(s) + 1] = x /\ \A j \in DOMAIN s : n[j] = s[j]
  BY AppendProperties


-----------------------------------------------------------------------------
(* What the steps have in common                                           *)

LEMMA Bounds ==
    /\ MaxHeads \in Nat \ {0} /\ Heads \cup Needs \subseteq 0..MaxHeads
    /\ IsFiniteSet(Agent) /\ IsFiniteSet(Team)
    /\ Call \in Thread /\ Hook \in Thread /\ Tab \subseteq Thread
  <1> DEFINE S == Heads \cup Needs
  <1>1. S \subseteq Nat /\ IsFiniteSet(S) /\ S # {0} /\ 0 \in S
    BY PlanningAssumption DEF PlanningAssumption
  <1>2. Max(S) \in S /\ \A x \in S : x <= Max(S)
    <2>1. S \in SUBSET Int /\ S # {}
      BY <1>1
    <2> HIDE DEF S
    <2>2. QED
      BY <1>1, <2>1, MaxOfFinite
  <1>3. MaxHeads = Max(S)
    BY DEF MaxHeads
  <1> HIDE DEF S
  <1>4. MaxHeads \in Nat /\ \A x \in S : x \in Nat /\ x <= MaxHeads
    BY <1>1, <1>2, <1>3
  <1>5. PICK y \in S : y # 0
    BY <1>1
  <1>6. MaxHeads # 0
    BY <1>4, <1>5
  <1>7. S \subseteq 0..MaxHeads
    BY <1>4
  <1>8. IsFiniteSet(Agent) /\ Team \subseteq Agent
    BY PlanningAssumption DEF PlanningAssumption
  <1>9. IsFiniteSet(Team)
    BY <1>8, FS_Subset
  <1>10. QED
    BY <1>4, <1>6, <1>7, <1>8, <1>9 DEF S, Thread

LEMMA ThreadTakes ==
    ASSUME TypeOK, NEW t \in Thread, NEW r \in ThreadState, thread' = [thread EXCEPT ![t] = r]
    PROVE  /\ thread' \in [Thread -> ThreadState] /\ thread'[t] = r
           /\ \A u \in Thread \ {t} : thread'[u] = thread[u]
  BY DEF TypeOK

ProposalState == [status : OpenStatuses \cup {"applied", "cancelled"}, heads : 0..MaxHeads,
                  human : BOOLEAN, version : Nat \ {0}]
GoalState == [status : {"DRAFT", "PLANNED", "ASSIGNED"}, plan : 0..MaxHeads]

\* The tables go on: nothing is lost of what a request counts on.
GoesOn(u) ==
    /\ granted \subseteq granted'
    /\ raced => raced'
    /\ HasTeam => HasTeam'
    /\ IsAssigned => IsAssigned'
    /\ DOMAIN proposals \subseteq DOMAIN proposals' /\ DOMAIN goals \subseteq DOMAIN goals'
    /\ \A i \in DOMAIN proposals : Meant(i) =>
          Meant(i)' /\ (proposals[i].heads \in granted => proposals'[i].heads \in granted')
    /\ u = Call => \A i \in DOMAIN proposals :
          /\ proposals'[i].version >= proposals[i].version
          /\ proposals'[i].version = proposals[i].version => (Meant(i)' => Meant(i))
    /\ \A i \in DOMAIN goals : goals[i].plan # 0 => goals'[i].plan = goals[i].plan

LEMMA FitsStays ==
    ASSUME TypeOK, TypeOK', NEW u \in Thread, NEW q \in ThreadState, Fits(u, q), thread'[u] = q,
           GoesOn(u),
           raced' \/ q.pc \notin Continuing \/ (goals' = goals /\ Pending' \subseteq Pending)
    PROVE  Fits(u, thread[u])'
  <1>1. \A i \in DOMAIN proposals : proposals[i].version \in Nat
    <2>1. proposals \in Seq(ProposalState)
      BY DEF TypeOK, ProposalState
    <2>2. \A i \in DOMAIN proposals : proposals[i] \in ProposalState
      BY <2>1
    <2>3. QED
      BY <2>2 DEF ProposalState
  <1>2. \A i \in DOMAIN proposals' : proposals'[i].version \in Nat
    <2>1. proposals' \in Seq(ProposalState)
      BY DEF TypeOK, ProposalState
    <2>2. \A i \in DOMAIN proposals' : proposals'[i] \in ProposalState
      BY <2>1
    <2>3. QED
      BY <2>2 DEF ProposalState
  <1>3. q.version \in Nat
    BY DEF ThreadState
  <1>4. Fits(u, q)'
    <2>1. /\ q.pc \in {"apply", "edit", "confirm", "signal", "cancel", "fill"} => q.id \in DOMAIN proposals'
          /\ q.pc = "confirm" => Meant(q.id)'
          /\ q.pc \in Proposing => u = Call /\ q.heads > 0
      BY DEF Fits, GoesOn
    <2>2. q.pc = "fill" =>
              /\ proposals'[q.id].version >= q.version
              /\ proposals'[q.id].version = q.version => ~ Meant(q.id)'
      BY <1>1, <1>2, <1>3 DEF Fits, GoesOn, Proposing
    <2>3. q.pc \in Building =>
              /\ q.heads \in granted'
              /\ u # Hook => q.id \in DOMAIN proposals' /\ proposals'[q.id].heads \in granted' /\ Meant(q.id)'
      BY DEF Fits, GoesOn
    <2>4. /\ q.pc \in {"brief", "groom", "ask", "note", "file", "assign"} => q.id \in DOMAIN goals'
          /\ q.pc = "brief" => u = Hook /\ goals'[q.id].plan \in granted' \ {0}
          /\ q.pc \in {"exec", "gap"} => q.heads > 0
          /\ q.pc \in {"route", "create", "groom"} /\ q.missing = 0 => HasTeam'
          /\ q.pc \in {"assign", "start"} => HasTeam'
          /\ q.pc \in {"ask", "note"} => q.missing > 0
          /\ q.pc = "file" => goals'[q.id].plan # 0
          /\ q.pc = "start" => IsAssigned'
      BY DEF Fits, GoesOn
    <2>5. ~ raced' =>
              /\ q.pc = "create" => Len(goals') = 0
              /\ q.pc = "groom" => goals'[q.id].status = "DRAFT"
              /\ q.pc \in {"note", "file"} => Pending' = {}
      BY DEF Fits, GoesOn, Continuing
    <2>6. QED
      BY <2>1, <2>2, <2>3, <2>4, <2>5 DEF Fits
  <1>5. QED
    BY <1>4

\* One request moves; the tables go on for all the others.
LEMMA MoveKeeps ==
    ASSUME IInv, TypeOK', LinesFormAForest', NEW t \in Thread, NEW r \in ThreadState, Put(t, r),
           Flow', Plans', Names', Goals',
           Fits(t, r)', \A u \in Thread \ {t} : GoesOn(u),
           r.pc \in Continuing => \/ thread[t].pc \in Continuing \/ raced'
                                 \/ \A u \in Thread \ {t} : thread[u].pc \notin Continuing,
           raced => raced',
           thread[t].pc \in Continuing \/ raced' \/ (goals' = goals /\ Pending' \subseteq Pending)
    PROVE  IInv'
  <1>1. /\ thread' \in [Thread -> ThreadState] /\ thread'[t] = r
        /\ \A u \in Thread \ {t} : thread'[u] = thread[u]
    BY ThreadTakes DEF IInv, Put
  <1>2. \A u \in Thread : thread[u] \in ThreadState /\ Fits(u, thread[u])
    BY DEF IInv, TypeOK
  <1>3. Alone'
    BY <1>1 DEF IInv, Alone
  <1>4. \A u \in Thread \ {t} : Fits(u, thread[u])'
    <2>1. TAKE u \in Thread \ {t}
    <2>2. raced' \/ thread[u].pc \notin Continuing \/ (goals' = goals /\ Pending' \subseteq Pending)
      BY DEF IInv, Alone
    <2>3. TypeOK /\ GoesOn(u) /\ thread'[u] = thread[u]
      BY <1>1, <2>1 DEF IInv
    <2>4. QED
      BY <1>2, <2>2, <2>3, FitsStays
  <1>5. Fits(t, thread[t])'
    BY <1>1
  <1>6. \A u \in Thread : Fits(u, thread[u])'
    BY <1>4, <1>5
  <1>7. QED
    BY <1>3, <1>6 DEF IInv

\* The tables stay; the project, the analysis, signals and counts may change.
Tables == <<org, proposals, goals, approvals, granted, raced, cut>>

LEMMA TablesStay ==
    ASSUME IInv, UNCHANGED Tables
    PROVE  /\ Plans' /\ Names' /\ LinesFormAForest' /\ (HasTeam => HasTeam') /\ (IsAssigned => IsAssigned')
           /\ goals' = goals /\ Pending' = Pending
           /\ \A t \in Thread : GoesOn(t)
           /\ \A t \in Thread, r \in ThreadState : Fits(t, r) => Fits(t, r)'
  <1> USE DEF Tables, org
  <1>1. Plans' /\ Names' /\ LinesFormAForest'
    BY DEF IInv, Plans, Names, LinesFormAForest, Reaches, Meant, Staff
  <1>2. /\ HasTeam' = HasTeam /\ IsAssigned' = IsAssigned
        /\ goals' = goals /\ Pending' = Pending
        /\ \A i : Meant(i)' = Meant(i)
    BY DEF HasTeam, Hired, IsAssigned, Pending, Meant
  <1>3. \A i \in DOMAIN proposals : proposals[i].version \in Nat
    <2>1. proposals \in Seq(ProposalState)
      BY DEF IInv, TypeOK, ProposalState
    <2>2. \A i \in DOMAIN proposals : proposals[i] \in ProposalState
      BY <2>1
    <2>3. QED
      BY <2>2 DEF ProposalState
  <1>4. \A t \in Thread : GoesOn(t)
    BY <1>2, <1>3 DEF GoesOn
  <1>5. \A t \in Thread, r \in ThreadState : Fits(t, r) => Fits(t, r)'
    BY <1>2 DEF Fits
  <1>6. QED
    BY <1>1, <1>2, <1>4, <1>5

\* A request moves on without a word to the tables.
LEMMA QuietKeeps ==
    ASSUME IInv, TypeOK', NEW t \in Thread, NEW r \in ThreadState, Put(t, r),
           UNCHANGED Tables, Flow', Fits(t, r),
           r.pc \in Continuing => thread[t].pc \in Continuing,
           thread[t].pc # "groom",
           project' = "executing" => project = "executing" \/ (HasTeam /\ IsAssigned)
    PROVE  IInv'
  <1>1. /\ Plans' /\ Names' /\ LinesFormAForest' /\ (HasTeam => HasTeam') /\ (IsAssigned => IsAssigned')
        /\ goals' = goals /\ Pending' = Pending
        /\ \A u \in Thread : GoesOn(u)
        /\ Fits(t, r)'
    BY TablesStay
  <1>2. /\ thread'[t] = r
        /\ \A u \in Thread \ {t} : thread'[u] = thread[u]
    BY ThreadTakes DEF IInv, Put
  <1>3. Goals'
    <2>1. cut' = cut /\ raced' = raced
      BY DEF Tables
    <2>2. ~ raced' => Len(goals') <= 1 /\ \A i, j \in Pending' : i = j
      BY <1>1, <2>1 DEF IInv, Goals
    <2>3. cut' \/ raced' \/ \A i \in DOMAIN goals' : goals'[i].status = "DRAFT" =>
                          \E u \in Thread : thread'[u].pc = "groom" /\ thread'[u].id = i
      <3>1. cut \/ raced \/ \A i \in DOMAIN goals : goals[i].status = "DRAFT" =>
                          \E u \in Thread \ {t} : thread[u].pc = "groom" /\ thread[u].id = i
        BY DEF IInv, Goals
      <3>2. QED
        BY <1>1, <1>2, <2>1, <3>1
    <2>4. project' = "executing" => HasTeam' /\ IsAssigned'
      BY <1>1 DEF IInv, Goals
    <2>5. QED
      BY <2>2, <2>3, <2>4 DEF Goals
  <1>4. raced' = raced
    BY DEF Tables
  <1>5. QED
    BY <1>1, <1>3, <1>4, MoveKeeps

WorkflowState == [pc : {"open", "analyze", "wait", "done", "propose", "apply", "continue"},
                  known : 0..MaxHeads, id : Nat, attempt : Nat]

LEMMA WorkflowTyped ==
    TypeOK => workflow \in WorkflowState
  BY DEF TypeOK, WorkflowState, Following

\* After an activity the workflow continues, is done or tries it again.
LEMMA WorkflowMoves ==
    ASSUME workflow \in WorkflowState, workflow.pc \in {"propose", "apply", "continue"}
    PROVE  /\ MoveOn \in WorkflowState /\ MoveOn.pc \in {"continue", "done"}
           /\ Repeat \in WorkflowState
           /\ Repeat.pc = "apply" => workflow.pc = "apply"
           /\ Repeat.id = workflow.id /\ Repeat.pc # "wait"
  <1>1. /\ Following["propose"] = "continue" /\ Following["apply"] = "continue"
        /\ Following["continue"] = "done"
    BY DEF Following
  <1>2. Following[workflow.pc] \in {"continue", "done"}
    BY <1>1
  <1>3. MoveOn = [workflow EXCEPT !.pc = Following[workflow.pc], !.attempt = 1]
    <2> HIDE DEF Following
    <2>1. QED
      BY DEF MoveOn, WorkflowState
  <1>4. /\ MoveOn \in WorkflowState /\ MoveOn.pc \in {"continue", "done"}
        /\ MoveOn.id = workflow.id
    BY <1>2, <1>3 DEF WorkflowState
  <1>5. CASE workflow.attempt < Attempts
    BY <1>4, <1>5 DEF Repeat, WorkflowState
  <1>6. CASE ~ (workflow.attempt < Attempts)
    BY <1>4, <1>6 DEF Repeat, WorkflowState
  <1>7. QED
    BY <1>4, <1>5, <1>6

\* A request that ended, for the workflow or for somebody else.
LEMMA Ends ==
    ASSUME IInv, NEW t \in Thread, Return(t) \/ Throw(t), thread[t].pc # "idle",
           DOMAIN proposals \subseteq DOMAIN proposals'
    PROVE  /\ Put(t, Idle) /\ Idle \in ThreadState /\ Fits(t, Idle) /\ Idle.pc = "idle"
           /\ workflow' \in WorkflowState /\ Flow'
  <1>1. workflow \in WorkflowState
    BY WorkflowTyped DEF IInv
  <1>2. Idle \in ThreadState /\ Idle.pc = "idle"
    BY Bounds DEF Idle, ThreadState
  <1>3. Fits(t, Idle)
    BY DEF Fits, Idle, Proposing, Building
  <1>4. Put(t, Idle) /\ workflow' \in {workflow, IF t = Call THEN MoveOn ELSE workflow, IF t = Call THEN Repeat ELSE workflow}
    BY DEF Return, Throw
  <1>5. /\ thread'[t] = Idle
        /\ \A u \in Thread \ {t} : thread'[u] = thread[u]
    BY <1>2, <1>4, ThreadTakes DEF IInv, Put
  <1>6. CASE t # Call
    <2>1. workflow' = workflow /\ thread'[Call] = thread[Call]
      BY <1>4, <1>5, <1>6, Bounds
    <2>2. Flow'
      BY <2>1 DEF IInv, Flow, At
    <2>3. QED
      BY <1>1, <1>2, <1>3, <1>4, <2>1, <2>2
  <1>7. CASE t = Call
    <2>1. workflow.pc \in {"propose", "apply", "continue"}
      BY <1>7 DEF IInv, Flow, At
    <2>2. /\ MoveOn \in WorkflowState /\ MoveOn.pc \in {"continue", "done"}
          /\ Repeat \in WorkflowState
          /\ Repeat.pc = "apply" => workflow.pc = "apply"
          /\ Repeat.id = workflow.id /\ Repeat.pc # "wait"
      BY <1>1, <2>1, WorkflowMoves
    <2>4. workflow' = MoveOn \/ workflow' = Repeat
      BY <1>7 DEF Return, Throw
    <2>5. Flow'
      BY <1>2, <1>5, <1>7, <2>2, <2>4 DEF IInv, Flow, At
    <2>6. QED
      BY <1>2, <1>3, <1>4, <2>2, <2>4, <2>5
  <1>8. QED
    BY <1>6, <1>7

\* A request that goes on while the workflow waits for it or not at all.
LEMMA GoesFlow ==
    ASSUME IInv, NEW t \in Thread, NEW r \in ThreadState, Put(t, r), UNCHANGED workflow,
           DOMAIN proposals \subseteq DOMAIN proposals',
           t = Call => \/ thread[t].pc # "idle"
                       \/ workflow.pc \in {"propose", "apply", "continue"}
    PROVE  Flow'
  <1>1. /\ thread'[t] = r
        /\ \A u \in Thread \ {t} : thread'[u] = thread[u]
    BY ThreadTakes DEF IInv, Put
  <1>2. CASE t = Call
    BY <1>2 DEF IInv, Flow, At
  <1>3. CASE t # Call
    BY <1>1, <1>3, Bounds DEF IInv, Flow, At
  <1>4. QED
    BY <1>2, <1>3

LEMMA RowsTyped ==
    ASSUME TypeOK
    PROVE  /\ \A i \in DOMAIN proposals : proposals[i] \in ProposalState
           /\ \A i \in DOMAIN goals : goals[i] \in GoalState
           /\ \A i \in DOMAIN approvals :
                 approvals[i] \in [goal : DOMAIN goals, status : {"pending", "approved", "rejected"}]
           /\ \A t \in Thread : thread[t] \in ThreadState
  <1>1. proposals \in Seq(ProposalState) /\ goals \in Seq(GoalState)
    BY DEF TypeOK, ProposalState, GoalState
  <1>2. \A t \in Thread : thread[t] \in ThreadState
    BY DEF TypeOK
  <1> DEFINE A == [goal : DOMAIN goals, status : {"pending", "approved", "rejected"}]
  <1>3. approvals \in Seq(A)
    BY DEF TypeOK
  <1> HIDE DEF A
  <1>4. \A i \in DOMAIN approvals : approvals[i] \in A
    BY <1>3
  <1>5. QED
    BY <1>1, <1>2, <1>4 DEF A

LEMMA QuietTyped ==
    ASSUME TypeOK, UNCHANGED Tables,
           thread' \in [Thread -> ThreadState], workflow' \in WorkflowState,
           project' \in ProjectStatus, analysis' \in 0..MaxHeads,
           signals' \subseteq (DOMAIN proposals) \X {"confirmed", "cancelled"},
           built' \in 0..MaxHeads, shrunk' \in BOOLEAN,
           acts' \in 0..MaxActs, upsets' \in 0..MaxUpsets
    PROVE  TypeOK'
  <1>1. /\ OrgTypeOK'
        /\ proposals' = proposals /\ goals' = goals /\ approvals' = approvals
        /\ granted' = granted /\ raced' = raced /\ cut' = cut
    BY DEF Tables, org, TypeOK, OrgTypeOK
  <1>2. workflow' \in [pc : {"open", "analyze", "wait", "done"} \cup DOMAIN Following,
                       known : 0..MaxHeads, id : Nat, attempt : Nat]
    BY DEF WorkflowState, Following
  <1>3. QED
    BY <1>1, <1>2 DEF TypeOK

Aside == <<analysis, signals, counts, built, shrunk>>

LEMMA GoesKeeps ==
    ASSUME IInv, NEW t \in Thread, NEW r \in ThreadState, Put(t, r),
           thread[t].pc # "idle", thread[t].pc # "groom",
           UNCHANGED <<Tables, Aside, project, workflow>>, Fits(t, r),
           r.pc \in Continuing => thread[t].pc \in Continuing
    PROVE  IInv'
  <1>1. UNCHANGED Tables /\ UNCHANGED <<Aside, project, workflow>> /\ proposals' = proposals
    BY DEF Tables
  <1>2. thread' \in [Thread -> ThreadState] /\ workflow \in WorkflowState
    BY ThreadTakes, WorkflowTyped DEF IInv, Put
  <1>3. TypeOK'
    <2>1. /\ workflow' \in WorkflowState /\ project' \in ProjectStatus /\ analysis' \in 0..MaxHeads
          /\ signals' \subseteq (DOMAIN proposals) \X {"confirmed", "cancelled"}
          /\ built' \in 0..MaxHeads /\ shrunk' \in BOOLEAN
          /\ acts' \in 0..MaxActs /\ upsets' \in 0..MaxUpsets /\ TypeOK
      BY <1>1, <1>2 DEF Aside, counts, IInv, TypeOK
    <2>2. QED
      BY <1>1, <1>2, <2>1, QuietTyped
  <1>4. Flow'
    BY <1>1, GoesFlow
  <1>5. project' = project
    BY <1>1
  <1>6. QED
    BY <1>1, <1>3, <1>4, <1>5, QuietKeeps

LEMMA EndsKeeps ==
    ASSUME IInv, NEW t \in Thread, Return(t) \/ Throw(t),
           thread[t].pc # "idle", thread[t].pc # "groom",
           UNCHANGED <<Tables, Aside>>, project' \in ProjectStatus,
           project' = "executing" => project = "executing" \/ (HasTeam /\ IsAssigned)
    PROVE  IInv'
  <1>1. UNCHANGED Tables /\ UNCHANGED Aside /\ proposals' = proposals
    BY DEF Tables
  <1>2. /\ Put(t, Idle) /\ Idle \in ThreadState /\ Fits(t, Idle) /\ Idle.pc = "idle"
        /\ workflow' \in WorkflowState /\ Flow'
    BY <1>1, Ends
  <1>3. thread' \in [Thread -> ThreadState]
    BY <1>2, ThreadTakes DEF IInv, Put
  <1>4. TypeOK'
    <2>1. /\ analysis' \in 0..MaxHeads
          /\ signals' \subseteq (DOMAIN proposals) \X {"confirmed", "cancelled"}
          /\ built' \in 0..MaxHeads /\ shrunk' \in BOOLEAN
          /\ acts' \in 0..MaxActs /\ upsets' \in 0..MaxUpsets /\ TypeOK
      BY <1>1 DEF Aside, counts, IInv, TypeOK
    <2>2. QED
      BY <1>1, <1>2, <1>3, <2>1, QuietTyped
  <1>5. "idle" \notin Continuing
    BY DEF Continuing
  <1>6. QED
    BY <1>1, <1>2, <1>4, <1>5, QuietKeeps

LEMMA GoPuts ==
    ASSUME TypeOK, NEW t \in Thread, NEW pc, Go(t, pc)
    PROVE  Put(t, [thread[t] EXCEPT !.pc = pc])
  BY DEF Go, Put, TypeOK

\* What the steps of one request leave alone, in the words of the lemmas above.
LEMMA Untouched ==
    ASSUME UNCHANGED <<org, rows, signals, counts, history>>
    PROVE  UNCHANGED <<Tables, Aside, project>>
  BY DEF rows, history, Tables, Aside

LEMMA ApplyKeeps ==
    ASSUME IInv, NEW t \in Thread, Apply(t)
    PROVE  IInv'
  <1> DEFINE p == proposals[thread[t].id]
             r == [thread[t] EXCEPT !.pc = "boss", !.heads = p.heads]
  <1>1. thread[t].pc = "apply" /\ UNCHANGED <<Tables, Aside, project>>
    <2>1. thread[t].pc = "apply" /\ UNCHANGED <<org, rows, signals, counts, history>>
      BY DEF Apply, At
    <2>2. QED
      BY <2>1, Untouched
  <1>2. \/ Return(t) \/ Throw(t)
        \/ p.status = "confirmed" /\ Put(t, r) /\ UNCHANGED workflow
    BY DEF Apply
  <1>3. CASE Return(t) \/ Throw(t)
    BY <1>1, <1>3, EndsKeeps DEF IInv, TypeOK
  <1>4. CASE p.status = "confirmed" /\ Put(t, r) /\ UNCHANGED workflow
    <2>1. thread[t] \in ThreadState /\ Fits(t, thread[t]) /\ thread[t].id \in DOMAIN proposals
      BY <1>1, RowsTyped DEF IInv, Fits
    <2>2. p \in ProposalState /\ p.heads \in granted /\ Meant(thread[t].id)
      BY <1>4, <2>1, RowsTyped DEF IInv, Plans
    <2> HIDE DEF p
    <2>3. r \in ThreadState /\ r.pc = "boss" /\ r.heads = p.heads /\ r.id = thread[t].id
      BY <2>1, <2>2 DEF ThreadState, Building, ProposalState
    <2>4. Fits(t, r)
      BY <2>1, <2>2, <2>3 DEF p, Fits, Building, Proposing
    <2> HIDE DEF r
    <2>5. QED
      BY <1>1, <1>4, <2>3, <2>4, GoesKeeps DEF Continuing
  <1>5. QED
    BY <1>2, <1>3, <1>4

LEMMA BriefKeeps ==
    ASSUME IInv, NEW t \in Thread, Brief(t)
    PROVE  IInv'
  <1> DEFINE plan == goals[thread[t].id].plan
             r == [thread[t] EXCEPT !.pc = "boss", !.heads = plan]
  <1>1. thread[t].pc = "brief" /\ UNCHANGED <<Tables, Aside, project, workflow>>
    <2>1. thread[t].pc = "brief" /\ UNCHANGED <<org, rows, signals, counts, history>> /\ UNCHANGED workflow
      BY DEF Brief, At
    <2>2. QED
      BY <2>1, Untouched
  <1>2. thread[t] \in ThreadState /\ Fits(t, thread[t]) /\ thread[t].id \in DOMAIN goals
    BY <1>1, RowsTyped DEF IInv, Fits
  <1>3. plan \in 0..MaxHeads /\ plan \in granted \ {0} /\ t = Hook
    BY <1>1, <1>2, RowsTyped DEF IInv, Fits, GoalState
  <1>4. Put(t, r)
    BY <1>3 DEF Brief
  <1> HIDE DEF plan
  <1>5. r \in ThreadState /\ r.pc = "boss" /\ r.heads = plan
    BY <1>2, <1>3 DEF ThreadState, Building
  <1>6. Fits(t, r)
    BY <1>3, <1>5 DEF Fits, Building, Proposing
  <1> HIDE DEF r
  <1>7. QED
    BY <1>1, <1>4, <1>5, <1>6, GoesKeeps DEF Continuing

LEMMA TopIsNamed == TopExecutive \in Agent \cup {NoAgent}
  <1> DEFINE tops == (Executive \cap Active) \ everReported
  <1>1. tops \subseteq Agent /\ NumberOf \in [Agent -> Nat]
    BY OrgAssumption DEF OrgAssumption, Active
  <1>2. CASE tops = {}
    BY <1>2 DEF TopExecutive
  <1>3. CASE tops # {}
    <2>1. IsFiniteSet(tops)
      BY <1>1, Bounds, FS_Subset
    <2> DEFINE f == [a \in tops |-> NumberOf[a]]
    <2>2. f \in [tops -> Int]
      BY <1>1
    <2> HIDE DEF tops
    <2>3. \E a \in tops : \A b \in tops : f[a] <= f[b]
      <3> HIDE DEF f
      <3>1. QED
        BY <1>3, <2>1, <2>2, SomeLeast
    <2>4. \E a \in tops : \A b \in tops : NumberOf[a] <= NumberOf[b]
      BY <2>3
    <2>5. (CHOOSE a \in tops : \A b \in tops : NumberOf[a] <= NumberOf[b]) \in tops
      BY <2>4
    <2>6. TopExecutive \in tops
      BY <1>3, <2>5 DEF TopExecutive, tops
    <2>7. QED
      BY <1>1, <2>6
  <1>4. QED
    BY <1>2, <1>3

LEMMA FindBossKeeps ==
    ASSUME IInv, NEW t \in Thread, FindBoss(t)
    PROVE  IInv'
  <1> DEFINE r == [thread[t] EXCEPT !.pc = "count", !.boss = TopExecutive]
  <1>1. thread[t].pc = "boss" /\ UNCHANGED <<Tables, Aside, project, workflow>>
    <2>1. thread[t].pc = "boss" /\ UNCHANGED <<org, rows, signals, counts, history>> /\ UNCHANGED workflow
      BY DEF FindBoss, At
    <2>2. QED
      BY <2>1, Untouched
  <1>2. thread[t] \in ThreadState /\ Fits(t, thread[t])
    BY RowsTyped DEF IInv
  <1>3. Put(t, r)
    BY DEF FindBoss
  <1>4. r \in ThreadState /\ r.pc = "count" /\ r.heads = thread[t].heads /\ r.id = thread[t].id
    BY <1>2, TopIsNamed DEF ThreadState, Building
  <1> HIDE DEF r
  <1>5. Fits(t, r)
    BY <1>1, <1>2, <1>4 DEF Fits, Building, Proposing
  <1>6. QED
    BY <1>1, <1>3, <1>4, <1>5, GoesKeeps DEF Continuing

LEMMA TeamIsCounted ==
    /\ Cardinality(Team \cap Active) \in Nat
    /\ Cardinality(Team \cap Active) > 0 => \E a \in Team : employment[a] = "active"
  <1>1. IsFiniteSet(Team \cap Active)
    BY Bounds, FS_Intersection
  <1>2. Cardinality(Team \cap Active) \in Nat
    BY <1>1, FS_CardinalityType
  <1>3. Team \cap Active = {} => Cardinality(Team \cap Active) = 0
    BY FS_EmptySet
  <1>4. QED
    BY <1>2, <1>3 DEF Active

LEMMA CountKeeps ==
    ASSUME IInv, NEW t \in Thread, Count(t)
    PROVE  IInv'
  <1> DEFINE n == Cardinality(Team \cap Active)
             r == [thread[t] EXCEPT !.pc = "lead", !.next = n + 1]
  <1>1. thread[t].pc = "count" /\ UNCHANGED <<Tables, Aside, project, workflow>>
    <2>1. thread[t].pc = "count" /\ UNCHANGED <<org, rows, signals, counts, history>> /\ UNCHANGED workflow
      BY DEF Count, At
    <2>2. QED
      BY <2>1, Untouched
  <1>2. thread[t] \in ThreadState /\ Fits(t, thread[t])
    BY RowsTyped DEF IInv
  <1>3. Put(t, r)
    BY DEF Count
  <1>4. n + 1 \in Nat
    BY TeamIsCounted
  <1> HIDE DEF n
  <1>5. r \in ThreadState /\ r.pc = "lead" /\ r.heads = thread[t].heads /\ r.id = thread[t].id
    BY <1>2, <1>4 DEF ThreadState, Building
  <1> HIDE DEF r
  <1>6. Fits(t, r)
    BY <1>1, <1>2, <1>5 DEF Fits, Building, Proposing
  <1>7. QED
    BY <1>1, <1>3, <1>5, <1>6, GoesKeeps DEF Continuing

LEMMA FindLeadKeeps ==
    ASSUME IInv, NEW t \in Thread, FindLead(t)
    PROVE  IInv'
  <1>1. thread[t].pc = "lead" /\ UNCHANGED <<Tables, Aside, project, workflow>>
    <2>1. thread[t].pc = "lead" /\ UNCHANGED <<org, rows, signals, counts, history>> /\ UNCHANGED workflow
      BY DEF FindLead, At
    <2>2. QED
      BY <2>1, Untouched
  <1>2. thread[t] \in ThreadState /\ Fits(t, thread[t])
    BY RowsTyped DEF IInv
  <1>3. PICK pc \in {"hire_lead", "hire"}, a \in Agent \cup {NoAgent} :
            Put(t, [thread[t] EXCEPT !.pc = pc, !.lead = a])
    <2>1. CASE Lead \cap Active = {}
      <3>1. Put(t, [thread[t] EXCEPT !.pc = "hire_lead"])
        BY <2>1, GoPuts DEF FindLead, IInv
      <3>2. [thread[t] EXCEPT !.pc = "hire_lead"] = [thread[t] EXCEPT !.pc = "hire_lead", !.lead = thread[t].lead]
        BY <1>2 DEF ThreadState
      <3>3. thread[t].lead \in Agent \cup {NoAgent}
        BY <1>2 DEF ThreadState
      <3>4. QED
        BY <3>1, <3>2, <3>3
    <2>2. CASE Lead \cap Active # {}
      BY <2>2 DEF FindLead, Active
    <2>3. QED
      BY <2>1, <2>2
  <1> DEFINE r == [thread[t] EXCEPT !.pc = pc, !.lead = a]
  <1>4. r \in ThreadState /\ r.pc \in Building /\ r.heads = thread[t].heads /\ r.id = thread[t].id
    BY <1>2, <1>3 DEF ThreadState, Building
  <1>5. Put(t, r)
    BY <1>3
  <1> HIDE DEF r
  <1>6. Fits(t, r)
    BY <1>1, <1>2, <1>4 DEF Fits, Building, Proposing
  <1>7. r.pc \notin Continuing
    BY <1>4 DEF Building, Continuing
  <1>8. QED
    BY <1>1, <1>4, <1>5, <1>6, <1>7, GoesKeeps

LEMMA FindExecutiveKeeps ==
    ASSUME IInv, NEW t \in Thread, FindExecutive(t)
    PROVE  IInv'
  <1>1. thread[t].pc = "exec" /\ UNCHANGED <<Tables, Aside, project, workflow>>
    <2>1. thread[t].pc = "exec" /\ UNCHANGED <<org, rows, signals, counts, history>> /\ UNCHANGED workflow
      BY DEF FindExecutive, At
    <2>2. QED
      BY <2>1, Untouched
  <1>2. thread[t] \in ThreadState /\ Fits(t, thread[t])
    BY RowsTyped DEF IInv
  <1>3. PICK pc \in {"shelve", "gap"} : Put(t, [thread[t] EXCEPT !.pc = pc])
    <2>1. \E pc \in {"shelve", "gap"} : Go(t, pc)
      BY DEF FindExecutive
    <2>2. QED
      BY <2>1, GoPuts DEF IInv
  <1> DEFINE r == [thread[t] EXCEPT !.pc = pc]
  <1>4. r \in ThreadState /\ r.pc \in {"shelve", "gap"} /\ r.heads = thread[t].heads
    BY <1>2, <1>3 DEF ThreadState, Continuing
  <1>5. Put(t, r)
    BY <1>3
  <1> HIDE DEF r
  <1>6. Fits(t, r)
    BY <1>1, <1>2, <1>4 DEF Fits, Building, Proposing
  <1>7. QED
    BY <1>1, <1>4, <1>5, <1>6, GoesKeeps DEF Continuing

LEMMA Advances ==
    ASSUME TypeOK, NEW to \in ProjectStatus, Advance(to)
    PROVE  project' \in {project, to} /\ project' \in ProjectStatus
  BY DEF Advance, TypeOK

LEMMA ShelveKeeps ==
    ASSUME IInv, NEW t \in Thread, Shelve(t)
    PROVE  IInv'
  <1>1. thread[t].pc = "shelve" /\ Return(t) /\ UNCHANGED <<Tables, Aside>>
    BY DEF Shelve, At, history, Tables, Aside
  <1>2. "staffing_review" \in ProjectStatus
    BY DEF ProjectStatus
  <1>3. project' \in {project, "staffing_review"} /\ project' \in ProjectStatus
    BY <1>2, Advances DEF Shelve, IInv
  <1>4. project' = "executing" => project = "executing"
    BY <1>3
  <1>5. QED
    BY <1>1, <1>3, <1>4, EndsKeeps

LEMMA AwaitKeeps ==
    ASSUME IInv, NEW t \in Thread, Await(t)
    PROVE  IInv'
  <1>1. thread[t].pc = "await" /\ Return(t) /\ UNCHANGED <<Tables, Aside>>
    BY DEF Await, At, history, Tables, Aside
  <1>2. project' \in {project, "waiting_for_founder"} /\ project' \in ProjectStatus
    BY DEF Await, IInv, TypeOK, ProjectStatus
  <1>3. project' = "executing" => project = "executing"
    BY <1>2
  <1>4. QED
    BY <1>1, <1>2, <1>3, EndsKeeps

LEMMA StartKeeps ==
    ASSUME IInv, NEW t \in Thread, Start(t)
    PROVE  IInv'
  <1>1. thread[t].pc = "start" /\ Return(t) /\ UNCHANGED <<Tables, Aside>>
    BY DEF Start, At, history, Tables, Aside
  <1>2. "executing" \in ProjectStatus
    BY DEF ProjectStatus
  <1>3. project' \in ProjectStatus
    BY <1>2, Advances DEF Start, IInv
  <1>4. HasTeam /\ IsAssigned
    BY <1>1 DEF IInv, Fits
  <1>5. QED
    BY <1>1, <1>3, <1>4, EndsKeeps

LEMMA GapKeeps ==
    ASSUME IInv, NEW t \in Thread, Gap(t)
    PROVE  IInv'
  <1> DEFINE have == Cardinality(Team \cap Active)
             gap == IF thread[t].heads > have THEN thread[t].heads - have ELSE 0
             r == [thread[t] EXCEPT !.pc = "route", !.missing = gap]
  <1>1. thread[t].pc = "gap" /\ UNCHANGED <<Tables, Aside, project, workflow>>
    <2>1. thread[t].pc = "gap" /\ UNCHANGED <<org, rows, signals, counts, history>> /\ UNCHANGED workflow
      BY DEF Gap, At
    <2>2. QED
      BY <2>1, Untouched
  <1>2. thread[t] \in ThreadState /\ Fits(t, thread[t])
    BY RowsTyped DEF IInv
  <1>3. Put(t, r)
    BY DEF Gap
  <1>4. have \in Nat /\ (have > 0 => HasTeam)
    BY TeamIsCounted DEF HasTeam, Hired
  <1>5. thread[t].heads \in 0..MaxHeads /\ thread[t].heads > 0 /\ MaxHeads \in Nat
    BY <1>1, <1>2, Bounds DEF ThreadState, Fits
  <1>6. gap \in 0..MaxHeads /\ (gap = 0 => HasTeam)
    <2> HIDE DEF have
    <2>1. CASE thread[t].heads > have
      BY <1>4, <1>5, <2>1
    <2>2. CASE ~ (thread[t].heads > have)
      <3>1. have > 0
        BY <1>4, <1>5, <2>2
      <3>2. QED
        BY <1>4, <1>5, <2>2, <3>1
    <2>3. QED
      BY <2>1, <2>2
  <1> HIDE DEF gap
  <1>7. r \in ThreadState /\ r.pc = "route" /\ r.missing = gap
    BY <1>2, <1>6 DEF ThreadState, Continuing
  <1> HIDE DEF r
  <1>8. Fits(t, r)
    BY <1>1, <1>2, <1>6, <1>7 DEF Fits, Building, Proposing
  <1>9. QED
    BY <1>1, <1>3, <1>7, <1>8, GoesKeeps DEF Continuing

LEMMA LatestIsOne ==
    ASSUME NEW n \in Nat, NEW S \in SUBSET (1..n)
    PROVE  /\ Latest(S) \in Nat /\ (Latest(S) = 0 <=> S = {})
           /\ Latest(S) > 0 => Latest(S) \in S
  <1>1. CASE S = {}
    BY <1>1 DEF Latest
  <1>2. CASE S # {}
    <2>1. S \in SUBSET Int
      OBVIOUS
    <2>2. IsFiniteSet(1..n)
      BY FS_Interval
    <2>3. IsFiniteSet(S)
      BY <2>2, FS_Subset
    <2>4. Max(S) \in S
      BY <1>2, <2>1, <2>3, MaxOfFinite
    <2>5. Latest(S) = Max(S)
      BY <1>2 DEF Latest
    <2> DEFINE l == Latest(S)
    <2>6. l \in S /\ l \in 1..n
      BY <2>4, <2>5
    <2> HIDE DEF l
    <2>7. l \in Nat /\ l # 0
      BY <2>6
    <2>8. QED
      BY <1>2, <2>6, <2>7 DEF l
  <1>3. QED
    BY <1>1, <1>2

LEMMA FoundIsThere ==
    ASSUME TypeOK
    PROVE  /\ Found \in Nat /\ (Found > 0 => Found \in DOMAIN goals)
           /\ Found = 0 => Len(goals) = 0
  <1>1. goals \in Seq(GoalState)
    BY DEF TypeOK, GoalState
  <1>2. DOMAIN goals = 1..Len(goals) /\ Len(goals) \in Nat
    BY <1>1
  <1>3. /\ Latest(DOMAIN goals) \in Nat /\ (Latest(DOMAIN goals) = 0 <=> DOMAIN goals = {})
        /\ Latest(DOMAIN goals) > 0 => Latest(DOMAIN goals) \in DOMAIN goals
    BY <1>2, LatestIsOne
  <1>4. QED
    BY <1>2, <1>3 DEF Found

\* On from the GOAL: a hire is asked for or the GOAL assigned.
LEMMA RoutedFits ==
    ASSUME NEW t \in Thread, thread[t] \in ThreadState, NEW i \in DOMAIN goals, goals \in Seq(GoalState),
           NEW boss \in Agent \cup {NoAgent}, thread[t].missing = 0 => HasTeam
    PROVE  /\ Routed(t, i, boss) \in ThreadState /\ Routed(t, i, boss).pc \in Continuing
           /\ Fits(t, Routed(t, i, boss)) /\ Routed(t, i, boss).pc # "groom"
           /\ Routed(t, i, boss).pc \in {"ask", "assign"} /\ Routed(t, i, boss).id = i
           /\ Routed(t, i, boss).pc = "assign" => thread[t].missing = 0
           /\ Routed(t, i, boss).missing = thread[t].missing
  <1> DEFINE r == Routed(t, i, boss)
  <1>1. i \in Nat /\ thread[t].missing \in Nat
    BY Bounds DEF ThreadState
  <1>2. /\ r \in ThreadState /\ r.pc \in {"ask", "assign"} /\ r.missing = thread[t].missing /\ r.id = i
        /\ r.pc = "ask" => thread[t].missing > 0
        /\ r.pc = "assign" => thread[t].missing = 0
    <2> DEFINE pc == IF thread[t].missing > 0 THEN "ask" ELSE "assign"
    <2>1. r = [thread[t] EXCEPT !.id = i, !.boss = boss, !.pc = pc]
      BY DEF Routed
    <2>2. /\ pc \in {"ask", "assign"}
          /\ pc = "ask" => thread[t].missing > 0
          /\ pc = "assign" => thread[t].missing = 0
      BY <1>1
    <2> HIDE DEF pc
    <2> HIDE DEF r
    <2>3. QED
      BY <1>1, <2>1, <2>2 DEF ThreadState, Continuing
  <1> HIDE DEF r
  <1>3. Fits(t, r)
    BY <1>2 DEF Fits, Building, Proposing
  <1>4. QED
    BY <1>2, <1>3 DEF r, Continuing

LEMMA RouteKeeps ==
    ASSUME IInv, NEW t \in Thread, Route(t)
    PROVE  IInv'
  <1>1. thread[t].pc = "route" /\ UNCHANGED <<Tables, Aside, project>>
    <2>1. thread[t].pc = "route" /\ UNCHANGED <<org, rows, signals, counts, history>>
      BY DEF Route, At
    <2>2. QED
      BY <2>1, Untouched
  <1>2. /\ thread[t] \in ThreadState /\ Fits(t, thread[t])
        /\ thread[t].missing = 0 => HasTeam
    BY <1>1, RowsTyped DEF IInv, Fits
  <1>3. CASE Throw(t)
    BY <1>1, <1>3, EndsKeeps DEF IInv, TypeOK
  <1>4. CASE Found > 0 /\ Put(t, Routed(t, Found, TopExecutive)) /\ UNCHANGED workflow
    <2>1. goals \in Seq(GoalState) /\ Found \in DOMAIN goals
      BY <1>4, FoundIsThere DEF IInv, TypeOK, GoalState
    <2> DEFINE r == Routed(t, Found, TopExecutive)
    <2>2. r \in ThreadState /\ Fits(t, r)
      BY <1>2, <2>1, RoutedFits, TopIsNamed
    <2> HIDE DEF r
    <2>3. Put(t, r)
      BY <1>4 DEF r
    <2>4. QED
      BY <1>1, <1>4, <2>2, <2>3, GoesKeeps DEF Continuing
  <1>5. CASE /\ ~ (Found > 0) /\ UNCHANGED workflow
             /\ Put(t, [thread[t] EXCEPT !.pc = "create", !.boss = TopExecutive])
    <2> DEFINE r == [thread[t] EXCEPT !.pc = "create", !.boss = TopExecutive]
    <2>1. r \in ThreadState /\ r.pc = "create" /\ r.missing = thread[t].missing
      BY <1>2, TopIsNamed DEF ThreadState, Continuing
    <2> HIDE DEF r
    <2>2. Len(goals) = 0
      BY <1>5, FoundIsThere DEF IInv
    <2>3. Fits(t, r)
      BY <1>2, <2>1, <2>2 DEF Fits, Building, Proposing
    <2>4. Put(t, r)
      BY <1>5 DEF r
    <2>5. QED
      BY <1>1, <1>5, <2>1, <2>3, <2>4, GoesKeeps DEF Continuing
  <1>6. QED
    BY <1>3, <1>4, <1>5 DEF Route

LEMMA AskKeeps ==
    ASSUME IInv, NEW t \in Thread, Ask(t)
    PROVE  IInv'
  <1> DEFINE asked == \E i \in DOMAIN approvals :
                         approvals[i] = [goal |-> thread[t].id, status |-> "pending"]
             pc == IF asked THEN "await" ELSE "note"
             r == [thread[t] EXCEPT !.pc = pc]
  <1>1. thread[t].pc = "ask" /\ UNCHANGED <<Tables, Aside, project, workflow>>
    <2>1. thread[t].pc = "ask" /\ UNCHANGED <<org, rows, signals, counts, history>> /\ UNCHANGED workflow
      BY DEF Ask, At
    <2>2. QED
      BY <2>1, Untouched
  <1>2. thread[t] \in ThreadState /\ Fits(t, thread[t])
    BY RowsTyped DEF IInv
  <1>3. Put(t, r)
    BY GoPuts DEF Ask, IInv
  <1>4. /\ r \in ThreadState /\ r.pc \in {"await", "note"} /\ r.missing = thread[t].missing
        /\ r.id = thread[t].id
        /\ r.pc = "note" => ~ asked
    BY <1>2 DEF ThreadState, Continuing
  <1>5. ~ asked /\ ~ raced => Pending = {}
    <2> SUFFICES ASSUME ~ asked, ~ raced, NEW i \in Pending
                 PROVE  FALSE
      OBVIOUS
    <2>1. i \in DOMAIN approvals /\ approvals[i].status = "pending"
      BY DEF Pending
    <2>2. approvals[i] \in [goal : DOMAIN goals, status : {"pending", "approved", "rejected"}]
      BY <2>1, RowsTyped DEF IInv
    <2>3. goals \in Seq(GoalState) /\ Len(goals) <= 1
      BY DEF IInv, TypeOK, GoalState, Goals
    <2>4. DOMAIN goals \subseteq {1}
      BY <2>3
    <2>5. thread[t].id \in DOMAIN goals
      BY <1>1, <1>2 DEF Fits
    <2>6. approvals[i].goal = thread[t].id /\ approvals[i].status = "pending"
      BY <2>1, <2>2, <2>4, <2>5
    <2>7. approvals[i] = [goal |-> thread[t].id, status |-> "pending"]
      BY <2>2, <2>6
    <2>8. QED
      BY <2>1, <2>7
  <1> HIDE DEF r, asked
  <1>6. Fits(t, r)
    BY <1>1, <1>2, <1>4, <1>5 DEF Fits, Building, Proposing
  <1>7. QED
    BY <1>1, <1>3, <1>4, <1>6, GoesKeeps DEF Continuing

-----------------------------------------------------------------------------
(* The organisation changes                                                *)

\* Who was hired once stays in the books, and only a hire adds to the staff.
LEMMA HiredStays ==
    ASSUME OrgTypeOK, [OrgNext]_org
    PROVE  \A a \in Agent : Hired(a) => Hired(a)'
  <1> USE DEF OrgTypeOK, Hired
  <1>1. CASE UNCHANGED employment
    BY <1>1
  <1>2. CASE EndEdge \/ UNCHANGED org
    BY <1>1, <1>2 DEF EndEdge, org
  <1>3. ASSUME NEW a \in Agent, Activate(a) \/ Pause(a) \/ Offboard(a)
        PROVE  \A b \in Agent : Hired(b) => Hired(b)'
    <2>1. PICK e \in {"active", "paused", "offboarded"} : employment' = [employment EXCEPT ![a] = e]
      BY <1>3 DEF Activate, Pause, Offboard
    <2>2. QED
      BY <2>1
  <1>4. ASSUME NEW a \in Agent, NEW m \in Agent \cup {NoAgent}, NEW activate \in BOOLEAN,
               ChangeManager(a, m) \/ Hire(a, m, activate)
        PROVE  \A b \in Agent : Hired(b) => Hired(b)'
    <2>1. CASE ChangeManager(a, m)
      BY <1>1, <2>1 DEF ChangeManager
    <2>2. CASE Hire(a, m, activate)
      <3>1. employment' = [employment EXCEPT ![a] = IF activate THEN "active" ELSE "draft"]
        BY <2>2 DEF Hire
      <3>2. QED
        BY <3>1
    <2>3. QED
      BY <1>4, <2>1, <2>2
  <1>5. ASSUME NEW a \in Agent, NEW m \in Agent, CreateEdge(a, m) \/ CreateManages(m, a)
        PROVE  UNCHANGED employment
    BY <1>5 DEF CreateEdge, CreateManages
  <1>6. QED
    <2>1. CASE \E a \in Agent, m \in Agent \cup {NoAgent} :
                  ChangeManager(a, m) \/ \E activate \in BOOLEAN : Hire(a, m, activate)
      <3>1. PICK a \in Agent, m \in Agent \cup {NoAgent} :
                  ChangeManager(a, m) \/ \E activate \in BOOLEAN : Hire(a, m, activate)
        BY <2>1
      <3>2. \E activate \in BOOLEAN : ChangeManager(a, m) \/ Hire(a, m, activate)
        BY <3>1
      <3>3. QED
        BY <1>4, <3>2
    <2>2. CASE \E a, m \in Agent : CreateEdge(a, m) \/ CreateManages(m, a)
      BY <1>1, <1>5, <2>2
    <2>3. CASE \E a \in Agent : Activate(a) \/ Pause(a) \/ Offboard(a)
      BY <1>3, <2>3
    <2>4. QED
      BY <1>2, <2>1, <2>2, <2>3 DEF OrgNext

Books == <<proposals, goals, approvals, granted, raced, cut>>

LEMMA OrgGoesOn ==
    ASSUME IInv, [OrgNext]_org, UNCHANGED Books
    PROVE  /\ OrgTypeOK' /\ LinesFormAForest' /\ Plans'
           /\ (HasTeam => HasTeam') /\ (IsAssigned => IsAssigned')
           /\ goals' = goals /\ Pending' = Pending
           /\ \A t \in Thread : GoesOn(t)
           /\ \A t \in Thread, r \in ThreadState : Fits(t, r) => Fits(t, r)'
  <1> USE DEF Books
  <1>1. OrgTypeOK' /\ LinesFormAForest'
    <2>1. OrgInv
      BY ForestIsForest DEF IInv, TypeOK, OrgInv
    <2>2. OrgTypeOK' /\ Forest(reportsTo')
      BY <2>1, OrgKeeps DEF OrgInv
    <2>3. LinesFormAForest'
      BY <2>2 DEF LinesFormAForest, Forest, OneManager, Acyclic
    <2>4. QED
      BY <2>2, <2>3
  <1>2. HasTeam => HasTeam'
    <2>1. Team \subseteq Agent
      BY PlanningAssumption DEF PlanningAssumption
    <2>2. QED
      BY <2>1, HiredStays DEF HasTeam, IInv, TypeOK
  <1>3. Plans'
    BY DEF IInv, Plans, Meant
  <1>4. /\ IsAssigned' = IsAssigned /\ goals' = goals /\ Pending' = Pending
        /\ \A i : Meant(i)' = Meant(i)
    BY DEF IsAssigned, Pending, Meant
  <1>5. \A i \in DOMAIN proposals : proposals[i].version \in Nat
    BY RowsTyped DEF IInv, ProposalState
  <1>6. \A t \in Thread : GoesOn(t)
    BY <1>2, <1>4, <1>5 DEF GoesOn
  <1>7. \A t \in Thread, r \in ThreadState : Fits(t, r) => Fits(t, r)'
    BY <1>2, <1>4 DEF Fits
  <1>8. QED
    BY <1>1, <1>2, <1>3, <1>4, <1>6, <1>7

LEMMA OrgTyped ==
    ASSUME TypeOK, OrgTypeOK', UNCHANGED Books,
           thread' \in [Thread -> ThreadState], workflow' \in WorkflowState,
           UNCHANGED <<project, analysis, signals, built>>, shrunk' \in BOOLEAN,
           acts' \in 0..MaxActs, upsets' \in 0..MaxUpsets
    PROVE  TypeOK'
  <1>1. workflow' \in [pc : {"open", "analyze", "wait", "done"} \cup DOMAIN Following,
                       known : 0..MaxHeads, id : Nat, attempt : Nat]
    BY DEF WorkflowState, Following
  <1>2. QED
    BY <1>1 DEF TypeOK, Books

\* Who is hired is new to the staff and has a name that is free.
LEMMA HireAdds ==
    ASSUME TypeOK, NEW a \in Agent, NEW m, Hire(a, m, TRUE)
    PROVE  /\ Staff' = Staff \cup {a}
           /\ \A b \in Staff : NameOf[b] # NameOf[a]
           /\ Hired(a)'
  <1>1. /\ employment' = [employment EXCEPT ![a] = "active"]
        /\ \A b \in Staff : NameOf[b] # NameOf[a]
    BY DEF Hire, MayHire, NameIsFree
  <1>2. employment \in [Agent -> Employment]
    BY DEF TypeOK, OrgTypeOK
  <1>3. Staff' = Staff \cup {a} /\ Hired(a)'
    BY <1>1, <1>2 DEF Staff, Hired
  <1>4. QED
    BY <1>1, <1>3

LEMMA NamesStay ==
    ASSUME Names, granted \subseteq granted', Member \cap Staff' \subseteq Member \cap Staff
    PROVE  Names'
  BY DEF Names

\* The factory hires a member under a name up to what was granted.
LEMMA NamesGrow ==
    ASSUME Names, TypeOK, TypeOK', UNCHANGED granted, NEW a \in Member, NEW n \in granted,
           Staff' = Staff \cup {a}, \A b \in Staff : NameOf[b] # NameOf[a], NameOf[a] <= n
    PROVE  Names'
  <1>1. \A b \in Member : NameOf[b] \in Int
    BY Bounds, PlanningAssumption DEF PlanningAssumption
  <1>2. granted \subseteq Int
    BY DEF TypeOK
  <1>3. PICK k \in granted : \A b \in Member \cap Staff : NameOf[b] <= k
    BY DEF Names
  <1>4. \E i \in granted' : \A b \in Member \cap Staff' : NameOf[b] <= i
    <2>1. CASE n <= k
      <3>1. \A b \in Member \cap Staff' : NameOf[b] <= k
        BY <1>1, <1>2, <1>3, <2>1
      <3>2. QED
        BY <3>1
    <2>2. CASE k <= n
      <3>1. \A b \in Member \cap Staff' : NameOf[b] <= n
        BY <1>1, <1>2, <1>3, <2>2
      <3>2. QED
        BY <3>1
    <2>3. QED
      BY <1>2, <2>1, <2>2
  <1>5. \A b, c \in Member \cap Staff' : NameOf[b] = NameOf[c] => b = c
    BY DEF Names
  <1>6. QED
    BY <1>4, <1>5 DEF Names

\* The GOALs stay as they are while nobody grooms one who leaves it.
LEMMA GoalsStay ==
    ASSUME IInv, goals' = goals, Pending' \subseteq Pending, raced => raced', cut => cut',
           HasTeam => HasTeam', IsAssigned => IsAssigned',
           project' = "executing" => project = "executing" \/ (HasTeam /\ IsAssigned),
           cut' \/ \A u \in Thread : thread[u].pc = "groom" =>
                        thread'[u].pc = "groom" /\ thread'[u].id = thread[u].id
    PROVE  Goals'
  <1>1. ~ raced' => Len(goals') <= 1 /\ \A i, j \in Pending' : i = j
    BY DEF IInv, Goals
  <1>2. cut' \/ raced' \/ \A i \in DOMAIN goals' : goals'[i].status = "DRAFT" =>
                        \E u \in Thread : thread'[u].pc = "groom" /\ thread'[u].id = i
    <2>1. cut \/ raced \/ \A i \in DOMAIN goals : goals[i].status = "DRAFT" =>
                        \E u \in Thread : thread[u].pc = "groom" /\ thread[u].id = i
      BY DEF IInv, Goals
    <2>2. QED
      BY <2>1
  <1>3. project' = "executing" => HasTeam' /\ IsAssigned'
    BY DEF IInv, Goals
  <1>4. QED
    BY <1>1, <1>2, <1>3 DEF Goals

\* The factory's hire: it succeeds or fails the request.
LEMMA HireFromKeeps ==
    ASSUME IInv, NEW t \in Thread, thread[t].pc \in Building, NEW pool \in SUBSET Agent,
           NEW boss \in Agent \cup {NoAgent}, NEW r \in ThreadState, r.pc \in Building,
           r.heads = thread[t].heads, r.id = thread[t].id,
           HireFrom(t, pool, boss, r), UNCHANGED <<rows, signals, counts, history>>,
           \A a \in pool \cap Member : NameOf[a] <= r.heads
    PROVE  IInv'
  <1>1. /\ UNCHANGED Books /\ UNCHANGED <<project, analysis, signals, built, shrunk, counts>>
        /\ UNCHANGED Aside
    BY DEF rows, history, Books, Aside
  <1>2. thread[t].pc # "idle" /\ thread[t].pc # "groom" /\ thread[t].pc \notin Continuing
        /\ r.pc \notin Continuing
    BY DEF Building, Continuing
  <1>3. CASE Throw(t) /\ UNCHANGED org
    <2>1. UNCHANGED Tables /\ project' = project
      BY <1>1, <1>3 DEF Tables, Books
    <2>2. QED
      BY <1>1, <1>2, <1>3, <2>1, EndsKeeps DEF IInv, TypeOK
  <1>4. ASSUME NEW a \in Fresh(pool), Hire(a, boss, TRUE), UNCHANGED workflow,
               Put(t, IF a \in Lead THEN [r EXCEPT !.lead = a] ELSE r)
        PROVE  IInv'
    <2> DEFINE q == IF a \in Lead THEN [r EXCEPT !.lead = a] ELSE r
    <2>1. a \in Agent /\ a \in pool
      BY <1>4 DEF Fresh
    <2>2. q \in ThreadState /\ q.pc = r.pc /\ q.heads = r.heads /\ q.id = r.id
      BY <2>1 DEF ThreadState
    <2>3. Put(t, q)
      BY <1>4
    <2> HIDE DEF q
    <2>4. thread[t] \in ThreadState /\ Fits(t, thread[t])
      BY RowsTyped DEF IInv
    <2>5. Fits(t, q)
      BY <2>2, <2>4 DEF Fits, Building, Proposing
    <2>6. [OrgNext]_org
      BY <1>4, <2>1 DEF OrgNext
    <2>7. /\ OrgTypeOK' /\ LinesFormAForest' /\ Plans'
          /\ (HasTeam => HasTeam') /\ (IsAssigned => IsAssigned')
          /\ goals' = goals /\ Pending' = Pending
          /\ \A u \in Thread : GoesOn(u)
          /\ Fits(t, q)'
      BY <1>1, <2>2, <2>5, <2>6, OrgGoesOn
    <2>8. /\ thread' \in [Thread -> ThreadState] /\ thread'[t] = q
          /\ \A u \in Thread \ {t} : thread'[u] = thread[u]
      BY <2>2, <2>3, ThreadTakes DEF IInv, Put
    <2>9. TypeOK'
      <3>1. workflow' \in WorkflowState /\ TypeOK
        BY <1>4, WorkflowTyped DEF IInv
      <3>2. shrunk' \in BOOLEAN /\ acts' \in 0..MaxActs /\ upsets' \in 0..MaxUpsets
        BY <1>1 DEF IInv, TypeOK, counts
      <3>3. QED
        BY <1>1, <2>7, <2>8, <3>1, <3>2, OrgTyped
    <2>10. Flow'
      <3>1. proposals' = proposals
        BY <1>1 DEF Books
      <3>2. QED
        BY <1>2, <1>4, <2>2, <2>3, <3>1, GoesFlow
    <2>11. Names'
      <3>1. /\ Staff' = Staff \cup {a} /\ \A b \in Staff : NameOf[b] # NameOf[a]
            /\ granted' = granted
        BY <1>1, <1>4, <2>1, HireAdds DEF IInv, Books
      <3>2. CASE a \in Member
        <4>1. NameOf[a] <= r.heads /\ r.heads \in granted
          BY <2>1, <2>4, <3>2 DEF Fits
        <4>2. QED
          BY <2>9, <3>1, <3>2, <4>1, NamesGrow DEF IInv
      <3>3. CASE a \notin Member
        BY <3>1, <3>3, NamesStay DEF IInv
      <3>4. QED
        BY <3>2, <3>3
    <2>12. Goals'
      <3>1. \A u \in Thread : thread[u].pc = "groom" => thread'[u].pc = "groom" /\ thread'[u].id = thread[u].id
        BY <1>2, <2>8
      <3>2. raced' = raced /\ cut' = cut /\ project' = project
        BY <1>1 DEF Books
      <3>3. QED
        BY <2>7, <3>1, <3>2, GoalsStay
    <2>13. raced' = raced
      BY <1>1 DEF Books
    <2>14. QED
      BY <1>2, <2>2, <2>3, <2>7, <2>9, <2>10, <2>11, <2>12, <2>13, MoveKeeps
  <1>5. QED
    BY <1>3, <1>4 DEF HireFrom

LEMMA PoolsAreAgents ==
    Lead \subseteq Agent /\ Member \subseteq Agent /\ Lead \cap Member = {} /\ Executive \cap Member = {}
    /\ Movable \subseteq Agent /\ Executive \subseteq Agent
  BY PlanningAssumption, OrgAssumption DEF PlanningAssumption, OrgAssumption, Team

LEMMA HireLeadKeeps ==
    ASSUME IInv, NEW t \in Thread, HireLead(t)
    PROVE  IInv'
  <1> DEFINE r == [thread[t] EXCEPT !.pc = "hire"]
  <1>1. thread[t].pc = "hire_lead" /\ thread[t] \in ThreadState
    BY RowsTyped DEF HireLead, At, IInv
  <1>2. thread[t].boss \in Agent \cup {NoAgent}
    BY <1>1 DEF ThreadState
  <1>3. r \in ThreadState /\ r.pc = "hire" /\ r.heads = thread[t].heads /\ r.id = thread[t].id
    BY <1>1 DEF ThreadState, Building
  <1>4. HireFrom(t, Lead, thread[t].boss, r) /\ UNCHANGED <<rows, signals, counts, history>>
    BY DEF HireLead
  <1> HIDE DEF r
  <1>5. Lead \in SUBSET Agent /\ \A a \in Lead \cap Member : NameOf[a] <= r.heads
    BY PoolsAreAgents
  <1>6. thread[t].pc \in Building /\ r.pc \in Building
    BY <1>1, <1>3 DEF Building
  <1>7. QED
    BY <1>2, <1>3, <1>4, <1>5, <1>6, HireFromKeeps

LEMMA HireMemberKeeps ==
    ASSUME IInv, NEW t \in Thread, HireMember(t)
    PROVE  IInv'
  <1> DEFINE r == [thread[t] EXCEPT !.next = @ + 1]
             pool == {a \in Member : NameOf[a] = thread[t].next}
  <1>1. thread[t].pc = "hire" /\ thread[t].next <= thread[t].heads /\ thread[t] \in ThreadState
    BY RowsTyped DEF HireMember, At, IInv
  <1>2. thread[t].lead \in Agent \cup {NoAgent} /\ thread[t].next + 1 \in Nat
    BY <1>1 DEF ThreadState
  <1>3. r \in ThreadState /\ r.pc = "hire" /\ r.heads = thread[t].heads /\ r.id = thread[t].id
    BY <1>1, <1>2 DEF ThreadState, Building
  <1>4. HireFrom(t, pool, thread[t].lead, r) /\ UNCHANGED <<rows, signals, counts, history>>
    BY DEF HireMember
  <1>5. pool \in SUBSET Agent /\ \A a \in pool \cap Member : NameOf[a] <= r.heads
    BY <1>1, <1>3, PoolsAreAgents
  <1> HIDE DEF r, pool
  <1>6. thread[t].pc \in Building /\ r.pc \in Building
    BY <1>1, <1>3 DEF Building
  <1>7. QED
    BY <1>2, <1>3, <1>4, <1>5, <1>6, HireFromKeeps

\* The Founder hires executives only, and nobody else joins the staff.
LEMMA NoNewMembers ==
    ASSUME TypeOK, Reorganise
    PROVE  [OrgNext]_org /\ Member \cap Staff' \subseteq Member \cap Staff
  <1> USE DEF Staff
  <1>1. employment \in [Agent -> Employment]
    BY DEF TypeOK, OrgTypeOK
  <1>2. CASE EndEdge
    BY <1>2 DEF EndEdge, OrgNext
  <1>3. ASSUME NEW a \in Movable, Activate(a) \/ Pause(a) \/ Offboard(a)
        PROVE  [OrgNext]_org /\ Member \cap Staff' \subseteq Member \cap Staff
    <2>1. employment[a] \notin {"none", "offboarded"}
      BY <1>3 DEF Activate, Pause, Offboard
    <2>2. PICK e \in {"active", "paused", "offboarded"} : employment' = [employment EXCEPT ![a] = e]
      BY <1>3 DEF Activate, Pause, Offboard
    <2>3. Staff' \subseteq Staff
      BY <1>1, <2>1, <2>2
    <2>4. OrgNext
      BY <1>3, PoolsAreAgents DEF OrgNext
    <2>5. QED
      BY <2>3, <2>4
  <1>4. ASSUME NEW a \in Movable, NEW m \in Agent \cup {NoAgent}, ChangeManager(a, m)
        PROVE  [OrgNext]_org /\ Member \cap Staff' \subseteq Member \cap Staff
    <2>1. OrgNext
      BY <1>4, PoolsAreAgents DEF OrgNext
    <2>2. UNCHANGED employment
      BY <1>4 DEF ChangeManager
    <2>3. QED
      BY <2>1, <2>2
  <1>5. ASSUME NEW a \in Movable, NEW m \in Agent, CreateEdge(a, m) \/ CreateManages(m, a)
        PROVE  [OrgNext]_org /\ Member \cap Staff' \subseteq Member \cap Staff
    <2>1. OrgNext
      BY <1>5, PoolsAreAgents DEF OrgNext
    <2>2. UNCHANGED employment
      BY <1>5 DEF CreateEdge, CreateManages
    <2>3. QED
      BY <2>1, <2>2
  <1>6. ASSUME NEW a \in Executive, Hire(a, NoAgent, TRUE)
        PROVE  [OrgNext]_org /\ Member \cap Staff' \subseteq Member \cap Staff
    <2>1. a \in Agent /\ a \notin Member
      BY PoolsAreAgents
    <2>2. OrgNext
      BY <1>6, <2>1 DEF OrgNext
    <2>3. Staff' = Staff \cup {a}
      BY <1>6, <2>1, HireAdds
    <2>4. QED
      BY <2>1, <2>2, <2>3
  <1>7. QED
    BY <1>2, <1>3, <1>4, <1>5, <1>6 DEF Reorganise

LEMMA Limits == MaxActs \in Nat /\ MaxUpsets \in Nat /\ Attempts \in Nat
  BY PlanningAssumption DEF PlanningAssumption

LEMMA ReorganiseKeeps ==
    ASSUME IInv, Reorganise
    PROVE  IInv'
  <1>1. /\ UNCHANGED Books /\ UNCHANGED <<project, analysis, signals, built>>
        /\ workflow' = workflow /\ thread' = thread /\ acts' = acts
        /\ upsets' = upsets + 1 /\ upsets < MaxUpsets
    BY DEF Reorganise, rows, Books
  <1>2. [OrgNext]_org /\ Member \cap Staff' \subseteq Member \cap Staff
    BY NoNewMembers DEF IInv
  <1>3. /\ OrgTypeOK' /\ LinesFormAForest' /\ Plans'
        /\ (HasTeam => HasTeam') /\ (IsAssigned => IsAssigned')
        /\ goals' = goals /\ Pending' = Pending
        /\ \A t \in Thread, r \in ThreadState : Fits(t, r) => Fits(t, r)'
    BY <1>1, <1>2, OrgGoesOn
  <1>4. TypeOK'
    <2>1. workflow' \in WorkflowState /\ TypeOK /\ thread' \in [Thread -> ThreadState]
      BY <1>1, WorkflowTyped DEF IInv, TypeOK
    <2>2. acts' \in 0..MaxActs /\ upsets' \in 0..MaxUpsets
      <3>1. acts \in 0..MaxActs /\ upsets \in 0..MaxUpsets /\ MaxUpsets \in Nat
        BY Limits DEF IInv, TypeOK
      <3>2. QED
        BY <1>1, <3>1
    <2>3. shrunk' \in BOOLEAN
      BY DEF Reorganise, IInv, TypeOK
    <2>4. QED
      BY <1>1, <1>3, <2>1, <2>2, <2>3, OrgTyped
  <1>5. raced' = raced /\ cut' = cut /\ project' = project /\ granted' = granted /\ proposals' = proposals
    BY <1>1 DEF Books
  <1>6. Names'
    BY <1>2, <1>5, NamesStay DEF IInv
  <1>7. Goals'
    BY <1>1, <1>3, <1>5, GoalsStay
  <1>8. Flow' /\ Alone'
    BY <1>1, <1>5 DEF IInv, Flow, Alone, At
  <1>9. \A t \in Thread : Fits(t, thread[t])'
    <2>1. TAKE t \in Thread
    <2>2. thread[t] \in ThreadState /\ Fits(t, thread[t]) /\ thread'[t] = thread[t]
      BY <1>1, RowsTyped DEF IInv
    <2>3. QED
      BY <1>3, <2>2
  <1>10. QED
    BY <1>3, <1>4, <1>6, <1>7, <1>8, <1>9 DEF IInv

-----------------------------------------------------------------------------
(* The staffing proposals change                                           *)

Others == <<org, analysis, goals, approvals, raced, cut, shrunk, counts, signals>>

\* What a request at t does to the rows, seen by those who work with them.
RowsGoOn(t) == \A i \in DOMAIN proposals :
    /\ Meant(i) => Meant(i)' /\ (proposals[i].heads \in granted => proposals'[i].heads \in granted')
    /\ t # Call => /\ proposals'[i].version >= proposals[i].version
                   /\ proposals'[i].version = proposals[i].version => (Meant(i)' => Meant(i))

LEMMA DecisionKeeps ==
    ASSUME IInv, NEW t \in Thread, NEW r \in ThreadState, Put(t, r), UNCHANGED Others,
           proposals' \in Seq(ProposalState), DOMAIN proposals \subseteq DOMAIN proposals',
           project' \in ProjectStatus, workflow' \in WorkflowState,
           granted \subseteq granted', granted' \subseteq Nat, built' \in 0..MaxHeads,
           Flow', Plans', Fits(t, r)', RowsGoOn(t),
           thread[t].pc # "groom", r.pc \notin Continuing,
           project' = "executing" => project = "executing"
    PROVE  IInv'
  <1>1. /\ thread' \in [Thread -> ThreadState] /\ thread'[t] = r
        /\ \A u \in Thread \ {t} : thread'[u] = thread[u]
    BY ThreadTakes DEF IInv, Put
  <1>2. TypeOK'
    <2>1. workflow' \in [pc : {"open", "analyze", "wait", "done"} \cup DOMAIN Following,
                         known : 0..MaxHeads, id : Nat, attempt : Nat]
      BY DEF WorkflowState, Following
    <2>2. proposals' \in Seq([status : OpenStatuses \cup {"applied", "cancelled"}, heads : 0..MaxHeads,
                              human : BOOLEAN, version : Nat \ {0}])
      BY DEF ProposalState
    <2>3. OrgTypeOK' /\ signals' \subseteq (DOMAIN proposals') \X {"confirmed", "cancelled"}
      BY DEF Others, org, IInv, TypeOK, OrgTypeOK
    <2>4. QED
      BY <1>1, <2>1, <2>2, <2>3 DEF Others, counts, IInv, TypeOK
  <1>3. LinesFormAForest'
    BY DEF Others, org, IInv, LinesFormAForest, Reaches
  <1>4. /\ HasTeam' = HasTeam /\ IsAssigned' = IsAssigned /\ goals' = goals /\ Pending' = Pending
        /\ raced' = raced /\ cut' = cut
    BY DEF Others, org, HasTeam, Hired, IsAssigned, Pending
  <1>5. Names'
    <2>1. Staff' = Staff
      BY DEF Others, org, Staff
    <2>2. QED
      BY <2>1, NamesStay DEF IInv
  <1>6. \A u \in Thread \ {t} : GoesOn(u)
    BY <1>4 DEF GoesOn, RowsGoOn
  <1>7. Goals'
    BY <1>1, <1>4, GoalsStay
  <1>8. QED
    BY <1>2, <1>3, <1>4, <1>5, <1>6, <1>7, MoveKeeps

\* One row is written over.
LEMMA RowIsWritten ==
    ASSUME IInv, NEW i \in DOMAIN proposals, NEW p \in ProposalState,
           proposals' = [proposals EXCEPT ![i] = p], granted \subseteq granted',
           approvals' = approvals, goals' = goals,
           Meant(i) => (p.heads > 0 \/ p.human)
                       /\ (proposals[i].heads \in granted => p.heads \in granted'),
           p.status \in {"confirmed", "applied"} => p.heads \in granted' /\ (p.heads > 0 \/ p.human),
           NEW t,
           t # Call => /\ p.version >= proposals[i].version
                       /\ p.version = proposals[i].version => (p.heads > 0 \/ p.human => Meant(i))
    PROVE  /\ proposals' \in Seq(ProposalState) /\ DOMAIN proposals' = DOMAIN proposals
           /\ proposals'[i] = p /\ Plans' /\ RowsGoOn(t)
  <1>1. proposals \in Seq(ProposalState)
    BY DEF IInv, TypeOK, ProposalState
  <1>2. /\ proposals' \in Seq(ProposalState) /\ DOMAIN proposals' = DOMAIN proposals
        /\ proposals'[i] = p /\ \A j \in DOMAIN proposals \ {i} : proposals'[j] = proposals[j]
    BY <1>1, RowChanges
  <1>3. Meant(i)' <=> p.heads > 0 \/ p.human
    BY <1>2 DEF Meant
  <1>4. \A j \in DOMAIN proposals \ {i} : Meant(j)' = Meant(j)
    BY <1>2 DEF Meant
  <1>5. Plans'
    <2>1. \A j \in DOMAIN proposals' :
             proposals'[j].status \in {"confirmed", "applied"} => proposals'[j].heads \in granted' /\ Meant(j)'
      BY <1>2, <1>3, <1>4 DEF IInv, Plans
    <2>2. QED
      BY <2>1 DEF IInv, Plans
  <1>6. \A j \in DOMAIN proposals : proposals[j].version \in Nat
    BY RowsTyped DEF IInv, ProposalState
  <1>7. RowsGoOn(t)
    BY <1>2, <1>3, <1>4, <1>6 DEF RowsGoOn
  <1>8. QED
    BY <1>2, <1>5, <1>7

\* One row is added, which nobody confirmed yet.
LEMMA RowIsProposed ==
    ASSUME IInv, NEW p \in ProposalState, proposals' = Append(proposals, p), granted' = granted,
           approvals' = approvals, goals' = goals,
           p.status \notin {"confirmed", "applied"}, NEW t
    PROVE  /\ proposals' \in Seq(ProposalState)
           /\ DOMAIN proposals' = DOMAIN proposals \cup {Len(proposals) + 1}
           /\ Plans' /\ RowsGoOn(t)
  <1>1. proposals \in Seq(ProposalState)
    BY DEF IInv, TypeOK, ProposalState
  <1>2. /\ proposals' \in Seq(ProposalState)
        /\ DOMAIN proposals' = DOMAIN proposals \cup {Len(proposals) + 1}
        /\ proposals'[Len(proposals) + 1] = p
        /\ \A j \in DOMAIN proposals : proposals'[j] = proposals[j]
    BY <1>1, RowIsAdded
  <1>3. \A j \in DOMAIN proposals : Meant(j)' = Meant(j)
    BY <1>2 DEF Meant
  <1>4. Plans'
    <2>1. \A j \in DOMAIN proposals' :
             proposals'[j].status \in {"confirmed", "applied"} => proposals'[j].heads \in granted' /\ Meant(j)'
      BY <1>2, <1>3 DEF IInv, Plans
    <2>2. QED
      BY <2>1 DEF IInv, Plans
  <1>5. \A j \in DOMAIN proposals : proposals[j].version \in Nat
    BY RowsTyped DEF IInv, ProposalState
  <1>6. RowsGoOn(t)
    BY <1>2, <1>3, <1>5 DEF RowsGoOn
  <1>7. QED
    BY <1>2, <1>4, <1>6

LEMMA IdleFits ==
    /\ Idle \in ThreadState /\ Idle.pc = "idle"
    /\ \A t : Fits(t, Idle) /\ Fits(t, Idle)'
  BY Bounds DEF Fits, Idle, ThreadState, Proposing, Building

LEMMA MarkKeeps ==
    ASSUME IInv, NEW t \in Thread, Mark(t)
    PROVE  IInv'
  <1>1. thread[t].pc = "hire" /\ thread[t] \in ThreadState /\ Fits(t, thread[t])
    BY RowsTyped DEF Mark, At, IInv
  <1>2. CASE t = Hook
    <2> DEFINE r == [thread[t] EXCEPT !.pc = "read"]
    <2>1. Put(t, r)
      BY <1>2, GoPuts DEF Mark, IInv
    <2>2. UNCHANGED <<Tables, Aside, project, workflow>>
      BY <1>2 DEF Mark, rows, history, Tables, Aside
    <2>3. r \in ThreadState /\ r.pc = "read"
      BY <1>1 DEF ThreadState
    <2> HIDE DEF r
    <2>4. Fits(t, r)
      BY <2>3 DEF Fits, Building, Proposing
    <2>5. QED
      BY <1>1, <2>1, <2>2, <2>3, <2>4, GoesKeeps DEF Continuing
  <1>3. CASE t # Hook
    <2> DEFINE i == thread[t].id
               p == [proposals[i] EXCEPT !.status = "applied"]
    <2>1. /\ Set(i, "applied") /\ Return(t)
          /\ built' = IF t = Call THEN thread[t].heads ELSE built
          /\ UNCHANGED Others /\ project' = project /\ granted' = granted
      BY <1>3 DEF Mark, Others
    <2>2. i \in DOMAIN proposals /\ proposals[i].heads \in granted /\ Meant(i)
      BY <1>1, <1>3 DEF Fits, Building
    <2>3. proposals[i] \in ProposalState
      BY <2>2, RowsTyped DEF IInv
    <2>4. /\ p \in ProposalState /\ p.heads = proposals[i].heads /\ p.human = proposals[i].human
          /\ p.version = proposals[i].version /\ p.version \in Nat
      BY <2>3 DEF ProposalState
    <2>5. proposals' = [proposals EXCEPT ![i] = p]
      BY <2>1 DEF Set
    <2>6. approvals' = approvals /\ goals' = goals
      BY <2>1 DEF Others
    <2> HIDE DEF p, i
    <2>7. p.heads > 0 \/ p.human
      BY <2>2, <2>4 DEF Meant
    <2>8. /\ proposals' \in Seq(ProposalState) /\ DOMAIN proposals' = DOMAIN proposals
          /\ Plans' /\ RowsGoOn(t)
      <3>1. granted \subseteq granted' /\ p.heads \in granted'
        BY <2>1, <2>2, <2>4
      <3>2. p.version >= proposals[i].version
        BY <2>4
      <3>3. QED
        BY <2>2, <2>4, <2>5, <2>6, <2>7, <3>1, <3>2, RowIsWritten
    <2>9. Put(t, Idle) /\ workflow' \in WorkflowState /\ Flow'
      BY <1>1, <2>1, <2>8, Ends
    <2>10. built' \in 0..MaxHeads
      BY <1>1, <2>1 DEF ThreadState, IInv, TypeOK
    <2>11. project' \in ProjectStatus /\ granted' \subseteq Nat
      BY <2>1 DEF IInv, TypeOK
    <2>12. "idle" \notin Continuing /\ thread[t].pc # "groom"
      BY <1>1 DEF Continuing
    <2>13. QED
      BY <2>1, <2>8, <2>9, <2>10, <2>11, <2>12, IdleFits, DecisionKeeps
  <1>4. QED
    BY <1>2, <1>3

\* What the Founder's writes leave alone, and what they may end in.
LEMMA FounderKeeps ==
    ASSUME IInv, NEW t \in Thread, NEW r \in ThreadState, Put(t, r),
           UNCHANGED <<Others, project, workflow, built>>,
           proposals' \in Seq(ProposalState), DOMAIN proposals' = DOMAIN proposals,
           granted \subseteq granted', granted' \subseteq Nat,
           Plans', RowsGoOn(t), thread[t].pc \in {"edit", "confirm", "cancel"},
           r.pc = "idle" \/ (r.pc = "signal" /\ r.id \in DOMAIN proposals)
    PROVE  IInv'
  <1>1. Fits(t, r)'
    BY DEF Fits, Building, Proposing
  <1>2. Flow'
    BY GoesFlow
  <1>3. /\ project' \in ProjectStatus /\ workflow' \in WorkflowState /\ built' \in 0..MaxHeads
        /\ project' = project
    BY WorkflowTyped DEF IInv, TypeOK
  <1>4. r.pc \notin Continuing /\ thread[t].pc # "groom"
    BY DEF Continuing
  <1>5. UNCHANGED Others
    OBVIOUS
  <1>6. QED
    BY <1>1, <1>2, <1>3, <1>4, <1>5, DecisionKeeps

LEMMA WriteEditKeeps ==
    ASSUME IInv, NEW t \in Thread, WriteEdit(t)
    PROVE  IInv'
  <1> DEFINE i == thread[t].id
             p == [proposals[i] EXCEPT !.heads = thread[t].heads, !.human = TRUE, !.version = @ + 1]
  <1>1. thread[t].pc = "edit" /\ thread[t] \in ThreadState /\ i \in DOMAIN proposals
    BY RowsTyped DEF WriteEdit, At, IInv, Fits
  <1>2. Put(t, Idle) /\ UNCHANGED <<Others, project, workflow, built>>
    BY DEF WriteEdit, Others
  <1>3. CASE proposals[i].version = thread[t].version
    <2>1. /\ proposals' = [proposals EXCEPT ![i].heads = thread[t].heads,
                                ![i].human = TRUE, ![i].version = @ + 1]
          /\ granted' = granted \cup {thread[t].heads}
      BY <1>3 DEF WriteEdit
    <2>2. proposals \in Seq(ProposalState) /\ proposals[i] \in ProposalState
      BY <1>1, RowsTyped DEF IInv, TypeOK, ProposalState
    <2>3. proposals[i].version + 1 \in Nat \ {0} /\ thread[t].heads \in 0..MaxHeads
      <3>1. proposals[i].version \in Nat \ {0}
        BY <2>2 DEF ProposalState
      <3>2. thread[t].heads \in 0..MaxHeads
        BY <1>1 DEF ThreadState
      <3>3. QED
        BY <3>1, <3>2
    <2>4. /\ p \in ProposalState /\ p.heads = thread[t].heads /\ p.human
          /\ p.version = proposals[i].version + 1
      BY <2>2, <2>3 DEF ProposalState
    <2>5. proposals' = [proposals EXCEPT ![i] = p]
      BY <1>1, <2>1, <2>2 DEF ProposalState
    <2>6. approvals' = approvals /\ goals' = goals
      BY <1>2 DEF Others
    <2> HIDE DEF p, i
    <2>7. p.version > proposals[i].version /\ p.version \in Nat /\ proposals[i].version \in Nat
      BY <2>2, <2>4 DEF ProposalState
    <2>8. p.heads \in granted'
      BY <2>1, <2>4
    <2>9. /\ proposals' \in Seq(ProposalState) /\ DOMAIN proposals' = DOMAIN proposals
          /\ Plans' /\ RowsGoOn(t)
      <3>1. p.version >= proposals[i].version /\ p.version # proposals[i].version
        BY <2>7
      <3>2. granted \subseteq granted'
        BY <2>1
      <3>3. QED
        BY <1>1, <2>4, <2>5, <2>6, <2>8, <3>1, <3>2, RowIsWritten
    <2>10. granted \subseteq granted' /\ granted' \subseteq Nat
      <3>1. thread[t].heads \in Nat
        BY <2>3, Bounds
      <3>2. granted \subseteq Nat
        BY DEF IInv, TypeOK
      <3>3. QED
        BY <2>1, <3>1, <3>2
    <2>11. Idle \in ThreadState /\ Idle.pc = "idle" /\ thread[t].pc \in {"edit", "confirm", "cancel"}
      BY <1>1, IdleFits
    <2> HIDE DEF Idle
    <2>12. QED
      BY <1>2, <2>9, <2>10, <2>11, FounderKeeps
  <1>4. CASE proposals[i].version # thread[t].version
    <2>1. proposals' = proposals /\ granted' = granted
      BY <1>4 DEF WriteEdit
    <2>2. UNCHANGED Tables /\ UNCHANGED <<Aside, project, workflow>>
      BY <1>2, <2>1 DEF Tables, Aside, Others
    <2>3. "idle" \notin Continuing
      BY DEF Continuing
    <2>4. QED
      BY <1>1, <1>2, <2>2, <2>3, IdleFits, GoesKeeps
  <1>5. QED
    BY <1>3, <1>4

LEMMA WriteConfirmKeeps ==
    ASSUME IInv, NEW t \in Thread, WriteConfirm(t)
    PROVE  IInv'
  <1> DEFINE i == thread[t].id
             p == [proposals[i] EXCEPT !.status = "confirmed"]
             r == [thread[t] EXCEPT !.pc = "signal"]
  <1>1. /\ thread[t].pc = "confirm" /\ thread[t] \in ThreadState /\ i \in DOMAIN proposals
        /\ Meant(i)
    BY RowsTyped DEF WriteConfirm, At, IInv, Fits
  <1>2. UNCHANGED <<Others, project, workflow, built>>
    BY DEF WriteConfirm, Others
  <1>3. CASE MayOpen(i)
    <2>1. Set(i, "confirmed") /\ Go(t, "signal") /\ granted' = granted \cup {proposals[i].heads}
      BY <1>3 DEF WriteConfirm
    <2>2. Put(t, r)
      BY <2>1, GoPuts DEF IInv
    <2>3. r \in ThreadState /\ r.pc = "signal" /\ r.id = i
      BY <1>1 DEF ThreadState, Deciding
    <2>4. proposals[i] \in ProposalState
      BY <1>1, RowsTyped DEF IInv
    <2>5. /\ p \in ProposalState /\ p.heads = proposals[i].heads /\ p.human = proposals[i].human
          /\ p.version = proposals[i].version /\ p.version \in Nat /\ p.heads \in Nat
      BY <2>4, Bounds DEF ProposalState, OpenStatuses
    <2>6. proposals' = [proposals EXCEPT ![i] = p]
      BY <2>1 DEF Set
    <2>7. approvals' = approvals /\ goals' = goals
      BY <1>2 DEF Others
    <2> HIDE DEF p, r, i
    <2>8. /\ proposals' \in Seq(ProposalState) /\ DOMAIN proposals' = DOMAIN proposals
          /\ Plans' /\ RowsGoOn(t)
      <3>1. p.heads > 0 \/ p.human
        BY <1>1, <2>5 DEF Meant
      <3>2. granted \subseteq granted' /\ p.heads \in granted'
        BY <2>1, <2>5
      <3>3. p.version >= proposals[i].version
        BY <2>5
      <3>4. QED
        BY <1>1, <2>5, <2>6, <2>7, <3>1, <3>2, <3>3, RowIsWritten
    <2>9. granted \subseteq granted' /\ granted' \subseteq Nat
      BY <2>1, <2>5 DEF IInv, TypeOK
    <2>10. QED
      BY <1>1, <1>2, <2>2, <2>3, <2>8, <2>9, FounderKeeps
  <1>4. CASE ~ MayOpen(i)
    <2>1. proposals' = proposals /\ granted' = granted /\ Put(t, Idle)
      BY <1>4 DEF WriteConfirm
    <2>2. UNCHANGED Tables /\ UNCHANGED <<Aside, project, workflow>>
      BY <1>2, <2>1 DEF Tables, Aside, Others
    <2>3. "idle" \notin Continuing
      BY DEF Continuing
    <2>4. QED
      BY <1>1, <2>1, <2>2, <2>3, IdleFits, GoesKeeps
  <1>5. QED
    BY <1>3, <1>4

LEMMA WriteCancelKeeps ==
    ASSUME IInv, NEW t \in Thread, WriteCancel(t)
    PROVE  IInv'
  <1> DEFINE i == thread[t].id
             p == [proposals[i] EXCEPT !.status = "cancelled"]
  <1>1. thread[t].pc = "cancel" /\ thread[t] \in ThreadState /\ i \in DOMAIN proposals
    BY RowsTyped DEF WriteCancel, At, IInv, Fits
  <1>2. /\ Set(i, "cancelled") /\ Put(t, Idle) /\ granted' = granted
        /\ UNCHANGED <<Others, project, workflow, built>>
    BY DEF WriteCancel, Others, history
  <1>3. proposals[i] \in ProposalState
    BY <1>1, RowsTyped DEF IInv
  <1>4. /\ p \in ProposalState /\ p.heads = proposals[i].heads /\ p.human = proposals[i].human
        /\ p.version = proposals[i].version /\ p.version \in Nat /\ p.status = "cancelled"
    BY <1>3 DEF ProposalState
  <1>5. proposals' = [proposals EXCEPT ![i] = p]
    BY <1>2 DEF Set
  <1>6. approvals' = approvals /\ goals' = goals
    BY <1>2 DEF Others
  <1> HIDE DEF p, i
  <1>7. Meant(i) <=> p.heads > 0 \/ p.human
    BY <1>4 DEF Meant
  <1>8. /\ proposals' \in Seq(ProposalState) /\ DOMAIN proposals' = DOMAIN proposals
        /\ Plans' /\ RowsGoOn(t)
    <2>1. granted \subseteq granted' /\ p.version >= proposals[i].version
      BY <1>2, <1>4
    <2>2. proposals[i].heads \in granted => p.heads \in granted'
      BY <1>2, <1>4
    <2>3. p.status \notin {"confirmed", "applied"}
      BY <1>4
    <2>4. QED
      BY <1>1, <1>4, <1>5, <1>6, <1>7, <2>1, <2>2, <2>3, RowIsWritten
  <1>9. granted \subseteq granted' /\ granted' \subseteq Nat
    BY <1>2 DEF IInv, TypeOK
  <1>10. Idle \in ThreadState /\ Idle.pc = "idle" /\ thread[t].pc \in {"edit", "confirm", "cancel"}
    BY <1>1, IdleFits
  <1> HIDE DEF Idle
  <1>11. QED
    BY <1>2, <1>8, <1>9, <1>10, FounderKeeps

\* The workflow is told which proposal it waits for, or goes on without one.
LEMMA AnswerEnds ==
    ASSUME IInv, NEW i, NEW p, Answer(i, p), i \in Nat, i \in DOMAIN proposals',
           thread[Call].pc # "idle", DOMAIN proposals \subseteq DOMAIN proposals'
    PROVE  /\ Put(Call, Idle) /\ workflow' \in WorkflowState /\ Flow'
           /\ project' \in ProjectStatus /\ project' \in {project, "waiting_for_founder"}
  <1>1. Put(Call, Idle)
    BY DEF Answer, Put
  <1>2. thread'[Call] = Idle
    BY <1>1, Bounds, IdleFits, ThreadTakes DEF Put, IInv
  <1>3. workflow \in WorkflowState /\ workflow.pc \in {"propose", "apply", "continue"}
    BY WorkflowTyped DEF IInv, Flow, At
  <1>4. MoveOn \in WorkflowState /\ MoveOn.pc \in {"continue", "done"}
    BY <1>3, WorkflowMoves
  <1>5. \/ workflow' = [workflow EXCEPT !.pc = "wait", !.id = i, !.attempt = 1]
        \/ workflow' = MoveOn
    BY DEF Answer
  <1>6. /\ workflow' \in WorkflowState
        /\ workflow'.pc \in {"wait", "apply"} => workflow'.id = i
    <2>1. CASE workflow' = [workflow EXCEPT !.pc = "wait", !.id = i, !.attempt = 1]
      BY <1>3, <2>1 DEF WorkflowState
    <2>2. CASE workflow' = MoveOn
      BY <1>4, <2>2
    <2>3. QED
      BY <1>5, <2>1, <2>2
  <1>7. Flow'
    BY <1>2, <1>6, IdleFits DEF Flow, At
  <1>8. project' \in ProjectStatus /\ project' \in {project, "waiting_for_founder"}
    <2>1. "waiting_for_founder" \in ProjectStatus
      BY DEF ProjectStatus
    <2>2. CASE p.status = "awaiting_human"
      BY <2>1, <2>2, Advances DEF Answer, IInv
    <2>3. CASE p.status # "awaiting_human"
      BY <2>3 DEF Answer, IInv, TypeOK
    <2>4. QED
      BY <2>2, <2>3
  <1>9. QED
    BY <1>1, <1>6, <1>7, <1>8

LEMMA ProposalsAreNumbered ==
    ASSUME TypeOK
    PROVE  /\ proposals \in Seq(ProposalState)
           /\ DOMAIN proposals = 1..Len(proposals) /\ Len(proposals) \in Nat
           /\ OpenProposals \in SUBSET (1..Len(proposals))
           /\ OpenProposals # {} => Latest(OpenProposals) \in DOMAIN proposals
  <1>1. proposals \in Seq(ProposalState)
    BY DEF TypeOK, ProposalState
  <1>2. DOMAIN proposals = 1..Len(proposals) /\ Len(proposals) \in Nat
    BY <1>1
  <1>3. OpenProposals \in SUBSET (1..Len(proposals))
    BY <1>2 DEF OpenProposals, Positions
  <1>4. OpenProposals # {} => Latest(OpenProposals) \in DOMAIN proposals
    <2>1. /\ Latest(OpenProposals) \in Nat /\ (Latest(OpenProposals) = 0 <=> OpenProposals = {})
          /\ Latest(OpenProposals) > 0 => Latest(OpenProposals) \in OpenProposals
      BY <1>2, <1>3, LatestIsOne
    <2> DEFINE l == Latest(OpenProposals)
    <2>2. OpenProposals # {} => l \in OpenProposals
      BY <2>1
    <2> HIDE DEF l
    <2>3. QED
      BY <1>2, <1>3, <2>2 DEF l
  <1>5. QED
    BY <1>1, <1>2, <1>3, <1>4

LEMMA FindKeeps ==
    ASSUME IInv, Find
    PROVE  IInv'
  <1> DEFINE i == Latest(OpenProposals)
  <1>1. /\ thread[Call].pc = "find" /\ Call \in Thread /\ thread[Call] \in ThreadState
        /\ Fits(Call, thread[Call])
    BY Bounds, RowsTyped DEF Find, At, IInv
  <1>2. UNCHANGED Others /\ UNCHANGED <<proposals, Aside>> /\ granted' = granted /\ built' = built
        /\ UNCHANGED Tables
    BY DEF Find, history, Others, Aside, Tables
  <1>3. CASE OpenProposals = {}
    <2> DEFINE r == [thread[Call] EXCEPT !.pc = "insert"]
    <2>1. Put(Call, r) /\ UNCHANGED <<project, workflow>>
      BY <1>1, <1>3, GoPuts DEF Find, IInv
    <2>2. r \in ThreadState /\ r.pc = "insert" /\ r.heads = thread[Call].heads
      BY <1>1 DEF ThreadState, Proposing
    <2> HIDE DEF r
    <2>3. Fits(Call, r)
      BY <1>1, <2>2 DEF Fits, Building, Proposing
    <2>4. QED
      BY <1>1, <1>2, <2>1, <2>2, <2>3, GoesKeeps DEF Continuing
  <1>4. CASE OpenProposals # {}
    <2>1. i \in DOMAIN proposals /\ i \in Nat
      BY <1>4, ProposalsAreNumbered DEF IInv
    <2>2. proposals[i] \in ProposalState
      BY <2>1, RowsTyped DEF IInv
    <2>3. CASE proposals[i].status = "draft" /\ proposals[i].heads = 0 /\ ~ proposals[i].human
      <3> DEFINE r == [thread[Call] EXCEPT !.pc = "fill", !.id = i, !.version = proposals[i].version]
      <3>1. Put(Call, r) /\ UNCHANGED <<project, workflow>>
        BY <1>4, <2>3 DEF Find
      <3>2. proposals[i].version \in Nat
        BY <2>2 DEF ProposalState
      <3> HIDE DEF i
      <3>3. /\ r \in ThreadState /\ r.pc = "fill" /\ r.heads = thread[Call].heads
            /\ r.id = i /\ r.version = proposals[i].version
        BY <1>1, <2>1, <3>2 DEF ThreadState, Proposing
      <3> HIDE DEF r
      <3>4. Fits(Call, r)
        BY <1>1, <2>1, <2>3, <3>2, <3>3 DEF Fits, Building, Proposing, Meant
      <3>5. QED
        BY <1>1, <1>2, <3>1, <3>3, <3>4, GoesKeeps DEF Continuing
    <2>4. CASE ~ (proposals[i].status = "draft" /\ proposals[i].heads = 0 /\ ~ proposals[i].human)
      <3>1. Answer(i, proposals[i])
        BY <1>4, <2>4 DEF Find
      <3>2. /\ Put(Call, Idle) /\ workflow' \in WorkflowState /\ Flow'
            /\ project' \in ProjectStatus /\ project' \in {project, "waiting_for_founder"}
        BY <1>1, <1>2, <2>1, <3>1, AnswerEnds
      <3>3. TypeOK'
        <4>1. thread' \in [Thread -> ThreadState]
          BY <1>1, <3>2, IdleFits, ThreadTakes DEF Put, IInv
        <4>2. /\ analysis' \in 0..MaxHeads
              /\ signals' \subseteq (DOMAIN proposals) \X {"confirmed", "cancelled"}
              /\ built' \in 0..MaxHeads /\ shrunk' \in BOOLEAN
              /\ acts' \in 0..MaxActs /\ upsets' \in 0..MaxUpsets /\ TypeOK
          BY <1>2 DEF Aside, counts, IInv, TypeOK
        <4>3. QED
          BY <1>2, <3>2, <4>1, <4>2, QuietTyped
      <3>4. Idle \in ThreadState /\ Idle.pc = "idle" /\ Fits(Call, Idle) /\ "idle" \notin Continuing
        BY IdleFits DEF Continuing
      <3> HIDE DEF Idle
      <3>5. project' = "executing" => project = "executing"
        BY <3>2
      <3>6. QED
        BY <1>1, <1>2, <3>2, <3>3, <3>4, <3>5, QuietKeeps
    <2>5. QED
      BY <2>3, <2>4
  <1>5. QED
    BY <1>3, <1>4

LEMMA ProposedIsTyped ==
    ASSUME NEW s \in {"draft", "awaiting_human"}, NEW n \in 0..MaxHeads
    PROVE  /\ Proposed(s, n, FALSE) \in ProposalState
           /\ Proposed(s, n, FALSE).status = s
  BY DEF Proposed, ProposalState, OpenStatuses, Editable

LEMMA InsertKeeps ==
    ASSUME IInv, Insert
    PROVE  IInv'
  <1> DEFINE p == Proposed("awaiting_human", thread[Call].heads, FALSE)
             i == Len(proposals) + 1
  <1>1. /\ thread[Call].pc = "insert" /\ Call \in Thread /\ thread[Call] \in ThreadState
    BY Bounds, RowsTyped DEF Insert, At, IInv
  <1>2. UNCHANGED Others /\ granted' = granted /\ built' = built /\ UNCHANGED Aside
        /\ approvals' = approvals /\ goals' = goals
    BY DEF Insert, history, Others, Aside
  <1>3. CASE OpenProposals = {}
    <2>1. proposals' = Append(proposals, p) /\ Answer(i, p)
      BY <1>3 DEF Insert
    <2>2. p \in ProposalState /\ p.status \notin {"confirmed", "applied"}
      <3>1. thread[Call].heads \in 0..MaxHeads
        BY <1>1 DEF ThreadState
      <3>2. p \in ProposalState /\ p.status = "awaiting_human"
        BY <3>1, ProposedIsTyped
      <3>3. QED
        BY <3>2
    <2> HIDE DEF p
    <2>3. /\ proposals' \in Seq(ProposalState)
          /\ DOMAIN proposals' = DOMAIN proposals \cup {Len(proposals) + 1}
          /\ Plans' /\ RowsGoOn(Call)
      BY <1>2, <2>1, <2>2, RowIsProposed
    <2>4. DOMAIN proposals \subseteq DOMAIN proposals' /\ i \in DOMAIN proposals' /\ i \in Nat
      BY <2>3, ProposalsAreNumbered DEF IInv
    <2>5. /\ Put(Call, Idle) /\ workflow' \in WorkflowState /\ Flow'
          /\ project' \in ProjectStatus /\ project' \in {project, "waiting_for_founder"}
      BY <1>1, <2>1, <2>4, AnswerEnds
    <2>6. /\ Idle \in ThreadState /\ Idle.pc = "idle" /\ Fits(Call, Idle)' /\ "idle" \notin Continuing
          /\ thread[Call].pc # "groom"
      BY <1>1, IdleFits DEF Continuing
    <2> HIDE DEF Idle
    <2>7. /\ granted \subseteq granted' /\ granted' \subseteq Nat /\ built' \in 0..MaxHeads
          /\ project' = "executing" => project = "executing"
      BY <1>2, <2>5 DEF IInv, TypeOK
    <2>8. QED
      BY <1>1, <1>2, <2>3, <2>4, <2>5, <2>6, <2>7, DecisionKeeps
  <1>4. CASE OpenProposals # {}
    <2>1. Throw(Call) /\ UNCHANGED <<project, proposals>>
      BY <1>4 DEF Insert
    <2>2. UNCHANGED <<Tables, Aside>>
      BY <1>2, <2>1 DEF Others, Tables
    <2>3. QED
      BY <1>1, <2>1, <2>2, EndsKeeps DEF IInv, TypeOK
  <1>5. QED
    BY <1>3, <1>4

LEMMA FillKeeps ==
    ASSUME IInv, Fill
    PROVE  IInv'
  <1> DEFINE i == thread[Call].id
             p == [proposals[i] EXCEPT !.status = "awaiting_human", !.heads = thread[Call].heads]
  <1>1. /\ thread[Call].pc = "fill" /\ Call \in Thread /\ thread[Call] \in ThreadState
        /\ i \in DOMAIN proposals /\ i \in Nat /\ thread[Call].heads > 0
        /\ proposals[i].version = thread[Call].version => ~ Meant(i)
    <2>1. thread[Call].pc = "fill" /\ Call \in Thread /\ thread[Call] \in ThreadState
      BY Bounds, RowsTyped DEF Fill, At, IInv
    <2>2. Fits(Call, thread[Call])
      BY <2>1 DEF IInv
    <2>3. QED
      BY <2>1, <2>2 DEF Fits, Proposing, ThreadState
  <1>2. UNCHANGED Others /\ granted' = granted /\ built' = built /\ UNCHANGED Aside
        /\ approvals' = approvals /\ goals' = goals
    BY DEF Fill, history, Others, Aside
  <1>3. proposals[i] \in ProposalState
    BY <1>1, RowsTyped DEF IInv
  <1>4. /\ Idle \in ThreadState /\ Idle.pc = "idle" /\ Fits(Call, Idle)' /\ "idle" \notin Continuing
        /\ thread[Call].pc # "groom"
    BY <1>1, IdleFits DEF Continuing
  <1>5. ASSUME Answer(i, p), proposals[i].version = thread[Call].version,
               proposals' = [proposals EXCEPT ![i] = p]
        PROVE  IInv'
    <2>1. thread[Call].heads \in 0..MaxHeads
      BY <1>1 DEF ThreadState
    <2>2. /\ p \in ProposalState /\ p.heads > 0 /\ p.status = "awaiting_human"
      BY <1>1, <1>3, <2>1 DEF ProposalState, OpenStatuses, Editable
    <2>3. Answer(i, p) /\ ~ Meant(i)
      BY <1>1, <1>5
    <2>4. proposals' = [proposals EXCEPT ![i] = p]
      BY <1>5
    <2> HIDE DEF p, i
    <2>5. /\ proposals' \in Seq(ProposalState) /\ DOMAIN proposals' = DOMAIN proposals
          /\ Plans' /\ RowsGoOn(Call)
      <3>1. granted \subseteq granted' /\ p.status \notin {"confirmed", "applied"}
        BY <1>2, <2>2
      <3>2. QED
        BY <1>1, <1>2, <2>2, <2>3, <2>4, <3>1, RowIsWritten
    <2>6. /\ Put(Call, Idle) /\ workflow' \in WorkflowState /\ Flow'
          /\ project' \in ProjectStatus /\ project' \in {project, "waiting_for_founder"}
      BY <1>1, <2>3, <2>5, AnswerEnds
    <2> HIDE DEF Idle
    <2>7. /\ granted \subseteq granted' /\ granted' \subseteq Nat /\ built' \in 0..MaxHeads
          /\ project' = "executing" => project = "executing"
      BY <1>2, <2>6 DEF IInv, TypeOK
    <2>8. DOMAIN proposals \subseteq DOMAIN proposals'
      BY <2>5
    <2>9. QED
      BY <1>1, <1>2, <1>4, <2>5, <2>6, <2>7, <2>8, DecisionKeeps
  <1>6. CASE Answer(i, proposals[i]) /\ UNCHANGED proposals
    <2>1. /\ Put(Call, Idle) /\ workflow' \in WorkflowState /\ Flow'
          /\ project' \in ProjectStatus /\ project' \in {project, "waiting_for_founder"}
      BY <1>1, <1>6, AnswerEnds
    <2>2. proposals \in Seq(ProposalState) /\ Plans' /\ RowsGoOn(Call)
      <3>1. Plans'
        BY <1>2, <1>6 DEF IInv, Plans, Meant
      <3>2. RowsGoOn(Call)
        BY <1>2, <1>6 DEF RowsGoOn, Meant
      <3>3. QED
        BY <3>1, <3>2, ProposalsAreNumbered DEF IInv
    <2> HIDE DEF Idle
    <2>3. /\ granted \subseteq granted' /\ granted' \subseteq Nat /\ built' \in 0..MaxHeads
          /\ project' = "executing" => project = "executing"
      BY <1>2, <2>1 DEF IInv, TypeOK
    <2>4. DOMAIN proposals \subseteq DOMAIN proposals' /\ proposals' \in Seq(ProposalState)
      BY <1>6, <2>2
    <2>5. QED
      BY <1>1, <1>2, <1>4, <2>1, <2>2, <2>3, <2>4, DecisionKeeps
  <1>7. CASE Throw(Call) /\ UNCHANGED <<project, proposals>>
    <2>1. UNCHANGED <<Tables, Aside>>
      BY <1>2, <1>7 DEF Others, Tables
    <2>2. QED
      BY <1>1, <1>7, <2>1, EndsKeeps DEF IInv, TypeOK
  <1>8. QED
    BY <1>5, <1>6, <1>7 DEF Fill

-----------------------------------------------------------------------------
(* The workflow, the Founder, and a server that dies                       *)

\* The workflow takes a step of its own while nothing is asked of it.
LEMMA CallRests ==
    ASSUME IInv, thread' = thread, workflow.pc \notin {"propose", "apply", "continue"} \/ At(Call, "idle")
    PROVE  /\ Call \in Thread /\ thread[Call] \in ThreadState /\ Put(Call, thread[Call])
           /\ thread[Call].pc = "idle" /\ Fits(Call, thread[Call])
           /\ thread[Call].pc # "groom" /\ thread[Call].pc \notin Continuing
           /\ thread' \in [Thread -> ThreadState]
           /\ (workflow'.pc \in {"wait", "apply"} => workflow'.id \in DOMAIN proposals') => Flow'
  <1>1. Call \in Thread /\ thread \in [Thread -> ThreadState]
    BY Bounds DEF IInv, TypeOK
  <1>2. thread[Call].pc = "idle"
    BY DEF IInv, Flow, At
  <1>3. Put(Call, thread[Call])
    BY <1>1 DEF Put
  <1>4. Fits(Call, thread[Call])
    BY <1>1 DEF IInv
  <1>5. (workflow'.pc \in {"wait", "apply"} => workflow'.id \in DOMAIN proposals') => Flow'
    BY <1>2 DEF Flow, At
  <1>6. QED
    BY <1>1, <1>2, <1>3, <1>4, <1>5 DEF Continuing

LEMMA OpenDraftKeeps ==
    ASSUME IInv, OpenDraft
    PROVE  IInv'
  <1>1. /\ workflow.pc = "open" /\ workflow' = [workflow EXCEPT !.pc = "analyze"]
        /\ UNCHANGED Others /\ thread' = thread /\ project' = project
        /\ granted' = granted /\ built' = built /\ approvals' = approvals /\ goals' = goals
    BY DEF OpenDraft, Step, history, Others
  <1>2. /\ Call \in Thread /\ thread[Call] \in ThreadState /\ Put(Call, thread[Call])
        /\ thread[Call].pc = "idle" /\ thread[Call].pc # "groom" /\ thread[Call].pc \notin Continuing
        /\ (workflow'.pc \in {"wait", "apply"} => workflow'.id \in DOMAIN proposals') => Flow'
    BY <1>1, CallRests
  <1>3. workflow' \in WorkflowState /\ workflow'.pc = "analyze"
    BY <1>1, WorkflowTyped DEF IInv, WorkflowState
  <1>4. PICK r \in ThreadState : r = thread[Call]
    BY <1>2
  <1>5. /\ proposals' \in Seq(ProposalState) /\ DOMAIN proposals \subseteq DOMAIN proposals'
        /\ Plans' /\ RowsGoOn(Call)
    <2>1. CASE proposals' = Append(proposals, Proposed("draft", 0, FALSE))
      <3> DEFINE p == Proposed("draft", 0, FALSE)
      <3>1. 0 \in 0..MaxHeads
        BY Bounds
      <3>2. p \in ProposalState /\ p.status \notin {"confirmed", "applied"}
        BY <3>1, ProposedIsTyped
      <3> HIDE DEF p
      <3>3. proposals' = Append(proposals, p)
        BY <2>1 DEF p
      <3>4. /\ proposals' \in Seq(ProposalState)
            /\ DOMAIN proposals' = DOMAIN proposals \cup {Len(proposals) + 1}
            /\ Plans' /\ RowsGoOn(Call)
        BY <1>1, <3>2, <3>3, RowIsProposed
      <3>5. QED
        BY <3>4
    <2>2. CASE proposals' = proposals
      <3>1. Plans'
        BY <1>1, <2>2 DEF IInv, Plans, Meant
      <3>2. RowsGoOn(Call)
        BY <1>1, <2>2 DEF RowsGoOn, Meant
      <3>3. QED
        BY <2>2, <3>1, <3>2, ProposalsAreNumbered DEF IInv
    <2>3. QED
      BY <2>1, <2>2 DEF OpenDraft
  <1>6. /\ granted \subseteq granted' /\ granted' \subseteq Nat /\ built' \in 0..MaxHeads
        /\ project' = "executing" => project = "executing"
        /\ project' \in ProjectStatus
    BY <1>1 DEF IInv, TypeOK
  <1>7. Flow'
    BY <1>2, <1>3
  <1>8. Put(Call, r) /\ r.pc = "idle" /\ r.pc \notin Continuing
    BY <1>2, <1>4
  <1>9. Fits(Call, r)'
    BY <1>8 DEF Fits, Building, Proposing
  <1>10. UNCHANGED Others /\ Call \in Thread /\ thread[Call].pc # "groom"
    BY <1>1, <1>2
  <1>11. QED
    BY <1>3, <1>5, <1>6, <1>7, <1>8, <1>9, <1>10, DecisionKeeps

LEMMA WaitingKeeps ==
    ASSUME IInv, UNCHANGED <<Tables, project, signals, counts, built, shrunk>>, thread' = thread,
           workflow.pc \notin {"propose", "apply", "continue"} \/ At(Call, "idle"),
           analysis' \in 0..MaxHeads, workflow' \in WorkflowState,
           workflow'.pc \in {"wait", "apply"} => workflow'.id \in DOMAIN proposals
    PROVE  IInv'
  <1>1. /\ Call \in Thread /\ thread[Call] \in ThreadState /\ Put(Call, thread[Call])
        /\ thread[Call].pc = "idle" /\ thread[Call].pc # "groom" /\ thread[Call].pc \notin Continuing
        /\ Fits(Call, thread[Call]) /\ thread' \in [Thread -> ThreadState]
        /\ (workflow'.pc \in {"wait", "apply"} => workflow'.id \in DOMAIN proposals') => Flow'
    BY CallRests
  <1>2. UNCHANGED Tables /\ proposals' = proposals /\ project' = project
    BY DEF Tables
  <1>3. TypeOK'
    <2>1. /\ project' \in ProjectStatus
          /\ signals' \subseteq (DOMAIN proposals) \X {"confirmed", "cancelled"}
          /\ built' \in 0..MaxHeads /\ shrunk' \in BOOLEAN
          /\ acts' \in 0..MaxActs /\ upsets' \in 0..MaxUpsets /\ TypeOK
      BY DEF counts, IInv, TypeOK
    <2>2. QED
      BY <1>1, <1>2, <2>1, QuietTyped
  <1>4. Flow'
    BY <1>1, <1>2
  <1>5. QED
    BY <1>1, <1>2, <1>3, <1>4, QuietKeeps

LEMMA AnalyzeKeeps ==
    ASSUME IInv, Analyze
    PROVE  IInv'
  <1>1. PICK n \in Needs : /\ workflow' = [workflow EXCEPT !.pc = "propose", !.known = n]
                           /\ analysis' = IF n > 0 THEN n ELSE analysis
    BY DEF Analyze
  <1>2. n \in 0..MaxHeads
    BY Bounds
  <1>3. workflow' \in WorkflowState /\ workflow'.pc = "propose"
    BY <1>1, <1>2, WorkflowTyped DEF IInv, WorkflowState
  <1>4. analysis' \in 0..MaxHeads
    BY <1>1, <1>2 DEF IInv, TypeOK
  <1>5. /\ UNCHANGED <<Tables, project, signals, counts, built, shrunk>> /\ thread' = thread
        /\ workflow.pc \notin {"propose", "apply", "continue"} \/ At(Call, "idle")
    BY DEF Analyze, history, Tables
  <1>6. QED
    BY <1>3, <1>4, <1>5, WaitingKeeps

LEMMA DecidedKeeps ==
    ASSUME IInv, Decided \/ TimeOut
    PROVE  IInv'
  <1>1. /\ workflow.pc = "wait"
        /\ \E pc \in {"apply", "done"} : workflow' = [workflow EXCEPT !.pc = pc]
        /\ thread' = thread
        /\ UNCHANGED <<org, rows, signals, counts, history>>
    BY DEF Decided, TimeOut, Step
  <1>2. workflow.id \in DOMAIN proposals
    BY <1>1 DEF IInv, Flow
  <1>3. workflow' \in WorkflowState /\ workflow'.id = workflow.id
    BY <1>1, WorkflowTyped DEF IInv, WorkflowState
  <1>4. UNCHANGED <<Tables, project, signals, counts, built, shrunk>> /\ analysis' \in 0..MaxHeads
    BY <1>1 DEF rows, history, Tables, IInv, TypeOK
  <1>5. QED
    BY <1>1, <1>2, <1>3, <1>4, WaitingKeeps

\* A request begins.
LEMMA OpensKeeps ==
    ASSUME IInv, NEW t \in Thread, NEW r \in ThreadState, Put(t, r), At(t, "idle"), Fits(t, r),
           UNCHANGED <<Tables, project, analysis, workflow, built, shrunk>>,
           signals' \subseteq (DOMAIN proposals) \X {"confirmed", "cancelled"},
           acts' \in 0..MaxActs, upsets' \in 0..MaxUpsets,
           t = Call => workflow.pc \in {"propose", "apply", "continue"},
           r.pc \notin Continuing
    PROVE  IInv'
  <1>1. UNCHANGED Tables /\ proposals' = proposals /\ project' = project /\ workflow' = workflow
    BY DEF Tables
  <1>2. thread[t].pc # "groom"
    BY DEF At
  <1>3. thread' \in [Thread -> ThreadState]
    BY ThreadTakes DEF IInv, Put
  <1>4. TypeOK'
    <2>1. /\ project' \in ProjectStatus /\ analysis' \in 0..MaxHeads /\ workflow' \in WorkflowState
          /\ built' \in 0..MaxHeads /\ shrunk' \in BOOLEAN /\ TypeOK
      BY <1>1, WorkflowTyped DEF IInv, TypeOK
    <2>2. QED
      BY <1>1, <1>3, <2>1, QuietTyped
  <1>5. Flow'
    BY <1>1, GoesFlow
  <1>6. QED
    BY <1>1, <1>2, <1>4, <1>5, QuietKeeps

LEMMA ProposeKeeps ==
    ASSUME IInv, Propose
    PROVE  IInv'
  <1>1. /\ workflow.pc = "propose" /\ At(Call, "idle") /\ Call \in Thread
        /\ UNCHANGED <<Tables, Aside, project>>
    <2>1. /\ workflow.pc = "propose" /\ At(Call, "idle")
          /\ UNCHANGED <<org, rows, signals, counts, history>>
      BY DEF Propose
    <2>2. QED
      BY <2>1, Untouched, Bounds
  <1>2. PICK n \in Heads : LET plan == IF n > 0 THEN n ELSE workflow.known
                           IN  IF plan = 0
                               THEN workflow' = MoveOn /\ UNCHANGED thread
                               ELSE /\ Put(Call, [Idle EXCEPT !.pc = "find", !.heads = plan])
                                    /\ UNCHANGED workflow
    BY DEF Propose
  <1> DEFINE plan == IF n > 0 THEN n ELSE workflow.known
             r == [Idle EXCEPT !.pc = "find", !.heads = plan]
  <1>3. plan \in 0..MaxHeads /\ workflow \in WorkflowState
    <2>1. workflow \in WorkflowState /\ n \in 0..MaxHeads
      BY WorkflowTyped, Bounds DEF IInv
    <2>2. workflow.known \in 0..MaxHeads
      BY <2>1 DEF WorkflowState
    <2>3. QED
      BY <2>1, <2>2
  <1>4. CASE plan = 0
    <2>1. workflow' = MoveOn /\ thread' = thread
      BY <1>2, <1>4
    <2>2. MoveOn \in WorkflowState /\ MoveOn.pc \in {"continue", "done"}
      BY <1>1, <1>3, WorkflowMoves
    <2>3. /\ UNCHANGED <<Tables, project, signals, counts, built, shrunk>>
          /\ analysis' \in 0..MaxHeads
      BY <1>1 DEF Aside, IInv, TypeOK
    <2>4. /\ workflow' \in WorkflowState
          /\ workflow'.pc \in {"wait", "apply"} => workflow'.id \in DOMAIN proposals
      BY <2>1, <2>2
    <2>5. QED
      BY <1>1, <2>1, <2>3, <2>4, WaitingKeeps
  <1>5. CASE plan # 0
    <2>1. Put(Call, r) /\ UNCHANGED workflow
      BY <1>2, <1>5
    <2>2. plan > 0
      BY <1>3, <1>5, Bounds
    <2> HIDE DEF plan
    <2>3. r \in ThreadState /\ r.pc = "find" /\ r.heads = plan
      <3>1. Idle \in ThreadState
        BY IdleFits
      <3> HIDE DEF Idle
      <3>2. QED
        BY <1>3, <3>1 DEF ThreadState, Proposing
    <2> HIDE DEF r
    <2>4. Fits(Call, r)
      BY <2>2, <2>3 DEF Fits, Building, Proposing
    <2>5. /\ UNCHANGED <<Tables, project, analysis, workflow, built, shrunk>>
          /\ signals' \subseteq (DOMAIN proposals) \X {"confirmed", "cancelled"}
          /\ acts' \in 0..MaxActs /\ upsets' \in 0..MaxUpsets
      BY <1>1, <2>1 DEF Aside, counts, IInv, TypeOK
    <2>6. r.pc \notin Continuing
      BY <2>3 DEF Continuing
    <2>7. QED
      BY <1>1, <2>1, <2>3, <2>4, <2>5, <2>6, OpensKeeps
  <1>6. QED
    BY <1>4, <1>5

LEMMA RequestKeeps ==
    ASSUME IInv, Request
    PROVE  IInv'
  <1>1. /\ workflow.pc \in {"apply", "continue"} /\ At(Call, "idle") /\ Call \in Thread
        /\ UNCHANGED <<Tables, Aside, project>> /\ UNCHANGED workflow
    <2>1. /\ workflow.pc \in {"apply", "continue"} /\ At(Call, "idle") /\ UNCHANGED workflow
          /\ UNCHANGED <<org, rows, signals, counts, history>>
      BY DEF Request
    <2>2. QED
      BY <2>1, Untouched, Bounds
  <1>2. /\ UNCHANGED <<Tables, project, analysis, workflow, built, shrunk>>
        /\ signals' \subseteq (DOMAIN proposals) \X {"confirmed", "cancelled"}
        /\ acts' \in 0..MaxActs /\ upsets' \in 0..MaxUpsets
    BY <1>1 DEF Aside, counts, IInv, TypeOK
  <1>3. workflow.id \in Nat /\ (workflow.pc = "apply" => workflow.id \in DOMAIN proposals)
    BY WorkflowTyped DEF IInv, Flow, WorkflowState
  <1> DEFINE r == IF workflow.pc = "apply"
                  THEN [Idle EXCEPT !.pc = "apply", !.id = workflow.id]
                  ELSE [Idle EXCEPT !.pc = "read"]
  <1>4. /\ r \in ThreadState /\ r.pc \in {"apply", "read"}
        /\ r.pc = "apply" => r.id \in DOMAIN proposals
    <2>1. Idle \in ThreadState
      BY IdleFits
    <2> HIDE DEF Idle
    <2>2. CASE workflow.pc = "apply"
      BY <1>3, <2>1, <2>2 DEF ThreadState, Deciding
    <2>3. CASE workflow.pc # "apply"
      BY <2>1, <2>3 DEF ThreadState
    <2>4. QED
      BY <2>2, <2>3
  <1>5. Put(Call, r)
    BY DEF Request
  <1> HIDE DEF r
  <1>6. Fits(Call, r) /\ r.pc \notin Continuing
    BY <1>4 DEF Fits, Building, Proposing, Continuing
  <1>7. QED
    BY <1>1, <1>2, <1>4, <1>5, <1>6, OpensKeeps

\* The Founder's requests, in places that are free.
LEMMA PlacesAreTabs ==
    ASSUME NEW t \in Free
    PROVE  t \in Thread /\ t # Call /\ t # Hook
  BY Bounds, PlanningAssumption DEF Free, PlanningAssumption

LEMMA DoesCount ==
    ASSUME TypeOK, Does
    PROVE  acts' \in 0..MaxActs /\ upsets' \in 0..MaxUpsets
  <1>1. acts \in 0..MaxActs /\ upsets \in 0..MaxUpsets /\ MaxActs \in Nat
    BY Limits DEF TypeOK
  <1>2. acts < MaxActs /\ acts' = acts + 1 /\ upsets' = upsets
    BY DEF Does
  <1>3. QED
    BY <1>1, <1>2

LEMMA TabOpensKeeps ==
    ASSUME IInv, NEW t \in Free, NEW r \in ThreadState, Opens(t, r), Fits(t, r),
           UNCHANGED <<org, rows, workflow, history>>,
           signals' \subseteq (DOMAIN proposals) \X {"confirmed", "cancelled"},
           r.pc \notin Continuing
    PROVE  IInv'
  <1>1. Put(t, r) /\ At(t, "idle") /\ Does
    BY DEF Opens
  <1>2. acts' \in 0..MaxActs /\ upsets' \in 0..MaxUpsets
    BY <1>1, DoesCount DEF IInv
  <1>3. UNCHANGED <<Tables, project, analysis, workflow, built, shrunk>>
    BY DEF rows, history, Tables
  <1>4. t \in Thread /\ t # Call
    BY PlacesAreTabs
  <1>5. QED
    BY <1>1, <1>2, <1>3, <1>4, OpensKeeps

LEMMA LastIsThere ==
    ASSUME TypeOK, proposals # <<>>
    PROVE  /\ Len(proposals) \in DOMAIN proposals /\ Len(proposals) \in Nat
           /\ Last(proposals) = proposals[Len(proposals)] /\ Last(proposals) \in ProposalState
  <1>1. proposals \in Seq(ProposalState)
    BY ProposalsAreNumbered
  <1>2. Len(proposals) \in DOMAIN proposals /\ Len(proposals) \in Nat
    BY <1>1, EmptySeq
  <1>3. Last(proposals) = proposals[Len(proposals)]
    BY DEF Last
  <1>4. QED
    BY <1>2, <1>3, RowsTyped

LEMMA SignalsStay ==
    ASSUME IInv, signals' = signals
    PROVE  signals' \subseteq (DOMAIN proposals) \X {"confirmed", "cancelled"}
  BY DEF IInv, TypeOK

LEMMA EditKeeps ==
    ASSUME IInv, NEW t \in Free, Edit(t)
    PROVE  IInv'
  <1>1. PICK n \in Heads :
            Opens(t, [Idle EXCEPT !.pc = "edit", !.id = Len(proposals), !.heads = n,
                                  !.version = Last(proposals).version])
    BY DEF Edit
  <1> DEFINE r == [Idle EXCEPT !.pc = "edit", !.id = Len(proposals), !.heads = n,
                               !.version = Last(proposals).version]
  <1>2. proposals # <<>> /\ UNCHANGED <<org, rows, workflow, history>> /\ signals' = signals
    BY DEF Edit
  <1>3. /\ Len(proposals) \in DOMAIN proposals /\ Len(proposals) \in Nat
        /\ Last(proposals) \in ProposalState
    BY <1>2, LastIsThere DEF IInv
  <1>4. n \in 0..MaxHeads /\ Last(proposals).version \in Nat
    BY <1>3, Bounds DEF ProposalState
  <1>5. Idle \in ThreadState
    BY IdleFits
  <1> HIDE DEF Idle
  <1>6. r \in ThreadState /\ r.pc = "edit" /\ r.id = Len(proposals)
    BY <1>3, <1>4, <1>5 DEF ThreadState, Deciding
  <1>7. Opens(t, r)
    BY <1>1
  <1> HIDE DEF r
  <1>8. Fits(t, r) /\ r.pc \notin Continuing
    BY <1>3, <1>6 DEF Fits, Building, Proposing, Continuing
  <1>9. QED
    BY <1>2, <1>6, <1>7, <1>8, SignalsStay, TabOpensKeeps

LEMMA ConfirmKeeps ==
    ASSUME IInv, NEW t \in Free, Confirm(t)
    PROVE  IInv'
  <1>1. PICK pc \in {"signal", "confirm"} :
            /\ Opens(t, [[Idle EXCEPT !.id = Len(proposals)] EXCEPT !.pc = pc])
            /\ pc = "confirm" => Last(proposals).heads > 0
    BY DEF Confirm
  <1> DEFINE r == [[Idle EXCEPT !.id = Len(proposals)] EXCEPT !.pc = pc]
  <1>2. proposals # <<>> /\ UNCHANGED <<org, rows, workflow, history>> /\ signals' = signals
    BY DEF Confirm
  <1>3. /\ Len(proposals) \in DOMAIN proposals /\ Len(proposals) \in Nat
        /\ Last(proposals) = proposals[Len(proposals)]
    BY <1>2, LastIsThere DEF IInv
  <1>4. Idle \in ThreadState
    BY IdleFits
  <1> HIDE DEF Idle
  <1>5. r \in ThreadState /\ r.pc = pc /\ r.id = Len(proposals)
    BY <1>1, <1>3, <1>4 DEF ThreadState, Deciding
  <1>6. Opens(t, r)
    BY <1>1
  <1> HIDE DEF r
  <1>7. Fits(t, r) /\ r.pc \notin Continuing
    BY <1>1, <1>3, <1>5 DEF Fits, Building, Proposing, Continuing, Meant
  <1>8. QED
    BY <1>2, <1>5, <1>6, <1>7, SignalsStay, TabOpensKeeps

LEMMA CancelKeeps ==
    ASSUME IInv, NEW t \in Free, Cancel(t)
    PROVE  IInv'
  <1> DEFINE r == [Idle EXCEPT !.pc = "cancel", !.id = Len(proposals)]
  <1>1. /\ proposals # <<>> /\ UNCHANGED <<org, rows, workflow, history>> /\ Opens(t, r)
        /\ signals' = signals \/ signals' = signals \cup {<<Len(proposals), "cancelled">>}
    BY DEF Cancel
  <1>2. Len(proposals) \in DOMAIN proposals /\ Len(proposals) \in Nat
    BY <1>1, LastIsThere DEF IInv
  <1>3. Idle \in ThreadState
    BY IdleFits
  <1> HIDE DEF Idle
  <1>4. r \in ThreadState /\ r.pc = "cancel" /\ r.id = Len(proposals)
    BY <1>2, <1>3 DEF ThreadState, Deciding
  <1> HIDE DEF r
  <1>5. Fits(t, r) /\ r.pc \notin Continuing
    BY <1>2, <1>4 DEF Fits, Building, Proposing, Continuing
  <1>6. signals' \subseteq (DOMAIN proposals) \X {"confirmed", "cancelled"}
    BY <1>1, <1>2 DEF IInv, TypeOK
  <1>7. QED
    BY <1>1, <1>4, <1>5, <1>6, TabOpensKeeps

LEMMA ContinueKeeps ==
    ASSUME IInv, NEW t \in Free, Continue(t)
    PROVE  IInv'
  <1> DEFINE r == [Idle EXCEPT !.pc = "read"]
  <1>1. UNCHANGED <<org, rows, workflow, history>> /\ signals' = signals /\ Opens(t, r)
    BY DEF Continue
  <1>2. Idle \in ThreadState
    BY IdleFits
  <1> HIDE DEF Idle
  <1>3. r \in ThreadState /\ r.pc = "read"
    BY <1>2 DEF ThreadState
  <1> HIDE DEF r
  <1>4. Fits(t, r) /\ r.pc \notin Continuing
    BY <1>3 DEF Fits, Building, Proposing, Continuing
  <1>5. QED
    BY <1>1, <1>3, <1>4, SignalsStay, TabOpensKeeps

LEMMA SignalKeeps ==
    ASSUME IInv, NEW t \in Thread, Signal(t)
    PROVE  IInv'
  <1>1. /\ thread[t].pc = "signal" /\ thread[t] \in ThreadState /\ thread[t].id \in DOMAIN proposals
        /\ UNCHANGED <<Tables, project, analysis, workflow, built, shrunk, counts>>
    <2>1. /\ thread[t].pc = "signal" /\ thread[t] \in ThreadState /\ Fits(t, thread[t])
      BY RowsTyped DEF Signal, At, IInv
    <2>2. UNCHANGED <<Tables, project, analysis, workflow, built, shrunk, counts>>
      BY DEF Signal, rows, history, Tables
    <2>3. QED
      BY <2>1, <2>2 DEF Fits
  <1>2. PICK r \in {Idle, [thread[t] EXCEPT !.pc = "apply"]} :
            /\ Put(t, r)
            /\ signals' \in {signals, signals \cup {<<thread[t].id, "confirmed">>}}
    BY GoPuts DEF Signal, IInv
  <1>3. Idle \in ThreadState /\ Idle.pc = "idle"
    BY IdleFits
  <1>4. /\ r \in ThreadState /\ r.pc \in {"idle", "apply"}
        /\ r.pc = "apply" => r.id \in DOMAIN proposals
    <2>1. CASE r = Idle
      BY <1>3, <2>1
    <2>2. CASE r = [thread[t] EXCEPT !.pc = "apply"]
      BY <1>1, <2>2 DEF ThreadState, Deciding
    <2>3. QED
      BY <1>2, <2>1, <2>2
  <1>5. Fits(t, r) /\ r.pc \notin Continuing
    BY <1>4 DEF Fits, Building, Proposing, Continuing
  <1>6. TypeOK'
    <2>1. signals' \subseteq (DOMAIN proposals) \X {"confirmed", "cancelled"}
      BY <1>1, <1>2 DEF IInv, TypeOK
    <2>2. thread' \in [Thread -> ThreadState]
      BY <1>2, <1>4, ThreadTakes DEF IInv, Put
    <2>3. /\ project' \in ProjectStatus /\ analysis' \in 0..MaxHeads /\ workflow' \in WorkflowState
          /\ built' \in 0..MaxHeads /\ shrunk' \in BOOLEAN
          /\ acts' \in 0..MaxActs /\ upsets' \in 0..MaxUpsets /\ TypeOK
      BY <1>1, WorkflowTyped DEF counts, IInv, TypeOK
    <2>4. UNCHANGED Tables
      BY <1>1
    <2>5. QED
      BY <2>1, <2>2, <2>3, <2>4, QuietTyped
  <1>7. Flow'
    <2>1. UNCHANGED workflow /\ DOMAIN proposals \subseteq DOMAIN proposals' /\ thread[t].pc # "idle"
      BY <1>1 DEF Tables
    <2>2. QED
      BY <1>2, <1>4, <2>1, GoesFlow
  <1>8. UNCHANGED Tables /\ project' = project /\ thread[t].pc # "groom"
    BY <1>1
  <1>9. QED
    BY <1>2, <1>4, <1>5, <1>6, <1>7, <1>8, QuietKeeps

-----------------------------------------------------------------------------
(* The planning continues                                                  *)

ApprovalState(G) == [goal : G, status : {"pending", "approved", "rejected"}]

LEMMA ApprovalsTyped ==
    ASSUME TypeOK
    PROVE  approvals \in Seq(ApprovalState(DOMAIN goals)) /\ goals \in Seq(GoalState)
  BY DEF TypeOK, ApprovalState, GoalState

LEMMA MoreGoals ==
    ASSUME NEW G, NEW H, G \subseteq H, NEW s \in Seq(ApprovalState(G))
    PROVE  s \in Seq(ApprovalState(H))
  <1>1. ApprovalState(G) \subseteq ApprovalState(H)
    BY DEF ApprovalState
  <1>2. \A i \in DOMAIN s : s[i] \in ApprovalState(H)
    BY <1>1
  <1> HIDE DEF ApprovalState
  <1>3. s \in [1..Len(s) -> ApprovalState(H)] /\ Len(s) \in Nat
    BY <1>2
  <1>4. QED
    BY <1>3

\* A continuation writes to the GOALs and asks for hires.
LEMMA PlanningKeeps ==
    ASSUME IInv, NEW t \in Thread, NEW r \in ThreadState, Put(t, r),
           UNCHANGED <<org, proposals, granted, project, workflow, signals, counts, cut, shrunk, built>>,
           analysis' \in 0..MaxHeads, raced => raced', raced' \in BOOLEAN,
           goals' \in Seq(GoalState), DOMAIN goals \subseteq DOMAIN goals',
           approvals' \in Seq(ApprovalState(DOMAIN goals')),
           \A i \in DOMAIN goals : goals[i].plan # 0 => goals'[i].plan = goals[i].plan,
           \A i \in DOMAIN approvals' : goals'[approvals'[i].goal].plan # 0,
           IsAssigned => IsAssigned', ~ raced' => Len(goals') <= 1 /\ \A i, j \in Pending' : i = j,
           cut \/ raced' \/ \A i \in DOMAIN goals' : goals'[i].status = "DRAFT" =>
                      \E u \in Thread : thread'[u].pc = "groom" /\ thread'[u].id = i,
           Fits(t, r)', thread[t].pc # "idle",
           r.pc \in Continuing => \/ thread[t].pc \in Continuing \/ raced'
                                  \/ \A u \in Thread \ {t} : thread[u].pc \notin Continuing,
           thread[t].pc \in Continuing \/ (goals' = goals /\ Pending' \subseteq Pending)
    PROVE  IInv'
  <1>1. thread' \in [Thread -> ThreadState]
    BY ThreadTakes DEF IInv, Put
  <1>2. TypeOK'
    <2>1. OrgTypeOK' /\ signals' \subseteq (DOMAIN proposals') \X {"confirmed", "cancelled"}
      BY DEF org, IInv, TypeOK, OrgTypeOK
    <2>2. /\ goals' \in Seq([status : {"DRAFT", "PLANNED", "ASSIGNED"}, plan : 0..MaxHeads])
          /\ approvals' \in Seq([goal : DOMAIN goals', status : {"pending", "approved", "rejected"}])
      BY DEF GoalState, ApprovalState
    <2>3. QED
      BY <1>1, <2>1, <2>2 DEF counts, IInv, TypeOK
  <1>3. LinesFormAForest'
    BY DEF org, IInv, LinesFormAForest, Reaches
  <1>4. HasTeam' = HasTeam /\ Staff' = Staff
    BY DEF org, HasTeam, Hired, Staff
  <1>5. Names'
    BY <1>4, NamesStay DEF IInv
  <1>6. \A i : Meant(i)' = Meant(i)
    BY DEF Meant
  <1>7. Plans'
    BY <1>6 DEF IInv, Plans
  <1>8. \A i \in DOMAIN proposals : proposals[i].version \in Nat
    BY RowsTyped DEF IInv, ProposalState
  <1>9. \A u \in Thread \ {t} : GoesOn(u)
    BY <1>4, <1>6, <1>8 DEF GoesOn
  <1>10. Goals'
    BY <1>4 DEF IInv, Goals
  <1>11. Flow'
    BY GoesFlow
  <1>12. QED
    BY <1>2, <1>3, <1>5, <1>7, <1>9, <1>10, <1>11, MoveKeeps

LEMMA RequiredIsPositive ==
    ASSUME TypeOK
    PROVE  Baseline \in 0..MaxHeads /\ Required \in 1..MaxHeads
  <1> DEFINE Settled(p) == p.status \in {"confirmed", "applied"}
             S == Positions(proposals, Settled)
             i == Latest(S)
  <1>1. DOMAIN proposals = 1..Len(proposals) /\ Len(proposals) \in Nat
    BY ProposalsAreNumbered
  <1>2. S \in SUBSET (1..Len(proposals))
    BY <1>1 DEF Positions
  <1>3. Baseline = IF i = 0 THEN 0 ELSE proposals[i].heads
    BY DEF Baseline
  <1> HIDE DEF S
  <1>4. i \in Nat /\ (i # 0 => i \in DOMAIN proposals)
    <2>1. /\ Latest(S) \in Nat /\ (Latest(S) = 0 <=> S = {})
          /\ Latest(S) > 0 => Latest(S) \in S
      BY <1>1, <1>2, LatestIsOne
    <2>2. QED
      BY <1>1, <1>2, <2>1
  <1> HIDE DEF i
  <1>5. i # 0 => proposals[i].heads \in 0..MaxHeads
    BY <1>4, RowsTyped DEF ProposalState
  <1>6. Baseline \in 0..MaxHeads /\ MaxHeads \in Nat \ {0} /\ analysis \in 0..MaxHeads
    BY <1>3, <1>5, Bounds DEF TypeOK
  <1>7. QED
    BY <1>6 DEF Required

LEMMA ReadKeeps ==
    ASSUME IInv, NEW t \in Thread, Read(t)
    PROVE  IInv'
  <1> DEFINE q == [Idle EXCEPT !.pc = "exec", !.heads = Required]
             others == \E u \in Thread \ {t} : thread[u].pc \in Continuing
  <1>1. /\ thread[t].pc = "read" /\ Put(t, q)
        /\ UNCHANGED <<org, proposals, granted, project, workflow, signals, counts, cut, shrunk, built>>
        /\ goals' = goals /\ approvals' = approvals
        /\ analysis' = IF Baseline > 0 THEN analysis ELSE Required
        /\ raced' = (raced \/ others)
    BY DEF Read, At, counts
  <1>2. Required \in 1..MaxHeads /\ analysis \in 0..MaxHeads /\ raced \in BOOLEAN
    BY RequiredIsPositive DEF IInv, TypeOK
  <1>3. analysis' \in 0..MaxHeads
    BY <1>1, <1>2
  <1>4. q \in ThreadState /\ q.pc = "exec" /\ q.heads > 0
    <2>1. Idle \in ThreadState
      BY IdleFits
    <2> HIDE DEF Idle
    <2>2. Required \in 0..MaxHeads /\ Required > 0
      BY <1>2
    <2>3. QED
      BY <2>1, <2>2 DEF ThreadState, Continuing
  <1> HIDE DEF q
  <1>5. PICK r \in ThreadState : r = q
    BY <1>4
  <1>6. Put(t, r) /\ r.pc = "exec" /\ r.heads > 0
    BY <1>1, <1>4, <1>5
  <1>7. Fits(t, r)'
    BY <1>6 DEF Fits, Building, Proposing
  <1>8. /\ goals' \in Seq(GoalState) /\ approvals' \in Seq(ApprovalState(DOMAIN goals'))
        /\ DOMAIN goals \subseteq DOMAIN goals'
    BY <1>1, ApprovalsTyped DEF IInv
  <1>9. raced' \in BOOLEAN /\ (raced => raced') /\ (others => raced')
    BY <1>1, <1>2
  <1>10. /\ (IsAssigned => IsAssigned') /\ Pending' = Pending
         /\ ~ raced' => Len(goals') <= 1 /\ \A i, j \in Pending' : i = j
         /\ \A i \in DOMAIN approvals' : goals'[approvals'[i].goal].plan # 0
    BY <1>1, <1>9 DEF IsAssigned, Pending, IInv, Goals, Plans
  <1>11. cut \/ raced' \/ \A i \in DOMAIN goals' : goals'[i].status = "DRAFT" =>
                      \E u \in Thread : thread'[u].pc = "groom" /\ thread'[u].id = i
    <2>1. \A u \in Thread \ {t} : thread'[u] = thread[u]
      BY <1>6, ThreadTakes DEF IInv, Put
    <2>2. cut \/ raced \/ \A i \in DOMAIN goals : goals[i].status = "DRAFT" =>
                      \E u \in Thread \ {t} : thread[u].pc = "groom" /\ thread[u].id = i
      BY <1>1 DEF IInv, Goals
    <2>3. QED
      BY <1>1, <1>9, <2>1, <2>2
  <1>12. r.pc \in Continuing => \/ thread[t].pc \in Continuing \/ raced'
                                 \/ \A u \in Thread \ {t} : thread[u].pc \notin Continuing
    BY <1>9
  <1>13. \A i \in DOMAIN goals : goals[i].plan # 0 => goals'[i].plan = goals[i].plan
    BY <1>1
  <1>14. thread[t].pc \in Continuing \/ (goals' = goals /\ Pending' \subseteq Pending)
    BY <1>1, <1>10
  <1>15. thread[t].pc # "idle"
    BY <1>1
  <1> HIDE DEF others
  <1>16. QED
    BY <1>1, <1>3, <1>6, <1>7, <1>8, <1>9, <1>10, <1>11, <1>12, <1>13, <1>14, <1>15, PlanningKeeps


LEMMA CreateKeeps ==
    ASSUME IInv, NEW t \in Thread, Create(t)
    PROVE  IInv'
  <1> DEFINE g == [status |-> "DRAFT", plan |-> 0]
             q == [thread[t] EXCEPT !.pc = "groom", !.id = Len(goals) + 1]
  <1>1. /\ thread[t].pc = "create" /\ thread[t] \in ThreadState /\ Fits(t, thread[t])
        /\ goals \in Seq(GoalState) /\ approvals \in Seq(ApprovalState(DOMAIN goals))
    BY RowsTyped, ApprovalsTyped DEF Create, At, IInv
  <1>2. /\ Put(t, q) /\ goals' = Append(goals, g) /\ approvals' = approvals
        /\ analysis' = analysis /\ raced' = raced
        /\ UNCHANGED <<org, proposals, granted, project, workflow, signals, counts, cut, shrunk, built>>
    BY DEF Create, history
  <1>3. g \in GoalState
    BY Bounds DEF GoalState
  <1>4. /\ goals' \in Seq(GoalState) /\ Len(goals') = Len(goals) + 1
        /\ DOMAIN goals' = DOMAIN goals \cup {Len(goals) + 1} /\ Len(goals) + 1 \notin DOMAIN goals
        /\ goals'[Len(goals) + 1] = g /\ \A j \in DOMAIN goals : goals'[j] = goals[j]
    <2> HIDE DEF g
    <2>1. QED
      BY <1>1, <1>2, <1>3, RowIsAdded
  <1>5. Len(goals) \in Nat /\ Len(goals) + 1 \in Nat
    BY <1>1
  <1>6. q \in ThreadState /\ q.pc = "groom" /\ q.id = Len(goals) + 1 /\ q.missing = thread[t].missing
    BY <1>1, <1>5 DEF ThreadState, Continuing
  <1> HIDE DEF q
  <1>7. PICK r \in ThreadState : r = q
    BY <1>6
  <1>8. /\ Put(t, r) /\ r.pc = "groom" /\ r.id = Len(goals) + 1 /\ r.missing = thread[t].missing
        /\ r.pc \in Continuing /\ thread[t].pc \in Continuing /\ thread[t].pc # "idle"
    BY <1>1, <1>2, <1>6, <1>7 DEF Continuing
  <1>9. HasTeam' = HasTeam
    BY <1>2 DEF org, HasTeam, Hired
  <1>10. Fits(t, r)'
    <2>1. r.id \in DOMAIN goals' /\ goals'[r.id].status = "DRAFT" /\ (r.missing = 0 => HasTeam')
      BY <1>1, <1>4, <1>8, <1>9 DEF Fits
    <2>2. QED
      BY <1>8, <2>1 DEF Fits, Building, Proposing
  <1>11. approvals' \in Seq(ApprovalState(DOMAIN goals'))
    <2>1. DOMAIN goals \subseteq DOMAIN goals'
      BY <1>4
    <2>2. QED
      BY <1>1, <1>2, <2>1, MoreGoals
  <1>12. analysis' \in 0..MaxHeads /\ (raced => raced') /\ raced' \in BOOLEAN
    BY <1>2 DEF IInv, TypeOK
  <1>13. \A i \in DOMAIN approvals' : goals'[approvals'[i].goal].plan # 0
    <2>1. \A i \in DOMAIN approvals : approvals[i].goal \in DOMAIN goals
      BY RowsTyped DEF IInv
    <2>2. QED
      BY <1>2, <1>4, <2>1 DEF IInv, Plans
  <1>14. IsAssigned => IsAssigned'
    BY <1>2, <1>4 DEF IsAssigned
  <1>15. ~ raced' => Len(goals') <= 1 /\ \A i, j \in Pending' : i = j
    <2>1. Pending' = Pending /\ (~ raced => Len(goals) = 0)
      BY <1>1, <1>2 DEF Pending, Fits
    <2>2. QED
      BY <1>2, <1>4, <2>1 DEF IInv, Goals
  <1>16. cut \/ raced' \/ \A i \in DOMAIN goals' : goals'[i].status = "DRAFT" =>
                      \E u \in Thread : thread'[u].pc = "groom" /\ thread'[u].id = i
    <2>1. thread'[t] = r /\ \A u \in Thread \ {t} : thread'[u] = thread[u]
      BY <1>8, ThreadTakes DEF IInv, Put
    <2>2. cut \/ raced \/ \A i \in DOMAIN goals : goals[i].status = "DRAFT" =>
                      \E u \in Thread \ {t} : thread[u].pc = "groom" /\ thread[u].id = i
      BY <1>1 DEF IInv, Goals
    <2>3. QED
      BY <1>2, <1>4, <1>8, <2>1, <2>2
  <1>17. \A i \in DOMAIN goals : goals[i].plan # 0 => goals'[i].plan = goals[i].plan
    BY <1>4
  <1>18. DOMAIN goals \subseteq DOMAIN goals'
    BY <1>4
  <1> HIDE DEF g
  <1>19. QED
    BY <1>2, <1>4, <1>8, <1>10, <1>11, <1>12, <1>13, <1>14, <1>15, <1>16, <1>17, <1>18, PlanningKeeps

\* One GOAL is written over, and nothing is lost of what it says.
LEMMA GoalIsWritten ==
    ASSUME IInv, NEW t \in Thread, NEW r \in ThreadState, Put(t, r),
           UNCHANGED <<org, proposals, granted, project, workflow, signals, counts, cut, shrunk, built>>,
           analysis' = analysis, raced' = raced, approvals' = approvals,
           NEW i \in DOMAIN goals, NEW g \in GoalState, goals' = [goals EXCEPT ![i] = g],
           goals[i].plan # 0 => g.plan = goals[i].plan,
           goals[i].status = "ASSIGNED" => g.status = "ASSIGNED" \/ raced,
           g.status = "DRAFT" => goals[i].status = "DRAFT" /\ thread[t].pc # "groom",
           thread[t].pc = "groom" => thread[t].id = i,
           thread[t].pc \in Continuing, Fits(t, r)'
    PROVE  IInv'
  <1>1. /\ goals \in Seq(GoalState) /\ approvals \in Seq(ApprovalState(DOMAIN goals))
    BY ApprovalsTyped DEF IInv
  <1>2. /\ goals' \in Seq(GoalState) /\ Len(goals') = Len(goals) /\ DOMAIN goals' = DOMAIN goals
        /\ goals'[i] = g /\ \A j \in DOMAIN goals \ {i} : goals'[j] = goals[j]
    BY <1>1, RowChanges
  <1>3. approvals' \in Seq(ApprovalState(DOMAIN goals'))
    BY <1>1, <1>2
  <1>4. analysis' \in 0..MaxHeads /\ (raced => raced') /\ raced' \in BOOLEAN
    BY DEF IInv, TypeOK
  <1>5. \A j \in DOMAIN goals : goals[j].plan # 0 => goals'[j].plan = goals[j].plan
    BY <1>2
  <1>6. \A j \in DOMAIN approvals' : goals'[approvals'[j].goal].plan # 0
    <2>1. \A j \in DOMAIN approvals : approvals[j].goal \in DOMAIN goals
      BY RowsTyped DEF IInv
    <2>2. QED
      BY <1>5, <2>1 DEF IInv, Plans
  <1>7. IsAssigned => IsAssigned'
    <2>1. CASE cut \/ raced
      BY <2>1 DEF IsAssigned
    <2>2. ASSUME NEW j \in DOMAIN goals, goals[j].status = "ASSIGNED", ~ raced
          PROVE  IsAssigned'
      BY <1>2, <2>2 DEF IsAssigned
    <2>3. QED
      BY <2>1, <2>2 DEF IsAssigned
  <1>8. ~ raced' => Len(goals') <= 1 /\ \A j, k \in Pending' : j = k
    <2>1. Pending' = Pending
      BY DEF Pending
    <2>2. QED
      BY <1>2, <2>1 DEF IInv, Goals
  <1>9. cut \/ raced' \/ \A j \in DOMAIN goals' : goals'[j].status = "DRAFT" =>
                      \E u \in Thread : thread'[u].pc = "groom" /\ thread'[u].id = j
    <2>1. \A u \in Thread \ {t} : thread'[u] = thread[u]
      BY ThreadTakes DEF IInv, Put
    <2>2. cut \/ raced \/ \A j \in DOMAIN goals : goals[j].status = "DRAFT" =>
                      \E u \in Thread : thread[u].pc = "groom" /\ thread[u].id = j
      BY DEF IInv, Goals
    <2>3. \A j \in DOMAIN goals' : goals'[j].status = "DRAFT" =>
             goals[j].status = "DRAFT" /\ (thread[t].pc = "groom" => thread[t].id # j)
      BY <1>2
    <2>4. QED
      BY <1>2, <2>1, <2>2, <2>3
  <1>10. DOMAIN goals \subseteq DOMAIN goals' /\ thread[t].pc # "idle"
    BY <1>2 DEF Continuing
  <1>11. QED
    BY <1>2, <1>3, <1>4, <1>5, <1>6, <1>7, <1>8, <1>9, <1>10, PlanningKeeps

LEMMA GroomKeeps ==
    ASSUME IInv, NEW t \in Thread, Groom(t)
    PROVE  IInv'
  <1> DEFINE i == thread[t].id
             g == [goals[i] EXCEPT !.status = "PLANNED"]
             q == Routed(t, i, thread[t].boss)
  <1>1. /\ thread[t].pc = "groom" /\ thread[t] \in ThreadState /\ Fits(t, thread[t])
        /\ goals \in Seq(GoalState)
    BY RowsTyped, ApprovalsTyped DEF Groom, At, IInv
  <1>2. /\ Put(t, q) /\ goals' = [goals EXCEPT ![i].status = "PLANNED"] /\ approvals' = approvals
        /\ analysis' = analysis /\ raced' = raced
        /\ UNCHANGED <<org, proposals, granted, project, workflow, signals, counts, cut, shrunk, built>>
    BY DEF Groom, history
  <1>3. /\ i \in DOMAIN goals /\ (thread[t].missing = 0 => HasTeam)
        /\ raced \/ goals[i].status = "DRAFT"
    BY <1>1 DEF Fits
  <1>4. goals[i] \in GoalState /\ thread[t].boss \in Agent \cup {NoAgent}
    BY <1>1, <1>3 DEF ThreadState
  <1>5. /\ g \in GoalState /\ g.status = "PLANNED" /\ g.plan = goals[i].plan
        /\ goals' = [goals EXCEPT ![i] = g]
    BY <1>2, <1>4 DEF GoalState
  <1>6. /\ q \in ThreadState /\ q.pc \in {"ask", "assign"} /\ q.id = i
        /\ q.pc = "assign" => thread[t].missing = 0
        /\ q.missing = thread[t].missing /\ Fits(t, q)
    BY <1>1, <1>3, <1>4, RoutedFits
  <1> HIDE DEF q
  <1>7. PICK r \in ThreadState : r = q
    BY <1>6
  <1>8. /\ Put(t, r) /\ r.pc \in {"ask", "assign"} /\ r.id = i
        /\ r.pc = "assign" => thread[t].missing = 0
        /\ r.pc = "ask" => r.missing > 0
    BY <1>2, <1>6, <1>7 DEF Fits
  <1>9. HasTeam' = HasTeam /\ DOMAIN goals' = DOMAIN goals
    BY <1>2 DEF org, HasTeam, Hired
  <1>10. Fits(t, r)'
    <2>1. r.id \in DOMAIN goals' /\ (r.pc = "assign" => HasTeam')
      BY <1>3, <1>8, <1>9
    <2>2. QED
      BY <1>8, <2>1 DEF Fits, Building, Proposing
  <1>11. PICK h \in GoalState : h = g
    BY <1>5
  <1>12. PICK k \in DOMAIN goals : k = i
    BY <1>3
  <1> HIDE DEF g, i
  <1>13. /\ goals' = [goals EXCEPT ![k] = h] /\ h.status = "PLANNED" /\ h.plan = goals[k].plan
         /\ raced \/ goals[k].status = "DRAFT"
    BY <1>3, <1>5, <1>11, <1>12
  <1>14. thread[t].pc = "groom" => thread[t].id = k
    BY <1>12 DEF i
  <1>15. thread[t].pc \in Continuing
    BY <1>1 DEF Continuing
  <1>16. QED
    BY <1>2, <1>8, <1>10, <1>13, <1>14, <1>15, GoalIsWritten

LEMMA NoteKeeps ==
    ASSUME IInv, NEW t \in Thread, Note(t)
    PROVE  IInv'
  <1> DEFINE i == thread[t].id
             n == IF goals[i].plan = 0 THEN thread[t].missing ELSE goals[i].plan
             g == [goals[i] EXCEPT !.plan = n]
             q == [thread[t] EXCEPT !.pc = "file"]
  <1>1. /\ thread[t].pc = "note" /\ thread[t] \in ThreadState /\ Fits(t, thread[t])
        /\ goals \in Seq(GoalState)
    BY RowsTyped, ApprovalsTyped DEF Note, At, IInv
  <1>2. /\ Go(t, "file") /\ approvals' = approvals
        /\ goals' = [goals EXCEPT ![i].plan = IF @ = 0 THEN thread[t].missing ELSE @]
        /\ analysis' = analysis /\ raced' = raced
        /\ UNCHANGED <<org, proposals, granted, project, workflow, signals, counts, cut, shrunk, built>>
    BY DEF Note, history
  <1>3. /\ i \in DOMAIN goals /\ thread[t].missing > 0 /\ thread[t].missing \in 0..MaxHeads
        /\ raced \/ Pending = {}
    BY <1>1 DEF Fits, ThreadState
  <1>4. goals[i] \in GoalState
    BY <1>1, <1>3
  <1>5. n \in 0..MaxHeads /\ n # 0 /\ (goals[i].plan # 0 => n = goals[i].plan)
    BY <1>3, <1>4 DEF GoalState
  <1>6. goals' = [goals EXCEPT ![i] = g]
    BY <1>2, <1>3, <1>4 DEF GoalState
  <1> HIDE DEF n
  <1>7. g \in GoalState /\ g.plan = n /\ g.status = goals[i].status
    BY <1>4, <1>5 DEF GoalState
  <1>8. Put(t, q)
    BY <1>2, GoPuts DEF IInv
  <1>9. q \in ThreadState /\ q.pc = "file" /\ q.id = i
    BY <1>1 DEF ThreadState, Continuing
  <1> HIDE DEF q
  <1>10. PICK r \in ThreadState : r = q
    BY <1>9
  <1>11. Put(t, r) /\ r.pc = "file" /\ r.id = i
    BY <1>8, <1>9, <1>10
  <1>12. PICK h \in GoalState : h = g
    BY <1>7
  <1>13. PICK k \in DOMAIN goals : k = i
    BY <1>3
  <1> HIDE DEF g, i
  <1>14. /\ goals' = [goals EXCEPT ![k] = h]
         /\ goals[k].status = "ASSIGNED" => h.status = "ASSIGNED"
         /\ h.status = "DRAFT" => goals[k].status = "DRAFT"
         /\ goals[k].plan # 0 => h.plan = goals[k].plan
         /\ h.plan # 0 /\ r.id = k
    BY <1>5, <1>6, <1>7, <1>11, <1>12, <1>13
  <1>15. Fits(t, r)'
    <2>1. /\ DOMAIN goals' = DOMAIN goals /\ goals'[k] = h
      BY <1>1, <1>14
    <2>2. Pending' = Pending
      BY <1>2 DEF Pending
    <2>3. QED
      BY <1>2, <1>3, <1>11, <1>14, <2>1, <2>2 DEF Fits, Building, Proposing
  <1>16. thread[t].pc \in Continuing /\ thread[t].pc # "groom"
    BY <1>1 DEF Continuing
  <1>17. goals[k].status = "ASSIGNED" => h.status = "ASSIGNED" \/ raced
    BY <1>14
  <1>18. h.status = "DRAFT" => goals[k].status = "DRAFT" /\ thread[t].pc # "groom"
    BY <1>14, <1>16
  <1>19. thread[t].pc = "groom" => thread[t].id = k
    BY <1>16
  <1>20. goals[k].plan # 0 => h.plan = goals[k].plan
    BY <1>14
  <1>21. goals' = [goals EXCEPT ![k] = h] /\ Put(t, r)
    BY <1>11, <1>14
  <1>22. QED
    BY <1>2, <1>15, <1>16, <1>17, <1>18, <1>19, <1>20, <1>21, GoalIsWritten

LEMMA AssignKeeps ==
    ASSUME IInv, NEW t \in Thread, Assign(t)
    PROVE  IInv'
  <1> DEFINE i == thread[t].id
             g == IF Assignable(t) THEN [goals[i] EXCEPT !.status = "ASSIGNED"] ELSE goals[i]
             q == [thread[t] EXCEPT !.pc = "start"]
  <1>1. /\ thread[t].pc = "assign" /\ thread[t] \in ThreadState /\ Fits(t, thread[t])
        /\ goals \in Seq(GoalState)
    BY RowsTyped, ApprovalsTyped DEF Assign, At, IInv
  <1>2. /\ Go(t, "start") /\ approvals' = approvals
        /\ goals' = IF Assignable(t) THEN [goals EXCEPT ![i].status = "ASSIGNED"] ELSE goals
        /\ analysis' = analysis /\ raced' = raced
        /\ UNCHANGED <<org, proposals, granted, project, workflow, signals, counts, cut, shrunk, built>>
    BY DEF Assign, history
  <1>3. i \in DOMAIN goals /\ HasTeam
    BY <1>1 DEF Fits
  <1>4. goals[i] \in GoalState
    BY <1>1, <1>3
  <1>5. /\ g \in GoalState /\ g.plan = goals[i].plan
        /\ goals[i].status = "ASSIGNED" => g.status = "ASSIGNED"
        /\ goals[i].status # "DRAFT" => g.status = "ASSIGNED"
        /\ g.status = "DRAFT" => goals[i].status = "DRAFT"
    BY <1>4 DEF GoalState, Assignable
  <1>6. goals' = [goals EXCEPT ![i] = g]
    <2>1. CASE Assignable(t)
      BY <1>2, <1>3, <1>4, <2>1 DEF GoalState
    <2>2. CASE ~ Assignable(t)
      BY <1>1, <1>2, <1>3, <2>2
    <2>3. QED
      BY <2>1, <2>2
  <1>7. Put(t, q)
    BY <1>2, GoPuts DEF IInv
  <1>8. q \in ThreadState /\ q.pc = "start"
    BY <1>1 DEF ThreadState, Continuing
  <1> HIDE DEF q
  <1>9. PICK r \in ThreadState : r = q
    BY <1>8
  <1>10. Put(t, r) /\ r.pc = "start"
    BY <1>7, <1>8, <1>9
  <1>11. PICK h \in GoalState : h = g
    BY <1>5
  <1>12. PICK k \in DOMAIN goals : k = i
    BY <1>3
  <1>13. cut \/ raced \/ goals[i].status # "DRAFT"
    <2> SUFFICES ASSUME ~ cut, ~ raced, goals[i].status = "DRAFT"
                 PROVE  FALSE
      OBVIOUS
    <2>1. PICK u \in Thread : thread[u].pc = "groom"
      BY <1>3 DEF IInv, Goals
    <2>2. u = t
      BY <1>1, <2>1 DEF IInv, Alone, Continuing
    <2>3. QED
      BY <1>1, <2>1, <2>2
  <1> HIDE DEF g, i
  <1>14. /\ goals' = [goals EXCEPT ![k] = h] /\ h.plan = goals[k].plan
         /\ goals[k].status = "ASSIGNED" => h.status = "ASSIGNED"
         /\ h.status = "DRAFT" => goals[k].status = "DRAFT"
         /\ cut \/ raced \/ h.status = "ASSIGNED"
    BY <1>5, <1>6, <1>11, <1>12, <1>13
  <1>15. Fits(t, r)'
    <2>1. DOMAIN goals' = DOMAIN goals /\ goals'[k] = h
      BY <1>1, <1>14
    <2>2. HasTeam' /\ IsAssigned'
      BY <1>2, <1>3, <1>14, <2>1 DEF org, HasTeam, Hired, IsAssigned
    <2>3. QED
      BY <1>10, <2>2 DEF Fits, Building, Proposing
  <1>16. thread[t].pc \in Continuing /\ thread[t].pc # "groom"
    BY <1>1 DEF Continuing
  <1>17. QED
    BY <1>2, <1>10, <1>14, <1>15, <1>16, GoalIsWritten

LEMMA FileKeeps ==
    ASSUME IInv, NEW t \in Thread, File(t)
    PROVE  IInv'
  <1> DEFINE i == thread[t].id
             a == [goal |-> i, status |-> "pending"]
             q == [thread[t] EXCEPT !.pc = "await"]
  <1>1. /\ thread[t].pc = "file" /\ thread[t] \in ThreadState /\ Fits(t, thread[t])
        /\ goals \in Seq(GoalState) /\ approvals \in Seq(ApprovalState(DOMAIN goals))
    BY RowsTyped, ApprovalsTyped DEF File, At, IInv
  <1>2. /\ Go(t, "await") /\ approvals' = Append(approvals, a) /\ goals' = goals
        /\ analysis' = analysis /\ raced' = raced
        /\ UNCHANGED <<org, proposals, granted, project, workflow, signals, counts, cut, shrunk, built>>
    BY DEF File, history
  <1>3. i \in DOMAIN goals /\ goals[i].plan # 0 /\ (raced \/ Pending = {})
    BY <1>1 DEF Fits
  <1>4. Put(t, q)
    BY <1>2, GoPuts DEF IInv
  <1>5. q \in ThreadState /\ q.pc = "await"
    BY <1>1 DEF ThreadState, Continuing
  <1> HIDE DEF q
  <1>6. PICK r \in ThreadState : r = q
    BY <1>5
  <1>7. /\ Put(t, r) /\ r.pc = "await"
        /\ thread[t].pc \in Continuing /\ thread[t].pc # "idle"
    BY <1>1, <1>4, <1>5, <1>6 DEF Continuing
  <1>8. Fits(t, r)'
    BY <1>7 DEF Fits, Building, Proposing
  <1>9. a \in ApprovalState(DOMAIN goals) /\ a.goal = i
    BY <1>3 DEF ApprovalState
  <1>10. /\ approvals' \in Seq(ApprovalState(DOMAIN goals))
         /\ DOMAIN approvals' = DOMAIN approvals \cup {Len(approvals) + 1}
         /\ approvals'[Len(approvals) + 1] = a /\ \A j \in DOMAIN approvals : approvals'[j] = approvals[j]
    <2> HIDE DEF a
    <2>1. QED
      BY <1>1, <1>2, <1>9, RowIsAdded
  <1> HIDE DEF a
  <1>11. \A j \in DOMAIN approvals' : goals'[approvals'[j].goal].plan # 0
    BY <1>2, <1>3, <1>9, <1>10 DEF IInv, Plans
  <1>12. ~ raced' => Len(goals') <= 1 /\ \A j, k \in Pending' : j = k
    <2>1. Pending' \subseteq Pending \cup {Len(approvals) + 1}
      BY <1>10 DEF Pending
    <2>2. QED
      BY <1>2, <1>3, <2>1 DEF IInv, Goals
  <1>13. cut \/ raced' \/ \A j \in DOMAIN goals' : goals'[j].status = "DRAFT" =>
                      \E u \in Thread : thread'[u].pc = "groom" /\ thread'[u].id = j
    <2>1. \A u \in Thread \ {t} : thread'[u] = thread[u]
      BY <1>7, ThreadTakes DEF IInv, Put
    <2>2. cut \/ raced \/ \A j \in DOMAIN goals : goals[j].status = "DRAFT" =>
                      \E u \in Thread \ {t} : thread[u].pc = "groom" /\ thread[u].id = j
      BY <1>1 DEF IInv, Goals
    <2>3. QED
      BY <1>2, <2>1, <2>2
  <1>14. analysis' \in 0..MaxHeads /\ (raced => raced') /\ raced' \in BOOLEAN
    BY <1>2 DEF IInv, TypeOK
  <1>15. IsAssigned => IsAssigned'
    BY <1>2 DEF IsAssigned
  <1>16. /\ goals' \in Seq(GoalState) /\ DOMAIN goals \subseteq DOMAIN goals'
         /\ approvals' \in Seq(ApprovalState(DOMAIN goals'))
    BY <1>1, <1>2, <1>10
  <1>17. \A j \in DOMAIN goals : goals[j].plan # 0 => goals'[j].plan = goals[j].plan
    BY <1>2
  <1>18. QED
    BY <1>2, <1>7, <1>8, <1>11, <1>12, <1>13, <1>14, <1>15, <1>16, <1>17, PlanningKeeps

LEMMA DecideKeeps ==
    ASSUME IInv, Decide
    PROVE  IInv'
  <1>1. PICK i \in DOMAIN approvals, verdict \in {"approved", "rejected"} :
            /\ approvals[i].status = "pending"
            /\ approvals' = [approvals EXCEPT ![i].status = verdict]
            /\ IF verdict = "approved"
               THEN /\ Opens(Hook, [Idle EXCEPT !.pc = "brief", !.id = approvals[i].goal])
                    /\ granted' = granted \cup {goals[approvals[i].goal].plan}
               ELSE Does /\ UNCHANGED <<thread, granted>>
    BY DEF Decide
  <1>2. /\ UNCHANGED <<org, project, analysis, proposals, goals, workflow, signals,
                       raced, cut, built, shrunk>>
        /\ Does /\ Hook \in Thread /\ Call # Hook
    BY <1>1, Bounds, PlanningAssumption DEF Decide, Opens, PlanningAssumption
  <1> DEFINE n == goals[approvals[i].goal].plan
             a == [approvals[i] EXCEPT !.status = verdict]
  <1>3. approvals[i] \in ApprovalState(DOMAIN goals) /\ approvals[i].goal \in DOMAIN goals
    BY RowsTyped DEF IInv, ApprovalState
  <1>4. n # 0 /\ n \in Nat /\ granted \subseteq Nat
    <2>1. goals[approvals[i].goal] \in GoalState
      BY <1>3, RowsTyped DEF IInv
    <2>2. n # 0
      BY DEF IInv, Plans
    <2>3. n \in 0..MaxHeads /\ MaxHeads \in Nat
      BY <2>1, Bounds DEF GoalState
    <2>4. granted \subseteq Nat
      BY DEF IInv, TypeOK
    <2> HIDE DEF n
    <2>5. QED
      BY <2>2, <2>3, <2>4
  <1>5. granted' \in {granted, granted \cup {n}}
    BY <1>1
  <1>6. /\ a \in ApprovalState(DOMAIN goals) /\ a.goal = approvals[i].goal /\ a.status # "pending"
        /\ approvals' = [approvals EXCEPT ![i] = a]
    BY <1>1, <1>3 DEF ApprovalState
  <1>7. /\ approvals' \in Seq(ApprovalState(DOMAIN goals)) /\ DOMAIN approvals' = DOMAIN approvals
        /\ approvals'[i] = a /\ \A j \in DOMAIN approvals \ {i} : approvals'[j] = approvals[j]
    <2>1. approvals \in Seq(ApprovalState(DOMAIN goals))
      BY ApprovalsTyped DEF IInv
    <2> HIDE DEF a
    <2>2. QED
      BY <1>6, <2>1, RowChanges
  <1>8. Pending' \subseteq Pending /\ \A j \in DOMAIN approvals : approvals'[j].goal = approvals[j].goal
    BY <1>6, <1>7 DEF Pending
  <1> HIDE DEF a
  <1>9. /\ granted \subseteq granted' /\ granted' \subseteq Nat
    BY <1>4, <1>5
  <1>10. PICK r \in ThreadState : /\ Put(Hook, r)
                                  /\ \/ r = thread[Hook]
                                     \/ /\ r.pc = "brief" /\ r.id = approvals[i].goal
                                        /\ n \in granted' /\ At(Hook, "idle")
    <2>1. CASE verdict = "approved"
      <3> DEFINE q == [Idle EXCEPT !.pc = "brief", !.id = approvals[i].goal]
      <3>1. Put(Hook, q) /\ At(Hook, "idle") /\ n \in granted'
        BY <1>1, <2>1 DEF Opens
      <3>2. Idle \in ThreadState /\ approvals[i].goal \in Nat
        <4>1. goals \in Seq(GoalState)
          BY ApprovalsTyped DEF IInv
        <4>2. QED
          BY <1>3, <4>1, IdleFits
      <3> HIDE DEF Idle
      <3>3. q \in ThreadState /\ q.pc = "brief" /\ q.id = approvals[i].goal
        BY <3>2 DEF ThreadState, Deciding
      <3> HIDE DEF q
      <3>4. QED
        BY <3>1, <3>3
    <2>2. CASE verdict # "approved"
      <3>1. thread' = thread /\ thread \in [Thread -> ThreadState] /\ thread[Hook] \in ThreadState
        BY <1>1, <1>2, <2>2 DEF IInv, TypeOK
      <3>2. Put(Hook, thread[Hook])
        BY <1>2, <3>1 DEF Put
      <3>3. QED
        BY <3>1, <3>2
    <2>3. QED
      BY <2>1, <2>2
  <1>11. /\ thread' \in [Thread -> ThreadState] /\ thread'[Hook] = r
         /\ \A u \in Thread \ {Hook} : thread'[u] = thread[u]
    BY <1>2, <1>10, ThreadTakes DEF IInv, Put
  <1>12. acts' \in 0..MaxActs /\ upsets' \in 0..MaxUpsets
    BY <1>2, DoesCount DEF IInv
  <1>13. TypeOK'
    <2>1. OrgTypeOK' /\ signals' \subseteq (DOMAIN proposals') \X {"confirmed", "cancelled"}
      BY <1>2 DEF org, IInv, TypeOK, OrgTypeOK
    <2>2. approvals' \in Seq([goal : DOMAIN goals', status : {"pending", "approved", "rejected"}])
      BY <1>2, <1>7 DEF ApprovalState
    <2>3. QED
      BY <1>2, <1>9, <1>11, <1>12, <2>1, <2>2 DEF IInv, TypeOK
  <1>14. LinesFormAForest'
    BY <1>2 DEF org, IInv, LinesFormAForest, Reaches
  <1>15. HasTeam' = HasTeam /\ IsAssigned' = IsAssigned /\ \A j : Meant(j)' = Meant(j)
    BY <1>2 DEF org, HasTeam, Hired, IsAssigned, Meant
  <1>16. Names'
    <2>1. Staff' = Staff
      BY <1>2 DEF org, Staff
    <2>2. QED
      BY <1>9, <2>1, NamesStay DEF IInv
  <1>17. Plans'
    BY <1>2, <1>7, <1>8, <1>9, <1>15 DEF IInv, Plans
  <1>18. \A u \in Thread : GoesOn(u)
    <2>1. \A j \in DOMAIN proposals : proposals[j].version >= proposals[j].version
      BY RowsTyped DEF IInv, ProposalState
    <2>2. proposals' = proposals /\ goals' = goals /\ raced' = raced
      BY <1>2
    <2>3. \A j : Meant(j)' <=> Meant(j)
      BY <2>2 DEF Meant
    <2>4. QED
      BY <1>9, <1>15, <2>1, <2>2, <2>3 DEF GoesOn
  <1>19. Flow'
    <2>1. thread'[Call] = thread[Call]
      BY <1>2, <1>11, Bounds
    <2>2. QED
      BY <1>2, <2>1 DEF IInv, Flow, At
  <1>20. raced' = raced /\ cut' = cut /\ goals' = goals /\ project' = project
    BY <1>2
  <1>21. Goals'
    <2>1. \A u \in Thread : thread[u].pc = "groom" => thread'[u].pc = "groom" /\ thread'[u].id = thread[u].id
      BY <1>10, <1>11 DEF At
    <2>2. QED
      BY <1>8, <1>15, <1>20, <2>1, GoalsStay
  <1>22. Fits(Hook, r)'
    <2>1. CASE r = thread[Hook]
      <3>1. TypeOK /\ Fits(Hook, r) /\ thread'[Hook] = r
        BY <1>2, <1>11, <2>1 DEF IInv
      <3>2. Fits(Hook, thread[Hook])'
        BY <1>2, <1>8, <1>13, <1>18, <1>20, <3>1, FitsStays
      <3>3. QED
        BY <1>11, <3>2
    <2>2. CASE r.pc = "brief" /\ r.id = approvals[i].goal /\ n \in granted'
      BY <1>3, <1>4, <1>20, <2>2 DEF Fits, Building, Proposing
    <2>3. QED
      BY <1>10, <2>1, <2>2
  <1>23. r.pc \in Continuing => thread[Hook].pc \in Continuing
    BY <1>10 DEF Continuing
  <1>24. QED
    BY <1>2, <1>8, <1>10, <1>13, <1>14, <1>16, <1>17, <1>18, <1>19, <1>20, <1>21, <1>22, <1>23, MoveKeeps

LEMMA CrashKeeps ==
    ASSUME IInv, Crash
    PROVE  IInv'
  <1>1. /\ upsets < MaxUpsets /\ upsets' = upsets + 1 /\ acts' = acts
        /\ thread' = [t \in Thread |-> Idle]
        /\ workflow' = IF At(Call, "idle") THEN workflow ELSE Repeat
        /\ cut' = (cut \/ \E t \in Thread : thread[t].pc \in Continuing)
        /\ UNCHANGED <<org, proposals, goals, approvals, project, analysis, signals, granted,
                       raced, built, shrunk>>
    BY DEF Crash, rows
  <1>2. Idle \in ThreadState /\ Idle.pc = "idle"
    BY IdleFits
  <1>3. \A t \in Thread : thread'[t] = Idle
    BY <1>1
  <1>4. thread' \in [Thread -> ThreadState]
    BY <1>1, <1>2
  <1>5. /\ workflow' \in WorkflowState
        /\ workflow'.pc \in {"wait", "apply"} => workflow'.pc = workflow.pc
        /\ workflow'.id = workflow.id
    <2>1. workflow \in WorkflowState
      BY WorkflowTyped DEF IInv
    <2>2. CASE At(Call, "idle")
      BY <1>1, <2>1, <2>2
    <2>3. CASE ~ At(Call, "idle")
      <3>1. workflow.pc \in {"propose", "apply", "continue"}
        BY <2>3 DEF IInv, Flow
      <3>2. /\ Repeat \in WorkflowState
            /\ Repeat.pc = "apply" => workflow.pc = "apply"
            /\ Repeat.id = workflow.id /\ Repeat.pc # "wait"
        BY <2>1, <3>1, WorkflowMoves
      <3>3. QED
        BY <1>1, <2>3, <3>2
    <2>4. QED
      BY <2>2, <2>3
  <1>6. Flow'
    BY <1>1, <1>2, <1>3, <1>5, Bounds DEF IInv, Flow, At
  <1>7. cut' \in BOOLEAN /\ (cut => cut')
    BY <1>1 DEF IInv, TypeOK
  <1>8. upsets' \in 0..MaxUpsets
    <2>1. upsets \in 0..MaxUpsets /\ MaxUpsets \in Nat
      BY Limits DEF IInv, TypeOK
    <2>2. QED
      BY <1>1, <2>1
  <1>9. TypeOK'
    <2>1. workflow' \in [pc : {"open", "analyze", "wait", "done"} \cup DOMAIN Following,
                         known : 0..MaxHeads, id : Nat, attempt : Nat]
      BY <1>5 DEF WorkflowState, Following
    <2>2. OrgTypeOK' /\ signals' \subseteq (DOMAIN proposals') \X {"confirmed", "cancelled"}
      BY <1>1 DEF org, IInv, TypeOK, OrgTypeOK
    <2>3. QED
      BY <1>1, <1>4, <1>7, <1>8, <2>1, <2>2 DEF IInv, TypeOK
  <1>10. LinesFormAForest'
    BY <1>1 DEF org, IInv, LinesFormAForest, Reaches
  <1>11. /\ HasTeam' = HasTeam /\ (IsAssigned => IsAssigned') /\ Staff' = Staff
         /\ Pending' = Pending /\ \A j : Meant(j)' = Meant(j)
    BY <1>1, <1>7 DEF org, HasTeam, Hired, IsAssigned, Meant, Staff, Pending
  <1>12. Names'
    BY <1>1, <1>11, NamesStay DEF IInv
  <1>13. Plans'
    BY <1>1, <1>11 DEF IInv, Plans
  <1>14. Alone'
    BY <1>2, <1>3 DEF Alone, Continuing
  <1>15. Goals'
    <2>1. cut' \/ \A u \in Thread : thread[u].pc = "groom" =>
                        thread'[u].pc = "groom" /\ thread'[u].id = thread[u].id
      BY <1>1 DEF Continuing
    <2>2. raced' = raced /\ goals' = goals /\ project' = project
      BY <1>1
    <2>3. QED
      BY <1>7, <1>11, <2>1, <2>2, GoalsStay
  <1>16. \A t \in Thread : Fits(t, thread[t])'
    <2>1. PICK r \in ThreadState : r = Idle
      BY <1>2
    <2>2. r.pc = "idle" /\ \A t \in Thread : thread'[t] = r
      BY <1>2, <1>3, <2>1
    <2>3. QED
      BY <2>2 DEF Fits, Building, Proposing
  <1>17. QED
    BY <1>6, <1>9, <1>10, <1>12, <1>13, <1>14, <1>15, <1>16 DEF IInv

LEMMA NothingHappens ==
    ASSUME IInv, UNCHANGED vars
    PROVE  IInv'
  <1>1. UNCHANGED <<org, project, analysis, proposals, goals, approvals, workflow, signals, thread,
                    acts, upsets, granted, raced, cut, built, shrunk>>
    BY DEF vars, rows, counts, history
  <1>2. TypeOK' /\ LinesFormAForest'
    BY <1>1 DEF org, IInv, TypeOK, OrgTypeOK, LinesFormAForest, Reaches
  <1>3. Flow' /\ Plans' /\ Names' /\ Alone'
    BY <1>1 DEF org, IInv, Flow, At, Plans, Meant, Names, Staff, Alone
  <1>4. Goals' /\ \A t \in Thread : Fits(t, thread[t])'
    BY <1>1 DEF org, IInv, Goals, Fits, Meant, HasTeam, Hired, IsAssigned, Pending
  <1>5. QED
    BY <1>2, <1>3, <1>4 DEF IInv

LEMMA ServeKeeps ==
    ASSUME IInv, NEW t \in Thread, Serve(t)
    PROVE  IInv'
  <1>1. CASE \/ Apply(t) \/ Brief(t) \/ FindBoss(t) \/ Count(t) \/ FindLead(t)
             \/ HireLead(t) \/ HireMember(t) \/ Mark(t)
    BY <1>1, ApplyKeeps, BriefKeeps, FindBossKeeps, CountKeeps, FindLeadKeeps,
       HireLeadKeeps, HireMemberKeeps, MarkKeeps
  <1>2. CASE \/ Read(t) \/ FindExecutive(t) \/ Shelve(t) \/ Gap(t) \/ Route(t) \/ Create(t)
    BY <1>2, ReadKeeps, FindExecutiveKeeps, ShelveKeeps, GapKeeps, RouteKeeps, CreateKeeps
  <1>3. CASE Groom(t) \/ Ask(t) \/ Note(t) \/ File(t) \/ Await(t) \/ Assign(t) \/ Start(t)
    BY <1>3, GroomKeeps, AskKeeps, NoteKeeps, FileKeeps, AwaitKeeps, AssignKeeps, StartKeeps
  <1>4. CASE WriteEdit(t) \/ WriteConfirm(t) \/ Signal(t) \/ WriteCancel(t)
    BY <1>4, WriteEditKeeps, WriteConfirmKeeps, SignalKeeps, WriteCancelKeeps
  <1>5. CASE Find \/ Insert \/ Fill
    BY <1>5, FindKeeps, InsertKeeps, FillKeeps
  <1>6. QED
    BY <1>1, <1>2, <1>3, <1>4, <1>5 DEF Serve

LEMMA NextKeeps == IInv /\ [Next]_vars => IInv'
  <1> SUFFICES ASSUME IInv, [Next]_vars
               PROVE  IInv'
    OBVIOUS
  <1>1. CASE Run
    BY <1>1, OpenDraftKeeps, AnalyzeKeeps, ProposeKeeps, DecidedKeeps, RequestKeeps DEF Run
  <1>2. ASSUME NEW t \in Thread, Serve(t)
        PROVE  IInv'
    BY <1>2, ServeKeeps
  <1>3. CASE Founder
    <2>1. ASSUME NEW t \in Free, Edit(t) \/ Confirm(t) \/ Cancel(t) \/ Continue(t)
          PROVE  IInv'
      BY <2>1, EditKeeps, ConfirmKeeps, CancelKeeps, ContinueKeeps
    <2>2. QED
      BY <1>3, <2>1, DecideKeeps, ReorganiseKeeps DEF Founder
  <1>4. QED
    BY <1>1, <1>2, <1>3, CrashKeeps, NothingHappens DEF Next

-----------------------------------------------------------------------------
(* The start: a company without a team, or with one a plan has built.      *)

LEMMA StoreysAreAForest ==
    ASSUME NEW team \in StartTeams
    PROVE  Storeys(team) \subseteq Agent \X Agent /\ Forest(Storeys(team))
  <1> DEFINE lines == Storeys(team)
  <1>1. /\ team \subseteq Agent /\ StaffedByPlan(team)
        /\ Team \subseteq Agent /\ Executive \subseteq Agent
        /\ Lead \cap Member = {} /\ Executive \cap Team = {}
    BY PlanningAssumption, OrgAssumption DEF PlanningAssumption, OrgAssumption
  <1>2. \A e \in lines : /\ e \in team \X team /\ e = <<e[1], e[2]>>
                         /\ \/ e[1] \in Member /\ e[2] \in Lead
                            \/ e[1] \in Lead /\ e[2] \in Executive
    BY DEF Storeys
  <1>3. OneManager(lines)
    <2> SUFFICES ASSUME NEW d \in lines, NEW e \in lines, d[1] = e[1]
                 PROVE  d = e
      BY DEF OneManager
    <2>1. {d[2], e[2]} \subseteq Lead \/ {d[2], e[2]} \subseteq Executive
      BY <1>1, <1>2
    <2>2. d[2] = e[2]
      BY <1>1, <1>2, <2>1 DEF StaffedByPlan
    <2>3. QED
      BY <1>2, <2>2
  <1>4. Acyclic(lines)
    <2> SUFFICES ASSUME NEW a \in Agent
                 PROVE  ~ Reaches(lines, a, a)
      BY DEF Acyclic
    <2> DEFINE S == IF a \in Member THEN Lead \cup Executive
                    ELSE IF a \in Lead THEN Executive ELSE {}
    <2>1. S \in SUBSET Agent /\ a \notin S
      BY <1>1 DEF Team
    <2>2. \A e \in lines : e[1] = a \/ e[1] \in S => e[2] \in S
      BY <1>1, <1>2 DEF Team
    <2> HIDE DEF S, lines
    <2>3. QED
      BY <2>1, <2>2 DEF Reaches
  <1>5. lines \subseteq Agent \X Agent
    BY <1>1, <1>2
  <1>6. QED
    BY <1>3, <1>4, <1>5 DEF Forest

LEMMA Starts == Init => IInv
  <1> SUFFICES ASSUME Init
               PROVE  IInv
    OBVIOUS
  <1>1. PICK team \in StartTeams :
            /\ employment = [a \in Agent |-> IF a \in team THEN "active" ELSE "none"]
            /\ reportsTo = Storeys(team)
            /\ manages = {<<e[2], e[1]>> : e \in reportsTo}
            /\ everReported = {e[1] : e \in reportsTo}
            /\ granted = {Cardinality(team \cap Member)}
    BY DEF Init
  <1>2. /\ project = "planning" /\ analysis = 0
        /\ proposals = <<>> /\ goals = <<>> /\ approvals = <<>>
        /\ workflow = [pc |-> "open", known |-> 0, id |-> 0, attempt |-> 1]
        /\ signals = {} /\ thread = [t \in Thread |-> Idle]
        /\ acts = 0 /\ upsets = 0
        /\ raced = FALSE /\ cut = FALSE /\ shrunk = FALSE /\ built = 0
    BY DEF Init
  <1>3. team \subseteq Agent /\ StaffedByPlan(team)
    BY PlanningAssumption DEF PlanningAssumption
  <1>4. reportsTo \subseteq Agent \X Agent /\ Forest(reportsTo)
    BY <1>1, StoreysAreAForest
  <1>5. OrgTypeOK
    <2>1. employment \in [Agent -> Employment]
      BY <1>1 DEF Employment
    <2>2. \A e \in reportsTo : <<e[2], e[1]>> \in Agent \X Agent /\ e[1] \in Agent
      BY <1>4
    <2>3. manages \subseteq Agent \X Agent /\ everReported \subseteq Agent
      BY <1>1, <2>2
    <2>4. QED
      BY <1>4, <2>1, <2>3 DEF OrgTypeOK
  <1>6. LinesFormAForest
    BY <1>4, ForestIsForest
  <1>7. Cardinality(team \cap Member) \in Nat
    BY <1>3, Bounds, FS_Subset, FS_CardinalityType
  <1>8. Idle \in ThreadState /\ Idle.pc = "idle" /\ \A t : Fits(t, Idle)
    BY IdleFits
  <1>9. \A t \in Thread : thread[t] = Idle
    BY <1>2
  <1>10. MaxHeads \in Nat /\ MaxActs \in Nat /\ MaxUpsets \in Nat
    BY Bounds, Limits
  <1>11. TypeOK
    <2>1. project \in ProjectStatus /\ analysis \in 0..MaxHeads /\ built \in 0..MaxHeads
      BY <1>2, <1>10 DEF ProjectStatus
    <2>2. workflow \in [pc : {"open", "analyze", "wait", "done"} \cup DOMAIN Following,
                        known : 0..MaxHeads, id : Nat, attempt : Nat]
      BY <1>2, <1>10
    <2>3. thread \in [Thread -> ThreadState]
      BY <1>2, <1>8
    <2>4. granted \subseteq Nat
      BY <1>1, <1>7
    <2>5. acts \in 0..MaxActs /\ upsets \in 0..MaxUpsets
      BY <1>2, <1>10
    <2>6. /\ proposals \in Seq([status : OpenStatuses \cup {"applied", "cancelled"}, heads : 0..MaxHeads,
                               human : BOOLEAN, version : Nat \ {0}])
          /\ goals \in Seq([status : {"DRAFT", "PLANNED", "ASSIGNED"}, plan : 0..MaxHeads])
          /\ approvals \in Seq([goal : DOMAIN goals, status : {"pending", "approved", "rejected"}])
          /\ signals \subseteq (DOMAIN proposals) \X {"confirmed", "cancelled"}
      BY <1>2
    <2>7. {raced, cut, shrunk} \subseteq BOOLEAN
      BY <1>2
    <2>8. QED
      BY <1>5, <2>1, <2>2, <2>3, <2>4, <2>5, <2>6, <2>7 DEF TypeOK
  <1>12. Names
    <2>1. Staff = team
      BY <1>1, <1>3 DEF Staff
    <2>2. QED
      BY <1>1, <1>3, <2>1 DEF Names, StaffedByPlan
  <1>13. Flow /\ Plans /\ Alone
    BY <1>2, <1>8, <1>9, Bounds DEF Flow, At, Plans, Alone, Continuing
  <1>14. Goals
    BY <1>2 DEF Goals, Pending
  <1>15. QED
    BY <1>6, <1>8, <1>9, <1>11, <1>12, <1>13, <1>14 DEF IInv

-----------------------------------------------------------------------------
(* What holds of every run.                                                *)

THEOREM PlanningHolds == Spec => []IInv
  BY Starts, NextKeeps, PTL DEF Spec

THEOREM PlanningTypeCorrect == Spec => []TypeOK
  <1>1. IInv => TypeOK
    BY DEF IInv
  <1>2. QED
    BY <1>1, PlanningHolds, PTL

\* However hires, moves and departures mix with the building of plans, nobody
\* has two managers and nobody is above himself.
THEOREM PlannedOrgIsAForest == Spec => []LinesFormAForest
  <1>1. IInv => LinesFormAForest
    BY DEF IInv
  <1>2. QED
    BY <1>1, PlanningHolds, PTL

\* A project executes only with a team and an assigned GOAL, unless a server
\* died or another continuation ran while that was created.
THEOREM ExecutionIsReady == Spec => []ExecutingIsReady
  <1>1. IInv => ExecutingIsReady
    BY DEF IInv, Goals, HasTeam, IsAssigned, ExecutingIsReady
  <1>2. QED
    BY <1>1, PlanningHolds, PTL

\* Continuations one after the other file one GOAL and one hire to decide on.
THEOREM OneAtATimeAsksOnce == Spec => []AskedOnceUnlessRaced
  <1>1. ASSUME IInv
        PROVE  AskedOnceUnlessRaced
    <2>1. raced \/ (Len(goals) <= 1 /\ \A i, j \in Pending : i = j)
      BY <1>1 DEF IInv, Goals
    <2>2. ASSUME \A i, j \in Pending : i = j
          PROVE  Cardinality(Pending) <= 1
      <3>1. CASE Pending = {}
        BY <3>1, FS_EmptySet
      <3>2. CASE Pending # {}
        <4>1. PICK i \in Pending : Pending = {i}
          BY <2>2, <3>2
        <4>2. Cardinality({i}) = 1
          BY FS_Singleton
        <4>3. QED
          BY <4>1, <4>2
      <3>3. QED
        BY <3>1, <3>2
    <2>3. QED
      BY <2>1, <2>2 DEF AskedOnceUnlessRaced, Pending
  <1>2. QED
    BY <1>1, PlanningHolds, PTL

\* The team never outgrows every plan the Founder agreed to: its members carry
\* different names, and those go up to the number of one of the plans.
THEOREM GrantsBoundTheTeam == Spec => []HiresAreGranted
  <1>1. ASSUME IInv
        PROVE  HiresAreGranted
    <2> DEFINE M == Member \cap Staff
    <2>1. PICK n \in granted : \A a \in M : NameOf[a] <= n
      BY <1>1 DEF IInv, Names
    <2>2. n \in Nat
      BY <1>1, <2>1 DEF IInv, TypeOK
    <2>3. \A a \in M : NameOf[a] \in 1..n
      <3>1. \A a \in M : NameOf[a] \in 1..MaxHeads /\ MaxHeads \in Nat
        BY Bounds, PlanningAssumption DEF PlanningAssumption
      <3>2. QED
        BY <2>1, <2>2, <3>1
    <2>4. \A a, b \in M : NameOf[a] = NameOf[b] => a = b
      BY <1>1 DEF IInv, Names
    <2>5. IsFiniteSet(1..n) /\ Cardinality(1..n) = n
      BY <2>2, FS_Interval
    <2> DEFINE f == [a \in M |-> NameOf[a]]
    <2> HIDE DEF M
    <2>6. f \in [M -> 1..n] /\ \A a, b \in M : f[a] = f[b] => a = b
      BY <2>3, <2>4
    <2>7. f \in Injection(M, 1..n)
      BY <2>6 DEF Injection, IsInjective
    <2> HIDE DEF f
    <2>8. Cardinality(M) <= n
      BY <2>5, <2>7, FS_Injection
    <2>9. QED
      BY <2>1, <2>8 DEF HiresAreGranted, M
  <1>2. QED
    BY <1>1, PlanningHolds, PTL

-----------------------------------------------------------------------------
(* What the workflow built is enough: the workflow's own request, and the  *)
(* number of those who work in the team.                                   *)

Staffed == Cardinality(Team \cap Active)

\* The workflow waits for the newest proposal and stays with it.
Numbered ==
    /\ workflow.pc = "open" => Len(proposals) = 0
    /\ workflow.pc \in {"analyze", "propose"} => Len(proposals) <= 1
    /\ workflow.pc \in {"wait", "apply"} \/ built > 0 =>
          Len(proposals) > 0 /\ workflow.id = Len(proposals)

Enough ==
    built > 0 => /\ workflow.pc \in {"continue", "done"}
                 /\ ~ shrunk => built <= Staffed

Asking == {"ask", "note", "file", "await"}

\* What the workflow's request does, how far the factory has come, and what
\* the continuation found to be missing.
Runs(r) ==
    /\ r.pc \in {"idle", "apply", "read"} \cup Proposing \cup Building \cup Continuing
    /\ r.pc \in Proposing => workflow.pc = "propose"
    /\ r.pc \in {"apply"} \cup Building => workflow.pc = "apply"
    /\ r.pc \in {"read"} \cup Continuing => workflow.pc = "continue"
    /\ ~ shrunk /\ r.pc \in {"lead", "hire_lead", "hire"} => r.next <= Staffed + 1
    /\ r.pc \in Asking => r.missing > 0
    /\ ~ shrunk /\ r.pc \in {"route", "create", "groom"} \cup Asking /\ r.missing > 0 =>
          r.heads > built

BuiltInv == Numbered /\ Enough /\ Runs(thread[Call])

\* Where the lines of a request divide.
LEMMA Places ==
    ASSUME NEW pc
    PROVE  /\ pc \in Proposing <=> pc \in {"find", "insert", "fill"}
           /\ pc \in Building <=> pc \in {"boss", "count", "lead", "hire_lead", "hire"}
           /\ pc \in Continuing <=>
                 \/ pc \in {"exec", "shelve", "gap", "route", "create", "groom"} \cup Asking
                 \/ pc \in {"assign", "start"}
  BY DEF Proposing, Building, Continuing, Asking

LEMMA StaffedIsCounted ==
    Staffed \in Nat /\ IsFiniteSet(Team \cap Active) /\ IsFiniteSet(Team \cap Active')
  <1>1. IsFiniteSet(Team \cap Active) /\ IsFiniteSet(Team \cap Active')
    BY Bounds, FS_Intersection
  <1>2. QED
    BY <1>1, FS_CardinalityType DEF Staffed

\* Nobody leaves the team unless the organisation shrinks.
LEMMA StaffGrows ==
    ASSUME Active \subseteq Active'
    PROVE  Staffed' \in Nat /\ Staffed <= Staffed'
  <1>1. IsFiniteSet(Team \cap Active')
    BY StaffedIsCounted
  <1>2. Team \cap Active \subseteq Team \cap Active'
    OBVIOUS
  <1>3. Cardinality(Team \cap Active) <= Cardinality(Team \cap Active')
    BY <1>1, <1>2, FS_Subset
  <1>4. Cardinality(Team \cap Active') \in Nat
    BY <1>1, FS_CardinalityType
  <1>5. QED
    BY <1>3, <1>4 DEF Staffed

LEMMA StaffStays ==
    ASSUME UNCHANGED org
    PROVE  Staffed' = Staffed /\ Active' = Active
  BY DEF org, Staffed, Active

\* A hire of the factory is one more.
LEMMA HireCounts ==
    ASSUME TypeOK, NEW a \in Team, NEW m, Hire(a, m, TRUE)
    PROVE  Staffed' = Staffed + 1
  <1>1. employment' = [employment EXCEPT ![a] = "active"] /\ employment[a] = "none"
    BY DEF Hire, MayHire, Hired
  <1>2. employment \in [Agent -> Employment] /\ a \in Agent
    BY PlanningAssumption DEF TypeOK, OrgTypeOK, PlanningAssumption
  <1>3. Active' = Active \cup {a} /\ a \notin Active
    BY <1>1, <1>2 DEF Active
  <1>4. Team \cap Active' = (Team \cap Active) \cup {a} /\ a \notin Team \cap Active
    BY <1>3
  <1>5. IsFiniteSet(Team \cap Active)
    BY StaffedIsCounted
  <1>6. Cardinality((Team \cap Active) \cup {a}) = Cardinality(Team \cap Active) + 1
    BY <1>4, <1>5, FS_AddElement
  <1>7. QED
    BY <1>4, <1>6 DEF Staffed

LEMMA Numbers ==
    ASSUME IInv
    PROVE  /\ Len(proposals) \in Nat /\ DOMAIN proposals = 1..Len(proposals)
           /\ workflow \in WorkflowState /\ built \in Nat /\ shrunk \in BOOLEAN
           /\ Staffed \in Nat
           /\ Call \in Thread /\ thread[Call] \in ThreadState
           /\ thread[Call].heads \in Nat /\ thread[Call].next \in Nat
           /\ thread[Call].missing \in Nat
  <1>1. TypeOK
    BY DEF IInv
  <1>2. Len(proposals) \in Nat /\ DOMAIN proposals = 1..Len(proposals)
    BY <1>1, ProposalsAreNumbered
  <1>3. workflow \in WorkflowState
    BY <1>1, WorkflowTyped
  <1>4. MaxHeads \in Nat /\ Call \in Thread
    BY Bounds
  <1>5. built \in Nat /\ shrunk \in BOOLEAN
    BY <1>1, <1>4 DEF TypeOK
  <1>6. thread[Call] \in ThreadState
    BY <1>1, <1>4 DEF TypeOK
  <1>7. thread[Call].heads \in Nat /\ thread[Call].next \in Nat /\ thread[Call].missing \in Nat
    BY <1>4, <1>6 DEF ThreadState
  <1>8. QED
    BY <1>2, <1>3, <1>4, <1>5, <1>6, <1>7, StaffedIsCounted

\* The request of the workflow does not move, and nobody leaves.
LEMMA BuiltStands ==
    ASSUME IInv, BuiltInv, thread'[Call] = thread[Call],
           UNCHANGED <<workflow, built>>, Len(proposals') = Len(proposals),
           shrunk => shrunk', shrunk' \in BOOLEAN, ~ shrunk' => Active \subseteq Active'
    PROVE  BuiltInv'
  <1>1. /\ Staffed \in Nat /\ built \in Nat /\ thread[Call].next \in Nat
        /\ thread[Call].heads \in Nat /\ shrunk \in BOOLEAN
    BY Numbers
  <1>2. ~ shrunk' => Staffed' \in Nat /\ Staffed <= Staffed'
    BY StaffGrows
  <1>3. Numbered'
    BY DEF BuiltInv, Numbered
  <1>4. Enough'
    BY <1>1, <1>2 DEF BuiltInv, Enough
  <1>5. Runs(thread[Call])'
    BY <1>1, <1>2, Places DEF BuiltInv, Runs
  <1>6. QED
    BY <1>3, <1>4, <1>5 DEF BuiltInv

\* The request of the workflow goes on.
LEMMA BuiltGoesOn ==
    ASSUME IInv, BuiltInv, NEW r \in ThreadState, Put(Call, r),
           UNCHANGED <<org, workflow, built, shrunk>>, Len(proposals') = Len(proposals), Runs(r)
    PROVE  BuiltInv'
  <1>1. thread'[Call] = r
    BY Numbers, ThreadTakes DEF IInv, Put
  <1>2. Staffed' = Staffed
    BY StaffStays
  <1>3. Numbered'
    BY DEF BuiltInv, Numbered
  <1>4. Enough'
    BY <1>2 DEF BuiltInv, Enough
  <1>5. Runs(thread[Call])'
    BY <1>1, <1>2, Places DEF BuiltInv, Runs
  <1>6. QED
    BY <1>3, <1>4, <1>5 DEF BuiltInv

\* An activity that ended or was given up leaves the proposal as it is.
LEMMA WorkflowTurns ==
    ASSUME workflow \in WorkflowState, workflow.pc \in {"propose", "apply", "continue"}
    PROVE  /\ MoveOn.id = workflow.id /\ MoveOn.pc \in {"continue", "done"}
           /\ Repeat.id = workflow.id
           /\ Repeat.pc = workflow.pc \/ Repeat.pc \in {"continue", "done"}
  <1>1. MoveOn.pc \in {"continue", "done"}
    BY WorkflowMoves
  <1>2. MoveOn.id = workflow.id
    BY DEF MoveOn, WorkflowState
  <1>3. Repeat = MoveOn \/ Repeat = [workflow EXCEPT !.attempt = workflow.attempt + 1]
    BY DEF Repeat
  <1>4. QED
    BY <1>1, <1>2, <1>3 DEF WorkflowState

LEMMA IdleRuns ==
    ASSUME thread'[Call].pc = "idle"
    PROVE  Runs(thread[Call])'
  BY DEF Runs, Proposing, Building, Continuing, Asking

\* The request of the workflow ends, or dies with its server.
LEMMA BuiltEnds ==
    ASSUME IInv, BuiltInv, thread'[Call].pc = "idle", workflow' \in {workflow, MoveOn, Repeat},
           workflow' # workflow => thread[Call].pc # "idle",
           UNCHANGED <<org, built, shrunk>>, Len(proposals') = Len(proposals)
    PROVE  BuiltInv'
  <1>1. Staffed' = Staffed
    BY StaffStays
  <1>2. /\ workflow'.id = workflow.id
        /\ workflow'.pc = workflow.pc \/ workflow'.pc \in {"continue", "done"}
    <2>1. CASE workflow' = workflow
      BY <2>1
    <2>2. CASE workflow' # workflow
      <3>1. workflow \in WorkflowState
        BY Numbers
      <3>2. workflow.pc \in {"propose", "apply", "continue"}
        BY <2>2 DEF IInv, Flow, At
      <3>3. /\ MoveOn.id = workflow.id /\ MoveOn.pc \in {"continue", "done"}
            /\ Repeat.id = workflow.id
            /\ Repeat.pc = workflow.pc \/ Repeat.pc \in {"continue", "done"}
        BY <3>1, <3>2, WorkflowTurns
      <3>4. QED
        BY <2>2, <3>3
    <2>3. QED
      BY <2>1, <2>2
  <1>3. Numbered'
    BY <1>2 DEF BuiltInv, Numbered
  <1>4. Enough'
    BY <1>1, <1>2 DEF BuiltInv, Enough
  <1>5. QED
    BY <1>3, <1>4, IdleRuns DEF BuiltInv

\* A step of somebody else's request leaves what the workflow's counts on.
LEMMA OthersRows ==
    ASSUME IInv, NEW t \in Thread, t # Call, Serve(t),
           ~ (HireLead(t) \/ HireMember(t))
    PROVE  /\ thread'[Call] = thread[Call]
           /\ UNCHANGED <<org, workflow, built, shrunk>> /\ Len(proposals') = Len(proposals)
  <1> DEFINE Still == /\ thread'[Call] = thread[Call]
                      /\ UNCHANGED <<org, workflow, built, shrunk>>
                      /\ Len(proposals') = Len(proposals)
  <1>1. ASSUME NEW r, Put(t, r)
        PROVE  thread'[Call] = thread[Call]
    BY <1>1, Bounds DEF Put, IInv, TypeOK
  <1>2. ASSUME NEW pc, Go(t, pc)
        PROVE  thread'[Call] = thread[Call]
    BY <1>2, Bounds DEF Go, IInv, TypeOK
  <1>3. ASSUME Return(t) \/ Throw(t)
        PROVE  thread'[Call] = thread[Call] /\ workflow' = workflow
    BY <1>1, <1>3 DEF Return, Throw
  <1>4. ASSUME NEW i, NEW status, Set(i, status)
        PROVE  Len(proposals') = Len(proposals)
    BY <1>4 DEF Set, IInv, TypeOK
  <1>5. CASE Apply(t) \/ Brief(t) \/ FindBoss(t) \/ Count(t)
    BY <1>1, <1>3, <1>5 DEF Apply, Brief, FindBoss, Count, rows, history
  <1>6. CASE FindLead(t) \/ FindExecutive(t) \/ Gap(t)
    BY <1>1, <1>2, <1>6 DEF FindLead, FindExecutive, Gap, rows, history
  <1>7. CASE Route(t) \/ Ask(t) \/ Signal(t)
    BY <1>1, <1>2, <1>3, <1>7 DEF Route, Ask, Signal, rows, history
  <1>8. CASE Read(t) \/ Create(t) \/ Groom(t)
    BY <1>1, <1>8 DEF Read, Create, Groom, history
  <1>9. CASE Note(t) \/ File(t) \/ Assign(t)
    BY <1>2, <1>9 DEF Note, File, Assign, history
  <1>10. CASE Shelve(t) \/ Await(t) \/ Start(t)
    BY <1>3, <1>10 DEF Shelve, Await, Start, history
  <1>11. CASE Mark(t)
    BY <1>2, <1>3, <1>4, <1>11 DEF Mark, rows, history
  <1>12. CASE WriteEdit(t)
    <2>1. Len(proposals') = Len(proposals)
      BY <1>12 DEF WriteEdit, IInv, TypeOK
    <2>2. QED
      BY <1>1, <1>12, <2>1 DEF WriteEdit
  <1>13. CASE WriteConfirm(t) \/ WriteCancel(t)
    BY <1>1, <1>2, <1>4, <1>13 DEF WriteConfirm, WriteCancel, history
  <1>14. QED
    BY <1>5, <1>6, <1>7, <1>8, <1>9, <1>10, <1>11, <1>12, <1>13 DEF Serve

\* The factory's hires add to the staff.
LEMMA HiringAdds ==
    ASSUME IInv, NEW t \in Thread, NEW pool \in SUBSET Agent, NEW boss, NEW r,
           HireFrom(t, pool, boss, r)
    PROVE  Active \subseteq Active'
  <1>1. CASE UNCHANGED org
    BY <1>1, StaffStays
  <1>2. ASSUME NEW a \in pool, Hire(a, boss, TRUE)
        PROVE  Active \subseteq Active'
    <2>1. employment' = [employment EXCEPT ![a] = "active"]
      BY <1>2 DEF Hire
    <2>2. employment \in [Agent -> Employment]
      BY DEF IInv, TypeOK, OrgTypeOK
    <2>3. QED
      BY <2>1, <2>2 DEF Active
  <1>3. QED
    BY <1>1, <1>2 DEF HireFrom, Fresh

LEMMA OthersKeepBuilt ==
    ASSUME IInv, BuiltInv, NEW t \in Thread, t # Call, Serve(t)
    PROVE  BuiltInv'
  <1>1. CASE ~ (HireLead(t) \/ HireMember(t))
    <2>1. /\ thread'[Call] = thread[Call]
          /\ UNCHANGED <<org, workflow, built, shrunk>> /\ Len(proposals') = Len(proposals)
      BY <1>1, OthersRows
    <2>2. Active' = Active /\ shrunk \in BOOLEAN
      BY <2>1, StaffStays, Numbers
    <2>3. QED
      BY <2>1, <2>2, BuiltStands
  <1>2. ASSUME NEW pool \in SUBSET Agent, NEW boss, NEW r, HireFrom(t, pool, boss, r),
               UNCHANGED <<rows, signals, counts, history>>
        PROVE  BuiltInv'
    <2>1. Active \subseteq Active'
      BY <1>2, HiringAdds
    <2>2. thread'[Call] = thread[Call] /\ UNCHANGED workflow
      BY <1>2, Bounds DEF HireFrom, Throw, Put, IInv, TypeOK
    <2>3. UNCHANGED <<built, shrunk, proposals>> /\ shrunk \in BOOLEAN
      BY <1>2, Numbers DEF rows, history
    <2>4. QED
      BY <2>1, <2>2, <2>3, BuiltStands
  <1>3. CASE HireLead(t)
    <2>1. Lead \in SUBSET Agent
      BY PoolsAreAgents
    <2>2. QED
      BY <1>2, <1>3, <2>1 DEF HireLead
  <1>4. CASE HireMember(t)
    <2>1. {a \in Member : NameOf[a] = thread[t].next} \in SUBSET Agent
      BY PoolsAreAgents
    <2>2. QED
      BY <1>2, <1>4, <2>1 DEF HireMember
  <1>5. QED
    BY <1>1, <1>3, <1>4

\* What the Founder asks, decides and rearranges.
LEMMA FounderKeepsBuilt ==
    ASSUME IInv, BuiltInv, Founder
    PROVE  BuiltInv'
  <1>1. Tab \subseteq Thread \ {Call} /\ Hook \in Thread \ {Call} /\ Call \in Thread
    BY Bounds, PlanningAssumption DEF PlanningAssumption
  <1>2. ASSUME NEW t \in Thread \ {Call}, NEW r, Opens(t, r)
        PROVE  thread'[Call] = thread[Call]
    BY <1>1, <1>2 DEF Opens, Put, IInv, TypeOK
  <1>3. shrunk \in BOOLEAN
    BY Numbers
  <1>4. ASSUME NEW t \in Free, Edit(t) \/ Confirm(t) \/ Cancel(t) \/ Continue(t)
        PROVE  BuiltInv'
    <2>1. t \in Thread \ {Call}
      BY <1>1, <1>4 DEF Free
    <2>2. UNCHANGED <<org, rows, workflow, history>>
      BY <1>4 DEF Edit, Confirm, Cancel, Continue
    <2>3. thread'[Call] = thread[Call]
      BY <1>2, <1>4, <2>1 DEF Edit, Confirm, Cancel, Continue
    <2>4. UNCHANGED <<org, proposals, workflow, built, shrunk>>
      BY <2>2 DEF rows, history
    <2>5. Active' = Active
      BY <2>4, StaffStays
    <2>6. QED
      BY <1>3, <2>3, <2>4, <2>5, BuiltStands
  <1>5. CASE Decide
    <2>1. thread'[Call] = thread[Call]
      BY <1>1, <1>2, <1>5 DEF Decide
    <2>2. UNCHANGED <<org, proposals, workflow, built, shrunk>>
      BY <1>5 DEF Decide
    <2>3. Active' = Active
      BY <2>2, StaffStays
    <2>4. QED
      BY <1>3, <2>1, <2>2, <2>3, BuiltStands
  <1>6. CASE Reorganise
    <2>1. UNCHANGED <<proposals, workflow, thread, built>>
      BY <1>6 DEF Reorganise, rows
    <2>2. shrunk' = (shrunk \/ ~ Active \subseteq Active')
      BY <1>6 DEF Reorganise
    <2>3. QED
      BY <1>3, <2>1, <2>2, BuiltStands
  <1>7. QED
    BY <1>4, <1>5, <1>6 DEF Founder

-----------------------------------------------------------------------------
(* The workflow's own request                                              *)

LEMMA CallIsTyped ==
    ASSUME IInv
    PROVE  /\ Call \in Thread /\ thread[Call] \in ThreadState /\ Fits(Call, thread[Call])
           /\ Call # Hook
  BY Bounds, RowsTyped, PlanningAssumption DEF IInv, PlanningAssumption

LEMMA CallEnds ==
    ASSUME IInv, BuiltInv, thread[Call].pc # "idle", Return(Call) \/ Throw(Call),
           UNCHANGED <<org, built, shrunk>>, Len(proposals') = Len(proposals)
    PROVE  BuiltInv'
  <1>1. thread'[Call].pc = "idle"
    <2>1. Put(Call, Idle)
      BY DEF Return, Throw
    <2>2. QED
      BY <2>1, CallIsTyped, IdleFits, ThreadTakes DEF Put, IInv
  <1>2. workflow' \in {workflow, MoveOn, Repeat}
    BY DEF Return, Throw
  <1>3. QED
    BY <1>1, <1>2, BuiltEnds

LEMMA CallApplies ==
    ASSUME IInv, BuiltInv, Apply(Call)
    PROVE  BuiltInv'
  <1> DEFINE p == proposals[thread[Call].id]
             r == [thread[Call] EXCEPT !.pc = "boss", !.heads = p.heads]
  <1>1. thread[Call].pc = "apply" /\ UNCHANGED <<org, proposals, built, shrunk>>
    BY DEF Apply, At, rows, history
  <1>2. \/ Return(Call) \/ Throw(Call)
        \/ p.status = "confirmed" /\ Put(Call, r) /\ UNCHANGED workflow
    BY DEF Apply
  <1>3. CASE Return(Call) \/ Throw(Call)
    BY <1>1, <1>3, CallEnds
  <1>4. CASE Put(Call, r) /\ UNCHANGED workflow
    <2>1. thread[Call] \in ThreadState /\ thread[Call].id \in DOMAIN proposals
      BY <1>1, CallIsTyped DEF Fits
    <2>2. p \in ProposalState
      BY <2>1, RowsTyped DEF IInv
    <2>3. workflow.pc = "apply"
      BY <1>1 DEF BuiltInv, Runs
    <2> HIDE DEF p
    <2>4. r \in ThreadState /\ r.pc = "boss"
      BY <2>1, <2>2 DEF ThreadState, ProposalState, Building
    <2> HIDE DEF r
    <2>5. Runs(r)
      BY <2>3, <2>4, Places DEF Runs, Asking
    <2>6. QED
      BY <1>1, <1>4, <2>4, <2>5, BuiltGoesOn
  <1>5. QED
    BY <1>2, <1>3, <1>4

LEMMA CallFindsBoss ==
    ASSUME IInv, BuiltInv, FindBoss(Call)
    PROVE  BuiltInv'
  <1> DEFINE r == [thread[Call] EXCEPT !.pc = "count", !.boss = TopExecutive]
  <1>1. /\ thread[Call].pc = "boss" /\ Put(Call, r)
        /\ UNCHANGED <<org, proposals, workflow, built, shrunk>>
    BY DEF FindBoss, At, rows, history
  <1>2. workflow.pc = "apply"
    BY <1>1, Places DEF BuiltInv, Runs
  <1>3. r \in ThreadState /\ r.pc = "count"
    BY CallIsTyped, TopIsNamed DEF ThreadState, Building
  <1> HIDE DEF r
  <1>4. Runs(r)
    BY <1>2, <1>3, Places DEF Runs, Asking
  <1>5. QED
    BY <1>1, <1>3, <1>4, BuiltGoesOn

LEMMA CallCounts ==
    ASSUME IInv, BuiltInv, Count(Call)
    PROVE  BuiltInv'
  <1> DEFINE n == Cardinality(Team \cap Active)
             r == [thread[Call] EXCEPT !.pc = "lead", !.next = n + 1]
  <1>1. /\ thread[Call].pc = "count" /\ Put(Call, r)
        /\ UNCHANGED <<org, proposals, workflow, built, shrunk>>
    BY DEF Count, At, rows, history
  <1>2. workflow.pc = "apply"
    BY <1>1, Places DEF BuiltInv, Runs
  <1>3. n = Staffed /\ n + 1 \in Nat
    BY StaffedIsCounted DEF Staffed
  <1> HIDE DEF n
  <1>4. r \in ThreadState /\ r.pc = "lead" /\ r.next = Staffed + 1
    BY <1>3, CallIsTyped DEF ThreadState, Building
  <1> HIDE DEF r
  <1>5. Runs(r)
    BY <1>2, <1>4, Places, StaffedIsCounted DEF Runs, Asking
  <1>6. QED
    BY <1>1, <1>4, <1>5, BuiltGoesOn

LEMMA CallFindsLead ==
    ASSUME IInv, BuiltInv, FindLead(Call)
    PROVE  BuiltInv'
  <1>1. /\ thread[Call].pc = "lead"
        /\ UNCHANGED <<org, proposals, workflow, built, shrunk>>
    BY DEF FindLead, At, rows, history
  <1>2. workflow.pc = "apply" /\ (~ shrunk => thread[Call].next <= Staffed + 1)
    BY <1>1, Places DEF BuiltInv, Runs
  <1>3. ASSUME NEW r \in ThreadState, Put(Call, r), r.pc \in {"hire_lead", "hire"},
               r.next = thread[Call].next
        PROVE  BuiltInv'
    <2>1. Runs(r)
      BY <1>2, <1>3, Places DEF Runs, Asking
    <2>2. QED
      BY <1>1, <1>3, <2>1, BuiltGoesOn
  <1>4. CASE Go(Call, "hire_lead")
    <2> DEFINE r == [thread[Call] EXCEPT !.pc = "hire_lead"]
    <2>1. Put(Call, r)
      BY <1>4, CallIsTyped, GoPuts DEF IInv
    <2>2. r \in ThreadState /\ r.pc = "hire_lead" /\ r.next = thread[Call].next
      BY CallIsTyped DEF ThreadState, Building
    <2> HIDE DEF r
    <2>3. QED
      BY <1>3, <2>1, <2>2
  <1>5. ASSUME NEW a \in Lead \cap Active,
               Put(Call, [thread[Call] EXCEPT !.pc = "hire", !.lead = a])
        PROVE  BuiltInv'
    <2> DEFINE r == [thread[Call] EXCEPT !.pc = "hire", !.lead = a]
    <2>1. r \in ThreadState /\ r.pc = "hire" /\ r.next = thread[Call].next
      BY CallIsTyped, PoolsAreAgents DEF ThreadState, Building
    <2>2. Put(Call, r)
      BY <1>5
    <2> HIDE DEF r
    <2>3. QED
      BY <1>3, <2>1, <2>2
  <1>6. QED
    BY <1>4, <1>5 DEF FindLead

\* One hire: the number of the next is at most one above those who work there.
LEMMA CallHires ==
    ASSUME IInv, BuiltInv, thread[Call].pc \in {"hire_lead", "hire"},
           NEW pool \in SUBSET Team, NEW boss, NEW r \in ThreadState, r.pc = "hire",
           r.next <= thread[Call].next + 1,
           HireFrom(Call, pool, boss, r), UNCHANGED <<rows, history>>
    PROVE  BuiltInv'
  <1>1. UNCHANGED <<proposals, built, shrunk>>
    BY DEF rows, history
  <1>2. /\ workflow.pc = "apply" /\ (~ shrunk => thread[Call].next <= Staffed + 1)
        /\ thread[Call].pc # "idle"
    BY Places DEF BuiltInv, Runs
  <1>3. CASE Throw(Call) /\ UNCHANGED org
    BY <1>1, <1>2, <1>3, CallEnds
  <1>4. ASSUME NEW a \in pool, Hire(a, boss, TRUE), UNCHANGED workflow,
               Put(Call, IF a \in Lead THEN [r EXCEPT !.lead = a] ELSE r)
        PROVE  BuiltInv'
    <2> DEFINE q == IF a \in Lead THEN [r EXCEPT !.lead = a] ELSE r
    <2>1. q \in ThreadState /\ q.pc = "hire" /\ q.next = r.next
      BY PoolsAreAgents DEF ThreadState
    <2>2. Put(Call, q)
      BY <1>4
    <2> HIDE DEF q
    <2>3. Staffed' = Staffed + 1
      BY <1>4, HireCounts DEF IInv
    <2>4. thread'[Call] = q
      BY <2>1, <2>2, CallIsTyped, ThreadTakes DEF IInv, Put
    <2>5. built = 0 /\ Staffed \in Nat /\ thread[Call].next \in Nat
      BY <1>2, Numbers DEF BuiltInv, Enough
    <2>6. Numbered'
      BY <1>1, <1>4 DEF BuiltInv, Numbered
    <2>7. Enough'
      BY <1>1, <2>5 DEF Enough
    <2>8. q.next \in Nat
      BY <2>1 DEF ThreadState
    <2>9. Runs(thread[Call])'
      BY <1>1, <1>2, <1>4, <2>1, <2>3, <2>4, <2>5, <2>8, Places DEF Runs, Asking
    <2>10. QED
      BY <2>6, <2>7, <2>9 DEF BuiltInv
  <1>5. QED
    BY <1>3, <1>4 DEF HireFrom, Fresh

LEMMA CallHiresLead ==
    ASSUME IInv, BuiltInv, HireLead(Call)
    PROVE  BuiltInv'
  <1> DEFINE r == [thread[Call] EXCEPT !.pc = "hire"]
  <1>1. /\ thread[Call].pc = "hire_lead" /\ HireFrom(Call, Lead, thread[Call].boss, r)
        /\ UNCHANGED <<rows, history>>
    BY DEF HireLead, At
  <1>2. r \in ThreadState /\ r.pc = "hire" /\ r.next = thread[Call].next
    BY CallIsTyped DEF ThreadState, Building
  <1> HIDE DEF r
  <1>3. r.next <= thread[Call].next + 1
    BY <1>2, Numbers
  <1>4. Lead \in SUBSET Team
    BY DEF Team
  <1>5. QED
    BY <1>1, <1>2, <1>3, <1>4, CallHires

LEMMA CallHiresMember ==
    ASSUME IInv, BuiltInv, HireMember(Call)
    PROVE  BuiltInv'
  <1> DEFINE r == [thread[Call] EXCEPT !.next = @ + 1]
             pool == {a \in Member : NameOf[a] = thread[Call].next}
  <1>1. /\ thread[Call].pc = "hire" /\ HireFrom(Call, pool, thread[Call].lead, r)
        /\ UNCHANGED <<rows, history>>
    BY DEF HireMember, At
  <1>2. thread[Call].next + 1 \in Nat
    BY Numbers
  <1>3. r \in ThreadState /\ r.pc = "hire" /\ r.next = thread[Call].next + 1
    BY <1>1, <1>2, CallIsTyped DEF ThreadState, Building
  <1>4. pool \in SUBSET Team
    BY DEF Team
  <1> HIDE DEF r, pool
  <1>5. r.next <= thread[Call].next + 1
    BY <1>2, <1>3
  <1>6. QED
    BY <1>1, <1>3, <1>4, <1>5, CallHires

\* The plan is built: everybody it names works in the team.
LEMMA CallMarks ==
    ASSUME IInv, BuiltInv, Mark(Call)
    PROVE  BuiltInv'
  <1>1. /\ thread[Call].pc = "hire" /\ thread[Call].next > thread[Call].heads
        /\ Set(thread[Call].id, "applied") /\ Return(Call)
        /\ built' = thread[Call].heads /\ UNCHANGED <<org, shrunk>>
    BY CallIsTyped DEF Mark, At
  <1>2. Len(proposals') = Len(proposals)
    BY <1>1 DEF Set, IInv, TypeOK
  <1>3. /\ workflow.pc = "apply" /\ (~ shrunk => thread[Call].next <= Staffed + 1)
    BY <1>1, Places DEF BuiltInv, Runs
  <1>4. workflow' = MoveOn
    BY <1>1 DEF Return
  <1>5. workflow'.id = workflow.id /\ workflow'.pc \in {"continue", "done"}
    BY <1>3, <1>4, WorkflowTurns, Numbers
  <1>6. Staffed' = Staffed
    BY <1>1, StaffStays
  <1>7. Numbered'
    BY <1>2, <1>3, <1>5 DEF BuiltInv, Numbered
  <1>8. Enough'
    BY <1>1, <1>3, <1>5, <1>6, Numbers DEF Enough
  <1>9. thread'[Call].pc = "idle"
    <2>1. Put(Call, Idle)
      BY <1>1 DEF Return
    <2>2. QED
      BY <2>1, CallIsTyped, IdleFits, ThreadTakes DEF Put, IInv
  <1>10. QED
    BY <1>7, <1>8, <1>9, IdleRuns DEF BuiltInv

\* The steps of a continuation that ask for nobody.
LEMMA CallContinues ==
    ASSUME IInv, BuiltInv, NEW r \in ThreadState, Put(Call, r),
           UNCHANGED <<org, proposals, workflow, built, shrunk>>,
           thread[Call].pc \in {"read"} \cup Continuing,
           r.pc \in Continuing,
           r.pc \in Asking => r.missing > 0,
           ~ shrunk /\ r.pc \in {"route", "create", "groom"} \cup Asking /\ r.missing > 0 =>
              r.heads > built
    PROVE  BuiltInv'
  <1>1. workflow.pc = "continue"
    BY DEF BuiltInv, Runs
  <1>2. Runs(r)
    BY <1>1, Places DEF Runs, Asking
  <1>3. QED
    BY <1>2, BuiltGoesOn

\* ... and those that go on with what the continuation found.
LEMMA CallPasses ==
    ASSUME IInv, BuiltInv, NEW r \in ThreadState, Put(Call, r),
           UNCHANGED <<org, proposals, workflow, built, shrunk>>,
           thread[Call].pc \in {"route", "create", "groom"} \cup Asking,
           r.pc \in {"create", "groom", "assign"} \cup Asking,
           r.pc \in Asking => thread[Call].pc \in Asking \/ r.missing > 0,
           r.missing = thread[Call].missing, r.heads = thread[Call].heads
    PROVE  BuiltInv'
  <1>1. /\ thread[Call].pc \in Asking => thread[Call].missing > 0
        /\ ~ shrunk /\ thread[Call].missing > 0 => thread[Call].heads > built
    BY DEF BuiltInv, Runs
  <1>2. /\ thread[Call].pc \in {"read"} \cup Continuing
        /\ r.pc \in Continuing
    BY Places
  <1>3. QED
    BY <1>1, <1>2, CallContinues

LEMMA CallGoes ==
    ASSUME IInv, NEW pc \in {"shelve", "gap", "note", "file", "await", "start"}, Go(Call, pc)
    PROVE  LET r == [thread[Call] EXCEPT !.pc = pc]
           IN  /\ r \in ThreadState /\ Put(Call, r) /\ r.pc = pc
               /\ r.missing = thread[Call].missing /\ r.heads = thread[Call].heads
  <1> DEFINE r == [thread[Call] EXCEPT !.pc = pc]
  <1>1. Put(Call, r)
    BY CallIsTyped, GoPuts DEF IInv
  <1>2. /\ r \in ThreadState /\ r.pc = pc
        /\ r.missing = thread[Call].missing /\ r.heads = thread[Call].heads
    BY CallIsTyped DEF ThreadState, Continuing
  <1>3. QED
    BY <1>1, <1>2

LEMMA CallReads ==
    ASSUME IInv, BuiltInv, Read(Call)
    PROVE  BuiltInv'
  <1> DEFINE q == [Idle EXCEPT !.pc = "exec", !.heads = Required]
  <1>1. /\ thread[Call].pc = "read" /\ Put(Call, q)
        /\ UNCHANGED <<org, proposals, workflow, built, shrunk>>
    BY DEF Read, At
  <1>2. q \in ThreadState /\ q.pc = "exec"
    <2>1. Idle \in ThreadState
      BY IdleFits
    <2>2. Required \in 0..MaxHeads
      BY RequiredIsPositive DEF IInv
    <2> HIDE DEF Idle
    <2>3. QED
      BY <2>1, <2>2 DEF ThreadState, Continuing
  <1> HIDE DEF q
  <1>3. q.pc \in Continuing
    BY <1>2, Places
  <1>4. q.pc \notin {"route", "create", "groom"} \cup Asking
    BY <1>2 DEF Asking
  <1>5. QED
    BY <1>1, <1>2, <1>3, <1>4, CallContinues

LEMMA CallFindsExecutive ==
    ASSUME IInv, BuiltInv, FindExecutive(Call)
    PROVE  BuiltInv'
  <1>1. /\ thread[Call].pc = "exec" /\ UNCHANGED <<org, proposals, workflow, built, shrunk>>
    BY DEF FindExecutive, At, rows, history
  <1>2. PICK pc \in {"shelve", "gap"} : Go(Call, pc)
    BY DEF FindExecutive
  <1> DEFINE r == [thread[Call] EXCEPT !.pc = pc]
  <1>3. r \in ThreadState /\ Put(Call, r) /\ r.pc = pc
    BY <1>2, CallGoes
  <1> HIDE DEF r
  <1>4. thread[Call].pc \in Continuing /\ r.pc \in Continuing
    BY <1>1, <1>2, <1>3, Places
  <1>5. r.pc \notin {"route", "create", "groom"} \cup Asking
    BY <1>2, <1>3 DEF Asking
  <1>6. QED
    BY <1>1, <1>3, <1>4, <1>5, CallContinues

\* Who is missing is missing beside all whom the workflow built.
LEMMA CallFindsGap ==
    ASSUME IInv, BuiltInv, Gap(Call)
    PROVE  BuiltInv'
  <1> DEFINE have == Cardinality(Team \cap Active)
             heads == thread[Call].heads
             gap == IF heads > have THEN heads - have ELSE 0
             r == [thread[Call] EXCEPT !.pc = "route", !.missing = gap]
  <1>1. /\ thread[Call].pc = "gap" /\ Put(Call, r)
        /\ UNCHANGED <<org, proposals, workflow, built, shrunk>>
    BY DEF Gap, At, rows, history
  <1>2. have \in Nat /\ have = Staffed
    BY StaffedIsCounted DEF Staffed
  <1>3. heads \in 0..MaxHeads /\ MaxHeads \in Nat
    BY CallIsTyped, Bounds DEF ThreadState
  <1> HIDE DEF have
  <1>4. gap \in 0..MaxHeads /\ (gap > 0 => heads > Staffed)
    BY <1>2, <1>3
  <1> HIDE DEF gap
  <1>5. r \in ThreadState /\ r.pc = "route" /\ r.missing = gap /\ r.heads = heads
    BY <1>4, CallIsTyped DEF ThreadState, Continuing
  <1> HIDE DEF r
  <1>6. ~ shrunk /\ r.missing > 0 => r.heads > built
    <2>1. ~ shrunk => built <= Staffed
      BY Numbers DEF BuiltInv, Enough
    <2>2. QED
      BY <1>2, <1>3, <1>4, <1>5, <2>1, Numbers
  <1>7. thread[Call].pc \in Continuing /\ r.pc \in Continuing /\ r.pc \notin Asking
    BY <1>1, <1>5, Places DEF Asking
  <1>8. QED
    BY <1>1, <1>5, <1>6, <1>7, CallContinues

LEMMA RoutedCall ==
    ASSUME IInv, NEW i \in Nat, NEW boss \in Agent \cup {NoAgent}
    PROVE  LET r == Routed(Call, i, boss)
           IN  /\ r \in ThreadState /\ r.pc \in {"ask", "assign"}
               /\ r.pc = "ask" => r.missing > 0
               /\ r.missing = thread[Call].missing /\ r.heads = thread[Call].heads
  <1>1. CASE thread[Call].missing > 0
    BY <1>1, CallIsTyped DEF Routed, ThreadState, Continuing
  <1>2. CASE ~ (thread[Call].missing > 0)
    BY <1>2, CallIsTyped DEF Routed, ThreadState, Continuing
  <1>3. QED
    BY <1>1, <1>2

LEMMA CallRouted ==
    ASSUME IInv, BuiltInv, NEW i \in Nat, NEW boss \in Agent \cup {NoAgent},
           Put(Call, Routed(Call, i, boss)),
           UNCHANGED <<org, proposals, workflow, built, shrunk>>,
           thread[Call].pc \in {"route", "groom"}
    PROVE  BuiltInv'
  <1> DEFINE r == Routed(Call, i, boss)
  <1>1. /\ r \in ThreadState /\ r.pc \in {"ask", "assign"} /\ (r.pc = "ask" => r.missing > 0)
        /\ r.missing = thread[Call].missing /\ r.heads = thread[Call].heads
    BY RoutedCall
  <1>2. Put(Call, r)
    OBVIOUS
  <1> HIDE DEF r
  <1>3. r.pc \in {"create", "groom", "assign"} \cup Asking /\ (r.pc \in Asking => r.missing > 0)
    BY <1>1 DEF Asking
  <1>4. QED
    BY <1>1, <1>2, <1>3, CallPasses

LEMMA CallRoutes ==
    ASSUME IInv, BuiltInv, Route(Call)
    PROVE  BuiltInv'
  <1> DEFINE r == [thread[Call] EXCEPT !.pc = "create", !.boss = TopExecutive]
  <1>1. thread[Call].pc = "route" /\ UNCHANGED <<org, proposals, built, shrunk>>
    BY DEF Route, At, rows, history
  <1>2. \/ Throw(Call)
        \/ Found > 0 /\ Put(Call, Routed(Call, Found, TopExecutive)) /\ UNCHANGED workflow
        \/ Put(Call, r) /\ UNCHANGED workflow
    BY DEF Route
  <1>3. CASE Throw(Call)
    BY <1>1, <1>3, CallEnds
  <1>4. CASE Found > 0 /\ Put(Call, Routed(Call, Found, TopExecutive)) /\ UNCHANGED workflow
    <2>1. Found \in Nat /\ TopExecutive \in Agent \cup {NoAgent}
      BY FoundIsThere, TopIsNamed DEF IInv
    <2>2. QED
      BY <1>1, <1>4, <2>1, CallRouted
  <1>5. CASE Put(Call, r) /\ UNCHANGED workflow
    <2>1. /\ r \in ThreadState /\ r.pc = "create"
          /\ r.missing = thread[Call].missing /\ r.heads = thread[Call].heads
      BY CallIsTyped, TopIsNamed DEF ThreadState, Continuing
    <2> HIDE DEF r
    <2>2. r.pc \notin Asking
      BY <2>1 DEF Asking
    <2>3. QED
      BY <1>1, <1>5, <2>1, <2>2, CallPasses
  <1>6. QED
    BY <1>2, <1>3, <1>4, <1>5

LEMMA CallCreates ==
    ASSUME IInv, BuiltInv, Create(Call)
    PROVE  BuiltInv'
  <1> DEFINE n == Len(goals) + 1
             r == [thread[Call] EXCEPT !.pc = "groom", !.id = n]
  <1>1. /\ thread[Call].pc = "create" /\ Put(Call, r)
        /\ UNCHANGED <<org, proposals, workflow, built, shrunk>>
    BY DEF Create, At, history
  <1>2. n \in Nat
    BY DEF IInv, TypeOK
  <1> HIDE DEF n
  <1>3. /\ r \in ThreadState /\ r.pc = "groom"
        /\ r.missing = thread[Call].missing /\ r.heads = thread[Call].heads
    BY <1>2, CallIsTyped DEF ThreadState, Continuing
  <1> HIDE DEF r
  <1>4. r.pc \notin Asking
    BY <1>3 DEF Asking
  <1>5. QED
    BY <1>1, <1>3, <1>4, CallPasses

LEMMA CallGrooms ==
    ASSUME IInv, BuiltInv, Groom(Call)
    PROVE  BuiltInv'
  <1>1. /\ thread[Call].pc = "groom"
        /\ Put(Call, Routed(Call, thread[Call].id, thread[Call].boss))
        /\ UNCHANGED <<org, proposals, workflow, built, shrunk>>
    BY DEF Groom, At, history
  <1>2. thread[Call].id \in Nat /\ thread[Call].boss \in Agent \cup {NoAgent}
    BY CallIsTyped DEF ThreadState
  <1>3. QED
    BY <1>1, <1>2, CallRouted

LEMMA CallAsks ==
    ASSUME IInv, BuiltInv, Ask(Call) \/ Note(Call) \/ File(Call)
    PROVE  BuiltInv'
  <1>1. thread[Call].pc \in {"ask", "note", "file"}
        /\ UNCHANGED <<org, proposals, workflow, built, shrunk>>
    BY DEF Ask, Note, File, At, rows, history
  <1>2. PICK pc \in {"note", "file", "await"} : Go(Call, pc)
    BY DEF Ask, Note, File
  <1> DEFINE r == [thread[Call] EXCEPT !.pc = pc]
  <1>3. /\ r \in ThreadState /\ Put(Call, r) /\ r.pc = pc
        /\ r.missing = thread[Call].missing /\ r.heads = thread[Call].heads
    BY <1>2, CallGoes
  <1> HIDE DEF r
  <1>4. thread[Call].pc \in Asking /\ r.pc \in Asking
    BY <1>1, <1>2, <1>3 DEF Asking
  <1>5. QED
    BY <1>1, <1>3, <1>4, CallPasses

LEMMA CallAssigns ==
    ASSUME IInv, BuiltInv, Assign(Call)
    PROVE  BuiltInv'
  <1>1. /\ thread[Call].pc = "assign" /\ Go(Call, "start")
        /\ UNCHANGED <<org, proposals, workflow, built, shrunk>>
    BY DEF Assign, At, history
  <1> DEFINE r == [thread[Call] EXCEPT !.pc = "start"]
  <1>2. r \in ThreadState /\ Put(Call, r) /\ r.pc = "start"
    BY <1>1, CallGoes
  <1> HIDE DEF r
  <1>3. thread[Call].pc \in Continuing /\ r.pc \in Continuing
    BY <1>1, <1>2, Places
  <1>4. r.pc \notin {"route", "create", "groom"} \cup Asking
    BY <1>2 DEF Asking
  <1>5. QED
    BY <1>1, <1>2, <1>3, <1>4, CallContinues

LEMMA CallIsThrough ==
    ASSUME IInv, BuiltInv, Shelve(Call) \/ Await(Call) \/ Start(Call)
    PROVE  BuiltInv'
  <1>1. /\ thread[Call].pc # "idle" /\ Return(Call)
        /\ UNCHANGED <<org, proposals, built, shrunk>>
    BY DEF Shelve, Await, Start, At, history
  <1>2. QED
    BY <1>1, CallEnds

LEMMA CallAnswers ==
    ASSUME IInv, BuiltInv, NEW i, NEW p, Answer(i, p), thread[Call].pc \in Proposing,
           UNCHANGED <<org, built, shrunk>>, i = Len(proposals'), i \in Nat \ {0}
    PROVE  BuiltInv'
  <1>1. workflow.pc = "propose" /\ built = 0 /\ workflow \in WorkflowState
    BY Numbers DEF BuiltInv, Runs, Enough
  <1>2. thread'[Call].pc = "idle"
    <2>1. Put(Call, Idle)
      BY DEF Answer, Put
    <2>2. QED
      BY <2>1, CallIsTyped, IdleFits, ThreadTakes DEF Put, IInv
  <1>3. \/ workflow' = [workflow EXCEPT !.pc = "wait", !.id = i, !.attempt = 1]
        \/ workflow' = MoveOn
    BY DEF Answer
  <1>4. \/ workflow'.pc = "wait" /\ workflow'.id = i
        \/ workflow'.pc \in {"continue", "done"}
    <2>1. MoveOn.pc \in {"continue", "done"}
      BY <1>1, WorkflowTurns
    <2>2. QED
      BY <1>1, <1>3, <2>1 DEF WorkflowState
  <1>5. Numbered'
    BY <1>1, <1>4 DEF Numbered
  <1>6. Enough'
    BY <1>1 DEF Enough
  <1>7. QED
    BY <1>2, <1>5, <1>6, IdleRuns DEF BuiltInv

LEMMA CallFinds ==
    ASSUME IInv, BuiltInv, Find
    PROVE  BuiltInv'
  <1> DEFINE i == Latest(OpenProposals)
             r == [thread[Call] EXCEPT !.pc = "insert"]
             q == [thread[Call] EXCEPT !.pc = "fill", !.id = i, !.version = proposals[i].version]
  <1>1. thread[Call].pc = "find" /\ UNCHANGED <<org, proposals, built, shrunk>>
    BY DEF Find, At, history
  <1>2. workflow.pc = "propose" /\ Len(proposals) <= 1
    BY <1>1, Places DEF BuiltInv, Runs, Numbered
  <1>3. OpenProposals # {} => i \in DOMAIN proposals /\ i = Len(proposals) /\ i \in Nat \ {0}
    <2>1. OpenProposals # {} => i \in 1..Len(proposals)
      BY ProposalsAreNumbered, Numbers DEF IInv
    <2> HIDE DEF i
    <2>2. QED
      BY <1>2, <2>1, Numbers
  <1>4. \/ OpenProposals = {} /\ Go(Call, "insert") /\ UNCHANGED workflow
        \/ OpenProposals # {} /\ Put(Call, q) /\ UNCHANGED workflow
        \/ OpenProposals # {} /\ Answer(i, proposals[i])
    BY DEF Find
  <1>5. CASE Go(Call, "insert") /\ UNCHANGED workflow
    <2>1. Put(Call, r)
      BY <1>5, CallIsTyped, GoPuts DEF IInv
    <2>2. r \in ThreadState /\ r.pc = "insert"
      BY CallIsTyped DEF ThreadState, Proposing
    <2> HIDE DEF r
    <2>3. Runs(r)
      BY <1>2, <2>2, Places DEF Runs, Asking
    <2>4. QED
      BY <1>1, <1>5, <2>1, <2>2, <2>3, BuiltGoesOn
  <1>6. CASE OpenProposals # {} /\ Put(Call, q) /\ UNCHANGED workflow
    <2>1. i \in Nat /\ proposals[i].version \in Nat
      BY <1>3, <1>6, RowsTyped DEF IInv, ProposalState
    <2> HIDE DEF i
    <2>2. q \in ThreadState /\ q.pc = "fill"
      BY <2>1, CallIsTyped DEF ThreadState, Proposing
    <2> HIDE DEF q
    <2>3. Runs(q)
      BY <1>2, <2>2, Places DEF Runs, Asking
    <2>4. QED
      BY <1>1, <1>6, <2>2, <2>3, BuiltGoesOn
  <1>7. CASE OpenProposals # {} /\ Answer(i, proposals[i])
    <2>1. thread[Call].pc \in Proposing /\ i = Len(proposals')
      BY <1>1, <1>3, <1>7, Places
    <2> HIDE DEF i
    <2>2. QED
      BY <1>1, <1>3, <1>7, <2>1, CallAnswers
  <1>8. QED
    BY <1>4, <1>5, <1>6, <1>7

LEMMA CallInserts ==
    ASSUME IInv, BuiltInv, Insert
    PROVE  BuiltInv'
  <1> DEFINE p == Proposed("awaiting_human", thread[Call].heads, FALSE)
  <1>1. /\ thread[Call].pc = "insert" /\ UNCHANGED <<org, built, shrunk>>
        /\ \/ proposals' = Append(proposals, p) /\ Answer(Len(proposals) + 1, p)
           \/ Throw(Call) /\ UNCHANGED proposals
    BY DEF Insert, At, history
  <1>2. thread[Call].pc \in Proposing
    BY <1>1, Places
  <1> HIDE DEF p
  <1>3. CASE proposals' = Append(proposals, p) /\ Answer(Len(proposals) + 1, p)
    <2>1. Len(proposals') = Len(proposals) + 1 /\ Len(proposals) + 1 \in Nat \ {0}
      BY <1>3, Numbers, ProposalsAreNumbered DEF IInv
    <2>2. QED
      BY <1>1, <1>2, <1>3, <2>1, CallAnswers
  <1>4. CASE Throw(Call) /\ UNCHANGED proposals
    BY <1>1, <1>4, CallEnds
  <1>5. QED
    BY <1>1, <1>3, <1>4

LEMMA CallFills ==
    ASSUME IInv, BuiltInv, Fill
    PROVE  BuiltInv'
  <1> DEFINE i == thread[Call].id
             p == [proposals[i] EXCEPT !.status = "awaiting_human", !.heads = thread[Call].heads]
  <1>1. /\ thread[Call].pc = "fill" /\ UNCHANGED <<org, built, shrunk>>
        /\ \/ Answer(i, proposals[i]) /\ UNCHANGED proposals
           \/ proposals' = [proposals EXCEPT ![i] = p] /\ Answer(i, p)
           \/ Throw(Call) /\ UNCHANGED proposals
    BY DEF Fill, At, history
  <1>2. thread[Call].pc \in Proposing /\ i \in DOMAIN proposals
    BY <1>1, CallIsTyped, Places DEF Fits
  <1>3. Len(proposals) <= 1
    BY <1>2 DEF BuiltInv, Runs, Numbered
  <1> HIDE DEF p, i
  <1>4. i = Len(proposals) /\ i \in Nat \ {0}
    BY <1>2, <1>3, Numbers
  <1>5. CASE Answer(i, proposals[i]) /\ UNCHANGED proposals
    <2>1. i = Len(proposals')
      BY <1>4, <1>5
    <2>2. QED
      BY <1>1, <1>2, <1>4, <1>5, <2>1, CallAnswers
  <1>6. CASE proposals' = [proposals EXCEPT ![i] = p] /\ Answer(i, p)
    <2>1. Len(proposals') = Len(proposals)
      BY <1>6 DEF IInv, TypeOK
    <2>2. i = Len(proposals')
      BY <1>4, <2>1
    <2>3. QED
      BY <1>1, <1>2, <1>4, <1>6, <2>2, CallAnswers
  <1>7. CASE Throw(Call) /\ UNCHANGED proposals
    BY <1>1, <1>7, CallEnds
  <1>8. QED
    BY <1>1, <1>5, <1>6, <1>7

LEMMA CallNeverDecides ==
    ASSUME BuiltInv
    PROVE  ~ (Brief(Call) \/ WriteEdit(Call) \/ WriteConfirm(Call) \/ Signal(Call) \/ WriteCancel(Call))
  <1>1. thread[Call].pc \notin {"brief", "edit", "confirm", "signal", "cancel"}
    BY Places DEF BuiltInv, Runs, Asking
  <1>2. QED
    BY <1>1 DEF Brief, WriteEdit, WriteConfirm, Signal, WriteCancel, At

LEMMA CallKeepsBuilt ==
    ASSUME IInv, BuiltInv, Serve(Call)
    PROVE  BuiltInv'
  <1>1. CASE \/ Apply(Call) \/ FindBoss(Call) \/ Count(Call) \/ FindLead(Call)
             \/ HireLead(Call) \/ HireMember(Call) \/ Mark(Call)
    BY <1>1, CallApplies, CallFindsBoss, CallCounts, CallFindsLead, CallHiresLead,
       CallHiresMember, CallMarks
  <1>2. CASE Read(Call) \/ FindExecutive(Call) \/ Gap(Call) \/ Route(Call) \/ Create(Call) \/ Groom(Call)
    BY <1>2, CallReads, CallFindsExecutive, CallFindsGap, CallRoutes, CallCreates, CallGrooms
  <1>3. CASE \/ Ask(Call) \/ Note(Call) \/ File(Call) \/ Assign(Call)
             \/ Shelve(Call) \/ Await(Call) \/ Start(Call)
    BY <1>3, CallAsks, CallAssigns, CallIsThrough
  <1>4. CASE Find \/ Insert \/ Fill
    BY <1>4, CallFinds, CallInserts, CallFills
  <1>5. QED
    BY <1>1, <1>2, <1>3, <1>4, CallNeverDecides DEF Serve

-----------------------------------------------------------------------------
(* The workflow                                                            *)

LEMMA RunKeepsBuilt ==
    ASSUME IInv, BuiltInv, Run
    PROVE  BuiltInv'
  <1>1. /\ thread[Call].pc = "idle" \/ workflow.pc \in {"propose", "apply", "continue"}
        /\ workflow.pc \in {"open", "analyze", "wait", "propose", "apply"} => built = 0
        /\ workflow \in WorkflowState
    BY Numbers DEF IInv, Flow, At, BuiltInv, Enough
  <1>2. CASE OpenDraft
    <2> DEFINE p == Proposed("draft", 0, FALSE)
    <2>1. /\ workflow.pc = "open" /\ workflow' = [workflow EXCEPT !.pc = "analyze"]
          /\ proposals' = proposals \/ proposals' = Append(proposals, p)
          /\ UNCHANGED <<thread, built>>
      BY <1>2 DEF OpenDraft, Step, history
    <2>2. p \in ProposalState
      <3>1. 0 \in 0..MaxHeads
        BY Bounds
      <3>2. QED
        BY <3>1, ProposedIsTyped
    <2> HIDE DEF p
    <2>3. workflow'.pc = "analyze"
      BY <1>1, <2>1 DEF WorkflowState
    <2>4. Len(proposals') <= 1
      <3>1. Len(proposals) = 0 /\ proposals \in Seq(ProposalState)
        BY <2>1, ProposalsAreNumbered DEF IInv, BuiltInv, Numbered
      <3>2. CASE proposals' = Append(proposals, p)
        <4>1. Len(proposals') = Len(proposals) + 1
          BY <2>2, <3>1, <3>2, RowIsAdded
        <4>2. QED
          BY <3>1, <4>1
      <3>3. CASE proposals' = proposals
        BY <3>1, <3>3
      <3>4. QED
        BY <2>1, <3>2, <3>3
    <2>5. Numbered' /\ Enough'
      BY <1>1, <2>1, <2>3, <2>4 DEF Numbered, Enough
    <2>6. QED
      BY <1>1, <2>1, <2>5, IdleRuns DEF BuiltInv
  <1>3. CASE Analyze
    <2>1. /\ workflow.pc = "analyze" /\ UNCHANGED <<proposals, thread, built>>
          /\ \E n \in Needs : workflow' = [workflow EXCEPT !.pc = "propose", !.known = n]
      BY <1>3 DEF Analyze, history
    <2>2. workflow'.pc = "propose"
      BY <1>1, <2>1 DEF WorkflowState
    <2>3. Numbered' /\ Enough'
      BY <1>1, <2>1, <2>2 DEF BuiltInv, Numbered, Enough
    <2>4. QED
      BY <1>1, <2>1, <2>3, IdleRuns DEF BuiltInv
  <1>4. CASE Propose
    <2>1. /\ workflow.pc = "propose" /\ thread[Call].pc = "idle"
          /\ UNCHANGED <<org, proposals, built, shrunk>>
      BY <1>4 DEF Propose, At, rows, history
    <2>2. PICK n \in Heads :
             LET plan == IF n > 0 THEN n ELSE workflow.known
             IN  \/ workflow' = MoveOn /\ UNCHANGED thread
                 \/ Put(Call, [Idle EXCEPT !.pc = "find", !.heads = plan]) /\ UNCHANGED workflow
      BY <1>4 DEF Propose
    <2> DEFINE plan == IF n > 0 THEN n ELSE workflow.known
               r == [Idle EXCEPT !.pc = "find", !.heads = plan]
    <2>3. CASE workflow' = MoveOn /\ UNCHANGED thread
      <3>1. workflow'.pc \in {"continue", "done"}
        BY <1>1, <2>1, <2>3, WorkflowTurns
      <3>2. Numbered' /\ Enough'
        BY <1>1, <2>1, <3>1 DEF Numbered, Enough
      <3>3. QED
        BY <2>1, <2>3, <3>2, IdleRuns DEF BuiltInv
    <2>4. CASE Put(Call, r) /\ UNCHANGED workflow
      <3>1. plan \in 0..MaxHeads
        BY <1>1, Bounds DEF WorkflowState
      <3> HIDE DEF plan
      <3>2. Idle \in ThreadState
        BY IdleFits
      <3> HIDE DEF Idle
      <3>3. r \in ThreadState /\ r.pc = "find"
        BY <3>1, <3>2 DEF ThreadState, Proposing
      <3> HIDE DEF r
      <3>4. Runs(r)
        BY <2>1, <3>3, Places DEF Runs, Asking
      <3>5. QED
        BY <2>1, <2>4, <3>3, <3>4, BuiltGoesOn
    <2>5. QED
      BY <2>2, <2>3, <2>4
  <1>5. CASE Decided \/ TimeOut
    <2>1. /\ workflow.pc = "wait" /\ UNCHANGED <<proposals, thread, built>>
          /\ workflow' \in {[workflow EXCEPT !.pc = "apply"], [workflow EXCEPT !.pc = "done"]}
      BY <1>5 DEF Decided, TimeOut, Step, rows, history
    <2>2. workflow'.pc \in {"apply", "done"} /\ workflow'.id = workflow.id
      BY <1>1, <2>1 DEF WorkflowState
    <2>3. Numbered' /\ Enough'
      BY <1>1, <2>1, <2>2 DEF BuiltInv, Numbered, Enough
    <2>4. QED
      BY <1>1, <2>1, <2>3, IdleRuns DEF BuiltInv
  <1>6. CASE Request
    <2> DEFINE r == IF workflow.pc = "apply"
                    THEN [Idle EXCEPT !.pc = "apply", !.id = workflow.id]
                    ELSE [Idle EXCEPT !.pc = "read"]
    <2>1. /\ workflow.pc \in {"apply", "continue"} /\ Put(Call, r)
          /\ UNCHANGED <<org, proposals, workflow, built, shrunk>>
      BY <1>6 DEF Request, rows, history
    <2>2. Idle \in ThreadState /\ workflow.id \in Nat
      BY <1>1, IdleFits DEF WorkflowState
    <2> HIDE DEF Idle
    <2>3. /\ r \in ThreadState
          /\ workflow.pc = "apply" => r.pc = "apply"
          /\ workflow.pc = "continue" => r.pc = "read"
      BY <2>2 DEF ThreadState, Deciding
    <2> HIDE DEF r
    <2>4. Runs(r)
      BY <2>1, <2>3, Places DEF Runs, Asking
    <2>5. QED
      BY <2>1, <2>3, <2>4, BuiltGoesOn
  <1>7. QED
    BY <1>2, <1>3, <1>4, <1>5, <1>6 DEF Run

LEMMA CrashKeepsBuilt ==
    ASSUME IInv, BuiltInv, Crash
    PROVE  BuiltInv'
  <1>1. /\ thread' = [t \in Thread |-> Idle]
        /\ workflow' = IF At(Call, "idle") THEN workflow ELSE Repeat
        /\ UNCHANGED <<org, proposals, built, shrunk>>
    BY DEF Crash, rows
  <1>2. thread'[Call].pc = "idle"
    BY <1>1, CallIsTyped, IdleFits
  <1>3. workflow' # workflow => thread[Call].pc # "idle"
    BY <1>1 DEF At
  <1>4. QED
    BY <1>1, <1>2, <1>3, BuiltEnds

LEMMA NextKeepsBuilt ==
    IInv /\ BuiltInv /\ [Next]_vars => BuiltInv'
  <1> SUFFICES ASSUME IInv, BuiltInv, [Next]_vars
               PROVE  BuiltInv'
    OBVIOUS
  <1>1. CASE UNCHANGED vars
    <2>1. UNCHANGED <<org, proposals, workflow, thread, built, shrunk>> /\ shrunk \in BOOLEAN
      BY <1>1, Numbers DEF vars, rows, history
    <2>2. Active' = Active
      BY <2>1, StaffStays
    <2>3. QED
      BY <2>1, <2>2, BuiltStands
  <1>2. ASSUME NEW t \in Thread, Serve(t)
        PROVE  BuiltInv'
    BY <1>2, OthersKeepBuilt, CallKeepsBuilt
  <1>3. QED
    BY <1>1, <1>2, RunKeepsBuilt, FounderKeepsBuilt, CrashKeepsBuilt DEF Next

LEMMA StartsBuilt == Init => BuiltInv
  <1> SUFFICES ASSUME Init
               PROVE  BuiltInv
    OBVIOUS
  <1>1. /\ workflow.pc = "open" /\ proposals = <<>> /\ built = 0
        /\ thread = [t \in Thread |-> Idle]
    BY DEF Init
  <1>2. thread[Call].pc = "idle"
    BY <1>1, Bounds, IdleFits
  <1>3. Numbered /\ Enough
    BY <1>1 DEF Numbered, Enough
  <1>4. Runs(thread[Call])
    BY <1>2 DEF Runs, Proposing, Building, Continuing, Asking
  <1>5. QED
    BY <1>3, <1>4 DEF BuiltInv

THEOREM BuiltHolds == Spec => [](IInv /\ BuiltInv)
  <1>1. Init => IInv /\ BuiltInv
    BY Starts, StartsBuilt
  <1>2. IInv /\ BuiltInv /\ [Next]_vars => (IInv /\ BuiltInv)'
    BY NextKeeps, NextKeepsBuilt
  <1>3. QED
    BY <1>1, <1>2, PTL DEF Spec

\* The newest proposal is what counts once the Founder has confirmed it.
LEMMA NewestCounts ==
    ASSUME TypeOK, Len(proposals) > 0,
           proposals[Len(proposals)].status \in {"confirmed", "applied"}
    PROVE  Baseline = proposals[Len(proposals)].heads
  <1> DEFINE Settled(p) == p.status \in {"confirmed", "applied"}
             S == Positions(proposals, Settled)
             n == Len(proposals)
  <1>1. DOMAIN proposals = 1..n /\ n \in Nat
    BY ProposalsAreNumbered
  <1>2. S \in SUBSET (1..n) /\ n \in S
    BY <1>1 DEF Positions
  <1>3. Baseline = IF Latest(S) = 0 THEN 0 ELSE proposals[Latest(S)].heads
    BY DEF Baseline
  <1> HIDE DEF S, n
  <1>4. IsFiniteSet(S)
    <2>1. IsFiniteSet(1..n)
      BY <1>1, FS_Interval
    <2>2. QED
      BY <1>2, <2>1, FS_Subset
  <1>5. S \in SUBSET Int /\ S # {}
    BY <1>2
  <1>6. Max(S) \in S /\ \A x \in S : x <= Max(S)
    BY <1>4, <1>5, MaxOfFinite
  <1>7. Latest(S) = Max(S)
    BY <1>5 DEF Latest
  <1> DEFINE l == Max(S)
  <1>8. l \in 1..n /\ n <= l
    BY <1>2, <1>6
  <1>9. Latest(S) = l
    BY <1>7
  <1> HIDE DEF l
  <1>10. l = n /\ l # 0
    BY <1>1, <1>8
  <1>11. QED
    BY <1>3, <1>9, <1>10 DEF n

\* Once the workflow has built the confirmed plan and nobody left, nobody is
\* missing while the plan stands, however often requests are repeated, overlap
\* and die: the workflow itself asks for a hire only when it was agreed to later.
THEOREM ConfirmedPlanHolds == Spec => []ConfirmedPlanIsEnough
  <1>1. ASSUME IInv, BuiltInv
        PROVE  ConfirmedPlanIsEnough
    <2>1. SUFFICES ASSUME built > 0, ~ shrunk
                   PROVE  /\ LET p == proposals[workflow.id]
                             IN  p.status \in {"confirmed", "applied"} /\ p.heads \in 1..built
                                 => Required <= Cardinality(Team \cap Active)
                          /\ thread[Call].pc \in {"ask", "note", "file", "await"} =>
                                thread[Call].heads > built
      BY DEF ConfirmedPlanIsEnough
    <2>2. workflow.id = Len(proposals) /\ Len(proposals) > 0 /\ built <= Staffed
      BY <1>1, <2>1 DEF BuiltInv, Numbered, Enough
    <2>3. ASSUME proposals[workflow.id].status \in {"confirmed", "applied"},
                 proposals[workflow.id].heads \in 1..built
          PROVE  Required <= Staffed
      <3>1. Baseline = proposals[workflow.id].heads
        BY <1>1, <2>2, <2>3, NewestCounts DEF IInv
      <3>2. Baseline > 0 /\ Baseline <= built /\ Baseline \in Nat
        BY <1>1, <2>3, <3>1, Numbers
      <3>3. Required = Baseline
        BY <3>2 DEF Required
      <3>4. QED
        BY <1>1, <2>2, <3>2, <3>3, Numbers
    <2>4. thread[Call].pc \in Asking => thread[Call].heads > built
      BY <1>1, <2>1 DEF BuiltInv, Runs
    <2>5. QED
      BY <2>3, <2>4 DEF Staffed, Asking
  <1>2. QED
    BY <1>1, BuiltHolds, PTL
================================================================================

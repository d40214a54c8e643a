---------------------------- MODULE TaskEngine_proof ----------------------------
(***************************************************************************)
(* Theorems about TaskEngine for every set of tasks and agents, every      *)
(* organisation and every bound, and about TaskTransactions for every set  *)
(* of sessions and whatever they ask for.                                  *)
(***************************************************************************)
EXTENDS TaskEngine, TaskTransactions, TLAPS

Assumptions == TreeAssumption /\ EngineAssumption

-----------------------------------------------------------------------------
(* The task machine.                                                       *)

\* What the transition table says about the edges the proofs turn on.
LEMMA Edges ==
    ASSUME NEW from, NEW to, CanTransition(from, to)
    PROVE  /\ from \in TaskStatus \ Terminal
           /\ to \in TaskStatus
           /\ to = "QA" => from = "REVIEW"
           /\ to = "APPROVAL" => from = "QA"
           /\ to = "DONE" => from \in {"QA", "APPROVAL"}
  BY DEF CanTransition, Successors, TaskStatus, Terminal

\* An actor that may take an edge takes an edge of the table.
LEMMA TakenIsLegal ==
    ASSUME NEW actor, NEW t, NEW to, MayTake(actor, t, to)
    PROVE  CanTransition(status[t], to)
  BY DEF MayTake, AuthorizeTaskTransition

\* Only an agent that does not own the task takes it from REVIEW to QA.
LEMMA AcceptanceIsIndependent ==
    ASSUME Assumptions, TypeOK,
           NEW t \in Task, NEW actor \in Actors, status[t] = "REVIEW",
           MayTake(actor, t, "QA")
    PROVE  actor.agent \in Agent /\ actor.agent # owner[t]
  <1>1. PICK k \in ActorClasses(actor, t) :
            AuthorizeTaskTransition("REVIEW", "QA", k, actor.agent, owner[t])
    BY DEF MayTake
  <1>2. k = "reviewer"
    BY <1>1 DEF AuthorizeTaskTransition, PermittedKinds, Rework
  <1>3. actor.kind = "agent" /\ actor.agent \in Agent
    BY <1>1, <1>2 DEF ActorClasses, Actors
  <1>4. RequireDistinctFromOwner("REVIEW", "QA")
    BY DEF RequireDistinctFromOwner
  <1>5. QED
    BY <1>1, <1>3, <1>4 DEF AuthorizeTaskTransition, Assumptions, TreeAssumption, EngineAssumption

-----------------------------------------------------------------------------
(* The roll-up.                                                            *)

StatusMap == [Task -> TaskStatus \cup {"ABSENT"}]

\* Every task that exists sits one level under a parent that exists.
Placed(s) ==
    \A t \in Task :
        s[t] # "ABSENT" /\ Parent[t] # NoTask =>
            s[Parent[t]] # "ABSENT" /\ <<Kind[t], Kind[Parent[t]]>> \in LevelUp

\* Writing a status to an existing task can strand its parent and no other
\* container, whether or not that task itself was stranded.
LEMMA WriteStrandsParentOnly ==
    ASSUME Assumptions,
           NEW s \in StatusMap, Placed(s),
           NEW t \in Task, s[t] # "ABSENT", s[t] \notin Terminal,
           \A p \in Task \ {t} : ~ RollsUp(s, p),
           NEW to \in TaskStatus, to \in Terminal \/ ~ RollsUp(s, t),
           NEW w, w = [s EXCEPT ![t] = to]
    PROVE  /\ w \in StatusMap
           /\ Placed(w)
           /\ \A p \in Task : p # Parent[t] => ~ RollsUp(w, p)
           /\ to \notin Terminal => ~ RollsUp(w, Parent[t])
  <1>1. w \in StatusMap
    BY DEF StatusMap
  <1>2. \A x \in Task : w[x] = "ABSENT" <=> s[x] = "ABSENT"
    BY DEF StatusMap, TaskStatus
  <1>3. Placed(w)
    BY <1>2 DEF Placed, Assumptions, TreeAssumption, EngineAssumption
  <1>4. \A p : Children(w, p) = Children(s, p)
    BY <1>2 DEF Children
  <1>5. ASSUME NEW p \in Task, p # Parent[t], RollsUp(w, p)
        PROVE  FALSE
    <2>1. \A c \in Children(s, p) : w[c] = s[c]
      BY <1>5 DEF Children, StatusMap
    <2>2. CASE p = t
      BY <1>4, <1>5, <2>1, <2>2 DEF RollsUp, StatusMap
    <2>3. CASE p # t
      <3>1. w[p] = s[p]
        BY <2>3 DEF StatusMap
      <3>2. RollsUp(s, p)
        BY <1>4, <1>5, <2>1, <3>1 DEF RollsUp
      <3>3. QED
        BY <2>3, <3>2
    <2>4. QED
      BY <2>2, <2>3
  <1>6. ASSUME to \notin Terminal, RollsUp(w, Parent[t])
        PROVE  FALSE
    <2>1. t \in Children(w, Parent[t]) /\ w[t] = to
      BY <1>2 DEF Children, StatusMap
    <2>2. QED
      BY <1>6, <2>1 DEF RollsUp
  <1>7. QED
    BY <1>1, <1>3, <1>5, <1>6

\* A container that rolls up exists, has not ended, and ends; it ends DONE
\* only with a DONE child.
LEMMA RollUpEnds ==
    ASSUME Assumptions,
           NEW s \in StatusMap, Placed(s),
           NEW p \in Task, RollsUp(s, p)
    PROVE  /\ s[p] # "ABSENT" /\ s[p] \notin Terminal
           /\ Kind[p] \in Containers
           /\ \E to \in {"DONE", "FAILED"} :
                 /\ RollUp(s, p) = [s EXCEPT ![p] = to]
                 /\ to = "DONE" => \E c \in Children(s, p) : s[c] = "DONE"
  <1>1. PICK c \in Children(s, p) : s[c] \in {"DONE", "FAILED"}
    BY DEF RollsUp
  <1>2. s[p] # "ABSENT"
    BY <1>1 DEF Children, Placed, Assumptions, TreeAssumption, EngineAssumption
  <1>3. CASE Unreplaced(s, p)
    BY <1>2, <1>3 DEF RollUp, RollsUp
  <1>4. CASE ~ Unreplaced(s, p)
    <2>1. \E d \in Children(s, p) : s[d] = "DONE"
      BY <1>1, <1>4 DEF Unreplaced
    <2>2. RollUp(s, p) = [s EXCEPT ![p] = "DONE"]
      BY <1>4 DEF RollUp
    <2>3. QED
      BY <1>2, <2>1, <2>2 DEF RollsUp
  <1>5. QED
    BY <1>3, <1>4

\* A container has no grandparent: at most two levels roll up.
LEMMA TwoLevels ==
    ASSUME Assumptions,
           NEW s \in StatusMap, Placed(s),
           NEW p \in Task, s[p] # "ABSENT", Kind[p] \in Containers,
           NEW q \in Task, q = Parent[p]
    PROVE  Parent[q] = NoTask
  <1>1. s[q] # "ABSENT" /\ Kind[q] = "goal"
    BY DEF Placed, LevelUp, Containers, Assumptions, TreeAssumption, EngineAssumption
  <1>2. QED
    BY <1>1 DEF Placed, LevelUp

\* Writing to one task of a legal state, then rolling up, leaves nothing
\* stranded and touches no other task that had ended.
LEMMA SettledStrandsNothing ==
    ASSUME Assumptions,
           NEW s \in StatusMap, Placed(s),
           \A p \in Task : ~ RollsUp(s, p),
           NEW t \in Task, s[t] # "ABSENT", s[t] \notin Terminal,
           NEW to \in TaskStatus
    PROVE  LET r == Settled(s, t, to)
           IN  /\ r \in StatusMap
               /\ Placed(r)
               /\ \A p \in Task : ~ RollsUp(r, p)
               /\ r[t] = to
               /\ \A x \in Task : s[x] \in Terminal \cup {"ABSENT"} => r[x] = s[x]
               /\ \A x \in Task \ {t} :
                     r[x] # s[x] =>
                        /\ Kind[x] \in Containers
                        /\ r[x] \in {"DONE", "FAILED"}
                        /\ r[x] = "DONE" =>
                              \E c \in Task : Parent[c] = x /\ r[c] = "DONE"
               /\ \A x \in Task : r[x] # s[x] => s[x] \notin Terminal \cup {"ABSENT"}
  <1> DEFINE w == [s EXCEPT ![t] = to]
             p == Parent[t]
             q == Parent[p]
             once == RollUp(w, p)
             r == Settled(s, t, to)
  <1>1. /\ w \in StatusMap
        /\ Placed(w)
        /\ \A x \in Task : x # p => ~ RollsUp(w, x)
        /\ to \notin Terminal => ~ RollsUp(w, p)
    <2>1. to \in Terminal \/ ~ RollsUp(s, t)
      OBVIOUS
    <2>2. QED
      BY <2>1, WriteStrandsParentOnly
  <1>2. w[t] = to /\ \A x \in Task \ {t} : w[x] = s[x]
    BY DEF StatusMap
  <1>3. CASE ~ RollsUp(w, p)
    <2>1. r = w
      BY <1>3 DEF Settled
    <2>2. QED
      BY <1>1, <1>2, <1>3, <2>1
  <1>4. CASE RollsUp(w, p)
    <2>1. p \in Task /\ to \in Terminal
      BY <1>1, <1>4 DEF RollsUp, Assumptions, TreeAssumption, EngineAssumption
    <2>2. /\ w[p] # "ABSENT" /\ w[p] \notin Terminal
          /\ Kind[p] \in Containers
      BY <1>1, <1>4, <2>1, RollUpEnds
    <2>3. PICK top \in {"DONE", "FAILED"} :
            /\ once = [w EXCEPT ![p] = top]
            /\ top = "DONE" => \E c \in Children(w, p) : w[c] = "DONE"
      BY <1>1, <1>4, <2>1, RollUpEnds
    <2>4. p # t
      BY <1>2, <2>1, <2>2
    <2>5. /\ once \in StatusMap
          /\ Placed(once)
          /\ \A x \in Task : x # q => ~ RollsUp(once, x)
      <3>1. top \in TaskStatus /\ (top \in Terminal \/ ~ RollsUp(w, p))
        BY <2>3 DEF TaskStatus, Terminal
      <3>2. \A x \in Task \ {p} : ~ RollsUp(w, x)
        BY <1>1
      <3> HIDE DEF w, once
      <3>3. QED
        BY <1>1, <2>1, <2>2, <2>3, <3>1, <3>2, WriteStrandsParentOnly
    <2>6. once[p] = top /\ \A x \in Task \ {p} : once[x] = w[x]
      BY <1>1, <2>1, <2>3 DEF StatusMap
    <2>7. top = "DONE" => \E c \in Task : Parent[c] = p /\ once[c] = "DONE"
      BY <2>2, <2>3, <2>6 DEF Children, Terminal
    <2>8. r = RollUp(once, q)
      BY <1>4, <2>1 DEF Settled
    <2>9. CASE ~ RollsUp(once, q)
      <3>1. r = once
        BY <2>8, <2>9 DEF RollUp
      <3>2. QED
        BY <1>2, <2>1, <2>2, <2>4, <2>5, <2>6, <2>7, <2>9, <3>1
    <2>10. CASE RollsUp(once, q)
      <3>1. q \in Task
        BY <2>1, <2>10 DEF RollsUp, Assumptions, TreeAssumption, EngineAssumption
      <3>2. /\ once[q] # "ABSENT" /\ once[q] \notin Terminal
            /\ Kind[q] \in Containers
        BY <2>5, <2>10, <3>1, RollUpEnds
      <3>3. PICK gop \in {"DONE", "FAILED"} :
              /\ r = [once EXCEPT ![q] = gop]
              /\ gop = "DONE" => \E c \in Children(once, q) : once[c] = "DONE"
        BY <2>5, <2>8, <2>10, <3>1, RollUpEnds
      <3>4. q # p /\ q # t
        BY <1>2, <2>1, <2>3, <2>4, <2>6, <3>1, <3>2 DEF Terminal
      <3>5. Parent[q] = NoTask
        BY <1>1, <2>1, <2>2, <3>1, TwoLevels
      <3>6. /\ r \in StatusMap
            /\ Placed(r)
            /\ \A x \in Task : x # Parent[q] => ~ RollsUp(r, x)
        <4>1. gop \in TaskStatus /\ (gop \in Terminal \/ ~ RollsUp(once, q))
          BY <3>3 DEF TaskStatus, Terminal
        <4>2. \A x \in Task \ {q} : ~ RollsUp(once, x)
          BY <2>5
        <4> HIDE DEF once, r
        <4>3. QED
          BY <2>5, <3>1, <3>2, <3>3, <4>1, <4>2, WriteStrandsParentOnly
      <3>7. r[q] = gop /\ \A x \in Task \ {q} : r[x] = once[x]
        BY <2>5, <3>1, <3>3 DEF StatusMap
      <3>8. gop = "DONE" => \E c \in Task : Parent[c] = q /\ r[c] = "DONE"
        BY <3>2, <3>3, <3>7 DEF Children, Terminal
      <3>9. top = "DONE" => \E c \in Task : Parent[c] = p /\ r[c] = "DONE"
        BY <2>7, <3>2, <3>7 DEF Terminal
      <3>10. \A x \in Task : ~ RollsUp(r, x)
        BY <3>5, <3>6 DEF Assumptions, TreeAssumption, EngineAssumption
      <3>11. r[t] = to /\ r[p] = top
        BY <1>2, <2>1, <2>4, <2>6, <3>4, <3>7
      <3>12. \A x \in Task \ {t, p, q} : r[x] = s[x]
        BY <1>2, <2>6, <3>7
      <3>13. s[p] = w[p] /\ s[q] = once[q]
        BY <1>2, <2>1, <2>4, <2>6, <3>1, <3>4
      <3>14. QED
        BY <2>1, <2>2, <3>1, <3>2, <3>6, <3>7, <3>8, <3>9, <3>10, <3>11, <3>12, <3>13
    <2>11. QED
      BY <2>9, <2>10
  <1>5. QED
    BY <1>3, <1>4

-----------------------------------------------------------------------------
(* The dependency graph.                                                   *)

\* S holds what a depends on and is closed under depending.
Closed(edges, a, S) == \A e \in edges : e[1] = a \/ e[1] \in S => e[2] \in S

\* An edge from a to b closes no cycle when the walk from b does not reach a:
\* what b reaches, with b itself, stays closed and without a, so a closed set
\* that avoids t before the edge can be cut down to it or widened by it.
LEMMA EdgeClosesNoCycle ==
    ASSUME NEW edges \in SUBSET (Task \X Task),
           \A t \in Task : ~ Reaches(edges, t, t),
           NEW a \in Task, NEW b \in Task, a # b,
           ~ Reaches(edges, b, a),
           NEW t \in Task
    PROVE  ~ Reaches(edges \cup {<<a, b>>}, t, t)
  <1> DEFINE more == edges \cup {<<a, b>>}
  <1>1. PICK B \in SUBSET Task : Closed(edges, b, B) /\ a \notin B
    BY DEF Reaches, Closed
  <1>2. PICK T \in SUBSET Task : Closed(edges, t, T) /\ t \notin T
    BY DEF Reaches, Closed
  <1> DEFINE R == B \cup {b}
  <1>3. a \notin R
    BY <1>1
  <1>4. CASE t \in R
    <2>1. Closed(more, t, T \cap R)
      BY <1>1, <1>2, <1>3, <1>4 DEF Closed
    <2>2. T \cap R \in SUBSET Task /\ t \notin T \cap R
      BY <1>2
    <2>3. QED
      BY <2>1, <2>2 DEF Reaches, Closed
  <1>5. CASE t \notin R
    <2>1. Closed(more, t, T \cup R)
      BY <1>1, <1>2, <1>3, <1>5 DEF Closed
    <2>2. T \cup R \in SUBSET Task /\ t \notin T \cup R
      BY <1>2, <1>5
    <2>3. QED
      BY <2>1, <2>2 DEF Reaches, Closed
  <1>6. QED
    BY <1>4, <1>5

\* Fewer edges reach less.
LEMMA FewerEdgesReachLess ==
    ASSUME NEW edges, NEW fewer \in SUBSET edges, NEW t, ~ Reaches(edges, t, t)
    PROVE  ~ Reaches(fewer, t, t)
  BY DEF Reaches

-----------------------------------------------------------------------------
(* Type correctness.                                                       *)

\* A transition goes from a task that has not ended to a status of the
\* machine, and its roll-up leaves the rest of the forest as Settled says.
LEMMA TransitionSettles ==
    ASSUME Assumptions, TypeOK, Placed(status), NoStrandedContainer,
           NEW t \in Task, NEW to, NEW actor \in Actors,
           Transition(t, to, actor)
    PROVE  /\ CanTransition(status[t], to)
           /\ to \in TaskStatus
           /\ status' \in StatusMap
           /\ Placed(status')
           /\ NoStrandedContainer'
           /\ status'[t] = to
           /\ \A x \in Task : status[x] \in Terminal => status'[x] = status[x]
           /\ \A x \in Task \ {t} :
                 status'[x] # status[x] =>
                    /\ Kind[x] \in Containers
                    /\ status'[x] \in {"DONE", "FAILED"}
                    /\ status'[x] = "DONE" =>
                          \E c \in Task : Parent[c] = x /\ status'[c] = "DONE"
  <1>1. CanTransition(status[t], to)
    BY TakenIsLegal DEF Transition
  <1>2. status[t] \in TaskStatus \ Terminal /\ to \in TaskStatus
    BY <1>1, Edges
  <1>3. status[t] # "ABSENT" /\ status[t] \notin Terminal
    BY <1>2 DEF TaskStatus
  <1>4. status \in StatusMap /\ status' = Settled(status, t, to)
    BY DEF TypeOK, StatusMap, Transition
  <1>5. \A p \in Task : ~ RollsUp(status, p)
    BY DEF NoStrandedContainer
  <1>6. LET r == Settled(status, t, to)
        IN  /\ r \in StatusMap
            /\ Placed(r)
            /\ \A p \in Task : ~ RollsUp(r, p)
            /\ r[t] = to
            /\ \A x \in Task : status[x] \in Terminal \cup {"ABSENT"} => r[x] = status[x]
            /\ \A x \in Task \ {t} :
                  r[x] # status[x] =>
                     /\ Kind[x] \in Containers
                     /\ r[x] \in {"DONE", "FAILED"}
                     /\ r[x] = "DONE" =>
                           \E c \in Task : Parent[c] = x /\ r[c] = "DONE"
    BY <1>2, <1>3, <1>4, <1>5, SettledStrandsNothing
  <1>7. QED
    BY <1>1, <1>2, <1>4, <1>6 DEF NoStrandedContainer

\* The inductive invariant: a container is stranded by its children only, so
\* every parent has to exist one level up, and what has ended rests on what
\* was accepted, so the acceptance has to be known from QA on.
AcceptedFromQA ==
    \A t \in Task :
        status[t] \in {"QA", "APPROVAL"} =>
            accepted[t].by \in Agent /\ accepted[t].by # accepted[t].work

IInv ==
    /\ TypeOK
    /\ Placed(status)
    /\ NoStrandedContainer
    /\ AcceptedFromQA
    /\ DeliveryRestsOnReviewedWork
    /\ NoDependencyCycle

LEMMA InitEstablishesIInv ==
    ASSUME Assumptions, Init
    PROVE  IInv
  <1>1. TypeOK
    BY DEF Init, TypeOK, Assumptions, TreeAssumption, EngineAssumption, AnyAgent, NotAccepted
  <1>2. Placed(status) /\ AcceptedFromQA /\ DeliveryRestsOnReviewedWork
    BY DEF Init, Placed, AcceptedFromQA, DeliveryRestsOnReviewedWork
  <1>3. NoStrandedContainer
    BY DEF Init, NoStrandedContainer, RollsUp, Children
  <1>4. NoDependencyCycle
    <2>1. \A t \in Task : ~ Reaches({}, t, t)
      <3>1. {} \in SUBSET Task
        OBVIOUS
      <3>2. QED
        BY <3>1 DEF Reaches
    <2>2. QED
      BY <2>1 DEF Init, NoDependencyCycle
  <1>5. QED
    BY <1>1, <1>2, <1>3, <1>4 DEF IInv

-----------------------------------------------------------------------------
(* One lemma per action: the invariant survives it, and what ended stays.  *)

EndedStays == \A t \in Task : status[t] \in Terminal => status'[t] = status[t]

LEMMA CreatePreserves ==
    ASSUME Assumptions, IInv,
           NEW t \in Task, NEW by \in Creators, Create(t, by)
    PROVE  IInv' /\ EndedStays
  <1> USE DEF IInv
  <1>1. TypeOK'
    BY DEF Create, TypeOK, TaskStatus, AnyAgent, Assumptions, TreeAssumption, EngineAssumption
  <1>2. /\ status' = [status EXCEPT ![t] = "DRAFT"]
        /\ status[t] = "ABSENT" /\ status'[t] = "DRAFT"
        /\ \A x \in Task \ {t} : status'[x] = status[x]
    BY DEF Create, TypeOK
  <1>3. EndedStays
    BY <1>2 DEF EndedStays, Terminal
  <1>4. Placed(status')
    BY <1>2 DEF Placed, Create, Exists, Assumptions, TreeAssumption, EngineAssumption
  <1>5. NoStrandedContainer'
    <2>1. SUFFICES ASSUME NEW p \in Task, RollsUp(status', p)
                   PROVE  FALSE
      BY DEF NoStrandedContainer
    <2>2. p # Parent[t]
      BY <1>2, <2>1 DEF RollsUp, Children, Terminal
    <2>3. \A c \in Task : Parent[c] = p => c # t
      BY <2>2
    <2>4. /\ Children(status', p) = Children(status, p)
          /\ \A c \in Children(status, p) : status'[c] = status[c]
      BY <1>2, <2>3 DEF Children
    <2>5. p # t
      <3>1. PICK c \in Children(status, p) : TRUE
        BY <2>1, <2>4 DEF RollsUp
      <3>2. status[p] # "ABSENT"
        BY <3>1, <2>1 DEF Placed, Children, RollsUp
      <3>3. QED
        BY <1>2, <3>2
    <2>6. RollsUp(status, p)
      BY <1>2, <2>1, <2>4, <2>5 DEF RollsUp
    <2>7. QED
      BY <2>6 DEF NoStrandedContainer
  <1>6. AcceptedFromQA'
    BY <1>2 DEF AcceptedFromQA, Create
  <1>7. DeliveryRestsOnReviewedWork'
    <2>1. \A x \in Task : status'[x] = "DONE" => status[x] = "DONE"
      BY <1>2
    <2>2. \A c \in Task : status[c] = "DONE" => status'[c] = "DONE"
      BY <1>2
    <2>3. QED
      BY <2>1, <2>2 DEF DeliveryRestsOnReviewedWork, Create
  <1>8. NoDependencyCycle'
    BY DEF NoDependencyCycle, Create
  <1>9. QED
    BY <1>1, <1>3, <1>4, <1>5, <1>6, <1>7, <1>8

LEMMA TransitionPreserves ==
    ASSUME Assumptions, IInv,
           NEW t \in Task, NEW to \in TaskStatus, NEW actor \in Actors,
           Transition(t, to, actor)
    PROVE  IInv' /\ EndedStays
  <1> USE DEF IInv
  <1>1. /\ CanTransition(status[t], to)
        /\ status' \in StatusMap
        /\ Placed(status')
        /\ NoStrandedContainer'
        /\ status'[t] = to
        /\ \A x \in Task : status[x] \in Terminal => status'[x] = status[x]
        /\ \A x \in Task \ {t} :
              status'[x] # status[x] =>
                 /\ Kind[x] \in Containers
                 /\ status'[x] \in {"DONE", "FAILED"}
                 /\ status'[x] = "DONE" =>
                       \E c \in Task : Parent[c] = x /\ status'[c] = "DONE"
    BY TransitionSettles
  <1>2. /\ accepted' = [accepted EXCEPT ![t] =
                            IF to = "QA" THEN [by |-> actor.agent, work |-> owner[t]]
                            ELSE IF to = "IN_PROGRESS" THEN NotAccepted
                            ELSE accepted[t]]
        /\ blocks' = blocks \ {e \in blocks : Reached(status, e[2])}
        /\ resolved' = resolved \cup {e \in blocks : Reached(status, e[2])}
        /\ UNCHANGED <<owner, creator, reassigned, helpers>>
    BY DEF Transition, ResolveDependents
  <1>3. actor.agent \in AnyAgent
    BY DEF Actors, AnyAgent
  <1>4. TypeOK'
    BY <1>1, <1>2, <1>3 DEF TypeOK, StatusMap, NotAccepted, AnyAgent
  <1>5. AcceptedFromQA'
    <2>1. SUFFICES ASSUME NEW x \in Task, status'[x] \in {"QA", "APPROVAL"}
                   PROVE  accepted'[x].by \in Agent /\ accepted'[x].by # accepted'[x].work
      BY DEF AcceptedFromQA
    <2>2. CASE x # t
      <3>1. accepted'[x] = accepted[x]
        BY <1>2, <2>2 DEF TypeOK
      <3>2. status'[x] = status[x]
        BY <1>1, <2>1, <2>2
      <3>3. QED
        BY <2>1, <3>1, <3>2 DEF AcceptedFromQA
    <2>3. CASE x = t /\ to = "QA"
      <3>1. status[t] = "REVIEW" /\ MayTake(actor, t, "QA")
        BY <1>1, <2>3, Edges DEF Transition
      <3>2. actor.agent \in Agent /\ actor.agent # owner[t]
        BY <3>1, AcceptanceIsIndependent
      <3>3. accepted'[x] = [by |-> actor.agent, work |-> owner[t]]
        BY <1>2, <2>3 DEF TypeOK
      <3>4. QED
        BY <3>2, <3>3
    <2>4. CASE x = t /\ to = "APPROVAL"
      <3>1. status[t] = "QA"
        BY <1>1, <2>4, Edges
      <3>2. accepted'[t] = accepted[t]
        BY <1>2, <2>4 DEF TypeOK
      <3>3. QED
        BY <2>4, <3>1, <3>2 DEF AcceptedFromQA
    <2>5. QED
      BY <1>1, <2>1, <2>2, <2>3, <2>4
  <1>6. DeliveryRestsOnReviewedWork'
    <2>1. SUFFICES ASSUME NEW x \in Task, status'[x] = "DONE"
                   PROVE  IF Kind[x] \in Containers
                          THEN \E c \in Task : Parent[c] = x /\ status'[c] = "DONE"
                          ELSE accepted'[x].by \in Agent /\ accepted'[x].by # accepted'[x].work
      BY DEF DeliveryRestsOnReviewedWork
    <2>2. CASE x = t
      <3>1. to = "DONE" /\ Kind[t] \notin Containers
        BY <1>1, <2>1, <2>2 DEF Transition, ClosedByHand
      <3>2. status[t] \in {"QA", "APPROVAL"}
        BY <1>1, <3>1, Edges
      <3>3. accepted'[t] = accepted[t]
        BY <1>2, <3>1 DEF TypeOK
      <3>4. QED
        BY <2>2, <3>1, <3>2, <3>3 DEF AcceptedFromQA
    <2>3. CASE x # t /\ status[x] = "DONE"
      <3>1. accepted'[x] = accepted[x]
        BY <1>2, <2>3 DEF TypeOK
      <3>2. \A c \in Task : status[c] = "DONE" => status'[c] = "DONE"
        BY <1>1 DEF Terminal
      <3>3. QED
        BY <2>3, <3>1, <3>2 DEF DeliveryRestsOnReviewedWork
    <2>4. CASE x # t /\ status[x] # "DONE"
      BY <1>1, <2>1, <2>4
    <2>5. QED
      BY <2>2, <2>3, <2>4
  <1>7. NoDependencyCycle'
    <2>1. blocks' \in SUBSET blocks
      BY <1>2
    <2>2. QED
      BY <2>1, FewerEdgesReachLess DEF NoDependencyCycle
  <1>8. EndedStays
    BY <1>1 DEF EndedStays
  <1>9. QED
    BY <1>1, <1>4, <1>5, <1>6, <1>7, <1>8

\* Assigning an owner moves at most one task, from PLANNED to ASSIGNED.
LEMMA AssignOwnerPreserves ==
    ASSUME Assumptions, IInv,
           NEW t \in Task, NEW a \in Agent, NEW actor \in Actors,
           NEW force \in BOOLEAN, AssignOwner(t, a, actor, force)
    PROVE  IInv' /\ EndedStays
  <1> USE DEF IInv
  <1>1. TypeOK'
    <2>1. status' \in [Task -> TaskStatus \cup {"ABSENT"}]
      BY DEF AssignOwner, TypeOK, TaskStatus
    <2>2. owner' \in [Task -> AnyAgent]
      BY DEF AssignOwner, TypeOK, AnyAgent
    <2>3. reassigned' \in [Task -> 0..ReassignLimit]
      <3>1. reassigned[t] \in 0..ReassignLimit
        BY DEF TypeOK
      <3>2. ~ AtLimit(t) => reassigned[t] + 1 \in 0..ReassignLimit
        BY <3>1 DEF AtLimit, Assumptions, TreeAssumption, EngineAssumption
      <3>3. QED
        BY <3>1, <3>2 DEF AssignOwner, TypeOK
    <2>4. QED
      BY <2>1, <2>2, <2>3 DEF AssignOwner, TypeOK
  <1>2. \A x \in Task :
            \/ status'[x] = status[x]
            \/ status[x] = "PLANNED" /\ status'[x] = "ASSIGNED"
    BY DEF AssignOwner, TypeOK
  <1>3. EndedStays
    BY <1>2 DEF EndedStays, Terminal
  <1>4. \A x \in Task : status'[x] = "ABSENT" <=> status[x] = "ABSENT"
    BY <1>2
  <1>5. Placed(status')
    BY <1>4 DEF Placed, Assumptions, TreeAssumption, EngineAssumption
  <1>6. NoStrandedContainer'
    <2>1. SUFFICES ASSUME NEW p \in Task, RollsUp(status', p)
                   PROVE  FALSE
      BY DEF NoStrandedContainer
    <2>2. Children(status', p) = Children(status, p)
      BY <1>4 DEF Children
    <2>3. \A c \in Children(status, p) : status'[c] = status[c]
      BY <1>2, <2>1, <2>2 DEF RollsUp, Children, Terminal
    <2>4. RollsUp(status, p)
      BY <1>2, <2>1, <2>2, <2>3 DEF RollsUp, Terminal
    <2>5. QED
      BY <2>4 DEF NoStrandedContainer
  <1>7. AcceptedFromQA'
    BY <1>2 DEF AcceptedFromQA, AssignOwner
  <1>8. DeliveryRestsOnReviewedWork'
    <2>1. \A x \in Task : status'[x] = "DONE" <=> status[x] = "DONE"
      BY <1>2
    <2>2. QED
      BY <2>1 DEF DeliveryRestsOnReviewedWork, AssignOwner
  <1>9. NoDependencyCycle'
    BY DEF NoDependencyCycle, AssignOwner
  <1>10. QED
    BY <1>1, <1>3, <1>5, <1>6, <1>7, <1>8, <1>9

\* The actions that leave the tasks alone and touch an edge or a helper row.
LEMMA RowsPreserve ==
    ASSUME Assumptions, IInv,
           \/ \E row \in HelperRequests : AssignHelper(row[1], row[2], row[3])
           \/ \E e \in EdgeRequests : AddDependency(e[1], e[2])
           \/ \E e \in EdgeRequests : RemoveDependency(e[1], e[2])
           \/ UNCHANGED vars
    PROVE  IInv' /\ EndedStays
  <1> USE DEF IInv
  <1>1. UNCHANGED <<status, owner, creator, reassigned, accepted>>
    BY DEF AssignHelper, AddDependency, RemoveDependency, vars
  <1>2. TypeOK'
    <2>1. CASE \E row \in HelperRequests : AssignHelper(row[1], row[2], row[3])
      BY <1>1, <2>1 DEF AssignHelper, TypeOK, Assumptions, TreeAssumption, EngineAssumption
    <2>2. CASE \E e \in EdgeRequests : AddDependency(e[1], e[2])
      BY <1>1, <2>2 DEF AddDependency, TypeOK, Assumptions, TreeAssumption, EngineAssumption
    <2>3. CASE \E e \in EdgeRequests : RemoveDependency(e[1], e[2])
      BY <1>1, <2>3 DEF RemoveDependency, TypeOK, Assumptions, TreeAssumption, EngineAssumption
    <2>4. CASE UNCHANGED vars
      BY <2>4 DEF vars, TypeOK
    <2>5. QED
      BY <2>1, <2>2, <2>3, <2>4
  <1>3. EndedStays
    BY <1>1 DEF EndedStays
  <1>4. Placed(status') /\ AcceptedFromQA' /\ DeliveryRestsOnReviewedWork'
    BY <1>1 DEF AcceptedFromQA, DeliveryRestsOnReviewedWork
  <1>5. NoStrandedContainer'
    BY <1>1 DEF NoStrandedContainer
  <1>6. NoDependencyCycle'
    <2>1. CASE \E e \in EdgeRequests : AddDependency(e[1], e[2])
      <3>1. PICK e \in EdgeRequests : AddDependency(e[1], e[2])
        BY <2>1
      <3>2. e[1] \in Task /\ e[2] \in Task /\ blocks \in SUBSET (Task \X Task)
        BY DEF Assumptions, TreeAssumption, EngineAssumption, TypeOK
      <3>3. QED
        BY <3>1, <3>2, EdgeClosesNoCycle DEF AddDependency, ClosesCycle, NoDependencyCycle
    <2>2. CASE ~ \E e \in EdgeRequests : AddDependency(e[1], e[2])
      <3>1. blocks' \in SUBSET blocks
        BY <2>2 DEF AssignHelper, RemoveDependency, vars
      <3>2. QED
        BY <3>1, FewerEdgesReachLess DEF NoDependencyCycle
    <2>3. QED
      BY <2>1, <2>2
  <1>7. QED
    BY <1>2, <1>3, <1>4, <1>5, <1>6

LEMMA NextPreservesIInv ==
    ASSUME Assumptions, IInv, [Next]_vars
    PROVE  IInv' /\ EndedStays
  <1>1. CASE \E t \in Task, by \in Creators : Create(t, by)
    BY <1>1, CreatePreserves
  <1>2. CASE \E t \in Task, to \in TaskStatus, actor \in Actors : Transition(t, to, actor)
    BY <1>2, TransitionPreserves
  <1>3. CASE \E row \in OwnerRequests, actor \in Actors, force \in BOOLEAN :
                AssignOwner(row[1], row[2], actor, force)
    <2>1. \A row \in OwnerRequests : row[1] \in Task /\ row[2] \in Agent
      BY DEF Assumptions, TreeAssumption, EngineAssumption
    <2>2. QED
      BY <1>3, <2>1, AssignOwnerPreserves
  <1>4. CASE \/ \E row \in HelperRequests : AssignHelper(row[1], row[2], row[3])
             \/ \E e \in EdgeRequests : AddDependency(e[1], e[2])
             \/ \E e \in EdgeRequests : RemoveDependency(e[1], e[2])
             \/ UNCHANGED vars
    BY <1>4, RowsPreserve
  <1>5. QED
    BY <1>1, <1>2, <1>3, <1>4 DEF Next

-----------------------------------------------------------------------------
(* The theorems.                                                           *)

THEOREM Invariance == Spec => []IInv
  <1>1. Init => IInv
    BY TreeAssumption, EngineAssumption, InitEstablishesIInv DEF Assumptions
  <1>2. IInv /\ [Next]_vars => IInv'
    BY TreeAssumption, EngineAssumption, NextPreservesIInv DEF Assumptions
  <1>3. QED
    BY <1>1, <1>2, PTL DEF Spec

\* Every column of the engine's tables stays in its domain.
THEOREM TypeCorrect == Spec => []TypeOK
  <1>1. IInv => TypeOK
    BY DEF IInv
  <1>2. QED
    BY <1>1, Invariance, PTL

\* No goal or initiative is left open over children that have all ended, one
\* of them delivered or failed.
THEOREM NothingStranded == Spec => []NoStrandedContainer
  <1>1. IInv => NoStrandedContainer
    BY DEF IInv
  <1>2. QED
    BY <1>1, Invariance, PTL

\* What is DONE rests on work accepted by an agent that did not own it then.
THEOREM DeliveryReviewed == Spec => []DeliveryRestsOnReviewedWork
  <1>1. IInv => DeliveryRestsOnReviewedWork
    BY DEF IInv
  <1>2. QED
    BY <1>1, Invariance, PTL

\* Tasks never wait for one another in a circle, when additions are serial.
THEOREM DependenciesAcyclic == Spec => []NoDependencyCycle
  <1>1. IInv => NoDependencyCycle
    BY DEF IInv
  <1>2. QED
    BY <1>1, Invariance, PTL

\* An ended task stays as it ended.
THEOREM EndedForGood == Spec => TerminalIsFinal
  <1>1. IInv /\ [Next]_vars => [EndedStays]_vars
    BY TreeAssumption, EngineAssumption, NextPreservesIInv DEF Assumptions
  <1>2. QED
    BY <1>1, Invariance, PTL DEF Spec, TerminalIsFinal, EndedStays

-----------------------------------------------------------------------------
(* The refinement, and the dependencies a DONE task frees.                 *)

\* The board reads the transition table and the roll-up as the engine does.
LEMMA BoardReadsAlike ==
    /\ Board!TaskStatus = TaskStatus
    /\ \A from, to : Board!CanTransition(from, to) <=> CanTransition(from, to)
    /\ \A t, to : Board!ClosedByHand(t, to) <=> ClosedByHand(t, to)
    /\ \A s, t, to : Board!Settled(s, t, to) = Settled(s, t, to)
  <1>1. Board!TaskStatus = TaskStatus /\ Board!Terminal = Terminal
        /\ Board!Containers = Containers
    BY DEF Board!TaskStatus, TaskStatus, Board!Terminal, Terminal,
           Board!Containers, Containers
  <1>2. \A from : Board!Successors(from) = Successors(from)
    BY DEF Board!Successors, Successors
  <1>3. \A s, p : Board!Children(s, p) = Children(s, p)
    BY DEF Board!Children, Children
  <1>4. \A s, p : Board!RollsUp(s, p) <=> RollsUp(s, p)
    BY <1>1, <1>3 DEF Board!RollsUp, RollsUp
  <1>5. \A s, p : Board!Unreplaced(s, p) <=> Unreplaced(s, p)
    BY <1>3 DEF Board!Unreplaced, Unreplaced
  <1>6. \A s, p : Board!RollUp(s, p) = RollUp(s, p)
    BY <1>4, <1>5 DEF Board!RollUp, RollUp
  <1>7. \A s, t, to : Board!Settled(s, t, to) = Settled(s, t, to)
    BY <1>1, <1>4, <1>6 DEF Board!Settled, Settled
  <1>8. QED
    BY <1>1, <1>2, <1>7 DEF Board!CanTransition, CanTransition,
                            Board!ClosedByHand, ClosedByHand

\* A step of the engine is a step of the board or leaves the statuses alone.
LEMMA NextIsBoardStep ==
    ASSUME TypeOK, [Next]_vars
    PROVE  [Board!Next]_status
  <1>1. CASE \E t \in Task, by \in Creators : Create(t, by)
    <2>1. PICK t \in Task, by \in Creators : Create(t, by)
      BY <1>1
    <2>2. Board!File(t)
      BY <2>1 DEF Create, Board!File, Exists
    <2>3. QED
      BY <2>2 DEF Board!Next
  <1>2. CASE \E t \in Task, to \in TaskStatus, actor \in Actors : Transition(t, to, actor)
    <2>1. PICK t \in Task, to \in TaskStatus, actor \in Actors : Transition(t, to, actor)
      BY <1>2
    <2>2. CanTransition(status[t], to)
      BY <2>1, TakenIsLegal DEF Transition
    <2>3. Board!Move(t, to)
      BY <2>1, <2>2, BoardReadsAlike DEF Transition, Board!Move
    <2>4. QED
      BY <2>3, BoardReadsAlike DEF Board!Next
  <1>3. CASE \E row \in OwnerRequests, actor \in Actors, force \in BOOLEAN :
                AssignOwner(row[1], row[2], actor, force)
    <2>1. PICK row \in OwnerRequests, actor \in Actors, force \in BOOLEAN :
              AssignOwner(row[1], row[2], actor, force)
      BY <1>3
    <2> DEFINE t == row[1]
    <2>2. t \in Task
      BY EngineAssumption DEF EngineAssumption
    <2>3. CASE status[t] = "PLANNED"
      <3>1. CanTransition(status[t], "ASSIGNED")
        BY <2>3 DEF CanTransition, Successors
      <3>2. ~ ClosedByHand(t, "ASSIGNED")
        BY DEF ClosedByHand
      <3>3. status' = Settled(status, t, "ASSIGNED")
        BY <2>1, <2>3 DEF AssignOwner, Settled, Terminal
      <3>4. Board!Move(t, "ASSIGNED")
        BY <3>1, <3>2, <3>3, BoardReadsAlike DEF Board!Move
      <3>5. "ASSIGNED" \in TaskStatus
        BY DEF TaskStatus
      <3>6. QED
        BY <2>2, <3>4, <3>5, BoardReadsAlike DEF Board!Next
    <2>4. CASE status[t] # "PLANNED"
      <3>1. status' = status
        BY <2>1, <2>4 DEF AssignOwner, TypeOK
      <3>2. QED
        BY <3>1
    <2>5. QED
      BY <2>3, <2>4
  <1>4. CASE \/ \E row \in HelperRequests : AssignHelper(row[1], row[2], row[3])
             \/ \E e \in EdgeRequests : AddDependency(e[1], e[2])
             \/ \E e \in EdgeRequests : RemoveDependency(e[1], e[2])
             \/ UNCHANGED vars
    BY <1>4 DEF AssignHelper, AddDependency, RemoveDependency, vars
  <1>5. QED
    BY <1>1, <1>2, <1>3, <1>4 DEF Next

\* The statuses of the engine's tasks follow the board: whatever happens to
\* owners, helpers and edges, one task moves at a time, and the containers it
\* completes close in the same transaction.
THEOREM RefinesBoard == Spec => FollowsTheBoard
  <1>1. Init => Board!Init
    BY DEF Init, Board!Init
  <1>2. TypeOK /\ [Next]_vars => [Board!Next]_status
    BY NextIsBoardStep
  <1>3. QED
    BY <1>1, <1>2, TypeCorrect, PTL DEF Spec, FollowsTheBoard, Board!Spec

\* No edge waits for a task past the transaction that brought it to DONE.
THEOREM DoneResolves == Spec => DoneResolvesDependents
  <1>1. TypeOK /\ [Next]_vars =>
            [\A t \in Task : Reached(status, t) => \A e \in blocks' : e[2] # t]_vars
    <2>1. SUFFICES ASSUME TypeOK, Next, NEW t \in Task, Reached(status, t),
                          NEW e \in blocks', e[2] = t
                   PROVE  FALSE
      OBVIOUS
    <2>2. CASE \E x \in Task, to \in TaskStatus, actor \in Actors : Transition(x, to, actor)
      BY <2>1, <2>2 DEF Transition, ResolveDependents
    <2>3. CASE \E x \in Task, by \in Creators : Create(x, by)
      BY <2>1, <2>3 DEF Create, Reached, TypeOK
    <2>4. CASE \E row \in OwnerRequests, actor \in Actors, force \in BOOLEAN :
                  AssignOwner(row[1], row[2], actor, force)
      BY <2>1, <2>4 DEF AssignOwner, Reached, TypeOK
    <2>5. CASE \/ \E row \in HelperRequests : AssignHelper(row[1], row[2], row[3])
               \/ \E d \in EdgeRequests : AddDependency(d[1], d[2])
               \/ \E d \in EdgeRequests : RemoveDependency(d[1], d[2])
      BY <2>1, <2>5 DEF AssignHelper, AddDependency, RemoveDependency, Reached
    <2>6. QED
      BY <2>1, <2>2, <2>3, <2>4, <2>5 DEF Next
  <1>2. QED
    BY <1>1, TypeCorrect, PTL DEF Spec, DoneResolvesDependents
-----------------------------------------------------------------------------
(* Sessions: the board as one transaction after the other would have it.   *)

\* Where a transition is: the move it was called for, what it has written,
\* and the containers over it that this completes.
Row(w) == asked[w][1]
To(w) == asked[w][2]
Over(w) == Parent[Row(w)]
Moved(w) == [committed EXCEPT ![Row(w)] = To(w)]
Once(w) == RollUp(Moved(w), Over(w))
Twice(w) == RollUp(Once(w), Parent[Over(w)])

Numbering(w) == held["event_seq"] = w
Blank(w) == view[w] = NothingWritten /\ asked[w] = NoMove

\* A filing from the counter to the commit.
Files(w) ==
    /\ on[w] \in Filings /\ asked[w] = NoMove
    /\ Parent[on[w]] # NoTask => committed[Parent[on[w]]] # "ABSENT"
Filed(w) ==
    /\ Files(w) /\ held["task_number"] = w /\ committed[on[w]] = "ABSENT"
    /\ view[w] = [NothingWritten EXCEPT ![on[w]] = "DRAFT"]

\* A transition from its first write to the commit: its guards still hold, and
\* every row it has written is there and locked.
Holds(w) ==
    /\ asked[w] \in Moves
    /\ CanTransition(committed[Row(w)], To(w)) /\ ~ ClosedByHand(Row(w), To(w))
    /\ held[Row(w)] = w
    /\ \A r \in Task : view[w][r] # "ABSENT" => committed[r] # "ABSENT" /\ held[r] = w

Rolled(w) == RollsUp(Moved(w), Over(w)) /\ To(w) \in Terminal

\* It emits for the row it wrote last: only the first time is it without the counter.
Emits(w) ==
    \/ on[w] = Row(w) /\ view[w] = [NothingWritten EXCEPT ![Row(w)] = To(w)]
    \/ /\ Numbering(w) /\ Rolled(w)
       /\ \/ on[w] = Over(w) /\ Sees(w) = Once(w)
          \/ /\ RollsUp(Once(w), Parent[Over(w)])
             /\ on[w] = Parent[Over(w)] /\ Sees(w) = Twice(w)

\* It looks at the row above the one it wrote last.
Climbs(w) ==
    /\ Numbering(w) /\ on[w] \in Task /\ To(w) \in Terminal
    /\ \/ on[w] = Over(w) /\ Sees(w) = Moved(w)
       \/ Rolled(w) /\ on[w] = Parent[Over(w)] /\ Sees(w) = Once(w)

Settles(w) == Holds(w) /\ Sees(w) = Settled(committed, Row(w), To(w))

Stands(w) ==
    /\ pc[w] = "idle" => Blank(w)
    /\ pc[w] = "lock_task" =>
          view[w] = NothingWritten /\ asked[w] \in Moves /\ on[w] = Row(w)
    /\ pc[w] \in {"number", "insert"} => Files(w) /\ view[w] = NothingWritten
    /\ pc[w] = "insert" => held["task_number"] = w
    /\ pc[w] = "step_cost" => Numbering(w)
    /\ pc[w] = "file_event" => Filed(w)
    /\ pc[w] \in {"budget_parent", "budget_task", "budget_event", "step_event", "step_cost"} => Blank(w)
    /\ pc[w] = "emit" => Holds(w) /\ Emits(w)
    /\ pc[w] = "lock_parent" => Holds(w) /\ Climbs(w)
    /\ pc[w] = "look" => /\ Holds(w) /\ Climbs(w) /\ held[on[w]] = w
                         /\ committed[on[w]] # "ABSENT"
    /\ pc[w] = "commit" => Numbering(w) /\ (Blank(w) \/ Filed(w) \/ Settles(w))

\* A row exists under a row that exists.
Rooted ==
    \A t \in Task : committed[t] # "ABSENT" =>
        t \in Rows /\ (Parent[t] # NoTask => committed[Parent[t]] # "ABSENT")

SessionInv == SessionTypeOK /\ Rooted /\ \A w \in Worker : Stands(w)
-----------------------------------------------------------------------------
(* Locks, and what the other sessions keep while one runs a statement.     *)

\* A statement of w leaves the other sessions where they are, and their locks.
Aside(w) ==
    \A v \in Worker \ {w} :
        /\ pc'[v] = pc[v] /\ on'[v] = on[v] /\ asked'[v] = asked[v] /\ view'[v] = view[v]
        /\ \A r \in Resources : held[r] = v => held'[r] = v

\* A row lock is got when no other session holds it, and then all are kept.
LEMMA LocksAreKept ==
    ASSUME SessionTypeOK, NEW w \in Worker, Acquire(w)
    PROVE  /\ held' \in [Resources -> Worker \cup {NoWorker}]
           /\ \A r \in Resources : r \in Wants(w) => held'[r] = w
           /\ \A v \in Worker, r \in Resources : held[r] = v => held'[r] = v
  <1>1. /\ held' = [r \in Resources |-> IF r \in Wants(w) THEN w ELSE held[r]]
        /\ \A r \in Wants(w) : held[r] \in {w, NoWorker}
    BY DEF Acquire, WaitsFor
  <1>2. held \in [Resources -> Worker \cup {NoWorker}]
    BY DEF SessionTypeOK
  <1>3. QED
    BY <1>1, <1>2, SessionAssumption DEF SessionAssumption

LEMMA ReleaseFreesOwn ==
    ASSUME SessionTypeOK, NEW w \in Worker, Release(w)
    PROVE  /\ held' \in [Resources -> Worker \cup {NoWorker}]
           /\ \A v \in Worker \ {w}, r \in Resources : held[r] = v => held'[r] = v
  <1>1. held \in [Resources -> Worker \cup {NoWorker}]
    BY DEF SessionTypeOK
  <1>2. QED
    BY <1>1 DEF Release

\* The resources a session stands on.
LEMMA RowsAreResources == Task \subseteq Resources /\ Counters \subseteq Resources
  BY DEF Resources

\* The rows an asked move names.
LEMMA MovesAreMoves ==
    ASSUME NEW w \in Worker, asked[w] \in Moves
    PROVE  Row(w) \in Task /\ To(w) \in TaskStatus /\ Row(w) # NoTask /\ asked[w] # NoMove
  BY SessionAssumption, TreeAssumption DEF SessionAssumption, TreeAssumption, Row, To, NoMove

\* A session that is left alone, with its locks, stands where it stood.
LEMMA LeftAloneStands ==
    ASSUME SessionTypeOK, NEW v \in Worker, Stands(v), committed' = committed,
           pc'[v] = pc[v], on'[v] = on[v], asked'[v] = asked[v], view'[v] = view[v],
           \A r \in Resources : held[r] = v => held'[r] = v
    PROVE  Stands(v)'
  <1>1. /\ pc'[v] = pc[v] /\ on'[v] = on[v] /\ asked'[v] = asked[v] /\ view'[v] = view[v]
        /\ \A r \in Resources : held[r] = v => held'[r] = v
    OBVIOUS
  <1>2. /\ Row(v)' = Row(v) /\ To(v)' = To(v)
        /\ Blank(v)' = Blank(v) /\ Files(v)' = Files(v)
    BY <1>1 DEF Row, To, Blank, Files
  <1>3. Sees(v)' = Sees(v)
    BY <1>1 DEF Sees
  <1>4. Over(v)' = Over(v) /\ Moved(v)' = Moved(v)
    BY <1>2 DEF Over, Moved
  <1>5. Once(v)' = Once(v) /\ (Rolled(v)' <=> Rolled(v))
    BY <1>2, <1>4 DEF Once, Rolled
  <1>6. Twice(v)' = Twice(v)
    BY <1>4, <1>5 DEF Twice
  <1>7. Numbering(v) => Numbering(v)'
    BY <1>1, RowsAreResources DEF Numbering, Counters
  <1>8. Filed(v) => Filed(v)'
    BY <1>1, <1>2, RowsAreResources DEF Filed, Counters
  <1>9. Holds(v) => Holds(v)'
    <2>1. SUFFICES ASSUME Holds(v)
                   PROVE  Holds(v)'
      OBVIOUS
    <2>2. Row(v) \in Task /\ asked[v] \in Moves
      BY <2>1, MovesAreMoves DEF Holds
    <2>3. held'[Row(v)] = v
      BY <1>1, <2>1, <2>2, RowsAreResources DEF Holds
    <2>4. \A r \in Task : view'[v][r] # "ABSENT" => committed'[r] # "ABSENT" /\ held'[r] = v
      BY <1>1, <2>1, RowsAreResources DEF Holds
    <2>5. CanTransition(committed'[Row(v)'], To(v)') /\ ~ ClosedByHand(Row(v)', To(v)')
      BY <1>2, <2>1 DEF Holds
    <2>6. QED
      BY <1>1, <1>2, <2>2, <2>3, <2>4, <2>5 DEF Holds
  <1>10. Emits(v) => Emits(v)'
    BY <1>1, <1>2, <1>3, <1>4, <1>5, <1>6, <1>7 DEF Emits
  <1>11. Climbs(v) => Climbs(v)'
    BY <1>1, <1>2, <1>3, <1>4, <1>5, <1>7 DEF Climbs
  <1>12. Settles(v) => Settles(v)'
    BY <1>2, <1>3, <1>9 DEF Settles
  <1>13. pc[v] = "look" /\ held[on[v]] = v /\ Climbs(v) => held'[on'[v]] = v
    BY <1>1, RowsAreResources DEF Climbs
  <1>14. pc[v] = "insert" /\ held["task_number"] = v => held'["task_number"] = v
    BY <1>1, RowsAreResources DEF Counters
  <1>15. QED
    <2>1. committed'[on'[v]] = committed[on[v]]
      BY <1>1
    <2>2. (pc[v] = "lock_task" => view[v] = NothingWritten /\ asked[v] \in Moves /\ on[v] = Row(v))
          => (pc'[v] = "lock_task" => view'[v] = NothingWritten /\ asked'[v] \in Moves /\ on'[v] = Row(v)')
      BY <1>1, <1>2
    <2>3. (pc[v] = "look" => Holds(v) /\ Climbs(v) /\ held[on[v]] = v /\ committed[on[v]] # "ABSENT")
          => (pc'[v] = "look" => Holds(v)' /\ Climbs(v)' /\ held'[on'[v]] = v /\ committed'[on'[v]] # "ABSENT")
      BY <1>1, <1>9, <1>11, <1>13, <2>1
    <2>4. (pc[v] = "commit" => Numbering(v) /\ (Blank(v) \/ Filed(v) \/ Settles(v)))
          => (pc'[v] = "commit" => Numbering(v)' /\ (Blank(v)' \/ Filed(v)' \/ Settles(v)'))
      BY <1>1, <1>2, <1>7, <1>8, <1>12
    <2>5. (pc[v] \in {"number", "insert"} => Files(v) /\ view[v] = NothingWritten)
          => (pc'[v] \in {"number", "insert"} => Files(v)' /\ view'[v] = NothingWritten)
      BY <1>1, <1>2
    <2>6. (pc[v] = "insert" => held["task_number"] = v)
          => (pc'[v] = "insert" => held'["task_number"] = v)
      BY <1>1, <1>14
    <2>7. (pc[v] = "emit" => Holds(v) /\ Emits(v)) => (pc'[v] = "emit" => Holds(v)' /\ Emits(v)')
      BY <1>1, <1>9, <1>10
    <2>8. (pc[v] = "lock_parent" => Holds(v) /\ Climbs(v))
          => (pc'[v] = "lock_parent" => Holds(v)' /\ Climbs(v)')
      BY <1>1, <1>9, <1>11
    <2>9. (pc[v] = "file_event" => Filed(v)) => (pc'[v] = "file_event" => Filed(v)')
      BY <1>1, <1>8
    <2>10. (pc[v] = "idle" => Blank(v)) => (pc'[v] = "idle" => Blank(v)')
      BY <1>1, <1>2
    <2>11. (pc[v] \in {"budget_parent", "budget_task", "budget_event", "step_event", "step_cost"} => Blank(v))
           => (pc'[v] \in {"budget_parent", "budget_task", "budget_event", "step_event", "step_cost"} => Blank(v)')
      BY <1>1, <1>2
    <2>12. (pc[v] = "step_cost" => Numbering(v)) => (pc'[v] = "step_cost" => Numbering(v)')
      BY <1>1, <1>7
    <2>13. QED
      BY <2>2, <2>3, <2>4, <2>5, <2>6, <2>7, <2>8, <2>9, <2>10, <2>11, <2>12 DEF Stands

\* So a statement that commits nothing has its own session to answer for.
LEMMA StatementPreserves ==
    ASSUME SessionInv, NEW w \in Worker, SessionTypeOK', Aside(w),
           committed' = committed, Stands(w)'
    PROVE  SessionInv'
  <1>1. Rooted'
    BY DEF SessionInv, Rooted
  <1>2. \A v \in Worker \ {w} : Stands(v)'
    BY LeftAloneStands DEF SessionInv, Aside
  <1>3. QED
    BY <1>1, <1>2 DEF SessionInv

\* What a session reads after it wrote.
LEMMA SeesItsWrite ==
    ASSUME SessionTypeOK, NEW w \in Worker, NEW t \in Task, NEW to \in TaskStatus,
           Write(w, t, to), committed' = committed
    PROVE  /\ Sees(w)' = [Sees(w) EXCEPT ![t] = to]
           /\ view'[w] = [view[w] EXCEPT ![t] = to]
           /\ \A v \in Worker \ {w} : view'[v] = view[v]
           /\ view' \in [Worker -> [Task -> TaskStatus \cup {"ABSENT"}]]
  <1>1. view \in [Worker -> [Task -> TaskStatus \cup {"ABSENT"}]]
    BY DEF SessionTypeOK
  <1>2. /\ view'[w] = [view[w] EXCEPT ![t] = to]
        /\ \A v \in Worker \ {w} : view'[v] = view[v]
        /\ view' \in [Worker -> [Task -> TaskStatus \cup {"ABSENT"}]]
    BY <1>1 DEF Write
  <1>3. to # "ABSENT"
    BY DEF TaskStatus
  <1>4. Sees(w)' = [r \in Task |-> IF view'[w][r] # "ABSENT" THEN view'[w][r] ELSE committed[r]]
    BY DEF Sees
  <1>5. Sees(w)' = [Sees(w) EXCEPT ![t] = to]
    BY <1>1, <1>2, <1>3, <1>4 DEF Sees
  <1>6. QED
    BY <1>2, <1>5

\* A session that wrote nothing reads what is committed.
LEMMA SeesCommitted ==
    ASSUME SessionTypeOK, NEW w \in Worker, view[w] = NothingWritten
    PROVE  Sees(w) = committed
  BY DEF Sees, NothingWritten, SessionTypeOK

\* A session that wrote one row reads it so.
LEMMA SeesOneRow ==
    ASSUME SessionTypeOK, NEW w \in Worker, NEW t \in Task, NEW to \in TaskStatus,
           view[w] = [NothingWritten EXCEPT ![t] = to]
    PROVE  Sees(w) = [committed EXCEPT ![t] = to]
  <1>1. to # "ABSENT"
    BY DEF TaskStatus
  <1>2. \A r \in Task : view[w][r] = IF r = t THEN to ELSE "ABSENT"
    BY DEF NothingWritten
  <1>3. Sees(w) = [r \in Task |-> IF r = t THEN to ELSE committed[r]]
    BY <1>1, <1>2 DEF Sees
  <1>4. committed \in [Task -> TaskStatus \cup {"ABSENT"}]
    BY DEF SessionTypeOK
  <1>5. QED
    BY <1>3, <1>4

\* Nothing a session reads is less than what is committed.
LEMMA NothingIsUnfiled ==
    ASSUME SessionTypeOK, NEW w \in Worker, NEW t \in Task, committed[t] # "ABSENT"
    PROVE  Sees(w)[t] # "ABSENT"
  BY DEF Sees
-----------------------------------------------------------------------------
(* The roll-up as a transition reads it.                                   *)

\* An ending writes its row, and then the containers over it that it completes.
LEMMA SettledByClimbing ==
    ASSUME NEW w \in Worker
    PROVE  /\ To(w) \notin Terminal => Settled(committed, Row(w), To(w)) = Moved(w)
           /\ ~ RollsUp(Moved(w), Over(w)) => Settled(committed, Row(w), To(w)) = Moved(w)
           /\ Rolled(w) => Settled(committed, Row(w), To(w)) = Twice(w)
           /\ ~ RollsUp(Once(w), Parent[Over(w)]) => Twice(w) = Once(w)
  BY DEF Settled, Moved, Once, Twice, Over, Rolled, RollUp

\* A container that closes leaves no container two levels above it.
LEMMA ContainersEndAtTheGoal ==
    ASSUME SessionTypeOK, Rooted, NEW t \in Task, committed[t] # "ABSENT",
           Parent[t] # NoTask
    PROVE  /\ Parent[t] \in Task /\ committed[Parent[t]] # "ABSENT"
           /\ Parent[Parent[t]] # NoTask =>
                 Parent[Parent[t]] \in Task /\ committed[Parent[Parent[t]]] # "ABSENT"
           /\ Kind[Parent[t]] \in Containers /\ Parent[Parent[t]] # NoTask =>
                 Parent[Parent[Parent[t]]] = NoTask
  <1> DEFINE p == Parent[t]
             q == Parent[p]
  <1>1. p \in Task /\ committed[p] # "ABSENT"
    BY TreeAssumption DEF TreeAssumption, Rooted
  <1>2. q # NoTask => q \in Task /\ committed[q] # "ABSENT"
    BY <1>1, TreeAssumption DEF TreeAssumption, Rooted
  <1>3. ASSUME Kind[p] \in Containers, q # NoTask
        PROVE  Parent[q] = NoTask
    <2>1. <<Kind[p], Kind[q]>> \in LevelUp /\ q \in Rows
      BY <1>1, <1>2, <1>3, RowAssumption DEF Rooted, RowAssumption
    <2>2. Kind[q] = "goal"
      BY <1>3, <2>1 DEF LevelUp, Containers
    <2>3. Parent[q] # NoTask => <<Kind[q], Kind[Parent[q]]>> \in LevelUp
      BY <2>1, RowAssumption DEF RowAssumption
    <2>4. QED
      BY <2>2, <2>3 DEF LevelUp
  <1>4. QED
    BY <1>1, <1>2, <1>3

\* The row a transition has moved exists, and so do the rows over it.
LEMMA MovedRowExists ==
    ASSUME SessionTypeOK, Rooted, NEW w \in Worker, Holds(w)
    PROVE  /\ Row(w) \in Task /\ To(w) \in TaskStatus /\ committed[Row(w)] # "ABSENT"
           /\ Over(w) # NoTask =>
                 /\ Over(w) \in Task /\ committed[Over(w)] # "ABSENT"
                 /\ Parent[Over(w)] # NoTask =>
                       Parent[Over(w)] \in Task /\ committed[Parent[Over(w)]] # "ABSENT"
                 /\ Kind[Over(w)] \in Containers /\ Parent[Over(w)] # NoTask =>
                       Parent[Parent[Over(w)]] = NoTask
  <1>1. Row(w) \in Task /\ To(w) \in TaskStatus
    BY MovesAreMoves DEF Holds
  <1>2. committed[Row(w)] \in TaskStatus
    BY Edges DEF Holds
  <1>3. committed[Row(w)] # "ABSENT"
    BY <1>2 DEF TaskStatus
  <1>4. QED
    BY <1>1, <1>3, ContainersEndAtTheGoal DEF Over

\* A roll-up writes the container and nothing else.
LEMMA RollUpWrites ==
    ASSUME NEW s, NEW p, RollsUp(s, p)
    PROVE  /\ RollUp(s, p) = [s EXCEPT ![p] = RollUp(s, p)[p]] \/ p \notin DOMAIN s
           /\ p \in DOMAIN s => RollUp(s, p)[p] \in {"DONE", "FAILED"}
           /\ p # NoTask /\ Kind[p] \in Containers
  <1>1. RollUp(s, p) = [s EXCEPT ![p] = IF Unreplaced(s, p) THEN "FAILED" ELSE "DONE"]
    BY DEF RollUp
  <1>2. p \in DOMAIN s => RollUp(s, p)[p] = IF Unreplaced(s, p) THEN "FAILED" ELSE "DONE"
    BY <1>1
  <1>3. QED
    BY <1>1, <1>2 DEF RollsUp

-----------------------------------------------------------------------------
(* One lemma for each statement.                                           *)

\* A statement that only asks for a lock and goes on to the next.
LEMMA GoesOn ==
    ASSUME SessionTypeOK, NEW w \in Worker, NEW step \in Steps, NEW row \in Task \cup {NoTask},
           Acquire(w), Goto(w, step, row), UNCHANGED <<committed, asked, view>>
    PROVE  /\ SessionTypeOK' /\ Aside(w)
           /\ pc'[w] = step /\ on'[w] = row
           /\ \A r \in Resources : held[r] = w \/ r \in Wants(w) => held'[r] = w
           /\ Sees(w)' = Sees(w) /\ asked' = asked /\ view' = view /\ committed' = committed
  <1>1. /\ held' \in [Resources -> Worker \cup {NoWorker}]
        /\ \A r \in Resources : r \in Wants(w) => held'[r] = w
        /\ \A v \in Worker, r \in Resources : held[r] = v => held'[r] = v
    BY LocksAreKept
  <1>2. pc' = [pc EXCEPT ![w] = step] /\ on' = [on EXCEPT ![w] = row]
    BY DEF Goto
  <1>3. pc \in [Worker -> Steps] /\ on \in [Worker -> Task \cup {NoTask}]
    BY DEF SessionTypeOK
  <1>4. /\ pc' \in [Worker -> Steps] /\ on' \in [Worker -> Task \cup {NoTask}]
        /\ pc'[w] = step /\ on'[w] = row
        /\ \A v \in Worker \ {w} : pc'[v] = pc[v] /\ on'[v] = on[v]
    BY <1>2, <1>3
  <1>5. SessionTypeOK'
    BY <1>1, <1>4 DEF SessionTypeOK
  <1>6. Aside(w)
    BY <1>1, <1>4 DEF Aside
  <1>7. Sees(w)' = Sees(w)
    BY DEF Sees
  <1>8. QED
    BY <1>1, <1>4, <1>5, <1>6, <1>7

\* A session whose transaction is over.
LEMMA EndsBlank ==
    ASSUME SessionTypeOK, NEW w \in Worker, End(w),
           committed' \in [Task -> TaskStatus \cup {"ABSENT"}]
    PROVE  SessionTypeOK' /\ Aside(w) /\ Stands(w)'
  <1>1. /\ held' \in [Resources -> Worker \cup {NoWorker}]
        /\ \A v \in Worker \ {w}, r \in Resources : held[r] = v => held'[r] = v
    BY ReleaseFreesOwn DEF End
  <1>2. NothingWritten \in [Task -> TaskStatus \cup {"ABSENT"}]
    BY DEF NothingWritten
  <1>3. /\ pc' = [pc EXCEPT ![w] = "idle"] /\ on' = [on EXCEPT ![w] = NoTask]
        /\ asked' = [asked EXCEPT ![w] = NoMove]
        /\ view' = [view EXCEPT ![w] = NothingWritten]
    BY DEF End, Goto
  <1>4. "idle" \in Steps
    BY DEF Steps
  <1>5. SessionTypeOK'
    BY <1>1, <1>2, <1>3, <1>4 DEF SessionTypeOK
  <1>6. Aside(w)
    BY <1>1, <1>3 DEF Aside, SessionTypeOK
  <1>7. pc'[w] = "idle" /\ asked'[w] = NoMove /\ view'[w] = NothingWritten
    BY <1>3 DEF SessionTypeOK
  <1>8. Stands(w)'
    BY <1>7 DEF Stands, Blank
  <1>9. QED
    BY <1>5, <1>6, <1>8

LEMMA EndPreserves ==
    ASSUME SessionInv, NEW w \in Worker, End(w), UNCHANGED committed
    PROVE  SessionInv'
  <1>1. SessionTypeOK' /\ Aside(w) /\ Stands(w)'
    BY EndsBlank DEF SessionInv, SessionTypeOK
  <1>2. QED
    BY <1>1, StatementPreserves
LEMMA BeginPreserves ==
    ASSUME SessionInv, NEW w \in Worker, Begin(w)
    PROVE  SessionInv'
  <1>1. PICK m \in Moves : Goto(w, "lock_task", m[1]) /\ asked' = [asked EXCEPT ![w] = m]
    BY DEF Begin
  <1>2. pc[w] = "idle" /\ UNCHANGED <<committed, held, view>>
    BY DEF Begin
  <1>3. m[1] \in Task /\ "lock_task" \in Steps
    BY SessionAssumption DEF SessionAssumption, Steps
  <1>4. SessionTypeOK' /\ Aside(w) /\ pc'[w] = "lock_task" /\ on'[w] = m[1] /\ asked'[w] = m
    BY <1>1, <1>2, <1>3 DEF Goto, SessionInv, SessionTypeOK, Aside
  <1>5. view'[w] = NothingWritten
    BY <1>2 DEF SessionInv, Stands, Blank
  <1>6. Stands(w)'
    BY <1>4, <1>5 DEF Stands, Row
  <1>7. QED
    BY <1>2, <1>4, <1>6, StatementPreserves

\* The other transactions begin by naming a row, and write nothing yet.
LEMMA Opens ==
    ASSUME SessionInv, NEW w \in Worker, pc[w] = "idle", NEW row \in Task,
           NEW step \in {"number", "budget_parent", "step_event"},
           Goto(w, step, row), UNCHANGED <<committed, held, asked, view>>,
           step = "number" =>
               row \in Filings /\ (Parent[row] # NoTask => committed[Parent[row]] # "ABSENT")
    PROVE  SessionInv'
  <1>1. step \in Steps
    BY DEF Steps
  <1>2. SessionTypeOK' /\ Aside(w) /\ pc'[w] = step /\ on'[w] = row
    BY <1>1 DEF Goto, SessionInv, SessionTypeOK, Aside
  <1>3. view'[w] = NothingWritten /\ asked'[w] = NoMove
    BY DEF SessionInv, Stands, Blank
  <1>4. CASE step = "number"
    <2>1. Files(w)'
      BY <1>2, <1>3, <1>4 DEF Files
    <2>2. Stands(w)'
      BY <1>2, <1>3, <1>4, <2>1 DEF Stands
    <2>3. QED
      BY <1>2, <2>2, StatementPreserves
  <1>5. CASE step # "number"
    <2>1. Blank(w)'
      BY <1>3 DEF Blank
    <2>2. Stands(w)'
      BY <1>2, <1>5, <2>1 DEF Stands
    <2>3. QED
      BY <1>2, <2>2, StatementPreserves
  <1>6. QED
    BY <1>4, <1>5

LEMMA OpeningsPreserve ==
    ASSUME SessionInv, NEW w \in Worker, BeginFiling(w) \/ BeginBudget(w) \/ BeginStep(w)
    PROVE  SessionInv'
  <1>1. CASE BeginFiling(w)
    <2>1. PICK t \in Filings : /\ Parent[t] # NoTask => committed[Parent[t]] # "ABSENT"
                               /\ Goto(w, "number", t)
      BY <1>1 DEF BeginFiling
    <2>2. t \in Task
      BY SessionAssumption DEF SessionAssumption
    <2>3. pc[w] = "idle" /\ UNCHANGED <<committed, held, asked, view>>
      BY <1>1 DEF BeginFiling
    <2>4. QED
      BY <2>1, <2>2, <2>3, Opens
  <1>2. CASE BeginBudget(w)
    <2>1. PICK t \in Budgets : Goto(w, "budget_parent", t)
      BY <1>2 DEF BeginBudget
    <2>2. t \in Task
      BY SessionAssumption DEF SessionAssumption
    <2>3. pc[w] = "idle" /\ UNCHANGED <<committed, held, asked, view>>
      BY <1>2 DEF BeginBudget
    <2>4. QED
      BY <2>1, <2>2, <2>3, Opens
  <1>3. CASE BeginStep(w)
    <2>1. PICK t \in Charges : Goto(w, "step_event", t)
      BY <1>3 DEF BeginStep
    <2>2. t \in Task
      BY SessionAssumption DEF SessionAssumption
    <2>3. pc[w] = "idle" /\ UNCHANGED <<committed, held, asked, view>>
      BY <1>3 DEF BeginStep
    <2>4. QED
      BY <2>1, <2>2, <2>3, Opens
  <1>4. QED
    BY <1>1, <1>2, <1>3

\* The guards hold of the row that was read, and the row is locked.
LEMMA LockTaskPreserves ==
    ASSUME SessionInv, NEW w \in Worker, LockTask(w)
    PROVE  SessionInv'
  <1>1. pc[w] = "lock_task" /\ UNCHANGED committed
    BY DEF LockTask
  <1>2. view[w] = NothingWritten /\ asked[w] \in Moves /\ on[w] = Row(w)
    BY <1>1 DEF SessionInv, Stands
  <1>3. Row(w) \in Task /\ To(w) \in TaskStatus
    BY <1>2, MovesAreMoves
  <1>4. SessionTypeOK
    BY DEF SessionInv
  <1>5. CASE CanTransition(Sees(w)[on[w]], asked[w][2]) /\ ~ ClosedByHand(on[w], asked[w][2])
    <2>1. Acquire(w) /\ Write(w, on[w], asked[w][2]) /\ Goto(w, "emit", on[w]) /\ asked' = asked
      BY <1>5 DEF LockTask
    <2>2. Write(w, Row(w), To(w)) /\ Goto(w, "emit", Row(w))
      BY <1>2, <2>1 DEF To
    <2>3. /\ view'[w] = [view[w] EXCEPT ![Row(w)] = To(w)]
          /\ \A v \in Worker \ {w} : view'[v] = view[v]
          /\ view' \in [Worker -> [Task -> TaskStatus \cup {"ABSENT"}]]
      BY <1>1, <1>3, <1>4, <2>2, SeesItsWrite
    <2>4. /\ held' \in [Resources -> Worker \cup {NoWorker}]
          /\ \A r \in Resources : r \in Wants(w) => held'[r] = w
          /\ \A v \in Worker, r \in Resources : held[r] = v => held'[r] = v
      BY <1>4, <2>1, LocksAreKept
    <2>5. "emit" \in Steps
      BY DEF Steps
    <2>6. /\ pc' \in [Worker -> Steps] /\ on' \in [Worker -> Task \cup {NoTask}]
          /\ pc'[w] = "emit" /\ on'[w] = Row(w)
          /\ \A v \in Worker \ {w} : pc'[v] = pc[v] /\ on'[v] = on[v]
      BY <1>3, <1>4, <2>2, <2>5 DEF Goto, SessionTypeOK
    <2>7. SessionTypeOK'
      BY <1>1, <1>4, <2>1, <2>3, <2>4, <2>6 DEF SessionTypeOK
    <2>8. Aside(w)
      BY <2>1, <2>3, <2>4, <2>6 DEF Aside
    <2>9. on[w] \in Wants(w)
      BY <1>1 DEF Wants
    <2>10. held'[Row(w)] = w
      BY <1>2, <1>3, <2>4, <2>9, RowsAreResources
    <2>11. view'[w] = [NothingWritten EXCEPT ![Row(w)] = To(w)]
      BY <1>2, <2>3
    <2>12. \A r \in Task : view'[w][r] # "ABSENT" => r = Row(w)
      BY <2>11 DEF NothingWritten
    <2>13. Sees(w) = committed
      BY <1>2, <1>4, SeesCommitted
    <2>14. CanTransition(committed[Row(w)], To(w)) /\ ~ ClosedByHand(Row(w), To(w))
      BY <1>2, <1>5, <2>13 DEF To
    <2>15. committed[Row(w)] # "ABSENT"
      BY <2>14, Edges DEF TaskStatus
    <2>16. Row(w)' = Row(w) /\ To(w)' = To(w)
      BY <2>1 DEF Row, To
    <2>17. Holds(w)'
      BY <1>1, <1>2, <2>1, <2>10, <2>12, <2>14, <2>15, <2>16 DEF Holds
    <2>18. Emits(w)'
      BY <2>6, <2>11, <2>16 DEF Emits
    <2>19. Stands(w)'
      BY <2>6, <2>17, <2>18 DEF Stands
    <2>20. QED
      BY <1>1, <2>7, <2>8, <2>19, StatementPreserves
  <1>6. CASE ~ (CanTransition(Sees(w)[on[w]], asked[w][2]) /\ ~ ClosedByHand(on[w], asked[w][2]))
    <2>1. End(w)
      BY <1>6 DEF LockTask
    <2>2. QED
      BY <1>1, <2>1, EndPreserves
  <1>7. QED
    BY <1>5, <1>6

\* What a statement that only locks carries over of a transition.
LEMMA TransitionCarries ==
    ASSUME SessionTypeOK, NEW w \in Worker, Holds(w),
           \A r \in Resources : held[r] = w \/ r \in Wants(w) => held'[r] = w,
           asked' = asked, view' = view, committed' = committed
    PROVE  /\ Holds(w)' /\ Row(w)' = Row(w) /\ To(w)' = To(w) /\ Over(w)' = Over(w)
           /\ Sees(w)' = Sees(w)
           /\ Moved(w)' = Moved(w) /\ Once(w)' = Once(w) /\ (Rolled(w)' <=> Rolled(w))
           /\ Settled(committed, Row(w), To(w))' = Settled(committed, Row(w), To(w))
  <1>1. Row(w)' = Row(w) /\ To(w)' = To(w) /\ Sees(w)' = Sees(w)
    BY DEF Row, To, Sees
  <1>2. Over(w)' = Over(w) /\ Moved(w)' = Moved(w)
    BY <1>1 DEF Over, Moved
  <1>3. Once(w)' = Once(w) /\ (Rolled(w)' <=> Rolled(w))
    BY <1>1, <1>2 DEF Once, Rolled
  <1>4. Row(w) \in Task /\ asked[w] \in Moves
    BY MovesAreMoves DEF Holds
  <1>5. held'[Row(w)] = w
    BY <1>4, RowsAreResources DEF Holds
  <1>6. \A r \in Task : view[w][r] # "ABSENT" => committed[r] # "ABSENT" /\ held'[r] = w
    BY RowsAreResources DEF Holds
  <1>7. CanTransition(committed[Row(w)], To(w)) /\ ~ ClosedByHand(Row(w), To(w))
    BY DEF Holds
  <1>8. Holds(w)'
    BY <1>1, <1>4, <1>5, <1>6, <1>7 DEF Holds
  <1>9. QED
    BY <1>1, <1>2, <1>3, <1>8

\* The counter is got here and kept to the commit; up or done.
LEMMA EmitPreserves ==
    ASSUME SessionInv, NEW w \in Worker, Emit(w)
    PROVE  SessionInv'
  <1> DEFINE up == Sees(w)[on[w]] \in Terminal /\ Parent[on[w]] # NoTask
  <1>1. pc[w] = "emit" /\ Acquire(w) /\ UNCHANGED <<committed, asked, view>>
    BY DEF Emit
  <1>2. Holds(w) /\ Emits(w) /\ SessionTypeOK /\ Rooted
    BY <1>1 DEF SessionInv, Stands
  <1>3. /\ Row(w) \in Task /\ To(w) \in TaskStatus /\ committed[Row(w)] # "ABSENT"
        /\ Over(w) # NoTask =>
             /\ Over(w) \in Task
             /\ Parent[Over(w)] # NoTask => Parent[Over(w)] \in Task
             /\ Kind[Over(w)] \in Containers /\ Parent[Over(w)] # NoTask =>
                    Parent[Parent[Over(w)]] = NoTask
    BY <1>2, MovedRowExists
  <1>4. "event_seq" \in Wants(w) /\ "event_seq" \in Resources
    BY <1>1, RowsAreResources DEF Wants, Counters
  <1>5. DOMAIN Moved(w) = Task /\ DOMAIN Once(w) = Task
    BY <1>2 DEF Moved, Once, RollUp, SessionTypeOK
  <1>6. Moved(w)[Row(w)] = To(w)
    BY <1>2, <1>3 DEF Moved, SessionTypeOK
  <1>7. on[w] \in Task
    <2>1. Rolled(w) => Over(w) # NoTask
      BY DEF Rolled, RollsUp
    <2>2. RollsUp(Once(w), Parent[Over(w)]) => Parent[Over(w)] # NoTask
      BY DEF RollsUp
    <2>3. QED
      BY <1>2, <1>3, <2>1, <2>2 DEF Emits
  <1>8. CASE up
    <2>1. Goto(w, "lock_parent", Parent[on[w]])
      BY <1>8 DEF Emit
    <2>2. "lock_parent" \in Steps /\ Parent[on[w]] \in Task
      BY <1>7, <1>8, TreeAssumption DEF Steps, TreeAssumption
    <2>3. /\ SessionTypeOK' /\ Aside(w)
          /\ pc'[w] = "lock_parent" /\ on'[w] = Parent[on[w]]
          /\ \A r \in Resources : held[r] = w \/ r \in Wants(w) => held'[r] = w
          /\ asked' = asked /\ view' = view /\ committed' = committed
      BY <1>1, <1>2, <2>1, <2>2, GoesOn
    <2>4. /\ Holds(w)' /\ Row(w)' = Row(w) /\ To(w)' = To(w) /\ Over(w)' = Over(w)
          /\ Sees(w)' = Sees(w)
          /\ Moved(w)' = Moved(w) /\ Once(w)' = Once(w) /\ (Rolled(w)' <=> Rolled(w))
      BY <1>2, <2>3, TransitionCarries
    <2>5. Numbering(w)'
      BY <1>4, <2>3 DEF Numbering
    <2>6. ASSUME on[w] = Row(w), view[w] = [NothingWritten EXCEPT ![Row(w)] = To(w)]
        PROVE  Stands(w)'
      <3>1. Sees(w) = Moved(w)
        BY <1>2, <1>3, <2>6, SeesOneRow DEF Moved
      <3>2. To(w) \in Terminal /\ on'[w] = Over(w)
        BY <1>6, <1>8, <2>3, <2>6, <3>1 DEF Over
      <3>3. Climbs(w)'
        BY <2>2, <2>3, <2>4, <2>5, <3>1, <3>2 DEF Climbs
      <3>4. QED
        BY <2>3, <2>4, <3>3 DEF Stands
    <2>7. ASSUME Rolled(w), on[w] = Over(w), Sees(w) = Once(w)
        PROVE  Stands(w)'
      <3>1. Climbs(w)'
        BY <2>2, <2>3, <2>4, <2>5, <2>7 DEF Climbs, Rolled
      <3>2. QED
        BY <2>3, <2>4, <3>1 DEF Stands
    <2>8. ASSUME Rolled(w), RollsUp(Once(w), Parent[Over(w)]),
               on[w] = Parent[Over(w)], Sees(w) = Twice(w)
        PROVE  Stands(w)'
      <3>1. Over(w) # NoTask /\ Kind[Over(w)] \in Containers /\ Parent[Over(w)] # NoTask
        BY <2>8 DEF Rolled, RollsUp
      <3>2. QED
        BY <1>3, <1>8, <2>8, <3>1
    <2>9. Stands(w)'
      BY <1>2, <2>6, <2>7, <2>8 DEF Emits
    <2>10. QED
      BY <2>3, <2>9, StatementPreserves
  <1>9. CASE ~ up
    <2>1. Goto(w, "commit", on[w])
      BY <1>9 DEF Emit
    <2>2. "commit" \in Steps
      BY DEF Steps
    <2>3. /\ SessionTypeOK' /\ Aside(w) /\ pc'[w] = "commit"
          /\ \A r \in Resources : held[r] = w \/ r \in Wants(w) => held'[r] = w
          /\ asked' = asked /\ view' = view /\ committed' = committed
      BY <1>1, <1>2, <1>7, <2>1, <2>2, GoesOn
    <2>4. /\ Holds(w)' /\ Sees(w)' = Sees(w)
          /\ Settled(committed, Row(w), To(w))' = Settled(committed, Row(w), To(w))
      BY <1>2, <2>3, TransitionCarries
    <2>5. Numbering(w)'
      BY <1>4, <2>3 DEF Numbering
    <2>6. ASSUME on[w] = Row(w), view[w] = [NothingWritten EXCEPT ![Row(w)] = To(w)]
        PROVE  Sees(w) = Settled(committed, Row(w), To(w))
      <3>1. Sees(w) = Moved(w)
        BY <1>2, <1>3, <2>6, SeesOneRow DEF Moved
      <3>2. To(w) \notin Terminal \/ Over(w) = NoTask
        BY <1>6, <1>9, <2>6, <3>1 DEF Over
      <3>3. Over(w) = NoTask => ~ RollsUp(Moved(w), Over(w))
        BY DEF RollsUp
      <3>4. QED
        BY <3>1, <3>2, <3>3, SettledByClimbing
    <2>7. ASSUME Rolled(w), on[w] = Over(w), Sees(w) = Once(w)
        PROVE  Sees(w) = Settled(committed, Row(w), To(w))
      <3>1. RollsUp(Moved(w), Over(w))
        BY <2>7 DEF Rolled
      <3>2. Once(w)[Over(w)] \in {"DONE", "FAILED"}
        BY <1>5, <1>7, <2>7, <3>1, RollUpWrites DEF Once
      <3>3. Parent[Over(w)] = NoTask
        BY <1>9, <2>7, <3>2 DEF Terminal
      <3>4. ~ RollsUp(Once(w), Parent[Over(w)])
        BY <3>3 DEF RollsUp
      <3>5. QED
        BY <2>7, <3>4, SettledByClimbing
    <2>8. ASSUME Rolled(w), RollsUp(Once(w), Parent[Over(w)]),
               on[w] = Parent[Over(w)], Sees(w) = Twice(w)
        PROVE  Sees(w) = Settled(committed, Row(w), To(w))
      BY <2>8, SettledByClimbing
    <2>9. Sees(w) = Settled(committed, Row(w), To(w))
      BY <1>2, <2>6, <2>7, <2>8 DEF Emits
    <2>10. Settles(w)'
      BY <2>4, <2>9 DEF Settles
    <2>11. Stands(w)'
      BY <2>3, <2>5, <2>10 DEF Stands
    <2>12. QED
      BY <2>3, <2>11, StatementPreserves
  <1>10. QED
    BY <1>8, <1>9
\* The parent is locked before it is read; one that need not roll up is left.
LEMMA LockParentPreserves ==
    ASSUME SessionInv, NEW w \in Worker, LockParent(w)
    PROVE  SessionInv'
  <1> DEFINE p == on[w]
  <1>1. pc[w] = "lock_parent" /\ Acquire(w) /\ UNCHANGED <<committed, asked, view>>
    BY DEF LockParent
  <1>2. Holds(w) /\ Climbs(w) /\ SessionTypeOK /\ Rooted
    BY <1>1 DEF SessionInv, Stands
  <1>3. p \in Task /\ Numbering(w) /\ To(w) \in Terminal
    BY <1>2 DEF Climbs
  <1>4. committed[p] # "ABSENT"
    <2>1. Rolled(w) => Over(w) # NoTask
      BY DEF Rolled, RollsUp
    <2>2. QED
      BY <1>2, <1>3, <2>1, MovedRowExists, TreeAssumption DEF Climbs, TreeAssumption
  <1>5. p \in Wants(w) /\ p \in Resources /\ "event_seq" \in Resources
    BY <1>1, <1>3, RowsAreResources DEF Wants, Counters
  <1>6. CASE Kind[p] \in Containers /\ Sees(w)[p] \notin Terminal
    <2>1. Goto(w, "look", p) /\ "look" \in Steps
      BY <1>6 DEF LockParent, Steps
    <2>2. /\ SessionTypeOK' /\ Aside(w) /\ pc'[w] = "look" /\ on'[w] = p
          /\ \A r \in Resources : held[r] = w \/ r \in Wants(w) => held'[r] = w
          /\ asked' = asked /\ view' = view /\ committed' = committed
      BY <1>1, <1>2, <1>3, <2>1, GoesOn
    <2>3. /\ Holds(w)' /\ Row(w)' = Row(w) /\ To(w)' = To(w) /\ Over(w)' = Over(w)
          /\ Sees(w)' = Sees(w)
          /\ Moved(w)' = Moved(w) /\ Once(w)' = Once(w) /\ (Rolled(w)' <=> Rolled(w))
      BY <1>2, <2>2, TransitionCarries
    <2>4. Numbering(w)' /\ held'[p] = w
      BY <1>3, <1>5, <2>2 DEF Numbering
    <2>5. Climbs(w)'
      BY <1>2, <2>2, <2>3, <2>4 DEF Climbs
    <2>6. Stands(w)'
      BY <1>4, <2>2, <2>3, <2>4, <2>5 DEF Stands
    <2>7. QED
      BY <2>2, <2>6, StatementPreserves
  <1>7. CASE ~ (Kind[p] \in Containers /\ Sees(w)[p] \notin Terminal)
    <2>1. Goto(w, "commit", p) /\ "commit" \in Steps
      BY <1>7 DEF LockParent, Steps
    <2>2. /\ SessionTypeOK' /\ Aside(w) /\ pc'[w] = "commit"
          /\ \A r \in Resources : held[r] = w \/ r \in Wants(w) => held'[r] = w
          /\ asked' = asked /\ view' = view /\ committed' = committed
      BY <1>1, <1>2, <1>3, <2>1, GoesOn
    <2>3. /\ Holds(w)' /\ Sees(w)' = Sees(w)
          /\ Settled(committed, Row(w), To(w))' = Settled(committed, Row(w), To(w))
      BY <1>2, <2>2, TransitionCarries
    <2>4. Numbering(w)'
      BY <1>3, <1>5, <2>2 DEF Numbering
    <2>5. ~ RollsUp(Sees(w), p)
      BY <1>7 DEF RollsUp
    <2>6. Sees(w) = Settled(committed, Row(w), To(w))
      BY <1>2, <2>5, SettledByClimbing DEF Climbs
    <2>7. Stands(w)'
      BY <2>2, <2>3, <2>4, <2>6 DEF Stands, Settles
    <2>8. QED
      BY <2>2, <2>7, StatementPreserves
  <1>8. QED
    BY <1>6, <1>7

\* The children are read under the parent's lock and the counter.
LEMMA LookPreserves ==
    ASSUME SessionInv, NEW w \in Worker, Look(w)
    PROVE  SessionInv'
  <1> DEFINE p == on[w]
             closed == RollUp(Sees(w), p)[p]
  <1>1. pc[w] = "look" /\ committed' = committed /\ held' = held /\ asked' = asked
    BY DEF Look
  <1>2. /\ Holds(w) /\ Climbs(w) /\ held[p] = w /\ committed[p] # "ABSENT"
        /\ SessionTypeOK /\ Rooted
    BY <1>1 DEF SessionInv, Stands
  <1>3. p \in Task /\ Numbering(w) /\ To(w) \in Terminal
    BY <1>2 DEF Climbs
  <1>4. Row(w)' = Row(w) /\ To(w)' = To(w) /\ Over(w)' = Over(w) /\ Moved(w)' = Moved(w)
    BY <1>1 DEF Row, To, Over, Moved
  <1>5. Once(w)' = Once(w) /\ (Rolled(w)' <=> Rolled(w))
    BY <1>4 DEF Once, Rolled
  <1>6. Twice(w)' = Twice(w) /\ Numbering(w)'
    BY <1>1, <1>3, <1>4, <1>5 DEF Twice, Numbering
  <1>7. CASE RollsUp(Sees(w), p)
    <2>1. Write(w, p, closed) /\ Goto(w, "emit", p) /\ "emit" \in Steps
      BY <1>7 DEF Look, Steps
    <2>2. /\ closed \in {"DONE", "FAILED"}
          /\ RollUp(Sees(w), p) = [Sees(w) EXCEPT ![p] = closed]
      BY <1>3, <1>7, RollUpWrites DEF Sees
    <2>3. closed \in TaskStatus
      BY <2>2 DEF TaskStatus
    <2> HIDE DEF closed
    <2>4. /\ Sees(w)' = [Sees(w) EXCEPT ![p] = closed]
          /\ view'[w] = [view[w] EXCEPT ![p] = closed]
          /\ \A v \in Worker \ {w} : view'[v] = view[v]
          /\ view' \in [Worker -> [Task -> TaskStatus \cup {"ABSENT"}]]
      BY <1>1, <1>2, <1>3, <2>1, <2>3, SeesItsWrite
    <2>5. /\ pc' \in [Worker -> Steps] /\ on' \in [Worker -> Task \cup {NoTask}]
          /\ pc'[w] = "emit" /\ on'[w] = p
          /\ \A v \in Worker \ {w} : pc'[v] = pc[v] /\ on'[v] = on[v]
      BY <1>2, <1>3, <2>1 DEF Goto, SessionTypeOK
    <2>6. SessionTypeOK'
      BY <1>1, <1>2, <2>4, <2>5 DEF SessionTypeOK
    <2>7. Aside(w)
      BY <1>1, <2>4, <2>5 DEF Aside
    <2>8. \A r \in Task : view'[w][r] # "ABSENT" => committed'[r] # "ABSENT" /\ held'[r] = w
      <3>1. view[w] \in [Task -> TaskStatus \cup {"ABSENT"}]
        BY <1>2 DEF SessionTypeOK
      <3>2. \A r \in Task : view[w][r] # "ABSENT" => committed[r] # "ABSENT" /\ held[r] = w
        BY <1>2 DEF Holds
      <3>3. QED
        BY <1>1, <1>2, <2>4, <3>1, <3>2
    <2>9. Holds(w)'
      BY <1>1, <1>2, <1>4, <2>8 DEF Holds
    <2>10. Sees(w)' = RollUp(Sees(w), p)
      BY <2>2, <2>4
    <2>11. ASSUME p = Over(w), Sees(w) = Moved(w)
           PROVE  Emits(w)'
      <3>1. Sees(w)' = Once(w) /\ Rolled(w)
        BY <1>3, <1>7, <2>10, <2>11 DEF Once, Rolled
      <3>2. QED
        BY <1>4, <1>5, <1>6, <2>5, <2>11, <3>1 DEF Emits
    <2>12. ASSUME Rolled(w), p = Parent[Over(w)], Sees(w) = Once(w)
           PROVE  Emits(w)'
      <3>1. Sees(w)' = Twice(w) /\ RollsUp(Once(w), Parent[Over(w)])
        BY <1>7, <2>10, <2>12 DEF Twice
      <3>2. QED
        BY <1>4, <1>5, <1>6, <2>5, <2>12, <3>1 DEF Emits
    <2>13. Emits(w)'
      BY <1>2, <2>11, <2>12 DEF Climbs
    <2>14. Stands(w)'
      BY <2>5, <2>9, <2>13 DEF Stands
    <2>15. QED
      BY <1>1, <2>6, <2>7, <2>14, StatementPreserves
  <1>8. CASE ~ RollsUp(Sees(w), p)
    <2>1. Goto(w, "commit", p) /\ view' = view /\ "commit" \in Steps
      BY <1>8 DEF Look, Steps
    <2>2. SessionTypeOK' /\ Aside(w) /\ pc'[w] = "commit"
      BY <1>1, <1>2, <1>3, <2>1 DEF Goto, SessionTypeOK, Aside
    <2>3. Sees(w) = Settled(committed, Row(w), To(w))
      BY <1>2, <1>8, SettledByClimbing DEF Climbs
    <2>4. /\ Holds(w)' /\ Sees(w)' = Sees(w)
          /\ Settled(committed, Row(w), To(w))' = Settled(committed, Row(w), To(w))
      <3>1. ~ (pc[w] = "look" /\ \E r \in Resources : r \in Wants(w))
        BY <1>1 DEF Wants
      <3>2. \A r \in Resources : held[r] = w \/ r \in Wants(w) => held'[r] = w
        BY <1>1, <3>1
      <3>3. QED
        BY <1>1, <1>2, <2>1, <3>2, TransitionCarries
    <2>5. Stands(w)'
      BY <1>6, <2>2, <2>3, <2>4 DEF Stands, Settles
    <2>6. QED
      BY <1>1, <2>2, <2>5, StatementPreserves
  <1>9. QED
    BY <1>7, <1>8

\* create takes the company's task counter before its row.
LEMMA TakeNumberPreserves ==
    ASSUME SessionInv, NEW w \in Worker, TakeNumber(w)
    PROVE  SessionInv'
  <1>1. /\ pc[w] = "number" /\ Acquire(w) /\ Goto(w, "insert", on[w])
        /\ UNCHANGED <<committed, asked, view>>
    BY DEF TakeNumber
  <1>2. Files(w) /\ view[w] = NothingWritten /\ SessionTypeOK
    BY <1>1 DEF SessionInv, Stands
  <1>3. "insert" \in Steps /\ on[w] \in Task \cup {NoTask}
    BY <1>2 DEF Steps, SessionTypeOK
  <1>4. /\ SessionTypeOK' /\ Aside(w) /\ pc'[w] = "insert" /\ on'[w] = on[w]
        /\ \A r \in Resources : held[r] = w \/ r \in Wants(w) => held'[r] = w
        /\ asked' = asked /\ view' = view /\ committed' = committed
    BY <1>1, <1>2, <1>3, GoesOn
  <1>5. held'["task_number"] = w
    BY <1>1, <1>4, RowsAreResources DEF Wants, Counters
  <1>6. Files(w)'
    BY <1>2, <1>4 DEF Files
  <1>7. Stands(w)'
    BY <1>2, <1>4, <1>5, <1>6 DEF Stands
  <1>8. QED
    BY <1>4, <1>7, StatementPreserves

\* The new row is the only one it writes, and is not there before.
LEMMA InsertPreserves ==
    ASSUME SessionInv, NEW w \in Worker, Insert(w)
    PROVE  SessionInv'
  <1>1. pc[w] = "insert"
    BY DEF Insert
  <1>2. Files(w) /\ view[w] = NothingWritten /\ held["task_number"] = w /\ SessionTypeOK
    BY <1>1 DEF SessionInv, Stands
  <1>3. on[w] \in Task
    BY <1>2, SessionAssumption DEF Files, SessionAssumption
  <1>4. CASE committed[on[w]] # "ABSENT"
    <2>1. End(w) /\ UNCHANGED committed
      BY <1>4 DEF Insert
    <2>2. QED
      BY <2>1, EndPreserves
  <1>5. CASE committed[on[w]] = "ABSENT"
    <2>1. /\ Acquire(w) /\ Write(w, on[w], "DRAFT") /\ Goto(w, "file_event", on[w])
          /\ UNCHANGED <<committed, asked>>
      BY <1>5 DEF Insert
    <2>2. "DRAFT" \in TaskStatus /\ "file_event" \in Steps
      BY DEF TaskStatus, Steps
    <2>3. /\ view'[w] = [view[w] EXCEPT ![on[w]] = "DRAFT"]
          /\ \A v \in Worker \ {w} : view'[v] = view[v]
          /\ view' \in [Worker -> [Task -> TaskStatus \cup {"ABSENT"}]]
      BY <1>2, <1>3, <2>1, <2>2, SeesItsWrite
    <2>4. /\ held' \in [Resources -> Worker \cup {NoWorker}]
          /\ \A v \in Worker, r \in Resources : held[r] = v => held'[r] = v
      BY <1>2, <2>1, LocksAreKept
    <2>5. /\ pc' \in [Worker -> Steps] /\ on' \in [Worker -> Task \cup {NoTask}]
          /\ pc'[w] = "file_event" /\ on'[w] = on[w]
          /\ \A v \in Worker \ {w} : pc'[v] = pc[v] /\ on'[v] = on[v]
      BY <1>2, <1>3, <2>1, <2>2 DEF Goto, SessionTypeOK
    <2>6. SessionTypeOK'
      BY <1>2, <2>1, <2>3, <2>4, <2>5 DEF SessionTypeOK
    <2>7. Aside(w)
      BY <2>1, <2>3, <2>4, <2>5 DEF Aside
    <2>8. held'["task_number"] = w
      BY <1>2, <2>4, RowsAreResources DEF Counters
    <2>9. Filed(w)'
      BY <1>2, <1>5, <2>1, <2>3, <2>5, <2>8 DEF Filed, Files
    <2>10. Stands(w)'
      BY <2>5, <2>9 DEF Stands
    <2>11. QED
      BY <2>1, <2>6, <2>7, <2>10, StatementPreserves
  <1>6. QED
    BY <1>4, <1>5

\* The statements of allocateBudget and persistStep write no status.
LEMMA BlankGoesOn ==
    ASSUME SessionInv, NEW w \in Worker,
           pc[w] \in {"budget_parent", "budget_task", "budget_event", "step_event", "step_cost"},
           NEW step \in {"budget_task", "budget_event", "step_cost", "commit"},
           Acquire(w), Goto(w, step, on[w]), UNCHANGED <<committed, asked, view>>,
           step \in {"step_cost", "commit"} => "event_seq" \in Wants(w) \/ Numbering(w)
    PROVE  SessionInv'
  <1>1. step \in Steps /\ on[w] \in Task \cup {NoTask} /\ SessionTypeOK /\ Blank(w)
    BY DEF Steps, SessionInv, SessionTypeOK, Stands
  <1>2. /\ SessionTypeOK' /\ Aside(w) /\ pc'[w] = step
        /\ \A r \in Resources : held[r] = w \/ r \in Wants(w) => held'[r] = w
        /\ asked' = asked /\ view' = view /\ committed' = committed
    BY <1>1, GoesOn
  <1>3. Blank(w)'
    BY <1>1, <1>2 DEF Blank
  <1>4. step \in {"step_cost", "commit"} => Numbering(w)'
    BY <1>2, RowsAreResources DEF Counters, Numbering
  <1>5. Stands(w)'
    BY <1>2, <1>3, <1>4 DEF Stands
  <1>6. QED
    BY <1>2, <1>5, StatementPreserves
LEMMA OwnRowsPreserve ==
    ASSUME SessionInv, NEW w \in Worker, BudgetStatement(w) \/ StepStatement(w)
    PROVE  SessionInv'
  <1>1. CASE LockBudgetParent(w)
    <2>1. pc[w] = "budget_parent" /\ UNCHANGED committed
      BY <1>1 DEF LockBudgetParent
    <2>2. CASE End(w)
      BY <2>1, <2>2, EndPreserves
    <2>3. CASE Acquire(w) /\ Goto(w, "budget_task", on[w]) /\ UNCHANGED <<asked, view>>
      BY <2>1, <2>3, BlankGoesOn
    <2>4. QED
      BY <1>1, <2>2, <2>3 DEF LockBudgetParent
  <1>2. CASE WriteBudget(w)
    <2>1. /\ pc[w] = "budget_task" /\ Acquire(w) /\ Goto(w, "budget_event", on[w])
          /\ UNCHANGED <<committed, asked, view>>
      BY <1>2 DEF WriteBudget
    <2>2. QED
      BY <2>1, BlankGoesOn
  <1>3. CASE StepEvent(w)
    <2>1. pc[w] = "step_event" /\ Acquire(w) /\ UNCHANGED <<committed, asked, view>>
      BY <1>3 DEF StepEvent
    <2>2. PICK step \in {"step_cost", "commit"} : Goto(w, step, on[w])
      BY <1>3 DEF StepEvent
    <2>3. "event_seq" \in Wants(w)
      BY <2>1 DEF Wants
    <2>4. QED
      BY <2>1, <2>2, <2>3, BlankGoesOn
  <1>4. CASE StepCost(w)
    <2>1. /\ pc[w] = "step_cost" /\ Acquire(w) /\ Goto(w, "commit", on[w])
          /\ UNCHANGED <<committed, asked, view>>
      BY <1>4 DEF StepCost
    <2>2. Numbering(w)
      BY <2>1 DEF SessionInv, Stands
    <2>3. QED
      BY <2>1, <2>2, BlankGoesOn
  <1>5. QED
    BY <1>1, <1>2, <1>3, <1>4 DEF BudgetStatement, StepStatement

\* The last event numbers the transaction.
LEMMA LastEventPreserves ==
    ASSUME SessionInv, NEW w \in Worker, LastEvent(w)
    PROVE  SessionInv'
  <1>1. /\ pc[w] \in {"file_event", "budget_event"} /\ Acquire(w)
        /\ Goto(w, "commit", on[w]) /\ UNCHANGED <<committed, asked, view>>
    BY DEF LastEvent
  <1>2. "event_seq" \in Wants(w)
    BY <1>1 DEF Wants
  <1>3. CASE pc[w] = "budget_event"
    BY <1>1, <1>2, <1>3, BlankGoesOn
  <1>4. CASE pc[w] = "file_event"
    <2>1. "commit" \in Steps /\ on[w] \in Task \cup {NoTask} /\ SessionTypeOK /\ Filed(w)
      BY <1>4 DEF Steps, SessionInv, SessionTypeOK, Stands
    <2>2. /\ SessionTypeOK' /\ Aside(w) /\ pc'[w] = "commit" /\ on'[w] = on[w]
          /\ \A r \in Resources : held[r] = w \/ r \in Wants(w) => held'[r] = w
          /\ asked' = asked /\ view' = view /\ committed' = committed
      BY <1>1, <2>1, GoesOn
    <2>3. Filed(w)' /\ Numbering(w)'
      BY <1>2, <2>1, <2>2, RowsAreResources DEF Filed, Files, Counters, Numbering
    <2>4. Stands(w)'
      BY <2>2, <2>3 DEF Stands
    <2>5. QED
      BY <2>2, <2>4, StatementPreserves
  <1>5. QED
    BY <1>1, <1>3, <1>4

-----------------------------------------------------------------------------
(* The commit.                                                             *)

\* What a session is about to commit.
LEMMA CommitsWhatItHolds ==
    ASSUME SessionInv, NEW w \in Worker, pc[w] = "commit"
    PROVE  /\ Numbering(w) /\ (Blank(w) \/ Filed(w) \/ Settles(w))
           /\ \A r \in Task : Sees(w)[r] # committed[r] =>
                 \/ Filed(w) /\ r = on[w] /\ committed[r] = "ABSENT"
                 \/ Settles(w) /\ held[r] = w /\ committed[r] # "ABSENT"
           /\ \A r \in Task : committed[r] # "ABSENT" => Sees(w)[r] # "ABSENT"
           /\ Sees(w) \in [Task -> TaskStatus \cup {"ABSENT"}]
  <1>1. Numbering(w) /\ (Blank(w) \/ Filed(w) \/ Settles(w)) /\ SessionTypeOK
    BY DEF SessionInv, Stands
  <1>2. \A r \in Task : Sees(w)[r] # committed[r] => view[w][r] # "ABSENT"
    BY DEF Sees
  <1>3. \A r \in Task : Blank(w) => view[w][r] = "ABSENT"
    BY DEF Blank, NothingWritten
  <1>4. \A r \in Task : Filed(w) /\ view[w][r] # "ABSENT" => r = on[w] /\ committed[r] = "ABSENT"
    BY DEF Filed, NothingWritten
  <1>5. \A r \in Task : Settles(w) /\ view[w][r] # "ABSENT" => held[r] = w /\ committed[r] # "ABSENT"
    BY DEF Settles, Holds
  <1>6. Sees(w) \in [Task -> TaskStatus \cup {"ABSENT"}]
    BY <1>1 DEF Sees, SessionTypeOK
  <1>7. \A r \in Task : committed[r] # "ABSENT" => Sees(w)[r] # "ABSENT"
    BY <1>1, NothingIsUnfiled
  <1>8. QED
    BY <1>1, <1>2, <1>3, <1>4, <1>5, <1>6, <1>7

\* No other session is past its counter, and the rows it has locked are as they were.
LEMMA CommitLeavesStanding ==
    ASSUME SessionInv, NEW w \in Worker, NEW v \in Worker \ {w},
           pc[w] = "commit", committed' = Sees(w), Aside(w)
    PROVE  Stands(v)'
  <1>1. /\ pc'[v] = pc[v] /\ on'[v] = on[v] /\ asked'[v] = asked[v] /\ view'[v] = view[v]
        /\ \A r \in Resources : held[r] = v => held'[r] = v
    BY DEF Aside
  <1>2. /\ Numbering(w)
        /\ \A r \in Task : committed'[r] # committed[r] =>
             \/ Filed(w) /\ r = on[w] /\ committed[r] = "ABSENT"
             \/ Settles(w) /\ held[r] = w /\ committed[r] # "ABSENT"
        /\ \A r \in Task : committed[r] # "ABSENT" => committed'[r] # "ABSENT"
    BY CommitsWhatItHolds
  <1>3. Stands(v) /\ SessionTypeOK
    BY DEF SessionInv
  <1>4. ~ Numbering(v)
    BY <1>2 DEF Numbering
  <1>5. Row(v)' = Row(v) /\ To(v)' = To(v) /\ Blank(v)' = Blank(v)
    BY <1>1 DEF Row, To, Blank
  <1>6. Files(v) => Files(v)'
    <2>1. Files(v) /\ Parent[on[v]] # NoTask => Parent[on[v]] \in Task
      BY SessionAssumption, TreeAssumption DEF Files, SessionAssumption, TreeAssumption
    <2>2. QED
      BY <1>1, <1>2, <2>1 DEF Files
  <1>7. Filed(v) => Filed(v)'
    <2>1. SUFFICES ASSUME Filed(v)
                   PROVE  Filed(v)'
      OBVIOUS
    <2>2. on[v] \in Task /\ committed[on[v]] = "ABSENT" /\ held["task_number"] = v
      BY <2>1, SessionAssumption DEF Filed, Files, SessionAssumption
    <2>3. ~ Filed(w)
      BY <2>2 DEF Filed
    <2>4. committed'[on[v]] = "ABSENT"
      BY <1>2, <2>2, <2>3
    <2>5. held'["task_number"] = v
      BY <1>1, <2>2, RowsAreResources DEF Counters
    <2>6. Files(v)'
      BY <1>6, <2>1 DEF Filed
    <2>7. view'[v] = [NothingWritten EXCEPT ![on'[v]] = "DRAFT"]
      BY <1>1, <2>1 DEF Filed
    <2>8. QED
      BY <1>1, <2>4, <2>5, <2>6, <2>7 DEF Filed
  <1>8. Holds(v) => Holds(v)'
    <2>1. SUFFICES ASSUME Holds(v)
                   PROVE  Holds(v)'
      OBVIOUS
    <2>2. asked[v] \in Moves /\ Row(v) \in Task /\ held[Row(v)] = v
      BY <2>1, MovesAreMoves DEF Holds
    <2>3. committed[Row(v)] # "ABSENT"
      BY <1>3, <2>1, MovedRowExists DEF SessionInv
    <2>4. committed'[Row(v)] = committed[Row(v)]
      BY <1>2, <2>2, <2>3
    <2>5. held'[Row(v)] = v
      BY <1>1, <2>2, RowsAreResources
    <2>6. \A r \in Task : view'[v][r] # "ABSENT" => committed'[r] # "ABSENT" /\ held'[r] = v
      BY <1>1, <1>2, <2>1, RowsAreResources DEF Holds
    <2>7. CanTransition(committed'[Row(v)], To(v)) /\ ~ ClosedByHand(Row(v), To(v))
      BY <2>1, <2>4 DEF Holds
    <2>8. QED
      BY <1>1, <1>5, <2>2, <2>5, <2>6, <2>7 DEF Holds
  <1>9. Emits(v) => Emits(v)'
    BY <1>1, <1>4, <1>5 DEF Emits
  <1>10. pc'[v] \notin {"lock_parent", "look", "commit", "step_cost"}
    BY <1>1, <1>3, <1>4 DEF Stands, Climbs
  <1>11. held["task_number"] = v => held'["task_number"] = v
    BY <1>1, RowsAreResources DEF Counters
  <1>12. (pc[v] \in {"number", "insert"} => Files(v) /\ view[v] = NothingWritten)
         => (pc'[v] \in {"number", "insert"} => Files(v)' /\ view'[v] = NothingWritten)
    BY <1>1, <1>6
  <1>13. (pc[v] = "emit" => Holds(v) /\ Emits(v)) => (pc'[v] = "emit" => Holds(v)' /\ Emits(v)')
    BY <1>1, <1>8, <1>9
  <1>14. (pc[v] = "file_event" => Filed(v)) => (pc'[v] = "file_event" => Filed(v)')
    BY <1>1, <1>7
  <1>15. (pc[v] = "lock_task" => view[v] = NothingWritten /\ asked[v] \in Moves /\ on[v] = Row(v))
         => (pc'[v] = "lock_task" => view'[v] = NothingWritten /\ asked'[v] \in Moves /\ on'[v] = Row(v)')
    BY <1>1, <1>5
  <1>16. (pc[v] = "idle" => Blank(v)) => (pc'[v] = "idle" => Blank(v)')
    BY <1>1, <1>5
  <1>17. (pc[v] \in {"budget_parent", "budget_task", "budget_event", "step_event", "step_cost"} => Blank(v))
         => (pc'[v] \in {"budget_parent", "budget_task", "budget_event", "step_event", "step_cost"} => Blank(v)')
    BY <1>1, <1>5
  <1>18. (pc[v] = "insert" => held["task_number"] = v) => (pc'[v] = "insert" => held'["task_number"] = v)
    BY <1>1, <1>11
  <1>19. QED
    BY <1>3, <1>10, <1>12, <1>13, <1>14, <1>15, <1>16, <1>17, <1>18 DEF Stands

LEMMA CommitPreserves ==
    ASSUME SessionInv, NEW w \in Worker, Commit(w)
    PROVE  SessionInv'
  <1>1. pc[w] = "commit" /\ committed' = Sees(w) /\ End(w) /\ SessionTypeOK
    BY DEF Commit, SessionInv
  <1>2. /\ Blank(w) \/ Filed(w) \/ Settles(w)
        /\ \A r \in Task : committed'[r] # committed[r] =>
             \/ Filed(w) /\ r = on[w] /\ committed[r] = "ABSENT"
             \/ Settles(w) /\ held[r] = w /\ committed[r] # "ABSENT"
        /\ \A r \in Task : committed[r] # "ABSENT" => committed'[r] # "ABSENT"
        /\ committed' \in [Task -> TaskStatus \cup {"ABSENT"}]
    BY <1>1, CommitsWhatItHolds
  <1>3. SessionTypeOK' /\ Aside(w) /\ Stands(w)'
    BY <1>1, <1>2, EndsBlank
  <1>4. \A v \in Worker \ {w} : Stands(v)'
    BY <1>1, <1>3, CommitLeavesStanding
  <1>5. ASSUME NEW t \in Task, committed'[t] # "ABSENT"
        PROVE  t \in Rows /\ (Parent[t] # NoTask => committed'[Parent[t]] # "ABSENT")
    <2>1. Parent[t] # NoTask => Parent[t] \in Task
      BY TreeAssumption DEF TreeAssumption
    <2>2. CASE committed[t] # "ABSENT"
      BY <1>2, <2>1, <2>2 DEF SessionInv, Rooted
    <2>3. CASE committed[t] = "ABSENT"
      <3>1. Filed(w) /\ t = on[w]
        BY <1>2, <1>5, <2>3
      <3>2. t \in Filings /\ (Parent[t] # NoTask => committed[Parent[t]] # "ABSENT")
        BY <3>1 DEF Filed, Files
      <3>3. QED
        BY <1>2, <2>1, <3>2 DEF Rows
    <2>4. QED
      BY <2>2, <2>3
  <1>6. Rooted'
    BY <1>5 DEF Rooted
  <1>7. QED
    BY <1>3, <1>4, <1>6 DEF SessionInv

-----------------------------------------------------------------------------
LEMMA SessionInitEstablishes == SessionInit => SessionInv
  <1> SUFFICES ASSUME SessionInit
               PROVE  SessionInv
    OBVIOUS
  <1>1. SessionTypeOK
    BY SessionAssumption DEF SessionInit, SessionTypeOK, SessionAssumption, Steps, NothingWritten
  <1>2. Rooted
    BY RowAssumption DEF SessionInit, Rooted, Rows, RowAssumption
  <1>3. \A w \in Worker : Stands(w)
    BY DEF SessionInit, Stands, Blank
  <1>4. QED
    BY <1>1, <1>2, <1>3 DEF SessionInv

LEMMA SessionNextPreserves == SessionInv /\ [SessionNext]_sessionVars => SessionInv'
  <1> SUFFICES ASSUME SessionInv, [SessionNext]_sessionVars
               PROVE  SessionInv'
    OBVIOUS
  <1>1. CASE UNCHANGED sessionVars
    <2>1. /\ committed' = committed /\ held' = held /\ pc' = pc
          /\ on' = on /\ asked' = asked /\ view' = view
      BY <1>1 DEF sessionVars
    <2>2. SessionTypeOK' /\ Rooted'
      BY <2>1 DEF SessionInv, SessionTypeOK, Rooted
    <2>3. \A v \in Worker : Stands(v)'
      BY <2>1, LeftAloneStands DEF SessionInv
    <2>4. QED
      BY <2>2, <2>3 DEF SessionInv
  <1>2. ASSUME NEW w \in Worker,
               \/ Begin(w) \/ BeginFiling(w) \/ BeginBudget(w) \/ BeginStep(w)
               \/ Statement(w) \/ Lose(w) \/ DetectDeadlock(w)
        PROVE  SessionInv'
    <2>1. CASE Begin(w)
      BY <2>1, BeginPreserves
    <2>2. CASE BeginFiling(w) \/ BeginBudget(w) \/ BeginStep(w)
      BY <2>2, OpeningsPreserve
    <2>3. CASE TransitionStatement(w)
      BY <2>3, LockTaskPreserves, EmitPreserves, LockParentPreserves, LookPreserves
         DEF TransitionStatement
    <2>4. CASE CreateStatement(w)
      BY <2>4, TakeNumberPreserves, InsertPreserves DEF CreateStatement
    <2>5. CASE BudgetStatement(w) \/ StepStatement(w)
      BY <2>5, OwnRowsPreserve
    <2>6. CASE LastEvent(w)
      BY <2>6, LastEventPreserves
    <2>7. CASE Commit(w)
      BY <2>7, CommitPreserves
    <2>8. CASE Lose(w) \/ DetectDeadlock(w)
      <3>1. End(w) /\ UNCHANGED committed
        BY <2>8 DEF Lose, DetectDeadlock
      <3>2. QED
        BY <3>1, EndPreserves
    <2>9. QED
      BY <1>2, <2>1, <2>2, <2>3, <2>4, <2>5, <2>6, <2>7, <2>8 DEF Statement
  <1>3. QED
    BY <1>1, <1>2 DEF SessionNext

\* Every session stands where its statements put it, in every reachable state.
THEOREM SessionsStand == SessionSpec => []SessionInv
  <1>1. QED
    BY SessionInitEstablishes, SessionNextPreserves, PTL DEF SessionSpec

-----------------------------------------------------------------------------
(* The refinement of the board.                                            *)

LEMMA CommittedReadsAlike ==
    /\ CommittedBoard!TaskStatus = TaskStatus
    /\ \A from, to : CommittedBoard!CanTransition(from, to) <=> CanTransition(from, to)
    /\ \A t, to : CommittedBoard!ClosedByHand(t, to) <=> ClosedByHand(t, to)
    /\ \A s, t, to : CommittedBoard!Settled(s, t, to) = Settled(s, t, to)
  <1>1. CommittedBoard!TaskStatus = TaskStatus /\ CommittedBoard!Terminal = Terminal
        /\ CommittedBoard!Containers = Containers
    BY DEF CommittedBoard!TaskStatus, TaskStatus, CommittedBoard!Terminal, Terminal,
           CommittedBoard!Containers, Containers
  <1>2. \A from : CommittedBoard!Successors(from) = Successors(from)
    BY DEF CommittedBoard!Successors, Successors
  <1>3. \A s, p : CommittedBoard!Children(s, p) = Children(s, p)
    BY DEF CommittedBoard!Children, Children
  <1>4. \A s, p : CommittedBoard!RollsUp(s, p) <=> RollsUp(s, p)
    BY <1>1, <1>3 DEF CommittedBoard!RollsUp, RollsUp
  <1>5. \A s, p : CommittedBoard!Unreplaced(s, p) <=> Unreplaced(s, p)
    BY <1>3 DEF CommittedBoard!Unreplaced, Unreplaced
  <1>6. \A s, p : CommittedBoard!RollUp(s, p) = RollUp(s, p)
    BY <1>4, <1>5 DEF CommittedBoard!RollUp, RollUp
  <1>7. \A s, t, to : CommittedBoard!Settled(s, t, to) = Settled(s, t, to)
    BY <1>1, <1>4, <1>6 DEF CommittedBoard!Settled, Settled
  <1>8. QED
    BY <1>1, <1>2, <1>7 DEF CommittedBoard!CanTransition, CanTransition,
                            CommittedBoard!ClosedByHand, ClosedByHand

\* A commit is one step of the board; no other statement changes it.
LEMMA CommitIsBoardStep ==
    ASSUME SessionInv, [SessionNext]_sessionVars
    PROVE  [CommittedBoard!Next]_committed
  <1>1. ASSUME NEW w \in Worker, Commit(w)
        PROVE  [CommittedBoard!Next]_committed
    <2>1. pc[w] = "commit" /\ committed' = Sees(w) /\ SessionTypeOK /\ Rooted
      BY <1>1 DEF Commit, SessionInv
    <2>2. CASE Blank(w)
      <3>1. committed' = committed
        BY <2>1, <2>2, SeesCommitted DEF Blank
      <3>2. QED
        BY <3>1
    <2>3. CASE Filed(w)
      <3>1. /\ on[w] \in Task /\ committed[on[w]] = "ABSENT"
            /\ Parent[on[w]] # NoTask => committed[Parent[on[w]]] # "ABSENT"
        BY <2>3, SessionAssumption DEF Filed, Files, SessionAssumption
      <3>2. "DRAFT" \in TaskStatus
        BY DEF TaskStatus
      <3>3. committed' = [committed EXCEPT ![on[w]] = "DRAFT"]
        BY <2>1, <2>3, <3>1, <3>2, SeesOneRow DEF Filed
      <3>4. CommittedBoard!File(on[w])
        BY <3>1, <3>3 DEF CommittedBoard!File
      <3>5. QED
        BY <3>1, <3>4 DEF CommittedBoard!Next
    <2>4. CASE Settles(w)
      <3>1. Row(w) \in Task /\ To(w) \in TaskStatus
        BY <2>1, <2>4, MovedRowExists DEF Settles
      <3>2. /\ CanTransition(committed[Row(w)], To(w)) /\ ~ ClosedByHand(Row(w), To(w))
            /\ committed' = Settled(committed, Row(w), To(w))
        BY <2>1, <2>4 DEF Settles, Holds
      <3>3. CommittedBoard!Move(Row(w), To(w))
        BY <3>2, CommittedReadsAlike DEF CommittedBoard!Move
      <3>4. QED
        BY <3>1, <3>3, CommittedReadsAlike DEF CommittedBoard!Next
    <2>5. QED
      BY <2>1, <2>2, <2>3, <2>4, CommitsWhatItHolds
  <1>2. CASE \E w \in Worker : Commit(w)
    BY <1>1, <1>2
  <1>3. CASE ~ \E w \in Worker : Commit(w)
    <2>1. UNCHANGED committed
      BY <1>3 DEF SessionNext, sessionVars, Begin, BeginFiling, BeginBudget, BeginStep, Statement,
                  TransitionStatement, LockTask, Emit, LockParent, Look, CreateStatement,
                  TakeNumber, Insert, BudgetStatement, LockBudgetParent, WriteBudget, LastEvent,
                  StepStatement, StepEvent, StepCost, Lose, DetectDeadlock
    <2>2. QED
      BY <2>1
  <1>4. QED
    BY <1>2, <1>3

\* Whatever the sessions interleave, what they commit is the board's behaviour:
\* no lost update, no stale guard, no roll-up that missed a sibling.
THEOREM TransactionsRefineBoard == SessionSpec => CommitsFollowTheBoard
  <1>1. SessionInit => CommittedBoard!Init
    BY DEF SessionInit, CommittedBoard!Init
  <1>2. SessionInv /\ [SessionNext]_sessionVars => [CommittedBoard!Next]_committed
    BY CommitIsBoardStep
  <1>3. QED
    BY <1>1, <1>2, SessionsStand, PTL DEF SessionSpec, CommitsFollowTheBoard, CommittedBoard!Spec
================================================================================

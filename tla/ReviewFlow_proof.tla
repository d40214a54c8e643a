---------------------------- MODULE ReviewFlow_proof ----------------------------
(***************************************************************************)
(* Theorems about ReviewFlow for every set of agents, every assignment of  *)
(* reviewers and every bound.                                              *)
(***************************************************************************)
EXTENDS ReviewFlow, SequenceTheorems, WellFoundedInduction, TLAPS

-----------------------------------------------------------------------------
(* Rows, runs and how a step changes them.                                 *)

\* A set of row numbers that is not empty has a least one.
LEMMA Least ==
    ASSUME NEW S \in SUBSET Nat, S # {}
    PROVE  \E m \in S : \A n \in S : m <= n
  <1>1. PICK m \in S : \A n \in S : ~ (<<n, m>> \in OpToRel(<, Nat))
    BY NatLessThanWellFounded, WFMin
  <1>2. \A n \in S : ~ (n < m)
    BY <1>1 DEF OpToRel
  <1>3. QED
    BY <1>2

LEMMA Reading ==
    ASSUME TypeOK
    PROVE  /\ Len(rows) \in Nat
           /\ DOMAIN rows = 1..Len(rows)
           /\ DOMAIN run = 1..Len(rows)
           /\ \A i \in 1..Len(rows) : rows[i] \in Row /\ run[i] \in Run
  BY LenProperties, ElementOfSeq DEF TypeOK

\* The oldest row of a kind is a row of that kind.
LEMMA OldestIsOne ==
    ASSUME TypeOK, NEW kind, OfKind(kind) # {}
    PROVE  OldestOf(kind) \in OfKind(kind)
  <1>1. OfKind(kind) \in SUBSET Nat
    BY Reading DEF OfKind
  <1>2. \E i \in OfKind(kind) : \A j \in OfKind(kind) : i <= j
    BY <1>1, Least
  <1>3. QED
    BY <1>2 DEF OldestOf

\* The rows after row i is given another state, and after one is appended.
Restated(i, state, decided) ==
    /\ rows' \in Seq(Row) /\ Len(rows') = Len(rows) /\ DOMAIN rows' = 1..Len(rows)
    /\ \A j \in 1..Len(rows) : j # i => rows'[j] = rows[j]
    /\ rows'[i] = [rows[i] EXCEPT !.state = state, !.decided = decided]

Added(kind, author) ==
    /\ rows' \in Seq(Row) /\ Len(rows') = Len(rows) + 1
    /\ DOMAIN rows' = 1..(Len(rows) + 1)
    /\ \A j \in 1..Len(rows) : rows'[j] = rows[j]
    /\ \E a \in MayReview(kind, author) :
          rows'[Len(rows) + 1] = [kind |-> kind, author |-> author, reviewer |-> a,
                                  state |-> "pending", decided |-> FALSE]

\* The runs after run i goes on as r, and after one is appended.
GoesOn(i, r) ==
    /\ run' \in Seq(Run) /\ Len(run') = Len(rows) /\ DOMAIN run' = 1..Len(rows)
    /\ \A j \in 1..Len(rows) : j # i => run'[j] = run[j]
    /\ run'[i] = r

Joined ==
    /\ run' \in Seq(Run) /\ Len(run') = Len(rows) + 1
    /\ DOMAIN run' = 1..(Len(rows) + 1)
    /\ \A j \in 1..Len(rows) : run'[j] = run[j]
    /\ run'[Len(rows) + 1] = NoRun

RowStates == Open \cup {"changes_requested", "approved"}

LEMMA Restating ==
    ASSUME TypeOK, NEW i \in DOMAIN rows, NEW state \in RowStates, NEW decided \in BOOLEAN,
           rows' = [rows EXCEPT ![i] = [rows[i] EXCEPT !.state = state, !.decided = decided]]
    PROVE  Restated(i, state, decided)
  <1> DEFINE e == [rows[i] EXCEPT !.state = state, !.decided = decided]
  <1>1. e \in Row
    BY Reading DEF Row, RowStates
  <1>2. i \in 1..Len(rows) /\ rows \in Seq(Row) /\ rows' = [rows EXCEPT ![i] = e]
    BY Reading DEF TypeOK
  <1> HIDE DEF e
  <1>3. /\ rows' \in Seq(Row)
        /\ Len(rows') = Len(rows)
        /\ \A j \in 1..Len(rows) : rows'[j] = IF j = i THEN e ELSE rows[j]
    BY <1>1, <1>2, ExceptSeq
  <1>4. DOMAIN rows' = 1..Len(rows)
    BY <1>3, LenProperties
  <1>5. QED
    BY <1>2, <1>3, <1>4 DEF Restated, e

LEMMA GoingOn ==
    ASSUME TypeOK, NEW i \in DOMAIN rows, NEW r \in Run, run' = [run EXCEPT ![i] = r]
    PROVE  GoesOn(i, r)
  <1>1. i \in 1..Len(run) /\ run \in Seq(Run) /\ Len(run) = Len(rows)
    BY Reading DEF TypeOK
  <1>2. /\ run' \in Seq(Run)
        /\ Len(run') = Len(run)
        /\ \A j \in 1..Len(run) : run'[j] = IF j = i THEN r ELSE run[j]
    BY <1>1, ExceptSeq
  <1>3. DOMAIN run' = 1..Len(run)
    BY <1>2, LenProperties
  <1>4. QED
    BY <1>1, <1>2, <1>3 DEF GoesOn

LEMMA Joining ==
    ASSUME FlowAssumption, TypeOK, run' = Append(run, NoRun)
    PROVE  Joined
  <1>1. run \in Seq(Run) /\ Len(run) = Len(rows)
    BY DEF TypeOK
  <1>2. NoRun \in Run
    BY DEF FlowAssumption, NoRun, Run
  <1> HIDE DEF NoRun
  <1>3. /\ run' \in Seq(Run)
        /\ Len(run') = Len(run) + 1
        /\ \A j \in 1..Len(run) : run'[j] = run[j]
        /\ run'[Len(run) + 1] = NoRun
    BY <1>1, <1>2, AppendProperties
  <1>4. DOMAIN run' = 1..(Len(run) + 1)
    BY <1>3, LenProperties
  <1>5. QED
    BY <1>1, <1>3, <1>4 DEF Joined

LEMMA Stepping ==
    ASSUME FlowAssumption, TypeOK, NEW i \in DOMAIN rows, NEW to \in Steps \cup {"over"},
           Step(i, to)
    PROVE  GoesOn(i, [run[i] EXCEPT !.at = to, !.tries = 0])
  <1>1. run[i] \in Run /\ 0 \in 0..Attempts
    BY Reading DEF FlowAssumption
  <1>2. [run[i] EXCEPT !.at = to, !.tries = 0] \in Run
    BY <1>1 DEF Run
  <1>3. run' = [run EXCEPT ![i] = [run[i] EXCEPT !.at = to, !.tries = 0]]
    BY Reading DEF Step, TypeOK
  <1>4. QED
    BY <1>2, <1>3, GoingOn

LEMMA Starting ==
    ASSUME FlowAssumption, TypeOK, NEW i \in DOMAIN rows, run' = Started(run, i)
    PROVE  GoesOn(i, IF run[i].at \in Steps THEN run[i] ELSE [NoRun EXCEPT !.at = "start"])
  <1> DEFINE r == IF run[i].at \in Steps THEN run[i] ELSE [NoRun EXCEPT !.at = "start"]
  <1> HIDE DEF r
  <1>0. run[i] \in Run /\ 0 \in 0..Attempts /\ 0 \in 0..MaxRows
    BY Reading DEF FlowAssumption
  <1>1. r \in Run
    <2>1. CASE run[i].at \in Steps
      BY <1>0, <2>1 DEF r
    <2>2. CASE run[i].at \notin Steps
      BY <1>0, <2>2 DEF r, Run, NoRun, Steps
    <2>3. QED
      BY <2>1, <2>2
  <1>2. run' = [run EXCEPT ![i] = r]
    BY Reading DEF Started, r
  <1>3. GoesOn(i, r)
    BY <1>1, <1>2, GoingOn
  <1>4. QED
    BY <1>3 DEF r

LEMMA Requested ==
    ASSUME FlowAssumption, TypeOK, NEW kind \in Kinds, NEW author \in Agent, NEW i \in Nat,
           RequestReview(kind, author, i)
    PROVE  \/ /\ i \in OfKind(kind)
              /\ rows[i].state # "approved"
              /\ rows[i].state \in Open => rows' = rows
              /\ Restated(i, IF rows[i].state \in Open THEN rows[i].state ELSE "pending",
                          rows[i].decided)
           \/ /\ OfKind(kind) = {} \/ \E j \in OfKind(kind) : rows[j].state = "approved"
              /\ i = Len(rows) + 1 /\ i <= MaxRows
              /\ Added(kind, author)
  <1>1. CASE OfKind(kind) # {} /\ rows[OldestOf(kind)].state # "approved"
    <2> DEFINE s == IF rows[i].state \in Open THEN rows[i].state ELSE "pending"
    <2>1. /\ i = OldestOf(kind)
          /\ rows' = [rows EXCEPT ![i].state = IF @ \in Open THEN @ ELSE "pending"]
      BY <1>1 DEF RequestReview
    <2>2. i \in OfKind(kind)
      BY <1>1, <2>1, OldestIsOne
    <2>3. i \in DOMAIN rows /\ rows[i] \in Row
      BY <2>2, Reading DEF OfKind
    <2>4. rows' = [rows EXCEPT ![i] = [rows[i] EXCEPT !.state = s]]
      BY <2>1, <2>3
    <2>5. /\ [rows[i] EXCEPT !.state = s]
               = [rows[i] EXCEPT !.state = s, !.decided = rows[i].decided]
          /\ rows[i].state \in Open => [rows[i] EXCEPT !.state = s] = rows[i]
      BY <2>3 DEF Row
    <2>6. s \in RowStates /\ rows[i].decided \in BOOLEAN
      BY <2>3 DEF Row, RowStates, Open
    <2>7. rows' = [rows EXCEPT ![i] = [rows[i] EXCEPT !.state = s, !.decided = rows[i].decided]]
      BY <2>4, <2>5
    <2> HIDE DEF s
    <2>8. Restated(i, s, rows[i].decided)
      BY <2>3, <2>6, <2>7, Restating
    <2>9. rows[i].state \in Open => rows' = rows
      <3>1. rows \in [1..Len(rows) -> Row]
        BY LenProperties DEF TypeOK
      <3>2. [rows EXCEPT ![i] = rows[i]] = rows
        BY <3>1
      <3>3. QED
        BY <2>4, <2>5, <3>2
    <2>10. QED
      BY <1>1, <2>1, <2>2, <2>8, <2>9 DEF s
  <1>2. CASE ~ (OfKind(kind) # {} /\ rows[OldestOf(kind)].state # "approved")
    <2>1. PICK a \in MayReview(kind, author) :
             rows' = Append(rows, [kind |-> kind, author |-> author, reviewer |-> a,
                                   state |-> "pending", decided |-> FALSE])
      BY <1>2 DEF RequestReview
    <2>2. a \in Agent
      BY FlowAssumption DEF FlowAssumption, MayReview
    <2>3. [kind |-> kind, author |-> author, reviewer |-> a,
           state |-> "pending", decided |-> FALSE] \in Row
      BY <2>2 DEF Row, Open
    <2> DEFINE row == [kind |-> kind, author |-> author, reviewer |-> a,
                       state |-> "pending", decided |-> FALSE]
    <2>4. Added(kind, author)
      <3>1. rows \in Seq(Row)
        BY DEF TypeOK
      <3> HIDE DEF row
      <3>2. /\ rows' \in Seq(Row)
            /\ Len(rows') = Len(rows) + 1
            /\ \A j \in 1..Len(rows) : rows'[j] = rows[j]
            /\ rows'[Len(rows) + 1] = row
        BY <2>1, <2>3, <3>1, AppendProperties DEF row
      <3>3. DOMAIN rows' = 1..(Len(rows) + 1)
        BY <3>2, LenProperties
      <3>4. QED
        BY <3>2, <3>3 DEF Added, row
    <2>5. i = Len(rows) + 1 /\ i <= MaxRows
      BY <1>2 DEF RequestReview
    <2>6. QED
      BY <1>2, <2>4, <2>5, OldestIsOne
  <1>3. QED
    BY <1>1, <1>2

-----------------------------------------------------------------------------
(* The inductive invariant.                                                *)

Accepted == \E i \in OfKind("code") : rows[i].state = "approved"
AtStep(at) == {i \in DOMAIN run : run[i].at \in at}

\* A task has one code row, sent back and reopened until it is approved; QA
\* rows follow it, are never sent back and are open one at a time.
RoundsInv ==
    /\ \A i, j \in OfKind("code") : i = j
    /\ \A i, j \in OfKind("qa") \cap OpenRows : i = j
    /\ \A i \in OfKind("qa") : rows[i].state # "changes_requested"
    /\ OfKind("qa") # {} => Accepted

\* The status says how far the code round is.
StatusInv ==
    /\ status \in {"IN_PROGRESS", "CHANGES_REQUESTED", "REVIEW", "QA", "DONE", "CANCELLED"}
    /\ status \in {"QA", "DONE"} => Accepted
    /\ status \in {"IN_PROGRESS", "CHANGES_REQUESTED", "REVIEW"} => ~ Accepted
    /\ status \in {"IN_PROGRESS", "CHANGES_REQUESTED"} =>
          /\ opener = NoAgent /\ sweep.kind = "none"
          /\ OfKind("code") \cap OpenRows = {}

\* Who is about to open a round finds none of its kind open when it comes to it.
OpenersInv ==
    /\ opener # NoAgent =>
          sweep.kind = "none" /\ ~ Accepted /\ OfKind("code") \cap OpenRows = {}
    /\ sweep.kind = "code" => ~ Accepted /\ OfKind("code") \cap OpenRows = {}
    /\ sweep.kind = "qa" =>
          Accepted /\ OfKind("qa") \cap OpenRows = {} /\ AtStep({"open_qa"}) = {}
    /\ sweep.kind # "none" => sweep.by # NoAgent
    /\ \A i \in AtStep({"open_qa"}) : rows[i].kind = "code" /\ Accepted /\ OfKind("qa") = {}

Fits(i) ==
    /\ run[i].at = "submit" => run[i].verdict # "none"
    /\ rows[i].kind = "qa" => run[i].verdict # "changes_requested"
    /\ run[i].at \in {"merge", "dispatch", "close"} => rows[i].kind = "qa"
    /\ run[i].at = "start_qa" => run[i].next \in DOMAIN rows

RunsInv == \A i \in DOMAIN run : Fits(i)

\* One run holds the key from its claim to the recorded answer, and a key that
\* died in flight is never taken over.
KeyInv ==
    /\ \A i, j \in AtStep({"dispatch", "close"}) : i = j
    /\ AtStep({"dispatch", "close"}) # {} => key = "in_flight"
    /\ AtStep({"dispatch"}) # {} => merges = 0
    /\ AtStep({"close"}) # {} => merges = 1
    /\ key \in {"free", "failed", "conflict"} => merges = 0
    /\ key = "in_flight" => merges \in 0..1
    /\ key = "merged" => merges = 1
    /\ status = "DONE" => merges = 1

\* Until the owner changes, everybody who asks for a round is the first owner.
HandsInv ==
    /\ merges > 0 => \A k \in Kinds : \E i \in OfKind(k) : rows[i].state = "approved"
    /\ reassigned = 0 =>
          /\ owner = FirstOwner /\ authors \subseteq {FirstOwner}
          /\ opener \in {NoAgent, FirstOwner}
          /\ sweep.by \in {NoAgent, FirstOwner}
          /\ \A i \in DOMAIN rows : rows[i].reviewer # FirstOwner

Chain == RoundsInv /\ StatusInv /\ OpenersInv /\ RunsInv /\ KeyInv /\ HandsInv
IInv == TypeOK /\ Chain

-----------------------------------------------------------------------------
(* What the invariant reads after a step.                                  *)

LEMMA SameRows ==
    ASSUME rows' = rows
    PROVE  /\ Accepted' = Accepted /\ OpenRows' = OpenRows
           /\ \A k : OfKind(k)' = OfKind(k)
  BY DEF Accepted, OpenRows, OfKind

LEMMA SameRuns ==
    ASSUME run' = run
    PROVE  \A at : AtStep(at)' = AtStep(at)
  BY DEF AtStep

LEMMA RestatedRows ==
    ASSUME TypeOK, NEW i \in DOMAIN rows, NEW state \in RowStates, NEW decided \in BOOLEAN,
           Restated(i, state, decided)
    PROVE  /\ DOMAIN rows' = DOMAIN rows
           /\ rows'[i].state = state
           /\ \A j \in DOMAIN rows :
                  /\ rows'[j].kind = rows[j].kind /\ rows'[j].reviewer = rows[j].reviewer
                  /\ j # i => rows'[j].state = rows[j].state
           /\ OpenRows' = IF state \in Open THEN OpenRows \cup {i} ELSE OpenRows \ {i}
           /\ \A k : OfKind(k)' = OfKind(k)
  <1>1. /\ DOMAIN rows' = DOMAIN rows
        /\ rows'[i].state = state
        /\ \A j \in DOMAIN rows :
               /\ rows'[j].kind = rows[j].kind /\ rows'[j].reviewer = rows[j].reviewer
               /\ j # i => rows'[j].state = rows[j].state
    BY Reading DEF Restated, Row
  <1>2. QED
    BY <1>1 DEF OpenRows, OfKind

LEMMA AddedRows ==
    ASSUME FlowAssumption, TypeOK, NEW kind \in Kinds, NEW author, Added(kind, author)
    PROVE  LET new == Len(rows) + 1 IN
           /\ DOMAIN rows' = DOMAIN rows \cup {new} /\ new \notin DOMAIN rows
           /\ \A j \in DOMAIN rows : rows'[j] = rows[j]
           /\ rows'[new].kind = kind /\ rows'[new].state = "pending"
           /\ rows'[new].reviewer \in Agent \ {author}
           /\ OpenRows' = OpenRows \cup {new}
           /\ OfKind(kind)' = OfKind(kind) \cup {new}
           /\ \A k : k # kind => OfKind(k)' = OfKind(k)
           /\ Accepted' = Accepted
  <1> DEFINE new == Len(rows) + 1
  <1>1. /\ DOMAIN rows' = DOMAIN rows \cup {new} /\ new \notin DOMAIN rows
        /\ \A j \in DOMAIN rows : rows'[j] = rows[j]
    BY Reading DEF Added
  <1>2. /\ rows'[new].kind = kind /\ rows'[new].state = "pending"
        /\ rows'[new].reviewer \in Agent \ {author}
    BY DEF Added, MayReview, FlowAssumption
  <1> HIDE DEF new
  <1>3. OpenRows' = OpenRows \cup {new}
    BY <1>1, <1>2 DEF OpenRows, Open
  <1>4. OfKind(kind)' = OfKind(kind) \cup {new} /\ \A k : k # kind => OfKind(k)' = OfKind(k)
    BY <1>1, <1>2 DEF OfKind
  <1>5. Accepted' = Accepted
    BY <1>1, <1>2 DEF Accepted, OfKind
  <1>6. QED
    BY <1>1, <1>2, <1>3, <1>4, <1>5 DEF new

LEMMA RunGoneOn ==
    ASSUME TypeOK, NEW i \in DOMAIN rows, NEW r, GoesOn(i, r)
    PROVE  /\ DOMAIN run' = DOMAIN run /\ run'[i] = r
           /\ \A j \in DOMAIN run : j # i => run'[j] = run[j]
           /\ \A at : AtStep(at)' = IF r.at \in at THEN AtStep(at) \cup {i} ELSE AtStep(at) \ {i}
  <1>1. /\ DOMAIN run' = DOMAIN run /\ run'[i] = r /\ i \in DOMAIN run
        /\ \A j \in DOMAIN run : j # i => run'[j] = run[j]
    BY Reading DEF GoesOn
  <1>2. QED
    BY <1>1 DEF AtStep

LEMMA RunJoined ==
    ASSUME TypeOK, Joined
    PROVE  /\ DOMAIN run' = DOMAIN run \cup {Len(rows) + 1}
           /\ \A j \in DOMAIN run : run'[j] = run[j]
           /\ run'[Len(rows) + 1] = NoRun
           /\ \A at : "none" \notin at => AtStep(at)' = AtStep(at)
  <1>1. /\ DOMAIN run' = DOMAIN run \cup {Len(rows) + 1}
        /\ \A j \in DOMAIN run : run'[j] = run[j]
        /\ run'[Len(rows) + 1] = NoRun
    BY Reading DEF Joined
  <1>2. NoRun.at = "none"
    BY DEF NoRun
  <1>3. QED
    BY <1>1, <1>2 DEF AtStep

LEMMA Numbers ==
    ASSUME FlowAssumption
    PROVE  /\ Attempts \in Nat /\ MaxRows \in Nat /\ MaxReassign \in Nat /\ MaxMishap \in Nat
           /\ NoAgent \notin Agent /\ FirstOwner \in Agent
  BY DEF FlowAssumption

SweepType(n) == [kind: Kinds \cup {"none"}, by: Agent \cup {NoAgent}, row: 0..n]

LEMMA SweepTypeGrows ==
    ASSUME NEW n \in Nat, NEW m \in Nat, n <= m
    PROVE  SweepType(n) \subseteq SweepType(m)
  BY DEF SweepType

LEMMA Zero == \A n \in Nat : 0 \in 0..n
  OBVIOUS

LEMMA OneMore ==
    ASSUME NEW n \in Nat, NEW k \in 0..n, k < n
    PROVE  k + 1 \in 0..n /\ k + 1 # 0
  OBVIOUS

LEMMA Statuses ==
    {"IN_PROGRESS", "CHANGES_REQUESTED", "REVIEW", "QA", "DONE", "CANCELLED"} \subseteq TaskStatus
  BY DEF TaskStatus

-----------------------------------------------------------------------------
(* Opening a round.                                                        *)

\* The code row is sent back or there is none: the round opened is the only one.
LEMMA CodeRound ==
    ASSUME FlowAssumption, IInv, NEW author \in Agent, NEW i \in 1..MaxRows,
           RequestReview("code", author, i), run' = RunsFor(i),
           ~ Accepted, OfKind("code") \cap OpenRows = {},
           reassigned = 0 => author = FirstOwner,
           UNCHANGED <<status, owner, key, merges>>
    PROVE  /\ rows' \in Seq(Row) /\ Len(rows') <= MaxRows
           /\ run' \in Seq(Run) /\ Len(run') = Len(rows')
           /\ Len(rows') >= Len(rows) /\ i \in 0..Len(rows')
           /\ RoundsInv' /\ RunsInv' /\ KeyInv'
           /\ ~ Accepted' /\ merges = 0
           /\ AtStep({"open_qa"})' = {}
           /\ reassigned = 0 => \A j \in DOMAIN rows' : rows'[j].reviewer # FirstOwner
  <1>0. /\ TypeOK
        /\ MaxRows \in Nat /\ i \in Nat /\ "code" \in Kinds /\ "qa" \in Kinds
        /\ Len(rows) \in Nat /\ Len(rows) <= MaxRows /\ Len(run) = Len(rows)
        /\ rows \in Seq(Row) /\ run \in Seq(Run)
        /\ DOMAIN rows = 1..Len(rows) /\ DOMAIN run = 1..Len(rows)
  <2>1. TypeOK
    BY DEF IInv
  <2>2. MaxRows \in Nat /\ i \in Nat
    BY Numbers
  <2>3. Len(rows) \in Nat /\ DOMAIN rows = 1..Len(rows) /\ DOMAIN run = 1..Len(rows)
    BY <2>1, Reading
  <2>4. Len(rows) <= MaxRows /\ Len(run) = Len(rows) /\ rows \in Seq(Row) /\ run \in Seq(Run)
    BY <2>1 DEF TypeOK
  <2>5. QED
    BY <2>1, <2>2, <2>3, <2>4 DEF Kinds
  <1>1. /\ OfKind("qa") = {} /\ AtStep({"open_qa"}) = {} /\ merges = 0
        /\ reassigned = 0 => \A j \in DOMAIN rows : rows[j].reviewer # FirstOwner
        /\ RunsInv /\ KeyInv
        /\ \A j, k \in OfKind("code") : j = k
    <2>1. RoundsInv /\ OpenersInv /\ RunsInv /\ KeyInv /\ HandsInv /\ merges \in Nat
      BY DEF IInv, Chain, TypeOK
    <2>2. OfKind("qa") = {} /\ \A j, k \in OfKind("code") : j = k
      BY <2>1 DEF RoundsInv
    <2>3. AtStep({"open_qa"}) = {}
      BY <2>1 DEF OpenersInv
    <2>4. merges = 0
      BY <1>0, <2>1 DEF HandsInv, Accepted
    <2>5. reassigned = 0 => \A j \in DOMAIN rows : rows[j].reviewer # FirstOwner
      BY <2>1 DEF HandsInv
    <2>6. QED
      BY <2>1, <2>2, <2>3, <2>4, <2>5
  <1>2. CASE i \in OfKind("code") /\ Restated(i, "pending", rows[i].decided)
    <2>1. i \in DOMAIN rows /\ rows[i] \in Row
      BY <1>0, <1>2, ElementOfSeq DEF OfKind
    <2>2. run' = run
      <3>1. ~ (i > Len(rows))
        BY <1>0, <2>1
      <3>2. QED
        BY <3>1 DEF Inserted, RunsFor
    <2>3. rows[i].decided \in BOOLEAN /\ "pending" \in RowStates /\ "pending" \in Open
      BY <2>1 DEF Row, RowStates, Open
    <2>4. /\ DOMAIN rows' = DOMAIN rows /\ rows'[i].state = "pending"
          /\ \A j \in DOMAIN rows :
                /\ rows'[j].kind = rows[j].kind /\ rows'[j].reviewer = rows[j].reviewer
                /\ j # i => rows'[j].state = rows[j].state
          /\ OpenRows' = OpenRows \cup {i} /\ \A k : OfKind(k)' = OfKind(k)
      BY <1>0, <1>2, <2>1, <2>3, RestatedRows
    <2>5. ~ Accepted'
      BY <2>4 DEF Accepted, OfKind
    <2>6. \A at : AtStep(at)' = AtStep(at)
      BY <2>2, SameRuns
    <2>7. RoundsInv'
      BY <1>1, <2>4 DEF RoundsInv
    <2>8. RunsInv'
      BY <1>0, <1>1, <2>2, <2>4 DEF RunsInv, Fits
    <2>9. KeyInv'
      BY <1>1, <2>6 DEF KeyInv
    <2>10. rows' \in Seq(Row) /\ Len(rows') = Len(rows)
      BY <1>2 DEF Restated
    <2>11. run' \in Seq(Run) /\ Len(run') = Len(rows') /\ Len(rows') <= MaxRows
      BY <1>0, <2>2, <2>10
    <2>12. Len(rows') >= Len(rows) /\ i \in 0..Len(rows')
      BY <1>0, <2>1, <2>10
    <2>13. QED
      BY <1>1, <2>4, <2>5, <2>6, <2>7, <2>8, <2>9, <2>10, <2>11, <2>12
  <1>3. CASE OfKind("code") = {} /\ i = Len(rows) + 1 /\ Added("code", author)
    <2>1. run' = Append(run, NoRun)
      <3>1. i > Len(rows)
        BY <1>0, <1>3
      <3>2. QED
        BY <3>1 DEF Inserted, RunsFor
    <2>2. Joined
      BY <1>0, <2>1, Joining
    <2>3. /\ DOMAIN rows' = DOMAIN rows \cup {i} /\ i \notin DOMAIN rows
          /\ \A j \in DOMAIN rows : rows'[j] = rows[j]
          /\ rows'[i].kind = "code" /\ rows'[i].state = "pending"
          /\ rows'[i].reviewer \in Agent \ {author}
          /\ OpenRows' = OpenRows \cup {i}
          /\ OfKind("code")' = {i} /\ OfKind("qa")' = OfKind("qa")
          /\ ~ Accepted'
      BY <1>0, <1>3, AddedRows
    <2>4. /\ DOMAIN run' = DOMAIN run \cup {i}
          /\ \A j \in DOMAIN run : run'[j] = run[j]
          /\ run'[i] = NoRun
          /\ \A at : "none" \notin at => AtStep(at)' = AtStep(at)
      BY <1>0, <1>3, <2>2, RunJoined
    <2>5. /\ AtStep({"open_qa"})' = AtStep({"open_qa"})
          /\ AtStep({"dispatch", "close"})' = AtStep({"dispatch", "close"})
          /\ AtStep({"dispatch"})' = AtStep({"dispatch"})
          /\ AtStep({"close"})' = AtStep({"close"})
      BY <2>4
    <2>6. RoundsInv'
      BY <1>1, <2>3 DEF RoundsInv
    <2>7. NoRun.at = "none" /\ NoRun.verdict = "none"
      BY DEF NoRun
    <2>8. RunsInv'
      <3>1. ASSUME NEW j \in DOMAIN run PROVE Fits(j)'
        <4>1. j \in DOMAIN rows /\ Fits(j)
          BY <1>0, <1>1 DEF RunsInv
        <4>2. rows'[j] = rows[j] /\ run'[j] = run[j] /\ DOMAIN rows \subseteq DOMAIN rows'
          BY <2>3, <2>4, <4>1
        <4>3. QED
          BY <4>1, <4>2 DEF Fits
      <3>2. Fits(i)'
        BY <2>4, <2>7 DEF Fits
      <3>3. QED
        BY <2>4, <3>1, <3>2 DEF RunsInv
    <2>9. KeyInv'
      BY <1>1, <2>5 DEF KeyInv
    <2>10. /\ rows' \in Seq(Row) /\ Len(rows') = Len(rows) + 1
           /\ run' \in Seq(Run) /\ Len(run') = Len(rows) + 1
      BY <1>3, <2>2 DEF Added, Joined
    <2>11. run' \in Seq(Run) /\ Len(run') = Len(rows') /\ Len(rows') <= MaxRows
      BY <1>0, <1>3, <2>10
    <2>12. Len(rows') >= Len(rows) /\ i \in 0..Len(rows')
      BY <1>0, <1>3, <2>10
    <2>13. reassigned = 0 => \A j \in DOMAIN rows' : rows'[j].reviewer # FirstOwner
      BY <1>1, <2>3
    <2>14. QED
      BY <1>1, <2>3, <2>5, <2>6, <2>8, <2>9, <2>10, <2>11, <2>12, <2>13
  <1>4. OfKind("code") = {} \/ ~ \E j \in OfKind("code") : rows[j].state = "approved"
    BY DEF Accepted
  <1>5. \A j \in OfKind("code") : rows[j].state \notin Open
    BY DEF OpenRows, OfKind
  <1>6. QED
    BY <1>0, <1>2, <1>3, <1>4, <1>5, Requested

\* The QA rows are all approved: a new one is added.
LEMMA QaRound ==
    ASSUME FlowAssumption, IInv, NEW author \in Agent, NEW i \in 1..MaxRows,
           RequestReview("qa", author, i),
           Accepted, OfKind("qa") \cap OpenRows = {},
           reassigned = 0 => author = FirstOwner
    PROVE  /\ i = Len(rows) + 1 /\ i <= MaxRows /\ Inserted(i) /\ RunsFor(i) = Append(run, NoRun)
           /\ rows' \in Seq(Row) /\ Len(rows') = i
           /\ DOMAIN rows' = DOMAIN rows \cup {i} /\ i \notin DOMAIN rows
           /\ \A j \in DOMAIN rows : rows'[j] = rows[j]
           /\ rows'[i].kind = "qa" /\ rows'[i].state = "pending"
           /\ OfKind("code")' = OfKind("code") /\ OfKind("qa")' = OfKind("qa") \cup {i}
           /\ OpenRows' = OpenRows \cup {i}
           /\ RoundsInv' /\ Accepted'
           /\ reassigned = 0 => \A j \in DOMAIN rows' : rows'[j].reviewer # FirstOwner
  <1>0. TypeOK /\ RoundsInv /\ HandsInv
    BY DEF IInv, Chain
  <1>1. /\ Len(rows) \in Nat /\ i \in Nat
        /\ DOMAIN rows = 1..Len(rows) /\ DOMAIN run = 1..Len(rows)
    BY <1>0, Reading, Numbers
  <1>2. \A j \in OfKind("qa") : rows[j].state = "approved"
    <2>1. \A j \in OfKind("qa") : rows[j].state \notin Open /\ rows[j].state # "changes_requested"
      BY <1>0 DEF RoundsInv, OpenRows, OfKind
    <2>2. \A j \in OfKind("qa") : rows[j] \in Row
      BY <1>0, Reading DEF OfKind
    <2>3. QED
      BY <2>1, <2>2 DEF Row
  <1>3. i = Len(rows) + 1 /\ i <= MaxRows /\ Added("qa", author)
    BY <1>0, <1>1, <1>2, Requested DEF Kinds
  <1>4. i > Len(rows)
    BY <1>1, <1>3
  <1>5. Inserted(i) /\ RunsFor(i) = Append(run, NoRun)
    BY <1>4 DEF Inserted, RunsFor
  <1>6. /\ DOMAIN rows' = DOMAIN rows \cup {i} /\ i \notin DOMAIN rows
        /\ \A j \in DOMAIN rows : rows'[j] = rows[j]
        /\ rows'[i].kind = "qa" /\ rows'[i].state = "pending"
        /\ rows'[i].reviewer \in Agent \ {author}
        /\ OpenRows' = OpenRows \cup {i}
        /\ OfKind("qa")' = OfKind("qa") \cup {i} /\ OfKind("code")' = OfKind("code")
        /\ Accepted'
    BY <1>0, <1>3, AddedRows DEF Kinds
  <1>7. RoundsInv'
    <2>1. \A j \in OfKind("qa") : rows'[j] = rows[j]
      BY <1>6 DEF OfKind
    <2>2. \A j, k \in OfKind("qa")' \cap OpenRows' : j = k
      BY <1>6
    <2>3. \A j \in OfKind("qa")' : rows'[j].state # "changes_requested"
      BY <1>0, <1>6, <2>1 DEF RoundsInv
    <2>4. \A j, k \in OfKind("code")' : j = k
      BY <1>0, <1>6 DEF RoundsInv
    <2>5. QED
      BY <1>6, <2>2, <2>3, <2>4 DEF RoundsInv
  <1>8. reassigned = 0 => \A j \in DOMAIN rows' : rows'[j].reviewer # FirstOwner
    BY <1>0, <1>6 DEF HandsInv
  <1>9. rows' \in Seq(Row) /\ Len(rows') = Len(rows) + 1
    BY <1>3 DEF Added
  <1>10. QED
    BY <1>3, <1>5, <1>6, <1>7, <1>8, <1>9

-----------------------------------------------------------------------------
(* Steps of the runs that leave the rows alone.                            *)

LEMMA RunsMove ==
    ASSUME FlowAssumption, IInv,
           run' \in Seq(Run), Len(run') = Len(rows),
           \A j \in DOMAIN run : Fits(j)',
           \A j \in DOMAIN run :
               run'[j].at \in {"open_qa", "dispatch", "close"} => run'[j].at = run[j].at,
           rows' = rows, status' = status, owner' = owner, opener' = opener,
           key' = key, merges' = merges, authors' = authors, reassigned' = reassigned,
           toStart' \in {0, toStart}, sweep' \in {sweep, AtRest}, mishaps' \in 0..MaxMishap
    PROVE  IInv'
  <1>1. TypeOK /\ RoundsInv /\ StatusInv /\ OpenersInv /\ KeyInv /\ HandsInv
    BY DEF IInv, Chain
  <1>2. Len(rows) \in Nat /\ DOMAIN run = 1..Len(rows) /\ DOMAIN run' = DOMAIN run
    <2>1. Len(rows) \in Nat /\ DOMAIN run = 1..Len(rows)
      BY <1>1, Reading
    <2>2. DOMAIN run' = 1..Len(rows)
      BY LenProperties
    <2>3. QED
      BY <2>1, <2>2
  <1>3. TypeOK'
    <2>0. 0 \in 0..Len(rows)
      BY <1>2, Zero
    <2>1. AtRest \in SweepType(Len(rows))
      BY <2>0 DEF AtRest, SweepType
    <2>2. sweep' \in SweepType(Len(rows))
      BY <1>1, <2>1 DEF TypeOK, SweepType
    <2>3. toStart' \in 0..Len(rows)
      BY <1>1, <2>0 DEF TypeOK
    <2>4. QED
      BY <1>1, <2>2, <2>3 DEF TypeOK, SweepType
  <1>4. Accepted' = Accepted /\ OpenRows' = OpenRows /\ \A k : OfKind(k)' = OfKind(k)
    BY SameRows
  <1>5. /\ AtStep({"open_qa"})' \subseteq AtStep({"open_qa"})
        /\ AtStep({"dispatch", "close"})' \subseteq AtStep({"dispatch", "close"})
        /\ AtStep({"dispatch"})' \subseteq AtStep({"dispatch"})
        /\ AtStep({"close"})' \subseteq AtStep({"close"})
    BY <1>2 DEF AtStep
  <1>6. AtRest.kind = "none" /\ AtRest.by = NoAgent
    BY DEF AtRest
  <1>7. RoundsInv' /\ StatusInv'
    BY <1>1, <1>4, <1>6 DEF RoundsInv, StatusInv
  <1>8. OpenersInv'
    BY <1>1, <1>4, <1>5, <1>6 DEF OpenersInv
  <1>9. RunsInv'
    BY <1>2 DEF RunsInv
  <1>10. KeyInv'
    BY <1>1, <1>5 DEF KeyInv
  <1>11. HandsInv'
    BY <1>1, <1>4, <1>6 DEF HandsInv
  <1>12. QED
    BY <1>3, <1>7, <1>8, <1>9, <1>10, <1>11 DEF IInv, Chain

\* The same when one run moves.
LEMMA RunMoves ==
    ASSUME FlowAssumption, IInv, NEW i \in DOMAIN rows, NEW r, GoesOn(i, r),
           r.at = run[i].at \/ r.at \notin {"open_qa", "dispatch", "close"},
           r.at = "submit" => r.verdict # "none",
           rows[i].kind = "qa" => r.verdict # "changes_requested",
           r.at \in {"merge", "dispatch", "close"} => rows[i].kind = "qa",
           r.at = "start_qa" => r.next \in DOMAIN rows,
           rows' = rows, status' = status, owner' = owner, opener' = opener,
           key' = key, merges' = merges, authors' = authors, reassigned' = reassigned,
           toStart' \in {0, toStart}, sweep' \in {sweep, AtRest}, mishaps' \in 0..MaxMishap
    PROVE  IInv'
  <1>1. TypeOK /\ RunsInv
    BY DEF IInv, Chain
  <1>2. /\ DOMAIN run' = DOMAIN run /\ run'[i] = r
        /\ \A j \in DOMAIN run : j # i => run'[j] = run[j]
    BY <1>1, RunGoneOn
  <1>3. ASSUME NEW j \in DOMAIN run PROVE Fits(j)'
    <2>1. CASE j = i
      BY <1>2, <2>1 DEF Fits
    <2>2. CASE j # i
      BY <1>1, <1>2, <2>2 DEF Fits, RunsInv
    <2>3. QED
      BY <2>1, <2>2
  <1>4. \A j \in DOMAIN run :
            run'[j].at \in {"open_qa", "dispatch", "close"} => run'[j].at = run[j].at
    BY <1>2
  <1>5. run' \in Seq(Run) /\ Len(run') = Len(rows)
    BY DEF GoesOn
  <1>6. QED
    BY <1>3, <1>4, <1>5, RunsMove

-----------------------------------------------------------------------------
(* The owner.                                                              *)

LEMMA SubmitWorkKeeps ==
    ASSUME FlowAssumption, IInv, SubmitWork
    PROVE  IInv'
  <1> USE DEF IInv, SubmitWork
  <1>1. TypeOK'
    BY Statuses DEF TypeOK
  <1>2. rows' = rows /\ run' = run
    OBVIOUS
  <1>3. Accepted' = Accepted /\ OpenRows' = OpenRows /\ \A k : OfKind(k)' = OfKind(k)
    BY <1>2, SameRows
  <1>4. \A at : AtStep(at)' = AtStep(at)
    BY <1>2, SameRuns
  <1>5. Chain'
    BY <1>3, <1>4 DEF Chain, RoundsInv, StatusInv, OpenersInv, RunsInv, Fits, KeyInv, HandsInv, TypeOK
  <1>6. QED
    BY <1>1, <1>5

LEMMA OpenCodeReviewKeeps ==
    ASSUME FlowAssumption, IInv, OpenCodeReview
    PROVE  IInv'
  <1>1. /\ opener \in Agent /\ opener' = NoAgent
        /\ status' = status /\ sweep' = sweep
        /\ UNCHANGED <<owner, key, merges, authors, reassigned, mishaps>>
    BY DEF IInv, OpenCodeReview, elsewhere, TypeOK
  <1>2. ~ Accepted /\ OfKind("code") \cap OpenRows = {} /\ sweep.kind = "none"
    BY DEF IInv, Chain, OpenersInv, OpenCodeReview
  <1>3. CASE rows' = rows /\ run' = run /\ toStart' = toStart
    <2>1. TypeOK'
      BY <1>1, <1>3 DEF IInv, TypeOK
    <2>2. Accepted' = Accepted /\ OpenRows' = OpenRows /\ \A k : OfKind(k)' = OfKind(k)
      BY <1>3, SameRows
    <2>3. \A at : AtStep(at)' = AtStep(at)
      BY <1>3, SameRuns
    <2>4. Chain'
      BY <1>1, <1>3, <2>2, <2>3 DEF IInv, Chain, RoundsInv, StatusInv, OpenersInv, RunsInv, Fits, KeyInv, HandsInv
    <2>5. QED
      BY <2>1, <2>4 DEF IInv
  <1>4. ASSUME NEW i \in 1..MaxRows, RequestReview("code", opener, i), run' = RunsFor(i),
               toStart' = i
        PROVE  IInv'
    <2>1. reassigned = 0 => opener = FirstOwner
      BY <1>1, Numbers DEF IInv, Chain, HandsInv
    <2>2. /\ rows' \in Seq(Row) /\ Len(rows') <= MaxRows
          /\ run' \in Seq(Run) /\ Len(run') = Len(rows')
          /\ Len(rows') >= Len(rows) /\ i \in 0..Len(rows')
          /\ RoundsInv' /\ RunsInv' /\ KeyInv'
          /\ ~ Accepted' /\ merges = 0
          /\ AtStep({"open_qa"})' = {}
          /\ reassigned = 0 => \A j \in DOMAIN rows' : rows'[j].reviewer # FirstOwner
      BY <1>1, <1>2, <1>4, <2>1, CodeRound
    <2>3. Len(rows') \in Nat /\ Len(rows) \in Nat
      BY <2>2, LenProperties DEF IInv, TypeOK
    <2>4. TypeOK'
      <3>1. sweep' \in SweepType(Len(rows'))
        <4>1. sweep \in SweepType(Len(rows))
          BY DEF IInv, TypeOK, SweepType
        <4>2. QED
          BY <1>1, <2>2, <2>3, <4>1, SweepTypeGrows
      <3>2. QED
        BY <1>1, <1>4, <2>2, <3>1 DEF IInv, TypeOK, SweepType
    <2>5. StatusInv' /\ OpenersInv'
      BY <1>1, <1>2, <2>2 DEF IInv, Chain, StatusInv, OpenersInv
    <2>6. HandsInv'
      <3>1. HandsInv
        BY DEF IInv, Chain
      <3>2. merges' = 0
        BY <1>1, <2>2
      <3>3. reassigned' = 0 =>
              /\ owner' = FirstOwner /\ authors' \subseteq {FirstOwner}
              /\ opener' \in {NoAgent, FirstOwner}
              /\ sweep'.by \in {NoAgent, FirstOwner}
              /\ \A j \in DOMAIN rows' : rows'[j].reviewer # FirstOwner
        BY <1>1, <2>2, <3>1 DEF HandsInv
      <3>4. QED
        BY <3>2, <3>3 DEF HandsInv
    <2>7. QED
      BY <2>2, <2>4, <2>5, <2>6 DEF IInv, Chain
  <1>5. QED
    BY <1>3, <1>4 DEF OpenCodeReview

LEMMA StartWorkflowKeeps ==
    ASSUME FlowAssumption, IInv, StartWorkflow
    PROVE  IInv'
  <1>1. TypeOK /\ RunsInv
    BY DEF IInv, Chain
  <1>2. toStart \in DOMAIN rows /\ toStart \in DOMAIN run
    <2>1. toStart \in 0..Len(rows) /\ toStart # 0
      BY <1>1 DEF TypeOK, StartWorkflow
    <2>2. Len(rows) \in Nat /\ DOMAIN rows = 1..Len(rows) /\ DOMAIN run = 1..Len(rows)
      BY <1>1, Reading
    <2>3. QED
      BY <2>1, <2>2
  <1> DEFINE r == IF run[toStart].at \in Steps THEN run[toStart]
                  ELSE [NoRun EXCEPT !.at = "start"]
  <1>3. GoesOn(toStart, r)
    BY <1>1, <1>2, Starting DEF StartWorkflow
  <1>4. Fits(toStart)
    BY <1>1, <1>2 DEF RunsInv
  <1>5. /\ r.at = run[toStart].at \/ r.at = "start"
        /\ r.at = "submit" => r.verdict # "none"
        /\ rows[toStart].kind = "qa" => r.verdict # "changes_requested"
        /\ r.at \in {"merge", "dispatch", "close"} => rows[toStart].kind = "qa"
        /\ r.at = "start_qa" => r.next \in DOMAIN rows
    BY <1>4 DEF Fits, NoRun
  <1>6. /\ rows' = rows /\ status' = status /\ opener' = opener /\ sweep' = sweep /\ toStart' = 0
        /\ owner' = owner /\ key' = key /\ merges' = merges /\ authors' = authors
        /\ reassigned' = reassigned /\ mishaps' \in 0..MaxMishap
    BY <1>1 DEF StartWorkflow, elsewhere, TypeOK
  <1> HIDE DEF r
  <1>7. QED
    BY <1>2, <1>3, <1>5, <1>6, RunMoves

\* Steps that touch neither rows nor runs.
LEMMA Aside ==
    ASSUME FlowAssumption, IInv, LoseCall \/ Resume \/ Reassign \/ Cancel
    PROVE  IInv'
  <1>1. TypeOK /\ RoundsInv /\ StatusInv /\ OpenersInv /\ RunsInv /\ KeyInv /\ HandsInv
    BY DEF IInv, Chain
  <1>2. rows' = rows /\ run' = run
    BY DEF LoseCall, Resume, Reassign, Cancel
  <1>3. Accepted' = Accepted /\ OpenRows' = OpenRows /\ \A k : OfKind(k)' = OfKind(k)
    BY <1>2, SameRows
  <1>4. \A at : AtStep(at)' = AtStep(at)
    BY <1>2, SameRuns
  <1>5. RoundsInv' /\ RunsInv'
    BY <1>1, <1>2, <1>3 DEF RoundsInv, RunsInv, Fits
  <1>6. CASE LoseCall
    <2>1. Len(rows) \in Nat
      BY <1>1, Reading
    <2>0. mishaps' \in 0..MaxMishap
      <3>1. mishaps \in 0..MaxMishap /\ mishaps < MaxMishap /\ mishaps' = mishaps + 1
        BY <1>1, <1>6 DEF LoseCall, TypeOK
      <3>2. QED
        BY <3>1, OneMore, Numbers
    <2>2. TypeOK'
      <3>1. 0 \in 0..Len(rows)
        BY <2>1, Zero
      <3>2. AtRest \in SweepType(Len(rows))
        BY <3>1 DEF AtRest, SweepType
      <3>3. QED
        BY <1>1, <1>2, <1>6, <2>0, <3>1, <3>2 DEF LoseCall, TypeOK, SweepType
    <2>3. AtRest.kind = "none" /\ AtRest.by = NoAgent
      BY DEF AtRest
    <2>4. StatusInv' /\ OpenersInv' /\ KeyInv'
      <3>1. StatusInv'
        BY <1>1, <1>3, <1>4, <1>6, <2>3 DEF LoseCall, StatusInv
      <3>2. OpenersInv'
        BY <1>1, <1>2, <1>3, <1>4, <1>6, <2>3 DEF LoseCall, OpenersInv
      <3>3. KeyInv'
        BY <1>1, <1>3, <1>4, <1>6, <2>3 DEF LoseCall, KeyInv
      <3>4. QED
        BY <3>1, <3>2, <3>3
    <2>5. HandsInv'
      BY <1>1, <1>2, <1>3, <1>6, <2>3 DEF LoseCall, HandsInv
    <2>6. QED
      BY <1>5, <2>2, <2>4, <2>5 DEF IInv, Chain
  <1>7. CASE Resume
    <2>1. status = "CHANGES_REQUESTED" /\ status' = "IN_PROGRESS"
      BY <1>1, <1>7 DEF Resume, StatusInv, Rework
    <2>2. /\ opener' = opener /\ toStart' = toStart /\ sweep' = sweep
          /\ UNCHANGED <<owner, key, merges, authors, reassigned, mishaps>>
      BY <1>7 DEF Resume, elsewhere
    <2>3. TypeOK'
      BY <1>1, <1>2, <2>1, <2>2, Statuses DEF TypeOK
    <2>4. StatusInv' /\ OpenersInv' /\ KeyInv'
      <3>1. StatusInv'
        BY <1>1, <1>3, <1>4, <2>1, <2>2 DEF StatusInv
      <3>2. OpenersInv'
        BY <1>1, <1>2, <1>3, <1>4, <2>1, <2>2 DEF OpenersInv
      <3>3. KeyInv'
        BY <1>1, <1>3, <1>4, <2>1, <2>2 DEF KeyInv
      <3>4. QED
        BY <3>1, <3>2, <3>3
    <2>5. HandsInv'
      BY <1>1, <1>2, <1>3, <2>2 DEF HandsInv
    <2>6. QED
      BY <1>5, <2>3, <2>4, <2>5 DEF IInv, Chain
  <1>8. CASE Reassign
    <2>1. /\ status' = status /\ opener' = opener /\ toStart' = toStart /\ sweep' = sweep
          /\ UNCHANGED <<key, merges, authors, mishaps>>
          /\ owner' \in Agent
      BY <1>8 DEF Reassign
    <2>2. reassigned' \in 0..MaxReassign /\ reassigned' # 0
      <3>1. reassigned \in 0..MaxReassign /\ reassigned < MaxReassign
            /\ reassigned' = reassigned + 1
        BY <1>1, <1>8 DEF Reassign, TypeOK
      <3>2. QED
        BY <3>1, OneMore, Numbers
    <2>3. TypeOK'
      BY <1>1, <1>2, <2>1, <2>2 DEF TypeOK
    <2>4. StatusInv' /\ OpenersInv' /\ KeyInv'
      <3>1. StatusInv'
        BY <1>1, <1>3, <1>4, <2>1 DEF StatusInv
      <3>2. OpenersInv'
        BY <1>1, <1>2, <1>3, <1>4, <2>1 DEF OpenersInv
      <3>3. KeyInv'
        BY <1>1, <1>3, <1>4, <2>1 DEF KeyInv
      <3>4. QED
        BY <3>1, <3>2, <3>3
    <2>5. HandsInv'
      BY <1>1, <1>2, <1>3, <2>1, <2>2 DEF HandsInv
    <2>6. QED
      BY <1>5, <2>3, <2>4, <2>5 DEF IInv, Chain
  <1>9. CASE Cancel
    <2>1. /\ status' = "CANCELLED" /\ opener' = opener /\ toStart' = toStart /\ sweep' = sweep
          /\ UNCHANGED <<owner, key, merges, authors, reassigned, mishaps>>
      BY <1>9 DEF Cancel, elsewhere
    <2>2. TypeOK'
      BY <1>1, <1>2, <2>1, Statuses DEF TypeOK
    <2>3. StatusInv' /\ OpenersInv' /\ KeyInv'
      <3>1. StatusInv'
        BY <1>1, <1>3, <1>4, <2>1 DEF StatusInv
      <3>2. OpenersInv'
        BY <1>1, <1>2, <1>3, <1>4, <2>1 DEF OpenersInv
      <3>3. KeyInv'
        BY <1>1, <1>3, <1>4, <2>1 DEF KeyInv
      <3>4. QED
        BY <3>1, <3>2, <3>3
    <2>4. HandsInv'
      BY <1>1, <1>2, <1>3, <2>1 DEF HandsInv
    <2>5. QED
      BY <1>5, <2>2, <2>3, <2>4 DEF IInv, Chain
  <1>10. QED
    BY <1>6, <1>7, <1>8, <1>9

-----------------------------------------------------------------------------
(* reviewWorkflow.                                                         *)

LEMMA StepOfARun ==
    ASSUME FlowAssumption, IInv, NEW i \in DOMAIN rows, NEW to \in Steps \cup {"over"},
           Step(i, to),
           to \notin {"open_qa", "dispatch", "close", "start_qa"},
           to = "submit" => run[i].verdict # "none",
           to = "merge" => rows[i].kind = "qa",
           rows' = rows, status' = status, opener' = opener, toStart' = toStart,
           sweep' = sweep, owner' = owner, key' = key, merges' = merges, authors' = authors,
           reassigned' = reassigned, mishaps' = mishaps
    PROVE  IInv'
  <1>1. TypeOK /\ RunsInv
    BY DEF IInv, Chain
  <1> DEFINE r == [run[i] EXCEPT !.at = to, !.tries = 0]
  <1>2. GoesOn(i, r)
    BY <1>1, Stepping
  <1>3. i \in DOMAIN run /\ run[i] \in Run
    BY <1>1, Reading
  <1>4. r.at = to /\ r.verdict = run[i].verdict
    BY <1>3 DEF Run
  <1>5. rows[i].kind = "qa" => run[i].verdict # "changes_requested"
    BY <1>1, <1>3 DEF RunsInv, Fits
  <1>6. mishaps' \in 0..MaxMishap
    BY <1>1 DEF TypeOK
  <1> HIDE DEF r
  <1>7. QED
    BY <1>2, <1>4, <1>5, <1>6, RunMoves

LEMMA DecideReviewKeeps ==
    ASSUME FlowAssumption, IInv, NEW i \in DOMAIN rows, DecideReview(i)
    PROVE  IInv'
  <1>1. TypeOK /\ RunsInv
    BY DEF IInv, Chain
  <1>2. i \in DOMAIN run /\ run[i] \in Run /\ 0 \in 0..Attempts
    BY <1>1, Reading, Numbers
  <1> DEFINE v == PolicyVerdict(i)
             r == [run[i] EXCEPT !.at = "submit", !.tries = 0, !.verdict = v]
  <1>3. v \in {"approved", "changes_requested"} /\ (rows[i].kind = "qa" => v = "approved")
    BY DEF PolicyVerdict
  <1>4. run' = [run EXCEPT ![i] = r]
    BY <1>2 DEF DecideReview
  <1> HIDE DEF v
  <1>5. r \in Run
    BY <1>2, <1>3 DEF Run, Steps
  <1>6. r.at = "submit" /\ r.verdict = v
    BY <1>2 DEF Run
  <1> HIDE DEF r
  <1>7. GoesOn(i, r)
    BY <1>1, <1>4, <1>5, GoingOn
  <1>8. /\ rows' = rows /\ status' = status /\ opener' = opener /\ toStart' = toStart
        /\ sweep' = sweep /\ owner' = owner /\ key' = key /\ merges' = merges
        /\ authors' = authors /\ reassigned' = reassigned /\ mishaps' \in 0..MaxMishap
    BY <1>1 DEF DecideReview, elsewhere, TypeOK
  <1>9. QED
    BY <1>3, <1>6, <1>7, <1>8, RunMoves

\* A failed attempt: the run stays where it is or ends.
LEMMA FailAttemptKeeps ==
    ASSUME FlowAssumption, IInv, NEW i \in DOMAIN rows, FailAttempt(i),
           mishaps' \in 0..MaxMishap
    PROVE  IInv'
  <1>1. TypeOK /\ RunsInv
    BY DEF IInv, Chain
  <1>2. i \in DOMAIN run /\ run[i] \in Run /\ Attempts \in Nat /\ MaxRows \in Nat
    BY <1>1, Reading, Numbers
  <1>3. \E r \in Run : /\ run' = [run EXCEPT ![i] = r]
                       /\ r.verdict = run[i].verdict
                       /\ \/ r.at = "over"
                          \/ r.at = run[i].at /\ r.next = run[i].next
    <2>1. CASE Retries(i)
      <3> DEFINE r == [run[i] EXCEPT !.tries = @ + 1]
      <3>1. run' = [run EXCEPT ![i] = r]
        BY <1>2, <2>1 DEF FailAttempt
      <3>2. run[i].tries \in 0..Attempts /\ run[i].tries + 1 < Attempts
        BY <1>2, <2>1 DEF Run, Retries
      <3>3. run[i].tries + 1 \in 0..Attempts
        BY <1>2, <3>2
      <3>4. r \in Run /\ r.verdict = run[i].verdict /\ r.at = run[i].at /\ r.next = run[i].next
        BY <1>2, <3>3 DEF Run
      <3>5. QED
        BY <3>1, <3>4
    <2>2. CASE ~ Retries(i)
      <3> DEFINE r == [run[i] EXCEPT !.at = "over", !.tries = 0, !.next = 0]
      <3>1. run' = [run EXCEPT ![i] = r]
        BY <1>2, <2>2 DEF FailAttempt
      <3>2. 0 \in 0..Attempts /\ 0 \in 0..MaxRows
        BY <1>2
      <3>3. r \in Run /\ r.verdict = run[i].verdict /\ r.at = "over"
        BY <1>2, <3>2 DEF Run
      <3>4. QED
        BY <3>1, <3>3
    <2>3. QED
      BY <2>1, <2>2
  <1>4. PICK r \in Run : /\ run' = [run EXCEPT ![i] = r]
                         /\ r.verdict = run[i].verdict
                         /\ \/ r.at = "over"
                            \/ r.at = run[i].at /\ r.next = run[i].next
    BY <1>3
  <1>5. GoesOn(i, r)
    BY <1>1, <1>4, GoingOn
  <1>6. Fits(i)
    BY <1>1, <1>2 DEF RunsInv
  <1>7. /\ r.at = run[i].at \/ r.at \notin {"open_qa", "dispatch", "close"}
        /\ r.at = "submit" => r.verdict # "none"
        /\ rows[i].kind = "qa" => r.verdict # "changes_requested"
        /\ r.at \in {"merge", "dispatch", "close"} => rows[i].kind = "qa"
        /\ r.at = "start_qa" => r.next \in DOMAIN rows
    BY <1>4, <1>6 DEF Fits
  <1>8. /\ rows' = rows /\ status' = status /\ opener' = opener /\ toStart' = toStart
        /\ sweep' = sweep /\ owner' = owner /\ key' = key /\ merges' = merges
        /\ authors' = authors /\ reassigned' = reassigned
    BY DEF FailAttempt
  <1>9. QED
    BY <1>5, <1>7, <1>8, RunMoves

LEMMA RunStepsKeep ==
    ASSUME FlowAssumption, IInv, NEW i \in DOMAIN rows,
           SkipDecided(i) \/ RefuseVerdict(i) \/ CrashAttempt(i)
    PROVE  IInv'
  <1>1. TypeOK
    BY DEF IInv
  <1>2. CASE SkipDecided(i)
    BY <1>2, StepOfARun DEF SkipDecided, elsewhere
  <1>3. CASE RefuseVerdict(i)
    <2>1. mishaps' \in 0..MaxMishap
      BY <1>1, <1>3 DEF RefuseVerdict, TypeOK
    <2>2. QED
      BY <1>3, <2>1, FailAttemptKeeps DEF RefuseVerdict
  <1>4. CASE CrashAttempt(i)
    <2>1. mishaps \in 0..MaxMishap /\ mishaps < MaxMishap /\ mishaps' = mishaps + 1
      BY <1>1, <1>4 DEF CrashAttempt, TypeOK
    <2>2. mishaps' \in 0..MaxMishap
      BY <2>1, OneMore, Numbers
    <2>3. QED
      BY <1>4, <2>2, FailAttemptKeeps DEF CrashAttempt
  <1>5. QED
    BY <1>2, <1>3, <1>4

\* The row is taken into review, unless that or more has happened.
LEMMA StartReviewKeeps ==
    ASSUME FlowAssumption, IInv, NEW i \in DOMAIN rows, StartReview(i)
    PROVE  IInv'
  <1>1. TypeOK /\ RoundsInv /\ StatusInv /\ OpenersInv /\ RunsInv /\ KeyInv /\ HandsInv
    BY DEF IInv, Chain
  <1>2. /\ i \in DOMAIN run /\ run[i] \in Run /\ rows[i] \in Row
        /\ DOMAIN run = DOMAIN rows /\ Len(rows) \in Nat
    BY <1>1, Reading
  <1> DEFINE s == IF rows[i].state = "pending" THEN "in_review" ELSE rows[i].state
             d == rows[i].decided
             r == [run[i] EXCEPT !.at = "decide", !.tries = 0]
  <1>3. /\ s \in RowStates /\ d \in BOOLEAN /\ (s \in Open <=> rows[i].state \in Open)
        /\ s = "approved" <=> rows[i].state = "approved"
        /\ s = "changes_requested" <=> rows[i].state = "changes_requested"
    BY <1>2 DEF Row, RowStates, Open
  <1>4. rows' = [rows EXCEPT ![i] = [rows[i] EXCEPT !.state = s, !.decided = d]]
    <2>1. rows' = [rows EXCEPT ![i] = [rows[i] EXCEPT !.state = s]]
      BY DEF StartReview
    <2>2. [rows[i] EXCEPT !.state = s] = [rows[i] EXCEPT !.state = s, !.decided = d]
      BY <1>2 DEF Row
    <2>3. QED
      BY <2>1, <2>2
  <1>5. r.at = "decide" /\ r.verdict = run[i].verdict
    BY <1>2 DEF Run
  <1>6. GoesOn(i, r)
    BY <1>1, Stepping DEF StartReview, Steps
  <1> HIDE DEF s, d, r
  <1>7. Restated(i, s, d)
    BY <1>1, <1>3, <1>4, Restating
  <1>8. /\ DOMAIN rows' = DOMAIN rows /\ rows'[i].state = s
        /\ \A j \in DOMAIN rows :
              /\ rows'[j].kind = rows[j].kind /\ rows'[j].reviewer = rows[j].reviewer
              /\ j # i => rows'[j].state = rows[j].state
        /\ OpenRows' = IF s \in Open THEN OpenRows \cup {i} ELSE OpenRows \ {i}
        /\ \A k : OfKind(k)' = OfKind(k)
    BY <1>1, <1>3, <1>7, RestatedRows
  <1>9. OpenRows' = OpenRows
    BY <1>3, <1>8 DEF OpenRows
  <1>10. \A j \in DOMAIN rows : /\ rows'[j].state = "approved" <=> rows[j].state = "approved"
                                /\ rows'[j].state = "changes_requested"
                                     <=> rows[j].state = "changes_requested"
    BY <1>3, <1>8
  <1>11. \A k : OfKind(k) \subseteq DOMAIN rows
    BY DEF OfKind
  <1>12. Accepted' = Accepted
    BY <1>8, <1>10, <1>11 DEF Accepted
  <1>13. /\ DOMAIN run' = DOMAIN run /\ run'[i] = r
         /\ \A j \in DOMAIN run : j # i => run'[j] = run[j]
         /\ \A at : AtStep(at)' = IF r.at \in at THEN AtStep(at) \cup {i} ELSE AtStep(at) \ {i}
    BY <1>1, <1>6, RunGoneOn
  <1>14. /\ AtStep({"open_qa"})' \subseteq AtStep({"open_qa"})
         /\ AtStep({"dispatch", "close"})' \subseteq AtStep({"dispatch", "close"})
         /\ AtStep({"dispatch"})' \subseteq AtStep({"dispatch"})
         /\ AtStep({"close"})' \subseteq AtStep({"close"})
    BY <1>5, <1>13
  <1>15. /\ status' = status /\ opener' = opener /\ toStart' = toStart /\ sweep' = sweep
         /\ UNCHANGED <<owner, key, merges, authors, reassigned, mishaps>>
    BY DEF StartReview, elsewhere
  <1>16. TypeOK'
    <2>1. rows' \in Seq(Row) /\ Len(rows') = Len(rows) /\ run' \in Seq(Run) /\ Len(run') = Len(rows)
      BY <1>6, <1>7 DEF Restated, GoesOn
    <2>2. QED
      BY <1>1, <1>15, <2>1 DEF TypeOK
  <1>17. RoundsInv'
    BY <1>1, <1>8, <1>9, <1>10, <1>11, <1>12 DEF RoundsInv
  <1>18. StatusInv'
    BY <1>1, <1>8, <1>9, <1>12, <1>15 DEF StatusInv
  <1>19. OpenersInv'
    <2>1. AtStep({"open_qa"}) \subseteq DOMAIN rows
      BY <1>2 DEF AtStep
    <2>2. QED
      BY <1>1, <1>8, <1>9, <1>12, <1>14, <1>15, <2>1 DEF OpenersInv
  <1>20. RunsInv'
    <2>1. ASSUME NEW j \in DOMAIN run PROVE Fits(j)'
      BY <1>1, <1>2, <1>5, <1>8, <1>13 DEF RunsInv, Fits
    <2>2. QED
      BY <1>13, <2>1 DEF RunsInv
  <1>21. KeyInv'
    BY <1>1, <1>14, <1>15 DEF KeyInv
  <1>22. HandsInv'
    BY <1>1, <1>8, <1>10, <1>11, <1>15 DEF HandsInv
  <1>23. QED
    BY <1>16, <1>17, <1>18, <1>19, <1>20, <1>21, <1>22 DEF IInv, Chain

\* What a verdict does to the task: the code verdict moves it on or back, and
\* only out of REVIEW; the QA verdict leaves it where it is.
LEMMA Verdicts ==
    ASSUME FlowAssumption, IInv, NEW i \in DOMAIN rows, SubmitVerdict(i)
    PROVE  \/ /\ rows[i].kind = "code" /\ run[i].verdict = "approved"
              /\ status = "REVIEW" /\ status' = "QA" /\ Step(i, "open_qa")
           \/ /\ rows[i].kind = "code" /\ run[i].verdict = "changes_requested"
              /\ status = "REVIEW" /\ status' = "CHANGES_REQUESTED" /\ Step(i, "over")
           \/ /\ rows[i].kind = "qa" /\ run[i].verdict = "approved"
              /\ status' = status /\ Step(i, "merge")
  <1>1. TypeOK /\ RoundsInv /\ StatusInv /\ RunsInv
    BY DEF IInv, Chain
  <1>2. i \in DOMAIN run /\ run[i] \in Run /\ rows[i] \in Row
    BY <1>1, Reading
  <1>3. run[i].verdict \in {"approved", "changes_requested"} /\ rows[i].kind \in Kinds
    BY <1>1, <1>2 DEF SubmitVerdict, RunsInv, Fits, Run, Row
  <1>4. rows[i].kind = "qa" => run[i].verdict = "approved"
    BY <1>1, <1>2, <1>3 DEF RunsInv, Fits
  <1>5. CASE rows[i].kind = "qa"
    <2>1. VerdictMove(i) = status
      BY <1>4, <1>5 DEF VerdictMove
    <2>2. QED
      BY <1>4, <1>5, <2>1 DEF SubmitVerdict
  <1>6. CASE rows[i].kind = "code"
    <2>1. i \in OfKind("code") /\ i \in OfKind("code") \cap OpenRows
      BY <1>6 DEF SubmitVerdict, OpenRows, OfKind
    <2>2. rows[i].state # "approved"
      BY DEF SubmitVerdict, Open
    <2>3. ~ Accepted
      BY <1>1, <2>1, <2>2 DEF RoundsInv, Accepted
    <2>4. status \notin {"QA", "CHANGES_REQUESTED"}
      BY <1>1, <2>1, <2>3 DEF StatusInv
    <2>5. VerdictMove(i) = IF run[i].verdict = "approved" THEN "QA" ELSE "CHANGES_REQUESTED"
      BY <1>6 DEF VerdictMove
    <2>6. CanTransition(status, VerdictMove(i))
      BY <1>3, <2>4, <2>5 DEF SubmitVerdict, VerdictAllowed, AuthorizeTaskTransition
    <2>7. status = "REVIEW"
      BY <1>1, <2>5, <2>6 DEF CanTransition, Successors, StatusInv
    <2>8. status' = VerdictMove(i)
      BY DEF SubmitVerdict
    <2>9. CASE run[i].verdict = "approved"
      <3>1. Step(i, "open_qa")
        BY <1>6, <2>9 DEF SubmitVerdict
      <3>2. QED
        BY <1>6, <2>5, <2>7, <2>8, <2>9, <3>1
    <2>10. CASE run[i].verdict = "changes_requested"
      <3>1. Step(i, "over")
        BY <2>10 DEF SubmitVerdict
      <3>2. QED
        BY <1>6, <2>5, <2>7, <2>8, <2>10, <3>1
    <2>11. QED
      BY <1>3, <2>9, <2>10
  <1>7. QED
    BY <1>3, <1>5, <1>6 DEF Kinds

LEMMA SubmitVerdictKeeps ==
    ASSUME FlowAssumption, IInv, NEW i \in DOMAIN rows, SubmitVerdict(i)
    PROVE  IInv'
  <1>1. TypeOK /\ RoundsInv /\ StatusInv /\ OpenersInv /\ RunsInv /\ KeyInv /\ HandsInv
    BY DEF IInv, Chain
  <1>2. /\ i \in DOMAIN run /\ run[i] \in Run /\ rows[i] \in Row
        /\ DOMAIN run = DOMAIN rows /\ Len(rows) \in Nat
    BY <1>1, Reading
  <1> DEFINE v == run[i].verdict
             to == IF v = "changes_requested" THEN "over"
                   ELSE IF rows[i].kind = "code" THEN "open_qa" ELSE "merge"
             r == [run[i] EXCEPT !.at = to, !.tries = 0]
  <1>3. v \in {"approved", "changes_requested"} /\ v \in RowStates /\ v \notin Open
    BY <1>1, <1>2, Verdicts DEF RowStates, Open
  <1>4. Step(i, to)
    BY Verdicts
  <1>5. rows' = [rows EXCEPT ![i] = [rows[i] EXCEPT !.state = v, !.decided = TRUE]]
    BY DEF SubmitVerdict
  <1>6. r.at = to /\ r.verdict = v /\ to \in {"over", "open_qa", "merge"}
    BY <1>2 DEF Run
  <1>7. GoesOn(i, r)
    BY <1>1, <1>4, <1>6, Stepping DEF Steps
  <1>8. Restated(i, v, TRUE)
    BY <1>1, <1>3, <1>5, Restating
  <1>9. /\ rows[i].kind = "code" =>
              /\ status = "REVIEW"
              /\ status' = IF v = "approved" THEN "QA" ELSE "CHANGES_REQUESTED"
              /\ v = "approved" => to = "open_qa"
              /\ v = "changes_requested" => to = "over"
        /\ rows[i].kind # "code" =>
              rows[i].kind = "qa" /\ v = "approved" /\ status' = status /\ to = "merge"
    BY Verdicts
  <1>10. rows[i].state \in Open /\ i \in OpenRows
    BY DEF SubmitVerdict, OpenRows
  <1> HIDE DEF v, to, r
  <1>11. /\ DOMAIN rows' = DOMAIN rows /\ rows'[i].state = v
         /\ \A j \in DOMAIN rows :
               /\ rows'[j].kind = rows[j].kind /\ rows'[j].reviewer = rows[j].reviewer
               /\ j # i => rows'[j].state = rows[j].state
         /\ OpenRows' = OpenRows \ {i}
         /\ \A k : OfKind(k)' = OfKind(k)
    BY <1>1, <1>3, <1>8, RestatedRows
  <1>12. /\ DOMAIN run' = DOMAIN run /\ run'[i] = r
         /\ \A j \in DOMAIN run : j # i => run'[j] = run[j]
         /\ \A at : AtStep(at)' = IF r.at \in at THEN AtStep(at) \cup {i} ELSE AtStep(at) \ {i}
    BY <1>1, <1>7, RunGoneOn
  <1>13. /\ AtStep({"dispatch", "close"})' \subseteq AtStep({"dispatch", "close"})
         /\ AtStep({"dispatch"})' \subseteq AtStep({"dispatch"})
         /\ AtStep({"close"})' \subseteq AtStep({"close"})
         /\ to # "open_qa" => AtStep({"open_qa"})' \subseteq AtStep({"open_qa"})
         /\ AtStep({"open_qa"})' \subseteq AtStep({"open_qa"}) \cup {i}
    BY <1>6, <1>12
  <1>14. /\ opener' = opener /\ toStart' = toStart /\ sweep' = sweep
         /\ UNCHANGED <<owner, key, merges, authors, reassigned, mishaps>>
    BY DEF SubmitVerdict, elsewhere
  <1>15. status' \in {"QA", "CHANGES_REQUESTED", status}
    BY <1>9
  <1>16. TypeOK'
    <2>1. rows' \in Seq(Row) /\ Len(rows') = Len(rows) /\ run' \in Seq(Run) /\ Len(run') = Len(rows)
      BY <1>7, <1>8 DEF Restated, GoesOn
    <2>2. status' \in TaskStatus
      BY <1>1, <1>15, Statuses DEF TypeOK
    <2>3. QED
      BY <1>1, <1>14, <2>1, <2>2 DEF TypeOK
  <1>17. /\ \A k : OfKind(k) \subseteq DOMAIN rows
         /\ i \in OfKind("code") <=> rows[i].kind = "code"
         /\ i \in OfKind("qa") <=> rows[i].kind = "qa"
    BY DEF OfKind
  <1>18. RunsInv'
    <2>1. ASSUME NEW j \in DOMAIN run PROVE Fits(j)'
      <3>1. CASE j = i
        BY <1>3, <1>6, <1>9, <1>11, <1>12, <3>1 DEF Fits
      <3>2. CASE j # i
        BY <1>1, <1>2, <1>11, <1>12, <3>2 DEF RunsInv, Fits
      <3>3. QED
        BY <3>1, <3>2
    <2>2. QED
      BY <1>12, <2>1 DEF RunsInv
  <1>19. CASE rows[i].kind = "code"
    <2>1. OfKind("code") = {i} /\ OfKind("qa") = {} /\ ~ Accepted
      BY <1>1, <1>9, <1>10, <1>17, <1>19 DEF RoundsInv, StatusInv
    <2>2. Accepted' <=> v = "approved"
      BY <1>11, <2>1 DEF Accepted
    <2>3. OfKind("code")' \cap OpenRows' = {}
      BY <1>11, <2>1
    <2>4. opener = NoAgent /\ sweep.kind \notin {"code", "qa"}
      BY <1>1, <1>10, <2>1 DEF OpenersInv
    <2>5. sweep.kind = "none"
      BY <1>1, <2>4 DEF TypeOK, Kinds
    <2>6. RoundsInv'
      BY <1>11, <2>1 DEF RoundsInv
    <2>7. StatusInv'
      BY <1>3, <1>9, <1>14, <1>19, <2>2, <2>3, <2>4, <2>5 DEF StatusInv
    <2>8. AtStep({"open_qa"}) = {}
      BY <1>1, <2>1 DEF OpenersInv
    <2>9. OpenersInv'
      BY <1>3, <1>9, <1>11, <1>13, <1>14, <1>19, <2>1, <2>2, <2>4, <2>5, <2>8 DEF OpenersInv
    <2>10. KeyInv'
      BY <1>1, <1>13, <1>14, <1>15 DEF KeyInv
    <2>11. HandsInv'
      <3>1. merges = 0
        <4>1. merges \in Nat /\ "code" \in Kinds
          BY <1>1 DEF TypeOK, Kinds
        <4>2. QED
          BY <1>1, <2>1, <4>1 DEF HandsInv, Accepted
      <3>2. QED
        BY <1>1, <1>11, <1>14, <3>1 DEF HandsInv
    <2>12. QED
      BY <1>16, <1>18, <2>6, <2>7, <2>9, <2>10, <2>11 DEF IInv, Chain
  <1>20. CASE rows[i].kind # "code"
    <2>1. i \in OfKind("qa") /\ i \notin OfKind("code") /\ v = "approved" /\ status' = status
          /\ to = "merge"
      BY <1>9, <1>17, <1>20
    <2>2. Accepted' = Accepted
      BY <1>11, <1>17, <2>1 DEF Accepted
    <2>3. OfKind("code")' \cap OpenRows' = OfKind("code") \cap OpenRows
      BY <1>11, <2>1
    <2>4. RoundsInv'
      BY <1>1, <1>11, <1>17, <2>1, <2>2 DEF RoundsInv
    <2>5. StatusInv'
      BY <1>1, <1>14, <2>1, <2>2, <2>3 DEF StatusInv
    <2>6. sweep.kind # "qa"
      BY <1>1, <1>10, <2>1 DEF OpenersInv
    <2>7. AtStep({"open_qa"}) \subseteq DOMAIN rows
      BY <1>2 DEF AtStep
    <2>8. OpenersInv'
      BY <1>1, <1>11, <1>13, <1>14, <2>1, <2>2, <2>3, <2>6, <2>7 DEF OpenersInv
    <2>9. KeyInv'
      BY <1>1, <1>13, <1>14, <2>1 DEF KeyInv
    <2>10. HandsInv'
      <3>1. \A j \in DOMAIN rows : rows[j].state = "approved" => rows'[j].state = "approved"
        BY <1>11, <2>1
      <3>2. QED
        BY <1>1, <1>11, <1>14, <1>17, <3>1 DEF HandsInv
    <2>11. QED
      BY <1>16, <1>18, <2>4, <2>5, <2>8, <2>9, <2>10 DEF IInv, Chain
  <1>21. QED
    BY <1>19, <1>20

\* The QA round of a code verdict: there is no QA row yet, so one is added.
LEMMA OpenQaRoundKeeps ==
    ASSUME FlowAssumption, IInv, NEW i \in DOMAIN rows, OpenQaRound(i)
    PROVE  IInv'
  <1>1. TypeOK /\ RoundsInv /\ StatusInv /\ OpenersInv /\ RunsInv /\ KeyInv /\ HandsInv
    BY DEF IInv, Chain
  <1>2. /\ i \in DOMAIN run /\ run[i] \in Run /\ run \in Seq(Run)
        /\ DOMAIN run = 1..Len(rows) /\ DOMAIN rows = 1..Len(rows) /\ Len(rows) \in Nat
        /\ Len(run) = Len(rows) /\ owner \in Agent
    <2>1. run \in Seq(Run) /\ Len(run) = Len(rows) /\ owner \in Agent
      BY <1>1 DEF TypeOK
    <2>2. QED
      BY <1>1, <2>1, Reading
  <1>3. /\ i \in AtStep({"open_qa"}) /\ rows[i].kind = "code" /\ Accepted /\ OfKind("qa") = {}
        /\ run[i].at = "open_qa"
    BY <1>1, <1>2 DEF OpenQaRound, AtStep, OpenersInv
  <1>4. /\ status' = status /\ opener' = opener /\ toStart' = toStart /\ sweep' = sweep
        /\ UNCHANGED <<owner, key, merges, authors, reassigned, mishaps>>
    BY DEF OpenQaRound, elsewhere
  <1>5. CASE Step(i, "over") /\ rows' = rows
    BY <1>4, <1>5, StepOfARun
  <1>6. ASSUME NEW j \in 1..MaxRows, RequestReview("qa", owner, j),
               run' = [RunsFor(j) EXCEPT
                         ![i].at = IF Inserted(j) THEN "start_qa" ELSE "over",
                         ![i].next = IF Inserted(j) THEN j ELSE 0]
        PROVE  IInv'
    <2>1. reassigned = 0 => owner = FirstOwner
      BY <1>1 DEF HandsInv
    <2>2. /\ j = Len(rows) + 1 /\ j <= MaxRows /\ Inserted(j) /\ RunsFor(j) = Append(run, NoRun)
          /\ rows' \in Seq(Row) /\ Len(rows') = j
          /\ DOMAIN rows' = DOMAIN rows \cup {j} /\ j \notin DOMAIN rows
          /\ \A k \in DOMAIN rows : rows'[k] = rows[k]
          /\ rows'[j].kind = "qa" /\ rows'[j].state = "pending"
          /\ OfKind("code")' = OfKind("code") /\ OfKind("qa")' = OfKind("qa") \cup {j}
          /\ OpenRows' = OpenRows \cup {j}
          /\ RoundsInv' /\ Accepted'
          /\ reassigned = 0 => \A k \in DOMAIN rows' : rows'[k].reviewer # FirstOwner
      BY <1>2, <1>3, <1>6, <2>1, QaRound
    <2> DEFINE r == [run[i] EXCEPT !.at = "start_qa", !.next = j]
               more == Append(run, NoRun)
    <2>3. r \in Run /\ r.at = "start_qa" /\ r.next = j /\ r.verdict = run[i].verdict
      <3>1. j \in 0..MaxRows
        BY Numbers
      <3>2. QED
        BY <1>2, <3>1 DEF Run, Steps
    <2>4. /\ more \in Seq(Run) /\ Len(more) = j /\ more[j] = NoRun
          /\ \A k \in 1..Len(rows) : more[k] = run[k]
      <3>1. NoRun \in Run
        <4>1. 0 \in 0..Attempts /\ 0 \in 0..MaxRows
          BY Numbers, Zero
        <4>2. QED
          BY <4>1 DEF NoRun, Run
      <3>2. QED
        BY <1>2, <2>2, <3>1, AppendProperties
    <2>5. DOMAIN more = 1..j
      BY <2>4, LenProperties
    <2>6. run' = [more EXCEPT ![i] = r]
      <3>1. run' = [more EXCEPT ![i].at = "start_qa", ![i].next = j]
        BY <1>6, <2>2
      <3>2. more[i] = run[i]
        BY <1>2, <2>4
      <3>3. QED
        BY <3>1, <3>2
    <2> HIDE DEF r, more
    <2>7. i \in 1..j /\ j # i /\ 1..j = DOMAIN run \cup {j} /\ j \in 0..Len(rows')
      BY <1>2, <2>2
    <2>8. /\ run' \in Seq(Run) /\ Len(run') = j
          /\ \A k \in 1..j : run'[k] = IF k = i THEN r ELSE more[k]
      <3>1. i \in 1..Len(more) /\ more \in Seq(Run) /\ r \in Run /\ Len(more) = j
        BY <2>3, <2>4, <2>7
      <3>2. QED
        BY <2>6, <3>1, ExceptSeq
    <2>9. DOMAIN run' = 1..j
      BY <2>8, LenProperties
    <2>10. /\ DOMAIN run' = DOMAIN run \cup {j}
           /\ run'[i] = r /\ run'[j] = NoRun
           /\ \A k \in DOMAIN run : k # i => run'[k] = run[k]
      BY <1>2, <2>4, <2>7, <2>8, <2>9
    <2>11. NoRun.at = "none" /\ NoRun.verdict = "none"
      BY DEF NoRun
    <2>12. /\ AtStep({"open_qa"})' \subseteq AtStep({"open_qa"}) \ {i}
           /\ AtStep({"dispatch", "close"})' \subseteq AtStep({"dispatch", "close"})
           /\ AtStep({"dispatch"})' \subseteq AtStep({"dispatch"})
           /\ AtStep({"close"})' \subseteq AtStep({"close"})
      BY <2>3, <2>10, <2>11 DEF AtStep
    <2>13. TypeOK'
      <3>1. sweep \in SweepType(Len(rows)) /\ toStart \in 0..Len(rows)
        BY <1>1 DEF TypeOK, SweepType
      <3>2. Len(rows') \in Nat /\ Len(rows) <= Len(rows')
        BY <1>2, <2>2
      <3>3. sweep \in SweepType(Len(rows'))
        BY <1>2, <3>1, <3>2, SweepTypeGrows
      <3>4. toStart \in 0..Len(rows')
        BY <1>2, <3>1, <3>2
      <3>5. QED
        BY <1>1, <1>4, <2>2, <2>8, <3>3, <3>4 DEF TypeOK, SweepType
    <2>14. OfKind("code")' \cap OpenRows' = OfKind("code") \cap OpenRows
      BY <2>2 DEF OfKind
    <2>15. StatusInv'
      BY <1>1, <1>3, <1>4, <2>2, <2>14 DEF StatusInv
    <2>16. OpenersInv'
      <3>1. AtStep({"open_qa"}) = {i}
        <4>1. ASSUME NEW k \in AtStep({"open_qa"}) PROVE k = i
          <5>1. rows[k].kind = "code" /\ k \in DOMAIN rows
            BY <1>1, <1>2 DEF OpenersInv, AtStep
          <5>2. k \in OfKind("code") /\ i \in OfKind("code")
            BY <1>3, <5>1 DEF OfKind
          <5>3. QED
            BY <1>1, <5>2 DEF RoundsInv
        <4>2. QED
          BY <1>3, <4>1
      <3>2. AtStep({"open_qa"})' = {}
        BY <2>12, <3>1
      <3>3. sweep.kind # "qa" /\ sweep.kind # "code" /\ opener = NoAgent
        BY <1>1, <1>3 DEF OpenersInv
      <3>4. QED
        BY <1>1, <1>4, <3>2, <3>3 DEF OpenersInv
    <2>17. RunsInv'
      <3>1. ASSUME NEW k \in DOMAIN run PROVE Fits(k)'
        <4>1. k \in DOMAIN rows /\ rows'[k] = rows[k] /\ Fits(k) /\ DOMAIN rows \subseteq DOMAIN rows'
          BY <1>1, <1>2, <2>2 DEF RunsInv
        <4>2. CASE k = i
          BY <1>3, <2>2, <2>3, <2>10, <4>1, <4>2 DEF Fits
        <4>3. CASE k # i
          BY <2>10, <4>1, <4>3 DEF Fits
        <4>4. QED
          BY <4>2, <4>3
      <3>2. Fits(j)'
        BY <2>10, <2>11 DEF Fits
      <3>3. QED
        BY <2>10, <3>1, <3>2 DEF RunsInv
    <2>18. KeyInv'
      BY <1>1, <1>4, <2>12 DEF KeyInv
    <2>19. HandsInv'
      <3>1. \A k \in Kinds : \A x \in OfKind(k) : x \in OfKind(k)' /\ rows'[x] = rows[x]
        BY <2>2 DEF OfKind
      <3>2. merges > 0 => \A k \in Kinds : \E x \in OfKind(k)' : rows'[x].state = "approved"
        BY <1>1, <3>1 DEF HandsInv
      <3>3. QED
        BY <1>1, <1>4, <2>2, <3>2 DEF HandsInv
    <2>20. QED
      BY <2>2, <2>13, <2>15, <2>16, <2>17, <2>18, <2>19 DEF IInv, Chain
  <1>7. QED
    BY <1>5, <1>6 DEF OpenQaRound

LEMMA StartQaRoundKeeps ==
    ASSUME FlowAssumption, IInv, NEW i \in DOMAIN rows, StartQaRound(i)
    PROVE  IInv'
  <1>1. TypeOK /\ RunsInv
    BY DEF IInv, Chain
  <1>2. /\ i \in DOMAIN run /\ run[i] \in Run /\ run \in Seq(Run) /\ Len(run) = Len(rows)
        /\ DOMAIN run = 1..Len(rows) /\ DOMAIN rows = 1..Len(rows)
    <2>1. run \in Seq(Run) /\ Len(run) = Len(rows)
      BY <1>1 DEF TypeOK
    <2>2. QED
      BY <1>1, <2>1, Reading
  <1> DEFINE n == run[i].next
             over == [run[i] EXCEPT !.at = "over", !.next = 0]
             mid == [run EXCEPT ![i] = over]
             r == IF mid[n].at \in Steps THEN mid[n] ELSE [NoRun EXCEPT !.at = "start"]
  <1>3. n \in 1..Len(rows)
    BY <1>1, <1>2 DEF StartQaRound, RunsInv, Fits
  <1>4. 0 \in 0..Attempts /\ 0 \in 0..MaxRows
    BY Numbers, Zero
  <1>5. over \in Run /\ over.at = "over" /\ over.verdict = run[i].verdict
    BY <1>2, <1>4 DEF Run
  <1>6. run' = [mid EXCEPT ![n] = r]
    <2>1. mid = [run EXCEPT ![i].at = "over", ![i].next = 0]
      BY <1>2
    <2>2. n \in DOMAIN mid
      BY <1>2, <1>3
    <2>3. QED
      BY <2>1, <2>2 DEF StartQaRound, Started
  <1> HIDE DEF n, over, r
  <1>7. /\ mid \in Seq(Run) /\ Len(mid) = Len(rows)
        /\ \A j \in 1..Len(rows) : mid[j] = IF j = i THEN over ELSE run[j]
    <2>1. i \in 1..Len(run) /\ run \in Seq(Run) /\ over \in Run
      BY <1>2, <1>5
    <2>2. QED
      BY <1>2, <2>1, ExceptSeq
  <1> HIDE DEF mid
  <1>8. mid[n] \in Run
    BY <1>3, <1>7, ElementOfSeq
  <1>9. /\ r \in Run
        /\ r = mid[n] \/ (r.at = "start" /\ r.verdict = "none")
    <2>1. [NoRun EXCEPT !.at = "start"] \in Run
      BY <1>4 DEF NoRun, Run, Steps
    <2>2. [NoRun EXCEPT !.at = "start"].at = "start" /\ [NoRun EXCEPT !.at = "start"].verdict = "none"
      BY DEF NoRun
    <2>3. QED
      BY <1>8, <2>1, <2>2 DEF r
  <1>10. /\ run' \in Seq(Run) /\ Len(run') = Len(rows)
         /\ \A j \in 1..Len(rows) : run'[j] = IF j = n THEN r ELSE mid[j]
    <2>1. n \in 1..Len(mid)
      BY <1>3, <1>7
    <2>2. QED
      BY <1>6, <1>7, <1>9, <2>1, ExceptSeq
  <1>11. rows' = rows
    BY DEF StartQaRound
  <1>12. ASSUME NEW j \in DOMAIN run
         PROVE  /\ Fits(j)'
                /\ run'[j].at \in {"open_qa", "dispatch", "close"} => run'[j].at = run[j].at
    <2>1. Fits(j) /\ Fits(i)
      BY <1>1, <1>2 DEF RunsInv
    <2>2. \/ run'[j] = run[j]
          \/ run'[j] = over /\ j = i
          \/ run'[j].at = "start" /\ run'[j].verdict = "none"
      BY <1>2, <1>7, <1>9, <1>10
    <2>3. CASE run'[j] = run[j]
      BY <1>11, <2>1, <2>3 DEF Fits
    <2>4. CASE run'[j] = over /\ j = i
      BY <1>5, <1>11, <2>1, <2>4 DEF Fits
    <2>5. CASE run'[j].at = "start" /\ run'[j].verdict = "none"
      BY <1>11, <2>1, <2>5 DEF Fits
    <2>6. QED
      BY <2>2, <2>3, <2>4, <2>5
  <1>13. /\ status' = status /\ opener' = opener /\ toStart' = toStart /\ sweep' = sweep
         /\ owner' = owner /\ key' = key /\ merges' = merges /\ authors' = authors
         /\ reassigned' = reassigned /\ mishaps' \in 0..MaxMishap
    BY <1>1 DEF StartQaRound, elsewhere, TypeOK
  <1>14. QED
    BY <1>10, <1>11, <1>12, <1>13, RunsMove

\* The way of one merge: claim, dispatch, close.  Whoever is on it holds the key.
LEMMA MergeStepsKeep ==
    ASSUME FlowAssumption, IInv, NEW i \in DOMAIN rows,
           RequestMerge(i) \/ DispatchMerge(i) \/ CloseTask(i)
    PROVE  IInv'
  <1>1. TypeOK /\ RoundsInv /\ StatusInv /\ OpenersInv /\ RunsInv /\ KeyInv /\ HandsInv
    BY DEF IInv, Chain
  <1>2. /\ i \in DOMAIN run /\ run[i] \in Run
        /\ DOMAIN run = DOMAIN rows /\ Len(rows) \in Nat
    BY <1>1, Reading
  <1>0. merges \in Nat /\ key \in {"free", "in_flight", "failed", "conflict", "merged"}
    BY <1>1 DEF TypeOK
  <1>3. PICK to \in {"dispatch", "close", "over"} :
            /\ Step(i, to)
            /\ \/ /\ run[i].at = "merge" /\ to = "dispatch" /\ key = "free"
                  /\ key' = "in_flight" /\ merges' = merges /\ status' = status
               \/ /\ run[i].at = "merge" /\ to = "over"
                  /\ key' = key /\ merges' = merges /\ status' = status
               \/ /\ run[i].at = "dispatch" /\ to = "close" /\ MergeEligible
                  /\ key' = key /\ merges' = merges + 1 /\ status' = status
               \/ /\ run[i].at = "dispatch" /\ to = "over" /\ key' \in {"conflict", "failed"}
                  /\ merges' = merges /\ status' = status
               \/ /\ run[i].at = "close" /\ to = "over" /\ key' = "merged"
                  /\ merges' = merges /\ status' \in {status, "DONE"}
                  /\ status' # status => status = "QA"
    <2>1. CASE RequestMerge(i)
      BY <2>1 DEF RequestMerge, MayClaim
    <2>2. CASE DispatchMerge(i)
      BY <2>2 DEF DispatchMerge
    <2>3. CASE CloseTask(i)
      <3>1. CanTransition(status, "DONE") => status \in {"QA", "APPROVAL"}
        BY DEF CanTransition, Successors
      <3>2. status # "APPROVAL"
        BY <1>1 DEF StatusInv
      <3>3. QED
        BY <2>3, <3>1, <3>2 DEF CloseTask
    <2>4. QED
      BY <2>1, <2>2, <2>3
  <1>4. /\ opener' = opener /\ toStart' = toStart /\ sweep' = sweep /\ rows' = rows
        /\ UNCHANGED <<owner, authors, reassigned, mishaps>>
    BY DEF RequestMerge, DispatchMerge, CloseTask
  <1> DEFINE r == [run[i] EXCEPT !.at = to, !.tries = 0]
  <1>5. GoesOn(i, r)
    BY <1>1, <1>3, Stepping DEF Steps
  <1>6. r.at = to /\ r.verdict = run[i].verdict
    BY <1>2 DEF Run
  <1> HIDE DEF r
  <1>7. /\ DOMAIN run' = DOMAIN run /\ run'[i] = r
        /\ \A j \in DOMAIN run : j # i => run'[j] = run[j]
        /\ \A at : AtStep(at)' = IF r.at \in at THEN AtStep(at) \cup {i} ELSE AtStep(at) \ {i}
    BY <1>1, <1>5, RunGoneOn
  <1>8. /\ AtStep({"open_qa"})' \subseteq AtStep({"open_qa"})
        /\ AtStep({"dispatch"})' =
             IF to = "dispatch" THEN AtStep({"dispatch"}) \cup {i} ELSE AtStep({"dispatch"}) \ {i}
        /\ AtStep({"close"})' =
             IF to = "close" THEN AtStep({"close"}) \cup {i} ELSE AtStep({"close"}) \ {i}
        /\ AtStep({"dispatch", "close"})' =
             IF to \in {"dispatch", "close"} THEN AtStep({"dispatch", "close"}) \cup {i}
                                             ELSE AtStep({"dispatch", "close"}) \ {i}
    BY <1>3, <1>6, <1>7
  <1>9. Accepted' = Accepted /\ OpenRows' = OpenRows /\ \A k : OfKind(k)' = OfKind(k)
    BY <1>4, SameRows
  <1>10. Fits(i) /\ rows[i].kind = "qa" /\ i \in OfKind("qa") /\ Accepted
    <2>1. Fits(i)
      BY <1>1, <1>2 DEF RunsInv
    <2>2. rows[i].kind = "qa"
      BY <1>3, <2>1 DEF Fits
    <2>3. i \in OfKind("qa")
      BY <2>2 DEF OfKind
    <2>4. QED
      BY <1>1, <2>1, <2>2, <2>3 DEF RoundsInv
  <1>11. /\ run[i].at \in {"dispatch", "close"} => AtStep({"dispatch", "close"}) = {i}
         /\ run[i].at = "dispatch" =>
               key = "in_flight" /\ merges = 0 /\ AtStep({"close"}) = {} /\ i \in AtStep({"dispatch"})
         /\ run[i].at = "close" =>
               key = "in_flight" /\ merges = 1 /\ AtStep({"dispatch"}) = {} /\ i \in AtStep({"close"})
    <2>1. /\ run[i].at \in {"dispatch", "close"} => i \in AtStep({"dispatch", "close"})
          /\ run[i].at = "dispatch" => i \in AtStep({"dispatch"})
          /\ run[i].at = "close" => i \in AtStep({"close"})
      BY <1>2 DEF AtStep
    <2>2. run[i].at \in {"dispatch", "close"} => AtStep({"dispatch", "close"}) = {i}
      BY <1>1, <2>1, <1>0 DEF KeyInv
    <2>3. /\ AtStep({"dispatch"}) # {} => key = "in_flight" /\ merges = 0
          /\ AtStep({"close"}) # {} => key = "in_flight" /\ merges = 1
      <3>1. AtStep({"dispatch"}) \subseteq AtStep({"dispatch", "close"})
            /\ AtStep({"close"}) \subseteq AtStep({"dispatch", "close"})
        BY DEF AtStep
      <3>2. QED
        BY <1>1, <3>1 DEF KeyInv
    <2>4. ASSUME run[i].at = "dispatch"
          PROVE  key = "in_flight" /\ merges = 0 /\ AtStep({"close"}) = {}
      <3>1. key = "in_flight" /\ merges = 0
        BY <2>1, <2>3, <2>4
      <3>2. merges # 1
        BY <1>0, <3>1
      <3>3. QED
        BY <2>3, <3>1, <3>2
    <2>5. ASSUME run[i].at = "close"
          PROVE  key = "in_flight" /\ merges = 1 /\ AtStep({"dispatch"}) = {}
      <3>1. key = "in_flight" /\ merges = 1
        BY <2>1, <2>3, <2>5
      <3>2. merges # 0
        BY <1>0, <3>1
      <3>3. QED
        BY <2>3, <3>1, <3>2
    <2>6. QED
      BY <2>1, <2>2, <2>4, <2>5
  <1>12. /\ key = "free" => merges = 0 /\ AtStep({"dispatch", "close"}) = {}
         /\ AtStep({"dispatch"}) \cup AtStep({"close"}) = AtStep({"dispatch", "close"})
    BY <1>1 DEF KeyInv, AtStep
  <1>13. status' \in {status, "DONE"} /\ (status' # status => status = "QA" /\ run[i].at = "close")
    BY <1>3
  <1>14. TypeOK'
    <2>1. run' \in Seq(Run) /\ Len(run') = Len(rows)
      BY <1>5 DEF GoesOn
    <2>2. status' \in TaskStatus
      BY <1>1, <1>13, Statuses DEF TypeOK
    <2>3. key' \in {"free", "in_flight", "failed", "conflict", "merged"} /\ merges' \in Nat
      BY <1>0, <1>3
    <2>4. QED
      BY <1>1, <1>4, <2>1, <2>2, <2>3 DEF TypeOK
  <1>15. RoundsInv'
    BY <1>1, <1>4, <1>9 DEF RoundsInv
  <1>16. StatusInv'
    BY <1>1, <1>4, <1>9, <1>13 DEF StatusInv
  <1>17. OpenersInv'
    BY <1>1, <1>4, <1>8, <1>9 DEF OpenersInv
  <1>18. RunsInv'
    <2>1. ASSUME NEW j \in DOMAIN run PROVE Fits(j)'
      <3>1. Fits(j)
        BY <1>1 DEF RunsInv
      <3>2. CASE j = i
        BY <1>3, <1>4, <1>6, <1>7, <1>10, <3>2 DEF Fits
      <3>3. CASE j # i
        BY <1>4, <1>7, <3>1, <3>3 DEF Fits
      <3>4. QED
        BY <3>2, <3>3
    <2>2. QED
      BY <1>7, <2>1 DEF RunsInv
  <1>19. KeyInv'
    <2>1. CASE run[i].at = "merge" /\ to = "dispatch"
      BY <1>1, <1>3, <1>8, <1>12, <2>1, <1>0 DEF KeyInv
    <2>2. CASE run[i].at = "merge" /\ to = "over"
      BY <1>1, <1>3, <1>8, <2>2, <1>0 DEF KeyInv
    <2>3. CASE run[i].at = "dispatch" /\ to = "close"
      BY <1>1, <1>3, <1>8, <1>11, <1>12, <2>3, <1>0 DEF KeyInv
    <2>4. CASE run[i].at = "dispatch" /\ to = "over"
      BY <1>1, <1>3, <1>8, <1>11, <2>4, <1>0 DEF KeyInv
    <2>5. CASE run[i].at = "close"
      BY <1>1, <1>3, <1>8, <1>11, <2>5, <1>0 DEF KeyInv
    <2>6. QED
      BY <1>3, <2>1, <2>2, <2>3, <2>4, <2>5
  <1>20. HandsInv'
    <2>1. merges' > 0 => \A k \in Kinds : \E x \in OfKind(k) : rows[x].state = "approved"
      <3>1. CASE MergeEligible
        <4>1. \A x \in DOMAIN rows : rows[x].state = "approved"
          BY <3>1 DEF MergeEligible
        <4>2. \E x \in OfKind("qa") : rows[x].state = "approved"
          BY <1>10, <4>1
        <4>3. QED
          BY <1>10, <4>2 DEF Accepted, Kinds
      <3>2. CASE ~ MergeEligible
        BY <1>1, <1>3, <3>2 DEF HandsInv
      <3>3. QED
        BY <3>1, <3>2
    <2>2. QED
      BY <1>1, <1>4, <1>9, <2>1 DEF HandsInv
  <1>21. QED
    BY <1>14, <1>15, <1>16, <1>17, <1>18, <1>19, <1>20 DEF IInv, Chain

-----------------------------------------------------------------------------
(* The sweep.                                                              *)

LEMMA SweepFinds ==
    ASSUME FlowAssumption, IInv, FindOrphan \/ FindUnstarted
    PROVE  IInv'
  <1>1. TypeOK /\ RoundsInv /\ StatusInv /\ OpenersInv /\ RunsInv /\ KeyInv /\ HandsInv
    BY DEF IInv, Chain
  <1>2. Len(rows) \in Nat /\ DOMAIN rows = 1..Len(rows) /\ DOMAIN run = 1..Len(rows)
    BY <1>1, Reading
  <1>3. /\ rows' = rows /\ run' = run /\ status' = status /\ opener' = opener /\ toStart' = toStart
        /\ UNCHANGED <<owner, key, merges, authors, reassigned>>
    BY DEF FindOrphan, FindUnstarted, elsewhere
  <1>4. Accepted' = Accepted /\ OpenRows' = OpenRows /\ \A k : OfKind(k)' = OfKind(k)
    BY <1>3, SameRows
  <1>5. \A at : AtStep(at)' = AtStep(at)
    BY <1>3, SameRuns
  <1>6. \/ /\ sweep'.kind \in {"code", "qa"} /\ sweep'.by = owner /\ sweep'.row = 0
           /\ sweep'.kind = IF status = "QA" THEN "qa" ELSE "code"
           /\ Orphaned
        \/ /\ sweep'.kind = "none" /\ sweep'.by = NoAgent /\ sweep'.row \in DOMAIN rows
    BY DEF FindOrphan, FindUnstarted, AtRest
  <1>7. sweep' = [kind |-> sweep'.kind, by |-> sweep'.by, row |-> sweep'.row]
    BY DEF FindOrphan, FindUnstarted, AtRest
  <1>8. mishaps' \in 0..MaxMishap
    <2>1. mishaps' = mishaps \/ (mishaps < MaxMishap /\ mishaps' = mishaps + 1)
      BY DEF FindOrphan, FindUnstarted, elsewhere
    <2>2. mishaps \in 0..MaxMishap
      BY <1>1 DEF TypeOK
    <2>3. QED
      BY <2>1, <2>2, OneMore, Numbers
  <1>9. TypeOK'
    <2>1. 0 \in 0..Len(rows) /\ owner \in Agent
      BY <1>1, <1>2, Zero DEF TypeOK
    <2>2. sweep'.kind \in Kinds \cup {"none"} /\ sweep'.by \in Agent \cup {NoAgent}
          /\ sweep'.row \in 0..Len(rows)
      BY <1>2, <1>6, <2>1 DEF Kinds
    <2>3. sweep' \in SweepType(Len(rows))
      BY <1>7, <2>2 DEF SweepType
    <2>4. QED
      BY <1>1, <1>3, <1>8, <2>3 DEF TypeOK, SweepType
  <1>10. RoundsInv' /\ RunsInv' /\ KeyInv'
    BY <1>1, <1>3, <1>4, <1>5 DEF RoundsInv, RunsInv, Fits, KeyInv
  <1>11. /\ sweep'.kind # "none" =>
              /\ status \in {"REVIEW", "QA"} /\ OpenRows = {} /\ AtStep({"open_qa"}) = {}
              /\ opener = NoAgent
         /\ sweep'.kind = "code" => status = "REVIEW"
         /\ sweep'.kind = "qa" => status = "QA"
    BY <1>6 DEF Orphaned, Settled, AtStep
  <1>12. StatusInv'
    BY <1>1, <1>3, <1>4, <1>11 DEF StatusInv
  <1>13. OpenersInv'
    <2>1. sweep'.kind # "none" => sweep'.by # NoAgent
      BY <1>1, <1>6, Numbers DEF TypeOK
    <2>2. sweep'.kind = "code" => ~ Accepted
      BY <1>1, <1>11 DEF StatusInv
    <2>3. sweep'.kind = "qa" => Accepted
      BY <1>1, <1>11 DEF StatusInv
    <2>4. QED
      BY <1>1, <1>3, <1>4, <1>5, <1>11, <2>1, <2>2, <2>3 DEF OpenersInv
  <1>14. HandsInv'
    <2>1. reassigned = 0 => sweep'.by \in {NoAgent, FirstOwner}
      BY <1>1, <1>6 DEF HandsInv
    <2>2. QED
      BY <1>1, <1>3, <1>4, <2>1 DEF HandsInv
  <1>15. QED
    BY <1>9, <1>10, <1>12, <1>13, <1>14 DEF IInv, Chain

LEMMA SweepStartsKeeps ==
    ASSUME FlowAssumption, IInv, SweepStarts
    PROVE  IInv'
  <1>1. TypeOK /\ RunsInv
    BY DEF IInv, Chain
  <1> DEFINE n == sweep.row
  <1>2. n \in DOMAIN rows /\ n \in DOMAIN run
    <2>1. n \in 0..Len(rows) /\ n # 0
      BY <1>1 DEF TypeOK, SweepStarts
    <2>2. Len(rows) \in Nat /\ DOMAIN rows = 1..Len(rows) /\ DOMAIN run = 1..Len(rows)
      BY <1>1, Reading
    <2>3. QED
      BY <2>1, <2>2
  <1> DEFINE r == IF run[n].at \in Steps THEN run[n] ELSE [NoRun EXCEPT !.at = "start"]
  <1>3. GoesOn(n, r)
    BY <1>1, <1>2, Starting DEF SweepStarts
  <1>4. Fits(n)
    BY <1>1, <1>2 DEF RunsInv
  <1>5. /\ r.at = run[n].at \/ r.at = "start"
        /\ r.at = "submit" => r.verdict # "none"
        /\ rows[n].kind = "qa" => r.verdict # "changes_requested"
        /\ r.at \in {"merge", "dispatch", "close"} => rows[n].kind = "qa"
        /\ r.at = "start_qa" => r.next \in DOMAIN rows
    BY <1>4 DEF Fits, NoRun
  <1>6. /\ rows' = rows /\ status' = status /\ opener' = opener /\ toStart' = toStart
        /\ sweep' = AtRest /\ owner' = owner /\ key' = key /\ merges' = merges
        /\ authors' = authors /\ reassigned' = reassigned /\ mishaps' \in 0..MaxMishap
    BY <1>1 DEF SweepStarts, elsewhere, TypeOK
  <1> HIDE DEF r, n
  <1>7. QED
    BY <1>2, <1>3, <1>5, <1>6, RunMoves

LEMMA AdoptOrphanKeeps ==
    ASSUME FlowAssumption, IInv, AdoptOrphan
    PROVE  IInv'
  <1>1. TypeOK /\ RoundsInv /\ StatusInv /\ OpenersInv /\ RunsInv /\ KeyInv /\ HandsInv
    BY DEF IInv, Chain
  <1>2. /\ sweep.kind \in Kinds /\ sweep.by \in Agent
        /\ reassigned = 0 => sweep.by = FirstOwner
    <2>1. sweep.kind \in Kinds \cup {"none"} /\ sweep.by \in Agent \cup {NoAgent}
      BY <1>1 DEF TypeOK
    <2>2. sweep.kind # "none" /\ sweep.by # NoAgent
      BY <1>1 DEF AdoptOrphan, OpenersInv
    <2>3. QED
      BY <1>1, <2>1, <2>2 DEF HandsInv
  <1>3. /\ status' = status /\ opener' = opener /\ toStart' = toStart
        /\ UNCHANGED <<owner, key, merges, authors, reassigned, mishaps>>
    BY DEF AdoptOrphan, elsewhere
  <1>4. opener = NoAgent
    BY <1>1 DEF AdoptOrphan, OpenersInv
  <1>5. AtRest.kind = "none" /\ AtRest.by = NoAgent
    BY DEF AtRest
  <1>6. CASE sweep' = AtRest /\ rows' = rows /\ run' = run
    <2>1. Accepted' = Accepted /\ OpenRows' = OpenRows /\ \A k : OfKind(k)' = OfKind(k)
      BY <1>6, SameRows
    <2>2. \A at : AtStep(at)' = AtStep(at)
      BY <1>6, SameRuns
    <2>3. TypeOK'
      <3>1. 0 \in 0..Len(rows)
        BY <1>1, Zero, Reading
      <3>2. AtRest \in SweepType(Len(rows))
        BY <3>1 DEF AtRest, SweepType
      <3>3. QED
        BY <1>1, <1>3, <1>6, <3>2 DEF TypeOK, SweepType
    <2>4. RoundsInv' /\ RunsInv' /\ KeyInv'
      BY <1>1, <1>3, <1>6, <2>1, <2>2 DEF RoundsInv, RunsInv, Fits, KeyInv
    <2>5. StatusInv'
      BY <1>1, <1>3, <1>5, <1>6, <2>1 DEF StatusInv
    <2>6. OpenersInv'
      BY <1>1, <1>3, <1>4, <1>5, <1>6, <2>1, <2>2 DEF OpenersInv
    <2>7. HandsInv'
      BY <1>1, <1>3, <1>5, <1>6, <2>1 DEF HandsInv
    <2>8. QED
      BY <2>3, <2>4, <2>5, <2>6, <2>7 DEF IInv, Chain
  <1>7. ASSUME NEW i \in 1..MaxRows, RequestReview(sweep.kind, sweep.by, i),
               run' = RunsFor(i), sweep' = [AtRest EXCEPT !.row = i]
        PROVE  IInv'
    <2>1. sweep'.kind = "none" /\ sweep'.by = NoAgent /\ sweep'.row = i
          /\ sweep' = [kind |-> "none", by |-> NoAgent, row |-> i]
      BY <1>7 DEF AtRest
    <2>2. ASSUME rows' \in Seq(Row), Len(rows') <= MaxRows,
                 run' \in Seq(Run), Len(run') = Len(rows'),
                 Len(rows') >= Len(rows), i \in 0..Len(rows')
          PROVE  TypeOK'
      <3>1. toStart \in 0..Len(rows) /\ Len(rows) \in Nat
        BY <1>1, Reading DEF TypeOK
      <3>2. Len(rows') \in Nat
        BY <2>2, LenProperties
      <3>3. toStart \in 0..Len(rows')
        BY <2>2, <3>1, <3>2
      <3>4. sweep' \in SweepType(Len(rows'))
        BY <2>1, <2>2 DEF SweepType
      <3>5. QED
        BY <1>1, <1>3, <2>2, <3>3, <3>4 DEF TypeOK, SweepType
    <2>3. CASE sweep.kind = "code"
      <3>1. ~ Accepted /\ OfKind("code") \cap OpenRows = {}
        BY <1>1, <2>3 DEF OpenersInv
      <3>2. /\ rows' \in Seq(Row) /\ Len(rows') <= MaxRows
            /\ run' \in Seq(Run) /\ Len(run') = Len(rows')
            /\ Len(rows') >= Len(rows) /\ i \in 0..Len(rows')
            /\ RoundsInv' /\ RunsInv' /\ KeyInv'
            /\ ~ Accepted' /\ merges = 0
            /\ AtStep({"open_qa"})' = {}
            /\ reassigned = 0 => \A j \in DOMAIN rows' : rows'[j].reviewer # FirstOwner
        BY <1>2, <1>3, <1>7, <2>3, <3>1, CodeRound
      <3>3. TypeOK'
        BY <2>2, <3>2
      <3>4. StatusInv'
        BY <1>1, <1>3, <2>3, <3>1, <3>2 DEF StatusInv
      <3>5. OpenersInv'
        BY <1>3, <1>4, <2>1, <3>2 DEF OpenersInv
      <3>6. HandsInv'
        <4>1. merges' = 0
          BY <1>3, <3>2
        <4>2. reassigned' = 0 =>
                /\ owner' = FirstOwner /\ authors' \subseteq {FirstOwner}
                /\ opener' \in {NoAgent, FirstOwner}
                /\ sweep'.by \in {NoAgent, FirstOwner}
                /\ \A j \in DOMAIN rows' : rows'[j].reviewer # FirstOwner
          BY <1>1, <1>3, <1>4, <2>1, <3>2 DEF HandsInv
        <4>3. QED
          BY <4>1, <4>2 DEF HandsInv
      <3>7. QED
        BY <3>2, <3>3, <3>4, <3>5, <3>6 DEF IInv, Chain
    <2>4. CASE sweep.kind = "qa"
      <3>1. Accepted /\ OfKind("qa") \cap OpenRows = {} /\ AtStep({"open_qa"}) = {}
        BY <1>1, <2>4 DEF OpenersInv
      <3>2. /\ i = Len(rows) + 1 /\ i <= MaxRows /\ RunsFor(i) = Append(run, NoRun)
            /\ rows' \in Seq(Row) /\ Len(rows') = i
            /\ DOMAIN rows' = DOMAIN rows \cup {i} /\ i \notin DOMAIN rows
            /\ \A j \in DOMAIN rows : rows'[j] = rows[j]
            /\ rows'[i].kind = "qa" /\ rows'[i].state = "pending"
            /\ OfKind("code")' = OfKind("code") /\ OfKind("qa")' = OfKind("qa") \cup {i}
            /\ OpenRows' = OpenRows \cup {i}
            /\ RoundsInv' /\ Accepted'
            /\ reassigned = 0 => \A j \in DOMAIN rows' : rows'[j].reviewer # FirstOwner
        BY <1>2, <1>7, <2>4, <3>1, QaRound
      <3>3. Joined
        BY <1>1, <1>7, <3>2, Joining
      <3>4. /\ DOMAIN run' = DOMAIN run \cup {i}
            /\ \A j \in DOMAIN run : run'[j] = run[j]
            /\ run'[i] = NoRun
            /\ \A at : "none" \notin at => AtStep(at)' = AtStep(at)
        BY <1>1, <3>2, <3>3, RunJoined
      <3>5. /\ AtStep({"open_qa"})' = AtStep({"open_qa"})
            /\ AtStep({"dispatch", "close"})' = AtStep({"dispatch", "close"})
            /\ AtStep({"dispatch"})' = AtStep({"dispatch"})
            /\ AtStep({"close"})' = AtStep({"close"})
        BY <3>4
      <3>6. TypeOK'
        <4>1. run' \in Seq(Run) /\ Len(run') = Len(rows) + 1
          BY <3>3 DEF Joined
        <4>2. Len(rows) \in Nat
          BY <1>1, Reading
        <4>3. Len(rows') >= Len(rows) /\ i \in 0..Len(rows') /\ Len(rows') <= MaxRows
              /\ Len(run') = Len(rows')
          BY <3>2, <4>1, <4>2
        <4>4. QED
          BY <2>2, <3>2, <4>1, <4>3
      <3>7. OfKind("code")' \cap OpenRows' = OfKind("code") \cap OpenRows
        BY <3>2 DEF OfKind
      <3>8. StatusInv'
        <4>1. status \notin {"IN_PROGRESS", "CHANGES_REQUESTED", "REVIEW"}
          BY <1>1, <3>1 DEF StatusInv
        <4>2. status' = status /\ Accepted'
          BY <1>3, <3>2
        <4>3. QED
          BY <1>1, <4>1, <4>2 DEF StatusInv
      <3>9. OpenersInv'
        BY <1>3, <1>4, <2>1, <3>1, <3>5 DEF OpenersInv
      <3>10. RunsInv'
        <4>1. NoRun.at = "none" /\ NoRun.verdict = "none"
          BY DEF NoRun
        <4>2. ASSUME NEW j \in DOMAIN run PROVE Fits(j)'
          <5>1. j \in DOMAIN rows /\ Fits(j)
            BY <1>1, Reading DEF RunsInv
          <5>2. rows'[j] = rows[j] /\ run'[j] = run[j] /\ DOMAIN rows \subseteq DOMAIN rows'
            BY <3>2, <3>4, <5>1
          <5>3. QED
            BY <5>1, <5>2 DEF Fits
        <4>3. Fits(i)'
          BY <3>4, <4>1 DEF Fits
        <4>4. QED
          BY <3>4, <4>2, <4>3 DEF RunsInv
      <3>11. KeyInv'
        BY <1>1, <1>3, <3>5 DEF KeyInv
      <3>12. HandsInv'
        <4>1. \A k \in Kinds : \A x \in OfKind(k) : x \in OfKind(k)' /\ rows'[x] = rows[x]
          BY <3>2 DEF OfKind
        <4>2. merges > 0 => \A k \in Kinds : \E x \in OfKind(k)' : rows'[x].state = "approved"
          BY <1>1, <4>1 DEF HandsInv
        <4>3. QED
          BY <1>1, <1>3, <1>4, <2>1, <3>2, <4>2 DEF HandsInv
      <3>13. QED
        BY <3>2, <3>6, <3>8, <3>9, <3>10, <3>11, <3>12 DEF IInv, Chain
    <2>5. QED
      BY <1>2, <2>3, <2>4 DEF Kinds
  <1>8. QED
    BY <1>6, <1>7 DEF AdoptOrphan

-----------------------------------------------------------------------------
(* The theorems.                                                           *)

LEMMA InitHolds ==
    ASSUME FlowAssumption, Init
    PROVE  IInv
  <1>1. Len(<<>>) = 0 /\ <<>> \in Seq(Row) /\ <<>> \in Seq(Run) /\ 0 \in 0..0
    BY EmptySeq
  <1>2. /\ FirstOwner \in Agent /\ MaxRows \in Nat /\ 0 \in 0..MaxReassign /\ 0 \in 0..MaxMishap
        /\ 0 <= MaxRows
    BY Numbers
  <1>3. AtRest \in SweepType(0) /\ AtRest.kind = "none" /\ AtRest.by = NoAgent
    BY <1>1 DEF AtRest, SweepType
  <1>4. status \in TaskStatus
    BY Statuses DEF Init
  <1>5. TypeOK
    BY <1>1, <1>2, <1>3, <1>4 DEF Init, TypeOK, SweepType
  <1>6. DOMAIN rows = {} /\ DOMAIN run = {}
    BY DEF Init
  <1>7. /\ \A k : OfKind(k) = {}
        /\ OpenRows = {} /\ ~ Accepted
        /\ \A at : AtStep(at) = {}
    BY <1>6 DEF OfKind, OpenRows, Accepted, AtStep
  <1>8. RoundsInv /\ RunsInv
    BY <1>6, <1>7 DEF RoundsInv, RunsInv
  <1>9. StatusInv /\ OpenersInv
    BY <1>3, <1>7 DEF Init, StatusInv, OpenersInv
  <1>10. KeyInv
    BY <1>7 DEF Init, KeyInv
  <1>11. HandsInv
    BY <1>3, <1>6, <1>7 DEF Init, HandsInv
  <1>12. QED
    BY <1>5, <1>8, <1>9, <1>10, <1>11 DEF IInv, Chain

LEMMA NextKeeps ==
    ASSUME FlowAssumption, IInv, [Next]_vars
    PROVE  IInv'
  <1>1. CASE SubmitWork
    BY <1>1, SubmitWorkKeeps
  <1>2. CASE OpenCodeReview
    BY <1>2, OpenCodeReviewKeeps
  <1>3. CASE StartWorkflow
    BY <1>3, StartWorkflowKeeps
  <1>4. CASE LoseCall \/ Resume \/ Reassign \/ Cancel
    BY <1>4, Aside
  <1>5. ASSUME NEW i \in DOMAIN rows, ReviewStep(i) \/ CrashAttempt(i)
        PROVE  IInv'
    <2>1. CASE StartReview(i)
      BY <2>1, StartReviewKeeps
    <2>2. CASE DecideReview(i)
      BY <2>2, DecideReviewKeeps
    <2>3. CASE SkipDecided(i) \/ RefuseVerdict(i) \/ CrashAttempt(i)
      BY <2>3, RunStepsKeep
    <2>4. CASE SubmitVerdict(i)
      BY <2>4, SubmitVerdictKeeps
    <2>5. CASE OpenQaRound(i)
      BY <2>5, OpenQaRoundKeeps
    <2>6. CASE StartQaRound(i)
      BY <2>6, StartQaRoundKeeps
    <2>7. CASE RequestMerge(i) \/ DispatchMerge(i) \/ CloseTask(i)
      BY <2>7, MergeStepsKeep
    <2>8. QED
      BY <1>5, <2>1, <2>2, <2>3, <2>4, <2>5, <2>6, <2>7 DEF ReviewStep
  <1>6. CASE FindOrphan \/ FindUnstarted
    BY <1>6, SweepFinds
  <1>7. CASE AdoptOrphan
    BY <1>7, AdoptOrphanKeeps
  <1>8. CASE SweepStarts
    BY <1>8, SweepStartsKeeps
  <1>9. CASE UNCHANGED vars
    <2>1. rows' = rows /\ run' = run
      BY <1>9 DEF vars
    <2>2. Accepted' = Accepted /\ OpenRows' = OpenRows /\ \A k : OfKind(k)' = OfKind(k)
      BY <2>1, SameRows
    <2>3. \A at : AtStep(at)' = AtStep(at)
      BY <2>1, SameRuns
    <2>4. TypeOK'
      BY <1>9 DEF vars, IInv, TypeOK
    <2>5. Chain'
      BY <1>9, <2>2, <2>3 DEF vars, IInv, Chain, RoundsInv, StatusInv, OpenersInv, RunsInv, Fits, KeyInv, HandsInv
    <2>6. QED
      BY <2>4, <2>5 DEF IInv
  <1>10. QED
    BY <1>1, <1>2, <1>3, <1>4, <1>5, <1>6, <1>7, <1>8, <1>9 DEF Next, Sweep

\* The inductive invariant holds throughout.
THEOREM ChainHolds == Spec => []IInv
  <1>1. Init => IInv
    BY InitHolds, FlowAssumption
  <1>2. IInv /\ [Next]_vars => IInv'
    BY NextKeeps, FlowAssumption
  <1>3. QED
    BY <1>1, <1>2, PTL DEF Spec

\* The rows, runs and calls of the review chain keep their types.
THEOREM TypeCorrect == Spec => []TypeOK
  <1>1. IInv => TypeOK
    BY DEF IInv
  <1>2. QED
    BY <1>1, ChainHolds, PTL

\* However crashes, the sweep and rework interleave, a kind of review never has
\* two rounds open: a code row is reset and never joined by a second one, and
\* whoever asks for a QA round finds none open.
THEOREM RoundsDoNotOverlap == Spec => []OneOpenRound
  <1>1. IInv => OneOpenRound
    BY DEF IInv, Chain, RoundsInv, OneOpenRound, Kinds
  <1>2. QED
    BY <1>1, ChainHolds, PTL

\* The branch is merged at most once however often its merge is asked for, and
\* the task is DONE only after that.
THEOREM MergesOnce == Spec => []MergedOnceThenDone
  <1>1. IInv => MergedOnceThenDone
    <2>1. SUFFICES ASSUME TypeOK, KeyInv
                   PROVE  MergedOnceThenDone
      BY DEF IInv, Chain
    <2>2. merges \in {0, 1}
      BY <2>1 DEF TypeOK, KeyInv
    <2>3. status = "DONE" => merges = 1
      BY <2>1 DEF KeyInv
    <2>4. QED
      BY <2>2, <2>3 DEF MergedOnceThenDone
  <1>2. QED
    BY <1>1, ChainHolds, PTL

\* What is on main was approved by a code and by a QA reviewer other than the
\* agent that made it, as long as the task stayed in one hand.
THEOREM MergesAcceptedWork == Spec => []MergedWorkWasAccepted
  <1>1. IInv => MergedWorkWasAccepted
    <2>1. SUFFICES ASSUME HandsInv, merges > 0, reassigned = 0, NEW k \in Kinds
                   PROVE  \E i \in OfKind(k) :
                             rows[i].state = "approved" /\ rows[i].reviewer \notin authors
      BY DEF IInv, Chain, MergedWorkWasAccepted
    <2>2. PICK i \in OfKind(k) : rows[i].state = "approved"
      BY <2>1 DEF HandsInv
    <2>3. i \in DOMAIN rows
      BY DEF OfKind
    <2>4. rows[i].reviewer \notin authors
      BY <2>1, <2>3 DEF HandsInv
    <2>5. QED
      BY <2>2, <2>4
  <1>2. QED
    BY <1>1, ChainHolds, PTL
================================================================================

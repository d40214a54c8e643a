----------------------------- MODULE Budgets_proof -----------------------------
(***************************************************************************)
(* What is handed out and what is spent of it, for any agents, calls,      *)
(* children, budgets, limits and bounds: the gateway never bills, spends   *)
(* or runs twice, and delegations overdraw neither the pool nor, unless    *)
(* two of them meet, a queue.  Sums of cents are counted: Total is the     *)
(* number of the cents, so that adding a call adds a disjoint set.         *)
(***************************************************************************)
EXTENDS ToolCalls, Delegation, FiniteSetTheorems, TLAPS

-----------------------------------------------------------------------------
(* Sums, counted cent by cent                                              *)

LEMMA SingleCents ==
    ASSUME NEW S, NEW f \in [S -> Nat], NEW i \in S
    PROVE  /\ Cents(f, {i}) = {i} \X (1..f[i])
           /\ IsFiniteSet(Cents(f, {i}))
           /\ Cardinality(Cents(f, {i})) = f[i]
  <1>1. Cents(f, {i}) = {i} \X (1..f[i])
    BY DEF Cents
  <1>2. f[i] \in Nat
    OBVIOUS
  <1>3. IsFiniteSet(1..f[i]) /\ Cardinality(1..f[i]) = f[i]
    <2>1. IsFiniteSet(1..f[i]) /\ Cardinality(1..f[i]) = IF 1 > f[i] THEN 0 ELSE f[i] - 1 + 1
      BY <1>2, FS_Interval
    <2>2. QED
      BY <2>1, <1>2
  <1>4. IsFiniteSet({i}) /\ Cardinality({i}) = 1
    BY FS_Singleton
  <1>5. /\ IsFiniteSet({i} \X (1..f[i]))
        /\ Cardinality({i} \X (1..f[i])) = Cardinality({i}) * Cardinality(1..f[i])
    BY <1>3, <1>4, FS_Product
  <1>6. 1 * f[i] = f[i]
    BY <1>2
  <1>7. QED
    BY <1>1, <1>3, <1>4, <1>5, <1>6

LEMMA CentsFinite ==
    ASSUME NEW S, NEW f \in [S -> Nat], NEW R \in SUBSET S, IsFiniteSet(R)
    PROVE  IsFiniteSet(Cents(f, R))
  <1> DEFINE P == {{i} \X (1..f[i]) : i \in R}
             g == [i \in R |-> {i} \X (1..f[i])]
  <1>1. g \in Surjection(R, P)
    BY DEF Surjection
  <1>2. IsFiniteSet(P)
    <2> HIDE DEF P, g
    <2>1. QED
      BY <1>1, FS_Surjection
  <1>3. \A T \in P : IsFiniteSet(T)
    <2>1. SUFFICES ASSUME NEW i \in R
                   PROVE  IsFiniteSet({i} \X (1..f[i]))
      OBVIOUS
    <2>2. i \in S
      OBVIOUS
    <2>3. QED
      BY <2>2, SingleCents
  <1>4. IsFiniteSet(UNION P)
    <2> HIDE DEF P
    <2>1. QED
      BY <1>2, <1>3, FS_UNION
  <1>5. QED
    BY <1>4 DEF Cents

LEMMA TotalType ==
    ASSUME NEW S, NEW f \in [S -> Nat], NEW R \in SUBSET S, IsFiniteSet(R)
    PROVE  Total(f, R) \in Nat
  <1>1. IsFiniteSet(Cents(f, R))
    BY CentsFinite
  <1>2. QED
    BY <1>1, FS_CardinalityType DEF Total

LEMMA TotalSplits ==
    ASSUME NEW S, NEW f \in [S -> Nat], NEW R \in SUBSET S, NEW T \in SUBSET S,
           IsFiniteSet(R), IsFiniteSet(T), R \cap T = {}
    PROVE  Total(f, R \cup T) = Total(f, R) + Total(f, T)
  <1>1. IsFiniteSet(Cents(f, R)) /\ IsFiniteSet(Cents(f, T))
    BY CentsFinite
  <1>2. Cents(f, R \cup T) = Cents(f, R) \cup Cents(f, T)
    BY DEF Cents
  <1>3. Cents(f, R) \cap Cents(f, T) = {}
    BY DEF Cents
  <1>4. Cardinality({}) = 0
    BY FS_EmptySet
  <1>5. /\ Cardinality(Cents(f, R)) \in Nat
        /\ Cardinality(Cents(f, T)) \in Nat
    BY <1>1, FS_CardinalityType
  <1>6. Cardinality(Cents(f, R) \cup Cents(f, T))
          = Cardinality(Cents(f, R)) + Cardinality(Cents(f, T))
            - Cardinality(Cents(f, R) \cap Cents(f, T))
    BY <1>1, FS_Union
  <1>7. \A a, b, c \in Nat : c = 0 => a + b - c = a + b
    OBVIOUS
  <1>8. Cardinality(Cents(f, R) \cap Cents(f, T)) = 0
    BY <1>3, <1>4
  <1>9. Cardinality(Cents(f, R) \cup Cents(f, T))
          = Cardinality(Cents(f, R)) + Cardinality(Cents(f, T))
    BY <1>5, <1>6, <1>7, <1>8
  <1>10. QED
    BY <1>2, <1>9 DEF Total

LEMMA TotalOfOne ==
    ASSUME NEW S, NEW f \in [S -> Nat], NEW i \in S
    PROVE  Total(f, {i}) = f[i]
  BY SingleCents DEF Total

LEMMA TotalGrows ==
    ASSUME NEW S, NEW f \in [S -> Nat], NEW g \in [S -> Nat],
           NEW R \in SUBSET S, NEW T \in SUBSET S, IsFiniteSet(T), R \subseteq T,
           \A i \in R : f[i] <= g[i]
    PROVE  Total(f, R) <= Total(g, T)
  <1>1. IsFiniteSet(Cents(g, T))
    BY CentsFinite
  <1>2. Cents(f, R) \subseteq Cents(g, T)
    <2>1. \A i \in R : f[i] \in Nat /\ g[i] \in Nat
      OBVIOUS
    <2>2. \A i \in R : 1..f[i] \subseteq 1..g[i]
      BY <2>1
    <2>3. QED
      BY <2>2 DEF Cents
  <1>3. QED
    BY <1>1, <1>2, FS_Subset DEF Total

LEMMA TotalSame ==
    ASSUME NEW f, NEW g, NEW R, \A i \in R : f[i] = g[i]
    PROVE  Total(f, R) = Total(g, R)
  BY DEF Total, Cents

\* What changes at one member only changes the sum by that.
LEMMA TotalWithout ==
    ASSUME NEW S, NEW f \in [S -> Nat], NEW R \in SUBSET S, IsFiniteSet(R), NEW i \in R
    PROVE  Total(f, R) = Total(f, R \ {i}) + f[i]
  <1>1. IsFiniteSet(R \ {i}) /\ IsFiniteSet({i})
    BY FS_RemoveElement, FS_Singleton
  <1>2. (R \ {i}) \cup {i} = R /\ (R \ {i}) \cap {i} = {}
    OBVIOUS
  <1>3. i \in S /\ R \ {i} \in SUBSET S /\ {i} \in SUBSET S
    OBVIOUS
  <1>4. Total(f, (R \ {i}) \cup {i}) = Total(f, R \ {i}) + Total(f, {i})
    BY <1>1, <1>2, <1>3, TotalSplits
  <1>5. QED
    BY <1>2, <1>3, <1>4, TotalOfOne

-----------------------------------------------------------------------------
(* The inductive invariant                                                 *)

Before == {"claimed", "allowed", "denied", "held", "reserved"}

\* What the row of an invocation is while invoke() stands somewhere.
Rows ==
    \A i \in Inv :
        /\ at[i] \in {"idle", "claimed", "allowed", "denied", "held"} => row[i] = "none"
        /\ at[i] \in {"reserved", "running"} =>
               row[i] = "dispatched" /\ cost[i] = EstimateOf(i)
        /\ i \in old => at[i] = "dead"

\* The key of a call with side effects belongs to the one attempt that claimed
\* it: no other stands before its tool, and it does so before the first run.
Keys ==
    \A c \in Call \ SideEffectFree :
        /\ runs[c] <= 1
        /\ key[c] = "absent" => runs[c] = 0
        /\ \A i, j \in Inv :
               i[1] = c /\ at[i] \in Before =>
                   /\ key[c] # "absent" /\ runs[c] = 0
                   /\ j[1] = c /\ at[j] \in Before => i = j

IInv ==
    /\ TypeOK
    /\ Rows
    /\ Keys
    /\ EveryCallIsBilledOnce
    /\ CallsKeepTheBudget
    /\ BreakerHolds

Paid(t) == {i \in OnTask(t) : row[i] = "succeeded"}
Live(t) == {i \in OnTask(t) : row[i] = "succeeded" \/ i \in InFlight}

LEMMA Numbers ==
    /\ MaxSteps \in Nat /\ MaxUpsets \in Nat
    /\ \A c \in Call : Attempts[c] \in Nat /\ Estimate[c] \in Nat /\ TaskOf[c] \in Task
    /\ \A n \in Limits : n \in Nat
  <1>1. MaxSteps \in {MaxSteps, MaxUpsets} /\ MaxUpsets \in {MaxSteps, MaxUpsets}
    OBVIOUS
  <1>2. QED
    BY <1>1, CallsAssumption

LEMMA Invocation ==
    ASSUME NEW i \in Inv
    PROVE  i[1] \in Call /\ TaskIn(i) \in Task /\ EstimateOf(i) \in Nat
  <1>1. i[1] \in Call
    BY DEF Inv
  <1>2. QED
    BY <1>1, Numbers DEF TaskIn, EstimateOf

LEMMA InvFinite == IsFiniteSet(Inv)
  <1>1. Inv = Cents(Attempts, Call)
    BY DEF Inv, Cents
  <1>2. Attempts \in [Call -> Nat] /\ Call \in SUBSET Call /\ IsFiniteSet(Call)
    BY CallsAssumption
  <1>3. QED
    BY <1>1, <1>2, CentsFinite

LEMMA SubsetsFinite ==
    ASSUME NEW S \in SUBSET Inv
    PROVE  IsFiniteSet(S)
  BY InvFinite, FS_Subset

-----------------------------------------------------------------------------
(* One step per action: the types and the rows                             *)

LEMMA TypeHolds ==
    ASSUME TypeOK, Rows, Next
    PROVE  TypeOK'
  <1>1. ASSUME NEW i \in Inv, Invoke(i)
        PROVE  TypeOK'
    <2>1. MaxUpsets \in Nat /\ \A m \in Limits : m \in Nat
      BY Numbers
    <2>2. i[1] \in Call /\ TaskIn(i) \in Task /\ EstimateOf(i) \in Nat
      BY Invocation
    <2>3. QED
      BY <1>1, <2>1, <2>2 DEF Invoke, MayBegin, Goto, TypeOK, Rows, Points, RowStatus, ledger
  <1>2. ASSUME NEW i \in Inv, Decide(i)
        PROVE  TypeOK'
    <2>1. MaxUpsets \in Nat /\ \A m \in Limits : m \in Nat
      BY Numbers
    <2>2. i[1] \in Call /\ TaskIn(i) \in Task /\ EstimateOf(i) \in Nat
      BY Invocation
    <2>3. QED
      BY <1>2, <2>1, <2>2 DEF Decide, Goto, TypeOK, Rows, Points, RowStatus, ledger
  <1>3. ASSUME NEW i \in Inv, Reserve(i)
        PROVE  TypeOK'
    <2>1. MaxUpsets \in Nat /\ \A m \in Limits : m \in Nat
      BY Numbers
    <2>2. i[1] \in Call /\ TaskIn(i) \in Task /\ EstimateOf(i) \in Nat
      BY Invocation
    <2>3. QED
      BY <1>3, <2>1, <2>2 DEF Reserve, Goto, SetRow, TypeOK, Rows, Points, RowStatus, ledger
  <1>4. ASSUME NEW i \in Inv, Turndown(i)
        PROVE  TypeOK'
    <2>1. MaxUpsets \in Nat /\ \A m \in Limits : m \in Nat
      BY Numbers
    <2>2. i[1] \in Call /\ TaskIn(i) \in Task /\ EstimateOf(i) \in Nat
      BY Invocation
    <2>3. QED
      BY <1>4, <2>1, <2>2 DEF Turndown, Goto, SetRow, TypeOK, Rows, Points, RowStatus, ledger
  <1>5. ASSUME NEW i \in Inv, OnlyAudit(i)
        PROVE  TypeOK'
    <2>1. MaxUpsets \in Nat /\ \A m \in Limits : m \in Nat
      BY Numbers
    <2>2. i[1] \in Call /\ TaskIn(i) \in Task /\ EstimateOf(i) \in Nat
      BY Invocation
    <2>3. QED
      BY <1>5, <2>1, <2>2 DEF OnlyAudit, Goto, SetRow, TypeOK, Rows, Points, RowStatus, ledger
  <1>6. ASSUME NEW i \in Inv, Dispatch(i)
        PROVE  TypeOK'
    <2>1. MaxUpsets \in Nat /\ \A m \in Limits : m \in Nat
      BY Numbers
    <2>2. i[1] \in Call /\ TaskIn(i) \in Task /\ EstimateOf(i) \in Nat
      BY Invocation
    <2>3. QED
      BY <1>6, <2>1, <2>2 DEF Dispatch, Goto, TypeOK, Rows, Points, RowStatus, ledger
  <1>7. ASSUME NEW i \in Inv, Settle(i)
        PROVE  TypeOK'
    <2>1. MaxUpsets \in Nat /\ \A m \in Limits : m \in Nat
      BY Numbers
    <2>2. i[1] \in Call /\ TaskIn(i) \in Task /\ EstimateOf(i) \in Nat
      BY Invocation
    <2>3. PICK n \in Actual(EstimateOf(i)) :
              /\ SetRow(i, "succeeded", n)
              /\ IF n > 0 THEN Book(TaskIn(i), n) ELSE UNCHANGED ledger
      BY <1>7 DEF Settle
    <2>4. n \in Nat
      BY <2>2 DEF Actual
    <2>5. /\ at' \in [Inv -> Points] /\ row' \in [Inv -> RowStatus]
          /\ cost' \in [Inv -> Nat] /\ old' \subseteq {k \in Inv : row'[k] = "dispatched"}
      BY <1>7, <2>3, <2>4, Invocation
         DEF Settle, Goto, SetRow, TypeOK, Rows, Points, RowStatus
    <2>6. spent' \in [Task -> Nat] /\ today' \in Nat /\ paused' \subseteq Agent
      BY <2>2, <2>3, <2>4 DEF Book, ledger, TypeOK
    <2>7. QED
      BY <1>7, <2>5, <2>6 DEF Settle, TypeOK
  <1>8. ASSUME NEW i \in Inv, Record(i)
        PROVE  TypeOK'
    <2>1. MaxUpsets \in Nat /\ \A m \in Limits : m \in Nat
      BY Numbers
    <2>2. i[1] \in Call /\ TaskIn(i) \in Task /\ EstimateOf(i) \in Nat
      BY Invocation
    <2>3. QED
      BY <1>8, <2>1, <2>2 DEF Record, Goto, TypeOK, Rows, Points, RowStatus, ledger
  <1>9. ASSUME NEW i \in Inv, Fail(i)
        PROVE  TypeOK'
    <2>1. MaxUpsets \in Nat /\ \A m \in Limits : m \in Nat
      BY Numbers
    <2>2. i[1] \in Call /\ TaskIn(i) \in Task /\ EstimateOf(i) \in Nat
      BY Invocation
    <2>3. QED
      BY <1>9, <2>1, <2>2 DEF Fail, Goto, SetRow, Upset, TypeOK, Rows, Points, RowStatus, ledger
  <1>10. ASSUME NEW i \in Inv, Die(i)
        PROVE  TypeOK'
    <2>1. MaxUpsets \in Nat /\ \A m \in Limits : m \in Nat
      BY Numbers
    <2>2. i[1] \in Call /\ TaskIn(i) \in Task /\ EstimateOf(i) \in Nat
      BY Invocation
    <2>3. QED
      BY <1>10, <2>1, <2>2 DEF Die, Goto, Upset, TypeOK, Rows, Points, RowStatus, ledger
  <1>11. ASSUME NEW i \in Inv, GrowOld(i)
        PROVE  TypeOK'
    <2>1. MaxUpsets \in Nat /\ \A m \in Limits : m \in Nat
      BY Numbers
    <2>2. i[1] \in Call /\ TaskIn(i) \in Task /\ EstimateOf(i) \in Nat
      BY Invocation
    <2>3. QED
      BY <1>11, <2>1, <2>2 DEF GrowOld, TypeOK, Rows, Points, RowStatus, ledger
  <1>12. ASSUME NEW t \in Task, NEW n \in 1..MaxSteps, PersistStep(t, n)
        PROVE  TypeOK'
    <2>1. MaxUpsets \in Nat /\ \A m \in Limits : m \in Nat
      BY Numbers
    <2>2. n \in Nat
      BY Numbers
    <2>3. QED
      BY <1>12, <2>1, <2>2 DEF PersistStep, Book, TypeOK
  <1>13. ASSUME NEW n \in Limits, SetBudget(n)
        PROVE  TypeOK'
    <2>1. MaxUpsets \in Nat /\ \A m \in Limits : m \in Nat
      BY Numbers
    <2>2. QED
      BY <1>13, <2>1 DEF SetBudget, Upset, TypeOK, ledger
  <1>14. ASSUME NEW n \in Limits, RestoreBudget(n)
        PROVE  TypeOK'
    <2>1. MaxUpsets \in Nat /\ \A m \in Limits : m \in Nat
      BY Numbers
    <2>2. QED
      BY <1>14, <2>1 DEF RestoreBudget, Upset, TypeOK, ledger
  <1>15. ASSUME NewDay
        PROVE  TypeOK'
    <2>1. MaxUpsets \in Nat /\ \A m \in Limits : m \in Nat
      BY Numbers
    <2>2. today' \in Nat /\ waived' \in BOOLEAN
      BY <1>15 DEF NewDay
    <2>3. upsets' \in 0..MaxUpsets
      BY <1>15, <2>1 DEF NewDay, Upset, TypeOK
    <2>4. QED
      BY <1>15, <2>2, <2>3 DEF NewDay, TypeOK
  <1>16. ASSUME NEW i \in Inv, Proceed(i)
        PROVE  TypeOK'
    BY <1>2, <1>3, <1>4, <1>5, <1>6, <1>7, <1>8, <1>16 DEF Proceed
  <1>17. QED
    BY <1>1, <1>9, <1>10, <1>11, <1>12, <1>13, <1>14, <1>15, <1>16 DEF Next

LEMMA RowsHold ==
    ASSUME TypeOK, Rows, Next
    PROVE  Rows'
  <1>1. ASSUME NEW i \in Inv, Invoke(i)
        PROVE  Rows'
    BY <1>1 DEF Invoke, MayBegin, Goto, TypeOK, Rows, Points, EstimateOf
  <1>2. ASSUME NEW i \in Inv, Decide(i)
        PROVE  Rows'
    BY <1>2 DEF Decide, Goto, TypeOK, Rows, Points, EstimateOf
  <1>3. ASSUME NEW i \in Inv, Reserve(i)
        PROVE  Rows'
    BY <1>3 DEF Reserve, Goto, SetRow, TypeOK, Rows, Points, EstimateOf
  <1>4. ASSUME NEW i \in Inv, Turndown(i)
        PROVE  Rows'
    BY <1>4 DEF Turndown, Goto, SetRow, TypeOK, Rows, Points, EstimateOf
  <1>5. ASSUME NEW i \in Inv, OnlyAudit(i)
        PROVE  Rows'
    BY <1>5 DEF OnlyAudit, Goto, SetRow, TypeOK, Rows, Points, EstimateOf
  <1>6. ASSUME NEW i \in Inv, Dispatch(i)
        PROVE  Rows'
    BY <1>6 DEF Dispatch, Goto, TypeOK, Rows, Points, EstimateOf
  <1>7. ASSUME NEW i \in Inv, Settle(i)
        PROVE  Rows'
    BY <1>7 DEF Settle, Goto, SetRow, Book, Actual, TypeOK, Rows, Points, EstimateOf
  <1>8. ASSUME NEW i \in Inv, Record(i)
        PROVE  Rows'
    BY <1>8 DEF Record, Goto, TypeOK, Rows, Points, EstimateOf
  <1>9. ASSUME NEW i \in Inv, Fail(i)
        PROVE  Rows'
    BY <1>9 DEF Fail, Goto, SetRow, Upset, TypeOK, Rows, Points, EstimateOf
  <1>10. ASSUME NEW i \in Inv, Die(i)
        PROVE  Rows'
    BY <1>10 DEF Die, Goto, Upset, TypeOK, Rows, Points, EstimateOf
  <1>11. ASSUME NEW i \in Inv, GrowOld(i)
        PROVE  Rows'
    BY <1>11 DEF GrowOld, TypeOK, Rows, Points, EstimateOf
  <1>12. ASSUME NEW t \in Task, NEW n \in 1..MaxSteps, PersistStep(t, n)
        PROVE  Rows'
    BY <1>12 DEF PersistStep, Book, TypeOK, Rows, EstimateOf, ledger
  <1>13. ASSUME NEW n \in Limits, SetBudget(n)
        PROVE  Rows'
    BY <1>13 DEF SetBudget, Upset, TypeOK, Rows, EstimateOf, ledger
  <1>14. ASSUME NEW n \in Limits, RestoreBudget(n)
        PROVE  Rows'
    BY <1>14 DEF RestoreBudget, Upset, TypeOK, Rows, EstimateOf, ledger
  <1>15. ASSUME NewDay
        PROVE  Rows'
    BY <1>15 DEF NewDay, Upset, TypeOK, Rows, EstimateOf, ledger
  <1>16. ASSUME NEW i \in Inv, Proceed(i)
        PROVE  Rows'
    BY <1>2, <1>3, <1>4, <1>5, <1>6, <1>7, <1>8, <1>16 DEF Proceed
  <1>17. QED
    BY <1>1, <1>9, <1>10, <1>11, <1>12, <1>13, <1>14, <1>15, <1>16 DEF Next

LEMMA KeysHold ==
    ASSUME TypeOK, Keys, Next
    PROVE  Keys'
  <1>1. ASSUME NEW i \in Inv, Invoke(i)
        PROVE  Keys'
    BY <1>1 DEF Invoke, MayClaim, Goto, TypeOK, Keys, Before
  <1>2. ASSUME NEW i \in Inv, Decide(i)
        PROVE  Keys'
    BY <1>2 DEF Decide, Goto, TypeOK, Keys, Before
  <1>3. ASSUME NEW i \in Inv, Reserve(i)
        PROVE  Keys'
    BY <1>3 DEF Reserve, Goto, TypeOK, Keys, Before
  <1>4. ASSUME NEW i \in Inv, Turndown(i)
        PROVE  Keys'
    BY <1>4 DEF Turndown, Goto, TypeOK, Keys, Before
  <1>5. ASSUME NEW i \in Inv, OnlyAudit(i)
        PROVE  Keys'
    BY <1>5 DEF OnlyAudit, Goto, TypeOK, Keys, Before
  <1>6. ASSUME NEW i \in Inv, Dispatch(i)
        PROVE  Keys'
    BY <1>6 DEF Dispatch, Goto, TypeOK, Keys, Before
  <1>7. ASSUME NEW i \in Inv, Settle(i)
        PROVE  Keys'
    BY <1>7 DEF Settle, Goto, TypeOK, Keys, Before
  <1>8. ASSUME NEW i \in Inv, Record(i)
        PROVE  Keys'
    BY <1>8 DEF Record, Goto, TypeOK, Keys, Before
  <1>9. ASSUME NEW i \in Inv, Fail(i)
        PROVE  Keys'
    BY <1>9 DEF Fail, Goto, TypeOK, Keys, Before
  <1>10. ASSUME NEW i \in Inv, Die(i)
        PROVE  Keys'
    BY <1>10 DEF Die, Goto, TypeOK, Keys, Before
  <1>11. ASSUME NEW i \in Inv, GrowOld(i)
        PROVE  Keys'
    BY <1>11 DEF GrowOld, TypeOK, Keys, Before
  <1>12. ASSUME NEW t \in Task, NEW n \in 1..MaxSteps, PersistStep(t, n)
        PROVE  Keys'
    BY <1>12 DEF PersistStep, Book, Keys, Before
  <1>13. ASSUME NEW n \in Limits, SetBudget(n)
        PROVE  Keys'
    BY <1>13 DEF SetBudget, Keys, Before
  <1>14. ASSUME NEW n \in Limits, RestoreBudget(n)
        PROVE  Keys'
    BY <1>14 DEF RestoreBudget, Keys, Before
  <1>15. ASSUME NewDay
        PROVE  Keys'
    BY <1>15 DEF NewDay, Keys, Before
  <1>16. ASSUME NEW i \in Inv, Proceed(i)
        PROVE  Keys'
    BY <1>2, <1>3, <1>4, <1>5, <1>6, <1>7, <1>8, <1>16 DEF Proceed
  <1>17. QED
    BY <1>1, <1>9, <1>10, <1>11, <1>12, <1>13, <1>14, <1>15, <1>16 DEF Next

LEMMA BreakerStaysClosed ==
    ASSUME TypeOK, BreakerHolds, Next
    PROVE  BreakerHolds'
  <1>1. ASSUME NEW i \in Inv, Invoke(i)
        PROVE  BreakerHolds'
    BY <1>1 DEF Invoke, BreakerHolds, ledger
  <1>2. ASSUME NEW i \in Inv, Decide(i)
        PROVE  BreakerHolds'
    BY <1>2 DEF Decide, BreakerHolds, ledger
  <1>3. ASSUME NEW i \in Inv, Reserve(i)
        PROVE  BreakerHolds'
    BY <1>3 DEF Reserve, BreakerHolds, ledger
  <1>4. ASSUME NEW i \in Inv, Turndown(i)
        PROVE  BreakerHolds'
    BY <1>4 DEF Turndown, BreakerHolds, ledger
  <1>5. ASSUME NEW i \in Inv, OnlyAudit(i)
        PROVE  BreakerHolds'
    BY <1>5 DEF OnlyAudit, BreakerHolds, ledger
  <1>6. ASSUME NEW i \in Inv, Dispatch(i)
        PROVE  BreakerHolds'
    BY <1>6 DEF Dispatch, BreakerHolds, ledger
  <1>7. ASSUME NEW i \in Inv, Settle(i)
        PROVE  BreakerHolds'
    <2>1. CASE UNCHANGED ledger
      BY <1>7, <2>1 DEF Settle, ledger, BreakerHolds
    <2>2. ASSUME NEW n \in Actual(EstimateOf(i)), Book(TaskIn(i), n)
          PROVE  BreakerHolds'
      <3>1. n \in Nat
        BY Invocation DEF Actual
      <3>2. limit \in Nat /\ today \in Nat
        BY Numbers DEF TypeOK
      <3>3. limit' = limit /\ waived' = waived
        BY <1>7 DEF Settle
      <3>4. QED
        BY <2>2, <3>1, <3>2, <3>3 DEF Book, Crosses, BreakerHolds
    <2>3. QED
      BY <1>7, <2>1, <2>2 DEF Settle
  <1>8. ASSUME NEW i \in Inv, Record(i)
        PROVE  BreakerHolds'
    BY <1>8 DEF Record, BreakerHolds, ledger
  <1>9. ASSUME NEW i \in Inv, Fail(i)
        PROVE  BreakerHolds'
    BY <1>9 DEF Fail, BreakerHolds, ledger
  <1>10. ASSUME NEW i \in Inv, Die(i)
        PROVE  BreakerHolds'
    BY <1>10 DEF Die, BreakerHolds, ledger
  <1>11. ASSUME NEW i \in Inv, GrowOld(i)
        PROVE  BreakerHolds'
    BY <1>11 DEF GrowOld, BreakerHolds, ledger
  <1>12. ASSUME NEW t \in Task, NEW n \in 1..MaxSteps, PersistStep(t, n)
        PROVE  BreakerHolds'
    <2>1. n \in Nat
      BY Numbers
    <2>2. limit \in Nat /\ today \in Nat
      BY Numbers DEF TypeOK
    <2>3. QED
      BY <1>12, <2>1, <2>2 DEF PersistStep, Book, Crosses, BreakerHolds
  <1>13. ASSUME NEW n \in Limits, SetBudget(n)
        PROVE  BreakerHolds'
    BY <1>13 DEF SetBudget, BreakerHolds, ledger
  <1>14. ASSUME NEW n \in Limits, RestoreBudget(n)
        PROVE  BreakerHolds'
    BY <1>14 DEF RestoreBudget, BreakerHolds, ledger
  <1>15. ASSUME NewDay
        PROVE  BreakerHolds'
    <2>1. limit \in Nat \ {0}
      BY CallsAssumption DEF TypeOK
    <2>2. today' = 0 /\ limit' = limit
      BY <1>15 DEF NewDay
    <2>3. ~ (today' >= limit')
      BY <2>1, <2>2
    <2>4. QED
      BY <2>3 DEF BreakerHolds
  <1>16. ASSUME NEW i \in Inv, Proceed(i)
        PROVE  BreakerHolds'
    BY <1>2, <1>3, <1>4, <1>5, <1>6, <1>7, <1>8, <1>16 DEF Proceed
  <1>17. QED
    BY <1>1, <1>9, <1>10, <1>11, <1>12, <1>13, <1>14, <1>15, <1>16 DEF Next

-----------------------------------------------------------------------------
(* The ledger                                                              *)

LEMMA PaidSet ==
    ASSUME NEW t
    PROVE  Paid(t) \in SUBSET Inv /\ IsFiniteSet(Paid(t))
  <1>1. Paid(t) \in SUBSET Inv
    BY DEF Paid, OnTask
  <1>2. QED
    BY <1>1, SubsetsFinite

\* The row of one call gets its price: the sum of its task grows by that if it
\* succeeded, and no other sum changes.
LEMMA RowPriced ==
    ASSUME TypeOK, NEW i \in Inv, NEW n \in Nat, NEW s \in RowStatus,
           row[i] # "succeeded", SetRow(i, s, n), NEW t
    PROVE  Total(cost, Paid(t))' =
               Total(cost, Paid(t)) + (IF s = "succeeded" /\ TaskIn(i) = t THEN n ELSE 0)
  <1>1. /\ cost \in [Inv -> Nat] /\ cost' \in [Inv -> Nat] /\ row \in [Inv -> RowStatus]
        /\ cost'[i] = n /\ row'[i] = s
        /\ \A j \in Inv \ {i} : cost'[j] = cost[j] /\ row'[j] = row[j]
    BY DEF SetRow, TypeOK
  <1>2. Paid(t) \in SUBSET Inv /\ IsFiniteSet(Paid(t)) /\ i \notin Paid(t)
    BY PaidSet DEF Paid
  <1>3. Total(cost, Paid(t)) \in Nat
    BY <1>1, <1>2, TotalType
  <1>4. Total(cost', Paid(t)) = Total(cost, Paid(t))
    <2>1. \A j \in Paid(t) : cost'[j] = cost[j]
      BY <1>1, <1>2
    <2>2. QED
      BY <2>1, TotalSame
  <1>5. CASE s = "succeeded" /\ TaskIn(i) = t
    <2>1. Paid(t)' = Paid(t) \cup {i}
      BY <1>1, <1>5 DEF Paid, OnTask
    <2>2. IsFiniteSet(Paid(t) \cup {i}) /\ Paid(t) \cup {i} \in SUBSET Inv
      BY <1>2, FS_AddElement
    <2>3. (Paid(t) \cup {i}) \ {i} = Paid(t) /\ i \in Paid(t) \cup {i}
      BY <1>2
    <2>4. Total(cost', Paid(t) \cup {i}) = Total(cost', (Paid(t) \cup {i}) \ {i}) + cost'[i]
      BY <1>1, <2>2, <2>3, TotalWithout
    <2>5. Total(cost, Paid(t))' = Total(cost, Paid(t)) + n
      BY <1>1, <1>4, <2>1, <2>3, <2>4
    <2>6. QED
      BY <1>5, <2>5
  <1>6. CASE ~ (s = "succeeded" /\ TaskIn(i) = t)
    <2>1. Paid(t)' = Paid(t)
      BY <1>1, <1>2, <1>6 DEF Paid, OnTask
    <2>2. Total(cost, Paid(t))' = Total(cost, Paid(t))
      BY <1>4, <2>1
    <2>3. QED
      BY <1>3, <1>6, <2>2
  <1>7. QED
    BY <1>5, <1>6

LEMMA BilledAsBefore ==
    ASSUME TypeOK, EveryCallIsBilledOnce, UNCHANGED <<row, cost, spent, steps>>
    PROVE  EveryCallIsBilledOnce'
  BY DEF EveryCallIsBilledOnce, OnTask

LEMMA BilledNothing ==
    ASSUME TypeOK, EveryCallIsBilledOnce, NEW i \in Inv, NEW n \in Nat,
           NEW s \in RowStatus, row[i] # "succeeded", SetRow(i, s, n),
           s = "succeeded" => n = 0, UNCHANGED <<spent, steps>>
    PROVE  EveryCallIsBilledOnce'
  <1>1. SUFFICES ASSUME NEW t \in Task
                 PROVE  spent'[t] = steps'[t] + Total(cost, Paid(t))'
    BY DEF EveryCallIsBilledOnce, Paid
  <1>2. spent[t] = steps[t] + Total(cost, Paid(t))
    BY DEF EveryCallIsBilledOnce, Paid
  <1>3. Total(cost, Paid(t)) \in Nat
    BY PaidSet, TotalType DEF TypeOK
  <1>4. Total(cost, Paid(t))' =
            Total(cost, Paid(t)) + (IF s = "succeeded" /\ TaskIn(i) = t THEN n ELSE 0)
    BY RowPriced
  <1>5. Total(cost, Paid(t))' = Total(cost, Paid(t))
    BY <1>3, <1>4
  <1>6. QED
    BY <1>2, <1>5

LEMMA BilledSettled ==
    ASSUME TypeOK, EveryCallIsBilledOnce, NEW i \in Inv, NEW n \in Nat,
           row[i] # "succeeded", SetRow(i, "succeeded", n), UNCHANGED steps,
           spent' = [spent EXCEPT ![TaskIn(i)] = @ + n]
    PROVE  EveryCallIsBilledOnce'
  <1>1. SUFFICES ASSUME NEW t \in Task
                 PROVE  spent'[t] = steps'[t] + Total(cost, Paid(t))'
    BY DEF EveryCallIsBilledOnce, Paid
  <1>2. spent[t] = steps[t] + Total(cost, Paid(t))
    BY DEF EveryCallIsBilledOnce, Paid
  <1>3. Total(cost, Paid(t)) \in Nat
    BY PaidSet, TotalType DEF TypeOK
  <1>4. Total(cost, Paid(t))' =
            Total(cost, Paid(t)) + (IF TaskIn(i) = t THEN n ELSE 0)
    <2>1. "succeeded" \in RowStatus
      BY DEF RowStatus
    <2>2. QED
      BY <2>1, RowPriced
  <1>5. spent'[t] = spent[t] + (IF TaskIn(i) = t THEN n ELSE 0) /\ steps[t] \in Nat
    BY DEF TypeOK
  <1>6. steps'[t] = steps[t]
    OBVIOUS
  <1>7. QED
    BY <1>2, <1>3, <1>4, <1>5, <1>6

LEMMA BilledHolds ==
    ASSUME TypeOK, Rows, EveryCallIsBilledOnce, Next
    PROVE  EveryCallIsBilledOnce'
  <1>1. ASSUME NEW i \in Inv, Invoke(i)
        PROVE  EveryCallIsBilledOnce'
    <2>1. CASE row' = row
      BY <1>1, <2>1, BilledAsBefore DEF Invoke, ledger
    <2>2. CASE row' # row
      <3>1. row[i] = "none" /\ cost[i] \in Nat
        BY <1>1 DEF Invoke, MayBegin, TypeOK, Rows
      <3>2. SetRow(i, "denied", cost[i])
        BY <1>1, <2>2 DEF Invoke, SetRow, TypeOK
      <3>3. UNCHANGED <<spent, steps>>
        BY <1>1 DEF Invoke, ledger
      <3>4. "denied" \in RowStatus
        BY DEF RowStatus
      <3>5. QED
        BY <3>1, <3>2, <3>3, <3>4, BilledNothing
    <2>3. QED
      BY <2>1, <2>2
  <1>2. ASSUME NEW i \in Inv, Decide(i)
        PROVE  EveryCallIsBilledOnce'
    BY <1>2, BilledAsBefore DEF Decide, ledger
  <1>3. ASSUME NEW i \in Inv, Reserve(i)
        PROVE  EveryCallIsBilledOnce'
    <2>1. row[i] # "succeeded" /\ EstimateOf(i) \in Nat
      BY <1>3, Invocation DEF Reserve, Rows
    <2>2. PICK s \in RowStatus, n \in Nat :
              SetRow(i, s, n) /\ (s = "succeeded" => n = 0)
      BY <1>3, <2>1 DEF Reserve, RowStatus
    <2>3. UNCHANGED <<spent, steps>>
      BY <1>3 DEF Reserve, ledger
    <2>4. QED
      BY <2>1, <2>2, <2>3, BilledNothing
  <1>4. ASSUME NEW i \in Inv, Turndown(i)
        PROVE  EveryCallIsBilledOnce'
    <2>1. row[i] # "succeeded" /\ EstimateOf(i) \in Nat
      BY <1>4, Invocation DEF Turndown, Rows
    <2>2. PICK s \in RowStatus, n \in Nat :
              SetRow(i, s, n) /\ (s = "succeeded" => n = 0)
      BY <1>4, <2>1 DEF Turndown, RowStatus
    <2>3. UNCHANGED <<spent, steps>>
      BY <1>4 DEF Turndown, ledger
    <2>4. QED
      BY <2>1, <2>2, <2>3, BilledNothing
  <1>5. ASSUME NEW i \in Inv, OnlyAudit(i)
        PROVE  EveryCallIsBilledOnce'
    <2>1. row[i] # "succeeded" /\ EstimateOf(i) \in Nat
      BY <1>5, Invocation DEF OnlyAudit, Rows
    <2>2. PICK s \in RowStatus, n \in Nat :
              SetRow(i, s, n) /\ (s = "succeeded" => n = 0)
      BY <1>5, <2>1 DEF OnlyAudit, RowStatus
    <2>3. UNCHANGED <<spent, steps>>
      BY <1>5 DEF OnlyAudit, ledger
    <2>4. QED
      BY <2>1, <2>2, <2>3, BilledNothing
  <1>6. ASSUME NEW i \in Inv, Dispatch(i)
        PROVE  EveryCallIsBilledOnce'
    BY <1>6, BilledAsBefore DEF Dispatch, ledger
  <1>7. ASSUME NEW i \in Inv, Settle(i)
        PROVE  EveryCallIsBilledOnce'
    <2>1. PICK n \in Actual(EstimateOf(i)) :
              /\ SetRow(i, "succeeded", n)
              /\ IF n > 0 THEN Book(TaskIn(i), n) ELSE UNCHANGED ledger
      BY <1>7 DEF Settle
    <2>2. n \in Nat /\ TaskIn(i) \in Task
      BY Invocation DEF Actual
    <2>3. row[i] # "succeeded"
      BY <1>7 DEF Settle, Rows
    <2>4. steps' = steps
      BY <1>7 DEF Settle
    <2>5. CASE n > 0
      BY <2>1, <2>2, <2>3, <2>4, <2>5, BilledSettled DEF Book
    <2>6. CASE n = 0
      <3>1. "succeeded" \in RowStatus /\ UNCHANGED <<spent, steps>>
        BY <2>1, <2>4, <2>6 DEF RowStatus, ledger
      <3>2. QED
        BY <2>1, <2>2, <2>3, <2>6, <3>1, BilledNothing
    <2>7. QED
      BY <2>2, <2>5, <2>6
  <1>8. ASSUME NEW i \in Inv, Record(i)
        PROVE  EveryCallIsBilledOnce'
    BY <1>8, BilledAsBefore DEF Record, ledger
  <1>9. ASSUME NEW i \in Inv, Fail(i)
        PROVE  EveryCallIsBilledOnce'
    <2>1. row[i] # "succeeded" /\ EstimateOf(i) \in Nat
      BY <1>9, Invocation DEF Fail, Rows
    <2>2. PICK s \in RowStatus, n \in Nat :
              SetRow(i, s, n) /\ (s = "succeeded" => n = 0)
      BY <1>9, <2>1 DEF Fail, RowStatus
    <2>3. UNCHANGED <<spent, steps>>
      BY <1>9 DEF Fail, ledger
    <2>4. QED
      BY <2>1, <2>2, <2>3, BilledNothing
  <1>10. ASSUME NEW i \in Inv, Die(i)
        PROVE  EveryCallIsBilledOnce'
    BY <1>10, BilledAsBefore DEF Die, ledger
  <1>11. ASSUME NEW i \in Inv, GrowOld(i)
        PROVE  EveryCallIsBilledOnce'
    BY <1>11, BilledAsBefore DEF GrowOld, ledger
  <1>12. ASSUME NEW t \in Task, NEW n \in 1..MaxSteps, PersistStep(t, n)
        PROVE  EveryCallIsBilledOnce'
    <2>1. n \in Nat
      BY Numbers
    <2>2. SUFFICES ASSUME NEW u \in Task
                   PROVE  spent'[u] = steps'[u] + Total(cost, Paid(u))'
      BY DEF EveryCallIsBilledOnce, Paid
    <2>3. spent[u] = steps[u] + Total(cost, Paid(u))
      BY DEF EveryCallIsBilledOnce, Paid
    <2>4. Total(cost, Paid(u)) \in Nat
      BY PaidSet, TotalType DEF TypeOK
    <2>5. Total(cost, Paid(u))' = Total(cost, Paid(u))
      BY <1>12 DEF PersistStep, Paid, OnTask
    <2>6. /\ spent'[u] = spent[u] + (IF u = t THEN n ELSE 0)
          /\ steps'[u] = steps[u] + (IF u = t THEN n ELSE 0)
          /\ steps[u] \in Nat
      BY <1>12 DEF PersistStep, Book, TypeOK
    <2>7. QED
      BY <2>1, <2>3, <2>4, <2>5, <2>6
  <1>13. ASSUME NEW n \in Limits, SetBudget(n)
        PROVE  EveryCallIsBilledOnce'
    BY <1>13, BilledAsBefore DEF SetBudget, ledger
  <1>14. ASSUME NEW n \in Limits, RestoreBudget(n)
        PROVE  EveryCallIsBilledOnce'
    BY <1>14, BilledAsBefore DEF RestoreBudget, ledger
  <1>15. ASSUME NewDay
        PROVE  EveryCallIsBilledOnce'
    BY <1>15, BilledAsBefore DEF NewDay, ledger
  <1>16. ASSUME NEW i \in Inv, Proceed(i)
        PROVE  EveryCallIsBilledOnce'
    BY <1>2, <1>3, <1>4, <1>5, <1>6, <1>7, <1>8, <1>16 DEF Proceed
  <1>17. QED
    BY <1>1, <1>9, <1>10, <1>11, <1>12, <1>13, <1>14, <1>15, <1>16 DEF Next

-----------------------------------------------------------------------------
(* The budgets                                                             *)

LEMMA LiveSet ==
    ASSUME TypeOK, NEW t
    PROVE  /\ Live(t) \in SUBSET Inv /\ IsFiniteSet(Live(t))
           /\ cost \in [Inv -> Nat] /\ Weight \in [Inv -> Nat]
           /\ Total(Weight, Live(t)) \in Nat
  <1>1. Live(t) \in SUBSET Inv
    BY DEF Live, OnTask
  <1>2. IsFiniteSet(Live(t))
    BY <1>1, SubsetsFinite
  <1>3. Weight \in [Inv -> Nat]
    BY Invocation DEF Weight, TypeOK
  <1>4. QED
    BY <1>1, <1>2, <1>3, TotalType DEF TypeOK

LEMMA ItselfAtMost ==
    ASSUME TypeOK
    PROVE  \A j \in Inv : Weight[j] <= Weight[j]
  <1>1. \A j \in Inv : Weight[j] \in Nat
    BY LiveSet
  <1>2. \A n \in Nat : n <= n
    OBVIOUS
  <1>3. QED
    BY <1>1, <1>2

LEMMA SameWeight ==
    ASSUME TypeOK, cost' = cost
    PROVE  \A j \in Inv : Weight'[j] <= Weight[j]
  <1>1. Weight' = Weight
    BY DEF Weight
  <1>2. QED
    BY <1>1, ItselfAtMost

\* What is alive weighs no more than what is paid and what is reserved.
LEMMA WeightIsBooked ==
    ASSUME TypeOK, EveryCallIsBilledOnce, NEW t \in Task
    PROVE  /\ Reserved(OnTask(t)) \in Nat
           /\ Total(Weight, Live(t)) <= spent[t] + Reserved(OnTask(t))
  <1> DEFINE Promised == OnTask(t) \cap InFlight
  <1>1. /\ Promised \in SUBSET Inv /\ Paid(t) \in SUBSET Inv
        /\ IsFiniteSet(Promised) /\ IsFiniteSet(Paid(t))
    <2>1. Promised \in SUBSET Inv
      BY DEF OnTask
    <2>2. QED
      BY <2>1, PaidSet, SubsetsFinite
  <1>2. Live(t) = Paid(t) \cup Promised /\ Paid(t) \cap Promised = {}
    BY DEF Live, Paid, OnTask, InFlight
  <1>3. /\ cost \in [Inv -> Nat] /\ Weight \in [Inv -> Nat]
        /\ Live(t) \in SUBSET Inv /\ IsFiniteSet(Live(t))
    BY LiveSet
  <1>4. \A i \in Live(t) : Weight[i] <= cost[i]
    <2>1. \A i \in Inv : Weight[i] <= cost[i]
      BY Invocation DEF Weight, TypeOK
    <2>2. QED
      BY <1>3, <2>1
  <1>5. Total(Weight, Live(t)) <= Total(cost, Live(t))
    BY <1>3, <1>4, TotalGrows
  <1>6. Total(cost, Paid(t) \cup Promised) = Total(cost, Paid(t)) + Total(cost, Promised)
    <2> HIDE DEF Promised
    <2>1. QED
      BY <1>1, <1>2, <1>3, TotalSplits
  <1>7. spent[t] = steps[t] + Total(cost, Paid(t)) /\ steps[t] \in Nat
    BY DEF EveryCallIsBilledOnce, Paid, TypeOK
  <1>8. /\ Total(cost, Paid(t)) \in Nat /\ Total(cost, Promised) \in Nat
        /\ Total(Weight, Live(t)) \in Nat
    <2> HIDE DEF Promised
    <2>1. QED
      BY <1>1, <1>3, TotalType
  <1>9. Reserved(OnTask(t)) = Total(cost, Promised)
    BY DEF Reserved
  <1>10. Total(cost, Live(t)) = Total(cost, Paid(t)) + Total(cost, Promised)
    BY <1>2, <1>6
  <1>11. QED
    <2> HIDE DEF Promised
    <2>1. QED
      BY <1>5, <1>7, <1>8, <1>9, <1>10

\* A step that makes no call alive and none heavier.
LEMMA KeptAsBefore ==
    ASSUME TypeOK, TypeOK', CallsKeepTheBudget,
           \A i \in Inv : row'[i] = "succeeded" \/ (row'[i] = "dispatched" /\ i \notin old') =>
               /\ row[i] = "succeeded" \/ (row[i] = "dispatched" /\ i \notin old)
               /\ Weight'[i] <= Weight[i]
    PROVE  CallsKeepTheBudget'
  <1>1. SUFFICES ASSUME NEW t \in Task, Budget[t] # NoBudget
                 PROVE  Total(Weight, Live(t))' <= Budget[t]
    BY DEF CallsKeepTheBudget, Live
  <1>2. Total(Weight, Live(t)) <= Budget[t] /\ Budget[t] \in Nat
    BY <1>1, CallsAssumption, BudgetAssumption DEF CallsKeepTheBudget, Live
  <1>3. /\ Weight \in [Inv -> Nat] /\ Live(t) \in SUBSET Inv /\ IsFiniteSet(Live(t))
        /\ Total(Weight, Live(t)) \in Nat
    BY LiveSet
  <1>4. /\ Weight' \in [Inv -> Nat] /\ Live(t)' \in SUBSET Inv
        /\ Total(Weight, Live(t))' \in Nat
    <2>1. /\ Live(t) \in SUBSET Inv /\ IsFiniteSet(Live(t))
          /\ cost \in [Inv -> Nat] /\ Weight \in [Inv -> Nat]
          /\ Total(Weight, Live(t)) \in Nat
      BY LiveSet
    <2>2. Live(t)' \in SUBSET Inv
      BY DEF Live, OnTask
    <2>3. IsFiniteSet(Live(t)')
      BY <2>2, SubsetsFinite
    <2>4. Weight' \in [Inv -> Nat]
      BY Invocation DEF Weight, TypeOK
    <2>5. QED
      BY <2>2, <2>3, <2>4, TotalType
  <1>5. Live(t)' \subseteq Live(t) /\ \A i \in Live(t)' : Weight'[i] <= Weight[i]
    BY DEF Live, OnTask, InFlight
  <1>6. Total(Weight', Live(t)') <= Total(Weight, Live(t))
    BY <1>3, <1>4, <1>5, TotalGrows
  <1>7. QED
    BY <1>2, <1>3, <1>4, <1>6

\* The call that is reserved was found to fit beside all that is alive.
LEMMA KeptByReserve ==
    ASSUME TypeOK, TypeOK', EveryCallIsBilledOnce, CallsKeepTheBudget,
           NEW i \in Inv, row[i] = "none", Affords(i), old' = old, i \notin old,
           SetRow(i, "dispatched", EstimateOf(i))
    PROVE  CallsKeepTheBudget'
  <1> DEFINE e == EstimateOf(i)
  <1>1. SUFFICES ASSUME NEW t \in Task, Budget[t] # NoBudget
                 PROVE  Total(Weight, Live(t))' <= Budget[t]
    BY DEF CallsKeepTheBudget, Live
  <1>2. Total(Weight, Live(t)) <= Budget[t] /\ Budget[t] \in Nat
    BY <1>1, CallsAssumption, BudgetAssumption DEF CallsKeepTheBudget, Live
  <1>3. e \in Nat
    BY Invocation
  <1>4. /\ Weight \in [Inv -> Nat] /\ Live(t) \in SUBSET Inv /\ IsFiniteSet(Live(t))
        /\ Total(Weight, Live(t)) \in Nat
    BY LiveSet
  <1>5. /\ row' = [row EXCEPT ![i] = "dispatched"] /\ cost' = [cost EXCEPT ![i] = e]
        /\ row \in [Inv -> RowStatus] /\ cost \in [Inv -> Nat]
    BY DEF SetRow, TypeOK
  <1>6. /\ Weight' \in [Inv -> Nat] /\ Weight'[i] = e
        /\ \A j \in Inv \ {i} : Weight'[j] = Weight[j]
    <2>1. Weight' = [j \in Inv |-> IF cost'[j] < EstimateOf(j) THEN cost'[j] ELSE EstimateOf(j)]
      BY DEF Weight
    <2>2. cost' \in [Inv -> Nat] /\ cost'[i] = e /\ \A j \in Inv \ {i} : cost'[j] = cost[j]
      BY <1>3, <1>5
    <2>3. Weight' \in [Inv -> Nat]
      BY <2>1, <2>2, Invocation
    <2>4. Weight'[i] = e
      BY <1>3, <2>1, <2>2
    <2>5. \A j \in Inv \ {i} : Weight'[j] = Weight[j]
      BY <2>1, <2>2 DEF Weight
    <2>6. QED
      BY <2>3, <2>4, <2>5
  <1>7. i \notin Live(t)
    BY DEF Live, InFlight
  <1>8. Total(Weight', Live(t)) = Total(Weight, Live(t))
    <2>1. \A j \in Live(t) : Weight'[j] = Weight[j]
      BY <1>4, <1>6, <1>7
    <2>2. QED
      BY <2>1, TotalSame
  <1>9. CASE TaskIn(i) # t
    <2>1. Live(t)' = Live(t)
      BY <1>5, <1>9 DEF Live, OnTask, InFlight
    <2>2. QED
      BY <1>2, <1>8, <2>1
  <1>10. CASE TaskIn(i) = t
    <2>1. Live(t)' = Live(t) \cup {i}
      BY <1>5, <1>10 DEF Live, OnTask, InFlight
    <2>2. IsFiniteSet(Live(t) \cup {i}) /\ Live(t) \cup {i} \in SUBSET Inv
      BY <1>4, FS_AddElement
    <2>3. (Live(t) \cup {i}) \ {i} = Live(t) /\ i \in Live(t) \cup {i}
      BY <1>7
    <2>4. Total(Weight', Live(t) \cup {i})
            = Total(Weight', (Live(t) \cup {i}) \ {i}) + Weight'[i]
      BY <1>6, <2>2, <2>3, TotalWithout
    <2>5. Total(Weight, Live(t))' = Total(Weight, Live(t)) + e
      BY <1>6, <1>8, <2>1, <2>3, <2>4
    <2>6. CASE e = 0
      BY <1>2, <1>4, <2>5, <2>6
    <2>7. CASE e # 0
      <3>1. e <= Remaining(t)
        BY <1>10, <2>7 DEF Affords
      <3>2. e <= Budget[t] - spent[t] - Reserved(OnTask(t))
        BY <1>1, <3>1 DEF Remaining
      <3>3. /\ Reserved(OnTask(t)) \in Nat
            /\ Total(Weight, Live(t)) <= spent[t] + Reserved(OnTask(t))
        BY WeightIsBooked
      <3>4. spent[t] \in Nat
        BY DEF TypeOK
      <3>5. \A w, p, o, b, x \in Nat : w <= p + o /\ x <= b - p - o => w + x <= b
        OBVIOUS
      <3>6. Total(Weight, Live(t)) + e <= Budget[t]
        <4> HIDE DEF e
        <4>1. QED
          BY <1>2, <1>3, <1>4, <3>2, <3>3, <3>4, <3>5
      <3>7. QED
        BY <2>5, <3>6
    <2>8. QED
      BY <2>6, <2>7
  <1>11. QED
    BY <1>9, <1>10

LEMMA BudgetsHold ==
    ASSUME TypeOK, TypeOK', Rows, EveryCallIsBilledOnce, CallsKeepTheBudget, Next
    PROVE  CallsKeepTheBudget'
  <1>1. ASSUME NEW i \in Inv, Invoke(i)
        PROVE  CallsKeepTheBudget'
    <2>1. cost' = cost /\ old' = old
      BY <1>1 DEF Invoke
    <2>2. \A j \in Inv : Weight'[j] <= Weight[j]
      BY <2>1, SameWeight
    <2>3. \A j \in Inv : row'[j] = row[j] \/ row'[j] = "denied"
      BY <1>1 DEF Invoke, TypeOK
    <2>4. QED
      BY <2>1, <2>2, <2>3, KeptAsBefore
  <1>2. ASSUME NEW i \in Inv, Decide(i)
        PROVE  CallsKeepTheBudget'
    <2>1. row' = row /\ cost' = cost /\ old' = old
      BY <1>2 DEF Decide
    <2>2. \A j \in Inv : Weight'[j] <= Weight[j]
      BY <2>1, SameWeight
    <2>3. QED
      BY <2>1, <2>2, KeptAsBefore
  <1>3. ASSUME NEW i \in Inv, Reserve(i)
        PROVE  CallsKeepTheBudget'
    <2>1. row[i] = "none" /\ old' = old /\ i \notin old
      BY <1>3 DEF Reserve, Rows
    <2>2. CASE Affords(i)
      BY <1>3, <2>1, <2>2, KeptByReserve DEF Reserve
    <2>3. CASE ~ Affords(i)
      <3>1. row'[i] = "denied"
        BY <1>3, <2>3 DEF Reserve, SetRow, TypeOK
      <3>2. \A j \in Inv \ {i} : row'[j] = row[j] /\ Weight'[j] = Weight[j]
        BY <1>3, <2>3 DEF Reserve, SetRow, Weight, TypeOK
      <3>3. \A j \in Inv \ {i} : Weight'[j] <= Weight[j]
        BY <3>2, ItselfAtMost
      <3>4. QED
        BY <2>1, <3>1, <3>2, <3>3, KeptAsBefore
    <2>4. QED
      BY <2>2, <2>3
  <1>4. ASSUME NEW i \in Inv, Turndown(i)
        PROVE  CallsKeepTheBudget'
    <2>1. row'[i] \notin {"succeeded", "dispatched"} /\ old' = old
      BY <1>4 DEF Turndown, SetRow, TypeOK
    <2>2. \A j \in Inv \ {i} : row'[j] = row[j] /\ Weight'[j] = Weight[j]
      BY <1>4 DEF Turndown, SetRow, Weight, TypeOK
    <2>3. \A j \in Inv \ {i} : Weight'[j] <= Weight[j]
      BY <2>2, ItselfAtMost
    <2>4. QED
      BY <2>1, <2>2, <2>3, KeptAsBefore
  <1>5. ASSUME NEW i \in Inv, OnlyAudit(i)
        PROVE  CallsKeepTheBudget'
    <2>1. row[i] = "dispatched" /\ i \notin old /\ old' = old /\ Weight[i] = EstimateOf(i)
      BY <1>5, Invocation DEF OnlyAudit, Rows, Weight
    <2>2. \A j \in Inv \ {i} : row'[j] = row[j] /\ Weight'[j] = Weight[j]
      BY <1>5 DEF OnlyAudit, SetRow, Weight, TypeOK
    <2>3. \A j \in Inv \ {i} : Weight'[j] <= Weight[j]
      BY <2>2, ItselfAtMost
    <2>4. Weight'[i] <= Weight[i]
      <3>1. cost'[i] \in Nat /\ EstimateOf(i) \in Nat
        BY Invocation DEF TypeOK
      <3>2. Weight'[i] = IF cost'[i] < EstimateOf(i) THEN cost'[i] ELSE EstimateOf(i)
        BY DEF Weight
      <3>3. QED
        BY <2>1, <3>1, <3>2
    <2>5. QED
      BY <2>1, <2>2, <2>3, <2>4, KeptAsBefore
  <1>6. ASSUME NEW i \in Inv, Dispatch(i)
        PROVE  CallsKeepTheBudget'
    <2>1. row' = row /\ cost' = cost /\ old' = old
      BY <1>6 DEF Dispatch
    <2>2. \A j \in Inv : Weight'[j] <= Weight[j]
      BY <2>1, SameWeight
    <2>3. QED
      BY <2>1, <2>2, KeptAsBefore
  <1>7. ASSUME NEW i \in Inv, Settle(i)
        PROVE  CallsKeepTheBudget'
    <2>1. row[i] = "dispatched" /\ i \notin old /\ old' = old /\ Weight[i] = EstimateOf(i)
      BY <1>7, Invocation DEF Settle, Rows, Weight
    <2>2. \A j \in Inv \ {i} : row'[j] = row[j] /\ Weight'[j] = Weight[j]
      BY <1>7 DEF Settle, SetRow, Weight, TypeOK
    <2>3. \A j \in Inv \ {i} : Weight'[j] <= Weight[j]
      BY <2>2, ItselfAtMost
    <2>4. Weight'[i] <= Weight[i]
      <3>1. cost'[i] \in Nat /\ EstimateOf(i) \in Nat
        BY Invocation DEF TypeOK
      <3>2. Weight'[i] = IF cost'[i] < EstimateOf(i) THEN cost'[i] ELSE EstimateOf(i)
        BY DEF Weight
      <3>3. QED
        BY <2>1, <3>1, <3>2
    <2>5. QED
      BY <2>1, <2>2, <2>3, <2>4, KeptAsBefore
  <1>8. ASSUME NEW i \in Inv, Record(i)
        PROVE  CallsKeepTheBudget'
    <2>1. row' = row /\ cost' = cost /\ old' = old
      BY <1>8 DEF Record
    <2>2. \A j \in Inv : Weight'[j] <= Weight[j]
      BY <2>1, SameWeight
    <2>3. QED
      BY <2>1, <2>2, KeptAsBefore
  <1>9. ASSUME NEW i \in Inv, Fail(i)
        PROVE  CallsKeepTheBudget'
    <2>1. row'[i] \notin {"succeeded", "dispatched"} /\ old' = old
      BY <1>9 DEF Fail, SetRow, TypeOK
    <2>2. \A j \in Inv \ {i} : row'[j] = row[j] /\ Weight'[j] = Weight[j]
      BY <1>9 DEF Fail, SetRow, Weight, TypeOK
    <2>3. \A j \in Inv \ {i} : Weight'[j] <= Weight[j]
      BY <2>2, ItselfAtMost
    <2>4. QED
      BY <2>1, <2>2, <2>3, KeptAsBefore
  <1>10. ASSUME NEW i \in Inv, Die(i)
        PROVE  CallsKeepTheBudget'
    <2>1. row' = row /\ cost' = cost /\ old' = old
      BY <1>10 DEF Die
    <2>2. \A j \in Inv : Weight'[j] <= Weight[j]
      BY <2>1, SameWeight
    <2>3. QED
      BY <2>1, <2>2, KeptAsBefore
  <1>11. ASSUME NEW i \in Inv, GrowOld(i)
        PROVE  CallsKeepTheBudget'
    <2>1. row' = row /\ cost' = cost /\ old \subseteq old'
      BY <1>11 DEF GrowOld
    <2>2. \A j \in Inv : Weight'[j] <= Weight[j]
      BY <2>1, SameWeight
    <2>3. QED
      BY <2>1, <2>2, KeptAsBefore
  <1>12. ASSUME NEW t \in Task, NEW n \in 1..MaxSteps, PersistStep(t, n)
        PROVE  CallsKeepTheBudget'
    <2>1. row' = row /\ cost' = cost /\ old' = old
      BY <1>12 DEF PersistStep
    <2>2. \A j \in Inv : Weight'[j] <= Weight[j]
      BY <2>1, SameWeight
    <2>3. QED
      BY <2>1, <2>2, KeptAsBefore
  <1>13. ASSUME NEW n \in Limits, SetBudget(n)
        PROVE  CallsKeepTheBudget'
    <2>1. row' = row /\ cost' = cost /\ old' = old
      BY <1>13 DEF SetBudget
    <2>2. \A j \in Inv : Weight'[j] <= Weight[j]
      BY <2>1, SameWeight
    <2>3. QED
      BY <2>1, <2>2, KeptAsBefore
  <1>14. ASSUME NEW n \in Limits, RestoreBudget(n)
        PROVE  CallsKeepTheBudget'
    <2>1. row' = row /\ cost' = cost /\ old' = old
      BY <1>14 DEF RestoreBudget
    <2>2. \A j \in Inv : Weight'[j] <= Weight[j]
      BY <2>1, SameWeight
    <2>3. QED
      BY <2>1, <2>2, KeptAsBefore
  <1>15. ASSUME NewDay
        PROVE  CallsKeepTheBudget'
    <2>1. row' = row /\ cost' = cost /\ old' = old
      BY <1>15 DEF NewDay
    <2>2. \A j \in Inv : Weight'[j] <= Weight[j]
      BY <2>1, SameWeight
    <2>3. QED
      BY <2>1, <2>2, KeptAsBefore
  <1>16. ASSUME NEW i \in Inv, Proceed(i)
        PROVE  CallsKeepTheBudget'
    BY <1>2, <1>3, <1>4, <1>5, <1>6, <1>7, <1>8, <1>16 DEF Proceed
  <1>17. QED
    BY <1>1, <1>9, <1>10, <1>11, <1>12, <1>13, <1>14, <1>15, <1>16 DEF Next

-----------------------------------------------------------------------------
(* The theorems                                                            *)

LEMMA InitHolds == Init => IInv
  <1>1. SUFFICES ASSUME Init
                 PROVE  IInv
    OBVIOUS
  <1>2. TypeOK
    <2>1. MaxUpsets \in Nat /\ 0 \in 0..MaxUpsets
      BY Numbers
    <2>2. waived \in BOOLEAN
      BY <1>1 DEF Init
    <2>3. "idle" \in Points /\ "none" \in RowStatus
      BY DEF Points, RowStatus
    <2>4. QED
      BY <1>1, <2>1, <2>2, <2>3 DEF Init, TypeOK
  <1>3. Rows /\ Keys
    BY <1>1 DEF Init, Rows, Keys, Before
  <1>4. EveryCallIsBilledOnce
    <2>1. SUFFICES ASSUME NEW t \in Task
                   PROVE  spent[t] = steps[t] + Total(cost, Paid(t))
      BY DEF EveryCallIsBilledOnce, Paid
    <2>2. Paid(t) = {}
      BY <1>1 DEF Init, Paid, OnTask
    <2>3. Total(cost, {}) = 0
      BY FS_EmptySet DEF Total, Cents
    <2>4. QED
      BY <1>1, <2>2, <2>3 DEF Init
  <1>5. CallsKeepTheBudget
    <2>1. SUFFICES ASSUME NEW t \in Task, Budget[t] # NoBudget
                   PROVE  Total(Weight, Live(t)) <= Budget[t]
      BY DEF CallsKeepTheBudget, Live
    <2>2. Live(t) = {}
      BY <1>1 DEF Init, Live, OnTask, InFlight
    <2>3. Total(Weight, {}) = 0
      BY FS_EmptySet DEF Total, Cents
    <2>4. Budget[t] \in Nat
      BY <2>1, CallsAssumption
    <2>5. QED
      BY <2>2, <2>3, <2>4
  <1>6. BreakerHolds
    BY <1>1, CallsAssumption DEF Init, BreakerHolds
  <1>7. QED
    BY <1>2, <1>3, <1>4, <1>5, <1>6 DEF IInv

LEMMA StepHolds == IInv /\ [Next]_vars => IInv'
  <1>1. SUFFICES ASSUME IInv, [Next]_vars
                 PROVE  IInv'
    OBVIOUS
  <1>2. /\ TypeOK /\ Rows /\ Keys
        /\ EveryCallIsBilledOnce /\ CallsKeepTheBudget /\ BreakerHolds
    BY <1>1 DEF IInv
  <1>3. CASE Next
    <2>1. TypeOK' /\ Rows' /\ Keys'
      BY <1>2, <1>3, TypeHolds, RowsHold, KeysHold
    <2>2. EveryCallIsBilledOnce' /\ CallsKeepTheBudget' /\ BreakerHolds'
      BY <1>2, <1>3, <2>1, BilledHolds, BudgetsHold, BreakerStaysClosed
    <2>3. QED
      BY <2>1, <2>2 DEF IInv
  <1>4. CASE UNCHANGED vars
    <2>1. TypeOK' /\ Rows' /\ Keys'
      BY <1>2, <1>4 DEF vars, ledger, TypeOK, Rows, Keys, EstimateOf
    <2>2. EveryCallIsBilledOnce' /\ CallsKeepTheBudget' /\ BreakerHolds'
      BY <1>2, <1>4 DEF vars, ledger, EveryCallIsBilledOnce, CallsKeepTheBudget,
                        BreakerHolds, OnTask, InFlight, Weight
    <2>3. QED
      BY <2>1, <2>2 DEF IInv
  <1>5. QED
    BY <1>1, <1>3, <1>4

\* Whatever is retried, dies or grows old, the rows of the invocations, their
\* keys, the ledger, the budgets and the breaker hold together.
THEOREM GatewayHolds == Spec => []IInv
  <1>1. QED
    BY InitHolds, StepHolds, PTL DEF Spec

\* The columns of the gateway and of the ledger keep their types.
THEOREM TypeCorrect == Spec => []TypeOK
  <1>1. IInv => TypeOK
    BY DEF IInv
  <1>2. QED
    BY <1>1, GatewayHolds, PTL

\* A tool with side effects runs at most once under its idempotency key, however
\* often its caller makes the call and wherever an attempt dies.
THEOREM RunsOnce == Spec => []SideEffectsHappenOnce
  <1>1. IInv => SideEffectsHappenOnce
    BY DEF IInv, Keys, SideEffectsHappenOnce
  <1>2. QED
    BY <1>1, GatewayHolds, PTL

\* A task's spent_cents is what its steps and its succeeded calls cost.
THEOREM BilledOnce == Spec => []EveryCallIsBilledOnce
  <1>1. IInv => EveryCallIsBilledOnce
    BY DEF IInv
  <1>2. QED
    BY <1>1, GatewayHolds, PTL

\* The calls allowed under a task's budget fit into it together, though each is
\* decided before it is billed.
THEOREM BudgetKept == Spec => []CallsKeepTheBudget
  <1>1. IInv => CallsKeepTheBudget
    BY DEF IInv
  <1>2. QED
    BY <1>1, GatewayHolds, PTL

\* While the day is over its limit by spending, whom the breaker does not spare
\* is paused.
THEOREM BreakerTrips == Spec => []BreakerHolds
  <1>1. IInv => BreakerHolds
    BY DEF IInv
  <1>2. QED
    BY <1>1, GatewayHolds, PTL


-----------------------------------------------------------------------------
(* Delegations                                                             *)

InTransit(m) == del[m].pc \in {"groom", "backlog", "plan", "assign"}

\* Whoever is about to delegate knows to whom; only a child without a budget of its own waits
\* for its share, and the others keep theirs.
Handed ==
    /\ \A m \in Delegator :
          /\ del[m].pc # "none" => del[m].task \in Child
          /\ InTransit(m) => del[m].to \in Agent
          /\ del[m].pc = "share" /\ del[m].had = NoBudget => del[m].task \notin Own
    /\ \A t \in Own : budget[t] = Explicit[t]

\* Where no two delegations met, a place in the queue is kept for the one that is bound for it.
PlaceKept ==
    \A a \in Agent \ crowded :
        /\ Cardinality(Queued(a)) <= QueueCap
        /\ \A m, n \in BoundFor(a) : m = n
        /\ BoundFor(a) # {} => Cardinality(Queued(a)) < QueueCap

DelegationInv == DelegationTypeOK /\ Handed /\ PlaceKept /\ SharesFitThePool

DelRow == [pc : Steps, task : Child \cup {NoChild}, to : Agent \cup {NoAgent},
           had : Nat \cup {NoBudget}]

LEMMA DelegationNumbers ==
    /\ QueueCap \in Nat /\ ReassignCap \in Nat /\ ParentBudget \in Nat
    /\ MaxDelegations \in Nat /\ MaxCrashes \in Nat /\ NoBudget \notin Nat
    /\ \A t \in Child : Effort[t] \in Nat \ {0} /\ Explicit[t] \in Nat \cup {NoBudget}
  BY DelegationAssumption, BudgetAssumption DEF DelegationAssumption, BudgetAssumption

LEMMA DelegationTyped ==
    ASSUME DelegationTypeOK
    PROVE  /\ status \in [Child -> Status] /\ owner \in [Child -> Agent \cup {NoAgent}]
           /\ moves \in [Child -> 0..ReassignCap] /\ budget \in [Child -> Nat \cup {NoBudget}]
           /\ del \in [Delegator -> DelRow]
           /\ \A m \in Delegator : /\ del[m].pc \in Steps /\ del[m].task \in Child \cup {NoChild}
                                   /\ del[m].to \in Agent \cup {NoAgent}
                                   /\ del[m].had \in Nat \cup {NoBudget}
  BY DEF DelegationTypeOK, DelRow

LEMMA IdleRow == Idle \in DelRow /\ Idle.pc = "none" /\ Idle.to = NoAgent
  BY DEF Idle, DelRow, Steps

\* The rows of the delegations that a step of one of them leaves.
LEMMA RowsAfter ==
    ASSUME del \in [Delegator -> DelRow], NEW m \in Delegator, NEW r \in DelRow,
           del' = [del EXCEPT ![m] = r]
    PROVE  /\ del' \in [Delegator -> DelRow] /\ del'[m] = r
           /\ \A n \in Delegator : n # m => del'[n] = del[n]
  OBVIOUS

LEMMA RowAt ==
    ASSUME NEW r \in DelRow, NEW pc \in Steps
    PROVE  /\ [r EXCEPT !.pc = pc] \in DelRow
           /\ [r EXCEPT !.pc = pc].pc = pc
           /\ \A c \in {"task", "to", "had"} : [r EXCEPT !.pc = pc][c] = r[c]
  BY DEF DelRow

\* One transaction of a delegation, or what its caller asks for: how it leaves the row of the
\* delegation, in the few forms that the invariant tells apart.
Goes(m) == \E pc \in Steps : /\ pc # "share" /\ del' = [del EXCEPT ![m] = [del[m] EXCEPT !.pc = pc]]
                             /\ pc \in {"groom", "backlog", "plan", "assign"} => InTransit(m)
                             /\ pc # "none" => del[m].pc # "none"
Returns(m) == del' = [del EXCEPT ![m] = Idle]

LEMMA GroomGoes ==
    ASSUME DelegationTypeOK, NEW m \in Delegator, Groom(m)
    PROVE  Goes(m)
  <1>1. PICK pc \in {"backlog", "plan", "assign"} : del' = [del EXCEPT ![m].pc = pc]
    BY DEF Groom, Go
  <1>2. pc \in Steps /\ pc # "share" /\ del[m].pc = "groom" /\ InTransit(m)
    BY DEF Steps, Groom, InTransit
  <1>3. del' = [del EXCEPT ![m] = [del[m] EXCEPT !.pc = pc]]
    BY <1>1
  <1>4. QED
    BY <1>2, <1>3 DEF Goes

LEMMA MoveGoes ==
    ASSUME DelegationTypeOK, NEW m \in Delegator, ToBacklog(m) \/ ToPlanned(m)
    PROVE  Goes(m) \/ Returns(m)
  <1>1. CASE Returns(m)
    BY <1>1
  <1>2. CASE ~ Returns(m)
    <2>1. PICK pc \in {"plan", "assign"} : del' = [del EXCEPT ![m].pc = pc]
      BY <1>2 DEF ToBacklog, ToPlanned, Move, Go, Return, Returns
    <2>2. pc \in Steps /\ pc # "share" /\ del[m].pc # "none" /\ InTransit(m)
      BY DEF Steps, ToBacklog, ToPlanned, InTransit
    <2>3. del' = [del EXCEPT ![m] = [del[m] EXCEPT !.pc = pc]]
      BY <2>1
    <2>4. QED
      BY <2>2, <2>3 DEF Goes
  <1>3. QED
    BY <1>1, <1>2

LEMMA FlagGoes ==
    ASSUME DelegationTypeOK, NEW m \in Delegator, Flag(m) \/ Look(m) \/ FileIntervention(m)
    PROVE  Goes(m) \/ Returns(m)
  <1>1. CASE Returns(m)
    BY <1>1
  <1>2. CASE ~ Returns(m)
    <2>1. PICK pc \in {"look", "create"} : del' = [del EXCEPT ![m].pc = pc]
      BY <1>2 DEF Flag, Look, FileIntervention, Go, Return, Returns
    <2>2. pc \in Steps /\ pc # "share" /\ del[m].pc # "none"
      BY DEF Steps, Flag, Look, FileIntervention
    <2>3. del' = [del EXCEPT ![m] = [del[m] EXCEPT !.pc = pc]]
      BY <2>1
    <2>4. QED
      BY <2>1, <2>2, <2>3 DEF Goes
  <1>3. QED
    BY <1>1, <1>2

\* A delegation on its way: nobody's place is taken by it, and whose share it waits for is
\* unchanged.
LEMMA HandedOn ==
    ASSUME DelegationTypeOK, Handed, NEW m \in Delegator, Goes(m) \/ Returns(m), budget' = budget
    PROVE  /\ del' \in [Delegator -> DelRow] /\ Handed'
           /\ \A a \in Agent : BoundFor(a)' \subseteq BoundFor(a)
  <1>1. del \in [Delegator -> DelRow]
    BY DelegationTyped
  <1>2. CASE Returns(m)
    <2>1. /\ del' \in [Delegator -> DelRow] /\ del'[m] = Idle
          /\ \A n \in Delegator : n # m => del'[n] = del[n]
      BY <1>1, <1>2, RowsAfter, IdleRow DEF Returns
    <2>2. \A n \in Delegator : del'[n] = del[n] \/ del'[n].pc = "none"
      BY <2>1, IdleRow
    <2>3. QED
      BY <2>1, <2>2 DEF Handed, BoundFor, InTransit
  <1>3. CASE Goes(m)
    <2>1. PICK pc \in Steps : /\ pc # "share" /\ del' = [del EXCEPT ![m] = [del[m] EXCEPT !.pc = pc]]
                              /\ pc \in {"groom", "backlog", "plan", "assign"} => InTransit(m)
                              /\ pc # "none" => del[m].pc # "none"
      BY <1>3 DEF Goes
    <2>2. PICK r \in DelRow : r = [del[m] EXCEPT !.pc = pc]
      BY <1>1, RowAt
    <2>3. r.pc = pc /\ r.task = del[m].task /\ r.to = del[m].to
      BY <1>1, <2>2, RowAt
    <2>4. /\ del' \in [Delegator -> DelRow] /\ del'[m] = r
          /\ \A n \in Delegator : n # m => del'[n] = del[n]
      BY <1>1, <2>1, <2>2, RowsAfter
    <2>5. Handed'
      <3>1. \A n \in Delegator :
              /\ del'[n].pc # "none" => del'[n].task \in Child
              /\ del'[n].pc \in {"groom", "backlog", "plan", "assign"} => del'[n].to \in Agent
              /\ del'[n].pc = "share" /\ del'[n].had = NoBudget => del'[n].task \notin Own
        BY <2>1, <2>3, <2>4 DEF Handed, InTransit
      <3>2. QED
        BY <3>1 DEF Handed, InTransit, Own
    <2>6. \A a \in Agent : BoundFor(a)' \subseteq BoundFor(a)
      BY <2>1, <2>3, <2>4 DEF BoundFor, InTransit
    <2>7. QED
      BY <2>4, <2>5, <2>6
  <1>4. QED
    BY <1>2, <1>3

LEMMA QueuesFinite ==
    ASSUME NEW a
    PROVE  IsFiniteSet(Queued(a)) /\ Cardinality(Queued(a)) \in Nat
  <1>1. IsFiniteSet(Child) /\ Queued(a) \in SUBSET Child
    BY DelegationAssumption DEF DelegationAssumption, Queued
  <1>2. IsFiniteSet(Queued(a))
    BY <1>1, FS_Subset
  <1>3. QED
    BY <1>2, FS_CardinalityType

\* A queue that gets nothing new, for which no one new is bound, keeps its place.
LEMMA PlacesKept ==
    ASSUME PlaceKept, crowded' = crowded,
           \A a \in Agent : Queued(a)' \subseteq Queued(a) /\ BoundFor(a)' \subseteq BoundFor(a)
    PROVE  PlaceKept'
  <1> SUFFICES ASSUME NEW a \in Agent, a \notin crowded
               PROVE  /\ Cardinality(Queued(a)') <= QueueCap
                      /\ \A m, n \in BoundFor(a)' : m = n
                      /\ BoundFor(a)' # {} => Cardinality(Queued(a)') < QueueCap
    BY DEF PlaceKept, Queued, BoundFor
  <1>1. /\ Cardinality(Queued(a)) <= QueueCap
        /\ \A m, n \in BoundFor(a) : m = n
        /\ BoundFor(a) # {} => Cardinality(Queued(a)) < QueueCap
    BY DEF PlaceKept
  <1>2. IsFiniteSet(Queued(a)) /\ Cardinality(Queued(a)) \in Nat
    BY QueuesFinite
  <1>3. Queued(a)' \subseteq Queued(a) /\ BoundFor(a)' \subseteq BoundFor(a)
    OBVIOUS
  <1>4. IsFiniteSet(Queued(a)') /\ Cardinality(Queued(a)') <= Cardinality(Queued(a))
    BY <1>2, <1>3, FS_Subset
  <1>5. Cardinality(Queued(a)') \in Nat
    BY <1>4, FS_CardinalityType
  <1>6. QED
    BY <1>1, <1>2, <1>3, <1>4, <1>5, DelegationNumbers

LEMMA QueuesAsBefore ==
    ASSUME owner' = owner, NEW a, \A t \in Child : status'[t] = status[t] \/ status'[t] # "ASSIGNED"
    PROVE  Queued(a)' \subseteq Queued(a)
  BY DEF Queued

LEMMA SharesAsBefore ==
    ASSUME SharesFitThePool, budget' = budget
    PROVE  SharesFitThePool'
  BY DEF SharesFitThePool, Budgeted, Own, Pool

\* A delegation begins when there is room, and nobody else is bound for it or the agent is crowded.
LEMMA CheckKeeps ==
    ASSUME DelegationInv, NEW m \in Delegator, NEW t \in Child, NEW a \in Agent, Check(m, t, a)
    PROVE  /\ del' \in [Delegator -> DelRow] /\ Handed' /\ PlaceKept'
           /\ crowded' \subseteq Agent
  <1> DEFINE r == [Idle EXCEPT !.pc = "groom", !.task = t, !.to = a]
  <1>1. /\ r \in DelRow /\ r.pc = "groom" /\ r.task = t /\ r.to = a
    BY DEF Idle, DelRow, Steps
  <1>2. del' = [del EXCEPT ![m] = r] /\ del[m].pc = "none"
    BY DEF Check
  <1>3. del \in [Delegator -> DelRow] /\ DelegationTypeOK
    BY DelegationTyped DEF DelegationInv
  <1> HIDE DEF r
  <1>4. /\ del' \in [Delegator -> DelRow] /\ del'[m] = r
        /\ \A n \in Delegator : n # m => del'[n] = del[n]
    BY <1>1, <1>2, <1>3, RowsAfter
  <1>5. Handed'
    <2>1. \A n \in Delegator :
            /\ del'[n].pc # "none" => del'[n].task \in Child
            /\ del'[n].pc \in {"groom", "backlog", "plan", "assign"} => del'[n].to \in Agent
            /\ del'[n].pc = "share" /\ del'[n].had = NoBudget => del'[n].task \notin Own
      BY <1>1, <1>4 DEF DelegationInv, Handed, InTransit
    <2>2. budget' = budget
      BY DEF Check
    <2>3. QED
      BY <2>1, <2>2 DEF DelegationInv, Handed, InTransit, Own
  <1>6. /\ BoundFor(a)' \subseteq BoundFor(a) \cup {m}
        /\ \A b \in Agent \ {a} : BoundFor(b)' \subseteq BoundFor(b)
    BY <1>1, <1>4 DEF BoundFor
  <1>7. \A b \in Agent : Queued(b)' = Queued(b)
    BY DEF Check, tasks, Queued
  <1>8. crowded' = IF BoundFor(a) = {} THEN crowded ELSE crowded \cup {a}
    BY DEF Check
  <1>9. PlaceKept'
    <2>1. ASSUME NEW b \in Agent, b \notin crowded'
          PROVE  /\ Cardinality(Queued(b)') <= QueueCap
                 /\ \A n, o \in BoundFor(b)' : n = o
                 /\ BoundFor(b)' # {} => Cardinality(Queued(b)') < QueueCap
      <3>1. b \notin crowded
        BY <1>8, <2>1
      <3>2. /\ Cardinality(Queued(b)) <= QueueCap
            /\ \A n, o \in BoundFor(b) : n = o
            /\ BoundFor(b) # {} => Cardinality(Queued(b)) < QueueCap
        BY <3>1 DEF DelegationInv, PlaceKept
      <3>3. CASE b # a
        BY <1>6, <1>7, <3>2, <3>3
      <3>4. CASE b = a
        <4>1. BoundFor(a) = {}
          BY <1>8, <2>1, <3>4
        <4>2. Cardinality(Queued(a)) < QueueCap
          BY DEF Check, HasCapacity
        <4>3. QED
          BY <1>6, <1>7, <3>2, <3>4, <4>1, <4>2
      <3>5. QED
        BY <3>3, <3>4
    <2>2. QED
      BY <2>1 DEF PlaceKept, Queued, BoundFor
  <1>10. crowded' \subseteq Agent
    BY <1>3, <1>8 DEF DelegationTypeOK
  <1>11. QED
    BY <1>4, <1>5, <1>9, <1>10

LEMMA DelegationBegins ==
    ASSUME DelegationInv,
           (\E m \in Manager : Delegate(m)) \/ (\E t \in Child : SweepOrphan(t))
    PROVE  DelegationInv'
  <1>1. PICK m \in Delegator, t \in Child, a \in Agent : Check(m, t, a)
    BY DEF Delegate, SweepOrphan, Delegator
  <1>2. asks' \in 0..MaxDelegations
    <2>1. asks \in 0..MaxDelegations
      BY DEF DelegationInv, DelegationTypeOK
    <2>2. asks' = asks \/ (asks < MaxDelegations /\ asks' = asks + 1)
      BY DEF Delegate, SweepOrphan
    <2>3. QED
      BY <2>1, <2>2, DelegationNumbers
  <1>3. /\ del' \in [Delegator -> DelRow] /\ Handed' /\ PlaceKept' /\ crowded' \subseteq Agent
    BY <1>1, CheckKeeps
  <1>4. UNCHANGED <<status, owner, moves, budget, flagged, filed, crashes>>
    BY <1>1 DEF Check, tasks
  <1>5. DelegationTypeOK'
    BY <1>2, <1>3, <1>4 DEF DelegationInv, DelegationTypeOK, DelRow
  <1>6. SharesFitThePool'
    BY <1>4, SharesAsBefore DEF DelegationInv
  <1>7. QED
    BY <1>3, <1>5, <1>6 DEF DelegationInv

LEMMA DelegationGoesOn ==
    ASSUME DelegationInv, NEW m \in Delegator,
           \/ Groom(m) \/ ToBacklog(m) \/ ToPlanned(m)
           \/ Flag(m) \/ Look(m) \/ FileIntervention(m) \/ Crash(m)
    PROVE  DelegationInv'
  <1>1. Goes(m) \/ Returns(m)
    <2>1. CASE Crash(m)
      BY <2>1 DEF Crash, Return, Returns
    <2>2. QED
      BY <2>1, GroomGoes, MoveGoes, FlagGoes DEF DelegationInv
  <1>2. /\ owner' = owner /\ moves' = moves /\ budget' = budget /\ asks' = asks /\ crowded' = crowded
    BY DEF Groom, ToBacklog, ToPlanned, Move, Flag, Look, FileIntervention, Crash, tasks, counts
  <1>3. DelegationTypeOK /\ Handed /\ PlaceKept /\ SharesFitThePool
    BY DEF DelegationInv
  <1>4. /\ del' \in [Delegator -> DelRow] /\ Handed'
        /\ \A a \in Agent : BoundFor(a)' \subseteq BoundFor(a)
    BY <1>1, <1>2, <1>3, HandedOn
  <1>5. /\ status' \in [Child -> Status]
        /\ \A t \in Child : status'[t] = status[t] \/ status'[t] # "ASSIGNED"
    BY <1>3 DEF DelegationTypeOK, Status, Unassigned, Groom, ToBacklog, ToPlanned, Move, Flag, Look,
                FileIntervention, Crash, tasks
  <1>6. flagged' \subseteq Child /\ filed' \in [Child -> Nat]
    <2>1. del[m].pc \in {"flag", "create"} => del[m].task \in Child
      BY <1>3 DEF Handed
    <2>2. QED
      BY <1>3, <2>1 DEF DelegationTypeOK, Groom, ToBacklog, ToPlanned, Move, Flag, Look,
                FileIntervention, Crash, tasks
  <1>7. crashes' \in 0..MaxCrashes
    <2>1. crashes \in 0..MaxCrashes
      BY <1>3 DEF DelegationTypeOK
    <2>2. crashes' = crashes \/ (crashes < MaxCrashes /\ crashes' = crashes + 1)
      BY DEF Groom, ToBacklog, ToPlanned, Move, Flag, Look, FileIntervention, Crash, counts
    <2>3. QED
      BY <2>1, <2>2, DelegationNumbers
  <1>8. DelegationTypeOK'
    BY <1>2, <1>3, <1>4, <1>5, <1>6, <1>7 DEF DelegationTypeOK, DelRow
  <1>9. PlaceKept'
    BY <1>2, <1>3, <1>4, <1>5, QueuesAsBefore, PlacesKept
  <1>10. QED
    BY <1>2, <1>3, <1>4, <1>8, <1>9, SharesAsBefore DEF DelegationInv

LEMMA OthersGoOn ==
    ASSUME DelegationInv, NEW t \in Child, Take(t) \/ Finish(t) \/ Cancel(t)
    PROVE  DelegationInv'
  <1>1. /\ UNCHANGED <<owner, moves, budget, flagged, filed, del, counts, crowded>>
        /\ status' = [status EXCEPT ![t] = "IN_PROGRESS"] \/ status' = [status EXCEPT ![t] = "ENDED"]
    BY DEF Take, Finish, Cancel, Become
  <1>2. DelegationTypeOK /\ Handed /\ PlaceKept /\ SharesFitThePool
    BY DEF DelegationInv
  <1>3. /\ status' \in [Child -> Status]
        /\ \A c \in Child : status'[c] = status[c] \/ status'[c] # "ASSIGNED"
    BY <1>1, <1>2 DEF DelegationTypeOK, Status
  <1>4. DelegationTypeOK'
    BY <1>1, <1>2, <1>3 DEF DelegationTypeOK, counts
  <1>5. Handed'
    BY <1>1, <1>2 DEF Handed, InTransit, Own
  <1>6. PlaceKept'
    <2>1. \A a \in Agent : BoundFor(a)' = BoundFor(a)
      BY <1>1 DEF BoundFor
    <2>2. \A a \in Agent : Queued(a)' \subseteq Queued(a)
      BY <1>1, <1>3, QueuesAsBefore
    <2>3. QED
      BY <1>1, <1>2, <2>1, <2>2, PlacesKept
  <1>7. SharesFitThePool'
    BY <1>1, <1>2, SharesAsBefore
  <1>8. QED
    BY <1>4, <1>5, <1>6, <1>7 DEF DelegationInv

\* The one that was bound for the agent takes the place that was kept.
LEMMA DelegationAssigns ==
    ASSUME DelegationInv, NEW m \in Delegator, Assign(m)
    PROVE  DelegationInv'
  <1>1. DelegationTypeOK /\ Handed /\ PlaceKept /\ SharesFitThePool
    BY DEF DelegationInv
  <1>2. PICK t \in Child, a \in Agent : t = del[m].task /\ a = del[m].to
    BY <1>1 DEF Handed, InTransit, Assign
  <1>3. /\ status \in [Child -> Status] /\ owner \in [Child -> Agent \cup {NoAgent}]
        /\ moves \in [Child -> 0..ReassignCap] /\ budget \in [Child -> Nat \cup {NoBudget}]
        /\ del \in [Delegator -> DelRow]
    BY <1>1, DelegationTyped
  <1>4. UNCHANGED <<budget, flagged, filed, counts, crowded>> /\ del[m].pc = "assign"
    BY DEF Assign
  <1>5. m \in BoundFor(a)
    BY <1>2, <1>4 DEF BoundFor
  <1> DEFINE reassigned == owner[t] \notin {NoAgent, a}
             limited == reassigned /\ AtLimit(t)
             again == status[t] # "PLANNED" /\ owner[t] = a
  <1>6. /\ limited => /\ del' = [del EXCEPT ![m].pc = "flag", ![m].to = NoAgent]
                      /\ UNCHANGED tasks
        /\ ~ limited => /\ status' = IF status[t] = "PLANNED"
                                     THEN [status EXCEPT ![t] = "ASSIGNED"] ELSE status
                        /\ owner' = [owner EXCEPT ![t] = a]
                        /\ moves' = IF reassigned /\ ~ again
                                    THEN [moves EXCEPT ![t] = @ + 1] ELSE moves
                        /\ del' = [del EXCEPT ![m].pc = "share", ![m].to = NoAgent,
                                              ![m].had = budget[t]]
    BY <1>2 DEF Assign
  <1>7. /\ status' \in [Child -> Status] /\ owner' \in [Child -> Agent \cup {NoAgent}]
        /\ \A c \in Child \ {t} : status'[c] = status[c] /\ owner'[c] = owner[c]
        /\ limited => status' = status /\ owner' = owner
        /\ ~ limited => owner'[t] = a
    BY <1>3, <1>6 DEF Status, tasks
  <1>8. moves' \in [Child -> 0..ReassignCap]
    <2>1. CASE reassigned /\ ~ limited
      <3>1. moves[t] \in 0..ReassignCap /\ ~ (moves[t] >= ReassignCap)
        BY <1>3, <2>1 DEF AtLimit
      <3>2. moves[t] + 1 \in 0..ReassignCap
        BY <3>1, DelegationNumbers
      <3>3. moves' = [moves EXCEPT ![t] = moves[t] + 1] \/ moves' = moves
        BY <1>6, <2>1
      <3>4. QED
        BY <1>3, <3>2, <3>3
    <2>2. CASE ~ (reassigned /\ ~ limited)
      BY <1>3, <1>6, <2>2 DEF tasks
    <2>3. QED
      BY <2>1, <2>2
  <1>9. PICK r \in DelRow : /\ del' = [del EXCEPT ![m] = r] /\ r.task = t /\ r.to = NoAgent
                            /\ r.pc \in {"flag", "share"}
                            /\ r.pc = "share" => r.had = budget[t]
    <2>1. CASE limited
      <3> DEFINE r == [del[m] EXCEPT !.pc = "flag", !.to = NoAgent]
      <3>1. r \in DelRow /\ r.task = t /\ r.to = NoAgent /\ r.pc = "flag"
        BY <1>2, <1>3 DEF DelRow, Steps
      <3>2. del' = [del EXCEPT ![m] = r]
        BY <1>6, <2>1
      <3>3. QED
        BY <3>1, <3>2
    <2>2. CASE ~ limited
      <3> DEFINE r == [del[m] EXCEPT !.pc = "share", !.to = NoAgent, !.had = budget[t]]
      <3>1. r \in DelRow /\ r.task = t /\ r.to = NoAgent /\ r.pc = "share" /\ r.had = budget[t]
        BY <1>2, <1>3 DEF DelRow, Steps
      <3>2. del' = [del EXCEPT ![m] = r]
        BY <1>6, <2>2
      <3>3. QED
        BY <3>1, <3>2
    <2>3. QED
      BY <2>1, <2>2
  <1> HIDE DEF limited, reassigned, again
  <1>10. /\ del' \in [Delegator -> DelRow] /\ del'[m] = r
         /\ \A n \in Delegator : n # m => del'[n] = del[n]
    BY <1>3, <1>9, RowsAfter
  <1>11. DelegationTypeOK'
    BY <1>1, <1>4, <1>7, <1>8, <1>10 DEF DelegationTypeOK, DelRow, counts
  <1>12. Handed'
    <2>1. \A n \in Delegator :
            /\ del'[n].pc # "none" => del'[n].task \in Child
            /\ del'[n].pc \in {"groom", "backlog", "plan", "assign"} => del'[n].to \in Agent
            /\ del'[n].pc = "share" /\ del'[n].had = NoBudget => del'[n].task \notin Own
      <3>1. t \in Own => budget[t] # NoBudget
        BY <1>1 DEF Handed, Own
      <3>2. QED
        BY <1>1, <1>9, <1>10, <3>1 DEF Handed, InTransit
    <2>2. QED
      BY <1>1, <1>4, <2>1 DEF Handed, InTransit, Own
  <1>13. \A b \in Agent : BoundFor(b)' \subseteq BoundFor(b) \ {m}
    BY <1>9, <1>10 DEF BoundFor
  <1>14. PlaceKept'
    <2>1. ASSUME NEW b \in Agent, b \notin crowded
          PROVE  /\ Cardinality(Queued(b)') <= QueueCap
                 /\ \A n, o \in BoundFor(b)' : n = o
                 /\ BoundFor(b)' # {} => Cardinality(Queued(b)') < QueueCap
      <3>1. /\ Cardinality(Queued(b)) <= QueueCap
            /\ \A n, o \in BoundFor(b) : n = o
            /\ BoundFor(b) # {} => Cardinality(Queued(b)) < QueueCap
        BY <1>1, <2>1 DEF PlaceKept
      <3>2. IsFiniteSet(Queued(b)) /\ Cardinality(Queued(b)) \in Nat
        BY QueuesFinite
      <3>3. CASE b # a
        <4>1. Queued(b)' \subseteq Queued(b)
          BY <1>7, <3>3 DEF Queued
        <4>2. IsFiniteSet(Queued(b)') /\ Cardinality(Queued(b)') <= Cardinality(Queued(b))
          BY <3>2, <4>1, FS_Subset
        <4>3. Cardinality(Queued(b)') \in Nat
          BY <4>2, FS_CardinalityType
        <4>4. QED
          BY <1>13, <3>1, <3>2, <4>2, <4>3, DelegationNumbers
      <3>4. CASE b = a
        <4>1. BoundFor(a)' = {} /\ Cardinality(Queued(a)) < QueueCap
          BY <1>5, <1>13, <3>1, <3>4
        <4>2. Queued(a)' \subseteq Queued(a) \cup {t}
          BY <1>7 DEF Queued
        <4>3. /\ IsFiniteSet(Queued(a) \cup {t})
              /\ Cardinality(Queued(a) \cup {t})
                   = IF t \in Queued(a) THEN Cardinality(Queued(a)) ELSE Cardinality(Queued(a)) + 1
          BY <3>2, <3>4, FS_AddElement
        <4>4. /\ IsFiniteSet(Queued(a)')
              /\ Cardinality(Queued(a)') <= Cardinality(Queued(a) \cup {t})
          BY <4>2, <4>3, FS_Subset
        <4>5. Cardinality(Queued(a)') \in Nat
          BY <4>4, FS_CardinalityType
        <4>6. Cardinality(Queued(a)') <= QueueCap
          BY <3>2, <3>4, <4>1, <4>3, <4>4, <4>5, DelegationNumbers
        <4>7. QED
          BY <3>4, <4>1, <4>6
      <3>5. QED
        BY <3>3, <3>4
    <2>2. QED
      BY <1>4, <2>1 DEF PlaceKept, Queued, BoundFor
  <1>15. QED
    BY <1>1, <1>4, <1>11, <1>12, <1>14, SharesAsBefore DEF DelegationInv

\* What the budgets come to where there is one.
Cash == [t \in Child |-> IF budget[t] = NoBudget THEN 0 ELSE budget[t]]

LEMMA CashTyped ==
    ASSUME DelegationTypeOK
    PROVE  /\ Cash \in [Child -> Nat]
           /\ \A S \in SUBSET Child : /\ Budgeted(S) \in SUBSET Child /\ IsFiniteSet(Budgeted(S))
                                      /\ Total(budget, Budgeted(S)) = Total(Cash, Budgeted(S))
  <1>1. \A t \in Child : budget[t] \in Nat \cup {NoBudget}
    BY DelegationTyped
  <1>2. Cash \in [Child -> Nat]
    BY <1>1 DEF Cash
  <1> SUFFICES ASSUME NEW S \in SUBSET Child
               PROVE  /\ Budgeted(S) \in SUBSET Child /\ IsFiniteSet(Budgeted(S))
                      /\ Total(budget, Budgeted(S)) = Total(Cash, Budgeted(S))
    BY <1>2
  <1>3. Budgeted(S) \in SUBSET Child /\ IsFiniteSet(Child)
    BY DelegationAssumption DEF DelegationAssumption, Budgeted
  <1>4. IsFiniteSet(Budgeted(S))
    BY <1>3, FS_Subset
  <1>5. \A t \in Budgeted(S) : budget[t] = Cash[t]
    BY DEF Cash, Budgeted
  <1>6. Total(budget, Budgeted(S)) = Total(Cash, Budgeted(S))
    BY <1>5, TotalSame
  <1>7. QED
    BY <1>3, <1>4, <1>6

\* What the siblings of a child without a budget of its own have: their shares and the budgets
\* they were filed with.
LEMMA AllocatedSplits ==
    ASSUME DelegationTypeOK, Handed, NEW t \in Child \ Own
    PROVE  /\ Allocated(t) = Total(Cash, Budgeted(Child \ Own) \ {t}) + Total(Explicit, Own)
           /\ Total(Cash, Budgeted(Child \ Own) \ {t}) \in Nat /\ Total(Explicit, Own) \in Nat
  <1> DEFINE A == Budgeted(Child \ Own) \ {t}
  <1>1. Cash \in [Child -> Nat]
    BY CashTyped
  <1>2. A \in SUBSET Child /\ Own \in SUBSET Child /\ A \cap Own = {}
    BY DEF Budgeted, Own
  <1>3. IsFiniteSet(Child)
    BY DelegationAssumption DEF DelegationAssumption
  <1>4. IsFiniteSet(A) /\ IsFiniteSet(Own)
    BY <1>2, <1>3, FS_Subset
  <1>5. \A c \in Own : budget[c] = Explicit[c] /\ budget[c] # NoBudget /\ Cash[c] = Explicit[c]
    BY DEF Handed, Own, Cash
  <1>6. Budgeted(Child \ {t}) = A \cup Own
    BY <1>5 DEF Budgeted, Own
  <1>7. Allocated(t) = Total(Cash, Budgeted(Child \ {t}))
    <2>1. Child \ {t} \in SUBSET Child
      OBVIOUS
    <2>2. QED
      BY <2>1, CashTyped DEF Allocated
  <1>8. Total(Cash, Own) = Total(Explicit, Own)
    BY <1>5, TotalSame
  <1> HIDE DEF A
  <1>9. Total(Cash, A \cup Own) = Total(Cash, A) + Total(Cash, Own)
    BY <1>1, <1>2, <1>4, TotalSplits
  <1>10. Total(Cash, A) \in Nat /\ Total(Cash, Own) \in Nat
    BY <1>1, <1>2, <1>4, TotalType
  <1>11. QED
    BY <1>6, <1>7, <1>8, <1>9, <1>10 DEF A

LEMMA Quotients == \A x \in Int, y \in Nat \ {0} : x \div y \in Int
  OBVIOUS

LEMMA SharesFit ==
    ASSUME NEW t \in Child, Allocated(t) \in Nat
    PROVE  Share(t) \in Int /\ Share(t) <= Pool - Allocated(t) /\ Pool \in Int
  <1>1. Pool \in Int
    BY DelegationNumbers DEF Pool
  <1> DEFINE total == Total(Effort, Open)
             whole == 10 * IF total = 0 THEN 1 ELSE total
             mine == ParentBudget * 8 * Effort[t]
             fair == mine \div whole
             left == Pool - Allocated(t)
  <1>2. total \in Nat
    <2>1. IsFiniteSet(Child) /\ Effort \in [Child -> Nat \ {0}]
      BY DelegationAssumption DEF DelegationAssumption
    <2>2. IsFiniteSet(Open) /\ Open \in SUBSET Child
      BY <2>1, FS_Subset DEF Open
    <2>3. Effort \in [Child -> Nat]
      BY <2>1
    <2>4. QED
      BY <2>2, <2>3, TotalType
  <1>3. whole \in Nat \ {0}
    <2> HIDE DEF total
    <2>1. QED
      BY <1>2
  <1>4. mine \in Int
    BY DelegationNumbers
  <1>5. fair \in Int
    <2> HIDE DEF mine, whole
    <2>1. QED
      BY <1>3, <1>4, Quotients
  <1>6. left \in Int
    BY <1>1
  <1>7. Share(t) = IF fair < left THEN fair ELSE left
    BY DEF Share
  <1> HIDE DEF fair
  <1>8. QED
    BY <1>1, <1>5, <1>6, <1>7

LEMMA DelegationAllocates ==
    ASSUME DelegationInv, NEW m \in Delegator, AllocateBudget(m)
    PROVE  DelegationInv'
  <1>1. DelegationTypeOK /\ Handed /\ PlaceKept /\ SharesFitThePool
    BY DEF DelegationInv
  <1>2. /\ UNCHANGED <<status, owner, moves, flagged, filed, asks, crashes, crowded>>
        /\ Returns(m) /\ del[m].pc = "share"
    BY DEF AllocateBudget, tasks, counts, Return, Returns
  <1>3. PICK t \in Child : t = del[m].task
    BY <1>1, <1>2 DEF Handed
  <1>4. /\ del' \in [Delegator -> DelRow]
        /\ \A n \in Delegator : del'[n] = del[n] \/ (del'[n].pc = "none" /\ del'[n].to = NoAgent)
    <2>1. del \in [Delegator -> DelRow]
      BY <1>1, DelegationTyped
    <2>2. /\ del' \in [Delegator -> DelRow] /\ del'[m] = Idle
          /\ \A n \in Delegator : n # m => del'[n] = del[n]
      BY <1>2, <2>1, RowsAfter, IdleRow DEF Returns
    <2>3. QED
      BY <2>2, IdleRow
  <1>5. PlaceKept'
    <2>1. \A a \in Agent : BoundFor(a)' \subseteq BoundFor(a)
      BY <1>4 DEF BoundFor
    <2>2. \A a \in Agent : Queued(a)' \subseteq Queued(a)
      BY <1>2 DEF Queued
    <2>3. QED
      BY <1>1, <1>2, <2>1, <2>2, PlacesKept
  <1>6. CASE budget' = budget
    <2>1. DelegationTypeOK'
      BY <1>1, <1>2, <1>4, <1>6 DEF DelegationTypeOK, DelRow
    <2>2. Handed'
      BY <1>1, <1>4, <1>6 DEF Handed, InTransit, Own
    <2>3. QED
      BY <1>1, <1>5, <1>6, <2>1, <2>2, SharesAsBefore DEF DelegationInv
  <1>7. CASE budget' # budget
    <2>1. /\ del[m].had = NoBudget /\ ~ (Share(t) <= 0)
          /\ budget' = [budget EXCEPT ![t] = Share(t)]
      BY <1>3, <1>7 DEF AllocateBudget
    <2>2. t \in Child \ Own
      BY <1>1, <1>2, <1>3, <2>1 DEF Handed
    <2> DEFINE others == Budgeted(Child \ Own) \ {t}
               filedWith == Total(Explicit, Own)
    <2>3. /\ Allocated(t) = Total(Cash, others) + filedWith
          /\ Total(Cash, others) \in Nat /\ filedWith \in Nat
      BY <1>1, <2>2, AllocatedSplits
    <2>4. Allocated(t) \in Nat
      <3> HIDE DEF others, filedWith
      <3>1. QED
        BY <2>3
    <2>5. PICK s : s = Share(t)
      OBVIOUS
    <2>6. s \in Int /\ s <= Pool - Allocated(t) /\ Pool \in Int
      BY <2>4, <2>5, SharesFit
    <2>7. s \in Nat /\ s > 0 /\ budget' = [budget EXCEPT ![t] = s]
      BY <2>1, <2>5, <2>6
    <2>8. budget \in [Child -> Nat \cup {NoBudget}] /\ NoBudget \notin Nat
      BY <1>1, DelegationTyped, DelegationNumbers
    <2>9. /\ budget' \in [Child -> Nat \cup {NoBudget}]
          /\ budget'[t] = s /\ \A c \in Child \ {t} : budget'[c] = budget[c]
      BY <2>7, <2>8
    <2>10. DelegationTypeOK'
      BY <1>1, <1>2, <1>4, <2>9 DEF DelegationTypeOK, DelRow
    <2>11. Handed'
      BY <1>1, <1>4, <2>2, <2>9 DEF Handed, InTransit, Own
    <2>12. SharesFitThePool'
      <3>1. /\ Cash \in [Child -> Nat] /\ Cash' \in [Child -> Nat]
            /\ Cash'[t] = s /\ \A c \in others : Cash'[c] = Cash[c]
        <4>1. Cash \in [Child -> Nat]
          BY <1>1, CashTyped
        <4>2. Cash' = [c \in Child |-> IF budget'[c] = NoBudget THEN 0 ELSE budget'[c]]
          BY DEF Cash
        <4>3. \A c \in Child : budget'[c] \in Nat \cup {NoBudget}
          BY <2>9
        <4>4. Cash' \in [Child -> Nat]
          BY <4>2, <4>3
        <4>5. Cash'[t] = s
          BY <2>7, <2>8, <2>9, <4>2
        <4>6. \A c \in others : Cash'[c] = Cash[c]
          BY <2>9, <4>2 DEF Cash, Budgeted
        <4>7. QED
          BY <4>1, <4>4, <4>5, <4>6
      <3>2. Budgeted(Child \ Own)' = others \cup {t}
        BY <2>2, <2>7, <2>8, <2>9 DEF Budgeted, Own
      <3>3. others \in SUBSET Child /\ IsFiniteSet(others) /\ t \notin others
        <4>1. Budgeted(Child \ Own) \in SUBSET Child /\ IsFiniteSet(Child)
          BY DelegationAssumption DEF DelegationAssumption, Budgeted
        <4>2. QED
          BY <4>1, FS_Subset
      <3>4. Total(budget, Budgeted(Child \ Own))' = Total(Cash', others \cup {t})
        <4>1. \A c \in others \cup {t} : budget'[c] = Cash'[c]
          <5>1. \A c \in others \cup {t} : budget'[c] # NoBudget
            BY <2>7, <2>8, <2>9 DEF Budgeted
          <5>2. QED
            BY <3>3, <5>1 DEF Cash
        <4> HIDE DEF others
        <4>2. Total(budget', others \cup {t}) = Total(Cash', others \cup {t})
          BY <4>1, TotalSame
        <4>3. QED
          BY <3>2, <4>2 DEF Total, Cents
      <3> HIDE DEF others, filedWith
      <3>5. Total(Cash', others \cup {t}) = Total(Cash, others) + s
        <4>1. IsFiniteSet({t}) /\ others \cap {t} = {} /\ {t} \in SUBSET Child
          BY <3>3, FS_Singleton
        <4>2. Total(Cash', others \cup {t}) = Total(Cash', others) + Total(Cash', {t})
          BY <3>1, <3>3, <4>1, TotalSplits
        <4>3. Total(Cash', {t}) = s
          BY <3>1, TotalOfOne
        <4>4. Total(Cash', others) = Total(Cash, others)
          BY <3>1, TotalSame
        <4>5. QED
          BY <4>2, <4>3, <4>4
      <3>6. Total(Cash, others) + s + filedWith <= Pool
        BY <2>3, <2>4, <2>6, <2>7
      <3>7. Own' = Own /\ Pool' = Pool
        BY DEF Own, Pool
      <3>8. QED
        BY <3>4, <3>5, <3>6, <3>7 DEF SharesFitThePool, filedWith, Total, Cents
    <2>13. QED
      BY <1>5, <2>10, <2>11, <2>12 DEF DelegationInv
  <1>8. QED
    BY <1>6, <1>7

-----------------------------------------------------------------------------
(* The theorems                                                            *)

LEMMA DelegationStarts ==
    ASSUME DelegationInit
    PROVE  DelegationInv
  <1>1. DelegationTypeOK
    <2>1. Start \in [Child -> Unassigned] /\ Explicit \in [Child -> Nat \cup {NoBudget}]
      BY DelegationAssumption DEF DelegationAssumption
    <2>2. del \in [Delegator -> DelRow]
      BY IdleRow DEF DelegationInit
    <2>3. status \in [Child -> Status]
      BY <2>1 DEF DelegationInit, Status
    <2>4. moves \in [Child -> 0..ReassignCap]
      BY DelegationNumbers DEF DelegationInit
    <2>5. asks \in 0..MaxDelegations /\ crashes \in 0..MaxCrashes
      BY DelegationNumbers DEF DelegationInit
    <2>6. QED
      BY <2>1, <2>2, <2>3, <2>4, <2>5 DEF DelegationInit, DelegationTypeOK, DelRow
  <1>2. \A m \in Delegator : del[m].pc = "none"
    BY IdleRow DEF DelegationInit
  <1>3. Handed
    BY <1>2 DEF Handed, InTransit, DelegationInit
  <1>4. PlaceKept
    <2>1. \A a \in Agent : BoundFor(a) = {}
      BY <1>2 DEF BoundFor
    <2>2. \A a \in Agent : Queued(a) = {}
      BY DelegationAssumption DEF DelegationInit, Queued, DelegationAssumption
    <2>3. QED
      BY <2>1, <2>2, FS_EmptySet, DelegationNumbers DEF PlaceKept
  <1>5. SharesFitThePool
    <2>1. Budgeted(Child \ Own) = {}
      BY DEF Budgeted, Own, DelegationInit
    <2>2. Total(budget, {}) = 0
      <3>1. Cents(budget, {}) = {}
        BY DEF Cents
      <3>2. QED
        BY <3>1, FS_EmptySet DEF Total
    <2>3. QED
      BY <2>1, <2>2 DEF SharesFitThePool
  <1>6. QED
    BY <1>1, <1>3, <1>4, <1>5 DEF DelegationInv

LEMMA DelegationStep ==
    ASSUME DelegationInv, [DelegationNext]_delegationVars
    PROVE  DelegationInv'
  <1>1. CASE UNCHANGED delegationVars
    <2>1. /\ UNCHANGED <<status, owner, moves, budget, flagged, filed, del, asks, crashes, crowded>>
      BY <1>1 DEF delegationVars, tasks, counts
    <2>2. DelegationTypeOK'
      BY <2>1 DEF DelegationInv, DelegationTypeOK
    <2>3. Handed'
      BY <2>1 DEF DelegationInv, Handed, InTransit, Own
    <2>4. \A a \in Agent : Queued(a)' = Queued(a) /\ BoundFor(a)' = BoundFor(a)
      BY <2>1 DEF Queued, BoundFor
    <2>5. PlaceKept'
      BY <2>1, <2>4, PlacesKept DEF DelegationInv
    <2>6. SharesFitThePool'
      BY <2>1, SharesAsBefore DEF DelegationInv
    <2>7. QED
      BY <2>2, <2>3, <2>5, <2>6 DEF DelegationInv
  <1>2. ASSUME NEW m \in Delegator, GoOn(m) \/ Crash(m)
        PROVE  DelegationInv'
    BY <1>2, DelegationGoesOn, DelegationAssigns, DelegationAllocates DEF GoOn
  <1>3. QED
    BY <1>1, <1>2, DelegationBegins, OthersGoOn DEF DelegationNext

\* Who is bound for whom, the places kept in the queues and the shares of the pool agree
\* throughout, for any team, children, limits and budgets.
THEOREM DelegationHolds == DelegationSpec => []DelegationInv
  <1>1. DelegationInit => DelegationInv
    BY DelegationStarts
  <1>2. DelegationInv /\ [DelegationNext]_delegationVars => DelegationInv'
    BY DelegationStep
  <1>3. QED
    BY <1>1, <1>2, PTL DEF DelegationSpec

\* The variables of the delegations have their types, and no child is moved more often than the
\* limit says.
THEOREM DelegationTypeCorrect == DelegationSpec => []DelegationTypeOK
  <1>1. DelegationInv => DelegationTypeOK
    BY DEF DelegationInv
  <1>2. QED
    BY <1>1, DelegationHolds, PTL

\* A queue is overfilled only where two delegations were bound for its agent at once.
THEOREM QueuesHold == DelegationSpec => []QueueOverfilledByRaceOnly
  <1>1. DelegationInv => QueueOverfilledByRaceOnly
    <2> SUFFICES ASSUME DelegationInv, NEW a \in Agent, Cardinality(Queued(a)) > QueueCap
                 PROVE  a \in crowded
      BY DEF QueueOverfilledByRaceOnly
    <2>1. Cardinality(Queued(a)) \in Nat
      BY QueuesFinite
    <2>2. QED
      BY <2>1, DelegationNumbers DEF DelegationInv, PlaceKept
  <1>2. QED
    BY <1>1, DelegationHolds, PTL

\* What is shared out of a parent's budget stays within what its children filed with budgets of
\* their own leave of the pool.
THEOREM SharesHold == DelegationSpec => []SharesFitThePool
  <1>1. DelegationInv => SharesFitThePool
    BY DEF DelegationInv
  <1>2. QED
    BY <1>1, DelegationHolds, PTL
================================================================================

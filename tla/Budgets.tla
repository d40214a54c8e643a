-------------------------------- MODULE Budgets --------------------------------
(***************************************************************************)
(* Who is paid for, and in what: the agents, and cents.  A sum of cents is *)
(* the number of the cents, so that proofs can take it apart.              *)
(***************************************************************************)
EXTENDS Integers, FiniteSets

CONSTANTS
    Agent,
    NoBudget         \* tasks.budget_cents IS NULL

ASSUME BudgetAssumption == NoBudget \notin Nat

\* What f gives the members of S, counted cent by cent.
Cents(f, S) == UNION {{i} \X (1..f[i]) : i \in S}
Total(f, S) == Cardinality(Cents(f, S))
================================================================================

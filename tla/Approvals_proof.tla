----------------------------- MODULE Approvals_proof -----------------------------
(***************************************************************************)
(* No decision is lost on its way back to the agent, and none is taken     *)
(* back, for any number of approvals, of approvals shown and of mishaps.   *)
(***************************************************************************)
EXTENDS Approvals, FiniteSetTheorems, TLAPS

-----------------------------------------------------------------------------
(* The inductive invariant                                                 *)

\* The approvals are created one after the other, and an escalation that is about
\* to create one still finds room.
Created ==
    /\ {i \in Approval : ap[i] # "none"} = 1..Latest
    /\ Latest \in 0..MaxApprovals
    /\ turn = "asking" => Latest < MaxApprovals

\* Where a decision is that has neither reached the agent nor been missed: with the
\* server, in the signal's slot of the running workflow, or before its next step.
OnItsWay ==
    /\ DecidedOnes \subseteq reached \cup missed \cup Outstanding \cup slot
                             \cup (IF turn = "begin" THEN Approval ELSE {})
    /\ turn = "none" => slot = {}

IInv == TypeOK /\ Created /\ OnItsWay

-----------------------------------------------------------------------------
(* The rows                                                                *)

LEMMA Numbers == Shown \in Nat /\ MaxApprovals \in Nat /\ MaxUpsets \in Nat
  <1>1. {Shown, MaxApprovals, MaxUpsets} \subseteq Nat
    BY ApprovalsAssumption
  <1>2. QED
    BY <1>1

\* Nothing is created: the same rows have a status.
LEMMA CreatedStays ==
    ASSUME TypeOK, Created, turn' = "asking" => turn = "asking" \/ Latest < MaxApprovals,
           \A i \in Approval : ap'[i] # "none" <=> ap[i] # "none"
    PROVE  Created' /\ Latest' = Latest
  <1>1. {i \in Approval : ap'[i] # "none"} = {i \in Approval : ap[i] # "none"}
    OBVIOUS
  <1>2. Latest' = Latest
    BY <1>1 DEF Latest
  <1>3. QED
    BY <1>1, <1>2 DEF Created

\* The next row is created.
LEMMA CreatedNext ==
    ASSUME TypeOK, Created, Latest < MaxApprovals, OpenNext, turn' # "asking"
    PROVE  Created' /\ ap[Latest + 1] = "none" /\ Latest + 1 \in Approval
  <1>1. Latest + 1 \in Approval /\ Latest \in Nat /\ Latest + 1 \notin 1..Latest
    BY Numbers DEF Created, Approval
  <1>2. ap[Latest + 1] = "none"
    BY <1>1 DEF Created
  <1>3. ap' = [ap EXCEPT ![Latest + 1] = "pending"] /\ ap \in [Approval -> ApprovalStatus]
    BY DEF OpenNext, TypeOK
  <1>4. {i \in Approval : ap'[i] # "none"} = {i \in Approval : ap[i] # "none"} \cup {Latest + 1}
    BY <1>1, <1>3
  <1>5. {i \in Approval : ap'[i] # "none"} = 1..(Latest + 1)
    <2>1. 1..(Latest + 1) = 1..Latest \cup {Latest + 1}
      BY <1>1
    <2>2. QED
      BY <1>4, <2>1 DEF Created
  <1>6. Cardinality(1..(Latest + 1)) = Latest + 1
    <2>1. Latest + 1 \in Int /\ 1 \in Int
      BY <1>1
    <2>2. Cardinality(1..(Latest + 1)) = IF 1 > Latest + 1 THEN 0 ELSE (Latest + 1) - 1 + 1
      BY <2>1, FS_Interval
    <2>3. QED
      BY <1>1, <2>2
  <1>7. Latest' = Latest + 1
    BY <1>5, <1>6 DEF Latest
  <1>8. Latest' \in 0..MaxApprovals
    BY <1>1, <1>7, Numbers DEF Approval
  <1>9. QED
    BY <1>1, <1>2, <1>5, <1>7, <1>8 DEF Created

-----------------------------------------------------------------------------
(* One step per action: the types                                          *)

LEMMA TypeHolds ==
    ASSUME TypeOK, Created, Next
    PROVE  TypeOK'
  <1>1. CASE BeginStep
    BY <1>1 DEF BeginStep, Reach, Miss, Visible, DecidedOnes, agentVars, founderVars, TypeOK, Phase
  <1>2. CASE BeginsInVain
    BY <1>2 DEF BeginsInVain, Miss, DecidedOnes, agentVars, founderVars, TypeOK, Phase
  <1>3. CASE MoveTask
    BY <1>3 DEF MoveTask, NextStep, agentVars, founderVars, TypeOK, Phase
  <1>4. CASE EscalateAgain
    BY <1>4 DEF EscalateAgain, NextStep, agentVars, founderVars, TypeOK, Phase
  <1>5. CASE EscalateDecided
    <2>1. Latest \in Approval \/ LastStatus = "none"
      BY Numbers DEF Created, LastStatus, Approval
    <2>2. QED
      BY <1>5, <2>1 DEF EscalateDecided, Reach, NextStep, Decided, agentVars, founderVars, TypeOK, Phase
  <1>6. CASE Escalate
    BY <1>6 DEF Escalate, agentVars, founderVars, TypeOK, Phase
  <1>7. CASE CreateApproval
    <2>1. Latest + 1 \in 0..MaxApprovals
      BY <1>7, Numbers DEF CreateApproval, Created
    <2>2. QED
      BY <1>7, <2>1 DEF CreateApproval, OpenNext, agentVars, founderVars, TypeOK, Phase, ApprovalStatus, Open, Decided
  <1>8. CASE WaitForApproval
    <2>1. Latest \in Approval \/ LastStatus = "none"
      BY Numbers DEF Created, LastStatus, Approval
    <2>2. QED
      BY <1>8, <2>1 DEF WaitForApproval, Reach, NextStep, Decided, agentVars, founderVars, TypeOK, Phase
  <1>9. CASE Park
    <2>1. 0 \in 0..MaxApprovals
      BY Numbers
    <2>2. QED
      BY <1>9, <2>1 DEF Park, agentVars, founderVars, TypeOK, Phase
  <1>10. CASE WaitEnds
    <2>1. 0 \in 0..MaxApprovals
      BY Numbers
    <2>2. QED
      BY <1>10, <2>1 DEF WaitEnds, Resumed, agentVars, founderVars, TypeOK, Phase
  <1>11. CASE ExpireOwn
    <2>1. 0 \in 0..MaxApprovals /\ on \in Approval
      BY <1>11, Numbers DEF ExpireOwn, TypeOK, Approval
    <2>2. QED
      BY <1>11, <2>1 DEF ExpireOwn, Resumed, Expire, agentVars, founderVars, TypeOK, Phase, ApprovalStatus, Open, Decided
  <1>12. CASE HoldCall
    BY <1>12 DEF HoldCall, OpenNext, NextStep, agentVars, founderVars, TypeOK, Phase, ApprovalStatus, Open, Decided
  <1>13. CASE Submit
    BY <1>13 DEF Submit, agentVars, founderVars, TypeOK, Phase
  <1>14. CASE TurnEnds
    BY <1>14 DEF TurnEnds, agentVars, founderVars, TypeOK, Phase
  <1>15. CASE Crash
    <2>1. MaxUpsets \in Nat /\ 0 \in 0..MaxApprovals
      BY Numbers
    <2>2. upsets' \in 0..MaxUpsets
      BY <1>15, <2>1 DEF Crash, Upset, TypeOK
    <2>3. QED
      BY <1>15, <2>1, <2>2 DEF Crash, Upset, Working, Miss, DecidedOnes, agentVars, founderVars, TypeOK, Phase
  <1>16. CASE CloseSession
    BY <1>16 DEF CloseSession, agentVars, founderVars, TypeOK, Phase
  <1>17. CASE Complete
    BY <1>17 DEF Complete, Miss, agentVars, founderVars, TypeOK, Phase
  <1>18. CASE Deliver
    BY <1>18 DEF Deliver, agentVars, founderVars, TypeOK, Phase
  <1>19. CASE StuckSweep
    BY <1>19 DEF StuckSweep, agentVars, founderVars, TypeOK, Phase
  <1>20. CASE Unblock
    BY <1>20 DEF Unblock, agentVars, founderVars, TypeOK, Phase
  <1>21. CASE SweepScan
    BY <1>21 DEF SweepScan, ExpiredRows, agentVars, founderVars, TypeOK, Phase
  <1>22. CASE ServerDies
    <2>1. MaxUpsets \in Nat
      BY Numbers
    <2>2. upsets' \in 0..MaxUpsets
      BY <1>22, <2>1 DEF ServerDies, Upset, TypeOK
    <2>3. QED
      BY <1>22, <2>2 DEF ServerDies, Upset, Miss, Outstanding, agentVars, founderVars, TypeOK, Phase
  <1>23. ASSUME NEW i \in Approval, NEW v \in {"approved", "rejected", "needs_review"}, Verdict(i, v)
        PROVE  TypeOK'
    BY <1>23 DEF Verdict, agentVars, founderVars, TypeOK, Phase, ApprovalStatus, Open, Decided
  <1>24. ASSUME NEW i \in Approval, TimePasses(i)
        PROVE  TypeOK'
    BY <1>24 DEF TimePasses, agentVars, founderVars, TypeOK, Phase
  <1>25. ASSUME NEW i \in Approval, SweepExpires(i)
        PROVE  TypeOK'
    BY <1>25 DEF SweepExpires, Expire, agentVars, founderVars, TypeOK, Phase, ApprovalStatus, Open, Decided
  <1>26. ASSUME NEW i \in Approval, NEW by \in {"route", "sweep"}, Signal(i, by)
        PROVE  TypeOK'
    BY <1>26 DEF Signal, TakesSignals, agentVars, founderVars, TypeOK, Phase
  <1>27. ASSUME NEW i \in Approval, NEW by \in {"route", "sweep"}, SignalFails(i, by)
        PROVE  TypeOK'
    BY <1>27 DEF SignalFails, TakesSignals, Undelivered, Miss, agentVars, founderVars, TypeOK, Phase
  <1>28. ASSUME NEW i \in Approval, Wake(i)
        PROVE  TypeOK'
    <2>1. MaxUpsets \in Nat
      BY Numbers
    <2>2. upsets' \in 0..MaxUpsets
      BY <1>28, <2>1 DEF Wake, Upset, TypeOK
    <2>3. QED
      BY <1>28, <2>2 DEF Wake, Upset, Miss, TerminalTask, agentVars, founderVars, TypeOK, Phase
  <1>29. ASSUME NEW i \in Approval, NoWake(i)
        PROVE  TypeOK'
    BY <1>29 DEF NoWake, Miss, agentVars, founderVars, TypeOK, Phase
  <1>30. CASE AgentStep
    BY <1>1, <1>2, <1>3, <1>4, <1>5, <1>6, <1>7, <1>8, <1>9, <1>10, <1>11, <1>12, <1>13, <1>14, <1>15, <1>16, <1>17, <1>30 DEF AgentStep
  <1>31. QED
    BY <1>18, <1>19, <1>20, <1>21, <1>22, <1>23, <1>24, <1>25, <1>26, <1>27, <1>28, <1>29, <1>30 DEF Next

-----------------------------------------------------------------------------
(* One step per action: the order of the rows                              *)

LEMMA CreatedHolds ==
    ASSUME TypeOK, Created, Next
    PROVE  Created'
  <1>1. CASE BeginStep
    <2>1. \A j \in Approval : ap'[j] # "none" <=> ap[j] # "none"
      BY <1>1 DEF BeginStep, agentVars, founderVars
    <2>2. turn' = "asking" => turn = "asking" \/ Latest < MaxApprovals
      BY <1>1 DEF BeginStep, agentVars, founderVars
    <2>3. QED
      BY <2>1, <2>2, CreatedStays
  <1>2. CASE BeginsInVain
    <2>1. \A j \in Approval : ap'[j] # "none" <=> ap[j] # "none"
      BY <1>2 DEF BeginsInVain, agentVars, founderVars
    <2>2. turn' = "asking" => turn = "asking" \/ Latest < MaxApprovals
      BY <1>2 DEF BeginsInVain, agentVars, founderVars
    <2>3. QED
      BY <2>1, <2>2, CreatedStays
  <1>3. CASE MoveTask
    <2>1. \A j \in Approval : ap'[j] # "none" <=> ap[j] # "none"
      BY <1>3 DEF MoveTask, NextStep, agentVars, founderVars
    <2>2. turn' = "asking" => turn = "asking" \/ Latest < MaxApprovals
      BY <1>3 DEF MoveTask, NextStep, agentVars, founderVars
    <2>3. QED
      BY <2>1, <2>2, CreatedStays
  <1>4. CASE EscalateAgain
    <2>1. \A j \in Approval : ap'[j] # "none" <=> ap[j] # "none"
      BY <1>4 DEF EscalateAgain, NextStep, agentVars, founderVars
    <2>2. turn' = "asking" => turn = "asking" \/ Latest < MaxApprovals
      BY <1>4 DEF EscalateAgain, NextStep, agentVars, founderVars
    <2>3. QED
      BY <2>1, <2>2, CreatedStays
  <1>5. CASE EscalateDecided
    <2>1. \A j \in Approval : ap'[j] # "none" <=> ap[j] # "none"
      BY <1>5 DEF EscalateDecided, NextStep, agentVars, founderVars
    <2>2. turn' = "asking" => turn = "asking" \/ Latest < MaxApprovals
      BY <1>5 DEF EscalateDecided, NextStep, agentVars, founderVars
    <2>3. QED
      BY <2>1, <2>2, CreatedStays
  <1>6. CASE Escalate
    <2>1. \A j \in Approval : ap'[j] # "none" <=> ap[j] # "none"
      BY <1>6 DEF Escalate, agentVars, founderVars
    <2>2. turn' = "asking" => turn = "asking" \/ Latest < MaxApprovals
      BY <1>6 DEF Escalate, agentVars, founderVars
    <2>3. QED
      BY <2>1, <2>2, CreatedStays
  <1>7. CASE CreateApproval
    <2>1. Latest < MaxApprovals /\ OpenNext /\ turn' # "asking"
      BY <1>7 DEF CreateApproval, Created
    <2>2. QED
      BY <2>1, CreatedNext
  <1>8. CASE WaitForApproval
    <2>1. \A j \in Approval : ap'[j] # "none" <=> ap[j] # "none"
      BY <1>8 DEF WaitForApproval, agentVars, founderVars
    <2>2. turn' = "asking" => turn = "asking" \/ Latest < MaxApprovals
      BY <1>8 DEF WaitForApproval, agentVars, founderVars
    <2>3. QED
      BY <2>1, <2>2, CreatedStays
  <1>9. CASE Park
    <2>1. \A j \in Approval : ap'[j] # "none" <=> ap[j] # "none"
      BY <1>9 DEF Park, agentVars, founderVars
    <2>2. turn' = "asking" => turn = "asking" \/ Latest < MaxApprovals
      BY <1>9 DEF Park, agentVars, founderVars
    <2>3. QED
      BY <2>1, <2>2, CreatedStays
  <1>10. CASE WaitEnds
    <2>1. \A j \in Approval : ap'[j] # "none" <=> ap[j] # "none"
      BY <1>10 DEF WaitEnds, agentVars, founderVars
    <2>2. turn' = "asking" => turn = "asking" \/ Latest < MaxApprovals
      BY <1>10 DEF WaitEnds, agentVars, founderVars
    <2>3. QED
      BY <2>1, <2>2, CreatedStays
  <1>11. CASE ExpireOwn
    <2>1. \A j \in Approval : ap'[j] # "none" <=> ap[j] # "none"
      BY <1>11 DEF ExpireOwn, Expire, Open, TypeOK, Approval
    <2>2. turn' = "asking" => turn = "asking" \/ Latest < MaxApprovals
      BY <1>11 DEF ExpireOwn, agentVars, founderVars
    <2>3. QED
      BY <2>1, <2>2, CreatedStays
  <1>12. CASE HoldCall
    <2>1. Latest < MaxApprovals /\ OpenNext /\ turn' # "asking"
      BY <1>12 DEF HoldCall, NextStep
    <2>2. QED
      BY <2>1, CreatedNext
  <1>13. CASE Submit
    <2>1. \A j \in Approval : ap'[j] # "none" <=> ap[j] # "none"
      BY <1>13 DEF Submit, agentVars, founderVars
    <2>2. turn' = "asking" => turn = "asking" \/ Latest < MaxApprovals
      BY <1>13 DEF Submit, agentVars, founderVars
    <2>3. QED
      BY <2>1, <2>2, CreatedStays
  <1>14. CASE TurnEnds
    <2>1. \A j \in Approval : ap'[j] # "none" <=> ap[j] # "none"
      BY <1>14 DEF TurnEnds, agentVars, founderVars
    <2>2. turn' = "asking" => turn = "asking" \/ Latest < MaxApprovals
      BY <1>14 DEF TurnEnds, agentVars, founderVars
    <2>3. QED
      BY <2>1, <2>2, CreatedStays
  <1>15. CASE Crash
    <2>1. \A j \in Approval : ap'[j] # "none" <=> ap[j] # "none"
      BY <1>15 DEF Crash, agentVars, founderVars
    <2>2. turn' = "asking" => turn = "asking" \/ Latest < MaxApprovals
      BY <1>15 DEF Crash, agentVars, founderVars
    <2>3. QED
      BY <2>1, <2>2, CreatedStays
  <1>16. CASE CloseSession
    <2>1. \A j \in Approval : ap'[j] # "none" <=> ap[j] # "none"
      BY <1>16 DEF CloseSession, agentVars, founderVars
    <2>2. turn' = "asking" => turn = "asking" \/ Latest < MaxApprovals
      BY <1>16 DEF CloseSession, agentVars, founderVars
    <2>3. QED
      BY <2>1, <2>2, CreatedStays
  <1>17. CASE Complete
    <2>1. \A j \in Approval : ap'[j] # "none" <=> ap[j] # "none"
      BY <1>17 DEF Complete, agentVars, founderVars
    <2>2. turn' = "asking" => turn = "asking" \/ Latest < MaxApprovals
      BY <1>17 DEF Complete, agentVars, founderVars
    <2>3. QED
      BY <2>1, <2>2, CreatedStays
  <1>18. CASE Deliver
    <2>1. \A j \in Approval : ap'[j] # "none" <=> ap[j] # "none"
      BY <1>18 DEF Deliver, agentVars, founderVars
    <2>2. turn' = "asking" => turn = "asking" \/ Latest < MaxApprovals
      BY <1>18 DEF Deliver, agentVars, founderVars
    <2>3. QED
      BY <2>1, <2>2, CreatedStays
  <1>19. CASE StuckSweep
    <2>1. \A j \in Approval : ap'[j] # "none" <=> ap[j] # "none"
      BY <1>19 DEF StuckSweep, agentVars, founderVars
    <2>2. turn' = "asking" => turn = "asking" \/ Latest < MaxApprovals
      BY <1>19 DEF StuckSweep, agentVars, founderVars
    <2>3. QED
      BY <2>1, <2>2, CreatedStays
  <1>20. CASE Unblock
    <2>1. \A j \in Approval : ap'[j] # "none" <=> ap[j] # "none"
      BY <1>20 DEF Unblock, agentVars, founderVars
    <2>2. turn' = "asking" => turn = "asking" \/ Latest < MaxApprovals
      BY <1>20 DEF Unblock, agentVars, founderVars
    <2>3. QED
      BY <2>1, <2>2, CreatedStays
  <1>21. CASE SweepScan
    <2>1. \A j \in Approval : ap'[j] # "none" <=> ap[j] # "none"
      BY <1>21 DEF SweepScan, agentVars, founderVars
    <2>2. turn' = "asking" => turn = "asking" \/ Latest < MaxApprovals
      BY <1>21 DEF SweepScan, agentVars, founderVars
    <2>3. QED
      BY <2>1, <2>2, CreatedStays
  <1>22. CASE ServerDies
    <2>1. \A j \in Approval : ap'[j] # "none" <=> ap[j] # "none"
      BY <1>22 DEF ServerDies, agentVars, founderVars
    <2>2. turn' = "asking" => turn = "asking" \/ Latest < MaxApprovals
      BY <1>22 DEF ServerDies, agentVars, founderVars
    <2>3. QED
      BY <2>1, <2>2, CreatedStays
  <1>23. ASSUME NEW i \in Approval, NEW v \in {"approved", "rejected", "needs_review"}, Verdict(i, v)
        PROVE  Created'
    <2>1. \A j \in Approval : ap'[j] # "none" <=> ap[j] # "none"
      BY <1>23 DEF Verdict, Open, TypeOK, Approval
    <2>2. turn' = "asking" => turn = "asking" \/ Latest < MaxApprovals
      BY <1>23 DEF Verdict, agentVars, founderVars
    <2>3. QED
      BY <2>1, <2>2, CreatedStays
  <1>24. ASSUME NEW i \in Approval, TimePasses(i)
        PROVE  Created'
    <2>1. \A j \in Approval : ap'[j] # "none" <=> ap[j] # "none"
      BY <1>24 DEF TimePasses, agentVars, founderVars
    <2>2. turn' = "asking" => turn = "asking" \/ Latest < MaxApprovals
      BY <1>24 DEF TimePasses, agentVars, founderVars
    <2>3. QED
      BY <2>1, <2>2, CreatedStays
  <1>25. ASSUME NEW i \in Approval, SweepExpires(i)
        PROVE  Created'
    <2>1. \A j \in Approval : ap'[j] # "none" <=> ap[j] # "none"
      BY <1>25 DEF SweepExpires, Expire, Open, TypeOK, Approval
    <2>2. turn' = "asking" => turn = "asking" \/ Latest < MaxApprovals
      BY <1>25 DEF SweepExpires, agentVars, founderVars
    <2>3. QED
      BY <2>1, <2>2, CreatedStays
  <1>26. ASSUME NEW i \in Approval, NEW by \in {"route", "sweep"}, Signal(i, by)
        PROVE  Created'
    <2>1. \A j \in Approval : ap'[j] # "none" <=> ap[j] # "none"
      BY <1>26 DEF Signal, agentVars, founderVars
    <2>2. turn' = "asking" => turn = "asking" \/ Latest < MaxApprovals
      BY <1>26 DEF Signal, agentVars, founderVars
    <2>3. QED
      BY <2>1, <2>2, CreatedStays
  <1>27. ASSUME NEW i \in Approval, NEW by \in {"route", "sweep"}, SignalFails(i, by)
        PROVE  Created'
    <2>1. \A j \in Approval : ap'[j] # "none" <=> ap[j] # "none"
      BY <1>27 DEF SignalFails, agentVars, founderVars
    <2>2. turn' = "asking" => turn = "asking" \/ Latest < MaxApprovals
      BY <1>27 DEF SignalFails, agentVars, founderVars
    <2>3. QED
      BY <2>1, <2>2, CreatedStays
  <1>28. ASSUME NEW i \in Approval, Wake(i)
        PROVE  Created'
    <2>1. \A j \in Approval : ap'[j] # "none" <=> ap[j] # "none"
      BY <1>28 DEF Wake, agentVars, founderVars
    <2>2. turn' = "asking" => turn = "asking" \/ Latest < MaxApprovals
      BY <1>28 DEF Wake, agentVars, founderVars
    <2>3. QED
      BY <2>1, <2>2, CreatedStays
  <1>29. ASSUME NEW i \in Approval, NoWake(i)
        PROVE  Created'
    <2>1. \A j \in Approval : ap'[j] # "none" <=> ap[j] # "none"
      BY <1>29 DEF NoWake, agentVars, founderVars
    <2>2. turn' = "asking" => turn = "asking" \/ Latest < MaxApprovals
      BY <1>29 DEF NoWake, agentVars, founderVars
    <2>3. QED
      BY <2>1, <2>2, CreatedStays
  <1>30. CASE AgentStep
    BY <1>1, <1>2, <1>3, <1>4, <1>5, <1>6, <1>7, <1>8, <1>9, <1>10, <1>11, <1>12, <1>13, <1>14, <1>15, <1>16, <1>17, <1>30 DEF AgentStep
  <1>31. QED
    BY <1>18, <1>19, <1>20, <1>21, <1>22, <1>23, <1>24, <1>25, <1>26, <1>27, <1>28, <1>29, <1>30 DEF Next

-----------------------------------------------------------------------------
(* One step per action: where the decisions are                            *)

LEMMA WayHolds ==
    ASSUME TypeOK, Created, OnItsWay, Next
    PROVE  OnItsWay'
  <1>1. CASE BeginStep
    <2>1. DecidedOnes' = DecidedOnes
      BY <1>1 DEF DecidedOnes, BeginStep, Reach, Miss, agentVars, founderVars
    <2>2. QED
      BY <1>1, <2>1 DEF OnItsWay, BeginStep, Reach, Miss, Outstanding, agentVars, founderVars, TypeOK
  <1>2. CASE BeginsInVain
    <2>1. DecidedOnes' = DecidedOnes
      BY <1>2 DEF DecidedOnes, BeginsInVain, Miss, agentVars, founderVars
    <2>2. QED
      BY <1>2, <2>1 DEF OnItsWay, BeginsInVain, Miss, Outstanding, agentVars, founderVars
  <1>3. CASE MoveTask
    <2>1. DecidedOnes' = DecidedOnes
      BY <1>3 DEF DecidedOnes, MoveTask, NextStep, agentVars, founderVars
    <2>2. QED
      BY <1>3, <2>1 DEF OnItsWay, MoveTask, NextStep, Outstanding, agentVars, founderVars
  <1>4. CASE EscalateAgain
    <2>1. DecidedOnes' = DecidedOnes
      BY <1>4 DEF DecidedOnes, EscalateAgain, NextStep, agentVars, founderVars
    <2>2. QED
      BY <1>4, <2>1 DEF OnItsWay, EscalateAgain, NextStep, Outstanding, agentVars, founderVars
  <1>5. CASE EscalateDecided
    <2>1. DecidedOnes' = DecidedOnes
      BY <1>5 DEF DecidedOnes, EscalateDecided, Reach, NextStep, agentVars, founderVars
    <2>2. QED
      BY <1>5, <2>1 DEF OnItsWay, EscalateDecided, Reach, NextStep, Outstanding, agentVars, founderVars
  <1>6. CASE Escalate
    <2>1. DecidedOnes' = DecidedOnes
      BY <1>6 DEF DecidedOnes, Escalate, agentVars, founderVars
    <2>2. QED
      BY <1>6, <2>1 DEF OnItsWay, Escalate, Outstanding, agentVars, founderVars
  <1>7. CASE CreateApproval
    <2>1. Latest < MaxApprovals /\ OpenNext /\ turn' # "asking"
      BY <1>7 DEF CreateApproval, Created
    <2>2. ap[Latest + 1] = "none" /\ Latest + 1 \in Approval
      BY <2>1, CreatedNext
    <2>3. DecidedOnes' = DecidedOnes
      BY <2>1, <2>2 DEF OpenNext, DecidedOnes, Decided, TypeOK
    <2>4. QED
      BY <1>7, <2>3 DEF CreateApproval, OnItsWay, Outstanding, agentVars, founderVars
  <1>8. CASE WaitForApproval
    <2>1. DecidedOnes' = DecidedOnes
      BY <1>8 DEF DecidedOnes, WaitForApproval, Reach, agentVars, founderVars
    <2>2. QED
      BY <1>8, <2>1 DEF OnItsWay, WaitForApproval, Reach, Outstanding, agentVars, founderVars
  <1>9. CASE Park
    <2>1. DecidedOnes' = DecidedOnes
      BY <1>9 DEF DecidedOnes, Park, agentVars, founderVars
    <2>2. QED
      BY <1>9, <2>1 DEF OnItsWay, Park, Outstanding, agentVars, founderVars
  <1>10. CASE WaitEnds
    <2>1. DecidedOnes' = DecidedOnes
      BY <1>10 DEF DecidedOnes, WaitEnds, Resumed, agentVars, founderVars
    <2>2. QED
      BY <1>10, <2>1 DEF OnItsWay, WaitEnds, Resumed, Outstanding, agentVars, founderVars
  <1>11. CASE ExpireOwn
    <2>1. DecidedOnes' \subseteq DecidedOnes \cup {on}
      BY <1>11 DEF ExpireOwn, DecidedOnes, TypeOK
    <2>2. QED
      BY <1>11, <2>1 DEF OnItsWay, ExpireOwn, Resumed, Outstanding, agentVars, founderVars
  <1>12. CASE HoldCall
    <2>1. Latest < MaxApprovals /\ OpenNext /\ turn' # "asking"
      BY <1>12 DEF HoldCall, NextStep
    <2>2. ap[Latest + 1] = "none" /\ Latest + 1 \in Approval
      BY <2>1, CreatedNext
    <2>3. DecidedOnes' = DecidedOnes
      BY <2>1, <2>2 DEF OpenNext, DecidedOnes, Decided, TypeOK
    <2>4. QED
      BY <1>12, <2>3 DEF HoldCall, NextStep, OnItsWay, Outstanding, agentVars, founderVars
  <1>13. CASE Submit
    <2>1. DecidedOnes' = DecidedOnes
      BY <1>13 DEF DecidedOnes, Submit, agentVars, founderVars
    <2>2. QED
      BY <1>13, <2>1 DEF OnItsWay, Submit, Outstanding, agentVars, founderVars
  <1>14. CASE TurnEnds
    <2>1. DecidedOnes' = DecidedOnes
      BY <1>14 DEF DecidedOnes, TurnEnds, agentVars, founderVars
    <2>2. QED
      BY <1>14, <2>1 DEF OnItsWay, TurnEnds, Outstanding, agentVars, founderVars
  <1>15. CASE Crash
    <2>1. DecidedOnes' = DecidedOnes
      BY <1>15 DEF DecidedOnes, Crash, Upset, Miss, agentVars, founderVars
    <2>2. QED
      BY <1>15, <2>1 DEF OnItsWay, Crash, Upset, Miss, Outstanding, agentVars, founderVars
  <1>16. CASE CloseSession
    <2>1. DecidedOnes' = DecidedOnes
      BY <1>16 DEF DecidedOnes, CloseSession, agentVars, founderVars
    <2>2. QED
      BY <1>16, <2>1 DEF OnItsWay, CloseSession, Outstanding, agentVars, founderVars
  <1>17. CASE Complete
    <2>1. DecidedOnes' = DecidedOnes
      BY <1>17 DEF DecidedOnes, Complete, Miss, agentVars, founderVars
    <2>2. QED
      BY <1>17, <2>1 DEF OnItsWay, Complete, Miss, Outstanding, agentVars, founderVars, TypeOK
  <1>18. CASE Deliver
    <2>1. DecidedOnes' = DecidedOnes
      BY <1>18 DEF DecidedOnes, Deliver, agentVars, founderVars
    <2>2. QED
      BY <1>18, <2>1 DEF OnItsWay, Deliver, Outstanding, agentVars, founderVars
  <1>19. CASE StuckSweep
    <2>1. DecidedOnes' = DecidedOnes
      BY <1>19 DEF DecidedOnes, StuckSweep, agentVars, founderVars
    <2>2. QED
      BY <1>19, <2>1 DEF OnItsWay, StuckSweep, Outstanding, agentVars, founderVars
  <1>20. CASE Unblock
    <2>1. DecidedOnes' = DecidedOnes
      BY <1>20 DEF DecidedOnes, Unblock, agentVars, founderVars
    <2>2. QED
      BY <1>20, <2>1 DEF OnItsWay, Unblock, Outstanding, agentVars, founderVars
  <1>21. CASE SweepScan
    <2>1. DecidedOnes' = DecidedOnes
      BY <1>21 DEF DecidedOnes, SweepScan, agentVars, founderVars
    <2>2. QED
      BY <1>21, <2>1 DEF OnItsWay, SweepScan, Outstanding, agentVars, founderVars
  <1>22. CASE ServerDies
    <2>1. DecidedOnes' = DecidedOnes
      BY <1>22 DEF DecidedOnes, ServerDies, Upset, Miss, agentVars, founderVars
    <2>2. QED
      BY <1>22, <2>1 DEF OnItsWay, ServerDies, Upset, Miss, Outstanding, agentVars, founderVars
  <1>23. ASSUME NEW i \in Approval, NEW v \in {"approved", "rejected", "needs_review"}, Verdict(i, v)
        PROVE  OnItsWay'
    <2>1. DecidedOnes' \subseteq DecidedOnes \cup {i}
      BY <1>23 DEF Verdict, DecidedOnes, TypeOK
    <2>2. wakes' = wakes /\ post \subseteq post' /\ (<<i, "route">> \in post')
      BY <1>23 DEF Verdict
    <2>3. Outstanding \subseteq Outstanding'
      BY <2>2 DEF Outstanding
    <2>4. i \in Outstanding'
      <3>1. <<i, "route">>[1] = i
        OBVIOUS
      <3>2. QED
        BY <2>2, <3>1 DEF Outstanding
    <2>5. QED
      BY <1>23, <2>1, <2>3, <2>4 DEF OnItsWay, Verdict, agentVars
  <1>24. ASSUME NEW i \in Approval, TimePasses(i)
        PROVE  OnItsWay'
    <2>1. DecidedOnes' = DecidedOnes
      BY <1>24 DEF DecidedOnes, TimePasses, agentVars, founderVars
    <2>2. QED
      BY <1>24, <2>1 DEF OnItsWay, TimePasses, Outstanding, agentVars, founderVars
  <1>25. ASSUME NEW i \in Approval, SweepExpires(i)
        PROVE  OnItsWay'
    <2>1. DecidedOnes' \subseteq DecidedOnes \cup (IF ap'[i] = ap[i] THEN {} ELSE {i})
      BY <1>25 DEF SweepExpires, DecidedOnes, TypeOK
    <2>2. wakes' = wakes /\ post \subseteq post' /\ (ap'[i] # ap[i] => <<i, "sweep">> \in post')
      BY <1>25 DEF SweepExpires
    <2>3. Outstanding \subseteq Outstanding'
      BY <2>2 DEF Outstanding
    <2>4. ap'[i] # ap[i] => i \in Outstanding'
      <3>1. <<i, "sweep">>[1] = i
        OBVIOUS
      <3>2. QED
        BY <2>2, <3>1 DEF Outstanding
    <2>5. QED
      BY <1>25, <2>1, <2>3, <2>4 DEF OnItsWay, SweepExpires, agentVars
  <1>26. ASSUME NEW i \in Approval, NEW by \in {"route", "sweep"}, Signal(i, by)
        PROVE  OnItsWay'
    <2>1. DecidedOnes' = DecidedOnes
      BY <1>26 DEF DecidedOnes, Signal, TakesSignals, agentVars, founderVars
    <2>2. QED
      BY <1>26, <2>1 DEF OnItsWay, Signal, TakesSignals, Outstanding, agentVars, founderVars
  <1>27. ASSUME NEW i \in Approval, NEW by \in {"route", "sweep"}, SignalFails(i, by)
        PROVE  OnItsWay'
    <2>1. DecidedOnes' = DecidedOnes
      BY <1>27 DEF DecidedOnes, SignalFails, TakesSignals, Undelivered, Miss, agentVars, founderVars
    <2>2. QED
      BY <1>27, <2>1 DEF OnItsWay, SignalFails, TakesSignals, Undelivered, Miss, Outstanding, agentVars, founderVars
  <1>28. ASSUME NEW i \in Approval, Wake(i)
        PROVE  OnItsWay'
    <2>1. DecidedOnes' = DecidedOnes
      BY <1>28 DEF DecidedOnes, Wake, Upset, Miss, agentVars, founderVars
    <2>2. QED
      BY <1>28, <2>1 DEF OnItsWay, Wake, Upset, Miss, Outstanding, agentVars, founderVars, TypeOK
  <1>29. ASSUME NEW i \in Approval, NoWake(i)
        PROVE  OnItsWay'
    <2>1. DecidedOnes' = DecidedOnes
      BY <1>29 DEF DecidedOnes, NoWake, Miss, agentVars, founderVars
    <2>2. QED
      BY <1>29, <2>1 DEF OnItsWay, NoWake, Miss, Outstanding, agentVars, founderVars, TypeOK
  <1>30. CASE AgentStep
    BY <1>1, <1>2, <1>3, <1>4, <1>5, <1>6, <1>7, <1>8, <1>9, <1>10, <1>11, <1>12, <1>13, <1>14, <1>15, <1>16, <1>17, <1>30 DEF AgentStep
  <1>31. QED
    BY <1>18, <1>19, <1>20, <1>21, <1>22, <1>23, <1>24, <1>25, <1>26, <1>27, <1>28, <1>29, <1>30 DEF Next

-----------------------------------------------------------------------------
(* One step per action: what is decided                                    *)

LEMMA DecidedStays ==
    ASSUME TypeOK, Created, Next
    PROVE  \A j \in Approval : ap[j] \in Decided => ap'[j] = ap[j]
  <1>1. CASE BeginStep
    BY <1>1 DEF BeginStep, agentVars, founderVars
  <1>2. CASE BeginsInVain
    BY <1>2 DEF BeginsInVain, agentVars, founderVars
  <1>3. CASE MoveTask
    BY <1>3 DEF MoveTask, agentVars, founderVars
  <1>4. CASE EscalateAgain
    BY <1>4 DEF EscalateAgain, agentVars, founderVars
  <1>5. CASE EscalateDecided
    BY <1>5 DEF EscalateDecided, agentVars, founderVars
  <1>6. CASE Escalate
    BY <1>6 DEF Escalate, agentVars, founderVars
  <1>7. CASE CreateApproval
    <2>1. Latest < MaxApprovals /\ OpenNext /\ turn' # "asking"
      BY <1>7 DEF CreateApproval, Created
    <2>2. ap[Latest + 1] = "none" /\ Latest + 1 \in Approval
      BY <2>1, CreatedNext
    <2>3. QED
      BY <2>1, <2>2 DEF OpenNext, Decided, TypeOK
  <1>8. CASE WaitForApproval
    BY <1>8 DEF WaitForApproval, agentVars, founderVars
  <1>9. CASE Park
    BY <1>9 DEF Park, agentVars, founderVars
  <1>10. CASE WaitEnds
    BY <1>10 DEF WaitEnds, agentVars, founderVars
  <1>11. CASE ExpireOwn
    BY <1>11 DEF ExpireOwn, Expire, Open, Decided, TypeOK
  <1>12. CASE HoldCall
    <2>1. Latest < MaxApprovals /\ OpenNext /\ turn' # "asking"
      BY <1>12 DEF HoldCall, NextStep
    <2>2. ap[Latest + 1] = "none" /\ Latest + 1 \in Approval
      BY <2>1, CreatedNext
    <2>3. QED
      BY <2>1, <2>2 DEF OpenNext, Decided, TypeOK
  <1>13. CASE Submit
    BY <1>13 DEF Submit, agentVars, founderVars
  <1>14. CASE TurnEnds
    BY <1>14 DEF TurnEnds, agentVars, founderVars
  <1>15. CASE Crash
    BY <1>15 DEF Crash, agentVars, founderVars
  <1>16. CASE CloseSession
    BY <1>16 DEF CloseSession, agentVars, founderVars
  <1>17. CASE Complete
    BY <1>17 DEF Complete, agentVars, founderVars
  <1>18. CASE Deliver
    BY <1>18 DEF Deliver, agentVars, founderVars
  <1>19. CASE StuckSweep
    BY <1>19 DEF StuckSweep, agentVars, founderVars
  <1>20. CASE Unblock
    BY <1>20 DEF Unblock, agentVars, founderVars
  <1>21. CASE SweepScan
    BY <1>21 DEF SweepScan, agentVars, founderVars
  <1>22. CASE ServerDies
    BY <1>22 DEF ServerDies, agentVars, founderVars
  <1>23. ASSUME NEW i \in Approval, NEW v \in {"approved", "rejected", "needs_review"}, Verdict(i, v)
        PROVE  \A j \in Approval : ap[j] \in Decided => ap'[j] = ap[j]
    BY <1>23 DEF Verdict, Open, Decided, TypeOK
  <1>24. ASSUME NEW i \in Approval, TimePasses(i)
        PROVE  \A j \in Approval : ap[j] \in Decided => ap'[j] = ap[j]
    BY <1>24 DEF TimePasses, agentVars, founderVars
  <1>25. ASSUME NEW i \in Approval, SweepExpires(i)
        PROVE  \A j \in Approval : ap[j] \in Decided => ap'[j] = ap[j]
    BY <1>25 DEF SweepExpires, Expire, Open, Decided, TypeOK
  <1>26. ASSUME NEW i \in Approval, NEW by \in {"route", "sweep"}, Signal(i, by)
        PROVE  \A j \in Approval : ap[j] \in Decided => ap'[j] = ap[j]
    BY <1>26 DEF Signal, agentVars, founderVars
  <1>27. ASSUME NEW i \in Approval, NEW by \in {"route", "sweep"}, SignalFails(i, by)
        PROVE  \A j \in Approval : ap[j] \in Decided => ap'[j] = ap[j]
    BY <1>27 DEF SignalFails, agentVars, founderVars
  <1>28. ASSUME NEW i \in Approval, Wake(i)
        PROVE  \A j \in Approval : ap[j] \in Decided => ap'[j] = ap[j]
    BY <1>28 DEF Wake, agentVars, founderVars
  <1>29. ASSUME NEW i \in Approval, NoWake(i)
        PROVE  \A j \in Approval : ap[j] \in Decided => ap'[j] = ap[j]
    BY <1>29 DEF NoWake, agentVars, founderVars
  <1>30. CASE AgentStep
    BY <1>1, <1>2, <1>3, <1>4, <1>5, <1>6, <1>7, <1>8, <1>9, <1>10, <1>11, <1>12, <1>13, <1>14, <1>15, <1>16, <1>17, <1>30 DEF AgentStep
  <1>31. QED
    BY <1>18, <1>19, <1>20, <1>21, <1>22, <1>23, <1>24, <1>25, <1>26, <1>27, <1>28, <1>29, <1>30 DEF Next

-----------------------------------------------------------------------------
(* The theorems                                                            *)

LEMMA InitHolds == Init => IInv
  <1>1. SUFFICES ASSUME Init
                 PROVE  IInv
    OBVIOUS
  <1>2. {i \in Approval : ap[i] # "none"} = {}
    BY <1>1 DEF Init
  <1>3. Latest = 0 /\ 1..0 = {} /\ 0 \in 0..MaxApprovals /\ 0 \in 0..MaxUpsets
    BY <1>2, FS_EmptySet, Numbers DEF Latest
  <1>4. Created
    BY <1>1, <1>2, <1>3 DEF Created, Init
  <1>5. TypeOK
    BY <1>1, <1>3 DEF Init, TypeOK, Phase, ApprovalStatus
  <1>6. DecidedOnes = {}
    BY <1>1 DEF Init, DecidedOnes, Decided
  <1>7. OnItsWay
    BY <1>1, <1>6 DEF Init, OnItsWay
  <1>8. QED
    BY <1>4, <1>5, <1>7 DEF IInv

LEMMA StepHolds == IInv /\ [Next]_vars => IInv'
  <1>1. SUFFICES ASSUME IInv, [Next]_vars
                 PROVE  IInv'
    OBVIOUS
  <1>2. CASE Next
    <2>1. TypeOK /\ Created /\ OnItsWay
      BY <1>1 DEF IInv
    <2>2. TypeOK'
      BY <1>2, <2>1, TypeHolds
    <2>3. Created'
      BY <1>2, <2>1, CreatedHolds
    <2>4. OnItsWay'
      BY <1>2, <2>1, WayHolds
    <2>5. QED
      BY <2>2, <2>3, <2>4 DEF IInv
  <1>3. CASE UNCHANGED vars
    <2>1. UNCHANGED <<task, cli, turn, on, slot, ap, due, scan, post, wakes, upsets, reached, missed>>
      BY <1>3 DEF vars, agentVars, founderVars
    <2>2. TypeOK'
      BY <1>1, <2>1 DEF IInv, TypeOK
    <2>3. Latest' = Latest /\ DecidedOnes' = DecidedOnes /\ Outstanding' = Outstanding
      BY <2>1 DEF Latest, DecidedOnes, Outstanding
    <2>4. Created' /\ OnItsWay'
      BY <1>1, <2>1, <2>3 DEF IInv, Created, OnItsWay
    <2>5. QED
      BY <2>2, <2>4 DEF IInv
  <1>4. QED
    BY <1>1, <1>2, <1>3

\* Every approval of a task is where the code's own order of steps puts it: created
\* after the ones before it, and, once it is decided, reached, given up, with the
\* server, in the signal's slot, or before the agent's next step.
THEOREM ApprovalsHold == Spec => []IInv
  <1>1. Init => IInv
    BY InitHolds
  <1>2. IInv /\ [Next]_vars => IInv'
    BY StepHolds
  <1>3. QED
    BY <1>1, <1>2, PTL DEF Spec

\* The rows, the signal and the turn hold only what their columns and types allow.
THEOREM TypeCorrect == Spec => []TypeOK
  <1>1. IInv => TypeOK
    BY DEF IInv
  <1>2. QED
    BY <1>1, ApprovalsHold, PTL

\* approvals.ts: verdict, the sweep, the workflow's own timer and a gateway that opens
\* another approval leave a decision as it was made.
THEOREM DecisionsStand == Spec => DecidedIsFinal
  <1>1. IInv /\ [Next]_vars => [\A i \in Approval : ap[i] \in Decided => ap'[i] = ap[i]]_vars
    BY DecidedStays DEF IInv
  <1>2. QED
    BY <1>1, ApprovalsHold, PTL DEF Spec, DecidedIsFinal

\* approval-wake.ts and the verdict's signal: when nothing is under way any more, a
\* decision has come to a step of the agent or one of the named deliveries has lost it.
THEOREM DecisionsArrive == Spec => []DecisionIsDelivered
  <1>1. IInv => DecisionIsDelivered
    <2>1. SUFFICES ASSUME IInv, turn = "none", post = {}, wakes = {}
                   PROVE  DecidedOnes \subseteq reached \cup missed
      BY DEF DecisionIsDelivered
    <2>2. Outstanding = {} /\ slot = {}
      BY <2>1 DEF Outstanding, IInv, OnItsWay
    <2>3. QED
      BY <2>1, <2>2 DEF IInv, OnItsWay
  <1>2. QED
    BY <1>1, ApprovalsHold, PTL
==================================================================================

----------------------------- MODULE AgentTurns_proof -----------------------------
(***************************************************************************)
(* An agent works on two tasks only by the race of two starts, and no turn *)
(* leaves a task in progress without a word, for any agents, tasks, trees, *)
(* runtimes and mishaps.                                                   *)
(***************************************************************************)
EXTENDS AgentTurns, TLAPS

-----------------------------------------------------------------------------
(* The inductive invariant                                                 *)

UnderWay == {"queued", "step", "parked", "closing"}

\* The task has a turn that is starting or has a row, or a row that outlived one.
Present(t) == \E id \in OfTask(t) : run[id] \in UnderWay \/ id \in leaked

\* Somebody is in the middle of a turn on it.
Stands(t) == \E id \in OfTask(t) : run[id] \in {"step", "parked"}

\* Rows that outlive their workflow keep the gate shut, but not for their own task:
\* they count as well.
OneTaskAnAgent ==
    \A t, u \in Task :
        t # u /\ Owner[t] = Owner[u] /\ Present(t) /\ Present(u) => {t, u} \cap raced # {}

\* A run that is queued or closing answers for nothing.
Accounted ==
    \A t \in Task : status[t] = "IN_PROGRESS" => Stands(t) \/ t \in dropped

IInv == TypeOK /\ OneTaskAnAgent /\ Accounted

-----------------------------------------------------------------------------
(* A start, and a step of a turn                                           *)

LEMMA IdsOfTasks ==
    /\ \A id \in Id : id[1] \in Task /\ id \in OfTask(id[1])
    /\ \A t \in Task : \A id \in OfTask(t) : id \in Id /\ id[1] = t
    /\ \A t \in Task : <<t, "main">> \in Id /\ <<t, "rework">> \in Id
  BY DEF Id, OfTask

\* Whatever the gate says, ids that do not run are queued and the others stay.
LEMMA StartDoes ==
    ASSUME TypeOK, NEW ids, ids \subseteq Id, Start(ids)
    PROVE  /\ run' \in [Id -> Phase] /\ raced' \subseteq Task /\ raced \subseteq raced'
           /\ \A id \in Id : run'[id] = run[id] \/ (run[id] = "none" /\ run'[id] = "queued")
  <1> DEFINE passed == {id \in ids : GateOpen(id[1]) /\ ~Running(id)}
  <1>1. /\ run' = [id \in Id |-> IF id \in passed THEN "queued" ELSE run[id]]
        /\ raced' = raced \cup
             {id[1] : id \in {i \in passed :
                \E other \in Id \ OfTask(i[1]) :
                    AgentOf(other) = AgentOf(i) /\ (other \in passed \/ run[other] = "queued")}}
    BY DEF Start
  <1>2. passed \subseteq Id /\ \A id \in passed : run[id] = "none"
    BY DEF Running
  <1> HIDE DEF passed
  <1>3. run \in [Id -> Phase] /\ raced \subseteq Task
    BY DEF TypeOK
  <1>4. run' \in [Id -> Phase]
    BY <1>1, <1>3 DEF Phase
  <1>5. raced' \subseteq Task /\ raced \subseteq raced'
    BY <1>1, <1>2, <1>3, IdsOfTasks
  <1>6. \A id \in Id : run'[id] = run[id] \/ (run[id] = "none" /\ run'[id] = "queued")
    BY <1>1, <1>2
  <1>7. QED
    BY <1>4, <1>5, <1>6

\* Who comes to an agent that is busy passed the gate on a row of its own task, or
\* before the other one had a row.
LEMMA StartIsNoticed ==
    ASSUME TypeOK, NEW ids, ids \subseteq Id, Start(ids), leaked' = leaked,
           NEW t \in Task, NEW u \in Task, t # u, Owner[t] = Owner[u],
           ~ Present(t), Present(t)', Present(u)'
    PROVE  t \in raced'
  <1> DEFINE passed == {id \in ids : GateOpen(id[1]) /\ ~Running(id)}
  <1>1. /\ run' = [id \in Id |-> IF id \in passed THEN "queued" ELSE run[id]]
        /\ raced' = raced \cup
             {id[1] : id \in {i \in passed :
                \E other \in Id \ OfTask(i[1]) :
                    AgentOf(other) = AgentOf(i) /\ (other \in passed \/ run[other] = "queued")}}
    BY DEF Start
  <1>2. PICK id \in OfTask(t) : id \in Id /\ id[1] = t /\ run'[id] # run[id]
    <2>1. PICK id \in OfTask(t) : run'[id] \in UnderWay \/ id \in leaked'
      BY DEF Present
    <2>2. run[id] \notin UnderWay /\ id \notin leaked
      BY DEF Present
    <2>3. QED
      BY <2>1, <2>2, IdsOfTasks
  <1>3. id \in passed /\ GateOpen(t)
    BY <1>1, <1>2
  <1>4. ~ LiveOn(t)
    BY DEF LiveOn, LiveRow, HasRow, Present, UnderWay
  <1>5. \A other \in Id : AgentOf(other) = Owner[t] => ~ LiveRow(other)
    BY <1>3, <1>4 DEF GateOpen
  <1>6. PICK other \in OfTask(u) : run'[other] \in UnderWay \/ other \in leaked'
    BY DEF Present
  <1>7. other \in Id \ OfTask(t) /\ AgentOf(other) = AgentOf(id) /\ AgentOf(id) = Owner[t]
    BY <1>2, IdsOfTasks DEF AgentOf
  <1>8. other \in passed \/ run[other] = "queued"
    BY <1>1, <1>5, <1>6, <1>7 DEF LiveRow, HasRow, UnderWay
  <1>9. QED
    BY <1>1, <1>2, <1>3, <1>7, <1>8

LEMMA StartKeeps ==
    ASSUME IInv, NEW ids, ids \subseteq Id, Start(ids) \/ NoStart, leaked' = leaked,
           dropped \subseteq dropped',
           \A t \in Task : status'[t] = "IN_PROGRESS" =>
              status[t] = "IN_PROGRESS" \/ t \in dropped'
    PROVE  /\ run' \in [Id -> Phase] /\ raced' \subseteq Task
           /\ OneTaskAnAgent' /\ Accounted'
  <1>1. TypeOK /\ OneTaskAnAgent /\ Accounted
    BY DEF IInv
  <1>2. /\ run' \in [Id -> Phase] /\ raced' \subseteq Task /\ raced \subseteq raced'
        /\ \A id \in Id : run'[id] = run[id] \/ (run[id] = "none" /\ run'[id] = "queued")
    <2>1. CASE Start(ids)
      BY <1>1, <2>1, StartDoes
    <2>2. CASE NoStart
      BY <1>1, <2>2 DEF NoStart, TypeOK
    <2>3. QED
      BY <2>1, <2>2
  <1>3. OneTaskAnAgent'
    <2>1. SUFFICES ASSUME NEW t \in Task, NEW u \in Task, t # u, Owner[t] = Owner[u],
                          Present(t)', Present(u)'
                   PROVE  {t, u} \cap raced' # {}
      BY DEF OneTaskAnAgent
    <2>2. CASE Present(t) /\ Present(u)
      BY <1>1, <1>2, <2>1, <2>2 DEF OneTaskAnAgent
    <2>3. CASE ~ (Present(t) /\ Present(u))
      <3>1. Start(ids)
        <4>1. NoStart => (Present(t)' => Present(t)) /\ (Present(u)' => Present(u))
          BY DEF NoStart, Present
        <4>2. QED
          BY <2>1, <2>3, <4>1
      <3>2. t \in raced' \/ u \in raced'
        BY <1>1, <2>1, <2>3, <3>1, StartIsNoticed
      <3>3. QED
        BY <3>2
    <2>4. QED
      BY <2>2, <2>3
  <1>4. Accounted'
    <2>1. SUFFICES ASSUME NEW t \in Task, status'[t] = "IN_PROGRESS", t \notin dropped'
                   PROVE  Stands(t)'
      BY DEF Accounted
    <2>2. Stands(t)
      BY <1>1, <2>1 DEF Accounted
    <2>3. PICK id \in OfTask(t) : run[id] \in {"step", "parked"}
      BY <2>2 DEF Stands
    <2>4. run'[id] = run[id]
      BY <1>2, <2>3, IdsOfTasks
    <2>5. QED
      BY <2>3, <2>4 DEF Stands
  <1>5. QED
    BY <1>2, <1>3, <1>4

\* One run goes on to phase p.  Its task leaves the history of races with its last
\* run and row, and goes on being accounted for.
LEMMA TurnKeeps ==
    ASSUME IInv, NEW id \in Id, NEW p \in Phase, run' = [run EXCEPT ![id] = p],
           leaked' \subseteq leaked \cup {id},
           p \in UnderWay \/ id \in leaked' => Present(id[1]),
           raced \ {id[1]} \subseteq raced', raced' \subseteq raced,
           id[1] \in raced \ raced' => ~ Present(id[1])',
           \A t \in Task : t # id[1] => /\ status'[t] = status[t]
                                        /\ t \in dropped => t \in dropped',
           \/ status'[id[1]] # "IN_PROGRESS"
           \/ p \in {"step", "parked"}
           \/ id[1] \in dropped'
           \/ /\ status'[id[1]] = status[id[1]] /\ dropped' = dropped
              /\ run[id] \notin {"step", "parked"}
    PROVE  /\ run' \in [Id -> Phase] /\ raced' \subseteq Task
           /\ OneTaskAnAgent' /\ Accounted'
  <1>1. TypeOK /\ OneTaskAnAgent /\ Accounted
    BY DEF IInv
  <1>2. /\ run' \in [Id -> Phase] /\ raced' \subseteq Task
        /\ \A j \in Id : run'[j] = IF j = id THEN p ELSE run[j]
    BY <1>1 DEF TypeOK
  <1>3. \A t \in Task : Present(t)' => Present(t)
    <2>1. SUFFICES ASSUME NEW t \in Task, Present(t)'
                   PROVE  Present(t)
      OBVIOUS
    <2>2. PICK j \in OfTask(t) : run'[j] \in UnderWay \/ j \in leaked'
      BY <2>1 DEF Present
    <2>3. j \in Id /\ j[1] = t
      BY <2>2, IdsOfTasks
    <2>4. CASE j = id
      BY <1>2, <2>2, <2>3, <2>4
    <2>5. CASE j # id
      BY <1>2, <2>2, <2>3, <2>5 DEF Present
    <2>6. QED
      BY <2>4, <2>5
  <1>4. OneTaskAnAgent'
    <2>1. SUFFICES ASSUME NEW t \in Task, NEW u \in Task, t # u, Owner[t] = Owner[u],
                          Present(t)', Present(u)'
                   PROVE  {t, u} \cap raced' # {}
      BY DEF OneTaskAnAgent
    <2>2. {t, u} \cap raced # {}
      BY <1>1, <1>3, <2>1 DEF OneTaskAnAgent
    <2>3. \A v \in {t, u} : v \in raced => v \in raced'
      BY <2>1
    <2>4. QED
      BY <2>2, <2>3
  <1>5. Accounted'
    <2>1. SUFFICES ASSUME NEW t \in Task, status'[t] = "IN_PROGRESS", t \notin dropped'
                   PROVE  Stands(t)'
      BY DEF Accounted
    <2>2. CASE t = id[1] /\ p \in {"step", "parked"}
      BY <1>2, <2>2, IdsOfTasks DEF Stands
    <2>3. CASE ~ (t = id[1] /\ p \in {"step", "parked"})
      <3>1. /\ status[t] = "IN_PROGRESS" /\ t \notin dropped
            /\ t = id[1] => run[id] \notin {"step", "parked"}
        BY <2>1, <2>3
      <3>2. PICK j \in OfTask(t) : run[j] \in {"step", "parked"}
        BY <1>1, <3>1 DEF Accounted, Stands
      <3>3. j \in Id /\ j # id
        BY <3>1, <3>2, IdsOfTasks
      <3>4. QED
        BY <1>2, <3>2, <3>3 DEF Stands
    <2>4. QED
      BY <2>2, <2>3
  <1>6. QED
    BY <1>2, <1>4, <1>5

-----------------------------------------------------------------------------
(* The actions, one by one                                                 *)

LEMMA Statuses ==
    /\ {"PLANNED", "ASSIGNED", "IN_PROGRESS", "WAITING", "BLOCKED", "REVIEW", "DONE",
        "CHANGES_REQUESTED", "QA_FAILED"} \subseteq TaskStatus
    /\ {"none", "queued", "step", "parked", "closing", "closed"} = Phase
    /\ \A u \in 0..MaxUpsets : u + 1 \in Nat /\ (u < MaxUpsets => u + 1 \in 0..MaxUpsets)
  <1>1. MaxUpsets \in Nat
    BY TurnsAssumption DEF TurnsAssumption
  <1>2. QED
    BY <1>1 DEF TaskStatus, Phase

\* The history of a race ends when the task has no turn and no row left.
LEMMA OverDoes ==
    ASSUME TypeOK, NEW id \in Id, Over(id), leaked' = leaked
    PROVE  /\ run' = [run EXCEPT ![id] = "none"]
           /\ raced \ {id[1]} \subseteq raced' /\ raced' \subseteq raced
           /\ id[1] \in raced \ raced' => ~ Present(id[1])'
  <1>1. /\ run' = [run EXCEPT ![id] = "none"]
        /\ raced \ {id[1]} \subseteq raced' /\ raced' \subseteq raced
    BY DEF Over
  <1>2. ASSUME id[1] \in raced \ raced'
        PROVE  ~ Present(id[1])'
    <2>1. /\ \A other \in OfTask(id[1]) \ {id} : run[other] = "none"
          /\ OfTask(id[1]) \cap leaked = {}
      <3>1. CASE \/ \E other \in OfTask(id[1]) \ {id} : Running(other)
                 \/ OfTask(id[1]) \cap leaked # {}
        <4>1. raced' = raced
          BY <3>1 DEF Over
        <4>2. QED
          BY <1>2, <4>1
      <3>2. CASE ~ (\/ \E other \in OfTask(id[1]) \ {id} : Running(other)
                   \/ OfTask(id[1]) \cap leaked # {})
        BY <3>2 DEF Running
      <3>3. QED
        BY <3>1, <3>2
    <2>2. \A j \in OfTask(id[1]) : run'[j] = "none" /\ j \notin leaked'
      <3>1. run \in [Id -> Phase] /\ \A j \in OfTask(id[1]) : j \in Id
        BY IdsOfTasks DEF TypeOK
      <3>2. QED
        BY <1>1, <2>1, <3>1
    <2>3. QED
      BY <2>2 DEF Present, UnderWay
  <1>3. QED
    BY <1>1, <1>2

LEMMA OpenSessionKeeps ==
    ASSUME IInv, NEW id \in Id, OpenSession(id)
    PROVE  IInv'
  <1>1. TypeOK /\ id[1] \in Task /\ id \in OfTask(id[1]) /\ run[id] \in {"queued"}
    BY IdsOfTasks DEF IInv, OpenSession
  <1>2. PICK p \in Phase : p = IF id[1] \in Cli /\ status'[id[1]] \in Handoff THEN "closing" ELSE "step"
    BY Statuses
  <1>3. /\ run' = [run EXCEPT ![id] = p]
        /\ leaked' = leaked
        /\ raced' = raced
    BY <1>1, <1>2 DEF OpenSession, TakesUp, Handoff, Queued, TypeOK, outside
  <1>4. Present(id[1])
    BY <1>1 DEF Present, UnderWay
  <1>5. \A t \in Task : t # id[1] => /\ status'[t] = status[t]
                                     /\ t \in dropped => t \in dropped'
    BY <1>1 DEF OpenSession, TakesUp, Handoff, Queued, TypeOK, outside
  <1>6. \/ status'[id[1]] # "IN_PROGRESS"
        \/ p \in {"step", "parked"}
        \/ id[1] \in dropped'
        \/ /\ status'[id[1]] = status[id[1]] /\ dropped' = dropped
           /\ run[id] \notin {"step", "parked"}
    BY <1>1, <1>2 DEF OpenSession, TakesUp, Handoff, Queued, TypeOK
  <1>7. /\ run' \in [Id -> Phase] /\ raced' \subseteq Task
        /\ OneTaskAnAgent' /\ Accounted'
    BY <1>1, <1>2, <1>3, <1>4, <1>5, <1>6, TurnKeeps
  <1>8. TypeOK'
    BY <1>1, <1>3, <1>7, Statuses, IdsOfTasks DEF OpenSession, TakesUp, Handoff, Queued, outside, TypeOK
  <1>9. QED
    BY <1>7, <1>8 DEF IInv

LEMMA OpenFailsKeeps ==
    ASSUME IInv, NEW id \in Id, OpenFails(id)
    PROVE  IInv'
  <1>1. TypeOK /\ id[1] \in Task /\ id \in OfTask(id[1]) /\ run[id] \in {"queued"}
    BY IdsOfTasks DEF IInv, OpenFails
  <1>2. "none" \in Phase
    BY Statuses
  <1>3. /\ run' = [run EXCEPT ![id] = "none"]
        /\ leaked' = leaked
        /\ raced \ {id[1]} \subseteq raced' /\ raced' \subseteq raced
        /\ id[1] \in raced \ raced' => ~ Present(id[1])'
    <2>1. Over(id) /\ leaked' = leaked
      BY DEF OpenFails
    <2>2. QED
      BY <1>1, <2>1, OverDoes
  <1>4. Present(id[1])
    BY <1>1 DEF Present, UnderWay
  <1>5. \A t \in Task : t # id[1] => /\ status'[t] = status[t]
                                     /\ t \in dropped => t \in dropped'
    BY <1>1 DEF OpenFails, Upset, TypeOK
  <1>6. \/ status'[id[1]] # "IN_PROGRESS"
        \/ "none" \in {"step", "parked"}
        \/ id[1] \in dropped'
        \/ /\ status'[id[1]] = status[id[1]] /\ dropped' = dropped
           /\ run[id] \notin {"step", "parked"}
    BY <1>1, <1>2 DEF OpenFails, Upset, TypeOK
  <1>7. /\ run' \in [Id -> Phase] /\ raced' \subseteq Task
        /\ OneTaskAnAgent' /\ Accounted'
    BY <1>1, <1>2, <1>3, <1>4, <1>5, <1>6, TurnKeeps
  <1>8. TypeOK'
    BY <1>1, <1>3, <1>7, Statuses, IdsOfTasks DEF OpenFails, Upset, TypeOK
  <1>9. QED
    BY <1>7, <1>8 DEF IInv

LEMMA BeginFailsKeeps ==
    ASSUME IInv, NEW id \in Id, BeginFails(id)
    PROVE  IInv'
  <1>1. TypeOK /\ id[1] \in Task /\ id \in OfTask(id[1]) /\ run[id] \in {"queued"}
    BY IdsOfTasks DEF IInv, BeginFails
  <1>2. "none" \in Phase
    BY Statuses
  <1>3. /\ run' = [run EXCEPT ![id] = "none"]
        /\ leaked' = leaked \cup {id}
        /\ raced' = raced
    BY <1>1, <1>2 DEF BeginFails, Upset, TakesUp, Queued, TypeOK, outside
  <1>4. Present(id[1])
    BY <1>1 DEF Present, UnderWay
  <1>5. \A t \in Task : t # id[1] => /\ status'[t] = status[t]
                                     /\ t \in dropped => t \in dropped'
    BY <1>1 DEF BeginFails, Upset, TakesUp, Queued, TypeOK
  <1>6. \/ status'[id[1]] # "IN_PROGRESS"
        \/ "none" \in {"step", "parked"}
        \/ id[1] \in dropped'
        \/ /\ status'[id[1]] = status[id[1]] /\ dropped' = dropped
           /\ run[id] \notin {"step", "parked"}
    BY <1>1, <1>2 DEF BeginFails, Upset, TakesUp, Queued, TypeOK
  <1>7. /\ run' \in [Id -> Phase] /\ raced' \subseteq Task
        /\ OneTaskAnAgent' /\ Accounted'
    BY <1>1, <1>2, <1>3, <1>4, <1>5, <1>6, TurnKeeps
  <1>8. TypeOK'
    BY <1>1, <1>3, <1>7, Statuses, IdsOfTasks DEF BeginFails, Upset, TakesUp, Queued, TypeOK
  <1>9. QED
    BY <1>7, <1>8 DEF IInv

LEMMA MoveTaskKeeps ==
    ASSUME IInv, NEW id \in Id, MoveTask(id)
    PROVE  IInv'
  <1>1. TypeOK /\ id[1] \in Task /\ id \in OfTask(id[1]) /\ run[id] \in {"step"}
    BY IdsOfTasks DEF IInv, MoveTask
  <1>2. "step" \in Phase
    BY Statuses
  <1>3. /\ run' = [run EXCEPT ![id] = "step"]
        /\ leaked' = leaked
        /\ raced' = raced
    BY <1>1, <1>2 DEF MoveTask, TypeOK, outside
  <1>4. Present(id[1])
    BY <1>1 DEF Present, UnderWay
  <1>5. \A t \in Task : t # id[1] => /\ status'[t] = status[t]
                                     /\ t \in dropped => t \in dropped'
    BY <1>1 DEF MoveTask, TypeOK, outside
  <1>6. \/ status'[id[1]] # "IN_PROGRESS"
        \/ "step" \in {"step", "parked"}
        \/ id[1] \in dropped'
        \/ /\ status'[id[1]] = status[id[1]] /\ dropped' = dropped
           /\ run[id] \notin {"step", "parked"}
    BY <1>1, <1>2 DEF MoveTask, TypeOK
  <1>7. /\ run' \in [Id -> Phase] /\ raced' \subseteq Task
        /\ OneTaskAnAgent' /\ Accounted'
    BY <1>1, <1>2, <1>3, <1>4, <1>5, <1>6, TurnKeeps
  <1>8. TypeOK'
    BY <1>1, <1>3, <1>7, Statuses, IdsOfTasks DEF MoveTask, outside, TypeOK
  <1>9. QED
    BY <1>7, <1>8 DEF IInv

LEMMA WaitForKeeps ==
    ASSUME IInv, NEW id \in Id, WaitFor(id)
    PROVE  IInv'
  <1>1. TypeOK /\ id[1] \in Task /\ id \in OfTask(id[1]) /\ run[id] \in {"step"}
    BY IdsOfTasks DEF IInv, WaitFor
  <1>2. "parked" \in Phase
    BY Statuses
  <1>3. /\ run' = [run EXCEPT ![id] = "parked"]
        /\ leaked' = leaked
        /\ raced' = raced
    BY <1>1, <1>2 DEF WaitFor, TypeOK, outside
  <1>4. Present(id[1])
    BY <1>1 DEF Present, UnderWay
  <1>5. \A t \in Task : t # id[1] => /\ status'[t] = status[t]
                                     /\ t \in dropped => t \in dropped'
    BY <1>1 DEF WaitFor, TypeOK, outside
  <1>6. \/ status'[id[1]] # "IN_PROGRESS"
        \/ "parked" \in {"step", "parked"}
        \/ id[1] \in dropped'
        \/ /\ status'[id[1]] = status[id[1]] /\ dropped' = dropped
           /\ run[id] \notin {"step", "parked"}
    BY <1>1, <1>2 DEF WaitFor, TypeOK
  <1>7. /\ run' \in [Id -> Phase] /\ raced' \subseteq Task
        /\ OneTaskAnAgent' /\ Accounted'
    BY <1>1, <1>2, <1>3, <1>4, <1>5, <1>6, TurnKeeps
  <1>8. TypeOK'
    BY TurnsAssumption, <1>1, <1>3, <1>7, Statuses, IdsOfTasks DEF WaitFor, outside, TypeOK, OpenChildren, TurnsAssumption
  <1>9. QED
    BY <1>7, <1>8 DEF IInv

LEMMA ResumeKeeps ==
    ASSUME IInv, NEW id \in Id, Resume(id)
    PROVE  IInv'
  <1>1. TypeOK /\ id[1] \in Task /\ id \in OfTask(id[1]) /\ run[id] \in {"parked"}
    BY IdsOfTasks DEF IInv, Resume
  <1>2. "step" \in Phase
    BY Statuses
  <1>3. /\ run' = [run EXCEPT ![id] = "step"]
        /\ leaked' = leaked
        /\ raced' = raced
    BY <1>1, <1>2 DEF Resume, TypeOK, outside
  <1>4. Present(id[1])
    BY <1>1 DEF Present, UnderWay
  <1>5. \A t \in Task : t # id[1] => /\ status'[t] = status[t]
                                     /\ t \in dropped => t \in dropped'
    BY <1>1 DEF Resume, TypeOK, outside
  <1>6. \/ status'[id[1]] # "IN_PROGRESS"
        \/ "step" \in {"step", "parked"}
        \/ id[1] \in dropped'
        \/ /\ status'[id[1]] = status[id[1]] /\ dropped' = dropped
           /\ run[id] \notin {"step", "parked"}
    BY <1>1, <1>2 DEF Resume, TypeOK
  <1>7. /\ run' \in [Id -> Phase] /\ raced' \subseteq Task
        /\ OneTaskAnAgent' /\ Accounted'
    BY <1>1, <1>2, <1>3, <1>4, <1>5, <1>6, TurnKeeps
  <1>8. TypeOK'
    BY <1>1, <1>3, <1>7, Statuses, IdsOfTasks DEF Resume, outside, TypeOK
  <1>9. QED
    BY <1>7, <1>8 DEF IInv

LEMMA SubmitKeeps ==
    ASSUME IInv, NEW id \in Id, Submit(id)
    PROVE  IInv'
  <1>1. TypeOK /\ id[1] \in Task /\ id \in OfTask(id[1]) /\ run[id] \in {"step"}
    BY IdsOfTasks DEF IInv, Submit
  <1>2. PICK p \in Phase : p = IF id[1] \in Cli THEN "step" ELSE "closing"
    BY Statuses
  <1>3. /\ run' = [run EXCEPT ![id] = p]
        /\ leaked' = leaked
        /\ raced' = raced
    BY <1>1, <1>2 DEF Submit, EndsAs, Answered, TypeOK, outside
  <1>4. Present(id[1])
    BY <1>1 DEF Present, UnderWay
  <1>5. \A t \in Task : t # id[1] => /\ status'[t] = status[t]
                                     /\ t \in dropped => t \in dropped'
    BY <1>1 DEF Submit, EndsAs, Answered, TypeOK, outside
  <1>6. \/ status'[id[1]] # "IN_PROGRESS"
        \/ p \in {"step", "parked"}
        \/ id[1] \in dropped'
        \/ /\ status'[id[1]] = status[id[1]] /\ dropped' = dropped
           /\ run[id] \notin {"step", "parked"}
    BY <1>1, <1>2 DEF Submit, EndsAs, Answered, TypeOK
  <1>7. /\ run' \in [Id -> Phase] /\ raced' \subseteq Task
        /\ OneTaskAnAgent' /\ Accounted'
    BY <1>1, <1>2, <1>3, <1>4, <1>5, <1>6, TurnKeeps
  <1>8. TypeOK'
    BY <1>1, <1>3, <1>7, Statuses, IdsOfTasks DEF Submit, EndsAs, Answered, outside, TypeOK
  <1>9. QED
    BY <1>7, <1>8 DEF IInv

LEMMA GuardStopKeeps ==
    ASSUME IInv, NEW id \in Id, GuardStop(id)
    PROVE  IInv'
  <1>1. TypeOK /\ id[1] \in Task /\ id \in OfTask(id[1]) /\ run[id] \in {"step"}
    BY IdsOfTasks DEF IInv, GuardStop
  <1>2. "closing" \in Phase
    BY Statuses
  <1>3. /\ run' = [run EXCEPT ![id] = "closing"]
        /\ leaked' = leaked
        /\ raced' = raced
    BY <1>1, <1>2 DEF GuardStop, EndsAs, Answered, TypeOK, outside
  <1>4. Present(id[1])
    BY <1>1 DEF Present, UnderWay
  <1>5. \A t \in Task : t # id[1] => /\ status'[t] = status[t]
                                     /\ t \in dropped => t \in dropped'
    BY <1>1 DEF GuardStop, EndsAs, Answered, TypeOK, outside
  <1>6. \/ status'[id[1]] # "IN_PROGRESS"
        \/ "closing" \in {"step", "parked"}
        \/ id[1] \in dropped'
        \/ /\ status'[id[1]] = status[id[1]] /\ dropped' = dropped
           /\ run[id] \notin {"step", "parked"}
    BY <1>1, <1>2 DEF GuardStop, EndsAs, Answered, TypeOK
  <1>7. /\ run' \in [Id -> Phase] /\ raced' \subseteq Task
        /\ OneTaskAnAgent' /\ Accounted'
    BY <1>1, <1>2, <1>3, <1>4, <1>5, <1>6, TurnKeeps
  <1>8. TypeOK'
    BY <1>1, <1>3, <1>7, Statuses, IdsOfTasks DEF GuardStop, EndsAs, Answered, outside, TypeOK
  <1>9. QED
    BY <1>7, <1>8 DEF IInv

LEMMA GiveUpKeeps ==
    ASSUME IInv, NEW id \in Id, GiveUp(id)
    PROVE  IInv'
  <1>1. TypeOK /\ id[1] \in Task /\ id \in OfTask(id[1]) /\ run[id] \in {"step"}
    BY IdsOfTasks DEF IInv, GiveUp
  <1>2. "closing" \in Phase
    BY Statuses
  <1>3. /\ run' = [run EXCEPT ![id] = "closing"]
        /\ leaked' = leaked
        /\ raced' = raced
    BY <1>1, <1>2 DEF GiveUp, EndsAs, Dropped, TypeOK, outside
  <1>4. Present(id[1])
    BY <1>1 DEF Present, UnderWay
  <1>5. \A t \in Task : t # id[1] => /\ status'[t] = status[t]
                                     /\ t \in dropped => t \in dropped'
    BY <1>1 DEF GiveUp, EndsAs, Dropped, TypeOK, outside
  <1>6. \/ status'[id[1]] # "IN_PROGRESS"
        \/ "closing" \in {"step", "parked"}
        \/ id[1] \in dropped'
        \/ /\ status'[id[1]] = status[id[1]] /\ dropped' = dropped
           /\ run[id] \notin {"step", "parked"}
    BY <1>1, <1>2 DEF GiveUp, EndsAs, Dropped, TypeOK
  <1>7. /\ run' \in [Id -> Phase] /\ raced' \subseteq Task
        /\ OneTaskAnAgent' /\ Accounted'
    BY <1>1, <1>2, <1>3, <1>4, <1>5, <1>6, TurnKeeps
  <1>8. TypeOK'
    BY <1>1, <1>3, <1>7, Statuses, IdsOfTasks DEF GiveUp, EndsAs, Dropped, outside, TypeOK
  <1>9. QED
    BY <1>7, <1>8 DEF IInv

LEMMA CliEndsKeeps ==
    ASSUME IInv, NEW id \in Id, CliEnds(id)
    PROVE  IInv'
  <1>1. TypeOK /\ id[1] \in Task /\ id \in OfTask(id[1]) /\ run[id] \in {"step"}
    BY IdsOfTasks DEF IInv, CliEnds
  <1>2. "closing" \in Phase
    BY Statuses
  <1>3. /\ run' = [run EXCEPT ![id] = "closing"]
        /\ leaked' = leaked
        /\ raced' = raced
    BY <1>1, <1>2 DEF CliEnds, EndsAs, Answered, Dropped, Handoff, TypeOK, outside
  <1>4. Present(id[1])
    BY <1>1 DEF Present, UnderWay
  <1>5. \A t \in Task : t # id[1] => /\ status'[t] = status[t]
                                     /\ t \in dropped => t \in dropped'
    BY <1>1 DEF CliEnds, EndsAs, Answered, Dropped, Handoff, TypeOK, outside
  <1>6. \/ status'[id[1]] # "IN_PROGRESS"
        \/ "closing" \in {"step", "parked"}
        \/ id[1] \in dropped'
        \/ /\ status'[id[1]] = status[id[1]] /\ dropped' = dropped
           /\ run[id] \notin {"step", "parked"}
    BY <1>1, <1>2 DEF CliEnds, EndsAs, Answered, Dropped, Handoff, TypeOK
  <1>7. /\ run' \in [Id -> Phase] /\ raced' \subseteq Task
        /\ OneTaskAnAgent' /\ Accounted'
    BY <1>1, <1>2, <1>3, <1>4, <1>5, <1>6, TurnKeeps
  <1>8. TypeOK'
    BY <1>1, <1>3, <1>7, Statuses, IdsOfTasks DEF CliEnds, EndsAs, Answered, Dropped, Handoff, outside, TypeOK
  <1>9. QED
    BY <1>7, <1>8 DEF IInv

LEMMA CrashKeeps ==
    ASSUME IInv, NEW id \in Id, Crash(id)
    PROVE  IInv'
  <1>1. TypeOK /\ id[1] \in Task /\ id \in OfTask(id[1]) /\ run[id] \in {"step", "parked"}
    BY IdsOfTasks DEF IInv, Crash
  <1>2. "closing" \in Phase
    BY Statuses
  <1>3. /\ run' = [run EXCEPT ![id] = "closing"]
        /\ leaked' = leaked
        /\ raced' = raced
    BY <1>1, <1>2 DEF Crash, EndsAs, Answered, Dropped, CrashStatus, Upset, Queued, TypeOK, outside
  <1>4. Present(id[1])
    BY <1>1 DEF Present, UnderWay
  <1>5. \A t \in Task : t # id[1] => /\ status'[t] = status[t]
                                     /\ t \in dropped => t \in dropped'
    BY <1>1 DEF Crash, EndsAs, Answered, Dropped, CrashStatus, Upset, Queued, TypeOK
  <1>6. \/ status'[id[1]] # "IN_PROGRESS"
        \/ "closing" \in {"step", "parked"}
        \/ id[1] \in dropped'
        \/ /\ status'[id[1]] = status[id[1]] /\ dropped' = dropped
           /\ run[id] \notin {"step", "parked"}
    BY <1>1, <1>2 DEF Crash, EndsAs, Answered, Dropped, CrashStatus, Upset, Queued, TypeOK
  <1>7. /\ run' \in [Id -> Phase] /\ raced' \subseteq Task
        /\ OneTaskAnAgent' /\ Accounted'
    BY <1>1, <1>2, <1>3, <1>4, <1>5, <1>6, TurnKeeps
  <1>8. TypeOK'
    BY <1>1, <1>3, <1>7, Statuses, IdsOfTasks DEF Crash, EndsAs, Answered, Dropped, CrashStatus, Upset, Queued, TypeOK
  <1>9. QED
    BY <1>7, <1>8 DEF IInv

LEMMA CloseSessionKeeps ==
    ASSUME IInv, NEW id \in Id, CloseSession(id)
    PROVE  IInv'
  <1>1. TypeOK /\ id[1] \in Task /\ id \in OfTask(id[1]) /\ run[id] \in {"closing"}
    BY IdsOfTasks DEF IInv, CloseSession
  <1>2. "closed" \in Phase
    BY Statuses
  <1>3. /\ run' = [run EXCEPT ![id] = "closed"]
        /\ leaked' = leaked
        /\ raced' = raced
    BY <1>1, <1>2 DEF CloseSession, EndsAs, TypeOK, outside
  <1>4. Present(id[1])
    BY <1>1 DEF Present, UnderWay
  <1>5. \A t \in Task : t # id[1] => /\ status'[t] = status[t]
                                     /\ t \in dropped => t \in dropped'
    BY <1>1 DEF CloseSession, EndsAs, TypeOK
  <1>6. \/ status'[id[1]] # "IN_PROGRESS"
        \/ "closed" \in {"step", "parked"}
        \/ id[1] \in dropped'
        \/ /\ status'[id[1]] = status[id[1]] /\ dropped' = dropped
           /\ run[id] \notin {"step", "parked"}
    BY <1>1, <1>2 DEF CloseSession, EndsAs, TypeOK
  <1>7. /\ run' \in [Id -> Phase] /\ raced' \subseteq Task
        /\ OneTaskAnAgent' /\ Accounted'
    BY <1>1, <1>2, <1>3, <1>4, <1>5, <1>6, TurnKeeps
  <1>8. TypeOK'
    BY TurnsAssumption, <1>1, <1>3, <1>7, Statuses, IdsOfTasks DEF CloseSession, EndsAs, TypeOK, AgentOf, TurnsAssumption, Id
  <1>9. QED
    BY <1>7, <1>8 DEF IInv

LEMMA CloseFailsKeeps ==
    ASSUME IInv, NEW id \in Id, CloseFails(id)
    PROVE  IInv'
  <1>1. TypeOK /\ id[1] \in Task /\ id \in OfTask(id[1]) /\ run[id] \in {"closing"}
    BY IdsOfTasks DEF IInv, CloseFails
  <1>2. "none" \in Phase
    BY Statuses
  <1>3. /\ run' = [run EXCEPT ![id] = "none"]
        /\ leaked' = leaked \cup {id}
        /\ raced' = raced
    BY <1>1, <1>2 DEF CloseFails, Upset, TypeOK, outside
  <1>4. Present(id[1])
    BY <1>1 DEF Present, UnderWay
  <1>5. \A t \in Task : t # id[1] => /\ status'[t] = status[t]
                                     /\ t \in dropped => t \in dropped'
    BY <1>1 DEF CloseFails, Upset, TypeOK
  <1>6. \/ status'[id[1]] # "IN_PROGRESS"
        \/ "none" \in {"step", "parked"}
        \/ id[1] \in dropped'
        \/ /\ status'[id[1]] = status[id[1]] /\ dropped' = dropped
           /\ run[id] \notin {"step", "parked"}
    BY <1>1, <1>2 DEF CloseFails, Upset, TypeOK
  <1>7. /\ run' \in [Id -> Phase] /\ raced' \subseteq Task
        /\ OneTaskAnAgent' /\ Accounted'
    BY <1>1, <1>2, <1>3, <1>4, <1>5, <1>6, TurnKeeps
  <1>8. TypeOK'
    BY <1>1, <1>3, <1>7, Statuses, IdsOfTasks DEF CloseFails, Upset, TypeOK
  <1>9. QED
    BY <1>7, <1>8 DEF IInv

LEMMA CompleteKeeps ==
    ASSUME IInv, NEW id \in Id, Complete(id)
    PROVE  IInv'
  <1>1. TypeOK /\ id[1] \in Task /\ id \in OfTask(id[1]) /\ run[id] \in {"closed"}
    BY IdsOfTasks DEF IInv, Complete
  <1>2. "none" \in Phase
    BY Statuses
  <1>3. /\ run' = [run EXCEPT ![id] = "none"]
        /\ leaked' = leaked
        /\ raced \ {id[1]} \subseteq raced' /\ raced' \subseteq raced
        /\ id[1] \in raced \ raced' => ~ Present(id[1])'
    <2>1. Over(id) /\ leaked' = leaked
      BY DEF Complete
    <2>2. QED
      BY <1>1, <2>1, OverDoes
  <1>4. "none" \notin UnderWay /\ (id \in leaked' => Present(id[1]))
    BY <1>1, <1>3 DEF UnderWay, Present
  <1>5. \A t \in Task : t # id[1] => /\ status'[t] = status[t]
                                     /\ t \in dropped => t \in dropped'
    BY <1>1 DEF Complete, TypeOK
  <1>6. \/ status'[id[1]] # "IN_PROGRESS"
        \/ "none" \in {"step", "parked"}
        \/ id[1] \in dropped'
        \/ /\ status'[id[1]] = status[id[1]] /\ dropped' = dropped
           /\ run[id] \notin {"step", "parked"}
    BY <1>1, <1>2 DEF Complete, TypeOK
  <1>7. /\ run' \in [Id -> Phase] /\ raced' \subseteq Task
        /\ OneTaskAnAgent' /\ Accounted'
    BY <1>1, <1>2, <1>3, <1>4, <1>5, <1>6, TurnKeeps
  <1>8. TypeOK'
    BY <1>1, <1>3, <1>7, Statuses, IdsOfTasks DEF Complete, TypeOK
  <1>9. QED
    BY <1>7, <1>8 DEF IInv

LEMMA AssignKeeps ==
    ASSUME IInv, NEW t \in Task, Assign(t)
    PROVE  IInv'
  <1>1. TypeOK
    BY DEF IInv
  <1>2. {<<t, "main">>} \subseteq Id
    BY IdsOfTasks
  <1>3. /\ Start({<<t, "main">>}) \/ NoStart
        /\ leaked' = leaked
        /\ dropped \subseteq dropped'
        /\ \A v \in Task : status'[v] = "IN_PROGRESS" =>
              status[v] = "IN_PROGRESS" \/ v \in dropped'
    <2>1. Start({<<t, "main">>}) \/ NoStart
      BY DEF Assign, StartOne, Upset
    <2>2. leaked' = leaked /\ dropped \subseteq dropped'
      BY DEF Assign
    <2>3. \A v \in Task : status'[v] = "IN_PROGRESS" =>
              status[v] = "IN_PROGRESS" \/ v \in dropped'
      BY <1>1 DEF Assign, TypeOK
    <2>4. QED
      BY <2>1, <2>2, <2>3
  <1>4. /\ run' \in [Id -> Phase] /\ raced' \subseteq Task
        /\ OneTaskAnAgent' /\ Accounted'
    BY <1>2, <1>3, StartKeeps
  <1>5. TypeOK'
    <2>1. /\ status' \in [Task -> TaskStatus]
          /\ leaked' \subseteq Id /\ ended' \subseteq Agent /\ dropped' \subseteq Task
      BY <1>1, Statuses DEF Assign, TypeOK
    <2>2. edge' \in [Task -> SUBSET Task] /\ (\A v \in Task : edge'[v] \subseteq Children[v])
      BY <1>1 DEF Assign, TypeOK
    <2>3. told' \subseteq Task \X Task
      BY <1>1 DEF Assign, TypeOK
    <2>4. upsets' \in 0..MaxUpsets
      BY <1>1, Statuses DEF Assign, Upset, TypeOK
    <2>5. QED
      BY <1>4, <2>1, <2>2, <2>3, <2>4 DEF TypeOK
  <1>6. QED
    BY <1>4, <1>5 DEF IInv

LEMMA MessageKeeps ==
    ASSUME IInv, NEW t \in Task, Message(t)
    PROVE  IInv'
  <1>1. TypeOK
    BY DEF IInv
  <1>2. {<<t, "main">>} \subseteq Id
    BY IdsOfTasks
  <1>3. /\ Start({<<t, "main">>}) \/ NoStart
        /\ leaked' = leaked
        /\ dropped \subseteq dropped'
        /\ \A v \in Task : status'[v] = "IN_PROGRESS" =>
              status[v] = "IN_PROGRESS" \/ v \in dropped'
    <2>1. Start({<<t, "main">>}) \/ NoStart
      BY DEF Message, StartOne, Upset
    <2>2. leaked' = leaked /\ dropped \subseteq dropped'
      BY DEF Message
    <2>3. \A v \in Task : status'[v] = "IN_PROGRESS" =>
              status[v] = "IN_PROGRESS" \/ v \in dropped'
      BY <1>1 DEF Message, TypeOK
    <2>4. QED
      BY <2>1, <2>2, <2>3
  <1>4. /\ run' \in [Id -> Phase] /\ raced' \subseteq Task
        /\ OneTaskAnAgent' /\ Accounted'
    BY <1>2, <1>3, StartKeeps
  <1>5. TypeOK'
    <2>1. /\ status' \in [Task -> TaskStatus]
          /\ leaked' \subseteq Id /\ ended' \subseteq Agent /\ dropped' \subseteq Task
      BY <1>1, Statuses DEF Message, TypeOK
    <2>2. edge' \in [Task -> SUBSET Task] /\ (\A v \in Task : edge'[v] \subseteq Children[v])
      BY <1>1 DEF Message, TypeOK
    <2>3. told' \subseteq Task \X Task
      BY <1>1 DEF Message, TypeOK
    <2>4. upsets' \in 0..MaxUpsets
      BY <1>1, Statuses DEF Message, Upset, TypeOK
    <2>5. QED
      BY <1>4, <2>1, <2>2, <2>3, <2>4 DEF TypeOK
  <1>6. QED
    BY <1>4, <1>5 DEF IInv

LEMMA SweepKeeps ==
    ASSUME IInv, NEW t \in Task, Sweep(t)
    PROVE  IInv'
  <1>1. TypeOK
    BY DEF IInv
  <1>2. {<<t, "main">>} \subseteq Id
    BY IdsOfTasks
  <1>3. /\ Start({<<t, "main">>}) \/ NoStart
        /\ leaked' = leaked
        /\ dropped \subseteq dropped'
        /\ \A v \in Task : status'[v] = "IN_PROGRESS" =>
              status[v] = "IN_PROGRESS" \/ v \in dropped'
    <2>1. Start({<<t, "main">>}) \/ NoStart
      BY DEF Sweep, StartOne
    <2>2. leaked' = leaked /\ dropped \subseteq dropped'
      BY DEF Sweep
    <2>3. \A v \in Task : status'[v] = "IN_PROGRESS" =>
              status[v] = "IN_PROGRESS" \/ v \in dropped'
      BY <1>1 DEF Sweep, TypeOK
    <2>4. QED
      BY <2>1, <2>2, <2>3
  <1>4. /\ run' \in [Id -> Phase] /\ raced' \subseteq Task
        /\ OneTaskAnAgent' /\ Accounted'
    BY <1>2, <1>3, StartKeeps
  <1>5. TypeOK'
    <2>1. /\ status' \in [Task -> TaskStatus]
          /\ leaked' \subseteq Id /\ ended' \subseteq Agent /\ dropped' \subseteq Task
      BY <1>1, Statuses DEF Sweep, TypeOK
    <2>2. edge' \in [Task -> SUBSET Task] /\ (\A v \in Task : edge'[v] \subseteq Children[v])
      BY <1>1 DEF Sweep, TypeOK
    <2>3. told' \subseteq Task \X Task
      BY <1>1 DEF Sweep, TypeOK
    <2>4. upsets' \in 0..MaxUpsets
      BY <1>1, Statuses DEF Sweep, TypeOK
    <2>5. QED
      BY <1>4, <2>1, <2>2, <2>3, <2>4 DEF TypeOK
  <1>6. QED
    BY <1>4, <1>5 DEF IInv

LEMMA SweepCutKeeps ==
    ASSUME IInv, NEW t \in Task, SweepCut(t)
    PROVE  IInv'
  <1>1. TypeOK
    BY DEF IInv
  <1>2. {} \subseteq Id
    OBVIOUS
  <1>3. /\ Start({}) \/ NoStart
        /\ leaked' = leaked
        /\ dropped \subseteq dropped'
        /\ \A v \in Task : status'[v] = "IN_PROGRESS" =>
              status[v] = "IN_PROGRESS" \/ v \in dropped'
    <2>1. Start({}) \/ NoStart
      BY DEF SweepCut, NoStart
    <2>2. leaked' = leaked /\ dropped \subseteq dropped'
      BY DEF SweepCut, Dropped
    <2>3. \A v \in Task : status'[v] = "IN_PROGRESS" =>
              status[v] = "IN_PROGRESS" \/ v \in dropped'
      BY <1>1 DEF SweepCut, Dropped, TypeOK
    <2>4. QED
      BY <2>1, <2>2, <2>3
  <1>4. /\ run' \in [Id -> Phase] /\ raced' \subseteq Task
        /\ OneTaskAnAgent' /\ Accounted'
    BY <1>2, <1>3, StartKeeps
  <1>5. TypeOK'
    <2>1. /\ status' \in [Task -> TaskStatus]
          /\ leaked' \subseteq Id /\ ended' \subseteq Agent /\ dropped' \subseteq Task
      BY <1>1, Statuses DEF SweepCut, Dropped, TypeOK
    <2>2. edge' \in [Task -> SUBSET Task] /\ (\A v \in Task : edge'[v] \subseteq Children[v])
      BY <1>1 DEF SweepCut, TypeOK
    <2>3. told' \subseteq Task \X Task
      BY <1>1 DEF SweepCut, TypeOK
    <2>4. upsets' \in 0..MaxUpsets
      BY <1>1, Statuses DEF SweepCut, Upset, TypeOK
    <2>5. QED
      BY <1>4, <2>1, <2>2, <2>3, <2>4 DEF TypeOK
  <1>6. QED
    BY <1>4, <1>5 DEF IInv

LEMMA DeliverKeeps ==
    ASSUME IInv, NEW t \in Task, Deliver(t)
    PROVE  IInv'
  <1>1. TypeOK
    BY DEF IInv
  <1>2. {} \subseteq Id
    OBVIOUS
  <1>3. /\ Start({}) \/ NoStart
        /\ leaked' = leaked
        /\ dropped \subseteq dropped'
        /\ \A v \in Task : status'[v] = "IN_PROGRESS" =>
              status[v] = "IN_PROGRESS" \/ v \in dropped'
    <2>1. Start({}) \/ NoStart
      BY DEF Deliver, NoStart
    <2>2. leaked' = leaked /\ dropped \subseteq dropped'
      BY DEF Deliver
    <2>3. \A v \in Task : status'[v] = "IN_PROGRESS" =>
              status[v] = "IN_PROGRESS" \/ v \in dropped'
      BY <1>1 DEF Deliver, TypeOK
    <2>4. QED
      BY <2>1, <2>2, <2>3
  <1>4. /\ run' \in [Id -> Phase] /\ raced' \subseteq Task
        /\ OneTaskAnAgent' /\ Accounted'
    BY <1>2, <1>3, StartKeeps
  <1>5. TypeOK'
    <2>1. /\ status' \in [Task -> TaskStatus]
          /\ leaked' \subseteq Id /\ ended' \subseteq Agent /\ dropped' \subseteq Task
      BY <1>1, Statuses DEF Deliver, TypeOK
    <2>2. edge' \in [Task -> SUBSET Task] /\ (\A v \in Task : edge'[v] \subseteq Children[v])
      BY <1>1 DEF Deliver, TypeOK
    <2>3. told' \subseteq Task \X Task
      BY <1>1 DEF Deliver, TypeOK
    <2>4. upsets' \in 0..MaxUpsets
      BY <1>1, Statuses DEF Deliver, TypeOK
    <2>5. QED
      BY <1>4, <2>1, <2>2, <2>3, <2>4 DEF TypeOK
  <1>6. QED
    BY <1>4, <1>5 DEF IInv

LEMMA SendBackKeeps ==
    ASSUME IInv, NEW t \in Task, SendBack(t)
    PROVE  IInv'
  <1>1. TypeOK
    BY DEF IInv
  <1>2. {<<t, "rework">>} \subseteq Id
    BY IdsOfTasks
  <1>3. /\ Start({<<t, "rework">>}) \/ NoStart
        /\ leaked' = leaked
        /\ dropped \subseteq dropped'
        /\ \A v \in Task : status'[v] = "IN_PROGRESS" =>
              status[v] = "IN_PROGRESS" \/ v \in dropped'
    <2>1. Start({<<t, "rework">>}) \/ NoStart
      BY DEF SendBack, StartOne, Upset, Rework
    <2>2. leaked' = leaked /\ dropped \subseteq dropped'
      BY DEF SendBack
    <2>3. \A v \in Task : status'[v] = "IN_PROGRESS" =>
              status[v] = "IN_PROGRESS" \/ v \in dropped'
      BY <1>1 DEF SendBack, TypeOK
    <2>4. QED
      BY <2>1, <2>2, <2>3
  <1>4. /\ run' \in [Id -> Phase] /\ raced' \subseteq Task
        /\ OneTaskAnAgent' /\ Accounted'
    BY <1>2, <1>3, StartKeeps
  <1>5. TypeOK'
    <2>1. /\ status' \in [Task -> TaskStatus]
          /\ leaked' \subseteq Id /\ ended' \subseteq Agent /\ dropped' \subseteq Task
      BY <1>1, Statuses DEF SendBack, TypeOK
    <2>2. edge' \in [Task -> SUBSET Task] /\ (\A v \in Task : edge'[v] \subseteq Children[v])
      BY <1>1 DEF SendBack, TypeOK
    <2>3. told' \subseteq Task \X Task
      BY <1>1 DEF SendBack, TypeOK
    <2>4. upsets' \in 0..MaxUpsets
      BY <1>1, Statuses DEF SendBack, Upset, TypeOK
    <2>5. QED
      BY <1>4, <2>1, <2>2, <2>3, <2>4 DEF TypeOK
  <1>6. QED
    BY <1>4, <1>5 DEF IInv

LEMMA BridgeKeeps ==
    ASSUME IInv, NEW t \in Task, NEW p \in Task, Bridge(t, p)
    PROVE  IInv'
  <1>1. TypeOK
    BY DEF IInv
  <1>2. {<<t, "main">>} \subseteq Id
    BY IdsOfTasks
  <1>3. /\ Start({<<t, "main">>}) \/ NoStart
        /\ leaked' = leaked
        /\ dropped \subseteq dropped'
        /\ \A v \in Task : status'[v] = "IN_PROGRESS" =>
              status[v] = "IN_PROGRESS" \/ v \in dropped'
    <2>1. Start({<<t, "main">>}) \/ NoStart
      BY DEF Bridge, StartOne
    <2>2. leaked' = leaked /\ dropped \subseteq dropped'
      BY DEF Bridge
    <2>3. \A v \in Task : status'[v] = "IN_PROGRESS" =>
              status[v] = "IN_PROGRESS" \/ v \in dropped'
      BY <1>1 DEF Bridge, TypeOK
    <2>4. QED
      BY <2>1, <2>2, <2>3
  <1>4. /\ run' \in [Id -> Phase] /\ raced' \subseteq Task
        /\ OneTaskAnAgent' /\ Accounted'
    BY <1>2, <1>3, StartKeeps
  <1>5. TypeOK'
    <2>1. /\ status' \in [Task -> TaskStatus]
          /\ leaked' \subseteq Id /\ ended' \subseteq Agent /\ dropped' \subseteq Task
      BY <1>1, Statuses DEF Bridge, TypeOK
    <2>2. edge' \in [Task -> SUBSET Task] /\ (\A v \in Task : edge'[v] \subseteq Children[v])
      BY <1>1 DEF Bridge, TypeOK
    <2>3. told' \subseteq Task \X Task
      BY <1>1 DEF Bridge, TypeOK
    <2>4. upsets' \in 0..MaxUpsets
      BY <1>1, Statuses DEF Bridge, TypeOK
    <2>5. QED
      BY <1>4, <2>1, <2>2, <2>3, <2>4 DEF TypeOK
  <1>6. QED
    BY <1>4, <1>5 DEF IInv

LEMMA BridgeSkipsKeeps ==
    ASSUME IInv, NEW t \in Task, NEW p \in Task, BridgeSkips(t, p)
    PROVE  IInv'
  <1>1. TypeOK
    BY DEF IInv
  <1>2. {} \subseteq Id
    OBVIOUS
  <1>3. /\ Start({}) \/ NoStart
        /\ leaked' = leaked
        /\ dropped \subseteq dropped'
        /\ \A v \in Task : status'[v] = "IN_PROGRESS" =>
              status[v] = "IN_PROGRESS" \/ v \in dropped'
    <2>1. Start({}) \/ NoStart
      BY DEF BridgeSkips, NoStart
    <2>2. leaked' = leaked /\ dropped \subseteq dropped'
      BY DEF BridgeSkips
    <2>3. \A v \in Task : status'[v] = "IN_PROGRESS" =>
              status[v] = "IN_PROGRESS" \/ v \in dropped'
      BY <1>1 DEF BridgeSkips, TypeOK
    <2>4. QED
      BY <2>1, <2>2, <2>3
  <1>4. /\ run' \in [Id -> Phase] /\ raced' \subseteq Task
        /\ OneTaskAnAgent' /\ Accounted'
    BY <1>2, <1>3, StartKeeps
  <1>5. TypeOK'
    <2>1. /\ status' \in [Task -> TaskStatus]
          /\ leaked' \subseteq Id /\ ended' \subseteq Agent /\ dropped' \subseteq Task
      BY <1>1, Statuses DEF BridgeSkips, TypeOK
    <2>2. edge' \in [Task -> SUBSET Task] /\ (\A v \in Task : edge'[v] \subseteq Children[v])
      BY <1>1 DEF BridgeSkips, TypeOK
    <2>3. told' \subseteq Task \X Task
      BY <1>1 DEF BridgeSkips, TypeOK
    <2>4. upsets' \in 0..MaxUpsets
      BY <1>1, Statuses DEF BridgeSkips, Upset, TypeOK
    <2>5. QED
      BY <1>4, <2>1, <2>2, <2>3, <2>4 DEF TypeOK
  <1>6. QED
    BY <1>4, <1>5 DEF IInv

LEMMA LoseEndedKeeps ==
    ASSUME IInv, NEW a \in Agent, LoseEnded(a)
    PROVE  IInv'
  <1>1. TypeOK
    BY DEF IInv
  <1>2. {} \subseteq Id
    OBVIOUS
  <1>3. /\ Start({}) \/ NoStart
        /\ leaked' = leaked
        /\ dropped \subseteq dropped'
        /\ \A v \in Task : status'[v] = "IN_PROGRESS" =>
              status[v] = "IN_PROGRESS" \/ v \in dropped'
    <2>1. Start({}) \/ NoStart
      BY DEF LoseEnded, NoStart
    <2>2. leaked' = leaked /\ dropped \subseteq dropped'
      BY DEF LoseEnded
    <2>3. \A v \in Task : status'[v] = "IN_PROGRESS" =>
              status[v] = "IN_PROGRESS" \/ v \in dropped'
      BY <1>1 DEF LoseEnded, TypeOK
    <2>4. QED
      BY <2>1, <2>2, <2>3
  <1>4. /\ run' \in [Id -> Phase] /\ raced' \subseteq Task
        /\ OneTaskAnAgent' /\ Accounted'
    BY <1>2, <1>3, StartKeeps
  <1>5. TypeOK'
    <2>1. /\ status' \in [Task -> TaskStatus]
          /\ leaked' \subseteq Id /\ ended' \subseteq Agent /\ dropped' \subseteq Task
      BY <1>1, Statuses DEF LoseEnded, TypeOK
    <2>2. edge' \in [Task -> SUBSET Task] /\ (\A v \in Task : edge'[v] \subseteq Children[v])
      BY <1>1 DEF LoseEnded, TypeOK
    <2>3. told' \subseteq Task \X Task
      BY <1>1 DEF LoseEnded, TypeOK
    <2>4. upsets' \in 0..MaxUpsets
      BY <1>1, Statuses DEF LoseEnded, Upset, TypeOK
    <2>5. QED
      BY <1>4, <2>1, <2>2, <2>3, <2>4 DEF TypeOK
  <1>6. QED
    BY <1>4, <1>5 DEF IInv

LEMMA DrainKeeps ==
    ASSUME IInv, NEW a \in Agent, Drain(a)
    PROVE  IInv'
  <1>1. TypeOK
    BY DEF IInv
  <1>2. PICK ids \in SUBSET Id : Start(ids)
    <2>1. \A S \in SUBSET Task : S \X {"main"} \subseteq Id
      BY DEF Id
    <2>2. PICK S \in SUBSET Task : \E rest \in SUBSET Task :
              Start(({t \in S : Owner[t] = a} \cup rest) \X {"main"})
      BY DEF Drain
    <2>3. PICK rest \in SUBSET Task : Start(({t \in S : Owner[t] = a} \cup rest) \X {"main"})
      BY <2>2
    <2>4. ({t \in S : Owner[t] = a} \cup rest) \in SUBSET Task
      OBVIOUS
    <2>5. QED
      BY <2>1, <2>3, <2>4
  <1>3. /\ UNCHANGED <<status, edge, leaked, told, upsets, dropped>>
        /\ ended' \subseteq ended
    BY DEF Drain
  <1>4. /\ run' \in [Id -> Phase] /\ raced' \subseteq Task
        /\ OneTaskAnAgent' /\ Accounted'
    BY <1>2, <1>3, StartKeeps
  <1>5. TypeOK'
    BY <1>1, <1>3, <1>4 DEF TypeOK
  <1>6. QED
    BY <1>4, <1>5 DEF IInv

-----------------------------------------------------------------------------
(* The invariant, and what follows from it                                 *)

LEMMA InitHolds == Init => IInv
  <1> SUFFICES ASSUME Init PROVE IInv
    OBVIOUS
  <1>1. TypeOK
    BY TurnsAssumption, Statuses DEF Init, TypeOK, TaskStatus, TurnsAssumption
  <1>2. \A t \in Task : ~ Present(t)
    BY IdsOfTasks DEF Init, Present, UnderWay
  <1>3. OneTaskAnAgent /\ Accounted
    BY <1>2 DEF Init, OneTaskAnAgent, Accounted
  <1>4. QED
    BY <1>1, <1>3 DEF IInv

LEMMA TurnKeepsAll ==
    ASSUME IInv, NEW id \in Id, Turn(id)
    PROVE  IInv'
  <1>1. CASE OpenSession(id)
    BY <1>1, OpenSessionKeeps
  <1>2. CASE OpenFails(id)
    BY <1>2, OpenFailsKeeps
  <1>3. CASE BeginFails(id)
    BY <1>3, BeginFailsKeeps
  <1>4. CASE MoveTask(id)
    BY <1>4, MoveTaskKeeps
  <1>5. CASE WaitFor(id)
    BY <1>5, WaitForKeeps
  <1>6. CASE Resume(id)
    BY <1>6, ResumeKeeps
  <1>7. CASE Submit(id)
    BY <1>7, SubmitKeeps
  <1>8. CASE GuardStop(id)
    BY <1>8, GuardStopKeeps
  <1>9. CASE GiveUp(id)
    BY <1>9, GiveUpKeeps
  <1>10. CASE CliEnds(id)
    BY <1>10, CliEndsKeeps
  <1>11. CASE Crash(id)
    BY <1>11, CrashKeeps
  <1>12. CASE CloseSession(id)
    BY <1>12, CloseSessionKeeps
  <1>13. CASE CloseFails(id)
    BY <1>13, CloseFailsKeeps
  <1>14. CASE Complete(id)
    BY <1>14, CompleteKeeps
  <1>15. QED
    BY <1>1, <1>2, <1>3, <1>4, <1>5, <1>6, <1>7, <1>8, <1>9, <1>10, <1>11, <1>12, <1>13, <1>14 DEF Turn

LEMMA StepHolds == IInv /\ [Next]_vars => IInv'
  <1> SUFFICES ASSUME IInv, [Next]_vars PROVE IInv'
    OBVIOUS
  <1>1. ASSUME NEW id \in Id, Turn(id) PROVE IInv'
    BY <1>1, TurnKeepsAll
  <1>2. ASSUME NEW a \in Agent, Drain(a) PROVE IInv'
    BY <1>2, DrainKeeps
  <1>3. ASSUME NEW t \in Task, Assign(t) PROVE IInv'
    BY <1>3, AssignKeeps
  <1>4. ASSUME NEW t \in Task, Message(t) PROVE IInv'
    BY <1>4, MessageKeeps
  <1>5. ASSUME NEW t \in Task, Sweep(t) PROVE IInv'
    BY <1>5, SweepKeeps
  <1>6. ASSUME NEW t \in Task, SweepCut(t) PROVE IInv'
    BY <1>6, SweepCutKeeps
  <1>7. ASSUME NEW t \in Task, Deliver(t) PROVE IInv'
    BY <1>7, DeliverKeeps
  <1>8. ASSUME NEW t \in Task, SendBack(t) PROVE IInv'
    BY <1>8, SendBackKeeps
  <1>9. ASSUME NEW t \in Task, NEW p \in Task, Bridge(t, p) PROVE IInv'
    BY <1>9, BridgeKeeps
  <1>10. ASSUME NEW t \in Task, NEW p \in Task, BridgeSkips(t, p) PROVE IInv'
    BY <1>10, BridgeSkipsKeeps
  <1>11. ASSUME NEW a \in Agent, LoseEnded(a) PROVE IInv'
    BY <1>11, LoseEndedKeeps
  <1>12. CASE UNCHANGED vars
    BY <1>12 DEF vars, IInv, TypeOK, OneTaskAnAgent, Accounted, Present, Stands
  <1>13. QED
    BY <1>1, <1>2, <1>3, <1>4, <1>5, <1>6, <1>7, <1>8, <1>9, <1>10, <1>11, <1>12 DEF Next

\* The strengthening holds in every reachable state: the three theorems below rest on it.
THEOREM TurnsHold == Spec => []IInv
  <1>1. Init => IInv
    BY InitHolds
  <1>2. IInv /\ [Next]_vars => IInv'
    BY StepHolds
  <1>3. QED
    BY <1>1, <1>2, PTL DEF Spec

\* Statuses, waits, workflows, session rows and unread events stay well formed; in
\* particular a task only ever waits for tasks below it.
THEOREM TypeCorrect == Spec => []TypeOK
  <1>1. IInv => TypeOK
    BY DEF IInv
  <1>2. QED
    BY <1>1, TurnsHold, PTL

\* checkSessionGate and the two starters: two tasks of one agent have sessions at the
\* same time only when one of them was started while the other's workflow had passed
\* the gate and not written its row, for any agents, trees, runtimes and mishaps.
THEOREM BusyByRaceOnly == Spec => []BusyAgentOnlyByRace
  <1>1. IInv => BusyAgentOnlyByRace
    <2>1. SUFFICES ASSUME IInv, NEW i \in Id, NEW j \in Id, HasRow(i), HasRow(j),
                          i[1] # j[1], AgentOf(i) = AgentOf(j)
                   PROVE  {i[1], j[1]} \cap raced # {}
      BY DEF BusyAgentOnlyByRace
    <2>2. Present(i[1]) /\ Present(j[1])
      BY <2>1, IdsOfTasks DEF Present, HasRow, UnderWay
    <2>3. i[1] \in Task /\ j[1] \in Task /\ Owner[i[1]] = Owner[j[1]]
      BY <2>1, IdsOfTasks DEF AgentOf
    <2>4. QED
      BY <2>1, <2>2, <2>3 DEF IInv, OneTaskAnAgent
  <1>2. QED
    BY <1>1, TurnsHold, PTL

\* The turn's endings, the crash report and the sweep: an IN_PROGRESS task without a
\* workflow was left by a turn that ended without an answer, or by a sweep cut in two;
\* a submit, a guard stop, a reported crash or a wait never leaves one.
THEOREM NobodyLeaves == Spec => []NobodyLeavesSilently
  <1>1. IInv => NobodyLeavesSilently
    <2>1. SUFFICES ASSUME IInv, NEW t \in Task, status[t] = "IN_PROGRESS", ~ Worked(t)
                   PROVE  t \in dropped
      BY DEF NobodyLeavesSilently
    <2>2. ~ Stands(t)
      BY <2>1 DEF Worked, Running, Stands
    <2>3. QED
      BY <2>1, <2>2 DEF IInv, Accounted
  <1>2. QED
    BY <1>1, TurnsHold, PTL
===================================================================================

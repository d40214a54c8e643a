----------------------------- MODULE Workspaces_proof -----------------------------
(***************************************************************************)
(* One workspace per task, a container no weaker than asked for, and an end*)
(* of it that leaves nothing behind, for any callers, calls and mishaps.   *)
(***************************************************************************)
EXTENDS Workspaces, WellFoundedInduction, TLAPS

-----------------------------------------------------------------------------
(* The inductive invariant                                                 *)

Making == {"create", "fail", "ready"}
Remaking == {"destroy", "build", "write"}
Acting == {"act", "command", "lock", "locking", "session"}

\* A caller that works in its row, or will as soon as it looks at what it has read.
Uses(c) == call[c].pc \in Acting \/ (call[c].pc = "use" /\ call[c].was \in Usable)

\* A row that was ready once and did not fail.
Served(i) == rows[i].status \notin {"provisioning", "failed"}

\* A row ends by failing while it is provisioned, or by the merge.
RowsEnd ==
    \A i \in Inserted :
        /\ rows[i].status \in Usable \cup {"provisioning", "failed", "merged"}
        /\ rows[i].status = "merged" => i = 1 /\ merge.pc = "done"

\* A row is used after it was provisioned.
Placed(c) ==
    /\ call[c].pc \notin {"none", "lookup", "insert"} => call[c].row \in Inserted
    /\ call[c].pc \in Making => rows[call[c].row].status = "provisioning"
    /\ Uses(c) => Served(call[c].row)

\* A row is provisioned by the one caller that inserted it.
OneMaker ==
    \A c, d \in Caller :
        call[c].pc \in Making /\ call[d].pc \in Making /\ call[c].row = call[d].row => c = d

Known ==
    /\ RowsEnd /\ OneMaker
    /\ \A c \in Caller : Placed(c)
    /\ \A i \in locks \cup terms : Served(i)

\* What a caller saw at its lookup was over, and stays so.
Looked ==
    /\ OneWorkspaceUnlessRaced
    /\ \A c \in Caller :
          call[c].pc = "insert" => /\ call[c].seen <= made
                                   /\ \A i \in LiveRows : i > call[c].seen

\* What caller c and row i have to do with one another while one caller at a time
\* changes the container: the level only rises.
Fits(c, i) ==
    /\ call[c].pc = "create" => rows[i].box = NoBox /\ rows[i].level = call[c].want
    /\ call[c].pc = "ready" => rows[i].box >= rows[i].level /\ rows[i].level = call[c].want
    /\ call[c].pc \in Remaking => call[c].want > rows[i].level
    /\ call[c].pc = "build" => rows[i].box = NoBox
    /\ call[c].pc = "write" => rows[i].box = call[c].want
    /\ Uses(c) => call[c].want <= rows[i].level

\* The container is as strong as the level says, but on the way.
Strong(i) ==
    Served(i) => \/ rows[i].box >= rows[i].level
                 \/ \E c \in On(i) : call[c].pc \in {"build", "write"}

Held(i) ==
    /\ \A c, d \in Changing(i) : c = d
    /\ \A c \in On(i) : Fits(c, i)
    /\ Strong(i)

Contained == \A i \in Inserted \ spoilt : Held(i)

\* The first row is as far as the merge has read, or moved, it.
Merging ==
    /\ merge.pc # "none" => made # 0 /\ merge.seen <= made
    /\ merge.pc \in {"take", "mark", "done"} /\ merge.was # "provisioning"
          => rows[1].status # "provisioning"
    /\ merge.pc = "take" /\ merge.was \notin {"provisioning", "ready"}
          => rows[1].status # "ready"
    /\ merge.pc = "mark" /\ merge.was # "provisioning" => rows[1].status # "ready"
    /\ merge.pc = "done" /\ merge.was # "provisioning" => ~ Live(1)
    /\ merge.pc # "none" =>
          \A i \in 2..merge.seen : Live(i) => rows[1].status = "failed" \/ rows[i].seen = 0

\* Whoever adds something to a row that has ended was seen at it by the merge.
Caught(c) ==
    call[c].row \in Inserted \ LiveRows =>
        /\ call[c].pc = "locking" => "locking" \in late
        /\ Uses(c) /\ call[c].pc \in {"use", "act"} => {"use", "act"} \cap late # {}

Outlived == NothingOutlivesTheWorkspace /\ \A c \in Caller : Caught(c)

IInv == TypeOK /\ Known /\ Looked /\ Contained /\ Merging /\ Outlived

-----------------------------------------------------------------------------
(* What an action does, field by field                                     *)

CallType == [pc : Steps, row : 0..MaxRows, want : Levels, was : WorkspaceStatus,
             prepared : BOOLEAN, seen : 0..MaxRows]

\* One caller moves.
Others(c) == \A d \in Caller : d # c => call'[d] = call[d]
To(c, p) == call'[c].pc = p /\ Others(c)
Goes(c, p) ==
    /\ To(c, p)
    /\ call'[c].row = call[c].row /\ call'[c].want = call[c].want
    /\ call'[c].was = call[c].was

\* One field of one row changes.
StatusOf(i, s) ==
    /\ made' = made
    /\ \A j \in 1..MaxRows :
          /\ rows'[j].status = IF j = i THEN s ELSE rows[j].status
          /\ rows'[j].level = rows[j].level /\ rows'[j].box = rows[j].box
          /\ rows'[j].seen = rows[j].seen
LevelOf(i, l) ==
    /\ made' = made
    /\ \A j \in 1..MaxRows :
          /\ rows'[j].level = IF j = i THEN l ELSE rows[j].level
          /\ rows'[j].status = rows[j].status /\ rows'[j].box = rows[j].box
          /\ rows'[j].seen = rows[j].seen
BoxOf(i, b) ==
    /\ made' = made
    /\ \A j \in 1..MaxRows :
          /\ rows'[j].box = IF j = i THEN b ELSE rows[j].box
          /\ rows'[j].level = rows[j].level /\ rows'[j].status = rows[j].status
          /\ rows'[j].seen = rows[j].seen

LEMMA Numbers ==
    /\ MaxLevel \in 2..3 /\ MaxRows \in Nat /\ MaxCalls \in Nat /\ MaxUpsets \in Nat
    /\ Levels \in SUBSET Nat /\ {1, 2} \subseteq Levels /\ NoBox \notin Levels
    /\ 0 \in 0..MaxRows
  <1>1. MaxLevel \in 2..3 /\ {MaxRows, MaxCalls, MaxUpsets} \subseteq Nat
    BY WorkspacesAssumption DEF WorkspacesAssumption
  <1>2. QED
    BY <1>1 DEF Levels, NoBox

LEMMA IdleIsACall == Idle \in CallType /\ Idle.pc = "none" /\ Idle.row = 0
  BY Numbers DEF Idle, CallType, Steps, WorkspaceStatus

\* A field of a row set to a value of its type.
LEMMA SetStatus ==
    ASSUME rows \in [1..MaxRows -> Row], made' = made, NEW i, NEW s \in WorkspaceStatus,
           rows' = [rows EXCEPT ![i].status = s]
    PROVE  rows' \in [1..MaxRows -> Row] /\ StatusOf(i, s)
  BY DEF Row, StatusOf

LEMMA SetLevel ==
    ASSUME rows \in [1..MaxRows -> Row], made' = made, NEW i, NEW l \in Levels,
           rows' = [rows EXCEPT ![i].level = l]
    PROVE  rows' \in [1..MaxRows -> Row] /\ LevelOf(i, l)
  BY DEF Row, LevelOf

LEMMA SetBox ==
    ASSUME rows \in [1..MaxRows -> Row], made' = made, NEW i, NEW b \in Levels \cup {NoBox},
           rows' = [rows EXCEPT ![i].box = b]
    PROVE  rows' \in [1..MaxRows -> Row] /\ BoxOf(i, b)
  BY DEF Row, BoxOf

LEMMA GoDoes ==
    ASSUME call \in [Caller -> CallType], NEW c \in Caller, NEW p \in Steps, Go(c, p)
    PROVE  call' \in [Caller -> CallType] /\ Goes(c, p)
  BY DEF Go, CallType, Goes, To, Others

LEMMA LeaveDoes ==
    ASSUME call \in [Caller -> CallType], NEW c \in Caller, Leave(c)
    PROVE  call' \in [Caller -> CallType] /\ To(c, "none")
  BY IdleIsACall DEF Leave, To, Others

LEMMA Typed == TypeOK => rows \in [1..MaxRows -> Row] /\ call \in [Caller -> CallType]
  BY DEF TypeOK, CallType

LEMMA AllSteps ==
    {"none", "lookup", "insert", "create", "fail", "ready", "destroy", "build", "write",
     "use", "act", "command", "lock", "locking", "session"} \subseteq Steps
  BY DEF Steps

-----------------------------------------------------------------------------
(* The actions, one by one                                                 *)

LEMMA FirstLiveRow == TypeOK /\ (\A l : Found(l) = {}) => LiveRows = {}
  <1>1. SUFFICES ASSUME TypeOK, NEW l, Found(l) = {}, LiveRows # {}
                 PROVE  FALSE
    OBVIOUS
  <1>2. LiveRows \subseteq Nat
    BY <1>1 DEF LiveRows, Inserted
  <1>3. PICK i \in LiveRows : \A j \in LiveRows : ~ (<<j, i>> \in OpToRel(<, Nat))
    BY <1>1, <1>2, NatLessThanWellFounded, WFMin
  <1>4. \A j \in LiveRows : i <= j
    <2>1. SUFFICES ASSUME NEW j \in LiveRows
                   PROVE  i <= j
      OBVIOUS
    <2>2. i \in Nat /\ j \in Nat
      BY <1>2
    <2>3. ~ (j < i)
      BY <1>3, <2>2 DEF OpToRel
    <2>4. QED
      BY <2>2, <2>3
  <1>5. QED
    BY <1>1, <1>4 DEF Found

LEMMA BeginDoes ==
    ASSUME TypeOK, NEW c \in Caller, Begin(c)
    PROVE  /\ call' \in [Caller -> CallType]
           /\ call[c].pc = "none" /\ To(c, "lookup")
           /\ UNCHANGED <<rows, made, locks, terms, merge, spoilt, late>>
  <1>1. PICK l \in Levels : call' = [call EXCEPT ![c] =
               [Idle EXCEPT !.pc = "lookup", !.want = l, !.prepared = c \in Cli]]
    BY DEF Begin
  <1>2. [Idle EXCEPT !.pc = "lookup", !.want = l, !.prepared = c \in Cli] \in CallType
    <2>1. \A r \in CallType, k \in Levels, b \in BOOLEAN :
             [r EXCEPT !.pc = "lookup", !.want = k, !.prepared = b] \in CallType
      BY AllSteps DEF CallType
    <2>2. (c \in Cli) \in BOOLEAN
      OBVIOUS
    <2>3. QED
      BY <2>1, <2>2, IdleIsACall, Zenon
  <1>3. [Idle EXCEPT !.pc = "lookup", !.want = l, !.prepared = c \in Cli].pc = "lookup"
    BY DEF Idle
  <1>4. QED
    BY <1>1, <1>2, <1>3, Typed DEF Begin, To, Others

LEMMA LookupDoes ==
    ASSUME TypeOK, NEW c \in Caller, Lookup(c)
    PROVE  /\ call' \in [Caller -> CallType]
           /\ call[c].pc = "lookup" /\ Others(c) /\ call'[c].want = call[c].want
           /\ UNCHANGED <<rows, made, locks, terms, merge, late>>
           /\ \/ /\ call'[c].pc = "insert" /\ call'[c].seen = made
                 /\ LiveRows = {} /\ spoilt' = spoilt
              \/ /\ call'[c].pc = "use" /\ call'[c].row \in LiveRows
                 /\ call'[c].was = rows[call'[c].row].status
                 /\ call[c].want <= rows[call'[c].row].level /\ spoilt' = spoilt
              \/ /\ call'[c].pc = "destroy" /\ call'[c].row \in LiveRows
                 /\ ~ (call[c].want <= rows[call'[c].row].level)
                 /\ spoilt' = IF Changing(call'[c].row) = {} THEN spoilt
                                                     ELSE spoilt \cup {call'[c].row}
  <1> DEFINE Taken1(pc, i) == [call EXCEPT
            ![c].pc = pc, ![c].row = i,
            ![c].seen = IF pc = "insert" THEN made ELSE 0,
            ![c].was = IF pc = "use" THEN rows[i].status ELSE call[c].was]
  <1>1. call \in [Caller -> CallType] /\ made \in 0..MaxRows /\ 0 \in 0..MaxRows
    BY Typed, Numbers DEF TypeOK
  <1>2. \A i \in LiveRows : i \in 0..MaxRows /\ rows[i].status \in WorkspaceStatus
    <2>1. 1..made \subseteq 1..MaxRows /\ 1..MaxRows \subseteq 0..MaxRows
      BY <1>1, Numbers
    <2>2. LiveRows \subseteq 1..MaxRows
      BY <2>1 DEF LiveRows, Inserted
    <2>3. QED
      BY <2>1, <2>2, Typed DEF Row
  <1>3. ASSUME NEW pc \in Steps, NEW i \in 0..MaxRows,
               pc = "use" => rows[i].status \in WorkspaceStatus, call' = Taken1(pc, i)
        PROVE  /\ call' \in [Caller -> CallType] /\ Others(c)
               /\ call'[c].pc = pc /\ call'[c].row = i /\ call'[c].want = call[c].want
               /\ pc = "insert" => call'[c].seen = made
               /\ pc = "use" => call'[c].was = rows[i].status
    <2>1. call[c] \in CallType /\ call[c].was \in WorkspaceStatus
      BY <1>1 DEF CallType
    <2>2. PICK v \in 0..MaxRows : v = IF pc = "insert" THEN made ELSE 0
      BY <1>1
    <2>3. PICK w \in WorkspaceStatus : w = IF pc = "use" THEN rows[i].status ELSE call[c].was
      BY <1>3, <2>1
    <2>4. call' = [call EXCEPT ![c].pc = pc, ![c].row = i, ![c].seen = v, ![c].was = w]
      BY <1>3, <2>2, <2>3
    <2>5. /\ call' \in [Caller -> CallType] /\ Others(c)
          /\ call'[c].pc = pc /\ call'[c].row = i /\ call'[c].want = call[c].want
          /\ call'[c].seen = v /\ call'[c].was = w
      BY <1>1, <2>4 DEF CallType, Others
    <2>6. QED
      BY <2>2, <2>3, <2>5
  <1> HIDE DEF Taken1
  <1>4. \/ /\ Found(call[c].want) = {} /\ call' = Taken1("insert", 0) /\ UNCHANGED spoilt
        \/ \E i \in LiveRows :
             \/ /\ call[c].want <= rows[i].level /\ call' = Taken1("use", i)
                /\ UNCHANGED spoilt
             \/ /\ ~ (call[c].want <= rows[i].level) /\ call' = Taken1("destroy", i)
                /\ spoilt' = IF Changing(i) = {} THEN spoilt ELSE spoilt \cup {i}
    BY DEF Lookup, Found, Suffices, Taken1
  <1>5. call[c].pc = "lookup" /\ UNCHANGED <<rows, made, locks, terms, merge, late>>
    BY DEF Lookup
  <1>6. CASE Found(call[c].want) = {} /\ call' = Taken1("insert", 0) /\ UNCHANGED spoilt
    <2>1. LiveRows = {}
      BY <1>6, FirstLiveRow DEF Found
    <2>2. QED
      BY <1>1, <1>3, <1>5, <1>6, <2>1, AllSteps
  <1>7. ASSUME NEW i \in LiveRows, call[c].want <= rows[i].level, call' = Taken1("use", i),
               UNCHANGED spoilt
        PROVE  /\ call' \in [Caller -> CallType] /\ Others(c)
               /\ call'[c].pc = "use" /\ call'[c].row = i /\ call'[c].want = call[c].want
               /\ call'[c].was = rows[i].status
    BY <1>2, <1>3, <1>7, AllSteps
  <1>8. ASSUME NEW i \in LiveRows, call' = Taken1("destroy", i)
        PROVE  /\ call' \in [Caller -> CallType] /\ Others(c)
               /\ call'[c].pc = "destroy" /\ call'[c].row = i /\ call'[c].want = call[c].want
    BY <1>2, <1>3, <1>8, AllSteps
  <1>9. QED
    BY <1>4, <1>5, <1>6, <1>7, <1>8

LEMMA InsertDoes ==
    ASSUME TypeOK, NEW c \in Caller, Insert(c)
    PROVE  /\ call' \in [Caller -> CallType]
           /\ rows' \in [1..MaxRows -> Row] /\ made' \in 0..MaxRows
           /\ call[c].pc = "insert"
           /\ UNCHANGED <<locks, terms, merge, spoilt, late>>
           /\ \/ To(c, "none") /\ UNCHANGED <<rows, made>>
              \/ /\ To(c, "create") /\ call'[c].want = call[c].want /\ call'[c].row = made + 1
                 /\ made' = made + 1
                 /\ \A j \in 1..MaxRows : j # made + 1 => rows'[j] = rows[j]
                 /\ rows'[made + 1] = [status |-> "provisioning", level |-> call[c].want,
                                       box |-> NoBox, seen |-> call[c].seen]
  <1>1. call \in [Caller -> CallType] /\ rows \in [1..MaxRows -> Row]
    BY Typed
  <1>2. CASE Leave(c) /\ UNCHANGED <<rows, made>>
    BY <1>1, <1>2, LeaveDoes DEF Insert, TypeOK
  <1>3. CASE ~ (Leave(c) /\ UNCHANGED <<rows, made>>)
    <2> DEFINE r == [status |-> "provisioning", level |-> call[c].want,
                     box |-> NoBox, seen |-> call[c].seen]
    <2>1. /\ made < MaxRows /\ made' = made + 1
          /\ rows' = [rows EXCEPT ![made'] = r]
          /\ call' = [call EXCEPT ![c].pc = "create", ![c].row = made', ![c].seen = 0]
      BY <1>3 DEF Insert
    <2>2. r \in Row
      BY <1>1 DEF CallType, Row, WorkspaceStatus
    <2>3. r.status = "provisioning" /\ r.level = call[c].want /\ r.box = NoBox
          /\ r.seen = call[c].seen
      OBVIOUS
    <2> HIDE DEF r
    <2>4. made + 1 \in 1..MaxRows /\ made' \in 0..MaxRows /\ 0 \in 0..MaxRows
      BY <2>1, Numbers DEF TypeOK
    <2>5. rows' \in [1..MaxRows -> Row] /\ rows'[made + 1] = r
          /\ \A j \in 1..MaxRows : j # made + 1 => rows'[j] = rows[j]
      BY <1>1, <2>1, <2>2, <2>4
    <2>6. call' \in [Caller -> CallType] /\ To(c, "create")
          /\ call'[c].want = call[c].want /\ call'[c].row = made + 1
      BY <1>1, <2>1, <2>4, AllSteps DEF CallType, To, Others
    <2>7. QED
      BY <2>1, <2>4, <2>5, <2>6 DEF Insert, r
  <1>4. QED
    BY <1>2, <1>3

LEMMA CreateFirstDoes ==
    ASSUME TypeOK, NEW c \in Caller, CreateFirst(c),
           call[c].pc = "create" => call[c].row \in 1..MaxRows
    PROVE  /\ call' \in [Caller -> CallType]
           /\ rows' \in [1..MaxRows -> Row]
           /\ call[c].pc = "create"
           /\ UNCHANGED <<locks, terms, merge, spoilt, late>>
           /\ \/ /\ BoxOf(call[c].row, Boxed(call[c].row, call[c].want)) /\ Goes(c, "ready")
              \/ UNCHANGED <<rows, made>> /\ Goes(c, "fail")
  <1>1. call \in [Caller -> CallType] /\ rows \in [1..MaxRows -> Row]
    BY Typed
  <1>2. Boxed(call[c].row, call[c].want) \in Levels \cup {NoBox}
    BY <1>1 DEF CreateFirst, Boxed, CallType, Row
  <1>3. CASE rows' = [rows EXCEPT ![call[c].row].box = Boxed(call[c].row, call[c].want)]
             /\ Go(c, "ready") /\ made' = made
    BY <1>1, <1>2, <1>3, SetBox, GoDoes, AllSteps DEF CreateFirst
  <1>4. CASE rows' = rows /\ Go(c, "fail") /\ made' = made
    BY <1>1, <1>4, GoDoes, AllSteps DEF CreateFirst
  <1>5. QED
    BY <1>3, <1>4 DEF CreateFirst

LEMMA ProvisionFailsDoes ==
    ASSUME TypeOK, NEW c \in Caller, ProvisionFails(c)
    PROVE  /\ call' \in [Caller -> CallType]
           /\ rows' \in [1..MaxRows -> Row]
           /\ call[c].pc = "fail" /\ To(c, "none")
           /\ StatusOf(call[c].row, "failed")
           /\ UNCHANGED <<locks, terms, merge, spoilt, late>>
  <1>1. /\ call \in [Caller -> CallType] /\ rows \in [1..MaxRows -> Row]
        /\ "failed" \in WorkspaceStatus
    BY Typed DEF WorkspaceStatus
  <1>2. rows' = [rows EXCEPT ![call[c].row].status = "failed"] /\ made' = made /\ Leave(c)
    BY DEF ProvisionFails
  <1>3. QED
    BY <1>1, <1>2, SetStatus, LeaveDoes DEF ProvisionFails

LEMMA ReadyDoes ==
    ASSUME TypeOK, NEW c \in Caller, Ready(c)
    PROVE  /\ call' \in [Caller -> CallType]
           /\ rows' \in [1..MaxRows -> Row]
           /\ call[c].pc = "ready" /\ To(c, "use") /\ call'[c].was = "ready"
           /\ call'[c].row = call[c].row /\ call'[c].want = call[c].want
           /\ StatusOf(call[c].row, "ready")
           /\ UNCHANGED <<locks, terms, merge, spoilt, late>>
  <1>1. /\ call \in [Caller -> CallType] /\ rows \in [1..MaxRows -> Row]
        /\ "ready" \in WorkspaceStatus
    BY Typed DEF WorkspaceStatus
  <1>2. /\ rows' = [rows EXCEPT ![call[c].row].status = "ready"] /\ made' = made
        /\ call' = [call EXCEPT ![c].pc = "use", ![c].was = "ready"]
    BY DEF Ready
  <1>3. call' \in [Caller -> CallType] /\ To(c, "use") /\ call'[c].was = "ready"
        /\ call'[c].row = call[c].row /\ call'[c].want = call[c].want
    BY <1>1, <1>2, AllSteps DEF CallType, To, Others
  <1>4. QED
    BY <1>1, <1>2, <1>3, SetStatus DEF Ready

LEMMA DestroyDoes ==
    ASSUME TypeOK, NEW c \in Caller, Destroy(c)
    PROVE  /\ call' \in [Caller -> CallType]
           /\ rows' \in [1..MaxRows -> Row]
           /\ call[c].pc = "destroy"
           /\ UNCHANGED <<locks, terms, merge, spoilt, late>>
           /\ \/ BoxOf(call[c].row, NoBox) /\ Goes(c, "build")
              \/ UNCHANGED <<rows, made>> /\ To(c, "none")
  <1>1. call \in [Caller -> CallType] /\ rows \in [1..MaxRows -> Row]
    BY Typed
  <1>2. CASE rows' = [rows EXCEPT ![call[c].row].box = NoBox] /\ Go(c, "build") /\ made' = made
    BY <1>1, <1>2, SetBox, GoDoes, AllSteps DEF Destroy
  <1>3. CASE rows' = rows /\ Leave(c) /\ made' = made
    BY <1>1, <1>3, LeaveDoes DEF Destroy
  <1>4. QED
    BY <1>2, <1>3 DEF Destroy

LEMMA BuildDoes ==
    ASSUME TypeOK, NEW c \in Caller, Build(c), call[c].pc = "build" => call[c].row \in 1..MaxRows
    PROVE  /\ call' \in [Caller -> CallType]
           /\ rows' \in [1..MaxRows -> Row]
           /\ call[c].pc = "build"
           /\ UNCHANGED <<locks, terms, merge, late>>
           /\ \/ /\ BoxOf(call[c].row, Boxed(call[c].row, call[c].want)) /\ Goes(c, "write")
                 /\ spoilt' = spoilt
              \/ /\ UNCHANGED <<rows, made>> /\ To(c, "none")
                 /\ spoilt' = spoilt \cup {call[c].row}
  <1>1. call \in [Caller -> CallType] /\ rows \in [1..MaxRows -> Row]
    BY Typed
  <1>2. Boxed(call[c].row, call[c].want) \in Levels \cup {NoBox}
    BY <1>1 DEF Build, Boxed, CallType, Row
  <1>3. CASE rows' = [rows EXCEPT ![call[c].row].box = Boxed(call[c].row, call[c].want)]
             /\ Go(c, "write") /\ made' = made /\ spoilt' = spoilt
    BY <1>1, <1>2, <1>3, SetBox, GoDoes, AllSteps DEF Build
  <1>4. CASE rows' = rows /\ Leave(c) /\ made' = made /\ spoilt' = spoilt \cup {call[c].row}
    BY <1>1, <1>4, LeaveDoes DEF Build
  <1>5. QED
    BY <1>3, <1>4 DEF Build

LEMMA WriteDoes ==
    ASSUME TypeOK, NEW c \in Caller, Write(c), call[c].pc = "write" => call[c].row \in 1..MaxRows
    PROVE  /\ call' \in [Caller -> CallType]
           /\ rows' \in [1..MaxRows -> Row]
           /\ call[c].pc = "write"
           /\ UNCHANGED <<locks, terms, merge, spoilt, late>>
           /\ \/ UNCHANGED <<rows, made>> /\ To(c, "none")
              \/ /\ LevelOf(call[c].row, call[c].want) /\ To(c, "use")
                 /\ call'[c].row = call[c].row /\ call'[c].want = call[c].want
                 /\ call'[c].was = rows[call[c].row].status
  <1>1. call \in [Caller -> CallType] /\ rows \in [1..MaxRows -> Row]
    BY Typed
  <1>2. CASE rows' = rows /\ Leave(c) /\ made' = made
    BY <1>1, <1>2, LeaveDoes DEF Write
  <1>3. CASE /\ rows' = [rows EXCEPT ![call[c].row].level = call[c].want] /\ made' = made
             /\ call' = [call EXCEPT ![c].pc = "use", ![c].was = rows[call[c].row].status]
    <2>1. rows[call[c].row].status \in WorkspaceStatus /\ call[c].want \in Levels
      BY <1>1 DEF Write, Row, CallType
    <2>2. call' \in [Caller -> CallType] /\ To(c, "use")
          /\ call'[c].row = call[c].row /\ call'[c].want = call[c].want
          /\ call'[c].was = rows[call[c].row].status
      BY <1>1, <1>3, <2>1, AllSteps DEF CallType, To, Others
    <2>3. LevelOf(call[c].row, call[c].want) /\ rows' \in [1..MaxRows -> Row]
      BY <1>1, <1>3, <2>1, SetLevel
    <2>4. QED
      BY <2>2, <2>3 DEF Write
  <1>4. QED
    BY <1>2, <1>3 DEF Write

LEMMA Moves ==
    ASSUME NEW i, rows[i].status \in WorkspaceStatus
    PROVE  /\ CanMove(i, "in_use") <=> rows[i].status \in {"ready", "idle"}
           /\ CanMove(i, "idle") <=> rows[i].status = "in_use"
           /\ CanMove(i, "merged") <=> rows[i].status \in {"in_use", "idle"}
  BY DEF CanMove, NextOf, WorkspaceStatus

LEMMA UseDoes ==
    ASSUME TypeOK, NEW c \in Caller, Use(c)
    PROVE  /\ call' \in [Caller -> CallType]
           /\ rows' \in [1..MaxRows -> Row]
           /\ call[c].pc = "use"
           /\ UNCHANGED <<made, locks, merge, spoilt, late>>
           /\ \/ To(c, "none") /\ UNCHANGED <<rows, terms>>
              \/ /\ call[c].was \in Usable /\ Others(c) /\ call'[c].want = call[c].want
                 /\ \/ /\ call[c].was \in {"ready", "idle"} /\ CanMove(call[c].row, "in_use")
                       /\ StatusOf(call[c].row, "in_use")
                    \/ call[c].was \notin {"ready", "idle"} /\ UNCHANGED rows
                 /\ \/ call'[c].pc = "lookup"
                    \/ call'[c].pc \in {"act", "session"} /\ call'[c].row = call[c].row
                 /\ call'[c].pc = "session" => c \in Cli
                 /\ terms' \subseteq terms \cup {call[c].row}
  <1> DEFINE i == call[c].row
             p == IF ~ call[c].prepared THEN "lookup"
                  ELSE IF c \in Cli THEN "session" ELSE "act"
             k == IF call[c].prepared THEN i ELSE 0
  <1>1. /\ call \in [Caller -> CallType] /\ rows \in [1..MaxRows -> Row]
        /\ "in_use" \in WorkspaceStatus
    BY Typed DEF WorkspaceStatus
  <1>0. call[c].pc = "use" /\ UNCHANGED <<made, locks, merge, spoilt, late>>
    BY DEF Use
  <1>2. CASE UNCHANGED <<rows, terms, made>> /\ Leave(c)
    BY <1>0, <1>1, <1>2, LeaveDoes
  <1>3. CASE ~ (UNCHANGED <<rows, terms, made>> /\ Leave(c))
    <2>1. /\ call[c].was \in Usable /\ made' = made
          /\ call[c].was \in {"ready", "idle"} => CanMove(i, "in_use")
          /\ rows' = IF call[c].was \in {"ready", "idle"}
                     THEN [rows EXCEPT ![i].status = "in_use"] ELSE rows
          /\ terms' = IF c \in Cli THEN terms \cup {i} ELSE terms
      BY <1>3 DEF Use
    <2>2. call' = [call EXCEPT ![c] = [Idle EXCEPT !.want = call[c].want, !.prepared = TRUE,
                                                   !.row = k, !.pc = p]]
      BY <1>3 DEF Use
    <2>3. /\ p \in {"lookup", "session", "act"}
          /\ p = "session" => c \in Cli
          /\ p # "lookup" => k = i
          /\ k \in 0..MaxRows
      <3>1. i \in 0..MaxRows /\ 0 \in 0..MaxRows
        BY <1>1, Numbers DEF CallType
      <3>2. CASE ~ call[c].prepared
        <4>1. p = "lookup" /\ k = 0
          BY <3>2
        <4>2. QED
          BY <3>1, <4>1
      <3>3. CASE call[c].prepared /\ c \in Cli
        <4>1. p = "session" /\ k = i
          BY <3>3
        <4>2. QED
          BY <3>1, <3>3, <4>1
      <3>4. CASE call[c].prepared /\ c \notin Cli
        <4>1. p = "act" /\ k = i
          BY <3>4
        <4>2. QED
          BY <3>1, <4>1
      <3>5. QED
        BY <3>2, <3>3, <3>4
    <2>4. call[c].want \in Levels
      BY <1>1 DEF CallType
    <2> HIDE DEF p, k
    <2>6. /\ call' \in [Caller -> CallType] /\ Others(c) /\ call'[c].want = call[c].want
          /\ call'[c].pc = p /\ call'[c].row = k
      <3>1. p \in Steps
        BY <2>3, AllSteps
      <3> DEFINE x == [Idle EXCEPT !.want = call[c].want, !.prepared = TRUE,
                                   !.row = k, !.pc = p]
      <3>2. x \in CallType /\ x.want = call[c].want /\ x.row = k /\ x.pc = p
        <4>1. k \in 0..MaxRows /\ Idle \in CallType
          BY <2>3, IdleIsACall
        <4>2. QED
          BY <2>4, <3>1, <4>1 DEF CallType
      <3>3. call' = [call EXCEPT ![c] = x]
        BY <2>2
      <3> HIDE DEF x
      <3>4. QED
        BY <1>1, <3>2, <3>3 DEF Others
    <2>7. CASE call[c].was \in {"ready", "idle"}
      <3>1. rows' \in [1..MaxRows -> Row] /\ StatusOf(i, "in_use")
        BY <1>1, <2>1, <2>7, SetStatus
      <3>2. QED
        BY <1>0, <2>1, <2>3, <2>6, <2>7, <3>1
    <2>8. CASE call[c].was \notin {"ready", "idle"}
      BY <1>0, <1>1, <2>1, <2>3, <2>6, <2>8
    <2>9. QED
      BY <2>7, <2>8
  <1>4. QED
    BY <1>2, <1>3

LEMMA ActDoes ==
    ASSUME TypeOK, NEW c \in Caller, Act(c)
    PROVE  /\ call' \in [Caller -> CallType]
           /\ call[c].pc = "act"
           /\ UNCHANGED <<rows, made, locks, merge, spoilt, late>>
           /\ \/ To(c, "none") /\ terms' = terms
              \/ Goes(c, "command") /\ terms' = terms \cup {call[c].row}
              \/ Goes(c, "lock") /\ terms' = terms
  <1>1. call \in [Caller -> CallType]
    BY Typed
  <1>2. CASE Leave(c) /\ UNCHANGED terms
    BY <1>1, <1>2, LeaveDoes DEF Act
  <1>3. CASE terms' = terms \cup {call[c].row} /\ Go(c, "command")
    BY <1>1, <1>3, GoDoes, AllSteps DEF Act
  <1>4. CASE Go(c, "lock") /\ UNCHANGED terms
    BY <1>1, <1>4, GoDoes, AllSteps DEF Act
  <1>5. QED
    BY <1>2, <1>3, <1>4 DEF Act

LEMMA EndCommandDoes ==
    ASSUME TypeOK, NEW c \in Caller, EndCommand(c)
    PROVE  /\ call' \in [Caller -> CallType]
           /\ call[c].pc = "command" /\ To(c, "none")
           /\ UNCHANGED <<rows, made, locks, terms, merge, spoilt, late>>
  <1>1. call \in [Caller -> CallType] /\ Leave(c)
    BY Typed DEF EndCommand
  <1>2. QED
    BY <1>1, LeaveDoes DEF EndCommand

LEMMA CheckLockDoes ==
    ASSUME TypeOK, NEW c \in Caller, CheckLock(c)
    PROVE  /\ call' \in [Caller -> CallType]
           /\ call[c].pc = "lock"
           /\ UNCHANGED <<rows, made, locks, terms, merge, spoilt, late>>
           /\ \/ Live(call[c].row) /\ Goes(c, "locking")
              \/ To(c, "none")
  <1>1. call \in [Caller -> CallType]
    BY Typed
  <1>2. CASE Live(call[c].row) /\ Go(c, "locking")
    BY <1>1, <1>2, GoDoes, AllSteps DEF CheckLock
  <1>3. CASE Leave(c)
    BY <1>1, <1>3, LeaveDoes DEF CheckLock
  <1>4. QED
    BY <1>2, <1>3 DEF CheckLock

LEMMA TakeLockDoes ==
    ASSUME TypeOK, NEW c \in Caller, TakeLock(c)
    PROVE  /\ call' \in [Caller -> CallType]
           /\ call[c].pc = "locking" /\ To(c, "none")
           /\ UNCHANGED <<rows, made, terms, merge, spoilt, late>>
           /\ locks' = locks \cup {call[c].row}
  <1>1. call \in [Caller -> CallType] /\ Leave(c)
    BY Typed DEF TakeLock
  <1>2. QED
    BY <1>1, LeaveDoes DEF TakeLock

LEMMA EndSessionDoes ==
    ASSUME TypeOK, NEW c \in Caller, EndSession(c)
    PROVE  /\ call' \in [Caller -> CallType]
           /\ rows' \in [1..MaxRows -> Row]
           /\ call[c].pc = "session" /\ To(c, "none")
           /\ UNCHANGED <<made, locks, terms, merge, spoilt, late>>
           /\ \/ rows' = rows
              \/ CanMove(call[c].row, "idle") /\ StatusOf(call[c].row, "idle")
  <1>1. /\ call \in [Caller -> CallType] /\ rows \in [1..MaxRows -> Row]
        /\ "idle" \in WorkspaceStatus
    BY Typed DEF WorkspaceStatus
  <1>2. call' \in [Caller -> CallType] /\ To(c, "none")
    BY <1>1, LeaveDoes DEF EndSession
  <1>3. CASE rows' = rows
    BY <1>1, <1>2, <1>3 DEF EndSession
  <1>4. CASE /\ rows' = [rows EXCEPT ![call[c].row].status = "idle"]
             /\ CanMove(call[c].row, "idle") /\ made' = made
    BY <1>1, <1>2, <1>4, SetStatus DEF EndSession
  <1>5. QED
    BY <1>3, <1>4 DEF EndSession

MergeType == [pc : {"none", "take", "mark", "done", "lost"},
              was : WorkspaceStatus, seen : 0..MaxRows]

LEMMA PickRowDoes ==
    ASSUME TypeOK, PickRow
    PROVE  /\ merge' \in MergeType
           /\ made # 0 /\ merge.pc = "none"
           /\ merge'.pc = "take" /\ merge'.was = rows[1].status /\ merge'.seen = made
           /\ UNCHANGED <<rows, made, call, locks, terms, spoilt, late>>
  <1>1. made \in 0..MaxRows /\ made # 0 /\ rows \in [1..MaxRows -> Row]
    BY Typed DEF TypeOK, PickRow
  <1>2. rows[1].status \in WorkspaceStatus
    <2>1. 1 \in 1..MaxRows
      BY <1>1, Numbers
    <2>2. QED
      BY <1>1, <2>1 DEF Row
  <1>3. QED
    BY <1>1, <1>2 DEF PickRow, MergeType

LEMMA TakeReadyDoes ==
    ASSUME TypeOK, TakeReady, made # 0
    PROVE  /\ merge' \in MergeType
           /\ rows' \in [1..MaxRows -> Row]
           /\ merge.pc = "take"
           /\ merge'.was = merge.was /\ merge'.seen = merge.seen
           /\ UNCHANGED <<made, call, locks, terms, spoilt, late>>
           /\ \/ merge'.pc = "lost" /\ rows' = rows
              \/ /\ merge'.pc = "mark" /\ merge.was = "ready"
                 /\ CanMove(1, "in_use") /\ StatusOf(1, "in_use")
              \/ merge'.pc = "mark" /\ merge.was # "ready" /\ rows' = rows
  <1>1. /\ merge \in MergeType /\ rows \in [1..MaxRows -> Row]
        /\ "in_use" \in WorkspaceStatus
    BY Typed DEF TypeOK, MergeType, WorkspaceStatus
  <1>2. merge.pc = "take" /\ made' = made /\ UNCHANGED <<call, locks, terms, spoilt, late>>
    BY DEF TakeReady
  <1>3. CASE merge.was = "ready" /\ ~ CanMove(1, "in_use")
    <2>1. merge' = [merge EXCEPT !.pc = "lost"] /\ rows' = rows
      BY <1>3 DEF TakeReady
    <2>2. QED
      BY <1>1, <1>2, <2>1 DEF MergeType
  <1>4. CASE merge.was = "ready" /\ CanMove(1, "in_use")
    <2>1. merge' = [merge EXCEPT !.pc = "mark"] /\ rows' = [rows EXCEPT ![1].status = "in_use"]
      BY <1>4 DEF TakeReady
    <2>2. rows' \in [1..MaxRows -> Row] /\ StatusOf(1, "in_use")
      BY <1>1, <1>2, <2>1, SetStatus
    <2>3. merge' \in MergeType /\ merge'.pc = "mark" /\ merge'.was = merge.was
          /\ merge'.seen = merge.seen
      BY <1>1, <2>1 DEF MergeType
    <2>4. QED
      BY <1>2, <1>4, <2>2, <2>3
  <1>5. CASE merge.was # "ready"
    <2>1. merge' = [merge EXCEPT !.pc = "mark"] /\ rows' = rows
      BY <1>5 DEF TakeReady
    <2>2. QED
      BY <1>1, <1>2, <1>5, <2>1 DEF MergeType
  <1>6. QED
    BY <1>3, <1>4, <1>5

LEMMA MarkMergedDoes ==
    ASSUME TypeOK, MarkMerged
    PROVE  /\ merge' \in MergeType
           /\ rows' \in [1..MaxRows -> Row]
           /\ merge.pc = "mark"
           /\ merge'.pc = "done" /\ merge'.was = merge.was /\ merge'.seen = merge.seen
           /\ UNCHANGED <<made, call, spoilt>>
           /\ \/ /\ CanMove(1, "merged") /\ StatusOf(1, "merged")
                 /\ locks' = locks \ {1} /\ terms' = terms \ {1}
                 /\ late' = late \cup (Adding \cap {call[c].pc : c \in On(1)})
              \/ ~ CanMove(1, "merged") /\ UNCHANGED <<rows, locks, terms, late>>
  <1>1. /\ merge \in MergeType /\ rows \in [1..MaxRows -> Row]
        /\ "merged" \in WorkspaceStatus
    BY Typed DEF TypeOK, MergeType, WorkspaceStatus
  <1>2. merge.pc = "mark" /\ merge' = [merge EXCEPT !.pc = "done"]
        /\ UNCHANGED <<made, call, spoilt>>
    BY DEF MarkMerged
  <1>3. merge' \in MergeType /\ merge'.pc = "done" /\ merge'.was = merge.was
        /\ merge'.seen = merge.seen
    BY <1>1, <1>2 DEF MergeType
  <1>4. CASE CanMove(1, "merged")
    <2>1. /\ rows' = [rows EXCEPT ![1].status = "merged"]
          /\ locks' = locks \ {1} /\ terms' = terms \ {1}
          /\ late' = late \cup (Adding \cap {call[c].pc : c \in On(1)})
      BY <1>4 DEF MarkMerged
    <2>2. rows' \in [1..MaxRows -> Row] /\ StatusOf(1, "merged")
      BY <1>1, <1>2, <2>1, SetStatus
    <2>3. QED
      BY <1>2, <1>3, <1>4, <2>1, <2>2
  <1>5. CASE ~ CanMove(1, "merged")
    BY <1>1, <1>2, <1>3, <1>5 DEF MarkMerged
  <1>6. QED
    BY <1>4, <1>5

LEMMA WorkerDiesDoes ==
    ASSUME TypeOK, WorkerDies
    PROVE  /\ call' \in [Caller -> CallType]
           /\ \A c \in Caller : call'[c] = IF c \in Cli THEN Idle ELSE call[c]
           /\ spoilt' = spoilt \cup Halfway(Cli)
           /\ UNCHANGED <<rows, made, locks, terms, merge, late>>
  BY Typed, IdleIsACall DEF WorkerDies

LEMMA ServerRestartsDoes ==
    ASSUME TypeOK, ServerRestarts
    PROVE  /\ call' \in [Caller -> CallType]
           /\ merge' \in MergeType
           /\ \A c \in Caller : call'[c] = IF c \in Tool THEN Idle ELSE call[c]
           /\ spoilt' = spoilt \cup Halfway(Tool)
           /\ terms' = {}
           /\ \/ merge' = merge
              \/ /\ merge.pc \in {"take", "mark"} /\ merge'.pc = "lost"
                 /\ merge'.was = merge.was /\ merge'.seen = merge.seen
           /\ UNCHANGED <<rows, made, locks, late>>
  <1>1. merge \in MergeType
    BY DEF TypeOK, MergeType
  <1>2. QED
    BY <1>1, Typed, IdleIsACall DEF ServerRestarts, MergeType

-----------------------------------------------------------------------------
(* What a step that ends no row leaves as it was                           *)

LEMMA RowsInserted ==
    TypeOK => Inserted \subseteq 1..MaxRows /\ made \in Nat /\ Inserted \subseteq Nat
  <1>1. TypeOK => made \in 0..MaxRows
    BY DEF TypeOK
  <1>2. QED
    BY <1>1, Numbers DEF Inserted

LEMMA RowTyped ==
    ASSUME TypeOK, NEW i \in Inserted
    PROVE  /\ i \in Nat /\ rows[i].status \in WorkspaceStatus
           /\ rows[i].level \in Nat /\ rows[i].box \in Nat /\ rows[i].seen \in Nat
  <1>1. NoBox \in Nat /\ Levels \subseteq Nat /\ 0..MaxRows \subseteq Nat
    BY Numbers DEF NoBox
  <1>2. i \in 1..MaxRows /\ i \in Nat
    BY RowsInserted
  <1>3. rows[i] \in Row
    BY <1>2, Typed
  <1>4. QED
    BY <1>1, <1>2, <1>3 DEF Row

LEMMA CallTyped ==
    ASSUME TypeOK, NEW d \in Caller
    PROVE  call[d].want \in Nat /\ call[d].want \in Levels /\ call[d].seen \in Nat
  <1>1. Levels \subseteq Nat /\ 0..MaxRows \subseteq Nat
    BY Numbers
  <1>2. QED
    BY <1>1, Typed DEF CallType

\* Statuses go on: no row is inserted, and none ends.
Progress ==
    /\ made' = made /\ Inserted' = Inserted
    /\ \A j \in Inserted :
          /\ rows'[j].seen = rows[j].seen
          /\ \/ rows'[j].status = rows[j].status
             \/ rows[j].status = "provisioning" /\ rows'[j].status = "ready"
             \/ rows[j].status \in {"ready", "idle"} /\ rows'[j].status = "in_use"
             \/ rows[j].status = "in_use" /\ rows'[j].status = "idle"

LEMMA ProgressKeepsRows ==
    ASSUME Progress, NEW j \in Inserted
    PROVE  /\ Live(j)' <=> Live(j)
           /\ Served(j) => Served(j)'
           /\ Served(j)' /\ ~ Served(j)
                 => rows[j].status = "provisioning" /\ rows'[j].status = "ready"
           /\ rows[j].status = "failed" => rows'[j].status = "failed"
           /\ rows'[j].status = "provisioning" => rows[j].status = "provisioning"
           /\ rows'[j].status = "ready" => rows[j].status \in {"provisioning", "ready"}
           /\ rows'[j].status = "merged" => rows[j].status = "merged"
           /\ ~ Live(j) => rows'[j].status = rows[j].status
           /\ rows'[j].seen = rows[j].seen
  BY DEF Progress, Live, Served, Dead

LEMMA ProgressKeepsLive == Progress => LiveRows' = LiveRows
  <1>1. SUFFICES ASSUME Progress
                 PROVE  LiveRows' = LiveRows
    OBVIOUS
  <1>2. \A j \in Inserted : Live(j)' <=> Live(j)
    BY <1>1, ProgressKeepsRows
  <1>3. Inserted' = Inserted
    BY <1>1 DEF Progress
  <1>4. QED
    BY <1>2, <1>3 DEF LiveRows

LEMMA RowsEndStays ==
    ASSUME RowsEnd, Progress, merge.pc = "done" => merge'.pc = "done"
    PROVE  RowsEnd'
  BY DEF RowsEnd, Progress, Usable

LEMMA OneMakerStays ==
    ASSUME OneMaker,
           \A d \in Caller : call'[d].pc \in Making =>
              call[d].pc \in Making /\ call'[d].row = call[d].row
    PROVE  OneMaker'
  BY DEF OneMaker

\* A caller that does not move, in a row that nobody else has made ready.
LEMMA PlacedStays ==
    ASSUME NEW d \in Caller, call'[d] = call[d], Placed(d), Progress,
           call[d].pc \in Making => rows'[call[d].row].status = rows[call[d].row].status
    PROVE  Placed(d)'
  <1>1. Uses(d)' <=> Uses(d)
    BY DEF Uses
  <1>2. Inserted' = Inserted
    BY DEF Progress
  <1>3. Uses(d) => rows'[call[d].row].status \notin {"provisioning", "failed"}
    <2>1. SUFFICES ASSUME Uses(d)
                   PROVE  rows'[call[d].row].status \notin {"provisioning", "failed"}
      OBVIOUS
    <2>2. call[d].row \in Inserted /\ Served(call[d].row)
      BY <2>1 DEF Placed, Uses, Acting
    <2>3. \A j \in Inserted : Served(j) => Served(j)'
      BY ProgressKeepsRows
    <2>4. QED
      BY <2>2, <2>3 DEF Served
  <1>4. call'[d].row = call[d].row /\ call'[d].pc = call[d].pc
    OBVIOUS
  <1>5. QED
    BY <1>1, <1>2, <1>3, <1>4 DEF Placed, Served

LEMMA UsedStays ==
    ASSUME TypeOK, Progress, \A i \in locks \cup terms : Served(i),
           NEW k, Served(k)', locks' \subseteq locks \cup {k}, terms' \subseteq terms \cup {k}
    PROVE  \A i \in locks' \cup terms' : Served(i)'
  <1>1. locks \cup terms \subseteq Inserted
    BY DEF TypeOK
  <1>2. SUFFICES ASSUME NEW i \in locks \cup terms
                 PROVE  Served(i)'
    BY DEF Served
  <1>3. QED
    BY <1>1, ProgressKeepsRows

LEMMA LookedStays ==
    ASSUME Looked, Progress,
           \A d \in Caller : call'[d].pc = "insert" =>
              call[d].pc = "insert" /\ call'[d].seen = call[d].seen
    PROVE  Looked'
  <1>1. LiveRows' = LiveRows
    BY ProgressKeepsLive
  <1>2. \A i \in LiveRows : rows'[i].seen = rows[i].seen
    BY DEF LiveRows, Progress
  <1>3. QED
    BY <1>1, <1>2 DEF Looked, OneWorkspaceUnlessRaced, Progress

LEMMA MergingStays ==
    ASSUME TypeOK, Merging, Progress,
           merge' = merge \/ (merge'.pc = "lost" /\ merge.pc # "none" /\ merge'.seen = merge.seen)
    PROVE  Merging'
  <1>1. CASE merge.pc = "none"
    <2>1. merge'.pc = "none"
      BY <1>1
    <2>2. QED
      BY <2>1 DEF Merging
  <1>2. CASE merge.pc # "none"
    <2>1. made' = made /\ made # 0 /\ merge.seen <= made /\ merge'.seen = merge.seen
      BY <1>2 DEF Merging, Progress
    <2>2. 1 \in Inserted /\ \A i \in 2..merge.seen : i \in Inserted
      BY <2>1 DEF Inserted, TypeOK
    <2>3. /\ Live(1)' <=> Live(1)
          /\ rows[1].status = "failed" => rows'[1].status = "failed"
          /\ rows'[1].status = "provisioning" => rows[1].status = "provisioning"
          /\ rows'[1].status = "ready" => rows[1].status \in {"provisioning", "ready"}
      BY <2>2, ProgressKeepsRows
    <2>4. \A i \in 2..merge.seen : Live(i)' => rows'[1].status = "failed" \/ rows'[i].seen = 0
      <3>1. \A i \in 2..merge.seen : rows'[i].seen = rows[i].seen /\ (Live(i)' <=> Live(i))
        BY <2>2, ProgressKeepsRows
      <3>2. QED
        BY <1>2, <2>3, <3>1 DEF Merging
    <2>5. CASE merge' = merge
      BY <1>2, <2>1, <2>3, <2>4, <2>5 DEF Merging
    <2>6. CASE merge'.pc = "lost"
      BY <1>2, <2>1, <2>4, <2>6 DEF Merging
    <2>7. QED
      BY <2>5, <2>6
  <1>3. QED
    BY <1>1, <1>2

\* The callers of a row that nobody has touched: they stand still, or have left, or
\* go on in it.
LEMMA HeldStays ==
    ASSUME NEW i, Held(i), rows'[i].level = rows[i].level, rows'[i].box = rows[i].box,
           Served(i)' => Served(i),
           \A d \in Caller :
              \/ call'[d] = call[d]
              \/ /\ call[d].pc \notin {"build", "write"} \/ call[d].row # i
                 /\ call'[d].row # i
              \/ /\ call[d].pc \notin {"build", "write"} \/ call[d].row # i
                 /\ call'[d].pc \in {"none", "lookup", "insert", "fail"}
                 /\ call'[d].pc = "fail" => call[d].row = i /\ call[d].pc = "create"
              \/ /\ call[d].row = i /\ Uses(d)
                 /\ call'[d].pc \in Acting /\ call'[d].want = call[d].want
    PROVE  Held(i)'
  <1>1. \A d \in Changing(i)' : d \in Changing(i)
    BY DEF Changing, On, Acting
  <1>2. \A d \in On(i)' : Fits(d, i)'
    <2>1. SUFFICES ASSUME NEW d \in Caller, call'[d].row = i, call'[d].pc # "none"
                   PROVE  Fits(d, i)'
      BY DEF On
    <2>2. CASE call'[d] = call[d]
      <3>1. Fits(d, i)
        BY <2>1, <2>2 DEF Held, On
      <3>2. Uses(d)' <=> Uses(d)
        BY <2>2 DEF Uses
      <3>3. QED
        BY <2>2, <3>1, <3>2 DEF Fits
    <2>3. CASE call'[d].pc \in {"none", "lookup", "insert", "fail"}
      BY <2>3 DEF Fits, Uses, Acting, Remaking
    <2>4. CASE /\ call[d].row = i /\ Uses(d)
               /\ call'[d].pc \in Acting /\ call'[d].want = call[d].want
      <3>1. Uses(d) /\ d \in On(i)
        BY <2>4 DEF Uses, On, Acting
      <3>2. call[d].want <= rows[i].level
        BY <3>1 DEF Held, Fits
      <3>3. QED
        BY <2>4, <3>2 DEF Fits, Acting, Remaking
    <2>5. QED
      BY <2>1, <2>2, <2>3, <2>4
  <1>3. Strong(i)'
    <2>1. SUFFICES ASSUME Served(i)', ~ (rows'[i].box >= rows'[i].level)
                   PROVE  \E c \in On(i)' : call'[c].pc \in {"build", "write"}
      BY DEF Strong
    <2>2. PICK c \in On(i) : call[c].pc \in {"build", "write"}
      BY <2>1 DEF Held, Strong
    <2>3. call'[c] = call[c]
      BY <2>2 DEF On, Acting, Uses
    <2>4. QED
      BY <2>2, <2>3 DEF On
  <1>4. QED
    BY <1>1, <1>2, <1>3 DEF Held

\* A caller comes to a row, and changes it only if nobody else does.
LEMMA HeldJoined ==
    ASSUME NEW i, Held(i), NEW c \in Caller, Others(c), call[c].pc \notin {"build", "write"},
           rows'[i].level = rows[i].level, rows'[i].box = rows[i].box,
           Served(i)' <=> Served(i), Fits(c, i)',
           call'[c].pc \in Making \cup Remaking => Changing(i) = {}
    PROVE  Held(i)'
  <1>1. \A d \in Caller : d # c => call'[d] = call[d]
    BY DEF Others
  <1>2. \A d \in Changing(i)' : d = c \/ d \in Changing(i)
    BY <1>1 DEF Changing, On
  <1>3. c \in Changing(i)' => Changing(i) = {}
    BY DEF Changing, Making, Remaking
  <1>4. \A d, e \in Changing(i)' : d = e
    BY <1>2, <1>3 DEF Held
  <1>5. ASSUME NEW d \in On(i)', d # c
        PROVE  Fits(d, i)'
    <2>1. call'[d] = call[d] /\ d \in On(i)
      BY <1>1, <1>5 DEF On
    <2>2. Fits(d, i) /\ (Uses(d)' <=> Uses(d))
      BY <2>1 DEF Held, Uses
    <2>3. QED
      BY <2>1, <2>2 DEF Fits
  <1>6. Strong(i)'
    <2>1. SUFFICES ASSUME Served(i)', ~ (rows'[i].box >= rows'[i].level)
                   PROVE  \E d \in On(i)' : call'[d].pc \in {"build", "write"}
      BY DEF Strong
    <2>2. PICK d \in On(i) : call[d].pc \in {"build", "write"}
      BY <2>1 DEF Held, Strong
    <2>3. call'[d] = call[d] /\ d \in Caller
      BY <1>1, <2>2 DEF On
    <2>4. QED
      BY <2>2, <2>3 DEF On
  <1>7. QED
    BY <1>4, <1>5, <1>6 DEF Held

\* The one caller that changes the container, at a step of the change.
LEMMA HeldAlone ==
    ASSUME TypeOK, NEW i \in Inserted, Held(i), NEW c \in Changing(i), Others(c),
           rows'[i].level \in Nat, rows'[i].level >= rows[i].level,
           call'[c].row = i \/ call'[c].pc = "none", Fits(c, i)', Strong(i)'
    PROVE  Held(i)'
  <1>1. \A d \in Caller : d # c => call'[d] = call[d]
    BY DEF Others
  <1>2. \A d \in Changing(i)' : d = c
    <2>1. SUFFICES ASSUME NEW d \in Changing(i)', d # c
                   PROVE  FALSE
      OBVIOUS
    <2>2. call'[d] = call[d] /\ d \in Changing(i)
      BY <1>1, <2>1 DEF Changing, On
    <2>3. QED
      BY <2>1, <2>2 DEF Held
  <1>3. ASSUME NEW d \in On(i)', d # c
        PROVE  Fits(d, i)'
    <2>1. call'[d] = call[d] /\ d \in On(i) /\ d \in Caller
      BY <1>1, <1>3 DEF On
    <2>2. d \notin Changing(i)
      BY <1>3 DEF Held
    <2>3. call[d].pc \notin {"create", "ready", "destroy", "build", "write"}
      BY <2>1, <2>2 DEF Changing
    <2>4. Uses(d) => call[d].want <= rows[i].level
      BY <2>1 DEF Held, Fits
    <2>5. Uses(d)' => call[d].want <= rows'[i].level
      <3>1. Uses(d)' <=> Uses(d)
        BY <2>1 DEF Uses
      <3>2. call[d].want \in Nat /\ rows[i].level \in Nat
        BY <2>1, CallTyped, RowTyped
      <3>3. QED
        BY <2>4, <3>1, <3>2
    <2>6. QED
      BY <2>1, <2>3, <2>5 DEF Fits, Remaking
  <1>4. QED
    BY <1>2, <1>3 DEF Held

LEMMA CaughtStays ==
    ASSUME NEW d \in Caller, Caught(d), Progress, late' = late,
           \/ call'[d] = call[d]
           \/ call'[d].pc \in {"none", "lookup", "insert", "create", "fail", "ready",
                               "destroy", "build", "write", "command", "lock", "session"}
    PROVE  Caught(d)'
  <1>1. LiveRows' = LiveRows /\ Inserted' = Inserted
    BY ProgressKeepsLive DEF Progress
  <1>2. CASE call'[d] = call[d]
    <2>1. Uses(d)' <=> Uses(d)
      BY <1>2 DEF Uses
    <2>2. QED
      BY <1>1, <1>2, <2>1 DEF Caught
  <1>3. CASE call'[d].pc \notin {"locking", "use", "act"}
    BY <1>3 DEF Caught
  <1>4. QED
    BY <1>2, <1>3

\* Nothing is added, or by someone the merge has seen.
LEMMA NothingStays ==
    ASSUME NothingOutlivesTheWorkspace, Progress, late' = late, NEW k,
           \/ locks' = locks
           \/ /\ locks' = locks \cup {k}
              /\ k \in Inserted \ LiveRows => "locking" \in late,
           \/ terms' \subseteq terms
           \/ /\ terms' \subseteq terms \cup {k}
              /\ k \in Inserted \ LiveRows => {"use", "act"} \cap late # {}
    PROVE  NothingOutlivesTheWorkspace'
  <1>1. LiveRows' = LiveRows /\ Inserted' = Inserted
    BY ProgressKeepsLive DEF Progress
  <1>2. QED
    BY <1>1 DEF NothingOutlivesTheWorkspace

-----------------------------------------------------------------------------
(* The invariant, action by action                                         *)

LEMMA Parts ==
    IInv => /\ TypeOK /\ RowsEnd /\ OneMaker /\ Looked /\ Contained /\ Merging
            /\ NothingOutlivesTheWorkspace
            /\ \A d \in Caller : Placed(d) /\ Caught(d)
            /\ \A i \in locks \cup terms : Served(i)
  BY DEF IInv, Known, Outlived

LEMMA Whole ==
    ASSUME TypeOK', RowsEnd', OneMaker', Looked', Contained', Merging',
           NothingOutlivesTheWorkspace', \A d \in Caller : Placed(d)' /\ Caught(d)',
           \A i \in locks' \cup terms' : Served(i)'
    PROVE  IInv'
  BY DEF IInv, Known, Outlived

\* Fewer rows are live than were.
LEMMA LookedShrinks ==
    ASSUME Looked, made' = made, LiveRows' \subseteq LiveRows,
           \A i \in LiveRows : rows'[i].seen = rows[i].seen,
           \A d \in Caller : call'[d].pc = "insert" =>
              call[d].pc = "insert" /\ call'[d].seen = call[d].seen
    PROVE  Looked'
  BY DEF Looked, OneWorkspaceUnlessRaced

\* A caller leaves, and nothing else happens.
LEMMA LeavingKeeps ==
    ASSUME IInv, TypeOK', NEW c \in Caller, To(c, "none"), call[c].pc \notin {"build", "write"},
           UNCHANGED <<rows, made, locks, terms, merge, spoilt, late>>
    PROVE  IInv'
  <1>1. /\ TypeOK /\ RowsEnd /\ OneMaker /\ Looked /\ Contained /\ Merging
        /\ NothingOutlivesTheWorkspace
        /\ \A d \in Caller : Placed(d) /\ Caught(d)
        /\ \A i \in locks \cup terms : Served(i)
        /\ Inserted \subseteq 1..MaxRows
    BY Parts, RowsInserted
  <1>2. /\ call[c].pc \notin {"build", "write"} /\ To(c, "none")
        /\ UNCHANGED <<rows, made, locks, terms, merge, spoilt, late>>
    OBVIOUS
  <1>3. TypeOK'
    OBVIOUS
  <1>4. Progress
    BY <1>1, <1>2 DEF Progress, Inserted, To, Others, Goes
  <1>5. RowsEnd' /\ OneMaker'
    <2>1. RowsEnd'
      BY <1>1, <1>2, <1>4, RowsEndStays
    <2>2. \A d \in Caller : call'[d].pc \in Making =>
             call[d].pc \in Making /\ call'[d].row = call[d].row
      BY <1>1, <1>2 DEF Making, To, Others, Goes
    <2>3. QED
      BY <1>1, <2>1, <2>2, OneMakerStays
  <1>6. ASSUME NEW d \in Caller
        PROVE  Placed(d)' /\ Caught(d)'
    <2>1. CASE d # c
      <3>1. call'[d] = call[d]
        BY <1>2, <2>1 DEF To, Others, Goes
      <3>2. call[d].pc \in Making => rows'[call[d].row].status = rows[call[d].row].status
        BY <1>1, <1>2 DEF Placed, Making
      <3>3. Placed(d)'
        BY <1>1, <1>4, <3>1, <3>2, PlacedStays
      <3>4. Caught(d)'
        BY <1>1, <1>2, <1>4, <3>1, CaughtStays
      <3>5. QED
        BY <3>3, <3>4
    <2>2. Placed(c)'
      BY <1>1, <1>2, <1>4 DEF Placed, Uses, Making, Acting, Progress, To, Others, Goes
    <2>3. Caught(c)'
      <3>1. call'[c].pc \in {"none", "lookup", "insert", "create", "fail", "ready",
                           "destroy", "build", "write", "command", "lock", "session"}
        BY <1>2 DEF To, Goes
      <3>2. QED
        BY <1>1, <1>2, <1>4, <3>1, CaughtStays
    <2>4. QED
      BY <2>1, <2>2, <2>3
  <1>7. /\ \A i \in locks' \cup terms' : Served(i)'
        /\ NothingOutlivesTheWorkspace'
    <2>1. \A i \in locks' \cup terms' : Served(i)'
      <3>1. CASE locks \cup terms = {}
        BY <1>2, <3>1
      <3>2. CASE locks \cup terms # {}
        <4>1. PICK k \in locks \cup terms : Served(k)'
          BY <1>1, <1>4, <3>2, ProgressKeepsRows DEF TypeOK
        <4>2. QED
          BY <1>1, <1>2, <1>4, <4>1, UsedStays
      <3>3. QED
        BY <3>1, <3>2
    <2>2. NothingOutlivesTheWorkspace'
      BY <1>1, <1>2, <1>4, NothingStays
    <2>3. QED
      BY <2>1, <2>2
  <1>8. Looked'
    <2>1. \A d \in Caller : call'[d].pc = "insert" =>
             call[d].pc = "insert" /\ call'[d].seen = call[d].seen
      BY <1>1, <1>2 DEF To, Others, Goes
    <2>2. QED
      BY <1>1, <1>4, <2>1, LookedStays
  <1>9. Merging'
    BY <1>1, <1>2, <1>4, MergingStays
  <1>10. Contained'
    <2>1. SUFFICES ASSUME NEW i \in Inserted, i \notin spoilt'
                   PROVE  Held(i)'
      BY <1>4 DEF Contained, Progress
    <2>2. i \notin spoilt /\ Held(i)
      BY <1>1, <1>2, <2>1 DEF Contained
    <2>3. /\ rows'[i].level = rows[i].level /\ rows'[i].box = rows[i].box
          /\ Served(i)' => Served(i)
      BY <1>1, <1>2, <2>1 DEF Served
    <2>4. \A d \in Caller :
            \/ call'[d] = call[d]
            \/ /\ call[d].pc \notin {"build", "write"} \/ call[d].row # i
               /\ call'[d].row # i
            \/ /\ call[d].pc \notin {"build", "write"} \/ call[d].row # i
               /\ call'[d].pc \in {"none", "lookup", "insert", "fail"}
               /\ call'[d].pc = "fail" => call[d].row = i /\ call[d].pc = "create"
            \/ /\ call[d].row = i /\ Uses(d)
               /\ call'[d].pc \in Acting /\ call'[d].want = call[d].want
      BY <1>1, <1>2, <2>1 DEF Acting, Uses, To, Others, Goes
    <2>5. QED
      BY <2>2, <2>3, <2>4, HeldStays
  <1>11. QED
    BY <1>3, <1>5, <1>6, <1>7, <1>8, <1>9, <1>10, Whole

LEMMA BeginKeeps ==
    ASSUME IInv, NEW c \in Caller, Begin(c)
    PROVE  IInv'
  <1>1. /\ TypeOK /\ RowsEnd /\ OneMaker /\ Looked /\ Contained /\ Merging
        /\ NothingOutlivesTheWorkspace
        /\ \A d \in Caller : Placed(d) /\ Caught(d)
        /\ \A i \in locks \cup terms : Served(i)
        /\ Inserted \subseteq 1..MaxRows
    BY Parts, RowsInserted
  <1>2. /\ call' \in [Caller -> CallType]
        /\ call[c].pc = "none" /\ To(c, "lookup")
        /\ UNCHANGED <<rows, made, locks, terms, merge, spoilt, late>>
    BY <1>1, BeginDoes
  <1>3. TypeOK'
    <2>1. /\ calls' \in 0..MaxCalls /\ upsets' \in 0..MaxUpsets /\ Inserted' = Inserted
          /\ made' = made
      BY <1>1, <1>2, Numbers DEF Begin, TypeOK, counts, Inserted
    <2>2. QED
      BY <1>1, <1>2, <2>1, Numbers DEF TypeOK, CallType
  <1>4. Progress
    BY <1>1, <1>2 DEF Progress, Inserted, To, Others, Goes
  <1>5. RowsEnd' /\ OneMaker'
    <2>1. RowsEnd'
      BY <1>1, <1>2, <1>4, RowsEndStays
    <2>2. \A d \in Caller : call'[d].pc \in Making =>
             call[d].pc \in Making /\ call'[d].row = call[d].row
      BY <1>1, <1>2 DEF Making, To, Others, Goes
    <2>3. QED
      BY <1>1, <2>1, <2>2, OneMakerStays
  <1>6. ASSUME NEW d \in Caller
        PROVE  Placed(d)' /\ Caught(d)'
    <2>1. CASE d # c
      <3>1. call'[d] = call[d]
        BY <1>2, <2>1 DEF To, Others, Goes
      <3>2. call[d].pc \in Making => rows'[call[d].row].status = rows[call[d].row].status
        BY <1>1, <1>2 DEF Placed, Making
      <3>3. Placed(d)'
        BY <1>1, <1>4, <3>1, <3>2, PlacedStays
      <3>4. Caught(d)'
        BY <1>1, <1>2, <1>4, <3>1, CaughtStays
      <3>5. QED
        BY <3>3, <3>4
    <2>2. Placed(c)'
      BY <1>1, <1>2, <1>4 DEF Placed, Uses, Making, Acting, Progress, To, Others, Goes
    <2>3. Caught(c)'
      <3>1. call'[c].pc \in {"none", "lookup", "insert", "create", "fail", "ready",
                           "destroy", "build", "write", "command", "lock", "session"}
        BY <1>2 DEF To, Goes
      <3>2. QED
        BY <1>1, <1>2, <1>4, <3>1, CaughtStays
    <2>4. QED
      BY <2>1, <2>2, <2>3
  <1>7. /\ \A i \in locks' \cup terms' : Served(i)'
        /\ NothingOutlivesTheWorkspace'
    <2>1. \A i \in locks' \cup terms' : Served(i)'
      <3>1. CASE locks \cup terms = {}
        BY <1>2, <3>1
      <3>2. CASE locks \cup terms # {}
        <4>1. PICK k \in locks \cup terms : Served(k)'
          BY <1>1, <1>4, <3>2, ProgressKeepsRows DEF TypeOK
        <4>2. QED
          BY <1>1, <1>2, <1>4, <4>1, UsedStays
      <3>3. QED
        BY <3>1, <3>2
    <2>2. NothingOutlivesTheWorkspace'
      BY <1>1, <1>2, <1>4, NothingStays
    <2>3. QED
      BY <2>1, <2>2
  <1>8. Looked'
    <2>1. \A d \in Caller : call'[d].pc = "insert" =>
             call[d].pc = "insert" /\ call'[d].seen = call[d].seen
      BY <1>1, <1>2 DEF To, Others, Goes
    <2>2. QED
      BY <1>1, <1>4, <2>1, LookedStays
  <1>9. Merging'
    BY <1>1, <1>2, <1>4, MergingStays
  <1>10. Contained'
    <2>1. SUFFICES ASSUME NEW i \in Inserted, i \notin spoilt'
                   PROVE  Held(i)'
      BY <1>4 DEF Contained, Progress
    <2>2. i \notin spoilt /\ Held(i)
      BY <1>1, <1>2, <2>1 DEF Contained
    <2>3. /\ rows'[i].level = rows[i].level /\ rows'[i].box = rows[i].box
          /\ Served(i)' => Served(i)
      BY <1>1, <1>2, <2>1 DEF Served
    <2>4. \A d \in Caller :
            \/ call'[d] = call[d]
            \/ /\ call[d].pc \notin {"build", "write"} \/ call[d].row # i
               /\ call'[d].row # i
            \/ /\ call[d].pc \notin {"build", "write"} \/ call[d].row # i
               /\ call'[d].pc \in {"none", "lookup", "insert", "fail"}
               /\ call'[d].pc = "fail" => call[d].row = i /\ call[d].pc = "create"
            \/ /\ call[d].row = i /\ Uses(d)
               /\ call'[d].pc \in Acting /\ call'[d].want = call[d].want
      BY <1>1, <1>2, <2>1 DEF Acting, Uses, To, Others, Goes
    <2>5. QED
      BY <2>2, <2>3, <2>4, HeldStays
  <1>11. QED
    BY <1>3, <1>5, <1>6, <1>7, <1>8, <1>9, <1>10, Whole

LEMMA LookupKeeps ==
    ASSUME IInv, NEW c \in Caller, Lookup(c)
    PROVE  IInv'
  <1>1. /\ TypeOK /\ RowsEnd /\ OneMaker /\ Looked /\ Contained /\ Merging
        /\ NothingOutlivesTheWorkspace
        /\ \A d \in Caller : Placed(d) /\ Caught(d)
        /\ \A i \in locks \cup terms : Served(i)
        /\ Inserted \subseteq 1..MaxRows
    BY Parts, RowsInserted
  <1>2. /\ call' \in [Caller -> CallType]
        /\ call[c].pc = "lookup" /\ Others(c) /\ call'[c].want = call[c].want
        /\ UNCHANGED <<rows, made, locks, terms, merge, late>>
        /\ \/ /\ call'[c].pc = "insert" /\ call'[c].seen = made
              /\ LiveRows = {} /\ spoilt' = spoilt
           \/ /\ call'[c].pc = "use" /\ call'[c].row \in LiveRows
              /\ call'[c].was = rows[call'[c].row].status
              /\ call[c].want <= rows[call'[c].row].level /\ spoilt' = spoilt
           \/ /\ call'[c].pc = "destroy" /\ call'[c].row \in LiveRows
              /\ ~ (call[c].want <= rows[call'[c].row].level)
              /\ spoilt' = IF Changing(call'[c].row) = {} THEN spoilt
                                                  ELSE spoilt \cup {call'[c].row}
    BY <1>1, LookupDoes
  <1>3. TypeOK'
    <2>1. /\ calls' \in 0..MaxCalls /\ upsets' \in 0..MaxUpsets /\ Inserted' = Inserted
          /\ made' = made
      BY <1>1, <1>2, Numbers DEF Lookup, TypeOK, counts, Inserted
    <2>2. QED
      BY <1>1, <1>2, <2>1, Numbers DEF TypeOK, CallType, LiveRows
  <1>4. Progress
    BY <1>1, <1>2 DEF Progress, Inserted, To, Others, Goes
  <1>5. RowsEnd' /\ OneMaker'
    <2>1. RowsEnd'
      BY <1>1, <1>2, <1>4, RowsEndStays
    <2>2. \A d \in Caller : call'[d].pc \in Making =>
             call[d].pc \in Making /\ call'[d].row = call[d].row
      BY <1>1, <1>2 DEF Making, To, Others, Goes
    <2>3. QED
      BY <1>1, <2>1, <2>2, OneMakerStays
  <1>6. ASSUME NEW d \in Caller
        PROVE  Placed(d)' /\ Caught(d)'
    <2>1. CASE d # c
      <3>1. call'[d] = call[d]
        BY <1>2, <2>1 DEF Others
      <3>2. call[d].pc \in Making => rows'[call[d].row].status = rows[call[d].row].status
        BY <1>1, <1>2 DEF Placed, Making
      <3>3. Placed(d)'
        BY <1>1, <1>4, <3>1, <3>2, PlacedStays
      <3>4. Caught(d)'
        BY <1>1, <1>2, <1>4, <3>1, CaughtStays
      <3>5. QED
        BY <3>3, <3>4
    <2>2. Placed(c)'
      <3>1. \/ call'[c].pc = "insert"
            \/ /\ call'[c].pc \in {"use", "destroy"} /\ call'[c].row \in LiveRows
               /\ call'[c].pc = "use" => call'[c].was = rows[call'[c].row].status
        BY <1>2
      <3>2. \A j \in LiveRows : rows[j].status \in Usable => Served(j)
        BY DEF Served, Usable
      <3>3. QED
        BY <1>2, <1>4, <3>1, <3>2 DEF Placed, Uses, Making, Acting, Progress, LiveRows, Served
    <2>3. Caught(c)'
      <3>1. LiveRows' = LiveRows
        BY <1>4, ProgressKeepsLive
      <3>2. \/ call'[c].pc = "insert"
            \/ call'[c].row \in LiveRows
        BY <1>2
      <3>3. QED
        BY <3>1, <3>2 DEF Caught, Uses, Acting
    <2>4. QED
      BY <2>1, <2>2, <2>3
  <1>7. /\ \A i \in locks' \cup terms' : Served(i)'
        /\ NothingOutlivesTheWorkspace'
    <2>1. \A i \in locks' \cup terms' : Served(i)'
      <3>1. CASE locks \cup terms = {}
        BY <1>2, <3>1
      <3>2. CASE locks \cup terms # {}
        <4>1. PICK k \in locks \cup terms : Served(k)'
          BY <1>1, <1>4, <3>2, ProgressKeepsRows DEF TypeOK
        <4>2. QED
          BY <1>1, <1>2, <1>4, <4>1, UsedStays
      <3>3. QED
        BY <3>1, <3>2
    <2>2. NothingOutlivesTheWorkspace'
      BY <1>1, <1>2, <1>4, NothingStays
    <2>3. QED
      BY <2>1, <2>2
  <1>8. Looked'
    <2>1. LiveRows' = LiveRows /\ \A i \in LiveRows : rows'[i].seen = rows[i].seen
      BY <1>2, <1>4, ProgressKeepsLive
    <2>2. ASSUME NEW d \in Caller, call'[d].pc = "insert"
          PROVE  call'[d].seen <= made /\ \A i \in LiveRows : i > call'[d].seen
      <3>1. CASE d = c
        BY <1>1, <1>2, <2>2, <3>1, RowsInserted
      <3>2. CASE d # c
        BY <1>1, <1>2, <2>2, <3>2 DEF Looked, Others
      <3>3. QED
        BY <3>1, <3>2
    <2>3. QED
      BY <1>1, <1>2, <2>1, <2>2 DEF Looked, OneWorkspaceUnlessRaced
  <1>9. Merging'
    BY <1>1, <1>2, <1>4, MergingStays
  <1>10. Contained'
    <2>1. SUFFICES ASSUME NEW i \in Inserted, i \notin spoilt'
                   PROVE  Held(i)'
      BY <1>4 DEF Contained, Progress
    <2>2. i \notin spoilt /\ Held(i)
      BY <1>1, <1>2, <2>1 DEF Contained
    <2>3. Served(i)' <=> Served(i)
      BY <1>2 DEF Served
    <2>4. CASE call'[c].row = i /\ call'[c].pc \in {"use", "destroy"}
      <3>1. call'[c].pc = "use" => call[c].want <= rows[i].level
        BY <1>2, <2>4
      <3>2. call'[c].pc = "destroy" => call[c].want > rows[i].level
        <4>1. call[c].want \in Nat /\ rows[i].level \in Nat
          BY <1>1, <2>1, CallTyped, RowTyped
        <4>2. QED
          BY <1>2, <2>4, <4>1
      <3>3. Fits(c, i)'
        BY <1>2, <2>4, <3>1, <3>2 DEF Fits, Uses, Acting, Remaking
      <3>4. call'[c].pc = "destroy" => Changing(i) = {}
        BY <1>2, <2>1, <2>4
      <3>5. QED
        BY <1>2, <2>2, <2>3, <2>4, <3>3, <3>4, HeldJoined DEF Making, Remaking
    <2>5. CASE ~ (call'[c].row = i /\ call'[c].pc \in {"use", "destroy"})
      <3>1. call'[c].row # i \/ call'[c].pc = "insert"
        BY <1>2, <2>5
      <3>2. \A d \in Caller : d # c => call'[d] = call[d]
        BY <1>2 DEF Others
      <3>3. QED
        BY <1>2, <2>2, <2>3, <3>1, <3>2, HeldStays
    <2>6. QED
      BY <2>4, <2>5
  <1>11. QED
    BY <1>3, <1>5, <1>6, <1>7, <1>8, <1>9, <1>10, Whole

LEMMA InsertKeeps ==
    ASSUME IInv, NEW c \in Caller, Insert(c)
    PROVE  IInv'
  <1>1. /\ TypeOK /\ RowsEnd /\ OneMaker /\ Looked /\ Contained /\ Merging
        /\ NothingOutlivesTheWorkspace
        /\ \A d \in Caller : Placed(d) /\ Caught(d)
        /\ \A i \in locks \cup terms : Served(i)
        /\ Inserted \subseteq 1..MaxRows
    BY Parts, RowsInserted
  <1>2. /\ call' \in [Caller -> CallType]
        /\ rows' \in [1..MaxRows -> Row] /\ made' \in 0..MaxRows
        /\ call[c].pc = "insert"
        /\ UNCHANGED <<locks, terms, merge, spoilt, late>>
        /\ \/ To(c, "none") /\ UNCHANGED <<rows, made>>
           \/ /\ To(c, "create") /\ call'[c].want = call[c].want /\ call'[c].row = made + 1
              /\ made' = made + 1
              /\ \A j \in 1..MaxRows : j # made + 1 => rows'[j] = rows[j]
              /\ rows'[made + 1] = [status |-> "provisioning", level |-> call[c].want,
                                    box |-> NoBox, seen |-> call[c].seen]
    BY <1>1, InsertDoes
  <1>3. TypeOK'
    <2>1. calls' \in 0..MaxCalls /\ upsets' \in 0..MaxUpsets
      BY <1>1 DEF Insert, TypeOK, counts
    <2>2. Inserted \subseteq Inserted'
      <3>1. made' \in 0..MaxRows /\ made \in Nat /\ made' \in {made, made + 1}
        BY <1>1, <1>2, RowsInserted
      <3>2. QED
        BY <3>1, Numbers DEF Inserted
    <2>3. QED
      BY <1>1, <1>2, <2>1, <2>2 DEF TypeOK, CallType
  <1>4. CASE To(c, "none") /\ UNCHANGED <<rows, made>>
    BY <1>2, <1>3, <1>4, LeavingKeeps
  <1>5. CASE made' = made + 1
    <2> DEFINE k == made + 1
    <2>1. /\ To(c, "create") /\ call'[c].want = call[c].want /\ call'[c].row = k
          /\ \A j \in 1..MaxRows : j # k => rows'[j] = rows[j]
          /\ rows'[k].status = "provisioning" /\ rows'[k].level = call[c].want
          /\ rows'[k].box = NoBox /\ rows'[k].seen = call[c].seen
      <3>1. made' # made
        BY <1>1, <1>5, RowsInserted
      <3>2. QED
        BY <1>2, <3>1
    <2>2. /\ k \notin Inserted /\ Inserted' = Inserted \cup {k} /\ made \in Nat
          /\ \A j \in Inserted : j < k
      <3>1. made \in Nat
        BY <1>1, RowsInserted
      <3>2. QED
        BY <1>5, <3>1 DEF Inserted
    <2> HIDE DEF k
    <2>3. \A j \in Inserted : rows'[j] = rows[j]
      BY <1>1, <2>1, <2>2
    <2>4. \A j \in Inserted : (Live(j)' <=> Live(j)) /\ (Served(j)' <=> Served(j))
      BY <2>3 DEF Live, Served
    <2>5. LiveRows' = LiveRows \cup {k}
      BY <2>1, <2>2, <2>4 DEF LiveRows, Live, Dead
    <2>6. \A d \in Caller : d # c => call'[d] = call[d]
      BY <2>1 DEF To, Others
    <2>7. RowsEnd'
      BY <1>1, <1>2, <2>1, <2>2, <2>3 DEF RowsEnd
    <2>8. OneMaker'
      <3>1. \A d \in Caller : call[d].pc \in Making => call[d].row # k
        BY <1>1, <2>2 DEF Placed, Making
      <3>2. QED
        BY <1>1, <2>1, <2>6, <3>1 DEF OneMaker
    <2>9. ASSUME NEW d \in Caller
          PROVE  Placed(d)' /\ Caught(d)'
      <3>1. CASE d = c
        <4>1. call'[d].pc = "create" /\ call'[d].row = k
          BY <2>1, <3>1 DEF To
        <4>2. QED
          BY <2>1, <2>2, <2>5, <4>1 DEF Placed, Caught, Uses, Acting
      <3>2. CASE d # c
        <4>1. call'[d] = call[d]
          BY <2>6, <3>2
        <4>2. Uses(d)' <=> Uses(d)
          BY <4>1 DEF Uses
        <4>3. /\ call[d].pc \notin {"none", "lookup", "insert"} => call[d].row \in Inserted
              /\ call[d].pc \in Making => /\ call[d].row \in Inserted
                                          /\ rows[call[d].row].status = "provisioning"
              /\ Uses(d) => call[d].row \in Inserted /\ Served(call[d].row)
          BY <1>1 DEF Placed, Uses, Acting, Making
        <4>4. Uses(d) => rows'[call[d].row].status \notin {"provisioning", "failed"}
          BY <2>3, <4>3 DEF Served
        <4>5. Placed(d)'
          BY <2>2, <2>3, <4>1, <4>2, <4>3, <4>4 DEF Placed, Served
        <4>6. Caught(d)'
          BY <1>1, <1>2, <2>2, <2>5, <4>1, <4>2 DEF Caught
        <4>7. QED
          BY <4>5, <4>6
      <3>3. QED
        BY <3>1, <3>2
    <2>10. \A i \in locks' \cup terms' : Served(i)'
      BY <1>1, <1>2, <2>4 DEF TypeOK
    <2>11. NothingOutlivesTheWorkspace'
      BY <1>1, <1>2, <2>2, <2>5 DEF NothingOutlivesTheWorkspace
    <2>12. Looked'
      <3>1. OneWorkspaceUnlessRaced'
        <4>1. SUFFICES ASSUME NEW i \in LiveRows', NEW j \in LiveRows', i < j
                       PROVE  i > rows'[j].seen
          BY DEF OneWorkspaceUnlessRaced
        <4>2. LiveRows \subseteq Inserted
          BY DEF LiveRows
        <4>3. i \in LiveRows
          <5>1. \A m \in Inserted : m < k /\ m \in Nat
            BY <1>1, <2>2, RowsInserted
          <5>2. k \in Nat
            BY <2>2 DEF k
          <5>3. QED
            BY <2>5, <4>1, <4>2, <5>1, <5>2
        <4>4. CASE j = k
          BY <1>1, <1>2, <2>1, <4>3, <4>4 DEF Looked
        <4>5. CASE j # k
          BY <1>1, <2>3, <2>5, <4>1, <4>2, <4>3, <4>5 DEF Looked, OneWorkspaceUnlessRaced
        <4>6. QED
          BY <4>4, <4>5
      <3>2. ASSUME NEW d \in Caller, call'[d].pc = "insert"
            PROVE  call'[d].seen <= made' /\ \A i \in LiveRows' : i > call'[d].seen
        <4>1. call'[d] = call[d]
          BY <2>1, <2>6, <3>2 DEF To
        <4>2. call[d].seen <= made /\ \A i \in LiveRows : i > call[d].seen
          BY <1>1, <3>2, <4>1 DEF Looked
        <4>3. call[d].seen \in Nat
          BY <1>1, CallTyped
        <4>4. call[d].seen <= made + 1 /\ made + 1 > call[d].seen
          BY <2>2, <4>2, <4>3
        <4>5. QED
          BY <1>5, <2>5, <4>1, <4>2, <4>4 DEF k
      <3>3. QED
        BY <3>1, <3>2 DEF Looked
    <2>13. Merging'
      <3>1. CASE merge.pc = "none"
        BY <1>2, <3>1 DEF Merging
      <3>2. CASE merge.pc # "none"
        <4>1. 1 \in Inserted /\ \A i \in 2..merge.seen : i \in Inserted
          BY <1>1, <3>2, RowsInserted DEF Inserted, Merging, TypeOK
        <4>2. rows'[1] = rows[1] /\ (Live(1)' <=> Live(1))
          BY <2>3, <2>4, <4>1
        <4>3. \A i \in 2..merge.seen : rows'[i].seen = rows[i].seen /\ (Live(i)' <=> Live(i))
          BY <2>3, <2>4, <4>1
        <4>4. made' # 0 /\ merge.seen <= made'
          <5>1. merge.seen \in Nat /\ merge.seen <= made
            BY <1>1, <3>2, Numbers DEF Merging, TypeOK
          <5>2. QED
            BY <1>5, <2>2, <5>1
        <4>5. QED
          BY <1>1, <1>2, <3>2, <4>2, <4>3, <4>4 DEF Merging
      <3>3. QED
        BY <3>1, <3>2
    <2>14. Contained'
      <3>1. SUFFICES ASSUME NEW i \in Inserted', i \notin spoilt'
                     PROVE  Held(i)'
        BY DEF Contained
      <3>2. CASE i = k
        <4>1. \A d \in Changing(i)' : d = c
          <5>1. SUFFICES ASSUME NEW d \in Changing(i)', d # c
                         PROVE  FALSE
            OBVIOUS
          <5>2. call'[d] = call[d] /\ d \in Changing(i) /\ d \in Caller
            BY <2>6, <5>1 DEF Changing, On
          <5>3. call[d].row \in Inserted /\ call[d].row = k
            BY <1>1, <3>2, <5>2 DEF Changing, On, Placed
          <5>4. QED
            BY <2>2, <5>3
        <4>2. ASSUME NEW d \in On(i)'
              PROVE  Fits(d, i)'
          <5>1. d \in Caller /\ call'[d].row = k
            BY <3>2, <4>2 DEF On
          <5>2. CASE d = c
            BY <2>1, <3>2, <5>2 DEF Fits, To, Uses, Acting, Remaking
          <5>3. CASE d # c
            <6>1. call[d].pc \in {"none", "lookup", "insert"}
              BY <1>1, <2>2, <2>6, <5>1, <5>3 DEF Placed
            <6>2. QED
              BY <2>6, <5>1, <5>3, <6>1 DEF Fits, Uses, Acting, Remaking
          <5>4. QED
            BY <5>2, <5>3
        <4>3. Strong(i)'
          BY <2>1, <3>2 DEF Strong, Served
        <4>4. QED
          BY <4>1, <4>2, <4>3 DEF Held
      <3>3. CASE i # k
        <4>1. i \in Inserted /\ Held(i)
          BY <1>1, <1>2, <2>2, <3>1, <3>3 DEF Contained
        <4>2. \A d \in Caller :
                 \/ call'[d] = call[d]
                 \/ call[d].pc = "insert" /\ call'[d].row # i
          BY <1>2, <2>1, <2>6, <3>3
        <4>3. /\ rows'[i].level = rows[i].level /\ rows'[i].box = rows[i].box
              /\ Served(i)' => Served(i)
          BY <2>3, <2>4, <4>1
        <4>4. QED
          BY <4>1, <4>2, <4>3, HeldStays
      <3>4. QED
        BY <3>2, <3>3
    <2>15. QED
      BY <1>3, <2>7, <2>8, <2>9, <2>10, <2>11, <2>12, <2>13, <2>14, Whole
  <1>6. QED
    BY <1>2, <1>4, <1>5

LEMMA CreateFirstKeeps ==
    ASSUME IInv, NEW c \in Caller, CreateFirst(c)
    PROVE  IInv'
  <1>1. /\ TypeOK /\ RowsEnd /\ OneMaker /\ Looked /\ Contained /\ Merging
        /\ NothingOutlivesTheWorkspace
        /\ \A d \in Caller : Placed(d) /\ Caught(d)
        /\ \A i \in locks \cup terms : Served(i)
        /\ Inserted \subseteq 1..MaxRows
    BY Parts, RowsInserted
  <1>2. /\ call' \in [Caller -> CallType]
        /\ rows' \in [1..MaxRows -> Row]
        /\ call[c].pc = "create"
        /\ UNCHANGED <<locks, terms, merge, spoilt, late>>
        /\ \/ /\ BoxOf(call[c].row, Boxed(call[c].row, call[c].want)) /\ Goes(c, "ready")
           \/ UNCHANGED <<rows, made>> /\ Goes(c, "fail")
    <2>1. call[c].pc = "create" => call[c].row \in 1..MaxRows
      BY <1>1 DEF Placed
    <2>2. QED
      BY <1>1, <2>1, CreateFirstDoes
  <1>3. TypeOK'
    <2>1. /\ calls' \in 0..MaxCalls /\ upsets' \in 0..MaxUpsets /\ Inserted' = Inserted
          /\ made' = made
      BY <1>1, <1>2, Numbers DEF CreateFirst, TypeOK, counts, Inserted
    <2>2. QED
      BY <1>1, <1>2, <2>1, Numbers DEF TypeOK, CallType
  <1>4. Progress
    BY <1>1, <1>2 DEF Progress, Inserted, To, Others, Goes, BoxOf
  <1>5. RowsEnd' /\ OneMaker'
    <2>1. RowsEnd'
      BY <1>1, <1>2, <1>4, RowsEndStays
    <2>2. \A d \in Caller : call'[d].pc \in Making =>
             call[d].pc \in Making /\ call'[d].row = call[d].row
      BY <1>1, <1>2 DEF Making, To, Others, Goes, BoxOf
    <2>3. QED
      BY <1>1, <2>1, <2>2, OneMakerStays
  <1>6. ASSUME NEW d \in Caller
        PROVE  Placed(d)' /\ Caught(d)'
    <2>1. CASE d # c
      <3>1. call'[d] = call[d]
        BY <1>2, <2>1 DEF To, Others, Goes, BoxOf
      <3>2. call[d].pc \in Making => rows'[call[d].row].status = rows[call[d].row].status
        BY <1>1, <1>2 DEF Placed, Making, BoxOf
      <3>3. Placed(d)'
        BY <1>1, <1>4, <3>1, <3>2, PlacedStays
      <3>4. Caught(d)'
        BY <1>1, <1>2, <1>4, <3>1, CaughtStays
      <3>5. QED
        BY <3>3, <3>4
    <2>2. Placed(c)'
      BY <1>1, <1>2, <1>4 DEF Placed, Uses, Making, Acting, Progress, To, Others, Goes, BoxOf
    <2>3. Caught(c)'
      <3>1. call'[c].pc \in {"none", "lookup", "insert", "create", "fail", "ready",
                           "destroy", "build", "write", "command", "lock", "session"}
        BY <1>2 DEF To, Goes
      <3>2. QED
        BY <1>1, <1>2, <1>4, <3>1, CaughtStays
    <2>4. QED
      BY <2>1, <2>2, <2>3
  <1>7. /\ \A i \in locks' \cup terms' : Served(i)'
        /\ NothingOutlivesTheWorkspace'
    <2>1. \A i \in locks' \cup terms' : Served(i)'
      <3>1. CASE locks \cup terms = {}
        BY <1>2, <3>1
      <3>2. CASE locks \cup terms # {}
        <4>1. PICK k \in locks \cup terms : Served(k)'
          BY <1>1, <1>4, <3>2, ProgressKeepsRows DEF TypeOK
        <4>2. QED
          BY <1>1, <1>2, <1>4, <4>1, UsedStays
      <3>3. QED
        BY <3>1, <3>2
    <2>2. NothingOutlivesTheWorkspace'
      BY <1>1, <1>2, <1>4, NothingStays
    <2>3. QED
      BY <2>1, <2>2
  <1>8. Looked'
    <2>1. \A d \in Caller : call'[d].pc = "insert" =>
             call[d].pc = "insert" /\ call'[d].seen = call[d].seen
      BY <1>1, <1>2 DEF To, Others, Goes, BoxOf
    <2>2. QED
      BY <1>1, <1>4, <2>1, LookedStays
  <1>9. Merging'
    BY <1>1, <1>2, <1>4, MergingStays
  <1>10. Contained'
    <2>1. SUFFICES ASSUME NEW i \in Inserted, i \notin spoilt'
                   PROVE  Held(i)'
      BY <1>4 DEF Contained, Progress
    <2>2. i \notin spoilt /\ Held(i)
      BY <1>1, <1>2, <2>1 DEF Contained
    <2>3. CASE i = call[c].row /\ Goes(c, "ready")
      <3>1. c \in Changing(i) /\ Fits(c, i) /\ Strong(i) /\ i \in 1..MaxRows
        BY <1>1, <1>2, <2>2, <2>3 DEF Changing, On, Held
      <3>2. /\ rows[i].level \in Nat /\ rows[i].box \in Nat /\ call[c].want \in Nat
            /\ call[c].want \in Levels
        BY <1>1, <2>1, CallTyped, RowTyped
      <3>3. rows'[i].level = rows[i].level
        BY <1>2, <2>3, <3>1, <3>2 DEF BoxOf
      <3>4. rows'[i].level \in Nat /\ rows'[i].level >= rows[i].level
        BY <3>2, <3>3
      <3>5. Fits(c, i)'
        BY <1>2, <2>3, <3>1, <3>2, Numbers DEF BoxOf, Fits, Goes, To, Uses, Acting, Remaking, Boxed
      <3>6. Strong(i)'
        BY <1>1, <1>2, <2>3, <3>1 DEF Placed, Making, Strong, Served, BoxOf
      <3>7. call'[c].row = i \/ call'[c].pc = "none"
        BY <1>2, <2>3 DEF Goes, To
      <3>8. Others(c)
        BY <1>2 DEF Goes, To
      <3>9. QED
        BY <1>1, <2>1, <2>2, <3>1, <3>4, <3>5, <3>6, <3>7, <3>8, HeldAlone
    <2>4. CASE ~ (i = call[c].row /\ Goes(c, "ready"))
      <3>1. /\ rows'[i].level = rows[i].level /\ rows'[i].box = rows[i].box
            /\ Served(i)' => Served(i)
        BY <1>1, <1>2, <2>1, <2>4 DEF Served, BoxOf
      <3>2. ASSUME NEW d \in Caller
            PROVE  \/ call'[d] = call[d]
                   \/ /\ call[d].pc \notin {"build", "write"} \/ call[d].row # i
                      /\ call'[d].row # i
                   \/ /\ call[d].pc \notin {"build", "write"} \/ call[d].row # i
                      /\ call'[d].pc \in {"none", "lookup", "insert", "fail"}
                      /\ call'[d].pc = "fail" => call[d].row = i /\ call[d].pc = "create"
        BY <1>2, <2>1, <2>4 DEF Goes, To, Others
      <3>3. QED
        BY <2>2, <3>1, <3>2, HeldStays
    <2>5. QED
      BY <2>3, <2>4
  <1>11. QED
    BY <1>3, <1>5, <1>6, <1>7, <1>8, <1>9, <1>10, Whole

LEMMA ProvisionFailsKeeps ==
    ASSUME IInv, NEW c \in Caller, ProvisionFails(c)
    PROVE  IInv'
  <1>1. /\ TypeOK /\ RowsEnd /\ OneMaker /\ Looked /\ Contained /\ Merging
        /\ NothingOutlivesTheWorkspace
        /\ \A d \in Caller : Placed(d) /\ Caught(d)
        /\ \A i \in locks \cup terms : Served(i)
        /\ Inserted \subseteq 1..MaxRows
    BY Parts, RowsInserted
  <1>2. /\ call' \in [Caller -> CallType]
        /\ rows' \in [1..MaxRows -> Row]
        /\ call[c].pc = "fail" /\ To(c, "none")
        /\ StatusOf(call[c].row, "failed")
        /\ UNCHANGED <<locks, terms, merge, spoilt, late>>
    BY <1>1, ProvisionFailsDoes
  <1> DEFINE k == call[c].row
  <1>3. /\ k \in Inserted /\ rows[k].status = "provisioning" /\ ~ Served(k)
        /\ made' = made /\ Inserted' = Inserted
    BY <1>1, <1>2 DEF Placed, Making, Served, StatusOf, Inserted
  <1>4. \A j \in Inserted :
           /\ rows'[j].seen = rows[j].seen
           /\ rows'[j].status = IF j = k THEN "failed" ELSE rows[j].status
    BY <1>1, <1>2 DEF StatusOf
  <1>5. /\ LiveRows' = LiveRows \ {k}
        /\ \A j \in Inserted : Served(j)' <=> Served(j)
        /\ \A j \in Inserted : Live(j)' => Live(j)
    BY <1>3, <1>4 DEF LiveRows, Live, Dead, Served
  <1>6. \A d \in Caller : Uses(d) => call[d].row # k
    BY <1>1, <1>3 DEF Placed
  <1>7. TypeOK'
    <2>1. calls' \in 0..MaxCalls /\ upsets' \in 0..MaxUpsets
      BY <1>1 DEF ProvisionFails, TypeOK, counts
    <2>2. QED
      BY <1>1, <1>2, <1>3, <2>1 DEF TypeOK, CallType
  <1>8. RowsEnd'
    BY <1>1, <1>2, <1>3, <1>4 DEF RowsEnd
  <1>9. OneMaker'
    BY <1>1, <1>2, OneMakerStays DEF To, Others, Making
  <1>10. ASSUME NEW d \in Caller
         PROVE  Placed(d)' /\ Caught(d)'
    <2>1. CASE d = c
      BY <1>2, <2>1 DEF To, Placed, Caught, Uses, Making, Acting
    <2>2. CASE d # c
      <3>1. call'[d] = call[d]
        BY <1>2, <2>2 DEF To, Others
      <3>2. Uses(d)' <=> Uses(d)
        BY <3>1 DEF Uses
      <3>3. call[d].pc \in Making => call[d].row # k
        BY <1>1, <1>2, <2>2 DEF OneMaker, Making
      <3>4. Placed(d)'
        <4>1. call[d].pc \notin {"none", "lookup", "insert"} => call[d].row \in Inserted
          BY <1>1 DEF Placed
        <4>2. call[d].pc \in Making => rows[call[d].row].status = "provisioning"
          BY <1>1 DEF Placed
        <4>3. Uses(d) => Served(call[d].row) /\ call[d].row \in Inserted
          BY <1>1 DEF Placed, Uses, Acting
        <4>4. Uses(d) => rows'[call[d].row].status \notin {"provisioning", "failed"}
          BY <1>4, <1>6, <4>3 DEF Served
        <4>5. QED
          BY <1>3, <1>4, <3>1, <3>2, <3>3, <4>1, <4>2, <4>4 DEF Placed, Served, Making
      <3>5. Caught(d)'
        <4>1. call[d].row = k => ~ Uses(d) /\ call[d].pc # "locking"
          BY <1>6 DEF Uses, Acting
        <4>2. QED
          BY <1>1, <1>2, <1>3, <1>5, <3>1, <3>2, <4>1 DEF Caught
      <3>6. QED
        BY <3>4, <3>5
    <2>3. QED
      BY <2>1, <2>2
  <1>11. \A i \in locks' \cup terms' : Served(i)'
    BY <1>1, <1>2, <1>5 DEF TypeOK
  <1>12. NothingOutlivesTheWorkspace'
    <2>1. k \notin locks \cup terms
      BY <1>1, <1>3
    <2>2. QED
      BY <1>1, <1>2, <1>3, <1>5, <2>1 DEF NothingOutlivesTheWorkspace
  <1>13. Looked'
    <2>1. \A i \in LiveRows : rows'[i].seen = rows[i].seen
      BY <1>4 DEF LiveRows
    <2>2. \A d \in Caller : call'[d].pc = "insert" =>
             call[d].pc = "insert" /\ call'[d].seen = call[d].seen
      BY <1>2 DEF To, Others
    <2>3. QED
      BY <1>1, <1>3, <1>5, <2>1, <2>2, LookedShrinks
  <1>14. Merging'
    <2>1. CASE merge.pc = "none"
      BY <1>2, <2>1 DEF Merging
    <2>2. CASE merge.pc # "none"
      <3>1. 1 \in Inserted /\ \A i \in 2..merge.seen : i \in Inserted
        BY <1>1, <2>2, RowsInserted DEF Inserted, Merging, TypeOK
      <3>2. \/ rows'[1].status = "failed"
            \/ rows'[1].status = rows[1].status
        BY <1>4, <3>1
      <3>3. \A i \in 2..merge.seen :
               rows'[i].seen = rows[i].seen /\ (Live(i)' => Live(i))
        BY <1>4, <1>5, <3>1
      <3>4. Live(1)' => Live(1)
        BY <1>5, <3>1
      <3>5. QED
        BY <1>1, <1>2, <1>3, <2>2, <3>2, <3>3, <3>4 DEF Merging
    <2>3. QED
      BY <2>1, <2>2
  <1>15. Contained'
    <2>1. SUFFICES ASSUME NEW i \in Inserted, i \notin spoilt'
                   PROVE  Held(i)'
      BY <1>3 DEF Contained
    <2>2. Held(i)
      BY <1>1, <1>2, <2>1 DEF Contained
    <2>3. rows'[i].level = rows[i].level /\ rows'[i].box = rows[i].box
      BY <1>1, <1>2, <2>1 DEF StatusOf
    <2>4. Served(i)' => Served(i)
      BY <1>5, <2>1
    <2>5. \A d \in Caller : call'[d] = call[d] \/ (call[d].pc = "fail" /\ call'[d].pc = "none")
      BY <1>2 DEF To, Others
    <2>6. QED
      BY <2>2, <2>3, <2>4, <2>5, HeldStays
  <1>16. QED
    BY <1>7, <1>8, <1>9, <1>10, <1>11, <1>12, <1>13, <1>14, <1>15, Whole

LEMMA ReadyKeeps ==
    ASSUME IInv, NEW c \in Caller, Ready(c)
    PROVE  IInv'
  <1>1. /\ TypeOK /\ RowsEnd /\ OneMaker /\ Looked /\ Contained /\ Merging
        /\ NothingOutlivesTheWorkspace
        /\ \A d \in Caller : Placed(d) /\ Caught(d)
        /\ \A i \in locks \cup terms : Served(i)
        /\ Inserted \subseteq 1..MaxRows
    BY Parts, RowsInserted
  <1>2. /\ call' \in [Caller -> CallType]
        /\ rows' \in [1..MaxRows -> Row]
        /\ call[c].pc = "ready" /\ To(c, "use") /\ call'[c].was = "ready"
        /\ call'[c].row = call[c].row /\ call'[c].want = call[c].want
        /\ StatusOf(call[c].row, "ready")
        /\ UNCHANGED <<locks, terms, merge, spoilt, late>>
    BY <1>1, ReadyDoes
  <1>3. TypeOK'
    <2>1. /\ calls' \in 0..MaxCalls /\ upsets' \in 0..MaxUpsets /\ Inserted' = Inserted
          /\ made' = made
      BY <1>1, <1>2, Numbers DEF Ready, TypeOK, counts, Inserted
    <2>2. QED
      BY <1>1, <1>2, <2>1, Numbers DEF TypeOK, CallType
  <1>4. Progress
    <2>1. call[c].row \in Inserted /\ rows[call[c].row].status = "provisioning"
      BY <1>1, <1>2 DEF Placed, Making
    <2>2. QED
      BY <1>1, <1>2, <2>1 DEF Progress, Inserted, StatusOf
  <1>5. RowsEnd' /\ OneMaker'
    <2>1. RowsEnd'
      BY <1>1, <1>2, <1>4, RowsEndStays
    <2>2. \A d \in Caller : call'[d].pc \in Making =>
             call[d].pc \in Making /\ call'[d].row = call[d].row
      BY <1>1, <1>2 DEF Making, To, Others, Goes, StatusOf
    <2>3. QED
      BY <1>1, <2>1, <2>2, OneMakerStays
  <1>6. ASSUME NEW d \in Caller
        PROVE  Placed(d)' /\ Caught(d)'
    <2>1. CASE d # c
      <3>1. call'[d] = call[d]
        BY <1>2, <2>1 DEF To, Others, Goes, StatusOf
      <3>2. call[d].pc \in Making => rows'[call[d].row].status = rows[call[d].row].status
        <4>1. call[d].pc \in Making => call[d].row # call[c].row
          BY <1>1, <1>2, <2>1 DEF OneMaker, Making
        <4>2. QED
          BY <1>1, <1>2, <4>1 DEF Placed, Making, StatusOf
      <3>3. Placed(d)'
        BY <1>1, <1>4, <3>1, <3>2, PlacedStays
      <3>4. Caught(d)'
        BY <1>1, <1>2, <1>4, <3>1, CaughtStays
      <3>5. QED
        BY <3>3, <3>4
    <2>2. Placed(c)'
      <3>1. call[c].row \in Inserted /\ Inserted' = Inserted
        BY <1>1, <1>2, <1>4 DEF Placed, Progress
      <3>2. rows'[call[c].row].status = "ready"
        BY <1>1, <1>2, <3>1 DEF StatusOf
      <3>3. QED
        BY <1>2, <3>1, <3>2 DEF Placed, Uses, Making, Acting, Served, To
    <2>3. Caught(c)'
      <3>1. call[c].row \in LiveRows /\ LiveRows' = LiveRows
        BY <1>1, <1>2, <1>4, ProgressKeepsLive DEF Placed, Making, LiveRows, Live, Dead
      <3>2. QED
        BY <1>2, <3>1 DEF Caught
    <2>4. QED
      BY <2>1, <2>2, <2>3
  <1>7. /\ \A i \in locks' \cup terms' : Served(i)'
        /\ NothingOutlivesTheWorkspace'
    <2>1. \A i \in locks' \cup terms' : Served(i)'
      <3>1. CASE locks \cup terms = {}
        BY <1>2, <3>1
      <3>2. CASE locks \cup terms # {}
        <4>1. PICK k \in locks \cup terms : Served(k)'
          BY <1>1, <1>4, <3>2, ProgressKeepsRows DEF TypeOK
        <4>2. QED
          BY <1>1, <1>2, <1>4, <4>1, UsedStays
      <3>3. QED
        BY <3>1, <3>2
    <2>2. NothingOutlivesTheWorkspace'
      BY <1>1, <1>2, <1>4, NothingStays
    <2>3. QED
      BY <2>1, <2>2
  <1>8. Looked'
    <2>1. \A d \in Caller : call'[d].pc = "insert" =>
             call[d].pc = "insert" /\ call'[d].seen = call[d].seen
      BY <1>1, <1>2 DEF To, Others, Goes, StatusOf
    <2>2. QED
      BY <1>1, <1>4, <2>1, LookedStays
  <1>9. Merging'
    BY <1>1, <1>2, <1>4, MergingStays
  <1>10. Contained'
    <2>1. SUFFICES ASSUME NEW i \in Inserted, i \notin spoilt'
                   PROVE  Held(i)'
      BY <1>4 DEF Contained, Progress
    <2>2. i \notin spoilt /\ Held(i)
      BY <1>1, <1>2, <2>1 DEF Contained
    <2>3. CASE i = call[c].row /\ TRUE
      <3>1. c \in Changing(i) /\ Fits(c, i) /\ Strong(i) /\ i \in 1..MaxRows
        BY <1>1, <1>2, <2>2, <2>3 DEF Changing, On, Held
      <3>2. /\ rows[i].level \in Nat /\ rows[i].box \in Nat /\ call[c].want \in Nat
            /\ call[c].want \in Levels
        BY <1>1, <2>1, CallTyped, RowTyped
      <3>3. rows'[i].level = rows[i].level
        BY <1>2, <2>3, <3>1, <3>2 DEF StatusOf
      <3>4. rows'[i].level \in Nat /\ rows'[i].level >= rows[i].level
        BY <3>2, <3>3
      <3>5. Fits(c, i)'
        BY <1>2, <2>3, <3>1, <3>2, Numbers DEF StatusOf, Fits, Goes, To, Uses, Acting, Remaking
      <3>6. Strong(i)'
        <4>1. rows'[i].box >= rows'[i].level
          BY <1>2, <2>3, <3>1, <3>2 DEF Fits, Remaking, StatusOf
        <4>2. QED
          BY <4>1 DEF Strong
      <3>7. call'[c].row = i \/ call'[c].pc = "none"
        BY <1>2, <2>3 DEF Goes, To
      <3>8. Others(c)
        BY <1>2 DEF Goes, To
      <3>9. QED
        BY <1>1, <2>1, <2>2, <3>1, <3>4, <3>5, <3>6, <3>7, <3>8, HeldAlone
    <2>4. CASE ~ (i = call[c].row /\ TRUE)
      <3>1. /\ rows'[i].level = rows[i].level /\ rows'[i].box = rows[i].box
            /\ Served(i)' => Served(i)
        BY <1>1, <1>2, <2>1, <2>4 DEF Served, StatusOf
      <3>2. ASSUME NEW d \in Caller
            PROVE  \/ call'[d] = call[d]
                   \/ /\ call[d].pc \notin {"build", "write"} \/ call[d].row # i
                      /\ call'[d].row # i
                   \/ /\ call[d].pc \notin {"build", "write"} \/ call[d].row # i
                      /\ call'[d].pc \in {"none", "lookup", "insert", "fail"}
                      /\ call'[d].pc = "fail" => call[d].row = i /\ call[d].pc = "create"
        BY <1>2, <2>1, <2>4 DEF Goes, To, Others
      <3>3. QED
        BY <2>2, <3>1, <3>2, HeldStays
    <2>5. QED
      BY <2>3, <2>4
  <1>11. QED
    BY <1>3, <1>5, <1>6, <1>7, <1>8, <1>9, <1>10, Whole

LEMMA DestroyKeeps ==
    ASSUME IInv, NEW c \in Caller, Destroy(c)
    PROVE  IInv'
  <1>1. /\ TypeOK /\ RowsEnd /\ OneMaker /\ Looked /\ Contained /\ Merging
        /\ NothingOutlivesTheWorkspace
        /\ \A d \in Caller : Placed(d) /\ Caught(d)
        /\ \A i \in locks \cup terms : Served(i)
        /\ Inserted \subseteq 1..MaxRows
    BY Parts, RowsInserted
  <1>2. /\ call' \in [Caller -> CallType]
        /\ rows' \in [1..MaxRows -> Row]
        /\ call[c].pc = "destroy"
        /\ UNCHANGED <<locks, terms, merge, spoilt, late>>
        /\ \/ BoxOf(call[c].row, NoBox) /\ Goes(c, "build")
           \/ UNCHANGED <<rows, made>> /\ To(c, "none")
    BY <1>1, DestroyDoes
  <1>3. TypeOK'
    <2>1. /\ calls' \in 0..MaxCalls /\ upsets' \in 0..MaxUpsets /\ Inserted' = Inserted
          /\ made' = made
      BY <1>1, <1>2, Numbers DEF Destroy, TypeOK, counts, Inserted
    <2>2. QED
      BY <1>1, <1>2, <2>1, Numbers DEF TypeOK, CallType
  <1>4. Progress
    BY <1>1, <1>2 DEF Progress, Inserted, To, Others, Goes, BoxOf
  <1>5. RowsEnd' /\ OneMaker'
    <2>1. RowsEnd'
      BY <1>1, <1>2, <1>4, RowsEndStays
    <2>2. \A d \in Caller : call'[d].pc \in Making =>
             call[d].pc \in Making /\ call'[d].row = call[d].row
      BY <1>1, <1>2 DEF Making, To, Others, Goes, BoxOf
    <2>3. QED
      BY <1>1, <2>1, <2>2, OneMakerStays
  <1>6. ASSUME NEW d \in Caller
        PROVE  Placed(d)' /\ Caught(d)'
    <2>1. CASE d # c
      <3>1. call'[d] = call[d]
        BY <1>2, <2>1 DEF To, Others, Goes, BoxOf
      <3>2. call[d].pc \in Making => rows'[call[d].row].status = rows[call[d].row].status
        BY <1>1, <1>2 DEF Placed, Making, BoxOf
      <3>3. Placed(d)'
        BY <1>1, <1>4, <3>1, <3>2, PlacedStays
      <3>4. Caught(d)'
        BY <1>1, <1>2, <1>4, <3>1, CaughtStays
      <3>5. QED
        BY <3>3, <3>4
    <2>2. Placed(c)'
      BY <1>1, <1>2, <1>4 DEF Placed, Uses, Making, Acting, Progress, To, Others, Goes, BoxOf
    <2>3. Caught(c)'
      <3>1. call'[c].pc \in {"none", "lookup", "insert", "create", "fail", "ready",
                           "destroy", "build", "write", "command", "lock", "session"}
        BY <1>2 DEF To, Goes
      <3>2. QED
        BY <1>1, <1>2, <1>4, <3>1, CaughtStays
    <2>4. QED
      BY <2>1, <2>2, <2>3
  <1>7. /\ \A i \in locks' \cup terms' : Served(i)'
        /\ NothingOutlivesTheWorkspace'
    <2>1. \A i \in locks' \cup terms' : Served(i)'
      <3>1. CASE locks \cup terms = {}
        BY <1>2, <3>1
      <3>2. CASE locks \cup terms # {}
        <4>1. PICK k \in locks \cup terms : Served(k)'
          BY <1>1, <1>4, <3>2, ProgressKeepsRows DEF TypeOK
        <4>2. QED
          BY <1>1, <1>2, <1>4, <4>1, UsedStays
      <3>3. QED
        BY <3>1, <3>2
    <2>2. NothingOutlivesTheWorkspace'
      BY <1>1, <1>2, <1>4, NothingStays
    <2>3. QED
      BY <2>1, <2>2
  <1>8. Looked'
    <2>1. \A d \in Caller : call'[d].pc = "insert" =>
             call[d].pc = "insert" /\ call'[d].seen = call[d].seen
      BY <1>1, <1>2 DEF To, Others, Goes, BoxOf
    <2>2. QED
      BY <1>1, <1>4, <2>1, LookedStays
  <1>9. Merging'
    BY <1>1, <1>2, <1>4, MergingStays
  <1>10. Contained'
    <2>1. SUFFICES ASSUME NEW i \in Inserted, i \notin spoilt'
                   PROVE  Held(i)'
      BY <1>4 DEF Contained, Progress
    <2>2. i \notin spoilt /\ Held(i)
      BY <1>1, <1>2, <2>1 DEF Contained
    <2>3. CASE i = call[c].row /\ Goes(c, "build")
      <3>1. c \in Changing(i) /\ Fits(c, i) /\ Strong(i) /\ i \in 1..MaxRows
        BY <1>1, <1>2, <2>2, <2>3 DEF Changing, On, Held
      <3>2. /\ rows[i].level \in Nat /\ rows[i].box \in Nat /\ call[c].want \in Nat
            /\ call[c].want \in Levels
        BY <1>1, <2>1, CallTyped, RowTyped
      <3>3. rows'[i].level = rows[i].level
        BY <1>2, <2>3, <3>1, <3>2 DEF BoxOf
      <3>4. rows'[i].level \in Nat /\ rows'[i].level >= rows[i].level
        BY <3>2, <3>3
      <3>5. Fits(c, i)'
        BY <1>2, <2>3, <3>1, <3>2, Numbers DEF BoxOf, Fits, Goes, To, Uses, Acting, Remaking
      <3>6. Strong(i)'
        <4>1. c \in On(i)' /\ call'[c].pc = "build"
          BY <1>2, <2>3 DEF On, Goes, To
        <4>2. QED
          BY <4>1 DEF Strong
      <3>7. call'[c].row = i \/ call'[c].pc = "none"
        BY <1>2, <2>3 DEF Goes, To
      <3>8. Others(c)
        BY <1>2 DEF Goes, To
      <3>9. QED
        BY <1>1, <2>1, <2>2, <3>1, <3>4, <3>5, <3>6, <3>7, <3>8, HeldAlone
    <2>4. CASE ~ (i = call[c].row /\ Goes(c, "build"))
      <3>1. /\ rows'[i].level = rows[i].level /\ rows'[i].box = rows[i].box
            /\ Served(i)' => Served(i)
        BY <1>1, <1>2, <2>1, <2>4 DEF Served, BoxOf
      <3>2. ASSUME NEW d \in Caller
            PROVE  \/ call'[d] = call[d]
                   \/ /\ call[d].pc \notin {"build", "write"} \/ call[d].row # i
                      /\ call'[d].row # i
                   \/ /\ call[d].pc \notin {"build", "write"} \/ call[d].row # i
                      /\ call'[d].pc \in {"none", "lookup", "insert", "fail"}
                      /\ call'[d].pc = "fail" => call[d].row = i /\ call[d].pc = "create"
        BY <1>2, <2>1, <2>4 DEF Goes, To, Others
      <3>3. QED
        BY <2>2, <3>1, <3>2, HeldStays
    <2>5. QED
      BY <2>3, <2>4
  <1>11. QED
    BY <1>3, <1>5, <1>6, <1>7, <1>8, <1>9, <1>10, Whole

LEMMA BuildKeeps ==
    ASSUME IInv, NEW c \in Caller, Build(c)
    PROVE  IInv'
  <1>1. /\ TypeOK /\ RowsEnd /\ OneMaker /\ Looked /\ Contained /\ Merging
        /\ NothingOutlivesTheWorkspace
        /\ \A d \in Caller : Placed(d) /\ Caught(d)
        /\ \A i \in locks \cup terms : Served(i)
        /\ Inserted \subseteq 1..MaxRows
    BY Parts, RowsInserted
  <1>2. /\ call' \in [Caller -> CallType]
        /\ rows' \in [1..MaxRows -> Row]
        /\ call[c].pc = "build"
        /\ UNCHANGED <<locks, terms, merge, late>>
        /\ \/ /\ BoxOf(call[c].row, Boxed(call[c].row, call[c].want)) /\ Goes(c, "write")
              /\ spoilt' = spoilt
           \/ /\ UNCHANGED <<rows, made>> /\ To(c, "none")
              /\ spoilt' = spoilt \cup {call[c].row}
    <2>1. call[c].pc = "build" => call[c].row \in 1..MaxRows
      BY <1>1 DEF Placed
    <2>2. QED
      BY <1>1, <2>1, BuildDoes
  <1>3. TypeOK'
    <2>1. /\ calls' \in 0..MaxCalls /\ upsets' \in 0..MaxUpsets /\ Inserted' = Inserted
          /\ made' = made
      BY <1>1, <1>2, Numbers DEF Build, TypeOK, counts, Inserted
    <2>2. QED
      BY <1>1, <1>2, <2>1, Numbers DEF TypeOK, CallType, Placed
  <1>4. Progress
    BY <1>1, <1>2 DEF Progress, Inserted, To, Others, Goes, BoxOf
  <1>5. RowsEnd' /\ OneMaker'
    <2>1. RowsEnd'
      BY <1>1, <1>2, <1>4, RowsEndStays
    <2>2. \A d \in Caller : call'[d].pc \in Making =>
             call[d].pc \in Making /\ call'[d].row = call[d].row
      BY <1>1, <1>2 DEF Making, To, Others, Goes, BoxOf
    <2>3. QED
      BY <1>1, <2>1, <2>2, OneMakerStays
  <1>6. ASSUME NEW d \in Caller
        PROVE  Placed(d)' /\ Caught(d)'
    <2>1. CASE d # c
      <3>1. call'[d] = call[d]
        BY <1>2, <2>1 DEF To, Others, Goes, BoxOf
      <3>2. call[d].pc \in Making => rows'[call[d].row].status = rows[call[d].row].status
        BY <1>1, <1>2 DEF Placed, Making, BoxOf
      <3>3. Placed(d)'
        BY <1>1, <1>4, <3>1, <3>2, PlacedStays
      <3>4. Caught(d)'
        BY <1>1, <1>2, <1>4, <3>1, CaughtStays
      <3>5. QED
        BY <3>3, <3>4
    <2>2. Placed(c)'
      BY <1>1, <1>2, <1>4 DEF Placed, Uses, Making, Acting, Progress, To, Others, Goes, BoxOf
    <2>3. Caught(c)'
      <3>1. call'[c].pc \in {"none", "lookup", "insert", "create", "fail", "ready",
                           "destroy", "build", "write", "command", "lock", "session"}
        BY <1>2 DEF To, Goes
      <3>2. QED
        BY <1>1, <1>2, <1>4, <3>1, CaughtStays
    <2>4. QED
      BY <2>1, <2>2, <2>3
  <1>7. /\ \A i \in locks' \cup terms' : Served(i)'
        /\ NothingOutlivesTheWorkspace'
    <2>1. \A i \in locks' \cup terms' : Served(i)'
      <3>1. CASE locks \cup terms = {}
        BY <1>2, <3>1
      <3>2. CASE locks \cup terms # {}
        <4>1. PICK k \in locks \cup terms : Served(k)'
          BY <1>1, <1>4, <3>2, ProgressKeepsRows DEF TypeOK
        <4>2. QED
          BY <1>1, <1>2, <1>4, <4>1, UsedStays
      <3>3. QED
        BY <3>1, <3>2
    <2>2. NothingOutlivesTheWorkspace'
      BY <1>1, <1>2, <1>4, NothingStays
    <2>3. QED
      BY <2>1, <2>2
  <1>8. Looked'
    <2>1. \A d \in Caller : call'[d].pc = "insert" =>
             call[d].pc = "insert" /\ call'[d].seen = call[d].seen
      BY <1>1, <1>2 DEF To, Others, Goes, BoxOf
    <2>2. QED
      BY <1>1, <1>4, <2>1, LookedStays
  <1>9. Merging'
    BY <1>1, <1>2, <1>4, MergingStays
  <1>10. Contained'
    <2>1. SUFFICES ASSUME NEW i \in Inserted, i \notin spoilt'
                   PROVE  Held(i)'
      BY <1>4 DEF Contained, Progress
    <2>2. i \notin spoilt /\ Held(i)
      BY <1>1, <1>2, <2>1 DEF Contained
    <2>3. CASE i = call[c].row /\ Goes(c, "write")
      <3>1. c \in Changing(i) /\ Fits(c, i) /\ Strong(i) /\ i \in 1..MaxRows
        BY <1>1, <1>2, <2>2, <2>3 DEF Changing, On, Held
      <3>2. /\ rows[i].level \in Nat /\ rows[i].box \in Nat /\ call[c].want \in Nat
            /\ call[c].want \in Levels
        BY <1>1, <2>1, CallTyped, RowTyped
      <3>3. rows'[i].level = rows[i].level
        BY <1>2, <2>3, <3>1, <3>2 DEF BoxOf
      <3>4. rows'[i].level \in Nat /\ rows'[i].level >= rows[i].level
        BY <3>2, <3>3
      <3>5. Fits(c, i)'
        BY <1>2, <2>3, <3>1, <3>2, Numbers DEF BoxOf, Fits, Goes, To, Uses, Acting, Remaking, Boxed
      <3>6. Strong(i)'
        <4>1. c \in On(i)' /\ call'[c].pc = "write"
          BY <1>2, <2>3 DEF On, Goes, To
        <4>2. QED
          BY <4>1 DEF Strong
      <3>7. call'[c].row = i \/ call'[c].pc = "none"
        BY <1>2, <2>3 DEF Goes, To
      <3>8. Others(c)
        BY <1>2 DEF Goes, To
      <3>9. QED
        BY <1>1, <2>1, <2>2, <3>1, <3>4, <3>5, <3>6, <3>7, <3>8, HeldAlone
    <2>4. CASE ~ (i = call[c].row /\ Goes(c, "write"))
      <3>1. /\ rows'[i].level = rows[i].level /\ rows'[i].box = rows[i].box
            /\ Served(i)' => Served(i)
        BY <1>1, <1>2, <2>1, <2>4 DEF Served, BoxOf
      <3>2. ASSUME NEW d \in Caller
            PROVE  \/ call'[d] = call[d]
                   \/ /\ call[d].pc \notin {"build", "write"} \/ call[d].row # i
                      /\ call'[d].row # i
                   \/ /\ call[d].pc \notin {"build", "write"} \/ call[d].row # i
                      /\ call'[d].pc \in {"none", "lookup", "insert", "fail"}
                      /\ call'[d].pc = "fail" => call[d].row = i /\ call[d].pc = "create"
        BY <1>2, <2>1, <2>4 DEF Goes, To, Others
      <3>3. QED
        BY <2>2, <3>1, <3>2, HeldStays
    <2>5. QED
      BY <2>3, <2>4
  <1>11. QED
    BY <1>3, <1>5, <1>6, <1>7, <1>8, <1>9, <1>10, Whole

LEMMA WriteKeeps ==
    ASSUME IInv, NEW c \in Caller, Write(c)
    PROVE  IInv'
  <1>1. /\ TypeOK /\ RowsEnd /\ OneMaker /\ Looked /\ Contained /\ Merging
        /\ NothingOutlivesTheWorkspace
        /\ \A d \in Caller : Placed(d) /\ Caught(d)
        /\ \A i \in locks \cup terms : Served(i)
        /\ Inserted \subseteq 1..MaxRows
    BY Parts, RowsInserted
  <1>2. /\ call' \in [Caller -> CallType]
        /\ rows' \in [1..MaxRows -> Row]
        /\ call[c].pc = "write"
        /\ UNCHANGED <<locks, terms, merge, spoilt, late>>
        /\ \/ UNCHANGED <<rows, made>> /\ To(c, "none")
           \/ /\ LevelOf(call[c].row, call[c].want) /\ To(c, "use")
              /\ call'[c].row = call[c].row /\ call'[c].want = call[c].want
              /\ call'[c].was = rows[call[c].row].status
    <2>1. call[c].pc = "write" => call[c].row \in 1..MaxRows
      BY <1>1 DEF Placed
    <2>2. QED
      BY <1>1, <2>1, WriteDoes
  <1>3. TypeOK'
    <2>1. /\ calls' \in 0..MaxCalls /\ upsets' \in 0..MaxUpsets /\ Inserted' = Inserted
          /\ made' = made
      BY <1>1, <1>2, Numbers DEF Write, TypeOK, counts, Inserted
    <2>2. QED
      BY <1>1, <1>2, <2>1, Numbers DEF TypeOK, CallType
  <1>4. Progress
    BY <1>1, <1>2 DEF Progress, Inserted, To, Others, Goes, LevelOf
  <1>5. RowsEnd' /\ OneMaker'
    <2>1. RowsEnd'
      BY <1>1, <1>2, <1>4, RowsEndStays
    <2>2. \A d \in Caller : call'[d].pc \in Making =>
             call[d].pc \in Making /\ call'[d].row = call[d].row
      BY <1>1, <1>2 DEF Making, To, Others, Goes, LevelOf
    <2>3. QED
      BY <1>1, <2>1, <2>2, OneMakerStays
  <1>6. ASSUME NEW d \in Caller
        PROVE  Placed(d)' /\ Caught(d)'
    <2>1. CASE d # c
      <3>1. call'[d] = call[d]
        BY <1>2, <2>1 DEF To, Others, Goes, LevelOf
      <3>2. call[d].pc \in Making => rows'[call[d].row].status = rows[call[d].row].status
        BY <1>1, <1>2 DEF Placed, Making, LevelOf
      <3>3. Placed(d)'
        BY <1>1, <1>4, <3>1, <3>2, PlacedStays
      <3>4. Caught(d)'
        BY <1>1, <1>2, <1>4, <3>1, CaughtStays
      <3>5. QED
        BY <3>3, <3>4
    <2>2. Placed(c)'
      <3>1. call[c].row \in Inserted /\ Inserted' = Inserted
        BY <1>1, <1>2, <1>4 DEF Placed, Progress
      <3>2. rows'[call[c].row].status = rows[call[c].row].status
        BY <1>1, <1>2, <3>1 DEF LevelOf
      <3>3. QED
        BY <1>2, <3>1, <3>2 DEF Placed, Uses, Making, Acting, Served, Usable, To
    <2>3. Caught(c)'
      <3>1. call[c].row \in Inserted /\ LiveRows' = LiveRows
        BY <1>1, <1>2, <1>4, ProgressKeepsLive DEF Placed
      <3>2. rows[call[c].row].status \in Usable => call[c].row \in LiveRows
        BY <3>1 DEF Usable, LiveRows, Live, Dead
      <3>3. QED
        BY <1>2, <3>1, <3>2 DEF Caught, Uses, Acting, To
    <2>4. QED
      BY <2>1, <2>2, <2>3
  <1>7. /\ \A i \in locks' \cup terms' : Served(i)'
        /\ NothingOutlivesTheWorkspace'
    <2>1. \A i \in locks' \cup terms' : Served(i)'
      <3>1. CASE locks \cup terms = {}
        BY <1>2, <3>1
      <3>2. CASE locks \cup terms # {}
        <4>1. PICK k \in locks \cup terms : Served(k)'
          BY <1>1, <1>4, <3>2, ProgressKeepsRows DEF TypeOK
        <4>2. QED
          BY <1>1, <1>2, <1>4, <4>1, UsedStays
      <3>3. QED
        BY <3>1, <3>2
    <2>2. NothingOutlivesTheWorkspace'
      BY <1>1, <1>2, <1>4, NothingStays
    <2>3. QED
      BY <2>1, <2>2
  <1>8. Looked'
    <2>1. \A d \in Caller : call'[d].pc = "insert" =>
             call[d].pc = "insert" /\ call'[d].seen = call[d].seen
      BY <1>1, <1>2 DEF To, Others, Goes, LevelOf
    <2>2. QED
      BY <1>1, <1>4, <2>1, LookedStays
  <1>9. Merging'
    BY <1>1, <1>2, <1>4, MergingStays
  <1>10. Contained'
    <2>1. SUFFICES ASSUME NEW i \in Inserted, i \notin spoilt'
                   PROVE  Held(i)'
      BY <1>4 DEF Contained, Progress
    <2>2. i \notin spoilt /\ Held(i)
      BY <1>1, <1>2, <2>1 DEF Contained
    <2>3. CASE i = call[c].row /\ TRUE
      <3>1. c \in Changing(i) /\ Fits(c, i) /\ Strong(i) /\ i \in 1..MaxRows
        BY <1>1, <1>2, <2>2, <2>3 DEF Changing, On, Held
      <3>2. /\ rows[i].level \in Nat /\ rows[i].box \in Nat /\ call[c].want \in Nat
            /\ call[c].want \in Levels
        BY <1>1, <2>1, CallTyped, RowTyped
      <3>3. /\ rows'[i].level >= rows[i].level /\ rows'[i].box >= rows'[i].level
            /\ rows'[i].level \in {rows[i].level, call[c].want}
        <4>1. call[c].want > rows[i].level /\ rows[i].box = call[c].want
          BY <1>2, <2>3, <3>1 DEF Fits, Remaking
        <4>2. /\ rows'[i].level \in {rows[i].level, call[c].want}
              /\ rows'[i].box = rows[i].box
          BY <1>2, <2>3, <3>1 DEF LevelOf
        <4>3. QED
          BY <3>2, <4>1, <4>2
      <3>4. rows'[i].level \in Nat /\ rows'[i].level >= rows[i].level
        BY <3>2, <3>3
      <3>5. Fits(c, i)'
        BY <1>2, <2>3, <3>1, <3>2, Numbers DEF LevelOf, Fits, Goes, To, Uses, Acting, Remaking
      <3>6. Strong(i)'
        <4>1. rows'[i].box >= rows'[i].level
          BY <3>3
        <4>2. QED
          BY <4>1 DEF Strong
      <3>7. call'[c].row = i \/ call'[c].pc = "none"
        BY <1>2, <2>3 DEF Goes, To
      <3>8. Others(c)
        BY <1>2 DEF Goes, To
      <3>9. QED
        BY <1>1, <2>1, <2>2, <3>1, <3>4, <3>5, <3>6, <3>7, <3>8, HeldAlone
    <2>4. CASE ~ (i = call[c].row /\ TRUE)
      <3>1. /\ rows'[i].level = rows[i].level /\ rows'[i].box = rows[i].box
            /\ Served(i)' => Served(i)
        BY <1>1, <1>2, <2>1, <2>4 DEF Served, LevelOf
      <3>2. ASSUME NEW d \in Caller
            PROVE  \/ call'[d] = call[d]
                   \/ /\ call[d].pc \notin {"build", "write"} \/ call[d].row # i
                      /\ call'[d].row # i
                   \/ /\ call[d].pc \notin {"build", "write"} \/ call[d].row # i
                      /\ call'[d].pc \in {"none", "lookup", "insert", "fail"}
                      /\ call'[d].pc = "fail" => call[d].row = i /\ call[d].pc = "create"
        BY <1>2, <2>1, <2>4 DEF Goes, To, Others
      <3>3. QED
        BY <2>2, <3>1, <3>2, HeldStays
    <2>5. QED
      BY <2>3, <2>4
  <1>11. QED
    BY <1>3, <1>5, <1>6, <1>7, <1>8, <1>9, <1>10, Whole

LEMMA UseKeeps ==
    ASSUME IInv, NEW c \in Caller, Use(c)
    PROVE  IInv'
  <1>1. /\ TypeOK /\ RowsEnd /\ OneMaker /\ Looked /\ Contained /\ Merging
        /\ NothingOutlivesTheWorkspace
        /\ \A d \in Caller : Placed(d) /\ Caught(d)
        /\ \A i \in locks \cup terms : Served(i)
        /\ Inserted \subseteq 1..MaxRows
    BY Parts, RowsInserted
  <1>2. /\ call' \in [Caller -> CallType]
        /\ rows' \in [1..MaxRows -> Row]
        /\ call[c].pc = "use"
        /\ UNCHANGED <<made, locks, merge, spoilt, late>>
        /\ \/ To(c, "none") /\ UNCHANGED <<rows, terms>>
           \/ /\ call[c].was \in Usable /\ Others(c) /\ call'[c].want = call[c].want
              /\ \/ /\ call[c].was \in {"ready", "idle"} /\ CanMove(call[c].row, "in_use")
                    /\ StatusOf(call[c].row, "in_use")
                 \/ call[c].was \notin {"ready", "idle"} /\ UNCHANGED rows
              /\ \/ call'[c].pc = "lookup"
                 \/ call'[c].pc \in {"act", "session"} /\ call'[c].row = call[c].row
              /\ call'[c].pc = "session" => c \in Cli
              /\ terms' \subseteq terms \cup {call[c].row}
    BY <1>1, UseDoes
  <1>3. TypeOK'
    <2>1. /\ calls' \in 0..MaxCalls /\ upsets' \in 0..MaxUpsets /\ Inserted' = Inserted
          /\ made' = made
      BY <1>1, <1>2, Numbers DEF Use, TypeOK, counts, Inserted
    <2>2. QED
      BY <1>1, <1>2, <2>1, Numbers DEF TypeOK, CallType, Placed
  <1>4. Progress
    <2>1. call[c].row \in Inserted
      BY <1>1, <1>2 DEF Placed, Merging, TypeOK, Inserted
    <2>2. CanMove(call[c].row, "in_use") <=> rows[call[c].row].status \in {"ready", "idle"}
      BY <1>1, <2>1, RowTyped, Moves
    <2>3. CanMove(call[c].row, "idle") <=> rows[call[c].row].status = "in_use"
      BY <1>1, <2>1, RowTyped, Moves
    <2>4. QED
      BY <1>1, <1>2, <2>1, <2>2, <2>3 DEF Progress, Inserted, To, Others, Goes, StatusOf
  <1>5. RowsEnd' /\ OneMaker'
    <2>1. RowsEnd'
      BY <1>1, <1>2, <1>4, RowsEndStays
    <2>2. \A d \in Caller : call'[d].pc \in Making =>
             call[d].pc \in Making /\ call'[d].row = call[d].row
      BY <1>1, <1>2 DEF Making, To, Others, Goes, StatusOf
    <2>3. QED
      BY <1>1, <2>1, <2>2, OneMakerStays
  <1>6. ASSUME NEW d \in Caller
        PROVE  Placed(d)' /\ Caught(d)'
    <2>1. CASE d # c
      <3>1. call'[d] = call[d]
        BY <1>2, <2>1 DEF To, Others, Goes, StatusOf
      <3>2. call[d].pc \in Making => rows'[call[d].row].status = rows[call[d].row].status
        BY <1>1, <1>2, <1>4 DEF Placed, Making, StatusOf, Progress
      <3>3. Placed(d)'
        BY <1>1, <1>4, <3>1, <3>2, PlacedStays
      <3>4. Caught(d)'
        BY <1>1, <1>2, <1>4, <3>1, CaughtStays
      <3>5. QED
        BY <3>3, <3>4
    <2>2. Placed(c)'
      <3>1. CASE call[c].was \in Usable
        <4>1. call[c].row \in Inserted /\ Served(call[c].row)
          BY <1>1, <1>2, <3>1 DEF Placed, Uses
        <4>2. PICK k \in Inserted : k = call[c].row /\ Served(k)'
          BY <1>4, <4>1, ProgressKeepsRows
        <4>3. \/ call'[c].pc \in {"none", "lookup"}
              \/ call'[c].pc \in Acting /\ call'[c].row = k
          BY <1>2, <4>2 DEF To, Acting
        <4>4. QED
          BY <1>4, <4>2, <4>3 DEF Placed, Uses, Served, Acting, Making, Progress
      <3>2. CASE To(c, "none")
        BY <3>2 DEF Placed, Uses, Making, Acting, To
      <3>3. QED
        BY <1>2, <3>1, <3>2
    <2>3. Caught(c)'
      <3>1. LiveRows' = LiveRows /\ Inserted' = Inserted
        BY <1>4, ProgressKeepsLive DEF Progress
      <3>2. call[c].was \in Usable /\ call[c].row \in Inserted \ LiveRows
              => {"use", "act"} \cap late # {}
        BY <1>1, <1>2 DEF Caught, Uses
      <3>3. call'[c].pc = "act" => call[c].was \in Usable /\ call'[c].row = call[c].row
        BY <1>2 DEF To
      <3>4. call'[c].pc \in {"none", "lookup", "act", "session"}
        BY <1>2 DEF To
      <3>5. QED
        BY <1>2, <3>1, <3>2, <3>3, <3>4 DEF Caught
    <2>4. QED
      BY <2>1, <2>2, <2>3
  <1>7. /\ \A i \in locks' \cup terms' : Served(i)'
        /\ NothingOutlivesTheWorkspace'
    <2>1. CASE call[c].was \in Usable
      <3>1. call[c].row \in Inserted /\ Served(call[c].row)
        BY <1>1, <1>2, <2>1 DEF Placed, Uses
      <3>2. PICK k \in Inserted : k = call[c].row /\ Served(k)'
        BY <1>4, <3>1, ProgressKeepsRows
      <3>3. terms' \subseteq terms \cup {k}
        BY <1>2, <3>2
      <3>4. \A i \in locks' \cup terms' : Served(i)'
        BY <1>1, <1>2, <1>4, <3>2, <3>3, UsedStays
      <3>5. k \in Inserted \ LiveRows => {"use", "act"} \cap late # {}
        BY <1>1, <1>2, <2>1, <3>2 DEF Caught, Uses
      <3>6. NothingOutlivesTheWorkspace'
        BY <1>1, <1>2, <1>4, <3>2, <3>3, <3>5, NothingStays
      <3>7. QED
        BY <3>4, <3>6
    <2>2. CASE UNCHANGED <<rows, terms>>
      <3>1. \A i \in locks' \cup terms' : Served(i)'
        BY <1>1, <1>2, <2>2 DEF Served
      <3>2. NothingOutlivesTheWorkspace'
        BY <1>1, <1>2, <1>4, <2>2, NothingStays
      <3>3. QED
        BY <3>1, <3>2
    <2>3. QED
      BY <1>2, <2>1, <2>2
  <1>8. Looked'
    <2>1. \A d \in Caller : call'[d].pc = "insert" =>
             call[d].pc = "insert" /\ call'[d].seen = call[d].seen
      BY <1>1, <1>2 DEF To, Others, Goes, StatusOf
    <2>2. QED
      BY <1>1, <1>4, <2>1, LookedStays
  <1>9. Merging'
    BY <1>1, <1>2, <1>4, MergingStays
  <1>10. Contained'
    <2>1. SUFFICES ASSUME NEW i \in Inserted, i \notin spoilt'
                   PROVE  Held(i)'
      BY <1>4 DEF Contained, Progress
    <2>2. i \notin spoilt /\ Held(i)
      BY <1>1, <1>2, <2>1 DEF Contained
    <2>3. /\ rows'[i].level = rows[i].level /\ rows'[i].box = rows[i].box
          /\ Served(i)' => Served(i)
      BY <1>1, <1>2, <1>4, <2>1 DEF Served, StatusOf, Progress
    <2>4. ASSUME NEW d \in Caller
          PROVE  \/ call'[d] = call[d]
                 \/ call'[d].row # i /\ call[d].pc = "use"
                 \/ call'[d].pc \in {"none", "lookup"} /\ call[d].pc = "use"
                 \/ /\ call[d].row = i /\ Uses(d)
                    /\ call'[d].pc \in Acting /\ call'[d].want = call[d].want
      BY <1>2 DEF Uses, Acting, To, Others
    <2>5. QED
      BY <2>2, <2>3, <2>4, HeldStays
  <1>11. QED
    BY <1>3, <1>5, <1>6, <1>7, <1>8, <1>9, <1>10, Whole

LEMMA ActKeeps ==
    ASSUME IInv, NEW c \in Caller, Act(c)
    PROVE  IInv'
  <1>1. /\ TypeOK /\ RowsEnd /\ OneMaker /\ Looked /\ Contained /\ Merging
        /\ NothingOutlivesTheWorkspace
        /\ \A d \in Caller : Placed(d) /\ Caught(d)
        /\ \A i \in locks \cup terms : Served(i)
        /\ Inserted \subseteq 1..MaxRows
    BY Parts, RowsInserted
  <1>2. /\ call' \in [Caller -> CallType]
        /\ call[c].pc = "act"
        /\ UNCHANGED <<rows, made, locks, merge, spoilt, late>>
        /\ \/ To(c, "none") /\ terms' = terms
           \/ Goes(c, "command") /\ terms' = terms \cup {call[c].row}
           \/ Goes(c, "lock") /\ terms' = terms
    BY <1>1, ActDoes
  <1>3. TypeOK'
    <2>1. /\ calls' \in 0..MaxCalls /\ upsets' \in 0..MaxUpsets /\ Inserted' = Inserted
          /\ made' = made
      BY <1>1, <1>2, Numbers DEF Act, TypeOK, counts, Inserted
    <2>2. QED
      BY <1>1, <1>2, <2>1, Numbers DEF TypeOK, CallType, Placed
  <1>4. Progress
    BY <1>1, <1>2 DEF Progress, Inserted, To, Others, Goes
  <1>5. RowsEnd' /\ OneMaker'
    <2>1. RowsEnd'
      BY <1>1, <1>2, <1>4, RowsEndStays
    <2>2. \A d \in Caller : call'[d].pc \in Making =>
             call[d].pc \in Making /\ call'[d].row = call[d].row
      BY <1>1, <1>2 DEF Making, To, Others, Goes
    <2>3. QED
      BY <1>1, <2>1, <2>2, OneMakerStays
  <1>6. ASSUME NEW d \in Caller
        PROVE  Placed(d)' /\ Caught(d)'
    <2>1. CASE d # c
      <3>1. call'[d] = call[d]
        BY <1>2, <2>1 DEF To, Others, Goes
      <3>2. call[d].pc \in Making => rows'[call[d].row].status = rows[call[d].row].status
        BY <1>1, <1>2 DEF Placed, Making
      <3>3. Placed(d)'
        BY <1>1, <1>4, <3>1, <3>2, PlacedStays
      <3>4. Caught(d)'
        BY <1>1, <1>2, <1>4, <3>1, CaughtStays
      <3>5. QED
        BY <3>3, <3>4
    <2>2. Placed(c)'
      <3>1. call[c].row \in Inserted /\ Served(call[c].row)
        BY <1>1, <1>2 DEF Placed, Uses, Acting
      <3>2. PICK k \in Inserted : k = call[c].row /\ Served(k)'
        BY <1>4, <3>1, ProgressKeepsRows
      <3>3. \/ call'[c].pc = "none"
            \/ call'[c].pc \in Acting /\ call'[c].row = k
        BY <1>2, <3>2 DEF To, Goes, Acting
      <3>4. QED
        BY <1>4, <3>2, <3>3 DEF Placed, Uses, Served, Acting, Making, Progress
    <2>3. Caught(c)'
      <3>1. call'[c].pc \in {"none", "lookup", "insert", "create", "fail", "ready",
                           "destroy", "build", "write", "command", "lock", "session"}
        BY <1>2 DEF To, Goes
      <3>2. QED
        BY <1>1, <1>2, <1>4, <3>1, CaughtStays
    <2>4. QED
      BY <2>1, <2>2, <2>3
  <1>7. /\ \A i \in locks' \cup terms' : Served(i)'
        /\ NothingOutlivesTheWorkspace'
    <2>1. call[c].row \in Inserted /\ Served(call[c].row)
      BY <1>1, <1>2 DEF Placed, Uses, Acting
    <2>2. PICK k \in Inserted : k = call[c].row /\ Served(k)'
      BY <1>4, <2>1, ProgressKeepsRows
    <2>3. \A i \in locks' \cup terms' : Served(i)'
      BY <1>1, <1>2, <1>4, <2>2, UsedStays
    <2>4. k \in Inserted \ LiveRows => {"use", "act"} \cap late # {}
      BY <1>1, <1>2, <2>2 DEF Caught, Uses, Acting
    <2>5. NothingOutlivesTheWorkspace'
      BY <1>1, <1>2, <1>4, <2>2, <2>4, NothingStays
    <2>6. QED
      BY <2>3, <2>5
  <1>8. Looked'
    <2>1. \A d \in Caller : call'[d].pc = "insert" =>
             call[d].pc = "insert" /\ call'[d].seen = call[d].seen
      BY <1>1, <1>2 DEF To, Others, Goes
    <2>2. QED
      BY <1>1, <1>4, <2>1, LookedStays
  <1>9. Merging'
    BY <1>1, <1>2, <1>4, MergingStays
  <1>10. Contained'
    <2>1. SUFFICES ASSUME NEW i \in Inserted, i \notin spoilt'
                   PROVE  Held(i)'
      BY <1>4 DEF Contained, Progress
    <2>2. i \notin spoilt /\ Held(i)
      BY <1>1, <1>2, <2>1 DEF Contained
    <2>3. /\ rows'[i].level = rows[i].level /\ rows'[i].box = rows[i].box
          /\ Served(i)' => Served(i)
      BY <1>1, <1>2, <2>1 DEF Served
    <2>4. \A d \in Caller :
            \/ call'[d] = call[d]
            \/ /\ call[d].pc \notin {"build", "write"} \/ call[d].row # i
               /\ call'[d].row # i
            \/ /\ call[d].pc \notin {"build", "write"} \/ call[d].row # i
               /\ call'[d].pc \in {"none", "lookup", "insert", "fail"}
               /\ call'[d].pc = "fail" => call[d].row = i /\ call[d].pc = "create"
            \/ /\ call[d].row = i /\ Uses(d)
               /\ call'[d].pc \in Acting /\ call'[d].want = call[d].want
      BY <1>1, <1>2, <2>1 DEF Acting, Uses, To, Others, Goes
    <2>5. QED
      BY <2>2, <2>3, <2>4, HeldStays
  <1>11. QED
    BY <1>3, <1>5, <1>6, <1>7, <1>8, <1>9, <1>10, Whole

LEMMA EndCommandKeeps ==
    ASSUME IInv, NEW c \in Caller, EndCommand(c)
    PROVE  IInv'
  <1>1. /\ TypeOK /\ RowsEnd /\ OneMaker /\ Looked /\ Contained /\ Merging
        /\ NothingOutlivesTheWorkspace
        /\ \A d \in Caller : Placed(d) /\ Caught(d)
        /\ \A i \in locks \cup terms : Served(i)
        /\ Inserted \subseteq 1..MaxRows
    BY Parts, RowsInserted
  <1>2. /\ call' \in [Caller -> CallType]
        /\ call[c].pc = "command" /\ To(c, "none")
        /\ UNCHANGED <<rows, made, locks, terms, merge, spoilt, late>>
    BY <1>1, EndCommandDoes
  <1>3. TypeOK'
    <2>1. /\ calls' \in 0..MaxCalls /\ upsets' \in 0..MaxUpsets /\ Inserted' = Inserted
          /\ made' = made
      BY <1>1, <1>2, Numbers DEF EndCommand, TypeOK, counts, Inserted
    <2>2. QED
      BY <1>1, <1>2, <2>1, Numbers DEF TypeOK, CallType
  <1>4. QED
    BY <1>2, <1>3, LeavingKeeps

LEMMA CheckLockKeeps ==
    ASSUME IInv, NEW c \in Caller, CheckLock(c)
    PROVE  IInv'
  <1>1. /\ TypeOK /\ RowsEnd /\ OneMaker /\ Looked /\ Contained /\ Merging
        /\ NothingOutlivesTheWorkspace
        /\ \A d \in Caller : Placed(d) /\ Caught(d)
        /\ \A i \in locks \cup terms : Served(i)
        /\ Inserted \subseteq 1..MaxRows
    BY Parts, RowsInserted
  <1>2. /\ call' \in [Caller -> CallType]
        /\ call[c].pc = "lock"
        /\ UNCHANGED <<rows, made, locks, terms, merge, spoilt, late>>
        /\ \/ Live(call[c].row) /\ Goes(c, "locking")
           \/ To(c, "none")
    BY <1>1, CheckLockDoes
  <1>3. TypeOK'
    <2>1. /\ calls' \in 0..MaxCalls /\ upsets' \in 0..MaxUpsets /\ Inserted' = Inserted
          /\ made' = made
      BY <1>1, <1>2, Numbers DEF CheckLock, TypeOK, counts, Inserted
    <2>2. QED
      BY <1>1, <1>2, <2>1, Numbers DEF TypeOK, CallType
  <1>4. Progress
    BY <1>1, <1>2 DEF Progress, Inserted, To, Others, Goes
  <1>5. RowsEnd' /\ OneMaker'
    <2>1. RowsEnd'
      BY <1>1, <1>2, <1>4, RowsEndStays
    <2>2. \A d \in Caller : call'[d].pc \in Making =>
             call[d].pc \in Making /\ call'[d].row = call[d].row
      BY <1>1, <1>2 DEF Making, To, Others, Goes
    <2>3. QED
      BY <1>1, <2>1, <2>2, OneMakerStays
  <1>6. ASSUME NEW d \in Caller
        PROVE  Placed(d)' /\ Caught(d)'
    <2>1. CASE d # c
      <3>1. call'[d] = call[d]
        BY <1>2, <2>1 DEF To, Others, Goes
      <3>2. call[d].pc \in Making => rows'[call[d].row].status = rows[call[d].row].status
        BY <1>1, <1>2 DEF Placed, Making
      <3>3. Placed(d)'
        BY <1>1, <1>4, <3>1, <3>2, PlacedStays
      <3>4. Caught(d)'
        BY <1>1, <1>2, <1>4, <3>1, CaughtStays
      <3>5. QED
        BY <3>3, <3>4
    <2>2. Placed(c)'
      <3>1. call[c].row \in Inserted /\ Served(call[c].row)
        BY <1>1, <1>2 DEF Placed, Uses, Acting
      <3>2. PICK k \in Inserted : k = call[c].row /\ Served(k)'
        BY <1>4, <3>1, ProgressKeepsRows
      <3>3. \/ call'[c].pc = "none"
            \/ call'[c].pc \in Acting /\ call'[c].row = k
        BY <1>2, <3>2 DEF To, Goes, Acting
      <3>4. QED
        BY <1>4, <3>2, <3>3 DEF Placed, Uses, Served, Acting, Making, Progress
    <2>3. Caught(c)'
      <3>1. CASE Live(call[c].row) /\ Goes(c, "locking")
        <4>1. call'[c].row = call[c].row /\ call[c].row \in LiveRows
          BY <1>1, <1>2, <3>1 DEF Goes, LiveRows, Placed
        <4>2. LiveRows' = LiveRows
          BY <1>4, ProgressKeepsLive
        <4>3. QED
          BY <4>1, <4>2 DEF Caught
      <3>2. CASE To(c, "none")
        BY <1>1, <1>2, <1>4, <3>2, CaughtStays DEF To
      <3>3. QED
        BY <1>2, <3>1, <3>2
    <2>4. QED
      BY <2>1, <2>2, <2>3
  <1>7. /\ \A i \in locks' \cup terms' : Served(i)'
        /\ NothingOutlivesTheWorkspace'
    <2>1. \A i \in locks' \cup terms' : Served(i)'
      <3>1. CASE locks \cup terms = {}
        BY <1>2, <3>1
      <3>2. CASE locks \cup terms # {}
        <4>1. PICK k \in locks \cup terms : Served(k)'
          BY <1>1, <1>4, <3>2, ProgressKeepsRows DEF TypeOK
        <4>2. QED
          BY <1>1, <1>2, <1>4, <4>1, UsedStays
      <3>3. QED
        BY <3>1, <3>2
    <2>2. NothingOutlivesTheWorkspace'
      BY <1>1, <1>2, <1>4, NothingStays
    <2>3. QED
      BY <2>1, <2>2
  <1>8. Looked'
    <2>1. \A d \in Caller : call'[d].pc = "insert" =>
             call[d].pc = "insert" /\ call'[d].seen = call[d].seen
      BY <1>1, <1>2 DEF To, Others, Goes
    <2>2. QED
      BY <1>1, <1>4, <2>1, LookedStays
  <1>9. Merging'
    BY <1>1, <1>2, <1>4, MergingStays
  <1>10. Contained'
    <2>1. SUFFICES ASSUME NEW i \in Inserted, i \notin spoilt'
                   PROVE  Held(i)'
      BY <1>4 DEF Contained, Progress
    <2>2. i \notin spoilt /\ Held(i)
      BY <1>1, <1>2, <2>1 DEF Contained
    <2>3. /\ rows'[i].level = rows[i].level /\ rows'[i].box = rows[i].box
          /\ Served(i)' => Served(i)
      BY <1>1, <1>2, <2>1 DEF Served
    <2>4. \A d \in Caller :
            \/ call'[d] = call[d]
            \/ /\ call[d].pc \notin {"build", "write"} \/ call[d].row # i
               /\ call'[d].row # i
            \/ /\ call[d].pc \notin {"build", "write"} \/ call[d].row # i
               /\ call'[d].pc \in {"none", "lookup", "insert", "fail"}
               /\ call'[d].pc = "fail" => call[d].row = i /\ call[d].pc = "create"
            \/ /\ call[d].row = i /\ Uses(d)
               /\ call'[d].pc \in Acting /\ call'[d].want = call[d].want
      BY <1>1, <1>2, <2>1 DEF Acting, Uses, To, Others, Goes
    <2>5. QED
      BY <2>2, <2>3, <2>4, HeldStays
  <1>11. QED
    BY <1>3, <1>5, <1>6, <1>7, <1>8, <1>9, <1>10, Whole

LEMMA TakeLockKeeps ==
    ASSUME IInv, NEW c \in Caller, TakeLock(c)
    PROVE  IInv'
  <1>1. /\ TypeOK /\ RowsEnd /\ OneMaker /\ Looked /\ Contained /\ Merging
        /\ NothingOutlivesTheWorkspace
        /\ \A d \in Caller : Placed(d) /\ Caught(d)
        /\ \A i \in locks \cup terms : Served(i)
        /\ Inserted \subseteq 1..MaxRows
    BY Parts, RowsInserted
  <1>2. /\ call' \in [Caller -> CallType]
        /\ call[c].pc = "locking" /\ To(c, "none")
        /\ UNCHANGED <<rows, made, terms, merge, spoilt, late>>
           /\ locks' = locks \cup {call[c].row}
    BY <1>1, TakeLockDoes
  <1>3. TypeOK'
    <2>1. /\ calls' \in 0..MaxCalls /\ upsets' \in 0..MaxUpsets /\ Inserted' = Inserted
          /\ made' = made
      BY <1>1, <1>2, Numbers DEF TakeLock, TypeOK, counts, Inserted
    <2>2. QED
      BY <1>1, <1>2, <2>1, Numbers DEF TypeOK, CallType, Placed
  <1>4. Progress
    BY <1>1, <1>2 DEF Progress, Inserted, To, Others, Goes
  <1>5. RowsEnd' /\ OneMaker'
    <2>1. RowsEnd'
      BY <1>1, <1>2, <1>4, RowsEndStays
    <2>2. \A d \in Caller : call'[d].pc \in Making =>
             call[d].pc \in Making /\ call'[d].row = call[d].row
      BY <1>1, <1>2 DEF Making, To, Others, Goes
    <2>3. QED
      BY <1>1, <2>1, <2>2, OneMakerStays
  <1>6. ASSUME NEW d \in Caller
        PROVE  Placed(d)' /\ Caught(d)'
    <2>1. CASE d # c
      <3>1. call'[d] = call[d]
        BY <1>2, <2>1 DEF To, Others, Goes
      <3>2. call[d].pc \in Making => rows'[call[d].row].status = rows[call[d].row].status
        BY <1>1, <1>2 DEF Placed, Making
      <3>3. Placed(d)'
        BY <1>1, <1>4, <3>1, <3>2, PlacedStays
      <3>4. Caught(d)'
        BY <1>1, <1>2, <1>4, <3>1, CaughtStays
      <3>5. QED
        BY <3>3, <3>4
    <2>2. Placed(c)'
      BY <1>1, <1>2, <1>4 DEF Placed, Uses, Making, Acting, Progress, To, Others, Goes
    <2>3. Caught(c)'
      <3>1. call'[c].pc \in {"none", "lookup", "insert", "create", "fail", "ready",
                           "destroy", "build", "write", "command", "lock", "session"}
        BY <1>2 DEF To, Goes
      <3>2. QED
        BY <1>1, <1>2, <1>4, <3>1, CaughtStays
    <2>4. QED
      BY <2>1, <2>2, <2>3
  <1>7. /\ \A i \in locks' \cup terms' : Served(i)'
        /\ NothingOutlivesTheWorkspace'
    <2>1. call[c].row \in Inserted /\ Served(call[c].row)
      BY <1>1, <1>2 DEF Placed, Uses, Acting
    <2>2. PICK k \in Inserted : k = call[c].row /\ Served(k)'
      BY <1>4, <2>1, ProgressKeepsRows
    <2>3. \A i \in locks' \cup terms' : Served(i)'
      BY <1>1, <1>2, <1>4, <2>2, UsedStays
    <2>4. k \in Inserted \ LiveRows => "locking" \in late
      BY <1>1, <1>2, <2>2 DEF Caught
    <2>5. NothingOutlivesTheWorkspace'
      BY <1>1, <1>2, <1>4, <2>2, <2>4, NothingStays
    <2>6. QED
      BY <2>3, <2>5
  <1>8. Looked'
    <2>1. \A d \in Caller : call'[d].pc = "insert" =>
             call[d].pc = "insert" /\ call'[d].seen = call[d].seen
      BY <1>1, <1>2 DEF To, Others, Goes
    <2>2. QED
      BY <1>1, <1>4, <2>1, LookedStays
  <1>9. Merging'
    BY <1>1, <1>2, <1>4, MergingStays
  <1>10. Contained'
    <2>1. SUFFICES ASSUME NEW i \in Inserted, i \notin spoilt'
                   PROVE  Held(i)'
      BY <1>4 DEF Contained, Progress
    <2>2. i \notin spoilt /\ Held(i)
      BY <1>1, <1>2, <2>1 DEF Contained
    <2>3. /\ rows'[i].level = rows[i].level /\ rows'[i].box = rows[i].box
          /\ Served(i)' => Served(i)
      BY <1>1, <1>2, <2>1 DEF Served
    <2>4. \A d \in Caller :
            \/ call'[d] = call[d]
            \/ /\ call[d].pc \notin {"build", "write"} \/ call[d].row # i
               /\ call'[d].row # i
            \/ /\ call[d].pc \notin {"build", "write"} \/ call[d].row # i
               /\ call'[d].pc \in {"none", "lookup", "insert", "fail"}
               /\ call'[d].pc = "fail" => call[d].row = i /\ call[d].pc = "create"
            \/ /\ call[d].row = i /\ Uses(d)
               /\ call'[d].pc \in Acting /\ call'[d].want = call[d].want
      BY <1>1, <1>2, <2>1 DEF Acting, Uses, To, Others, Goes
    <2>5. QED
      BY <2>2, <2>3, <2>4, HeldStays
  <1>11. QED
    BY <1>3, <1>5, <1>6, <1>7, <1>8, <1>9, <1>10, Whole

LEMMA EndSessionKeeps ==
    ASSUME IInv, NEW c \in Caller, EndSession(c)
    PROVE  IInv'
  <1>1. /\ TypeOK /\ RowsEnd /\ OneMaker /\ Looked /\ Contained /\ Merging
        /\ NothingOutlivesTheWorkspace
        /\ \A d \in Caller : Placed(d) /\ Caught(d)
        /\ \A i \in locks \cup terms : Served(i)
        /\ Inserted \subseteq 1..MaxRows
    BY Parts, RowsInserted
  <1>2. /\ call' \in [Caller -> CallType]
        /\ rows' \in [1..MaxRows -> Row]
        /\ call[c].pc = "session" /\ To(c, "none")
        /\ UNCHANGED <<made, locks, terms, merge, spoilt, late>>
        /\ \/ rows' = rows
           \/ CanMove(call[c].row, "idle") /\ StatusOf(call[c].row, "idle")
    BY <1>1, EndSessionDoes
  <1>3. TypeOK'
    <2>1. /\ calls' \in 0..MaxCalls /\ upsets' \in 0..MaxUpsets /\ Inserted' = Inserted
          /\ made' = made
      BY <1>1, <1>2, Numbers DEF EndSession, TypeOK, counts, Inserted
    <2>2. QED
      BY <1>1, <1>2, <2>1, Numbers DEF TypeOK, CallType
  <1>4. Progress
    <2>1. call[c].row \in Inserted
      BY <1>1, <1>2 DEF Placed, Merging, TypeOK, Inserted
    <2>2. CanMove(call[c].row, "in_use") <=> rows[call[c].row].status \in {"ready", "idle"}
      BY <1>1, <2>1, RowTyped, Moves
    <2>3. CanMove(call[c].row, "idle") <=> rows[call[c].row].status = "in_use"
      BY <1>1, <2>1, RowTyped, Moves
    <2>4. QED
      BY <1>1, <1>2, <2>1, <2>2, <2>3 DEF Progress, Inserted, To, Others, Goes, StatusOf
  <1>5. RowsEnd' /\ OneMaker'
    <2>1. RowsEnd'
      BY <1>1, <1>2, <1>4, RowsEndStays
    <2>2. \A d \in Caller : call'[d].pc \in Making =>
             call[d].pc \in Making /\ call'[d].row = call[d].row
      BY <1>1, <1>2 DEF Making, To, Others, Goes, StatusOf
    <2>3. QED
      BY <1>1, <2>1, <2>2, OneMakerStays
  <1>6. ASSUME NEW d \in Caller
        PROVE  Placed(d)' /\ Caught(d)'
    <2>1. CASE d # c
      <3>1. call'[d] = call[d]
        BY <1>2, <2>1 DEF To, Others, Goes, StatusOf
      <3>2. call[d].pc \in Making => rows'[call[d].row].status = rows[call[d].row].status
        BY <1>1, <1>2, <1>4 DEF Placed, Making, StatusOf, Progress
      <3>3. Placed(d)'
        BY <1>1, <1>4, <3>1, <3>2, PlacedStays
      <3>4. Caught(d)'
        BY <1>1, <1>2, <1>4, <3>1, CaughtStays
      <3>5. QED
        BY <3>3, <3>4
    <2>2. Placed(c)'
      BY <1>1, <1>2, <1>4 DEF Placed, Uses, Making, Acting, Progress, To, Others, Goes, StatusOf
    <2>3. Caught(c)'
      <3>1. call'[c].pc \in {"none", "lookup", "insert", "create", "fail", "ready",
                           "destroy", "build", "write", "command", "lock", "session"}
        BY <1>2 DEF To, Goes
      <3>2. QED
        BY <1>1, <1>2, <1>4, <3>1, CaughtStays
    <2>4. QED
      BY <2>1, <2>2, <2>3
  <1>7. /\ \A i \in locks' \cup terms' : Served(i)'
        /\ NothingOutlivesTheWorkspace'
    <2>1. \A i \in locks' \cup terms' : Served(i)'
      <3>1. CASE locks \cup terms = {}
        BY <1>2, <3>1
      <3>2. CASE locks \cup terms # {}
        <4>1. PICK k \in locks \cup terms : Served(k)'
          BY <1>1, <1>4, <3>2, ProgressKeepsRows DEF TypeOK
        <4>2. QED
          BY <1>1, <1>2, <1>4, <4>1, UsedStays
      <3>3. QED
        BY <3>1, <3>2
    <2>2. NothingOutlivesTheWorkspace'
      BY <1>1, <1>2, <1>4, NothingStays
    <2>3. QED
      BY <2>1, <2>2
  <1>8. Looked'
    <2>1. \A d \in Caller : call'[d].pc = "insert" =>
             call[d].pc = "insert" /\ call'[d].seen = call[d].seen
      BY <1>1, <1>2 DEF To, Others, Goes, StatusOf
    <2>2. QED
      BY <1>1, <1>4, <2>1, LookedStays
  <1>9. Merging'
    BY <1>1, <1>2, <1>4, MergingStays
  <1>10. Contained'
    <2>1. SUFFICES ASSUME NEW i \in Inserted, i \notin spoilt'
                   PROVE  Held(i)'
      BY <1>4 DEF Contained, Progress
    <2>2. i \notin spoilt /\ Held(i)
      BY <1>1, <1>2, <2>1 DEF Contained
    <2>3. /\ rows'[i].level = rows[i].level /\ rows'[i].box = rows[i].box
          /\ Served(i)' => Served(i)
      BY <1>1, <1>2, <1>4, <2>1 DEF Served, StatusOf, Progress
    <2>4. \A d \in Caller :
            \/ call'[d] = call[d]
            \/ /\ call[d].pc \notin {"build", "write"} \/ call[d].row # i
               /\ call'[d].row # i
            \/ /\ call[d].pc \notin {"build", "write"} \/ call[d].row # i
               /\ call'[d].pc \in {"none", "lookup", "insert", "fail"}
               /\ call'[d].pc = "fail" => call[d].row = i /\ call[d].pc = "create"
            \/ /\ call[d].row = i /\ Uses(d)
               /\ call'[d].pc \in Acting /\ call'[d].want = call[d].want
      BY <1>1, <1>2, <2>1 DEF Acting, Uses, To, Others, Goes, StatusOf
    <2>5. QED
      BY <2>2, <2>3, <2>4, HeldStays
  <1>11. QED
    BY <1>3, <1>5, <1>6, <1>7, <1>8, <1>9, <1>10, Whole

LEMMA PickRowKeeps ==
    ASSUME IInv, PickRow
    PROVE  IInv'
  <1>1. /\ TypeOK /\ RowsEnd /\ OneMaker /\ Looked /\ Contained /\ Merging
        /\ NothingOutlivesTheWorkspace
        /\ \A d \in Caller : Placed(d) /\ Caught(d)
        /\ \A i \in locks \cup terms : Served(i)
        /\ Inserted \subseteq 1..MaxRows
    BY Parts, RowsInserted
  <1>2. /\ merge' \in MergeType
        /\ made # 0 /\ merge.pc = "none"
        /\ merge'.pc = "take" /\ merge'.was = rows[1].status /\ merge'.seen = made
        /\ UNCHANGED <<rows, made, call, locks, terms, spoilt, late>>
    BY <1>1, PickRowDoes
  <1>3. TypeOK'
    <2>1. /\ calls' \in 0..MaxCalls /\ upsets' \in 0..MaxUpsets /\ Inserted' = Inserted
          /\ made' = made
      BY <1>1, <1>2, Numbers DEF PickRow, TypeOK, counts, Inserted
    <2>2. QED
      BY <1>1, <1>2, <2>1, Numbers DEF TypeOK, CallType, MergeType
  <1>4. Progress
    BY <1>1, <1>2 DEF Progress, Inserted
  <1>5. RowsEnd' /\ OneMaker'
    <2>1. RowsEnd'
      BY <1>1, <1>2, <1>4, RowsEndStays
    <2>2. \A d \in Caller : call'[d].pc \in Making =>
             call[d].pc \in Making /\ call'[d].row = call[d].row
      BY <1>1, <1>2 DEF Making, Idle
    <2>3. QED
      BY <1>1, <2>1, <2>2, OneMakerStays
  <1>6. ASSUME NEW d \in Caller
        PROVE  Placed(d)' /\ Caught(d)'
    <2>1. CASE call'[d] = call[d]
      <3>1. call[d].pc \in Making => rows'[call[d].row].status = rows[call[d].row].status
        BY <1>1, <1>2, <1>4 DEF Placed, Making, StatusOf, Progress
      <3>2. Placed(d)'
        BY <1>1, <1>4, <2>1, <3>1, PlacedStays
      <3>3. Caught(d)'
        BY <1>1, <1>2, <1>4, <2>1, CaughtStays
      <3>4. QED
        BY <3>2, <3>3
    <2>2. QED
      BY <1>2, <2>1
  <1>7. /\ \A i \in locks' \cup terms' : Served(i)'
        /\ NothingOutlivesTheWorkspace'
    <2>1. \A i \in locks' \cup terms' : Served(i)'
      <3>1. CASE locks \cup terms = {}
        BY <1>2, <3>1
      <3>2. CASE locks \cup terms # {}
        <4>1. PICK k \in locks \cup terms : Served(k)'
          BY <1>1, <1>4, <3>2, ProgressKeepsRows DEF TypeOK
        <4>2. QED
          BY <1>1, <1>2, <1>4, <4>1, UsedStays
      <3>3. QED
        BY <3>1, <3>2
    <2>2. NothingOutlivesTheWorkspace'
      BY <1>1, <1>2, <1>4, NothingStays
    <2>3. QED
      BY <2>1, <2>2
  <1>8. Looked'
    <2>1. \A d \in Caller : call'[d].pc = "insert" =>
             call[d].pc = "insert" /\ call'[d].seen = call[d].seen
      BY <1>1, <1>2 DEF Idle
    <2>2. QED
      BY <1>1, <1>4, <2>1, LookedStays
  <1>9. Merging'
    <2>1. 1 \in Inserted /\ \A i \in 2..made : i \in Inserted
      BY <1>1, <1>2, RowsInserted DEF Inserted
    <2>2. ASSUME NEW i \in 2..made, Live(i)
          PROVE  rows[1].status = "failed" \/ rows[i].seen = 0
      <3>1. CASE Live(1)
        <4>1. 1 > rows[i].seen
          BY <1>1, <2>1, <2>2, <3>1 DEF Looked, OneWorkspaceUnlessRaced, LiveRows
        <4>2. QED
          BY <1>1, <2>1, <4>1, RowTyped
      <3>2. CASE ~ Live(1)
        BY <1>1, <1>2, <2>1, <3>2 DEF RowsEnd, Live, Dead, Usable
      <3>3. QED
        BY <3>1, <3>2
    <2>3. made \in Nat
      BY <1>1, RowsInserted
    <2>4. QED
      BY <1>2, <2>2, <2>3 DEF Merging, Live
  <1>10. Contained'
    <2>1. SUFFICES ASSUME NEW i \in Inserted, i \notin spoilt'
                   PROVE  Held(i)'
      BY <1>4 DEF Contained, Progress
    <2>2. i \notin spoilt /\ Held(i)
      BY <1>1, <1>2, <2>1 DEF Contained
    <2>3. /\ rows'[i].level = rows[i].level /\ rows'[i].box = rows[i].box
          /\ Served(i)' => Served(i)
      BY <1>1, <1>2, <2>1 DEF Served
    <2>4. \A d \in Caller :
            \/ call'[d] = call[d]
            \/ /\ call[d].pc \notin {"build", "write"} \/ call[d].row # i
               /\ call'[d].row # i
            \/ /\ call[d].pc \notin {"build", "write"} \/ call[d].row # i
               /\ call'[d].pc \in {"none", "lookup", "insert", "fail"}
               /\ call'[d].pc = "fail" => call[d].row = i /\ call[d].pc = "create"
            \/ /\ call[d].row = i /\ Uses(d)
               /\ call'[d].pc \in Acting /\ call'[d].want = call[d].want
      BY <1>1, <1>2, <2>1 DEF Acting, Uses, Idle
    <2>5. QED
      BY <2>2, <2>3, <2>4, HeldStays
  <1>11. QED
    BY <1>3, <1>5, <1>6, <1>7, <1>8, <1>9, <1>10, Whole

LEMMA TakeReadyKeeps ==
    ASSUME IInv, TakeReady
    PROVE  IInv'
  <1>1. /\ TypeOK /\ RowsEnd /\ OneMaker /\ Looked /\ Contained /\ Merging
        /\ NothingOutlivesTheWorkspace
        /\ \A d \in Caller : Placed(d) /\ Caught(d)
        /\ \A i \in locks \cup terms : Served(i)
        /\ Inserted \subseteq 1..MaxRows
    BY Parts, RowsInserted
  <1>2. /\ merge' \in MergeType
        /\ rows' \in [1..MaxRows -> Row]
        /\ merge.pc = "take"
        /\ merge'.was = merge.was /\ merge'.seen = merge.seen
        /\ UNCHANGED <<made, call, locks, terms, spoilt, late>>
        /\ \/ merge'.pc = "lost" /\ rows' = rows
           \/ /\ merge'.pc = "mark" /\ merge.was = "ready"
              /\ CanMove(1, "in_use") /\ StatusOf(1, "in_use")
           \/ merge'.pc = "mark" /\ merge.was # "ready" /\ rows' = rows
    <2>1. made # 0
      BY <1>1 DEF Merging, TakeReady
    <2>2. QED
      BY <1>1, <2>1, TakeReadyDoes
  <1>3. TypeOK'
    <2>1. /\ calls' \in 0..MaxCalls /\ upsets' \in 0..MaxUpsets /\ Inserted' = Inserted
          /\ made' = made
      BY <1>1, <1>2, Numbers DEF TakeReady, TypeOK, counts, Inserted
    <2>2. QED
      BY <1>1, <1>2, <2>1, Numbers DEF TypeOK, CallType, MergeType
  <1>4. Progress
    <2>1. 1 \in Inserted
      BY <1>1, <1>2 DEF Placed, Merging, TypeOK, Inserted
    <2>2. CanMove(1, "in_use") <=> rows[1].status \in {"ready", "idle"}
      BY <1>1, <2>1, RowTyped, Moves
    <2>3. CanMove(1, "idle") <=> rows[1].status = "in_use"
      BY <1>1, <2>1, RowTyped, Moves
    <2>4. QED
      BY <1>1, <1>2, <2>1, <2>2, <2>3 DEF Progress, Inserted, StatusOf
  <1>5. RowsEnd' /\ OneMaker'
    <2>1. RowsEnd'
      BY <1>1, <1>2, <1>4, RowsEndStays
    <2>2. \A d \in Caller : call'[d].pc \in Making =>
             call[d].pc \in Making /\ call'[d].row = call[d].row
      BY <1>1, <1>2 DEF Making, Idle
    <2>3. QED
      BY <1>1, <2>1, <2>2, OneMakerStays
  <1>6. ASSUME NEW d \in Caller
        PROVE  Placed(d)' /\ Caught(d)'
    <2>1. CASE call'[d] = call[d]
      <3>1. call[d].pc \in Making => rows'[call[d].row].status = rows[call[d].row].status
        BY <1>1, <1>2, <1>4 DEF Placed, Making, StatusOf, Progress
      <3>2. Placed(d)'
        BY <1>1, <1>4, <2>1, <3>1, PlacedStays
      <3>3. Caught(d)'
        BY <1>1, <1>2, <1>4, <2>1, CaughtStays
      <3>4. QED
        BY <3>2, <3>3
    <2>2. QED
      BY <1>2, <2>1
  <1>7. /\ \A i \in locks' \cup terms' : Served(i)'
        /\ NothingOutlivesTheWorkspace'
    <2>1. \A i \in locks' \cup terms' : Served(i)'
      <3>1. CASE locks \cup terms = {}
        BY <1>2, <3>1
      <3>2. CASE locks \cup terms # {}
        <4>1. PICK k \in locks \cup terms : Served(k)'
          BY <1>1, <1>4, <3>2, ProgressKeepsRows DEF TypeOK
        <4>2. QED
          BY <1>1, <1>2, <1>4, <4>1, UsedStays
      <3>3. QED
        BY <3>1, <3>2
    <2>2. NothingOutlivesTheWorkspace'
      BY <1>1, <1>2, <1>4, NothingStays
    <2>3. QED
      BY <2>1, <2>2
  <1>8. Looked'
    <2>1. \A d \in Caller : call'[d].pc = "insert" =>
             call[d].pc = "insert" /\ call'[d].seen = call[d].seen
      BY <1>1, <1>2 DEF Idle
    <2>2. QED
      BY <1>1, <1>4, <2>1, LookedStays
  <1>9. Merging'
    <2>1. 1 \in Inserted /\ \A i \in 2..merge.seen : i \in Inserted
      BY <1>1, <1>2, RowsInserted DEF Inserted, Merging, TypeOK
    <2>2. \A i \in 2..merge.seen : Live(i)' => rows'[1].status = "failed" \/ rows'[i].seen = 0
      <3>1. \A i \in 2..merge.seen : rows'[i].seen = rows[i].seen /\ (Live(i)' <=> Live(i))
        BY <1>4, <2>1, ProgressKeepsRows
      <3>2. rows[1].status = "failed" => rows'[1].status = "failed"
        BY <1>4, <2>1, ProgressKeepsRows
      <3>3. QED
        BY <1>1, <1>2, <3>1, <3>2 DEF Merging
    <2>3. rows'[1].status = "provisioning" => rows[1].status = "provisioning"
      BY <1>4, <2>1, ProgressKeepsRows
    <2>4. merge'.pc = "mark" /\ merge'.was # "provisioning" => rows'[1].status # "ready"
      BY <1>1, <1>2, <2>1 DEF Merging, StatusOf, Inserted
    <2>5. merge'.pc \in {"mark", "lost"} /\ made' # 0 /\ merge'.seen <= made'
      BY <1>1, <1>2 DEF Merging
    <2>6. QED
      BY <1>1, <1>2, <2>2, <2>3, <2>4, <2>5 DEF Merging
  <1>10. Contained'
    <2>1. SUFFICES ASSUME NEW i \in Inserted, i \notin spoilt'
                   PROVE  Held(i)'
      BY <1>4 DEF Contained, Progress
    <2>2. i \notin spoilt /\ Held(i)
      BY <1>1, <1>2, <2>1 DEF Contained
    <2>3. /\ rows'[i].level = rows[i].level /\ rows'[i].box = rows[i].box
          /\ Served(i)' => Served(i)
      BY <1>1, <1>2, <1>4, <2>1 DEF Served, StatusOf, Progress
    <2>4. \A d \in Caller :
            \/ call'[d] = call[d]
            \/ /\ call[d].pc \notin {"build", "write"} \/ call[d].row # i
               /\ call'[d].row # i
            \/ /\ call[d].pc \notin {"build", "write"} \/ call[d].row # i
               /\ call'[d].pc \in {"none", "lookup", "insert", "fail"}
               /\ call'[d].pc = "fail" => call[d].row = i /\ call[d].pc = "create"
            \/ /\ call[d].row = i /\ Uses(d)
               /\ call'[d].pc \in Acting /\ call'[d].want = call[d].want
      BY <1>1, <1>2, <2>1 DEF Acting, Uses, Idle
    <2>5. QED
      BY <2>2, <2>3, <2>4, HeldStays
  <1>11. QED
    BY <1>3, <1>5, <1>6, <1>7, <1>8, <1>9, <1>10, Whole

LEMMA MarkMergedKeeps ==
    ASSUME IInv, MarkMerged
    PROVE  IInv'
  <1>1. /\ TypeOK /\ RowsEnd /\ OneMaker /\ Looked /\ Contained /\ Merging
        /\ NothingOutlivesTheWorkspace
        /\ \A d \in Caller : Placed(d) /\ Caught(d)
        /\ \A i \in locks \cup terms : Served(i)
        /\ Inserted \subseteq 1..MaxRows
    BY Parts, RowsInserted
  <1>2. /\ merge' \in MergeType
        /\ rows' \in [1..MaxRows -> Row]
        /\ merge.pc = "mark"
        /\ merge'.pc = "done" /\ merge'.was = merge.was /\ merge'.seen = merge.seen
        /\ UNCHANGED <<made, call, spoilt>>
        /\ \/ /\ CanMove(1, "merged") /\ StatusOf(1, "merged")
              /\ locks' = locks \ {1} /\ terms' = terms \ {1}
              /\ late' = late \cup (Adding \cap {call[c].pc : c \in On(1)})
           \/ ~ CanMove(1, "merged") /\ UNCHANGED <<rows, locks, terms, late>>
    BY <1>1, MarkMergedDoes
  <1>3. 1 \in Inserted /\ \A i \in 2..merge.seen : i \in Inserted
    BY <1>1, <1>2, RowsInserted DEF Inserted, Merging, TypeOK
  <1>4. CanMove(1, "merged") <=> rows[1].status \in {"in_use", "idle"}
    BY <1>1, <1>3, RowTyped, Moves
  <1>5. Inserted' = Inserted
    BY <1>2 DEF Inserted
  <1>6. \A j \in Inserted :
           /\ rows'[j].level = rows[j].level /\ rows'[j].box = rows[j].box
           /\ rows'[j].seen = rows[j].seen
           /\ \/ rows'[j].status = rows[j].status
              \/ j = 1 /\ rows[1].status \in {"in_use", "idle"} /\ rows'[1].status = "merged"
    BY <1>1, <1>2, <1>4 DEF StatusOf
  <1>7. \A j \in Inserted : (Served(j)' <=> Served(j)) /\ (Live(j)' => Live(j))
    BY <1>6 DEF Served, Live, Dead
  <1>8. TypeOK'
    <2>1. calls' \in 0..MaxCalls /\ upsets' \in 0..MaxUpsets
      BY <1>1 DEF MarkMerged, TypeOK, counts
    <2>2. QED
      BY <1>1, <1>2, <1>5, <2>1 DEF TypeOK, CallType, MergeType
  <1>9. RowsEnd'
    BY <1>1, <1>2, <1>5, <1>6 DEF RowsEnd
  <1>10. OneMaker'
    BY <1>1, <1>2, OneMakerStays
  <1>11. ASSUME NEW d \in Caller
         PROVE  Placed(d)' /\ Caught(d)'
    <2>1. call'[d] = call[d]
      BY <1>2
    <2>2. Uses(d)' <=> Uses(d)
      BY <2>1 DEF Uses
    <2>3. /\ call[d].pc \notin {"none", "lookup", "insert"} => call[d].row \in Inserted
          /\ call[d].pc \in Making => /\ call[d].row \in Inserted
                                      /\ rows[call[d].row].status = "provisioning"
          /\ Uses(d) => call[d].row \in Inserted /\ Served(call[d].row)
      BY <1>1 DEF Placed, Uses, Acting, Making
    <2>4. call[d].pc \in Making => rows'[call[d].row].status = "provisioning"
      BY <1>6, <2>3
    <2>5. Uses(d) => rows'[call[d].row].status \notin {"provisioning", "failed"}
      BY <1>6, <2>3 DEF Served
    <2>6. Placed(d)'
      BY <1>5, <2>1, <2>2, <2>3, <2>4, <2>5 DEF Placed, Served
    <2>7. Caught(d)'
      <3>1. SUFFICES ASSUME call[d].row \in Inserted, ~ Live(call[d].row)'
                     PROVE  /\ call[d].pc = "locking" => "locking" \in late'
                            /\ Uses(d) /\ call[d].pc \in {"use", "act"}
                                  => {"use", "act"} \cap late' # {}
        BY <1>5, <2>1, <2>2 DEF Caught, LiveRows, Live
      <3>2. late \subseteq late'
        BY <1>2
      <3>3. CASE ~ Live(call[d].row)
        BY <1>1, <3>1, <3>2, <3>3 DEF Caught, LiveRows
      <3>4. CASE Live(call[d].row)
        <4>1. call[d].row = 1 /\ rows'[1].status # rows[1].status
          BY <1>6, <2>1, <3>1, <3>4 DEF Live
        <4>2. late' = late \cup (Adding \cap {call[e].pc : e \in On(1)})
          BY <1>2, <4>1
        <4>3. call[d].pc # "none" => d \in On(1)
          BY <4>1 DEF On
        <4>4. QED
          BY <4>2, <4>3 DEF Adding
      <3>5. QED
        BY <3>3, <3>4
    <2>8. QED
      BY <2>6, <2>7
  <1>12. \A i \in locks' \cup terms' : Served(i)'
    BY <1>1, <1>2, <1>7 DEF TypeOK
  <1>13. NothingOutlivesTheWorkspace'
    <2>1. SUFFICES ASSUME NEW i \in Inserted, ~ Live(i)'
                   PROVE  /\ i \in locks' => "locking" \in late'
                          /\ i \in terms' => {"use", "act"} \cap late' # {}
      BY <1>5 DEF NothingOutlivesTheWorkspace, LiveRows, Live
    <2>2. late \subseteq late' /\ locks' \subseteq locks /\ terms' \subseteq terms
      BY <1>2
    <2>3. CASE ~ Live(i)
      BY <1>1, <2>1, <2>2, <2>3 DEF NothingOutlivesTheWorkspace, LiveRows
    <2>4. CASE Live(i)
      <3>1. i = 1 /\ rows'[1].status # rows[1].status
        BY <1>6, <2>1, <2>4 DEF Live
      <3>2. i \notin locks' /\ i \notin terms'
        BY <1>2, <3>1
      <3>3. QED
        BY <3>2
    <2>5. QED
      BY <2>3, <2>4
  <1>14. Looked'
    <2>1. LiveRows' \subseteq LiveRows /\ \A i \in LiveRows : rows'[i].seen = rows[i].seen
      BY <1>5, <1>6, <1>7 DEF LiveRows
    <2>2. QED
      BY <1>1, <1>2, <2>1, LookedShrinks
  <1>15. Merging'
    <2>1. merge'.was # "provisioning" => rows'[1].status # "provisioning" /\ ~ Live(1)'
      <3>1. rows'[1].status = rows[1].status => rows[1].status \notin {"in_use", "idle"}
        BY <1>1, <1>2, <1>3, <1>4 DEF StatusOf
      <3>2. merge.was # "provisioning" => rows[1].status \notin {"provisioning", "ready"}
        BY <1>1, <1>2 DEF Merging
      <3>3. rows[1].status \in {"ready", "in_use", "idle", "provisioning", "failed", "merged"}
        BY <1>1, <1>3 DEF RowsEnd, Usable
      <3>4. rows'[1].status = rows[1].status \/ rows'[1].status = "merged"
        BY <1>3, <1>6
      <3>5. QED
        BY <1>2, <3>1, <3>2, <3>3, <3>4 DEF Live, Dead
    <2>2. ASSUME NEW i \in 2..merge.seen, Live(i)'
          PROVE  rows'[1].status = "failed" \/ rows'[i].seen = 0
      <3>1. Live(i) /\ rows'[i].seen = rows[i].seen
        BY <1>3, <1>6, <1>7, <2>2
      <3>2. rows[1].status = "failed" \/ rows[i].seen = 0
        BY <1>1, <1>2, <3>1 DEF Merging
      <3>3. rows[1].status = "failed" => rows'[1].status = "failed"
        BY <1>3, <1>6
      <3>4. QED
        BY <3>1, <3>2, <3>3
    <2>3. made' # 0 /\ merge'.seen <= made' /\ merge'.pc = "done" /\ merge'.seen = merge.seen
      BY <1>1, <1>2 DEF Merging
    <2>4. QED
      BY <2>1, <2>2, <2>3 DEF Merging
  <1>16. Contained'
    <2>1. SUFFICES ASSUME NEW i \in Inserted, i \notin spoilt'
                   PROVE  Held(i)'
      BY <1>5 DEF Contained
    <2>2. Held(i)
      BY <1>1, <1>2, <2>1 DEF Contained
    <2>3. \A d \in Caller : call'[d] = call[d]
      BY <1>2
    <2>4. /\ rows'[i].level = rows[i].level /\ rows'[i].box = rows[i].box
          /\ Served(i)' => Served(i)
      BY <1>6, <1>7, <2>1
    <2>5. QED
      BY <2>2, <2>3, <2>4, HeldStays
  <1>17. QED
    BY <1>8, <1>9, <1>10, <1>11, <1>12, <1>13, <1>14, <1>15, <1>16, Whole

LEMMA WorkerDiesKeeps ==
    ASSUME IInv, WorkerDies
    PROVE  IInv'
  <1>1. /\ TypeOK /\ RowsEnd /\ OneMaker /\ Looked /\ Contained /\ Merging
        /\ NothingOutlivesTheWorkspace
        /\ \A d \in Caller : Placed(d) /\ Caught(d)
        /\ \A i \in locks \cup terms : Served(i)
        /\ Inserted \subseteq 1..MaxRows
    BY Parts, RowsInserted
  <1>2. /\ call' \in [Caller -> CallType]
        /\ \A c \in Caller : call'[c] = IF c \in Cli THEN Idle ELSE call[c]
        /\ spoilt' = spoilt \cup Halfway(Cli)
        /\ UNCHANGED <<rows, made, locks, terms, merge, late>>
    BY <1>1, WorkerDiesDoes
  <1>3. TypeOK'
    <2>1. calls' \in 0..MaxCalls /\ upsets' \in 0..MaxUpsets /\ Inserted' = Inserted
      BY <1>1, <1>2, Numbers DEF WorkerDies, TypeOK, counts, Inserted
    <2>2. Halfway(Cli) \subseteq Inserted
      BY <1>1 DEF Placed, Halfway, Caller
    <2>3. QED
      BY <1>1, <1>2, <2>1, <2>2, Numbers DEF TypeOK, CallType
  <1>4. Progress
    BY <1>1, <1>2 DEF Progress, Inserted
  <1>5. RowsEnd' /\ OneMaker'
    <2>1. RowsEnd'
      BY <1>1, <1>2, <1>4, RowsEndStays
    <2>2. \A d \in Caller : call'[d].pc \in Making =>
             call[d].pc \in Making /\ call'[d].row = call[d].row
      BY <1>1, <1>2, IdleIsACall DEF Making
    <2>3. QED
      BY <1>1, <2>1, <2>2, OneMakerStays
  <1>6. ASSUME NEW d \in Caller
        PROVE  Placed(d)' /\ Caught(d)'
    <2>1. CASE call'[d] = call[d]
      <3>1. call[d].pc \in Making => rows'[call[d].row].status = rows[call[d].row].status
        BY <1>1, <1>2, <1>4 DEF Placed, Making, StatusOf, Progress
      <3>2. Placed(d)'
        BY <1>1, <1>4, <2>1, <3>1, PlacedStays
      <3>3. Caught(d)'
        BY <1>1, <1>2, <1>4, <2>1, CaughtStays
      <3>4. QED
        BY <3>2, <3>3
    <2>2. CASE call'[d].pc = "none"
      <3>1. Caught(d)'
        BY <1>1, <1>2, <1>4, <2>2, CaughtStays
      <3>2. QED
        BY <2>2, <3>1 DEF Placed, Uses, Making, Acting
    <2>3. QED
      BY <1>2, <2>1, <2>2, IdleIsACall
  <1>7. /\ \A i \in locks' \cup terms' : Served(i)'
        /\ NothingOutlivesTheWorkspace'
    <2>1. \A i \in locks' \cup terms' : Served(i)'
      <3>1. CASE locks \cup terms = {}
        BY <1>2, <3>1
      <3>2. CASE locks \cup terms # {}
        <4>1. PICK k \in locks \cup terms : Served(k)'
          BY <1>1, <1>4, <3>2, ProgressKeepsRows DEF TypeOK
        <4>2. QED
          BY <1>1, <1>2, <1>4, <4>1, UsedStays
      <3>3. QED
        BY <3>1, <3>2
    <2>2. NothingOutlivesTheWorkspace'
      BY <1>1, <1>2, <1>4, NothingStays
    <2>3. QED
      BY <2>1, <2>2
  <1>8. Looked'
    <2>1. \A d \in Caller : call'[d].pc = "insert" =>
             call[d].pc = "insert" /\ call'[d].seen = call[d].seen
      BY <1>1, <1>2, IdleIsACall
    <2>2. QED
      BY <1>1, <1>4, <2>1, LookedStays
  <1>9. Merging'
    BY <1>1, <1>2, <1>4, MergingStays
  <1>10. Contained'
    <2>1. SUFFICES ASSUME NEW i \in Inserted, i \notin spoilt'
                   PROVE  Held(i)'
      BY <1>4 DEF Contained, Progress
    <2>2. i \notin spoilt /\ Held(i)
      BY <1>1, <1>2, <2>1 DEF Contained
    <2>3. /\ rows'[i].level = rows[i].level /\ rows'[i].box = rows[i].box
          /\ Served(i)' => Served(i)
      BY <1>1, <1>2, <2>1 DEF Served
    <2>4. ASSUME NEW d \in Caller
          PROVE  \/ call'[d] = call[d]
                 \/ /\ call[d].pc \notin {"build", "write"} \/ call[d].row # i
                    /\ call'[d].pc = "none"
      <3>1. CASE d \in Cli
        <4>1. call[d].pc \in {"build", "write"} => call[d].row \in Halfway(Cli)
          BY <3>1 DEF Halfway
        <4>2. QED
          BY <1>2, <2>1, <3>1, <4>1, IdleIsACall
      <3>2. QED
        BY <1>2, <3>1
    <2>5. QED
      BY <2>2, <2>3, <2>4, HeldStays
  <1>11. QED
    BY <1>3, <1>5, <1>6, <1>7, <1>8, <1>9, <1>10, Whole

LEMMA ServerRestartsKeeps ==
    ASSUME IInv, ServerRestarts
    PROVE  IInv'
  <1>1. /\ TypeOK /\ RowsEnd /\ OneMaker /\ Looked /\ Contained /\ Merging
        /\ NothingOutlivesTheWorkspace
        /\ \A d \in Caller : Placed(d) /\ Caught(d)
        /\ \A i \in locks \cup terms : Served(i)
        /\ Inserted \subseteq 1..MaxRows
    BY Parts, RowsInserted
  <1>2. /\ call' \in [Caller -> CallType]
        /\ merge' \in MergeType
        /\ \A c \in Caller : call'[c] = IF c \in Tool THEN Idle ELSE call[c]
        /\ spoilt' = spoilt \cup Halfway(Tool)
        /\ terms' = {}
        /\ \/ merge' = merge
           \/ /\ merge.pc \in {"take", "mark"} /\ merge'.pc = "lost"
              /\ merge'.was = merge.was /\ merge'.seen = merge.seen
        /\ UNCHANGED <<rows, made, locks, late>>
    BY <1>1, ServerRestartsDoes
  <1>3. TypeOK'
    <2>1. calls' \in 0..MaxCalls /\ upsets' \in 0..MaxUpsets /\ Inserted' = Inserted
      BY <1>1, <1>2, Numbers DEF ServerRestarts, TypeOK, counts, Inserted
    <2>2. Halfway(Tool) \subseteq Inserted
      BY <1>1 DEF Placed, Halfway, Caller
    <2>3. QED
      BY <1>1, <1>2, <2>1, <2>2, Numbers DEF TypeOK, CallType, MergeType
  <1>4. Progress
    BY <1>1, <1>2 DEF Progress, Inserted
  <1>5. RowsEnd' /\ OneMaker'
    <2>1. RowsEnd'
      BY <1>1, <1>2, <1>4, RowsEndStays
    <2>2. \A d \in Caller : call'[d].pc \in Making =>
             call[d].pc \in Making /\ call'[d].row = call[d].row
      BY <1>1, <1>2, IdleIsACall DEF Making
    <2>3. QED
      BY <1>1, <2>1, <2>2, OneMakerStays
  <1>6. ASSUME NEW d \in Caller
        PROVE  Placed(d)' /\ Caught(d)'
    <2>1. CASE call'[d] = call[d]
      <3>1. call[d].pc \in Making => rows'[call[d].row].status = rows[call[d].row].status
        BY <1>1, <1>2, <1>4 DEF Placed, Making, StatusOf, Progress
      <3>2. Placed(d)'
        BY <1>1, <1>4, <2>1, <3>1, PlacedStays
      <3>3. Caught(d)'
        BY <1>1, <1>2, <1>4, <2>1, CaughtStays
      <3>4. QED
        BY <3>2, <3>3
    <2>2. CASE call'[d].pc = "none"
      <3>1. Caught(d)'
        BY <1>1, <1>2, <1>4, <2>2, CaughtStays
      <3>2. QED
        BY <2>2, <3>1 DEF Placed, Uses, Making, Acting
    <2>3. QED
      BY <1>2, <2>1, <2>2, IdleIsACall
  <1>7. /\ \A i \in locks' \cup terms' : Served(i)'
        /\ NothingOutlivesTheWorkspace'
    <2>1. \A i \in locks' \cup terms' : Served(i)'
      <3>1. CASE locks \cup terms = {}
        BY <1>2, <3>1
      <3>2. CASE locks \cup terms # {}
        <4>1. PICK k \in locks \cup terms : Served(k)'
          BY <1>1, <1>4, <3>2, ProgressKeepsRows DEF TypeOK
        <4>2. QED
          BY <1>1, <1>2, <1>4, <4>1, UsedStays
      <3>3. QED
        BY <3>1, <3>2
    <2>2. NothingOutlivesTheWorkspace'
      BY <1>1, <1>2, <1>4, NothingStays
    <2>3. QED
      BY <2>1, <2>2
  <1>8. Looked'
    <2>1. \A d \in Caller : call'[d].pc = "insert" =>
             call[d].pc = "insert" /\ call'[d].seen = call[d].seen
      BY <1>1, <1>2, IdleIsACall
    <2>2. QED
      BY <1>1, <1>4, <2>1, LookedStays
  <1>9. Merging'
    BY <1>1, <1>2, <1>4, MergingStays
  <1>10. Contained'
    <2>1. SUFFICES ASSUME NEW i \in Inserted, i \notin spoilt'
                   PROVE  Held(i)'
      BY <1>4 DEF Contained, Progress
    <2>2. i \notin spoilt /\ Held(i)
      BY <1>1, <1>2, <2>1 DEF Contained
    <2>3. /\ rows'[i].level = rows[i].level /\ rows'[i].box = rows[i].box
          /\ Served(i)' => Served(i)
      BY <1>1, <1>2, <2>1 DEF Served
    <2>4. ASSUME NEW d \in Caller
          PROVE  \/ call'[d] = call[d]
                 \/ /\ call[d].pc \notin {"build", "write"} \/ call[d].row # i
                    /\ call'[d].pc = "none"
      <3>1. CASE d \in Tool
        <4>1. call[d].pc \in {"build", "write"} => call[d].row \in Halfway(Tool)
          BY <3>1 DEF Halfway
        <4>2. QED
          BY <1>2, <2>1, <3>1, <4>1, IdleIsACall
      <3>2. QED
        BY <1>2, <3>1
    <2>5. QED
      BY <2>2, <2>3, <2>4, HeldStays
  <1>11. QED
    BY <1>3, <1>5, <1>6, <1>7, <1>8, <1>9, <1>10, Whole

-----------------------------------------------------------------------------
(* The invariant, and what it says                                         *)

LEMMA InitHolds == Init => IInv
  <1>1. SUFFICES ASSUME Init
                 PROVE  IInv
    OBVIOUS
  <1>2. Inserted = {} /\ LiveRows = {}
    BY <1>1 DEF Init, Inserted, LiveRows
  <1>3. \A c \in Caller : call[c] = Idle /\ call[c].pc = "none"
    BY <1>1, IdleIsACall DEF Init
  <1>4. TypeOK
    <2>1. rows \in [1..MaxRows -> Row] /\ made \in 0..MaxRows
      BY <1>1, Numbers DEF Init, NoRow, Row, WorkspaceStatus
    <2>2. call \in [Caller -> CallType]
      BY <1>1, IdleIsACall DEF Init
    <2>3. /\ locks \subseteq Inserted /\ terms \subseteq Inserted /\ spoilt \subseteq Inserted
          /\ late \subseteq Adding
      BY <1>1 DEF Init
    <2>4. calls \in 0..MaxCalls /\ upsets \in 0..MaxUpsets
      BY <1>1, Numbers DEF Init
    <2>5. merge \in [pc : {"none", "take", "mark", "done", "lost"},
                     was : WorkspaceStatus, seen : 0..MaxRows]
      BY <1>1, Numbers DEF Init, WorkspaceStatus
    <2>6. QED
      BY <2>1, <2>2, <2>3, <2>4, <2>5 DEF TypeOK, CallType
  <1>5. RowsEnd /\ Looked /\ Contained /\ NothingOutlivesTheWorkspace
    BY <1>2, <1>3 DEF RowsEnd, Looked, OneWorkspaceUnlessRaced, Contained,
                     NothingOutlivesTheWorkspace
  <1>6. OneMaker /\ \A c \in Caller : Placed(c) /\ Caught(c)
    BY <1>2, <1>3 DEF OneMaker, Placed, Caught, Uses, Making, Acting
  <1>7. Merging /\ locks \cup terms = {}
    BY <1>1 DEF Init, Merging
  <1>8. QED
    BY <1>4, <1>5, <1>6, <1>7 DEF IInv, Known, Outlived

LEMMA StutterHolds ==
    ASSUME IInv, UNCHANGED vars
    PROVE  IInv'
  <1>1. UNCHANGED <<rows, made, call, locks, terms, merge, calls, upsets, spoilt, late>>
    BY DEF vars, counts
  <1>2. UNCHANGED <<Inserted, LiveRows>>
    BY <1>1 DEF Inserted, LiveRows, Live
  <1>3. TypeOK'
    BY <1>1, <1>2, Parts DEF TypeOK
  <1>4. (Known /\ Looked /\ Merging)'
    BY <1>1, <1>2 DEF IInv, Known, Looked, Merging, RowsEnd, OneMaker, Placed, Served, Uses,
                      OneWorkspaceUnlessRaced, Live
  <1>5. (Contained /\ Outlived)'
    BY <1>1, <1>2 DEF IInv, Contained, Held, Changing, On, Fits, Strong, Served, Uses,
                      Outlived, NothingOutlivesTheWorkspace, Caught
  <1>6. QED
    BY <1>3, <1>4, <1>5 DEF IInv

LEMMA StepHolds ==
    ASSUME IInv, Next
    PROVE  IInv'
  <1>1. ASSUME NEW c \in Caller, Begin(c)
        PROVE  IInv'
    BY <1>1, BeginKeeps
  <1>2. ASSUME NEW c \in Caller, Lookup(c)
        PROVE  IInv'
    BY <1>2, LookupKeeps
  <1>3. ASSUME NEW c \in Caller, Insert(c)
        PROVE  IInv'
    BY <1>3, InsertKeeps
  <1>4. ASSUME NEW c \in Caller, CreateFirst(c)
        PROVE  IInv'
    BY <1>4, CreateFirstKeeps
  <1>5. ASSUME NEW c \in Caller, ProvisionFails(c)
        PROVE  IInv'
    BY <1>5, ProvisionFailsKeeps
  <1>6. ASSUME NEW c \in Caller, Ready(c)
        PROVE  IInv'
    BY <1>6, ReadyKeeps
  <1>7. ASSUME NEW c \in Caller, Destroy(c)
        PROVE  IInv'
    BY <1>7, DestroyKeeps
  <1>8. ASSUME NEW c \in Caller, Build(c)
        PROVE  IInv'
    BY <1>8, BuildKeeps
  <1>9. ASSUME NEW c \in Caller, Write(c)
        PROVE  IInv'
    BY <1>9, WriteKeeps
  <1>10. ASSUME NEW c \in Caller, Use(c)
        PROVE  IInv'
    BY <1>10, UseKeeps
  <1>11. ASSUME NEW c \in Caller, Act(c)
        PROVE  IInv'
    BY <1>11, ActKeeps
  <1>12. ASSUME NEW c \in Caller, EndCommand(c)
        PROVE  IInv'
    BY <1>12, EndCommandKeeps
  <1>13. ASSUME NEW c \in Caller, CheckLock(c)
        PROVE  IInv'
    BY <1>13, CheckLockKeeps
  <1>14. ASSUME NEW c \in Caller, TakeLock(c)
        PROVE  IInv'
    BY <1>14, TakeLockKeeps
  <1>15. ASSUME NEW c \in Caller, EndSession(c)
        PROVE  IInv'
    BY <1>15, EndSessionKeeps
  <1>16. CASE PickRow
    BY <1>16, PickRowKeeps
  <1>17. CASE TakeReady
    BY <1>17, TakeReadyKeeps
  <1>18. CASE MarkMerged
    BY <1>18, MarkMergedKeeps
  <1>19. CASE WorkerDies
    BY <1>19, WorkerDiesKeeps
  <1>20. CASE ServerRestarts
    BY <1>20, ServerRestartsKeeps
  <1>21. QED
    BY <1>1, <1>2, <1>3, <1>4, <1>5, <1>6, <1>7, <1>8, <1>9, <1>10, <1>11, <1>12,
       <1>13, <1>14, <1>15, <1>16, <1>17, <1>18, <1>19, <1>20 DEF Next, Provision

LEMMA RunsFollow == IInv => CallsRunAtTheirLevel
  <1>1. SUFFICES ASSUME IInv, NEW c \in Caller, call[c].pc \in Acting,
                        Changing(call[c].row) = {}, call[c].row \notin spoilt
                 PROVE  rows[call[c].row].box >= call[c].want
    BY DEF CallsRunAtTheirLevel, Acting
  <1>2. TypeOK /\ Contained /\ Placed(c)
    BY <1>1, Parts
  <1>3. Uses(c) /\ c \in On(call[c].row)
    BY <1>1 DEF Uses, On, Acting
  <1>4. call[c].row \in Inserted /\ Served(call[c].row)
    BY <1>1, <1>2, <1>3 DEF Placed, Acting
  <1>5. Held(call[c].row)
    BY <1>1, <1>2, <1>4 DEF Contained
  <1>6. call[c].want <= rows[call[c].row].level
    BY <1>3, <1>5 DEF Held, Fits
  <1>7. rows[call[c].row].box >= rows[call[c].row].level
    BY <1>1, <1>4, <1>5 DEF Held, Strong, Changing
  <1>8. /\ call[c].want \in Nat
        /\ rows[call[c].row].level \in Nat /\ rows[call[c].row].box \in Nat
    BY <1>2, <1>4, CallTyped, RowTyped
  <1>9. QED
    BY <1>6, <1>7, <1>8

LEMMA MergeFollows == IInv => MergeEndsTheWorkspace
  <1>1. SUFFICES ASSUME IInv, merge.pc = "done", NEW i \in LiveRows, ~ (i > merge.seen)
                 PROVE  IF i = 1 THEN merge.was = "provisioning"
                        ELSE rows[1].status = "failed" \/ rows[i].seen = 0
    BY DEF MergeEndsTheWorkspace
  <1>2. TypeOK /\ Merging
    BY <1>1, Parts
  <1>3. i \in Inserted /\ Live(i)
    BY <1>1 DEF LiveRows
  <1>4. i \in Nat /\ i >= 1 /\ merge.seen \in Nat
    BY <1>2, <1>3, RowsInserted, Numbers DEF Inserted, TypeOK
  <1>5. i # 1 => i \in 2..merge.seen
    BY <1>1, <1>4
  <1>6. QED
    BY <1>1, <1>2, <1>3, <1>5 DEF Merging

\* The invariant holds of every reachable state, for any callers, rows and mishaps.
THEOREM WorkspacesHold == Spec => []IInv
  <1>1. IInv /\ [Next]_vars => IInv'
    BY StepHolds, StutterHolds
  <1>2. QED
    BY InitHolds, <1>1, PTL DEF Spec

\* Rows, callers, locks, terminals and the merge keep their types: a lock or a
\* terminal always belongs to a row that was inserted.
THEOREM TypeCorrect == Spec => []TypeOK
  <1>1. IInv => TypeOK
    BY DEF IInv
  <1>2. QED
    BY WorkspacesHold, <1>1, PTL

\* "ONE workspace per task" (packages/db/src/workspaces.ts, C2): the lookup takes
\* no lock, so a second live row comes from two callers that both looked before
\* either inserted, and from nothing else: no escalation, failure or merge makes one.
THEOREM OneWorkspace == Spec => []OneWorkspaceUnlessRaced
  <1>1. IInv => OneWorkspaceUnlessRaced
    BY DEF IInv, Looked
  <1>2. QED
    BY WorkspacesHold, <1>1, PTL

\* The level a caller asked for is the least its container isolates at for as long
\* as it works there, whoever escalates meanwhile: provision, escalateIsolation and
\* createContainer's adoption keep it for rows whose container one call at a time
\* changes and whose changes ended.
THEOREM RunsAtLevel == Spec => []CallsRunAtTheirLevel
  <1>1. QED
    BY WorkspacesHold, RunsFollow, PTL

\* git.merge and the transition it makes leave no live workspace behind but for a
\* twin, a successor of a failed row, and one that was being provisioned as the
\* row was read.
THEOREM MergeEnds == Spec => []MergeEndsTheWorkspace
  <1>1. QED
    BY WorkspacesHold, MergeFollows, PTL

\* A workspace that has ended keeps a lock or an open terminal only from a caller
\* that was between its last look at the row and its insert when the merge ended it
\* (acquireLock, openTerminal, WorkspaceService.transition).
THEOREM NothingOutlives == Spec => []NothingOutlivesTheWorkspace
  <1>1. IInv => NothingOutlivesTheWorkspace
    BY DEF IInv, Outlived
  <1>2. QED
    BY WorkspacesHold, <1>1, PTL

===================================================================================

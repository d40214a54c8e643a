------------------------------- MODULE Workspaces -------------------------------
(***************************************************************************)
(* The workspace of one task, as several callers use it at once:           *)
(* WorkspaceService (packages/db/src/workspaces.ts: provision,             *)
(* escalateIsolation, transition, acquireLock, openTerminal), the tool     *)
(* dispatcher that prepares it, runs in it and merges it                   *)
(* (apps/server/src/modules/tools/dispatch.ts: workspaceFor, terminal.run, *)
(* fs.write, git.merge), and the CLI session of the worker                 *)
(* (cli-session/activities.ts).  None of their transactions spans a call   *)
(* of the sandbox, so the row and the container move apart.                *)
(*                                                                         *)
(* A row is named by its place in the order of creation, a container by    *)
(* its row (docker.ts adopts the one that has the name), and each caller   *)
(* is an agent of its own.  Planning tasks' light session workspaces and   *)
(* the levels off the ladder keep rows of their own and are left out.      *)
(***************************************************************************)
EXTENDS Integers, FiniteSets

CONSTANTS
    Tool,        \* the dispatcher's callers, in the server
    Cli,         \* the CLI sessions, in the worker
    MaxLevel,    \* the ladder: 1 analysis, 2 coding, 3 testing
    MaxRows,     \* workspaces ever inserted: a bound
    MaxCalls,    \* calls of tools and sessions: a bound
    MaxUpsets    \* deaths and failures of the sandbox: a bound

Coding == 2
Caller == Tool \cup Cli
Levels == 1..MaxLevel

ASSUME WorkspacesAssumption ==
    /\ Tool \cap Cli = {}
    /\ MaxLevel \in 2..3
    /\ {MaxRows, MaxCalls, MaxUpsets} \subseteq Nat

WorkspaceStatus == {"none", "provisioning", "ready", "in_use", "idle",
                    "merged", "discarded", "failed", "destroyed"}
Dead == {"merged", "discarded", "failed", "destroyed"}
Usable == {"ready", "in_use", "idle"}
NextOf == [s \in WorkspaceStatus |->
    CASE s = "provisioning" -> {"ready", "failed"}
      [] s = "ready" -> {"in_use"}
      [] s = "in_use" -> {"idle", "merged", "discarded", "failed"}
      [] s = "idle" -> {"in_use", "merged", "discarded", "failed"}
      [] s \in {"merged", "discarded", "failed"} -> {"destroyed"}
      [] OTHER -> {}]

Steps == {"none", "lookup", "insert", "create", "fail", "ready",
          "destroy", "build", "write", "use", "act", "command",
          "lock", "locking", "session"}

VARIABLES
    rows,    \* the task's workspaces, with the level their container runs at
    made,    \* how many there are
    call,    \* [Caller -> where the caller stands and what it has read]
    locks,   \* the workspaces that hold a live lock on a path
    terms,   \* the workspaces that have an active terminal session
    merge,   \* where git.merge stands and what it has read
    calls, upsets,
    spoilt,  \* history: rows whose container two calls changed at once, or whose
             \* change ended halfway
    late     \* history: what a caller was about to add to a row when it ended

counts == <<calls, upsets>>
vars == <<rows, made, call, locks, terms, merge, counts, spoilt, late>>

NoBox == 0
Row == [status : WorkspaceStatus, level : Levels, box : Levels \cup {NoBox},
        seen : 0..MaxRows]   \* history: the rows there were at the lookup
Idle == [pc |-> "none", row |-> 0, want |-> 1, was |-> "provisioning",
         prepared |-> FALSE, seen |-> 0]

NoRow == [status |-> "none", level |-> 1, box |-> NoBox, seen |-> 0]
Inserted == 1..made
Live(i) == rows[i].status \notin Dead
LiveRows == {i \in Inserted : Live(i)}
On(i) == {c \in Caller : call[c].row = i /\ call[c].pc # "none"}

\* Callers between what they read of row i and what they make of its container.
Changing(i) == {c \in On(i) : call[c].pc \in {"create", "fail", "ready",
                                              "destroy", "build", "write"}}

\* Callers past their last look at a row's status before they add a lock, or a
\* terminal, to it.
Adding == {"locking", "use", "act"}

Go(c, pc) == call' = [call EXCEPT ![c].pc = pc]
Leave(c) == call' = [call EXCEPT ![c] = Idle]
CanMove(i, to) == to \in NextOf[rows[i].status]

-----------------------------------------------------------------------------
(* provision: the lookup, then an insert, an escalation or the row as it is *)

\* Tools name their level, and come twice, for prepare and for dispatch.
Begin(c) ==
    /\ call[c].pc = "none"
    /\ calls < MaxCalls
    /\ calls' = calls + 1
    /\ \E l \in Levels :
        /\ c \in Cli => l = Coding
        /\ call' = [call EXCEPT ![c] = [Idle EXCEPT !.pc = "lookup", !.want = l,
                                                    !.prepared = c \in Cli]]
    /\ UNCHANGED <<rows, made, locks, terms, merge, upsets, spoilt, late>>

\* Mutant: the lookup of before C2, keyed on the level that is asked for.
FoundAtLevel(l) ==
    LET found == {i \in LiveRows : rows[i].level = l}
    IN  {i \in found : \A j \in found : i <= j}

\* The first live row of the task, whatever its level.
Found(l) == {i \in LiveRows : \A j \in LiveRows : i <= j}

\* Mutant: a level other than the row's recreates the container.
SufficesIfEqual(i, l) == rows[i].level = l

Suffices(i, l) == l <= rows[i].level

\* Nothing of this read is locked or read again.
Lookup(c) ==
    LET want == call[c].want
        Take(pc, i) == call' = [call EXCEPT
            ![c].pc = pc, ![c].row = i,
            ![c].seen = IF pc = "insert" THEN made ELSE 0,
            ![c].was = IF pc = "use" THEN rows[i].status ELSE call[c].was]
    IN  /\ call[c].pc = "lookup"
        /\ \/ Found(want) = {} /\ Take("insert", 0) /\ UNCHANGED spoilt
           \/ \E i \in Found(want) :
                IF Suffices(i, want)
                THEN Take("use", i) /\ UNCHANGED spoilt
                ELSE /\ Take("destroy", i)
                     /\ spoilt' = IF Changing(i) = {} THEN spoilt ELSE spoilt \cup {i}
        /\ UNCHANGED <<rows, made, locks, terms, merge, counts, late>>

\* workspaces_task_level_live_uq admits one live row of each level.
Taken(i, l) == \E j \in LiveRows \ {i} : rows[j].level = l

Insert(c) ==
    LET want == call[c].want
    IN  /\ call[c].pc = "insert"
        /\ \/ /\ Taken(0, want)
              /\ Leave(c)
              /\ UNCHANGED <<rows, made>>
           \/ /\ ~ Taken(0, want)
              /\ made < MaxRows
              /\ made' = made + 1
              /\ rows' = [rows EXCEPT ![made'] =
                             [status |-> "provisioning", level |-> want,
                              box |-> NoBox, seen |-> call[c].seen]]
              /\ call' = [call EXCEPT ![c].pc = "create", ![c].row = made',
                                          ![c].seen = 0]
        /\ UNCHANGED <<locks, terms, merge, counts, spoilt, late>>

\* createContainer on a name that is taken adopts the container that has it.
Boxed(i, l) == IF rows[i].box = NoBox THEN l ELSE rows[i].box

\* ensureRepo, provisionWorktree and createContainer, or the first that fails.
CreateFirst(c) ==
    LET i == call[c].row
    IN  /\ call[c].pc = "create"
        /\ \/ /\ rows' = [rows EXCEPT ![i].box = Boxed(i, call[c].want)]
              /\ Go(c, "ready")
              /\ UNCHANGED upsets
           \/ /\ upsets < MaxUpsets
              /\ upsets' = upsets + 1
              /\ Go(c, "fail")
              /\ UNCHANGED rows
        /\ UNCHANGED <<made, locks, terms, merge, calls, spoilt, late>>

ProvisionFails(c) ==
    /\ call[c].pc = "fail"
    /\ rows' = [rows EXCEPT ![call[c].row].status = "failed"]
    /\ Leave(c)
    /\ UNCHANGED <<made, locks, terms, merge, counts, spoilt, late>>

Ready(c) ==
    /\ call[c].pc = "ready"
    /\ rows' = [rows EXCEPT ![call[c].row].status = "ready"]
    /\ call' = [call EXCEPT ![c].pc = "use", ![c].was = "ready"]
    /\ UNCHANGED <<made, locks, terms, merge, counts, spoilt, late>>

\* escalateIsolation: the old container goes first, whoever works in it.
Destroy(c) ==
    LET i == call[c].row
    IN  /\ call[c].pc = "destroy"
        /\ \/ /\ rows' = [rows EXCEPT ![i].box = NoBox]
              /\ Go(c, "build")
              /\ UNCHANGED upsets
           \/ /\ upsets < MaxUpsets
              /\ upsets' = upsets + 1
              /\ Leave(c)
              /\ UNCHANGED rows
        /\ UNCHANGED <<made, locks, terms, merge, calls, spoilt, late>>

Build(c) ==
    LET i == call[c].row
    IN  /\ call[c].pc = "build"
        /\ \/ /\ rows' = [rows EXCEPT ![i].box = Boxed(i, call[c].want)]
              /\ Go(c, "write")
              /\ UNCHANGED <<upsets, spoilt>>
           \/ /\ upsets < MaxUpsets
              /\ upsets' = upsets + 1
              /\ spoilt' = spoilt \cup {i}
              /\ Leave(c)
              /\ UNCHANGED rows
        /\ UNCHANGED <<made, locks, terms, merge, calls, late>>

\* The level is written over whatever the row has by now, unless a twin is at
\* that level; the status it returns is the row's own.
Write(c) ==
    LET i == call[c].row
    IN  /\ call[c].pc = "write"
        /\ IF Live(i) /\ Taken(i, call[c].want)
           THEN Leave(c) /\ UNCHANGED rows
           ELSE /\ rows' = [rows EXCEPT ![i].level = call[c].want]
                /\ call' = [call EXCEPT ![c].pc = "use", ![c].was = rows[i].status]
        /\ UNCHANGED <<made, locks, terms, merge, counts, spoilt, late>>

-----------------------------------------------------------------------------
(* What the callers do with it.                                            *)

\* workspaceFor: the status that was read decides, the row's own is checked.
Use(c) ==
    LET i == call[c].row
        was == call[c].was
        moves == was \in {"ready", "idle"}
    IN  /\ call[c].pc = "use"
        /\ IF was \in Usable /\ (moves => CanMove(i, "in_use"))
           THEN /\ rows' = IF moves THEN [rows EXCEPT ![i].status = "in_use"] ELSE rows
                /\ call' = [call EXCEPT
                     ![c] = [Idle EXCEPT !.want = call[c].want, !.prepared = TRUE,
                                         !.row = IF call[c].prepared THEN i ELSE 0,
                                         !.pc = IF ~ call[c].prepared THEN "lookup"
                                                ELSE IF c \in Cli THEN "session" ELSE "act"]]
                /\ terms' = IF c \in Cli THEN terms \cup {i} ELSE terms
           ELSE Leave(c) /\ UNCHANGED <<rows, terms>>
        /\ UNCHANGED <<made, locks, merge, counts, spoilt, late>>

\* A tool reads, runs a command in the agent's living terminal, or writes.
Act(c) ==
    /\ call[c].pc = "act"
    /\ \/ Leave(c) /\ UNCHANGED terms
       \/ terms' = terms \cup {call[c].row} /\ Go(c, "command")
       \/ call[c].want >= Coding /\ Go(c, "lock") /\ UNCHANGED terms
    /\ UNCHANGED <<rows, made, locks, merge, counts, spoilt, late>>

EndCommand(c) ==
    /\ call[c].pc = "command"
    /\ Leave(c)
    /\ UNCHANGED <<rows, made, locks, terms, merge, counts, spoilt, late>>

\* Mutant: a lock is taken whatever became of the workspace.
TakesAnyLock(c) ==
    /\ call[c].pc = "lock"
    /\ locks' = locks \cup {call[c].row}
    /\ Leave(c)
    /\ UNCHANGED <<rows, made, terms, merge, counts, spoilt, late>>

\* acquireLock after the write: the status is read, and the lock inserted.
CheckLock(c) ==
    /\ call[c].pc = "lock"
    /\ IF Live(call[c].row) THEN Go(c, "locking") ELSE Leave(c)
    /\ UNCHANGED <<rows, made, locks, terms, merge, counts, spoilt, late>>

TakeLock(c) ==
    /\ call[c].pc = "locking"
    /\ locks' = locks \cup {call[c].row}
    /\ Leave(c)
    /\ UNCHANGED <<rows, made, terms, merge, counts, spoilt, late>>

\* The end of a CLI session; a refused transition is swallowed.
EndSession(c) ==
    LET i == call[c].row
    IN  /\ call[c].pc = "session"
        /\ rows' = IF CanMove(i, "idle") THEN [rows EXCEPT ![i].status = "idle"] ELSE rows
        /\ Leave(c)
        /\ UNCHANGED <<made, locks, terms, merge, counts, spoilt, late>>

-----------------------------------------------------------------------------
(* git.merge, which runs at most once for a task.                          *)

\* The task's first row of any status.  The branches are merged by name.
PickRow ==
    /\ merge.pc = "none"
    /\ made # 0
    /\ merge' = [pc |-> "take", was |-> rows[1].status, seen |-> made]
    /\ UNCHANGED <<rows, made, call, locks, terms, counts, spoilt, late>>

\* Mutant: a workspace that was never used is left as it is.
TakeNothing ==
    /\ merge.pc = "take"
    /\ merge' = [merge EXCEPT !.pc = "mark"]
    /\ UNCHANGED <<rows, made, call, locks, terms, counts, spoilt, late>>

\* A refusal here is not swallowed: the merge is made and reported as failed.
TakeReady ==
    LET moves == merge.was = "ready"
        refused == moves /\ ~ CanMove(1, "in_use")
    IN  /\ merge.pc = "take"
        /\ merge' = [merge EXCEPT !.pc = IF refused THEN "lost" ELSE "mark"]
        /\ rows' = IF moves /\ ~ refused THEN [rows EXCEPT ![1].status = "in_use"] ELSE rows
        /\ UNCHANGED <<made, call, locks, terms, counts, spoilt, late>>

\* transition to merged releases the locks and closes the terminals of the
\* row; one that is refused is swallowed.
MarkMerged ==
    /\ merge.pc = "mark"
    /\ merge' = [merge EXCEPT !.pc = "done"]
    /\ IF CanMove(1, "merged")
       THEN /\ rows' = [rows EXCEPT ![1].status = "merged"]
            /\ locks' = locks \ {1}
            /\ terms' = terms \ {1}
            /\ late' = late \cup (Adding \cap {call[c].pc : c \in On(1)})
       ELSE UNCHANGED <<rows, locks, terms, late>>
    /\ UNCHANGED <<made, call, counts, spoilt>>

-----------------------------------------------------------------------------
(* Deaths.                                                                 *)

\* What was halfway through a change of its container stays there.
Halfway(C) == {call[c].row : c \in {d \in C : call[d].pc \in {"build", "write"}}}

\* The worker dies with its sessions.
WorkerDies ==
    /\ upsets < MaxUpsets
    /\ \E c \in Cli : call[c].pc # "none"
    /\ upsets' = upsets + 1
    /\ call' = [c \in Caller |-> IF c \in Cli THEN Idle ELSE call[c]]
    /\ spoilt' = spoilt \cup Halfway(Cli)
    /\ UNCHANGED <<rows, made, locks, terms, merge, calls, late>>

\* The server restarts: closeOrphanedTerminals closes every active terminal,
\* also those of the sessions in the worker, and nothing retries the merge.
ServerRestarts ==
    /\ upsets < MaxUpsets
    /\ upsets' = upsets + 1
    /\ call' = [c \in Caller |-> IF c \in Tool THEN Idle ELSE call[c]]
    /\ spoilt' = spoilt \cup Halfway(Tool)
    /\ terms' = {}
    /\ merge' = IF merge.pc \in {"take", "mark"} THEN [merge EXCEPT !.pc = "lost"] ELSE merge
    /\ UNCHANGED <<rows, made, locks, calls, late>>

-----------------------------------------------------------------------------
Init ==
    /\ rows = [i \in 1..MaxRows |-> NoRow] /\ made = 0
    /\ call = [c \in Caller |-> Idle]
    /\ locks = {}
    /\ terms = {}
    /\ merge = [pc |-> "none", was |-> "provisioning", seen |-> 0]
    /\ calls = 0 /\ upsets = 0
    /\ spoilt = {}
    /\ late = {}

Provision(c) ==
    \/ Lookup(c) \/ Insert(c)
    \/ CreateFirst(c) \/ ProvisionFails(c) \/ Ready(c)
    \/ Destroy(c) \/ Build(c) \/ Write(c)

Next ==
    \/ \E c \in Caller :
        \/ Begin(c)
        \/ Provision(c)
        \/ Use(c)
        \/ Act(c)
        \/ EndCommand(c)
        \/ CheckLock(c)
        \/ TakeLock(c)
        \/ EndSession(c)
    \/ PickRow
    \/ TakeReady
    \/ MarkMerged
    \/ WorkerDies
    \/ ServerRestarts

Spec == Init /\ [][Next]_vars

-----------------------------------------------------------------------------
(* Properties                                                              *)

TypeOK ==
    /\ rows \in [1..MaxRows -> Row] /\ made \in 0..MaxRows
    /\ call \in [Caller -> [pc : Steps, row : 0..MaxRows, want : Levels,
                            was : WorkspaceStatus,
                            prepared : BOOLEAN, seen : 0..MaxRows]]
    /\ locks \subseteq Inserted
    /\ terms \subseteq Inserted
    /\ merge \in [pc : {"none", "take", "mark", "done", "lost"},
                  was : WorkspaceStatus, seen : 0..MaxRows]
    /\ calls \in 0..MaxCalls /\ upsets \in 0..MaxUpsets
    /\ spoilt \subseteq Inserted
    /\ late \subseteq Adding

\* "ONE workspace per task, level escalated on demand": a second live row
\* comes only from two callers that both looked before either inserted.
OneWorkspaceUnlessRaced ==
    \A i, j \in LiveRows : i < j => i > rows[j].seen

\* A tool acts in a container that isolates at least as it asked for, also
\* when others raised the level before, between its two lookups or after: a
\* row's level is that of its container, but for rows whose container two
\* calls changed at once or whose change ended halfway.
CallsRunAtTheirLevel ==
    \A c \in Caller :
        call[c].pc \in {"act", "command", "lock", "locking", "session"} =>
            LET i == call[c].row
            IN  \/ rows[i].box >= call[c].want
                \/ Changing(i) # {}
                \/ i \in spoilt

\* When git.merge has answered, the task has no live workspace left from
\* before it, but for a twin, one that followed a failed first row, and one
\* that was still being provisioned.
MergeEndsTheWorkspace ==
    merge.pc = "done" =>
        \A i \in LiveRows :
            \/ i > merge.seen
            \/ IF i = 1 THEN merge.was = "provisioning"
               ELSE rows[1].status = "failed" \/ rows[i].seen = 0

\* A workspace that has ended holds no lock against the other tasks and
\* shows no open terminal, but for what a caller was inserting as it ended.
NothingOutlivesTheWorkspace ==
    \A i \in Inserted \ LiveRows :
        /\ i \in locks => "locking" \in late
        /\ i \in terms => {"use", "act"} \cap late # {}
================================================================================

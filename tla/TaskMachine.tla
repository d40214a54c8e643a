------------------------------ MODULE TaskMachine ------------------------------
(***************************************************************************)
(* The task state machine and its permission matrix: the pure functions of *)
(* packages/domain/src/state-machines/task.ts.  Every module that moves a  *)
(* task goes through AuthorizeTaskTransition, as TaskStateService does.    *)
(***************************************************************************)
EXTENDS FiniteSets

CONSTANT NoAgent      \* the null of owner_agent_id and of an actor's agentId

TaskStatus ==
    {"DRAFT", "BACKLOG", "PLANNED", "ASSIGNED", "IN_PROGRESS", "WAITING",
     "BLOCKED", "REVIEW", "CHANGES_REQUESTED", "QA", "QA_FAILED", "APPROVAL",
     "REJECTED", "DONE", "FAILED", "CANCELLED"}

TaskActorKinds ==
    {"owner", "creator", "reviewer", "qa", "manager", "approval_engine",
     "founder", "system"}

Terminal == {"DONE", "FAILED", "CANCELLED"}

\* The three states a task leaves only by going back to its owner.
Rework == {"CHANGES_REQUESTED", "QA_FAILED", "REJECTED"}

\* The row of the transition table for one source state.
Successors(from) ==
    CASE from = "DRAFT"             -> {"BACKLOG", "CANCELLED"}
      [] from = "BACKLOG"           -> {"PLANNED", "CANCELLED"}
      [] from = "PLANNED"           -> {"ASSIGNED", "CANCELLED"}
      [] from = "ASSIGNED"          -> {"IN_PROGRESS", "CANCELLED"}
      [] from = "IN_PROGRESS"       -> {"WAITING", "BLOCKED", "REVIEW", "CANCELLED", "FAILED"}
      [] from = "WAITING"           -> {"IN_PROGRESS", "CANCELLED"}
      [] from = "BLOCKED"           -> {"IN_PROGRESS", "CANCELLED", "FAILED"}
      [] from = "REVIEW"            -> {"CHANGES_REQUESTED", "QA", "CANCELLED"}
      [] from = "CHANGES_REQUESTED" -> {"IN_PROGRESS"}
      [] from = "QA"                -> {"QA_FAILED", "APPROVAL", "DONE", "CANCELLED"}
      [] from = "QA_FAILED"         -> {"IN_PROGRESS", "FAILED"}
      [] from = "APPROVAL"          -> {"DONE", "REJECTED"}
      [] from = "REJECTED"          -> {"IN_PROGRESS", "FAILED"}
      [] OTHER                      -> {}

\* machine.ts canTransition: a state without a row allows nothing.
CanTransition(from, to) == to \in Successors(from)

\* PERMISSIONS and CANCEL_OR_FAIL: the actor classes that may take the edge.
PermittedKinds(from, to) ==
    IF to \in {"CANCELLED", "FAILED"}
    THEN {"manager", "founder"}
    ELSE CASE from = "DRAFT"                 -> {"creator", "manager", "founder"}
           [] from \in {"BACKLOG", "PLANNED"}  -> {"manager", "founder"}
           [] from \in {"ASSIGNED", "WAITING"} -> {"owner", "system"}
           [] from = "BLOCKED"               -> {"owner", "manager", "system"}
           [] from = "IN_PROGRESS"           ->
                CASE to = "WAITING" -> {"owner", "system"}
                  [] to = "BLOCKED" -> {"owner", "manager", "system"}
                  [] OTHER          -> {"owner"}
           [] from = "REVIEW"                -> {"reviewer"}
           [] from = "QA"                    -> {"qa", "system"}
           [] from \in Rework                -> {"owner", "manager"}
           [] from = "APPROVAL"              -> {"approval_engine"}
           [] OTHER                          -> {}

\* Mutant: only QA's verdicts need a second pair of eyes.
DistinctInQaOnly(from, to) == from = "QA" /\ to \notin {"CANCELLED", "FAILED"}

\* requireDistinctFromOwner is set on the verdict rows out of REVIEW and QA.
RequireDistinctFromOwner(from, to) ==
    from \in {"REVIEW", "QA"} /\ to \notin {"CANCELLED", "FAILED"}

AuthorizeTaskTransition(from, to, kind, agent, owner) ==
    /\ CanTransition(from, to)
    /\ kind \in PermittedKinds(from, to)
    /\ ~ /\ RequireDistinctFromOwner(from, to)
         /\ agent # NoAgent
         /\ owner # NoAgent
         /\ agent = owner
================================================================================

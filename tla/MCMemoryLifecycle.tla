--------------------------- MODULE MCMemoryLifecycle ---------------------------
(* A small instance of MemoryLifecycle for TLC.                            *)
EXTENDS MemoryLifecycle

CONSTANTS w1, w2, e1, e2, e3, e4, e5, e6, retry, wait

\* Two events of one task and one of another, of no project; one event of one
\* project, and two of another.
MCTaskOf == [e \in Event |-> CASE e \in {e1, e2} -> "search" [] e = e3 -> "chore"
                               [] e = e4 -> "login" [] e \in {e5, e6} -> "pay"]
MCProjectOf == [e \in Event |-> CASE e = e4 -> "app" [] e \in {e5, e6} -> "site"
                                  [] OTHER -> None]

Lesson(scope, text, type, confidence, status, cites) ==
    [scope |-> scope, text |-> text, type |-> type, confidence |-> confidence,
     status |-> status, cites |-> cites]

\* What the windows teach: where a failure was met, or what contradicts it; or
\* something about the project, a decision to one and a failure to the other.
MCYields == [w \in Window |->
    IF w = w1
    THEN {Lesson("agent", retry, "failure", 75, "active", {e1, e2}),
          Lesson("project", retry, "decision", 75, "active", {e5, e6})}
    ELSE {Lesson("agent", retry, "failure", 75, "active", {e3}),
          Lesson("agent", wait, "failure", 75, "active", {e1, e4}),
          Lesson("project", retry, "failure", 75, "active", {e4})}]

\* What an agent is sure of becomes the project's, more than what contradicts can
\* be, and what the project decided the company's.
MCRules ==
    {[from |-> "agent", to |-> "project", type |-> None, confidence |-> 70,
      evidence |-> 2, tasks |-> 2, projects |-> 0],
     [from |-> "project", to |-> "company", type |-> "decision", confidence |-> 50,
      evidence |-> 2, tasks |-> 0, projects |-> 2]}
================================================================================

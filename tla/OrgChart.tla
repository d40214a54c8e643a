-------------------------------- MODULE OrgChart --------------------------------
(***************************************************************************)
(* Who works for the company and who reports to whom: AgentsService        *)
(* (apps/server/src/modules/agents/service.ts) and the agent edges of      *)
(* OrgService (modules/org/service.ts), one action for each transaction.   *)
(* Those that write edges hold the company's advisory lock, except the one *)
(* that ends a single edge.                                                *)
(*                                                                         *)
(* An element of Agent is a row of agents: one person, hired at most once. *)
(* Units, positions, model bindings and the edges that are only labels     *)
(* (member_of, leads, mentors, collaborates_with) are left out.  The walk  *)
(* up the chain of managers stops after 50 of them in the code and never   *)
(* here.                                                                   *)
(***************************************************************************)
EXTENDS Integers

CONSTANTS
    Agent,
    NoAgent,
    Executive,  \* agents whose position has the default role "executive"
    NameOf,     \* [Agent -> names], agents.name
    NumberOf    \* [Agent -> Nat], agents.employee_number

ASSUME OrgAssumption ==
    /\ NoAgent \notin Agent
    /\ Executive \subseteq Agent
    /\ NumberOf \in [Agent -> Nat]
    /\ \A a, b \in Agent : NumberOf[a] = NumberOf[b] => a = b

VARIABLES
    employment,   \* [Agent -> Employment], agents.status
    reportsTo,    \* <<agent, manager>> of the reports_to edges that have not ended
    manages,      \* <<manager, agent>> of the manages edges that have not ended
    everReported  \* agents with a reports_to edge, an ended one included

org == <<employment, reportsTo, manages, everReported>>

Employment == {"none", "draft", "active", "paused", "offboarded"}

Hired(a) == employment[a] # "none"
Staff == {a \in Agent : employment[a] \notin {"none", "offboarded"}}
Active == {a \in Agent : employment[a] = "active"}

-----------------------------------------------------------------------------
(* createEdgeInTx                                                          *)

\* The walk up the chain from a: b is in every set of agents that holds a's
\* manager and is closed under having a manager.
Reaches(lines, a, b) ==
    \A S \in SUBSET Agent :
        (\A e \in lines : e[1] = a \/ e[1] \in S => e[2] \in S) => b \in S

\* Mutant: only the proposed manager's own manager is looked at.
MayReportOneUp(a, m, lines, inverse) ==
    /\ a # m /\ <<m, a>> \notin lines
    /\ \A e \in lines : e[1] # a
    /\ <<m, a>> \notin inverse

\* assertReportsToAcyclic and the two unique indexes: one manager at a time,
\* and no second edge of a kind between two agents.  Nobody asks whether the
\* manager still works here.
MayReport(a, m, lines, inverse) ==
    /\ a # m /\ ~ Reaches(lines, m, a)
    /\ \A e \in lines : e[1] # a
    /\ <<m, a>> \notin inverse

\* The edges lines and inverse with one from each of as to m, and back.
Report(as, m, lines, inverse) ==
    /\ \A a \in as : MayReport(a, m, lines, inverse)
    /\ reportsTo' = lines \cup {<<a, m>> : a \in as}
    /\ manages' = inverse \cup {<<m, a>> : a \in as}
    /\ everReported' = everReported \cup as

Keep(lines, inverse) ==
    reportsTo' = lines /\ manages' = inverse /\ UNCHANGED everReported

CreateEdge(a, m) ==
    /\ Hired(a) /\ Hired(m)
    /\ Report({a}, m, reportsTo, manages)
    /\ UNCHANGED employment

\* The same call with the kind "manages".
CreateManages(m, a) ==
    /\ Hired(a) /\ Hired(m)
    /\ <<m, a>> \notin manages
    /\ manages' = manages \cup {<<m, a>>}
    /\ UNCHANGED <<employment, reportsTo, everReported>>

\* Ends one edge; its inverse stays.
EndEdge ==
    /\ \/ \E e \in reportsTo : Keep(reportsTo \ {e}, manages)
       \/ \E e \in manages : Keep(reportsTo, manages \ {e})
    /\ UNCHANGED employment

-----------------------------------------------------------------------------
(* AgentsService                                                           *)

\* Mutant: the index on names is missing.
NameIsAnybodys(a) == TRUE

\* The unique index on the names of those who have not left.
NameIsFree(a) == \A b \in Staff : NameOf[b] # NameOf[a]

\* hire, under a manager or under none, in one transaction.
MayHire(a, m) ==
    /\ ~ Hired(a) /\ NameIsFree(a)
    /\ m # NoAgent => Hired(m) /\ MayReport(a, m, reportsTo, manages)

Hire(a, m, activate) ==
    /\ MayHire(a, m)
    /\ employment' = [employment EXCEPT ![a] = IF activate THEN "active" ELSE "draft"]
    /\ IF m = NoAgent
       THEN Keep(reportsTo, manages)
       ELSE Report({a}, m, reportsTo, manages)

\* transition: activate and resume, pause.  activate asks for a reporting line
\* unless its caller says that the agent is top level.
Activate(a) ==
    /\ employment[a] \in {"draft", "paused"}
    /\ employment' = [employment EXCEPT ![a] = "active"]
    /\ UNCHANGED <<reportsTo, manages, everReported>>

Pause(a) ==
    /\ employment[a] = "active"
    /\ employment' = [employment EXCEPT ![a] = "paused"]
    /\ UNCHANGED <<reportsTo, manages, everReported>>

\* changePlacement, with another manager or with none.
ChangeManager(a, m) ==
    /\ a \in Staff /\ m # a
    /\ LET lines == {e \in reportsTo : e[1] # a}
           inverse == {e \in manages : e[2] # a}
       IN  IF m = NoAgent
           THEN Keep(lines, inverse)
           ELSE m \in Staff /\ Report({a}, m, lines, inverse)
    /\ UNCHANGED employment

\* offboard: every edge of the agent ends and its reports go to its manager;
\* an edge that is in the way fails the whole transaction.
Offboard(a) ==
    /\ employment[a] \in {"active", "paused"}
    /\ employment' = [employment EXCEPT ![a] = "offboarded"]
    /\ LET lines == {e \in reportsTo : a \notin {e[1], e[2]}}
           inverse == {e \in manages : a \notin {e[1], e[2]}}
           reports == {r \in Agent : <<r, a>> \in reportsTo}
           managers == {m \in Agent : <<a, m>> \in reportsTo}
       IN  IF managers = {}
           THEN Keep(lines, inverse)
           ELSE \E m \in managers : Report(reports, m, lines, inverse)

OrgNext ==
    \/ EndEdge
    \/ \E a \in Agent : Activate(a) \/ Pause(a) \/ Offboard(a)
    \/ \E a \in Agent, m \in Agent \cup {NoAgent} :
          ChangeManager(a, m) \/ \E activate \in BOOLEAN : Hire(a, m, activate)
    \/ \E a, m \in Agent : CreateEdge(a, m) \/ CreateManages(m, a)

OrgInit ==
    /\ employment = [a \in Agent |-> "none"]
    /\ reportsTo = {} /\ manages = {} /\ everReported = {}

OrgSpec == OrgInit /\ [][OrgNext]_org

-----------------------------------------------------------------------------
\* ProjectsService.topExecutive: the active executive with the lowest number
\* that has no reports_to edge, not even one that has ended.
TopExecutive ==
    LET tops == (Executive \cap Active) \ everReported
    IN  IF tops = {} THEN NoAgent
        ELSE CHOOSE a \in tops : \A b \in tops : NumberOf[a] <= NumberOf[b]

-----------------------------------------------------------------------------
OrgTypeOK ==
    /\ employment \in [Agent -> Employment]
    /\ reportsTo \subseteq Agent \X Agent
    /\ manages \subseteq Agent \X Agent
    /\ everReported \subseteq Agent

\* Whatever is hired, moved, ended and offboarded, nobody has two managers and
\* nobody is, at any distance, above himself: an escalation ends at the
\* Founder (createEdgeInTx and the three transactions that call it).
LinesFormAForest ==
    /\ \A d, e \in reportsTo : d[1] = e[1] => d = e
    /\ \A a \in Agent : ~ Reaches(reportsTo, a, a)
================================================================================

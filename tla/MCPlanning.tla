------------------------------- MODULE MCPlanning -------------------------------
(* A small instance of Planning for TLC.                                   *)
EXTENDS Planning

CONSTANTS ceo, lead, m1, n1, m2, m3, call, hook

\* The first member's name has two candidates: of two requests that build at once
\* one comes second to it, and a member that left can be replaced under it.
MCName == [a \in Agent |-> CASE a \in {m1, n1} -> 1
                             [] a = m2 -> 2
                             [] a = m3 -> 3
                             [] a = lead -> 0
                             [] a = ceo -> -1]
MCNumber == [a \in Agent |-> CASE a = ceo -> 1 [] a = lead -> 2 [] a = m1 -> 3
                               [] a = m2 -> 4 [] a = m3 -> 5 [] a = n1 -> 6]
\* Nobody, and a team that is at work already and whose lead has left.
MCTeams == {{}, {ceo, m1}}
================================================================================

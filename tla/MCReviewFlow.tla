------------------------------ MODULE MCReviewFlow ------------------------------
(* Small instances of ReviewFlow for TLC.                                  *)
EXTENDS ReviewFlow

CONSTANTS dev, lead

\* Either may take both rounds of the other's work.
Anyone == [k \in Kinds |-> Agent]
================================================================================

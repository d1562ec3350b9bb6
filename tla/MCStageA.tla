------------------------------ MODULE MCStageA ------------------------------
(* Instances of StageA for TLC.                                             *)
EXTENDS StageA, TLC

CONSTANTS r1, r2, d1, d2, g1, g2, g3

\* A target that works, one that reports partial transitions, one that refuses.
Working == [g \in Targets |-> "NONE"]
Varied == [g \in Targets |-> IF g = g1 THEN "NONE" ELSE IF g = g2 THEN "PARTIAL" ELSE "FAILED"]

=============================================================================

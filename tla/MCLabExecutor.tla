--------------------------- MODULE MCLabExecutor ---------------------------
(* Instances of LabExecutor for TLC.                                        *)
EXTENDS LabExecutor, TLC

CONSTANTS c1, c2, e1, e2, k1, k2

\* The second client also meets the first one's key.
SharedKey == (c1 :> {k1}) @@ (c2 :> {k1, k2})

=============================================================================

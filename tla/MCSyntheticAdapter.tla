-------------------------- MODULE MCSyntheticAdapter ------------------------
(* Instances of SyntheticAdapter for TLC.                                   *)
EXTENDS SyntheticAdapter, TLC

CONSTANTS r1, r2, k1, k2, g1, g2, a1, a2, a3

\* One partial transition, one target with a degraded service.
Disturbed == [g \in Targets |-> IF g = g1 THEN "PARTIAL" ELSE "UNEXPECTED_EFFECT"]
\* Callers are interchangeable; targets are not, they differ in Fault.
CallerSymmetry ==
    Permutations(Requests) \cup Permutations(Tokens) \cup Permutations(Attempts)

=============================================================================

--------------------------- MODULE MCServiceState ---------------------------
(* A small instance of ServiceState for TLC.                               *)
EXTENDS ServiceState, TLC

CONSTANTS p1, p2, r1, k1, k2, n1, n2

Sym == Permutations({p1, p2}) \cup Permutations({n1, n2})
=============================================================================

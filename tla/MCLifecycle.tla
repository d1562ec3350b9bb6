----------------------------- MODULE MCLifecycle -----------------------------
(* Two bodies of one request, which repeat or contradict each other, and   *)
(* one of another.                                                         *)
EXTENDS Lifecycle
CONSTANTS body, other, third, r1, r2, ann, bob

TwoRequests == [content \in {body, other, third} |-> IF content = third THEN r2 ELSE r1]
\* PARTIAL differs from UNEXPECTED_EFFECT in the name of its status.
ThreeModes == {"NONE", "FAILED", "UNEXPECTED_EFFECT"}
Symmetry == Permutations({body, other}) \cup Permutations({ann, bob})
=============================================================================

--------------------------- MODULE MCControlLedger --------------------------
(* Instances of ControlLedger for TLC.                                      *)
EXTENDS ControlLedger, TLC

CONSTANTS r1, r2, d1, d2, k1, k2, v1, v2, a1, a2, x1, x2

LinkedOnly == {r1, r2}
LinkedOne == {r1}
LegacyOnly == {Null}
Mixed == {r1, Null}

\* Rows, digests and identifiers are interchangeable: no action or property
\* names one.  Links is fixed by these permutations in every configuration that
\* uses them.
IdentifierSymmetry ==
    Permutations(Digests) \cup Permutations(Tokens) \cup Permutations(Decisions)
        \cup Permutations(Attempts) \cup Permutations(Receipts)
LinkedSymmetry == IdentifierSymmetry \cup Permutations(Requests)

\* Of the moments at which the second may pass, those after the first row and
\* before the first reservation: rows from before and after it meet, what follows
\* is the same one second later, and without a row from before it all is.
SecondPassesEarly ==
    IF clock = 0 THEN \A a \in Attempts : attempts[a].state = Absent
    ELSE \E i \in DOMAIN outbox : outbox[i].at = 0

=============================================================================

---------------------------- MODULE GatedEffect -----------------------------
(***************************************************************************)
(* What the Stage A decision path promises about one request, with neither *)
(* ledger, adapter, audit nor recovery in sight: a request is opened once, *)
(* may spend its authority once, may then change the world once, and is    *)
(* closed once with a verdict that is true.  One request is open at a      *)
(* time.                                                                   *)
(***************************************************************************)
CONSTANT Requests

VARIABLES
    phase,   \* NONE, OPEN, SPENT (its authority is used up), CLOSED
    effect,  \* whether the request changed its target
    verdict  \* what a caller is told once it is closed

gvars == <<phase, effect, verdict>>

GateInit ==
    /\ phase = [r \in Requests |-> "NONE"]
    /\ effect = [r \in Requests |-> FALSE]
    /\ verdict = [r \in Requests |-> "NONE"]

Open(r) ==
    /\ \A other \in Requests : phase[other] \in {"NONE", "CLOSED"}
    /\ phase[r] = "NONE"
    /\ phase' = [phase EXCEPT ![r] = "OPEN"]
    /\ UNCHANGED <<effect, verdict>>

Spend(r) ==
    /\ phase[r] = "OPEN"
    /\ phase' = [phase EXCEPT ![r] = "SPENT"]
    /\ UNCHANGED <<effect, verdict>>

Act(r) ==
    /\ phase[r] = "SPENT"
    /\ ~effect[r]
    /\ effect' = [effect EXCEPT ![r] = TRUE]
    /\ UNCHANGED <<phase, verdict>>

\* UNSETTLED promises nothing: an operator has to look at the target.
Truthful(r, v) ==
    /\ v = "VERIFIED" => effect[r]
    /\ v = "NO_EFFECT" => ~effect[r]

Close(r, v) ==
    /\ \/ phase[r] = "SPENT"
       \/ phase[r] = "OPEN" /\ v = "NO_EFFECT"
    /\ Truthful(r, v)
    /\ phase' = [phase EXCEPT ![r] = "CLOSED"]
    /\ verdict' = [verdict EXCEPT ![r] = v]
    /\ UNCHANGED effect

GateNext ==
    \E r \in Requests :
        \/ Open(r) \/ Spend(r) \/ Act(r)
        \/ \E v \in {"VERIFIED", "NO_EFFECT", "UNSETTLED"} : Close(r, v)

GateSpec == GateInit /\ [][GateNext]_gvars

=============================================================================

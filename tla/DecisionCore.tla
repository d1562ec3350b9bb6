---------------------------- MODULE DecisionCore ----------------------------
(***************************************************************************)
(* The Phase 3 decision: _process_authenticated_json (phase3/engine.py)    *)
(* takes one request from intake through identity, evidence, consequence,  *)
(* policy rules, the decision verifier, the authorization gate and the     *)
(* broker to the target.  Each component reads the clock for itself, and   *)
(* the target may be changed by other requests in between.                 *)
(*                                                                         *)
(* An evidence item carries what the request says of it (claim) and what   *)
(* its source signed (attested); an item nobody signed has Unsigned there. *)
(* Weights and strengths are integers: a score is the product of           *)
(* reliability, trust and relevance with freshness in quarters of MaxAge.  *)
(* Claiming the request, the audit and the receipts are in ControlLedger,  *)
(* Lifecycle and StageA.                                                   *)
(***************************************************************************)
EXTENDS Integers, FiniteSets, FiniteSetsExt

CONSTANTS
  Requests,         \* the requests that may be submitted
  Callers,          \* what the trusted resolver may make of the credential
  Inventory,        \* the trusted record of each target of the policy
  Registry,         \* type and weight of each registered source
  RequiredTypes,    \* the source types the action needs
  MinSources, MinStrength, MinRelevance,
  MaxAge,           \* of evidence
  MaxDuration,      \* of the action, in seconds
  ApprovalDowntime, DowntimeReference, DowntimeWeight, HighScore,
  MaxRequestAge, Skew, VerifierLag, ReceiptLife, Ttl,
  Start, MaxTime,   \* the clock starts and stops here
  MaxMoves          \* how often others change the target

Unsigned == [type |-> "none"]
Nothing == [outcome |-> "none"]

Targets == DOMAIN Inventory
Sources == DOMAIN Registry

\* The floors _validate_policy_safety_invariants demands of a policy.
PolicyValid ==
  /\ MinSources \in Nat /\ MinSources >= 2
  /\ MinRelevance > 0 /\ MinStrength > 0
  /\ \A s \in Sources : Registry[s].weight > 0
  /\ RequiredTypes \subseteq {Registry[s].type : s \in Sources}
  /\ ApprovalDowntime \in 0..60
  /\ \A t \in Targets : Inventory[t].tier0 => Inventory[t].grave

ASSUME CoreAssumption ==
  /\ PolicyValid
  /\ MaxAge \in Nat \ {0} /\ MaxDuration \in Nat \ {0} /\ Ttl \in Nat \ {0}
  /\ {MaxRequestAge, Skew, VerifierLag, ReceiptLife, MaxTime, MaxMoves} \subseteq Nat
  /\ Start \in 0..MaxTime
  /\ \A t \in Targets : Inventory[t].downtime \in Nat
  /\ \A r \in Requests : /\ r.at \in Int /\ r.duration \in Nat
                         /\ \A i \in r.evidence : i.claim.at \in Int

\* Five minutes both, in two files (MAX_REQUEST_AGE_SECONDS in engine.py,
\* MAX_REQUEST_FUTURE_SKEW in contracts.py).  Were a request allowed to be older
\* than its evidence may be ahead of it, evidence that was observed on time would
\* make the decoder refuse it.
ASSUME AgeWithinSkew == MaxRequestAge <= Skew

VARIABLES
  request, caller,
  durable,      \* the adapter store is in use, or the in-memory target
  pc,           \* the next step, or "refused", "acted", "failed"
  raised,       \* a component failed with an exception
  evaluated,    \* the clock at validation, the firewall's time of the decision
  decision,
  receipt,      \* the verifier's signed answer
  before,       \* the state of the target the gate is given
  token,
  seen,         \* the state the broker observed
  attempted,    \* the broker's clock
  effect,       \* what was done, and to which state
  state,        \* of each target: how often it has changed
  now,
  steady        \* history: the clock has only advanced, by Patience at most
vars == <<request, caller, durable, pc, raised, evaluated, decision, receipt, before,
          token, seen, attempted, effect, state, now, steady>>
inputs == <<request, caller, durable>>
clock == <<now, steady>>

-----------------------------------------------------------------------------
(* Intake: the contract and the preflight.                                 *)

WellDated(r, t) ==
  /\ r.at <= t + Skew
  /\ \A i \in r.evidence : i.claim.at <= r.at + Skew

Admitted(r, c, t) ==
  /\ c.trusted /\ r.honest
  /\ t - r.at <= MaxRequestAge
  /\ r.target \in Targets

-----------------------------------------------------------------------------
(* Evidence.                                                               *)

Signed(i) == i.source \in Sources /\ i.attested = i.claim
Age(i, t) == t - i.claim.at

\* Everything that makes an item invalid.  Being old does not.
\* Variant: the subject is not compared.
ValidWhateverTheSubject(i, r, t) ==
  /\ i.source \in Sources /\ i.claim.type = Registry[i.source].type /\ i.rated
  /\ Signed(i) /\ i.claim.sealed /\ i.claim.content = i.content
  /\ Age(i, t) >= 0
  /\ i.content # "instruction"
  /\ i.claim.relevance >= MinRelevance
Valid(i, r, t) == i.claim.about = r.target /\ ValidWhateverTheSubject(i, r, t)

Fresh(i, t) == Age(i, t) \in 0..MaxAge
ValidItems(r, t) == {i \in r.evidence : Valid(i, r, t)}
Supporting(r, t) == {i \in ValidItems(r, t) : Fresh(i, t) /\ i.claim.stance = "supports"}
Opposing(r, t) == {i \in ValidItems(r, t) : i.claim.stance = "contradicts"}
InstancesOf(items) == {i.source : i \in items}
TypesOf(items) == {i.claim.type : i \in items}

\* A quarter of the contribution is lost by the time an item is stale.
Score(i, t) == Registry[i.source].weight * i.claim.relevance * (4 * MaxAge - Age(i, t))
BestScore(items, s, t) == Max({Score(i, t) : i \in {j \in items : j.source = s}})
StrongEnough(items, t) ==
  MapThenSumSet(LAMBDA s : BestScore(items, s, t), InstancesOf(items))
    >= MinStrength * 4 * MaxAge * Cardinality(InstancesOf(items))

EvidenceFatal(r, t) == \E i \in r.evidence : ~Valid(i, r, t)

AutomationGrade(r, t) ==
  /\ r.evidence # {} /\ ~EvidenceFatal(r, t)
  /\ \A i \in r.evidence : Fresh(i, t)
  /\ RequiredTypes \subseteq TypesOf(ValidItems(r, t))
  /\ Opposing(r, t) = {}
  /\ Cardinality(InstancesOf(Supporting(r, t))) >= MinSources
  /\ StrongEnough(Supporting(r, t), t)

-----------------------------------------------------------------------------
(* Consequence and authority, from the trusted records alone.              *)

Least2(a, b) == IF a < b THEN a ELSE b
Most2(a, b) == IF a < b THEN b ELSE a

Effective(r) == Least2(r.duration, MaxDuration)
Downtime(target, seconds) == Most2(Inventory[target].downtime, (seconds + 59) \div 60)
ConsequenceScore(target, seconds) ==
  Inventory[target].score
  + DowntimeWeight * Least2(DowntimeReference, Downtime(target, seconds))
NeedsApproval(target, seconds) ==
  \/ Inventory[target].grave       \* criticality, isolation, impacts, blast radius, cascade
  \/ ConsequenceScore(target, seconds) >= HighScore
  \/ Downtime(target, seconds) >= ApprovalDowntime

RequiredAuthority(target) ==
  IF Inventory[target].tier0 THEN "tier_0_containment" ELSE "endpoint_containment"

-----------------------------------------------------------------------------
(* The closed rules, the first that applies decides.                       *)

OutcomeOf(r, c, t) ==
  IF EvidenceFatal(r, t) \/ ~Inventory[r.target].allowed THEN "DENY"
  ELSE IF Inventory[r.target].tier0 \/ NeedsApproval(r.target, Effective(r)) THEN "ESCALATE"
  ELSE IF RequiredAuthority(r.target) \notin c.authority THEN "DENY"
  ELSE IF ~AutomationGrade(r, t) THEN "ESCALATE"
  ELSE IF r.duration > MaxDuration \/ ~r.keepsManagement THEN "ALLOW_CONSTRAINED"
  ELSE "ALLOW"

Allowing == {"ALLOW", "ALLOW_CONSTRAINED"}
CommandFor(r) == [target |-> r.target, duration |-> Effective(r), keepsManagement |-> TRUE]
DecisionOn(r, c, t) ==
  [outcome |-> OutcomeOf(r, c, t), command |-> CommandFor(r)]

-----------------------------------------------------------------------------
CoreInit ==
  /\ request \in Requests /\ caller \in Callers /\ durable \in BOOLEAN
  /\ pc = "intake" /\ raised = FALSE /\ evaluated = Start
  /\ decision = Nothing /\ receipt = Nothing /\ token = Nothing /\ effect = Nothing
  /\ before = 0 /\ seen = 0 /\ attempted = Start
  /\ state = [t \in Targets |-> 0]
  /\ now = Start /\ steady = TRUE

\* Strict decoding and validation at the firewall's time, then the preflight.
Receive ==
  /\ pc = "intake"
  /\ evaluated' = now
  /\ pc' = IF WellDated(request, now) /\ Admitted(request, caller, now) THEN "assess" ELSE "refused"
  /\ UNCHANGED <<inputs, raised, decision, receipt, before, token, seen, attempted, effect, state, clock>>

\* assess_evidence, assess_consequence and build_decision.
Decide ==
  /\ pc = "assess"
  /\ decision' = DecisionOn(request, caller, evaluated)
  /\ pc' = "verify"
  /\ UNCHANGED <<inputs, raised, evaluated, receipt, before, token, seen, attempted, effect, state, clock>>

\* The time the verifier assesses the evidence at.
\* Variant: its own.
RecomputedAtReading(t, reading) == reading
RecomputedAt(t, reading) == t

Concurs(reading) ==
  /\ request.at <= evaluated
  /\ reading - evaluated \in -VerifierLag..VerifierLag
  /\ decision = DecisionOn(request, caller, RecomputedAt(evaluated, reading))

\* The verifier compares its clock and recomputes the decision ...
Verify ==
  /\ pc = "verify"
  /\ receipt' = [passed |-> Concurs(now), at |-> now]
  /\ pc' = "sign"
  /\ UNCHANGED <<inputs, raised, evaluated, decision, before, token, seen, attempted, effect, state, clock>>

\* ... and reads the clock again to date the receipt.  What did not pass or
\* is no allowance ends here.
Sign ==
  /\ pc = "sign"
  /\ receipt' = [passed |-> receipt.passed, at |-> now]
  /\ pc' = IF receipt.passed /\ decision.outcome \in Allowing THEN "observe" ELSE "refused"
  /\ UNCHANGED <<inputs, raised, evaluated, decision, before, token, seen, attempted, effect, state, clock>>

Observe ==
  /\ pc = "observe"
  /\ before' = state[request.target]
  /\ pc' = "issue"
  /\ UNCHANGED <<inputs, raised, evaluated, decision, receipt, token, seen, attempted, effect, state, clock>>

\* The gate accepts a receipt for so long.
Issuable(t) == receipt.passed /\ decision.outcome \in Allowing /\ t - receipt.at \in 0..ReceiptLife

Issue ==
  /\ pc = "issue"
  /\ \/ /\ Issuable(now)
        /\ token' = [command |-> decision.command, on |-> before, issued |-> now, expires |-> now + Ttl]
        /\ pc' = "broker"
     \/ /\ ~Issuable(now)
        /\ pc' = "refused"
        /\ UNCHANGED token
  /\ UNCHANGED <<inputs, raised, evaluated, decision, receipt, before, seen, attempted, effect, state, clock>>

BrokerObserves ==
  /\ pc = "broker"
  /\ seen' = state[request.target]
  /\ pc' = "consume"
  /\ UNCHANGED <<inputs, raised, evaluated, decision, receipt, before, token, attempted, effect, state, clock>>

\* Variant: the target is compared, its state is not.
ConsumableInAnyState(t) ==
  /\ token.command = decision.command
  /\ token.issued <= t /\ t < token.expires
Consumable(t) ==
  /\ token.command = decision.command
  /\ token.on = seen
  /\ token.issued <= t /\ t < token.expires

Consume ==
  /\ pc = "consume"
  /\ attempted' = now
  /\ pc' = IF Consumable(now) THEN "act" ELSE "refused"
  /\ UNCHANGED <<inputs, raised, evaluated, decision, receipt, before, token, seen, effect, state, clock>>

\* The durable adapter compares with what the broker saw, the in-memory target
\* with the token.  A target that fails leaves its state alone; one that acts
\* in part or too much has changed.
Precondition == state[request.target] = IF durable THEN seen ELSE token.on

Act ==
  /\ pc = "act" /\ Precondition
  /\ effect' = [command |-> token.command, on |-> state[request.target]]
  /\ state' = [state EXCEPT ![request.target] = @ + 1]
  /\ pc' = "acted"
  /\ UNCHANGED <<inputs, raised, evaluated, decision, receipt, before, token, seen, attempted, clock>>

ActFails ==
  /\ pc = "act"
  /\ pc' = "failed"
  /\ UNCHANGED <<inputs, raised, evaluated, decision, receipt, before, token, seen, attempted, effect, state, clock>>

\* An exception of a component before the authorization is consumed.
Raise ==
  /\ pc \in {"intake", "assess", "verify", "sign", "observe", "issue", "broker", "consume"}
  /\ pc' = "refused" /\ raised' = TRUE
  /\ UNCHANGED <<inputs, evaluated, decision, receipt, before, token, seen, attempted, effect, state, clock>>

\* Somebody else's effect, at any step.  The locks of one process keep its other
\* requests out; nothing here relies on them.
TargetMoves ==
  /\ request.target \in Targets /\ state[request.target] < MaxMoves
  /\ state' = [state EXCEPT ![request.target] = @ + 1]
  /\ UNCHANGED <<inputs, pc, raised, evaluated, decision, receipt, before, token, seen, attempted, effect, clock>>

\* Within so much time nothing expires.
Patience == Min({VerifierLag, ReceiptLife, Ttl - 1})

\* The wall clock, which may be set back.
Tick ==
  /\ now' \in {now - 1, now + 1} \cap (0..MaxTime)
  /\ steady' = (steady /\ (pc = "intake" \/ now' \in (now + 1)..(evaluated + Patience)))
  /\ UNCHANGED <<inputs, pc, raised, evaluated, decision, receipt, before, token, seen, attempted, effect, state>>

CoreNext ==
  \/ Receive \/ Decide \/ Verify \/ Sign \/ Observe \/ Issue
  \/ BrokerObserves \/ Consume \/ Act \/ ActFails \/ Raise \/ Tick \/ TargetMoves
CoreSpec == CoreInit /\ [][CoreNext]_vars

-----------------------------------------------------------------------------
(* Properties.                                                             *)

\* What would justify the action, told from what the sources signed and the
\* trusted records say, not from what the request says of them.
Witnesses(r) == {i \in r.evidence : i.attested.stance = "supports"}
Warranted(r, c, t) ==
  /\ c.trusted /\ r.honest /\ "endpoint_containment" \in c.authority
  /\ r.target \in Targets /\ t - r.at <= MaxRequestAge
  /\ LET target == Inventory[r.target] IN
       target.allowed /\ ~target.tier0 /\ ~NeedsApproval(r.target, Effective(r))
  /\ \A i \in r.evidence :
       /\ Signed(i) /\ t - i.attested.at \in 0..MaxAge /\ i.attested.about = r.target
       /\ i.attested.stance # "contradicts" /\ i.attested.sealed
       /\ i.attested.content = i.content /\ i.content # "instruction"
       /\ i.attested.relevance >= MinRelevance
       /\ i.attested.type = Registry[i.source].type
       /\ i.rated
  /\ RequiredTypes \subseteq {i.attested.type : i \in r.evidence}
  /\ Cardinality(InstancesOf(Witnesses(r))) >= MinSources
  /\ StrongEnough(Witnesses(r), t)

\* What is done to a target was justified when the firewall decided: by
\* evidence its sources signed about this target, all of it fresh then and
\* none against, from enough sources; by authority the caller really has; and
\* within what needs no approval, for no longer than allowed or asked.
EffectIsSupported ==
  effect # Nothing =>
    /\ Warranted(request, caller, evaluated)
    /\ effect.command.target = request.target
    /\ effect.command.duration <= MaxDuration /\ effect.command.duration <= request.duration
    /\ effect.command.keepsManagement
    /\ Downtime(request.target, effect.command.duration) < ApprovalDowntime

\* It is done to the very state the authorization was issued for, although the
\* target was observed three times with others acting in between, and under a
\* token that lived and rested on a verification no older than it may be.
EffectOnAuthorizedState ==
  effect # Nothing =>
    /\ effect.on = before
    /\ token.issued <= attempted /\ attempted < token.issued + Ttl
    /\ receipt.at <= token.issued /\ token.issued <= receipt.at + ReceiptLife

\* A justified request is refused for a reason: a component raised, the request
\* is dated after the firewall's clock, somebody else changed the target, or the clock
\* left the time within which nothing expires.  Above all, the verifier's and
\* the gate's own looks at the clock refuse nothing that was on time.
RefusedForCause ==
  pc = "refused" /\ Warranted(request, caller, evaluated) =>
    \/ raised \/ ~steady
    \/ request.at > evaluated
    \/ state[request.target] # 0
=============================================================================

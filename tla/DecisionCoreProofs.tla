------------------------- MODULE DecisionCoreProofs -------------------------
(***************************************************************************)
(* What reaches a target was justified when the firewall decided, and acts *)
(* on the state the authorization was issued for: for every set of         *)
(* requests, callers, targets and sources, every clock, and any number of  *)
(* changes by others.                                                      *)
(***************************************************************************)
EXTENDS DecisionCore, FiniteSetTheorems, TLAPS

USE DEF Nothing

\* The places from which a decision has been made, has passed the verifier as
\* an allowance, is authorized, has consumed its authorization.
Decided == {"verify", "sign", "observe", "issue", "broker", "consume", "act", "acted", "failed"}
Allowed == {"observe", "issue", "broker", "consume", "act", "acted", "failed"}
Authorized == {"broker", "consume", "act", "acted", "failed"}
Consumed == {"act", "acted", "failed"}

CoreTyped ==
  /\ request \in Requests
  /\ now \in Int /\ evaluated \in Int /\ attempted \in Int
  /\ pc \in {"intake", "assess", "refused"} \cup Decided

DecisionHeld ==
  /\ pc \in {"assess"} \cup Decided => Admitted(request, caller, evaluated)
  /\ pc \in Decided => decision = DecisionOn(request, caller, evaluated)
  /\ pc \in Allowed => decision.outcome \in Allowing
  /\ pc \in Allowed => receipt.at \in Int

TokenHeld ==
  pc \in Authorized =>
    /\ token = [command |-> decision.command, on |-> before, issued |-> token.issued,
                expires |-> token.issued + Ttl]
    /\ token.issued \in Int
    /\ token.issued - receipt.at \in 0..ReceiptLife

AttemptHeld ==
  pc \in Consumed =>
    /\ seen = token.on
    /\ token.issued <= attempted /\ attempted < token.issued + Ttl

EffectHeld ==
  effect # Nothing => pc = "acted" /\ effect = [command |-> token.command, on |-> token.on]

CoreInvariant == CoreTyped /\ DecisionHeld /\ TokenHeld /\ AttemptHeld /\ EffectHeld

-----------------------------------------------------------------------------
(* An allowance is warranted.                                              *)

\* Evidence that lets the rules allow is, item by item, what its sources signed.
LEMMA AllowedEvidence ==
  ASSUME NEW r, NEW t, AutomationGrade(r, t)
  PROVE  /\ \A i \in r.evidence :
              /\ Signed(i) /\ t - i.attested.at \in 0..MaxAge /\ i.attested.about = r.target
              /\ i.attested.stance # "contradicts" /\ i.attested.sealed
              /\ i.attested.content = i.content /\ i.content # "instruction"
              /\ i.attested.relevance >= MinRelevance
              /\ i.attested.type = Registry[i.source].type
              /\ i.rated
         /\ RequiredTypes \subseteq {i.attested.type : i \in r.evidence}
         /\ Cardinality(InstancesOf(Witnesses(r))) >= MinSources
         /\ StrongEnough(Witnesses(r), t)
<1>1. \A i \in r.evidence : Valid(i, r, t) /\ Fresh(i, t)
  BY DEF AutomationGrade, EvidenceFatal
<1>2. \A i \in r.evidence : i.attested = i.claim
  BY <1>1 DEF Valid, ValidWhateverTheSubject, Signed
<1>3. ValidItems(r, t) = r.evidence
  BY <1>1 DEF ValidItems
<1>4. \A i \in r.evidence : i.claim.stance # "contradicts"
  BY <1>3 DEF AutomationGrade, Opposing
<1>5. Supporting(r, t) = Witnesses(r)
  BY <1>1, <1>2, <1>3 DEF Supporting, Witnesses
<1>6. \A i \in r.evidence :
        /\ Signed(i) /\ t - i.attested.at \in 0..MaxAge /\ i.attested.about = r.target
        /\ i.attested.stance # "contradicts" /\ i.attested.sealed
        /\ i.attested.content = i.content /\ i.content # "instruction"
        /\ i.attested.relevance >= MinRelevance
        /\ i.attested.type = Registry[i.source].type
        /\ i.rated
  BY <1>1, <1>2, <1>4 DEF Valid, ValidWhateverTheSubject, Fresh, Age
<1>7. RequiredTypes \subseteq {i.attested.type : i \in r.evidence}
  BY <1>2, <1>3 DEF AutomationGrade, TypesOf
<1>8. Cardinality(InstancesOf(Witnesses(r))) >= MinSources /\ StrongEnough(Witnesses(r), t)
  BY <1>5 DEF AutomationGrade
<1> QED BY <1>6, <1>7, <1>8

\* What the rules allow is warranted, told from signatures and trusted records.
LEMMA AllowanceIsWarranted ==
  ASSUME NEW r, NEW c, NEW t, Admitted(r, c, t), OutcomeOf(r, c, t) \in Allowing
  PROVE  Warranted(r, c, t)
<1>1. /\ Inventory[r.target].allowed
      /\ ~Inventory[r.target].tier0
      /\ ~NeedsApproval(r.target, Effective(r))
      /\ RequiredAuthority(r.target) \in c.authority
      /\ AutomationGrade(r, t)
  BY DEF OutcomeOf, Allowing
<1>2. "endpoint_containment" \in c.authority
  BY <1>1 DEF RequiredAuthority
<1> QED BY <1>1, <1>2, AllowedEvidence DEF Warranted, Admitted

\* The command is no more than was asked and than may be, and stays below the
\* downtime that needs approval.
LEMMA CommandIsBounded ==
  ASSUME NEW r \in Requests, NEW c, NEW t, Warranted(r, c, t)
  PROVE  /\ CommandFor(r).target = r.target
         /\ CommandFor(r).duration <= MaxDuration /\ CommandFor(r).duration <= r.duration
         /\ CommandFor(r).keepsManagement
         /\ Downtime(r.target, CommandFor(r).duration) < ApprovalDowntime
<1>1. r.target \in Targets /\ ~NeedsApproval(r.target, Effective(r))
  BY DEF Warranted
<1>2. Effective(r) \in Nat /\ Effective(r) <= MaxDuration /\ Effective(r) <= r.duration
  BY CoreAssumption DEF Effective, Least2
<1>3. Downtime(r.target, Effective(r)) \in Int
  <2>1. (Effective(r) + 59) \div 60 \in Int
    BY <1>2
  <2> QED BY <2>1, <1>1, CoreAssumption DEF Downtime, Most2
<1>4. Downtime(r.target, Effective(r)) < ApprovalDowntime
  BY <1>1, <1>3, CoreAssumption DEF PolicyValid, NeedsApproval
<1> QED BY <1>2, <1>4 DEF CommandFor

-----------------------------------------------------------------------------
(* The invariant.                                                          *)

\* A request that has only been submitted has nothing to hold.
LEMMA InitInvariant == CoreInit => CoreInvariant
BY CoreAssumption DEF CoreInit, CoreInvariant, CoreTyped, DecisionHeld, TokenHeld, AttemptHeld,
   EffectHeld, Decided, Allowed, Authorized, Consumed

\* No step of the call, of the clock or of others breaks the invariant.
LEMMA NextInvariant == CoreInvariant /\ [CoreNext]_vars => CoreInvariant'
<1> SUFFICES ASSUME CoreInvariant, [CoreNext]_vars PROVE CoreInvariant'
  OBVIOUS
<1> USE DEF CoreInvariant, CoreTyped, DecisionHeld, TokenHeld, AttemptHeld, EffectHeld,
            Decided, Allowed, Authorized, Consumed, inputs, clock
<1>1. CASE Receive
  BY <1>1 DEF Receive
<1>2. CASE Decide
  BY <1>2 DEF Decide
<1>3. CASE Verify
  BY <1>3 DEF Verify
<1>4. CASE Sign
  BY <1>4 DEF Sign
<1>5. CASE Observe
  BY <1>5 DEF Observe
<1>6. CASE Issue
  <2>1. CASE Issuable(now) /\ pc' = "broker"
    BY <1>6, <2>1, CoreAssumption DEF Issue, Issuable
  <2>2. CASE pc' = "refused"
    BY <1>6, <2>2 DEF Issue
  <2> QED BY <1>6, <2>1, <2>2 DEF Issue
<1>7. CASE BrokerObserves
  BY <1>7 DEF BrokerObserves
<1>8. CASE Consume
  <2>1. CASE Consumable(now)
    BY <1>8, <2>1, CoreAssumption DEF Consume, Consumable
  <2>2. CASE ~Consumable(now)
    BY <1>8, <2>2 DEF Consume
  <2> QED BY <2>1, <2>2
<1>9. CASE Act
  <2>1. state[request.target] = token.on
    BY <1>9 DEF Act, Precondition
  <2> QED BY <1>9, <2>1 DEF Act
<1>10. CASE ActFails
  BY <1>10 DEF ActFails
<1>11. CASE Raise
  BY <1>11 DEF Raise
<1>12. CASE Tick
  BY <1>12 DEF Tick
<1>13. CASE TargetMoves
  BY <1>13 DEF TargetMoves
<1>14. CASE UNCHANGED vars
  BY <1>14 DEF vars, Admitted
<1> QED
  BY <1>1, <1>2, <1>3, <1>4, <1>5, <1>6, <1>7, <1>8, <1>9, <1>10, <1>11, <1>12, <1>13, <1>14
  DEF CoreNext

\* An effect is the command of an allowance the verifier let pass.
LEMMA InvariantSupports == CoreInvariant => EffectIsSupported
<1> SUFFICES ASSUME CoreInvariant, effect # Nothing
             PROVE  /\ Warranted(request, caller, evaluated)
                    /\ effect.command = CommandFor(request)
  BY CommandIsBounded DEF EffectIsSupported, CoreInvariant, CoreTyped
<1>1. pc = "acted" /\ effect.command = token.command
  BY DEF CoreInvariant, EffectHeld
<1>2. token.command = decision.command
  BY <1>1 DEF CoreInvariant, TokenHeld, Authorized
<1>3. /\ Admitted(request, caller, evaluated)
      /\ decision = DecisionOn(request, caller, evaluated)
      /\ decision.outcome \in Allowing
  BY <1>1 DEF CoreInvariant, DecisionHeld, Decided, Allowed
<1>4. decision.command = CommandFor(request) /\ OutcomeOf(request, caller, evaluated) \in Allowing
  BY <1>3 DEF DecisionOn
<1> QED BY <1>1, <1>2, <1>3, <1>4, AllowanceIsWarranted

\* The three observations of the target agree where there is an effect.
LEMMA InvariantFixesState == CoreInvariant => EffectOnAuthorizedState
<1> SUFFICES ASSUME CoreInvariant, effect # Nothing
             PROVE  /\ effect.on = before
                    /\ token.issued <= attempted /\ attempted < token.issued + Ttl
                    /\ receipt.at <= token.issued /\ token.issued <= receipt.at + ReceiptLife
  BY DEF EffectOnAuthorizedState
<1>1. pc = "acted" /\ effect.on = token.on
  BY DEF CoreInvariant, EffectHeld
<1>2. /\ token.on = before /\ token.issued \in Int /\ receipt.at \in Int
      /\ token.issued - receipt.at \in 0..ReceiptLife
  BY <1>1 DEF CoreInvariant, TokenHeld, DecisionHeld, Authorized, Allowed
<1>3. token.issued <= attempted /\ attempted < token.issued + Ttl
  BY <1>1 DEF CoreInvariant, AttemptHeld, Consumed
<1> QED BY <1>1, <1>2, <1>3, CoreAssumption

\* What the call carries from step to step (request, decision, receipt, token,
\* observed state) belongs together in every reachable state.
THEOREM InvariantHolds == CoreSpec => []CoreInvariant
BY InitInvariant, NextInvariant, PTL DEF CoreSpec

\* Every effect was justified when the firewall decided (build_decision and
\* what it rests on), whatever the request says of its evidence and target.
THEOREM EffectAlwaysSupported == CoreSpec => []EffectIsSupported
BY InvariantHolds, InvariantSupports, PTL

\* Every effect finds the state the authorization was issued for, under a live
\* token that rests on a live verification (issue, _validate, the target).
THEOREM EffectAlwaysOnAuthorizedState == CoreSpec => []EffectOnAuthorizedState
BY InvariantHolds, InvariantFixesState, PTL

-----------------------------------------------------------------------------
(* Nothing refuses a warranted request that was on time.                   *)

Observed == {"issue", "broker", "consume", "act", "acted", "failed"}
SeenByBroker == {"consume", "act", "acted", "failed"}

\* While the clock has stayed within Patience of the decision, so has every
\* time taken from it.
OnTime ==
  steady /\ ~raised /\ pc # "intake" =>
    /\ evaluated <= now /\ now <= evaluated + Patience
    /\ pc \in {"sign"} \cup Allowed => evaluated <= receipt.at /\ receipt.at <= now
    /\ pc \in Authorized => evaluated <= token.issued /\ token.issued <= now

\* The verifier passes what is on time, and nothing goes on without it.
Passed ==
  /\ pc = "sign" =>
       /\ receipt.at \in Int
       /\ steady /\ ~raised /\ request.at <= evaluated => receipt.passed
  /\ pc \in Allowed => receipt.passed

\* A target only moves forward: one that has not moved was seen as it is.
Moves ==
  /\ state \in [Targets -> Nat]
  /\ pc \in Observed => before \in Nat /\ before <= state[request.target]
  /\ pc \in SeenByBroker => seen \in Nat /\ seen <= state[request.target]

Punctual ==
  /\ steady \in BOOLEAN /\ raised \in BOOLEAN
  /\ OnTime /\ Passed /\ Moves /\ RefusedForCause

\* Within Patience of the decision the verifier, the receipt and the token are
\* all in time.
LEMMA PatienceBounds ==
  /\ Patience \in Nat
  /\ Patience <= VerifierLag /\ Patience <= ReceiptLife /\ Patience <= Ttl - 1
<1> DEFINE S == {VerifierLag, ReceiptLife, Ttl - 1}
<1>1. \A x \in S : x \in Nat
  BY CoreAssumption
<1>2. \E x \in S : \A y \in S : x <= y
  BY <1>1
<1>3. Patience \in S /\ \A y \in S : Patience <= y
  BY <1>2 DEF Patience, Min
<1> QED BY <1>1, <1>3

\* What is warranted the rules allow.
LEMMA WarrantIsAllowed ==
  ASSUME NEW r, NEW c, NEW t, Warranted(r, c, t)
  PROVE  OutcomeOf(r, c, t) \in Allowing /\ Admitted(r, c, t)
<1>1. \A i \in r.evidence :
        /\ i.source \in Sources /\ i.attested = i.claim
        /\ Valid(i, r, t) /\ Fresh(i, t) /\ i.claim.stance # "contradicts"
  BY CoreAssumption DEF Warranted, Signed, Valid, ValidWhateverTheSubject, Fresh, Age
<1>2. ValidItems(r, t) = r.evidence /\ ~EvidenceFatal(r, t)
  BY <1>1 DEF ValidItems, EvidenceFatal
<1>3. Supporting(r, t) = Witnesses(r) /\ Opposing(r, t) = {}
  BY <1>1, <1>2 DEF Supporting, Witnesses, Opposing
<1>4. r.evidence # {}
  <2> SUFFICES ASSUME r.evidence = {} PROVE FALSE
    OBVIOUS
  <2>1. InstancesOf(Witnesses(r)) = {}
    BY DEF InstancesOf, Witnesses
  <2> QED BY <2>1, FS_EmptySet, CoreAssumption DEF Warranted, PolicyValid
<1>5. RequiredTypes \subseteq TypesOf(ValidItems(r, t))
  BY <1>1, <1>2 DEF Warranted, TypesOf
<1>6. AutomationGrade(r, t)
  BY <1>1, <1>2, <1>3, <1>4, <1>5 DEF AutomationGrade, Warranted
<1> QED
  BY <1>2, <1>6 DEF Warranted, OutcomeOf, Allowing, RequiredAuthority, Admitted

\* A request that has only been submitted is on time.
LEMMA InitPunctual == CoreInit => Punctual
<1> SUFFICES ASSUME CoreInit PROVE Punctual
  OBVIOUS
<1>1. OnTime /\ Passed /\ RefusedForCause
  BY DEF CoreInit, OnTime, Passed, RefusedForCause, Allowed
<1>2. Moves
  BY DEF CoreInit, Moves, Observed, SeenByBroker
<1> QED BY <1>1, <1>2 DEF CoreInit, Punctual

\* Intake refuses what is warranted only for its date (_validate_request_time).
LEMMA ReceivePunctual ==
  ASSUME CoreInvariant, Punctual, Receive
  PROVE  RefusedForCause'
<1>0. /\ evaluated' = now /\ request' = request /\ caller' = caller
      /\ Warranted(request, caller, evaluated)' <=> Warranted(request, caller, now)
      /\ WellDated(request, now) /\ Admitted(request, caller, now) => pc' = "assess"
  BY DEF Receive, inputs, Warranted
<1> SUFFICES ASSUME Warranted(request, caller, now), ~(request.at > now)
             PROVE  WellDated(request, now) /\ Admitted(request, caller, now)
  BY <1>0 DEF RefusedForCause
<1>1. Admitted(request, caller, now)
  BY WarrantIsAllowed
<1>2. now \in Int /\ request.at \in Int /\ now - request.at <= MaxRequestAge
  BY <1>1, CoreAssumption DEF CoreInvariant, CoreTyped, Admitted
<1>3. ASSUME NEW i \in request.evidence PROVE i.claim.at <= request.at + Skew
  <2>1. now - i.claim.at \in 0..MaxAge
    BY DEF Warranted, Signed
  <2>2. i.claim.at \in Int
    BY CoreAssumption DEF CoreInvariant, CoreTyped
  <2> QED BY <1>2, <2>1, <2>2, CoreAssumption, AgeWithinSkew
<1> QED BY <1>1, <1>2, <1>3, CoreAssumption DEF WellDated

\* The verifier passes a decision it recomputes within Patience (verify and its
\* second look at the clock).
LEMMA VerifierPasses ==
  ASSUME CoreInvariant, Punctual, pc = "verify", steady, ~raised, request.at <= evaluated
  PROVE  Concurs(now)
<1>1. now - evaluated \in -VerifierLag..VerifierLag
  BY PatienceBounds, CoreAssumption DEF CoreInvariant, CoreTyped, Punctual, OnTime
<1>2. decision = DecisionOn(request, caller, evaluated)
  BY DEF CoreInvariant, DecisionHeld, Decided
<1> QED BY <1>1, <1>2 DEF Concurs, RecomputedAt

\* The verification is not too old for the gate (issue).
LEMMA GateIssues ==
  ASSUME CoreInvariant, Punctual, pc = "issue", steady, ~raised
  PROVE  Issuable(now)
<1>1. receipt.passed /\ decision.outcome \in Allowing /\ receipt.at \in Int
  BY DEF CoreInvariant, DecisionHeld, Punctual, Passed, Allowed
<1>2. now - receipt.at \in 0..ReceiptLife
  BY <1>1, PatienceBounds, CoreAssumption
     DEF CoreInvariant, CoreTyped, Punctual, OnTime, Allowed
<1> QED BY <1>1, <1>2 DEF Issuable

\* The token is alive and finds the target as it was observed (_validate).
LEMMA BrokerConsumes ==
  ASSUME CoreInvariant, Punctual, pc = "consume", steady, ~raised,
         request.target \in Targets, state[request.target] = 0
  PROVE  Consumable(now)
<1>1. /\ token.command = decision.command /\ token.on = before
      /\ token.issued \in Int /\ token.expires = token.issued + Ttl
  BY DEF CoreInvariant, TokenHeld, Authorized
<1>2. before = seen
  BY DEF Punctual, Moves, Observed, SeenByBroker
<1>3. token.issued <= now /\ now < token.expires
  BY <1>1, PatienceBounds, CoreAssumption
     DEF CoreInvariant, CoreTyped, Punctual, OnTime, Authorized
<1> QED BY <1>1, <1>2, <1>3 DEF Consumable

\* No step loses what keeps a warranted request on its way.
LEMMA NextPunctual == CoreInvariant /\ Punctual /\ [CoreNext]_vars => Punctual'
<1> SUFFICES ASSUME CoreInvariant, Punctual, [CoreNext]_vars PROVE Punctual'
  OBVIOUS
<1> USE PatienceBounds DEF Allowed, Authorized, Observed, SeenByBroker, inputs, clock
<1>0. now \in Int /\ evaluated \in Int /\ steady \in BOOLEAN /\ raised \in BOOLEAN
  BY DEF CoreInvariant, CoreTyped, Punctual
<1>a. pc \in {"assess"} \cup Decided => request.target \in Targets
  BY DEF CoreInvariant, DecisionHeld, Admitted
<1>b. state \in [Targets -> Nat]
  BY DEF Punctual, Moves
<1>1. CASE Receive
  <2>1. OnTime' /\ Passed' /\ Moves'
    BY <1>0, <1>b, <1>1 DEF Receive, OnTime, Passed, Moves
  <2> QED BY <1>0, <1>1, <2>1, ReceivePunctual DEF Receive, Punctual
<1>2. CASE Decide
  BY <1>2 DEF Decide, Punctual, OnTime, Passed, Moves, RefusedForCause
<1>3. CASE Verify
  <2>1. receipt'.at = now /\ receipt'.passed = Concurs(now) /\ pc' = "sign"
    BY <1>3 DEF Verify
  <2>2. steady /\ ~raised /\ request.at <= evaluated => receipt'.passed
    BY <1>3, <2>1, VerifierPasses DEF Verify
  <2> QED BY <1>0, <1>3, <2>1, <2>2 DEF Verify, Punctual, OnTime, Passed, Moves, RefusedForCause
<1>4. CASE Sign
  <2>1. receipt'.at = now /\ receipt'.passed = receipt.passed
    BY <1>4 DEF Sign
  <2>2. ASSUME Warranted(request, caller, evaluated), steady, ~raised, request.at <= evaluated
        PROVE  pc' = "observe"
    <3>1. receipt.passed
      BY <1>4, <2>2 DEF Sign, Punctual, Passed
    <3>2. decision.outcome \in Allowing
      BY <1>4, <2>2, WarrantIsAllowed DEF Sign, CoreInvariant, DecisionHeld, Decided, DecisionOn
    <3> QED BY <1>4, <3>1, <3>2 DEF Sign
  <2>3. RefusedForCause'
    <3>1. Warranted(request, caller, evaluated)' <=> Warranted(request, caller, evaluated)
      BY <1>4 DEF Sign, Warranted
    <3>2. ~(request.at > evaluated) => request.at <= evaluated
      BY <1>0, CoreAssumption DEF CoreInvariant, CoreTyped
    <3> QED BY <1>4, <2>2, <3>1, <3>2 DEF Sign, RefusedForCause
  <2>4. OnTime'
    BY <1>0, <1>4, <2>1 DEF Sign, Punctual, OnTime
  <2>5. Passed' /\ Moves'
    BY <1>0, <1>4, <2>1 DEF Sign, Punctual, Passed, Moves
  <2> QED BY <1>0, <1>4, <2>3, <2>4, <2>5 DEF Sign, Punctual
<1>5. CASE Observe
  BY <1>5, <1>a, <1>b DEF Observe, Decided, Punctual, OnTime, Passed, Moves, RefusedForCause
<1>6. CASE Issue
  <2>1. OnTime'
    BY <1>0, <1>6 DEF Issue, Punctual, OnTime
  <2>2. Passed' /\ Moves'
    BY <1>6 DEF Issue, Punctual, Passed, Moves
  <2>3. RefusedForCause'
    BY <1>0, <1>6, GateIssues DEF Issue, RefusedForCause
  <2> QED BY <1>0, <1>6, <2>1, <2>2, <2>3 DEF Issue, Punctual
<1>7. CASE BrokerObserves
  BY <1>7, <1>a, <1>b DEF BrokerObserves, Decided, Punctual, OnTime, Passed, Moves, RefusedForCause
<1>8. CASE Consume
  <2>1. OnTime' /\ Passed' /\ Moves'
    BY <1>8 DEF Consume, Punctual, OnTime, Passed, Moves
  <2>2. RefusedForCause'
    BY <1>0, <1>8, <1>a, BrokerConsumes DEF Consume, RefusedForCause, Decided
  <2> QED BY <1>0, <1>8, <2>1, <2>2 DEF Consume, Punctual
<1>9. CASE Act
  <2>1. Moves'
    BY <1>9, <1>a, <1>b DEF Act, Decided, Punctual, Moves
  <2> QED BY <1>9, <2>1 DEF Act, Punctual, OnTime, Passed, RefusedForCause
<1>10. CASE ActFails
  BY <1>10 DEF ActFails, Punctual, OnTime, Passed, Moves, RefusedForCause
<1>11. CASE Raise
  BY <1>11 DEF Raise, Punctual, OnTime, Passed, Moves, RefusedForCause
<1>12. CASE Tick
  <2>1. now' \in Int /\ steady' \in BOOLEAN
    BY <1>0, <1>12 DEF Tick
  <2>2. OnTime'
    <3>1. steady' /\ pc # "intake" => steady /\ now' >= now + 1 /\ now' <= evaluated + Patience
      <4>1. steady' /\ pc # "intake" => steady /\ now' \in (now + 1)..(evaluated + Patience)
        BY <1>12, Zenon DEF Tick
      <4> QED BY <1>0, <4>1
    <3>2. pc \in Allowed \cup {"sign"} => receipt.at \in Int
      BY DEF CoreInvariant, DecisionHeld, Punctual, Passed
    <3>3. pc \in Authorized => token.issued \in Int
      BY DEF CoreInvariant, TokenHeld
    <3> QED BY <1>0, <1>12, <2>1, <3>1, <3>2, <3>3 DEF Tick, Punctual, OnTime
  <2>3. steady' => steady
    BY <1>0, <1>12 DEF Tick
  <2>4. RefusedForCause'
    BY <1>12, <2>3 DEF Tick, Punctual, RefusedForCause, Warranted
  <2>5. Passed' /\ Moves'
    BY <1>12, <2>3 DEF Tick, Punctual, Passed, Moves
  <2> QED BY <1>0, <1>12, <2>1, <2>2, <2>4, <2>5 DEF Tick, Punctual
<1>13. CASE TargetMoves
  <2>1. Moves'
    BY <1>13, <1>b DEF TargetMoves, Punctual, Moves
  <2>2. RefusedForCause'
    BY <1>13, <1>b DEF TargetMoves, Punctual, RefusedForCause
  <2> QED BY <1>13, <2>1, <2>2 DEF TargetMoves, Punctual, OnTime, Passed
<1>14. CASE UNCHANGED vars
  BY <1>14 DEF vars, Punctual, OnTime, Passed, Moves, RefusedForCause, Warranted
<1> QED
  BY <1>1, <1>2, <1>3, <1>4, <1>5, <1>6, <1>7, <1>8, <1>9, <1>10, <1>11, <1>12, <1>13, <1>14
  DEF CoreNext

\* A justified request is refused only for one of the named causes, however
\* often each component reads the clock for itself.
THEOREM RefusalsHaveCause == CoreSpec => []RefusedForCause
<1>1. Punctual => RefusedForCause
  BY DEF Punctual
<1> QED
  BY <1>1, InitInvariant, NextInvariant, InitPunctual, NextPunctual, PTL DEF CoreSpec
=============================================================================

---------------------------- MODULE DecisionPath ----------------------------
(***************************************************************************)
(* The Phase 1 decision path: DecisionFirewallEngine.process (engine.py)   *)
(* takes one case through evidence assessment, the risk model, the policy, *)
(* the independent verifier, the authorization gate, the broker and the    *)
(* simulated identity provider, in one of the three execution modes.       *)
(*                                                                         *)
(* Numbers are exact: ratios are compared by their numerators, evidence    *)
(* quality by its numerator over 805 n (805 = 7 expected sources * 115     *)
(* minutes of freshness), and probabilities by the logit they come from,   *)
(* which the logistic function orders the same way.  The means and scales  *)
(* of the model are folded into Weight and Intercept.                      *)
(***************************************************************************)
EXTENDS Integers, Sequences, FiniteSets, FiniteSetsExt

CONSTANTS
  Cases,      \* the cases a run may be given
  Policies,   \* the policies it may be configured with
  Weight,     \* the model's weight of each feature
  Intercept,
  MaxTime     \* the clock stops here

None == "none"
NoToken == [issued |-> FALSE, permitted |-> {}, expires |-> 0]

ExpectedSources == {"asset_inventory", "identity", "network", "endpoint",
                    "threat_intel", "change_management", "user_context"}

\* The attributes each source may show.  "source_conflict" weighs on the
\* evidence alone; failed logins, also the identity source's, are a count.
ShownBy(source) ==
  CASE source = "identity" -> {"new_device", "impossible_travel", "mfa_fatigue",
         "token_reuse", "after_hours", "strong_mfa", "oauth_grant"}
    [] source = "network" -> {"threat_ip", "lateral_movement", "known_vpn", "source_conflict"}
    [] source = "endpoint" -> {"credential_dumping", "unusual_admin_action",
         "edr_malware", "device_noncompliant"}
    [] source = "threat_intel" -> {"threat_ip"}
    [] source = "user_context" -> {"approved_travel"}
    [] source = "change_management" -> {"maintenance_window", "service_account_baseline"}
    [] OTHER -> {}

PositiveIndicators ==
  {"threat_ip", "token_reuse", "credential_dumping", "lateral_movement", "edr_malware",
   "mfa_fatigue", "oauth_grant", "unusual_admin_action", "new_device", "impossible_travel"}
BenignIndicators ==
  {"known_vpn", "approved_travel", "maintenance_window", "service_account_baseline",
   "strong_mfa"}
SevereIndicators == {"credential_dumping", "lateral_movement", "token_reuse", "oauth_grant"}

Features == ((UNION {ShownBy(s) : s \in ExpectedSources}) \ {"source_conflict"})
            \cup {"failed_login_intensity", "privilege_global_admin", "asset_criticality"}

\* The actions the simulated identity provider implements and the policy has
\* a rollback plan for.
ReversibleActions == {"revoke_active_sessions", "force_step_up_auth", "increase_monitoring"}

ASSUME DecisionAssumption ==
  /\ Weight \in [Features -> Int] /\ Intercept \in Int /\ MaxTime \in Nat
  /\ \A p \in Policies : p.autonomous \in Seq(STRING)

VARIABLES
  case, policy, mode,
  broken,        \* the actions whose control plane fails for this case
  pc,            \* the next step of process, "done", or "raised"
  evidence, model, proposal,
  original,      \* the disposition the policy proposed
  verification,  \* the checks that failed
  counterfactual,
  token,         \* the authorization, or NoToken
  results,       \* one [action, success] per action tried
  target,        \* the actions in effect on the subject
  now
vars == <<case, policy, mode, broken, pc, evidence, model, proposal, original,
          verification, counterfactual, token, results, target, now>>

inputs == <<case, policy, mode, broken>>

Modes == {"synthetic_simulation", "historical_replay", "shadow_read_only"}
IsReadOnly(m) == m # "synthetic_simulation"

Ids(c) == DOMAIN c.events
IdsWhere(c, Holds(_)) == {i \in Ids(c) : Holds(c.events[i])}
EventsOf(c, source) == IdsWhere(c, LAMBDA e : e.source = source)
Clamp(x, top) == IF x < 0 THEN 0 ELSE IF x > top THEN top ELSE x

-----------------------------------------------------------------------------
(* The feature contract: what stops the path with an exception.            *)

SourceAuthorized(e) ==
  /\ e.shows \subseteq ShownBy(e.source)
  /\ e.logins # 0 => e.source = "identity"

InventoryAgrees(c) ==
  /\ EventsOf(c, "asset_inventory") # {}
  /\ \A i \in EventsOf(c, "asset_inventory") :
       c.events[i].claims = <<c.admin, c.breakGlass, c.criticality>>

-----------------------------------------------------------------------------
(* Evidence and the model.                                                 *)

Sources(c) == {c.events[i].source : i \in Ids(c)}
Missing(c) == ExpectedSources \ Sources(c)
Showing(c, indicators) == IdsWhere(c, LAMBDA e : e.shows \cap indicators # {})
Supporting(c) == {c.events[i].source : i \in Showing(c, PositiveIndicators)}
Poisoned(c) == IdsWhere(c, LAMBDA e : e.instructional)
Conflicts(c) == Cardinality(IdsWhere(c, LAMBDA e : "source_conflict" \in e.shows))
WithProvenance(c) == Cardinality(IdsWhere(c, LAMBDA e : e.provenance))
Verified(c) == Cardinality(IdsWhere(c, LAMBDA e : e.verified))

\* Full credit for five minutes, none after two hours; in 115ths.
\* Variant: no grace.
FreshnessFromTheStart(e) == Clamp(115 - e.delay, 115)
Freshness(e) == Clamp(115 - Clamp(e.delay - 5, 115), 115)

\* In 805ths of a percent of the number of events; trust is in fifths.
Quality(c) ==
  LET n == Cardinality(Ids(c)) IN
  Clamp(27 * 805 * WithProvenance(c) + 23 * 805 * Verified(c)
        + 18 * 7 * MapThenSumSet(LAMBDA i : Freshness(c.events[i]), Ids(c))
        + 17 * 115 * n * Clamp(Cardinality(Sources(c)), 7)
        + 15 * 161 * MapThenSumSet(LAMBDA i : c.events[i].trust, Ids(c))
        - 805 * n * (Clamp(10 * Conflicts(c), 25)
                     + (IF Poisoned(c) # {} THEN 30 ELSE 0)
                     + (IF Cardinality(Missing(c)) >= 2 THEN 12 ELSE 0)),
        100 * 805 * n)

AssessEvidence(c) ==
  [count |-> Cardinality(Ids(c)), quality |-> Quality(c),
   provenance |-> WithProvenance(c), verified |-> Verified(c),
   supporting |-> Cardinality(Supporting(c)),
   positive |-> Showing(c, PositiveIndicators), benign |-> Showing(c, BenignIndicators),
   missing |-> Missing(c), conflicts |-> Conflicts(c), poisoned |-> Poisoned(c)]

\* Values in hundredths.
FeatureValues(c) ==
  [f \in Features |->
     CASE f = "failed_login_intensity" ->
            Max({0} \cup {Clamp(5 * c.events[i].logins, 100) : i \in Ids(c)})
       [] f = "privilege_global_admin" -> IF c.admin THEN 100 ELSE 0
       [] f = "asset_criticality" -> c.criticality
       [] OTHER -> IF Showing(c, {f}) # {} THEN 100 ELSE 0]

FeatureTrace(c) ==
  [f \in Features |->
     CASE f = "failed_login_intensity" -> IdsWhere(c, LAMBDA e : e.logins # 0)
       [] f \in {"privilege_global_admin", "asset_criticality"} -> EventsOf(c, "asset_inventory")
       [] OTHER -> Showing(c, {f})]

\* The logit is clipped to 30; a value of 100 with weight 100 adds 1 to it.
Clip == 300000
Logit(values) ==
  LET sum == Intercept + MapThenSumSet(LAMBDA f : Weight[f] * values[f], Features)
  IN  Clamp(sum + Clip, 2 * Clip) - Clip

AssessModel(c) ==
  [logit |-> Logit(FeatureValues(c)), values |-> FeatureValues(c), trace |-> FeatureTrace(c)]

-----------------------------------------------------------------------------
(* The policy.                                                             *)

DecisionGrade(e, p) ==
  /\ e.quality >= 805 * e.count * p.quality
  /\ 100 * e.provenance >= p.provenance * e.count
  /\ 100 * e.verified >= p.integrity * e.count
  /\ e.conflicts <= p.conflicts
  /\ Cardinality(e.missing) <= p.missing
  /\ ~(p.poisonBlocks /\ e.poisoned # {})

Proposal(disposition, actions, rules, authority, e) ==
  [disposition |-> disposition, actions |-> actions, rules |-> rules,
   authority |-> authority, cited |-> e.positive \cup e.benign \cup e.poisoned,
   rollback |-> IF disposition = "CONTAIN_REVERSIBLE" THEN ReversibleActions ELSE {}]

Investigate(rule, e) == Proposal("INVESTIGATE", <<>>, <<rule>>, "read_only_automation", e)

\* The policy's rules in the order it tries them: a condition, and what it
\* proposes when the condition is the first to hold.
PolicyRules(c, m, e, p) ==
  LET severe == \E f \in SevereIndicators : m.values[f] >= 100
      critical == c.criticality > p.criticality IN
  << <<e.poisoned # {} /\ p.poisonBlocks, Investigate("POISON_ABSTAIN", e)>>,
     <<c.breakGlass /\ p.breakGlassHuman,
       Proposal("ESCALATE_HUMAN", <<>>, <<"BREAK_GLASS_HUMAN">>, "incident_commander", e)>>,
     <<~DecisionGrade(e, p), Investigate("NOT_DECISION_GRADE", e)>>,
     <<m.logit <= p.noAction /\ ~severe,
       Proposal("NO_ACTION", <<>>, <<"BELOW_NO_ACTION_THRESHOLD">>, "none", e)>>,
     <<m.logit >= p.contain /\ ~critical /\ e.supporting >= p.corroboration,
       Proposal("CONTAIN_REVERSIBLE", p.autonomous,
                <<"AUTO_CONTAIN_THRESHOLD", "REVERSIBLE_ACTIONS_ONLY">>,
                "deterministic_policy_gate", e)>>,
     <<m.logit >= p.escalate \/ severe,
       Proposal("ESCALATE_HUMAN", <<>>,
                IF critical THEN <<"HUMAN_ESCALATION", "ASSET_CRITICALITY_HUMAN">>
                ELSE <<"HUMAN_ESCALATION">>, "soc_shift_lead", e)>>,
     <<TRUE, Investigate("UNCERTAIN_INVESTIGATE", e)>> >>

Propose(c, m, e, p) ==
  LET rules == PolicyRules(c, m, e, p)
      first == Min({i \in DOMAIN rules : rules[i][1]})
  IN  rules[first][2]

ActionsOf(prop) == {prop.actions[i] : i \in DOMAIN prop.actions}
Autonomous(p) == {p.autonomous[i] : i \in DOMAIN p.autonomous}

-----------------------------------------------------------------------------
(* The independent verifier: the checks that fail.                         *)

Check(name, passed) == IF passed THEN {} ELSE {name}

\* Variant: the poison and break-glass checks follow the policy's switches.
ContainChecksBySwitches(c, m, e, prop, p) ==
  Check("CONTAIN_NO_POISON", p.poisonBlocks => e.poisoned = {})
  \cup Check("CONTAIN_NOT_BREAK_GLASS", p.breakGlassHuman => ~c.breakGlass)
  \cup Check("CONTAIN_ASSET_BOUNDARY", c.criticality <= p.criticality)
  \cup Check("CONTAIN_ROLLBACK", ActionsOf(prop) \subseteq prop.rollback)

ContainChecks(c, m, e, prop, p) ==
  Check("CONTAIN_RISK_THRESHOLD", m.logit >= p.contain)
  \cup Check("CONTAIN_EVIDENCE_QUALITY", e.quality >= 805 * e.count * p.quality)
  \cup Check("CONTAIN_PROVENANCE", 100 * e.provenance >= p.provenance * e.count)
  \cup Check("CONTAIN_INTEGRITY", 100 * e.verified >= p.integrity * e.count)
  \cup Check("CONTAIN_CORROBORATION", e.supporting >= p.corroboration)
  \cup Check("CONTAIN_NO_CONFLICT", e.conflicts <= p.conflicts)
  \cup Check("CONTAIN_NO_POISON", e.poisoned = {})
  \cup Check("CONTAIN_NOT_BREAK_GLASS", ~c.breakGlass)
  \cup Check("CONTAIN_ASSET_BOUNDARY", c.criticality <= p.criticality)
  \cup Check("CONTAIN_ROLLBACK", ActionsOf(prop) \subseteq prop.rollback)
  \cup Check("CONTAIN_ACTIONS_PRESENT", prop.actions # <<>>)

EveryChecks(c, m, prop, p) ==
  Check("MODEL_PROBABILITY_RANGE", m.logit \in -Clip..Clip)
  \cup Check("TRACE_EVENTS_EXIST", prop.cited \subseteq Ids(c))
  \cup Check("MODEL_FEATURE_TRACE", \A f \in Features : m.trace[f] \subseteq Ids(c))
  \cup Check("NO_HUMAN_ONLY_EXECUTION", ActionsOf(prop) \cap p.humanOnly = {})
  \cup Check("EXECUTABLE_ACTIONS_ALLOWLISTED", ActionsOf(prop) \subseteq Autonomous(p))

Verify(c, m, e, prop, p) ==
  EveryChecks(c, m, prop, p)
  \cup (IF prop.disposition = "CONTAIN_REVERSIBLE" THEN ContainChecks(c, m, e, prop, p)
        ELSE Check("NON_CONTAIN_NO_EXECUTION", prop.actions = <<>>))

\* The fail-safe: a proposal to act that the verifier stopped is investigated.
Downgrade(prop, failed) ==
  IF prop.actions = <<>> \/ failed = {} THEN prop
  ELSE [prop EXCEPT !.disposition = "INVESTIGATE", !.actions = <<>>, !.rollback = {},
                    !.rules = Append(@, "FAIL_SAFE_VERIFIER_DOWNGRADE"),
                    !.authority = "read_only_automation"]

\* What a read-only mode keeps of a proposal.
ReadOnly(prop) ==
  [prop EXCEPT !.actions = <<>>, !.rollback = {}, !.authority = "read_only_observation"]

-----------------------------------------------------------------------------
(* The steps of process, in order.                                         *)

Raise(step) == pc = step /\ pc' = "raised" /\ UNCHANGED <<inputs, evidence, model, proposal,
  original, verification, counterfactual, token, results, target, now>>

Init ==
  /\ case \in Cases /\ policy \in Policies /\ mode \in Modes
  /\ broken \in {{}} \cup {{a} : a \in Autonomous(policy)}
  /\ pc = "evidence" /\ evidence = None /\ model = None /\ proposal = None
  /\ original = None /\ verification = None /\ counterfactual = <<>>
  /\ token = NoToken /\ results = <<>> /\ target = {} /\ now = 0

Assess ==
  /\ pc = "evidence" /\ \A i \in Ids(case) : SourceAuthorized(case.events[i])
  /\ evidence' = AssessEvidence(case) /\ pc' = "model"
  /\ UNCHANGED <<inputs, model, proposal, original, verification, counterfactual, token,
                 results, target, now>>

AssessFails ==
  (\E i \in Ids(case) : ~SourceAuthorized(case.events[i])) /\ Raise("evidence")

Model ==
  /\ pc = "model" /\ InventoryAgrees(case)
  /\ model' = AssessModel(case) /\ pc' = "policy"
  /\ UNCHANGED <<inputs, evidence, proposal, original, verification, counterfactual, token,
                 results, target, now>>

ModelFails == ~InventoryAgrees(case) /\ Raise("model")

Policy ==
  /\ pc = "policy"
  /\ proposal' = Propose(case, model, evidence, policy) /\ pc' = "verifier"
  /\ UNCHANGED <<inputs, evidence, model, original, verification, counterfactual, token,
                 results, target, now>>

Verification ==
  /\ pc = "verifier"
  /\ verification' = Verify(case, model, evidence, proposal, policy)
  /\ original' = proposal.disposition
  /\ proposal' = Downgrade(proposal, verification')
  /\ pc' = "gate"
  /\ UNCHANGED <<inputs, evidence, model, counterfactual, token, results, target, now>>

Suppress ==
  /\ pc = "gate" /\ IsReadOnly(mode)
  /\ counterfactual' = proposal.actions /\ proposal' = ReadOnly(proposal)
  /\ pc' = "conclude"
  /\ UNCHANGED <<inputs, evidence, model, original, verification, token, results, target, now>>

\* AuthorizationGate.authorize: a token for these actions until it expires.
Issued(prop, failed, t, p) ==
  IF prop.actions = <<>> \/ failed # {} THEN NoToken
  ELSE [issued |-> TRUE, permitted |-> ActionsOf(prop), expires |-> t + p.ttl]

Authorize ==
  /\ pc = "gate" /\ ~IsReadOnly(mode)
  /\ token' = Issued(proposal, verification, now, policy)
  /\ pc' = IF ~token'.issued THEN "conclude" ELSE "execute"
  /\ UNCHANGED <<inputs, evidence, model, proposal, original, verification, counterfactual,
                 results, target, now>>

\* AuthorizationGate.validate, at the time the broker is called.
Permits(tok, action, t) == action \in tok.permitted /\ t <= tok.expires

Execute ==
  LET action == proposal.actions[Len(results) + 1]
      applied == Permits(token, action, now) /\ action \in ReversibleActions \ broken IN
  /\ pc = "execute" /\ Len(results) < Len(proposal.actions)
  /\ results' = Append(results, [action |-> action, success |-> applied])
  /\ target' = IF applied THEN target \cup {action} ELSE target
  /\ UNCHANGED <<inputs, pc, evidence, model, proposal, original, verification,
                 counterfactual, token, now>>

Executed == pc = "execute" /\ Len(results) = Len(proposal.actions)

\* The post-action verifier knows the expected state of the implemented
\* actions only, and raises on another.
Conclude ==
  /\ pc = "conclude" \/ (pc = "execute" /\ Len(results) = Len(proposal.actions))
  /\ pc' = IF \A i \in DOMAIN results : results[i].action \in ReversibleActions
           THEN "done" ELSE "raised"
  /\ UNCHANGED <<inputs, evidence, model, proposal, original, verification, counterfactual,
                 token, results, target, now>>

Tick ==
  /\ pc = "execute" /\ now < MaxTime /\ now' = now + 1
  /\ UNCHANGED <<inputs, pc, evidence, model, proposal, original, verification,
                 counterfactual, token, results, target>>

Next ==
  \/ Assess \/ AssessFails \/ Model \/ ModelFails \/ Policy \/ Verification
  \/ Suppress \/ Authorize \/ Execute \/ Conclude \/ Tick

Spec == Init /\ [][Next]_vars

\* Variant of PostAction: only the last result is looked at.
PostActionOfTheLast ==
  IF results = <<>> THEN "NOT_APPLICABLE"
  ELSE IF results[Len(results)].success THEN "VERIFIED" ELSE "FAILED"
\* The decision record, as far as it is determined by the inputs.
PostAction ==
  IF results = <<>> THEN "NOT_APPLICABLE"
  ELSE IF \A i \in DOMAIN results : results[i].success THEN "VERIFIED" ELSE "FAILED"
OperationalEffects == Cardinality({i \in DOMAIN results : results[i].success})

-----------------------------------------------------------------------------
\* What has to be true of the case itself before anybody's account changes,
\* whichever of its safety switches the policy has off.
Warranted(c, p) ==
  /\ \A i \in Ids(c) : ~c.events[i].instructional
  /\ ~c.breakGlass /\ c.criticality <= p.criticality
  /\ Cardinality({i \in Ids(c) : "source_conflict" \in c.events[i].shows}) <= p.conflicts
  /\ 100 * Cardinality({i \in Ids(c) : c.events[i].provenance}) >= p.provenance * Cardinality(Ids(c))
  /\ 100 * Cardinality({i \in Ids(c) : c.events[i].verified}) >= p.integrity * Cardinality(Ids(c))
  /\ Cardinality({c.events[i].source : i \in
       {j \in Ids(c) : \E f \in PositiveIndicators : f \in c.events[j].shows}}) >= p.corroboration

\* An action takes effect only in the simulation mode, only on a case that
\* warrants it whatever the policy's switches say, only when it is reversible,
\* on the policy's list and not reserved to humans, only under an
\* authorization, and never in a call that then raises and
\* leaves no decision record (engine.py process, verifier.py verify,
\* actions.py).
EffectIsWarranted ==
  target # {} =>
    /\ mode = "synthetic_simulation" /\ Warranted(case, policy)
    /\ target \subseteq (ReversibleActions \cap Autonomous(policy)) \ policy.humanOnly
    /\ token.issued /\ pc # "raised"

\* What the decision record says of the effects is what happened to the
\* subject: VERIFIED means every action of the proposal is in effect, and
\* every action in effect is in the results as a success (engine.py process,
\* actions.py PostActionVerifier.verify).
ReportIsTrue ==
  pc = "done" =>
    /\ PostAction = "VERIFIED" => results # <<>> /\ target = ActionsOf(proposal)
    /\ PostAction = "NOT_APPLICABLE" => target = {}
    /\ target = {results[i].action : i \in {j \in DOMAIN results : results[j].success}}
    /\ counterfactual # <<>> => target = {}
=============================================================================

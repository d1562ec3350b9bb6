-------------------------- MODULE ReferenceDecision --------------------------
(***************************************************************************)
(* The separate recomputation of a read-only decision                      *)
(* (replay/reference_decision.py) beside the decision path that recorded   *)
(* it: the reference validates the policy and the case, recomputes every   *)
(* stage with definitions of its own and compares stage by stage.          *)
(***************************************************************************)
EXTENDS DecisionPath

VARIABLE assurance   \* what the reference answered, once it has
rvars == <<vars, assurance>>

-----------------------------------------------------------------------------
(* What the input contracts make of an event, a case and a policy before   *)
(* anything looks at their content.                                        *)

Event ==
  [source : STRING, provenance : BOOLEAN, verified : BOOLEAN, delay : Int, trust : Int,
   shows : SUBSET STRING, logins : Nat, instructional : BOOLEAN,
   claims : {<<>>} \cup (BOOLEAN \X BOOLEAN \X Int)]

CaseShape(c) ==
  c.events \in Seq(Event) /\ {c.admin, c.breakGlass} \subseteq BOOLEAN /\ c.criticality \in Int

PolicyShape(p) ==
  /\ {p.noAction, p.escalate, p.contain, p.quality, p.provenance, p.integrity,
      p.corroboration, p.missing, p.conflicts, p.criticality} \subseteq Int
  /\ {p.breakGlassHuman, p.poisonBlocks} \subseteq BOOLEAN

ASSUME ReferenceAssumption ==
  (\A c \in Cases : CaseShape(c)) /\ \A p \in Policies : PolicyShape(p)

-----------------------------------------------------------------------------
(* What the reference refuses to recompute: the codes of its errors.       *)

RefEventSources ==
  [asset_inventory |-> {}, threat_intel |-> {"threat_ip"},
   user_context |-> {"approved_travel"},
   change_management |-> {"maintenance_window", "service_account_baseline"},
   endpoint |-> {"credential_dumping", "unusual_admin_action", "edr_malware",
                 "device_noncompliant"},
   network |-> {"threat_ip", "lateral_movement", "known_vpn", "source_conflict"},
   identity |-> {"new_device", "impossible_travel", "mfa_fatigue", "token_reuse",
                 "after_hours", "strong_mfa", "oauth_grant"}]

RefEventErrors(e) ==
  {code \in {"EVENT_TIME", "SOURCE_CONTEXT"} :
     \/ code = "EVENT_TIME" /\ e.delay < 0
     \/ /\ code = "SOURCE_CONTEXT"
        /\ \/ \E f \in e.shows : e.source \notin {s \in DOMAIN RefEventSources :
                                                   f \in RefEventSources[s]}
           \/ e.logins > 0 /\ e.source # "identity"}

RefCaseErrors(c) ==
  LET inventory == {i \in Ids(c) : c.events[i].source = "asset_inventory"} IN
  (UNION {RefEventErrors(c.events[i]) : i \in Ids(c)})
  \cup {code \in {"INVENTORY_MISSING", "INVENTORY_BINDING", "CASE_SHAPE"} :
          \/ code = "CASE_SHAPE" /\ c.events = <<>>
          \/ code = "INVENTORY_MISSING" /\ inventory = {}
          \/ /\ code = "INVENTORY_BINDING"
             /\ \E i \in inventory : \/ c.events[i].claims[1] # c.admin
                                     \/ c.events[i].claims[2] # c.breakGlass
                                     \/ c.events[i].claims[3] # c.criticality}

RefExpectedSources == {"asset_inventory", "identity", "network", "endpoint", "threat_intel",
  "change_management", "user_context"}

\* The ranges.  Percentages stand for the unit numbers, ticks of the clock for
\* seconds; every threshold is the logit of a unit number.
RefPolicyNumbers(p) ==
  /\ {p.quality, p.provenance, p.integrity, p.criticality} \subseteq 0..100
  /\ {p.corroboration, p.missing} \subseteq 0..Cardinality(RefExpectedSources)
  /\ p.conflicts \in 0..1000000 /\ p.ttl \in 1..86400

RefPolicyErrors(p) ==
  {code \in {"POLICY_SHAPE", "POLICY_RANGE"} :
     \/ /\ code = "POLICY_SHAPE"
        /\ \E i, j \in DOMAIN p.autonomous : i # j /\ p.autonomous[i] = p.autonomous[j]
     \/ /\ code = "POLICY_RANGE"
        /\ \/ ~(p.noAction <= p.escalate /\ p.escalate <= p.contain)
           \/ Autonomous(p) \cap p.humanOnly # {}
           \/ ~RefPolicyNumbers(p)}

-----------------------------------------------------------------------------
(* The stages, recomputed.                                                 *)

RefPositive == {"threat_ip", "token_reuse", "credential_dumping", "lateral_movement",
  "edr_malware", "mfa_fatigue", "oauth_grant", "unusual_admin_action", "new_device",
  "impossible_travel"}
RefBenign == {"known_vpn", "approved_travel", "maintenance_window",
  "service_account_baseline", "strong_mfa"}

\* What one event adds to the evidence quality of n events.
RefCredit(e) ==
  (IF e.provenance THEN 27 * 805 ELSE 0) + (IF e.verified THEN 23 * 805 ELSE 0)
  + 161 * 15 * e.trust
  + 126 * (IF e.delay <= 5 THEN 115 ELSE IF e.delay >= 120 THEN 0 ELSE 120 - e.delay)

RefEvidence(c) ==
  LET E == c.events
      n == Len(E)
      sources == {E[i].source : i \in 1..n}
      missing == RefExpectedSources \ sources
      positive == {i \in 1..n : \E f \in RefPositive : f \in E[i].shows}
      poisoned == {i \in 1..n : E[i].instructional}
      conflicts == Quantify(1..n, LAMBDA i : "source_conflict" \in E[i].shows)
      diversity == 17 * 115 * n * (IF Cardinality(sources) > 7 THEN 7 ELSE Cardinality(sources))
      penalty == Min({25, 10 * conflicts}) + (IF poisoned = {} THEN 0 ELSE 30)
                 + (IF Cardinality(missing) < 2 THEN 0 ELSE 12)
      quality == diversity + MapThenSumSet(LAMBDA i : RefCredit(E[i]), 1..n) - 805 * penalty * n
  IN
  [count |-> n, quality |-> Max({0, Min({quality, 80500 * n})}),
   provenance |-> Quantify(1..n, LAMBDA i : E[i].provenance),
   verified |-> Quantify(1..n, LAMBDA i : E[i].verified),
   supporting |-> Cardinality({E[i].source : i \in positive}),
   positive |-> positive,
   benign |-> {i \in 1..n : \E f \in RefBenign : f \in E[i].shows},
   missing |-> missing, conflicts |-> conflicts, poisoned |-> poisoned]

RefTrace(c) ==
  LET inventory == {i \in DOMAIN c.events : c.events[i].source = "asset_inventory"} IN
  [f \in Features |->
     IF f \in {"privilege_global_admin", "asset_criticality"} THEN inventory
     ELSE {i \in DOMAIN c.events :
             f \in c.events[i].shows \cup
                   (IF c.events[i].logins > 0 THEN {"failed_login_intensity"} ELSE {})}]

RefFeatures(c) ==
  [f \in Features |->
     IF f = "asset_criticality" THEN c.criticality
     ELSE IF f = "failed_login_intensity"
          THEN LET seen == {c.events[i].logins : i \in DOMAIN c.events}
               IN  Min({100, 5 * Max(seen)})
     ELSE IF f = "privilege_global_admin" THEN (IF c.admin THEN 100 ELSE 0)
     ELSE IF RefTrace(c)[f] = {} THEN 0 ELSE 100]

RefModel(c) ==
  LET values == RefFeatures(c)
      sum == Intercept + MapThenSumSet(LAMBDA f : values[f] * Weight[f], Features)
  IN  [logit |-> Max({-300000, Min({300000, sum})}), values |-> values, trace |-> RefTrace(c)]

RefDecisionGrade(e, p) ==
  /\ e.quality >= p.quality * e.count * 805
  /\ e.provenance * 100 >= e.count * p.provenance
  /\ e.verified * 100 >= e.count * p.integrity
  /\ e.conflicts <= p.conflicts /\ Cardinality(e.missing) <= p.missing
  /\ p.poisonBlocks => e.poisoned = {}

\* The rules that decide a case, and the authority each one asks for.
RefAuthority ==
  [POISON_ABSTAIN |-> "read_only_automation", BREAK_GLASS_HUMAN |-> "incident_commander",
   NOT_DECISION_GRADE |-> "read_only_automation", BELOW_NO_ACTION_THRESHOLD |-> "none",
   AUTO_CONTAIN_THRESHOLD |-> "deterministic_policy_gate",
   HUMAN_ESCALATION |-> "soc_shift_lead", UNCERTAIN_INVESTIGATE |-> "read_only_automation"]

RefRule(c, m, e, p) ==
  LET severe == \E f \in {"credential_dumping", "lateral_movement", "token_reuse", "oauth_grant"} :
                  m.values[f] = 100 IN
  IF p.poisonBlocks /\ e.poisoned # {} THEN "POISON_ABSTAIN"
  ELSE IF p.breakGlassHuman /\ c.breakGlass THEN "BREAK_GLASS_HUMAN"
  ELSE IF ~RefDecisionGrade(e, p) THEN "NOT_DECISION_GRADE"
  ELSE IF ~severe /\ m.logit <= p.noAction THEN "BELOW_NO_ACTION_THRESHOLD"
  ELSE IF p.contain <= m.logit /\ c.criticality <= p.criticality
          /\ e.supporting >= p.corroboration THEN "AUTO_CONTAIN_THRESHOLD"
  ELSE IF severe \/ m.logit >= p.escalate THEN "HUMAN_ESCALATION"
  ELSE "UNCERTAIN_INVESTIGATE"

RefProposal(c, m, e, p) ==
  LET rule == RefRule(c, m, e, p)
      contain == rule = "AUTO_CONTAIN_THRESHOLD" IN
  [disposition |-> IF contain THEN "CONTAIN_REVERSIBLE"
                   ELSE IF rule = "BELOW_NO_ACTION_THRESHOLD" THEN "NO_ACTION"
                   ELSE IF RefAuthority[rule] = "read_only_automation" THEN "INVESTIGATE"
                   ELSE "ESCALATE_HUMAN",
   actions |-> IF contain THEN p.autonomous ELSE <<>>,
   rules |-> <<rule>> \o (IF contain THEN <<"REVERSIBLE_ACTIONS_ONLY">>
                          ELSE IF rule = "HUMAN_ESCALATION" /\ c.criticality > p.criticality
                               THEN <<"ASSET_CRITICALITY_HUMAN">> ELSE <<>>),
   authority |-> RefAuthority[rule],
   cited |-> e.positive \cup e.benign \cup e.poisoned,
   rollback |-> IF contain THEN {"revoke_active_sessions", "force_step_up_auth",
                                 "increase_monitoring"} ELSE {}]

\* The checks that fail, each with what makes it fail.
RefVerification(c, m, e, prop, p) ==
  LET act == {prop.actions[i] : i \in DOMAIN prop.actions}
      contain == prop.disposition = "CONTAIN_REVERSIBLE"
      fails ==
        [MODEL_PROBABILITY_RANGE |-> m.logit < -300000 \/ m.logit > 300000,
         TRACE_EVENTS_EXIST |-> \E i \in prop.cited : i \notin DOMAIN c.events,
         MODEL_FEATURE_TRACE |-> \E f \in Features : ~(m.trace[f] \subseteq DOMAIN c.events),
         NO_HUMAN_ONLY_EXECUTION |-> \E a \in act : a \in p.humanOnly,
         EXECUTABLE_ACTIONS_ALLOWLISTED |-> \E a \in act : a \notin Autonomous(p),
         CONTAIN_RISK_THRESHOLD |-> contain /\ m.logit < p.contain,
         CONTAIN_EVIDENCE_QUALITY |-> contain /\ e.quality < p.quality * 805 * e.count,
         CONTAIN_PROVENANCE |-> contain /\ 100 * e.provenance < p.provenance * e.count,
         CONTAIN_INTEGRITY |-> contain /\ 100 * e.verified < p.integrity * e.count,
         CONTAIN_CORROBORATION |-> contain /\ e.supporting < p.corroboration,
         CONTAIN_NO_CONFLICT |-> contain /\ e.conflicts > p.conflicts,
         CONTAIN_NO_POISON |-> contain /\ e.poisoned # {},
         CONTAIN_NOT_BREAK_GLASS |-> contain /\ c.breakGlass,
         CONTAIN_ASSET_BOUNDARY |-> contain /\ c.criticality > p.criticality,
         CONTAIN_ROLLBACK |-> contain /\ \E a \in act : a \notin prop.rollback,
         CONTAIN_ACTIONS_PRESENT |-> contain /\ act = {},
         NON_CONTAIN_NO_EXECUTION |-> ~contain /\ act # {}]
  IN {name \in DOMAIN fails : fails[name]}

RefDowngraded(prop) ==
  [disposition |-> "INVESTIGATE", actions |-> <<>>, rollback |-> {}, cited |-> prop.cited,
   rules |-> prop.rules \o <<"FAIL_SAFE_VERIFIER_DOWNGRADE">>,
   authority |-> "read_only_automation"]

RefReadOnly(prop) ==
  [disposition |-> prop.disposition, actions |-> <<>>, rollback |-> {}, cited |-> prop.cited,
   rules |-> prop.rules, authority |-> "read_only_observation"]

ExpectedStages(c, p) ==
  LET e == RefEvidence(c)
      m == RefModel(c)
      first == RefProposal(c, m, e, p)
      failed == RefVerification(c, m, e, first, p)
      kept == IF first.actions # <<>> /\ failed # {} THEN RefDowngraded(first) ELSE first
  IN [evidence |-> e, model |-> m, verifier |-> failed,
      policy |-> <<first.disposition, kept.actions, RefReadOnly(kept)>>,
      final_surface |-> <<[issued |-> FALSE, permitted |-> {}, expires |-> 0], <<>>,
                        "NOT_APPLICABLE", 0>>]

\* The same stages as the decision record has them.
ObservedStages ==
  [evidence |-> evidence, model |-> model, verifier |-> verification,
   policy |-> <<original, counterfactual, proposal>>,
   final_surface |-> <<token, results, PostAction, OperationalEffects>>]

-----------------------------------------------------------------------------

\* The harness recomputes what a read-only run recorded.
Recompute ==
  /\ pc = "done" /\ IsReadOnly(mode) /\ ~assurance.given
  /\ LET refused == RefPolicyErrors(policy) \cup RefCaseErrors(case) IN
     assurance' = [given |-> TRUE, refused |-> refused,
                   mismatched |-> IF refused # {} THEN {}
                                  ELSE LET expected == ExpectedStages(case, policy) IN
                                       {stage \in DOMAIN expected :
                                          expected[stage] # ObservedStages[stage]}]
  /\ UNCHANGED vars

RInit == Init /\ assurance = [given |-> FALSE, refused |-> {}, mismatched |-> {}]
RNext == (Next /\ UNCHANGED assurance) \/ Recompute
RSpec == RInit /\ [][RNext]_rvars

\* The reference agrees with every stage of every read-only decision it
\* recomputes, and what it refuses although the decision path decided it is
\* one of three things only: an event collected before it was observed, a
\* policy whose numbers are out of range or whose thresholds or action lists
\* contradict one another, or one that lists an action twice (reference_decision.py
\* verify_reference_decision_path against engine.py process).
ReferenceAgrees ==
  assurance.given => /\ assurance.mismatched = {}
                      /\ assurance.refused \subseteq {"EVENT_TIME", "POLICY_RANGE", "POLICY_SHAPE"}
=============================================================================

-------------------------- MODULE DecisionPathProofs -------------------------
(***************************************************************************)
(* Proofs about the Phase 1 decision, for any cases, policies, model and   *)
(* clock: nothing takes effect that the case does not warrant, the report  *)
(* is true, and the reference recomputes what the path recorded.           *)
(*                                                                         *)
(* The first argument does not look at the policy's rules: whatever was    *)
(* proposed, a proposal that still has actions at the gate is the very one *)
(* that passed the verifier, and the verifier's checks say what Warranted  *)
(* says.  The last one looks at everything, stage by stage: the sums of    *)
(* evidence and model are totals over finite sets, which are equal when    *)
(* their terms are, and the rules and checks are compared one by one.      *)
(***************************************************************************)
EXTENDS ReferenceDecision, FiniteSetTheorems, SequenceTheorems, WellFoundedInduction, TLAPS

\* The shape of a proposal: its fields, its actions a list, its rollback plan
\* for reversible actions.
Fields == {"disposition", "actions", "rules", "authority", "cited", "rollback"}
WellFormed(prop) ==
  /\ DOMAIN prop = Fields
  /\ prop.actions \in Seq(STRING)
  /\ prop.rollback \subseteq ReversibleActions

AtGate == {"gate", "execute", "conclude", "done"}

\* What was assessed is the case's evidence.
EvidenceHeld == pc \notin {"evidence", "raised"} => evidence = AssessEvidence(case)

\* A proposal that still has actions after the verifier is the one it passed.
ProposalHeld ==
  /\ pc \in {"verifier"} \cup AtGate => WellFormed(proposal)
  /\ pc \in AtGate /\ proposal.actions # <<>> =>
       Verify(case, model, evidence, proposal, policy) = {}

\* There is a token only in the simulation mode, and for such a proposal.
TokenHeld ==
  /\ token.issued \in BOOLEAN
  /\ pc = "execute" => token.issued
  /\ token.issued => /\ mode = "synthetic_simulation" /\ proposal.actions # <<>>
                     /\ pc \in {"execute", "done"}

\* Results and effects come of the proposal's actions under the token.
EffectHeld ==
  /\ results \in Seq([action : STRING, success : BOOLEAN])
  /\ results # <<>> => token.issued
  /\ \A i \in DOMAIN results : results[i].action \in ActionsOf(proposal)
  /\ target # {} => token.issued
  /\ target \subseteq ActionsOf(proposal) \cap ReversibleActions

PathInvariant ==
  /\ policy \in Policies
  /\ EvidenceHeld /\ ProposalHeld /\ TokenHeld /\ EffectHeld

\* A proposal with actions that the verifier passed is for a case that
\* warrants them, and for reversible, listed, not human-only actions.
LEMMA PassedIsWarranted ==
  ASSUME NEW c, NEW m, NEW prop, NEW p,
         prop.actions # <<>>, Verify(c, m, AssessEvidence(c), prop, p) = {}
  PROVE  /\ Warranted(c, p)
         /\ ActionsOf(prop) \subseteq Autonomous(p) \ p.humanOnly
         /\ ActionsOf(prop) \subseteq prop.rollback
<1>1. /\ EveryChecks(c, m, prop, p) = {}
      /\ ActionsOf(prop) \cap p.humanOnly = {}
      /\ ActionsOf(prop) \subseteq Autonomous(p)
  <2>1. EveryChecks(c, m, prop, p) = {}
    BY DEF Verify
  <2>2. Check("NO_HUMAN_ONLY_EXECUTION", ActionsOf(prop) \cap p.humanOnly = {}) = {}
    BY <2>1 DEF EveryChecks
  <2>3. Check("EXECUTABLE_ACTIONS_ALLOWLISTED", ActionsOf(prop) \subseteq Autonomous(p)) = {}
    BY <2>1 DEF EveryChecks
  <2>4. QED
    BY <2>1, <2>2, <2>3 DEF Check
<1>3. prop.disposition = "CONTAIN_REVERSIBLE"
  BY DEF Verify, Check
<1>4. ContainChecks(c, m, AssessEvidence(c), prop, p) = {}
  BY <1>3 DEF Verify
<1>5. /\ AssessEvidence(c).supporting >= p.corroboration
      /\ AssessEvidence(c).conflicts <= p.conflicts
      /\ 100 * AssessEvidence(c).provenance >= p.provenance * AssessEvidence(c).count
      /\ 100 * AssessEvidence(c).verified >= p.integrity * AssessEvidence(c).count
      /\ AssessEvidence(c).poisoned = {}
      /\ ~c.breakGlass
      /\ c.criticality <= p.criticality
      /\ ActionsOf(prop) \subseteq prop.rollback
  BY <1>4 DEF ContainChecks, Check
<1>6. /\ Cardinality(Supporting(c)) >= p.corroboration
      /\ Conflicts(c) <= p.conflicts
      /\ 100 * WithProvenance(c) >= p.provenance * Cardinality(Ids(c))
      /\ 100 * Verified(c) >= p.integrity * Cardinality(Ids(c))
      /\ Poisoned(c) = {}
  BY <1>5 DEF AssessEvidence
<1>7. Supporting(c) = {c.events[i].source : i \in
        {j \in Ids(c) : \E f \in PositiveIndicators : f \in c.events[j].shows}}
  <2>1. Showing(c, PositiveIndicators)
          = {j \in Ids(c) : \E f \in PositiveIndicators : f \in c.events[j].shows}
    BY DEF Showing, IdsWhere
  <2>2. QED
    BY <2>1 DEF Supporting
<1>8. Warranted(c, p)
  BY <1>5, <1>6, <1>7 DEF Warranted, Conflicts, WithProvenance, Verified, Poisoned, IdsWhere
<1>9. QED
  BY <1>1, <1>5, <1>8

\* The first rule that applies is one of the seven.
LEMMA LeastOfSeven ==
  ASSUME NEW S \in SUBSET (1..7), 7 \in S
  PROVE  Min(S) \in S
<1>1. \E x \in S : \A y \in S : x =< y
  <2>1. CASE 1 \in S  BY <2>1
  <2>2. CASE 1 \notin S /\ 2 \in S  BY <2>2
  <2>3. CASE {1, 2} \cap S = {} /\ 3 \in S  BY <2>3
  <2>4. CASE {1, 2, 3} \cap S = {} /\ 4 \in S  BY <2>4
  <2>5. CASE {1, 2, 3, 4} \cap S = {} /\ 5 \in S  BY <2>5
  <2>6. CASE {1, 2, 3, 4, 5} \cap S = {} /\ 6 \in S  BY <2>6
  <2>7. CASE {1, 2, 3, 4, 5, 6} \cap S = {}  BY <2>7
  <2>8. QED
    BY <2>1, <2>2, <2>3, <2>4, <2>5, <2>6, <2>7
<1>2. QED
  BY <1>1 DEF Min

\* Whatever rule decides, the proposal is well formed.
LEMMA ProposalWellFormed ==
  ASSUME NEW c, NEW m, NEW e, NEW p, p.autonomous \in Seq(STRING)
  PROVE  WellFormed(Propose(c, m, e, p))
<1> DEFINE rules == PolicyRules(c, m, e, p)
           applies == {i \in DOMAIN rules : rules[i][1]}
<1>1. \A d, u, r : /\ WellFormed(Proposal(d, <<>>, r, u, e))
                   /\ WellFormed(Proposal(d, p.autonomous, r, u, e))
  BY DEF WellFormed, Proposal, Fields, ReversibleActions
<1>2. \A r : WellFormed(Investigate(r, e))
  BY <1>1 DEF Investigate
<1>3. DOMAIN rules = 1..7 /\ rules[7][1]
  BY DEF PolicyRules
<1>4. \A i \in 1..7 : WellFormed(rules[i][2])
  BY <1>1, <1>2 DEF PolicyRules
<1>5. Min(applies) \in 1..7
  BY <1>3, LeastOfSeven
<1>6. QED
  BY <1>4, <1>5 DEF Propose

\* What the gate is given is the proposal the verifier passed, or no action.
LEMMA DowngradeKeepsOrEmpties ==
  ASSUME NEW prop, NEW failed, WellFormed(prop)
  PROVE  /\ WellFormed(Downgrade(prop, failed))
         /\ Downgrade(prop, failed).actions # <<>> => failed = {} /\ Downgrade(prop, failed) = prop
<1>1. CASE prop.actions = <<>> \/ failed = {}
  BY <1>1 DEF Downgrade
<1>2. CASE prop.actions # <<>> /\ failed # {}
  <2> DEFINE down == [prop EXCEPT !.disposition = "INVESTIGATE", !.actions = <<>>, !.rollback = {},
                                  !.rules = Append(@, "FAIL_SAFE_VERIFIER_DOWNGRADE"),
                                  !.authority = "read_only_automation"]
  <2>1. Downgrade(prop, failed) = down
    BY <1>2 DEF Downgrade
  <2>2. DOMAIN down = Fields /\ down.actions = <<>> /\ down.rollback = {}
    BY DEF WellFormed, Fields
  <2>3. QED
    BY <2>1, <2>2 DEF WellFormed
<1>3. QED
  BY <1>1, <1>2

\* A read-only downgrade leaves a well-formed proposal without actions.
LEMMA ReadOnlyEmpties ==
  ASSUME NEW prop, WellFormed(prop)
  PROVE  WellFormed(ReadOnly(prop)) /\ ReadOnly(prop).actions = <<>>
BY DEF ReadOnly, WellFormed, Fields

\* Before the first step nothing was proposed, permitted or done.
LEMMA PathStart == Init => PathInvariant
BY DEF Init, PathInvariant, EvidenceHeld, ProposalHeld, TokenHeld, EffectHeld, AtGate,
       NoToken, ActionsOf

\* The invariant is inductive: one step per action of DecisionPath.
LEMMA PathStep == PathInvariant /\ [Next]_vars => PathInvariant'
<1> SUFFICES ASSUME PathInvariant, [Next]_vars PROVE PathInvariant'
  OBVIOUS
<1> USE DEF PathInvariant, EvidenceHeld, ProposalHeld, TokenHeld, EffectHeld, AtGate, inputs
<1>1. CASE Assess
  BY <1>1 DEF Assess
<1>2. CASE AssessFails
  BY <1>2 DEF AssessFails, Raise
<1>3. CASE Model
  BY <1>3 DEF Model
<1>4. CASE ModelFails
  BY <1>4 DEF ModelFails, Raise
<1>5. CASE Policy
  BY <1>5, ProposalWellFormed, DecisionAssumption DEF Policy
<1>6. CASE Verification
  BY <1>6, DowngradeKeepsOrEmpties DEF Verification
<1>7. CASE Suppress
  BY <1>7, ReadOnlyEmpties DEF Suppress
<1>8. CASE Authorize
  BY <1>8 DEF Authorize, Issued, NoToken, IsReadOnly
<1>9. CASE Execute
  <2> DEFINE action == proposal.actions[Len(results) + 1]
             applied == Permits(token, action, now) /\ action \in ReversibleActions \ broken
  <2>1. /\ pc = "execute" /\ Len(results) < Len(proposal.actions)
        /\ results' = Append(results, [action |-> action, success |-> applied])
        /\ target' = IF applied THEN target \cup {action} ELSE target
        /\ UNCHANGED <<case, policy, mode, pc, evidence, model, proposal, token>>
    BY <1>9 DEF Execute
  <2>2. action \in ActionsOf(proposal) /\ action \in STRING
    <3>1. proposal.actions \in Seq(STRING) /\ results \in Seq([action : STRING, success : BOOLEAN])
      BY <2>1 DEF WellFormed
    <3>2. Len(results) + 1 \in DOMAIN proposal.actions
      BY <2>1, <3>1
    <3>3. QED
      BY <3>1, <3>2 DEF ActionsOf
  <2>3. target' \subseteq ActionsOf(proposal) \cap ReversibleActions
    BY <2>1, <2>2
  <2>4. [action |-> action, success |-> applied] \in [action : STRING, success : BOOLEAN]
    <3>1. applied \in BOOLEAN
      BY DEF Permits
    <3>2. QED
      BY <2>2, <3>1
  <2>5. /\ results' \in Seq([action : STRING, success : BOOLEAN])
        /\ \A i \in DOMAIN results' : results'[i].action \in ActionsOf(proposal)
    <3> DEFINE R == [action : STRING, success : BOOLEAN]
               last == [action |-> action, success |-> applied]
    <3>1. results \in Seq(R) /\ last \in R /\ last.action = action
      BY <2>4
    <3> HIDE DEF R, last
    <3>2. /\ Append(results, last) \in Seq(R)
          /\ \A i \in DOMAIN Append(results, last) :
               Append(results, last)[i] = last \/ (i \in DOMAIN results /\ Append(results, last)[i] = results[i])
      BY <3>1
    <3>3. results' = Append(results, last)
      BY <2>1 DEF last
    <3>4. results' \in Seq([action : STRING, success : BOOLEAN])
      BY <3>2, <3>3 DEF R
    <3>5. QED
      BY <2>2, <3>1, <3>2, <3>3, <3>4
  <2>6. ActionsOf(proposal)' = ActionsOf(proposal)
    BY <2>1 DEF ActionsOf
  <2>7. token.issued
    BY <2>1
  <2>8. EffectHeld'
    BY <2>1, <2>3, <2>5, <2>6, <2>7
  <2>9. QED
    BY <2>1, <2>8
<1>10. CASE Conclude
  <2>1. \A i \in DOMAIN results : results[i].action \in ReversibleActions
    <3>1. CASE token.issued
      <4>1. /\ WellFormed(proposal) /\ proposal.actions # <<>>
            /\ evidence = AssessEvidence(case)
            /\ Verify(case, model, evidence, proposal, policy) = {}
        BY <3>1
      <4>2. ActionsOf(proposal) \subseteq ReversibleActions
        BY <4>1, PassedIsWarranted DEF WellFormed
      <4>3. QED
        BY <4>2
    <3>2. CASE ~token.issued
      BY <3>2
    <3>3. QED
      BY <3>1, <3>2
  <2>2. /\ pc \in {"conclude", "execute"} /\ pc' = "done"
        /\ UNCHANGED <<case, policy, mode, evidence, model, proposal, token, results, target>>
    BY <1>10, <2>1 DEF Conclude
  <2>3. ActionsOf(proposal)' = ActionsOf(proposal)
    BY <2>2 DEF ActionsOf
  <2>4. QED
    BY <2>2, <2>3
<1>11. CASE Tick
  BY <1>11 DEF Tick
<1>12. CASE UNCHANGED vars
  BY <1>12 DEF vars
<1>13. QED
  BY <1>1, <1>2, <1>3, <1>4, <1>5, <1>6, <1>7, <1>8, <1>9, <1>10, <1>11, <1>12 DEF Next

\* The property reads off the invariant.
LEMMA PathIsWarranted == PathInvariant => EffectIsWarranted
BY PassedIsWarranted DEF PathInvariant, EvidenceHeld, ProposalHeld, TokenHeld, EffectHeld,
   AtGate, EffectIsWarranted

\* Nothing takes effect that the case does not warrant (engine.py process,
\* verifier.py verify, actions.py AuthorizationGate and ActionBroker).
THEOREM EffectAlwaysWarranted == Spec => []EffectIsWarranted
<1>1. PathInvariant /\ [Next]_vars => PathInvariant'
  BY PathStep
<1>2. QED
  BY PathStart, <1>1, PathIsWarranted, PTL DEF Spec

-----------------------------------------------------------------------------
(* The report.                                                             *)

\* The results follow the proposal's actions, one by one, and the effects are
\* the successes among them.
ReportHeld ==
  /\ token.issued => /\ Len(results) =< Len(proposal.actions)
                     /\ \A i \in DOMAIN results : results[i].action = proposal.actions[i]
  /\ token.issued /\ pc = "done" => Len(results) = Len(proposal.actions)
  /\ target = {results[i].action : i \in {j \in DOMAIN results : results[j].success}}
  /\ counterfactual # <<>> => mode # "synthetic_simulation"

\* Before the first step nothing is reported.
LEMMA ReportStart == Init => ReportHeld
BY DEF Init, ReportHeld, NoToken

\* The step that matters: the broker's answer is appended to the results.
LEMMA ReportOfExecute ==
  ASSUME PathInvariant, ReportHeld, Execute
  PROVE  ReportHeld'
<1> DEFINE R == [action : STRING, success : BOOLEAN]
           action == proposal.actions[Len(results) + 1]
           applied == Permits(token, action, now) /\ action \in ReversibleActions \ broken
           last == [action |-> action, success |-> applied]
<1>1. /\ pc = "execute" /\ token.issued /\ Len(results) < Len(proposal.actions)
      /\ results' = Append(results, last)
      /\ target' = IF applied THEN target \cup {action} ELSE target
      /\ UNCHANGED <<pc, mode, proposal, token, counterfactual>>
  BY DEF Execute, PathInvariant, TokenHeld, inputs
<1>2. results \in Seq(R) /\ proposal.actions \in Seq(STRING)
  BY <1>1 DEF PathInvariant, EffectHeld, ProposalHeld, AtGate, WellFormed
<1>3. last.action = action /\ (last.success <=> applied)
  OBVIOUS
<1> HIDE DEF R, action, applied, last
<1>4. /\ DOMAIN results' = DOMAIN results \cup {Len(results) + 1}
      /\ Len(results') = Len(results) + 1
      /\ Len(results) + 1 \notin DOMAIN results
      /\ results'[Len(results) + 1] = last
      /\ \A i \in DOMAIN results : results'[i] = results[i]
  BY <1>1, <1>2
<1>5. /\ Len(results') =< Len(proposal.actions)
      /\ \A i \in DOMAIN results' : results'[i].action = proposal.actions[i]
  <2>1. Len(results') =< Len(proposal.actions)
    BY <1>1, <1>2, <1>4
  <2>2. \A i \in DOMAIN results : results'[i].action = proposal.actions[i]
    BY <1>1, <1>4 DEF ReportHeld
  <2>3. results'[Len(results) + 1].action = proposal.actions[Len(results) + 1]
    BY <1>3, <1>4 DEF action
  <2>4. QED
    BY <1>4, <2>1, <2>2, <2>3
<1>6. target' = {results'[i].action : i \in {j \in DOMAIN results' : results'[j].success}}
  <2>1. target = {results[i].action : i \in {j \in DOMAIN results : results[j].success}}
    BY DEF ReportHeld
  <2>2. {j \in DOMAIN results' : results'[j].success}
          = {j \in DOMAIN results : results[j].success}
            \cup (IF applied THEN {Len(results) + 1} ELSE {})
    BY <1>3, <1>4
  <2>3. {results'[i].action : i \in {j \in DOMAIN results' : results'[j].success}}
          = {results[i].action : i \in {j \in DOMAIN results : results[j].success}}
            \cup (IF applied THEN {action} ELSE {})
    BY <1>3, <1>4, <2>2
  <2>4. QED
    BY <1>1, <2>1, <2>3
<1>7. QED
  BY <1>1, <1>5, <1>6 DEF ReportHeld

\* The report follows the results in every step.
LEMMA ReportStep == PathInvariant /\ ReportHeld /\ [Next]_vars => ReportHeld'
<1> SUFFICES ASSUME PathInvariant, ReportHeld, [Next]_vars PROVE ReportHeld'
  OBVIOUS
<1>1. CASE UNCHANGED <<pc, mode, proposal, token, results, target, counterfactual>>
  BY <1>1 DEF ReportHeld
<1>2. CASE Assess \/ AssessFails \/ Model \/ ModelFails \/ Policy \/ Verification
  <2>1. /\ pc \in {"evidence", "model", "policy", "verifier"} /\ ~token.issued
        /\ UNCHANGED <<mode, token, results, target, counterfactual>>
    BY <1>2 DEF PathInvariant, TokenHeld, Assess, AssessFails, Model, ModelFails, Policy,
                Verification, Raise, inputs
  <2>2. QED
    BY <2>1 DEF ReportHeld
<1>3. CASE Suppress
  <2>1. /\ pc = "gate" /\ ~token.issued /\ mode # "synthetic_simulation"
        /\ UNCHANGED <<mode, token, results, target>>
    BY <1>3 DEF Suppress, IsReadOnly, PathInvariant, TokenHeld, inputs
  <2>2. QED
    BY <2>1 DEF ReportHeld
<1>4. CASE Authorize
  <2>1. /\ pc = "gate" /\ ~token.issued /\ UNCHANGED <<mode, proposal, results, target, counterfactual>>
        /\ pc' # "done"
    BY <1>4 DEF Authorize, PathInvariant, TokenHeld, inputs
  <2>2. results = <<>>
    BY <2>1 DEF PathInvariant, EffectHeld
  <2>3. token'.issued => proposal.actions \in Seq(STRING)
    BY <2>1 DEF PathInvariant, ProposalHeld, AtGate, WellFormed
  <2>4. QED
    BY <2>1, <2>2, <2>3 DEF ReportHeld
<1>5. CASE Execute
  BY <1>5, ReportOfExecute
<1>6. CASE Conclude
  <2>1. /\ pc = "conclude" \/ (pc = "execute" /\ Len(results) = Len(proposal.actions))
        /\ UNCHANGED <<mode, proposal, token, results, target, counterfactual>>
    BY <1>6 DEF Conclude, inputs
  <2>2. token.issued => pc = "execute"
    BY <2>1 DEF PathInvariant, TokenHeld
  <2>3. QED
    BY <2>1, <2>2 DEF ReportHeld
<1>7. QED
  BY <1>1, <1>2, <1>3, <1>4, <1>5, <1>6 DEF Next, Tick, vars, inputs

\* A closed decision reports the effects it had.
LEMMA ReportIsRead == PathInvariant /\ ReportHeld => ReportIsTrue
<1> SUFFICES ASSUME PathInvariant, ReportHeld, pc = "done"
             PROVE  /\ PostAction = "VERIFIED" => results # <<>> /\ target = ActionsOf(proposal)
                    /\ PostAction = "NOT_APPLICABLE" => target = {}
                    /\ counterfactual # <<>> => target = {}
  BY DEF ReportIsTrue, ReportHeld
<1>1. ASSUME PostAction = "VERIFIED" PROVE results # <<>> /\ target = ActionsOf(proposal)
  <2>1. results # <<>> /\ \A i \in DOMAIN results : results[i].success
    BY <1>1 DEF PostAction
  <2>2. token.issued
    BY <2>1 DEF PathInvariant, EffectHeld
  <2>3. /\ proposal.actions \in Seq(STRING) /\ results \in Seq([action : STRING, success : BOOLEAN])
        /\ Len(results) = Len(proposal.actions)
        /\ \A i \in DOMAIN results : results[i].action = proposal.actions[i]
    BY <2>2 DEF PathInvariant, ProposalHeld, EffectHeld, ReportHeld, AtGate, WellFormed
  <2>4. DOMAIN results = DOMAIN proposal.actions
    BY <2>3
  <2>5. target = {results[i].action : i \in DOMAIN results}
    BY <2>1 DEF ReportHeld
  <2>6. QED
    BY <2>1, <2>3, <2>4, <2>5 DEF ActionsOf
<1>2. ASSUME PostAction = "NOT_APPLICABLE" PROVE target = {}
  <2>1. results = <<>>
    BY <1>2 DEF PostAction
  <2>2. QED
    BY <2>1 DEF ReportHeld
<1>3. ASSUME counterfactual # <<>> PROVE target = {}
  BY <1>3 DEF ReportHeld, PathInvariant, TokenHeld, EffectHeld
<1>4. QED
  BY <1>1, <1>2, <1>3

\* What a decision record says of its effects is what happened (engine.py
\* process, actions.py PostActionVerifier.verify).
THEOREM ReportAlwaysTrue == Spec => []ReportIsTrue
<1>1. Init => PathInvariant /\ ReportHeld
  BY PathStart, ReportStart
<1>2. PathInvariant /\ ReportHeld /\ [Next]_vars => PathInvariant' /\ ReportHeld'
  BY PathStep, ReportStep
<1>3. QED
  BY <1>1, <1>2, ReportIsRead, PTL DEF Spec

-----------------------------------------------------------------------------
(* Finite sets, one element after another, and totals over them.            *)

\* A set of numbers that is not empty has a least one.
LEMMA LeastNumber ==
  ASSUME NEW T \in SUBSET Nat, T # {}
  PROVE  \E n \in T : \A m \in T : n <= m
<1>1. PICK n \in T : \A m \in T : ~(<<m, n>> \in OpToRel(<, Nat))
  BY NatLessThanWellFounded, WFMin, Zenon
<1>2. \A m \in T : ~(m < n)
  BY <1>1 DEF OpToRel
<1> QED BY <1>2

\* What holds of 0, and of a number after each, holds of every number.
LEMMA Climb ==
  ASSUME NEW G \in SUBSET Nat, 0 \in G, \A n \in G : n + 1 \in G
  PROVE  G = Nat
<1> SUFFICES ASSUME Nat \ G # {} PROVE FALSE
  OBVIOUS
<1>1. PICK n \in Nat \ G : \A m \in Nat \ G : n <= m
  BY LeastNumber
<1>2. n # 0 /\ n - 1 \in Nat /\ n - 1 \in G
  BY <1>1
<1> QED BY <1>1, <1>2

\* The element a sum over s takes first.
First(s) == CHOOSE x \in s : TRUE

\* A finite set without its first element is finite and one smaller.
LEMMA SmallerFirst ==
  ASSUME NEW S, IsFiniteSet(S), NEW s \in SUBSET S, s # {}
  PROVE  /\ First(s) \in s /\ IsFiniteSet(s) /\ s \ {First(s)} \in SUBSET S
         /\ Cardinality(s) \in Nat \ {0}
         /\ Cardinality(s \ {First(s)}) = Cardinality(s) - 1
<1>1. First(s) \in s
  BY DEF First
<1>2. IsFiniteSet(s)
  BY FS_Subset
<1>3. Cardinality(s) \in Nat /\ Cardinality(s) # 0
  BY <1>2, FS_CardinalityType, FS_EmptySet
<1>4. Cardinality(s \ {First(s)}) = Cardinality(s) - 1
  BY <1>1, <1>2, FS_RemoveElement
<1> QED BY <1>1, <1>2, <1>3, <1>4

\* What holds of {}, and of a set when it does without the set's first
\* element, holds of every finite set.
LEMMA SubsetsOneByOne ==
  ASSUME NEW S, IsFiniteSet(S), NEW G, {} \in G,
         \A s \in SUBSET S : s # {} /\ s \ {First(s)} \in G => s \in G
  PROVE  SUBSET S \subseteq G
<1> DEFINE N == {n \in Nat : \A s \in SUBSET S : Cardinality(s) = n => s \in G}
<1>1. 0 \in N
  BY FS_EmptySet, FS_Subset
<1>2. ASSUME NEW n \in N PROVE n + 1 \in N
  <2>1. ASSUME NEW s \in SUBSET S, Cardinality(s) = n + 1 PROVE s \in G
    <3>1. s # {}
      BY <2>1, FS_EmptySet
    <3>2. s \ {First(s)} \in SUBSET S /\ Cardinality(s \ {First(s)}) = n
      BY <2>1, <3>1, SmallerFirst
    <3> QED BY <3>1, <3>2
  <2> QED BY <2>1
<1>3. N = Nat
  <2> HIDE DEF N
  <2>1. N \in SUBSET Nat
    BY DEF N
  <2> QED BY <1>1, <1>2, <2>1, Climb
<1>4. \A s \in SUBSET S : Cardinality(s) \in Nat
  BY FS_Subset, FS_CardinalityType
<1> QED BY <1>3, <1>4

-----------------------------------------------------------------------------
\* h tells what the values w of the elements of each subset of S add up to.
Adds(h, w, S) ==
  h = [s \in SUBSET S |-> IF s = {} THEN 0 ELSE w[First(s)] + h[s \ {First(s)}]]

\* What h is of one subset.
LEMMA AddsBy ==
  ASSUME NEW S, NEW w, NEW h, Adds(h, w, S)
  PROVE  /\ h[{}] = 0
         /\ \A s \in SUBSET S : s # {} => h[s] = w[First(s)] + h[s \ {First(s)}]
<1> DEFINE F == [s \in SUBSET S |-> IF s = {} THEN 0 ELSE w[First(s)] + h[s \ {First(s)}]]
<1>1. h = F
  BY Zenon DEF Adds
<1>2. F[{}] = 0 /\ \A s \in SUBSET S : s # {} => F[s] = w[First(s)] + h[s \ {First(s)}]
  OBVIOUS
<1> HIDE DEF F
<1> QED BY <1>1, <1>2

\* h does so up to subsets of n elements.
AddsUpto(h, w, S, n) ==
  \A s \in SUBSET S : Cardinality(s) <= n =>
    h[s] = IF s = {} THEN 0 ELSE w[First(s)] + h[s \ {First(s)}]

\* There is such an h for any finite set of integers, and it is integer.
LEMMA AddsUp ==
  ASSUME NEW S, IsFiniteSet(S), NEW w, \A x \in S : w[x] \in Int
  PROVE  /\ \E h : Adds(h, w, S)
         /\ \A h : Adds(h, w, S) => \A s \in SUBSET S : h[s] \in Int
<1> DEFINE N == {n \in Nat : \E h \in [SUBSET S -> Int] : AddsUpto(h, w, S, n)}
<1>0. \A s \in SUBSET S : Cardinality(s) \in Nat /\ (Cardinality(s) = 0 <=> s = {})
  BY FS_Subset, FS_CardinalityType, FS_EmptySet
<1>1. 0 \in N
  <2> PICK h : h = [s \in SUBSET S |-> 0]
    OBVIOUS
  <2>1. AddsUpto(h, w, S, 0)
    BY <1>0 DEF AddsUpto
  <2>2. h \in [SUBSET S -> Int]
    OBVIOUS
  <2> QED BY <2>1, <2>2, Zenon
<1>2. ASSUME NEW n \in N PROVE n + 1 \in N
  <2>1. PICK h \in [SUBSET S -> Int] : AddsUpto(h, w, S, n)
    BY Zenon
  <2> PICK g : g = [s \in SUBSET S |-> IF s = {} THEN 0 ELSE w[First(s)] + h[s \ {First(s)}]]
    OBVIOUS
  <2>2. g \in [SUBSET S -> Int]
    <3>1. \A s \in SUBSET S : s # {} => First(s) \in S /\ s \ {First(s)} \in SUBSET S
      BY SmallerFirst
    <3>2. \A s \in SUBSET S : (IF s = {} THEN 0 ELSE w[First(s)] + h[s \ {First(s)}]) \in Int
      BY <3>1
    <3> QED BY <3>2, Zenon
  <2>3. ASSUME NEW s \in SUBSET S, Cardinality(s) <= n + 1, s # {}
        PROVE  g[s] = w[First(s)] + g[s \ {First(s)}]
    <3> PICK t : t = s \ {First(s)}
      OBVIOUS
    <3>1. t \in SUBSET S /\ Cardinality(t) <= n
      BY <1>0, <2>3, SmallerFirst
    <3>2. h[t] = g[t]
      BY <2>1, <3>1 DEF AddsUpto
    <3> QED BY <2>3, <3>2
  <2>4. AddsUpto(g, w, S, n + 1)
    BY <2>3 DEF AddsUpto
  <2>5. n + 1 \in Nat
    OBVIOUS
  <2> QED BY <2>2, <2>4, <2>5, Zenon
<1>3. N = Nat
  <2> HIDE DEF N
  <2>1. N \in SUBSET Nat
    BY DEF N
  <2> QED BY <1>1, <1>2, <2>1, Climb
<1>4. \E h : Adds(h, w, S)
  <2>0. Cardinality(S) \in N
    BY <1>0, <1>3, Zenon
  <2>1. PICK h \in [SUBSET S -> Int] : AddsUpto(h, w, S, Cardinality(S))
    BY <2>0, Zenon
  <2>2. \A s \in SUBSET S : Cardinality(s) <= Cardinality(S)
    BY FS_Subset
  <2>3. \A s \in SUBSET S : h[s] = IF s = {} THEN 0 ELSE w[First(s)] + h[s \ {First(s)}]
    BY <2>1, <2>2 DEF AddsUpto
  <2>4. Adds(h, w, S)
    BY <2>3 DEF Adds
  <2> QED BY <2>4, Zenon
<1>5. ASSUME NEW h, Adds(h, w, S) PROVE \A s \in SUBSET S : h[s] \in Int
  <2> DEFINE G == {s \in SUBSET S : h[s] \in Int}
  <2>1. {} \in G
    BY <1>5, AddsBy
  <2>2. \A s \in SUBSET S : s # {} /\ s \ {First(s)} \in G => s \in G
    BY <1>5, AddsBy, SmallerFirst
  <2>3. SUBSET S \subseteq G
    <3> HIDE DEF G
    <3> QED BY <2>1, <2>2, SubsetsOneByOne
  <2> QED BY <2>3
<1> QED BY <1>4, <1>5

\* What the values w of the elements of S add up to.
Total(w, S) == (CHOOSE h : Adds(h, w, S))[S]

\* Two such h agree.
LEMMA AddsOneWay ==
  ASSUME NEW S, IsFiniteSet(S), NEW w, NEW h, NEW g, Adds(h, w, S), Adds(g, w, S)
  PROVE  \A s \in SUBSET S : h[s] = g[s]
<1> DEFINE G == {s \in SUBSET S : h[s] = g[s]}
<1>1. {} \in G
  BY AddsBy
<1>2. \A s \in SUBSET S : s # {} /\ s \ {First(s)} \in G => s \in G
  BY AddsBy, SmallerFirst
<1>3. SUBSET S \subseteq G
  <2> HIDE DEF G
  <2> QED BY <1>1, <1>2, SubsetsOneByOne
<1> QED BY <1>3

\* The total is an integer, and any h that adds up gives it.
LEMMA TotalAdds ==
  ASSUME NEW S, IsFiniteSet(S), NEW w, \A x \in S : w[x] \in Int
  PROVE  /\ Total(w, S) \in Int
         /\ \A h : Adds(h, w, S) => h[S] = Total(w, S)
<1> PICK g : g = (CHOOSE h : Adds(h, w, S))
  OBVIOUS
<1>1. Adds(g, w, S)
  BY AddsUp, Zenon
<1>2. g[S] = Total(w, S)
  BY DEF Total
<1>3. g[S] \in Int
  BY <1>1, AddsUp
<1>4. ASSUME NEW h, Adds(h, w, S) PROVE h[S] = g[S]
  BY <1>1, <1>4, AddsOneWay
<1> QED BY <1>2, <1>3, <1>4

\* Ones where P holds add up to the number of places where it does.
LEMMA Counted ==
  ASSUME NEW S, IsFiniteSet(S), NEW T \in SUBSET S, NEW w, \A x \in S : w[x] = IF x \in T THEN 1 ELSE 0
  PROVE  Total(w, S) = Cardinality(T)
<1>0. \A x \in S : w[x] \in Int
  OBVIOUS
<1>1. PICK h : Adds(h, w, S)
  BY <1>0, AddsUp, Zenon
<1> DEFINE G == {s \in SUBSET S : h[s] = Cardinality(s \cap T)}
<1>2. {} \in G
  <2>1. {} \cap T = {}
    OBVIOUS
  <2> QED BY <1>1, <2>1, AddsBy, FS_EmptySet
<1>3. ASSUME NEW s \in SUBSET S, s # {}, s \ {First(s)} \in G PROVE s \in G
  <2> PICK x : x = First(s)
    OBVIOUS
  <2>1. x \in s /\ IsFiniteSet(s \cap T)
    BY <1>3, SmallerFirst, FS_Subset
  <2>2. h[s] = w[x] + Cardinality((s \ {x}) \cap T)
    BY <1>1, <1>3, AddsBy
  <2>3. CASE x \in T
    <3>1. (s \ {x}) \cap T = (s \cap T) \ {x} /\ x \in s \cap T
      BY <2>1, <2>3
    <3>2. Cardinality((s \cap T) \ {x}) = Cardinality(s \cap T) - 1 /\ Cardinality(s \cap T) \in Nat
      BY <2>1, <3>1, FS_RemoveElement, FS_CardinalityType
    <3>3. w[x] = 1
      BY <2>1, <2>3
    <3>4. h[s] = 1 + Cardinality((s \cap T) \ {x})
      BY <2>2, <3>1, <3>3
    <3>5. h[s] = Cardinality(s \cap T)
      BY <3>2, <3>4
    <3> QED BY <3>5
  <2>4. CASE x \notin T
    <3>1. (s \ {x}) \cap T = s \cap T /\ Cardinality(s \cap T) \in Nat
      BY <2>1, <2>4, FS_CardinalityType
    <3>3. w[x] = 0
      BY <2>1, <2>4
    <3>4. h[s] = Cardinality(s \cap T)
      BY <2>2, <3>1, <3>3
    <3> QED BY <3>4
  <2> QED BY <2>3, <2>4
<1>4. SUBSET S \subseteq G
  <2> HIDE DEF G
  <2> QED BY <1>2, <1>3, SubsetsOneByOne
<1>5. h[S] = Cardinality(S \cap T) /\ S \cap T = T
  BY <1>4
<1> QED BY <1>0, <1>1, <1>5, TotalAdds

\* The step of such a sum.
LEMMA AddsStep ==
  ASSUME NEW S, NEW w, NEW h, Adds(h, w, S), NEW s \in SUBSET S, s # {},
         NEW x, x = First(s), NEW r, r = s \ {x}
  PROVE  h[s] = w[x] + h[r]
<1>1. h[s] = w[First(s)] + h[s \ {First(s)}]
  BY AddsBy
<1> QED BY <1>1

\* An event's credit, in its four parts: provenance, integrity, trust, freshness.
InParts(w, u, v, x, y) == w = 21735 * u + 18515 * v + 2415 * x + 126 * y

\* A total of a sum of four parts is the sum of their totals.
LEMMA TotalInParts ==
  ASSUME NEW S, IsFiniteSet(S), NEW w, NEW u, NEW v, NEW x, NEW y,
         \A i \in S : u[i] \in Int /\ v[i] \in Int /\ x[i] \in Int /\ y[i] \in Int,
         \A i \in S : InParts(w[i], u[i], v[i], x[i], y[i])
  PROVE  InParts(Total(w, S), Total(u, S), Total(v, S), Total(x, S), Total(y, S))
<1>0. /\ \A i \in S : w[i] \in Int
      /\ \A i \in S : u[i] \in Int
      /\ \A i \in S : v[i] \in Int
      /\ \A i \in S : x[i] \in Int
      /\ \A i \in S : y[i] \in Int
  BY DEF InParts
<1>1. PICK hw : Adds(hw, w, S)
  BY <1>0, AddsUp, Zenon
<1>2. PICK hu : Adds(hu, u, S)
  BY <1>0, AddsUp, Zenon
<1>3. PICK hv : Adds(hv, v, S)
  BY <1>0, AddsUp, Zenon
<1>4. PICK hx : Adds(hx, x, S)
  BY <1>0, AddsUp, Zenon
<1>5. PICK hy : Adds(hy, y, S)
  BY <1>0, AddsUp, Zenon
<1> DEFINE G == {s \in SUBSET S : InParts(hw[s], hu[s], hv[s], hx[s], hy[s])}
<1>6. {} \in G
  BY <1>1, <1>2, <1>3, <1>4, <1>5, AddsBy DEF InParts
<1>7. ASSUME NEW s \in SUBSET S, s # {}, s \ {First(s)} \in G PROVE s \in G
  <2> PICK z : z = First(s)
    OBVIOUS
  <2> PICK t : t = s \ {z}
    OBVIOUS
  <2>1. z \in S /\ t \in SUBSET S
    BY <1>7, SmallerFirst
  <2>2. /\ hw[s] = w[z] + hw[t] /\ hu[s] = u[z] + hu[t] /\ hv[s] = v[z] + hv[t]
        /\ hx[s] = x[z] + hx[t] /\ hy[s] = y[z] + hy[t]
    <3>1. s # {}
      BY <1>7
    <3> HIDE DEF G
    <3>2. hw[s] = w[z] + hw[t]
      BY <1>1, <3>1, AddsStep
    <3>3. hu[s] = u[z] + hu[t]
      BY <1>2, <3>1, AddsStep
    <3>4. hv[s] = v[z] + hv[t]
      BY <1>3, <3>1, AddsStep
    <3>5. hx[s] = x[z] + hx[t]
      BY <1>4, <3>1, AddsStep
    <3>6. hy[s] = y[z] + hy[t]
      BY <1>5, <3>1, AddsStep
    <3> QED BY <3>2, <3>3, <3>4, <3>5, <3>6
  <2>31. hu[t] \in Int
    BY <1>0, <1>2, <2>1, AddsUp, Zenon
  <2>32. hv[t] \in Int
    BY <1>0, <1>3, <2>1, AddsUp, Zenon
  <2>33. hx[t] \in Int
    BY <1>0, <1>4, <2>1, AddsUp, Zenon
  <2>34. hy[t] \in Int
    BY <1>0, <1>5, <2>1, AddsUp, Zenon
  <2>3. hu[t] \in Int /\ hv[t] \in Int /\ hx[t] \in Int /\ hy[t] \in Int
    BY <2>31, <2>32, <2>33, <2>34
  <2>4. InParts(hw[t], hu[t], hv[t], hx[t], hy[t])
    BY <1>7
  <2>5. /\ u[z] \in Int /\ v[z] \in Int /\ x[z] \in Int /\ y[z] \in Int
        /\ InParts(w[z], u[z], v[z], x[z], y[z])
    BY <2>1
  <2>6. InParts(hw[s], hu[s], hv[s], hx[s], hy[s])
    BY <2>2, <2>3, <2>4, <2>5 DEF InParts
  <2> QED BY <2>6
<1>8. SUBSET S \subseteq G
  <2> HIDE DEF G
  <2> QED BY <1>6, <1>7, SubsetsOneByOne
<1>9. InParts(hw[S], hu[S], hv[S], hx[S], hy[S])
  BY <1>8
<1>10. hw[S] = Total(w, S) /\ hu[S] = Total(u, S)
  BY <1>0, <1>1, <1>2, TotalAdds
<1>11. hv[S] = Total(v, S) /\ hx[S] = Total(x, S)
  BY <1>0, <1>3, <1>4, TotalAdds
<1>12. hy[S] = Total(y, S)
  BY <1>0, <1>5, TotalAdds
<1> QED BY <1>9, <1>10, <1>11, <1>12

\* The values of a function over a finite set are finitely many.
LEMMA ImageFinite ==
  ASSUME NEW S, IsFiniteSet(S), NEW g
  PROVE  IsFiniteSet({g[i] : i \in S})
<1> DEFINE G == {s \in SUBSET S : IsFiniteSet({g[i] : i \in s})}
<1>1. {} \in G
  <2>1. {g[i] : i \in {}} = {}
    OBVIOUS
  <2> QED BY <2>1, FS_EmptySet
<1>2. ASSUME NEW s \in SUBSET S, s # {}, s \ {First(s)} \in G PROVE s \in G
  <2> PICK x : x = First(s)
    OBVIOUS
  <2>1. x \in s
    BY <1>2, SmallerFirst
  <2> PICK r : r = s \ {x}
    OBVIOUS
  <2>2. IsFiniteSet({g[i] : i \in r})
    BY <1>2
  <2>3. {g[i] : i \in s} = {g[i] : i \in r} \cup {g[x]}
    BY <2>1
  <2>4. IsFiniteSet({g[i] : i \in s})
    <3> PICK A : A = {g[i] : i \in r}
      OBVIOUS
    <3>1. IsFiniteSet(A \cup {g[x]})
      BY <2>2, FS_AddElement
    <3> QED BY <2>3, <3>1
  <2> QED BY <2>4
<1>3. SUBSET S \subseteq G
  <2> HIDE DEF G
  <2> QED BY <1>1, <1>2, SubsetsOneByOne
<1> QED BY <1>3

-----------------------------------------------------------------------------
(* The evidence and the logit, as sums.                                     *)

\* What is summed: freshness, trust, credit, and weighed values.
FreshnessOf(c) == [i \in Ids(c) |-> Freshness(c.events[i])]
TrustOf(c) == [i \in Ids(c) |-> c.events[i].trust]
CreditOf(c) == [i \in Ids(c) |-> RefCredit(c.events[i])]

WeighedBy(v) == [f \in Features |-> Weight[f] * v[f]]

\* The path's sum of freshness is a total over the events.
LEMMA FreshnessTotal ==
  ASSUME NEW c, IsFiniteSet(Ids(c)), \A i \in Ids(c) : Freshness(c.events[i]) \in Int
  PROVE  MapThenSumSet(LAMBDA i : Freshness(c.events[i]), Ids(c)) = Total(FreshnessOf(c), Ids(c))
<1> PICK S : S = Ids(c)
  OBVIOUS
<1> PICK w : w = FreshnessOf(c)
  OBVIOUS
<1>1. \A x \in S : w[x] = Freshness(c.events[x]) /\ w[x] \in Int
  BY DEF FreshnessOf
<1>2. \A h : Adds(h, w, S) <=>
        h = [s \in SUBSET S |-> IF s = {} THEN 0
                                ELSE Freshness(c.events[CHOOSE y \in s : TRUE])
                                     + h[s \ {CHOOSE y \in s : TRUE}]]
  <2> TAKE h
  <2>1. \A s \in SUBSET S : s # {} => w[First(s)] = Freshness(c.events[CHOOSE y \in s : TRUE])
    BY <1>1 DEF First
  <2> QED BY <2>1 DEF Adds, First
<1> DEFINE Is(h) == h = [s \in SUBSET S |-> IF s = {} THEN 0
                                ELSE Freshness(c.events[CHOOSE y \in s : TRUE])
                                     + h[s \ {CHOOSE y \in s : TRUE}]]
<1>3. MapThenSumSet(LAMBDA i : Freshness(c.events[i]), S) = (CHOOSE h : Is(h))[S]
  BY DEF MapThenSumSet, MapThenFoldSet
<1>4. \A h : Adds(h, w, S) <=> Is(h)
  BY <1>2
<1> HIDE DEF Is
<1>5. \E h : Adds(h, w, S)
  BY <1>1, AddsUp
<1>6. Adds(CHOOSE h : Is(h), w, S)
  BY <1>4, <1>5
<1> QED BY <1>1, <1>3, <1>6, TotalAdds

\* So is its sum of trust.
LEMMA TrustTotal ==
  ASSUME NEW c, IsFiniteSet(Ids(c)), \A i \in Ids(c) : c.events[i].trust \in Int
  PROVE  MapThenSumSet(LAMBDA i : c.events[i].trust, Ids(c)) = Total(TrustOf(c), Ids(c))
<1> PICK S : S = Ids(c)
  OBVIOUS
<1> PICK w : w = TrustOf(c)
  OBVIOUS
<1>1. \A x \in S : w[x] = c.events[x].trust /\ w[x] \in Int
  BY DEF TrustOf
<1>2. \A h : Adds(h, w, S) <=>
        h = [s \in SUBSET S |-> IF s = {} THEN 0
                                ELSE c.events[CHOOSE y \in s : TRUE].trust
                                     + h[s \ {CHOOSE y \in s : TRUE}]]
  <2> TAKE h
  <2>1. \A s \in SUBSET S : s # {} => w[First(s)] = c.events[CHOOSE y \in s : TRUE].trust
    BY <1>1 DEF First
  <2> QED BY <2>1 DEF Adds, First
<1> DEFINE Is(h) == h = [s \in SUBSET S |-> IF s = {} THEN 0
                                ELSE c.events[CHOOSE y \in s : TRUE].trust
                                     + h[s \ {CHOOSE y \in s : TRUE}]]
<1>3. MapThenSumSet(LAMBDA i : c.events[i].trust, S) = (CHOOSE h : Is(h))[S]
  BY DEF MapThenSumSet, MapThenFoldSet
<1>4. \A h : Adds(h, w, S) <=> Is(h)
  BY <1>2
<1> HIDE DEF Is
<1>5. \E h : Adds(h, w, S)
  BY <1>1, AddsUp
<1>6. Adds(CHOOSE h : Is(h), w, S)
  BY <1>4, <1>5
<1> QED BY <1>1, <1>3, <1>6, TotalAdds

\* And the reference's sum of credits.
LEMMA CreditTotal ==
  ASSUME NEW c, IsFiniteSet(Ids(c)), \A i \in Ids(c) : RefCredit(c.events[i]) \in Int
  PROVE  MapThenSumSet(LAMBDA i : RefCredit(c.events[i]), Ids(c)) = Total(CreditOf(c), Ids(c))
<1> PICK S : S = Ids(c)
  OBVIOUS
<1> PICK w : w = CreditOf(c)
  OBVIOUS
<1>1. \A x \in S : w[x] = RefCredit(c.events[x]) /\ w[x] \in Int
  BY DEF CreditOf
<1>2. \A h : Adds(h, w, S) <=>
        h = [s \in SUBSET S |-> IF s = {} THEN 0
                                ELSE RefCredit(c.events[CHOOSE y \in s : TRUE])
                                     + h[s \ {CHOOSE y \in s : TRUE}]]
  <2> TAKE h
  <2>1. \A s \in SUBSET S : s # {} => w[First(s)] = RefCredit(c.events[CHOOSE y \in s : TRUE])
    BY <1>1 DEF First
  <2> QED BY <2>1 DEF Adds, First
<1> DEFINE Is(h) == h = [s \in SUBSET S |-> IF s = {} THEN 0
                                ELSE RefCredit(c.events[CHOOSE y \in s : TRUE])
                                     + h[s \ {CHOOSE y \in s : TRUE}]]
<1>3. MapThenSumSet(LAMBDA i : RefCredit(c.events[i]), S) = (CHOOSE h : Is(h))[S]
  BY DEF MapThenSumSet, MapThenFoldSet
<1>4. \A h : Adds(h, w, S) <=> Is(h)
  BY <1>2
<1> HIDE DEF Is
<1>5. \E h : Adds(h, w, S)
  BY <1>1, AddsUp
<1>6. Adds(CHOOSE h : Is(h), w, S)
  BY <1>4, <1>5
<1> QED BY <1>1, <1>3, <1>6, TotalAdds

\* The logit of a weighed sum, for the path and for the reference.
LogitOf(sum) == Clamp(Intercept + sum + Clip, 2 * Clip) - Clip

\* The path's logit is that of a total over the features.
LEMMA LogitTotal ==
  ASSUME NEW v, IsFiniteSet(Features), \A f \in Features : Weight[f] \in Int /\ v[f] \in Int
  PROVE  Logit(v) = LogitOf(Total(WeighedBy(v), Features))
<1> PICK w : w = WeighedBy(v)
  OBVIOUS
<1>1. \A x \in Features : w[x] = Weight[x] * v[x] /\ w[x] \in Int
  BY DEF WeighedBy
<1>2. \A h : Adds(h, w, Features) <=>
        h = [s \in SUBSET Features |-> IF s = {} THEN 0
                                ELSE Weight[CHOOSE y \in s : TRUE] * v[CHOOSE y \in s : TRUE]
                                     + h[s \ {CHOOSE y \in s : TRUE}]]
  <2> TAKE h
  <2>1. \A s \in SUBSET Features : s # {} => w[First(s)] = Weight[CHOOSE y \in s : TRUE] * v[CHOOSE y \in s : TRUE]
    BY <1>1 DEF First
  <2> QED BY <2>1 DEF Adds, First
<1> DEFINE Is(h) == h = [s \in SUBSET Features |-> IF s = {} THEN 0
                                ELSE Weight[CHOOSE y \in s : TRUE] * v[CHOOSE y \in s : TRUE]
                                     + h[s \ {CHOOSE y \in s : TRUE}]]
<1>3. MapThenSumSet(LAMBDA f : Weight[f] * v[f], Features) = (CHOOSE h : Is(h))[Features]
  BY DEF MapThenSumSet, MapThenFoldSet
<1>4. \A h : Adds(h, w, Features) <=> Is(h)
  BY <1>2
<1> HIDE DEF Is
<1>5. \E h : Adds(h, w, Features)
  BY <1>1, AddsUp
<1>6. Adds(CHOOSE h : Is(h), w, Features)
  BY <1>4, <1>5
<1>7. IsFiniteSet(Features) /\ \A x \in Features : w[x] \in Int
  BY <1>1
<1>8. (CHOOSE h : Is(h))[Features] = Total(w, Features)
  BY <1>6, <1>7, TotalAdds, Zenon
<1> QED BY <1>3, <1>8 DEF Logit, LogitOf, MapThenSumSet, MapThenFoldSet

RefLogitOf(sum) == Max({-300000, Min({300000, Intercept + sum})})

\* So is the reference's.
LEMMA RefLogitTotal ==
  ASSUME NEW c, IsFiniteSet(Features), \A f \in Features : Weight[f] \in Int /\ RefFeatures(c)[f] \in Int
  PROVE  RefModel(c).logit = RefLogitOf(Total(WeighedBy(RefFeatures(c)), Features))
<1> PICK w : w = WeighedBy(RefFeatures(c))
  OBVIOUS
<1>1. \A x \in Features : w[x] = Weight[x] * RefFeatures(c)[x] /\ w[x] = RefFeatures(c)[x] * Weight[x] /\ w[x] \in Int
  BY DEF WeighedBy
<1>2. \A h : Adds(h, w, Features) <=>
        h = [s \in SUBSET Features |-> IF s = {} THEN 0
                                ELSE RefFeatures(c)[CHOOSE y \in s : TRUE] * Weight[CHOOSE y \in s : TRUE]
                                     + h[s \ {CHOOSE y \in s : TRUE}]]
  <2> TAKE h
  <2>1. \A s \in SUBSET Features : s # {} => w[First(s)] = RefFeatures(c)[CHOOSE y \in s : TRUE] * Weight[CHOOSE y \in s : TRUE]
    BY <1>1 DEF First
  <2> QED BY <2>1 DEF Adds, First
<1> DEFINE Is(h) == h = [s \in SUBSET Features |-> IF s = {} THEN 0
                                ELSE RefFeatures(c)[CHOOSE y \in s : TRUE] * Weight[CHOOSE y \in s : TRUE]
                                     + h[s \ {CHOOSE y \in s : TRUE}]]
<1>4. \A h : Adds(h, w, Features) <=> Is(h)
  BY <1>2
<1> HIDE DEF Is
<1>5. \E h : Adds(h, w, Features)
  BY <1>1, AddsUp
<1>6. Adds(CHOOSE h : Is(h), w, Features)
  BY <1>4, <1>5
<1>7. IsFiniteSet(Features) /\ \A x \in Features : w[x] \in Int
  BY <1>1
<1>8. (CHOOSE h : Is(h))[Features] = Total(w, Features)
  BY <1>6, <1>7, TotalAdds, Zenon
<1>9. RefModel(c).logit = RefLogitOf((CHOOSE h : Is(h))[Features])
  BY DEF RefModel, RefLogitOf, MapThenSumSet, MapThenFoldSet, Is
<1> QED BY <1>8, <1>9

\* The extremes of two numbers.
LEMMA OfTwo ==
  ASSUME NEW a \in Int, NEW b \in Int
  PROVE  /\ Max({a, b}) = IF a >= b THEN a ELSE b
         /\ Min({a, b}) = IF a <= b THEN a ELSE b
<1>1. \E x \in {a, b} : \A y \in {a, b} : x >= y
  OBVIOUS
<1>2. \E x \in {a, b} : \A y \in {a, b} : x <= y
  OBVIOUS
<1>3. Max({a, b}) \in {a, b} /\ \A y \in {a, b} : Max({a, b}) >= y
  BY <1>1 DEF Max
<1>4. Min({a, b}) \in {a, b} /\ \A y \in {a, b} : Min({a, b}) <= y
  BY <1>2 DEF Min
<1> QED BY <1>3, <1>4

\* Both ways of cutting a number to a range are the same.
LEMMA CutIsClamp ==
  ASSUME NEW x \in Int, NEW top \in Nat
  PROVE  /\ Max({0, Min({x, top})}) = Clamp(x, top)
         /\ Clamp(x, top) \in 0..top
<1>1. Min({x, top}) = IF x <= top THEN x ELSE top
  BY OfTwo
<1>2. Min({x, top}) \in Int
  BY <1>1
<1> PICK cut \in Int : cut = Min({x, top})
  BY <1>2
<1>3. Max({0, cut}) = IF 0 >= cut THEN 0 ELSE cut
  <2>1. 0 \in Int
    OBVIOUS
  <2> QED BY <2>1, OfTwo, Zenon
<1> QED BY <1>1, <1>3 DEF Clamp

\* The logit is cut to the same range by both.
LEMMA LogitsAgree ==
  ASSUME NEW sum \in Int, Intercept \in Int
  PROVE  RefLogitOf(sum) = LogitOf(sum) /\ LogitOf(sum) \in Int
         /\ -300000 <= LogitOf(sum) /\ LogitOf(sum) <= 300000
<1> PICK x \in Int : x = Intercept + sum
  OBVIOUS
<1>1. Min({300000, x}) = IF 300000 <= x THEN 300000 ELSE x
  <2> PICK top \in Int : top = 300000
    OBVIOUS
  <2>1. Min({top, x}) = IF top <= x THEN top ELSE x
    BY OfTwo
  <2> QED BY <2>1
<1>2. Min({300000, x}) \in Int /\ -300000 \in Int
  BY <1>1
<1>3. Max({-300000, Min({300000, x})})
        = IF -300000 >= Min({300000, x}) THEN -300000 ELSE Min({300000, x})
  BY <1>2, OfTwo
<1>4. Clamp(x + Clip, 2 * Clip) - Clip = IF x < -300000 THEN -300000 ELSE IF x > 300000 THEN 300000 ELSE x
  BY DEF Clamp, Clip
<1>5. LogitOf(sum) = IF x < -300000 THEN -300000 ELSE IF x > 300000 THEN 300000 ELSE x
  BY <1>4 DEF LogitOf
<1>6. RefLogitOf(sum) = IF -300000 >= Min({300000, x}) THEN -300000 ELSE Min({300000, x})
  BY <1>3 DEF RefLogitOf
<1>7. RefLogitOf(sum) = LogitOf(sum)
  BY <1>1, <1>5, <1>6
<1>8. LogitOf(sum) \in Int /\ -300000 <= LogitOf(sum) /\ LogitOf(sum) <= 300000
  BY <1>5
<1> QED BY <1>7, <1>8

\* An event is fresh to both by the same rule.
LEMMA FreshnessIs ==
  ASSUME NEW e, e.delay \in Int
  PROVE  /\ Freshness(e) = IF e.delay <= 5 THEN 115 ELSE IF e.delay >= 120 THEN 0 ELSE 120 - e.delay
         /\ Freshness(e) \in Int
BY DEF Freshness, Clamp

\* The events of a case, numbered.
LEMMA Numbered ==
  ASSUME NEW c, c.events \in Seq(Event)
  PROVE  /\ Ids(c) = 1..Len(c.events) /\ IsFiniteSet(Ids(c))
         /\ Len(c.events) \in Nat /\ Cardinality(Ids(c)) = Len(c.events)
         /\ \A i \in Ids(c) : c.events[i] \in Event
<1>1. Ids(c) = 1..Len(c.events) /\ Len(c.events) \in Nat
  BY DEF Ids
<1>2. IsFiniteSet(1..Len(c.events)) /\ Cardinality(1..Len(c.events)) = Len(c.events)
  BY <1>1, FS_Interval
<1>3. \A i \in Ids(c) : c.events[i] \in Event
  BY <1>1
<1> QED BY <1>1, <1>2, <1>3

\* What one event is credited with, in its four parts.
LEMMA CreditInParts ==
  ASSUME NEW e \in Event
  PROVE  /\ InParts(RefCredit(e), IF e.provenance THEN 1 ELSE 0, IF e.verified THEN 1 ELSE 0,
                    e.trust, Freshness(e))
         /\ Freshness(e) \in Int /\ e.trust \in Int
<1>1. e.delay \in Int /\ e.trust \in Int /\ e.provenance \in BOOLEAN /\ e.verified \in BOOLEAN
  BY DEF Event
<1>2. Freshness(e) = IF e.delay <= 5 THEN 115 ELSE IF e.delay >= 120 THEN 0 ELSE 120 - e.delay
  BY <1>1, FreshnessIs
<1>3. Freshness(e) \in Int
  BY <1>1, FreshnessIs
<1> PICK f \in Int : f = Freshness(e)
  BY <1>3
<1>4. f = IF e.delay <= 5 THEN 115 ELSE IF e.delay >= 120 THEN 0 ELSE 120 - e.delay
  BY <1>2
<1>5. RefCredit(e) = (IF e.provenance THEN 27 * 805 ELSE 0) + (IF e.verified THEN 23 * 805 ELSE 0)
                     + 161 * 15 * e.trust + 126 * f
  BY <1>4 DEF RefCredit
<1>6. InParts(RefCredit(e), IF e.provenance THEN 1 ELSE 0, IF e.verified THEN 1 ELSE 0, e.trust, f)
  BY <1>1, <1>5 DEF InParts
<1> QED BY <1>1, <1>3, <1>6

\* The credits of a case add up to what its counts and totals make.
LEMMA CreditOfCase ==
  ASSUME NEW c, c.events \in Seq(Event)
  PROVE  /\ InParts(Total(CreditOf(c), Ids(c)), WithProvenance(c), Verified(c),
                    Total(TrustOf(c), Ids(c)), Total(FreshnessOf(c), Ids(c)))
         /\ \A i \in Ids(c) : /\ RefCredit(c.events[i]) \in Int /\ Freshness(c.events[i]) \in Int
                              /\ c.events[i].trust \in Int
         /\ Total(TrustOf(c), Ids(c)) \in Int /\ Total(FreshnessOf(c), Ids(c)) \in Int
<1> PICK S : S = Ids(c)
  OBVIOUS
<1>1. IsFiniteSet(S) /\ \A i \in S : c.events[i] \in Event
  BY Numbered
<1> DEFINE u == [i \in S |-> IF c.events[i].provenance THEN 1 ELSE 0]
           v == [i \in S |-> IF c.events[i].verified THEN 1 ELSE 0]
<1>2. \A i \in S : /\ InParts(CreditOf(c)[i], u[i], v[i], TrustOf(c)[i], FreshnessOf(c)[i])
                   /\ TrustOf(c)[i] \in Int /\ FreshnessOf(c)[i] \in Int
                   /\ u[i] \in Int /\ v[i] \in Int
  BY <1>1, CreditInParts DEF CreditOf, TrustOf, FreshnessOf
<1>3. \A i \in S : CreditOf(c)[i] \in Int
  BY <1>2 DEF InParts
<1>4. Total(u, S) = WithProvenance(c)
  <2> DEFINE T == {i \in S : c.events[i].provenance}
  <2>1. T \in SUBSET S /\ \A x \in S : u[x] = IF x \in T THEN 1 ELSE 0
    OBVIOUS
  <2>2. WithProvenance(c) = Cardinality(T)
    BY DEF WithProvenance, IdsWhere
  <2> HIDE DEF T, u
  <2> QED BY <1>1, <2>1, <2>2, Counted
<1>5. Total(v, S) = Verified(c)
  <2> DEFINE T == {i \in S : c.events[i].verified}
  <2>1. T \in SUBSET S /\ \A x \in S : v[x] = IF x \in T THEN 1 ELSE 0
    OBVIOUS
  <2>2. Verified(c) = Cardinality(T)
    BY DEF Verified, IdsWhere
  <2> HIDE DEF T, v
  <2> QED BY <1>1, <2>1, <2>2, Counted
<1> HIDE DEF u, v
<1>6. InParts(Total(CreditOf(c), S), Total(u, S), Total(v, S), Total(TrustOf(c), S), Total(FreshnessOf(c), S))
  <2>1. /\ \A i \in S : u[i] \in Int /\ v[i] \in Int /\ TrustOf(c)[i] \in Int /\ FreshnessOf(c)[i] \in Int
        /\ \A i \in S : InParts(CreditOf(c)[i], u[i], v[i], TrustOf(c)[i], FreshnessOf(c)[i])
    BY <1>2
  <2> QED BY <1>1, <2>1, TotalInParts, Zenon
<1>7. Total(TrustOf(c), S) \in Int /\ Total(FreshnessOf(c), S) \in Int
  BY <1>1, <1>2, TotalAdds
<1>8. \A i \in S : CreditOf(c)[i] = RefCredit(c.events[i]) /\ FreshnessOf(c)[i] = Freshness(c.events[i])
                   /\ TrustOf(c)[i] = c.events[i].trust
  BY DEF CreditOf, FreshnessOf, TrustOf
<1>9. \A i \in S : /\ RefCredit(c.events[i]) \in Int /\ Freshness(c.events[i]) \in Int
                   /\ c.events[i].trust \in Int
  BY <1>2, <1>3, <1>8
<1> QED BY <1>4, <1>5, <1>6, <1>7, <1>9

\* Penalties and diversity, as both count them.
PenaltyOf(c) == Clamp(10 * Conflicts(c), 25) + (IF Poisoned(c) # {} THEN 30 ELSE 0)
                + (IF Cardinality(Missing(c)) >= 2 THEN 12 ELSE 0)

\* The sources of a case are finitely many.
LEMMA SourcesFinite ==
  ASSUME NEW c, c.events \in Seq(Event)
  PROVE  /\ IsFiniteSet(Sources(c)) /\ Cardinality(Sources(c)) \in Nat
         /\ IsFiniteSet(Missing(c)) /\ Cardinality(Missing(c)) \in Nat
         /\ Conflicts(c) \in Nat /\ WithProvenance(c) \in Nat /\ Verified(c) \in Nat
         /\ IsFiniteSet(Supporting(c)) /\ Cardinality(Supporting(c)) \in Nat
<1>1. IsFiniteSet(Ids(c))
  BY Numbered
<1>2. IsFiniteSet(Sources(c))
  <2> DEFINE g == [i \in Ids(c) |-> c.events[i].source]
  <2>1. Sources(c) = {g[i] : i \in Ids(c)}
    BY DEF Sources
  <2> HIDE DEF g
  <2> QED BY <1>1, <2>1, ImageFinite
<1>3. IsFiniteSet(ExpectedSources)
  <2>1. ExpectedSources = (((({} \cup {"asset_inventory"}) \cup {"identity"}) \cup {"network"})
          \cup {"endpoint"}) \cup {"threat_intel"} \cup {"change_management"} \cup {"user_context"}
    BY DEF ExpectedSources
  <2> QED BY <2>1, FS_EmptySet, FS_AddElement, ZenonT(60)
<1>4. IsFiniteSet(Missing(c))
  <2>1. Missing(c) \in SUBSET ExpectedSources
    BY DEF Missing
  <2> QED BY <1>3, <2>1, FS_Subset
<1>5. \A T \in SUBSET Ids(c) : IsFiniteSet(T) /\ Cardinality(T) \in Nat
  BY <1>1, FS_Subset, FS_CardinalityType
<1>6. Conflicts(c) \in Nat /\ WithProvenance(c) \in Nat /\ Verified(c) \in Nat
  BY <1>5 DEF Conflicts, WithProvenance, Verified, IdsWhere
<1>7. IsFiniteSet(Supporting(c))
  <2>1. Supporting(c) \in SUBSET Sources(c)
    BY DEF Supporting, Sources, Showing, IdsWhere
  <2> QED BY <1>2, <2>1, FS_Subset
<1> QED BY <1>2, <1>4, <1>6, <1>7, FS_CardinalityType

\* What a case shows, as the reference looks for it.
LEMMA EvidenceParts ==
  ASSUME NEW c, c.events \in Seq(Event)
  PROVE  LET e == RefEvidence(c) IN
         /\ e.count = Cardinality(Ids(c))
         /\ e.provenance = WithProvenance(c) /\ e.verified = Verified(c)
         /\ e.supporting = Cardinality(Supporting(c))
         /\ e.positive = Showing(c, PositiveIndicators) /\ e.benign = Showing(c, BenignIndicators)
         /\ e.missing = Missing(c) /\ e.conflicts = Conflicts(c) /\ e.poisoned = Poisoned(c)
<1> PICK e : e = RefEvidence(c)
  OBVIOUS
<1>1. 1..Len(c.events) = Ids(c) /\ Len(c.events) = Cardinality(Ids(c))
  BY Numbered
<1>2. e.count = Len(c.events)
  BY DEF RefEvidence
<1>3. e.provenance = WithProvenance(c)
  <2>1. e.provenance = Cardinality({i \in 1..Len(c.events) : c.events[i].provenance})
    BY DEF RefEvidence, Quantify
  <2> QED BY <1>1, <2>1 DEF WithProvenance, IdsWhere
<1>4. e.verified = Verified(c)
  <2>1. e.verified = Cardinality({i \in 1..Len(c.events) : c.events[i].verified})
    BY DEF RefEvidence, Quantify
  <2> QED BY <1>1, <2>1 DEF Verified, IdsWhere
<1>5. e.conflicts = Conflicts(c)
  <2>1. e.conflicts = Cardinality({i \in 1..Len(c.events) : "source_conflict" \in c.events[i].shows})
    BY DEF RefEvidence, Quantify
  <2> QED BY <1>1, <2>1 DEF Conflicts, IdsWhere
<1>6. e.positive = Showing(c, PositiveIndicators)
  <2>1. e.positive = {i \in 1..Len(c.events) : \E f \in RefPositive : f \in c.events[i].shows}
    BY DEF RefEvidence
  <2>2. RefPositive = PositiveIndicators
    BY DEF RefPositive, PositiveIndicators
  <2> QED BY <1>1, <2>1, <2>2 DEF Showing, IdsWhere
<1>7. e.benign = Showing(c, BenignIndicators)
  <2>1. e.benign = {i \in 1..Len(c.events) : \E f \in RefBenign : f \in c.events[i].shows}
    BY DEF RefEvidence
  <2>2. RefBenign = BenignIndicators
    BY DEF RefBenign, BenignIndicators
  <2> QED BY <1>1, <2>1, <2>2 DEF Showing, IdsWhere
<1>8. e.supporting = Cardinality(Supporting(c))
  <2>1. e.supporting = Cardinality({c.events[i].source : i \in e.positive})
    BY DEF RefEvidence
  <2> QED BY <1>6, <2>1 DEF Supporting
<1>9. e.missing = Missing(c)
  <2>1. e.missing = RefExpectedSources \ {c.events[i].source : i \in 1..Len(c.events)}
    BY DEF RefEvidence
  <2>2. RefExpectedSources = ExpectedSources
    BY DEF RefExpectedSources, ExpectedSources
  <2> QED BY <1>1, <2>1, <2>2 DEF Missing, Sources
<1>10. e.poisoned = Poisoned(c)
  <2>1. e.poisoned = {i \in 1..Len(c.events) : c.events[i].instructional}
    BY DEF RefEvidence
  <2> QED BY <1>1, <2>1 DEF Poisoned, IdsWhere
<1> QED BY <1>1, <1>2, <1>3, <1>4, <1>5, <1>6, <1>7, <1>8, <1>9, <1>10

\* The reference's diversity and penalties are the path's.
LEMMA DiversityAgrees ==
  ASSUME NEW src \in Nat, NEW div, div = Clamp(src, 7)
  PROVE  (IF src > 7 THEN 7 ELSE src) = div /\ div \in Nat
BY DEF Clamp

PathPenalty(C, poison, mis) ==
  Clamp(10 * C, 25) + (IF poison THEN 30 ELSE 0) + (IF mis >= 2 THEN 12 ELSE 0)
RefPenalty(C, poison, mis) ==
  Min({25, 10 * C}) + (IF poison THEN 30 ELSE 0) + (IF mis < 2 THEN 0 ELSE 12)

LEMMA PenaltiesAgree ==
  ASSUME NEW C \in Nat, NEW mis \in Nat, NEW poison \in BOOLEAN
  PROVE  /\ RefPenalty(C, poison, mis) = PathPenalty(C, poison, mis)
         /\ PathPenalty(C, poison, mis) \in Nat
<1> PICK C10 \in Int : C10 = 10 * C
  OBVIOUS
<1>1. Min({25, C10}) = IF 25 <= C10 THEN 25 ELSE C10
  <2> PICK k \in Int : k = 25
    OBVIOUS
  <2>1. Min({k, C10}) = IF k <= C10 THEN k ELSE C10
    BY OfTwo
  <2> QED BY <2>1
<1>2. Clamp(C10, 25) = IF 25 <= C10 THEN 25 ELSE C10
  BY DEF Clamp
<1> PICK least, cut : least = Min({25, C10}) /\ cut = Clamp(C10, 25)
  OBVIOUS
<1>3. least = cut /\ cut \in Nat
  BY <1>1, <1>2
<1>4. /\ PathPenalty(C, poison, mis) = cut + (IF poison THEN 30 ELSE 0) + (IF mis >= 2 THEN 12 ELSE 0)
      /\ RefPenalty(C, poison, mis) = least + (IF poison THEN 30 ELSE 0) + (IF mis < 2 THEN 0 ELSE 12)
  BY DEF PathPenalty, RefPenalty
<1> QED BY <1>3, <1>4

\* The sums of the two, before they are cut, and what they are made of.
PathSum(n, P, V, trust, fresh, div, pen) ==
  27 * 805 * P + 23 * 805 * V + 18 * 7 * fresh + 17 * 115 * n * div
  + 15 * 161 * trust - 805 * n * pen
PathTop(n) == 100 * 805 * n
RefSum(n, credit, div, pen) == 17 * 115 * n * div + credit - 805 * pen * n
RefTop(n) == 80500 * n
QualityParts(n, P, V, trust, fresh, div, pen, credit) ==
  /\ n \in Nat /\ P \in Nat /\ V \in Nat /\ div \in Nat /\ pen \in Nat
  /\ trust \in Int /\ fresh \in Int
  /\ InParts(credit, P, V, trust, fresh)

\* The sums agree.
LEMMA SumsAgree ==
  ASSUME NEW n, NEW P, NEW V, NEW trust, NEW fresh, NEW div, NEW pen, NEW credit,
         QualityParts(n, P, V, trust, fresh, div, pen, credit)
  PROVE  /\ RefSum(n, credit, div, pen) = PathSum(n, P, V, trust, fresh, div, pen)
         /\ RefSum(n, credit, div, pen) \in Int
         /\ RefTop(n) = PathTop(n) /\ RefTop(n) \in Nat
<1>0. /\ n \in Nat /\ P \in Nat /\ V \in Nat /\ div \in Nat /\ pen \in Nat
      /\ trust \in Int /\ fresh \in Int
      /\ InParts(credit, P, V, trust, fresh)
  BY DEF QualityParts
<1> PICK spread \in Int : spread = n * div
  BY <1>0
<1> PICK loss \in Int : loss = n * pen
  BY <1>0
<1>1. credit = 21735 * P + 18515 * V + 2415 * trust + 126 * fresh
  BY <1>0 DEF InParts
<1>2. 17 * 115 * n * div = 1955 * spread
  BY <1>0
<1>3. 805 * n * pen = 805 * loss /\ 805 * pen * n = 805 * loss
  BY <1>0
<1>4. RefSum(n, credit, div, pen) = 1955 * spread + credit - 805 * loss
  BY <1>2, <1>3 DEF RefSum
<1>5. PathSum(n, P, V, trust, fresh, div, pen) = 1955 * spread + credit - 805 * loss
  BY <1>0, <1>1, <1>2, <1>3 DEF PathSum
<1>6. 1955 * spread + credit - 805 * loss \in Int
  BY <1>0, <1>1
<1>7. RefTop(n) = PathTop(n) /\ RefTop(n) \in Nat
  BY <1>0 DEF RefTop, PathTop
<1> QED BY <1>4, <1>5, <1>6, <1>7

\* The reference's sum is the path's, cut to the same range.
LEMMA QualitySums ==
  ASSUME NEW n, NEW P, NEW V, NEW trust, NEW fresh, NEW div, NEW pen, NEW credit,
         QualityParts(n, P, V, trust, fresh, div, pen, credit)
  PROVE  /\ Max({0, Min({RefSum(n, credit, div, pen), RefTop(n)})})
              = Clamp(PathSum(n, P, V, trust, fresh, div, pen), PathTop(n))
         /\ Clamp(PathSum(n, P, V, trust, fresh, div, pen), PathTop(n)) \in Int
<1> PICK x, top : x = RefSum(n, credit, div, pen) /\ top = RefTop(n)
  OBVIOUS
<1>1. x \in Int /\ top \in Nat /\ PathSum(n, P, V, trust, fresh, div, pen) = x /\ PathTop(n) = top
  BY SumsAgree
<1>2. Max({0, Min({x, top})}) = Clamp(x, top) /\ Clamp(x, top) \in Int
  BY <1>1, CutIsClamp
<1> QED BY <1>1, <1>2

\* Both qualities are made of the same parts.
QualitiesOf(c, n, P, V, trust, fresh, div, pen, credit) ==
  /\ QualityParts(n, P, V, trust, fresh, div, pen, credit)
  /\ Quality(c) = Clamp(PathSum(n, P, V, trust, fresh, div, pen), PathTop(n))
  /\ RefEvidence(c).quality = Max({0, Min({RefSum(n, credit, div, pen), RefTop(n)})})

\* Each computes the quality from the parts of the evidence.
LEMMA QualitiesInParts ==
  ASSUME NEW c, c.events \in Seq(Event)
  PROVE  \E n, P, V, trust, fresh, div, pen, credit :
           QualitiesOf(c, n, P, V, trust, fresh, div, pen, credit)
<1> PICK C \in Nat : C = Conflicts(c)
  BY SourcesFinite
<1> PICK mis \in Nat : mis = Cardinality(Missing(c))
  BY SourcesFinite
<1> PICK poison \in BOOLEAN : poison <=> Poisoned(c) # {}
  OBVIOUS
<1> PICK pen : pen = PenaltyOf(c)
  OBVIOUS
<1>7. pen = PathPenalty(C, poison, mis)
  BY DEF PenaltyOf, PathPenalty
<1>8. RefPenalty(C, poison, mis) = pen /\ pen \in Nat
  BY <1>7, PenaltiesAgree, Zenon
<1> PICK src \in Nat : src = Cardinality(Sources(c))
  BY SourcesFinite
<1> PICK div : div = Clamp(src, 7)
  OBVIOUS
<1>0. (IF src > 7 THEN 7 ELSE src) = div /\ div \in Nat
  BY DiversityAgrees, ZenonT(60)
<1> PICK S : S = Ids(c)
  OBVIOUS
<1> PICK n \in Nat : n = Len(c.events)
  BY Numbered
<1> PICK P \in Nat, V \in Nat : P = WithProvenance(c) /\ V = Verified(c)
  BY SourcesFinite
<1> PICK trust \in Int : trust = Total(TrustOf(c), S)
  BY CreditOfCase
<1> PICK fresh \in Int : fresh = Total(FreshnessOf(c), S)
  BY CreditOfCase
<1> PICK credit : credit = Total(CreditOf(c), S)
  OBVIOUS
<1>1. S = 1..n /\ IsFiniteSet(S) /\ Cardinality(S) = n
  BY Numbered
<1>2. credit = 21735 * P + 18515 * V + 2415 * trust + 126 * fresh
  <2>1. InParts(Total(CreditOf(c), S), WithProvenance(c), Verified(c),
                Total(TrustOf(c), S), Total(FreshnessOf(c), S))
    BY CreditOfCase, Zenon
  <2>2. InParts(credit, P, V, trust, fresh)
    BY <2>1
  <2> QED BY <2>2 DEF InParts
<1>3. \A i \in Ids(c) : /\ RefCredit(c.events[i]) \in Int /\ Freshness(c.events[i]) \in Int
                        /\ c.events[i].trust \in Int
  BY CreditOfCase, Zenon
<1>4. MapThenSumSet(LAMBDA i : Freshness(c.events[i]), Ids(c)) = fresh
  BY <1>1, <1>3, FreshnessTotal
<1>5. MapThenSumSet(LAMBDA i : c.events[i].trust, Ids(c)) = trust
  BY <1>1, <1>3, TrustTotal
<1>6. MapThenSumSet(LAMBDA i : RefCredit(c.events[i]), Ids(c)) = credit
  BY <1>1, <1>3, CreditTotal
<1>9. Quality(c) = Clamp(PathSum(n, P, V, trust, fresh, div, pen), PathTop(n))
  <2> PICK f : f = MapThenSumSet(LAMBDA i : Freshness(c.events[i]), Ids(c))
    OBVIOUS
  <2> PICK t : t = MapThenSumSet(LAMBDA i : c.events[i].trust, Ids(c))
    OBVIOUS
  <2>1. Quality(c) = Clamp(27 * 805 * WithProvenance(c) + 23 * 805 * Verified(c) + 18 * 7 * f
                           + 17 * 115 * Cardinality(Ids(c)) * Clamp(Cardinality(Sources(c)), 7)
                           + 15 * 161 * t - 805 * Cardinality(Ids(c)) * PenaltyOf(c),
                           100 * 805 * Cardinality(Ids(c)))
    BY DEF Quality, PenaltyOf
  <2>2. f = fresh /\ t = trust /\ Cardinality(Ids(c)) = n
    BY <1>1, <1>4, <1>5
  <2> QED BY <2>1, <2>2 DEF PathSum, PathTop
<1>10. RefEvidence(c).quality = Max({0, Min({RefSum(n, credit, div, pen), RefTop(n)})})
  <2> PICK t : t = MapThenSumSet(LAMBDA i : RefCredit(c.events[i]), 1..Len(c.events))
    OBVIOUS
  <2>1. t = credit
    BY <1>1, <1>6
  <2> PICK sources : sources = {c.events[i].source : i \in 1..Len(c.events)}
    OBVIOUS
  <2> PICK conflicts : conflicts = Quantify(1..Len(c.events), LAMBDA i : "source_conflict" \in c.events[i].shows)
    OBVIOUS
  <2> PICK poisoned : poisoned = {i \in 1..Len(c.events) : c.events[i].instructional}
    OBVIOUS
  <2>2. sources = Sources(c) /\ poisoned = Poisoned(c) /\ RefExpectedSources \ sources = Missing(c)
    BY <1>1 DEF Sources, Poisoned, IdsWhere, Missing, RefExpectedSources, ExpectedSources
  <2>3. conflicts = C
    BY <1>1 DEF Conflicts, IdsWhere, Quantify
  <2>4. RefEvidence(c).quality =
          Max({0, Min({17 * 115 * Len(c.events) * (IF Cardinality(sources) > 7 THEN 7 ELSE Cardinality(sources))
                       + t
                       - 805 * (Min({25, 10 * conflicts}) + (IF poisoned = {} THEN 0 ELSE 30)
                                + (IF Cardinality(RefExpectedSources \ sources) < 2 THEN 0 ELSE 12))
                         * Len(c.events),
                       80500 * Len(c.events)})})
    BY DEF RefEvidence
  <2> PICK a, b : a = (IF Cardinality(sources) > 7 THEN 7 ELSE Cardinality(sources))
                  /\ b = Min({25, 10 * conflicts}) + (IF poisoned = {} THEN 0 ELSE 30)
                          + (IF Cardinality(RefExpectedSources \ sources) < 2 THEN 0 ELSE 12)
    OBVIOUS
  <2>5. RefEvidence(c).quality = Max({0, Min({RefSum(n, credit, a, b), RefTop(n)})})
    <3>1. RefEvidence(c).quality = Max({0, Min({17 * 115 * Len(c.events) * a + t
                                                - 805 * b * Len(c.events), 80500 * Len(c.events)})})
      BY <2>4
    <3> QED BY <2>1, <3>1 DEF RefSum, RefTop
  <2>6. a = (IF src > 7 THEN 7 ELSE src)
        /\ b = RefPenalty(C, poison, mis)
    <3>1. Cardinality(sources) = src /\ Cardinality(RefExpectedSources \ sources) = mis
          /\ (IF poisoned = {} THEN 0 ELSE 30) = (IF poison THEN 30 ELSE 0)
      BY <2>2
    <3> QED BY <2>3, <3>1 DEF RefPenalty
  <2>7. a = div /\ b = pen
    <3>1. a = div
      BY <1>0, <2>6, Zenon
    <3>2. b = pen
      BY <1>8, <2>6, Zenon
    <3> QED BY <3>1, <3>2
  <2> QED BY <2>5, <2>7, Zenon
<1>11. InParts(credit, P, V, trust, fresh)
  BY <1>2 DEF InParts
<1>12. QualityParts(n, P, V, trust, fresh, div, pen, credit)
  BY <1>0, <1>8, <1>11 DEF QualityParts
<1>13. QualitiesOf(c, n, P, V, trust, fresh, div, pen, credit)
  BY <1>9, <1>10, <1>12 DEF QualitiesOf
<1> QED BY <1>13, Zenon

\* The quality the reference computes is the one the path computed.
LEMMA QualitiesAgree ==
  ASSUME NEW c, c.events \in Seq(Event)
  PROVE  RefEvidence(c).quality = Quality(c) /\ Quality(c) \in Int
<1>1. PICK n, P, V, trust, fresh, div, pen, credit :
        QualitiesOf(c, n, P, V, trust, fresh, div, pen, credit)
  BY QualitiesInParts, Zenon
<1>2. QualityParts(n, P, V, trust, fresh, div, pen, credit)
  BY <1>1 DEF QualitiesOf
<1>3. /\ Max({0, Min({RefSum(n, credit, div, pen), RefTop(n)})})
             = Clamp(PathSum(n, P, V, trust, fresh, div, pen), PathTop(n))
      /\ Clamp(PathSum(n, P, V, trust, fresh, div, pen), PathTop(n)) \in Int
  BY <1>2, QualitySums, Zenon
<1>4. /\ Quality(c) = Clamp(PathSum(n, P, V, trust, fresh, div, pen), PathTop(n))
      /\ RefEvidence(c).quality = Max({0, Min({RefSum(n, credit, div, pen), RefTop(n)})})
  BY <1>1 DEF QualitiesOf
<1> QED BY <1>3, <1>4, Zenon

\* The reference assesses the evidence as the path does.
LEMMA EvidencesAgree ==
  ASSUME NEW c, c.events \in Seq(Event)
  PROVE  RefEvidence(c) = AssessEvidence(c)
<1> PICK r : r = RefEvidence(c)
  OBVIOUS
<1>1. r = [count |-> r.count, quality |-> r.quality, provenance |-> r.provenance,
           verified |-> r.verified, supporting |-> r.supporting, positive |-> r.positive,
           benign |-> r.benign, missing |-> r.missing, conflicts |-> r.conflicts,
           poisoned |-> r.poisoned]
  BY DEF RefEvidence
<1>2. /\ r.count = Cardinality(Ids(c))
      /\ r.provenance = WithProvenance(c) /\ r.verified = Verified(c)
      /\ r.supporting = Cardinality(Supporting(c))
      /\ r.positive = Showing(c, PositiveIndicators) /\ r.benign = Showing(c, BenignIndicators)
      /\ r.missing = Missing(c) /\ r.conflicts = Conflicts(c) /\ r.poisoned = Poisoned(c)
  BY EvidenceParts
<1>3. r.quality = Quality(c)
  BY QualitiesAgree
<1>4. r = [count |-> Cardinality(Ids(c)), quality |-> Quality(c),
           provenance |-> WithProvenance(c), verified |-> Verified(c),
           supporting |-> Cardinality(Supporting(c)),
           positive |-> Showing(c, PositiveIndicators), benign |-> Showing(c, BenignIndicators),
           missing |-> Missing(c), conflicts |-> Conflicts(c), poisoned |-> Poisoned(c)]
  BY <1>1, <1>2, <1>3
<1> QED BY <1>4 DEF AssessEvidence

-----------------------------------------------------------------------------
\* A finite set of numbers that is not empty has a greatest one.
LEMMA HasGreatest ==
  ASSUME NEW S \in SUBSET Int, IsFiniteSet(S), S # {}
  PROVE  \E m \in S : \A x \in S : m >= x
<1> DEFINE G == {s \in SUBSET S : s # {} => \E m \in s : \A x \in s : m >= x}
<1>1. {} \in G
  OBVIOUS
<1>2. ASSUME NEW s \in SUBSET S, s # {}, s \ {First(s)} \in G PROVE s \in G
  <2> PICK y : y = First(s)
    OBVIOUS
  <2> PICK r : r = s \ {y}
    OBVIOUS
  <2>0. y \in s
    BY <1>2, SmallerFirst
  <2>1. y \in s /\ s = r \cup {y} /\ r \subseteq Int /\ y \in Int
    BY <2>0
  <2>2. CASE r = {}
    <3>1. s = {y} /\ y >= y
      BY <2>1, <2>2
    <3> QED BY <3>1
  <2>3. CASE r # {}
    <3>1. PICK m \in r : \A x \in r : m >= x
      BY <1>2, <2>3
    <3>2. CASE m >= y
      BY <2>1, <3>1, <3>2
    <3>3. CASE ~(m >= y)
      <4>1. \A x \in s : y >= x
        BY <2>1, <3>1, <3>3
      <4> QED BY <2>1, <4>1
    <3> QED BY <3>2, <3>3
  <2> QED BY <2>2, <2>3
<1>3. SUBSET S \subseteq G
  <2> HIDE DEF G
  <2> QED BY <1>1, <1>2, SubsetsOneByOne
<1> QED BY <1>3

\* The number the greatest of a set is.
LEMMA GreatestIs ==
  ASSUME NEW S \in SUBSET Int, NEW m \in S, \A x \in S : m >= x
  PROVE  Max(S) = m
<1> PICK k : k = Max(S)
  OBVIOUS
<1>1. k \in S /\ \A x \in S : k >= x
  BY DEF Max
<1>2. k \in Int /\ m \in Int /\ k >= m /\ m >= k
  BY <1>1
<1>3. k = m
  BY <1>2
<1> QED BY <1>3

\* More failed logins weigh no less.
LEMMA ClampGrows ==
  ASSUME NEW l \in Nat, NEW m \in Nat, l <= m
  PROVE  /\ Clamp(5 * l, 100) \in Nat
         /\ Clamp(5 * m, 100) >= Clamp(5 * l, 100)
<1> PICK a \in Int, b \in Int : a = 5 * l /\ b = 5 * m
  OBVIOUS
<1>1. 0 <= a /\ a <= b
  OBVIOUS
<1>2. Clamp(a, 100) \in Nat /\ Clamp(b, 100) >= Clamp(a, 100)
  BY <1>1 DEF Clamp
<1> QED BY <1>2

\* Five hundredths for each failed login, a hundred at most.
LEMMA LoginsAgree ==
  ASSUME NEW c, c.events \in Seq(Event), Ids(c) # {}
  PROVE  /\ Min({100, 5 * Max({c.events[i].logins : i \in Ids(c)})})
              = Max({0} \cup {Clamp(5 * c.events[i].logins, 100) : i \in Ids(c)})
         /\ Max({0} \cup {Clamp(5 * c.events[i].logins, 100) : i \in Ids(c)}) \in Int
<1>1. IsFiniteSet(Ids(c)) /\ \A i \in Ids(c) : c.events[i].logins \in Nat
  BY Numbered DEF Event
<1> PICK L : L = {c.events[i].logins : i \in Ids(c)}
  OBVIOUS
<1>2. IsFiniteSet(L) /\ L # {} /\ L \subseteq Int
  <2> PICK g : g = [i \in Ids(c) |-> c.events[i].logins]
    OBVIOUS
  <2>1. L = {g[i] : i \in Ids(c)}
    OBVIOUS
  <2>2. IsFiniteSet({g[i] : i \in Ids(c)})
    BY <1>1, ImageFinite
  <2>3. L # {}
    OBVIOUS
  <2>4. L \subseteq Int
    BY <1>1
  <2> QED BY <2>1, <2>2, <2>3, <2>4
<1>3. PICK m \in L : \A x \in L : m >= x
  BY <1>2, HasGreatest
<1>4. m \in Nat /\ Max(L) = m
  BY <1>1, <1>2, <1>3, GreatestIs
<1>5. Min({100, 5 * m}) = IF 100 <= 5 * m THEN 100 ELSE 5 * m
  <2> PICK a \in Int, b \in Int : a = 100 /\ b = 5 * m
    BY <1>4
  <2>1. Min({a, b}) = IF a <= b THEN a ELSE b
    BY OfTwo
  <2> QED BY <2>1
<1> PICK v : v = Clamp(5 * m, 100)
  OBVIOUS
<1>6. v = (IF 100 <= 5 * m THEN 100 ELSE 5 * m) /\ v \in Nat
  BY <1>4 DEF Clamp
<1> PICK T : T = {0} \cup {Clamp(5 * c.events[i].logins, 100) : i \in Ids(c)}
  OBVIOUS
<1>7. \A x \in T : x \in Int /\ v >= x
  <2>1. \A i \in Ids(c) : /\ Clamp(5 * c.events[i].logins, 100) \in Int
                         /\ v >= Clamp(5 * c.events[i].logins, 100)
    <3> TAKE i \in Ids(c)
    <3> PICK l \in Nat : l = c.events[i].logins
      BY <1>1
    <3>1. l <= m
      BY <1>3
    <3>2. Clamp(5 * l, 100) \in Nat /\ Clamp(5 * m, 100) >= Clamp(5 * l, 100)
      BY <1>4, <3>1, ClampGrows
    <3> PICK x \in Nat : x = Clamp(5 * l, 100) /\ v >= x
      BY <3>2
    <3>3. x = Clamp(5 * c.events[i].logins, 100)
      OBVIOUS
    <3> QED BY <3>3
  <2> QED BY <1>6, <2>1
<1>8. v \in T
  BY <1>3
<1>9. Max(T) = v
  BY <1>7, <1>8, GreatestIs
<1>10. Min({100, 5 * Max(L)}) = v
  BY <1>4, <1>5, <1>6
<1> QED BY <1>6, <1>9, <1>10

-----------------------------------------------------------------------------
\* What a source is authorized to show never names a count or a claim.
LEMMA ShownIsAttribute ==
  ASSUME NEW e \in Event, SourceAuthorized(e)
  PROVE  /\ "failed_login_intensity" \notin e.shows
         /\ e.logins \in Nat
<1>1. e.shows \subseteq ShownBy(e.source)
  BY DEF SourceAuthorized
<1>2. "failed_login_intensity" \notin ShownBy(e.source)
  BY DEF ShownBy
<1> QED BY <1>1, <1>2 DEF Event

\* The features are finitely many.
LEMMA FeaturesFinite == IsFiniteSet(Features)
<1> DEFINE I == {"new_device", "impossible_travel", "mfa_fatigue",
                 "token_reuse", "after_hours", "strong_mfa", "oauth_grant"}
           N == {"threat_ip", "lateral_movement", "known_vpn", "source_conflict"}
           E == {"credential_dumping", "unusual_admin_action",
                 "edr_malware", "device_noncompliant"}
           C == {"approved_travel", "maintenance_window", "service_account_baseline"}
           D == {"failed_login_intensity", "privilege_global_admin", "asset_criticality"}
<1>1. IsFiniteSet(I)
  <2>1. I = (((((({} \cup {"new_device"}) \cup {"impossible_travel"}) \cup {"mfa_fatigue"})
              \cup {"token_reuse"}) \cup {"after_hours"}) \cup {"strong_mfa"}) \cup {"oauth_grant"}
    OBVIOUS
  <2> HIDE DEF I
  <2> QED BY <2>1, FS_EmptySet, FS_AddElement, ZenonT(60)
<1>2. IsFiniteSet(N)
  <2>1. N = ((({} \cup {"threat_ip"}) \cup {"lateral_movement"}) \cup {"known_vpn"})
            \cup {"source_conflict"}
    OBVIOUS
  <2> HIDE DEF N
  <2> QED BY <2>1, FS_EmptySet, FS_AddElement, ZenonT(60)
<1>3. IsFiniteSet(E)
  <2>1. E = ((({} \cup {"credential_dumping"}) \cup {"unusual_admin_action"})
             \cup {"edr_malware"}) \cup {"device_noncompliant"}
    OBVIOUS
  <2> HIDE DEF E
  <2> QED BY <2>1, FS_EmptySet, FS_AddElement, ZenonT(60)
<1>4. IsFiniteSet(C)
  <2>1. C = (({} \cup {"approved_travel"}) \cup {"maintenance_window"})
            \cup {"service_account_baseline"}
    OBVIOUS
  <2> HIDE DEF C
  <2> QED BY <2>1, FS_EmptySet, FS_AddElement, ZenonT(60)
<1>5. IsFiniteSet(D)
  <2>1. D = (({} \cup {"failed_login_intensity"}) \cup {"privilege_global_admin"})
            \cup {"asset_criticality"}
    OBVIOUS
  <2> HIDE DEF D
  <2> QED BY <2>1, FS_EmptySet, FS_AddElement, ZenonT(60)
<1>6. \A s : ShownBy(s) \subseteq ((I \cup N) \cup E) \cup C
  BY DEF ShownBy
<1>7. Features \subseteq (((I \cup N) \cup E) \cup C) \cup D
  BY <1>6 DEF Features
<1> HIDE DEF I, N, E, C, D
<1>8. IsFiniteSet((((I \cup N) \cup E) \cup C) \cup D)
  BY <1>1, <1>2, <1>3, <1>4, <1>5, FS_Union
<1> QED BY <1>7, <1>8, FS_Subset

\* The traces of the two agree: where a feature is seen.
LEMMA TracesAgree ==
  ASSUME NEW c, c.events \in Seq(Event), \A i \in Ids(c) : SourceAuthorized(c.events[i])
  PROVE  RefTrace(c) = FeatureTrace(c)
<1>1. \A i \in Ids(c) : /\ "failed_login_intensity" \notin c.events[i].shows
                        /\ c.events[i].logins \in Nat
  BY Numbered, ShownIsAttribute
<1>2. ASSUME NEW f \in Features PROVE RefTrace(c)[f] = FeatureTrace(c)[f]
  <2>1. CASE f = "failed_login_intensity"
    <3>1. RefTrace(c)[f] = {i \in Ids(c) : f \in c.events[i].shows \cup
                              (IF c.events[i].logins > 0 THEN {"failed_login_intensity"} ELSE {})}
      BY <2>1 DEF RefTrace, Ids
    <3>2. FeatureTrace(c)[f] = {i \in Ids(c) : c.events[i].logins # 0}
      BY <2>1 DEF FeatureTrace, IdsWhere
    <3>3. \A i \in Ids(c) : f \in c.events[i].shows \cup
              (IF c.events[i].logins > 0 THEN {"failed_login_intensity"} ELSE {})
              <=> c.events[i].logins # 0
      BY <1>1, <2>1
    <3> QED BY <3>1, <3>2, <3>3
  <2>2. CASE f \in {"privilege_global_admin", "asset_criticality"}
    BY <2>2 DEF RefTrace, FeatureTrace, EventsOf, IdsWhere, Ids
  <2>3. CASE f \notin {"failed_login_intensity", "privilege_global_admin", "asset_criticality"}
    <3>1. RefTrace(c)[f] = {i \in Ids(c) : f \in c.events[i].shows \cup
                              (IF c.events[i].logins > 0 THEN {"failed_login_intensity"} ELSE {})}
      BY <2>3 DEF RefTrace, Ids
    <3>2. FeatureTrace(c)[f] = {i \in Ids(c) : c.events[i].shows \cap {f} # {}}
      BY <2>3 DEF FeatureTrace, Showing, IdsWhere
    <3>3. \A i \in Ids(c) : f \in c.events[i].shows \cup
              (IF c.events[i].logins > 0 THEN {"failed_login_intensity"} ELSE {})
              <=> c.events[i].shows \cap {f} # {}
      BY <2>3
    <3> QED BY <3>1, <3>2, <3>3
  <2> QED BY <2>1, <2>2, <2>3
<1>3. \A i \in {} : TRUE
  OBVIOUS
<1>4. RefTrace(c) = [f \in Features |-> RefTrace(c)[f]]
  BY DEF RefTrace
<1>5. FeatureTrace(c) = [f \in Features |-> FeatureTrace(c)[f]]
  BY DEF FeatureTrace
<1> QED BY <1>2, <1>4, <1>5

\* The values of the features agree, and are numbers.
LEMMA ValuesAgree ==
  ASSUME NEW c, c.events \in Seq(Event), \A i \in Ids(c) : SourceAuthorized(c.events[i]),
         Ids(c) # {}, c.criticality \in Int
  PROVE  /\ RefFeatures(c) = FeatureValues(c)
         /\ \A f \in Features : FeatureValues(c)[f] \in Int
         /\ \A f \in SevereIndicators : /\ f \in Features
                                        /\ FeatureValues(c)[f] \in {0, 100}
<1>1. ASSUME NEW f \in Features
      PROVE  RefFeatures(c)[f] = FeatureValues(c)[f] /\ FeatureValues(c)[f] \in Int
  <2>1. CASE f = "failed_login_intensity"
    <3>1. RefFeatures(c)[f] = Min({100, 5 * Max({c.events[i].logins : i \in Ids(c)})})
      BY <2>1 DEF RefFeatures, Ids
    <3>2. FeatureValues(c)[f] = Max({0} \cup {Clamp(5 * c.events[i].logins, 100) : i \in Ids(c)})
      BY <2>1 DEF FeatureValues
    <3>3. /\ Min({100, 5 * Max({c.events[i].logins : i \in Ids(c)})})
                = Max({0} \cup {Clamp(5 * c.events[i].logins, 100) : i \in Ids(c)})
          /\ Max({0} \cup {Clamp(5 * c.events[i].logins, 100) : i \in Ids(c)}) \in Int
      BY LoginsAgree, Zenon
    <3> QED BY <3>1, <3>2, <3>3
  <2>2. CASE f \in {"privilege_global_admin", "asset_criticality"}
    BY <2>2 DEF RefFeatures, FeatureValues
  <2>3. CASE f \notin {"failed_login_intensity", "privilege_global_admin", "asset_criticality"}
    <3>1. RefFeatures(c)[f] = IF RefTrace(c)[f] = {} THEN 0 ELSE 100
      BY <2>3 DEF RefFeatures
    <3>2. FeatureValues(c)[f] = IF Showing(c, {f}) # {} THEN 100 ELSE 0
      BY <2>3 DEF FeatureValues
    <3>3. FeatureTrace(c)[f] = Showing(c, {f})
      BY <2>3 DEF FeatureTrace
    <3>4. RefTrace(c) = FeatureTrace(c)
      BY TracesAgree
    <3> QED BY <3>1, <3>2, <3>3, <3>4
  <2> QED BY <2>1, <2>2, <2>3
<1>2. RefFeatures(c) = [f \in Features |-> RefFeatures(c)[f]]
  BY DEF RefFeatures
<1>3. FeatureValues(c) = [f \in Features |-> FeatureValues(c)[f]]
  BY DEF FeatureValues
<1>4. RefFeatures(c) = FeatureValues(c)
  BY <1>1, <1>2, <1>3
<1>5. ASSUME NEW f \in SevereIndicators PROVE f \in Features /\ FeatureValues(c)[f] \in {0, 100}
  <2>1. f \in Features
    <3>1. f \in ShownBy("identity") \cup ShownBy("network") \cup ShownBy("endpoint")
      BY DEF SevereIndicators, ShownBy
    <3>2. f # "source_conflict"
      BY DEF SevereIndicators
    <3>3. PICK s \in ExpectedSources : f \in ShownBy(s)
      BY <3>1 DEF ExpectedSources
    <3>4. f \in UNION {ShownBy(x) : x \in ExpectedSources}
      BY <3>3, Zenon
    <3> DEFINE U == UNION {ShownBy(x) : x \in ExpectedSources}
    <3>5. Features = (U \ {"source_conflict"})
                     \cup {"failed_login_intensity", "privilege_global_admin", "asset_criticality"}
      BY DEF Features
    <3>6. f \in U
      BY <3>4, Zenon
    <3> HIDE DEF U
    <3> QED BY <3>2, <3>5, <3>6
  <2>2. FeatureValues(c)[f] = IF Showing(c, {f}) # {} THEN 100 ELSE 0
    <3>1. f \notin {"failed_login_intensity", "privilege_global_admin", "asset_criticality"}
      BY DEF SevereIndicators
    <3> QED BY <2>1, <3>1 DEF FeatureValues
  <2> QED BY <2>1, <2>2
<1> QED BY <1>1, <1>4, <1>5

\* The reference's model is the path's, and its logit within the range.
LEMMA ModelsAgree ==
  ASSUME NEW c, c.events \in Seq(Event), \A i \in Ids(c) : SourceAuthorized(c.events[i]),
         Ids(c) # {}, c.criticality \in Int
  PROVE  /\ RefModel(c) = AssessModel(c)
         /\ AssessModel(c).logit \in Int
         /\ -300000 <= AssessModel(c).logit /\ AssessModel(c).logit <= 300000
<1>1. RefFeatures(c) = FeatureValues(c) /\ \A f \in Features : FeatureValues(c)[f] \in Int
  BY ValuesAgree
<1>2. IsFiniteSet(Features)
  BY FeaturesFinite
<1>3. \A f \in Features : Weight[f] \in Int
  BY DecisionAssumption
<1>4. Intercept \in Int
  BY DecisionAssumption
<1> PICK v : v = FeatureValues(c)
  OBVIOUS
<1> PICK sum : sum = Total(WeighedBy(v), Features)
  OBVIOUS
<1>5. sum \in Int
  <2>1. \A f \in Features : Weight[f] \in Int /\ v[f] \in Int
    BY <1>1, <1>3
  <2>2. \A f \in Features : WeighedBy(v)[f] \in Int
    BY <2>1 DEF WeighedBy
  <2> QED BY <1>2, <2>2, TotalAdds
<1>6. Logit(v) = LogitOf(sum)
  BY <1>1, <1>2, <1>3, LogitTotal
<1>7. RefModel(c).logit = RefLogitOf(sum)
  BY <1>1, <1>2, <1>3, RefLogitTotal
<1>8. RefLogitOf(sum) = LogitOf(sum) /\ LogitOf(sum) \in Int
      /\ -300000 <= LogitOf(sum) /\ LogitOf(sum) <= 300000
  BY <1>4, <1>5, LogitsAgree
<1>9. RefTrace(c) = FeatureTrace(c)
  BY TracesAgree
<1>10. RefModel(c) = [logit |-> RefModel(c).logit, values |-> RefFeatures(c), trace |-> RefTrace(c)]
  BY DEF RefModel, MapThenSumSet, MapThenFoldSet
<1>11. AssessModel(c) = [logit |-> Logit(v), values |-> v, trace |-> FeatureTrace(c)]
  BY DEF AssessModel
<1> QED BY <1>1, <1>6, <1>7, <1>8, <1>9, <1>10, <1>11

-----------------------------------------------------------------------------
(* The policy and the verifier.                                             *)

\* What was assessed, as the policy and the verifiers read it.
EvidenceNumbers(e) ==
  /\ {e.count, e.quality, e.provenance, e.verified, e.supporting, e.conflicts} \subseteq Int
  /\ Cardinality(e.missing) \in Int

\* The evidence of a case is numbers.
LEMMA EvidenceIsNumbers ==
  ASSUME NEW c, c.events \in Seq(Event)
  PROVE  EvidenceNumbers(AssessEvidence(c))
<1>1. Quality(c) \in Int
  BY QualitiesAgree
<1>2. /\ Cardinality(Ids(c)) \in Int /\ WithProvenance(c) \in Int /\ Verified(c) \in Int
      /\ Conflicts(c) \in Int /\ Cardinality(Missing(c)) \in Int
      /\ Cardinality(Supporting(c)) \in Int
  BY SourcesFinite, Numbered
<1> QED BY <1>1, <1>2 DEF EvidenceNumbers, AssessEvidence

\* The same evidence is of decision grade for both.
LEMMA GradesAgree ==
  ASSUME NEW e, NEW p, EvidenceNumbers(e), PolicyShape(p)
  PROVE  /\ RefDecisionGrade(e, p) <=> DecisionGrade(e, p)
         /\ p.quality * 805 * e.count = 805 * e.count * p.quality
<1> PICK n \in Int, q \in Int, x \in Int, y \in Int :
         n = e.count /\ q = p.quality /\ x = e.provenance /\ y = e.verified
  BY DEF EvidenceNumbers, PolicyShape
<1>1. q * n * 805 = 805 * n * q /\ q * 805 * n = 805 * n * q
  OBVIOUS
<1>2. x * 100 = 100 * x /\ y * 100 = 100 * y
  OBVIOUS
<1> PICK pp \in Int, pi \in Int : pp = p.provenance /\ pi = p.integrity
  BY DEF PolicyShape
<1>3. n * pp = pp * n /\ n * pi = pi * n
  OBVIOUS
<1>4. p.quality * e.count * 805 = 805 * e.count * p.quality
  BY <1>1
<1>5. e.provenance * 100 = 100 * e.provenance /\ e.verified * 100 = 100 * e.verified
  BY <1>2
<1>6. e.count * p.provenance = p.provenance * e.count /\ e.count * p.integrity = p.integrity * e.count
  BY <1>3
<1>7. p.quality * 805 * e.count = 805 * e.count * p.quality
  BY <1>1
<1>8. (p.poisonBlocks => e.poisoned = {}) <=> ~(p.poisonBlocks /\ e.poisoned # {})
  OBVIOUS
<1>9. RefDecisionGrade(e, p) <=> DecisionGrade(e, p)
  <2>1. RefDecisionGrade(e, p) <=>
          /\ e.quality >= 805 * e.count * p.quality
          /\ 100 * e.provenance >= p.provenance * e.count
          /\ 100 * e.verified >= p.integrity * e.count
          /\ e.conflicts <= p.conflicts /\ Cardinality(e.missing) <= p.missing
          /\ ~(p.poisonBlocks /\ e.poisoned # {})
    BY <1>4, <1>5, <1>6 DEF RefDecisionGrade
  <2> QED BY <2>1 DEF DecisionGrade
<1> QED BY <1>7, <1>9

\* The least of a set of rules.
LEMMA LeastIs ==
  ASSUME NEW S \in SUBSET (1..7), NEW k \in S, \A j \in S : k <= j
  PROVE  Min(S) = k
<1> PICK m : m = Min(S)
  OBVIOUS
<1>1. m \in S /\ \A j \in S : m <= j
  BY DEF Min
<1>2. m <= k /\ k <= m /\ m \in Int /\ k \in Int
  BY <1>1
<1> QED BY <1>2

\* The first rule to hold is the one that proposes.
LEMMA FirstRule ==
  ASSUME NEW c, NEW m, NEW e, NEW p, NEW k \in 1..7,
         PolicyRules(c, m, e, p)[k][1],
         \A j \in 1..7 : j < k => ~PolicyRules(c, m, e, p)[j][1]
  PROVE  Propose(c, m, e, p) = PolicyRules(c, m, e, p)[k][2]
<1> PICK S : S = {i \in 1..7 : PolicyRules(c, m, e, p)[i][1]}
  OBVIOUS
<1>1. DOMAIN PolicyRules(c, m, e, p) = 1..7
  BY DEF PolicyRules
<1>2. S \in SUBSET (1..7) /\ k \in S /\ \A j \in S : k <= j
  OBVIOUS
<1>3. Min(S) = k
  BY <1>2, LeastIs
<1>4. Propose(c, m, e, p) = PolicyRules(c, m, e, p)[Min(S)][2]
  BY <1>1 DEF Propose
<1> QED BY <1>3, <1>4

\* One rule, and one after it.
LEMMA Joined ==
  ASSUME NEW x
  PROVE  <<x>> \o <<>> = <<x>> /\ \A y : <<x>> \o <<y>> = <<x, y>>
<1>1. <<x>> \o <<>> = <<x>>
  <2>1. <<x>> \in Seq({x})
    OBVIOUS
  <2> QED BY <2>1, ConcatEmptySeq
<1>2. ASSUME NEW y PROVE <<x>> \o <<y>> = <<x, y>>
  <2> DEFINE S == {x, y}
  <2> PICK s, t, u : s = <<x>> /\ t = <<y>> /\ u = <<x, y>>
    OBVIOUS
  <2>1. s \in Seq(S) /\ t \in Seq(S) /\ u \in Seq(S) /\ Len(s) = 1 /\ Len(t) = 1 /\ Len(u) = 2
    OBVIOUS
  <2>2. s \o t \in Seq(S) /\ Len(s \o t) = 2
    BY <2>1
  <2>3. (s \o t)[1] = u[1] /\ (s \o t)[2] = u[2]
    BY <2>1
  <2>4. \A i \in 1..2 : (s \o t)[i] = u[i]
    BY <2>3
  <2>5. s \o t = u
    BY <2>1, <2>2, <2>4, SeqEqual
  <2> QED BY <2>5
<1> QED BY <1>1, <1>2

\* The reference proposes what the policy proposes, rule by rule.
LEMMA ProposalsAgree ==
  ASSUME NEW c, NEW m, NEW e, NEW p, EvidenceNumbers(e), PolicyShape(p),
         c.criticality \in Int, m.logit \in Int,
         \A f \in SevereIndicators : m.values[f] \in {0, 100}
  PROVE  RefProposal(c, m, e, p) = Propose(c, m, e, p)
<1> DEFINE rules == PolicyRules(c, m, e, p)
           rule == RefRule(c, m, e, p)
           cited == e.positive \cup e.benign \cup e.poisoned
           As(d, a, r, u) ==
             [disposition |-> d, actions |-> a, rules |-> r, authority |-> u, cited |-> cited,
              rollback |-> IF d = "CONTAIN_REVERSIBLE" THEN ReversibleActions ELSE {}]
<1> PICK severe \in BOOLEAN : severe <=> \E f \in SevereIndicators : m.values[f] >= 100
  OBVIOUS
<1> PICK critical \in BOOLEAN : critical <=> c.criticality > p.criticality
  OBVIOUS
<1>1. severe <=> \E f \in {"credential_dumping", "lateral_movement", "token_reuse", "oauth_grant"} :
                    m.values[f] = 100
  <2>1. \A f \in SevereIndicators : m.values[f] >= 100 <=> m.values[f] = 100
    OBVIOUS
  <2> QED BY <2>1 DEF SevereIndicators
<1> PICK grade \in BOOLEAN : grade <=> DecisionGrade(e, p)
  BY DEF DecisionGrade
<1>2. RefDecisionGrade(e, p) <=> grade
  BY GradesAgree
<1> PICK poison \in BOOLEAN : poison <=> e.poisoned # {} /\ p.poisonBlocks
  OBVIOUS
<1> PICK glass \in BOOLEAN : glass <=> c.breakGlass /\ p.breakGlassHuman
  OBVIOUS
<1> PICK low \in BOOLEAN : low <=> m.logit <= p.noAction /\ ~severe
  OBVIOUS
<1> PICK contain \in BOOLEAN :
       contain <=> m.logit >= p.contain /\ ~critical /\ e.supporting >= p.corroboration
  OBVIOUS
<1> PICK high \in BOOLEAN : high <=> m.logit >= p.escalate \/ severe
  OBVIOUS
<1>3. rule = IF poison THEN "POISON_ABSTAIN" ELSE IF glass THEN "BREAK_GLASS_HUMAN"
             ELSE IF ~grade THEN "NOT_DECISION_GRADE"
             ELSE IF low THEN "BELOW_NO_ACTION_THRESHOLD"
             ELSE IF contain THEN "AUTO_CONTAIN_THRESHOLD"
             ELSE IF high THEN "HUMAN_ESCALATION" ELSE "UNCERTAIN_INVESTIGATE"
  <2>1. /\ (p.contain <= m.logit /\ c.criticality <= p.criticality
            /\ e.supporting >= p.corroboration) <=> contain
        /\ (severe \/ m.logit >= p.escalate) <=> high
        /\ (~severe /\ m.logit <= p.noAction) <=> low
        /\ (p.poisonBlocks /\ e.poisoned # {}) <=> poison
        /\ (p.breakGlassHuman /\ c.breakGlass) <=> glass
    BY DEF PolicyShape
  <2> PICK sev : sev <=> \E f \in {"credential_dumping", "lateral_movement", "token_reuse", "oauth_grant"} :
                    m.values[f] = 100
    OBVIOUS
  <2>2. rule = IF p.poisonBlocks /\ e.poisoned # {} THEN "POISON_ABSTAIN"
               ELSE IF p.breakGlassHuman /\ c.breakGlass THEN "BREAK_GLASS_HUMAN"
               ELSE IF ~RefDecisionGrade(e, p) THEN "NOT_DECISION_GRADE"
               ELSE IF ~sev /\ m.logit <= p.noAction THEN "BELOW_NO_ACTION_THRESHOLD"
               ELSE IF p.contain <= m.logit /\ c.criticality <= p.criticality
                       /\ e.supporting >= p.corroboration THEN "AUTO_CONTAIN_THRESHOLD"
               ELSE IF sev \/ m.logit >= p.escalate THEN "HUMAN_ESCALATION"
               ELSE "UNCERTAIN_INVESTIGATE"
    BY DEF RefRule
  <2> QED BY <1>1, <1>2, <2>1, <2>2
<1>4. /\ (rules[1][1] <=> poison) /\ rules[1][2] = Investigate("POISON_ABSTAIN", e)
      /\ (rules[2][1] <=> glass)
      /\ rules[2][2] = Proposal("ESCALATE_HUMAN", <<>>, <<"BREAK_GLASS_HUMAN">>, "incident_commander", e)
      /\ (rules[3][1] <=> ~grade) /\ rules[3][2] = Investigate("NOT_DECISION_GRADE", e)
      /\ (rules[4][1] <=> low)
      /\ rules[4][2] = Proposal("NO_ACTION", <<>>, <<"BELOW_NO_ACTION_THRESHOLD">>, "none", e)
  BY DEF PolicyRules
<1>5. /\ (rules[5][1] <=> contain)
      /\ rules[5][2] = Proposal("CONTAIN_REVERSIBLE", p.autonomous,
                                <<"AUTO_CONTAIN_THRESHOLD", "REVERSIBLE_ACTIONS_ONLY">>,
                                "deterministic_policy_gate", e)
      /\ (rules[6][1] <=> high)
      /\ rules[6][2] = Proposal("ESCALATE_HUMAN", <<>>,
                                IF critical THEN <<"HUMAN_ESCALATION", "ASSET_CRITICALITY_HUMAN">>
                                ELSE <<"HUMAN_ESCALATION">>, "soc_shift_lead", e)
      /\ rules[7][1] /\ rules[7][2] = Investigate("UNCERTAIN_INVESTIGATE", e)
  BY DEF PolicyRules
<1> PICK listed : listed = <<rule>> \o (IF rule = "AUTO_CONTAIN_THRESHOLD" THEN <<"REVERSIBLE_ACTIONS_ONLY">>
                                ELSE IF rule = "HUMAN_ESCALATION" /\ c.criticality > p.criticality
                                     THEN <<"ASSET_CRITICALITY_HUMAN">> ELSE <<>>)
  OBVIOUS
<1>6. RefProposal(c, m, e, p) =
        [disposition |-> IF rule = "AUTO_CONTAIN_THRESHOLD" THEN "CONTAIN_REVERSIBLE"
                         ELSE IF rule = "BELOW_NO_ACTION_THRESHOLD" THEN "NO_ACTION"
                         ELSE IF RefAuthority[rule] = "read_only_automation" THEN "INVESTIGATE"
                         ELSE "ESCALATE_HUMAN",
         actions |-> IF rule = "AUTO_CONTAIN_THRESHOLD" THEN p.autonomous ELSE <<>>,
         rules |-> listed,
         authority |-> RefAuthority[rule],
         cited |-> cited,
         rollback |-> IF rule = "AUTO_CONTAIN_THRESHOLD"
                      THEN {"revoke_active_sessions", "force_step_up_auth", "increase_monitoring"}
                      ELSE {}]
  BY DEF RefProposal
<1>9. listed = IF rule = "AUTO_CONTAIN_THRESHOLD" THEN <<rule, "REVERSIBLE_ACTIONS_ONLY">>
               ELSE IF rule = "HUMAN_ESCALATION" /\ critical
                    THEN <<rule, "ASSET_CRITICALITY_HUMAN">> ELSE <<rule>>
  BY Joined
<1>10. Propose(c, m, e, p) =
         IF poison THEN rules[1][2] ELSE IF glass THEN rules[2][2] ELSE IF ~grade THEN rules[3][2]
         ELSE IF low THEN rules[4][2] ELSE IF contain THEN rules[5][2]
         ELSE IF high THEN rules[6][2] ELSE rules[7][2]
  <2> HIDE DEF rules
  <2>0. \A k \in 1..7 : rules[k][1] /\ (\A j \in 1..7 : j < k => ~rules[j][1])
                          => Propose(c, m, e, p) = rules[k][2]
    BY FirstRule DEF rules
  <2>1. CASE poison
    BY <1>4, <2>0, <2>1
  <2>2. CASE ~poison /\ glass
    BY <1>4, <2>0, <2>2
  <2>3. CASE ~poison /\ ~glass /\ ~grade
    BY <1>4, <2>0, <2>3
  <2>4. CASE ~poison /\ ~glass /\ grade /\ low
    BY <1>4, <2>0, <2>4
  <2>5. CASE ~poison /\ ~glass /\ grade /\ ~low /\ contain
    BY <1>4, <1>5, <2>0, <2>5
  <2>6. CASE ~poison /\ ~glass /\ grade /\ ~low /\ ~contain /\ high
    BY <1>4, <1>5, <2>0, <2>6
  <2>7. CASE ~poison /\ ~glass /\ grade /\ ~low /\ ~contain /\ ~high
    BY <1>4, <1>5, <2>0, <2>7
  <2> QED BY <2>1, <2>2, <2>3, <2>4, <2>5, <2>6, <2>7
<1> HIDE DEF rules, rule
<1>11. CASE poison
  <2>1. rule = "POISON_ABSTAIN" /\ Propose(c, m, e, p) = rules[1][2]
    BY <1>3, <1>10, <1>11
  <2>2. Propose(c, m, e, p) = Investigate("POISON_ABSTAIN", e)
    BY <1>4, <2>1
  <2>3. Propose(c, m, e, p) = As("INVESTIGATE", <<>>, <<"POISON_ABSTAIN">>, "read_only_automation")
    BY <2>2 DEF Proposal, Investigate
  <2>4. listed = <<"POISON_ABSTAIN">>
    BY <1>9, <2>1
  <2>5. RefAuthority[rule] = "read_only_automation"
    BY <2>1 DEF RefAuthority
  <2>6. RefProposal(c, m, e, p) = As("INVESTIGATE", <<>>, <<"POISON_ABSTAIN">>, "read_only_automation")
    BY <1>6, <2>1, <2>4, <2>5 DEF ReversibleActions
  <2> QED BY <2>3, <2>6
<1>12. CASE ~poison /\ glass
  <2>1. rule = "BREAK_GLASS_HUMAN" /\ Propose(c, m, e, p) = rules[2][2]
    BY <1>3, <1>10, <1>12
  <2>2. Propose(c, m, e, p) = Proposal("ESCALATE_HUMAN", <<>>, <<"BREAK_GLASS_HUMAN">>, "incident_commander", e)
    BY <1>4, <2>1
  <2>3. Propose(c, m, e, p) = As("ESCALATE_HUMAN", <<>>, <<"BREAK_GLASS_HUMAN">>, "incident_commander")
    BY <2>2 DEF Proposal, Investigate
  <2>4. listed = <<"BREAK_GLASS_HUMAN">>
    BY <1>9, <2>1
  <2>5. RefAuthority[rule] = "incident_commander"
    BY <2>1 DEF RefAuthority
  <2>6. RefProposal(c, m, e, p) = As("ESCALATE_HUMAN", <<>>, <<"BREAK_GLASS_HUMAN">>, "incident_commander")
    BY <1>6, <2>1, <2>4, <2>5 DEF ReversibleActions
  <2> QED BY <2>3, <2>6
<1>13. CASE ~poison /\ ~glass /\ ~grade
  <2>1. rule = "NOT_DECISION_GRADE" /\ Propose(c, m, e, p) = rules[3][2]
    BY <1>3, <1>10, <1>13
  <2>2. Propose(c, m, e, p) = Investigate("NOT_DECISION_GRADE", e)
    BY <1>4, <2>1
  <2>3. Propose(c, m, e, p) = As("INVESTIGATE", <<>>, <<"NOT_DECISION_GRADE">>, "read_only_automation")
    BY <2>2 DEF Proposal, Investigate
  <2>4. listed = <<"NOT_DECISION_GRADE">>
    BY <1>9, <2>1
  <2>5. RefAuthority[rule] = "read_only_automation"
    BY <2>1 DEF RefAuthority
  <2>6. RefProposal(c, m, e, p) = As("INVESTIGATE", <<>>, <<"NOT_DECISION_GRADE">>, "read_only_automation")
    BY <1>6, <2>1, <2>4, <2>5 DEF ReversibleActions
  <2> QED BY <2>3, <2>6
<1>14. CASE ~poison /\ ~glass /\ grade /\ low
  <2>1. rule = "BELOW_NO_ACTION_THRESHOLD" /\ Propose(c, m, e, p) = rules[4][2]
    BY <1>3, <1>10, <1>14
  <2>2. Propose(c, m, e, p) = Proposal("NO_ACTION", <<>>, <<"BELOW_NO_ACTION_THRESHOLD">>, "none", e)
    BY <1>4, <2>1
  <2>3. Propose(c, m, e, p) = As("NO_ACTION", <<>>, <<"BELOW_NO_ACTION_THRESHOLD">>, "none")
    BY <2>2 DEF Proposal, Investigate
  <2>4. listed = <<"BELOW_NO_ACTION_THRESHOLD">>
    BY <1>9, <2>1
  <2>5. RefAuthority[rule] = "none"
    BY <2>1 DEF RefAuthority
  <2>6. RefProposal(c, m, e, p) = As("NO_ACTION", <<>>, <<"BELOW_NO_ACTION_THRESHOLD">>, "none")
    BY <1>6, <2>1, <2>4, <2>5 DEF ReversibleActions
  <2> QED BY <2>3, <2>6
<1>15. CASE ~poison /\ ~glass /\ grade /\ ~low /\ contain
  <2>1. rule = "AUTO_CONTAIN_THRESHOLD" /\ Propose(c, m, e, p) = rules[5][2]
    BY <1>3, <1>10, <1>15
  <2>2. Propose(c, m, e, p) = Proposal("CONTAIN_REVERSIBLE", p.autonomous, <<"AUTO_CONTAIN_THRESHOLD", "REVERSIBLE_ACTIONS_ONLY">>, "deterministic_policy_gate", e)
    BY <1>5, <2>1
  <2>3. Propose(c, m, e, p) = As("CONTAIN_REVERSIBLE", p.autonomous, <<"AUTO_CONTAIN_THRESHOLD", "REVERSIBLE_ACTIONS_ONLY">>, "deterministic_policy_gate")
    BY <2>2 DEF Proposal, Investigate
  <2>4. listed = <<"AUTO_CONTAIN_THRESHOLD", "REVERSIBLE_ACTIONS_ONLY">>
    BY <1>9, <2>1
  <2>5. RefAuthority[rule] = "deterministic_policy_gate"
    BY <2>1 DEF RefAuthority
  <2>6. RefProposal(c, m, e, p) = As("CONTAIN_REVERSIBLE", p.autonomous, <<"AUTO_CONTAIN_THRESHOLD", "REVERSIBLE_ACTIONS_ONLY">>, "deterministic_policy_gate")
    BY <1>6, <2>1, <2>4, <2>5 DEF ReversibleActions
  <2> QED BY <2>3, <2>6
<1>16. CASE ~poison /\ ~glass /\ grade /\ ~low /\ ~contain /\ high
  <2>1. rule = "HUMAN_ESCALATION" /\ Propose(c, m, e, p) = rules[6][2]
    BY <1>3, <1>10, <1>16
  <2>2. Propose(c, m, e, p) = Proposal("ESCALATE_HUMAN", <<>>, (IF critical THEN <<"HUMAN_ESCALATION", "ASSET_CRITICALITY_HUMAN">>
                                ELSE <<"HUMAN_ESCALATION">>), "soc_shift_lead", e)
    BY <1>5, <2>1
  <2>3. Propose(c, m, e, p) = As("ESCALATE_HUMAN", <<>>, (IF critical THEN <<"HUMAN_ESCALATION", "ASSET_CRITICALITY_HUMAN">>
                                ELSE <<"HUMAN_ESCALATION">>), "soc_shift_lead")
    BY <2>2 DEF Proposal, Investigate
  <2>4. listed = (IF critical THEN <<"HUMAN_ESCALATION", "ASSET_CRITICALITY_HUMAN">>
                                ELSE <<"HUMAN_ESCALATION">>)
    BY <1>9, <2>1
  <2>5. RefAuthority[rule] = "soc_shift_lead"
    BY <2>1 DEF RefAuthority
  <2>6. RefProposal(c, m, e, p) = As("ESCALATE_HUMAN", <<>>, (IF critical THEN <<"HUMAN_ESCALATION", "ASSET_CRITICALITY_HUMAN">>
                                ELSE <<"HUMAN_ESCALATION">>), "soc_shift_lead")
    BY <1>6, <2>1, <2>4, <2>5 DEF ReversibleActions
  <2> QED BY <2>3, <2>6
<1>17. CASE ~poison /\ ~glass /\ grade /\ ~low /\ ~contain /\ ~high
  <2>1. rule = "UNCERTAIN_INVESTIGATE" /\ Propose(c, m, e, p) = rules[7][2]
    BY <1>3, <1>10, <1>17
  <2>2. Propose(c, m, e, p) = Investigate("UNCERTAIN_INVESTIGATE", e)
    BY <1>5, <2>1
  <2>3. Propose(c, m, e, p) = As("INVESTIGATE", <<>>, <<"UNCERTAIN_INVESTIGATE">>, "read_only_automation")
    BY <2>2 DEF Proposal, Investigate
  <2>4. listed = <<"UNCERTAIN_INVESTIGATE">>
    BY <1>9, <2>1
  <2>5. RefAuthority[rule] = "read_only_automation"
    BY <2>1 DEF RefAuthority
  <2>6. RefProposal(c, m, e, p) = As("INVESTIGATE", <<>>, <<"UNCERTAIN_INVESTIGATE">>, "read_only_automation")
    BY <1>6, <2>1, <2>4, <2>5 DEF ReversibleActions
  <2> QED BY <2>3, <2>6
<1> QED BY <1>11, <1>12, <1>13, <1>14, <1>15, <1>16, <1>17

\* A proposal without actions is one whose list of actions is empty.
LEMMA NoActions ==
  ASSUME NEW prop, prop.actions \in Seq(STRING)
  PROVE  ActionsOf(prop) = {} <=> prop.actions = <<>>
<1> PICK s \in Seq(STRING) : s = prop.actions
  OBVIOUS
<1>1. (1..Len(s) = {}) <=> s = <<>>
  <2>1. s = <<>> => 1..Len(s) = {}
    OBVIOUS
  <2>2. ASSUME s # <<>> PROVE 1 \in 1..Len(s)
    <3>1. Len(s) \in Nat /\ Len(s) # 0
      BY <2>2, EmptySeq
    <3> QED BY <3>1
  <2> QED BY <2>1, <2>2
<1>2. DOMAIN s = 1..Len(s)
  OBVIOUS
<1>3. ActionsOf(prop) = {s[i] : i \in DOMAIN s}
  BY DEF ActionsOf
<1> QED BY <1>1, <1>2, <1>3

\* What stops a proposal is the same for both verifiers, check by check.
LEMMA VerifiersAgree ==
  ASSUME NEW c, NEW m, NEW e, NEW prop, NEW p,
         EvidenceNumbers(e), PolicyShape(p), prop.actions \in Seq(STRING),
         c.criticality \in Int, c.breakGlass \in BOOLEAN, m.logit \in Int
  PROVE  RefVerification(c, m, e, prop, p) = Verify(c, m, e, prop, p)
<1> DEFINE act == {prop.actions[i] : i \in DOMAIN prop.actions}
           contain == prop.disposition = "CONTAIN_REVERSIBLE"
           q1 == m.logit < -300000 \/ m.logit > 300000
           q2 == \E i \in prop.cited : i \notin DOMAIN c.events
           q3 == \E f \in Features : ~(m.trace[f] \subseteq DOMAIN c.events)
           q4 == \E a \in act : a \in p.humanOnly
           q5 == \E a \in act : a \notin Autonomous(p)
           q6 == contain /\ m.logit < p.contain
           q7 == contain /\ e.quality < p.quality * 805 * e.count
           q8 == contain /\ 100 * e.provenance < p.provenance * e.count
           q9 == contain /\ 100 * e.verified < p.integrity * e.count
           q10 == contain /\ e.supporting < p.corroboration
           q11 == contain /\ e.conflicts > p.conflicts
           q12 == contain /\ e.poisoned # {}
           q13 == contain /\ c.breakGlass
           q14 == contain /\ c.criticality > p.criticality
           q15 == contain /\ \E a \in act : a \notin prop.rollback
           q16 == contain /\ act = {}
           q17 == ~contain /\ act # {}
           fails ==
             [MODEL_PROBABILITY_RANGE |-> q1,
              TRACE_EVENTS_EXIST |-> q2,
              MODEL_FEATURE_TRACE |-> q3,
              NO_HUMAN_ONLY_EXECUTION |-> q4,
              EXECUTABLE_ACTIONS_ALLOWLISTED |-> q5,
              CONTAIN_RISK_THRESHOLD |-> q6,
              CONTAIN_EVIDENCE_QUALITY |-> q7,
              CONTAIN_PROVENANCE |-> q8,
              CONTAIN_INTEGRITY |-> q9,
              CONTAIN_CORROBORATION |-> q10,
              CONTAIN_NO_CONFLICT |-> q11,
              CONTAIN_NO_POISON |-> q12,
              CONTAIN_NOT_BREAK_GLASS |-> q13,
              CONTAIN_ASSET_BOUNDARY |-> q14,
              CONTAIN_ROLLBACK |-> q15,
              CONTAIN_ACTIONS_PRESENT |-> q16,
              NON_CONTAIN_NO_EXECUTION |-> q17]
           names == {"MODEL_PROBABILITY_RANGE",
              "TRACE_EVENTS_EXIST",
              "MODEL_FEATURE_TRACE",
              "NO_HUMAN_ONLY_EXECUTION",
              "EXECUTABLE_ACTIONS_ALLOWLISTED",
              "CONTAIN_RISK_THRESHOLD",
              "CONTAIN_EVIDENCE_QUALITY",
              "CONTAIN_PROVENANCE",
              "CONTAIN_INTEGRITY",
              "CONTAIN_CORROBORATION",
              "CONTAIN_NO_CONFLICT",
              "CONTAIN_NO_POISON",
              "CONTAIN_NOT_BREAK_GLASS",
              "CONTAIN_ASSET_BOUNDARY",
              "CONTAIN_ROLLBACK",
              "CONTAIN_ACTIONS_PRESENT",
              "NON_CONTAIN_NO_EXECUTION"}
           V == Verify(c, m, e, prop, p)
           R == RefVerification(c, m, e, prop, p)
<1>1. ActionsOf(prop) = act /\ (act = {} <=> prop.actions = <<>>)
  BY NoActions DEF ActionsOf
<1>01. ~(m.logit \in -Clip..Clip) <=> m.logit < -300000 \/ m.logit > 300000
  <2> PICK l \in Int, k \in Int : l = m.logit /\ k = Clip
    BY DEF Clip
  <2>1. ~(l \in -k..k) <=> l < -k \/ l > k
    OBVIOUS
  <2>2. l < -k \/ l > k <=> m.logit < -300000 \/ m.logit > 300000
    BY DEF Clip
  <2> QED BY <2>1, <2>2
<1>02. (\E f \in Features : ~(m.trace[f] \subseteq DOMAIN c.events)) <=> ~(\A f \in Features : m.trace[f] \subseteq Ids(c))
  BY Zenon DEF Ids
<1>03. ASSUME NEW S PROVE /\ (\E a \in act : a \in S) <=> ~(act \cap S = {})
                          /\ (\E a \in act : a \notin S) <=> ~(act \subseteq S)
  <2> HIDE DEF act
  <2> PICK A : A = act
    OBVIOUS
  <2>1. (\E a \in A : a \in S) <=> ~(A \cap S = {})
    BY SMT
  <2>2. (\E a \in A : a \notin S) <=> ~(A \subseteq S)
    BY SMT
  <2> QED BY <2>1, <2>2
<1>04. /\ e.count \in Int /\ e.quality \in Int /\ e.provenance \in Int /\ e.verified \in Int
        /\ e.supporting \in Int /\ e.conflicts \in Int
        /\ p.quality \in Int /\ p.provenance \in Int /\ p.integrity \in Int
        /\ p.contain \in Int /\ p.corroboration \in Int /\ p.conflicts \in Int
        /\ p.criticality \in Int /\ m.logit \in Int /\ c.criticality \in Int
  BY DEF EvidenceNumbers, PolicyShape
<1>2. R = {name \in DOMAIN fails : fails[name]}
  BY SMT DEF RefVerification
<1>3. V \subseteq names
  BY SMT DEF Verify, EveryChecks, ContainChecks, Check
<1> HIDE DEF q1, q2, q3, q4, q5, q6, q7, q8, q9, q10, q11, q12, q13, q14, q15, q16, q17, contain, act
<1>4. DOMAIN fails = names
  BY SMT
<1>5. /\ (fails.MODEL_PROBABILITY_RANGE <=> q1)
      /\ (fails.TRACE_EVENTS_EXIST <=> q2)
      /\ (fails.MODEL_FEATURE_TRACE <=> q3)
      /\ (fails.NO_HUMAN_ONLY_EXECUTION <=> q4)
      /\ (fails.EXECUTABLE_ACTIONS_ALLOWLISTED <=> q5)
      /\ (fails.CONTAIN_RISK_THRESHOLD <=> q6)
      /\ (fails.CONTAIN_EVIDENCE_QUALITY <=> q7)
      /\ (fails.CONTAIN_PROVENANCE <=> q8)
      /\ (fails.CONTAIN_INTEGRITY <=> q9)
      /\ (fails.CONTAIN_CORROBORATION <=> q10)
      /\ (fails.CONTAIN_NO_CONFLICT <=> q11)
      /\ (fails.CONTAIN_NO_POISON <=> q12)
      /\ (fails.CONTAIN_NOT_BREAK_GLASS <=> q13)
      /\ (fails.CONTAIN_ASSET_BOUNDARY <=> q14)
      /\ (fails.CONTAIN_ROLLBACK <=> q15)
      /\ (fails.CONTAIN_ACTIONS_PRESENT <=> q16)
      /\ (fails.NON_CONTAIN_NO_EXECUTION <=> q17)
  BY SMT
<1> HIDE DEF fails
<1>6. \A n \in names : n \in R <=> fails[n]
  BY <1>2, <1>4, Zenon
<1> HIDE DEF V, R
<1>10. "MODEL_PROBABILITY_RANGE" \in R <=> "MODEL_PROBABILITY_RANGE" \in V
  <2>1. "MODEL_PROBABILITY_RANGE" \in R <=> q1
    BY <1>5, <1>6, SMT
  <2>2. "MODEL_PROBABILITY_RANGE" \in V <=> ~(m.logit \in -Clip..Clip)
    <3>1. "MODEL_PROBABILITY_RANGE" \in V <=> "MODEL_PROBABILITY_RANGE" \in EveryChecks(c, m, prop, p)
      BY SMT DEF V, Verify, ContainChecks, Check
    <3>2. "MODEL_PROBABILITY_RANGE" \in EveryChecks(c, m, prop, p) <=> ~(m.logit \in -Clip..Clip)
      BY SMT DEF EveryChecks, Check
    <3> QED BY <3>1, <3>2, SMT
  <2>3. q1 <=> ~(m.logit \in -Clip..Clip)
    BY <1>01, SMT DEF q1
  <2> QED BY <2>1, <2>2, <2>3, SMT
<1>11. "TRACE_EVENTS_EXIST" \in R <=> "TRACE_EVENTS_EXIST" \in V
  <2>1. "TRACE_EVENTS_EXIST" \in R <=> q2
    BY <1>5, <1>6, SMT
  <2>2. "TRACE_EVENTS_EXIST" \in V <=> ~(prop.cited \subseteq Ids(c))
    <3>1. "TRACE_EVENTS_EXIST" \in V <=> "TRACE_EVENTS_EXIST" \in EveryChecks(c, m, prop, p)
      BY SMT DEF V, Verify, ContainChecks, Check
    <3>2. "TRACE_EVENTS_EXIST" \in EveryChecks(c, m, prop, p) <=> ~(prop.cited \subseteq Ids(c))
      BY SMT DEF EveryChecks, Check
    <3> QED BY <3>1, <3>2, SMT
  <2>3. q2 <=> ~(prop.cited \subseteq Ids(c))
    BY Zenon DEF q2, Ids
  <2> QED BY <2>1, <2>2, <2>3, SMT
<1>12. "MODEL_FEATURE_TRACE" \in R <=> "MODEL_FEATURE_TRACE" \in V
  <2>1. "MODEL_FEATURE_TRACE" \in R <=> q3
    BY <1>5, <1>6, SMT
  <2>2. "MODEL_FEATURE_TRACE" \in V <=> ~(\A f \in Features : m.trace[f] \subseteq Ids(c))
    <3>1. "MODEL_FEATURE_TRACE" \in V <=> "MODEL_FEATURE_TRACE" \in EveryChecks(c, m, prop, p)
      BY SMT DEF V, Verify, ContainChecks, Check
    <3>2. "MODEL_FEATURE_TRACE" \in EveryChecks(c, m, prop, p) <=> ~(\A f \in Features : m.trace[f] \subseteq Ids(c))
      BY SMT DEF EveryChecks, Check
    <3> QED BY <3>1, <3>2, SMT
  <2>3. q3 <=> ~(\A f \in Features : m.trace[f] \subseteq Ids(c))
    BY <1>02, Zenon DEF q3
  <2> QED BY <2>1, <2>2, <2>3, SMT
<1>13. "NO_HUMAN_ONLY_EXECUTION" \in R <=> "NO_HUMAN_ONLY_EXECUTION" \in V
  <2>1. "NO_HUMAN_ONLY_EXECUTION" \in R <=> q4
    BY <1>5, <1>6, SMT
  <2>2. "NO_HUMAN_ONLY_EXECUTION" \in V <=> ~(ActionsOf(prop) \cap p.humanOnly = {})
    <3>1. "NO_HUMAN_ONLY_EXECUTION" \in V <=> "NO_HUMAN_ONLY_EXECUTION" \in EveryChecks(c, m, prop, p)
      BY SMT DEF V, Verify, ContainChecks, Check
    <3>2. "NO_HUMAN_ONLY_EXECUTION" \in EveryChecks(c, m, prop, p) <=> ~(ActionsOf(prop) \cap p.humanOnly = {})
      BY SMT DEF EveryChecks, Check
    <3> QED BY <3>1, <3>2, SMT
  <2>3. q4 <=> ~(ActionsOf(prop) \cap p.humanOnly = {})
    BY <1>1, <1>03, Zenon DEF q4
  <2> QED BY <2>1, <2>2, <2>3, SMT
<1>14. "EXECUTABLE_ACTIONS_ALLOWLISTED" \in R <=> "EXECUTABLE_ACTIONS_ALLOWLISTED" \in V
  <2>1. "EXECUTABLE_ACTIONS_ALLOWLISTED" \in R <=> q5
    BY <1>5, <1>6, SMT
  <2>2. "EXECUTABLE_ACTIONS_ALLOWLISTED" \in V <=> ~(ActionsOf(prop) \subseteq Autonomous(p))
    <3>1. "EXECUTABLE_ACTIONS_ALLOWLISTED" \in V <=> "EXECUTABLE_ACTIONS_ALLOWLISTED" \in EveryChecks(c, m, prop, p)
      BY SMT DEF V, Verify, ContainChecks, Check
    <3>2. "EXECUTABLE_ACTIONS_ALLOWLISTED" \in EveryChecks(c, m, prop, p) <=> ~(ActionsOf(prop) \subseteq Autonomous(p))
      BY SMT DEF EveryChecks, Check
    <3> QED BY <3>1, <3>2, SMT
  <2>3. q5 <=> ~(ActionsOf(prop) \subseteq Autonomous(p))
    BY <1>1, <1>03, Zenon DEF q5
  <2> QED BY <2>1, <2>2, <2>3, SMT
<1>15. "CONTAIN_RISK_THRESHOLD" \in R <=> "CONTAIN_RISK_THRESHOLD" \in V
  <2>1. "CONTAIN_RISK_THRESHOLD" \in R <=> q6
    BY <1>5, <1>6, SMT
  <2>2. "CONTAIN_RISK_THRESHOLD" \in V <=> contain /\ ~(m.logit >= p.contain)
    <3>1. "CONTAIN_RISK_THRESHOLD" \in V <=> contain /\ "CONTAIN_RISK_THRESHOLD" \in ContainChecks(c, m, e, prop, p)
      BY SMT DEF V, Verify, EveryChecks, Check, contain
    <3>2. "CONTAIN_RISK_THRESHOLD" \in ContainChecks(c, m, e, prop, p) <=> ~(m.logit >= p.contain)
      BY SMT DEF ContainChecks, Check
    <3> QED BY <3>1, <3>2, SMT
  <2>3. q6 <=> contain /\ ~(m.logit >= p.contain)
    <3> PICK x \in Int, y \in Int : x = m.logit /\ y = p.contain
      BY <1>04, SMT
    <3>1. (x < y) <=> ~(x >= y)
      BY SMT
    <3> QED BY <3>1, Zenon DEF q6
  <2> QED BY <2>1, <2>2, <2>3, SMT
<1>16. "CONTAIN_EVIDENCE_QUALITY" \in R <=> "CONTAIN_EVIDENCE_QUALITY" \in V
  <2>1. "CONTAIN_EVIDENCE_QUALITY" \in R <=> q7
    BY <1>5, <1>6, SMT
  <2>2. "CONTAIN_EVIDENCE_QUALITY" \in V <=> contain /\ ~(e.quality >= 805 * e.count * p.quality)
    <3>1. "CONTAIN_EVIDENCE_QUALITY" \in V <=> contain /\ "CONTAIN_EVIDENCE_QUALITY" \in ContainChecks(c, m, e, prop, p)
      BY SMT DEF V, Verify, EveryChecks, Check, contain
    <3>2. "CONTAIN_EVIDENCE_QUALITY" \in ContainChecks(c, m, e, prop, p) <=> ~(e.quality >= 805 * e.count * p.quality)
      BY SMT DEF ContainChecks, Check
    <3> QED BY <3>1, <3>2, SMT
  <2>3. q7 <=> contain /\ ~(e.quality >= 805 * e.count * p.quality)
    <3> PICK n \in Int, k \in Int, x \in Int : n = e.count /\ k = p.quality /\ x = e.quality
      BY <1>04, SMT
    <3> PICK y \in Int : y = 805 * n * k
      BY SMT
    <3>1. k * 805 * n = y
      BY SMT
    <3>2. x < y <=> ~(x >= y)
      BY SMT
    <3>3. e.quality < p.quality * 805 * e.count <=> x < y
      BY <3>1, SMT
    <3>4. e.quality >= 805 * e.count * p.quality <=> x >= y
      BY SMT
    <3> QED BY <3>2, <3>3, <3>4, SMT DEF q7
  <2> QED BY <2>1, <2>2, <2>3, SMT
<1>17. "CONTAIN_PROVENANCE" \in R <=> "CONTAIN_PROVENANCE" \in V
  <2>1. "CONTAIN_PROVENANCE" \in R <=> q8
    BY <1>5, <1>6, SMT
  <2>2. "CONTAIN_PROVENANCE" \in V <=> contain /\ ~(100 * e.provenance >= p.provenance * e.count)
    <3>1. "CONTAIN_PROVENANCE" \in V <=> contain /\ "CONTAIN_PROVENANCE" \in ContainChecks(c, m, e, prop, p)
      BY SMT DEF V, Verify, EveryChecks, Check, contain
    <3>2. "CONTAIN_PROVENANCE" \in ContainChecks(c, m, e, prop, p) <=> ~(100 * e.provenance >= p.provenance * e.count)
      BY SMT DEF ContainChecks, Check
    <3> QED BY <3>1, <3>2, SMT
  <2>3. q8 <=> contain /\ ~(100 * e.provenance >= p.provenance * e.count)
    <3> PICK n \in Int, k \in Int, x \in Int : n = e.count /\ k = p.provenance /\ x = e.provenance
      BY <1>04, SMT
    <3>1. (100 * x < k * n) <=> ~(100 * x >= k * n)
      BY SMT
    <3> QED BY <3>1, Zenon DEF q8
  <2> QED BY <2>1, <2>2, <2>3, SMT
<1>18. "CONTAIN_INTEGRITY" \in R <=> "CONTAIN_INTEGRITY" \in V
  <2>1. "CONTAIN_INTEGRITY" \in R <=> q9
    BY <1>5, <1>6, SMT
  <2>2. "CONTAIN_INTEGRITY" \in V <=> contain /\ ~(100 * e.verified >= p.integrity * e.count)
    <3>1. "CONTAIN_INTEGRITY" \in V <=> contain /\ "CONTAIN_INTEGRITY" \in ContainChecks(c, m, e, prop, p)
      BY SMT DEF V, Verify, EveryChecks, Check, contain
    <3>2. "CONTAIN_INTEGRITY" \in ContainChecks(c, m, e, prop, p) <=> ~(100 * e.verified >= p.integrity * e.count)
      BY SMT DEF ContainChecks, Check
    <3> QED BY <3>1, <3>2, SMT
  <2>3. q9 <=> contain /\ ~(100 * e.verified >= p.integrity * e.count)
    <3> PICK n \in Int, k \in Int, x \in Int : n = e.count /\ k = p.integrity /\ x = e.verified
      BY <1>04, SMT
    <3>1. (100 * x < k * n) <=> ~(100 * x >= k * n)
      BY SMT
    <3> QED BY <3>1, Zenon DEF q9
  <2> QED BY <2>1, <2>2, <2>3, SMT
<1>19. "CONTAIN_CORROBORATION" \in R <=> "CONTAIN_CORROBORATION" \in V
  <2>1. "CONTAIN_CORROBORATION" \in R <=> q10
    BY <1>5, <1>6, SMT
  <2>2. "CONTAIN_CORROBORATION" \in V <=> contain /\ ~(e.supporting >= p.corroboration)
    <3>1. "CONTAIN_CORROBORATION" \in V <=> contain /\ "CONTAIN_CORROBORATION" \in ContainChecks(c, m, e, prop, p)
      BY SMT DEF V, Verify, EveryChecks, Check, contain
    <3>2. "CONTAIN_CORROBORATION" \in ContainChecks(c, m, e, prop, p) <=> ~(e.supporting >= p.corroboration)
      BY SMT DEF ContainChecks, Check
    <3> QED BY <3>1, <3>2, SMT
  <2>3. q10 <=> contain /\ ~(e.supporting >= p.corroboration)
    <3> PICK x \in Int, y \in Int : x = e.supporting /\ y = p.corroboration
      BY <1>04, SMT
    <3>1. (x < y) <=> ~(x >= y)
      BY SMT
    <3> QED BY <3>1, Zenon DEF q10
  <2> QED BY <2>1, <2>2, <2>3, SMT
<1>20. "CONTAIN_NO_CONFLICT" \in R <=> "CONTAIN_NO_CONFLICT" \in V
  <2>1. "CONTAIN_NO_CONFLICT" \in R <=> q11
    BY <1>5, <1>6, SMT
  <2>2. "CONTAIN_NO_CONFLICT" \in V <=> contain /\ ~(e.conflicts <= p.conflicts)
    <3>1. "CONTAIN_NO_CONFLICT" \in V <=> contain /\ "CONTAIN_NO_CONFLICT" \in ContainChecks(c, m, e, prop, p)
      BY SMT DEF V, Verify, EveryChecks, Check, contain
    <3>2. "CONTAIN_NO_CONFLICT" \in ContainChecks(c, m, e, prop, p) <=> ~(e.conflicts <= p.conflicts)
      BY SMT DEF ContainChecks, Check
    <3> QED BY <3>1, <3>2, SMT
  <2>3. q11 <=> contain /\ ~(e.conflicts <= p.conflicts)
    <3> PICK x \in Int, y \in Int : x = e.conflicts /\ y = p.conflicts
      BY <1>04, SMT
    <3>1. (x > y) <=> ~(x <= y)
      BY SMT
    <3> QED BY <3>1, Zenon DEF q11
  <2> QED BY <2>1, <2>2, <2>3, SMT
<1>21. "CONTAIN_NO_POISON" \in R <=> "CONTAIN_NO_POISON" \in V
  <2>1. "CONTAIN_NO_POISON" \in R <=> q12
    BY <1>5, <1>6, SMT
  <2>2. "CONTAIN_NO_POISON" \in V <=> contain /\ ~(e.poisoned = {})
    <3>1. "CONTAIN_NO_POISON" \in V <=> contain /\ "CONTAIN_NO_POISON" \in ContainChecks(c, m, e, prop, p)
      BY SMT DEF V, Verify, EveryChecks, Check, contain
    <3>2. "CONTAIN_NO_POISON" \in ContainChecks(c, m, e, prop, p) <=> ~(e.poisoned = {})
      BY SMT DEF ContainChecks, Check
    <3> QED BY <3>1, <3>2, SMT
  <2>3. q12 <=> contain /\ ~(e.poisoned = {})
    BY Zenon DEF q12
  <2> QED BY <2>1, <2>2, <2>3, SMT
<1>22. "CONTAIN_NOT_BREAK_GLASS" \in R <=> "CONTAIN_NOT_BREAK_GLASS" \in V
  <2>1. "CONTAIN_NOT_BREAK_GLASS" \in R <=> q13
    BY <1>5, <1>6, SMT
  <2>2. "CONTAIN_NOT_BREAK_GLASS" \in V <=> contain /\ ~(~c.breakGlass)
    <3>1. "CONTAIN_NOT_BREAK_GLASS" \in V <=> contain /\ "CONTAIN_NOT_BREAK_GLASS" \in ContainChecks(c, m, e, prop, p)
      BY SMT DEF V, Verify, EveryChecks, Check, contain
    <3>2. "CONTAIN_NOT_BREAK_GLASS" \in ContainChecks(c, m, e, prop, p) <=> ~(~c.breakGlass)
      BY SMT DEF ContainChecks, Check
    <3> QED BY <3>1, <3>2, SMT
  <2>3. q13 <=> contain /\ ~(~c.breakGlass)
    BY Zenon DEF q13
  <2> QED BY <2>1, <2>2, <2>3, SMT
<1>23. "CONTAIN_ASSET_BOUNDARY" \in R <=> "CONTAIN_ASSET_BOUNDARY" \in V
  <2>1. "CONTAIN_ASSET_BOUNDARY" \in R <=> q14
    BY <1>5, <1>6, SMT
  <2>2. "CONTAIN_ASSET_BOUNDARY" \in V <=> contain /\ ~(c.criticality <= p.criticality)
    <3>1. "CONTAIN_ASSET_BOUNDARY" \in V <=> contain /\ "CONTAIN_ASSET_BOUNDARY" \in ContainChecks(c, m, e, prop, p)
      BY SMT DEF V, Verify, EveryChecks, Check, contain
    <3>2. "CONTAIN_ASSET_BOUNDARY" \in ContainChecks(c, m, e, prop, p) <=> ~(c.criticality <= p.criticality)
      BY SMT DEF ContainChecks, Check
    <3> QED BY <3>1, <3>2, SMT
  <2>3. q14 <=> contain /\ ~(c.criticality <= p.criticality)
    <3> PICK x \in Int, y \in Int : x = c.criticality /\ y = p.criticality
      BY <1>04, SMT
    <3>1. (x > y) <=> ~(x <= y)
      BY SMT
    <3> QED BY <3>1, Zenon DEF q14
  <2> QED BY <2>1, <2>2, <2>3, SMT
<1>24. "CONTAIN_ROLLBACK" \in R <=> "CONTAIN_ROLLBACK" \in V
  <2>1. "CONTAIN_ROLLBACK" \in R <=> q15
    BY <1>5, <1>6, SMT
  <2>2. "CONTAIN_ROLLBACK" \in V <=> contain /\ ~(ActionsOf(prop) \subseteq prop.rollback)
    <3>1. "CONTAIN_ROLLBACK" \in V <=> contain /\ "CONTAIN_ROLLBACK" \in ContainChecks(c, m, e, prop, p)
      BY SMT DEF V, Verify, EveryChecks, Check, contain
    <3>2. "CONTAIN_ROLLBACK" \in ContainChecks(c, m, e, prop, p) <=> ~(ActionsOf(prop) \subseteq prop.rollback)
      BY SMT DEF ContainChecks, Check
    <3> QED BY <3>1, <3>2, SMT
  <2>3. q15 <=> contain /\ ~(ActionsOf(prop) \subseteq prop.rollback)
    BY <1>1, <1>03, Zenon DEF q15
  <2> QED BY <2>1, <2>2, <2>3, SMT
<1>25. "CONTAIN_ACTIONS_PRESENT" \in R <=> "CONTAIN_ACTIONS_PRESENT" \in V
  <2>1. "CONTAIN_ACTIONS_PRESENT" \in R <=> q16
    BY <1>5, <1>6, SMT
  <2>2. "CONTAIN_ACTIONS_PRESENT" \in V <=> contain /\ ~(prop.actions # <<>>)
    <3>1. "CONTAIN_ACTIONS_PRESENT" \in V <=> contain /\ "CONTAIN_ACTIONS_PRESENT" \in ContainChecks(c, m, e, prop, p)
      BY SMT DEF V, Verify, EveryChecks, Check, contain
    <3>2. "CONTAIN_ACTIONS_PRESENT" \in ContainChecks(c, m, e, prop, p) <=> ~(prop.actions # <<>>)
      BY SMT DEF ContainChecks, Check
    <3> QED BY <3>1, <3>2, SMT
  <2>3. q16 <=> contain /\ ~(prop.actions # <<>>)
    BY <1>1, Zenon DEF q16
  <2> QED BY <2>1, <2>2, <2>3, SMT
<1>26. "NON_CONTAIN_NO_EXECUTION" \in R <=> "NON_CONTAIN_NO_EXECUTION" \in V
  <2>1. "NON_CONTAIN_NO_EXECUTION" \in R <=> q17
    BY <1>5, <1>6, SMT
  <2>2. "NON_CONTAIN_NO_EXECUTION" \in V <=> ~contain /\ prop.actions # <<>>
    BY SMT DEF V, Verify, EveryChecks, ContainChecks, Check, contain
  <2>3. q17 <=> ~contain /\ prop.actions # <<>>
    BY <1>1, SMT DEF q17
  <2> QED BY <2>1, <2>2, <2>3, SMT
<1>27. \A n \in names : n \in R <=> n \in V
  BY <1>10, <1>11, <1>12, <1>13, <1>14, <1>15, <1>16, <1>17, <1>18, <1>19, <1>20, <1>21, <1>22, <1>23, <1>24, <1>25, <1>26, SMT
<1>28. R \subseteq names
  BY <1>2, <1>4, Zenon DEF R
<1>29. V \subseteq names
  BY <1>3, Zenon DEF V
<1> HIDE DEF names
<1>30. R = V
  BY <1>27, <1>28, <1>29, Zenon
<1> QED BY <1>30, Zenon DEF R, V

-----------------------------------------------------------------------------
(* The record and its recomputation.                                        *)

\* The names the rules go by.
RuleNames ==
  {"POISON_ABSTAIN", "BREAK_GLASS_HUMAN", "NOT_DECISION_GRADE", "BELOW_NO_ACTION_THRESHOLD",
   "AUTO_CONTAIN_THRESHOLD", "REVERSIBLE_ACTIONS_ONLY", "HUMAN_ESCALATION",
   "ASSET_CRITICALITY_HUMAN", "UNCERTAIN_INVESTIGATE", "FAIL_SAFE_VERIFIER_DOWNGRADE"}

\* The rules a proposal gives are a list of them.
LEMMA RulesAreListed ==
  ASSUME NEW c, NEW m, NEW e, NEW p
  PROVE  Propose(c, m, e, p).rules \in Seq(RuleNames)
<1> DEFINE rules == PolicyRules(c, m, e, p)
           applies == {i \in DOMAIN rules : rules[i][1]}
<1>3. DOMAIN rules = 1..7 /\ rules[7][1]
  BY DEF PolicyRules
<1>4. \A i \in 1..7 : rules[i][2].rules \in Seq(RuleNames)
  <2> DEFINE high == IF c.criticality > p.criticality
                     THEN <<"HUMAN_ESCALATION", "ASSET_CRITICALITY_HUMAN">>
                     ELSE <<"HUMAN_ESCALATION">>
  <2>1. /\ rules[1][2].rules = <<"POISON_ABSTAIN">>
        /\ rules[2][2].rules = <<"BREAK_GLASS_HUMAN">>
        /\ rules[3][2].rules = <<"NOT_DECISION_GRADE">>
        /\ rules[4][2].rules = <<"BELOW_NO_ACTION_THRESHOLD">>
        /\ rules[5][2].rules = <<"AUTO_CONTAIN_THRESHOLD", "REVERSIBLE_ACTIONS_ONLY">>
        /\ rules[7][2].rules = <<"UNCERTAIN_INVESTIGATE">>
    BY DEF PolicyRules, Investigate, Proposal
  <2>2. rules[6][2].rules = high
    BY DEF PolicyRules, Proposal
  <2>3. high \in Seq(RuleNames)
    <3>1. <<"HUMAN_ESCALATION", "ASSET_CRITICALITY_HUMAN">> \in Seq(RuleNames)
      BY DEF RuleNames
    <3>2. <<"HUMAN_ESCALATION">> \in Seq(RuleNames)
      BY DEF RuleNames
    <3> QED BY <3>1, <3>2, Zenon
  <2>4. \A r \in RuleNames : <<r>> \in Seq(RuleNames)
    OBVIOUS
  <2>5. <<"AUTO_CONTAIN_THRESHOLD", "REVERSIBLE_ACTIONS_ONLY">> \in Seq(RuleNames)
    BY DEF RuleNames
  <2> HIDE DEF rules, high
  <2>6. /\ rules[1][2].rules \in Seq(RuleNames) /\ rules[2][2].rules \in Seq(RuleNames)
        /\ rules[3][2].rules \in Seq(RuleNames) /\ rules[4][2].rules \in Seq(RuleNames)
        /\ rules[7][2].rules \in Seq(RuleNames)
    BY <2>1, <2>4 DEF RuleNames
  <2>7. rules[5][2].rules \in Seq(RuleNames) /\ rules[6][2].rules \in Seq(RuleNames)
    BY <2>1, <2>2, <2>3, <2>5
  <2> PICK S : S = Seq(RuleNames)
    OBVIOUS
  <2>8. /\ rules[1][2].rules \in S /\ rules[2][2].rules \in S /\ rules[3][2].rules \in S
        /\ rules[4][2].rules \in S /\ rules[5][2].rules \in S /\ rules[6][2].rules \in S
        /\ rules[7][2].rules \in S
    BY <2>6, <2>7
  <2>9. \A i \in 1..7 : i \in {1, 2, 3, 4, 5, 6, 7}
    OBVIOUS
  <2>10. \A i \in 1..7 : rules[i][2].rules \in S
    BY <2>8, <2>9, Zenon
  <2> QED BY <2>10
<1>5. Min(applies) \in 1..7
  BY <1>3, LeastOfSeven
<1> QED BY <1>4, <1>5 DEF Propose

\* A proposal with one field set anew.
LEMMA SetField ==
  ASSUME NEW f, DOMAIN f = Fields, NEW x \in Fields, NEW v, NEW g, g = [f EXCEPT ![x] = v]
  PROVE  /\ DOMAIN g = Fields /\ g[x] = v
         /\ \A y \in Fields : y # x => g[y] = f[y]
         /\ g = [y \in Fields |-> g[y]]
<1> DEFINE set(y) == IF y = x THEN v ELSE f[y]
<1>1. g = [y \in Fields |-> set(y)]
  OBVIOUS
<1> HIDE DEF set
<1>2. DOMAIN g = Fields /\ \A y \in Fields : g[y] = set(y)
  BY <1>1
<1>3. g = [y \in Fields |-> g[y]]
  BY <1>1, <1>2
<1> QED BY <1>2, <1>3 DEF set

\* A proposal is its six fields.
LEMMA ItsFields ==
  ASSUME NEW g, g = [y \in Fields |-> g[y]]
  PROVE  g = [disposition |-> g["disposition"], actions |-> g["actions"],
              rollback |-> g["rollback"], cited |-> g["cited"], rules |-> g["rules"],
              authority |-> g["authority"]]
<1> PICK h : h = [disposition |-> g["disposition"], actions |-> g["actions"],
              rollback |-> g["rollback"], cited |-> g["cited"], rules |-> g["rules"],
              authority |-> g["authority"]]
  OBVIOUS
<1>1. DOMAIN h = Fields /\ \A y \in Fields : h[y] = g[y]
  BY DEF Fields
<1>2. h = [y \in Fields |-> h[y]]
  BY DEF Fields
<1>3. h = [y \in Fields |-> g[y]]
  BY <1>1, <1>2
<1> QED BY <1>3

\* A downgrade and a suppression leave the same proposal for both.
LEMMA DowngradesAgree ==
  ASSUME NEW prop, NEW failed, WellFormed(prop), prop.rules \in Seq(RuleNames)
  PROVE  /\ (IF prop.actions # <<>> /\ failed # {} THEN RefDowngraded(prop) ELSE prop)
              = Downgrade(prop, failed)
         /\ RefReadOnly(Downgrade(prop, failed)) = ReadOnly(Downgrade(prop, failed))
<1>1. Append(prop.rules, "FAIL_SAFE_VERIFIER_DOWNGRADE")
        = prop.rules \o <<"FAIL_SAFE_VERIFIER_DOWNGRADE">>
  <2> PICK x, S : x = "FAIL_SAFE_VERIFIER_DOWNGRADE" /\ S = RuleNames
    OBVIOUS
  <2>1. x \in S /\ prop.rules \in Seq(S)
    BY DEF RuleNames
  <2>2. Append(prop.rules, x) = prop.rules \o <<x>>
    BY <2>1, AppendIsConcat, Zenon
  <2> QED BY <2>2
<1>0. DOMAIN prop = Fields
  BY DEF WellFormed
<1> DEFINE Same == (IF prop.actions # <<>> /\ failed # {} THEN RefDowngraded(prop) ELSE prop)
                     = Downgrade(prop, failed)
<1>2. ASSUME prop.actions # <<>> /\ failed # {} PROVE Same
  <2> PICK listed : listed = Append(prop.rules, "FAIL_SAFE_VERIFIER_DOWNGRADE")
    OBVIOUS
  <2>11. PICK f1 : f1 = [prop EXCEPT !["disposition"] = "INVESTIGATE"]
    OBVIOUS
  <2>12. PICK f2 : f2 = [f1 EXCEPT !["actions"] = <<>>]
    OBVIOUS
  <2>13. PICK f3 : f3 = [f2 EXCEPT !["rollback"] = {}]
    OBVIOUS
  <2>14. PICK f4 : f4 = [f3 EXCEPT !["rules"] = listed]
    OBVIOUS
  <2>15. PICK f5 : f5 = [f4 EXCEPT !["authority"] = "read_only_automation"]
    OBVIOUS
  <2>0. {"disposition", "actions", "rules", "authority", "cited", "rollback"} = Fields
    BY DEF Fields
  <2>1. /\ DOMAIN f1 = Fields /\ f1["disposition"] = "INVESTIGATE"
        /\ f1["cited"] = prop["cited"] /\ f1["rules"] = prop["rules"]
    BY <1>0, <2>0, <2>11, SetField
  <2>2. /\ DOMAIN f2 = Fields /\ f2["actions"] = <<>> /\ f2["disposition"] = "INVESTIGATE"
        /\ f2["cited"] = prop["cited"] /\ f2["rules"] = prop["rules"]
    BY <2>0, <2>1, <2>12, SetField
  <2>3. /\ DOMAIN f3 = Fields /\ f3["rollback"] = {} /\ f3["actions"] = <<>>
        /\ f3["disposition"] = "INVESTIGATE" /\ f3["cited"] = prop["cited"]
        /\ f3["rules"] = prop["rules"]
    BY <2>0, <2>2, <2>13, SetField
  <2>4. /\ DOMAIN f4 = Fields /\ f4["rules"] = listed /\ f4["rollback"] = {} /\ f4["actions"] = <<>>
        /\ f4["disposition"] = "INVESTIGATE" /\ f4["cited"] = prop["cited"]
    BY <2>0, <2>3, <2>14, SetField
  <2>5. /\ f5["authority"] = "read_only_automation" /\ f5["rules"] = listed
        /\ f5["rollback"] = {} /\ f5["actions"] = <<>>
        /\ f5["disposition"] = "INVESTIGATE" /\ f5["cited"] = prop["cited"]
        /\ f5 = [y \in Fields |-> f5[y]]
    BY <2>0, <2>4, <2>15, SetField
  <2>6. RefDowngraded(prop)
          = [disposition |-> "INVESTIGATE", actions |-> <<>>, rollback |-> {},
             cited |-> prop["cited"], rules |-> listed, authority |-> "read_only_automation"]
    BY <1>1 DEF RefDowngraded
  <2>7. f5 = [disposition |-> "INVESTIGATE", actions |-> <<>>, rollback |-> {},
              cited |-> prop["cited"], rules |-> listed, authority |-> "read_only_automation"]
    <3>1. f5 = [disposition |-> f5["disposition"], actions |-> f5["actions"],
                rollback |-> f5["rollback"], cited |-> f5["cited"], rules |-> f5["rules"],
                authority |-> f5["authority"]]
      BY <2>5, ItsFields, Zenon
    <3> QED BY <2>5, <3>1, Zenon
  <2>8. Downgrade(prop, failed) = f5
    <3>1. Downgrade(prop, failed)
            = [prop EXCEPT !.disposition = "INVESTIGATE", !.actions = <<>>, !.rollback = {},
                           !.rules = listed, !.authority = "read_only_automation"]
      BY <1>2 DEF Downgrade
    <3> QED BY <2>11, <2>12, <2>13, <2>14, <2>15, <3>1
  <2> QED BY <1>2, <2>6, <2>7, <2>8
<1>3. ASSUME ~(prop.actions # <<>> /\ failed # {}) PROVE Same
  BY <1>3 DEF Downgrade
<1>4. RefReadOnly(Downgrade(prop, failed)) = ReadOnly(Downgrade(prop, failed))
  <2> PICK kept : kept = Downgrade(prop, failed)
    OBVIOUS
  <2>0. {"disposition", "actions", "rules", "authority", "cited", "rollback"} = Fields
    BY DEF Fields
  <2>1. DOMAIN kept = Fields
    BY DowngradeKeepsOrEmpties DEF WellFormed
  <2>11. PICK f1 : f1 = [kept EXCEPT !["actions"] = <<>>]
    OBVIOUS
  <2>12. PICK f2 : f2 = [f1 EXCEPT !["rollback"] = {}]
    OBVIOUS
  <2>13. PICK f3 : f3 = [f2 EXCEPT !["authority"] = "read_only_observation"]
    OBVIOUS
  <2>2. /\ DOMAIN f1 = Fields /\ f1["actions"] = <<>> /\ f1["disposition"] = kept["disposition"]
        /\ f1["cited"] = kept["cited"] /\ f1["rules"] = kept["rules"]
    BY <2>0, <2>1, <2>11, SetField
  <2>3. /\ DOMAIN f2 = Fields /\ f2["rollback"] = {} /\ f2["actions"] = <<>>
        /\ f2["disposition"] = kept["disposition"]
        /\ f2["cited"] = kept["cited"] /\ f2["rules"] = kept["rules"]
    BY <2>0, <2>2, <2>12, SetField
  <2>4. /\ f3["authority"] = "read_only_observation" /\ f3["rollback"] = {} /\ f3["actions"] = <<>>
        /\ f3["disposition"] = kept["disposition"]
        /\ f3["cited"] = kept["cited"] /\ f3["rules"] = kept["rules"]
        /\ f3 = [y \in Fields |-> f3[y]]
    BY <2>0, <2>3, <2>13, SetField
  <2>5. f3 = [disposition |-> kept["disposition"], actions |-> <<>>, rollback |-> {},
              cited |-> kept["cited"], rules |-> kept["rules"],
              authority |-> "read_only_observation"]
    <3>1. f3 = [disposition |-> f3["disposition"], actions |-> f3["actions"],
                rollback |-> f3["rollback"], cited |-> f3["cited"], rules |-> f3["rules"],
                authority |-> f3["authority"]]
      BY <2>4, ItsFields, Zenon
    <3> QED BY <2>4, <3>1, Zenon
  <2>6. ReadOnly(kept) = f3
    BY <2>11, <2>12, <2>13 DEF ReadOnly
  <2> QED BY <2>5, <2>6 DEF RefReadOnly
<1> QED BY <1>2, <1>3, <1>4

\* What the path and its record hold of a decision, step by step.
DecidedHeld ==
  LET first == Propose(case, model, evidence, policy) IN
  /\ pc = "verifier" => proposal = first
  /\ pc \in AtGate => /\ original = first.disposition
                      /\ verification = Verify(case, model, evidence, first, policy)
  /\ pc = "gate" => proposal = Downgrade(first, verification)
  /\ pc \in {"conclude", "done"} /\ IsReadOnly(mode) =>
       /\ counterfactual = Downgrade(first, verification).actions
       /\ proposal = ReadOnly(Downgrade(first, verification))

RecordHeld ==
  /\ case \in Cases
  /\ pc \notin {"evidence", "raised"} => \A i \in Ids(case) : SourceAuthorized(case.events[i])
  /\ pc \notin {"evidence", "model", "raised"} => InventoryAgrees(case) /\ model = AssessModel(case)
  /\ DecidedHeld
  /\ mode # "synthetic_simulation" => token = NoToken

\* Before the first step nothing is recorded.
LEMMA RecordStart == Init => RecordHeld
BY DEF Init, RecordHeld, DecidedHeld, AtGate

\* Every step records what it found.
LEMMA RecordStep == PathInvariant /\ RecordHeld /\ [Next]_vars => RecordHeld'
<1> SUFFICES ASSUME PathInvariant, RecordHeld, [Next]_vars PROVE RecordHeld'
  OBVIOUS
<1> USE DEF RecordHeld, DecidedHeld, AtGate, inputs
<1>1. CASE Assess
  BY <1>1 DEF Assess
<1>2. CASE AssessFails
  BY <1>2 DEF AssessFails, Raise
<1>3. CASE Model
  BY <1>3 DEF Model
<1>4. CASE ModelFails
  BY <1>4 DEF ModelFails, Raise
<1>5. CASE Policy
  BY <1>5 DEF Policy
<1>6. CASE Verification
  BY <1>6 DEF Verification
<1>7. CASE Suppress
  BY <1>7 DEF Suppress
<1>8. CASE Authorize
  BY <1>8 DEF Authorize, IsReadOnly
<1>9. CASE Execute
  BY <1>9 DEF Execute, PathInvariant, TokenHeld
<1>10. CASE Conclude
  <2>1. pc \in {"conclude", "execute"} /\ pc' \in {"done", "raised"}
        /\ UNCHANGED <<case, policy, mode, evidence, model, proposal, original, verification,
                       counterfactual, token>>
    BY <1>10 DEF Conclude
  <2>2. pc = "execute" => ~IsReadOnly(mode)
    BY DEF PathInvariant, TokenHeld, IsReadOnly
  <2> QED BY <2>1, <2>2
<1>11. CASE Tick
  BY <1>11 DEF Tick
<1>12. CASE UNCHANGED vars
  BY <1>12 DEF vars
<1> QED
  BY <1>1, <1>2, <1>3, <1>4, <1>5, <1>6, <1>7, <1>8, <1>9, <1>10, <1>11, <1>12 DEF Next

\* What a case decided by the path can still be refused for.
LEMMA RefusedForThree ==
  ASSUME NEW c, CaseShape(c), NEW p,
         \A i \in Ids(c) : SourceAuthorized(c.events[i]), InventoryAgrees(c)
  PROVE  RefPolicyErrors(p) \cup RefCaseErrors(c)
           \subseteq {"EVENT_TIME", "POLICY_RANGE", "POLICY_SHAPE"}
<1>1. RefPolicyErrors(p) \subseteq {"POLICY_RANGE", "POLICY_SHAPE"}
  BY DEF RefPolicyErrors
<1>2. ASSUME NEW i \in Ids(c) PROVE RefEventErrors(c.events[i]) \subseteq {"EVENT_TIME"}
  <2> PICK e \in Event : e = c.events[i]
    BY Numbered DEF CaseShape
  <2>1. SourceAuthorized(e)
    OBVIOUS
  <2>2. ASSUME NEW f \in e.shows
        PROVE  e.source \in {s \in DOMAIN RefEventSources : f \in RefEventSources[s]}
    <3>1. f \in ShownBy(e.source)
      BY <2>1 DEF SourceAuthorized
    <3>2. /\ e.source \in {"identity", "network", "endpoint", "threat_intel", "user_context",
                           "change_management"}
          /\ f \in RefEventSources[e.source]
      BY <3>1 DEF ShownBy, RefEventSources
    <3>3. e.source \in DOMAIN RefEventSources
      BY <3>2 DEF RefEventSources
    <3> QED BY <3>2, <3>3
  <2>3. e.logins > 0 => e.source = "identity"
    <3>1. e.logins \in Nat
      BY DEF Event
    <3> QED BY <2>1, <3>1 DEF SourceAuthorized
  <2>4. RefEventErrors(e) \subseteq {"EVENT_TIME"}
    BY <2>2, <2>3 DEF RefEventErrors
  <2> QED BY <2>4
<1>3. /\ EventsOf(c, "asset_inventory") # {}
      /\ \A i \in EventsOf(c, "asset_inventory") :
           /\ c.events[i].claims[1] = c.admin /\ c.events[i].claims[2] = c.breakGlass
           /\ c.events[i].claims[3] = c.criticality
  BY DEF InventoryAgrees
<1>4. EventsOf(c, "asset_inventory") = {i \in Ids(c) : c.events[i].source = "asset_inventory"}
  BY DEF EventsOf, IdsWhere
<1>5. c.events # <<>>
  BY <1>3, <1>4 DEF Ids
<1>6. RefCaseErrors(c) \subseteq {"EVENT_TIME"}
  <2> PICK I : I = EventsOf(c, "asset_inventory")
    OBVIOUS
  <2> PICK U : U = UNION {RefEventErrors(c.events[i]) : i \in Ids(c)}
    OBVIOUS
  <2>1. U \subseteq {"EVENT_TIME"}
    BY <1>2
  <2>2. RefCaseErrors(c) = U \cup {code \in {"INVENTORY_MISSING", "INVENTORY_BINDING", "CASE_SHAPE"} :
          \/ code = "CASE_SHAPE" /\ c.events = <<>>
          \/ code = "INVENTORY_MISSING" /\ I = {}
          \/ /\ code = "INVENTORY_BINDING"
             /\ \E i \in I : \/ c.events[i].claims[1] # c.admin
                             \/ c.events[i].claims[2] # c.breakGlass
                             \/ c.events[i].claims[3] # c.criticality}
    BY <1>4 DEF RefCaseErrors
  <2> QED BY <1>3, <1>5, <2>1, <2>2
<1> QED BY <1>1, <1>6

\* What the reference recomputes of a read-only decision is its record.
LEMMA StagesAgree ==
  ASSUME PathInvariant, RecordHeld, pc = "done", IsReadOnly(mode)
  PROVE  ExpectedStages(case, policy) = ObservedStages
<1> PICK c, p : c = case /\ p = policy
  OBVIOUS
<1>1. /\ CaseShape(c) /\ PolicyShape(p) /\ p.autonomous \in Seq(STRING)
      /\ \A i \in Ids(c) : SourceAuthorized(c.events[i])
      /\ Ids(c) # {}
  <2>1. InventoryAgrees(c) /\ \A i \in Ids(c) : SourceAuthorized(c.events[i])
    BY DEF RecordHeld
  <2>2. Ids(c) # {}
    BY <2>1 DEF InventoryAgrees, EventsOf, IdsWhere
  <2> QED BY <2>1, <2>2, ReferenceAssumption, DecisionAssumption DEF RecordHeld, PathInvariant
<1>2. c.events \in Seq(Event) /\ c.criticality \in Int /\ c.breakGlass \in BOOLEAN
  BY <1>1 DEF CaseShape
<1> PICK e, m : e = AssessEvidence(c) /\ m = AssessModel(c)
  OBVIOUS
<1>3. evidence = e /\ model = m
  BY DEF PathInvariant, EvidenceHeld, RecordHeld
<1>4. RefEvidence(c) = e /\ EvidenceNumbers(e)
  BY <1>2, EvidencesAgree, EvidenceIsNumbers
<1>5. RefModel(c) = m /\ m.logit \in Int
  BY <1>1, <1>2, ModelsAgree
<1>6. \A f \in SevereIndicators : m.values[f] \in {0, 100}
  <2>1. m.values = FeatureValues(c)
    BY DEF AssessModel
  <2> QED BY <1>1, <1>2, <2>1, ValuesAgree
<1> PICK first : first = Propose(c, m, e, p)
  OBVIOUS
<1>7. RefProposal(c, m, e, p) = first
  BY <1>1, <1>2, <1>4, <1>5, <1>6, ProposalsAgree
<1>8. WellFormed(first) /\ first.actions \in Seq(STRING) /\ first.rules \in Seq(RuleNames)
  BY <1>1, ProposalWellFormed, RulesAreListed DEF WellFormed
<1> PICK failed : failed = Verify(c, m, e, first, p)
  OBVIOUS
<1>9. RefVerification(c, m, e, first, p) = failed
  <2>1. /\ EvidenceNumbers(e) /\ PolicyShape(p) /\ first.actions \in Seq(STRING)
        /\ c.criticality \in Int /\ c.breakGlass \in BOOLEAN /\ m.logit \in Int
    BY <1>1, <1>2, <1>4, <1>5, <1>8
  <2>2. RefVerification(c, m, e, first, p) = Verify(c, m, e, first, p)
    BY ONLY <2>1, VerifiersAgree
  <2> QED BY <2>2
<1> PICK kept : kept = Downgrade(first, failed)
  OBVIOUS
<1>10. /\ (IF first.actions # <<>> /\ failed # {} THEN RefDowngraded(first) ELSE first) = kept
       /\ RefReadOnly(kept) = ReadOnly(kept)
  BY <1>8, DowngradesAgree
<1>11. /\ original = first.disposition /\ verification = failed
       /\ counterfactual = kept.actions /\ proposal = ReadOnly(kept)
  BY <1>3 DEF RecordHeld, DecidedHeld, AtGate
<1>12. token = NoToken /\ results = <<>>
  BY DEF RecordHeld, IsReadOnly, NoToken, PathInvariant, EffectHeld
<1>13. PostAction = "NOT_APPLICABLE" /\ OperationalEffects = 0
  <2>1. {i \in DOMAIN results : results[i].success} = {}
    BY <1>12
  <2>2. Cardinality({}) = 0
    BY FS_EmptySet
  <2> QED BY <1>12, <2>1, <2>2 DEF PostAction, OperationalEffects
<1>14. ExpectedStages(c, p)
         = [evidence |-> e, model |-> m, verifier |-> failed,
            policy |-> <<first.disposition, kept.actions, ReadOnly(kept)>>,
            final_surface |-> <<NoToken, <<>>, "NOT_APPLICABLE", 0>>]
  BY <1>4, <1>5, <1>7, <1>9, <1>10 DEF ExpectedStages, NoToken
<1>15. ObservedStages
         = [evidence |-> e, model |-> m, verifier |-> failed,
            policy |-> <<first.disposition, kept.actions, ReadOnly(kept)>>,
            final_surface |-> <<NoToken, <<>>, "NOT_APPLICABLE", 0>>]
  BY <1>3, <1>11, <1>12, <1>13 DEF ObservedStages
<1> QED BY <1>14, <1>15

\* The recomputation finds no stage that differs, and refuses for a reason of
\* its own.
LEMMA RecomputeAgrees ==
  ASSUME PathInvariant, RecordHeld, Recompute
  PROVE  ReferenceAgrees'
<1> DEFINE refused == RefPolicyErrors(policy) \cup RefCaseErrors(case)
<1>1. pc = "done" /\ IsReadOnly(mode)
  BY DEF Recompute
<1>2. ExpectedStages(case, policy) = ObservedStages
  BY <1>1, StagesAgree
<1>3. refused \subseteq {"EVENT_TIME", "POLICY_RANGE", "POLICY_SHAPE"}
  <2>1. CaseShape(case)
    BY ReferenceAssumption DEF RecordHeld
  <2>2. InventoryAgrees(case) /\ \A i \in Ids(case) : SourceAuthorized(case.events[i])
    BY <1>1 DEF RecordHeld
  <2> QED BY <2>1, <2>2, RefusedForThree
<1> HIDE DEF refused
<1>4. assurance'.refused = refused /\ assurance'.mismatched = {}
  <2> PICK expected : expected = ExpectedStages(case, policy)
    OBVIOUS
  <2>1. {stage \in DOMAIN expected : expected[stage] # ObservedStages[stage]} = {}
    BY <1>2
  <2>2. assurance' = [given |-> TRUE, refused |-> refused,
                      mismatched |-> IF refused # {} THEN {}
                                     ELSE {stage \in DOMAIN expected :
                                             expected[stage] # ObservedStages[stage]}]
    BY DEF Recompute, refused
  <2> QED BY <2>1, <2>2
<1> QED BY <1>3, <1>4 DEF ReferenceAgrees

\* Whatever the cases, the policies and the model: the reference agrees with
\* every stage of every read-only decision it recomputes, and refuses one for
\* its own three reasons only (reference_decision.py
\* verify_reference_decision_path, engine.py process).
THEOREM ReferenceAlwaysAgrees == RSpec => []ReferenceAgrees
<1> DEFINE Held == PathInvariant /\ RecordHeld /\ ReferenceAgrees
<1>1. RInit => Held
  BY PathStart, RecordStart DEF RInit, ReferenceAgrees
<1>2. Held /\ [RNext]_rvars => Held'
  <2> SUFFICES ASSUME Held, [RNext]_rvars PROVE Held'
    OBVIOUS
  <2>1. [Next]_vars
    BY DEF RNext, rvars, Recompute
  <2>2. PathInvariant' /\ RecordHeld'
    BY <2>1, PathStep, RecordStep
  <2>3. ReferenceAgrees'
    <3>1. CASE Recompute
      BY <3>1, RecomputeAgrees
    <3>2. CASE assurance' = assurance
      BY <3>2 DEF ReferenceAgrees
    <3> QED BY <3>1, <3>2 DEF RNext, rvars
  <2> QED BY <2>2, <2>3
<1> QED BY <1>1, <1>2, PTL DEF RSpec
=============================================================================

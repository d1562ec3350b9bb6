------------------------------ MODULE Lifecycle ------------------------------
(***************************************************************************)
(* The audit lifecycle of a request, record by record: what process_json   *)
(* of phase3/engine.py appends, what validate_phase3_lifecycle of          *)
(* phase3/audit.py accepts, and what the entry fence                       *)
(* (_validate_durable_audit_continuity) makes of the whole file.           *)
(*                                                                         *)
(* A call works through places (call.at).  At a place it asks one          *)
(* component - validation, ledger, policy, verifier, gate, broker, target  *)
(* verifier - and the answer is the list of records to append before the   *)
(* next place (call.todo).  Any component may raise, any append may fail   *)
(* (before the row, after it, or with its durability unknown) and the      *)
(* process may die between two appends; MaxFaults bounds these.            *)
(*                                                                         *)
(* The durable configuration is modelled.  Decisions, tokens and attempts  *)
(* are named after the call that creates them.  What happens to a file the *)
(* fence opens only for reconciliation is in StageA.                       *)
(* A definition commented as a Variant is a plausible mistake in the one   *)
(* below it, used by no action.                                            *)
(***************************************************************************)
EXTENDS Naturals, Sequences, FiniteSets, FiniteSetsExt, TLC

CONSTANTS
    Contents,      \* raw request bodies (intake_id is their digest)
    Requests,      \* request identifiers
    RequestOf,     \* the identifier a body carries
    Approvers,     \* trusted human principals with the required authority
    Modes,         \* fault modes the target may be configured with
    AuthorizationTTL, ApprovalTTL,
    MaxCalls,      \* bound on the calls of process_json
    MaxFaults,     \* bound on failures, ambiguous appends and crashes
    MaxTime,       \* bound on the clock
    None

ASSUME LifecycleAssumption ==
    /\ MaxCalls \in Nat /\ MaxFaults \in Nat /\ MaxTime \in Nat
    /\ AuthorizationTTL \in Nat \ {0} /\ ApprovalTTL \in Nat \ {0}
    /\ RequestOf \in [Contents -> Requests]

Calls == 1..MaxCalls

VARIABLES
    rows,       \* the audit file
    ambiguous,  \* the rows written whose fsync failed
    call,       \* the call that holds the locks
    calls,      \* how many were begun
    claims,     \* the ledger's request rows
    tokens,     \* the state of the authorization of each call
    receipts,   \* the adapter's receipt for the attempt of each call
    target,     \* the synthetic target
    mode,       \* its configured fault mode
    approvals,  \* the approval gate (in memory)
    clock, faults

vars == <<rows, ambiguous, call, calls, claims, tokens, receipts, target, mode,
          approvals, clock, faults>>
stores == <<claims, tokens, receipts, target>>

-----------------------------------------------------------------------------
(* Records.                                                                *)

Untouched == [last |-> 0, expires |-> FALSE, degraded |-> FALSE]
Unavailable == [state_unavailable |-> TRUE]   \* observe raised
Nothing == [empty |-> TRUE]                   \* the verifier's {}

\* What the stores hold, and what a call keeps of its effect.
States == [last : 0..MaxCalls, expires : BOOLEAN, degraded : BOOLEAN]
ClaimRows == [content : Contents, state : {"CLAIMED", "AUTHORIZED", "TERMINAL"},
              decision : Calls \cup {None}, by : Calls]
Receipts == [before : States, after : States]
Requirements ==
    [created : 0..MaxTime, used : BOOLEAN,
     pending : [approver : Approvers, at : 0..MaxTime] \cup {None}]
Results ==
    [attempt : Calls, token : Calls, known : {FALSE}]
      \cup [attempt : Calls, token : Calls, known : {TRUE}, before : States,
            after : States, success : BOOLEAN, executed : 0..MaxTime]
Reports ==
    [status : {"VERIFIED", "PARTIAL", "UNEXPECTED_EFFECT", "FAILED",
               "ROLLBACK_REQUIRED"},
     codes : SUBSET {"ROLLBACK_REQUIRED"}, rollback : BOOLEAN,
     observed : States \cup {Nothing, Unavailable},
     token : Calls, attempt : Calls]

\* None stands for the row, field or answer that is not there.
ASSUME NoneAssumption ==
    /\ None \notin Calls
    /\ None \notin {"VERIFIED", "ISSUED", "RESERVED", "RECEIPTED"}
    /\ None \notin ClaimRows \cup Receipts \cup Requirements \cup Results \cup Reports
    /\ None \notin [approver : Approvers, at : 0..MaxTime]

\* What a failed call leaves to be closed: nothing decided yet.
Idle == [at |-> "IDLE", todo |-> <<>>, content |-> None, request |-> None,
         policy |-> None, passed |-> FALSE, outcome |-> None,
         reasons |-> {}, bound |-> FALSE, before |-> None, issued |-> 0,
         executed |-> 0, result |-> None, verification |-> None, failed |-> None]

\* Variant: a target that cannot be observed counts as unchanged.
EffectsSeen(c) ==
    IF c.verification = None \/ c.verification.observed \in {c.before, Unavailable}
    THEN 0 ELSE 1
Effects(c) ==
    IF c.verification = None \/ c.verification.observed = c.before THEN 0 ELSE 1

\* The digests a decision, an authorization and a requirement are bound by.
ScopeOf(c) == <<c.content, calls>>

Body(t, c) ==
    CASE t = "REQUEST_VALIDATED" -> [scope |-> ScopeOf(c)]
      [] t = "POLICY_EVALUATED" -> [outcome |-> c.policy]
      [] t = "DECISION_VERIFIED" -> [passed |-> c.passed, scope |-> ScopeOf(c)]
      [] t = "DECISION_PRODUCED" ->
            [outcome |-> c.outcome, reasons |-> c.reasons,
             scope |-> IF c.bound THEN ScopeOf(c) ELSE None]
      [] t = "APPROVAL_REQUIREMENT_PRODUCED" ->
            [scope |-> ScopeOf(c), created |-> approvals[calls].created]
      [] t = "AUTHORIZATION_PRODUCED" ->
            [token |-> calls, scope |-> ScopeOf(c), before |-> c.before,
             issued |-> c.issued]
      [] t \in {"BROKER_INVOKED", "BROKER_REJECTED", "BROKER_FAILURE"} ->
            [token |-> calls]
      [] t = "ACTION_ATTEMPTED" -> c.result
      [] t = "VERIFICATION_PERFORMED" -> c.verification
      [] t = "POST_EFFECT_ACCOUNTING_FAILURE" ->
            [failed |-> c.failed, token |-> calls, action |-> c.result,
             verification |-> c.verification, effects |-> Effects(c)]
      [] t = "FINAL_STATE_RECORDED" ->
            [outcome |-> c.outcome, effects |-> Effects(c),
             status |-> IF c.verification = None THEN None
                        ELSE c.verification.status,
             state |-> IF c.verification = None THEN None
                       ELSE c.verification.observed]
      [] OTHER -> None

\* REQUEST_RECEIVED, and every record of a request that does not parse, carry a
\* provisional identifier.
RowOf(t, c) ==
    [type |-> t, intake |-> c.content, decision |-> calls,
     request |-> c.request, body |-> Body(t, c)]

-----------------------------------------------------------------------------
(* validate_phase3_lifecycle.                                              *)

Types(life) == [i \in DOMAIN life |-> life[i].type]
Has(life, t) == \E i \in DOMAIN life : life[i].type = t
Of(life, t) == life[CHOOSE i \in DOMAIN life : life[i].type = t].body

Evaluations == <<"EVIDENCE_EVALUATED", "CONSEQUENCE_EVALUATED",
                 "POLICY_EVALUATED", "DECISION_VERIFIED">>
Opened == <<"REQUEST_RECEIVED", "REQUEST_VALIDATED">>
NormalPrefix ==
    Opened \o <<"IDENTITY_EVALUATED">> \o Evaluations \o <<"DECISION_PRODUCED">>
EarlyPrefixes ==
    {<<"REQUEST_RECEIVED", "REQUEST_REJECTED", "DECISION_PRODUCED">>}
      \cup {Opened \o <<t, "DECISION_PRODUCED">> :
              t \in {"REQUEST_REJECTED", "IDENTITY_EVALUATED",
                     "POLICY_EVALUATION_FAILED"}}
\* What failed may be any of the stages, or the record of one.
\* Variant: the authorization preconditions are not thought of.
ControlFailurePrefixesBeforeVerdict ==
    {Opened \o <<"IDENTITY_EVALUATED">> \o SubSeq(Evaluations, 1, n)
            \o <<"CONTROL_PLANE_FAILURE", "DECISION_PRODUCED">> : n \in 0..3}
ControlFailurePrefixes ==
    {Opened \o <<"IDENTITY_EVALUATED">> \o SubSeq(Evaluations, 1, n)
            \o <<"CONTROL_PLANE_FAILURE", "DECISION_PRODUCED">> : n \in 0..4}
Prefixes ==
    {NormalPrefix, NormalPrefix \o <<"APPROVAL_REQUIREMENT_PRODUCED">>}
      \cup EarlyPrefixes \cup ControlFailurePrefixes

NonExecutingTail ==
    <<"AUTHORIZATION_NOT_ISSUED", "BROKER_SKIPPED", "ACTION_SKIPPED",
      "VERIFICATION_SKIPPED", "FINAL_STATE_RECORDED">>
Acted == <<"ACTION_ATTEMPTED", "VERIFICATION_PERFORMED">>
RejectedRest == <<"BROKER_REJECTED", "ACTION_SKIPPED", "VERIFICATION_SKIPPED",
                  "FINAL_STATE_RECORDED">>
FailureRest == <<"BROKER_FAILURE">> \o Acted \o <<"FINAL_STATE_RECORDED">>
AccountingRest == <<"POST_EFFECT_ACCOUNTING_FAILURE", "FINAL_STATE_RECORDED">>
Authorized == <<"AUTHORIZATION_PRODUCED", "BROKER_INVOKED">>
Tails ==
    {NonExecutingTail}
      \cup {Authorized \o rest :
              rest \in {Acted \o <<"FINAL_STATE_RECORDED">>,
                        RejectedRest, FailureRest}
                       \cup {SubSeq(Acted, 1, n) \o AccountingRest : n \in 0..2}}
Templates == {p \o t : p \in Prefixes, t \in Tails}

CoreOf(life) ==
    IF Has(life, "APPROVAL_RECORDED") /\ life[Len(life)].type = "APPROVAL_RECORDED"
    THEN SubSeq(life, 1, Len(life) - 1) ELSE life
\* Variant: only the ends of the list and the number of each type are checked.
FollowsTemplateLoosely(life) ==
    LET types == Types(CoreOf(life)) IN
    /\ types[1] = "REQUEST_RECEIVED" /\ types[Len(types)] = "FINAL_STATE_RECORDED"
    /\ \A i, j \in DOMAIN life : life[i].type = life[j].type => i = j
    /\ Has(life, "DECISION_PRODUCED") /\ Has(life, "DECISION_VERIFIED")
    /\ Has(life, "POLICY_EVALUATED") /\ Has(life, "REQUEST_VALIDATED")
FollowsTemplate(life) == Types(CoreOf(life)) \in Templates

\* One intake, one decision, and from REQUEST_VALIDATED on one request.
Correlated(life) ==
    LET validated == {i \in DOMAIN life : life[i].type = "REQUEST_VALIDATED"}
        from == IF validated = {} THEN 1 ELSE Min(validated)
    IN \A i \in DOMAIN life :
          /\ life[i].intake = life[1].intake
          /\ life[i].decision = life[1].decision
          /\ i >= from => life[i].request = life[from].request

DecisionBound(life) ==
    LET decision == Of(life, "DECISION_PRODUCED")
        policy == Of(life, "POLICY_EVALUATED")
        verified == Of(life, "DECISION_VERIFIED")
    IN /\ Of(life, "FINAL_STATE_RECORDED").outcome = decision.outcome
       /\ Has(life, "APPROVAL_REQUIREMENT_PRODUCED")
            <=> decision.outcome = "ESCALATE"
       /\ Has(life, "POLICY_EVALUATED") /\ ~Has(life, "CONTROL_PLANE_FAILURE") =>
            /\ IF verified.passed
               THEN /\ decision.outcome = policy.outcome
                    /\ decision.reasons = {}
                    /\ decision.scope = verified.scope
               ELSE /\ decision.outcome = "DENY"
                    /\ "DECISION_VERIFIER_FAILED" \in decision.reasons
            /\ decision.scope = Of(life, "REQUEST_VALIDATED").scope

ApprovalBound(life) ==
    LET decision == Of(life, "DECISION_PRODUCED")
        requirement == Of(life, "APPROVAL_REQUIREMENT_PRODUCED")
        receipt == Of(life, "APPROVAL_RECORDED")
    IN /\ Has(life, "APPROVAL_REQUIREMENT_PRODUCED")
            => requirement.scope = decision.scope
       /\ Has(life, "APPROVAL_RECORDED") =>
            /\ Has(life, "APPROVAL_REQUIREMENT_PRODUCED")
            /\ decision.outcome = "ESCALATE"
            /\ receipt.scope = requirement.scope
            /\ Of(life, "FINAL_STATE_RECORDED").effects = 0
            /\ requirement.created <= receipt.at
            /\ receipt.at < requirement.created + ApprovalTTL

\* The record that should have followed the ones that are there.
ExpectedFailure(life) ==
    IF Has(life, "VERIFICATION_PERFORMED") THEN "FINAL_STATE_RECORDED"
    ELSE IF Has(life, "ACTION_ATTEMPTED") THEN "VERIFICATION_PERFORMED"
    ELSE "ACTION_ATTEMPTED"

\* The action and the verification to be judged: recorded, or embedded in the
\* accounting failure.
ActionIn(life) ==
    IF Has(life, "ACTION_ATTEMPTED") THEN Of(life, "ACTION_ATTEMPTED")
    ELSE IF Has(life, "POST_EFFECT_ACCOUNTING_FAILURE")
    THEN Of(life, "POST_EFFECT_ACCOUNTING_FAILURE").action
    ELSE None
VerificationIn(life) ==
    IF Has(life, "POST_EFFECT_ACCOUNTING_FAILURE")
    THEN LET accounting == Of(life, "POST_EFFECT_ACCOUNTING_FAILURE")
         IN IF /\ Has(life, "VERIFICATION_PERFORMED")
               /\ accounting.failed # "FINAL_STATE_RECORDED"
            THEN Of(life, "VERIFICATION_PERFORMED")
            ELSE accounting.verification
    ELSE IF Has(life, "VERIFICATION_PERFORMED") THEN Of(life, "VERIFICATION_PERFORMED")
    ELSE None

AccountingConsistent(life) ==
    Has(life, "POST_EFFECT_ACCOUNTING_FAILURE") =>
        LET accounting == Of(life, "POST_EFFECT_ACCOUNTING_FAILURE")
        IN /\ accounting.failed = ExpectedFailure(life)
           /\ accounting.token = Of(life, "AUTHORIZATION_PRODUCED").token
           /\ accounting.effects = Of(life, "FINAL_STATE_RECORDED").effects
           /\ accounting.failed = "FINAL_STATE_RECORDED" =>
                Of(life, "VERIFICATION_PERFORMED").observed
                  = accounting.verification.observed

\* What a verification's status promises about its other fields.
DispositionMatches(v, action, effects) ==
    CASE v.status = "VERIFIED" ->
            /\ action.success /\ v.observed # Nothing /\ v.observed # Unavailable
            /\ v.observed.last = action.attempt /\ v.observed.expires
            /\ ~v.rollback /\ v.codes = {} /\ effects = 1
      [] v.status = "FAILED" -> ~v.rollback
      [] OTHER -> v.rollback /\ "ROLLBACK_REQUIRED" \in v.codes

ActionVerified(life) ==
    LET authorization == Of(life, "AUTHORIZATION_PRODUCED")
        final == Of(life, "FINAL_STATE_RECORDED")
        action == ActionIn(life)
        v == VerificationIn(life)
    IN action # None /\ v # None =>
          /\ action.token = authorization.token /\ v.token = authorization.token
          /\ v.attempt = action.attempt
          /\ final.status = v.status
          /\ ~action.known => Has(life, "BROKER_FAILURE")
          /\ v.observed # Nothing          \* it must name the target
          /\ final.state = v.observed
          /\ action.known =>
                /\ action.after = v.observed
                /\ action.before = authorization.before
                /\ authorization.issued <= action.executed
                /\ action.executed < authorization.issued + AuthorizationTTL
                /\ final.effects = IF action.before # action.after THEN 1 ELSE 0
          /\ DispositionMatches(v, action, final.effects)

AuthorityBound(life) ==
    LET decision == Of(life, "DECISION_PRODUCED") IN
    IF Has(life, "AUTHORIZATION_PRODUCED")
    THEN LET authorization == Of(life, "AUTHORIZATION_PRODUCED") IN
         /\ decision.outcome = "ALLOW"
         /\ Of(life, "BROKER_INVOKED").token = authorization.token
         /\ authorization.scope = decision.scope
         /\ AccountingConsistent(life)
         /\ ActionVerified(life)
    ELSE decision.outcome # "ALLOW"

ValidLifecycle(life) ==
    /\ life # <<>>
    /\ FollowsTemplate(life)
    /\ Correlated(life)
    /\ DecisionBound(life)
    /\ ApprovalBound(life)
    /\ AuthorityBound(life)

-----------------------------------------------------------------------------
(* The entry fence, for a file without recoveries.                         *)

Starts == {i \in DOMAIN rows : rows[i].type = "REQUEST_RECEIVED"}
Approvals == {i \in DOMAIN rows : rows[i].type = "APPROVAL_RECORDED"}
\* A lifecycle runs to its FINAL_STATE_RECORDED, or to the next top-level record.
EndOf(s) ==
    LET finals == {i \in DOMAIN rows :
                     i > s /\ rows[i].type = "FINAL_STATE_RECORDED"}
        breaks == {i - 1 : i \in {j \in Starts \cup Approvals : j > s}}
    IN Min(finals \cup breaks \cup {Len(rows)})
LifeAt(s) == SubSeq(rows, s, EndOf(s))
Closed(s) == rows[EndOf(s)].type = "FINAL_STATE_RECORDED"
Mapped(life) ==
    /\ ~Has(life, "REQUEST_REJECTED") /\ ~Has(life, "POLICY_EVALUATION_FAILED")
    /\ \/ Has(life, "EVIDENCE_EVALUATED") \/ Has(life, "POLICY_EVALUATED")
       \/ Has(life, "CONTROL_PLANE_FAILURE")
Complete == {s \in Starts : Closed(s) /\ Mapped(LifeAt(s))}
Incomplete == {s \in Starts : ~Closed(s)}
Validates(s) == Has(LifeAt(s), "REQUEST_VALIDATED")
\* The pair (request_id, request_sha256): the digest is the content.
PairOf(s) == <<RequestOf[rows[s].intake], rows[s].intake>>
\* The last lifecycle of the same intake, whoever was escalated by it.
BaseOf(i) ==
    {s \in Starts : Closed(s) /\ EndOf(s) < i /\ rows[s].intake = rows[i].intake}

ClaimFits(s, r) ==
    /\ claims[r] # None
    /\ PairOf(s) = <<r, claims[r].content>>
    /\ s \in Complete /\ claims[r].decision # None
         => claims[r].decision = rows[s].decision

FenceAccepts ==
    /\ \A i \in DOMAIN rows :
         i \in Approvals \/ \E s \in Starts : i \in s..EndOf(s)
    /\ \A s \in Starts : IF Closed(s) THEN ValidLifecycle(LifeAt(s)) ELSE Validates(s)
    /\ \A i \in Approvals :
         /\ BaseOf(i) # {}
         /\ ValidLifecycle(Append(LifeAt(Max(BaseOf(i))), rows[i]))
    /\ \A s \in Complete \cup Incomplete : \E r \in Requests : ClaimFits(s, r)
    /\ \A r \in Requests : claims[r] # None =>
         LET own == {s \in Complete \cup Incomplete :
                       PairOf(s) = <<r, claims[r].content>>}
         IN /\ Cardinality(own) = 1
            /\ claims[r].state = "TERMINAL" => own \subseteq Complete

\* Ordinary work is refused while the file is not accepted or a request is open.
Fenced ==
    \/ ~FenceAccepts
    \/ \E r \in Requests : claims[r] # None /\ claims[r].state # "TERMINAL"

-----------------------------------------------------------------------------
(* Appending.                                                              *)

ToDo(todo, at) == [call EXCEPT !.todo = todo, !.at = at]
Denied(c, reasons, todo) ==
    [c EXCEPT !.outcome = "DENY", !.reasons = reasons, !.bound = FALSE,
              !.at = "CLOSING", !.todo = todo \o <<"DECISION_PRODUCED">>
                                              \o NonExecutingTail]
FailClosed(c) ==
    Denied(c, {"INTERNAL_CONTROL_FAILURE"}, <<"CONTROL_PLANE_FAILURE">>)

InEvidenceTry == {"EVIDENCE_EVALUATED", "CONSEQUENCE_EVALUATED"}
Accounted == Acted \o <<"FINAL_STATE_RECORDED">>

\* Where an append that raises leads: the evidence block catches everything,
\* the three records after an effect are replaced by an accounting failure, and
\* any other exception ends the call.
AfterFailedAppend(t) ==
    CASE t \in InEvidenceTry -> FailClosed(call)
      [] /\ t \in {Accounted[i] : i \in DOMAIN Accounted}
         /\ call.result # None /\ call.result.known /\ call.failed = None ->
            [call EXCEPT !.at = "ACCOUNTING", !.todo = <<>>, !.failed = t]
      [] OTHER -> Idle

\* AuditDurabilityError is re-raised everywhere but in the evidence block.
AfterAmbiguousAppend(t) ==
    IF t \in InEvidenceTry THEN FailClosed(call) ELSE Idle

AppendOK ==
    /\ call.todo # <<>>
    /\ rows' = Append(rows, RowOf(Head(call.todo), call))
    /\ call' = [call EXCEPT !.todo = Tail(@)]
    /\ UNCHANGED <<ambiguous, calls, stores, mode, approvals, clock, faults>>

\* The row is not written, or it is and reading it back failed as well.
AppendFails ==
    /\ call.todo # <<>> /\ faults < MaxFaults
    /\ rows' \in {rows, Append(rows, RowOf(Head(call.todo), call))}
    /\ call' = AfterFailedAppend(Head(call.todo))
    /\ faults' = faults + 1
    /\ UNCHANGED <<ambiguous, calls, stores, mode, approvals, clock>>

\* The row is visible and its fsync failed.
AppendAmbiguous ==
    /\ call.todo # <<>> /\ faults < MaxFaults
    /\ rows' = Append(rows, RowOf(Head(call.todo), call))
    /\ ambiguous' = ambiguous \cup {Len(rows) + 1}
    /\ call' = AfterAmbiguousAppend(Head(call.todo))
    /\ faults' = faults + 1
    /\ UNCHANGED <<calls, stores, mode, approvals, clock>>

-----------------------------------------------------------------------------
(* A call, place by place.                                                 *)

At(place) == call.at = place /\ call.todo = <<>>
Fault == faults < MaxFaults /\ faults' = faults + 1
Calm == faults' = faults
Only(c) == call' = c /\ UNCHANGED <<rows, ambiguous, calls, mode, clock>>

\* Provisional identifiers differ from every accepted one.
Provisional(content) == <<"invalid", content>>

Submit(content) ==
    /\ call.at = "IDLE" /\ calls < MaxCalls /\ ~Fenced
    /\ calls' = calls + 1
    /\ call' = [Idle EXCEPT !.content = content, !.at = "RECEIVED",
                           !.request = Provisional(content),
                           !.todo = <<"REQUEST_RECEIVED">>]
    /\ UNCHANGED <<rows, ambiguous, stores, mode, approvals, clock, faults>>

\* No decision id, a body that does not parse, a validator that raises.
RejectBody ==
    /\ At("RECEIVED")
    /\ Only(Denied(call, {"REQUEST_INVALID"}, <<"REQUEST_REJECTED">>))
    /\ Calm /\ UNCHANGED <<stores, approvals>>

AcceptBody ==
    /\ At("RECEIVED")
    /\ Only([ToDo(<<"REQUEST_VALIDATED">>, "VALIDATED")
               EXCEPT !.request = RequestOf[call.content]])
    /\ Calm /\ UNCHANGED <<stores, approvals>>

\* Refused identity, stale timestamp, unknown target: before the claim.
RefuseEarly ==
    /\ At("VALIDATED")
    /\ \E t \in {"IDENTITY_EVALUATED", "REQUEST_REJECTED",
                 "POLICY_EVALUATION_FAILED"} : Only(Denied(call, {t}, <<t>>))
    /\ Calm /\ UNCHANGED <<stores, approvals>>

NewClaim ==
    [claims EXCEPT ![call.request] =
        [content |-> call.content, state |-> "CLAIMED", decision |-> None,
         by |-> calls]]
RefusedByLedger == {"DUPLICATE_REQUEST", "REQUEST_ID_CONFLICT",
                    "CONTROL_LEDGER_UNAVAILABLE"}
RefuseClaim(reason) == Only(Denied(call, {reason}, <<"REQUEST_REJECTED">>))

Claim ==
    /\ At("VALIDATED")
    /\ IF claims[call.request] = None
       THEN /\ claims' = NewClaim
            /\ Only(ToDo(<<"IDENTITY_EVALUATED">>, "IDENTIFIED"))
       ELSE /\ RefuseClaim(IF claims[call.request].content = call.content
                           THEN "DUPLICATE_REQUEST" ELSE "REQUEST_ID_CONFLICT")
            /\ UNCHANGED claims
    /\ Calm /\ UNCHANGED <<tokens, receipts, target, approvals>>

\* The transaction failed, or its commit was only not seen to succeed.
ClaimUnavailable ==
    /\ At("VALIDATED") /\ Fault
    /\ UNCHANGED claims \/ (claims[call.request] = None /\ claims' = NewClaim)
    /\ RefuseClaim("CONTROL_LEDGER_UNAVAILABLE")
    /\ UNCHANGED <<tokens, receipts, target, approvals>>

\* Evidence, consequence, decision or its verifier raises.
ControlRaises ==
    /\ \E place \in {"IDENTIFIED", "EVIDENCED", "ASSESSED", "DECIDED"} : At(place)
    /\ Fault
    /\ Only(FailClosed(call)) /\ UNCHANGED <<stores, approvals>>

AssessEvidence ==
    /\ At("IDENTIFIED") /\ Only(ToDo(<<"EVIDENCE_EVALUATED">>, "EVIDENCED"))
    /\ Calm /\ UNCHANGED <<stores, approvals>>
AssessConsequence ==
    /\ At("EVIDENCED") /\ Only(ToDo(<<"CONSEQUENCE_EVALUATED">>, "ASSESSED"))
    /\ Calm /\ UNCHANGED <<stores, approvals>>

\* An escalation registers its requirement with the gate at once.
BuildDecision ==
    /\ At("ASSESSED")
    /\ \E policy \in {"DENY", "ALLOW", "ESCALATE"} :
         /\ Only([ToDo(<<"POLICY_EVALUATED">>, "DECIDED") EXCEPT !.policy = policy])
         /\ approvals' = IF policy # "ESCALATE" THEN approvals
                         ELSE [approvals EXCEPT ![calls] =
                                 [created |-> clock, pending |-> None,
                                  used |-> FALSE]]
    /\ Calm /\ UNCHANGED stores

VerifyDecision ==
    /\ At("DECIDED")
    /\ \E passed \in BOOLEAN :
         /\ IF passed THEN Calm ELSE Fault
         /\ Only([ToDo(<<"DECISION_VERIFIED">>, "VERIFIED") EXCEPT
                    !.passed = passed, !.bound = TRUE,
                    !.outcome = IF passed THEN call.policy ELSE "DENY",
                    !.reasons = IF passed THEN {} ELSE {"DECISION_VERIFIER_FAILED"}])
    /\ UNCHANGED <<stores, approvals>>

ProduceDecision ==
    /\ At("VERIFIED") /\ call.outcome # "ALLOW"
    /\ Only(ToDo(<<"DECISION_PRODUCED">>
                  \o (IF call.outcome = "ESCALATE"
                      THEN <<"APPROVAL_REQUIREMENT_PRODUCED">> ELSE <<>>)
                  \o NonExecutingTail, "CLOSING"))
    /\ Calm /\ UNCHANGED <<stores, approvals>>

-----------------------------------------------------------------------------
(* Authority and effect.                                                   *)

Issued == /\ tokens' = [tokens EXCEPT ![calls] = "ISSUED"]
          /\ claims' = [claims EXCEPT ![call.request].state = "AUTHORIZED",
                                      ![call.request].decision = calls]

IssueAuthorization ==
    /\ At("VERIFIED") /\ call.outcome = "ALLOW"
    /\ Issued
    /\ Only([ToDo(<<"DECISION_PRODUCED">> \o Authorized, "INVOKED") EXCEPT
               !.before = target, !.issued = clock])
    /\ Calm /\ UNCHANGED <<receipts, target, approvals>>

\* The observation raises, or the ledger does - before or after its commit.
IssueRaises ==
    /\ At("VERIFIED") /\ call.outcome = "ALLOW" /\ Fault
    /\ Issued \/ UNCHANGED <<tokens, claims>>
    /\ Only(FailClosed(call))
    /\ UNCHANGED <<receipts, target, approvals>>

\* AuthorizationError: nothing was consumed and nothing ran.
BrokerRejects ==
    /\ At("INVOKED")
    /\ IF clock >= call.issued + AuthorizationTTL THEN Calm ELSE Fault
    /\ Only(ToDo(RejectedRest, "CLOSING")) /\ UNCHANGED <<stores, approvals>>

\* Any other exception: before the authorization is spent, ...
BrokerRaises ==
    /\ At("INVOKED") /\ Fault
    /\ Only(ToDo(<<>>, "BROKER_FAILED")) /\ UNCHANGED <<stores, approvals>>

ConsumeAuthorization ==
    /\ At("INVOKED") /\ clock < call.issued + AuthorizationTTL
    /\ tokens' = [tokens EXCEPT ![calls] = "RESERVED"]
    /\ Only([ToDo(<<>>, "CONSUMED") EXCEPT !.executed = clock])
    /\ Calm /\ UNCHANGED <<claims, receipts, target, approvals>>

Applied(state) ==
    CASE mode = "FAILED" -> state
      [] mode = "PARTIAL" -> [state EXCEPT !.last = calls, !.expires = FALSE]
      [] OTHER -> [last |-> calls, expires |-> TRUE,
                   degraded |-> state.degraded \/ mode = "UNEXPECTED_EFFECT"]

Committed == /\ target' = Applied(target)
             /\ receipts' = [receipts EXCEPT ![calls] =
                               [before |-> target, after |-> target']]

Execute ==
    /\ At("CONSUMED") /\ Committed
    /\ Only([ToDo(<<>>, "EXECUTED") EXCEPT
               !.result = [attempt |-> calls, token |-> calls, known |-> TRUE,
                           before |-> call.before, after |-> target',
                           success |-> mode # "FAILED",
                           executed |-> call.executed]])
    /\ Calm /\ UNCHANGED <<claims, tokens, approvals>>

\* ... in the store, before or after its commit, ...
ExecuteRaises ==
    /\ At("CONSUMED") /\ Fault
    /\ Committed \/ UNCHANGED <<target, receipts>>
    /\ Only(ToDo(<<>>, "BROKER_FAILED")) /\ UNCHANGED <<claims, tokens, approvals>>

RecordReceipt ==
    /\ At("EXECUTED")
    /\ tokens' = [tokens EXCEPT ![calls] = "RECEIPTED"]
    /\ Only(ToDo(<<"ACTION_ATTEMPTED">>, "ACTED"))
    /\ Calm /\ UNCHANGED <<claims, receipts, target, approvals>>

\* ... or while the ledger records the receipt; the result is lost with it.
RecordRaises ==
    /\ At("EXECUTED") /\ Fault
    /\ tokens' \in {tokens, [tokens EXCEPT ![calls] = "RECEIPTED"]}
    /\ Only([ToDo(<<>>, "BROKER_FAILED") EXCEPT !.result = None])
    /\ UNCHANGED <<claims, receipts, target, approvals>>

-----------------------------------------------------------------------------
(* Verification of the effect.                                             *)

\* Variant: only ROLLBACK_REQUIRED asks for a rollback.
ReportLiterally(status, codes, observed) ==
    [status |-> status, codes |-> codes, observed |-> observed,
     rollback |-> status = "ROLLBACK_REQUIRED",
     token |-> calls, attempt |-> calls]
Report(status, codes, observed) ==
    [status |-> status, codes |-> codes, observed |-> observed,
     rollback |-> status \notin {"VERIFIED", "FAILED"},
     token |-> calls, attempt |-> calls]

\* What the engine writes itself when a component raised.
Conservative(observed) ==
    IF observed # call.before
    THEN Report("ROLLBACK_REQUIRED", {"ROLLBACK_REQUIRED"}, observed)
    ELSE Report("FAILED", {}, observed)

\* verify_execution.  With an unchanged last_action_id the binding fails.
VerdictOn(observed) ==
    IF observed.last # call.result.attempt THEN Conservative(observed)
    ELSE IF observed.degraded # call.before.degraded
    THEN Report("UNEXPECTED_EFFECT", {"ROLLBACK_REQUIRED"}, observed)
    ELSE IF observed.expires THEN Report("VERIFIED", {}, observed)
    ELSE Report("PARTIAL", {"ROLLBACK_REQUIRED"}, observed)

\* The verifier answers; it cannot observe and says so; it raises and the engine
\* observes itself; or that fails as well.
Verifications ==
    {[calm |-> TRUE, report |-> VerdictOn(target)],
     [calm |-> FALSE, report |-> Report("FAILED", {}, Nothing)],
     [calm |-> FALSE, report |-> Conservative(target)],
     [calm |-> FALSE, report |-> Conservative(Unavailable)]}

VerifyEffect ==
    /\ At("ACTED")
    /\ \E v \in Verifications :
         /\ IF v.calm THEN Calm ELSE Fault
         /\ Only([ToDo(Tail(Accounted), "CLOSING") EXCEPT !.verification = v.report])
    /\ UNCHANGED <<stores, approvals>>

AccountForEffect ==
    /\ At("ACCOUNTING")
    /\ \E v \in IF call.verification = None THEN Verifications
               ELSE {[calm |-> TRUE, report |-> call.verification]} :
         /\ IF v.calm THEN Calm ELSE Fault
         /\ Only([ToDo(AccountingRest, "CLOSING") EXCEPT
                    !.verification =
                      [Conservative(v.report.observed) EXCEPT
                         !.codes = @ \cup v.report.codes]])
    /\ UNCHANGED <<stores, approvals>>

CloseBrokerFailure ==
    /\ At("BROKER_FAILED")
    /\ \E observed \in {target, Unavailable} :
         /\ IF observed = target THEN Calm ELSE Fault
         /\ Only([ToDo(FailureRest, "CLOSING") EXCEPT
                    !.result = [attempt |-> calls, token |-> calls, known |-> FALSE],
                    !.verification = Conservative(observed)])
    /\ UNCHANGED <<stores, approvals>>

-----------------------------------------------------------------------------
(* The end of a call, approvals, crashes.                                  *)

OwnLifecycle == SubSeq(rows, Max(Starts), Len(rows))
ClosesClaim ==
    /\ call.reasons \cap RefusedByLedger = {}
    /\ call.request \in Requests
    /\ claims[call.request] # None /\ claims[call.request].content = call.content
    /\ \/ claims[call.request].state = "CLAIMED"
       \/ /\ claims[call.request].state = "AUTHORIZED"
          /\ tokens[calls] = "RECEIPTED"

\* _validated_result, then _persist_durable_terminal_result.
Close ==
    /\ At("CLOSING")
    /\ claims' = IF ValidLifecycle(OwnLifecycle) /\ ClosesClaim
                 THEN [claims EXCEPT ![call.request].state = "TERMINAL",
                                     ![call.request].decision = calls]
                 ELSE claims
    /\ Only(Idle) /\ Calm /\ UNCHANGED <<tokens, receipts, target, approvals>>

CloseRaises ==
    /\ At("CLOSING") /\ ClosesClaim /\ Fault
    /\ Only(Idle) /\ UNCHANGED <<stores, approvals>>

\* A requirement is with the caller once its call has returned.
Returned ==
    {n \in Calls :
       /\ approvals[n] # None
       /\ \E i \in DOMAIN rows : rows[i].decision = n
                               /\ rows[i].type = "APPROVAL_REQUIREMENT_PRODUCED"
       /\ \E r \in Requests : /\ claims[r] # None /\ claims[r].state = "TERMINAL"
                              /\ claims[r].decision = n}

ContentOf(n) == rows[Min({i \in DOMAIN rows : rows[i].decision = n})].intake
ApprovalRow(n, receipt) ==
    [type |-> "APPROVAL_RECORDED", intake |-> ContentOf(n), decision |-> n,
     request |-> RequestOf[ContentOf(n)],
     body |-> [scope |-> <<ContentOf(n), n>>, approver |-> receipt.approver,
               at |-> receipt.at]]
\* Variant: the gate is asked instead of the file.
RecordedIfUsed(n) == approvals[n].used
Recorded(n) == \E i \in Approvals : rows[i].decision = n

ApprovalOpen(n) ==
    /\ approvals[n].created <= clock
    /\ clock < approvals[n].created + ApprovalTTL

\* A receipt whose record failed stays pending and is offered again unchanged.
ReceiptOf(n, approver) ==
    IF approvals[n].pending # None THEN approvals[n].pending
    ELSE [approver |-> approver, at |-> clock]

MayApprove(n, approver) ==
    /\ call.at = "IDLE"
    /\ n \in Returned
    /\ ApprovalOpen(n)
    /\ ~approvals[n].used
    /\ ReceiptOf(n, approver).approver = approver
    /\ ~Fenced
Resting == UNCHANGED <<call, calls, stores, mode, clock>>

\* A receipt that is already in the file is not written twice.
Approve(n, approver) ==
    /\ MayApprove(n, approver)
    /\ rows' = IF Recorded(n) THEN rows
               ELSE Append(rows, ApprovalRow(n, ReceiptOf(n, approver)))
    /\ approvals' = [approvals EXCEPT ![n].used = TRUE, ![n].pending = None]
    /\ Resting /\ UNCHANGED <<ambiguous, faults>>

ApproveFails(n, approver) ==
    /\ MayApprove(n, approver) /\ ~Recorded(n) /\ Fault
    /\ approvals' = [approvals EXCEPT ![n].pending = ReceiptOf(n, approver)]
    /\ \/ UNCHANGED <<rows, ambiguous>>
       \/ /\ rows' = Append(rows, ApprovalRow(n, ReceiptOf(n, approver)))
          /\ ambiguous' \in {ambiguous, ambiguous \cup {Len(rows) + 1}}
    /\ Resting

\* The process dies and starts again: the gate is new.
Crash ==
    /\ Fault
    /\ call # Idle \/ \E n \in Calls : approvals[n] # None
    /\ call' = Idle /\ approvals' = [n \in Calls |-> None]
    /\ UNCHANGED <<rows, ambiguous, calls, stores, mode, clock>>

Tick ==
    /\ clock < MaxTime /\ clock' = clock + 1
    /\ UNCHANGED <<rows, ambiguous, call, calls, stores, mode, approvals, faults>>

Init ==
    /\ rows = <<>> /\ ambiguous = {} /\ call = Idle /\ calls = 0
    /\ claims = [r \in Requests |-> None]
    /\ tokens = [n \in Calls |-> None] /\ receipts = [n \in Calls |-> None]
    /\ target = Untouched /\ mode \in Modes
    /\ approvals = [n \in Calls |-> None] /\ clock = 0 /\ faults = 0

Next ==
    \/ AppendOK \/ AppendFails \/ AppendAmbiguous
    \/ \E content \in Contents : Submit(content)
    \/ RejectBody \/ AcceptBody \/ RefuseEarly \/ Claim \/ ClaimUnavailable
    \/ ControlRaises \/ AssessEvidence \/ AssessConsequence \/ BuildDecision
    \/ VerifyDecision \/ ProduceDecision
    \/ IssueAuthorization \/ IssueRaises \/ BrokerRejects \/ BrokerRaises
    \/ ConsumeAuthorization \/ Execute \/ ExecuteRaises
    \/ RecordReceipt \/ RecordRaises
    \/ VerifyEffect \/ AccountForEffect \/ CloseBrokerFailure
    \/ Close \/ CloseRaises
    \/ \E n \in Calls, approver \in Approvers :
         Approve(n, approver) \/ ApproveFails(n, approver)
    \/ Crash \/ Tick

Spec == Init /\ [][Next]_vars

-----------------------------------------------------------------------------
(* Properties.                                                             *)

\* The state of the four stores and of a call: a verification that asks for
\* nothing to be rolled back is VERIFIED or FAILED, an effect has an authorization
\* that was spent for it, and a spent authorization a request that names it.
LifecycleTypeOK ==
    /\ claims \in [Requests -> ClaimRows \cup {None}]
    /\ receipts \in [Calls -> Receipts \cup {None}] /\ target \in States
    /\ approvals \in [Calls -> Requirements \cup {None}]
    /\ ambiguous \subseteq DOMAIN rows
    /\ calls \in 0..MaxCalls /\ faults \in 0..MaxFaults /\ clock \in 0..MaxTime
    /\ call.verification \in Reports \cup {None}
    /\ call.verification # None =>
         (call.verification.rollback
            <=> call.verification.status \notin {"VERIFIED", "FAILED"})
    /\ \A n \in Calls :
         /\ tokens[n] \in {None, "ISSUED", "RESERVED", "RECEIPTED"}
         /\ receipts[n] # None => tokens[n] \in {"RESERVED", "RECEIPTED"}
         /\ tokens[n] # None => \E r \in Requests : claims[r] # None
                                                 /\ claims[r].decision = n
    /\ \A i \in DOMAIN rows : rows[i].decision \in 1..calls

RowsOf(n) == {i \in DOMAIN rows : rows[i].decision = n}
RowsOfType(n, t) == {i \in RowsOf(n) : rows[i].type = t}
Finished(n) == RowsOfType(n, "FINAL_STATE_RECORDED") # {}
ClaimedBy(n) == \E r \in Requests : claims[r] # None /\ claims[r].by = n

\* The five histories after which the fence refuses the file for good.
ApprovedBehindARepeat ==
    \E i \in Approvals, j \in DOMAIN rows :
       /\ j < i /\ rows[j].type = "FINAL_STATE_RECORDED"
       /\ rows[j].intake = rows[i].intake /\ rows[j].decision > rows[i].decision
ClosedWithoutSeeingTheTarget ==
    \E n \in Calls :
       /\ RowsOfType(n, "BROKER_FAILURE") = {}
       /\ \E i \in RowsOfType(n, "FINAL_STATE_RECORDED") :
             rows[i].body.state \in {Nothing, Unavailable}
AccountedThoughPresent ==
    \E n \in Calls :
       /\ Finished(n)
       /\ \E i \in RowsOfType(n, "POST_EFFECT_ACCOUNTING_FAILURE") :
             \E j \in RowsOfType(n, rows[i].body.failed) : j < i
StoppedWithoutClaim ==
    \E n \in Calls : RowsOf(n) # {} /\ ~Finished(n) /\ ~ClaimedBy(n)
ClaimedAndRejected ==
    \E n \in Calls : /\ ClaimedBy(n) /\ Finished(n)
                     /\ RowsOfType(n, "REQUEST_REJECTED") # {}

\* Between calls the fence accepts the file unless one of five histories is in it:
\* an approval recorded after a repeat of the escalated request, an effect closed
\* without an observation, an accounting failure for a record that was written
\* after all, a call that ended before or without its claim, a claim whose answer
\* was lost.  Everything else the engine writes, with every failure it handles, its
\* own validator and the entry fence accept.
FenceRefusesOnly ==
    call.at = "IDLE" =>
      (~FenceAccepts <=> \/ ApprovedBehindARepeat \/ ClosedWithoutSeeingTheTarget
                         \/ AccountedThoughPresent \/ StoppedWithoutClaim
                         \/ ClaimedAndRejected)

Without(life, i) == [j \in 1..(Len(life) - 1) |-> life[IF j < i THEN j ELSE j + 1]]
Swapped(life, i) == [life EXCEPT ![i] = life[i + 1], ![i + 1] = life[i]]
\* An accounting failure of the closing record proves only what the verification
\* before it said: when both agree, the pair may be cut out.
Redundant(life, i) ==
    /\ life[i].type \in {"POST_EFFECT_ACCOUNTING_FAILURE", "VERIFICATION_PERFORMED"}
    /\ Has(life, "POST_EFFECT_ACCOUNTING_FAILURE")
    /\ Of(life, "POST_EFFECT_ACCOUNTING_FAILURE").failed = "FINAL_STATE_RECORDED"

\* A closed lifecycle says nothing else than what happened: no record can be left
\* out of it and no two neighbours exchanged without the validator noticing
\* (control failures apart, whose evaluations are optional).
ClosedLifecycleIsRigid ==
    call.at = "IDLE" =>
    \A s \in Starts :
       LET life == LifeAt(s) IN
       /\ EndOf(s) = Len(rows) /\ Closed(s)
       /\ ~Has(life, "CONTROL_PLANE_FAILURE") /\ ValidLifecycle(life)
       => /\ \A i \in DOMAIN life :
               Redundant(life, i) \/ ~ValidLifecycle(Without(life, i))
          /\ \A i \in 1..(Len(life) - 1) : ~ValidLifecycle(Swapped(life, i))

\* What is written about an effect never makes it smaller: a closing record with no
\* operational effects means that the adapter changed nothing for this call, and
\* VERIFIED that it changed exactly what was asked.
EffectNeverUnderstated ==
    \A i \in DOMAIN rows :
       LET n == rows[i].decision
           final == rows[i].body
       IN rows[i].type = "FINAL_STATE_RECORDED" =>
            /\ final.effects = 0 =>
                 receipts[n] = None \/ receipts[n].after = receipts[n].before
            /\ final.status = "VERIFIED" =>
                 /\ receipts[n] # None
                 /\ receipts[n].after =
                      [receipts[n].before EXCEPT !.last = n, !.expires = TRUE]

\* A requirement is approved at most once, by one approver, within its interval,
\* however often a failed commit of its receipt is offered again; and never for a
\* call that had an effect.
ApprovedOnce ==
    \A i \in Approvals :
       LET n == rows[i].decision IN
       /\ \A j \in Approvals : rows[j].decision = n => j = i
       /\ receipts[n] = None
       /\ \E j \in RowsOfType(n, "APPROVAL_REQUIREMENT_PRODUCED") :
             /\ j < i /\ rows[j].body.created <= rows[i].body.at
             /\ rows[i].body.at < rows[j].body.created + ApprovalTTL

\* phase3/engine.py:1291: an ambiguous append stops the call "before any later
\* lifecycle write or T3 commit".
AmbiguousNeverCommitted ==
    \A r \in Requests : claims[r] # None /\ claims[r].state = "TERMINAL" =>
       ~\E i \in ambiguous : rows[i].decision = claims[r].decision
                           /\ rows[i].type # "APPROVAL_RECORDED"

=============================================================================

------------------------------- MODULE StageA -------------------------------
(***************************************************************************)
(* The durable Stage A decision path (Phase3DecisionFirewall in            *)
(* phase3/engine.py) over its three independent stores:                    *)
(*   - the control ledger (ControlLedger),                                 *)
(*   - the synthetic adapter (SyntheticAdapter),                           *)
(*   - the append-only lifecycle audit (this module).                      *)
(* No transaction spans two of them: an operation is a sequence of durable *)
(* steps and may stop between any two (Interrupt: the process dies, or an  *)
(* exception leaves the operation).                                        *)
(*                                                                         *)
(* The startup lock, the audit lock and the process lock are held for the  *)
(* whole of process_json and reconcile_request, so there is one operation  *)
(* at a time (op).  Every operation starts with the entry fence, which     *)
(* correlates the stores and the audit and refuses on any mismatch; a      *)
(* refused call writes nothing.                                            *)
(*                                                                         *)
(* Token, attempt and decision identifiers are fresh uuids in the code; a  *)
(* request ever stores one of each, so here they are named after it.  The  *)
(* audit is a sequence of lifecycles; the records of a lifecycle are kept  *)
(* as far as the fence distinguishes them.                                 *)
(* A definition commented as a Variant is a plausible mistake in the one   *)
(* below it, used by no action: the README says which property notices it. *)
(***************************************************************************)
EXTENDS Naturals, Sequences, FiniteSets

CONSTANTS
    Requests,         \* (principal_id, request_id) keys
    Digests,          \* values of request_sha256
    Targets,          \* the adapter's inventory
    Fault,            \* the injected fault mode of each target
    MaxTime,          \* bound on timestamps
    ClockMayStepBack, \* TRUE when the wall clock may be set back
    MaxLifecycles,    \* bound on the submissions
    MaxStops,         \* bound on the interruptions
    Null

ASSUME StageAAssumption ==
    /\ {MaxTime, MaxLifecycles, MaxStops} \subseteq Nat
    /\ ClockMayStepBack \in BOOLEAN

VARIABLES
    requests, authorizations, attempts, results, outbox, \* the control ledger
    reported,         \* request_results.target_state_sha256
    targets, receipts,                                   \* the adapter store
    audit,            \* the lifecycles of the audit file, in file order
    op,               \* the operation that holds the locks
    clock,            \* the wall clock
    stops             \* how many operations were cut short

TokenOf(r) == <<"token", r>>
AttemptOf(r) == <<"attempt", r>>
DecisionOf(r) == <<"decision", r>>
RecoveryDecisionOf(r) == <<"recovery", r>>

StageTokens == {TokenOf(r) : r \in Requests}
StageAttempts == {AttemptOf(r) : r \in Requests}
StageDecisions ==
    {DecisionOf(r) : r \in Requests} \cup {RecoveryDecisionOf(r) : r \in Requests}

Adapter == INSTANCE SyntheticAdapter WITH
    Tokens <- StageTokens, Attempts <- StageAttempts, MaxPrepared <- 0,
    prepared <- {}, replies <- {}, now <- clock

Ledger == INSTANCE ControlLedger WITH
    Tokens <- StageTokens, Attempts <- StageAttempts,
    Decisions <- StageDecisions, Receipts <- Adapter!Receipt, Links <- Requests

\* SQL NULL is no identifier and no receipt, and every target has a fault mode.
ASSUME StoreAssumption ==
    /\ Null \notin Requests \cup Digests \cup Targets \cup StageTokens \cup StageAttempts
                      \cup StageDecisions \cup Adapter!Receipt
    /\ Fault \in [Targets -> Adapter!FaultModes]

ledgerStore ==
    <<requests, authorizations, attempts, results, outbox, reported>>
adapterStore == <<targets, receipts>>
svars == <<ledgerStore, adapterStore, audit, op, clock, stops>>

-----------------------------------------------------------------------------
(* The audit file and the operation in progress.                           *)

\* Of the up to fifteen records of an ordinary lifecycle: whether the request
\* was bound (REQUEST_VALIDATED), whether it was rejected (REQUEST_REJECTED or
\* POLICY_EVALUATION_FAILED) or evaluated (EVIDENCE_EVALUATED, POLICY_EVALUATED
\* or CONTROL_PLANE_FAILURE), and whether FINAL_STATE_RECORDED closed it.
Received == [kind |-> "ordinary", request |-> Null, sha |-> Null,
             decision |-> Null, marks |-> {}]

\* A recovery lifecycle has one to three records, all bound to one result.
RecoveryBegun(r, sha, result) ==
    [kind |-> "recovery", request |-> r, sha |-> sha,
     decision |-> result.decision, result |-> result, rows |-> 1]
RecoveryRows == 3

Idle == [at |-> "IDLE", request |-> Null, sha |-> Null, command |-> Null,
         verified |-> FALSE, final |-> Null, time |-> 0]

StageInit ==
    /\ Ledger!Init
    /\ Adapter!AdapterInit
    /\ reported = [r \in Requests |-> Null]
    /\ audit = <<>>
    /\ op = Idle
    /\ stops = 0

-----------------------------------------------------------------------------
(* The entry fence (_exclusive_audit_file_execution).                      *)

OpenRequests == {r \in Requests : requests[r].state \notin {"ABSENT", "TERMINAL"}}
ClaimedRequests == {r \in Requests : requests[r].state # "ABSENT"}

\* The adapter receipt stored under the attempt's idempotency key, if any.
ReceiptsUnder(a) ==
    {receipts[i] : i \in {j \in DOMAIN receipts :
                             receipts[j].command.token = attempts[a].token}}

StatusesBehind(state) ==
    CASE state = "VERIFIED_EFFECT" -> {"APPLIED"}
      [] state = "FAILED_NO_EFFECT" -> {"NO_EFFECT"}
      [] OTHER -> {"APPLIED", "PARTIAL", "AMBIGUOUS"}

\* _validate_durable_store_correlation: the two stores tell one history.
StoresCorrelated ==
    /\ \A i \in DOMAIN receipts :
          \E a \in StageAttempts :
              /\ attempts[a].state # "ABSENT"
              /\ attempts[a].token = receipts[i].command.token
    /\ \A a \in StageAttempts :
          LET try == attempts[a] IN
          try.state # "ABSENT" =>
              /\ ReceiptsUnder(a) = {} =>
                    \/ try.state = "RESERVED"
                    \/ try.state = "UNKNOWN_EFFECT" /\ try.receipt = Null
              /\ \A rcpt \in ReceiptsUnder(a) :
                    /\ rcpt.attempt = a /\ rcpt.command.request = try.request
                    /\ try.state # "RESERVED" => try.receipt = rcpt
                    /\ try.state \in Ledger!TerminalAttemptStates =>
                          /\ rcpt.status \in StatusesBehind(try.state)
                          /\ reported[try.request] = rcpt.after

OrdinaryOnes == {l \in DOMAIN audit : audit[l].kind = "ordinary"}
RecoveryOnes == DOMAIN audit \ OrdinaryOnes
IncompleteOnes == {l \in OrdinaryOnes : "CLOSED" \notin audit[l].marks}
CompleteOnes ==
    {l \in OrdinaryOnes \ IncompleteOnes :
        "EVALUATED" \in audit[l].marks /\ "REJECTED" \notin audit[l].marks}
RecoveredOnes == {l \in RecoveryOnes : audit[l].rows = RecoveryRows}

Binding(l) == <<audit[l].request, audit[l].sha, audit[l].decision>>

\* The row of the request a lifecycle is bound to exists, with its digest.
Bound(l) ==
    /\ audit[l].request \in ClaimedRequests
    /\ requests[audit[l].request].sha = audit[l].sha

\* audit_continuity_snapshot: the decision the ledger knows for a request.
ControlDecision(r) ==
    IF requests[r].state = "TERMINAL" THEN results[r].decision
    ELSE IF authorizations[TokenOf(r)].request = r
         THEN authorizations[TokenOf(r)].decision
         ELSE Null

\* Recovery records are read in contiguous runs: a run is one recovery, and an
\* unfinished one is the tail.
RecoveriesWellFormed ==
    \A l \in RecoveryOnes :
        /\ l + 1 \notin RecoveryOnes
        /\ l \notin RecoveredOnes => l = Len(audit)

\* _validate_durable_audit_continuity: every request of the ledger has exactly
\* one ordinary lifecycle, a terminal one exactly one complete account.
AuditContinuous ==
    /\ RecoveriesWellFormed
    /\ \A l \in IncompleteOnes : Bound(l)
    /\ \A l \in CompleteOnes \cup RecoveredOnes :
          /\ Bound(l)
          /\ ControlDecision(audit[l].request) \in {Null, audit[l].decision}
          /\ \A m \in CompleteOnes \cup RecoveredOnes :
                audit[l].kind = audit[m].kind /\ Binding(l) = Binding(m) => l = m
    /\ \A r \in ClaimedRequests :
          /\ Cardinality({l \in CompleteOnes \cup IncompleteOnes :
                 audit[l].request = r /\ audit[l].sha = requests[r].sha}) = 1
          /\ requests[r].state = "TERMINAL" =>
                Cardinality({l \in CompleteOnes \cup RecoveredOnes :
                    Binding(l) = <<r, requests[r].sha, ControlDecision(r)>>}) = 1

\* _pending_recovery_tail: the recovery at the end of the audit whose result the
\* ledger has not committed.
PendingRecoveries ==
    {l \in RecoveryOnes \cap {Len(audit)} :
        \/ audit[l].rows < RecoveryRows
        \/ requests[audit[l].request].state # "TERMINAL"}
TailMatchesLedger ==
    \A l \in RecoveredOnes \cap {Len(audit)} :
        requests[audit[l].request].state = "TERMINAL" =>
            results[audit[l].request] = audit[l].result

\* Variant: open requests are left to the next reconciliation.
EntryFenceLax(allowPending, allowOpen) ==
    /\ TailMatchesLedger
    /\ PendingRecoveries # {} => allowPending
    /\ AuditContinuous
    /\ StoresCorrelated
EntryFence(allowPending, allowOpen) ==
    /\ TailMatchesLedger
    /\ PendingRecoveries # {} => allowPending
    /\ AuditContinuous
    /\ OpenRequests # {} => allowOpen
    /\ StoresCorrelated

\* The same as a value: TLC is to evaluate it, not to branch on it.
Admitted(allowPending, allowOpen) == EntryFence(allowPending, allowOpen) = TRUE

-----------------------------------------------------------------------------
(* process_json: one durable step per action.  A run of audit records      *)
(* between two steps is one action when stopping inside it leaves what     *)
(* stopping before it leaves.                                              *)

At(place) == op.at = place
Goto(place) == op' = [op EXCEPT !.at = place]
TailIndex == Len(audit)
Closed(lifecycle, decision, marks) ==
    [lifecycle EXCEPT !.decision = decision, !.marks = @ \cup marks \cup {"CLOSED"}]
CloseLifecycle(decision, marks) ==
    audit' = [audit EXCEPT ![TailIndex] = Closed(@, decision, marks)]

\* REQUEST_RECEIVED
Submit(r, sha) ==
    /\ op = Idle
    /\ Admitted(FALSE, FALSE)
    /\ Cardinality(OrdinaryOnes) < MaxLifecycles
    /\ audit' = Append(audit, Received)
    /\ op' = [Idle EXCEPT !.at = "RECEIVED", !.request = r, !.sha = sha]
    /\ UNCHANGED <<ledgerStore, adapterStore, clock, stops>>

\* REQUEST_REJECTED: no decision identifier, or not a valid request.
Reject ==
    /\ At("RECEIVED")
    /\ CloseLifecycle(Null, {"REJECTED"})
    /\ op' = Idle
    /\ UNCHANGED <<ledgerStore, adapterStore, clock, stops>>

\* REQUEST_VALIDATED; the request's now is read here: it becomes claimed_at and
\* decided_at.
Validate ==
    /\ At("RECEIVED")
    /\ audit' = [audit EXCEPT ![TailIndex] =
                    [@ EXCEPT !.request = op.request, !.sha = op.sha]]
    /\ op' = [op EXCEPT !.at = "VALIDATED", !.time = clock]
    /\ UNCHANGED <<ledgerStore, adapterStore, clock, stops>>

\* Unauthenticated or mismatched agent (no mark), stale request or unknown
\* target (rejected): refused before the ledger is asked.
RefuseBeforeClaim ==
    /\ At("VALIDATED")
    /\ \E marks \in SUBSET {"REJECTED"} : CloseLifecycle(DecisionOf(op.request), marks)
    /\ op' = Idle
    /\ UNCHANGED <<ledgerStore, adapterStore, clock, stops>>

Claim ==
    /\ At("VALIDATED")
    /\ Ledger!ClaimRequest(op.request, op.sha, op.time)
    /\ Goto("CLAIMED")
    /\ UNCHANGED <<reported, adapterStore, audit, clock, stops>>

\* DUPLICATE_REQUEST, REQUEST_ID_CONFLICT or CONTROL_LEDGER_UNAVAILABLE; T3 is
\* skipped for these reasons.
ClaimRefused ==
    /\ At("VALIDATED")
    /\ CloseLifecycle(DecisionOf(op.request), {"REJECTED"})
    /\ op' = Idle
    /\ UNCHANGED <<ledgerStore, adapterStore, clock, stops>>

\* DENY, ESCALATE, a control-plane failure, or a failed observation or issue:
\* DECISION_PRODUCED to FINAL_STATE_RECORDED without execution.
Deny ==
    /\ At("CLAIMED")
    /\ CloseLifecycle(DecisionOf(op.request), {"EVALUATED"})
    /\ Goto("FINISHED")
    /\ UNCHANGED <<ledgerStore, adapterStore, clock, stops>>

\* ALLOW: observe the target, issue and register the one-use authorization
\* bound to that state.
Authorize ==
    LET r == op.request IN
    /\ At("CLAIMED")
    /\ Ledger!Register(TokenOf(r), DecisionOf(r), r, op.sha, clock)
    /\ \E g \in Targets :
          op' = [op EXCEPT !.at = "AUTHORIZED", !.command =
                    [request |-> r, token |-> TokenOf(r), target |-> g,
                     action |-> "NETWORK_ISOLATE", precondition |-> targets[g].state]]
    /\ UNCHANGED <<reported, adapterStore, audit, clock, stops>>

\* BROKER_REJECTED: the token is not consumed (expired, precondition changed,
\* ledger refuses); the request is left AUTHORIZED.
BrokerRejects ==
    /\ At("AUTHORIZED")
    /\ CloseLifecycle(DecisionOf(op.request), {"EVALUATED"})
    /\ Goto("FINISHED")
    /\ UNCHANGED <<ledgerStore, adapterStore, clock, stops>>

\* T1: the broker observes the target again, then spends the token and reserves
\* the attempt.  Its attempted_at is the time of all the broker writes.
Consume ==
    LET r == op.request
        summary == [request |-> r, sha |-> op.sha, decision |-> DecisionOf(r)]
    IN  /\ At("AUTHORIZED")
        /\ targets[op.command.target].state = op.command.precondition
        /\ Ledger!ConsumeOnce(TokenOf(r), AttemptOf(r), summary, clock)
        /\ Goto("RESERVED")
        /\ UNCHANGED <<reported, adapterStore, audit, clock, stops>>

AttemptedAt(r) == attempts[AttemptOf(r)].reserved_at

\* T2, in the adapter's own store.
Execute ==
    /\ At("RESERVED")
    /\ Adapter!ExecuteOnce(op.command, AttemptOf(op.request), AttemptedAt(op.request))
    /\ Goto("EXECUTED")
    /\ UNCHANGED <<ledgerStore, audit, clock, stops>>

\* BROKER_FAILURE to FINAL_STATE_RECORDED: execute_once, the observation after it
\* or the receipt's registration raised; the attempt is left RESERVED.
BrokerFails ==
    /\ At("RESERVED") \/ At("EXECUTED")
    /\ CloseLifecycle(DecisionOf(op.request), {"EVALUATED"})
    /\ Goto("FINISHED")
    /\ UNCHANGED <<ledgerStore, adapterStore, clock, stops>>

RecordReceipt ==
    LET a == AttemptOf(op.request) IN
    /\ At("EXECUTED")
    /\ \E rcpt \in ReceiptsUnder(a) :
          Ledger!RecordAdapterReceipt(a, rcpt, AttemptedAt(op.request))
    /\ Goto("RECEIPTED")
    /\ UNCHANGED <<reported, adapterStore, audit, clock, stops>>

\* ACTION_ATTEMPTED, VERIFICATION_PERFORMED, FINAL_STATE_RECORDED; the verifier
\* may refuse to confirm whatever happened (POST_EFFECT_ACCOUNTING_FAILURE
\* included), T3 does not rely on its confirmation alone.
Verify ==
    /\ At("RECEIPTED")
    /\ CloseLifecycle(DecisionOf(op.request), {"EVALUATED"})
    /\ \E verified \in BOOLEAN :
          op' = [op EXCEPT !.at = "FINISHED", !.verified = verified,
                           !.final = targets[op.command.target].state]
    /\ UNCHANGED <<ledgerStore, adapterStore, clock, stops>>

-----------------------------------------------------------------------------
(* T3 (_persist_durable_terminal_result).  A result that would close before *)
(* its decision, or that reports a verification and no verified effect,    *)
(* cannot be constructed; the call then raises.                            *)

Result(disposition, decision, attempt, receipt, t) ==
    [disposition |-> disposition, decision |-> decision, attempt |-> attempt,
     receipt |-> receipt, terminal_at |-> t]

\* Variant: the receipt's status is not asked for a confirmed effect.
DispositionOfTrusting(rcpt) ==
    CASE op.verified /\ op.final = rcpt.after -> "COMPLETED_VERIFIED"
      [] rcpt.status = "NO_EFFECT" -> "FAILED_NO_EFFECT"
      [] OTHER -> "RECOVERY_REQUIRED"
\* The verdict of the normal path: only an applied, observed and verified
\* effect counts as completed.
DispositionOf(rcpt) ==
    CASE op.verified /\ rcpt.status = "APPLIED" /\ op.final = rcpt.after ->
            "COMPLETED_VERIFIED"
      [] rcpt.status = "NO_EFFECT" -> "FAILED_NO_EFFECT"
      [] OTHER -> "RECOVERY_REQUIRED"

CommitDenial ==
    LET r == op.request IN
    /\ At("FINISHED")
    /\ requests[r].state = "CLAIMED"
    /\ op.time <= clock
    /\ Ledger!CompleteRequest(r, op.sha,
           Result("DENIED_NO_EFFECT", DecisionOf(r), Null, Null, clock))
    /\ op' = Idle
    /\ UNCHANGED <<reported, adapterStore, audit, clock, stops>>

CommitOutcome ==
    LET r == op.request
        a == AttemptOf(r)
    IN  /\ At("FINISHED")
        /\ attempts[a].state = "RECEIPT_RECORDED"
        /\ op.time <= clock
        /\ \E rcpt \in ReceiptsUnder(a) :
              /\ rcpt.attempt = a
              /\ op.verified => DispositionOf(rcpt) = "COMPLETED_VERIFIED"
              /\ Ledger!CompleteRequest(r, op.sha,
                     Result(DispositionOf(rcpt), DecisionOf(r), a, rcpt, clock))
        /\ reported' = [reported EXCEPT ![r] = op.final]
        /\ op' = Idle
        /\ UNCHANGED <<adapterStore, audit, clock, stops>>

\* Without a recorded receipt, or when the closure is refused, the request stays
\* open for reconciliation.
LeaveOpen ==
    LET r == op.request IN
    /\ At("FINISHED")
    /\ \/ /\ requests[r].state # "CLAIMED"
          /\ attempts[AttemptOf(r)].state # "RECEIPT_RECORDED"
       \/ clock < requests[r].updated_at
       \/ /\ op.verified
          /\ \A rcpt \in ReceiptsUnder(AttemptOf(r)) :
                DispositionOf(rcpt) # "COMPLETED_VERIFIED"
    /\ op' = Idle
    /\ UNCHANGED <<ledgerStore, adapterStore, audit, clock, stops>>

Process ==
    \/ Reject \/ Validate \/ RefuseBeforeClaim \/ Claim \/ ClaimRefused
    \/ Deny \/ Authorize \/ BrokerRejects \/ Consume \/ Execute \/ BrokerFails
    \/ RecordReceipt \/ Verify \/ CommitDenial \/ CommitOutcome \/ LeaveOpen

-----------------------------------------------------------------------------
(* reconcile_request.  A request that is terminal or unknown is answered   *)
(* without writing.                                                        *)

NoAttemptOf(r) == attempts[AttemptOf(r)].state = "ABSENT"

\* The terminal timestamp is frozen by the first recovery record.
RecoveryTime ==
    IF PendingRecoveries = {} THEN clock ELSE audit[TailIndex].result.terminal_at

StartReconcile(r, sha) ==
    /\ op = Idle
    /\ Admitted(TRUE, TRUE)
    /\ r \in OpenRequests /\ requests[r].sha = sha
    /\ \A l \in PendingRecoveries : audit[l].request = r
    /\ op' = [Idle EXCEPT !.at = "RECOVERING", !.request = r, !.sha = sha,
                          !.time = RecoveryTime]
    /\ UNCHANGED <<ledgerStore, adapterStore, audit, clock, stops>>

\* What the recovery finds to settle in the ledger before it writes its records.
AuthorityToRevoke(r) ==
    NoAttemptOf(r) /\ authorizations[TokenOf(r)].state = "ISSUED"
\* Variant: the adapter is not asked.
ReceiptToRecoverUnasked(r) == FALSE
ReceiptToRecover(r) ==
    attempts[AttemptOf(r)].state = "RESERVED" /\ ReceiptsUnder(AttemptOf(r)) # {}

RevokeAuthority ==
    /\ At("RECOVERING")
    /\ AuthorityToRevoke(op.request)
    /\ Ledger!RevokeIssuedForRequest(op.request, op.sha, op.time)
    /\ UNCHANGED <<reported, adapterStore, audit, op, clock, stops>>

RecoverReceipt ==
    LET a == AttemptOf(op.request) IN
    /\ At("RECOVERING")
    /\ ReceiptToRecover(op.request)
    /\ \E rcpt \in ReceiptsUnder(a) :
          rcpt.attempt = a /\ Ledger!RecordAdapterReceipt(a, rcpt, op.time)
    /\ UNCHANGED <<reported, adapterStore, audit, op, clock, stops>>

\* The closed recovery table: without verification evidence an effect, or a
\* missing receipt, is UNKNOWN_EFFECT.
RecoveryResult(r) ==
    LET a == AttemptOf(r) IN
    IF NoAttemptOf(r)
    THEN Result("ABORTED_NO_EFFECT", RecoveryDecisionOf(r), Null, Null, op.time)
    ELSE IF attempts[a].receipt = Null
    THEN Result("UNKNOWN_EFFECT", DecisionOf(r), a, Null, op.time)
    ELSE Result(IF attempts[a].receipt.status = "NO_EFFECT"
                THEN "FAILED_NO_EFFECT" ELSE "UNKNOWN_EFFECT",
                DecisionOf(r), a, attempts[a].receipt, op.time)

\* RequestLookupResult refuses a result that closes before its decision: the
\* decision's time for an attempt (claimed_at), else the last transition's.
ReadyToRecord(r) ==
    /\ ~AuthorityToRevoke(r) /\ ~ReceiptToRecover(r)
    /\ IF NoAttemptOf(r) THEN requests[r].updated_at <= op.time
                         ELSE requests[r].claimed_at <= op.time

\* Variant: a resumed recovery writes its records from the start.
AppendRecoveryRecordAnew ==
    LET r == op.request IN
    /\ At("RECOVERING")
    /\ ReadyToRecord(r)
    /\ audit' = Append(audit, RecoveryBegun(r, op.sha, RecoveryResult(r)))
    /\ UNCHANGED <<ledgerStore, adapterStore, op, clock, stops>>
\* _close_recovery_audit: continues the exact prefix it finds at the tail.
AppendRecoveryRecord ==
    LET r == op.request
        result == RecoveryResult(r)
    IN  /\ At("RECOVERING")
        /\ ReadyToRecord(r)
        /\ \/ /\ PendingRecoveries = {}
              /\ audit' = Append(audit, RecoveryBegun(r, op.sha, result))
           \/ /\ PendingRecoveries # {}
              /\ audit[TailIndex].result = result
              /\ audit[TailIndex].rows < RecoveryRows
              /\ audit' = [audit EXCEPT ![TailIndex].rows = @ + 1]
        /\ UNCHANGED <<ledgerStore, adapterStore, op, clock, stops>>

CommitRecovery ==
    LET r == op.request
        result == RecoveryResult(r)
    IN  /\ At("RECOVERING")
        /\ ReadyToRecord(r)
        /\ \E l \in PendingRecoveries :
              audit[l].rows = RecoveryRows /\ audit[l].result = result
        /\ Ledger!CompleteRequest(r, op.sha, result)
        /\ reported' = IF result.receipt = Null THEN reported
                       ELSE [reported EXCEPT ![r] = result.receipt.after]
        /\ op' = Idle
        /\ UNCHANGED <<adapterStore, audit, clock, stops>>

Recover ==
    RevokeAuthority \/ RecoverReceipt \/ AppendRecoveryRecord \/ CommitRecovery

-----------------------------------------------------------------------------
(* The environment.                                                        *)

\* The process dies or an exception ends the operation: the locks are released,
\* the stores stay as they are.
Interrupt ==
    /\ op # Idle
    /\ stops < MaxStops
    /\ stops' = stops + 1
    /\ op' = Idle
    /\ UNCHANGED <<ledgerStore, adapterStore, audit, clock>>

ClockMoves ==
    /\ Ledger!ClockMoves
    /\ UNCHANGED <<reported, adapterStore, audit, op, stops>>

Submitting == \E r \in Requests, sha \in Digests : Submit(r, sha)
Reconciling == \E r \in Requests, sha \in Digests : StartReconcile(r, sha)

StageNext ==
    \/ Submitting \/ Process \/ Reconciling \/ Recover \/ Interrupt \/ ClockMoves

StageSpec == StageInit /\ [][StageNext]_svars

\* A running operation proceeds, and the operator repeats the exact
\* reconciliation the runbook prescribes until the request is closed.
FairStageSpec ==
    StageSpec /\ WF_svars(Process) /\ WF_svars(Recover) /\ WF_svars(Reconciling)

-----------------------------------------------------------------------------
(* Properties.                                                             *)

\* Wherever an operation is cut short, the two stores can be correlated again:
\* no orphan receipt, no receipt missing from under a settled attempt.
StoresAlwaysCorrelated == StoresCorrelated

\* Both stores stay acceptable to their own validators in every interleaving of
\* process_json, its interruptions and reconciliation.
StoresAlwaysValid == Ledger!RelationsValid /\ Adapter!StoreValid

EffectsOf(r) ==
    {i \in DOMAIN receipts :
        receipts[i].command.request = r /\ receipts[i].status # "NO_EFFECT"}

\* What a caller is told about the world is true of the world: a verified
\* completion changed the target, a no-effect result did not, whether the
\* normal path or a recovery wrote it.
VerdictsAreHonest ==
    \A r \in Requests :
        LET verdict == results[r].disposition IN
        /\ verdict = "COMPLETED_VERIFIED" =>
              \E i \in EffectsOf(r) : receipts[i].status = "APPLIED"
        /\ verdict = "RECOVERY_REQUIRED" => EffectsOf(r) # {}
        /\ verdict \in {"DENIED_NO_EFFECT", "ABORTED_NO_EFFECT", "FAILED_NO_EFFECT"} =>
              EffectsOf(r) = {}

\* While a recovery is pending, the only writes to the audit and the ledger are
\* that recovery's own: its next record, its receipt, its revocation, its commit.
PendingRecoveryOwnsTheStores ==
    [][PendingRecoveries # {} =>
          LET r == audit[TailIndex].request IN
          /\ Len(audit') = Len(audit)
          /\ receipts' = receipts
          /\ \A other \in Requests \ {r} : requests'[other] = requests[other]
          /\ audit'[TailIndex].result = audit[TailIndex].result ]_svars

\* ADR-015: "If a crash occurs after any prefix, exact reconciliation resumes
\* idempotently."  The fence lets the exact reconciliation of a pending
\* recovery in.
RecoveryCanResume ==
    op = Idle /\ PendingRecoveries # {} => EntryFence(TRUE, TRUE)

\* ADR-015: "an exact recovery retry may commit T3 without changing the already
\* closed trio": the frozen timestamp is one the ledger will take.
RecoveryCanCommit ==
    \A l \in PendingRecoveries :
        requests[audit[l].request].updated_at <= audit[l].result.terminal_at

\* Runbook: "An exact repeat must return the same result without mutation."
\* After a committed reconciliation, lookup and its exact repeat are admitted.
ReconciledRequestsStayReadable ==
    op = Idle /\ TailIndex \in RecoveredOnes /\ PendingRecoveries = {}
        => EntryFence(TRUE, TRUE)

\* The whole path, interruptions and recoveries included, keeps the promise of
\* GatedEffect.
Gate == INSTANCE GatedEffect WITH
    phase <- [r \in Requests |->
        CASE requests[r].state = "ABSENT" -> "NONE"
          [] requests[r].state \in {"CLAIMED", "AUTHORIZED"} -> "OPEN"
          [] requests[r].state = "ATTEMPT_RESERVED" -> "SPENT"
          [] OTHER -> "CLOSED"],
    effect <- [r \in Requests |-> EffectsOf(r) # {}],
    verdict <- [r \in Requests |->
        CASE results[r].disposition = "ABSENT" -> "NONE"
          [] results[r].disposition = "COMPLETED_VERIFIED" -> "VERIFIED"
          [] results[r].disposition \in {"RECOVERY_REQUIRED", "UNKNOWN_EFFECT"} ->
                "UNSETTLED"
          [] OTHER -> "NO_EFFECT"]
ImplementsGatedEffect == Gate!GateSpec


=============================================================================

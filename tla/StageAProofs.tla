---------------------------- MODULE StageAProofs ----------------------------
(***************************************************************************)
(* Theorems about StageA: what the durable path tells about the world is   *)
(* true, and its three stores tell one history, for every number of        *)
(* requests and targets, every fault mode, every clock, and operations cut *)
(* short between any two steps.                                            *)
(***************************************************************************)
EXTENDS StageA, SequenceTheorems, FiniteSetTheorems, TLAPS

-----------------------------------------------------------------------------
(* Types.                                                                  *)

Results == Ledger!ResultRow
Marks == {"REJECTED", "EVALUATED", "CLOSED"}
OrdinaryLifecycle ==
    [kind : {"ordinary"}, request : Requests \cup {Null}, sha : Digests \cup {Null},
     decision : StageDecisions \cup {Null}, marks : SUBSET Marks]
RecoveryLifecycle ==
    [kind : {"recovery"}, request : Requests, sha : Digests,
     decision : StageDecisions \cup {Null}, result : Results, rows : Nat]
Lifecycles == OrdinaryLifecycle \cup RecoveryLifecycle

Processing ==
    {"RECEIVED", "VALIDATED", "CLAIMED", "AUTHORIZED", "RESERVED", "EXECUTED",
     "RECEIPTED", "FINISHED"}
\* From its authorization on, an operation has the command it was issued for.
Commanded == {"AUTHORIZED", "RESERVED", "EXECUTED", "RECEIPTED"}
OperationRow ==
    [at : Processing \cup {"RECOVERING"}, request : Requests, sha : Digests,
     command : Adapter!Command \cup {Null}, verified : BOOLEAN,
     final : Adapter!TargetState \cup {Null}, time : Ledger!Times]
Operations ==
    {held \in OperationRow : held.at \in Commanded => held.command \in Adapter!Command}

StageTyped ==
    /\ Ledger!TypeOK
    /\ reported \in [Requests -> Adapter!TargetState \cup {Null}]
    /\ targets \in [Targets -> Adapter!TargetRow]
    /\ receipts \in Seq(Adapter!Receipt)
    /\ audit \in Seq(Lifecycles)
    /\ op \in Operations \cup {Idle}

\* Identifiers are named after their request, one of each kind.
LEMMA Identifiers ==
  /\ \A r \in Requests : TokenOf(r) \in StageTokens /\ AttemptOf(r) \in StageAttempts
  /\ \A r \in Requests :
        DecisionOf(r) \in StageDecisions /\ RecoveryDecisionOf(r) \in StageDecisions
  /\ \A k \in StageTokens : \E r \in Requests : k = TokenOf(r)
  /\ \A a \in StageAttempts : \E r \in Requests : a = AttemptOf(r)
  /\ \A q, r \in Requests : TokenOf(q) = TokenOf(r) => q = r
  /\ \A q, r \in Requests : AttemptOf(q) = AttemptOf(r) => q = r
  /\ Null \notin Requests \cup StageTokens \cup StageAttempts \cup StageDecisions
  BY StoreAssumption DEF StageTokens, StageAttempts, StageDecisions, TokenOf, AttemptOf,
     DecisionOf, RecoveryDecisionOf

\* An idle process holds no operation, a busy one a well-formed one.
LEMMA BusyOperation ==
  ASSUME StageTyped, op # Idle
  PROVE  op \in Operations
  BY DEF StageTyped

\* Both components count the same seconds.
LEMMA SameSeconds == Ledger!Times = Adapter!Seconds
  BY DEF Ledger!Times, Adapter!Seconds

\* The empty stores are well formed.
LEMMA InitTyped == StageInit => StageTyped
<1> SUFFICES ASSUME StageInit PROVE StageTyped
  OBVIOUS
<1>1. 0 \in Ledger!Times /\ 0 \in Adapter!Seconds
  BY StageAAssumption DEF Ledger!Times, Adapter!Seconds
<1>2. Ledger!TypeOK
  BY <1>1 DEF StageInit, Ledger!Init, Ledger!TypeOK, Ledger!RequestRow, Ledger!AuthorizationRow,
     Ledger!AttemptRow, Ledger!ResultRow, Ledger!NoRequest, Ledger!NoAuthorization,
     Ledger!NoAttempt, Ledger!NoResult, Ledger!Absent
<1>3. targets \in [Targets -> Adapter!TargetRow] /\ receipts = <<>>
  BY <1>1 DEF StageInit, Adapter!AdapterInit, Adapter!TargetRow, Adapter!TargetState,
     Adapter!Untouched
<1> QED
  BY <1>2, <1>3 DEF StageInit, StageTyped

\* The shared UPDATE statements of the ledger write well-formed rows.
LEMMA RequestMovedTyped ==
  ASSUME Ledger!TypeOK, NEW r \in Requests, NEW state \in Ledger!RequestStates,
         NEW t \in Ledger!Times
  PROVE  Ledger!RequestMoved(r, state, t) \in [Requests -> Ledger!RequestRow]
  BY DEF Ledger!RequestMoved, Ledger!TypeOK, Ledger!RequestRow

\* So does closing authorizations ...
LEMMA AuthorizationsClosedTyped ==
  ASSUME Ledger!TypeOK, NEW ks, NEW state \in Ledger!AuthorizationStates, NEW t \in Ledger!Times
  PROVE  Ledger!AuthorizationsClosed(ks, state, t) \in [StageTokens -> Ledger!AuthorizationRow]
  BY DEF Ledger!AuthorizationsClosed, Ledger!TypeOK, Ledger!AuthorizationRow

\* ... and closing attempts, with a receipt or without.
LEMMA AttemptsClosedTyped ==
  ASSUME Ledger!TypeOK, NEW as, NEW state \in Ledger!AttemptStates,
         NEW receipt \in Adapter!Receipt \cup {Null}, NEW t \in Ledger!Times
  PROVE  Ledger!AttemptsClosed(as, state, receipt, t) \in [StageAttempts -> Ledger!AttemptRow]
  <1>1. \A a \in StageAttempts :
           Ledger!ReceiptKept(a, receipt) \in Adapter!Receipt \cup {Null}
    BY DEF Ledger!ReceiptKept, Ledger!TypeOK, Ledger!AttemptRow
  <1> QED BY <1>1 DEF Ledger!AttemptsClosed, Ledger!TypeOK, Ledger!AttemptRow

\* complete_request writes well-formed rows for a well-formed result.
LEMMA CompleteTyped ==
  ASSUME Ledger!TypeOK, NEW r \in Requests, NEW sha, NEW result \in Results,
         result.disposition \in Ledger!Dispositions,
         Ledger!CompleteRequest(r, sha, result), clock' \in Ledger!Times
  PROVE  Ledger!TypeOK'
<1>1. result.terminal_at \in Ledger!Times /\ result.receipt \in Adapter!Receipt \cup {Null}
  BY DEF Results, Ledger!ResultRow
<1>2. requests' \in [Requests -> Ledger!RequestRow]
  BY <1>1, RequestMovedTyped DEF Ledger!CompleteRequest, Ledger!RequestStates
<1>3. results' \in [Requests -> Ledger!ResultRow]
  BY DEF Ledger!CompleteRequest, Ledger!TypeOK, Results
<1>4. attempts' \in [StageAttempts -> Ledger!AttemptRow]
  <2>1. CASE result.attempt = Null
    BY <2>1 DEF Ledger!CompleteRequest, Ledger!TypeOK
  <2>2. CASE result.attempt # Null
    <3>1. Ledger!AttemptStateFor(result.disposition) \in Ledger!AttemptStates
      BY <2>2 DEF Ledger!CompleteRequest, Ledger!ResultWellFormed, Ledger!AttemptStateFor,
         Ledger!AttemptStates, Ledger!TerminalAttemptStates, Results, Ledger!ResultRow,
         Ledger!Dispositions, Ledger!AttemptedDispositions, Ledger!UnattemptedDispositions
    <3> QED BY <1>1, <2>2, <3>1, AttemptsClosedTyped DEF Ledger!CompleteRequest
  <2> QED BY <2>1, <2>2
<1> QED BY <1>2, <1>3, <1>4 DEF Ledger!CompleteRequest, Ledger!TypeOK

\* record_adapter_receipt writes the receipt into the attempt's row.
LEMMA ReceiptTyped ==
  ASSUME Ledger!TypeOK, NEW a \in StageAttempts, NEW rcpt \in Adapter!Receipt, NEW t,
         Ledger!RecordAdapterReceipt(a, rcpt, t), clock' = clock
  PROVE  Ledger!TypeOK'
<1>1. [attempts[a] EXCEPT !.state = "RECEIPT_RECORDED", !.receipt = rcpt] \in Ledger!AttemptRow
  BY DEF Ledger!TypeOK, Ledger!AttemptRow, Ledger!AttemptStates, Ledger!OpenAttemptStates
<1> QED BY <1>1 DEF Ledger!RecordAdapterReceipt, Ledger!TypeOK

\* Receipts stored under an attempt's key are well formed.
LEMMA ReceiptsUnderTyped ==
  ASSUME StageTyped, NEW a
  PROVE  ReceiptsUnder(a) \subseteq Adapter!Receipt
  BY DEF StageTyped, ReceiptsUnder

\* What the operation in progress will hand to the stores.
LEMMA OperationFields ==
  ASSUME StageTyped, op # Idle
  PROVE  /\ op \in Operations
         /\ op.request \in Requests /\ op.sha \in Digests /\ op.time \in Ledger!Times
         /\ op.at \in Processing \cup {"RECOVERING"}
         /\ AttemptedAt(op.request) \in Ledger!Times
         /\ clock \in Ledger!Times
<1>1. op \in Operations
  BY BusyOperation
<1> QED
  BY <1>1, Identifiers DEF Operations, OperationRow, AttemptedAt, StageTyped, Ledger!TypeOK, Ledger!AttemptRow

\* execute_once appends at most one well-formed receipt and writes its target.
LEMMA ExecuteTyped ==
  ASSUME StageTyped, NEW command \in Adapter!Command, NEW a \in StageAttempts,
         NEW t \in Ledger!Times, Adapter!ExecuteOnce(command, a, t)
  PROVE  targets' \in [Targets -> Adapter!TargetRow] /\ receipts' \in Seq(Adapter!Receipt)
<1> DEFINE before == targets[command.target].state
           status == Adapter!StatusOf(command, before)
           after == Adapter!StateAfter(status, before, a, t)
           new == Adapter!ReceiptFor(command, a, t)
<1>1. before \in Adapter!TargetState
  BY DEF StageTyped, Adapter!Command, Adapter!TargetRow
<1>2. status \in Adapter!Statuses
  BY DEF Adapter!StatusOf, Adapter!Statuses
<1>3. after \in Adapter!TargetState
  BY <1>1, <1>2, SameSeconds DEF Adapter!StateAfter, Adapter!TargetState, Adapter!Statuses
<1>4. new \in Adapter!Receipt /\ new.after = after
  BY <1>1, <1>2, <1>3, SameSeconds DEF Adapter!ReceiptFor, Adapter!Receipt
<1>5. CASE UNCHANGED <<targets, receipts>>
  BY <1>5 DEF StageTyped
<1>6. CASE /\ targets' = [targets EXCEPT ![command.target] = [state |-> new.after, updated_at |-> t]]
           /\ receipts' = Append(receipts, new)
  <2>1. [state |-> new.after, updated_at |-> t] \in Adapter!TargetRow
    BY <1>3, <1>4, SameSeconds DEF Adapter!TargetRow
  <2>2. receipts' \in Seq(Adapter!Receipt)
    BY <1>4, <1>6, AppendProperties DEF StageTyped
  <2> QED BY <1>6, <2>1, <2>2 DEF StageTyped, Adapter!Command
<1> QED BY <1>5, <1>6 DEF Adapter!ExecuteOnce, Adapter!store

\* What the normal path and a recovery commit are rows of the results table.
LEMMA OutcomeTyped ==
  ASSUME StageTyped, op # Idle, NEW rcpt \in Adapter!Receipt
  PROVE  LET r == op.request IN
         /\ Result("DENIED_NO_EFFECT", DecisionOf(r), Null, Null, clock) \in Results
         /\ Result(DispositionOf(rcpt), DecisionOf(r), AttemptOf(r), rcpt, clock) \in Results
         /\ DispositionOf(rcpt) \in Ledger!Dispositions
  BY OperationFields, Identifiers
  DEF Results, Result, Ledger!ResultRow, DispositionOf, Ledger!Dispositions,
      Ledger!AttemptedDispositions, Ledger!UnattemptedDispositions

\* See OutcomeTyped.
LEMMA RecoveryTyped ==
  ASSUME StageTyped, op # Idle
  PROVE  RecoveryResult(op.request) \in Results
         /\ RecoveryResult(op.request).disposition \in Ledger!Dispositions
<1>1. attempts[AttemptOf(op.request)].receipt \in Adapter!Receipt \cup {Null}
  BY OperationFields, Identifiers DEF StageTyped, Ledger!TypeOK, Ledger!AttemptRow
<1> QED
  BY <1>1, OperationFields, Identifiers
  DEF Results, Result, RecoveryResult, Ledger!ResultRow, Ledger!Dispositions,
      Ledger!AttemptedDispositions, Ledger!UnattemptedDispositions

\* The lifecycle an operation of process_json writes is the last and an ordinary one.
LEMMA ClosedTyped ==
  ASSUME StageTyped, audit # <<>>, audit[TailIndex].kind = "ordinary",
         NEW decision \in StageDecisions \cup {Null}, NEW marks \in SUBSET {"REJECTED", "EVALUATED"},
         CloseLifecycle(decision, marks)
  PROVE  audit' \in Seq(Lifecycles) /\ Len(audit') = Len(audit)
         /\ audit'[TailIndex].kind = "ordinary"
<1>1. Len(audit) \in Nat \ {0} /\ TailIndex \in DOMAIN audit /\ audit \in Seq(Lifecycles)
  BY EmptySeq DEF StageTyped, TailIndex
<1>2. audit[TailIndex] \in OrdinaryLifecycle
  BY <1>1 DEF Lifecycles, OrdinaryLifecycle, RecoveryLifecycle
<1>3. audit[TailIndex].marks \cup marks \cup {"CLOSED"} \in SUBSET Marks
  BY <1>2 DEF OrdinaryLifecycle, Marks
<1>4. Closed(audit[TailIndex], decision, marks) \in OrdinaryLifecycle
  BY <1>2, <1>3 DEF Closed, OrdinaryLifecycle
<1> QED BY <1>1, <1>4 DEF CloseLifecycle, Lifecycles, OrdinaryLifecycle

\* While a request is processed its lifecycle is the last of the audit; a
\* reconciliation never runs beside the pending recovery of another request.
TailOwned ==
    /\ op.at \in Processing => audit # <<>> /\ audit[TailIndex].kind = "ordinary"
    /\ op.at = "RECOVERING" => \A l \in PendingRecoveries : audit[l].request = op.request

\* A pending recovery is the last lifecycle of the audit.
LEMMA PendingIsTail ==
  ASSUME StageTyped, NEW l \in PendingRecoveries
  PROVE  /\ l = TailIndex /\ l \in DOMAIN audit /\ l \in 1..Len(audit) /\ audit # <<>>
         /\ audit[l] \in RecoveryLifecycle
<1>1. l = Len(audit) /\ l \in DOMAIN audit /\ audit[l].kind # "ordinary"
  BY DEF PendingRecoveries, RecoveryOnes, OrdinaryOnes
<1>2. audit[l] \in Lifecycles /\ l \in 1..Len(audit)
  BY <1>1 DEF StageTyped
<1> QED BY <1>1, <1>2, EmptySeq DEF TailIndex, Lifecycles, OrdinaryLifecycle

\* Moving on to the next step keeps an operation well formed.
LEMMA GotoTyped ==
  ASSUME op \in Operations, NEW place \in Processing, op' = [op EXCEPT !.at = place],
         place \in Commanded => op.at \in Commanded
  PROVE  op' \in Operations /\ op'.at = place /\ op'.request = op.request /\ op' # Idle
  BY Identifiers DEF Operations, OperationRow, Idle

\* A step of the operation that writes no audit record keeps the tail.
LEMMA TailFrame ==
  ASSUME TailOwned, audit' = audit, op' = Idle \/ (op.at \in Processing /\ op'.at \in Processing)
  PROVE  TailOwned'
  BY DEF TailOwned, Idle, Processing, TailIndex

\* Closing the lifecycle ends the operation or leaves it its commit.
LEMMA CloseTyped ==
  ASSUME StageTyped, TailOwned, op.at \in Processing,
         NEW decision \in StageDecisions \cup {Null}, NEW marks \in SUBSET {"REJECTED", "EVALUATED"},
         CloseLifecycle(decision, marks),
         op' = Idle \/ (op' \in Operations /\ op'.at = "FINISHED"),
         UNCHANGED <<ledgerStore, adapterStore, clock>>
  PROVE  StageTyped' /\ TailOwned'
<1>1. audit # <<>> /\ audit[TailIndex].kind = "ordinary"
  BY DEF TailOwned
<1>2. audit' \in Seq(Lifecycles) /\ Len(audit') = Len(audit) /\ audit'[TailIndex].kind = "ordinary"
  BY <1>1, ClosedTyped
<1>3. StageTyped'
  BY <1>2 DEF StageTyped, ledgerStore, adapterStore, Ledger!TypeOK
<1>4. TailOwned'
  <2>1. audit' # <<>>
    BY <1>1, <1>2, EmptySeq DEF StageTyped
  <2> QED BY <1>2, <2>1 DEF TailOwned, TailIndex, Idle, Processing
<1> QED BY <1>3, <1>4

\* process_json up to the claim.
LEMMA IntakeTyped ==
  ASSUME StageTyped, TailOwned,
         Submitting \/ Reject \/ Validate \/ RefuseBeforeClaim \/ Claim \/ ClaimRefused
  PROVE  StageTyped' /\ TailOwned'
<1>1. CASE Submitting
  <2> PICK r \in Requests, sha \in Digests : Submit(r, sha)
    BY <1>1 DEF Submitting
  <2>1. Received \in OrdinaryLifecycle
    BY DEF Received, OrdinaryLifecycle
  <2>2. /\ audit' \in Seq(Lifecycles) /\ audit' # <<>> /\ Len(audit') = Len(audit) + 1
        /\ audit'[Len(audit) + 1] = Received
    BY <2>1, AppendProperties DEF Submit, StageTyped, Lifecycles
  <2>3. op' \in Operations /\ op'.at = "RECEIVED"
    <3>1. 0 \in Ledger!Times
      BY StageAAssumption DEF Ledger!Times
    <3> QED BY <3>1 DEF Submit, Idle, Operations, OperationRow, Commanded, Processing
  <2>4. StageTyped'
    BY <2>2, <2>3 DEF Submit, StageTyped, ledgerStore, adapterStore, Ledger!TypeOK
  <2> QED BY <2>2, <2>3, <2>4 DEF TailOwned, TailIndex, Received
<1>2. CASE Reject
  BY <1>2, CloseTyped DEF Reject, At, Processing
<1>3. CASE Validate
  <2>0. op.at \in Processing /\ op # Idle
    BY <1>3 DEF Validate, At, Processing, Idle
  <2>1. audit # <<>> /\ audit[TailIndex].kind = "ordinary" /\ TailIndex \in 1..Len(audit)
        /\ audit[TailIndex] \in Lifecycles
    BY <2>0, EmptySeq DEF TailOwned, StageTyped, TailIndex
  <2> DEFINE bound == [audit[TailIndex] EXCEPT !.request = op.request, !.sha = op.sha]
  <2>2. bound \in Lifecycles /\ bound.kind = "ordinary"
    BY <2>0, <2>1, OperationFields DEF Lifecycles, OrdinaryLifecycle, RecoveryLifecycle
  <2>3. audit' = [audit EXCEPT ![TailIndex] = bound]
    BY <1>3 DEF Validate
  <2>4. audit' \in Seq(Lifecycles) /\ Len(audit') = Len(audit) /\ audit'[TailIndex].kind = "ordinary"
    BY <2>1, <2>2, <2>3, ExceptSeq DEF StageTyped
  <2>5. op' \in Operations /\ op'.at = "VALIDATED"
    BY <1>3, <2>0, OperationFields DEF Validate, At, Operations, OperationRow, Commanded, Processing
  <2>6. StageTyped'
    BY <1>3, <2>4, <2>5 DEF Validate, StageTyped, ledgerStore, adapterStore, Ledger!TypeOK
  <2>7. audit' # <<>>
    BY <2>1, <2>4, EmptySeq DEF StageTyped
  <2> QED BY <2>4, <2>5, <2>6, <2>7 DEF TailOwned, TailIndex
<1>4. CASE RefuseBeforeClaim
  <2> PICK marks \in SUBSET {"REJECTED"} : CloseLifecycle(DecisionOf(op.request), marks)
    BY <1>4 DEF RefuseBeforeClaim
  <2>1. op # Idle /\ op.at \in Processing
    BY <1>4 DEF RefuseBeforeClaim, At, Processing, Idle
  <2> QED BY <1>4, <2>1, CloseTyped, OperationFields, Identifiers DEF RefuseBeforeClaim
<1>5. CASE Claim
  <2>1. op # Idle /\ op.at \in Processing
    BY <1>5 DEF Claim, At, Processing, Idle
  <2>2. op' \in Operations /\ op'.at = "CLAIMED"
    BY <1>5, <2>1, GotoTyped, OperationFields DEF Claim, Goto, At, Commanded, Processing
  <2>3. Ledger!TypeOK'
    BY <1>5, <2>1, OperationFields
    DEF Claim, Ledger!ClaimRequest, StageTyped, Ledger!TypeOK, Ledger!RequestRow,
        Ledger!RequestStates
  <2>4. StageTyped'
    BY <1>5, <2>2, <2>3 DEF Claim, StageTyped, adapterStore
  <2> QED BY <1>5, <2>1, <2>2, <2>4, TailFrame DEF Claim, Processing
<1>6. CASE ClaimRefused
  <2>1. op # Idle /\ op.at \in Processing
    BY <1>6 DEF ClaimRefused, At, Processing, Idle
  <2> QED BY <1>6, <2>1, CloseTyped, OperationFields, Identifiers DEF ClaimRefused
<1> QED BY <1>1, <1>2, <1>3, <1>4, <1>5, <1>6

\* process_json from the decision to the verification.
LEMMA EffectTyped ==
  ASSUME StageTyped, TailOwned,
         Deny \/ Authorize \/ BrokerRejects \/ Consume \/ Execute \/ BrokerFails
           \/ RecordReceipt \/ Verify
  PROVE  StageTyped' /\ TailOwned'
<1>0. op # Idle /\ op.at \in Processing
  <2>1. \E place \in Processing : At(place)
    BY DEF Deny, Authorize, BrokerRejects, Consume, Execute, BrokerFails, RecordReceipt, Verify,
       Processing
  <2> QED BY <2>1 DEF At, Processing, Idle
<1>a. /\ op \in Operations /\ op.request \in Requests /\ op.sha \in Digests
      /\ AttemptedAt(op.request) \in Ledger!Times /\ clock \in Ledger!Times
      /\ TokenOf(op.request) \in StageTokens /\ AttemptOf(op.request) \in StageAttempts
      /\ DecisionOf(op.request) \in StageDecisions
  BY <1>0, OperationFields, Identifiers
<1>1. ASSUME Deny \/ BrokerRejects \/ BrokerFails PROVE StageTyped' /\ TailOwned'
  <2>1. op' \in Operations /\ op'.at = "FINISHED"
    BY <1>a, <1>1, GotoTyped DEF Deny, BrokerRejects, BrokerFails, Goto, At, Commanded, Processing
  <2>2. CloseLifecycle(DecisionOf(op.request), {"EVALUATED"})
        /\ UNCHANGED <<ledgerStore, adapterStore, clock>>
    BY <1>1 DEF Deny, BrokerRejects, BrokerFails
  <2> QED BY <1>0, <1>a, <2>1, <2>2, CloseTyped
<1>2. CASE Authorize
  <2>1. PICK g \in Targets :
          op' = [op EXCEPT !.at = "AUTHORIZED", !.command =
                   [request |-> op.request, token |-> TokenOf(op.request), target |-> g,
                    action |-> "NETWORK_ISOLATE", precondition |-> targets[g].state]]
    BY <1>2 DEF Authorize
  <2>2. targets[g].state \in Adapter!TargetState
    BY DEF StageTyped, Adapter!TargetRow
  <2>3. op' \in Operations /\ op'.at = "AUTHORIZED"
    BY <1>a, <2>1, <2>2 DEF Operations, OperationRow, Commanded, Processing, Adapter!Command, Adapter!Actions
  <2>4. Ledger!Register(TokenOf(op.request), DecisionOf(op.request), op.request, op.sha, clock)
        /\ UNCHANGED <<reported, adapterStore, audit, clock, stops>>
    BY <1>2 DEF Authorize
  <2>5. authorizations' \in [StageTokens -> Ledger!AuthorizationRow]
    BY <1>a, <2>4, StageAAssumption
    DEF Ledger!Register, StageTyped, Ledger!TypeOK, Ledger!AuthorizationRow,
        Ledger!AuthorizationStates, Ledger!Times
  <2>6. requests' \in [Requests -> Ledger!RequestRow]
    BY <1>a, <2>4, RequestMovedTyped DEF Ledger!Register, StageTyped, Ledger!TypeOK,
       Ledger!RequestStates
  <2>7. StageTyped'
    BY <2>3, <2>4, <2>5, <2>6 DEF Ledger!Register, StageTyped, Ledger!TypeOK, adapterStore
  <2> QED BY <1>0, <2>3, <2>4, <2>7, TailFrame DEF Processing
<1>3. CASE Consume
  <2>1. op' \in Operations /\ op'.at = "RESERVED"
    BY <1>3, <1>a, GotoTyped DEF Consume, Goto, At, Commanded, Processing
  <2>2. /\ Ledger!ConsumeOnce(TokenOf(op.request), AttemptOf(op.request),
              [request |-> op.request, sha |-> op.sha, decision |-> DecisionOf(op.request)], clock)
        /\ UNCHANGED <<reported, adapterStore, audit, clock, stops>>
    BY <1>3 DEF Consume
  <2>3. authorizations[TokenOf(op.request)].request \in Requests \cup {Null}
    BY <1>a DEF StageTyped, Ledger!TypeOK, Ledger!AuthorizationRow
  <2>4. authorizations' \in [StageTokens -> Ledger!AuthorizationRow]
    BY <1>a, <2>2, AuthorizationsClosedTyped
    DEF Ledger!ConsumeOnce, StageTyped, Ledger!AuthorizationStates
  <2>5. attempts' \in [StageAttempts -> Ledger!AttemptRow]
    BY <1>a, <2>2, <2>3, StageAAssumption
    DEF Ledger!ConsumeOnce, StageTyped, Ledger!TypeOK, Ledger!AttemptRow, Ledger!AttemptStates,
        Ledger!OpenAttemptStates, Ledger!Times
  <2>6. requests' \in [Requests -> Ledger!RequestRow]
    BY <1>a, <2>2, <2>3, RequestMovedTyped
    DEF Ledger!ConsumeOnce, StageTyped, Ledger!TypeOK, Ledger!RequestStates
  <2>7. StageTyped'
    BY <2>1, <2>2, <2>4, <2>5, <2>6
    DEF Ledger!ConsumeOnce, StageTyped, Ledger!TypeOK, adapterStore
  <2> QED BY <1>0, <2>1, <2>2, <2>7, TailFrame DEF Processing
<1>4. CASE Execute
  <2>1. op' \in Operations /\ op'.at = "EXECUTED"
    BY <1>4, <1>a, GotoTyped DEF Execute, Goto, At, Commanded, Processing
  <2>2. op.command \in Adapter!Command
    BY <1>4, <1>a DEF Execute, At, Operations, Commanded
  <2>3. targets' \in [Targets -> Adapter!TargetRow] /\ receipts' \in Seq(Adapter!Receipt)
    BY <1>4, <1>a, <2>2, ExecuteTyped DEF Execute
  <2>4. StageTyped'
    BY <1>4, <2>1, <2>3 DEF Execute, StageTyped, Ledger!TypeOK, ledgerStore
  <2> QED BY <1>0, <1>4, <2>1, <2>4, TailFrame DEF Processing, Execute
<1>5. CASE RecordReceipt
  <2>1. op' \in Operations /\ op'.at = "RECEIPTED"
    BY <1>5, <1>a, GotoTyped DEF RecordReceipt, Goto, At, Commanded, Processing
  <2>2. PICK rcpt \in ReceiptsUnder(AttemptOf(op.request)) :
          Ledger!RecordAdapterReceipt(AttemptOf(op.request), rcpt, AttemptedAt(op.request))
    BY <1>5 DEF RecordReceipt
  <2>3. Ledger!TypeOK'
    BY <1>5, <1>a, <2>2, ReceiptsUnderTyped, ReceiptTyped DEF RecordReceipt, StageTyped
  <2>4. StageTyped'
    BY <1>5, <2>1, <2>3 DEF RecordReceipt, StageTyped, adapterStore
  <2> QED BY <1>0, <1>5, <2>1, <2>4, TailFrame DEF Processing, RecordReceipt
<1>6. CASE Verify
  <2>1. targets[op.command.target].state \in Adapter!TargetState
    <3>1. At("RECEIPTED")
      BY <1>6 DEF Verify
    <3> QED BY <3>1, <1>a DEF At, Operations, Commanded, StageTyped, Adapter!Command, Adapter!TargetRow
  <2>2. op' \in Operations /\ op'.at = "FINISHED"
    BY <1>6, <1>a, <2>1 DEF Verify, Operations, OperationRow, Commanded, Processing
  <2>3. CloseLifecycle(DecisionOf(op.request), {"EVALUATED"})
        /\ UNCHANGED <<ledgerStore, adapterStore, clock>>
    BY <1>6 DEF Verify
  <2> QED BY <1>0, <1>a, <2>2, <2>3, CloseTyped
<1> QED BY <1>1, <1>2, <1>3, <1>4, <1>5, <1>6

\* T3 of the normal path, and its omission.
LEMMA CommitTyped ==
  ASSUME StageTyped, TailOwned, CommitDenial \/ CommitOutcome \/ LeaveOpen
  PROVE  StageTyped' /\ TailOwned'
<1>0. op.at = "FINISHED" /\ op # Idle /\ op' = Idle
  BY DEF CommitDenial, CommitOutcome, LeaveOpen, At, Idle
<1>a. op \in Operations /\ op.request \in Requests /\ clock \in Ledger!Times
  BY <1>0, OperationFields
<1>b. audit' = audit /\ adapterStore' = adapterStore /\ clock' = clock
  BY DEF CommitDenial, CommitOutcome, LeaveOpen
<1>1. Ledger!TypeOK' /\ reported' \in [Requests -> Adapter!TargetState \cup {Null}]
  <2>1. CASE CommitDenial
    <3> DEFINE denied == Result("DENIED_NO_EFFECT", DecisionOf(op.request), Null, Null, clock)
    <3>1. denied \in Results /\ denied.disposition \in Ledger!Dispositions
      BY <1>a, Identifiers DEF Results, Result, Ledger!ResultRow, Ledger!Dispositions,
         Ledger!UnattemptedDispositions
    <3>2. Ledger!CompleteRequest(op.request, op.sha, denied) /\ reported' = reported
      BY <2>1 DEF CommitDenial
    <3> QED BY <1>a, <1>b, <3>1, <3>2, CompleteTyped DEF StageTyped
  <2>2. CASE CommitOutcome
    <3>1. PICK rcpt \in ReceiptsUnder(AttemptOf(op.request)) :
            Ledger!CompleteRequest(op.request, op.sha,
              Result(DispositionOf(rcpt), DecisionOf(op.request), AttemptOf(op.request), rcpt, clock))
      BY <2>2 DEF CommitOutcome
    <3> DEFINE outcome ==
          Result(DispositionOf(rcpt), DecisionOf(op.request), AttemptOf(op.request), rcpt, clock)
    <3>2. outcome \in Results /\ outcome.disposition \in Ledger!Dispositions
      BY <1>0, ReceiptsUnderTyped, OutcomeTyped DEF Result
    <3>3. Ledger!TypeOK'
      BY <1>a, <1>b, <3>1, <3>2, CompleteTyped DEF StageTyped
    <3>4. reported' \in [Requests -> Adapter!TargetState \cup {Null}]
      BY <1>a, <2>2 DEF CommitOutcome, StageTyped, Operations, OperationRow
    <3> QED BY <3>3, <3>4
  <2>3. CASE LeaveOpen
    BY <2>3 DEF LeaveOpen, ledgerStore, StageTyped, Ledger!TypeOK
  <2> QED BY <2>1, <2>2, <2>3
<1>2. StageTyped'
  BY <1>0, <1>1, <1>b DEF StageTyped, adapterStore
<1> QED BY <1>0, <1>2, <1>b, TailFrame

\* The recovery of a request writes what it recovers, and then only its own records.
LEMMA RecoverTyped ==
  ASSUME StageTyped, TailOwned, Reconciling \/ Recover
  PROVE  StageTyped' /\ TailOwned'
<1>1. CASE Reconciling
  <2> PICK r \in Requests, sha \in Digests : StartReconcile(r, sha)
    BY <1>1 DEF Reconciling
  <2>1. RecoveryTime \in Ledger!Times
    <3>1. CASE PendingRecoveries = {}
      BY <3>1 DEF RecoveryTime, StageTyped, Ledger!TypeOK
    <3>2. CASE PendingRecoveries # {}
      <4>1. audit[TailIndex] \in RecoveryLifecycle
        BY <3>2, PendingIsTail
      <4> QED BY <3>2, <4>1 DEF RecoveryTime, RecoveryLifecycle, Results, Ledger!ResultRow
    <3> QED BY <3>1, <3>2
  <2>2. op' \in Operations /\ op'.at = "RECOVERING" /\ op'.request = r
    BY <2>1 DEF StartReconcile, Idle, Operations, OperationRow, Commanded
  <2>3. StageTyped'
    BY <2>2 DEF StartReconcile, StageTyped, ledgerStore, adapterStore, Ledger!TypeOK
  <2>4. PendingRecoveries' = PendingRecoveries /\ audit' = audit
    BY DEF StartReconcile, PendingRecoveries, RecoveryOnes, OrdinaryOnes, ledgerStore
  <2> QED BY <2>2, <2>3, <2>4 DEF TailOwned, StartReconcile, Processing
<1>2. ASSUME Recover PROVE StageTyped' /\ TailOwned'
  <2>0. op.at = "RECOVERING" /\ op # Idle
    BY <1>2 DEF Recover, RevokeAuthority, RecoverReceipt, AppendRecoveryRecord, CommitRecovery,
       At, Idle
  <2>a. /\ op \in Operations /\ op.request \in Requests /\ op.sha \in Digests
        /\ op.time \in Ledger!Times /\ AttemptOf(op.request) \in StageAttempts
    BY <2>0, OperationFields, Identifiers
  <2>1. CASE RevokeAuthority \/ RecoverReceipt
    <3>1. requests' = requests /\ audit' = audit /\ op' = op
      BY <2>1 DEF RevokeAuthority, RecoverReceipt, Ledger!RevokeIssuedForRequest,
         Ledger!RecordAdapterReceipt
    <3>2. Ledger!TypeOK'
      <4>1. CASE RevokeAuthority
        BY <2>a, <4>1, AuthorizationsClosedTyped
        DEF RevokeAuthority, Ledger!RevokeIssuedForRequest, StageTyped, Ledger!TypeOK,
            Ledger!AuthorizationStates
      <4>2. CASE RecoverReceipt
        <5>1. PICK rcpt \in ReceiptsUnder(AttemptOf(op.request)) :
                Ledger!RecordAdapterReceipt(AttemptOf(op.request), rcpt, op.time)
          BY <4>2 DEF RecoverReceipt
        <5> QED BY <2>a, <4>2, <5>1, ReceiptsUnderTyped, ReceiptTyped DEF RecoverReceipt, StageTyped
      <4> QED BY <2>1, <4>1, <4>2
    <3>3. StageTyped'
      BY <2>1, <3>1, <3>2 DEF RevokeAuthority, RecoverReceipt, StageTyped, adapterStore
    <3>4. PendingRecoveries' = PendingRecoveries
      BY <3>1 DEF PendingRecoveries, RecoveryOnes, OrdinaryOnes
    <3> QED BY <2>0, <3>1, <3>3, <3>4 DEF TailOwned, Processing
  <2>2. CASE AppendRecoveryRecord
    <3> DEFINE begun == RecoveryBegun(op.request, op.sha, RecoveryResult(op.request))
               tail == audit[TailIndex]
    <3>1. RecoveryResult(op.request) \in Results
      BY <2>0, RecoveryTyped
    <3>2. CASE PendingRecoveries = {} /\ audit' = Append(audit, begun)
      <4>1. RecoveryResult(op.request).decision \in StageDecisions \cup {Null}
        BY <3>1 DEF Results, Ledger!ResultRow
      <4>2. begun \in RecoveryLifecycle /\ begun.request = op.request
        BY <2>a, <3>1, <4>1 DEF RecoveryBegun, RecoveryLifecycle
      <4>3. audit' \in Seq(Lifecycles) /\ Len(audit') = Len(audit) + 1 /\ audit'[Len(audit) + 1] = begun
        BY <3>2, <4>2, AppendProperties DEF StageTyped, Lifecycles
      <4>4. \A l \in PendingRecoveries' : audit'[l].request = op.request
        BY <4>2, <4>3 DEF PendingRecoveries
      <4> QED BY <2>0, <2>2, <4>3, <4>4 DEF AppendRecoveryRecord, StageTyped, TailOwned,
              ledgerStore, adapterStore, Ledger!TypeOK, Processing
    <3>3. CASE PendingRecoveries # {} /\ audit' = [audit EXCEPT ![TailIndex].rows = @ + 1]
      <4>1. tail \in RecoveryLifecycle /\ TailIndex \in 1..Len(audit) /\ TailIndex \in PendingRecoveries
        BY <3>3, PendingIsTail
      <4> DEFINE longer == [tail EXCEPT !.rows = @ + 1]
      <4>2. longer \in RecoveryLifecycle /\ longer.request = tail.request
        BY <4>1 DEF RecoveryLifecycle
      <4>3. audit' = [audit EXCEPT ![TailIndex] = longer]
        BY <3>3
      <4>4. audit' \in Seq(Lifecycles) /\ Len(audit') = Len(audit) /\ audit'[TailIndex] = longer
        BY <4>1, <4>2, <4>3, ExceptSeq DEF StageTyped, Lifecycles
      <4>5. tail.request = op.request
        BY <2>0, <4>1 DEF TailOwned
      <4>6. \A l \in PendingRecoveries' : audit'[l].request = op.request
        BY <4>2, <4>4, <4>5 DEF PendingRecoveries, TailIndex
      <4> QED BY <2>0, <2>2, <4>4, <4>6 DEF AppendRecoveryRecord, StageTyped, TailOwned,
              ledgerStore, adapterStore, Ledger!TypeOK, Processing
    <3> QED BY <2>2, <3>2, <3>3 DEF AppendRecoveryRecord
  <2>3. CASE CommitRecovery
    <3> DEFINE result == RecoveryResult(op.request)
    <3>1. result \in Results /\ result.disposition \in Ledger!Dispositions
      BY <2>0, RecoveryTyped
    <3>2. Ledger!CompleteRequest(op.request, op.sha, result) /\ op' = Idle
          /\ UNCHANGED <<adapterStore, audit, clock, stops>>
          /\ reported' = IF result.receipt = Null THEN reported
                         ELSE [reported EXCEPT ![op.request] = result.receipt.after]
      BY <2>3 DEF CommitRecovery
    <3>3. Ledger!TypeOK'
      BY <2>a, <3>1, <3>2, CompleteTyped DEF StageTyped, Ledger!TypeOK
    <3>4. result.receipt # Null => result.receipt.after \in Adapter!TargetState
      BY <3>1 DEF Results, Ledger!ResultRow, Adapter!Receipt
    <3>5. StageTyped'
      BY <2>a, <3>2, <3>3, <3>4 DEF StageTyped, adapterStore
    <3> QED BY <3>2, <3>5, TailFrame
  <2> QED BY <1>2, <2>1, <2>2, <2>3 DEF Recover
<1> QED BY <1>1, <1>2

\* The invariant of the rows' types and of who owns the audit's tail.
LEMMA NextTyped == StageTyped /\ TailOwned /\ [StageNext]_svars => StageTyped' /\ TailOwned'
<1> SUFFICES ASSUME StageTyped, TailOwned, [StageNext]_svars PROVE StageTyped' /\ TailOwned'
  OBVIOUS
<1>1. CASE Interrupt
  <2>1. StageTyped'
    BY <1>1 DEF Interrupt, StageTyped, ledgerStore, adapterStore, Ledger!TypeOK
  <2> QED BY <1>1, <2>1, TailFrame DEF Interrupt
<1>2. ASSUME ClockMoves \/ UNCHANGED svars PROVE StageTyped' /\ TailOwned'
  <2>1. /\ clock' \in Ledger!Times
        /\ UNCHANGED <<ledgerStore, adapterStore, audit, op>>
    BY <1>2 DEF ClockMoves, Ledger!ClockMoves, Ledger!tables, svars, ledgerStore, StageTyped,
       Ledger!TypeOK
  <2>2. PendingRecoveries' = PendingRecoveries
    BY <2>1 DEF PendingRecoveries, RecoveryOnes, OrdinaryOnes, ledgerStore
  <2>3. TailOwned'
    BY <2>1, <2>2 DEF TailOwned, TailIndex
  <2> QED BY <2>1, <2>3 DEF StageTyped, ledgerStore, adapterStore, Ledger!TypeOK
<1> QED
  BY <1>1, <1>2, IntakeTyped, EffectTyped, CommitTyped, RecoverTyped DEF StageNext, Process

\* The empty audit has no tail to own.
LEMMA InitTail == StageInit => TailOwned
  BY DEF StageInit, TailOwned, Idle, Processing

-----------------------------------------------------------------------------
(* A pending recovery owns the stores.                                     *)

OwnedStep ==
    PendingRecoveries # {} =>
        LET r == audit[TailIndex].request IN
        /\ Len(audit') = Len(audit)
        /\ receipts' = receipts
        /\ \A other \in Requests \ {r} : requests'[other] = requests[other]
        /\ audit'[TailIndex].result = audit[TailIndex].result

\* The entry fence of process_json and the locks leave a pending recovery to
\* its own reconciliation.
LEMMA NextOwned == StageTyped /\ TailOwned /\ [StageNext]_svars => OwnedStep
<1> SUFFICES ASSUME StageTyped, TailOwned, [StageNext]_svars, PendingRecoveries # {}
             PROVE  /\ Len(audit') = Len(audit)
                    /\ receipts' = receipts
                    /\ \A other \in Requests \ {audit[TailIndex].request} :
                          requests'[other] = requests[other]
                    /\ audit'[TailIndex].result = audit[TailIndex].result
  BY DEF OwnedStep
<1>1. /\ TailIndex \in PendingRecoveries /\ TailIndex \in 1..Len(audit)
      /\ audit[TailIndex] \in RecoveryLifecycle
  BY PendingIsTail
<1>2. op.at \notin Processing
  BY <1>1 DEF TailOwned, RecoveryLifecycle
<1>3. op.at = "RECOVERING" => audit[TailIndex].request = op.request
  BY <1>1 DEF TailOwned
<1>4. ~Process
  <2>1. Process => \E place \in Processing : At(place)
    BY DEF Process, Reject, Validate, RefuseBeforeClaim, Claim, ClaimRefused, Deny, Authorize,
       BrokerRejects, Consume, Execute, BrokerFails, RecordReceipt, Verify, CommitDenial,
       CommitOutcome, LeaveOpen, Processing
  <2> QED BY <1>2, <2>1 DEF At
<1>5. ~Submitting
  BY DEF Submitting, Submit, Admitted, EntryFence
<1>6. CASE Recover
  <2>1. audit[TailIndex].request = op.request
    BY <1>3, <1>6 DEF Recover, RevokeAuthority, RecoverReceipt, AppendRecoveryRecord,
       CommitRecovery, At
  <2>2. CASE RevokeAuthority \/ RecoverReceipt
    BY <2>2 DEF RevokeAuthority, RecoverReceipt, Ledger!RevokeIssuedForRequest,
       Ledger!RecordAdapterReceipt, adapterStore
  <2>3. CASE AppendRecoveryRecord
    <3> DEFINE longer == [audit[TailIndex] EXCEPT !.rows = @ + 1]
    <3>1. audit' = [audit EXCEPT ![TailIndex] = longer]
      BY <2>3 DEF AppendRecoveryRecord
    <3>2. longer \in RecoveryLifecycle /\ longer.result = audit[TailIndex].result
      BY <1>1 DEF RecoveryLifecycle
    <3>3. Len(audit') = Len(audit) /\ audit'[TailIndex] = longer
      BY <1>1, <3>1, <3>2, ExceptSeq DEF StageTyped, Lifecycles
    <3> QED BY <2>3, <3>2, <3>3 DEF AppendRecoveryRecord, ledgerStore, adapterStore
  <2>4. CASE CommitRecovery
    <3>1. requests' = Ledger!RequestMoved(op.request, "TERMINAL", RecoveryResult(op.request).terminal_at)
      BY <2>4 DEF CommitRecovery, Ledger!CompleteRequest
    <3>2. \A other \in Requests \ {op.request} : requests'[other] = requests[other]
      BY <3>1 DEF Ledger!RequestMoved, StageTyped, Ledger!TypeOK
    <3> QED BY <2>1, <2>4, <3>2 DEF CommitRecovery, adapterStore
  <2> QED BY <1>6, <2>2, <2>3, <2>4 DEF Recover
<1>7. CASE Reconciling \/ Interrupt \/ ClockMoves \/ UNCHANGED svars
  BY <1>7 DEF Reconciling, StartReconcile, Interrupt, ClockMoves, Ledger!ClockMoves,
     Ledger!tables, svars, ledgerStore, adapterStore
<1> QED BY <1>4, <1>5, <1>6, <1>7 DEF StageNext

\* While a recovery is pending, nothing but its own next step writes the audit,
\* the adapter or another request's row (_pending_recovery_tail, the fence).
THEOREM PendingRecoveryOwns == StageSpec => PendingRecoveryOwnsTheStores
<1>1. StageTyped /\ TailOwned /\ [StageNext]_svars => [OwnedStep]_svars
  BY NextOwned
<1>2. StageSpec => [][OwnedStep]_svars
  BY <1>1, InitTyped, InitTail, NextTyped, PTL DEF StageSpec
<1> QED BY <1>2 DEF PendingRecoveryOwnsTheStores, OwnedStep

-----------------------------------------------------------------------------
(* One history per request.                                                *)

Auth(r) == authorizations[TokenOf(r)]
Try(r) == attempts[AttemptOf(r)]
Undone(r) == \A i \in DOMAIN receipts : receipts[i].command.request # r

\* The rows of a request are its own, and there as far as its state says.
RowsHeld(r) ==
    /\ Auth(r).request = IF Auth(r).state = "ABSENT" THEN Null ELSE r
    /\ Try(r).request = IF Try(r).state = "ABSENT" THEN Null ELSE r
    /\ Try(r).state # "ABSENT" => Try(r).token = TokenOf(r)
    /\ requests[r].state \in {"ABSENT", "CLAIMED", "AUTHORIZED"} => Try(r).state = "ABSENT"
    /\ requests[r].state = "ATTEMPT_RESERVED" => Try(r).state \in Ledger!OpenAttemptStates
    /\ requests[r].state = "TERMINAL" =>
          Try(r).state \in {"ABSENT"} \cup Ledger!TerminalAttemptStates
    /\ requests[r].state = "TERMINAL" <=> results[r].disposition # "ABSENT"

\* A recorded receipt is one of the adapter's; what is closed without one has none.
EffectHeld(r) ==
    /\ Try(r).state \in {"ABSENT", "RESERVED"} => Try(r).receipt = Null
    /\ Try(r).state = "RECEIPT_RECORDED" => Try(r).receipt # Null
    /\ Try(r).receipt # Null =>
          \E i \in DOMAIN receipts : receipts[i] = Try(r).receipt /\ receipts[i].command.request = r
    /\ Try(r).state \in Ledger!TerminalAttemptStates =>
          /\ Try(r).receipt = Null => Try(r).state = "UNKNOWN_EFFECT" /\ Undone(r)
          /\ Try(r).receipt # Null =>
                Try(r).receipt.status \in StatusesBehind(Try(r).state) /\ reported[r] = Try(r).receipt.after

\* A result says of the attempt what the attempt says of itself.
VerdictHeld(r) ==
    requests[r].state = "TERMINAL" =>
        IF Try(r).state = "ABSENT"
        THEN results[r].disposition \in Ledger!UnattemptedDispositions
        ELSE /\ results[r].disposition \in Ledger!AttemptedDispositions
             /\ Try(r).state = Ledger!AttemptStateFor(results[r].disposition)

HistoryHeld(r) == RowsHeld(r) /\ EffectHeld(r) /\ VerdictHeld(r)

\* A receipt belongs to the attempt of its request, a request has one at most.
ReceiptsHeld ==
    /\ \A i \in DOMAIN receipts :
          /\ receipts[i].command.token = TokenOf(receipts[i].command.request)
          /\ receipts[i].attempt = AttemptOf(receipts[i].command.request)
          /\ Try(receipts[i].command.request).state # "ABSENT"
    /\ \A i, j \in DOMAIN receipts :
          receipts[i].command.request = receipts[j].command.request => i = j

\* What the operation in progress may rely on, because it holds the locks: no
\* other request is open when it claims; at each place its own request is as
\* far; the target is as its receipt left it until the verifier has looked.
OperationHeld ==
    LET r == op.request IN
    /\ op.at \in {"RECEIVED", "VALIDATED"} => OpenRequests = {}
    /\ op.at \in Commanded => op.command.request = r /\ op.command.token = TokenOf(r)
    /\ op.at = "CLAIMED" => requests[r].state = "CLAIMED"
    /\ op.at = "AUTHORIZED" => requests[r].state = "AUTHORIZED"
    /\ op.at = "RESERVED" => Undone(r)
    /\ op.at \in {"RESERVED", "EXECUTED"} =>
          requests[r].state = "ATTEMPT_RESERVED" /\ Try(r).state = "RESERVED"
    /\ op.at \in {"EXECUTED", "RECEIPTED"} =>
          \E i \in DOMAIN receipts :
              /\ receipts[i].command = op.command
              /\ targets[op.command.target].state = receipts[i].after
    /\ op.at = "FINISHED" /\ Try(r).state = "RECEIPT_RECORDED" => op.final = Try(r).receipt.after

StageInvariant ==
    /\ StageTyped
    /\ \A r \in Requests : HistoryHeld(r)
    /\ ReceiptsHeld
    /\ OperationHeld

\* The stores are empty at first.
LEMMA InitHistory == StageInit => StageInvariant
<1> SUFFICES ASSUME StageInit PROVE StageInvariant
  OBVIOUS
<1>1. receipts = <<>> /\ op = Idle
  BY DEF StageInit, Adapter!AdapterInit
<1>2. ASSUME NEW r \in Requests PROVE HistoryHeld(r)
  <2>1. Auth(r) = Ledger!NoAuthorization /\ Try(r) = Ledger!NoAttempt
        /\ requests[r] = Ledger!NoRequest /\ results[r] = Ledger!NoResult
    BY <1>2, Identifiers DEF StageInit, Ledger!Init, Auth, Try
  <2> QED BY <2>1 DEF HistoryHeld, RowsHeld, EffectHeld, VerdictHeld, Ledger!NoAuthorization,
          Ledger!NoAttempt, Ledger!NoRequest, Ledger!NoResult, Ledger!Absent,
          Ledger!TerminalAttemptStates
<1>3. ReceiptsHeld /\ OperationHeld
  BY <1>1 DEF ReceiptsHeld, OperationHeld, Idle, Commanded
<1> QED BY <1>2, <1>3, InitTyped DEF StageInvariant

\* What the invariant says of the request of the operation in progress.
LEMMA OperationHistory ==
  ASSUME StageInvariant, op # Idle
  PROVE  /\ op.request \in Requests
         /\ TokenOf(op.request) \in StageTokens /\ AttemptOf(op.request) \in StageAttempts
         /\ HistoryHeld(op.request)
  BY OperationFields, Identifiers DEF StageInvariant

\* Every receipt of the store is well formed.
LEMMA ReceiptFields ==
  ASSUME StageTyped, NEW i \in DOMAIN receipts
  PROVE  receipts[i] \in Adapter!Receipt /\ receipts[i].command.request \in Requests
<1>1. receipts[i] \in Adapter!Receipt
  BY DEF StageTyped
<1>2. receipts[i].command \in Adapter!Command
  BY <1>1 DEF Adapter!Receipt
<1> QED BY <1>1, <1>2 DEF Adapter!Command

\* The receipts the adapter has under the key of an attempt are those of its request.
LEMMA ReceiptsOfAttempt ==
  ASSUME StageInvariant, NEW r \in Requests, Try(r).state # "ABSENT", NEW i \in DOMAIN receipts
  PROVE  receipts[i].command.token = Try(r).token <=> receipts[i].command.request = r
<1>1. Try(r).token = TokenOf(r)
  BY DEF StageInvariant, HistoryHeld, RowsHeld
<1>2. /\ receipts[i].command.token = TokenOf(receipts[i].command.request)
      /\ receipts[i].command.request \in Requests
  BY ReceiptFields DEF StageInvariant, ReceiptsHeld
<1> QED BY <1>1, <1>2, Identifiers

\* Without a receipt under the key the request has done nothing.
LEMMA NothingUnderKey ==
  ASSUME StageInvariant, NEW r \in Requests, Try(r).state # "ABSENT"
  PROVE  /\ ReceiptsUnder(AttemptOf(r)) = {} => Undone(r)
         /\ \A rcpt \in ReceiptsUnder(AttemptOf(r)) :
               /\ rcpt \in Adapter!Receipt /\ rcpt # Null
               /\ \E i \in DOMAIN receipts :
                     receipts[i] = rcpt /\ receipts[i].command.request = r
<1>1. \A i \in DOMAIN receipts :
         receipts[i].command.token = attempts[AttemptOf(r)].token
           <=> receipts[i].command.request = r
  BY ReceiptsOfAttempt DEF Try
<1>2. ReceiptsUnder(AttemptOf(r)) \subseteq Adapter!Receipt
  BY ReceiptsUnderTyped DEF StageInvariant
<1>3. Null \notin Adapter!Receipt
  BY StoreAssumption
<1> QED BY <1>1, <1>2, <1>3 DEF ReceiptsUnder, Undone

\* A request none of whose rows is written keeps its history.
LEMMA HistoryFrame ==
  ASSUME NEW r, HistoryHeld(r), receipts' = receipts, requests'[r] = requests[r],
         Auth(r)' = Auth(r), Try(r)' = Try(r), results'[r] = results[r],
         reported'[r] = reported[r]
  PROVE  HistoryHeld(r)'
<1>1. RowsHeld(r)'
  BY DEF HistoryHeld, RowsHeld
<1>2. EffectHeld(r)'
  BY DEF HistoryHeld, EffectHeld, Undone
<1>3. VerdictHeld(r)'
  BY DEF HistoryHeld, VerdictHeld
<1> QED BY <1>1, <1>2, <1>3 DEF HistoryHeld

\* A ledger transaction writes the rows of the request it is about.
LEMMA OthersFrame ==
  ASSUME StageInvariant, NEW r \in Requests, receipts' = receipts,
         \A q \in Requests \ {r} :
             /\ requests'[q] = requests[q] /\ results'[q] = results[q]
             /\ Auth(q)' = Auth(q) /\ Try(q)' = Try(q) /\ reported'[q] = reported[q],
         HistoryHeld(r)', Try(r).state # "ABSENT" => Try(r)'.state # "ABSENT"
  PROVE  (\A q \in Requests : HistoryHeld(q)') /\ ReceiptsHeld'
<1>1. ASSUME NEW q \in Requests PROVE HistoryHeld(q)'
  <2>1. CASE q = r
    BY <2>1
  <2>2. CASE q # r
    BY <2>2, HistoryFrame DEF StageInvariant
  <2> QED BY <2>1, <2>2
<1>2. \A q \in Requests : Try(q).state # "ABSENT" => Try(q)'.state # "ABSENT"
  OBVIOUS
<1>3. \A i \in DOMAIN receipts : receipts[i].command.request \in Requests
  BY ReceiptFields DEF StageInvariant
<1>4. ReceiptsHeld
  BY DEF StageInvariant
<1>5. ReceiptsHeld'
  BY <1>2, <1>3, <1>4 DEF ReceiptsHeld
<1> QED BY <1>1, <1>5

\* A step that leaves both stores alone keeps every history.
LEMMA StoresFrame ==
  ASSUME StageInvariant, UNCHANGED <<ledgerStore, adapterStore>>
  PROVE  /\ \A q \in Requests : HistoryHeld(q)' /\ Auth(q)' = Auth(q) /\ Try(q)' = Try(q)
         /\ ReceiptsHeld' /\ OpenRequests' = OpenRequests
         /\ \A q \in Requests : Undone(q)' = Undone(q)
<1>1. UNCHANGED <<requests, authorizations, attempts, results, reported, targets, receipts>>
  BY DEF ledgerStore, adapterStore
<1>2. \A q \in Requests : Auth(q)' = Auth(q) /\ Try(q)' = Try(q) /\ Undone(q)' = Undone(q)
  BY <1>1 DEF Auth, Try, Undone
<1>3. \A q \in Requests : HistoryHeld(q)'
  BY <1>1, <1>2, HistoryFrame DEF StageInvariant
<1>4. ReceiptsHeld'
  BY <1>1 DEF StageInvariant, ReceiptsHeld, Try
<1> QED BY <1>1, <1>2, <1>3, <1>4 DEF OpenRequests

HistoryNext == (\A q \in Requests : HistoryHeld(q)') /\ ReceiptsHeld' /\ OperationHeld'

\* Steps between the stores' writes: what the operation relies on stays true.
LEMMA QuietHeld ==
  ASSUME StageInvariant, UNCHANGED <<ledgerStore, adapterStore>>,
         \/ op' = op \/ op' = Idle \/ op'.at = "RECOVERING"
         \/ Submitting \/ Validate
         \/ /\ At("CLAIMED") \/ At("AUTHORIZED") \/ At("RESERVED") \/ At("EXECUTED")
            /\ op' = [op EXCEPT !.at = "FINISHED"]
  PROVE  HistoryNext
<1>1. (\A q \in Requests : HistoryHeld(q)') /\ ReceiptsHeld'
  BY StoresFrame
<1>2. /\ UNCHANGED <<requests, targets, receipts>> /\ OpenRequests' = OpenRequests
      /\ \A q \in Requests : Try(q)' = Try(q) /\ Undone(q)' = Undone(q)
  BY StoresFrame DEF ledgerStore, adapterStore
<1>3. OperationHeld
  BY DEF StageInvariant
<1>4. CASE op' = op
  <2>1. CASE op = Idle
    BY <1>1, <1>4, <2>1 DEF OperationHeld, HistoryNext, Idle, Commanded
  <2>2. CASE op # Idle
    <3>1. op.request \in Requests
      BY <2>2, OperationHistory
    <3> QED BY <1>1, <1>2, <1>3, <1>4, <3>1 DEF OperationHeld, HistoryNext, Try, Undone
  <2> QED BY <1>1, <2>1, <2>2 DEF HistoryNext
<1>5. CASE op' = Idle \/ op'.at = "RECOVERING"
  BY <1>1, <1>5 DEF OperationHeld, HistoryNext, Try, Undone, Idle, Commanded
<1>6. CASE Submitting
  <2> PICK r \in Requests, sha \in Digests : Submit(r, sha)
    BY <1>6 DEF Submitting
  <2>1. OpenRequests = {}
    BY DEF Submit, Admitted, EntryFence
  <2>2. op'.at = "RECEIVED"
    BY DEF Submit, Idle
  <2> QED BY <1>1, <1>2, <2>1, <2>2 DEF OperationHeld, HistoryNext, Try, Undone, Commanded
<1>7. CASE Validate
  <2>1. op \in Operations /\ op.at = "RECEIVED"
    BY <1>7, BusyOperation DEF Validate, At, Idle, StageInvariant
  <2>2. OpenRequests = {} /\ op'.at = "VALIDATED"
    BY <1>3, <1>7, <2>1 DEF Validate, At, OperationHeld, Operations, OperationRow
  <2> QED BY <1>1, <1>2, <2>2 DEF OperationHeld, HistoryNext, Try, Undone, Commanded
<1>8. CASE /\ At("CLAIMED") \/ At("AUTHORIZED") \/ At("RESERVED") \/ At("EXECUTED")
           /\ op' = [op EXCEPT !.at = "FINISHED"]
  <2>1. op # Idle /\ op \in Operations
    BY <1>8, BusyOperation DEF At, Idle, StageInvariant
  <2>2. op'.at = "FINISHED" /\ op'.request = op.request
    BY <1>8, <2>1 DEF Operations, OperationRow
  <2>3. Try(op.request).state # "RECEIPT_RECORDED"
    BY <1>3, <1>8, <2>1, OperationHistory DEF At, OperationHeld, HistoryHeld, RowsHeld
  <2> QED BY <1>1, <1>2, <2>1, <2>2, <2>3, OperationHistory DEF OperationHeld, HistoryNext, Try, Undone, Commanded
<1> QED BY <1>4, <1>5, <1>6, <1>7, <1>8

\* claim_request: the first row of a request.
LEMMA ClaimHeld == ASSUME StageInvariant, Claim PROVE HistoryNext
<1> PICK r : r = op.request
  OBVIOUS
<1>0. op # Idle /\ op \in Operations
  BY BusyOperation DEF Claim, At, Idle, StageInvariant
<1>1. r \in Requests /\ HistoryHeld(r)
  BY <1>0, OperationHistory
<1>2. /\ requests' = [requests EXCEPT ![r] =
             [state |-> "CLAIMED", sha |-> op.sha, claimed_at |-> op.time, updated_at |-> op.time]]
      /\ requests[r].state = "ABSENT"
      /\ UNCHANGED <<authorizations, attempts, results, reported, targets, receipts>>
      /\ op' = [op EXCEPT !.at = "CLAIMED"]
  BY DEF Claim, Ledger!ClaimRequest, Ledger!ClaimReply, Ledger!Absent, Goto, adapterStore
<1>3. \A q \in Requests : Auth(q)' = Auth(q) /\ Try(q)' = Try(q)
  BY <1>2 DEF Auth, Try
<1>4. requests'[r].state = "CLAIMED" /\ \A q \in Requests \ {r} : requests'[q] = requests[q]
  BY <1>1, <1>2 DEF StageInvariant, StageTyped, Ledger!TypeOK
<1>5. HistoryHeld(r)'
  <2>1. RowsHeld(r)'
    BY <1>1, <1>2, <1>3, <1>4 DEF HistoryHeld, RowsHeld
  <2>2. EffectHeld(r)'
    BY <1>1, <1>2, <1>3 DEF HistoryHeld, EffectHeld, Undone
  <2> QED BY <1>4, <2>1, <2>2 DEF HistoryHeld, VerdictHeld
<1>6. (\A q \in Requests : HistoryHeld(q)') /\ ReceiptsHeld'
  BY <1>1, <1>2, <1>3, <1>4, <1>5, OthersFrame
<1>7. op'.at = "CLAIMED" /\ op'.request = r
  BY <1>0, <1>2 DEF Operations, OperationRow
<1> QED BY <1>4, <1>6, <1>7 DEF OperationHeld, HistoryNext, Try, Undone, Commanded

\* register: the authorization of the claimed request.
LEMMA AuthorizeHeld == ASSUME StageInvariant, Authorize PROVE HistoryNext
<1> PICK r : r = op.request
  OBVIOUS
<1>0. op # Idle /\ op \in Operations
  BY BusyOperation DEF Authorize, At, Idle, StageInvariant
<1>1. r \in Requests /\ HistoryHeld(r) /\ TokenOf(r) \in StageTokens
  BY <1>0, OperationHistory
<1>a. r # Null
  BY <1>1, Identifiers
<1>2. /\ authorizations' = [authorizations EXCEPT ![TokenOf(r)] =
             [state |-> "ISSUED", request |-> r, decision |-> DecisionOf(r),
              issued_at |-> clock, closed_at |-> 0]]
      /\ requests[r].state = "CLAIMED"
      /\ requests' = Ledger!RequestMoved(r, "AUTHORIZED", clock)
      /\ UNCHANGED <<attempts, results, reported, targets, receipts>>
  BY <1>a DEF Authorize, Ledger!Register, adapterStore
<1>3. \A q \in Requests : Try(q)' = Try(q)
  BY <1>2 DEF Try
<1>4. requests'[r].state = "AUTHORIZED" /\ \A q \in Requests \ {r} : requests'[q] = requests[q]
  BY <1>1, <1>2 DEF StageInvariant, StageTyped, Ledger!TypeOK, Ledger!RequestMoved, Ledger!RequestRow
<1>5. /\ Auth(r)'.state = "ISSUED" /\ Auth(r)'.request = r
      /\ \A q \in Requests \ {r} : Auth(q)' = Auth(q)
  BY <1>1, <1>2, Identifiers DEF StageInvariant, StageTyped, Ledger!TypeOK, Auth
<1>6. HistoryHeld(r)'
  <2>1. RowsHeld(r)'
    BY <1>1, <1>2, <1>3, <1>4, <1>5 DEF HistoryHeld, RowsHeld
  <2>2. EffectHeld(r)'
    BY <1>1, <1>2, <1>3 DEF HistoryHeld, EffectHeld, Undone
  <2> QED BY <1>4, <2>1, <2>2 DEF HistoryHeld, VerdictHeld
<1>7. (\A q \in Requests : HistoryHeld(q)') /\ ReceiptsHeld'
  BY <1>1, <1>2, <1>3, <1>4, <1>5, <1>6, OthersFrame
<1>8. /\ op'.at = "AUTHORIZED" /\ op'.request = r
      /\ op'.command.request = r /\ op'.command.token = TokenOf(r)
  BY <1>0 DEF Authorize, Operations, OperationRow
<1> QED BY <1>4, <1>7, <1>8 DEF OperationHeld, HistoryNext, Try, Undone, Commanded

\* consume_once: the attempt of the authorized request, before anything is done.
LEMMA ConsumeHeld == ASSUME StageInvariant, Consume PROVE HistoryNext
<1> PICK r : r = op.request
  OBVIOUS
<1>0. op # Idle /\ op \in Operations /\ op.at = "AUTHORIZED"
  BY BusyOperation DEF Consume, At, Idle, StageInvariant
<1>1. /\ r \in Requests /\ HistoryHeld(r)
      /\ TokenOf(r) \in StageTokens /\ AttemptOf(r) \in StageAttempts
  BY <1>0, OperationHistory
<1>2. /\ Auth(r).state = "ISSUED" /\ Try(r).state = "ABSENT"
      /\ authorizations' = Ledger!AuthorizationsClosed({TokenOf(r)}, "CONSUMED", clock)
      /\ UNCHANGED <<results, reported, targets, receipts>>
      /\ op' = [op EXCEPT !.at = "RESERVED"]
  BY <1>1, Identifiers DEF Consume, Ledger!ConsumeOnce, Ledger!Spendable, adapterStore, Auth, Try, Goto,
     Ledger!Absent
<1>3. Auth(r).request = r
  BY <1>1, <1>2 DEF HistoryHeld, RowsHeld
<1>4. /\ requests' = Ledger!RequestMoved(r, "ATTEMPT_RESERVED", clock)
      /\ attempts' = [attempts EXCEPT ![AttemptOf(r)] =
             [state |-> "RESERVED", token |-> TokenOf(r), request |-> r, receipt |-> Null,
              reserved_at |-> clock, completed_at |-> 0]]
  BY <1>1, <1>3, Identifiers DEF Consume, Ledger!ConsumeOnce, Auth
<1>5. requests'[r].state = "ATTEMPT_RESERVED" /\ \A q \in Requests \ {r} : requests'[q] = requests[q]
  BY <1>1, <1>4 DEF StageInvariant, StageTyped, Ledger!TypeOK, Ledger!RequestMoved, Ledger!RequestRow
<1>6. /\ Auth(r)'.state = "CONSUMED" /\ Auth(r)'.request = r
      /\ \A q \in Requests \ {r} : Auth(q)' = Auth(q)
  <2>1. Auth(r) \in Ledger!AuthorizationRow
    BY <1>1 DEF StageInvariant, StageTyped, Ledger!TypeOK, Auth
  <2>2. \A k \in StageTokens :
           authorizations'[k] =
               IF k = TokenOf(r)
               THEN [authorizations[k] EXCEPT !.state = "CONSUMED", !.closed_at = clock]
               ELSE authorizations[k]
    BY <1>2, Zenon DEF Ledger!AuthorizationsClosed
  <2>3. Auth(r)' = [Auth(r) EXCEPT !.state = "CONSUMED", !.closed_at = clock]
    BY <1>1, <2>2, Zenon DEF Auth
  <2>a. \A k \in StageTokens \ {TokenOf(r)} : authorizations'[k] = authorizations[k]
    BY <2>2, Zenon
  <2>4. \A q \in Requests \ {r} : Auth(q)' = Auth(q)
    BY <1>1, <2>a, Identifiers DEF Auth
  <2> QED BY <1>3, <2>1, <2>3, <2>4 DEF Ledger!AuthorizationRow
<1>7. /\ Try(r)'.state = "RESERVED" /\ Try(r)'.request = r /\ Try(r)'.token = TokenOf(r)
      /\ Try(r)'.receipt = Null
      /\ \A q \in Requests \ {r} : Try(q)' = Try(q)
  BY <1>1, <1>4, Identifiers DEF StageInvariant, StageTyped, Ledger!TypeOK, Try
<1>8. Undone(r) /\ Undone(r)'
  BY <1>2 DEF StageInvariant, ReceiptsHeld, Undone
<1>9. HistoryHeld(r)'
  <2>1. requests[r].state = "AUTHORIZED"
    BY <1>0 DEF StageInvariant, OperationHeld
  <2>2. RowsHeld(r)'
    BY <1>1, <1>2, <1>5, <1>6, <1>7, <2>1 DEF HistoryHeld, RowsHeld, Ledger!OpenAttemptStates
  <2>3. EffectHeld(r)'
    BY <1>7, <1>8 DEF EffectHeld, Ledger!TerminalAttemptStates
  <2> QED BY <1>5, <2>2, <2>3 DEF HistoryHeld, VerdictHeld
<1>10. (\A q \in Requests : HistoryHeld(q)') /\ ReceiptsHeld'
  BY <1>1, <1>2, <1>5, <1>6, <1>7, <1>9, OthersFrame
<1>11. op'.at = "RESERVED" /\ op'.request = r /\ op'.command = op.command
  BY <1>0, <1>2 DEF Operations, OperationRow
<1>12. op.command.request = r /\ op.command.token = TokenOf(r)
  BY <1>0 DEF StageInvariant, OperationHeld, Commanded
<1> QED BY <1>5, <1>7, <1>8, <1>10, <1>11, <1>12 DEF OperationHeld, HistoryNext, Try, Undone, Commanded

\* execute_once: the request's one receipt, in the adapter's own store.
LEMMA ExecuteHeld == ASSUME StageInvariant, Execute PROVE HistoryNext
<1> PICK r : r = op.request
  OBVIOUS
<1> PICK command : command = op.command
  OBVIOUS
<1>0. op # Idle /\ op \in Operations /\ op.at = "RESERVED"
  BY BusyOperation DEF Execute, At, Idle, StageInvariant
<1>1. r \in Requests /\ HistoryHeld(r)
  BY <1>0, OperationHistory
<1>2. /\ Undone(r) /\ requests[r].state = "ATTEMPT_RESERVED" /\ Try(r).state = "RESERVED"
      /\ command.request = r /\ command.token = TokenOf(r)
  BY <1>0 DEF StageInvariant, OperationHeld, Commanded
<1>3. Adapter!ReceiptsFor(command) = {}
  BY <1>2 DEF Adapter!ReceiptsFor, Undone
<1> PICK new : new = Adapter!ReceiptFor(command, AttemptOf(r), AttemptedAt(r))
  OBVIOUS
<1>4. new.command = command /\ new.attempt = AttemptOf(r)
  BY DEF Adapter!ReceiptFor
<1>5. /\ targets' = [targets EXCEPT ![command.target] =
                        [state |-> new.after, updated_at |-> AttemptedAt(r)]]
      /\ receipts' = Append(receipts, new)
      /\ UNCHANGED <<requests, authorizations, attempts, results, reported>>
      /\ op' = [op EXCEPT !.at = "EXECUTED"]
  BY <1>3 DEF Execute, Adapter!ExecuteOnce, Goto, ledgerStore
<1>6. /\ Len(receipts') = Len(receipts) + 1 /\ DOMAIN receipts' = 1..(Len(receipts) + 1)
      /\ Len(receipts) \in Nat /\ DOMAIN receipts = 1..Len(receipts)
      /\ \A i \in DOMAIN receipts : receipts'[i] = receipts[i]
      /\ receipts'[Len(receipts) + 1] = new
  BY <1>5, AppendProperties DEF StageInvariant, StageTyped
<1>7. \A i \in DOMAIN receipts' : i \in DOMAIN receipts \/ i = Len(receipts) + 1
  BY <1>6
<1>8. \A q \in Requests : Auth(q)' = Auth(q) /\ Try(q)' = Try(q)
  BY <1>5 DEF Auth, Try
<1>9. \A q \in Requests \ {r} : Undone(q) => Undone(q)'
  BY <1>2, <1>4, <1>6, <1>7 DEF Undone
<1>10. ASSUME NEW q \in Requests PROVE HistoryHeld(q)'
  <2>1. HistoryHeld(q)
    BY <1>10 DEF StageInvariant
  <2>2. RowsHeld(q)' /\ VerdictHeld(q)'
    BY <1>5, <1>8, <2>1 DEF HistoryHeld, RowsHeld, VerdictHeld
  <2>3. Try(q).state \in Ledger!TerminalAttemptStates => q # r
    BY <1>2 DEF Ledger!TerminalAttemptStates
  <2>4. Try(q).receipt # Null =>
          \E i \in DOMAIN receipts' :
              receipts'[i] = Try(q).receipt /\ receipts'[i].command.request = q
    BY <1>6, <2>1 DEF HistoryHeld, EffectHeld
  <2>5. EffectHeld(q)'
    BY <1>5, <1>8, <1>9, <2>1, <2>3, <2>4 DEF HistoryHeld, EffectHeld
  <2> QED BY <2>2, <2>5 DEF HistoryHeld
<1>11. ReceiptsHeld'
  <2>1. ReceiptsHeld /\ \A i \in DOMAIN receipts : receipts[i].command.request \in Requests
    BY ReceiptFields DEF StageInvariant
  <2>2. ASSUME NEW i \in DOMAIN receipts'
        PROVE  /\ receipts'[i].command.token = TokenOf(receipts'[i].command.request)
               /\ receipts'[i].attempt = AttemptOf(receipts'[i].command.request)
               /\ attempts'[AttemptOf(receipts'[i].command.request)].state # "ABSENT"
    BY <1>2, <1>4, <1>5, <1>6, <1>7, <2>1, <2>2 DEF ReceiptsHeld, Try
  <2>3. ASSUME NEW i \in DOMAIN receipts', NEW j \in DOMAIN receipts',
               receipts'[i].command.request = receipts'[j].command.request
        PROVE  i = j
    BY <1>2, <1>4, <1>6, <1>7, <2>1, <2>3 DEF ReceiptsHeld, Undone
  <2> QED BY <2>2, <2>3 DEF ReceiptsHeld, Try
<1>12. op'.at = "EXECUTED" /\ op'.request = r /\ op'.command = command
  BY <1>0, <1>5 DEF Operations, OperationRow
<1>13. \E i \in DOMAIN receipts' :
          receipts'[i].command = command /\ targets'[command.target].state = receipts'[i].after
  <2>1. command \in Adapter!Command
    BY <1>0 DEF Operations, Commanded
  <2>2. targets'[command.target].state = new.after
    BY <1>5, <2>1 DEF StageInvariant, StageTyped, Adapter!Command
  <2> QED BY <1>4, <1>6, <2>2
<1> QED BY <1>2, <1>5, <1>10, <1>11, <1>12, <1>13
        DEF OperationHeld, HistoryNext, Commanded, Try, Undone

\* record_adapter_receipt, on the normal path or in a recovery.
LEMMA ReceiptHeld ==
  ASSUME StageInvariant, NEW r \in Requests, NEW rcpt \in ReceiptsUnder(AttemptOf(r)), NEW t,
         Ledger!RecordAdapterReceipt(AttemptOf(r), rcpt, t),
         UNCHANGED <<reported, adapterStore>>
  PROVE  /\ (\A q \in Requests : HistoryHeld(q)') /\ ReceiptsHeld'
         /\ UNCHANGED <<requests, targets, receipts>>
         /\ Try(r)'.state = "RECEIPT_RECORDED"
<1>0. AttemptOf(r) \in StageAttempts /\ HistoryHeld(r)
  BY Identifiers DEF StageInvariant
<1>1. /\ Try(r).state = "RESERVED"
      /\ attempts' = [attempts EXCEPT ![AttemptOf(r)] =
             [@ EXCEPT !.state = "RECEIPT_RECORDED", !.receipt = rcpt]]
      /\ UNCHANGED <<requests, authorizations, results, reported, targets, receipts>>
  BY DEF Ledger!RecordAdapterReceipt, adapterStore, Try
<1>2. rcpt # Null /\ \E i \in DOMAIN receipts : receipts[i] = rcpt /\ receipts[i].command.request = r
  BY <1>1, NothingUnderKey
<1>3. Try(r) \in Ledger!AttemptRow /\ attempts \in [StageAttempts -> Ledger!AttemptRow]
  BY <1>0 DEF StageInvariant, StageTyped, Ledger!TypeOK, Try
<1>4. /\ Try(r)'.state = "RECEIPT_RECORDED" /\ Try(r)'.receipt = rcpt
      /\ Try(r)'.request = Try(r).request /\ Try(r)'.token = Try(r).token
      /\ \A q \in Requests \ {r} : Try(q)' = Try(q)
  <2>1. Try(r)' = [Try(r) EXCEPT !.state = "RECEIPT_RECORDED", !.receipt = rcpt]
    BY <1>0, <1>1, <1>3 DEF Try
  <2>2. \A q \in Requests \ {r} : Try(q)' = Try(q)
    BY <1>0, <1>1, <1>3, Identifiers DEF Try
  <2> QED BY <1>3, <2>1, <2>2 DEF Ledger!AttemptRow
<1>5. \A q \in Requests : Auth(q)' = Auth(q)
  BY <1>1 DEF Auth
<1>6. HistoryHeld(r)'
  <2>1. RowsHeld(r)'
    BY <1>0, <1>1, <1>4, <1>5 DEF HistoryHeld, RowsHeld, Ledger!OpenAttemptStates,
       Ledger!TerminalAttemptStates
  <2>2. EffectHeld(r)'
    BY <1>1, <1>2, <1>4 DEF EffectHeld, Ledger!TerminalAttemptStates
  <2>3. VerdictHeld(r)'
    BY <1>0, <1>1 DEF HistoryHeld, RowsHeld, VerdictHeld, Ledger!TerminalAttemptStates
  <2> QED BY <2>1, <2>2, <2>3 DEF HistoryHeld
<1>7. (\A q \in Requests : HistoryHeld(q)') /\ ReceiptsHeld'
  BY <1>1, <1>4, <1>5, <1>6, OthersFrame
<1> QED BY <1>1, <1>4, <1>7

\* See ReceiptHeld.
LEMMA ReceiptStepHeld == ASSUME StageInvariant, RecordReceipt \/ RecoverReceipt PROVE HistoryNext
<1> PICK r : r = op.request
  OBVIOUS
<1>0. op # Idle /\ op \in Operations /\ op.at \in {"EXECUTED", "RECOVERING"}
  BY BusyOperation DEF RecordReceipt, RecoverReceipt, At, Idle, StageInvariant
<1>1. r \in Requests
  BY <1>0, OperationHistory
<1>2. \E rcpt \in ReceiptsUnder(AttemptOf(r)), t \in {AttemptedAt(r), op.time} :
         Ledger!RecordAdapterReceipt(AttemptOf(r), rcpt, t)
  BY DEF RecordReceipt, RecoverReceipt
<1>3. UNCHANGED <<reported, adapterStore>>
  BY DEF RecordReceipt, RecoverReceipt
<1>4. /\ (\A q \in Requests : HistoryHeld(q)') /\ ReceiptsHeld'
      /\ UNCHANGED <<requests, targets, receipts>>
  BY <1>1, <1>2, <1>3, ReceiptHeld
<1>5. CASE RecoverReceipt
  <2>1. op'.at = "RECOVERING"
    BY <1>5 DEF RecoverReceipt, At
  <2> QED BY <1>4, <2>1 DEF OperationHeld, HistoryNext, Commanded
<1>6. CASE RecordReceipt
  <2>1. op.at = "EXECUTED" /\ op'.at = "RECEIPTED" /\ op'.request = r /\ op'.command = op.command
    BY <1>0, <1>6 DEF RecordReceipt, At, Goto, Operations, OperationRow
  <2> QED BY <1>4, <2>1 DEF OperationHeld, HistoryNext, Commanded, StageInvariant
<1> QED BY <1>5, <1>6

\* The verifier looks at the target while the receipt is its latest.
LEMMA VerifyHeld == ASSUME StageInvariant, Verify PROVE HistoryNext
<1> PICK r : r = op.request
  OBVIOUS
<1>0. op # Idle /\ op \in Operations /\ op.at = "RECEIPTED"
  BY BusyOperation DEF Verify, At, Idle, StageInvariant
<1>1. r \in Requests /\ HistoryHeld(r)
  BY <1>0, OperationHistory
<1>2. /\ (\A q \in Requests : HistoryHeld(q)') /\ ReceiptsHeld'
      /\ Try(r)' = Try(r)
  BY <1>1, StoresFrame DEF Verify
<1>3. op'.at = "FINISHED" /\ op'.request = r /\ op'.final = targets[op.command.target].state
  BY <1>0 DEF Verify, Operations, OperationRow
<1>4. PICK i \in DOMAIN receipts :
         receipts[i].command = op.command /\ op'.final = receipts[i].after
  BY <1>0, <1>3 DEF StageInvariant, OperationHeld
<1>5. receipts[i].command.request = r
  BY <1>0, <1>4 DEF StageInvariant, OperationHeld, Commanded
<1>6. Try(r).state = "RECEIPT_RECORDED" => Try(r).receipt = receipts[i]
  BY <1>1, <1>5 DEF StageInvariant, ReceiptsHeld, HistoryHeld, EffectHeld
<1> QED BY <1>2, <1>3, <1>4, <1>6 DEF OperationHeld, HistoryNext, Commanded, Try

\* revoke_issued_for_request: the authorization stays the request's.
LEMMA RevokeHeld == ASSUME StageInvariant, RevokeAuthority PROVE HistoryNext
<1>1. /\ UNCHANGED <<requests, attempts, results, reported, targets, receipts, op>>
      /\ op.at = "RECOVERING"
  BY DEF RevokeAuthority, Ledger!RevokeIssuedForRequest, adapterStore, At
<1>2. PICK ks, t :
         /\ authorizations' = Ledger!AuthorizationsClosed(ks, "REVOKED", t)
         /\ \A k \in ks : authorizations[k].state = "ISSUED"
  BY DEF RevokeAuthority, Ledger!RevokeIssuedForRequest
<1>3. \A q \in Requests : Try(q)' = Try(q) /\ Undone(q)' = Undone(q)
  BY <1>1 DEF Try, Undone
<1>4. ASSUME NEW q \in Requests PROVE HistoryHeld(q)'
  <2>1. HistoryHeld(q) /\ TokenOf(q) \in StageTokens
    BY <1>4, Identifiers DEF StageInvariant
  <2>2. Auth(q) \in Ledger!AuthorizationRow
    BY <2>1 DEF StageInvariant, StageTyped, Ledger!TypeOK, Auth
  <2>3. Auth(q)' = IF TokenOf(q) \in ks
                   THEN [Auth(q) EXCEPT !.state = "REVOKED", !.closed_at = t] ELSE Auth(q)
    BY <1>2, <2>1, Zenon DEF Ledger!AuthorizationsClosed, Auth
  <2>4. Auth(q)'.request = Auth(q).request /\ (Auth(q)'.state = "ABSENT" <=> Auth(q).state = "ABSENT")
    <3>1. CASE TokenOf(q) \in ks
      BY <1>2, <2>2, <2>3, <3>1 DEF Ledger!AuthorizationRow, Auth
    <3>2. CASE TokenOf(q) \notin ks
      BY <2>3, <3>2
    <3> QED BY <3>1, <3>2
  <2>5. RowsHeld(q)'
    BY <1>1, <1>3, <2>1, <2>4 DEF HistoryHeld, RowsHeld
  <2>6. EffectHeld(q)'
    BY <1>1, <1>3, <2>1 DEF HistoryHeld, EffectHeld
  <2>7. VerdictHeld(q)'
    BY <1>1, <1>3, <2>1 DEF HistoryHeld, VerdictHeld
  <2> QED BY <2>5, <2>6, <2>7 DEF HistoryHeld
<1>5. ReceiptsHeld'
  BY <1>1 DEF StageInvariant, ReceiptsHeld, Try
<1> QED BY <1>1, <1>4, <1>5 DEF OperationHeld, HistoryNext, Commanded

\* complete_request (T3): what the result claims is what the attempt records.
LEMMA CompleteHeld ==
  ASSUME StageInvariant, NEW r \in Requests, NEW sha, NEW result \in Results,
         result.attempt \in {Null, AttemptOf(r)}, result.disposition \in Ledger!Dispositions,
         Ledger!CompleteRequest(r, sha, result), receipts' = receipts,
         \A q \in Requests \ {r} : reported'[q] = reported[q],
         result.attempt # Null /\ result.receipt = Null => Undone(r),
         result.attempt # Null /\ result.receipt # Null =>
             /\ result.receipt.status \in StatusesBehind(Ledger!AttemptStateFor(result.disposition))
             /\ reported'[r] = result.receipt.after
  PROVE  (\A q \in Requests : HistoryHeld(q)') /\ ReceiptsHeld'
<1> PICK state : state = Ledger!AttemptStateFor(result.disposition)
  OBVIOUS
<1>0. AttemptOf(r) \in StageAttempts /\ AttemptOf(r) # Null /\ HistoryHeld(r)
  BY Identifiers DEF StageInvariant
<1>1. /\ Ledger!ResultWellFormed(result)
      /\ IF result.attempt = Null THEN Ledger!NoEffectMayClose(r, result)
                                  ELSE Ledger!AttemptMayClose(r, result)
      /\ attempts' = IF result.attempt = Null THEN attempts
                     ELSE Ledger!AttemptsClosed({result.attempt}, state, result.receipt,
                                                result.terminal_at)
      /\ results' = [results EXCEPT ![r] = result]
      /\ requests' = Ledger!RequestMoved(r, "TERMINAL", result.terminal_at)
      /\ UNCHANGED authorizations
  BY DEF Ledger!CompleteRequest
<1>2. requests'[r].state = "TERMINAL" /\ \A q \in Requests \ {r} : requests'[q] = requests[q]
  BY <1>1 DEF StageInvariant, StageTyped, Ledger!TypeOK, Ledger!RequestMoved, Ledger!RequestRow
<1>3. results'[r] = result /\ \A q \in Requests \ {r} : results'[q] = results[q]
  BY <1>1 DEF StageInvariant, StageTyped, Ledger!TypeOK
<1>4. result.disposition # "ABSENT"
  BY DEF Ledger!Dispositions, Ledger!AttemptedDispositions, Ledger!UnattemptedDispositions
<1>5. \A q \in Requests : Auth(q)' = Auth(q)
  BY <1>1 DEF Auth
<1>6. CASE result.attempt = Null
  <2>1. Try(r).state = "ABSENT" /\ \A q \in Requests : Try(q)' = Try(q)
    BY <1>0, <1>1, <1>6 DEF Ledger!NoEffectMayClose, HistoryHeld, RowsHeld, Try
  <2>2. result.disposition \in Ledger!UnattemptedDispositions
    BY <1>1, <1>6 DEF Ledger!ResultWellFormed
  <2>3. RowsHeld(r)'
    BY <1>0, <1>2, <1>3, <1>4, <1>5, <2>1 DEF HistoryHeld, RowsHeld
  <2>4. EffectHeld(r)'
    BY <1>0, <2>1 DEF HistoryHeld, EffectHeld, Ledger!TerminalAttemptStates
  <2>5. VerdictHeld(r)'
    BY <1>3, <2>1, <2>2 DEF VerdictHeld
  <2>6. HistoryHeld(r)'
    BY <2>3, <2>4, <2>5 DEF HistoryHeld
  <2> QED BY <1>2, <1>3, <1>5, <2>1, <2>6, OthersFrame
<1>7. CASE result.attempt # Null
  <2>1. result.attempt = AttemptOf(r) /\ result.disposition \in Ledger!AttemptedDispositions
    BY <1>1, <1>7 DEF Ledger!ResultWellFormed, Ledger!Dispositions
  <2>2. state \in Ledger!TerminalAttemptStates
    BY <2>1 DEF Ledger!AttemptStateFor, Ledger!AttemptedDispositions, Ledger!TerminalAttemptStates
  <2>3. /\ requests[r].state = "ATTEMPT_RESERVED"
        /\ \/ Try(r).state = "RECEIPT_RECORDED" /\ result.receipt = Try(r).receipt
           \/ /\ Try(r).state = "RESERVED" /\ result.disposition = "UNKNOWN_EFFECT"
              /\ result.receipt = Null
    BY <1>1, <1>7, <2>1 DEF Ledger!AttemptMayClose, Try
  <2>4. Try(r) \in Ledger!AttemptRow
    BY <1>0 DEF StageInvariant, StageTyped, Ledger!TypeOK, Try
  <2>5. \A a \in StageAttempts :
           attempts'[a] = IF a = AttemptOf(r)
                          THEN [attempts[a] EXCEPT !.state = state,
                                    !.completed_at = result.terminal_at,
                                    !.receipt = Ledger!ReceiptKept(a, result.receipt)]
                          ELSE attempts[a]
    <3>1. attempts' = Ledger!AttemptsClosed({AttemptOf(r)}, state, result.receipt,
                                            result.terminal_at)
      BY <1>1, <1>7, <2>1
    <3> QED BY <3>1, Zenon DEF Ledger!AttemptsClosed
  <2>6. Try(r)' = [Try(r) EXCEPT !.state = state, !.completed_at = result.terminal_at,
                                 !.receipt = Ledger!ReceiptKept(AttemptOf(r), result.receipt)]
    BY <1>0, <2>5, Zenon DEF Try
  <2>7. \A a \in StageAttempts \ {AttemptOf(r)} : attempts'[a] = attempts[a]
    BY <2>5, Zenon
  <2>8. \A q \in Requests \ {r} : Try(q)' = Try(q)
    BY <2>7, Identifiers DEF Try
  <2>9. Ledger!ReceiptKept(AttemptOf(r), result.receipt) = result.receipt
    BY <1>0, <2>3 DEF Ledger!ReceiptKept, HistoryHeld, EffectHeld, Try
  <2>10. /\ Try(r)'.state = state /\ Try(r)'.receipt = result.receipt
         /\ Try(r)'.request = Try(r).request /\ Try(r)'.token = Try(r).token
    BY <2>4, <2>6, <2>9 DEF Ledger!AttemptRow
  <2>11. RowsHeld(r)'
    BY <1>0, <1>2, <1>3, <1>4, <1>5, <2>2, <2>3, <2>10
    DEF HistoryHeld, RowsHeld, Ledger!TerminalAttemptStates
  <2>12. EffectHeld(r)'
    <3>1. CASE result.receipt = Null
      <4>1. Try(r).state = "RESERVED" /\ result.disposition = "UNKNOWN_EFFECT"
        BY <1>0, <2>3, <3>1 DEF HistoryHeld, EffectHeld
      <4>2. state = "UNKNOWN_EFFECT" /\ Undone(r)'
        BY <1>7, <3>1, <4>1 DEF Ledger!AttemptStateFor, Undone
      <4> QED BY <2>10, <3>1, <4>2 DEF EffectHeld, Ledger!TerminalAttemptStates
    <3>2. CASE result.receipt # Null
      <4>1. result.receipt = Try(r).receipt
        BY <2>3, <3>2
      <4>2. \E i \in DOMAIN receipts :
               receipts[i] = result.receipt /\ receipts[i].command.request = r
        BY <1>0, <3>2, <4>1 DEF HistoryHeld, EffectHeld
      <4> QED BY <1>7, <2>2, <2>10, <3>2, <4>2 DEF EffectHeld, Ledger!TerminalAttemptStates
    <3> QED BY <3>1, <3>2
  <2>13. VerdictHeld(r)'
    BY <1>3, <2>1, <2>2, <2>10 DEF VerdictHeld, Ledger!TerminalAttemptStates
  <2>14. HistoryHeld(r)'
    BY <2>11, <2>12, <2>13 DEF HistoryHeld
  <2> QED BY <1>2, <1>3, <1>5, <2>2, <2>8, <2>10, <2>14, OthersFrame DEF Ledger!TerminalAttemptStates
<1> QED BY <1>6, <1>7

\* T3 of the normal path.
LEMMA CommitHeld == ASSUME StageInvariant, CommitDenial \/ CommitOutcome PROVE HistoryNext
<1> PICK r : r = op.request
  OBVIOUS
<1>0. op # Idle /\ op \in Operations /\ op.at = "FINISHED" /\ op' = Idle /\ receipts' = receipts
  BY BusyOperation DEF CommitDenial, CommitOutcome, At, Idle, StageInvariant, adapterStore
<1>1. r \in Requests /\ HistoryHeld(r) /\ AttemptOf(r) # Null
  BY <1>0, OperationHistory, Identifiers
<1>2. (\A q \in Requests : HistoryHeld(q)') /\ ReceiptsHeld'
  <2>1. CASE CommitDenial
    <3> PICK denied : denied = Result("DENIED_NO_EFFECT", DecisionOf(r), Null, Null, clock)
      OBVIOUS
    <3>1. denied \in Results /\ denied.disposition = "DENIED_NO_EFFECT" /\ denied.attempt = Null
      <4>1. clock \in Ledger!Times /\ DecisionOf(r) \in StageDecisions
        BY <1>0, <1>1, OperationFields, Identifiers DEF StageInvariant
      <4> QED BY <4>1 DEF Results, Result, Ledger!ResultRow, Ledger!Dispositions,
              Ledger!UnattemptedDispositions
    <3>2. Ledger!CompleteRequest(r, op.sha, denied) /\ reported' = reported
      BY <2>1 DEF CommitDenial
    <3>3. denied.disposition \in Ledger!Dispositions
      BY <3>1 DEF Ledger!Dispositions, Ledger!UnattemptedDispositions
    <3> QED BY <1>0, <1>1, <3>1, <3>2, <3>3, CompleteHeld
  <2>2. CASE CommitOutcome
    <3>1. PICK rcpt \in ReceiptsUnder(AttemptOf(r)) :
            Ledger!CompleteRequest(r, op.sha,
                Result(DispositionOf(rcpt), DecisionOf(r), AttemptOf(r), rcpt, clock))
      BY <2>2 DEF CommitOutcome
    <3>2. /\ Try(r).state = "RECEIPT_RECORDED"
          /\ reported' = [reported EXCEPT ![r] = op.final]
      BY <2>2 DEF CommitOutcome, Try
    <3> PICK outcome :
          outcome = Result(DispositionOf(rcpt), DecisionOf(r), AttemptOf(r), rcpt, clock)
      OBVIOUS
    <3>3. rcpt \in Adapter!Receipt /\ rcpt # Null
      BY <1>1, <3>1, <3>2, NothingUnderKey
    <3>4. /\ outcome \in Results /\ outcome.disposition \in Ledger!Dispositions
          /\ outcome.disposition = DispositionOf(rcpt)
          /\ outcome.attempt = AttemptOf(r) /\ outcome.receipt = rcpt
      BY <1>0, <3>3, OutcomeTyped DEF Result, StageInvariant
    <3>5. rcpt = Try(r).receipt
      BY <1>1, <3>1, <3>2, <3>4 DEF Ledger!CompleteRequest, Ledger!AttemptMayClose, Try
    <3>6. op.final = rcpt.after
      BY <1>0, <3>2, <3>5 DEF StageInvariant, OperationHeld
    <3>7. rcpt.status \in StatusesBehind(Ledger!AttemptStateFor(outcome.disposition))
      <4>1. rcpt.status \in {"APPLIED", "PARTIAL", "AMBIGUOUS", "NO_EFFECT"}
        BY <3>3 DEF Adapter!Receipt, Adapter!Statuses
      <4> QED BY <3>4, <4>1 DEF DispositionOf, Ledger!AttemptStateFor, StatusesBehind
    <3>8. /\ reported'[r] = rcpt.after
          /\ \A q \in Requests \ {r} : reported'[q] = reported[q]
      BY <1>1, <3>2, <3>6 DEF StageInvariant, StageTyped
    <3> QED BY <1>0, <1>1, <3>1, <3>3, <3>4, <3>7, <3>8, CompleteHeld
  <2> QED BY <2>1, <2>2
<1> QED BY <1>0, <1>2 DEF OperationHeld, HistoryNext, Idle, Commanded

\* T3 of a recovery: without a receipt the adapter has none either.
LEMMA CommitRecoveryHeld == ASSUME StageInvariant, CommitRecovery PROVE HistoryNext
<1> PICK r : r = op.request
  OBVIOUS
<1> PICK result : result = RecoveryResult(r)
  OBVIOUS
<1>0. op # Idle /\ op' = Idle /\ receipts' = receipts
  BY DEF CommitRecovery, At, Idle, adapterStore
<1>1. r \in Requests /\ HistoryHeld(r) /\ AttemptOf(r) # Null
  BY <1>0, OperationHistory, Identifiers
<1>2. result \in Results /\ result.disposition \in Ledger!Dispositions
  BY <1>0, RecoveryTyped DEF StageInvariant
<1>3. /\ Ledger!CompleteRequest(r, op.sha, result)
      /\ reported' = IF result.receipt = Null THEN reported
                     ELSE [reported EXCEPT ![r] = result.receipt.after]
      /\ ~ReceiptToRecover(r)
  BY DEF CommitRecovery, ReadyToRecord
<1>4. /\ \A q \in Requests \ {r} : reported'[q] = reported[q]
      /\ result.receipt # Null => reported'[r] = result.receipt.after
  BY <1>1, <1>3 DEF StageInvariant, StageTyped
<1>5. /\ result.attempt \in {Null, AttemptOf(r)}
      /\ result.attempt # Null => Try(r).state # "ABSENT" /\ result.receipt = Try(r).receipt
      /\ result.attempt # Null =>
            result.disposition =
                IF Try(r).receipt # Null /\ Try(r).receipt.status = "NO_EFFECT"
                THEN "FAILED_NO_EFFECT" ELSE "UNKNOWN_EFFECT"
  BY DEF RecoveryResult, Result, NoAttemptOf, Try
<1>6. result.attempt # Null =>
         \/ Try(r).state = "RECEIPT_RECORDED"
         \/ Try(r).state = "RESERVED"
  BY <1>3, <1>5 DEF Ledger!CompleteRequest, Ledger!AttemptMayClose, Try
<1>7. result.attempt # Null /\ result.receipt = Null => Undone(r)
  <2> SUFFICES ASSUME result.attempt # Null, result.receipt = Null PROVE Undone(r)
    OBVIOUS
  <2>1. Try(r).state = "RESERVED"
    BY <1>1, <1>5, <1>6 DEF HistoryHeld, EffectHeld
  <2>2. ReceiptsUnder(AttemptOf(r)) = {}
    BY <1>3, <2>1 DEF ReceiptToRecover, Try
  <2> QED BY <1>1, <2>1, <2>2, NothingUnderKey
<1>8. result.attempt # Null /\ result.receipt # Null =>
         result.receipt.status \in StatusesBehind(Ledger!AttemptStateFor(result.disposition))
  <2> SUFFICES ASSUME result.attempt # Null, result.receipt # Null
               PROVE  result.receipt.status
                        \in StatusesBehind(Ledger!AttemptStateFor(result.disposition))
    OBVIOUS
  <2>1. result.receipt \in Adapter!Receipt
    BY <1>2 DEF Results, Ledger!ResultRow
  <2>2. result.receipt.status \in {"APPLIED", "PARTIAL", "AMBIGUOUS", "NO_EFFECT"}
    BY <2>1 DEF Adapter!Receipt, Adapter!Statuses
  <2> QED BY <1>5, <2>2 DEF Ledger!AttemptStateFor, StatusesBehind
<1>9. (\A q \in Requests : HistoryHeld(q)') /\ ReceiptsHeld'
  BY <1>0, <1>1, <1>2, <1>3, <1>4, <1>5, <1>7, <1>8, CompleteHeld
<1> QED BY <1>0, <1>9 DEF OperationHeld, HistoryNext, Idle, Commanded

\* The invariant of the three stores and of the operation between its steps.
LEMMA NextHistory == StageInvariant /\ TailOwned /\ [StageNext]_svars => StageInvariant'
<1> SUFFICES ASSUME StageInvariant, TailOwned, [StageNext]_svars PROVE StageInvariant'
  OBVIOUS
<1>1. StageTyped'
  BY NextTyped DEF StageInvariant
<1>2. HistoryNext
  <2>0. CASE Submitting
    <3> PICK r \in Requests, sha \in Digests : Submit(r, sha)
      BY <2>0 DEF Submitting
    <3>1. UNCHANGED <<ledgerStore, adapterStore>>
      BY DEF Submit
    <3> QED BY <2>0, <3>1, QuietHeld
  <2>1. CASE Validate
    BY <2>1, QuietHeld DEF Validate
  <2>2. CASE Reject \/ RefuseBeforeClaim \/ ClaimRefused \/ LeaveOpen \/ Interrupt
    BY <2>2, QuietHeld DEF Reject, RefuseBeforeClaim, ClaimRefused, LeaveOpen, Interrupt
  <2>3. CASE Deny \/ BrokerRejects \/ BrokerFails
    BY <2>3, QuietHeld DEF Deny, BrokerRejects, BrokerFails, Goto
  <2>4. CASE Reconciling
    <3> PICK r \in Requests, sha \in Digests : StartReconcile(r, sha)
      BY <2>4 DEF Reconciling
    <3>1. UNCHANGED <<ledgerStore, adapterStore>> /\ op'.at = "RECOVERING"
      BY DEF StartReconcile, Idle
    <3> QED BY <3>1, QuietHeld
  <2>6. CASE AppendRecoveryRecord
    BY <2>6, QuietHeld DEF AppendRecoveryRecord
  <2>5. CASE ClockMoves \/ UNCHANGED svars
    <3>1. UNCHANGED <<ledgerStore, adapterStore>> /\ op' = op
      BY <2>5 DEF ClockMoves, Ledger!ClockMoves, Ledger!tables, svars, ledgerStore
    <3> QED BY <3>1, QuietHeld
  <2> QED BY <2>0, <2>1, <2>2, <2>3, <2>4, <2>5, <2>6, ClaimHeld, AuthorizeHeld, ConsumeHeld, ExecuteHeld,
          ReceiptStepHeld, VerifyHeld, RevokeHeld, CommitHeld, CommitRecoveryHeld
          DEF StageNext, Process, Recover
<1> QED BY <1>1, <1>2 DEF StageInvariant, HistoryNext

\* Both invariants of the durable path, in every state.
LEMMA StageInvariantHolds == StageSpec => [](StageInvariant /\ TailOwned)
<1>1. StageInvariant /\ TailOwned /\ [StageNext]_svars => (StageInvariant /\ TailOwned)'
  BY NextHistory, NextTyped DEF StageInvariant
<1> QED BY <1>1, InitHistory, InitTail, PTL DEF StageSpec

-----------------------------------------------------------------------------
(* What follows for the caller and for the correlation of the stores.      *)

\* A request that never reserved an attempt has done nothing.
LEMMA UnattemptedUndone ==
  ASSUME StageInvariant, NEW r \in Requests, Try(r).state = "ABSENT"
  PROVE  Undone(r)
  BY DEF StageInvariant, ReceiptsHeld, Undone

\* A terminal result and the attempt it closed.
LEMMA VerdictHonest ==
  ASSUME StageInvariant, NEW r \in Requests
  PROVE  LET verdict == results[r].disposition IN
         /\ verdict = "COMPLETED_VERIFIED" =>
               \E i \in EffectsOf(r) : receipts[i].status = "APPLIED"
         /\ verdict = "RECOVERY_REQUIRED" => EffectsOf(r) # {}
         /\ verdict \in {"DENIED_NO_EFFECT", "ABORTED_NO_EFFECT", "FAILED_NO_EFFECT"} =>
               EffectsOf(r) = {}
<1> PICK verdict : verdict = results[r].disposition
  OBVIOUS
<1>1. HistoryHeld(r) /\ ReceiptsHeld
  BY DEF StageInvariant
<1>2. CASE verdict \in {"COMPLETED_VERIFIED", "RECOVERY_REQUIRED", "FAILED_NO_EFFECT"}
  <2>1. Try(r).state = Ledger!AttemptStateFor(verdict) /\ verdict \in Ledger!AttemptedDispositions
    BY <1>1, <1>2 DEF HistoryHeld, RowsHeld, VerdictHeld, Ledger!UnattemptedDispositions
  <2>2. /\ Try(r).state \in Ledger!TerminalAttemptStates \ {"UNKNOWN_EFFECT"}
        /\ verdict = "COMPLETED_VERIFIED" => Try(r).state = "VERIFIED_EFFECT"
        /\ verdict = "FAILED_NO_EFFECT" => Try(r).state = "FAILED_NO_EFFECT"
        /\ verdict = "RECOVERY_REQUIRED" => Try(r).state = "RECOVERY_REQUIRED"
    BY <1>2, <2>1 DEF Ledger!AttemptStateFor, Ledger!TerminalAttemptStates
  <2>3. Try(r).receipt # Null /\ Try(r).receipt.status \in StatusesBehind(Try(r).state)
    BY <1>1, <2>2 DEF HistoryHeld, EffectHeld
  <2>4. PICK i \in DOMAIN receipts : receipts[i] = Try(r).receipt /\ receipts[i].command.request = r
    BY <1>1, <2>3 DEF HistoryHeld, EffectHeld
  <2>5. \A j \in DOMAIN receipts : receipts[j].command.request = r => j = i
    BY <1>1, <2>4 DEF ReceiptsHeld
  <2> QED BY <1>2, <2>2, <2>3, <2>4, <2>5 DEF StatusesBehind, EffectsOf
<1>3. CASE verdict \in {"DENIED_NO_EFFECT", "ABORTED_NO_EFFECT"}
  <2>1. Try(r).state = "ABSENT"
    BY <1>1, <1>3 DEF HistoryHeld, RowsHeld, VerdictHeld, Ledger!AttemptedDispositions
  <2>2. Undone(r)
    BY <2>1, UnattemptedUndone
  <2> QED BY <1>3, <2>2 DEF Undone, EffectsOf
<1> QED BY <1>2, <1>3

\* What a caller is told about the world is true of the world, whoever wrote
\* the result: process_json or the reconciliation after any interruption.
THEOREM VerdictsTrue == StageSpec => []VerdictsAreHonest
<1>1. StageInvariant => VerdictsAreHonest
  BY VerdictHonest DEF VerdictsAreHonest
<1> QED BY <1>1, StageInvariantHolds, PTL

\* The same of the state a step leads to.
LEMMA HonestNext == StageInvariant' => VerdictsAreHonest'
<1>1. StageInvariant => VerdictsAreHonest
  BY VerdictHonest DEF VerdictsAreHonest
<1> QED BY <1>1, PTL

\* _validate_durable_store_correlation never finds the stores apart.
LEMMA Correlated == StageInvariant => StoresCorrelated
<1> SUFFICES ASSUME StageInvariant PROVE StoresCorrelated
  OBVIOUS
<1>1. ASSUME NEW i \in DOMAIN receipts
      PROVE  \E a \in StageAttempts :
                attempts[a].state # "ABSENT" /\ attempts[a].token = receipts[i].command.token
  <2> PICK r : r = receipts[i].command.request
    OBVIOUS
  <2>1. r \in Requests /\ AttemptOf(r) \in StageAttempts
    BY ReceiptFields, Identifiers DEF StageInvariant
  <2>2. Try(r).state # "ABSENT" /\ Try(r).token = TokenOf(r) /\ receipts[i].command.token = TokenOf(r)
    BY <2>1 DEF StageInvariant, ReceiptsHeld, HistoryHeld, RowsHeld
  <2> QED BY <2>1, <2>2 DEF Try
<1>2. ASSUME NEW a \in StageAttempts, attempts[a].state # "ABSENT"
      PROVE  /\ ReceiptsUnder(a) = {} =>
                   \/ attempts[a].state = "RESERVED"
                   \/ attempts[a].state = "UNKNOWN_EFFECT" /\ attempts[a].receipt = Null
             /\ \A rcpt \in ReceiptsUnder(a) :
                   /\ rcpt.attempt = a /\ rcpt.command.request = attempts[a].request
                   /\ attempts[a].state # "RESERVED" => attempts[a].receipt = rcpt
                   /\ attempts[a].state \in Ledger!TerminalAttemptStates =>
                         /\ rcpt.status \in StatusesBehind(attempts[a].state)
                         /\ reported[attempts[a].request] = rcpt.after
  <2> PICK r \in Requests : a = AttemptOf(r)
    BY Identifiers
  <2>1. Try(r) = attempts[a] /\ Try(r).state # "ABSENT" /\ Try(r).request = r /\ HistoryHeld(r)
    BY <1>2 DEF Try, StageInvariant, HistoryHeld, RowsHeld
  <2>2. Try(r).state \in {"RESERVED", "RECEIPT_RECORDED"} \cup Ledger!TerminalAttemptStates
    <3>1. attempts[a] \in Ledger!AttemptRow
      BY DEF StageInvariant, StageTyped, Ledger!TypeOK
    <3> QED BY <1>2, <2>1, <3>1 DEF Ledger!AttemptRow, Ledger!AttemptStates,
            Ledger!OpenAttemptStates, Ledger!Absent
  <2>3. ASSUME Try(r).receipt # Null
        PROVE  Try(r).receipt \in ReceiptsUnder(a)
    <3>1. PICK i \in DOMAIN receipts :
             receipts[i] = Try(r).receipt /\ receipts[i].command.request = r
      BY <2>1, <2>3 DEF HistoryHeld, EffectHeld
    <3>2. receipts[i].command.token = attempts[a].token
      BY <2>1, <3>1, ReceiptsOfAttempt
    <3> QED BY <3>1, <3>2 DEF ReceiptsUnder
  <2>4. ReceiptsUnder(a) = {} =>
           \/ attempts[a].state = "RESERVED"
           \/ attempts[a].state = "UNKNOWN_EFFECT" /\ attempts[a].receipt = Null
    BY <2>1, <2>2, <2>3 DEF HistoryHeld, EffectHeld
  <2>5. ASSUME NEW rcpt \in ReceiptsUnder(a)
        PROVE  /\ rcpt.attempt = a /\ rcpt.command.request = attempts[a].request
               /\ attempts[a].state # "RESERVED" => attempts[a].receipt = rcpt
               /\ attempts[a].state \in Ledger!TerminalAttemptStates =>
                     /\ rcpt.status \in StatusesBehind(attempts[a].state)
                     /\ reported[attempts[a].request] = rcpt.after
    <3>1. PICK i \in DOMAIN receipts : receipts[i] = rcpt /\ receipts[i].command.request = r
      BY <2>1, NothingUnderKey
    <3>2. rcpt.attempt = a
      BY <3>1 DEF StageInvariant, ReceiptsHeld
    <3>3. ~Undone(r)
      BY <3>1 DEF Undone
    <3>4. Try(r).state # "RESERVED" => Try(r).receipt # Null
      BY <2>1, <2>2, <3>3 DEF HistoryHeld, EffectHeld
    <3>5. Try(r).receipt # Null => Try(r).receipt = rcpt
      <4> SUFFICES ASSUME Try(r).receipt # Null PROVE Try(r).receipt = rcpt
        OBVIOUS
      <4>1. PICK j \in DOMAIN receipts :
               receipts[j] = Try(r).receipt /\ receipts[j].command.request = r
        BY <2>1 DEF HistoryHeld, EffectHeld
      <4> QED BY <3>1, <4>1 DEF StageInvariant, ReceiptsHeld
    <3>6. "RESERVED" \notin Ledger!TerminalAttemptStates
      BY DEF Ledger!TerminalAttemptStates
    <3>7. Try(r).state \in Ledger!TerminalAttemptStates =>
             rcpt.status \in StatusesBehind(Try(r).state) /\ reported[r] = rcpt.after
      BY <2>1, <3>4, <3>5, <3>6 DEF HistoryHeld, EffectHeld
    <3> QED BY <2>1, <3>1, <3>2, <3>4, <3>5, <3>7
  <2> QED BY <2>4, <2>5
<1> QED BY <1>1, <1>2 DEF StoresCorrelated

\* The entry fence never refuses because of an effect the ledger cannot
\* account for, wherever an operation was cut short.
THEOREM StoresTellOneHistory == StageSpec => []StoresAlwaysCorrelated
<1>1. StageInvariant => StoresAlwaysCorrelated
  BY Correlated DEF StoresAlwaysCorrelated
<1> QED BY <1>1, StageInvariantHolds, PTL

-----------------------------------------------------------------------------
(* The durable path implements GatedEffect.                                *)

PhaseOf(state) ==
    CASE state = "ABSENT" -> "NONE"
      [] state \in {"CLAIMED", "AUTHORIZED"} -> "OPEN"
      [] state = "ATTEMPT_RESERVED" -> "SPENT"
      [] OTHER -> "CLOSED"
VerdictOf(disposition) ==
    CASE disposition = "ABSENT" -> "NONE"
      [] disposition = "COMPLETED_VERIFIED" -> "VERIFIED"
      [] disposition \in {"RECOVERY_REQUIRED", "UNKNOWN_EFFECT"} -> "UNSETTLED"
      [] OTHER -> "NO_EFFECT"
GatePhase == [r \in Requests |-> PhaseOf(requests[r].state)]
GateEffect == [r \in Requests |-> EffectsOf(r) # {}]
GateVerdict == [r \in Requests |-> VerdictOf(results[r].disposition)]

\* The three variables GatedEffect sees of the stores.
LEMMA GateVariables ==
  /\ Gate!GateInit <=>
        /\ GatePhase = [r \in Requests |-> "NONE"]
        /\ GateEffect = [r \in Requests |-> FALSE]
        /\ GateVerdict = [r \in Requests |-> "NONE"]
  /\ UNCHANGED <<GatePhase, GateEffect, GateVerdict>> => UNCHANGED Gate!gvars
  BY Zenon DEF Gate!GateInit, Gate!gvars, GatePhase, GateEffect, GateVerdict, PhaseOf, VerdictOf

\* claim_request opens the gate, T1 spends it.
LEMMA GateOpens ==
  ASSUME NEW r \in Requests
  PROVE  /\ /\ \A other \in Requests : GatePhase[other] \in {"NONE", "CLOSED"}
            /\ GatePhase[r] = "NONE"
            /\ GatePhase' = [GatePhase EXCEPT ![r] = "OPEN"]
            /\ UNCHANGED <<GateEffect, GateVerdict>>
            => Gate!Open(r)
         /\ /\ GatePhase[r] = "OPEN"
            /\ GatePhase' = [GatePhase EXCEPT ![r] = "SPENT"]
            /\ UNCHANGED <<GateEffect, GateVerdict>>
            => Gate!Spend(r)
  BY Zenon DEF Gate!Open, Gate!Spend, GatePhase, GateEffect, GateVerdict, PhaseOf, VerdictOf

\* execute_once acts, T3 closes.
LEMMA GateActs ==
  ASSUME NEW r \in Requests
  PROVE  /\ /\ GatePhase[r] = "SPENT" /\ ~GateEffect[r]
            /\ GateEffect' = [GateEffect EXCEPT ![r] = TRUE]
            /\ UNCHANGED <<GatePhase, GateVerdict>>
            => Gate!Act(r)
         /\ \A v : /\ GatePhase[r] = "SPENT" \/ (GatePhase[r] = "OPEN" /\ v = "NO_EFFECT")
                   /\ v = "VERIFIED" => GateEffect[r]
                   /\ v = "NO_EFFECT" => ~GateEffect[r]
                   /\ GatePhase' = [GatePhase EXCEPT ![r] = "CLOSED"]
                   /\ GateVerdict' = [GateVerdict EXCEPT ![r] = v]
                   /\ UNCHANGED GateEffect
                   => Gate!Close(r, v)
  BY Zenon DEF Gate!Act, Gate!Close, Gate!Truthful, GatePhase, GateEffect, GateVerdict, PhaseOf,
     VerdictOf

\* The adapter's receipts are all the gate sees of the world.
LEMMA EffectFrame ==
  ASSUME receipts' = receipts
  PROVE  GateEffect' = GateEffect
  BY DEF GateEffect, EffectsOf

\* A transaction on one request moves its phase.
LEMMA PhaseMoves ==
  ASSUME StageTyped, NEW r \in Requests,
         \A q \in Requests \ {r} : requests'[q] = requests[q]
  PROVE  GatePhase' = [GatePhase EXCEPT ![r] = PhaseOf(requests'[r].state)]
<1>1. \A q \in Requests : PhaseOf(requests'[q].state) =
                             IF q = r THEN PhaseOf(requests'[r].state) ELSE PhaseOf(requests[q].state)
  OBVIOUS
<1> QED BY <1>1 DEF GatePhase

\* Most steps write neither a request's state, its result nor a receipt.
LEMMA GateStutters ==
  ASSUME receipts' = receipts, results' = results,
         \A q \in Requests : PhaseOf(requests'[q].state) = PhaseOf(requests[q].state)
  PROVE  UNCHANGED Gate!gvars
<1>1. GatePhase' = GatePhase
  BY DEF GatePhase
<1>2. GateVerdict' = GateVerdict
  BY DEF GateVerdict
<1> QED BY <1>1, <1>2, EffectFrame, GateVariables

\* Opening and spending.
LEMMA ClaimOpens == ASSUME StageInvariant, Claim \/ Consume PROVE Gate!GateNext
<1> PICK r : r = op.request
  OBVIOUS
<1>0. op # Idle /\ op \in Operations /\ r \in Requests /\ HistoryHeld(r) /\ OperationHeld
      /\ StageTyped
  BY OperationHistory, BusyOperation DEF Claim, Consume, At, Idle, StageInvariant
<1>1. results' = results /\ receipts' = receipts
  BY DEF Claim, Consume, Ledger!ClaimRequest, Ledger!ConsumeOnce, adapterStore
<1>2. GateEffect' = GateEffect /\ GateVerdict' = GateVerdict
  BY <1>1, EffectFrame DEF GateVerdict
<1>3. CASE Claim
  <2>1. requests' = [requests EXCEPT ![r] =
             [state |-> "CLAIMED", sha |-> op.sha, claimed_at |-> op.time, updated_at |-> op.time]]
        /\ requests[r].state = "ABSENT" /\ OpenRequests = {}
    BY <1>0, <1>3 DEF Claim, Ledger!ClaimRequest, Ledger!ClaimReply, Ledger!Absent, At, OperationHeld
  <2>2. requests'[r].state = "CLAIMED" /\ \A q \in Requests \ {r} : requests'[q] = requests[q]
    BY <1>0, <2>1 DEF StageTyped, Ledger!TypeOK
  <2>3. \A q \in Requests : requests[q].state \in {"ABSENT", "TERMINAL"}
    BY <2>1 DEF OpenRequests
  <2>4. /\ \A other \in Requests : GatePhase[other] \in {"NONE", "CLOSED"}
        /\ GatePhase[r] = "NONE"
    BY <1>0, <2>1, <2>3 DEF GatePhase, PhaseOf
  <2>5. PhaseOf("CLAIMED") = "OPEN"
    BY DEF PhaseOf
  <2>6. GatePhase' = [GatePhase EXCEPT ![r] = "OPEN"]
    BY <1>0, <2>2, <2>5, PhaseMoves
  <2>7. Gate!Open(r)
    BY <1>0, <1>2, <2>4, <2>6, GateOpens
  <2> QED BY <1>0, <2>7 DEF Gate!GateNext
<1>4. CASE Consume
  <2>1. requests[r].state = "AUTHORIZED" /\ authorizations[TokenOf(r)].state = "ISSUED"
    BY <1>0, <1>4 DEF Consume, At, OperationHeld, Ledger!ConsumeOnce, Ledger!Spendable
  <2>2. authorizations[TokenOf(r)].request = r /\ r # Null
    BY <1>0, <2>1, Identifiers DEF HistoryHeld, RowsHeld, Auth
  <2>3. requests' = Ledger!RequestMoved(r, "ATTEMPT_RESERVED", clock)
    BY <1>4, <2>2 DEF Consume, Ledger!ConsumeOnce
  <2>4. requests'[r].state = "ATTEMPT_RESERVED" /\ \A q \in Requests \ {r} : requests'[q] = requests[q]
    BY <1>0, <2>3 DEF StageTyped, Ledger!TypeOK, Ledger!RequestMoved, Ledger!RequestRow
  <2>5. GatePhase[r] = "OPEN" /\ PhaseOf("ATTEMPT_RESERVED") = "SPENT"
    BY <1>0, <2>1 DEF GatePhase, PhaseOf
  <2>6. GatePhase' = [GatePhase EXCEPT ![r] = "SPENT"]
    BY <1>0, <2>4, <2>5, PhaseMoves
  <2>7. Gate!Spend(r)
    BY <1>0, <1>2, <2>5, <2>6, GateOpens
  <2> QED BY <1>0, <2>7 DEF Gate!GateNext
<1> QED BY <1>3, <1>4

\* execute_once changes the world for a request that has spent its authority
\* and has not acted, or changes nothing the gate sees.
LEMMA ExecuteActs == ASSUME StageInvariant, Execute PROVE [Gate!GateNext]_Gate!gvars
<1> PICK r : r = op.request
  OBVIOUS
<1> PICK command : command = op.command
  OBVIOUS
<1>0. op # Idle /\ r \in Requests /\ op.at = "RESERVED" /\ OperationHeld
  BY OperationHistory DEF Execute, At, Idle, StageInvariant
<1>1. Undone(r) /\ requests[r].state = "ATTEMPT_RESERVED" /\ command.request = r
  BY <1>0 DEF OperationHeld, Commanded
<1>2. Adapter!ReceiptsFor(command) = {}
  BY <1>1 DEF Adapter!ReceiptsFor, Undone
<1> PICK new : new = Adapter!ReceiptFor(command, AttemptOf(r), AttemptedAt(r))
  OBVIOUS
<1>3. new.command.request = r
  BY <1>1 DEF Adapter!ReceiptFor
<1>4. receipts' = Append(receipts, new) /\ requests' = requests /\ results' = results
  BY <1>2 DEF Execute, Adapter!ExecuteOnce, ledgerStore
<1>5. /\ DOMAIN receipts' = 1..(Len(receipts) + 1)
      /\ Len(receipts) \in Nat /\ DOMAIN receipts = 1..Len(receipts)
      /\ \A i \in DOMAIN receipts : receipts'[i] = receipts[i]
      /\ receipts'[Len(receipts) + 1] = new
  BY <1>4, AppendProperties DEF StageInvariant, StageTyped
<1>6. GatePhase' = GatePhase /\ GateVerdict' = GateVerdict
  BY <1>4 DEF GatePhase, GateVerdict
<1>7. EffectsOf(r) = {}
  BY <1>1 DEF EffectsOf, Undone
<1>8. \A q \in Requests \ {r} : EffectsOf(q)' = EffectsOf(q)
  BY <1>3, <1>5 DEF EffectsOf
<1>9. CASE new.status = "NO_EFFECT"
  <2>1. EffectsOf(r)' = EffectsOf(r)
    BY <1>5, <1>7, <1>9, <1>1 DEF EffectsOf, Undone
  <2>2. \A q \in Requests : EffectsOf(q)' = EffectsOf(q)
    BY <1>8, <2>1
  <2>3. GateEffect' = GateEffect
    BY <2>2 DEF GateEffect
  <2> QED BY <1>6, <2>3, GateVariables
<1>10. CASE new.status # "NO_EFFECT"
  <2>1. EffectsOf(r)' # {}
    BY <1>3, <1>5, <1>10 DEF EffectsOf
  <2>2. \A q \in Requests : (EffectsOf(q)' # {}) = (IF q = r THEN TRUE ELSE EffectsOf(q) # {})
    BY <1>8, <2>1
  <2>3. GateEffect' = [GateEffect EXCEPT ![r] = TRUE]
    BY <2>2, Zenon DEF GateEffect
  <2>4. GatePhase[r] = "SPENT"
    BY <1>0, <1>1 DEF GatePhase, PhaseOf
  <2>5. ~GateEffect[r]
    BY <1>0, <1>7, Zenon DEF GateEffect
  <2>6. Gate!Act(r)
    BY <1>0, <1>6, <2>3, <2>4, <2>5, GateActs
  <2> QED BY <1>0, <2>6 DEF Gate!GateNext
<1> QED BY <1>9, <1>10

\* T3 closes with a verdict that is true, because the results stay honest.
LEMMA CompleteCloses ==
  ASSUME StageInvariant, StageInvariant', NEW r \in Requests, NEW sha, NEW result \in Results,
         result.disposition \in Ledger!Dispositions,
         Ledger!CompleteRequest(r, sha, result), receipts' = receipts
  PROVE  Gate!GateNext
<1> PICK v : v = VerdictOf(result.disposition)
  OBVIOUS
<1>1. /\ Ledger!ResultWellFormed(result)
      /\ IF result.attempt = Null THEN Ledger!NoEffectMayClose(r, result)
                                  ELSE Ledger!AttemptMayClose(r, result)
      /\ results' = [results EXCEPT ![r] = result]
      /\ requests' = Ledger!RequestMoved(r, "TERMINAL", result.terminal_at)
  BY DEF Ledger!CompleteRequest
<1>2. requests'[r].state = "TERMINAL" /\ \A q \in Requests \ {r} : requests'[q] = requests[q]
  BY <1>1 DEF StageInvariant, StageTyped, Ledger!TypeOK, Ledger!RequestMoved, Ledger!RequestRow
<1>3. results'[r] = result /\ \A q \in Requests \ {r} : results'[q] = results[q]
  BY <1>1 DEF StageInvariant, StageTyped, Ledger!TypeOK
<1>4. PhaseOf("TERMINAL") = "CLOSED"
  BY DEF PhaseOf
<1>5. GatePhase' = [GatePhase EXCEPT ![r] = "CLOSED"]
  BY <1>2, <1>4, PhaseMoves DEF StageInvariant
<1>6. GateVerdict' = [GateVerdict EXCEPT ![r] = v]
  <2>1. \A q \in Requests : VerdictOf(results'[q].disposition) =
                               IF q = r THEN v ELSE VerdictOf(results[q].disposition)
    BY <1>3
  <2> QED BY <2>1 DEF GateVerdict
<1>7. GatePhase[r] = "SPENT" \/ (GatePhase[r] = "OPEN" /\ v = "NO_EFFECT")
  <2>1. CASE result.attempt = Null
    <3>1. requests[r].state \in {"CLAIMED", "AUTHORIZED"}
          /\ result.disposition \in {"DENIED_NO_EFFECT", "ABORTED_NO_EFFECT"}
      BY <1>1, <2>1 DEF Ledger!NoEffectMayClose, Ledger!ResultWellFormed,
         Ledger!UnattemptedDispositions
    <3> QED BY <3>1 DEF GatePhase, PhaseOf, VerdictOf
  <2>2. CASE result.attempt # Null
    <3>1. requests[r].state = "ATTEMPT_RESERVED"
      BY <1>1, <2>2 DEF Ledger!AttemptMayClose
    <3> QED BY <3>1 DEF GatePhase, PhaseOf
  <2> QED BY <2>1, <2>2
<1>8. EffectsOf(r)' = EffectsOf(r)
  BY DEF EffectsOf
<1>9. VerdictsAreHonest'
  BY HonestNext
<1>10. /\ result.disposition = "COMPLETED_VERIFIED" => EffectsOf(r)' # {}
       /\ result.disposition \in {"DENIED_NO_EFFECT", "ABORTED_NO_EFFECT", "FAILED_NO_EFFECT"}
             => EffectsOf(r)' = {}
  BY <1>3, <1>9 DEF VerdictsAreHonest
<1>11. v \in {"VERIFIED", "NO_EFFECT", "UNSETTLED"}
       /\ (v = "VERIFIED" => result.disposition = "COMPLETED_VERIFIED")
       /\ (v = "NO_EFFECT" => result.disposition
              \in {"DENIED_NO_EFFECT", "ABORTED_NO_EFFECT", "FAILED_NO_EFFECT"})
  BY DEF VerdictOf, Ledger!Dispositions, Ledger!AttemptedDispositions,
     Ledger!UnattemptedDispositions
<1>12. (v = "VERIFIED" => GateEffect[r]) /\ (v = "NO_EFFECT" => ~GateEffect[r])
  <2>1. GateEffect[r] <=> EffectsOf(r) # {}
    BY Zenon DEF GateEffect
  <2> QED BY <1>8, <1>10, <1>11, <2>1
<1>13. Gate!Close(r, v)
  BY <1>5, <1>6, <1>7, <1>12, EffectFrame, GateActs
<1> QED BY <1>11, <1>13 DEF Gate!GateNext

\* Every step of the durable path is a step of the gate or one it does not see.
LEMMA NextGated ==
  StageInvariant /\ StageInvariant' /\ TailOwned /\ [StageNext]_svars
    => [Gate!GateNext]_Gate!gvars
<1> SUFFICES ASSUME StageInvariant, StageInvariant', TailOwned, [StageNext]_svars
             PROVE  [Gate!GateNext]_Gate!gvars
  OBVIOUS
<1>1. CASE Submitting
  <2> PICK r \in Requests, sha \in Digests : Submit(r, sha)
    BY <1>1 DEF Submitting
  <2>1. requests' = requests /\ results' = results /\ receipts' = receipts
    BY DEF Submit, ledgerStore, adapterStore
  <2> QED BY <2>1, GateStutters
<1>2. CASE Reconciling
  <2> PICK r \in Requests, sha \in Digests : StartReconcile(r, sha)
    BY <1>2 DEF Reconciling
  <2>1. requests' = requests /\ results' = results /\ receipts' = receipts
    BY DEF StartReconcile, ledgerStore, adapterStore
  <2> QED BY <2>1, GateStutters
<1>3. CASE Reject \/ Validate \/ RefuseBeforeClaim \/ ClaimRefused \/ Deny \/ BrokerRejects
           \/ BrokerFails \/ Verify \/ LeaveOpen \/ AppendRecoveryRecord \/ Interrupt
  <2>1. UNCHANGED <<ledgerStore, adapterStore>>
    <3>1. CASE Reject \/ Validate \/ RefuseBeforeClaim \/ ClaimRefused
      BY <3>1, Zenon DEF Reject, Validate, RefuseBeforeClaim, ClaimRefused
    <3>2. CASE Deny \/ BrokerRejects \/ BrokerFails \/ Verify
      BY <3>2, Zenon DEF Deny, BrokerRejects, BrokerFails, Verify
    <3>3. CASE LeaveOpen \/ AppendRecoveryRecord \/ Interrupt
      BY <3>3, Zenon DEF LeaveOpen, AppendRecoveryRecord, Interrupt
    <3> QED BY <1>3, <3>1, <3>2, <3>3
  <2> QED BY <2>1, GateStutters DEF ledgerStore, adapterStore
<1>4. CASE ClockMoves \/ UNCHANGED svars
  <2>1. requests' = requests /\ results' = results /\ receipts' = receipts
    BY <1>4 DEF ClockMoves, Ledger!ClockMoves, Ledger!tables, svars, ledgerStore, adapterStore
  <2> QED BY <2>1, GateStutters
<1>5. CASE RecordReceipt \/ RecoverReceipt \/ RevokeAuthority
  <2>1. requests' = requests /\ results' = results /\ receipts' = receipts
    <3>1. CASE RecordReceipt
      BY <3>1 DEF RecordReceipt, Ledger!RecordAdapterReceipt, adapterStore
    <3>2. CASE RecoverReceipt
      BY <3>2 DEF RecoverReceipt, Ledger!RecordAdapterReceipt, adapterStore
    <3>3. CASE RevokeAuthority
      BY <3>3 DEF RevokeAuthority, Ledger!RevokeIssuedForRequest, adapterStore
    <3> QED BY <1>5, <3>1, <3>2, <3>3
  <2> QED BY <2>1, GateStutters
<1>6. CASE Authorize
  <2> PICK r : r = op.request
    OBVIOUS
  <2>1. r \in Requests /\ r # Null
    BY <1>6, OperationHistory, Identifiers DEF Authorize, At, Idle
  <2>2. /\ requests[r].state = "CLAIMED" /\ requests' = Ledger!RequestMoved(r, "AUTHORIZED", clock)
        /\ results' = results /\ receipts' = receipts
    BY <1>6, <2>1 DEF Authorize, Ledger!Register, adapterStore
  <2>3. requests'[r].state = "AUTHORIZED" /\ \A q \in Requests \ {r} : requests'[q] = requests[q]
    BY <2>1, <2>2 DEF StageInvariant, StageTyped, Ledger!TypeOK, Ledger!RequestMoved,
       Ledger!RequestRow
  <2>4. \A q \in Requests : PhaseOf(requests'[q].state) = PhaseOf(requests[q].state)
    BY <2>2, <2>3 DEF PhaseOf
  <2> QED BY <2>2, <2>4, GateStutters
<1>7. CASE CommitDenial
  <2> PICK r : r = op.request
    OBVIOUS
  <2>1. op # Idle
    BY <1>7 DEF CommitDenial, At, Idle
  <2>2. r \in Requests /\ DecisionOf(r) \in StageDecisions /\ clock \in Ledger!Times
    BY <2>1, OperationHistory, OperationFields, Identifiers DEF StageInvariant
  <2> PICK denied : denied = Result("DENIED_NO_EFFECT", DecisionOf(r), Null, Null, clock)
    OBVIOUS
  <2>3. denied \in Results /\ denied.disposition \in Ledger!Dispositions
    BY <2>2 DEF Results, Result, Ledger!ResultRow, Ledger!Dispositions,
       Ledger!UnattemptedDispositions
  <2>4. Ledger!CompleteRequest(r, op.sha, denied) /\ receipts' = receipts
    BY <1>7 DEF CommitDenial, adapterStore
  <2> QED BY <2>2, <2>3, <2>4, CompleteCloses
<1>8. CASE CommitOutcome
  <2> PICK r : r = op.request
    OBVIOUS
  <2>1. op # Idle /\ r \in Requests
    BY <1>8, OperationHistory DEF CommitOutcome, At, Idle
  <2>2. PICK rcpt \in ReceiptsUnder(AttemptOf(r)) :
          Ledger!CompleteRequest(r, op.sha,
              Result(DispositionOf(rcpt), DecisionOf(r), AttemptOf(r), rcpt, clock))
    BY <1>8 DEF CommitOutcome
  <2> PICK outcome :
        outcome = Result(DispositionOf(rcpt), DecisionOf(r), AttemptOf(r), rcpt, clock)
    OBVIOUS
  <2>3. outcome \in Results /\ outcome.disposition \in Ledger!Dispositions
    BY <2>1, ReceiptsUnderTyped, OutcomeTyped DEF Result, StageInvariant
  <2>4. receipts' = receipts
    BY <1>8 DEF CommitOutcome, adapterStore
  <2> QED BY <2>1, <2>2, <2>3, <2>4, CompleteCloses
<1>9. CASE CommitRecovery
  <2> PICK r : r = op.request
    OBVIOUS
  <2> PICK result : result = RecoveryResult(r)
    OBVIOUS
  <2>1. op # Idle /\ r \in Requests
    BY <1>9, OperationHistory DEF CommitRecovery, At, Idle
  <2>2. result \in Results /\ result.disposition \in Ledger!Dispositions
    BY <2>1, RecoveryTyped DEF StageInvariant
  <2>3. Ledger!CompleteRequest(r, op.sha, result) /\ receipts' = receipts
    BY <1>9 DEF CommitRecovery, adapterStore
  <2> QED BY <2>1, <2>2, <2>3, CompleteCloses
<1>10. CASE Claim \/ Consume
  BY <1>10, ClaimOpens
<1>11. CASE Execute
  BY <1>11, ExecuteActs
<1> QED BY <1>1, <1>2, <1>3, <1>4, <1>5, <1>6, <1>7, <1>8, <1>9, <1>10, <1>11
        DEF StageNext, Process, Recover

\* The empty stores are the closed gate.
LEMMA InitGated == StageInit => Gate!GateInit
<1> SUFFICES ASSUME StageInit PROVE Gate!GateInit
  OBVIOUS
<1>1. /\ \A r \in Requests : requests[r].state = "ABSENT" /\ results[r].disposition = "ABSENT"
      /\ receipts = <<>>
  BY DEF StageInit, Ledger!Init, Ledger!NoRequest, Ledger!NoResult, Ledger!Absent,
     Adapter!AdapterInit
<1>2. GatePhase = [r \in Requests |-> "NONE"] /\ GateVerdict = [r \in Requests |-> "NONE"]
  BY <1>1 DEF GatePhase, GateVerdict, PhaseOf, VerdictOf
<1>3. \A r \in Requests : (EffectsOf(r) # {}) = FALSE
  BY <1>1 DEF EffectsOf
<1>4. GateEffect = [r \in Requests |-> FALSE]
  BY <1>3, Zenon DEF GateEffect
<1> QED BY <1>2, <1>4, GateVariables

\* The whole path, its interruptions and its recoveries included, opens,
\* spends, acts and closes each request as GatedEffect says.
THEOREM PathImplementsGate == StageSpec => ImplementsGatedEffect
<1>1. /\ (StageInvariant /\ TailOwned) /\ (StageInvariant /\ TailOwned)' /\ [StageNext]_svars
      => [Gate!GateNext]_Gate!gvars
  BY NextGated
<1> QED BY <1>1, InitGated, StageInvariantHolds, PTL
        DEF StageSpec, ImplementsGatedEffect, Gate!GateSpec

-----------------------------------------------------------------------------
(* What _validate_control_relations will accept.  A log is a sequence of   *)
(* events; the lemmas about it speak of any sequence.                      *)

Places(log, type, subject) ==
    {i \in DOMAIN log : log[i].type = type /\ log[i].subject = subject}
Missing(log, type, subject) == Places(log, type, subject) = {}
Present(log, type, subject, event) ==
    \E i \in DOMAIN log : Places(log, type, subject) = {i} /\ log[i] = event
Before(log, type1, subject1, type2, subject2) ==
    \A i \in Places(log, type1, subject1), j \in Places(log, type2, subject2) : i < j

\* A receipt is on record since t at the latest.
SeenBy(log, a, t) == \A i \in Places(log, "ADAPTER_RECEIPT_RECORDED", a) : log[i].at <= t

\* The events of a request and of the authorization k and the attempt a it may
\* have: each transition its rows account for has one row, the others none.
RequestLogged(log, r, req, res) ==
    /\ IF req.state = "ABSENT" THEN Missing(log, "REQUEST_CLAIMED", r)
       ELSE Present(log, "REQUEST_CLAIMED", r,
                    Ledger!Event("REQUEST_CLAIMED", r, <<req.sha>>, req.claimed_at))
    /\ IF res.disposition = "ABSENT" THEN Missing(log, "REQUEST_TERMINAL", r)
       ELSE Present(log, "REQUEST_TERMINAL", r,
                    Ledger!Event("REQUEST_TERMINAL", r, <<res>>, res.terminal_at))
AuthorizationLogged(log, k, a, auth) ==
    /\ IF auth.state = "ABSENT" THEN Missing(log, "AUTHORIZATION_ISSUED", k)
       ELSE Present(log, "AUTHORIZATION_ISSUED", k,
                    Ledger!Event("AUTHORIZATION_ISSUED", k, <<auth.decision>>, auth.issued_at))
    /\ IF auth.state # "CONSUMED" THEN Missing(log, "AUTHORIZATION_CONSUMED", k)
       ELSE Present(log, "AUTHORIZATION_CONSUMED", k,
                    Ledger!Event("AUTHORIZATION_CONSUMED", k, <<{a}>>, auth.closed_at))
    /\ IF auth.state # "REVOKED" THEN Missing(log, "AUTHORIZATION_REVOKED", k)
       ELSE Present(log, "AUTHORIZATION_REVOKED", k, Ledger!Revocation(k, auth.closed_at))
AttemptLogged(log, a, try) ==
    /\ IF try.state = "ABSENT" THEN Missing(log, "ATTEMPT_RESERVED", a)
       ELSE Present(log, "ATTEMPT_RESERVED", a,
                    Ledger!Event("ATTEMPT_RESERVED", a, <<try.token>>, try.reserved_at))
    /\ IF try.receipt = Null THEN Missing(log, "ADAPTER_RECEIPT_RECORDED", a)
       ELSE \E t \in Ledger!Times :
               /\ try.reserved_at <= t
               /\ Present(log, "ADAPTER_RECEIPT_RECORDED", a,
                          Ledger!Event("ADAPTER_RECEIPT_RECORDED", a, <<try.receipt>>, t))
    /\ IF try.state \notin Ledger!TerminalAttemptStates
       THEN Missing(log, "ATTEMPT_TERMINAL", a)
       ELSE /\ Present(log, "ATTEMPT_TERMINAL", a,
                       Ledger!Event("ATTEMPT_TERMINAL", a, <<try.state, try.receipt>>,
                                    try.completed_at))
            /\ SeenBy(log, a, try.completed_at)
    /\ Missing(log, "ATTEMPT_RECOVERED_UNKNOWN", a)
\* They come in the order of the lifecycle.
InOrder(log, r, k, a) ==
    /\ Before(log, "REQUEST_CLAIMED", r, "REQUEST_TERMINAL", r)
    /\ Before(log, "ATTEMPT_TERMINAL", a, "REQUEST_TERMINAL", r)
    /\ Before(log, "REQUEST_CLAIMED", r, "AUTHORIZATION_ISSUED", k)
    /\ Before(log, "AUTHORIZATION_ISSUED", k, "AUTHORIZATION_CONSUMED", k)
    /\ Before(log, "AUTHORIZATION_ISSUED", k, "AUTHORIZATION_REVOKED", k)
    /\ Before(log, "ATTEMPT_RESERVED", a, "AUTHORIZATION_CONSUMED", k)
    /\ Before(log, "ATTEMPT_RESERVED", a, "ADAPTER_RECEIPT_RECORDED", a)
    /\ Before(log, "ATTEMPT_RESERVED", a, "ATTEMPT_TERMINAL", a)
    /\ Before(log, "ADAPTER_RECEIPT_RECORDED", a, "ATTEMPT_TERMINAL", a)
Logged(log, r, k, a, req, auth, try, res) ==
    /\ RequestLogged(log, r, req, res)
    /\ AuthorizationLogged(log, k, a, auth)
    /\ AttemptLogged(log, a, try)
    /\ InOrder(log, r, k, a)
EventsHeld(r) ==
    Logged(outbox, r, TokenOf(r), AttemptOf(r), requests[r], Auth(r), Try(r), results[r])

\* What the rows of a request say of each other, beyond RowsHeld.
Coherent(req, auth, try) ==
    /\ req.state \in {"ABSENT", "CLAIMED"} => auth.state = "ABSENT"
    /\ req.state = "AUTHORIZED" => auth.state \in {"ISSUED", "REVOKED"}
    /\ req.state = "TERMINAL" /\ try.state = "ABSENT" => auth.state \in {"ABSENT", "REVOKED"}
    /\ auth.state = "CONSUMED" <=> try.state # "ABSENT"
    /\ try.state = "ABSENT" => try.token = Null
Dated(req, auth, try, res) ==
    /\ req.claimed_at <= req.updated_at
    /\ auth.state # "ABSENT" => req.claimed_at <= auth.issued_at
    /\ auth.state \in {"CONSUMED", "REVOKED"} => auth.issued_at <= auth.closed_at
    /\ try.state # "ABSENT" => auth.closed_at = try.reserved_at
    /\ try.state \in Ledger!TerminalAttemptStates => try.reserved_at <= try.completed_at
    /\ req.state = "AUTHORIZED" => req.updated_at = auth.issued_at
    /\ req.state = "ATTEMPT_RESERVED" => req.updated_at = try.reserved_at
    /\ req.state = "TERMINAL" => req.updated_at = res.terminal_at
Repeated(a, auth, try, res) ==
    res.disposition # "ABSENT" =>
        IF try.state = "ABSENT"
        THEN /\ res.attempt = Null /\ res.disposition \in Ledger!UnattemptedDispositions
             /\ auth.state # "ABSENT" =>
                   /\ res.disposition = "ABORTED_NO_EFFECT"
                   /\ auth.closed_at <= res.terminal_at
        ELSE /\ res.attempt = a /\ res.disposition \in Ledger!AttemptedDispositions
             /\ try.state = Ledger!AttemptStateFor(res.disposition)
             /\ try.receipt = res.receipt /\ try.completed_at = res.terminal_at
             /\ auth.decision = res.decision
RecordsHeld(r) ==
    /\ Coherent(requests[r], Auth(r), Try(r))
    /\ Dated(requests[r], Auth(r), Try(r), results[r])
    /\ Repeated(AttemptOf(r), Auth(r), Try(r), results[r])

\* A receipt has been recorded by now, by the time a recovery goes by, and by the
\* time a pending recovery froze; a reconciliation goes by the frozen time.
Frozen(l) == audit[l].result.terminal_at
PresentTimely ==
    \A r \in Requests : SeenBy(outbox, AttemptOf(r), clock) /\ Try(r).reserved_at <= clock
RecoveryTimely ==
    op.at = "RECOVERING" =>
        /\ op.time <= clock /\ SeenBy(outbox, AttemptOf(op.request), op.time)
        /\ \A l \in PendingRecoveries : Frozen(l) = op.time
PendingTimely ==
    \A l \in PendingRecoveries :
        /\ Frozen(l) <= clock
        /\ SeenBy(outbox, AttemptOf(audit[l].request), Frozen(l))
ReceiptsTimely == PresentTimely /\ RecoveryTimely /\ PendingTimely

IsLog(log) == \E S : log \in Seq(S)

Accepted == IsLog(outbox) /\ \A r \in Requests : RecordsHeld(r) /\ EventsHeld(r)
AcceptedInvariant == Accepted /\ ReceiptsTimely

\* Appending an event leaves the earlier ones where they are ...
LEMMA LogGrows ==
  ASSUME NEW log, IsLog(log), NEW e
  PROVE  /\ IsLog(Append(log, e)) /\ Len(log) \in Nat
         /\ DOMAIN log = 1..Len(log) /\ DOMAIN Append(log, e) = 1..(Len(log) + 1)
         /\ \A i \in 1..Len(log) : Append(log, e)[i] = log[i]
         /\ Append(log, e)[Len(log) + 1] = e
         /\ Append(log, e) = log \o <<e>>
<1> PICK S : log \in Seq(S)
  BY DEF IsLog
<1> PICK T : T = S \cup {e}
  OBVIOUS
<1>1. log \in Seq(T) /\ e \in T
  BY SeqMonotonic
<1>2. Append(log, e) \in Seq(T) /\ Len(Append(log, e)) = Len(log) + 1
  BY <1>1, AppendProperties
<1>3. Append(log, e) = log \o <<e>>
  BY <1>1, AppendIsConcat
<1> QED BY <1>1, <1>2, <1>3, AppendProperties, LenProperties DEF IsLog

Own(log, e, type, subject) ==
    IF e.type = type /\ e.subject = subject THEN {Len(log) + 1} ELSE {}
\* ... and puts its own place under its own key only.
LEMMA PlacesGrow ==
  ASSUME NEW log, IsLog(log), NEW e, NEW type, NEW subject
  PROVE  /\ Places(log, type, subject) \subseteq 1..Len(log)
         /\ Places(Append(log, e), type, subject) =
               Places(log, type, subject) \cup Own(log, e, type, subject)
<1>1. /\ Len(log) \in Nat /\ DOMAIN log = 1..Len(log)
      /\ DOMAIN Append(log, e) = 1..(Len(log) + 1)
      /\ \A i \in 1..Len(log) : Append(log, e)[i] = log[i]
      /\ Append(log, e)[Len(log) + 1] = e
  BY LogGrows
<1> QED BY <1>1 DEF Places, Own

\* A transition that was on record before, or was not, still is.
LEMMA RecordKept ==
  ASSUME NEW log, IsLog(log), NEW e, NEW type, NEW subject,
         ~(e.type = type /\ e.subject = subject)
  PROVE  /\ Missing(log, type, subject) => Missing(Append(log, e), type, subject)
         /\ \A event : Present(log, type, subject, event)
               => Present(Append(log, e), type, subject, event)
<1>1. Places(Append(log, e), type, subject) =
         Places(log, type, subject) \cup Own(log, e, type, subject)
  BY PlacesGrow, Zenon
<1>2. Places(Append(log, e), type, subject) = Places(log, type, subject)
  BY <1>1 DEF Own
<1>3. /\ Len(log) \in Nat /\ DOMAIN log = 1..Len(log)
      /\ DOMAIN Append(log, e) = 1..(Len(log) + 1)
      /\ \A i \in 1..Len(log) : Append(log, e)[i] = log[i]
  BY LogGrows, ZenonT(60)
<1> QED BY <1>2, <1>3 DEF Missing, Present

\* The first event of its key is the one on record.
LEMMA RecordNew ==
  ASSUME NEW log, IsLog(log), NEW e, Missing(log, e.type, e.subject)
  PROVE  Present(Append(log, e), e.type, e.subject, e)
<1>1. Places(Append(log, e), e.type, e.subject) =
         Places(log, e.type, e.subject) \cup Own(log, e, e.type, e.subject)
  BY PlacesGrow, Zenon
<1>2. Len(log) \in Nat /\ DOMAIN Append(log, e) = 1..(Len(log) + 1)
      /\ Append(log, e)[Len(log) + 1] = e
  BY LogGrows, Zenon
<1> QED BY <1>1, <1>2 DEF Present, Missing, Own

\* An event comes after all that are there.
LEMMA OrderKept ==
  ASSUME NEW log, IsLog(log), NEW e, NEW type1, NEW subject1, NEW type2, NEW subject2,
         Before(log, type1, subject1, type2, subject2),
         ~(e.type = type1 /\ e.subject = subject1)
  PROVE  Before(Append(log, e), type1, subject1, type2, subject2)
<1>1. /\ Places(log, type1, subject1) \subseteq 1..Len(log)
      /\ Places(Append(log, e), type1, subject1) =
            Places(log, type1, subject1) \cup Own(log, e, type1, subject1)
  BY PlacesGrow, Zenon
<1>2. Places(Append(log, e), type2, subject2) =
         Places(log, type2, subject2) \cup Own(log, e, type2, subject2)
  BY PlacesGrow, Zenon
<1>3. Len(log) \in Nat
  BY LogGrows, Zenon
<1> QED BY <1>1, <1>2, <1>3 DEF Before, Own

\* What has no event comes after everything.
LEMMA OrderOpen ==
  ASSUME NEW log, NEW type1, NEW subject1, NEW type2, NEW subject2,
         Missing(log, type2, subject2)
  PROVE  Before(log, type1, subject1, type2, subject2)
  BY DEF Before, Missing

\* A receipt on record by some time is on record by any later one.
LEMMA SeenGrows ==
  ASSUME NEW log, IsLog(log), NEW e, NEW a, NEW t,
         SeenBy(log, a, t),
         e.type = "ADAPTER_RECEIPT_RECORDED" /\ e.subject = a => e.at <= t
  PROVE  SeenBy(Append(log, e), a, t)
<1>1. /\ Places(log, "ADAPTER_RECEIPT_RECORDED", a) \subseteq 1..Len(log)
      /\ Places(Append(log, e), "ADAPTER_RECEIPT_RECORDED", a) =
            Places(log, "ADAPTER_RECEIPT_RECORDED", a) \cup Own(log, e, "ADAPTER_RECEIPT_RECORDED", a)
  BY PlacesGrow, Zenon
<1>2. ASSUME NEW i \in Places(Append(log, e), "ADAPTER_RECEIPT_RECORDED", a)
      PROVE  Append(log, e)[i].at <= t
  <2>1. CASE i \in Places(log, "ADAPTER_RECEIPT_RECORDED", a)
    BY <1>1, <2>1, LogGrows DEF SeenBy
  <2>2. CASE i = Len(log) + 1
    BY <1>2, <2>2, LogGrows DEF Places
  <2> QED BY <1>1, <2>1, <2>2 DEF Own
<1> QED BY <1>2 DEF SeenBy

RequestEvents == {"REQUEST_CLAIMED", "REQUEST_TERMINAL"}
AuthorizationEvents ==
    {"AUTHORIZATION_ISSUED", "AUTHORIZATION_CONSUMED", "AUTHORIZATION_REVOKED"}
AttemptEvents ==
    {"ATTEMPT_RESERVED", "ADAPTER_RECEIPT_RECORDED", "ATTEMPT_TERMINAL",
     "ATTEMPT_RECOVERED_UNKNOWN"}
\* An event that is none of a request's, its authorization's or its attempt's.
Foreign(e, r, k, a) ==
    /\ e.type \in RequestEvents => e.subject # r
    /\ e.type \in AuthorizationEvents => e.subject # k
    /\ e.type \in AttemptEvents => e.subject # a

\* The rows of a request are accounted for whatever is appended about others ...
LEMMA RequestKept ==
  ASSUME NEW log, IsLog(log), NEW e, NEW r, NEW req, NEW res,
         RequestLogged(log, r, req, res), e.type \in RequestEvents => e.subject # r
  PROVE  RequestLogged(Append(log, e), r, req, res)
<1>1. ASSUME NEW type \in RequestEvents
      PROVE  /\ Missing(log, type, r) => Missing(Append(log, e), type, r)
             /\ \A event : Present(log, type, r, event) => Present(Append(log, e), type, r, event)
  BY RecordKept, Zenon
<1> QED BY <1>1 DEF RequestLogged, RequestEvents

\* ... so is an authorization ...
LEMMA AuthorizationKept ==
  ASSUME NEW log, IsLog(log), NEW e, NEW k, NEW a, NEW auth,
         AuthorizationLogged(log, k, a, auth), e.type \in AuthorizationEvents => e.subject # k
  PROVE  AuthorizationLogged(Append(log, e), k, a, auth)
<1>1. ASSUME NEW type \in AuthorizationEvents
      PROVE  /\ Missing(log, type, k) => Missing(Append(log, e), type, k)
             /\ \A event : Present(log, type, k, event) => Present(Append(log, e), type, k, event)
  BY RecordKept, Zenon
<1> QED BY <1>1 DEF AuthorizationLogged, AuthorizationEvents

\* ... and an attempt.
LEMMA AttemptKept ==
  ASSUME NEW log, IsLog(log), NEW e, NEW a, NEW try,
         AttemptLogged(log, a, try), e.type \in AttemptEvents => e.subject # a
  PROVE  AttemptLogged(Append(log, e), a, try)
<1>1. ASSUME NEW type \in AttemptEvents
      PROVE  /\ Missing(log, type, a) => Missing(Append(log, e), type, a)
             /\ \A event : Present(log, type, a, event) => Present(Append(log, e), type, a, event)
  BY RecordKept, Zenon
<1>2. SeenBy(log, a, try.completed_at) => SeenBy(Append(log, e), a, try.completed_at)
  <2>1. ~(e.type = "ADAPTER_RECEIPT_RECORDED" /\ e.subject = a)
    BY DEF AttemptEvents
  <2> QED BY <2>1, SeenGrows, Zenon
<1> QED BY <1>1, <1>2 DEF AttemptLogged, AttemptEvents

\* The whole account of a request survives what is recorded for another.
LEMMA LoggedKept ==
  ASSUME NEW log, IsLog(log), NEW e, NEW r, NEW k, NEW a, NEW req, NEW auth, NEW try, NEW res,
         Logged(log, r, k, a, req, auth, try, res), Foreign(e, r, k, a)
  PROVE  Logged(Append(log, e), r, k, a, req, auth, try, res)
<1>1. RequestLogged(Append(log, e), r, req, res)
  BY RequestKept, Zenon DEF Logged, Foreign
<1>2. AuthorizationLogged(Append(log, e), k, a, auth)
  BY AuthorizationKept, Zenon DEF Logged, Foreign
<1>3. AttemptLogged(Append(log, e), a, try)
  BY AttemptKept, Zenon DEF Logged, Foreign
<1>4. InOrder(Append(log, e), r, k, a)
  <2>1. /\ ~(e.type = "REQUEST_CLAIMED" /\ e.subject = r)
        /\ ~(e.type = "AUTHORIZATION_ISSUED" /\ e.subject = k)
        /\ ~(e.type = "ATTEMPT_RESERVED" /\ e.subject = a)
        /\ ~(e.type = "ADAPTER_RECEIPT_RECORDED" /\ e.subject = a)
        /\ ~(e.type = "ATTEMPT_TERMINAL" /\ e.subject = a)
    BY DEF Foreign, RequestEvents, AuthorizationEvents, AttemptEvents
  <2> QED BY <2>1, OrderKept, Zenon DEF Logged, InOrder
<1> QED BY <1>1, <1>2, <1>3, <1>4 DEF Logged

\* Two events of different types stay in order if what should come later is not
\* there yet when the earlier is recorded.
LEMMA OrderGrows ==
  ASSUME NEW log, IsLog(log), NEW e, NEW type1, NEW subject1, NEW type2, NEW subject2,
         type1 # type2, Before(log, type1, subject1, type2, subject2),
         e.type = type1 /\ e.subject = subject1 => Missing(log, type2, subject2)
  PROVE  Before(Append(log, e), type1, subject1, type2, subject2)
<1>1. CASE ~(e.type = type1 /\ e.subject = subject1)
  BY <1>1, OrderKept, Zenon
<1>2. CASE e.type = type1 /\ e.subject = subject1
  <2>1. ~(e.type = type2 /\ e.subject = subject2)
    BY <1>2
  <2>2. Missing(Append(log, e), type2, subject2)
    BY <1>2, <2>1, RecordKept, Zenon
  <2> QED BY <2>2, OrderOpen, Zenon
<1> QED BY <1>1, <1>2

\* The lifecycle's order, event by event.
LEMMA LifecycleOrder ==
  ASSUME NEW log, IsLog(log), NEW e, NEW r, NEW k, NEW a, InOrder(log, r, k, a),
         e.type = "REQUEST_CLAIMED" /\ e.subject = r =>
             Missing(log, "REQUEST_TERMINAL", r) /\ Missing(log, "AUTHORIZATION_ISSUED", k),
         e.type = "AUTHORIZATION_ISSUED" /\ e.subject = k =>
             /\ Missing(log, "AUTHORIZATION_CONSUMED", k)
             /\ Missing(log, "AUTHORIZATION_REVOKED", k),
         e.type = "ATTEMPT_RESERVED" /\ e.subject = a =>
             /\ Missing(log, "AUTHORIZATION_CONSUMED", k)
             /\ Missing(log, "ADAPTER_RECEIPT_RECORDED", a)
             /\ Missing(log, "ATTEMPT_TERMINAL", a),
         e.type = "ADAPTER_RECEIPT_RECORDED" /\ e.subject = a =>
             Missing(log, "ATTEMPT_TERMINAL", a),
         e.type = "ATTEMPT_TERMINAL" /\ e.subject = a => Missing(log, "REQUEST_TERMINAL", r)
  PROVE  InOrder(Append(log, e), r, k, a)
<1> PICK later : later = Append(log, e)
  OBVIOUS
<1>1. Before(later, "REQUEST_CLAIMED", r, "REQUEST_TERMINAL", r)
  <2>1. "REQUEST_CLAIMED" # "REQUEST_TERMINAL"
    OBVIOUS
  <2> QED BY <2>1, OrderGrows, Zenon DEF InOrder
<1>2. Before(later, "ATTEMPT_TERMINAL", a, "REQUEST_TERMINAL", r)
  <2>1. "ATTEMPT_TERMINAL" # "REQUEST_TERMINAL"
    OBVIOUS
  <2> QED BY <2>1, OrderGrows, Zenon DEF InOrder
<1>3. Before(later, "REQUEST_CLAIMED", r, "AUTHORIZATION_ISSUED", k)
  <2>1. "REQUEST_CLAIMED" # "AUTHORIZATION_ISSUED"
    OBVIOUS
  <2> QED BY <2>1, OrderGrows, Zenon DEF InOrder
<1>4. Before(later, "AUTHORIZATION_ISSUED", k, "AUTHORIZATION_CONSUMED", k)
  <2>1. "AUTHORIZATION_ISSUED" # "AUTHORIZATION_CONSUMED"
    OBVIOUS
  <2> QED BY <2>1, OrderGrows, Zenon DEF InOrder
<1>5. Before(later, "AUTHORIZATION_ISSUED", k, "AUTHORIZATION_REVOKED", k)
  <2>1. "AUTHORIZATION_ISSUED" # "AUTHORIZATION_REVOKED"
    OBVIOUS
  <2> QED BY <2>1, OrderGrows, Zenon DEF InOrder
<1>6. Before(later, "ATTEMPT_RESERVED", a, "AUTHORIZATION_CONSUMED", k)
  <2>1. "ATTEMPT_RESERVED" # "AUTHORIZATION_CONSUMED"
    OBVIOUS
  <2> QED BY <2>1, OrderGrows, Zenon DEF InOrder
<1>7. Before(later, "ATTEMPT_RESERVED", a, "ADAPTER_RECEIPT_RECORDED", a)
  <2>1. "ATTEMPT_RESERVED" # "ADAPTER_RECEIPT_RECORDED"
    OBVIOUS
  <2> QED BY <2>1, OrderGrows, Zenon DEF InOrder
<1>8. Before(later, "ATTEMPT_RESERVED", a, "ATTEMPT_TERMINAL", a)
  <2>1. "ATTEMPT_RESERVED" # "ATTEMPT_TERMINAL"
    OBVIOUS
  <2> QED BY <2>1, OrderGrows, Zenon DEF InOrder
<1>9. Before(later, "ADAPTER_RECEIPT_RECORDED", a, "ATTEMPT_TERMINAL", a)
  <2>1. "ADAPTER_RECEIPT_RECORDED" # "ATTEMPT_TERMINAL"
    OBVIOUS
  <2> QED BY <2>1, OrderGrows, Zenon DEF InOrder
<1> QED BY <1>1, <1>2, <1>3, <1>4, <1>5, <1>6, <1>7, <1>8, <1>9 DEF InOrder

\* claim_request's event.
LEMMA ClaimLogged ==
  ASSUME NEW log, IsLog(log), NEW r, NEW k, NEW a, NEW req, NEW auth, NEW try, NEW res,
         Logged(log, r, k, a, req, auth, try, res),
         req.state = "ABSENT", auth.state = "ABSENT", res.disposition = "ABSENT",
         NEW moved, moved.state # "ABSENT",
         NEW e, e = Ledger!Event("REQUEST_CLAIMED", r, <<moved.sha>>, moved.claimed_at)
  PROVE  Logged(Append(log, e), r, k, a, moved, auth, try, res)
<1>1. e.type = "REQUEST_CLAIMED" /\ e.subject = r
  BY DEF Ledger!Event
<1>2. RequestLogged(Append(log, e), r, moved, res)
  <2>1. Missing(log, "REQUEST_CLAIMED", r) /\ Missing(log, "REQUEST_TERMINAL", r)
    BY DEF Logged, RequestLogged
  <2>2. Present(Append(log, e), "REQUEST_CLAIMED", r, e)
    BY <1>1, <2>1, RecordNew
  <2>3. Missing(Append(log, e), "REQUEST_TERMINAL", r)
    BY <1>1, <2>1, RecordKept
  <2> QED BY <2>2, <2>3 DEF RequestLogged
<1>3. AuthorizationLogged(Append(log, e), k, a, auth)
  BY <1>1, AuthorizationKept DEF Logged, AuthorizationEvents
<1>4. AttemptLogged(Append(log, e), a, try)
  BY <1>1, AttemptKept DEF Logged, AttemptEvents
<1>5. InOrder(Append(log, e), r, k, a)
  <2>1. Missing(log, "REQUEST_TERMINAL", r) /\ Missing(log, "AUTHORIZATION_ISSUED", k)
        /\ InOrder(log, r, k, a)
    BY DEF Logged, RequestLogged, AuthorizationLogged
  <2> QED BY <1>1, <2>1, LifecycleOrder
<1> QED BY <1>2, <1>3, <1>4, <1>5 DEF Logged

\* A request's account does not depend on how far the request has moved on.
LEMMA MovedLogged ==
  ASSUME NEW log, NEW r, NEW req, NEW res, NEW moved, RequestLogged(log, r, req, res),
         req.state # "ABSENT", moved.state # "ABSENT",
         moved.sha = req.sha, moved.claimed_at = req.claimed_at
  PROVE  RequestLogged(log, r, moved, res)
  BY DEF RequestLogged

\* register's event.
LEMMA IssueLogged ==
  ASSUME NEW log, IsLog(log), NEW r, NEW k, NEW a, NEW req, NEW auth, NEW try, NEW res,
         Logged(log, r, k, a, req, auth, try, res), auth.state = "ABSENT",
         NEW moved, RequestLogged(log, r, moved, res),
         NEW issued, issued.state = "ISSUED",
         NEW e, e = Ledger!Event("AUTHORIZATION_ISSUED", k, <<issued.decision>>, issued.issued_at)
  PROVE  Logged(Append(log, e), r, k, a, moved, issued, try, res)
<1>1. e.type = "AUTHORIZATION_ISSUED" /\ e.subject = k
  BY DEF Ledger!Event
<1>2. RequestLogged(Append(log, e), r, moved, res)
  BY <1>1, RequestKept DEF RequestEvents
<1>3. /\ Missing(log, "AUTHORIZATION_ISSUED", k) /\ Missing(log, "AUTHORIZATION_CONSUMED", k)
      /\ Missing(log, "AUTHORIZATION_REVOKED", k)
  BY DEF Logged, AuthorizationLogged
<1>4. AuthorizationLogged(Append(log, e), k, a, issued)
  <2>1. Present(Append(log, e), "AUTHORIZATION_ISSUED", k, e)
    BY <1>1, <1>3, RecordNew
  <2>2. /\ Missing(Append(log, e), "AUTHORIZATION_CONSUMED", k)
        /\ Missing(Append(log, e), "AUTHORIZATION_REVOKED", k)
    BY <1>1, <1>3, RecordKept
  <2> QED BY <2>1, <2>2 DEF AuthorizationLogged
<1>5. AttemptLogged(Append(log, e), a, try)
  BY <1>1, AttemptKept DEF Logged, AttemptEvents
<1>6. InOrder(Append(log, e), r, k, a)
  BY <1>1, <1>3, LifecycleOrder DEF Logged
<1> QED BY <1>2, <1>4, <1>5, <1>6 DEF Logged

\* consume_once's two events: the attempt, then the authorization.
LEMMA ReserveLogged ==
  ASSUME NEW log, IsLog(log), NEW r, NEW k, NEW a, NEW req, NEW auth, NEW try, NEW res,
         Logged(log, r, k, a, req, auth, try, res),
         auth.state = "ISSUED", try.state = "ABSENT", try.receipt = Null,
         NEW moved, RequestLogged(log, r, moved, res),
         NEW spent, spent.state = "CONSUMED",
         spent.decision = auth.decision, spent.issued_at = auth.issued_at,
         NEW reserved, reserved.state = "RESERVED", reserved.receipt = Null,
         NEW e, e = Ledger!Event("ATTEMPT_RESERVED", a, <<reserved.token>>, reserved.reserved_at),
         NEW f, f = Ledger!Event("AUTHORIZATION_CONSUMED", k, <<{a}>>, spent.closed_at)
  PROVE  Logged(Append(Append(log, e), f), r, k, a, moved, spent, reserved, res)
<1> PICK mid : mid = Append(log, e)
  OBVIOUS
<1>1. /\ e.type = "ATTEMPT_RESERVED" /\ e.subject = a
      /\ f.type = "AUTHORIZATION_CONSUMED" /\ f.subject = k
  BY DEF Ledger!Event
<1>0. IsLog(mid)
  BY LogGrows
<1>2. RequestLogged(Append(mid, f), r, moved, res)
  <2>1. RequestLogged(mid, r, moved, res)
    BY <1>1, RequestKept DEF RequestEvents
  <2> QED BY <1>0, <1>1, <2>1, RequestKept DEF RequestEvents
<1>3. /\ Missing(log, "AUTHORIZATION_CONSUMED", k) /\ Missing(log, "AUTHORIZATION_REVOKED", k)
      /\ Present(log, "AUTHORIZATION_ISSUED", k,
                 Ledger!Event("AUTHORIZATION_ISSUED", k, <<spent.decision>>, spent.issued_at))
  BY DEF Logged, AuthorizationLogged
<1>4. /\ Missing(mid, "AUTHORIZATION_CONSUMED", k) /\ Missing(mid, "AUTHORIZATION_REVOKED", k)
      /\ Present(mid, "AUTHORIZATION_ISSUED", k,
                 Ledger!Event("AUTHORIZATION_ISSUED", k, <<spent.decision>>, spent.issued_at))
  BY <1>1, <1>3, RecordKept
<1>5. AuthorizationLogged(Append(mid, f), k, a, spent)
  <2>1. Present(Append(mid, f), "AUTHORIZATION_CONSUMED", k, f)
    BY <1>0, <1>1, <1>4, RecordNew
  <2>2. /\ Missing(Append(mid, f), "AUTHORIZATION_REVOKED", k)
        /\ Present(Append(mid, f), "AUTHORIZATION_ISSUED", k,
                 Ledger!Event("AUTHORIZATION_ISSUED", k, <<spent.decision>>, spent.issued_at))
    BY <1>0, <1>1, <1>4, RecordKept
  <2> QED BY <2>1, <2>2 DEF AuthorizationLogged
<1>6. /\ Missing(log, "ATTEMPT_RESERVED", a) /\ Missing(log, "ADAPTER_RECEIPT_RECORDED", a)
      /\ Missing(log, "ATTEMPT_TERMINAL", a) /\ Missing(log, "ATTEMPT_RECOVERED_UNKNOWN", a)
  BY DEF Logged, AttemptLogged, Ledger!TerminalAttemptStates
<1>7. AttemptLogged(Append(mid, f), a, reserved)
  <2>1. Present(mid, "ATTEMPT_RESERVED", a, e)
    BY <1>1, <1>6, RecordNew
  <2>2. /\ Missing(mid, "ADAPTER_RECEIPT_RECORDED", a) /\ Missing(mid, "ATTEMPT_TERMINAL", a)
        /\ Missing(mid, "ATTEMPT_RECOVERED_UNKNOWN", a)
    BY <1>1, <1>6, RecordKept
  <2>3. AttemptLogged(mid, a, reserved)
    BY <2>1, <2>2 DEF AttemptLogged, Ledger!TerminalAttemptStates
  <2> QED BY <1>0, <1>1, <2>3, AttemptKept DEF AttemptEvents
<1>8. InOrder(Append(mid, f), r, k, a)
  <2>1. InOrder(mid, r, k, a)
    BY <1>1, <1>3, <1>6, LifecycleOrder DEF Logged
  <2> QED BY <1>0, <1>1, <2>1, LifecycleOrder
<1> QED BY <1>2, <1>5, <1>7, <1>8 DEF Logged

\* record_adapter_receipt's event.
LEMMA ReceiptLogged ==
  ASSUME NEW log, IsLog(log), NEW r, NEW k, NEW a, NEW req, NEW auth, NEW try, NEW res,
         Logged(log, r, k, a, req, auth, try, res),
         try.state = "RESERVED", try.receipt = Null,
         NEW got, got.state = "RECEIPT_RECORDED", got.receipt # Null,
         got.token = try.token, got.reserved_at = try.reserved_at,
         NEW t \in Ledger!Times, got.reserved_at <= t,
         NEW e, e = Ledger!Event("ADAPTER_RECEIPT_RECORDED", a, <<got.receipt>>, t)
  PROVE  Logged(Append(log, e), r, k, a, req, auth, got, res)
<1> PICK later : later = Append(log, e)
  OBVIOUS
<1>1. e.type = "ADAPTER_RECEIPT_RECORDED" /\ e.subject = a
  BY DEF Ledger!Event
<1>2. RequestLogged(later, r, req, res)
  BY <1>1, RequestKept DEF Logged, RequestEvents
<1>3. AuthorizationLogged(later, k, a, auth)
  BY <1>1, AuthorizationKept DEF Logged, AuthorizationEvents
<1>4. /\ Missing(log, "ADAPTER_RECEIPT_RECORDED", a) /\ Missing(log, "ATTEMPT_TERMINAL", a)
      /\ Missing(log, "ATTEMPT_RECOVERED_UNKNOWN", a)
      /\ Present(log, "ATTEMPT_RESERVED", a,
                 Ledger!Event("ATTEMPT_RESERVED", a, <<got.token>>, got.reserved_at))
  BY DEF Logged, AttemptLogged, Ledger!TerminalAttemptStates
<1>5. AttemptLogged(later, a, got)
  <2>1. Present(later, "ADAPTER_RECEIPT_RECORDED", a, e)
    BY <1>1, <1>4, RecordNew
  <2>2. Missing(later, "ATTEMPT_TERMINAL", a) /\ Missing(later, "ATTEMPT_RECOVERED_UNKNOWN", a)
    BY <1>1, <1>4, RecordKept
  <2>3. Present(later, "ATTEMPT_RESERVED", a,
                Ledger!Event("ATTEMPT_RESERVED", a, <<got.token>>, got.reserved_at))
    BY <1>1, <1>4, RecordKept
  <2> QED BY <2>1, <2>2, <2>3 DEF AttemptLogged, Ledger!TerminalAttemptStates
<1>6. InOrder(later, r, k, a)
  BY <1>1, <1>4, LifecycleOrder DEF Logged
<1> QED BY <1>2, <1>3, <1>5, <1>6 DEF Logged

\* revoke_issued_for_request's event.
LEMMA RevokeLogged ==
  ASSUME NEW log, IsLog(log), NEW r, NEW k, NEW a, NEW req, NEW auth, NEW try, NEW res,
         Logged(log, r, k, a, req, auth, try, res), auth.state = "ISSUED",
         NEW dead, dead.state = "REVOKED",
         dead.decision = auth.decision, dead.issued_at = auth.issued_at,
         NEW e, e = Ledger!Revocation(k, dead.closed_at)
  PROVE  Logged(Append(log, e), r, k, a, req, dead, try, res)
<1> PICK later : later = Append(log, e)
  OBVIOUS
<1>1. e.type = "AUTHORIZATION_REVOKED" /\ e.subject = k
  BY DEF Ledger!Event, Ledger!Revocation
<1>2. RequestLogged(later, r, req, res)
  BY <1>1, RequestKept DEF Logged, RequestEvents
<1>3. AttemptLogged(later, a, try)
  BY <1>1, AttemptKept DEF Logged, AttemptEvents
<1>4. /\ Missing(log, "AUTHORIZATION_CONSUMED", k) /\ Missing(log, "AUTHORIZATION_REVOKED", k)
      /\ Present(log, "AUTHORIZATION_ISSUED", k,
                 Ledger!Event("AUTHORIZATION_ISSUED", k, <<dead.decision>>, dead.issued_at))
  BY DEF Logged, AuthorizationLogged
<1>5. AuthorizationLogged(later, k, a, dead)
  <2>1. Present(later, "AUTHORIZATION_REVOKED", k, e)
    BY <1>1, <1>4, RecordNew
  <2>2. Missing(later, "AUTHORIZATION_CONSUMED", k)
    BY <1>1, <1>4, RecordKept
  <2>3. Present(later, "AUTHORIZATION_ISSUED", k,
                Ledger!Event("AUTHORIZATION_ISSUED", k, <<dead.decision>>, dead.issued_at))
    BY <1>1, <1>4, RecordKept
  <2> QED BY <2>1, <2>2, <2>3 DEF AuthorizationLogged
<1>6. InOrder(later, r, k, a)
  BY <1>1, LifecycleOrder DEF Logged
<1> QED BY <1>2, <1>3, <1>5, <1>6 DEF Logged

\* complete_request's event for a request without an attempt.
LEMMA DenyLogged ==
  ASSUME NEW log, IsLog(log), NEW r, NEW k, NEW a, NEW req, NEW auth, NEW try, NEW res,
         Logged(log, r, k, a, req, auth, try, res),
         res.disposition = "ABSENT", req.state # "ABSENT",
         NEW moved, RequestLogged(log, r, moved, res), moved.state # "ABSENT",
         NEW final, final.disposition # "ABSENT",
         NEW e, e = Ledger!Event("REQUEST_TERMINAL", r, <<final>>, final.terminal_at)
  PROVE  Logged(Append(log, e), r, k, a, moved, auth, try, final)
<1> PICK later : later = Append(log, e)
  OBVIOUS
<1>1. e.type = "REQUEST_TERMINAL" /\ e.subject = r
  BY DEF Ledger!Event
<1>2. /\ Missing(log, "REQUEST_TERMINAL", r)
      /\ Present(log, "REQUEST_CLAIMED", r,
                 Ledger!Event("REQUEST_CLAIMED", r, <<moved.sha>>, moved.claimed_at))
  BY DEF RequestLogged
<1>3. RequestLogged(later, r, moved, final)
  <2>1. Present(later, "REQUEST_TERMINAL", r, e)
    BY <1>1, <1>2, RecordNew
  <2>2. Present(later, "REQUEST_CLAIMED", r,
                Ledger!Event("REQUEST_CLAIMED", r, <<moved.sha>>, moved.claimed_at))
    BY <1>1, <1>2, RecordKept
  <2> QED BY <2>1, <2>2 DEF RequestLogged
<1>4. AuthorizationLogged(later, k, a, auth)
  BY <1>1, AuthorizationKept DEF Logged, AuthorizationEvents
<1>5. AttemptLogged(later, a, try)
  BY <1>1, AttemptKept DEF Logged, AttemptEvents
<1>6. InOrder(later, r, k, a)
  BY <1>1, LifecycleOrder DEF Logged
<1> QED BY <1>3, <1>4, <1>5, <1>6 DEF Logged

\* complete_request's two events for an attempt: the attempt, then the request.
LEMMA CloseLogged ==
  ASSUME NEW log, IsLog(log), NEW r, NEW k, NEW a, NEW req, NEW auth, NEW try, NEW res,
         Logged(log, r, k, a, req, auth, try, res),
         res.disposition = "ABSENT", req.state # "ABSENT",
         try.state \in Ledger!OpenAttemptStates,
         NEW moved, RequestLogged(log, r, moved, res), moved.state # "ABSENT",
         NEW done, done.state \in Ledger!TerminalAttemptStates, done.token = try.token,
         done.reserved_at = try.reserved_at, done.receipt = try.receipt,
         SeenBy(log, a, done.completed_at),
         NEW final, final.disposition # "ABSENT",
         NEW e, e = Ledger!Event("ATTEMPT_TERMINAL", a, <<done.state, done.receipt>>,
                                 done.completed_at),
         NEW f, f = Ledger!Event("REQUEST_TERMINAL", r, <<final>>, final.terminal_at)
  PROVE  Logged(Append(Append(log, e), f), r, k, a, moved, auth, done, final)
<1> PICK mid : mid = Append(log, e)
  OBVIOUS
<1>1. e.type = "ATTEMPT_TERMINAL" /\ e.subject = a
  BY DEF Ledger!Event
<1>2. RequestLogged(mid, r, req, res) /\ RequestLogged(mid, r, moved, res)
  BY <1>1, RequestKept DEF Logged, RequestEvents
<1>3. AuthorizationLogged(mid, k, a, auth)
  BY <1>1, AuthorizationKept DEF Logged, AuthorizationEvents
<1>4. /\ Missing(log, "ATTEMPT_TERMINAL", a) /\ Missing(log, "ATTEMPT_RECOVERED_UNKNOWN", a)
      /\ Missing(log, "REQUEST_TERMINAL", r)
      /\ Present(log, "ATTEMPT_RESERVED", a,
                 Ledger!Event("ATTEMPT_RESERVED", a, <<done.token>>, done.reserved_at))
  BY DEF Logged, AttemptLogged, RequestLogged, Ledger!OpenAttemptStates,
     Ledger!TerminalAttemptStates
<1>5. AttemptLogged(mid, a, done)
  <2>1. Present(mid, "ATTEMPT_TERMINAL", a, e)
    BY <1>1, <1>4, RecordNew
  <2>2. Missing(mid, "ATTEMPT_RECOVERED_UNKNOWN", a)
    BY <1>1, <1>4, RecordKept
  <2>3. Present(mid, "ATTEMPT_RESERVED", a,
                Ledger!Event("ATTEMPT_RESERVED", a, <<done.token>>, done.reserved_at))
    BY <1>1, <1>4, RecordKept
  <2>4. SeenBy(mid, a, done.completed_at)
    BY <1>1, SeenGrows
  <2>5. IF done.receipt = Null THEN Missing(mid, "ADAPTER_RECEIPT_RECORDED", a)
        ELSE \E t \in Ledger!Times :
                /\ done.reserved_at <= t
                /\ Present(mid, "ADAPTER_RECEIPT_RECORDED", a,
                           Ledger!Event("ADAPTER_RECEIPT_RECORDED", a, <<done.receipt>>, t))
    <3>1. CASE done.receipt = Null
      <4>1. Missing(log, "ADAPTER_RECEIPT_RECORDED", a)
        BY <3>1 DEF Logged, AttemptLogged
      <4> QED BY <1>1, <3>1, <4>1, RecordKept
    <3>2. CASE done.receipt # Null
      <4>1. PICK t \in Ledger!Times :
                /\ done.reserved_at <= t
                /\ Present(log, "ADAPTER_RECEIPT_RECORDED", a,
                           Ledger!Event("ADAPTER_RECEIPT_RECORDED", a, <<done.receipt>>, t))
        BY <3>2 DEF Logged, AttemptLogged
      <4>2. Present(mid, "ADAPTER_RECEIPT_RECORDED", a,
                    Ledger!Event("ADAPTER_RECEIPT_RECORDED", a, <<done.receipt>>, t))
        BY <1>1, <4>1, RecordKept
      <4> QED BY <3>2, <4>1, <4>2
    <3> QED BY <3>1, <3>2
  <2>6. done.state # "ABSENT"
    BY DEF Ledger!TerminalAttemptStates
  <2> QED BY <2>1, <2>2, <2>3, <2>4, <2>5, <2>6 DEF AttemptLogged
<1>6. InOrder(mid, r, k, a)
  BY <1>1, <1>4, LifecycleOrder DEF Logged
<1>7. Logged(mid, r, k, a, req, auth, done, res)
  BY <1>2, <1>3, <1>5, <1>6 DEF Logged
<1>8. IsLog(mid)
  BY LogGrows
<1>9. Logged(Append(mid, f), r, k, a, moved, auth, done, final)
  BY <1>2, <1>7, <1>8, DenyLogged
<1> QED BY <1>9

\* An event about a request, its authorization or its attempt.
About(e, r) ==
    \/ e.type \in RequestEvents /\ e.subject = r
    \/ e.type \in AuthorizationEvents /\ e.subject = TokenOf(r)
    \/ e.type \in AttemptEvents /\ e.subject = AttemptOf(r)

\* The keys of two requests are different.
LEMMA AboutForeign ==
  ASSUME NEW q \in Requests, NEW r \in Requests, q # r, NEW e, About(e, r)
  PROVE  Foreign(e, q, TokenOf(q), AttemptOf(q))
<1>1. TokenOf(q) # TokenOf(r) /\ AttemptOf(q) # AttemptOf(r)
  BY Identifiers
<1> QED BY <1>1 DEF About, Foreign, RequestEvents, AuthorizationEvents, AttemptEvents

\* What the ledger records is appended to its log.
LEMMA RecordOne ==
  ASSUME IsLog(outbox), NEW e, Ledger!Record(<<e>>)
  PROVE  outbox' = Append(outbox, e) /\ IsLog(outbox')
<1>1. outbox' = outbox \o <<e>>
  BY DEF Ledger!Record
<1>2. Append(outbox, e) = outbox \o <<e>> /\ IsLog(Append(outbox, e))
  BY LogGrows, Zenon
<1> QED BY <1>1, <1>2

\* Two events at once are appended in order.
LEMMA RecordTwo ==
  ASSUME IsLog(outbox), NEW e, NEW f, Ledger!Record(<<e>> \o <<f>>)
  PROVE  outbox' = Append(Append(outbox, e), f) /\ IsLog(outbox')
<1> PICK mid : mid = Append(outbox, e)
  OBVIOUS
<1>1. outbox' = outbox \o (<<e>> \o <<f>>)
  BY DEF Ledger!Record
<1>2. mid = outbox \o <<e>> /\ IsLog(mid)
  BY LogGrows, Zenon
<1>3. Append(mid, f) = mid \o <<f>> /\ IsLog(Append(mid, f))
  BY <1>2, LogGrows, Zenon
<1> PICK S : outbox \in Seq(S)
  BY DEF IsLog
<1> PICK T : T = S \cup {e, f}
  OBVIOUS
<1>4. outbox \in Seq(T) /\ <<e>> \in Seq(T) /\ <<f>> \in Seq(T)
  <2>1. S \subseteq T /\ e \in T /\ f \in T
    OBVIOUS
  <2>2. outbox \in Seq(T)
    BY <2>1, SeqMonotonic
  <2> QED BY <2>1, <2>2
<1>5. (outbox \o <<e>>) \o <<f>> = outbox \o (<<e>> \o <<f>>)
  BY <1>4, ConcatAssociative
<1> QED BY <1>1, <1>2, <1>3, <1>5

\* A step that records no receipt and reserves no attempt but at the present time.
Timed ==
    /\ \A a, t : SeenBy(outbox, a, t) => SeenBy(outbox', a, t)
    /\ \A q \in Requests : Try(q)'.reserved_at \in {Try(q).reserved_at, clock}

\* A transaction accounts for the rows it writes and leaves those of the other
\* requests accounted for.
LEMMA AcceptedFrame ==
  ASSUME Accepted, NEW r \in Requests,
         \A q \in Requests \ {r} :
             /\ requests'[q] = requests[q] /\ results'[q] = results[q]
             /\ Auth(q)' = Auth(q) /\ Try(q)' = Try(q),
         NEW e, About(e, r), NEW f, About(f, r), IsLog(outbox'),
         outbox' = Append(outbox, e) \/ outbox' = Append(Append(outbox, e), f),
         RecordsHeld(r)', EventsHeld(r)'
  PROVE  /\ Accepted'
         /\ /\ e.type # "ADAPTER_RECEIPT_RECORDED" /\ f.type # "ADAPTER_RECEIPT_RECORDED"
            /\ Try(r)'.reserved_at \in {Try(r).reserved_at, clock}
            => Timed
<1>1. ASSUME NEW q \in Requests \ {r} PROVE RecordsHeld(q)' /\ EventsHeld(q)'
  <2> PICK k, a, req, auth, try, res :
        /\ k = TokenOf(q) /\ a = AttemptOf(q)
        /\ req = requests[q] /\ auth = Auth(q) /\ try = Try(q) /\ res = results[q]
    OBVIOUS
  <2>0. /\ requests'[q] = req /\ Auth(q)' = auth /\ Try(q)' = try /\ results'[q] = res
    OBVIOUS
  <2>1. RecordsHeld(q)'
    <3>1. RecordsHeld(q)
      BY DEF Accepted
    <3> QED BY <2>0, <3>1 DEF RecordsHeld
  <2>2. Foreign(e, q, k, a) /\ Foreign(f, q, k, a)
    BY AboutForeign
  <2>3. IsLog(outbox) /\ Logged(outbox, q, k, a, req, auth, try, res)
    BY DEF Accepted, EventsHeld
  <2>4. Logged(Append(outbox, e), q, k, a, req, auth, try, res)
    BY <2>2, <2>3, LoggedKept, Zenon
  <2>5. IsLog(Append(outbox, e))
    BY <2>3, LogGrows, Zenon
  <2>6. Logged(Append(Append(outbox, e), f), q, k, a, req, auth, try, res)
    BY <2>2, <2>4, <2>5, LoggedKept, Zenon
  <2>7. Logged(outbox', q, k, a, req, auth, try, res)
    BY <2>4, <2>6
  <2> QED BY <2>0, <2>1, <2>7 DEF EventsHeld
<1>2. \A q \in Requests : RecordsHeld(q)' /\ EventsHeld(q)'
  BY <1>1
<1>3. ASSUME e.type # "ADAPTER_RECEIPT_RECORDED", f.type # "ADAPTER_RECEIPT_RECORDED",
             NEW a, NEW t, SeenBy(outbox, a, t)
      PROVE  SeenBy(outbox', a, t)
  <2>1. IsLog(outbox) /\ IsLog(Append(outbox, e))
    BY LogGrows, Zenon DEF Accepted
  <2>2. SeenBy(Append(outbox, e), a, t)
    BY <1>3, <2>1, SeenGrows, Zenon
  <2>3. SeenBy(Append(Append(outbox, e), f), a, t)
    BY <1>3, <2>1, <2>2, SeenGrows, Zenon
  <2> QED BY <2>2, <2>3
<1>4. \A q \in Requests \ {r} : Try(q)'.reserved_at = Try(q).reserved_at
  OBVIOUS
<1> QED BY <1>2, <1>3, <1>4 DEF Accepted, Timed

\* A step that leaves the ledger alone.
LEMMA AcceptedQuiet ==
  ASSUME Accepted, UNCHANGED <<requests, authorizations, attempts, results, outbox>>
  PROVE  Accepted'
  BY DEF Accepted, RecordsHeld, EventsHeld, Auth, Try

\* The UPDATE of a request's row.
LEMMA MovedRow ==
  ASSUME StageTyped, NEW r \in Requests, NEW state, NEW t,
         requests' = Ledger!RequestMoved(r, state, t)
  PROVE  /\ requests'[r].state = state /\ requests'[r].updated_at = t
         /\ requests'[r].sha = requests[r].sha
         /\ requests'[r].claimed_at = requests[r].claimed_at
         /\ \A q \in Requests \ {r} : requests'[q] = requests[q]
  BY DEF Ledger!RequestMoved, StageTyped, Ledger!TypeOK, Ledger!RequestRow

\* The rows of a request, by column.
LEMMA RowsTyped ==
  ASSUME StageTyped, NEW r \in Requests
  PROVE  /\ TokenOf(r) \in StageTokens /\ AttemptOf(r) \in StageAttempts
         /\ requests[r] \in Ledger!RequestRow /\ Auth(r) \in Ledger!AuthorizationRow
         /\ Try(r) \in Ledger!AttemptRow /\ results[r] \in Ledger!ResultRow
  BY Identifiers DEF StageTyped, Ledger!TypeOK, Auth, Try

\* What the invariants say of the request of the operation in progress.
LEMMA OperationRows ==
  ASSUME StageInvariant, Accepted, op # Idle
  PROVE  /\ op.request \in Requests /\ op \in Operations
         /\ op.sha \in Digests /\ op.time \in Ledger!Times /\ clock \in Ledger!Times
         /\ op.request # Null /\ AttemptOf(op.request) # Null
         /\ RowsHeld(op.request) /\ RecordsHeld(op.request) /\ EventsHeld(op.request)
         /\ IsLog(outbox)
<1>1. StageTyped
  BY DEF StageInvariant
<1>2. op.request \in Requests
  BY <1>1, OperationFields
<1> QED BY <1>1, <1>2, OperationFields, Identifiers DEF StageInvariant, HistoryHeld, Accepted

\* claim_request in process_json.
LEMMA ClaimAccepted == ASSUME StageInvariant, Accepted, Claim PROVE Accepted' /\ Timed
<1> PICK r, t : r = op.request /\ t = op.time
  OBVIOUS
<1> PICK req, auth, try, res :
      req = requests[r] /\ auth = Auth(r) /\ try = Try(r) /\ res = results[r]
  OBVIOUS
<1>0. op # Idle
  BY DEF Claim, At, Idle
<1>1. /\ r \in Requests /\ t \in Ledger!Times /\ IsLog(outbox)
      /\ RowsHeld(r) /\ RecordsHeld(r) /\ EventsHeld(r)
  BY <1>0, OperationRows
<1> PICK moved : moved = [state |-> "CLAIMED", sha |-> op.sha, claimed_at |-> t, updated_at |-> t]
  OBVIOUS
<1> PICK e : e = Ledger!Event("REQUEST_CLAIMED", r, <<moved.sha>>, moved.claimed_at)
  OBVIOUS
<1>2. /\ requests' = [requests EXCEPT ![r] = moved] /\ req.state = "ABSENT"
      /\ UNCHANGED <<authorizations, attempts, results>>
      /\ Ledger!Record(<<e>>)
  BY DEF Claim, Ledger!ClaimRequest, Ledger!ClaimReply, Ledger!Absent
<1>3. /\ \A q \in Requests : Auth(q)' = Auth(q) /\ Try(q)' = Try(q) /\ results'[q] = results[q]
      /\ requests'[r] = moved /\ \A q \in Requests \ {r} : requests'[q] = requests[q]
  BY <1>1, <1>2 DEF Auth, Try, StageInvariant, StageTyped, Ledger!TypeOK
<1>4. outbox' = Append(outbox, e) /\ IsLog(outbox')
  BY <1>1, <1>2, RecordOne
<1>5. auth.state = "ABSENT" /\ try.state = "ABSENT" /\ res.disposition = "ABSENT"
  BY <1>1, <1>2 DEF RowsHeld, RecordsHeld, Coherent
<1>6. EventsHeld(r)'
  <2>1. Logged(outbox, r, TokenOf(r), AttemptOf(r), req, auth, try, res)
    BY <1>1 DEF EventsHeld
  <2>2. Logged(outbox', r, TokenOf(r), AttemptOf(r), moved, auth, try, res)
    BY <1>1, <1>2, <1>4, <1>5, <2>1, ClaimLogged
  <2> QED BY <1>1, <1>3, <2>2 DEF EventsHeld
<1>7. RecordsHeld(r)'
  <2>1. Coherent(moved, auth, try)
    BY <1>1, <1>5 DEF RecordsHeld, Coherent
  <2>2. Dated(moved, auth, try, res)
    BY <1>1, <1>5 DEF Dated, Ledger!Times, Ledger!TerminalAttemptStates
  <2>3. Repeated(AttemptOf(r), auth, try, res)
    BY <1>5 DEF Repeated
  <2> QED BY <1>1, <1>3, <2>1, <2>2, <2>3 DEF RecordsHeld
<1>8. About(e, r) /\ e.type # "ADAPTER_RECEIPT_RECORDED"
  BY DEF About, RequestEvents, Ledger!Event
<1> QED BY <1>1, <1>3, <1>4, <1>6, <1>7, <1>8, AcceptedFrame

\* register in process_json.
LEMMA AuthorizeAccepted == ASSUME StageInvariant, Accepted, Authorize PROVE Accepted' /\ Timed
<1> PICK r : r = op.request
  OBVIOUS
<1> PICK req, auth, try, res, moved :
      /\ req = requests[r] /\ auth = Auth(r) /\ try = Try(r) /\ res = results[r]
      /\ moved = requests'[r]
  OBVIOUS
<1>0. op # Idle
  BY DEF Authorize, At, Idle
<1>1. /\ r \in Requests /\ clock \in Ledger!Times /\ IsLog(outbox) /\ r # Null
      /\ RowsHeld(r) /\ RecordsHeld(r) /\ EventsHeld(r) /\ StageTyped
  BY <1>0, OperationRows DEF StageInvariant
<1> PICK issued : issued = [state |-> "ISSUED", request |-> r, decision |-> DecisionOf(r),
                            issued_at |-> clock, closed_at |-> 0]
  OBVIOUS
<1> PICK e : e = Ledger!Event("AUTHORIZATION_ISSUED", TokenOf(r), <<issued.decision>>,
                              issued.issued_at)
  OBVIOUS
<1>2. /\ authorizations' = [authorizations EXCEPT ![TokenOf(r)] = issued]
      /\ auth.state = "ABSENT" /\ req.state = "CLAIMED" /\ req.updated_at <= clock
      /\ requests' = Ledger!RequestMoved(r, "AUTHORIZED", clock)
      /\ UNCHANGED <<attempts, results>>
      /\ Ledger!Record(<<e>>)
  BY <1>1 DEF Authorize, Ledger!Register, Ledger!Absent, Auth
<1>3. /\ moved.state = "AUTHORIZED" /\ moved.updated_at = clock
      /\ moved.sha = req.sha /\ moved.claimed_at = req.claimed_at
      /\ \A q \in Requests \ {r} : requests'[q] = requests[q]
  BY <1>1, <1>2, MovedRow
<1>4. /\ \A q \in Requests : Try(q)' = Try(q) /\ results'[q] = results[q]
      /\ Auth(r)' = issued /\ \A q \in Requests \ {r} : Auth(q)' = Auth(q)
  BY <1>1, <1>2, Identifiers DEF StageInvariant, StageTyped, Ledger!TypeOK, Auth, Try
<1>5. outbox' = Append(outbox, e) /\ IsLog(outbox')
  BY <1>1, <1>2, RecordOne
<1>6. try.state = "ABSENT" /\ res.disposition = "ABSENT"
  BY <1>1, <1>2 DEF RowsHeld
<1>7. EventsHeld(r)'
  <2>1. Logged(outbox, r, TokenOf(r), AttemptOf(r), req, auth, try, res)
    BY <1>1 DEF EventsHeld
  <2>2. RequestLogged(outbox, r, moved, res)
    BY <1>2, <1>3, <2>1, MovedLogged DEF Logged
  <2>3. Logged(outbox', r, TokenOf(r), AttemptOf(r), moved, issued, try, res)
    BY <1>1, <1>2, <1>5, <2>1, <2>2, IssueLogged
  <2> QED BY <1>1, <1>4, <2>3 DEF EventsHeld
<1>8. RecordsHeld(r)'
  <2>1. Coherent(moved, issued, try)
    BY <1>1, <1>3, <1>6 DEF RecordsHeld, Coherent
  <2>2. Dated(moved, issued, try, res)
    <3>1. req.claimed_at <= req.updated_at /\ req.claimed_at \in Ledger!Times
          /\ req.updated_at \in Ledger!Times
      BY <1>1, RowsTyped DEF RecordsHeld, Dated, Ledger!RequestRow
    <3>2. req.claimed_at <= clock
      BY <1>1, <1>2, <3>1 DEF Ledger!Times
    <3> QED BY <1>3, <1>6, <3>2 DEF Dated, Ledger!TerminalAttemptStates
  <2>3. Repeated(AttemptOf(r), issued, try, res)
    BY <1>6 DEF Repeated
  <2> QED BY <1>1, <1>4, <2>1, <2>2, <2>3 DEF RecordsHeld
<1>9. About(e, r) /\ e.type # "ADAPTER_RECEIPT_RECORDED"
  BY DEF About, AuthorizationEvents, Ledger!Event
<1> QED BY <1>1, <1>3, <1>4, <1>5, <1>7, <1>8, <1>9, AcceptedFrame

\* Closing the authorization of one request.
LEMMA ClosedAuthorization ==
  ASSUME StageTyped, NEW r \in Requests, NEW state, NEW t,
         authorizations' = Ledger!AuthorizationsClosed({TokenOf(r)}, state, t)
  PROVE  /\ Auth(r)'.state = state /\ Auth(r)'.closed_at = t
         /\ Auth(r)'.request = Auth(r).request
         /\ Auth(r)'.decision = Auth(r).decision /\ Auth(r)'.issued_at = Auth(r).issued_at
         /\ \A q \in Requests \ {r} : Auth(q)' = Auth(q)
<1>1. TokenOf(r) \in StageTokens /\ Auth(r) \in Ledger!AuthorizationRow
  BY RowsTyped
<1>2. \A k \in StageTokens :
         authorizations'[k] = IF k = TokenOf(r)
                              THEN [authorizations[k] EXCEPT !.state = state, !.closed_at = t]
                              ELSE authorizations[k]
  BY Zenon DEF Ledger!AuthorizationsClosed
<1>3. Auth(r)' = [Auth(r) EXCEPT !.state = state, !.closed_at = t]
  BY <1>1, <1>2, Zenon DEF Auth
<1>4. \A k \in StageTokens \ {TokenOf(r)} : authorizations'[k] = authorizations[k]
  BY <1>2, Zenon
<1>5. \A q \in Requests \ {r} : Auth(q)' = Auth(q)
  BY <1>1, <1>4, Identifiers DEF Auth
<1> QED BY <1>1, <1>3, <1>5 DEF Ledger!AuthorizationRow

\* consume_once in process_json.
LEMMA ConsumeAccepted == ASSUME StageInvariant, Accepted, Consume PROVE Accepted' /\ Timed
<1> PICK r, k, a : r = op.request /\ k = TokenOf(r) /\ a = AttemptOf(r)
  OBVIOUS
<1> PICK req, auth, try, res, moved, spent :
      /\ req = requests[r] /\ auth = Auth(r) /\ try = Try(r) /\ res = results[r]
      /\ moved = requests'[r] /\ spent = Auth(r)'
  OBVIOUS
<1>0. op # Idle
  BY DEF Consume, At, Idle
<1>1. /\ r \in Requests /\ clock \in Ledger!Times /\ IsLog(outbox) /\ r # Null /\ a # Null
      /\ RowsHeld(r) /\ RecordsHeld(r) /\ EventsHeld(r) /\ StageTyped
  BY <1>0, OperationRows DEF StageInvariant
<1> PICK reserved : reserved = [state |-> "RESERVED", token |-> k, request |-> r,
                                receipt |-> Null, reserved_at |-> clock, completed_at |-> 0]
  OBVIOUS
<1> PICK e, f :
      /\ e = Ledger!Event("ATTEMPT_RESERVED", a, <<k>>, clock)
      /\ f = Ledger!Event("AUTHORIZATION_CONSUMED", k, <<{a}>>, clock)
  OBVIOUS
<1>2. /\ auth.state = "ISSUED" /\ auth.issued_at <= clock /\ try.state = "ABSENT"
      /\ authorizations' = Ledger!AuthorizationsClosed({TokenOf(r)}, "CONSUMED", clock)
      /\ UNCHANGED results
  BY <1>1 DEF Consume, Ledger!ConsumeOnce, Ledger!Spendable, Ledger!Absent, Auth, Try
<1>3. auth.request = r
  BY <1>1, <1>2 DEF RowsHeld
<1>4. /\ req.state = "AUTHORIZED" /\ req.updated_at <= clock
      /\ requests' = Ledger!RequestMoved(r, "ATTEMPT_RESERVED", clock)
      /\ attempts' = [attempts EXCEPT ![a] = reserved]
  BY <1>1, <1>3 DEF Consume, Ledger!ConsumeOnce, Auth
<1>5. Ledger!Record(<<e>> \o <<f>>)
  <2>1. {a} \ {Null} = {a}
    BY <1>1
  <2> QED BY <1>1, <2>1 DEF Consume, Ledger!ConsumeOnce
<1>6. outbox' = Append(Append(outbox, e), f) /\ IsLog(outbox')
  BY <1>1, <1>5, RecordTwo
<1>7. /\ moved.state = "ATTEMPT_RESERVED" /\ moved.updated_at = clock
      /\ moved.sha = req.sha /\ moved.claimed_at = req.claimed_at
      /\ \A q \in Requests \ {r} : requests'[q] = requests[q]
  BY <1>1, <1>4, MovedRow
<1>8. /\ spent.state = "CONSUMED" /\ spent.closed_at = clock
      /\ spent.decision = auth.decision /\ spent.issued_at = auth.issued_at
      /\ \A q \in Requests \ {r} : Auth(q)' = Auth(q)
  BY <1>1, <1>2, ClosedAuthorization
<1>9. /\ Try(r)' = reserved /\ \A q \in Requests \ {r} : Try(q)' = Try(q)
      /\ \A q \in Requests : results'[q] = results[q]
  BY <1>1, <1>2, <1>4, Identifiers DEF StageTyped, Ledger!TypeOK, Try
<1>10. try.receipt = Null /\ res.disposition = "ABSENT"
  BY <1>0, <1>1, <1>2, <1>4 DEF StageInvariant, HistoryHeld, EffectHeld, RowsHeld
<1>11. EventsHeld(r)'
  <2>1. Logged(outbox, r, k, a, req, auth, try, res)
    BY <1>1 DEF EventsHeld
  <2>2. RequestLogged(outbox, r, moved, res)
    BY <1>4, <1>7, <2>1, MovedLogged DEF Logged
  <2>3. reserved.state = "RESERVED" /\ reserved.receipt = Null
        /\ reserved.token = k /\ reserved.reserved_at = clock
    OBVIOUS
  <2>4. Logged(outbox', r, k, a, moved, spent, reserved, res)
    BY <1>1, <1>2, <1>6, <1>8, <1>10, <2>1, <2>2, <2>3, ReserveLogged
  <2> QED BY <1>1, <1>9, <2>4 DEF EventsHeld
<1>12. RecordsHeld(r)'
  <2>1. Coherent(moved, spent, reserved)
    BY <1>7, <1>8 DEF Coherent
  <2>2. Dated(moved, spent, reserved, res)
    <3>1. /\ req.claimed_at <= req.updated_at /\ req.claimed_at <= auth.issued_at
          /\ req.claimed_at \in Ledger!Times /\ req.updated_at \in Ledger!Times
          /\ auth.issued_at \in Ledger!Times
      BY <1>1, <1>2, RowsTyped
      DEF RecordsHeld, Dated, Ledger!RequestRow, Ledger!AuthorizationRow
    <3>2. req.claimed_at <= clock
      BY <1>1, <1>4, <3>1 DEF Ledger!Times
    <3> QED BY <1>2, <1>7, <1>8, <3>1, <3>2 DEF Dated, Ledger!TerminalAttemptStates
  <2>3. Repeated(a, spent, reserved, res)
    BY <1>10 DEF Repeated
  <2> QED BY <1>1, <1>9, <2>1, <2>2, <2>3 DEF RecordsHeld
<1>13. About(e, r) /\ About(f, r)
      /\ e.type # "ADAPTER_RECEIPT_RECORDED" /\ f.type # "ADAPTER_RECEIPT_RECORDED"
  BY DEF About, AuthorizationEvents, AttemptEvents, Ledger!Event
<1>14. Try(r)'.reserved_at = clock
  BY <1>9
<1>15. \A q \in Requests \ {r} :
          /\ requests'[q] = requests[q] /\ results'[q] = results[q]
          /\ Auth(q)' = Auth(q) /\ Try(q)' = Try(q)
  BY <1>7, <1>8, <1>9
<1>16. Try(r)'.reserved_at \in {Try(r).reserved_at, clock}
  BY <1>14
<1> QED BY <1>1, <1>6, <1>11, <1>12, <1>13, <1>15, <1>16, AcceptedFrame, Zenon

\* The time a receipt is recorded at: the attempt's, or the recovery's.
StampedAt == IF At("EXECUTED") THEN AttemptedAt(op.request) ELSE op.time

\* record_adapter_receipt, on the normal path or in a recovery.
LEMMA ReceiptAccepted ==
  ASSUME StageInvariant, Accepted, RecordReceipt \/ RecoverReceipt
  PROVE  /\ Accepted'
         /\ \A q \in Requests : Try(q)'.reserved_at = Try(q).reserved_at
         /\ \A a, t : SeenBy(outbox, a, t) /\ (a = AttemptOf(op.request) => StampedAt <= t)
                => SeenBy(outbox', a, t)
<1> PICK r, a : r = op.request /\ a = AttemptOf(r)
  OBVIOUS
<1> PICK req, auth, try, res, got :
      /\ req = requests[r] /\ auth = Auth(r) /\ try = Try(r) /\ res = results[r]
      /\ got = Try(r)'
  OBVIOUS
<1>0. op # Idle
  BY DEF RecordReceipt, RecoverReceipt, At, Idle
<1>1. /\ r \in Requests /\ IsLog(outbox)
      /\ RowsHeld(r) /\ RecordsHeld(r) /\ EventsHeld(r) /\ StageTyped
      /\ op.time \in Ledger!Times /\ AttemptedAt(r) \in Ledger!Times
  BY <1>0, OperationRows, OperationFields DEF StageInvariant
<1> PICK t : t = StampedAt
  OBVIOUS
<1>2. PICK rcpt \in ReceiptsUnder(a) : Ledger!RecordAdapterReceipt(a, rcpt, t)
  BY DEF RecordReceipt, RecoverReceipt, At, StampedAt
<1> PICK e : e = Ledger!Event("ADAPTER_RECEIPT_RECORDED", a, <<rcpt>>, t)
  OBVIOUS
<1>3. /\ try.state = "RESERVED" /\ try.reserved_at <= t
      /\ attempts' = [attempts EXCEPT ![a] =
                         [@ EXCEPT !.state = "RECEIPT_RECORDED", !.receipt = rcpt]]
      /\ UNCHANGED <<requests, authorizations, results>>
      /\ Ledger!Record(<<e>>)
  BY <1>2 DEF Ledger!RecordAdapterReceipt, Try
<1>4. rcpt # Null /\ t \in Ledger!Times
  BY <1>1, <1>2, <1>3, NothingUnderKey DEF StampedAt
<1>5. /\ got.state = "RECEIPT_RECORDED" /\ got.receipt = rcpt
      /\ got.token = try.token /\ got.reserved_at = try.reserved_at
      /\ \A q \in Requests \ {r} : Try(q)' = Try(q)
  <2>1. a \in StageAttempts /\ try \in Ledger!AttemptRow
        /\ attempts \in [StageAttempts -> Ledger!AttemptRow]
    BY <1>1, RowsTyped DEF StageTyped, Ledger!TypeOK
  <2>2. got = [try EXCEPT !.state = "RECEIPT_RECORDED", !.receipt = rcpt]
    BY <1>3, <2>1 DEF Try
  <2>3. \A q \in Requests \ {r} : Try(q)' = Try(q)
    BY <1>1, <1>3, <2>1, Identifiers DEF Try
  <2> QED BY <2>1, <2>2, <2>3 DEF Ledger!AttemptRow
<1>6. outbox' = Append(outbox, e) /\ IsLog(outbox')
  BY <1>1, <1>3, RecordOne
<1>7. \A q \in Requests : /\ requests'[q] = requests[q] /\ results'[q] = results[q]
                          /\ Auth(q)' = Auth(q)
  BY <1>3 DEF Auth
<1>8. try.receipt = Null
  BY <1>1, <1>3 DEF StageInvariant, HistoryHeld, EffectHeld
<1>9. EventsHeld(r)'
  <2>1. Logged(outbox, r, TokenOf(r), a, req, auth, try, res)
    BY <1>1 DEF EventsHeld
  <2>2. Logged(outbox', r, TokenOf(r), a, req, auth, got, res)
    BY <1>1, <1>3, <1>4, <1>5, <1>6, <1>8, <2>1, ReceiptLogged
  <2> QED BY <1>1, <1>7, <2>2 DEF EventsHeld
<1>10. RecordsHeld(r)'
  <2>1. Coherent(req, auth, got)
    BY <1>1, <1>3, <1>5 DEF RecordsHeld, Coherent
  <2>2. Dated(req, auth, got, res)
    BY <1>1, <1>3, <1>5 DEF RecordsHeld, Dated, Ledger!TerminalAttemptStates
  <2>3. Repeated(a, auth, got, res)
    <3>1. res.disposition = "ABSENT"
      BY <1>1, <1>3 DEF RowsHeld, Ledger!TerminalAttemptStates
    <3> QED BY <3>1 DEF Repeated
  <2> QED BY <1>1, <1>7, <2>1, <2>2, <2>3 DEF RecordsHeld
<1>11. About(e, r)
  BY DEF About, AttemptEvents, Ledger!Event
<1>12. Accepted'
  BY <1>1, <1>5, <1>6, <1>7, <1>9, <1>10, <1>11, AcceptedFrame
<1>13. ASSUME NEW other, NEW u, SeenBy(outbox, other, u), other = a => t <= u
       PROVE  SeenBy(outbox', other, u)
  <2>1. e.type = "ADAPTER_RECEIPT_RECORDED" /\ e.subject = other => e.at <= u
    BY <1>13 DEF Ledger!Event
  <2>2. SeenBy(Append(outbox, e), other, u)
    BY <1>1, <1>13, <2>1, SeenGrows, Zenon
  <2> QED BY <1>6, <2>2
<1>14. \A q \in Requests : Try(q)'.reserved_at = Try(q).reserved_at
  BY <1>5
<1> QED BY <1>12, <1>13, <1>14

\* The authorizations and attempts a request owns are those named after it.
LEMMA OwnRows ==
  ASSUME StageInvariant, Accepted, NEW r \in Requests
  PROVE  /\ Ledger!AuthorizationsOf(r) = IF Auth(r).state = "ABSENT" THEN {} ELSE {TokenOf(r)}
         /\ Ledger!AttemptsOf(r) = IF Try(r).state = "ABSENT" THEN {} ELSE {AttemptOf(r)}
         /\ Ledger!AttemptsOn(TokenOf(r)) =
               IF Try(r).state = "ABSENT" THEN {} ELSE {AttemptOf(r)}
<1>1. /\ \A k \in StageTokens : \E q \in Requests : k = TokenOf(q)
      /\ \A a \in StageAttempts : \E q \in Requests : a = AttemptOf(q)
      /\ TokenOf(r) \in StageTokens /\ AttemptOf(r) \in StageAttempts
      /\ r # Null /\ TokenOf(r) # Null
  BY Identifiers
<1>2. \A q \in Requests :
         /\ authorizations[TokenOf(q)].request = IF Auth(q).state = "ABSENT" THEN Null ELSE q
         /\ attempts[AttemptOf(q)].request = IF Try(q).state = "ABSENT" THEN Null ELSE q
  BY DEF StageInvariant, HistoryHeld, RowsHeld, Auth, Try
<1>3. \A q \in Requests :
         attempts[AttemptOf(q)].token = IF Try(q).state = "ABSENT" THEN Null ELSE TokenOf(q)
  BY DEF StageInvariant, HistoryHeld, RowsHeld, Accepted, RecordsHeld, Coherent, Try
<1>4. Ledger!AuthorizationsOf(r) = IF Auth(r).state = "ABSENT" THEN {} ELSE {TokenOf(r)}
  BY <1>1, <1>2 DEF Ledger!AuthorizationsOf
<1>5. Ledger!AttemptsOf(r) = IF Try(r).state = "ABSENT" THEN {} ELSE {AttemptOf(r)}
  BY <1>1, <1>2 DEF Ledger!AttemptsOf
<1>6. Ledger!AttemptsOn(TokenOf(r)) = IF Try(r).state = "ABSENT" THEN {} ELSE {AttemptOf(r)}
  <2>1. \A q \in Requests : TokenOf(q) = TokenOf(r) => q = r
    BY Identifiers
  <2> QED BY <1>1, <1>3, <2>1 DEF Ledger!AttemptsOn
<1> QED BY <1>4, <1>5, <1>6

\* The only sequence of one event.
LEMMA OneEvent ==
  ASSUME NEW e, NEW s \in [1..1 -> {e}]
  PROVE  s = <<e>>
<1>1. s = [i \in 1..1 |-> e]
  <2>1. s = [i \in 1..1 |-> s[i]] /\ \A i \in 1..1 : s[i] = e
    OBVIOUS
  <2> QED BY <2>1
<1>2. <<e>> = [i \in 1..1 |-> e]
  <2>1. <<e>> \in Seq({e}) /\ Len(<<e>>) = 1
    OBVIOUS
  <2>2. <<e>> = [i \in 1..1 |-> <<e>>[i]] /\ \A i \in 1..1 : <<e>>[i] = e
    BY <2>1
  <2> QED BY <2>2
<1> QED BY <1>1, <1>2

\* revoke_issued_for_request in a recovery.
LEMMA RevokeAccepted == ASSUME StageInvariant, Accepted, RevokeAuthority PROVE Accepted' /\ Timed
<1> PICK r, k, t : r = op.request /\ k = TokenOf(r) /\ t = op.time
  OBVIOUS
<1> PICK req, auth, try, res, dead :
      /\ req = requests[r] /\ auth = Auth(r) /\ try = Try(r) /\ res = results[r]
      /\ dead = Auth(r)'
  OBVIOUS
<1> PICK e : e = Ledger!Revocation(k, t)
  OBVIOUS
<1>0. op # Idle
  BY DEF RevokeAuthority, At, Idle
<1>1. /\ r \in Requests /\ IsLog(outbox)
      /\ RowsHeld(r) /\ RecordsHeld(r) /\ EventsHeld(r) /\ StageTyped
  BY <1>0, OperationRows DEF StageInvariant
<1>2. auth.state = "ISSUED" /\ try.state = "ABSENT"
  BY DEF RevokeAuthority, AuthorityToRevoke, NoAttemptOf, Auth, Try
<1>3. {j \in Ledger!AuthorizationsOf(r) : authorizations[j].state = "ISSUED"} = {k}
  BY <1>1, <1>2, OwnRows DEF Auth
<1>4. /\ auth.issued_at <= t
      /\ authorizations' = Ledger!AuthorizationsClosed({TokenOf(r)}, "REVOKED", t)
      /\ UNCHANGED <<requests, attempts, results>>
      /\ \E revocations \in Ledger!SetToSeqs({Ledger!Revocation(j, t) : j \in {k}}) :
            Ledger!Record(revocations)
  BY <1>3 DEF RevokeAuthority, Ledger!RevokeIssuedForRequest, Auth
<1>5. Ledger!Record(<<e>>)
  <2>1. {Ledger!Revocation(j, t) : j \in {k}} = {e}
    OBVIOUS
  <2>2. ASSUME NEW revocations \in Ledger!SetToSeqs({e}) PROVE revocations = <<e>>
    <3>1. Cardinality({e}) = 1
      BY FS_Singleton
    <3>2. Ledger!Cardinality({e}) = Cardinality({e})
      BY DEF Ledger!Cardinality, Cardinality
    <3>3. revocations \in [1..1 -> {e}]
      BY <3>1, <3>2 DEF Ledger!SetToSeqs
    <3> QED BY <3>3, OneEvent
  <2> QED BY <1>4, <2>1, <2>2
<1>6. outbox' = Append(outbox, e) /\ IsLog(outbox')
  BY <1>1, <1>5, RecordOne
<1>7. /\ dead.state = "REVOKED" /\ dead.closed_at = t
      /\ dead.decision = auth.decision /\ dead.issued_at = auth.issued_at
      /\ \A q \in Requests \ {r} : Auth(q)' = Auth(q)
  BY <1>1, <1>4, ClosedAuthorization
<1>8. \A q \in Requests : /\ requests'[q] = requests[q] /\ results'[q] = results[q]
                          /\ Try(q)' = Try(q)
  BY <1>4 DEF Try
<1>9. EventsHeld(r)'
  <2>1. Logged(outbox, r, k, AttemptOf(r), req, auth, try, res)
    BY <1>1 DEF EventsHeld
  <2>2. Logged(outbox', r, k, AttemptOf(r), req, dead, try, res)
    BY <1>1, <1>2, <1>6, <1>7, <2>1, RevokeLogged
  <2> QED BY <1>1, <1>8, <2>2 DEF EventsHeld
<1>10. req.state = "AUTHORIZED" /\ res.disposition = "ABSENT"
  <2>1. req.state \in Ledger!RequestStates \cup {"ABSENT"}
    BY <1>1, RowsTyped DEF Ledger!RequestRow, Ledger!Absent
  <2> QED BY <1>1, <1>2, <2>1
          DEF RowsHeld, RecordsHeld, Coherent, Ledger!RequestStates, Ledger!OpenAttemptStates
<1>11. RecordsHeld(r)'
  <2>1. Coherent(req, dead, try)
    BY <1>1, <1>2, <1>7, <1>10 DEF RecordsHeld, Coherent
  <2>2. Dated(req, dead, try, res)
    BY <1>1, <1>2, <1>4, <1>7, <1>10 DEF RecordsHeld, Dated, Ledger!TerminalAttemptStates
  <2>3. Repeated(AttemptOf(r), dead, try, res)
    BY <1>10 DEF Repeated
  <2> QED BY <1>1, <1>8, <2>1, <2>2, <2>3 DEF RecordsHeld
<1>12. About(e, r) /\ e.type # "ADAPTER_RECEIPT_RECORDED"
  BY DEF About, AuthorizationEvents, Ledger!Revocation, Ledger!Event
<1> QED BY <1>1, <1>6, <1>7, <1>8, <1>9, <1>11, <1>12, AcceptedFrame

\* Closing the attempt of one request.
LEMMA ClosedAttempt ==
  ASSUME StageTyped, NEW r \in Requests, NEW state, NEW receipt, NEW t,
         attempts' = Ledger!AttemptsClosed({AttemptOf(r)}, state, receipt, t),
         receipt = Null => Try(r).receipt = Null
  PROVE  /\ Try(r)'.state = state /\ Try(r)'.completed_at = t /\ Try(r)'.receipt = receipt
         /\ Try(r)'.token = Try(r).token /\ Try(r)'.reserved_at = Try(r).reserved_at
         /\ \A q \in Requests \ {r} : Try(q)' = Try(q)
<1>1. AttemptOf(r) \in StageAttempts /\ Try(r) \in Ledger!AttemptRow
  BY RowsTyped
<1>2. \A a \in StageAttempts :
         attempts'[a] = IF a = AttemptOf(r)
                        THEN [attempts[a] EXCEPT !.state = state, !.completed_at = t,
                                  !.receipt = Ledger!ReceiptKept(a, receipt)]
                        ELSE attempts[a]
  BY Zenon DEF Ledger!AttemptsClosed
<1>3. Try(r)' = [Try(r) EXCEPT !.state = state, !.completed_at = t,
                               !.receipt = Ledger!ReceiptKept(AttemptOf(r), receipt)]
  BY <1>1, <1>2, Zenon DEF Try
<1>4. Ledger!ReceiptKept(AttemptOf(r), receipt) = receipt
  BY DEF Ledger!ReceiptKept, Try
<1>5. \A a \in StageAttempts \ {AttemptOf(r)} : attempts'[a] = attempts[a]
  BY <1>2, Zenon
<1>6. \A q \in Requests \ {r} : Try(q)' = Try(q)
  BY <1>1, <1>5, Identifiers DEF Try
<1> QED BY <1>1, <1>3, <1>4, <1>6 DEF Ledger!AttemptRow

\* complete_request for a request without an attempt.
LEMMA CloseUnattempted ==
  ASSUME StageInvariant, Accepted, NEW r \in Requests, NEW sha, NEW final \in Results,
         final.disposition \in Ledger!Dispositions, final.attempt = Null,
         Ledger!CompleteRequest(r, sha, final)
  PROVE  Accepted' /\ Timed
<1> PICK req, auth, try, res, moved, t :
      /\ req = requests[r] /\ auth = Auth(r) /\ try = Try(r) /\ res = results[r]
      /\ moved = requests'[r] /\ t = final.terminal_at
  OBVIOUS
<1> PICK e : e = Ledger!Event("REQUEST_TERMINAL", r, <<final>>, t)
  OBVIOUS
<1>1. /\ StageTyped /\ IsLog(outbox) /\ t \in Ledger!Times
      /\ RowsHeld(r) /\ RecordsHeld(r) /\ EventsHeld(r)
  BY DEF StageInvariant, HistoryHeld, Accepted, Results, Ledger!ResultRow
<1>2. /\ Ledger!ResultWellFormed(final) /\ Ledger!NoEffectMayClose(r, final)
      /\ req.updated_at <= t
      /\ results' = [results EXCEPT ![r] = final]
      /\ requests' = Ledger!RequestMoved(r, "TERMINAL", t)
      /\ UNCHANGED <<authorizations, attempts>>
      /\ Ledger!Record(<<e>>)
  <2>1. <<>> \o <<e>> = <<e>>
    OBVIOUS
  <2> QED BY <2>1 DEF Ledger!CompleteRequest
<1>3. /\ req.state \in {"CLAIMED", "AUTHORIZED"}
      /\ auth.state # "ABSENT" =>
            /\ final.disposition # "DENIED_NO_EFFECT" /\ auth.state = "REVOKED"
            /\ auth.closed_at <= t
  BY <1>2, OwnRows DEF Ledger!NoEffectMayClose, Auth
<1>4. final.disposition \in Ledger!UnattemptedDispositions
  BY <1>2 DEF Ledger!ResultWellFormed
<1>5. try.state = "ABSENT" /\ res.disposition = "ABSENT"
  BY <1>1, <1>3 DEF RowsHeld
<1>6. outbox' = Append(outbox, e) /\ IsLog(outbox')
  BY <1>1, <1>2, RecordOne
<1>7. /\ moved.state = "TERMINAL" /\ moved.updated_at = t
      /\ moved.sha = req.sha /\ moved.claimed_at = req.claimed_at
      /\ \A q \in Requests \ {r} : requests'[q] = requests[q]
  BY <1>1, <1>2, MovedRow
<1>8. /\ results'[r] = final /\ \A q \in Requests \ {r} : results'[q] = results[q]
      /\ \A q \in Requests : Auth(q)' = Auth(q) /\ Try(q)' = Try(q)
  BY <1>1, <1>2 DEF StageTyped, Ledger!TypeOK, Auth, Try
<1>9. EventsHeld(r)'
  <2>1. Logged(outbox, r, TokenOf(r), AttemptOf(r), req, auth, try, res)
    BY <1>1 DEF EventsHeld
  <2>2. RequestLogged(outbox, r, moved, res)
    BY <1>3, <1>7, <2>1, MovedLogged DEF Logged
  <2>3. final.disposition # "ABSENT"
    BY <1>4 DEF Ledger!UnattemptedDispositions
  <2>4. Logged(outbox', r, TokenOf(r), AttemptOf(r), moved, auth, try, final)
    BY <1>1, <1>3, <1>5, <1>6, <1>7, <2>1, <2>2, <2>3, DenyLogged
  <2> QED BY <1>8, <2>4 DEF EventsHeld
<1>10. RecordsHeld(r)'
  <2>1. Coherent(moved, auth, try)
    BY <1>1, <1>3, <1>5, <1>7 DEF RecordsHeld, Coherent
  <2>2. Dated(moved, auth, try, final)
    <3>1. /\ req.claimed_at <= req.updated_at
          /\ req.claimed_at \in Ledger!Times /\ req.updated_at \in Ledger!Times
      BY <1>1, RowsTyped DEF RecordsHeld, Dated, Ledger!RequestRow
    <3>2. req.claimed_at <= t
      BY <1>1, <1>2, <3>1 DEF Ledger!Times
    <3> QED BY <1>1, <1>5, <1>7, <3>2 DEF RecordsHeld, Dated, Ledger!TerminalAttemptStates
  <2>3. Repeated(AttemptOf(r), auth, try, final)
    BY <1>3, <1>4, <1>5 DEF Repeated, Ledger!UnattemptedDispositions
  <2> QED BY <1>8, <2>1, <2>2, <2>3 DEF RecordsHeld
<1>11. About(e, r) /\ e.type # "ADAPTER_RECEIPT_RECORDED"
  BY DEF About, RequestEvents, Ledger!Event
<1> QED BY <1>6, <1>7, <1>8, <1>9, <1>10, <1>11, AcceptedFrame

\* complete_request for an attempt whose receipt, if any, was on record by then.
LEMMA CloseAttempted ==
  ASSUME StageInvariant, Accepted, NEW r \in Requests, NEW sha, NEW final \in Results,
         final.disposition \in Ledger!Dispositions, final.attempt = AttemptOf(r),
         SeenBy(outbox, AttemptOf(r), final.terminal_at),
         Ledger!CompleteRequest(r, sha, final)
  PROVE  Accepted' /\ Timed
<1> PICK a, t, state :
      /\ a = AttemptOf(r) /\ t = final.terminal_at
      /\ state = Ledger!AttemptStateFor(final.disposition)
  OBVIOUS
<1> PICK req, auth, try, res, moved, done :
      /\ req = requests[r] /\ auth = Auth(r) /\ try = Try(r) /\ res = results[r]
      /\ moved = requests'[r] /\ done = Try(r)'
  OBVIOUS
<1> PICK e, f :
      /\ e = Ledger!Event("ATTEMPT_TERMINAL", a, <<state, final.receipt>>, t)
      /\ f = Ledger!Event("REQUEST_TERMINAL", r, <<final>>, t)
  OBVIOUS
<1>1. /\ StageTyped /\ IsLog(outbox) /\ t \in Ledger!Times /\ a # Null
      /\ HistoryHeld(r) /\ RowsHeld(r) /\ RecordsHeld(r) /\ EventsHeld(r)
  BY Identifiers DEF StageInvariant, HistoryHeld, Accepted, Results, Ledger!ResultRow
<1>2. /\ Ledger!ResultWellFormed(final) /\ Ledger!AttemptMayClose(r, final)
      /\ req.updated_at <= t
      /\ results' = [results EXCEPT ![r] = final]
      /\ requests' = Ledger!RequestMoved(r, "TERMINAL", t)
      /\ attempts' = Ledger!AttemptsClosed({AttemptOf(r)}, state, final.receipt, t)
      /\ UNCHANGED authorizations
      /\ Ledger!Record(<<e>> \o <<f>>)
  BY <1>1 DEF Ledger!CompleteRequest
<1>3. final.disposition \in Ledger!AttemptedDispositions /\ state \in Ledger!TerminalAttemptStates
  <2>1. final.disposition \in Ledger!AttemptedDispositions
    BY <1>1, <1>2 DEF Ledger!ResultWellFormed, Ledger!Dispositions
  <2> QED BY <2>1 DEF Ledger!AttemptStateFor, Ledger!AttemptedDispositions,
          Ledger!TerminalAttemptStates
<1>4. /\ req.state = "ATTEMPT_RESERVED" /\ try.reserved_at <= t
      /\ final.decision = authorizations[try.token].decision
      /\ \/ try.state = "RECEIPT_RECORDED" /\ final.receipt = try.receipt
         \/ try.state = "RESERVED" /\ final.receipt = Null
  BY <1>2 DEF Ledger!AttemptMayClose, Try
<1>5. try.token = TokenOf(r) /\ final.decision = auth.decision
      /\ final.receipt = try.receipt /\ res.disposition = "ABSENT"
  BY <1>1, <1>4 DEF HistoryHeld, RowsHeld, EffectHeld, Auth
<1>6. outbox' = Append(Append(outbox, e), f) /\ IsLog(outbox')
  BY <1>1, <1>2, RecordTwo
<1>7. /\ moved.state = "TERMINAL" /\ moved.updated_at = t
      /\ moved.sha = req.sha /\ moved.claimed_at = req.claimed_at
      /\ \A q \in Requests \ {r} : requests'[q] = requests[q]
  BY <1>1, <1>2, MovedRow
<1>8. /\ done.state = state /\ done.completed_at = t /\ done.receipt = final.receipt
      /\ done.token = try.token /\ done.reserved_at = try.reserved_at
      /\ \A q \in Requests \ {r} : Try(q)' = Try(q)
  BY <1>1, <1>2, <1>5, ClosedAttempt
<1>9. /\ results'[r] = final /\ \A q \in Requests \ {r} : results'[q] = results[q]
      /\ \A q \in Requests : Auth(q)' = Auth(q)
  BY <1>1, <1>2 DEF StageTyped, Ledger!TypeOK, Auth
<1>10. EventsHeld(r)'
  <2>1. Logged(outbox, r, TokenOf(r), a, req, auth, try, res)
    BY <1>1 DEF EventsHeld
  <2>2. RequestLogged(outbox, r, moved, res)
    BY <1>4, <1>7, <2>1, MovedLogged DEF Logged
  <2>3. final.disposition # "ABSENT" /\ try.state \in Ledger!OpenAttemptStates
    BY <1>3, <1>4 DEF Ledger!AttemptedDispositions, Ledger!OpenAttemptStates
  <2>4. /\ e = Ledger!Event("ATTEMPT_TERMINAL", a, <<done.state, done.receipt>>,
                            done.completed_at)
        /\ f = Ledger!Event("REQUEST_TERMINAL", r, <<final>>, final.terminal_at)
        /\ SeenBy(outbox, a, done.completed_at) /\ done.receipt = try.receipt
    BY <1>5, <1>8
  <2>5. Logged(Append(Append(outbox, e), f), r, TokenOf(r), a, moved, auth, done, final)
    BY <1>1, <1>3, <1>4, <1>5, <1>7, <1>8, <2>1, <2>2, <2>3, <2>4, CloseLogged, Zenon
  <2> QED BY <1>6, <1>9, <2>5 DEF EventsHeld
<1>11. RecordsHeld(r)'
  <2>1. Coherent(moved, auth, done)
    BY <1>1, <1>3, <1>4, <1>7, <1>8
    DEF RecordsHeld, Coherent, Ledger!TerminalAttemptStates
  <2>2. Dated(moved, auth, done, final)
    <3>1. /\ req.claimed_at <= req.updated_at
          /\ req.claimed_at \in Ledger!Times /\ req.updated_at \in Ledger!Times
      BY <1>1, RowsTyped DEF RecordsHeld, Dated, Ledger!RequestRow
    <3>2. req.claimed_at <= t
      BY <1>1, <1>2, <3>1 DEF Ledger!Times
    <3>3. try.state # "ABSENT"
      BY <1>4
    <3> QED BY <1>1, <1>4, <1>7, <1>8, <3>2, <3>3 DEF RecordsHeld, Dated
  <2>3. Repeated(a, auth, done, final)
    BY <1>1, <1>3, <1>5, <1>8 DEF Repeated, Ledger!TerminalAttemptStates
  <2> QED BY <1>9, <2>1, <2>2, <2>3 DEF RecordsHeld
<1>12. About(e, r) /\ About(f, r)
      /\ e.type # "ADAPTER_RECEIPT_RECORDED" /\ f.type # "ADAPTER_RECEIPT_RECORDED"
  BY DEF About, RequestEvents, AttemptEvents, Ledger!Event
<1> QED BY <1>6, <1>7, <1>8, <1>9, <1>10, <1>11, <1>12, AcceptedFrame, SMTT(30)

\* complete_request in process_json and in a recovery: whatever closes an attempt
\* does so when its receipt has been recorded.
LEMMA CommitAccepted ==
  ASSUME StageInvariant, Accepted, ReceiptsTimely, CommitDenial \/ CommitOutcome \/ CommitRecovery
  PROVE  Accepted' /\ Timed
<1> PICK r : r = op.request
  OBVIOUS
<1>0. op # Idle
  BY DEF CommitDenial, CommitOutcome, CommitRecovery, At, Idle
<1>1. /\ r \in Requests /\ StageTyped /\ AttemptOf(r) # Null /\ Null \notin StageAttempts
  BY <1>0, OperationRows, Identifiers DEF StageInvariant
<1>2. CASE CommitDenial
  <2> PICK final : final = Result("DENIED_NO_EFFECT", DecisionOf(r), Null, Null, clock)
    OBVIOUS
  <2>1. final \in Results /\ final.attempt = Null /\ final.disposition \in Ledger!Dispositions
    <3>1. clock \in Ledger!Times /\ DecisionOf(r) \in StageDecisions
      BY <1>0, <1>1, OperationFields, Identifiers
    <3> QED BY <3>1 DEF Results, Result, Ledger!ResultRow, Ledger!Dispositions,
            Ledger!UnattemptedDispositions
  <2>2. Ledger!CompleteRequest(r, op.sha, final)
    BY <1>2 DEF CommitDenial
  <2> QED BY <1>1, <2>1, <2>2, CloseUnattempted
<1>3. CASE CommitOutcome
  <2>1. PICK rcpt \in ReceiptsUnder(AttemptOf(r)) :
          Ledger!CompleteRequest(r, op.sha,
              Result(DispositionOf(rcpt), DecisionOf(r), AttemptOf(r), rcpt, clock))
    BY <1>3 DEF CommitOutcome
  <2> PICK final : final = Result(DispositionOf(rcpt), DecisionOf(r), AttemptOf(r), rcpt, clock)
    OBVIOUS
  <2>2. /\ final \in Results /\ final.disposition \in Ledger!Dispositions
        /\ final.attempt = AttemptOf(r) /\ final.terminal_at = clock
    BY <1>0, <1>1, ReceiptsUnderTyped, OutcomeTyped DEF Result
  <2>3. SeenBy(outbox, AttemptOf(r), final.terminal_at)
    BY <1>1, <2>2 DEF ReceiptsTimely, PresentTimely
  <2> QED BY <1>1, <2>1, <2>2, <2>3, CloseAttempted
<1>4. CASE CommitRecovery
  <2> PICK final : final = RecoveryResult(r)
    OBVIOUS
  <2>1. /\ final \in Results /\ final.disposition \in Ledger!Dispositions
        /\ final.attempt \in {Null, AttemptOf(r)} /\ final.terminal_at = op.time
    BY <1>0, <1>1, RecoveryTyped DEF RecoveryResult, Result
  <2>2. Ledger!CompleteRequest(r, op.sha, final)
    BY <1>4 DEF CommitRecovery
  <2>3. SeenBy(outbox, AttemptOf(r), final.terminal_at)
    BY <1>4, <2>1 DEF ReceiptsTimely, RecoveryTimely, CommitRecovery, At
  <2>4. CASE final.attempt = Null
    BY <1>1, <2>1, <2>2, <2>4, CloseUnattempted
  <2>5. CASE final.attempt = AttemptOf(r)
    BY <1>1, <2>1, <2>2, <2>3, <2>5, CloseAttempted
  <2> QED BY <2>1, <2>4, <2>5
<1> QED BY <1>2, <1>3, <1>4

\* The other steps leave the ledger as it is.
QuietSteps ==
    \/ Submitting \/ Reject \/ Validate \/ RefuseBeforeClaim \/ ClaimRefused \/ Deny
    \/ BrokerRejects \/ Execute \/ BrokerFails \/ Verify \/ LeaveOpen
    \/ Reconciling \/ AppendRecoveryRecord \/ Interrupt

\* See QuietSteps.
LEMMA QuietAccepted ==
  ASSUME Accepted, QuietSteps \/ ClockMoves \/ UNCHANGED svars
  PROVE  Accepted' /\ Timed /\ UNCHANGED <<requests, outbox>>
<1>1. UNCHANGED <<requests, authorizations, attempts, results, outbox>>
  <2>1. CASE QuietSteps
    <3>1. ASSUME Submitting \/ Reject \/ Validate \/ RefuseBeforeClaim \/ ClaimRefused \/ Deny
          PROVE  UNCHANGED ledgerStore
      BY <3>1, Zenon DEF Submitting, Submit, Reject, Validate, RefuseBeforeClaim, ClaimRefused, Deny
    <3>2. ASSUME BrokerRejects \/ Execute \/ BrokerFails \/ Verify \/ LeaveOpen
          PROVE  UNCHANGED ledgerStore
      BY <3>2, Zenon DEF BrokerRejects, Execute, BrokerFails, Verify, LeaveOpen
    <3>3. ASSUME Reconciling \/ AppendRecoveryRecord \/ Interrupt PROVE UNCHANGED ledgerStore
      BY <3>3, Zenon DEF Reconciling, StartReconcile, AppendRecoveryRecord, Interrupt
    <3>4. UNCHANGED ledgerStore
      BY <2>1, <3>1, <3>2, <3>3, Zenon DEF QuietSteps
    <3> QED BY <3>4 DEF ledgerStore
  <2>2. CASE ClockMoves
    BY <2>2 DEF ClockMoves, Ledger!ClockMoves, Ledger!tables
  <2>3. CASE UNCHANGED svars
    BY <2>3 DEF svars, ledgerStore
  <2> QED BY <2>1, <2>2, <2>3
<1> QED BY <1>1, AcceptedQuiet DEF Timed, Try

\* The steps of StageNext, by what they do to the ledger.
LEMMA StepKinds ==
  ASSUME StageNext
  PROVE  \/ QuietSteps \/ ClockMoves \/ Claim \/ Authorize \/ Consume \/ RevokeAuthority
         \/ CommitDenial \/ CommitOutcome \/ CommitRecovery \/ RecordReceipt \/ RecoverReceipt
  BY Zenon DEF StageNext, Process, Recover, QuietSteps

\* What the ledger and its log say of every request stays what its validator accepts.
LEMMA NextAccepted ==
  ASSUME StageInvariant, Accepted, ReceiptsTimely, [StageNext]_svars
  PROVE  Accepted'
  BY StepKinds, QuietAccepted, ClaimAccepted, AuthorizeAccepted, ConsumeAccepted,
     RevokeAccepted, CommitAccepted, ReceiptAccepted, Zenon

\* What was recorded by some time was recorded by any later time.
LEMMA SeenLater ==
  ASSUME Accepted, NEW r \in Requests, NEW t \in Ledger!Times, NEW u \in Ledger!Times, t <= u,
         SeenBy(outbox, AttemptOf(r), t)
  PROVE  SeenBy(outbox, AttemptOf(r), u)
<1>1. AttemptLogged(outbox, AttemptOf(r), Try(r))
  BY DEF Accepted, EventsHeld, Logged
<1>2. ASSUME NEW i \in Places(outbox, "ADAPTER_RECEIPT_RECORDED", AttemptOf(r))
      PROVE  outbox[i].at <= u
  <2>1. Try(r).receipt # Null
    BY <1>1 DEF AttemptLogged, Missing
  <2>2. outbox[i].at \in Ledger!Times
    BY <1>1, <2>1 DEF AttemptLogged, Present, Ledger!Event
  <2>3. outbox[i].at <= t
    BY DEF SeenBy
  <2> QED BY <2>2, <2>3, StageAAssumption DEF Ledger!Times
<1> QED BY <1>2 DEF SeenBy

\* Only the environment moves the clock.
LEMMA ClockHeld ==
  ASSUME [StageNext]_svars, ~ClockMoves
  PROVE  clock' = clock
<1>1. CASE QuietSteps
  <2>1. ASSUME Submitting \/ Reject \/ Validate \/ RefuseBeforeClaim \/ ClaimRefused \/ Deny
        PROVE  clock' = clock
    BY <2>1, Zenon DEF Submitting, Submit, Reject, Validate, RefuseBeforeClaim, ClaimRefused, Deny
  <2>2. ASSUME BrokerRejects \/ Execute \/ BrokerFails \/ Verify \/ LeaveOpen
        PROVE  clock' = clock
    BY <2>2, Zenon DEF BrokerRejects, Execute, BrokerFails, Verify, LeaveOpen
  <2>3. ASSUME Reconciling \/ AppendRecoveryRecord \/ Interrupt PROVE clock' = clock
    BY <2>3, Zenon DEF Reconciling, StartReconcile, AppendRecoveryRecord, Interrupt
  <2> QED BY <1>1, <2>1, <2>2, <2>3, Zenon DEF QuietSteps
<1>2. CASE Claim \/ Authorize \/ Consume \/ RevokeAuthority \/ CommitDenial \/ CommitOutcome
           \/ CommitRecovery \/ RecordReceipt \/ RecoverReceipt
  BY <1>2, Zenon DEF Claim, Authorize, Consume, RevokeAuthority, CommitDenial, CommitOutcome,
     CommitRecovery, RecordReceipt, RecoverReceipt
<1>3. CASE UNCHANGED svars
  BY <1>3 DEF svars
<1> QED BY <1>1, <1>2, <1>3, StepKinds, Zenon

\* What a step records, it records no later than the present.
LEMMA PresentNext ==
  ASSUME ~ClockMayStepBack, StageInvariant, Accepted, ReceiptsTimely, [StageNext]_svars
  PROVE  PresentTimely'
<1>0. /\ StageTyped /\ clock \in Ledger!Times /\ MaxTime \in Nat
      /\ \A q \in Requests : Try(q).reserved_at \in Ledger!Times
  BY RowsTyped, StageAAssumption
  DEF StageInvariant, StageTyped, Ledger!TypeOK, Ledger!AttemptRow
<1>1. PresentTimely
  BY DEF ReceiptsTimely
<1>2. CASE ClockMoves
  <2>1. clock' > clock /\ clock' \in Ledger!Times /\ outbox' = outbox /\ attempts' = attempts
    BY <1>2, Zenon DEF ClockMoves, Ledger!ClockMoves, Ledger!tables
  <2>2. ASSUME NEW q \in Requests
        PROVE  SeenBy(outbox', AttemptOf(q), clock') /\ attempts'[AttemptOf(q)].reserved_at <= clock'
    <3>1. SeenBy(outbox, AttemptOf(q), clock) /\ Try(q).reserved_at <= clock
      BY <1>1 DEF PresentTimely
    <3>2. clock <= clock'
      BY <1>0, <2>1 DEF Ledger!Times
    <3>3. SeenBy(outbox, AttemptOf(q), clock')
      BY <1>0, <2>1, <3>1, <3>2, SeenLater
    <3>4. Try(q).reserved_at <= clock'
      BY <1>0, <3>1, <2>1, <3>2 DEF Ledger!Times
    <3> QED BY <2>1, <3>3, <3>4 DEF Try
  <2> QED BY <2>2 DEF PresentTimely, Try
<1>3. CASE ~ClockMoves
  <2>1. clock' = clock
    BY <1>3, ClockHeld
  <2>2. CASE RecordReceipt \/ RecoverReceipt
    <3>0. op # Idle /\ op.request \in Requests
      BY <1>0, <2>2, OperationFields DEF RecordReceipt, RecoverReceipt, At, Idle
    <3>1. StampedAt <= clock
      <4>1. CASE RecordReceipt
        BY <1>1, <3>0, <4>1 DEF RecordReceipt, StampedAt, AttemptedAt, PresentTimely, Try
      <4>2. CASE RecoverReceipt
        BY <4>2 DEF RecoverReceipt, At, StampedAt, ReceiptsTimely, RecoveryTimely
      <4> QED BY <2>2, <4>1, <4>2
    <3>2. /\ \A q \in Requests : Try(q)'.reserved_at = Try(q).reserved_at
          /\ \A a, t : SeenBy(outbox, a, t) /\ (a = AttemptOf(op.request) => StampedAt <= t)
                => SeenBy(outbox', a, t)
      BY <2>2, ReceiptAccepted
    <3>3. \A q \in Requests : SeenBy(outbox', AttemptOf(q), clock)
      BY <1>1, <3>1, <3>2 DEF PresentTimely
    <3> QED BY <1>1, <2>1, <3>2, <3>3 DEF PresentTimely
  <2>3. CASE ~(RecordReceipt \/ RecoverReceipt)
    <3>1. Timed
      BY <1>3, <2>3, StepKinds, QuietAccepted, ClaimAccepted, AuthorizeAccepted, ConsumeAccepted,
         RevokeAccepted, CommitAccepted, Zenon
    <3>2. clock <= clock
      BY <1>0 DEF Ledger!Times
    <3> QED BY <1>1, <2>1, <3>1, <3>2 DEF PresentTimely, Timed
  <2> QED BY <2>2, <2>3
<1> QED BY <1>2, <1>3

\* process_json leaves its own lifecycle at the tail of the audit.
LEMMA ProcessTail ==
  ASSUME StageTyped, TailOwned, Process \/ Submitting
  PROVE  op'.at # "RECOVERING" /\ PendingRecoveries' = {}
<1>1. StageTyped' /\ TailOwned'
  BY NextTyped DEF StageNext
<1>2. CASE op'.at \in Processing
  <2>1. audit'[TailIndex'].kind = "ordinary"
    BY <1>1, <1>2 DEF TailOwned
  <2>2. PendingRecoveries' = {}
    BY <2>1 DEF PendingRecoveries, RecoveryOnes, OrdinaryOnes, TailIndex
  <2> QED BY <1>2, <2>2 DEF Processing
<1>3. CASE Reject \/ RefuseBeforeClaim \/ ClaimRefused
  <2>1. op.at \in Processing /\ op # Idle /\ op' = Idle
    BY <1>3 DEF Reject, RefuseBeforeClaim, ClaimRefused, At, Processing, Idle
  <2>2. DecisionOf(op.request) \in StageDecisions
    BY <2>1, OperationFields, Identifiers
  <2>3. PICK decision \in StageDecisions \cup {Null}, marks \in SUBSET {"REJECTED", "EVALUATED"} :
           CloseLifecycle(decision, marks)
    <3>1. {"REJECTED"} \in SUBSET {"REJECTED", "EVALUATED"}
          /\ SUBSET {"REJECTED"} \subseteq SUBSET {"REJECTED", "EVALUATED"}
      OBVIOUS
    <3> QED BY <1>3, <2>2, <3>1, Zenon DEF Reject, RefuseBeforeClaim, ClaimRefused
  <2>4. audit # <<>> /\ audit[TailIndex].kind = "ordinary"
    BY <2>1 DEF TailOwned
  <2>5. Len(audit') = Len(audit) /\ audit'[TailIndex].kind = "ordinary"
    BY <2>3, <2>4, ClosedTyped
  <2>6. PendingRecoveries' = {}
    BY <2>5 DEF PendingRecoveries, RecoveryOnes, OrdinaryOnes, TailIndex
  <2> QED BY <2>1, <2>6 DEF Idle
<1>4. CASE CommitDenial \/ CommitOutcome \/ LeaveOpen
  <2>1. op.at \in Processing /\ op' = Idle /\ audit' = audit
    BY <1>4 DEF CommitDenial, CommitOutcome, LeaveOpen, At, Processing
  <2>2. audit[TailIndex].kind = "ordinary"
    BY <2>1 DEF TailOwned
  <2>3. PendingRecoveries' = {}
    BY <2>1, <2>2 DEF PendingRecoveries, RecoveryOnes, OrdinaryOnes, TailIndex
  <2> QED BY <2>1, <2>3 DEF Idle
<1>5. CASE Submitting
  <2>1. PICK r, sha : op' = [Idle EXCEPT !.at = "RECEIVED", !.request = r, !.sha = sha]
    BY <1>5, Zenon DEF Submitting, Submit
  <2>2. op'.at = "RECEIVED"
    BY <2>1 DEF Idle
  <2> QED BY <1>2, <2>2 DEF Processing
<1>6. CASE Validate \/ Claim \/ Deny \/ Authorize \/ BrokerRejects \/ Consume \/ Execute
           \/ BrokerFails \/ RecordReceipt \/ Verify
  <2>1. PICK place \in Processing : At(place)
    <3>1. {"RECEIVED", "VALIDATED", "CLAIMED", "AUTHORIZED", "RESERVED", "EXECUTED",
           "RECEIPTED"} \subseteq Processing
      BY DEF Processing
    <3> QED BY <1>6, <3>1, Zenon DEF Validate, Claim, Deny, Authorize, BrokerRejects, Consume,
            Execute, BrokerFails, RecordReceipt, Verify
  <2>2. op # Idle /\ op \in Operations
    <3>1. op # Idle
      BY <2>1 DEF At, Processing, Idle
    <3> QED BY <3>1, BusyOperation
  <2>3. ASSUME NEW next \in Processing, Goto(next) PROVE op'.at \in Processing
    BY <2>2, <2>3 DEF Goto, Operations, OperationRow
  <2>4. CASE Deny \/ BrokerRejects \/ BrokerFails \/ Claim \/ Consume \/ Execute \/ RecordReceipt
    <3>1. {"FINISHED", "CLAIMED", "RESERVED", "EXECUTED", "RECEIPTED"} \subseteq Processing
      BY DEF Processing
    <3>2. \E next \in Processing : Goto(next)
      BY <2>4, <3>1, Zenon DEF Deny, BrokerRejects, BrokerFails, Claim, Consume, Execute, RecordReceipt
    <3> QED BY <1>2, <2>3, <3>2
  <2>5. CASE Validate
    BY <1>2, <2>2, <2>5 DEF Validate, Processing, Operations, OperationRow
  <2>6. CASE Authorize
    <3>1. PICK command : op' = [op EXCEPT !.at = "AUTHORIZED", !.command = command]
      BY <2>6, Zenon DEF Authorize
    <3> QED BY <1>2, <2>2, <3>1 DEF Processing, Operations, OperationRow
  <2>7. CASE Verify
    <3>1. PICK verified, final :
             op' = [op EXCEPT !.at = "FINISHED", !.verified = verified, !.final = final]
      BY <2>7, Zenon DEF Verify
    <3> QED BY <1>2, <2>2, <3>1 DEF Processing, Operations, OperationRow
  <2> QED BY <1>6, <2>4, <2>5, <2>6, <2>7
<1> QED BY <1>3, <1>4, <1>5, <1>6, Zenon DEF Process

\* A pending recovery froze a time of the clock.
LEMMA FrozenTyped ==
  ASSUME StageTyped, NEW l \in PendingRecoveries
  PROVE  Frozen(l) \in Ledger!Times /\ audit[l].request \in Requests
  BY PendingIsTail DEF RecoveryLifecycle, Results, Ledger!ResultRow, Frozen

\* A step that adds no recovery record and no receipt.
LEMMA PendingKept ==
  ASSUME StageTyped, PendingTimely, audit' = audit, clock' \in Ledger!Times, clock <= clock',
         PendingRecoveries' \subseteq PendingRecoveries,
         \A a, t : SeenBy(outbox, a, t) => SeenBy(outbox', a, t)
  PROVE  PendingTimely'
<1>1. ASSUME NEW l \in PendingRecoveries'
      PROVE  /\ audit'[l].result.terminal_at <= clock'
             /\ SeenBy(outbox', AttemptOf(audit'[l].request), audit'[l].result.terminal_at)
  <2>1. Frozen(l) <= clock /\ SeenBy(outbox, AttemptOf(audit[l].request), Frozen(l))
    BY DEF PendingTimely
  <2>2. Frozen(l) \in Ledger!Times /\ clock \in Ledger!Times
    BY FrozenTyped DEF StageTyped, Ledger!TypeOK
  <2>3. Frozen(l) <= clock'
    BY <2>1, <2>2, StageAAssumption DEF Ledger!Times
  <2> QED BY <2>1, <2>3 DEF Frozen
<1> QED BY <1>1 DEF PendingTimely, Frozen

\* See PendingKept; a recovery in progress goes on.
LEMMA RecoveryKept ==
  ASSUME StageTyped, RecoveryTimely, op' = op, audit' = audit,
         clock' \in Ledger!Times, clock <= clock',
         PendingRecoveries' \subseteq PendingRecoveries,
         \A a, t : SeenBy(outbox, a, t) => SeenBy(outbox', a, t)
  PROVE  RecoveryTimely'
<1> SUFFICES ASSUME op.at = "RECOVERING"
             PROVE  /\ op.time <= clock' /\ SeenBy(outbox', AttemptOf(op.request), op.time)
                    /\ \A l \in PendingRecoveries' : audit'[l].result.terminal_at = op.time
  BY DEF RecoveryTimely, Frozen
<1>1. /\ op.time <= clock /\ SeenBy(outbox, AttemptOf(op.request), op.time)
      /\ \A l \in PendingRecoveries : Frozen(l) = op.time
  BY DEF RecoveryTimely
<1>2. op.time \in Ledger!Times /\ clock \in Ledger!Times
  BY OperationFields DEF StageTyped, Ledger!TypeOK, Idle
<1>3. op.time <= clock'
  BY <1>1, <1>2, StageAAssumption DEF Ledger!Times
<1> QED BY <1>1, <1>3 DEF Frozen

\* A recovery and the tail it works on share one time.
LEMMA RecoveryNext ==
  ASSUME ~ClockMayStepBack, StageInvariant, TailOwned, Accepted, ReceiptsTimely,
         [StageNext]_svars
  PROVE  RecoveryTimely' /\ PendingTimely'
<1>0. /\ StageTyped /\ StageTyped' /\ clock \in Ledger!Times /\ clock' \in Ledger!Times
      /\ PresentTimely /\ RecoveryTimely /\ PendingTimely
  BY NextTyped DEF ReceiptsTimely, StageInvariant, StageTyped, Ledger!TypeOK
<1>a. clock <= clock'
  <2>1. CASE ClockMoves
    BY <1>0, <2>1 DEF ClockMoves, Ledger!ClockMoves, Ledger!Times
  <2>2. CASE ~ClockMoves
    BY <1>0, <2>2, ClockHeld DEF Ledger!Times
  <2> QED BY <2>1, <2>2
<1>1. CASE Process \/ Submitting
  BY <1>0, <1>1, ProcessTail DEF RecoveryTimely, PendingTimely
<1>2. CASE ClockMoves \/ Interrupt \/ UNCHANGED svars
  <2>1. /\ audit' = audit /\ requests' = requests /\ outbox' = outbox
        /\ op' = op \/ op' = Idle
    BY <1>2 DEF ClockMoves, Ledger!ClockMoves, Ledger!tables, Interrupt, svars, ledgerStore
  <2>2. PendingRecoveries' = PendingRecoveries
    BY <2>1 DEF PendingRecoveries, RecoveryOnes, OrdinaryOnes
  <2>3. PendingTimely'
    BY <1>0, <1>a, <2>1, <2>2, PendingKept
  <2>4. RecoveryTimely'
    <3>1. CASE op' = Idle
      BY <3>1 DEF RecoveryTimely, Idle
    <3>2. CASE op' = op
      BY <1>0, <1>a, <2>1, <2>2, <3>2, RecoveryKept
    <3> QED BY <2>1, <3>1, <3>2
  <2> QED BY <2>3, <2>4
<1>3. CASE Reconciling
  <2> PICK r \in Requests, sha \in Digests : StartReconcile(r, sha)
    BY <1>3 DEF Reconciling
  <2>1. /\ audit' = audit /\ requests' = requests /\ outbox' = outbox /\ clock' = clock
        /\ op' = [Idle EXCEPT !.at = "RECOVERING", !.request = r, !.sha = sha,
                              !.time = RecoveryTime]
        /\ \A l \in PendingRecoveries : audit[l].request = r
    BY Zenon DEF StartReconcile, ledgerStore
  <2>2. PendingRecoveries' = PendingRecoveries
    BY <2>1 DEF PendingRecoveries, RecoveryOnes, OrdinaryOnes
  <2>3. PendingTimely'
    BY <1>0, <1>a, <2>1, <2>2, PendingKept
  <2>4. op'.request = r /\ op'.time = RecoveryTime
    BY <2>1 DEF Idle
  <2>5. /\ RecoveryTime <= clock /\ SeenBy(outbox, AttemptOf(r), RecoveryTime)
        /\ \A l \in PendingRecoveries : Frozen(l) = RecoveryTime
    <3>1. CASE PendingRecoveries = {}
      BY <1>0, <3>1 DEF RecoveryTime, PresentTimely, Ledger!Times
    <3>2. CASE PendingRecoveries # {}
      <4>1. PendingRecoveries = {TailIndex}
        BY <1>0, <3>2, PendingIsTail
      <4> QED BY <1>0, <2>1, <3>2, <4>1 DEF RecoveryTime, Frozen, PendingTimely
    <3> QED BY <3>1, <3>2
  <2>6. RecoveryTimely'
    BY <2>1, <2>2, <2>4, <2>5 DEF RecoveryTimely, Frozen
  <2> QED BY <2>3, <2>6
<1>4. CASE RevokeAuthority
  <2>1. audit' = audit /\ requests' = requests /\ op' = op
    BY <1>4 DEF RevokeAuthority, Ledger!RevokeIssuedForRequest
  <2>2. PendingRecoveries' = PendingRecoveries
    BY <2>1 DEF PendingRecoveries, RecoveryOnes, OrdinaryOnes
  <2>3. \A a, t : SeenBy(outbox, a, t) => SeenBy(outbox', a, t)
    BY <1>4, RevokeAccepted DEF Timed
  <2> QED BY <1>0, <1>a, <2>1, <2>2, <2>3, PendingKept, RecoveryKept
<1>5. CASE RecoverReceipt
  <2>1. audit' = audit /\ requests' = requests /\ op' = op /\ clock' = clock
        /\ op.at = "RECOVERING"
    BY <1>5 DEF RecoverReceipt, Ledger!RecordAdapterReceipt, At
  <2>2. PendingRecoveries' = PendingRecoveries
    BY <2>1 DEF PendingRecoveries, RecoveryOnes, OrdinaryOnes
  <2>3. /\ op.time <= clock /\ SeenBy(outbox, AttemptOf(op.request), op.time)
        /\ \A l \in PendingRecoveries : Frozen(l) = op.time
    BY <1>0, <2>1 DEF RecoveryTimely
  <2>4. \A a, t : SeenBy(outbox, a, t) /\ (a = AttemptOf(op.request) => op.time <= t)
           => SeenBy(outbox', a, t)
    BY <1>5, <2>1, ReceiptAccepted DEF StampedAt, At
  <2>5. op.time <= op.time
    BY <1>0, <2>1, OperationFields DEF Ledger!Times, Idle
  <2>6. RecoveryTimely'
    BY <2>1, <2>2, <2>3, <2>4, <2>5 DEF RecoveryTimely, Frozen
  <2>7. PendingTimely'
    BY <1>0, <2>1, <2>2, <2>3, <2>4, <2>5 DEF PendingTimely, Frozen
  <2> QED BY <2>6, <2>7
<1>6. CASE AppendRecoveryRecord
  <2> PICK result : result = RecoveryResult(op.request)
    OBVIOUS
  <2> PICK begun : begun = RecoveryBegun(op.request, op.sha, result)
    OBVIOUS
  <2>1. /\ op' = op /\ op.at = "RECOVERING" /\ clock' = clock /\ outbox' = outbox
        /\ requests' = requests
        /\ \/ PendingRecoveries = {} /\ audit' = Append(audit, begun)
           \/ /\ PendingRecoveries # {} /\ audit[TailIndex].result = result
              /\ audit' = [audit EXCEPT ![TailIndex].rows = @ + 1]
    BY <1>6 DEF AppendRecoveryRecord, At, ledgerStore
  <2>2. /\ op.time <= clock /\ SeenBy(outbox, AttemptOf(op.request), op.time)
    BY <1>0, <2>1 DEF RecoveryTimely
  <2>3. result.terminal_at = op.time
    BY DEF RecoveryResult, Result
  <2>4. \A l \in PendingRecoveries' :
           audit'[l].result.terminal_at = op.time /\ audit'[l].request = op.request
    <3>1. CASE PendingRecoveries = {} /\ audit' = Append(audit, begun)
      <4>1. begun.result = result /\ begun.request = op.request
        BY DEF RecoveryBegun
      <4>2. Len(audit') = Len(audit) + 1 /\ audit'[Len(audit) + 1] = begun
        BY <1>0, <3>1 DEF StageTyped
      <4> QED BY <2>3, <4>1, <4>2 DEF PendingRecoveries
    <3>2. CASE /\ PendingRecoveries # {} /\ audit[TailIndex].result = result
               /\ audit' = [audit EXCEPT ![TailIndex].rows = @ + 1]
      <4>1. /\ TailIndex \in 1..Len(audit) /\ TailIndex \in PendingRecoveries
            /\ audit[TailIndex] \in RecoveryLifecycle
        BY <1>0, <3>2, PendingIsTail
      <4> PICK longer : longer = [audit[TailIndex] EXCEPT !.rows = @ + 1]
        OBVIOUS
      <4>2. longer.result = result /\ longer.request = audit[TailIndex].request
        BY <3>2, <4>1 DEF RecoveryLifecycle
      <4>3. Len(audit') = Len(audit) /\ audit'[Len(audit)] = longer
        <5>1. audit' = [audit EXCEPT ![TailIndex] = longer]
          BY <3>2
        <5>2. longer \in Lifecycles
          BY <4>1 DEF RecoveryLifecycle, Lifecycles
        <5>3. Len(audit') = Len(audit) /\ audit'[TailIndex] = longer
          BY <1>0, <4>1, <5>1, <5>2, ExceptSeq DEF StageTyped
        <5> QED BY <5>3 DEF TailIndex
      <4>4. audit[TailIndex].request = op.request
        BY <2>1, <4>1 DEF TailOwned
      <4> QED BY <2>3, <4>2, <4>3, <4>4 DEF PendingRecoveries
    <3> QED BY <2>1, <3>1, <3>2
  <2>5. RecoveryTimely'
    BY <2>1, <2>2, <2>4 DEF RecoveryTimely, Frozen
  <2>6. PendingTimely'
    BY <2>1, <2>2, <2>4 DEF PendingTimely, Frozen
  <2> QED BY <2>5, <2>6
<1>7. CASE CommitRecovery
  <2>1. /\ audit' = audit /\ op' = Idle
        /\ \E t : requests' = Ledger!RequestMoved(op.request, "TERMINAL", t)
    BY <1>7, Zenon DEF CommitRecovery, Ledger!CompleteRequest
  <2>2. op # Idle
    BY <1>7 DEF CommitRecovery, At, Idle
  <2>3. op.request \in Requests
    BY <1>0, <2>2, OperationFields
  <2>4. /\ requests'[op.request].state = "TERMINAL"
        /\ \A q \in Requests \ {op.request} : requests'[q] = requests[q]
    BY <1>0, <2>1, <2>3, MovedRow
  <2>5. PendingRecoveries' \subseteq PendingRecoveries
    <3>1. ASSUME NEW l \in PendingRecoveries' PROVE l \in PendingRecoveries
      <4>1. /\ l = Len(audit) /\ l \in RecoveryOnes
            /\ \/ audit[l].rows < RecoveryRows
               \/ requests'[audit[l].request].state # "TERMINAL"
        BY <2>1 DEF PendingRecoveries, RecoveryOnes, OrdinaryOnes
      <4>2. audit[l].request \in Requests
        <5>1. audit[l] \in Lifecycles /\ audit[l].kind # "ordinary"
          BY <1>0, <4>1 DEF StageTyped, RecoveryOnes, OrdinaryOnes
        <5> QED BY <5>1 DEF Lifecycles, OrdinaryLifecycle, RecoveryLifecycle
      <4> QED BY <2>4, <4>1, <4>2 DEF PendingRecoveries
    <3> QED BY <3>1
  <2>6. \A a, t : SeenBy(outbox, a, t) => SeenBy(outbox', a, t)
    BY <1>7, CommitAccepted DEF Timed
  <2>7. PendingTimely'
    BY <1>0, <1>a, <2>1, <2>5, <2>6, PendingKept
  <2>8. RecoveryTimely'
    BY <2>1 DEF RecoveryTimely, Idle
  <2> QED BY <2>7, <2>8
<1> QED BY <1>1, <1>2, <1>3, <1>4, <1>5, <1>6, <1>7 DEF StageNext, Recover

\* A step keeps the times in order.
LEMMA TimelyNext ==
  ASSUME ~ClockMayStepBack, StageInvariant, TailOwned, Accepted, ReceiptsTimely,
         [StageNext]_svars
  PROVE  ReceiptsTimely'
  BY PresentNext, RecoveryNext DEF ReceiptsTimely

\* The empty ledger has an empty log.
LEMMA InitAccepted == StageInit => AcceptedInvariant
<1> SUFFICES ASSUME StageInit PROVE AcceptedInvariant
  OBVIOUS
<1>1. outbox = <<>> /\ op = Idle /\ audit = <<>> /\ clock = 0
  BY DEF StageInit, Ledger!Init
<1>2. IsLog(outbox)
  <2>1. <<>> \in Seq({})
    OBVIOUS
  <2> QED BY <1>1, <2>1 DEF IsLog
<1>3. \A type, subject : Places(outbox, type, subject) = {}
  BY <1>1 DEF Places
<1>4. ASSUME NEW r \in Requests PROVE RecordsHeld(r) /\ EventsHeld(r)
  <2>1. Auth(r) = Ledger!NoAuthorization /\ Try(r) = Ledger!NoAttempt
        /\ requests[r] = Ledger!NoRequest /\ results[r] = Ledger!NoResult
    BY <1>4, Identifiers DEF StageInit, Ledger!Init, Auth, Try
  <2>2. RecordsHeld(r)
    BY <2>1 DEF RecordsHeld, Coherent, Dated, Repeated, Ledger!NoAuthorization,
       Ledger!NoAttempt, Ledger!NoRequest, Ledger!NoResult, Ledger!Absent,
       Ledger!TerminalAttemptStates
  <2>3. InOrder(outbox, r, TokenOf(r), AttemptOf(r))
    BY <1>3 DEF InOrder, Before
  <2>4. EventsHeld(r)
    BY <1>3, <2>1, <2>3 DEF EventsHeld, Logged, RequestLogged, AuthorizationLogged, AttemptLogged,
       Missing, Ledger!NoAuthorization, Ledger!NoAttempt, Ledger!NoRequest, Ledger!NoResult,
       Ledger!Absent, Ledger!TerminalAttemptStates
  <2> QED BY <2>2, <2>4
<1>5. PresentTimely
  <2>1. \A r \in Requests : Try(r).reserved_at = 0
    BY Identifiers DEF StageInit, Ledger!Init, Ledger!NoAttempt, Try
  <2> QED BY <1>1, <1>3, <2>1 DEF PresentTimely, SeenBy
<1>6. PendingRecoveries = {}
  BY <1>1 DEF PendingRecoveries, RecoveryOnes, OrdinaryOnes
<1> QED BY <1>1, <1>2, <1>4, <1>5, <1>6
        DEF AcceptedInvariant, Accepted, ReceiptsTimely, RecoveryTimely, PendingTimely, Idle

-----------------------------------------------------------------------------
(* The ledger's own validator.                                             *)

\* The places of the log, as the validator scans it.
LEMMA Scanned ==
  /\ \A type, s : Ledger!PositionsOf(type, s) = Places(outbox, type, s)
  /\ \A type1, s1, type2, s2 :
        Ledger!Precedes(type1, s1, type2, s2) <=> Before(outbox, type1, s1, type2, s2)
  /\ \A type, s, event : Ledger!Exactly(type, s, TRUE, event) <=> Present(outbox, type, s, event)
  /\ \A type, s, event : Ledger!Exactly(type, s, FALSE, event) <=> Missing(outbox, type, s)
<1>1. \A type, s : Ledger!PositionsOf(type, s) = Places(outbox, type, s)
  BY Zenon DEF Ledger!PositionsOf, Places
<1>2. \A type1, s1, type2, s2 :
        Ledger!Precedes(type1, s1, type2, s2) <=> Before(outbox, type1, s1, type2, s2)
  BY <1>1, Zenon DEF Ledger!Precedes, Before
<1>3. \A type, s, event : Ledger!Exactly(type, s, TRUE, event) <=> Present(outbox, type, s, event)
  <2>1. \A type, s : Places(outbox, type, s) \subseteq DOMAIN outbox
    BY DEF Places
  <2> QED BY <1>1, <2>1, Zenon DEF Ledger!Exactly, Present
<1>4. \A type, s, event : Ledger!Exactly(type, s, FALSE, event) <=> Missing(outbox, type, s)
  BY <1>1, Zenon DEF Ledger!Exactly, Missing
<1> QED BY <1>1, <1>2, <1>3, <1>4, Zenon

\* Request events.
LEMMA RequestAccounted ==
  ASSUME StageInvariant, Accepted, NEW r \in Requests
  PROVE  Ledger!RequestEventsExact(r)
<1>1. /\ RequestLogged(outbox, r, requests[r], results[r])
      /\ InOrder(outbox, r, TokenOf(r), AttemptOf(r))
  BY DEF Accepted, EventsHeld, Logged
<1>2. \A a \in Ledger!AttemptsOf(r) : a = AttemptOf(r)
  BY OwnRows
<1>3. Ledger!Exactly("REQUEST_CLAIMED", r, requests[r].state # Ledger!Absent,
          Ledger!Event("REQUEST_CLAIMED", r, <<requests[r].sha>>, requests[r].claimed_at))
  BY <1>1, Scanned DEF RequestLogged, Ledger!Exactly, Present, Missing, Ledger!Absent
<1>4. Ledger!Exactly("REQUEST_TERMINAL", r, results[r].disposition # Ledger!Absent,
          Ledger!Event("REQUEST_TERMINAL", r, <<results[r]>>, results[r].terminal_at))
  BY <1>1, Scanned DEF RequestLogged, Ledger!Exactly, Present, Missing, Ledger!Absent
<1>5. /\ Ledger!Precedes("REQUEST_CLAIMED", r, "REQUEST_TERMINAL", r)
      /\ \A a \in Ledger!AttemptsOf(r) :
            Ledger!Precedes("ATTEMPT_TERMINAL", a, "REQUEST_TERMINAL", r)
  BY <1>1, <1>2, Scanned DEF InOrder
<1> QED BY <1>3, <1>4, <1>5, Zenon DEF Ledger!RequestEventsExact

\* Authorization events.
LEMMA AuthorizationAccounted ==
  ASSUME StageInvariant, Accepted, NEW r \in Requests
  PROVE  Ledger!AuthorizationEventsExact(TokenOf(r))
<1> PICK k, a, auth : k = TokenOf(r) /\ a = AttemptOf(r) /\ auth = authorizations[k]
  OBVIOUS
<1>1. AuthorizationLogged(outbox, k, a, auth) /\ InOrder(outbox, r, k, a)
  BY DEF Accepted, EventsHeld, Logged, Auth
<1>2. /\ Ledger!AttemptsOn(k) = IF Try(r).state = "ABSENT" THEN {} ELSE {a}
      /\ auth.state = "CONSUMED" <=> Try(r).state # "ABSENT"
      /\ auth.request # Null => auth.request = r
  BY OwnRows DEF Accepted, RecordsHeld, Coherent, StageInvariant, HistoryHeld, RowsHeld, Auth
<1>3. /\ auth.state = "CONSUMED" => Ledger!AttemptsOn(k) = {a}
      /\ \A b \in Ledger!AttemptsOn(k) : b = a
  BY <1>2
<1>4. Ledger!Exactly("AUTHORIZATION_ISSUED", k, auth.state # Ledger!Absent,
          Ledger!Event("AUTHORIZATION_ISSUED", k, <<auth.decision>>, auth.issued_at))
  BY <1>1, Scanned DEF AuthorizationLogged, Ledger!Exactly, Present, Missing, Ledger!Absent
<1>5. Ledger!Exactly("AUTHORIZATION_CONSUMED", k, auth.state = "CONSUMED",
          Ledger!Event("AUTHORIZATION_CONSUMED", k, <<Ledger!AttemptsOn(k)>>, auth.closed_at))
  <2>1. CASE auth.state = "CONSUMED"
    <3>1. Ledger!AttemptsOn(k) = {a}
      BY <1>3, <2>1
    <3>2. Present(outbox, "AUTHORIZATION_CONSUMED", k,
                  Ledger!Event("AUTHORIZATION_CONSUMED", k, <<{a}>>, auth.closed_at))
      BY <1>1, <2>1 DEF AuthorizationLogged
    <3> QED BY <2>1, <3>1, <3>2, Scanned, Zenon
  <2>2. CASE auth.state # "CONSUMED"
    <3>1. Missing(outbox, "AUTHORIZATION_CONSUMED", k)
      BY <1>1, <2>2 DEF AuthorizationLogged
    <3>2. (auth.state = "CONSUMED") = FALSE
      BY <2>2
    <3> QED BY <3>1, <3>2, Scanned
  <2> QED BY <2>1, <2>2
<1>6. Ledger!Exactly("AUTHORIZATION_REVOKED", k, auth.state = "REVOKED",
          Ledger!Event("AUTHORIZATION_REVOKED", k, <<"QUIESCED_RECOVERY">>, auth.closed_at))
  BY <1>1, Scanned
  DEF AuthorizationLogged, Ledger!Exactly, Present, Missing, Ledger!Revocation
<1>7. /\ auth.request # Null =>
            Ledger!Precedes("REQUEST_CLAIMED", auth.request, "AUTHORIZATION_ISSUED", k)
      /\ Ledger!Precedes("AUTHORIZATION_ISSUED", k, "AUTHORIZATION_CONSUMED", k)
      /\ Ledger!Precedes("AUTHORIZATION_ISSUED", k, "AUTHORIZATION_REVOKED", k)
      /\ \A b \in Ledger!AttemptsOn(k) :
            Ledger!Precedes("ATTEMPT_RESERVED", b, "AUTHORIZATION_CONSUMED", k)
  BY <1>1, <1>2, <1>3, Scanned DEF InOrder
<1> QED BY <1>4, <1>5, <1>6, <1>7, Zenon DEF Ledger!AuthorizationEventsExact

\* Attempt events.
LEMMA AttemptAccounted ==
  ASSUME StageInvariant, Accepted, NEW r \in Requests
  PROVE  Ledger!AttemptEventsExact(AttemptOf(r))
<1> PICK a, try : a = AttemptOf(r) /\ try = attempts[a]
  OBVIOUS
<1>1. AttemptLogged(outbox, a, try) /\ InOrder(outbox, r, TokenOf(r), a)
  BY DEF Accepted, EventsHeld, Logged, Try
<1>2. /\ try.state \in {"ABSENT", "RESERVED"} => try.receipt = Null
      /\ try.state = "RECEIPT_RECORDED" => try.receipt # Null
      /\ try.state \in Ledger!TerminalAttemptStates /\ try.receipt = Null
            => try.state = "UNKNOWN_EFFECT"
      /\ try.state \in Ledger!AttemptStates \cup {"ABSENT"}
  <2>1. EffectHeld(r) /\ StageTyped
    BY DEF StageInvariant, HistoryHeld
  <2>2. Try(r) = try /\ try \in Ledger!AttemptRow
    BY <2>1, RowsTyped DEF Try
  <2>3. try.state \in Ledger!AttemptStates \cup {"ABSENT"}
    BY <2>2 DEF Ledger!AttemptRow, Ledger!Absent
  <2> QED BY <2>1, <2>2, <2>3 DEF EffectHeld
<1> PICK seen : seen = Places(outbox, "ADAPTER_RECEIPT_RECORDED", a)
  OBVIOUS
<1>3. Ledger!PositionsOf("ADAPTER_RECEIPT_RECORDED", a) = seen
  BY Scanned
<1>4. try.receipt = Null => seen = {}
  BY <1>1 DEF AttemptLogged, Missing
<1>5. ASSUME try.receipt # Null
      PROVE  \E i \in DOMAIN outbox : /\ seen = {i} /\ outbox[i].data = <<try.receipt>>
                                      /\ try.reserved_at <= outbox[i].at
  <2>1. PICK t \in Ledger!Times :
            /\ try.reserved_at <= t
            /\ Present(outbox, "ADAPTER_RECEIPT_RECORDED", a,
                       Ledger!Event("ADAPTER_RECEIPT_RECORDED", a, <<try.receipt>>, t))
    BY <1>1, <1>5 DEF AttemptLogged
  <2>2. PICK i \in DOMAIN outbox :
            /\ seen = {i}
            /\ outbox[i] = Ledger!Event("ADAPTER_RECEIPT_RECORDED", a, <<try.receipt>>, t)
    BY <2>1 DEF Present
  <2> QED BY <2>1, <2>2 DEF Ledger!Event
<1>6. \A i \in seen :
          /\ try.reserved_at <= outbox[i].at
          /\ try.state \in Ledger!TerminalAttemptStates => outbox[i].at <= try.completed_at
  BY <1>1, <1>4, <1>5 DEF AttemptLogged, SeenBy
<1>7. Ledger!ReceiptEventExact(a)
  BY <1>2, <1>3, <1>4, <1>5, <1>6
  DEF Ledger!ReceiptEventExact, Ledger!AttemptStates, Ledger!OpenAttemptStates,
      Ledger!TerminalAttemptStates
<1>8. Ledger!TerminalEventExact(a)
  BY <1>1, Scanned
  DEF Ledger!TerminalEventExact, AttemptLogged, Ledger!Exactly, Present, Missing
<1>9. Ledger!Exactly("ATTEMPT_RESERVED", a, try.state # Ledger!Absent,
          Ledger!Event("ATTEMPT_RESERVED", a, <<try.token>>, try.reserved_at))
  BY <1>1, Scanned DEF AttemptLogged, Ledger!Exactly, Present, Missing, Ledger!Absent
<1>10. /\ Ledger!Precedes("ATTEMPT_RESERVED", a, "ADAPTER_RECEIPT_RECORDED", a)
       /\ \A closing \in {"ATTEMPT_TERMINAL", "ATTEMPT_RECOVERED_UNKNOWN"} :
             /\ Ledger!Precedes("ATTEMPT_RESERVED", a, closing, a)
             /\ Ledger!Precedes("ADAPTER_RECEIPT_RECORDED", a, closing, a)
  <2>1. Places(outbox, "ATTEMPT_RECOVERED_UNKNOWN", a) = {}
    BY <1>1 DEF AttemptLogged, Missing
  <2> QED BY <1>1, <2>1, Scanned DEF InOrder, Before
<1> QED BY <1>7, <1>8, <1>9, <1>10, Zenon DEF Ledger!AttemptEventsExact

\* What the rows of a request say of each other is what the validator asks.
LEMMA RecordsAccounted ==
  ASSUME StageInvariant, Accepted, NEW r \in Requests
  PROVE  /\ Ledger!LifecycleCoherent(r) /\ Ledger!RequestChronology(r)
         /\ Ledger!ResultProvenance(r)
         /\ Ledger!AuthorizationChronology(TokenOf(r)) /\ Ledger!AttemptProvenance(AttemptOf(r))
<1> PICK k, a, req, auth, try, res :
      /\ k = TokenOf(r) /\ a = AttemptOf(r) /\ req = requests[r]
      /\ auth = authorizations[k] /\ try = attempts[a] /\ res = results[r]
  OBVIOUS
<1>1. /\ Coherent(req, auth, try) /\ Dated(req, auth, try, res) /\ Repeated(a, auth, try, res)
  BY DEF Accepted, RecordsHeld, Auth, Try
<1>2. /\ auth.request = IF auth.state = "ABSENT" THEN Null ELSE r
      /\ try.request = IF try.state = "ABSENT" THEN Null ELSE r
      /\ try.state # "ABSENT" => try.token = k
      /\ req.state \in {"ABSENT", "CLAIMED", "AUTHORIZED"} => try.state = "ABSENT"
      /\ req.state = "ATTEMPT_RESERVED" => try.state \in Ledger!OpenAttemptStates
      /\ req.state = "TERMINAL" => try.state \in {"ABSENT"} \cup Ledger!TerminalAttemptStates
      /\ req.state = "TERMINAL" <=> res.disposition # "ABSENT"
  BY DEF StageInvariant, HistoryHeld, RowsHeld, Auth, Try
<1>3. k \in StageTokens /\ a \in StageAttempts
  BY Identifiers
<1> PICK ks, as : ks = Ledger!AuthorizationsOf(r) /\ as = Ledger!AttemptsOf(r)
  OBVIOUS
<1>4. /\ auth.state = "ABSENT" => ks = {}
      /\ auth.state # "ABSENT" => ks = {k}
      /\ try.state = "ABSENT" => as = {}
      /\ try.state # "ABSENT" => as = {a}
  BY OwnRows DEF Auth, Try
<1>5. Ledger!LifecycleCoherent(r)
  <2>1. req.state \in {"ABSENT", "CLAIMED"} => ks = {} /\ as = {}
    BY <1>1, <1>2, <1>4 DEF Coherent
  <2>2. req.state = "AUTHORIZED" => ks = {k} /\ auth.state \in {"ISSUED", "REVOKED"} /\ as = {}
    BY <1>1, <1>2, <1>4 DEF Coherent
  <2>3. req.state = "ATTEMPT_RESERVED" =>
           /\ ks = {k} /\ auth.state = "CONSUMED"
           /\ as = {a} /\ try.state \in Ledger!OpenAttemptStates
    BY <1>1, <1>2, <1>4 DEF Coherent, Ledger!OpenAttemptStates
  <2>4. req.state = "TERMINAL" =>
           \/ ks = {} /\ as = {}
           \/ ks = {k} /\ auth.state = "REVOKED" /\ as = {}
           \/ /\ ks = {k} /\ auth.state = "CONSUMED"
              /\ as = {a} /\ try.state \in Ledger!TerminalAttemptStates
    BY <1>1, <1>2, <1>4 DEF Coherent
  <2>5. \A states : auth.state \in states /\ ks = {k} => Ledger!OneAuthorization(r, states)
    BY <1>3 DEF Ledger!OneAuthorization
  <2>6. \A states : try.state \in states /\ as = {a} => Ledger!OneAttempt(r, states)
    BY <1>3 DEF Ledger!OneAttempt
  <2> QED BY <1>2, <2>1, <2>2, <2>3, <2>4, <2>5, <2>6
          DEF Ledger!LifecycleCoherent, Ledger!Absent
<1>6. Ledger!RequestChronology(r)
  <2>1. req.state = "ATTEMPT_RESERVED" => try.state # "ABSENT"
    BY <1>2 DEF Ledger!OpenAttemptStates
  <2> QED BY <1>1, <1>4, <2>1 DEF Dated, Ledger!RequestChronology
<1>7. Ledger!ResultProvenance(r)
  <2>1. ASSUME res.disposition # "ABSENT", try.state = "ABSENT"
        PROVE  /\ as = {} /\ res.attempt = Null /\ res.disposition \in Ledger!UnattemptedDispositions
               /\ \A m \in ks : /\ res.disposition = "ABORTED_NO_EFFECT"
                                /\ authorizations[m].closed_at <= res.terminal_at
    BY <1>1, <1>4, <2>1 DEF Repeated
  <2>2. ASSUME res.disposition # "ABSENT", try.state # "ABSENT"
        PROVE  /\ as = {a} /\ res.attempt = a
               /\ res.disposition \in Ledger!AttemptedDispositions
               /\ try.state = Ledger!AttemptStateFor(res.disposition)
               /\ try.receipt = res.receipt /\ try.completed_at = res.terminal_at
               /\ \A m \in ks : authorizations[m].decision = res.decision
    BY <1>1, <1>4, <2>2 DEF Repeated
  <2> QED BY <2>1, <2>2 DEF Ledger!ResultProvenance, Ledger!Absent
<1>8. Ledger!AuthorizationChronology(k)
  BY <1>1 DEF Dated, Ledger!AuthorizationChronology
<1>9. Ledger!AttemptProvenance(a)
  <2>1. ASSUME try.state # "ABSENT"
        PROVE  /\ try.token = k /\ auth.state = "CONSUMED" /\ try.request = r /\ auth.request = r
               /\ auth.closed_at = try.reserved_at
    BY <1>1, <1>2, <2>1 DEF Coherent, Dated
  <2> QED BY <1>1, <1>3, <2>1 DEF Dated, Ledger!AttemptProvenance, Ledger!Absent
<1> QED BY <1>5, <1>6, <1>7, <1>8, <1>9

\* The invariant implies everything the ledger's validator asks.
LEMMA LedgerAccepts ==
  ASSUME StageInvariant, Accepted
  PROVE  Ledger!RelationsValid
<1>1. \A r \in Requests :
         /\ Ledger!LifecycleCoherent(r) /\ Ledger!RequestChronology(r)
         /\ Ledger!ResultProvenance(r) /\ Ledger!RequestEventsExact(r)
  BY RecordsAccounted, RequestAccounted, Zenon
<1>2. \A k \in StageTokens :
         Ledger!AuthorizationChronology(k) /\ Ledger!AuthorizationEventsExact(k)
  <2>1. \A r \in Requests :
           /\ Ledger!AuthorizationChronology(TokenOf(r))
           /\ Ledger!AuthorizationEventsExact(TokenOf(r))
    BY RecordsAccounted, AuthorizationAccounted, Zenon
  <2> QED BY <2>1, Zenon DEF StageTokens
<1>3. \A a \in StageAttempts : Ledger!AttemptProvenance(a) /\ Ledger!AttemptEventsExact(a)
  <2>1. \A r \in Requests :
           /\ Ledger!AttemptProvenance(AttemptOf(r)) /\ Ledger!AttemptEventsExact(AttemptOf(r))
    BY RecordsAccounted, AttemptAccounted, Zenon
  <2> QED BY <2>1, Zenon DEF StageAttempts
<1> QED BY <1>1, <1>2, <1>3, Zenon DEF Ledger!RelationsValid, Ledger!OutboxExact

-----------------------------------------------------------------------------
(* The adapter's own validator.                                            *)

\* A receipt that is appended continues the chain of its target and of no other.
LEMMA ChainGrows ==
  ASSUME StageTyped, Adapter!StoreValid,
         NEW command \in Adapter!Command, NEW a \in StageAttempts, NEW t \in Ledger!Times,
         Adapter!MayDecide(command, a, t),
         LET new == Adapter!ReceiptFor(command, a, t) IN
            /\ targets' = [targets EXCEPT ![command.target] =
                              [state |-> new.after, updated_at |-> t]]
            /\ receipts' = Append(receipts, new)
  PROVE  Adapter!StoreValid'
<1> PICK new, n, g0 :
      /\ new = Adapter!ReceiptFor(command, a, t) /\ n = Len(receipts) /\ g0 = command.target
  OBVIOUS
<1>1. /\ new.command = command /\ new.at = t /\ new.before = targets[g0].state
      /\ new.status # "NO_EFFECT" => new.before = command.precondition
      /\ g0 \in Targets
  BY DEF Adapter!ReceiptFor, Adapter!StatusOf, Adapter!Command
<1>2. /\ n \in Nat /\ DOMAIN receipts = 1..n
      /\ Len(receipts') = n + 1 /\ DOMAIN receipts' = 1..(n + 1)
      /\ \A i \in 1..n : receipts'[i] = receipts[i]
      /\ receipts'[n + 1] = new
  <2>1. receipts \in Seq(Adapter!Receipt)
    BY DEF StageTyped
  <2>2. IsLog(receipts) /\ receipts' = Append(receipts, new)
    BY <2>1 DEF IsLog
  <2>3. Len(receipts') = n + 1
    <3> PICK S : S = Adapter!Receipt \cup {new}
      OBVIOUS
    <3>1. receipts \in Seq(S) /\ new \in S
      BY <2>1, SeqMonotonic
    <3> QED BY <2>2, <3>1, AppendProperties
  <2> QED BY <2>2, <2>3, LogGrows
<1>3. /\ targets[g0].updated_at \in 0..t
      /\ targets'[g0].state = new.after /\ targets'[g0].updated_at = t
      /\ \A g \in Targets \ {g0} : targets'[g] = targets[g]
  <2>1. targets[g0] \in Adapter!TargetRow /\ targets \in [Targets -> Adapter!TargetRow]
    BY <1>1 DEF StageTyped
  <2>2. targets[g0].updated_at <= t
    BY DEF Adapter!MayDecide
  <2>3. targets[g0].updated_at \in 0..t
    BY <2>1, <2>2, StageAAssumption DEF Adapter!TargetRow, Adapter!Seconds, Ledger!Times
  <2>4. targets' = [targets EXCEPT ![g0] = [state |-> new.after, updated_at |-> t]]
    OBVIOUS
  <2> QED BY <1>1, <2>1, <2>3, <2>4
<1>4. \A g, i \in 1..(n + 1) : Adapter!Earlier(g, i)' = Adapter!Earlier(g, i)
  BY <1>2 DEF Adapter!Earlier
<1>5. ASSUME NEW g \in Targets, NEW i \in 1..(n + 1), NEW state, NEW u,
             Adapter!Chained(g, i, state, u)
      PROVE  Adapter!Chained(g, i, state, u)'
  <2>1. Adapter!Earlier(g, i)' = Adapter!Earlier(g, i)
    BY <1>2 DEF Adapter!Earlier
  <2>2. \A j \in Adapter!Earlier(g, i) : receipts'[j] = receipts[j]
    BY <1>2 DEF Adapter!Earlier
  <2> QED BY <1>5, <2>1, <2>2 DEF Adapter!Chained
<1>6. ASSUME NEW g \in Targets, NEW i \in 1..(n + 1), receipts'[i].command.target = g
      PROVE  \E u \in 0..receipts'[i].at : Adapter!Chained(g, i, receipts[i].before, u)'
  <2>1. CASE i \in 1..n
    <3>1. PICK u \in 0..receipts[i].at : Adapter!Chained(g, i, receipts[i].before, u)
      BY <1>2, <1>6, <2>1 DEF Adapter!StoreValid, Adapter!ChainValid
    <3>2. receipts'[i] = receipts[i]
      BY <1>2, <2>1
    <3> PICK before : before = receipts[i].before
      OBVIOUS
    <3>3. Adapter!Chained(g, i, before, u)'
      BY <1>5, <3>1
    <3> QED BY <3>1, <3>2, <3>3 DEF Adapter!Chained
  <2>2. CASE i = n + 1
    <3>1. g = g0 /\ receipts'[i].before = targets[g].state /\ receipts'[i].at = t
      BY <1>1, <1>2, <1>6, <2>2
    <3> PICK state, u : state = targets[g].state /\ u = targets[g].updated_at
      OBVIOUS
    <3>2. Adapter!Chained(g, i, state, u)
      BY <2>2 DEF Adapter!StoreValid, Adapter!ChainValid
    <3>3. Adapter!Chained(g, i, state, u)'
      BY <1>5, <3>2
    <3>4. u \in 0..receipts'[i].at
      BY <1>3, <3>1
    <3> QED BY <3>1, <3>3, <3>4, ZenonT(60) DEF Adapter!Chained
  <2> QED BY <1>2, <2>1, <2>2
<1>7. ASSUME NEW g \in Targets
      PROVE  Adapter!Chained(g, n + 2, targets[g].state, targets[g].updated_at)'
  <2>1. CASE g = g0
    <3>1. /\ n + 1 \in Adapter!Earlier(g, n + 2)'
          /\ \A j \in Adapter!Earlier(g, n + 2)' : j <= n + 1
      BY <1>1, <1>2, <2>1 DEF Adapter!Earlier
    <3>2. targets'[g].state = receipts'[n + 1].after /\ targets'[g].updated_at = receipts'[n + 1].at
      BY <1>1, <1>2, <1>3, <2>1
    <3> QED BY <3>1, <3>2 DEF Adapter!Chained
  <2>2. CASE g # g0
    <3>1. Adapter!Earlier(g, n + 2)' = Adapter!Earlier(g, n + 1)'
      BY <1>1, <1>2, <2>2 DEF Adapter!Earlier
    <3> PICK state, u : state = targets[g].state /\ u = targets[g].updated_at
      OBVIOUS
    <3>2. Adapter!Chained(g, n + 1, state, u)
      BY DEF Adapter!StoreValid, Adapter!ChainValid
    <3>3. Adapter!Chained(g, n + 1, state, u)'
      BY <1>2, <1>5, <3>2
    <3>4. targets'[g].state = state /\ targets'[g].updated_at = u
      BY <1>3, <2>2
    <3> QED BY <3>1, <3>3, <3>4 DEF Adapter!Chained
  <2> QED BY <2>1, <2>2
<1>8. \A i \in 1..(n + 1) : Adapter!ReceiptBound(receipts'[i])
  <2>1. \A i \in 1..n : Adapter!ReceiptBound(receipts[i])
    BY <1>2 DEF Adapter!StoreValid
  <2> QED BY <1>1, <1>2, <2>1 DEF Adapter!ReceiptBound
<1>9. \A g \in Targets : Adapter!ChainValid(g)'
  BY <1>2, <1>6, <1>7 DEF Adapter!ChainValid
<1> QED BY <1>2, <1>8, <1>9 DEF Adapter!StoreValid

\* The inventory, before any receipt, is its own chain.
LEMMA InitStore == StageInit => Adapter!StoreValid
<1> SUFFICES ASSUME StageInit PROVE Adapter!StoreValid
  OBVIOUS
<1>1. /\ receipts = <<>> /\ DOMAIN receipts = {} /\ Len(receipts) = 0
      /\ \A g \in Targets : targets[g].state = Adapter!Untouched /\ targets[g].updated_at = 0
  BY DEF StageInit, Adapter!AdapterInit
<1> QED BY <1>1 DEF Adapter!StoreValid, Adapter!ChainValid, Adapter!Chained, Adapter!Earlier

\* Only the execution of a command writes the adapter's store.
LEMMA StoreNext ==
  ASSUME StageInvariant, Adapter!StoreValid, [StageNext]_svars
  PROVE  Adapter!StoreValid'
<1>1. CASE adapterStore' = adapterStore
  <2>1. targets' = targets /\ receipts' = receipts
    BY <1>1 DEF adapterStore
  <2> QED BY <2>1 DEF Adapter!StoreValid, Adapter!ChainValid, Adapter!Chained, Adapter!Earlier
<1>2. CASE Execute
  <2>1. /\ op.command \in Adapter!Command /\ AttemptOf(op.request) \in StageAttempts
        /\ AttemptedAt(op.request) \in Ledger!Times /\ StageTyped
    BY <1>2, OperationFields, Identifiers
    DEF Execute, At, StageInvariant, Idle, Operations, Commanded
  <2>2. Adapter!ExecuteOnce(op.command, AttemptOf(op.request), AttemptedAt(op.request))
    BY <1>2 DEF Execute
  <2>3. CASE UNCHANGED Adapter!store
    BY <1>1, <2>3 DEF Adapter!store, adapterStore
  <2>4. CASE ~UNCHANGED Adapter!store
    BY <2>1, <2>2, <2>4, ChainGrows DEF Adapter!ExecuteOnce
  <2> QED BY <2>3, <2>4
<1>3. ASSUME StageNext, ~Execute PROVE adapterStore' = adapterStore
  <2>1. CASE Submitting \/ Reject \/ Validate \/ RefuseBeforeClaim \/ Claim \/ ClaimRefused
    BY <2>1, Zenon
    DEF Submitting, Submit, Reject, Validate, RefuseBeforeClaim, Claim, ClaimRefused
  <2>2. CASE Deny \/ Authorize \/ BrokerRejects \/ Consume \/ BrokerFails
    BY <2>2, Zenon DEF Deny, Authorize, BrokerRejects, Consume, BrokerFails
  <2>3. CASE RecordReceipt \/ Verify \/ CommitDenial \/ CommitOutcome \/ LeaveOpen
    BY <2>3, Zenon DEF RecordReceipt, Verify, CommitDenial, CommitOutcome, LeaveOpen
  <2>4. CASE Reconciling \/ RevokeAuthority \/ RecoverReceipt \/ AppendRecoveryRecord
             \/ CommitRecovery
    BY <2>4, Zenon
    DEF Reconciling, StartReconcile, RevokeAuthority, RecoverReceipt, AppendRecoveryRecord,
        CommitRecovery
  <2>5. CASE Interrupt \/ ClockMoves
    BY <2>5, Zenon DEF Interrupt, ClockMoves
  <2> QED BY <1>3, <2>1, <2>2, <2>3, <2>4, <2>5, StepKinds, Zenon DEF QuietSteps
<1> QED BY <1>1, <1>2, <1>3, Zenon DEF svars

-----------------------------------------------------------------------------
(* Both stores stay acceptable to their own validators.                    *)

\* The inductive invariant: what the rows of every request say, what the log
\* says of them, and which times they carry.
LEMMA AcceptedInvariantHolds ==
  ASSUME ~ClockMayStepBack
  PROVE  StageSpec => [](StageInvariant /\ AcceptedInvariant)
<1>1. StageInvariant /\ TailOwned /\ AcceptedInvariant /\ [StageNext]_svars => AcceptedInvariant'
  BY NextAccepted, TimelyNext, Zenon DEF AcceptedInvariant
<1> QED BY <1>1, InitAccepted, StageInvariantHolds, PTL DEF StageSpec

\* Whatever the clock does and wherever an operation is cut short, the receipts
\* of a target chain from its inventory to its state, in state and in time, and
\* each effect happened on the state it was decided for: execute_once never
\* writes what its own validator would refuse from then on.
THEOREM AdapterStoreStaysValid == StageSpec => []Adapter!StoreValid
  BY InitStore, StoreNext, StageInvariantHolds, PTL DEF StageSpec

\* StoresAlwaysValid: no interleaving of process_json, its interruptions and
\* reconciliation leaves the control ledger or the adapter store in a state the
\* validation at the head of their transactions refuses.  The wall clock is
\* taken not to step back: with it set back the ledger does lock itself out.
THEOREM StoresStayValid ==
  ASSUME ~ClockMayStepBack
  PROVE  StageSpec => []StoresAlwaysValid
<1>1. StageInvariant /\ AcceptedInvariant => Ledger!RelationsValid
  BY LedgerAccepts DEF AcceptedInvariant
<1>2. Adapter!StoreValid /\ Ledger!RelationsValid => StoresAlwaysValid
  BY DEF StoresAlwaysValid
<1> QED BY <1>1, <1>2, AcceptedInvariantHolds, AdapterStoreStaysValid, PTL

=============================================================================

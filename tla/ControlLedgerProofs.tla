------------------------ MODULE ControlLedgerProofs -------------------------
(***************************************************************************)
(* Theorems about ControlLedger, for every number of requests, tokens,     *)
(* attempts and timestamps, every order of calls and a clock that may step *)
(* back.                                                                   *)
(***************************************************************************)
EXTENDS ControlLedger, TLAPS

\* The empty database is well typed.
LEMMA InitTyped == Init => TypeOK
  BY LedgerAssumption DEF Init, TypeOK, RequestRow, AuthorizationRow, AttemptRow,
     ResultRow, NoRequest, NoAuthorization, NoAttempt, NoResult, Times, Absent

\* The shared UPDATE statements keep their tables typed.
LEMMA RequestMovedTyped ==
  ASSUME TypeOK, NEW r \in Requests, NEW state \in RequestStates, NEW t \in Times
  PROVE  RequestMoved(r, state, t) \in [Requests -> RequestRow]
  BY DEF RequestMoved, TypeOK, RequestRow

\* Closing authorizations writes authorization rows.
LEMMA AuthorizationsClosedTyped ==
  ASSUME TypeOK, NEW ks, NEW state \in AuthorizationStates, NEW t \in Times
  PROVE  AuthorizationsClosed(ks, state, t) \in [Tokens -> AuthorizationRow]
  BY DEF AuthorizationsClosed, TypeOK, AuthorizationRow

\* Closing attempts writes attempt rows, whether or not a receipt is handed in.
LEMMA AttemptsClosedTyped ==
  ASSUME TypeOK, NEW as, NEW state \in AttemptStates,
         NEW receipt \in Receipts \cup {Null}, NEW t \in Times
  PROVE  AttemptsClosed(as, state, receipt, t) \in [Attempts -> AttemptRow]
  <1>1. \A a \in Attempts : ReceiptKept(a, receipt) \in Receipts \cup {Null}
    BY DEF ReceiptKept, TypeOK, AttemptRow
  <1> QED BY <1>1 DEF AttemptsClosed, TypeOK, AttemptRow

\* Every transaction writes rows of their tables' types.
LEMMA NextTyped == TypeOK /\ [Next]_vars => TypeOK'
<1> SUFFICES ASSUME TypeOK, [Next]_vars PROVE TypeOK'
  OBVIOUS
<1> USE LedgerAssumption
<1>0. clock \in Times
  BY DEF TypeOK
<1>1. CASE Claiming /\ UNCHANGED clock
  BY <1>1 DEF TypeOK, Claiming, ClaimRequest, RequestRow, RequestStates, Times
<1>2. CASE Registering /\ UNCHANGED clock
  <2> PICK k \in Tokens, decision \in Decisions, link \in Links, sha \in Digests :
            Register(k, decision, link, sha, clock)
    BY <1>2 DEF Registering
  <2>1. authorizations' \in [Tokens -> AuthorizationRow]
    BY DEF Register, TypeOK, AuthorizationRow, AuthorizationStates, Times
  <2>2. requests' \in [Requests -> RequestRow]
    BY <1>0, RequestMovedTyped DEF Register, TypeOK, RequestStates
  <2> QED BY <1>2, <2>1, <2>2 DEF Register, TypeOK
<1>3. CASE Consuming /\ UNCHANGED clock
  <2> PICK k \in Tokens, a \in Attempts \cup {Null},
           summary \in Summaries \cup {Null} : ConsumeOnce(k, a, summary, clock)
    BY <1>3 DEF Consuming
  <2>0. authorizations[k].request \in Requests \cup {Null}
    BY DEF TypeOK, AuthorizationRow
  <2>1. authorizations' \in [Tokens -> AuthorizationRow]
    BY <1>0, AuthorizationsClosedTyped DEF ConsumeOnce, Spendable, AuthorizationStates
  <2>2. attempts' \in [Attempts -> AttemptRow]
    BY <2>0 DEF ConsumeOnce, Spendable, TypeOK, AttemptRow, AttemptStates, OpenAttemptStates, Times
  <2>3. requests' \in [Requests -> RequestRow]
    BY <1>0, <2>0, RequestMovedTyped DEF ConsumeOnce, Spendable, TypeOK, RequestStates
  <2> QED BY <1>3, <2>1, <2>2, <2>3 DEF ConsumeOnce, Spendable, TypeOK
<1>4. CASE RecordingReceipt /\ UNCHANGED clock
  <2> PICK a \in Attempts, receipt \in Receipts :
            RecordAdapterReceipt(a, receipt, clock)
    BY <1>4 DEF RecordingReceipt
  <2>1. attempts' \in [Attempts -> AttemptRow]
    <3>1. [attempts[a] EXCEPT !.state = "RECEIPT_RECORDED", !.receipt = receipt]
             \in AttemptRow
      BY ZenonT(60) DEF TypeOK, AttemptRow, AttemptStates, OpenAttemptStates
    <3> QED BY <3>1 DEF TypeOK, RecordAdapterReceipt
  <2> QED BY <1>4, <2>1 DEF TypeOK, RecordAdapterReceipt
<1>5. CASE RecordingOutcome /\ UNCHANGED clock
  <2> PICK a \in Attempts, state \in TerminalAttemptStates,
           receipt \in Receipts \cup {Null} :
            RecordAttemptOutcome(a, state, receipt, clock)
    BY <1>5 DEF RecordingOutcome
  <2>1. attempts' \in [Attempts -> AttemptRow]
    BY <1>0, AttemptsClosedTyped DEF RecordAttemptOutcome, AttemptStates
  <2> QED BY <1>5, <2>1 DEF RecordAttemptOutcome, TypeOK
<1>6. CASE Completing /\ UNCHANGED clock
  <2> PICK r \in Requests, sha \in Digests, result \in CallResults(clock) :
            CompleteRequest(r, sha, result)
    BY <1>6 DEF Completing
  <2>0. result \in ResultRow /\ result.terminal_at = clock
    BY <1>0 DEF CallResults, ResultRow
  <2>1. result.attempt # Null => AttemptStateFor(result.disposition) \in AttemptStates
    BY <2>0 DEF CallResults, ResultWellFormed, ResultRow, AttemptStateFor,
       AttemptStates, TerminalAttemptStates, Dispositions, AttemptedDispositions,
       UnattemptedDispositions
  <2>2. attempts' \in [Attempts -> AttemptRow]
    <3>1. CASE result.attempt = Null
      BY <3>1 DEF CompleteRequest, TypeOK
    <3>2. CASE result.attempt # Null
      <4>1. result.receipt \in Receipts \cup {Null}
        BY <2>0 DEF ResultRow
      <4>2. attempts' = AttemptsClosed({result.attempt},
                                       AttemptStateFor(result.disposition),
                                       result.receipt, clock)
        BY <2>0, <3>2 DEF CompleteRequest
      <4> QED BY <1>0, <2>1, <3>2, <4>1, <4>2, AttemptsClosedTyped
    <3> QED BY <3>1, <3>2
  <2>3. requests' \in [Requests -> RequestRow]
    BY <1>0, <2>0, RequestMovedTyped DEF CompleteRequest, RequestStates
  <2>4. results' \in [Requests -> ResultRow]
    BY <2>0 DEF CompleteRequest, TypeOK
  <2> QED BY <1>6, <2>2, <2>3, <2>4 DEF CompleteRequest, TypeOK
<1>7. CASE Revoking /\ UNCHANGED clock
  <2>1. authorizations' \in [Tokens -> AuthorizationRow]
    BY <1>0, <1>7, AuthorizationsClosedTyped
       DEF Revoking, RevokeIssuedForRequest, AuthorizationStates
  <2> QED BY <1>7, <2>1 DEF TypeOK, Revoking, RevokeIssuedForRequest
<1>8. CASE Recovering /\ UNCHANGED clock
  <2>1. authorizations' \in [Tokens -> AuthorizationRow]
    BY <1>0, <1>8, AuthorizationsClosedTyped
       DEF Recovering, RecoverIncompleteAttempts, AuthorizationStates
  <2>2. attempts' \in [Attempts -> AttemptRow]
    BY <1>0, <1>8, AttemptsClosedTyped
       DEF Recovering, RecoverIncompleteAttempts, AttemptStates, TerminalAttemptStates
  <2> QED BY <1>8, <2>1, <2>2 DEF TypeOK, Recovering, RecoverIncompleteAttempts
<1>9. CASE ClockMoves
  BY <1>9 DEF TypeOK, ClockMoves, tables
<1>10. CASE UNCHANGED vars
  BY <1>10 DEF TypeOK, vars
<1> QED
  BY <1>1, <1>2, <1>3, <1>4, <1>5, <1>6, <1>7, <1>8, <1>9, <1>10 DEF Next

\* Type correctness of the ledger.
THEOREM LedgerTypeCorrect == Spec => []TypeOK
  BY InitTyped, NextTyped, PTL DEF Spec

-----------------------------------------------------------------------------
\* A request whose rows keep their owners and states stays coherent.
LEMMA CoherenceFrame ==
  ASSUME NEW q \in Requests, LifecycleCoherent(q),
         requests'[q].state = requests[q].state, results'[q] = results[q],
         \A k \in Tokens :
            /\ authorizations'[k].request = q <=> authorizations[k].request = q
            /\ authorizations[k].request = q =>
                  authorizations'[k].state = authorizations[k].state,
         \A a \in Attempts :
            /\ attempts'[a].request = q <=> attempts[a].request = q
            /\ attempts[a].request = q => attempts'[a].state = attempts[a].state
  PROVE  LifecycleCoherent(q)'
<1>1. AuthorizationsOf(q)' = AuthorizationsOf(q)
  BY DEF AuthorizationsOf
<1>2. AttemptsOf(q)' = AttemptsOf(q)
  BY DEF AttemptsOf
<1>3. \A k \in AuthorizationsOf(q) : authorizations'[k].state = authorizations[k].state
  BY DEF AuthorizationsOf
<1>4. \A a \in AttemptsOf(q) : attempts'[a].state = attempts[a].state
  BY DEF AttemptsOf
<1>5. \A states : OneAuthorization(q, states) => OneAuthorization(q, states)'
  BY <1>1, <1>3 DEF OneAuthorization
<1>6. \A states : OneAttempt(q, states) => OneAttempt(q, states)'
  BY <1>2, <1>4 DEF OneAttempt
<1> QED
  BY <1>1, <1>2, <1>5, <1>6 DEF LifecycleCoherent

\* The state sets the proofs tell apart.
LEMMA StateSets ==
  /\ Absent \notin RequestStates \cup AuthorizationStates \cup AttemptStates
                  \cup Dispositions
  /\ OpenAttemptStates \cap TerminalAttemptStates = {}
  BY DEF Absent, RequestStates, AuthorizationStates, AttemptStates, Dispositions,
     AttemptedDispositions, UnattemptedDispositions, OpenAttemptStates,
     TerminalAttemptStates

\* What the shared UPDATE statements do to a row.
LEMMA AuthorizationsClosedRows ==
  ASSUME TypeOK, NEW ks, NEW state, NEW t, NEW k \in Tokens
  PROVE  LET row == AuthorizationsClosed(ks, state, t)[k] IN
         /\ row.request = authorizations[k].request
         /\ row.state = IF k \in ks THEN state ELSE authorizations[k].state
         /\ k \notin ks => row = authorizations[k]
  BY DEF AuthorizationsClosed, TypeOK, AuthorizationRow

\* Closing an attempt moves no other attempt and none to another owner.
LEMMA AttemptsClosedRows ==
  ASSUME TypeOK, NEW as, NEW state, NEW receipt, NEW t, NEW a \in Attempts
  PROVE  LET row == AttemptsClosed(as, state, receipt, t)[a] IN
         /\ row.request = attempts[a].request
         /\ row.token = attempts[a].token
         /\ row.state = IF a \in as THEN state ELSE attempts[a].state
         /\ a \notin as => row = attempts[a]
         /\ receipt \in {Null, attempts[a].receipt} => row.receipt = attempts[a].receipt
  BY DEF AttemptsClosed, ReceiptKept, TypeOK, AttemptRow

\* claim_request
LEMMA ClaimCoherent ==
  ASSUME LedgerInvariant, NEW r \in Requests, NEW sha \in Digests,
         ClaimRequest(r, sha, clock)
  PROVE  AbsentRowsBlank' /\ LifecyclesCoherent'
<1>1. AbsentRowsBlank'
  BY DEF LedgerInvariant, AbsentRowsBlank, ClaimRequest
<1>2. ASSUME NEW q \in Requests PROVE LifecycleCoherent(q)'
  <2>1. CASE q # r
    BY <2>1, CoherenceFrame DEF LedgerInvariant, LifecyclesCoherent, ClaimRequest, TypeOK
  <2>2. CASE q = r
    <3>1. requests[r].state = Absent /\ requests'[r].state = "CLAIMED"
      BY DEF ClaimRequest, ClaimReply, LedgerInvariant, TypeOK
    <3>2. AuthorizationsOf(r) = {} /\ AttemptsOf(r) = {}
      BY <3>1 DEF LedgerInvariant, LifecyclesCoherent, LifecycleCoherent
    <3>3. AuthorizationsOf(r)' = {} /\ AttemptsOf(r)' = {}
      BY <3>2 DEF AuthorizationsOf, AttemptsOf, ClaimRequest
    <3>4. results'[r].disposition = Absent
      BY <3>1 DEF ClaimRequest, LedgerInvariant, LifecyclesCoherent, LifecycleCoherent,
                  Absent
    <3> QED BY <2>2, <3>1, <3>3, <3>4 DEF LifecycleCoherent, Absent
  <2> QED BY <2>1, <2>2
<1> QED BY <1>1, <1>2 DEF LifecyclesCoherent

\* register
LEMMA RegisterCoherent ==
  ASSUME LedgerInvariant, NEW k \in Tokens, NEW decision \in Decisions,
         NEW link \in Links, NEW sha \in Digests,
         Register(k, decision, link, sha, clock)
  PROVE  AbsentRowsBlank' /\ LifecyclesCoherent'
<1> USE LedgerAssumption
<1>0. /\ authorizations[k].state = Absent /\ authorizations[k].request = Null
      /\ authorizations' \in [Tokens -> AuthorizationRow]
      /\ authorizations'[k].state = "ISSUED" /\ authorizations'[k].request = link
      /\ \A other \in Tokens \ {k} : authorizations'[other] = authorizations[other]
      /\ attempts' = attempts /\ results' = results
  <2>1. authorizations' \in [Tokens -> AuthorizationRow]
    BY DEF LedgerInvariant, Register, TypeOK, AuthorizationRow, AuthorizationStates, Times
  <2> QED BY <2>1 DEF LedgerInvariant, AbsentRowsBlank, Register, TypeOK
<1>1. AbsentRowsBlank'
  BY <1>0 DEF LedgerInvariant, AbsentRowsBlank, Absent
<1>2. ASSUME NEW q \in Requests PROVE LifecycleCoherent(q)'
  <2>1. CASE q # link
    <3>1. requests'[q] = requests[q]
      BY <2>1 DEF Register, RequestMoved, LedgerInvariant, TypeOK
    <3> QED BY <1>0, <2>1, <3>1, CoherenceFrame DEF LedgerInvariant, LifecyclesCoherent
  <2>2. CASE q = link
    <3>1. requests[q].state = "CLAIMED" /\ requests'[q].state = "AUTHORIZED"
      BY <2>2 DEF Register, RequestMoved, LedgerInvariant, TypeOK, RequestRow
    <3>2. /\ AuthorizationsOf(q) = {} /\ AttemptsOf(q) = {}
          /\ results[q].disposition = Absent
      BY <3>1 DEF LedgerInvariant, LifecyclesCoherent, LifecycleCoherent
    <3>3. AuthorizationsOf(q)' = {k} /\ AttemptsOf(q)' = {}
      BY <1>0, <2>2, <3>2 DEF AuthorizationsOf, AttemptsOf
    <3> QED BY <1>0, <3>1, <3>2, <3>3 DEF LifecycleCoherent, OneAuthorization, Absent
  <2> QED BY <2>1, <2>2
<1> QED BY <1>1, <1>2 DEF LifecyclesCoherent

\* consume_once
LEMMA ConsumeCoherent ==
  ASSUME LedgerInvariant, NEW k \in Tokens, NEW a \in Attempts \cup {Null},
         NEW summary \in Summaries \cup {Null}, ConsumeOnce(k, a, summary, clock)
  PROVE  AbsentRowsBlank' /\ LifecyclesCoherent'
<1> USE LedgerAssumption
<1> DEFINE link == authorizations[k].request
<1>0. /\ link \in Requests \cup {Null}
      /\ authorizations[k].state = "ISSUED"
      /\ \A other \in Tokens : /\ authorizations'[other].request = authorizations[other].request
                               /\ authorizations'[other].state =
                                     IF other = k THEN "CONSUMED" ELSE authorizations[other].state
      /\ a \in Attempts =>
            /\ attempts[a].state = Absent /\ attempts[a].request = Null
            /\ attempts' = [attempts EXCEPT ![a] =
                              [state |-> "RESERVED", token |-> k, request |-> link,
                               receipt |-> Null, reserved_at |-> clock,
                               completed_at |-> 0]]
      /\ a = Null => attempts' = attempts
      /\ results' = results
  BY ZenonT(60) DEF ConsumeOnce, Spendable, AuthorizationsClosed, LedgerInvariant, TypeOK, AuthorizationRow,
         AbsentRowsBlank
<1>a. attempts \in [Attempts -> AttemptRow]
  BY DEF LedgerInvariant, TypeOK
<1>1. AbsentRowsBlank'
  BY <1>0, <1>a DEF LedgerInvariant, AbsentRowsBlank, Absent
<1>2. ASSUME NEW q \in Requests PROVE LifecycleCoherent(q)'
  <2>1. CASE q # link
    <3>1. requests'[q] = requests[q]
      BY <1>0, <2>1 DEF ConsumeOnce, Spendable, RequestMoved, LedgerInvariant, TypeOK
    <3> QED BY <1>0, <1>a, <2>1, <3>1, CoherenceFrame
            DEF LedgerInvariant, LifecyclesCoherent
  <2>2. CASE q = link
    <3>1. /\ requests[q].state = "AUTHORIZED" /\ requests'[q].state = "ATTEMPT_RESERVED"
          /\ a \in Attempts
      BY <2>2 DEF ConsumeOnce, Spendable, RequestMoved, LedgerInvariant, TypeOK, RequestRow
    <3>2. /\ \E one \in Tokens : AuthorizationsOf(q) = {one}
          /\ AttemptsOf(q) = {} /\ results[q].disposition = Absent
      BY <3>1 DEF LedgerInvariant, LifecyclesCoherent, LifecycleCoherent, OneAuthorization
    <3>3. AuthorizationsOf(q) = {k}
      BY <2>2, <3>2 DEF AuthorizationsOf
    <3>4. AuthorizationsOf(q)' = {k}
      BY <1>0, <3>3 DEF AuthorizationsOf
    <3>5. AttemptsOf(q)' = {a} /\ attempts'[a].state = "RESERVED"
      BY <1>0, <1>a, <2>2, <3>1, <3>2 DEF AttemptsOf
    <3> QED BY <1>0, <3>1, <3>2, <3>4, <3>5
            DEF LifecycleCoherent, OneAuthorization, OneAttempt, OpenAttemptStates, Absent
  <2> QED BY <2>1, <2>2
<1> QED BY <1>1, <1>2 DEF LifecyclesCoherent

\* record_adapter_receipt: the attempt's request has it reserved, before and after.
LEMMA ReceiptCoherent ==
  ASSUME LedgerInvariant, NEW a \in Attempts, NEW receipt \in Receipts,
         RecordAdapterReceipt(a, receipt, clock)
  PROVE  AbsentRowsBlank' /\ LifecyclesCoherent'
<1>0. /\ attempts[a].state = "RESERVED" /\ attempts'[a].state = "RECEIPT_RECORDED"
      /\ \A b \in Attempts : /\ attempts'[b].request = attempts[b].request
                             /\ attempts'[b].token = attempts[b].token
                             /\ b # a => attempts'[b] = attempts[b]
      /\ authorizations' = authorizations /\ requests' = requests
      /\ results' = results
  BY DEF RecordAdapterReceipt, LedgerInvariant, TypeOK, AttemptRow
<1>1. AbsentRowsBlank'
  BY <1>0 DEF LedgerInvariant, AbsentRowsBlank, Absent
<1>2. ASSUME NEW q \in Requests PROVE LifecycleCoherent(q)'
  <2>0. LifecycleCoherent(q)
    BY DEF LedgerInvariant, LifecyclesCoherent
  <2>1. CASE attempts[a].request # q
    BY <1>0, <2>0, <2>1, CoherenceFrame
  <2>2. CASE attempts[a].request = q
    <3>1. a \in AttemptsOf(q)
      BY <2>2 DEF AttemptsOf
    <3>2. AttemptsOf(q)' = AttemptsOf(q) /\ AuthorizationsOf(q)' = AuthorizationsOf(q)
      BY <1>0 DEF AttemptsOf, AuthorizationsOf
    <3>3. attempts[a].state \notin TerminalAttemptStates
      BY <1>0 DEF TerminalAttemptStates
    <3>4. requests[q].state \notin {Absent, "CLAIMED", "AUTHORIZED", "TERMINAL"}
      BY <2>0, <3>1, <3>3 DEF LifecycleCoherent, OneAttempt
    <3>5. results[q].disposition = Absent
      BY <2>0, <3>4 DEF LifecycleCoherent
    <3>6. requests[q].state = "ATTEMPT_RESERVED" =>
            /\ OneAuthorization(q, {"CONSUMED"})'
            /\ AttemptsOf(q) = {a}
      BY <1>0, <2>0, <3>1, <3>2 DEF LifecycleCoherent, OneAttempt, OneAuthorization
    <3>7. AttemptsOf(q) = {a} => OneAttempt(q, OpenAttemptStates)'
      BY <1>0, <3>2 DEF OneAttempt, OpenAttemptStates
    <3> QED BY <1>0, <3>4, <3>5, <3>6, <3>7 DEF LifecycleCoherent
  <2> QED BY <2>1, <2>2
<1> QED BY <1>1, <1>2 DEF LifecyclesCoherent

\* record_attempt_outcome and recover_incomplete_attempts touch only rows that
\* belong to no request.
LEMMA LegacyCoherent ==
  ASSUME LedgerInvariant,
         \/ \E a \in Attempts, state \in TerminalAttemptStates,
               receipt \in Receipts \cup {Null} :
                  RecordAttemptOutcome(a, state, receipt, clock)
         \/ RecoverIncompleteAttempts(clock)
  PROVE  AbsentRowsBlank' /\ LifecyclesCoherent'
<1> USE LedgerAssumption
<1>0. /\ requests' = requests /\ results' = results
      /\ \A k \in Tokens :
            /\ authorizations'[k].request = authorizations[k].request
            /\ \/ authorizations'[k].state = authorizations[k].state
               \/ /\ authorizations[k].request = Null
                  /\ authorizations'[k].state # Absent
      /\ \A a \in Attempts :
            /\ attempts'[a].request = attempts[a].request
            /\ attempts'[a].token = attempts[a].token
            /\ \/ attempts'[a].state = attempts[a].state
               \/ /\ attempts[a].request = Null
                  /\ attempts'[a].state # Absent
  <2>1. CASE \E a \in Attempts, state \in TerminalAttemptStates,
                receipt \in Receipts \cup {Null} :
                   RecordAttemptOutcome(a, state, receipt, clock)
    BY <2>1, StateSets, AttemptsClosedRows
       DEF RecordAttemptOutcome, LedgerInvariant, AttemptStates
  <2>2. CASE RecoverIncompleteAttempts(clock)
    <3>1. \A a \in Attempts :
             /\ attempts'[a].request = attempts[a].request
             /\ attempts'[a].token = attempts[a].token
             /\ \/ attempts'[a].state = attempts[a].state
                \/ attempts[a].request = Null /\ attempts'[a].state # Absent
      BY <2>2, AttemptsClosedRows DEF RecoverIncompleteAttempts, LedgerInvariant, Absent
    <3>2. \A k \in Tokens :
             /\ authorizations'[k].request = authorizations[k].request
             /\ \/ authorizations'[k].state = authorizations[k].state
                \/ authorizations[k].request = Null /\ authorizations'[k].state # Absent
      BY <2>2, AuthorizationsClosedRows
         DEF RecoverIncompleteAttempts, LedgerInvariant, Absent
    <3> QED BY <2>2, <3>1, <3>2 DEF RecoverIncompleteAttempts
  <2> QED BY <2>1, <2>2
<1>1. AbsentRowsBlank'
  BY <1>0 DEF LedgerInvariant, AbsentRowsBlank
<1>2. ASSUME NEW q \in Requests PROVE LifecycleCoherent(q)'
  BY <1>0, CoherenceFrame DEF LedgerInvariant, LifecyclesCoherent
<1> QED BY <1>1, <1>2 DEF LifecyclesCoherent

\* complete_request
LEMMA CompleteCoherent ==
  ASSUME LedgerInvariant, NEW r \in Requests, NEW sha \in Digests,
         NEW result \in CallResults(clock), CompleteRequest(r, sha, result)
  PROVE  AbsentRowsBlank' /\ LifecyclesCoherent'
<1> USE LedgerAssumption
<1> DEFINE a == result.attempt
<1>0. /\ result.disposition \in Dispositions
      /\ a \in Attempts \cup {Null}
      /\ authorizations' = authorizations
      /\ results' = [results EXCEPT ![r] = result]
      /\ requests'[r].state = "TERMINAL"
      /\ \A q \in Requests \ {r} : requests'[q] = requests[q] /\ results'[q] = results[q]
      /\ results'[r] = result
  BY DEF CallResults, CompleteRequest, RequestMoved, LedgerInvariant, TypeOK, RequestRow
<1>a. ASSUME a # Null
      PROVE  /\ AttemptMayClose(r, result) /\ a \in Attempts
             /\ attempts' = AttemptsClosed({a}, AttemptStateFor(result.disposition),
                                           result.receipt, result.terminal_at)
             /\ AttemptStateFor(result.disposition) \in TerminalAttemptStates
             /\ attempts[a].request = r
  <2>1. result.disposition \in AttemptedDispositions
    BY <1>0, <1>a DEF CallResults, ResultWellFormed, Dispositions
  <2> QED BY <1>0, <1>a, <2>1 DEF CompleteRequest, AttemptMayClose, AttemptStateFor,
          AttemptedDispositions, TerminalAttemptStates
<1>b. a = Null => attempts' = attempts /\ NoEffectMayClose(r, result)
  BY DEF CompleteRequest
<1>c. \A b \in Attempts :
        /\ attempts'[b].request = attempts[b].request
        /\ attempts'[b].token = attempts[b].token
        /\ attempts'[b].state = IF b = a THEN AttemptStateFor(result.disposition)
                                ELSE attempts[b].state
  BY <1>a, <1>b, <1>0, AttemptsClosedRows DEF LedgerInvariant
<1>1. AbsentRowsBlank'
  BY <1>0, <1>a, <1>c, StateSets DEF LedgerInvariant, AbsentRowsBlank, AttemptStates
<1>2. ASSUME NEW q \in Requests PROVE LifecycleCoherent(q)'
  <2>0. LifecycleCoherent(q)
    BY DEF LedgerInvariant, LifecyclesCoherent
  <2>1. CASE q # r
    BY <1>0, <1>a, <1>c, <2>0, <2>1, CoherenceFrame
  <2>2. CASE q = r
    <3>0. /\ AttemptsOf(q)' = AttemptsOf(q) /\ AuthorizationsOf(q)' = AuthorizationsOf(q)
          /\ results'[q].disposition # Absent
          /\ \A states : OneAuthorization(q, states)' <=> OneAuthorization(q, states)
      <4>1. AttemptsOf(q)' = AttemptsOf(q) /\ AuthorizationsOf(q)' = AuthorizationsOf(q)
        BY <1>0, <1>c DEF AttemptsOf, AuthorizationsOf
      <4>2. \A states : OneAuthorization(q, states)' <=> OneAuthorization(q, states)
        BY <1>0, <4>1 DEF OneAuthorization
      <4> QED BY <1>0, <2>2, <4>1, <4>2, StateSets
    <3>1. CASE a = Null
      <4>1. /\ requests[q].state \in {"CLAIMED", "AUTHORIZED"}
            /\ \A k \in AuthorizationsOf(q) : authorizations[k].state = "REVOKED"
        BY <1>b, <2>2, <3>1 DEF NoEffectMayClose
      <4>2. \/ AuthorizationsOf(q) = {} /\ AttemptsOf(q) = {}
            \/ OneAuthorization(q, {"REVOKED"}) /\ AttemptsOf(q) = {}
        BY <2>0, <4>1 DEF LifecycleCoherent, OneAuthorization
      <4> QED BY <1>0, <2>2, <3>0, <4>2 DEF LifecycleCoherent, Absent
    <3>2. CASE a # Null
      <4>1. requests[q].state = "ATTEMPT_RESERVED" /\ a \in AttemptsOf(q)
        BY <1>a, <2>2, <3>2 DEF AttemptMayClose, AttemptsOf
      <4>2. OneAuthorization(q, {"CONSUMED"}) /\ AttemptsOf(q) = {a}
        BY <2>0, <4>1 DEF LifecycleCoherent, OneAttempt
      <4>3. OneAttempt(q, TerminalAttemptStates)'
        BY <1>a, <1>c, <3>0, <3>2, <4>2 DEF OneAttempt
      <4> QED BY <1>0, <2>2, <3>0, <4>2, <4>3 DEF LifecycleCoherent, Absent
    <3> QED BY <3>1, <3>2
  <2> QED BY <2>1, <2>2
<1> QED BY <1>1, <1>2 DEF LifecyclesCoherent

\* revoke_issued_for_request: an ISSUED authorization of a request means the
\* request is AUTHORIZED, where a revoked one is coherent too.
LEMMA RevokeCoherent ==
  ASSUME LedgerInvariant, NEW r \in Requests, NEW sha \in Digests,
         RevokeIssuedForRequest(r, sha, clock)
  PROVE  AbsentRowsBlank' /\ LifecyclesCoherent'
<1>0. /\ requests' = requests /\ results' = results /\ attempts' = attempts
      /\ \A k \in Tokens :
            /\ authorizations'[k].request = authorizations[k].request
            /\ authorizations'[k].state =
                  IF authorizations[k].request = r /\ authorizations[k].state = "ISSUED"
                  THEN "REVOKED" ELSE authorizations[k].state
  BY DEF RevokeIssuedForRequest, AuthorizationsClosed, AuthorizationsOf,
         LedgerInvariant, TypeOK, AuthorizationRow
<1>1. AbsentRowsBlank'
  BY <1>0 DEF LedgerInvariant, AbsentRowsBlank, Absent
<1>2. ASSUME NEW q \in Requests PROVE LifecycleCoherent(q)'
  <2>0. LifecycleCoherent(q)
    BY DEF LedgerInvariant, LifecyclesCoherent
  <2>1. CASE q # r
    BY <1>0, <2>0, <2>1, CoherenceFrame
  <2>2. CASE q = r
    <3>1. AttemptsOf(q)' = AttemptsOf(q) /\ AuthorizationsOf(q)' = AuthorizationsOf(q)
      BY <1>0 DEF AttemptsOf, AuthorizationsOf
    <3>2. \A k \in AuthorizationsOf(q) :
             authorizations'[k].state = IF authorizations[k].state = "ISSUED"
                                        THEN "REVOKED" ELSE authorizations[k].state
      BY <1>0, <2>2 DEF AuthorizationsOf
    <3>3. /\ OneAuthorization(q, {"ISSUED", "REVOKED"}) =>
                OneAuthorization(q, {"ISSUED", "REVOKED"})'
          /\ OneAuthorization(q, {"CONSUMED"}) => OneAuthorization(q, {"CONSUMED"})'
          /\ OneAuthorization(q, {"REVOKED"}) => OneAuthorization(q, {"REVOKED"})'
      BY <3>1, <3>2 DEF OneAuthorization
    <3>4. \A states : OneAttempt(q, states) => OneAttempt(q, states)'
      BY <1>0, <3>1 DEF OneAttempt
    <3> QED BY <1>0, <2>0, <3>1, <3>3, <3>4 DEF LifecycleCoherent
  <2> QED BY <2>1, <2>2
<1> QED BY <1>1, <1>2 DEF LifecyclesCoherent

\* The empty database is coherent.
LEMMA InitInvariant == Init => LedgerInvariant
<1> SUFFICES ASSUME Init PROVE AbsentRowsBlank /\ LifecyclesCoherent
  BY InitTyped DEF LedgerInvariant
<1> USE LedgerAssumption
<1>1. AbsentRowsBlank
  BY DEF Init, AbsentRowsBlank, NoAuthorization, NoAttempt
<1>2. ASSUME NEW q \in Requests PROVE LifecycleCoherent(q)
  <2>1. AuthorizationsOf(q) = {} /\ AttemptsOf(q) = {}
    BY DEF Init, AuthorizationsOf, AttemptsOf, NoAuthorization, NoAttempt
  <2> QED BY <2>1 DEF Init, LifecycleCoherent, NoRequest, NoResult, Absent
<1> QED BY <1>1, <1>2 DEF LifecyclesCoherent

\* Every transaction preserves the inductive invariant.
LEMMA NextInvariant == LedgerInvariant /\ [Next]_vars => LedgerInvariant'
<1> SUFFICES ASSUME LedgerInvariant, [Next]_vars
             PROVE  AbsentRowsBlank' /\ LifecyclesCoherent'
  BY NextTyped DEF LedgerInvariant
<1>1. CASE Claiming
  BY <1>1, ClaimCoherent DEF Claiming
<1>2. CASE Registering
  BY <1>2, RegisterCoherent DEF Registering
<1>3. CASE Consuming
  BY <1>3, ConsumeCoherent DEF Consuming
<1>4. CASE RecordingReceipt
  BY <1>4, ReceiptCoherent DEF RecordingReceipt
<1>5. CASE RecordingOutcome
  BY <1>5, LegacyCoherent DEF RecordingOutcome
<1>6. CASE Completing
  BY <1>6, CompleteCoherent DEF Completing
<1>7. CASE Revoking
  BY <1>7, RevokeCoherent DEF Revoking
<1>8. CASE Recovering
  BY <1>8, LegacyCoherent DEF Recovering
<1>9. CASE ClockMoves \/ UNCHANGED vars
  <2>1. UNCHANGED tables
    BY <1>9 DEF ClockMoves, vars, tables
  <2>2. AbsentRowsBlank'
    BY <2>1 DEF LedgerInvariant, AbsentRowsBlank, tables
  <2>3. LifecyclesCoherent'
    BY <2>1, CoherenceFrame DEF LedgerInvariant, LifecyclesCoherent, tables
  <2> QED BY <2>2, <2>3
<1> QED
  BY <1>1, <1>2, <1>3, <1>4, <1>5, <1>6, <1>7, <1>8, <1>9 DEF Next

\* The rows of every request always stand in one of the combinations the
\* cardinality table of _validate_control_relations allows, whatever calls are
\* made and however the clock is stepped.
THEOREM LedgerCoherent == Spec => []LifecyclesCoherent
<1>1. LedgerInvariant => LifecyclesCoherent
  BY DEF LedgerInvariant
<1> QED BY <1>1, InitInvariant, NextInvariant, PTL DEF Spec

-----------------------------------------------------------------------------
\* A terminal request holds no authority and no attempt that could still move.
LEMMA TerminalRows ==
  ASSUME LedgerInvariant, NEW r \in Requests, requests[r].state = "TERMINAL"
  PROVE  /\ \A k \in AuthorizationsOf(r) :
               authorizations[k].state \notin {"ISSUED", Absent}
         /\ \A a \in AttemptsOf(r) :
               attempts[a].state \notin OpenAttemptStates \cup {Absent}
<1>1. \/ AuthorizationsOf(r) = {} /\ AttemptsOf(r) = {}
      \/ OneAuthorization(r, {"REVOKED"}) /\ AttemptsOf(r) = {}
      \/ OneAuthorization(r, {"CONSUMED"}) /\ OneAttempt(r, TerminalAttemptStates)
  BY DEF LedgerInvariant, LifecyclesCoherent, LifecycleCoherent
<1>2. TerminalAttemptStates \cap (OpenAttemptStates \cup {Absent}) = {}
  BY DEF TerminalAttemptStates, OpenAttemptStates, Absent
<1> QED BY <1>1, <1>2 DEF OneAuthorization, OneAttempt, Absent

\* No transaction touches a row that belongs to a terminal request.
LEMMA TerminalFrozenStep ==
  ASSUME LedgerInvariant, [Next]_vars, NEW r \in Requests, requests[r].state = "TERMINAL"
  PROVE  /\ requests'[r] = requests[r] /\ results'[r] = results[r]
         /\ \A k \in AuthorizationsOf(r) : authorizations'[k] = authorizations[k]
         /\ \A a \in AttemptsOf(r) : attempts'[a] = attempts[a]
<1> USE LedgerAssumption
<1>0. /\ \A k \in Tokens : authorizations[k].request = r =>
            authorizations[k].state \notin {"ISSUED", Absent}
      /\ \A a \in Attempts : attempts[a].request = r =>
            attempts[a].state \notin OpenAttemptStates \cup {Absent}
  BY TerminalRows DEF AuthorizationsOf, AttemptsOf
<1>a. TypeOK
  BY DEF LedgerInvariant
<1> SUFFICES
      /\ requests'[r] = requests[r] /\ results'[r] = results[r]
      /\ \A k \in Tokens :
            authorizations[k].request = r => authorizations'[k] = authorizations[k]
      /\ \A a \in Attempts : attempts[a].request = r => attempts'[a] = attempts[a]
  BY DEF AuthorizationsOf, AttemptsOf
<1>1. CASE Claiming
  BY <1>1, <1>a DEF Claiming, ClaimRequest, ClaimReply, TypeOK, Absent
<1>2. CASE Registering
  BY <1>0, <1>2, <1>a DEF Registering, Register, RequestMoved, TypeOK
<1>3. CASE Consuming
  <2> PICK k \in Tokens, a \in Attempts \cup {Null},
           summary \in Summaries \cup {Null} : ConsumeOnce(k, a, summary, clock)
    BY <1>3 DEF Consuming
  <2>1. authorizations[k].request # r
    BY <1>0 DEF ConsumeOnce, Spendable
  <2>2. requests'[r] = requests[r] /\ results'[r] = results[r]
    BY <1>a, <2>1 DEF ConsumeOnce, Spendable, RequestMoved, TypeOK
  <2>3. \A other \in Tokens : other # k => authorizations'[other] = authorizations[other]
    BY <1>a, AuthorizationsClosedRows DEF ConsumeOnce, Spendable
  <2>4. \A b \in Attempts : attempts[b].request = r => attempts'[b] = attempts[b]
    BY <1>0, <1>a DEF ConsumeOnce, Spendable, TypeOK
  <2> QED BY <2>1, <2>2, <2>3, <2>4
<1>4. CASE RecordingReceipt
  BY <1>0, <1>4, <1>a DEF RecordingReceipt, RecordAdapterReceipt, TypeOK, OpenAttemptStates
<1>5. CASE RecordingOutcome
  BY <1>5, <1>a, AttemptsClosedRows DEF RecordingOutcome, RecordAttemptOutcome
<1>6. CASE Completing
  <2> PICK q \in Requests, sha \in Digests, result \in CallResults(clock) :
            CompleteRequest(q, sha, result)
    BY <1>6 DEF Completing
  <2>1. q # r
    BY DEF CompleteRequest, AttemptMayClose, NoEffectMayClose
  <2>2. requests'[r] = requests[r] /\ results'[r] = results[r]
    BY <1>a, <2>1 DEF CompleteRequest, RequestMoved, TypeOK
  <2>3. \A a \in Attempts : attempts[a].request = r => attempts'[a] = attempts[a]
    BY <1>a, <2>1, AttemptsClosedRows DEF CompleteRequest, AttemptMayClose
  <2> QED BY <2>2, <2>3 DEF CompleteRequest
<1>7. CASE Revoking
  BY <1>0, <1>7, <1>a, AuthorizationsClosedRows DEF Revoking, RevokeIssuedForRequest
<1>8. CASE Recovering
  BY <1>8, <1>a, AuthorizationsClosedRows, AttemptsClosedRows
     DEF Recovering, RecoverIncompleteAttempts
<1>9. CASE ClockMoves \/ UNCHANGED vars
  BY <1>9 DEF ClockMoves, vars, tables
<1> QED
  BY <1>1, <1>2, <1>3, <1>4, <1>5, <1>6, <1>7, <1>8, <1>9 DEF Next

\* Once complete_request has closed a request, no later call, exact repeat or
\* conflicting one, changes its rows.
THEOREM TerminalHistoryImmutable == Spec => TerminalRowsFrozen
<1>1. LedgerInvariant /\ [Next]_vars =>
        [\A r \in Requests :
            requests[r].state = "TERMINAL" =>
              /\ requests'[r] = requests[r] /\ results'[r] = results[r]
              /\ \A k \in AuthorizationsOf(r) : authorizations'[k] = authorizations[k]
              /\ \A a \in AttemptsOf(r) : attempts'[a] = attempts[a]]_vars
  BY TerminalFrozenStep
<1> QED
  BY <1>1, InitInvariant, NextInvariant, PTL DEF Spec, TerminalRowsFrozen

-----------------------------------------------------------------------------
\* A transaction that finds an authorization CONSUMED or REVOKED leaves its row.
LEMMA SpentStep ==
  ASSUME TypeOK, [Next]_vars, NEW k \in Tokens,
         authorizations[k].state \in {"CONSUMED", "REVOKED"}
  PROVE  authorizations'[k] = authorizations[k]
<1>1. CASE Claiming
  BY <1>1 DEF Claiming, ClaimRequest
<1>2. CASE Registering
  BY <1>2 DEF Registering, Register, TypeOK, Absent
<1>3. CASE Consuming
  BY <1>3, AuthorizationsClosedRows DEF Consuming, ConsumeOnce, Spendable
<1>4. CASE RecordingReceipt \/ RecordingOutcome \/ Completing
  BY <1>4 DEF RecordingReceipt, RecordAdapterReceipt, RecordingOutcome,
     RecordAttemptOutcome, Completing, CompleteRequest
<1>5. CASE Revoking
  BY <1>5, AuthorizationsClosedRows DEF Revoking, RevokeIssuedForRequest
<1>6. CASE Recovering
  BY <1>6, AuthorizationsClosedRows DEF Recovering, RecoverIncompleteAttempts
<1>7. CASE ClockMoves \/ UNCHANGED vars
  BY <1>7 DEF ClockMoves, vars, tables
<1> QED
  BY <1>1, <1>2, <1>3, <1>4, <1>5, <1>6, <1>7 DEF Next

\* consume_once and the revocations close an authorization for good: no order of
\* calls consumes what was revoked, revokes what was consumed or issues it anew.
THEOREM AuthoritySpentForGood == Spec => AuthorityIsSpentOnce
<1>1. TypeOK /\ [Next]_vars =>
        [\A k \in Tokens :
            authorizations[k].state \in {"CONSUMED", "REVOKED"} =>
              authorizations'[k] = authorizations[k]]_vars
  BY SpentStep
<1> QED
  BY <1>1, LedgerTypeCorrect, PTL DEF Spec, AuthorityIsSpentOnce

-----------------------------------------------------------------------------
\* Every attempt was reserved by spending a token, and no token by two.
LEMMA InitTokens == Init => TokensPaid
  BY DEF Init, TokensPaid, NoAttempt

\* The steps that open no attempt: no attempt changes its token or disappears,
\* and what was consumed stays so.
LEMMA TokensPaidFrame ==
  ASSUME TokensPaid,
         \A a \in Attempts :
            /\ attempts'[a].token = attempts[a].token
            /\ attempts'[a].state # Absent => attempts[a].state # Absent,
         \A k \in Tokens : authorizations[k].state = "CONSUMED" =>
            authorizations'[k].state = "CONSUMED"
  PROVE  TokensPaid'
  BY DEF TokensPaid

\* consume_once takes a token that is ISSUED, which no attempt has spent.
LEMMA ConsumePaid ==
  ASSUME TypeOK, TokensPaid, NEW k \in Tokens, NEW a \in Attempts \cup {Null},
         NEW summary \in Summaries \cup {Null}, ConsumeOnce(k, a, summary, clock)
  PROVE  TokensPaid'
<1> USE LedgerAssumption
<1>1. \A b \in Attempts : attempts[b].state # Absent => attempts[b].token # k
  BY DEF TokensPaid, ConsumeOnce, Spendable
<1>2. \A other \in Tokens :
        authorizations'[other].state = IF other = k THEN "CONSUMED"
                                       ELSE authorizations[other].state
  BY AuthorizationsClosedRows DEF ConsumeOnce
<1>3. CASE a = Null
  BY <1>2, <1>3, TokensPaidFrame DEF ConsumeOnce
<1>4. CASE a # Null
  <2>1. /\ attempts'[a].token = k
        /\ \A b \in Attempts \ {a} : attempts'[b] = attempts[b]
    BY <1>4 DEF ConsumeOnce, TypeOK
  <2> QED BY <1>1, <1>2, <2>1 DEF TokensPaid
<1> QED BY <1>3, <1>4

\* Every transaction keeps attempts and spent tokens paired.
LEMMA NextTokens == TypeOK /\ TokensPaid /\ [Next]_vars => TokensPaid'
<1> SUFFICES ASSUME TypeOK, TokensPaid, [Next]_vars PROVE TokensPaid'
  OBVIOUS
<1>0. \A k \in Tokens : authorizations[k].state = "CONSUMED" =>
         authorizations'[k].state = "CONSUMED"
  BY SpentStep
<1>1. CASE Claiming \/ Registering \/ Revoking
  BY <1>0, <1>1, TokensPaidFrame
     DEF Claiming, ClaimRequest, Registering, Register, Revoking, RevokeIssuedForRequest
<1>2. CASE Consuming
  BY <1>2, ConsumePaid DEF Consuming
<1>3. CASE RecordingReceipt
  BY <1>0, <1>3, TokensPaidFrame
     DEF RecordingReceipt, RecordAdapterReceipt, TypeOK, AttemptRow, Absent
<1>4. CASE RecordingOutcome
  <2>1. \A a \in Attempts :
           /\ attempts'[a].token = attempts[a].token
           /\ attempts'[a].state # Absent => attempts[a].state # Absent
    BY <1>4, StateSets, AttemptsClosedRows
       DEF RecordingOutcome, RecordAttemptOutcome, AttemptStates
  <2> QED BY <1>0, <2>1, TokensPaidFrame
<1>5. CASE Completing
  <2>1. \A a \in Attempts :
           /\ attempts'[a].token = attempts[a].token
           /\ attempts'[a].state # Absent => attempts[a].state # Absent
    BY <1>5, AttemptsClosedRows DEF Completing, CompleteRequest, AttemptMayClose, Absent
  <2> QED BY <1>0, <2>1, TokensPaidFrame
<1>6. CASE Recovering
  <2>1. \A a \in Attempts :
           /\ attempts'[a].token = attempts[a].token
           /\ attempts'[a].state # Absent => attempts[a].state # Absent
    BY <1>6, StateSets, AttemptsClosedRows
       DEF Recovering, RecoverIncompleteAttempts, AttemptStates
  <2> QED BY <1>0, <2>1, TokensPaidFrame
<1>7. CASE ClockMoves \/ UNCHANGED vars
  BY <1>7 DEF ClockMoves, vars, tables, TokensPaid
<1> QED
  BY <1>1, <1>2, <1>3, <1>4, <1>5, <1>6, <1>7 DEF Next

\* No request and no authorization is ever behind two attempts: consume_once
\* reserves the attempt in the transaction that spends the token, and a request
\* is issued one token.
THEOREM OneAttemptEach == Spec => []OneAttemptPerAuthority
<1>1. LedgerInvariant /\ TokensPaid => OneAttemptPerAuthority
  <2> SUFFICES ASSUME LedgerInvariant, TokensPaid, NEW a \in Attempts, NEW b \in Attempts,
                      attempts[a].state # Absent, attempts[b].state # Absent, a # b
               PROVE  /\ attempts[a].token # attempts[b].token
                      /\ attempts[a].request # Null =>
                            attempts[a].request # attempts[b].request
    BY DEF OneAttemptPerAuthority
  <2>1. attempts[a].token # attempts[b].token
    BY DEF TokensPaid
  <2>2. ASSUME NEW r \in Requests, attempts[a].request = r, attempts[b].request = r
        PROVE  FALSE
    <3>1. AttemptsOf(r) = {} \/ \E c \in Attempts : AttemptsOf(r) = {c}
      BY DEF LedgerInvariant, LifecyclesCoherent, LifecycleCoherent, OneAttempt, TypeOK,
             RequestRow, RequestStates
    <3> QED BY <2>2, <3>1 DEF AttemptsOf
  <2>3. attempts[a].request \in Requests \cup {Null}
    BY DEF LedgerInvariant, TypeOK, AttemptRow
  <2> QED BY <2>1, <2>2, <2>3
<1>2. LedgerInvariant => TypeOK
  BY DEF LedgerInvariant
<1> QED
  BY <1>1, <1>2, InitInvariant, NextInvariant, InitTokens, NextTokens, PTL DEF Spec

=============================================================================

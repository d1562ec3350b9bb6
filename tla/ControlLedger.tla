--------------------------- MODULE ControlLedger ---------------------------
(***************************************************************************)
(* The Stage A control ledger (SQLiteControlLedger in stage_a.py): one     *)
(* SQLite database with the tables requests, authorizations, attempts,     *)
(* request_results and audit_outbox.                                       *)
(*                                                                         *)
(* Every operation of the class is one BEGIN IMMEDIATE transaction, hence  *)
(* one action here.  It first re-reads the whole database with             *)
(* _validate_control_relations and fails closed when a relation between    *)
(* the rows is broken: RelationsValid is a guard of every action (written  *)
(* last, where it is evaluated for calls the other guards admit).  A call  *)
(* the code refuses, and an exact repeat it acknowledges without writing,  *)
(* leave all tables as they are: both are stuttering steps.                *)
(* A definition commented as a Variant is a plausible mistake in the one   *)
(* below it, used by no action: the README says which property notices it. *)
(*                                                                         *)
(* Digests, identifiers and receipts are opaque values.  The attempt       *)
(* binding (binding_sha256 = idempotency_key) covers the token identifier, *)
(* so a token stands for its binding.  A row's outcome digest is a         *)
(* function of the recorded evidence and is not a column of its own.       *)
(***************************************************************************)
EXTENDS Naturals, Sequences, FiniteSets, SequencesExt

CONSTANTS
    Requests,         \* (principal_id, request_id) keys
    Digests,          \* values of request_sha256
    Tokens,           \* values of token_id
    Decisions,        \* values of decision_id (and of verification_id)
    Attempts,         \* values of attempt_id
    Receipts,         \* digests of adapter receipts
    Links,            \* what register may link to: Requests, and Null for legacy
    MaxTime,          \* bound on timestamps, in whole seconds
    ClockMayStepBack, \* TRUE when the wall clock may be set back
    Null              \* SQL NULL

ASSUME LedgerAssumption ==
    /\ MaxTime \in Nat
    /\ ClockMayStepBack \in BOOLEAN
    /\ Links \subseteq Requests \cup {Null}
    /\ Null \notin Requests \cup Digests \cup Tokens \cup Decisions
                   \cup Attempts \cup Receipts

VARIABLES
    requests,       \* table requests, a row per key (Absent when there is none)
    authorizations, \* table authorizations
    attempts,       \* table attempts
    results,        \* table request_results
    outbox,         \* table audit_outbox in event_id order
    clock           \* the wall clock the callers take their timestamps from

tables == <<requests, authorizations, attempts, results, outbox>>
vars == <<requests, authorizations, attempts, results, outbox, clock>>

-----------------------------------------------------------------------------
(* Schema: the closed state sets and the rows.                             *)

Absent == "ABSENT"

RequestStates == {"CLAIMED", "AUTHORIZED", "ATTEMPT_RESERVED", "TERMINAL"}
AuthorizationStates == {"ISSUED", "CONSUMED", "REVOKED"}
OpenAttemptStates == {"RESERVED", "RECEIPT_RECORDED"}
TerminalAttemptStates ==
    {"VERIFIED_EFFECT", "FAILED_NO_EFFECT", "RECOVERY_REQUIRED", "UNKNOWN_EFFECT"}
AttemptStates == OpenAttemptStates \cup TerminalAttemptStates

\* complete_request's disposition_states: how an attempted request closes.
AttemptedDispositions ==
    {"COMPLETED_VERIFIED", "FAILED_NO_EFFECT", "RECOVERY_REQUIRED", "UNKNOWN_EFFECT"}
\* Variant: the two vocabularies taken for one.
AttemptStateForUnmapped(disposition) == disposition
AttemptStateFor(disposition) ==
    IF disposition = "COMPLETED_VERIFIED" THEN "VERIFIED_EFFECT" ELSE disposition
UnattemptedDispositions == {"DENIED_NO_EFFECT", "ABORTED_NO_EFFECT"}
Dispositions == AttemptedDispositions \cup UnattemptedDispositions

Times == 0..MaxTime

RequestRow ==
    [state : RequestStates \cup {Absent}, sha : Digests \cup {Null},
     claimed_at : Times, updated_at : Times]
\* closed_at is consumed_at or revoked_at, whichever the state calls for.
AuthorizationRow ==
    [state : AuthorizationStates \cup {Absent}, request : Requests \cup {Null},
     decision : Decisions \cup {Null}, issued_at : Times, closed_at : Times]
AttemptRow ==
    [state : AttemptStates \cup {Absent}, token : Tokens \cup {Null},
     request : Requests \cup {Null}, receipt : Receipts \cup {Null},
     reserved_at : Times, completed_at : Times]
ResultRow ==
    [disposition : Dispositions \cup {Absent}, decision : Decisions \cup {Null},
     attempt : Attempts \cup {Null}, receipt : Receipts \cup {Null},
     terminal_at : Times]

NoRequest == [state |-> Absent, sha |-> Null, claimed_at |-> 0, updated_at |-> 0]
NoAuthorization ==
    [state |-> Absent, request |-> Null, decision |-> Null,
     issued_at |-> 0, closed_at |-> 0]
NoAttempt ==
    [state |-> Absent, token |-> Null, request |-> Null, receipt |-> Null,
     reserved_at |-> 0, completed_at |-> 0]
NoResult ==
    [disposition |-> Absent, decision |-> Null, attempt |-> Null,
     receipt |-> Null, terminal_at |-> 0]

Event(type, subject, data, t) ==
    [type |-> type, subject |-> subject, data |-> data, at |-> t]

Init ==
    /\ requests = [r \in Requests |-> NoRequest]
    /\ authorizations = [k \in Tokens |-> NoAuthorization]
    /\ attempts = [a \in Attempts |-> NoAttempt]
    /\ results = [r \in Requests |-> NoResult]
    /\ outbox = <<>>
    /\ clock = 0

-----------------------------------------------------------------------------
(* _validate_control_relations: what a transaction demands of the rows it  *)
(* finds.                                                                  *)

AuthorizationsOf(r) == {k \in Tokens : authorizations[k].request = r}
AttemptsOf(r) == {a \in Attempts : attempts[a].request = r}
AttemptsOn(k) == {a \in Attempts : attempts[a].token = k}

\* The cardinality table: which rows a request in each state may own.
OneAuthorization(r, states) ==
    /\ \E k \in Tokens : AuthorizationsOf(r) = {k}
    /\ \A k \in AuthorizationsOf(r) : authorizations[k].state \in states
OneAttempt(r, states) ==
    /\ \E a \in Attempts : AttemptsOf(r) = {a}
    /\ \A a \in AttemptsOf(r) : attempts[a].state \in states

LifecycleCoherent(r) ==
    /\ requests[r].state = "TERMINAL" <=> results[r].disposition # Absent
    /\ requests[r].state \in {Absent, "CLAIMED"} =>
          AuthorizationsOf(r) = {} /\ AttemptsOf(r) = {}
    /\ requests[r].state = "AUTHORIZED" =>
          OneAuthorization(r, {"ISSUED", "REVOKED"}) /\ AttemptsOf(r) = {}
    /\ requests[r].state = "ATTEMPT_RESERVED" =>
          OneAuthorization(r, {"CONSUMED"}) /\ OneAttempt(r, OpenAttemptStates)
    /\ requests[r].state = "TERMINAL" =>
          \/ AuthorizationsOf(r) = {} /\ AttemptsOf(r) = {}
          \/ OneAuthorization(r, {"REVOKED"}) /\ AttemptsOf(r) = {}
          \/ OneAuthorization(r, {"CONSUMED"}) /\ OneAttempt(r, TerminalAttemptStates)

\* The timestamps a request's rows share and the order they must have.
RequestChronology(r) ==
    LET req == requests[r] IN
    /\ req.claimed_at <= req.updated_at
    /\ \A k \in AuthorizationsOf(r) :
          /\ req.claimed_at <= authorizations[k].issued_at
          /\ req.state = "AUTHORIZED" => req.updated_at = authorizations[k].issued_at
    /\ req.state = "ATTEMPT_RESERVED" =>
          \A a \in AttemptsOf(r) : req.updated_at = attempts[a].reserved_at
    /\ req.state = "TERMINAL" => req.updated_at = results[r].terminal_at

\* An authorization closes no earlier than it was issued, and an attempt
\* belongs to a consumed authorization of the same request, consumed when the
\* attempt was reserved.
AuthorizationChronology(k) ==
    authorizations[k].state \in {"CONSUMED", "REVOKED"} =>
        authorizations[k].issued_at <= authorizations[k].closed_at
AttemptProvenance(a) ==
    LET k == attempts[a].token IN
    attempts[a].state # Absent =>
        /\ k \in Tokens
        /\ authorizations[k].state = "CONSUMED"
        /\ authorizations[k].request = attempts[a].request
        /\ authorizations[k].closed_at = attempts[a].reserved_at
        /\ attempts[a].state \in TerminalAttemptStates =>
              attempts[a].reserved_at <= attempts[a].completed_at

\* A terminal result repeats exactly what the request's rows say.
ResultProvenance(r) ==
    LET res == results[r] IN
    res.disposition # Absent =>
        IF AttemptsOf(r) = {}
        THEN /\ res.attempt = Null
             /\ res.disposition \in UnattemptedDispositions
             /\ \A k \in AuthorizationsOf(r) :
                   /\ res.disposition = "ABORTED_NO_EFFECT"
                   /\ authorizations[k].closed_at <= res.terminal_at
        ELSE \A a \in AttemptsOf(r) :
                /\ res.attempt = a
                /\ res.disposition \in AttemptedDispositions
                /\ attempts[a].state = AttemptStateFor(res.disposition)
                /\ attempts[a].receipt = res.receipt
                /\ attempts[a].completed_at = res.terminal_at
                /\ \A k \in AuthorizationsOf(r) :
                      authorizations[k].decision = res.decision

-----------------------------------------------------------------------------
(* _validate_control_outbox_projection: the outbox holds exactly the       *)
(* events the rows account for, in an order the lifecycle allows.          *)

PositionsOf(type, subject) ==
    {i \in DOMAIN outbox : outbox[i].type = type /\ outbox[i].subject = subject}

Precedes(type1, subject1, type2, subject2) ==
    \A j \in PositionsOf(type2, subject2) : \A i \in PositionsOf(type1, subject1) : i < j

\* A transition has exactly one row under its key, and that row is the event;
\* one that has not happened has none.
Exactly(type, subject, happened, event) ==
    LET seen == PositionsOf(type, subject) IN
    IF happened THEN \E i \in seen : seen = {i} /\ outbox[i] = event ELSE seen = {}

RequestEventsExact(r) ==
    /\ Exactly("REQUEST_CLAIMED", r, requests[r].state # Absent,
               Event("REQUEST_CLAIMED", r, <<requests[r].sha>>, requests[r].claimed_at))
    /\ Exactly("REQUEST_TERMINAL", r, results[r].disposition # Absent,
               Event("REQUEST_TERMINAL", r, <<results[r]>>, results[r].terminal_at))
    /\ Precedes("REQUEST_CLAIMED", r, "REQUEST_TERMINAL", r)
    /\ \A a \in AttemptsOf(r) :
          Precedes("ATTEMPT_TERMINAL", a, "REQUEST_TERMINAL", r)

AuthorizationEventsExact(k) ==
    LET auth == authorizations[k] IN
    /\ Exactly("AUTHORIZATION_ISSUED", k, auth.state # Absent,
               Event("AUTHORIZATION_ISSUED", k, <<auth.decision>>, auth.issued_at))
    /\ Exactly("AUTHORIZATION_CONSUMED", k, auth.state = "CONSUMED",
               Event("AUTHORIZATION_CONSUMED", k, <<AttemptsOn(k)>>, auth.closed_at))
    /\ Exactly("AUTHORIZATION_REVOKED", k, auth.state = "REVOKED",
               Event("AUTHORIZATION_REVOKED", k, <<"QUIESCED_RECOVERY">>, auth.closed_at))
    /\ auth.request # Null =>
          Precedes("REQUEST_CLAIMED", auth.request, "AUTHORIZATION_ISSUED", k)
    /\ Precedes("AUTHORIZATION_ISSUED", k, "AUTHORIZATION_CONSUMED", k)
    /\ Precedes("AUTHORIZATION_ISSUED", k, "AUTHORIZATION_REVOKED", k)
    /\ \A a \in AttemptsOn(k) :
          Precedes("ATTEMPT_RESERVED", a, "AUTHORIZATION_CONSUMED", k)

\* The receipt event carries the receipt while the attempt is open; once the
\* attempt is terminal the code checks only that it exists (UNKNOWN_EFFECT may
\* lack it) and when.
ReceiptEventExact(a) ==
    LET try == attempts[a]
        seen == PositionsOf("ADAPTER_RECEIPT_RECORDED", a)
        Once == \E i \in seen : seen = {i}
    IN  /\ CASE try.state = "RECEIPT_RECORDED" ->
                    Once /\ \A i \in seen : outbox[i].data = <<try.receipt>>
             [] try.state \in TerminalAttemptStates /\ try.receipt # Null ->
                    Once \/ (seen = {} /\ try.state = "UNKNOWN_EFFECT")
             [] OTHER -> seen = {}
        /\ \A i \in seen :
              /\ try.reserved_at <= outbox[i].at
              /\ try.state \in TerminalAttemptStates => outbox[i].at <= try.completed_at

\* An unlinked UNKNOWN_EFFECT attempt was closed by one of two events.
TerminalEventExact(a) ==
    LET try == attempts[a]
        Closed(happened) ==
            Exactly("ATTEMPT_TERMINAL", a, happened,
                    Event("ATTEMPT_TERMINAL", a, <<try.state, try.receipt>>,
                          try.completed_at))
        Recovered(happened) ==
            Exactly("ATTEMPT_RECOVERED_UNKNOWN", a, happened,
                    Event("ATTEMPT_RECOVERED_UNKNOWN", a, <<"UNKNOWN_EFFECT">>,
                          try.completed_at))
    IN  \/ Closed(try.state \in TerminalAttemptStates) /\ Recovered(FALSE)
        \/ /\ try.state = "UNKNOWN_EFFECT" /\ try.request = Null
           /\ Closed(FALSE) /\ Recovered(TRUE)

AttemptEventsExact(a) ==
    /\ Exactly("ATTEMPT_RESERVED", a, attempts[a].state # Absent,
               Event("ATTEMPT_RESERVED", a, <<attempts[a].token>>, attempts[a].reserved_at))
    /\ ReceiptEventExact(a)
    /\ TerminalEventExact(a)
    /\ Precedes("ATTEMPT_RESERVED", a, "ADAPTER_RECEIPT_RECORDED", a)
    /\ \A closing \in {"ATTEMPT_TERMINAL", "ATTEMPT_RECOVERED_UNKNOWN"} :
          /\ Precedes("ATTEMPT_RESERVED", a, closing, a)
          /\ Precedes("ADAPTER_RECEIPT_RECORDED", a, closing, a)

OutboxExact ==
    /\ \A r \in Requests : RequestEventsExact(r)
    /\ \A k \in Tokens : AuthorizationEventsExact(k)
    /\ \A a \in Attempts : AttemptEventsExact(a)

RelationsValid ==
    /\ \A r \in Requests :
          LifecycleCoherent(r) /\ RequestChronology(r) /\ ResultProvenance(r)
    /\ \A k \in Tokens : AuthorizationChronology(k)
    /\ \A a \in Attempts : AttemptProvenance(a)
    /\ OutboxExact

\* The same as a value: TLC is to evaluate it, not to branch on its disjuncts.
LedgerAccepted == RelationsValid = TRUE

-----------------------------------------------------------------------------
(* The operations.  t is the timestamp the caller hands in.                *)

Record(events) == outbox' = outbox \o events

\* The UPDATE statements the operations share: the tables with some rows moved
\* on.  An attempt keeps its receipt unless a receipt is given (COALESCE).
\* Variant: the transition does not stamp the row.
RequestMovedUnstamped(r, state, t) == [requests EXCEPT ![r].state = state]
RequestMoved(r, state, t) ==
    [requests EXCEPT ![r] = [@ EXCEPT !.state = state, !.updated_at = t]]
AuthorizationsClosed(ks, state, t) ==
    [k \in Tokens |->
        IF k \in ks
        THEN [authorizations[k] EXCEPT !.state = state, !.closed_at = t]
        ELSE authorizations[k]]
ReceiptKept(a, receipt) == IF receipt = Null THEN attempts[a].receipt ELSE receipt
\* Variant: an unknown effect is stored without its receipt.
AttemptsClosedBlank(as, state, receipt, t) ==
    [a \in Attempts |->
        IF a \in as
        THEN [attempts[a] EXCEPT !.state = state, !.completed_at = t,
                  !.receipt = IF state = "UNKNOWN_EFFECT" THEN Null ELSE receipt]
        ELSE attempts[a]]
AttemptsClosed(as, state, receipt, t) ==
    [a \in Attempts |->
        IF a \in as
        THEN [attempts[a] EXCEPT !.state = state, !.completed_at = t,
                                 !.receipt = ReceiptKept(a, receipt)]
        ELSE attempts[a]]

\* Variant: a closed request may be submitted again.
ClaimReplyReopening(r, sha) ==
    IF requests[r].state \in {Absent, "TERMINAL"} THEN "NEW" ELSE "DUPLICATE"
\* What claim_request answers about a request with this digest.
ClaimReply(r, sha) ==
    IF requests[r].state = Absent THEN "NEW"
    ELSE IF requests[r].sha = sha THEN "DUPLICATE" ELSE "CONFLICT"

\* claim_request; DUPLICATE and CONFLICT write nothing.
ClaimRequest(r, sha, t) ==
    /\ ClaimReply(r, sha) = "NEW"
    /\ LedgerAccepted
    /\ requests' = [requests EXCEPT ![r] =
          [state |-> "CLAIMED", sha |-> sha, claimed_at |-> t, updated_at |-> t]]
    /\ Record(<<Event("REQUEST_CLAIMED", r, <<sha>>, t)>>)
    /\ UNCHANGED <<authorizations, attempts, results>>

\* register: issues a one-use authorization, for a claimed request (link = r)
\* or, through the legacy signature, for none (link = Null).
Register(k, decision, link, sha, t) ==
    /\ authorizations[k].state = Absent
    /\ \A other \in Tokens : authorizations[other].decision # decision
    /\ link # Null =>
          /\ requests[link].state = "CLAIMED"
          /\ requests[link].sha = sha
          /\ requests[link].updated_at <= t
    /\ LedgerAccepted
    /\ authorizations' = [authorizations EXCEPT ![k] =
          [state |-> "ISSUED", request |-> link, decision |-> decision,
           issued_at |-> t, closed_at |-> 0]]
    /\ requests' = IF link = Null THEN requests
                   ELSE RequestMoved(link, "AUTHORIZED", t)
    /\ Record(<<Event("AUTHORIZATION_ISSUED", k, <<decision>>, t)>>)
    /\ UNCHANGED <<attempts, results>>

\* The recovery summary a linked consumption has to present: it names the
\* request and the decision the authorization was issued for.
SummaryBinds(summary, k) ==
    LET auth == authorizations[k] IN
    /\ summary.request = auth.request
    /\ summary.sha = requests[auth.request].sha
    /\ summary.decision = auth.decision

\* An authorization is consumed from ISSUED, by a conditional UPDATE.
\* Variant: the UPDATE is not conditional on the state.
SpendableTwice(k, t) ==
    authorizations[k].state # Absent /\ authorizations[k].issued_at <= t
Spendable(k, t) ==
    authorizations[k].state = "ISSUED" /\ authorizations[k].issued_at <= t

\* consume_once: T1.  Spends the authorization and, with an attempt, reserves it
\* in the same transaction; only a legacy authorization may go without one.
ConsumeOnce(k, a, summary, t) ==
    LET link == authorizations[k].request IN
    /\ Spendable(k, t)
    /\ IF link = Null
       THEN summary = Null
       ELSE /\ requests[link].updated_at <= t
            /\ requests[link].state = "AUTHORIZED"
            /\ a # Null /\ summary # Null /\ SummaryBinds(summary, k)
    /\ a # Null => attempts[a].state = Absent
    /\ LedgerAccepted
    /\ authorizations' = AuthorizationsClosed({k}, "CONSUMED", t)
    /\ attempts' = IF a = Null THEN attempts
                   ELSE [attempts EXCEPT ![a] =
                           [state |-> "RESERVED", token |-> k, request |-> link,
                            receipt |-> Null, reserved_at |-> t,
                            completed_at |-> 0]]
    /\ requests' = IF link = Null THEN requests
                   ELSE RequestMoved(link, "ATTEMPT_RESERVED", t)
    /\ Record((IF a = Null THEN <<>>
               ELSE <<Event("ATTEMPT_RESERVED", a, <<k>>, t)>>)
              \o <<Event("AUTHORIZATION_CONSUMED", k, <<{a} \ {Null}>>, t)>>)
    /\ UNCHANGED results

\* record_adapter_receipt
RecordAdapterReceipt(a, receipt, t) ==
    /\ attempts[a].state = "RESERVED"
    /\ attempts[a].reserved_at <= t
    /\ LedgerAccepted
    /\ attempts' = [attempts EXCEPT ![a] =
          [@ EXCEPT !.state = "RECEIPT_RECORDED", !.receipt = receipt]]
    /\ Record(<<Event("ADAPTER_RECEIPT_RECORDED", a, <<receipt>>, t)>>)
    /\ UNCHANGED <<requests, authorizations, results>>

\* record_attempt_outcome: closes a legacy attempt.  A receipt argument replaces
\* the recorded one, and the event carries the argument as it was given.  The
\* table's CHECK wants a receipt under every outcome but UNKNOWN_EFFECT.
RecordAttemptOutcome(a, state, receipt, t) ==
    /\ attempts[a].state \in OpenAttemptStates
    /\ attempts[a].request = Null
    /\ attempts[a].reserved_at <= t
    /\ state # "UNKNOWN_EFFECT" => ReceiptKept(a, receipt) # Null
    /\ LedgerAccepted
    /\ attempts' = AttemptsClosed({a}, state, receipt, t)
    /\ Record(<<Event("ATTEMPT_TERMINAL", a, <<state, receipt>>, t)>>)
    /\ UNCHANGED <<requests, authorizations, results>>

\* RequestLookupResult.__post_init__: the results a caller can construct.
ResultWellFormed(result) ==
    /\ result.attempt = Null <=> result.disposition \in UnattemptedDispositions
    /\ result.attempt = Null => result.receipt = Null
    /\ result.disposition \in AttemptedDispositions \ {"UNKNOWN_EFFECT"} =>
          result.receipt # Null

\* complete_request for an attempt: only UNKNOWN_EFFECT may close an attempt
\* that has no receipt, and a recorded receipt has to be the result's.
AttemptMayClose(r, result) ==
    LET try == attempts[result.attempt] IN
    /\ requests[r].state = "ATTEMPT_RESERVED"
    /\ try.request = r
    /\ try.reserved_at <= result.terminal_at
    /\ result.decision = authorizations[try.token].decision
    /\ \/ /\ try.state = "RECEIPT_RECORDED"
          /\ result.receipt = try.receipt
       \/ /\ try.state = "RESERVED"
          /\ result.disposition = "UNKNOWN_EFFECT"
          /\ result.receipt = Null

\* Variant: the closure does not look for an authorization that is still valid.
NoEffectMayCloseUnrevoked(r, result) ==
    requests[r].state \in {"CLAIMED", "AUTHORIZED"}
\* complete_request without an attempt: a denial has no authorization, an abort
\* follows the revocation of the one there is.
NoEffectMayClose(r, result) ==
    /\ requests[r].state \in {"CLAIMED", "AUTHORIZED"}
    /\ \A k \in AuthorizationsOf(r) :
          /\ result.disposition # "DENIED_NO_EFFECT"
          /\ authorizations[k].state = "REVOKED"
          /\ authorizations[k].closed_at <= result.terminal_at

\* complete_request: T3.  Attempt, result row and request close together.
CompleteRequest(r, sha, result) ==
    LET a == result.attempt
        t == result.terminal_at
        state == AttemptStateFor(result.disposition)
    IN  /\ ResultWellFormed(result)
        /\ requests[r].sha = sha
        /\ requests[r].updated_at <= t
        /\ IF a = Null THEN NoEffectMayClose(r, result)
                       ELSE AttemptMayClose(r, result)
        /\ LedgerAccepted
        /\ attempts' = IF a = Null THEN attempts
                       ELSE AttemptsClosed({a}, state, result.receipt, t)
        /\ results' = [results EXCEPT ![r] = result]
        /\ requests' = RequestMoved(r, "TERMINAL", t)
        /\ Record((IF a = Null THEN <<>>
                   ELSE <<Event("ATTEMPT_TERMINAL", a, <<state, result.receipt>>, t)>>)
                  \o <<Event("REQUEST_TERMINAL", r, <<result>>, t)>>)
        /\ UNCHANGED authorizations

Revocation(k, t) == Event("AUTHORIZATION_REVOKED", k, <<"QUIESCED_RECOVERY">>, t)

\* revoke_issued_for_request: the request row keeps its state.
RevokeIssuedForRequest(r, sha, t) ==
    LET issued == {k \in AuthorizationsOf(r) : authorizations[k].state = "ISSUED"} IN
    /\ requests[r].sha = sha
    /\ issued # {}
    /\ \A k \in issued : authorizations[k].issued_at <= t
    /\ LedgerAccepted
    /\ authorizations' = AuthorizationsClosed(issued, "REVOKED", t)
    /\ \E revocations \in SetToSeqs({Revocation(k, t) : k \in issued}) :
          Record(revocations)
    /\ UNCHANGED <<requests, attempts, results>>

\* recover_incomplete_attempts: the legacy recovery, refused while a linked
\* attempt is open.
RecoverIncompleteAttempts(t) ==
    LET open == {a \in Attempts : attempts[a].state \in OpenAttemptStates}
        issued == {k \in Tokens : /\ authorizations[k].state = "ISSUED"
                                  /\ authorizations[k].request = Null}
        Recovery(a) ==
            Event("ATTEMPT_RECOVERED_UNKNOWN", a, <<"UNKNOWN_EFFECT">>, t)
    IN  /\ \A a \in open : attempts[a].request = Null /\ attempts[a].reserved_at <= t
        /\ \A k \in issued : authorizations[k].issued_at <= t
        /\ open # {} \/ issued # {}
        /\ LedgerAccepted
        /\ attempts' = AttemptsClosed(open, "UNKNOWN_EFFECT", Null, t)
        /\ authorizations' = AuthorizationsClosed(issued, "REVOKED", t)
        /\ \E recoveries \in SetToSeqs({Recovery(a) : a \in open}),
              revocations \in SetToSeqs({Revocation(k, t) : k \in issued}) :
                 Record(recoveries \o revocations)
        /\ UNCHANGED <<requests, results>>

-----------------------------------------------------------------------------
(* Any caller, any arguments, in any order.                                *)

Summaries == [request : Requests, sha : Digests, decision : Decisions]

CallResults(t) ==
    {result \in [disposition : Dispositions, decision : Decisions,
                 attempt : Attempts \cup {Null}, receipt : Receipts \cup {Null},
                 terminal_at : {t}] : ResultWellFormed(result)}

Claiming == \E r \in Requests, sha \in Digests : ClaimRequest(r, sha, clock)
Registering ==
    \E k \in Tokens, decision \in Decisions, link \in Links, sha \in Digests :
        Register(k, decision, link, sha, clock)
Consuming ==
    \E k \in Tokens, a \in Attempts \cup {Null}, summary \in Summaries \cup {Null} :
        ConsumeOnce(k, a, summary, clock)
RecordingReceipt ==
    \E a \in Attempts, receipt \in Receipts : RecordAdapterReceipt(a, receipt, clock)
RecordingOutcome ==
    \E a \in Attempts, state \in TerminalAttemptStates, receipt \in Receipts \cup {Null} :
        RecordAttemptOutcome(a, state, receipt, clock)
Completing ==
    \E r \in Requests, sha \in Digests, result \in CallResults(clock) :
        CompleteRequest(r, sha, result)
Revoking ==
    \E r \in Requests, sha \in Digests : RevokeIssuedForRequest(r, sha, clock)
Recovering == RecoverIncompleteAttempts(clock)

\* The clock moves between calls, backwards too if the host steps it.
ClockMoves ==
    /\ clock' \in Times \ {clock}
    /\ clock' > clock \/ ClockMayStepBack
    /\ UNCHANGED tables

Next ==
    \/ /\ \/ Claiming \/ Registering \/ Consuming \/ RecordingReceipt
          \/ RecordingOutcome \/ Completing \/ Revoking \/ Recovering
       /\ UNCHANGED clock
    \/ ClockMoves

Spec == Init /\ [][Next]_vars

-----------------------------------------------------------------------------
(* Properties.                                                             *)

\* Every column holds a value of its domain and every row is well formed.
TypeOK ==
    /\ requests \in [Requests -> RequestRow]
    /\ authorizations \in [Tokens -> AuthorizationRow]
    /\ attempts \in [Attempts -> AttemptRow]
    /\ results \in [Requests -> ResultRow]
    /\ clock \in Times

\* What the operations leave behind is what _validate_control_relations will
\* accept: no sequence of legal calls locks the ledger out of itself.
LedgerValidates == RelationsValid

\* The part of it the cardinality table states: what each request's rows are.
LifecyclesCoherent == \A r \in Requests : LifecycleCoherent(r)

\* A row that does not exist belongs to no request and no token.
AbsentRowsBlank ==
    /\ \A k \in Tokens :
          authorizations[k].state = Absent => authorizations[k].request = Null
    /\ \A a \in Attempts :
          attempts[a].state = Absent =>
              attempts[a].request = Null /\ attempts[a].token = Null

\* Every attempt was paid for with a token of its own.
TokensPaid ==
    /\ \A a \in Attempts :
          attempts[a].state # Absent =>
              /\ attempts[a].token \in Tokens
              /\ authorizations[attempts[a].token].state = "CONSUMED"
    /\ \A a, b \in Attempts :
          attempts[a].state # Absent /\ attempts[b].state # Absent /\ a # b =>
              attempts[a].token # attempts[b].token

\* What the transactions preserve whatever the clock does and however the legacy
\* calls are used: the inductive invariant behind the theorems.
LedgerInvariant == TypeOK /\ AbsentRowsBlank /\ LifecyclesCoherent

\* A terminal request, its result row, its attempt and its authorization never
\* change again (complete_request refuses a different result; the exact repeat
\* writes nothing).
TerminalRowsFrozen ==
    [][\A r \in Requests :
          requests[r].state = "TERMINAL" =>
              /\ requests'[r] = requests[r] /\ results'[r] = results[r]
              /\ \A k \in AuthorizationsOf(r) : authorizations'[k] = authorizations[k]
              /\ \A a \in AttemptsOf(r) : attempts'[a] = attempts[a]]_vars

\* The receipt recorded for an attempt is never replaced or lost.
RecordedReceiptKept ==
    [][\A a \in Attempts :
          attempts[a].receipt # Null => attempts'[a].receipt = attempts[a].receipt]_vars

\* An authorization is spent or revoked, never both and never twice, and it
\* never returns to ISSUED.
AuthorityIsSpentOnce ==
    [][\A k \in Tokens :
          authorizations[k].state \in {"CONSUMED", "REVOKED"} =>
              authorizations'[k] = authorizations[k]]_vars

\* A request never has a second attempt: two attempts never share a request or a
\* token, whatever order claims, issues, consumptions and recoveries come in.
OneAttemptPerAuthority ==
    \A a, b \in Attempts :
        /\ attempts[a].state # Absent /\ attempts[b].state # Absent
        /\ a # b
        => /\ attempts[a].token # attempts[b].token
           /\ attempts[a].request # Null => attempts[a].request # attempts[b].request

\* The docstring of _validate_control_outbox_projection: "Require outbox rows to
\* be the exact projection of durable transitions."
OutboxIsExactProjection == OutboxExact

=============================================================================

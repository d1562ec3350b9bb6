--------------------------- MODULE LifecycleProofs ---------------------------
(***************************************************************************)
(* Proofs about the audit lifecycle: the types of the stores and of a      *)
(* call, that a closing record never understates the effect of its call,   *)
(* and that a requirement is approved once, in its interval, and only when *)
(* its call changed nothing.                                               *)
(*                                                                         *)
(* The inductive invariant follows a call through its places.  Until the   *)
(* broker is asked the target is the one that was observed, and no receipt *)
(* exists; from then on receipt, observation and target agree; and a       *)
(* record that says how a call ended, or that it needs an approval, is     *)
(* only appended where no effect of that call can follow.                  *)
(***************************************************************************)
EXTENDS Lifecycle, SequenceTheorems, TLAPS

-----------------------------------------------------------------------------
(* The inductive invariant.                                                *)

RecordTypes ==
    {"REQUEST_RECEIVED", "REQUEST_REJECTED", "REQUEST_VALIDATED",
     "IDENTITY_EVALUATED", "EVIDENCE_EVALUATED", "CONSEQUENCE_EVALUATED",
     "POLICY_EVALUATED", "POLICY_EVALUATION_FAILED", "DECISION_VERIFIED",
     "CONTROL_PLANE_FAILURE", "DECISION_PRODUCED", "APPROVAL_REQUIREMENT_PRODUCED",
     "AUTHORIZATION_NOT_ISSUED", "AUTHORIZATION_PRODUCED", "BROKER_SKIPPED",
     "BROKER_INVOKED", "BROKER_REJECTED", "BROKER_FAILURE", "ACTION_SKIPPED",
     "ACTION_ATTEMPTED", "VERIFICATION_SKIPPED", "VERIFICATION_PERFORMED",
     "POST_EFFECT_ACCOUNTING_FAILURE", "FINAL_STATE_RECORDED"}

\* The places of a call before an authorization is issued, before the adapter is
\* reached, with an effect in hand, and after the broker.
Deciding == {"RECEIVED", "VALIDATED", "IDENTIFIED", "EVIDENCED", "ASSESSED",
             "DECIDED", "VERIFIED"}
Claimed == {"IDENTIFIED", "EVIDENCED", "ASSESSED", "DECIDED", "VERIFIED"}
Holding == {"INVOKED", "CONSUMED"}
Effected == {"EXECUTED", "ACTED", "ACCOUNTING"}
Ending == {"CLOSING", "ACCOUNTING"}
Places == Deciding \cup Holding \cup Effected \cup {"BROKER_FAILED", "CLOSING", "IDLE"}

\* The records that are only written where no effect can follow.
Ends == {"FINAL_STATE_RECORDED", "APPROVAL_REQUIREMENT_PRODUCED"}
MayAppend(c) ==
    {t \in RecordTypes :
       /\ t \in Ends => c.at = "CLOSING"
       /\ t = "APPROVAL_REQUIREMENT_PRODUCED" => c.outcome = "ESCALATE"
       /\ t \in InEvidenceTry => c.at \in {"EVIDENCED", "ASSESSED"}}

Outcomes == {"DENY", "ALLOW", "ESCALATE"}
Reasons == {"REQUEST_INVALID", "INTERNAL_CONTROL_FAILURE", "DECISION_VERIFIER_FAILED",
            "IDENTITY_EVALUATED", "REQUEST_REJECTED", "POLICY_EVALUATION_FAILED"}
             \cup RefusedByLedger
CallStates ==
    [at : Places, todo : Seq(RecordTypes), content : Contents \cup {None},
     request : Requests \cup {Provisional(x) : x \in Contents} \cup {None},
     policy : Outcomes \cup {None}, passed : BOOLEAN,
     outcome : Outcomes \cup {None}, reasons : SUBSET Reasons, bound : BOOLEAN,
     before : States \cup {None}, issued : 0..MaxTime, executed : 0..MaxTime,
     result : Results \cup {None}, verification : Reports \cup {None},
     failed : RecordTypes \cup {None}]

\* The file is a sequence, whatever its records hold.
IsFile(s) == s \in Seq({s[i] : i \in DOMAIN s})

StoresTyped ==
    /\ IsFile(rows) /\ ambiguous \subseteq DOMAIN rows
    /\ calls \in 0..MaxCalls /\ faults \in 0..MaxFaults /\ clock \in 0..MaxTime
    /\ claims \in [Requests -> ClaimRows \cup {None}]
    /\ tokens \in [Calls -> {None, "ISSUED", "RESERVED", "RECEIPTED"}]
    /\ receipts \in [Calls -> Receipts \cup {None}]
    /\ target \in States
    /\ approvals \in [Calls -> Requirements \cup {None}]
    /\ \A i \in DOMAIN rows : rows[i].decision \in 1..calls
CallTyped ==
    /\ call \in CallStates /\ call.todo \in Seq(MayAppend(call))
    /\ call.at = "IDLE" => call = Idle
    /\ call.at # "IDLE" => calls \in Calls /\ call.content \in Contents
    /\ call.at \in Claimed \cup {"VALIDATED"} => call.request \in Requests

\* Nothing exists for the calls to come.
FutureHeld ==
    \A n \in Calls : n > calls =>
       tokens[n] = None /\ receipts[n] = None /\ approvals[n] = None

\* A spent authorization has a request that names it, and an effect a spent
\* authorization.
AuthorityHeld ==
    /\ \A r \in Requests : claims[r] # None /\ claims[r].state = "CLAIMED" =>
          claims[r].decision = None
    /\ \A n \in Calls :
          /\ receipts[n] # None => tokens[n] \in {"RESERVED", "RECEIPTED"}
          /\ tokens[n] # None => \E r \in Requests : claims[r] # None
                                                  /\ claims[r].decision = n

\* What the call in progress has, by the place it is at.
CallHeld ==
    /\ call.at \in Claimed =>
         /\ claims[call.request] # None /\ claims[call.request].state = "CLAIMED"
    /\ call.at \in Deciding => tokens[calls] = None
    /\ call.at \in Deciding \cup Holding =>
         receipts[calls] = None /\ call.verification = None /\ call.result = None
    /\ call.at \in Holding =>
         call.before = target /\ call.outcome = "ALLOW" /\ tokens[calls] # None
    /\ call.at = "CONSUMED" => tokens[calls] = "RESERVED"
    /\ call.at # "IDLE" /\ tokens[calls] # None =>
         call.request \in Requests /\ claims[call.request] # None
                                   /\ claims[call.request].decision = calls
EffectHeld ==
    /\ call.at \in Effected =>
         receipts[calls] # None /\ call.result # None /\ call.result.known
    /\ call.at = "EXECUTED" => tokens[calls] = "RESERVED"
    /\ call.at # "IDLE" /\ receipts[calls] # None =>
         /\ receipts[calls].after = target /\ receipts[calls].before = call.before
         /\ call.outcome = "ALLOW"
    /\ call.result # None =>
         /\ call.result.attempt = calls
         /\ call.result.known => receipts[calls] # None
VerificationHeld ==
    /\ call.verification # None =>
         /\ call.verification.rollback
              <=> call.verification.status \notin {"VERIFIED", "FAILED"}
         /\ call.verification.observed \in {target, Nothing, Unavailable}
         /\ call.verification.status = "VERIFIED" =>
              /\ receipts[calls] # None
              /\ target = [call.before EXCEPT !.last = calls, !.expires = TRUE]
    /\ call.at = "CLOSING" /\ receipts[calls] # None => call.verification # None

\* A receipt offered again was obtained inside its interval.
PendingHeld ==
    \A n \in Calls : approvals[n] # None /\ approvals[n].pending # None =>
       /\ approvals[n].created <= approvals[n].pending.at
       /\ approvals[n].pending.at < approvals[n].created + ApprovalTTL

\* The records after which no effect of their call follows, and what a record of a
\* requirement says.
RequirementRows == {i \in DOMAIN rows : rows[i].type = "APPROVAL_REQUIREMENT_PRODUCED"}
EndsHeld ==
    \A i \in DOMAIN rows :
       /\ rows[i].type \in Ends /\ rows[i].decision = calls /\ call.at # "IDLE"
             => call.at \in Ending
       /\ rows[i].type = "APPROVAL_REQUIREMENT_PRODUCED" =>
             /\ receipts[rows[i].decision] = None
             /\ approvals[rows[i].decision] # None =>
                  rows[i].body.created = approvals[rows[i].decision].created

LifecycleTyped ==
    /\ StoresTyped /\ CallTyped /\ FutureHeld /\ AuthorityHeld
    /\ CallHeld /\ EffectHeld /\ VerificationHeld /\ PendingHeld
LifecycleInvariant ==
    LifecycleTyped /\ EndsHeld /\ EffectNeverUnderstated /\ ApprovedOnce

-----------------------------------------------------------------------------
(* Files and the lists of records a call has yet to append.                *)

\* A list over fewer records is one over more: what process_json may append at one
\* place it may append at another.
LEMMA SeqMonotone ==
  ASSUME NEW S, NEW T, S \subseteq T
  PROVE  Seq(S) \subseteq Seq(T)
  OBVIOUS

\* A file with one more record: what append_event of phase3/audit.py does to it.
LEMMA FileAppend ==
  ASSUME NEW s, IsFile(s), NEW x
  PROVE  /\ IsFile(Append(s, x)) /\ Len(s) \in Nat /\ DOMAIN s = 1..Len(s)
         /\ Len(Append(s, x)) = Len(s) + 1 /\ DOMAIN Append(s, x) = 1..(Len(s) + 1)
         /\ \A i \in DOMAIN s : Append(s, x)[i] = s[i]
         /\ Append(s, x)[Len(s) + 1] = x
  <1> DEFINE S == {s[i] : i \in DOMAIN s}
             t == Append(s, x)
  <1>1. s \in Seq(S) BY DEF IsFile
  <1>2. s \in Seq(S \cup {x}) BY <1>1, SeqMonotone
  <1>3. /\ t \in Seq(S \cup {x}) /\ Len(t) = Len(s) + 1
        /\ \A i \in 1..Len(s) : t[i] = s[i]
        /\ t[Len(s) + 1] = x
    BY <1>2, AppendProperties
  <1>4. Len(s) \in Nat /\ DOMAIN s = 1..Len(s) /\ DOMAIN t = 1..Len(t)
    BY <1>1, <1>3, LenProperties
  <1>5. S \cup {x} = {t[i] : i \in DOMAIN t}
    <2>1. \A y \in S \cup {x} : \E i \in DOMAIN t : y = t[i]
      BY <1>3, <1>4
    <2>2. \A i \in DOMAIN t : t[i] \in S \cup {x}
      BY <1>3, <1>4
    <2> QED BY <2>1, <2>2
  <1>6. IsFile(t) BY <1>3, <1>5 DEF IsFile
  <1> QED BY <1>3, <1>4, <1>6

\* What a call may append at any place, and what it may append when it ends without
\* asking for an approval.
Middle == RecordTypes \ (Ends \cup InEvidenceTry)
Last == Middle \cup {"FINAL_STATE_RECORDED"}

\* The lists the handlers of process_json go through.
LEMMA Lists ==
  /\ NonExecutingTail \in Seq(Last) /\ RejectedRest \in Seq(Last)
  /\ FailureRest \in Seq(Last) /\ AccountingRest \in Seq(Last)
  /\ Tail(Accounted) \in Seq(Last)
  /\ Authorized \in Seq(Middle)
  <1> USE DEF Last, Middle, RecordTypes, Ends, InEvidenceTry
  <1>1. NonExecutingTail \in Seq(Last) BY DEF NonExecutingTail
  <1>2. RejectedRest \in Seq(Last) BY DEF RejectedRest
  <1>3. AccountingRest \in Seq(Last) BY DEF AccountingRest
  <1>4. Authorized \in Seq(Middle) BY DEF Authorized
  <1>5. Acted \in Seq(Last) BY DEF Acted
  <1>6. <<"BROKER_FAILURE">> \in Seq(Last) /\ <<"FINAL_STATE_RECORDED">> \in Seq(Last)
    OBVIOUS
  <1>7. FailureRest \in Seq(Last) BY <1>5, <1>6, ConcatProperties DEF FailureRest
  <1>8. /\ Accounted \in Seq(Last)
        /\ Len(Accounted) = Len(Acted) + Len(<<"FINAL_STATE_RECORDED">>)
    BY <1>5, <1>6, ConcatProperties DEF Accounted
  <1>9. Accounted # <<>> BY <1>8, SMTT(30) DEF Acted
  <1>10. Tail(Accounted) \in Seq(Last) BY <1>8, <1>9, HeadTailProperties
  <1> QED BY <1>1, <1>2, <1>3, <1>4, <1>7, <1>10

\* The records after an effect are records a closing call appends.
LEMMA AccountedLast == \A i \in DOMAIN Accounted : Accounted[i] \in Last
  <1>1. Acted \in Seq(Last)
    BY DEF Acted, Last, Middle, RecordTypes, Ends, InEvidenceTry
  <1>2. <<"FINAL_STATE_RECORDED">> \in Seq(Last) BY DEF Last
  <1>3. Accounted \in Seq(Last) BY <1>1, <1>2, ConcatProperties DEF Accounted
  <1> QED BY <1>3, LenProperties

\* A list of middle records may follow anywhere, one that ends the call where the
\* call closes.
LEMMA ListsFollow ==
  ASSUME NEW c
  PROVE  /\ Seq(Middle) \subseteq Seq(MayAppend(c))
         /\ c.at = "CLOSING" => Seq(Last) \subseteq Seq(MayAppend(c))
         /\ Seq(Middle) \subseteq Seq(RecordTypes) /\ Seq(Last) \subseteq Seq(RecordTypes)
         /\ Seq(MayAppend(c)) \subseteq Seq(RecordTypes)
         /\ Seq(Middle) \subseteq Seq(Last)
  <1>1. Middle \subseteq MayAppend(c) BY DEF Middle, MayAppend, Ends
  <1>2. ASSUME c.at = "CLOSING" PROVE Last \subseteq MayAppend(c)
    BY <1>2 DEF Last, Middle, MayAppend, Ends, InEvidenceTry, RecordTypes
  <1>3. Last \subseteq RecordTypes BY DEF Last, Middle, RecordTypes
  <1>4. MayAppend(c) \subseteq RecordTypes BY DEF MayAppend
  <1>5. Middle \subseteq Last BY DEF Last
  <1> QED BY <1>1, <1>2, <1>3, <1>4, <1>5, SeqMonotone

-----------------------------------------------------------------------------
(* The typing part of the invariant, in two halves.                        *)

StoresHeld == StoresTyped /\ FutureHeld /\ AuthorityHeld /\ PendingHeld
CallWell == CallTyped /\ CallHeld /\ EffectHeld /\ VerificationHeld

\* The types of the stores and of a call in progress are the typing part together.
LEMMA TypedInTwo == LifecycleTyped <=> StoresHeld /\ CallWell
  BY DEF LifecycleTyped, StoresHeld, CallWell

\* None is none of the things the stores, a call or a report hold.
LEMMA NoneIsNothing ==
  /\ None \notin Calls /\ None \notin ClaimRows
  /\ None \notin {"VERIFIED", "ISSUED", "RESERVED", "RECEIPTED"}
  /\ None \notin Receipts /\ None \notin Requirements /\ None \notin Results
  /\ None \notin Reports /\ None \notin [approver : Approvers, at : 0..MaxTime]
  BY NoneAssumption

\* A call that is not in progress holds nothing.
LEMMA IdleTyped ==
  Idle \in CallStates /\ Idle.at = "IDLE" /\ Idle.todo = <<>>
                      /\ Idle.verification = None /\ Idle.result = None
  BY LifecycleAssumption DEF Idle, CallStates, Places

\* What a call between two requests, or cut short, leaves (engine.py: the locals of
\* process_json are gone).
LEMMA IdleWell ==
  ASSUME call = Idle
  PROVE  CallWell
  <1>1. CallTyped
    BY IdleTyped DEF CallTyped, Claimed, MayAppend
  <1>2. CallHeld
    BY IdleTyped DEF CallHeld, Claimed, Deciding, Holding
  <1>3. EffectHeld
    BY IdleTyped DEF EffectHeld, Effected
  <1>4. VerificationHeld
    BY IdleTyped DEF VerificationHeld
  <1> QED BY <1>1, <1>2, <1>3, <1>4 DEF CallWell

\* The stores before the first request.
LEMMA InitTyped == Init => LifecycleTyped
  <1> SUFFICES ASSUME Init PROVE LifecycleTyped OBVIOUS
  <1>1. CallWell BY IdleWell DEF Init
  <1>2. IsFile(rows) BY DEF Init, IsFile
  <1>3. StoresTyped
    BY <1>2, LifecycleAssumption DEF Init, StoresTyped, States, Untouched, Calls
  <1>4. FutureHeld /\ AuthorityHeld /\ PendingHeld
    BY DEF Init, FutureHeld, AuthorityHeld, PendingHeld
  <1> QED BY <1>1, <1>3, <1>4, TypedInTwo DEF StoresHeld

\* Whatever changes neither the file nor a store nor the gate keeps their half.
LEMMA StoresKept ==
  ASSUME StoresHeld, UNCHANGED <<rows, ambiguous, stores, approvals>>,
         calls' = calls, faults' \in 0..MaxFaults, clock' \in 0..MaxTime
  PROVE  StoresHeld'
  <1>1. StoresTyped' BY DEF StoresHeld, StoresTyped, stores
  <1>2. FutureHeld' /\ PendingHeld'
    BY DEF StoresHeld, FutureHeld, PendingHeld, stores
  <1>3. AuthorityHeld' BY DEF StoresHeld, AuthorityHeld, stores
  <1> QED BY <1>1, <1>2, <1>3 DEF StoresHeld

\* A fault is counted, and a calm step counts none.
LEMMA FaultsCounted ==
  ASSUME faults \in 0..MaxFaults, Fault \/ Calm
  PROVE  faults' \in 0..MaxFaults
  BY LifecycleAssumption DEF Fault, Calm

\* A denial, before any authority exists or after it was issued and lost
\* (_deny_and_close of engine.py): the call closes, and had no effect.
LEMMA DeniedWell ==
  ASSUME LifecycleTyped, call.at \in Deciding,
         NEW reasons \in SUBSET Reasons, NEW todo \in Seq(Middle),
         call' = Denied(call, reasons, todo),
         UNCHANGED <<calls, receipts, target>>,
         tokens'[calls] # None =>
            call.request \in Requests /\ claims'[call.request] # None
                                      /\ claims'[call.request].decision = calls
  PROVE  CallWell'
  <1> USE DEF LifecycleTyped
  <1>1. todo \o <<"DECISION_PRODUCED">> \o NonExecutingTail \in Seq(Last)
    <2>1. todo \in Seq(Last) BY ListsFollow
    <2>2. <<"DECISION_PRODUCED">> \in Seq(Last)
      BY DEF Last, Middle, RecordTypes, Ends, InEvidenceTry
    <2> QED BY <2>1, <2>2, Lists, ConcatProperties
  <1>2. /\ call'.at = "CLOSING" /\ call'.outcome = "DENY"
        /\ call'.todo \in Seq(Last) /\ call'.request = call.request
        /\ call'.content = call.content /\ call'.verification = None
        /\ call'.result = None
        /\ call' \in CallStates
    BY <1>1, ListsFollow
       DEF CallTyped, CallStates, Denied, CallHeld, Places, Outcomes
  <1>3. CallTyped'
    BY <1>2, ListsFollow DEF CallTyped, Claimed, Deciding
  <1>4. CallHeld'
    BY <1>2 DEF CallHeld, Claimed, Deciding, Holding
  <1>5. EffectHeld'
    BY <1>2 DEF EffectHeld, CallHeld, Effected
  <1>6. VerificationHeld'
    BY <1>2 DEF VerificationHeld, CallHeld
  <1> QED BY <1>3, <1>4, <1>5, <1>6 DEF CallWell

-----------------------------------------------------------------------------
(* Appending.                                                              *)

\* The file with a record of a call that was begun, whatever is known of its
\* durability.
LEMMA FileGrows ==
  ASSUME IsFile(rows), ambiguous \subseteq DOMAIN rows,
         \A i \in DOMAIN rows : rows[i].decision \in 1..calls,
         NEW row, row.decision \in 1..calls,
         rows' \in {rows, Append(rows, row)},
         \/ ambiguous' = ambiguous
         \/ rows' = Append(rows, row) /\ ambiguous' = ambiguous \cup {Len(rows) + 1}
  PROVE  /\ IsFile(rows') /\ DOMAIN rows \subseteq DOMAIN rows'
         /\ ambiguous' \subseteq DOMAIN rows'
         /\ \A i \in DOMAIN rows' : rows'[i].decision \in 1..calls
  <1>1. CASE rows' = rows
    <2>1. ambiguous' \subseteq DOMAIN rows' BY <1>1, FileAppend
    <2> QED BY <1>1, <2>1
  <1>2. CASE rows' = Append(rows, row)
    <2>1. IsFile(rows') BY <1>2, FileAppend
    <2>2. /\ DOMAIN rows = 1..Len(rows) /\ DOMAIN rows' = 1..(Len(rows) + 1)
          /\ Len(rows) \in Nat /\ \A i \in DOMAIN rows : rows'[i] = rows[i]
          /\ rows'[Len(rows) + 1] = row
      BY <1>2, FileAppend
    <2>3. \A i \in DOMAIN rows' : rows'[i].decision \in 1..calls
      <3> TAKE i \in DOMAIN rows'
      <3>1. i \in DOMAIN rows \/ i = Len(rows) + 1 BY <2>2
      <3> QED BY <2>2, <3>1
    <2>4. ambiguous' \subseteq DOMAIN rows' BY <2>2
    <2> QED BY <2>1, <2>2, <2>3, <2>4
  <1> QED BY <1>1, <1>2

\* The stores do not change when a record is appended; the call that appends it is
\* one of those that were begun.
LEMMA StoresAppended ==
  ASSUME StoresHeld, NEW row, row.decision \in 1..calls,
         rows' \in {rows, Append(rows, row)},
         \/ ambiguous' = ambiguous
         \/ rows' = Append(rows, row) /\ ambiguous' = ambiguous \cup {Len(rows) + 1},
         UNCHANGED <<calls, stores, clock>>, approvals' = approvals,
         faults' \in 0..MaxFaults
  PROVE  StoresHeld'
  <1> USE DEF StoresHeld, StoresTyped
  <1>1. /\ IsFile(rows') /\ DOMAIN rows \subseteq DOMAIN rows'
        /\ ambiguous' \subseteq DOMAIN rows'
        /\ \A i \in DOMAIN rows' : rows'[i].decision \in 1..calls
    BY FileGrows
  <1>2. StoresTyped' BY <1>1 DEF stores, IsFile
  <1>3. FutureHeld' /\ PendingHeld' BY DEF FutureHeld, PendingHeld, stores
  <1>4. AuthorityHeld' BY DEF AuthorityHeld, stores
  <1> QED BY <1>2, <1>3, <1>4

\* The next record of a call is one it may append at its place.
LEMMA NextRecord ==
  ASSUME CallTyped, call.todo # <<>>
  PROVE  /\ Head(call.todo) \in MayAppend(call) /\ Tail(call.todo) \in Seq(MayAppend(call))
         /\ call.at # "IDLE" /\ calls \in Calls
  <1>1. call.todo \in Seq(MayAppend(call)) BY DEF CallTyped
  <1>2. call.at # "IDLE" BY IdleTyped DEF CallTyped
  <1> QED BY <1>1, <1>2, HeadTailProperties DEF CallTyped

\* A record that was appended leaves the call where it was.
LEMMA AppendedWell ==
  ASSUME LifecycleTyped, call.todo # <<>>,
         call' = [call EXCEPT !.todo = Tail(@)],
         UNCHANGED <<calls, stores>>
  PROVE  CallWell'
  <1> USE DEF LifecycleTyped
  <1>1. /\ Tail(call.todo) \in Seq(MayAppend(call)) /\ call.at # "IDLE" /\ calls \in Calls
    BY NextRecord
  <1>2. call \in CallStates /\ Tail(call.todo) \in Seq(RecordTypes)
    BY <1>1, ListsFollow DEF CallTyped
  <1>3. /\ call' \in CallStates /\ call'.todo = Tail(call.todo)
        /\ call'.at = call.at /\ call'.outcome = call.outcome
        /\ call'.content = call.content /\ call'.request = call.request
        /\ call'.before = call.before /\ call'.result = call.result
        /\ call'.verification = call.verification
    BY <1>2 DEF CallStates
  <1>4. MayAppend(call') = MayAppend(call) BY <1>3 DEF MayAppend
  <1>5. CallTyped' BY <1>1, <1>3, <1>4 DEF CallTyped
  <1>6. CallHeld' BY <1>3 DEF CallHeld, stores
  <1>7. EffectHeld' BY <1>3 DEF EffectHeld, stores
  <1>8. VerificationHeld' BY <1>3 DEF VerificationHeld, stores
  <1> QED BY <1>5, <1>6, <1>7, <1>8 DEF CallWell

\* A record of an effect that could not be appended leads to its accounting.
LEMMA AccountingWell ==
  ASSUME LifecycleTyped, call.at # "IDLE", NEW t \in RecordTypes,
         call.result # None /\ call.result.known,
         call' = [call EXCEPT !.at = "ACCOUNTING", !.todo = <<>>, !.failed = t],
         UNCHANGED <<calls, stores>>
  PROVE  CallWell'
  <1> USE DEF LifecycleTyped
  <1>1. /\ call' \in CallStates /\ call'.todo = <<>>
        /\ call'.at = "ACCOUNTING" /\ call'.outcome = call.outcome
        /\ call'.content = call.content /\ call'.request = call.request
        /\ call'.before = call.before /\ call'.result = call.result
        /\ call'.verification = call.verification
    <2>1. "ACCOUNTING" \in Places BY DEF Places, Effected
    <2>2. <<>> \in Seq(RecordTypes) OBVIOUS
    <2> QED BY <2>1, <2>2 DEF CallTyped, CallStates
  <1>2. CallTyped' BY <1>1 DEF CallTyped, Claimed
  <1>3. CallHeld' BY <1>1 DEF CallHeld, stores, Claimed, Deciding, Holding
  <1>4. EffectHeld' BY <1>1 DEF EffectHeld, stores, Effected
  <1>5. VerificationHeld' BY <1>1 DEF VerificationHeld, stores
  <1> QED BY <1>2, <1>3, <1>4, <1>5 DEF CallWell

\* Where the failure of an append leads (the handlers around append_event in
\* engine.py).
LEMMA FailedWell ==
  ASSUME LifecycleTyped, call.todo # <<>>, UNCHANGED <<calls, stores>>,
         \/ call' = AfterFailedAppend(Head(call.todo))
         \/ call' = AfterAmbiguousAppend(Head(call.todo))
  PROVE  CallWell'
  <1> PICK t : t = Head(call.todo) OBVIOUS
  <1>1. t \in MayAppend(call) /\ call.at # "IDLE"
    BY NextRecord DEF LifecycleTyped
  <1>2. CASE t \in InEvidenceTry
    <2>1. call' = Denied(call, {"INTERNAL_CONTROL_FAILURE"}, <<"CONTROL_PLANE_FAILURE">>)
      <3>1. t \notin {Accounted[i] : i \in DOMAIN Accounted}
        <4>1. \A i \in DOMAIN Accounted : Accounted[i] \in Last
          BY AccountedLast
        <4>2. t \notin Last
          BY <1>2 DEF Last, Middle, InEvidenceTry
        <4> QED BY <4>1, <4>2
      <3> QED BY <1>2, <3>1 DEF AfterFailedAppend, AfterAmbiguousAppend, FailClosed
    <2>2. call.at \in Deciding BY <1>1, <1>2 DEF MayAppend, Deciding
    <2>3. <<"CONTROL_PLANE_FAILURE">> \in Seq(Middle)
      BY DEF Middle, RecordTypes, Ends, InEvidenceTry
    <2>4. tokens'[calls] = None
      BY <2>2 DEF LifecycleTyped, CallHeld, stores
    <2>5. {"INTERNAL_CONTROL_FAILURE"} \in SUBSET Reasons BY DEF Reasons
    <2> QED BY <2>1, <2>2, <2>3, <2>4, <2>5, DeniedWell DEF stores
  <1>3. CASE t \notin InEvidenceTry
    <2>1. \/ call' = Idle
          \/ /\ call.result # None /\ call.result.known
             /\ call' = [call EXCEPT !.at = "ACCOUNTING", !.todo = <<>>, !.failed = t]
      BY <1>3 DEF AfterFailedAppend, AfterAmbiguousAppend
    <2>2. CASE call' = Idle
      <3>1. CallTyped' BY <2>2, IdleTyped DEF CallTyped, Claimed, MayAppend
      <3>2. CallHeld' BY <2>2, IdleTyped DEF CallHeld, Claimed, Deciding, Holding
      <3>3. EffectHeld' BY <2>2, IdleTyped DEF EffectHeld, Effected
      <3>4. VerificationHeld' BY <2>2, IdleTyped DEF VerificationHeld
      <3> QED BY <3>1, <3>2, <3>3, <3>4 DEF CallWell
    <2>3. CASE call' # Idle
      <3>1. t \in RecordTypes BY <1>1 DEF MayAppend
      <3>2. /\ call.result # None /\ call.result.known
            /\ call' = [call EXCEPT !.at = "ACCOUNTING", !.todo = <<>>, !.failed = t]
        BY <2>1, <2>3
      <3> QED BY <1>1, <3>1, <3>2, AccountingWell, Zenon
    <2> QED BY <2>2, <2>3
  <1> QED BY <1>2, <1>3

-----------------------------------------------------------------------------
(* A call that has no effect yet.                                          *)

\* A handler before the authorization: the call goes on, or closes.
LEMMA DecidingWell ==
  ASSUME LifecycleTyped, call.at \in Deciding,
         call' \in CallStates, call'.at \in Deciding \cup {"CLOSING"},
         call'.todo \in Seq(MayAppend(call')), call'.content = call.content,
         call'.verification = call.verification, call'.result = call.result,
         call'.at \in Claimed \cup {"VALIDATED"} => call'.request \in Requests,
         call'.at \in Claimed => /\ claims'[call'.request] # None
                                 /\ claims'[call'.request].state = "CLAIMED",
         UNCHANGED <<calls, tokens, receipts, target>>
  PROVE  CallWell'
  <1> USE DEF LifecycleTyped
  <1>1. /\ call.at # "IDLE" /\ call'.at # "IDLE" /\ call'.at \notin Holding \cup Effected
        /\ tokens'[calls] = None /\ receipts'[calls] = None
        /\ call'.verification = None /\ call'.result = None
    BY DEF Deciding, Holding, Effected, CallHeld
  <1>2. CallTyped' BY <1>1 DEF CallTyped
  <1>3. CallHeld' BY <1>1 DEF CallHeld, Holding
  <1>4. EffectHeld' BY <1>1 DEF EffectHeld, Effected
  <1>5. VerificationHeld' BY <1>1 DEF VerificationHeld
  <1> QED BY <1>2, <1>3, <1>4, <1>5 DEF CallWell

\* The records of the evaluations, one at a place.
LEMMA RecordTypesOf ==
  /\ {"REQUEST_VALIDATED", "IDENTITY_EVALUATED", "POLICY_EVALUATED",
      "DECISION_VERIFIED", "REQUEST_RECEIVED", "REQUEST_REJECTED",
      "POLICY_EVALUATION_FAILED", "CONTROL_PLANE_FAILURE", "DECISION_PRODUCED",
      "ACTION_ATTEMPTED"} \subseteq Middle
  /\ \A t \in Middle : <<t>> \in Seq(Middle)
  /\ <<>> \in Seq(Middle)
  BY DEF Middle, RecordTypes, Ends, InEvidenceTry

\* A new call (process_json) begins with nothing decided, and nothing exists for it.
LEMMA SubmitWell ==
  ASSUME LifecycleTyped, NEW content \in Contents, Submit(content)
  PROVE  CallWell'
  <1> USE DEF LifecycleTyped
  <1>1. <<"REQUEST_RECEIVED">> \in Seq(Middle) BY RecordTypesOf
  <1>2. /\ call'.at = "RECEIVED" /\ call'.todo = <<"REQUEST_RECEIVED">>
        /\ call'.content = content /\ call'.verification = None
        /\ call'.result = None
    BY DEF Submit, Idle
  <1>3. call' \in CallStates
    <2>1. Provisional(content) \in Requests \cup {Provisional(x) : x \in Contents} \cup {None}
      OBVIOUS
    <2>2. "RECEIVED" \in Places BY DEF Places, Deciding
    <2>3. <<"REQUEST_RECEIVED">> \in Seq(RecordTypes) BY <1>1, ListsFollow
    <2> QED BY <2>1, <2>2, <2>3, IdleTyped DEF Submit, CallStates
  <1>4. calls' \in Calls
    BY LifecycleAssumption DEF Submit, StoresTyped, Calls
  <1>5. tokens'[calls'] = None /\ receipts'[calls'] = None
    BY <1>4 DEF Submit, FutureHeld, StoresTyped, Calls, stores
  <1>6. CallTyped' BY <1>1, <1>2, <1>3, <1>4, ListsFollow DEF CallTyped, Claimed
  <1>7. CallHeld' BY <1>2, <1>5 DEF CallHeld, Claimed, Holding
  <1>8. EffectHeld' BY <1>2, <1>5 DEF EffectHeld, Effected
  <1>9. VerificationHeld' BY <1>2, <1>5 DEF VerificationHeld
  <1> QED BY <1>6, <1>7, <1>8, <1>9 DEF CallWell

\* The refusals that keep a request out: rejected body, early refusal, refused claim
\* and a failure of the evaluations (_deny_and_close).
LEMMA DenialsWell ==
  ASSUME LifecycleTyped,
         \/ RejectBody \/ RefuseEarly \/ ControlRaises \/ ClaimUnavailable
         \/ Claim /\ claims[call.request] # None
  PROVE  CallWell'
  <1>1. call.at \in Deciding
    BY DEF RejectBody, RefuseEarly, ControlRaises, ClaimUnavailable, Claim, At, Deciding
  <1>2. UNCHANGED <<calls, tokens, receipts, target>>
    BY DEF RejectBody, RefuseEarly, ControlRaises, ClaimUnavailable, Claim, Only, stores,
           RefuseClaim
  <1>3. tokens'[calls] = None BY <1>1, <1>2 DEF LifecycleTyped, CallHeld
  <1>4. \E reasons \in SUBSET Reasons, todo \in Seq(Middle) :
           call' = Denied(call, reasons, todo)
    <2>1. CASE RejectBody
      <3>1. {"REQUEST_INVALID"} \in SUBSET Reasons BY DEF Reasons
      <3>2. <<"REQUEST_REJECTED">> \in Seq(Middle) BY RecordTypesOf
      <3> QED BY <2>1, <3>1, <3>2 DEF RejectBody, Only
    <2>2. CASE RefuseEarly
      <3>1. PICK t \in {"IDENTITY_EVALUATED", "REQUEST_REJECTED",
                        "POLICY_EVALUATION_FAILED"} : call' = Denied(call, {t}, <<t>>)
        BY <2>2 DEF RefuseEarly, Only
      <3>2. {t} \in SUBSET Reasons BY DEF Reasons
      <3>3. <<t>> \in Seq(Middle) BY RecordTypesOf
      <3> QED BY <3>1, <3>2, <3>3
    <2>3. CASE ControlRaises
      <3>1. {"INTERNAL_CONTROL_FAILURE"} \in SUBSET Reasons BY DEF Reasons
      <3>2. <<"CONTROL_PLANE_FAILURE">> \in Seq(Middle) BY RecordTypesOf
      <3> QED BY <2>3, <3>1, <3>2 DEF ControlRaises, Only, FailClosed
    <2>4. CASE ClaimUnavailable \/ (Claim /\ claims[call.request] # None)
      <3>1. PICK reason \in RefusedByLedger :
              call' = Denied(call, {reason}, <<"REQUEST_REJECTED">>)
        BY <2>4 DEF ClaimUnavailable, Claim, RefuseClaim, Only, RefusedByLedger
      <3>2. {reason} \in SUBSET Reasons BY DEF Reasons
      <3>3. <<"REQUEST_REJECTED">> \in Seq(Middle) BY RecordTypesOf
      <3> QED BY <3>1, <3>2, <3>3
    <2> QED BY <2>1, <2>2, <2>3, <2>4
  <1> QED BY <1>1, <1>2, <1>3, <1>4, DeniedWell

\* The handlers that go on: the body is accepted, the request claimed and assessed.
LEMMA AdvancesWell ==
  ASSUME LifecycleTyped,
         \/ AcceptBody \/ AssessEvidence \/ AssessConsequence \/ BuildDecision
         \/ Claim /\ claims[call.request] = None
  PROVE  CallWell'
  <1> USE DEF LifecycleTyped
  <1>0. call \in CallStates /\ call.at \in Deciding /\ calls \in Calls
        /\ call.content \in Contents
    BY DEF AcceptBody, AssessEvidence, AssessConsequence, BuildDecision, Claim, At,
           Deciding, CallTyped
  <1>1. CASE AcceptBody
    <2>1. <<"REQUEST_VALIDATED">> \in Seq(Middle) BY RecordTypesOf
    <2>2. RequestOf[call.content] \in Requests BY <1>0, LifecycleAssumption
    <2>3. "VALIDATED" \in Places BY DEF Places, Deciding
    <2>4. /\ call' \in CallStates /\ call'.at = "VALIDATED"
          /\ call'.todo = <<"REQUEST_VALIDATED">> /\ call'.content = call.content
          /\ call'.request \in Requests
          /\ call'.verification = call.verification /\ call'.result = call.result
      BY <1>0, <1>1, <2>1, <2>2, <2>3, ListsFollow DEF AcceptBody, Only, ToDo, CallStates
    <2> QED BY <1>0, <1>1, <2>1, <2>4, ListsFollow, DecidingWell
            DEF AcceptBody, Only, stores, Deciding, Claimed
  <1>2. CASE AssessEvidence
    <2>1. /\ call' \in CallStates /\ call'.at = "EVIDENCED" /\ call'.request = call.request
          /\ call'.todo = <<"EVIDENCE_EVALUATED">> /\ call'.content = call.content
          /\ call'.verification = call.verification /\ call'.result = call.result
      <3>1. "EVIDENCED" \in Places BY DEF Places, Deciding
      <3>2. <<"EVIDENCE_EVALUATED">> \in Seq(RecordTypes) BY DEF RecordTypes
      <3> QED BY <1>0, <1>2, <3>1, <3>2 DEF AssessEvidence, Only, ToDo, CallStates
    <2>2. call'.todo \in Seq(MayAppend(call'))
      BY <2>1 DEF MayAppend, RecordTypes, Ends
    <2>3. call.at = "IDENTIFIED" BY <1>2 DEF AssessEvidence, At
    <2> QED BY <1>0, <1>2, <2>1, <2>2, <2>3, DecidingWell
            DEF AssessEvidence, Only, stores, Deciding, Claimed, CallTyped, CallHeld
  <1>3. CASE AssessConsequence
    <2>1. /\ call' \in CallStates /\ call'.at = "ASSESSED" /\ call'.request = call.request
          /\ call'.todo = <<"CONSEQUENCE_EVALUATED">> /\ call'.content = call.content
          /\ call'.verification = call.verification /\ call'.result = call.result
      <3>1. "ASSESSED" \in Places BY DEF Places, Deciding
      <3>2. <<"CONSEQUENCE_EVALUATED">> \in Seq(RecordTypes) BY DEF RecordTypes
      <3> QED BY <1>0, <1>3, <3>1, <3>2 DEF AssessConsequence, Only, ToDo, CallStates
    <2>2. call'.todo \in Seq(MayAppend(call'))
      BY <2>1 DEF MayAppend, RecordTypes, Ends
    <2>3. call.at = "EVIDENCED" BY <1>3 DEF AssessConsequence, At
    <2> QED BY <1>0, <1>3, <2>1, <2>2, <2>3, DecidingWell
            DEF AssessConsequence, Only, stores, Deciding, Claimed, CallTyped, CallHeld
  <1>4. CASE BuildDecision
    <2>0. PICK policy \in Outcomes :
             call' = [ToDo(<<"POLICY_EVALUATED">>, "DECIDED") EXCEPT !.policy = policy]
      BY <1>4 DEF BuildDecision, Only, Outcomes
    <2>1. <<"POLICY_EVALUATED">> \in Seq(Middle) BY RecordTypesOf
    <2>2. "DECIDED" \in Places BY DEF Places, Deciding
    <2>3. /\ call' \in CallStates /\ call'.at = "DECIDED" /\ call'.request = call.request
          /\ call'.todo = <<"POLICY_EVALUATED">> /\ call'.content = call.content
          /\ call'.verification = call.verification /\ call'.result = call.result
      BY <1>0, <2>0, <2>1, <2>2, ListsFollow DEF ToDo, CallStates
    <2>4. call.at = "ASSESSED" BY <1>4 DEF BuildDecision, At
    <2>5. UNCHANGED <<calls, tokens, receipts, target, claims>>
      BY <1>4 DEF BuildDecision, Only, stores
    <2>6. call'.todo \in Seq(MayAppend(call')) BY <2>1, <2>3, ListsFollow
    <2> QED BY <1>0, <2>3, <2>4, <2>5, <2>6, DecidingWell
            DEF Deciding, Claimed, CallTyped, CallHeld
  <1>5. CASE Claim /\ claims[call.request] = None
    <2>1. <<"IDENTITY_EVALUATED">> \in Seq(Middle) BY RecordTypesOf
    <2>2. "IDENTIFIED" \in Places BY DEF Places, Deciding
    <2>3. /\ call' \in CallStates /\ call'.at = "IDENTIFIED" /\ call'.request = call.request
          /\ call'.todo = <<"IDENTITY_EVALUATED">> /\ call'.content = call.content
          /\ call'.verification = call.verification /\ call'.result = call.result
      <3>1. call' = [call EXCEPT !.todo = <<"IDENTITY_EVALUATED">>, !.at = "IDENTIFIED"]
        BY <1>5 DEF Claim, Only, ToDo
      <3> QED BY <1>0, <2>1, <2>2, <3>1, ListsFollow DEF CallStates
    <2>4. call.request \in Requests BY <1>5 DEF Claim, At, CallTyped
    <2>5. /\ claims'[call.request] \in ClaimRows
          /\ claims'[call.request].state = "CLAIMED"
      BY <1>0, <1>5, <2>4 DEF Claim, NewClaim, StoresTyped, ClaimRows
    <2>6. UNCHANGED <<calls, tokens, receipts, target>>
      BY <1>5 DEF Claim, Only
    <2>7. call'.todo \in Seq(MayAppend(call')) BY <2>1, <2>3, ListsFollow
    <2> QED BY <1>0, <2>3, <2>4, <2>5, <2>6, <2>7, NoneIsNothing, DecidingWell
            DEF Deciding, Claimed
  <1> QED BY <1>1, <1>2, <1>3, <1>4, <1>5

\* The two flags of a call say nothing about its other fields.
LEMMA FlagsKept ==
  ASSUME NEW c \in CallStates, NEW passed \in BOOLEAN, NEW bound \in BOOLEAN, NEW d,
         d = [c EXCEPT !.passed = passed, !.bound = bound]
  PROVE  /\ d \in CallStates /\ d.at = c.at /\ d.request = c.request
         /\ d.todo = c.todo /\ d.content = c.content
         /\ d.verification = c.verification /\ d.result = c.result
  <1>1. PICK e : e = [c EXCEPT !.passed = passed] OBVIOUS
  <1>2. /\ e \in CallStates /\ e.at = c.at /\ e.request = c.request
        /\ e.todo = c.todo /\ e.content = c.content
        /\ e.verification = c.verification /\ e.result = c.result
    BY <1>1 DEF CallStates
  <1>3. d = [e EXCEPT !.bound = bound] BY <1>1, Zenon
  <1>4. /\ d \in CallStates /\ d.at = e.at /\ d.request = e.request
        /\ d.todo = e.todo /\ d.content = e.content
        /\ d.verification = e.verification /\ d.result = e.result
    BY <1>2, <1>3 DEF CallStates
  <1> QED BY <1>2, <1>4

\* The decision is verified, and produced when it gives no authority.
LEMMA DecisionsWell ==
  ASSUME LifecycleTyped, VerifyDecision \/ ProduceDecision
  PROVE  CallWell'
  <1> USE DEF LifecycleTyped
  <1>0. call \in CallStates /\ call.at \in Deciding
    <2>1. At("DECIDED") \/ At("VERIFIED")
      BY Zenon DEF VerifyDecision, ProduceDecision
    <2> QED BY <2>1 DEF At, Deciding, CallTyped
  <1>1. CASE VerifyDecision
    <2>a. PICK passed \in BOOLEAN :
             call' = [ToDo(<<"DECISION_VERIFIED">>, "VERIFIED") EXCEPT
                        !.passed = passed, !.bound = TRUE,
                        !.outcome = IF passed THEN call.policy ELSE "DENY",
                        !.reasons = IF passed THEN {} ELSE {"DECISION_VERIFIER_FAILED"}]
      BY <1>1, Zenon DEF VerifyDecision, Only
    <2>b. PICK outcome, reasons :
             /\ outcome = (IF passed THEN call.policy ELSE "DENY")
             /\ reasons = (IF passed THEN {} ELSE {"DECISION_VERIFIER_FAILED"})
      OBVIOUS
    <2>0. call' = [call EXCEPT !.todo = <<"DECISION_VERIFIED">>, !.at = "VERIFIED",
                               !.passed = passed, !.bound = TRUE,
                               !.outcome = outcome, !.reasons = reasons]
      BY <2>a, <2>b, Zenon DEF ToDo
    <2>1. <<"DECISION_VERIFIED">> \in Seq(Middle) BY RecordTypesOf
    <2>2. "VERIFIED" \in Places BY DEF Places, Deciding
    <2>3. reasons \in SUBSET Reasons
      BY <2>b DEF Reasons
    <2>4. outcome \in Outcomes \cup {None}
      <3>1. call.policy \in Outcomes \cup {None} BY <1>0 DEF CallStates
      <3> QED BY <2>b, <3>1 DEF Outcomes
    <2>5. /\ call' \in CallStates /\ call'.at = "VERIFIED" /\ call'.request = call.request
          /\ call'.todo = <<"DECISION_VERIFIED">> /\ call'.content = call.content
          /\ call'.verification = call.verification /\ call'.result = call.result
      <3>1. <<"DECISION_VERIFIED">> \in Seq(RecordTypes) BY <2>1, ListsFollow
      <3>2. PICK c : c = [call EXCEPT !.todo = <<"DECISION_VERIFIED">>, !.at = "VERIFIED",
                                      !.outcome = outcome, !.reasons = reasons]
        OBVIOUS
      <3>3. /\ c \in CallStates /\ c.at = "VERIFIED" /\ c.request = call.request
            /\ c.todo = <<"DECISION_VERIFIED">> /\ c.content = call.content
            /\ c.verification = call.verification /\ c.result = call.result
        BY <1>0, <2>2, <2>3, <2>4, <3>1, <3>2 DEF CallStates
      <3>4. call' = [c EXCEPT !.passed = passed, !.bound = TRUE]
        BY <1>0, <2>0, <3>2 DEF CallStates
      <3>5. TRUE \in BOOLEAN OBVIOUS
      <3>6. /\ call' \in CallStates /\ call'.at = c.at /\ call'.request = c.request
            /\ call'.todo = c.todo /\ call'.content = c.content
            /\ call'.verification = c.verification /\ call'.result = c.result
        BY <3>3, <3>4, <3>5, FlagsKept, ZenonT(60)
      <3> QED BY <3>3, <3>6
    <2>6. call.at = "DECIDED" /\ UNCHANGED <<calls, tokens, receipts, target, claims>>
      BY <1>1, Zenon DEF VerifyDecision, At, Only, stores
    <2>7. call'.todo \in Seq(MayAppend(call')) BY <2>1, <2>5, ListsFollow
    <2> QED BY <1>0, <2>5, <2>6, <2>7, DecidingWell
            DEF Deciding, Claimed, CallTyped, CallHeld
  <1>2. CASE ProduceDecision
    <2>a. PICK todo : todo = <<"DECISION_PRODUCED">>
                           \o (IF call.outcome = "ESCALATE"
                               THEN <<"APPROVAL_REQUIREMENT_PRODUCED">> ELSE <<>>)
                           \o NonExecutingTail
      OBVIOUS
    <2>0. call' = [call EXCEPT !.todo = todo, !.at = "CLOSING"]
      BY <1>2, <2>a, Zenon DEF ProduceDecision, Only, ToDo
    <2>1. ASSUME NEW c, c.at = "CLOSING", c.outcome = call.outcome
          PROVE  todo \in Seq(MayAppend(c))
      <3>1. <<"DECISION_PRODUCED">> \in Seq(MayAppend(c))
        BY RecordTypesOf, ListsFollow
      <3>2. (IF call.outcome = "ESCALATE" THEN <<"APPROVAL_REQUIREMENT_PRODUCED">>
                                          ELSE <<>>) \in Seq(MayAppend(c))
        <4>1. CASE call.outcome = "ESCALATE"
          <5>1. "APPROVAL_REQUIREMENT_PRODUCED" \in MayAppend(c)
            BY <2>1, <4>1 DEF MayAppend, RecordTypes, Ends, InEvidenceTry
          <5> QED BY <4>1, <5>1
        <4>2. CASE call.outcome # "ESCALATE"
          BY <4>2
        <4> QED BY <4>1, <4>2
      <3>3. NonExecutingTail \in Seq(MayAppend(c)) BY <2>1, Lists, ListsFollow
      <3> QED BY <2>a, <3>1, <3>2, <3>3, ConcatProperties
    <2>2. todo \in Seq(RecordTypes)
      <3>1. [call EXCEPT !.at = "CLOSING"].at = "CLOSING" /\
            [call EXCEPT !.at = "CLOSING"].outcome = call.outcome
        BY <1>0 DEF CallStates
      <3> QED BY <2>1, <3>1, ListsFollow
    <2>3. "CLOSING" \in Places BY DEF Places
    <2>4. /\ call' \in CallStates /\ call'.at = "CLOSING" /\ call'.outcome = call.outcome
          /\ call'.todo = todo /\ call'.content = call.content
          /\ call'.verification = call.verification /\ call'.result = call.result
      BY <1>0, <2>0, <2>2, <2>3 DEF CallStates
    <2>5. UNCHANGED <<calls, tokens, receipts, target, claims>>
      BY <1>2 DEF ProduceDecision, Only, stores
    <2>6. call'.todo \in Seq(MayAppend(call')) BY <2>1, <2>4
    <2> QED BY <1>0, <2>4, <2>5, <2>6, DecidingWell DEF Claimed
  <1> QED BY <1>1, <1>2

-----------------------------------------------------------------------------
(* Authority and effect.                                                   *)

\* The ledger's transaction of an authorization, as seen by the call.
LEMMA IssuedFields ==
  ASSUME LifecycleTyped, At("VERIFIED"), Issued
  PROVE  /\ calls \in Calls /\ call.request \in Requests
         /\ tokens' = [tokens EXCEPT ![calls] = "ISSUED"]
         /\ claims' \in [Requests -> ClaimRows \cup {None}]
         /\ claims'[call.request] # None /\ claims'[call.request].decision = calls
         /\ claims'[call.request].state = "AUTHORIZED"
         /\ \A r \in Requests \ {call.request} : claims'[r] = claims[r]
  <1> PICK r : r = call.request OBVIOUS
  <1>1. calls \in Calls /\ r \in Requests /\ claims[r] \in ClaimRows
        /\ claims \in [Requests -> ClaimRows \cup {None}]
    BY DEF At, LifecycleTyped, CallTyped, CallHeld, Claimed, StoresTyped
  <1>2. PICK row : row = [claims[r] EXCEPT !.state = "AUTHORIZED", !.decision = calls]
    OBVIOUS
  <1>3. row \in ClaimRows /\ row.decision = calls /\ row.state = "AUTHORIZED"
    BY <1>1, <1>2 DEF ClaimRows
  <1>4. claims' = [claims EXCEPT ![r] = row]
    BY <1>1, <1>2 DEF Issued
  <1>5. claims'[r] = row /\ \A q \in Requests \ {r} : claims'[q] = claims[q]
    BY <1>1, <1>4
  <1>6. claims' \in [Requests -> ClaimRows \cup {None}] BY <1>1, <1>3, <1>4
  <1> QED BY <1>1, <1>3, <1>5, <1>6, NoneIsNothing DEF Issued

\* An authorization is issued, or lost with the answer of the ledger.
LEMMA IssueWell ==
  ASSUME LifecycleTyped, IssueAuthorization \/ IssueRaises
  PROVE  CallWell'
  <1> USE DEF LifecycleTyped
  <1>0. /\ call \in CallStates /\ call.at = "VERIFIED" /\ calls \in Calls
        /\ call.content \in Contents /\ call.request \in Requests
        /\ call.outcome = "ALLOW" /\ target \in States /\ clock \in 0..MaxTime
        /\ call.at \in Deciding
        /\ tokens \in [Calls -> {None, "ISSUED", "RESERVED", "RECEIPTED"}]
    BY DEF IssueAuthorization, IssueRaises, At, CallTyped, Claimed, StoresTyped, Deciding
  <1>1. CASE IssueAuthorization
    <2>1. <<"DECISION_PRODUCED">> \o Authorized \in Seq(Middle)
      BY Lists, RecordTypesOf, ConcatProperties
    <2>2. "INVOKED" \in Places BY DEF Places, Holding
    <2>3. /\ call' \in CallStates /\ call'.at = "INVOKED" /\ call'.outcome = "ALLOW"
          /\ call'.todo \in Seq(Middle) /\ call'.content = call.content
          /\ call'.request = call.request /\ call'.before = target
          /\ call'.verification = call.verification /\ call'.result = call.result
      BY <1>0, <1>1, <2>1, <2>2, ListsFollow DEF IssueAuthorization, Only, ToDo, CallStates
    <2>4. /\ claims'[call.request] # None /\ claims'[call.request].decision = calls
      BY <1>1, IssuedFields DEF IssueAuthorization
    <2>5. /\ UNCHANGED <<calls, receipts, target>>
          /\ receipts[calls] = None /\ call.verification = None /\ call.result = None
      BY <1>0, <1>1 DEF IssueAuthorization, Only, CallHeld
    <2>6. CallTyped' BY <1>0, <2>3, <2>5, ListsFollow DEF CallTyped, Claimed
    <2>7. CallHeld'
      <3>1. tokens'[calls] # None
        BY <1>0, <1>1, IssuedFields, NoneIsNothing DEF IssueAuthorization
      <3> QED BY <1>0, <2>3, <2>4, <2>5, <3>1 DEF CallHeld, Claimed, Deciding, Holding
    <2>8. EffectHeld' BY <2>3, <2>5 DEF EffectHeld, Effected
    <2>9. VerificationHeld' BY <2>3, <2>5 DEF VerificationHeld
    <2> QED BY <2>6, <2>7, <2>8, <2>9 DEF CallWell
  <1>2. CASE IssueRaises
    <2>1. call' = Denied(call, {"INTERNAL_CONTROL_FAILURE"}, <<"CONTROL_PLANE_FAILURE">>)
      BY <1>2 DEF IssueRaises, Only, FailClosed
    <2>2. {"INTERNAL_CONTROL_FAILURE"} \in SUBSET Reasons BY DEF Reasons
    <2>3. <<"CONTROL_PLANE_FAILURE">> \in Seq(Middle) BY RecordTypesOf
    <2>4. UNCHANGED <<calls, receipts, target>> BY <1>2 DEF IssueRaises, Only
    <2>5. tokens'[calls] # None =>
             call.request \in Requests /\ claims'[call.request] # None
                                       /\ claims'[call.request].decision = calls
      <3>1. CASE Issued BY <1>0, <1>2, <3>1, IssuedFields DEF IssueRaises
      <3>2. CASE UNCHANGED <<tokens, claims>> BY <1>0, <3>2 DEF CallHeld
      <3> QED BY <1>2, <3>1, <3>2 DEF IssueRaises
    <2> QED BY <1>0, <2>1, <2>2, <2>3, <2>4, <2>5, DeniedWell
  <1> QED BY <1>1, <1>2

\* The broker refuses, or fails before the authorization is spent.
LEMMA BrokerWell ==
  ASSUME LifecycleTyped, BrokerRejects \/ BrokerRaises
  PROVE  CallWell'
  <1> USE DEF LifecycleTyped
  <1>0. call \in CallStates /\ call.at = "INVOKED" /\ UNCHANGED <<calls, stores>>
    BY DEF BrokerRejects, BrokerRaises, At, CallTyped, Only
  <1>1. PICK at, todo :
           /\ call' = [call EXCEPT !.todo = todo, !.at = at]
           /\ \/ at = "CLOSING" /\ todo = RejectedRest
              \/ at = "BROKER_FAILED" /\ todo = <<>>
    <2>1. CASE BrokerRejects
      BY <2>1, Zenon DEF BrokerRejects, Only, ToDo
    <2>2. CASE BrokerRaises
      BY <2>2, Zenon DEF BrokerRaises, Only, ToDo
    <2> QED BY <2>1, <2>2, Zenon
  <1>2. todo \in Seq(Last) /\ (at # "CLOSING" => todo = <<>>)
    <2>1. <<>> \in Seq(Last) OBVIOUS
    <2> QED BY <1>1, <2>1, Lists
  <1>3. at \in Places BY <1>1 DEF Places
  <1>4. /\ call' \in CallStates /\ call'.at = at /\ call'.outcome = call.outcome
        /\ call'.todo = todo /\ call'.content = call.content
        /\ call'.request = call.request /\ call'.before = call.before
        /\ call'.verification = None /\ call'.result = None
    BY <1>0, <1>1, <1>2, <1>3, ListsFollow DEF CallStates, CallHeld, Holding
  <1>5. receipts'[calls] = None /\ target' = target /\ tokens' = tokens /\ claims' = claims
    <2>1. receipts[calls] = None BY <1>0 DEF CallHeld, Holding
    <2> QED BY <1>0, <2>1 DEF stores
  <1>6. CallTyped'
    <2>1. call'.todo \in Seq(MayAppend(call'))
      <3>1. CASE at = "CLOSING" BY <1>2, <1>4, <3>1, ListsFollow
      <3>2. CASE at # "CLOSING"
        <4>1. <<>> \in Seq(MayAppend(call')) OBVIOUS
        <4> QED BY <1>2, <1>4, <3>2, <4>1
      <3> QED BY <3>1, <3>2
    <2>2. calls' \in Calls /\ call'.content \in Contents
      BY <1>0, <1>4 DEF CallTyped
    <2> QED BY <1>1, <1>4, <2>1, <2>2 DEF CallTyped, Claimed
  <1>7. CallHeld'
    BY <1>0, <1>1, <1>4, <1>5 DEF CallHeld, Claimed, Deciding, Holding
  <1>8. EffectHeld' BY <1>0, <1>1, <1>4, <1>5 DEF EffectHeld, Effected
  <1>9. VerificationHeld' BY <1>0, <1>4, <1>5 DEF VerificationHeld
  <1> QED BY <1>6, <1>7, <1>8, <1>9 DEF CallWell

\* A call between two requests, or cut short.
LEMMA ToIdleWell ==
  ASSUME call' = Idle
  PROVE  CallWell'
  <1>1. CallTyped' BY IdleTyped DEF CallTyped, Claimed, MayAppend
  <1>2. CallHeld' BY IdleTyped DEF CallHeld, Claimed, Deciding, Holding
  <1>3. EffectHeld' BY IdleTyped DEF EffectHeld, Effected
  <1>4. VerificationHeld' BY IdleTyped DEF VerificationHeld
  <1> QED BY <1>1, <1>2, <1>3, <1>4 DEF CallWell

\* The authorization is spent (consume in stage_a.py), and nothing else happens yet.
LEMMA ConsumeWell ==
  ASSUME LifecycleTyped, ConsumeAuthorization
  PROVE  CallWell'
  <1> USE DEF LifecycleTyped
  <1>1. /\ call \in CallStates /\ call.at = "INVOKED" /\ calls \in Calls
        /\ clock \in 0..MaxTime
        /\ tokens \in [Calls -> {None, "ISSUED", "RESERVED", "RECEIPTED"}]
        /\ call.content \in Contents /\ UNCHANGED <<calls, claims, receipts, target>>
        /\ tokens' = [tokens EXCEPT ![calls] = "RESERVED"]
        /\ call' = [call EXCEPT !.todo = <<>>, !.at = "CONSUMED", !.executed = clock]
    BY DEF ConsumeAuthorization, At, CallTyped, StoresTyped, Only, ToDo
  <1>2. "CONSUMED" \in Places BY DEF Places, Holding
  <1>3. <<>> \in Seq(RecordTypes) /\ <<>> \in Seq(MayAppend(call')) OBVIOUS
  <1>4. /\ call' \in CallStates /\ call'.at = "CONSUMED" /\ call'.outcome = call.outcome
        /\ call'.todo = <<>> /\ call'.content = call.content
        /\ call'.request = call.request /\ call'.before = call.before
        /\ call'.verification = call.verification /\ call'.result = call.result
    BY <1>1, <1>2, <1>3 DEF CallStates
  <1>5. /\ receipts[calls] = None /\ call.verification = None /\ call.result = None
        /\ call.before = target /\ call.outcome = "ALLOW"
    BY <1>1 DEF CallHeld, Holding
  <1>6. CallTyped' BY <1>1, <1>3, <1>4 DEF CallTyped, Claimed
  <1>7. tokens[calls] # None BY <1>1 DEF CallHeld, Holding
  <1>8. CallHeld'
    BY <1>1, <1>4, <1>5, <1>7, NoneIsNothing DEF CallHeld, Claimed, Deciding, Holding
  <1>9. EffectHeld' BY <1>1, <1>4, <1>5 DEF EffectHeld, Effected
  <1>10. VerificationHeld' BY <1>1, <1>4, <1>5 DEF VerificationHeld
  <1> QED BY <1>6, <1>8, <1>9, <1>10 DEF CallWell

\* What a fault mode leaves of a target is a target.
LEMMA AppliedTyped ==
  ASSUME NEW state \in States, calls \in Calls
  PROVE  Applied(state) \in States
  <1>1. calls \in 0..MaxCalls BY LifecycleAssumption DEF Calls
  <1>2. [state EXCEPT !.last = calls, !.expires = FALSE] \in States
    BY <1>1 DEF States
  <1>3. [last |-> calls, expires |-> TRUE,
         degraded |-> state.degraded \/ mode = "UNEXPECTED_EFFECT"] \in States
    <2>1. (state.degraded \/ mode = "UNEXPECTED_EFFECT") \in BOOLEAN OBVIOUS
    <2> QED BY <1>1, <2>1 DEF States
  <1> QED BY <1>2, <1>3 DEF Applied

\* The adapter's transaction: the receipt tells what was there and what is there.
LEMMA CommittedFields ==
  ASSUME LifecycleTyped, At("CONSUMED"), Committed
  PROVE  /\ target' \in States /\ receipts' \in [Calls -> Receipts \cup {None}]
         /\ receipts'[calls] # None
         /\ receipts'[calls].before = target /\ receipts'[calls].after = target'
         /\ \A n \in Calls \ {calls} : receipts'[n] = receipts[n]
  <1>1. /\ target \in States /\ calls \in Calls
        /\ receipts \in [Calls -> Receipts \cup {None}]
    BY DEF At, LifecycleTyped, CallTyped, StoresTyped
  <1>2. target' \in States BY <1>1, AppliedTyped DEF Committed
  <1>3. PICK receipt : receipt = [before |-> target, after |-> target'] OBVIOUS
  <1>4. receipt \in Receipts /\ receipt.before = target /\ receipt.after = target'
    BY <1>1, <1>2, <1>3 DEF Receipts
  <1>5. receipts' = [receipts EXCEPT ![calls] = receipt] BY <1>3 DEF Committed
  <1>6. receipts'[calls] = receipt /\ receipts' \in [Calls -> Receipts \cup {None}]
    BY <1>1, <1>4, <1>5
  <1>7. \A n \in Calls \ {calls} : receipts'[n] = receipts[n] BY <1>1, <1>5
  <1> QED BY <1>2, <1>4, <1>6, <1>7, NoneIsNothing

\* The adapter changes the target and returns its result.
LEMMA ExecuteWell ==
  ASSUME LifecycleTyped, Execute
  PROVE  CallWell'
  <1> USE DEF LifecycleTyped
  <1>1. PICK result :
           result = [attempt |-> calls, token |-> calls, known |-> TRUE,
                     before |-> call.before, after |-> target',
                     success |-> mode # "FAILED", executed |-> call.executed]
    OBVIOUS
  <1>2. /\ call \in CallStates /\ call.at = "CONSUMED" /\ calls \in Calls
        /\ target \in States /\ call.content \in Contents
        /\ UNCHANGED <<calls, claims, tokens>>
        /\ call' = [call EXCEPT !.todo = <<>>, !.at = "EXECUTED", !.result = result]
    BY <1>1 DEF Execute, At, CallTyped, StoresTyped, Only, ToDo
  <1>3. /\ receipts[calls] = None /\ call.verification = None /\ call.result = None
        /\ call.before = target /\ call.outcome = "ALLOW" /\ tokens[calls] = "RESERVED"
    BY <1>2 DEF CallHeld, Holding
  <1>4. /\ target' \in States /\ receipts'[calls] # None
        /\ receipts'[calls].before = target /\ receipts'[calls].after = target'
    BY CommittedFields DEF Execute
  <1>5. result \in Results /\ result.known = TRUE /\ result.attempt = calls
    <2>1. (mode # "FAILED") \in BOOLEAN OBVIOUS
    <2>2. call.executed \in 0..MaxTime BY <1>2 DEF CallStates
    <2> QED BY <1>1, <1>2, <1>3, <1>4, <2>1, <2>2 DEF Results
  <1>6. "EXECUTED" \in Places BY DEF Places, Effected
  <1>7. <<>> \in Seq(RecordTypes) /\ <<>> \in Seq(MayAppend(call')) OBVIOUS
  <1>8. /\ call' \in CallStates /\ call'.at = "EXECUTED" /\ call'.outcome = call.outcome
        /\ call'.todo = <<>> /\ call'.content = call.content
        /\ call'.request = call.request /\ call'.before = call.before
        /\ call'.verification = call.verification /\ call'.result = result
    BY <1>2, <1>5, <1>6, <1>7 DEF CallStates
  <1>9. CallTyped' BY <1>2, <1>7, <1>8 DEF CallTyped, Claimed
  <1>10. CallHeld' BY <1>2, <1>3, <1>8 DEF CallHeld, Claimed, Deciding, Holding
  <1>11. EffectHeld'
    BY <1>2, <1>3, <1>4, <1>5, <1>8, NoneIsNothing DEF EffectHeld, Effected
  <1>12. VerificationHeld' BY <1>2, <1>3, <1>8 DEF VerificationHeld
  <1> QED BY <1>9, <1>10, <1>11, <1>12 DEF CallWell

\* The store or the ledger fails after the authorization is spent; the answer of the
\* adapter is lost, whether it acted or not.
LEMMA LostWell ==
  ASSUME LifecycleTyped, ExecuteRaises \/ RecordRaises
  PROVE  CallWell'
  <1> USE DEF LifecycleTyped
  <1>1. /\ call \in CallStates /\ call.at \in {"CONSUMED", "EXECUTED"} /\ calls \in Calls
        /\ target \in States /\ call.content \in Contents
        /\ UNCHANGED <<calls, claims>>
    BY DEF ExecuteRaises, RecordRaises, At, CallTyped, StoresTyped, Only
  <1>2. call' = [call EXCEPT !.todo = <<>>, !.at = "BROKER_FAILED", !.result = None]
    <2>1. CASE ExecuteRaises
      <3>1. call.result = None BY <2>1 DEF ExecuteRaises, At, CallHeld, Holding
      <3>2. call' = [call EXCEPT !.todo = <<>>, !.at = "BROKER_FAILED"]
        BY <2>1 DEF ExecuteRaises, Only, ToDo
      <3> QED BY <1>1, <3>1, <3>2 DEF CallStates
    <2>2. CASE RecordRaises
      BY <2>2 DEF RecordRaises, Only, ToDo
    <2> QED BY <2>1, <2>2
  <1>3. "BROKER_FAILED" \in Places BY DEF Places
  <1>4. <<>> \in Seq(RecordTypes) /\ <<>> \in Seq(MayAppend(call')) OBVIOUS
  <1>5. /\ call' \in CallStates /\ call'.at = "BROKER_FAILED"
        /\ call'.outcome = call.outcome
        /\ call'.todo = <<>> /\ call'.content = call.content
        /\ call'.request = call.request /\ call'.before = call.before
        /\ call'.verification = call.verification /\ call'.result = None
    BY <1>1, <1>2, <1>3, <1>4 DEF CallStates
  <1>6. /\ tokens[calls] = "RESERVED" /\ call.outcome = "ALLOW"
        /\ call.verification # None => target' = target /\ receipts' = receipts
        /\ receipts'[calls] # None => /\ receipts'[calls].before = call.before
                                      /\ receipts'[calls].after = target'
    <2>1. CASE ExecuteRaises
      <3>1. /\ tokens[calls] = "RESERVED" /\ call.outcome = "ALLOW"
            /\ call.verification = None /\ call.before = target
            /\ receipts[calls] = None
        BY <2>1 DEF ExecuteRaises, At, CallHeld, Holding
      <3>2. CASE Committed
        <4>1. At("CONSUMED") BY <2>1 DEF ExecuteRaises
        <4>2. receipts'[calls].before = target /\ receipts'[calls].after = target'
          BY <3>2, <4>1, CommittedFields
        <4> QED BY <3>1, <4>2
      <3>3. CASE UNCHANGED <<target, receipts>> BY <3>1, <3>3
      <3> QED BY <2>1, <3>2, <3>3 DEF ExecuteRaises
    <2>2. CASE RecordRaises
      <3>1. call.at = "EXECUTED" /\ UNCHANGED <<target, receipts>>
        BY <2>2 DEF RecordRaises, At
      <3>2. receipts[calls] # None /\ tokens[calls] = "RESERVED"
        BY <3>1 DEF EffectHeld, Effected
      <3>3. /\ receipts[calls].after = target /\ receipts[calls].before = call.before
            /\ call.outcome = "ALLOW"
        BY <3>1, <3>2 DEF EffectHeld
      <3> QED BY <3>1, <3>2, <3>3
    <2> QED BY <2>1, <2>2
  <1>7. /\ call.request \in Requests /\ claims[call.request] # None
        /\ claims[call.request].decision = calls
    BY <1>1, <1>6, NoneIsNothing DEF CallHeld
  <1>8. CallTyped' BY <1>1, <1>4, <1>5 DEF CallTyped, Claimed
  <1>9. CallHeld' BY <1>1, <1>5, <1>7 DEF CallHeld, Claimed, Deciding, Holding
  <1>10. EffectHeld' BY <1>1, <1>5, <1>6 DEF EffectHeld, Effected
  <1>11. VerificationHeld' BY <1>1, <1>5, <1>6 DEF VerificationHeld
  <1> QED BY <1>8, <1>9, <1>10, <1>11 DEF CallWell

\* The ledger records the receipt.
LEMMA RecordWell ==
  ASSUME LifecycleTyped, RecordReceipt
  PROVE  CallWell'
  <1> USE DEF LifecycleTyped
  <1>1. /\ call \in CallStates /\ call.at = "EXECUTED" /\ calls \in Calls
        /\ call.content \in Contents /\ UNCHANGED <<calls, claims, receipts, target>>
        /\ call' = [call EXCEPT !.todo = <<"ACTION_ATTEMPTED">>, !.at = "ACTED"]
        /\ tokens' = [tokens EXCEPT ![calls] = "RECEIPTED"]
        /\ tokens \in [Calls -> {None, "ISSUED", "RESERVED", "RECEIPTED"}]
    BY DEF RecordReceipt, At, CallTyped, StoresTyped, Only, ToDo
  <1>2. "ACTED" \in Places BY DEF Places, Effected
  <1>3. <<"ACTION_ATTEMPTED">> \in Seq(Middle) BY RecordTypesOf
  <1>4. /\ call' \in CallStates /\ call'.at = "ACTED" /\ call'.outcome = call.outcome
        /\ call'.todo = <<"ACTION_ATTEMPTED">> /\ call'.content = call.content
        /\ call'.request = call.request /\ call'.before = call.before
        /\ call'.verification = call.verification /\ call'.result = call.result
    BY <1>1, <1>2, <1>3, ListsFollow DEF CallStates
  <1>5. tokens[calls] = "RESERVED" BY <1>1 DEF EffectHeld
  <1>6. CallTyped' BY <1>1, <1>3, <1>4, ListsFollow DEF CallTyped, Claimed
  <1>7. CallHeld'
    BY <1>1, <1>4, <1>5, NoneIsNothing DEF CallHeld, Claimed, Deciding, Holding
  <1>8. EffectHeld' BY <1>1, <1>4 DEF EffectHeld, Effected
  <1>9. VerificationHeld' BY <1>1, <1>4 DEF VerificationHeld
  <1> QED BY <1>6, <1>7, <1>8, <1>9 DEF CallWell

\* What the verification of an effect may say of the target.
Honest(report) ==
  /\ report \in Reports
  /\ report.rollback <=> report.status \notin {"VERIFIED", "FAILED"}
  /\ report.observed \in {target, Nothing, Unavailable}
  /\ report.status = "VERIFIED" =>
       /\ receipts[calls] # None
       /\ target = [call.before EXCEPT !.last = calls, !.expires = TRUE]

\* A report as the verifier or the engine builds it has the fields of one.
LEMMA ReportFields ==
  ASSUME calls \in Calls,
         NEW status \in {"VERIFIED", "PARTIAL", "UNEXPECTED_EFFECT", "FAILED",
                         "ROLLBACK_REQUIRED"},
         NEW codes \in SUBSET {"ROLLBACK_REQUIRED"},
         NEW observed \in States \cup {Nothing, Unavailable}
  PROVE  /\ Report(status, codes, observed) \in Reports
         /\ Report(status, codes, observed).rollback
              <=> status \notin {"VERIFIED", "FAILED"}
         /\ Report(status, codes, observed).status = status
         /\ Report(status, codes, observed).observed = observed
         /\ Report(status, codes, observed).codes = codes
  <1>1. (status \notin {"VERIFIED", "FAILED"}) \in BOOLEAN OBVIOUS
  <1> QED BY <1>1 DEF Report, Reports

\* The conservative report of the engine claims nothing (_conservative_verification).
LEMMA ConservativeHonest ==
  ASSUME calls \in Calls, target \in States,
         NEW observed \in {target, Nothing, Unavailable}
  PROVE  /\ Honest(Conservative(observed))
         /\ Conservative(observed).status \in {"ROLLBACK_REQUIRED", "FAILED"}
         /\ Conservative(observed).observed = observed
  <1>1. observed \in States \cup {Nothing, Unavailable} OBVIOUS
  <1>2. {"ROLLBACK_REQUIRED"} \in SUBSET {"ROLLBACK_REQUIRED"}
        /\ {} \in SUBSET {"ROLLBACK_REQUIRED"}
    OBVIOUS
  <1>3. CASE observed # call.before
    <2>1. Conservative(observed)
            = Report("ROLLBACK_REQUIRED", {"ROLLBACK_REQUIRED"}, observed)
      BY <1>3 DEF Conservative
    <2> QED BY <1>1, <1>2, <2>1, ReportFields DEF Honest
  <1>4. CASE observed = call.before
    <2>1. Conservative(observed) = Report("FAILED", {}, observed)
      BY <1>4 DEF Conservative
    <2> QED BY <1>1, <1>2, <2>1, ReportFields DEF Honest
  <1> QED BY <1>3, <1>4

\* The verifier says VERIFIED of a target that has exactly the asked change
\* (verify_execution).
LEMMA VerdictHonest ==
  ASSUME LifecycleTyped, call.at \in Effected
  PROVE  Honest(VerdictOn(target))
  <1> USE DEF LifecycleTyped
  <1>1. /\ calls \in Calls /\ target \in States /\ receipts[calls] # None
        /\ call.result.attempt = calls /\ call.at # "IDLE"
    BY DEF CallTyped, StoresTyped, EffectHeld, Effected
  <1>2. call.before \in States
    <2>1. receipts[calls] \in Receipts BY <1>1 DEF StoresTyped
    <2>2. call.before = receipts[calls].before BY <1>1 DEF EffectHeld
    <2> QED BY <2>1, <2>2 DEF Receipts
  <1>3. {"ROLLBACK_REQUIRED"} \in SUBSET {"ROLLBACK_REQUIRED"}
        /\ {} \in SUBSET {"ROLLBACK_REQUIRED"}
    OBVIOUS
  <1>4. CASE target.last # calls
    <2>1. VerdictOn(target) = Conservative(target) BY <1>1, <1>4 DEF VerdictOn
    <2> QED BY <1>1, <2>1, ConservativeHonest
  <1>5. CASE target.last = calls /\ target.degraded # call.before.degraded
    <2>1. VerdictOn(target)
            = Report("UNEXPECTED_EFFECT", {"ROLLBACK_REQUIRED"}, target)
      BY <1>1, <1>5 DEF VerdictOn
    <2> QED BY <1>1, <1>3, <2>1, ReportFields DEF Honest
  <1>6. CASE target.last = calls /\ target.degraded = call.before.degraded
    <2>1. CASE target.expires
      <3>1. VerdictOn(target) = Report("VERIFIED", {}, target)
        BY <1>1, <1>6, <2>1 DEF VerdictOn
      <3>2. target = [call.before EXCEPT !.last = calls, !.expires = TRUE]
        BY <1>1, <1>2, <1>6, <2>1 DEF States
      <3> QED BY <1>1, <1>3, <3>1, <3>2, ReportFields DEF Honest
    <2>2. CASE ~target.expires
      <3>1. VerdictOn(target) = Report("PARTIAL", {"ROLLBACK_REQUIRED"}, target)
        BY <1>1, <1>6, <2>2 DEF VerdictOn
      <3> QED BY <1>1, <1>3, <3>1, ReportFields DEF Honest
    <2> QED BY <2>1, <2>2
  <1> QED BY <1>4, <1>5, <1>6

\* Whatever happens to the verifier, the report is honest.
LEMMA VerificationsHonest ==
  ASSUME LifecycleTyped, call.at \in Effected
  PROVE  \A v \in Verifications : Honest(v.report)
  <1>1. calls \in Calls /\ target \in States
    BY DEF LifecycleTyped, CallTyped, StoresTyped, Effected
  <1>2. Honest(VerdictOn(target)) BY VerdictHonest
  <1>3. Honest(Conservative(target)) /\ Honest(Conservative(Unavailable))
    BY <1>1, ConservativeHonest
  <1>4. Honest(Report("FAILED", {}, Nothing))
    <2>1. {} \in SUBSET {"ROLLBACK_REQUIRED"}
          /\ Nothing \in States \cup {Nothing, Unavailable}
      OBVIOUS
    <2> QED BY <1>1, <2>1, ReportFields DEF Honest
  <1> TAKE v \in Verifications
  <1>5. v.report \in {VerdictOn(target), Report("FAILED", {}, Nothing),
                      Conservative(target), Conservative(Unavailable)}
    BY DEF Verifications
  <1> QED BY <1>2, <1>3, <1>4, <1>5

\* A call in which an effect may have happened closes with a verification.
LEMMA ClosingWell ==
  ASSUME LifecycleTyped, call.at \in Effected \cup {"BROKER_FAILED"},
         call' \in CallStates, call'.at = "CLOSING", call'.todo \in Seq(Last),
         call'.content = call.content, call'.request = call.request,
         call'.before = call.before, call'.outcome = call.outcome,
         call'.result \in Results, call'.result.attempt = calls,
         call'.result.known => receipts[calls] # None,
         Honest(call'.verification), call'.verification # None,
         UNCHANGED <<calls, stores>>
  PROVE  CallWell'
  <1> USE DEF LifecycleTyped
  <1>1. /\ call.at # "IDLE" /\ calls \in Calls /\ call.content \in Contents
        /\ UNCHANGED <<calls, claims, tokens, receipts, target>>
    BY DEF CallTyped, Effected, stores
  <1>2. CallTyped' BY <1>1, ListsFollow DEF CallTyped, Claimed
  <1>3. CallHeld' BY <1>1 DEF CallHeld, Claimed, Deciding, Holding
  <1>4. EffectHeld' BY <1>1 DEF EffectHeld, Effected
  <1>5. VerificationHeld' BY <1>1 DEF VerificationHeld, Honest
  <1> QED BY <1>2, <1>3, <1>4, <1>5 DEF CallWell

\* A verification with more error codes is as honest (the accounting failure keeps the
\* codes of the report it replaces).
LEMMA MoreCodes ==
  ASSUME NEW report, Honest(report), NEW codes \in SUBSET {"ROLLBACK_REQUIRED"}
  PROVE  Honest([report EXCEPT !.codes = @ \cup codes])
  <1>1. report \in Reports /\ report.codes \in SUBSET {"ROLLBACK_REQUIRED"}
    BY DEF Honest, Reports
  <1>2. PICK more : more = report.codes \cup codes OBVIOUS
  <1>3. PICK next : next = [report EXCEPT !.codes = more] OBVIOUS
  <1>4. more \in SUBSET {"ROLLBACK_REQUIRED"} BY <1>1, <1>2
  <1>5. /\ next \in Reports /\ next.rollback = report.rollback
        /\ next.status = report.status /\ next.observed = report.observed
    BY <1>1, <1>3, <1>4 DEF Reports
  <1>6. Honest(next) BY <1>5 DEF Honest
  <1> QED BY <1>2, <1>3, <1>6, Zenon

\* The verifier's answer, an accounting failure, a broker failure: each closes the call
\* with an honest verification.
LEMMA VerifyWell ==
  ASSUME LifecycleTyped, VerifyEffect
  PROVE  CallWell'
  <1> USE DEF LifecycleTyped
  <1>1. PICK v \in Verifications :
           call' = [ToDo(Tail(Accounted), "CLOSING") EXCEPT !.verification = v.report]
    BY Zenon DEF VerifyEffect, Only
  <1>2. call.at = "ACTED" /\ UNCHANGED <<calls, stores>> /\ call \in CallStates
    BY Zenon DEF VerifyEffect, At, Only, CallTyped
  <1>3. Honest(v.report) BY <1>2, VerificationsHonest DEF Effected
  <1>4. v.report \in Reports BY <1>3 DEF Honest
  <1>5. /\ call.result \in Results /\ call.result.attempt = calls
        /\ call.result.known => receipts[calls] # None
    <2>1. call.result # None BY <1>2 DEF EffectHeld, Effected
    <2>2. call.result \in Results BY <1>2, <2>1 DEF CallStates
    <2> QED BY <2>1, <2>2 DEF EffectHeld
  <1>6. "CLOSING" \in Places BY DEF Places
  <1>7. PICK todo : todo = Tail(Accounted) OBVIOUS
  <1>8. todo \in Seq(Last) /\ todo \in Seq(RecordTypes) BY <1>7, Lists, ListsFollow
  <1>9. call' = [call EXCEPT !.todo = todo, !.at = "CLOSING", !.verification = v.report]
    BY <1>1, <1>7, Zenon DEF ToDo
  <1>10. /\ call' \in CallStates /\ call'.at = "CLOSING" /\ call'.todo = todo
         /\ call'.content = call.content /\ call'.request = call.request
         /\ call'.before = call.before /\ call'.outcome = call.outcome
         /\ call'.result = call.result /\ call'.verification = v.report
    BY <1>2, <1>4, <1>6, <1>8, <1>9 DEF CallStates
  <1>11. call'.verification # None BY <1>4, <1>10, NoneIsNothing
  <1> QED BY <1>2, <1>3, <1>5, <1>8, <1>10, <1>11, ClosingWell DEF Effected

\* _account_for_effect: the report of an earlier verification is made conservative.
LEMMA AccountWell ==
  ASSUME LifecycleTyped, AccountForEffect
  PROVE  CallWell'
  <1> USE DEF LifecycleTyped
  <1>1. PICK v \in IF call.verification = None THEN Verifications
                   ELSE {[calm |-> TRUE, report |-> call.verification]} :
           call' = [ToDo(AccountingRest, "CLOSING") EXCEPT
                      !.verification = [Conservative(v.report.observed) EXCEPT
                                          !.codes = @ \cup v.report.codes]]
    BY Zenon DEF AccountForEffect, Only
  <1>2. call.at = "ACCOUNTING" /\ UNCHANGED <<calls, stores>> /\ call \in CallStates
    BY Zenon DEF AccountForEffect, At, Only, CallTyped
  <1>3. Honest(v.report)
    <2>1. CASE call.verification = None
      BY <1>1, <1>2, <2>1, VerificationsHonest DEF Effected
    <2>2. CASE call.verification # None
      <3>1. v.report = call.verification BY <1>1, <2>2
      <3>2. call.verification \in Reports BY <1>2, <2>2 DEF CallStates
      <3> QED BY <2>2, <3>1, <3>2 DEF Honest, VerificationHeld
    <2> QED BY <2>1, <2>2
  <1>4. PICK report : report = [Conservative(v.report.observed) EXCEPT
                                  !.codes = @ \cup v.report.codes]
    OBVIOUS
  <1>5. Honest(report)
    <2>1. calls \in Calls /\ target \in States
      BY <1>2 DEF CallTyped, StoresTyped
    <2>2. v.report.observed \in {target, Nothing, Unavailable} BY <1>3 DEF Honest
    <2>3. Honest(Conservative(v.report.observed)) BY <2>1, <2>2, ConservativeHonest
    <2>4. v.report.codes \in SUBSET {"ROLLBACK_REQUIRED"} BY <1>3 DEF Honest, Reports
    <2> QED BY <1>4, <2>3, <2>4, MoreCodes
  <1>6. report \in Reports BY <1>5 DEF Honest
  <1>7. /\ call.result \in Results /\ call.result.attempt = calls
        /\ call.result.known => receipts[calls] # None
    <2>1. call.result # None BY <1>2 DEF EffectHeld, Effected
    <2>2. call.result \in Results BY <1>2, <2>1 DEF CallStates
    <2> QED BY <2>1, <2>2 DEF EffectHeld
  <1>8. "CLOSING" \in Places BY DEF Places
  <1>9. AccountingRest \in Seq(Last) /\ AccountingRest \in Seq(RecordTypes)
    BY Lists, ListsFollow
  <1>10. call' = [call EXCEPT !.todo = AccountingRest, !.at = "CLOSING",
                              !.verification = report]
    BY <1>1, <1>4, Zenon DEF ToDo
  <1>11. /\ call' \in CallStates /\ call'.at = "CLOSING" /\ call'.todo = AccountingRest
         /\ call'.content = call.content /\ call'.request = call.request
         /\ call'.before = call.before /\ call'.outcome = call.outcome
         /\ call'.result = call.result /\ call'.verification = report
    BY <1>2, <1>6, <1>8, <1>9, <1>10 DEF CallStates
  <1>12. call'.verification # None BY <1>6, <1>11, NoneIsNothing
  <1> QED BY <1>2, <1>5, <1>7, <1>9, <1>11, <1>12, ClosingWell DEF Effected

\* A failure of the broker is closed with what can be observed.
LEMMA BrokerFailureWell ==
  ASSUME LifecycleTyped, CloseBrokerFailure
  PROVE  CallWell'
  <1> USE DEF LifecycleTyped
  <1>1. PICK observed \in {target, Unavailable} :
           call' = [ToDo(FailureRest, "CLOSING") EXCEPT
                      !.result = [attempt |-> calls, token |-> calls, known |-> FALSE],
                      !.verification = Conservative(observed)]
    BY Zenon DEF CloseBrokerFailure, Only
  <1>2. /\ call.at = "BROKER_FAILED" /\ UNCHANGED <<calls, stores>>
        /\ call \in CallStates /\ calls \in Calls /\ target \in States
    BY Zenon DEF CloseBrokerFailure, At, Only, CallTyped, StoresTyped
  <1>3. PICK report : report = Conservative(observed) OBVIOUS
  <1>4. Honest(report) BY <1>2, <1>3, ConservativeHonest
  <1>5. report \in Reports BY <1>4 DEF Honest
  <1>6. PICK result : result = [attempt |-> calls, token |-> calls, known |-> FALSE]
    OBVIOUS
  <1>7. result \in Results /\ result.attempt = calls /\ result.known = FALSE
    BY <1>2, <1>6 DEF Results
  <1>8. "CLOSING" \in Places BY DEF Places
  <1>9. FailureRest \in Seq(Last) /\ FailureRest \in Seq(RecordTypes)
    BY Lists, ListsFollow
  <1>10. call' = [call EXCEPT !.todo = FailureRest, !.at = "CLOSING",
                              !.result = result, !.verification = report]
    BY <1>1, <1>3, <1>6, Zenon DEF ToDo
  <1>11. /\ call' \in CallStates /\ call'.at = "CLOSING" /\ call'.todo = FailureRest
         /\ call'.content = call.content /\ call'.request = call.request
         /\ call'.before = call.before /\ call'.outcome = call.outcome
         /\ call'.result = result /\ call'.verification = report
    BY <1>2, <1>5, <1>7, <1>8, <1>9, <1>10 DEF CallStates
  <1>12. call'.verification # None BY <1>5, <1>11, NoneIsNothing
  <1> QED BY <1>2, <1>4, <1>7, <1>9, <1>11, <1>12, ClosingWell

-----------------------------------------------------------------------------
(* The stores.                                                             *)

\* A new call is the next one, and nothing exists for the ones after it.
LEMMA SubmitStores ==
  ASSUME LifecycleTyped, NEW content \in Contents, Submit(content)
  PROVE  StoresHeld'
  <1> USE DEF LifecycleTyped
  <1>1. /\ calls' = calls + 1 /\ calls' \in 0..MaxCalls /\ calls \in Nat
        /\ UNCHANGED <<rows, ambiguous, stores, approvals, clock, faults>>
    BY LifecycleAssumption DEF Submit, StoresTyped
  <1>2. \A i \in DOMAIN rows : rows[i].decision \in 1..calls'
    BY <1>1 DEF StoresTyped
  <1>3. StoresTyped' BY <1>1, <1>2 DEF StoresTyped, stores
  <1>4. FutureHeld'
    BY <1>1, LifecycleAssumption DEF FutureHeld, stores, Calls
  <1>5. AuthorityHeld' /\ PendingHeld' BY <1>1 DEF AuthorityHeld, PendingHeld, stores
  <1> QED BY <1>3, <1>4, <1>5 DEF StoresHeld

\* The claim of a request (claim in stage_a.py) binds no decision yet.
LEMMA ClaimStores ==
  ASSUME LifecycleTyped, Claim \/ ClaimUnavailable
  PROVE  StoresHeld'
  <1> USE DEF LifecycleTyped
  <1>1. /\ calls \in Calls /\ call.content \in Contents /\ call.request \in Requests
        /\ UNCHANGED <<rows, ambiguous, calls, tokens, receipts, target, approvals, clock>>
        /\ faults' \in 0..MaxFaults
    BY FaultsCounted
       DEF Claim, ClaimUnavailable, At, CallTyped, Only, StoresTyped, RefuseClaim
  <1>2. CASE claims' = claims
    BY <1>1, <1>2, StoresKept DEF StoresHeld, stores, StoresTyped
  <1>3. CASE claims[call.request] = None /\ claims' = NewClaim
    <2>1. PICK row : row = [content |-> call.content, state |-> "CLAIMED",
                            decision |-> None, by |-> calls]
      OBVIOUS
    <2>2. row \in ClaimRows /\ row.decision = None BY <1>1, <2>1 DEF ClaimRows
    <2>3. claims' = [claims EXCEPT ![call.request] = row] BY <1>3, <2>1 DEF NewClaim
    <2>4. claims \in [Requests -> ClaimRows \cup {None}] BY DEF StoresTyped
    <2>5. /\ claims' \in [Requests -> ClaimRows \cup {None}]
          /\ claims'[call.request] = row
          /\ \A r \in Requests \ {call.request} : claims'[r] = claims[r]
      BY <1>1, <2>2, <2>3, <2>4
    <2>6. StoresTyped' BY <1>1, <2>5 DEF StoresTyped
    <2>7. FutureHeld' /\ PendingHeld' BY <1>1 DEF FutureHeld, PendingHeld
    <2>8. AuthorityHeld'
      <3>1. \A r \in Requests : claims'[r] # None /\ claims'[r].state = "CLAIMED" =>
               claims'[r].decision = None
        BY <2>2, <2>5 DEF AuthorityHeld
      <3>2. ASSUME NEW n \in Calls, tokens'[n] # None
            PROVE  \E r \in Requests : claims'[r] # None /\ claims'[r].decision = n
        <4>1. PICK r \in Requests : claims[r] # None /\ claims[r].decision = n
          BY <1>1, <3>2 DEF AuthorityHeld
        <4>2. r # call.request BY <1>3, <4>1
        <4> QED BY <2>5, <4>1, <4>2
      <3> QED BY <1>1, <3>1, <3>2 DEF AuthorityHeld
    <2> QED BY <2>6, <2>7, <2>8 DEF StoresHeld
  <1> QED BY <1>2, <1>3, Zenon DEF Claim, ClaimUnavailable

\* An escalation registers its requirement with nothing obtained for it yet
\* (issue_requirement of approval.py).
LEMMA BuildStores ==
  ASSUME LifecycleTyped, BuildDecision
  PROVE  StoresHeld'
  <1> USE DEF LifecycleTyped
  <1>1. /\ calls \in Calls /\ clock \in 0..MaxTime
        /\ UNCHANGED <<rows, ambiguous, calls, stores, clock, faults>>
    BY Zenon DEF BuildDecision, At, CallTyped, Only, Calm, StoresTyped
  <1>2. PICK requirement : requirement = [created |-> clock, pending |-> None,
                                          used |-> FALSE]
    OBVIOUS
  <1>3. requirement \in Requirements /\ requirement.pending = None
    BY <1>1, <1>2 DEF Requirements
  <1>4. approvals' = approvals \/ approvals' = [approvals EXCEPT ![calls] = requirement]
    BY <1>2, Zenon DEF BuildDecision
  <1>5. approvals \in [Calls -> Requirements \cup {None}] BY DEF StoresTyped
  <1>6. /\ approvals' \in [Calls -> Requirements \cup {None}]
        /\ \A n \in Calls : approvals'[n] = approvals[n]
                            \/ (n = calls /\ approvals'[n] = requirement)
    BY <1>1, <1>3, <1>4, <1>5
  <1>7. StoresTyped' BY <1>1, <1>6 DEF StoresTyped, stores
  <1>8. FutureHeld'
    <2>1. \A n \in Calls : n > calls => n # calls
      BY <1>1, LifecycleAssumption DEF Calls
    <2> QED BY <1>1, <1>6, <2>1 DEF FutureHeld, stores
  <1>9. AuthorityHeld' BY <1>1 DEF AuthorityHeld, stores
  <1>10. PendingHeld' BY <1>3, <1>6, Zenon DEF PendingHeld
  <1> QED BY <1>7, <1>8, <1>9, <1>10 DEF StoresHeld

\* A token of the call in progress changes state; its request names it.
LEMMA TokenStores ==
  ASSUME LifecycleTyped, calls \in Calls,
         NEW state \in {"ISSUED", "RESERVED", "RECEIPTED"},
         tokens' = [tokens EXCEPT ![calls] = state],
         receipts[calls] # None => state \in {"RESERVED", "RECEIPTED"},
         claims' \in [Requests -> ClaimRows \cup {None}],
         \A r \in Requests : claims'[r] # None /\ claims'[r].state = "CLAIMED" =>
            claims'[r].decision = None,
         \A r \in Requests : claims[r] # None /\ tokens[claims[r].decision] # None
                             /\ claims[r].decision \in Calls =>
            claims'[r] # None /\ claims'[r].decision = claims[r].decision,
         \E r \in Requests : claims'[r] # None /\ claims'[r].decision = calls,
         UNCHANGED <<rows, ambiguous, calls, receipts, target, approvals, clock>>,
         faults' \in 0..MaxFaults
  PROVE  StoresHeld'
  <1> USE DEF LifecycleTyped
  <1>1. tokens \in [Calls -> {None, "ISSUED", "RESERVED", "RECEIPTED"}]
    BY DEF StoresTyped
  <1>2. /\ tokens' \in [Calls -> {None, "ISSUED", "RESERVED", "RECEIPTED"}]
        /\ tokens'[calls] = state
        /\ \A n \in Calls \ {calls} : tokens'[n] = tokens[n]
    BY <1>1
  <1>3. StoresTyped' BY <1>2 DEF StoresTyped
  <1>4. FutureHeld'
    <2>1. \A n \in Calls : n > calls => n # calls
      BY LifecycleAssumption DEF Calls
    <2> QED BY <1>2, <2>1 DEF FutureHeld
  <1>5. PendingHeld' BY DEF PendingHeld
  <1>6. AuthorityHeld'
    <2>1. ASSUME NEW n \in Calls
          PROVE  receipts'[n] # None => tokens'[n] \in {"RESERVED", "RECEIPTED"}
      BY <1>2 DEF AuthorityHeld
    <2>2. ASSUME NEW n \in Calls, tokens'[n] # None
          PROVE  \E r \in Requests : claims'[r] # None /\ claims'[r].decision = n
      <3>1. CASE n = calls BY <3>1
      <3>2. CASE n # calls
        <4>1. tokens[n] # None BY <1>2, <2>2, <3>2
        <4>2. PICK r \in Requests : claims[r] # None /\ claims[r].decision = n
          BY <4>1 DEF AuthorityHeld
        <4> QED BY <4>1, <4>2
      <3> QED BY <3>1, <3>2
    <2> QED BY <2>1, <2>2 DEF AuthorityHeld
  <1> QED BY <1>3, <1>4, <1>5, <1>6 DEF StoresHeld

\* The authorization, its consumption and its receipt.
LEMMA AuthorityStores ==
  ASSUME LifecycleTyped,
         \/ IssueAuthorization \/ IssueRaises \/ ConsumeAuthorization
         \/ RecordReceipt \/ RecordRaises
  PROVE  StoresHeld'
  <1> USE DEF LifecycleTyped
  <1>1. /\ calls \in Calls /\ call.at # "IDLE"
        /\ UNCHANGED <<rows, ambiguous, calls, receipts, target, approvals, clock>>
        /\ faults' \in 0..MaxFaults
    BY FaultsCounted
       DEF IssueAuthorization, IssueRaises, ConsumeAuthorization, RecordReceipt,
           RecordRaises, At, CallTyped, Only, StoresTyped
  <1>2. CASE UNCHANGED <<tokens, claims>>
    BY <1>1, <1>2, StoresKept DEF StoresHeld, stores, StoresTyped
  <1>3. CASE At("VERIFIED") /\ Issued
    <2>1. /\ call.request \in Requests
          /\ tokens' = [tokens EXCEPT ![calls] = "ISSUED"]
          /\ claims' \in [Requests -> ClaimRows \cup {None}]
          /\ claims'[call.request] # None /\ claims'[call.request].decision = calls
          /\ claims'[call.request].state = "AUTHORIZED"
          /\ \A r \in Requests \ {call.request} : claims'[r] = claims[r]
      BY <1>3, IssuedFields
    <2>2. /\ claims[call.request] # None /\ claims[call.request].decision = None
          /\ receipts[calls] = None
      BY <1>3, <2>1 DEF At, CallHeld, AuthorityHeld, Claimed, Deciding
    <2>3. \A r \in Requests : claims'[r] # None /\ claims'[r].state = "CLAIMED" =>
             claims'[r].decision = None
      <3> TAKE r \in Requests
      <3>1. CASE r = call.request BY <2>1, <3>1
      <3>2. CASE r # call.request
        <4>1. claims'[r] = claims[r] BY <2>1, <3>2
        <4> QED BY <4>1 DEF AuthorityHeld
      <3> QED BY <3>1, <3>2
    <2>4. \A r \in Requests : claims[r] # None /\ tokens[claims[r].decision] # None
                              /\ claims[r].decision \in Calls =>
             claims'[r] # None /\ claims'[r].decision = claims[r].decision
      BY <2>1, <2>2, NoneIsNothing
    <2>5. "ISSUED" \in {"ISSUED", "RESERVED", "RECEIPTED"} OBVIOUS
    <2> QED BY <1>1, <2>1, <2>2, <2>3, <2>4, <2>5, TokenStores
  <1>4. ASSUME NEW state \in {"RESERVED", "RECEIPTED"},
               tokens' = [tokens EXCEPT ![calls] = state], claims' = claims,
               tokens[calls] # None
        PROVE  StoresHeld'
    <2>1. /\ claims \in [Requests -> ClaimRows \cup {None}]
          /\ \A r \in Requests : claims[r] # None /\ claims[r].state = "CLAIMED" =>
               claims[r].decision = None
          /\ \E r \in Requests : claims[r] # None /\ claims[r].decision = calls
      BY <1>1, <1>4 DEF StoresTyped, AuthorityHeld
    <2>2. state \in {"ISSUED", "RESERVED", "RECEIPTED"} OBVIOUS
    <2> QED BY <1>1, <1>4, <2>1, <2>2, TokenStores
  <1>5. CASE IssueAuthorization BY <1>3, <1>5 DEF IssueAuthorization
  <1>6. CASE IssueRaises BY <1>2, <1>3, <1>6 DEF IssueRaises
  <1>7. CASE ConsumeAuthorization
    <2>1. tokens[calls] # None BY <1>7 DEF ConsumeAuthorization, At, CallHeld, Holding
    <2> QED BY <1>4, <1>7, <2>1 DEF ConsumeAuthorization
  <1>8. CASE RecordReceipt \/ RecordRaises
    <2>1. tokens[calls] # None
      BY <1>8, NoneIsNothing DEF RecordReceipt, RecordRaises, At, EffectHeld
    <2>2. claims' = claims BY <1>8 DEF RecordReceipt, RecordRaises
    <2>3. tokens' = tokens \/ tokens' = [tokens EXCEPT ![calls] = "RECEIPTED"]
      BY <1>8 DEF RecordReceipt, RecordRaises
    <2> QED BY <1>2, <1>4, <2>1, <2>2, <2>3
  <1> QED BY <1>5, <1>6, <1>7, <1>8

\* The adapter's transaction, seen or lost.
LEMMA EffectStores ==
  ASSUME LifecycleTyped, Execute \/ ExecuteRaises
  PROVE  StoresHeld'
  <1> USE DEF LifecycleTyped
  <1>1. /\ At("CONSUMED") /\ calls \in Calls
        /\ UNCHANGED <<rows, ambiguous, calls, claims, tokens, approvals, clock>>
        /\ faults' \in 0..MaxFaults
    BY FaultsCounted DEF Execute, ExecuteRaises, At, CallTyped, Only, StoresTyped
  <1>2. CASE UNCHANGED <<target, receipts>>
    BY <1>1, <1>2, StoresKept DEF StoresHeld, stores, StoresTyped
  <1>3. CASE Committed
    <2>1. /\ target' \in States /\ receipts' \in [Calls -> Receipts \cup {None}]
          /\ \A n \in Calls \ {calls} : receipts'[n] = receipts[n]
      BY <1>1, <1>3, CommittedFields
    <2>2. tokens[calls] = "RESERVED" BY <1>1 DEF At, CallHeld
    <2>3. StoresTyped' BY <1>1, <2>1 DEF StoresTyped
    <2>4. FutureHeld'
      <3>1. \A n \in Calls : n > calls => n # calls
        BY <1>1, LifecycleAssumption DEF Calls
      <3> QED BY <1>1, <2>1, <3>1 DEF FutureHeld
    <2>5. AuthorityHeld' BY <1>1, <2>1, <2>2 DEF AuthorityHeld
    <2>6. PendingHeld' BY <1>1 DEF PendingHeld
    <2> QED BY <2>3, <2>4, <2>5, <2>6 DEF StoresHeld
  <1> QED BY <1>2, <1>3 DEF Execute, ExecuteRaises

\* The result of the call is committed, or is not (_persist_durable_terminal_result).
LEMMA CloseStores ==
  ASSUME LifecycleTyped, Close
  PROVE  StoresHeld'
  <1> USE DEF LifecycleTyped
  <1>1. /\ calls \in Calls /\ call.at # "IDLE"
        /\ UNCHANGED <<rows, ambiguous, calls, tokens, receipts, target, approvals,
                       clock, faults>>
    BY DEF Close, At, CallTyped, Only, Calm
  <1>2. CASE claims' = claims
    BY <1>1, <1>2, StoresKept DEF StoresHeld, stores, StoresTyped
  <1>3. CASE ClosesClaim /\ claims' = [claims EXCEPT ![call.request].state = "TERMINAL",
                                                    ![call.request].decision = calls]
    <2> PICK r : r = call.request OBVIOUS
    <2>1. /\ r \in Requests /\ claims[r] \in ClaimRows
          /\ claims \in [Requests -> ClaimRows \cup {None}]
          /\ \/ claims[r].state = "CLAIMED"
             \/ claims[r].state = "AUTHORIZED" /\ tokens[calls] = "RECEIPTED"
      BY <1>3 DEF ClosesClaim, StoresTyped
    <2>2. PICK row : row = [claims[r] EXCEPT !.state = "TERMINAL", !.decision = calls]
      OBVIOUS
    <2>3. row \in ClaimRows /\ row.decision = calls /\ row.state = "TERMINAL"
      BY <1>1, <2>1, <2>2 DEF ClaimRows
    <2>4. claims' = [claims EXCEPT ![r] = row] BY <1>3, <2>1, <2>2
    <2>5. /\ claims' \in [Requests -> ClaimRows \cup {None}] /\ claims'[r] = row
          /\ \A q \in Requests \ {r} : claims'[q] = claims[q]
      BY <2>1, <2>3, <2>4
    <2>6. claims[r].decision \in {None, calls}
      <3>1. CASE claims[r].state = "CLAIMED"
        BY <2>1, <3>1, NoneIsNothing DEF AuthorityHeld
      <3>2. CASE tokens[calls] = "RECEIPTED"
        BY <1>1, <3>2, NoneIsNothing DEF CallHeld
      <3> QED BY <2>1, <3>1, <3>2
    <2>7. StoresTyped' BY <1>1, <2>5 DEF StoresTyped
    <2>8. FutureHeld' /\ PendingHeld' BY <1>1 DEF FutureHeld, PendingHeld
    <2>9. \A q \in Requests : claims'[q] # None /\ claims'[q].state = "CLAIMED" =>
             claims'[q].decision = None
      <3> TAKE q \in Requests
      <3>1. CASE q = r BY <2>3, <2>5, <3>1
      <3>2. CASE q # r BY <2>5, <3>2 DEF AuthorityHeld
      <3> QED BY <3>1, <3>2
    <2>10. ASSUME NEW n \in Calls, tokens'[n] # None
           PROVE  \E q \in Requests : claims'[q] # None /\ claims'[q].decision = n
      <3>1. PICK q \in Requests : claims[q] # None /\ claims[q].decision = n
        BY <1>1, <2>10 DEF AuthorityHeld
      <3>2. CASE q # r BY <2>5, <3>1, <3>2
      <3>3. CASE q = r
        <4>1. n = calls BY <2>6, <3>1, <3>3, NoneIsNothing
        <4> QED BY <2>1, <2>3, <2>5, <4>1, NoneIsNothing
      <3> QED BY <3>2, <3>3
    <2> QED BY <1>1, <2>7, <2>8, <2>9, <2>10 DEF AuthorityHeld, StoresHeld
  <1> QED BY <1>2, <1>3, Zenon DEF Close

\* What the gate answers (approve of approval.py) was obtained inside the interval
\* of its requirement, even when it is offered again.
LEMMA ReceiptInTime ==
  ASSUME LifecycleTyped, NEW n \in Calls, NEW approver \in Approvers,
         MayApprove(n, approver)
  PROVE  /\ approvals[n] \in Requirements /\ approvals[n] # None
         /\ approvals[n].created \in Nat
         /\ ReceiptOf(n, approver) \in [approver : Approvers, at : 0..MaxTime]
         /\ approvals[n].created <= ReceiptOf(n, approver).at
         /\ ReceiptOf(n, approver).at < approvals[n].created + ApprovalTTL
  <1> USE DEF LifecycleTyped
  <1> PICK receipt : receipt = ReceiptOf(n, approver) OBVIOUS
  <1>1. approvals[n] \in Requirements
    BY DEF MayApprove, Returned, StoresTyped
  <1>2. approvals[n] # None BY <1>1, NoneIsNothing
  <1>3. /\ approvals[n].created \in Nat /\ clock \in Nat /\ ApprovalTTL \in Nat
        /\ approvals[n].created <= clock /\ clock < approvals[n].created + ApprovalTTL
        /\ clock \in 0..MaxTime
    BY <1>1, LifecycleAssumption DEF MayApprove, ApprovalOpen, Requirements, StoresTyped
  <1>4. CASE approvals[n].pending # None
    <2>1. receipt = approvals[n].pending BY <1>4 DEF ReceiptOf
    <2>2. receipt \in [approver : Approvers, at : 0..MaxTime]
      BY <1>1, <1>4, <2>1 DEF Requirements
    <2> QED BY <1>1, <1>2, <1>3, <1>4, <2>1, <2>2 DEF PendingHeld
  <1>5. CASE approvals[n].pending = None
    BY <1>1, <1>2, <1>3, <1>5 DEF ReceiptOf
  <1> QED BY <1>4, <1>5

\* An approval changes the gate and the file and nothing else (approve_for_reevaluation).
LEMMA ApproveStores ==
  ASSUME LifecycleTyped, NEW n \in Calls, NEW approver \in Approvers,
         Approve(n, approver) \/ ApproveFails(n, approver)
  PROVE  StoresHeld'
  <1> USE DEF LifecycleTyped
  <1> PICK receipt : receipt = ReceiptOf(n, approver) OBVIOUS
  <1>1. /\ MayApprove(n, approver) /\ UNCHANGED <<call, calls, stores, clock>>
        /\ faults' \in 0..MaxFaults
    BY FaultsCounted DEF Approve, ApproveFails, Resting, StoresTyped
  <1>2. approvals[n] \in Requirements BY <1>1, ReceiptInTime
  <1>4. /\ receipt \in [approver : Approvers, at : 0..MaxTime]
        /\ approvals[n].created <= receipt.at
        /\ receipt.at < approvals[n].created + ApprovalTTL
    BY <1>1, ReceiptInTime
  <1>5. PICK requirement :
           /\ requirement \in Requirements /\ requirement.created = approvals[n].created
           /\ requirement.pending \in {None, receipt}
           /\ approvals' = [approvals EXCEPT ![n] = requirement]
    <2>1. CASE Approve(n, approver)
      <3>1. PICK b \in BOOLEAN : b = TRUE OBVIOUS
      <3>2. PICK req : req = [approvals[n] EXCEPT !.used = b, !.pending = None] OBVIOUS
      <3>3. req \in Requirements /\ req.created = approvals[n].created
            /\ req.pending = None
        BY <1>2, <3>2 DEF Requirements
      <3>4. approvals' = [approvals EXCEPT ![n] = req]
        BY <2>1, <3>1, <3>2 DEF Approve, StoresTyped
      <3> QED BY <3>3, <3>4
    <2>2. CASE ApproveFails(n, approver)
      <3>1. PICK req : req = [approvals[n] EXCEPT !.pending = receipt] OBVIOUS
      <3>2. req \in Requirements /\ req.created = approvals[n].created
            /\ req.pending = receipt
        BY <1>2, <1>4, <3>1 DEF Requirements
      <3>3. approvals' = [approvals EXCEPT ![n] = req]
        BY <2>2, <3>1 DEF ApproveFails, StoresTyped
      <3> QED BY <3>2, <3>3
    <2> QED BY <2>1, <2>2
  <1>6. approvals \in [Calls -> Requirements \cup {None}] BY DEF StoresTyped
  <1>7. /\ approvals' \in [Calls -> Requirements \cup {None}]
        /\ approvals'[n] = requirement
        /\ \A m \in Calls \ {n} : approvals'[m] = approvals[m]
    BY <1>5, <1>6
  <1>8. n \in 1..calls
    <2>1. PICK i \in DOMAIN rows : rows[i].decision = n
      BY <1>1 DEF MayApprove, Returned
    <2> QED BY <2>1 DEF StoresTyped
  <1>9. PICK row : row = ApprovalRow(n, receipt) OBVIOUS
  <1>10. row.decision \in 1..calls BY <1>8, <1>9 DEF ApprovalRow
  <1>11. /\ rows' \in {rows, Append(rows, row)}
         /\ \/ ambiguous' = ambiguous
            \/ rows' = Append(rows, row) /\ ambiguous' = ambiguous \cup {Len(rows) + 1}
    BY <1>9 DEF Approve, ApproveFails
  <1>12. /\ IsFile(rows') /\ DOMAIN rows \subseteq DOMAIN rows'
         /\ ambiguous' \subseteq DOMAIN rows'
         /\ \A i \in DOMAIN rows' : rows'[i].decision \in 1..calls
    BY <1>10, <1>11, FileGrows DEF StoresTyped
  <1>13. StoresTyped' BY <1>1, <1>7, <1>12 DEF StoresTyped, stores, IsFile
  <1>14. FutureHeld'
    <2>1. \A m \in Calls : m > calls => m # n
      BY <1>8, LifecycleAssumption DEF Calls, StoresTyped
    <2> QED BY <1>1, <1>7, <2>1 DEF FutureHeld, stores
  <1>15. AuthorityHeld' BY <1>1 DEF AuthorityHeld, stores
  <1>16. PendingHeld'
    <2> SUFFICES ASSUME NEW m \in Calls, approvals'[m] # None,
                        approvals'[m].pending # None
                 PROVE  /\ approvals'[m].created <= approvals'[m].pending.at
                        /\ approvals'[m].pending.at
                             < approvals'[m].created + ApprovalTTL
      BY DEF PendingHeld
    <2>1. CASE m = n BY <1>4, <1>5, <1>7, <2>1
    <2>2. CASE m # n BY <1>7, <2>2 DEF PendingHeld
    <2> QED BY <2>1, <2>2
  <1> QED BY <1>13, <1>14, <1>15, <1>16 DEF StoresHeld

\* A crash forgets the call and the gate (__init__ of engine.py and of approval.py).
LEMMA CrashStores ==
  ASSUME LifecycleTyped, Crash
  PROVE  StoresHeld'
  <1> USE DEF LifecycleTyped
  <1>1. /\ UNCHANGED <<rows, ambiguous, calls, stores, clock>>
        /\ faults' \in 0..MaxFaults /\ approvals' = [n \in Calls |-> None]
    BY FaultsCounted DEF Crash, StoresTyped
  <1>2. StoresTyped' BY <1>1 DEF StoresTyped, stores, IsFile
  <1>3. FutureHeld' /\ PendingHeld' BY <1>1 DEF FutureHeld, PendingHeld, stores
  <1>4. AuthorityHeld' BY <1>1 DEF AuthorityHeld, stores
  <1> QED BY <1>2, <1>3, <1>4 DEF StoresHeld

Handlers ==
  \/ RejectBody \/ AcceptBody \/ RefuseEarly \/ ControlRaises \/ AssessEvidence
  \/ AssessConsequence \/ VerifyDecision \/ ProduceDecision \/ BrokerRejects
  \/ BrokerRaises \/ VerifyEffect \/ AccountForEffect \/ CloseBrokerFailure \/ CloseRaises

\* These handlers of process_json change neither a store nor the file nor the gate.
LEMMA HandlersQuiet ==
  ASSUME LifecycleTyped, Handlers
  PROVE  StoresHeld' /\ UNCHANGED <<rows, ambiguous, calls, stores, approvals, clock>>
  <1>1. UNCHANGED <<rows, ambiguous, calls, stores, approvals, clock>>
    BY Zenon DEF Handlers, RejectBody, AcceptBody, RefuseEarly, ControlRaises, AssessEvidence,
       AssessConsequence, VerifyDecision, ProduceDecision, BrokerRejects, BrokerRaises,
       VerifyEffect, AccountForEffect, CloseBrokerFailure, CloseRaises, Only
  <1>2. Fault \/ Calm
    <2>1. CASE VerifyDecision
      BY <2>1, Zenon DEF VerifyDecision
    <2>2. CASE VerifyEffect \/ AccountForEffect \/ CloseBrokerFailure
      BY <2>2, Zenon DEF VerifyEffect, AccountForEffect, CloseBrokerFailure
    <2>3. CASE BrokerRejects \/ BrokerRaises \/ CloseRaises \/ ControlRaises
      BY <2>3, Zenon DEF BrokerRejects, BrokerRaises, CloseRaises, ControlRaises
    <2>4. CASE \/ RejectBody \/ AcceptBody \/ RefuseEarly \/ AssessEvidence
               \/ AssessConsequence \/ ProduceDecision
      BY <2>4, Zenon DEF RejectBody, AcceptBody, RefuseEarly, AssessEvidence, AssessConsequence,
         ProduceDecision
    <2> QED BY <2>1, <2>2, <2>3, <2>4 DEF Handlers
  <1>3. StoresHeld /\ faults' \in 0..MaxFaults /\ clock' \in 0..MaxTime
    BY <1>1, <1>2, FaultsCounted DEF LifecycleTyped, StoresHeld, StoresTyped
  <1> QED BY <1>1, <1>3, StoresKept

Appends == AppendOK \/ AppendFails \/ AppendAmbiguous

\* An append (append_event of phase3/audit.py), made or not, keeps the types.
LEMMA AppendsTyped ==
  ASSUME LifecycleTyped, Appends
  PROVE  StoresHeld' /\ CallWell'
  <1>1. call.todo # <<>> /\ UNCHANGED <<calls, stores, clock, approvals>>
    BY DEF Appends, AppendOK, AppendFails, AppendAmbiguous
  <1>2. calls \in Calls BY <1>1, NextRecord DEF LifecycleTyped
  <1>3. PICK row : row = RowOf(Head(call.todo), call) OBVIOUS
  <1>4. row.decision \in 1..calls
    BY <1>2, <1>3, LifecycleAssumption DEF RowOf, Calls
  <1>5. faults' \in 0..MaxFaults
    BY LifecycleAssumption
       DEF Appends, AppendOK, AppendFails, AppendAmbiguous, LifecycleTyped, StoresTyped
  <1>6. /\ rows' \in {rows, Append(rows, row)}
        /\ \/ ambiguous' = ambiguous
           \/ rows' = Append(rows, row) /\ ambiguous' = ambiguous \cup {Len(rows) + 1}
    BY <1>3 DEF Appends, AppendOK, AppendFails, AppendAmbiguous
  <1>7. StoresHeld'
    BY <1>1, <1>4, <1>5, <1>6, StoresAppended DEF LifecycleTyped, StoresHeld
  <1>8. CASE AppendOK BY <1>1, <1>7, <1>8, AppendedWell DEF AppendOK
  <1>9. CASE AppendFails \/ AppendAmbiguous
    BY <1>1, <1>7, <1>9, FailedWell DEF AppendFails, AppendAmbiguous
  <1> QED BY <1>7, <1>8, <1>9 DEF Appends

\* Every step keeps the types, the stores and the call.
LEMMA NextTyped ==
  ASSUME LifecycleTyped, [Next]_vars
  PROVE  LifecycleTyped'
  <1>a. StoresHeld /\ CallWell BY TypedInTwo
  <1>b. ASSUME StoresHeld', CallWell' PROVE LifecycleTyped'
    BY <1>b DEF LifecycleTyped, StoresHeld, CallWell
  <1>1. CASE Appends BY <1>1, <1>b, AppendsTyped
  <1>2. CASE \E content \in Contents : Submit(content)
    BY <1>2, <1>b, SubmitWell, SubmitStores
  <1>3. CASE RejectBody \/ RefuseEarly \/ ControlRaises
    BY <1>3, <1>b, DenialsWell, HandlersQuiet DEF Handlers
  <1>4. CASE AcceptBody \/ AssessEvidence \/ AssessConsequence
    BY <1>4, <1>b, AdvancesWell, HandlersQuiet DEF Handlers
  <1>5. CASE Claim \/ ClaimUnavailable
    BY <1>5, <1>b, DenialsWell, AdvancesWell, ClaimStores
  <1>6. CASE BuildDecision BY <1>6, <1>b, AdvancesWell, BuildStores
  <1>7. CASE VerifyDecision \/ ProduceDecision
    BY <1>7, <1>b, DecisionsWell, HandlersQuiet DEF Handlers
  <1>8. CASE IssueAuthorization \/ IssueRaises
    BY <1>8, <1>b, IssueWell, AuthorityStores
  <1>9. CASE BrokerRejects \/ BrokerRaises
    BY <1>9, <1>b, BrokerWell, HandlersQuiet DEF Handlers
  <1>10. CASE ConsumeAuthorization BY <1>10, <1>b, ConsumeWell, AuthorityStores
  <1>11. CASE Execute BY <1>11, <1>b, ExecuteWell, EffectStores
  <1>12. CASE ExecuteRaises BY <1>12, <1>b, LostWell, EffectStores
  <1>13. CASE RecordReceipt BY <1>13, <1>b, RecordWell, AuthorityStores
  <1>14. CASE RecordRaises BY <1>14, <1>b, LostWell, AuthorityStores
  <1>15. CASE VerifyEffect BY <1>15, <1>b, VerifyWell, HandlersQuiet DEF Handlers
  <1>16. CASE AccountForEffect BY <1>16, <1>b, AccountWell, HandlersQuiet DEF Handlers
  <1>17. CASE CloseBrokerFailure
    BY <1>17, <1>b, BrokerFailureWell, HandlersQuiet DEF Handlers
  <1>18. CASE Close
    <2>1. call' = Idle BY <1>18 DEF Close, Only
    <2> QED BY <1>18, <1>b, <2>1, ToIdleWell, CloseStores
  <1>19. CASE CloseRaises
    <2>1. call' = Idle BY <1>19 DEF CloseRaises, Only
    <2> QED BY <1>19, <1>b, <2>1, ToIdleWell, HandlersQuiet DEF Handlers
  <1>20. ASSUME NEW n \in Calls, NEW approver \in Approvers,
                Approve(n, approver) \/ ApproveFails(n, approver)
         PROVE  LifecycleTyped'
    <2>1. UNCHANGED <<call, calls, stores>>
      BY <1>20 DEF Approve, ApproveFails, Resting
    <2>2. CallWell'
      BY <1>a, <2>1 DEF CallWell, CallTyped, CallHeld, EffectHeld, VerificationHeld, stores,
                        MayAppend
    <2> QED BY <1>20, <1>b, <2>2, ApproveStores
  <1>21. CASE Crash
    <2>1. call' = Idle BY <1>21 DEF Crash
    <2> QED BY <1>21, <1>b, <2>1, ToIdleWell, CrashStores
  <1>22. CASE Tick \/ UNCHANGED vars
    <2>1. UNCHANGED <<rows, ambiguous, call, calls, stores, approvals, faults>>
      BY <1>22 DEF Tick, vars, stores
    <2>2. clock' \in 0..MaxTime
      BY <1>22, LifecycleAssumption DEF Tick, vars, LifecycleTyped, StoresTyped
    <2>3. faults' \in 0..MaxFaults BY <2>1 DEF LifecycleTyped, StoresTyped
    <2>4. StoresHeld' BY <1>a, <2>1, <2>2, <2>3, StoresKept
    <2>5. CallWell'
      BY <1>a, <2>1 DEF CallWell, CallTyped, CallHeld, EffectHeld, VerificationHeld, stores,
                        MayAppend
    <2> QED BY <1>b, <2>4, <2>5
  <1> QED BY <1>1, <1>2, <1>3, <1>4, <1>5, <1>6, <1>7, <1>8, <1>9, <1>10, <1>11, <1>12,
             <1>13, <1>14, <1>15, <1>16, <1>17, <1>18, <1>19, <1>20, <1>21, <1>22, Zenon
          DEF Next, Appends

\* The typing invariant holds in every state.
LEMMA TypedAlways == Spec => []LifecycleTyped
  <1>1. LifecycleTyped /\ [Next]_vars => LifecycleTyped' BY NextTyped
  <1> QED BY <1>1, InitTyped, PTL DEF Spec

\* The states of the four stores and of a call, and that an effect has an authorization
\* that was spent for it, and a spent authorization a request that names it
\* (stage_a.py: the control ledger beside the adapter's receipts).
THEOREM LifecycleTypes == Spec => []LifecycleTypeOK
  <1>1. LifecycleTyped => LifecycleTypeOK
    <2> SUFFICES ASSUME LifecycleTyped PROVE LifecycleTypeOK OBVIOUS
    <2>1. call.verification \in Reports \cup {None}
      BY DEF LifecycleTyped, CallTyped, CallStates
    <2>2. call.verification # None =>
            (call.verification.rollback
               <=> call.verification.status \notin {"VERIFIED", "FAILED"})
      BY DEF LifecycleTyped, VerificationHeld
    <2>3. \A n \in Calls :
            /\ tokens[n] \in {None, "ISSUED", "RESERVED", "RECEIPTED"}
            /\ receipts[n] # None => tokens[n] \in {"RESERVED", "RECEIPTED"}
            /\ tokens[n] # None => \E r \in Requests : claims[r] # None
                                                    /\ claims[r].decision = n
      BY DEF LifecycleTyped, StoresTyped, AuthorityHeld
    <2> QED BY <2>1, <2>2, <2>3 DEF LifecycleTypeOK, LifecycleTyped, StoresTyped
  <1> QED BY <1>1, TypedAlways, PTL

-----------------------------------------------------------------------------
(* What the file says.                                                     *)

Tells == EndsHeld /\ EffectNeverUnderstated /\ ApprovedOnce

\* What a closing record tells of the receipt the adapter has for its call.
TrueOf(row, receipt) ==
  /\ row.body.effects = 0 => receipt = None \/ receipt.after = receipt.before
  /\ row.body.status = "VERIFIED" =>
       /\ receipt # None
       /\ receipt.after = [receipt.before EXCEPT !.last = row.decision, !.expires = TRUE]
FinalsTrue ==
  \A i \in DOMAIN rows : rows[i].type = "FINAL_STATE_RECORDED" =>
     TrueOf(rows[i], receipts[rows[i].decision])

\* The property and its form by row say the same of what FINAL_STATE_RECORDED tells.
LEMMA EffectIsTrueOf == EffectNeverUnderstated <=> FinalsTrue
  BY Zenon DEF EffectNeverUnderstated, FinalsTrue, TrueOf
\* The same of the file that a step leaves.
LEMMA EffectIsTrueOfNext == EffectNeverUnderstated' <=> FinalsTrue'
  BY Zenon DEF EffectNeverUnderstated, FinalsTrue, TrueOf

\* What a step leaves that changes neither the file nor a receipt nor the gate: a call
\* that ends does not come back to a place where it could act.
LEMMA TellsKept ==
  ASSUME Tells, UNCHANGED <<rows, calls, receipts, approvals>>,
         call.at = "IDLE" => call'.at = "IDLE",
         call.at \in Ending => call'.at \in Ending \cup {"IDLE"}
  PROVE  Tells'
  <1>1. EndsHeld'
    <2> SUFFICES ASSUME NEW i \in DOMAIN rows
                 PROVE  /\ rows[i].type \in Ends /\ rows[i].decision = calls
                             /\ call'.at # "IDLE" => call'.at \in Ending
                        /\ rows[i].type = "APPROVAL_REQUIREMENT_PRODUCED" =>
                             /\ receipts[rows[i].decision] = None
                             /\ approvals[rows[i].decision] # None =>
                                  rows[i].body.created
                                    = approvals[rows[i].decision].created
      BY Zenon DEF EndsHeld
    <2> QED BY DEF Tells, EndsHeld
  <1>2. EffectNeverUnderstated'
    BY EffectIsTrueOf, EffectIsTrueOfNext DEF Tells, FinalsTrue
  <1>3. ApprovedOnce'
    BY DEF Tells, ApprovedOnce, Approvals, RowsOfType, RowsOf
  <1> QED BY <1>1, <1>2, <1>3 DEF Tells

\* A target that was observed is neither of the answers that name none.
LEMMA NotATarget ==
  ASSUME NEW state \in States
  PROVE  state # Nothing /\ state # Unavailable
  <1>1. DOMAIN state = {"last", "expires", "degraded"} BY DEF States
  <1>2. DOMAIN Nothing = {"empty"} /\ DOMAIN Unavailable = {"state_unavailable"}
    BY DEF Nothing, Unavailable
  <1>3. "last" \in DOMAIN state BY <1>1
  <1>4. "last" \notin DOMAIN Nothing /\ "last" \notin DOMAIN Unavailable BY <1>2
  <1> QED BY <1>3, <1>4

\* The closing record of a call (FINAL_STATE_RECORDED) tells whether its effect is
\* there, and calls it verified only when it is the one that was asked for.
LEMMA FinalHonest ==
  ASSUME LifecycleTyped, call.at = "CLOSING", NEW final,
         final = Body("FINAL_STATE_RECORDED", call)
  PROVE  /\ final.effects = 0 =>
              receipts[calls] = None \/ receipts[calls].after = receipts[calls].before
         /\ final.status = "VERIFIED" =>
              /\ receipts[calls] # None
              /\ receipts[calls].after =
                   [receipts[calls].before EXCEPT !.last = calls, !.expires = TRUE]
  <1> USE DEF LifecycleTyped
  <1>1. /\ final.effects = Effects(call)
        /\ final.status = IF call.verification = None THEN None
                          ELSE call.verification.status
    BY DEF Body
  <1>2. receipts[calls] # None =>
          /\ receipts[calls].after = target /\ receipts[calls].before = call.before
          /\ call.verification # None
    BY DEF EffectHeld, VerificationHeld
  <1>3. ASSUME final.effects = 0, receipts[calls] # None
        PROVE  receipts[calls].after = receipts[calls].before
    <2>1. call.verification.observed = call.before
      BY <1>1, <1>2, <1>3 DEF Effects
    <2>2. call.verification.observed \in {target, Nothing, Unavailable}
      BY <1>2, <1>3 DEF VerificationHeld
    <2>3. receipts[calls] \in Receipts
      BY <1>3 DEF CallTyped, StoresTyped
    <2>4. call.before \in States BY <1>2, <1>3, <2>3 DEF Receipts
    <2>5. call.before # Nothing /\ call.before # Unavailable
      BY <2>4, NotATarget
    <2> QED BY <1>2, <1>3, <2>1, <2>2, <2>5
  <1>4. ASSUME final.status = "VERIFIED"
        PROVE  /\ receipts[calls] # None
               /\ receipts[calls].after =
                    [receipts[calls].before EXCEPT !.last = calls, !.expires = TRUE]
    <2>1. call.verification # None /\ call.verification.status = "VERIFIED"
      BY <1>1, <1>4, NoneIsNothing
    <2>2. /\ receipts[calls] # None
          /\ target = [call.before EXCEPT !.last = calls, !.expires = TRUE]
      BY <2>1 DEF VerificationHeld
    <2> QED BY <1>2, <2>2
  <1> QED BY <1>3, <1>4

\* An append of the call in progress adds a record that is true.
LEMMA AppendTells ==
  ASSUME LifecycleInvariant, NEW t \in MayAppend(call), call.at # "IDLE",
         rows' \in {rows, Append(rows, RowOf(t, call))},
         UNCHANGED <<calls, receipts, approvals>>,
         call'.at \in Ending \cup {"IDLE", call.at},
         t \in Ends => call'.at \in Ending \cup {"IDLE"},
         call.at \in Ending => call'.at \in Ending \cup {"IDLE"}
  PROVE  Tells'
  <1> USE DEF LifecycleInvariant, LifecycleTyped
  <1>1. CASE rows' = rows BY <1>1, TellsKept DEF Tells
  <1>2. CASE rows' = Append(rows, RowOf(t, call))
    <2> PICK row : row = RowOf(t, call) OBVIOUS
    <2>1. /\ row.type = t /\ row.decision = calls /\ row.body = Body(t, call)
      BY DEF RowOf
    <2>2. /\ DOMAIN rows = 1..Len(rows) /\ DOMAIN rows' = 1..(Len(rows) + 1)
          /\ Len(rows) \in Nat /\ \A i \in DOMAIN rows : rows'[i] = rows[i]
          /\ rows'[Len(rows) + 1] = row
      BY <1>2, FileAppend DEF StoresTyped
    <2>3. \A i \in DOMAIN rows' : i \in DOMAIN rows \/ i = Len(rows) + 1 BY <2>2
    <2>4. t \in RecordTypes /\ t # "APPROVAL_RECORDED"
      BY DEF MayAppend, RecordTypes
    <2>5. t \in Ends => call.at = "CLOSING" BY DEF MayAppend
    <2>6. ASSUME NEW i \in DOMAIN rows', i \in DOMAIN rows
          PROVE  /\ rows'[i].type \in Ends /\ rows'[i].decision = calls'
                      /\ call'.at # "IDLE" => call'.at \in Ending
                 /\ rows'[i].type = "APPROVAL_REQUIREMENT_PRODUCED" =>
                      /\ receipts'[rows'[i].decision] = None
                      /\ approvals'[rows'[i].decision] # None =>
                           rows'[i].body.created = approvals'[rows'[i].decision].created
      BY <2>2, <2>6 DEF EndsHeld
    <2>7. t = "APPROVAL_REQUIREMENT_PRODUCED" =>
            receipts[calls] = None /\ row.body.created = approvals[calls].created
      <3> SUFFICES ASSUME t = "APPROVAL_REQUIREMENT_PRODUCED"
                   PROVE  /\ receipts[calls] = None
                          /\ row.body.created = approvals[calls].created
        OBVIOUS
      <3>1. call.outcome = "ESCALATE" BY DEF MayAppend
      <3>2. receipts[calls] = None BY <3>1 DEF EffectHeld
      <3> QED BY <2>1, <3>2 DEF Body
    <2>8. EndsHeld'
      BY <2>1, <2>2, <2>3, <2>5, <2>6, <2>7 DEF EndsHeld
    <2>9. EffectNeverUnderstated'
      <3> SUFFICES ASSUME NEW i \in DOMAIN rows', rows'[i].type = "FINAL_STATE_RECORDED"
                   PROVE  TrueOf(rows'[i], receipts'[rows'[i].decision])
        BY EffectIsTrueOfNext DEF FinalsTrue
      <3>1. CASE i \in DOMAIN rows
        BY <2>2, <3>1, EffectIsTrueOf DEF FinalsTrue
      <3>2. CASE i = Len(rows) + 1
        <4>1. t = "FINAL_STATE_RECORDED" /\ row.body = Body("FINAL_STATE_RECORDED", call)
          BY <2>1, <2>2, <3>2
        <4>2. call.at = "CLOSING" BY <2>5, <4>1 DEF Ends
        <4>3. TrueOf(row, receipts[calls])
          BY <2>1, <4>1, <4>2, FinalHonest, Zenon DEF TrueOf
        <4> QED BY <2>1, <2>2, <3>2, <4>3
      <3> QED BY <2>3, <3>1, <3>2
    <2>10. ApprovedOnce'
      <3>1. Approvals' = Approvals
        BY <2>1, <2>2, <2>3, <2>4 DEF Approvals
      <3>2. \A n : RowsOfType(n, "APPROVAL_REQUIREMENT_PRODUCED")
                     \subseteq RowsOfType(n, "APPROVAL_REQUIREMENT_PRODUCED")'
        BY <2>2 DEF RowsOfType, RowsOf
      <3>3. \A n : \A j \in RowsOfType(n, "APPROVAL_REQUIREMENT_PRODUCED") :
               rows'[j] = rows[j]
        BY <2>2 DEF RowsOfType, RowsOf
      <3>4. \A i \in Approvals : rows'[i] = rows[i] BY <2>2 DEF Approvals
      <3> QED BY <3>1, <3>2, <3>3, <3>4 DEF ApprovedOnce
    <2> QED BY <2>8, <2>9, <2>10 DEF Tells
  <1> QED BY <1>1, <1>2


\* A record that could not be appended ends the call, or leads to its denial or to the
\* accounting of its effect.
LEMMA FailedPlaces ==
  ASSUME CallTyped, NEW t
  PROVE  /\ AfterFailedAppend(t).at \in Ending \cup {"IDLE"}
         /\ AfterAmbiguousAppend(t).at \in Ending \cup {"IDLE"}
  <1>1. call \in CallStates BY DEF CallTyped
  <1>2. FailClosed(call).at = "CLOSING" BY <1>1 DEF FailClosed, Denied, CallStates
  <1>3. Idle.at = "IDLE" BY DEF Idle
  <1>4. [call EXCEPT !.at = "ACCOUNTING", !.todo = <<>>, !.failed = t].at = "ACCOUNTING"
    BY <1>1 DEF CallStates
  <1>5. /\ "CLOSING" \in Ending \cup {"IDLE"} /\ "ACCOUNTING" \in Ending \cup {"IDLE"}
        /\ "IDLE" \in Ending \cup {"IDLE"}
    BY DEF Ending
  <1>6. AfterAmbiguousAppend(t).at \in Ending \cup {"IDLE"}
    BY <1>2, <1>3, <1>5, Zenon DEF AfterAmbiguousAppend
  <1>7. AfterFailedAppend(t) \in
          {FailClosed(call), [call EXCEPT !.at = "ACCOUNTING", !.todo = <<>>, !.failed = t],
           Idle}
    <2>1. CASE t \in InEvidenceTry BY <2>1, Zenon DEF AfterFailedAppend, InEvidenceTry
    <2> QED BY <2>1 DEF AfterFailedAppend
  <1> QED BY <1>2, <1>3, <1>4, <1>5, <1>6, <1>7

\* Whatever becomes of an append, the file stays true.
LEMMA AppendsTell ==
  ASSUME LifecycleInvariant, Appends
  PROVE  Tells'
  <1> USE DEF LifecycleInvariant, LifecycleTyped
  <1>1. PICK t : t = Head(call.todo) OBVIOUS
  <1>2. call.todo # <<>> /\ UNCHANGED <<calls, receipts, approvals>>
    BY DEF Appends, AppendOK, AppendFails, AppendAmbiguous, stores
  <1>3. t \in MayAppend(call) /\ call.at # "IDLE" BY <1>1, <1>2, NextRecord
  <1>4. rows' \in {rows, Append(rows, RowOf(t, call))}
    BY <1>1 DEF Appends, AppendOK, AppendFails, AppendAmbiguous
  <1>5. t \in Ends => call.at \in Ending BY <1>3 DEF MayAppend, Ending
  <1>6. CASE AppendOK
    <2>1. call'.at = call.at BY <1>6 DEF AppendOK, CallTyped, CallStates
    <2> QED BY <1>2, <1>3, <1>4, <1>5, <2>1, AppendTells
  <1>7. CASE AppendFails \/ AppendAmbiguous
    <2>1. call'.at \in Ending \cup {"IDLE"}
      BY <1>7, FailedPlaces DEF AppendFails, AppendAmbiguous
    <2> QED BY <1>2, <1>3, <1>4, <2>1, AppendTells
  <1> QED BY <1>6, <1>7 DEF Appends

\* While a call has not come to its end, the file says neither how it ended nor that it
\* needs an approval: its effect and its requirement are free to come into being.
LEMMA OwnTells ==
  ASSUME LifecycleInvariant, call.at \notin Ending \cup {"IDLE"},
         UNCHANGED <<rows, calls>>,
         \A n \in Calls \ {calls} : /\ receipts'[n] = receipts[n]
                                    /\ approvals'[n] = approvals[n]
  PROVE  Tells'
  <1> USE DEF LifecycleInvariant, LifecycleTyped
  <1>1. \A i \in DOMAIN rows : rows[i].decision \in Calls
    BY LifecycleAssumption DEF StoresTyped, Calls
  <1>2. \A i \in DOMAIN rows : rows[i].type \in Ends =>
           /\ rows[i].decision # calls
           /\ receipts'[rows[i].decision] = receipts[rows[i].decision]
           /\ approvals'[rows[i].decision] = approvals[rows[i].decision]
    BY <1>1 DEF EndsHeld
  <1>3. EndsHeld'
    <2> SUFFICES ASSUME NEW i \in DOMAIN rows
                 PROVE  /\ rows[i].type \in Ends /\ rows[i].decision = calls
                             /\ call'.at # "IDLE" => call'.at \in Ending
                        /\ rows[i].type = "APPROVAL_REQUIREMENT_PRODUCED" =>
                             /\ receipts'[rows[i].decision] = None
                             /\ approvals'[rows[i].decision] # None =>
                                  rows[i].body.created
                                    = approvals'[rows[i].decision].created
      BY Zenon DEF EndsHeld
    <2>1. rows[i].type = "APPROVAL_REQUIREMENT_PRODUCED" => rows[i].type \in Ends
      BY DEF Ends
    <2> QED BY <1>2, <2>1 DEF EndsHeld
  <1>4. EffectNeverUnderstated'
    <2> SUFFICES ASSUME NEW i \in DOMAIN rows, rows[i].type = "FINAL_STATE_RECORDED"
                 PROVE  TrueOf(rows[i], receipts'[rows[i].decision])
      BY EffectIsTrueOfNext DEF FinalsTrue
    <2> QED BY <1>2, EffectIsTrueOf DEF Ends, FinalsTrue
  <1>5. ApprovedOnce'
    <2>1. ASSUME NEW i \in Approvals
          PROVE  receipts'[rows[i].decision] = receipts[rows[i].decision]
      <3>1. PICK j \in RowsOfType(rows[i].decision, "APPROVAL_REQUIREMENT_PRODUCED") : TRUE
        BY DEF ApprovedOnce
      <3> QED BY <1>2, <3>1 DEF RowsOfType, RowsOf, Ends
    <2> QED BY <2>1 DEF ApprovedOnce, Approvals, RowsOfType, RowsOf
  <1> QED BY <1>3, <1>4, <1>5 DEF Tells

\* A new call has no record yet.
LEMMA SubmitTells ==
  ASSUME LifecycleInvariant, NEW content \in Contents, Submit(content)
  PROVE  Tells'
  <1> USE DEF LifecycleInvariant, LifecycleTyped
  <1>1. calls' = calls + 1 /\ calls \in Nat /\ UNCHANGED <<rows, receipts, approvals>>
    BY LifecycleAssumption DEF Submit, StoresTyped, stores
  <1>2. \A i \in DOMAIN rows : rows[i].decision # calls'
    BY <1>1 DEF StoresTyped
  <1>3. EndsHeld'
    <2> SUFFICES ASSUME NEW i \in DOMAIN rows
                 PROVE  /\ rows[i].type \in Ends /\ rows[i].decision = calls'
                             /\ call'.at # "IDLE" => call'.at \in Ending
                        /\ rows[i].type = "APPROVAL_REQUIREMENT_PRODUCED" =>
                             /\ receipts[rows[i].decision] = None
                             /\ approvals[rows[i].decision] # None =>
                                  rows[i].body.created
                                    = approvals[rows[i].decision].created
      BY <1>1, Zenon DEF EndsHeld
    <2> QED BY <1>2 DEF EndsHeld
  <1>4. EffectNeverUnderstated'
    BY <1>1, EffectIsTrueOf, EffectIsTrueOfNext DEF FinalsTrue
  <1>5. ApprovedOnce' BY <1>1 DEF ApprovedOnce, Approvals, RowsOfType, RowsOf
  <1> QED BY <1>3, <1>4, <1>5 DEF Tells

\* A crash forgets the call and the gate, and nothing that was written.
LEMMA CrashTells ==
  ASSUME LifecycleInvariant, Crash
  PROVE  Tells'
  <1> USE DEF LifecycleInvariant, LifecycleTyped
  <1>1. /\ call' = Idle /\ approvals' = [n \in Calls |-> None]
        /\ UNCHANGED <<rows, calls, receipts>>
    BY DEF Crash, stores
  <1>2. call'.at = "IDLE" BY <1>1 DEF Idle
  <1>3. \A i \in DOMAIN rows : rows[i].decision \in Calls
    BY LifecycleAssumption DEF StoresTyped, Calls
  <1>4. EndsHeld'
    <2> SUFFICES ASSUME NEW i \in DOMAIN rows
                 PROVE  /\ rows[i].type \in Ends /\ rows[i].decision = calls
                             /\ call'.at # "IDLE" => call'.at \in Ending
                        /\ rows[i].type = "APPROVAL_REQUIREMENT_PRODUCED" =>
                             /\ receipts[rows[i].decision] = None
                             /\ approvals'[rows[i].decision] # None =>
                                  rows[i].body.created
                                    = approvals'[rows[i].decision].created
      BY <1>1, Zenon DEF EndsHeld
    <2>1. approvals'[rows[i].decision] = None BY <1>1, <1>3
    <2> QED BY <1>2, <2>1 DEF EndsHeld
  <1>5. EffectNeverUnderstated'
    BY <1>1, EffectIsTrueOf, EffectIsTrueOfNext DEF FinalsTrue
  <1>6. ApprovedOnce' BY <1>1 DEF ApprovedOnce, Approvals, RowsOfType, RowsOf
  <1> QED BY <1>4, <1>5, <1>6 DEF Tells

\* An approval adds at most its own record, for a requirement that is in the file and
\* has none, and leaves what the requirement says.
LEMMA ApproveTells ==
  ASSUME LifecycleInvariant, NEW n \in Calls, NEW approver \in Approvers,
         Approve(n, approver) \/ ApproveFails(n, approver)
  PROVE  Tells'
  <1> USE DEF LifecycleInvariant, LifecycleTyped
  <1> PICK receipt : receipt = ReceiptOf(n, approver) OBVIOUS
  <1> PICK row : row = ApprovalRow(n, receipt) OBVIOUS
  <1>1. /\ MayApprove(n, approver) /\ UNCHANGED <<call, calls, receipts>>
        /\ call.at = "IDLE"
    BY DEF Approve, ApproveFails, Resting, MayApprove, stores
  <1>2. /\ approvals[n] # None /\ approvals[n] \in Requirements
        /\ approvals[n].created <= receipt.at
        /\ receipt.at < approvals[n].created + ApprovalTTL
    BY <1>1, ReceiptInTime
  <1>3. /\ row.type = "APPROVAL_RECORDED" /\ row.decision = n
        /\ row.body.at = receipt.at
    BY DEF ApprovalRow
  <1>4. rows' = rows \/ (rows' = Append(rows, row) /\ ~Recorded(n))
    BY DEF Approve, ApproveFails
  <1>5. /\ approvals'[n].created = approvals[n].created
        /\ \A m \in Calls \ {n} : approvals'[m] = approvals[m]
    <2>1. approvals \in [Calls -> Requirements \cup {None}] BY DEF StoresTyped
    <2>2. CASE Approve(n, approver)
      <3>1. PICK b : b = TRUE OBVIOUS
      <3>2. approvals' = [approvals EXCEPT ![n].used = b, ![n].pending = None]
        BY <2>2, <3>1 DEF Approve
      <3> QED BY <1>2, <2>1, <3>2 DEF Requirements
    <2>3. CASE ApproveFails(n, approver)
      BY <1>2, <2>1, <2>3 DEF ApproveFails, Requirements
    <2> QED BY <2>2, <2>3
  <1>6. PICK k \in DOMAIN rows :
           /\ rows[k].decision = n /\ rows[k].type = "APPROVAL_REQUIREMENT_PRODUCED"
    BY <1>1 DEF MayApprove, Returned
  <1>7. receipts[n] = None /\ rows[k].body.created = approvals[n].created
    BY <1>2, <1>6 DEF EndsHeld
  <1>8. /\ DOMAIN rows = 1..Len(rows) /\ Len(rows) \in Nat
        /\ rows' # rows => /\ DOMAIN rows' = 1..(Len(rows) + 1)
                           /\ rows'[Len(rows) + 1] = row /\ ~Recorded(n)
        /\ DOMAIN rows \subseteq DOMAIN rows'
        /\ \A i \in DOMAIN rows : rows'[i] = rows[i]
    <2>1. IsFile(rows) BY DEF StoresTyped
    <2>2. DOMAIN rows = 1..Len(rows) /\ Len(rows) \in Nat BY <2>1, FileAppend
    <2>5. /\ DOMAIN Append(rows, row) = 1..(Len(rows) + 1)
          /\ Append(rows, row)[Len(rows) + 1] = row
          /\ \A i \in DOMAIN rows : Append(rows, row)[i] = rows[i]
      BY <2>1, FileAppend
    <2>3. CASE rows' = rows BY <2>2, <2>3, Zenon
    <2>4. CASE rows' = Append(rows, row) /\ ~Recorded(n)
      <3>1. /\ DOMAIN rows' = 1..(Len(rows) + 1) /\ rows'[Len(rows) + 1] = row
            /\ \A i \in DOMAIN rows : rows'[i] = rows[i]
        BY <2>4, <2>5, Zenon
      <3>2. DOMAIN rows \subseteq DOMAIN rows'
        <4> PICK L \in Nat : L = Len(rows) BY <2>2
        <4>1. 1..L \subseteq 1..(L + 1) OBVIOUS
        <4> QED BY <2>2, <3>1, <4>1, Zenon
      <3> QED BY <2>2, <2>4, <3>1, <3>2, Zenon
    <2> QED BY <1>4, <2>3, <2>4
  <1>9. ASSUME NEW i \in DOMAIN rows', i \notin DOMAIN rows
        PROVE  /\ i = Len(rows) + 1 /\ rows'[i] = row /\ ~Recorded(n)
               /\ \A j \in DOMAIN rows : j < i
    BY <1>8, <1>9
  <1>10. \A i \in DOMAIN rows : rows[i].decision \in Calls
    BY LifecycleAssumption DEF StoresTyped, Calls
  <1>11. EndsHeld'
    <2> SUFFICES ASSUME NEW i \in DOMAIN rows'
                 PROVE  rows'[i].type = "APPROVAL_REQUIREMENT_PRODUCED" =>
                          /\ receipts'[rows'[i].decision] = None
                          /\ approvals'[rows'[i].decision] # None =>
                               rows'[i].body.created
                                 = approvals'[rows'[i].decision].created
      BY <1>1 DEF EndsHeld
    <2>1. CASE i \in DOMAIN rows
      <3>1. CASE rows[i].decision = n
        BY <1>1, <1>2, <1>5, <1>8, <2>1, <3>1 DEF EndsHeld
      <3>2. CASE rows[i].decision # n
        <4>1. approvals'[rows[i].decision] = approvals[rows[i].decision]
          BY <1>5, <1>10, <2>1, <3>2
        <4> QED BY <1>1, <1>8, <2>1, <4>1 DEF EndsHeld
      <3> QED BY <3>1, <3>2
    <2>2. CASE i \notin DOMAIN rows BY <1>3, <1>9, <2>2
    <2> QED BY <2>1, <2>2
  <1>12. EffectNeverUnderstated'
    <2> SUFFICES ASSUME NEW i \in DOMAIN rows', rows'[i].type = "FINAL_STATE_RECORDED"
                 PROVE  TrueOf(rows'[i], receipts'[rows'[i].decision])
      BY EffectIsTrueOfNext DEF FinalsTrue
    <2>1. i \in DOMAIN rows BY <1>3, <1>9
    <2> QED BY <1>1, <1>8, <2>1, EffectIsTrueOf DEF FinalsTrue
  <1>13. ApprovedOnce'
    <2>1. \A i \in DOMAIN rows : i \in Approvals <=> i \in Approvals'
      BY <1>8 DEF Approvals
    <2>2. ASSUME NEW i \in Approvals', i \notin DOMAIN rows
          PROVE  rows'[i] = row /\ \A j \in Approvals : rows[j].decision # n
      BY <1>9, <2>2 DEF Approvals, Recorded
    <2> SUFFICES ASSUME NEW i \in Approvals'
                 PROVE  /\ \A j \in Approvals' :
                             rows'[j].decision = rows'[i].decision => j = i
                        /\ receipts'[rows'[i].decision] = None
                        /\ \E j \in DOMAIN rows' :
                              /\ rows'[j].decision = rows'[i].decision
                              /\ rows'[j].type = "APPROVAL_REQUIREMENT_PRODUCED"
                              /\ j < i /\ rows'[j].body.created <= rows'[i].body.at
                              /\ rows'[i].body.at
                                   < rows'[j].body.created + ApprovalTTL
      BY Zenon DEF ApprovedOnce, RowsOfType, RowsOf
    <2>3. ASSUME NEW j \in Approvals', rows'[j].decision = rows'[i].decision
          PROVE  j = i
      <3>1. CASE i \in DOMAIN rows /\ j \in DOMAIN rows
        BY <1>8, <2>1, <2>3, <3>1 DEF ApprovedOnce
      <3>2. CASE i \in DOMAIN rows /\ j \notin DOMAIN rows
        BY <1>3, <1>8, <2>1, <2>2, <2>3, <3>2
      <3>3. CASE i \notin DOMAIN rows /\ j \in DOMAIN rows
        BY <1>3, <1>8, <2>1, <2>2, <2>3, <3>3
      <3>4. CASE i \notin DOMAIN rows /\ j \notin DOMAIN rows
        BY <1>9, <3>4 DEF Approvals
      <3> QED BY <3>1, <3>2, <3>3, <3>4
    <2>4. CASE i \in DOMAIN rows
      <3>1. i \in Approvals /\ rows'[i] = rows[i] BY <1>8, <2>1, <2>4
      <3>2. receipts'[rows'[i].decision] = None BY <1>1, <3>1 DEF ApprovedOnce
      <3>3. PICK j \in DOMAIN rows :
               /\ rows[j].decision = rows[i].decision
               /\ rows[j].type = "APPROVAL_REQUIREMENT_PRODUCED"
               /\ j < i /\ rows[j].body.created <= rows[i].body.at
               /\ rows[i].body.at < rows[j].body.created + ApprovalTTL
        BY <3>1 DEF ApprovedOnce, RowsOfType, RowsOf
      <3> QED BY <1>8, <2>3, <3>1, <3>2, <3>3
    <2>5. CASE i \notin DOMAIN rows
      <3>1. rows'[i] = row /\ k < i BY <1>6, <1>9, <2>2, <2>5 DEF Approvals
      <3>2. rows'[k] = rows[k] /\ k \in DOMAIN rows' BY <1>6, <1>8
      <3> QED BY <1>1, <1>2, <1>3, <1>6, <1>7, <2>3, <3>1, <3>2
    <2> QED BY <2>4, <2>5
  <1> QED BY <1>11, <1>12, <1>13 DEF Tells

Working ==
  \/ RejectBody \/ AcceptBody \/ RefuseEarly \/ Claim \/ ClaimUnavailable
  \/ ControlRaises \/ AssessEvidence \/ AssessConsequence \/ BuildDecision
  \/ VerifyDecision \/ ProduceDecision \/ IssueAuthorization \/ IssueRaises
  \/ BrokerRejects \/ BrokerRaises \/ ConsumeAuthorization \/ Execute \/ ExecuteRaises
  \/ RecordReceipt \/ RecordRaises \/ VerifyEffect \/ CloseBrokerFailure

\* The handlers of a call that has not come to its end: whatever they do to a receipt or
\* to a requirement, they do to its own.
LEMMA WorkingTells ==
  ASSUME LifecycleInvariant, Working
  PROVE  Tells'
  <1> USE DEF LifecycleInvariant, LifecycleTyped
  <1>1. call.at \notin Ending \cup {"IDLE"}
    <2>1. CASE \/ RejectBody \/ AcceptBody \/ RefuseEarly \/ Claim \/ ClaimUnavailable
               \/ ControlRaises \/ AssessEvidence \/ AssessConsequence
      BY <2>1 DEF RejectBody, AcceptBody, RefuseEarly, Claim, ClaimUnavailable,
         ControlRaises, AssessEvidence, AssessConsequence, At, Ending
    <2>2. CASE \/ BuildDecision \/ VerifyDecision \/ ProduceDecision
               \/ IssueAuthorization \/ IssueRaises \/ BrokerRejects \/ BrokerRaises
      <3>1. At("ASSESSED") \/ At("DECIDED") \/ At("VERIFIED") \/ At("INVOKED")
        BY <2>2, Zenon DEF BuildDecision, VerifyDecision, ProduceDecision,
           IssueAuthorization, IssueRaises, BrokerRejects, BrokerRaises
      <3> QED BY <3>1 DEF At, Ending
    <2>3. CASE \/ ConsumeAuthorization \/ Execute \/ ExecuteRaises \/ RecordReceipt
               \/ RecordRaises \/ VerifyEffect \/ CloseBrokerFailure
      <3>1. \/ At("INVOKED") \/ At("CONSUMED") \/ At("EXECUTED") \/ At("ACTED")
            \/ At("BROKER_FAILED")
        BY <2>3, Zenon DEF ConsumeAuthorization, Execute, ExecuteRaises, RecordReceipt,
           RecordRaises, VerifyEffect, CloseBrokerFailure
      <3> QED BY <3>1 DEF At, Ending
    <2> QED BY <2>1, <2>2, <2>3 DEF Working
  <1>2. calls \in Calls BY <1>1 DEF CallTyped
  <1>3. CASE Handlers BY <1>1, <1>3, HandlersQuiet, OwnTells DEF stores
  <1>4. CASE \/ Claim \/ ClaimUnavailable \/ IssueAuthorization \/ IssueRaises
             \/ ConsumeAuthorization \/ RecordReceipt \/ RecordRaises
    <2>1. UNCHANGED <<rows, calls, receipts, approvals>>
      BY <1>4, Zenon DEF Claim, ClaimUnavailable, IssueAuthorization, IssueRaises,
         ConsumeAuthorization, RecordReceipt, RecordRaises, Only, RefuseClaim
    <2> QED BY <1>1, <2>1, OwnTells
  <1>5. CASE BuildDecision
    <2>1. UNCHANGED <<rows, calls, receipts>>
      BY <1>5, Zenon DEF BuildDecision, Only, stores
    <2>2. PICK requirement :
             \/ approvals' = approvals
             \/ approvals' = [approvals EXCEPT ![calls] = requirement]
      BY <1>5, Zenon DEF BuildDecision
    <2>3. \A n \in Calls \ {calls} : approvals'[n] = approvals[n]
      BY <2>2 DEF StoresTyped
    <2> QED BY <1>1, <2>1, <2>3, OwnTells
  <1>6. CASE Execute \/ ExecuteRaises
    <2>1. At("CONSUMED") /\ UNCHANGED <<rows, calls, approvals>>
      BY <1>6 DEF Execute, ExecuteRaises, Only
    <2>2. \A n \in Calls \ {calls} : receipts'[n] = receipts[n]
      <3>1. CASE Committed BY <2>1, <3>1, CommittedFields
      <3>2. CASE ~Committed BY <1>6, <3>2 DEF Execute, ExecuteRaises
      <3> QED BY <3>1, <3>2
    <2> QED BY <1>1, <2>1, <2>2, OwnTells
  <1> QED BY <1>3, <1>4, <1>5, <1>6 DEF Working, Handlers

\* A call that closes: its last records are already in the file.
LEMMA ClosingTells ==
  ASSUME LifecycleInvariant, AccountForEffect \/ Close \/ CloseRaises
  PROVE  Tells'
  <1> USE DEF LifecycleInvariant, LifecycleTyped
  <1>1. UNCHANGED <<rows, calls, receipts, approvals>>
    BY Zenon DEF AccountForEffect, Close, CloseRaises, Only, stores
  <1>2. call.at # "IDLE" BY Zenon DEF AccountForEffect, Close, CloseRaises, At
  <1>3. call'.at \in Ending \cup {"IDLE"}
    <2>1. CASE AccountForEffect
      <3>1. PICK report : call' = [ToDo(AccountingRest, "CLOSING")
                                     EXCEPT !.verification = report]
        BY <2>1, Zenon DEF AccountForEffect, Only
      <3>2. call \in CallStates BY DEF CallTyped
      <3> QED BY <3>1, <3>2 DEF ToDo, CallStates, Ending
    <2>2. CASE Close \/ CloseRaises
      <3>1. call' = Idle BY <2>2, Zenon DEF Close, CloseRaises, Only
      <3> QED BY <3>1 DEF Idle
    <2> QED BY <2>1, <2>2
  <1>4. Tells BY DEF Tells
  <1> QED BY <1>1, <1>2, <1>3, <1>4, TellsKept

\* Every step of the lifecycle keeps the file true.
LEMMA NextTells ==
  ASSUME LifecycleInvariant, [Next]_vars
  PROVE  Tells'
  <1>1. CASE Appends BY <1>1, AppendsTell
  <1>2. CASE \E content \in Contents : Submit(content) BY <1>2, SubmitTells
  <1>3. CASE Working BY <1>3, WorkingTells
  <1>4. CASE AccountForEffect \/ Close \/ CloseRaises BY <1>4, ClosingTells
  <1>5. CASE \E n \in Calls, approver \in Approvers :
               Approve(n, approver) \/ ApproveFails(n, approver)
    BY <1>5, ApproveTells
  <1>6. CASE Crash BY <1>6, CrashTells
  <1>7. CASE Tick \/ UNCHANGED vars
    <2>1. UNCHANGED <<rows, calls, receipts, approvals, call>>
      BY <1>7 DEF Tick, vars, stores
    <2> QED BY <2>1, TellsKept DEF LifecycleInvariant, Tells
  <1> QED BY <1>1, <1>2, <1>3, <1>4, <1>5, <1>6, <1>7, Zenon DEF Next, Appends, Working

\* The types and the truth of the file together are kept by every step.
LEMMA InvariantAlways == Spec => []LifecycleInvariant
  <1>1. Init => LifecycleInvariant
    <2> SUFFICES ASSUME Init PROVE LifecycleInvariant OBVIOUS
    <2>1. DOMAIN rows = {} BY DEF Init
    <2>2. EndsHeld /\ EffectNeverUnderstated /\ ApprovedOnce
      BY <2>1, Zenon DEF EndsHeld, EffectNeverUnderstated, ApprovedOnce, Approvals
    <2> QED BY <2>2, InitTyped DEF LifecycleInvariant
  <1>2. LifecycleInvariant /\ [Next]_vars => LifecycleInvariant'
    <2> SUFFICES ASSUME LifecycleInvariant, [Next]_vars PROVE LifecycleInvariant'
      OBVIOUS
    <2>1. LifecycleTyped' BY NextTyped DEF LifecycleInvariant
    <2>2. Tells' BY NextTells
    <2> QED BY <2>1, <2>2 DEF LifecycleInvariant, Tells
  <1> QED BY <1>1, <1>2, PTL DEF Spec

\* What is written about an effect never makes it smaller: a closing record
\* (FINAL_STATE_RECORDED) without effects means that the adapter changed nothing for the
\* call, and VERIFIED that it changed exactly what was asked, however the broker, the
\* verifier or an append failed in between.
THEOREM EffectsTold == Spec => []EffectNeverUnderstated
  <1>1. LifecycleInvariant => EffectNeverUnderstated BY DEF LifecycleInvariant
  <1> QED BY <1>1, InvariantAlways, PTL

\* A requirement is approved at most once, inside its interval, and only for a call that
\* changed nothing, however often a receipt whose record failed is offered again
\* (approve_for_reevaluation of engine.py).
THEOREM ApprovalsOnce == Spec => []ApprovedOnce
  <1>1. LifecycleInvariant => ApprovedOnce BY DEF LifecycleInvariant
  <1> QED BY <1>1, InvariantAlways, PTL
=============================================================================

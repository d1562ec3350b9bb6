-------------------------- MODULE SyntheticAdapter --------------------------
(***************************************************************************)
(* The synthetic target adapter (SQLiteSyntheticAdapterStore in            *)
(* stage_a.py): the state of every target and the immutable receipts of    *)
(* the commands that were decided, in one SQLite database.                 *)
(*                                                                         *)
(* execute_once is one BEGIN IMMEDIATE transaction and one action.  Its    *)
(* idempotency key is the digest of the command binding, so the binding    *)
(* itself, a record with the precondition the caller observed, stands for  *)
(* the key.  The attempt identifier is not part of the binding.            *)
(*                                                                         *)
(* A caller observes a target, binds a command to what it saw, and calls   *)
(* execute_once later, perhaps again (Prepare, Execute): other callers'    *)
(* transactions may commit in between.                                     *)
(* A definition commented as a Variant is a plausible mistake in the one   *)
(* below it, used by no action: the README says which property notices it. *)
(***************************************************************************)
EXTENDS Naturals, Sequences, FiniteSets

CONSTANTS
    Requests,         \* (principal_id, request_id) keys
    Tokens,           \* authorization tokens, each part of one binding
    Targets,          \* the target inventory
    Attempts,         \* values of attempt_id
    Fault,            \* the injected fault mode of each target
    MaxTime,          \* bound on timestamps, in whole seconds
    ClockMayStepBack, \* TRUE when the wall clock may be set back
    MaxPrepared,      \* bound on the commands the callers have outstanding
    Null

FaultModes == {"NONE", "FAILED", "PARTIAL", "UNEXPECTED_EFFECT"}

ASSUME AdapterAssumption ==
    /\ MaxTime \in Nat
    /\ MaxPrepared \in Nat
    /\ ClockMayStepBack \in BOOLEAN
    /\ Fault \in [Targets -> FaultModes]
    /\ Null \notin Requests \cup Tokens \cup Targets \cup Attempts

VARIABLES
    targets,  \* table target_states
    receipts, \* table command_receipts in rowid order
    prepared, \* commands some caller has bound to a state it observed
    replies,  \* what execute_once returned, to which call
    now       \* the wall clock attempted_at is taken from

store == <<targets, receipts>>
avars == <<targets, receipts, prepared, replies, now>>

-----------------------------------------------------------------------------
(* Rows.                                                                   *)

Seconds == 0..MaxTime
Actions == {"NETWORK_ISOLATE", "OTHER"}
Statuses == {"APPLIED", "PARTIAL", "AMBIGUOUS", "NO_EFFECT"}

\* state_json, as far as execute_once writes it: last_action_id and the second
\* the isolation expires at (none after a PARTIAL transition).
TargetState == [by : Attempts \cup {Null}, until : Seconds \cup {Null}]
Untouched == [by |-> Null, until |-> Null]
TargetRow == [state : TargetState, updated_at : Seconds]

Command == [request : Requests, token : Tokens, target : Targets,
            action : Actions, precondition : TargetState]
Receipt == [command : Command, attempt : Attempts, status : Statuses,
            before : TargetState, after : TargetState, at : Seconds]

AdapterInit ==
    /\ targets = [g \in Targets |-> [state |-> Untouched, updated_at |-> 0]]
    /\ receipts = <<>>
    /\ prepared = {}
    /\ replies = {}
    /\ now = 0

-----------------------------------------------------------------------------
(* The receipt chain every transaction requires.                           *)

ReceiptsFor(command) == {i \in DOMAIN receipts : receipts[i].command = command}
Earlier(g, n) == {i \in DOMAIN receipts : i < n /\ receipts[i].command.target = g}

\* chained_state_sha256 and chained_updated_at of target g when the scan
\* arrives at the n-th receipt: what the last one before left, or the inventory.
Chained(g, n, state, t) ==
    \/ Earlier(g, n) = {} /\ state = Untouched /\ t = 0
    \/ \E j \in Earlier(g, n) :
          /\ \A i \in Earlier(g, n) : i <= j
          /\ state = receipts[j].after /\ t = receipts[j].at

\* _validate_metadata_and_inventory: per target, the receipts chain from the
\* inventory's state to the current one, in state and in time.
ChainValid(g) ==
    /\ \A i \in DOMAIN receipts :
          receipts[i].command.target = g =>
              \E t \in 0..receipts[i].at : Chained(g, i, receipts[i].before, t)
    /\ Chained(g, Len(receipts) + 1, targets[g].state, targets[g].updated_at)

\* _validated_receipt_row: an effect happened on the state it was decided for.
ReceiptBound(rcpt) ==
    rcpt.status # "NO_EFFECT" => rcpt.before = rcpt.command.precondition

StoreValid ==
    /\ \A g \in Targets : ChainValid(g)
    /\ \A i \in DOMAIN receipts : ReceiptBound(receipts[i])

\* The same as a value: TLC is to evaluate it, not to branch on it.
StoreAccepted == StoreValid = TRUE

-----------------------------------------------------------------------------
(* execute_once                                                            *)

\* Variant: the failure mode is stored where the status belongs.
StatusOfMode(command, before) ==
    IF \/ before # command.precondition
       \/ command.action # "NETWORK_ISOLATE"
    THEN "NO_EFFECT"
    ELSE IF Fault[command.target] = "NONE" THEN "APPLIED" ELSE Fault[command.target]
\* Variant: the precondition is trusted to be what the caller has observed.
StatusOfUnchecked(command, before) ==
    CASE Fault[command.target] = "PARTIAL" -> "PARTIAL"
      [] Fault[command.target] = "UNEXPECTED_EFFECT" -> "AMBIGUOUS"
      [] OTHER -> "APPLIED"
\* The precondition is compared inside the transaction.
StatusOf(command, before) ==
    IF \/ before # command.precondition
       \/ command.action # "NETWORK_ISOLATE"
       \/ Fault[command.target] = "FAILED"
    THEN "NO_EFFECT"
    ELSE CASE Fault[command.target] = "PARTIAL" -> "PARTIAL"
           [] Fault[command.target] = "UNEXPECTED_EFFECT" -> "AMBIGUOUS"
           [] OTHER -> "APPLIED"

\* Variant: last_action_id is not written.
StateAfterUnsigned(status, before, attempt, t) ==
    IF status = "NO_EFFECT" THEN before ELSE [before EXCEPT !.until = t]
StateAfter(status, before, attempt, t) ==
    CASE status = "NO_EFFECT" -> before
      [] status = "PARTIAL" -> [by |-> attempt, until |-> Null]
      [] OTHER -> [by |-> attempt, until |-> t]

ReceiptFor(command, attempt, t) ==
    LET before == targets[command.target].state
        status == StatusOf(command, before)
    IN  [command |-> command, attempt |-> attempt, status |-> status,
         before |-> before, after |-> StateAfter(status, before, attempt, t),
         at |-> t]

\* Variant: every call is answered with a receipt of its own.
AnswerFresh(command, attempt, t) == ReceiptFor(command, attempt, t)
\* The receipt the call is to return: the stored one for a command decided
\* before, whichever attempt repeats it.
Answer(command, attempt, t) ==
    IF ReceiptsFor(command) = {}
    THEN ReceiptFor(command, attempt, t)
    ELSE receipts[CHOOSE i \in ReceiptsFor(command) : TRUE]

\* Variant: only the idempotency key is unique.
RequestUndecidedUnlessKeyed(r) == TRUE
\* A request has one command for good: UNIQUE(principal_id, request_id).
RequestUndecided(r) == \A i \in DOMAIN receipts : receipts[i].command.request # r

\* Variant: the wall clock is taken to be monotone.
MayDecideAnyTime(command, attempt, t) == RequestUndecided(command.request)
\* A new command: refused when the clock stands before the target's history or
\* the effect would leave the state as it is (the receipt's own check).
MayDecide(command, attempt, t) ==
    LET new == ReceiptFor(command, attempt, t) IN
    /\ targets[command.target].updated_at <= t
    /\ new.status # "NO_EFFECT" => new.after # new.before
    /\ RequestUndecided(command.request)

ExecuteOnce(command, attempt, t) ==
    /\ StoreAccepted
    /\ \/ /\ ReceiptsFor(command) # {}
          /\ UNCHANGED store
       \/ /\ ReceiptsFor(command) = {}
          /\ MayDecide(command, attempt, t)
          /\ LET new == ReceiptFor(command, attempt, t) IN
                /\ targets' = [targets EXCEPT ![command.target] =
                                  [state |-> new.after, updated_at |-> t]]
                /\ receipts' = Append(receipts, new)

-----------------------------------------------------------------------------
(* The callers.                                                            *)

\* observe, and the binding of a command to the observed state.
Prepare ==
    /\ Cardinality(prepared) < MaxPrepared
    /\ \E r \in Requests, k \in Tokens, g \in Targets, action \in Actions :
          prepared' = prepared \cup
              {[request |-> r, token |-> k, target |-> g, action |-> action,
                precondition |-> targets[g].state]}
    /\ UNCHANGED <<targets, receipts, replies, now>>

\* Each invocation has a fresh attempt identifier (uuid4 in the broker).
Execute ==
    \E command \in prepared, attempt \in Attempts :
        /\ \A reply \in replies : reply.attempt # attempt
        /\ ExecuteOnce(command, attempt, now)
        /\ replies' = replies \cup
              {[command |-> command, attempt |-> attempt,
                receipt |-> Answer(command, attempt, now)]}
        /\ UNCHANGED <<prepared, now>>

Tick ==
    /\ now' \in Seconds \ {now}
    /\ now' > now \/ ClockMayStepBack
    /\ UNCHANGED <<targets, receipts, prepared, replies>>

AdapterNext == Prepare \/ Execute \/ Tick

AdapterSpec == AdapterInit /\ [][AdapterNext]_avars

-----------------------------------------------------------------------------
(* Properties.                                                             *)

AdapterTypeOK ==
    /\ targets \in [Targets -> TargetRow]
    /\ \A i \in DOMAIN receipts : receipts[i] \in Receipt
    /\ prepared \subseteq Command
    /\ \A reply \in replies :
          reply.command \in Command /\ reply.attempt \in Attempts
              /\ reply.receipt \in Receipt
    /\ now \in Seconds

\* What execute_once commits is what the next transaction accepts as its
\* history, whatever the wall clock did in between.
StoreAcceptsItself == StoreValid

\* Exact replay: every call with one binding is answered with one receipt, and
\* it is the durable one, however many attempts repeat the call and whatever
\* happened to the target since.
ReplayIsExact ==
    \A p \in replies :
        /\ \E i \in DOMAIN receipts : receipts[i] = p.receipt
        /\ \A q \in replies : p.command = q.command => p.receipt = q.receipt

\* An observation is good for one effect: of all the commands bound to the same
\* observed state of a target, at most one changes it (no lost update, no ABA).
ObservationSpentOnce ==
    \A i, j \in DOMAIN receipts :
        /\ receipts[i].status # "NO_EFFECT" /\ receipts[j].status # "NO_EFFECT"
        /\ receipts[i].command.target = receipts[j].command.target
        /\ receipts[i].command.precondition = receipts[j].command.precondition
        => i = j

\* A request changes the world at most once, through whichever token, target or
\* attempt it comes back.
OneEffectPerRequest ==
    \A r \in Requests :
        Cardinality({i \in DOMAIN receipts :
                        /\ receipts[i].command.request = r
                        /\ receipts[i].status # "NO_EFFECT"}) <= 1

\* A target changes only together with the receipt that says so, issued for the
\* state it had; receipts are never rewritten.
EffectsAreReceipted ==
    [][ /\ \A i \in DOMAIN receipts : receipts'[i] = receipts[i]
        /\ \A g \in Targets :
              targets'[g].state # targets[g].state =>
                  \E i \in DOMAIN receipts' \ DOMAIN receipts :
                      /\ receipts'[i].command.target = g
                      /\ receipts'[i].command.precondition = targets[g].state
                      /\ receipts'[i].attempt = targets'[g].state.by ]_avars

=============================================================================

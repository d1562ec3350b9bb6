----------------------- MODULE SyntheticAdapterProofs -----------------------
(***************************************************************************)
(* Theorems about SyntheticAdapter, for every number of callers, tokens,   *)
(* targets and attempts, every fault mode and a clock that may step back.  *)
(***************************************************************************)
EXTENDS SyntheticAdapter, SequenceTheorems, FiniteSetTheorems, TLAPS

HasEffect(i) == receipts[i].status # "NO_EFFECT"

\* UNIQUE(principal_id, request_id).
RequestsUnique ==
    \A i, j \in DOMAIN receipts :
        receipts[i].command.request = receipts[j].command.request => i = j

\* What a caller was told is a durable receipt for its command.
RepliesDurable ==
    \A p \in replies : \E i \in DOMAIN receipts :
        receipts[i] = p.receipt /\ receipts[i].command = p.command

\* Attempts are taken from calls that were answered.
AttemptsAnswered ==
    \A i \in DOMAIN receipts : \E p \in replies : p.attempt = receipts[i].attempt

\* A state other than the inventory's was signed by the attempt of a receipt.
Signed(state) ==
    state.by = Null \/ \E i \in DOMAIN receipts : receipts[i].attempt = state.by
StatesSigned ==
    /\ \A g \in Targets : Signed(targets[g].state)
    /\ \A i \in DOMAIN receipts : Signed(receipts[i].before)

\* A state that was acted upon is not the state of its target any more.
ObservationsOutdated ==
    \A i \in DOMAIN receipts :
        HasEffect(i) => targets[receipts[i].command.target].state # receipts[i].before

AdapterInvariant ==
    /\ AdapterTypeOK
    /\ receipts \in Seq(Receipt)
    /\ StoreValid
    /\ RequestsUnique
    /\ RepliesDurable
    /\ AttemptsAnswered
    /\ StatesSigned
    /\ ObservationsOutdated
    /\ ObservationSpentOnce

-----------------------------------------------------------------------------
\* The inventory, as it is created, satisfies the invariant.
LEMMA InvariantInit == AdapterInit => AdapterInvariant
<1> SUFFICES ASSUME AdapterInit PROVE AdapterInvariant
  OBVIOUS
<1> USE AdapterAssumption DEF AdapterInit
<1>1. receipts \in Seq(Receipt) /\ DOMAIN receipts = {} /\ Len(receipts) = 0
  OBVIOUS
<1>2. 0 \in Seconds
  BY DEF Seconds
<1>3. Untouched \in TargetState
  BY DEF Untouched, TargetState
<1>4. AdapterTypeOK
  BY <1>1, <1>2, <1>3 DEF AdapterTypeOK, TargetRow
<1>5. \A g \in Targets : Chained(g, 1, Untouched, 0)
  BY <1>1 DEF Chained, Earlier
<1>6. StoreValid
  BY <1>1, <1>5 DEF StoreValid, ChainValid
<1>7. StatesSigned
  BY <1>1 DEF StatesSigned, Signed, Untouched
<1> QED
  BY <1>1, <1>4, <1>6, <1>7 DEF AdapterInvariant, RequestsUnique, RepliesDurable,
     AttemptsAnswered, ObservationsOutdated, ObservationSpentOnce

\* A receipt is well formed, names its command, and is decided on the target's
\* own state; one with an effect is for the state its command was bound to and
\* leaves a state signed by its attempt.
LEMMA ReceiptForProperties ==
  ASSUME AdapterTypeOK, NEW command \in Command, NEW attempt \in Attempts
  PROVE  LET new == ReceiptFor(command, attempt, now) IN
         /\ new \in Receipt
         /\ new.command = command /\ new.attempt = attempt /\ new.at = now
         /\ new.before = targets[command.target].state
         /\ new.status # "NO_EFFECT" =>
              new.before = command.precondition /\ new.after.by = attempt
         /\ new.status = "NO_EFFECT" => new.after = new.before
<1> DEFINE before == targets[command.target].state
           status == StatusOf(command, before)
           after == StateAfter(status, before, attempt, now)
<1>1. before \in TargetState /\ now \in Seconds
  BY DEF AdapterTypeOK, TargetRow, Command
<1>2. status \in Statuses /\ (status # "NO_EFFECT" => before = command.precondition)
  BY DEF StatusOf, Statuses
<1>3. /\ after \in TargetState
      /\ status # "NO_EFFECT" => after.by = attempt
      /\ status = "NO_EFFECT" => after = before
  BY <1>1, <1>2 DEF StateAfter, TargetState, Statuses
<1>4. ReceiptFor(command, attempt, now) =
         [command |-> command, attempt |-> attempt, status |-> status,
          before |-> before, after |-> after, at |-> now]
  BY DEF ReceiptFor
<1> QED
  BY <1>1, <1>2, <1>3, <1>4 DEF Receipt

-----------------------------------------------------------------------------
\* A transaction that decides a new command.
LEMMA NewReceipt ==
  ASSUME AdapterInvariant, NEW command \in prepared, NEW attempt \in Attempts,
         \A reply \in replies : reply.attempt # attempt,
         ReceiptsFor(command) = {}, MayDecide(command, attempt, now),
         LET new == ReceiptFor(command, attempt, now) IN
            /\ targets' = [targets EXCEPT ![command.target] =
                              [state |-> new.after, updated_at |-> now]]
            /\ receipts' = Append(receipts, new)
            /\ replies' = replies \cup
                 {[command |-> command, attempt |-> attempt,
                   receipt |-> Answer(command, attempt, now)]},
         UNCHANGED <<prepared, now>>
  PROVE  AdapterInvariant'
<1> PICK new : new = ReceiptFor(command, attempt, now)
  OBVIOUS
<1> PICK n : n = Len(receipts)
  OBVIOUS
<1> DEFINE g0 == command.target
           answer == [command |-> command, attempt |-> attempt, receipt |-> new]
<1> USE AdapterAssumption
<1>1. AdapterTypeOK /\ receipts \in Seq(Receipt) /\ command \in Command /\ g0 \in Targets
  BY DEF AdapterInvariant, AdapterTypeOK, Command
<1>2. /\ new \in Receipt
      /\ new.command = command /\ new.attempt = attempt /\ new.at = now
      /\ new.before = targets[g0].state
      /\ new.status # "NO_EFFECT" =>
           new.before = command.precondition /\ new.after.by = attempt
      /\ new.status = "NO_EFFECT" => new.after = new.before
  BY <1>1, ReceiptForProperties
<1>3. /\ targets' = [targets EXCEPT ![g0] = [state |-> new.after, updated_at |-> now]]
      /\ receipts' = Append(receipts, new)
      /\ replies' = replies \cup {answer}
  BY DEF Answer
<1>4. /\ n \in Nat /\ DOMAIN receipts = 1..n
      /\ receipts' \in Seq(Receipt) /\ Len(receipts') = n + 1 /\ DOMAIN receipts' = 1..(n+1)
      /\ \A i \in 1..n : receipts'[i] = receipts[i]
      /\ receipts'[n+1] = new
  BY <1>1, <1>2, <1>3
<1>5. \A i \in 1..n : receipts[i] \in Receipt
  BY <1>1, <1>4
<1>6. /\ targets[g0].updated_at <= now
      /\ new.status # "NO_EFFECT" => new.after # new.before
      /\ \A i \in 1..n : receipts[i].command.request # command.request
  BY <1>4 DEF MayDecide, RequestUndecided
<1>7. /\ targets'[g0] = [state |-> new.after, updated_at |-> now]
      /\ \A g \in Targets : g # g0 => targets'[g] = targets[g]
      /\ targets' \in [Targets -> TargetRow]
  <2>1. [state |-> new.after, updated_at |-> now] \in TargetRow
    BY <1>1, <1>2 DEF TargetRow, Receipt, AdapterTypeOK
  <2> QED
    BY <1>1, <1>3, <2>1 DEF AdapterTypeOK
<1>8. AdapterTypeOK'
  <2>1. \A reply \in replies' : /\ reply.command \in Command /\ reply.attempt \in Attempts
                                /\ reply.receipt \in Receipt
    BY <1>1, <1>2, <1>3 DEF AdapterTypeOK
  <2>2. \A i \in DOMAIN receipts' : receipts'[i] \in Receipt
    BY <1>4
  <2> QED
    BY <1>1, <1>7, <2>1, <2>2 DEF AdapterTypeOK
<1>9. StoreValid'
  <2>1. \A g \in Targets, i \in 1..(n+1) : Earlier(g, i)' = Earlier(g, i)
    BY <1>4 DEF Earlier
  <2>2. ASSUME NEW g \in Targets, NEW i \in 1..(n+1), NEW state, NEW t, Chained(g, i, state, t)
        PROVE  Chained(g, i, state, t)'
    <3>1. \A j \in Earlier(g, i) : receipts'[j] = receipts[j]
      BY <1>4 DEF Earlier
    <3> QED
      BY <2>1, <2>2, <3>1 DEF Chained
  <2>3. ASSUME NEW g \in Targets, NEW i \in 1..(n+1), receipts'[i].command.target = g
        PROVE  \E t \in 0..receipts'[i].at : Chained(g, i, receipts[i].before, t)'
    <3>1. CASE i \in 1..n
      <4>1. PICK t \in 0..receipts[i].at : Chained(g, i, receipts[i].before, t)
        BY <1>4, <2>3, <3>1 DEF AdapterInvariant, StoreValid, ChainValid
      <4>2. receipts'[i] = receipts[i]
        BY <1>4, <3>1
      <4>3. PICK before : before = receipts[i].before
        OBVIOUS
      <4>4. Chained(g, i, before, t)'
        BY <2>2, <4>1, <4>3
      <4> QED
        BY <4>1, <4>2, <4>3, <4>4 DEF Chained
    <3>2. CASE i = n + 1
      <4>1. g = g0 /\ receipts'[i].before = targets[g].state /\ receipts'[i].at = now
        BY <1>2, <1>4, <2>3, <3>2
      <4>2. PICK state, t : state = targets[g].state /\ t = targets[g].updated_at
        OBVIOUS
      <4>3. Chained(g, i, state, t)
        BY <3>2, <4>2 DEF AdapterInvariant, StoreValid, ChainValid
      <4>4. Chained(g, i, state, t)'
        BY <2>2, <4>3
      <4>5. t \in 0..receipts'[i].at
        BY <1>1, <1>6, <4>1, <4>2 DEF AdapterTypeOK, TargetRow, Seconds
      <4> QED
        BY <4>1, <4>2, <4>4, <4>5 DEF Chained
    <3> QED
      BY <1>4, <3>1, <3>2
  <2>4. ASSUME NEW g \in Targets
        PROVE  Chained(g, n + 2, targets[g].state, targets[g].updated_at)'
    <3>1. CASE g = g0
      <4>1. n + 1 \in Earlier(g, n + 2)' /\ \A j \in Earlier(g, n + 2)' : j <= n + 1
        BY <1>2, <1>4, <3>1 DEF Earlier
      <4>2. targets'[g].state = receipts'[n+1].after /\ targets'[g].updated_at = receipts'[n+1].at
        BY <1>2, <1>4, <1>7, <3>1
      <4> QED
        BY <4>1, <4>2 DEF Chained
    <3>2. CASE g # g0
      <4>1. Earlier(g, n + 2)' = Earlier(g, n + 1)'
        BY <1>2, <1>4, <3>2 DEF Earlier
      <4>2. PICK state, t : state = targets[g].state /\ t = targets[g].updated_at
        OBVIOUS
      <4>3. Chained(g, n + 1, state, t)
        BY <4>2 DEF AdapterInvariant, StoreValid, ChainValid
      <4>4. Chained(g, n + 1, state, t)'
        BY <1>4, <2>2, <4>3, SMTT(30)
      <4>5. targets'[g].state = state /\ targets'[g].updated_at = t
        BY <1>7, <3>2, <4>2
      <4> QED
        BY <4>1, <4>4, <4>5 DEF Chained
    <3> QED
      BY <3>1, <3>2
  <2>5. \A i \in 1..(n+1) : ReceiptBound(receipts'[i])
    <3>1. \A i \in 1..n : ReceiptBound(receipts[i])
      BY <1>4 DEF AdapterInvariant, StoreValid
    <3> QED
      BY <1>2, <1>4, <3>1 DEF ReceiptBound
  <2>6. \A g \in Targets : ChainValid(g)'
    BY <1>4, <2>3, <2>4 DEF ChainValid
  <2> QED
    BY <1>4, <2>5, <2>6 DEF StoreValid
<1>10. RequestsUnique'
  BY <1>2, <1>4, <1>6 DEF AdapterInvariant, RequestsUnique
<1>11. RepliesDurable'
  <2>1. \A i \in DOMAIN receipts : i \in DOMAIN receipts' /\ receipts'[i] = receipts[i]
    BY <1>4
  <2>2. \A p \in replies' : p \in replies \/ p = answer
    BY <1>3
  <2>3. \A p \in replies : \E i \in DOMAIN receipts :
           receipts[i] = p.receipt /\ receipts[i].command = p.command
    BY DEF AdapterInvariant, RepliesDurable
  <2>4. n + 1 \in DOMAIN receipts' /\ receipts'[n+1] = answer.receipt
        /\ receipts'[n+1].command = answer.command
    BY <1>2, <1>4
  <2> SUFFICES ASSUME NEW p \in replies'
               PROVE  \E i \in DOMAIN receipts' :
                        receipts'[i] = p.receipt /\ receipts'[i].command = p.command
    BY DEF RepliesDurable
  <2>5. CASE p \in replies
    BY <2>1, <2>3, <2>5
  <2>6. CASE p = answer
    BY <2>4, <2>6
  <2> QED
    BY <2>2, <2>5, <2>6
<1>12. AttemptsAnswered'
  <2>1. ASSUME NEW i \in 1..(n+1) PROVE \E p \in replies' : p.attempt = receipts'[i].attempt
    <3>1. CASE i \in 1..n
      BY <1>3, <1>4, <3>1 DEF AdapterInvariant, AttemptsAnswered
    <3>2. CASE i = n + 1
      <4>1. answer \in replies' /\ answer.attempt = attempt
        BY <1>3
      <4> QED
        BY <1>2, <1>4, <3>2, <4>1
    <3> QED
      BY <1>4, <3>1, <3>2
  <2> QED
    BY <1>4, <2>1 DEF AttemptsAnswered
<1>13. \A state : Signed(state) => Signed(state)'
  BY <1>4 DEF Signed
<1>14. StatesSigned'
  <2>1. Signed(new.before)'
    BY <1>1, <1>2, <1>13 DEF AdapterInvariant, StatesSigned
  <2>2. Signed(new.after)'
    <3>1. CASE new.status = "NO_EFFECT"
      BY <1>2, <2>1, <3>1
    <3>2. CASE new.status # "NO_EFFECT"
      BY <1>2, <1>4, <3>2 DEF Signed
    <3> QED
      BY <3>1, <3>2
  <2>3. ASSUME NEW g \in Targets PROVE Signed(targets[g].state)'
    <3>1. CASE g = g0
      BY <1>7, <2>2, <3>1 DEF Signed
    <3>2. CASE g # g0
      <4>1. PICK state : state = targets[g].state
        OBVIOUS
      <4>2. Signed(state)'
        BY <1>13, <4>1 DEF AdapterInvariant, StatesSigned
      <4> QED
        BY <1>7, <3>2, <4>1, <4>2 DEF Signed
    <3> QED
      BY <3>1, <3>2
  <2>4. ASSUME NEW i \in 1..(n+1) PROVE Signed(receipts[i].before)'
    <3>1. CASE i = n + 1
      BY <1>4, <2>1, <3>1 DEF Signed
    <3>2. CASE i \in 1..n
      <4>1. PICK state : state = receipts[i].before
        OBVIOUS
      <4>2. Signed(state)'
        BY <1>4, <1>13, <3>2, <4>1 DEF AdapterInvariant, StatesSigned
      <4> QED
        BY <1>4, <3>2, <4>1, <4>2 DEF Signed
    <3> QED
      BY <1>4, <3>1, <3>2
  <2> QED
    BY <1>4, <2>3, <2>4 DEF StatesSigned
<1>15. \A i \in 1..n : new.status # "NO_EFFECT" => receipts[i].before # new.after
  <2>1. attempt # Null
    OBVIOUS
  <2>2. \A i \in 1..n : receipts[i].attempt # attempt
    BY <1>4 DEF AdapterInvariant, AttemptsAnswered
  <2> QED
    BY <1>2, <1>4, <2>1, <2>2 DEF AdapterInvariant, StatesSigned, Signed
<1>16. \A i \in 1..n : HasEffect(i) /\ receipts[i].command.target = g0
                         => receipts[i].before # targets[g0].state
  BY <1>4 DEF AdapterInvariant, ObservationsOutdated
<1>17. \A i \in 1..n : receipts[i].command.target \in Targets
  BY <1>5 DEF Receipt, Command
<1>18. ObservationsOutdated'
  <2> SUFFICES ASSUME NEW i \in 1..(n+1), receipts'[i].status # "NO_EFFECT"
               PROVE  targets'[receipts'[i].command.target].state # receipts'[i].before
    BY <1>4 DEF ObservationsOutdated, HasEffect
  <2>1. CASE i = n + 1
    BY <1>2, <1>4, <1>6, <1>7, <2>1
  <2>2. CASE i \in 1..n /\ receipts[i].command.target # g0
    BY <1>4, <1>7, <1>17, <2>2 DEF AdapterInvariant, ObservationsOutdated, HasEffect
  <2>3. CASE i \in 1..n /\ receipts[i].command.target = g0
    <3>1. targets'[g0].state = new.after
      BY <1>7
    <3>2. CASE new.status = "NO_EFFECT"
      BY <1>2, <1>4, <1>16, <2>3, <3>1, <3>2 DEF HasEffect
    <3>3. CASE new.status # "NO_EFFECT"
      BY <1>4, <1>15, <2>3, <3>1, <3>3
    <3> QED
      BY <3>2, <3>3
  <2> QED
    BY <1>4, <2>1, <2>2, <2>3
<1>19. ObservationSpentOnce'
  <2>1. \A i \in 1..n : HasEffect(i) => receipts[i].before = receipts[i].command.precondition
    BY <1>4 DEF AdapterInvariant, StoreValid, ReceiptBound, HasEffect
  <2>2. \A i \in 1..n :
          ~ /\ HasEffect(i) /\ new.status # "NO_EFFECT"
            /\ receipts[i].command.target = g0
            /\ receipts[i].command.precondition = command.precondition
    BY <1>2, <1>16, <2>1
  <2>3. \A i, j \in 1..n :
          /\ HasEffect(i) /\ HasEffect(j)
          /\ receipts[i].command.target = receipts[j].command.target
          /\ receipts[i].command.precondition = receipts[j].command.precondition
          => i = j
    BY <1>4 DEF AdapterInvariant, ObservationSpentOnce, HasEffect
  <2> QED
    BY <1>2, <1>4, <2>2, <2>3 DEF ObservationSpentOnce, HasEffect
<1> QED
  BY <1>4, <1>8, <1>9, <1>10, <1>11, <1>12, <1>14, <1>18, <1>19 DEF AdapterInvariant

\* What is said of the two tables alone survives as long as they do.
LEMMA TablesUntouched ==
  ASSUME AdapterInvariant, UNCHANGED <<targets, receipts>>
  PROVE  /\ (receipts \in Seq(Receipt))' /\ StoreValid' /\ RequestsUnique' /\ StatesSigned'
         /\ ObservationsOutdated' /\ ObservationSpentOnce'
<1>1. ASSUME NEW g \in Targets PROVE ChainValid(g)'
  <2>1. \A n : Earlier(g, n)' = Earlier(g, n)
    BY DEF Earlier
  <2>2. \A n, state, t : Chained(g, n, state, t) => Chained(g, n, state, t)'
    BY <2>1 DEF Chained
  <2>3. ChainValid(g)
    BY DEF AdapterInvariant, StoreValid
  <2> QED
    BY <2>2, <2>3 DEF ChainValid
<1>2. StoreValid'
  BY <1>1 DEF AdapterInvariant, StoreValid
<1>3. (receipts \in Seq(Receipt))' /\ RequestsUnique'
  BY DEF AdapterInvariant, RequestsUnique
<1>4. StatesSigned'
  BY DEF AdapterInvariant, StatesSigned, Signed
<1>5. ObservationsOutdated' /\ ObservationSpentOnce'
  BY DEF AdapterInvariant, ObservationsOutdated, ObservationSpentOnce, HasEffect
<1> QED
  BY <1>2, <1>3, <1>4, <1>5

\* A repeat of a decided command: only the callers' knowledge grows.
LEMMA RepeatedReceipt ==
  ASSUME AdapterInvariant, NEW command \in prepared, NEW attempt \in Attempts,
         ReceiptsFor(command) # {},
         UNCHANGED <<targets, receipts, prepared, now>>,
         replies' = replies \cup
           {[command |-> command, attempt |-> attempt,
             receipt |-> Answer(command, attempt, now)]}
  PROVE  AdapterInvariant'
<1>1. PICK k \in DOMAIN receipts :
        receipts[k].command = command /\ Answer(command, attempt, now) = receipts[k]
  BY DEF Answer, ReceiptsFor
<1>2. receipts[k] \in Receipt /\ command \in Command
  BY DEF AdapterInvariant, AdapterTypeOK
<1> DEFINE answer == [command |-> command, attempt |-> attempt, receipt |-> receipts[k]]
<1>3. replies' = replies \cup {answer}
  BY <1>1
<1>4. AdapterTypeOK'
  <2>1. \A reply \in replies' : /\ reply.command \in Command /\ reply.attempt \in Attempts
                                /\ reply.receipt \in Receipt
    BY <1>2, <1>3 DEF AdapterInvariant, AdapterTypeOK
  <2> QED
    BY <2>1 DEF AdapterInvariant, AdapterTypeOK
<1>5. RepliesDurable'
  BY <1>1, <1>3 DEF AdapterInvariant, RepliesDurable
<1>6. AttemptsAnswered'
  BY <1>3 DEF AdapterInvariant, AttemptsAnswered
<1> QED
  BY <1>4, <1>5, <1>6, TablesUntouched DEF AdapterInvariant

\* The store and the replies untouched, the rest of the invariant is about types.
LEMMA StoreUntouched ==
  ASSUME AdapterInvariant, UNCHANGED <<targets, receipts, replies>>, AdapterTypeOK'
  PROVE  AdapterInvariant'
BY TablesUntouched DEF AdapterInvariant, RepliesDurable, AttemptsAnswered

\* The invariant is inductive.
LEMMA InvariantNext == AdapterInvariant /\ [AdapterNext]_avars => AdapterInvariant'
<1> SUFFICES ASSUME AdapterInvariant, [AdapterNext]_avars PROVE AdapterInvariant'
  OBVIOUS
<1>1. CASE Prepare
  <2>1. AdapterTypeOK'
    BY <1>1 DEF Prepare, AdapterInvariant, AdapterTypeOK, Command, TargetRow
  <2> QED
    BY <1>1, <2>1, StoreUntouched DEF Prepare
<1>2. CASE Execute
  <2>1. PICK command \in prepared, attempt \in Attempts :
          /\ \A reply \in replies : reply.attempt # attempt
          /\ ExecuteOnce(command, attempt, now)
          /\ replies' = replies \cup
               {[command |-> command, attempt |-> attempt,
                 receipt |-> Answer(command, attempt, now)]}
          /\ UNCHANGED <<prepared, now>>
    BY <1>2 DEF Execute
  <2>2. CASE ReceiptsFor(command) # {}
    BY <2>1, <2>2, RepeatedReceipt DEF ExecuteOnce, store
  <2>3. CASE ReceiptsFor(command) = {}
    BY <2>1, <2>3, NewReceipt DEF ExecuteOnce
  <2> QED
    BY <2>2, <2>3
<1>3. CASE Tick
  <2>1. AdapterTypeOK'
    BY <1>3 DEF Tick, AdapterInvariant, AdapterTypeOK
  <2> QED
    BY <1>3, <2>1, StoreUntouched DEF Tick
<1>4. CASE UNCHANGED avars
  <2>1. AdapterTypeOK'
    BY <1>4 DEF avars, AdapterInvariant, AdapterTypeOK
  <2> QED
    BY <1>4, <2>1, StoreUntouched DEF avars
<1> QED
  BY <1>1, <1>2, <1>3, <1>4 DEF AdapterNext

\* Every reachable state satisfies the invariant.
LEMMA InvariantAlways == AdapterSpec => []AdapterInvariant
<1> QED
  BY InvariantInit, InvariantNext, PTL DEF AdapterSpec

-----------------------------------------------------------------------------
\* The two tables and what callers hold are well formed (the schema and
\* _validated_receipt_row, _validate_target_state).
THEOREM AdapterTypeCorrect == AdapterSpec => []AdapterTypeOK
<1>1. AdapterInvariant => AdapterTypeOK
  BY DEF AdapterInvariant
<1> QED
  BY <1>1, InvariantAlways, PTL

\* No order of execute_once calls under any clock leaves a history that the
\* next transaction's _validate_metadata_and_inventory rejects.
THEOREM StoreNeverLocksItself == AdapterSpec => []StoreAcceptsItself
<1>1. AdapterInvariant => StoreAcceptsItself
  BY DEF AdapterInvariant, StoreAcceptsItself
<1> QED
  BY <1>1, InvariantAlways, PTL

\* A command bound to one observed state changes the target for one caller
\* only (the precondition compared inside execute_once's transaction).
THEOREM ObservationsSpentOnce == AdapterSpec => []ObservationSpentOnce
<1>1. AdapterInvariant => ObservationSpentOnce
  BY DEF AdapterInvariant
<1> QED
  BY <1>1, InvariantAlways, PTL

\* Repeating execute_once returns the stored receipt, whichever attempt asks.
THEOREM ReplaysExact == AdapterSpec => []ReplayIsExact
<1>1. ASSUME AdapterInvariant, NEW p \in replies, NEW q \in replies, p.command = q.command
      PROVE  p.receipt = q.receipt
  <2>1. PICK i \in DOMAIN receipts : receipts[i] = p.receipt /\ receipts[i].command = p.command
    BY <1>1 DEF AdapterInvariant, RepliesDurable
  <2>2. PICK j \in DOMAIN receipts : receipts[j] = q.receipt /\ receipts[j].command = q.command
    BY <1>1 DEF AdapterInvariant, RepliesDurable
  <2>3. i = j
    BY <1>1, <2>1, <2>2 DEF AdapterInvariant, RequestsUnique
  <2> QED
    BY <2>1, <2>2, <2>3
<1>2. AdapterInvariant => ReplayIsExact
  BY <1>1 DEF ReplayIsExact, AdapterInvariant, RepliesDurable
<1> QED
  BY <1>2, InvariantAlways, PTL

\* A request has at most one effect, by whichever token, target or attempt it
\* comes back (UNIQUE(principal_id, request_id) of command_receipts).
THEOREM RequestsActOnce == AdapterSpec => []OneEffectPerRequest
<1>1. ASSUME AdapterInvariant, NEW r \in Requests
      PROVE  Cardinality({i \in DOMAIN receipts :
                 receipts[i].command.request = r /\ receipts[i].status # "NO_EFFECT"}) <= 1
  <2> DEFINE S == {i \in DOMAIN receipts :
                     receipts[i].command.request = r /\ receipts[i].status # "NO_EFFECT"}
  <2>1. \A i, j \in S : i = j
    BY <1>1 DEF AdapterInvariant, RequestsUnique
  <2> HIDE DEF S
  <2>2. Cardinality(S) <= 1
    <3>1. CASE S = {}
      BY <3>1, FS_EmptySet
    <3>2. CASE S # {}
      <4>1. PICK i : S = {i}
        BY <2>1, <3>2
      <4>2. Cardinality({i}) = 1
        BY FS_Singleton
      <4> QED
        BY <4>1, <4>2
    <3> QED
      BY <3>1, <3>2
  <2> QED
    BY <2>2 DEF S
<1>2. AdapterInvariant => OneEffectPerRequest
  BY <1>1 DEF OneEffectPerRequest
<1> QED
  BY <1>2, InvariantAlways, PTL

\* A target's row changes only in the transaction that appends the receipt
\* for it, signed by that attempt, and no receipt is ever rewritten.
THEOREM EffectsAlwaysReceipted == AdapterSpec => EffectsAreReceipted
<1> DEFINE Receipted ==
      /\ \A i \in DOMAIN receipts : receipts'[i] = receipts[i]
      /\ \A g \in Targets :
            targets'[g].state # targets[g].state =>
              \E i \in DOMAIN receipts' \ DOMAIN receipts :
                 /\ receipts'[i].command.target = g
                 /\ receipts'[i].command.precondition = targets[g].state
                 /\ receipts'[i].attempt = targets'[g].state.by
<1>1. AdapterInvariant /\ [AdapterNext]_avars => [Receipted]_avars
  <2> SUFFICES ASSUME AdapterInvariant, AdapterNext PROVE Receipted
    OBVIOUS
  <2>1. CASE UNCHANGED <<targets, receipts>>
    BY <2>1
  <2>2. ASSUME NEW command \in prepared, NEW attempt \in Attempts,
               ExecuteOnce(command, attempt, now), ReceiptsFor(command) = {}
        PROVE  Receipted
    <3> PICK new : new = ReceiptFor(command, attempt, now)
      OBVIOUS
    <3> PICK n : n = Len(receipts)
      OBVIOUS
    <3>1. command \in Command /\ receipts \in Seq(Receipt) /\ AdapterTypeOK
      BY DEF AdapterInvariant, AdapterTypeOK
    <3>2. /\ new \in Receipt
          /\ new.command = command /\ new.attempt = attempt
          /\ new.before = targets[command.target].state
          /\ new.status # "NO_EFFECT" =>
               new.before = command.precondition /\ new.after.by = attempt
          /\ new.status = "NO_EFFECT" => new.after = new.before
      BY <3>1, ReceiptForProperties
    <3>3. /\ targets' = [targets EXCEPT ![command.target] =
                            [state |-> new.after, updated_at |-> now]]
          /\ receipts' = Append(receipts, new)
      BY <2>2 DEF ExecuteOnce
    <3>4. /\ n \in Nat /\ DOMAIN receipts = 1..n /\ DOMAIN receipts' = 1..(n+1)
          /\ \A i \in 1..n : receipts'[i] = receipts[i]
          /\ receipts'[n+1] = new
      BY <3>1, <3>2, <3>3
    <3>5. ASSUME NEW g \in Targets, targets'[g].state # targets[g].state
          PROVE  /\ new.command.target = g
                 /\ new.command.precondition = targets[g].state
                 /\ new.attempt = targets'[g].state.by
      <4>1. g = command.target
        BY <3>1, <3>3, <3>5 DEF AdapterTypeOK
      <4>2. targets'[g].state = new.after
        BY <3>1, <3>3, <4>1 DEF AdapterTypeOK
      <4>3. new.status # "NO_EFFECT"
        BY <3>2, <3>5, <4>1, <4>2
      <4> QED
        BY <3>2, <4>1, <4>2, <4>3
    <3>6. n + 1 \in DOMAIN receipts' \ DOMAIN receipts
      BY <3>4
    <3> QED
      BY <3>4, <3>5, <3>6
  <2>3. CASE Execute
    <3>1. PICK command \in prepared, attempt \in Attempts : ExecuteOnce(command, attempt, now)
      BY <2>3 DEF Execute
    <3>2. CASE ReceiptsFor(command) = {}
      BY <2>2, <3>1, <3>2
    <3>3. CASE ReceiptsFor(command) # {}
      BY <2>1, <3>1, <3>3 DEF ExecuteOnce, store
    <3> QED
      BY <3>2, <3>3
  <2>4. CASE Prepare \/ Tick
    BY <2>1, <2>4 DEF Prepare, Tick
  <2> QED
    BY <2>3, <2>4 DEF AdapterNext
<1> QED
  BY <1>1, InvariantAlways, PTL DEF AdapterSpec, EffectsAreReceipted

=============================================================================

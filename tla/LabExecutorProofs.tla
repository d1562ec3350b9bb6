------------------------- MODULE LabExecutorProofs --------------------------
(***************************************************************************)
(* Theorems about LabExecutor, for every number of clients, executors and  *)
(* keys, any size of the journal and any number of kills and recoveries.   *)
(***************************************************************************)
EXTENDS LabExecutor, TLAPS

\* The places between a reservation and its completion.
Working == {"reserved", "ready", "decided"}

-----------------------------------------------------------------------------
(* Types, sharper than LabTypeOK: who works holds a command, who answers a *)
(* receipt, and completions alone carry one.                               *)

GoodExecs ==
    {s \in ExecutorStates :
        /\ s.pc \notin {"gone", "listening"} => s.cmd \in Commands
        /\ s.pc \in {"decided", "replying"} => s.out \in Receipts}
GoodClients ==
    {s \in ClientStates :
        /\ s.pc \in {"waiting", "connected"} => s.cmd \in Commands
        /\ s.to # Null => s.pc = "connected"}
GoodRecords ==
    {r \in Records : IF r.kind = "COMPLETION" THEN r.receipt \in Receipts
                     ELSE r.receipt = Null}
Effects == [cmd : Commands, on : Rulesets]

Typed ==
    /\ journal \in Seq(GoodRecords) /\ Len(journal) <= MaxRecords
    /\ torn \in BOOLEAN
    /\ sock \in Executors \cup {Null}
    /\ exec \in [Executors -> GoodExecs]
    /\ client \in [Clients -> GoodClients]
    /\ file \in [Clients -> Commands \cup {Null, Torn}]
    /\ signed \in [Clients -> 0..MaxRuns]
    /\ rules \in Rulesets
    /\ effects \in Seq(Effects)
    /\ replies \subseteq Receipts
    /\ now \in 0..MaxTime /\ faults \in 0..MaxFaults

\* The sharper types imply the type invariant the runs check.
LEMMA TypedSuffices == Typed => LabTypeOK
<1> SUFFICES ASSUME Typed PROVE LabTypeOK
  OBVIOUS
<1>1. journal \in Seq(Records)
  <2>1. GoodRecords \subseteq Records
    BY DEF GoodRecords
  <2> QED
    BY <2>1 DEF Typed
<1>2. exec \in [Executors -> ExecutorStates]
  BY DEF Typed, GoodExecs
<1>3. client \in [Clients -> ClientStates]
  BY DEF Typed, GoodClients
<1> QED
  BY <1>1, <1>2, <1>3 DEF Typed, LabTypeOK, Effects

\* The two places a process starts from.
LEMMA RestingTyped ==
  /\ Gone \in GoodExecs /\ Gone.pc = "gone"
  /\ [Gone EXCEPT !.pc = "listening"] \in GoodExecs
  /\ NotRunning \in GoodClients
BY LabAssumption DEF Gone, GoodExecs, ExecutorStates, NotRunning, GoodClients, ClientStates

\* A receipt made for a command is well formed and names it.
LEMMA ReceiptForTyped ==
  ASSUME NEW cmd \in Commands, NEW outcome \in Outcomes,
         NEW post \in Rulesets \cup {Null}, NEW at \in 0..MaxTime
  PROVE  /\ ReceiptFor(cmd, outcome, post, at) \in Receipts
         /\ ReceiptFor(cmd, outcome, post, at).cmd = cmd
         /\ ReceiptFor(cmd, outcome, post, at).outcome = outcome
BY DEF ReceiptFor, Receipts, Rulesets

\* What Typed says of one executor.
LEMMA ExecutorTyped ==
  ASSUME Typed, NEW e \in Executors
  PROVE  /\ exec[e] \in ExecutorStates
         /\ exec[e].at \in 0..MaxTime
         /\ exec[e].pc \notin {"gone", "listening"} => exec[e].cmd \in Commands
         /\ exec[e].pc \in {"decided", "replying"} => exec[e].out \in Receipts
BY DEF Typed, GoodExecs, ExecutorStates

\* The stored receipt of a completed key is one of its completion rows.
LEMMA StoredIsThere ==
  ASSUME Typed, NEW key, Completed(key)
  PROVE  \E i \in DOMAIN journal :
            /\ journal[i].kind = "COMPLETION" /\ journal[i].cmd.key = key
            /\ StoredReceipt(key) = journal[i].receipt
            /\ StoredReceipt(key) \in Receipts
<1> DEFINE i == CHOOSE i \in RowsOf(key, "COMPLETION") : TRUE
<1>1. i \in RowsOf(key, "COMPLETION")
  BY DEF Completed
<1>2. i \in DOMAIN journal /\ journal[i].kind = "COMPLETION" /\ journal[i].cmd.key = key
  BY <1>1 DEF RowsOf
<1>3. journal[i] \in GoodRecords
  BY <1>2 DEF Typed
<1>4. StoredReceipt(key) = journal[i].receipt
  BY DEF StoredReceipt
<1> QED
  BY <1>2, <1>3, <1>4 DEF GoodRecords

\* Appending a record keeps what was there and adds one row.
LEMMA Appended ==
  ASSUME Typed, NEW r \in GoodRecords, journal' = Append(journal, r)
  PROVE  /\ journal' \in Seq(GoodRecords) /\ Len(journal') = Len(journal) + 1
         /\ Len(journal) \in Nat /\ DOMAIN journal = 1..Len(journal)
         /\ DOMAIN journal' = 1..(Len(journal) + 1)
         /\ \A i \in DOMAIN journal : journal'[i] = journal[i]
         /\ journal'[Len(journal) + 1] = r
BY DEF Typed

-----------------------------------------------------------------------------
(* Every step keeps the types.                                             *)

\* The variables no step of an executor's handler writes.
LEMMA HeldTyped ==
  ASSUME Typed, Held, journal' = journal, torn' = torn, replies' \subseteq Receipts,
         sock' \in Executors \cup {Null}, exec' \in [Executors -> GoodExecs],
         client' \in [Clients -> GoodClients]
  PROVE  Typed'
BY DEF Typed, Held

\* A process that ends, by an exception or killed, and its clients with it.
LEMMA EndTyped ==
  ASSUME Typed, NEW e \in Executors
  PROVE  /\ [exec EXCEPT ![e] = Gone] \in [Executors -> GoodExecs]
         /\ SocketAfter(e) \in Executors \cup {Null}
         /\ Dropped(client, e) \in [Clients -> GoodClients]
BY RestingTyped DEF Typed, SocketAfter, Dropped

\* A handler that goes on to its next place with the receipt it has.
LEMMA GoesTyped ==
  ASSUME Typed, NEW e \in Executors, exec[e].pc \notin {"gone", "listening"},
         NEW pc \in {"reserve", "reserved", "ready", "decided", "replying"},
         NEW receipt \in Receipts \cup {Null},
         pc \in {"decided", "replying"} => receipt \in Receipts
  PROVE  /\ [exec EXCEPT ![e].pc = pc, ![e].out = receipt] \in [Executors -> GoodExecs]
         /\ [exec EXCEPT ![e].pc = pc, ![e].out = receipt] =
               [exec EXCEPT ![e] = [@ EXCEPT !.pc = pc, !.out = receipt]]
<1> DEFINE s == [exec[e] EXCEPT !.pc = pc, !.out = receipt]
<1>1. exec[e] \in ExecutorStates /\ exec[e].cmd \in Commands
  BY ExecutorTyped
<1>2. s \in ExecutorStates /\ s.pc = pc /\ s.out = receipt /\ s.cmd = exec[e].cmd
  BY <1>1 DEF ExecutorStates
<1>3. s \in GoodExecs
  BY <1>1, <1>2 DEF GoodExecs
<1>4. [exec EXCEPT ![e].pc = pc, ![e].out = receipt] = [exec EXCEPT ![e] = s]
  BY DEF Typed
<1>5. exec \in [Executors -> GoodExecs]
  BY DEF Typed
<1> HIDE DEF s
<1>6. [exec EXCEPT ![e] = s] \in [Executors -> GoodExecs]
  BY <1>3, <1>5
<1> QED
  BY <1>4, <1>6 DEF s

\* A client that turns to a command of its own.
LEMMA ClientTyped ==
  ASSUME NEW cmd \in Commands, NEW at \in 0..MaxTime
  PROVE  [NotRunning EXCEPT !.pc = "waiting", !.cmd = cmd, !.at = at] \in GoodClients
BY DEF NotRunning, GoodClients, ClientStates

\* A step of the transport, a client, the operator, the clock, or none.
EnvironmentStep ==
    \/ \E e \in Executors : ServerOpen(e) \/ ServerTimeout(e) \/ Kill(e)
    \/ \E c \in Clients :
         \/ \E k \in KeysOf[c] : ClientSign(c, k)
         \/ ClientTears(c) \/ ClientReload(c) \/ ClientConnect(c)
         \/ ClientGivesUp(c) \/ ClientObserve(c)
    \/ RecoverSocket \/ Rollback \/ Tick \/ UNCHANGED lvars

\* Everything outside the handler keeps the types.
LEMMA EnvironmentTyped == Typed /\ EnvironmentStep => Typed'
<1> SUFFICES ASSUME Typed, EnvironmentStep PROVE Typed'
  OBVIOUS
<1>1. ASSUME NEW e \in Executors, ServerOpen(e) PROVE Typed'
  BY <1>1, RestingTyped DEF ServerOpen, Typed
<1>2. ASSUME NEW e \in Executors, ServerTimeout(e) PROVE Typed'
  BY <1>2, EndTyped DEF ServerTimeout, Typed
<1>3. ASSUME NEW e \in Executors, Kill(e) PROVE Typed'
  <2>1. torn' \in BOOLEAN
    BY <1>3 DEF Kill, Typed
  <2>2. faults' \in 0..MaxFaults
    BY <1>3, LabAssumption DEF Kill, Typed
  <2>3. exec' \in [Executors -> GoodExecs] /\ client' \in [Clients -> GoodClients]
    BY <1>3, EndTyped DEF Kill
  <2> QED
    BY <1>3, <2>1, <2>2, <2>3 DEF Kill, Typed
<1>4. ASSUME NEW c \in Clients, NEW k \in KeysOf[c], ClientSign(c, k) PROVE Typed'
  <2> DEFINE cmd == [client |-> c, run |-> signed[c] + 1, key |-> k, issued |-> now]
  <2>1. signed[c] + 1 \in 1..MaxRuns /\ k \in Keys /\ now \in 0..MaxTime
    <3>1. signed[c] \in 0..MaxRuns /\ signed[c] < MaxRuns /\ now \in 0..MaxTime
      BY <1>4 DEF ClientSign, Typed
    <3>2. k \in Keys
      BY <1>4, LabAssumption
    <3> QED
      BY <3>1, <3>2, LabAssumption
  <2>2. cmd \in Commands
    BY <2>1 DEF Commands
  <2> HIDE DEF cmd
  <2>3. /\ client' = [client EXCEPT ![c] =
               [NotRunning EXCEPT !.pc = "waiting", !.cmd = cmd, !.at = now]]
        /\ file' = [file EXCEPT ![c] = IF c \in Persistent THEN cmd ELSE Null]
        /\ signed' = [signed EXCEPT ![c] = @ + 1]
        /\ UNCHANGED <<journal, torn, sock, exec, rules, effects, replies, now, faults>>
    BY <1>4 DEF ClientSign, cmd
  <2>4. client' \in [Clients -> GoodClients]
    BY <2>1, <2>2, <2>3, ClientTyped DEF Typed
  <2>5. file' \in [Clients -> Commands \cup {Null, Torn}]
    BY <2>2, <2>3 DEF Typed
  <2>6. signed' \in [Clients -> 0..MaxRuns]
    BY <2>1, <2>3, LabAssumption DEF Typed
  <2> QED
    BY <2>3, <2>4, <2>5, <2>6 DEF Typed
<1>5. ASSUME NEW c \in Clients, ClientTears(c) PROVE Typed'
  BY <1>5, LabAssumption DEF ClientTears, Typed
<1>6. ASSUME NEW c \in Clients, ClientReload(c) PROVE Typed'
  BY <1>6, ClientTyped DEF ClientReload, Typed
<1>7. ASSUME NEW c \in Clients, ClientConnect(c) PROVE Typed'
  <2> DEFINE s == [client[c] EXCEPT !.pc = "connected", !.to = sock]
  <2>1. client[c] \in ClientStates /\ client[c].cmd \in Commands /\ sock \in Executors
    BY <1>7 DEF ClientConnect, Typed, GoodClients
  <2>2. s \in GoodClients
    BY <2>1 DEF GoodClients, ClientStates
  <2>3. client' = [client EXCEPT ![c] = s]
    BY <1>7 DEF ClientConnect, Typed
  <2> HIDE DEF s
  <2>4. client' \in [Clients -> GoodClients]
    BY <2>2, <2>3 DEF Typed
  <2> QED
    BY <1>7, <2>4 DEF ClientConnect, Typed
<1>8. ASSUME NEW c \in Clients, ClientGivesUp(c) PROVE Typed'
  BY <1>8, RestingTyped, LabAssumption DEF ClientGivesUp, Typed
<1>9. ASSUME NEW c \in Clients, ClientObserve(c) PROVE Typed'
  <2> DEFINE s == [client[c] EXCEPT !.pc = "correlated"]
  <2>1. client[c] \in ClientStates /\ client[c].to = Null
    BY <1>9 DEF ClientObserve, Typed, GoodClients
  <2>2. s \in GoodClients
    BY <2>1 DEF GoodClients, ClientStates
  <2>3. \/ client' = [client EXCEPT ![c] = s]
        \/ client' = [client EXCEPT ![c] = NotRunning]
    BY <1>9 DEF ClientObserve
  <2> HIDE DEF s
  <2>4. client' \in [Clients -> GoodClients]
    BY <2>2, <2>3, RestingTyped DEF Typed
  <2> QED
    BY <1>9, <2>4 DEF ClientObserve, Typed
<1>10. CASE RecoverSocket
  BY <1>10, LabAssumption DEF RecoverSocket, Typed
<1>11. CASE Rollback
  BY <1>11 DEF Rollback, Typed, Rulesets
<1>12. CASE Tick
  BY <1>12, LabAssumption DEF Tick, Typed
<1>13. CASE UNCHANGED lvars
  BY <1>13 DEF lvars, Typed
<1> QED
  BY <1>1, <1>2, <1>3, <1>4, <1>5, <1>6, <1>7, <1>8, <1>9, <1>10, <1>11, <1>12, <1>13
     DEF EnvironmentStep

\* A handler that raises.
LEMMA FailsTyped ==
  ASSUME Typed, Held, NEW e \in Executors, Fails(e)
  PROVE  Typed'
BY EndTyped, HeldTyped DEF Fails, Typed

\* A handler that goes on and appends nothing.
LEMMA GoesOnTyped ==
  ASSUME Typed, Held, UNCHANGED journal, NEW e \in Executors,
         exec[e].pc \notin {"gone", "listening"},
         NEW pc \in {"reserve", "reserved", "ready", "decided", "replying"},
         NEW receipt \in Receipts \cup {Null},
         pc \in {"decided", "replying"} => receipt \in Receipts,
         Goes(e, pc, receipt)
  PROVE  Typed'
BY GoesTyped, HeldTyped DEF Goes, Typed

\* A handler that sends a stored receipt again.
LEMMA ReplaysTyped ==
  ASSUME Typed, Held, NEW e \in Executors, exec[e].pc \notin {"gone", "listening"},
         Completed(exec[e].cmd.key), Replays(e)
  PROVE  Typed'
BY StoredIsThere, FailsTyped, GoesOnTyped DEF Replays

\* accept, or the refusal of a message from the future.
LEMMA AcceptTyped ==
  ASSUME Typed, NEW e \in Executors, NEW c \in Clients, Accept(e, c)
  PROVE  Typed'
<1>1. CASE Fails(e)
  BY <1>1, FailsTyped DEF Accept
<1>2. CASE /\ exec' = [exec EXCEPT ![e] =
                 [Gone EXCEPT !.pc = "lookup", !.cmd = client[c].cmd, !.at = now]]
           /\ client' = [d \in Clients |->
                 IF d # c /\ client[d].to = e THEN NotRunning ELSE client[d]]
           /\ UNCHANGED <<journal, torn, sock, replies>>
  <2>1. client[c] \in GoodClients /\ client[c].to = e /\ e # Null
    BY LabAssumption DEF Accept, Typed
  <2>2. client[c].cmd \in Commands /\ now \in 0..MaxTime
    BY <2>1 DEF GoodClients, Typed
  <2>3. [Gone EXCEPT !.pc = "lookup", !.cmd = client[c].cmd, !.at = now] \in GoodExecs
    BY <2>2 DEF Gone, GoodExecs, ExecutorStates
  <2>4. exec' \in [Executors -> GoodExecs]
    BY <1>2, <2>3 DEF Typed
  <2>5. client' \in [Clients -> GoodClients]
    BY <1>2, RestingTyped DEF Typed
  <2> QED
    BY <1>2, <2>4, <2>5, HeldTyped DEF Accept, Typed
<1> QED
  BY <1>1, <1>2 DEF Accept

\* replay_if_known.
LEMMA LookupTyped ==
  ASSUME Typed, NEW e \in Executors, Lookup(e)
  PROVE  Typed'
<1>1. Held /\ exec[e].pc = "lookup"
  BY DEF Lookup
<1>2. CASE Completed(exec[e].cmd.key) /\ Replays(e)
  BY <1>1, <1>2, ReplaysTyped
<1>3. CASE Goes(e, "reserve", Null) /\ UNCHANGED journal
  BY <1>1, <1>3, GoesOnTyped
<1>4. CASE Fails(e)
  BY <1>1, <1>4, FailsTyped
<1> QED
  BY <1>2, <1>3, <1>4 DEF Lookup, Replayable

\* A record the executor appends is well formed and fits.
LEMMA AppendTyped ==
  ASSUME Typed, Held, Fits, NEW e \in Executors, exec[e].pc \notin {"gone", "listening"},
         NEW r \in GoodRecords, journal' = Append(journal, r),
         NEW pc \in {"reserved", "replying"}, NEW receipt \in Receipts \cup {Null},
         pc = "replying" => receipt \in Receipts,
         Goes(e, pc, receipt)
  PROVE  Typed'
<1>1. journal' \in Seq(GoodRecords) /\ Len(journal') <= MaxRecords
  BY Appended, LabAssumption DEF Fits
<1>2. exec' \in [Executors -> GoodExecs]
  BY GoesTyped DEF Goes
<1> QED
  BY <1>1, <1>2 DEF Goes, Held, Typed

\* reserve_or_replay.
LEMMA ReserveTyped ==
  ASSUME Typed, NEW e \in Executors, Reserve(e)
  PROVE  Typed'
<1>1. Held /\ exec[e].pc = "reserve"
  BY DEF Reserve
<1>2. CASE Completed(exec[e].cmd.key) /\ Replays(e)
  BY <1>1, <1>2, ReplaysTyped
<1>3. CASE /\ Fits /\ Goes(e, "reserved", Null)
           /\ journal' = Append(journal, Record("RESERVATION", exec[e].cmd, Null))
  <2>1. exec[e].cmd \in Commands
    BY <1>1, ExecutorTyped
  <2>2. Record("RESERVATION", exec[e].cmd, Null) \in GoodRecords
    BY <2>1 DEF Record, GoodRecords, Records
  <2> QED
    BY <1>1, <1>3, <2>2, AppendTyped
<1>4. CASE Fails(e)
  BY <1>1, <1>4, FailsTyped
<1> QED
  BY <1>2, <1>3, <1>4 DEF Reserve, Replayable

\* The read of the prestate and the refusals after it.
LEMMA ReadTargetTyped ==
  ASSUME Typed, NEW e \in Executors, ReadTarget(e)
  PROVE  Typed'
<1>1. Held /\ exec[e].pc = "reserved" /\ UNCHANGED journal
  BY DEF ReadTarget
<1>2. exec[e].cmd \in Commands /\ exec[e].at \in 0..MaxTime
  BY <1>1, ExecutorTyped
<1>3. \A o \in {"UNAVAILABLE", "REJECTED"} :
         ReceiptFor(exec[e].cmd, o, Null, exec[e].at) \in Receipts
  BY <1>2, ReceiptForTyped DEF Outcomes
<1>4. \/ Goes(e, "decided", ReceiptFor(exec[e].cmd, "UNAVAILABLE", Null, exec[e].at))
      \/ Goes(e, "decided", ReceiptFor(exec[e].cmd, "REJECTED", Null, exec[e].at))
      \/ Goes(e, "ready", Null)
  BY DEF ReadTarget
<1> QED
  BY <1>1, <1>3, <1>4, GoesOnTyped

\* The mutation port, whatever it answers.
LEMMA MutateTyped ==
  ASSUME Typed, NEW e \in Executors, Mutate(e)
  PROVE  Typed'
<1>1. PICK to \in Rulesets, outcome \in Outcomes \ {"UNAVAILABLE"} :
         /\ rules' = to
         /\ effects' = IF to = rules THEN effects
                       ELSE Append(effects, [cmd |-> exec[e].cmd, on |-> rules])
         /\ Goes(e, "decided", ReceiptFor(exec[e].cmd, outcome, to, exec[e].at))
  BY DEF Mutate
<1>2. exec[e].pc = "ready" /\ exec[e].cmd \in Commands /\ exec[e].at \in 0..MaxTime
  BY ExecutorTyped DEF Mutate
<1>3. ReceiptFor(exec[e].cmd, outcome, to, exec[e].at) \in Receipts
  BY <1>2, ReceiptForTyped
<1>4. exec' \in [Executors -> GoodExecs]
  BY <1>1, <1>2, <1>3, GoesTyped DEF Goes
<1>5. effects' \in Seq(Effects)
  <2>1. effects \in Seq(Effects) /\ [cmd |-> exec[e].cmd, on |-> rules] \in Effects
    BY <1>2 DEF Typed, Effects
  <2> QED
    BY <1>1, <2>1
<1> QED
  BY <1>1, <1>4, <1>5 DEF Mutate, Goes, Typed

\* complete.
LEMMA CompleteTyped ==
  ASSUME Typed, NEW e \in Executors, Complete(e)
  PROVE  Typed'
<1>1. Held /\ exec[e].pc = "decided"
  BY DEF Complete
<1>2. CASE /\ Fits /\ Goes(e, "replying", exec[e].out)
           /\ journal' = Append(journal, Record("COMPLETION", exec[e].cmd, exec[e].out))
  <2>1. exec[e].cmd \in Commands /\ exec[e].out \in Receipts
    BY <1>1, ExecutorTyped
  <2>2. Record("COMPLETION", exec[e].cmd, exec[e].out) \in GoodRecords
    BY <2>1 DEF Record, GoodRecords, Records
  <2> QED
    BY <1>1, <1>2, <2>1, <2>2, AppendTyped
<1>3. CASE Fails(e)
  BY <1>1, <1>3, FailsTyped
<1> QED
  BY <1>2, <1>3 DEF Complete

\* The answer sent, and the end of the one-request server.
LEMMA ReplyTyped ==
  ASSUME Typed, NEW e \in Executors, Reply(e)
  PROVE  Typed'
<1>1. exec[e].out \in Receipts /\ e # Null
  BY ExecutorTyped, LabAssumption DEF Reply
<1>2. client' \in [Clients -> GoodClients]
  <2>1. ASSUME NEW c \in Clients
        PROVE  [client[c] EXCEPT !.pc = "received", !.to = Null, !.out = exec[e].out]
                  \in GoodClients
    <3>1. client[c] \in ClientStates
      BY DEF Typed, GoodClients
    <3> QED
      BY <1>1, <3>1 DEF GoodClients, ClientStates
  <2> QED
    BY <2>1, RestingTyped DEF Reply, Typed
<1>3. exec' \in [Executors -> GoodExecs] /\ sock' \in Executors \cup {Null}
  BY EndTyped DEF Reply
<1>4. replies' \subseteq Receipts
  BY <1>1 DEF Reply, Typed
<1> QED
  BY <1>2, <1>3, <1>4, HeldTyped DEF Reply

-----------------------------------------------------------------------------
(* The inductive invariant.                                                *)

\* A key has one reservation and at most one completion, a completion stands
\* for a reserved command, and one reservation at most waits for its own.
JournalSound ==
    /\ \A i, j \in DOMAIN journal :
          journal[i].cmd.key = journal[j].cmd.key /\ journal[i].kind = journal[j].kind => i = j
    /\ \A i \in DOMAIN journal : journal[i].kind = "COMPLETION" =>
          Reserved(journal[i].cmd) /\ journal[i].receipt.cmd = journal[i].cmd
    /\ \A i, j \in DOMAIN journal :
          ~Completed(journal[i].cmd.key) /\ ~Completed(journal[j].cmd.key) => i = j

\* One executor at most is at work, on the command whose reservation is open.
WorkFenced ==
    /\ \A e \in Executors : exec[e].pc \in Working =>
          Reserved(exec[e].cmd) /\ ~Completed(exec[e].cmd.key)
    /\ \A e, f \in Executors : exec[e].pc \in Working /\ exec[f].pc \in Working => e = f

Truthful(r) ==
    /\ r.outcome \in {"APPLIED", "PARTIAL"} => EffectOf(r.cmd)
    /\ r.outcome \in {"REJECTED", "UNAVAILABLE"} => ~EffectOf(r.cmd)
Untried(cmd) == \A i \in DOMAIN effects : effects[i].cmd.key # cmd.key

\* Before the mutation nothing was done for the key and the ruleset is the one
\* that was read; after it the receipt to be stored says what was done.
WorkTrue ==
    \A e \in Executors :
       /\ exec[e].pc \in {"reserved", "ready"} => Untried(exec[e].cmd)
       /\ exec[e].pc = "ready" => rules = "OPEN"
       /\ exec[e].pc = "decided" => exec[e].out.cmd = exec[e].cmd /\ Truthful(exec[e].out)

\* What is stored is true, and what is or was sent is stored.
Durable(r) == \E i \in DOMAIN journal : journal[i] = Record("COMPLETION", r.cmd, r)
ReceiptsTrue ==
    /\ \A i \in DOMAIN journal : journal[i].kind = "COMPLETION" => Truthful(journal[i].receipt)
    /\ \A e \in Executors : exec[e].pc = "replying" => Durable(exec[e].out)
    /\ \A r \in replies : Durable(r)

LabInvariant ==
    /\ Typed /\ JournalSound /\ WorkFenced /\ WorkTrue /\ ReceiptsTrue
    /\ EffectsAreReserved /\ EffectsFindOpenTarget

\* An empty journal and an untouched target.
LEMMA LabStart == Init => LabInvariant
<1> SUFFICES ASSUME Init PROVE LabInvariant
  OBVIOUS
<1> USE DEF Init
<1>1. /\ journal \in Seq(GoodRecords) /\ Len(journal) = 0 /\ DOMAIN journal = {}
      /\ effects \in Seq(Effects) /\ DOMAIN effects = {}
  OBVIOUS
<1>2. Typed
  <2>1. /\ exec \in [Executors -> GoodExecs] /\ client \in [Clients -> GoodClients]
        /\ file \in [Clients -> Commands \cup {Null, Torn}]
    BY RestingTyped
  <2>2. /\ signed \in [Clients -> 0..MaxRuns] /\ now \in 0..MaxTime
        /\ faults \in 0..MaxFaults /\ Len(journal) <= MaxRecords
    BY <1>1, LabAssumption
  <2>3. rules \in Rulesets /\ replies \subseteq Receipts /\ torn \in BOOLEAN
    BY DEF Rulesets
  <2> QED
    BY <1>1, <2>1, <2>2, <2>3 DEF Typed
<1>3. \A e \in Executors : exec[e].pc = "gone"
  BY RestingTyped
<1> QED
  BY <1>1, <1>2, <1>3 DEF LabInvariant, JournalSound, WorkFenced, WorkTrue, ReceiptsTrue,
     EffectsAreReserved, EffectsFindOpenTarget, Working

-----------------------------------------------------------------------------
(* Steps that only stop or start processes.                                *)

\* Nothing is written, sent or done, no ruleset but the open one is put in
\* force, and who moves is not at work afterwards.
CalmStep ==
    /\ UNCHANGED <<journal, effects, replies>>
    /\ rules' \in {rules, "OPEN"}
    /\ \A e \in Executors : \/ exec'[e] = exec[e]
                            \/ exec'[e].pc \notin Working \cup {"replying"}

\* Such a step keeps the invariant.
LEMMA CalmKeeps == LabInvariant /\ CalmStep /\ Typed' => LabInvariant'
<1> SUFFICES ASSUME LabInvariant, CalmStep, Typed' PROVE LabInvariant'
  OBVIOUS
<1> USE DEF LabInvariant, CalmStep
<1>1. journal' = journal /\ effects' = effects /\ replies' = replies
  OBVIOUS
<1>2. /\ \A c : Reserved(c)' <=> Reserved(c)
      /\ \A k : Completed(k)' <=> Completed(k)
      /\ \A r : Truthful(r)' <=> Truthful(r)
      /\ \A c : Untried(c)' <=> Untried(c)
      /\ \A r : Durable(r)' <=> Durable(r)
  BY <1>1 DEF Reserved, Completed, RowsOf, Truthful, EffectOf, Untried, Durable
<1>3. JournalSound'
  BY <1>1, <1>2 DEF JournalSound
<1>4. WorkFenced'
  BY <1>2 DEF WorkFenced
<1>5. WorkTrue'
  BY <1>2 DEF WorkTrue, Working
<1>6. ReceiptsTrue'
  BY <1>1, <1>2 DEF ReceiptsTrue
<1>7. EffectsAreReserved' /\ EffectsFindOpenTarget'
  BY <1>1, <1>2 DEF EffectsAreReserved, EffectsFindOpenTarget
<1> QED
  BY <1>3, <1>4, <1>5, <1>6, <1>7

\* Everything outside the handler is such a step.
LEMMA EnvironmentCalm == Typed /\ EnvironmentStep => CalmStep
<1> SUFFICES ASSUME Typed, EnvironmentStep PROVE CalmStep
  OBVIOUS
<1> USE RestingTyped DEF CalmStep, Working
<1>1. ASSUME NEW e \in Executors, ServerOpen(e) PROVE CalmStep
  <2>1. [Gone EXCEPT !.pc = "listening"].pc = "listening"
    BY DEF Gone
  <2> QED
    BY <1>1, <2>1 DEF ServerOpen, Typed
<1>2. ASSUME NEW e \in Executors, ServerTimeout(e) PROVE CalmStep
  BY <1>2 DEF ServerTimeout, Typed
<1>3. ASSUME NEW e \in Executors, Kill(e) PROVE CalmStep
  BY <1>3 DEF Kill, Typed
<1>4. ASSUME NEW c \in Clients, NEW k \in KeysOf[c], ClientSign(c, k) PROVE CalmStep
  BY <1>4 DEF ClientSign
<1>5. ASSUME NEW c \in Clients, ClientTears(c) \/ ClientReload(c) \/ ClientConnect(c)
                                \/ ClientGivesUp(c) \/ ClientObserve(c)
      PROVE  CalmStep
  BY <1>5 DEF ClientTears, ClientReload, ClientConnect, ClientGivesUp, ClientObserve
<1>6. CASE RecoverSocket \/ Rollback \/ Tick \/ UNCHANGED lvars
  BY <1>6 DEF RecoverSocket, Rollback, Tick, lvars
<1> QED
  BY <1>1, <1>2, <1>3, <1>4, <1>5, <1>6 DEF EnvironmentStep

\* A process that fails or goes back to a place before any reservation.
LEMMA FailsCalm ==
  ASSUME Typed, Held, NEW e \in Executors, Fails(e)
  PROVE  CalmStep
BY RestingTyped DEF Fails, Held, CalmStep, Working, Typed

\* What Goes does to the processes.
LEMMA GoesMoves ==
  ASSUME Typed, NEW e \in Executors, NEW pc, NEW receipt, Goes(e, pc, receipt)
  PROVE  /\ exec'[e].pc = pc /\ exec'[e].out = receipt /\ exec'[e].cmd = exec[e].cmd
         /\ \A f \in Executors \ {e} : exec'[f] = exec[f]
         /\ replies' = replies
<1>1. exec[e] \in ExecutorStates
  BY ExecutorTyped
<1> QED
  BY <1>1 DEF Goes, Typed, ExecutorStates

\* accept and authenticate.
LEMMA AcceptCalm ==
  ASSUME Typed, NEW e \in Executors, NEW c \in Clients, Accept(e, c)
  PROVE  CalmStep
<1>1. CASE Fails(e)
  BY <1>1, FailsCalm DEF Accept
<1>2. CASE /\ exec' = [exec EXCEPT ![e] =
                 [Gone EXCEPT !.pc = "lookup", !.cmd = client[c].cmd, !.at = now]]
           /\ UNCHANGED <<journal, torn, sock, replies>>
  <2>1. [Gone EXCEPT !.pc = "lookup", !.cmd = client[c].cmd, !.at = now].pc = "lookup"
    BY DEF Gone
  <2> QED
    BY <1>2, <2>1 DEF Accept, Held, CalmStep, Working, Typed
<1> QED
  BY <1>1, <1>2 DEF Accept

-----------------------------------------------------------------------------
(* Steps of the handler.                                                   *)

\* A stored receipt sent again is durable already.
LEMMA ReplaysKeeps ==
  ASSUME LabInvariant, Held, Typed', NEW e \in Executors, exec[e].pc \notin Working,
         Completed(exec[e].cmd.key), Replays(e)
  PROVE  LabInvariant'
<1> DEFINE r == StoredReceipt(exec[e].cmd.key)
<1>1. CASE Fails(e)
  BY <1>1, FailsCalm, CalmKeeps DEF LabInvariant
<1>2. CASE Goes(e, "replying", r) /\ UNCHANGED journal
  <2> USE DEF LabInvariant
  <2>1. Durable(r)
    <3>1. PICK i \in DOMAIN journal :
             /\ journal[i].kind = "COMPLETION" /\ journal[i].cmd.key = exec[e].cmd.key
             /\ r = journal[i].receipt
      BY StoredIsThere
    <3>2. journal[i].receipt.cmd = journal[i].cmd
      BY <3>1 DEF JournalSound
    <3>3. journal[i] \in Records
      BY <3>1 DEF Typed, GoodRecords
    <3>4. journal[i] = Record("COMPLETION", r.cmd, r)
      BY <3>1, <3>2, <3>3 DEF Record, Records
    <3> QED
      BY <3>1, <3>4 DEF Durable
  <2> HIDE DEF r
  <2>2. /\ exec'[e].pc = "replying" /\ exec'[e].out = r
        /\ \A f \in Executors \ {e} : exec'[f] = exec[f]
        /\ journal' = journal /\ effects' = effects /\ rules' = rules /\ replies' = replies
    BY <1>2, GoesMoves DEF Held
  <2>3. /\ \A c : Reserved(c)' <=> Reserved(c)
        /\ \A k : Completed(k)' <=> Completed(k)
        /\ \A q : Truthful(q)' <=> Truthful(q)
        /\ \A c : Untried(c)' <=> Untried(c)
        /\ \A q : Durable(q)' <=> Durable(q)
    BY <2>2 DEF Reserved, Completed, RowsOf, Truthful, EffectOf, Untried, Durable
  <2>4. JournalSound'
    BY <2>2, <2>3 DEF JournalSound
  <2>5. WorkFenced' /\ WorkTrue'
    BY <2>2, <2>3 DEF WorkFenced, WorkTrue, Working
  <2>6. ReceiptsTrue'
    BY <2>1, <2>2, <2>3 DEF ReceiptsTrue
  <2>7. EffectsAreReserved' /\ EffectsFindOpenTarget'
    BY <2>2, <2>3 DEF EffectsAreReserved, EffectsFindOpenTarget
  <2> QED
    BY <2>4, <2>5, <2>6, <2>7
<1> QED
  BY <1>1, <1>2 DEF Replays

\* replay_if_known.
LEMMA LookupKeeps ==
  ASSUME LabInvariant, NEW e \in Executors, Lookup(e)
  PROVE  LabInvariant'
<1>1. Typed /\ Typed' /\ Held /\ exec[e].pc = "lookup"
  BY LookupTyped DEF LabInvariant, Lookup
<1>2. CASE Completed(exec[e].cmd.key) /\ Replays(e)
  BY <1>1, <1>2, ReplaysKeeps DEF Working
<1>3. CASE Goes(e, "reserve", Null) /\ UNCHANGED journal
  <2>1. CalmStep
    BY <1>1, <1>3, GoesMoves DEF CalmStep, Held, Working
  <2> QED
    BY <1>1, <2>1, CalmKeeps
<1>4. CASE Fails(e)
  BY <1>1, <1>4, FailsCalm, CalmKeeps
<1> QED
  BY <1>2, <1>3, <1>4 DEF Lookup, Replayable

\* A row more leaves reservations, completions and stored receipts in place.
LEMMA AppendKeeps ==
  ASSUME Typed, NEW r \in GoodRecords, journal' = Append(journal, r)
  PROVE  /\ \A c : Reserved(c) => Reserved(c)'
         /\ \A k : Completed(k)' <=> (Completed(k) \/ (r.kind = "COMPLETION" /\ r.cmd.key = k))
         /\ \A q : Durable(q) => Durable(q)'
<1>1. /\ DOMAIN journal' = DOMAIN journal \cup {Len(journal) + 1}
      /\ Len(journal) + 1 \notin DOMAIN journal
      /\ \A i \in DOMAIN journal : journal'[i] = journal[i]
      /\ journal'[Len(journal) + 1] = r
  BY Appended
<1>2. \A c : Reserved(c) => Reserved(c)'
  BY <1>1 DEF Reserved
<1>3. \A q : Durable(q) => Durable(q)'
  BY <1>1 DEF Durable
<1>4. \A k : Completed(k)' <=> \E i \in DOMAIN journal' :
                 journal'[i].cmd.key = k /\ journal'[i].kind = "COMPLETION"
  BY DEF Completed, RowsOf
<1>5. \A k : Completed(k) <=> \E i \in DOMAIN journal :
                 journal[i].cmd.key = k /\ journal[i].kind = "COMPLETION"
  BY DEF Completed, RowsOf
<1>6. \A k : Completed(k)' <=> (Completed(k) \/ (r.kind = "COMPLETION" /\ r.cmd.key = k))
  BY <1>1, <1>4, <1>5
<1> QED
  BY <1>2, <1>3, <1>6

\* reserve_or_replay: the fence admits a reservation only when none is open.
LEMMA ReserveKeeps ==
  ASSUME LabInvariant, NEW e \in Executors, Reserve(e)
  PROVE  LabInvariant'
<1>1. Typed /\ Typed' /\ Held /\ exec[e].pc = "reserve"
  BY ReserveTyped DEF LabInvariant, Reserve
<1>2. CASE Completed(exec[e].cmd.key) /\ Replays(e)
  BY <1>1, <1>2, ReplaysKeeps DEF Working
<1>3. CASE /\ MayReserve(exec[e].cmd) /\ Goes(e, "reserved", Null)
           /\ journal' = Append(journal, Record("RESERVATION", exec[e].cmd, Null))
  <2>1. PICK cmd \in Commands : cmd = exec[e].cmd
    BY <1>1, ExecutorTyped
  <2>2. PICK row \in GoodRecords : /\ row = Record("RESERVATION", cmd, Null)
                                  /\ row.kind = "RESERVATION" /\ row.cmd = cmd
    <3> DEFINE row == Record("RESERVATION", cmd, Null)
    <3>1. row \in GoodRecords /\ row.kind = "RESERVATION" /\ row.cmd = cmd
      BY <2>1 DEF Record, GoodRecords, Records
    <3> QED
      BY <3>1
  <2>3. PICK n :
        /\ DOMAIN journal' = DOMAIN journal \cup {n} /\ n \notin DOMAIN journal
        /\ \A i \in DOMAIN journal : journal'[i] = journal[i]
        /\ journal'[n] = row
    <3>1. journal' = Append(journal, row)
      BY <1>3, <2>1, <2>2
    <3> QED
      BY <1>1, <3>1, Appended
  <2>4. \A i \in DOMAIN journal : journal[i].cmd.key # cmd.key /\ Completed(journal[i].cmd.key)
    <3>1. ASSUME NEW i \in DOMAIN journal PROVE journal[i].cmd.key \in Keys
      <4>1. journal[i] \in GoodRecords
        BY <1>1, <3>1 DEF Typed
      <4> QED
        BY <4>1 DEF GoodRecords, Records, Commands
    <3> QED
      <4>1. OpenKeys = {} /\ \A i \in DOMAIN journal : journal[i].cmd.key # cmd.key
        BY <1>3, <2>1 DEF MayReserve, Known
      <4>2. \A i \in DOMAIN journal : Known(journal[i].cmd.key)
        BY DEF Known
      <4> QED
        BY <3>1, <4>1, <4>2 DEF OpenKeys
  <2>5. /\ \A c : Reserved(c) => Reserved(c)'
        /\ \A k : Completed(k)' <=> Completed(k)
        /\ \A q : Durable(q) => Durable(q)'
    BY <1>1, <1>3, <2>1, <2>2, AppendKeeps
  <2>6. Reserved(cmd)' /\ ~Completed(cmd.key)
    <3>1. Reserved(cmd)'
      BY <2>2, <2>3 DEF Reserved
    <3>2. ~Completed(cmd.key)
      BY <2>4 DEF Completed, RowsOf
    <3> QED
      BY <3>1, <3>2
  <2>7. /\ exec'[e].pc = "reserved" /\ exec'[e].cmd = cmd
        /\ \A f \in Executors \ {e} : exec'[f] = exec[f]
        /\ effects' = effects /\ rules' = rules /\ replies' = replies
    BY <1>1, <1>3, <2>1, GoesMoves DEF Held
  <2> USE DEF LabInvariant
  <2>8. JournalSound'
    <3>1. ASSUME NEW i \in DOMAIN journal', NEW j \in DOMAIN journal',
                 journal'[i].cmd.key = journal'[j].cmd.key, journal'[i].kind = journal'[j].kind
          PROVE  i = j
      BY <2>2, <2>3, <2>4, <3>1 DEF JournalSound
    <3>2. ASSUME NEW i \in DOMAIN journal', journal'[i].kind = "COMPLETION"
          PROVE  (Reserved(journal[i].cmd) /\ journal[i].receipt.cmd = journal[i].cmd)'
      BY <2>2, <2>3, <2>5, <3>2 DEF JournalSound
    <3>3. ASSUME NEW i \in DOMAIN journal', NEW j \in DOMAIN journal',
                 (~Completed(journal[i].cmd.key) /\ ~Completed(journal[j].cmd.key))'
          PROVE  i = j
      BY <2>3, <2>4, <2>5, <3>3
    <3> QED
      BY <3>1, <3>2, <3>3 DEF JournalSound
  <2>9. \A f \in Executors : exec[f].pc \notin Working
    <3>1. ASSUME NEW f \in Executors, exec[f].pc \in Working PROVE FALSE
      <4>1. PICK i \in DOMAIN journal : journal[i] = Record("RESERVATION", exec[f].cmd, Null)
        BY <3>1 DEF WorkFenced, Reserved
      <4>2. journal[i].cmd = exec[f].cmd
        BY <4>1 DEF Record
      <4> QED
        BY <2>4, <3>1, <4>2 DEF WorkFenced
    <3> QED
      BY <3>1
  <2>10. WorkFenced'
    BY <2>5, <2>6, <2>7, <2>9 DEF WorkFenced
  <2>11. Untried(cmd)
    <3>1. ASSUME NEW i \in DOMAIN effects PROVE effects[i].cmd.key # cmd.key
      <4>1. PICK j \in DOMAIN journal : journal[j] = Record("RESERVATION", effects[i].cmd, Null)
        BY <3>1 DEF EffectsAreReserved, Reserved
      <4>2. journal[j].cmd = effects[i].cmd
        BY <4>1 DEF Record
      <4> QED
        BY <2>4, <4>2
    <3> QED
      BY <3>1 DEF Untried
  <2>12. /\ \A q : Truthful(q)' <=> Truthful(q)
         /\ \A c : Untried(c)' <=> Untried(c)
    BY <2>7 DEF Truthful, EffectOf, Untried
  <2>13. WorkTrue'
    BY <2>7, <2>9, <2>11, <2>12 DEF WorkTrue, Working
  <2>14. ReceiptsTrue'
    BY <2>2, <2>3, <2>5, <2>7, <2>12 DEF ReceiptsTrue
  <2>15. EffectsAreReserved' /\ EffectsFindOpenTarget'
    BY <2>5, <2>7 DEF EffectsAreReserved, EffectsFindOpenTarget
  <2> QED
    BY <1>1, <2>8, <2>10, <2>13, <2>14, <2>15
<1>4. CASE Fails(e)
  BY <1>1, <1>4, FailsCalm, CalmKeeps
<1> QED
  BY <1>2, <1>3, <1>4 DEF Reserve, Replayable

\* The target is read, or refused: nothing was done for the command yet.
LEMMA ReadTargetKeeps ==
  ASSUME LabInvariant, NEW e \in Executors, ReadTarget(e)
  PROVE  LabInvariant'
<1> USE DEF LabInvariant
<1>1. /\ Typed' /\ Held /\ exec[e].pc = "reserved" /\ journal' = journal
      /\ exec[e].cmd \in Commands /\ exec[e].at \in 0..MaxTime
  BY ReadTargetTyped, ExecutorTyped DEF ReadTarget
<1>2. PICK pc, receipt :
         /\ Goes(e, pc, receipt)
         /\ \/ /\ pc = "decided"
               /\ receipt.cmd = exec[e].cmd /\ receipt.outcome \in {"UNAVAILABLE", "REJECTED"}
            \/ pc = "ready" /\ rules = "OPEN"
  <2>1. \A o \in {"UNAVAILABLE", "REJECTED"} :
           /\ ReceiptFor(exec[e].cmd, o, Null, exec[e].at).cmd = exec[e].cmd
           /\ ReceiptFor(exec[e].cmd, o, Null, exec[e].at).outcome = o
    BY DEF ReceiptFor
  <2>2. \/ Goes(e, "decided", ReceiptFor(exec[e].cmd, "UNAVAILABLE", Null, exec[e].at))
        \/ Goes(e, "decided", ReceiptFor(exec[e].cmd, "REJECTED", Null, exec[e].at))
        \/ rules = "OPEN" /\ Goes(e, "ready", Null)
    BY DEF ReadTarget
  <2> QED
    BY <2>1, <2>2
<1>3. /\ exec'[e].pc = pc /\ exec'[e].out = receipt /\ exec'[e].cmd = exec[e].cmd
      /\ \A f \in Executors \ {e} : exec'[f] = exec[f]
      /\ effects' = effects /\ rules' = rules /\ replies' = replies
  BY <1>1, <1>2, GoesMoves DEF Held
<1>4. /\ \A c : Reserved(c)' <=> Reserved(c)
      /\ \A k : Completed(k)' <=> Completed(k)
      /\ \A r : Truthful(r)' <=> Truthful(r)
      /\ \A c : Untried(c)' <=> Untried(c)
      /\ \A r : Durable(r)' <=> Durable(r)
  BY <1>1, <1>3 DEF Reserved, Completed, RowsOf, Truthful, EffectOf, Untried, Durable
<1>5. JournalSound'
  BY <1>1, <1>4 DEF JournalSound
<1>6. WorkFenced'
  BY <1>1, <1>2, <1>3, <1>4 DEF WorkFenced, Working
<1>7. Untried(exec[e].cmd)
  BY <1>1 DEF WorkTrue
<1>8. pc = "decided" => Truthful(receipt)
  BY <1>2, <1>7 DEF Truthful, EffectOf, Untried
<1>9. WorkTrue'
  BY <1>2, <1>3, <1>4, <1>7, <1>8 DEF WorkTrue
<1>10. ReceiptsTrue'
  BY <1>1, <1>2, <1>3, <1>4 DEF ReceiptsTrue
<1>11. EffectsAreReserved' /\ EffectsFindOpenTarget'
  BY <1>3, <1>4 DEF EffectsAreReserved, EffectsFindOpenTarget
<1> QED
  BY <1>1, <1>5, <1>6, <1>9, <1>10, <1>11

\* The mutation port: the ruleset is still the one that was read, since nobody
\* else is at work, and the receipt says what was done.
LEMMA MutateKeeps ==
  ASSUME LabInvariant, NEW e \in Executors, Mutate(e)
  PROVE  LabInvariant'
<1> USE DEF LabInvariant
<1>1. /\ Typed' /\ exec[e].pc = "ready" /\ journal' = journal
      /\ exec[e].cmd \in Commands /\ exec[e].at \in 0..MaxTime
      /\ rules = "OPEN" /\ Untried(exec[e].cmd)
      /\ Reserved(exec[e].cmd) /\ ~Completed(exec[e].cmd.key)
  BY MutateTyped, ExecutorTyped DEF Mutate, WorkTrue, WorkFenced, Working
<1>2. PICK to \in Rulesets, outcome \in Outcomes \ {"UNAVAILABLE"} :
         /\ outcome = "APPLIED" => to = "BLOCKED"
         /\ outcome = "PARTIAL" => to = "PARTIAL"
         /\ outcome = "REJECTED" => to = rules
         /\ effects' = IF to = rules THEN effects
                       ELSE Append(effects, [cmd |-> exec[e].cmd, on |-> rules])
         /\ Goes(e, "decided", ReceiptFor(exec[e].cmd, outcome, to, exec[e].at))
  BY DEF Mutate
<1>3. PICK cmd \in Commands : cmd = exec[e].cmd
  BY <1>1
<1>4. PICK receipt : /\ receipt = ReceiptFor(cmd, outcome, to, exec[e].at)
                     /\ receipt.cmd = cmd /\ receipt.outcome = outcome
  BY <1>1, <1>2, <1>3, ReceiptForTyped
<1>5. /\ exec'[e].pc = "decided" /\ exec'[e].out = receipt /\ exec'[e].cmd = cmd
      /\ \A f \in Executors \ {e} : exec'[f] = exec[f]
      /\ replies' = replies
  BY <1>2, <1>3, <1>4, GoesMoves
<1>6. \A f \in Executors \ {e} : exec[f].pc \notin Working
  BY <1>1 DEF WorkFenced, Working
<1>7. /\ \A c : Reserved(c)' <=> Reserved(c)
      /\ \A k : Completed(k)' <=> Completed(k)
      /\ \A r : Durable(r)' <=> Durable(r)
  BY <1>1 DEF Reserved, Completed, RowsOf, Durable
<1>8. PICK n : n \notin DOMAIN effects
               /\ \/ to = rules /\ effects' = effects
                  \/ /\ to # rules
                     /\ DOMAIN effects' = DOMAIN effects \cup {n}
                     /\ \A i \in DOMAIN effects : effects'[i] = effects[i]
                     /\ effects'[n] = [cmd |-> cmd, on |-> "OPEN"]
  <2> DEFINE n == Len(effects) + 1
  <2>1. effects \in Seq(Effects)
    BY DEF Typed
  <2>2. n \notin DOMAIN effects
    BY <2>1
  <2>3. CASE to = rules
    BY <1>2, <2>2, <2>3
  <2>4. CASE to # rules
    <3>1. effects' = Append(effects, [cmd |-> cmd, on |-> "OPEN"])
      BY <1>1, <1>2, <1>3, <2>4
    <3> QED
      BY <2>1, <2>2, <2>4, <3>1
  <2> QED
    BY <2>3, <2>4
<1>9. \A c : EffectOf(c)' <=> (EffectOf(c) \/ (to # rules /\ c = cmd))
  BY <1>8 DEF EffectOf
<1>10. JournalSound'
  BY <1>1, <1>7 DEF JournalSound
<1>11. WorkFenced'
  BY <1>1, <1>3, <1>5, <1>6, <1>7 DEF WorkFenced, Working
<1>12. Truthful(receipt)'
  <2>1. ~EffectOf(cmd)
    BY <1>1, <1>3 DEF EffectOf, Untried
  <2> QED
    BY <1>1, <1>2, <1>4, <1>9, <2>1 DEF Truthful
<1>13. WorkTrue'
  BY <1>4, <1>5, <1>6, <1>12 DEF WorkTrue, Working
<1>14. ReceiptsTrue'
  <2>1. ASSUME NEW i \in DOMAIN journal, journal[i].kind = "COMPLETION"
        PROVE  Truthful(journal[i].receipt)'
    <3>1. journal[i].receipt.cmd # cmd
      BY <1>1, <1>3, <2>1 DEF JournalSound, Completed, RowsOf
    <3> QED
      BY <1>1, <1>9, <2>1, <3>1 DEF ReceiptsTrue, Truthful
  <2> QED
    BY <1>1, <1>5, <1>7, <2>1 DEF ReceiptsTrue
<1>15. EffectsAreReserved'
  BY <1>1, <1>3, <1>7, <1>8 DEF EffectsAreReserved, Untried
<1>16. EffectsFindOpenTarget'
  BY <1>8 DEF EffectsFindOpenTarget
<1> QED
  BY <1>1, <1>10, <1>11, <1>13, <1>14, <1>15, <1>16

\* complete: the receipt that is stored tells what was done for the command.
LEMMA CompleteKeeps ==
  ASSUME LabInvariant, NEW e \in Executors, Complete(e)
  PROVE  LabInvariant'
<1>1. Typed /\ Typed' /\ Held /\ exec[e].pc = "decided"
  BY CompleteTyped DEF LabInvariant, Complete
<1>2. CASE /\ Goes(e, "replying", exec[e].out)
           /\ journal' = Append(journal, Record("COMPLETION", exec[e].cmd, exec[e].out))
  <2> USE DEF LabInvariant
  <2>1. PICK cmd \in Commands, receipt \in Receipts :
           cmd = exec[e].cmd /\ receipt = exec[e].out
    BY <1>1, ExecutorTyped
  <2>2. PICK row \in GoodRecords :
           /\ row = Record("COMPLETION", cmd, receipt)
           /\ row.kind = "COMPLETION" /\ row.cmd = cmd /\ row.receipt = receipt
    <3> DEFINE row == Record("COMPLETION", cmd, receipt)
    <3>1. row \in GoodRecords
      BY <2>1 DEF Record, GoodRecords, Records
    <3>2. row.kind = "COMPLETION" /\ row.cmd = cmd /\ row.receipt = receipt
      BY DEF Record
    <3> QED
      BY <3>1, <3>2
  <2>3. /\ Reserved(cmd) /\ ~Completed(cmd.key)
        /\ receipt.cmd = cmd /\ Truthful(receipt)
        /\ \A f \in Executors \ {e} : exec[f].pc \notin Working
    BY <1>1, <2>1 DEF WorkFenced, WorkTrue, Working
  <2>4. journal' = Append(journal, row)
    BY <1>2, <2>1, <2>2
  <2>5. PICK n :
        /\ DOMAIN journal' = DOMAIN journal \cup {n} /\ n \notin DOMAIN journal
        /\ \A i \in DOMAIN journal : journal'[i] = journal[i]
        /\ journal'[n] = row
    BY <1>1, <2>4, Appended
  <2>6. /\ \A c : Reserved(c) => Reserved(c)'
        /\ \A k : Completed(k)' <=> (Completed(k) \/ cmd.key = k)
        /\ \A q : Durable(q) => Durable(q)'
    BY <1>1, <2>2, <2>4, AppendKeeps
  <2>7. /\ exec'[e].pc = "replying" /\ exec'[e].out = receipt
        /\ \A f \in Executors \ {e} : exec'[f] = exec[f]
        /\ effects' = effects /\ rules' = rules /\ replies' = replies
    BY <1>1, <1>2, <2>1, GoesMoves DEF Held
  <2>8. /\ \A q : Truthful(q)' <=> Truthful(q)
        /\ \A c : Untried(c)' <=> Untried(c)
    BY <2>7 DEF Truthful, EffectOf, Untried
  <2>9. JournalSound'
    <3>1. ASSUME NEW i \in DOMAIN journal', NEW j \in DOMAIN journal',
                 journal'[i].cmd.key = journal'[j].cmd.key, journal'[i].kind = journal'[j].kind
          PROVE  i = j
      <4>1. \A k \in DOMAIN journal :
               ~(journal[k].cmd.key = cmd.key /\ journal[k].kind = "COMPLETION")
        BY <2>3 DEF Completed, RowsOf
      <4> QED
        BY <2>2, <2>5, <3>1, <4>1 DEF JournalSound
    <3>2. ASSUME NEW i \in DOMAIN journal', journal'[i].kind = "COMPLETION"
          PROVE  (Reserved(journal[i].cmd) /\ journal[i].receipt.cmd = journal[i].cmd)'
      BY <2>2, <2>3, <2>5, <2>6, <3>2 DEF JournalSound
    <3>3. ASSUME NEW i \in DOMAIN journal', NEW j \in DOMAIN journal',
                 (~Completed(journal[i].cmd.key) /\ ~Completed(journal[j].cmd.key))'
          PROVE  i = j
      BY <2>2, <2>5, <2>6, <3>3 DEF JournalSound
    <3> QED
      BY <3>1, <3>2, <3>3 DEF JournalSound
  <2>10. WorkFenced' /\ WorkTrue'
    BY <2>3, <2>7 DEF WorkFenced, WorkTrue, Working
  <2>11. ReceiptsTrue'
    <3>1. Durable(receipt)'
      BY <2>2, <2>3, <2>5 DEF Durable
    <3>2. ASSUME NEW i \in DOMAIN journal', journal'[i].kind = "COMPLETION"
          PROVE  Truthful(journal[i].receipt)'
      BY <2>2, <2>3, <2>5, <2>8, <3>2 DEF ReceiptsTrue
    <3> QED
      BY <2>6, <2>7, <3>1, <3>2 DEF ReceiptsTrue
  <2>12. EffectsAreReserved' /\ EffectsFindOpenTarget'
    BY <2>6, <2>7 DEF EffectsAreReserved, EffectsFindOpenTarget
  <2> QED
    BY <1>1, <2>9, <2>10, <2>11, <2>12
<1>3. CASE Fails(e)
  BY <1>1, <1>3, FailsCalm, CalmKeeps
<1> QED
  BY <1>2, <1>3 DEF Complete

\* The answer sent is the stored one.
LEMMA ReplyKeeps ==
  ASSUME LabInvariant, NEW e \in Executors, Reply(e)
  PROVE  LabInvariant'
<1> USE DEF LabInvariant
<1>1. /\ Typed' /\ journal' = journal /\ effects' = effects /\ rules' = rules
      /\ replies' = replies \cup {exec[e].out} /\ Durable(exec[e].out)
      /\ exec'[e].pc = "gone" /\ \A f \in Executors \ {e} : exec'[f] = exec[f]
  BY ReplyTyped, RestingTyped DEF Reply, Held, ReceiptsTrue, Typed
<1>2. /\ \A c : Reserved(c)' <=> Reserved(c)
      /\ \A k : Completed(k)' <=> Completed(k)
      /\ \A r : Truthful(r)' <=> Truthful(r)
      /\ \A c : Untried(c)' <=> Untried(c)
      /\ \A r : Durable(r)' <=> Durable(r)
  BY <1>1 DEF Reserved, Completed, RowsOf, Truthful, EffectOf, Untried, Durable
<1>3. JournalSound'
  BY <1>1, <1>2 DEF JournalSound
<1>4. WorkFenced' /\ WorkTrue'
  BY <1>1, <1>2 DEF WorkFenced, WorkTrue, Working
<1>5. ReceiptsTrue'
  BY <1>1, <1>2 DEF ReceiptsTrue
<1>6. EffectsAreReserved' /\ EffectsFindOpenTarget'
  BY <1>1, <1>2 DEF EffectsAreReserved, EffectsFindOpenTarget
<1> QED
  BY <1>1, <1>3, <1>4, <1>5, <1>6

-----------------------------------------------------------------------------
(* The theorems.                                                           *)

\* Every step of any process keeps the invariant.
LEMMA LabStep == LabInvariant /\ [Next]_lvars => LabInvariant'
<1> SUFFICES ASSUME LabInvariant, [Next]_lvars PROVE LabInvariant'
  OBVIOUS
<1>1. CASE EnvironmentStep
  BY <1>1, EnvironmentTyped, EnvironmentCalm, CalmKeeps DEF LabInvariant
<1>2. ASSUME NEW e \in Executors, NEW c \in Clients, Accept(e, c) PROVE LabInvariant'
  BY <1>2, AcceptTyped, AcceptCalm, CalmKeeps DEF LabInvariant
<1>3. ASSUME NEW e \in Executors, Lookup(e) \/ Reserve(e) PROVE LabInvariant'
  BY <1>3, LookupKeeps, ReserveKeeps
<1>4. ASSUME NEW e \in Executors, ReadTarget(e) \/ Mutate(e) PROVE LabInvariant'
  BY <1>4, ReadTargetKeeps, MutateKeeps
<1>5. ASSUME NEW e \in Executors, Complete(e) \/ Reply(e) PROVE LabInvariant'
  BY <1>5, CompleteKeeps, ReplyKeeps
<1> QED
  BY <1>1, <1>2, <1>3, <1>4, <1>5 DEF Next, EnvironmentStep

\* Hence it holds throughout.
LEMMA LabAlways == Spec => []LabInvariant
<1>1. Init => LabInvariant
  BY LabStart
<1>2. LabInvariant /\ [Next]_lvars => LabInvariant'
  BY LabStep
<1> QED
  BY <1>1, <1>2, PTL DEF Spec

\* Processes, socket, files and journal keep their shapes, whoever is killed.
THEOREM LabTypeCorrect == Spec => []LabTypeOK
<1>1. LabInvariant => LabTypeOK
  BY TypedSuffices DEF LabInvariant
<1> QED
  BY <1>1, LabAlways, PTL

\* An idempotency key changes the target at most once, for the command that
\* reserved it before, whatever is retried, killed or replayed.
THEOREM KeysActOnce == Spec => []EffectsAreReserved
<1>1. LabInvariant => EffectsAreReserved
  BY DEF LabInvariant
<1> QED
  BY <1>1, LabAlways, PTL

\* No command is carried out on a target changed since its precondition was
\* read, although several executors may run against the one journal.
THEOREM PreconditionsHold == Spec => []EffectsFindOpenTarget
<1>1. LabInvariant => EffectsFindOpenTarget
  BY DEF LabInvariant
<1> QED
  BY <1>1, LabAlways, PTL

\* Every receipt sent is the one durable receipt of its key and tells what was
\* done on the target.
THEOREM AnswersTrue == Spec => []AnswersAreTrue
<1>1. LabInvariant => AnswersAreTrue
  <2> SUFFICES ASSUME LabInvariant PROVE AnswersAreTrue
    OBVIOUS
  <2> USE DEF LabInvariant
  <2>1. ASSUME NEW r \in replies
        PROVE  \E i \in DOMAIN journal :
                  /\ journal[i] = Record("COMPLETION", r.cmd, r)
                  /\ journal[i].kind = "COMPLETION" /\ journal[i].cmd = r.cmd
                  /\ journal[i].receipt = r
    BY <2>1 DEF ReceiptsTrue, Durable, Record
  <2>2. ASSUME NEW r \in replies, NEW q \in replies, q.cmd.key = r.cmd.key PROVE q = r
    BY <2>1, <2>2 DEF JournalSound
  <2>3. ASSUME NEW r \in replies PROVE Truthful(r)
    BY <2>1, <2>3 DEF ReceiptsTrue
  <2> QED
    BY <2>1, <2>2, <2>3 DEF AnswersAreTrue, Truthful
<1> QED
  BY <1>1, LabAlways, PTL

=============================================================================

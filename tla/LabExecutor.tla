---------------------------- MODULE LabExecutor ----------------------------
(***************************************************************************)
(* The Phase 4 lab: control clients sign commands and send them over a     *)
(* one-request socket to an executor, which fences them in an append-only  *)
(* journal around the mutation of one target; an observer reads the target *)
(* again for the client.  lab_services.py (journal, executor, observer),   *)
(* lab_nodes.py (processes), lab_transport.py (socket) and                 *)
(* lab_contracts.py (times, outcomes, correlation).                        *)
(*                                                                         *)
(* A signed message is the record of its meaning; its SHA-256 digest is    *)
(* the record itself.  Each use of the journal under its flock is one      *)
(* action; processes interleave and may be killed between actions.  Time   *)
(* is counted in skew allowances (30 s).  The mutation port is external:   *)
(* LabExecutorService is given it as apply_action.                         *)
(* A definition commented as a Variant is a plausible mistake in the one   *)
(* below it, used by no action: the README says which property notices it. *)
(***************************************************************************)
EXTENDS Naturals, Sequences, FiniteSets

CONSTANTS
    Clients,     \* control-client processes
    Persistent,  \* those that keep command.json in a control volume
    Executors,   \* executor processes that may run against the one journal
    Keys,        \* idempotency keys
    KeysOf,      \* the keys each client uses
    MaxRuns,     \* bound on the commands one client signs
    MaxRecords,  \* the journal's size bound, in records
    Lifetime,    \* expires_at - issued_at
    MaxTime,     \* bound on the clock
    MaxFaults,   \* bound on kills, timeouts and recoveries of a live socket
    Torn,        \* a command.json that was cut short
    Null

ASSUME LabAssumption ==
    /\ Persistent \subseteq Clients /\ KeysOf \in [Clients -> SUBSET Keys]
    /\ MaxRuns \in Nat /\ MaxRecords \in Nat /\ Lifetime \in Nat \ {0}
    /\ MaxTime \in Nat /\ MaxFaults \in Nat
    /\ {Null, Torn} \cap (Clients \cup Executors \cup Keys) = {} /\ Null # Torn

VARIABLES
    journal,  \* executor-replay.jsonl, one record per line
    torn,     \* TRUE when its last line is incomplete
    sock,     \* the executor that bound executor.sock, dead or alive, or Null
    exec,     \* per executor process, where its handler stands
    client,   \* per client process, where its run stands
    file,     \* per client, its command.json: Null, Torn or a command
    signed,   \* per client, how many commands it has signed (the nonces)
    rules,    \* the ruleset in force on the target
    effects,  \* history: what the mutation port did, and on which ruleset
    replies,  \* history: the receipts sent back
    now,
    faults

lvars == <<journal, torn, sock, exec, client, file, signed, rules, effects,
           replies, now, faults>>

-----------------------------------------------------------------------------
(* Messages, records and processes.                                        *)

Skew == 1
Commands == [client : Clients, run : 1..MaxRuns, key : Keys, issued : 0..MaxTime]
Outcomes == {"APPLIED", "PARTIAL", "AMBIGUOUS", "REJECTED", "UNAVAILABLE"}
Rulesets == {"OPEN", "BLOCKED", "PARTIAL"}
\* The receipt binds its command, the closed outcome and the poststate digest
\* (Null is the zero digest).
Receipts == [cmd : Commands, outcome : Outcomes, post : Rulesets \cup {Null},
             at : 0..MaxTime]
Records == [kind : {"RESERVATION", "COMPLETION"}, cmd : Commands,
            receipt : Receipts \cup {Null}]

Gone == [pc |-> "gone", cmd |-> Null, at |-> 0, out |-> Null]
ExecutorStates ==
    [pc : {"gone", "listening", "lookup", "reserve", "reserved", "ready",
           "decided", "replying"},
     cmd : Commands \cup {Null}, at : 0..MaxTime, out : Receipts \cup {Null}]
NotRunning == [pc |-> "stopped", cmd |-> Null, at |-> 0, to |-> Null, out |-> Null]
ClientStates ==
    [pc : {"stopped", "waiting", "connected", "received", "correlated"},
     cmd : Commands \cup {Null}, at : 0..MaxTime,
     to : Executors \cup {Null}, out : Receipts \cup {Null}]

Init ==
    /\ journal = <<>> /\ torn = FALSE /\ sock = Null
    /\ exec = [e \in Executors |-> Gone]
    /\ client = [c \in Clients |-> NotRunning]
    /\ file = [c \in Clients |-> Null]
    /\ signed = [c \in Clients |-> 0]
    /\ rules = "OPEN" /\ effects = <<>> /\ replies = {}
    /\ now = 0 /\ faults = 0

Unexpired(cmd, at) == at < cmd.issued + Lifetime
NotFromFuture(t, at) == t <= at + Skew

\* Variant: an exception of the mutation port is taken for a refusal.
ReceiptForOptimist(cmd, outcome, post, at) ==
    [cmd |-> cmd, at |-> at,
     outcome |-> IF outcome = "AMBIGUOUS" THEN "REJECTED" ELSE outcome,
     post |-> IF outcome \in {"REJECTED", "AMBIGUOUS"} THEN "OPEN"
              ELSE IF outcome = "UNAVAILABLE" THEN Null ELSE post]
\* NO_EFFECT promises the prestate, or nothing when it could not be read.
ReceiptFor(cmd, outcome, post, at) ==
    [cmd |-> cmd, outcome |-> outcome, at |-> at,
     post |-> CASE outcome = "REJECTED" -> "OPEN"
                [] outcome \in {"UNAVAILABLE", "AMBIGUOUS"} -> Null
                [] OTHER -> post]

-----------------------------------------------------------------------------
(* ExecutorReplayJournal.                                                  *)

Known(key) == \E i \in DOMAIN journal : journal[i].cmd.key = key
RowsOf(key, kind) == {i \in DOMAIN journal : journal[i].cmd.key = key /\ journal[i].kind = kind}
Completed(key) == RowsOf(key, "COMPLETION") # {}
StoredReceipt(key) == journal[CHOOSE i \in RowsOf(key, "COMPLETION") : TRUE].receipt
SameBytes(cmd) == \A i \in DOMAIN journal :
                      journal[i].cmd.key = cmd.key => journal[i].cmd = cmd
OpenKeys == {k \in Keys : Known(k) /\ ~Completed(k)}

\* _read_records refuses the journal whole unless its last line is complete and
\* every completion follows the one reservation of its key.
Readable ==
    /\ ~torn
    /\ \A i, j \in DOMAIN journal :
          journal[i].cmd.key = journal[j].cmd.key /\ journal[i].kind = journal[j].kind => i = j
    /\ \A i \in DOMAIN journal : journal[i].kind = "COMPLETION" =>
          \E j \in 1..(i - 1) : journal[j].kind = "RESERVATION" /\ journal[j].cmd = journal[i].cmd

\* Both replay_if_known and reserve_or_replay answer a known key this way:
\* other bytes conflict, an open reservation is fenced, else the stored receipt.
\* Variant: the expiry of the command is looked at first.
ReplayableUnexpired(cmd) ==
    /\ Unexpired(cmd, now)
    /\ Completed(cmd.key) /\ SameBytes(cmd)
Replayable(cmd) == Completed(cmd.key) /\ SameBytes(cmd)
\* Variant: an open reservation of the key itself is taken for a retry.
MayReserveAgain(cmd) == OpenKeys \subseteq {cmd.key}
\* Variant: only the command's own key is looked at.
MayReserveOwnKey(cmd) == ~Known(cmd.key)
MayReserve(cmd) == ~Known(cmd.key) /\ OpenKeys = {}
MayComplete(cmd) == cmd.key \in OpenKeys /\ SameBytes(cmd)

\* Variant: off by one.
FitsLoosely == Len(journal) <= MaxRecords
Fits == Len(journal) < MaxRecords
Record(kind, cmd, receipt) == [kind |-> kind, cmd |-> cmd, receipt |-> receipt]

-----------------------------------------------------------------------------
(* LabSeqpacketServer and recover_stale_socket.                            *)

\* A process that ends by itself unlinks the socket it bound, if still there.
SocketAfter(e) == IF sock = e THEN Null ELSE sock

\* open: an existing path is never replaced.
ServerOpen(e) ==
    /\ exec[e].pc = "gone" /\ sock = Null
    /\ exec' = [exec EXCEPT ![e] = [Gone EXCEPT !.pc = "listening"]]
    /\ sock' = e
    /\ UNCHANGED <<journal, torn, client, file, signed, rules, effects, replies, now, faults>>

ServerTimeout(e) ==
    /\ exec[e].pc = "listening"
    /\ \A c \in Clients : client[c].to # e
    /\ exec' = [exec EXCEPT ![e] = Gone]
    /\ sock' = SocketAfter(e)
    /\ UNCHANGED <<journal, torn, client, file, signed, rules, effects, replies, now, faults>>

\* The operator removes a socket; the code cannot tell a live one from a stale.
RecoverSocket ==
    /\ sock # Null
    /\ LET live == exec[sock].pc # "gone"
       IN  /\ live => faults < MaxFaults
           /\ faults' = IF live THEN faults + 1 ELSE faults
    /\ sock' = Null
    /\ UNCHANGED <<journal, torn, exec, client, file, signed, rules, effects, replies, now>>

\* Every client connected to an executor that goes away sees its peer close.
Dropped(cs, e) == [c \in Clients |-> IF cs[c].to = e THEN NotRunning ELSE cs[c]]

-----------------------------------------------------------------------------
(* The control client: run_control_client.                                 *)

\* Without a volume every run signs a new command; with one, only the first.
ClientSign(c, k) ==
    /\ client[c].pc = "stopped"
    /\ c \in Persistent => file[c] = Null
    /\ signed[c] < MaxRuns
    /\ LET cmd == [client |-> c, run |-> signed[c] + 1, key |-> k, issued |-> now]
       IN  /\ client' = [client EXCEPT ![c] =
                 [NotRunning EXCEPT !.pc = "waiting", !.cmd = cmd, !.at = now]]
           /\ file' = [file EXCEPT ![c] = IF c \in Persistent THEN cmd ELSE Null]
    /\ signed' = [signed EXCEPT ![c] = @ + 1]
    /\ UNCHANGED <<journal, torn, sock, exec, rules, effects, replies, now, faults>>

\* Killed between O_EXCL and fsync: no later run can authenticate the file.
ClientTears(c) ==
    /\ client[c].pc = "stopped" /\ c \in Persistent /\ file[c] = Null
    /\ faults < MaxFaults
    /\ file' = [file EXCEPT ![c] = Torn]
    /\ faults' = faults + 1
    /\ UNCHANGED <<journal, torn, sock, exec, client, signed, rules, effects,
                   replies, now>>

\* allow_expired: an expired command may still be asked about.
ClientReload(c) ==
    /\ client[c].pc = "stopped" /\ file[c] \in Commands
    /\ NotFromFuture(file[c].issued, now)
    /\ client' = [client EXCEPT ![c] =
          [NotRunning EXCEPT !.pc = "waiting", !.cmd = file[c], !.at = now]]
    /\ UNCHANGED <<journal, torn, sock, exec, file, signed, rules, effects,
                   replies, now, faults>>

\* Connecting to the path, behind a live listener, and sending the command.
ClientConnect(c) ==
    /\ client[c].pc = "waiting"
    /\ sock # Null /\ exec[sock].pc = "listening"
    /\ client' = [client EXCEPT ![c].pc = "connected", ![c].to = sock]
    /\ UNCHANGED <<journal, torn, sock, exec, file, signed, rules, effects,
                   replies, now, faults>>

\* No socket or no answer in time, from the executor or from the observer.
ClientGivesUp(c) ==
    /\ client[c].pc \in {"waiting", "connected", "received"}
    /\ faults < MaxFaults
    /\ client' = [client EXCEPT ![c] = NotRunning]
    /\ faults' = faults + 1
    /\ UNCHANGED <<journal, torn, sock, exec, file, signed, rules, effects,
                   replies, now>>

\* The observer reports what it reads from the target on its own.
Observation == rules
\* The three messages correlate only if the observation shows the poststate.
Correlates(receipt, seen) == receipt.post = seen

\* A run whose messages do not correlate fails.
ClientObserve(c) ==
    /\ client[c].pc = "received"
    /\ client' = [client EXCEPT ![c] =
          IF Correlates(client[c].out, Observation) THEN [@ EXCEPT !.pc = "correlated"]
                                        ELSE NotRunning]
    /\ UNCHANGED <<journal, torn, sock, exec, file, signed, rules, effects,
                   replies, now, faults>>

-----------------------------------------------------------------------------
(* LabExecutorService.handle, step by step.                                *)

Held == UNCHANGED <<file, signed, rules, effects, now, faults>>

\* An exception ends the process; its client sees the connection closed.
Fails(e) ==
    /\ exec' = [exec EXCEPT ![e] = Gone]
    /\ sock' = SocketAfter(e)
    /\ client' = Dropped(client, e)
    /\ UNCHANGED <<journal, torn, replies>>

Goes(e, pc, receipt) ==
    /\ exec' = [exec EXCEPT ![e].pc = pc, ![e].out = receipt]
    /\ UNCHANGED <<sock, client, torn, replies>>

\* accept and authenticate; the clock is read once, before the lookup.
Accept(e, c) ==
    /\ exec[e].pc = "listening" /\ client[c].to = e
    /\ IF NotFromFuture(client[c].cmd.issued, now)
       THEN /\ exec' = [exec EXCEPT ![e] =
                   [Gone EXCEPT !.pc = "lookup", !.cmd = client[c].cmd, !.at = now]]
            /\ client' = [d \in Clients |->
                   IF d # c /\ client[d].to = e THEN NotRunning ELSE client[d]]
            /\ UNCHANGED <<journal, torn, sock, replies>>
       ELSE Fails(e)
    /\ Held

\* The stored receipt is sent again, if it validates at the clock already read.
Replays(e) ==
    LET receipt == StoredReceipt(exec[e].cmd.key)
    IN  IF NotFromFuture(receipt.at, exec[e].at)
        THEN Goes(e, "replying", receipt) /\ UNCHANGED journal
        ELSE Fails(e)

\* A known command is answered even when it has expired.
Lookup(e) ==
    /\ exec[e].pc = "lookup"
    /\ LET cmd == exec[e].cmd
       IN  IF Readable /\ Replayable(cmd) THEN Replays(e)
           ELSE IF Readable /\ ~Known(cmd.key) /\ Unexpired(cmd, exec[e].at)
           THEN Goes(e, "reserve", Null) /\ UNCHANGED journal
           ELSE Fails(e)
    /\ Held

Reserve(e) ==
    /\ exec[e].pc = "reserve"
    /\ LET cmd == exec[e].cmd
       IN  IF Readable /\ Replayable(cmd) THEN Replays(e)
           ELSE IF Readable /\ MayReserve(cmd) /\ Fits
           THEN /\ journal' = Append(journal, Record("RESERVATION", cmd, Null))
                /\ Goes(e, "reserved", Null)
           ELSE Fails(e)
    /\ Held

\* The read fails, or the target is not as the command has it, or effects are
\* not enabled: nothing is mutated.  An open target is in order.
ReadTarget(e) ==
    /\ exec[e].pc = "reserved"
    /\ LET outcome(o) == ReceiptFor(exec[e].cmd, o, Null, exec[e].at)
       IN  \/ Goes(e, "decided", outcome("UNAVAILABLE"))
           \/ Goes(e, "decided", outcome("REJECTED"))
           \/ rules = "OPEN" /\ Goes(e, "ready", Null)
    /\ UNCHANGED journal /\ Held

\* The mutation port: it reports what it did, or raises having done it or not.
Mutate(e) ==
    /\ exec[e].pc = "ready"
    /\ \E to \in Rulesets, outcome \in Outcomes \ {"UNAVAILABLE"} :
          /\ CASE outcome = "APPLIED" -> to = "BLOCKED"
               [] outcome = "PARTIAL" -> to = "PARTIAL"
               [] outcome = "REJECTED" -> to = rules
               [] OTHER -> to \in {rules, "BLOCKED"}
          /\ rules' = to
          /\ effects' = IF to = rules THEN effects
                        ELSE Append(effects, [cmd |-> exec[e].cmd, on |-> rules])
          /\ Goes(e, "decided", ReceiptFor(exec[e].cmd, outcome, to, exec[e].at))
    /\ UNCHANGED <<journal, file, signed, now, faults>>

Complete(e) ==
    /\ exec[e].pc = "decided"
    /\ LET cmd == exec[e].cmd
       IN  IF Readable /\ MayComplete(cmd) /\ Fits
           THEN /\ journal' = Append(journal, Record("COMPLETION", cmd, exec[e].out))
                /\ Goes(e, "replying", exec[e].out)
           ELSE Fails(e)
    /\ Held

\* The client checks the receipt against the clock of its own start.
Reply(e) ==
    /\ exec[e].pc = "replying"
    /\ replies' = replies \cup {exec[e].out}
    /\ client' = [c \in Clients |->
          IF client[c].to # e THEN client[c]
          ELSE IF NotFromFuture(exec[e].out.at, client[c].at)
               THEN [client[c] EXCEPT !.pc = "received", !.to = Null, !.out = exec[e].out]
               ELSE NotRunning]
    /\ exec' = [exec EXCEPT ![e] = Gone]
    /\ sock' = SocketAfter(e)
    /\ UNCHANGED <<journal, torn>> /\ Held

-----------------------------------------------------------------------------
(* The environment.                                                        *)

\* A kill leaves the socket; in the middle of an append also half a line.
Kill(e) ==
    /\ exec[e].pc # "gone" /\ faults < MaxFaults
    /\ exec' = [exec EXCEPT ![e] = Gone]
    /\ client' = Dropped(client, e)
    /\ \/ torn' = torn
       \/ torn' = TRUE /\ exec[e].pc = "reserve" /\ MayReserve(exec[e].cmd)
       \/ torn' = TRUE /\ exec[e].pc = "decided"
    /\ faults' = faults + 1
    /\ UNCHANGED <<journal, sock, file, signed, rules, effects, replies, now>>

\* The isolation is rolled back on the target.
Rollback ==
    /\ rules # "OPEN"
    /\ rules' = "OPEN"
    /\ UNCHANGED <<journal, torn, sock, exec, client, file, signed, effects,
                   replies, now, faults>>

Tick ==
    /\ now < MaxTime
    /\ now' = now + 1
    /\ UNCHANGED <<journal, torn, sock, exec, client, file, signed, rules, effects,
                   replies, faults>>

Next ==
    \/ \E e \in Executors :
          \/ ServerOpen(e) \/ ServerTimeout(e) \/ Kill(e)
          \/ \E c \in Clients : Accept(e, c)
          \/ Lookup(e) \/ Reserve(e) \/ ReadTarget(e) \/ Mutate(e)
          \/ Complete(e) \/ Reply(e)
    \/ \E c \in Clients :
          \/ \E k \in KeysOf[c] : ClientSign(c, k)
          \/ ClientTears(c) \/ ClientReload(c) \/ ClientConnect(c)
          \/ ClientGivesUp(c) \/ ClientObserve(c)
    \/ RecoverSocket \/ Rollback \/ Tick

\* Executors are restarted, stale sockets recovered and a client with a command
\* on file runs again until it is answered; an executor serves 15 s while a
\* client polls every 50 ms for 10 s, and connections are accepted in order.
Fairness ==
    /\ WF_lvars(RecoverSocket /\ exec[sock].pc = "gone")
    /\ WF_lvars(\E e \in Executors : ServerOpen(e))
    /\ \A e \in Executors :
          WF_lvars(\/ ServerTimeout(e) \/ Lookup(e) \/ Reserve(e) \/ ReadTarget(e)
                   \/ Mutate(e) \/ Complete(e) \/ Reply(e))
    /\ \A c \in Persistent :
          /\ WF_lvars(ClientReload(c))
          /\ SF_lvars(ClientConnect(c))
          /\ SF_lvars(\E e \in Executors : Accept(e, c))

Spec == Init /\ [][Next]_lvars /\ Fairness

-----------------------------------------------------------------------------
(* Properties.                                                             *)

\* The type invariant.
LabTypeOK ==
    /\ journal \in Seq(Records) /\ Len(journal) <= MaxRecords
    /\ torn \in BOOLEAN
    /\ sock \in Executors \cup {Null}
    /\ exec \in [Executors -> ExecutorStates]
    /\ client \in [Clients -> ClientStates]
    /\ file \in [Clients -> Commands \cup {Null, Torn}]
    /\ signed \in [Clients -> 0..MaxRuns]
    /\ rules \in Rulesets
    /\ effects \in Seq([cmd : Commands, on : Rulesets])
    /\ replies \subseteq Receipts
    /\ now \in 0..MaxTime /\ faults \in 0..MaxFaults

Reserved(cmd) == \E i \in DOMAIN journal :
                    journal[i] = Record("RESERVATION", cmd, Null)
EffectOf(cmd) == \E i \in DOMAIN effects : effects[i].cmd = cmd

\* Whatever is retried, killed or replayed, an idempotency key changes the target
\* at most once, for the command that reserved it before (handle).
EffectsAreReserved ==
    /\ \A i \in DOMAIN effects : Reserved(effects[i].cmd)
    /\ \A i, j \in DOMAIN effects : effects[i].cmd.key = effects[j].cmd.key => i = j

\* Two executors may run against one journal once a live socket was recovered;
\* still no command is carried out on a target another one has changed since
\* its precondition was read (the fence of reserve_or_replay).
EffectsFindOpenTarget == \A i \in DOMAIN effects : effects[i].on = "OPEN"

\* Every receipt sent is the one durable receipt of its key, and it is true of
\* the target's history: nothing was done where it says so, then or later.
AnswersAreTrue ==
    \A r \in replies :
        /\ \E i \in DOMAIN journal : journal[i] = Record("COMPLETION", r.cmd, r)
        /\ \A q \in replies : q.cmd.key = r.cmd.key => q = r
        /\ r.outcome \in {"APPLIED", "PARTIAL"} => EffectOf(r.cmd)
        /\ r.outcome \in {"REJECTED", "UNAVAILABLE"} => ~EffectOf(r.cmd)

\* What can keep a persisted command from an answer for good.
AtWork(cmd) == \E e \in Executors :
    exec[e].cmd = cmd /\ exec[e].pc \in {"reserved", "ready", "decided"}
Blocked(cmd) ==
    \/ torn \/ Len(journal) >= MaxRecords
    \/ \E i \in DOMAIN journal : journal[i].cmd.key \in OpenKeys /\ ~AtWork(journal[i].cmd)
    \/ ~SameBytes(cmd)
    \/ ~Known(cmd.key) /\ ~Unexpired(cmd, now)

Settled(c) ==
    /\ file[c] \in Commands
    /\ (\E r \in replies : r.cmd = file[c]) \/ Blocked(file[c])

\* A command that reached command.json gets its receipt back, unless the journal
\* is torn, full or fenced by an abandoned reservation, its key is taken, or it
\* expired before it was reserved (run_control_client, run again and again).
PersistedCommandsSettle ==
    \A c \in Persistent : file[c] \in Commands ~> Settled(c)

=============================================================================

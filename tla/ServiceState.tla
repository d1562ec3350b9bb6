---------------------------- MODULE ServiceState ----------------------------
(***************************************************************************)
(* The state directory of the Stage A service: its secrets, the three      *)
(* authoritative files and the marker that binds them, and the processes   *)
(* that initialize, serve, back up and restore them (service.py,           *)
(* service_backup.py, service_secret_stage.py, the opening code of         *)
(* phase3/engine.py and of the two stores in stage_a.py).                  *)
(*                                                                         *)
(* A file is known by its inode and, for a store, by the identity in its   *)
(* metadata table; of its contents the model keeps which requests it holds *)
(* as open and as finished.  What the rows of a lifecycle are is the       *)
(* subject of module Lifecycle.                                            *)
(***************************************************************************)
EXTENDS Integers, Sequences, FiniteSets

CONSTANTS
  Procs,        \* operating-system processes of the service's owner
  Requests,     \* synthetic requests of one configured principal
  Names,        \* the secrets a configuration names
  Values,       \* what the projected source may hold for a secret
  None,
  MaxCrashes,   \* processes killed
  MaxLosses,    \* removals of files from the state directory by the operator
  MaxRotations, \* rotations of the projected secrets, and emptied stagings
  MaxBackups    \* backup directories

Roles == {"init", "serve", "backup", "restore"}

\* A projected secret has a value; None is what is not there.
ASSUME ServiceAssumption ==
  /\ IsFiniteSet(Requests) /\ IsFiniteSet(Names) /\ Values # {}
  /\ None \notin Procs \cup Requests \cup Values \cup Roles
  /\ {MaxCrashes, MaxLosses, MaxRotations, MaxBackups} \subseteq Nat

Stores == {"control", "adapter"}
Artifacts == {"audit", "control", "adapter"}
\* BACKUP_STATE_FILES: the order in which the files are copied.
CopyOrder == <<"audit", "control", "adapter">>

Absent == [ino |-> 0, id |-> 0, torn |-> FALSE, open |-> {}, done |-> {},
           twice |-> {}, by |-> {}]
NoMarker == [ino |-> 0]
TornMarker == [ino |-> -1]

VARIABLES
  projected,  \* the secret source the orchestrator mounts: a value per name
  staged,     \* the service's own secret directory: a value or None per name
  stager,     \* names the running staging has yet to copy, or None
  disk,       \* the authoritative files of the state directory
  marker,     \* service-state.json
  lock,       \* the process that holds the startup and the audit lock
  proc,       \* what each process is doing
  backups,    \* committed backup directories
  answered,   \* <<audit inode, request>> of every result answered with 200
  inodes,     \* inodes allocated so far
  crashes, losses, rotations

vars == <<projected, staged, stager, disk, marker, lock, proc, backups,
          answered, inodes, crashes, losses, rotations>>
counters == <<crashes, losses, rotations>>
secrets == <<projected, staged, stager>>

Exists(a) == disk[a].ino # 0
Empty == /\ \A a \in Artifacts : ~Exists(a)
         /\ marker = NoMarker
New(n) == [Absent EXCEPT !.ino = n, !.id = n]

Off == [at |-> "off", role |-> None, cfg |-> None, ids |-> [a \in Artifacts |-> Absent],
        mark |-> NoMarker, req |-> None, from |-> None, copy |-> None]

Init ==
  /\ projected \in [Names -> {CHOOSE v \in Values : TRUE}]
  /\ staged = [n \in Names |-> None] /\ stager = None
  /\ disk = [a \in Artifacts |-> Absent] /\ marker = NoMarker
  /\ lock = None /\ proc = [p \in Procs |-> Off]
  /\ backups = {} /\ answered = {} /\ inodes = 0
  /\ crashes = 0 /\ losses = 0 /\ rotations = 0

\* Process p goes on at step s, or ends.
Go(p, s) == proc' = [proc EXCEPT ![p].at = s]
End(p) == proc' = [proc EXCEPT ![p] = Off]
\* A call is answered, and the process waits for the next one.
Answer(p) == proc' = [proc EXCEPT ![p].at = "serving", ![p].req = None]

-----------------------------------------------------------------------------
(* Secrets.                                                                *)

\* The destination must be empty, and every name is created once.
StageBegin ==
  /\ stager = None /\ \A n \in Names : staged[n] = None
  /\ stager' = Names
  /\ UNCHANGED <<projected, staged, disk, marker, lock, proc, backups, answered,
                 inodes, counters>>

StageOne(n) ==
  /\ stager # None /\ n \in stager
  /\ staged' = [staged EXCEPT ![n] = projected[n]]
  /\ stager' = IF stager = {n} THEN None ELSE stager \ {n}
  /\ UNCHANGED <<projected, disk, marker, lock, proc, backups, answered, inodes,
                 counters>>

StageDies ==
  /\ stager # None /\ crashes < MaxCrashes
  /\ crashes' = crashes + 1 /\ stager' = None
  /\ UNCHANGED <<projected, staged, disk, marker, lock, proc, backups, answered,
                 inodes, losses, rotations>>

\* The orchestrator swaps the projected directory, under a running staging or
\* with the operator emptying the staged one: outside the program.
Rotate ==
  /\ rotations < MaxRotations /\ rotations' = rotations + 1
  /\ \E v \in Values :
       v \notin {projected[n] : n \in Names} /\ projected' = [n \in Names |-> v]
  /\ \/ UNCHANGED staged
     \/ stager = None /\ staged' = [n \in Names |-> None]
  /\ UNCHANGED <<stager, disk, marker, lock, proc, backups, answered, inodes,
                 crashes, losses>>

-----------------------------------------------------------------------------
(* Loading the configuration.                                              *)

\* _load_configuration: every named secret must be readable.
Loadable == \A n \in Names : staged[n] # None

\* _state_directory with expect_empty FALSE, then _read_marker.
MarkerReads(cfg) ==
  /\ \A a \in Artifacts : Exists(a)
  /\ marker \notin {NoMarker, TornMarker}
  /\ marker.cfg = cfg

\* _validated_manifest.
ManifestFits(b, cfg) == b.cfg = cfg

\* The runbook asks for it, and the copying of a restore is under no lock:
\* nobody initializes or restores the directory while another restores it.
KeptApart(p, role) ==
  \A q \in Procs \ {p} :
    /\ role = "restore" => proc[q].role \notin {"init", "restore"}
    /\ role = "init" => proc[q].role # "restore"

Begin(p, role) ==
  /\ proc[p].at = "off" /\ Loadable /\ KeptApart(p, role)
  /\ \/ /\ role = "init" /\ Empty
        /\ proc' = [proc EXCEPT ![p] = [Off EXCEPT !.at = "opening", !.role = role,
                                                   !.cfg = staged]]
     \/ /\ role = "restore" /\ Empty
        /\ \E b \in backups :
             /\ ManifestFits(b, staged)
             /\ proc' = [proc EXCEPT ![p] = [Off EXCEPT !.at = "copy", !.role = role,
                                                        !.cfg = staged, !.from = b]]
     \/ /\ role \in {"serve", "backup"} /\ MarkerReads(staged)
        /\ role = "backup" => Cardinality(backups) < MaxBackups
        /\ proc' = [proc EXCEPT ![p] = [Off EXCEPT !.at = "opening", !.role = role,
                                                   !.cfg = staged, !.mark = marker]]
  /\ UNCHANGED <<secrets, disk, marker, lock, backups, answered, inodes, counters>>

-----------------------------------------------------------------------------
(* Opening the durable state under the startup lock.                       *)

Claims == disk["control"].open \cup disk["control"].done

\* _validate_durable_store_correlation and _validate_durable_audit_continuity:
\* every claim has exactly one lifecycle, a finished one exactly one complete
\* account, and an effect belongs to a claim.
Continuous ==
  /\ disk["audit"].open \cap disk["audit"].done = {}
  /\ disk["audit"].open \cup disk["audit"].done = Claims
  /\ disk["control"].done \subseteq disk["audit"].done \ disk["audit"].twice
  /\ disk["adapter"].done \subseteq Claims

\* Variant: unfinished work of others does not keep a writer out.
FenceForRecovery == Continuous

\* What a request must find before it may work: nothing is left unfinished.
Fence == Continuous /\ disk["control"].open = {}

\* Existing files are read and checked before any is opened for writing, and
\* a set of which only a part exists is never completed.
PreflightPasses ==
  /\ \A s \in Stores : ~disk[s].torn
  /\ (\E a \in Artifacts : Exists(a)) => \A a \in Artifacts : Exists(a)
  /\ disk["adapter"].done \subseteq Claims

Preflight(p) ==
  /\ proc[p].at = "opening" /\ lock = None
  /\ IF PreflightPasses THEN lock' = p /\ Go(p, "control") ELSE End(p) /\ UNCHANGED lock
  /\ UNCHANGED <<secrets, disk, marker, backups, answered, inodes, counters>>

\* Where the opened process goes on.
Opened(role) == CASE role = "init" -> "ready" [] role = "restore" -> "identify"
                  [] OTHER -> "verify"
NextOpening(a) == CASE a = "control" -> "adapter" [] a = "adapter" -> "audit"

\* A file that exists by now is opened, one that does not is created: a store
\* with a new identity; the audit file only beside stores that hold nothing.
\* A store without its tables is refused; of an audit file that is still being
\* copied the rows read so far may well be a chain.
OpenArtifact(p, a) ==
  LET created == New(inodes + 1)
      file == IF Exists(a) THEN disk[a] ELSE created
      opens == \/ Exists(a) /\ (disk[a].torn => a = "audit")
               \/ ~Exists(a) /\ (a = "audit" => Claims \cup disk["adapter"].done = {})
      bound == [proc[p] EXCEPT !.ids[a] = file]
  IN
  /\ proc[p].at = a /\ lock = p
  /\ IF opens
     THEN /\ disk' = [disk EXCEPT ![a] = file]
          /\ inodes' = IF Exists(a) THEN inodes ELSE inodes + 1
     ELSE UNCHANGED <<disk, inodes>>
  /\ CASE ~opens \/ (a = "audit" /\ Exists(a) /\ ~Continuous) ->
            /\ lock' = None /\ End(p)
       [] opens /\ a # "audit" ->
            /\ proc' = [proc EXCEPT ![p] = [bound EXCEPT !.at = NextOpening(a)]]
            /\ UNCHANGED lock
       [] OTHER ->
            /\ proc' = [proc EXCEPT ![p] = [bound EXCEPT !.at = Opened(proc[p].role)]]
            /\ lock' = None
  /\ UNCHANGED <<secrets, marker, backups, answered, counters>>

\* A lock not acquired within the configured bound ends a start with
\* DURABLE_STARTUP_BUSY and a request with 503.
Waiting == {"opening", "ready", "stage", "look", "process", "check"}
Busy(p) ==
  /\ proc[p].at \in Waiting /\ lock \notin {None, p}
  /\ IF proc[p].role = "serve" /\ proc[p].at # "opening"
     THEN Answer(p) ELSE End(p)
  /\ UNCHANGED <<secrets, disk, marker, lock, backups, answered, inodes, counters>>

\* Variant: the path is enough.
BoundByPath(p, a) == Exists(a)

\* The paths still name the files p bound (_assert_runtime_identity, the audit
\* descriptor's identity).
Bound(p, a) == /\ disk[a].ino = proc[p].ids[a].ino
               /\ a \in Stores => disk[a].id = proc[p].ids[a].id
AllBound(p) == \A a \in Artifacts : Bound(p, a)

\* readiness_snapshot of a new state.
Ready(p) ==
  /\ proc[p].at = "ready" /\ lock = None
  /\ IF AllBound(p) /\ Fence THEN Go(p, "mark") ELSE End(p)
  /\ UNCHANGED <<secrets, disk, marker, lock, backups, answered, inodes, counters>>

\* A restored set must carry the identities its manifest names.
Identify(p) ==
  /\ proc[p].at = "identify"
  /\ IF \A s \in Stores : proc[p].ids[s].id = proc[p].from.files[s].id
     THEN Go(p, "mark") ELSE End(p)
  /\ UNCHANGED <<secrets, disk, marker, lock, backups, answered, inodes, counters>>

\* _marker_value reads the inode of the audit file from its path, not from the
\* file that was opened.
MarkerOf(p) == [ino |-> disk["audit"].ino, cfg |-> proc[p].cfg,
                control |-> proc[p].ids["control"].id,
                adapter |-> proc[p].ids["adapter"].id]

Mark(p) ==
  /\ proc[p].at = "mark"
  /\ marker' = IF marker = NoMarker /\ Exists("audit") THEN MarkerOf(p) ELSE marker
  /\ End(p)
  /\ UNCHANGED <<secrets, disk, lock, backups, answered, inodes, counters>>

Verify(p) ==
  /\ proc[p].at = "verify"
  /\ IF proc[p].mark = MarkerOf(p) /\ Exists("audit")
     THEN Go(p, IF proc[p].role = "serve" THEN "serving" ELSE "stage")
     ELSE End(p)
  /\ UNCHANGED <<secrets, disk, marker, lock, backups, answered, inodes, counters>>

-----------------------------------------------------------------------------
(* Serving.                                                                *)

Submit(p, r) ==
  /\ proc[p].at = "serving"
  /\ proc' = [proc EXCEPT ![p].at = "look", ![p].req = r]
  /\ UNCHANGED <<secrets, disk, marker, lock, backups, answered, inodes, counters>>

\* Variant: a request that is claimed is found.
FoundClaimed(r) == r \in disk["control"].open \cup disk["control"].done

\* lookup_request_result finds a terminal result only.
Found(r) == r \in disk["control"].done

\* The result is looked up before and after the processing; 200 is answered
\* for a result that was found and for nothing else.
Look(p) ==
  LET r == proc[p].req
      reads == AllBound(p) /\ Continuous
  IN
  /\ proc[p].at \in {"look", "check"} /\ lock = None
  /\ IF reads /\ Found(r)
     THEN /\ answered' = answered \cup {<<disk["audit"].ino, r>>}
          /\ Answer(p)
     ELSE /\ UNCHANGED answered
          /\ IF reads /\ proc[p].at = "look" THEN Go(p, "process")
                                             ELSE Answer(p)
  /\ UNCHANGED <<secrets, disk, marker, lock, backups, inodes, counters>>

\* process_json takes the locks, and the fence refuses unfinished work.  A body
\* that is rejected leaves a closed lifecycle without a claim: nothing here.
Enter(p) ==
  /\ proc[p].at = "process" /\ lock = None
  /\ \/ /\ AllBound(p) /\ Fence
        /\ \/ lock' = p /\ Go(p, "receive")
           \/ UNCHANGED lock /\ Go(p, "check")
     \/ /\ ~(AllBound(p) /\ Fence)
        /\ UNCHANGED lock /\ Answer(p)
  /\ UNCHANGED <<secrets, disk, marker, backups, answered, inodes, counters>>

\* Variant: a refused write ends the call without releasing the locks.
WriteWithoutFinally(p, a, file, next) ==
  /\ lock = p
  /\ IF Bound(p, a)
     THEN /\ disk' = [disk EXCEPT ![a] = file]
          /\ IF next = "check" THEN lock' = None ELSE UNCHANGED lock
          /\ Go(p, next)
     ELSE UNCHANGED <<disk, lock>> /\ Answer(p)
  /\ UNCHANGED <<secrets, marker, backups, answered, inodes, counters>>

\* One durable write of a call that holds the locks: it is refused, and the
\* call ends, when the path no longer names the file p bound.
Write(p, a, file, next) ==
  /\ lock = p
  /\ IF Bound(p, a)
     THEN /\ disk' = [disk EXCEPT ![a] = file]
          /\ IF next = "check" THEN lock' = None ELSE UNCHANGED lock
          /\ Go(p, next)
     ELSE UNCHANGED disk /\ lock' = None /\ Answer(p)
  /\ UNCHANGED <<secrets, marker, backups, answered, inodes, counters>>

\* A request closed for the second time has two complete accounts.
DoneIn(a, r) == [disk[a] EXCEPT !.open = @ \ {r}, !.done = @ \cup {r},
                                !.twice = @ \cup ({r} \cap disk[a].done)]

\* REQUEST_RECEIVED and REQUEST_VALIDATED.
Receive(p) ==
  /\ proc[p].at = "receive"
  /\ Write(p, "audit", [disk["audit"] EXCEPT !.open = @ \cup {proc[p].req}], "claim")

\* A request that was claimed meanwhile is a repeat: its own lifecycle closes
\* and changes nothing else.
Claim(p) ==
  LET r == proc[p].req IN
  /\ proc[p].at = "claim"
  /\ IF r \in Claims
     THEN Write(p, "audit", [disk["audit"] EXCEPT !.open = @ \ {r}], "check")
     ELSE Write(p, "control", [disk["control"] EXCEPT !.open = @ \cup {r},
                                                      !.by = @ \cup {proc[p].cfg}], "act")

\* The decision permits an effect, or it does not.
Act(p) ==
  /\ proc[p].at = "act"
  /\ \/ Write(p, "adapter", DoneIn("adapter", proc[p].req), "final")
     \/ Write(p, "adapter", disk["adapter"], "final")

Final(p) == proc[p].at = "final" /\ Write(p, "audit", DoneIn("audit", proc[p].req), "close")
Close(p) == proc[p].at = "close" /\ Write(p, "control", DoneIn("control", proc[p].req), "check")

\* reconcile_request closes what a crash left open: the recovery records, then
\* the control row.
Reconcile(p, r) ==
  /\ proc[p].at = "serving" /\ lock = None
  /\ AllBound(p) /\ Continuous /\ r \in disk["control"].open
  /\ lock' = p
  /\ proc' = [proc EXCEPT ![p].at = "final", ![p].req = r]
  /\ UNCHANGED <<secrets, disk, marker, backups, answered, inodes, counters>>

Stop(p) ==
  /\ proc[p].at = "serving" /\ End(p)
  /\ UNCHANGED <<secrets, disk, marker, lock, backups, answered, inodes, counters>>

-----------------------------------------------------------------------------
(* Cold backup.                                                            *)

\* Under both locks: the fence of an ordinary request, and the marker again.
BackupBegins(p) ==
  /\ proc[p].at = "stage" /\ lock = None
  /\ IF /\ AllBound(p) /\ Fence
        /\ marker = proc[p].mark /\ proc[p].mark = MarkerOf(p)
     THEN /\ lock' = p
          /\ proc' = [proc EXCEPT ![p].at = "copy", ![p].copy =
                 [cfg |-> proc[p].cfg,
                  files |-> [a \in Artifacts |-> Absent],
                  owed |-> {r \in Requests : <<disk["audit"].ino, r>> \in answered}]]
     ELSE UNCHANGED lock /\ End(p)
  /\ UNCHANGED <<secrets, disk, marker, backups, answered, inodes, counters>>

\* The next file to copy is the first of CopyOrder that is not copied.
NextOf(copied) == CopyOrder[CHOOSE i \in 1..3 :
                              /\ CopyOrder[i] \notin copied
                              /\ \A j \in 1..(i - 1) : CopyOrder[j] \in copied]
Copied(p) == {a \in Artifacts : proc[p].copy.files[a].ino # 0}

BackupCopies(p) ==
  /\ proc[p].at = "copy" /\ proc[p].role = "backup"
  /\ LET a == NextOf(Copied(p))
     IN IF disk[a].ino = proc[p].ids[a].ino
        THEN /\ proc' = [proc EXCEPT ![p].copy.files[a] = disk[a],
                                     ![p].at = IF a = "adapter" THEN "rename" ELSE "copy"]
             /\ lock' = IF a = "adapter" THEN None ELSE lock
        ELSE lock' = None /\ End(p)
  /\ UNCHANGED <<secrets, disk, marker, backups, answered, inodes, counters>>

\* The staging directory is renamed after the locks are released.
BackupCommits(p) ==
  /\ proc[p].at = "rename"
  /\ backups' = IF Cardinality(backups) < MaxBackups THEN backups \cup {proc[p].copy}
                                                     ELSE backups
  /\ End(p)
  /\ UNCHANGED <<secrets, disk, marker, lock, answered, inodes, counters>>

-----------------------------------------------------------------------------
(* Cold restore: the files are copied without a lock, each created once.   *)

Started(p) == {a \in Artifacts : proc[p].ids[a].ino # 0}

RestoreCopies(p) ==
  LET a == NextOf(Started(p))
      file == [proc[p].from.files[a] EXCEPT !.ino = inodes + 1]
  IN
  /\ proc[p].at = "copy" /\ proc[p].role = "restore"
  /\ \/ /\ ~Exists(a)
        /\ disk' = [disk EXCEPT ![a] = [New(inodes + 1) EXCEPT !.torn = TRUE]]
        /\ proc' = [proc EXCEPT ![p].at = "write", ![p].ids[a] = file]
        /\ inodes' = inodes + 1
     \/ /\ Exists(a) /\ End(p) /\ UNCHANGED <<disk, inodes>>
  /\ UNCHANGED <<secrets, marker, lock, backups, answered, counters>>

\* The bytes are complete.  The path may have lost the file meanwhile.
RestoreWrites(p) ==
  LET a == CHOOSE b \in Started(p) :
             \A c \in Started(p) : proc[p].ids[c].ino <= proc[p].ids[b].ino
  IN
  /\ proc[p].at = "write"
  /\ disk' = IF disk[a].ino = proc[p].ids[a].ino
             THEN [disk EXCEPT ![a] = proc[p].ids[a]] ELSE disk
  /\ Go(p, IF a = "adapter" THEN "opening" ELSE "copy")
  /\ UNCHANGED <<secrets, marker, lock, backups, answered, inodes, counters>>

-----------------------------------------------------------------------------
(* The environment.                                                        *)

\* A killed process releases its locks.  It may leave the store or the marker
\* it was creating without its contents; such a file is never completed.
Crash(p) ==
  /\ proc[p].at # "off" /\ crashes < MaxCrashes
  /\ crashes' = crashes + 1
  /\ End(p) /\ lock' = IF lock = p THEN None ELSE lock
  /\ \/ UNCHANGED <<disk, marker, inodes>>
     \/ /\ proc[p].at \in Stores /\ ~Exists(proc[p].at)
        /\ disk' = [disk EXCEPT ![proc[p].at] = [New(inodes + 1) EXCEPT !.torn = TRUE]]
        /\ inodes' = inodes + 1
        /\ UNCHANGED marker
     \/ /\ proc[p].at = "mark" /\ marker = NoMarker
        /\ marker' = TornMarker
        /\ UNCHANGED <<disk, inodes>>
  /\ UNCHANGED <<secrets, backups, answered, losses, rotations>>

\* The operator moves the state away as the restore asks for, marker and all,
\* or loses some authoritative files.
Lose(gone) ==
  /\ losses < MaxLosses /\ ~Empty
  /\ losses' = losses + 1
  /\ \/ gone = Artifacts
     \/ gone # {} /\ \A a \in gone : Exists(a)
  /\ disk' = [a \in Artifacts |-> IF a \in gone THEN Absent ELSE disk[a]]
  /\ marker' = IF gone = Artifacts THEN NoMarker ELSE marker
  /\ UNCHANGED <<secrets, lock, proc, backups, answered, inodes, crashes, rotations>>

Next ==
  \/ StageBegin \/ (\E n \in Names : StageOne(n)) \/ StageDies \/ Rotate
  \/ \E p \in Procs :
       \/ \E role \in Roles : Begin(p, role)
       \/ Preflight(p) \/ (\E a \in Artifacts : OpenArtifact(p, a)) \/ Busy(p)
       \/ Ready(p) \/ Identify(p) \/ Mark(p) \/ Verify(p)
       \/ (\E r \in Requests : Submit(p, r) \/ Reconcile(p, r))
       \/ Look(p) \/ Enter(p) \/ Receive(p) \/ Claim(p) \/ Act(p) \/ Final(p) \/ Close(p)
       \/ Stop(p)
       \/ BackupBegins(p) \/ BackupCopies(p) \/ BackupCommits(p)
       \/ RestoreCopies(p) \/ RestoreWrites(p)
       \/ Crash(p)
  \/ \E gone \in SUBSET Artifacts : Lose(gone)

Spec == Init /\ [][Next]_vars

-----------------------------------------------------------------------------
(* Properties.                                                             *)

Files == [ino : Nat, id : Nat, torn : BOOLEAN, open : SUBSET Requests,
          done : SUBSET Requests, twice : SUBSET Requests, by : SUBSET [Names -> Values]]

\* The type invariant of the directory; the locks are held by a process that
\* is inside a section they protect, and by no other (service.py, engine.py
\* _exclusive_audit_execution).
Inside == Artifacts \cup {"receive", "claim", "act", "final", "close"}
ServiceTypeOK ==
  /\ disk \in [Artifacts -> Files]
  /\ staged \in [Names -> Values \cup {None}]
  /\ \A p \in Procs :
       (lock = p) <=> (\/ proc[p].at \in Inside
                       \/ proc[p].at = "copy" /\ proc[p].role = "backup")

\* The marker names the files the directory holds: the service can be started.
SetBound ==
  /\ marker \notin {NoMarker, TornMarker} /\ \A a \in Artifacts : Exists(a)
  /\ marker.ino = disk["audit"].ino
  /\ marker.control = disk["control"].id /\ marker.adapter = disk["adapter"].id

\* Whatever initializers, restores, servers, crashes and lost files went
\* before, a state the marker binds is one state: no store in it is half
\* written, every claim has a lifecycle and every effect a claim, and every
\* claim in it was made under the secrets the marker names (service.py
\* _verify_marker, service_backup.py restore_cold_backup, engine.py
\* _open_durable_state).
BoundSetIsOneState ==
  SetBound =>
    /\ \A s \in Stores : ~disk[s].torn
    /\ Claims \subseteq disk["audit"].open \cup disk["audit"].done
    /\ disk["control"].done \subseteq disk["audit"].done
    /\ disk["adapter"].done \subseteq Claims
    /\ disk["control"].by \subseteq {marker.cfg}

\* A backup taken while other processes serve, crash and reconcile is one cut
\* of the three files with nothing left open, and holds every result that was
\* answered before it began (service_backup.py create_cold_backup: "Create one
\* atomic, integrity-bound snapshot of a valid Stage A state").
BackupIsOneCut ==
  \A b \in backups :
    /\ \A a \in Artifacts : b.files[a].open = {} /\ ~b.files[a].torn
    /\ b.files["control"].done = b.files["audit"].done
    /\ b.files["adapter"].done \subseteq b.files["control"].done
    /\ b.owed \subseteq b.files["control"].done
    /\ b.files["control"].by \subseteq {b.cfg}

\* A result answered with 200 stays in the state it was answered from, closed
\* in the audit file and terminal in the ledger, as long as the marker binds
\* that state (service.py DecisionFirewallService.__call__).
AnswersStay ==
  \A a \in answered :
    SetBound /\ disk["audit"].ino = a[1] =>
      a[2] \in disk["audit"].done \cap disk["control"].done
=============================================================================

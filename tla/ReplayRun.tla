----------------------------- MODULE ReplayRun -----------------------------
(***************************************************************************)
(* One run of the Phase 2 replay harness (replay/harness.py), step by step,*)
(* while another program may change any file it works on: the governed     *)
(* sources, the input snapshots and the artifacts it has written           *)
(* (replay/secure_output.py for a historical run).                         *)
(*                                                                         *)
(* What a file holds is abstracted to what it was derived from: the        *)
(* version of the cases, of the model and policy and of the adjudications, *)
(* and which engine run wrote its volatile fields.  Two files are equal    *)
(* exactly when their digests are.                                         *)
(***************************************************************************)
EXTENDS Integers, Sequences, FiniteSets

CONSTANTS
  MaxChanges,  \* files changed by somebody else during the run
  Expires,     \* the time at which the Gate B authorization expires
  MaxTime      \* the clock stops here

ASSUME ReplayAssumption == MaxChanges \in Nat /\ Expires \in Nat /\ MaxTime \in Nat

\* The record failure policy of an ordinary run, and the historical run.
Modes == {"FAIL_DATASET", "QUARANTINE_RECORD", "HISTORICAL"}

\* "manifest" stands for the dataset manifest and, in a historical run, the
\* Gate B package; "model" for the model and the policy; "labels" for the
\* adjudications.
Roles == {"configuration", "manifest", "model", "cases", "labels"}
Outputs == {"normalized", "diagnostics", "decisions", "deterministic", "audit",
            "features", "path", "qualification", "rejections", "comparisons",
            "metrics"}
Items == Outputs \cup Roles \cup {"directory"}

\* The artifacts a run of each mode writes and binds.
Artifacts(m) ==
  IF m = "FAIL_DATASET" THEN Outputs \ {"qualification", "rejections"} ELSE Outputs

Absent == <<>>
Of(c, m, l, v) == <<c, m, l, v>>
Junk == Of(0, 0, 0, 0)

\* What a concurrent writer may leave in an artifact: rows of another run
\* where the harness takes its rows from the file, anything else otherwise.
Foreign(f) ==
  IF f \in {"decisions", "audit"}
  THEN {Of(c, m, 0, 1) : c \in 1..2, m \in 1..2} \cup {Junk, Absent}
  ELSE {Of(2, 2, 2, 1)}

VARIABLES
  mode,
  status,      \* "running", "failed" (the call raised) or "returned"
  pc,          \* the next step of the run's program
  source,      \* the governed files: a version per role, 1 the declared one
  snapshot,    \* input_snapshot/: a version per role, 0 when absent
  snapsha,     \* the digests the run holds for the snapshots
  read,        \* the bytes the run holds of each role, 0 when it holds none
  engine,      \* what the ordinary engine has loaded: <<cases, model>>
  disk,        \* the artifacts in the output directory
  rows,        \* the rows the run holds in memory for each artifact
  written,     \* replay_run_manifest.json has been written
  bound,       \* the output path still names the directory the run holds open
  now,
  changes,
  lastChange,  \* when somebody else last changed an item
  lapsedWith   \* artifacts the run had produced when the authorization lapsed

inputs == <<source, snapshot, snapsha>>
outputs == <<disk, rows, written>>
world == <<bound, now, changes, lastChange, lapsedWith>>
vars == <<mode, status, pc, inputs, read, engine, outputs, world>>

-----------------------------------------------------------------------------
(* The program: the order of the harness's calls.                          *)

Step(op, on) == [op |-> op, on |-> on]
Do(op) == <<Step(op, "-")>>
Each(op, items) == [i \in DOMAIN items |-> Step(op, items[i])]

Controls == <<"configuration", "manifest", "model">>
Governed == Controls \o <<"cases">>
Labelled == Governed \o <<"labels">>
Recorded == <<"normalized", "decisions", "deterministic", "audit">>
Qualification == <<"qualification", "rejections">>
Receipts == <<"features", "path">>

\* Variant of Sweep: the diagnostics are left out.
SweepWithoutDiagnostics(m) == Each("verify",
  <<"normalized", "decisions", "deterministic", "audit", "features", "path">>
  \o (IF m = "FAIL_DATASET" THEN <<>> ELSE Qualification)
  \o <<"comparisons", "metrics">>)

\* verify_bound_outputs
Sweep(m) == Each("verify",
  <<"normalized", "diagnostics", "decisions", "deterministic", "audit",
    "features", "path">>
  \o (IF m = "HISTORICAL" THEN Qualification \o <<"comparisons", "metrics">>
      ELSE <<"comparisons", "metrics">>
           \o (IF m = "FAIL_DATASET" THEN <<>> ELSE Qualification)))

\* run, from the output directory to the loaded cases.
OrdinaryInputs(m) ==
  Do("claim") \o Each("snapshot", Controls)
  \o Each("checkInput", Controls) \o Do("loadManifest")
  \o Each("snapshot", <<"cases">>) \o Each("checkInput", Governed)
  \o Each("freeze", <<"labels">>) \o Do("loadCases")
  \o (IF m = "FAIL_DATASET" THEN <<>> ELSE Do("requalify"))

\* run, from the normalized cases to the decisions the engine wrote.
OrdinaryEngine ==
  Each("write", <<"normalized", "diagnostics">>)
  \o Each("verify", <<"normalized", "diagnostics", "normalized">>)
  \o Each("checkInput", Governed)
  \o Do("engineLoads") \o Do("engineDecides") \o Do("engineWrites")
  \o Each("checkInput", Governed) \o Each("verify", <<"normalized">>)

\* run, from the decisions read back to the two receipts.
OrdinaryAssurance ==
  Each("readBack", <<"decisions">>) \o Each("verify", <<"decisions">>)
  \o Do("validate")
  \o Each("write", <<"deterministic">>) \o Each("verify", <<"deterministic">>)
  \o Each("readBack", <<"audit">>) \o Each("verify", <<"audit">>)
  \o Do("assureAudit") \o Each("verify", Recorded)
  \o Do("matchFeatures") \o Do("matchPath")
  \o Each("write", Receipts) \o Each("verify", Receipts)
  \o Each("checkInput", Governed) \o Each("verify", Recorded \o Receipts)

\* run, the qualification artifacts, the adjudications and the metrics.
OrdinaryEvaluation(m) ==
  (IF m = "FAIL_DATASET" THEN <<>>
   ELSE Each("write", Qualification) \o Each("verify", Qualification \o Qualification))
  \o Each("snapshot", <<"labels">>) \o Each("checkInput", Labelled \o Labelled)
  \o Do("loadLabels")
  \o Each("write", <<"comparisons">>) \o Each("verify", <<"comparisons">>)
  \o Each("write", <<"metrics">>) \o Each("verify", <<"metrics">>)

\* run, from the last check of the snapshots to the return.
OrdinaryFinalization(m) ==
  Each("checkInput", Labelled)
  \o (IF m = "FAIL_DATASET" THEN <<>> ELSE Each("verify", Qualification))
  \o Sweep(m) \o Sweep(m) \o Sweep(m) \o Do("writeManifest") \o Sweep(m)
  \o Do("return")

\* _run_historical, from the guarded directory to the frozen cases.
HistoricalInputs ==
  Do("gate") \o Do("claim") \o Each("snapshot", Controls)
  \o Each("checkInput", Controls) \o Do("gate")
  \o Do("loadManifest") \o Each("freeze", <<"cases", "labels">>)
  \o Each("snapshot", <<"cases">>) \o Do("loadCases")

\* _run_historical, from the normalized cases to the decisions read back.
HistoricalEngine ==
  Each("write", <<"normalized">>) \o Each("verify", <<"normalized", "normalized">>)
  \o Each("write", <<"diagnostics">>) \o Each("verify", <<"diagnostics">>)
  \o Each("checkInput", Governed) \o Do("gate") \o Do("decide") \o Do("gate")
  \o Each("verify", <<"normalized">>)
  \o Each("publish", <<"decisions", "audit">>)
  \o Each("readBack", <<"decisions", "audit">>)
  \o Each("verify", <<"decisions", "audit">>)

\* _run_historical, from the validated decisions to the two receipts.
HistoricalAssurance ==
  Do("validate")
  \o Each("write", <<"deterministic">>) \o Each("verify", <<"deterministic">>)
  \o Do("assureAudit") \o Each("verify", Recorded)
  \o Do("matchFeatures") \o Do("matchPath")
  \o Each("write", Receipts) \o Each("verify", Receipts)
  \o Each("checkInput", Governed) \o Do("gate")
  \o Each("verify", Recorded \o Receipts)

\* _run_historical, the qualification artifacts, the labels and the metrics.
HistoricalEvaluation ==
  Each("write", Qualification) \o Each("verify", Qualification \o Qualification)
  \o Each("snapshot", <<"labels">>) \o Each("checkInput", Labelled)
  \o Do("loadLabels")
  \o Each("write", <<"comparisons">>) \o Each("verify", <<"comparisons">>)
  \o Each("write", <<"metrics">>) \o Each("verify", <<"metrics">>)

\* _run_historical, from the last check of the snapshots to the return.
HistoricalFinalization ==
  Each("checkInput", Labelled) \o Each("verify", Qualification)
  \o Sweep("HISTORICAL") \o Do("gate") \o Sweep("HISTORICAL")
  \o Sweep("HISTORICAL") \o Do("gate") \o Do("writeManifest")
  \o Sweep("HISTORICAL") \o Do("checkDirectory") \o Do("return")

Program == [m \in Modes |->
  IF m = "HISTORICAL"
  THEN HistoricalInputs \o HistoricalEngine \o HistoricalAssurance
       \o HistoricalEvaluation \o HistoricalFinalization
  ELSE OrdinaryInputs(m) \o OrdinaryEngine \o OrdinaryAssurance
       \o OrdinaryEvaluation(m) \o OrdinaryFinalization(m)]


-----------------------------------------------------------------------------
(* The calls.                                                              *)

\* The version of a governed file the run was prepared for; an ordinary run
\* takes the model and the policy as it finds them.
Expected(r) == IF r = "model" /\ mode # "HISTORICAL" THEN 1..2 ELSE {1}

\* What the run snapshots: the bytes it holds, or the governed file.
FromMemory(r) == r \in {"manifest", "labels"} \/ (mode = "HISTORICAL" /\ r # "configuration")
Content(r) == IF FromMemory(r) THEN read[r] ELSE source[r]

\* An artifact as it follows from what the run holds.
Derived(f) ==
  LET c == rows["decisions"][1]  m == rows["decisions"][2]
  IN CASE f \in {"normalized", "diagnostics", "qualification", "rejections"} ->
            Of(read["cases"], 0, 0, 0)
       [] f \in {"deterministic", "features", "path"} -> Of(c, m, 0, 0)
       [] f \in {"comparisons", "metrics"} -> Of(c, m, read["labels"], 0)

\* Variant of AuthorizationCurrent: still in force at the instant it expires.
AuthorizationCurrentAtExpiry == now <= Expires

\* validate_gate_b_current
AuthorizationCurrent == now < Expires

\* HistoricalOutputGuard._verify_bindings_locked
Custody == mode = "HISTORICAL" => bound

\* verify_reference_feature_projections
FeaturesMatch == rows["decisions"][1] = rows["normalized"][1]

\* Variant of PathMatches: the path is recomputed with the cases alone.
PathMatchesCases == rows["decisions"][1] = rows["normalized"][1]

\* verify_reference_decision_path, over the model and policy read again
PathMatches ==
  /\ rows["decisions"][1] = rows["normalized"][1]
  /\ rows["decisions"][2] = snapsha["model"]
  /\ mode = "HISTORICAL" \/ snapshot["model"] = snapsha["model"]

\* _validate_audit_assurance: the rows are one chain of read-only records ...
AuditIsOneChain == rows["audit"] # Junk

\* ... and tell exactly the decisions, under the actions of the bound policy.
AuditTellsTheDecisions ==
  /\ rows["audit"] = rows["decisions"]
  /\ mode = "HISTORICAL" \/ snapshot["model"] = snapsha["model"]

\* _validate_read_only_decisions
DecisionsAreReadOnly == rows["decisions"] # Junk

\* An ordinary output directory is empty, a historical one does not exist.
Claimable == Custody /\ \A f \in Outputs : disk[f] = Absent

\* The snapshot is created exclusively, from the bytes that are expected.
Snapshotable(r) == Custody /\ snapshot[r] = 0 /\ Content(r) \in Expected(r)

\* _verify_snapshot_integrity, _verify_secure_snapshot_integrity
SnapshotIntact(r) == Custody /\ snapshot[r] = snapsha[r]

\* load_and_validate_manifest, which leaves historical labels for later
DeclaredNow == {"manifest", "cases"} \cup (IF mode = "HISTORICAL" THEN {} ELSE {"labels"})
ManifestMatches == \A r \in DeclaredNow : source[r] = 1

\* CanonicalJSONLAdapter.load_cases, which only checks the digest to qualify
CasesLoad ==
  CASE mode = "QUARANTINE_RECORD" -> snapshot["cases"] = 1
    [] mode = "FAIL_DATASET" -> snapshot["cases"] # 0
    [] mode = "HISTORICAL" -> TRUE

\* _validate_qualification_batch
Requalified == snapshot["cases"] = 1

\* A historical artifact is created exclusively.
Writable(f) == Custody /\ (mode = "HISTORICAL" => disk[f] = Absent)

\* _verify_bound_jsonl_artifact, _verify_bound_json_artifact
ArtifactIntact(f) == Custody /\ disk[f] = rows[f]

\* Whether a call returns; otherwise it raises and ends the run.
Accepts(op, x) ==
  CASE op = "claim" -> Claimable
    [] op = "snapshot" -> Snapshotable(x)
    [] op = "checkInput" -> SnapshotIntact(x)
    [] op = "loadManifest" -> ManifestMatches
    [] op = "freeze" -> source[x] = 1
    [] op = "loadCases" -> CasesLoad
    [] op = "requalify" -> Requalified
    [] op \in {"write", "publish"} -> Writable(x)
    [] op = "verify" -> ArtifactIntact(x)
    [] op = "readBack" -> Custody /\ disk[x] # Absent
    [] op = "engineLoads" -> snapshot["model"] # 0
    [] op = "engineDecides" -> disk["normalized"] # Absent
    [] op = "validate" -> DecisionsAreReadOnly
    [] op = "assureAudit" -> AuditIsOneChain /\ AuditTellsTheDecisions
    [] op = "matchFeatures" -> FeaturesMatch
    [] op = "matchPath" -> PathMatches
    [] op = "gate" -> AuthorizationCurrent
    [] op \in {"writeManifest", "checkDirectory"} -> Custody
    [] OTHER -> TRUE

Init ==
  /\ mode \in Modes
  /\ status = "running" /\ pc = 1
  /\ source = [r \in Roles |-> 1]
  /\ snapshot = [r \in Roles |-> 0] /\ snapsha = [r \in Roles |-> 0]
  /\ read = [r \in Roles |->
               IF r = "manifest" \/ (r = "model" /\ mode = "HISTORICAL") THEN 1 ELSE 0]
  /\ engine = <<0, 0>>
  /\ disk = [f \in Outputs |-> Absent] /\ rows = [f \in Outputs |-> Absent]
  /\ written = FALSE
  /\ bound = TRUE /\ now = 0 /\ changes = 0
  /\ lastChange = [i \in Items |-> "NEVER"] /\ lapsedWith = {}

Current == Program[mode][pc]

\* The run is at this call, on this file or role, and the call returns.
At(op, x) ==
  /\ status = "running" /\ Current = Step(op, x) /\ Accepts(op, x)
  /\ pc' = pc + 1
  /\ UNCHANGED <<mode, world>>

\* A call whose only effect is that it did not raise.
Check ==
  /\ status = "running"
  /\ Current.op \in {"claim", "checkInput", "loadManifest", "requalify", "verify",
                     "validate", "assureAudit", "matchFeatures", "matchPath",
                     "gate", "checkDirectory"}
  /\ At(Current.op, Current.on)
  /\ UNCHANGED <<status, inputs, read, engine, outputs>>

\* _copy_snapshot_file, _write_snapshot_bytes, guard.write_bytes
Snapshot(r) ==
  /\ At("snapshot", r)
  /\ snapshot' = [snapshot EXCEPT ![r] = Content(r)]
  /\ snapsha' = [snapsha EXCEPT ![r] = Content(r)]
  /\ UNCHANGED <<status, source, read, engine, outputs>>

\* _freeze_manifest_input
Freeze(r) ==
  /\ At("freeze", r)
  /\ read' = [read EXCEPT ![r] = source[r]]
  /\ UNCHANGED <<status, inputs, engine, outputs>>

\* _load_cases; a historical run qualifies the bytes it froze.
LoadCases ==
  /\ At("loadCases", "-")
  /\ read' = IF mode = "HISTORICAL" THEN read
             ELSE [read EXCEPT !["cases"] = snapshot["cases"]]
  /\ UNCHANGED <<status, inputs, engine, outputs>>

\* load_adjudications; a historical run decodes the bytes it froze.
LoadLabels ==
  /\ At("loadLabels", "-")
  /\ read' = IF mode = "HISTORICAL" THEN read
             ELSE [read EXCEPT !["labels"] = snapshot["labels"]]
  /\ UNCHANGED <<status, inputs, engine, outputs>>

\* write_jsonl, write_json, guard.write_jsonl, guard.write_json
Write(f) ==
  /\ At("write", f)
  /\ rows' = [rows EXCEPT ![f] = Derived(f)]
  /\ disk' = [disk EXCEPT ![f] = Derived(f)]
  /\ UNCHANGED <<status, inputs, read, engine, written>>

\* read_jsonl
ReadBack(f) ==
  /\ At("readBack", f)
  /\ rows' = [rows EXCEPT ![f] = disk[f]]
  /\ UNCHANGED <<status, inputs, read, engine, disk, written>>

\* run_engine: the audit file is unlinked, the model and the policy are loaded.
EngineLoads ==
  /\ At("engineLoads", "-")
  /\ disk' = [disk EXCEPT !["audit"] = Absent]
  /\ engine' = <<0, snapshot["model"]>>
  /\ UNCHANGED <<status, inputs, read, rows, written>>

\* run_engine: the cases are read and decided, each appending to the audit file.
EngineDecides ==
  /\ At("engineDecides", "-")
  /\ LET c == disk["normalized"][1]
     IN /\ engine' = <<c, engine[2]>>
        /\ disk' = [disk EXCEPT !["audit"] =
                      IF disk["audit"] = Absent THEN Of(c, engine[2], 0, 0) ELSE Junk]
  /\ UNCHANGED <<status, inputs, read, rows, written>>

\* run_engine: write_jsonl of the decisions.
EngineWrites ==
  /\ At("engineWrites", "-")
  /\ disk' = [disk EXCEPT !["decisions"] = Of(engine[1], engine[2], 0, 0)]
  /\ UNCHANGED <<status, inputs, read, engine, rows, written>>

\* run_records: a historical run decides in memory.
Decide ==
  /\ At("decide", "-")
  /\ LET d == Of(read["cases"], read["model"], 0, 0)
     IN rows' = [rows EXCEPT !["decisions"] = d, !["audit"] = d]
  /\ UNCHANGED <<status, inputs, read, engine, disk, written>>

\* guard.write_jsonl of what was decided.
Publish(f) ==
  /\ At("publish", f)
  /\ disk' = [disk EXCEPT ![f] = rows[f]]
  /\ UNCHANGED <<status, inputs, read, engine, rows, written>>

\* write_json of replay_run_manifest.json, which binds the rows' digests.
WriteManifest ==
  /\ At("writeManifest", "-")
  /\ written' = TRUE
  /\ UNCHANGED <<status, inputs, read, engine, disk, rows>>

Return ==
  /\ At("return", "-")
  /\ status' = "returned"
  /\ UNCHANGED <<inputs, read, engine, outputs>>

\* A call raises: ReplaySafetyViolation, GateBValidationError and the others.
Raise ==
  /\ status = "running" /\ ~Accepts(Current.op, Current.on)
  /\ status' = "failed"
  /\ UNCHANGED <<mode, pc, inputs, read, engine, outputs, world>>

-----------------------------------------------------------------------------
(* Everybody else, while the run is in progress.                           *)

Interfere(i) ==
  /\ status = "running" /\ changes < MaxChanges
  /\ changes' = changes + 1
  /\ lastChange' = [lastChange EXCEPT ![i] = IF written THEN "AFTER" ELSE "BEFORE"]
  /\ UNCHANGED <<mode, status, pc, snapsha, read, engine, rows, written, now, lapsedWith>>

\* An artifact is replaced, or put back as the run holds it.
ChangeOutput(f) ==
  /\ f \in Artifacts(mode)
  /\ \E x \in (Foreign(f) \cup {rows[f]}) \ {disk[f]} : disk' = [disk EXCEPT ![f] = x]
  /\ Interfere(f)
  /\ UNCHANGED <<source, snapshot, bound>>

\* A snapshot is replaced, or put back.
ChangeSnapshot(r) ==
  /\ snapshot[r] # 0
  /\ snapshot' = [snapshot EXCEPT ![r] = 3 - @]
  /\ Interfere(r)
  /\ UNCHANGED <<source, disk, bound>>

\* A governed file is replaced, or put back.
ChangeSource(r) ==
  /\ source' = [source EXCEPT ![r] = 3 - @]
  /\ status = "running" /\ changes < MaxChanges
  /\ changes' = changes + 1
  /\ UNCHANGED <<mode, status, pc, snapshot, snapsha, read, engine, outputs, bound, now,
                 lastChange, lapsedWith>>

\* The output path is made to name another directory, or this one again.
Rebind ==
  /\ mode = "HISTORICAL" /\ pc > 2
  /\ bound' = ~bound
  /\ Interfere("directory")
  /\ UNCHANGED <<source, snapshot, disk>>

Tick ==
  /\ status = "running" /\ mode = "HISTORICAL" /\ now < MaxTime
  /\ now' = now + 1
  /\ lapsedWith' = IF now' = Expires THEN {f \in Outputs : rows[f] # Absent} ELSE lapsedWith
  /\ UNCHANGED <<mode, status, pc, inputs, read, engine, outputs, bound, changes, lastChange>>

Next ==
  \/ Check \/ LoadCases \/ LoadLabels \/ EngineLoads \/ EngineDecides \/ EngineWrites
  \/ Decide \/ WriteManifest \/ Return \/ Raise
  \/ \E r \in Roles : Snapshot(r) \/ Freeze(r) \/ ChangeSnapshot(r) \/ ChangeSource(r)
  \/ \E f \in Outputs : Write(f) \/ ReadBack(f) \/ Publish(f) \/ ChangeOutput(f)
  \/ Rebind \/ Tick

Spec == Init /\ [][Next]_vars

-----------------------------------------------------------------------------
(* Properties.                                                             *)

\* What the manifest binds follows from one set of inputs, whatever was
\* replaced and put back while the run was in progress: the decisions from the
\* normalized cases and from the model and policy whose digests it binds, every
\* derived artifact from those decisions; where records are qualified, the
\* cases from the bound case file; in a historical run, the comparisons from
\* the bound adjudications.
ResultFollowsFromInputs ==
  written =>
    LET d == rows["decisions"]
    IN /\ d[1] = rows["normalized"][1] /\ d[2] = snapsha["model"]
       /\ \A f \in {"audit", "deterministic", "features", "path", "comparisons", "metrics"} :
            rows[f][1] = d[1] /\ rows[f][2] = d[2]
       /\ mode # "FAIL_DATASET" => d[1] = snapsha["cases"]
       /\ mode = "HISTORICAL" => rows["metrics"][3] = snapsha["labels"]

\* A run that returned left every artifact, and in a historical run the output
\* directory, as its manifest says, unless it was changed after the manifest
\* was written: each check until then and the sweep after it see every file.
ChangeIsCaught ==
  status = "returned" =>
    /\ \A f \in Artifacts(mode) : disk[f] # rows[f] => lastChange[f] = "AFTER"
    /\ mode = "HISTORICAL" /\ ~bound => lastChange["directory"] = "AFTER"

\* A historical run that has written its manifest had produced every output
\* while its Gate B authorization was in force; it may expire during the checks
\* that follow (harness.py _run_historical).
AuthorizationCovers ==
  mode = "HISTORICAL" /\ written => now < Expires \/ lapsedWith = Outputs

\* ADR 008 (docs/adr/008_source_to_decision_reference_candidate.md:40): every
\* bound input is revalidated "through manifest construction, manifest write,
\* final checks, and successful harness return".  The code checks the input
\* snapshots for the last time before the artifacts' own final checks.
InputChangeIsCaught ==
  status = "returned" =>
    \A r \in Roles : snapshot[r] # snapsha[r] => lastChange[r] = "AFTER"

=============================================================================

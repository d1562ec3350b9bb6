-------------------------- MODULE ServiceStateProofs --------------------------
(***************************************************************************)
(* Proofs about the state directory: what the marker binds is one state, a *)
(* backup is one cut, and what was answered stays, for any number of       *)
(* processes, crashes, lost files, rotations and backups.                  *)
(*                                                                         *)
(* The argument rests on names that do not come back.  An inode is         *)
(* allocated once, and so is the identity of a store, except by a restore, *)
(* which works on a directory without a marker.  Hence a process that      *)
(* bound a marked set works on that set or on nothing.                     *)
(***************************************************************************)
EXTENDS ServiceState, TLAPS

-----------------------------------------------------------------------------
(* The inductive invariant: shapes.                                        *)

Configurations == [Names -> Values]
Markers == [ino : Nat \ {0}, cfg : Configurations, control : Nat \ {0},
            adapter : Nat \ {0}]
Copies == [cfg : Configurations, files : [Artifacts -> Files], owed : SUBSET Requests]

\* The places of a process by what it may be.
Working == {"receive", "claim", "act", "final", "close"}
Calling == {"look", "process", "check"} \cup Working
Serving == {"serving"} \cup Calling
Entering == {"opening"} \cup Artifacts
Closing == {"ready", "identify", "mark"}
Places == {"off", "verify", "stage", "copy", "write", "rename"}
            \cup Entering \cup Closing \cup Serving

ProcRow ==
  [at : Places, role : Roles \cup {None}, cfg : Configurations \cup {None},
   ids : [Artifacts -> Files], mark : Markers \cup {NoMarker},
   req : Requests \cup {None}, from : Copies \cup {None}, copy : Copies \cup {None}]

Typed ==
  /\ projected \in Configurations /\ staged \in [Names -> Values \cup {None}]
  /\ stager # None => stager \subseteq Names
  /\ disk \in [Artifacts -> Files] /\ marker \in Markers \cup {NoMarker, TornMarker}
  /\ lock \in Procs \cup {None} /\ proc \in [Procs -> ProcRow]
  /\ backups \subseteq Copies /\ answered \subseteq Nat \X Requests /\ inodes \in Nat

\* What a process may be at each place, and what it then has.
PlaceHeld(p) ==
  LET x == proc[p] IN
  /\ x.at = "off" => x.role = None
  /\ x.at # "off" => x.role \in Roles /\ x.cfg \in Configurations
  /\ x.at = "ready" => x.role = "init"
  /\ x.at \in {"identify", "write"} => x.role = "restore"
  /\ x.at = "mark" => x.role \in {"init", "restore"}
  /\ x.at \in {"stage", "rename"} => x.role = "backup"
  /\ x.at = "verify" => x.role \in {"serve", "backup"}
  /\ x.at = "copy" => x.role \in {"backup", "restore"}
  /\ x.at \in Serving => x.role = "serve"
  /\ x.at \in Calling => x.req \in Requests
  /\ x.role \in {"serve", "backup"} => x.mark \in Markers /\ x.mark.cfg = x.cfg
  /\ x.role = "restore" => x.from \in backups /\ x.from.cfg = x.cfg
  /\ x.role = "backup" /\ x.at \in {"copy", "rename"} => x.copy \in Copies

\* The lock is held by a process inside a section it protects, and by no other.
Copying(p) == proc[p].at = "copy" /\ proc[p].role = "backup"
InSection(p) == proc[p].at \in Inside \/ Copying(p)
LockHeld == \A p \in Procs : (lock = p) <=> InSection(p)

-----------------------------------------------------------------------------
(* The inductive invariant: names.                                         *)

\* A file is absent, or its inode and its identity are among those given out.
Numbered(f) ==
  /\ f.ino \in 0..inodes /\ f.id \in 0..inodes
  /\ f.ino = 0 => f = Absent
  /\ f.ino # 0 => f.id # 0
FilesNumbered ==
  /\ \A a \in Artifacts : Numbered(disk[a])
  /\ \A b \in backups, a \in Artifacts : Numbered(b.files[a]) /\ b.files[a].ino # 0
  /\ marker.ino <= inodes
  /\ marker \in Markers => marker.control <= inodes /\ marker.adapter <= inodes
  /\ \A e \in answered : e[1] \in 1..inodes
IdsNumbered(p) ==
  /\ \A a \in Artifacts : Numbered(proc[p].ids[a])
  /\ proc[p].mark.ino <= inodes
  /\ proc[p].role = "backup" /\ proc[p].at \in {"copy", "rename"} =>
       \A a \in Artifacts : Numbered(proc[p].copy.files[a])

\* What a process has opened or copied at its place.
OpenedHeld(p) ==
  LET x == proc[p] IN
  /\ x.at = "adapter" => x.ids["control"].ino # 0
  /\ x.at = "audit" => x.ids["control"].ino # 0 /\ x.ids["adapter"].ino # 0
  /\ x.at \in Closing \cup Serving \cup {"verify", "stage", "rename"}
       \/ (x.at = "copy" /\ x.role = "backup")
     => \A a \in Artifacts : x.ids[a].ino # 0
  /\ x.at = "rename" => \A a \in Artifacts : x.copy.files[a].ino # 0
  /\ x.at = "copy" /\ x.role = "backup" =>
       /\ x.copy.files["adapter"].ino = 0
       /\ x.copy.files["control"].ino # 0 => x.copy.files["audit"].ino # 0
RestoreOrder(p) ==
  LET x == proc[p] IN
  x.role = "restore" /\ x.at \in {"copy", "write"} =>
    /\ x.at = "copy" => x.ids["adapter"].ino = 0
    /\ x.at = "write" => x.ids["audit"].ino # 0
    /\ x.ids["control"].ino # 0 =>
         x.ids["audit"].ino # 0 /\ x.ids["audit"].ino < x.ids["control"].ino
    /\ x.ids["adapter"].ino # 0 =>
         x.ids["control"].ino # 0 /\ x.ids["control"].ino < x.ids["adapter"].ino
    /\ \A a \in Artifacts : x.ids[a].ino # 0 =>
         x.ids[a] = [x.from.files[a] EXCEPT !.ino = x.ids[a].ino]

\* The file a restore is writing.
Current(p) ==
  IF proc[p].ids["adapter"].ino # 0 THEN "adapter"
  ELSE IF proc[p].ids["control"].ino # 0 THEN "control" ELSE "audit"

\* A store without its tables has a name nobody knows.
TornUnknown(s) ==
  disk[s].torn =>
    /\ \A p \in Procs : proc[p].ids[s].id # disk[s].id
    /\ \A b \in backups : b.files[s].id # disk[s].id
    /\ \A p \in Procs : proc[p].role = "backup" /\ proc[p].at \in {"copy", "rename"} =>
         proc[p].copy.files[s].id # disk[s].id
    /\ marker \in Markers =>
         (IF s = "control" THEN marker.control ELSE marker.adapter) # disk[s].id

\* A marker that was read is the marker, or its audit file is gone for good; and so
\* are, once it was verified, the files that were opened.
MarkHeld(p) ==
  proc[p].role \in {"serve", "backup"} =>
    marker = proc[p].mark \/ disk["audit"].ino # proc[p].mark.ino
Verified == Serving \cup {"stage"}
BoundHeld(p) ==
  proc[p].at \in Verified =>
    marker = proc[p].mark \/ \A a \in Artifacts : disk[a].ino # proc[p].ids[a].ino

-----------------------------------------------------------------------------
(* The inductive invariant: contents.                                      *)

Unmarked == marker \notin Markers

\* A directory that is being initialized holds nothing, one that is being restored
\* what the backup held.
BuildingHeld(p) ==
  /\ proc[p].role = "init" /\ Unmarked => disk["control"].by = {}
  /\ proc[p].role = "restore" =>
       marker = NoMarker /\ disk["control"].by \subseteq {proc[p].cfg}
  /\ proc[p].role = "init" => ~disk["audit"].torn
  /\ proc[p].role = "restore" /\ disk["audit"].torn =>
       /\ proc[p].at = "write" /\ Current(p) = "audit"
       /\ disk["audit"].ino = proc[p].ids["audit"].ino
  /\ proc[p].at = "write" =>
       (disk[Current(p)].ino = proc[p].ids[Current(p)].ino => disk[Current(p)].torn)
AloneHeld ==
  \A p, q \in Procs :
    p # q /\ proc[p].role = "restore" => proc[q].role \notin {"init", "restore"}

\* The three files tell one history.
OneState ==
  /\ Claims \subseteq disk["audit"].open \cup disk["audit"].done
  /\ disk["control"].done \subseteq disk["audit"].done
  /\ disk["adapter"].done \subseteq Claims

\* The stores of the directory are those p opened, beside an audit file.
NamedBy(p) == Exists("audit") /\ \A s \in Stores : disk[s].id = proc[p].ids[s].id

\* What a new marker would bind is one state, and no call is at work on it.
ClosingHeld(p) == proc[p].at \in Closing /\ Unmarked /\ NamedBy(p) => OneState
ApartHeld ==
  \A p, q \in Procs :
    proc[p].at \in Closing /\ proc[q].at \in Working /\ NamedBy(p) => ~Unmarked
MarkedHeld ==
  /\ marker \in Markers /\ disk["audit"].ino = marker.ino => ~disk["audit"].torn
  /\ SetBound => OneState /\ disk["control"].by \subseteq {marker.cfg}

\* How far a call has come in the marked set.
WorkHeld(p) ==
  LET r == proc[p].req IN
  proc[p].at \in Working /\ SetBound =>
    /\ proc[p].at \in {"receive", "claim"} => disk["control"].open = {}
    /\ proc[p].at = "claim" => r \in disk["audit"].open
    /\ proc[p].at = "act" => r \in Claims
    /\ proc[p].at = "close" => r \in disk["audit"].done

AnswersHeld ==
  \A e \in answered : disk["audit"].ino = e[1] =>
    /\ marker \in Markers
    /\ SetBound => e[2] \in disk["audit"].done \cap disk["control"].done

\* The adapter knows nothing of open requests.
AdapterHeld == disk["adapter"].open = {}

\* One cut: of copied files, and of those still to be copied.
Cut(files, cfg, owed) ==
  /\ \A a \in Artifacts : files[a].open = {} /\ ~files[a].torn
  /\ files["control"].done = files["audit"].done
  /\ files["adapter"].done \subseteq files["control"].done
  /\ owed \subseteq files["control"].done
  /\ files["control"].by \subseteq {cfg}
Good(p, a) == a \in Copied(p) \/ disk[a].ino = proc[p].ids[a].ino
Seen(p, a) == IF a \in Copied(p) THEN proc[p].copy.files[a] ELSE disk[a]
CutHeld(p) ==
  /\ proc[p].at = "copy" /\ proc[p].role = "backup" =>
       /\ \A a \in Artifacts : Good(p, a) => Seen(p, a).open = {} /\ ~Seen(p, a).torn
       /\ Good(p, "audit") /\ Good(p, "control") =>
            Seen(p, "control").done = Seen(p, "audit").done
       /\ Good(p, "control") /\ Good(p, "adapter") =>
            Seen(p, "adapter").done \subseteq Seen(p, "control").done
       /\ Good(p, "control") =>
            /\ proc[p].copy.owed \subseteq Seen(p, "control").done
            /\ Seen(p, "control").by \subseteq {proc[p].copy.cfg}
  /\ proc[p].at = "rename" =>
       Cut(proc[p].copy.files, proc[p].copy.cfg, proc[p].copy.owed)
BackupsHeld == \A b \in backups : Cut(b.files, b.cfg, b.owed)

ProcHeld(p) ==
  /\ PlaceHeld(p) /\ IdsNumbered(p) /\ OpenedHeld(p) /\ RestoreOrder(p) /\ MarkHeld(p)
  /\ BoundHeld(p) /\ BuildingHeld(p) /\ ClosingHeld(p) /\ WorkHeld(p) /\ CutHeld(p)
ServiceInvariant ==
  /\ Typed /\ LockHeld /\ FilesNumbered /\ AloneHeld /\ MarkedHeld /\ AnswersHeld
  /\ AdapterHeld /\ BackupsHeld /\ ApartHeld
  /\ \A s \in Stores : TornUnknown(s)
  /\ \A p \in Procs : ProcHeld(p)

-----------------------------------------------------------------------------
(* Rows: what a step does to the process that takes it.                    *)

\* The other processes do not notice a step of p.
Others(p) == \A q \in Procs \ {p} : proc'[q] = proc[q]

\* p keeps what it is and what it has opened.
Keeps(p) ==
  /\ proc'[p].role = proc[p].role /\ proc'[p].cfg = proc[p].cfg
  /\ proc'[p].ids = proc[p].ids /\ proc'[p].mark = proc[p].mark
  /\ proc'[p].from = proc[p].from /\ proc'[p].copy = proc[p].copy

\* What the invariant says of one process.
LEMMA EachHeld ==
  ASSUME ServiceInvariant, NEW q \in Procs
  PROVE  /\ PlaceHeld(q) /\ IdsNumbered(q) /\ OpenedHeld(q) /\ RestoreOrder(q) /\ MarkHeld(q)
         /\ BoundHeld(q) /\ BuildingHeld(q) /\ ClosingHeld(q) /\ WorkHeld(q) /\ CutHeld(q)
BY DEF ServiceInvariant, ProcHeld

\* A row that stays is held at its place as before.
LEMMA RowStays ==
  ASSUME NEW q \in Procs, proc'[q] = proc[q], backups \subseteq backups',
         PlaceHeld(q), OpenedHeld(q), RestoreOrder(q)
  PROVE  PlaceHeld(q)' /\ OpenedHeld(q)' /\ RestoreOrder(q)'
<1>1. PlaceHeld(q)'
  BY DEF PlaceHeld
<1>2. OpenedHeld(q)'
  BY DEF OpenedHeld
<1>3. RestoreOrder(q)'
  BY DEF RestoreOrder
<1> QED
  BY <1>1, <1>2, <1>3

\* And so are the names it knows, when no inode is given out.
LEMMA NamesStay ==
  ASSUME NEW q \in Procs, proc'[q] = proc[q], inodes' = inodes, IdsNumbered(q)
  PROVE  IdsNumbered(q)'
BY DEF IdsNumbered, Numbered

\* And the copy it makes, when the directory stays too.
LEMMA CutStays ==
  ASSUME NEW q \in Procs, proc'[q] = proc[q], disk' = disk, CutHeld(q)
  PROVE  CutHeld(q)'
<1>1. Copied(q)' = Copied(q)
  BY DEF Copied
<1>2. \A a \in Artifacts : (Good(q, a)' <=> Good(q, a)) /\ Seen(q, a)' = Seen(q, a)
  BY <1>1 DEF Good, Seen
<1> QED
  BY <1>2 DEF CutHeld, Cut, Artifacts

\* No file has a configuration, a request or an open row to begin with.
LEMMA AbsentTyped ==
  Absent \in Files /\ \A n \in Nat : New(n) \in Files
<1>1. Absent \in Files
  BY DEF Absent, Files
<1>2. ASSUME NEW n \in Nat
      PROVE  New(n) \in Files
  BY DEF Absent, New, Files
<1> QED
  BY <1>1, <1>2

\* A process that is not running has a row like any other.
LEMMA OffTyped == Off \in ProcRow
BY AbsentTyped DEF Off, ProcRow, Places

\* The row of a process is replaced by another.
LEMMA RowTold ==
  ASSUME NEW p \in Procs, NEW y \in ProcRow, proc \in [Procs -> ProcRow],
         proc' = [proc EXCEPT ![p] = y]
  PROVE  proc' \in [Procs -> ProcRow] /\ proc'[p] = y /\ Others(p)
BY DEF Others

\* A step that only moves p on.
LEMMA GoTold ==
  ASSUME Typed, NEW p \in Procs, NEW s \in Places, Go(p, s)
  PROVE  /\ proc' \in [Procs -> ProcRow] /\ Others(p) /\ Keeps(p)
         /\ proc'[p].at = s /\ proc'[p].req = proc[p].req
<1>1. PICK x \in ProcRow : x = proc[p]
  BY DEF Typed
<1>2. PICK y : y = [x EXCEPT !.at = s]
  OBVIOUS
<1>3. /\ y \in ProcRow /\ y.at = s /\ y.role = x.role /\ y.cfg = x.cfg /\ y.ids = x.ids
      /\ y.mark = x.mark /\ y.req = x.req /\ y.from = x.from /\ y.copy = x.copy
  BY <1>1, <1>2 DEF ProcRow
<1>4. proc' = [proc EXCEPT ![p] = y]
  BY <1>1, <1>2, Zenon DEF Go
<1>5. proc' \in [Procs -> ProcRow] /\ proc'[p] = y /\ Others(p)
  BY <1>3, <1>4, RowTold DEF Typed
<1> QED
  BY <1>1, <1>3, <1>5 DEF Keeps

\* A call of p that is answered.
LEMMA AnswerTold ==
  ASSUME Typed, NEW p \in Procs, Answer(p)
  PROVE  /\ proc' \in [Procs -> ProcRow] /\ Others(p) /\ Keeps(p)
         /\ proc'[p].at = "serving"
<1>1. PICK x \in ProcRow : x = proc[p]
  BY DEF Typed
<1>2. PICK y : y = [x EXCEPT !.at = "serving", !.req = None]
  OBVIOUS
<1>3. /\ y \in ProcRow /\ y.at = "serving" /\ y.role = x.role /\ y.cfg = x.cfg
      /\ y.ids = x.ids /\ y.mark = x.mark /\ y.from = x.from /\ y.copy = x.copy
  BY <1>1, <1>2 DEF ProcRow, Places, Serving
<1>4. proc' = [proc EXCEPT ![p] = y]
  BY <1>1, <1>2, Zenon DEF Answer
<1>5. proc' \in [Procs -> ProcRow] /\ proc'[p] = y /\ Others(p)
  BY <1>3, <1>4, RowTold DEF Typed
<1> QED
  BY <1>1, <1>3, <1>5 DEF Keeps

\* A process that ends.
LEMMA EndTold ==
  ASSUME Typed, NEW p \in Procs, End(p)
  PROVE  proc' \in [Procs -> ProcRow] /\ Others(p) /\ proc'[p] = Off
BY OffTyped, RowTold DEF Typed, End

\* A process that is not running has nothing to hold.
LEMMA OffHeld ==
  ASSUME ServiceInvariant, NEW p \in Procs, proc'[p] = Off, inodes' \in Nat
  PROVE  ProcHeld(p)' /\ ~InSection(p)'
<1>1. /\ proc'[p].at = "off" /\ proc'[p].role = None /\ proc'[p].mark = NoMarker
      /\ proc'[p].ids = [a \in Artifacts |-> Absent]
  BY DEF Off
<1>2. None \notin Roles
  BY ServiceAssumption
<1>3. proc'[p].role \notin Roles
  BY <1>1, <1>2
<1>4. PlaceHeld(p)'
  BY <1>1, <1>3 DEF PlaceHeld, Serving, Calling, Working, Roles
<1>5. IdsNumbered(p)'
  <2>1. proc'[p].mark.ino <= inodes'
    BY <1>1 DEF NoMarker
  <2>2. \A a \in Artifacts : Numbered(proc[p].ids[a])'
    BY <1>1 DEF Numbered, Absent
  <2> QED
    BY <1>1, <2>1, <2>2 DEF IdsNumbered
<1>6. OpenedHeld(p)' /\ RestoreOrder(p)'
  BY <1>1 DEF OpenedHeld, RestoreOrder, Closing, Serving, Calling, Working
<1>7. MarkHeld(p)' /\ BoundHeld(p)'
  BY <1>1, <1>3 DEF MarkHeld, BoundHeld, Verified, Serving, Calling, Working, Roles
<1>8. BuildingHeld(p)' /\ ClosingHeld(p)' /\ WorkHeld(p)' /\ CutHeld(p)'
  BY <1>1, <1>3 DEF BuildingHeld, ClosingHeld, WorkHeld, CutHeld, Closing, Working, Roles
<1>9. ~InSection(p)'
  BY <1>1 DEF InSection, Inside, Copying, Artifacts
<1> QED
  BY <1>4, <1>5, <1>6, <1>7, <1>8, <1>9 DEF ProcHeld

-----------------------------------------------------------------------------
(* Steps that leave the directory alone.                                   *)

Steady == UNCHANGED <<disk, marker, inodes>>

\* A step that leaves the directory alone takes nothing from the other processes.
LEMMA OthersSteady ==
  ASSUME ServiceInvariant, Steady, backups \subseteq backups', NEW q \in Procs,
         proc'[q] = proc[q]
  PROVE  ProcHeld(q)'
<1> USE DEF Steady
<1>1. PlaceHeld(q)' /\ OpenedHeld(q)' /\ RestoreOrder(q)'
  BY EachHeld, RowStays
<1>2. IdsNumbered(q)'
  BY EachHeld, NamesStay
<1>3. MarkHeld(q)' /\ BoundHeld(q)'
  BY DEF ServiceInvariant, ProcHeld, MarkHeld, BoundHeld
<1>4. BuildingHeld(q)'
  BY DEF ServiceInvariant, ProcHeld, BuildingHeld, Unmarked, Current
<1>5. ClosingHeld(q)'
  BY DEF ServiceInvariant, ProcHeld, ClosingHeld, Unmarked, NamedBy, Exists, OneState,
         Claims
<1>6. WorkHeld(q)'
  BY DEF ServiceInvariant, ProcHeld, WorkHeld, SetBound, Exists, Claims
<1>7. CutHeld(q)'
  BY EachHeld, CutStays
<1> QED
  BY <1>1, <1>2, <1>3, <1>4, <1>5, <1>6, <1>7 DEF ProcHeld

\* The lock is taken or released by p, which is then inside or outside.
LockMoves(p) ==
  /\ lock' = lock \/ {lock, lock'} \subseteq {None, p}
  /\ (lock' = p) <=> InSection(p)'

\* What one process does to the lock leaves it with those inside a section.
LEMMA LockKept ==
  ASSUME ServiceInvariant, NEW p \in Procs, Others(p), LockMoves(p)
  PROVE  LockHeld'
<1> SUFFICES ASSUME NEW q \in Procs
             PROVE  (lock' = q) <=> InSection(q)'
  BY DEF LockHeld
<1>1. CASE q = p
  BY <1>1 DEF LockMoves
<1>2. CASE q # p
  <2>1. InSection(q)' <=> InSection(q)
    BY <1>2 DEF Others, InSection, Copying
  <2>2. (lock' = q) <=> (lock = q)
    BY <1>2, ServiceAssumption DEF LockMoves
  <2> QED
    BY <2>1, <2>2 DEF ServiceInvariant, LockHeld
<1> QED
  BY <1>1, <1>2

\* A process that takes up no new role disturbs nobody who wants to be alone.
LEMMA AloneKept ==
  ASSUME ServiceInvariant, NEW p \in Procs, Others(p),
         proc'[p].role \in {proc[p].role, None}
  PROVE  AloneHeld'
<1>1. \A q \in Procs : proc'[q].role \in {proc[q].role, None}
  BY DEF Others
<1> QED
  BY <1>1, ServiceAssumption DEF ServiceInvariant, AloneHeld, Roles

\* The names p has learnt are not those of a store without its tables.
TornAside(p) ==
  \A s \in Stores : disk[s].torn =>
    /\ proc'[p].ids[s].id # disk[s].id
    /\ proc'[p].role = "backup" /\ proc'[p].at \in {"copy", "rename"} =>
         proc'[p].copy.files[s].id # disk[s].id

\* A step of p that leaves the directory alone.
LEMMA StillStep ==
  ASSUME ServiceInvariant, NEW p \in Procs, Others(p), Steady, Typed', LockMoves(p),
         ProcHeld(p)', AloneHeld', TornAside(p),
         backups \subseteq backups', FilesNumbered', AnswersHeld', BackupsHeld',
         \A s \in Stores : disk[s].torn =>
           \A b \in backups' \ backups : b.files[s].id # disk[s].id,
         proc'[p].at \in Closing =>
           \/ proc[p].at \in Closing /\ proc'[p].ids = proc[p].ids
           \/ \A q \in Procs : proc'[q].at \notin Working,
         proc'[p].at \in Working => proc[p].at \in Working \/ ~Unmarked
  PROVE  ServiceInvariant'
<1>1. \A q \in Procs : ProcHeld(q)'
  BY OthersSteady DEF Others
<1>2. LockHeld'
  BY LockKept
<1>3. MarkedHeld' /\ AdapterHeld'
  BY DEF ServiceInvariant, MarkedHeld, AdapterHeld, Steady, SetBound, OneState, Claims,
         Exists
<1>4. ApartHeld'
  BY DEF ServiceInvariant, ApartHeld, Steady, Others, NamedBy, Unmarked, Exists
<1>5. ASSUME NEW s \in Stores
      PROVE  TornUnknown(s)'
  BY DEF ServiceInvariant, TornUnknown, TornAside, Steady, Others
<1> QED
  BY <1>1, <1>2, <1>3, <1>4, <1>5 DEF ServiceInvariant

\* What the backups and the answers say stays true as long as the directory does.
LEMMA RecordsSteady ==
  ASSUME ServiceInvariant, Steady, UNCHANGED <<backups, answered>>
  PROVE  FilesNumbered' /\ AnswersHeld' /\ BackupsHeld'
BY DEF ServiceInvariant, FilesNumbered, Numbered, AnswersHeld, BackupsHeld, Steady,
       SetBound, Exists, Cut

\* A step of p that leaves the directory, the backups and the answers alone.
LEMMA SteadyStep ==
  ASSUME ServiceInvariant, NEW p \in Procs, Others(p), Steady,
         UNCHANGED <<backups, answered>>, Typed', LockMoves(p), ProcHeld(p)', AloneHeld',
         TornAside(p),
         proc'[p].at \in Closing =>
           \/ proc[p].at \in Closing /\ proc'[p].ids = proc[p].ids
           \/ \A q \in Procs : proc'[q].at \notin Working,
         proc'[p].at \in Working => proc[p].at \in Working \/ ~Unmarked
  PROVE  ServiceInvariant'
BY StillStep, RecordsSteady

\* p ends, or is killed, without a trace in the directory.
LEMMA EndSteady ==
  ASSUME ServiceInvariant, NEW p \in Procs, End(p), Steady, UNCHANGED secrets,
         UNCHANGED <<backups, answered>>, lock' = IF lock = p THEN None ELSE lock
  PROVE  ServiceInvariant'
<1>1. proc' \in [Procs -> ProcRow] /\ Others(p) /\ proc'[p] = Off
  BY EndTold DEF ServiceInvariant
<1>2. Typed'
  BY <1>1 DEF ServiceInvariant, Typed, Steady, secrets
<1>3. ProcHeld(p)' /\ ~InSection(p)'
  BY <1>1, <1>2, OffHeld DEF Typed
<1>4. LockMoves(p)
  BY <1>3, ServiceAssumption DEF LockMoves
<1>5. /\ proc'[p].role = None /\ proc'[p].at = "off"
      /\ \A s \in Stores : proc'[p].ids[s].id = 0
  BY <1>1 DEF Off, Absent, Stores, Artifacts
<1>6. AloneHeld'
  BY <1>1, <1>5, AloneKept
<1>7. TornAside(p)
  <2>1. \A s \in Stores : disk[s].torn => disk[s].id # 0
    BY DEF ServiceInvariant, FilesNumbered, Numbered, Absent, Stores, Artifacts
  <2> QED
    BY <1>5, <2>1, ServiceAssumption DEF TornAside, Roles
<1>8. proc'[p].at \notin Closing \cup Working
  BY <1>5 DEF Closing, Working
<1> QED
  BY <1>1, <1>2, <1>3, <1>4, <1>6, <1>7, <1>8, SteadyStep

\* A step that only moves p on leaves it most of what it holds.
LEMMA KeptHeld ==
  ASSUME ServiceInvariant, NEW p \in Procs, Keeps(p), Steady, backups' = backups,
         proc[p].at # "write", proc'[p].at \notin {"copy", "rename", "write"}
  PROVE  /\ IdsNumbered(p)' /\ RestoreOrder(p)' /\ MarkHeld(p)' /\ BuildingHeld(p)'
         /\ CutHeld(p)'
<1> USE DEF Keeps, Steady
<1>1. IdsNumbered(p)' /\ RestoreOrder(p)' /\ MarkHeld(p)'
  <2>1. IdsNumbered(p)'
    BY EachHeld DEF IdsNumbered, Numbered
  <2>2. RestoreOrder(p)'
    BY EachHeld DEF RestoreOrder
  <2>3. MarkHeld(p)'
    BY EachHeld DEF MarkHeld
  <2> QED
    BY <2>1, <2>2, <2>3
<1>2. BuildingHeld(p)'
  BY DEF ServiceInvariant, ProcHeld, BuildingHeld, Unmarked, Current
<1>3. CutHeld(p)'
  BY DEF ServiceInvariant, ProcHeld, CutHeld
<1> QED
  BY <1>1, <1>2, <1>3

\* A step that only moves p on learns no new names and takes up no role.
LEMMA KeptAside ==
  ASSUME ServiceInvariant, NEW p \in Procs, Others(p), Keeps(p),
         proc'[p].at \notin {"copy", "rename"}
  PROVE  AloneHeld' /\ TornAside(p)
BY AloneKept DEF Keeps, ServiceInvariant, TornUnknown, TornAside

\* A step that only moves p on.
LEMMA KeptStep ==
  ASSUME ServiceInvariant, NEW p \in Procs, Others(p), Keeps(p), Steady,
         UNCHANGED <<backups, answered>>, UNCHANGED secrets,
         proc' \in [Procs -> ProcRow], lock' \in Procs \cup {None}, LockMoves(p),
         proc[p].at # "write", proc'[p].at \notin {"copy", "rename", "write"},
         PlaceHeld(p)', OpenedHeld(p)', BoundHeld(p)', ClosingHeld(p)', WorkHeld(p)',
         proc'[p].at \in Closing => proc[p].at \in Closing,
         proc'[p].at \in Working => proc[p].at \in Working \/ ~Unmarked
  PROVE  ServiceInvariant'
<1>1. Typed'
  BY DEF ServiceInvariant, Typed, Steady, secrets
<1>2. ProcHeld(p)'
  BY KeptHeld DEF ProcHeld
<1>3. AloneHeld' /\ TornAside(p)
  BY KeptAside
<1> QED
  BY <1>1, <1>2, <1>3, SteadyStep DEF Keeps

\* What happens to the secrets does not touch the state directory.
LEMMA SecretsStep ==
  ASSUME ServiceInvariant,
         UNCHANGED <<disk, marker, lock, proc, backups, answered, inodes>>,
         \/ StageBegin \/ \E n \in Names : StageOne(n)
         \/ StageDies \/ Rotate \/ UNCHANGED secrets
  PROVE  ServiceInvariant'
<1>1. /\ projected' \in Configurations /\ staged' \in [Names -> Values \cup {None}]
      /\ stager' # None => stager' \subseteq Names
  <2>1. CASE StageBegin
    BY <2>1 DEF ServiceInvariant, Typed, StageBegin
  <2>2. ASSUME NEW n \in Names, StageOne(n)
        PROVE  /\ projected' \in Configurations
               /\ staged' \in [Names -> Values \cup {None}]
               /\ stager' # None => stager' \subseteq Names
    <3>1. projected[n] \in Values
      BY DEF ServiceInvariant, Typed, Configurations
    <3> QED
      BY <2>2, <3>1 DEF ServiceInvariant, Typed, StageOne
  <2>3. CASE StageDies
    BY <2>3 DEF ServiceInvariant, Typed, StageDies
  <2>4. CASE Rotate
    <3>1. projected' \in Configurations
      BY <2>4 DEF Rotate, Configurations
    <3>2. staged' \in [Names -> Values \cup {None}] /\ stager' = stager
      BY <2>4 DEF Rotate, ServiceInvariant, Typed
    <3> QED
      BY <3>1, <3>2 DEF ServiceInvariant, Typed
  <2>5. CASE UNCHANGED secrets
    BY <2>5 DEF ServiceInvariant, Typed, secrets
  <2> QED
    BY <2>1, <2>2, <2>3, <2>4, <2>5
<1>2. Typed'
  BY <1>1 DEF ServiceInvariant, Typed
<1>3. \A q \in Procs : ProcHeld(q)'
  BY OthersSteady DEF Steady
<1>4. LockHeld' /\ AloneHeld' /\ FilesNumbered' /\ ApartHeld'
  BY DEF ServiceInvariant, LockHeld, InSection, Copying, AloneHeld, FilesNumbered,
         Numbered, ApartHeld, NamedBy, Exists, Unmarked
<1>5. MarkedHeld' /\ AnswersHeld' /\ AdapterHeld' /\ BackupsHeld'
  BY DEF ServiceInvariant, MarkedHeld, AnswersHeld, AdapterHeld, BackupsHeld,
         SetBound, OneState, Claims, Exists, Cut
<1>6. \A s \in Stores : TornUnknown(s)'
  BY DEF ServiceInvariant, TornUnknown
<1> QED
  BY <1>2, <1>3, <1>4, <1>5, <1>6 DEF ServiceInvariant

-----------------------------------------------------------------------------
(* Steps that only move a process on.                                      *)

\* The startup lock is taken for opening, or the process ends.
LEMMA PreflightStep ==
  ASSUME ServiceInvariant, NEW p \in Procs, Preflight(p)
  PROVE  ServiceInvariant'
<1>1. /\ proc[p].at = "opening" /\ lock = None
      /\ Steady /\ UNCHANGED <<backups, answered>> /\ UNCHANGED secrets
  BY DEF Preflight, Steady
<1>2. CASE PreflightPasses
  <2>1. lock' = p /\ Go(p, "control")
    BY <1>2 DEF Preflight
  <2>2. /\ proc' \in [Procs -> ProcRow] /\ Others(p) /\ Keeps(p)
        /\ proc'[p].at = "control" /\ proc'[p].req = proc[p].req
    BY <2>1, GoTold DEF ServiceInvariant, Places, Entering, Artifacts
  <2>3. LockMoves(p)
    BY <1>1, <2>1, <2>2 DEF LockMoves, InSection, Inside, Artifacts
  <2>4. PlaceHeld(p)'
    BY <1>1, <2>2 DEF ServiceInvariant, ProcHeld, PlaceHeld, Keeps, Steady, Serving,
       Calling, Working
  <2>5. OpenedHeld(p)' /\ BoundHeld(p)' /\ ClosingHeld(p)' /\ WorkHeld(p)'
    BY <2>2 DEF OpenedHeld, BoundHeld, ClosingHeld, WorkHeld, Verified, Closing, Serving,
       Calling, Working
  <2> QED
    BY <1>1, <2>1, <2>2, <2>3, <2>4, <2>5, KeptStep DEF Closing, Working
<1>3. CASE ~PreflightPasses
  BY <1>1, <1>3, EndSteady, ServiceAssumption DEF Preflight
<1> QED
  BY <1>2, <1>3

\* A call that ends, for whatever reason, leaves the process waiting for the next.
LEMMA AnswerStep ==
  ASSUME ServiceInvariant, NEW p \in Procs, Answer(p), Steady,
         UNCHANGED <<backups, answered>>, UNCHANGED secrets, proc[p].at \in Serving,
         lock' = IF lock = p THEN None ELSE lock
  PROVE  ServiceInvariant'
<1>1. proc' \in [Procs -> ProcRow] /\ Others(p) /\ Keeps(p) /\ proc'[p].at = "serving"
  BY AnswerTold DEF ServiceInvariant
<1>2. LockMoves(p) /\ lock' \in Procs \cup {None}
  BY <1>1, ServiceAssumption DEF LockMoves, InSection, Inside, Artifacts, Copying,
     ServiceInvariant, Typed
<1>3. PlaceHeld(p)'
  BY <1>1 DEF ServiceInvariant, ProcHeld, PlaceHeld, Keeps, Serving, Calling, Working
<1>4. OpenedHeld(p)' /\ BoundHeld(p)'
  BY <1>1 DEF ServiceInvariant, ProcHeld, OpenedHeld, BoundHeld, Keeps, Steady, Verified,
     Closing, Serving, Calling, Working
<1>5. ClosingHeld(p)' /\ WorkHeld(p)'
  BY <1>1 DEF ClosingHeld, WorkHeld, Closing, Working
<1>6. proc[p].at # "write"
  BY DEF Serving, Calling, Working
<1> QED
  BY <1>1, <1>2, <1>3, <1>4, <1>5, <1>6, KeptStep DEF Closing, Working

\* The lock was not free in time.
LEMMA BusyStep ==
  ASSUME ServiceInvariant, NEW p \in Procs, Busy(p)
  PROVE  ServiceInvariant'
<1>1. /\ proc[p].at \in Waiting /\ lock \notin {None, p} /\ lock' = lock
      /\ Steady /\ UNCHANGED <<backups, answered>> /\ UNCHANGED secrets
  BY DEF Busy, Steady
<1>2. CASE proc[p].role = "serve" /\ proc[p].at # "opening"
  <2>1. Answer(p)
    BY <1>2 DEF Busy
  <2>2. proc[p].at \in Serving
    BY <1>1, <1>2 DEF ServiceInvariant, ProcHeld, PlaceHeld, Waiting, Serving, Calling
  <2> QED
    BY <1>1, <2>1, <2>2, AnswerStep
<1>3. CASE ~(proc[p].role = "serve" /\ proc[p].at # "opening")
  BY <1>1, <1>3, EndSteady DEF Busy
<1> QED
  BY <1>2, <1>3

\* A process that is outside the sections holds no lock.
LEMMA OutsideUnlocked ==
  ASSUME ServiceInvariant, NEW p \in Procs, ~InSection(p)
  PROVE  lock # p
BY DEF ServiceInvariant, LockHeld

\* A server or a backup that still finds a file it opened works under the marker it read.
LEMMA BoundMarked ==
  ASSUME ServiceInvariant, NEW p \in Procs, proc[p].at \in Verified,
         NEW a \in Artifacts, Bound(p, a)
  PROVE  marker = proc[p].mark /\ marker \in Markers /\ marker.cfg = proc[p].cfg
<1>1. proc[p].role \in {"serve", "backup"}
  BY DEF ServiceInvariant, ProcHeld, PlaceHeld, Verified
<1>2. proc[p].mark \in Markers /\ proc[p].mark.cfg = proc[p].cfg
  BY <1>1 DEF ServiceInvariant, ProcHeld, PlaceHeld
<1>3. marker = proc[p].mark
  BY DEF ServiceInvariant, ProcHeld, BoundHeld, Bound
<1> QED
  BY <1>2, <1>3

\* What was opened is about to be marked.
LEMMA ClosingStep ==
  ASSUME ServiceInvariant, NEW p \in Procs, proc[p].at \in {"ready", "identify"},
         Go(p, "mark"), Steady, UNCHANGED <<backups, answered>>, UNCHANGED secrets,
         lock' = lock
  PROVE  ServiceInvariant'
<1>1. /\ proc' \in [Procs -> ProcRow] /\ Others(p) /\ Keeps(p)
      /\ proc'[p].at = "mark"
  BY GoTold DEF ServiceInvariant, Places, Closing
<1>2. LockMoves(p) /\ lock' \in Procs \cup {None}
  BY <1>1, OutsideUnlocked DEF LockMoves, InSection, Inside, Artifacts, Copying,
     ServiceInvariant, Typed
<1>3. PlaceHeld(p)'
  BY <1>1 DEF ServiceInvariant, ProcHeld, PlaceHeld, Keeps, Steady, Serving, Calling,
     Working
<1>4. OpenedHeld(p)'
  BY <1>1 DEF ServiceInvariant, ProcHeld, OpenedHeld, Keeps, Closing
<1>5. BoundHeld(p)' /\ WorkHeld(p)'
  BY <1>1 DEF BoundHeld, WorkHeld, Verified, Serving, Calling, Working
<1>6. ClosingHeld(p)'
  BY <1>1 DEF ServiceInvariant, ProcHeld, ClosingHeld, Closing, Keeps, Steady, Unmarked,
     NamedBy, Exists, OneState, Claims
<1>7. proc[p].at \in Closing
  BY DEF Closing
<1> QED
  BY <1>1, <1>2, <1>3, <1>4, <1>5, <1>6, <1>7, KeptStep DEF Working

\* The readiness of a new state is asserted.
LEMMA ReadyStep ==
  ASSUME ServiceInvariant, NEW p \in Procs, Ready(p)
  PROVE  ServiceInvariant'
<1>1. /\ proc[p].at = "ready" /\ lock = None /\ lock' = lock
      /\ Steady /\ UNCHANGED <<backups, answered>> /\ UNCHANGED secrets
      /\ Go(p, "mark") \/ End(p)
  BY DEF Ready, Steady
<1> QED
  BY <1>1, ClosingStep, EndSteady, ServiceAssumption

\* The identities of a restored set are compared.
LEMMA IdentifyStep ==
  ASSUME ServiceInvariant, NEW p \in Procs, Identify(p)
  PROVE  ServiceInvariant'
<1>1. /\ proc[p].at = "identify" /\ lock' = lock
      /\ Steady /\ UNCHANGED <<backups, answered>> /\ UNCHANGED secrets
      /\ Go(p, "mark") \/ End(p)
  BY DEF Identify, Steady
<1>2. lock # p
  BY <1>1, OutsideUnlocked DEF InSection, Inside, Artifacts, Copying
<1> QED
  BY <1>1, <1>2, ClosingStep, EndSteady

\* The marker that was read is compared with what was opened.
LEMMA VerifyStep ==
  ASSUME ServiceInvariant, NEW p \in Procs, Verify(p)
  PROVE  ServiceInvariant'
<1>1. /\ proc[p].at = "verify" /\ lock' = lock
      /\ Steady /\ UNCHANGED <<backups, answered>> /\ UNCHANGED secrets
  BY DEF Verify, Steady
<1>2. lock # p
  BY <1>1, OutsideUnlocked DEF InSection, Inside, Artifacts, Copying
<1>3. CASE proc[p].mark = MarkerOf(p) /\ Exists("audit")
  <2> DEFINE s == IF proc[p].role = "serve" THEN "serving" ELSE "stage"
  <2>1. Go(p, s)
    BY <1>3 DEF Verify
  <2>2. s \in Places /\ s \in {"serving", "stage"}
    BY DEF Places, Serving
  <2>3. /\ proc' \in [Procs -> ProcRow] /\ Others(p) /\ Keeps(p)
        /\ proc'[p].at = s
    BY <2>1, <2>2, GoTold DEF ServiceInvariant
  <2>4. PlaceHeld(p)'
    BY <1>1, <2>3 DEF ServiceInvariant, ProcHeld, PlaceHeld, Keeps, Steady, Serving,
       Calling, Working
  <2> HIDE DEF s
  <2>5. LockMoves(p) /\ lock' \in Procs \cup {None}
    BY <1>1, <1>2, <2>2, <2>3 DEF LockMoves, InSection, Inside, Artifacts, Copying,
       ServiceInvariant, Typed
  <2>6. OpenedHeld(p)'
    BY <1>1, <2>2, <2>3 DEF ServiceInvariant, ProcHeld, OpenedHeld, Keeps, Serving,
       Calling, Working, Closing
  <2>7. marker = proc[p].mark
    <3>1. proc[p].mark.ino = disk["audit"].ino
      BY <1>3 DEF MarkerOf
    <3>2. proc[p].role \in {"serve", "backup"}
      BY <1>1 DEF ServiceInvariant, ProcHeld, PlaceHeld
    <3> QED
      BY <3>1, <3>2 DEF ServiceInvariant, ProcHeld, MarkHeld
  <2>8. BoundHeld(p)'
    BY <1>1, <2>3, <2>7 DEF BoundHeld, Keeps, Steady
  <2>9. ClosingHeld(p)' /\ WorkHeld(p)' /\ proc'[p].at \notin Closing \cup Working
    BY <2>2, <2>3 DEF ClosingHeld, WorkHeld, Closing, Working
  <2>10. proc'[p].at \notin {"copy", "rename", "write"} /\ proc[p].at # "write"
    BY <1>1, <2>2, <2>3
  <2> QED
    BY <1>1, <2>3, <2>4, <2>5, <2>6, <2>8, <2>9, <2>10, KeptStep
<1>4. CASE ~(proc[p].mark = MarkerOf(p) /\ Exists("audit"))
  BY <1>1, <1>2, <1>4, EndSteady DEF Verify
<1> QED
  BY <1>3, <1>4

\* The supervisor stops a server.
LEMMA StopStep ==
  ASSUME ServiceInvariant, NEW p \in Procs, Stop(p)
  PROVE  ServiceInvariant'
<1>1. /\ proc[p].at = "serving" /\ lock' = lock /\ End(p)
      /\ Steady /\ UNCHANGED <<backups, answered>> /\ UNCHANGED secrets
  BY DEF Stop, Steady
<1>2. lock # p
  BY <1>1, OutsideUnlocked DEF InSection, Inside, Artifacts, Copying
<1> QED
  BY <1>1, <1>2, EndSteady

-----------------------------------------------------------------------------
(* Calls that do not write.                                                *)

\* A step that moves p on within the state it has opened, to a place of a server
\* at which nothing more is claimed than before.
LEMMA ServingStep ==
  ASSUME ServiceInvariant, NEW p \in Procs, Others(p), Keeps(p), Steady,
         UNCHANGED <<backups, answered>>, UNCHANGED secrets,
         proc' \in [Procs -> ProcRow], proc[p].at \in Serving, proc'[p].at \in Serving,
         proc'[p].at \in Calling => proc'[p].req \in Requests,
         lock' \in Procs \cup {None}, LockMoves(p),
         WorkHeld(p)', proc'[p].at \in Working => ~Unmarked
  PROVE  ServiceInvariant'
<1>1. PlaceHeld(p)'
  BY DEF ServiceInvariant, ProcHeld, PlaceHeld, Keeps, Steady, Serving, Calling, Working
<1>2. OpenedHeld(p)' /\ BoundHeld(p)'
  BY DEF ServiceInvariant, ProcHeld, OpenedHeld, BoundHeld, Keeps, Steady, Verified,
     Closing, Serving, Calling, Working
<1>3. /\ proc'[p].at \notin {"copy", "rename", "write"} /\ proc[p].at # "write"
      /\ proc'[p].at \notin Closing
  BY DEF Serving, Calling, Working, Closing
<1>4. ClosingHeld(p)'
  BY <1>3 DEF ClosingHeld
<1> QED
  BY <1>1, <1>2, <1>3, <1>4, KeptStep

\* A request is read.
LEMMA SubmitStep ==
  ASSUME ServiceInvariant, NEW p \in Procs, NEW r \in Requests, Submit(p, r)
  PROVE  ServiceInvariant'
<1>1. /\ proc[p].at = "serving" /\ lock' = lock
      /\ proc' = [proc EXCEPT ![p].at = "look", ![p].req = r]
      /\ Steady /\ UNCHANGED <<backups, answered>> /\ UNCHANGED secrets
  BY DEF Submit, Steady
<1>2. PICK x \in ProcRow : x = proc[p]
  BY DEF ServiceInvariant, Typed
<1>3. PICK y : y = [x EXCEPT !.at = "look", !.req = r]
  OBVIOUS
<1>4. /\ y \in ProcRow /\ y.at = "look" /\ y.role = x.role /\ y.cfg = x.cfg
      /\ y.ids = x.ids /\ y.mark = x.mark /\ y.from = x.from /\ y.copy = x.copy
      /\ y.req = r
  BY <1>2, <1>3 DEF ProcRow, Places, Serving, Calling
<1>5. proc' = [proc EXCEPT ![p] = y]
  BY <1>1, <1>2, <1>3, Zenon
<1>6. proc' \in [Procs -> ProcRow] /\ proc'[p] = y /\ Others(p)
  BY <1>4, <1>5, RowTold DEF ServiceInvariant, Typed
<1>7. Keeps(p) /\ proc'[p].at = "look" /\ proc'[p].req = r
  BY <1>2, <1>4, <1>6 DEF Keeps
<1>8. LockMoves(p) /\ lock' \in Procs \cup {None}
  BY <1>1, <1>7, OutsideUnlocked DEF LockMoves, InSection, Inside, Artifacts, Copying,
     ServiceInvariant, Typed
<1>9. WorkHeld(p)' /\ proc'[p].at \notin Working
  BY <1>7 DEF WorkHeld, Working
<1> QED
  BY <1>1, <1>6, <1>7, <1>8, <1>9, ServingStep DEF Serving, Calling

\* The fence is passed: what a call that starts to write may rely on.
LEMMA EnterStep ==
  ASSUME ServiceInvariant, NEW p \in Procs, Enter(p)
  PROVE  ServiceInvariant'
<1>1. /\ proc[p].at = "process" /\ lock = None
      /\ Steady /\ UNCHANGED <<backups, answered>> /\ UNCHANGED secrets
  BY DEF Enter, Steady
<1>2. proc[p].at \in Serving \cap Calling \cap Verified
  BY <1>1 DEF Serving, Calling, Verified
<1>3. proc[p].req \in Requests
  BY <1>2 DEF ServiceInvariant, ProcHeld, PlaceHeld
<1>4. CASE AllBound(p) /\ Fence /\ lock' = p /\ Go(p, "receive")
  <2>1. /\ proc' \in [Procs -> ProcRow] /\ Others(p) /\ Keeps(p)
        /\ proc'[p].at = "receive" /\ proc'[p].req = proc[p].req
    BY <1>4, GoTold DEF ServiceInvariant, Places, Serving, Calling, Working
  <2>2. LockMoves(p)
    BY <1>1, <1>4, <2>1 DEF LockMoves, InSection, Inside
  <2>3. marker \in Markers
    BY <1>2, <1>4, BoundMarked DEF AllBound, Artifacts
  <2>4. WorkHeld(p)'
    BY <1>1, <1>4, <2>1 DEF WorkHeld, Fence, Steady
  <2> QED
    BY <1>1, <1>2, <1>3, <1>4, <2>1, <2>2, <2>3, <2>4, ServingStep DEF Serving, Calling,
       Working, Unmarked
<1>5. CASE lock' = lock /\ Go(p, "check")
  <2>1. /\ proc' \in [Procs -> ProcRow] /\ Others(p) /\ Keeps(p)
        /\ proc'[p].at = "check" /\ proc'[p].req = proc[p].req
    BY <1>5, GoTold DEF ServiceInvariant, Places, Serving, Calling
  <2>2. LockMoves(p)
    BY <1>1, <1>5, <2>1, ServiceAssumption DEF LockMoves, InSection, Inside, Artifacts,
       Copying
  <2>3. WorkHeld(p)' /\ proc'[p].at \notin Working
    BY <2>1 DEF WorkHeld, Working
  <2> QED
    BY <1>1, <1>2, <1>3, <1>5, <2>1, <2>2, <2>3, ServingStep DEF Serving, Calling
<1>6. CASE lock' = lock /\ Answer(p)
  BY <1>1, <1>2, <1>6, AnswerStep, ServiceAssumption
<1> QED
  BY <1>4, <1>5, <1>6 DEF Enter

\* A reconciliation takes the locks.
LEMMA ReconcileStep ==
  ASSUME ServiceInvariant, NEW p \in Procs, NEW r \in Requests, Reconcile(p, r)
  PROVE  ServiceInvariant'
<1>1. /\ proc[p].at = "serving" /\ lock = None /\ lock' = p /\ AllBound(p)
      /\ proc' = [proc EXCEPT ![p].at = "final", ![p].req = r]
      /\ Steady /\ UNCHANGED <<backups, answered>> /\ UNCHANGED secrets
  BY DEF Reconcile, Steady
<1>2. PICK x \in ProcRow : x = proc[p]
  BY DEF ServiceInvariant, Typed
<1>3. PICK y : y = [x EXCEPT !.at = "final", !.req = r]
  OBVIOUS
<1>4. /\ y \in ProcRow /\ y.at = "final" /\ y.role = x.role /\ y.cfg = x.cfg
      /\ y.ids = x.ids /\ y.mark = x.mark /\ y.from = x.from /\ y.copy = x.copy
      /\ y.req = r
  BY <1>2, <1>3 DEF ProcRow, Places, Serving, Calling, Working
<1>5. proc' = [proc EXCEPT ![p] = y]
  BY <1>1, <1>2, <1>3, Zenon
<1>6. proc' \in [Procs -> ProcRow] /\ proc'[p] = y /\ Others(p)
  BY <1>4, <1>5, RowTold DEF ServiceInvariant, Typed
<1>7. Keeps(p) /\ proc'[p].at = "final" /\ proc'[p].req = r
  BY <1>2, <1>4, <1>6 DEF Keeps
<1>8. LockMoves(p) /\ lock' \in Procs \cup {None}
  BY <1>1, <1>7 DEF LockMoves, InSection, Inside
<1>9. WorkHeld(p)'
  BY <1>7 DEF WorkHeld
<1>10. proc[p].at \in Serving \cap Verified
  BY <1>1 DEF Serving, Verified
<1>11. marker \in Markers
  BY <1>1, <1>10, BoundMarked DEF AllBound, Artifacts
<1> QED
  BY <1>1, <1>6, <1>7, <1>8, <1>9, <1>10, <1>11, ServingStep DEF Serving, Calling,
     Working, Unmarked

\* A result that is found is terminal, closed, and of the marked state.
LEMMA FoundIsMarked ==
  ASSUME ServiceInvariant, NEW p \in Procs, proc[p].at \in Calling, AllBound(p),
         Continuous, Found(proc[p].req)
  PROVE  LET e == <<disk["audit"].ino, proc[p].req>> IN
         /\ e \in Nat \X Requests /\ e[1] \in 1..inodes /\ marker \in Markers
         /\ e[2] \in disk["audit"].done \cap disk["control"].done
<1>1. proc[p].req \in Requests /\ proc[p].ids["audit"].ino # 0
  BY DEF ServiceInvariant, ProcHeld, PlaceHeld, OpenedHeld, Serving, Artifacts
<1>2. disk["audit"].ino \in 1..inodes
  <2>1. disk["audit"].ino \in 0..inodes /\ inodes \in Nat
    BY DEF ServiceInvariant, FilesNumbered, Numbered, Artifacts, Typed
  <2> QED
    BY <1>1, <2>1 DEF AllBound, Bound, Artifacts
<1>3. marker \in Markers
  BY BoundMarked DEF AllBound, Artifacts, Verified, Serving
<1>4. inodes \in Nat
  BY DEF ServiceInvariant, Typed
<1> QED
  BY <1>1, <1>2, <1>3, <1>4 DEF Continuous, Found

\* The result is looked up, before or after the processing.
LEMMA LookStep ==
  ASSUME ServiceInvariant, NEW p \in Procs, Look(p)
  PROVE  ServiceInvariant'
<1>1. /\ proc[p].at \in {"look", "check"} /\ lock = None /\ lock' = lock
      /\ Steady /\ UNCHANGED backups /\ UNCHANGED secrets
  BY DEF Look, Steady
<1>2. proc[p].at \in Calling /\ proc[p].at \in Serving
  BY <1>1 DEF Serving, Calling
<1>3. CASE AllBound(p) /\ Continuous /\ Found(proc[p].req)
  <2>1. /\ answered' = answered \cup {<<disk["audit"].ino, proc[p].req>>}
        /\ Answer(p)
    BY <1>3 DEF Look
  <2>2. proc' \in [Procs -> ProcRow] /\ Others(p) /\ Keeps(p) /\ proc'[p].at = "serving"
    BY <2>1, AnswerTold DEF ServiceInvariant
  <2>3. Typed'
    BY <1>1, <1>2, <1>3, <2>1, <2>2, FoundIsMarked DEF ServiceInvariant, Typed, Steady,
       secrets
  <2>4. LockMoves(p)
    BY <1>1, <2>2, ServiceAssumption DEF LockMoves, InSection, Inside, Artifacts, Copying
  <2>5. /\ proc[p].at # "write" /\ proc'[p].at \notin {"copy", "rename", "write"}
        /\ proc'[p].at \notin Closing \cup Working
    BY <1>1, <2>2 DEF Closing, Working
  <2>6. PlaceHeld(p)' /\ OpenedHeld(p)' /\ BoundHeld(p)' /\ ClosingHeld(p)' /\ WorkHeld(p)'
    <3>1. PlaceHeld(p)'
      BY <1>1, <1>2, <2>2 DEF ServiceInvariant, ProcHeld, PlaceHeld, Keeps, Serving,
         Calling, Working
    <3>2. OpenedHeld(p)' /\ BoundHeld(p)'
      BY <1>1, <1>2, <2>2 DEF ServiceInvariant, ProcHeld, OpenedHeld, BoundHeld, Keeps,
         Steady, Verified, Closing, Serving, Calling, Working
    <3> QED
      BY <2>5, <3>1, <3>2 DEF ClosingHeld, WorkHeld
  <2>7. ProcHeld(p)'
    BY <1>1, <2>2, <2>5, <2>6, KeptHeld DEF ProcHeld
  <2>8. AloneHeld' /\ TornAside(p)
    BY <2>2, <2>5, KeptAside
  <2>9. FilesNumbered'
    BY <1>1, <1>2, <1>3, <2>1, FoundIsMarked DEF ServiceInvariant, FilesNumbered,
       Numbered, Steady
  <2>10. AnswersHeld'
    <3> SUFFICES ASSUME NEW e \in answered', disk["audit"].ino = e[1]
                 PROVE  /\ marker \in Markers
                        /\ SetBound => e[2] \in disk["audit"].done \cap disk["control"].done
      BY <1>1 DEF AnswersHeld, Steady, SetBound, Exists
    <3>1. CASE e \in answered
      BY <3>1 DEF ServiceInvariant, AnswersHeld
    <3>2. CASE e = <<disk["audit"].ino, proc[p].req>>
      BY <1>2, <1>3, <3>2, FoundIsMarked
    <3> QED
      BY <2>1, <3>1, <3>2
  <2>11. BackupsHeld'
    BY <1>1 DEF ServiceInvariant, BackupsHeld, Cut
  <2> QED
    BY <1>1, <2>2, <2>3, <2>4, <2>5, <2>7, <2>8, <2>9, <2>10, <2>11, StillStep
<1>4. CASE ~(AllBound(p) /\ Continuous /\ Found(proc[p].req))
  <2>1. UNCHANGED <<backups, answered>>
    BY <1>1, <1>4 DEF Look
  <2>2. CASE Go(p, "process")
    <3>1. /\ proc' \in [Procs -> ProcRow] /\ Others(p) /\ Keeps(p)
          /\ proc'[p].at = "process" /\ proc'[p].req = proc[p].req
      BY <2>2, GoTold DEF ServiceInvariant, Places, Serving, Calling
    <3>2. LockMoves(p)
      BY <1>1, <3>1, ServiceAssumption DEF LockMoves, InSection, Inside, Artifacts,
         Copying
    <3>3. WorkHeld(p)' /\ proc'[p].at \notin Working
      BY <3>1 DEF WorkHeld, Working
    <3>4. proc[p].req \in Requests
      BY <1>2 DEF ServiceInvariant, ProcHeld, PlaceHeld
    <3> QED
      BY <1>1, <1>2, <2>1, <3>1, <3>2, <3>3, <3>4, ServingStep DEF Serving, Calling
  <2>3. CASE Answer(p)
    BY <1>1, <1>2, <2>1, <2>3, AnswerStep, ServiceAssumption
  <2> QED
    BY <1>4, <2>2, <2>3 DEF Look
<1> QED
  BY <1>3, <1>4

-----------------------------------------------------------------------------
(* A process begins.                                                       *)

\* A process that begins has opened nothing.
Fresh(p) ==
  /\ proc[p].ids = [a \in Artifacts |-> Absent] /\ proc[p].req = None
  /\ proc[p].copy = None
  /\ proc[p].at = "opening" \/ (proc[p].at = "copy" /\ proc[p].role = "restore")
  /\ proc[p].role = "restore" => proc[p].at = "copy"

\* What a process that begins must hold follows from what it was told at the start.
LEMMA FreshStep ==
  ASSUME ServiceInvariant, NEW p \in Procs, Others(p), Steady,
         UNCHANGED <<backups, answered>>, UNCHANGED secrets, lock' = lock,
         proc[p].at = "off", proc' \in [Procs -> ProcRow], Fresh(p)', AloneHeld',
         PlaceHeld(p)',
         proc'[p].role \in {"serve", "backup"} => proc'[p].mark = marker,
         proc'[p].role \in {"init", "restore"} => Empty,
         proc'[p].mark \in {marker, NoMarker}
  PROVE  ServiceInvariant'
<1> USE DEF Steady
<1>1. Typed'
  BY DEF ServiceInvariant, Typed, secrets
<1>2. /\ \A a \in Artifacts : proc'[p].ids[a] = Absent
      /\ proc'[p].at \in {"opening", "copy"} /\ ~Copying(p)'
      /\ proc'[p].at = "copy" => proc'[p].role = "restore"
      /\ proc'[p].at \notin Closing \cup Working \cup Serving \cup Verified
      /\ proc'[p].role = "backup" => proc'[p].at = "opening"
  BY DEF Fresh, Copying, Closing, Working, Serving, Calling, Verified
<1>3. LockMoves(p)
  BY <1>2, OutsideUnlocked DEF LockMoves, InSection, Copying, Inside, Artifacts
<1>4. IdsNumbered(p)'
  <2>1. Numbered(Absent)'
    BY DEF Numbered, Absent, ServiceInvariant, Typed
  <2>2. proc'[p].mark.ino <= inodes'
    BY DEF ServiceInvariant, FilesNumbered, NoMarker, Typed
  <2>3. ~(proc'[p].role = "backup" /\ proc'[p].at \in {"copy", "rename"})
    BY <1>2
  <2>4. \A a \in Artifacts : Numbered(proc[p].ids[a])'
    BY <1>2, <2>1 DEF Numbered
  <2> QED
    BY <2>2, <2>3, <2>4 DEF IdsNumbered
<1>5. OpenedHeld(p)' /\ RestoreOrder(p)'
  BY <1>2 DEF OpenedHeld, RestoreOrder, Absent, Artifacts, Copying
<1>6. MarkHeld(p)' /\ BoundHeld(p)'
  BY <1>2 DEF MarkHeld, BoundHeld
<1>7. BuildingHeld(p)'
  <2>1. Empty => disk["control"].by = {} /\ ~disk["audit"].torn /\ marker = NoMarker
    BY DEF Empty, Exists, Absent, ServiceInvariant, FilesNumbered, Numbered, Artifacts
  <2>2. proc'[p].at # "write"
    BY <1>2
  <2> QED
    BY <2>1, <2>2 DEF BuildingHeld, Unmarked
<1>8. ClosingHeld(p)' /\ WorkHeld(p)' /\ CutHeld(p)'
  BY <1>2 DEF ClosingHeld, WorkHeld, CutHeld, Copying
<1>9. ProcHeld(p)'
  BY <1>4, <1>5, <1>6, <1>7, <1>8 DEF ProcHeld
<1>10. TornAside(p)
  <2>1. \A s \in Stores : disk[s].torn => disk[s].id # 0
    BY DEF ServiceInvariant, FilesNumbered, Numbered, Absent, Stores, Artifacts
  <2>2. \A s \in Stores : proc'[p].ids[s].id = 0
    BY <1>2 DEF Absent, Stores, Artifacts
  <2> QED
    BY <1>2, <2>1, <2>2 DEF TornAside
<1> QED
  BY <1>1, <1>2, <1>3, <1>9, <1>10, SteadyStep

\* Whoever begins alone is alone.
LEMMA AloneBegins ==
  ASSUME ServiceInvariant, NEW p \in Procs, NEW role \in Roles, Others(p),
         KeptApart(p, role), proc'[p].role = role
  PROVE  AloneHeld'
BY DEF ServiceInvariant, AloneHeld, KeptApart, Others

\* A process begins in its role, with the configuration that is staged.
LEMMA BeginStep ==
  ASSUME ServiceInvariant, NEW p \in Procs, NEW role \in Roles, Begin(p, role)
  PROVE  ServiceInvariant'
<1>1. /\ proc[p].at = "off" /\ Loadable /\ KeptApart(p, role) /\ lock' = lock
      /\ Steady /\ UNCHANGED <<backups, answered>> /\ UNCHANGED secrets
  BY Zenon DEF Begin, Steady
<1>2. staged \in Configurations
  BY <1>1 DEF ServiceInvariant, Typed, Loadable, Configurations
<1>3. CASE role = "init" /\ Empty
            /\ proc' = [proc EXCEPT ![p] = [Off EXCEPT !.at = "opening", !.role = role,
                                                       !.cfg = staged]]
  <2>1. PICK y : y = [Off EXCEPT !.at = "opening", !.role = role, !.cfg = staged]
    OBVIOUS
  <2>2. /\ y.at = "opening" /\ y.role = "init" /\ y.cfg = staged /\ y.req = None
        /\ y.ids = [a \in Artifacts |-> Absent] /\ y.mark = NoMarker /\ y.copy = None
    BY <1>3, <2>1 DEF Off
  <2>3. y \in ProcRow
    BY <1>2, <2>1, OffTyped DEF ProcRow, Places, Entering
  <2>4. proc' = [proc EXCEPT ![p] = y]
    BY <1>3, <2>1
  <2>5. proc' \in [Procs -> ProcRow] /\ proc'[p] = y /\ Others(p)
    BY <2>3, <2>4, RowTold DEF ServiceInvariant, Typed
  <2>6. PlaceHeld(p)'
    BY <1>2, <1>3, <2>2, <2>5 DEF PlaceHeld, Serving, Calling, Working, Roles
  <2>7. Fresh(p)' /\ AloneHeld'
    BY <1>1, <1>3, <2>2, <2>5, AloneBegins DEF Fresh
  <2> QED
    BY <1>1, <1>3, <2>2, <2>5, <2>6, <2>7, FreshStep
<1>4. CASE /\ role = "restore" /\ Empty
           /\ \E b \in backups :
                /\ ManifestFits(b, staged)
                /\ proc' = [proc EXCEPT ![p] =
                              [Off EXCEPT !.at = "copy", !.role = role, !.cfg = staged,
                                          !.from = b]]
  <2>0. PICK b \in backups :
                /\ ManifestFits(b, staged)
                /\ proc' = [proc EXCEPT ![p] =
                              [Off EXCEPT !.at = "copy", !.role = role, !.cfg = staged,
                                          !.from = b]]
    BY <1>4, Zenon
  <2>1. PICK y : y = [Off EXCEPT !.at = "copy", !.role = role, !.cfg = staged, !.from = b]
    OBVIOUS
  <2>2. /\ y.at = "copy" /\ y.role = "restore" /\ y.cfg = staged /\ y.req = None
        /\ y.ids = [a \in Artifacts |-> Absent] /\ y.mark = NoMarker /\ y.copy = None
        /\ y.from = b
    BY <1>4, <2>1 DEF Off
  <2>3. y \in ProcRow
    BY <1>2, <2>1, OffTyped DEF ProcRow, Places, ServiceInvariant, Typed
  <2>4. proc' = [proc EXCEPT ![p] = y]
    BY <2>0, <2>1
  <2>5. proc' \in [Procs -> ProcRow] /\ proc'[p] = y /\ Others(p)
    BY <2>3, <2>4, RowTold DEF ServiceInvariant, Typed
  <2>6. PlaceHeld(p)'
    BY <1>1, <1>2, <1>4, <2>0, <2>2, <2>5 DEF PlaceHeld, Serving, Calling, Working, Roles,
       ManifestFits
  <2>7. Fresh(p)' /\ AloneHeld'
    BY <1>1, <1>4, <2>2, <2>5, AloneBegins DEF Fresh
  <2> QED
    BY <1>1, <1>4, <2>2, <2>5, <2>6, <2>7, FreshStep
<1>5. CASE role \in {"serve", "backup"} /\ MarkerReads(staged)
            /\ proc' = [proc EXCEPT ![p] = [Off EXCEPT !.at = "opening", !.role = role,
                                                       !.cfg = staged, !.mark = marker]]
  <2>1. PICK y : y = [Off EXCEPT !.at = "opening", !.role = role, !.cfg = staged,
                                 !.mark = marker]
    OBVIOUS
  <2>2. /\ y.at = "opening" /\ y.role = role /\ y.cfg = staged /\ y.req = None
        /\ y.ids = [a \in Artifacts |-> Absent] /\ y.mark = marker /\ y.copy = None
    BY <1>5, <2>1 DEF Off
  <2>3. marker \in Markers /\ marker.cfg = staged
    BY <1>5 DEF MarkerReads, ServiceInvariant, Typed
  <2>4. y \in ProcRow
    BY <1>2, <2>1, <2>3, OffTyped, ZenonT(60) DEF ProcRow, Places, Entering
  <2>5. proc' = [proc EXCEPT ![p] = y]
    BY <1>5, <2>1
  <2>6. proc' \in [Procs -> ProcRow] /\ proc'[p] = y /\ Others(p)
    BY <2>4, <2>5, RowTold DEF ServiceInvariant, Typed
  <2>7. PlaceHeld(p)'
    BY <1>2, <1>5, <2>2, <2>3, <2>6 DEF PlaceHeld, Serving, Calling, Working, Roles
  <2>8. Fresh(p)' /\ AloneHeld'
    BY <1>1, <1>5, <2>2, <2>6, AloneBegins DEF Fresh
  <2> QED
    BY <1>1, <1>5, <2>2, <2>6, <2>7, <2>8, FreshStep
<1> QED
  BY <1>3, <1>4, <1>5, Zenon DEF Begin

-----------------------------------------------------------------------------
(* Steps that create a file.                                               *)

\* A file comes into being, under a name that nobody has ever known.
Created(a) ==
  /\ a \in Artifacts /\ ~Exists(a) /\ inodes' = inodes + 1 /\ marker' = marker
  /\ disk' \in [Artifacts -> Files]
  /\ disk'[a].ino = inodes + 1 /\ disk'[a].id = inodes + 1
  /\ disk'[a].open = {} /\ disk'[a].done = {} /\ disk'[a].by = {}
  /\ \A b \in Artifacts \ {a} : disk'[b] = disk[b]

\* An audit file is created when nobody is about to mark the set, or beside stores
\* that hold nothing and while no call is at work; it is half written only if nobody
\* else builds a state.
CreatedQuietly(p, a) ==
  a = "audit" =>
    /\ \A q \in Procs : proc'[q].at \in Closing =>
         OneState' /\ \A r \in Procs : proc'[r].at \notin Working
    /\ disk'[a].torn => \A q \in Procs \ {p} : proc[q].role \notin {"init", "restore"}

\* A new name is not one that was known.
LEMMA NewName ==
  ASSUME ServiceInvariant, NEW a \in Artifacts, Created(a)
  PROVE  /\ inodes \in Nat
         /\ \A q \in Procs, b \in Artifacts :
              /\ proc[q].ids[b].ino <= inodes /\ proc[q].ids[b].id <= inodes
              /\ proc[q].ids[b].ino \in Nat /\ proc[q].ids[b].id \in Nat
              /\ proc[q].ids[b].ino # disk'[a].ino /\ proc[q].ids[b].id # disk'[a].id
<1>1. inodes \in Nat
  BY DEF ServiceInvariant, Typed
<1>2. ASSUME NEW q \in Procs, NEW b \in Artifacts
      PROVE  proc[q].ids[b].ino \in 0..inodes /\ proc[q].ids[b].id \in 0..inodes
  BY DEF ServiceInvariant, ProcHeld, IdsNumbered, Numbered
<1> QED
  BY <1>1, <1>2 DEF Created

\* A set in which a file is new is not the set a marker binds.
LEMMA CreatedUnbound ==
  ASSUME ServiceInvariant, NEW a \in Artifacts, Created(a)
  PROVE  ~SetBound'
<1>1. inodes \in Nat /\ inodes' = inodes + 1 /\ marker' = marker
  BY DEF ServiceInvariant, Typed, Created
<1>2. CASE a = "audit"
  BY <1>1, <1>2 DEF ServiceInvariant, FilesNumbered, SetBound, Created, Typed, Markers
<1>3. CASE a \in Stores
  BY <1>1, <1>3 DEF ServiceInvariant, FilesNumbered, SetBound, Created, Typed, Markers,
     Stores
<1> QED
  BY <1>2, <1>3 DEF Artifacts, Stores

\* What was held of the other files is held of them.
LEMMA OthersCreated ==
  ASSUME ServiceInvariant, NEW p \in Procs, NEW a \in Artifacts, Created(a),
         CreatedQuietly(p, a), backups' = backups, NEW q \in Procs \ {p}, proc'[q] = proc[q]
  PROVE  ProcHeld(q)'
<1>1. PlaceHeld(q)' /\ OpenedHeld(q)' /\ RestoreOrder(q)'
  BY EachHeld, RowStays
<1>2. inodes \in Nat /\ inodes' = inodes + 1 /\ marker' = marker
  BY DEF ServiceInvariant, Typed, Created
<1>3. IdsNumbered(q)'
  <2>1. \A f : Numbered(f) => /\ f.ino \in 0..(inodes + 1) /\ f.id \in 0..(inodes + 1)
                              /\ f.ino = 0 => f = Absent
                              /\ f.ino # 0 => f.id # 0
    BY <1>2 DEF Numbered
  <2>2. proc[q].mark.ino <= inodes + 1
    <3>1. proc[q].mark.ino \in Int /\ proc[q].mark.ino <= inodes
      BY DEF ServiceInvariant, ProcHeld, IdsNumbered, Typed, ProcRow, Markers, NoMarker
    <3> QED
      BY <1>2, <3>1
  <2>3. \A b \in Artifacts : Numbered(proc[q].ids[b])'
    BY <1>2, <2>1 DEF ServiceInvariant, ProcHeld, IdsNumbered, Numbered
  <2>4. proc[q].role = "backup" /\ proc[q].at \in {"copy", "rename"} =>
          \A b \in Artifacts : Numbered(proc[q].copy.files[b])'
    BY <1>2, <2>1 DEF ServiceInvariant, ProcHeld, IdsNumbered, Numbered
  <2> QED
    BY <1>2, <2>2, <2>3, <2>4 DEF IdsNumbered
<1>4. MarkHeld(q)'
  <2>1. proc[q].role \in {"serve", "backup"} => proc[q].mark.ino \in Nat
                                                 /\ proc[q].mark.ino <= inodes
    BY DEF ServiceInvariant, ProcHeld, PlaceHeld, IdsNumbered, Markers
  <2>2. a = "audit" => MarkHeld(q)'
    BY <1>2, <2>1 DEF MarkHeld, Created
  <2>3. a # "audit" => disk'["audit"] = disk["audit"]
    BY DEF Created, Artifacts
  <2> QED
    BY <1>2, <2>2, <2>3 DEF MarkHeld, ServiceInvariant, ProcHeld
<1>5. BoundHeld(q)'
  <2>1. \A b \in Artifacts : disk[b].ino # proc[q].ids[b].ino =>
                             disk'[b].ino # proc[q].ids[b].ino
    BY NewName DEF Created
  <2> QED
    BY <1>2, <2>1 DEF BoundHeld, ServiceInvariant, ProcHeld
<1>6. BuildingHeld(q)'
  <2>1. disk'["control"].by = disk["control"].by \/ disk'["control"].by = {}
    BY DEF Created, Artifacts
  <2>2. disk'["audit"].torn /\ proc[q].role \in {"init", "restore"} =>
          disk'["audit"] = disk["audit"]
    BY DEF Created, CreatedQuietly, Artifacts
  <2>3. Current(q)' = Current(q) /\ Current(q) \in Artifacts
    BY DEF Current, Artifacts
  <2>4. disk'[Current(q)].ino = proc[q].ids[Current(q)].ino =>
          disk'[Current(q)] = disk[Current(q)]
    BY <2>3, NewName DEF Created
  <2>5. proc'[q].role = "init" /\ Unmarked' => disk'["control"].by = {}
    BY <1>2, <2>1 DEF ServiceInvariant, ProcHeld, BuildingHeld, Unmarked
  <2>6. proc'[q].role = "restore" =>
           marker' = NoMarker /\ disk'["control"].by \subseteq {proc'[q].cfg}
    BY <1>2, <2>1 DEF ServiceInvariant, ProcHeld, BuildingHeld
  <2>7. /\ proc'[q].role = "init" => ~disk'["audit"].torn
        /\ proc'[q].role = "restore" /\ disk'["audit"].torn =>
             /\ proc'[q].at = "write" /\ Current(q)' = "audit"
             /\ disk'["audit"].ino = proc'[q].ids["audit"].ino
    BY <2>2, <2>3 DEF ServiceInvariant, ProcHeld, BuildingHeld
  <2>8. proc'[q].at = "write" =>
          (disk'[Current(q)].ino = proc'[q].ids[Current(q)].ino => disk'[Current(q)].torn)
    BY <2>4 DEF ServiceInvariant, ProcHeld, BuildingHeld
  <2> QED
    BY <2>3, <2>5, <2>6, <2>7, <2>8 DEF BuildingHeld
<1>7. ClosingHeld(q)'
  <2>1. CASE a = "audit"
    BY <2>1 DEF CreatedQuietly, ClosingHeld
  <2>2. CASE a \in Stores
    <3>1. ~NamedBy(q)'
      BY <2>2, NewName DEF NamedBy
    <3> QED
      BY <3>1 DEF ClosingHeld
  <2> QED
    BY <2>1, <2>2 DEF Artifacts, Stores
<1>8. ~SetBound'
  BY CreatedUnbound
<1>9. WorkHeld(q)'
  BY <1>8 DEF WorkHeld
<1>10. CutHeld(q)'
  <2>1. Copied(q)' = Copied(q)
    BY DEF Copied
  <2>2. \A b \in Artifacts : Good(q, b)' => Good(q, b) /\ Seen(q, b)' = Seen(q, b)
    BY <2>1, NewName DEF Good, Seen, Created
  <2> QED
    <3>1. CutHeld(q)
      BY EachHeld
    <3> QED
      BY <2>2, <3>1 DEF CutHeld, Cut, Artifacts
<1> QED
  BY <1>1, <1>3, <1>4, <1>5, <1>6, <1>7, <1>9, <1>10 DEF ProcHeld

\* The names p has learnt are not those of a new store without its tables.
NewTornAside(p) ==
  \A s \in Stores : disk'[s].torn =>
    /\ proc'[p].ids[s].id # disk'[s].id
    /\ proc'[p].role = "backup" /\ proc'[p].at \in {"copy", "rename"} =>
         proc'[p].copy.files[s].id # disk'[s].id

\* A step of p that creates a file.
LEMMA CreatedStep ==
  ASSUME ServiceInvariant, NEW p \in Procs, Others(p), NEW a \in Artifacts, Created(a),
         CreatedQuietly(p, a), UNCHANGED <<backups, answered>>, Typed', LockMoves(p),
         ProcHeld(p)', AloneHeld', NewTornAside(p),
         proc'[p].at \notin Working, proc'[p].at \in Closing => a = "audit"
  PROVE  ServiceInvariant'
<1>1. inodes \in Nat /\ inodes' = inodes + 1 /\ marker' = marker
  BY DEF ServiceInvariant, Typed, Created
<1>2. \A q \in Procs : ProcHeld(q)'
  BY OthersCreated DEF Others
<1>3. LockHeld'
  BY LockKept
<1>4. FilesNumbered'
  <2>1. \A f : Numbered(f) => Numbered(f)'
    BY <1>1 DEF Numbered
  <2>2. Numbered(disk[a])'
    BY <1>1 DEF Numbered, Created
  <2>3. \A b \in Artifacts : Numbered(disk[b])'
    BY <2>1, <2>2 DEF ServiceInvariant, FilesNumbered, Created, Numbered
  <2>4. \A b \in backups', c \in Artifacts : Numbered(b.files[c])' /\ b.files[c].ino # 0
    BY <2>1 DEF ServiceInvariant, FilesNumbered, Numbered
  <2>5. marker.ino \in Int /\ marker.ino <= inodes
    BY DEF ServiceInvariant, FilesNumbered, Typed, Markers, NoMarker, TornMarker
  <2>6. marker \in Markers => /\ marker.control \in Int /\ marker.control <= inodes
                              /\ marker.adapter \in Int /\ marker.adapter <= inodes
    BY DEF ServiceInvariant, FilesNumbered, Markers
  <2>7. \A e \in answered : e[1] \in 1..inodes'
    BY <1>1 DEF ServiceInvariant, FilesNumbered
  <2> QED
    BY <1>1, <2>3, <2>4, <2>5, <2>6, <2>7 DEF FilesNumbered, Numbered
<1>5. MarkedHeld'
  <2>1. marker' \in Markers => disk'["audit"].ino # marker'.ino
                               \/ disk'["audit"] = disk["audit"]
    BY <1>1 DEF ServiceInvariant, FilesNumbered, Created, Artifacts, Markers
  <2> QED
    BY <1>1, <2>1, CreatedUnbound DEF ServiceInvariant, MarkedHeld
<1>6. AnswersHeld'
  <2>1. \A e \in answered : disk'["audit"].ino = e[1] => disk["audit"].ino = e[1]
    BY <1>1 DEF ServiceInvariant, FilesNumbered, Created, Artifacts
  <2> QED
    BY <1>1, <2>1, CreatedUnbound DEF ServiceInvariant, AnswersHeld
<1>7. AdapterHeld' /\ BackupsHeld'
  BY DEF ServiceInvariant, AdapterHeld, BackupsHeld, Created, Artifacts, Cut
<1>8. ApartHeld'
  <2> SUFFICES ASSUME NEW r \in Procs, NEW q \in Procs, proc'[r].at \in Closing,
                      proc'[q].at \in Working, NamedBy(r)'
               PROVE  ~Unmarked'
    BY DEF ApartHeld
  <2>1. CASE a = "audit"
    BY <2>1 DEF CreatedQuietly
  <2>2. CASE a # "audit"
    <3>1. r # p /\ proc'[r] = proc[r] /\ q # p /\ proc'[q] = proc[q]
      BY <2>2 DEF Others
    <3>2. a \in Stores
      BY <2>2 DEF Artifacts, Stores
    <3>3. disk'[a].id = proc[r].ids[a].id
      BY <3>1, <3>2 DEF NamedBy
    <3> QED
      BY <3>3, NewName
  <2> QED
    BY <2>1, <2>2
<1>9. ASSUME NEW s \in Stores
      PROVE  TornUnknown(s)'
  <2> SUFFICES ASSUME disk'[s].torn
               PROVE  /\ \A q \in Procs : proc'[q].ids[s].id # disk'[s].id
                      /\ \A b \in backups : b.files[s].id # disk'[s].id
                      /\ \A q \in Procs :
                           proc'[q].role = "backup" /\ proc'[q].at \in {"copy", "rename"}
                             => proc'[q].copy.files[s].id # disk'[s].id
                      /\ marker \in Markers =>
                           (IF s = "control" THEN marker.control
                                             ELSE marker.adapter) # disk'[s].id
    BY <1>1 DEF TornUnknown
  <2>1. CASE s = a
    <3>1. disk'[s].id = inodes + 1
      BY <2>1 DEF Created
    <3>2. \A b \in backups : b.files[s].id <= inodes
      BY <1>1 DEF ServiceInvariant, FilesNumbered, Numbered, Stores, Artifacts
    <3>3. \A q \in Procs :
            proc[q].role = "backup" /\ proc[q].at \in {"copy", "rename"}
              => proc[q].copy.files[s].id <= inodes
      <4> SUFFICES ASSUME NEW q \in Procs,
                          proc[q].role = "backup", proc[q].at \in {"copy", "rename"}
                   PROVE  proc[q].copy.files[s].id <= inodes
        OBVIOUS
      <4>1. IdsNumbered(q)
        BY EachHeld
      <4>2. Numbered(proc[q].copy.files[s])
        BY <4>1 DEF IdsNumbered, Stores, Artifacts
      <4> QED
        BY <4>2 DEF Numbered
    <3>4. marker \in Markers => marker.control <= inodes /\ marker.adapter <= inodes
      BY DEF ServiceInvariant, FilesNumbered
    <3>5. \A q \in Procs : proc[q].ids[s].id # disk'[s].id
      BY <2>1, NewName
    <3>6. \A b \in backups : b.files[s].id \in Int
      BY <1>1 DEF ServiceInvariant, FilesNumbered, Numbered, Stores, Artifacts
    <3>7. \A b \in backups : b.files[s].id # disk'[s].id
      BY <1>1, <3>1, <3>2, <3>6
    <3>8. \A q \in Procs :
            proc[q].role = "backup" /\ proc[q].at \in {"copy", "rename"}
              => proc[q].copy.files[s].id # disk'[s].id
      BY <1>1, <3>1, <3>3
    <3>9. marker \in Markers =>
            (IF s = "control" THEN marker.control ELSE marker.adapter) # disk'[s].id
      BY <1>1, <3>1, <3>4
    <3> QED
      BY <3>5, <3>7, <3>8, <3>9 DEF Others, NewTornAside
  <2>2. CASE s # a
    <3>1. disk'[s] = disk[s]
      BY <2>2 DEF Created, Stores, Artifacts
    <3> QED
      BY <3>1 DEF ServiceInvariant, TornUnknown, Others, NewTornAside
  <2> QED
    BY <2>1, <2>2
<1> QED
  BY <1>2, <1>3, <1>4, <1>5, <1>6, <1>7, <1>8, <1>9 DEF ServiceInvariant

-----------------------------------------------------------------------------
(* Opening a file.                                                         *)

OpenedRow(p, a, file, s) ==
  [[proc[p] EXCEPT !.ids[a] = file] EXCEPT !.at = s]
PlaceAfter(p, a) == IF a = "audit" THEN Opened(proc[p].role) ELSE NextOpening(a)
GoesOn(p, a, file) ==
  /\ proc' = [proc EXCEPT ![p] = OpenedRow(p, a, file, PlaceAfter(p, a))]
  /\ lock' = IF a = "audit" THEN None ELSE p

\* A file is refused, or it is found, or it is created.
Refuses(p) == disk' = disk /\ inodes' = inodes /\ lock' = None /\ End(p)
Finds(p, a) ==
  /\ Exists(a) /\ (disk[a].torn => a = "audit") /\ (a = "audit" => Continuous)
  /\ disk' = disk /\ inodes' = inodes /\ GoesOn(p, a, disk[a])
Creates(p, a) ==
  /\ ~Exists(a) /\ (a = "audit" => Claims \cup disk["adapter"].done = {})
  /\ disk' = [disk EXCEPT ![a] = New(inodes + 1)] /\ inodes' = inodes + 1
  /\ GoesOn(p, a, New(inodes + 1))

\* What OpenArtifact does is one of the three.
LEMMA OpenCases ==
  ASSUME Typed, NEW p \in Procs, NEW a \in Artifacts, OpenArtifact(p, a)
  PROVE  Refuses(p) \/ Finds(p, a) \/ Creates(p, a)
<1> DEFINE created == New(inodes + 1)
           file == IF Exists(a) THEN disk[a] ELSE created
           opens == \/ Exists(a) /\ (disk[a].torn => a = "audit")
                    \/ ~Exists(a) /\ (a = "audit" => Claims \cup disk["adapter"].done = {})
           bound == [proc[p] EXCEPT !.ids[a] = file]
           refused == ~opens \/ (a = "audit" /\ Exists(a) /\ ~Continuous)
<1>1. /\ lock = p
      /\ IF opens
         THEN /\ disk' = [disk EXCEPT ![a] = file]
              /\ inodes' = IF Exists(a) THEN inodes ELSE inodes + 1
         ELSE UNCHANGED <<disk, inodes>>
      /\ CASE refused -> lock' = None /\ End(p)
           [] opens /\ a # "audit" ->
                /\ proc' = [proc EXCEPT ![p] = [bound EXCEPT !.at = NextOpening(a)]]
                /\ UNCHANGED lock
           [] OTHER ->
                /\ proc' = [proc EXCEPT ![p] = [bound EXCEPT !.at = Opened(proc[p].role)]]
                /\ lock' = None
  BY Zenon DEF OpenArtifact
<1>2. [disk EXCEPT ![a] = disk[a]] = disk
  BY DEF Typed
<1>3. CASE refused
  <2>1. lock' = None /\ End(p)
    BY <1>1, <1>3, Zenon
  <2>2. disk' = disk /\ inodes' = inodes
    <3>1. CASE opens
      <4>1. Exists(a)
        BY <1>3, <3>1
      <4> QED
        BY <1>1, <1>2, <3>1, <4>1
    <3>2. CASE ~opens
      BY <1>1, <3>2
    <3> QED
      BY <3>1, <3>2
  <2> QED
    BY <2>1, <2>2 DEF Refuses
<1>4. CASE ~refused
  <2>1. opens
    BY <1>4
  <2>2. [bound EXCEPT !.at = PlaceAfter(p, a)] = OpenedRow(p, a, file, PlaceAfter(p, a))
    BY DEF OpenedRow
  <2>3. /\ proc' = [proc EXCEPT ![p] = [bound EXCEPT !.at = PlaceAfter(p, a)]]
        /\ lock' = IF a = "audit" THEN None ELSE p
    <3>1. CASE a # "audit"
      BY <1>1, <1>4, <2>1, <3>1, Zenon DEF PlaceAfter
    <3>2. CASE a = "audit"
      BY <1>1, <1>4, <2>1, <3>2, Zenon DEF PlaceAfter
    <3> QED
      BY <3>1, <3>2
  <2>4. GoesOn(p, a, file)
    BY <2>2, <2>3, Zenon DEF GoesOn
  <2>5. CASE Exists(a)
    <3>1. Continuous \/ a # "audit"
      BY <1>4, <2>5
    <3> QED
      BY <1>1, <1>2, <2>1, <2>4, <2>5, <3>1 DEF Finds
  <2>6. CASE ~Exists(a)
    BY <1>1, <2>1, <2>4, <2>6 DEF Creates
  <2> QED
    BY <2>5, <2>6
<1> QED
  BY <1>3, <1>4

\* The files are opened one after the other, and the role says what comes then.
LEMMA OpenPlaces ==
  ASSUME ServiceInvariant, NEW p \in Procs, NEW a \in Artifacts, proc[p].at = a
  PROVE  LET s == PlaceAfter(p, a) IN
         /\ s \in Places /\ proc[p].role \in Roles
         /\ a = "control" => s = "adapter"
         /\ a = "adapter" => s = "audit"
         /\ a = "audit" => /\ s \in {"ready", "identify", "verify"}
                           /\ s = "ready" => proc[p].role = "init"
                           /\ s = "identify" => proc[p].role = "restore"
                           /\ s = "verify" => proc[p].role \in {"serve", "backup"}
<1>1. proc[p].role \in Roles
  BY DEF ServiceInvariant, ProcHeld, PlaceHeld, Artifacts
<1>2. CASE a = "control"
  BY <1>1, <1>2 DEF PlaceAfter, NextOpening, Places, Entering, Artifacts
<1>3. CASE a = "adapter"
  BY <1>1, <1>3 DEF PlaceAfter, NextOpening, Places, Entering, Artifacts
<1>4. CASE a = "audit"
  <2>1. PlaceAfter(p, a) = Opened(proc[p].role)
    BY <1>4 DEF PlaceAfter
  <2>2. CASE proc[p].role = "init"
    BY <1>4, <2>1, <2>2 DEF Opened, Places, Closing, Roles
  <2>3. CASE proc[p].role = "restore"
    BY <1>4, <2>1, <2>3 DEF Opened, Places, Closing, Roles
  <2>4. CASE proc[p].role \in {"serve", "backup"}
    BY <1>4, <2>1, <2>4 DEF Opened, Places, Closing, Roles
  <2> QED
    BY <1>1, <2>2, <2>3, <2>4 DEF Roles
<1> QED
  BY <1>2, <1>3, <1>4 DEF Artifacts

\* The process keeps everything but its place and the file it opened.
LEMMA OpenTold ==
  ASSUME ServiceInvariant, NEW p \in Procs, NEW a \in Artifacts, NEW file \in Files,
         proc[p].at = a, GoesOn(p, a, file)
  PROVE  /\ proc' \in [Procs -> ProcRow] /\ Others(p)
         /\ proc'[p].at = PlaceAfter(p, a) /\ proc'[p].role = proc[p].role
         /\ proc'[p].cfg = proc[p].cfg /\ proc'[p].mark = proc[p].mark
         /\ proc'[p].from = proc[p].from
         /\ proc'[p].ids[a] = file
         /\ \A b \in Artifacts \ {a} : proc'[p].ids[b] = proc[p].ids[b]
<1>1. PICK x \in ProcRow : x = proc[p]
  BY DEF ServiceInvariant, Typed
<1>2. PICK s \in Places : s = PlaceAfter(p, a)
  BY OpenPlaces
<1>3. PICK y : y = OpenedRow(p, a, file, s)
  OBVIOUS
<1>4. PICK i : i = [x.ids EXCEPT ![a] = file]
  OBVIOUS
<1>5. i \in [Artifacts -> Files] /\ i[a] = file /\ \A b \in Artifacts \ {a} : i[b] = x.ids[b]
  BY <1>1, <1>4 DEF ProcRow
<1>6. y = [[x EXCEPT !.ids = i] EXCEPT !.at = s]
  BY <1>1, <1>3, <1>4, Zenon DEF OpenedRow
<1>7. /\ y \in ProcRow /\ y.at = s /\ y.role = x.role /\ y.cfg = x.cfg /\ y.ids = i
      /\ y.mark = x.mark /\ y.from = x.from
  BY <1>1, <1>5, <1>6 DEF ProcRow
<1>8. proc' = [proc EXCEPT ![p] = y]
  BY <1>2, <1>3 DEF GoesOn
<1>9. proc' \in [Procs -> ProcRow] /\ proc'[p] = y /\ Others(p)
  BY <1>7, <1>8, RowTold DEF ServiceInvariant, Typed
<1> QED
  BY <1>1, <1>2, <1>5, <1>7, <1>9

\* What a process that has opened a file must hold of itself.
LEMMA OpenHeld ==
  ASSUME ServiceInvariant, NEW p \in Procs, NEW a \in Artifacts, NEW file \in Files,
         proc[p].at = a, GoesOn(p, a, file), backups' = backups, file.ino # 0,
         Numbered(file)', inodes \in Nat, inodes' \in {inodes, inodes + 1},
         MarkHeld(p)',
         disk'["control"].by \in {disk["control"].by, {}}, marker' = marker,
         disk'["audit"].torn => disk["audit"].torn,
         a = "audit" => OneState'
  PROVE  ProcHeld(p)' /\ proc'[p].at \notin Working \cup {"copy", "rename"}
<1>1. /\ proc'[p].at = PlaceAfter(p, a) /\ proc'[p].role = proc[p].role
      /\ proc'[p].cfg = proc[p].cfg /\ proc'[p].mark = proc[p].mark
      /\ proc'[p].from = proc[p].from
      /\ proc'[p].ids[a] = file
      /\ \A b \in Artifacts \ {a} : proc'[p].ids[b] = proc[p].ids[b]
  BY OpenTold
<1>2. /\ proc[p].role \in Roles
      /\ a = "control" => proc'[p].at = "adapter"
      /\ a = "adapter" => proc'[p].at = "audit"
      /\ a = "audit" => /\ proc'[p].at \in {"ready", "identify", "verify"}
                        /\ proc'[p].at = "ready" => proc[p].role = "init"
                        /\ proc'[p].at = "identify" => proc[p].role = "restore"
                        /\ proc'[p].at = "verify" => proc[p].role \in {"serve", "backup"}
  BY <1>1, OpenPlaces
<1>3. proc'[p].at \in {"adapter", "audit", "ready", "identify", "verify"}
  BY <1>2 DEF Artifacts
<1>4. PlaceHeld(p)'
  <2>1. /\ proc[p].cfg \in Configurations
        /\ proc[p].role \in {"serve", "backup"} =>
             proc[p].mark \in Markers /\ proc[p].mark.cfg = proc[p].cfg
        /\ proc[p].role = "restore" => proc[p].from \in backups
                                       /\ proc[p].from.cfg = proc[p].cfg
    BY DEF ServiceInvariant, ProcHeld, PlaceHeld, Artifacts
  <2>2. a = "audit" \/ proc'[p].at \in {"adapter", "audit"}
    BY <1>2 DEF Artifacts
  <2> QED
    BY <1>1, <1>2, <1>3, <2>1, <2>2 DEF PlaceHeld, Serving, Calling, Working
<1>5. IdsNumbered(p)'
  <2>1. \A f : Numbered(f) => Numbered(f)'
    BY DEF Numbered
  <2>2. \A b \in Artifacts : Numbered(proc[p].ids[b])'
    <3> SUFFICES ASSUME NEW b \in Artifacts
                 PROVE  Numbered(proc[p].ids[b])'
      OBVIOUS
    <3>1. CASE b = a
      BY <1>1, <3>1 DEF Numbered
    <3>2. CASE b # a
      BY <1>1, <3>2 DEF ServiceInvariant, ProcHeld, IdsNumbered, Numbered
    <3> QED
      BY <3>1, <3>2
  <2>3. proc'[p].mark.ino <= inodes'
    <3>1. proc[p].mark.ino \in Int /\ proc[p].mark.ino <= inodes
      BY DEF ServiceInvariant, ProcHeld, IdsNumbered, Typed, ProcRow, Markers, NoMarker
    <3> QED
      BY <1>1, <3>1
  <2> QED
    BY <1>3, <2>2, <2>3 DEF IdsNumbered
<1>6. OpenedHeld(p)'
  <2>1. /\ a = "adapter" => proc[p].ids["control"].ino # 0
        /\ a = "audit" => proc[p].ids["control"].ino # 0 /\ proc[p].ids["adapter"].ino # 0
    BY DEF ServiceInvariant, ProcHeld, OpenedHeld
  <2>2. proc'[p].at = "adapter" => proc'[p].ids["control"].ino # 0
    BY <1>1, <1>2, <2>1 DEF Artifacts
  <2>3. proc'[p].at = "audit" => proc'[p].ids["control"].ino # 0
                                 /\ proc'[p].ids["adapter"].ino # 0
    BY <1>1, <1>2, <2>1 DEF Artifacts
  <2>4. a = "audit" => \A b \in Artifacts : proc'[p].ids[b].ino # 0
    BY <1>1, <2>1 DEF Artifacts
  <2>5. proc'[p].at \in {"ready", "identify", "verify"} => a = "audit"
    BY <1>2 DEF Artifacts
  <2> QED
    BY <1>3, <2>2, <2>3, <2>4, <2>5 DEF OpenedHeld, Closing, Serving, Calling, Working,
       Copying
<1>7. RestoreOrder(p)' /\ BoundHeld(p)' /\ WorkHeld(p)' /\ CutHeld(p)'
  BY <1>3 DEF RestoreOrder, BoundHeld, WorkHeld, CutHeld, Verified, Serving, Calling,
     Working, Copying
<1>8. BuildingHeld(p)'
  <2>1. proc[p].at # "write"
    BY DEF Artifacts
  <2>2. proc[p].role \in {"init", "restore"} => ~disk["audit"].torn
    BY <2>1 DEF ServiceInvariant, ProcHeld, BuildingHeld
  <2> QED
    BY <1>1, <1>3, <2>2 DEF ServiceInvariant, ProcHeld, BuildingHeld, Unmarked
<1>9. ClosingHeld(p)'
  BY <1>2, <1>3 DEF ClosingHeld, Closing, Artifacts
<1> QED
  BY <1>3, <1>4, <1>5, <1>6, <1>7, <1>8, <1>9 DEF ProcHeld, Working

\* After a file was opened p is inside, or was the last and is out.
LEMMA OpenLock ==
  ASSUME ServiceInvariant, NEW p \in Procs, NEW a \in Artifacts, NEW file \in Files,
         proc[p].at = a, GoesOn(p, a, file)
  PROVE  LockMoves(p) /\ lock' \in Procs \cup {None}
<1>1. lock = p
  BY DEF ServiceInvariant, LockHeld, InSection, Inside
<1>2. /\ a = "control" => proc'[p].at = "adapter"
      /\ a = "adapter" => proc'[p].at = "audit"
      /\ a = "audit" => proc'[p].at \in {"ready", "identify", "verify"}
  BY OpenTold, OpenPlaces
<1>3. lock' = IF a = "audit" THEN None ELSE p
  BY DEF GoesOn
<1>4. CASE a = "audit"
  BY <1>1, <1>2, <1>3, <1>4, ServiceAssumption DEF LockMoves, InSection, Copying, Inside,
     Artifacts
<1>5. CASE a # "audit"
  <2>1. proc'[p].at \in Inside
    BY <1>2, <1>5 DEF Inside, Artifacts
  <2> QED
    BY <1>1, <1>3, <1>5, <2>1 DEF LockMoves, InSection
<1> QED
  BY <1>4, <1>5

\* A file that is there is opened.
LEMMA FindsStep ==
  ASSUME ServiceInvariant, NEW p \in Procs, NEW a \in Artifacts, proc[p].at = a,
         Finds(p, a), UNCHANGED <<marker, backups, answered>>, UNCHANGED secrets
  PROVE  ServiceInvariant'
<1>1. /\ Steady /\ GoesOn(p, a, disk[a]) /\ Exists(a) /\ inodes \in Nat
      /\ disk[a] \in Files
  BY DEF Finds, Steady, ServiceInvariant, Typed
<1>2. /\ proc' \in [Procs -> ProcRow] /\ Others(p)
      /\ proc'[p].role = proc[p].role /\ proc'[p].mark = proc[p].mark
      /\ proc'[p].ids[a] = disk[a]
      /\ \A b \in Artifacts \ {a} : proc'[p].ids[b] = proc[p].ids[b]
  BY <1>1, OpenTold
<1>3. LockMoves(p) /\ lock' \in Procs \cup {None}
  BY <1>1, OpenLock
<1>4. Numbered(disk[a])'
  BY <1>1 DEF ServiceInvariant, FilesNumbered, Numbered, Steady
<1>5. MarkHeld(p)'
  BY <1>1, <1>2 DEF ServiceInvariant, ProcHeld, MarkHeld, Steady
<1>6. a = "audit" => OneState'
  BY <1>1 DEF Finds, Continuous, OneState, Claims, Steady
<1>7. ProcHeld(p)' /\ proc'[p].at \notin Working \cup {"copy", "rename"}
  <2>1. disk[a].ino # 0
    BY <1>1 DEF Exists
  <2> HIDE DEF ProcHeld
  <2> QED
    BY <1>1, <1>4, <1>5, <1>6, <2>1, OpenHeld DEF Steady
<1>8. Typed'
  BY <1>1, <1>2, <1>3 DEF ServiceInvariant, Typed, Steady, secrets
<1>9. AloneHeld'
  BY <1>2, AloneKept
<1>10. TornAside(p)
  BY <1>2, <1>7 DEF ServiceInvariant, TornUnknown, TornAside, Finds, Stores, Artifacts
<1>11. proc'[p].at \in Closing => /\ \A q \in Procs : proc'[q].at \notin Working
                                  /\ a = "audit"
  <2>1. proc'[p].at \in Closing => a = "audit"
    BY <1>1, OpenTold, OpenPlaces DEF Closing, Artifacts
  <2>2. \A q \in Procs \ {p} : proc[q].at \notin Working
    BY DEF ServiceInvariant, LockHeld, InSection, Inside, Working
  <2> QED
    BY <1>2, <1>7, <2>1, <2>2 DEF Others
<1> QED
  BY <1>1, <1>2, <1>3, <1>7, <1>8, <1>9, <1>10, <1>11, StillStep, RecordsSteady

\* A file that is not there is created: a store that holds nothing, or the audit file
\* beside stores that hold nothing.
LEMMA CreatesStep ==
  ASSUME ServiceInvariant, NEW p \in Procs, NEW a \in Artifacts, proc[p].at = a,
         Creates(p, a), UNCHANGED <<marker, backups, answered>>, UNCHANGED secrets
  PROVE  ServiceInvariant'
<1>1. inodes \in Nat /\ inodes' = inodes + 1 /\ inodes + 1 \in Nat
  BY DEF Creates, ServiceInvariant, Typed
<1>2. PICK file : file = New(inodes + 1)
  OBVIOUS
<1>3. /\ file \in Files /\ file.ino = inodes + 1 /\ file.id = inodes + 1
      /\ file.open = {} /\ file.done = {} /\ file.by = {} /\ ~file.torn
  <2>1. file \in Files
    BY <1>1, <1>2, AbsentTyped
  <2> QED
    BY <1>2, <2>1 DEF New, Absent
<1>4. disk' = [disk EXCEPT ![a] = file] /\ GoesOn(p, a, file)
  BY <1>2 DEF Creates
<1>5. Created(a)
  BY <1>1, <1>3, <1>4 DEF Created, Creates, ServiceInvariant, Typed
<1>6. disk'[a] = file
  BY <1>4 DEF ServiceInvariant, Typed
<1>7. /\ proc' \in [Procs -> ProcRow] /\ Others(p)
      /\ proc'[p].role = proc[p].role /\ proc'[p].mark = proc[p].mark
      /\ proc'[p].ids[a] = file
      /\ \A b \in Artifacts \ {a} : proc'[p].ids[b] = proc[p].ids[b]
  BY <1>3, <1>4, OpenTold
<1>8. LockMoves(p) /\ lock' \in Procs \cup {None}
  BY <1>3, <1>4, OpenLock
<1>9. Numbered(file)'
  BY <1>1, <1>3 DEF Numbered
<1>10. MarkHeld(p)'
  <2>1. proc[p].role \in {"serve", "backup"} => proc[p].mark.ino \in Nat
                                                 /\ proc[p].mark.ino <= inodes
    BY DEF ServiceInvariant, ProcHeld, PlaceHeld, IdsNumbered, Markers
  <2>2. a = "audit" => MarkHeld(p)'
    BY <1>1, <1>3, <1>6, <1>7, <2>1 DEF MarkHeld
  <2>3. a # "audit" => disk'["audit"] = disk["audit"]
    BY <1>5 DEF Created, Artifacts
  <2> QED
    BY <1>7, <2>2, <2>3 DEF MarkHeld, ServiceInvariant, ProcHeld
<1>11. a = "audit" => OneState'
  <2> SUFFICES ASSUME a = "audit"
               PROVE  OneState'
    OBVIOUS
  <2>1. \A s \in Stores : disk'[s] = disk[s]
    BY <1>5 DEF Created, Stores, Artifacts
  <2>2. Claims' = Claims /\ Claims = {} /\ disk'["adapter"].done = {}
    BY <2>1 DEF Claims, Creates, Stores
  <2> QED
    BY <2>2 DEF OneState, Claims
<1>12. ProcHeld(p)' /\ proc'[p].at \notin Working \cup {"copy", "rename"}
  <2>1. disk'["control"].by \in {disk["control"].by, {}}
    BY <1>5 DEF Created, Artifacts
  <2>2. disk'["audit"].torn => disk["audit"].torn
    BY <1>3, <1>5, <1>6 DEF Created, Artifacts
  <2> HIDE DEF ProcHeld
  <2> QED
    BY <1>1, <1>3, <1>4, <1>9, <1>10, <1>11, <2>1, <2>2, OpenHeld
<1>13. Typed'
  BY <1>1, <1>5, <1>7, <1>8 DEF ServiceInvariant, Typed, Created, secrets
<1>14. AloneHeld'
  BY <1>7, AloneKept
<1>15. \A q \in Procs : proc'[q].at \notin Working
  <2>1. \A q \in Procs \ {p} : proc[q].at \notin Working
    BY DEF ServiceInvariant, LockHeld, InSection, Inside, Working
  <2> QED
    BY <1>7, <1>12, <2>1 DEF Others
<1>16. CreatedQuietly(p, a)
  BY <1>3, <1>6, <1>11, <1>15 DEF CreatedQuietly
<1>17. NewTornAside(p)
  <2> SUFFICES ASSUME NEW s \in Stores, disk'[s].torn
               PROVE  proc'[p].ids[s].id # disk'[s].id
    BY <1>12 DEF NewTornAside
  <2>1. s # a
    BY <1>3, <1>6
  <2>2. disk'[s] = disk[s] /\ proc'[p].ids[s] = proc[p].ids[s]
    BY <1>5, <1>7, <2>1 DEF Created, Stores, Artifacts
  <2> QED
    BY <2>2 DEF ServiceInvariant, TornUnknown
<1>18. proc'[p].at \in Closing => a = "audit"
  BY <1>3, <1>4, OpenTold, OpenPlaces DEF Closing, Artifacts
<1> QED
  BY <1>5, <1>7, <1>8, <1>12, <1>13, <1>14, <1>15, <1>16, <1>17, <1>18, CreatedStep

\* One file is opened or created under the startup lock.
LEMMA OpenStep ==
  ASSUME ServiceInvariant, NEW p \in Procs, NEW a \in Artifacts, OpenArtifact(p, a)
  PROVE  ServiceInvariant'
<1>1. /\ proc[p].at = a /\ lock = p
      /\ UNCHANGED <<marker, backups, answered>> /\ UNCHANGED secrets
  BY Zenon DEF OpenArtifact
<1>2. Refuses(p) \/ Finds(p, a) \/ Creates(p, a)
  BY OpenCases DEF ServiceInvariant
<1>3. CASE Refuses(p)
  BY <1>1, <1>3, EndSteady DEF Refuses, Steady
<1> QED
  BY <1>1, <1>2, <1>3, FindsStep, CreatesStep

-----------------------------------------------------------------------------
(* A backup.                                                               *)

\* Only the adapter store knows nothing of open requests; behind the fence nothing
\* is open anywhere.
LEMMA FencedCut ==
  ASSUME ServiceInvariant, NEW p \in Procs, proc[p].at = "stage", AllBound(p), Fence,
         marker = proc[p].mark, proc[p].mark = MarkerOf(p)
  PROVE  Cut(disk, proc[p].cfg, {r \in Requests : <<disk["audit"].ino, r>> \in answered})
<1>1. \A a \in Artifacts : proc[p].ids[a].ino # 0
  BY DEF ServiceInvariant, ProcHeld, OpenedHeld
<1>2. marker \in Markers /\ marker.cfg = proc[p].cfg
  <2>1. proc[p].at \in Verified
    BY DEF Verified
  <2> QED
    BY <2>1, BoundMarked DEF AllBound, Artifacts
<1>3. /\ marker.ino = disk["audit"].ino /\ marker.control = proc[p].ids["control"].id
      /\ marker.adapter = proc[p].ids["adapter"].id
  BY DEF MarkerOf
<1>4. /\ \A a \in Artifacts : disk[a].ino = proc[p].ids[a].ino
      /\ \A s \in Stores : disk[s].id = proc[p].ids[s].id
  BY DEF AllBound, Bound, Stores, Artifacts
<1>5. SetBound
  <2>1. marker \notin {NoMarker, TornMarker}
    BY <1>2 DEF Markers, NoMarker, TornMarker
  <2>2. \A a \in Artifacts : Exists(a)
    BY <1>1, <1>4 DEF Exists
  <2> QED
    BY <1>3, <1>4, <2>1, <2>2 DEF SetBound, Stores
<1>6. \A a \in Artifacts : ~disk[a].torn
  <2>1. ~disk["audit"].torn
    BY <1>2, <1>3 DEF ServiceInvariant, MarkedHeld
  <2>2. \A s \in Stores : ~disk[s].torn
    BY <1>4 DEF ServiceInvariant, TornUnknown
  <2> QED
    BY <2>1, <2>2 DEF Stores, Artifacts
<1>7. disk["control"].open = {} /\ Claims = disk["control"].done
  BY DEF Fence, Claims
<1>8. disk["audit"].open = {} /\ disk["control"].done = disk["audit"].done
  BY <1>7 DEF Fence, Continuous
<1>9. disk["adapter"].open = {} /\ disk["adapter"].done \subseteq disk["control"].done
  BY <1>7 DEF Fence, Continuous, ServiceInvariant, AdapterHeld
<1>10. disk["control"].by \subseteq {proc[p].cfg}
  BY <1>2, <1>5 DEF ServiceInvariant, MarkedHeld
<1>11. \A r \in Requests : <<disk["audit"].ino, r>> \in answered =>
          r \in disk["control"].done
  BY <1>5 DEF ServiceInvariant, AnswersHeld
<1> QED
  BY <1>6, <1>7, <1>8, <1>9, <1>10, <1>11 DEF Cut, Artifacts

\* A backup begins to copy, with the locks held.
LEMMA BackupBeginsStep ==
  ASSUME ServiceInvariant, NEW p \in Procs, BackupBegins(p)
  PROVE  ServiceInvariant'
<1>1. /\ proc[p].at = "stage" /\ lock = None
      /\ Steady /\ UNCHANGED <<backups, answered>> /\ UNCHANGED secrets
  BY Zenon DEF BackupBegins, Steady
<1>2. CASE ~(AllBound(p) /\ Fence /\ marker = proc[p].mark /\ proc[p].mark = MarkerOf(p))
  <2>1. lock' = lock /\ End(p)
    BY <1>2, Zenon DEF BackupBegins
  <2> QED
    BY <1>1, <2>1, EndSteady, ServiceAssumption
<1>3. CASE AllBound(p) /\ Fence /\ marker = proc[p].mark /\ proc[p].mark = MarkerOf(p)
  <2> DEFINE owes == {r \in Requests : <<disk["audit"].ino, r>> \in answered}
  <2>1. PICK c : c = [cfg |-> proc[p].cfg, files |-> [a \in Artifacts |-> Absent],
                      owed |-> owes]
    OBVIOUS
  <2>2. lock' = p /\ proc' = [proc EXCEPT ![p].at = "copy", ![p].copy = c]
    BY <1>3, <2>1, Zenon DEF BackupBegins
  <2>3. PICK x \in ProcRow : x = proc[p]
    BY DEF ServiceInvariant, Typed
  <2>4. x.role = "backup" /\ x.cfg \in Configurations
    BY <1>1, <2>3 DEF ServiceInvariant, ProcHeld, PlaceHeld
  <2>5. c \in Copies /\ c.cfg = x.cfg /\ c.files = [a \in Artifacts |-> Absent]
        /\ c.owed = owes
    BY <2>1, <2>3, <2>4, AbsentTyped DEF Copies
  <2>6. PICK y : y = [x EXCEPT !.at = "copy", !.copy = c]
    OBVIOUS
  <2>7. /\ y \in ProcRow /\ y.at = "copy" /\ y.role = x.role /\ y.cfg = x.cfg
        /\ y.ids = x.ids /\ y.mark = x.mark /\ y.from = x.from /\ y.req = x.req
        /\ y.copy = c
    BY <2>3, <2>5, <2>6 DEF ProcRow, Places
  <2>8. proc' = [proc EXCEPT ![p] = y]
    BY <2>2, <2>3, <2>6, Zenon
  <2>9. proc' \in [Procs -> ProcRow] /\ proc'[p] = y /\ Others(p)
    BY <2>7, <2>8, RowTold DEF ServiceInvariant, Typed
  <2> HIDE DEF owes
  <2>10. LockMoves(p) /\ lock' \in Procs \cup {None}
    BY <1>1, <2>2, <2>4, <2>7, <2>9 DEF LockMoves, InSection, Copying
  <2>11. PlaceHeld(p)'
    BY <1>1, <2>3, <2>4, <2>5, <2>7, <2>9 DEF ServiceInvariant, ProcHeld, PlaceHeld,
       Serving, Calling, Working, Steady
  <2>12. IdsNumbered(p)'
    <3>1. Numbered(Absent)
      BY DEF Numbered, Absent, ServiceInvariant, Typed
    <3>2. IdsNumbered(p)
      BY EachHeld
    <3>3. x.mark.ino <= inodes /\ \A a \in Artifacts : Numbered(x.ids[a])
      BY <2>3, <3>2 DEF IdsNumbered
    <3>4. inodes' = inodes
      BY <1>1 DEF Steady
    <3>5. \A a \in Artifacts : c.files[a] = Absent
      BY <2>5
    <3>6. proc'[p].ids = x.ids /\ proc'[p].mark = x.mark /\ proc'[p].copy = c
      BY <2>7, <2>9
    <3>7. \A a \in Artifacts : Numbered(proc[p].ids[a])'
      BY <3>3, <3>4, <3>6 DEF Numbered
    <3>8. \A a \in Artifacts : Numbered(proc[p].copy.files[a])'
      BY <3>1, <3>4, <3>5, <3>6 DEF Numbered
    <3> QED
      BY <3>3, <3>4, <3>6, <3>7, <3>8 DEF IdsNumbered
  <2>13. OpenedHeld(p)'
    <3>1. proc[p].at = "stage" /\ OpenedHeld(p)
      BY <1>1, EachHeld
    <3>2. \A a \in Artifacts : x.ids[a].ino # 0
      BY <2>3, <3>1 DEF OpenedHeld
    <3>3. proc'[p].at = "copy" /\ proc'[p].role = "backup" /\ proc'[p].ids = x.ids
          /\ \A a \in Artifacts : proc'[p].copy.files[a].ino = 0
      BY <2>4, <2>5, <2>7, <2>9 DEF Absent
    <3> QED
      BY <3>2, <3>3 DEF OpenedHeld, Closing, Serving, Calling, Working, Artifacts
  <2>14. RestoreOrder(p)' /\ MarkHeld(p)' /\ BoundHeld(p)' /\ ClosingHeld(p)' /\ WorkHeld(p)'
         /\ BuildingHeld(p)'
    BY <1>1, <2>3, <2>4, <2>7, <2>9 DEF ServiceInvariant, ProcHeld, RestoreOrder, MarkHeld,
       BoundHeld, ClosingHeld, WorkHeld, BuildingHeld, Steady, Closing, Verified, Serving,
       Calling, Working
  <2>15. CutHeld(p)'
    <3>1. \A a \in Artifacts : Seen(p, a)' = disk[a]
      BY <1>1, <2>5, <2>7, <2>9 DEF Seen, Copied, Absent, Steady
    <3>2. Cut(disk, proc[p].cfg, owes)
      BY <1>1, <1>3, FencedCut DEF owes
    <3>3. proc'[p].copy.owed = owes /\ proc'[p].copy.cfg = proc[p].cfg
          /\ proc'[p].at = "copy"
      BY <2>3, <2>5, <2>7, <2>9
    <3> QED
      BY <3>1, <3>2, <3>3 DEF CutHeld, Cut, Artifacts
  <2>16. ProcHeld(p)'
    BY <2>11, <2>12, <2>13, <2>14, <2>15 DEF ProcHeld
  <2>17. Typed'
    BY <1>1, <2>9, <2>10 DEF ServiceInvariant, Typed, Steady, secrets
  <2>18. AloneHeld'
    BY <2>3, <2>7, <2>9, AloneKept
  <2>19. TornAside(p)
    <3>1. \A s \in Stores : disk[s].torn => disk[s].id # 0
      BY DEF ServiceInvariant, FilesNumbered, Numbered, Absent, Stores, Artifacts
    <3>2. \A s \in Stores : proc'[p].copy.files[s].id = 0
      BY <2>5, <2>7, <2>9 DEF Stores, Artifacts, Absent
    <3> QED
      BY <2>3, <2>7, <2>9, <3>1, <3>2 DEF TornAside, ServiceInvariant, TornUnknown
  <2>20. proc'[p].at \notin Closing \cup Working
    BY <2>7, <2>9 DEF Closing, Working
  <2> QED
    BY <1>1, <2>9, <2>10, <2>16, <2>17, <2>18, <2>19, <2>20, SteadyStep
<1> QED
  BY <1>2, <1>3

\* The files are copied in their order.
LEMMA NextOfOrder ==
  ASSUME NEW copied \in SUBSET Artifacts, "adapter" \notin copied,
         "control" \in copied => "audit" \in copied
  PROVE  NextOf(copied) = IF "audit" \notin copied THEN "audit"
                          ELSE IF "control" \notin copied THEN "control" ELSE "adapter"
<1> DEFINE first(i) == /\ CopyOrder[i] \notin copied
                       /\ \A j \in 1..(i - 1) : CopyOrder[j] \in copied
<1>1. CopyOrder[1] = "audit" /\ CopyOrder[2] = "control" /\ CopyOrder[3] = "adapter"
  BY DEF CopyOrder
<1>2. NextOf(copied) = CopyOrder[CHOOSE i \in 1..3 : first(i)]
  BY DEF NextOf
<1>3. first(1) <=> "audit" \notin copied
  BY <1>1
<1>4. first(2) <=> "control" \notin copied /\ "audit" \in copied
  <2>1. 1..(2 - 1) = {1}
    OBVIOUS
  <2> QED
    BY <1>1, <2>1
<1>5. first(3) <=> "control" \in copied /\ "audit" \in copied
  <2>1. 1..(3 - 1) = {1, 2}
    OBVIOUS
  <2> QED
    BY <1>1, <2>1
<1> HIDE DEF first
<1>6. \A i \in 1..3 : i = 1 \/ i = 2 \/ i = 3
  OBVIOUS
<1>7. CASE "audit" \notin copied
  <2>1. (CHOOSE i \in 1..3 : first(i)) = 1
    BY <1>3, <1>4, <1>5, <1>6, <1>7
  <2> QED
    BY <1>1, <1>2, <1>7, <2>1
<1>8. CASE "audit" \in copied /\ "control" \notin copied
  <2>1. (CHOOSE i \in 1..3 : first(i)) = 2
    BY <1>3, <1>4, <1>5, <1>6, <1>8
  <2> QED
    BY <1>1, <1>2, <1>8, <2>1
<1>9. CASE "audit" \in copied /\ "control" \in copied
  <2>1. (CHOOSE i \in 1..3 : first(i)) = 3
    BY <1>3, <1>4, <1>5, <1>6, <1>9
  <2> QED
    BY <1>1, <1>2, <1>9, <2>1
<1> QED
  BY <1>7, <1>8, <1>9

\* The file to be copied next is not copied, and those before it are.
LEMMA NextToCopy ==
  ASSUME ServiceInvariant, NEW p \in Procs, Copying(p)
  PROVE  LET a == NextOf(Copied(p)) IN
         /\ a \in Artifacts /\ a \notin Copied(p)
         /\ a = "adapter" => Copied(p) = {"audit", "control"}
         /\ a = "control" => "audit" \in Copied(p)
<1>1. /\ Copied(p) \in SUBSET Artifacts /\ "adapter" \notin Copied(p)
      /\ "control" \in Copied(p) => "audit" \in Copied(p)
  BY DEF ServiceInvariant, ProcHeld, OpenedHeld, Copying, Copied, Artifacts
<1> QED
  BY <1>1, NextOfOrder DEF Artifacts

\* What a copying backup sees of a file it still has is what the invariant says of it,
\* before the file is copied as well as after.
LEMMA BackupCopiesStep ==
  ASSUME ServiceInvariant, NEW p \in Procs, BackupCopies(p)
  PROVE  ServiceInvariant'
<1>1. /\ proc[p].at = "copy" /\ proc[p].role = "backup" /\ Copying(p)
      /\ Steady /\ UNCHANGED <<backups, answered>> /\ UNCHANGED secrets
  BY Zenon DEF BackupCopies, Steady, Copying
<1>2. lock = p
  BY <1>1 DEF ServiceInvariant, LockHeld, InSection
<1>3. PICK a \in Artifacts : a = NextOf(Copied(p))
  BY <1>1, NextToCopy
<1>4. /\ a \notin Copied(p)
      /\ a = "adapter" => Copied(p) = {"audit", "control"}
      /\ a = "control" => "audit" \in Copied(p)
  BY <1>1, <1>3, NextToCopy
<1>5. CASE disk[a].ino # proc[p].ids[a].ino
  <2>1. lock' = None /\ End(p)
    BY <1>3, <1>5, Zenon DEF BackupCopies
  <2> QED
    BY <1>1, <1>2, <2>1, EndSteady
<1>6. CASE disk[a].ino = proc[p].ids[a].ino
  <2>1. PICK s : s = IF a = "adapter" THEN "rename" ELSE "copy"
    OBVIOUS
  <2>2. /\ proc' = [proc EXCEPT ![p].copy.files[a] = disk[a], ![p].at = s]
        /\ lock' = IF a = "adapter" THEN None ELSE lock
    BY <1>3, <1>6, <2>1, Zenon DEF BackupCopies
  <2>3. PICK x \in ProcRow : x = proc[p]
    BY DEF ServiceInvariant, Typed
  <2>4. x.copy \in Copies /\ disk[a] \in Files
    BY <1>1, <2>3 DEF ServiceInvariant, ProcHeld, PlaceHeld, Typed
  <2>5. PICK f : f = [x.copy.files EXCEPT ![a] = disk[a]]
    OBVIOUS
  <2>6. f \in [Artifacts -> Files] /\ f[a] = disk[a]
        /\ \A b \in Artifacts \ {a} : f[b] = x.copy.files[b]
    BY <2>4, <2>5 DEF Copies
  <2>7. PICK c : c = [x.copy EXCEPT !.files = f]
    OBVIOUS
  <2>8. c \in Copies /\ c.cfg = x.copy.cfg /\ c.files = f /\ c.owed = x.copy.owed
    BY <2>4, <2>6, <2>7 DEF Copies
  <2>9. PICK z : z = [x EXCEPT !.copy = c]
    OBVIOUS
  <2>10. /\ z \in ProcRow /\ z.role = x.role /\ z.cfg = x.cfg /\ z.ids = x.ids
         /\ z.mark = x.mark /\ z.from = x.from /\ z.req = x.req /\ z.copy = c
    BY <2>3, <2>8, <2>9 DEF ProcRow
  <2>11. PICK y : y = [z EXCEPT !.at = s]
    OBVIOUS
  <2>12. /\ y \in ProcRow /\ y.at = s /\ y.role = x.role /\ y.cfg = x.cfg
         /\ y.ids = x.ids /\ y.mark = x.mark /\ y.from = x.from /\ y.req = x.req
         /\ y.copy = c
    BY <2>1, <2>10, <2>11 DEF ProcRow, Places
  <2>13. proc' = [proc EXCEPT ![p] = y]
    BY <2>2, <2>3, <2>5, <2>7, <2>9, <2>11, Zenon
  <2>14. proc' \in [Procs -> ProcRow] /\ proc'[p] = y /\ Others(p)
    BY <2>12, <2>13, RowTold DEF ServiceInvariant, Typed
  <2>15. /\ proc'[p].at = s /\ proc'[p].role = "backup" /\ proc'[p].cfg = proc[p].cfg
         /\ proc'[p].ids = proc[p].ids /\ proc'[p].mark = proc[p].mark
         /\ proc'[p].copy = c /\ s \in {"copy", "rename"}
         /\ s = "rename" <=> a = "adapter"
    BY <1>1, <2>1, <2>3, <2>12, <2>14
  <2>16. LockMoves(p) /\ lock' \in Procs \cup {None}
    BY <1>2, <2>2, <2>15, ServiceAssumption DEF LockMoves, InSection, Copying, Inside,
       Artifacts
  <2>17. PlaceHeld(p)'
    BY <1>1, <2>8, <2>15 DEF ServiceInvariant, ProcHeld, PlaceHeld, Serving, Calling,
       Working, Steady
  <2>18. proc[p].ids[a].ino # 0 /\ disk[a].ino # 0 /\ Numbered(disk[a])
    BY <1>1, <1>6 DEF ServiceInvariant, ProcHeld, OpenedHeld, FilesNumbered
  <2>19. IdsNumbered(p)'
    <3>1. \A b \in Artifacts : Numbered(proc[p].copy.files[b])
      BY <1>1 DEF ServiceInvariant, ProcHeld, IdsNumbered
    <3>2. \A b \in Artifacts : Numbered(f[b])
      BY <2>3, <2>6, <2>18, <3>1 DEF Numbered
    <3> QED
      BY <1>1, <2>8, <2>15, <3>2 DEF ServiceInvariant, ProcHeld, IdsNumbered, Numbered,
         Steady
  <2>20. Copied(p)' = Copied(p) \cup {a}
    BY <2>3, <2>6, <2>8, <2>15, <2>18 DEF Copied
  <2>21. OpenedHeld(p)'
    <3>1. \A b \in Artifacts : proc'[p].ids[b].ino # 0
      BY <1>1, <2>15 DEF ServiceInvariant, ProcHeld, OpenedHeld
    <3>2. \A b \in Artifacts : b \in Copied(p)' <=> proc'[p].copy.files[b].ino # 0
      BY DEF Copied
    <3>3. "adapter" \notin Copied(p) /\ ("control" \in Copied(p) => "audit" \in Copied(p))
      BY <1>1 DEF ServiceInvariant, ProcHeld, OpenedHeld, Copied, Artifacts
    <3>4. s = "rename" => Copied(p)' = Artifacts
      BY <1>4, <2>15, <2>20 DEF Artifacts
    <3>5. s = "copy" => /\ "adapter" \notin Copied(p)'
                        /\ "control" \in Copied(p)' => "audit" \in Copied(p)'
      BY <1>4, <2>15, <2>20, <3>3 DEF Artifacts
    <3> QED
      BY <2>15, <3>1, <3>2, <3>4, <3>5 DEF OpenedHeld, Closing, Serving, Calling, Working,
         Copying, Artifacts
  <2>22. RestoreOrder(p)' /\ MarkHeld(p)' /\ BoundHeld(p)' /\ ClosingHeld(p)' /\ WorkHeld(p)'
         /\ BuildingHeld(p)'
    BY <1>1, <2>15 DEF ServiceInvariant, ProcHeld, RestoreOrder, MarkHeld,
       BoundHeld, ClosingHeld, WorkHeld, BuildingHeld, Steady, Closing, Verified, Serving,
       Calling, Working
  <2>23. Good(p, a) /\ \A b \in Artifacts : /\ Good(p, b)' => Good(p, b)
                                             /\ Seen(p, b)' = Seen(p, b)
    BY <1>1, <1>4, <1>6, <2>3, <2>6, <2>8, <2>15, <2>20 DEF Good, Seen, Steady
  <2>24. CutHeld(p)'
    <3>1. /\ proc'[p].copy.owed = proc[p].copy.owed /\ proc'[p].copy.cfg = proc[p].copy.cfg
          /\ proc'[p].at = s
      BY <2>3, <2>8, <2>15
    <3>2. CASE s = "copy"
      BY <1>1, <2>23, <3>1, <3>2 DEF ServiceInvariant, ProcHeld, CutHeld, Artifacts
    <3>3. CASE s = "rename"
      <4>1. Copied(p)' = Artifacts
        BY <1>4, <2>15, <2>20, <3>3 DEF Artifacts
      <4>2. \A b \in Artifacts : Good(p, b) /\ Seen(p, b) = c.files[b]
        BY <2>15, <2>20, <2>23, <4>1 DEF Good, Seen
      <4>3. Cut(c.files, c.cfg, c.owed)
        BY <1>1, <2>3, <2>8, <4>2 DEF ServiceInvariant, ProcHeld, CutHeld, Cut, Artifacts
      <4> QED
        BY <2>15, <3>3, <4>3 DEF CutHeld, Cut
    <3> QED
      BY <2>15, <3>2, <3>3
  <2>25. ProcHeld(p)'
    BY <2>17, <2>19, <2>21, <2>22, <2>24 DEF ProcHeld
  <2>26. Typed'
    BY <1>1, <2>14, <2>16 DEF ServiceInvariant, Typed, Steady, secrets
  <2>27. AloneHeld'
    BY <1>1, <2>14, <2>15, AloneKept
  <2>28. TornAside(p)
    <3> SUFFICES ASSUME NEW t \in Stores, disk[t].torn
                 PROVE  f[t].id # disk[t].id /\ proc[p].ids[t].id # disk[t].id
      BY <2>8, <2>15 DEF TornAside
    <3>1. t # a
      BY <1>1, <1>4, <2>23 DEF ServiceInvariant, ProcHeld, CutHeld, Seen
    <3>2. f[t] = proc[p].copy.files[t]
      BY <2>3, <2>6, <3>1 DEF Stores, Artifacts
    <3> QED
      BY <1>1, <3>2 DEF ServiceInvariant, TornUnknown
  <2>29. proc'[p].at \notin Closing \cup Working
    BY <2>15 DEF Closing, Working
  <2> QED
    BY <1>1, <2>14, <2>16, <2>25, <2>26, <2>27, <2>28, <2>29, SteadyStep
<1> QED
  BY <1>5, <1>6

\* The backup becomes one that can be restored.
LEMMA BackupCommitsStep ==
  ASSUME ServiceInvariant, NEW p \in Procs, BackupCommits(p)
  PROVE  ServiceInvariant'
<1>1. /\ proc[p].at = "rename" /\ End(p) /\ lock' = lock
      /\ Steady /\ UNCHANGED answered /\ UNCHANGED secrets
  BY DEF BackupCommits, Steady
<1>2. PICK c : c = proc[p].copy
  OBVIOUS
<1>3. backups' = backups \/ backups' = backups \cup {c}
  BY <1>2 DEF BackupCommits
<1>4. /\ proc[p].role = "backup" /\ c \in Copies /\ Cut(c.files, c.cfg, c.owed)
      /\ \A a \in Artifacts : Numbered(c.files[a]) /\ c.files[a].ino # 0
      /\ \A s \in Stores : disk[s].torn => c.files[s].id # disk[s].id
  <2>1. proc[p].role = "backup" /\ c \in Copies
    BY <1>1, <1>2 DEF ServiceInvariant, ProcHeld, PlaceHeld
  <2>2. Cut(c.files, c.cfg, c.owed)
    BY <1>1, <1>2 DEF ServiceInvariant, ProcHeld, CutHeld
  <2>3. \A a \in Artifacts : Numbered(c.files[a]) /\ c.files[a].ino # 0
    BY <1>1, <1>2, <2>1 DEF ServiceInvariant, ProcHeld, IdsNumbered, OpenedHeld
  <2>4. \A s \in Stores : disk[s].torn => c.files[s].id # disk[s].id
    BY <1>1, <1>2, <2>1 DEF ServiceInvariant, TornUnknown
  <2> QED
    BY <2>1, <2>2, <2>3, <2>4
<1>5. proc' \in [Procs -> ProcRow] /\ Others(p) /\ proc'[p] = Off
  BY <1>1, EndTold DEF ServiceInvariant
<1>6. Typed'
  BY <1>1, <1>3, <1>4, <1>5 DEF ServiceInvariant, Typed, Steady, secrets
<1>7. ProcHeld(p)' /\ ~InSection(p)'
  BY <1>5, <1>6, OffHeld DEF Typed
<1>8. LockMoves(p)
  <2>1. lock # p
    BY <1>1, OutsideUnlocked DEF InSection, Copying, Inside, Artifacts
  <2> QED
    BY <1>1, <1>7, <2>1 DEF LockMoves
<1>9. /\ proc'[p].role = None /\ proc'[p].at = "off"
      /\ \A s \in Stores : proc'[p].ids[s].id = 0
  BY <1>5 DEF Off, Absent, Stores, Artifacts
<1>10. AloneHeld'
  BY <1>5, <1>9, AloneKept
<1>11. TornAside(p)
  <2>1. \A s \in Stores : disk[s].torn => disk[s].id # 0
    BY DEF ServiceInvariant, FilesNumbered, Numbered, Absent, Stores, Artifacts
  <2> QED
    BY <1>9, <2>1 DEF TornAside
<1>12. FilesNumbered'
  BY <1>1, <1>3, <1>4 DEF ServiceInvariant, FilesNumbered, Numbered, Steady
<1>13. AnswersHeld'
  BY <1>1 DEF ServiceInvariant, AnswersHeld, Steady, SetBound, Exists
<1>14. BackupsHeld'
  BY <1>3, <1>4 DEF ServiceInvariant, BackupsHeld, Cut
<1>15. proc'[p].at \notin Closing \cup Working
  BY <1>9 DEF Closing, Working
<1> QED
  BY <1>1, <1>3, <1>4, <1>5, <1>6, <1>7, <1>8, <1>10, <1>11, <1>12, <1>13, <1>14, <1>15,
     StillStep

-----------------------------------------------------------------------------
(* Steps that write to a file.                                             *)

\* The contents of a file change, and no name does.
Written(a) ==
  /\ disk' \in [Artifacts -> Files] /\ inodes' = inodes /\ marker' = marker
  /\ disk'[a].ino = disk[a].ino /\ disk'[a].id = disk[a].id /\ disk'[a].torn = disk[a].torn
  /\ \A b \in Artifacts \ {a} : disk'[b] = disk[b]

\* All names are as they were.
LEMMA WrittenNames ==
  ASSUME NEW a \in Artifacts, Written(a)
  PROVE  /\ \A b \in Artifacts : /\ disk'[b].ino = disk[b].ino /\ disk'[b].id = disk[b].id
                                 /\ disk'[b].torn = disk[b].torn
         /\ SetBound' <=> SetBound
<1>1. \A b \in Artifacts : /\ disk'[b].ino = disk[b].ino /\ disk'[b].id = disk[b].id
                           /\ disk'[b].torn = disk[b].torn
  BY DEF Written
<1>2. SetBound' <=> SetBound
  BY <1>1 DEF SetBound, Exists, Written, Artifacts
<1> QED
  BY <1>1, <1>2

\* The owner of the locks writes to the marked set: nobody else is in a section, and
\* nobody builds a state.
LEMMA OthersWritten ==
  ASSUME ServiceInvariant, NEW p \in Procs, proc[p].at \in Working, NEW a \in Artifacts,
         Written(a), marker \in Markers, backups' = backups, NEW q \in Procs \ {p},
         proc'[q] = proc[q]
  PROVE  ProcHeld(q)'
<1>1. PlaceHeld(q)' /\ OpenedHeld(q)' /\ RestoreOrder(q)'
  BY EachHeld, RowStays
<1>2. IdsNumbered(q)'
  BY EachHeld, NamesStay DEF Written
<1>3. MarkHeld(q)' /\ BoundHeld(q)'
  <2>1. marker' = marker
    BY DEF Written
  <2> QED
    BY <2>1, WrittenNames DEF ServiceInvariant, ProcHeld, MarkHeld, BoundHeld, Artifacts
<1>4. marker' \in Markers /\ marker' # NoMarker
  BY DEF Written, Markers, NoMarker
<1>5. BuildingHeld(q)'
  <2>1. proc[q].role # "restore"
    BY <1>4 DEF ServiceInvariant, ProcHeld, BuildingHeld, Written
  <2>2. proc[q].at # "write"
    BY <2>1 DEF ServiceInvariant, ProcHeld, PlaceHeld
  <2>3. proc[q].role = "init" => ~disk["audit"].torn
    BY DEF ServiceInvariant, ProcHeld, BuildingHeld
  <2>4. disk'["audit"].torn = disk["audit"].torn
    BY WrittenNames DEF Artifacts
  <2> QED
    BY <1>4, <2>1, <2>2, <2>3, <2>4 DEF BuildingHeld, Unmarked
<1>6. ClosingHeld(q)'
  BY <1>4 DEF ClosingHeld, Unmarked
<1>7. proc[q].at \notin Working /\ ~Copying(q)
  BY DEF ServiceInvariant, LockHeld, InSection, Inside, Working
<1>8. WorkHeld(q)'
  BY <1>7 DEF WorkHeld
<1>9. CutHeld(q)'
  BY <1>7 DEF ServiceInvariant, ProcHeld, CutHeld, Copying, Cut
<1> QED
  BY <1>1, <1>2, <1>3, <1>5, <1>6, <1>8, <1>9 DEF ProcHeld

\* A write that leaves the set one state.
LEMMA WrittenStep ==
  ASSUME ServiceInvariant, NEW p \in Procs, proc[p].at \in Working, NEW a \in Artifacts,
         Written(a), Exists(a), marker \in Markers, Others(p), Keeps(p),
         UNCHANGED <<backups, answered>>, UNCHANGED secrets,
         proc' \in [Procs -> ProcRow], proc'[p].req = proc[p].req,
         proc'[p].at \in {"claim", "act", "final", "close", "check"},
         lock' \in Procs \cup {None}, LockMoves(p),
         SetBound => OneState' /\ disk'["control"].by \subseteq {marker.cfg},
         WorkHeld(p)', disk'["adapter"].open = {},
         disk["audit"].done \subseteq disk'["audit"].done,
         disk["control"].done \subseteq disk'["control"].done
  PROVE  ServiceInvariant'
<1>1. /\ inodes' = inodes /\ marker' = marker
      /\ \A b \in Artifacts : /\ disk'[b].ino = disk[b].ino /\ disk'[b].id = disk[b].id
                              /\ disk'[b].torn = disk[b].torn
      /\ SetBound' <=> SetBound
  BY WrittenNames DEF Written
<1>2. Typed'
  BY <1>1 DEF ServiceInvariant, Typed, Written, secrets
<1>3. proc[p].role = "serve" /\ proc[p].req \in Requests
  BY DEF ServiceInvariant, ProcHeld, PlaceHeld, Serving, Calling
<1>4. marker = proc[p].mark \/ \A b \in Artifacts : disk[b].ino # proc[p].ids[b].ino
  BY DEF ServiceInvariant, ProcHeld, BoundHeld, Verified, Serving, Calling
<1>5. ProcHeld(p)'
  <2>1. PlaceHeld(p)'
    BY <1>3 DEF ServiceInvariant, ProcHeld, PlaceHeld, Keeps, Serving, Calling, Working
  <2>2. IdsNumbered(p)'
    <3>1. IdsNumbered(p)
      BY EachHeld
    <3>2. proc'[p].ids = proc[p].ids /\ proc'[p].mark = proc[p].mark /\ proc'[p].role = "serve"
      BY <1>3 DEF Keeps
    <3> QED
      BY <1>1, <3>1, <3>2 DEF IdsNumbered, Numbered
  <2>3. OpenedHeld(p)'
    BY DEF ServiceInvariant, ProcHeld, OpenedHeld, Keeps, Closing, Serving, Calling,
       Working, Copying
  <2>4. RestoreOrder(p)' /\ BuildingHeld(p)'
    BY <1>3 DEF RestoreOrder, BuildingHeld, Keeps
  <2>5. MarkHeld(p)' /\ BoundHeld(p)'
    BY <1>1, <1>4 DEF ServiceInvariant, ProcHeld, MarkHeld, BoundHeld, Keeps, Artifacts
  <2>6. ClosingHeld(p)' /\ CutHeld(p)'
    BY DEF ClosingHeld, CutHeld, Closing, Copying
  <2> QED
    BY <2>1, <2>2, <2>3, <2>4, <2>5, <2>6 DEF ProcHeld
<1>6. \A q \in Procs : ProcHeld(q)'
  BY <1>5, OthersWritten DEF Others
<1>7. LockHeld' /\ AloneHeld'
  BY LockKept, AloneKept DEF Keeps
<1>8. FilesNumbered'
  <2>1. \A b \in Artifacts : disk'[b].ino # 0 \/ disk'[b] = disk[b]
    BY <1>1 DEF Written, Exists
  <2> QED
    BY <1>1, <2>1 DEF ServiceInvariant, FilesNumbered, Numbered
<1>9. MarkedHeld'
  BY <1>1 DEF ServiceInvariant, MarkedHeld, Artifacts
<1>10. AnswersHeld'
  BY <1>1 DEF ServiceInvariant, AnswersHeld, Artifacts
<1>11. AdapterHeld' /\ BackupsHeld'
  BY DEF ServiceInvariant, AdapterHeld, BackupsHeld, Cut
<1>12. ApartHeld'
  BY <1>1 DEF ApartHeld, Unmarked
<1>13. ASSUME NEW s \in Stores
       PROVE  TornUnknown(s)'
  <2>1. disk'[s].id = disk[s].id /\ disk'[s].torn = disk[s].torn
    BY <1>1 DEF Stores, Artifacts
  <2>2. TornUnknown(s)
    BY DEF ServiceInvariant
  <2>3. ASSUME NEW q \in Procs
        PROVE  /\ proc'[q].ids = proc[q].ids
               /\ proc'[q].role = "backup" => proc'[q] = proc[q]
    BY <1>3 DEF Others, Keeps
  <2>4. \A q \in Procs : disk[s].torn => proc'[q].ids[s].id # disk[s].id
    BY <2>2, <2>3 DEF TornUnknown
  <2>5. ASSUME NEW q \in Procs, disk[s].torn, proc'[q].role = "backup",
               proc'[q].at \in {"copy", "rename"}
        PROVE  proc'[q].copy.files[s].id # disk[s].id
    <3>1. proc'[q] = proc[q]
      BY <2>3, <2>5
    <3> QED
      BY <2>2, <2>5, <3>1 DEF TornUnknown
  <2>6. backups' = backups
    OBVIOUS
  <2> QED
    BY <1>1, <2>1, <2>2, <2>4, <2>5, <2>6 DEF TornUnknown
<1> QED
  BY <1>2, <1>6, <1>7, <1>8, <1>9, <1>10, <1>11, <1>12, <1>13 DEF ServiceInvariant

\* What a write that is not refused did.
WriteDone(p, a, file, next) ==
  /\ Bound(p, a) /\ disk' = [disk EXCEPT ![a] = file] /\ Go(p, next)
  /\ lock' = IF next = "check" THEN None ELSE lock

\* A write is refused, and the call ends, or it is done under the marker that was read.
LEMMA WriteCases ==
  ASSUME ServiceInvariant, NEW p \in Procs, NEW a \in Artifacts, NEW file, NEW next,
         proc[p].at \in Working, Write(p, a, file, next)
  PROVE  ServiceInvariant' \/ WriteDone(p, a, file, next)
<1>1. /\ lock = p /\ inodes' = inodes /\ marker' = marker
      /\ UNCHANGED <<backups, answered>> /\ UNCHANGED secrets
  BY DEF Write
<1>2. CASE Bound(p, a)
  BY <1>2, Zenon DEF Write, WriteDone
<1>3. CASE ~Bound(p, a)
  <2>1. disk' = disk /\ lock' = None /\ Answer(p)
    BY <1>3 DEF Write
  <2> QED
    BY <1>1, <2>1, AnswerStep DEF Steady, Serving, Calling
<1> QED
  BY <1>2, <1>3

\* What a write that is done leaves to be shown: that the set is still one state.
LEMMA WriteStep ==
  ASSUME ServiceInvariant, NEW p \in Procs, NEW a \in Artifacts, NEW file \in Files,
         NEW next \in {"claim", "act", "final", "close", "check"},
         proc[p].at \in Working, Write(p, a, file, next), WriteDone(p, a, file, next),
         file.ino = disk[a].ino, file.id = disk[a].id, file.torn = disk[a].torn,
         SetBound => OneState' /\ disk'["control"].by \subseteq {marker.cfg},
         SetBound =>
           /\ next = "claim" => /\ disk'["control"].open = {}
                                /\ proc[p].req \in disk'["audit"].open
           /\ next = "act" => proc[p].req \in Claims'
           /\ next = "close" => proc[p].req \in disk'["audit"].done,
         disk'["adapter"].open = {},
         disk["audit"].done \subseteq disk'["audit"].done,
         disk["control"].done \subseteq disk'["control"].done
  PROVE  ServiceInvariant'
<1>1. /\ lock = p /\ inodes' = inodes /\ marker' = marker
      /\ UNCHANGED <<backups, answered>> /\ UNCHANGED secrets
  BY DEF Write
<1>2. /\ Bound(p, a) /\ disk' = [disk EXCEPT ![a] = file] /\ Go(p, next)
      /\ lock' = IF next = "check" THEN None ELSE lock
  BY DEF WriteDone
<1>3. Written(a)
  BY <1>1, <1>2 DEF Written, ServiceInvariant, Typed
<1>4. Exists(a) /\ marker \in Markers
  <2>1. proc[p].ids[a].ino # 0
    BY DEF ServiceInvariant, ProcHeld, OpenedHeld, Serving, Calling
  <2>2. marker \in Markers
    BY <1>2, BoundMarked DEF Verified, Serving, Calling
  <2> QED
    BY <1>2, <2>1, <2>2 DEF Exists, Bound
<1>5. /\ proc' \in [Procs -> ProcRow] /\ Others(p) /\ Keeps(p)
      /\ proc'[p].at = next /\ proc'[p].req = proc[p].req
  BY <1>2, GoTold DEF ServiceInvariant, Places, Serving, Calling, Working
<1>6. LockMoves(p) /\ lock' \in Procs \cup {None}
  <2>1. CASE next = "check"
    BY <1>1, <1>2, <1>5, <2>1, ServiceAssumption DEF LockMoves, InSection, Copying, Inside,
       Artifacts
  <2>2. CASE next # "check"
    BY <1>1, <1>2, <1>5, <2>2 DEF LockMoves, InSection, Inside
  <2> QED
    BY <2>1, <2>2
<1>7. WorkHeld(p)'
  <2>1. SetBound' <=> SetBound
    BY <1>3, WrittenNames
  <2> QED
    BY <1>5, <2>1 DEF WorkHeld
<1> QED
  BY <1>1, <1>3, <1>4, <1>5, <1>6, <1>7, WrittenStep

\* What a closed request changes in a file.
LEMMA DoneTold ==
  ASSUME Typed, NEW a \in Artifacts, NEW r \in Requests
  PROVE  LET f == DoneIn(a, r) IN
         /\ f \in Files /\ f.ino = disk[a].ino /\ f.id = disk[a].id /\ f.torn = disk[a].torn
         /\ f.open = disk[a].open \ {r} /\ f.done = disk[a].done \cup {r}
         /\ f.by = disk[a].by
BY DEF Typed, DoneIn, Files

\* The request of a call that works is a request, and what is open, done and made under
\* a configuration is that.
LEMMA WorkTyped ==
  ASSUME ServiceInvariant, NEW p \in Procs, proc[p].at \in Working
  PROVE  /\ proc[p].req \in Requests /\ proc[p].cfg \in Configurations
         /\ \A a \in Artifacts : disk[a] \in Files
         /\ disk["adapter"].open = {}
BY DEF ServiceInvariant, ProcHeld, PlaceHeld, Serving, Calling, Typed, AdapterHeld, Working

\* A marked set is one state.
LEMMA MarkedState ==
  ASSUME ServiceInvariant, SetBound
  PROVE  OneState /\ disk["control"].by \subseteq {marker.cfg}
BY DEF ServiceInvariant, MarkedHeld

\* A call records that its request was received.
LEMMA ReceiveStep ==
  ASSUME ServiceInvariant, NEW p \in Procs, Receive(p)
  PROVE  ServiceInvariant'
<1>1. proc[p].at = "receive" /\ proc[p].at \in Working
  BY DEF Receive, Working
<1>2. PICK file : file = [disk["audit"] EXCEPT !.open = @ \cup {proc[p].req}]
  OBVIOUS
<1>3. /\ file \in Files /\ file.ino = disk["audit"].ino /\ file.id = disk["audit"].id
      /\ file.torn = disk["audit"].torn /\ file.done = disk["audit"].done
      /\ file.open = disk["audit"].open \cup {proc[p].req}
  BY <1>1, <1>2, WorkTyped DEF Files, Artifacts
<1>4. Write(p, "audit", file, "claim")
  BY <1>2 DEF Receive
<1>5. CASE WriteDone(p, "audit", file, "claim")
  <2>1. /\ disk'["audit"] = file /\ \A b \in Stores : disk'[b] = disk[b]
    BY <1>5 DEF WriteDone, ServiceInvariant, Typed, Stores, Artifacts
  <2>2. SetBound => OneState' /\ disk'["control"].by \subseteq {marker.cfg}
    BY <1>3, <2>1, MarkedState DEF OneState, Claims, Stores
  <2>3. SetBound => disk["control"].open = {}
    BY <1>1 DEF ServiceInvariant, ProcHeld, WorkHeld
  <2> QED
    BY <1>1, <1>3, <1>4, <1>5, <2>1, <2>2, <2>3, WriteStep, WorkTyped DEF Stores, Artifacts
<1> QED
  BY <1>1, <1>4, <1>5, WriteCases DEF Artifacts

\* A call claims its request in the ledger, or finds it claimed.
LEMMA ClaimStep ==
  ASSUME ServiceInvariant, NEW p \in Procs, Claim(p)
  PROVE  ServiceInvariant'
<1> DEFINE r == proc[p].req
<1>1. proc[p].at = "claim" /\ proc[p].at \in Working
  BY DEF Claim, Working
<1>2. SetBound => disk["control"].open = {} /\ r \in disk["audit"].open
  BY <1>1 DEF ServiceInvariant, ProcHeld, WorkHeld
<1>3. CASE r \in Claims
  <2>1. PICK file : file = [disk["audit"] EXCEPT !.open = @ \ {r}]
    OBVIOUS
  <2>2. /\ file \in Files /\ file.ino = disk["audit"].ino /\ file.id = disk["audit"].id
        /\ file.torn = disk["audit"].torn /\ file.done = disk["audit"].done
        /\ file.open = disk["audit"].open \ {r}
    BY <1>1, <2>1, WorkTyped DEF Files, Artifacts
  <2>3. Write(p, "audit", file, "check")
    BY <1>3, <2>1 DEF Claim
  <2>4. CASE WriteDone(p, "audit", file, "check")
    <3>1. /\ disk'["audit"] = file /\ \A b \in Stores : disk'[b] = disk[b]
      BY <2>4 DEF WriteDone, ServiceInvariant, Typed, Stores, Artifacts
    <3>2. SetBound => OneState' /\ disk'["control"].by \subseteq {marker.cfg}
      BY <1>2, <1>3, <2>2, <3>1, MarkedState DEF OneState, Claims, Stores
    <3> QED
      BY <1>1, <2>2, <2>3, <2>4, <3>1, <3>2, WriteStep, WorkTyped DEF Stores, Artifacts
  <2> QED
    BY <1>1, <2>3, <2>4, WriteCases DEF Artifacts
<1>4. CASE r \notin Claims
  <2>1. PICK file : file = [disk["control"] EXCEPT !.open = @ \cup {r},
                                                   !.by = @ \cup {proc[p].cfg}]
    OBVIOUS
  <2>2. /\ file \in Files /\ file.ino = disk["control"].ino /\ file.id = disk["control"].id
        /\ file.torn = disk["control"].torn /\ file.done = disk["control"].done
        /\ file.open = disk["control"].open \cup {r}
        /\ file.by = disk["control"].by \cup {proc[p].cfg}
    BY <1>1, <2>1, WorkTyped, ZenonT(60) DEF Files, Artifacts, Configurations
  <2>3. Write(p, "control", file, "act")
    BY <1>4, <2>1 DEF Claim
  <2>4. CASE WriteDone(p, "control", file, "act")
    <3>1. /\ disk'["control"] = file
          /\ disk'["audit"] = disk["audit"] /\ disk'["adapter"] = disk["adapter"]
      BY <2>4 DEF WriteDone, ServiceInvariant, Typed, Artifacts
    <3>2. marker.cfg = proc[p].cfg
      BY <1>1, <2>4, BoundMarked DEF WriteDone, Verified, Serving, Calling, Artifacts
    <3>3. r \in Claims'
      BY <2>2, <3>1 DEF Claims
    <3>4. SetBound => OneState' /\ disk'["control"].by \subseteq {marker.cfg}
      BY <1>2, <2>2, <3>1, <3>2, MarkedState DEF OneState, Claims
    <3> QED
      BY <1>1, <2>2, <2>3, <2>4, <3>1, <3>3, <3>4, WriteStep, WorkTyped DEF Artifacts
  <2> QED
    BY <1>1, <2>3, <2>4, WriteCases DEF Artifacts
<1> QED
  BY <1>3, <1>4

\* A call has its effect, or has none.
LEMMA ActStep ==
  ASSUME ServiceInvariant, NEW p \in Procs, Act(p)
  PROVE  ServiceInvariant'
<1> DEFINE r == proc[p].req
<1>1. proc[p].at = "act" /\ proc[p].at \in Working
  BY DEF Act, Working
<1>2. SetBound => r \in Claims
  BY <1>1 DEF ServiceInvariant, ProcHeld, WorkHeld
<1>3. PICK file : /\ file \in {DoneIn("adapter", r), disk["adapter"]}
                  /\ Write(p, "adapter", file, "final")
  BY DEF Act
<1>4. /\ file \in Files /\ file.ino = disk["adapter"].ino /\ file.id = disk["adapter"].id
      /\ file.torn = disk["adapter"].torn /\ file.open = {}
      /\ file.done \subseteq disk["adapter"].done \cup {r}
  BY <1>1, <1>3, WorkTyped, DoneTold DEF ServiceInvariant, Artifacts
<1>5. CASE WriteDone(p, "adapter", file, "final")
  <2>1. /\ disk'["adapter"] = file
        /\ disk'["audit"] = disk["audit"] /\ disk'["control"] = disk["control"]
    BY <1>5 DEF WriteDone, ServiceInvariant, Typed, Artifacts
  <2>2. SetBound => OneState' /\ disk'["control"].by \subseteq {marker.cfg}
    BY <1>2, <1>4, <2>1, MarkedState DEF OneState, Claims
  <2> QED
    BY <1>1, <1>3, <1>4, <1>5, <2>1, <2>2, WriteStep, WorkTyped DEF Artifacts
<1> QED
  BY <1>1, <1>3, <1>5, WriteCases DEF Artifacts

\* A call or a reconciliation closes the lifecycle in the audit file.
LEMMA FinalStep ==
  ASSUME ServiceInvariant, NEW p \in Procs, Final(p)
  PROVE  ServiceInvariant'
<1> DEFINE r == proc[p].req
<1>1. proc[p].at = "final" /\ proc[p].at \in Working
  BY DEF Final, Working
<1>2. PICK file : file = DoneIn("audit", r)
  OBVIOUS
<1>3. /\ file \in Files /\ file.ino = disk["audit"].ino /\ file.id = disk["audit"].id
      /\ file.torn = disk["audit"].torn /\ file.open = disk["audit"].open \ {r}
      /\ file.done = disk["audit"].done \cup {r}
  BY <1>1, <1>2, WorkTyped, DoneTold DEF ServiceInvariant, Artifacts
<1>4. Write(p, "audit", file, "close")
  BY <1>2 DEF Final
<1>5. CASE WriteDone(p, "audit", file, "close")
  <2>1. /\ disk'["audit"] = file /\ \A b \in Stores : disk'[b] = disk[b]
    BY <1>5 DEF WriteDone, ServiceInvariant, Typed, Stores, Artifacts
  <2>2. SetBound => OneState' /\ disk'["control"].by \subseteq {marker.cfg}
    BY <1>3, <2>1, MarkedState DEF OneState, Claims, Stores
  <2> QED
    BY <1>1, <1>3, <1>4, <1>5, <2>1, <2>2, WriteStep, WorkTyped DEF Stores, Artifacts
<1> QED
  BY <1>1, <1>4, <1>5, WriteCases DEF Artifacts

\* A call or a reconciliation closes the claim in the ledger.
LEMMA CloseStep ==
  ASSUME ServiceInvariant, NEW p \in Procs, Close(p)
  PROVE  ServiceInvariant'
<1> DEFINE r == proc[p].req
<1>1. proc[p].at = "close" /\ proc[p].at \in Working
  BY DEF Close, Working
<1>2. PICK file : file = DoneIn("control", r)
  OBVIOUS
<1>3. /\ file \in Files /\ file.ino = disk["control"].ino /\ file.id = disk["control"].id
      /\ file.torn = disk["control"].torn /\ file.open = disk["control"].open \ {r}
      /\ file.done = disk["control"].done \cup {r} /\ file.by = disk["control"].by
  BY <1>1, <1>2, WorkTyped, DoneTold DEF ServiceInvariant, Artifacts
<1>4. Write(p, "control", file, "check")
  BY <1>2 DEF Close
<1>5. CASE WriteDone(p, "control", file, "check")
  <2>1. /\ disk'["control"] = file
        /\ disk'["audit"] = disk["audit"] /\ disk'["adapter"] = disk["adapter"]
    BY <1>5 DEF WriteDone, ServiceInvariant, Typed, Artifacts
  <2>2. SetBound => r \in disk["audit"].done
    BY <1>1 DEF ServiceInvariant, ProcHeld, WorkHeld
  <2>3. SetBound => OneState' /\ disk'["control"].by \subseteq {marker.cfg}
    BY <1>3, <2>1, <2>2, MarkedState DEF OneState, Claims
  <2> QED
    BY <1>1, <1>3, <1>4, <1>5, <2>1, <2>3, WriteStep, WorkTyped DEF Artifacts
<1> QED
  BY <1>1, <1>4, <1>5, WriteCases DEF Artifacts

-----------------------------------------------------------------------------
(* Steps that write the marker.                                            *)

\* The marker comes into being, whole or torn.
MarkerMade(p) ==
  /\ proc[p].at = "mark" /\ marker = NoMarker
  /\ \/ marker' = MarkerOf(p) /\ Exists("audit")
     \/ marker' = TornMarker
  /\ disk' = disk /\ inodes' = inodes /\ backups' = backups /\ answered' = answered

\* A marker that was made names files that have been opened, or nothing.
LEMMA MarkerTold ==
  ASSUME ServiceInvariant, NEW p \in Procs, MarkerMade(p)
  PROVE  /\ proc[p].role \in {"init", "restore"} /\ marker \notin Markers
         /\ marker' \in Markers \cup {TornMarker} /\ marker'.ino <= inodes
         /\ marker' \in Markers =>
              /\ marker' = MarkerOf(p) /\ Exists("audit")
              /\ marker'.control <= inodes /\ marker'.adapter <= inodes
              /\ marker'.control = proc[p].ids["control"].id
              /\ marker'.adapter = proc[p].ids["adapter"].id
              /\ marker'.cfg = proc[p].cfg
<1>1. proc[p].role \in {"init", "restore"} /\ proc[p].cfg \in Configurations
  BY DEF ServiceInvariant, ProcHeld, PlaceHeld, MarkerMade
<1>2. marker \notin Markers /\ TornMarker \notin Markers /\ inodes \in Nat
  BY DEF MarkerMade, NoMarker, TornMarker, Markers, ServiceInvariant, Typed
<1>3. CASE marker' = TornMarker
  BY <1>1, <1>2, <1>3 DEF TornMarker
<1>4. CASE marker' = MarkerOf(p) /\ Exists("audit")
  <2>1. \A s \in Stores : proc[p].ids[s].id \in (0..inodes) \ {0}
    BY DEF ServiceInvariant, ProcHeld, OpenedHeld, IdsNumbered, Numbered, MarkerMade,
       Closing, Stores, Artifacts
  <2>2. disk["audit"].ino \in (0..inodes) \ {0}
    BY <1>4 DEF ServiceInvariant, FilesNumbered, Numbered, Exists, Artifacts
  <2>3. marker' \in Markers
    BY <1>1, <1>2, <1>4, <2>1, <2>2 DEF Markers, MarkerOf, Stores
  <2> QED
    BY <1>1, <1>2, <1>4, <2>1, <2>2, <2>3 DEF MarkerOf, Stores
<1> QED
  BY <1>3, <1>4 DEF MarkerMade

\* Nobody works on the set that is marked.
LEMMA MarkedApart ==
  ASSUME ServiceInvariant, NEW p \in Procs, MarkerMade(p), SetBound'
  PROVE  /\ marker' \in Markers /\ OneState /\ disk["control"].by \subseteq {marker'.cfg}
         /\ \A q \in Procs : proc[q].at \notin Working
<1>1. marker' \in Markers
  BY MarkerTold DEF SetBound
<1>2. NamedBy(p) /\ proc[p].at \in Closing /\ Unmarked
  BY <1>1, MarkerTold DEF NamedBy, SetBound, Stores, MarkerMade, Closing, Unmarked
<1>3. OneState
  BY <1>2 DEF ServiceInvariant, ProcHeld, ClosingHeld
<1>4. \A q \in Procs : proc[q].at \notin Working
  BY <1>2 DEF ServiceInvariant, ApartHeld
<1>5. disk["control"].by \subseteq {proc[p].cfg}
  BY <1>2, MarkerTold DEF ServiceInvariant, ProcHeld, BuildingHeld
<1> QED
  BY <1>1, <1>3, <1>4, <1>5, MarkerTold

\* A new marker takes nothing from the other processes.
LEMMA OthersMarked ==
  ASSUME ServiceInvariant, NEW p \in Procs, MarkerMade(p), NEW q \in Procs \ {p},
         proc'[q] = proc[q]
  PROVE  ProcHeld(q)'
<1> USE DEF MarkerMade
<1>1. PlaceHeld(q)' /\ OpenedHeld(q)' /\ RestoreOrder(q)'
  BY EachHeld, RowStays
<1>2. IdsNumbered(q)'
  BY EachHeld, NamesStay
<1>3. proc[q].role \in {"serve", "backup"} => proc[q].mark # marker
  BY MarkerTold DEF ServiceInvariant, ProcHeld, PlaceHeld
<1>4. MarkHeld(q)'
  BY <1>3 DEF ServiceInvariant, ProcHeld, MarkHeld
<1>5. BoundHeld(q)'
  <2>1. proc[q].at \in Verified => proc[q].role \in {"serve", "backup"}
    BY DEF ServiceInvariant, ProcHeld, PlaceHeld, Verified
  <2> QED
    BY <1>3, <2>1 DEF ServiceInvariant, ProcHeld, BoundHeld
<1>6. proc[q].role # "restore"
  BY MarkerTold DEF ServiceInvariant, AloneHeld
<1>7. BuildingHeld(q)'
  <2>1. proc[q].at # "write"
    BY <1>6 DEF ServiceInvariant, ProcHeld, PlaceHeld
  <2> QED
    BY <1>6, <2>1, MarkerTold DEF ServiceInvariant, ProcHeld, BuildingHeld, Unmarked
<1>8. ClosingHeld(q)'
  BY MarkerTold DEF ServiceInvariant, ProcHeld, ClosingHeld, Unmarked, NamedBy, Exists,
     OneState, Claims
<1>9. WorkHeld(q)'
  <2>1. SetBound' => proc'[q].at \notin Working
    BY MarkedApart
  <2> QED
    BY <2>1 DEF WorkHeld
<1>10. CutHeld(q)'
  BY EachHeld, CutStays
<1> QED
  BY <1>1, <1>2, <1>4, <1>5, <1>7, <1>8, <1>9, <1>10 DEF ProcHeld

\* A marker is written, whole or torn, and its writer ends.
LEMMA MarkerStep ==
  ASSUME ServiceInvariant, NEW p \in Procs, MarkerMade(p), End(p), UNCHANGED secrets,
         lock' = IF lock = p THEN None ELSE lock
  PROVE  ServiceInvariant'
<1> USE DEF MarkerMade
<1>1. proc' \in [Procs -> ProcRow] /\ Others(p) /\ proc'[p] = Off
  BY EndTold DEF ServiceInvariant
<1>2. Typed'
  BY <1>1, MarkerTold DEF ServiceInvariant, Typed, secrets
<1>3. ProcHeld(p)' /\ ~InSection(p)'
  BY <1>1, <1>2, OffHeld DEF Typed
<1>4. LockMoves(p)
  BY <1>3, ServiceAssumption DEF LockMoves
<1>5. /\ proc'[p].role = None /\ proc'[p].at = "off"
      /\ \A s \in Stores : proc'[p].ids[s].id = 0
  BY <1>1 DEF Off, Absent, Stores, Artifacts
<1>6. LockHeld' /\ AloneHeld'
  BY <1>1, <1>4, <1>5, LockKept, AloneKept
<1>7. \A q \in Procs : ProcHeld(q)'
  BY <1>1, <1>3, OthersMarked DEF Others
<1>8. FilesNumbered'
  BY MarkerTold DEF ServiceInvariant, FilesNumbered, Numbered
<1>9. MarkedHeld'
  <2>1. marker' \in Markers => ~disk["audit"].torn
    BY MarkerTold DEF ServiceInvariant, ProcHeld, BuildingHeld
  <2>2. SetBound' => OneState' /\ disk'["control"].by \subseteq {marker'.cfg}
    BY MarkedApart DEF OneState, Claims
  <2> QED
    BY <2>1, <2>2 DEF MarkedHeld
<1>10. AnswersHeld'
  BY MarkerTold DEF ServiceInvariant, AnswersHeld
<1>11. AdapterHeld' /\ BackupsHeld'
  BY DEF ServiceInvariant, AdapterHeld, BackupsHeld, Cut
<1>12. ApartHeld'
  <2> SUFFICES ASSUME NEW r \in Procs, NEW q \in Procs, proc'[r].at \in Closing,
                      proc'[q].at \in Working, NamedBy(r)'
               PROVE  FALSE
    BY DEF ApartHeld
  <2>1. r # p /\ q # p
    BY <1>5 DEF Closing, Working
  <2>2. proc'[r] = proc[r] /\ proc'[q] = proc[q]
    BY <1>1, <2>1 DEF Others
  <2>3. NamedBy(r)
    BY <2>2 DEF NamedBy, Exists
  <2> QED
    BY <2>2, <2>3, MarkerTold DEF ServiceInvariant, ApartHeld, Unmarked
<1>13. ASSUME NEW s \in Stores
       PROVE  TornUnknown(s)'
  <2> SUFFICES ASSUME disk[s].torn
               PROVE  TornUnknown(s)'
    BY DEF TornUnknown
  <2>1. TornUnknown(s)
    BY DEF ServiceInvariant
  <2>2. disk[s].id # 0
    BY DEF ServiceInvariant, FilesNumbered, Numbered, Absent, Stores, Artifacts
  <2>3. \A q \in Procs : proc'[q].ids[s].id # disk[s].id
    BY <1>1, <1>5, <2>1, <2>2 DEF TornUnknown, Others
  <2>4. \A q \in Procs : proc'[q].role = "backup" /\ proc'[q].at \in {"copy", "rename"} =>
          proc'[q].copy.files[s].id # disk[s].id
    BY <1>1, <1>5, <2>1 DEF TornUnknown, Others
  <2>5. marker' \in Markers =>
         (IF s = "control" THEN marker'.control ELSE marker'.adapter) # disk[s].id
    BY <2>1, MarkerTold DEF TornUnknown, Stores
  <2> QED
    BY <2>1, <2>3, <2>4, <2>5 DEF TornUnknown
<1> QED
  BY <1>2, <1>6, <1>7, <1>8, <1>9, <1>10, <1>11, <1>12, <1>13 DEF ServiceInvariant

\* A marker is written over nothing, and only once.
LEMMA MarkStep ==
  ASSUME ServiceInvariant, NEW p \in Procs, Mark(p)
  PROVE  ServiceInvariant'
<1>1. /\ proc[p].at = "mark" /\ End(p) /\ lock' = lock /\ disk' = disk /\ inodes' = inodes
      /\ UNCHANGED <<backups, answered>> /\ UNCHANGED secrets
      /\ marker' = IF marker = NoMarker /\ Exists("audit") THEN MarkerOf(p) ELSE marker
  BY DEF Mark
<1>2. lock # p
  BY <1>1, OutsideUnlocked DEF InSection, Copying, Inside, Artifacts
<1>3. CASE marker = NoMarker /\ Exists("audit")
  BY <1>1, <1>2, <1>3, MarkerStep DEF MarkerMade
<1>4. CASE ~(marker = NoMarker /\ Exists("audit"))
  BY <1>1, <1>2, <1>4, EndSteady DEF Steady
<1> QED
  BY <1>3, <1>4

-----------------------------------------------------------------------------
(* Files are lost.                                                         *)

\* Some files are gone, and with all of them the marker.
Gone(gone) ==
  /\ gone \in SUBSET Artifacts /\ gone # {}
  /\ disk' \in [Artifacts -> Files]
  /\ \A a \in gone : disk'[a] = Absent
  /\ \A a \in Artifacts \ gone : disk'[a] = disk[a]
  /\ marker' = marker \/ (gone = Artifacts /\ marker' = NoMarker)
  /\ inodes' = inodes /\ proc' = proc /\ lock' = lock
  /\ UNCHANGED <<backups, answered>> /\ UNCHANGED secrets

\* What Lose does to the directory.
LEMMA LoseTold ==
  ASSUME Typed, NEW gone \in SUBSET Artifacts, Lose(gone)
  PROVE  Gone(gone)
<1>1. /\ disk' = [a \in Artifacts |-> IF a \in gone THEN Absent ELSE disk[a]]
      /\ marker' = IF gone = Artifacts THEN NoMarker ELSE marker
      /\ gone # {} /\ inodes' = inodes /\ proc' = proc /\ lock' = lock
      /\ UNCHANGED <<backups, answered>> /\ UNCHANGED secrets
  BY DEF Lose, Artifacts
<1> QED
  BY <1>1, AbsentTyped DEF Gone, Typed

\* A set of which a file is gone is not bound by the marker, nor is a process about to
\* mark it.
LEMMA GoneUnbound ==
  ASSUME ServiceInvariant, NEW gone \in SUBSET Artifacts, Gone(gone)
  PROVE  /\ ~SetBound'
         /\ \A q \in Procs : proc[q].at \in Closing => ~NamedBy(q)'
<1>1. PICK a \in gone : disk'[a] = Absent
  BY DEF Gone
<1>2. disk'[a].ino = 0 /\ disk'[a].id = 0
  BY <1>1 DEF Absent
<1>3. ~SetBound'
  BY <1>2 DEF SetBound, Exists
<1>4. ASSUME NEW q \in Procs, proc[q].at \in Closing
      PROVE  ~NamedBy(q)'
  <2>1. \A s \in Stores : proc[q].ids[s].id # 0
    BY <1>4 DEF ServiceInvariant, ProcHeld, OpenedHeld, IdsNumbered, Numbered, Stores,
       Artifacts
  <2>2. proc'[q] = proc[q]
    BY DEF Gone
  <2> QED
    BY <1>2, <2>1, <2>2 DEF NamedBy, Exists, Stores, Artifacts
<1> QED
  BY <1>3, <1>4

\* What is lost takes nothing from any process.
LEMMA AllGone ==
  ASSUME ServiceInvariant, NEW gone \in SUBSET Artifacts, Gone(gone), NEW q \in Procs
  PROVE  ProcHeld(q)'
<1>1. /\ proc'[q] = proc[q] /\ backups' = backups /\ inodes' = inodes
      /\ \A a \in Artifacts : disk'[a] = Absent \/ disk'[a] = disk[a]
      /\ Absent.ino = 0 /\ ~Absent.torn /\ Absent.by = {}
  BY DEF Gone, Absent
<1>2. PlaceHeld(q)' /\ OpenedHeld(q)' /\ RestoreOrder(q)'
  BY <1>1, EachHeld, RowStays
<1>3. IdsNumbered(q)'
  BY <1>1, EachHeld, NamesStay
<1>4. marker' = marker \/ \A a \in Artifacts : disk'[a] = Absent
  BY DEF Gone
<1>5. MarkHeld(q)'
  <2>1. proc[q].role \in {"serve", "backup"} => proc[q].mark.ino # 0
    BY DEF ServiceInvariant, ProcHeld, PlaceHeld, Markers
  <2> QED
    BY <1>1, <1>4, <2>1 DEF ServiceInvariant, ProcHeld, MarkHeld, Artifacts
<1>6. BoundHeld(q)'
  <2>1. proc[q].at \in Verified => \A a \in Artifacts : proc[q].ids[a].ino # 0
    BY DEF ServiceInvariant, ProcHeld, OpenedHeld, Verified
  <2> QED
    BY <1>1, <1>4, <2>1 DEF ServiceInvariant, ProcHeld, BoundHeld
<1>7. BuildingHeld(q)'
  <2>1. Current(q)' = Current(q) /\ Current(q) \in Artifacts
    BY <1>1 DEF Current, Artifacts
  <2>2. proc[q].at = "write" => proc[q].ids[Current(q)].ino # 0
    <3>1. proc[q].at = "write" => proc[q].ids["audit"].ino # 0
      BY DEF ServiceInvariant, ProcHeld, PlaceHeld, RestoreOrder
    <3> QED
      BY <3>1 DEF Current
  <2>3. proc'[q].role = "init" /\ Unmarked' => disk'["control"].by = {}
    BY <1>1, <1>4 DEF ServiceInvariant, ProcHeld, BuildingHeld, Unmarked, Artifacts
  <2>4. proc'[q].role = "restore" =>
          marker' = NoMarker /\ disk'["control"].by \subseteq {proc'[q].cfg}
    BY <1>1 DEF ServiceInvariant, ProcHeld, BuildingHeld, Gone, Artifacts
  <2>5. /\ proc'[q].role = "init" => ~disk'["audit"].torn
        /\ proc'[q].role = "restore" /\ disk'["audit"].torn =>
             /\ proc'[q].at = "write" /\ Current(q)' = "audit"
             /\ disk'["audit"].ino = proc'[q].ids["audit"].ino
    BY <1>1, <2>1 DEF ServiceInvariant, ProcHeld, BuildingHeld, Artifacts
  <2>6. proc'[q].at = "write" =>
          (disk'[Current(q)].ino = proc'[q].ids[Current(q)].ino => disk'[Current(q)].torn)
    BY <1>1, <2>1, <2>2 DEF ServiceInvariant, ProcHeld, BuildingHeld
  <2> QED
    BY <2>1, <2>3, <2>4, <2>5, <2>6 DEF BuildingHeld
<1>8. ClosingHeld(q)' /\ WorkHeld(q)'
  BY <1>1, GoneUnbound DEF ClosingHeld, WorkHeld
<1>9. CutHeld(q)'
  <2>1. Copied(q)' = Copied(q)
    BY <1>1 DEF Copied
  <2>2. Copying(q) => \A a \in Artifacts : proc[q].ids[a].ino # 0
    BY DEF ServiceInvariant, ProcHeld, OpenedHeld, Copying
  <2>3. Copying(q) => \A a \in Artifacts : Good(q, a)' => /\ Good(q, a)
                                                          /\ Seen(q, a)' = Seen(q, a)
    BY <1>1, <2>1, <2>2 DEF Good, Seen
  <2> QED
    <3>1. CutHeld(q)
      BY EachHeld
    <3> QED
      BY <1>1, <2>3, <3>1 DEF CutHeld, Cut, Artifacts, Copying
<1> QED
  BY <1>2, <1>3, <1>5, <1>6, <1>7, <1>8, <1>9 DEF ProcHeld

\* The operator moves the state away, or loses files of it.
LEMMA LoseStep ==
  ASSUME ServiceInvariant, NEW gone \in SUBSET Artifacts, Lose(gone)
  PROVE  ServiceInvariant'
<1>1. Gone(gone)
  BY LoseTold DEF ServiceInvariant
<1>2. /\ proc' = proc /\ lock' = lock /\ inodes' = inodes
      /\ UNCHANGED <<backups, answered>> /\ UNCHANGED secrets
      /\ marker' = marker \/ marker' = NoMarker
      /\ marker' = marker \/ \A a \in Artifacts : disk'[a] = Absent
      /\ \A a \in Artifacts : disk'[a] = Absent \/ disk'[a] = disk[a]
      /\ Absent.ino = 0 /\ Absent.id = 0 /\ ~Absent.torn /\ Absent.by = {} /\ Absent.open = {}
  BY <1>1 DEF Gone, Absent
<1>3. Typed'
  BY <1>1, <1>2 DEF ServiceInvariant, Typed, Gone, secrets
<1>4. \A q \in Procs : ProcHeld(q)'
  BY <1>1, AllGone
<1>5. LockHeld' /\ AloneHeld'
  BY <1>2 DEF ServiceInvariant, LockHeld, InSection, Copying, AloneHeld
<1>6. FilesNumbered'
  <2>1. NoMarker.ino = 0 /\ NoMarker \notin Markers /\ inodes \in Nat
    BY DEF NoMarker, Markers, ServiceInvariant, Typed
  <2>2. Numbered(Absent)
    BY <2>1 DEF Numbered, Absent
  <2> QED
    BY <1>2, <2>1, <2>2 DEF ServiceInvariant, FilesNumbered, Numbered
<1>7. MarkedHeld'
  BY <1>1, <1>2, GoneUnbound DEF ServiceInvariant, MarkedHeld, NoMarker, Markers,
     Artifacts
<1>8. AnswersHeld'
  <2>1. \A e \in answered : e[1] # 0
    BY DEF ServiceInvariant, FilesNumbered, Typed
  <2>2. "audit" \in Artifacts
    BY DEF Artifacts
  <2>3. \A e \in answered : disk'["audit"].ino = e[1] =>
          marker' = marker /\ disk["audit"].ino = e[1]
    BY <1>2, <2>1, <2>2
  <2> QED
    BY <1>1, <1>2, <2>3, GoneUnbound DEF ServiceInvariant, AnswersHeld
<1>9. AdapterHeld' /\ BackupsHeld'
  BY <1>2 DEF ServiceInvariant, AdapterHeld, BackupsHeld, Cut, Artifacts
<1>10. ApartHeld'
  BY <1>1, <1>2, GoneUnbound DEF ApartHeld
<1>11. ASSUME NEW s \in Stores
       PROVE  TornUnknown(s)'
  <2> SUFFICES ASSUME disk'[s].torn
               PROVE  TornUnknown(s)'
    BY DEF TornUnknown
  <2>1. disk'[s] = disk[s] /\ marker' = marker
    BY <1>2 DEF Stores, Artifacts
  <2> QED
    BY <1>2, <2>1 DEF ServiceInvariant, TornUnknown
<1> QED
  BY <1>3, <1>4, <1>5, <1>6, <1>7, <1>8, <1>9, <1>10, <1>11 DEF ServiceInvariant

-----------------------------------------------------------------------------
(* A process is killed.                                                    *)

\* A process is killed, at any place.
LEMMA CrashStep ==
  ASSUME ServiceInvariant, NEW p \in Procs, Crash(p)
  PROVE  ServiceInvariant'
<1>1. /\ End(p) /\ lock' = IF lock = p THEN None ELSE lock
      /\ UNCHANGED <<backups, answered>> /\ UNCHANGED secrets
  BY Zenon DEF Crash
<1>2. CASE UNCHANGED <<disk, marker, inodes>>
  BY <1>1, <1>2, EndSteady DEF Steady
<1>3. CASE proc[p].at = "mark" /\ marker = NoMarker /\ marker' = TornMarker
           /\ UNCHANGED <<disk, inodes>>
  BY <1>1, <1>3, MarkerStep DEF MarkerMade
<1>4. CASE /\ proc[p].at \in Stores /\ ~Exists(proc[p].at)
           /\ disk' = [disk EXCEPT ![proc[p].at] = [New(inodes + 1) EXCEPT !.torn = TRUE]]
           /\ inodes' = inodes + 1
           /\ UNCHANGED marker
  <2>1. PICK a \in Stores : a = proc[p].at
    BY <1>4
  <2>2. a \in Artifacts /\ a # "audit" /\ inodes \in Nat /\ inodes + 1 \in Nat
    BY DEF Stores, Artifacts, ServiceInvariant, Typed
  <2>3. PICK f : f = New(inodes + 1)
    OBVIOUS
  <2>4. PICK g : g = [f EXCEPT !.torn = TRUE]
    OBVIOUS
  <2>5. f \in Files /\ f.ino = inodes + 1 /\ f.id = inodes + 1 /\ f.open = {}
        /\ f.done = {} /\ f.by = {}
    <3>1. f \in Files
      BY <2>2, <2>3, AbsentTyped
    <3> QED
      BY <2>3, <3>1 DEF New, Absent
  <2>6. g \in Files /\ g.ino = inodes + 1 /\ g.id = inodes + 1 /\ g.open = {}
        /\ g.done = {} /\ g.by = {}
    BY <2>4, <2>5 DEF Files
  <2>7. disk' = [disk EXCEPT ![a] = g]
    BY <1>4, <2>1, <2>3, <2>4, Zenon
  <2>8. Created(a)
    BY <1>4, <2>1, <2>2, <2>6, <2>7 DEF Created, ServiceInvariant, Typed
  <2>9. proc' \in [Procs -> ProcRow] /\ Others(p) /\ proc'[p] = Off
    BY <1>1, EndTold DEF ServiceInvariant
  <2>10. Typed'
    BY <1>1, <1>4, <2>2, <2>8, <2>9 DEF ServiceInvariant, Typed, Created, secrets
  <2>11. ProcHeld(p)' /\ ~InSection(p)'
    BY <2>9, <2>10, OffHeld DEF Typed
  <2>12. LockMoves(p)
    BY <1>1, <2>11, ServiceAssumption DEF LockMoves
  <2>13. /\ proc'[p].role = None /\ proc'[p].at = "off"
         /\ \A s \in Stores : proc'[p].ids[s].id = 0
    BY <2>9 DEF Off, Absent, Stores, Artifacts
  <2>14. AloneHeld'
    BY <2>9, <2>13, AloneKept
  <2>15. NewTornAside(p)
    <3>1. \A s \in Stores : disk'[s].torn => disk'[s].id # 0
      <4> SUFFICES ASSUME NEW s \in Stores, disk'[s].torn
                   PROVE  disk'[s].id # 0
        OBVIOUS
      <4>1. CASE s = a
        BY <2>2, <2>8, <4>1 DEF Created
      <4>2. CASE s # a
        BY <2>8, <4>2 DEF Created, ServiceInvariant, FilesNumbered, Numbered, Absent,
           Stores, Artifacts
      <4> QED
        BY <4>1, <4>2
    <3> QED
      BY <2>13, <3>1 DEF NewTornAside
  <2>16. CreatedQuietly(p, a)
    BY <2>2 DEF CreatedQuietly
  <2>17. proc'[p].at \notin Closing \cup Working
    BY <2>13 DEF Closing, Working
  <2> QED
    BY <1>1, <2>2, <2>8, <2>9, <2>10, <2>11, <2>12, <2>14, <2>15, <2>16, <2>17, CreatedStep
<1> QED
  BY <1>2, <1>3, <1>4, Zenon DEF Crash

-----------------------------------------------------------------------------
(* A restore.                                                              *)

\* The file to be restored next is not there yet, and those before it are.
LEMMA NextToRestore ==
  ASSUME ServiceInvariant, NEW p \in Procs, proc[p].role = "restore", proc[p].at = "copy"
  PROVE  LET a == NextOf(Started(p)) IN
         /\ a \in Artifacts /\ a \notin Started(p)
         /\ a = "audit" => Started(p) = {}
         /\ a = "control" => Started(p) = {"audit"}
         /\ a = "adapter" => Started(p) = {"audit", "control"}
<1>1. /\ Started(p) \in SUBSET Artifacts /\ "adapter" \notin Started(p)
      /\ "control" \in Started(p) => "audit" \in Started(p)
  BY DEF ServiceInvariant, ProcHeld, RestoreOrder, Started, Artifacts
<1> QED
  BY <1>1, NextOfOrder DEF Artifacts

\* A restore creates the next file, or finds one in its way.
LEMMA RestoreCopiesStep ==
  ASSUME ServiceInvariant, NEW p \in Procs, RestoreCopies(p)
  PROVE  ServiceInvariant'
<1>1. /\ proc[p].at = "copy" /\ proc[p].role = "restore" /\ lock' = lock
      /\ marker' = marker /\ UNCHANGED <<backups, answered>> /\ UNCHANGED secrets
  BY Zenon DEF RestoreCopies
<1>2. PICK a \in Artifacts : a = NextOf(Started(p))
  BY <1>1, NextToRestore
<1>3. /\ a \notin Started(p)
      /\ a = "audit" => Started(p) = {}
      /\ a = "control" => Started(p) = {"audit"}
      /\ a = "adapter" => Started(p) = {"audit", "control"}
  BY <1>1, <1>2, NextToRestore
<1>4. lock # p
  BY <1>1, OutsideUnlocked DEF InSection, Copying, Inside, Artifacts
<1>5. CASE End(p) /\ UNCHANGED <<disk, inodes>>
  BY <1>1, <1>4, <1>5, EndSteady DEF Steady
<1>6. PICK b : b = proc[p].from
  OBVIOUS
<1>7. PICK file : file = [b.files[a] EXCEPT !.ino = inodes + 1]
  OBVIOUS
<1>8. CASE /\ ~Exists(a)
           /\ disk' = [disk EXCEPT ![a] = [New(inodes + 1) EXCEPT !.torn = TRUE]]
           /\ proc' = [proc EXCEPT ![p].at = "write", ![p].ids[a] = file]
           /\ inodes' = inodes + 1
  <2>1. inodes \in Nat /\ inodes + 1 \in Nat
    BY DEF ServiceInvariant, Typed
  <2>2. PICK f : f = New(inodes + 1)
    OBVIOUS
  <2>3. PICK g : g = [f EXCEPT !.torn = TRUE]
    OBVIOUS
  <2>4. f \in Files /\ f.ino = inodes + 1 /\ f.id = inodes + 1 /\ f.open = {}
        /\ f.done = {} /\ f.by = {}
    <3>1. f \in Files
      BY <2>1, <2>2, AbsentTyped
    <3> QED
      BY <2>2, <3>1 DEF New, Absent
  <2>5. g \in Files /\ g.ino = inodes + 1 /\ g.id = inodes + 1 /\ g.open = {}
        /\ g.done = {} /\ g.by = {} /\ g.torn
    BY <2>3, <2>4 DEF Files
  <2>6. disk' = [disk EXCEPT ![a] = g]
    BY <1>8, <2>2, <2>3, Zenon
  <2>7. Created(a) /\ disk'[a] = g
    BY <1>1, <1>8, <2>1, <2>5, <2>6 DEF Created, ServiceInvariant, Typed
  <2>8. /\ b \in backups /\ b \in Copies /\ b.files[a] \in Files
        /\ b.files[a].id \in (0..inodes) \ {0} /\ proc[p].cfg = b.cfg
    BY <1>1, <1>6 DEF ServiceInvariant, ProcHeld, PlaceHeld, Typed, FilesNumbered, Numbered,
       Copies
  <2>9. /\ file \in Files /\ file.ino = inodes + 1 /\ file.id = b.files[a].id
        /\ file = [b.files[a] EXCEPT !.ino = file.ino]
    BY <1>7, <2>1, <2>8 DEF Files
  <2>10. PICK x \in ProcRow : x = proc[p]
    BY DEF ServiceInvariant, Typed
  <2>11. PICK i : i = [x.ids EXCEPT ![a] = file]
    OBVIOUS
  <2>12. i \in [Artifacts -> Files] /\ i[a] = file
         /\ \A c \in Artifacts \ {a} : i[c] = x.ids[c]
    BY <2>9, <2>10, <2>11 DEF ProcRow
  <2>13. PICK z : z = [x EXCEPT !.at = "write"]
    OBVIOUS
  <2>14. /\ z \in ProcRow /\ z.at = "write" /\ z.role = x.role /\ z.cfg = x.cfg
         /\ z.ids = x.ids /\ z.mark = x.mark /\ z.from = x.from
    BY <2>10, <2>13 DEF ProcRow, Places
  <2>15. PICK y : y = [z EXCEPT !.ids = i]
    OBVIOUS
  <2>16. /\ y \in ProcRow /\ y.at = "write" /\ y.role = "restore" /\ y.cfg = x.cfg
         /\ y.ids = i /\ y.mark = x.mark /\ y.from = b
    BY <1>1, <1>6, <2>10, <2>12, <2>14, <2>15 DEF ProcRow
  <2>17. proc' = [proc EXCEPT ![p] = y]
    BY <1>8, <2>10, <2>11, <2>13, <2>14, <2>15, Zenon
  <2>18. proc' \in [Procs -> ProcRow] /\ proc'[p] = y /\ Others(p)
    BY <2>16, <2>17, RowTold DEF ServiceInvariant, Typed
  <2>19. Typed'
    BY <1>1, <1>8, <2>1, <2>7, <2>18 DEF ServiceInvariant, Typed, Created, secrets
  <2>20. LockMoves(p)
    BY <1>1, <1>4, <2>16, <2>18 DEF LockMoves, InSection, Copying, Inside, Artifacts
  <2>21. PlaceHeld(p)'
    BY <1>1, <2>8, <2>10, <2>16, <2>18 DEF ServiceInvariant, ProcHeld, PlaceHeld, Serving,
       Calling, Working, Roles
  <2>22. IdsNumbered(p)'
    <3>1. \A c \in Artifacts \ {a} : Numbered(x.ids[c])
      BY <2>10 DEF ServiceInvariant, ProcHeld, IdsNumbered
    <3>2. \A c \in Artifacts : Numbered(i[c])'
      <4> SUFFICES ASSUME NEW c \in Artifacts
                   PROVE  Numbered(i[c])'
        OBVIOUS
      <4>1. CASE c = a
        BY <1>8, <2>1, <2>8, <2>9, <2>12, <4>1 DEF Numbered
      <4>2. CASE c # a
        BY <1>8, <2>1, <2>12, <3>1, <4>2 DEF Numbered
      <4> QED
        BY <4>1, <4>2
    <3>3. x.mark.ino \in Int /\ x.mark.ino <= inodes
      BY <2>10 DEF ServiceInvariant, ProcHeld, IdsNumbered, Typed, ProcRow, Markers,
         NoMarker
    <3>4. proc'[p].mark.ino <= inodes'
      <4>1. inodes' = inodes + 1
        BY <2>7 DEF Created
      <4>2. proc'[p].mark = x.mark
        BY <2>16, <2>18
      <4> QED
        BY <2>1, <3>3, <4>1, <4>2
    <3>5. \A c \in Artifacts : Numbered(proc[p].ids[c])'
      BY <2>16, <2>18, <3>2 DEF Numbered
    <3> QED
      BY <2>16, <2>18, <3>4, <3>5 DEF IdsNumbered
  <2>23. OpenedHeld(p)' /\ MarkHeld(p)' /\ BoundHeld(p)' /\ ClosingHeld(p)' /\ WorkHeld(p)'
         /\ CutHeld(p)'
    BY <2>16, <2>18 DEF OpenedHeld, MarkHeld, BoundHeld, ClosingHeld, WorkHeld, CutHeld,
       Copying, Verified, Closing, Serving, Calling, Working
  <2>24. /\ \A c \in Artifacts : c \in Started(p) <=> x.ids[c].ino # 0
         /\ \A c \in Artifacts \ {a} : i[c].ino # 0 <=> c \in Started(p)
         /\ i[a].ino = inodes + 1
    BY <2>9, <2>10, <2>12 DEF Started
  <2>25. \A c \in Artifacts : x.ids[c].ino \in Nat /\ x.ids[c].ino < inodes + 1
    BY <2>1, <2>10 DEF ServiceInvariant, ProcHeld, IdsNumbered, Numbered
  <2>26. RestoreOrder(p)'
    <3>1. /\ \A c \in Artifacts : x.ids[c].ino # 0 =>
                x.ids[c] = [b.files[c] EXCEPT !.ino = x.ids[c].ino]
          /\ x.ids["control"].ino # 0 =>
                x.ids["audit"].ino # 0 /\ x.ids["audit"].ino < x.ids["control"].ino
      BY <1>1, <1>6, <2>10 DEF ServiceInvariant, ProcHeld, RestoreOrder
    <3>2. \A c \in Artifacts : i[c].ino # 0 => i[c] = [b.files[c] EXCEPT !.ino = i[c].ino]
      BY <2>9, <2>12, <3>1
    <3>3. i["audit"].ino # 0
      BY <1>3, <2>1, <2>24 DEF Artifacts
    <3>4. i["control"].ino # 0 => i["audit"].ino < i["control"].ino
      BY <1>3, <2>1, <2>12, <2>24, <2>25, <3>1 DEF Artifacts
    <3>5. i["adapter"].ino # 0 =>
            i["control"].ino # 0 /\ i["control"].ino < i["adapter"].ino
      BY <1>3, <2>1, <2>12, <2>24, <2>25 DEF Artifacts
    <3> QED
      BY <2>16, <2>18, <3>2, <3>3, <3>4, <3>5 DEF RestoreOrder
  <2>27. Current(p)' = a
    BY <1>3, <2>1, <2>16, <2>18, <2>24 DEF Current, Artifacts
  <2>28. ~disk["audit"].torn
    BY <1>1 DEF ServiceInvariant, ProcHeld, BuildingHeld
  <2>29. BuildingHeld(p)'
    <3>1. marker = NoMarker /\ disk["control"].by \subseteq {proc[p].cfg}
      BY <1>1 DEF ServiceInvariant, ProcHeld, BuildingHeld
    <3>2. disk'["control"].by \subseteq {proc[p].cfg}
      BY <2>5, <2>7, <3>1 DEF Created, Artifacts
    <3>3. disk'["audit"].torn => a = "audit"
      BY <2>7, <2>28 DEF Created, Artifacts
    <3>4. disk'[a].torn /\ disk'[a].ino = i[a].ino
      BY <2>5, <2>7, <2>24
    <3> QED
      BY <1>1, <2>10, <2>16, <2>18, <2>27, <3>1, <3>2, <3>3, <3>4 DEF BuildingHeld
  <2>30. ProcHeld(p)'
    BY <2>21, <2>22, <2>23, <2>26, <2>29 DEF ProcHeld
  <2>31. AloneHeld'
    BY <1>1, <2>16, <2>18, AloneKept
  <2>32. NewTornAside(p)
    <3> SUFFICES ASSUME NEW s \in Stores, disk'[s].torn
                 PROVE  proc'[p].ids[s].id # disk'[s].id
      BY <2>16, <2>18 DEF NewTornAside
    <3>1. CASE s = a
      <4>1. i[a].id <= inodes /\ i[a].id \in Int
        BY <2>1, <2>8, <2>9, <2>12
      <4>2. disk'[a].id = inodes + 1
        BY <2>7 DEF Created
      <4> QED
        BY <2>1, <2>16, <2>18, <3>1, <4>1, <4>2
    <3>2. CASE s # a
      <4>1. disk'[s] = disk[s] /\ proc'[p].ids[s] = proc[p].ids[s]
        BY <2>7, <2>10, <2>12, <2>16, <2>18, <3>2 DEF Created, Stores, Artifacts
      <4> QED
        BY <4>1 DEF ServiceInvariant, TornUnknown
    <3> QED
      BY <3>1, <3>2
  <2>33. proc'[p].at \notin Closing \cup Working
    BY <2>16, <2>18 DEF Closing, Working
  <2>34. \A q \in Procs \ {p} : proc[q].role \notin {"init", "restore"}
    BY <1>1 DEF ServiceInvariant, AloneHeld
  <2>35. \A q \in Procs : proc'[q].at \notin Closing
    <3>1. \A q \in Procs : proc[q].at \in Closing => proc[q].role \in {"init", "restore"}
      BY DEF ServiceInvariant, ProcHeld, PlaceHeld, Closing
    <3> QED
      BY <2>18, <2>33, <2>34, <3>1 DEF Others
  <2>36. CreatedQuietly(p, a)
    BY <2>34, <2>35 DEF CreatedQuietly
  <2> QED
    BY <1>1, <2>7, <2>18, <2>19, <2>20, <2>30, <2>31, <2>32, <2>33, <2>36, CreatedStep
<1> QED
  BY <1>1, <1>2, <1>5, <1>6, <1>7, <1>8, Zenon DEF RestoreCopies

\* The file a restore writes is the one it created last.
LastOf(p) == CHOOSE b \in Started(p) :
               \A c \in Started(p) : proc[p].ids[c].ino <= proc[p].ids[b].ino

\* A restore that is writing has a last file, which is the current one.
LEMMA LastStarted ==
  ASSUME ServiceInvariant, NEW p \in Procs, proc[p].role = "restore", proc[p].at = "write"
  PROVE  /\ Current(p) \in Started(p) /\ Current(p) \in Artifacts
         /\ Current(p) = LastOf(p)
<1> DEFINE n(c) == proc[p].ids[c].ino
           last(b) == \A c \in Started(p) : n(c) <= n(b)
<1>1. \A c \in Artifacts : n(c) \in Nat /\ (c \in Started(p) <=> n(c) # 0)
  BY DEF ServiceInvariant, ProcHeld, IdsNumbered, Numbered, Typed, Started
<1>2. /\ n("audit") # 0
      /\ n("control") # 0 => n("audit") < n("control")
      /\ n("adapter") # 0 => n("control") # 0 /\ n("control") < n("adapter")
  BY DEF ServiceInvariant, ProcHeld, RestoreOrder
<1>3. Current(p) = IF n("adapter") # 0 THEN "adapter"
                   ELSE IF n("control") # 0 THEN "control" ELSE "audit"
  BY DEF Current
<1> HIDE DEF n
<1>4. Current(p) \in Started(p) /\ Current(p) \in Artifacts
  BY <1>1, <1>2, <1>3 DEF Artifacts
<1>5. \A c \in Started(p) \ {Current(p)} : n(c) < n(Current(p))
  <2>1. Started(p) \subseteq {"audit", "control", "adapter"}
    BY DEF Started, Artifacts
  <2> QED
    BY <1>1, <1>2, <1>3, <2>1 DEF Artifacts
<1>6. last(Current(p)) /\ \A b \in Started(p) : last(b) => b = Current(p)
  <2>1. Started(p) \subseteq Artifacts
    BY DEF Started
  <2> QED
    BY <1>1, <1>4, <1>5, <2>1
<1>7. Current(p) = CHOOSE b \in Started(p) : last(b)
  BY <1>4, <1>6
<1> QED
  BY <1>4, <1>7 DEF n, LastOf

\* What writing a file completes.
LEMMA RestoreTold ==
  ASSUME ServiceInvariant, NEW p \in Procs, RestoreWrites(p), NEW a, a = Current(p)
  PROVE  /\ proc[p].role = "restore" /\ proc[p].at = "write" /\ a \in Artifacts
         /\ marker = NoMarker
         /\ disk' \in [Artifacts -> Files]
         /\ \A b \in Artifacts : disk'[b].ino = disk[b].ino
         /\ \A b \in Artifacts \ {a} : disk'[b] = disk[b]
         /\ \/ disk'[a] = disk[a] /\ disk[a].ino # proc[p].ids[a].ino
            \/ disk'[a] = proc[p].ids[a] /\ disk[a].torn
         /\ ~proc[p].ids[a].torn /\ proc[p].ids[a].open = {} /\ Numbered(proc[p].ids[a])
         /\ a = "control" => proc[p].ids[a].by \subseteq {proc[p].cfg}
<1>1. proc[p].at = "write" /\ proc[p].role = "restore"
  BY DEF RestoreWrites, ServiceInvariant, ProcHeld, PlaceHeld
<1>2. a \in Artifacts /\ a \in Started(p) /\ a = LastOf(p)
  BY <1>1, LastStarted
<1>3. disk' = IF disk[a].ino = proc[p].ids[a].ino
              THEN [disk EXCEPT ![a] = proc[p].ids[a]] ELSE disk
  <2>1. LET l == LastOf(p) IN
        disk' = IF disk[l].ino = proc[p].ids[l].ino
                THEN [disk EXCEPT ![l] = proc[p].ids[l]] ELSE disk
    BY Zenon DEF RestoreWrites, LastOf
  <2> QED
    BY <1>2, <2>1, Zenon
<1>4. PICK b : b = proc[p].from
  OBVIOUS
<1>5. PICK f : f = proc[p].ids[a]
  OBVIOUS
<1>6. b \in backups /\ b \in Copies /\ b.cfg = proc[p].cfg /\ Cut(b.files, b.cfg, b.owed)
  BY <1>1, <1>4 DEF ServiceInvariant, ProcHeld, PlaceHeld, Typed, BackupsHeld
<1>7. f \in Files /\ f.ino # 0 /\ Numbered(f)
  <2>1. f \in Files
    BY <1>2, <1>5 DEF ServiceInvariant, Typed, ProcRow
  <2>2. f.ino # 0
    BY <1>2, <1>5 DEF Started
  <2>3. Numbered(f)
    BY <1>2, <1>5 DEF ServiceInvariant, ProcHeld, IdsNumbered
  <2> QED
    BY <2>1, <2>2, <2>3
<1>8. ~f.torn /\ f.open = {} /\ f.by = b.files[a].by
  <2>1. b.files[a] \in Files
    BY <1>2, <1>6 DEF Copies
  <2>2. f = [b.files[a] EXCEPT !.ino = f.ino]
    BY <1>1, <1>2, <1>4, <1>5, <1>7 DEF ServiceInvariant, ProcHeld, RestoreOrder
  <2>3. f.torn = b.files[a].torn /\ f.open = b.files[a].open /\ f.by = b.files[a].by
    BY <2>1, <2>2 DEF Files
  <2>4. ~b.files[a].torn /\ b.files[a].open = {}
    BY <1>2, <1>6 DEF Cut
  <2> QED
    BY <2>3, <2>4
<1>9. a = "control" => f.by \subseteq {proc[p].cfg}
  BY <1>6, <1>8 DEF Cut
<1>10. marker = NoMarker /\ (disk[a].ino = f.ino => disk[a].torn)
  BY <1>1, <1>5 DEF ServiceInvariant, ProcHeld, BuildingHeld
<1>11. CASE disk[a].ino = f.ino
  <2>1. disk' = [disk EXCEPT ![a] = f]
    BY <1>3, <1>5, <1>11
  <2>2. disk' \in [Artifacts -> Files] /\ disk'[a] = f
        /\ \A c \in Artifacts \ {a} : disk'[c] = disk[c]
    BY <1>2, <1>7, <2>1 DEF ServiceInvariant, Typed
  <2> QED
    BY <1>1, <1>2, <1>5, <1>7, <1>8, <1>9, <1>10, <1>11, <2>2
<1>12. CASE disk[a].ino # f.ino
  <2>1. disk' = disk
    BY <1>3, <1>5, <1>12
  <2> QED
    BY <1>1, <1>2, <1>5, <1>7, <1>8, <1>9, <1>10, <1>12, <2>1 DEF ServiceInvariant, Typed
<1> QED
  BY <1>11, <1>12

\* Nobody else has a file that a restore is still writing.
LEMMA OthersRestored ==
  ASSUME ServiceInvariant, NEW p \in Procs, RestoreWrites(p), NEW q \in Procs \ {p},
         proc'[q] = proc[q]
  PROVE  ProcHeld(q)'
<1>1. PICK a : a = Current(p)
  OBVIOUS
<1>2. /\ a \in Artifacts /\ marker' = NoMarker /\ inodes' = inodes /\ backups' = backups
      /\ marker' = marker
      /\ \A b \in Artifacts : disk'[b].ino = disk[b].ino
      /\ \A b \in Artifacts : disk'[b] = disk[b] \/ disk[b].torn
  <2>1. marker' = marker /\ inodes' = inodes /\ backups' = backups
    BY Zenon DEF RestoreWrites
  <2> QED
    BY <1>1, <2>1, RestoreTold
<1>3. proc[q].role \notin {"init", "restore"}
  BY RestoreTold DEF ServiceInvariant, AloneHeld
<1>4. PlaceHeld(q)' /\ OpenedHeld(q)' /\ RestoreOrder(q)'
  BY <1>2, EachHeld, RowStays
<1>5. IdsNumbered(q)'
  BY <1>2, EachHeld, NamesStay
<1>6. MarkHeld(q)' /\ BoundHeld(q)'
  BY <1>2 DEF ServiceInvariant, ProcHeld, MarkHeld, BoundHeld, Artifacts
<1>7. proc[q].at \notin Closing \cup {"write"}
  BY <1>3 DEF ServiceInvariant, ProcHeld, PlaceHeld, Closing
<1>8. BuildingHeld(q)' /\ ClosingHeld(q)'
  BY <1>3, <1>7 DEF BuildingHeld, ClosingHeld
<1>9. WorkHeld(q)'
  BY <1>2 DEF WorkHeld, SetBound
<1>10. CutHeld(q)'
  <2>1. Copied(q)' = Copied(q)
    BY DEF Copied
  <2>2. Copying(q) => \A b \in Artifacts : Good(q, b) => ~Seen(q, b).torn
    BY DEF ServiceInvariant, ProcHeld, CutHeld, Copying
  <2>3. Copying(q) => \A b \in Artifacts : Good(q, b)' => /\ Good(q, b)
                                                          /\ Seen(q, b)' = Seen(q, b)
    BY <1>2, <2>1, <2>2 DEF Good, Seen
  <2> QED
    <3>1. CutHeld(q)
      BY EachHeld
    <3> QED
      BY <2>3, <3>1 DEF CutHeld, Cut, Artifacts, Copying
<1> QED
  BY <1>4, <1>5, <1>6, <1>8, <1>9, <1>10 DEF ProcHeld

\* A restore completes the file it created.
LEMMA RestoreWritesStep ==
  ASSUME ServiceInvariant, NEW p \in Procs, RestoreWrites(p)
  PROVE  ServiceInvariant'
<1>1. PICK a : a = Current(p)
  OBVIOUS
<1>2. PICK s : s = IF a = "adapter" THEN "opening" ELSE "copy"
  OBVIOUS
<1>3. /\ marker' = marker /\ lock' = lock /\ inodes' = inodes
      /\ UNCHANGED <<backups, answered>> /\ UNCHANGED secrets
      /\ Go(p, s)
  <2>1. proc[p].at = "write" /\ proc[p].role = "restore"
    BY DEF RestoreWrites, ServiceInvariant, ProcHeld, PlaceHeld
  <2>2. a = LastOf(p)
    BY <1>1, <2>1, LastStarted
  <2> QED
    BY <1>2, <2>2, Zenon DEF RestoreWrites, LastOf
<1>4. /\ proc[p].role = "restore" /\ proc[p].at = "write" /\ a \in Artifacts
      /\ marker = NoMarker
      /\ disk' \in [Artifacts -> Files]
      /\ \A b \in Artifacts : disk'[b].ino = disk[b].ino
      /\ \A b \in Artifacts \ {a} : disk'[b] = disk[b]
      /\ \/ disk'[a] = disk[a] /\ disk[a].ino # proc[p].ids[a].ino
         \/ disk'[a] = proc[p].ids[a] /\ disk[a].torn
      /\ ~proc[p].ids[a].torn /\ proc[p].ids[a].open = {} /\ Numbered(proc[p].ids[a])
      /\ a = "control" => proc[p].ids[a].by \subseteq {proc[p].cfg}
  BY <1>1, RestoreTold
<1>5. s \in Places /\ s \in {"opening", "copy"} /\ (s = "copy" => a # "adapter")
  BY <1>2 DEF Places, Entering
<1>6. /\ proc' \in [Procs -> ProcRow] /\ Others(p) /\ Keeps(p) /\ proc'[p].at = s
  BY <1>3, <1>5, GoTold DEF ServiceInvariant
<1>7. Typed'
  BY <1>3, <1>4, <1>6 DEF ServiceInvariant, Typed, secrets
<1>8. LockMoves(p)
  <2>1. lock # p
    BY <1>4, OutsideUnlocked DEF InSection, Copying, Inside, Artifacts
  <2> QED
    BY <1>3, <1>4, <1>5, <1>6, <2>1 DEF LockMoves, InSection, Copying, Inside, Artifacts,
       Keeps
<1>9. LockHeld' /\ AloneHeld'
  BY <1>6, <1>8, LockKept, AloneKept DEF Keeps
<1>10. proc'[p].role = "restore" /\ proc'[p].at \in {"opening", "copy"}
  BY <1>4, <1>5, <1>6 DEF Keeps
<1>11. PlaceHeld(p)'
  BY <1>3, <1>4, <1>6, <1>10 DEF ServiceInvariant, ProcHeld, PlaceHeld, Keeps, Serving,
     Calling, Working
<1>12. IdsNumbered(p)'
  BY <1>3, <1>6, <1>10 DEF ServiceInvariant, ProcHeld, IdsNumbered, Numbered, Keeps
<1>13. OpenedHeld(p)' /\ MarkHeld(p)' /\ BoundHeld(p)' /\ ClosingHeld(p)' /\ WorkHeld(p)'
       /\ CutHeld(p)'
  BY <1>10 DEF OpenedHeld, MarkHeld, BoundHeld, ClosingHeld, WorkHeld, CutHeld,
     Copying, Verified, Closing, Serving, Calling, Working
<1>14. RestoreOrder(p)'
  <2>1. s = "copy" => proc[p].ids["adapter"].ino = 0
    BY <1>1, <1>5 DEF Current
  <2>2. proc[p].from = proc'[p].from /\ proc'[p].ids = proc[p].ids
    BY <1>6 DEF Keeps
  <2> QED
    <3>1. RestoreOrder(p) /\ proc[p].role = "restore"
      BY <1>4, EachHeld
    <3>2. proc[p].ids["audit"].ino # 0 /\ proc[p].at = "write"
      BY <1>4, <3>1 DEF RestoreOrder
    <3>3. proc'[p].role = "restore" /\ proc'[p].at = s /\ s # "write"
      BY <1>4, <1>5, <1>6 DEF Keeps
    <3> QED
      BY <2>1, <2>2, <3>1, <3>2, <3>3 DEF RestoreOrder
<1>15. BuildingHeld(p)'
  <2>1. disk["control"].by \subseteq {proc[p].cfg}
    BY <1>4 DEF ServiceInvariant, ProcHeld, BuildingHeld
  <2>2. disk'["control"].by \subseteq {proc[p].cfg}
    BY <1>4, <2>1 DEF Artifacts
  <2>3. disk["audit"].torn => /\ a = "audit"
                              /\ disk["audit"].ino = proc[p].ids["audit"].ino
    BY <1>1, <1>4 DEF ServiceInvariant, ProcHeld, BuildingHeld
  <2>4. ~disk'["audit"].torn
    BY <1>4, <2>3 DEF Artifacts
  <2> QED
    BY <1>3, <1>4, <1>6, <1>10, <2>2, <2>4 DEF BuildingHeld, Keeps
<1>16. ProcHeld(p)'
  BY <1>11, <1>12, <1>13, <1>14, <1>15 DEF ProcHeld
<1>17. \A q \in Procs : ProcHeld(q)'
  BY <1>6, <1>16, OthersRestored DEF Others
<1>18. FilesNumbered'
  <2>1. \A b \in Artifacts : disk'[b] = disk[b] \/ (b = a /\ disk'[b] = proc[p].ids[a])
    BY <1>4
  <2> QED
    BY <1>3, <1>4, <2>1 DEF ServiceInvariant, FilesNumbered, Numbered
<1>19. NoMarker \notin Markers
  BY DEF NoMarker, Markers
<1>20. MarkedHeld'
  BY <1>3, <1>4, <1>19 DEF MarkedHeld, SetBound
<1>21. AnswersHeld'
  BY <1>3, <1>4, <1>19 DEF ServiceInvariant, AnswersHeld, Artifacts
<1>22. AdapterHeld' /\ BackupsHeld'
  BY <1>3, <1>4 DEF ServiceInvariant, AdapterHeld, BackupsHeld, Cut, Artifacts
<1>23. ApartHeld'
  <2>1. \A q \in Procs : proc[q].at \in Closing => proc[q].role \in {"init", "restore"}
    BY DEF ServiceInvariant, ProcHeld, PlaceHeld, Closing
  <2>2. \A q \in Procs \ {p} : proc[q].role \notin {"init", "restore"}
    BY <1>4 DEF ServiceInvariant, AloneHeld
  <2>3. \A q \in Procs : proc'[q].at \notin Closing
    BY <1>6, <1>10, <2>1, <2>2 DEF Others, Closing
  <2> QED
    BY <2>3 DEF ApartHeld
<1>24. ASSUME NEW s1 \in Stores
       PROVE  TornUnknown(s1)'
  <2> SUFFICES ASSUME disk'[s1].torn
               PROVE  TornUnknown(s1)'
    BY DEF TornUnknown
  <2>1. disk'[s1] = disk[s1]
    BY <1>4 DEF Stores, Artifacts
  <2>2. TornUnknown(s1)
    BY DEF ServiceInvariant
  <2>3. \A q \in Procs : proc'[q].ids[s1].id # disk[s1].id
    BY <1>6, <2>1, <2>2 DEF TornUnknown, Others, Keeps
  <2>4. ASSUME NEW q \in Procs, proc'[q].role = "backup",
               proc'[q].at \in {"copy", "rename"}
        PROVE  proc'[q].copy.files[s1].id # disk[s1].id
    <3>1. proc'[q] = proc[q]
      BY <1>6, <1>10, <2>4 DEF Others
    <3> QED
      BY <2>1, <2>2, <2>4, <3>1 DEF TornUnknown
  <2>5. backups' = backups
    BY <1>3
  <2> QED
    BY <1>3, <2>1, <2>2, <2>3, <2>4, <2>5 DEF TornUnknown
<1> QED
  BY <1>7, <1>9, <1>17, <1>18, <1>20, <1>21, <1>22, <1>23, <1>24 DEF ServiceInvariant

-----------------------------------------------------------------------------
(* The invariant holds.                                                    *)

\* A new directory is empty, and nobody is at work.
LEMMA InitHolds == Init => ServiceInvariant
<1> SUFFICES ASSUME Init
             PROVE  ServiceInvariant
  OBVIOUS
<1>1. /\ disk = [a \in Artifacts |-> Absent] /\ marker = NoMarker /\ lock = None
      /\ proc = [p \in Procs |-> Off] /\ backups = {} /\ answered = {} /\ inodes = 0
  BY DEF Init
<1>2. \A p \in Procs : proc[p] = Off
  BY <1>1
<1>3. \A a \in Artifacts : disk[a] = Absent
  BY <1>1
<1>4. NoMarker \notin Markers
  BY DEF NoMarker, Markers
<1>5. Typed
  <2>1. PICK v \in Values : v = CHOOSE w \in Values : TRUE
    BY ServiceAssumption
  <2>2. projected \in Configurations
    BY <2>1 DEF Init, Configurations
  <2>3. staged \in [Names -> Values \cup {None}] /\ stager = None
    BY DEF Init
  <2>4. disk \in [Artifacts -> Files]
    BY <1>1, AbsentTyped
  <2>5. proc \in [Procs -> ProcRow]
    BY <1>1, OffTyped
  <2> QED
    BY <1>1, <2>2, <2>3, <2>4, <2>5 DEF Typed
<1>6. \A p \in Procs : proc[p].at = "off" /\ proc[p].role = None
  BY <1>2 DEF Off
<1>7. LockHeld
  BY <1>1, <1>6, ServiceAssumption DEF LockHeld, InSection, Copying, Inside, Artifacts
<1>8. AloneHeld /\ ApartHeld
  BY <1>6, ServiceAssumption DEF AloneHeld, ApartHeld, Closing, Roles
<1>9. FilesNumbered
  BY <1>1, <1>3, <1>4 DEF FilesNumbered, Numbered, Absent, NoMarker
<1>10. MarkedHeld
  <2>1. ~SetBound
    BY <1>1 DEF SetBound
  <2> QED
    BY <1>1, <1>4, <2>1 DEF MarkedHeld
<1>11. AnswersHeld /\ AdapterHeld /\ BackupsHeld
  BY <1>1, <1>3 DEF AnswersHeld, AdapterHeld, BackupsHeld, Absent, Artifacts
<1>12. \A s \in Stores : TornUnknown(s)
  <2>1. \A s \in Stores : ~disk[s].torn
    BY <1>3 DEF Absent, Stores, Artifacts
  <2> QED
    BY <2>1 DEF TornUnknown
<1>13. ASSUME NEW p \in Procs
       PROVE  ProcHeld(p)
  <2>1. /\ proc[p].at = "off" /\ proc[p].role = None /\ proc[p].mark = NoMarker
        /\ proc[p].ids = [a \in Artifacts |-> Absent]
    BY <1>2 DEF Off
  <2>2. proc[p].role \notin Roles
    BY <2>1, ServiceAssumption
  <2>3. PlaceHeld(p)
    BY <2>1, <2>2 DEF PlaceHeld, Serving, Calling, Working, Roles
  <2>4. \A a \in Artifacts : Numbered(proc[p].ids[a])
    <3>1. \A a \in Artifacts : proc[p].ids[a] = Absent
      BY <2>1
    <3> QED
      BY <1>1, <3>1 DEF Numbered, Absent
  <2>5. IdsNumbered(p)
    BY <1>1, <2>1, <2>4 DEF IdsNumbered, NoMarker
  <2>6. OpenedHeld(p) /\ RestoreOrder(p)
    BY <2>1 DEF OpenedHeld, RestoreOrder, Closing, Serving, Calling, Working
  <2>7. MarkHeld(p) /\ BoundHeld(p)
    BY <2>1, <2>2 DEF MarkHeld, BoundHeld, Verified, Serving, Calling, Working, Roles
  <2>8. BuildingHeld(p) /\ ClosingHeld(p) /\ WorkHeld(p) /\ CutHeld(p)
    BY <2>1, <2>2 DEF BuildingHeld, ClosingHeld, WorkHeld, CutHeld, Closing, Working, Roles
  <2> QED
    BY <2>3, <2>5, <2>6, <2>7, <2>8 DEF ProcHeld
<1> QED
  BY <1>5, <1>7, <1>8, <1>9, <1>10, <1>11, <1>12, <1>13 DEF ServiceInvariant

\* Every step keeps the invariant.
LEMMA NextHolds == ServiceInvariant /\ [Next]_vars => ServiceInvariant'
<1> SUFFICES ASSUME ServiceInvariant, [Next]_vars
             PROVE  ServiceInvariant'
  OBVIOUS
<1>1. CASE UNCHANGED vars
  BY <1>1, SecretsStep DEF vars, counters, secrets
<1>2. CASE StageBegin
  BY <1>2, SecretsStep DEF StageBegin
<1>3. ASSUME NEW n \in Names, StageOne(n)
      PROVE  ServiceInvariant'
  <2>1. UNCHANGED <<disk, marker, lock, proc, backups, answered, inodes>>
    BY <1>3 DEF StageOne
  <2> QED
    BY <1>3, <2>1, SecretsStep
<1>4. CASE StageDies
  BY <1>4, SecretsStep DEF StageDies
<1>5. CASE Rotate
  <2>1. UNCHANGED <<disk, marker, lock, proc, backups, answered, inodes>>
    BY <1>5 DEF Rotate
  <2> QED
    BY <1>5, <2>1, SecretsStep
<1>6. ASSUME NEW p \in Procs, NEW role \in Roles, Begin(p, role)
      PROVE  ServiceInvariant'
  BY <1>6, BeginStep
<1>7. ASSUME NEW p \in Procs, Preflight(p)
      PROVE  ServiceInvariant'
  BY <1>7, PreflightStep
<1>8. ASSUME NEW p \in Procs, NEW a \in Artifacts, OpenArtifact(p, a)
      PROVE  ServiceInvariant'
  BY <1>8, OpenStep
<1>9. ASSUME NEW p \in Procs, Busy(p) \/ Ready(p) \/ Identify(p) \/ Mark(p) \/ Verify(p)
      PROVE  ServiceInvariant'
  BY <1>9, BusyStep, ReadyStep, IdentifyStep, MarkStep, VerifyStep
<1>10. ASSUME NEW p \in Procs, NEW r \in Requests, Submit(p, r) \/ Reconcile(p, r)
       PROVE  ServiceInvariant'
  BY <1>10, SubmitStep, ReconcileStep
<1>11. ASSUME NEW p \in Procs, Look(p) \/ Enter(p) \/ Stop(p)
       PROVE  ServiceInvariant'
  BY <1>11, LookStep, EnterStep, StopStep
<1>12. ASSUME NEW p \in Procs,
              Receive(p) \/ Claim(p) \/ Act(p) \/ Final(p) \/ Close(p)
       PROVE  ServiceInvariant'
  BY <1>12, ReceiveStep, ClaimStep, ActStep, FinalStep, CloseStep
<1>13. ASSUME NEW p \in Procs, BackupBegins(p) \/ BackupCopies(p) \/ BackupCommits(p)
       PROVE  ServiceInvariant'
  BY <1>13, BackupBeginsStep, BackupCopiesStep, BackupCommitsStep
<1>14. ASSUME NEW p \in Procs, RestoreCopies(p) \/ RestoreWrites(p) \/ Crash(p)
       PROVE  ServiceInvariant'
  BY <1>14, RestoreCopiesStep, RestoreWritesStep, CrashStep
<1>15. ASSUME NEW gone \in SUBSET Artifacts, Lose(gone)
       PROVE  ServiceInvariant'
  BY <1>15, LoseStep
<1> QED
  BY <1>1, <1>2, <1>3, <1>4, <1>5, <1>6, <1>7, <1>8, <1>9, <1>10, <1>11, <1>12, <1>13,
     <1>14, <1>15 DEF Next

\* In every reachable state.
THEOREM ServiceHeld == Spec => []ServiceInvariant
BY InitHolds, NextHolds, PTL DEF Spec

-----------------------------------------------------------------------------
(* What the runs check, for every value of the constants.                  *)

\* The directory has its types, and the startup and audit locks are held by a process
\* inside a section they protect and by no other: every way out of a call, a start and
\* a copy releases them (engine.py _exclusive_audit_execution, service_backup.py
\* create_cold_backup).
THEOREM ServiceTypes == Spec => []ServiceTypeOK
<1>1. ServiceInvariant => ServiceTypeOK
  BY DEF ServiceInvariant, ServiceTypeOK, Typed, LockHeld, InSection, Copying
<1> QED
  BY <1>1, ServiceHeld, PTL

\* Whatever initializers, restores, servers, crashes and lost files went before, what
\* the marker binds is one state, made under the secrets it names (service.py
\* _verify_marker, engine.py _open_durable_state).
THEOREM BoundSetsAreOneState == Spec => []BoundSetIsOneState
<1>1. ServiceInvariant => BoundSetIsOneState
  <2> SUFFICES ASSUME ServiceInvariant, SetBound
               PROVE  /\ \A s \in Stores : ~disk[s].torn
                      /\ Claims \subseteq disk["audit"].open \cup disk["audit"].done
                      /\ disk["control"].done \subseteq disk["audit"].done
                      /\ disk["adapter"].done \subseteq Claims
                      /\ disk["control"].by \subseteq {marker.cfg}
    BY DEF BoundSetIsOneState
  <2>1. marker \in Markers
    BY DEF ServiceInvariant, Typed, SetBound
  <2>2. \A s \in Stores : ~disk[s].torn
    BY <2>1 DEF ServiceInvariant, TornUnknown, SetBound, Stores
  <2> QED
    BY <2>2, MarkedState DEF OneState
<1> QED
  BY <1>1, ServiceHeld, PTL

\* A committed backup is one cut of the three files with nothing left open, and holds
\* every result answered before it began (service_backup.py create_cold_backup).
THEOREM BackupsAreOneCut == Spec => []BackupIsOneCut
<1>1. ServiceInvariant => BackupIsOneCut
  BY DEF ServiceInvariant, BackupsHeld, Cut, BackupIsOneCut
<1> QED
  BY <1>1, ServiceHeld, PTL

\* A result answered with 200 stays in the state it was answered from as long as the
\* marker binds that state (service.py DecisionFirewallService.__call__).
THEOREM AnswersRemain == Spec => []AnswersStay
<1>1. ServiceInvariant => AnswersStay
  BY DEF ServiceInvariant, AnswersHeld, AnswersStay
<1> QED
  BY <1>1, ServiceHeld, PTL
=============================================================================

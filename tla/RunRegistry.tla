----------------------------- MODULE RunRegistry -----------------------------
(***************************************************************************)
(* One training run record (training/run_registry.py) and the CLI commands *)
(* that change it: training-run-update, training-run-list (which           *)
(* reconciles a running record whose process is gone) and                  *)
(* dataset-version-create --stamp-run.  Each loads the record, decides,    *)
(* and saves it through a temporary file of a fixed name; no lock orders   *)
(* them.                                                                   *)
(*                                                                         *)
(* A process that opened the temporary file keeps writing to the same file *)
(* when another process has renamed it to the record meanwhile.            *)
(***************************************************************************)
EXTENDS Naturals

CONSTANTS
  Procs,     \* the processes running commands
  Snapshots, \* the dataset versions a record can be stamped with
  Commands,  \* the commands the processes run
  MaxFaults, \* bound: crashes and failing writes
  Torn,      \* the contents of a file that is not a whole record
  None       \* no file, no snapshot, nothing read

\* "succeeded" stands for "failed" and "cancelled" too: nothing here tells the
\* three apart.
RUN_STATUSES == {"prepared", "running", "succeeded", "interrupted"}
TERMINAL_STATUSES == {"succeeded", "interrupted"}

TrainingRunRecord == [status : RUN_STATUSES, source_snapshot_id : Snapshots \cup {None}]

Record(status, snapshot) == [status |-> status, source_snapshot_id |-> snapshot]

RunRegistryAssumption ==
  /\ Commands \subseteq {"update", "list", "stamp"}
  /\ MaxFaults \in Nat
  /\ None \notin Snapshots \cup {Torn, "tmp", "record", "unnamed"}
  /\ Torn \notin TrainingRunRecord /\ None \notin TrainingRunRecord

VARIABLES
  record, \* <run id>.json: a record, or Torn
  tmp,    \* <run id>.json.tmp: a record, Torn, or None when there is none
  alive,  \* the trainer process runs
  pc,     \* per process: where it is in its command
  loaded, \* per process: the record it loaded or is about to save, or None
  fd,     \* per process: which file it has open for writing: "tmp", "record",
          \* "unnamed" (a former record), or None
  faults, \* crashes and failing writes so far
  overlap \* two commands have been under way at once (history)

vars == <<record, tmp, alive, pc, loaded, fd, faults, overlap>>

Goto(p, label) == pc' = [pc EXCEPT ![p] = label]

\* The command of p ends, by itself, by an exception or by a crash.
Leave(p) ==
  /\ Goto(p, "idle")
  /\ loaded' = [loaded EXCEPT ![p] = None]
  /\ fd' = [fd EXCEPT ![p] = None]

Fault == faults < MaxFaults /\ faults' = faults + 1

-----------------------------------------------------------------------------
Init ==
  /\ record \in [status : {"prepared", "running"}, source_snapshot_id : {None}]
  /\ tmp = None
  /\ alive = TRUE
  /\ pc = [p \in Procs |-> "idle"]
  /\ loaded = [p \in Procs |-> None]
  /\ fd = [p \in Procs |-> None]
  /\ faults = 0 /\ overlap = FALSE

\* The trainer, which the desktop owns, ends.
TrainerEnds ==
  /\ alive /\ alive' = FALSE
  /\ UNCHANGED <<record, tmp, pc, loaded, fd, faults, overlap>>

\* load_run_record: a torn file is an error, or skipped by the listing.
Load(p, command) ==
  /\ pc[p] = "idle" /\ record # Torn
  /\ loaded' = [loaded EXCEPT ![p] = record]
  /\ overlap' = (overlap \/ \E q \in Procs : pc[q] # "idle")
  /\ Goto(p, command)
  /\ UNCHANGED <<record, tmp, alive, fd, faults>>

\* Faulty variant: any known status may follow any other.
AnyTransition(old, new) == new \in RUN_STATUSES

\* What validate_transition accepts.
ValidTransition(old, new) ==
  /\ new \in RUN_STATUSES
  /\ old \in TERMINAL_STATUSES => new = old

\* training-run-update: a status, or only other fields.
Update(p) ==
  /\ pc[p] = "update"
  /\ \E status \in RUN_STATUSES :
       /\ ValidTransition(loaded[p].status, status)
       /\ loaded' = [loaded EXCEPT ![p] = Record(status, loaded[p].source_snapshot_id)]
  /\ Goto(p, "save")
  /\ UNCHANGED <<record, tmp, alive, fd, faults, overlap>>

UpdateRefused(p) ==
  /\ pc[p] = "update"
  /\ \E status \in RUN_STATUSES : ~ValidTransition(loaded[p].status, status)
  /\ Leave(p)
  /\ UNCHANGED <<record, tmp, alive, faults, overlap>>

\* reconcile_running_records: running, and its process is gone.
Reconcile(p) ==
  /\ pc[p] = "list"
  /\ loaded[p].status = "running" /\ ~alive
  /\ loaded' = [loaded EXCEPT ![p] = Record("interrupted", loaded[p].source_snapshot_id)]
  /\ Goto(p, "save")
  /\ UNCHANGED <<record, tmp, alive, fd, faults, overlap>>

NothingToReconcile(p) ==
  /\ pc[p] = "list"
  /\ loaded[p].status # "running" \/ alive
  /\ Leave(p)
  /\ UNCHANGED <<record, tmp, alive, faults, overlap>>

\* --stamp-run: the record was loaded before the version is published, which
\* waits for the version-store lock.
Stamp(p) ==
  /\ pc[p] = "stamp"
  /\ \E v \in Snapshots : loaded' = [loaded EXCEPT ![p] = Record(loaded[p].status, v)]
  /\ Goto(p, "save")
  /\ UNCHANGED <<record, tmp, alive, fd, faults, overlap>>

\* The version could not be published: the run is left alone.
StampAbandoned(p) ==
  /\ pc[p] = "stamp"
  /\ Leave(p)
  /\ UNCHANGED <<record, tmp, alive, faults, overlap>>

-----------------------------------------------------------------------------
(* save_run_record *)

\* write_text opens the temporary file: one that is there is truncated.
OpenTmp(p) ==
  /\ pc[p] = "save"
  /\ tmp' = Torn
  /\ fd' = [fd EXCEPT ![p] = "tmp"]
  /\ Goto(p, "write")
  /\ UNCHANGED <<record, alive, loaded, faults, overlap>>

\* What a file can hold once r has been written from its start: the end of a
\* longer text that another process wrote there stays.
Overwritten(contents, r) == IF contents \in {Torn, r} THEN {r} ELSE {r, Torn}

WriteTmp(p) ==
  /\ pc[p] = "write"
  /\ CASE fd[p] = "tmp"    -> tmp' \in Overwritten(tmp, loaded[p]) /\ UNCHANGED record
       [] fd[p] = "record" -> record' \in Overwritten(record, loaded[p]) /\ UNCHANGED tmp
       [] OTHER            -> UNCHANGED <<record, tmp>>
  /\ Goto(p, "replace")
  /\ UNCHANGED <<alive, loaded, fd, faults, overlap>>

\* Faulty variant: a failing write is ignored and the file is renamed.
WriteErrorIgnored(p) ==
  /\ pc[p] = "write"
  /\ Fault
  /\ Goto(p, "replace")
  /\ UNCHANGED <<record, tmp, alive, loaded, fd, overlap>>

\* The disk is full: the exception leaves the temporary file behind.
WriteError(p) ==
  /\ pc[p] = "write"
  /\ Fault
  /\ Leave(p)
  /\ UNCHANGED <<record, tmp, alive, overlap>>

\* The file behind an open handle once the temporary file has become the record.
Renamed(f) ==
  CASE f = "tmp" -> "record" [] f = "record" -> "unnamed" [] OTHER -> f

\* os.replace: by name, whoever wrote the file of that name.
ReplaceRecord(p) ==
  /\ pc[p] = "replace" /\ tmp # None
  /\ record' = tmp /\ tmp' = None
  /\ fd' = [q \in Procs |-> IF q = p THEN None ELSE Renamed(fd[q])]
  /\ loaded' = [loaded EXCEPT ![p] = None]
  /\ Goto(p, "idle")
  /\ UNCHANGED <<alive, faults, overlap>>

\* Another process has renamed the temporary file: FileNotFoundError.
TmpGone(p) ==
  /\ pc[p] = "replace" /\ tmp = None
  /\ Leave(p)
  /\ UNCHANGED <<record, tmp, alive, faults, overlap>>

Crash(p) ==
  /\ pc[p] # "idle"
  /\ Fault
  /\ Leave(p)
  /\ UNCHANGED <<record, tmp, alive, overlap>>

-----------------------------------------------------------------------------
Running(p) ==
  \/ Update(p) \/ UpdateRefused(p)
  \/ Reconcile(p) \/ NothingToReconcile(p)
  \/ Stamp(p) \/ StampAbandoned(p)
  \/ OpenTmp(p) \/ WriteTmp(p) \/ WriteError(p)
  \/ ReplaceRecord(p) \/ TmpGone(p)

Next ==
  \/ TrainerEnds
  \/ \E p \in Procs :
       \/ \E command \in Commands : Load(p, command)
       \/ Running(p)
       \/ Crash(p)

Spec == Init /\ [][Next]_vars

-----------------------------------------------------------------------------
(* Properties *)

TypeOK ==
  /\ record \in TrainingRunRecord \cup {Torn}
  /\ tmp \in TrainingRunRecord \cup {Torn, None}
  /\ alive \in BOOLEAN
  /\ pc \in [Procs -> {"idle", "update", "list", "stamp", "save", "write", "replace"}]
  /\ loaded \in [Procs -> TrainingRunRecord \cup {None}]
  /\ fd \in [Procs -> {"tmp", "record", "unnamed", None}]
  /\ faults \in Nat /\ overlap \in BOOLEAN

Whole(r) == r # Torn
Ended(r) == Whole(r) /\ r.status \in TERMINAL_STATUSES

\* What validate_transition documents: only leaving a terminal state is
\* forbidden, so a run that was seen to have ended stays as it ended.
TerminalStays ==
  [][Ended(record) /\ Whole(record') => record'.status = record.status]_vars

\* As long as no two commands overlap, whatever crashes and failing writes leave
\* behind, a temporary file of an earlier save included: the record stays
\* readable, an ended run stays as it ended, and a back-link, once stamped, is
\* kept (save_run_record, validate_transition).
KeptUnlessOverlap ==
  [][~overlap' /\ Whole(record) =>
       /\ Whole(record')
       /\ Ended(record) => record'.status = record.status
       /\ record.source_snapshot_id # None => record'.source_snapshot_id # None]_vars
=============================================================================

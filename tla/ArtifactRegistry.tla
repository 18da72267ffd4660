--------------------------- MODULE ArtifactRegistry ---------------------------
(***************************************************************************)
(* One model artifact of a project (training/artifact_registry.py), the    *)
(* promote gate in front of "kept" (gates/runner.py) and the commands that *)
(* change the record: artifact-register and artifact-update.  Commands are *)
(* processes of their own and no lock orders them.  The weights and the    *)
(* evaluations linked to the source run change under them at any moment,   *)
(* so each reading finds any of their values.                              *)
(*                                                                         *)
(* Data: the weights at the artifact's path are one of Weights and their   *)
(* hash is themselves; nothing readable has neither hash nor fingerprint.  *)
(* save_artifact_record is save_run_record again: how two savers tear the  *)
(* temporary file they share is the subject of RunRegistry, here a save    *)
(* writes it in one step, or tears it when it fails.                       *)
(***************************************************************************)
EXTENDS Naturals

CONSTANTS
  Procs,     \* the processes running commands
  Weights,   \* possible weight bytes at the artifact's path
  MaxFaults, \* bound: crashes and failing writes
  Torn,      \* the contents of a file that is not a whole record
  None       \* no file, no bytes, nothing loaded

VARIABLES
  artifact,   \* artifact_registry/<id>.json
  draft,      \* its temporary file
  at,         \* per process: where it is in its command
  copy,       \* per process: the record it loaded or is about to save
  wanted,     \* per process: the status its command is to leave
  gated,      \* hashes for which a promote gate did not block (history)
  concurrent, \* two commands have been under way at once (history)
  mishaps     \* crashes and failing writes so far

vars == <<artifact, draft, at, copy, wanted, gated, concurrent, mishaps>>

ARTIFACT_STATUSES == {"candidate", "kept", "rejected"}

ModelArtifactRecord == [status : ARTIFACT_STATUSES, content_hash : Weights \cup {None}]

\* Both reports readable and of one metric, or not; the score held or dropped by more than
\* the tolerance; the after-report is known to be of the trained model, or not.
Comparisons == [reports : {"unlinked", "mixed", "held", "dropped"}, provenance_ok : BOOLEAN]

TypeOK ==
  /\ artifact \in ModelArtifactRecord \cup {None, Torn}
  /\ draft \in ModelArtifactRecord \cup {None, Torn}
  /\ at \in [Procs -> {"idle", "hash", "integrity", "gate", "reload", "write", "replace"}]
  /\ copy \in [Procs -> ModelArtifactRecord \cup {None}]
  /\ wanted \in [Procs -> ARTIFACT_STATUSES \cup {None}]
  /\ gated \subseteq Weights \cup {None}
  /\ concurrent \in BOOLEAN /\ mishaps \in Nat

Init ==
  /\ artifact = None /\ draft = None
  /\ at = [p \in Procs |-> "idle"]
  /\ copy = [p \in Procs |-> None]
  /\ wanted = [p \in Procs |-> None]
  /\ gated = {} /\ concurrent = FALSE /\ mishaps = 0

-----------------------------------------------------------------------------
(* Integrity and the promote gate *)

\* What compute_content_hash finds.
Found == Weights \cup {None}

\* artifact_content_integrity: a record without a hash falls back to a fingerprint it does
\* not have either, and that is no alarm.
ContentIntegrity(record, found) ==
  CASE found = None -> "missing"
    [] found # None /\ record.content_hash \in {found, None} -> "ok"
    [] OTHER -> "modified"

\* regression_gate: a drop blocks with or without provenance, what cannot be compared or
\* trusted only warns.
RegressionGate(c) ==
  CASE c = None \/ c.reports \in {"unlinked", "mixed"} -> "warn"
    [] c # None /\ c.reports = "dropped" -> "block"
    [] OTHER -> IF c.provenance_ok THEN "pass" ELSE "warn"

-----------------------------------------------------------------------------
Goto(p, label) == at' = [at EXCEPT ![p] = label]

Leave(p) ==
  /\ Goto(p, "idle")
  /\ copy' = [copy EXCEPT ![p] = None]
  /\ wanted' = [wanted EXCEPT ![p] = None]

\* A command of p starts with the record it loaded, if it loads one here.
Start(p, label, record, status) ==
  /\ at[p] = "idle"
  /\ Goto(p, label)
  /\ copy' = [copy EXCEPT ![p] = record]
  /\ wanted' = [wanted EXCEPT ![p] = status]
  /\ concurrent' = (concurrent \/ \E q \in Procs : at[q] # "idle")
  /\ UNCHANGED <<artifact, draft, gated, mishaps>>

Known == artifact \in ModelArtifactRecord

\* register_artifact for a run with a record: the decision of a readable record of the
\* same artifact is carried over, a torn one is replaced.
Register(p) == Start(p, "hash", None, IF Known THEN artifact.status ELSE "candidate")

Hash(p) ==
  /\ at[p] = "hash"
  /\ \E found \in Found :
       copy' = [copy EXCEPT ![p] = [status |-> wanted[p], content_hash |-> found]]
  /\ Goto(p, "write")
  /\ UNCHANGED <<artifact, draft, wanted, gated, concurrent, mishaps>>

\* artifact-update --status candidate or rejected: not gated.
Update(p) == artifact # None /\ \E s \in ARTIFACT_STATUSES \ {"kept"} : Start(p, "reload", None, s)

\* artifact-update --status kept: promote_artifact loads the record it will judge.
Promote(p) == Known /\ Start(p, "integrity", artifact, "kept")

Integrity(p) ==
  /\ at[p] = "integrity"
  /\ \E found \in Found :
       IF ContentIntegrity(copy[p], found) = "ok"
       THEN Goto(p, "gate") /\ UNCHANGED <<copy, wanted>>
       ELSE Leave(p)
  /\ UNCHANGED <<artifact, draft, gated, concurrent, mishaps>>

\* Then the source run and its reports are read; the worst of the two gates decides.
Gate(p) ==
  /\ at[p] = "gate"
  /\ \E c \in Comparisons \cup {None} :
       IF RegressionGate(c) = "block"
       THEN Leave(p) /\ UNCHANGED gated
       ELSE /\ gated' = gated \cup {copy[p].content_hash}
            /\ Goto(p, "reload") /\ UNCHANGED <<copy, wanted>>
  /\ UNCHANGED <<artifact, draft, concurrent, mishaps>>

\* Faulty variant: the hash is refreshed together with the status.
ReloadRefreshed(p) ==
  /\ at[p] = "reload" /\ Known
  /\ \E found \in Found :
       copy' = [copy EXCEPT ![p] = [status |-> wanted[p], content_hash |-> found]]
  /\ Goto(p, "write")
  /\ UNCHANGED <<artifact, draft, wanted, gated, concurrent, mishaps>>

\* update_artifact_status loads the record again and changes its status only.
Reload(p) ==
  /\ at[p] = "reload"
  /\ IF Known
     THEN /\ copy' = [copy EXCEPT ![p] = [artifact EXCEPT !.status = wanted[p]]]
          /\ Goto(p, "write") /\ UNCHANGED wanted
     ELSE Leave(p)
  /\ UNCHANGED <<artifact, draft, gated, concurrent, mishaps>>

\* save_artifact_record: the temporary file, then the rename.
Write(p) ==
  /\ at[p] = "write"
  /\ draft' = copy[p]
  /\ Goto(p, "replace")
  /\ UNCHANGED <<artifact, copy, wanted, gated, concurrent, mishaps>>

\* By name, whoever wrote it; FileNotFoundError when another process has renamed it.
Replace(p) ==
  /\ at[p] = "replace"
  /\ IF draft = None THEN UNCHANGED <<artifact, draft>> ELSE artifact' = draft /\ draft' = None
  /\ Leave(p)
  /\ UNCHANGED <<gated, concurrent, mishaps>>

\* The process dies or a write fails; a temporary file under way stays behind, torn.
Crash(p) ==
  /\ at[p] # "idle"
  /\ mishaps < MaxFaults /\ mishaps' = mishaps + 1
  /\ IF at[p] = "write" THEN draft' = Torn ELSE UNCHANGED draft
  /\ Leave(p)
  /\ UNCHANGED <<artifact, gated, concurrent>>

Next ==
  \E p \in Procs :
    \/ Register(p) \/ Hash(p) \/ Update(p)
    \/ Promote(p) \/ Integrity(p) \/ Gate(p) \/ Reload(p)
    \/ Write(p) \/ Replace(p) \/ Crash(p)

Spec == Init /\ [][Next]_vars

-----------------------------------------------------------------------------
(* Properties *)

IsKept(record) == record \in ModelArtifactRecord /\ record.status = "kept"

\* Between the gate and the save the record is loaded again while weights and evaluations
\* move: as long as commands do not overlap, what becomes kept carries the hash its gate
\* let pass (promote_artifact, update_artifact_status).
KeepIsGated ==
  [][~concurrent' /\ IsKept(artifact') /\ ~IsKept(artifact)
       => artifact'.content_hash \in gated]_vars
=============================================================================

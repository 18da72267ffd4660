---------------------------- MODULE TrainingRun ----------------------------
(***************************************************************************)
(* Adapter training runs of one plan in the in-process supervisor:         *)
(* execute_run around TrainingRunner around run_training, with the         *)
(* checkpoints the coordinator publishes and prunes and the runs that      *)
(* resume from them, each run in a process of its own that may die.        *)
(*                                                                         *)
(* Data: the weights and the data cursor are the sequence of optimizer     *)
(* steps that made them; a checkpoint's bytes are that sequence and        *)
(* whether Hugging Face's trainer_state was captured.  Hashes are exact:   *)
(* a checkpoint verifies when every file of its manifest is there.         *)
(***************************************************************************)
EXTENDS Naturals, Sequences, FiniteSets

CONSTANTS Runs,      \* run identities, each executed at most once
          MaxSteps,  \* optimizer steps the plan seals
          Cadence,   \* checkpoint_policy.cadence_optimizer_steps
          KeepLast,  \* checkpoint_policy.keep_last
          None,      \* no parent, no record, no answer
          MaxFaults  \* bound on crashes and failing writes

ASSUME TrainingAssumption ==
    /\ MaxSteps \in Nat \ {0} /\ Cadence \in Nat \ {0} /\ KeepLast \in Nat \ {0}
    /\ None \notin Runs /\ MaxFaults \in Nat

VARIABLES disk,      \* each run's checkpoint directories, by step
          request,   \* the checkpoint this run resumes from: [run, step], or None
          pc,        \* where execute_run stands
          step,      \* the trainer's global_step
          prior,     \* the steps whose effect the restore put into the weights
          completed, \* the tracker's completed_steps
          moved,     \* the weights differ from the baseline of the change gate
          learned,   \* a step of this run changed the weights (history)
          written,   \* the coordinator's _written
          cancelled, \* the cancel token is set
          state,     \* execute_run's local terminal classification
          proven,    \* final_fit was promoted from measured to proven
          listed,    \* ctx.checkpoints
          artifact,  \* the artifact manifest is durable
          lineage,   \* resume_lineage
          record,    \* the durable RunManifest, or None
          answer,    \* the state in the terminal event, or None
          faults

trainer == <<step, prior, completed, moved, learned>>
verdict == <<state, proven, listed, artifact, lineage>>
durable == <<record, answer>>
vars == <<disk, request, pc, step, prior, completed, moved, learned, written, cancelled,
          state, proven, listed, artifact, lineage, record, answer, faults>>

Steps == 1..MaxSteps
Parents == [run: Runs, step: Steps]
Outcomes == {"succeeded", "failed", "cancelled"}

InRunner == {"load", "verify", "copy", "begin", "train", "save", "publish", "prune", "unlink",
             "log", "finish", "export", "handback", "validate", "persist", "promote"}
Closing == {"reverify", "rehash", "record", "retry", "terminal", "note"}
Over == {"ended", "raised", "dead"}
Labels == {"idle", "open", "admit"} \cup InRunner \cup Closing \cup Over

\* A checkpoint directory; what is left where nothing can be read; where there is none.
Directory(status, trace, cursor) == [status |-> status, trace |-> trace, cursor |-> cursor]
Remains(status) == Directory(status, <<>>, FALSE)
Absent == Remains("absent")

Manifests == [state: Outcomes, lineage: Parents \cup {None}, listed: SUBSET Steps,
              proven: BOOLEAN, evidence: BOOLEAN]

\* None is neither an answer nor a manifest.
ASSUME NoneAssumption == None \notin Outcomes \cup Manifests

TypeOK ==
    /\ disk \in [Runs -> [Steps -> [status: {"absent", "temp", "whole", "partial"},
                                    trace: Seq(Steps), cursor: BOOLEAN]]]
    /\ request \in [Runs -> Parents \cup {None}]
    /\ pc \in [Runs -> Labels]
    /\ step \in [Runs -> 0..MaxSteps]
    /\ prior \in [Runs -> Seq(Steps)] /\ completed \in [Runs -> Seq(Steps)]
    /\ moved \in [Runs -> BOOLEAN] /\ learned \in [Runs -> BOOLEAN]
    /\ written \in [Runs -> Seq(Steps)]
    /\ cancelled \in [Runs -> BOOLEAN]
    /\ state \in [Runs -> Outcomes \cup {"running"}]
    /\ proven \in [Runs -> BOOLEAN] /\ artifact \in [Runs -> BOOLEAN]
    /\ listed \in [Runs -> SUBSET Steps]
    /\ lineage \in [Runs -> Parents \cup {None}]
    /\ record \in [Runs -> Manifests \cup {None}]
    /\ answer \in [Runs -> Outcomes \cup {None}]
    /\ faults \in 0..MaxFaults

Init ==
    /\ disk = [r \in Runs |-> [k \in Steps |-> Absent]]
    /\ request = [r \in Runs |-> None]
    /\ pc = [r \in Runs |-> "idle"]
    /\ step = [r \in Runs |-> 0]
    /\ prior = [r \in Runs |-> <<>>] /\ completed = [r \in Runs |-> <<>>]
    /\ moved = [r \in Runs |-> FALSE] /\ learned = [r \in Runs |-> FALSE]
    /\ written = [r \in Runs |-> <<>>]
    /\ cancelled = [r \in Runs |-> FALSE]
    /\ state = [r \in Runs |-> "running"]
    /\ proven = [r \in Runs |-> FALSE] /\ artifact = [r \in Runs |-> FALSE]
    /\ listed = [r \in Runs |-> {}]
    /\ lineage = [r \in Runs |-> None]
    /\ record = [r \in Runs |-> None] /\ answer = [r \in Runs |-> None]
    /\ faults = 0

---------------------------------------------------------------------------
Set(f, r, v) == [f EXCEPT ![r] = v]
Go(r, label) == pc' = Set(pc, r, label)
Fault == faults < MaxFaults /\ faults' = faults + 1

\* verify_checkpoint_integrity: the manifest is complete and every file it names is there.
Verifies(p) == disk[p.run][p.step].status = "whole"

\* resumed_from_step: where the tracker expects this run's steps to start.
ResumedFrom(r) == IF request[r] = None THEN 0 ELSE request[r].step

Trace(r) == prior[r] \o completed[r]
UpTo(k) == [i \in 1..k |-> i]

\* Mutant: the classification of the failure is forgotten.
RaiseUnclassified(r, s) ==
    /\ UNCHANGED state
    /\ proven' = Set(proven, r, FALSE)
    /\ Go(r, "reverify")

\* An exception leaves the runner or a gate: execute_run classifies it and no fit is proven.
Raise(r, s) ==
    /\ state' = Set(state, r, s)
    /\ proven' = Set(proven, r, FALSE)
    /\ Go(r, "reverify")

---------------------------------------------------------------------------
(* Dispatch and admission *)

\* platform-run --resume-from: the checkpoint is verified and pinned before anything starts.
Dispatch(r) ==
    /\ pc[r] = "idle"
    /\ \/ UNCHANGED request
       \/ \E p \in Parents : Verifies(p) /\ request' = Set(request, r, p)
    /\ Go(r, "open")
    /\ UNCHANGED <<disk, trainer, written, cancelled, verdict, durable, faults>>

\* The record directory and the event log are made outside the try block.
Open(r) ==
    /\ pc[r] = "open"
    /\ \/ Go(r, "admit") /\ UNCHANGED faults
       \/ Fault /\ Go(r, "raised")
    /\ UNCHANGED <<disk, request, trainer, written, cancelled, verdict, durable>>

\* Plan hash, configuration hash, lane and runner type.
Admit(r) ==
    /\ pc[r] = "admit"
    /\ \/ Go(r, "load") /\ UNCHANGED <<state, proven>>
       \/ Raise(r, "failed")
    /\ UNCHANGED <<disk, request, trainer, written, cancelled, listed, artifact, lineage,
                   durable, faults>>

---------------------------------------------------------------------------
(* run_training *)

\* Inputs, model, adapter and trainer are built; with a resume the checkpoint comes next.
Load(r) ==
    /\ pc[r] = "load"
    /\ Go(r, IF request[r] = None THEN "begin" ELSE "verify")
    /\ UNCHANGED <<disk, request, trainer, written, cancelled, verdict, durable, faults>>

\* The trainer verifies the pinned checkpoint again, its parent run may be pruning it.
VerifyParent(r) ==
    /\ pc[r] = "verify"
    /\ IF Verifies(request[r])
       THEN Go(r, "copy") /\ UNCHANGED <<state, proven>>
       ELSE Raise(r, "failed")
    /\ UNCHANGED <<disk, request, trainer, written, cancelled, listed, artifact, lineage,
                   durable, faults>>

\* materialize_hf_checkpoint verifies and copies, and train() restores what it was given:
\* without trainer_state it would restart at step 0, so that is refused.
Restore(r) ==
    /\ pc[r] = "copy"
    /\ IF Verifies(request[r]) /\ disk[request[r].run][request[r].step].cursor
       THEN /\ prior' = Set(prior, r, disk[request[r].run][request[r].step].trace)
            /\ step' = Set(step, r, request[r].step)
            /\ moved' = Set(moved, r, TRUE)
            /\ Go(r, "begin")
            /\ UNCHANGED <<state, proven>>
       ELSE Raise(r, "failed") /\ UNCHANGED <<prior, step, moved>>
    /\ UNCHANGED <<disk, request, completed, learned, written, cancelled, listed, artifact,
                   lineage, durable, faults>>

\* Mutant: the change gate keeps the baseline taken before the restore.
TrainBeginOldBaseline(r) ==
    /\ pc[r] = "begin"
    /\ Go(r, "train")
    /\ UNCHANGED <<disk, request, trainer, written, cancelled, verdict, durable, faults>>

\* on_train_begin: a resumed run's change gate starts from the restored weights.
TrainBegin(r) ==
    /\ pc[r] = "begin"
    /\ moved' = Set(moved, r, moved[r] /\ request[r] = None)
    /\ Go(r, "train")
    /\ UNCHANGED <<disk, request, step, prior, completed, learned, written, cancelled,
                   verdict, durable, faults>>

\* is_due: every Cadence steps.
IsDue(k) == k % Cadence = 0

\* One optimizer step, which may leave the weights as they are, and on_step_end: the
\* tracker's sequence check, then the checkpoint callback.
TrainStep(r) ==
    /\ pc[r] = "train" /\ step[r] < MaxSteps
    /\ step' = Set(step, r, step[r] + 1)
    /\ IF step'[r] = ResumedFrom(r) + Len(completed[r]) + 1
       THEN /\ completed' = Set(completed, r, Append(completed[r], step'[r]))
            /\ \E m \in BOOLEAN : /\ moved' = Set(moved, r, moved[r] \/ m)
                                  /\ learned' = Set(learned, r, learned[r] \/ m)
            /\ Go(r, IF IsDue(step'[r]) THEN "save" ELSE "log")
            /\ UNCHANGED <<state, proven>>
       ELSE Raise(r, "failed") /\ UNCHANGED <<completed, moved, learned>>
    /\ UNCHANGED <<disk, request, prior, written, cancelled, listed, artifact, lineage,
                   durable, faults>>

SetDirectory(r, k, d) == disk' = Set(disk, r, Set(disk[r], k, d))

\* Mutant: only the steps of this run are sealed, the restored ones are lost.
SavedOwnSteps(r, cursor) == Directory("temp", completed[r], cursor)

\* What save_checkpoint seals: the adapter as it is now, the data cursor if it was captured.
Saved(r, cursor) == Directory("temp", Trace(r), cursor)

\* save_checkpoint up to the sealed manifest, in a temporary directory: a failure leaves
\* what it wrote and only warns, a failing capture of trainer_state leaves that file out.
SaveCheckpoint(r) ==
    /\ pc[r] = "save"
    /\ \/ /\ SetDirectory(r, step[r], Saved(r, TRUE))
          /\ Go(r, "publish") /\ UNCHANGED faults
       \/ /\ SetDirectory(r, step[r], Saved(r, FALSE))
          /\ Go(r, "publish") /\ Fault
       \/ /\ SetDirectory(r, step[r], Remains("temp"))
          /\ Go(r, "log") /\ Fault
    /\ UNCHANGED <<request, trainer, written, cancelled, verdict, durable>>

\* One rename publishes the complete directory; a failing one only warns.
Publish(r) ==
    /\ pc[r] = "publish"
    /\ \/ /\ LET d == disk[r][step[r]] IN
                SetDirectory(r, step[r], Directory("whole", d.trace, d.cursor))
          /\ written' = Set(written, r, Append(written[r], step[r]))
          /\ Go(r, "prune") /\ UNCHANGED faults
       \/ Fault /\ Go(r, "log") /\ UNCHANGED <<disk, written>>
    /\ UNCHANGED <<request, trainer, cancelled, verdict, durable>>

\* Mutant: the newest checkpoint is deleted instead of the oldest.
PruneNewest(r) ==
    /\ pc[r] = "prune"
    /\ IF Len(written[r]) > KeepLast
       THEN /\ written' = Set(written, r, SubSeq(written[r], 1, Len(written[r]) - 1))
            /\ SetDirectory(r, step[r], Remains("partial"))
            /\ Go(r, "unlink")
       ELSE Go(r, "log") /\ UNCHANGED <<disk, written>>
    /\ UNCHANGED <<request, trainer, cancelled, verdict, durable, faults>>

\* _prune forgets the oldest beyond KeepLast and begins to delete it.
Prune(r) ==
    /\ pc[r] = "prune"
    /\ IF Len(written[r]) > KeepLast
       THEN /\ written' = Set(written, r, Tail(written[r]))
            /\ SetDirectory(r, Head(written[r]), Remains("partial"))
            /\ Go(r, "unlink")
       ELSE Go(r, "log") /\ UNCHANGED <<disk, written>>
    /\ UNCHANGED <<request, trainer, cancelled, verdict, durable, faults>>

\* rmtree(ignore_errors=True): the rest goes, or stays behind for good.
Unlink(r) ==
    /\ pc[r] = "unlink"
    /\ \/ disk' = [disk EXCEPT ![r] = [k \in Steps |->
                       IF disk[r][k].status = "partial" THEN Absent ELSE disk[r][k]]]
       \/ UNCHANGED disk
    /\ Go(r, "log")
    /\ UNCHANGED <<request, trainer, written, cancelled, verdict, durable, faults>>

\* on_log: the one place where a cancel request is looked at.
Log(r) ==
    /\ pc[r] = "log"
    /\ IF cancelled[r]
       THEN Raise(r, "cancelled")
       ELSE Go(r, "train") /\ UNCHANGED <<state, proven>>
    /\ UNCHANGED <<disk, request, trainer, written, cancelled, listed, artifact, lineage,
                   durable, faults>>

\* train() has returned: step count, step coverage and the change gate.
Finish(r) ==
    /\ pc[r] = "train" /\ step[r] = MaxSteps
    /\ IF Len(completed[r]) = step[r] - ResumedFrom(r) /\ moved[r]
       THEN Go(r, "export") /\ UNCHANGED <<state, proven>>
       ELSE Raise(r, "failed")
    /\ UNCHANGED <<disk, request, trainer, written, cancelled, listed, artifact, lineage,
                   durable, faults>>

\* Mutant: every checkpoint the run ever published is listed, the pruned ones too.
ExportAll(r) ==
    /\ pc[r] = "export"
    /\ listed' = Set(listed, r, {k \in Steps : k <= step[r] /\ IsDue(k)})
    /\ Go(r, "handback")
    /\ UNCHANGED <<disk, request, trainer, written, cancelled, state, proven, artifact,
                   lineage, durable, faults>>

\* save_model, then the list of checkpoints travels in the result to ctx.checkpoints.
Export(r) ==
    /\ pc[r] = "export"
    /\ listed' = Set(listed, r, {written[r][i] : i \in DOMAIN written[r]})
    /\ Go(r, "handback")
    /\ UNCHANGED <<disk, request, trainer, written, cancelled, state, proven, artifact,
                   lineage, durable, faults>>

\* A TrainerError, a library error or a non-finite loss anywhere in the runner or a gate.
Fails(r) ==
    /\ pc[r] \in {"load", "verify", "copy", "begin", "train", "log", "export", "handback",
                  "validate"}
    /\ Raise(r, "failed")
    /\ UNCHANGED <<disk, request, trainer, written, cancelled, listed, artifact, lineage,
                   durable, faults>>

---------------------------------------------------------------------------
(* execute_run after the runner: gates, then the durable records *)

\* The runner's own output checks, the artifact manifest and the success evidence.
Validate(r) ==
    /\ pc[r] \in {"handback", "validate"}
    /\ Go(r, IF pc[r] = "handback" THEN "validate" ELSE "persist")
    /\ UNCHANGED <<disk, request, trainer, written, cancelled, verdict, durable, faults>>

\* The artifact manifest is durable before the run may call itself succeeded.
PersistArtifact(r) ==
    /\ pc[r] = "persist"
    /\ \/ /\ artifact' = Set(artifact, r, TRUE) /\ Go(r, "promote")
          /\ UNCHANGED <<state, proven, faults>>
       \/ Fault /\ Raise(r, "failed") /\ UNCHANGED artifact
    /\ UNCHANGED <<disk, request, trainer, written, cancelled, listed, lineage, durable>>

\* The measured fit is promoted after every gate, and only then the state.
Promote(r) ==
    /\ pc[r] = "promote"
    /\ proven' = Set(proven, r, TRUE)
    /\ state' = Set(state, r, "succeeded")
    /\ Go(r, "reverify")
    /\ UNCHANGED <<disk, request, trainer, written, cancelled, listed, artifact, lineage,
                   durable, faults>>

\* The parent checkpoint is looked up once more for the lineage: a missing file is caught.
Reverify(r) ==
    /\ pc[r] = "reverify"
    /\ Go(r, IF request[r] # None /\ Verifies(request[r]) THEN "rehash" ELSE "record")
    /\ UNCHANGED <<disk, request, trainer, written, cancelled, verdict, durable, faults>>

\* Its files are opened and hashed after they were seen: one that vanished in between
\* raises past the handler, which catches CheckpointError only.
Rehash(r) ==
    /\ pc[r] = "rehash"
    /\ \/ /\ Verifies(request[r])
          /\ lineage' = Set(lineage, r, request[r])
          /\ Go(r, "record")
       \/ ~Verifies(request[r]) /\ UNCHANGED lineage /\ pc' \in {Set(pc, r, "record"),
                                                                Set(pc, r, "raised")}
    /\ UNCHANGED <<disk, request, trainer, written, cancelled, state, proven, listed,
                   artifact, durable, faults>>

\* Mutant: evidence is attached to whatever produced an artifact.
ManifestOfArtifact(r) == [state |-> state[r], lineage |-> lineage[r], listed |-> listed[r],
                          proven |-> proven[r], evidence |-> artifact[r]]

Manifest(r) == [state |-> state[r], lineage |-> lineage[r], listed |-> listed[r],
                proven |-> proven[r], evidence |-> state[r] = "succeeded"]

WriteRecord(r) == record' = Set(record, r, Manifest(r))

\* write_run_manifest: a success that cannot be made durable becomes a failure.
RecordVerdict(r) ==
    /\ pc[r] = "record"
    /\ \/ WriteRecord(r) /\ Go(r, "terminal") /\ UNCHANGED <<state, proven, faults>>
       \/ /\ Fault /\ UNCHANGED record
          /\ IF state[r] = "succeeded"
             THEN /\ state' = Set(state, r, "failed")
                  /\ proven' = Set(proven, r, FALSE)
                  /\ Go(r, "retry")
             ELSE Go(r, "terminal") /\ UNCHANGED <<state, proven>>
    /\ UNCHANGED <<disk, request, trainer, written, cancelled, listed, artifact, lineage,
                   answer>>

RetryRecord(r) ==
    /\ pc[r] = "retry"
    /\ \/ WriteRecord(r) /\ UNCHANGED faults
       \/ Fault /\ UNCHANGED record
    /\ Go(r, "terminal")
    /\ UNCHANGED <<disk, request, trainer, written, cancelled, verdict, answer>>

\* The terminal event says what the manifest says; a failing sink is noted.
EmitTerminal(r) ==
    /\ pc[r] = "terminal"
    /\ answer' = Set(answer, r, state[r])
    /\ \/ Go(r, "ended") /\ UNCHANGED faults
       \/ Fault /\ Go(r, "note")
    /\ UNCHANGED <<disk, request, trainer, written, cancelled, verdict, record>>

\* The note is written into the manifest again, or not.
RewriteNote(r) ==
    /\ pc[r] = "note"
    /\ \/ WriteRecord(r) /\ UNCHANGED faults
       \/ Fault /\ UNCHANGED record
    /\ Go(r, "ended")
    /\ UNCHANGED <<disk, request, trainer, written, cancelled, verdict, answer>>

---------------------------------------------------------------------------
\* The cancel token may be set at any time.
Cancel(r) ==
    /\ pc[r] \notin Over \cup {"idle"} /\ ~cancelled[r]
    /\ cancelled' = Set(cancelled, r, TRUE)
    /\ UNCHANGED <<disk, request, pc, trainer, written, verdict, durable, faults>>

\* The process dies; what is on disk stays as it is.
Crash(r) ==
    /\ pc[r] \notin Over \cup {"idle"}
    /\ Fault /\ Go(r, "dead")
    /\ UNCHANGED <<disk, request, trainer, written, cancelled, verdict, durable>>

Progress(r) ==
    \/ Open(r) \/ Admit(r) \/ Load(r) \/ VerifyParent(r) \/ Restore(r) \/ TrainBegin(r)
    \/ TrainStep(r) \/ SaveCheckpoint(r) \/ Publish(r) \/ Prune(r) \/ Unlink(r) \/ Log(r)
    \/ Finish(r) \/ Export(r) \/ Fails(r) \/ Validate(r) \/ PersistArtifact(r) \/ Promote(r)
    \/ Reverify(r) \/ Rehash(r) \/ RecordVerdict(r) \/ RetryRecord(r)
    \/ EmitTerminal(r) \/ RewriteNote(r)

Next == \E r \in Runs : Dispatch(r) \/ Progress(r) \/ Cancel(r) \/ Crash(r)

Spec == Init /\ [][Next]_vars

---------------------------------------------------------------------------
(* Properties *)

Whole(r) == {k \in Steps : disk[r][k].status = "whole"}

\* A checkpoint that verifies holds exactly the steps up to its own, whatever chain of
\* resumes, prunes and crashes it comes from, and every checkpoint that a manifest lists is
\* such a one (exact lineage of checkpoint_io, RunManifest.checkpoints).
ExactCheckpoints ==
  \A r \in Runs : /\ \A k \in Whole(r) : disk[r][k].trace = UpTo(k)
                  /\ record[r] # None => record[r].listed \subseteq Whole(r)

\* A run that has had a checkpoint to resume from never loses the progress it stands for:
\* pruning, failing saves and crashes leave one at least as new (keep_last, _prune).
ResumePointKept ==
    [][\A r \in Runs : \A k \in Whole(r) : \E j \in Whole(r)' : j >= k]_vars

\* A run that answers "succeeded" holds every planned step once and in order, and its own
\* steps changed the weights: a restore alone never counts as training.
SuccessIsExactLineage ==
    \A r \in Runs : answer[r] = "succeeded" => Trace(r) = UpTo(MaxSteps) /\ learned[r]

\* The terminal event, the durable manifest and the fit agree: success is answered only
\* when manifest and artifact are durable, and nothing else carries evidence or a proven fit.
VerdictsAgree ==
    \A r \in Runs :
        /\ answer[r] = "succeeded" => record[r] # None /\ artifact[r]
        /\ answer[r] # None /\ record[r] # None => record[r].state = answer[r]
        /\ record[r] # None /\ (record[r].proven \/ record[r].evidence)
               => record[r].state = "succeeded"

\* "Record the exact-lineage checkpoints this run sealed so the RunManifest carries them -
\* a later resume discovers a parent checkpoint from the run record, not by scanning disk"
\* (runners.py, TrainingRunner.run).
SealedAreListed == \A r \in Runs : record[r] # None => Whole(r) \subseteq record[r].listed
=============================================================================

------------------------- MODULE TrainingRunProofs -------------------------
(***************************************************************************)
(* Proofs about TrainingRun, for any number of runs, steps and faults, any *)
(* cadence and any keep_last.  A run writes nothing of another run; all it *)
(* takes from one is a checkpoint that verifies.  So the invariant speaks  *)
(* of one run at a time, and only Restore needs it of two.                 *)
(***************************************************************************)
EXTENDS TrainingRun, SequenceTheorems, TLAPS

\* Before the restore; between the restore and the end of train(); after it.
Early == {"idle", "open", "admit", "load", "verify", "copy"}
Loop == {"train", "save", "publish", "prune", "unlink", "log"}
Trained == {"export", "handback", "validate", "persist", "promote"}

WrittenSet(r) == {written[r][i] : i \in 1..Len(written[r])}

\* The checkpoints on disk are those the coordinator remembers, oldest first and none newer
\* than the step the trainer is at; the one being saved is newer than all of them.
WrittenInv(r) ==
  /\ Whole(r) = WrittenSet(r)
  /\ \A i, j \in 1..Len(written[r]) : i < j => written[r][i] < written[r][j]
  /\ \A i \in 1..Len(written[r]) : written[r][i] <= step[r]
  /\ pc[r] \in {"save", "publish"} =>
       step[r] > 0 /\ \A i \in 1..Len(written[r]) : written[r][i] < step[r]

\* What a manifest may list is on disk, and nothing is listed while checkpoints come and go.
ListedInv(r) ==
  /\ listed[r] \subseteq Whole(r)
  /\ pc[r] \in Early \cup {"begin", "export"} \cup Loop => listed[r] = {}

\* The trainer's step counter, the restored steps and the tracker's own agree, and whatever is
\* saved or published holds the steps up to its own.
TraceInv(r) ==
  /\ \A k \in Whole(r) : disk[r][k].trace = UpTo(k)
  /\ pc[r] = "publish" => disk[r][step[r]].trace = UpTo(step[r])
  /\ pc[r] \in Early => prior[r] = <<>> /\ completed[r] = <<>> /\ step[r] = 0
  /\ pc[r] \in {"verify", "copy"} => request[r] # None
  /\ pc[r] \in {"begin"} \cup Loop => /\ Trace(r) = UpTo(step[r])
                                      /\ step[r] = ResumedFrom(r) + Len(completed[r])

\* The change gate sees a step of this run, never the restore.
LearnedInv(r) ==
  /\ pc[r] \in Early => ~moved[r]
  /\ pc[r] = "begin" /\ request[r] = None => ~moved[r]
  /\ pc[r] \in Loop => (moved[r] => learned[r])
  /\ pc[r] \in Trained \/ state[r] = "succeeded" => Trace(r) = UpTo(MaxSteps) /\ learned[r]

\* The classification, the fit, the artifact and the two durable answers.
VerdictInv(r) ==
  /\ pc[r] \in {"idle", "open", "admit"} \cup InRunner => state[r] = "running"
  /\ pc[r] \in Closing \cup {"ended"} => state[r] \in Outcomes
  /\ pc[r] = "retry" => state[r] = "failed"
  /\ pc[r] = "promote" \/ state[r] = "succeeded" => artifact[r]
  /\ proven[r] => state[r] = "succeeded"
  /\ record[r] # None =>
       pc[r] \in {"terminal", "note", "ended", "dead"} /\ record[r] = Manifest(r)
  /\ answer[r] # None => pc[r] \in {"note", "ended", "dead"} /\ answer[r] = state[r]
  /\ pc[r] \in {"terminal", "note", "ended"} /\ state[r] = "succeeded" => record[r] # None
  /\ answer[r] = "succeeded" => record[r] # None

Local(r) == WrittenInv(r) /\ ListedInv(r) /\ TraceInv(r) /\ LearnedInv(r) /\ VerdictInv(r)

IInv == TypeOK /\ \A r \in Runs : Local(r)

-----------------------------------------------------------------------------
(* Sequences of steps *)

LEMMA UpToSteps ==
  ASSUME NEW k \in Nat
  PROVE  /\ UpTo(k) \in Seq(Nat) /\ Len(UpTo(k)) = k
         /\ k <= MaxSteps => UpTo(k) \in Seq(Steps)
         /\ Append(UpTo(k), k + 1) = UpTo(k + 1)
<1>1. UpTo(k) \in Seq(Nat) /\ Len(UpTo(k)) = k
  BY DEF UpTo
<1>2. k <= MaxSteps => UpTo(k) \in Seq(Steps)
  BY TrainingAssumption DEF UpTo, Steps
<1>3. Append(UpTo(k), k + 1) = UpTo(k + 1)
  BY DEF UpTo
<1> QED BY <1>1, <1>2, <1>3

LEMMA UpToZero == UpTo(0) = <<>>
BY DEF UpTo

LEMMA ConcatOne ==
  ASSUME NEW S, NEW s \in Seq(S), NEW t \in Seq(S), NEW e \in S
  PROVE  s \o Append(t, e) = Append(s \o t, e)
OBVIOUS

LEMMA ConcatEmpty ==
  ASSUME NEW S, NEW s \in Seq(S)
  PROVE  s \o <<>> = s /\ <<>> \o s = s
OBVIOUS

-----------------------------------------------------------------------------
(* What a step of r leaves alone *)

\* Nothing of q changes.
Same(q) ==
  /\ disk'[q] = disk[q] /\ request'[q] = request[q] /\ pc'[q] = pc[q]
  /\ step'[q] = step[q] /\ prior'[q] = prior[q] /\ completed'[q] = completed[q]
  /\ moved'[q] = moved[q] /\ learned'[q] = learned[q] /\ written'[q] = written[q]
  /\ state'[q] = state[q] /\ proven'[q] = proven[q] /\ listed'[q] = listed[q]
  /\ artifact'[q] = artifact[q] /\ lineage'[q] = lineage[q]
  /\ record'[q] = record[q] /\ answer'[q] = answer[q]

LEMMA OthersSame ==
  ASSUME TypeOK, NEW r \in Runs, Dispatch(r) \/ Progress(r) \/ Cancel(r) \/ Crash(r)
  PROVE  \A q \in Runs \ {r} : Same(q)
<1> USE DEF Go, Set, Raise, Fault, SetDirectory, WriteRecord, trainer, verdict, durable
<1> SUFFICES ASSUME NEW q \in Runs, q # r PROVE Same(q)
  OBVIOUS
<1>t. /\ disk \in [Runs -> [Steps -> [status: {"absent", "temp", "whole", "partial"},
                                       trace: Seq(Steps), cursor: BOOLEAN]]]
      /\ DOMAIN request = Runs /\ DOMAIN pc = Runs /\ DOMAIN step = Runs
      /\ DOMAIN prior = Runs /\ DOMAIN completed = Runs /\ DOMAIN moved = Runs
      /\ DOMAIN learned = Runs /\ DOMAIN written = Runs /\ DOMAIN state = Runs
      /\ DOMAIN proven = Runs /\ DOMAIN listed = Runs /\ DOMAIN artifact = Runs
      /\ DOMAIN lineage = Runs /\ DOMAIN record = Runs /\ DOMAIN answer = Runs
  BY DEF TypeOK
<1> HIDE DEF Saved, Manifest
<1>1. CASE Dispatch(r) BY <1>1, <1>t DEF Dispatch, Same
<1>2. CASE Open(r) BY <1>2, <1>t DEF Open, Same
<1>3. CASE Admit(r) BY <1>3, <1>t DEF Admit, Same
<1>4. CASE Load(r) BY <1>4, <1>t DEF Load, Same
<1>5. CASE VerifyParent(r) BY <1>5, <1>t DEF VerifyParent, Same
<1>6. CASE Restore(r) BY <1>6, <1>t DEF Restore, Same
<1>7. CASE TrainBegin(r) BY <1>7, <1>t DEF TrainBegin, Same
<1>8. CASE TrainStep(r) BY <1>8, <1>t DEF TrainStep, Same
<1>9. CASE SaveCheckpoint(r) BY <1>9, <1>t DEF SaveCheckpoint, Same
<1>10. CASE Publish(r) BY <1>10, <1>t DEF Publish, Same
<1>11. CASE Prune(r) BY <1>11, <1>t DEF Prune, Same
<1>12. CASE Unlink(r) BY <1>12, <1>t DEF Unlink, Same
<1>13. CASE Log(r) BY <1>13, <1>t DEF Log, Same
<1>14. CASE Finish(r) BY <1>14, <1>t DEF Finish, Same
<1>15. CASE Export(r) BY <1>15, <1>t DEF Export, Same
<1>16. CASE Fails(r) BY <1>16, <1>t DEF Fails, Same
<1>17. CASE Validate(r) BY <1>17, <1>t DEF Validate, Same
<1>18. CASE PersistArtifact(r) BY <1>18, <1>t DEF PersistArtifact, Same
<1>19. CASE Promote(r) BY <1>19, <1>t DEF Promote, Same
<1>20. CASE Reverify(r) BY <1>20, <1>t DEF Reverify, Same
<1>21. CASE Rehash(r) BY <1>21, <1>t DEF Rehash, Same
<1>22. CASE RecordVerdict(r) BY <1>22, <1>t DEF RecordVerdict, Same
<1>23. CASE RetryRecord(r) BY <1>23, <1>t DEF RetryRecord, Same
<1>24. CASE EmitTerminal(r) BY <1>24, <1>t DEF EmitTerminal, Same
<1>25. CASE RewriteNote(r) BY <1>25, <1>t DEF RewriteNote, Same
<1>26. CASE Cancel(r) BY <1>26, <1>t DEF Cancel, Same
<1>27. CASE Crash(r) BY <1>27, <1>t DEF Crash, Same
<1> QED
  BY <1>1, <1>2, <1>3, <1>4, <1>5, <1>6, <1>7, <1>8, <1>9, <1>10, <1>11, <1>12, <1>13, <1>14,
     <1>15, <1>16, <1>17, <1>18, <1>19, <1>20, <1>21, <1>22, <1>23, <1>24, <1>25, <1>26, <1>27
  DEF Progress

LEMMA SameLocal ==
  ASSUME NEW q \in Runs, Local(q), Same(q)
  PROVE  Local(q)'
<1> USE DEF Same, Trace, Whole
<1>1. WrittenInv(q)' /\ ListedInv(q)'
  BY DEF Local, WrittenInv, ListedInv, WrittenSet
<1>2. TraceInv(q)'
  BY DEF Local, TraceInv, ResumedFrom
<1>3. LearnedInv(q)'
  BY DEF Local, LearnedInv
<1>4. VerdictInv(q)'
  BY DEF Local, VerdictInv, Manifest
<1> QED BY <1>1, <1>2, <1>3, <1>4 DEF Local

-----------------------------------------------------------------------------
(* Types *)

Directories == [status: {"absent", "temp", "whole", "partial"}, trace: Seq(Steps),
                cursor: BOOLEAN]

LEMMA DirectoryType ==
  ASSUME NEW status \in {"absent", "temp", "whole", "partial"}, NEW trace \in Seq(Steps),
         NEW cursor \in BOOLEAN
  PROVE  Directory(status, trace, cursor) \in Directories /\ Remains(status) \in Directories
BY DEF Directory, Remains, Directories

LEMMA ManifestType ==
  ASSUME TypeOK, NEW r \in Runs, state[r] \in Outcomes
  PROVE  Manifest(r) \in Manifests
BY DEF TypeOK, Manifest, Manifests, Outcomes

LEMMA SetType ==
  ASSUME NEW D, NEW S, NEW f \in [D -> S], NEW d \in D, NEW v \in S
  PROVE  Set(f, d, v) \in [D -> S]
BY DEF Set

\* The parts of TypeOK.
TypeFiles == disk \in [Runs -> [Steps -> Directories]] /\ written \in [Runs -> Seq(Steps)]

TypeControl ==
  /\ request \in [Runs -> Parents \cup {None}] /\ pc \in [Runs -> Labels]
  /\ cancelled \in [Runs -> BOOLEAN] /\ faults \in 0..MaxFaults

TypeTrainer ==
  /\ step \in [Runs -> 0..MaxSteps]
  /\ prior \in [Runs -> Seq(Steps)] /\ completed \in [Runs -> Seq(Steps)]
  /\ moved \in [Runs -> BOOLEAN] /\ learned \in [Runs -> BOOLEAN]

TypeVerdict ==
  /\ state \in [Runs -> Outcomes \cup {"running"}]
  /\ proven \in [Runs -> BOOLEAN] /\ artifact \in [Runs -> BOOLEAN]
  /\ listed \in [Runs -> SUBSET Steps] /\ lineage \in [Runs -> Parents \cup {None}]

TypeDurable ==
  record \in [Runs -> Manifests \cup {None}] /\ answer \in [Runs -> Outcomes \cup {None}]

LEMMA TypeParts ==
  /\ TypeOK <=> TypeFiles /\ TypeControl /\ TypeTrainer /\ TypeVerdict /\ TypeDurable
  /\ TypeOK' <=> TypeFiles' /\ TypeControl' /\ TypeTrainer' /\ TypeVerdict' /\ TypeDurable'
BY DEF TypeOK, TypeFiles, TypeControl, TypeTrainer, TypeVerdict, TypeDurable, Directories

LEMMA ControlType ==
  ASSUME TypeOK, NEW r \in Runs, Dispatch(r) \/ Progress(r) \/ Cancel(r) \/ Crash(r)
  PROVE  TypeControl'
<1>t. TypeFiles /\ TypeControl /\ TypeTrainer /\ TypeVerdict /\ TypeDurable
  BY TypeParts
<1> USE TrainingAssumption
    DEF Go, Set, Raise, Fault, trainer, verdict, durable, Labels, InRunner, Closing, Over
<1> HIDE DEF Parents
<1>1. CASE Dispatch(r) BY <1>1, <1>t DEF TypeControl, Dispatch
<1>2. CASE Open(r) BY <1>2, <1>t DEF TypeControl, Open
<1>3. CASE Admit(r) BY <1>3, <1>t DEF TypeControl, Admit
<1>4. CASE Load(r) BY <1>4, <1>t DEF TypeControl, Load
<1>5. CASE VerifyParent(r) BY <1>5, <1>t DEF TypeControl, VerifyParent
<1>6. CASE Restore(r) BY <1>6, <1>t DEF TypeControl, Restore
<1>7. CASE TrainBegin(r) BY <1>7, <1>t DEF TypeControl, TrainBegin
<1>8. CASE TrainStep(r) BY <1>8, <1>t DEF TypeControl, TrainStep
<1>9. CASE SaveCheckpoint(r)
  <2>1. /\ pc' \in {Set(pc, r, "publish"), Set(pc, r, "log")} /\ UNCHANGED <<request, cancelled>>
        /\ UNCHANGED faults \/ Fault
    BY <1>9 DEF SaveCheckpoint
  <2> QED BY <2>1, <1>t DEF TypeControl
<1>10. CASE Publish(r) BY <1>10, <1>t DEF TypeControl, Publish
<1>11. CASE Prune(r) BY <1>11, <1>t DEF TypeControl, Prune
<1>12. CASE Unlink(r) BY <1>12, <1>t DEF TypeControl, Unlink
<1>13. CASE Log(r) BY <1>13, <1>t DEF TypeControl, Log
<1>14. CASE Finish(r) BY <1>14, <1>t DEF TypeControl, Finish
<1>15. CASE Export(r) BY <1>15, <1>t DEF TypeControl, Export
<1>16. CASE Fails(r) BY <1>16, <1>t DEF TypeControl, Fails
<1>17. CASE Validate(r) BY <1>17, <1>t DEF TypeControl, Validate
<1>18. CASE PersistArtifact(r) BY <1>18, <1>t DEF TypeControl, PersistArtifact
<1>19. CASE Promote(r) BY <1>19, <1>t DEF TypeControl, Promote
<1>20. CASE Reverify(r) BY <1>20, <1>t DEF TypeControl, Reverify
<1>21. CASE Rehash(r) BY <1>21, <1>t DEF TypeControl, Rehash
<1>22. CASE RecordVerdict(r) BY <1>22, <1>t DEF TypeControl, RecordVerdict
<1>23. CASE RetryRecord(r) BY <1>23, <1>t DEF TypeControl, RetryRecord
<1>24. CASE EmitTerminal(r) BY <1>24, <1>t DEF TypeControl, EmitTerminal
<1>25. CASE RewriteNote(r) BY <1>25, <1>t DEF TypeControl, RewriteNote
<1>26. CASE Cancel(r) BY <1>26, <1>t DEF TypeControl, Cancel
<1>27. CASE Crash(r) BY <1>27, <1>t DEF TypeControl, Crash
<1> QED
  BY <1>1, <1>2, <1>3, <1>4, <1>5, <1>6, <1>7, <1>8, <1>9, <1>10, <1>11, <1>12, <1>13, <1>14,
     <1>15, <1>16, <1>17, <1>18, <1>19, <1>20, <1>21, <1>22, <1>23, <1>24, <1>25, <1>26, <1>27
  DEF Progress

LEMMA TrainerType ==
  ASSUME TypeOK, NEW r \in Runs, TraceInv(r), Dispatch(r) \/ Progress(r) \/ Cancel(r) \/ Crash(r)
  PROVE  TypeTrainer'
<1>t. TypeFiles /\ TypeControl /\ TypeTrainer /\ TypeVerdict /\ TypeDurable
  BY TypeParts
<1> USE TrainingAssumption DEF Set, trainer
<1>1. CASE Dispatch(r) BY <1>1, <1>t DEF TypeTrainer, Dispatch
<1>2. CASE Open(r) BY <1>2, <1>t DEF TypeTrainer, Open
<1>3. CASE Admit(r) BY <1>3, <1>t DEF TypeTrainer, Admit
<1>4. CASE Load(r) BY <1>4, <1>t DEF TypeTrainer, Load
<1>5. CASE VerifyParent(r) BY <1>5, <1>t DEF TypeTrainer, VerifyParent
<1>6. CASE Restore(r)
  <2>1. request[r] \in Parents
    BY <1>6, <1>t DEF Restore, TraceInv, TypeControl
  <2>2. /\ request[r].step \in 0..MaxSteps
        /\ disk[request[r].run][request[r].step].trace \in Seq(Steps)
    BY <2>1, <1>t DEF Parents, Steps, TypeFiles, Directories
  <2> QED BY <1>6, <2>2, <1>t DEF Restore, TypeTrainer
<1>7. CASE TrainBegin(r) BY <1>7, <1>t DEF TypeTrainer, TrainBegin
<1>8. CASE TrainStep(r)
  <2>1. step[r] + 1 \in Steps /\ step' = Set(step, r, step[r] + 1) /\ step'[r] = step[r] + 1
    BY <1>8, <1>t DEF TrainStep, TypeTrainer, Steps
  <2>2. step' \in [Runs -> 0..MaxSteps] /\ prior' \in [Runs -> Seq(Steps)]
    BY <1>8, <1>t, <2>1 DEF TrainStep, TypeTrainer, Steps
  <2>3. Append(completed[r], step[r] + 1) \in Seq(Steps)
    BY <1>t, <2>1 DEF TypeTrainer
  <2>4. completed' \in [Runs -> Seq(Steps)]
    <3>1. completed' = Set(completed, r, Append(completed[r], step[r] + 1)) \/ UNCHANGED completed
      BY <1>8, <2>1 DEF TrainStep
    <3>2. completed \in [Runs -> Seq(Steps)]
      BY <1>t DEF TypeTrainer
    <3> QED BY <3>1, <3>2, <2>3
  <2>5. moved' \in [Runs -> BOOLEAN] /\ learned' \in [Runs -> BOOLEAN]
    BY <1>8, <1>t DEF TrainStep, TypeTrainer
  <2> QED BY <2>2, <2>4, <2>5 DEF TypeTrainer
<1>9. CASE SaveCheckpoint(r) BY <1>9, <1>t DEF TypeTrainer, SaveCheckpoint
<1>10. CASE Publish(r) BY <1>10, <1>t DEF TypeTrainer, Publish
<1>11. CASE Prune(r) BY <1>11, <1>t DEF TypeTrainer, Prune
<1>12. CASE Unlink(r) BY <1>12, <1>t DEF TypeTrainer, Unlink
<1>13. CASE Log(r) BY <1>13, <1>t DEF TypeTrainer, Log
<1>14. CASE Finish(r) BY <1>14, <1>t DEF TypeTrainer, Finish
<1>15. CASE Export(r) BY <1>15, <1>t DEF TypeTrainer, Export
<1>16. CASE Fails(r) BY <1>16, <1>t DEF TypeTrainer, Fails
<1>17. CASE Validate(r) BY <1>17, <1>t DEF TypeTrainer, Validate
<1>18. CASE PersistArtifact(r) BY <1>18, <1>t DEF TypeTrainer, PersistArtifact
<1>19. CASE Promote(r) BY <1>19, <1>t DEF TypeTrainer, Promote
<1>20. CASE Reverify(r) BY <1>20, <1>t DEF TypeTrainer, Reverify
<1>21. CASE Rehash(r) BY <1>21, <1>t DEF TypeTrainer, Rehash
<1>22. CASE RecordVerdict(r) BY <1>22, <1>t DEF TypeTrainer, RecordVerdict
<1>23. CASE RetryRecord(r) BY <1>23, <1>t DEF TypeTrainer, RetryRecord
<1>24. CASE EmitTerminal(r) BY <1>24, <1>t DEF TypeTrainer, EmitTerminal
<1>25. CASE RewriteNote(r) BY <1>25, <1>t DEF TypeTrainer, RewriteNote
<1>26. CASE Cancel(r) BY <1>26, <1>t DEF TypeTrainer, Cancel
<1>27. CASE Crash(r) BY <1>27, <1>t DEF TypeTrainer, Crash
<1> QED
  BY <1>1, <1>2, <1>3, <1>4, <1>5, <1>6, <1>7, <1>8, <1>9, <1>10, <1>11, <1>12, <1>13, <1>14,
     <1>15, <1>16, <1>17, <1>18, <1>19, <1>20, <1>21, <1>22, <1>23, <1>24, <1>25, <1>26, <1>27
  DEF Progress

LEMMA SetDirectoryType ==
  ASSUME TypeFiles, NEW r \in Runs, NEW k \in Steps, NEW d \in Directories, SetDirectory(r, k, d)
  PROVE  disk' \in [Runs -> [Steps -> Directories]]
<1>1. disk[r] \in [Steps -> Directories]
  BY DEF TypeFiles
<1>2. Set(disk[r], k, d) \in [Steps -> Directories]
  BY <1>1, SetType
<1> QED BY <1>2, SetType DEF SetDirectory, TypeFiles

LEMMA FilesType ==
  ASSUME TypeOK, NEW r \in Runs, WrittenInv(r),
         Dispatch(r) \/ Progress(r) \/ Cancel(r) \/ Crash(r)
  PROVE  TypeFiles'
<1>t. TypeFiles /\ TypeControl /\ TypeTrainer /\ TypeVerdict /\ TypeDurable
  BY TypeParts
<1>s. step[r] \in 0..MaxSteps /\ MaxSteps \in Nat
  BY <1>t, TrainingAssumption DEF TypeTrainer
<1>w. written[r] \in Seq(Steps) /\ disk[r] \in [Steps -> Directories]
  BY <1>t DEF TypeFiles
<1>1. CASE Dispatch(r) BY <1>1, <1>t DEF TypeFiles, Dispatch
<1>2. CASE Open(r) BY <1>2, <1>t DEF TypeFiles, Open
<1>3. CASE Admit(r) BY <1>3, <1>t DEF TypeFiles, Admit
<1>4. CASE Load(r) BY <1>4, <1>t DEF TypeFiles, Load
<1>5. CASE VerifyParent(r) BY <1>5, <1>t DEF TypeFiles, VerifyParent
<1>6. CASE Restore(r) BY <1>6, <1>t DEF TypeFiles, Restore
<1>7. CASE TrainBegin(r) BY <1>7, <1>t DEF TypeFiles, TrainBegin
<1>8. CASE TrainStep(r) BY <1>8, <1>t DEF TypeFiles, TrainStep
<1>9. CASE SaveCheckpoint(r)
  <2>1. step[r] \in Steps
    BY <1>9, <1>s DEF SaveCheckpoint, WrittenInv, Steps
  <2>2. Trace(r) \in Seq(Steps)
    BY <1>t DEF Trace, TypeTrainer
  <2>3. Saved(r, TRUE) \in Directories /\ Saved(r, FALSE) \in Directories
        /\ Remains("temp") \in Directories
    BY <2>2, DirectoryType, EmptySeq DEF Saved
  <2>4. disk' \in [Runs -> [Steps -> Directories]]
    <3>1. \E d \in Directories : SetDirectory(r, step[r], d)
      BY <1>9, <2>3 DEF SaveCheckpoint
    <3> QED BY <3>1, <2>1, <1>t, SetDirectoryType
  <2> QED BY <1>9, <2>4, <1>t DEF SaveCheckpoint, TypeFiles
<1>10. CASE Publish(r)
  <2>1. step[r] \in Steps
    BY <1>10, <1>s DEF Publish, WrittenInv, Steps
  <2> DEFINE d == disk[r][step[r]]
             whole == Directory("whole", d.trace, d.cursor)
  <2>2. d \in Directories
    BY <2>1, <1>w
  <2>3. d.trace \in Seq(Steps) /\ d.cursor \in BOOLEAN
    BY <2>2 DEF Directories
  <2>4. whole \in Directories
    BY <2>3, DirectoryType
  <2>5. CASE SetDirectory(r, step[r], whole)
           /\ written' = Set(written, r, Append(written[r], step[r]))
    <3>1. disk' \in [Runs -> [Steps -> Directories]]
      BY <2>1, <2>4, <2>5, <1>t, SetDirectoryType
    <3>2. Append(written[r], step[r]) \in Seq(Steps)
      BY <2>1, <1>w
    <3>3. written' \in [Runs -> Seq(Steps)]
      BY <2>5, <3>2, <1>t, SetType DEF TypeFiles
    <3> QED BY <3>1, <3>3 DEF TypeFiles
  <2>6. CASE UNCHANGED <<disk, written>>
    BY <2>6, <1>t DEF TypeFiles
  <2> QED BY <1>10, <2>5, <2>6 DEF Publish
<1>11. CASE Prune(r)
  <2>1. CASE Len(written[r]) > KeepLast
    <3>1. written[r] # <<>>
      BY <2>1, <1>w, TrainingAssumption
    <3>2. Head(written[r]) \in Steps /\ Tail(written[r]) \in Seq(Steps)
      BY <3>1, <1>w, HeadTailProperties
    <3>3. Remains("partial") \in Directories
      BY DirectoryType, EmptySeq
    <3>4. disk' \in [Runs -> [Steps -> Directories]]
      BY <1>11, <2>1, <3>2, <3>3, <1>t, SetDirectoryType DEF Prune
    <3>5. written' \in [Runs -> Seq(Steps)]
      BY <1>11, <2>1, <3>2, <1>t DEF Prune, TypeFiles, Set
    <3> QED BY <3>4, <3>5 DEF TypeFiles
  <2>2. CASE ~(Len(written[r]) > KeepLast)
    BY <1>11, <2>2, <1>t DEF Prune, TypeFiles
  <2> QED BY <2>1, <2>2
<1>12. CASE Unlink(r)
  <2> DEFINE left == [k \in Steps |-> IF disk[r][k].status = "partial" THEN Absent ELSE disk[r][k]]
  <2>1. Absent \in Directories
    BY DirectoryType, EmptySeq DEF Absent
  <2>2. left \in [Steps -> Directories]
    BY <2>1, <1>w
  <2>3. disk' = Set(disk, r, left) \/ UNCHANGED disk
    BY <1>12 DEF Unlink, Set
  <2> HIDE DEF left
  <2>4. disk' \in [Runs -> [Steps -> Directories]]
    BY <2>2, <2>3, <1>t DEF Set, TypeFiles
  <2> QED BY <1>12, <2>4, <1>t DEF Unlink, TypeFiles
<1>13. CASE Log(r) BY <1>13, <1>t DEF TypeFiles, Log
<1>14. CASE Finish(r) BY <1>14, <1>t DEF TypeFiles, Finish
<1>15. CASE Export(r) BY <1>15, <1>t DEF TypeFiles, Export
<1>16. CASE Fails(r) BY <1>16, <1>t DEF TypeFiles, Fails
<1>17. CASE Validate(r) BY <1>17, <1>t DEF TypeFiles, Validate
<1>18. CASE PersistArtifact(r) BY <1>18, <1>t DEF TypeFiles, PersistArtifact
<1>19. CASE Promote(r) BY <1>19, <1>t DEF TypeFiles, Promote
<1>20. CASE Reverify(r) BY <1>20, <1>t DEF TypeFiles, Reverify
<1>21. CASE Rehash(r) BY <1>21, <1>t DEF TypeFiles, Rehash
<1>22. CASE RecordVerdict(r) BY <1>22, <1>t DEF TypeFiles, RecordVerdict
<1>23. CASE RetryRecord(r) BY <1>23, <1>t DEF TypeFiles, RetryRecord
<1>24. CASE EmitTerminal(r) BY <1>24, <1>t DEF TypeFiles, EmitTerminal
<1>25. CASE RewriteNote(r) BY <1>25, <1>t DEF TypeFiles, RewriteNote
<1>26. CASE Cancel(r) BY <1>26, <1>t DEF TypeFiles, Cancel
<1>27. CASE Crash(r) BY <1>27, <1>t DEF TypeFiles, Crash
<1> QED
  BY <1>1, <1>2, <1>3, <1>4, <1>5, <1>6, <1>7, <1>8, <1>9, <1>10, <1>11, <1>12, <1>13, <1>14,
     <1>15, <1>16, <1>17, <1>18, <1>19, <1>20, <1>21, <1>22, <1>23, <1>24, <1>25, <1>26, <1>27
  DEF Progress

LEMMA VerdictType ==
  ASSUME TypeOK, NEW r \in Runs, WrittenInv(r),
         Dispatch(r) \/ Progress(r) \/ Cancel(r) \/ Crash(r)
  PROVE  TypeVerdict'
<1>t. TypeFiles /\ TypeControl /\ TypeTrainer /\ TypeVerdict /\ TypeDurable
  BY TypeParts
<1> USE DEF Set, Raise, verdict, Outcomes
<1>1. CASE Dispatch(r) BY <1>1, <1>t DEF TypeVerdict, Dispatch
<1>2. CASE Open(r) BY <1>2, <1>t DEF TypeVerdict, Open
<1>3. CASE Admit(r) BY <1>3, <1>t DEF TypeVerdict, Admit
<1>4. CASE Load(r) BY <1>4, <1>t DEF TypeVerdict, Load
<1>5. CASE VerifyParent(r) BY <1>5, <1>t DEF TypeVerdict, VerifyParent
<1>6. CASE Restore(r) BY <1>6, <1>t DEF TypeVerdict, Restore
<1>7. CASE TrainBegin(r) BY <1>7, <1>t DEF TypeVerdict, TrainBegin
<1>8. CASE TrainStep(r) BY <1>8, <1>t DEF TypeVerdict, TrainStep
<1>9. CASE SaveCheckpoint(r) BY <1>9, <1>t DEF TypeVerdict, SaveCheckpoint
<1>10. CASE Publish(r) BY <1>10, <1>t DEF TypeVerdict, Publish
<1>11. CASE Prune(r) BY <1>11, <1>t DEF TypeVerdict, Prune
<1>12. CASE Unlink(r) BY <1>12, <1>t DEF TypeVerdict, Unlink
<1>13. CASE Log(r) BY <1>13, <1>t DEF TypeVerdict, Log
<1>14. CASE Finish(r) BY <1>14, <1>t DEF TypeVerdict, Finish
<1>15. CASE Export(r)
  <2>1. {written[r][i] : i \in DOMAIN written[r]} \subseteq Steps
    BY <1>t DEF TypeFiles
  <2> QED BY <1>15, <2>1, <1>t DEF TypeVerdict, Export
<1>16. CASE Fails(r) BY <1>16, <1>t DEF TypeVerdict, Fails
<1>17. CASE Validate(r) BY <1>17, <1>t DEF TypeVerdict, Validate
<1>18. CASE PersistArtifact(r) BY <1>18, <1>t DEF TypeVerdict, PersistArtifact
<1>19. CASE Promote(r) BY <1>19, <1>t DEF TypeVerdict, Promote
<1>20. CASE Reverify(r) BY <1>20, <1>t DEF TypeVerdict, Reverify
<1>21. CASE Rehash(r)
  <2>1. request[r] \in Parents \cup {None}
    BY <1>t DEF TypeControl
  <2> QED BY <1>21, <2>1, <1>t DEF TypeVerdict, Rehash
<1>22. CASE RecordVerdict(r) BY <1>22, <1>t DEF TypeVerdict, RecordVerdict
<1>23. CASE RetryRecord(r) BY <1>23, <1>t DEF TypeVerdict, RetryRecord
<1>24. CASE EmitTerminal(r) BY <1>24, <1>t DEF TypeVerdict, EmitTerminal
<1>25. CASE RewriteNote(r) BY <1>25, <1>t DEF TypeVerdict, RewriteNote
<1>26. CASE Cancel(r) BY <1>26, <1>t DEF TypeVerdict, Cancel
<1>27. CASE Crash(r) BY <1>27, <1>t DEF TypeVerdict, Crash
<1> QED
  BY <1>1, <1>2, <1>3, <1>4, <1>5, <1>6, <1>7, <1>8, <1>9, <1>10, <1>11, <1>12, <1>13, <1>14,
     <1>15, <1>16, <1>17, <1>18, <1>19, <1>20, <1>21, <1>22, <1>23, <1>24, <1>25, <1>26, <1>27
  DEF Progress

LEMMA DurableType ==
  ASSUME TypeOK, NEW r \in Runs, VerdictInv(r),
         Dispatch(r) \/ Progress(r) \/ Cancel(r) \/ Crash(r)
  PROVE  TypeDurable'
<1>t. TypeFiles /\ TypeControl /\ TypeTrainer /\ TypeVerdict /\ TypeDurable
  BY TypeParts
<1>r. ASSUME pc[r] \in Closing, WriteRecord(r) PROVE record' \in [Runs -> Manifests \cup {None}]
  <2>1. Manifest(r) \in Manifests
    BY <1>r, ManifestType DEF VerdictInv
  <2> QED BY <1>r, <2>1, <1>t, SetType DEF WriteRecord, TypeDurable
<1> USE DEF durable
<1>1. CASE Dispatch(r) BY <1>1, <1>t DEF TypeDurable, Dispatch
<1>2. CASE Open(r) BY <1>2, <1>t DEF TypeDurable, Open
<1>3. CASE Admit(r) BY <1>3, <1>t DEF TypeDurable, Admit
<1>4. CASE Load(r) BY <1>4, <1>t DEF TypeDurable, Load
<1>5. CASE VerifyParent(r) BY <1>5, <1>t DEF TypeDurable, VerifyParent
<1>6. CASE Restore(r) BY <1>6, <1>t DEF TypeDurable, Restore
<1>7. CASE TrainBegin(r) BY <1>7, <1>t DEF TypeDurable, TrainBegin
<1>8. CASE TrainStep(r) BY <1>8, <1>t DEF TypeDurable, TrainStep
<1>9. CASE SaveCheckpoint(r) BY <1>9, <1>t DEF TypeDurable, SaveCheckpoint
<1>10. CASE Publish(r) BY <1>10, <1>t DEF TypeDurable, Publish
<1>11. CASE Prune(r) BY <1>11, <1>t DEF TypeDurable, Prune
<1>12. CASE Unlink(r) BY <1>12, <1>t DEF TypeDurable, Unlink
<1>13. CASE Log(r) BY <1>13, <1>t DEF TypeDurable, Log
<1>14. CASE Finish(r) BY <1>14, <1>t DEF TypeDurable, Finish
<1>15. CASE Export(r) BY <1>15, <1>t DEF TypeDurable, Export
<1>16. CASE Fails(r) BY <1>16, <1>t DEF TypeDurable, Fails
<1>17. CASE Validate(r) BY <1>17, <1>t DEF TypeDurable, Validate
<1>18. CASE PersistArtifact(r) BY <1>18, <1>t DEF TypeDurable, PersistArtifact
<1>19. CASE Promote(r) BY <1>19, <1>t DEF TypeDurable, Promote
<1>20. CASE Reverify(r) BY <1>20, <1>t DEF TypeDurable, Reverify
<1>21. CASE Rehash(r) BY <1>21, <1>t DEF TypeDurable, Rehash
<1>22. CASE RecordVerdict(r) BY <1>22, <1>t, <1>r DEF TypeDurable, RecordVerdict, Closing
<1>23. CASE RetryRecord(r) BY <1>23, <1>t, <1>r DEF TypeDurable, RetryRecord, Closing
<1>24. CASE EmitTerminal(r)
  <2>1. state[r] \in Outcomes
    BY <1>24 DEF EmitTerminal, VerdictInv, Closing
  <2>2. answer' \in [Runs -> Outcomes \cup {None}]
    BY <1>24, <2>1, <1>t, SetType DEF EmitTerminal, TypeDurable
  <2> QED BY <1>24, <2>2, <1>t DEF EmitTerminal, TypeDurable
<1>25. CASE RewriteNote(r) BY <1>25, <1>t, <1>r DEF TypeDurable, RewriteNote, Closing
<1>26. CASE Cancel(r) BY <1>26, <1>t DEF TypeDurable, Cancel
<1>27. CASE Crash(r) BY <1>27, <1>t DEF TypeDurable, Crash
<1> QED
  BY <1>1, <1>2, <1>3, <1>4, <1>5, <1>6, <1>7, <1>8, <1>9, <1>10, <1>11, <1>12, <1>13, <1>14,
     <1>15, <1>16, <1>17, <1>18, <1>19, <1>20, <1>21, <1>22, <1>23, <1>24, <1>25, <1>26, <1>27
  DEF Progress

-----------------------------------------------------------------------------
(* Checkpoints on disk *)

LEMMA PointTypes ==
  ASSUME TypeOK, NEW r \in Runs
  PROVE  /\ disk[r] \in [Steps -> Directories] /\ written[r] \in Seq(Steps)
         /\ step[r] \in 0..MaxSteps /\ prior[r] \in Seq(Steps) /\ completed[r] \in Seq(Steps)
         /\ request[r] \in Parents \cup {None} /\ moved[r] \in BOOLEAN /\ learned[r] \in BOOLEAN
         /\ DOMAIN disk = Runs /\ DOMAIN request = Runs /\ DOMAIN pc = Runs /\ DOMAIN step = Runs
         /\ DOMAIN prior = Runs /\ DOMAIN completed = Runs /\ DOMAIN moved = Runs
         /\ DOMAIN learned = Runs /\ DOMAIN written = Runs /\ DOMAIN state = Runs
         /\ DOMAIN proven = Runs /\ DOMAIN listed = Runs /\ DOMAIN artifact = Runs
         /\ DOMAIN lineage = Runs /\ DOMAIN record = Runs /\ DOMAIN answer = Runs
BY DEF TypeOK, Directories

LEMMA StepsAreNumbers == MaxSteps \in Nat /\ Steps \subseteq Nat \ {0}
BY TrainingAssumption DEF Steps

LEMMA WrittenNumbers ==
  ASSUME TypeOK, NEW r \in Runs
  PROVE  /\ step[r] \in Nat /\ Len(written[r]) \in Nat
         /\ \A i \in 1..Len(written[r]) : written[r][i] \in Steps /\ written[r][i] \in Nat
<1>1. step[r] \in Nat /\ written[r] \in Seq(Steps)
  BY PointTypes, StepsAreNumbers
<1>2. Len(written[r]) \in Nat /\ \A i \in 1..Len(written[r]) : written[r][i] \in Steps
  BY <1>1, LenProperties, ElementOfSeq
<1> QED BY <1>1, <1>2, StepsAreNumbers

\* A step that changes neither the checkpoints nor the list of them.
LEMMA FilesRest ==
  ASSUME TypeOK, NEW r \in Runs, WrittenInv(r),
         disk'[r] = disk[r], written'[r] = written[r], step'[r] \in Nat, step'[r] >= step[r],
         pc'[r] \in {"save", "publish"} => pc[r] \in {"save", "publish"} \/ step'[r] > step[r]
  PROVE  WrittenInv(r)' /\ Whole(r)' = Whole(r)
<1>1. Whole(r)' = Whole(r) /\ WrittenSet(r)' = WrittenSet(r)
  BY DEF Whole, WrittenSet
<1> QED BY <1>1, WrittenNumbers DEF WrittenInv

LEMMA OneDirectory ==
  ASSUME TypeOK, NEW r \in Runs, NEW k \in Steps, NEW d, SetDirectory(r, k, d)
  PROVE  /\ disk'[r][k] = d
         /\ \A j \in Steps : j # k => disk'[r][j] = disk[r][j]
         /\ Whole(r)' = IF d.status = "whole" THEN Whole(r) \cup {k} ELSE Whole(r) \ {k}
<1>1. disk'[r] = Set(disk[r], k, d)
  BY PointTypes DEF SetDirectory, Set
<1>2. disk[r] \in [Steps -> Directories]
  BY PointTypes
<1>3. disk'[r][k] = d /\ \A j \in Steps : j # k => disk'[r][j] = disk[r][j]
  BY <1>1, <1>2 DEF Set
<1> QED BY <1>3 DEF Whole

\* The directory that a checkpoint is saved into is none of the published ones.
LEMMA SaveEffect ==
  ASSUME TypeOK, NEW r \in Runs, WrittenInv(r), SaveCheckpoint(r)
  PROVE  /\ step[r] \in Steps /\ step[r] \notin Whole(r) /\ Whole(r)' = Whole(r)
         /\ \A k \in Steps : k # step[r] => disk'[r][k] = disk[r][k]
         /\ pc'[r] = "publish" => disk'[r][step[r]].trace = Trace(r)
         /\ pc'[r] \in {"publish", "log"}
<1>1. step[r] \in Steps
  BY PointTypes, TrainingAssumption DEF SaveCheckpoint, WrittenInv, Steps
<1>2. step[r] \notin Whole(r)
  <2>1. ASSUME NEW i \in 1..Len(written[r]) PROVE written[r][i] # step[r]
    BY WrittenNumbers DEF SaveCheckpoint, WrittenInv
  <2> QED BY <2>1 DEF WrittenInv, WrittenSet
<1>3. PICK d : /\ SetDirectory(r, step[r], d) /\ d.status = "temp"
               /\ \/ pc'[r] = "publish" /\ d.trace = Trace(r)
                  \/ pc'[r] = "log"
  BY PointTypes DEF SaveCheckpoint, Saved, Remains, Directory, Go, Set
<1> QED BY <1>1, <1>2, <1>3, OneDirectory

LEMMA PublishEffect ==
  ASSUME TypeOK, NEW r \in Runs, WrittenInv(r), Publish(r)
  PROVE  /\ step[r] \in Steps
         /\ \/ /\ Whole(r)' = Whole(r) \cup {step[r]} /\ written'[r] = Append(written[r], step[r])
               /\ disk'[r][step[r]].trace = disk[r][step[r]].trace
               /\ \A k \in Steps : k # step[r] => disk'[r][k] = disk[r][k]
               /\ pc'[r] = "prune"
            \/ UNCHANGED <<disk, written>> /\ pc'[r] = "log"
<1>1. step[r] \in Steps
  BY PointTypes, TrainingAssumption DEF Publish, WrittenInv, Steps
<1> DEFINE d == disk[r][step[r]]
           whole == Directory("whole", d.trace, d.cursor)
<1>2. CASE /\ SetDirectory(r, step[r], whole)
           /\ written' = Set(written, r, Append(written[r], step[r])) /\ Go(r, "prune")
  <2>1. whole.status = "whole" /\ whole.trace = disk[r][step[r]].trace
    BY DEF Directory
  <2> HIDE DEF whole
  <2>2. written'[r] = Append(written[r], step[r]) /\ pc'[r] = "prune"
    BY <1>2, PointTypes DEF Set, Go
  <2> QED BY <1>1, <1>2, <2>1, <2>2, OneDirectory
<1>3. CASE Go(r, "log") /\ UNCHANGED <<disk, written>>
  BY <1>1, <1>3, PointTypes DEF Set, Go
<1> QED BY <1>2, <1>3 DEF Publish

LEMMA PruneEffect ==
  ASSUME TypeOK, NEW r \in Runs, WrittenInv(r), Prune(r)
  PROVE  \/ /\ Len(written[r]) > 1 /\ written'[r] = Tail(written[r])
            /\ Head(written[r]) \in Steps /\ Whole(r)' = Whole(r) \ {Head(written[r])}
            /\ \A k \in Steps : k # Head(written[r]) => disk'[r][k] = disk[r][k]
            /\ pc'[r] = "unlink"
         \/ UNCHANGED <<disk, written>> /\ pc'[r] = "log"
<1>1. CASE Len(written[r]) > KeepLast
  <2>1. Len(written[r]) > 1 /\ written[r] # <<>> /\ written[r] \in Seq(Steps)
    BY <1>1, PointTypes, WrittenNumbers, TrainingAssumption
  <2>2. Head(written[r]) \in Steps
    BY <2>1, HeadTailProperties
  <2>3. /\ SetDirectory(r, Head(written[r]), Remains("partial"))
        /\ Remains("partial").status # "whole"
        /\ written'[r] = Tail(written[r]) /\ pc'[r] = "unlink"
    BY <1>1, PointTypes DEF Prune, Go, Set, Remains, Directory
  <2> QED BY <2>1, <2>2, <2>3, OneDirectory
<1>2. CASE ~(Len(written[r]) > KeepLast)
  BY <1>2, PointTypes DEF Prune, Go, Set
<1> QED BY <1>1, <1>2

LEMMA UnlinkEffect ==
  ASSUME TypeOK, NEW r \in Runs, Unlink(r)
  PROVE  /\ Whole(r)' = Whole(r) /\ \A k \in Whole(r) : disk'[r][k] = disk[r][k]
         /\ written'[r] = written[r] /\ pc'[r] = "log"
<1>1. written'[r] = written[r] /\ pc'[r] = "log"
  BY PointTypes DEF Unlink, Go, Set
<1>2. \/ disk'[r] = disk[r]
      \/ disk'[r] = [k \in Steps |->
                       IF disk[r][k].status = "partial" THEN Absent ELSE disk[r][k]]
  BY PointTypes DEF Unlink
<1>3. Absent.status # "whole"
  BY DEF Absent, Remains, Directory
<1> QED BY <1>1, <1>2, <1>3 DEF Whole

LEMMA WrittenStep ==
  ASSUME TypeOK, NEW r \in Runs, WrittenInv(r), TraceInv(r),
         Dispatch(r) \/ Progress(r) \/ Cancel(r) \/ Crash(r)
  PROVE  WrittenInv(r)'
<1>t. /\ DOMAIN disk = Runs /\ DOMAIN pc = Runs /\ DOMAIN step = Runs /\ DOMAIN written = Runs
      /\ step[r] \in Nat
  BY PointTypes
<1>w. /\ Len(written[r]) \in Nat
      /\ \A i \in 1..Len(written[r]) : written[r][i] \in Steps /\ written[r][i] \in Nat
  BY WrittenNumbers
<1>s. written[r] \in Seq(Steps)
  BY PointTypes
<1> USE DEF Go, Set, Raise, trainer
<1>1. CASE Dispatch(r) BY <1>1, <1>t, FilesRest DEF Dispatch
<1>2. CASE Open(r) BY <1>2, <1>t, FilesRest DEF Open
<1>3. CASE Admit(r) BY <1>3, <1>t, FilesRest DEF Admit
<1>4. CASE Load(r) BY <1>4, <1>t, FilesRest DEF Load
<1>5. CASE VerifyParent(r) BY <1>5, <1>t, FilesRest DEF VerifyParent
<1>6. CASE Restore(r)
  <2>1. request[r] \in Parents /\ step[r] = 0
    BY <1>6, PointTypes DEF Restore, TraceInv, Early
  <2>2. request[r].step \in Nat
    BY <2>1, StepsAreNumbers DEF Parents
  <2> QED BY <1>6, <1>t, <2>1, <2>2, FilesRest DEF Restore
<1>7. CASE TrainBegin(r) BY <1>7, <1>t, FilesRest DEF TrainBegin
<1>8. CASE TrainStep(r) BY <1>8, <1>t, FilesRest DEF TrainStep
<1>9. CASE SaveCheckpoint(r)
  <2>1. UNCHANGED <<written, step>> /\ \A i \in 1..Len(written[r]) : written[r][i] < step[r]
    BY <1>9 DEF SaveCheckpoint, WrittenInv
  <2>2. Whole(r)' = Whole(r) /\ step[r] \in Nat \ {0}
    BY <1>9, SaveEffect, StepsAreNumbers
  <2>3. WrittenSet(r)' = WrittenSet(r)
    BY <2>1 DEF WrittenSet
  <2> QED BY <1>t, <1>w, <2>1, <2>2, <2>3 DEF WrittenInv
<1>10. CASE Publish(r)
  <2>1. step' = step /\ \A i \in 1..Len(written[r]) : written[r][i] < step[r]
    BY <1>10 DEF Publish, WrittenInv
  <2>2. CASE /\ Whole(r)' = Whole(r) \cup {step[r]} /\ written'[r] = Append(written[r], step[r])
             /\ pc'[r] = "prune" /\ step[r] \in Steps
    <3>1. /\ Len(written'[r]) = Len(written[r]) + 1
          /\ \A i \in 1..Len(written[r]) : written'[r][i] = written[r][i]
          /\ written'[r][Len(written[r]) + 1] = step[r]
      BY <1>s, <2>2, AppendProperties
    <3>2. 1..Len(written'[r]) = 1..Len(written[r]) \cup {Len(written[r]) + 1}
      BY <3>1, <1>w
    <3>3. WrittenSet(r)' = WrittenSet(r) \cup {step[r]}
      BY <3>1, <3>2 DEF WrittenSet
    <3>4. \A i, j \in 1..Len(written'[r]) : i < j => written'[r][i] < written'[r][j]
      BY <3>1, <3>2, <1>w, <2>1 DEF WrittenInv
    <3>5. \A i \in 1..Len(written'[r]) : written'[r][i] <= step[r]
      BY <3>1, <3>2, <1>w, <1>t, <2>1
    <3> QED BY <2>1, <2>2, <3>3, <3>4, <3>5 DEF WrittenInv
  <2>3. CASE UNCHANGED <<disk, written>> /\ pc'[r] = "log"
    BY <1>t, <2>1, <2>3, FilesRest
  <2> QED BY <1>10, <2>2, <2>3, PublishEffect
<1>11. CASE Prune(r)
  <2>1. step' = step
    BY <1>11 DEF Prune
  <2>2. CASE /\ Len(written[r]) > 1 /\ written'[r] = Tail(written[r])
             /\ Whole(r)' = Whole(r) \ {Head(written[r])} /\ pc'[r] = "unlink"
    <3>1. /\ Len(written'[r]) = Len(written[r]) - 1 /\ Head(written[r]) = written[r][1]
          /\ \A i \in 1..Len(written[r]) - 1 : written'[r][i] = written[r][i + 1]
      BY <1>s, <1>w, <2>2, HeadTailProperties
    <3>2. WrittenSet(r)' = {written[r][i] : i \in 2..Len(written[r])}
      <4>1. WrittenSet(r)' = {written[r][i + 1] : i \in 1..Len(written[r]) - 1}
        BY <3>1 DEF WrittenSet
      <4>2. \A i \in 1..Len(written[r]) - 1 : i + 1 \in 2..Len(written[r])
        BY <1>w
      <4>3. \A i \in 2..Len(written[r]) : i - 1 \in 1..Len(written[r]) - 1 /\ (i - 1) + 1 = i
        BY <1>w
      <4> QED BY <4>1, <4>2, <4>3
    <3>3. \A i \in 2..Len(written[r]) : written[r][i] # written[r][1]
      BY <1>w, <2>2 DEF WrittenInv
    <3>4. WrittenSet(r) = {written[r][i] : i \in 2..Len(written[r])} \cup {written[r][1]}
      <4>1. 1..Len(written[r]) = 2..Len(written[r]) \cup {1}
        BY <1>w, <2>2
      <4> QED BY <4>1 DEF WrittenSet
    <3>5. WrittenSet(r)' = WrittenSet(r) \ {Head(written[r])}
      BY <3>1, <3>2, <3>3, <3>4
    <3>6. /\ \A i, j \in 1..Len(written'[r]) : i < j => written'[r][i] < written'[r][j]
          /\ \A i \in 1..Len(written'[r]) : written'[r][i] <= step[r]
      BY <3>1, <1>w DEF WrittenInv
    <3> QED BY <2>1, <2>2, <3>5, <3>6 DEF WrittenInv
  <2>3. CASE UNCHANGED <<disk, written>> /\ pc'[r] = "log"
    BY <1>t, <2>1, <2>3, FilesRest
  <2> QED BY <1>11, <2>2, <2>3, PruneEffect
<1>12. CASE Unlink(r)
  <2>1. step' = step /\ WrittenSet(r)' = WrittenSet(r)
    BY <1>12, UnlinkEffect DEF Unlink, WrittenSet
  <2> QED BY <1>12, <2>1, UnlinkEffect DEF WrittenInv
<1>13. CASE Log(r) BY <1>13, <1>t, FilesRest DEF Log
<1>14. CASE Finish(r) BY <1>14, <1>t, FilesRest DEF Finish
<1>15. CASE Export(r) BY <1>15, <1>t, FilesRest DEF Export
<1>16. CASE Fails(r) BY <1>16, <1>t, FilesRest DEF Fails
<1>17. CASE Validate(r) BY <1>17, <1>t, FilesRest DEF Validate
<1>18. CASE PersistArtifact(r) BY <1>18, <1>t, FilesRest DEF PersistArtifact
<1>19. CASE Promote(r) BY <1>19, <1>t, FilesRest DEF Promote
<1>20. CASE Reverify(r) BY <1>20, <1>t, FilesRest DEF Reverify
<1>21. CASE Rehash(r) BY <1>21, <1>t, FilesRest DEF Rehash
<1>22. CASE RecordVerdict(r) BY <1>22, <1>t, FilesRest DEF RecordVerdict
<1>23. CASE RetryRecord(r) BY <1>23, <1>t, FilesRest DEF RetryRecord
<1>24. CASE EmitTerminal(r) BY <1>24, <1>t, FilesRest DEF EmitTerminal
<1>25. CASE RewriteNote(r) BY <1>25, <1>t, FilesRest DEF RewriteNote
<1>26. CASE Cancel(r) BY <1>26, <1>t, FilesRest DEF Cancel
<1>27. CASE Crash(r) BY <1>27, <1>t, FilesRest DEF Crash
<1> QED
  BY <1>1, <1>2, <1>3, <1>4, <1>5, <1>6, <1>7, <1>8, <1>9, <1>10, <1>11, <1>12, <1>13, <1>14,
     <1>15, <1>16, <1>17, <1>18, <1>19, <1>20, <1>21, <1>22, <1>23, <1>24, <1>25, <1>26, <1>27
  DEF Progress

\* Every step outside the checkpoint callbacks keeps the published checkpoints as they are, and
\* the callbacks happen only while nothing is listed.
LEMMA WholeKept ==
  ASSUME TypeOK, NEW r \in Runs, WrittenInv(r),
         Dispatch(r) \/ Progress(r) \/ Cancel(r) \/ Crash(r)
  PROVE  /\ pc[r] # "prune" => Whole(r) \subseteq Whole(r)'
         /\ \A k \in Whole(r) \cap Whole(r)' : disk'[r][k] = disk[r][k]
         /\ \A k \in Whole(r)' \ Whole(r) :
              pc[r] = "publish" /\ k = step[r] /\ disk'[r][k].trace = disk[r][k].trace
<1>1. CASE UNCHANGED disk
  BY <1>1 DEF Whole
<1>2. CASE SaveCheckpoint(r)
  BY <1>2, SaveEffect DEF Whole
<1>3. CASE Publish(r)
  <2>1. pc[r] = "publish" /\ (UNCHANGED disk => Whole(r)' = Whole(r))
    BY <1>3 DEF Publish, Whole
  <2>2. Whole(r) \subseteq Steps
    BY DEF Whole
  <2>3. CASE UNCHANGED disk
    BY <2>1, <2>3 DEF Whole
  <2>4. CASE /\ step[r] \in Steps /\ Whole(r)' = Whole(r) \cup {step[r]}
             /\ disk'[r][step[r]].trace = disk[r][step[r]].trace
             /\ \A k \in Steps : k # step[r] => disk'[r][k] = disk[r][k]
    <3>1. step[r] \notin Whole(r)
      BY <1>3, WrittenNumbers DEF WrittenInv, WrittenSet, Publish
    <3> QED BY <2>1, <2>2, <2>4, <3>1
  <2> QED BY <1>3, <2>3, <2>4, PublishEffect
<1>4. CASE Prune(r)
  BY <1>4, PruneEffect DEF Whole, Prune
<1>5. CASE Unlink(r)
  BY <1>5, UnlinkEffect DEF Whole
<1> QED
  BY <1>1, <1>2, <1>3, <1>4, <1>5
  DEF Dispatch, Progress, Cancel, Crash, Open, Admit, Load, VerifyParent, Restore, TrainBegin,
      TrainStep, Log, Finish, Export, Fails, Validate, PersistArtifact, Promote, Reverify, Rehash,
      RecordVerdict, RetryRecord, EmitTerminal, RewriteNote

LEMMA ListedStep ==
  ASSUME TypeOK, NEW r \in Runs, WrittenInv(r), ListedInv(r),
         Dispatch(r) \/ Progress(r) \/ Cancel(r) \/ Crash(r)
  PROVE  ListedInv(r)'
<1>t. DOMAIN pc = Runs /\ DOMAIN listed = Runs
  BY PointTypes
<1>w. pc[r] # "prune" => Whole(r) \subseteq Whole(r)'
  BY WholeKept
<1> USE DEF Go, Set, Raise, verdict, Early, Loop
<1>1. CASE Dispatch(r) BY <1>1, <1>t, <1>w DEF ListedInv, Dispatch
<1>2. CASE Open(r) BY <1>2, <1>t, <1>w DEF ListedInv, Open
<1>3. CASE Admit(r) BY <1>3, <1>t, <1>w DEF ListedInv, Admit
<1>4. CASE Load(r) BY <1>4, <1>t, <1>w DEF ListedInv, Load
<1>5. CASE VerifyParent(r) BY <1>5, <1>t, <1>w DEF ListedInv, VerifyParent
<1>6. CASE Restore(r) BY <1>6, <1>t, <1>w DEF ListedInv, Restore
<1>7. CASE TrainBegin(r) BY <1>7, <1>t, <1>w DEF ListedInv, TrainBegin
<1>8. CASE TrainStep(r) BY <1>8, <1>t, <1>w DEF ListedInv, TrainStep
<1>9. CASE SaveCheckpoint(r) BY <1>9, <1>t, <1>w DEF ListedInv, SaveCheckpoint
<1>10. CASE Publish(r) BY <1>10, <1>t, <1>w DEF ListedInv, Publish
<1>11. CASE Prune(r) BY <1>11, <1>t, <1>w DEF ListedInv, Prune
<1>12. CASE Unlink(r) BY <1>12, <1>t, <1>w DEF ListedInv, Unlink
<1>13. CASE Log(r) BY <1>13, <1>t, <1>w DEF ListedInv, Log
<1>14. CASE Finish(r) BY <1>14, <1>t, <1>w DEF ListedInv, Finish
<1>15. CASE Export(r)
  <2>1. {written[r][i] : i \in DOMAIN written[r]} = WrittenSet(r)
    BY PointTypes, LenProperties DEF WrittenSet
  <2>2. listed'[r] = WrittenSet(r) /\ pc'[r] = "handback"
    BY <1>15, <1>t, <2>1 DEF Export
  <2> QED BY <1>15, <1>w, <2>2 DEF Export, ListedInv, WrittenInv
<1>16. CASE Fails(r) BY <1>16, <1>t, <1>w DEF ListedInv, Fails
<1>17. CASE Validate(r) BY <1>17, <1>t, <1>w DEF ListedInv, Validate
<1>18. CASE PersistArtifact(r) BY <1>18, <1>t, <1>w DEF ListedInv, PersistArtifact
<1>19. CASE Promote(r) BY <1>19, <1>t, <1>w DEF ListedInv, Promote
<1>20. CASE Reverify(r) BY <1>20, <1>t, <1>w DEF ListedInv, Reverify
<1>21. CASE Rehash(r) BY <1>21, <1>t, <1>w DEF ListedInv, Rehash
<1>22. CASE RecordVerdict(r) BY <1>22, <1>t, <1>w DEF ListedInv, RecordVerdict
<1>23. CASE RetryRecord(r) BY <1>23, <1>t, <1>w DEF ListedInv, RetryRecord
<1>24. CASE EmitTerminal(r) BY <1>24, <1>t, <1>w DEF ListedInv, EmitTerminal
<1>25. CASE RewriteNote(r) BY <1>25, <1>t, <1>w DEF ListedInv, RewriteNote
<1>26. CASE Cancel(r) BY <1>26, <1>t, <1>w DEF ListedInv, Cancel
<1>27. CASE Crash(r) BY <1>27, <1>t, <1>w DEF ListedInv, Crash
<1> QED
  BY <1>1, <1>2, <1>3, <1>4, <1>5, <1>6, <1>7, <1>8, <1>9, <1>10, <1>11, <1>12, <1>13, <1>14,
     <1>15, <1>16, <1>17, <1>18, <1>19, <1>20, <1>21, <1>22, <1>23, <1>24, <1>25, <1>26, <1>27
  DEF Progress

\* The next step is the one that the tracker expects.
LEMMA StepTraced ==
  ASSUME TypeOK, NEW r \in Runs, TraceInv(r), TrainStep(r)
  PROVE  /\ step'[r] = step[r] + 1 /\ step'[r] = ResumedFrom(r) + Len(completed[r]) + 1
         /\ completed'[r] = Append(completed[r], step'[r])
         /\ Len(completed'[r]) = Len(completed[r]) + 1
         /\ Trace(r)' = UpTo(step'[r])
         /\ pc'[r] \in {"save", "log"} /\ UNCHANGED <<state, proven>>
         /\ \E m \in BOOLEAN : moved'[r] = (moved[r] \/ m) /\ learned'[r] = (learned[r] \/ m)
<1>1. step[r] \in Nat /\ completed[r] \in Seq(Steps) /\ prior[r] \in Seq(Steps)
  BY PointTypes, StepsAreNumbers
<1>2. /\ step' = Set(step, r, step[r] + 1) /\ step'[r] = step[r] + 1 /\ step'[r] \in Steps
      /\ prior' = prior
  BY <1>1, PointTypes, StepsAreNumbers DEF TrainStep, Set, Steps
<1>3. Trace(r) = UpTo(step[r]) /\ step[r] = ResumedFrom(r) + Len(completed[r])
  BY DEF TraceInv, TrainStep, Loop
<1>4. step'[r] = ResumedFrom(r) + Len(completed[r]) + 1
  BY <1>2, <1>3
<1>5. /\ completed' = Set(completed, r, Append(completed[r], step'[r]))
      /\ \E m \in BOOLEAN : /\ moved' = Set(moved, r, moved[r] \/ m)
                            /\ learned' = Set(learned, r, learned[r] \/ m)
      /\ Go(r, IF IsDue(step'[r]) THEN "save" ELSE "log")
      /\ UNCHANGED <<state, proven>>
  BY <1>4 DEF TrainStep
<1>6. /\ completed'[r] = Append(completed[r], step'[r]) /\ pc'[r] \in {"save", "log"}
      /\ \E m \in BOOLEAN : moved'[r] = (moved[r] \/ m) /\ learned'[r] = (learned[r] \/ m)
  BY <1>5, PointTypes DEF Set, Go
<1>7. Len(completed'[r]) = Len(completed[r]) + 1
  BY <1>1, <1>2, <1>6, AppendProperties
<1>8. Trace(r)' = Append(Trace(r), step'[r])
  <2>1. ASSUME NEW e \in Steps
        PROVE  prior[r] \o Append(completed[r], e) = Append(prior[r] \o completed[r], e)
    <3> DEFINE p == prior[r]
               c == completed[r]
    <3>1. p \in Seq(Steps) /\ c \in Seq(Steps)
      BY <1>1
    <3> HIDE DEF p, c
    <3>2. p \o Append(c, e) = Append(p \o c, e)
      BY <3>1, ConcatOne
    <3> QED BY <3>2 DEF p, c
  <2> QED BY <1>2, <1>6, <2>1 DEF Trace
<1>9. Trace(r)' = UpTo(step'[r])
  BY <1>1, <1>2, <1>3, <1>8, UpToSteps
<1> QED BY <1>2, <1>4, <1>5, <1>6, <1>7, <1>9

\* The restored weights are exactly the steps up to the one that the checkpoint names.
LEMMA RestoreTraced ==
  ASSUME TypeOK, NEW r \in Runs, \A q \in Runs : TraceInv(q), Restore(r)
  PROVE  \/ /\ pc'[r] = "begin" /\ step'[r] = request[r].step /\ request[r] # None
            /\ prior'[r] = UpTo(step'[r]) /\ completed'[r] = <<>> /\ Trace(r)' = UpTo(step'[r])
            /\ step'[r] \in Nat
         \/ pc'[r] = "reverify" /\ UNCHANGED <<prior, step, moved>>
<1>1. request[r] \in Parents
  BY PointTypes DEF TraceInv, Restore
<1>2. request[r].run \in Runs /\ request[r].step \in Steps /\ request[r].step \in Nat
  BY <1>1, StepsAreNumbers DEF Parents
<1>3. completed'[r] = <<>>
  BY DEF TraceInv, Restore, Early
<1>4. CASE Verifies(request[r]) /\ disk[request[r].run][request[r].step].cursor
  <2>1. disk[request[r].run][request[r].step].trace = UpTo(request[r].step)
    BY <1>2, <1>4 DEF Verifies, Whole, TraceInv
  <2>2. /\ pc'[r] = "begin" /\ step'[r] = request[r].step
        /\ prior'[r] = UpTo(request[r].step)
    BY <1>4, <2>1, PointTypes DEF Restore, Go, Set
  <2>3. prior'[r] \o <<>> = prior'[r]
    BY <1>2, <2>2, UpToSteps, ConcatEmpty
  <2> QED BY <1>1, <1>2, <1>3, <2>2, <2>3 DEF Trace, Restore, TraceInv
<1>5. CASE ~(Verifies(request[r]) /\ disk[request[r].run][request[r].step].cursor)
  BY <1>5, PointTypes DEF Restore, Raise, Go, Set
<1> QED BY <1>4, <1>5

LEMMA TraceStep ==
  ASSUME TypeOK, NEW r \in Runs, WrittenInv(r), \A q \in Runs : TraceInv(q),
         Dispatch(r) \/ Progress(r) \/ Cancel(r) \/ Crash(r)
  PROVE  TraceInv(r)'
<1>t. /\ DOMAIN pc = Runs /\ DOMAIN step = Runs /\ DOMAIN prior = Runs
      /\ DOMAIN completed = Runs /\ DOMAIN request = Runs /\ TraceInv(r)
  BY PointTypes
<1>w. \A k \in Whole(r)' : disk'[r][k].trace = UpTo(k)
  BY WholeKept DEF TraceInv
<1> USE DEF Go, Set, Raise, trainer, Early, Loop
<1>1. CASE Dispatch(r) BY <1>1, <1>t, <1>w DEF TraceInv, Trace, ResumedFrom, Dispatch
<1>2. CASE Open(r) BY <1>2, <1>t, <1>w DEF TraceInv, Trace, ResumedFrom, Open
<1>3. CASE Admit(r) BY <1>3, <1>t, <1>w DEF TraceInv, Trace, ResumedFrom, Admit
<1>4. CASE Load(r)
  <2>1. UNCHANGED <<request, step, prior, completed>>
    BY <1>4 DEF Load
  <2>2. request[r] = None => Trace(r) = UpTo(0) /\ ResumedFrom(r) = 0 /\ Len(completed[r]) = 0
    <3>1. prior[r] = <<>> /\ completed[r] = <<>>
      BY <1>4, <1>t DEF Load, TraceInv
    <3>2. <<>> \o <<>> = <<>> /\ Len(<<>>) = 0
      OBVIOUS
    <3> QED BY <3>1, <3>2, UpToZero DEF Trace, ResumedFrom
  <2>3. pc'[r] = IF request[r] = None THEN "begin" ELSE "verify"
    BY <1>4, <1>t DEF Load
  <2> QED BY <1>4, <1>t, <1>w, <2>1, <2>2, <2>3 DEF Load, TraceInv, Trace, ResumedFrom
<1>5. CASE VerifyParent(r) BY <1>5, <1>t, <1>w DEF TraceInv, Trace, ResumedFrom, VerifyParent
<1>6. CASE Restore(r)
  <2>1. request' = request /\ ResumedFrom(r)' = ResumedFrom(r)
    BY <1>6 DEF Restore, ResumedFrom
  <2>2. CASE pc'[r] = "reverify"
    BY <1>w, <2>2 DEF TraceInv
  <2>3. CASE /\ pc'[r] = "begin" /\ step'[r] = request[r].step /\ request[r] # None
             /\ completed'[r] = <<>> /\ Trace(r)' = UpTo(step'[r]) /\ step'[r] \in Nat
    BY <1>w, <2>1, <2>3 DEF TraceInv, ResumedFrom
  <2> QED BY <1>6, <2>2, <2>3, RestoreTraced
<1>7. CASE TrainBegin(r) BY <1>7, <1>t, <1>w DEF TraceInv, Trace, ResumedFrom, TrainBegin
<1>8. CASE TrainStep(r)
  <2>1. ResumedFrom(r)' = ResumedFrom(r) /\ ResumedFrom(r) \in Nat /\ Len(completed[r]) \in Nat
    BY <1>8, PointTypes, StepsAreNumbers, LenProperties DEF TrainStep, ResumedFrom, Parents
  <2>2. /\ pc'[r] \in {"save", "log"} /\ Trace(r)' = UpTo(step'[r])
        /\ step'[r] = ResumedFrom(r)' + Len(completed'[r])
    <3>1. /\ pc'[r] \in {"save", "log"} /\ Trace(r)' = UpTo(step'[r])
          /\ step'[r] = ResumedFrom(r) + Len(completed[r]) + 1
          /\ Len(completed'[r]) = Len(completed[r]) + 1
      BY <1>8, <1>t, StepTraced
    <3> QED BY <2>1, <3>1
  <2> QED BY <1>w, <2>2 DEF TraceInv
<1>9. CASE SaveCheckpoint(r)
  <2>1. /\ UNCHANGED <<request, step, prior, completed>> /\ pc[r] = "save"
        /\ Trace(r)' = Trace(r) /\ ResumedFrom(r)' = ResumedFrom(r)
    BY <1>9 DEF SaveCheckpoint, Trace, ResumedFrom
  <2>2. Trace(r) = UpTo(step[r]) /\ step[r] = ResumedFrom(r) + Len(completed[r])
    BY <1>t, <2>1 DEF TraceInv
  <2> QED BY <1>9, <1>w, <2>1, <2>2, SaveEffect DEF TraceInv
<1>10. CASE Publish(r)
  <2>1. /\ UNCHANGED <<request, step, prior, completed>> /\ pc[r] = "publish"
        /\ pc'[r] \in {"prune", "log"}
    BY <1>10, PublishEffect DEF Publish
  <2> QED BY <1>t, <1>w, <2>1 DEF TraceInv, Trace, ResumedFrom
<1>11. CASE Prune(r) BY <1>11, <1>t, <1>w DEF TraceInv, Trace, ResumedFrom, Prune
<1>12. CASE Unlink(r) BY <1>12, <1>t, <1>w DEF TraceInv, Trace, ResumedFrom, Unlink
<1>13. CASE Log(r) BY <1>13, <1>t, <1>w DEF TraceInv, Trace, ResumedFrom, Log
<1>14. CASE Finish(r) BY <1>14, <1>t, <1>w DEF TraceInv, Trace, ResumedFrom, Finish
<1>15. CASE Export(r) BY <1>15, <1>t, <1>w DEF TraceInv, Trace, ResumedFrom, Export
<1>16. CASE Fails(r) BY <1>16, <1>t, <1>w DEF TraceInv, Trace, ResumedFrom, Fails
<1>17. CASE Validate(r) BY <1>17, <1>t, <1>w DEF TraceInv, Trace, ResumedFrom, Validate
<1>18. CASE PersistArtifact(r)
  BY <1>18, <1>t, <1>w DEF TraceInv, Trace, ResumedFrom, PersistArtifact
<1>19. CASE Promote(r) BY <1>19, <1>t, <1>w DEF TraceInv, Trace, ResumedFrom, Promote
<1>20. CASE Reverify(r) BY <1>20, <1>t, <1>w DEF TraceInv, Trace, ResumedFrom, Reverify
<1>21. CASE Rehash(r) BY <1>21, <1>t, <1>w DEF TraceInv, Trace, ResumedFrom, Rehash
<1>22. CASE RecordVerdict(r) BY <1>22, <1>t, <1>w DEF TraceInv, Trace, ResumedFrom, RecordVerdict
<1>23. CASE RetryRecord(r) BY <1>23, <1>t, <1>w DEF TraceInv, Trace, ResumedFrom, RetryRecord
<1>24. CASE EmitTerminal(r) BY <1>24, <1>t, <1>w DEF TraceInv, Trace, ResumedFrom, EmitTerminal
<1>25. CASE RewriteNote(r) BY <1>25, <1>t, <1>w DEF TraceInv, Trace, ResumedFrom, RewriteNote
<1>26. CASE Cancel(r) BY <1>26, <1>t, <1>w DEF TraceInv, Trace, ResumedFrom, Cancel
<1>27. CASE Crash(r) BY <1>27, <1>t, <1>w DEF TraceInv, Trace, ResumedFrom, Crash
<1> QED
  BY <1>1, <1>2, <1>3, <1>4, <1>5, <1>6, <1>7, <1>8, <1>9, <1>10, <1>11, <1>12, <1>13, <1>14,
     <1>15, <1>16, <1>17, <1>18, <1>19, <1>20, <1>21, <1>22, <1>23, <1>24, <1>25, <1>26, <1>27
  DEF Progress

LEMMA LearnedStep ==
  ASSUME TypeOK, NEW r \in Runs, TraceInv(r), LearnedInv(r), VerdictInv(r),
         Dispatch(r) \/ Progress(r) \/ Cancel(r) \/ Crash(r)
  PROVE  LearnedInv(r)'
<1>t. /\ DOMAIN pc = Runs /\ DOMAIN moved = Runs /\ DOMAIN learned = Runs /\ DOMAIN state = Runs
      /\ DOMAIN request = Runs /\ moved[r] \in BOOLEAN /\ learned[r] \in BOOLEAN
  BY PointTypes
<1> USE DEF Go, Set, Raise, trainer, Early, Loop, Trained, verdict
<1>1. CASE Dispatch(r)
  BY <1>1, <1>t DEF LearnedInv, VerdictInv, InRunner, Closing, Trace, Dispatch
<1>2. CASE Open(r) BY <1>2, <1>t DEF LearnedInv, VerdictInv, InRunner, Closing, Trace, Open
<1>3. CASE Admit(r) BY <1>3, <1>t DEF LearnedInv, VerdictInv, InRunner, Closing, Trace, Admit
<1>4. CASE Load(r) BY <1>4, <1>t DEF LearnedInv, VerdictInv, InRunner, Closing, Trace, Load
<1>5. CASE VerifyParent(r)
  BY <1>5, <1>t DEF LearnedInv, VerdictInv, InRunner, Closing, Trace, VerifyParent
<1>6. CASE Restore(r)
  <2>1. request[r] # None /\ pc[r] = "copy"
    BY <1>6 DEF Restore, TraceInv
  <2> QED BY <1>6, <1>t, <2>1 DEF LearnedInv, VerdictInv, InRunner, Restore
<1>7. CASE TrainBegin(r)
  BY <1>7, <1>t DEF LearnedInv, VerdictInv, InRunner, Closing, Trace, TrainBegin
<1>8. CASE TrainStep(r)
  <2>1. /\ pc'[r] \in {"save", "log"} /\ UNCHANGED <<state, proven>>
        /\ \E m \in BOOLEAN : moved'[r] = (moved[r] \/ m) /\ learned'[r] = (learned[r] \/ m)
    BY <1>8, StepTraced
  <2>2. pc[r] = "train" /\ state[r] = "running"
    BY <1>8 DEF TrainStep, VerdictInv, InRunner
  <2> QED BY <1>t, <2>1, <2>2 DEF LearnedInv
<1>9. CASE SaveCheckpoint(r)
  BY <1>9, <1>t DEF LearnedInv, VerdictInv, InRunner, Closing, Trace, SaveCheckpoint
<1>10. CASE Publish(r)
  BY <1>10, <1>t DEF LearnedInv, VerdictInv, InRunner, Closing, Trace, Publish
<1>11. CASE Prune(r) BY <1>11, <1>t DEF LearnedInv, VerdictInv, InRunner, Closing, Trace, Prune
<1>12. CASE Unlink(r) BY <1>12, <1>t DEF LearnedInv, VerdictInv, InRunner, Closing, Trace, Unlink
<1>13. CASE Log(r) BY <1>13, <1>t DEF LearnedInv, VerdictInv, InRunner, Closing, Trace, Log
<1>14. CASE Finish(r)
  <2>1. Trace(r) = UpTo(MaxSteps) /\ (moved[r] => learned[r]) /\ state[r] = "running"
    BY <1>14 DEF Finish, TraceInv, LearnedInv, VerdictInv, InRunner
  <2> QED BY <1>14, <1>t, <2>1 DEF LearnedInv, Finish, Trace
<1>15. CASE Export(r) BY <1>15, <1>t DEF LearnedInv, VerdictInv, InRunner, Closing, Trace, Export
<1>16. CASE Fails(r) BY <1>16, <1>t DEF LearnedInv, VerdictInv, InRunner, Closing, Trace, Fails
<1>17. CASE Validate(r)
  BY <1>17, <1>t DEF LearnedInv, VerdictInv, InRunner, Closing, Trace, Validate
<1>18. CASE PersistArtifact(r)
  BY <1>18, <1>t DEF LearnedInv, VerdictInv, InRunner, Closing, Trace, PersistArtifact
<1>19. CASE Promote(r)
  BY <1>19, <1>t DEF LearnedInv, VerdictInv, InRunner, Closing, Trace, Promote
<1>20. CASE Reverify(r)
  BY <1>20, <1>t DEF LearnedInv, VerdictInv, InRunner, Closing, Trace, Reverify
<1>21. CASE Rehash(r) BY <1>21, <1>t DEF LearnedInv, VerdictInv, InRunner, Closing, Trace, Rehash
<1>22. CASE RecordVerdict(r)
  BY <1>22, <1>t DEF LearnedInv, VerdictInv, InRunner, Closing, Trace, RecordVerdict
<1>23. CASE RetryRecord(r)
  BY <1>23, <1>t DEF LearnedInv, VerdictInv, InRunner, Closing, Trace, RetryRecord
<1>24. CASE EmitTerminal(r)
  BY <1>24, <1>t DEF LearnedInv, VerdictInv, InRunner, Closing, Trace, EmitTerminal
<1>25. CASE RewriteNote(r)
  BY <1>25, <1>t DEF LearnedInv, VerdictInv, InRunner, Closing, Trace, RewriteNote
<1>26. CASE Cancel(r) BY <1>26, <1>t DEF LearnedInv, VerdictInv, InRunner, Closing, Trace, Cancel
<1>27. CASE Crash(r) BY <1>27, <1>t DEF LearnedInv, VerdictInv, InRunner, Closing, Trace, Crash
<1> QED
  BY <1>1, <1>2, <1>3, <1>4, <1>5, <1>6, <1>7, <1>8, <1>9, <1>10, <1>11, <1>12, <1>13, <1>14,
     <1>15, <1>16, <1>17, <1>18, <1>19, <1>20, <1>21, <1>22, <1>23, <1>24, <1>25, <1>26, <1>27
  DEF Progress

LEMMA ManifestIsSome ==
  ASSUME TypeOK, NEW r \in Runs, state[r] \in Outcomes
  PROVE  Manifest(r) # None
BY ManifestType, NoneAssumption

LEMMA AnswerStep ==
  ASSUME TypeOK, NEW r \in Runs, VerdictInv(r),
         Dispatch(r) \/ Progress(r) \/ Cancel(r) \/ Crash(r)
  PROVE  VerdictInv(r)'
<1>t. /\ DOMAIN pc = Runs /\ DOMAIN state = Runs /\ DOMAIN proven = Runs /\ DOMAIN listed = Runs
      /\ DOMAIN artifact = Runs /\ DOMAIN lineage = Runs /\ DOMAIN record = Runs
      /\ DOMAIN answer = Runs
  BY PointTypes
<1>n. "succeeded" # None
  BY NoneAssumption DEF Outcomes
<1> USE DEF Go, Set, Raise, verdict, durable, InRunner, Closing, Over, Outcomes
<1>1. CASE Dispatch(r) BY <1>1, <1>t, <1>n DEF VerdictInv, WriteRecord, Manifest, Dispatch
<1>2. CASE Open(r) BY <1>2, <1>t, <1>n DEF VerdictInv, WriteRecord, Manifest, Open
<1>3. CASE Admit(r) BY <1>3, <1>t, <1>n DEF VerdictInv, WriteRecord, Manifest, Admit
<1>4. CASE Load(r) BY <1>4, <1>t, <1>n DEF VerdictInv, WriteRecord, Manifest, Load
<1>5. CASE VerifyParent(r) BY <1>5, <1>t, <1>n DEF VerdictInv, WriteRecord, Manifest, VerifyParent
<1>6. CASE Restore(r) BY <1>6, <1>t, <1>n DEF VerdictInv, WriteRecord, Manifest, Restore
<1>7. CASE TrainBegin(r) BY <1>7, <1>t, <1>n DEF VerdictInv, WriteRecord, Manifest, TrainBegin
<1>8. CASE TrainStep(r) BY <1>8, <1>t, <1>n DEF VerdictInv, WriteRecord, Manifest, TrainStep
<1>9. CASE SaveCheckpoint(r)
  BY <1>9, <1>t, <1>n DEF VerdictInv, WriteRecord, Manifest, SaveCheckpoint
<1>10. CASE Publish(r) BY <1>10, <1>t, <1>n DEF VerdictInv, WriteRecord, Manifest, Publish
<1>11. CASE Prune(r) BY <1>11, <1>t, <1>n DEF VerdictInv, WriteRecord, Manifest, Prune
<1>12. CASE Unlink(r) BY <1>12, <1>t, <1>n DEF VerdictInv, WriteRecord, Manifest, Unlink
<1>13. CASE Log(r) BY <1>13, <1>t, <1>n DEF VerdictInv, WriteRecord, Manifest, Log
<1>14. CASE Finish(r) BY <1>14, <1>t, <1>n DEF VerdictInv, WriteRecord, Manifest, Finish
<1>15. CASE Export(r) BY <1>15, <1>t, <1>n DEF VerdictInv, WriteRecord, Manifest, Export
<1>16. CASE Fails(r) BY <1>16, <1>t, <1>n DEF VerdictInv, WriteRecord, Manifest, Fails
<1>17. CASE Validate(r) BY <1>17, <1>t, <1>n DEF VerdictInv, WriteRecord, Manifest, Validate
<1>18. CASE PersistArtifact(r)
  BY <1>18, <1>t, <1>n DEF VerdictInv, WriteRecord, Manifest, PersistArtifact
<1>19. CASE Promote(r) BY <1>19, <1>t, <1>n DEF VerdictInv, WriteRecord, Manifest, Promote
<1>20. CASE Reverify(r) BY <1>20, <1>t, <1>n DEF VerdictInv, WriteRecord, Manifest, Reverify
<1>21. CASE Rehash(r) BY <1>21, <1>t, <1>n DEF VerdictInv, WriteRecord, Manifest, Rehash
<1>22. CASE RecordVerdict(r)
  <2>1. /\ UNCHANGED <<listed, artifact, lineage, answer>> /\ pc[r] = "record"
        /\ record[r] = None /\ answer[r] = None /\ state[r] \in Outcomes
    BY <1>22 DEF RecordVerdict, VerdictInv
  <2>2. CASE WriteRecord(r) /\ Go(r, "terminal") /\ UNCHANGED <<state, proven>>
    <3>1. record'[r] = Manifest(r) /\ Manifest(r)' = Manifest(r) /\ pc'[r] = "terminal"
      BY <2>1, <2>2, <1>t DEF WriteRecord, Manifest
    <3> HIDE DEF Outcomes
    <3>2. Manifest(r) # None
      BY <2>1, ManifestIsSome
    <3> QED BY <1>n, <2>1, <2>2, <3>1, <3>2 DEF VerdictInv
  <2>3. CASE record' = record /\ IF state[r] = "succeeded"
                                 THEN /\ state' = Set(state, r, "failed")
                                      /\ proven' = Set(proven, r, FALSE) /\ Go(r, "retry")
                                 ELSE Go(r, "terminal") /\ UNCHANGED <<state, proven>>
    BY <1>n, <2>1, <2>3, <1>t DEF VerdictInv
  <2> QED BY <1>22, <2>2, <2>3 DEF RecordVerdict
<1>23. CASE RetryRecord(r)
  <2>1. /\ UNCHANGED <<state, proven, listed, artifact, lineage, answer>> /\ pc[r] = "retry"
        /\ record[r] = None /\ answer[r] = None /\ state[r] = "failed"
    BY <1>23 DEF RetryRecord, VerdictInv
  <2>2. pc'[r] = "terminal" /\ Manifest(r)' = Manifest(r) /\ record'[r] \in {None, Manifest(r)}
    BY <1>23, <2>1, <1>t DEF RetryRecord, WriteRecord, Manifest
  <2> QED BY <1>n, <2>1, <2>2 DEF VerdictInv
<1>24. CASE EmitTerminal(r)
  BY <1>24, <1>t, <1>n DEF VerdictInv, WriteRecord, Manifest, EmitTerminal
<1>25. CASE RewriteNote(r)
  <2>1. /\ UNCHANGED <<state, proven, listed, artifact, lineage, answer>> /\ pc[r] = "note"
        /\ state[r] \in Outcomes
    BY <1>25 DEF RewriteNote, VerdictInv
  <2>2. /\ pc'[r] = "ended" /\ Manifest(r)' = Manifest(r)
        /\ record'[r] \in {record[r], Manifest(r)}
    BY <1>25, <2>1, <1>t DEF RewriteNote, WriteRecord, Manifest
  <2> HIDE DEF Outcomes
  <2>3. Manifest(r) # None
    BY <2>1, ManifestIsSome
  <2> QED BY <1>n, <2>1, <2>2, <2>3 DEF VerdictInv
<1>26. CASE Cancel(r) BY <1>26, <1>t, <1>n DEF VerdictInv, WriteRecord, Manifest, Cancel
<1>27. CASE Crash(r) BY <1>27, <1>t, <1>n DEF VerdictInv, WriteRecord, Manifest, Crash
<1> QED
  BY <1>1, <1>2, <1>3, <1>4, <1>5, <1>6, <1>7, <1>8, <1>9, <1>10, <1>11, <1>12, <1>13, <1>14,
     <1>15, <1>16, <1>17, <1>18, <1>19, <1>20, <1>21, <1>22, <1>23, <1>24, <1>25, <1>26, <1>27
  DEF Progress

-----------------------------------------------------------------------------
(* The inductive invariant *)

LEMMA InvInit == Init => IInv
<1> SUFFICES ASSUME Init PROVE IInv
  OBVIOUS
<1>1. TypeOK
  <2>1. disk \in [Runs -> [Steps -> Directories]]
    BY DirectoryType, EmptySeq DEF Init, Absent
  <2>2. TypeFiles
    BY <2>1, EmptySeq DEF Init, TypeFiles
  <2>3. TypeControl /\ TypeTrainer
    BY TrainingAssumption, EmptySeq DEF Init, TypeControl, TypeTrainer, Labels
  <2>4. TypeVerdict /\ TypeDurable
    BY DEF Init, TypeVerdict, TypeDurable
  <2> QED BY <2>2, <2>3, <2>4, TypeParts
<1>2. ASSUME NEW r \in Runs PROVE Local(r)
  <2>1. Whole(r) = {}
    BY DEF Init, Whole, Absent, Remains, Directory
  <2>2. written[r] = <<>> /\ Len(written[r]) = 0
    BY DEF Init
  <2>3. WrittenSet(r) = {}
    BY <2>2 DEF WrittenSet
  <2>4. WrittenInv(r)
    BY <2>1, <2>2, <2>3 DEF WrittenInv, Init
  <2>5. pc[r] = "idle" /\ state[r] = "running" /\ record[r] = None /\ answer[r] = None
        /\ ~proven[r] /\ ~moved[r] /\ "succeeded" # None
    BY NoneAssumption DEF Init, Outcomes
  <2>6. ListedInv(r) /\ TraceInv(r)
    BY <2>1, <2>5 DEF Init, ListedInv, TraceInv, Early, Loop
  <2>7. LearnedInv(r)
    BY <2>5 DEF LearnedInv, Loop, Trained
  <2>8. VerdictInv(r)
    BY <2>5 DEF VerdictInv, Closing
  <2> QED BY <2>4, <2>6, <2>7, <2>8 DEF Local
<1> QED BY <1>1, <1>2 DEF IInv

LEMMA InvStep == IInv /\ [Next]_vars => IInv'
<1> SUFFICES ASSUME IInv, [Next]_vars PROVE IInv'
  OBVIOUS
<1>i. TypeOK /\ \A q \in Runs : Local(q)
  BY DEF IInv
<1>1. CASE Next
  <2>1. PICK r \in Runs : Dispatch(r) \/ Progress(r) \/ Cancel(r) \/ Crash(r)
    BY <1>1 DEF Next
  <2>2. Local(r) /\ \A q \in Runs : TraceInv(q)
    BY <1>i DEF Local
  <2>3. WrittenInv(r) /\ ListedInv(r) /\ TraceInv(r) /\ LearnedInv(r) /\ VerdictInv(r)
    BY <2>2 DEF Local
  <2>4. TypeOK'
    BY <1>i, <2>1, <2>3, ControlType, TrainerType, FilesType, VerdictType, DurableType, TypeParts
  <2>5. Local(r)'
    BY <1>i, <2>1, <2>2, <2>3, WrittenStep, ListedStep, TraceStep, LearnedStep, AnswerStep
    DEF Local
  <2>6. \A q \in Runs \ {r} : Local(q)'
    BY <1>i, <2>1, OthersSame, SameLocal
  <2> QED BY <2>4, <2>5, <2>6 DEF IInv
<1>2. CASE UNCHANGED vars
  <2>1. TypeOK'
    BY <1>i, <1>2 DEF TypeOK, vars
  <2>2. ASSUME NEW q \in Runs PROVE Local(q)'
    BY <1>i, <1>2, SameLocal DEF Same, vars
  <2> QED BY <2>1, <2>2 DEF IInv
<1> QED BY <1>1, <1>2

LEMMA InvHolds == Spec => []IInv
BY InvInit, InvStep, PTL DEF Spec

-----------------------------------------------------------------------------
(* The theorems *)

\* Every variable keeps its type: no checkpoint is written outside the planned steps, and
\* every answer and manifest is one of a run that was classified (execute_run).
THEOREM TrainingTyped == Spec => []TypeOK
<1>1. IInv => TypeOK
  BY DEF IInv
<1> QED BY <1>1, InvHolds, PTL

\* A checkpoint that verifies holds exactly the steps up to its own, and what a manifest lists
\* is there (checkpoint_io's save and prune, RunManifest.checkpoints).
THEOREM CheckpointsExact == Spec => []ExactCheckpoints
<1>1. IInv => ExactCheckpoints
  <2> SUFFICES ASSUME IInv, NEW r \in Runs
               PROVE  /\ \A k \in Whole(r) : disk[r][k].trace = UpTo(k)
                      /\ record[r] # None => record[r].listed \subseteq Whole(r)
    BY DEF ExactCheckpoints
  <2>1. TraceInv(r) /\ ListedInv(r) /\ VerdictInv(r)
    BY DEF IInv, Local
  <2> QED BY <2>1 DEF TraceInv, ListedInv, VerdictInv, Manifest
<1> QED BY <1>1, InvHolds, PTL

\* A success holds every planned step once and in order, and its own steps changed the weights
\* (run_training's step tracker and change gate, across restores).
THEOREM SuccessTraced == Spec => []SuccessIsExactLineage
<1>1. IInv => SuccessIsExactLineage
  <2> SUFFICES ASSUME IInv, NEW r \in Runs, answer[r] = "succeeded"
               PROVE  Trace(r) = UpTo(MaxSteps) /\ learned[r]
    BY DEF SuccessIsExactLineage
  <2>1. LearnedInv(r) /\ VerdictInv(r) /\ "succeeded" # None
    BY NoneAssumption DEF IInv, Local, Outcomes
  <2> QED BY <2>1 DEF LearnedInv, VerdictInv
<1> QED BY <1>1, InvHolds, PTL

\* The terminal event, the durable manifest, the artifact and the fit never contradict each
\* other, whatever writes failed (execute_run's finalization).
THEOREM VerdictsConsistent == Spec => []VerdictsAgree
<1>1. IInv => VerdictsAgree
  <2> SUFFICES ASSUME IInv, NEW r \in Runs
               PROVE  /\ answer[r] = "succeeded" => record[r] # None /\ artifact[r]
                      /\ answer[r] # None /\ record[r] # None => record[r].state = answer[r]
                      /\ record[r] # None /\ (record[r].proven \/ record[r].evidence)
                             => record[r].state = "succeeded"
    BY DEF VerdictsAgree
  <2>1. VerdictInv(r) /\ "succeeded" # None
    BY NoneAssumption DEF IInv, Local, Outcomes
  <2>2. record[r] # None => /\ record[r].state = state[r] /\ record[r].proven = proven[r]
                            /\ record[r].evidence = (state[r] = "succeeded")
    BY <2>1 DEF VerdictInv, Manifest
  <2>3. answer[r] # None => answer[r] = state[r]
    BY <2>1 DEF VerdictInv
  <2>4. answer[r] = "succeeded" => record[r] # None /\ artifact[r]
    BY <2>1, <2>3 DEF VerdictInv
  <2>5. record[r] # None /\ record[r].proven => state[r] = "succeeded"
    BY <2>1, <2>2 DEF VerdictInv
  <2> QED BY <2>2, <2>3, <2>4, <2>5
<1> QED BY <1>1, InvHolds, PTL

\* No step takes away progress: pruning one checkpoint leaves a newer one, and nothing else
\* removes any (CheckpointCoordinator._prune, keep_last).
THEOREM ProgressKept == Spec => ResumePointKept
<1>1. ASSUME IInv, [Next]_vars, NEW r \in Runs, NEW k \in Whole(r)
      PROVE  \E j \in Whole(r)' : j >= k
  <2>k. k \in Nat
    BY StepsAreNumbers DEF Whole
  <2>1. CASE k \in Whole(r)'
    BY <2>1, <2>k
  <2>2. CASE k \notin Whole(r)'
    <3>1. TypeOK /\ WrittenInv(r)
      BY <1>1 DEF IInv, Local
    <3>2. PICK q \in Runs : Dispatch(q) \/ Progress(q) \/ Cancel(q) \/ Crash(q)
      BY <1>1, <2>2 DEF Next, vars, Whole
    <3>3. q = r
      BY <1>1, <2>2, <3>1, <3>2, OthersSame DEF Same, Whole
    <3>4. pc[r] = "prune"
      BY <1>1, <2>2, <3>1, <3>2, <3>3, WholeKept
    <3>5. Prune(r)
      BY <2>2, <3>2, <3>3, <3>4
      DEF Whole, Progress, Dispatch, Cancel, Crash, Open, Admit, Load, VerifyParent, Restore,
          TrainBegin, TrainStep, SaveCheckpoint, Publish, Unlink, Log, Finish, Export, Fails,
          Validate, PersistArtifact, Promote, Reverify, Rehash, RecordVerdict, RetryRecord,
          EmitTerminal, RewriteNote
    <3>6. /\ Len(written[r]) > 1 /\ Head(written[r]) \in Steps
          /\ Whole(r)' = Whole(r) \ {Head(written[r])} /\ k = Head(written[r])
      BY <2>2, <3>1, <3>5, PruneEffect DEF Whole
    <3>7. /\ written[r][1] < written[r][2] /\ k = written[r][1]
          /\ written[r][2] \in Whole(r) /\ written[r][2] \in Nat
      BY <3>1, <3>6, WrittenNumbers, PointTypes, HeadTailProperties DEF WrittenInv, WrittenSet
    <3> QED BY <2>k, <3>6, <3>7
  <2> QED BY <2>1, <2>2
<1>2. IInv /\ [Next]_vars => [\A r \in Runs : \A k \in Whole(r) : \E j \in Whole(r)' : j >= k]_vars
  BY <1>1
<1> QED BY <1>2, InvHolds, PTL DEF Spec, ResumePointKept

=============================================================================

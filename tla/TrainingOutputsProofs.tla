------------------------- MODULE TrainingOutputsProofs -------------------------
(***************************************************************************)
(* Proofs about the five components of MCTrainingOutputs: an inductive     *)
(* invariant for the artifact's record, for the lane and for the           *)
(* measurements, each kept by every step of its component; the invariants  *)
(* of the runs and of the planner are those of TrainingRunProofs and       *)
(* SealedPlanProofs.  As the components share no variable, the             *)
(* composition keeps them all.                                             *)
(***************************************************************************)
EXTENDS MCTrainingOutputs, TrainingRunProofs, SealedPlanProofs, FiniteSetTheorems,
        WellFoundedInduction

-----------------------------------------------------------------------------
(* The artifact's record *)

ArtifactRecords == Registry!ModelArtifactRecord

\* What a command has loaded or is about to save, and the status it is to leave.
CopyInv(p) ==
  /\ at[p] \in {"integrity", "gate", "write", "replace"} => copy[p] \in ArtifactRecords
  /\ at[p] # "idle" => wanted[p] \in Registry!ARTIFACT_STATUSES
  /\ at[p] \in {"integrity", "gate"} => wanted[p] = "kept"

\* A command that no other has overlapped finds the record as it loaded it; it saves a kept one
\* only if the record is kept already, or if the gate let its hash pass.
GatedInv(p) ==
  /\ at[p] \in {"integrity", "gate"} => copy[p] = registered
  /\ at[p] = "hash" /\ wanted[p] = "kept" => Registry!IsKept(registered)
  /\ at[p] = "reload" /\ wanted[p] = "kept" =>
       registered \in ArtifactRecords /\ registered.content_hash \in gated
  /\ at[p] \in {"write", "replace"} /\ copy[p].status = "kept" =>
       Registry!IsKept(registered) \/ copy[p].content_hash \in gated
  /\ at[p] = "replace" => draft = copy[p]

AloneInv ==
  ~concurrent => /\ \A p, q \in Procs : at[p] # "idle" /\ at[q] # "idle" => p = q
                 /\ \A p \in Procs : GatedInv(p)

RegistryInv == Registry!TypeOK /\ (\A p \in Procs : CopyInv(p)) /\ AloneInv

\* A record that is not registered yet satisfies the invariant.
LEMMA RegistryInitially == Registry!Init => RegistryInv
<1> SUFFICES ASSUME Registry!Init PROVE RegistryInv
  OBVIOUS
<1>1. Registry!TypeOK
  BY DEF Registry!Init, Registry!TypeOK
<1>2. \A p \in Procs : at[p] = "idle"
  BY DEF Registry!Init
<1>3. (\A p \in Procs : CopyInv(p)) /\ AloneInv
  BY <1>2 DEF CopyInv, AloneInv, GatedInv
<1> QED BY <1>1, <1>3 DEF RegistryInv

\* A step of p leaves the other processes where they are.
LEMMA RegistryTyped ==
  ASSUME RegistryInv, NEW p \in Procs,
         \/ Registry!Register(p) \/ Registry!Hash(p) \/ Registry!Update(p)
         \/ Registry!Promote(p) \/ Registry!Integrity(p) \/ Registry!Gate(p) \/ Registry!Reload(p)
         \/ Registry!Write(p) \/ Registry!Replace(p) \/ Registry!Crash(p)
  PROVE  Registry!TypeOK' /\ \A q \in Procs : CopyInv(q)'
<1> USE DEF Registry!ARTIFACT_STATUSES
<1>t. Registry!TypeOK /\ CopyInv(p) /\ \A q \in Procs : CopyInv(q)
  BY DEF RegistryInv
<1> USE <1>t DEF Registry!TypeOK, CopyInv, ArtifactRecords
<1>s. ASSUME NEW l \in {"hash", "integrity", "reload"}, NEW r \in ArtifactRecords \cup {None},
             NEW s \in Registry!ARTIFACT_STATUSES, Registry!Start(p, l, r, s),
             l = "integrity" => r \in ArtifactRecords /\ s = "kept"
      PROVE  Registry!TypeOK' /\ \A q \in Procs : CopyInv(q)'
  BY <1>s DEF Registry!Start, Registry!Goto
<1>1. CASE Registry!Register(p)
  <2>1. (IF Registry!Known THEN registered.status ELSE "candidate") \in Registry!ARTIFACT_STATUSES
    BY DEF Registry!Known, Registry!ModelArtifactRecord
  <2> QED BY <1>1, <1>s, <2>1 DEF Registry!Register
<1>2. CASE Registry!Hash(p)
  BY <1>2 DEF Registry!Hash, Registry!Goto, Registry!Found, Registry!ModelArtifactRecord
<1>3. CASE Registry!Update(p)
  BY <1>3, <1>s DEF Registry!Update
<1>4. CASE Registry!Promote(p)
  BY <1>4, <1>s DEF Registry!Promote, Registry!Known
<1>5. CASE Registry!Integrity(p)
  BY <1>5 DEF Registry!Integrity, Registry!Goto, Registry!Leave
<1>6. CASE Registry!Gate(p)
  BY <1>6 DEF Registry!Gate, Registry!Goto, Registry!Leave, Registry!ModelArtifactRecord
<1>7. CASE Registry!Reload(p)
  BY <1>7 DEF Registry!Reload, Registry!Goto, Registry!Leave, Registry!Known, Registry!ModelArtifactRecord
<1>8. CASE Registry!Write(p)
  BY <1>8 DEF Registry!Write, Registry!Goto
<1>9. CASE Registry!Replace(p)
  BY <1>9 DEF Registry!Replace, Registry!Goto, Registry!Leave
<1>10. CASE Registry!Crash(p)
  BY <1>10 DEF Registry!Crash, Registry!Goto, Registry!Leave
<1> QED BY <1>1, <1>2, <1>3, <1>4, <1>5, <1>6, <1>7, <1>8, <1>9, <1>10

\* The processes that are not p stay idle while nothing overlaps.
LEMMA RegistryAlone ==
  ASSUME RegistryInv, NEW p \in Procs,
         \/ Registry!Register(p) \/ Registry!Hash(p) \/ Registry!Update(p)
         \/ Registry!Promote(p) \/ Registry!Integrity(p) \/ Registry!Gate(p) \/ Registry!Reload(p)
         \/ Registry!Write(p) \/ Registry!Replace(p) \/ Registry!Crash(p),
         ~concurrent'
  PROVE  /\ ~concurrent /\ (\A q \in Procs \ {p} : at[q] = "idle" /\ at'[q] = "idle")
         /\ GatedInv(p)'
<1>t. Registry!TypeOK /\ CopyInv(p) /\ AloneInv
  BY DEF RegistryInv
<1> USE DEF Registry!Goto, Registry!Leave
<1>c. ~concurrent
  BY <1>t DEF Registry!Register, Registry!Hash, Registry!Update, Registry!Promote, Registry!Start,
              Registry!Integrity, Registry!Gate, Registry!Reload, Registry!Write,
              Registry!Replace, Registry!Crash, Registry!TypeOK
<1>g. GatedInv(p) /\ \A q \in Procs : at[p] # "idle" /\ at[q] # "idle" => p = q
  BY <1>t, <1>c DEF AloneInv
<1> USE <1>t, <1>c, <1>g DEF Registry!TypeOK
<1>s. ASSUME NEW l \in {"hash", "integrity", "reload"}, NEW r, NEW s, Registry!Start(p, l, r, s)
      PROVE  /\ \A q \in Procs : at[q] = "idle"
             /\ at' = [at EXCEPT ![p] = l] /\ copy'[p] = r /\ wanted'[p] = s
             /\ registered' = registered /\ gated' = gated
  BY <1>s DEF Registry!Start
<1>1. CASE Registry!Register(p)
  <2>1. (IF Registry!Known THEN registered.status ELSE "candidate") = "kept"
          => Registry!IsKept(registered)
    BY DEF Registry!Known, Registry!IsKept
  <2> QED BY <1>1, <1>s, <2>1 DEF Registry!Register, GatedInv, Registry!IsKept
<1>2. CASE Registry!Hash(p)
  BY <1>2 DEF Registry!Hash, GatedInv, Registry!IsKept
<1>3. CASE Registry!Update(p)
  BY <1>3, <1>s DEF Registry!Update, GatedInv, Registry!ARTIFACT_STATUSES
<1>4. CASE Registry!Promote(p)
  BY <1>4, <1>s DEF Registry!Promote, GatedInv
<1>5. CASE Registry!Integrity(p)
  BY <1>5 DEF Registry!Integrity, GatedInv
<1>6. CASE Registry!Gate(p)
  BY <1>6 DEF Registry!Gate, GatedInv, CopyInv, ArtifactRecords
<1>7. CASE Registry!Reload(p)
  BY <1>7 DEF Registry!Reload, Registry!Known, GatedInv, CopyInv, ArtifactRecords,
              Registry!ModelArtifactRecord
<1>8. CASE Registry!Write(p)
  BY <1>8 DEF Registry!Write, GatedInv, Registry!IsKept
<1>9. CASE Registry!Replace(p)
  BY <1>9 DEF Registry!Replace, GatedInv
<1>10. CASE Registry!Crash(p)
  BY <1>10 DEF Registry!Crash, GatedInv
<1> QED BY <1>1, <1>2, <1>3, <1>4, <1>5, <1>6, <1>7, <1>8, <1>9, <1>10

\* Every step of every command keeps the invariant of the record.
LEMMA RegistryPreserved == RegistryInv /\ Registry!Next => RegistryInv'
<1>0. SUFFICES ASSUME RegistryInv /\ Registry!Next PROVE RegistryInv'
  OBVIOUS
<1> PICK p \in Procs :
       \/ Registry!Register(p) \/ Registry!Hash(p) \/ Registry!Update(p)
       \/ Registry!Promote(p) \/ Registry!Integrity(p) \/ Registry!Gate(p)
       \/ Registry!Reload(p) \/ Registry!Write(p) \/ Registry!Replace(p)
       \/ Registry!Crash(p)
  BY <1>0 DEF Registry!Next
<1>1. Registry!TypeOK' /\ \A q \in Procs : CopyInv(q)'
  BY <1>0, RegistryTyped
<1>2. ASSUME ~concurrent' PROVE  \A q, r \in Procs : at'[q] # "idle" /\ at'[r] # "idle" => q = r
  BY <1>0, <1>2, RegistryAlone
<1>3. ASSUME ~concurrent' PROVE \A q \in Procs : GatedInv(q)'
  <2>1. GatedInv(p)' /\ \A q \in Procs \ {p} : at'[q] = "idle"
    BY <1>0, <1>3, RegistryAlone
  <2> QED BY <2>1 DEF GatedInv
<1> QED BY <1>1, <1>2, <1>3 DEF RegistryInv, AloneInv

\* What becomes kept was saved by a promotion whose gate let the hash pass.
LEMMA KeepGated ==
  ASSUME RegistryInv, Registry!Next, ~concurrent', Registry!IsKept(registered'),
         ~Registry!IsKept(registered)
  PROVE  registered'.content_hash \in gated
<1>1. PICK p \in Procs :
         \/ Registry!Register(p) \/ Registry!Hash(p) \/ Registry!Update(p)
         \/ Registry!Promote(p) \/ Registry!Integrity(p) \/ Registry!Gate(p)
         \/ Registry!Reload(p) \/ Registry!Write(p) \/ Registry!Replace(p)
         \/ Registry!Crash(p)
  BY DEF Registry!Next
<1>2. Registry!Replace(p)
  BY <1>1 DEF Registry!Register, Registry!Hash, Registry!Update, Registry!Promote, Registry!Start,
              Registry!Integrity, Registry!Gate, Registry!Reload, Registry!Write,
              Registry!Replace, Registry!Crash
<1>3. at[p] = "replace" /\ registered' = draft /\ ~concurrent
  BY <1>2 DEF Registry!Replace
<1>4. GatedInv(p) /\ copy[p] = draft
  BY <1>3 DEF RegistryInv, AloneInv, GatedInv
<1> QED BY <1>3, <1>4 DEF GatedInv, Registry!IsKept

-----------------------------------------------------------------------------
EarlyPhases == {"rows", "load", "attach", "construct", "begin"}

Late == {"save", "gate", "admit"}

\* The counters keep their bounds because a microbatch is only begun for a step of the schedule.
LaneTyped ==
  /\ Lane!TypeOK /\ reported \in Seq(Nat)
  /\ micro > 0 => done < LaneSteps

\* Before training nothing was trained, and the baseline is what the tensors hold.
Fresh ==
  phase \in EarlyPhases =>
    /\ micro = 0 /\ done = 0 /\ pending = {} /\ bad = {} /\ observed = {}
    /\ ~poisoned /\ strayed = {} /\ reported = <<>> /\ losses = {}
    /\ before # None => \A n \in DOMAIN before : before[n].value = value[n]

\* The hooks are on the tensors that train; nobody disturbs the model of a lane that has a loop
\* of its own.
Watched ==
  /\ observed \subseteq hooks
  /\ phase = "construct" => Lane!Hosted
  /\ phase \in {"construct", "begin", "train"} \cup Late => (~Lane!Full => hooks = Adapter)
  /\ phase \in {"begin", "train"} \cup Late /\ ~Lane!Hosted =>
       live = Adapter /\ bound = Adapter /\ \A n \in Lane!Tensors : place[n] = "sealed"
  /\ phase \in {"train"} \cup Late /\ ~Lane!Hosted => Lane!Exact(groups)

\* What the loop has changed so far.
Moved ==
  /\ before # None => \A n \in DOMAIN before : before[n].value = start[n]
  /\ \A n \in Lane!Tensors \ hooks : value[n] = start[n]
  /\ "kernel" \in strayed => ~kernel
  /\ ~Lane!Full => "place" \notin strayed

\* What the tracker was told: where a bad loss was used, a step is missing from its losses.
Told ==
  /\ Len(reported) <= done - Lane!From
  /\ losses \subseteq (Lane!From + 1)..(Lane!From + Len(reported))
  /\ poisoned => \E k \in (Lane!From + 1)..done : k \notin losses

Looping ==
  phase = "train" =>
    /\ Lane!From <= done /\ (done = Lane!From => value = start)
    /\ micro = 0 => pending = {} /\ bad = {}
    /\ bad \cap hooks \cap bound = {}
    /\ lane = "training" => \A n \in pending \cap hooks \cap bound : place[n] = "sealed"
    /\ Moved
    /\ Lane!Hosted => Told
    /\ ~Lane!Hosted => "loss" \notin bad /\ ~poisoned /\ reported = <<>> /\ losses = {}

\* What is proposed is so.
Concluded ==
  phase \in Late =>
    /\ ~poisoned /\ (resumed => done > Lane!From)
    /\ \E n \in hooks : value[n] # start[n]
    /\ \A n \in Lane!Tensors \ hooks : value[n] = start[n]
    /\ lane = "pretraining" \/ "kernel" \notin strayed
    /\ ~Lane!Full => "place" \notin strayed
    /\ proposal.steps = done /\ proposal.export = [n \in Lane!Exported |-> value[n]]
    /\ \A n \in Lane!Exported : value[n] # NaN

Kept == Lane!Admitted => phase = "admit" /\ Lane!ScheduleKept /\ Lane!FileHoldsEvidence

LaneInv == LaneTyped /\ Fresh /\ Watched /\ Looping /\ Concluded /\ Kept

\* The inductive invariant gives the property.
LEMMA LaneEvidence == LaneInv => Lane!EvidenceIsTrue
<1> SUFFICES ASSUME LaneInv, Lane!Admitted PROVE Lane!EvidenceIsTrue
  BY DEF Lane!EvidenceIsTrue
<1> USE DEF LaneInv
<1>1. /\ phase \in Late /\ Lane!ScheduleKept
      /\ saved = [n \in Lane!Exported |-> value[n]]
  BY DEF Kept, Late, Concluded, Lane!FileHoldsEvidence
<1>2. IF byEpoch THEN done > Lane!From ELSE done = LaneSteps
  BY <1>1 DEF Concluded, Lane!ScheduleKept, Lane!From, LaneTyped, Lane!TypeOK
<1> QED BY <1>1, <1>2 DEF Concluded, Lane!EvidenceIsTrue

\* A lane begins with nothing trained and nothing proposed.
LEMMA LaneInitially == Lane!Init => LaneInv
<1> SUFFICES ASSUME Lane!Init PROVE LaneInv
  OBVIOUS
<1> USE DEF Lane!Init
<1>1. LaneTyped
  <2>1. {byEpoch, lossy, resumed, kernel, poisoned} \subseteq BOOLEAN
    BY Zenon
  <2>2. /\ value \in [Lane!Tensors -> {0, 1, NaN}]
        /\ place \in [Lane!Tensors -> {"sealed", "recast", "elsewhere"}]
    OBVIOUS
  <2>3. reported \in Seq(Nat) /\ Len(reported) = 0
    OBVIOUS
  <2>4. /\ micro \in 0..LaneMicro /\ done \in 0..LaneSteps /\ interferences \in 0..LaneFaults
        /\ ~(micro > 0) /\ Len(reported) <= LaneSteps
    BY <2>3, LaneConstants DEF Lane!LaneAssumption
  <2> QED BY <2>1, <2>2, <2>3, <2>4 DEF LaneTyped, Lane!TypeOK
<1>2. Fresh /\ Watched /\ Looping /\ Concluded /\ Kept
  BY LaneConstants DEF Fresh, EarlyPhases, Watched, Looping, Concluded, Late, Kept, Lane!Admitted,
     Lane!LaneAssumption
<1> QED BY <1>1, <1>2 DEF LaneInv

-----------------------------------------------------------------------------
(* What a library may do *)

\* A fault is counted, within the bound.
LEMMA Counted ==
  ASSUME LaneInv, NEW n \in Nat, Lane!Faults(n)
  PROVE  interferences' \in 0..LaneFaults
BY LaneConstants DEF LaneInv, LaneTyped, Lane!TypeOK, Lane!Faults, Lane!LaneAssumption

\* The library's operators are the same in every module.
LEMMA SameFinite == ASSUME NEW S PROVE Lane!IsFiniteSet(S) <=> IsFiniteSet(S)
BY DEF Lane!IsFiniteSet, IsFiniteSet

\* The size of a set is the same in every module.
LEMMA SameCardinality == ASSUME NEW S PROVE Lane!Cardinality(S) = Cardinality(S)
BY DEF Lane!Cardinality, Cardinality

\* A misplaced tensor is still somewhere.
LEMMA MisplacedTyped ==
  ASSUME place \in [Lane!Tensors -> {"sealed", "recast", "elsewhere"}],
         NEW S \in SUBSET Lane!Tensors, NEW p \in Lane!Misplacements(S)
  PROVE  p \in [Lane!Tensors -> {"sealed", "recast", "elsewhere"}]
BY DEF Lane!Misplacements, Lane!Replaced

\* A library's work leaves tensors where tensors are.
LEMMA WorkTyped ==
  ASSUME LaneTyped, NEW m \in Lane!Disturbances \cup {Lane!Untouched}
  PROVE  /\ m.place \in [Lane!Tensors -> {"sealed", "recast", "elsewhere"}]
         /\ m.live \subseteq Lane!Tensors /\ m.bound \subseteq bound
<1> USE DEF LaneTyped, Lane!TypeOK, Lane!Untouched
<1>1. CASE m = Lane!Untouched
  BY <1>1
<1>2. CASE \E p \in Lane!Misplacements(Lane!Tensors) : m = [Lane!Untouched EXCEPT !.place = p]
  BY <1>2, MisplacedTyped
<1>3. CASE \E s \in {live \cup {n} : n \in Lane!Tensors \ live} \cup {live \ {n} : n \in live} :
             m = [Lane!Untouched EXCEPT !.live = s]
  BY <1>3
<1>4. CASE \E n \in bound : m = [Lane!Untouched EXCEPT !.bound = @ \ {n}]
  BY <1>4
<1> QED BY <1>1, <1>2, <1>3, <1>4 DEF Lane!Disturbances

\* A cast puts tensors where tensors are.
LEMMA CastTyped ==
  ASSUME NEW p \in [Lane!Tensors -> {"sealed", "recast", "elsewhere"}], NEW S
  PROVE  Lane!Cast(p, S) \in [Lane!Tensors -> {"sealed", "recast", "elsewhere"}]
BY DEF Lane!Cast

\* What is put in its format keeps its place, and what is in both is sealed.
LEMMA VerifiedSealed ==
  ASSUME NEW p \in [Lane!Tensors -> {"sealed", "recast", "elsewhere"}], Lane!StateVerified(p)
  PROVE  \A n \in Lane!Tensors : p[n] = "sealed"
BY DEF Lane!StateVerified, Lane!Placed, Lane!InFormat

-----------------------------------------------------------------------------
(* Each step preserves the invariant *)

\* Taking rows touches no tensor.
LEMMA TakeRowsKeeps == LaneInv /\ Lane!TakeRows => LaneInv'
<1> SUFFICES ASSUME LaneInv, Lane!TakeRows PROVE LaneInv'
  OBVIOUS
<1> USE DEF LaneInv, Lane!TakeRows, Lane!At, Lane!Goto, Lane!choices, Lane!model, Lane!watch,
            Lane!loop, Lane!tracker, Lane!result, Lane!updates
<1>1. LaneTyped'
  <2>1. trained' \cap heldout' = {}
    OBVIOUS
  <2> QED BY <2>1 DEF LaneTyped, Lane!TypeOK, Lane!Tensors, Lane!Full
<1>2. Fresh' /\ Watched' /\ Looping' /\ Concluded' /\ Kept'
  BY LaneConstants DEF Fresh, EarlyPhases, Watched, Looping, Concluded, Late, Kept, Lane!Admitted,
     Lane!LaneAssumption
<1> QED BY <1>1, <1>2

\* Loading puts every tensor in its place.
LEMMA LoadModelKeeps == LaneInv /\ Lane!LoadModel => LaneInv'
<1> SUFFICES ASSUME LaneInv, Lane!LoadModel PROVE LaneInv'
  OBVIOUS
<1> USE DEF LaneInv, Lane!LoadModel, Lane!At, Lane!Goto, Lane!choices, Lane!rows, Lane!watch,
            Lane!loop, Lane!tracker, Lane!result, Lane!updates
<1>1. LaneTyped'
  <2>1. interferences' \in 0..LaneFaults
    BY Counted
  <2>2. place' \in [Lane!Tensors -> {"sealed", "recast", "elsewhere"}]
    BY MisplacedTyped DEF LaneTyped, Lane!TypeOK, Lane!Tensors, Lane!Full
  <2>3. {byEpoch, lossy, resumed, kernel, poisoned}' \subseteq BOOLEAN
    BY Zenon DEF LaneTyped, Lane!TypeOK
  <2> QED BY <2>1, <2>2, <2>3 DEF LaneTyped, Lane!TypeOK, Lane!Tensors, Lane!Full
<1>2. Fresh' /\ Watched' /\ Looping' /\ Concluded' /\ Kept'
  BY LaneConstants DEF Fresh, EarlyPhases, Watched, Looping, Concluded, Late, Kept, Lane!Admitted,
     Lane!LaneAssumption
<1> QED BY <1>1, <1>2

\* The lane attaches its adapter and watches what trains.
LEMMA AttachKeeps == LaneInv /\ Lane!Attach => LaneInv'
<1> SUFFICES ASSUME LaneInv, Lane!Attach PROVE LaneInv'
  OBVIOUS
<1> USE DEF LaneInv, Lane!Attach, Lane!At, Lane!Goto, Lane!choices, Lane!rows,
            Lane!loop, Lane!tracker, Lane!result, Lane!updates
<1>1. LaneTyped'
  <2>1. interferences' \in 0..LaneFaults
    BY Counted
  <2>2. place' \in [Lane!Tensors -> {"sealed", "recast", "elsewhere"}]
    BY MisplacedTyped, CastTyped DEF LaneTyped, Lane!TypeOK
  <2>3. live' \subseteq Lane!Tensors /\ hooks' = live' /\ bound' = live'
    BY DEF Lane!Tensors
  <2>4. UNCHANGED Lane!Tensors
    BY DEF Lane!Tensors, Lane!Full
  <2> QED BY <2>1, <2>2, <2>3, <2>4 DEF LaneTyped, Lane!TypeOK
<1>2. Fresh'
  <2>1. before' # None => \A n \in DOMAIN before' : before'[n].value = value'[n]
    BY DEF Lane!Snapshot
  <2> QED BY <2>1 DEF Fresh, EarlyPhases
<1>3. Watched'
  <2>1. observed' \subseteq hooks'
    BY DEF Fresh, EarlyPhases
  <2>2. ~Lane!Full => hooks' = Adapter /\ live' = Adapter /\ bound' = Adapter
    OBVIOUS
  <2>3. ~Lane!Hosted => \A n \in Lane!Tensors : place'[n] = "sealed"
    <3>1. ~Lane!Hosted => ~Lane!Full
      BY DEF Lane!Hosted, Lane!Full
    <3>2. place' \in [Lane!Tensors -> {"sealed", "recast", "elsewhere"}]
      BY MisplacedTyped, CastTyped DEF LaneTyped, Lane!TypeOK
    <3> QED BY <3>1, <3>2, VerifiedSealed
  <2>4. UNCHANGED <<Lane!Tensors, Lane!Full, Lane!Hosted>>
    BY DEF Lane!Tensors, Lane!Full, Lane!Hosted
  <2>5. phase' \in {"construct", "begin"} /\ (phase' = "construct" => Lane!Hosted)
    OBVIOUS
  <2> QED BY <2>1, <2>2, <2>3, <2>4, <2>5 DEF Watched, Late, Lane!Hosted, Lane!Full
<1>4. Looping' /\ Concluded' /\ Kept'
  BY LaneConstants DEF Looping, Concluded, Late, Kept, Lane!Admitted, Lane!LaneAssumption
<1> QED BY <1>1, <1>2, <1>3, <1>4

\* The library builds its trainer around the model, and may disturb it.
LEMMA ConstructKeeps == LaneInv /\ Lane!Construct => LaneInv'
<1> SUFFICES ASSUME LaneInv, Lane!Construct PROVE LaneInv'
  OBVIOUS
<1> USE DEF LaneInv, Lane!At, Lane!Goto, Lane!choices, Lane!rows, Lane!watch,
            Lane!loop, Lane!tracker, Lane!result, Lane!updates
<1> PICK m \in Lane!Disturbances \cup {Lane!Untouched} :
       /\ Lane!Work(m)
       /\ place' = IF lane = "training" THEN Lane!Cast(m.place, m.live) ELSE m.place
       /\ live' = m.live /\ bound' = m.bound
       /\ before' = IF lane = "training" THEN Lane!Snapshot(value, [m EXCEPT !.place = place'])
                    ELSE before
  BY DEF Lane!Construct
<1>u. /\ phase = "construct" /\ phase' = "begin" /\ UNCHANGED <<Lane!choices, ended>>
      /\ UNCHANGED <<Lane!rows, value, Lane!watch, kernel, Lane!loop, Lane!tracker, Lane!result,
                     start, Lane!updates>>
  BY DEF Lane!Construct
<1>t. UNCHANGED <<Lane!Tensors, Lane!Full, Lane!Hosted>>
  BY <1>u DEF Lane!Tensors, Lane!Full, Lane!Hosted
<1>1. LaneTyped'
  <2>1. interferences' \in 0..LaneFaults
    BY Counted DEF Lane!Work
  <2>2. /\ place' \in [Lane!Tensors -> {"sealed", "recast", "elsewhere"}]
        /\ live' \subseteq Lane!Tensors /\ bound' \subseteq bound
    BY WorkTyped, CastTyped
  <2> QED BY <2>1, <2>2, <1>u, <1>t DEF LaneTyped, Lane!TypeOK
<1>2. Fresh'
  <2>1. before' # None => \A n \in DOMAIN before' : before'[n].value = value'[n]
    BY <1>u DEF Fresh, EarlyPhases, Lane!Snapshot
  <2> QED BY <2>1, <1>u DEF Fresh, EarlyPhases
<1>3. Watched'
  <2>1. Lane!Hosted
    BY <1>u DEF Watched
  <2> QED BY <2>1, <1>u, <1>t DEF Watched, Late
<1>4. Looping' /\ Concluded' /\ Kept'
  BY <1>u, LaneConstants DEF Looping, Concluded, Late, Kept, Lane!Admitted, Lane!LaneAssumption
<1> QED BY <1>1, <1>2, <1>3, <1>4

\* The loop begins with what the lane verified, or refuses.
LEMMA BeginKeeps == LaneInv /\ Lane!Begin => LaneInv'
<1> SUFFICES ASSUME LaneInv, Lane!Begin PROVE LaneInv'
  OBVIOUS
<1> USE DEF LaneInv, Lane!At, Lane!Goto, Lane!choices, Lane!rows, Lane!model,
            Lane!loop, Lane!tracker, Lane!result, Lane!updates
<1>u. /\ phase = "begin" /\ phase' = "train" /\ UNCHANGED <<Lane!choices, ended>>
      /\ UNCHANGED <<Lane!rows, Lane!model, hooks, observed, pending, bad, micro, Lane!tracker,
                     Lane!result, Lane!updates>>
      /\ value' \in Lane!Restored /\ before' = Lane!Baseline(value')
      /\ start' = value' /\ done' = Lane!From /\ kernel' = TRUE
      /\ Lane!Exact(groups')
  BY DEF Lane!Begin
<1>t. UNCHANGED <<Lane!Tensors, Lane!Full, Lane!Hosted, Lane!From>>
  BY <1>u DEF Lane!Tensors, Lane!Full, Lane!Hosted, Lane!From
<1>f. Lane!From \in 0..1 /\ Lane!From \in 0..LaneSteps
  BY LaneConstants DEF Lane!From, Lane!LaneAssumption
<1>1. LaneTyped'
  <2>1. interferences' \in 0..LaneFaults
    BY Counted DEF Lane!Begin
  <2>2. value' \in [Lane!Tensors -> {0, 1, NaN}]
    BY <1>u DEF Lane!Restored, LaneTyped, Lane!TypeOK
  <2>3. groups' \subseteq Lane!Tensors \X BOOLEAN
    <3>1. \A n \in hooks : <<n, TRUE>> \in Lane!Tensors \X BOOLEAN
      BY Zenon DEF LaneTyped, Lane!TypeOK
    <3> QED BY <3>1, <1>u DEF Lane!Exact
  <2>4. {byEpoch, lossy, resumed, kernel, poisoned}' \subseteq BOOLEAN
    BY <1>u, Zenon DEF LaneTyped, Lane!TypeOK
  <2>5. ~(micro' > 0)
    BY <1>u DEF Fresh, EarlyPhases
  <2> QED BY <2>1, <2>2, <2>3, <2>4, <2>5, <1>u, <1>t, <1>f DEF LaneTyped, Lane!TypeOK
<1>2. Fresh' /\ Concluded' /\ Kept'
  BY <1>u, LaneConstants DEF Fresh, EarlyPhases, Concluded, Late, Kept, Lane!Admitted,
     Lane!LaneAssumption
<1>3. Watched'
  BY <1>u, <1>t DEF Watched, Late, Lane!Exact
<1>4. Looping'
  <2>1. before' # None => \A n \in DOMAIN before' : before'[n].value = start'[n]
    <3>1. CASE resumed
      BY <3>1, <1>u DEF Lane!Baseline, Lane!Snapshot, Lane!Untouched
    <3>2. CASE ~resumed
      BY <3>2, <1>u DEF Lane!Baseline, Lane!Restored, Fresh, EarlyPhases
    <3> QED BY <3>1, <3>2
  <2>2. /\ micro' = 0 /\ pending' = {} /\ bad' = {} /\ ~poisoned' /\ strayed' = {}
        /\ reported' = <<>> /\ losses' = {} /\ Len(reported') = 0
    BY <1>u DEF Fresh, EarlyPhases
  <2>3. Moved'
    BY <2>1, <2>2, <1>u DEF Moved
  <2>4. Told'
    BY <2>2, <1>u, <1>t, <1>f DEF Told
  <2> QED BY <2>2, <2>3, <2>4, <1>u, <1>t, <1>f DEF Looping
<1> QED BY <1>1, <1>2, <1>3, <1>4

\* A disturbance is within what the hooks and the trackers see.
LEMMA DisturbKeeps == LaneInv /\ Lane!Disturb => LaneInv'
<1> SUFFICES ASSUME LaneInv, Lane!Disturb PROVE LaneInv'
  OBVIOUS
<1> USE DEF LaneInv, Lane!At, Lane!choices, Lane!rows, Lane!loop, Lane!tracker, Lane!result,
            Lane!updates
<1>u. /\ phase = "train" /\ micro = 0 /\ Lane!Faults(1)
      /\ UNCHANGED <<Lane!choices, ended, phase, Lane!rows, value, hooks, observed, Lane!loop,
                     Lane!tracker, before, Lane!result, start, Lane!updates>>
      /\ kernel' \in {kernel, FALSE} /\ (kernel' => kernel)
      /\ ~Lane!Hosted => UNCHANGED <<place, live, bound, groups>>
  <2>1. kernel' = kernel \/ kernel' = FALSE
    BY DEF Lane!Disturb
  <2>2. kernel' \in {kernel, FALSE}
    BY <2>1
  <2>4. kernel' => kernel
    BY <2>1
  <2>3. ~Lane!Hosted => UNCHANGED <<place, live, bound, groups>>
    BY DEF Lane!Disturb, Lane!model
  <2> QED BY <2>2, <2>3, <2>4 DEF Lane!Disturb
<1>t. UNCHANGED <<Lane!Tensors, Lane!Full, Lane!Hosted, Lane!From>>
  BY <1>u DEF Lane!Tensors, Lane!Full, Lane!Hosted, Lane!From
<1>1. LaneTyped'
  <2>1. interferences' \in 0..LaneFaults
    BY <1>u, Counted
  <2>2. /\ place' \in [Lane!Tensors -> {"sealed", "recast", "elsewhere"}]
        /\ live' \subseteq Lane!Tensors /\ bound' \subseteq bound
    <3>1. CASE UNCHANGED Lane!model
      BY <3>1 DEF LaneTyped, Lane!TypeOK, Lane!model
    <3>2. ASSUME NEW m \in Lane!Disturbances, place' = m.place, live' = m.live, bound' = m.bound
          PROVE  /\ place' \in [Lane!Tensors -> {"sealed", "recast", "elsewhere"}]
                 /\ live' \subseteq Lane!Tensors /\ bound' \subseteq bound
      BY <3>2, WorkTyped
    <3> QED BY <3>1, <3>2 DEF Lane!Disturb
  <2>3. groups' \subseteq Lane!Tensors \X BOOLEAN
    <3>1. CASE groups' = groups
      BY <3>1 DEF LaneTyped, Lane!TypeOK
    <3>2. \A n \in live : <<n, n \in bound>> \in Lane!Tensors \X BOOLEAN
      <4>1. live \subseteq Lane!Tensors
        BY DEF LaneTyped, Lane!TypeOK
      <4>2. ASSUME NEW n PROVE (n \in bound) \in BOOLEAN
        OBVIOUS
      <4> QED BY <4>1, <4>2, Zenon
    <3>3. Lane!Optimizer \subseteq Lane!Tensors \X BOOLEAN
      BY <3>2, Zenon DEF Lane!Optimizer
    <3>4. \A n \in Lane!Tensors : <<n, FALSE>> \in Lane!Tensors \X BOOLEAN
      BY Zenon
    <3>5. CASE groups' \in Lane!OtherOptimizers
      BY <3>3, <3>4, <3>5, Zenon DEF Lane!OtherOptimizers
    <3> QED BY <3>1, <3>5 DEF Lane!Disturb
  <2>4. {byEpoch, lossy, resumed, kernel, poisoned}' \subseteq BOOLEAN
    BY <1>u, Zenon DEF LaneTyped, Lane!TypeOK
  <2> QED BY <2>1, <2>2, <2>3, <2>4, <1>u, <1>t DEF LaneTyped, Lane!TypeOK
<1>2. Fresh' /\ Concluded' /\ Kept'
  BY <1>u, LaneConstants DEF Fresh, EarlyPhases, Concluded, Late, Kept, Lane!Admitted,
     Lane!LaneAssumption
<1>3. Watched'
  <2>1. ~Lane!Hosted => (Lane!Exact(groups) <=> Lane!Exact(groups'))
    BY <1>u DEF Lane!Exact
  <2> QED BY <2>1, <1>u, <1>t DEF Watched, Late, Lane!Exact
<1>4. Looping'
  <2>1. Looping /\ pending = {} /\ bad = {}
    BY <1>u DEF Looping
  <2>2. Moved'
    BY <1>u, <1>t, <2>1 DEF Looping, Moved
  <2>3. Lane!Hosted => Told'
    BY <1>u, <1>t, <2>1 DEF Looping, Told
  <2> QED BY <2>1, <2>2, <2>3, <1>u, <1>t DEF Looping
<1> QED BY <1>1, <1>2, <1>3, <1>4

\* A microbatch adds gradients, which the hooks observe.
LEMMA MicrobatchKeeps == LaneInv /\ Lane!Microbatch => LaneInv'
<1> SUFFICES ASSUME LaneInv, Lane!Microbatch PROVE LaneInv'
  OBVIOUS
<1> USE DEF LaneInv, Lane!At, Lane!choices, Lane!rows, Lane!model, Lane!tracker, Lane!result,
            Lane!updates
<1> PICK grads \in SUBSET Lane!Tensors : \E wrong \in SUBSET ({"loss"} \cup grads) :
       /\ Lane!Faults(Lane!Cardinality(wrong) + IF grads \subseteq live THEN 0 ELSE 1)
       /\ Lane!Hosted \/ Lane!OwnLoopAccepts(grads, wrong)
       /\ Lane!GradientsAccepted(Lane!Hooked(grads), wrong)
       /\ observed' = observed \cup Lane!Hooked(grads)
       /\ pending' = pending \cup grads
       /\ bad' = bad \cup wrong
  BY Zenon DEF Lane!Microbatch
<1> PICK wrong \in SUBSET ({"loss"} \cup grads) :
       /\ Lane!Faults(Lane!Cardinality(wrong) + IF grads \subseteq live THEN 0 ELSE 1)
       /\ Lane!Hosted \/ Lane!OwnLoopAccepts(grads, wrong)
       /\ Lane!GradientsAccepted(Lane!Hooked(grads), wrong)
       /\ observed' = observed \cup Lane!Hooked(grads)
       /\ pending' = pending \cup grads
       /\ bad' = bad \cup wrong
  OBVIOUS
<1>u. /\ phase = "train" /\ micro < LaneMicro /\ done < LaneSteps /\ micro' = micro + 1
      /\ UNCHANGED <<Lane!choices, ended, phase, Lane!rows, value, Lane!model, hooks, groups,
                     kernel, done, Lane!tracker, before, Lane!result, start, Lane!updates>>
  BY DEF Lane!Microbatch
<1>t. UNCHANGED <<Lane!Tensors, Lane!Full, Lane!Hosted, Lane!From>>
  BY <1>u DEF Lane!Tensors, Lane!Full, Lane!Hosted, Lane!From
<1>1. LaneTyped'
  <2>1. IsFiniteSet(Lane!Tensors)
    <3>1. IsFiniteSet(Base) /\ IsFiniteSet(Base \cup Adapter)
      BY LaneConstants, FS_Union, SameFinite DEF Lane!LaneAssumption
    <3> QED BY <3>1 DEF Lane!Tensors
  <2>2. IsFiniteSet({"loss"} \cup grads)
    BY <2>1, FS_Subset, FS_Union, FS_Singleton
  <2>3. Lane!Cardinality(wrong) \in Nat
    BY <2>2, FS_Subset, FS_CardinalityType, SameCardinality
  <2>4. (Lane!Cardinality(wrong) + IF grads \subseteq live THEN 0 ELSE 1) \in Nat
    BY <2>3
  <2>5. interferences' \in 0..LaneFaults
    BY <2>4, Counted
  <2>6. observed' \subseteq Lane!Tensors
    BY DEF Lane!Hooked, LaneTyped, Lane!TypeOK
  <2>7. micro' \in 0..LaneMicro
    BY <1>u, LaneConstants DEF LaneTyped, Lane!TypeOK, Lane!LaneAssumption
  <2> QED BY <2>5, <2>6, <2>7, <1>u, <1>t DEF LaneTyped, Lane!TypeOK
<1>2. Fresh' /\ Concluded' /\ Kept'
  BY <1>u, LaneConstants DEF Fresh, EarlyPhases, Concluded, Late, Kept, Lane!Admitted,
     Lane!LaneAssumption
<1>3. Watched'
  BY <1>u, <1>t DEF Watched, Late, Lane!Hooked, Lane!Exact
<1>4. Looping'
  <2>1. Looping /\ micro' # 0
    BY <1>u DEF LaneTyped, Lane!TypeOK
  <2>2. bad' \cap hooks \cap bound = {}
    <3>1. "loss" \notin hooks
      BY LaneConstants DEF LaneTyped, Lane!TypeOK, Lane!LaneAssumption, Lane!Tensors
    <3> QED BY <2>1, <3>1, <1>u DEF Looping, Lane!GradientsAccepted, Lane!Hooked
  <2>3. lane = "training" => \A n \in pending' \cap hooks \cap bound : place[n] = "sealed"
    BY <2>1, <1>u DEF Looping, Lane!GradientsAccepted, Lane!Hooked
  <2>4. Moved'
    BY <1>u, <1>t, <2>1 DEF Looping, Moved
  <2>5. Lane!Hosted => Told'
    BY <1>u, <1>t, <2>1 DEF Looping, Told
  <2>6. ~Lane!Hosted => "loss" \notin bad'
    BY <1>u, <2>1 DEF Looping, Lane!OwnLoopAccepts
  <2> QED BY <2>1, <2>2, <2>3, <2>4, <2>5, <2>6, <1>u, <1>t DEF Looping
<1> QED BY <1>1, <1>2, <1>3, <1>4

\* An update only changes what has a hook; in a lane with a Trainer the tracker sees to that.
LEMMA SteppedHooked ==
  ASSUME LaneInv, Lane!Update
  PROVE  Lane!Stepped \subseteq pending \cap hooks \cap bound
<1>1. Lane!Exact(groups)
  BY DEF Lane!Update, Lane!Report, Lane!At, LaneInv, Watched
<1>2. ASSUME NEW n \in Lane!Stepped PROVE n \in pending /\ <<n, n \in bound>> \in groups
  BY <1>2 DEF Lane!Stepped
<1>3. ASSUME NEW n \in Lane!Stepped PROVE n \in hooks /\ n \in bound
  <2>1. PICK h \in hooks : <<n, n \in bound>> = <<h, TRUE>>
    BY <1>1, <1>2 DEF Lane!Exact
  <2> QED BY <2>1
<1> QED BY <1>2, <1>3

\* An optimizer step moves what has a gradient, or is refused.
LEMMA UpdateKeeps == LaneInv /\ Lane!Update => LaneInv'
<1> SUFFICES ASSUME LaneInv, Lane!Update PROVE LaneInv'
  OBVIOUS
<1> USE DEF LaneInv, Lane!At, Lane!choices, Lane!rows, Lane!model, Lane!watch, Lane!result
<1>u. /\ phase = "train" /\ micro = LaneMicro
      /\ done' = done + 1 /\ micro' = 0 /\ pending' = {} /\ bad' = {}
      /\ UNCHANGED <<Lane!choices, ended, phase, Lane!rows, Lane!model, Lane!watch, kernel,
                     before, Lane!result, start>>
  BY DEF Lane!Update
<1>t. UNCHANGED <<Lane!Tensors, Lane!Full, Lane!Hosted, Lane!From>>
  BY <1>u DEF Lane!Tensors, Lane!Full, Lane!Hosted, Lane!From
<1>n. /\ done \in 0..LaneSteps /\ done < LaneSteps /\ Lane!From \in 0..1 /\ Lane!From <= done
      /\ LaneSteps \in Nat /\ Looping /\ done' # Lane!From
  BY <1>u, LaneConstants DEF LaneTyped, Lane!TypeOK, Lane!LaneAssumption, Lane!From, Looping
<1>v. PICK v \in [Lane!Stepped -> {0, 1, NaN}] :
        value' = [n \in DOMAIN value |-> IF n \in Lane!Stepped THEN v[n] ELSE value[n]]
  BY DEF Lane!Update
<1>s. Lane!Stepped \subseteq pending \cap hooks \cap bound
  BY SteppedHooked
<1>b. poisoned' => poisoned \/ "loss" \in bad
  BY <1>s, <1>n, <1>u DEF Lane!Update, Looping
<1>r. /\ ~Lane!Hosted => UNCHANGED Lane!tracker /\ Lane!Faults(0)
      /\ Lane!Hosted => \/ /\ done' = Lane!From + Len(reported) + 1
                           /\ reported' = Append(reported, done')
                           /\ \/ "loss" \notin bad /\ losses' = losses \cup {done'}
                              \/ losses' = losses
                        \/ UNCHANGED Lane!tracker
      /\ Lane!Faults(0) \/ Lane!Faults(1)
  BY DEF Lane!Update, Lane!Report
<1>w. Told /\ Lane!Hosted => Told' /\ reported' \in Seq(Nat) /\ Len(reported') <= done'
  <2> SUFFICES ASSUME Told, Lane!Hosted
               PROVE  Told' /\ reported' \in Seq(Nat) /\ Len(reported') <= done'
    OBVIOUS
  <2> USE DEF Told
  <2>0. reported \in Seq(Nat) /\ Len(reported) \in Nat
    BY DEF LaneTyped
  <2>1. CASE UNCHANGED Lane!tracker
    <3>1. reported' = reported /\ losses' = losses
      BY <2>1 DEF Lane!tracker
    <3>2. ~poisoned' \/ \E k \in (Lane!From + 1)..done' : k \notin losses
      <4>1. ASSUME poisoned PROVE \E k \in (Lane!From + 1)..done' : k \notin losses
        BY <4>1, <1>n, <1>u
      <4>2. done' \in (Lane!From + 1)..done' /\ done' \notin losses
        BY <1>n, <1>u, <2>0
      <4> QED BY <4>1, <4>2
    <3> QED BY <3>1, <3>2, <2>0, <1>n, <1>u, <1>t
  <2>2. CASE /\ done' = Lane!From + Len(reported) + 1 /\ reported' = Append(reported, done')
             /\ "loss" \notin bad /\ losses' = losses \cup {done'}
    <3>1. reported' \in Seq(Nat) /\ Len(reported') = Len(reported) + 1
      BY <2>2, <2>0, <1>n, <1>u
    <3>2. poisoned' => poisoned
      BY <1>b, <2>2
    <3>3. poisoned => \E k \in (Lane!From + 1)..done' : k \notin losses'
      <4> SUFFICES ASSUME poisoned PROVE \E k \in (Lane!From + 1)..done' : k \notin losses'
        OBVIOUS
      <4>1. PICK k \in (Lane!From + 1)..done : k \notin losses
        OBVIOUS
      <4>2. k \in (Lane!From + 1)..done' /\ k # done'
        BY <1>n, <1>u
      <4> QED BY <4>1, <4>2, <2>2
    <3>4. losses' \subseteq (Lane!From + 1)..(Lane!From + Len(reported'))
      <4>1. done' \in (Lane!From + 1)..(Lane!From + Len(reported'))
        BY <3>1, <2>0, <2>2, <1>n, <1>u
      <4>2. losses \subseteq (Lane!From + 1)..(Lane!From + Len(reported'))
        BY <3>1, <2>0, <1>n
      <4> QED BY <4>1, <4>2, <2>2
    <3>5. Len(reported') <= done' - Lane!From /\ Len(reported') <= done'
      BY <3>1, <2>0, <2>2, <1>n, <1>u
    <3> QED BY <3>1, <3>2, <3>3, <3>4, <3>5, <1>t
  <2>3. CASE /\ done' = Lane!From + Len(reported) + 1 /\ reported' = Append(reported, done')
             /\ losses' = losses
    <3>1. reported' \in Seq(Nat) /\ Len(reported') = Len(reported) + 1
      BY <2>3, <2>0, <1>n, <1>u
    <3>2. done' \in (Lane!From + 1)..done' /\ done' \notin losses
      BY <1>n, <1>u, <2>0, <2>3
    <3>3. \E k \in (Lane!From + 1)..done' : k \notin losses'
      BY <3>2, <2>3
    <3>4. losses' \subseteq (Lane!From + 1)..(Lane!From + Len(reported'))
      BY <3>1, <2>0, <2>3, <1>n
    <3>5. Len(reported') <= done' - Lane!From /\ Len(reported') <= done'
      BY <3>1, <2>0, <2>3, <1>n, <1>u
    <3> QED BY <3>1, <3>3, <3>4, <3>5, <1>t
  <2> QED BY <1>r, <2>1, <2>2, <2>3
<1>m. Moved'
  <2>1. /\ before' # None => \A n \in DOMAIN before' : before'[n].value = start'[n]
        /\ \A n \in Lane!Tensors \ hooks : value'[n] = start[n]
    BY <1>u, <1>n, <1>v, <1>s DEF Looping, Moved, LaneTyped, Lane!TypeOK
  <2>2. "kernel" \in strayed' => ~kernel
    BY <1>n DEF Lane!Update, Looping, Moved
  <2>3. ~Lane!Full => \A n \in Lane!Stepped : place[n] = "sealed"
    <3>1. ~Lane!Full => lane = "training" \/ ~Lane!Hosted
      BY DEF Lane!Full, Lane!Hosted
    <3> QED BY <3>1, <1>n, <1>s, <1>u DEF Looping, Watched, LaneTyped, Lane!TypeOK
  <2>4. ~Lane!Full => "place" \notin strayed'
    BY <2>3, <1>n DEF Lane!Update, Looping, Moved
  <2> QED BY <2>1, <2>2, <2>4, <1>u, <1>t DEF Moved
<1>1. LaneTyped'
  <2>1. interferences' \in 0..LaneFaults
    BY <1>r, Counted
  <2>2. value' \in [Lane!Tensors -> {0, 1, NaN}]
    BY <1>v DEF LaneTyped, Lane!TypeOK
  <2>3. {byEpoch, lossy, resumed, kernel, poisoned}' \subseteq BOOLEAN
    <3>1. poisoned' \in BOOLEAN
      BY Zenon DEF Lane!Update
    <3>2. {byEpoch, lossy, resumed, kernel}' \subseteq BOOLEAN
      BY <1>u, Zenon DEF LaneTyped, Lane!TypeOK
    <3> QED BY <3>1, <3>2
  <2>4. strayed' \subseteq {"kernel", "place"}
    BY DEF Lane!Update, LaneTyped, Lane!TypeOK
  <2>5. reported' \in Seq(Nat) /\ Len(reported') <= LaneSteps /\ losses' \subseteq 1..LaneSteps
    <3>1. CASE ~Lane!Hosted
      BY <3>1, <1>r DEF Lane!tracker, LaneTyped, Lane!TypeOK
    <3>2. CASE Lane!Hosted
      <4>1. Told' /\ reported' \in Seq(Nat) /\ Len(reported') <= done' /\ Len(reported') \in Nat
        BY <3>2, <1>w, <1>n, <1>u DEF Looping
      <4>2. losses' \subseteq (Lane!From + 1)..(Lane!From + Len(reported'))
            /\ Len(reported') <= done' - Lane!From
        BY <4>1, <1>t DEF Told
      <4> QED BY <4>1, <4>2, <1>n, <1>u
    <3> QED BY <3>1, <3>2
  <2>6. micro' \in 0..LaneMicro /\ done' \in 0..LaneSteps /\ ~(micro' > 0)
    BY <1>u, <1>n, LaneConstants DEF Lane!LaneAssumption
  <2> QED BY <2>1, <2>2, <2>3, <2>4, <2>5, <2>6, <1>u, <1>t DEF LaneTyped, Lane!TypeOK
<1>2. Fresh' /\ Concluded' /\ Kept'
  BY <1>u, LaneConstants DEF Lane!Update, Fresh, EarlyPhases, Concluded, Late, Kept, Lane!Admitted,
     Lane!LaneAssumption
<1>3. Watched'
  BY <1>u, <1>t DEF Watched, Late, Lane!Exact
<1>4. Looping'
  <2>1. ~Lane!Hosted => "loss" \notin bad' /\ ~poisoned' /\ reported' = <<>> /\ losses' = {}
    BY <1>n, <1>b, <1>u, <1>r DEF Looping, Lane!tracker
  <2> QED BY <2>1, <1>m, <1>w, <1>n, <1>u, <1>t DEF Looping
<1> QED BY <1>1, <1>2, <1>3, <1>4

\* Every step was reported with its loss, so none used a bad one; what the run has learned is a
\* change of its own.
LEMMA FinalizeKeeps == LaneInv /\ Lane!Finalize => LaneInv'
<1> SUFFICES ASSUME LaneInv, Lane!Finalize PROVE LaneInv'
  OBVIOUS
<1> USE DEF LaneInv, Lane!At, Lane!Goto, Lane!choices, Lane!rows, Lane!model, Lane!watch,
            Lane!loop, Lane!updates
<1>u. /\ phase = "train" /\ micro = 0 /\ phase' = "save"
      /\ proposal' = [steps |-> done, export |-> [n \in Lane!Exported |-> value[n]],
                      gate |-> None]
      /\ UNCHANGED <<Lane!choices, ended, Lane!rows, value, Lane!model, Lane!watch, kernel,
                     Lane!loop, before, saved, interferences, start, Lane!updates>>
  BY DEF Lane!Finalize
<1>t. UNCHANGED <<Lane!Tensors, Lane!Full, Lane!Hosted, Lane!From, Lane!Exported>>
  BY <1>u DEF Lane!Tensors, Lane!Full, Lane!Hosted, Lane!From, Lane!Exported
<1>n. /\ done \in 0..LaneSteps /\ Lane!From \in 0..1 /\ Lane!From <= done
      /\ LaneSteps \in Nat /\ Looping
  BY <1>u, LaneConstants DEF LaneTyped, Lane!TypeOK, Lane!LaneAssumption, Lane!From, Looping
<1>1. LaneTyped'
  <2>1. reported' \in Seq(Nat) /\ Len(reported') <= LaneSteps /\ losses' \subseteq 1..LaneSteps
    <3>1. CASE Lane!Hosted
      BY <3>1 DEF Lane!Finalize, Lane!tracker, LaneTyped, Lane!TypeOK
    <3>2. CASE ~Lane!Hosted
      <4>1. reported' = [i \in 1..done |-> i] /\ losses' = 1..done /\ done = LaneSteps
        BY <3>2 DEF Lane!Finalize, Lane!Replay
      <4> QED BY <4>1, <1>n
    <3> QED BY <3>1, <3>2
  <2> QED BY <2>1, <1>u, <1>t DEF LaneTyped, Lane!TypeOK
<1>2. Fresh' /\ Looping' /\ Kept'
  BY <1>u, LaneConstants DEF Fresh, EarlyPhases, Looping, Kept, Lane!Admitted, Lane!LaneAssumption
<1>3. Watched'
  BY <1>u, <1>t DEF Watched, Late, Lane!Exact
<1>4. ~poisoned
  <2>1. CASE Lane!Hosted
    <3>1. losses = (Lane!From + 1)..done
      BY <2>1 DEF Lane!Finalize, Lane!Accounted, Lane!Expected, Lane!tracker
    <3> QED BY <2>1, <3>1, <1>n, <1>u DEF Looping, Told
  <2>2. CASE ~Lane!Hosted
    BY <2>2, <1>n, <1>u DEF Looping
  <2> QED BY <2>1, <2>2
<1>5. PICK n \in live : value[n] # before[n].value /\ n \in observed
  BY DEF Lane!Finalize, Lane!Learned, Lane!Changed
<1>6. n \in hooks /\ value[n] # start[n]
  <2>1. before # None /\ DOMAIN before = live
    BY DEF Lane!Finalize, Lane!Learned, Lane!Comparable
  <2> QED BY <2>1, <1>5, <1>n, <1>u DEF Looping, Moved, Watched
<1>7. resumed => done > Lane!From
  BY <1>6, <1>n, <1>u DEF Looping
<1>8. \A m \in Lane!Exported : value[m] # NaN
  <2>1. \A m \in live : value[m] # NaN
    BY DEF Lane!Finalize, Lane!Learned
  <2>2. CASE Lane!Full
    BY <2>1, <2>2 DEF Lane!Exported
  <2>3. CASE ~Lane!Full
    <3>1. CASE Lane!Hosted
      BY <2>1, <2>3, <3>1, <1>u DEF Lane!Finalize, Lane!Inventory, Lane!Untouched, Watched,
         Lane!Exported
    <3>2. CASE ~Lane!Hosted
      BY <2>1, <2>3, <3>2, <1>u DEF Watched, Lane!Exported
    <3> QED BY <3>1, <3>2
  <2> QED BY <2>2, <2>3
<1>9. lane = "pretraining" \/ "kernel" \notin strayed
  BY <1>n, <1>u DEF Lane!Finalize, Looping, Moved
<1>10. Concluded'
  BY <1>4, <1>6, <1>7, <1>8, <1>9, <1>n, <1>u, <1>t DEF Concluded, Looping, Moved
<1> QED BY <1>1, <1>2, <1>3, <1>10

\* The file may hold something else than was trained: nothing is claimed of it before it is admitted.
LEMMA SaveKeeps == LaneInv /\ Lane!Save => LaneInv'
<1> SUFFICES ASSUME LaneInv, Lane!Save PROVE LaneInv'
  OBVIOUS
<1> USE DEF LaneInv, Lane!At, Lane!Goto, Lane!choices, Lane!rows, Lane!model, Lane!watch,
            Lane!loop, Lane!tracker, Lane!updates
<1>u. /\ phase = "save" /\ phase' \in {"gate", "admit"}
      /\ UNCHANGED <<Lane!choices, ended, Lane!rows, value, Lane!model, Lane!watch, kernel,
                     Lane!loop, Lane!tracker, before, proposal, start, Lane!updates>>
  BY DEF Lane!Save
<1>t. UNCHANGED <<Lane!Tensors, Lane!Full, Lane!Hosted, Lane!From, Lane!Exported>>
  BY <1>u DEF Lane!Tensors, Lane!Full, Lane!Hosted, Lane!From, Lane!Exported
<1>1. LaneTyped'
  <2>1. Lane!Faults(0) \/ Lane!Faults(1)
    BY DEF Lane!Save
  <2>2. interferences' \in 0..LaneFaults
    BY <2>1, Counted
  <2> QED BY <2>2, <1>u, <1>t DEF LaneTyped, Lane!TypeOK
<1>2. Fresh' /\ Looping' /\ Concluded' /\ Kept'
  BY <1>u, <1>t, LaneConstants DEF Fresh, EarlyPhases, Looping, Concluded, Late, Kept, Lane!Admitted,
     Lane!LaneAssumption
<1>3. Watched'
  BY <1>u, <1>t DEF Watched, Late, Lane!Exact
<1> QED BY <1>1, <1>2, <1>3

\* A gate leaves the tensors that train as they are.
LEMMA GateKeeps ==
  ASSUME LaneInv, NEW rises, NEW near, Lane!Gate(rises, near)
  PROVE  LaneInv'
<1> USE DEF LaneInv, Lane!Gate, Lane!At, Lane!Goto, Lane!choices, Lane!rows, Lane!model,
            Lane!watch, Lane!loop, Lane!tracker, Lane!updates
<1>t. UNCHANGED <<Lane!Tensors, Lane!Full, Lane!Hosted, Lane!From, Lane!Exported>>
  BY DEF Lane!Tensors, Lane!Full, Lane!Hosted, Lane!From, Lane!Exported
<1>1. LaneTyped'
  BY <1>t DEF LaneTyped, Lane!TypeOK
<1>2. Fresh' /\ Looping' /\ Concluded' /\ Kept'
  BY <1>t, LaneConstants DEF Fresh, EarlyPhases, Looping, Concluded, Late, Kept, Lane!Admitted,
     Lane!LaneAssumption
<1>3. Watched'
  BY <1>t DEF Watched, Late, Lane!Exact
<1> QED BY <1>1, <1>2, <1>3

\* Where nothing but the outcome changes.
LEMMA SettledKeeps ==
  ASSUME LaneInv, ended' \in {None, "failed", "admitted"},
         UNCHANGED <<Lane!choices, phase, Lane!rows, value, Lane!model, Lane!watch, kernel,
                     Lane!loop, Lane!tracker, before, Lane!result, interferences, start,
                     Lane!updates>>,
         ended' = "admitted" => phase = "admit" /\ Lane!ScheduleKept /\ Lane!FileHoldsEvidence
  PROVE  LaneInv'
<1> USE DEF LaneInv, Lane!choices, Lane!rows, Lane!model, Lane!watch, Lane!loop, Lane!tracker,
            Lane!result, Lane!updates
<1>t. UNCHANGED <<Lane!Tensors, Lane!Full, Lane!Hosted, Lane!From, Lane!Exported>>
  BY DEF Lane!Tensors, Lane!Full, Lane!Hosted, Lane!From, Lane!Exported
<1>1. LaneTyped'
  BY <1>t DEF LaneTyped, Lane!TypeOK
<1>2. Fresh' /\ Concluded'
  BY <1>t DEF Fresh, EarlyPhases, Concluded, Late
<1>3. Watched'
  BY <1>t DEF Watched, Late, Lane!Exact
<1>4. Looping'
  <2>1. Moved' = Moved /\ Told' = Told
    BY <1>t DEF Moved, Told
  <2> QED BY <2>1, <1>t DEF Looping
<1>5. Kept'
  BY DEF Kept, Lane!Admitted, Lane!ScheduleKept, Lane!FileHoldsEvidence
<1> QED BY <1>1, <1>2, <1>3, <1>4, <1>5

\* Every step of the lane keeps its invariant.
LEMMA LaneKeeps == LaneInv /\ (Lane!Next \/ UNCHANGED laneVars) => LaneInv'
<1> SUFFICES ASSUME LaneInv, Lane!Next \/ UNCHANGED laneVars PROVE LaneInv'
  OBVIOUS
<1>1. CASE Lane!RewardGate \/ Lane!RolloutGate
  BY <1>1, GateKeeps DEF Lane!RewardGate, Lane!RolloutGate
<1>2. CASE Lane!Admit
  BY <1>2, SettledKeeps DEF Lane!Admit, Lane!At
<1>3. CASE Lane!Fail
  BY <1>3, SettledKeeps DEF Lane!Fail
<1>4. CASE UNCHANGED laneVars
  <2>1. UNCHANGED <<Lane!choices, phase, Lane!rows, value, Lane!model, Lane!watch, kernel,
                    Lane!loop, Lane!tracker, before, Lane!result, interferences, start,
                    Lane!updates>> /\ ended' = ended
    BY <1>4 DEF laneVars, Lane!choices, Lane!rows, Lane!model, Lane!watch, Lane!loop,
       Lane!tracker, Lane!result, Lane!updates
  <2> QED BY <2>1, SettledKeeps DEF LaneInv, LaneTyped, Lane!TypeOK, Kept, Lane!Admitted
<1> QED BY <1>1, <1>2, <1>3, <1>4, TakeRowsKeeps, LoadModelKeeps, AttachKeeps, ConstructKeeps,
           BeginKeeps, DisturbKeeps, MicrobatchKeeps, UpdateKeeps, FinalizeKeeps, SaveKeeps
        DEF Lane!Next

-----------------------------------------------------------------------------
EventLines == [step : {None} \cup 1..LastStep, timed : BOOLEAN, counted : BOOLEAN]

Samples == [power : {None} \cup Nat, memory : BOOLEAN, rss : BOOLEAN, unavailable : BOOLEAN,
            label : Measured!Windows, since : Measured!Windows]

\* Where the command and its thread are.
ControlTyped ==
  /\ setting \in Settings
  /\ command \in {"run", "stop", "join", "close", "summarize", "succeeded", "failed", "raised"}
  /\ unlogged \in {"no", "yes", "noted"} /\ told \in {None, "succeeded", "failed"}

ThreadTyped ==
  /\ window \in Measured!Windows /\ since \in {None} \cup Measured!Windows
  /\ sampling \in {"check", "take", "probe", "dead"}
  /\ sampling = "probe" => since \in Measured!Windows

CutTyped == cut \subseteq {"log", "series"}

NumbersTyped == current \in {None} \cup 1..LastStep /\ flaws \in 0..TelemetryFaults

\* The flags.
FlagsTyped ==
  /\ stop \in BOOLEAN /\ open \in BOOLEAN /\ outlived \in BOOLEAN
  /\ recorded = None \/ recorded \in [state : {"succeeded", "failed"}, notes : BOOLEAN]

\* The two files that grow.
FilesTyped ==
  /\ log \in Seq(EventLines) /\ series \in Seq(Samples)
  /\ Len(series) <= MaxSamples
  /\ sampling \in {"take", "probe"} => Len(series) < MaxSamples

\* The rows of the log are the steps of the run, in order.
Numbered ==
  /\ current = None => Measured!Rows(log) = {}
  /\ current # None => current = setting.from + Cardinality(Measured!Rows(log))
  /\ \A i \in Measured!Rows(log) :
       log[i].step = setting.from + Cardinality({j \in Measured!Rows(log) : j < i}) + 1

\* The order of the windows.
Rank(w) == CASE w = "baseline" -> 0 [] w = "setup" -> 1 [] w = "warmup" -> 2
             [] w = "measured" -> 3 [] OTHER -> 4

\* A sample was labelled no later than the reading under way began.
Windowed ==
  /\ window = "measured" => current # None /\ current > Warmup
  /\ series # <<>> => Rank(series[Len(series)].label) <= Rank(window)
  /\ sampling = "probe" => /\ Rank(since) <= Rank(window)
                           /\ series # <<>> => Rank(series[Len(series)].label) <= Rank(since)
  /\ Measured!LabelledOnceLate

\* Once nobody waits for the thread, it has ended or outlived its stop.
Stopped ==
  command \in {"close", "summarize"} \cup Measured!Ended /\ ~outlived => sampling = "dead"

\* What the command has read is what there is, and so is what it derived from it.
Exactly(r) == r[2] = log /\ r[3] \in Seq(Samples) /\ (~outlived => r = Measured!Records)

GotInv ==
  /\ command # "summarize" => got = <<>>
  /\ \/ got = <<>>
     \/ \E r : got = <<r>> /\ Exactly(r)
     \/ \E r, h : got = <<r, h>> /\ Exactly(r) /\ Exactly(h)

Derived ==
  summary.by # None =>
    /\ command \in Measured!Ended /\ summary.by \in {"command", "later"}
    /\ summary.from[2] = log /\ summary.from[3] \in Seq(Samples)
    /\ summary = Measured!Summary(summary.by, summary.from, summary.bound)
    /\ summary.by = "command" /\ ~outlived =>
         summary.from = Measured!Records /\ summary.bound = Measured!Records

\* A success is on record before it is returned, and summarized before it is reported.
Succeeds ==
  /\ told = "succeeded" => recorded.state = "succeeded"
  /\ command = "succeeded" => told = "succeeded" /\ summary.by # None

MeasuredInv ==
  /\ ControlTyped /\ ThreadTyped /\ CutTyped /\ NumbersTyped /\ FlagsTyped /\ FilesTyped /\ Numbered /\ Windowed /\ Stopped
  /\ GotInv /\ Derived /\ Succeeds

\* A run begins unmeasured.
LEMMA MeasuredInitially == Measured!Init => MeasuredInv
<1> SUFFICES ASSUME Measured!Init PROVE MeasuredInv
  OBVIOUS
<1> USE DEF Measured!Init
<1>1. ControlTyped /\ ThreadTyped /\ CutTyped /\ NumbersTyped
  BY MeasuredConstants DEF ControlTyped, ThreadTyped, CutTyped, NumbersTyped, Measured!Windows,
     Measured!TelemetryAssumption
<1>5. FlagsTyped
  BY Zenon DEF FlagsTyped
<1>2. FilesTyped /\ Stopped /\ GotInv
  BY MeasuredConstants DEF FilesTyped, Stopped, GotInv, Measured!Ended,
     Measured!TelemetryAssumption
<1>3. Numbered /\ Windowed
  BY DEF Numbered, Measured!Rows, Windowed, Measured!LabelledOnceLate
<1>4. Derived /\ Succeeds
  BY MeasuredConstants DEF Derived, Succeeds, Measured!NoSummary, Measured!TelemetryAssumption
<1> QED BY <1>1, <1>2, <1>3, <1>4, <1>5 DEF MeasuredInv

\* Where the command is.
LEMMA ControlKept == MeasuredInv /\ (Measured!Next \/ UNCHANGED measuredVars) => ControlTyped'
<1> SUFFICES ASSUME MeasuredInv, Measured!Next \/ UNCHANGED measuredVars PROVE ControlTyped'
  OBVIOUS
<1> USE MeasuredConstants DEF MeasuredInv, ControlTyped, Measured!run, Measured!control, Measured!thread, Measured!Fault
<1>1. CASE Measured!Setup
  BY <1>1 DEF Measured!Setup, Measured!Emit, Measured!Line, Measured!Other
<1>2. CASE Measured!Step
  BY <1>2 DEF Measured!Step, Measured!Emit, Measured!Line, Measured!Other
<1>3. CASE Measured!Terminal
  BY <1>3 DEF Measured!Terminal, Measured!Emit, Measured!Line, Measured!Other
<1>4. CASE Measured!Return
  BY <1>4 DEF Measured!Return
<1>5. CASE Measured!NotDispatched
  BY <1>5 DEF Measured!NotDispatched
<1>6. ASSUME NEW s \in {"succeeded", "failed"}, Measured!End(s) PROVE ControlTyped'
  BY <1>6 DEF Measured!End
<1>7. CASE Measured!Check
  BY <1>7 DEF Measured!Check
<1>8. CASE Measured!Open
  BY <1>8 DEF Measured!Open
<1>9. CASE Measured!Record
  BY <1>9 DEF Measured!Record
<1>10. CASE Measured!Stop
  BY <1>10 DEF Measured!Stop
<1>11. CASE Measured!Join
  BY <1>11 DEF Measured!Join
<1>12. CASE Measured!Close
  BY <1>12 DEF Measured!Close
<1>13. CASE Measured!Die
  BY <1>13 DEF Measured!Die
<1>14. CASE Measured!Parse
  BY <1>14 DEF Measured!Parse
<1>15. CASE Measured!Bind
  BY <1>15 DEF Measured!Bind
<1>16. CASE Measured!Publish
  BY <1>16 DEF Measured!Publish
<1>17. CASE Measured!Rederive
  BY <1>17 DEF Measured!Rederive
<1>18. CASE UNCHANGED measuredVars
  BY <1>18 DEF measuredVars
<1> QED BY <1>1, <1>2, <1>3, <1>4, <1>5, <1>6, <1>7, <1>8, <1>9, <1>10, <1>11, <1>12, <1>13, <1>14, <1>15, <1>16, <1>17, <1>18
        DEF Measured!Next

\* Where its thread is.
LEMMA ThreadKept == MeasuredInv /\ (Measured!Next \/ UNCHANGED measuredVars) => ThreadTyped'
<1> SUFFICES ASSUME MeasuredInv, Measured!Next \/ UNCHANGED measuredVars PROVE ThreadTyped'
  OBVIOUS
<1> USE DEF MeasuredInv, ThreadTyped, Measured!Windows, Measured!run, Measured!control, Measured!thread, Measured!Fault
<1>1. CASE Measured!Setup
  BY <1>1 DEF Measured!Setup, Measured!Emit, Measured!Line, Measured!Other
<1>2. CASE Measured!Step
  BY <1>2 DEF Measured!Step, Measured!Emit, Measured!Line, Measured!Other
<1>3. CASE Measured!Terminal
  BY <1>3 DEF Measured!Terminal, Measured!Emit, Measured!Line, Measured!Other
<1>4. CASE Measured!Return
  BY <1>4 DEF Measured!Return
<1>5. CASE Measured!NotDispatched
  BY <1>5 DEF Measured!NotDispatched
<1>6. ASSUME NEW s \in {"succeeded", "failed"}, Measured!End(s) PROVE ThreadTyped'
  BY <1>6 DEF Measured!End
<1>7. CASE Measured!Check
  BY <1>7 DEF Measured!Check
<1>8. CASE Measured!Open
  BY <1>8 DEF Measured!Open
<1>9. CASE Measured!Record
  BY <1>9 DEF Measured!Record
<1>10. CASE Measured!Stop
  BY <1>10 DEF Measured!Stop
<1>11. CASE Measured!Join
  BY <1>11 DEF Measured!Join
<1>12. CASE Measured!Close
  BY <1>12 DEF Measured!Close
<1>13. CASE Measured!Die
  BY <1>13 DEF Measured!Die
<1>14. CASE Measured!Parse
  BY <1>14 DEF Measured!Parse
<1>15. CASE Measured!Bind
  BY <1>15 DEF Measured!Bind
<1>16. CASE Measured!Publish
  BY <1>16 DEF Measured!Publish
<1>17. CASE Measured!Rederive
  BY <1>17 DEF Measured!Rederive
<1>18. CASE UNCHANGED measuredVars
  BY <1>18 DEF measuredVars
<1> QED BY <1>1, <1>2, <1>3, <1>4, <1>5, <1>6, <1>7, <1>8, <1>9, <1>10, <1>11, <1>12, <1>13, <1>14, <1>15, <1>16, <1>17, <1>18
        DEF Measured!Next

\* Files are whole, or cut.
LEMMA CutKept == MeasuredInv /\ (Measured!Next \/ UNCHANGED measuredVars) => CutTyped'
<1> SUFFICES ASSUME MeasuredInv, Measured!Next \/ UNCHANGED measuredVars PROVE CutTyped'
  OBVIOUS
<1> USE DEF MeasuredInv, CutTyped, Measured!run, Measured!control, Measured!thread, Measured!Fault
<1>1. CASE Measured!Setup
  BY <1>1 DEF Measured!Setup, Measured!Emit, Measured!Line, Measured!Other
<1>2. CASE Measured!Step
  BY <1>2 DEF Measured!Step, Measured!Emit, Measured!Line, Measured!Other
<1>3. CASE Measured!Terminal
  BY <1>3 DEF Measured!Terminal, Measured!Emit, Measured!Line, Measured!Other
<1>4. CASE Measured!Return
  BY <1>4 DEF Measured!Return
<1>5. CASE Measured!NotDispatched
  BY <1>5 DEF Measured!NotDispatched
<1>6. ASSUME NEW s \in {"succeeded", "failed"}, Measured!End(s) PROVE CutTyped'
  BY <1>6 DEF Measured!End
<1>7. CASE Measured!Check
  BY <1>7 DEF Measured!Check
<1>8. CASE Measured!Open
  BY <1>8 DEF Measured!Open
<1>9. CASE Measured!Record
  BY <1>9 DEF Measured!Record
<1>10. CASE Measured!Stop
  BY <1>10 DEF Measured!Stop
<1>11. CASE Measured!Join
  BY <1>11 DEF Measured!Join
<1>12. CASE Measured!Close
  BY <1>12 DEF Measured!Close
<1>13. CASE Measured!Die
  BY <1>13 DEF Measured!Die
<1>14. CASE Measured!Parse
  BY <1>14 DEF Measured!Parse
<1>15. CASE Measured!Bind
  BY <1>15 DEF Measured!Bind
<1>16. CASE Measured!Publish
  BY <1>16 DEF Measured!Publish
<1>17. CASE Measured!Rederive
  BY <1>17 DEF Measured!Rederive
<1>18. CASE UNCHANGED measuredVars
  BY <1>18 DEF measuredVars
<1> QED BY <1>1, <1>2, <1>3, <1>4, <1>5, <1>6, <1>7, <1>8, <1>9, <1>10, <1>11, <1>12, <1>13, <1>14, <1>15, <1>16, <1>17, <1>18
        DEF Measured!Next

\* Steps and faults keep their bounds.
LEMMA NumbersKept == MeasuredInv /\ (Measured!Next \/ UNCHANGED measuredVars) => NumbersTyped'
<1> SUFFICES ASSUME MeasuredInv, Measured!Next \/ UNCHANGED measuredVars PROVE NumbersTyped'
  OBVIOUS
<1> USE MeasuredConstants DEF MeasuredInv, NumbersTyped, ControlTyped, Measured!TelemetryAssumption, Measured!run, Measured!control, Measured!thread, Measured!Fault
<1>1. CASE Measured!Setup
  BY <1>1 DEF Measured!Setup, Measured!Emit, Measured!Line, Measured!Other
<1>2. CASE Measured!Step
  BY <1>2 DEF Measured!Step, Measured!Emit, Measured!Line, Measured!Other
<1>3. CASE Measured!Terminal
  BY <1>3 DEF Measured!Terminal, Measured!Emit, Measured!Line, Measured!Other
<1>4. CASE Measured!Return
  BY <1>4 DEF Measured!Return
<1>5. CASE Measured!NotDispatched
  BY <1>5 DEF Measured!NotDispatched
<1>6. ASSUME NEW s \in {"succeeded", "failed"}, Measured!End(s) PROVE NumbersTyped'
  BY <1>6 DEF Measured!End
<1>7. CASE Measured!Check
  BY <1>7 DEF Measured!Check
<1>8. CASE Measured!Open
  BY <1>8 DEF Measured!Open
<1>9. CASE Measured!Record
  BY <1>9 DEF Measured!Record
<1>10. CASE Measured!Stop
  BY <1>10 DEF Measured!Stop
<1>11. CASE Measured!Join
  BY <1>11 DEF Measured!Join
<1>12. CASE Measured!Close
  BY <1>12 DEF Measured!Close
<1>13. CASE Measured!Die
  BY <1>13 DEF Measured!Die
<1>14. CASE Measured!Parse
  BY <1>14 DEF Measured!Parse
<1>15. CASE Measured!Bind
  BY <1>15 DEF Measured!Bind
<1>16. CASE Measured!Publish
  BY <1>16 DEF Measured!Publish
<1>17. CASE Measured!Rederive
  BY <1>17 DEF Measured!Rederive
<1>18. CASE UNCHANGED measuredVars
  BY <1>18 DEF measuredVars
<1> QED BY <1>1, <1>2, <1>3, <1>4, <1>5, <1>6, <1>7, <1>8, <1>9, <1>10, <1>11, <1>12, <1>13, <1>14, <1>15, <1>16, <1>17, <1>18
        DEF Measured!Next

\* The thread does not come back.
LEMMA StoppedKept == MeasuredInv /\ (Measured!Next \/ UNCHANGED measuredVars) => Stopped'
<1> SUFFICES ASSUME MeasuredInv, Measured!Next \/ UNCHANGED measuredVars PROVE Stopped'
  OBVIOUS
<1> USE MeasuredConstants DEF MeasuredInv, Stopped, Measured!Ended, Measured!run, Measured!control, Measured!thread, Measured!Fault
<1>1. CASE Measured!Setup
  BY <1>1 DEF Measured!Setup, Measured!Emit, Measured!Line, Measured!Other
<1>2. CASE Measured!Step
  BY <1>2 DEF Measured!Step, Measured!Emit, Measured!Line, Measured!Other
<1>3. CASE Measured!Terminal
  BY <1>3 DEF Measured!Terminal, Measured!Emit, Measured!Line, Measured!Other
<1>4. CASE Measured!Return
  BY <1>4 DEF Measured!Return
<1>5. CASE Measured!NotDispatched
  BY <1>5 DEF Measured!NotDispatched
<1>6. ASSUME NEW s \in {"succeeded", "failed"}, Measured!End(s) PROVE Stopped'
  BY <1>6 DEF Measured!End
<1>7. CASE Measured!Check
  BY <1>7 DEF Measured!Check
<1>8. CASE Measured!Open
  BY <1>8 DEF Measured!Open
<1>9. CASE Measured!Record
  BY <1>9 DEF Measured!Record
<1>10. CASE Measured!Stop
  BY <1>10 DEF Measured!Stop
<1>11. CASE Measured!Join
  BY <1>11 DEF Measured!Join
<1>12. CASE Measured!Close
  BY <1>12 DEF Measured!Close
<1>13. CASE Measured!Die
  BY <1>13 DEF Measured!Die
<1>14. CASE Measured!Parse
  BY <1>14 DEF Measured!Parse
<1>15. CASE Measured!Bind
  BY <1>15 DEF Measured!Bind
<1>16. CASE Measured!Publish
  BY <1>16 DEF Measured!Publish, GotInv
<1>17. CASE Measured!Rederive
  BY <1>17 DEF Measured!Rederive
<1>18. CASE UNCHANGED measuredVars
  BY <1>18 DEF measuredVars
<1> QED BY <1>1, <1>2, <1>3, <1>4, <1>5, <1>6, <1>7, <1>8, <1>9, <1>10, <1>11, <1>12, <1>13, <1>14, <1>15, <1>16, <1>17, <1>18
        DEF Measured!Next

\* A success is written before anything tells of it.
LEMMA SucceedsKept == MeasuredInv /\ (Measured!Next \/ UNCHANGED measuredVars) => Succeeds'
<1> SUFFICES ASSUME MeasuredInv, Measured!Next \/ UNCHANGED measuredVars PROVE Succeeds'
  OBVIOUS
<1> USE MeasuredConstants DEF MeasuredInv, Succeeds, Measured!TelemetryAssumption, Measured!Ended, Measured!run, Measured!control, Measured!thread, Measured!Fault
<1>1. CASE Measured!Setup
  BY <1>1 DEF Measured!Setup, Measured!Emit, Measured!Line, Measured!Other
<1>2. CASE Measured!Step
  BY <1>2 DEF Measured!Step, Measured!Emit, Measured!Line, Measured!Other
<1>3. CASE Measured!Terminal
  BY <1>3 DEF Measured!Terminal, Measured!Emit, Measured!Line, Measured!Other
<1>4. CASE Measured!Return
  BY <1>4 DEF Measured!Return
<1>5. CASE Measured!NotDispatched
  BY <1>5 DEF Measured!NotDispatched
<1>6. ASSUME NEW s \in {"succeeded", "failed"}, Measured!End(s) PROVE Succeeds'
  BY <1>6 DEF Measured!End
<1>7. CASE Measured!Check
  BY <1>7 DEF Measured!Check
<1>8. CASE Measured!Open
  BY <1>8 DEF Measured!Open
<1>9. CASE Measured!Record
  BY <1>9 DEF Measured!Record
<1>10. CASE Measured!Stop
  BY <1>10 DEF Measured!Stop
<1>11. CASE Measured!Join
  BY <1>11 DEF Measured!Join
<1>12. CASE Measured!Close
  BY <1>12 DEF Measured!Close
<1>13. CASE Measured!Die
  BY <1>13 DEF Measured!Die
<1>14. CASE Measured!Parse
  BY <1>14 DEF Measured!Parse
<1>15. CASE Measured!Bind
  BY <1>15 DEF Measured!Bind
<1>16. CASE Measured!Publish
  BY <1>16 DEF Measured!Publish, Measured!Summary
<1>17. CASE Measured!Rederive
  BY <1>17 DEF Measured!Rederive, Measured!Summary
<1>18. CASE UNCHANGED measuredVars
  BY <1>18 DEF measuredVars
<1> QED BY <1>1, <1>2, <1>3, <1>4, <1>5, <1>6, <1>7, <1>8, <1>9, <1>10, <1>11, <1>12, <1>13, <1>14, <1>15, <1>16, <1>17, <1>18
        DEF Measured!Next

\* Flags are flags, and what is recorded is a manifest.
LEMMA FlagsKept == MeasuredInv /\ (Measured!Next \/ UNCHANGED measuredVars) => FlagsTyped'
<1> SUFFICES ASSUME MeasuredInv, Measured!Next \/ UNCHANGED measuredVars PROVE FlagsTyped'
  OBVIOUS
<1> USE DEF MeasuredInv, FlagsTyped, Measured!run, Measured!control, Measured!thread, Measured!Fault
<1>1. CASE Measured!Setup
  BY <1>1 DEF Measured!Setup, Measured!Emit, Measured!Line, Measured!Other
<1>2. CASE Measured!Step
  BY <1>2 DEF Measured!Step, Measured!Emit, Measured!Line, Measured!Other
<1>3. CASE Measured!Terminal
  BY <1>3 DEF Measured!Terminal, Measured!Emit, Measured!Line, Measured!Other
<1>4. CASE Measured!Return
  <2>1. told \in {"succeeded", "failed"}
    BY <1>4 DEF Measured!Return, ControlTyped
  <2>2. recorded' = recorded \/ recorded' = [state |-> told, notes |-> TRUE]
    BY <1>4 DEF Measured!Return
  <2>3. [state |-> told, notes |-> TRUE] \in [state : {"succeeded", "failed"}, notes : BOOLEAN]
    BY <2>1
  <2>4. UNCHANGED <<stop, open, outlived>>
    BY <1>4 DEF Measured!Return
  <2> QED BY <2>2, <2>3, <2>4
<1>5. CASE Measured!NotDispatched
  BY <1>5 DEF Measured!NotDispatched
<1>6. ASSUME NEW s \in {"succeeded", "failed"}, Measured!End(s) PROVE FlagsTyped'
  <2>1. (unlogged # "no") \in BOOLEAN /\ ((unlogged # "no") /\ ~setting.worker) \in BOOLEAN
    OBVIOUS
  <2> DEFINE a == unlogged # "no"
             b == (unlogged # "no") /\ ~setting.worker
  <2>3. \/ recorded' = recorded \/ recorded' = [state |-> s, notes |-> a]
        \/ recorded' = [state |-> "failed", notes |-> b]
    BY <1>6, Zenon DEF Measured!End
  <2>4. a \in BOOLEAN /\ b \in BOOLEAN
    BY <2>1
  <2> HIDE DEF a, b
  <2>2. recorded' = recorded \/ recorded' \in [state : {"succeeded", "failed"}, notes : BOOLEAN]
    BY <2>3, <2>4
  <2> QED BY <1>6, <2>2 DEF Measured!End
<1>7. CASE Measured!Check
  BY <1>7 DEF Measured!Check
<1>8. CASE Measured!Open
  BY <1>8 DEF Measured!Open
<1>9. CASE Measured!Record
  BY <1>9 DEF Measured!Record
<1>10. CASE Measured!Stop
  BY <1>10 DEF Measured!Stop
<1>11. CASE Measured!Join
  <2>1. (sampling # "dead") \in BOOLEAN
    OBVIOUS
  <2> QED BY <1>11, <2>1 DEF Measured!Join
<1>12. CASE Measured!Close
  BY <1>12 DEF Measured!Close
<1>13. CASE Measured!Die
  BY <1>13 DEF Measured!Die
<1>14. CASE Measured!Parse
  BY <1>14 DEF Measured!Parse
<1>15. CASE Measured!Bind
  BY <1>15 DEF Measured!Bind
<1>16. CASE Measured!Publish
  BY <1>16 DEF Measured!Publish
<1>17. CASE Measured!Rederive
  BY <1>17 DEF Measured!Rederive
<1>18. CASE UNCHANGED measuredVars
  BY <1>18 DEF measuredVars
<1> QED BY <1>1, <1>2, <1>3, <1>4, <1>5, <1>6, <1>7, <1>8, <1>9, <1>10, <1>11, <1>12, <1>13, <1>14, <1>15, <1>16, <1>17, <1>18
        DEF Measured!Next

\* The files grow by lines and by samples.
LEMMA FilesKept == MeasuredInv /\ (Measured!Next \/ UNCHANGED measuredVars) => FilesTyped'
<1> SUFFICES ASSUME MeasuredInv, Measured!Next \/ UNCHANGED measuredVars PROVE FilesTyped'
  OBVIOUS
<1> USE DEF MeasuredInv, FilesTyped, Measured!run, Measured!control, Measured!thread, Measured!Fault
<1>1. CASE Measured!Setup
  <2>1. Measured!Other \in EventLines
    BY DEF Measured!Other, Measured!Line, EventLines
  <2> QED BY <1>1, <2>1 DEF Measured!Setup, Measured!Emit
<1>2. CASE Measured!Step
  <2> PICK n : /\ n \in 1..LastStep /\ log' = Append(log, Measured!Line(n, current # None, n \notin setting.missed))
               /\ UNCHANGED Measured!thread
    BY <1>2, MeasuredConstants DEF Measured!Step, Measured!Emit, NumbersTyped, ControlTyped,
       Measured!TelemetryAssumption
  <2>1. (current # None) \in BOOLEAN /\ (n \notin setting.missed) \in BOOLEAN
    OBVIOUS
  <2>2. Measured!Line(n, current # None, n \notin setting.missed) \in EventLines
    BY <2>1 DEF Measured!Line, EventLines
  <2> QED BY <2>2
<1>3. CASE Measured!Terminal
  <2>1. Measured!Other \in EventLines
    BY DEF Measured!Other, Measured!Line, EventLines
  <2> QED BY <1>3, <2>1 DEF Measured!Terminal, Measured!Emit
<1>4. CASE Measured!Return
  BY <1>4 DEF Measured!Return
<1>5. CASE Measured!NotDispatched
  BY <1>5 DEF Measured!NotDispatched
<1>6. ASSUME NEW s \in {"succeeded", "failed"}, Measured!End(s) PROVE FilesTyped'
  BY <1>6 DEF Measured!End
<1>7. CASE Measured!Check
  BY <1>7, MeasuredConstants DEF Measured!Check, Measured!TelemetryAssumption
<1>8. CASE Measured!Open
  BY <1>8 DEF Measured!Open
<1>9. CASE Measured!Record
  <2>1. CASE open
    <3>1. PICK h \in Hosts : series' = Append(series, Measured!Sample(h))
      BY <1>9, <2>1 DEF Measured!Record
    <3>2. Measured!Sample(h) \in Samples
      <4>1. h.driver \in BOOLEAN /\ h.tree \in BOOLEAN /\ h.power \in {None} \cup Nat
        BY MeasuredConstants DEF Measured!TelemetryAssumption
      <4>2. (~h.driver \/ ~h.tree) \in BOOLEAN
        OBVIOUS
      <4>3. (IF h.driver THEN h.power ELSE None) \in {None} \cup Nat
        BY <4>1
      <4>4. window \in Measured!Windows /\ since \in Measured!Windows
        BY <1>9 DEF Measured!Record, ThreadTyped
      <4> QED BY <4>1, <4>2, <4>3, <4>4 DEF Measured!Sample, Samples
    <3>3. Len(series) < MaxSamples /\ Len(series') = Len(series) + 1
      BY <1>9, <3>1 DEF Measured!Record
    <3>4. series' \in Seq(Samples) /\ Len(series') <= MaxSamples
      BY <3>1, <3>2, <3>3, MeasuredConstants DEF Measured!TelemetryAssumption
    <3> QED BY <1>9, <2>1, <3>4 DEF Measured!Record
  <2>2. CASE ~open
    BY <1>9, <2>2 DEF Measured!Record
  <2> QED BY <2>1, <2>2
<1>10. CASE Measured!Stop
  BY <1>10 DEF Measured!Stop
<1>11. CASE Measured!Join
  BY <1>11 DEF Measured!Join
<1>12. CASE Measured!Close
  BY <1>12 DEF Measured!Close
<1>13. CASE Measured!Die
  BY <1>13 DEF Measured!Die
<1>14. CASE Measured!Parse
  BY <1>14 DEF Measured!Parse
<1>15. CASE Measured!Bind
  BY <1>15 DEF Measured!Bind
<1>16. CASE Measured!Publish
  BY <1>16 DEF Measured!Publish
<1>17. CASE Measured!Rederive
  BY <1>17 DEF Measured!Rederive
<1>18. CASE UNCHANGED measuredVars
  BY <1>18 DEF measuredVars
<1> QED BY <1>1, <1>2, <1>3, <1>4, <1>5, <1>6, <1>7, <1>8, <1>9, <1>10, <1>11, <1>12, <1>13, <1>14, <1>15, <1>16, <1>17, <1>18
        DEF Measured!Next

-----------------------------------------------------------------------------
(* Lines and windows *)

\* A further line is a row of its own, or none.
LEMMA RowsGrow ==
  ASSUME NEW lines \in Seq(EventLines), NEW l \in EventLines
  PROVE  /\ Measured!Rows(Append(lines, l))
              = Measured!Rows(lines) \cup (IF l.step = None THEN {} ELSE {Len(lines) + 1})
         /\ \A i \in Measured!Rows(lines) : Append(lines, l)[i] = lines[i]
         /\ Measured!Rows(lines) \subseteq 1..Len(lines)
         /\ IsFiniteSet(Measured!Rows(lines))
         /\ Cardinality(Measured!Rows(lines)) \in Nat
<1>1. Len(lines) \in Nat /\ DOMAIN lines = 1..Len(lines)
  OBVIOUS
<1>2. Measured!Rows(lines) \subseteq 1..Len(lines)
  BY <1>1 DEF Measured!Rows
<1>3. IsFiniteSet(Measured!Rows(lines)) /\ Cardinality(Measured!Rows(lines)) \in Nat
  <2>1. IsFiniteSet(1..Len(lines))
    BY <1>1, FS_Interval
  <2> QED BY <2>1, <1>2, FS_Subset, FS_CardinalityType
<1>4. /\ DOMAIN Append(lines, l) = 1..(Len(lines) + 1)
      /\ \A i \in 1..Len(lines) : Append(lines, l)[i] = lines[i]
      /\ Append(lines, l)[Len(lines) + 1] = l
  BY <1>1
<1> QED BY <1>1, <1>2, <1>3, <1>4 DEF Measured!Rows

\* A line that is no row changes nothing about the rows.
LEMMA OtherNumbered ==
  ASSUME MeasuredInv, log' = Append(log, Measured!Other), UNCHANGED <<setting, current>>
  PROVE  Numbered'
<1>1. Measured!Other \in EventLines /\ Measured!Other.step = None
  BY DEF Measured!Other, Measured!Line, EventLines
<1>2. /\ Measured!Rows(log') = Measured!Rows(log)
      /\ \A i \in Measured!Rows(log) : log'[i] = log[i]
  BY <1>1, RowsGrow DEF MeasuredInv, FilesTyped
<1> QED BY <1>2 DEF MeasuredInv, Numbered

\* A step is the next row.
LEMMA StepNumbered ==
  ASSUME MeasuredInv, NEW n \in Nat, NEW timed \in BOOLEAN, NEW counted \in BOOLEAN,
         n = (IF current = None THEN setting.from + 1 ELSE current + 1), n <= LastStep,
         log' = Append(log, Measured!Line(n, timed, counted)), setting' = setting, current' = n
  PROVE  Numbered'
<1> DEFINE R == Measured!Rows(log)
           l == Measured!Line(n, timed, counted)
<1>c. /\ None \notin Nat /\ setting.from \in Nat /\ LastStep \in Nat
      /\ log \in Seq(EventLines) /\ Len(log) \in Nat /\ n \in 1..LastStep
  BY MeasuredConstants DEF Measured!TelemetryAssumption, MeasuredInv, ControlTyped, FilesTyped,
     NumbersTyped
<1>1. l \in EventLines /\ l.step = n /\ n # None
  BY <1>c DEF Measured!Line, EventLines
<1>2. /\ Measured!Rows(log') = R \cup {Len(log) + 1}
      /\ \A i \in R : log'[i] = log[i]
      /\ R \subseteq 1..Len(log) /\ IsFiniteSet(R) /\ Cardinality(R) \in Nat
  BY <1>c, <1>1, RowsGrow
<1>3. n = setting.from + Cardinality(R) + 1
  <2>1. CASE current = None
    <3>1. R = {}
      BY <2>1 DEF MeasuredInv, Numbered
    <3> QED BY <2>1, <3>1, <1>c, FS_EmptySet
  <2>2. CASE current # None
    BY <2>2, <1>c, <1>2 DEF MeasuredInv, Numbered
  <2> QED BY <2>1, <2>2
<1>4. Cardinality(R \cup {Len(log) + 1}) = Cardinality(R) + 1
  <2>1. (Len(log) + 1) \notin R
    BY <1>c, <1>2
  <2> QED BY <1>2, <2>1, FS_AddElement
<1>5. ASSUME NEW i \in R \cup {Len(log) + 1}
      PROVE  log'[i].step
               = setting.from + Cardinality({j \in R \cup {Len(log) + 1} : j < i}) + 1
  <2>1. CASE i \in R
    <3>1. {j \in R \cup {Len(log) + 1} : j < i} = {j \in R : j < i}
      BY <2>1, <1>2, <1>c
    <3> QED BY <2>1, <3>1, <1>2 DEF MeasuredInv, Numbered
  <2>2. CASE i = Len(log) + 1
    <3>1. {j \in R \cup {Len(log) + 1} : j < i} = R
      BY <2>2, <1>2, <1>c
    <3>2. log'[i] = l
      BY <2>2, <1>c, <1>1
    <3> QED BY <3>1, <3>2, <1>1, <1>3
  <2> QED BY <2>1, <2>2
<1>6. current' = n /\ n # None /\ setting' = setting
  BY <1>1
<1>7. Measured!Rows(log') = R \cup {Len(log) + 1}
  BY <1>2
<1>8. n = setting.from + Cardinality(R \cup {Len(log) + 1})
  BY <1>2, <1>3, <1>4, <1>c
<1> HIDE DEF R
<1> QED BY <1>5, <1>6, <1>7, <1>8 DEF Numbered

\* The rows stay numbered.
LEMMA NumberedKept == MeasuredInv /\ (Measured!Next \/ UNCHANGED measuredVars) => Numbered'
<1> SUFFICES ASSUME MeasuredInv, Measured!Next \/ UNCHANGED measuredVars PROVE Numbered'
  OBVIOUS
<1> USE DEF MeasuredInv, Measured!run, Measured!control, Measured!thread, Measured!Fault
<1>u. ASSUME UNCHANGED <<setting, current, log>> PROVE Numbered'
  BY <1>u DEF MeasuredInv, Numbered, Measured!Rows
<1>1. CASE Measured!Setup
  BY <1>1, OtherNumbered DEF Measured!Setup, Measured!Emit
<1>2. CASE Measured!Step
  <2>1. (current # None) \in BOOLEAN /\ \A k : (k \notin setting.missed) \in BOOLEAN
    OBVIOUS
  <2>2. setting.from \in Nat /\ current \in {None} \cup Nat
    BY MeasuredConstants DEF Measured!TelemetryAssumption, ControlTyped, NumbersTyped
  <2> DEFINE n == IF current = None THEN setting.from + 1 ELSE current + 1
  <2>3. /\ n <= LastStep /\ current' = n /\ setting' = setting
        /\ log' = Append(log, Measured!Line(n, current # None, n \notin setting.missed))
    BY <1>2 DEF Measured!Step, Measured!Emit
  <2>4. n \in Nat /\ (n \notin setting.missed) \in BOOLEAN /\ (current # None) \in BOOLEAN
    BY <2>1, <2>2
  <2> QED BY <2>3, <2>4, StepNumbered
<1>3. CASE Measured!Terminal
  BY <1>3, OtherNumbered DEF Measured!Terminal, Measured!Emit
<1>4. CASE Measured!Return
  BY <1>4, <1>u DEF Measured!Return
<1>5. CASE Measured!NotDispatched
  BY <1>5, <1>u DEF Measured!NotDispatched
<1>6. ASSUME NEW s \in {"succeeded", "failed"}, Measured!End(s) PROVE Numbered'
  BY <1>6, <1>u DEF Measured!End
<1>7. CASE Measured!Check
  BY <1>7, <1>u DEF Measured!Check
<1>8. CASE Measured!Open
  BY <1>8, <1>u DEF Measured!Open
<1>9. CASE Measured!Record
  BY <1>9, <1>u DEF Measured!Record
<1>10. CASE Measured!Stop
  BY <1>10, <1>u DEF Measured!Stop
<1>11. CASE Measured!Join
  BY <1>11, <1>u DEF Measured!Join
<1>12. CASE Measured!Close
  BY <1>12, <1>u DEF Measured!Close
<1>13. CASE Measured!Die
  BY <1>13, <1>u DEF Measured!Die
<1>14. CASE Measured!Parse
  BY <1>14, <1>u DEF Measured!Parse
<1>15. CASE Measured!Bind
  BY <1>15, <1>u DEF Measured!Bind
<1>16. CASE Measured!Publish
  BY <1>16, <1>u DEF Measured!Publish
<1>17. CASE Measured!Rederive
  BY <1>17, <1>u DEF Measured!Rederive
<1>18. CASE UNCHANGED measuredVars
  BY <1>18, <1>u DEF measuredVars
<1> QED BY <1>1, <1>2, <1>3, <1>4, <1>5, <1>6, <1>7, <1>8, <1>9, <1>10, <1>11, <1>12, <1>13, <1>14, <1>15, <1>16, <1>17, <1>18
        DEF Measured!Next

\* The windows are in one order.
LEMMA Ranks ==
  /\ \A w : Rank(w) \in 0..4
  /\ Rank("baseline") = 0 /\ Rank("setup") = 1 /\ Rank("warmup") = 2 /\ Rank("measured") = 3
  /\ Rank("teardown") = 4
  /\ \A v, w \in Measured!Windows : Rank(v) = Rank(w) => v = w
<1>1. \A w : Rank(w) \in 0..4
  BY DEF Rank
<1>2. /\ Rank("baseline") = 0 /\ Rank("setup") = 1 /\ Rank("warmup") = 2 /\ Rank("measured") = 3
      /\ Rank("teardown") = 4
  BY DEF Rank
<1>3. \A v, w \in Measured!Windows : Rank(v) = Rank(w) => v = w
  BY <1>2 DEF Measured!Windows
<1> QED BY <1>1, <1>2, <1>3

\* The windows only move on.
LEMMA WindowMoves ==
  ASSUME MeasuredInv, Measured!Next \/ UNCHANGED measuredVars
  PROVE  Rank(window) <= Rank(window') /\ (window' = "measured" => current' # None /\ current' > Warmup)
<1> USE DEF Measured!run, Measured!control, Measured!thread
<1>0. /\ window = "measured" => current # None /\ current > Warmup
      /\ window \in Measured!Windows /\ current \in {None} \cup Nat /\ setting.from \in Nat
      /\ None \notin Nat /\ Warmup \in Nat
  BY MeasuredConstants DEF MeasuredInv, Windowed, ThreadTyped, NumbersTyped, ControlTyped,
     Measured!TelemetryAssumption
<1>1. CASE Measured!Setup
  BY <1>0, <1>1, Ranks DEF Measured!Setup, Measured!Emit
<1>2. CASE Measured!Step
  <2> DEFINE n == IF current = None THEN setting.from + 1 ELSE current + 1
  <2>1. window \in {"setup", "warmup", "measured"} /\ current' = n
        /\ window' = IF n <= Warmup THEN "warmup" ELSE "measured"
    BY <1>2 DEF Measured!Step, Measured!Emit
  <2>2. n \in Nat /\ (window = "measured" => n > Warmup)
    BY <1>0
  <2> HIDE DEF n
  <2> QED BY <2>1, <2>2, <1>0, Ranks
<1>3. CASE Measured!Terminal
  <2>1. window' = "teardown"
    BY <1>3 DEF Measured!Terminal, Measured!Emit
  <2> QED BY <2>1, Ranks
<1>4. CASE UNCHANGED <<window, current>>
  BY <1>0, <1>4, Ranks
<1>5. UNCHANGED <<window, current>> \/ Measured!Setup \/ Measured!Step \/ Measured!Terminal
  BY DEF Measured!Next, Measured!Return, Measured!NotDispatched, Measured!End, Measured!Check,
     Measured!Open, Measured!Record, Measured!Stop, Measured!Join, Measured!Close, Measured!Die,
     Measured!Parse, Measured!Bind, Measured!Publish, Measured!Rederive, measuredVars
<1> QED BY <1>1, <1>2, <1>3, <1>4, <1>5

\* The labels of the samples.
LEMMA WindowedKept == MeasuredInv /\ (Measured!Next \/ UNCHANGED measuredVars) => Windowed'
<1> SUFFICES ASSUME MeasuredInv, Measured!Next \/ UNCHANGED measuredVars PROVE Windowed'
  OBVIOUS
<1> DEFINE Last == series[Len(series)].label
<1>0. /\ Windowed /\ Len(series) \in Nat /\ series \in Seq(Samples)
      /\ window \in Measured!Windows /\ window' \in Measured!Windows
      /\ \A w \in Measured!Windows : Rank(w) \in Nat
      /\ \A v, w \in Measured!Windows : Rank(v) = Rank(w) => v = w
      /\ series # <<>> => Last \in Measured!Windows
      /\ sampling = "probe" => since \in Measured!Windows
  <2>1. window' \in Measured!Windows
    BY ThreadKept DEF ThreadTyped
  <2>2. series # <<>> => Last \in Measured!Windows
    <3>1. series # <<>> => series[Len(series)] \in Samples
      BY DEF MeasuredInv, FilesTyped
    <3> QED BY <3>1 DEF Samples
  <2>3. Windowed /\ series \in Seq(Samples) /\ Len(series) \in Nat /\ window \in Measured!Windows
        /\ (sampling = "probe" => since \in Measured!Windows)
    BY DEF MeasuredInv, FilesTyped, ThreadTyped
  <2>4. /\ \A w \in Measured!Windows : Rank(w) \in Nat
        /\ \A v, w \in Measured!Windows : Rank(v) = Rank(w) => v = w
    BY Ranks
  <2> QED BY <2>1, <2>2, <2>3, <2>4
<1>1. /\ Rank(window) <= Rank(window') /\ Rank(window) \in Nat /\ Rank(window') \in Nat
      /\ window' = "measured" => current' # None /\ current' > Warmup
  BY <1>0, WindowMoves
<1> USE DEF Measured!run, Measured!control, Measured!thread
<1>2. CASE Measured!Record /\ open
  <2>1. PICK h \in Hosts : series' = Append(series, Measured!Sample(h))
    BY <1>2 DEF Measured!Record
  <2>2. /\ Len(series') = Len(series) + 1 /\ series' # <<>> /\ DOMAIN series' = 1..Len(series')
        /\ series'[Len(series')] = Measured!Sample(h)
        /\ \A i \in 1..Len(series) : series'[i] = series[i]
    BY <2>1, <1>0
  <2>3. UNCHANGED <<window, current, since>> /\ sampling = "probe" /\ sampling' # "probe"
    BY <1>2 DEF Measured!Record
  <2>4. Measured!Sample(h).label = window /\ Measured!Sample(h).since = since
    BY DEF Measured!Sample
  <2>5. window = since \/ (series # <<>> => Last # window)
    BY <1>0, <2>3 DEF Windowed
  <2>6. Measured!LabelledOnceLate'
    <3> SUFFICES ASSUME NEW i \in 1..Len(series')
                 PROVE  \/ series'[i].label = series'[i].since
                        \/ i > 1 => series'[i - 1].label # series'[i].label
      BY <2>2 DEF Measured!LabelledOnceLate
    <3>1. CASE i = Len(series')
      BY <3>1, <2>2, <2>4, <2>5, <1>0
    <3>2. CASE i # Len(series')
      BY <3>2, <2>2, <1>0 DEF Windowed, Measured!LabelledOnceLate
    <3> QED BY <3>1, <3>2
  <2> QED BY <2>2, <2>3, <2>4, <2>6, <1>1 DEF Windowed
<1>3. CASE Measured!Open
  <2>1. UNCHANGED <<window, current, series>> /\ since' = window
    BY <1>3 DEF Measured!Open
  <2> QED BY <2>1, <1>0, <1>1 DEF Windowed, Measured!LabelledOnceLate
<1>4. CASE UNCHANGED <<series, since>> /\ (sampling' = "probe" => sampling = "probe")
  <2>1. series # <<>> => Rank(Last) \in Nat
    BY <1>0
  <2>2. sampling = "probe" => Rank(since) \in Nat
    BY <1>0
  <2> QED BY <2>1, <2>2, <1>4, <1>0, <1>1 DEF Windowed, Measured!LabelledOnceLate
<1>5. \/ UNCHANGED <<series, since>> /\ (sampling' = "probe" => sampling = "probe")
      \/ Measured!Open \/ (Measured!Record /\ open)
  BY DEF Measured!Next, Measured!Return, Measured!NotDispatched, Measured!End, Measured!Check,
     Measured!Record, Measured!Stop, Measured!Join, Measured!Close, Measured!Die,
     Measured!Parse, Measured!Bind, Measured!Publish, Measured!Rederive, measuredVars,
     Measured!Setup, Measured!Step, Measured!Terminal, Measured!Emit
<1> QED BY <1>2, <1>3, <1>4, <1>5

-----------------------------------------------------------------------------
(* What is read, and what is derived from it *)

\* Once nothing is read any more the files stay, unless the thread outlived its stop.
LEMMA RecordsStay ==
  ASSUME MeasuredInv, Measured!Next \/ UNCHANGED measuredVars, command \notin {"run", "stop", "join"}
  PROVE  /\ UNCHANGED <<recorded, log, setting, outlived>> /\ series' \in Seq(Samples)
         /\ ~outlived' => UNCHANGED Measured!Records
         /\ command' \notin {"run", "stop", "join"}
<1> USE DEF Measured!run, Measured!control, Measured!thread
<1>1. UNCHANGED <<recorded, log, setting, outlived>> /\ command' \notin {"run", "stop", "join"}
  BY DEF Measured!Next, Measured!Return, Measured!NotDispatched, Measured!End, Measured!Check,
     Measured!Record, Measured!Stop, Measured!Join, Measured!Close, Measured!Die,
     Measured!Parse, Measured!Bind, Measured!Publish, Measured!Rederive, measuredVars,
     Measured!Setup, Measured!Step, Measured!Terminal, Measured!Emit, Measured!Open
<1>2. series' \in Seq(Samples)
  BY FilesKept DEF FilesTyped
<1>3. ~outlived => sampling = "dead"
  BY DEF MeasuredInv, Stopped, ControlTyped, Measured!Ended
<1>4. sampling # "probe" => series' = series
  BY DEF Measured!Next, Measured!Return, Measured!NotDispatched, Measured!End, Measured!Check,
     Measured!Record, Measured!Stop, Measured!Join, Measured!Close, Measured!Die,
     Measured!Parse, Measured!Bind, Measured!Publish, Measured!Rederive, measuredVars,
     Measured!Setup, Measured!Step, Measured!Terminal, Measured!Emit, Measured!Open
<1> QED BY <1>1, <1>2, <1>3, <1>4 DEF Measured!Records

\* What has been read, and what is read next.
LEMMA AppendOne == ASSUME NEW q, NEW r PROVE Append(<<q>>, r) = <<q, r>>
<1>1. <<q>> \in Seq({q, r}) /\ Len(<<q>>) = 1
  OBVIOUS
<1>2. Append(<<q>>, r) = [i \in 1..2 |-> IF i = 2 THEN r ELSE <<q>>[i]]
  BY <1>1
<1>3. <<q, r>> = [i \in 1..2 |-> IF i = 2 THEN r ELSE <<q>>[i]]
  OBVIOUS
<1> QED BY <1>2, <1>3

\* What was read stays read.
LEMMA ExactlyStays ==
  ASSUME MeasuredInv, Measured!Next \/ UNCHANGED measuredVars,
         command \notin {"run", "stop", "join"}, NEW r, Exactly(r)
  PROVE  Exactly(r)'
BY RecordsStay DEF Exactly

\* What the command has read.
LEMMA GotKept == MeasuredInv /\ (Measured!Next \/ UNCHANGED measuredVars) => GotInv'
<1> SUFFICES ASSUME MeasuredInv, Measured!Next \/ UNCHANGED measuredVars PROVE GotInv'
  OBVIOUS
<1> USE DEF Measured!run, Measured!control, Measured!thread
<1>0. GotInv
  BY DEF MeasuredInv
<1>r. PICK r : r = Measured!Records
  OBVIOUS
<1>x. Exactly(r)
  BY <1>r DEF Exactly, Measured!Records, MeasuredInv, FilesTyped
<1>1. CASE Measured!Parse
  <2>1. Exactly(r)'
    BY <1>1, <1>x, ExactlyStays DEF Measured!Parse
  <2>2. got' = <<>> \/ (command' = "summarize" /\ got' = <<r>>)
    BY <1>1, <1>r DEF Measured!Parse
  <2> QED BY <2>1, <2>2 DEF GotInv
<1>2. CASE Measured!Bind
  <2>1. command = "summarize" /\ command' = command /\ got' = Append(got, r)
    BY <1>0, <1>2, <1>r DEF Measured!Bind, GotInv
  <2>2. PICK q : got = <<q>> /\ Exactly(q)
    BY <1>0, <1>2 DEF Measured!Bind, GotInv
  <2>3. got' = <<q, r>>
    BY <2>1, <2>2, AppendOne
  <2> QED BY <2>1, <2>2, <2>3, <1>x, ExactlyStays DEF GotInv
<1>3. CASE got' = <<>>
  BY <1>3 DEF GotInv
<1>4. CASE got' = got /\ command' # "summarize"
  <2>1. command # "summarize" \/ got = <<>>
    BY <1>4, <1>0 DEF Measured!Next, Measured!Return, Measured!NotDispatched, Measured!End,
       Measured!Check, Measured!Record, Measured!Stop, Measured!Join, Measured!Close, Measured!Die,
       Measured!Parse, Measured!Bind, Measured!Publish, Measured!Rederive, measuredVars,
       Measured!Setup, Measured!Step, Measured!Terminal, Measured!Emit, Measured!Open
  <2> QED BY <2>1, <1>4, <1>0 DEF GotInv
<1>5. CASE got' = got /\ command' = "summarize" /\ command = "summarize"
  <2>1. CASE got = <<>>
    BY <2>1, <1>5 DEF GotInv
  <2>2. ASSUME NEW q, got = <<q>>, Exactly(q) PROVE GotInv'
    BY <2>2, <1>5, ExactlyStays DEF GotInv
  <2>3. ASSUME NEW q, NEW h, got = <<q, h>>, Exactly(q), Exactly(h) PROVE GotInv'
    BY <2>3, <1>5, ExactlyStays DEF GotInv
  <2> QED BY <2>1, <2>2, <2>3, <1>0 DEF GotInv
<1>6. CASE got' = got /\ command # "summarize"
  BY <1>6, <1>0 DEF GotInv
<1>7. got' = <<>> \/ got' = got \/ Measured!Parse \/ Measured!Bind
  BY DEF Measured!Next, Measured!Return, Measured!NotDispatched, Measured!End,
     Measured!Check, Measured!Record, Measured!Stop, Measured!Join, Measured!Close, Measured!Die,
     Measured!Publish, Measured!Rederive, measuredVars,
     Measured!Setup, Measured!Step, Measured!Terminal, Measured!Emit, Measured!Open
<1> QED BY <1>1, <1>2, <1>3, <1>4, <1>5, <1>6, <1>7

\* The summary.
LEMMA DerivedKept == MeasuredInv /\ (Measured!Next \/ UNCHANGED measuredVars) => Derived'
<1> SUFFICES ASSUME MeasuredInv, Measured!Next \/ UNCHANGED measuredVars, summary'.by # None
             PROVE  Derived'
  BY DEF Derived
<1> USE DEF Measured!run, Measured!control, Measured!thread
<1>r. PICK r : r = Measured!Records
  OBVIOUS
<1>x. Exactly(r)
  BY <1>r DEF Exactly, Measured!Records, MeasuredInv, FilesTyped
<1>1. ASSUME NEW by \in {"command", "later"}, NEW q, NEW h, Exactly(q), Exactly(h),
             summary' = Measured!Summary(by, q, h), command' \in Measured!Ended,
             command \notin {"run", "stop", "join"}
      PROVE  Derived'
  <2>1. Exactly(q)' /\ Exactly(h)'
    BY <1>1, ExactlyStays
  <2>2. summary'.by = by /\ summary'.from = q /\ summary'.bound = h
    BY <1>1 DEF Measured!Summary
  <2>3. setting' = setting
    BY <1>1, RecordsStay
  <2>4. Measured!Summary(by, q, h)' = Measured!Summary(by, q, h)
    BY <2>3 DEF Measured!Summary, Measured!Present, Measured!Lineage
  <2>5. summary' = Measured!Summary(summary.by, summary.from, summary.bound)'
    BY <1>1, <2>2, <2>3 DEF Measured!Summary, Measured!Present, Measured!Lineage
  <2> QED BY <1>1, <2>1, <2>2, <2>5 DEF Derived, Exactly
<1>2. CASE Measured!Publish /\ summary' # summary
  <2>1. PICK q, h : got = <<q, h>> /\ Exactly(q) /\ Exactly(h)
    BY <1>2 DEF Measured!Publish, MeasuredInv, GotInv
  <2>2. summary' = Measured!Summary("command", q, h)
    BY <1>2, <2>1 DEF Measured!Publish
  <2>3. command = "summarize" /\ command' \in Measured!Ended
    BY <1>2, <2>1 DEF Measured!Publish, MeasuredInv, GotInv, Measured!Ended
  <2> QED BY <1>1, <2>1, <2>2, <2>3
<1>3. CASE Measured!Rederive
  <2>1. summary' = Measured!Summary("later", r, r) /\ command \in Measured!Ended
        /\ command' \in Measured!Ended
    BY <1>3, <1>r DEF Measured!Rederive
  <2>2. command \notin {"run", "stop", "join"}
    BY <2>1 DEF Measured!Ended
  <2> QED BY <1>1, <1>x, <2>1, <2>2
<1>4. CASE summary' = summary
  <2>1. Derived /\ summary.by # None /\ command \in Measured!Ended
    BY <1>4 DEF MeasuredInv, Derived
  <2>2. command \notin {"run", "stop", "join"}
    BY <2>1 DEF Measured!Ended
  <2>3. /\ UNCHANGED <<log, setting, outlived>>
        /\ ~outlived' => UNCHANGED Measured!Records
    BY <2>2, RecordsStay
  <2>4. command' \in Measured!Ended
    BY <2>1 DEF Measured!Next, Measured!Return, Measured!NotDispatched, Measured!End,
       Measured!Check, Measured!Record, Measured!Stop, Measured!Join, Measured!Close, Measured!Die,
       Measured!Parse, Measured!Bind, Measured!Publish, Measured!Rederive, measuredVars,
       Measured!Setup, Measured!Step, Measured!Terminal, Measured!Emit, Measured!Open,
       Measured!Ended, MeasuredInv, GotInv
  <2>5. Measured!Summary(summary.by, summary.from, summary.bound)'
          = Measured!Summary(summary.by, summary.from, summary.bound)
    BY <1>4, <2>3 DEF Measured!Summary, Measured!Present, Measured!Lineage
  <2> QED BY <1>4, <2>1, <2>3, <2>4, <2>5 DEF Derived
<1>5. summary' = summary \/ Measured!Publish \/ Measured!Rederive
  BY DEF Measured!Next, Measured!Return, Measured!NotDispatched, Measured!End,
     Measured!Check, Measured!Record, Measured!Stop, Measured!Join, Measured!Close, Measured!Die,
     Measured!Parse, Measured!Bind, measuredVars,
     Measured!Setup, Measured!Step, Measured!Terminal, Measured!Emit, Measured!Open
<1> QED BY <1>2, <1>3, <1>4, <1>5

\* Every step of the run, of its thread and of its readers keeps the invariant.
LEMMA MeasuredKeeps == MeasuredInv /\ (Measured!Next \/ UNCHANGED measuredVars) => MeasuredInv'
BY ControlKept, ThreadKept, CutKept, NumbersKept, FlagsKept, FilesKept, NumberedKept,
   WindowedKept, StoppedKept, GotKept, DerivedKept, SucceedsKept DEF MeasuredInv

-----------------------------------------------------------------------------
(* What is offered to the paper *)

\* The invariant contains the types.
LEMMA MeasuredTyped == MeasuredInv => Measured!TypeOK
<1> SUFFICES ASSUME MeasuredInv PROVE Measured!TypeOK
  OBVIOUS
<1>1. \A i \in DOMAIN log : log[i].step \in {None} \cup 1..LastStep
  <2>1. \A i \in DOMAIN log : log[i] \in EventLines
    BY DEF MeasuredInv, FilesTyped
  <2> QED BY <2>1 DEF EventLines
<1>2. Len(got) <= 2
  <2>1. Len(<<>>) = 0 /\ (\A r : Len(<<r>>) = 1) /\ \A r, h : Len(<<r, h>>) = 2
    OBVIOUS
  <2>2. got = <<>> \/ (\E r : got = <<r>>) \/ \E r, h : got = <<r, h>>
    BY DEF MeasuredInv, GotInv
  <2> QED BY <2>1, <2>2
<1> QED BY <1>1, <1>2 DEF MeasuredInv, ControlTyped, ThreadTyped, CutTyped, NumbersTyped, FlagsTyped,
        FilesTyped, Measured!TypeOK

\* A summary is bound to its source.
LEMMA MeasuredBound == MeasuredInv => Measured!BoundToSource
BY MeasuredConstants DEF MeasuredInv, Derived, Measured!BoundToSource, Measured!TelemetryAssumption

\* A command that ends well has its summary.
LEMMA MeasuredEnds == MeasuredInv => Measured!EndsWell
BY DEF MeasuredInv, Succeeds, Measured!EndsWell

\* The same operators in every module.
LEMMA SameMeasure == ASSUME NEW S PROVE Measured!Cardinality(S) = Cardinality(S)
BY DEF Measured!Cardinality, Cardinality

\* Every set of naturals has a least element, and every bounded one a greatest.
LEMMA LeastNatural ==
  ASSUME NEW T, T \subseteq Nat, T # {} PROVE \E m \in T : \A k \in T : m <= k
<1> DEFINE R == OpToRel(<, Nat)
<1>1. IsWellFoundedOn(R, Nat)
  BY NatLessThanWellFounded
<1> HIDE DEF R
<1>2. IsWellFoundedOn(R, T)
  BY <1>1, IsWellFoundedOnSubset
<1>3. PICK m \in T : ~\E y \in T : <<y, m>> \in R
  BY <1>2, WFMin, Zenon
<1>4. ASSUME NEW k \in T, ~(m <= k) PROVE FALSE
  <2>1. k \in Nat /\ m \in Nat /\ k < m
    BY <1>4
  <2>2. <<k, m>> \in R
    BY <2>1 DEF R, OpToRel
  <2> QED BY <1>3, <2>2
<1> QED BY <1>4

\* A finite set of numbers that is not empty has a greatest one.
LEMMA GreatestNatural ==
  ASSUME NEW n \in Nat, NEW T, T \subseteq 0..n, T # {} PROVE \E m \in T : \A k \in T : k <= m
<1> DEFINE U == {n - k : k \in T}
<1>1. U \subseteq Nat /\ U # {}
  <2>1. \A k \in T : n - k \in Nat
    OBVIOUS
  <2> QED BY <2>1
<1>2. PICK u \in U : \A k \in U : u <= k
  <2> HIDE DEF U
  <2> QED BY <1>1, LeastNatural
<1>3. PICK m \in T : u = n - m
  BY <1>2
<1>4. ASSUME NEW k \in T PROVE k <= m
  <2>1. n - k \in U
    OBVIOUS
  <2>2. u <= n - k
    BY <1>2, <2>1
  <2> QED BY <1>3, <2>2
<1> QED BY <1>4


\* The extremes of a set of indices are in it.
LEMMA Extremes ==
  ASSUME NEW n \in Nat, NEW T, T \subseteq 1..n, T # {}
  PROVE  Measured!Max(T) \in T /\ Measured!Min(T) \in T
<1>0. T \subseteq Nat /\ T \subseteq 0..n
  OBVIOUS
<1>1. \E m \in T : \A k \in T : m <= k
  BY <1>0, LeastNatural
<1>2. \E m \in T : \A k \in T : k <= m
  BY <1>0, GreatestNatural
<1>3. Measured!Min(T) \in T
  BY <1>1, Zenon DEF Measured!Min
<1>4. Measured!Max(T) \in T
  <2>1. \E m \in T : \A k \in T : m >= k
    BY <1>2
  <2> QED BY <2>1, Zenon DEF Measured!Max
<1> QED BY <1>3, <1>4

\* Between two readings there is a power.
LEMMA PowerTyped ==
  ASSUME NEW n \in Nat, NEW W, W \subseteq 1..n, NEW watts \in [W -> Nat], NEW t \in Nat,
         NEW i \in W, NEW k \in W, i <= t, t <= k
  PROVE  Measured!PowerAt(watts, t) \in Int
<1> DEFINE L == {j \in DOMAIN watts : j <= t}
           U == {j \in DOMAIN watts : j >= t}
           x == Measured!Max(L)
           y == Measured!Min(U)
<1>1. x \in L /\ y \in U
  <2>1. L \subseteq 1..n /\ L # {} /\ U \subseteq 1..n /\ U # {}
    OBVIOUS
  <2> HIDE DEF L, U
  <2> QED BY <2>1, Extremes
<1>2. /\ x \in Int /\ y \in Int /\ watts[x] \in Int /\ watts[y] \in Int /\ x <= t /\ t <= y
  <2>1. x \in W /\ y \in W /\ x <= t /\ y >= t
    BY <1>1
  <2>2. x \in 1..n /\ y \in 1..n /\ watts[x] \in Nat /\ watts[y] \in Nat
    BY <2>1
  <2> HIDE DEF x, y
  <2> QED BY <2>1, <2>2
<1>3. Measured!PowerAt(watts, t)
        = IF x = y THEN 12 * watts[x]
          ELSE 12 * watts[x] + (12 * (watts[y] - watts[x]) * (t - x)) \div (y - x)
  BY DEF Measured!PowerAt
<1> HIDE DEF x, y
<1>4. CASE x # y
  <2>1. y - x \in Nat \ {0} /\ (12 * (watts[y] - watts[x]) * (t - x)) \in Int
    BY <1>2, <1>4
  <2> DEFINE z == 12 * (watts[y] - watts[x]) * (t - x)
             d == y - x
  <2> HIDE DEF z, d
  <2>2. z \div d \in Int
    BY <2>1 DEF z, d
  <2> QED BY <1>2, <1>3, <1>4, <2>2 DEF z, d
<1> QED BY <1>2, <1>3, <1>4


\* The readings of the power, as a function of their times.
LEMMA WattsTyped ==
  ASSUME NEW samples \in Seq(Samples)
  PROVE  /\ Measured!Powered(samples) \subseteq 1..Len(samples) /\ Len(samples) \in Nat
         /\ Measured!Labelled(samples) \subseteq DOMAIN samples
         /\ Measured!Watts(samples) \in [Measured!Powered(samples) -> Nat]
<1>1. DOMAIN samples = 1..Len(samples) /\ Len(samples) \in Nat
  OBVIOUS
<1>2. \A i \in DOMAIN samples : samples[i].power \in {None} \cup Nat
  <2>1. \A i \in DOMAIN samples : samples[i] \in Samples
    OBVIOUS
  <2> QED BY <2>1 DEF Samples
<1> QED BY <1>1, <1>2 DEF Measured!Powered, Measured!Labelled, Measured!Watts

\* More times have more intervals between them.
LEMMA BetweenGrows ==
  ASSUME NEW S, NEW T, S \subseteq T PROVE Measured!Between(S) \subseteq Measured!Between(T)
BY DEF Measured!Between

\* An interval between the times in S lies between two of them.
LEMMA BetweenTwo ==
  ASSUME NEW S, NEW t \in Measured!Between(S)
  PROVE  \E i \in S, j \in S : t \in i..(j - 1)
<1>1. PICK c \in {i..(j - 1) : i, j \in S} : t \in c
  BY DEF Measured!Between
<1>2. PICK i \in S, j \in S : c = i..(j - 1)
  OBVIOUS
<1> QED BY <1>1, <1>2

\* An area over finitely many intervals is finite.
LEMMA FiniteArea ==
  ASSUME NEW T, IsFiniteSet(T), NEW h \in [T -> Int]
  PROVE  IsFiniteSet(UNION {{t} \X (1..h[t]) : t \in T})
<1> DEFINE columns == {{t} \X (1..h[t]) : t \in T}
           f == [t \in T |-> {t} \X (1..h[t])]
<1>1. f \in Surjection(T, columns)
  BY DEF Surjection
<1>2. IsFiniteSet(columns)
  <2> HIDE DEF f, columns
  <2> QED BY <1>1, FS_Surjection
<1>3. ASSUME NEW t \in T PROVE IsFiniteSet({t} \X (1..h[t]))
  <2>1. h[t] \in Int /\ 1 \in Int
    OBVIOUS
  <2>2. IsFiniteSet(1..h[t])
    BY <2>1, FS_Interval
  <2>3. IsFiniteSet({t})
    BY FS_Singleton
  <2> QED BY <2>2, <2>3, FS_Product
<1>4. \A c \in columns : IsFiniteSet(c)
  BY <1>3
<1> QED BY <1>2, <1>4, FS_UNION

\* The energy between some of the times is part of the energy between all of them.
LEMMA EnergyPart ==
  ASSUME NEW samples \in Seq(Samples), Measured!WindowJoules(samples) # None
  PROVE  /\ Measured!RunJoules(samples) # None
         /\ Measured!WindowJoules(samples) <= Measured!RunJoules(samples)
<1> DEFINE watts == Measured!Watts(samples)
           W == Measured!Powered(samples)
           n == Len(samples)
           A == Measured!Between(DOMAIN watts) \cap Measured!Between(Measured!Labelled(samples))
           B == Measured!Between(DOMAIN watts) \cap Measured!Between(DOMAIN samples)
           H(t) == Measured!PowerAt(watts, t) + Measured!PowerAt(watts, t + 1)
           Area(T) == UNION {{t} \X (1..H(t)) : t \in T}
<1>1. /\ W \subseteq 1..n /\ n \in Nat /\ watts \in [W -> Nat] /\ DOMAIN watts = W
      /\ A \subseteq B
  BY WattsTyped, BetweenGrows
<1>2. /\ Measured!WindowJoules(samples)
            = IF A = {} THEN None ELSE Measured!Cardinality(Area(A))
      /\ Measured!RunJoules(samples)
            = IF B = {} THEN None ELSE Measured!Cardinality(Area(B))
  BY DEF Measured!WindowJoules, Measured!RunJoules, Measured!Joules
<1>3. ASSUME NEW t \in B
      PROVE  t \in 1..n /\ H(t) \in Int
  <2>1. t \in Measured!Between(W)
    BY <1>1
  <2>0. PICK i \in W, k \in W : t \in i..(k - 1)
    <3> HIDE DEF W
    <3> QED BY <2>1, BetweenTwo
  <2>2. i \in 1..n /\ k \in 1..n
    BY <1>1
  <2>3. t \in 1..n /\ t \in Nat /\ t + 1 \in Nat /\ i <= t /\ t <= k /\ i <= t + 1 /\ t + 1 <= k
    BY <1>1, <2>0, <2>2
  <2>4. Measured!PowerAt(watts, t) \in Int /\ Measured!PowerAt(watts, t + 1) \in Int
    <3> HIDE DEF watts, W, n
    <3> QED BY <1>1, <2>3, PowerTyped
  <2> QED BY <2>3, <2>4
<1>4. IsFiniteSet(B)
  <2> HIDE DEF B, n
  <2>1. IsFiniteSet(1..n)
    BY <1>1, FS_Interval
  <2> QED BY <1>3, <2>1, FS_Subset
<1>5. IsFiniteSet(Area(B))
  <2> DEFINE h == [t \in B |-> H(t)]
  <2>1. h \in [B -> Int]
    <3> HIDE DEF B, H
    <3> QED BY <1>3
  <2>2. Area(B) = UNION {{t} \X (1..h[t]) : t \in B}
    <3> HIDE DEF B, H
    <3> QED OBVIOUS
  <2> HIDE DEF h, Area, B
  <2> QED BY <1>4, <2>1, <2>2, FiniteArea
<1>6. Area(A) \subseteq Area(B)
  <2> HIDE DEF A, B, H
  <2> QED BY <1>1
<1>7. Cardinality(Area(A)) <= Cardinality(Area(B)) /\ Cardinality(Area(B)) \in Nat
  <2> HIDE DEF Area
  <2> QED BY <1>5, <1>6, FS_Subset, FS_CardinalityType
<1>8. None \notin Nat
  BY MeasuredConstants DEF Measured!TelemetryAssumption
<1> HIDE DEF A, B, Area
<1> QED BY <1>1, <1>2, <1>7, <1>8, SameMeasure

\* What a summary says is what its rules make of the lines and the samples it was derived from.
LEMMA SummarySays ==
  ASSUME NEW by, NEW from, NEW hashed
  PROVE  LET lines == from[2]
             samples == from[3]
             s == Measured!Summary(by, from, hashed)
         IN /\ s.by = by /\ s.from = from
            /\ s.run = Measured!RunJoules(samples) /\ s.measured = Measured!WindowJoules(samples)
            /\ s.complete => Measured!Required \subseteq Measured!Present(by, lines, samples)
            /\ s.paper => s.complete /\ Measured!ThroughputValid(lines)
<1> DEFINE lines == from[2]
           samples == from[3]
           complete == Measured!Required \subseteq Measured!Present(by, lines, samples)
           paper == complete /\ Measured!ThroughputValid(lines)
           degraded == \E i \in DOMAIN samples : samples[i].unavailable
           run == Measured!RunJoules(samples)
           measured == Measured!WindowJoules(samples)
           steps == Measured!Cardinality(Measured!MeasuredRows(lines))
           s == [by |-> by, from |-> from, bound |-> hashed, run |-> run, measured |-> measured,
                 steps |-> steps, complete |-> complete, paper |-> paper, degraded |-> degraded]
<1>1. Measured!Summary(by, from, hashed) = s
  BY Zenon DEF Measured!Summary
<1>2. paper => complete /\ Measured!ThroughputValid(lines)
  OBVIOUS
<1>3. complete => Measured!Required \subseteq Measured!Present(by, lines, samples)
  OBVIOUS
<1> HIDE DEF complete, paper, degraded, run, measured, steps
<1>4. /\ s.by = by /\ s.from = from /\ s.run = run /\ s.measured = measured
      /\ s.complete = complete /\ s.paper = paper
  BY Zenon
<1> HIDE DEF s
<1> QED BY <1>1, <1>2, <1>3, <1>4 DEF run, measured

\* Energy is read twice.
LEMMA EnergyNeedsTwo ==
  ASSUME NEW samples \in Seq(Samples), Measured!RunJoules(samples) # None
  PROVE  \E i, j \in DOMAIN samples :
           i < j /\ None \notin {samples[i].power, samples[j].power}
<1> DEFINE watts == Measured!Watts(samples)
           W == Measured!Powered(samples)
           B == Measured!Between(DOMAIN watts) \cap Measured!Between(DOMAIN samples)
<1>1. DOMAIN watts = W /\ W \subseteq DOMAIN samples /\ DOMAIN samples \subseteq Nat
  <2>1. DOMAIN watts = W
    BY DEF Measured!Watts
  <2>2. W \subseteq DOMAIN samples /\ DOMAIN samples \subseteq Nat
    BY DEF Measured!Powered
  <2> QED BY <2>1, <2>2
<1>2. B # {}
  BY DEF Measured!RunJoules, Measured!Joules
<1>3. PICK t : t \in Measured!Between(W)
  BY <1>1, <1>2
<1>4. PICK i \in W, j \in W : t \in i..(j - 1)
  <2> HIDE DEF W
  <2> QED BY <1>3, BetweenTwo
<1>5. i < j
  BY <1>1, <1>4
<1>6. samples[i].power # None /\ samples[j].power # None
  BY <1>4 DEF Measured!Powered
<1> QED BY <1>1, <1>4, <1>5, <1>6

\* What is complete was measured in a managed environment, by the run's own command.
LEMMA CompleteIsMeasured ==
  ASSUME NEW by, NEW lines, NEW samples \in Seq(Samples),
         Measured!Required \subseteq Measured!Present(by, lines, samples)
  PROVE  /\ setting.managed /\ by = "command"
         /\ Measured!RunJoules(samples) # None
         /\ \E i \in DOMAIN samples : samples[i].power # None /\ samples[i].label = "measured"
<1>1. "worker" \in Measured!Present(by, lines, samples)
      /\ "joules" \in Measured!Present(by, lines, samples)
      /\ "power" \in Measured!Present(by, lines, samples)
  BY Zenon DEF Measured!Required
<1>2. setting.managed /\ by = "command"
  BY <1>1 DEF Measured!Present, Measured!Lineage
<1>3. Measured!RunJoules(samples) # None
  BY <1>1 DEF Measured!Present, Measured!Lineage
<1>4. Measured!Labelled(samples) \cap Measured!Powered(samples) # {}
  BY <1>1 DEF Measured!Present, Measured!Lineage
<1> QED BY <1>2, <1>3, <1>4 DEF Measured!Labelled, Measured!Powered

\* The rows past the warm-up are those of the steps past it, in a run that began at its first.
LEMMA MeasuredAreLate ==
  ASSUME MeasuredInv, setting.from = 0
  PROVE  Measured!MeasuredRows(log) = {i \in Measured!Rows(log) : log[i].step > Warmup}
<1> DEFINE R == Measured!Rows(log)
           C(i) == {j \in R : j < i}
<1>1. \A i \in R : log[i].step = setting.from + Measured!Cardinality(C(i)) + 1
  BY SameMeasure DEF MeasuredInv, Numbered
<1>2. Warmup \in Nat
  BY MeasuredConstants DEF Measured!TelemetryAssumption
<1>3. IsFiniteSet(R) /\ R \subseteq DOMAIN log
  <2>1. R \subseteq 1..Len(log) /\ Len(log) \in Nat /\ R \subseteq DOMAIN log
    BY DEF Measured!Rows, MeasuredInv, FilesTyped
  <2>2. IsFiniteSet(1..Len(log))
    BY <2>1, FS_Interval
  <2> HIDE DEF R
  <2> QED BY <2>1, <2>2, FS_Subset
<1>4. \A i \in R : Measured!Cardinality(C(i)) \in Nat
  <2> SUFFICES ASSUME NEW i \in R PROVE Measured!Cardinality(C(i)) \in Nat
    OBVIOUS
  <2>1. IsFiniteSet(C(i))
    BY <1>3, FS_Subset
  <2> HIDE DEF C
  <2> QED BY <2>1, FS_CardinalityType, SameMeasure
<1>5. \A i \in R : Measured!Cardinality(C(i)) >= Warmup <=> log[i].step > Warmup
  <2> HIDE DEF R, C
  <2> QED BY <1>1, <1>2, <1>4
<1> QED BY <1>5 DEF Measured!MeasuredRows

\* What a summary offers to the paper was measured.
LEMMA MeasuredPaper == MeasuredInv => Measured!PaperIsEarned
<1> SUFFICES ASSUME MeasuredInv, summary.by # None PROVE
      LET lines == summary.from[2]
          samples == summary.from[3]
      IN /\ summary.complete =>
              /\ setting.managed /\ summary.by = "command"
              /\ \E i, j \in DOMAIN samples :
                   i < j /\ None \notin {samples[i].power, samples[j].power}
              /\ \E i \in DOMAIN samples :
                   /\ samples[i].power # None
                   /\ samples[i].label = "measured"
         /\ (summary.paper /\ setting.from = 0) =>
              /\ \E i \in DOMAIN lines : lines[i].step # None /\ lines[i].step > Warmup
              /\ \A i \in DOMAIN lines :
                   (lines[i].step # None /\ lines[i].step > Warmup) => lines[i].counted
         /\ summary.measured # None =>
              summary.run # None /\ summary.measured <= summary.run
  BY DEF Measured!PaperIsEarned
<1> DEFINE lines == summary.from[2]
           samples == summary.from[3]
<1>1. /\ lines = log /\ samples \in Seq(Samples)
      /\ summary = Measured!Summary(summary.by, summary.from, summary.bound)
  BY DEF MeasuredInv, Derived
<1>2. /\ summary.run = Measured!RunJoules(samples)
      /\ summary.measured = Measured!WindowJoules(samples)
      /\ summary.complete => Measured!Required \subseteq Measured!Present(summary.by, lines, samples)
      /\ summary.paper => summary.complete /\ Measured!ThroughputValid(lines)
  <2>1. PICK b : b = summary.by
    OBVIOUS
  <2>2. PICK f : f = summary.from
    OBVIOUS
  <2>3. PICK h : h = summary.bound
    OBVIOUS
  <2>4. summary = Measured!Summary(b, f, h)
    BY <1>1, <2>1, <2>2, <2>3
  <2>5. /\ Measured!Summary(b, f, h).run = Measured!RunJoules(f[3])
        /\ Measured!Summary(b, f, h).measured = Measured!WindowJoules(f[3])
        /\ Measured!Summary(b, f, h).complete
              => Measured!Required \subseteq Measured!Present(b, f[2], f[3])
        /\ Measured!Summary(b, f, h).paper
              => Measured!Summary(b, f, h).complete /\ Measured!ThroughputValid(f[2])
    BY SummarySays
  <2> QED BY <2>1, <2>2, <2>4, <2>5
<1> HIDE DEF samples
<1>3. summary.complete =>
        /\ setting.managed /\ summary.by = "command"
        /\ \E i, j \in DOMAIN samples : i < j /\ None \notin {samples[i].power, samples[j].power}
        /\ \E i \in DOMAIN samples : samples[i].power # None /\ samples[i].label = "measured"
  BY <1>1, <1>2, CompleteIsMeasured, EnergyNeedsTwo
<1>4. ASSUME summary.paper, setting.from = 0
      PROVE  /\ \E i \in DOMAIN lines : lines[i].step # None /\ lines[i].step > Warmup
             /\ \A i \in DOMAIN lines :
                  (lines[i].step # None /\ lines[i].step > Warmup) => lines[i].counted
  <2>1. Measured!ThroughputValid(log)
    BY <1>1, <1>2, <1>4
  <2>2. Measured!MeasuredRows(log) = {i \in Measured!Rows(log) : log[i].step > Warmup}
    BY <1>4, MeasuredAreLate
  <2>3. Measured!Rows(log) = {i \in DOMAIN log : log[i].step # None}
    BY DEF Measured!Rows
  <2> HIDE DEF lines
  <2> QED BY <1>1, <2>1, <2>2, <2>3 DEF Measured!ThroughputValid
<1>5. summary.measured # None => summary.run # None /\ summary.measured <= summary.run
  BY <1>1, <1>2, EnergyPart
<1> QED BY <1>3, <1>4, <1>5 DEF samples

\* What a summary says of a run was measured.
LEMMA MeasuredEarned == MeasuredInv => Measured!MeasurementsAreEarned
BY MeasuredPaper, MeasuredBound, MeasuredEnds
   DEF MeasuredInv, Windowed, Measured!MeasurementsAreEarned

-----------------------------------------------------------------------------
(* The composition *)

OutputsInv == IInv /\ RegistryInv /\ PlanTypeOK /\ LaneInv /\ MeasuredInv

all == <<component, vars, registryVars, planVars, laneVars, measuredVars>>

\* The record rests with the variables that hold it.
LEMMA RegistryRests == RegistryInv /\ UNCHANGED registryVars => RegistryInv'
BY DEF registryVars, RegistryInv, Registry!TypeOK, CopyInv, AloneInv, GatedInv, Registry!IsKept

\* At most one part moves.
LEMMA OnePartMoves ==
  ASSUME [EitherNext]_all
  PROVE  /\ component' = component /\ [Next]_vars /\ (Registry!Next \/ UNCHANGED registryVars)
         /\ [PlanNext]_planVars /\ (Lane!Next \/ UNCHANGED laneVars)
         /\ (Measured!Next \/ UNCHANGED measuredVars)
<1>1. CASE TrainingStep
  BY <1>1 DEF TrainingStep, Is
<1>2. CASE RegistryStep
  BY <1>2 DEF RegistryStep, Is
<1>3. CASE PlannerStep
  BY <1>3 DEF PlannerStep, Is
<1>4. CASE LaneStep
  BY <1>4 DEF LaneStep, Is
<1>5. CASE MeasuredStep
  BY <1>5 DEF MeasuredStep, Is
<1>6. CASE UNCHANGED all
  BY <1>6 DEF all
<1> QED BY <1>1, <1>2, <1>3, <1>4, <1>5, <1>6 DEF EitherNext

\* Every part begins as it does alone.
LEMMA OutputsInitially == EitherInit => OutputsInv
BY InvInit, RegistryInitially, PlanTypeInitially, LaneInitially, MeasuredInitially
   DEF EitherInit, OutputsInv

\* Whichever part moves, every invariant is kept.
LEMMA OutputsStep == OutputsInv /\ [EitherNext]_all => OutputsInv'
<1> SUFFICES ASSUME OutputsInv, [EitherNext]_all PROVE OutputsInv'
  OBVIOUS
<1>1. IInv' /\ PlanTypeOK'
  BY OnePartMoves, InvStep, PlanTypeKept DEF OutputsInv
<1>2. RegistryInv'
  BY OnePartMoves, RegistryPreserved, RegistryRests DEF OutputsInv
<1>3. LaneInv'
  BY OnePartMoves, LaneKeeps DEF OutputsInv
<1>4. MeasuredInv'
  BY OnePartMoves, MeasuredKeeps DEF OutputsInv
<1> QED BY <1>1, <1>2, <1>3, <1>4 DEF OutputsInv

\* The invariants of the parts hold in every behaviour of the composition.
LEMMA OutputsInvariant == EitherSpec => []OutputsInv
BY OutputsInitially, OutputsStep, PTL DEF EitherSpec, all

\* The variables of the part that moves keep their types (TrainingRun, ArtifactRegistry,
\* SealedPlan, LaneExecution and Telemetry).
THEOREM OutputsTyped == EitherSpec => []OutputsTypeOK
<1>1. OutputsInv /\ component \in {"training", "registry", "planner", "lane", "telemetry"}
        => OutputsTypeOK
  BY MeasuredTyped DEF OutputsInv, IInv, RegistryInv, LaneInv, LaneTyped, OutputsTypeOK
<1>2. EitherInit => component \in {"training", "registry", "planner", "lane", "telemetry"}
  BY DEF EitherInit
<1>3. component \in {"training", "registry", "planner", "lane", "telemetry"} /\ [EitherNext]_all
        => (component \in {"training", "registry", "planner", "lane", "telemetry"})'
  BY OnePartMoves
<1> QED BY <1>1, <1>2, <1>3, OutputsInvariant, PTL DEF EitherSpec, all

\* What becomes kept carries a hash that its promote gate let pass, if no two commands overlap
\* (promote_artifact and update_artifact_status), whatever a crash between hash, gate and save
\* leaves behind.
THEOREM KeptIsGated == EitherSpec => KeepIsGated
<1>1. OutputsInv /\ [EitherNext]_all =>
        [~concurrent' /\ Registry!IsKept(registered') /\ ~Registry!IsKept(registered)
           => registered'.content_hash \in gated]_(Registry!vars)
  <2> SUFFICES ASSUME OutputsInv, [EitherNext]_all, ~UNCHANGED Registry!vars,
                      ~concurrent', Registry!IsKept(registered'), ~Registry!IsKept(registered)
               PROVE  registered'.content_hash \in gated
    OBVIOUS
  <2>1. Registry!Next
    BY OnePartMoves DEF Registry!vars, registryVars
  <2> QED BY <2>1, KeepGated DEF OutputsInv
<1> QED BY <1>1, OutputsInvariant, PTL DEF EitherSpec, all, KeepIsGated, Registry!KeepIsGated

\* What an admitted success says of its training is so: its tensors moved in the sealed place and
\* kernel, no loss that is not a number was used, the schedule was kept, and the file holds what
\* was trained (the trackers' finalize, the gradient hooks and the admission), for any number of
\* steps, microbatches and tensors, whatever the libraries disturb within the fault bound.
THEOREM EvidenceTrue == EitherSpec => []EvidenceIsTrue
<1>1. OutputsInv => EvidenceIsTrue
  BY LaneEvidence DEF OutputsInv, EvidenceIsTrue
<1> QED BY <1>1, OutputsInvariant, PTL

\* What a summary says of a run was measured and is bound to what it was derived from
\* (summarize_run_telemetry, TelemetrySampler.stop), for any length of the run, any warm-up and
\* whatever the probes read.
THEOREM MeasurementsEarned == EitherSpec => []MeasurementsAreEarned
<1>1. OutputsInv => MeasurementsAreEarned
  BY MeasuredEarned DEF OutputsInv, MeasurementsAreEarned
<1> QED BY <1>1, OutputsInvariant, PTL
=============================================================================

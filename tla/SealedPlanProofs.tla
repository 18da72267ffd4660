------------------------- MODULE SealedPlanProofs -------------------------
(***************************************************************************)
(* What is sealed is provable from the request and the host alone, and it  *)
(* stays so: nothing writes a plan twice, and nothing changes once a run   *)
(* has an outcome.  So every statement about a run reduces to one about    *)
(* the planner's guard.                                                    *)
(***************************************************************************)
EXTENDS SealedPlan, TLAPS

\* A plan is what the planner sealed for its request, and an outcome is what the lane decides
\* about it with the installation as it is.
PlanInv ==
  /\ plan # NoPlan => /\ asked \in PlanRequests
                      /\ Sealable(asked, host)
                      /\ plan = Sealed(asked, host)
  /\ outcome # "none" => plan # NoPlan
  /\ outcome = "trained" => Executable /\ applied = Trains
  /\ outcome = "refused" => ~Executable

\* A sealed plan is a plan.
LEMMA SealedIsAPlan == ASSUME NEW r, NEW h PROVE Sealed(r, h) # NoPlan
  <1>1. "tuple" \in DOMAIN Sealed(r, h)
    BY DEF Sealed
  <1>2. "tuple" \notin DOMAIN NoPlan
    BY DEF NoPlan
  <1> QED BY <1>1, <1>2

LEMMA PlanInvInitially == PlanInit => PlanInv
  BY DEF PlanInit, PlanInv

LEMMA PlanInvKept == PlanInv /\ [PlanNext]_planVars => PlanInv'
  <1> SUFFICES ASSUME PlanInv, [PlanNext]_planVars PROVE PlanInv'
    OBVIOUS
  <1>1. CASE BuildRunPlan
    BY <1>1 DEF BuildRunPlan, PlanInv
  <1>2. CASE InstallationChanges
    BY <1>2 DEF InstallationChanges, PlanInv
  <1>3. CASE RunLane
    <2> USE <1>3 DEF RunLane
    <2>1. (Executable <=> Executable') /\ Trains' = Trains
      BY DEF Executable, NoDrift, ObjectiveVerified, Trains
    <2> QED BY <2>1 DEF PlanInv
  <1>4. CASE UNCHANGED planVars
    <2> USE <1>4 DEF planVars
    <2>1. (Executable <=> Executable') /\ Trains' = Trains
      BY DEF Executable, NoDrift, ObjectiveVerified, Trains
    <2> QED BY <2>1 DEF PlanInv
  <1> QED BY <1>1, <1>2, <1>3, <1>4 DEF PlanNext

LEMMA PlanInvariant == PlanSpec => []PlanInv
  BY PlanInvInitially, PlanInvKept, PTL DEF PlanSpec

\* What the planner resolves is a tuple.
LEMMA ResolvedTyped ==
  ASSUME NEW r \in PlanRequests, NEW h \in PlanHosts PROVE Resolved(r, h) \in TupleType
  <1> USE RequestsAssumption
  <1>1. r \in RequestType
    OBVIOUS
  <1>2. KernelOf(r, h) \in Kernels /\ RequestedAttention(r, h) \in {"eager", "math", "sdpa"}
    BY <1>1 DEF RequestType, Kernels, KernelOf, RequestedAttention
  <1>3. Quantization(r, h) \in {"none", "int8", "nf4"}
    BY <1>1 DEF RequestType, Quantization
  <1>4. \A k \in Kernels : Summary[k] \in {"eager", "math", "sdpa"}
    BY DEF Kernels, Summary
  <1>5. /\ r.adapter \in {"auto", "lora", "qlora", "full_finetune"}
        /\ r.optimizer \in {"adamw_torch", "paged_adamw_8bit"}
    BY <1>1 DEF RequestType
  <1>6. /\ Resolved(r, h).adapter \in {"lora", "qlora", "full_finetune"}
        /\ Resolved(r, h).attention \in {"eager", "math", "sdpa"}
    BY <1>2, <1>4, <1>5 DEF Resolved
  <1> QED BY <1>2, <1>3, <1>5, <1>6 DEF Resolved, TupleType

\* What is sealed is a plan.
LEMMA SealedTyped ==
  ASSUME NEW r \in PlanRequests, NEW h \in PlanHosts PROVE Sealed(r, h) \in PlanType
  <1>1. r \in RequestType
    BY RequestsAssumption
  <1>2. LaneOf(r) \in {"training"} \cup FullModelLanes \cup QloraLanes
    BY <1>1 DEF RequestType, LaneOf, LaneOfTask, FullModelLanes, QloraLanes
  <1> DEFINE t == IF LaneOf(r) \in QloraLanes THEN [Resolved(r, h) EXCEPT !.loss = "own"]
                  ELSE Resolved(r, h)
             c == r.cadence /\ LaneOf(r) # "pretraining"
  <1>3. t \in TupleType
    BY ResolvedTyped DEF TupleType
  <1>4. c \in BOOLEAN /\ r.continued \in BOOLEAN
    <2>1. r.cadence \in BOOLEAN /\ r.continued \in BOOLEAN
      BY <1>1, Zenon DEF RequestType
    <2> QED BY <2>1, Zenon
  <1>5. r.microBatch \in {1, 2} /\ r.schedule \in {"linear", "constant"}
    BY <1>1 DEF RequestType
  <1>6. Sealed(r, h) = [lane |-> LaneOf(r), tuple |-> t, cadence |-> c,
                        microBatch |-> r.microBatch, continued |-> r.continued,
                        schedule |-> r.schedule]
    BY Zenon DEF Sealed
  <1> HIDE DEF t, c
  <1> QED BY <1>2, <1>3, <1>4, <1>5, <1>6 DEF PlanType

\* What a worker makes of a plan is a plan.
LEMMA TrainsTyped == ASSUME plan \in PlanType PROVE Trains \in PlanType
  <1> DEFINE t == IF plan.lane \in FullModelLanes THEN [plan.tuple EXCEPT !.loss = "cross_entropy"]
                  ELSE plan.tuple
             c == plan.cadence /\ plan.lane = "training"
             m == IF plan.lane \in QloraLanes THEN 1 ELSE plan.microBatch
             s == IF plan.lane \in {"preference", "reward"} THEN "constant" ELSE plan.schedule
  <1>1. t \in TupleType /\ m \in {1, 2} /\ s \in {"linear", "constant"}
    BY DEF PlanType, TupleType
  <1>2. plan.lane \in {"training"} \cup FullModelLanes \cup QloraLanes
    BY DEF PlanType
  <1>3. c \in BOOLEAN /\ plan.continued \in BOOLEAN
    BY Zenon DEF PlanType
  <1>4. Trains = [lane |-> plan.lane, tuple |-> t, cadence |-> c, microBatch |-> m,
                  continued |-> plan.continued, schedule |-> s]
    BY Zenon DEF Trains
  <1> HIDE DEF t, c, m, s
  <1> QED BY <1>1, <1>2, <1>3, <1>4 DEF PlanType

\* A plan is no absence of one.
LEMMA PlansDiffer == NoPlan \notin PlanType \cup RequestType \cup PlanHosts
  <1>1. DOMAIN NoPlan = {"lane"}
    BY DEF NoPlan
  <1>2. \A p \in PlanType : "tuple" \in DOMAIN p
    BY DEF PlanType
  <1>3. \A p \in RequestType : "task" \in DOMAIN p
    BY DEF RequestType
  <1>4. \A p \in PlanHosts : "passed" \in DOMAIN p
    BY RequestsAssumption
  <1> QED BY <1>1, <1>2, <1>3, <1>4

\* The types of the planner's variables.
LEMMA PlanTypeInitially == PlanInit => PlanTypeOK
  BY DEF PlanInit, PlanTypeOK

\* They are kept by planning, by the installation and by the lane.
LEMMA PlanTypeKept == PlanTypeOK /\ [PlanNext]_planVars => PlanTypeOK'
  <1> SUFFICES ASSUME PlanTypeOK, PlanNext \/ UNCHANGED planVars PROVE PlanTypeOK'
    OBVIOUS
  <1>1. CASE BuildRunPlan
    <2>1. PICK r \in PlanRequests, h \in PlanHosts :
             asked' = r /\ host' = h /\ plan' = Sealed(r, h)
      BY <1>1 DEF BuildRunPlan
    <2>2. plan' \in PlanType /\ asked' # NoPlan /\ host' # NoPlan /\ plan' # NoPlan
      BY <2>1, SealedTyped, PlansDiffer, RequestsAssumption
    <2> QED BY <1>1, <2>2 DEF BuildRunPlan, PlanTypeOK
  <1>2. CASE InstallationChanges
    BY <1>2 DEF InstallationChanges, PlanTypeOK
  <1>3. CASE RunLane
    <2>1. plan \in PlanType
      BY <1>3 DEF RunLane, PlanTypeOK
    <2>2. Trains \in PlanType /\ Trains # NoPlan
      BY <2>1, TrainsTyped, PlansDiffer
    <2> QED BY <1>3, <2>2 DEF RunLane, PlanTypeOK
  <1>4. CASE UNCHANGED planVars
    BY <1>4 DEF planVars, PlanTypeOK
  <1> QED BY <1>1, <1>2, <1>3, <1>4 DEF PlanNext

\* Where a run trained, its plan was sealed for the request, and the worker follows it.
LEMMA Followed ==
  ASSUME PlanInv, outcome = "trained"
  PROVE  /\ asked \in PlanRequests /\ Sealable(asked, host) /\ plan = Sealed(asked, host)
         /\ Executable /\ applied = Trains /\ applied.lane = LaneOf(asked)
  <1>1. /\ plan = Sealed(asked, host) /\ applied = Trains
    BY DEF PlanInv
  <1>2. applied.lane = LaneOf(asked)
    BY <1>1 DEF Trains, Sealed
  <1> QED BY <1>1, <1>2 DEF PlanInv

\* The parts of a tuple but for its loss are the resolved ones.
LEMMA TupleFollowed ==
  ASSUME PlanInv, outcome = "trained", NEW f \in DOMAIN Resolved(asked, host) \ {"loss"}
  PROVE  applied.tuple[f] = Resolved(asked, host)[f]
  <1> DEFINE R == Resolved(asked, host)
  <1>1. plan = Sealed(asked, host) /\ applied = Trains
    BY Followed
  <1>2. plan.tuple = IF LaneOf(asked) \in QloraLanes THEN [R EXCEPT !.loss = "own"] ELSE R
    BY <1>1 DEF Sealed
  <1>3. f \in DOMAIN plan.tuple /\ plan.tuple[f] = R[f]
    <2>1. CASE LaneOf(asked) \in QloraLanes
      BY <1>2, <2>1
    <2>2. CASE LaneOf(asked) \notin QloraLanes
      BY <1>2, <2>2
    <2> QED BY <2>1, <2>2
  <1>4. applied.tuple = IF plan.lane \in FullModelLanes
                        THEN [plan.tuple EXCEPT !.loss = "cross_entropy"] ELSE plan.tuple
    BY <1>1 DEF Trains
  <1>5. CASE plan.lane \in FullModelLanes
    BY <1>3, <1>4, <1>5
  <1>6. CASE plan.lane \notin FullModelLanes
    BY <1>3, <1>4, <1>6
  <1> QED BY <1>5, <1>6

\* build_run_plan never composes a tuple from several probes: whatever adapter trains was
\* demonstrated by one of them, on every host and for every request.
THEOREM AdaptersAreProven == PlanSpec => []ProvenTogether
  <1>1. ASSUME PlanInv PROVE ProvenTogether
    <2> SUFFICES ASSUME outcome = "trained", applied.lane \notin FullModelLanes
                 PROVE  \E p \in host.passed \cap DOMAIN Executed :
                          \A f \in Shared(applied.lane) : applied.tuple[f] = Executed[p][f]
      BY DEF ProvenTogether
    <2>1. Sealable(asked, host) /\ applied.lane = LaneOf(asked)
      BY <1>1, Followed
    <2>2. PICK p \in host.passed \cap DOMAIN Executed : Resolved(asked, host) = Executed[p]
      BY <2>1 DEF Sealable, TupleProven
    <2>3. \A f \in DOMAIN Resolved(asked, host) \ {"loss"} : applied.tuple[f] = Executed[p][f]
      BY <1>1, <2>2, TupleFollowed
    <2>4. applied.lane = "training" => applied.tuple.loss = Resolved(asked, host).loss
      <3> SUFFICES ASSUME applied.lane = "training"
                   PROVE  applied.tuple = Resolved(asked, host)
        OBVIOUS
      <3>1. plan = Sealed(asked, host) /\ applied = Trains /\ LaneOf(asked) = "training"
        BY <1>1, <2>1, Followed
      <3>2. plan.lane = "training" /\ plan.tuple = Resolved(asked, host)
        BY <3>1 DEF Sealed, QloraLanes
      <3> QED BY <3>1, <3>2 DEF Trains, FullModelLanes
    <2>5. \A f \in Shared(applied.lane) \ {"loss"} : f \in DOMAIN Resolved(asked, host) \ {"loss"}
      BY DEF Shared, Resolved
    <2>6. \A f \in Shared(applied.lane) : applied.tuple[f] = Executed[p][f]
      BY <2>2, <2>3, <2>4, <2>5 DEF Shared
    <2> QED BY <2>6
  <1> QED BY <1>1, PlanInvariant, PTL

\* The adapter lane neither leaves a part of its plan out nor changes one.
LEMMA AdapterLaneFollows ==
  ASSUME PlanInv, outcome = "trained", applied.lane = "training"
  PROVE  applied = plan /\ changed \cap {"manifest", "packages"} = {}
  <1>1. plan = Sealed(asked, host) /\ applied = Trains /\ Executable /\ plan.lane = "training"
    BY Followed DEF Trains
  <1>2. changed \cap {"manifest", "packages"} = {}
    BY <1>1 DEF Executable, NoDrift
  <1>3. plan = [lane |-> plan.lane, tuple |-> plan.tuple, cadence |-> plan.cadence,
                microBatch |-> plan.microBatch, continued |-> plan.continued,
                schedule |-> plan.schedule]
    BY <1>1 DEF Sealed
  <1>4. plan.cadence \in BOOLEAN
    BY <1>1 DEF Sealed
  <1>5. (plan.cadence /\ plan.lane = "training") = plan.cadence
    BY <1>1, <1>4
  <1>6. Trains = [lane |-> plan.lane, tuple |-> plan.tuple, cadence |-> plan.cadence,
                  microBatch |-> plan.microBatch, continued |-> plan.continued,
                  schedule |-> plan.schedule]
    BY <1>1, <1>5 DEF Trains, FullModelLanes, QloraLanes
  <1> QED BY <1>1, <1>2, <1>3, <1>6

\* An explicit choice is what the planner resolves, where it does not refuse it.
LEMMA ChoicesResolved ==
  ASSUME NEW r \in RequestType, NEW h, Sealable(r, h), LaneOf(r) # "pretraining", ~CpuToy(h)
  PROVE  /\ r.quantization \in {"auto", Resolved(r, h).quantization}
         /\ r.attention \in {"auto", Resolved(r, h).attention}
         /\ r.adapter \in {"auto", Resolved(r, h).adapter}
  <1>1. r.quantization \in {"auto", Quantization(r, h)}
    <2>1. QuantizationAllowed(r, h)
      BY DEF Sealable
    <2> QED BY <2>1 DEF QuantizationAllowed, Quantization, ForcedPlain, FullModelLanes
  <1>2. r.attention # "auto" => RequestedAttention(r, h) = r.attention
    BY DEF RequestedAttention
  <1>3. r.attention # "auto" /\ KernelOf(r, h) = "flash" => r.attention = "sdpa"
    BY <1>2 DEF KernelOf, RequestType
  <1>4. Summary["flash"] = "sdpa"
    BY DEF Summary
  <1>5. r.attention \in {"auto", Resolved(r, h).attention}
    BY <1>2, <1>3, <1>4 DEF Resolved
  <1> QED BY <1>1, <1>5 DEF Resolved

\* The objective's family decides the lane.
LEMMA FamilyDecidesLane ==
  ASSUME NEW r \in RequestType, ObjectiveFitsTask(r), r.objective \in DOMAIN FamilyOf
  PROVE  LaneOf(r) = LaneOfTask[FamilyOf[r.objective]]
  <1>1. r.task = FamilyOf[r.objective]
    BY DEF ObjectiveFitsTask
  <1>2. FamilyOf[r.objective] # "sft"
    BY DEF FamilyOf
  <1> QED BY <1>1, <1>2 DEF LaneOf

\* Nothing that was asked for is replaced on the way from the request to the GPU, and the
\* adapter lane runs its plan as it was sealed.
THEOREM AsAsked == PlanSpec => []TrainsAsAsked
  <1>1. ASSUME PlanInv PROVE TrainsAsAsked
    <2> SUFFICES ASSUME outcome = "trained" PROVE TrainsAsAsked
      BY DEF TrainsAsAsked
    <2>1. /\ asked \in RequestType /\ Sealable(asked, host)
          /\ applied.lane = LaneOf(asked)
      BY <1>1, Followed, RequestsAssumption
    <2>2. ~asked.moe
      BY <2>1 DEF Sealable, VariantAdmitted
    <2>3. asked.objective \in DOMAIN FamilyOf =>
            applied.lane = LaneOfTask[FamilyOf[asked.objective]]
      BY <2>1, FamilyDecidesLane DEF Sealable
    <2>4. \A f \in {"mode", "quantization", "attention", "adapter"} :
            applied.tuple[f] = Resolved(asked, host)[f]
      BY <1>1, TupleFollowed DEF Resolved
    <2>5. applied.tuple.mode = "training" => ~CpuToy(host)
      BY <2>4 DEF Resolved
    <2>6. applied.lane # "pretraining" /\ applied.tuple.mode = "training" =>
            /\ asked.quantization \in {"auto", applied.tuple.quantization}
            /\ asked.attention \in {"auto", applied.tuple.attention}
            /\ asked.adapter \in {"auto", applied.tuple.adapter}
      BY <2>1, <2>4, <2>5, ChoicesResolved
    <2>7. applied.lane = "training" => applied = plan /\ changed \cap {"manifest", "packages"} = {}
      BY <1>1, AdapterLaneFollows
    <2> QED BY <2>2, <2>3, <2>6, <2>7 DEF TrainsAsAsked
  <1> QED BY <1>1, PlanInvariant, PTL

\* A demonstrated tuple has the adapter that belongs to its quantization.
LEMMA ProbesMatch ==
  ASSUME NEW p \in DOMAIN Executed
  PROVE  (Executed[p].quantization = "none") = (Executed[p].adapter = "lora")
  BY DEF Executed, Gpu, Tuple

\* The planner refuses what a lane would refuse: a sealed plan is only turned down when the
\* installation changed, or by the limits that the lanes are documented to have.
THEOREM SealedIsCarriedOut == PlanSpec => []NoLateRefusal
  <1>1. ASSUME PlanInv PROVE NoLateRefusal
    <2> SUFFICES ASSUME outcome = "refused" PROVE NoLateRefusal
      BY DEF NoLateRefusal
    <2>1. /\ Sealable(asked, host) /\ plan = Sealed(asked, host) /\ ~Executable
          /\ plan.lane = LaneOf(asked)
      BY <1>1 DEF PlanInv, Sealed
    <2>2. LoaderPolicySupported(plan.lane, plan.tuple)
      <3> SUFFICES ASSUME plan.lane \in QloraLanes
                   PROVE  plan.tuple.mode = "training" /\ plan.tuple.quantization = "nf4"
        BY DEF LoaderPolicySupported
      <3>1. plan.lane \notin FullModelLanes
        BY DEF QloraLanes, FullModelLanes
      <3>2. /\ Resolved(asked, host).mode = "training"
            /\ Resolved(asked, host).quantization = "nf4"
        BY <2>1, <3>1 DEF Sealable, Lowerable, LoaderPolicySupported
      <3>3. plan.tuple = [Resolved(asked, host) EXCEPT !.loss = "own"]
        BY <2>1 DEF Sealed
      <3>4. /\ "mode" \in DOMAIN Resolved(asked, host)
            /\ "quantization" \in DOMAIN Resolved(asked, host)
        BY DEF Resolved
      <3> QED BY <3>2, <3>3, <3>4
    <2>3. ObjectiveVerified
      <3> SUFFICES ASSUME plan.lane = "training"
                   PROVE  (plan.tuple.quantization = "none") = (plan.tuple.adapter = "lora")
        BY DEF ObjectiveVerified
      <3>1. PICK p \in DOMAIN Executed : Resolved(asked, host) = Executed[p]
        BY <2>1 DEF Sealable, TupleProven, FullModelLanes
      <3>2. plan.tuple = Resolved(asked, host)
        BY <2>1 DEF Sealed, QloraLanes
      <3> QED BY <3>1, <3>2, ProbesMatch
    <2>4. plan.lane = "training" /\ ~NoDrift => changed # {}
      BY DEF NoDrift
    <2>5. plan.lane # "training" => NoDrift
      BY DEF NoDrift
    <2> QED BY <2>1, <2>2, <2>3, <2>4, <2>5 DEF Executable, NoLateRefusal
  <1> QED BY <1>1, PlanInvariant, PTL
=============================================================================

----------------------------- MODULE SealedPlan -----------------------------
(***************************************************************************)
(* A request for a training run, sealed into a plan and carried out later: *)
(* the capability probes of the host, build_run_plan and the resolvers it  *)
(* calls, then the lane that runs the plan, after the installation may     *)
(* have changed.                                                           *)
(*                                                                         *)
(* Hyperparameters, names and paths are left out: the model keeps what one *)
(* part decides and another one relies on.  A mem_efficient kernel or an   *)
(* external attention package is proven by no probe, so that a request for *)
(* one is refused like any other without proof.                            *)
(***************************************************************************)

CONSTANTS PlanRequests, \* PlannerConstraints, by what the lanes tell apart
          PlanHosts     \* [passed, wddmBlackwell]: probes that passed, native Windows on sm_120

\* What a request can say.
RequestType ==
  [task : {"sft", "preference", "reward", "grpo", "pretraining"},
   objective : {"none", "dpo_qlora", "orpo", "reward_model", "grpo"},
   adapter : {"auto", "lora", "qlora", "full_finetune"},
   quantization : {"auto", "none", "int8", "nf4"},
   attention : {"auto", "eager", "math", "sdpa"},
   liger : BOOLEAN, optimizer : {"adamw_torch", "paged_adamw_8bit"}, moe : BOOLEAN,
   allowCpuToy : BOOLEAN, cadence : BOOLEAN, keepLast : BOOLEAN, microBatch : {1, 2},
   rewardSource : BOOLEAN, continued : BOOLEAN, export : {"adapter_peft", "merged_safetensors"},
   schedule : {"linear", "constant"}]

VARIABLES asked,    \* what was asked for and sealed
          host,     \* the machine that was probed for it
          plan,     \* the sealed RunPlan
          changed,  \* what the installation changed since
          outcome,  \* "none", "trained" or "refused"
          applied   \* how the lane's worker trained

planVars == <<asked, host, plan, changed, outcome, applied>>

NoPlan == [lane |-> "none"]

Kernels == {"eager", "math", "flash"}

-----------------------------------------------------------------------------
(* What the probes prove *)

\* attention_summary: the API under which a kernel is asked for.
Summary == [eager |-> "eager", math |-> "math", flash |-> "sdpa"]

\* A complete tuple that a bounded training run demonstrates.
Tuple(mode, quantization, kernel, loss, optimizer) ==
  [mode |-> mode, precision |-> IF mode = "cpu_toy" THEN "fp32" ELSE "bf16",
   quantization |-> quantization, adapter |-> IF quantization = "none" THEN "lora" ELSE "qlora",
   attention |-> Summary[kernel], kernel |-> kernel, loss |-> loss, optimizer |-> optimizer]

Gpu(quantization, kernel, loss, optimizer) ==
  Tuple("training", quantization, kernel, loss, optimizer)

\* The execution probes, by the tuple they train.
Executed ==
  [cpu_lora                |-> Tuple("cpu_toy", "none", "eager", "cross_entropy", "adamw_torch"),
   bf16_lora_math          |-> Gpu("none", "math", "cross_entropy", "adamw_torch"),
   int8_qlora_math         |-> Gpu("int8", "math", "cross_entropy", "adamw_torch"),
   qlora_math              |-> Gpu("nf4", "math", "cross_entropy", "adamw_torch"),
   qlora_flash             |-> Gpu("nf4", "flash", "cross_entropy", "adamw_torch"),
   qlora_liger             |-> Gpu("nf4", "math", "liger_fused_ce", "adamw_torch"),
   qlora_flash_liger       |-> Gpu("nf4", "flash", "liger_fused_ce", "adamw_torch"),
   qlora_flash_liger_paged |-> Gpu("nf4", "flash", "liger_fused_ce", "paged_adamw_8bit")]

\* Probes of one ability, with the values that they add to the axes.
Isolated ==
  [bnb_4bit_load    |-> {"nf4"},
   math_sdpa        |-> {"math", "sdpa"},
   flash_attn       |-> {"flash", "sdpa"},
   dense_optimizer  |-> {"cross_entropy", "adamw_torch"},
   trainer_contract |-> {}]

Probes == DOMAIN Executed \cup DOMAIN Isolated

ASSUME RequestsAssumption ==
  /\ PlanRequests \subseteq RequestType
  /\ PlanHosts \subseteq [passed : SUBSET Probes, wddmBlackwell : BOOLEAN]

\* The values a passing probe proves.  No two axes share a value, except that math and eager
\* name both an API and its kernel, which every probe proves together.
Proves(p) ==
  IF p \in DOMAIN Isolated THEN Isolated[p]
  ELSE {Executed[p].precision, Executed[p].quantization, Executed[p].adapter, Executed[p].kernel,
        Executed[p].attention, Executed[p].loss, Executed[p].optimizer}
         \cup (IF Executed[p].kernel = "math" THEN {"sdpa"} ELSE {})

\* effective_capabilities: the union over the passing probes.
Proven(h) == UNION {Proves(p) : p \in h.passed}

\* The modes in which some tuple was demonstrated; _resolve_readiness is about these.
Modes(h) == {Executed[p].mode : p \in h.passed \cap DOMAIN Executed}

CpuToy(h) == "training" \notin Modes(h)

-----------------------------------------------------------------------------
(* What is asked for *)

LaneOfTask == [sft |-> "training", preference |-> "preference", reward |-> "reward",
               grpo |-> "rollout", pretraining |-> "pretraining"]

LaneOf(r) ==
  IF r.task = "sft" /\ r.adapter = "full_finetune" THEN "full_finetune" ELSE LaneOfTask[r.task]

\* The lanes that hang an adapter on a quantized base, whatever the objective.
QloraLanes == {"preference", "reward", "rollout"}

\* The lanes that train every parameter.
FullModelLanes == {"full_finetune", "pretraining"}

\* The task to which an objective belongs.
FamilyOf == [dpo_qlora |-> "preference", orpo |-> "preference", reward_model |-> "reward",
             grpo |-> "grpo"]

\* A named objective of one of these families contradicts any other task.
ObjectiveFitsTask(r) == r.objective \in DOMAIN FamilyOf => r.task = FamilyOf[r.objective]

\* The one objective of its family with a built shape.
BuiltObjective == [preference |-> "dpo_qlora", reward |-> "reward_model", grpo |-> "grpo"]

\* execution_variant_kind_for_task and admit_execution_variant: a mixture of experts maps to a
\* shape that is only declared, the families resolve by their objective.
VariantAdmitted(r) ==
  /\ ~r.moe
  /\ r.task \in DOMAIN BuiltObjective => r.objective = BuiltObjective[r.task]

-----------------------------------------------------------------------------
(* What the planner resolves *)

\* The CPU path and a full-parameter run force an unquantized base.
ForcedPlain(r, h) == CpuToy(h) \/ LaneOf(r) \in FullModelLanes

Quantization(r, h) ==
  IF ForcedPlain(r, h) THEN "none"
  ELSE IF r.quantization # "auto" THEN r.quantization
  ELSE IF "bnb_4bit_load" \in h.passed THEN "nf4" ELSE "none"

\* An explicit quantized mode needs bitsandbytes and proof; a full-parameter run takes none.
QuantizationAllowed(r, h) ==
  \/ CpuToy(h) \/ r.quantization \in {"auto", "none"} \/ LaneOf(r) = "pretraining"
  \/ /\ LaneOf(r) # "full_finetune"
     /\ "bnb_4bit_load" \in h.passed
     /\ r.quantization \in Proven(h)

\* The API that stands for a request, with the slow but complete kernel first.
RequestedAttention(r, h) ==
  IF r.attention # "auto" THEN r.attention
  ELSE IF h.wddmBlackwell \/ "math" \in Proven(h) THEN "math"
  ELSE IF "flash" \in Proven(h) THEN "sdpa" ELSE "eager"

\* _resolve_attention: the first proven kernel for the API; for sdpa the fused one.
KernelOf(r, h) ==
  IF CpuToy(h) THEN "eager"
  ELSE IF RequestedAttention(r, h) # "sdpa" THEN RequestedAttention(r, h)
  ELSE IF "flash" \in Proven(h) THEN "flash" ELSE "math"

\* A fused kernel may deadlock on native Windows with such a card.
AttentionAllowed(r, h) ==
  \/ CpuToy(h)
  \/ /\ h.wddmBlackwell => r.attention # "sdpa"
     /\ {RequestedAttention(r, h), KernelOf(r, h)} \subseteq Proven(h)

Resolved(r, h) ==
  [mode |-> IF CpuToy(h) THEN "cpu_toy" ELSE "training",
   precision |-> IF CpuToy(h) THEN "fp32" ELSE "bf16",
   quantization |-> Quantization(r, h),
   adapter |-> IF LaneOf(r) = "pretraining" THEN "full_finetune"
               ELSE IF r.adapter # "auto" THEN r.adapter
               ELSE IF Quantization(r, h) = "none" THEN "lora" ELSE "qlora",
   attention |-> IF KernelOf(r, h) = "flash" \/ CpuToy(h) THEN Summary[KernelOf(r, h)]
                 ELSE RequestedAttention(r, h),
   kernel |-> KernelOf(r, h),
   loss |-> IF r.liger THEN "liger_fused_ce" ELSE "cross_entropy",
   optimizer |-> r.optimizer]

\* Mutant: every axis is proven, by whatever probes.
EachAxisProven(r, h) ==
  {Resolved(r, h).adapter, Resolved(r, h).loss, Resolved(r, h).optimizer} \subseteq Proven(h)

\* One passing probe demonstrated the complete tuple, which exports an adapter.
TupleProven(r, h) ==
  \E p \in h.passed \cap DOMAIN Executed : Resolved(r, h) = Executed[p] /\ r.export = "adapter_peft"

\* A full model is exported, and the axes of its step are proven, the tuple is not.
FullModelAllowed(r, h) ==
  r.export # "adapter_peft" /\ {Resolved(r, h).loss, r.optimizer} \subseteq Proven(h)

\* A pretraining plan is built on its own, with no proof but for its attention, which must be
\* summarised by its own API (RunPlan).
PretrainingAllowed(r, h) == Resolved(r, h).attention = Summary[KernelOf(r, h)]

\* verify_loader_policy_supported and the contracts of the quantized lanes.
LoaderPolicySupported(lane, sealed) ==
  lane \in QloraLanes => sealed.mode = "training" /\ sealed.quantization = "nf4"

\* Mutant: only the runner asks what its worker can lower.
LoweredLater(r, h) == TRUE

\* _refuse_unlowerable_loader_policy: the planner's half of the same check.
Lowerable(r, h) == LoaderPolicySupported(LaneOf(r), Resolved(r, h))

\* Only the adapter lane and the preference plan take a checkpoint cadence; retention needs one.
\* A pretraining plan seals none, whatever was asked.
CadenceAllowed(r) ==
  \/ LaneOf(r) = "pretraining"
  \/ /\ r.cadence \/ r.keepLast => LaneOf(r) \in {"training", "preference"}
     /\ r.keepLast => r.cadence

Sealable(r, h) ==
  /\ ObjectiveFitsTask(r) /\ VariantAdmitted(r)
  /\ Modes(h) # {} /\ (CpuToy(h) => r.allowCpuToy)
  /\ "trainer_contract" \in h.passed
  /\ QuantizationAllowed(r, h) /\ AttentionAllowed(r, h) /\ CadenceAllowed(r)
  /\ LaneOf(r) = "full_finetune" => FullModelAllowed(r, h)
  /\ LaneOf(r) = "pretraining" => PretrainingAllowed(r, h)
  /\ LaneOf(r) \notin FullModelLanes => TupleProven(r, h) /\ Lowerable(r, h)
  \* _resolve_reward_source: the reward model of a succeeded run on the same base.
  /\ LaneOf(r) = "rollout" => r.rewardSource

\* The plan: its lane with what the lane's worker is to do.  The quantized lanes have a loss of
\* their own.
Sealed(r, h) ==
  [lane |-> LaneOf(r),
   tuple |-> IF LaneOf(r) \in QloraLanes THEN [Resolved(r, h) EXCEPT !.loss = "own"]
             ELSE Resolved(r, h),
   cadence |-> r.cadence /\ LaneOf(r) # "pretraining", microBatch |-> r.microBatch,
   continued |-> r.continued, schedule |-> r.schedule]

-----------------------------------------------------------------------------
(* Planning, and what happens before the run *)

PlanInit ==
  /\ asked = NoPlan /\ host = NoPlan /\ plan = NoPlan /\ applied = NoPlan
  /\ changed = {}
  /\ outcome = "none"

\* build_run_plan; where it refuses it raises PlannerError and leaves nothing behind.
BuildRunPlan ==
  /\ plan = NoPlan
  /\ \E r \in PlanRequests, h \in PlanHosts :
       /\ Sealable(r, h)
       /\ asked' = r /\ host' = h
       /\ plan' = Sealed(r, h)
  /\ UNCHANGED <<changed, outcome, applied>>

\* Another backend manifest, other package versions, or a release that promotes on-policy
\* training to workload_verified.
InstallationChanges ==
  /\ plan # NoPlan /\ outcome = "none"
  /\ \E c \in {"manifest", "packages", "promotion"} \ changed : changed' = changed \cup {c}
  /\ UNCHANGED <<asked, host, plan, outcome, applied>>

-----------------------------------------------------------------------------
(* Carrying it out *)

\* Mutant: the adapter lane trusts the manifest and the versions it finds.
NoDriftCheck == TRUE

\* TrainingRunner._resolve_trainer and verify_sealed_runtime; the other lanes compare neither.
NoDrift == plan.lane = "training" => changed \cap {"manifest", "packages"} = {}

\* verify_execution_objective: the objectives lora and qlora with their quantizations.
ObjectiveVerified ==
  plan.lane = "training" => (plan.tuple.quantization = "none") = (plan.tuple.adapter = "lora")

\* required_runner_lane, the runner's admission and what the worker does not implement:
\* continued pretraining, more than one prompt of a rollout at a time.
Executable ==
  /\ NoDrift /\ ObjectiveVerified /\ LoaderPolicySupported(plan.lane, plan.tuple)
  /\ plan.lane = "pretraining" => ~plan.continued
  /\ plan.lane = "rollout" => "promotion" \in changed /\ plan.microBatch = 1

\* What the worker makes of the plan: only the adapter lane writes checkpoints, the pair and the
\* prompt lanes step one row at a time, the fused loss is the adapter lane's, and the loops over
\* pairs build an optimizer without a learning-rate schedule.
Trains ==
  [lane |-> plan.lane,
   tuple |-> IF plan.lane \in FullModelLanes THEN [plan.tuple EXCEPT !.loss = "cross_entropy"]
             ELSE plan.tuple,
   cadence |-> plan.cadence /\ plan.lane = "training",
   microBatch |-> IF plan.lane \in QloraLanes THEN 1 ELSE plan.microBatch,
   continued |-> plan.continued,
   schedule |-> IF plan.lane \in {"preference", "reward"} THEN "constant" ELSE plan.schedule]

RunLane ==
  /\ plan # NoPlan /\ outcome = "none"
  /\ IF Executable THEN outcome' = "trained" /\ applied' = Trains
     ELSE outcome' = "refused" /\ UNCHANGED applied
  /\ UNCHANGED <<asked, host, plan, changed>>

PlanNext == BuildRunPlan \/ InstallationChanges \/ RunLane

PlanSpec == PlanInit /\ [][PlanNext]_planVars

-----------------------------------------------------------------------------
(* Properties *)

TupleType ==
  [mode : {"cpu_toy", "training"}, precision : {"fp32", "bf16"},
   quantization : {"none", "int8", "nf4"}, adapter : {"lora", "qlora", "full_finetune"},
   attention : {"eager", "math", "sdpa"}, kernel : Kernels,
   loss : {"cross_entropy", "liger_fused_ce", "own"},
   optimizer : {"adamw_torch", "paged_adamw_8bit"}]

PlanType ==
  [lane : {"training"} \cup FullModelLanes \cup QloraLanes, tuple : TupleType,
   cadence : BOOLEAN, microBatch : {1, 2}, continued : BOOLEAN,
   schedule : {"linear", "constant"}]

\* Types; a run has an outcome once there is a plan, and its way of training once it trained.
PlanTypeOK ==
  /\ plan \in PlanType \cup {NoPlan} /\ applied \in PlanType \cup {NoPlan}
  /\ (asked = NoPlan) = (plan = NoPlan) /\ (host = NoPlan) = (plan = NoPlan)
  /\ changed \subseteq {"manifest", "packages", "promotion"}
  /\ outcome \in {"none", "trained", "refused"}
  /\ (outcome = "trained") = (applied # NoPlan)
  /\ outcome # "none" => plan # NoPlan

\* The parts of a tuple that a lane shares with the probes.
Shared(lane) == {"mode", "precision", "quantization", "adapter", "attention", "kernel", "optimizer"}
                  \cup (IF lane = "training" THEN {"loss"} ELSE {})

\* An adapter trains the way one single probe has trained on that host: its parts are never
\* taken from several probes (build_run_plan, the exact execution combination).
ProvenTogether ==
  outcome = "trained" /\ applied.lane \notin FullModelLanes =>
    \E p \in host.passed \cap DOMAIN Executed :
      \A f \in Shared(applied.lane) : applied.tuple[f] = Executed[p][f]

\* What trains on a GPU is what was asked for: the family of the objective that was named, no
\* mixture of experts, every explicit choice.  The adapter lane trains exactly as sealed, with
\* the backend and the packages of its plan (build_run_plan, TrainingRunner, run_training).
TrainsAsAsked ==
  outcome = "trained" =>
    /\ ~asked.moe
    /\ asked.objective \in DOMAIN FamilyOf =>
         applied.lane = LaneOfTask[FamilyOf[asked.objective]]
    /\ applied.lane # "pretraining" /\ applied.tuple.mode = "training" =>
         /\ asked.quantization \in {"auto", applied.tuple.quantization}
         /\ asked.attention \in {"auto", applied.tuple.attention}
         /\ asked.adapter \in {"auto", applied.tuple.adapter}
    /\ applied.lane = "training" => applied = plan /\ changed \cap {"manifest", "packages"} = {}

\* A plan that is sealed is carried out: its lane refuses it only where the installation has
\* changed, where the lane is sealed for review, or for two limits of the workers themselves
\* (the planner's half of the lanes' checks, required_runner_lane).
NoLateRefusal ==
  outcome = "refused" =>
    \/ plan.lane = "training" /\ changed # {}
    \/ plan.lane = "rollout" /\ ("promotion" \notin changed \/ plan.microBatch # 1)
    \/ plan.lane = "pretraining" /\ plan.continued

\* A worker applies what its plan seals (run_dpo_training: "Sealed execution semantics are
\* HONORED, not silently defaulted").
SealedIsApplied == outcome = "trained" => applied = plan
=============================================================================

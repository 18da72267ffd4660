--------------------------- MODULE MCTrainingOutputs ---------------------------
(***************************************************************************)
(* Five components of training, in one run: the runs with their            *)
(* checkpoints, the registry record of one trained artifact, one request   *)
(* from its planning to the lane that carries it out, the execution of one *)
(* lane, or the measurements of one run.  They share no file and no        *)
(* variable; which one is used is chosen initially, the others rest.       *)
(***************************************************************************)
EXTENDS MCTrainingRun, SealedPlan

CONSTANTS Procs, Weights, Torn, p1, p2, w1, w2,
          Base, Adapter, LaneSteps, LaneMicro, Datasets, RowOf, MaxLen, MaxPrompt, LaneFaults, NaN,
          b1, a1, a2, Settings, Warmup, LastStep, MaxSamples, Hosts, TelemetryFaults

VARIABLES component, registered, draft, at, copy, wanted, gated, concurrent, mishaps,
          lane, byEpoch, lossy, resumed, phase, trained, heldout, value, place, live, bound,
          hooks, observed, groups, kernel, pending, bad, micro, done, reported, losses, before,
          proposal, saved, interferences, ended, start, poisoned, strayed,
          setting, command, log, cut, unlogged, told, recorded, window, current, stop, open,
          sampling, since, series, outlived, got, summary, flaws

Registry == INSTANCE ArtifactRegistry WITH artifact <- registered

Lane == INSTANCE LaneExecution WITH
          at <- phase, faults <- interferences, outcome <- ended,
          Steps <- LaneSteps, Micro <- LaneMicro, MaxFaults <- LaneFaults

ASSUME LaneConstants == Lane!LaneAssumption

\* How a command is called.
Called(worker, from, missed) ==
  [worker |-> worker, managed |-> worker, from |-> from, missed |-> missed]

Measured == INSTANCE Telemetry WITH
              MaxFaults <- TelemetryFaults, torn <- cut, outcome <- told,
              manifest <- recorded, sampler <- sampling, faults <- flaws

ASSUME MeasuredConstants == Measured!TelemetryAssumption

\* Clipping the energy at a time divides it (_integrate_energy).
ASSUME \A D \in SUBSET (1..4) : \A watts \in [D -> 0..3] :
         \A a \in 1..4 : \A m \in a..4 : \A b \in m..4 :
           LET Part(x, y) == LET j == Measured!Joules(watts, {x, y}) IN IF j = None THEN 0 ELSE j
           IN Part(a, m) + Part(m, b) = Part(a, b)

registryVars == <<registered, draft, at, copy, wanted, gated, concurrent, mishaps>>

laneVars == <<lane, byEpoch, lossy, resumed, phase, trained, heldout, value, place, live, bound,
              hooks, observed, groups, kernel, pending, bad, micro, done, reported, losses, before,
              proposal, saved, interferences, ended, start, poisoned, strayed>>

measuredVars == <<setting, command, log, cut, unlogged, told, recorded, window, current, stop, open,
                  sampling, since, series, outlived, got, summary, flaws>>

TwoProcs == {p1, p2}
TwoWeights == {w1, w2}
OneBase == {b1}
TwoAdapters == {a1, a2}
ManyDatasets == {{"short"}, {"short", "long"}, {"short", "again"}, {"short", "same"}}
OnePairTwice == {{"short", "again"}}

\* Rows of one and of two tokens, one that repeats a pair and one whose pair is degenerate.
Rows == [r \in {"short", "long", "again", "same"} |->
           [prompt |-> IF r = "long" THEN 2 ELSE 1, answer |-> IF r = "long" THEN 2 ELSE 1,
            pair |-> IF r = "again" THEN "short" ELSE r, degenerate |-> r = "same"]]

\* With and without a worker process, with a step that nobody counts, and resumed.
MeasuredCalls ==
  {Called(FALSE, 0, {}), Called(TRUE, 0, {}), Called(TRUE, 0, {3}), Called(TRUE, 1, {1})}

\* Everything answers, or nothing does.
MeasuredHosts ==
  {[driver |-> TRUE, power |-> 3, tree |-> TRUE], [driver |-> FALSE, power |-> None, tree |-> FALSE]}

-----------------------------------------------------------------------------
(* Requests and hosts *)

Choices ==
  [task : {"sft", "preference", "reward", "grpo", "pretraining"},
   objective : {"none", "dpo_qlora", "orpo", "reward_model", "grpo"},
   adapter : {"auto", "lora", "qlora", "full_finetune"},
   quantization : {"auto", "none", "int8", "nf4"},
   attention : {"auto", "eager", "math", "sdpa"},
   liger : BOOLEAN, optimizer : {"adamw_torch", "paged_adamw_8bit"}]

Usual == [moe |-> FALSE, allowCpuToy |-> TRUE, cadence |-> FALSE, keepLast |-> FALSE,
          microBatch |-> 1, rewardSource |-> TRUE, continued |-> FALSE,
          export |-> "adapter_peft", schedule |-> "linear"]

\* The other parts of a request: as usual but for one of them, or a full model.
Switches ==
  {Usual, [Usual EXCEPT !.moe = TRUE], [Usual EXCEPT !.allowCpuToy = FALSE],
   [Usual EXCEPT !.cadence = TRUE], [Usual EXCEPT !.keepLast = TRUE],
   [Usual EXCEPT !.cadence = TRUE, !.keepLast = TRUE], [Usual EXCEPT !.microBatch = 2],
   [Usual EXCEPT !.rewardSource = FALSE], [Usual EXCEPT !.continued = TRUE],
   [Usual EXCEPT !.export = "merged_safetensors"],
   [Usual EXCEPT !.export = "merged_safetensors", !.cadence = TRUE]}

\* Every choice for an adapter run, for which the probes differ; every task and objective with
\* the choices that their lanes tell apart; and every switch with the choices it could meet.
ManyRequests ==
  {c @@ Usual : c \in {r \in Choices : \/ r.task = "sft" /\ r.objective = "none"
                                       \/ ~r.liger /\ r.optimizer = "adamw_torch"}}
    \cup {c @@ s : c \in {r \in Choices : /\ ObjectiveFitsTask(r)
                                         /\ r.attention = "auto" /\ ~r.liger
                                         /\ r.optimizer = "adamw_torch"
                                         /\ r.adapter \in {"auto", "full_finetune"}},
                   s \in Switches}
    \cup {c @@ [Usual EXCEPT !.export = "merged_safetensors"] :
            c \in {r \in Choices : r.adapter = "full_finetune" /\ r.task = "sft"}}

\* One preference plan.
OnePreferenceRequest ==
  {c @@ Usual :
     c \in {r \in Choices : /\ r.task = "preference" /\ r.objective = "dpo_qlora"
                            /\ r.adapter = "auto" /\ r.quantization = "auto"
                            /\ r.attention = "auto" /\ ~r.liger /\ r.optimizer = "adamw_torch"}}

CpuProbes == {"cpu_lora", "math_sdpa", "dense_optimizer", "trainer_contract"}

FlashProbes == {"flash_attn", "qlora_flash", "qlora_flash_liger", "qlora_flash_liger_paged"}

MathProbes == {"bf16_lora_math", "int8_qlora_math", "qlora_math", "qlora_liger", "bnb_4bit_load"}

Host(passed) == [passed |-> passed, wddmBlackwell |-> FALSE]

\* Nothing, a CPU, a GPU without bitsandbytes, without flash, with flash alone, with everything,
\* and one on native Windows, where the flash probes refuse to run.
ManyHosts ==
  {Host({}), Host(CpuProbes), Host(CpuProbes \cup {"bf16_lora_math"}),
   Host(CpuProbes \cup MathProbes), Host(CpuProbes \cup MathProbes \cup FlashProbes),
   Host((CpuProbes \ {"math_sdpa"}) \cup FlashProbes \cup {"bnb_4bit_load"}),
   [passed |-> CpuProbes \cup MathProbes, wddmBlackwell |-> TRUE]}

OneHost == {Host(CpuProbes \cup MathProbes)}

-----------------------------------------------------------------------------
(* The composition *)

Is(part) == component = part /\ UNCHANGED component

TrainingStep == Is("training") /\ Next /\ UNCHANGED <<registryVars, planVars, laneVars, measuredVars>>

RegistryStep == Is("registry") /\ Registry!Next /\ UNCHANGED <<vars, planVars, laneVars, measuredVars>>

PlannerStep == Is("planner") /\ PlanNext /\ UNCHANGED <<vars, registryVars, laneVars, measuredVars>>

LaneStep == Is("lane") /\ Lane!Next /\ UNCHANGED <<vars, registryVars, planVars, measuredVars>>

MeasuredStep ==
  Is("telemetry") /\ Measured!Next /\ UNCHANGED <<vars, registryVars, planVars, laneVars>>

EitherInit ==
  /\ component \in {"training", "registry", "planner", "lane", "telemetry"}
  /\ Init /\ Registry!Init /\ PlanInit /\ Lane!Init /\ Measured!Init
  /\ component # "lane" => lane = "training" /\ ~byEpoch /\ ~lossy /\ ~resumed
  /\ component # "telemetry" => setting = Called(FALSE, 0, {})

EitherNext == TrainingStep \/ RegistryStep \/ PlannerStep \/ LaneStep \/ MeasuredStep

EitherSpec ==
  EitherInit /\ [][EitherNext]_<<component, vars, registryVars, planVars, laneVars, measuredVars>>

-----------------------------------------------------------------------------
(* Properties of the parts *)

\* The type of the part that moves.
OutputsTypeOK ==
  CASE component = "training" -> TypeOK
    [] component = "registry" -> Registry!TypeOK
    [] component = "planner" -> PlanTypeOK
    [] component = "lane" -> Lane!TypeOK
    [] component = "telemetry" -> Measured!TypeOK

\* What becomes kept carries the hash its promote gate let pass (ArtifactRegistry,
\* promote_artifact and update_artifact_status).
KeepIsGated == Registry!KeepIsGated

\* What an admitted success says of its training is so, and it was trained in its sealed kernel,
\* place and format (LaneExecution, the trackers' finalize and the gradient hooks).
EvidenceIsTrue == Lane!EvidenceIsTrue

\* What a summary of a run's measurements says was measured, and it is bound to what it was
\* derived from (Telemetry, summarize_run_telemetry and TelemetrySampler.stop).
MeasurementsAreEarned == Measured!MeasurementsAreEarned

\* No pair of a reward gate was trained on (LaneExecution, refuse_degenerate_preference_pairs).
GateIsHeldOut == Lane!GateIsHeldOut
=============================================================================

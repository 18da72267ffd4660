----------------------- MODULE MCEnvironmentsAndInputs -----------------------
(***************************************************************************)
(* What a managed run rests on, in one run: its environment, the packages  *)
(* in it and the wheel of the worker, the probes that ran there, the bytes  *)
(* of its inputs and outputs, or what is known of its model.  They share no *)
(* state; which one moves is chosen initially, the others rest.             *)
(***************************************************************************)
EXTENDS MCEnvironmentManager, Integers, FiniteSets

CONSTANTS FileContents, SomeRows, NoRows, TrainedBytes, all, MaxChanges,
          History, c1, c2, MaxMoves, MaxMeddling,
          t1, t2, t3, Link, Malformed, MaxEdits, ProbeRecipes, MaxReading, MaxFlaws

VARIABLES component,
          lane, supervised, permit, lossy, disk, digests, verdict, at, consumed, outcome,
          restored, changes,
          head, tree, untracked, building, floor, claimed, built, wheel, beside, moves,
          phase, tier, plan, site, litter, reported, inventory, before, lock, state, probed,
          purpose, bound, meddling,
          snapshot, edits, stage, hashWeights, listing, files, complete, config, topology,
          tokenizer, fit, claims, headers, indexed, report, runtime,
          needed, todo, step, toggles, rng, previous, did, taxonomy, sampler, peak, prior, mine,
          measured, highest, late, results, printed, judged, flaws

\* Contents of files: of some of them, all, some or no dataset rows can be rendered.
Run == INSTANCE SealedRun WITH Contents <- FileContents, Trained <- TrainedBytes

ASSUME MCRun == Run!RunAssumption /\ all \in FileContents

Packages == INSTANCE SealedPackages WITH
              Ancestors <- History, at <- building, stray <- litter, seen <- inventory

ASSUME MCPackages == Packages!PackagesAssumption

\* The second commit is made on the first.
TwoCommits == (c1 :> {c1}) @@ (c2 :> {c1, c2})

Probes == INSTANCE ExecutionProbes WITH
            Recipes <- ProbeRecipes, MaxFaults <- MaxFlaws, required <- needed, at <- step,
            payload <- printed, verdict <- judged, faults <- flaws

ASSUME MCProbes == Probes!ProbesAssumption

MathTuple == "cuda_qlora_math_execution"
PagedTuple == "cuda_qlora_flash_liger_paged_execution"

\* Every kind of probe, one complete tuple after the other, and one asked for twice.
AllKinds ==
  {<<"trainer_contract", "cpu_lora_execution">>, <<"cuda_bf16_lora_math_execution", MathTuple>>,
   <<"cuda_int8_qlora_math_execution", "trainer_contract", PagedTuple>>,
   <<MathTuple, PagedTuple>>, <<"checkpoint_reload", MathTuple, MathTuple>>}

\* Two lanes look at the same files in the same order; one of them stands for both.
ASSUME MCPairLanes == Run!ProgramOf["reward"] = Run!ProgramOf["preference"]

-----------------------------------------------------------------------------
(* A model: a snapshot whose config.json, tokenizer.json and weights are   *)
(* the ones that the inspector tells apart.  A configuration is either     *)
(* combined with a tokenizer, or with weights and an index, or is one of a *)
(* family with experts or an odd one; the size of a shard in elements of   *)
(* one width is its number of tensors.                                     *)

NoConfig == [family |-> None, moe |-> None, vocab |-> None, tied |-> None, code |-> FALSE,
             context |-> None, count |-> None]

Dense == [NoConfig EXCEPT !.family = "llama", !.vocab = 2, !.tied = FALSE, !.context = 2,
                          !.count = 3]

Moe(family, layers, routed, shared, topk, freq, dense, prefix) ==
  [Dense EXCEPT !.family = family,
     !.moe = [layers |-> layers, routed |-> routed, shared |-> shared, topk |-> topk,
              freq |-> freq, dense |-> dense, prefix |-> prefix]]

Configs ==
  {[Dense EXCEPT !.code = TRUE], NoConfig, Malformed, [Dense EXCEPT !.family = "other_moe"],
   Moe("mixtral", 2, 2, 0, 1, 0, {}, 0), Moe("mixtral", 2, 2, 0, 3, 0, {}, 0),
   Moe("qwen2_moe", 4, 3, 1, 2, 2, {}, 0), Moe("qwen2_moe", 4, 3, 1, 2, 1, {1}, 0),
   Moe("qwen2_moe", 4, 3, 1, 2, 1, {4}, 0),
   Moe("deepseek_v3", 4, 3, 2, 2, 3, {}, 1), Moe("deepseek_v3", 4, 3, 1, 2, 1, {}, None),
   Moe("deepseek_v3", 4, 3, 0, 2, 1, {}, 4)}

Special(token, id) == [token |-> token, id |-> id]

\* A tokenizer of up to three tokens whose end of sequence is "y" or another special token.
Plain ==
  [vocab |-> ("x" :> 0) @@ ("y" :> 1), pieces |-> {}, added |-> <<>>,
   special |-> {Special("y", None)}, declared |-> None, limit |-> 2, code |-> FALSE]

Sized == [Plain EXCEPT !.vocab = None, !.declared = 2, !.special = {Special("y", 1)}]

\* Among them a list of pieces with a score and an added token under another id, of which the
\* inspector does not see all.
Tokenizers ==
  {Plain, [Plain EXCEPT !.added = "z" :> 2], [Plain EXCEPT !.special = {Special("y", 2)}],
   [Plain EXCEPT !.special = {Special("y", None), Special("z", None)}, !.code = TRUE],
   Sized, [Sized EXCEPT !.declared = 3, !.added = "x" :> 0],
   [Plain EXCEPT !.vocab = <<>>, !.pieces = {0, 1, 2}, !.added = "y" :> 1],
   [Plain EXCEPT !.vocab = ("x" :> 0) @@ ("y" :> 2), !.added = "y" :> 1],
   [Plain EXCEPT !.special = {Special("z", 0 - 1)}]}

Holds(tensors) ==
  [tensors |-> tensors, size |-> IF tensors = Malformed THEN 1 ELSE Cardinality(tensors)]

\* Fewer tensors of a wider type in a file of the same size.
Wide(tensors) == [Holds(tensors) EXCEPT !.size = 3]

Names == {"config", "s1", "s2", "pickle", "index", "tokenizer"}
With(conf, x, y) ==
  [[f \in Names |-> None] EXCEPT !["config"] = conf, !["s1"] = x, !["s2"] = y]

ModelSnapshots ==
  {With(c, None, None) : c \in Configs} \cup
  {[With(Dense, None, None) EXCEPT !["tokenizer"] = t] : t \in Tokenizers} \cup
  {[With([Dense EXCEPT !.tied = TRUE], None, None) EXCEPT !["tokenizer"] = t] :
     t \in {[Plain EXCEPT !.added = "z" :> 2], [Plain EXCEPT !.special = {Special("y", 2)}]}} \cup
  {With(Dense, Holds({t1, t2, t3}), None),
   [With(Dense, Holds({t1, t2, t3}), None) EXCEPT !["pickle"] = "p"],
   [With(Dense, Holds({t1, t2}), Holds({t3})) EXCEPT
      !["index"] = (t1 :> "s1") @@ (t2 :> "s1") @@ (t3 :> "s2")],
   [With(Dense, Holds({t1, t2}), Holds({t2})) EXCEPT
      !["index"] = (t1 :> "s1") @@ (t2 :> "s2")]}

ModelRevisions ==
  [f \in Names |->
     CASE f = "config" -> {None, Link, [Dense EXCEPT !.vocab = 1]}
       [] f = "s1" -> {None, Wide({t1, t2}), Holds(Malformed), Holds({t1, t2, t3})}
       [] f = "tokenizer" -> {None, [Plain EXCEPT !.vocab = "y" :> 0]}
       [] f = "index" -> {None}
       [] OTHER -> {}]

Claim(value, evidence, resolved, window) ==
  [value |-> value, evidence |-> evidence, resolved |-> resolved, window |-> window]

DescriptorEdits ==
  {{}, {Claim(3, "declared", TRUE, "static-model")},
   {Claim(2, "measured", TRUE, "static-model"), Claim(3, "declared", FALSE, "static-model")},
   {Claim(3, "estimated", FALSE, "other"), Claim(1, "unknown", FALSE, "static-model")},
   {Claim(3, "declared", TRUE, "static-model"), Claim(5, "declared", FALSE, "other")}}

Observed(kind, value, window) ==
  [kind |-> kind, value |-> value, scope |-> [id |-> "model", universe |-> "snapshot"],
   window |-> window, evidence |-> "measured", whole |-> TRUE, exact |-> TRUE,
   basis |-> "coordinate_identity", resolved |-> TRUE]

\* What a whole run reports; what is resident is counted on its device.
WholeRun(touched, updated, token) ==
  {Observed("active_token", token, "token"), Observed("active_sequence", 2, "sequence"),
   Observed("touched_window", touched, "run"), Observed("updated_window", updated, "run"),
   Observed("exposed_window", 2, "run"),
   [Observed("resident", 9, "instant") EXCEPT !.scope = [id |-> "gpu", universe |-> "snapshot"]]}

RunStreams ==
  {WholeRun(2, 2, 1), WholeRun(2, 3, 1), WholeRun(4, 2, 1), {Observed("updated_window", 1, "run")}}

Model == INSTANCE ParameterAccounting WITH
           Snapshots <- ModelSnapshots, Revisions <- ModelRevisions, Edits <- DescriptorEdits,
           Streams <- RunStreams, MaxChanges <- MaxEdits, disk <- snapshot, changes <- edits

ASSUME MCModel == Model!AccountingAssumption

-----------------------------------------------------------------------------
modelVars == <<snapshot, edits, stage, hashWeights, listing, files, complete, config, topology,
               tokenizer, fit, claims, headers, indexed, report, runtime>>
runVars == <<lane, supervised, permit, lossy, disk, digests, verdict, at, consumed, outcome,
             restored, changes>>
packageVars == <<head, tree, untracked, building, floor, claimed, built, wheel, beside, moves,
                 phase, tier, plan, site, litter, reported, inventory, before, lock, state,
                 probed, purpose, bound, meddling>>

probeVars == <<needed, todo, step, toggles, rng, previous, did, taxonomy, sampler, peak, prior, mine,
               measured, highest, late, results, printed, judged, flaws>>

EnvironmentStep ==
  /\ component = "environment" /\ Next
  /\ UNCHANGED <<component, runVars, packageVars, modelVars, probeVars>>

RunStep ==
  /\ component = "run" /\ Run!Next
  /\ UNCHANGED <<component, vars, packageVars, modelVars, probeVars>>

PackagesStep ==
  /\ component = "packages" /\ Packages!PackagesNext
  /\ UNCHANGED <<component, vars, runVars, modelVars, probeVars>>

ModelStep ==
  /\ component = "model" /\ Model!AccountingNext
  /\ UNCHANGED <<component, vars, runVars, packageVars, probeVars>>

ProbesStep ==
  /\ component = "probes" /\ Probes!Next
  /\ UNCHANGED <<component, vars, runVars, packageVars, modelVars>>

Over ==
  /\ \/ component = "run" /\ outcome # None
     \/ component = "packages" /\ Packages!PackagesOver
     \/ component = "model" /\ Model!AccountingOver
     \/ component = "probes" /\ Probes!ProbesOver
  /\ UNCHANGED <<component, vars, runVars, packageVars, modelVars, probeVars>>

\* What the other files hold at first does not matter; one content stands for all.  Only two
\* lanes read the truncation policy, and a corpus has no rows to permit; either switch is tried
\* alone, in a supervised run, whose program has all that an unsupervised one does; --hash-weights
\* where there are weights.
InitOf(part) ==
  /\ component = part
  /\ IF part = "model" THEN snapshot \in ModelSnapshots
     ELSE snapshot = With(NoConfig, None, None) /\ hashWeights = FALSE
  /\ IF part = "packages" THEN head = c2
     ELSE head = c1 /\ floor = None /\ wheel = None /\ tier = "standard"
  /\ IF part = "run" THEN disk \in [Run!Files -> FileContents]
     ELSE disk = [f \in Run!Files |-> all]
          /\ lane = "training" /\ supervised = FALSE /\ permit = FALSE /\ lossy = FALSE
  /\ part # "probes" => needed = None /\ todo = CHOOSE recipe \in ProbeRecipes : TRUE
  /\ Init /\ Run!Init /\ Packages!PackagesInit /\ Model!AccountingInit /\ Probes!Init
  /\ \A f \in Run!Files \ {"dataset"} : disk[f] = all
  /\ part # "environment" => ~required
  /\ lossy => lane \in {"training", "full_finetune"} /\ supervised /\ ~permit
  /\ permit => lane # "pretraining" /\ supervised
  /\ hashWeights => snapshot["s1"] # None
  /\ lane # "reward"

RunNext == EnvironmentStep \/ RunStep \/ PackagesStep \/ ModelStep \/ ProbesStep \/ Over

RunSpec ==
  /\ \E part \in {"environment", "run", "packages", "model", "probes"} : InitOf(part)
  /\ [][RunNext]_<<component, vars, runVars, packageVars, modelVars, probeVars>>

\* The packages and the wheel alone.
PackagesSpec ==
  /\ InitOf("packages")
  /\ [][RunNext]_<<component, vars, runVars, packageVars, modelVars, probeVars>>

\* The type of the part that moves.
RunTypeOK ==
  CASE component = "environment" -> TypeOK
    [] component = "run" -> Run!TypeOK
    [] component = "packages" -> Packages!TypeOK
    [] component = "model" -> Model!AccountingTypeOK
    [] component = "probes" -> Probes!TypeOK

\* A run that trains holds exactly the bytes its plan sealed (SealedRun,
\* verify_sealed_dataset_bytes and verify_local_inputs_after_load).
TrainsOnSeal == Run!TrainsOnSeal

\* A success names the weights that were trained (SealedRun, validate_training_success_evidence,
\* _reload_verify_adapter and _admit_terminal_success).
AdmittedIsTrained == Run!AdmittedIsTrained

\* A sealed lock tells what was reviewed, and what is sealed and what a capability report is bound
\* to is what the probes imported (SealedPackages, _validate_creation, _finalize_lock,
\* _create_unlocked and _capability_snapshot_unlocked).
SealIsTrue == Packages!SealIsTrue

\* A tuple that a capability report claims, and one that the manager accepts as evidence, was
\* executed as it says by a probe that left the process as it found it (ExecutionProbes,
\* run_capability_probes and _complete_probe_evidence).
ClaimsAreEarned == Probes!ClaimsAreEarned

\* What inspection and accounting report is true of the contents whose digests they report
\* (ParameterAccounting, build_model_parameter_accounting; docs/PARAMETER_ACCOUNTING.md).
InspectionIsTrue == Model!InspectionIsTrue

\* A wheel that the builder hands out was made from exactly the commit it names (WorkerWheel,
\* build_worker_wheel: "it makes no false source claim possible").
NoFalseClaim == Packages!NoFalseClaim
=============================================================================

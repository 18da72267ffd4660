---------------------------- MODULE SealedLanes ----------------------------
(***************************************************************************)
(* What the lanes of a training run do with files, as sequences of steps:  *)
(* the plan, the run itself with its inputs and outputs, and the admission *)
(* of its success by a supervising parent.                                 *)
(***************************************************************************)
EXTENDS Naturals, Sequences

Files == {"dataset", "weights", "tokenizer", "adapter", "export", "config"}

\* The lanes of build_lane_runner that train, and those of them that export an adapter.
Lanes == {"training", "full_finetune", "pretraining", "preference", "reward", "rollout"}

AdapterLanes == Lanes \ {"full_finetune", "pretraining"}

\* Where a digest is written down: in the plan, in the captured training state, in the success
\* evidence the worker proposes, in the artifact's manifest.
Books == {"sealed", "trained", "proposed", "recorded"}

-----------------------------------------------------------------------------
(* Steps of a program *)

Step(act, file) == [act |-> act, file |-> file, match |-> {}, note |-> {}, keep |-> FALSE]

\* Look at a file: refuse what differs from the books in match, write its digest into note.
Look(file, match, note) ==
  [act |-> "look", file |-> file, match |-> match, note |-> note, keep |-> FALSE]

\* Read a file's content into the run's memory.
Read(file, match) ==
  [act |-> "look", file |-> file, match |-> match, note |-> {}, keep |-> TRUE]

Digest(file) == Look(file, {}, {"sealed"})

Verify(file) == Look(file, {"sealed"}, {})

\* from_pretrained opens the path itself.
Load(file) == Read(file, {})

\* stable_directory_sha256 walks a directory in order of names.
ModelDirectory(match, note) == <<Look("weights", match, note), Look("tokenizer", match, note)>>

-----------------------------------------------------------------------------
(* Inputs *)

\* platform-plan.  A pretraining plan judges no rows; the rollout planner takes the reward
\* adapter's digest from the manifest of the run that made it.
Planning(l) ==
  <<Digest("dataset")>> \o ModelDirectory({}, {"sealed"})
    \o (IF l = "pretraining" THEN <<>> ELSE <<Step("assess", "dataset")>>)
    \o (IF l = "rollout" THEN <<Digest("adapter")>> ELSE <<>>)

\* verify_execution_non_dataset_inputs: the model binding, then the tokenizer binding.
Admission == ModelDirectory({"sealed"}, {}) \o ModelDirectory({"sealed"}, {})

\* Mutant: the hashes from before the load are trusted.
Trusted == <<>>

\* verify_local_inputs_after_load: one hash, as both bindings name one directory.
AfterLoad == ModelDirectory({"sealed"}, {})

LoadModel == <<Load("weights")>> \o AfterLoad

\* The one read of the dataset, whose rows are then formatted with the tokenizer.
Rows == <<Read("dataset", {"sealed"}), Load("tokenizer"), Step("format", "dataset")>>

\* The served reward model: its own load of tokenizer and base, then its adapter, hashed and
\* afterwards opened by the library.
RewardModel == <<Load("tokenizer")>> \o LoadModel \o <<Verify("adapter"), Load("adapter")>>

\* The shards are read without a hash, an imported tokenizer is hashed once it is loaded, and
\* the architecture's configuration is read without a hash.
Corpus == <<Load("dataset"), Load("tokenizer"), Verify("tokenizer"), Load("weights")>>

-----------------------------------------------------------------------------
(* Outputs *)

\* save_pretrained, after the trained state was captured in memory.
Save == <<Step("save", "export"), Step("save", "config")>>

\* The worker's proposal: digests of what the saved files hold now.
Propose == <<Look("export", {}, {"proposed"}), Look("config", {}, {"proposed"})>>

\* build_artifact_manifest: weights, and the configuration of an adapter.
Record(l) ==
  <<Look("export", {}, {"recorded"})>>
    \o (IF l \in AdapterLanes THEN <<Look("config", {}, {"recorded"})>> ELSE <<>>)

\* validate_training_success_evidence: weights and configuration are parsed and compared with
\* the trained state, then with the manifest; what was parsed is the evidence.
ValidateAdapter(match, note) ==
  <<Look("export", {"trained"} \cup match, note),
    Look("config", {"trained", "recorded"} \cup match, note), Look("export", {"recorded"}, {})>>

\* Mutant: the saved file is only compared with the digest that the worker proposed.
ReloadDigests == <<Look("export", {"proposed"}, {}), Look("config", {"proposed"}, {})>>

\* _reload_verify_adapter and _reload_verify_full_model: two hashes, then a load of its own.
ReloadVerify == <<Look("export", {"proposed"}, {}), Look("config", {"proposed"}, {}),
                  Look("export", {"trained"}, {})>>

\* _admit_terminal_success of the parent: the hash of the manifest, then the lane's evidence
\* once more.
AdmitTerminalSuccess(l) ==
  <<Look("export", {"recorded"}, {})>>
    \o IF l = "training" THEN ValidateAdapter({"proposed"}, {})
       ELSE <<Look("config", IF l \in AdapterLanes THEN {"recorded", "proposed"}
                             ELSE {"proposed"}, {}),
              Look("export", {"proposed", "trained"}, {})>>

-----------------------------------------------------------------------------
(* The lanes *)

Trains == <<Step("train", "export")>>

\* TrainingRunner and run_training.
TrainingLane == Admission \o Rows \o LoadModel \o Trains \o Save \o Record("training")
                  \o ValidateAdapter({}, {"proposed"})

\* The other runners: the lane's worker proposes its evidence, and another load verifies it.
Runner(l, inputs) == inputs \o Trains \o Save \o Propose \o Record(l) \o ReloadVerify

\* run_full_finetune.
FullFinetuneLane == Runner("full_finetune", Admission \o Rows \o LoadModel)

\* run_pretraining.
PretrainingLane == Runner("pretraining", Corpus)

\* run_preference.
PreferenceLane == Runner("preference", Admission \o Rows \o LoadModel)

\* run_reward: pairs like those of the preference lane.
RewardLane == Runner("reward", Admission \o Rows \o LoadModel)

\* run_rollout: the reward model is loaded before the policy.
RolloutLane == Runner("rollout", Admission \o Rows \o RewardModel \o LoadModel)

LaneRun == [training |-> TrainingLane, full_finetune |-> FullFinetuneLane,
            pretraining |-> PretrainingLane, preference |-> PreferenceLane,
            reward |-> RewardLane, rollout |-> RolloutLane]

ProgramOf == [l \in Lanes |-> [s \in BOOLEAN |->
                Planning(l) \o LaneRun[l] \o (IF s THEN AdmitTerminalSuccess(l) ELSE <<>>)]]
=============================================================================

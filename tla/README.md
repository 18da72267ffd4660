# Formal models of Corpus Studio

TLA+ models of the parts of Corpus Studio that keep durable state or run
concurrently, the TLC configurations that check them on small instances, and
TLAPS proofs of what they promise for every instance. All source paths below
are relative to `engine/corpus_studio/`.

## The system

Corpus Studio is a local engine without a server: every operation is a CLI
process that works on files of a project directory and ends. Several such
processes, the threads of a supervising process, training workers and crashes
interleave; files, locks and a pipe are all they share.

| Component | State | Operations | What is hard |
| --- | --- | --- | --- |
| dataset writer, `storage/examples_writer.py` and the `examples-*`, `import-commit`, `dataset-version-restore` commands | `examples.jsonl`, its `.lock` | append, delete, edit, clean, import, in-place restore | lost updates, an overwrite whose undo does not hold |
| dataset versions, `versions/` | the content-addressed row store, one row manifest and one record per version, the version-store lock | capture, publish, reconstruct, garbage collection | crash between manifest and record, failing flush, torn last line, a prune that meets a publication |
| file lock, `storage/file_lock.py` | an RLock per process and path, an OS lock per file, a thread-local set of held paths | enter, re-enter, leave, time out, fail | two levels, re-entry, every exit path has something else to give back |
| training run records, `training/run_registry.py` | one JSON file per run | create, update, reconcile on list, stamp with a dataset version | load-decide-save without a lock, one temporary name |
| run supervision, `platform/subprocess_supervisor.py`, `worker.py`, `worker_protocol.py`, `process_control.py` | the worker process, its pipe, two deadlines, `RunManifest.json`, artifact manifests, `RunEvents.jsonl`, the observer | spawn, handshake, read loop, admit, terminate, persist, announce | hanging, dying and lying workers; a write that fails after success |
| in-process supervisor, `platform/supervisor.py` | the same record, written in one process | `execute_run` | the same durable order without a pipe |
| checkpoints, `training/checkpoint_io.py`, `platform/checkpoint.py` | checkpoint directories of a run | save, prune, verify, restore | a crash between seal, rename and prune |
| managed environments, `platform/environment_manager.py` | environment directories, descriptors, installations, locks, health | create, health, remove, recreate | a long sequence of durable transitions, a lease against mutation |
| watchdog and telemetry, `platform/watchdog.py`, `platform/telemetry.py` | last beat, stall flags, peak; the window of the run, the series of samples, the summary | beat, poll, sample, stop, summarize | beats race polls; a sample is labelled after it was read; a thread outlives its stop |
| artifact registry, `training/artifact_registry.py` | one JSON file per artifact | register, update status | as run records |
| sealed inputs, `platform/execution_config.py`, `training/sealed_inputs.py`, `training/sealed_loader.py` | none; digests in plan and evidence | hash, read, load, hash again | files that change between two looks |
| capability probes, `platform/probes.py` | the probing process's attention settings, random state and sampling thread; the report | load, train one step, save, restore, report, accept | what a library did must show; a probe inherits what the one before left |
| planning, `platform/planner.py`, `platform/execution_variants.py` | one sealed plan | resolve, seal | a plan composed of parts that were proven apart, and carried out much later |
| training lanes, `training/*_trainer.py`, `*_worker.py`, `*_tracker.py`, `platform/runners.py` | the run under way | admit, load, train, measure, export, propose | what each lane refuses or ignores of its plan; evidence over libraries that are not trusted |
| environment recipes and packages, `platform/environments.py`, `package_lock.py`, `build_provenance.py` | the wheel, site-packages, inventories, the sealed lock | build the wheel, review, install, inventory, probe, seal, check again | a review of what is installed much later, a directory that others can write |
| model inspection, `platform/model_inspector.py`, `moe_inspector.py`, `parameter_accounting.py` | none; descriptor and report | walk, hash, read, compare, reconcile | files read one after the other while a download goes on; claims against measurements |
| estimation, contracts (`platform/*`) | none | build and validate documents | none: pure functions |
| quality, gates, validators, splitters, cleaners, exporters, reports | none | text in, report out | none: pure functions |
| model backends, evaluation, suites, arena, AI assist | none beyond a report file | call a model, write a report | a bounded retry |
| `apps/web` | user interface state | runs the CLI | outside these models |

The components meet as follows. Dataset commands take the writer lock of
`examples.jsonl` (tried once) and then the version-store lock (`FileLock`, a
bounded wait); a collection and a plain capture take only the second. A capture
appends rows to the store, then writes the manifest, then the record, which is
the commit point. `dataset-version-create --stamp-run` links the version to a
run record. A training run is a worker process that the supervisor spawns,
feeds one dispatch and reads until a terminal result; only the supervisor
writes the run's durable record. Without a supervisor process,
`execute_run` does all this in one process, with a watchdog thread beside the
training thread. A plan is made from the capabilities that probes have shown on
the host, pins the digests of its inputs and, for a managed run, the lock of its
environment; the lane that carries it out looks at all of them again. The
environment was installed from a reviewed resolution and the worker's wheel;
the model was inspected, and its parameters counted, before it was planned for.

## Modules

| Module | Models | Abstract counterpart |
| --- | --- | --- |
| `VersionStore` | dataset writer and dataset versions together, because their correctness is about both | `DatasetHistory` |
| `FileLock` | `exclusive_file_lock` | `ExclusiveLock` |
| `RunRegistry` | one training run record and its commands | - |
| `RunSupervisor` | one supervised run: parent, worker, pipe, durable record | - |
| `TrainingRun` | adapter runs in the in-process supervisor, their checkpoints and the runs that resume from them | - |
| `Watchdog` | the watchdog of a training run and what the run reports of it | - |
| `Telemetry` | the sampling thread of a run, the windows its samples belong to, and the summary derived from the raw files | - |
| `EnvironmentManager` | one managed environment under concurrent commands and crashes | - |
| `ArtifactRegistry` | one artifact record, the promote gate, concurrent commands | - |
| `StableRead` | one read of a sealed input, system call by system call | `AtomicRead` |
| `SealedLanes`, `SealedRun` | every look of plan, run and admission at the bytes of inputs and outputs, in each lane | - |
| `ExecutionProbes` | the process that runs the probes of an environment, its report, and whether the manager accepts it as evidence | - |
| `SealedPlan` | what probes prove, planner, drift of the installation, and the lane that carries a plan out | - |
| `LaneExecution` | what happens inside a sealed run in each of six lanes, and what its success evidence says of it | - |
| `WorkerWheel`, `SealedPackages` | the build of the worker's wheel; the packages of a managed environment from review to sealed lock and later checks | - |
| `ModelInspection`, `ParameterAccounting` | the inspection of a snapshot directory; the report on its parameters and on a run's | - |
| `VersionStoreProofs`, `EnvironmentManagerProofs`, `SealedPlanProofs`, `TrainingRunProofs` | theorems about the module they are named for | |
| `PartsProofs` | theorems about `FileLock`, and about `Watchdog`, `RunRegistry`, `StableRead` and `RunSupervisor` in the composition of `MCParts` | |
| `TrainingOutputsProofs` | theorems about `ArtifactRegistry`, `LaneExecution` and `Telemetry`, in the composition of `MCTrainingOutputs` | |
| `EnvironmentsProofs` | theorems about `SealedRun`, in the composition of `MCEnvironmentsAndInputs` | |
| `EvidenceProofs` | theorems about `SealedPackages` with `WorkerWheel`, `ExecutionProbes` and `ParameterAccounting` with `ModelInspection`, in the same composition | |

The modules named `MC...` are instances for TLC. Three of them put components
that share no state into one run: `MCParts` (file lock, watchdog, run records,
one read, one supervised run), `MCEnvironmentsAndInputs` (an environment, its
packages with the wheel, its probes, the files of a run, or a model's inspection
and accounting) and `MCTrainingOutputs` (training runs, artifact registry, planner,
the execution of one lane, the measurements of a run). A variable
`component`, chosen initially, says which of them moves; the others rest in
their initial state, so that the state space is the sum of the parts and not
their product, and a property of a part is checked in all of that part's states.

Operators named "Faulty variant" or "Mutant" are plausible bugs in the operator
below them. No specification uses them; each property is shown to fail when one
of them takes its operator's place.

### VersionStore

Lines of `examples.jsonl` are rows (model values), or `Malformed`; lines of the
row store are rows or `Torn`. Row ids are identified with rows, because an id is
the hash of the row. `tailOpen` says that the store's last line lacks its
newline: whatever is appended next is glued to it. A process runs one command
of `Operations`; its `pc` names the place between two file operations:

- `StartAppend`, `StartMutate` (delete, edit, clean), `StartRestore`,
  `StartImport`, `StartStoreOnly` are the commands up to their first lock. The
  restore rebuilds its lines before it holds any lock, as the code does.
- `AcquireStore` or `StoreBusy` is the bounded wait for the version-store lock.
- `TerminateTail`, `ScanAndRead`, `Spill`, `FlushFails`, `CloseStore`,
  `Rollback` and `CaptureReturns` are `_capture_pass`. Rows go into the handle's
  buffer (`buf`) and reach the disk line by line or half a line at a time
  (`Spill`), at any moment up to the final flush. When flush or fsync raises,
  `close()` is skipped, so that the rollback's truncation comes first and the
  handle's destructor flushes afterwards (`late_flush`).
- `SaveManifest` and `SaveRecord` are the publication; `FingerprintOnly` is
  `--no-store-rows`, which takes no lock.
- `VerifyUndo`, `RefuseUndo` and `Replace` are the verified undo before an
  overwrite; `ScanManifests`, `RefuseScan` and `SwapStore` the collection.
- `Crash` ends a process between any two of these steps; `TearManifest` is
  damage from outside that the collection allows for.

Each atomic file replacement (`os.replace` after a temporary with a unique name)
is one step.

`DatasetHistory` forgets files, locks and processes: contents only grow unless a
restorable version holds them, and a restorable version stays for ever. The
refinement maps `history` to the versions that are published and complete in
the store.

### FileLock

`owner` and `depth` are the process's RLock, `flock` is the stream that has the
OS lock, `held` the thread-local set. The `with` body is the value "body" of
`pc`; its end, normal or not, is `LeaveNested` or `LeaveOutermost`. A time-out
is a step that is possible whenever the lock is not free. After the explicit
unlock of `LeaveOutermost`, which may fail silently, closing the stream unlocks
in any case. `ExclusiveLock` is a holder or nobody.

### RunRegistry

The record file, the temporary file and what each process has open: a process
that opened the temporary name keeps writing into that file when another process
has renamed it to the record (`fd`). Overwriting a file that another process
filled meanwhile may leave a mixture (`Overwritten`). `failed` and `cancelled`
behave as `succeeded` does and are left out. `overlap` is a history variable: it
records that two commands have been under way at once.

### RunSupervisor

The worker (`worker`, `seq`) sends messages into `pipe`; the parent's `pc` walks
through `execute_run_subprocess`. Deadlines are counted in ticks left.
`recording` (a record directory was given) and `resolved` (the plan has a
training preflight) are chosen initially. `ok` stands for everything the codec
and the correlation, run-id, plan and backend checks decide, `proven` for the
re-verification of a success by `_admit_terminal_success`. `WorkerDrifts` lets a
worker send any message at all. `Fault` bounds failing writes: of the event log,
the artifact manifests, the run manifest and its retry, and a failing spawn.

### TrainingRun

Each run is a process that executes one plan: `Dispatch`, `Open` and `Admit`
(the dispatch, `execute_run` up to the runner, the runner's own checks), `Load`,
`VerifyParent` and `Restore` (the model and the checkpoint it resumes from),
`TrainBegin` and `TrainStep` (the trainer's callbacks), `SaveCheckpoint`,
`Publish`, `Prune`, `Unlink` and `Log` (one checkpoint: the sealed temporary
directory, its rename, the pruning in two steps, the event), `Finish`, `Export`
and `Validate` (the evidence gates), `PersistArtifact`, `Promote`, `Reverify`
and `Rehash` (admission of the success), `RecordVerdict`, `RetryRecord`,
`EmitTerminal` and `RewriteNote` (the durable end). `Cancel` and `Crash` come at
any moment. Weights are the sequence of steps that made them, so that a
repeated, skipped or foreign step shows. `disk` outlives the run; a crash leaves
whatever directories were there, and another run may resume from any checkpoint
that verifies, while its owner prunes it.

### Watchdog

The training thread beats and samples; the poller samples, folds the sample into
the peak, and decides about a stall under the lock but calls `on_stall` after
it. At the end the runner sets the stop event, joins for a bounded time and
reads flags and peak. Each lock region is one step.

### Telemetry

`Setup`, `Step`, `End`, `Terminal` and `Return` are the supervisor as far as it moves
the window (`window`, `current`) and writes events and manifest; `Check`, `Open` and
`Record` the sampling thread, whose probe lies between the last two; `Stop`, `Join`
and `Close` are `stop()`, whose wait may end before the thread does; `Parse`, `Bind`
and `Publish` the summary, for which the files are read twice; `Rederive` is
`telemetry-summarize`. `torn` names the files whose last line is half written. An
energy is the area under the readings over the intervals between the times it is
asked for, counted as a set (`Joules`), so that the energy of a window is a subset of
the run's.
`MeasurementsAreEarned` says that a summary is bound to what it was derived from,
that a sample carries a foreign label only where a window begins, that what is
offered to the paper was measured, and that a command that ends well has its
summary. Not modelled: statistics other than energy, the cadence, the renderings.

What the code does otherwise than a document says, seen while this was modelled and
not given a run of its own: in a run with a worker process the terminal event
reaches neither `RunEvents.jsonl` nor the sampler (`subprocess_supervisor.py`
690-694, 828-845), so that the measured window extends to the sampler's stop, while
`docs/MEASUREMENT_HARNESS.md:32` counts the terminal among the stream's events;
`run_joules` integrates the samples of the baseline, which
`research/ieee-linux-training/METRICS.md:11` excludes; a driver that answers without
a value for a field is not named on the sample (`contracts.py:6822-6825`); and
`telemetry-summarize`, "idempotent" in `docs/MEASUREMENT_HARNESS.md:91`, replaces a
complete summary by one without the worker's lineage.

### EnvironmentManager

A process runs one of `Operations`. Its `pc` walks through the durable
transitions of `create`, `recreate`, `remove`, `health`, the capability snapshot
and the managed run, under `manager.lock` and then the environment's lease
(`manager`, `lease`); the descriptor, the lock files, the journal of
installations, the health record and the directory with its owner marker are
variables of their own because a crash can leave any prefix of them. `Outside`
is what others do to the directory, the packages or the review at any moment;
`Crash` and `WriteRaises` are a dying process and a failing write; an install
command may outlive its process (`stray`, `StrayEnds`). Probes and package
resolution are verdicts, chosen freely among those the code tells apart.

### ArtifactRegistry

`Register` and `Update` load, compute and save without a lock; `Promote` loads,
checks integrity, gates, loads again and saves. Weights and linked evaluations
may be anything at each reading.

### StableRead

`lstat`, `open`, `fstat`, one `read` per block, `fstat`, `lstat`, compare: one
action each. Whoever else has the file rewrites it in place, appends, replaces
or removes it between any two. The refinement maps `result` to the version read,
if any: what is returned was the whole file at one moment.

### SealedLanes and SealedRun

`SealedLanes` writes each lane as a sequence of looks, reads, loads, saves and
hand-overs, in the order of its code; `SealedRun` executes such a program while
others change files. A look compares a file with the digests in some books
(`sealed`, `trained`, `proposed`, `recorded`) or writes one. Model directories
are two files looked at one after the other.

### ExecutionProbes

One process runs a recipe's probes in order (`todo`, `at`). `Diagnose` is a probe
of one operation; the others `Begin`, `Load`, `Train` and `Save`, with what each
kind demands in `LoadAccepted`, `StepAccepted` and `SaveAccepted`, and end in a
taxonomy. An nf4 probe also forces one attention kernel for the whole process
(`toggles`), measures with a thread (`SamplerReads` and `SamplerStores` are the two
halves of its update of the shared peak; `Stop`, `Own`, `Merge` and `Take` are
`_memory_evidence`), and restores the process afterwards (`Restore`), which can
turn a pass into a failure. `did` is what really happened, of which the probe sees
only what its checks look at. `Report` prints the report, `Garble` is a report put
together by another version, `Judge` the manager's acceptance. The three memory
readings are one, packages and timings are left out, and the outcomes that only
differ in their wording are one.

### SealedPlan

`Executed` lists the tuple that each execution probe trains, `Isolated` the
values an ability probe adds, and `Proven` is their union. `Sealable` is the
conjunction of the planner's refusals, in named parts, `Resolved` what it makes
of the "auto" choices, and `Sealed` the plan. `InstallationChanges` is what may
happen until `RunLane`, which refuses (`Executable`) or trains (`Trains`, with
what the lane's worker leaves out of its plan: the cadence and the schedule of a
preference plan, among others).

### LaneExecution

Six lanes: training, preference, reward, rollout, full fine-tune, pretraining. A
tensor has a value, a place (sealed, recast, elsewhere) and whether it trains; a
row is the lengths of its parts and the pair it states. `TakeRows` judges the
rows and, in two lanes, holds some out; `LoadModel`, `Attach` and `Construct` lead
up to the Trainer, and put a hook on every trainable tensor; `Begin` notes values
and optimizer groups. `Microbatch`, `Report` and `Update` are one optimizer step,
in a Trainer's loop that calls back or in a loop of the lane's own, whose records
`Replay` gives to the tracker afterwards. `Finalize` compares and proposes, `Save`
exports, `RewardGate` and `RolloutGate` measure on the rows held out, and `Admit`
recomputes the exported state from the file; `Fail` is any of their refusals. The
libraries are not trusted: where code of theirs runs, a tensor may be recast,
moved, replaced, frozen or unfrozen (`Disturbances`), and between two steps the
loop may change the optimizer, stop early, lose a callback or a log, or produce
what is not finite. `EvidenceIsTrue` says that
none of this can be admitted as something it was not. Not modelled: the precision
of the optimizer's state, a Trainer that copies the whole model, throughput.

### WorkerWheel and SealedPackages

`WorkerWheel` has one action per step of `build-worker-wheel`: it resolves `HEAD`,
looks whether the checkout is clean, prepares the destination, lets pip build,
looks at the checkout again, stamps the wheel, copies the provenance beside it and
applies the check of admission; between any two others edit tracked files, add
untracked ones or check out another commit. `SealedPackages` goes on
with the wheel: the resolution is reviewed, each of pip's install commands
reports what it installed, the inventories before and after the probes are taken
by package and by file, the lock is sealed, and health, the capability snapshot
and a managed run compare the inventory with the lock again. Others replace the
wheel, alter or remove an installed package with or without its `RECORD`, or
leave a file that no `RECORD` names. What a tier does not check (the standard
tier has no wheel and no review) is part of the model.

### ModelInspection and ParameterAccounting

The inspector lists a directory (`ListFiles`), hashes or skips one file after the
other (`RecordFile`), and reads `config.json` and `tokenizer.json` again afterwards
(`DescribeModel`, `HashTokenizer`, `DescribeTokenizer`); others may change one file
in between. `Topology` is what the configuration says of experts in the families
that are known, `Compatibility` whether each token id has an embedding row. A
tokenizer is what `tokenizer.json` holds: a vocabulary by token (or none), the pieces
of a list with scores, which the inspector skips, the added tokens, which take the
place of vocabulary tokens (`Ids`), the special tokens with an id of their own or
their token's (`Known`), the declared size, which counts only without a vocabulary
(`Base`, `Effective`), and whether it comes with code. The
accountant takes the descriptor's counts, which may have been edited, opens the
header of each weight file if it is still the file of the inventory (`Readable`),
compares the headers with the index, and seals
observations, gaps and conflicts; `Reconcile` adds what a run's events
carry. `InspectionIsTrue` says that a complete snapshot digest names the
configuration that was described, that tokenizer and topology fit what they are
said to fit, that a count is that of the hashed weights, that a run's report does
not settle a conflict of the model's, and that a complete one counts nothing of a
run above a total of the same scope. That is the rule of
`docs/PARAMETER_ACCOUNTING.md:89-90`, for "a comparable dynamic count": two declared
totals of different windows are not compared, and a report that carries both can be
complete (one of the edited descriptors declares two such totals). Its exceptions are those of the
code: when `config.json` disappears after it was hashed, it is read as empty; and
the fit is about every id that the tokenizer can produce only if the inspector sees them
all (`Countable`). Of a list of `[piece, score]` pairs, as Unigram tokenizers have it, it
counts no id and takes 0 for the base size (`model_inspector.py:758-766`), and a vocabulary id
whose token is added under another id is gone (778): such a tokenizer can be called
compatible with ids beyond the rows, and the property holds of the ids that are seen. Not
modelled: licences, attention types, trust notes, other weight formats. A
reconciled report carries no gap of the model's own report, although
`docs/PARAMETER_ACCOUNTING.md` (102-103) asks for every gap; `RunIsConsistent` is about conflicts and
counts only.

## Runs

| Run | Configuration | Question |
| --- | --- | --- |
| `store` | `VersionStore.cfg` | Does any interleaving of all commands, with two faults, lose a published row or an unversioned row, break the abstract history, or keep a lock? |
| `failed_capture` | `FailedCapture.cfg` | Does a failed capture leave nothing on disk? It does not |
| `import_undo` | `ImportUndo.cfg` | Is every import undoable? It is not |
| `parts` | `Parts.cfg` | The lock excludes, leaks nothing, waits boundedly; the watchdog reports honestly and signals a hang; run records stay whole, terminal and stamped while commands do not overlap; a read is atomic; a supervised run succeeds only as proven, tells everybody the same, in order, and leaves no orphan; reads and runs end |
| `stale_record` | `StaleRecord.cfg` | Does a terminal state stay when commands overlap? It does not |
| `environments` | `EnvironmentsAndInputs.cfg` | Seals are immutable and durable and a managed run holds what was planned; what is sealed was reviewed and is what was probed; a run of any lane trains on sealed bytes and admits what it trained; what inspection and accounting report is true; a tuple that a capability report claims was executed, by a probe that left the process as it found it |
| `false_claim` | `FalseClaim.cfg` | Does a wheel always come from the commit it names? Not when the checkout moves during the build |
| `training_outputs` | `TrainingOutputs.cfg` | Checkpoints are exact, success is exact lineage, verdicts agree; what becomes kept was gated; what trains was proven together, is what was asked, and a sealed plan is carried out; no lane's evidence is admitted of a training that was not so; what a run's measurements claim was measured |
| `unlisted_checkpoints` | `UnlistedCheckpoints.cfg` | Does a run's record list the checkpoints it sealed? Not when it failed |
| `planned_rows` | `PlannedRows.cfg` | Do the compatible rows of an accepted dataset train? The worker refuses them |
| `sealed_settings` | `SealedSettings.cfg` | Does every worker apply what its plan seals? A preference plan sealed with a linear schedule trains at a constant rate |
| `gate_is_held_out` | `GateIsHeldOut.cfg` | Is the reward gate measured on pairs that were not trained on? Not when the dataset states a pair twice |

The eight runs that end in a violation state sentences of the repository; each
is listed under "findings" of `PROJECT.json` with the line that says it.

### Bounds

- `store`: two processes, because every hazard listed is between two actors (a
  third adds only another victim); `MaxRows` = 2 with one row, so that a dataset
  can grow, shrink and hold a duplicate; two version ids, an undo and one more
  publication; `MaxFaults` = 2, a fault and a second one during its recovery (a
  failed flush, then a failed truncation; a torn tail, then a failed repair).
  The two violations use two rows. What one row cannot show, a row lost while
  another stays, is what the theorems prove for any rows.
- `parts`: `MaxNesting` = 3 with two processes of two threads is contention at
  both levels of the lock, and a re-entry inside a re-entry. The watchdog's
  timeout of two ticks allows a beat in time, one late, and silence. Run records
  have one snapshot and one fault: a crash leaves its temporary file behind for a
  later save. A read has five versions, one more than the reader's two
  identities, the open file and the path can tell apart, and two blocks.
- The supervised run of `parts`: two events, two preflight ticks, one silence
  tick, one drifting message and one failing write: an event can repeat or come
  after the terminal event, and preflight can be announced twice. That a write
  fails together with its retry was checked on a larger instance (two faults, 335
  thousand states), and is covered by the theorems. The pipe holds one message: the parent takes one message between
  two looks at its deadlines, and a longer pipe only delays the rest.
- `environments`: two processes, two package sets, one fault or crash (a larger
  instance with two, 6.0 million states, was checked as well). The files of a
  run have three contents, of which all, some or no rows can be rendered, and
  change twice: away and back, or twice away, in any place. The reward lane has the
  preference lane's program (an assumption that TLC evaluates) and is represented
  by it; each of the two switches (`--allow-unrenderable-rows`, a lossy truncation
  policy) is tried alone, in a supervised run, in the lanes that read it. The files other than
  the dataset start with one content, which is named by symmetry (an instance in
  which every file starts with any content and changes once was checked as well). The
  packages have two commits, one move of the checkout and one meddling with the
  environment (two meddlings without a move, 12.2 million states, were checked as
  well). A model has two shards of at most three tensors, a snapshot, tokenizer or
  expert configuration for each case that the inspector tells apart (among the
  tokenizers a list of pieces, an added token that overrides one, a declared size,
  special tokens with and without an id), `--hash-weights` where there are weights, and one
  change by others (`MaxEdits`); the descriptor may be edited in five ways and a run's events
  agree, exceed or contradict. The probes' recipes have one of each kind, complete
  tuples one after the other, and one asked for twice; readings are 1 or 2, and the
  training stack misbehaves once (two faults, 714 thousand states, were checked as well).
- `training_outputs`: two steps with a checkpoint at each, of which one is kept,
  so that the second save prunes the first; two runs, each of which may be the
  other's parent; one fault or crash (three steps, of which one or two are kept,
  2.2 million states, were checked as well, with the invariant of the proof).
  Two processes and two weights of an artifact. A lane makes two optimizer steps
  of one microbatch on rows of one and of two tokens, of which one repeats a pair
  and one is degenerate, with two interferences of the libraries: one that does
  harm and one that hides it. A measured run has three steps, of which one is the
  warm-up, two samples, a host whose driver answers and one whose does not, one fault,
  and is called in four ways (two faults and three samples, 4.7 million states, were
  checked as well); that energies of adjacent windows add up is an assumption that
  TLC evaluates over all series of up to four readings. For the planner, seven hosts from
  none to every probe, with and without bitsandbytes, flash kernels and native
  Windows; every combination of task, objective, adapter, quantization,
  attention, fused loss and optimizer in an otherwise usual request, and every
  other switch with all the combinations it can meet.
- Processes, rows, version ids, runs, weights and package sets are
  interchangeable in the initial states and the actions, so the safety runs use
  symmetry; runs with a liveness property do not.

Bounds on sequences that the code leaves open (`MaxRows`, `MaxNesting`,
`MaxPipe`, ...) are guards of the actions and are named in the modules.
`CHECK_DEADLOCK FALSE` stands in the runs whose system really ends: a run, a
plan carried out, a supervision that is over.

### Fairness

- `VersionStore`: weak fairness of `Running(p)`. A command in a process that is
  scheduled goes on; no code waits without a deadline. Nobody has to start a
  command, and faults are not fair.
- `FileLock`: weak fairness of the steps of the lock itself (`Entering`), not of
  the caller: a holder may stay in its body for ever, and waiters must still get
  out by their deadline.
- `RunSupervisor`: weak fairness of the parent's steps and of time. Nothing is
  assumed of the worker.
- `Watchdog`: weak fairness of the poller and of time; the sampler is assumed to
  return or to raise. Nothing is assumed of the training thread.
- `StableRead`: weak fairness of the reader: its system calls return.

## Proofs

The theorems hold for every value of the constants that satisfies the named
assumptions: any threads, processes, rows and version ids, any bounds.

`PartsProofs` (from `FileLockAssumption`) proves for the file lock `TypeOK`, `MutualExclusion`,
`HeldMeansLocked`, `NothingLeaks` and the refinement of `ExclusiveLock`. Mutual
exclusion is not inductive: four records say who holds the lock, and each action
changes some of them. The invariant `Inv` ties them together: a thread's path is
in `held` exactly while it is in some with-body, and then it has the OS lock and a
stream; only a thread in a body or about to close has the OS lock (`BodyInv`);
the owner of the RLock is the thread with a body or between entering and leaving
one, and `depth` is the number of its bodies plus that one (`RLockInv`); a free
RLock has depth zero (`FreeInv`). One step per action shows that it is kept.

`VersionStoreProofs` (from `ConstantsAssumption`) proves `TypeOK`, one lemma per
group of actions. Facts on sequences (the elements of a truncated or extended
sequence, the first element that a condition excludes) are lemmas of
this module; the set behind `ToSet` and the folds of the
library are never expanded anywhere else.

It proves `PublishedRowsKept` next, and on the way that the
version-store lock excludes (`OneInStore`). The inductive invariant `IInv` is
the conjunction of

- `LockInv`: whoever is inside the store's critical section owns its lock;
- `FilesInv`: `PublishedRowsKept`, and the manifest of a published version is a
  prefix of its content (damage cuts it, nothing else changes it);
- `TailInv`: a process that scans the store has closed its last line; as long as
  rows are in a handle's buffer, an open last line is the half of the row that is
  next to be written, and lies beyond the size to which a rollback truncates, so
  nothing is ever glued onto a line of somebody else;
- `AnchorInv`: the part of the store up to that size holds every published row,
  so truncating never cuts one;
- `CapInv`: every row of a capture that succeeds is in the store or in its buffer,
  and at publication in the store; a process that rolls back publishes no rows;
- `GcInv`: the rows a collection keeps cover every published version.

Each is needed: a publication depends on `CapInv`, a failing capture on
`AnchorInv`, a collection on `GcInv`, and all on `LockInv`. One lemma per group
of actions (outside the store, scan, spill, flush, publish, collect, tear) shows
that the conjunction is kept; `SafeStep` puts them together. TLC checked `IInv`
on the bounds of `store` before it was proved; so it did
`UInv`, the invariant of the next proof.

Last come `NoRowLostWithoutVersion` and the proof that `VersionStore`
implements `DatasetHistory`. `IInv` says nothing of what a command knows about
`examples.jsonl` while it works on it, so `UInv` adds, for each process:

- `OpInv`: the place in the command tells the command, and whoever is past the
  point where its command takes the writer lock has it, so that nobody else
  changes `examples.jsonl`;
- `IdInv`: a version id is in the hands of one process only, so that nobody else
  writes its record;
- `UndoInv`: an append's lines are still those of the file; a capture that could
  read the file has what it still holds; the record of the undo version has it,
  too; and once the undo is verified that record says its rows are stored (or the
  dataset is empty and there is nothing to lose).

`ContentsStep` and `RecordStep` say what any step does to `examples.jsonl` and to
the records, and the two theorems follow: an appended line is an `Extend`, a
verified overwrite an `Overwrite`, the record of a stored version a `Publish`,
and everything else stutters. `PublishedRowsKept` is what makes every published
version a restorable one.

`EnvironmentManagerProofs` (from `EnvironmentAssumption`) proves `SealIsDurable`,
`RunsWhatWasPlanned`, that no step rewrites a sealed lock file (`SealImmutable`,
theorem `SealsStay`), `SettledRecords` and `ForeignKept`. The first three are about
what a process believes after many of its own steps, so the invariant is local:
`Local(p)` says for every place of a command who holds the lease (`HoldInv`), what
is sealed (`SealInv`), which records exist (`RecordInv`), what the process has
learnt about the directory (`KnownInv`) and what a run is about to use (`RunInv`).
It is inductive because only one process is past the two locks (`OthersRest`), and
because a process that is not there knows nothing that could become wrong
(`Outsiders`). One lemma per action shows that the step of a process keeps its own
`Local(p)`. Two more invariants rest on it. `SInv` follows the verdict: the records
are settled wherever a command has not written yet, the verdict it carries is a
final one, and between its last two writes descriptor or health already tell it;
as the lease always belongs to somebody past the locks, a free lease means settled
records. `FInv` follows the directory from its creation to its marker and through
its removal: what the manager writes into or deletes is what it made. Both were
checked by TLC on the bounds of `environments` (`SInv` with two faults, 6.0
million states).

`TrainingRunProofs` (from `TrainingAssumption` and `NoneAssumption`) proves
`ExactCheckpoints`, `SuccessIsExactLineage`, `VerdictsAgree` and `ResumePointKept`
for any number of runs that resume from each other. What a run restores is another
run's checkpoint, so the exactness of all checkpoints (`TraceInv`) has to be part
of the invariant of each; it needs to know that the coordinator's list and the
directories agree (`WrittenInv`), or pruning could remove the newest one. The
change gate is `LearnedInv`: what is flagged as moved is a step of this run. The
verdicts need that the manifest is written at most once and from what was
classified (`VerdictInv`), and what it lists is on disk (`ListedInv`). A run's step
leaves the other runs alone (`OthersSame`), but a checkpoint that one run
verifies may be pruned by its owner before it is copied: the copy is taken as it is
on disk at that moment, and is exact or not there.

The rest of `PartsProofs` (from `PartsAssumption`, the assumptions of the parts) is about the
composition that the run `parts` checks. `MCParts` gives each component variables
of its own and lets one move; `OnePart` shows that each component takes one of its
steps or rests, so an invariant of a component is one of the whole. The
components' own invariants are:

- `MeasuredInv` (`Watchdog`): the spill flag is the peak's, and once the poller has
  ended nothing the report reads changes any more; with the poller still alive
  fit and warning may disagree, which is why `FitIsHonest` asks for `joined`.
- `AloneInv` (`RunRegistry`): while no two commands overlap, the one under way
  knows the record it loaded and owns the temporary file; `HoldingInv` is what
  holds even with overlaps. The leftovers of a crashed save are harmless because
  the next save truncates the file it opens.
- `SeenInv` (`StableRead`): a block read from another version than the one opened
  shows in the identity of the handle, because no identity that the reader
  remembers is written again. With it every step maps to a step of `AtomicRead` or
  a stutter (`ReadMaps`).
- `EvidenceInv` (`RunSupervisor`): by the place of the parent, how far the evidence
  has come: a claim is admitted in the loop, the manifest decided after it, the
  artifacts written next and the record last. `EventsInv` says that no event
  beyond the last number read was forwarded and that the terminal event is kept
  back, `KeptInv` that what is kept of the worker is of the kind it was taken for,
  `WorkerInv` that the worker lives only in the loop. They hold whatever the
  worker sends, since every branch that looks at a message checks it (`Legal`).

TLC checked the conjunctions before they were proved, that of `RunSupervisor` with
two events, two faults and a drifting worker (335 thousand states), that of
`TrainingRun` with three steps (2.2 million states).

`SealedPlanProofs` (from `RequestsAssumption`: requests and hosts are of their types)
proves `ProvenTogether`, `NoLateRefusal`, `TrainsAsAsked` and `PlanTypeOK`. A plan is written once and an outcome once: the
invariant says that the plan is what the planner seals for its request and host,
which it admitted, and that the outcome is what the lane decides about that plan.
The rest is a comparison of the planner's guard with the lane's: where the two
differ no theorem holds, and the exceptions of `NoLateRefusal` are exactly that
difference.

`TrainingOutputsProofs` (from the assumptions of the components it puts together:
`LaneConstants`, `MeasuredConstants`, `RequestsAssumption`, those of `TrainingRun`) is
about the composition that the run `training_outputs` checks. It takes the invariants
of `TrainingRunProofs` and `SealedPlanProofs`, adds one for each other component, and
shows that every step is one of a single component (`OnePartMoves`) and keeps all five.

- `RegistryInv` (`ArtifactRegistry`, for `KeepIsGated`): while no two commands
  overlap, the command at work holds the record as it is on disk (`GatedInv`), and
  from the gate on the hash it is about to save has passed it; the draft a crash
  leaves is overwritten before it is put in place.
- `LaneInv` (`LaneExecution`, for `EvidenceIsTrue`): the success of a lane is
  decided after all its steps, so the invariant follows the phases. Before training
  nothing has moved (`Fresh`); in the loop every tensor that could move has a hook
  (`Watched`), what moved is what the hooks saw (`Moved`), and a loss that is no number
  leaves a gap in the losses that the tracker was told of (`Told`): a step is reported
  at most once and never before it is done, so that the tracker's count must come out
  short. `Concluded` is what `Finalize` made sure of, and `Kept` that the file that is
  admitted is read back and compared. The lanes with a loop of their own need less:
  nobody disturbs them, so that places and optimizer groups stay as verified.
- `MeasuredInv` (`Telemetry`, for `MeasurementsAreEarned`): the rows of the event log
  are the run's steps, in order and without a gap (`Numbered`), which is why leaving
  out the first rows leaves out the first steps, if the run began at its first step;
  windows never go back, and a sample's label lies between the window in which its
  reading began and the one of now (`Windowed`), hence at most the first sample of a
  window is labelled late; a thread that stop() has waited for is dead (`Stopped`),
  so what was read is what there is (`GotInv`, `Derived`); a success is on record
  before it is returned and summarized before it is reported (`Succeeds`). That the
  window's energy is part of the run's (`EnergyPart`) is a lemma on areas: more times
  have more intervals between them, and the area over finitely many intervals is finite.

`EnvironmentsProofs` and `EvidenceProofs` are about the composition that the run
`environments` checks. `OneMoves` and `EvidenceMoves` show that each part takes one
of its steps or rests. They rest on `EnvironmentAssumption` and on the assumptions of the
parts, which TLC evaluates as `MCRun`, `MCPackages`, `MCProbes` and `MCModel`: the
contents of files, the commits, the recipes and all bounds are constants.

- `EnvironmentsProofs` proves `TrainsOnSeal` and `AdmittedIsTrained` for any contents
  of the files and any number of changes. A lane is a program, and the two properties
  are about the order of its steps, so the first part is about programs: every step
  is one of a few kinds (`ProgramTyped`), an input that is kept is compared with its
  seal in the same step or in a later one before training (`Shape`, `VerifiedFrom`),
  the weights are saved once (`SavesAt`), and the last look at an output compares the
  books that the lane compares: what was trained, proposed, recorded (`Admits`). Programs are concatenations,
  and so are the lemmas: what a part does, the program does. `SealedInv` then says of
  a file whose kept content is not the sealed one that somebody put the sealed
  content back, or that the comparison is still to come and will fail; `WeightsInv`
  that no book tells of the weights before they are saved, that once they are found to
  be the trained ones the books of the outputs tell nothing else, unless somebody put
  them back, and that the books that the last look at a file compared agree. The
  exceptions (a pretraining corpus, bytes that were put back between two looks) are
  those of the properties, and of the code.
- `PackagesInv` (`SealedPackages`, for `SealIsTrue`), for any history of commits, with
  up to three meddlings. What is sealed is one inventory, what was probed is the
  environment at another moment, and the two are compared only through a third and
  a fourth. The argument is one about time: others write other bytes each time, so
  bytes have an age (`Age`), and a package that went does not come back. `Later` says
  that an inventory is an earlier one with newer bytes; two that agree have nothing
  between them that differs. `CreationInv` and `LockInv` order the inventories of
  a creation and of each later check by it. `BuilderInv` and `ReviewedInv` carry the
  commit from the builder through review and confirmation, `LockTrue` is what the seal
  makes of them, and `PhaseInv` says which inventory is taken for which purpose.
- `ProbesInv` (`ExecutionProbes`, for `ClaimsAreEarned`), for any recipes, readings and
  faults. `DoneInv` is what the running probe has been through at each place,
  `ProcessInv` how the process was found and is held, and `MemoryInv` what the shared
  peak tells while a thread that may be late stores it: as long as the probe waited
  for it, the result is the highest reading. A recorded result claims what was earned
  (`Earned`), and what is printed and accepted are those results (`PrintedInv`,
  `AcceptedInv`).
- `ModelInv` (`ParameterAccounting`, for `InspectionIsTrue`), for any snapshots, revisions,
  edits and event streams whose numbers are numbers (`Holdable`,
  `AccountingAssumption`). A header read from a verified file is that file's
  (`HeadersInv`), so that a total is one of hashed contents; that it
  counts different tensors is a bijection between entries and names (`EntriesCounted`).
  The expert counts are cardinalities of products (`DetectedCounts`), and the fit of a
  tokenizer is arithmetic on the largest ids (`CompatibilityFits`), once the effective size
  is known to lie above every id that counts (`EffectiveCovers`). `StageInv` says
  what is known before which step, `ReportsInv` that a conflict is one of the
  observations and stays among them when a run adds its own.

TLC checked `PackagesInv` with two meddlings (8.2 million states) and `ModelInv` on the
states of its part (371 thousand) before they were proved. An instance with a richer set of
edited descriptors refuted an earlier form of the last conjunct of `InspectionIsTrue`,
which compared totals of different windows as well.

Every invariant and every action property that a run checks is proved; the properties
that stay model-checked only are those of liveness.
Out of the prover's reach, and left to TLC: liveness (`LocksReleased`,
`NeverBlocksForever`, `HangIsSignalled`, `ReadsAndRunsEnd`) and `ENABLED`; a
violation has no proof either. No
module uses a RECURSIVE operator.

## What is not modelled

- The verification of a pretraining corpus beyond the looks at its files, the
  memory and host estimators and storage profiles.
- In the subprocess supervisor: that the terminal event of a refused run does not
  reach `RunEvents.jsonl`, and that overlapping saves can tear a run manifest.
- That a deadline is looked at before the queue, so that an answer that has
  arrived may be discarded; and that `examples-delete` and `examples-edit` address
  rows by a number read earlier. Both are what the code says it does.
- What the CPU path ignores of an explicit request (quantization, attention), and
  the fused loss in the full-parameter lanes (which `Trains` drops, and no
  property forbids).
- An artifact that is already kept and is registered again with another hash.
- Inspection, quality, gates, splitting, reports, import and export formats: pure
  functions of their input. Their verdicts appear as nondeterministic choices.
- Training backends: torch and transformers decide what happens; the models take
  every outcome a worker can report.
- The web client and the Tauri shell: they run CLI commands.
- Wording, layout, timestamps and hashes. Two different rows never share an id,
  two different contents never a digest.

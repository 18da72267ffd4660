---------------------------- MODULE ExecutionProbes ----------------------------
(***************************************************************************)
(* The capability probes of a managed environment.  One process runs the   *)
(* probes of its recipe one after another and prints a report; the         *)
(* manager reads it and accepts it or not as the evidence that a required  *)
(* QLoRA tuple executes on this host.                                      *)
(*                                                                         *)
(* An execution probe builds a tiny model, trains it for one step, saves   *)
(* the adapter and reads it back, and looks at what it did on the way.     *)
(* The nf4 probes look at everything, force one attention kernel for the   *)
(* whole process, measure memory with a sampling thread, and must leave    *)
(* the process as they found it; the others look at less.                  *)
(*                                                                         *)
(* The training stack is not trusted: it may be missing, misplace or       *)
(* recast what it loads, load it in another format, change the process's   *)
(* attention settings, raise, compute what is not finite, update nothing   *)
(* and save something else.  What a probe did is kept as "did".            *)
(***************************************************************************)
EXTENDS Naturals, Sequences, FiniteSets, FiniteSetsExt

CONSTANTS Recipes,     \* lists of probes that a process is asked to run
          MaxReading,  \* the largest memory reading
          MaxFaults,   \* how often the training stack misbehaves
          None

ProbesAssumption ==
  /\ Recipes \subseteq Seq(STRING) /\ MaxReading \in Nat \ {0} /\ MaxFaults \in Nat
  /\ None # "accepted"

VARIABLES
  required,   \* the tuple whose evidence the manager needs, if any
  todo,       \* probes that have not been run, the first of them running
  at,         \* where the running probe is
  toggles,    \* which attention kernels the process allows
  rng,        \* whose random state the process has
  previous,   \* the process as the running probe found it
  did,        \* what the running probe has done so far
  taxonomy,   \* its outcome, once it is known
  sampler,    \* its sampling thread
  peak,       \* the largest reading, shared with that thread
  prior,      \* what the sampling thread read of it
  mine,       \* what the probe read of it, and its own reading
  measured,   \* the peak it reports
  highest,    \* history: the largest reading of either
  late,       \* the thread had not ended when the probe read the peak
  results,    \* the results so far
  payload,    \* the report as it was printed
  verdict,    \* what the manager makes of it
  faults

process == <<toggles, rng>>
memory == <<peak, prior, mine, measured, highest, late>>
vars == <<required, todo, at, process, previous, did, taxonomy, sampler, memory, results, payload,
          verdict, faults>>

-----------------------------------------------------------------------------
(* The probes *)

Tuple(device, quantization, kernel, loss, optimizer) ==
  [device |-> device, quantization |-> quantization, kernel |-> kernel, loss |-> loss,
   optimizer |-> optimizer]

CpuTuple == Tuple("cpu", "none", "eager", "cross_entropy", "adamw_torch")
Bf16Tuple == Tuple("cuda", "none", "math", "cross_entropy", "adamw_torch")
Int8Tuple == Tuple("cuda", "int8", "math", "cross_entropy", "adamw_torch")
Nf4Tuple(kernel, loss, optimizer) == Tuple("cuda", "nf4", kernel, loss, optimizer)

Nf4Probes == {"cuda_qlora_math_execution", "cuda_qlora_sdpa_flash_execution",
              "cuda_qlora_liger_execution", "cuda_qlora_flash_liger_execution",
              "cuda_qlora_flash_liger_paged_execution"}

\* The tuple that each execution probe claims when it passes (_combination).
Claims(probe) ==
  CASE probe = "cpu_lora_execution" -> CpuTuple
    [] probe = "cuda_bf16_lora_math_execution" -> Bf16Tuple
    [] probe = "cuda_int8_qlora_math_execution" -> Int8Tuple
    [] probe = "cuda_qlora_math_execution" -> Nf4Tuple("math", "cross_entropy", "adamw_torch")
    [] probe = "cuda_qlora_sdpa_flash_execution" ->
         Nf4Tuple("flash", "cross_entropy", "adamw_torch")
    [] probe = "cuda_qlora_liger_execution" -> Nf4Tuple("math", "liger_fused_ce", "adamw_torch")
    [] probe = "cuda_qlora_flash_liger_execution" ->
         Nf4Tuple("flash", "liger_fused_ce", "adamw_torch")
    [] probe = "cuda_qlora_flash_liger_paged_execution" ->
         Nf4Tuple("flash", "liger_fused_ce", "paged_adamw_8bit")

ExecutionProbes ==
  {"cpu_lora_execution", "cuda_bf16_lora_math_execution", "cuda_int8_qlora_math_execution"}
    \cup Nf4Probes

Running == Head(todo)

Executes == Running \in ExecutionProbes

Nf4 == Running \in Nf4Probes

\* The one kernel that a complete tuple allows.
Kernel == Claims(Running).kernel

\* Two tensors of the adapter, the first of them looked at more often.
Tensors == {"first", "second"}

\* What a probe has done: nothing so far, and nothing wrong.
Nothing ==
  [allowed |-> None, placed |-> {"base", "adapter"}, master |-> TRUE, quantized |-> "as claimed",
   loss |-> TRUE, gradients |-> [n \in Tensors |-> "none"], changed |-> {}, file |-> None,
   reloaded |-> None]

Faults(n) == faults' = faults + n /\ faults' <= MaxFaults

OneIf(flaw) == IF flaw THEN 1 ELSE 0

Larger(x, y) == IF x > y THEN x ELSE y

Fresh ==
  /\ did' = Nothing /\ taxonomy' = None /\ previous' = None /\ sampler' = None
  /\ peak' = 0 /\ prior' = 0 /\ mine' = None /\ measured' = None /\ highest' = 0 /\ late' = FALSE

\* run_capability_probes keeps the result and runs the next probe.  Only a probe that passes may
\* claim its tuple.
Record(outcome, done, restored) ==
  /\ results' = Append(results,
       [probe |-> Running, outcome |-> outcome, claims |-> outcome = "pass" /\ Executes,
        did |-> done, memory |-> [baseline |-> 1, peak |-> measured, highest |-> highest,
                                  late |-> late],
        restored |-> restored])
  /\ todo' = Tail(todo) /\ at' = "next" /\ Fresh

\* A probe ends with an outcome.  An nf4 probe still takes its measurement and restores the process.
End(outcome, done) ==
  IF Nf4 THEN /\ at' = "stop" /\ taxonomy' = outcome /\ did' = done
              /\ UNCHANGED <<todo, previous, sampler, memory, results>>
  ELSE Record(outcome, done, TRUE)

GoOn(phase, done) ==
  /\ at' = phase /\ did' = done
  /\ UNCHANGED <<todo, previous, taxonomy, sampler, memory, results>>

At(phase) == at = phase /\ UNCHANGED <<required, payload, verdict>>

-----------------------------------------------------------------------------
(* Probes of one operation *)

\* trainer_contract wants every field of a surface; checkpoint_reload wants its tensor back.
Diagnose ==
  /\ At("next") /\ todo # <<>> /\ ~Executes
  /\ \/ Faults(0) /\ Record("pass", Nothing, TRUE)
     \/ Faults(1) /\ \E outcome \in {"environment_failure", "unsupported_configuration", "fail",
                                     "checkpoint_failure"} : Record(outcome, Nothing, TRUE)
  /\ UNCHANGED process

-----------------------------------------------------------------------------
(* One execution tuple *)

\* The stack cannot be imported, there is no GPU, or PyTorch lacks the kernel.
Unavailable ==
  /\ At("next") /\ todo # <<>> /\ Executes /\ Faults(1)
  /\ \E outcome \in {"environment_failure", "unsupported_configuration"} :
       Record(outcome, Nothing, TRUE)
  /\ UNCHANGED process

\* Every execution probe seeds the process; an nf4 probe first notes what it found, allows one
\* kernel, looks whether it did, and starts to measure.
Begin ==
  /\ At("next") /\ todo # <<>> /\ Executes
  /\ rng' = "seeded" /\ did' = Nothing
  /\ IF ~Nf4
     THEN /\ at' = "load" /\ Faults(0)
          /\ UNCHANGED <<toggles, previous, taxonomy, sampler, memory>>
     ELSE /\ previous' = process
          /\ \/ toggles' = Kernel /\ Faults(0)
             \/ UNCHANGED toggles /\ Faults(1)
          /\ IF toggles' = Kernel
             THEN /\ at' = "load" /\ sampler' = "waiting" /\ peak' = 1 /\ highest' = 1
                  /\ UNCHANGED <<taxonomy, prior, mine, measured, late>>
             ELSE /\ at' = "restore" /\ taxonomy' = "unsupported_configuration"
                  /\ UNCHANGED <<sampler, memory>>
  /\ UNCHANGED <<todo, results>>

Flaws ==
  {"none", "base", "adapter", "recast", "settings"}
    \cup (IF Claims(Running).quantization = "none" THEN {} ELSE {"otherwise", "not"})

Loaded(flaw) ==
  [did EXCEPT !.placed = @ \ {flaw}, !.master = flaw # "recast",
              !.quantized = IF flaw \in {"otherwise", "not"} THEN flaw ELSE @]

\* What each probe demands of the loaded model: the nf4 probes that everything is on the device,
\* the trainable tensors in their master format, and every 4-bit layer as the tuple says; the
\* int8 probe that there is an 8-bit layer; the cpu probe where the adapter is.
LoadAccepted(done) ==
  /\ done.master
  /\ Nf4 => done.placed = {"base", "adapter"} /\ done.quantized = "as claimed"
  /\ Claims(Running) = Int8Tuple => done.quantized # "not"
  /\ Claims(Running) = CpuTuple => "adapter" \in done.placed

\* The model is loaded, prepared, given its adapter, and patched; the library may have touched
\* the attention settings, which an nf4 probe looks at again.
Load ==
  /\ At("load")
  /\ \E flaw \in Flaws :
       /\ Faults(OneIf(flaw # "none"))
       /\ toggles' = IF flaw = "settings" THEN "mixed" ELSE toggles
       /\ IF LoadAccepted(Loaded(flaw)) /\ (Nf4 => toggles' = Kernel)
          THEN GoOn("train", Loaded(flaw))
          ELSE End("unsupported_configuration", Loaded(flaw))
  /\ UNCHANGED rng

Present(done) == {n \in Tensors : done.gradients[n] # "none"}

\* What each probe demands of its step: the nf4 probes finite gradients for all tensors, the cpu
\* probe the format of those there are, the others any gradient; all a finite loss and an update,
\* the nf4 probes of some tensor, the others of the first.
StepAccepted(done) ==
  /\ done.loss
  /\ IF Nf4 THEN /\ \A n \in Tensors : done.gradients[n] = "finite"
                 /\ done.changed # {}
     ELSE /\ Present(done) # {} /\ "first" \in done.changed
          /\ Claims(Running) = CpuTuple => \A n \in Tensors : done.gradients[n] # "recast"

\* Forward under the forced kernel, backward, and one step of the optimizer.
Train ==
  /\ At("train")
  /\ \E loss \in BOOLEAN, grads \in [Tensors -> {"finite", "none", "nonfinite", "recast"}],
        changed \in SUBSET Tensors :
       LET done == [did EXCEPT !.allowed = toggles, !.loss = loss, !.gradients = grads,
                               !.changed = changed]
       IN /\ changed \subseteq Present(done)
          /\ Faults(OneIf(~loss) + OneIf(changed # Present(done))
                      + Cardinality({n \in Tensors : grads[n] # "finite"}))
          /\ IF StepAccepted(done) THEN GoOn("save", done) ELSE End("numerical_failure", done)
  /\ UNCHANGED process

\* What each probe demands of the saved adapter: a file whose loss is finite once it is read back;
\* the nf4 probes the very bytes, in their place.
SaveAccepted(done) ==
  /\ done.file # None /\ done.reloaded # "nonfinite"
  /\ Nf4 => done.file = "exact" /\ done.reloaded = "placed"

Save ==
  /\ At("save")
  /\ \E file \in {None, "altered", "exact"}, reloaded \in {"nonfinite", "misplaced", "placed"} :
       LET done == [did EXCEPT !.file = file, !.reloaded = reloaded]
       IN /\ Faults(OneIf(file # "exact") + OneIf(reloaded # "placed"))
          /\ End(IF SaveAccepted(done) THEN "pass" ELSE "checkpoint_failure", done)
  /\ UNCHANGED process

\* Anything that a library raises.
Raise ==
  /\ at \in {"load", "train", "save"} /\ At(at) /\ Faults(1)
  /\ End("fail", did)
  /\ UNCHANGED process

-----------------------------------------------------------------------------
(* The measurement *)

Stopping == at \in {"stop", "own", "merge", "take", "restore"}

Readings == 1..MaxReading

\* _sample_resources: between two waits the thread reads the shared peak, takes a reading,
\* and stores the larger one.
SamplerReads ==
  /\ sampler = "waiting" /\ ~Stopping
  /\ sampler' = "sampling" /\ prior' = peak
  /\ UNCHANGED <<required, todo, at, process, previous, did, taxonomy, peak, mine, measured,
                 highest, late, results, payload, verdict, faults>>

SamplerStores ==
  /\ sampler = "sampling" /\ sampler' = "waiting"
  /\ \E r \in Readings : peak' = Larger(prior, r) /\ highest' = Larger(highest, r)
  /\ UNCHANGED <<required, todo, at, process, previous, did, taxonomy, prior, mine, measured,
                 late, results, payload, verdict, faults>>

SamplerEnds ==
  /\ sampler = "waiting" /\ Stopping /\ sampler' = "ended"
  /\ UNCHANGED <<required, todo, at, process, previous, did, taxonomy, memory, results, payload,
                 verdict, faults>>

Measuring(phase, next) ==
  /\ At(phase) /\ at' = next
  /\ UNCHANGED <<todo, process, previous, did, taxonomy, sampler, prior, results>>

\* _memory_evidence: the thread is told to stop and waited for, three seconds at most.
Stop ==
  /\ Measuring("stop", "own")
  /\ \/ sampler = "ended" /\ Faults(0) /\ UNCHANGED late
     \/ sampler = "sampling" /\ Faults(1) /\ late' = TRUE
  /\ UNCHANGED <<peak, mine, measured, highest>>

\* The probe reads the shared peak and takes a reading of its own,
Own ==
  /\ Measuring("own", "merge")
  /\ \E r \in Readings : mine' = [read |-> peak, own |-> r] /\ highest' = Larger(highest, r)
  /\ UNCHANGED <<peak, measured, late, faults>>

\* stores the larger one,
Merge ==
  /\ Measuring("merge", "take")
  /\ peak' = Larger(mine.read, mine.own)
  /\ UNCHANGED <<mine, measured, highest, late, faults>>

\* and puts what is then there into its evidence.
Take ==
  /\ Measuring("take", "restore") /\ measured' = peak
  /\ UNCHANGED <<peak, mine, highest, late, faults>>

\* Mutant: a setting that could not be restored is not an error.
RestoredOrNot(kept) == TRUE

\* A probe passes only if everything was restored.
Restored(kept) == kept

\* _restore_qlora_probe_process_state: each setting is restored on its own, the thread is waited
\* for again, and what fails is raised, whatever the outcome was.
Restore ==
  /\ At("restore")
  /\ \E keptToggles, keptRng \in BOOLEAN :
       /\ sampler \in {None, "ended", "sampling"}
       /\ toggles' = IF keptToggles THEN previous[1] ELSE toggles
       /\ rng' = IF keptRng THEN previous[2] ELSE rng
       /\ Faults(OneIf(~keptToggles) + OneIf(~keptRng))
       /\ LET outcome == IF Restored(keptToggles /\ keptRng /\ sampler # "sampling")
                         THEN taxonomy ELSE "environment_failure"
          IN Record(outcome, did, process' = previous /\ sampler # "sampling")

-----------------------------------------------------------------------------
(* The report *)

Passed(list, probe) == \E i \in DOMAIN list : list[i].probe = probe /\ list[i].outcome = "pass"

Claimed(list) == {Claims(list[i].probe) : i \in {j \in DOMAIN list : list[j].claims}}

\* _resolve_readiness
Readiness(tuples) ==
  CASE \E t \in tuples : t.device = "cuda" -> "ready"
    [] tuples = {CpuTuple} -> "cpu_toy_only"
    [] OTHER -> "not_ready"

\* The trainer's fields and a complete tuple together support the execution contract.
ContractProven(list) == Passed(list, "trainer_contract") /\ Claimed(list) # {}

ReportOf(list) ==
  [results |-> list, tuples |-> Claimed(list), readiness |-> Readiness(Claimed(list)),
   contract |-> ContractProven(list)]

\* EffectiveCapabilities takes no tuple twice, as it is claimed when its probe is asked for twice.
ClaimedOnce(list) ==
  \A i, j \in {k \in DOMAIN list : list[k].claims} :
    Claims(list[i].probe) = Claims(list[j].probe) => i = j

\* The process prints its report, if it can be made, and unless the process crashes or is stopped
\* before, or the output is cut.
Report ==
  /\ at = "next" /\ todo = <<>> /\ at' = "reported"
  /\ \/ /\ payload' = IF ClaimedOnce(results) THEN ReportOf(results) ELSE None
        /\ Faults(0)
     \/ payload' = None /\ Faults(1)
  /\ UNCHANGED <<required, todo, process, previous, did, taxonomy, sampler, memory, results,
                 verdict>>

\* Another version of the probes may put together a report that does not follow from its results.
Garbled ==
  {[payload EXCEPT !.readiness = "ready"], [payload EXCEPT !.contract = TRUE],
   [payload EXCEPT !.tuples = @ \cup {Claims(required)}]}
    \cup {[payload EXCEPT !.results[i].claims = TRUE] :
            i \in {j \in DOMAIN payload.results : payload.results[j].probe \in ExecutionProbes}}

Garble ==
  /\ at = "reported" /\ required # None /\ payload # None /\ verdict = None
  /\ payload' \in Garbled \ {payload} /\ Faults(1)
  /\ UNCHANGED <<required, todo, at, process, previous, did, taxonomy, sampler, memory, results,
                 verdict>>

\* ProbeResult and CapabilityReport, validated again by the manager.
ReportIsValid ==
  /\ \A i \in DOMAIN payload.results :
       payload.results[i].claims => payload.results[i].outcome = "pass"
  /\ ClaimedOnce(payload.results) /\ payload = ReportOf(payload.results)

\* _complete_probe_evidence: one result of the required probe, which passed and claims the tuple,
\* trained under its kernel alone, and measured no peak below its baseline.
EvidenceComplete ==
  /\ payload # None /\ ReportIsValid
  /\ \E i \in DOMAIN payload.results :
       LET r == payload.results[i]
       IN /\ {j \in DOMAIN payload.results : payload.results[j].probe = required} = {i}
          /\ r.outcome = "pass" /\ r.claims /\ r.did.allowed = Claims(required).kernel
          /\ r.memory.peak >= r.memory.baseline

Judge ==
  /\ at = "reported" /\ required # None /\ verdict = None
  /\ verdict' = IF EvidenceComplete THEN "accepted" ELSE "refused"
  /\ UNCHANGED <<required, todo, at, process, previous, did, taxonomy, sampler, memory, results,
                 payload, faults>>

Init ==
  /\ todo \in Recipes
  /\ required \in {None} \cup (Nf4Probes \cap {todo[i] : i \in DOMAIN todo})
  /\ at = "next" /\ toggles = "default" /\ rng = "own" /\ previous = None
  /\ did = Nothing /\ taxonomy = None /\ sampler = None
  /\ peak = 0 /\ prior = 0 /\ mine = None /\ measured = None /\ highest = 0 /\ late = FALSE
  /\ results = <<>> /\ payload = None /\ verdict = None /\ faults = 0

ProbesOver == at = "reported" /\ (required = None \/ verdict # None)

Next ==
  \/ Diagnose \/ Unavailable \/ Begin \/ Load \/ Train \/ Save \/ Raise
  \/ SamplerReads \/ SamplerStores \/ SamplerEnds
  \/ Stop \/ Own \/ Merge \/ Take \/ Restore
  \/ Report \/ Garble \/ Judge

Spec == Init /\ [][Next]_vars

-----------------------------------------------------------------------------
(* Properties *)

TypeOK ==
  /\ required \in Nf4Probes \cup {None} /\ faults \in 0..MaxFaults
  /\ at \in {"next", "load", "train", "save", "stop", "own", "merge", "take", "restore",
             "reported"}
  /\ toggles \in {"default", "math", "flash", "mixed"} /\ rng \in {"own", "seeded"}
  /\ sampler \in {None, "waiting", "sampling", "ended"}
  /\ peak \in 0..MaxReading /\ prior \in 0..MaxReading /\ highest \in 0..MaxReading
  /\ measured \in Readings \cup {None} /\ late \in BOOLEAN
  /\ verdict \in {None, "accepted", "refused"}

\* A tuple that is claimed was trained for a step, changed something, and was read back.
Trained(done) ==
  done.loss /\ done.master /\ done.changed # {} /\ done.file # None /\ done.reloaded # "nonfinite"

\* An nf4 tuple moreover with its kernel alone allowed, in its place and format, with a gradient
\* for every tensor, and was saved exactly; and the process was left as it was found.
Complete(r) ==
  /\ Trained(r.did) /\ r.did.placed = {"base", "adapter"} /\ r.did.quantized = "as claimed"
  /\ r.did.allowed = Claims(r.probe).kernel
  /\ \A n \in Tensors : r.did.gradients[n] = "finite"
  /\ r.did.file = "exact" /\ r.did.reloaded = "placed"
  /\ r.restored
  /\ r.memory.peak >= r.memory.baseline
  /\ ~r.memory.late => r.memory.peak = r.memory.highest

\* What a report claims was done as it says, by a probe that left the process as it found it, and
\* the manager accepts only such a report: the outcome of the last probe is known before its thread
\* has ended and its settings are restored, and a later probe starts from what it left
\* (_probe_cuda_qlora_sdpa_execution_tuple, run_capability_probes, _complete_probe_evidence).
ClaimsAreEarned ==
  /\ \A i \in DOMAIN results : results[i].claims =>
       Trained(results[i].did) /\ (results[i].probe \in Nf4Probes => Complete(results[i]))
  /\ verdict = "accepted" =>
       /\ payload.results = results
       /\ \E i \in DOMAIN results : results[i].probe = required /\ Complete(results[i])
       /\ payload.contract => Passed(results, "trainer_contract")
       /\ \A t \in payload.tuples : \E i \in DOMAIN results :
            results[i].claims /\ Claims(results[i].probe) = t
=============================================================================

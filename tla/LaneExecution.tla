--------------------------- MODULE LaneExecution ---------------------------
(***************************************************************************)
(* What happens inside a sealed training run, in each of its six lanes,    *)
(* and what its success evidence says of it.  The lane judges its rows,    *)
(* loads the model, attaches an adapter or trains every parameter, puts a  *)
(* hook on every trainable tensor, notes what the tensors hold, and        *)
(* trains: in the loop of a Trainer that belongs to a library and calls    *)
(* back, or in a loop of its own that is replayed to a tracker afterwards. *)
(* Then it compares, saves, in two lanes measures the result on rows it    *)
(* held out, and proposes evidence, which the supervisor admits after it   *)
(* has recomputed the exported state from the saved file.                  *)
(*                                                                         *)
(* The libraries are not trusted.  Loading, attaching and constructing a   *)
(* Trainer may recast, move, replace, freeze or unfreeze a tensor; so may  *)
(* the Trainer's loop between two steps, which may also change the         *)
(* optimizer, stop early, lose a callback or a log, or produce what is not *)
(* finite; and a save may write something else.  Each of these is a fault. *)
(*                                                                         *)
(* Data: a tensor holds one of two values, or NaN when it is not finite;   *)
(* it is in its sealed place and format, recast on the sealed device, or   *)
(* elsewhere.  A row is the lengths of its parts and the pair it states.   *)
(***************************************************************************)
EXTENDS Naturals, FiniteSets, Sequences, FiniteSetsExt

CONSTANTS Base,       \* tensors of the base model
          Adapter,    \* tensors that PEFT adds
          Steps,      \* optimizer steps of the sealed schedule
          Micro,      \* microbatches of one optimizer step
          Datasets,   \* sets of rows a run may be given
          RowOf,      \* each row's prompt and answer tokens, its pair, and whether that is degenerate
          MaxLen,     \* sealed sequence length
          MaxPrompt,  \* sealed prompt length
          MaxFaults,  \* how often the libraries interfere
          NaN, None

LaneAssumption ==
  /\ Base # {} /\ Adapter # {} /\ Base \cap Adapter = {}
  /\ IsFiniteSet(Base) /\ IsFiniteSet(Adapter) /\ "loss" \notin Base \cup Adapter
  /\ None \notin {"failed", "admitted"}
  /\ Steps \in Nat \ {0} /\ Micro \in Nat \ {0} /\ MaxFaults \in Nat

VARIABLES
  lane, byEpoch, lossy, resumed,  \* the sealed choices
  at,         \* how far the run is
  trained,    \* rows that train
  heldout,    \* rows held out for the gate
  value,      \* what each tensor holds
  place,      \* where it is and in which format
  live,       \* tensors that require a gradient
  bound,      \* tensors that are still the objects the hooks were put on
  hooks,      \* names of the hooked tensors
  observed,   \* names whose hook saw a gradient
  groups,     \* the optimizer's parameters: a name, and whether it is the hooked object
  kernel,     \* the attention kernel in force is the sealed one
  pending,    \* tensors with a gradient of the current step
  bad,        \* what of the current step is not finite: "loss", tensors' gradients
  micro,      \* microbatches of the current step
  done,       \* optimizer steps of the loop (global_step)
  reported,   \* steps the tracker was told of, in order
  losses,     \* steps whose finite loss is on record
  before,     \* the trainable state the tracker compares with
  proposal,   \* the proposed evidence
  saved,      \* the exported file
  faults, outcome,
  start,      \* history: what the tensors held when this run's own training began
  poisoned,   \* history: an update used a loss or a gradient that is not finite
  strayed     \* history: updates outside the sealed kernel, or the sealed place and format

choices == <<lane, byEpoch, lossy, resumed>>
rows == <<trained, heldout>>
model == <<place, live, bound>>
watch == <<hooks, observed, groups>>
loop == <<pending, bad, micro, done>>
tracker == <<reported, losses>>
result == <<proposal, saved>>
updates == <<poisoned, strayed>>
vars == <<choices, at, rows, value, model, watch, kernel, loop, tracker, before, result, faults,
          outcome, start, updates>>

-----------------------------------------------------------------------------
(* The lanes *)

Lanes == {"training", "pretraining", "full_finetune", "preference", "reward", "rollout"}

\* Every parameter trains; otherwise an adapter over a frozen base.
Full == lane \in {"pretraining", "full_finetune"}

\* The loop belongs to a library's Trainer; otherwise to the lane.
Hosted == lane \in {"training", "pretraining", "full_finetune"}

Gated == lane \in {"reward", "rollout"}

Tensors == IF Full THEN Base ELSE Base \cup Adapter

Exported == IF Full THEN live ELSE Adapter

From == IF resumed THEN 1 ELSE 0

At(phase) == outcome = None /\ at = phase

Goto(phase) == at' = phase /\ UNCHANGED <<choices, outcome>>

\* The libraries interfere n times.
Faults(n) == faults' = faults + n /\ faults' <= MaxFaults

\* A refusal of the run, a library's exception, a cancellation.
Fail ==
  /\ outcome = None /\ outcome' = "failed"
  /\ UNCHANGED <<choices, at, rows, value, model, watch, kernel, loop, tracker, before, result,
                 faults, start, updates>>

-----------------------------------------------------------------------------
(* Rows *)

Length(r) == RowOf[r].prompt + RowOf[r].answer

\* A document is packed with a token that ends it.
Ended(r) == Length(r) + 1

Cut(r) == Length(r) > MaxLen

PromptCut(r) == RowOf[r].prompt > MaxPrompt

\* A pair stated twice, or once in each order.
Repeated(set) == \E r, s \in set : r # s /\ RowOf[r].pair = RowOf[s].pair

PairsRefused(set) ==
  \/ Repeated(set)
  \/ \E r \in set : RowOf[r].degenerate \/ (~lossy /\ (Cut(r) \/ PromptCut(r)))

RowsRefused(set) ==
  CASE lane \in {"training", "full_finetune"} -> ~lossy /\ \E r \in set : Cut(r)
    [] lane = "pretraining" -> MapThenSumSet(Ended, set) < MaxLen
    [] lane = "rollout" -> ~lossy /\ \E r \in set : PromptCut(r)
    [] OTHER -> PairsRefused(set)

\* A gated lane carves held-out rows from the sealed ones, at least one and never all; the
\* hosted lanes judge their rows before anything is loaded.
TakeRows ==
  /\ At("rows")
  /\ \E set \in Datasets :
       \/ ~Gated /\ trained' = set /\ heldout' = {}
       \/ Gated /\ \E out \in SUBSET set \ {{}, set} : heldout' = out /\ trained' = set \ out
  /\ ~(Hosted /\ RowsRefused(trained'))
  /\ Goto("load")
  /\ UNCHANGED <<value, model, watch, kernel, loop, tracker, before, result, faults, start, updates>>

-----------------------------------------------------------------------------
(* What a library may do to the model, at one fault *)

Replaced(f, n, v) == [f EXCEPT ![n] = v]

Misplacements(set) == {Replaced(place, n, p) : n \in set, p \in {"recast", "elsewhere"}}

Untouched == [place |-> place, live |-> live, bound |-> bound]

Disturbances ==
  {[Untouched EXCEPT !.place = p] : p \in Misplacements(Tensors)}
  \cup {[Untouched EXCEPT !.live = s] :
          s \in {live \cup {n} : n \in Tensors \ live} \cup {live \ {n} : n \in live}}
  \cup {[Untouched EXCEPT !.bound = @ \ {n}] : n \in bound}

\* The model after a library's work, as it should be or with a fault.
Work(m) == \/ m = Untouched /\ Faults(0)
           \/ m \in Disturbances /\ Faults(1)

Placed(p, set) == \A n \in set : p[n] # "elsewhere"

InFormat(p, set) == \A n \in set : p[n] # "recast"

\* The trainable tensors are put in their master format where they are.
Cast(p, set) == [n \in DOMAIN p |-> IF n \in set /\ p[n] = "recast" THEN "sealed" ELSE p[n]]

\* verify_model_state_execution
StateVerified(p) == Placed(p, Tensors) /\ InFormat(p, Tensors)

\* verify_model_inventory: every trainable tensor is the object its hook is on.
Inventory(m) == m.live = hooks /\ hooks \subseteq m.bound

\* What a snapshot of the trainable state tells apart.
Snapshot(values, m) ==
  [n \in m.live |-> [value |-> values[n], recast |-> m.place[n] = "recast"]]

-----------------------------------------------------------------------------
(* Before training *)

\* The weights may be misplaced as they are loaded; all lanes but pretraining look at where
\* they are, full_finetune at their format too.
LoadModel ==
  /\ At("load")
  /\ \/ UNCHANGED place /\ Faults(0)
     \/ place' \in Misplacements(Base) /\ Faults(1)
  /\ lane # "pretraining" => Placed(place', Base)
  /\ lane = "full_finetune" => InFormat(place', Base)
  /\ kernel' = TRUE
  /\ Goto("attach")
  /\ UNCHANGED <<rows, value, live, bound, watch, loop, tracker, before, result, start, updates>>

\* PEFT attaches the adapter over a base prepared for k-bit training; trainable tensors are cast
\* and hooked, then the model is looked at.  Where every parameter trains, all are hooked.
\* The training lane takes its baseline later.
Attach ==
  /\ At("attach")
  /\ \/ Full /\ live' = Base /\ UNCHANGED place /\ Faults(0)
     \/ ~Full /\ live' = Adapter
        /\ \/ place' = Cast(place, Adapter) /\ Faults(0)
           \/ \E p \in Misplacements(Tensors) : place' = Cast(p, Adapter) /\ Faults(1)
        /\ StateVerified(place')
  /\ hooks' = live' /\ bound' = live'
  /\ before' = IF lane = "training" THEN None
               ELSE Snapshot(value, [live |-> live', place |-> place'])
  /\ Goto(IF Hosted THEN "construct" ELSE "begin")
  /\ UNCHANGED <<rows, value, observed, groups, kernel, loop, tracker, result, start, updates>>

\* Constructing a Trainer.  The training lane casts again and looks again; full_finetune looks
\* where the tensors are.
Construct ==
  /\ At("construct")
  /\ \E m \in Disturbances \cup {Untouched} :
       /\ Work(m)
       /\ lane = "training" => Inventory(m) /\ StateVerified(Cast(m.place, m.live))
       /\ lane = "full_finetune" => Placed(m.place, Base)
       /\ place' = IF lane = "training" THEN Cast(m.place, m.live) ELSE m.place
       /\ live' = m.live /\ bound' = m.bound
       /\ before' = IF lane = "training" THEN Snapshot(value, [m EXCEPT !.place = place'])
                    ELSE before
  /\ Goto("begin")
  /\ UNCHANGED <<rows, value, watch, kernel, loop, tracker, result, start, updates>>

\* The optimizer holds exactly the hooked objects (_bound_optimizer_parameter_ids).
Exact(set) == set = {<<n, TRUE>> : n \in hooks}

Optimizer == {<<n, n \in bound>> : n \in live}

\* The optimizer lacks a tensor, or has one too many.
OtherOptimizers ==
  {Optimizer \ {g} : g \in Optimizer} \cup {Optimizer \cup {<<n, FALSE>>} : n \in Tensors \ live}

\* A Trainer restores the checkpoint that the run resumes from before it calls on_train_begin.
Restored ==
  IF resumed
  THEN {[n \in DOMAIN value |-> IF n \in live THEN v[n] ELSE value[n]] : v \in [live -> {0, 1}]}
  ELSE {value}

\* Mutant: a resumed run keeps the baseline from before the checkpoint was restored.
BaselineOnce(values) == before

\* A resumed run is compared with what it was restored to.
Baseline(values) == IF resumed THEN Snapshot(values, Untouched) ELSE before

\* on_train_begin: the optimizer is looked at, and a resumed run takes its baseline anew.  The
\* lanes with a loop of their own judge their rows here.
Begin ==
  /\ At("begin")
  /\ Hosted \/ ~RowsRefused(trained)
  /\ groups' \in {Optimizer} \cup (IF Hosted THEN OtherOptimizers ELSE {})
  /\ Faults(IF groups' = Optimizer THEN 0 ELSE 1)
  /\ Exact(groups')
  /\ value' \in Restored
  /\ before' = Baseline(value')
  /\ start' = value' /\ done' = From /\ kernel' = TRUE
  /\ Goto("train")
  /\ UNCHANGED <<rows, model, hooks, observed, pending, bad, micro, tracker, result, updates>>

-----------------------------------------------------------------------------
(* The loop *)

\* Between two steps a Trainer's loop disturbs the model or the optimizer; the process's
\* attention settings can change in any lane.
Disturb ==
  /\ At("train") /\ micro = 0 /\ Faults(1)
  /\ \/ /\ Hosted
        /\ \E m \in Disturbances : place' = m.place /\ live' = m.live /\ bound' = m.bound
        /\ UNCHANGED <<groups, kernel>>
     \/ Hosted /\ groups' \in OtherOptimizers /\ UNCHANGED <<model, kernel>>
     \/ kernel' = FALSE /\ UNCHANGED <<model, groups>>
  /\ UNCHANGED <<choices, outcome, at, rows, value, hooks, observed, loop, tracker, before, result,
                 start, updates>>

Hooked(set) == set \cap hooks \cap bound

\* Mutant: the hooks of the training lane look at the values alone.
GradientsFinite(set, wrong) == set \cap wrong = {}

\* The hooks refuse a gradient that is not finite and, in the training lane, one in another
\* format or place (_verify_gradient).
GradientsAccepted(set, wrong) ==
  set \cap wrong = {} /\ (lane = "training" => \A n \in set : place[n] = "sealed")

\* A loop of the lane's own refuses a loss that is not finite before it goes backward, and in its
\* first microbatch a gradient on a frozen tensor.
OwnLoopAccepts(grads, wrong) ==
  "loss" \notin wrong /\ (done = 0 /\ micro = 0 => grads \subseteq live)

\* One backward pass.
Microbatch ==
  /\ At("train") /\ micro < Micro /\ done < Steps
  /\ \E grads \in SUBSET Tensors : \E wrong \in SUBSET ({"loss"} \cup grads) :
       /\ Faults(Cardinality(wrong) + IF grads \subseteq live THEN 0 ELSE 1)
       /\ Hosted \/ OwnLoopAccepts(grads, wrong)
       /\ GradientsAccepted(Hooked(grads), wrong)
       /\ observed' = observed \cup Hooked(grads)
       /\ pending' = pending \cup grads
       /\ bad' = bad \cup wrong
  /\ micro' = micro + 1
  /\ UNCHANGED <<choices, outcome, at, rows, value, model, hooks, groups, kernel, done, tracker,
                 before, result, start, updates>>

\* The tensors whose present object the optimizer holds and that have a gradient.
Stepped == {n \in pending : <<n, n \in bound>> \in groups}

\* A Trainer reports the step and then its loss, or loses one of them; the tracker refuses a
\* changed optimizer, a step out of order and a loss that is not finite.
Report ==
  /\ Exact(groups)
  /\ \/ /\ done' = From + Len(reported) + 1 /\ reported' = Append(reported, done')
        /\ \/ "loss" \notin bad /\ losses' = losses \cup {done'} /\ Faults(0)
           \/ UNCHANGED losses /\ Faults(1)
     \/ UNCHANGED tracker /\ Faults(1)

\* optimizer.step; an update can also be skipped, or leave what is not finite.
Update ==
  /\ At("train") /\ micro = Micro
  /\ value' \in {[n \in DOMAIN value |-> IF n \in Stepped THEN v[n] ELSE value[n]] :
                   v \in [Stepped -> {0, 1, NaN}]}
  /\ done' = done + 1 /\ micro' = 0 /\ pending' = {} /\ bad' = {}
  /\ poisoned' = (poisoned \/ bad \cap (Stepped \cup {"loss"}) # {})
  /\ strayed' = strayed \cup (IF kernel THEN {} ELSE {"kernel"})
                        \cup (IF \A n \in Stepped : place[n] = "sealed" THEN {} ELSE {"place"})
  /\ IF Hosted THEN Report ELSE UNCHANGED tracker /\ Faults(0)
  /\ UNCHANGED <<choices, outcome, at, rows, model, watch, kernel, before, result, start>>

-----------------------------------------------------------------------------
(* After training *)

\* The tensors that differ from the baseline; the inventory and its formats may not.
Comparable == before # None /\ DOMAIN before = live
              /\ \A n \in live : before[n].recast = (place[n] = "recast")

Changed == {n \in live : value[n] # before[n].value}

Expected == (From + 1)..done

\* A loop of the lane's own has run all its steps and is replayed to the tracker, with the
\* optimizer it had.
Replay ==
  /\ done = Steps /\ Exact(groups)
  /\ reported' = [i \in 1..done |-> i] /\ losses' = 1..done

\* Every step that the run made was reported once, with a finite loss.
Accounted(steps, finite) ==
  steps = [i \in 1..(done - From) |-> From + i] /\ finite = Expected

\* What trained is finite, differs from the baseline, and a hook saw it train.
Learned ==
  /\ \A n \in live : value[n] # NaN
  /\ Comparable /\ Changed # {} /\ Changed \cap observed # {}

\* Every lane but pretraining leaves its kernel context, which looks once more.  A Trainer may
\* have stopped early, and its tensors must still be the hooked ones.
Finalize ==
  /\ At("train") /\ micro = 0
  /\ lane # "pretraining" => kernel
  /\ IF Hosted THEN Inventory(Untouched) /\ UNCHANGED tracker ELSE Replay
  /\ lane = "training" => byEpoch \/ done = Steps
  /\ Accounted(reported', losses') /\ Learned
  /\ proposal' = [steps |-> done, export |-> [n \in Exported |-> value[n]], gate |-> None]
  /\ Goto("save")
  /\ UNCHANGED <<rows, value, model, watch, kernel, loop, before, saved, faults, start, updates>>

\* The adapter, or the whole model in one file.
Save ==
  /\ At("save")
  /\ LET written == IF Full THEN Base ELSE Adapter
         exact == [n \in written |-> value[n]]
     IN \/ saved' = exact /\ Faults(0)
        \/ \E n \in written : \E v \in {0, 1, NaN} \ {value[n]} :
             saved' = [exact EXCEPT ![n] = v] /\ Faults(1)
  /\ Goto(IF Gated THEN "gate" ELSE "admit")
  /\ UNCHANGED <<rows, value, model, watch, kernel, loop, tracker, before, proposal, start, updates>>

\* The promotion gate on the held-out rows, which are judged like those that train.
Gate(rises, near) ==
  /\ At("gate") /\ ~RowsRefused(heldout)
  /\ proposal' = [proposal EXCEPT !.gate = [rises |-> rises, near |-> near]]
  /\ Goto("admit")
  /\ UNCHANGED <<rows, value, model, watch, kernel, loop, tracker, before, saved, faults, start,
                 updates>>

\* How many pairs are ranked right, whatever that is.
RewardGate == lane = "reward" /\ \E rises \in BOOLEAN : Gate(rises, TRUE)

\* The mean reward must rise, within the bound on the divergence from the base.
RolloutGate == lane = "rollout" /\ Gate(TRUE, TRUE)

\* What the supervisor compares: the steps with the schedule, and the saved file, read back, with
\* the evidence.
ScheduleKept == IF byEpoch THEN proposal.steps >= 1 ELSE proposal.steps = Steps

FileHoldsEvidence == saved = proposal.export

Admit ==
  /\ At("admit")
  /\ ScheduleKept /\ FileHoldsEvidence
  /\ outcome' = "admitted"
  /\ UNCHANGED <<choices, at, rows, value, model, watch, kernel, loop, tracker, before, result,
                 faults, start, updates>>

Init ==
  /\ lane \in Lanes /\ byEpoch \in BOOLEAN /\ lossy \in BOOLEAN
  /\ resumed \in (IF lane = "training" THEN BOOLEAN ELSE {FALSE})
  /\ at = "rows" /\ outcome = None /\ faults = 0
  /\ trained = {} /\ heldout = {}
  /\ value = [n \in Tensors |-> 0] /\ place = [n \in Tensors |-> "sealed"]
  /\ live = {} /\ bound = {} /\ hooks = {} /\ observed = {} /\ groups = {} /\ kernel = FALSE
  /\ pending = {} /\ bad = {} /\ micro = 0 /\ done = 0
  /\ reported = <<>> /\ losses = {} /\ before = None /\ proposal = None /\ saved = None
  /\ start = value /\ poisoned = FALSE /\ strayed = {}

Next ==
  \/ TakeRows \/ LoadModel \/ Attach \/ Construct \/ Begin
  \/ Disturb \/ Microbatch \/ Update
  \/ Finalize \/ Save \/ RewardGate \/ RolloutGate \/ Admit \/ Fail

Spec == Init /\ [][Next]_vars

TypeOK ==
  /\ lane \in Lanes /\ {byEpoch, lossy, resumed, kernel, poisoned} \subseteq BOOLEAN
  /\ at \in {"rows", "load", "attach", "construct", "begin", "train", "save", "gate", "admit"}
  /\ trained \cap heldout = {}
  /\ value \in [Tensors -> {0, 1, NaN}] /\ place \in [Tensors -> {"sealed", "recast", "elsewhere"}]
  /\ live \cup bound \cup hooks \cup observed \cup pending \subseteq Tensors
  /\ groups \subseteq Tensors \X BOOLEAN
  /\ bad \subseteq {"loss"} \cup Tensors /\ strayed \subseteq {"kernel", "place"}
  /\ micro \in 0..Micro /\ done \in 0..Steps /\ faults \in 0..MaxFaults
  /\ Len(reported) <= Steps /\ losses \subseteq 1..Steps
  /\ outcome \in {None, "failed", "admitted"}

-----------------------------------------------------------------------------
(* Properties *)

Admitted == outcome = "admitted"

\* What an admitted success says of its training is so, whatever the libraries did on the way:
\* all steps of the schedule ran, no update used what is not finite, the run itself changed the
\* hooked tensors and nothing else, the file holds what was trained, the kernel was the sealed
\* one (pretraining seals none) and, where an adapter trains, every update happened in the sealed
\* place and format (the trackers' finalize, compare_trainable_states,
\* enforced_attention_training_kernel, the gradient hooks).
EvidenceIsTrue ==
  Admitted =>
    /\ IF byEpoch THEN done > From ELSE done = Steps
    /\ ~poisoned
    /\ \E n \in hooks : value[n] # start[n]
    /\ \A n \in Tensors \ hooks : value[n] = start[n]
    /\ \A n \in DOMAIN saved : saved[n] = value[n] /\ value[n] # NaN
    /\ lane = "pretraining" \/ "kernel" \notin strayed
    /\ Full \/ "place" \notin strayed

\* A duplicate or reversed pair is refused, "never silently trained on"
\* (refuse_degenerate_preference_pairs); so no pair of the gate was trained on.
GateIsHeldOut ==
  Admitted /\ lane = "reward" => ~Repeated(trained \cup heldout)
=============================================================================

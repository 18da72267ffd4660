----------------------------- MODULE SealedRun -----------------------------
(***************************************************************************)
(* The bytes of a training run, from the plan to the admitted result.      *)
(* platform-plan hashes dataset and model directory, judges the dataset's  *)
(* rows and seals the digests.  The run, in each of its lanes, hashes      *)
(* again, reads, loads through libraries that open the paths themselves,   *)
(* and hashes once more; then it saves what it trained, proposes digests   *)
(* of the saved files, records them in a manifest, and is admitted only    *)
(* after others have read the files again.  Between any two of these looks *)
(* somebody else may change a file.  One look is atomic (StableRead).      *)
(*                                                                         *)
(* Data: a content is the bytes of a file and stands for their digest; of  *)
(* a dataset's rows all, some or none can be rendered.  A directory is two *)
(* files, looked at one after the other; model and tokenizer share it.     *)
(***************************************************************************)
EXTENDS SealedLanes

CONSTANTS Contents,    \* contents of a file
          SomeRows,    \* dataset contents with rows that cannot be rendered, and others
          NoRows,      \* dataset contents without a row that can be rendered
          Trained,     \* what this run's training produces, as exported
          MaxChanges,  \* how often somebody else changes a file
          None

VARIABLES
  lane,        \* the runner lane the plan resolves to
  supervised,  \* a subprocess parent admits the worker's success once more
  permit,      \* --allow-unrenderable-rows
  lossy,       \* truncation_policy allow, sealed
  disk,        \* what each file holds
  digests,     \* what each book says of each file
  verdict,     \* the dataset content that DatasetConformance.json describes
  at,          \* the step of the program
  consumed,    \* the contents of each file that the run holds in memory
  outcome,     \* how the program ended
  restored,    \* files that somebody changed back to the sealed or trained content
  changes

\* None is neither a content nor an end.
RunAssumption ==
  /\ SomeRows \cup NoRows \cup {Trained} \subseteq Contents /\ MaxChanges \in Nat
  /\ None \notin Contents /\ None # "succeeded"

vars == <<lane, supervised, permit, lossy, disk, digests, verdict, at, consumed, outcome,
          restored, changes>>
choices == <<lane, supervised, permit, lossy>>
others == <<restored, changes>>

Program == ProgramOf[lane][supervised]

-----------------------------------------------------------------------------
(* Running the program *)

Here == Program[at]

Running == outcome = None /\ at <= Len(Program)

Is(act) == Running /\ Here.act = act

Content == disk[Here.file]

Advance == at' = at + 1 /\ UNCHANGED <<choices, outcome, others>>

End(how) == outcome' = how /\ UNCHANGED <<choices, disk, digests, verdict, at, consumed, others>>

LookAtFile ==
  /\ Is("look")
  /\ IF \E b \in Here.match : digests[b][Here.file] # Content
     THEN End("changed")
     ELSE /\ digests' = [b \in Books |->
                IF b \in Here.note THEN [digests[b] EXCEPT ![Here.file] = Content] ELSE digests[b]]
          /\ consumed' = IF Here.keep THEN [consumed EXCEPT ![Here.file] = @ \cup {Content}]
                         ELSE consumed
          /\ Advance /\ UNCHANGED <<disk, verdict>>

\* assess_dataset_file_conformance opens the path anew; the plan is refused without a usable
\* row, and with unusable ones unless they are accepted.
Assess ==
  /\ Is("assess")
  /\ IF Content \in NoRows \/ (Content \in SomeRows /\ ~permit)
     THEN End("unplanned")
     ELSE verdict' = Content /\ Advance /\ UNCHANGED <<disk, digests, consumed>>

\* A pair or a prompt that cannot be rendered is always refused; a training text only as long
\* as no lossy policy is sealed, and when none is left.
Refused(c) == c \in NoRows \/ (c \in SomeRows /\ ~(lossy /\ lane \in {"training", "full_finetune"}))

Format ==
  /\ Is("format")
  /\ IF \E c \in consumed["dataset"] : Refused(c)
     THEN End("unrenderable")
     ELSE Advance /\ UNCHANGED <<disk, digests, verdict, consumed>>

Train == Is("train") /\ Advance /\ UNCHANGED <<disk, digests, verdict, consumed>>

SaveFile ==
  /\ Is("save")
  /\ disk' = [disk EXCEPT ![Here.file] = Trained]
  /\ digests' = [digests EXCEPT !["trained"][Here.file] = Trained]
  /\ Advance /\ UNCHANGED <<verdict, consumed>>

Succeed == outcome = None /\ at > Len(Program) /\ End("succeeded")

\* A missing file, a change during a look, a library, a device, a gate, a cancellation.
Fails == Running /\ End("failed")

-----------------------------------------------------------------------------
(* Somebody else *)

Change ==
  /\ changes < MaxChanges /\ outcome = None
  /\ \E f \in Files : \E c \in Contents \ {disk[f]} :
        /\ disk' = [disk EXCEPT ![f] = c]
        /\ restored' = restored \cup
             {g \in {f} : digests["sealed"][g] = c \/ digests["trained"][g] = c}
  /\ changes' = changes + 1
  /\ UNCHANGED <<choices, digests, verdict, at, consumed, outcome>>

Init ==
  /\ lane \in Lanes /\ supervised \in BOOLEAN /\ permit \in BOOLEAN /\ lossy \in BOOLEAN
  /\ disk \in [Files -> Contents]
  /\ digests = [b \in Books |-> [f \in Files |-> None]] /\ verdict = None
  /\ at = 1 /\ consumed = [f \in Files |-> {}] /\ outcome = None
  /\ restored = {} /\ changes = 0

Next == LookAtFile \/ Assess \/ Format \/ Train \/ SaveFile \/ Succeed \/ Fails \/ Change

Spec == Init /\ [][Next]_vars

TypeOK ==
  /\ lane \in Lanes /\ supervised \in BOOLEAN /\ permit \in BOOLEAN /\ lossy \in BOOLEAN
  /\ disk \in [Files -> Contents]
  /\ digests \in [Books -> [Files -> Contents \cup {None}]]
  /\ verdict \in Contents \cup {None}
  /\ at \in 1..(Len(Program) + 1)
  /\ consumed \in [Files -> SUBSET Contents]
  /\ outcome \in {None, "unplanned", "changed", "unrenderable", "failed", "succeeded"}
  /\ restored \subseteq Files /\ changes \in 0..MaxChanges

-----------------------------------------------------------------------------
(* Properties *)

Same(book1, book2, f) == digests[book1][f] = digests[book2][f]

Started == \E i \in 1..(at - 1) : Program[i].act = "train"

\* A run that trains holds exactly the bytes its plan sealed: of the dataset always, of model
\* and tokenizer unless somebody put the sealed bytes back before the second hash
\* (EFFECTIVE_EXECUTION_CONFIGURATION.md: a succeeded run consumed exactly the sealed bytes,
\* pretraining's corpus and architecture excepted).
TrainsOnSeal ==
  Started =>
    \/ lane = "pretraining"
    \/ /\ consumed["dataset"] = {digests["sealed"]["dataset"]}
       /\ \A f \in {"weights", "tokenizer"} :
             f \in restored \/ consumed[f] = {digests["sealed"][f]}

\* A success names the weights that were trained, in its evidence and in the artifact's
\* manifest: where weights are parsed and hashed in one look always, otherwise unless somebody
\* put them back in between.  The adapter's configuration is as firm in the training lane only
\* (validate_training_success_evidence, _reload_verify_adapter, _admit_terminal_success).
AdmittedIsTrained ==
  outcome = "succeeded" =>
    /\ \/ Same("proposed", "trained", "export")
       \/ ~supervised /\ lane # "training" /\ "export" \in restored
    /\ Same("recorded", "proposed", "export") \/ "export" \in restored
    /\ lane = "training" =>
         Same("proposed", "trained", "config") /\ Same("recorded", "trained", "config")
    /\ lane \in AdapterLanes /\ supervised => Same("recorded", "proposed", "config")

\* With --allow-unrenderable-rows "only the compatible rows train": a plan that was accepted
\* for a dataset is not refused for the rows of the same dataset (platform-plan's help text).
PlannedRowsTrain ==
  outcome = "unrenderable" => verdict \notin consumed["dataset"]
=============================================================================

------------------------- MODULE ParameterAccounting -------------------------
(***************************************************************************)
(* model-inspect --parameter-accounting and parameter-account              *)
(* (platform/parameter_accounting.py): a report of how many parameters a   *)
(* model has, from what its descriptor claims and from the headers of its  *)
(* weight files, and later from what a worker's events say of a run.  Who  *)
(* has the descriptor's file may edit its counts; the weights may change   *)
(* between the inventory and the headers, and between two headers.         *)
(*                                                                         *)
(* Data: a tensor is one coordinate, so that a count is a number of        *)
(* tensors.  An observation is the record below; a gap is its reason.      *)
(***************************************************************************)
EXTENDS ModelInspection

CONSTANTS Edits,       \* sets of counts that a descriptor may hold once it was edited
          Streams      \* sets of observations that a run's events may carry

VARIABLES claims,      \* the descriptor's counts
          headers,     \* shard -> the tensors its header lists, Gap or None
          indexed,     \* weight_map as read, Gap or None
          report,      \* the report on the model
          runtime      \* the report on a run of it

accountingVars == <<claims, headers, indexed, report, runtime>>

\* A count is a number.
AccountingAssumption ==
  /\ SnapshotAssumption
  /\ \A counts \in Edits \cup Streams : \A c \in counts : c.value \in Nat

AccountingInit ==
  /\ InspectionInit
  /\ claims = {} /\ headers = [f \in Shards |-> None] /\ indexed = None
  /\ report = None /\ runtime = None

\* What could not be used.
Gap == Malformed
Statuses == {"complete", "incomplete", "conflicting"}

AccountingTypeOK ==
  /\ InspectionTypeOK
  /\ \A r \in {report, runtime} : r = None \/ r.status \in Statuses
  /\ \A f \in Shards : headers[f] \in {None, Gap} \/ headers[f].tensors # None

-----------------------------------------------------------------------------
(* Claims of the descriptor *)

\* A count of config.json is declared, with handling unknown.
Declared == IF config.count = None THEN {}
            ELSE {[value |-> config.count, evidence |-> "declared", resolved |-> FALSE,
                   window |-> "static-model"]}

\* The bundle's report is made at once; a saved descriptor may be edited first.
StartAccounting ==
  /\ stage = "described" /\ GoTo("headers")
  /\ claims' \in {Declared} \cup Edits
  /\ UNCHANGED <<disk, changes, hashWeights, listing, files, complete, config, topology, tokenizer,
                 fit, headers, indexed, report, runtime>>

\* _descriptor_observations: a measured claim needs a pinned model, an unknown one is no evidence.
Usable(c) == c.evidence # "unknown" /\ (c.evidence = "measured" => Pinned)

Scope == [id |-> "model", universe |-> IF Pinned THEN "snapshot" ELSE "unknown"]

Claimed(c) ==
  [kind |-> "logical", value |-> c.value, scope |-> Scope, window |-> c.window,
   evidence |-> c.evidence, whole |-> TRUE, exact |-> c.evidence # "estimated",
   basis |-> "declared_definition", resolved |-> c.resolved]

ClaimGaps ==
  {"unusable claim" : c \in {d \in claims : ~Usable(d)}} \cup
  (IF Pinned THEN {} ELSE {"unpinned model"})

-----------------------------------------------------------------------------
(* Headers *)

ShardFiles == Shards \cap Inventoried

\* Mutant: a header of the recorded size is taken for the recorded file's.
SameSize(f) ==
  /\ Present(disk[f]) /\ disk[f].size = files[f].size
  /\ disk[f].tensors # Malformed

\* _read_safetensors_header: the file has the recorded size, parses, and is the one that was
\* verified, if it was.
Readable(f) ==
  /\ Present(disk[f]) /\ disk[f].size = files[f].size
  /\ disk[f].tensors # Malformed
  /\ Verified(f) => disk[f] = files[f].digest

\* One shard after the other; a file that changes while it is read is a gap as well.
ReadHeader ==
  /\ stage = "headers"
  /\ LET unread == {f \in ShardFiles : headers[f] = None}
     IN /\ unread # {}
        /\ \E found \in {Gap} \cup (IF Readable(First(unread)) THEN {disk[First(unread)]} ELSE {}) :
             headers' = [headers EXCEPT ![First(unread)] = found]
  /\ UNCHANGED <<inspectionVars, claims, indexed, report, runtime>>

Read == {f \in Shards : headers[f] \notin {None, Gap}}
AllRead == Read = ShardFiles
Tensors(f) == headers[f].tensors
Names == UNION {Tensors(f) : f \in Read}
Total == Cardinality(UNION {{f} \X Tensors(f) : f \in Read})
Repeated == \E f, g \in Read : f # g /\ Tensors(f) \cap Tensors(g) # {}

\* The index lists exactly the recorded shards, and each of their tensors in a shard that has it.
Covers(map) ==
  /\ DOMAIN map = Names /\ {map[t] : t \in DOMAIN map} = Read
  /\ \A t \in DOMAIN map : t \in Tensors(map[t])

\* _read_safetensors_index, if one was recorded and every header was read: a shard index counts
\* only as the file that was verified.
ReadIndex ==
  /\ stage = "headers" /\ \A f \in ShardFiles : headers[f] # None
  /\ GoTo("report")
  /\ indexed' = IF "index" \notin Inventoried \/ Read = {} \/ ~AllRead THEN None
                ELSE IF /\ Present(disk["index"]) /\ disk["index"] # Malformed
                        /\ Verified("index") /\ disk["index"] = files["index"].digest
                        /\ Covers(disk["index"])
                  THEN disk["index"]
                  ELSE Gap
  /\ UNCHANGED <<disk, changes, hashWeights, listing, files, complete, config, topology, tokenizer,
                 fit, claims, headers, report, runtime>>

Indexed == indexed # Gap /\ (indexed = None => Cardinality(ShardFiles) = 1)

Enumerated ==
  /\ complete /\ "pickle" \notin Inventoried
  /\ AllRead /\ ~Repeated /\ Indexed

\* Only a total that every shard's verification backs and that a claim with resolved handling
\* agrees with counts parameters, and not just stored elements.
Agreeing == {c \in claims : c.value = Total /\ c.evidence \in {"declared", "measured"}}
Logical ==
  /\ Enumerated /\ \A f \in Read : Verified(f)
  /\ \E c \in Agreeing : c.resolved

\* A total of stored elements qualifies for nothing, whichever claim's handling it carries.
Header ==
  [kind |-> "logical", value |-> Total,
   scope |-> IF Pinned THEN Scope ELSE [id |-> "inventory", universe |-> "headers"],
   window |-> "safetensors-headers", evidence |-> "measured", whole |-> Enumerated, exact |-> Logical,
   basis |-> IF Logical THEN "independent_coordinates" ELSE "stored_tensor_elements",
   resolved |-> Logical]

\* _safetensors_evidence.
HeaderGaps ==
  {"header" : f \in ShardFiles \ Read} \cup
  (IF Repeated THEN {"repeated names"} ELSE {}) \cup
  (IF Read = {} THEN {"no headers"}
   ELSE (IF AllRead /\ ~Indexed THEN {"index"} ELSE {}) \cup
        (IF ~Logical THEN {"elements not logical"} ELSE {}) \cup
        (IF ~complete \/ "pickle" \in Inventoried THEN {"incomplete inventory"} ELSE {}) \cup
        (IF Enumerated /\ \E f \in Read : ~Verified(f) THEN {"unverified integrity"} ELSE {}) \cup
        (IF claims # {} /\ \A c \in claims : c.value # Total THEN {"disagreement"} ELSE {}))

-----------------------------------------------------------------------------
(* Reports *)

Runtime == {"training_runtime", "inference_runtime", "checkpoint", "evaluation"}

\* _PARAMETER_REQUIRED_KINDS.
Required(profile) ==
  CASE profile = "model_static" -> {"logical"}
    [] profile = "training_runtime" ->
         {"logical", "active_token", "touched_window", "resident", "updated_window",
          "exposed_window"}
    [] profile = "inference_runtime" -> {"logical", "active_token", "touched_window", "resident"}
    [] profile = "checkpoint" -> {"logical", "updated_window"}
    [] profile = "evaluation" -> {"logical", "active_sequence", "touched_window", "resident"}

\* _qualifies: what is measured, whole and exact; of a run, a logical count need not be measured.
Qualifies(profile, o) ==
  /\ o.resolved /\ o.basis \notin {"unknown", "stored_tensor_elements"}
  /\ o.whole /\ o.exact
  /\ (profile = "model_static" \/ o.kind # "logical") => o.evidence = "measured"

Authoritative(o) == o.whole /\ o.exact

Bounded == {"active_token", "active_sequence", "touched_window", "resident", "updated_window",
            "exposed_window"}

\* _derive_conflicts: two counts of one kind, scope and window; a count above the logical one of
\* its scope; more updated than touched in one window; a token that activates more than its
\* sequence, both being of the one sequence that a run has here.
Contradict(o, p) ==
  /\ Authoritative(o) /\ Authoritative(p) /\ o.scope = p.scope
  /\ \/ o.kind = p.kind /\ o.window = p.window /\ o.value # p.value
     \/ o.kind \in Bounded /\ p.kind = "logical" /\ o.value > p.value
     \/ /\ o.kind = "updated_window" /\ p.kind = "touched_window" /\ o.window = p.window
        /\ o.value > p.value
     \/ o.kind = "active_token" /\ p.kind = "active_sequence" /\ o.value > p.value

Conflicting(observations) == \E o, p \in observations : Contradict(o, p)

\* _seal_report.
Sealed(profile, observations, gaps) ==
  LET missing == {k \in Required(profile) :
                    ~\E o \in observations : o.kind = k /\ Qualifies(profile, o)}
  IN [profile |-> profile, observations |-> observations, gaps |-> gaps \cup missing,
      status |-> IF Conflicting(observations) THEN "conflicting"
                 ELSE IF gaps \cup missing # {} THEN "incomplete" ELSE "complete"]

\* build_model_parameter_accounting, with or without the snapshot's headers.
SealReport ==
  /\ stage = "report" /\ GoTo("reported")
  /\ LET claimed == {Claimed(c) : c \in {d \in claims : Usable(d)}}
         read == IF Read = {} THEN {} ELSE {Header}
     IN report' \in {Sealed("model_static", claimed, ClaimGaps),
                     Sealed("model_static", claimed \cup read, ClaimGaps \cup HeaderGaps)}
  /\ UNCHANGED <<disk, changes, hashWeights, listing, files, complete, config, topology, tokenizer,
                 fit, claims, headers, indexed, runtime>>

\* One definition of each scope in a report.
Consistent(observations) ==
  \A o, p \in observations : o.scope.id = p.scope.id => o.scope = p.scope

\* reconcile_parameter_accounting_events: the observations of the model's report and of the run's
\* events; the gaps of the model's report stay behind.
Reconcile ==
  /\ stage = "reported"
  /\ \E profile \in Runtime, stream \in Streams :
       LET observations == report.observations \cup stream
       IN IF Consistent(observations)
            THEN runtime' = Sealed(profile, observations, {}) /\ GoTo("reconciled")
            ELSE GoTo("refused") /\ UNCHANGED runtime
  /\ UNCHANGED <<disk, changes, hashWeights, listing, files, complete, config, topology, tokenizer,
                 fit, claims, headers, indexed, report>>

Accounting == StartAccounting \/ ReadHeader \/ ReadIndex \/ SealReport \/ Reconcile

AccountingNext ==
  \/ Inspecting /\ UNCHANGED accountingVars
  \/ Accounting
  \/ /\ stage \notin {"list", "reported", "reconciled", "refused"}
     /\ \E f \in Files : ChangeFile(f)
     /\ UNCHANGED accountingVars

AccountingOver == stage \in {"paired", "reconciled", "refused"}

-----------------------------------------------------------------------------
(* Properties *)

Digest(f) == files[f].digest

\* What is said of config.json is said of the file whose digest the descriptor has, unless that
\* file had gone when it was read, and the experts are those of its layers, one by one.
ConfigIsPinned ==
  config # None /\ Verified("config") =>
    /\ config \in {Digest("config"), NoConfig}
    /\ topology.status = "detected" =>
         LET m == config.moe
             at == ExpertLayers(config.family, m)
             shared == {"shared"} \X (1..SharedExperts(config.family, m))
             routed == {"routed"} \X (1..m.routed)
         IN /\ at \subseteq 0..m.layers - 1 /\ at # {}
            /\ topology.logical = Cardinality(at \X (routed \cup shared))
            /\ topology.active \in Cardinality(at)..topology.logical

\* The ids that a tokenizer can produce: those of its files, or all below a declared size.
Producible(t) ==
  Range(Vocab(t)) \cup t.pieces \cup Range(t.added) \cup
  (IF t.vocab = None /\ t.declared # None THEN 0..t.declared - 1 ELSE {})

\* The inspector sees every one of them, unless it skips an entry of the vocabulary (a piece with
\* a score) or an added token takes the place of a vocabulary token under another id.
Countable(t) ==
  /\ t.pieces = {}
  /\ \A token \in DOMAIN Vocab(t) \cap DOMAIN t.added : t.added[token] = Vocab(t)[token]

\* A compatible tokenizer has no id without an embedding row and an output row; a resize names
\* enough rows for every id, and resizes whatever has too few.  Of a tokenizer whose ids the
\* inspector does not see all, that holds of the ids that it sees and of the special tokens.
FitIsSound ==
  fit # None =>
    LET ids == Range(Ids(tokenizer)) \cup Known(tokenizer) \cup
               (IF Countable(tokenizer) THEN Producible(tokenizer) ELSE {})
    IN /\ fit.status = "compatible" => \A id \in ids : id < config.vocab
       /\ fit.status = "resize_required" =>
            /\ \A id \in ids : id < fit.rows
            /\ fit.rows > config.vocab /\ fit.input
            /\ config.tied = TRUE => fit.output

\* What a report counts from headers as parameters is the number of different tensors in the
\* weights whose digests the descriptor has, each of which lies in one shard; and a complete
\* report is about a pinned model.
CountIsPinned ==
  report # None =>
    /\ \A o \in report.observations :
         o.basis = "independent_coordinates" =>
           /\ \A f \in Inventoried \cap Weights : f \in Shards /\ Verified(f)
           /\ o.value = Cardinality(UNION {Digest(f).tensors : f \in ShardFiles})
    /\ report.status = "complete" => Pinned /\ \E o \in report.observations : o.evidence = "measured"

\* A run's report does not settle what the model's report left in conflict, and a complete one
\* counts nothing of a run above any total of the same scope, whichever report it comes from.
RunIsConsistent ==
  runtime # None =>
    /\ report.status = "conflicting" => runtime.status = "conflicting"
    /\ runtime.status = "complete" =>
         \A o, p \in runtime.observations :
           /\ o.scope.id = p.scope.id /\ o.kind \in Bounded /\ p.kind = "logical"
           /\ Authoritative(o) /\ Authoritative(p)
           => o.value <= p.value

\* Whatever changes between the walk, the hashes and the later reads, what inspection reports is
\* true of the contents whose digests it reports (docs/PARAMETER_ACCOUNTING.md: "Supplying a
\* different or changed snapshot cannot silently attach evidence to the descriptor's model
\* revision").
InspectionIsTrue ==
  ConfigIsPinned /\ FitIsSound /\ CountIsPinned /\ RunIsConsistent
=============================================================================

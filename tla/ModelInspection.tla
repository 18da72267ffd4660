--------------------------- MODULE ModelInspection ---------------------------
(***************************************************************************)
(* model-inspect: a snapshot directory is walked, its files are hashed,    *)
(* and what config.json and tokenizer.json say becomes a descriptor        *)
(* (platform/model_inspector.py, moe_inspector.py): which experts a token  *)
(* meets, whether the tokenizer's ids fit the model's embedding rows, and  *)
(* a snapshot digest when all of it was verified.  The files are looked at *)
(* one after the other, more than once, and belong to others: a download   *)
(* may still be running.                                                   *)
(*                                                                         *)
(* Data: config.json is a family, what it says of experts, a vocabulary    *)
(* size, whether embeddings are tied, whether custom code is named, a      *)
(* context length and a parameter count; a tokenizer's files are one:      *)
(* vocabulary and added tokens, each from tokens to ids, special tokens, a *)
(* declared size, a limit; a shard is its tensors and its size; a digest   *)
(* is the content.                                                         *)
(***************************************************************************)
EXTENDS Integers, FiniteSets, FiniteSetsExt

CONSTANTS Snapshots,   \* directories to start with: file -> content, Link or None
          Revisions,   \* file -> the contents that others may put there
          MaxChanges,  \* bound on what others do
          Malformed,   \* a content that does not parse
          Link,        \* a symbolic link or junction
          None

VARIABLES disk,        \* the snapshot directory
          changes,
          stage,       \* what the commands are about to do
          hashWeights, \* --hash-weights
          listing,     \* names that os.walk has listed and that are still to be recorded
          files,       \* the inventory: file -> [status, digest, size] or None
          complete,    \* inventory_complete
          config,      \* config.json as parsed
          topology,
          tokenizer,   \* tokenizer.json as hashed, then as described
          fit          \* model-tokenizer compatibility

inspectionVars == <<disk, changes, stage, hashWeights, listing, files, complete, config, topology,
                    tokenizer, fit>>

Shards == {"s1", "s2"}
Weights == Shards \cup {"pickle"}
Walk == <<"config", "s1", "s2", "pickle", "index", "tokenizer">>
Files == {Walk[n] : n \in DOMAIN Walk}

\* The next name of a sorted directory.
First(names) == Walk[Min({n \in DOMAIN Walk : Walk[n] \in names})]

Present(content) == content \notin {None, Link}

\* An absent config.json counts as an empty one.
NoConfig == [family |-> None, moe |-> None, vocab |-> None, tied |-> None, code |-> FALSE,
             context |-> None, count |-> None]

\* What a configuration tells: a number that is negative or none counts as absent.
Describes(c) ==
  /\ DOMAIN c = DOMAIN NoConfig /\ {c.vocab, c.count} \subseteq Nat \cup {None}
  /\ \/ c.moe = None
     \/ /\ {c.moe.layers, c.moe.routed, c.moe.topk, c.moe.freq} \subseteq Nat
        /\ {c.moe.shared, c.moe.prefix} \subseteq Nat \cup {None}

\* What a tokenizer tells.  The vocabulary may be absent; those of its entries that are no plain
\* strings, as the pieces with a score of a list, have ids of their own that the inspector skips.
\* A special token has an explicit id, which may be negative, or none.
Vocab(t) == IF t.vocab = None THEN <<>> ELSE t.vocab

\* ids: an added token takes the place of a vocabulary token of the same content.
Ids(t) ==
  [token \in DOMAIN Vocab(t) \cup DOMAIN t.added |->
     IF token \in DOMAIN t.added THEN t.added[token] ELSE Vocab(t)[token]]

\* _special_tokens: the explicit id, or the token's own; the others have no known id.
Known(t) ==
  LET implicit == {token \in DOMAIN Ids(t) : [token |-> token, id |-> None] \in t.special}
  IN ({s.id : s \in t.special} \ {None}) \cup {Ids(t)[token] : token \in implicit}

\* Of the ids that a file holds one is the largest.
Numbers(ids) == ids \subseteq Int /\ (ids # {} => \E top \in ids : \A id \in ids : id <= top)

Tokenizes(t) ==
  /\ Range(Vocab(t)) \cup Range(t.added) \cup t.pieces \subseteq Nat
  /\ Numbers(Range(Ids(t))) /\ Numbers(Known(t)) /\ IsFiniteSet(DOMAIN Vocab(t))
  /\ t.declared \in Nat \cup {None}

\* What a file may hold.
Holdable(f, c) ==
  \/ c \in {None, Link} \/ f \in {"pickle", "index"}
  \/ f = "config" /\ (c = Malformed \/ Describes(c))
  \/ f = "tokenizer" /\ (c = Malformed \/ Tokenizes(c))
  \/ f \in Shards /\ (c.tensors = Malformed \/ (c.tensors # None /\ IsFiniteSet(c.tensors)))

SnapshotAssumption ==
  /\ MaxChanges \in Nat /\ None \notin Nat
  /\ \A snapshot \in Snapshots :
        DOMAIN snapshot = Files /\ \A f \in Files : Holdable(f, snapshot[f])
  /\ \A f \in Files : \A content \in Revisions[f] : Holdable(f, content)

SizeOf(f, content) == IF f \in Shards THEN content.size ELSE 0

InspectionTypeOK ==
  /\ DOMAIN disk = Files /\ changes \in 0..MaxChanges /\ hashWeights \in BOOLEAN
  /\ listing \subseteq Files /\ complete \in BOOLEAN
  /\ \A f \in Files :
        files[f] = None \/ files[f].status \in {"verified", "not_requested", "unreadable",
                                               "skipped_unsafe"}
  /\ config = None \/ DOMAIN config = DOMAIN NoConfig
  /\ topology = None \/ topology.status \in {"not_checked", "no_recognized_moe_evidence",
                                             "unsupported_family", "incomplete", "detected"}
  /\ fit = None \/ fit.status \in {"resize_required", "unverified", "compatible"}

InspectionInit ==
  /\ disk \in Snapshots /\ changes = 0
  /\ stage = "list" /\ hashWeights \in BOOLEAN
  /\ listing = {} /\ files = [f \in Files |-> None] /\ complete = TRUE
  /\ config = None /\ topology = None /\ tokenizer = None /\ fit = None

GoTo(s) == stage' = s

-----------------------------------------------------------------------------
(* The inventory *)

\* os.walk lists the directory.
ListFiles ==
  /\ stage = "list" /\ GoTo("inventory")
  /\ listing' = {f \in Files : disk[f] # None}
  /\ UNCHANGED <<disk, changes, hashWeights, files, complete, config, topology, tokenizer, fit>>

Recorded(f, status) ==
  [status |-> status, digest |-> IF status = "verified" THEN disk[f] ELSE None,
   size |-> IF status = "skipped_unsafe" THEN 0 ELSE SizeOf(f, disk[f])]

\* How a listed file that is still there can be recorded: a link is not followed, weights are
\* hashed on request, and a file that cannot be read or changes under the hash is unreadable.
Outcomes(f) ==
  IF disk[f] = Link THEN {"skipped_unsafe"}
  ELSE IF f \in Weights /\ ~hashWeights THEN {"not_requested"}
  ELSE {"verified", "unreadable"}

\* _inventory, one file; what has gone since it was listed leaves no record.
RecordFile ==
  /\ stage = "inventory" /\ listing # {}
  /\ LET f == First(listing)
     IN /\ listing' = listing \ {f}
        /\ \/ /\ disk[f] = None /\ complete' = FALSE /\ UNCHANGED files
           \/ /\ disk[f] # None
              /\ \E status \in Outcomes(f) :
                   /\ files' = [files EXCEPT ![f] = Recorded(f, status)]
                   /\ complete' = (complete /\ status \in {"verified", "not_requested"})
  /\ UNCHANGED <<disk, changes, stage, hashWeights, config, topology, tokenizer, fit>>

InventoryDone ==
  /\ stage = "inventory" /\ listing = {} /\ GoTo("config")
  /\ UNCHANGED <<disk, changes, hashWeights, listing, files, complete, config, topology,
                 tokenizer, fit>>

Inventoried == {f \in Files : files[f] # None}

\* snapshot_sha256: everything was recorded and verified.
Pinned == complete /\ Inventoried # {} /\ \A f \in Inventoried : files[f].status = "verified"

Verified(f) == files[f] # None /\ files[f].status = "verified"

\* _load_json refuses a link, another content than the inventory's, and what does not parse.
Loadable(f) ==
  /\ disk[f] # Link
  /\ disk[f] # None => /\ Verified(f) => disk[f] = files[f].digest
                       /\ disk[f] # Malformed

-----------------------------------------------------------------------------
(* Experts (moe_inspector.py) *)

Families == {"mixtral", "qwen2_moe", "deepseek_v3"}

\* The layers with experts: all of them; every freq-th but the dense ones; every freq-th from the
\* dense prefix on.
ExpertLayers(family, m) ==
  CASE family = "mixtral" -> 0..m.layers - 1
    [] family = "qwen2_moe" -> {l \in 0..m.layers - 1 : l \notin m.dense /\ (l + 1) % m.freq = 0}
    [] family = "deepseek_v3" -> {l \in m.prefix..m.layers - 1 : l % m.freq = 0}

SharedExperts(family, m) ==
  CASE family = "mixtral" -> 0 [] family = "qwen2_moe" -> 1 [] family = "deepseek_v3" -> m.shared

\* A positive number that is missing counts as zero; an absent frequency of deepseek and absent
\* dense layers have defaults.
Complete(family, m) ==
  /\ m # None
  /\ m.layers > 0 /\ m.routed > 0 /\ m.topk \in 1..m.routed
  /\ family # "mixtral" => m.freq > 0
  /\ family = "qwen2_moe" => m.dense \subseteq 0..m.layers - 1 /\ m.shared \notin {0, None}
  /\ family = "deepseek_v3" => /\ m.shared # None
                               /\ m.prefix # None /\ m.prefix < m.layers
  /\ ExpertLayers(family, m) # {}

Detected(family, m) ==
  LET n == Cardinality(ExpertLayers(family, m))
      shared == n * SharedExperts(family, m)
  IN [status |-> "detected", layers |-> ExpertLayers(family, m), topk |-> m.topk,
      logical |-> n * m.routed + shared, active |-> n * m.topk + shared]

Undetected(status) == [status |-> status, layers |-> {}, topk |-> 0, logical |-> 0, active |-> 0]

\* inspect_moe_topology: nothing is said of a config without digest.
Topology(c, digest) ==
  CASE digest = None -> Undetected("not_checked")
    [] digest # None /\ c.family \in Families ->
         IF Complete(c.family, c.moe) THEN Detected(c.family, c.moe) ELSE Undetected("incomplete")
    [] OTHER -> Undetected(IF c.moe # None \/ c.family = "other_moe" THEN "unsupported_family"
                           ELSE "no_recognized_moe_evidence")

-----------------------------------------------------------------------------
(* The descriptors *)

\* inspect_model: config.json must be loadable, and there must be a config or weights.  What has
\* gone since the inventory counts as absent, although its digest stays in the descriptor.
DescribeModel ==
  /\ stage = "config"
  /\ LET c == IF disk["config"] = None THEN NoConfig ELSE disk["config"]
         digest == IF Verified("config") THEN files["config"].digest ELSE None
     IN IF Loadable("config") /\ (c # NoConfig \/ Inventoried \cap Weights # {})
          THEN config' = c /\ topology' = Topology(c, digest) /\ GoTo("described")
          ELSE GoTo("refused") /\ UNCHANGED <<config, topology>>
  /\ UNCHANGED <<disk, changes, hashWeights, listing, files, complete, tokenizer, fit>>

\* _inventory_hash of tokenizer.json, in the inventory of the tokenizer's directory, which is the
\* model's here; a file that cannot be hashed is not compared later.
HashTokenizer ==
  /\ stage = "described" /\ Present(disk["tokenizer"])
  /\ tokenizer' \in {disk["tokenizer"], None} /\ GoTo("tokenizer")
  /\ UNCHANGED <<disk, changes, hashWeights, listing, files, complete, config, topology, fit>>

\* What has gone since it was hashed counts as absent.
NoTokenizer ==
  [vocab |-> None, pieces |-> {}, added |-> <<>>, special |-> {}, declared |-> None,
   limit |-> None, code |-> FALSE]

\* The base vocabulary: the plain tokens, be there any or not; without a vocabulary what
\* tokenizer_config declares.
Base(t) == IF t.vocab = None THEN t.declared ELSE Cardinality(DOMAIN t.vocab)

\* The effective vocabulary: one above the largest id.
Effective(t) == IF DOMAIN Ids(t) # {} THEN Max(Range(Ids(t))) + 1 ELSE Base(t)

\* TokenizerDescriptor: the effective vocabulary is not below the base one, and no special token
\* has a negative id.
Describable(t) ==
  /\ Base(t) # None /\ Effective(t) # None => Effective(t) >= Base(t)
  /\ Known(t) \subseteq Nat

Exceeds(need, rows) == need # None /\ rows # None /\ need > rows

\* check_model_tokenizer_compatibility, which takes both row counts from config.vocab_size.  A
\* special token above the input rows asks for a resize of both when they are tied.
Compatibility(input, output, c, t) ==
  LET need == Effective(t)
      special == IF input # None /\ Known(t) # {} THEN Max(Known(t)) ELSE None
      above == special # None /\ special >= input
      resizeInput == Exceeds(need, input) \/ above
      resizeOutput == \/ Exceeds(need, output)
                      \/ above /\ (c.tied = TRUE \/ (output # None /\ special >= output))
      unchecked == \/ need = None \/ input = None \/ output = None
                   \/ special = None
                   \/ c.context = None \/ t.limit = None
                   \/ c.code \/ t.code
  IN [status |-> IF resizeInput \/ resizeOutput THEN "resize_required"
                 ELSE IF unchecked THEN "unverified" ELSE "compatible",
      rows |-> IF above THEN Max({special + 1, IF need = None THEN 0 ELSE need}) ELSE need,
      input |-> resizeInput, output |-> resizeOutput]

\* inspect_tokenizer and the compatibility with the model.
DescribeTokenizer ==
  /\ stage = "tokenizer"
  /\ LET t == IF disk["tokenizer"] = None THEN NoTokenizer ELSE disk["tokenizer"]
     IN IF /\ t \notin {Link, Malformed} /\ (tokenizer # None => t \in {tokenizer, NoTokenizer})
           /\ Describable(t)
          THEN /\ tokenizer' = t /\ GoTo("paired")
               /\ fit' = Compatibility(config.vocab, config.vocab, config, t)
          ELSE GoTo("refused") /\ UNCHANGED <<tokenizer, fit>>
  /\ UNCHANGED <<disk, changes, hashWeights, listing, files, complete, config, topology>>

Inspecting ==
  ListFiles \/ RecordFile \/ InventoryDone \/ DescribeModel \/ HashTokenizer \/ DescribeTokenizer

-----------------------------------------------------------------------------
(* Others at work in the snapshot *)

ChangeFile(f) ==
  /\ changes < MaxChanges /\ changes' = changes + 1
  /\ \E content \in Revisions[f] : content # disk[f] /\ disk' = [disk EXCEPT ![f] = content]
  /\ UNCHANGED <<stage, hashWeights, listing, files, complete, config, topology, tokenizer, fit>>
=============================================================================

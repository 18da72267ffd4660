---------------------------- MODULE VersionStore ----------------------------
(***************************************************************************)
(* The dataset of a CorpusStudio project (examples.jsonl) and its version  *)
(* store (dataset_versions/: the append-only, content-addressed row store, *)
(* one row-id manifest and one record per version), as the CLI processes   *)
(* that share the project directory change them: append, edit or delete    *)
(* with an undo version, restore in place, import-commit, version-create   *)
(* and row-store GC.                                                       *)
(*                                                                         *)
(* A row stands for its own sha256 row id and a sequence of rows for its   *)
(* content fingerprint: both hashes are taken to be injective.  A line of  *)
(* the row store is the row it holds, or Torn when no reader can parse it; *)
(* tailOpen says that the last line has no newline yet, so that whatever   *)
(* is appended next is glued onto it.                                      *)
(*                                                                         *)
(* Two locks order the processes: the single-writer lock of examples.jsonl *)
(* (taken without waiting) and the version-store lock (a bounded wait).    *)
(* The kernel drops both when their holder dies.                           *)
(***************************************************************************)
EXTENDS SequencesExt

CONSTANTS
  Procs,      \* the processes working in the project directory
  Rows,       \* the well-formed rows
  Versions,   \* the version ids that can be minted
  Operations, \* the commands the processes issue
  MaxRows,    \* bound: rows of examples.jsonl
  MaxFaults,  \* bound: crashes, I/O errors and torn manifests
  Malformed,  \* a line of examples.jsonl that is not a JSON row
  Torn,       \* a line of the row store that no reader can parse
  None        \* no owner, no value

AllOperations ==
  {"append", "mutate", "restore", "import", "version", "fingerprint", "gc"}

ASSUME ConstantsAssumption ==
  /\ Operations \subseteq AllOperations /\ None \notin AllOperations
  /\ MaxRows \in Nat /\ MaxFaults \in Nat
  /\ None \notin Procs \cup Rows \cup Versions
  /\ Malformed \notin Rows /\ Torn \notin Rows
  /\ None \notin Seq(Rows) /\ None \notin Nat
  /\ None \notin [content : Seq(Rows) \cup {None}, stored : BOOLEAN]

VARIABLES
  examples,   \* the lines of examples.jsonl
  store,      \* the lines of the row store
  tailOpen,   \* the last line of the row store is not newline-terminated
  manifest,   \* per version id: the ordered row ids, or None
  record,     \* per version id: the version record, or None
  writerLock, \* the process holding examples.jsonl's writer lock, or None
  storeLock,  \* the process holding the version-store lock, or None
  pc,         \* per process: where it is in its command
  op,         \* per process: the command it runs
  lines,      \* per process: the lines it read or is about to write
  cap,        \* per process: the rows its capture read, None if unreadable
  buf,        \* per process: rows written to the store handle, not on disk
  mid,        \* per process: the first of them is half on disk
  size,       \* per process: the store's size before its capture
  failed,     \* per process: its capture could not store the rows
  vid,        \* per process: the version it published
  live,       \* per process: the row ids its GC must keep
  faults      \* crashes, I/O errors and torn manifests so far

files  == <<examples, store, tailOpen, manifest, record>>
locals == <<lines, cap, buf, mid, size, failed, vid, live>>
vars   == <<files, writerLock, storeLock, pc, op, locals, faults>>

Records == [content : Seq(Rows) \cup {None}, stored : BOOLEAN]

-----------------------------------------------------------------------------
(* Helpers *)

\* The rows a reader of the row store finds in it.
StoredRows == ToSet(store) \ {Torn}

\* Faulty variant: the capture does not stop at a malformed line.
GoodRowsUnchecked == examples

\* The longest prefix of examples.jsonl without a malformed line.
GoodRows ==
  SubSeq(examples, 1,
         CHOOSE n \in 0 .. Len(examples) :
           /\ Malformed \notin ToSet(SubSeq(examples, 1, n))
           /\ n < Len(examples) => examples[n + 1] = Malformed)

\* The sequences that list the finite set S in increasing order of key.
Listings(S, key) ==
  {f \in [1 .. Cardinality(S) -> S] :
     /\ ToSet(f) = S
     /\ \A i, j \in DOMAIN f : i < j => key[f[i]] < key[f[j]]}

\* The members of S in the order in which s first shows them.
InOrderOf(S, s) ==
  Listings(S, [x \in S |-> CHOOSE i \in DOMAIN s :
                             s[i] = x /\ \A j \in 1 .. i-1 : s[j] # x])

\* The part of s at the indices K.
Selections(s, K) == {[i \in DOMAIN f |-> s[f[i]]] : f \in Listings(K, [k \in K |-> k])}

\* The version v can be rebuilt row for row and matches its fingerprint.
Reconstructs(v) ==
  /\ record[v] # None /\ record[v].stored
  /\ manifest[v] # None /\ manifest[v] = record[v].content
  /\ ToSet(manifest[v]) \subseteq StoredRows

\* Faulty variant: GC takes every manifest at its word.
ManifestUnchecked(v) == TRUE

\* GC trusts a manifest unless its committed record declares another count.
ManifestAgrees(v) ==
  (record[v] # None /\ record[v].stored)
    => Len(manifest[v]) = Len(record[v].content)

ReferencedRowIds == UNION {ToSet(manifest[v]) : v \in {w \in Versions : manifest[w] # None}}

\* The ids nobody minted.  An id carries a timestamp and a random token.
FreshVersions ==
  {v \in Versions : manifest[v] = None /\ record[v] = None /\ \A p \in Procs : vid[p] # v}

Publishing == {p \in Procs : op[p] \in {"mutate", "restore", "import", "version"} /\ vid[p] = None}

\* Bound: a command that publishes starts while ids remain for it.
IdsRemain == Cardinality(FreshVersions) > Cardinality(Publishing)

\* What delete (and clean) and edit make of the current lines.
Deletions(s) == UNION {Selections(s, K) : K \in (SUBSET DOMAIN s) \ {DOMAIN s}}
Edits(s) == {[s EXCEPT ![i] = r] : i \in DOMAIN s, r \in Rows}

Goto(p, label) == pc' = [pc EXCEPT ![p] = label]

\* p leaves its command: it drops the locks it holds and forgets its locals.
Leave(p) ==
  /\ pc' = [pc EXCEPT ![p] = "idle"]
  /\ op' = [op EXCEPT ![p] = None]
  /\ writerLock' = IF writerLock = p THEN None ELSE writerLock
  /\ storeLock' = IF storeLock = p THEN None ELSE storeLock
  /\ lines' = [lines EXCEPT ![p] = <<>>]
  /\ cap' = [cap EXCEPT ![p] = <<>>]
  /\ buf' = [buf EXCEPT ![p] = <<>>]
  /\ mid' = [mid EXCEPT ![p] = FALSE]
  /\ size' = [size EXCEPT ![p] = None]
  /\ failed' = [failed EXCEPT ![p] = FALSE]
  /\ vid' = [vid EXCEPT ![p] = None]
  /\ live' = [live EXCEPT ![p] = {}]

Fault == faults < MaxFaults /\ faults' = faults + 1

-----------------------------------------------------------------------------
Init ==
  /\ examples \in UNION {[1 .. n -> Rows \cup {Malformed}] : n \in 0 .. MaxRows}
  /\ store = <<>> /\ tailOpen = FALSE
  /\ manifest = [v \in Versions |-> None]
  /\ record = [v \in Versions |-> None]
  /\ writerLock = None /\ storeLock = None
  /\ pc = [p \in Procs |-> "idle"]
  /\ op = [p \in Procs |-> None]
  /\ lines = [p \in Procs |-> <<>>]
  /\ cap = [p \in Procs |-> <<>>]
  /\ buf = [p \in Procs |-> <<>>]
  /\ mid = [p \in Procs |-> FALSE]
  /\ size = [p \in Procs |-> None]
  /\ failed = [p \in Procs |-> FALSE]
  /\ vid = [p \in Procs |-> None]
  /\ live = [p \in Procs |-> {}]
  /\ faults = 0

-----------------------------------------------------------------------------
(* Starting a command *)

Starts(p, o, label) ==
  /\ pc[p] = "idle" /\ o \in Operations
  /\ op' = [op EXCEPT ![p] = o]
  /\ Goto(p, label)

\* Faulty variant: a platform without flock, where the lock is a no-op.
NoWriterLock(p) == writerLock' = p

\* The writer lock is tried once: a held lock refuses the command.
TakeWriterLock(p) == writerLock = None /\ writerLock' = p

\* append_examples: lock, then read the existing lines.
StartAppend(p) ==
  /\ Starts(p, "append", "append")
  /\ TakeWriterLock(p)
  /\ lines' = [lines EXCEPT ![p] = examples]
  /\ UNCHANGED <<files, storeLock, cap, buf, mid, size, failed, vid, live, faults>>

\* _apply_examples_mutation: lock, read, and compute the new lines first.
StartMutate(p) ==
  /\ Starts(p, "mutate", "want_store")
  /\ IdsRemain
  /\ TakeWriterLock(p)
  /\ \E new \in Deletions(examples) \cup Edits(examples) :
       lines' = [lines EXCEPT ![p] = new]
  /\ UNCHANGED <<files, storeLock, cap, buf, mid, size, failed, vid, live, faults>>

\* dataset-version-restore --in-place rebuilds the version before any lock.
StartRestore(p) ==
  /\ Starts(p, "restore", "restore_lock")
  /\ IdsRemain
  /\ \E v \in Versions :
       /\ Reconstructs(v)
       /\ lines' = [lines EXCEPT ![p] = manifest[v]]
  /\ UNCHANGED <<files, writerLock, storeLock, cap, buf, mid, size, failed, vid, live, faults>>

RestoreLock(p) ==
  /\ pc[p] = "restore_lock"
  /\ TakeWriterLock(p)
  /\ Goto(p, "want_store")
  /\ UNCHANGED <<files, storeLock, op, locals, faults>>

\* The writer lock is held elsewhere: the restore is refused.
RestoreRefused(p) ==
  /\ pc[p] = "restore_lock" /\ writerLock # None
  /\ Leave(p)
  /\ UNCHANGED <<files, faults>>

\* import-commit: the writer lock first, then the store lock.
StartImport(p) ==
  /\ Starts(p, "import", "want_store")
  /\ IdsRemain
  /\ TakeWriterLock(p)
  /\ UNCHANGED <<files, storeLock, locals, faults>>

\* dataset-version-create and dataset-version-gc take the store lock only.
StartStoreOnly(p) ==
  /\ \/ Starts(p, "version", "want_store") /\ IdsRemain
     \/ Starts(p, "gc", "want_store")
  /\ UNCHANGED <<files, writerLock, storeLock, locals, faults>>

\* dataset-version-create --no-store-rows: no row, no manifest, no lock.
FingerprintOnly(p) ==
  /\ pc[p] = "idle" /\ "fingerprint" \in Operations
  /\ IdsRemain
  /\ \E v \in FreshVersions :
       record' = [record EXCEPT ![v] =
         [content |-> IF Malformed \in ToSet(examples) THEN None ELSE examples,
          stored |-> FALSE]]
  /\ UNCHANGED <<examples, store, tailOpen, manifest, writerLock, storeLock,
                 pc, op, locals, faults>>
-----------------------------------------------------------------------------
(* append: the atomic replace, under the writer lock throughout *)

CommitAppend(p) ==
  /\ pc[p] = "append"
  /\ \E r \in Rows :
       /\ Len(lines[p]) < MaxRows
       /\ examples' = Append(lines[p], r)
  /\ Leave(p)
  /\ UNCHANGED <<store, tailOpen, manifest, record, faults>>

\* Nothing to append (no valid row, or the bound MaxRows).
EmptyAppend(p) ==
  /\ pc[p] = "append"
  /\ Leave(p)
  /\ UNCHANGED <<files, faults>>

-----------------------------------------------------------------------------
(* The version-store lock *)

\* Faulty variant: GC does not take the lock, only the others do.
AcquireStoreButGC(p) ==
  /\ pc[p] = "want_store" /\ (storeLock = None \/ op[p] = "gc")
  /\ storeLock' = IF op[p] = "gc" THEN storeLock ELSE p
  /\ Goto(p, CASE op[p] = "import" -> "import_append"
               [] op[p] = "gc"     -> "gc_scan"
               [] OTHER            -> "capture")
  /\ UNCHANGED <<files, writerLock, op, locals, faults>>

AcquireStore(p) ==
  /\ pc[p] = "want_store" /\ storeLock = None
  /\ storeLock' = p
  /\ Goto(p, CASE op[p] = "import" -> "import_append"
               [] op[p] = "gc"     -> "gc_scan"
               [] OTHER            -> "capture")
  /\ UNCHANGED <<files, writerLock, op, locals, faults>>

\* Faulty variant: the busy error leaves the writer lock behind.
StoreBusyKeepsLock(p) ==
  /\ pc[p] = "want_store" /\ storeLock # None
  /\ Goto(p, "idle")
  /\ op' = [op EXCEPT ![p] = None]
  /\ UNCHANGED <<files, writerLock, storeLock, locals, faults>>

\* VersionStoreBusyError after the bounded wait: nothing was written.
StoreBusy(p) ==
  /\ pc[p] = "want_store" /\ storeLock # None
  /\ Leave(p)
  /\ UNCHANGED <<files, faults>>

\* import_commit appends its rows once it holds both locks.
ImportAppend(p) ==
  /\ pc[p] = "import_append"
  /\ \/ Len(examples) < MaxRows /\ \E r \in Rows : examples' = Append(examples, r)
     \/ Len(examples) = MaxRows /\ UNCHANGED examples
  /\ Goto(p, "capture")
  /\ UNCHANGED <<store, tailOpen, manifest, record, writerLock, storeLock, op,
                 locals, faults>>

-----------------------------------------------------------------------------
(* _capture_pass, under the version-store lock *)

\* Faulty variant: a torn tail is left as it is.
LeaveTail(p) ==
  /\ pc[p] = "capture"
  /\ Goto(p, "scan")
  /\ UNCHANGED <<files, writerLock, storeLock, op, locals, faults>>

\* terminate_torn_tail.  When it fails, the capture stores nothing.
TerminateTail(p) ==
  /\ pc[p] = "capture"
  /\ \/ tailOpen' = FALSE /\ UNCHANGED <<failed, faults>>
     \/ Fault /\ failed' = [failed EXCEPT ![p] = TRUE] /\ UNCHANGED tailOpen
  /\ Goto(p, "scan")
  /\ UNCHANGED <<examples, store, manifest, record, writerLock, storeLock, op,
                 lines, cap, buf, mid, size, vid, live>>

\* load_row_id_set, stat, and the read of examples.jsonl: every row whose id
\* is not stored yet is written to the append handle, once.  An error while
\* the ids are read leaves the ones read so far; a failing stat leaves the
\* size unknown.
ScanAndRead(p) ==
  /\ pc[p] = "scan"
  /\ \E n \in 0 .. Len(store), known \in BOOLEAN :
       LET new == ToSet(GoodRows) \ ToSet(SubSeq(store, 1, n)) IN
       /\ IF n = Len(store) /\ known THEN UNCHANGED faults ELSE Fault
       /\ size' = [size EXCEPT ![p] = IF known THEN Len(store) ELSE None]
       /\ \E b \in InOrderOf(IF failed[p] THEN {} ELSE new, GoodRows) :
            buf' = [buf EXCEPT ![p] = b]
  /\ cap' = [cap EXCEPT ![p] = IF Malformed \in ToSet(examples) THEN None ELSE examples]
  /\ Goto(p, "write")
  /\ UNCHANGED <<files, writerLock, storeLock, op, lines, mid, failed, vid, live>>

\* The store after the next line of p's handle has been written to its end.
\* An unterminated last line swallows it, unless it is the line's own half; a
\* second half on its own is no row.
SpillLine(p) ==
  LET r == Head(buf[p]) IN
  /\ store' = IF tailOpen
              THEN [store EXCEPT ![Len(store)] = IF mid[p] THEN r ELSE Torn]
              ELSE Append(store, IF mid[p] THEN Torn ELSE r)
  /\ tailOpen' = FALSE
  /\ buf' = [buf EXCEPT ![p] = Tail(@)]
  /\ mid' = [mid EXCEPT ![p] = FALSE]

\* The write stops inside the line: before its newline, or inside the row.
SpillHalf(p) ==
  /\ ~mid[p]
  /\ store' \in IF tailOpen THEN {[store EXCEPT ![Len(store)] = Torn]}
                ELSE {Append(store, Torn), Append(store, Head(buf[p]))}
  /\ tailOpen' = TRUE
  /\ mid' = [mid EXCEPT ![p] = TRUE]
  /\ UNCHANGED buf

\* Buffered rows reach the disk: before and during the final flush, or from
\* the destructor of a handle whose flush had failed.
Spill(p) ==
  /\ pc[p] \in {"write", "late_flush"} /\ buf[p] # <<>>
  /\ SpillLine(p) \/ SpillHalf(p)
  /\ UNCHANGED <<examples, manifest, record, writerLock, storeLock, pc, op,
                 lines, cap, size, failed, vid, live, faults>>

\* flush, fsync or close raised OSError: close() is skipped.
FlushFails(p) ==
  /\ pc[p] = "write"
  /\ IF buf[p] = <<>> /\ size[p] # None THEN Len(store) > size[p] ELSE TRUE
  /\ Fault
  /\ failed' = [failed EXCEPT ![p] = TRUE]
  /\ Goto(p, "rollback")
  /\ UNCHANGED <<files, writerLock, storeLock, op, lines, cap, buf, mid, size, vid, live>>

\* Every buffered row is on disk and the handle is closed.
CloseStore(p) ==
  /\ pc[p] = "write" /\ buf[p] = <<>>
  /\ Goto(p, IF failed[p] \/ cap[p] = None THEN "rollback" ELSE "manifest")
  /\ UNCHANGED <<files, writerLock, storeLock, op, locals, faults>>

\* Faulty variant: an unknown size is taken for an empty store.
TruncateUnknown(p) ==
  LET n == IF size[p] = None THEN 0 ELSE size[p] IN
  IF Len(store) > n
  THEN store' = SubSeq(store, 1, n) /\ tailOpen' = FALSE
  ELSE UNCHANGED <<store, tailOpen>>

\* _truncate_row_store: only ever shrinks, and not to an unknown size.
Truncate(p) ==
  IF size[p] # None /\ Len(store) > size[p]
  THEN store' = SubSeq(store, 1, size[p]) /\ tailOpen' = FALSE
  ELSE UNCHANGED <<store, tailOpen>>

Rollback(p) ==
  /\ pc[p] = "rollback"
  /\ \/ Truncate(p) /\ UNCHANGED faults
     \/ Fault /\ UNCHANGED <<store, tailOpen>>
  /\ Goto(p, IF buf[p] = <<>> THEN "record" ELSE "late_flush")
  /\ UNCHANGED <<examples, manifest, record, writerLock, storeLock, op, locals>>

\* _capture_pass returns: what its handle still buffers is gone.
CaptureReturns(p) ==
  /\ pc[p] = "late_flush"
  /\ buf' = [buf EXCEPT ![p] = <<>>]
  /\ mid' = [mid EXCEPT ![p] = FALSE]
  /\ Goto(p, "record")
  /\ UNCHANGED <<files, writerLock, storeLock, op, lines, cap, size, failed, vid, live, faults>>

-----------------------------------------------------------------------------
(* publish_dataset_version: manifest first, the record is the commit point *)

SaveManifest(p) ==
  /\ pc[p] = "manifest"
  /\ \E v \in FreshVersions :
       /\ manifest' = [manifest EXCEPT ![v] = cap[p]]
       /\ vid' = [vid EXCEPT ![p] = v]
  /\ Goto(p, "record")
  /\ UNCHANGED <<examples, store, tailOpen, record, writerLock, storeLock, op,
                 lines, cap, buf, mid, size, failed, live, faults>>

SaveRecord(p) ==
  /\ pc[p] = "record"
  /\ \E v \in IF vid[p] = None THEN FreshVersions ELSE {vid[p]} :
       /\ record' = [record EXCEPT ![v] =
            [content |-> cap[p], stored |-> ~failed[p] /\ cap[p] # None]]
       /\ IF op[p] \in {"mutate", "restore"}
          THEN /\ storeLock' = None
               /\ vid' = [vid EXCEPT ![p] = v]
               /\ Goto(p, "verify")
               /\ UNCHANGED <<writerLock, op, lines, cap, buf, mid, size, failed, live>>
          ELSE Leave(p)
  /\ UNCHANGED <<examples, store, tailOpen, manifest, faults>>

-----------------------------------------------------------------------------
(* The undo version is proved restorable before the overwrite *)

\* Faulty variant: any record will do, its rows need not be stored.
UndoRecorded(p) == record[vid[p]].content # None

UndoVerified(p) ==
  LET undo == record[vid[p]] IN
  /\ undo.content # None
  /\ undo.content # <<>> => Reconstructs(vid[p])

VerifyUndo(p) ==
  /\ pc[p] = "verify" /\ UndoVerified(p)
  /\ Goto(p, "replace")
  /\ UNCHANGED <<files, writerLock, storeLock, op, locals, faults>>

RefuseUndo(p) ==
  /\ pc[p] = "verify" /\ ~UndoVerified(p)
  /\ Leave(p)
  /\ UNCHANGED <<files, faults>>

\* replace_examples_lines_locked, then the writer lock is released.
Replace(p) ==
  /\ pc[p] = "replace"
  /\ examples' = lines[p]
  /\ Leave(p)
  /\ UNCHANGED <<store, tailOpen, manifest, record, faults>>

-----------------------------------------------------------------------------
(* gc_row_store *)

\* collect_referenced_row_ids, when every manifest can be trusted.
ScanManifests(p) ==
  /\ pc[p] = "gc_scan" /\ \A v \in Versions : manifest[v] # None => ManifestAgrees(v)
  /\ live' = [live EXCEPT ![p] = ReferencedRowIds]
  /\ Goto(p, "gc_swap")
  /\ UNCHANGED <<files, writerLock, storeLock, op, lines, cap, buf, mid, size, failed, vid, faults>>

\* IncompleteReferenceScanError: nothing is pruned.
RefuseScan(p) ==
  /\ pc[p] = "gc_scan" /\ \E v \in Versions : manifest[v] # None /\ ~ManifestAgrees(v)
  /\ Leave(p)
  /\ UNCHANGED <<files, faults>>

\* GC keeps what it cannot classify and every referenced row.
KeptLines(ids) == {i \in DOMAIN store : store[i] = Torn \/ store[i] \in ids}

\* The rewrite ends every kept line; without a row to prune there is none.
SwapStore(p) ==
  /\ pc[p] = "gc_swap"
  /\ IF KeptLines(live[p]) = DOMAIN store
     THEN UNCHANGED <<store, tailOpen>>
     ELSE store' \in Selections(store, KeptLines(live[p])) /\ tailOpen' = FALSE
  /\ Leave(p)
  /\ UNCHANGED <<examples, manifest, record, faults>>

-----------------------------------------------------------------------------
(* The environment *)

\* p dies, or an uncaught error ends its command: the kernel (or the context
\* managers) release its locks, buffered rows are lost.
Crash(p) ==
  /\ pc[p] # "idle"
  /\ Fault
  /\ Leave(p)
  /\ UNCHANGED files

\* A manifest loses its last lines outside the protocol.
TearManifest(v) ==
  /\ manifest[v] \notin {None, <<>>}
  /\ Fault
  /\ \E n \in 0 .. Len(manifest[v]) - 1 :
       manifest' = [manifest EXCEPT ![v] = SubSeq(@, 1, n)]
  /\ UNCHANGED <<examples, store, tailOpen, record, writerLock, storeLock, pc, op, locals>>

-----------------------------------------------------------------------------
Starting(p) == StartAppend(p) \/ StartMutate(p) \/ StartRestore(p)
               \/ StartImport(p) \/ StartStoreOnly(p) \/ FingerprintOnly(p)

\* What a command does by itself once it runs.
Running(p) ==
  \/ CommitAppend(p) \/ EmptyAppend(p)
  \/ RestoreLock(p) \/ RestoreRefused(p)
  \/ AcquireStore(p) \/ StoreBusy(p) \/ ImportAppend(p)
  \/ TerminateTail(p) \/ ScanAndRead(p) \/ Spill(p) \/ FlushFails(p)
  \/ CloseStore(p) \/ Rollback(p) \/ CaptureReturns(p)
  \/ SaveManifest(p) \/ SaveRecord(p)
  \/ VerifyUndo(p) \/ RefuseUndo(p) \/ Replace(p)
  \/ ScanManifests(p) \/ RefuseScan(p) \/ SwapStore(p)

Next ==
  \/ \E p \in Procs : Starting(p) \/ Running(p) \/ Crash(p)
  \/ \E v \in Versions : TearManifest(v)

Spec == Init /\ [][Next]_vars

\* A running command is scheduled until it ends; nobody has to start one.
FairSpec == Spec /\ \A p \in Procs : WF_vars(Running(p))

-----------------------------------------------------------------------------
(* Properties *)

TypeOK ==
  /\ examples \in Seq(Rows \cup {Malformed})
  /\ store \in Seq(Rows \cup {Torn})
  /\ tailOpen \in BOOLEAN
  /\ tailOpen => store # <<>>
  /\ manifest \in [Versions -> Seq(Rows) \cup {None}]
  /\ record \in [Versions -> Records \cup {None}]
  /\ writerLock \in Procs \cup {None} /\ storeLock \in Procs \cup {None}
  /\ pc \in [Procs -> {"idle", "append", "restore_lock", "want_store", "import_append",
                       "capture", "scan", "write", "rollback", "late_flush", "manifest",
                       "record", "verify", "replace", "gc_scan", "gc_swap"}]
  /\ op \in [Procs -> Operations \cup {None}]
  /\ lines \in [Procs -> Seq(Rows \cup {Malformed})]
  /\ cap \in [Procs -> Seq(Rows) \cup {None}]
  /\ buf \in [Procs -> Seq(Rows)]
  /\ mid \in [Procs -> BOOLEAN]
  /\ size \in [Procs -> Nat \cup {None}]
  /\ failed \in [Procs -> BOOLEAN]
  /\ vid \in [Procs -> Versions \cup {None}]
  /\ live \in [Procs -> SUBSET (Rows \cup {Torn})]
  /\ faults \in Nat

Published(v) == record[v] # None /\ record[v].stored

\* Whatever crashes, I/O errors, garbage collections and torn manifests did,
\* the row store still holds every row of every version whose record says its
\* rows are stored (version_registry: the record is the commit point; gc:
\* never a referenced row, and nothing on a manifest it cannot trust).
PublishedRowsKept ==
  \A v \in Versions : Published(v) => ToSet(record[v].content) \subseteq StoredRows

\* examples.jsonl never loses rows that no version holds: any change extends
\* it, or finds its current contents stored as a version (the verified undo of
\* _apply_examples_mutation and of restore; the locked read-and-replace of
\* append_examples, which an unlocked writer would turn into a lost update).
Recoverable(s) ==
  s = <<>> \/ \E v \in Versions : /\ Published(v) /\ record[v].content = s
                                  /\ ToSet(s) \subseteq StoredRows

NoRowLostWithoutVersion ==
  [][IsPrefix(examples, examples') \/ Recoverable(examples)]_vars

\* No command keeps a lock for ever: every path out of every command, refusals
\* and errors included, releases the writer lock and the version-store lock.
LocksReleased ==
  \A p \in Procs : /\ writerLock = p ~> writerLock # p
                   /\ storeLock = p ~> storeLock # p

\* What capture_dataset documents: a capture whose store writes failed, and
\* whose rollback went through, leaves the row store at its former size.
FailedCaptureLeavesNothing ==
  \A p \in Procs : (pc[p] = "record" /\ failed[p] /\ size[p] # None)
                     => Len(store) <= size[p]

\* What import-commit documents: an import that ran to its end leaves a version
\* from which the dataset it committed can be restored.
ImportIsUndoable ==
  [][\A p \in Procs : (op[p] = "import" /\ pc[p] = "record" /\ faults' = faults /\ pc'[p] = "idle")
                        => Recoverable(examples)']_vars
-----------------------------------------------------------------------------
(* The dataset history that these files stand for *)

RestorableHistory ==
  {<<v, record[v].content>> : v \in
     {w \in Versions : Published(w) /\ ToSet(record[w].content) \subseteq StoredRows}}

History == INSTANCE DatasetHistory WITH
  Lines <- Rows \cup {Malformed}, contents <- examples, history <- RestorableHistory

\* The commands together implement a dataset whose past is never lost, however
\* they interleave, fail or crash.
ImplementsHistory == History!Spec
=============================================================================

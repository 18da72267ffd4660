------------------------- MODULE VersionStoreProofs -------------------------
(***************************************************************************)
(* Proofs about VersionStore, for any processes, rows and version ids: its *)
(* locks, what the row store keeps, what no command overwrites, and the    *)
(* refinement of DatasetHistory.                                           *)
(***************************************************************************)
EXTENDS VersionStore, SequenceTheorems, FiniteSetTheorems, TLAPS

-----------------------------------------------------------------------------
(* What the operations on sequences do to the set of what they hold *)

LEMMA ToSetDef == ASSUME NEW S, NEW s \in Seq(S)
                  PROVE  /\ ToSet(s) = {s[i] : i \in 1 .. Len(s)}
                         /\ ToSet(s) \subseteq S
  BY LenProperties, ElementOfSeq DEF ToSet

LEMMA ToSetFinite == ASSUME NEW S, NEW s \in Seq(S)
                     PROVE  IsFiniteSet(ToSet(s))
<1>1. s \in Surjection(1 .. Len(s), ToSet(s))
  BY LenProperties, ToSetDef DEF Surjection
<1>2. IsFiniteSet(1 .. Len(s))
  BY LenProperties, FS_Interval
<1> QED BY <1>1, <1>2, FS_Surjection

LEMMA ToSetSubSeq == ASSUME NEW S, NEW s \in Seq(S), NEW n \in 0 .. Len(s)
                     PROVE  /\ SubSeq(s, 1, n) \in Seq(S)
                            /\ Len(SubSeq(s, 1, n)) = n
                            /\ \A i \in 1 .. n : SubSeq(s, 1, n)[i] = s[i]
                            /\ ToSet(SubSeq(s, 1, n)) = {s[i] : i \in 1 .. n}
<1> DEFINE t == SubSeq(s, 1, n)
<1>1. Len(s) \in Nat /\ \A i \in 1 .. n : s[i] \in S
  BY LenProperties, ElementOfSeq
<1>2. /\ t \in Seq(S)
      /\ Len(t) = IF 1 <= n THEN n - 1 + 1 ELSE 0
      /\ \A i \in 1 .. n - 1 + 1 : t[i] = s[1 + i - 1]
  BY <1>1, SubSeqProperties
<1>3. Len(t) = n /\ \A i \in 1 .. n : t[i] = s[i]
  BY <1>1, <1>2
<1>4. ToSet(t) = {t[i] : i \in 1 .. Len(t)}
  BY <1>2, ToSetDef
<1> HIDE DEF t
<1>5. ToSet(t) = {s[i] : i \in 1 .. n}
  BY <1>3, <1>4
<1> QED BY <1>2, <1>3, <1>5 DEF t

LEMMA ToSetAppend == ASSUME NEW S, NEW s \in Seq(S), NEW e \in S
                     PROVE  /\ Append(s, e) \in Seq(S)
                            /\ Append(s, e) # <<>>
                            /\ Len(Append(s, e)) = Len(s) + 1
                            /\ Append(s, e)[Len(s) + 1] = e
                            /\ ToSet(Append(s, e)) = ToSet(s) \cup {e}
                            /\ \A n \in 0 .. Len(s) :
                                 SubSeq(Append(s, e), 1, n) = SubSeq(s, 1, n)
<1> DEFINE a == Append(s, e)
<1>1. /\ Len(s) \in Nat /\ a \in Seq(S) /\ a # <<>> /\ Len(a) = Len(s) + 1
      /\ \A i \in 1 .. Len(s) : a[i] = s[i]
      /\ a[Len(s) + 1] = e
  BY LenProperties, AppendProperties
<1>2. ToSet(a) = ToSet(s) \cup {e}
  <2>1. 1 .. Len(a) = 1 .. Len(s) \cup {Len(s) + 1}
    BY <1>1
  <2>2. ToSet(a) = {a[i] : i \in 1 .. Len(a)} /\ ToSet(s) = {s[i] : i \in 1 .. Len(s)}
    BY <1>1, ToSetDef
  <2> HIDE DEF a
  <2>3. ToSet(a) = {a[i] : i \in 1 .. Len(s)} \cup {a[Len(s) + 1]}
    BY <2>1, <2>2
  <2> QED BY <1>1, <2>2, <2>3
<1>3. ASSUME NEW n \in 0 .. Len(s) PROVE SubSeq(a, 1, n) = SubSeq(s, 1, n)
  <2> HIDE DEF a
  <2>1. n \in 0 .. Len(a) /\ 1 .. n \subseteq 1 .. Len(s) BY <1>1
  <2>2. /\ SubSeq(a, 1, n) \in Seq(S) /\ SubSeq(s, 1, n) \in Seq(S)
        /\ Len(SubSeq(a, 1, n)) = n /\ Len(SubSeq(s, 1, n)) = n
        /\ \A i \in 1 .. n : SubSeq(a, 1, n)[i] = a[i] /\ SubSeq(s, 1, n)[i] = s[i]
    BY <1>1, <2>1, ToSetSubSeq
  <2>3. \A i \in 1 .. n : SubSeq(a, 1, n)[i] = SubSeq(s, 1, n)[i]
    BY <1>1, <2>1, <2>2
  <2> QED BY <2>2, <2>3, SeqEqual
<1> QED BY <1>1, <1>2, <1>3

\* s with another last element.
WithLast(s, e) == [s EXCEPT ![Len(s)] = e]

LEMMA ToSetWithLast ==
  ASSUME NEW S, NEW s \in Seq(S), s # <<>>, NEW e \in S
  PROVE  /\ WithLast(s, e) \in Seq(S) /\ WithLast(s, e) # <<>>
         /\ Len(WithLast(s, e)) = Len(s) /\ Len(s) \in Nat \ {0}
         /\ WithLast(s, e)[Len(s)] = e
         /\ e \in ToSet(WithLast(s, e))
         /\ ToSet(s) \subseteq ToSet(WithLast(s, e)) \cup {s[Len(s)]}
         /\ \A n \in 0 .. Len(s) :
              n < Len(s) => SubSeq(WithLast(s, e), 1, n) = SubSeq(s, 1, n)
<1> DEFINE a == WithLast(s, e)
<1>1. Len(s) \in Nat \ {0}
  BY EmptySeq
<1>2. /\ a \in Seq(S) /\ Len(a) = Len(s) /\ a[Len(s)] = e
      /\ \A i \in 1 .. Len(s) : a[i] = IF i = Len(s) THEN e ELSE s[i]
  BY <1>1, ExceptSeq DEF WithLast
<1> HIDE DEF a
<1>3. a # <<>> BY <1>1, <1>2, EmptySeq
<1>4. e \in ToSet(a) /\ ToSet(s) \subseteq ToSet(a) \cup {s[Len(s)]}
  BY <1>1, <1>2, ToSetDef
<1>5. ASSUME NEW n \in 0 .. Len(s), n < Len(s) PROVE SubSeq(a, 1, n) = SubSeq(s, 1, n)
  <2>1. n \in 0 .. Len(a) /\ n \in 0 .. Len(s) BY <1>1, <1>2, <1>5
  <2>2. /\ SubSeq(a, 1, n) \in Seq(S) /\ SubSeq(s, 1, n) \in Seq(S)
        /\ Len(SubSeq(a, 1, n)) = n /\ Len(SubSeq(s, 1, n)) = n
        /\ \A i \in 1 .. n : SubSeq(a, 1, n)[i] = a[i] /\ SubSeq(s, 1, n)[i] = s[i]
    BY <1>2, <2>1, ToSetSubSeq
  <2>3. \A i \in 1 .. n : SubSeq(a, 1, n)[i] = SubSeq(s, 1, n)[i]
    BY <1>1, <1>2, <1>5, <2>2
  <2> QED BY <2>2, <2>3, SeqEqual
<1> QED BY <1>1, <1>2, <1>3, <1>4, <1>5 DEF a

LEMMA ToSetTail == ASSUME NEW S, NEW s \in Seq(S), s # <<>>
                   PROVE  /\ Head(s) \in S /\ Tail(s) \in Seq(S)
                          /\ ToSet(s) = {Head(s)} \cup ToSet(Tail(s))
<1>1. /\ Head(s) \in S /\ Tail(s) \in Seq(S) /\ Len(Tail(s)) = Len(s) - 1
      /\ \A i \in 1 .. Len(Tail(s)) : Tail(s)[i] = s[i + 1]
  BY HeadTailProperties
<1>2. Len(s) \in Nat \ {0} /\ Head(s) = s[1]
  BY EmptySeq
<1>3. /\ ToSet(s) = {s[i] : i \in 1 .. Len(s)}
      /\ ToSet(Tail(s)) = {Tail(s)[i] : i \in 1 .. Len(Tail(s))}
  BY <1>1, ToSetDef
<1>4. ASSUME NEW i \in 1 .. Len(s), i # 1 PROVE s[i] \in ToSet(Tail(s))
  <2>1. i - 1 \in 1 .. Len(Tail(s)) /\ Tail(s)[i - 1] = s[i]
    BY <1>1, <1>2, <1>4
  <2> QED BY <1>3, <2>1
<1>5. ASSUME NEW i \in 1 .. Len(Tail(s)) PROVE Tail(s)[i] \in ToSet(s)
  BY <1>1, <1>2, <1>3
<1> QED BY <1>1, <1>2, <1>3, <1>4, <1>5

-----------------------------------------------------------------------------
(* The helpers of the model *)

LEMMA ListingsType == ASSUME NEW S, IsFiniteSet(S), NEW key, NEW f \in Listings(S, key)
                      PROVE  f \in Seq(S) /\ ToSet(f) = S /\ (S = {} => f = <<>>)
<1>1. Cardinality(S) \in Nat
  BY FS_CardinalityType
<1>2. f \in [1 .. Cardinality(S) -> S] /\ ToSet(f) = S
  BY DEF Listings
<1>3. f \in Seq(S)
  BY <1>1, <1>2, SeqDef
<1>4. ASSUME S = {} PROVE f = <<>>
  BY <1>3, <1>4, EmptySeq, ElementOfSeq
<1> QED BY <1>2, <1>3, <1>4

LEMMA SelectionsType ==
  ASSUME NEW S, NEW s \in Seq(S), NEW K \in SUBSET (DOMAIN s), NEW t \in Selections(s, K)
  PROVE  t \in Seq(S) /\ ToSet(t) = {s[k] : k \in K}
<1>1. DOMAIN s = 1 .. Len(s) /\ Len(s) \in Nat /\ \A i \in DOMAIN s : s[i] \in S
  BY LenProperties, ElementOfSeq
<1>2. IsFiniteSet(K)
  <2>1. IsFiniteSet(1 .. Len(s))
    BY <1>1, FS_Interval
  <2> QED BY <1>1, <2>1, FS_Subset
<1>3. PICK f \in Listings(K, [k \in K |-> k]) : t = [i \in DOMAIN f |-> s[f[i]]]
  BY DEF Selections
<1>4. f \in Seq(K) /\ ToSet(f) = K
  BY <1>2, ListingsType
<1>5. /\ Len(f) \in Nat /\ DOMAIN f = 1 .. Len(f)
      /\ \A i \in DOMAIN f : f[i] \in K
  BY <1>4, LenProperties, ElementOfSeq
<1>6. t \in [1 .. Len(f) -> S]
  BY <1>1, <1>3, <1>5
<1>7. t \in Seq(S)
  BY <1>5, <1>6, SeqDef
<1>8. ToSet(t) = {s[f[i]] : i \in DOMAIN f}
  BY <1>3, <1>5 DEF ToSet
<1>9. K = {f[i] : i \in DOMAIN f}
  BY <1>4 DEF ToSet
<1> QED BY <1>7, <1>8, <1>9


\* Among the indices K there is a least one.
LEMMA LeastIndex == ASSUME NEW K \in SUBSET Nat, K # {}
                    PROVE  \E n \in K : \A k \in K : n <= k
<1>1. IsWellFoundedOn(OpToRel(<, Nat), Nat)
  BY NatLessThanWellFounded
<1>2. PICK n \in K : \A k \in K : ~(<<k, n>> \in OpToRel(<, Nat))
  BY <1>1, WFMin
<1>3. OpToRel(<, Nat) = {ss \in Nat \X Nat : ss[1] < ss[2]}
  BY Zenon DEF OpToRel
<1>4. ASSUME NEW k \in K PROVE n <= k
  <2>1. <<k, n>> \notin {ss \in Nat \X Nat : ss[1] < ss[2]}
    BY <1>2, <1>3
  <2>2. k \in Nat /\ n \in Nat
    OBVIOUS
  <2> QED BY <2>1, <2>2
<1> QED BY <1>4

\* The prefix that a capture stores stops before the first malformed line, and
\* is the whole dataset when no line is malformed.
LEMMA GoodRowsType ==
  ASSUME examples \in Seq(Rows \cup {Malformed})
  PROVE  /\ GoodRows \in Seq(Rows)
         /\ Malformed \notin ToSet(examples) => GoodRows = examples /\ examples \in Seq(Rows)
<1> DEFINE Stops(n) == /\ Malformed \notin ToSet(SubSeq(examples, 1, n))
                       /\ n < Len(examples) => examples[n + 1] = Malformed
           L == Len(examples)
           last == CHOOSE n \in 0 .. L : Stops(n)
<1>1. /\ L \in Nat /\ ToSet(examples) = {examples[i] : i \in 1 .. L}
      /\ \A i \in 1 .. L : examples[i] \in Rows \cup {Malformed}
  BY LenProperties, ToSetDef, ElementOfSeq
<1>2. \A n \in 0 .. L : /\ ToSet(SubSeq(examples, 1, n)) = {examples[i] : i \in 1 .. n}
                        /\ Len(SubSeq(examples, 1, n)) = n
                        /\ \A i \in 1 .. n : SubSeq(examples, 1, n)[i] = examples[i]
  BY ToSetSubSeq
<1>3. ASSUME Malformed \notin ToSet(examples) PROVE Stops(L)
  BY <1>1, <1>2, <1>3
<1>4. ASSUME Malformed \in ToSet(examples) PROVE \E n \in 0 .. L : Stops(n)
  <2> DEFINE K == {i \in 1 .. L : examples[i] = Malformed}
  <2>1. K \in SUBSET Nat /\ K # {}
    BY <1>1, <1>4
  <2>2. PICK k \in K : \A i \in K : k <= i
    BY <2>1, LeastIndex
  <2>3. k - 1 \in 0 .. L /\ k - 1 + 1 = k /\ examples[k] = Malformed
    BY <1>1, <2>2
  <2>4. \A i \in 1 .. k - 1 : i \in 1 .. L /\ i \notin K
    BY <1>1, <2>2, <2>3
  <2>5. Malformed \notin ToSet(SubSeq(examples, 1, k - 1))
    BY <1>2, <2>3, <2>4
  <2>6. Stops(k - 1)
    BY <2>3, <2>5
  <2> QED BY <2>3, <2>6
<1>5. last \in 0 .. L /\ Stops(last)
  <2>1. \E n \in 0 .. L : Stops(n)
    BY <1>1, <1>3, <1>4
  <2> HIDE DEF Stops, L
  <2> QED BY <2>1
<1>6. GoodRows = SubSeq(examples, 1, last)
  BY DEF GoodRows
<1> HIDE DEF last
<1>7. GoodRows \in Seq(Rows)
  <2>1. \A i \in 1 .. last : examples[i] \in Rows
    BY <1>1, <1>2, <1>5
  <2> QED BY <1>5, <1>6, <2>1, SubSeqProperties
<1>8. ASSUME Malformed \notin ToSet(examples) PROVE GoodRows = examples
  <2>1. last = L
    BY <1>1, <1>5, <1>8
  <2> QED BY <1>6, <2>1, SubSeqFull
<1> QED BY <1>7, <1>8


\* What the rewriting of GC and the deletions select are rows.
LEMMA NewLinesType ==
  ASSUME examples \in Seq(Rows \cup {Malformed}),
         NEW new \in Deletions(examples) \cup Edits(examples)
  PROVE  new \in Seq(Rows \cup {Malformed})
<1>1. CASE new \in Deletions(examples)
  <2>1. PICK K \in SUBSET (DOMAIN examples) : new \in Selections(examples, K)
    BY <1>1 DEF Deletions
  <2> QED BY <2>1, SelectionsType
<1>2. CASE new \in Edits(examples)
  <2>1. PICK i \in DOMAIN examples, r \in Rows : new = [examples EXCEPT ![i] = r]
    BY <1>2 DEF Edits
  <2>2. i \in 1 .. Len(examples) /\ r \in Rows \cup {Malformed}
    BY <2>1, LenProperties
  <2> QED BY <2>1, <2>2, ExceptSeq
<1> QED BY <1>1, <1>2

-----------------------------------------------------------------------------
(* Type correctness *)

Labels == {"idle", "append", "restore_lock", "want_store", "import_append",
           "capture", "scan", "write", "rollback", "late_flush", "manifest",
           "record", "verify", "replace", "gc_scan", "gc_swap"}

FilesOK ==
  /\ examples \in Seq(Rows \cup {Malformed})
  /\ store \in Seq(Rows \cup {Torn})
  /\ tailOpen \in BOOLEAN
  /\ tailOpen => store # <<>>
  /\ manifest \in [Versions -> Seq(Rows) \cup {None}]
  /\ record \in [Versions -> Records \cup {None}]

ControlOK ==
  /\ writerLock \in Procs \cup {None} /\ storeLock \in Procs \cup {None}
  /\ pc \in [Procs -> Labels]
  /\ op \in [Procs -> Operations \cup {None}]

LocalsOK ==
  /\ lines \in [Procs -> Seq(Rows \cup {Malformed})]
  /\ cap \in [Procs -> Seq(Rows) \cup {None}]
  /\ buf \in [Procs -> Seq(Rows)]
  /\ mid \in [Procs -> BOOLEAN]
  /\ size \in [Procs -> Nat \cup {None}]
  /\ failed \in [Procs -> BOOLEAN]
  /\ vid \in [Procs -> Versions \cup {None}]
  /\ live \in [Procs -> SUBSET (Rows \cup {Torn})]

LEMMA TypeParts ==
  /\ TypeOK <=> FilesOK /\ ControlOK /\ LocalsOK /\ faults \in Nat
  /\ TypeOK' <=> (FilesOK /\ ControlOK /\ LocalsOK /\ faults \in Nat)'
<1>1. TypeOK <=> FilesOK /\ ControlOK /\ LocalsOK /\ faults \in Nat
  BY Zenon DEF TypeOK, FilesOK, ControlOK, LocalsOK, Labels
<1>2. TypeOK' <=> (FilesOK /\ ControlOK /\ LocalsOK /\ faults \in Nat)'
  BY <1>1, PTL
<1> QED BY <1>1, <1>2

LEMMA LeaveType ==
  ASSUME ControlOK, LocalsOK, NEW p \in Procs, Leave(p)
  PROVE  ControlOK' /\ LocalsOK'
<1>1. ControlOK'
  BY DEF ControlOK, Leave, Labels
<1>2. /\ <<>> \in Seq(Rows \cup {Malformed}) /\ <<>> \in Seq(Rows)
      /\ {} \in SUBSET (Rows \cup {Torn})
  BY EmptySeq
<1>3. LocalsOK'
  BY <1>2 DEF LocalsOK, Leave
<1> QED BY <1>1, <1>3

LEMMA FaultType == ASSUME faults \in Nat, Fault PROVE faults' \in Nat
  BY DEF Fault

LEMMA TypeInit == Init => TypeOK
<1> SUFFICES ASSUME Init PROVE TypeOK
  OBVIOUS
<1>1. PICK n \in 0 .. MaxRows : examples \in [1 .. n -> Rows \cup {Malformed}]
  BY DEF Init
<1>2. examples \in Seq(Rows \cup {Malformed})
  BY <1>1, ConstantsAssumption, SeqDef
<1>3. \A S : <<>> \in Seq(S)
  BY EmptySeq
<1>4. FilesOK /\ ControlOK /\ faults \in Nat
  BY <1>2, <1>3 DEF Init, FilesOK, ControlOK, Labels
<1>5. LocalsOK
  BY <1>3 DEF Init, LocalsOK
<1> QED BY <1>4, <1>5, TypeParts


\* What a reader makes of a dataset without a malformed line.
LEMMA ReadType ==
  ASSUME FilesOK
  PROVE  (IF Malformed \in ToSet(examples) THEN None ELSE examples) \in Seq(Rows) \cup {None}
  BY GoodRowsType DEF FilesOK

\* Starting a command, and the steps of one that leave the files alone.
LEMMA TypeControl ==
  ASSUME TypeOK, NEW p \in Procs,
         \/ Starting(p) \/ RestoreLock(p) \/ RestoreRefused(p) \/ EmptyAppend(p)
         \/ AcquireStore(p) \/ StoreBusy(p) \/ FlushFails(p) \/ CloseStore(p)
         \/ CaptureReturns(p) \/ VerifyUndo(p) \/ RefuseUndo(p)
         \/ ScanManifests(p) \/ RefuseScan(p) \/ Crash(p)
  PROVE  TypeOK'
<1> USE ConstantsAssumption DEF Starts, Goto, TakeWriterLock, files, locals
<1>1. FilesOK /\ ControlOK /\ LocalsOK /\ faults \in Nat
  BY TypeParts
<1>2. CASE StartAppend(p)
  BY <1>1, <1>2, TypeParts DEF StartAppend, FilesOK, ControlOK, LocalsOK, Labels
<1>3. CASE StartMutate(p)
  <2>1. PICK new \in Deletions(examples) \cup Edits(examples) :
          lines' = [lines EXCEPT ![p] = new]
    BY <1>3 DEF StartMutate
  <2>2. new \in Seq(Rows \cup {Malformed})
    BY <1>1, NewLinesType DEF FilesOK
  <2>3. lines' \in [Procs -> Seq(Rows \cup {Malformed})]
    BY <1>1, <2>1, <2>2 DEF LocalsOK
  <2> QED
    BY <1>1, <1>3, <2>3, TypeParts DEF StartMutate, FilesOK, ControlOK, LocalsOK, Labels
<1>4. CASE StartRestore(p)
  <2>1. PICK v \in Versions : Reconstructs(v) /\ lines' = [lines EXCEPT ![p] = manifest[v]]
    BY <1>4 DEF StartRestore
  <2>2. manifest[v] \in Seq(Rows)
    BY <1>1, <2>1 DEF FilesOK, Reconstructs
  <2>3. manifest[v] \in Seq(Rows \cup {Malformed})
    BY <2>2, SeqMonotonic
  <2>4. lines' \in [Procs -> Seq(Rows \cup {Malformed})]
    BY <1>1, <2>1, <2>3 DEF LocalsOK
  <2> QED
    BY <1>1, <1>4, <2>4, TypeParts DEF StartRestore, FilesOK, ControlOK, LocalsOK, Labels
<1>5. CASE StartImport(p) \/ StartStoreOnly(p)
  <2>1. CASE StartImport(p)
    BY <1>1, <2>1, TypeParts DEF StartImport, FilesOK, ControlOK, LocalsOK, Labels
  <2>2. CASE StartStoreOnly(p)
    <3>1. PICK o \in Operations : op' = [op EXCEPT ![p] = o] /\ Goto(p, "want_store")
      BY <2>2 DEF StartStoreOnly
    <3> QED
      BY <1>1, <2>2, <3>1, TypeParts DEF StartStoreOnly, FilesOK, ControlOK, LocalsOK, Labels
  <2> QED BY <1>5, <2>1, <2>2
<1>6. CASE FingerprintOnly(p)
  <2>1. PICK v \in FreshVersions :
          record' = [record EXCEPT ![v] =
            [content |-> IF Malformed \in ToSet(examples) THEN None ELSE examples,
             stored |-> FALSE]]
    BY <1>6 DEF FingerprintOnly
  <2>2. record' \in [Versions -> Records \cup {None}]
    BY <1>1, <2>1, ReadType DEF FilesOK, Records
  <2> QED
    BY <1>1, <1>6, <2>2, TypeParts DEF FingerprintOnly, FilesOK, ControlOK, LocalsOK, Labels
<1>7. CASE RestoreLock(p)
  BY <1>1, <1>7, TypeParts DEF RestoreLock, FilesOK, ControlOK, LocalsOK, Labels
<1>8. CASE RestoreRefused(p) \/ EmptyAppend(p) \/ StoreBusy(p) \/ RefuseUndo(p) \/ RefuseScan(p)
  <2>1. Leave(p) /\ UNCHANGED <<files, faults>>
    BY <1>8 DEF RestoreRefused, EmptyAppend, StoreBusy, RefuseUndo, RefuseScan
  <2>2. FilesOK' /\ faults' \in Nat
    BY <1>1, <2>1 DEF FilesOK
  <2> QED BY <1>1, <2>1, <2>2, LeaveType, TypeParts
<1>9. CASE Crash(p)
  <2>1. Leave(p) /\ UNCHANGED files /\ faults' \in Nat
    BY <1>1, <1>9, FaultType DEF Crash
  <2>2. FilesOK'
    BY <1>1, <2>1 DEF FilesOK
  <2> QED BY <1>1, <2>1, <2>2, LeaveType, TypeParts
<1>10. CASE AcquireStore(p)
  BY <1>1, <1>10, TypeParts DEF AcquireStore, FilesOK, ControlOK, LocalsOK, Labels
<1>11. CASE FlushFails(p)
  BY <1>1, <1>11, FaultType, TypeParts DEF FlushFails, FilesOK, ControlOK, LocalsOK, Labels
<1>12. CASE CloseStore(p)
  BY <1>1, <1>12, TypeParts DEF CloseStore, FilesOK, ControlOK, LocalsOK, Labels
<1>13. CASE CaptureReturns(p)
  <2>1. <<>> \in Seq(Rows) BY EmptySeq
  <2> QED
    BY <1>1, <1>13, <2>1, TypeParts DEF CaptureReturns, FilesOK, ControlOK, LocalsOK, Labels
<1>14. CASE VerifyUndo(p)
  BY <1>1, <1>14, TypeParts DEF VerifyUndo, FilesOK, ControlOK, LocalsOK, Labels
<1>15. CASE ScanManifests(p)
  <2>1. \A v \in Versions : manifest[v] # None => ToSet(manifest[v]) \subseteq Rows
    BY <1>1, ToSetDef DEF FilesOK
  <2>2. ReferencedRowIds \in SUBSET (Rows \cup {Torn})
    BY <2>1 DEF ReferencedRowIds
  <2> QED
    BY <1>1, <1>15, <2>2, TypeParts DEF ScanManifests, FilesOK, ControlOK, LocalsOK, Labels
<1> QED
  BY <1>2, <1>3, <1>4, <1>5, <1>6, <1>7, <1>8, <1>9, <1>10, <1>11, <1>12, <1>13, <1>14, <1>15
  DEF Starting


\* What the next line of p's handle does to the row store.
LEMMA SpillLineEffect ==
  ASSUME FilesOK, LocalsOK, NEW p \in Procs, buf[p] # <<>>, SpillLine(p)
  PROVE  /\ store' \in Seq(Rows \cup {Torn}) /\ store' # <<>> /\ tailOpen' = FALSE
         /\ Len(store) <= Len(store')
         /\ ToSet(store) \subseteq
              ToSet(store') \cup (IF tailOpen THEN {store[Len(store)]} ELSE {})
         /\ (tailOpen <=> mid[p]) => Head(buf[p]) \in ToSet(store')
         /\ \A n \in 0 .. Len(store) :
              (tailOpen => n < Len(store)) => SubSeq(store', 1, n) = SubSeq(store, 1, n)
         /\ Head(buf[p]) \in Rows /\ Tail(buf[p]) \in Seq(Rows)
         /\ ToSet(buf[p]) = {Head(buf[p])} \cup ToSet(Tail(buf[p]))
         /\ buf' = [buf EXCEPT ![p] = Tail(buf[p])]
         /\ mid' = [mid EXCEPT ![p] = FALSE]
<1> DEFINE r == Head(buf[p])
           S == Rows \cup {Torn}
<1>1. /\ store \in Seq(S) /\ tailOpen \in BOOLEAN /\ (tailOpen => store # <<>>)
      /\ buf[p] \in Seq(Rows) /\ mid[p] \in BOOLEAN
      /\ buf \in [Procs -> Seq(Rows)] /\ Len(store) \in Nat
  BY LenProperties DEF FilesOK, LocalsOK
<1>2. /\ r \in Rows /\ Tail(buf[p]) \in Seq(Rows)
      /\ ToSet(buf[p]) = {r} \cup ToSet(Tail(buf[p]))
  BY <1>1, ToSetTail
<1>3. buf' = [buf EXCEPT ![p] = Tail(buf[p])] /\ mid' = [mid EXCEPT ![p] = FALSE] /\ tailOpen' = FALSE
  BY <1>1 DEF SpillLine
<1>4. CASE tailOpen
  <2> DEFINE e == IF mid[p] THEN r ELSE Torn
  <2>1. e \in S /\ store # <<>> /\ store' = WithLast(store, e)
    BY <1>1, <1>2, <1>4 DEF SpillLine, WithLast
  <2> HIDE DEF e, S
  <2> DEFINE w == WithLast(store, e)
  <2>2. store \in Seq(S) /\ store # <<>> /\ e \in S
    BY <1>1, <2>1
  <2>3. w \in Seq(S) /\ w # <<>> /\ Len(w) = Len(store) /\ e \in ToSet(w)
    BY <2>2, ToSetWithLast
  <2>4. ToSet(store) \subseteq ToSet(w) \cup {store[Len(store)]}
    BY <2>2, ToSetWithLast
  <2>5. \A n \in 0 .. Len(store) : n < Len(store) => SubSeq(w, 1, n) = SubSeq(store, 1, n)
    BY <2>2, ToSetWithLast
  <2>6. store' = w
    BY <2>1
  <2> HIDE DEF w
  <2> QED BY <1>1, <1>2, <1>3, <1>4, <2>3, <2>4, <2>5, <2>6 DEF e, S
<1>5. CASE ~tailOpen
  <2> DEFINE e == IF mid[p] THEN Torn ELSE r
  <2>1. e \in S /\ store' = Append(store, e)
    BY <1>1, <1>2, <1>5 DEF SpillLine
  <2> HIDE DEF e, S
  <2>2. /\ store' \in Seq(S) /\ store' # <<>> /\ Len(store') = Len(store) + 1
        /\ ToSet(store') = ToSet(store) \cup {e}
        /\ \A n \in 0 .. Len(store) : SubSeq(store', 1, n) = SubSeq(store, 1, n)
    BY <1>1, <2>1, ToSetAppend
  <2> QED BY <1>1, <1>2, <1>3, <1>5, <2>2 DEF e, S
<1> QED BY <1>1, <1>4, <1>5

\* What the first half of that line does to it.
LEMMA SpillHalfEffect ==
  ASSUME FilesOK, LocalsOK, NEW p \in Procs, buf[p] # <<>>, SpillHalf(p)
  PROVE  /\ store' \in Seq(Rows \cup {Torn}) /\ store' # <<>> /\ tailOpen' = TRUE
         /\ store'[Len(store')] \in {Torn, Head(buf[p])}
         /\ ~tailOpen =>
              /\ ToSet(store) \subseteq ToSet(store') /\ Len(store') = Len(store) + 1
              /\ \A n \in 0 .. Len(store) : SubSeq(store', 1, n) = SubSeq(store, 1, n)
         /\ buf' = buf /\ mid' = [mid EXCEPT ![p] = TRUE]
<1> DEFINE S == Rows \cup {Torn}
<1>1. /\ store \in Seq(S) /\ (tailOpen => store # <<>>)
      /\ buf[p] \in Seq(Rows) /\ Len(store) \in Nat
      /\ Torn \in S /\ Head(buf[p]) \in S
  BY LenProperties, ToSetTail DEF FilesOK, LocalsOK
<1>2. buf' = buf /\ mid' = [mid EXCEPT ![p] = TRUE] /\ tailOpen' = TRUE
  BY DEF SpillHalf
<1>3. CASE tailOpen
  <2>1. store # <<>> /\ store' = WithLast(store, Torn)
    BY <1>1, <1>3 DEF SpillHalf, WithLast
  <2> HIDE DEF S
  <2> DEFINE w == WithLast(store, Torn)
  <2>2. store \in Seq(S) /\ store # <<>> /\ Torn \in S
    BY <1>1, <2>1
  <2>3. w \in Seq(S) /\ w # <<>> /\ Len(w) = Len(store) /\ w[Len(store)] = Torn
    BY <2>2, ToSetWithLast
  <2>4. store' = w
    BY <2>1
  <2> HIDE DEF w
  <2> QED BY <1>2, <1>3, <2>3, <2>4 DEF S
<1>4. CASE ~tailOpen
  <2>1. PICK e \in {Torn, Head(buf[p])} : store' = Append(store, e)
    BY <1>4 DEF SpillHalf
  <2>2. /\ store' \in Seq(S) /\ store' # <<>> /\ Len(store') = Len(store) + 1
        /\ store'[Len(store) + 1] = e /\ ToSet(store') = ToSet(store) \cup {e}
        /\ \A n \in 0 .. Len(store) : SubSeq(store', 1, n) = SubSeq(store, 1, n)
    BY <1>1, <2>1, ToSetAppend
  <2> QED BY <1>2, <1>4, <2>1, <2>2
<1> QED BY <1>3, <1>4

\* The steps that change the row store, and the scan before them.
LEMMA TypeStore ==
  ASSUME TypeOK, NEW p \in Procs,
         TerminateTail(p) \/ ScanAndRead(p) \/ Spill(p) \/ Rollback(p) \/ SwapStore(p)
  PROVE  TypeOK'
<1> USE ConstantsAssumption DEF Goto
<1>1. FilesOK /\ ControlOK /\ LocalsOK /\ faults \in Nat
  BY TypeParts
<1>2. CASE TerminateTail(p)
  <2>1. tailOpen' \in BOOLEAN /\ (tailOpen' => tailOpen) /\ faults' \in Nat
        /\ failed' \in [Procs -> BOOLEAN]
    <3>1. CASE tailOpen' = FALSE /\ UNCHANGED <<failed, faults>>
      BY <1>1, <3>1 DEF LocalsOK
    <3>2. CASE Fault /\ failed' = [failed EXCEPT ![p] = TRUE] /\ UNCHANGED tailOpen
      BY <1>1, <3>2, FaultType DEF FilesOK, LocalsOK
    <3> QED BY <1>2, <3>1, <3>2 DEF TerminateTail
  <2> QED
    BY <1>1, <1>2, <2>1, TypeParts DEF TerminateTail, FilesOK, ControlOK, LocalsOK, Labels
<1>3. CASE ScanAndRead(p)
  <2>1. PICK n \in 0 .. Len(store), known \in BOOLEAN :
          LET new == ToSet(GoodRows) \ ToSet(SubSeq(store, 1, n)) IN
          /\ IF n = Len(store) /\ known THEN UNCHANGED faults ELSE Fault
          /\ size' = [size EXCEPT ![p] = IF known THEN Len(store) ELSE None]
          /\ \E b \in InOrderOf(IF failed[p] THEN {} ELSE new, GoodRows) :
               buf' = [buf EXCEPT ![p] = b]
    BY <1>3 DEF ScanAndRead
  <2> DEFINE N == IF failed[p] THEN {} ELSE ToSet(GoodRows) \ ToSet(SubSeq(store, 1, n))
  <2>2. PICK b \in InOrderOf(N, GoodRows) : buf' = [buf EXCEPT ![p] = b]
    BY <2>1
  <2>3. IsFiniteSet(N) /\ N \subseteq Rows
    <3>1. IsFiniteSet(ToSet(GoodRows)) /\ ToSet(GoodRows) \subseteq Rows
      BY <1>1, GoodRowsType, ToSetFinite, ToSetDef DEF FilesOK
    <3> QED BY <3>1, FS_Subset
  <2> HIDE DEF N
  <2>4. b \in Seq(Rows)
    BY <2>3, ListingsType, SeqMonotonic DEF InOrderOf
  <2>5. buf' \in [Procs -> Seq(Rows)]
    BY <1>1, <2>2, <2>4 DEF LocalsOK
  <2>6. size' \in [Procs -> Nat \cup {None}] /\ faults' \in Nat
    BY <1>1, <2>1, FaultType, LenProperties DEF FilesOK, LocalsOK
  <2>7. cap' \in [Procs -> Seq(Rows) \cup {None}]
    BY <1>1, <1>3, ReadType DEF ScanAndRead, LocalsOK
  <2> QED
    BY <1>1, <1>3, <2>5, <2>6, <2>7, TypeParts
    DEF ScanAndRead, FilesOK, ControlOK, LocalsOK, Labels, files
<1>4. CASE Spill(p)
  <2>1. /\ store' \in Seq(Rows \cup {Torn}) /\ store' # <<>> /\ tailOpen' \in BOOLEAN
        /\ buf' \in [Procs -> Seq(Rows)] /\ mid' \in [Procs -> BOOLEAN]
    <3>1. CASE SpillLine(p)
      <4>1. buf[p] # <<>>
        BY <1>4 DEF Spill
      <4>2. /\ store' \in Seq(Rows \cup {Torn}) /\ store' # <<>> /\ tailOpen' \in BOOLEAN
            /\ buf' = [buf EXCEPT ![p] = Tail(buf[p])] /\ Tail(buf[p]) \in Seq(Rows)
            /\ mid' = [mid EXCEPT ![p] = FALSE]
        BY <1>1, <3>1, <4>1, SpillLineEffect
      <4> QED BY <1>1, <4>2 DEF LocalsOK
    <3>2. CASE SpillHalf(p)
      <4>1. buf[p] # <<>>
        BY <1>4 DEF Spill
      <4>2. /\ store' \in Seq(Rows \cup {Torn}) /\ store' # <<>> /\ tailOpen' \in BOOLEAN
            /\ buf' = buf /\ mid' = [mid EXCEPT ![p] = TRUE]
        BY <1>1, <3>2, <4>1, SpillHalfEffect
      <4> QED BY <1>1, <4>2 DEF LocalsOK
    <3> QED BY <1>4, <3>1, <3>2 DEF Spill
  <2> QED
    BY <1>1, <1>4, <2>1, TypeParts DEF Spill, FilesOK, ControlOK, LocalsOK
<1>5. CASE Rollback(p)
  <2>1. store' \in Seq(Rows \cup {Torn}) /\ tailOpen' \in BOOLEAN /\ (tailOpen' => store' # <<>>)
    <3>1. CASE UNCHANGED <<store, tailOpen>>
      BY <1>1, <3>1 DEF FilesOK
    <3>2. CASE /\ store' = SubSeq(store, 1, size[p]) /\ tailOpen' = FALSE
               /\ size[p] # None /\ Len(store) > size[p]
      <4>1. size[p] \in 0 .. Len(store) /\ store \in Seq(Rows \cup {Torn})
        BY <1>1, <3>2, LenProperties DEF FilesOK, LocalsOK
      <4> QED BY <3>2, <4>1, ToSetSubSeq
    <3> QED BY <1>5, <3>1, <3>2 DEF Rollback, Truncate
  <2>2. faults' \in Nat
    BY <1>1, <1>5, FaultType DEF Rollback
  <2> QED
    BY <1>1, <1>5, <2>1, <2>2, TypeParts DEF Rollback, FilesOK, ControlOK, LocalsOK, Labels, locals
<1>6. CASE SwapStore(p)
  <2>1. store' \in Seq(Rows \cup {Torn}) /\ tailOpen' \in BOOLEAN /\ (tailOpen' => store' # <<>>)
    <3>1. CASE UNCHANGED <<store, tailOpen>>
      BY <1>1, <3>1 DEF FilesOK
    <3>2. CASE store' \in Selections(store, KeptLines(live[p])) /\ tailOpen' = FALSE
      <4>1. KeptLines(live[p]) \in SUBSET (DOMAIN store) /\ store \in Seq(Rows \cup {Torn})
        BY <1>1 DEF KeptLines, FilesOK
      <4> QED BY <3>2, <4>1, SelectionsType
    <3> QED BY <1>6, <3>1, <3>2 DEF SwapStore
  <2>2. FilesOK' /\ faults' \in Nat /\ Leave(p)
    BY <1>1, <1>6, <2>1 DEF SwapStore, FilesOK
  <2> QED BY <1>1, <2>2, LeaveType, TypeParts
<1> QED BY <1>2, <1>3, <1>4, <1>5, <1>6

\* The steps that change the dataset or publish a version.
LEMMA TypePublish ==
  ASSUME TypeOK, NEW p \in Procs,
         \/ CommitAppend(p) \/ ImportAppend(p) \/ Replace(p)
         \/ SaveManifest(p) \/ SaveRecord(p)
  PROVE  TypeOK'
<1> USE ConstantsAssumption DEF Goto
<1>1. FilesOK /\ ControlOK /\ LocalsOK /\ faults \in Nat
  BY TypeParts
<1>2. ASSUME Leave(p), UNCHANGED <<store, tailOpen, manifest, record, faults>>,
             examples' \in Seq(Rows \cup {Malformed})
      PROVE  TypeOK'
  <2>1. FilesOK' /\ faults' \in Nat
    BY <1>1, <1>2 DEF FilesOK
  <2> QED BY <1>1, <1>2, <2>1, LeaveType, TypeParts
<1>3. CASE CommitAppend(p)
  <2>1. PICK r \in Rows : examples' = Append(lines[p], r)
    BY <1>3 DEF CommitAppend
  <2>2. lines[p] \in Seq(Rows \cup {Malformed}) /\ r \in Rows \cup {Malformed}
    BY <1>1 DEF LocalsOK
  <2>3. examples' \in Seq(Rows \cup {Malformed})
    BY <2>1, <2>2, ToSetAppend
  <2> QED BY <1>2, <1>3, <2>3 DEF CommitAppend
<1>4. CASE ImportAppend(p)
  <2>1. examples' \in Seq(Rows \cup {Malformed})
    <3>1. CASE UNCHANGED examples
      BY <1>1, <3>1 DEF FilesOK
    <3>2. ASSUME NEW r \in Rows, examples' = Append(examples, r)
          PROVE  examples' \in Seq(Rows \cup {Malformed})
      <4>1. examples \in Seq(Rows \cup {Malformed}) /\ r \in Rows \cup {Malformed}
        BY <1>1 DEF FilesOK
      <4> QED BY <3>2, <4>1, ToSetAppend
    <3> QED BY <1>4, <3>1, <3>2 DEF ImportAppend
  <2> QED
    BY <1>1, <1>4, <2>1, TypeParts DEF ImportAppend, FilesOK, ControlOK, LocalsOK, Labels, locals
<1>5. CASE Replace(p)
  <2>1. examples' \in Seq(Rows \cup {Malformed})
    BY <1>1, <1>5 DEF Replace, LocalsOK
  <2> QED BY <1>2, <1>5, <2>1 DEF Replace
<1>6. CASE SaveManifest(p)
  <2>1. PICK v \in Versions : /\ manifest' = [manifest EXCEPT ![v] = cap[p]]
                             /\ vid' = [vid EXCEPT ![p] = v]
    BY <1>6 DEF SaveManifest, FreshVersions
  <2> QED
    BY <1>1, <1>6, <2>1, TypeParts DEF SaveManifest, FilesOK, ControlOK, LocalsOK, Labels
<1>7. CASE SaveRecord(p)
  <2>1. PICK v \in Versions :
          /\ record' = [record EXCEPT ![v] =
               [content |-> cap[p], stored |-> ~failed[p] /\ cap[p] # None]]
          /\ \/ /\ storeLock' = None /\ vid' = [vid EXCEPT ![p] = v] /\ Goto(p, "verify")
                /\ UNCHANGED <<writerLock, op, lines, cap, buf, mid, size, failed, live>>
             \/ Leave(p)
    <3>1. (IF vid[p] = None THEN FreshVersions ELSE {vid[p]}) \subseteq Versions
      BY <1>1 DEF LocalsOK, FreshVersions
    <3> QED BY <1>7, <3>1 DEF SaveRecord
  <2>2. (~failed[p] /\ cap[p] # None) \in BOOLEAN
    OBVIOUS
  <2>3. record' \in [Versions -> Records \cup {None}]
    BY <1>1, <2>1, <2>2 DEF FilesOK, LocalsOK, Records
  <2>4. FilesOK' /\ faults' \in Nat
    BY <1>1, <1>7, <2>3 DEF SaveRecord, FilesOK
  <2>5. CASE Leave(p)
    BY <1>1, <2>4, <2>5, LeaveType, TypeParts
  <2>6. CASE /\ storeLock' = None /\ vid' = [vid EXCEPT ![p] = v] /\ Goto(p, "verify")
             /\ UNCHANGED <<writerLock, op, lines, cap, buf, mid, size, failed, live>>
    <3>1. ControlOK' /\ LocalsOK'
      BY <1>1, <2>6 DEF ControlOK, LocalsOK, Labels
    <3> QED BY <2>4, <3>1, TypeParts
  <2> QED BY <2>1, <2>5, <2>6
<1> QED BY <1>3, <1>4, <1>5, <1>6, <1>7

LEMMA TypeTear ==
  ASSUME TypeOK, NEW v \in Versions, TearManifest(v)
  PROVE  TypeOK'
<1>1. FilesOK /\ ControlOK /\ LocalsOK /\ faults \in Nat
  BY TypeParts
<1>2. manifest[v] \in Seq(Rows)
  BY <1>1 DEF FilesOK, TearManifest
<1>3. PICK n \in 0 .. Len(manifest[v]) - 1 :
        manifest' = [manifest EXCEPT ![v] = SubSeq(manifest[v], 1, n)]
  BY <1>1 DEF TearManifest, FilesOK
<1>4. SubSeq(manifest[v], 1, n) \in Seq(Rows)
  <2>1. n \in 0 .. Len(manifest[v])
    BY <1>2, LenProperties
  <2> QED BY <1>2, <2>1, ToSetSubSeq
<1>5. manifest' \in [Versions -> Seq(Rows) \cup {None}]
  BY <1>1, <1>3, <1>4 DEF FilesOK
<1>6. faults' \in Nat
  BY <1>1, FaultType DEF TearManifest
<1> QED
  BY <1>1, <1>5, <1>6, TypeParts DEF TearManifest, FilesOK, ControlOK, LocalsOK, locals


LEMMA TypeStep == TypeOK /\ [Next]_vars => TypeOK'
<1> SUFFICES ASSUME TypeOK, [Next]_vars PROVE TypeOK'
  OBVIOUS
<1>1. ASSUME NEW p \in Procs, Starting(p) \/ Running(p) \/ Crash(p) PROVE TypeOK'
  BY <1>1, TypeControl, TypePublish, TypeStore DEF Running
<1>2. ASSUME NEW v \in Versions, TearManifest(v) PROVE TypeOK'
  BY <1>2, TypeTear
<1>3. CASE UNCHANGED vars
  BY <1>3, TypeParts DEF vars, files, locals, FilesOK, ControlOK, LocalsOK
<1> QED BY <1>1, <1>2, <1>3 DEF Next

\* Every variable keeps its type: in particular, an open last line of the row
\* store has a line, and the prefix that a capture of a malformed dataset stores
\* consists of well-formed rows.
THEOREM TypeCorrect == Spec => []TypeOK
  BY TypeInit, TypeStep, PTL DEF Spec

-----------------------------------------------------------------------------
(***************************************************************************)
(* The row store keeps the rows of every published version: the inductive  *)
(* invariant behind PublishedRowsKept and its proof, for any processes,    *)
(* rows and version ids.  Only the holder of the version-store lock is     *)
(* ever in the middle of something; what it may assume of the files, at    *)
(* each of its steps, is the invariant.                                    *)
(***************************************************************************)

InStore(p) == pc[p] \in {"import_append", "capture", "scan", "write", "rollback",
                         "late_flush", "manifest", "record", "gc_scan", "gc_swap"}

\* The labels at which a process relies on something about the files.
Active(p) == pc[p] \in {"scan", "write", "rollback", "late_flush", "manifest", "record", "gc_swap"}

\* p's append handle exists.
Handle(p) == pc[p] \in {"write", "rollback", "late_flush"}

\* p will publish a version with stored rows.
Stores(p) == ~failed[p] /\ cap[p] # None

Prefix(s, t) == Len(s) <= Len(t) /\ \A i \in 1 .. Len(s) : s[i] = t[i]

LockInv == \A p \in Procs : InStore(p) => storeLock = p

\* A committed version has a manifest, which may have lost its last lines.
PubInv ==
  \A v \in Versions : Published(v) =>
    /\ record[v].content # None /\ manifest[v] # None
    /\ Prefix(manifest[v], record[v].content)

\* No line of p is glued onto a line of somebody else: if the last line of the
\* store is open and p has a line to write, that line is the first half of it,
\* beyond the size to which p would truncate.
TailInv(p) ==
  /\ mid[p] => Handle(p) /\ buf[p] # <<>>
  /\ pc[p] = "scan" /\ ~failed[p] => ~tailOpen
  /\ Handle(p) /\ buf[p] # <<>> /\ tailOpen =>
       mid[p] /\ store # <<>> /\ store[Len(store)] \in {Torn, Head(buf[p])}
  /\ mid[p] /\ pc[p] # "late_flush" => tailOpen /\ (size[p] # None => Len(store) > size[p])

\* A truncation to the size that p found leaves every published row.
AnchorInv(p) ==
  pc[p] \in {"write", "rollback"} /\ size[p] # None =>
    /\ size[p] <= Len(store)
    /\ \A v \in Versions : Published(v) =>
         ToSet(record[v].content) \subseteq ToSet(SubSeq(store, 1, size[p]))

\* What p captured is on disk, or still in its buffer, and in its manifest.
CapInv(p) ==
  /\ pc[p] = "write" /\ Stores(p) => ToSet(cap[p]) \subseteq StoredRows \cup ToSet(buf[p])
  /\ pc[p] \in {"manifest", "record"} /\ Stores(p) => ToSet(cap[p]) \subseteq StoredRows
  /\ pc[p] \in {"rollback", "late_flush"} => ~Stores(p)
  /\ pc[p] = "record" /\ Stores(p) =>
       vid[p] # None /\ manifest[vid[p]] # None /\ Prefix(manifest[vid[p]], cap[p])

\* GC keeps every published row.
GcInv(p) ==
  pc[p] = "gc_swap" =>
    \A v \in Versions : Published(v) => ToSet(record[v].content) \subseteq live[p]

LocalInv(p) == TailInv(p) /\ AnchorInv(p) /\ CapInv(p) /\ GcInv(p)

FilesInv == PubInv /\ PublishedRowsKept

IInv == LockInv /\ FilesInv /\ \A p \in Procs : LocalInv(p)

-----------------------------------------------------------------------------
LEMMA Typed ==
  ASSUME TypeOK, NEW p \in Procs
  PROVE  /\ store \in Seq(Rows \cup {Torn}) /\ Len(store) \in Nat /\ tailOpen \in BOOLEAN
         /\ tailOpen => store # <<>>
         /\ StoredRows = ToSet(store) \ {Torn}
         /\ buf[p] \in Seq(Rows) /\ ToSet(buf[p]) \subseteq Rows
         /\ size[p] \in Nat \cup {None} /\ mid[p] \in BOOLEAN /\ failed[p] \in BOOLEAN
         /\ cap[p] # None => cap[p] \in Seq(Rows) /\ ToSet(cap[p]) \subseteq Rows
         /\ \A v \in Versions :
              /\ manifest[v] # None => manifest[v] \in Seq(Rows)
              /\ Published(v) /\ record[v].content # None =>
                   record[v].content \in Seq(Rows) /\ ToSet(record[v].content) \subseteq Rows
<1>1. FilesOK /\ ControlOK /\ LocalsOK /\ faults \in Nat
  BY TypeParts
<1>2. /\ store \in Seq(Rows \cup {Torn}) /\ Len(store) \in Nat /\ tailOpen \in BOOLEAN
      /\ tailOpen => store # <<>>
  BY <1>1, LenProperties DEF FilesOK
<1>3. /\ buf[p] \in Seq(Rows) /\ cap[p] \in Seq(Rows) \cup {None}
      /\ size[p] \in Nat \cup {None} /\ mid[p] \in BOOLEAN /\ failed[p] \in BOOLEAN
  BY <1>1 DEF LocalsOK
<1>4. \A s \in Seq(Rows) : ToSet(s) \subseteq Rows
  BY ToSetDef
<1>5. ASSUME NEW v \in Versions
      PROVE  /\ manifest[v] # None => manifest[v] \in Seq(Rows)
             /\ Published(v) /\ record[v].content # None => record[v].content \in Seq(Rows)
  BY <1>1 DEF FilesOK, Records, Published
<1> QED BY <1>2, <1>3, <1>4, <1>5 DEF StoredRows

\* A process that relies on nothing.
LEMMA Quiet ==
  ASSUME NEW p \in Procs
  PROVE  /\ ~Active(p) /\ ~mid[p] => LocalInv(p)
         /\ (~Active(p) /\ ~mid[p] => LocalInv(p))'
<1>1. ~Active(p) /\ ~mid[p] => LocalInv(p)
  BY DEF Active, LocalInv, TailInv, AnchorInv, CapInv, GcInv, Handle
<1>2. (~Active(p) /\ ~mid[p] => LocalInv(p))'
  BY DEF Active, LocalInv, TailInv, AnchorInv, CapInv, GcInv, Handle
<1> QED BY <1>1, <1>2

LEMMA ActiveInStore ==
  ASSUME NEW p \in Procs, LocalInv(p)
  PROVE  /\ Active(p) => InStore(p)
         /\ mid[p] => Active(p)
  BY DEF Active, InStore, LocalInv, TailInv, Handle

LEMMA FilesSame ==
  ASSUME FilesInv, UNCHANGED <<store, manifest, record>>
  PROVE  FilesInv'
  BY DEF FilesInv, PubInv, PublishedRowsKept, Published, Prefix, StoredRows

LEMMA SafeInit == Init => IInv
<1> SUFFICES ASSUME Init PROVE IInv
  OBVIOUS
<1>1. \A v \in Versions : ~Published(v)
  BY DEF Init, Published
<1>2. \A p \in Procs : ~InStore(p) /\ ~Active(p) /\ ~mid[p]
  BY DEF Init, InStore, Active
<1> QED BY <1>1, <1>2, Quiet DEF IInv, LockInv, FilesInv, PubInv, PublishedRowsKept

-----------------------------------------------------------------------------
(* The two kinds of steps *)

\* A step of p within the version-store lock: nobody else relies on anything.
LEMMA InsideStep ==
  ASSUME IInv, NEW p \in Procs, InStore(p),
         \A q \in Procs : q # p => pc'[q] = pc[q] /\ mid'[q] = mid[q],
         InStore(p)' => storeLock' = p,
         LocalInv(p)', FilesInv'
  PROVE  IInv'
<1>1. ASSUME NEW q \in Procs, q # p PROVE ~InStore(q)' /\ LocalInv(q)'
  <2>1. ~InStore(q) /\ LocalInv(q)
    BY <1>1 DEF IInv, LockInv
  <2>2. ~Active(q) /\ ~mid[q]
    BY <2>1, ActiveInStore
  <2>3. pc'[q] = pc[q] /\ mid'[q] = mid[q]
    BY <1>1
  <2>4. ~InStore(q)' /\ ~Active(q)' /\ ~mid'[q]
    BY <2>1, <2>2, <2>3 DEF InStore, Active
  <2> QED BY <2>4, Quiet
<1>2. LockInv'
  BY <1>1 DEF LockInv
<1>3. \A q \in Procs : LocalInv(q)'
  BY <1>1
<1> QED BY <1>2, <1>3 DEF IInv

\* A step of p outside of it: it leaves the row store, the manifests and the
\* versions with stored rows alone.
LEMMA OutsideStep ==
  ASSUME IInv, NEW p \in Procs,
         UNCHANGED <<store, tailOpen, manifest>>,
         \A v \in Versions : /\ Published(v)' <=> Published(v)
                             /\ Published(v) => record'[v] = record[v],
         \A q \in Procs : q # p =>
           /\ pc'[q] = pc[q] /\ mid'[q] = mid[q] /\ buf'[q] = buf[q] /\ size'[q] = size[q]
           /\ failed'[q] = failed[q] /\ cap'[q] = cap[q] /\ vid'[q] = vid[q] /\ live'[q] = live[q],
         ~Active(p)', ~mid'[p],
         \A q \in Procs : InStore(q)' => storeLock' = q
  PROVE  IInv'
<1>1. FilesInv'
  BY DEF IInv, FilesInv, PubInv, PublishedRowsKept, StoredRows
<1>2. ASSUME NEW q \in Procs, q # p PROVE LocalInv(q)'
  <2>1. /\ LocalInv(q)
        /\ pc'[q] = pc[q] /\ mid'[q] = mid[q] /\ buf'[q] = buf[q] /\ size'[q] = size[q]
        /\ failed'[q] = failed[q] /\ cap'[q] = cap[q] /\ vid'[q] = vid[q] /\ live'[q] = live[q]
    BY <1>2 DEF IInv
  <2>2. TailInv(q)'
    BY <2>1 DEF LocalInv, TailInv, Handle
  <2>3. AnchorInv(q)'
    BY <2>1 DEF LocalInv, AnchorInv
  <2>4. CapInv(q)'
    BY <2>1 DEF LocalInv, CapInv, Stores, StoredRows
  <2>5. GcInv(q)'
    BY <2>1 DEF LocalInv, GcInv
  <2> QED BY <2>2, <2>3, <2>4, <2>5 DEF LocalInv
<1>3. LocalInv(p)'
  BY Quiet
<1> QED BY <1>1, <1>2, <1>3 DEF IInv, LockInv

\* What leaving a command does.
LEMMA LeaveEffect ==
  ASSUME TypeOK, NEW p \in Procs, Leave(p)
  PROVE  /\ ~InStore(p)' /\ ~Active(p)' /\ ~mid'[p]
         /\ \A q \in Procs : q # p =>
              /\ pc'[q] = pc[q] /\ mid'[q] = mid[q] /\ buf'[q] = buf[q] /\ size'[q] = size[q]
              /\ failed'[q] = failed[q] /\ cap'[q] = cap[q] /\ vid'[q] = vid[q] /\ live'[q] = live[q]
              /\ (storeLock = q => storeLock' = q)
<1>1. ControlOK /\ LocalsOK
  BY TypeParts
<1>2. pc'[p] = "idle" /\ ~mid'[p]
  BY <1>1 DEF Leave, ControlOK, LocalsOK
<1> QED BY <1>1, <1>2 DEF Leave, ControlOK, LocalsOK, InStore, Active

LEMMA LeaveStep ==
  ASSUME TypeOK, IInv, NEW p \in Procs, Leave(p), UNCHANGED <<store, tailOpen, manifest, record>>
  PROVE  IInv'
<1>1. \A q \in Procs : InStore(q)' => storeLock' = q
  BY LeaveEffect DEF IInv, LockInv, InStore
<1>2. \A v \in Versions : (Published(v)' <=> Published(v)) /\ record'[v] = record[v]
  BY DEF Published
<1> QED BY <1>1, <1>2, LeaveEffect, OutsideStep


\* The starts of commands and the steps that leave the row store alone.
LEMMA SafeOutside ==
  ASSUME TypeOK, IInv, NEW p \in Procs,
         \/ Starting(p) \/ CommitAppend(p) \/ EmptyAppend(p) \/ RestoreLock(p)
         \/ RestoreRefused(p) \/ AcquireStore(p) \/ StoreBusy(p) \/ VerifyUndo(p)
         \/ RefuseUndo(p) \/ Replace(p) \/ RefuseScan(p) \/ Crash(p)
  PROVE  IInv'
<1>1. ControlOK /\ LocalsOK /\ FilesOK
  BY TypeParts
<1>2. CASE \/ CommitAppend(p) \/ EmptyAppend(p) \/ RestoreRefused(p) \/ StoreBusy(p)
           \/ RefuseUndo(p) \/ Replace(p) \/ RefuseScan(p) \/ Crash(p)
  <2>1. Leave(p) /\ UNCHANGED <<store, tailOpen, manifest, record>>
    BY <1>2 DEF CommitAppend, EmptyAppend, RestoreRefused, StoreBusy, RefuseUndo, Replace,
                RefuseScan, Crash, files
  <2> QED BY <2>1, LeaveStep
<1>3. CASE FingerprintOnly(p)
  <2>1. PICK v \in FreshVersions, c \in {None, examples} :
          record' = [record EXCEPT ![v] = [content |-> c, stored |-> FALSE]]
    BY <1>3 DEF FingerprintOnly
  <2>2. v \in Versions /\ record[v] = None
    BY <2>1 DEF FreshVersions
  <2>3. \A w \in Versions : w # v => record'[w] = record[w]
    BY <1>1, <2>1, <2>2 DEF FilesOK
  <2>4. ~Published(v) /\ ~Published(v)'
    BY <1>1, <2>1, <2>2 DEF FilesOK, Published
  <2>5. \A w \in Versions : (Published(w)' <=> Published(w)) /\ (Published(w) => record'[w] = record[w])
    BY <2>3, <2>4 DEF Published
  <2>6. FilesInv'
    BY <1>3, <2>5 DEF FingerprintOnly, IInv, FilesInv, PubInv, PublishedRowsKept, StoredRows
  <2>7. UNCHANGED <<store, tailOpen, manifest, storeLock, pc, op, locals>>
    BY <1>3 DEF FingerprintOnly
  <2>8. ASSUME NEW q \in Procs PROVE LocalInv(q)'
    <3>1. LocalInv(q)
      BY DEF IInv
    <3>2. TailInv(q)' /\ CapInv(q)'
      BY <2>7, <3>1 DEF LocalInv, TailInv, CapInv, Handle, Stores, StoredRows, locals
    <3>3. AnchorInv(q)' /\ GcInv(q)'
      BY <2>5, <2>7, <3>1 DEF LocalInv, AnchorInv, GcInv, locals
    <3> QED BY <3>2, <3>3 DEF LocalInv
  <2>9. LockInv'
    BY <2>7 DEF IInv, LockInv, InStore
  <2> QED BY <2>6, <2>8, <2>9 DEF IInv
<1>4. ASSUME pc[p] \in {"idle", "restore_lock", "want_store", "verify"},
             pc' = [pc EXCEPT ![p] = pc'[p]],
             pc'[p] \in {"append", "restore_lock", "want_store", "import_append",
                        "capture", "gc_scan", "replace"},
             UNCHANGED <<files, cap, buf, mid, size, failed, vid, live>>,
             \/ UNCHANGED storeLock /\ ~InStore(p)'
             \/ storeLock = None /\ storeLock' = p
      PROVE  IInv'
  <2>1. ~Active(p) /\ ~Active(p)'
    BY <1>4 DEF Active
  <2>2. ~mid[p]
    BY <2>1, ActiveInStore DEF IInv
  <2>3. \A q \in Procs : q # p => pc'[q] = pc[q]
    BY <1>1, <1>4 DEF ControlOK
  <2>4. \A v \in Versions : (Published(v)' <=> Published(v)) /\ record'[v] = record[v]
    BY <1>4 DEF Published, files
  <2>5. \A q \in Procs : InStore(q)' => storeLock' = q
    BY <1>1, <1>4, <2>3, ConstantsAssumption DEF IInv, LockInv, InStore
  <2> QED BY <1>4, <2>1, <2>2, <2>3, <2>4, <2>5, OutsideStep DEF files
<1>5. CASE StartAppend(p) \/ StartMutate(p) \/ StartRestore(p) \/ StartImport(p) \/ StartStoreOnly(p)
  <2>1. /\ pc[p] = "idle" /\ UNCHANGED <<files, storeLock, cap, buf, mid, size, failed, vid, live>>
        /\ \/ pc' = [pc EXCEPT ![p] = "append"] \/ pc' = [pc EXCEPT ![p] = "restore_lock"]
           \/ pc' = [pc EXCEPT ![p] = "want_store"]
    BY <1>5 DEF StartAppend, StartMutate, StartRestore, StartImport, StartStoreOnly, Starts, Goto,
                locals
  <2>2. pc'[p] \in {"append", "restore_lock", "want_store"} /\ pc' = [pc EXCEPT ![p] = pc'[p]]
    BY <1>1, <2>1 DEF ControlOK
  <2> QED BY <1>4, <2>1, <2>2 DEF InStore
<1>6. CASE RestoreLock(p) \/ VerifyUndo(p)
  <2>1. /\ pc[p] \in {"restore_lock", "verify"}
        /\ UNCHANGED <<files, storeLock, cap, buf, mid, size, failed, vid, live>>
        /\ pc' = [pc EXCEPT ![p] = "want_store"] \/ pc' = [pc EXCEPT ![p] = "replace"]
    BY <1>6 DEF RestoreLock, VerifyUndo, Goto, locals
  <2>2. pc'[p] \in {"want_store", "replace"} /\ pc' = [pc EXCEPT ![p] = pc'[p]]
    BY <1>1, <2>1 DEF ControlOK
  <2> QED BY <1>4, <2>1, <2>2 DEF InStore
<1>7. CASE AcquireStore(p)
  <2>1. /\ pc[p] = "want_store" /\ UNCHANGED <<files, cap, buf, mid, size, failed, vid, live>>
        /\ storeLock = None /\ storeLock' = p
        /\ \/ pc' = [pc EXCEPT ![p] = "import_append"] \/ pc' = [pc EXCEPT ![p] = "gc_scan"]
           \/ pc' = [pc EXCEPT ![p] = "capture"]
    BY <1>7 DEF AcquireStore, Goto, locals
  <2>2. /\ pc'[p] \in {"import_append", "gc_scan", "capture"}
        /\ pc' = [pc EXCEPT ![p] = pc'[p]]
    BY <1>1, <2>1 DEF ControlOK
  <2> QED BY <1>4, <2>1, <2>2
<1> QED BY <1>2, <1>3, <1>5, <1>6, <1>7 DEF Starting

-----------------------------------------------------------------------------
(* The steps within the version-store lock *)

\* The steps of a capture up to its scan, and the garbage collection.
LEMMA SafeScan ==
  ASSUME TypeOK, IInv, NEW p \in Procs,
         ImportAppend(p) \/ TerminateTail(p) \/ ScanAndRead(p)
  PROVE  IInv'
<1>1. ControlOK /\ LocalsOK /\ FilesOK
  BY TypeParts
<1>2. LocalInv(p) /\ FilesInv /\ pc[p] \in {"import_append", "capture", "scan"}
  BY DEF IInv, ImportAppend, TerminateTail, ScanAndRead
<1>3. InStore(p) /\ storeLock = p
  BY <1>2 DEF IInv, LockInv, InStore
<1>4. ~mid[p]
  BY <1>2 DEF LocalInv, TailInv, Handle
<1>5. UNCHANGED <<store, manifest, record, storeLock, mid>>
  BY DEF ImportAppend, TerminateTail, ScanAndRead, files, locals
<1>6. FilesInv'
  BY <1>2, <1>5, FilesSame
<1>7. /\ \A q \in Procs : q # p => pc'[q] = pc[q] /\ mid'[q] = mid[q]
      /\ InStore(p)' => storeLock' = p
  BY <1>1, <1>3, <1>5 DEF ImportAppend, TerminateTail, ScanAndRead, Goto, ControlOK
<1>8. CASE ImportAppend(p)
  <2>1. pc'[p] = "capture"
    BY <1>1, <1>8 DEF ImportAppend, Goto, ControlOK
  <2>2. LocalInv(p)'
    BY <1>4, <1>5, <2>1, Quiet DEF Active
  <2> QED BY <1>3, <1>6, <1>7, <2>2, InsideStep
<1>9. CASE TerminateTail(p)
  <2>1. pc'[p] = "scan"
    BY <1>1, <1>9 DEF TerminateTail, Goto, ControlOK
  <2>2. ~failed'[p] => ~tailOpen'
    BY <1>1, <1>9 DEF TerminateTail, LocalsOK
  <2>3. LocalInv(p)'
    BY <1>4, <1>5, <2>1, <2>2 DEF LocalInv, TailInv, AnchorInv, CapInv, GcInv, Handle
  <2> QED BY <1>3, <1>6, <1>7, <2>3, InsideStep
<1>10. CASE ScanAndRead(p)
  <2>1. pc'[p] = "write" /\ UNCHANGED <<tailOpen, failed>>
    BY <1>1, <1>10 DEF ScanAndRead, Goto, ControlOK, files
  <2>2. PICK n \in 0 .. Len(store), known \in BOOLEAN :
          LET new == ToSet(GoodRows) \ ToSet(SubSeq(store, 1, n)) IN
          /\ size' = [size EXCEPT ![p] = IF known THEN Len(store) ELSE None]
          /\ \E b \in InOrderOf(IF failed[p] THEN {} ELSE new, GoodRows) :
               buf' = [buf EXCEPT ![p] = b]
    BY <1>10 DEF ScanAndRead
  <2> DEFINE N == IF failed[p] THEN {} ELSE ToSet(GoodRows) \ ToSet(SubSeq(store, 1, n))
  <2>3. PICK b \in InOrderOf(N, GoodRows) : buf' = [buf EXCEPT ![p] = b]
    BY <2>2
  <2>4. IsFiniteSet(N)
    <3>1. IsFiniteSet(ToSet(GoodRows))
      BY <1>1, GoodRowsType, ToSetFinite DEF FilesOK
    <3> QED BY <3>1, FS_Subset
  <2> HIDE DEF N
  <2>5. buf'[p] = b /\ ToSet(b) = N /\ (N = {} => b = <<>>)
    BY <1>1, <2>3, <2>4, ListingsType DEF InOrderOf, LocalsOK
  <2>6. failed[p] => buf'[p] = <<>>
    BY <2>5 DEF N
  <2>7. TailInv(p)'
    <3>1. ~failed[p] => ~tailOpen
      BY <1>2, <1>10 DEF LocalInv, TailInv, ScanAndRead
    <3> QED BY <1>4, <1>5, <2>1, <2>6, <3>1 DEF TailInv, Handle
  <2>8. AnchorInv(p)'
    <3>1. size'[p] # None => size'[p] = Len(store)
      BY <1>1, <2>2 DEF LocalsOK
    <3>2. SubSeq(store, 1, Len(store)) = store /\ Len(store) \in Nat
      BY Typed, SubSeqFull
    <3>3. \A v \in Versions : Published(v)' => ToSet(record'[v].content) \subseteq ToSet(store)
      BY <1>2, <1>5 DEF FilesInv, PublishedRowsKept, Published, StoredRows
    <3>4. size'[p] # None =>
            size'[p] <= Len(store') /\ SubSeq(store', 1, size'[p]) = store
      BY <1>5, <3>1, <3>2
    <3> QED BY <3>3, <3>4 DEF AnchorInv
  <2>9. CapInv(p)'
    <3>1. SUFFICES ASSUME ~failed'[p], cap'[p] # None
                   PROVE  ToSet(cap'[p]) \subseteq StoredRows' \cup ToSet(buf'[p])
      BY <2>1 DEF CapInv, Stores
    <3>2. Malformed \notin ToSet(examples) /\ cap'[p] = examples
      BY <1>1, <1>10, <3>1 DEF ScanAndRead, LocalsOK
    <3>3. GoodRows = examples /\ GoodRows \in Seq(Rows)
      BY <1>1, <3>2, GoodRowsType DEF FilesOK
    <3>4. ToSet(cap'[p]) \subseteq ToSet(SubSeq(store, 1, n)) \cup ToSet(buf'[p])
      BY <2>1, <2>5, <3>1, <3>2, <3>3 DEF N
    <3>5. ToSet(SubSeq(store, 1, n)) \subseteq ToSet(store)
      <4>1. store \in Seq(Rows \cup {Torn}) /\ Len(store) \in Nat
        BY Typed
      <4>2. /\ ToSet(SubSeq(store, 1, n)) = {store[i] : i \in 1 .. n}
            /\ ToSet(store) = {store[i] : i \in 1 .. Len(store)}
        BY <4>1, ToSetSubSeq, ToSetDef
      <4> QED BY <4>1, <4>2
    <3>6. Torn \notin ToSet(cap'[p])
      BY <3>2, <3>3, ToSetDef, ConstantsAssumption
    <3> QED BY <1>5, <3>4, <3>5, <3>6 DEF StoredRows
  <2>10. GcInv(p)'
    BY <2>1 DEF GcInv
  <2>11. LocalInv(p)'
    BY <2>7, <2>8, <2>9, <2>10 DEF LocalInv
  <2> QED BY <1>3, <1>6, <1>7, <2>11, InsideStep
<1> QED BY <1>8, <1>9, <1>10


\* Rows that reach the disk are added to the store or complete p's own line.
LEMMA SafeSpill ==
  ASSUME TypeOK, IInv, NEW p \in Procs, Spill(p)
  PROVE  IInv'
<1>1. ControlOK /\ LocalsOK /\ FilesOK
  BY TypeParts
<1>2. /\ LocalInv(p) /\ FilesInv /\ pc[p] \in {"write", "late_flush"} /\ buf[p] # <<>>
      /\ UNCHANGED <<manifest, record, storeLock, pc, cap, size, failed, vid, live>>
  BY DEF IInv, Spill
<1>3. InStore(p) /\ storeLock = p
  BY <1>2 DEF IInv, LockInv, InStore
<1>4. /\ tailOpen => mid[p] /\ store[Len(store)] \in {Torn, Head(buf[p])}
      /\ mid[p] /\ pc[p] = "write" => tailOpen
      /\ mid[p] /\ pc[p] = "write" /\ size[p] # None => Len(store) > size[p]
  BY <1>2 DEF LocalInv, TailInv, Handle
<1>5. /\ size[p] \in Nat \cup {None} /\ Len(store) \in Nat /\ tailOpen \in BOOLEAN
      /\ mid[p] \in BOOLEAN /\ StoredRows = ToSet(store) \ {Torn}
  BY Typed
\* Whatever is written: the rows of the store stay, and so does its beginning.
<1>6. ASSUME StoredRows \subseteq StoredRows', TailInv(p)',
             pc[p] = "write" /\ size[p] # None => /\ size[p] <= Len(store')
                                                /\ SubSeq(store', 1, size[p]) = SubSeq(store, 1, size[p]),
             pc[p] = "write" => ToSet(buf[p]) \subseteq StoredRows' \cup ToSet(buf'[p]),
             \A q \in Procs : q # p => mid'[q] = mid[q]
      PROVE  IInv'
  <2>1. FilesInv'
    BY <1>2, <1>6 DEF FilesInv, PubInv, PublishedRowsKept, Published, Prefix
  <2>2. AnchorInv(p)'
    BY <1>2, <1>6 DEF LocalInv, AnchorInv, Published
  <2>3. CapInv(p)'
    BY <1>2, <1>6 DEF LocalInv, CapInv, Stores
  <2>4. GcInv(p)'
    BY <1>2 DEF GcInv
  <2>5. LocalInv(p)' /\ storeLock' = p /\ pc' = pc
    BY <1>2, <1>3, <1>6, <2>2, <2>3, <2>4 DEF LocalInv
  <2> QED BY <1>3, <1>6, <2>1, <2>5, InsideStep
<1>7. CASE SpillLine(p)
  <2>1. /\ tailOpen' = FALSE /\ Len(store) <= Len(store')
        /\ ToSet(store) \subseteq
             ToSet(store') \cup (IF tailOpen THEN {store[Len(store)]} ELSE {})
        /\ (tailOpen <=> mid[p]) => Head(buf[p]) \in ToSet(store')
        /\ \A n \in 0 .. Len(store) :
             (tailOpen => n < Len(store)) => SubSeq(store', 1, n) = SubSeq(store, 1, n)
        /\ Head(buf[p]) \in Rows
        /\ ToSet(buf[p]) = {Head(buf[p])} \cup ToSet(Tail(buf[p]))
        /\ buf' = [buf EXCEPT ![p] = Tail(buf[p])]
        /\ mid' = [mid EXCEPT ![p] = FALSE]
        /\ store' \in Seq(Rows \cup {Torn})
    BY <1>1, <1>2, <1>7, SpillLineEffect
  <2>2. ~mid'[p] /\ buf'[p] = Tail(buf[p]) /\ \A q \in Procs : q # p => mid'[q] = mid[q]
    BY <1>1, <2>1 DEF LocalsOK
  <2>3. TailInv(p)'
    BY <1>2, <2>1, <2>2 DEF TailInv
  <2>4. ToSet(store) \ {Torn} \subseteq ToSet(store')
    BY <1>4, <1>5, <2>1
  <2>5. StoredRows \subseteq StoredRows'
    BY <2>4 DEF StoredRows
  <2>6. pc[p] = "write" /\ size[p] # None =>
          size[p] <= Len(store) /\ (tailOpen => size[p] < Len(store))
    BY <1>2, <1>4, <1>5 DEF LocalInv, AnchorInv
  <2>7. pc[p] = "write" /\ size[p] # None =>
          size[p] <= Len(store') /\ SubSeq(store', 1, size[p]) = SubSeq(store, 1, size[p])
    <3>1. Len(store') \in Nat
      BY <2>1, LenProperties
    <3> QED BY <1>5, <2>1, <2>6, <3>1
  <2>8. pc[p] = "write" => ToSet(buf[p]) \subseteq StoredRows' \cup ToSet(buf'[p])
    BY <1>4, <1>5, <2>1, <2>2, ConstantsAssumption DEF StoredRows
  <2> QED BY <1>6, <2>2, <2>3, <2>5, <2>7, <2>8
<1>8. CASE SpillHalf(p)
  <2>1. ~mid[p] /\ ~tailOpen
    BY <1>4, <1>8 DEF SpillHalf
  <2>2. /\ store' # <<>> /\ tailOpen' = TRUE
        /\ store'[Len(store')] \in {Torn, Head(buf[p])}
        /\ ToSet(store) \subseteq ToSet(store') /\ Len(store') = Len(store) + 1
        /\ \A n \in 0 .. Len(store) : SubSeq(store', 1, n) = SubSeq(store, 1, n)
        /\ buf' = buf /\ mid' = [mid EXCEPT ![p] = TRUE]
    BY <1>1, <1>2, <1>8, <2>1, SpillHalfEffect
  <2>3. mid'[p] /\ \A q \in Procs : q # p => mid'[q] = mid[q]
    BY <1>1, <2>2 DEF LocalsOK
  <2>4. pc[p] = "write" /\ size[p] # None => size[p] <= Len(store)
    BY <1>2 DEF LocalInv, AnchorInv
  <2>5. TailInv(p)'
    BY <1>2, <1>5, <2>2, <2>3, <2>4 DEF TailInv, Handle
  <2>6. StoredRows \subseteq StoredRows'
    BY <2>2 DEF StoredRows
  <2>7. pc[p] = "write" /\ size[p] # None =>
          size[p] <= Len(store') /\ SubSeq(store', 1, size[p]) = SubSeq(store, 1, size[p])
    BY <1>5, <2>2, <2>4
  <2> QED BY <1>6, <2>2, <2>3, <2>5, <2>6, <2>7
<1> QED BY <1>7, <1>8 DEF Spill


\* The end of the capture, with or without a rollback.
LEMMA SafeFlush ==
  ASSUME TypeOK, IInv, NEW p \in Procs,
         FlushFails(p) \/ CloseStore(p) \/ Rollback(p) \/ CaptureReturns(p)
  PROVE  IInv'
<1>1. ControlOK /\ LocalsOK /\ FilesOK
  BY TypeParts
<1>2. /\ LocalInv(p) /\ FilesInv /\ pc[p] \in {"write", "rollback", "late_flush"}
      /\ UNCHANGED <<manifest, record, storeLock, cap, size, vid, live>>
  BY DEF IInv, FlushFails, CloseStore, Rollback, CaptureReturns, files, locals
<1>3. InStore(p) /\ storeLock = p
  BY <1>2 DEF IInv, LockInv, InStore
<1>4. \A q \in Procs : q # p => pc'[q] = pc[q] /\ mid'[q] = mid[q]
  BY <1>1 DEF FlushFails, CloseStore, Rollback, CaptureReturns, Goto, ControlOK, LocalsOK, files, locals
<1>5. mid[p] => buf[p] # <<>>
  BY <1>2 DEF LocalInv, TailInv
<1>6. ASSUME LocalInv(p)', FilesInv' PROVE IInv'
  BY <1>2, <1>3, <1>4, <1>6, InsideStep
<1>7. CASE FlushFails(p)
  <2>1. /\ pc'[p] = "rollback" /\ failed'[p]
        /\ pc[p] = "write" /\ UNCHANGED <<store, tailOpen, buf, mid>>
    BY <1>1, <1>7 DEF FlushFails, Goto, ControlOK, LocalsOK, files
  <2>2. TailInv(p)' /\ CapInv(p)' /\ GcInv(p)'
    BY <1>2, <2>1 DEF LocalInv, TailInv, CapInv, GcInv, Handle, Stores
  <2>3. AnchorInv(p)'
    BY <1>2, <2>1 DEF LocalInv, AnchorInv, Published
  <2> QED BY <1>2, <1>6, <2>1, <2>2, <2>3, FilesSame DEF LocalInv
<1>8. CASE CloseStore(p)
  <2>1. /\ UNCHANGED <<store, tailOpen, buf, mid, failed>> /\ pc[p] = "write" /\ buf[p] = <<>>
        /\ ~mid[p]
        /\ \/ pc'[p] = "rollback" /\ ~Stores(p)
           \/ pc'[p] = "manifest" /\ Stores(p)
    BY <1>1, <1>5, <1>8 DEF CloseStore, Goto, ControlOK, files, locals, Stores
  <2>2. TailInv(p)' /\ GcInv(p)'
    BY <2>1 DEF TailInv, GcInv, Handle
  <2>3. AnchorInv(p)'
    BY <1>2, <2>1 DEF LocalInv, AnchorInv, Published
  <2>4. CapInv(p)'
    <3>1. ToSet(buf[p]) = {}
      BY <2>1, EmptySeq DEF ToSet
    <3> QED BY <1>2, <2>1, <3>1 DEF LocalInv, CapInv, Stores, StoredRows
  <2> QED BY <1>2, <1>6, <2>1, <2>2, <2>3, <2>4, FilesSame DEF LocalInv
<1>9. CASE Rollback(p)
  <2>1. /\ UNCHANGED <<buf, mid, failed>> /\ pc[p] = "rollback" /\ ~Stores(p)
        /\ pc'[p] = IF buf[p] = <<>> THEN "record" ELSE "late_flush"
    BY <1>1, <1>2, <1>9 DEF Rollback, Goto, ControlOK, locals, LocalInv, CapInv
  <2>2. \/ UNCHANGED <<store, tailOpen>>
        \/ /\ store' = SubSeq(store, 1, size[p]) /\ tailOpen' = FALSE
           /\ size[p] # None
    BY <1>9 DEF Rollback, Truncate
  <2>3. AnchorInv(p)' /\ GcInv(p)'
    BY <2>1 DEF AnchorInv, GcInv
  <2>4. CapInv(p)'
    BY <1>2, <2>1 DEF CapInv, Stores
  <2>5. TailInv(p)'
    BY <1>2, <1>5, <2>1, <2>2 DEF LocalInv, TailInv, Handle
  <2>6. FilesInv'
    <3>1. CASE UNCHANGED store
      BY <1>2, <3>1, FilesSame
    <3>2. CASE store' = SubSeq(store, 1, size[p]) /\ size[p] # None
      <4>1. \A v \in Versions : Published(v) =>
              ToSet(record[v].content) \subseteq ToSet(store') \ {Torn}
        <5>1. \A v \in Versions : Published(v) => Torn \notin ToSet(record[v].content)
          BY <1>2 DEF FilesInv, PublishedRowsKept, StoredRows
        <5> QED BY <1>2, <2>1, <3>2, <5>1 DEF LocalInv, AnchorInv
      <4> QED BY <1>2, <4>1 DEF FilesInv, PubInv, PublishedRowsKept, Published, Prefix, StoredRows
    <3> QED BY <2>2, <3>1, <3>2
  <2> QED BY <1>6, <2>3, <2>4, <2>5, <2>6 DEF LocalInv
<1>10. CASE CaptureReturns(p)
  <2>1. /\ pc'[p] = "record" /\ ~mid'[p] /\ UNCHANGED <<store, tailOpen, failed>> /\ ~Stores(p)
    BY <1>1, <1>2, <1>10
    DEF CaptureReturns, Goto, ControlOK, LocalsOK, files, LocalInv, CapInv
  <2>2. TailInv(p)' /\ AnchorInv(p)' /\ GcInv(p)'
    BY <2>1 DEF TailInv, AnchorInv, GcInv, Handle
  <2>3. CapInv(p)'
    BY <1>2, <2>1 DEF CapInv, Stores
  <2> QED BY <1>2, <1>6, <2>1, <2>2, <2>3, FilesSame DEF LocalInv
<1> QED BY <1>7, <1>8, <1>9, <1>10

\* The manifest, then the record that commits the version.
LEMMA SafePublish ==
  ASSUME TypeOK, IInv, NEW p \in Procs, SaveManifest(p) \/ SaveRecord(p)
  PROVE  IInv'
<1>1. ControlOK /\ LocalsOK /\ FilesOK
  BY TypeParts
<1>2. /\ LocalInv(p) /\ FilesInv /\ pc[p] \in {"manifest", "record"}
      /\ UNCHANGED <<store, tailOpen>>
  BY DEF IInv, SaveManifest, SaveRecord
<1>3. InStore(p) /\ storeLock = p /\ ~mid[p]
  BY <1>2 DEF IInv, LockInv, InStore, LocalInv, TailInv, Handle
<1>4. CASE SaveManifest(p)
  <2>1. PICK v \in FreshVersions : /\ manifest' = [manifest EXCEPT ![v] = cap[p]]
                                  /\ vid' = [vid EXCEPT ![p] = v]
    BY <1>4 DEF SaveManifest
  <2>2. /\ v \in Versions /\ record[v] = None
        /\ manifest'[v] = cap[p] /\ vid'[p] = v /\ v # None
        /\ \A w \in Versions : w # v => manifest'[w] = manifest[w]
    BY <1>1, <2>1, ConstantsAssumption DEF FreshVersions, FilesOK, LocalsOK
  <2>3. /\ pc[p] = "manifest" /\ pc'[p] = "record"
        /\ UNCHANGED <<record, storeLock, cap, mid, failed>>
        /\ \A q \in Procs : q # p => pc'[q] = pc[q] /\ mid'[q] = mid[q]
    BY <1>1, <1>4 DEF SaveManifest, Goto, ControlOK
  <2>4. FilesInv'
    BY <1>2, <2>2, <2>3 DEF FilesInv, PubInv, PublishedRowsKept, Published, StoredRows
  <2>5. CapInv(p)'
    BY <1>2, <2>2, <2>3 DEF LocalInv, CapInv, Stores, StoredRows, Prefix
  <2>6. LocalInv(p)'
    BY <1>3, <2>3, <2>5 DEF LocalInv, TailInv, AnchorInv, GcInv, Handle
  <2> QED BY <1>3, <2>3, <2>4, <2>6, InsideStep
<1>5. CASE SaveRecord(p)
  <2>1. PICK v \in IF vid[p] = None THEN FreshVersions ELSE {vid[p]} :
          record' = [record EXCEPT ![v] =
            [content |-> cap[p], stored |-> ~failed[p] /\ cap[p] # None]]
    BY <1>5 DEF SaveRecord
  <2>2. v \in Versions /\ (vid[p] # None => v = vid[p])
    BY <1>1, <2>1 DEF LocalsOK, FreshVersions
  <2>3. /\ record'[v] = [content |-> cap[p], stored |-> ~failed[p] /\ cap[p] # None]
        /\ \A w \in Versions : w # v => record'[w] = record[w]
    BY <1>1, <2>1, <2>2 DEF FilesOK
  <2>4. UNCHANGED manifest /\ pc[p] = "record"
    BY <1>5 DEF SaveRecord
  <2>5. Published(v)' => /\ Stores(p) /\ record'[v].content = cap[p]
                         /\ manifest[v] # None /\ Prefix(manifest[v], cap[p])
                         /\ ToSet(cap[p]) \subseteq StoredRows
    <3>1. Published(v)' => Stores(p)
      <4> DEFINE stored == ~failed[p] /\ cap[p] # None
      <4>1. record'[v] = [content |-> cap[p], stored |-> stored]
        BY <2>3
      <4> HIDE DEF stored
      <4>2. record'[v].stored = stored
        BY <4>1
      <4> QED BY <4>2, Zenon DEF Published, Stores, stored
    <3>2. record'[v].content = cap[p]
      BY <2>3
    <3>3. Stores(p) => /\ manifest[v] # None /\ Prefix(manifest[v], cap[p])
                       /\ ToSet(cap[p]) \subseteq StoredRows
      BY <1>2, <2>2, <2>4 DEF LocalInv, CapInv
    <3> QED BY <3>1, <3>2, <3>3
  <2>6. \A w \in Versions : w # v => (Published(w)' <=> Published(w))
    BY <2>3 DEF Published
  <2>7. ASSUME NEW w \in Versions, Published(w)'
        PROVE  /\ record'[w].content # None /\ manifest'[w] # None
               /\ Prefix(manifest'[w], record'[w].content)
               /\ ToSet(record'[w].content) \subseteq StoredRows'
    <3>1. CASE w = v
      BY <1>2, <2>4, <2>5, <2>7, <3>1 DEF Stores, StoredRows
    <3>2. CASE w # v
      BY <1>2, <2>3, <2>4, <2>6, <2>7, <3>2 DEF FilesInv, PubInv, PublishedRowsKept, StoredRows
    <3> QED BY <3>1, <3>2
  <2>8. FilesInv'
    BY <2>7 DEF FilesInv, PubInv, PublishedRowsKept, Prefix
  <2>9. /\ ~Active(p)' /\ ~InStore(p)' /\ ~mid'[p]
        /\ \A q \in Procs : q # p => pc'[q] = pc[q] /\ mid'[q] = mid[q]
    <3>1. CASE Leave(p)
      BY <3>1, LeaveEffect
    <3>2. CASE Goto(p, "verify") /\ UNCHANGED mid
      BY <1>1, <1>3, <3>2 DEF Goto, ControlOK, Active, InStore
    <3> QED BY <1>5, <3>1, <3>2 DEF SaveRecord
  <2> QED BY <1>3, <2>8, <2>9, Quiet, InsideStep
<1> QED BY <1>4, <1>5


\* A scan that trusts the manifests finds every published row.
LEMMA SafeCollect ==
  ASSUME TypeOK, IInv, NEW p \in Procs, ScanManifests(p) \/ SwapStore(p)
  PROVE  IInv'
<1>1. ControlOK /\ LocalsOK /\ FilesOK
  BY TypeParts
<1>2. /\ LocalInv(p) /\ FilesInv /\ pc[p] \in {"gc_scan", "gc_swap"}
      /\ UNCHANGED <<manifest, record>>
  BY DEF IInv, ScanManifests, SwapStore, files
<1>3. InStore(p) /\ storeLock = p /\ ~mid[p]
  BY <1>2 DEF IInv, LockInv, InStore, LocalInv, TailInv, Handle
<1>4. CASE ScanManifests(p)
  <2>1. /\ pc'[p] = "gc_swap" /\ UNCHANGED <<store, storeLock, mid>>
        /\ live'[p] = ReferencedRowIds
        /\ \A q \in Procs : q # p => pc'[q] = pc[q]
    BY <1>1, <1>4 DEF ScanManifests, Goto, ControlOK, LocalsOK, files
  <2>2. ASSUME NEW v \in Versions, Published(v)
        PROVE  ToSet(record[v].content) \subseteq ReferencedRowIds
    <3>1. /\ record[v].content # None /\ manifest[v] # None
          /\ Prefix(manifest[v], record[v].content)
      BY <1>2, <2>2 DEF FilesInv, PubInv
    <3>2. manifest[v] \in Seq(Rows) /\ record[v].content \in Seq(Rows)
      BY <2>2, <3>1, Typed
    <3>3. Len(manifest[v]) = Len(record[v].content)
      BY <1>4, <2>2, <3>1 DEF ScanManifests, ManifestAgrees, Published
    <3>4. manifest[v] = record[v].content
      BY <3>1, <3>2, <3>3, SeqEqual DEF Prefix
    <3> QED BY <3>1, <3>4 DEF ReferencedRowIds
  <2>3. GcInv(p)'
    BY <1>2, <2>1, <2>2 DEF GcInv, Published
  <2>4. LocalInv(p)'
    BY <1>3, <2>1, <2>3 DEF LocalInv, TailInv, AnchorInv, CapInv, Handle
  <2>5. FilesInv'
    BY <1>2, <2>1, FilesSame
  <2> QED BY <1>3, <2>1, <2>4, <2>5, InsideStep
<1>5. CASE SwapStore(p)
  <2>1. Leave(p) /\ pc[p] = "gc_swap"
    BY <1>5 DEF SwapStore
  <2>2. ASSUME NEW r \in StoredRows, r \in live[p] PROVE r \in StoredRows'
    <3>1. CASE UNCHANGED store
      BY <2>2, <3>1 DEF StoredRows
    <3>2. CASE store' \in Selections(store, KeptLines(live[p]))
      <4>1. KeptLines(live[p]) \in SUBSET (DOMAIN store) /\ store \in Seq(Rows \cup {Torn})
        BY <1>1 DEF KeptLines, FilesOK
      <4>2. ToSet(store') = {store[k] : k \in KeptLines(live[p])}
        BY <3>2, <4>1, SelectionsType
      <4>3. PICK i \in DOMAIN store : store[i] = r
        BY DEF StoredRows, ToSet
      <4>4. i \in KeptLines(live[p]) /\ r # Torn
        BY <2>2, <4>3 DEF KeptLines, StoredRows
      <4> QED BY <4>2, <4>3, <4>4 DEF StoredRows
    <3> QED BY <1>5, <3>1, <3>2 DEF SwapStore
  <2>3. \A v \in Versions : Published(v) =>
          ToSet(record[v].content) \subseteq StoredRows /\ ToSet(record[v].content) \subseteq live[p]
    BY <1>2, <2>1 DEF FilesInv, PublishedRowsKept, LocalInv, GcInv
  <2>4. \A v \in Versions : Published(v) => ToSet(record[v].content) \subseteq StoredRows'
    BY <2>2, <2>3
  <2>5. FilesInv'
    BY <1>2, <2>4 DEF FilesInv, PubInv, PublishedRowsKept, Published, Prefix
  <2>6. /\ ~Active(p)' /\ ~InStore(p)' /\ ~mid'[p]
        /\ \A q \in Procs : q # p => pc'[q] = pc[q] /\ mid'[q] = mid[q]
    BY <2>1, LeaveEffect
  <2> QED BY <1>3, <2>5, <2>6, Quiet, InsideStep
<1> QED BY <1>4, <1>5

\* A torn manifest is still a prefix of what its version published.
LEMMA SafeTear ==
  ASSUME TypeOK, IInv, NEW v \in Versions, TearManifest(v)
  PROVE  IInv'
<1>1. FilesOK
  BY TypeParts
<1>2. PICK n \in 0 .. Len(manifest[v]) - 1 :
        manifest' = [manifest EXCEPT ![v] = SubSeq(manifest[v], 1, n)]
  BY <1>1 DEF TearManifest, FilesOK
<1>3. manifest[v] \in Seq(Rows) /\ Len(manifest[v]) \in Nat
  BY <1>1, LenProperties DEF FilesOK, TearManifest
<1>4. /\ n \in 0 .. Len(manifest[v]) /\ n <= Len(manifest[v])
      /\ manifest'[v] = SubSeq(manifest[v], 1, n)
  BY <1>1, <1>2, <1>3 DEF FilesOK
<1>5. /\ manifest'[v] \in Seq(Rows) /\ Len(manifest'[v]) = n
      /\ \A i \in 1 .. n : manifest'[v][i] = manifest[v][i]
  BY <1>3, <1>4, ToSetSubSeq
<1>6. manifest'[v] # None
  BY <1>5, ConstantsAssumption
<1>7. ASSUME NEW c, Len(c) \in Nat, Prefix(manifest[v], c) PROVE Prefix(manifest'[v], c)
  BY <1>3, <1>4, <1>5, <1>7 DEF Prefix
<1>8. \A w \in Versions : w # v => manifest'[w] = manifest[w]
  BY <1>1, <1>2 DEF FilesOK
<1>9. UNCHANGED <<store, tailOpen, record, storeLock, pc, locals>>
  BY DEF TearManifest
<1>10. PubInv'
  <2> SUFFICES ASSUME NEW w \in Versions, Published(w)'
               PROVE  /\ record'[w].content # None /\ manifest'[w] # None
                      /\ Prefix(manifest'[w], record'[w].content)
    BY DEF PubInv, Prefix
  <2>1. /\ Published(w) /\ record[w].content # None /\ manifest[w] # None
        /\ Prefix(manifest[w], record[w].content)
    BY <1>9 DEF Published, IInv, FilesInv, PubInv
  <2>2. Len(record[w].content) \in Nat
    BY <1>1, <2>1, LenProperties DEF FilesOK, Records, Published
  <2> QED BY <1>6, <1>7, <1>8, <1>9, <2>1, <2>2
<1>11. PublishedRowsKept' /\ LockInv'
  BY <1>9 DEF IInv, FilesInv, PublishedRowsKept, Published, StoredRows, LockInv, InStore
<1>12. ASSUME NEW p \in Procs PROVE LocalInv(p)'
  <2>1. LocalInv(p)
    BY DEF IInv
  <2>2. TailInv(p)' /\ AnchorInv(p)' /\ GcInv(p)'
    BY <1>9, <2>1 DEF LocalInv, TailInv, AnchorInv, GcInv, Published, Handle, locals
  <2>3. ASSUME pc[p] = "record", Stores(p)
        PROVE  vid[p] # None /\ manifest'[vid[p]] # None /\ Prefix(manifest'[vid[p]], cap[p])
    <3>1. vid[p] # None /\ manifest[vid[p]] # None /\ Prefix(manifest[vid[p]], cap[p])
      BY <2>1, <2>3 DEF LocalInv, CapInv
    <3>2. vid[p] \in Versions /\ Len(cap[p]) \in Nat
      <4>1. cap[p] \in Seq(Rows) /\ vid[p] \in Versions
        BY <2>3, <3>1, TypeParts DEF LocalsOK, Stores
      <4> QED BY <4>1, LenProperties
    <3> QED BY <1>6, <1>7, <1>8, <3>1, <3>2
  <2>4. CapInv(p)'
    BY <1>9, <2>1, <2>3 DEF LocalInv, CapInv, Stores, StoredRows, Prefix, locals
  <2> QED BY <2>2, <2>4 DEF LocalInv
<1> QED BY <1>10, <1>11, <1>12 DEF IInv, FilesInv

-----------------------------------------------------------------------------
LEMMA SafeStep == TypeOK /\ IInv /\ [Next]_vars => IInv'
<1> SUFFICES ASSUME TypeOK, IInv, [Next]_vars PROVE IInv'
  OBVIOUS
<1>1. ASSUME NEW p \in Procs, Starting(p) \/ Running(p) \/ Crash(p) PROVE IInv'
  BY <1>1, SafeOutside, SafeScan, SafeSpill, SafeFlush, SafePublish, SafeCollect DEF Running
<1>2. ASSUME NEW v \in Versions, TearManifest(v) PROVE IInv'
  BY <1>2, SafeTear
<1>3. CASE UNCHANGED vars
  <2>1. UNCHANGED <<store, tailOpen, manifest, record, storeLock, pc, cap, buf, mid, size,
                    failed, vid, live>>
    BY <1>3 DEF vars, files, locals
  <2>2. FilesInv' /\ LockInv'
    BY <2>1, FilesSame DEF IInv, LockInv, InStore
  <2>3. \A p \in Procs : LocalInv(p)'
    BY <2>1 DEF IInv, LocalInv, TailInv, AnchorInv, CapInv, GcInv, Handle, Stores, StoredRows,
                Published, Prefix
  <2> QED BY <2>2, <2>3 DEF IInv
<1> QED BY <1>1, <1>2, <1>3 DEF Next

\* Whatever crashes, write errors, late flushes, garbage collections and torn
\* manifests do, in any number and any order: the row store holds every row of
\* every version whose record says that its rows are stored.
THEOREM RowsKept == Spec => []PublishedRowsKept
<1>1. Spec => []IInv
  BY TypeInit, SafeInit, TypeStep, SafeStep, PTL DEF Spec
<1>2. IInv => PublishedRowsKept
  BY DEF IInv, FilesInv
<1> QED BY <1>1, <1>2, PTL

\* Whoever works on the version store holds its lock: two processes never are
\* between a capture's first look at the store and its record, or inside a
\* garbage collection, at once.
THEOREM OneInStore ==
  Spec => [](\A p, q \in Procs : InStore(p) /\ InStore(q) => p = q)
<1>1. Spec => []IInv
  BY TypeInit, SafeInit, TypeStep, SafeStep, PTL DEF Spec
<1>2. IInv => \A p, q \in Procs : InStore(p) /\ InStore(q) => p = q
  BY DEF IInv, LockInv
<1> QED BY <1>1, <1>2, PTL

-----------------------------------------------------------------------------
(***************************************************************************)
(* No command overwrites a dataset that no stored version holds, and the   *)
(* commands together implement DatasetHistory: proofs for any processes,   *)
(* rows and version ids.  The invariant says what a command remembers      *)
(* about examples.jsonl and about its undo version while it holds the      *)
(* writer lock.                                                            *)
(***************************************************************************)

\* p is past the point where its command has taken the writer lock.
Writing(p) ==
  op[p] \in {"append", "mutate", "import"} \/ (op[p] = "restore" /\ pc[p] # "restore_lock")

OpInv(p) ==
  /\ pc[p] = "idle" => op[p] = None
  /\ pc[p] = "append" => op[p] = "append"
  /\ pc[p] = "import_append" => op[p] = "import"
  /\ pc[p] \in {"verify", "replace"} => op[p] \in {"mutate", "restore"}
  /\ Writing(p) => writerLock = p

\* Nobody has the version id of another process.
IdInv == \A p, q \in Procs : vid[p] # None /\ vid[q] = vid[p] => p = q

Captured(p) == pc[p] \in {"write", "rollback", "late_flush", "manifest", "record"}

\* What p read is what examples.jsonl still holds, and so does its undo version.
UndoInv(p) ==
  /\ pc[p] = "append" => lines[p] = examples
  /\ Captured(p) /\ op[p] \in {"mutate", "restore"} /\ cap[p] # None => cap[p] = examples
  /\ pc[p] \notin {"record", "verify", "replace"} => vid[p] = None
  /\ pc[p] = "record" /\ vid[p] # None => record[vid[p]] = None
  /\ pc[p] \in {"verify", "replace"} =>
       /\ vid[p] # None /\ record[vid[p]] # None
       /\ record[vid[p]].content # None => record[vid[p]].content = examples
  /\ pc[p] = "replace" =>
       record[vid[p]].content # None /\ (examples = <<>> \/ Published(vid[p]))

OwnInv(p) == OpInv(p) /\ UndoInv(p)

UInv == IdInv /\ \A p \in Procs : OwnInv(p)

-----------------------------------------------------------------------------
(* The kinds of steps *)

\* What a step of p leaves to the others.
OthersSame(p) ==
  \A q \in Procs : q # p =>
    /\ pc'[q] = pc[q] /\ op'[q] = op[q] /\ lines'[q] = lines[q]
    /\ cap'[q] = cap[q] /\ vid'[q] = vid[q]
    /\ writerLock = q => writerLock' = q

\* It changes no record whose id another process has, and takes no such id.
IdsApart(p) ==
  \A q \in Procs : q # p /\ vid[q] # None =>
    record'[vid[q]] = record[vid[q]] /\ vid'[p] # vid[q]

LEMMA UndoInit == Init => UInv
<1> SUFFICES ASSUME Init PROVE UInv
  OBVIOUS
<1>1. ASSUME NEW p \in Procs PROVE OwnInv(p)
  <2>1. pc[p] = "idle" /\ op[p] = None /\ vid[p] = None
    BY DEF Init
  <2> QED BY <2>1, ConstantsAssumption
          DEF OwnInv, OpInv, UndoInv, Writing, Captured, AllOperations
<1>2. IdInv
  BY DEF Init, IdInv
<1> QED BY <1>1, <1>2 DEF UInv

\* A step of p keeps what the others rely on if it changes examples.jsonl only
\* under the writer lock.
LEMMA OthersKeep ==
  ASSUME UInv, NEW p \in Procs, OthersSame(p), IdsApart(p),
         examples' = examples \/ writerLock = p,
         OwnInv(p)'
  PROVE  UInv'
<1>1. ASSUME NEW q \in Procs, q # p PROVE OwnInv(q)'
  <2>1. /\ OwnInv(q)
        /\ pc'[q] = pc[q] /\ op'[q] = op[q] /\ lines'[q] = lines[q]
        /\ cap'[q] = cap[q] /\ vid'[q] = vid[q]
        /\ (writerLock = q => writerLock' = q)
        /\ vid[q] # None => record'[vid[q]] = record[vid[q]]
    BY <1>1 DEF UInv, OthersSame, IdsApart
  <2>2. OpInv(q)'
    BY <2>1 DEF OwnInv, OpInv, Writing
  <2>3. Writing(q) => examples' = examples
    BY <1>1, <2>1 DEF OwnInv, OpInv
  <2>4. /\ pc[q] = "append" => Writing(q)
        /\ Captured(q) /\ op[q] \in {"mutate", "restore"} => Writing(q)
        /\ pc[q] \in {"verify", "replace"} => Writing(q)
    BY <2>1 DEF OwnInv, OpInv, Writing, Captured
  <2>5. UndoInv(q)'
    BY <2>1, <2>3, <2>4 DEF OwnInv, UndoInv, Captured, Published
  <2> QED BY <2>2, <2>5 DEF OwnInv
<1>2. IdInv'
  BY DEF UInv, IdInv, OthersSame, IdsApart
<1> QED BY <1>1, <1>2 DEF UInv

\* A step of p that neither takes an id nor changes a record.
LEMMA SameIds ==
  ASSUME UInv, NEW p \in Procs, UNCHANGED record, vid'[p] = vid[p] \/ vid'[p] = None
  PROVE  IdsApart(p)
  BY DEF UInv, IdInv, IdsApart

\* Leaving a command, with or without a change of examples.jsonl before.
LEMMA LeaveKeeps ==
  ASSUME TypeOK, UInv, NEW p \in Procs, Leave(p),
         \A q \in Procs : q # p /\ vid[q] # None => record'[vid[q]] = record[vid[q]],
         examples' = examples \/ writerLock = p
  PROVE  UInv'
<1>1. ControlOK /\ LocalsOK
  BY TypeParts
<1>2. pc'[p] = "idle" /\ op'[p] = None /\ vid'[p] = None
  BY <1>1 DEF Leave, ControlOK, LocalsOK
<1>3. OthersSame(p)
  BY <1>1, <1>2 DEF Leave, ControlOK, LocalsOK, OthersSame
<1>4. IdsApart(p)
  BY <1>2 DEF IdsApart
<1>5. OwnInv(p)'
  BY <1>2, ConstantsAssumption DEF OwnInv, OpInv, UndoInv, Writing, Captured, AllOperations
<1> QED BY <1>3, <1>4, <1>5, OthersKeep

\* A step of p that only moves p on.
LEMMA MoveKeeps ==
  ASSUME TypeOK, UInv, NEW p \in Procs,
         UNCHANGED <<record, vid>>, pc' = [pc EXCEPT ![p] = pc'[p]],
         \A q \in Procs : q # p =>
           op'[q] = op[q] /\ lines'[q] = lines[q] /\ cap'[q] = cap[q],
         writerLock' = writerLock \/ (writerLock = None /\ writerLock' = p),
         examples' = examples \/ writerLock = p,
         OwnInv(p)'
  PROVE  UInv'
<1>1. ControlOK
  BY TypeParts
<1>2. OthersSame(p)
  BY <1>1, ConstantsAssumption DEF ControlOK, OthersSame
<1>3. IdsApart(p)
  BY SameIds
<1> QED BY <1>2, <1>3, OthersKeep

-----------------------------------------------------------------------------
(* The invariant *)

\* Commands that end, or overwrite examples.jsonl and end.
LEMMA UndoLeave ==
  ASSUME TypeOK, UInv, NEW p \in Procs,
         \/ CommitAppend(p) \/ EmptyAppend(p) \/ RestoreRefused(p) \/ StoreBusy(p)
         \/ RefuseUndo(p) \/ Replace(p) \/ RefuseScan(p) \/ SwapStore(p) \/ Crash(p)
  PROVE  UInv'
<1>1. Leave(p) /\ UNCHANGED record
  BY DEF CommitAppend, EmptyAppend, RestoreRefused, StoreBusy, RefuseUndo, Replace, RefuseScan,
         SwapStore, Crash, files
<1>2. CASE CommitAppend(p) \/ Replace(p)
  <2>1. writerLock = p
    BY <1>2 DEF CommitAppend, Replace, UInv, OwnInv, OpInv, Writing
  <2> QED BY <1>1, <2>1, LeaveKeeps
<1>3. CASE UNCHANGED examples
  BY <1>1, <1>3, LeaveKeeps
<1> QED
  BY <1>2, <1>3 DEF EmptyAppend, RestoreRefused, StoreBusy, RefuseUndo, RefuseScan,
                    SwapStore, Crash, files

LEMMA UndoStart ==
  ASSUME TypeOK, UInv, NEW p \in Procs, Starting(p) \/ RestoreLock(p)
  PROVE  UInv'
<1>1. ControlOK /\ LocalsOK /\ FilesOK
  BY TypeParts
<1>2. OwnInv(p)
  BY DEF UInv
<1>3. CASE StartAppend(p) \/ StartMutate(p) \/ StartRestore(p) \/ StartImport(p) \/ StartStoreOnly(p)
  <2>1. /\ pc[p] = "idle" /\ UNCHANGED <<files, cap, vid>>
        /\ writerLock' = writerLock \/ (writerLock = None /\ writerLock' = p)
    BY <1>3 DEF StartAppend, StartMutate, StartRestore, StartImport, StartStoreOnly, Starts,
                TakeWriterLock, locals
  <2>2. \E l : pc' = [pc EXCEPT ![p] = l]
    BY <1>3 DEF StartAppend, StartMutate, StartRestore, StartImport, StartStoreOnly, Starts, Goto
  <2>3. pc' = [pc EXCEPT ![p] = pc'[p]]
    BY <1>1, <2>2 DEF ControlOK
  <2>4. \A q \in Procs : q # p => op'[q] = op[q] /\ lines'[q] = lines[q] /\ cap'[q] = cap[q]
    BY <1>1, <1>3 DEF StartAppend, StartMutate, StartRestore, StartImport, StartStoreOnly, Starts,
                      locals, ControlOK, LocalsOK
  <2>5. vid'[p] = None
    BY <1>2, <2>1 DEF OwnInv, UndoInv
  <2>6. OwnInv(p)'
    <3>1. CASE StartAppend(p)
      <4>1. pc'[p] = "append" /\ op'[p] = "append" /\ writerLock' = p /\ lines'[p] = examples'
        BY <1>1, <3>1 DEF StartAppend, Starts, Goto, TakeWriterLock, ControlOK, LocalsOK, files
      <4> QED BY <2>5, <4>1 DEF OwnInv, OpInv, UndoInv, Writing, Captured
    <3>2. CASE StartMutate(p) \/ StartImport(p)
      <4>1. pc'[p] = "want_store" /\ writerLock' = p
        BY <1>1, <3>2 DEF StartMutate, StartImport, Starts, Goto, TakeWriterLock, ControlOK
      <4> QED BY <2>5, <4>1 DEF OwnInv, OpInv, UndoInv, Writing, Captured
    <3>3. CASE StartRestore(p)
      <4>1. pc'[p] = "restore_lock" /\ op'[p] = "restore"
        BY <1>1, <3>3 DEF StartRestore, Starts, Goto, ControlOK
      <4> QED BY <2>5, <4>1 DEF OwnInv, OpInv, UndoInv, Writing, Captured
    <3>4. CASE StartStoreOnly(p)
      <4>1. pc'[p] = "want_store" /\ op'[p] \in {"version", "gc"}
        BY <1>1, <3>4 DEF StartStoreOnly, Starts, Goto, ControlOK
      <4> QED BY <2>5, <4>1 DEF OwnInv, OpInv, UndoInv, Writing, Captured
    <3> QED BY <1>3, <3>1, <3>2, <3>3, <3>4
  <2> QED BY <2>1, <2>3, <2>4, <2>6, MoveKeeps DEF files
<1>4. CASE FingerprintOnly(p)
  <2>1. PICK v \in FreshVersions, c \in {None, examples} :
          record' = [record EXCEPT ![v] = [content |-> c, stored |-> FALSE]]
    BY <1>4 DEF FingerprintOnly
  <2>2. \A q \in Procs : vid[q] # v
    BY <2>1 DEF FreshVersions
  <2>3. pc[p] = "idle" /\ UNCHANGED <<examples, pc, op, lines, cap, vid, writerLock>>
    BY <1>4 DEF FingerprintOnly, locals
  <2>4. \A q \in Procs : vid[q] # None => record'[vid[q]] = record[vid[q]]
    <3>1. ASSUME NEW q \in Procs, vid[q] # None PROVE record'[vid[q]] = record[vid[q]]
      <4>1. vid[q] \in Versions
        BY <1>1, <3>1 DEF LocalsOK
      <4> QED BY <1>1, <2>1, <2>2, <4>1 DEF FilesOK
    <3> QED BY <3>1
  <2>5. vid[p] = None
    BY <1>2, <2>3 DEF OwnInv, UndoInv
  <2>6. OthersSame(p) /\ IdsApart(p)
    BY <2>3, <2>4, <2>5 DEF OthersSame, IdsApart
  <2>7. OwnInv(p)'
    BY <1>2, <2>3, <2>5 DEF OwnInv, OpInv, UndoInv, Writing, Captured
  <2> QED BY <2>3, <2>6, <2>7, OthersKeep
<1>5. CASE RestoreLock(p)
  <2>1. /\ pc[p] = "restore_lock" /\ pc' = [pc EXCEPT ![p] = "want_store"]
        /\ writerLock = None /\ writerLock' = p /\ UNCHANGED <<files, op, lines, cap, vid>>
    BY <1>5 DEF RestoreLock, Goto, TakeWriterLock, locals
  <2>2. pc'[p] = "want_store" /\ pc' = [pc EXCEPT ![p] = pc'[p]]
    BY <1>1, <2>1 DEF ControlOK
  <2>3. OwnInv(p)'
    BY <1>2, <2>1, <2>2 DEF OwnInv, OpInv, UndoInv, Writing, Captured
  <2> QED BY <2>1, <2>2, <2>3, MoveKeeps DEF files
<1> QED BY <1>3, <1>4, <1>5 DEF Starting

\* The steps of a capture and of the collection that publish nothing.
LEMMA UndoCapture ==
  ASSUME TypeOK, UInv, NEW p \in Procs,
         \/ AcquireStore(p) \/ ImportAppend(p) \/ TerminateTail(p) \/ ScanAndRead(p)
         \/ Spill(p) \/ FlushFails(p) \/ CloseStore(p) \/ Rollback(p) \/ CaptureReturns(p)
         \/ ScanManifests(p)
  PROVE  UInv'
<1>1. ControlOK /\ LocalsOK
  BY TypeParts
<1>2. OwnInv(p)
  BY DEF UInv
<1>3. UNCHANGED <<record, vid, op, lines, writerLock>>
  BY DEF AcquireStore, ImportAppend, TerminateTail, ScanAndRead, Spill, FlushFails, CloseStore,
         Rollback, CaptureReturns, ScanManifests, files, locals
<1>4. \E l : pc' = [pc EXCEPT ![p] = l]
  <2>1. CASE Spill(p)
    BY <1>1, <2>1 DEF Spill, ControlOK
  <2> QED
    BY <2>1 DEF AcquireStore, ImportAppend, TerminateTail, ScanAndRead, FlushFails, CloseStore,
                Rollback, CaptureReturns, ScanManifests, Goto
<1>5. pc' = [pc EXCEPT ![p] = pc'[p]]
  BY <1>1, <1>4 DEF ControlOK
<1>6. \A q \in Procs : q # p => cap'[q] = cap[q]
  BY <1>1 DEF AcquireStore, ImportAppend, TerminateTail, ScanAndRead, Spill, FlushFails,
              CloseStore, Rollback, CaptureReturns, ScanManifests, locals, LocalsOK
<1>7. examples' = examples \/ (ImportAppend(p) /\ writerLock = p)
  BY <1>2 DEF AcquireStore, ImportAppend, TerminateTail, ScanAndRead, Spill, FlushFails,
              CloseStore, Rollback, CaptureReturns, ScanManifests, files, OwnInv, OpInv, Writing
<1>8. /\ pc[p] \in {"want_store", "import_append", "capture", "scan", "write", "rollback",
                     "late_flush", "gc_scan"}
      /\ pc'[p] \in {"import_append", "capture", "scan", "write", "rollback", "late_flush",
                      "manifest", "record", "gc_scan", "gc_swap"}
      /\ pc'[p] = "import_append" => op[p] = "import"
  BY <1>1 DEF AcquireStore, ImportAppend, TerminateTail, ScanAndRead, Spill, FlushFails,
              CloseStore, Rollback, CaptureReturns, ScanManifests, Goto, ControlOK
<1>9. OpInv(p)'
  BY <1>2, <1>3, <1>8 DEF OwnInv, OpInv, Writing
<1>10. Captured(p)' /\ cap'[p] # None => \/ cap'[p] = examples'
                                         \/ Captured(p) /\ UNCHANGED <<cap, examples>>
  <2>1. CASE ScanAndRead(p)
    <3>1. cap'[p] \in {None, examples} /\ examples' = examples
      BY <1>1, <2>1 DEF ScanAndRead, LocalsOK, files
    <3> QED BY <3>1
  <2>2. CASE AcquireStore(p) \/ ImportAppend(p) \/ TerminateTail(p) \/ ScanManifests(p)
    <3>1. pc'[p] \in {"import_append", "capture", "scan", "gc_scan", "gc_swap"}
      BY <1>1, <2>2 DEF AcquireStore, ImportAppend, TerminateTail, ScanManifests, Goto, ControlOK
    <3> QED BY <3>1 DEF Captured
  <2>3. CASE Spill(p) \/ FlushFails(p) \/ CloseStore(p) \/ Rollback(p) \/ CaptureReturns(p)
    BY <2>3 DEF Spill, FlushFails, CloseStore, Rollback, CaptureReturns, Captured, files, locals
  <2> QED BY <2>1, <2>2, <2>3
<1>11. vid'[p] = None
  BY <1>2, <1>3, <1>8 DEF OwnInv, UndoInv
<1>12. UndoInv(p)'
  BY <1>2, <1>3, <1>8, <1>10, <1>11 DEF OwnInv, UndoInv, Captured
<1>13. OwnInv(p)'
  BY <1>9, <1>12 DEF OwnInv
<1> QED BY <1>3, <1>5, <1>6, <1>7, <1>13, MoveKeeps

LEMMA UndoPublish ==
  ASSUME TypeOK, UInv, NEW p \in Procs, SaveManifest(p) \/ SaveRecord(p)
  PROVE  UInv'
<1>1. ControlOK /\ LocalsOK /\ FilesOK
  BY TypeParts
<1>2. OwnInv(p)
  BY DEF UInv
<1>3. CASE SaveManifest(p)
  <2>1. PICK v \in FreshVersions : vid' = [vid EXCEPT ![p] = v]
    BY <1>3 DEF SaveManifest
  <2>2. v \in Versions /\ record[v] = None /\ \A q \in Procs : vid[q] # v
    BY <2>1 DEF FreshVersions
  <2>3. /\ pc[p] = "manifest" /\ pc'[p] = "record" /\ vid'[p] = v
        /\ UNCHANGED <<examples, record, writerLock, op, lines, cap>>
        /\ \A q \in Procs : q # p => pc'[q] = pc[q] /\ vid'[q] = vid[q]
    BY <1>1, <1>3, <2>1 DEF SaveManifest, Goto, ControlOK, LocalsOK
  <2>4. OthersSame(p) /\ IdsApart(p)
    BY <2>2, <2>3 DEF OthersSame, IdsApart
  <2>5. OpInv(p)'
    BY <1>2, <2>3 DEF OwnInv, OpInv, Writing
  <2>6. UndoInv(p)'
    BY <1>2, <2>2, <2>3 DEF OwnInv, UndoInv, Captured
  <2> QED BY <2>3, <2>4, <2>5, <2>6, OthersKeep DEF OwnInv
<1>4. CASE SaveRecord(p)
  <2>1. PICK v \in IF vid[p] = None THEN FreshVersions ELSE {vid[p]} :
          /\ record' = [record EXCEPT ![v] =
                [content |-> cap[p], stored |-> ~failed[p] /\ cap[p] # None]]
          /\ IF op[p] \in {"mutate", "restore"}
             THEN /\ storeLock' = None
                  /\ vid' = [vid EXCEPT ![p] = v]
                  /\ Goto(p, "verify")
                  /\ UNCHANGED <<writerLock, op, lines, cap, buf, mid, size, failed, live>>
             ELSE Leave(p)
    BY <1>4 DEF SaveRecord
  <2>2. v \in Versions /\ \A q \in Procs : q # p => vid[q] # v
    BY <1>1, <2>1 DEF FreshVersions, UInv, IdInv, LocalsOK
  <2>3. \A q \in Procs : q # p /\ vid[q] # None => record'[vid[q]] = record[vid[q]]
    <3>1. ASSUME NEW q \in Procs, q # p, vid[q] # None PROVE record'[vid[q]] = record[vid[q]]
      <4>1. vid[q] \in Versions /\ vid[q] # v
        BY <1>1, <2>2, <3>1 DEF LocalsOK
      <4> QED BY <1>1, <2>1, <4>1 DEF FilesOK
    <3> QED BY <3>1
  <2>4. UNCHANGED examples
    BY <1>4 DEF SaveRecord
  <2>5. CASE op[p] \in {"mutate", "restore"}
    <3>1. /\ pc[p] = "record" /\ pc'[p] = "verify" /\ vid'[p] = v
          /\ UNCHANGED <<writerLock, op, lines, cap>>
          /\ \A q \in Procs : q # p => pc'[q] = pc[q] /\ vid'[q] = vid[q]
      BY <1>1, <1>4, <2>1, <2>5 DEF SaveRecord, Goto, ControlOK, LocalsOK
    <3>2. OthersSame(p) /\ IdsApart(p)
      BY <2>2, <2>3, <3>1 DEF OthersSame, IdsApart
    <3>3. OpInv(p)'
      BY <1>2, <2>5, <3>1 DEF OwnInv, OpInv, Writing
    <3>4. record'[v] \in Records /\ record'[v].content = cap[p]
      BY <1>1, <2>1, <2>2 DEF FilesOK, LocalsOK, Records
    <3>5. v # None /\ record'[v] # None
      BY <2>2, <3>4, ConstantsAssumption DEF Records
    <3>6. cap[p] # None => cap[p] = examples
      BY <1>2, <2>5, <3>1 DEF OwnInv, UndoInv, Captured
    <3>7. UndoInv(p)'
      BY <2>4, <3>1, <3>4, <3>5, <3>6 DEF UndoInv, Captured
    <3> QED BY <2>4, <3>2, <3>3, <3>7, OthersKeep DEF OwnInv
  <2>6. CASE op[p] \notin {"mutate", "restore"}
    BY <2>1, <2>3, <2>4, <2>6, LeaveKeeps
  <2> QED BY <2>5, <2>6
<1> QED BY <1>3, <1>4

LEMMA UndoVerify ==
  ASSUME TypeOK, UInv, NEW p \in Procs, VerifyUndo(p)
  PROVE  UInv'
<1>1. ControlOK
  BY TypeParts
<1>2. OwnInv(p)
  BY DEF UInv
<1>3. /\ pc[p] = "verify" /\ UndoVerified(p) /\ pc'[p] = "replace"
      /\ pc' = [pc EXCEPT ![p] = pc'[p]]
      /\ UNCHANGED <<examples, record, vid, op, lines, cap, writerLock>>
  BY <1>1 DEF VerifyUndo, Goto, ControlOK, files, locals
<1>4. OpInv(p)'
  BY <1>2, <1>3 DEF OwnInv, OpInv, Writing
<1>5. /\ vid[p] # None /\ record[vid[p]] # None /\ record[vid[p]].content # None
      /\ record[vid[p]].content = examples
  BY <1>2, <1>3 DEF OwnInv, UndoInv, UndoVerified
<1>6. examples = <<>> \/ Published(vid[p])
  BY <1>3, <1>5 DEF UndoVerified, Reconstructs, Published
<1>7. UndoInv(p)'
  BY <1>3, <1>5, <1>6 DEF UndoInv, Captured, Published
<1>8. OwnInv(p)'
  BY <1>4, <1>7 DEF OwnInv
<1> QED BY <1>3, <1>8, MoveKeeps

LEMMA UndoStep == TypeOK /\ UInv /\ [Next]_vars => UInv'
<1> SUFFICES ASSUME TypeOK, UInv, [Next]_vars PROVE UInv'
  OBVIOUS
<1>1. ASSUME NEW p \in Procs, Starting(p) \/ Running(p) \/ Crash(p) PROVE UInv'
  BY <1>1, UndoLeave, UndoStart, UndoCapture, UndoPublish, UndoVerify DEF Running
<1>2. CASE (\E v \in Versions : TearManifest(v)) \/ UNCHANGED vars
  <2>1. UNCHANGED <<examples, record, writerLock, pc, op, lines, cap, vid>>
    BY <1>2 DEF TearManifest, vars, files, locals
  <2> QED
    BY <2>1 DEF UInv, IdInv, OwnInv, OpInv, UndoInv, Writing, Captured, Published
<1> QED BY <1>1, <1>2 DEF Next

LEMMA Undoable == Spec => []UInv
  BY UndoInit, UndoStep, TypeCorrect, PTL DEF Spec

-----------------------------------------------------------------------------
(* What a step does to examples.jsonl and to the records *)

\* Either the lines are extended, or a version holds them.
LEMMA ContentsStep ==
  ASSUME TypeOK, IInv, UInv, [Next]_vars
  PROVE  \/ UNCHANGED examples
         \/ UNCHANGED record /\ examples' \in Seq(Rows \cup {Malformed})
            /\ (IsPrefix(examples, examples') \/ Recoverable(examples))
<1> DEFINE Changes == UNCHANGED record /\ examples' \in Seq(Rows \cup {Malformed})
                      /\ (IsPrefix(examples, examples') \/ Recoverable(examples))
<1>1. FilesOK /\ LocalsOK
  BY TypeParts
<1>2. examples' \in Seq(Rows \cup {Malformed})
  BY TypeParts, TypeStep DEF FilesOK
<1>3. ASSUME NEW r \in Rows, examples' = Append(examples, r) PROVE IsPrefix(examples, examples')
  <2>1. /\ examples \in Seq(Rows \cup {Malformed}) /\ r \in Rows \cup {Malformed}
        /\ Len(examples) \in Nat
    BY <1>1, LenProperties DEF FilesOK
  <2>2. /\ Len(examples') = Len(examples) + 1
        /\ SubSeq(examples', 1, Len(examples)) = SubSeq(examples, 1, Len(examples))
    BY <1>3, <2>1, ToSetAppend
  <2> QED BY <2>1, <2>2 DEF IsPrefix
<1>4. ASSUME NEW p \in Procs, CommitAppend(p) \/ ImportAppend(p), examples' # examples
      PROVE  Changes
  <2>1. CommitAppend(p) => lines[p] = examples
    BY DEF CommitAppend, UInv, OwnInv, UndoInv
  <2>2. PICK r \in Rows : examples' = Append(examples, r)
    BY <1>4, <2>1 DEF CommitAppend, ImportAppend
  <2>3. UNCHANGED record
    BY <1>4 DEF CommitAppend, ImportAppend
  <2> QED BY <1>2, <1>3, <2>2, <2>3
<1>5. ASSUME NEW p \in Procs, Replace(p) PROVE Changes
  <2>1. /\ record[vid[p]].content = examples
        /\ vid[p] # None /\ (examples = <<>> \/ Published(vid[p]))
    BY <1>5 DEF Replace, UInv, OwnInv, UndoInv
  <2>2. vid[p] \in Versions
    BY <1>1, <2>1 DEF LocalsOK
  <2>3. Recoverable(examples)
    BY <2>1, <2>2 DEF Recoverable, IInv, FilesInv, PublishedRowsKept
  <2> QED BY <1>2, <1>5, <2>3 DEF Replace
<1>6. ASSUME NEW p \in Procs, Starting(p) \/ Running(p) \/ Crash(p)
      PROVE  UNCHANGED examples \/ CommitAppend(p) \/ ImportAppend(p) \/ Replace(p)
  BY <1>6 DEF Starting, StartAppend, StartMutate, StartRestore, StartImport, StartStoreOnly,
     FingerprintOnly, Running, EmptyAppend, RestoreLock, RestoreRefused, AcquireStore, StoreBusy,
     TerminateTail, ScanAndRead, Spill, FlushFails, CloseStore, Rollback, CaptureReturns,
     SaveManifest, SaveRecord, VerifyUndo, RefuseUndo, ScanManifests, RefuseScan, SwapStore,
     Crash, files
<1>7. CASE (\E v \in Versions : TearManifest(v)) \/ UNCHANGED vars
  BY <1>7 DEF TearManifest, vars, files
<1> QED BY <1>4, <1>5, <1>6, <1>7 DEF Next

\* A record is written once, and one with stored rows holds what was captured.
LEMMA RecordStep ==
  ASSUME TypeOK, IInv, UInv, [Next]_vars
  PROVE  \/ UNCHANGED record
         \/ \E v \in Versions :
              /\ record[v] = None /\ record'[v] # None
              /\ \A w \in Versions : w # v => record'[w] = record[w]
              /\ record'[v].stored => record'[v].content \in Seq(Rows)
<1>1. FilesOK /\ LocalsOK
  BY TypeParts
<1>2. ASSUME NEW v \in Versions, record[v] = None, NEW c \in Seq(Rows) \cup {None},
             NEW b \in BOOLEAN, b => c # None,
             record' = [record EXCEPT ![v] = [content |-> c, stored |-> b]]
      PROVE  \E u \in Versions :
              /\ record[u] = None /\ record'[u] # None
              /\ \A w \in Versions : w # u => record'[w] = record[w]
              /\ record'[u].stored => record'[u].content \in Seq(Rows)
  <2>1. record'[v] = [content |-> c, stored |-> b]
    BY <1>1, <1>2 DEF FilesOK
  <2>2. record'[v].stored = b /\ record'[v].content = c
    BY <2>1
  <2>3. record'[v] # None
    BY <2>1, ConstantsAssumption
  <2>4. \A w \in Versions : w # v => record'[w] = record[w]
    BY <1>1, <1>2 DEF FilesOK
  <2>5. b => c \in Seq(Rows)
    BY <1>2
  <2> QED BY <1>2, <2>2, <2>3, <2>4, <2>5
<1>3. ASSUME NEW p \in Procs, FingerprintOnly(p)
      PROVE  \E v \in Versions, c \in Seq(Rows) \cup {None} :
               /\ record[v] = None
               /\ record' = [record EXCEPT ![v] = [content |-> c, stored |-> FALSE]]
  BY <1>1, <1>3, ReadType DEF FingerprintOnly, FreshVersions
<1>4. ASSUME NEW p \in Procs, SaveRecord(p)
      PROVE  \E v \in Versions :
               /\ record[v] = None
               /\ record' = [record EXCEPT ![v] =
                    [content |-> cap[p], stored |-> ~failed[p] /\ cap[p] # None]]
  <2>1. PICK v \in IF vid[p] = None THEN FreshVersions ELSE {vid[p]} :
          record' = [record EXCEPT ![v] =
            [content |-> cap[p], stored |-> ~failed[p] /\ cap[p] # None]]
    BY <1>4 DEF SaveRecord
  <2>2. pc[p] = "record"
    BY <1>4 DEF SaveRecord
  <2>3. v \in Versions /\ record[v] = None
    BY <1>1, <2>1, <2>2 DEF FreshVersions, UInv, OwnInv, UndoInv, LocalsOK
  <2> QED BY <2>1, <2>3
<1>5. ASSUME NEW p \in Procs, Starting(p) \/ Running(p) \/ Crash(p)
      PROVE  UNCHANGED record \/ FingerprintOnly(p) \/ SaveRecord(p)
  BY <1>5 DEF Starting, StartAppend, StartMutate, StartRestore, StartImport, StartStoreOnly,
     Running, EmptyAppend, RestoreLock, RestoreRefused, AcquireStore, StoreBusy, CommitAppend,
     ImportAppend, TerminateTail, ScanAndRead, Spill, FlushFails, CloseStore, Rollback,
     CaptureReturns, SaveManifest, VerifyUndo, RefuseUndo, Replace, ScanManifests, RefuseScan,
     SwapStore, Crash, files
<1>6. CASE (\E v \in Versions : TearManifest(v)) \/ UNCHANGED vars
  BY <1>6 DEF TearManifest, vars, files
<1>7. ASSUME NEW p \in Procs
      PROVE  /\ cap[p] \in Seq(Rows) \cup {None}
             /\ (~failed[p] /\ cap[p] # None) \in BOOLEAN
             /\ (~failed[p] /\ cap[p] # None) => cap[p] # None
  BY <1>1 DEF LocalsOK
<1>8. ASSUME NEW p \in Procs, FingerprintOnly(p) \/ SaveRecord(p)
      PROVE  \E v \in Versions :
              /\ record[v] = None /\ record'[v] # None
              /\ \A w \in Versions : w # v => record'[w] = record[w]
              /\ record'[v].stored => record'[v].content \in Seq(Rows)
  <2>1. CASE FingerprintOnly(p)
    <3>1. PICK v \in Versions, c \in Seq(Rows) \cup {None} :
               /\ record[v] = None
               /\ record' = [record EXCEPT ![v] = [content |-> c, stored |-> FALSE]]
      BY <1>3, <2>1
    <3> QED BY <1>2, <3>1
  <2>2. CASE SaveRecord(p)
    <3> DEFINE b == ~failed[p] /\ cap[p] # None
    <3>1. PICK v \in Versions :
               /\ record[v] = None
               /\ record' = [record EXCEPT ![v] = [content |-> cap[p], stored |-> b]]
      BY <1>4, <2>2
    <3>2. b \in BOOLEAN /\ (b => cap[p] # None)
      BY <1>7
    <3> HIDE DEF b
    <3> QED BY <1>2, <1>7, <3>1, <3>2
  <2> QED BY <1>8, <2>1, <2>2
<1> QED BY <1>5, <1>6, <1>8 DEF Next

LEMMA Kept == Spec => [](TypeOK /\ IInv /\ UInv)
  BY TypeInit, SafeInit, UndoInit, TypeStep, SafeStep, UndoStep, PTL DEF Spec

-----------------------------------------------------------------------------
(* The theorems *)

\* Whatever else runs, fails or dies meanwhile, a command that removes or
\* changes rows of examples.jsonl finds the lines it replaces in a stored
\* version, and an append extends the lines of the moment: the undo of
\* _apply_examples_mutation and of a restore, and no lost update.
THEOREM UndoHolds == Spec => NoRowLostWithoutVersion
<1>1. ASSUME TypeOK, IInv, UInv, [Next]_vars
      PROVE  [IsPrefix(examples, examples') \/ Recoverable(examples)]_vars
  <2>1. Len(examples) \in Nat
    BY TypeParts, LenProperties DEF FilesOK
  <2>2. examples' = examples => IsPrefix(examples, examples')
    BY <2>1 DEF IsPrefix
  <2> QED BY <1>1, <2>2, ContentsStep
<1> QED BY <1>1, Kept, PTL DEF Spec, NoRowLostWithoutVersion

\* The published versions, all of which can be restored.
LEMMA HistoryIs ==
  ASSUME PublishedRowsKept
  PROVE  RestorableHistory = {<<v, record[v].content>> : v \in {w \in Versions : Published(w)}}
  BY DEF PublishedRowsKept, RestorableHistory

LEMMA HistoryStep ==
  ASSUME TypeOK, IInv, UInv, IInv', [Next]_vars
  PROVE  [History!Next]_<<examples, RestorableHistory>>
<1> DEFINE H == {<<v, record[v].content>> : v \in {w \in Versions : Published(w)}}
<1>1. PublishedRowsKept /\ PublishedRowsKept'
  BY DEF IInv, FilesInv
<1>2. RestorableHistory = H
  BY <1>1, HistoryIs
<1>3. RestorableHistory' = H'
  BY <1>1 DEF PublishedRowsKept, RestorableHistory
<1>4. CASE UNCHANGED record
  <2>1. UNCHANGED RestorableHistory
    BY <1>2, <1>3, <1>4 DEF Published
  <2>2. CASE UNCHANGED examples
    BY <2>1, <2>2
  <2>3. CASE examples' \in Seq(Rows \cup {Malformed}) /\ IsPrefix(examples, examples')
    BY <2>1, <2>3 DEF History!Next, History!Extend, IsPrefix, History!IsPrefix
  <2>4. CASE examples' \in Seq(Rows \cup {Malformed}) /\ Recoverable(examples)
    <3>1. examples = <<>> \/ \E v \in Versions : <<v, examples>> \in RestorableHistory
      BY <1>2, <2>4 DEF Recoverable
    <3> QED BY <2>1, <2>4, <3>1 DEF History!Next, History!Overwrite
  <2> QED BY <2>2, <2>3, <2>4, ContentsStep
<1>5. ASSUME NEW v \in Versions, record[v] = None, record'[v] # None,
             \A w \in Versions : w # v => record'[w] = record[w],
             record'[v].stored => record'[v].content \in Seq(Rows),
             record' # record
      PROVE  [History!Next]_<<examples, RestorableHistory>>
  <2>1. UNCHANGED examples
    BY <1>5, ContentsStep
  <2>2. \A w \in Versions : w # v => (Published(w)' <=> Published(w))
    BY <1>5 DEF Published
  <2>3. ~Published(v) /\ (Published(v)' <=> record'[v].stored)
    BY <1>5 DEF Published
  <2>4. CASE ~record'[v].stored
    <3>1. H' = H
      BY <1>5, <2>2, <2>3, <2>4
    <3> QED BY <1>2, <1>3, <2>1, <3>1
  <2>5. CASE record'[v].stored
    <3> DEFINE e == <<v, record'[v].content>>
    <3>1. H' = H \cup {e}
      BY <1>5, <2>2, <2>3, <2>5
    <3>2. record'[v].content \in Seq(Rows \cup {Malformed})
      BY <1>5, <2>5, SeqMonotonic
    <3>3. e \in Versions \X Seq(Rows \cup {Malformed})
      BY <3>2
    <3>4. \A h \in H : h[1] # e[1]
      BY <2>3
    <3> HIDE DEF H, e
    <3>5. History!Publish
      BY <1>2, <1>3, <2>1, <3>1, <3>3, <3>4 DEF History!Publish
    <3> QED BY <3>5 DEF History!Next
  <2> QED BY <2>4, <2>5
<1> QED BY <1>4, <1>5, RecordStep

\* Seen from outside, the commands are a dataset that only grows unless a stored
\* version has its lines, with versions that stay for ever as they were stored.
THEOREM Refines == Spec => ImplementsHistory
<1>1. Init => History!Init
  <2> SUFFICES ASSUME Init PROVE History!Init
    OBVIOUS
  <2>1. examples \in Seq(Rows \cup {Malformed})
    BY TypeInit DEF TypeOK
  <2>2. RestorableHistory = {}
    BY DEF Init, RestorableHistory, Published
  <2> QED BY <2>1, <2>2 DEF History!Init
<1> QED BY <1>1, Kept, HistoryStep, PTL DEF Spec, ImplementsHistory, History!Spec
=============================================================================

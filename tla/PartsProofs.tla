----------------------------- MODULE PartsProofs -----------------------------
(***************************************************************************)
(* Proofs about the parts of MCParts, for every value of their constants.  *)
(* A step of the composition is a step of one part and leaves the others   *)
(* alone, so an inductive invariant of a part is one of the whole.         *)
(***************************************************************************)
EXTENDS MCParts, SequenceTheorems, TLAPS

-----------------------------------------------------------------------------
(***************************************************************************)
(* Proofs about FileLock, for any threads and processes.  The inductive    *)
(* invariant ties the four records of who holds the lock together: being   *)
(* in a with-body, the thread-local set, the OS lock and the count of the  *)
(* process lock.                                                           *)
(***************************************************************************)

\* t has the process lock once more than it is inside with-bodies: it is
\* between acquiring it and getting in, or on its way out.
InFlight(t) == IF pc[t] \in {"check", "wait_os", "close"} THEN 1 ELSE 0

BodyInv(t) ==
  /\ held[t] <=> nest[t] > 0
  /\ held[t] => flock = t
  /\ pc[t] = "body" => nest[t] > 0
  /\ pc[t] \in {"idle", "wait_os", "close"} => nest[t] = 0
  /\ stream[t] <=> (nest[t] > 0 \/ pc[t] \in {"wait_os", "close"})
  /\ flock = t => nest[t] > 0 \/ pc[t] = "close"

RLockInv(t) ==
  /\ (nest[t] + InFlight(t) > 0) <=> owner[ProcessOf[t]] = t
  /\ owner[ProcessOf[t]] = t => depth[ProcessOf[t]] = nest[t] + InFlight(t)

FreeInv(p) == owner[p] = None => depth[p] = 0

Inv == /\ TypeOK
       /\ \A t \in Threads : BodyInv(t)
       /\ \A t \in Threads : RLockInv(t)
       /\ \A p \in Processes : FreeInv(p)
-----------------------------------------------------------------------------
LEMMA InvInit == Init => Inv
  BY FileLockAssumption DEF Init, Inv, TypeOK, BodyInv, RLockInv, FreeInv, InFlight

LEMMA TypeStep == Inv /\ [Next]_vars => TypeOK'
<1> SUFFICES ASSUME Inv, [Next]_vars PROVE  TypeOK'
  OBVIOUS
<1> USE FileLockAssumption DEF Inv, TypeOK, BodyInv, RLockInv, FreeInv, InFlight, Goto, Caller
<1>1. ASSUME NEW t \in Threads, AcquireProcessLock(t) PROVE  TypeOK'
  BY <1>1 DEF AcquireProcessLock, AcquireRLock
<1>2. ASSUME NEW t \in Threads, ProcessLockTimeout(t) PROVE  TypeOK'
  BY <1>2 DEF ProcessLockTimeout
<1>3. ASSUME NEW t \in Threads, Reenter(t) PROVE  TypeOK'
  BY <1>3 DEF Reenter
<1>4. ASSUME NEW t \in Threads, OpenStream(t) PROVE  TypeOK'
  BY <1>4 DEF OpenStream
<1>5. ASSUME NEW t \in Threads, TakeOsLock(t) PROVE  TypeOK'
  BY <1>5 DEF TakeOsLock
<1>6. ASSUME NEW t \in Threads, OsLockTimeout(t) PROVE  TypeOK'
  BY <1>6 DEF OsLockTimeout, GiveUp, ReleaseRLock
<1>7. ASSUME NEW t \in Threads, CloseStream(t) PROVE  TypeOK'
  BY <1>7 DEF CloseStream, ReleaseRLock
<1>8. ASSUME NEW t \in Threads, OpenFails(t) PROVE  TypeOK'
  BY <1>8 DEF OpenFails, ReleaseRLock
<1>9. ASSUME NEW t \in Threads, OsLockError(t) PROVE  TypeOK'
  BY <1>9 DEF OsLockError, GiveUp, ReleaseRLock
<1>10. ASSUME NEW t \in Threads, Call(t) PROVE  TypeOK'
  BY <1>10 DEF Call
<1>11. ASSUME NEW t \in Threads, LeaveNested(t) PROVE  TypeOK'
  BY <1>11 DEF LeaveNested, ReleaseRLock
<1>12. ASSUME NEW t \in Threads, LeaveOutermost(t) PROVE  TypeOK'
  BY <1>12 DEF LeaveOutermost
<1>13. ASSUME NEW p \in Processes, Crash(p) PROVE  TypeOK'
  <2>1. owner' \in [Processes -> Threads \cup {None}] /\ depth' \in [Processes -> Nat]
    BY <1>13 DEF Crash
  <2>2. flock' \in Threads \cup {None}
    BY <1>13 DEF Crash
  <2>3. stream' \in [Threads -> BOOLEAN] /\ held' \in [Threads -> BOOLEAN]
    BY <1>13, Zenon DEF Crash
  <2>4. nest' \in [Threads -> Nat]
    BY <1>13 DEF Crash
  <2>5. pc' \in [Threads -> {"idle", "wait_thread", "check", "wait_os", "body", "close"}]
    BY <1>13 DEF Crash
  <2> QED BY <2>1, <2>2, <2>3, <2>4, <2>5
<1>14. CASE UNCHANGED vars
  BY <1>14 DEF vars
<1> QED
  BY <1>1, <1>2, <1>3, <1>4, <1>5, <1>6, <1>7, <1>8, <1>9, <1>10, <1>11, <1>12, <1>13, <1>14 DEF Next, Entering, Failing, Calling

LEMMA BodyStep == Inv /\ [Next]_vars => (\A u \in Threads : BodyInv(u))'
<1> SUFFICES ASSUME Inv, [Next]_vars PROVE  (\A u \in Threads : BodyInv(u))'
  OBVIOUS
<1> USE FileLockAssumption DEF Inv, TypeOK, BodyInv, Goto, Caller
<1>1. ASSUME NEW t \in Threads, AcquireProcessLock(t) PROVE  (\A u \in Threads : BodyInv(u))'
  BY <1>1 DEF AcquireProcessLock, AcquireRLock
<1>2. ASSUME NEW t \in Threads, ProcessLockTimeout(t) PROVE  (\A u \in Threads : BodyInv(u))'
  BY <1>2 DEF ProcessLockTimeout
<1>3. ASSUME NEW t \in Threads, Reenter(t) PROVE  (\A u \in Threads : BodyInv(u))'
  BY <1>3 DEF Reenter
<1>4. ASSUME NEW t \in Threads, OpenStream(t) PROVE  (\A u \in Threads : BodyInv(u))'
  BY <1>4 DEF OpenStream
<1>5. ASSUME NEW t \in Threads, TakeOsLock(t) PROVE  (\A u \in Threads : BodyInv(u))'
  BY <1>5 DEF TakeOsLock
<1>6. ASSUME NEW t \in Threads, OsLockTimeout(t) PROVE  (\A u \in Threads : BodyInv(u))'
  BY <1>6 DEF OsLockTimeout, GiveUp, ReleaseRLock
<1>7. ASSUME NEW t \in Threads, CloseStream(t) PROVE  (\A u \in Threads : BodyInv(u))'
  BY <1>7 DEF CloseStream, ReleaseRLock
<1>8. ASSUME NEW t \in Threads, OpenFails(t) PROVE  (\A u \in Threads : BodyInv(u))'
  BY <1>8 DEF OpenFails, ReleaseRLock
<1>9. ASSUME NEW t \in Threads, OsLockError(t) PROVE  (\A u \in Threads : BodyInv(u))'
  BY <1>9 DEF OsLockError, GiveUp, ReleaseRLock
<1>10. ASSUME NEW t \in Threads, Call(t) PROVE  (\A u \in Threads : BodyInv(u))'
  BY <1>10 DEF Call
<1>11. ASSUME NEW t \in Threads, LeaveNested(t) PROVE  (\A u \in Threads : BodyInv(u))'
  BY <1>11 DEF LeaveNested, ReleaseRLock
<1>12. ASSUME NEW t \in Threads, LeaveOutermost(t) PROVE  (\A u \in Threads : BodyInv(u))'
  BY <1>12 DEF LeaveOutermost
<1>13. ASSUME NEW p \in Processes, Crash(p) PROVE  (\A u \in Threads : BodyInv(u))'
  BY <1>13 DEF Crash
<1>14. CASE UNCHANGED vars
  BY <1>14 DEF vars
<1> QED
  BY <1>1, <1>2, <1>3, <1>4, <1>5, <1>6, <1>7, <1>8, <1>9, <1>10, <1>11, <1>12, <1>13, <1>14 DEF Next, Entering, Failing, Calling

LEMMA RLockStep == Inv /\ [Next]_vars => (\A u \in Threads : RLockInv(u))'
<1> SUFFICES ASSUME Inv, [Next]_vars PROVE  (\A u \in Threads : RLockInv(u))'
  OBVIOUS
<1> USE FileLockAssumption DEF Inv, TypeOK, BodyInv, RLockInv, FreeInv, InFlight, Goto, Caller
<1>1. ASSUME NEW t \in Threads, AcquireProcessLock(t) PROVE  (\A u \in Threads : RLockInv(u))'
  BY <1>1 DEF AcquireProcessLock, AcquireRLock
<1>2. ASSUME NEW t \in Threads, ProcessLockTimeout(t) PROVE  (\A u \in Threads : RLockInv(u))'
  BY <1>2 DEF ProcessLockTimeout
<1>3. ASSUME NEW t \in Threads, Reenter(t) PROVE  (\A u \in Threads : RLockInv(u))'
  BY <1>3 DEF Reenter
<1>4. ASSUME NEW t \in Threads, OpenStream(t) PROVE  (\A u \in Threads : RLockInv(u))'
  BY <1>4 DEF OpenStream
<1>5. ASSUME NEW t \in Threads, TakeOsLock(t) PROVE  (\A u \in Threads : RLockInv(u))'
  BY <1>5 DEF TakeOsLock
<1>6. ASSUME NEW t \in Threads, OsLockTimeout(t) PROVE  (\A u \in Threads : RLockInv(u))'
  BY <1>6 DEF OsLockTimeout, GiveUp, ReleaseRLock
<1>7. ASSUME NEW t \in Threads, CloseStream(t) PROVE  (\A u \in Threads : RLockInv(u))'
  BY <1>7 DEF CloseStream, ReleaseRLock
<1>8. ASSUME NEW t \in Threads, OpenFails(t) PROVE  (\A u \in Threads : RLockInv(u))'
  BY <1>8 DEF OpenFails, ReleaseRLock
<1>9. ASSUME NEW t \in Threads, OsLockError(t) PROVE  (\A u \in Threads : RLockInv(u))'
  BY <1>9 DEF OsLockError, GiveUp, ReleaseRLock
<1>10. ASSUME NEW t \in Threads, Call(t) PROVE  (\A u \in Threads : RLockInv(u))'
  BY <1>10 DEF Call
<1>11. ASSUME NEW t \in Threads, LeaveNested(t) PROVE  (\A u \in Threads : RLockInv(u))'
  BY <1>11 DEF LeaveNested, ReleaseRLock
<1>12. ASSUME NEW t \in Threads, LeaveOutermost(t) PROVE  (\A u \in Threads : RLockInv(u))'
  BY <1>12 DEF LeaveOutermost
<1>13. ASSUME NEW p \in Processes, Crash(p) PROVE  (\A u \in Threads : RLockInv(u))'
  BY <1>13 DEF Crash
<1>14. CASE UNCHANGED vars
  BY <1>14 DEF vars
<1> QED
  BY <1>1, <1>2, <1>3, <1>4, <1>5, <1>6, <1>7, <1>8, <1>9, <1>10, <1>11, <1>12, <1>13, <1>14 DEF Next, Entering, Failing, Calling

LEMMA FreeStep == Inv /\ [Next]_vars => (\A q \in Processes : FreeInv(q))'
<1> SUFFICES ASSUME Inv, [Next]_vars PROVE  (\A q \in Processes : FreeInv(q))'
  OBVIOUS
<1> USE FileLockAssumption DEF Inv, TypeOK, BodyInv, RLockInv, FreeInv, InFlight, Goto, Caller
<1>1. ASSUME NEW t \in Threads, AcquireProcessLock(t) PROVE  (\A q \in Processes : FreeInv(q))'
  BY <1>1 DEF AcquireProcessLock, AcquireRLock
<1>2. ASSUME NEW t \in Threads, ProcessLockTimeout(t) PROVE  (\A q \in Processes : FreeInv(q))'
  BY <1>2 DEF ProcessLockTimeout
<1>3. ASSUME NEW t \in Threads, Reenter(t) PROVE  (\A q \in Processes : FreeInv(q))'
  BY <1>3 DEF Reenter
<1>4. ASSUME NEW t \in Threads, OpenStream(t) PROVE  (\A q \in Processes : FreeInv(q))'
  BY <1>4 DEF OpenStream
<1>5. ASSUME NEW t \in Threads, TakeOsLock(t) PROVE  (\A q \in Processes : FreeInv(q))'
  BY <1>5 DEF TakeOsLock
<1>6. ASSUME NEW t \in Threads, OsLockTimeout(t) PROVE  (\A q \in Processes : FreeInv(q))'
  BY <1>6 DEF OsLockTimeout, GiveUp, ReleaseRLock
<1>7. ASSUME NEW t \in Threads, CloseStream(t) PROVE  (\A q \in Processes : FreeInv(q))'
  BY <1>7 DEF CloseStream, ReleaseRLock
<1>8. ASSUME NEW t \in Threads, OpenFails(t) PROVE  (\A q \in Processes : FreeInv(q))'
  BY <1>8 DEF OpenFails, ReleaseRLock
<1>9. ASSUME NEW t \in Threads, OsLockError(t) PROVE  (\A q \in Processes : FreeInv(q))'
  BY <1>9 DEF OsLockError, GiveUp, ReleaseRLock
<1>10. ASSUME NEW t \in Threads, Call(t) PROVE  (\A q \in Processes : FreeInv(q))'
  BY <1>10 DEF Call
<1>11. ASSUME NEW t \in Threads, LeaveNested(t) PROVE  (\A q \in Processes : FreeInv(q))'
  BY <1>11 DEF LeaveNested, ReleaseRLock
<1>12. ASSUME NEW t \in Threads, LeaveOutermost(t) PROVE  (\A q \in Processes : FreeInv(q))'
  BY <1>12 DEF LeaveOutermost
<1>13. ASSUME NEW p \in Processes, Crash(p) PROVE  (\A q \in Processes : FreeInv(q))'
  BY <1>13 DEF Crash
<1>14. CASE UNCHANGED vars
  BY <1>14 DEF vars
<1> QED
  BY <1>1, <1>2, <1>3, <1>4, <1>5, <1>6, <1>7, <1>8, <1>9, <1>10, <1>11, <1>12, <1>13, <1>14 DEF Next, Entering, Failing, Calling

LEMMA InvStep == Inv /\ [Next]_vars => Inv'
  BY TypeStep, BodyStep, RLockStep, FreeStep DEF Inv

LEMMA Invariance == Spec => []Inv
  BY InvInit, InvStep, PTL DEF Spec

\* The variables keep their types, the RLock's count never goes negative.
THEOREM TypeCorrect == Spec => []TypeOK
<1>1. Inv => TypeOK
  BY DEF Inv
<1> QED BY <1>1, Invariance, PTL

\* No two threads are inside with-bodies of the same path.
THEOREM Exclusion == Spec => []MutualExclusion
<1>1. Inv => MutualExclusion
  BY DEF Inv, BodyInv, MutualExclusion
<1> QED BY <1>1, Invariance, PTL

\* The thread-local set only names a path whose OS lock the thread has.
THEOREM HeldIsLocked == Spec => []HeldMeansLocked
<1>1. Inv => HeldMeansLocked
  BY DEF Inv, BodyInv, HeldMeansLocked
<1> QED BY <1>1, Invariance, PTL

\* Whichever way a thread's calls ended, it has given everything back.
THEOREM NoLeak == Spec => []NothingLeaks
<1>1. Inv => NothingLeaks
  <2> SUFFICES ASSUME Inv, NEW t \in Threads, pc[t] = "idle"
               PROVE  /\ nest[t] = 0 /\ owner[ProcessOf[t]] # t
                      /\ flock # t /\ ~stream[t] /\ ~held[t]
    BY DEF NothingLeaks
  <2>1. BodyInv(t) /\ RLockInv(t) /\ TypeOK
    BY DEF Inv
  <2> QED BY <2>1 DEF TypeOK, BodyInv, RLockInv, InFlight
<1> QED BY <1>1, Invariance, PTL

-----------------------------------------------------------------------------
(* The refinement of the exclusive lock *)

LEMMA HolderInside == Inv => \A t \in Threads : nest[t] > 0 => Holder = t
<1> SUFFICES ASSUME Inv, NEW t \in Threads, nest[t] > 0 PROVE Holder = t
  OBVIOUS
<1>1. \A u \in Threads : nest[u] > 0 => u = t
  BY DEF Inv, BodyInv
<1> QED BY <1>1 DEF Holder

LEMMA HolderNone == (\A t \in Threads : ~(nest[t] > 0)) => Holder = None
  BY DEF Holder

LEMMA HolderStep ==
  Inv /\ Inv' /\ [Next]_vars => [Lock!Next]_Holder
<1> SUFFICES ASSUME Inv, Inv', [Next]_vars PROVE Lock!Next \/ Holder' = Holder
  OBVIOUS
<1> USE DEF Inv, TypeOK, BodyInv
<1>0. /\ \A t \in Threads : nest[t] > 0 => Holder = t
      /\ \A t \in Threads : nest'[t] > 0 => Holder' = t
      /\ (\A t \in Threads : ~(nest[t] > 0)) => Holder = None
      /\ (\A t \in Threads : ~(nest'[t] > 0)) => Holder' = None
  <2>1. \A t, u \in Threads : nest'[t] > 0 /\ nest'[u] > 0 => t = u
    OBVIOUS
  <2>2. \A t \in Threads : nest'[t] > 0 => Holder' = t
    BY <2>1 DEF Holder
  <2>3. (\A t \in Threads : ~(nest'[t] > 0)) => Holder' = None
    BY DEF Holder
  <2> QED BY HolderInside, HolderNone, <2>2, <2>3
<1>1. CASE nest' = nest
  BY <1>1 DEF Holder
<1>2. ASSUME NEW t \in Threads, Reenter(t) PROVE Holder' = Holder
  <2>1. nest[t] > 0 /\ nest'[t] > 0
    BY <1>2 DEF Reenter
  <2> QED BY <2>1, <1>0
<1>3. ASSUME NEW t \in Threads, LeaveNested(t) PROVE Holder' = Holder
  <2>1. nest[t] > 0 /\ nest'[t] > 0
    BY <1>3 DEF LeaveNested
  <2> QED BY <2>1, <1>0
<1>4. ASSUME NEW t \in Threads, TakeOsLock(t) PROVE Lock!Next
  <2>1. Holder = None
    BY <1>0, <1>4, FileLockAssumption DEF TakeOsLock
  <2>2. nest'[t] > 0
    BY <1>4 DEF TakeOsLock
  <2>3. Lock!Take(t)
    BY <2>1, <2>2, <1>0 DEF Lock!Take
  <2> QED BY <2>3 DEF Lock!Next
<1>5. ASSUME NEW t \in Threads, LeaveOutermost(t) PROVE Lock!Next
  <2>1. Holder = t
    BY <1>0, <1>5 DEF LeaveOutermost
  <2>2. \A u \in Threads : ~(nest'[u] > 0)
    BY <1>5 DEF LeaveOutermost
  <2>3. Lock!Drop
    BY <2>1, <2>2, <1>0, FileLockAssumption DEF Lock!Drop
  <2> QED BY <2>3 DEF Lock!Next
<1>6. ASSUME NEW p \in Processes, Crash(p) PROVE Lock!Next \/ Holder' = Holder
  <2>1. \A t \in Threads : nest'[t] = IF ProcessOf[t] = p THEN 0 ELSE nest[t]
    BY <1>6 DEF Crash
  <2>2. CASE \A t \in Threads : ~(nest[t] > 0)
    BY <2>1, <2>2, <1>0
  <2>3. ASSUME NEW t \in Threads, nest[t] > 0, ProcessOf[t] # p
        PROVE  Holder' = Holder
    BY <2>1, <2>3, <1>0
  <2>4. ASSUME NEW t \in Threads, nest[t] > 0, ProcessOf[t] = p
        PROVE  Lock!Drop
    <3>1. \A u \in Threads : nest[u] > 0 => u = t
      BY <2>4
    <3>2. \A u \in Threads : ~(nest'[u] > 0)
      BY <2>1, <2>4, <3>1
    <3> QED BY <2>4, <3>2, <1>0, FileLockAssumption DEF Lock!Drop
  <2> QED BY <2>2, <2>3, <2>4 DEF Lock!Next
<1> HIDE DEF Inv, TypeOK, BodyInv
<1>7. ASSUME NEW t \in Threads, Entering(t) \/ Failing(t) \/ Calling(t)
      PROVE  nest' = nest \/ Reenter(t) \/ LeaveNested(t) \/ TakeOsLock(t) \/ LeaveOutermost(t)
  BY <1>7 DEF Entering, Failing, Calling, AcquireProcessLock, ProcessLockTimeout,
     OpenStream, OsLockTimeout, CloseStream, OpenFails, OsLockError, GiveUp, Call
<1>8. CASE UNCHANGED vars
  BY <1>8, <1>1 DEF vars
<1> QED BY <1>1, <1>2, <1>3, <1>4, <1>5, <1>6, <1>7, <1>8 DEF Next

\* To its callers the two-level reentrant lock is a plain exclusive lock.
THEOREM Refinement == Spec => ImplementsExclusiveLock
<1>1. Init => Lock!Init
  BY FileLockAssumption DEF Init, Lock!Init, Holder
<1> QED BY <1>1, Invariance, HolderStep, PTL DEF Spec, ImplementsExclusiveLock, Lock!Spec

-----------------------------------------------------------------------------
(* The watchdog *)

After == {"peak", "fit", "warn", "promote", "done"}

\* The spill flag is the peak's; what is read once the poller has ended does not change any
\* more; and no native fit is reported before execute_run knows that the run succeeded.
MeasuredInv ==
  /\ spilled <=> peak = 3
  /\ main = "fold" => sampled # None
  /\ poller = "fold" => polled # None
  /\ joined => poller = "ended" /\ main \in After
  /\ joined /\ main \in After \ {"peak"} => measured = peak
  /\ main \in {"warn", "promote"} => fit \in {None, "unproven", "spill"}
  /\ joined /\ main \in {"warn", "promote", "done"} => (fit = "spill" <=> peak = 3)
  /\ joined /\ main \in {"promote", "done"} => (warned <=> spilled)
  /\ main = "done" /\ fit \in {"tight", "safe"} => succeeded

DogInv == Dog!TypeOK /\ MeasuredInv

LEMMA DogConstants ==
  Timeout \in Nat /\ None \notin Nat \cup {"unproven", "spill", "tight", "safe"}
BY PartsAssumption DEF Dog!WatchdogAssumption

LEMMA DogInitially == Dog!Init => DogInv
<1> SUFFICES ASSUME Dog!Init PROVE DogInv
  OBVIOUS
<1>1. /\ spilled \in BOOLEAN /\ stalled \in BOOLEAN /\ everStalled \in BOOLEAN
      /\ alerted \in BOOLEAN /\ stop \in BOOLEAN /\ fire \in BOOLEAN
      /\ joined \in BOOLEAN /\ succeeded \in BOOLEAN /\ warned \in BOOLEAN
  BY DEF Dog!Init
<1>2. /\ silence \in 0 .. (Timeout + 1) /\ peak = None /\ measured = None /\ sampled = None
      /\ polled = None /\ main = "training" /\ poller = "waiting" /\ fit = None
  BY DogConstants DEF Dog!Init
<1>3. MeasuredInv
  BY DogConstants DEF Dog!Init, MeasuredInv, After
<1> QED BY <1>1, <1>2, <1>3 DEF DogInv, Dog!TypeOK

\* A fit says spill exactly of a spill, and is native only of a completed run.
LEMMA FitOfPeak ==
  ASSUME NEW s \in Dog!Samples, NEW completed \in BOOLEAN
  PROVE  /\ Dog!MeasuredFit(s, completed) \in Dog!Fits
         /\ Dog!MeasuredFit(s, completed) = "spill" <=> s = 3
         /\ ~completed => Dog!MeasuredFit(s, completed) \in {"unproven", "spill"}
BY DEF Dog!MeasuredFit, Dog!Spill, Dog!Samples, Dog!Fits

\* Folding a sample keeps the flag and the peak together.
LEMMA FoldPeak ==
  ASSUME Dog!TypeOK, MeasuredInv, NEW s \in Dog!Samples, Dog!Fold(s)
  PROVE  /\ peak' \in Dog!Samples \cup {None} /\ spilled' \in BOOLEAN
         /\ spilled' <=> peak' = 3
<1>1. spilled' <=> (spilled \/ s = 3)
  BY DEF Dog!Fold, Dog!Spill
<1>2. peak' \in Dog!Samples \cup {None} /\ (peak' = 3 <=> (peak = 3 \/ s = 3))
  BY DogConstants DEF Dog!Fold, Dog!Merge, Dog!TypeOK, Dog!Samples
<1>3. spilled' \in BOOLEAN
  BY DEF Dog!Fold, Dog!TypeOK
<1> QED BY <1>1, <1>2, <1>3 DEF MeasuredInv

LEMMA DogStep == DogInv /\ Dog!Next => DogInv'
<1> SUFFICES ASSUME DogInv, Dog!Next PROVE Dog!TypeOK' /\ MeasuredInv'
  BY DEF DogInv
<1>t. Dog!TypeOK /\ MeasuredInv
  BY DEF DogInv
<1> USE DogConstants DEF Dog!thread, Dog!flags, Dog!report
<1>1. CASE Dog!Beat
  <2>1. stalled' \in BOOLEAN /\ alerted' \in BOOLEAN
    BY <1>1 DEF Dog!Beat
  <2>2. silence' \in 0 .. (Timeout + 1) /\ main' = "sample" /\ main = "training"
    BY <1>1 DEF Dog!Beat
  <2>3. UNCHANGED <<peak, spilled, everStalled, stop, sampled, poller, polled, fire, joined,
                    succeeded, measured, fit, warned>>
    BY <1>1 DEF Dog!Beat
  <2> QED BY <1>t, <2>1, <2>2, <2>3 DEF Dog!TypeOK, MeasuredInv, After
<1>2. CASE Dog!TakeSample
  <2>1. /\ main = "sample" /\ main' \in {"fold", "training"} /\ sampled' \in Dog!Samples \cup {None}
        /\ main' = "fold" => sampled' # None
    BY <1>2, <1>t DEF Dog!TakeSample, Dog!TypeOK, Dog!Samples
  <2>2. UNCHANGED <<silence, peak, spilled, stalled, everStalled, alerted, stop, poller, polled,
                    fire, joined, succeeded, measured, fit, warned>>
    BY <1>2 DEF Dog!TakeSample
  <2> QED BY <1>t, <2>1, <2>2 DEF Dog!TypeOK, MeasuredInv, After
<1>3. CASE Dog!FoldSample
  <2>1. Dog!TypeOK'
    BY <1>3, <1>t, FoldPeak DEF Dog!TypeOK, MeasuredInv, Dog!FoldSample
  <2>2. MeasuredInv'
    BY <1>3, <1>t, FoldPeak DEF Dog!TypeOK, MeasuredInv, After, Dog!FoldSample
  <2> QED BY <2>1, <2>2
<1>4. CASE Dog!Hang
  <2>1. Dog!TypeOK'
    BY <1>4, <1>t DEF Dog!TypeOK, MeasuredInv, Dog!Hang
  <2>2. MeasuredInv'
    BY <1>4, <1>t DEF Dog!TypeOK, MeasuredInv, After, Dog!Hang
  <2> QED BY <2>1, <2>2
<1>5. CASE Dog!LeaveTraining
  <2>1. Dog!TypeOK'
    BY <1>5, <1>t DEF Dog!TypeOK, MeasuredInv, Dog!LeaveTraining
  <2>2. MeasuredInv'
    BY <1>5, <1>t DEF Dog!TypeOK, MeasuredInv, After, Dog!LeaveTraining
  <2> QED BY <2>1, <2>2
<1>6. CASE Dog!Join
  <2>1. Dog!TypeOK'
    BY <1>6, <1>t DEF Dog!TypeOK, MeasuredInv, Dog!Join
  <2>2. MeasuredInv'
    BY <1>6, <1>t DEF Dog!TypeOK, MeasuredInv, After, Dog!Join
  <2> QED BY <2>1, <2>2
<1>7. CASE Dog!ReadPeak
  <2>1. Dog!TypeOK'
    BY <1>7, <1>t DEF Dog!TypeOK, MeasuredInv, Dog!ReadPeak
  <2>2. MeasuredInv'
    BY <1>7, <1>t DEF Dog!TypeOK, MeasuredInv, After, Dog!ReadPeak
  <2> QED BY <2>1, <2>2
<1>8. CASE Dog!ReadFit
  <2>1. main = "fit" /\ main' = "warn"
    BY <1>8 DEF Dog!ReadFit
  <2>2. fit' = IF peak = None THEN None ELSE Dog!MeasuredFit(peak, FALSE)
    BY <1>8 DEF Dog!ReadFit
  <2>3. fit' \in {None, "unproven", "spill"} /\ (fit' = "spill" <=> peak = 3)
    <3>1. CASE peak = None
      BY <2>2, <3>1, DogConstants
    <3>2. CASE peak # None
      <4>1. peak \in Dog!Samples
        BY <1>t, <3>2 DEF Dog!TypeOK
      <4>2. /\ Dog!MeasuredFit(peak, FALSE) \in {"unproven", "spill"}
            /\ Dog!MeasuredFit(peak, FALSE) = "spill" <=> peak = 3
        BY <4>1, FitOfPeak
      <4> QED BY <2>2, <3>2, <4>2
    <3> QED BY <3>1, <3>2
  <2>4. UNCHANGED <<silence, peak, spilled, stalled, everStalled, alerted, stop, sampled, poller,
                    polled, fire, joined, succeeded, measured, warned>>
    BY <1>8 DEF Dog!ReadFit
  <2> QED BY <1>t, <2>3, <2>4, <2>1 DEF Dog!TypeOK, Dog!Fits, MeasuredInv, After
<1>9. CASE Dog!ReadSpilled
  <2>1. Dog!TypeOK'
    BY <1>9, <1>t DEF Dog!TypeOK, MeasuredInv, Dog!ReadSpilled
  <2>2. MeasuredInv'
    BY <1>9, <1>t DEF Dog!TypeOK, MeasuredInv, After, Dog!ReadSpilled
  <2> QED BY <2>1, <2>2
<1>10. CASE Dog!Promote
  <2>1. Dog!TypeOK'
    BY <1>10, <1>t, FitOfPeak DEF Dog!TypeOK, MeasuredInv, Dog!Promote
  <2>2. MeasuredInv'
    BY <1>10, <1>t, FitOfPeak DEF Dog!TypeOK, MeasuredInv, After, Dog!Promote
  <2> QED BY <2>1, <2>2
<1>11. CASE Dog!Wake
  <2>1. Dog!TypeOK'
    BY <1>11, <1>t DEF Dog!TypeOK, MeasuredInv, Dog!Wake
  <2>2. MeasuredInv'
    BY <1>11, <1>t DEF Dog!TypeOK, MeasuredInv, After, Dog!Wake
  <2> QED BY <2>1, <2>2
<1>12. CASE Dog!PollSample
  <2>1. /\ poller = "sample" /\ poller' \in {"fold", "check"} /\ polled' \in Dog!Samples \cup {None}
        /\ poller' = "fold" => polled' # None
    BY <1>12, <1>t DEF Dog!PollSample, Dog!TypeOK, Dog!Samples
  <2>2. UNCHANGED <<silence, peak, spilled, stalled, everStalled, alerted, stop, main, sampled,
                    fire, joined, succeeded, measured, fit, warned>>
    BY <1>12 DEF Dog!PollSample
  <2> QED BY <1>t, <2>1, <2>2 DEF Dog!TypeOK, MeasuredInv, After
<1>13. CASE Dog!PollFold
  <2>1. Dog!TypeOK'
    BY <1>13, <1>t, FoldPeak DEF Dog!TypeOK, MeasuredInv, Dog!PollFold
  <2>2. MeasuredInv'
    BY <1>13, <1>t, FoldPeak DEF Dog!TypeOK, MeasuredInv, After, Dog!PollFold
  <2> QED BY <2>1, <2>2
<1>14. CASE Dog!PollCheck
  <2>1. Dog!TypeOK'
    BY <1>14, <1>t DEF Dog!TypeOK, MeasuredInv, Dog!PollCheck
  <2>2. MeasuredInv'
    BY <1>14, <1>t DEF Dog!TypeOK, MeasuredInv, After, Dog!PollCheck
  <2> QED BY <2>1, <2>2
<1>15. CASE Dog!Alert
  <2>1. /\ alerted' \in BOOLEAN /\ fire' \in BOOLEAN
        /\ poller = "alert" /\ poller' = "waiting"
    BY <1>15 DEF Dog!Alert
  <2>2. UNCHANGED <<silence, peak, spilled, stalled, everStalled, stop, main, sampled, polled,
                    joined, succeeded, measured, fit, warned>>
    BY <1>15 DEF Dog!Alert
  <2> QED BY <1>t, <2>1, <2>2 DEF Dog!TypeOK, MeasuredInv, After
<1>16. CASE Dog!Tick
  <2>1. Dog!TypeOK'
    BY <1>16, <1>t DEF Dog!TypeOK, MeasuredInv, Dog!Tick
  <2>2. MeasuredInv'
    BY <1>16, <1>t DEF Dog!TypeOK, MeasuredInv, After, Dog!Tick
  <2> QED BY <2>1, <2>2
<1> QED
  BY <1>1, <1>2, <1>3, <1>4, <1>5, <1>6, <1>7, <1>8, <1>9, <1>10, <1>11, <1>12, <1>13, <1>14,
     <1>15, <1>16 DEF Dog!Next, Dog!Poll

-----------------------------------------------------------------------------
(* The training run records *)

\* The new record may follow the old one: an ended run stays as it ended, a stamp is kept.
Follows(old, new) ==
  /\ old.status \in Registry!TERMINAL_STATUSES => new.status = old.status
  /\ old.source_snapshot_id # None => new.source_snapshot_id # None

\* A command under way holds a record, and a file only while it writes.
HoldingInv(p) ==
  /\ rpc[p] # "idle" => loaded[p] # None
  /\ fd[p] # None => rpc[p] \in {"write", "replace"}

\* While no two commands overlap, the one under way knows the record and owns the temporary
\* file.
AloneInv(p) ==
  /\ rpc[p] # "idle" => \A q \in Procs \ {p} : rpc[q] = "idle"
  /\ rpc[p] \in {"update", "list", "stamp"} => loaded[p] = record
  /\ rpc[p] \in {"save", "write", "replace"} => Follows(record, loaded[p])
  /\ rpc[p] \in {"write", "replace"} => fd[p] = "tmp"
  /\ rpc[p] = "write" => tmp = Torn
  /\ rpc[p] = "replace" => tmp = loaded[p]

RecordInv ==
  /\ Registry!TypeOK
  /\ \A p \in Procs : HoldingInv(p)
  /\ ~overlap => record # Torn /\ \A p \in Procs : AloneInv(p)

LEMMA RecordConstants ==
  /\ Commands \subseteq {"update", "list", "stamp"}
  /\ None \notin Snapshots \cup {Torn, "tmp", "record", "unnamed"}
  /\ Torn \notin Registry!TrainingRunRecord /\ None \notin Registry!TrainingRunRecord
BY PartsAssumption DEF Registry!RunRegistryAssumption

LEMMA RecordFields ==
  /\ \A status \in Registry!RUN_STATUSES, v \in Snapshots \cup {None} :
       /\ Registry!Record(status, v) \in Registry!TrainingRunRecord
       /\ Registry!Record(status, v).status = status
       /\ Registry!Record(status, v).source_snapshot_id = v
  /\ \A r \in Registry!TrainingRunRecord :
       r.status \in Registry!RUN_STATUSES /\ r.source_snapshot_id \in Snapshots \cup {None}
BY DEF Registry!Record, Registry!TrainingRunRecord

LEMMA RecordInitially == Registry!Init => RecordInv
<1> SUFFICES ASSUME Registry!Init PROVE RecordInv
  OBVIOUS
<1>1. record \in Registry!TrainingRunRecord /\ record # Torn
  BY RecordConstants DEF Registry!Init, Registry!TrainingRunRecord, Registry!RUN_STATUSES
<1>2. Registry!TypeOK
  BY <1>1 DEF Registry!Init, Registry!TypeOK
<1>3. \A p \in Procs : HoldingInv(p) /\ AloneInv(p)
  BY DEF Registry!Init, HoldingInv, AloneInv
<1> QED BY <1>1, <1>2, <1>3 DEF RecordInv

\* A command that decided what to save holds a record that may follow the one it loaded.
LEMMA HeldChanged ==
  ASSUME RecordInv, NEW p \in Procs, NEW r \in Registry!TrainingRunRecord, r # None,
         Follows(loaded[p], r), rpc[p] \in {"update", "list", "stamp"},
         rpc' = [rpc EXCEPT ![p] = "save"], loaded' = [loaded EXCEPT ![p] = r],
         UNCHANGED <<record, tmp, alive, fd, faults, overlap>>
  PROVE  /\ Registry!TypeOK' /\ \A q \in Procs : HoldingInv(q)'
         /\ ~overlap' => /\ record' # Torn /\ Follows(record, record')
                         /\ \A q \in Procs : AloneInv(q)'
<1>1. Registry!TypeOK' /\ \A q \in Procs : HoldingInv(q)'
  BY DEF RecordInv, Registry!TypeOK, HoldingInv
<1>2. ASSUME ~overlap PROVE record # Torn /\ loaded[p] = record /\ \A q \in Procs : AloneInv(q)'
  BY <1>2 DEF RecordInv, Registry!TypeOK, AloneInv
<1> QED BY <1>1, <1>2 DEF Follows

LEMMA RecordStep ==
  RecordInv /\ Registry!Next => RecordInv' /\ (~overlap' => Follows(record, record'))
<1> SUFFICES ASSUME RecordInv, Registry!Next
             PROVE  /\ Registry!TypeOK' /\ \A q \in Procs : HoldingInv(q)'
                    /\ ~overlap' => /\ record' # Torn /\ Follows(record, record')
                                    /\ \A q \in Procs : AloneInv(q)'
  BY DEF RecordInv
<1>t. /\ record \in Registry!TrainingRunRecord \cup {Torn}
      /\ tmp \in Registry!TrainingRunRecord \cup {Torn, None} /\ alive \in BOOLEAN
      /\ rpc \in [Procs -> {"idle", "update", "list", "stamp", "save", "write", "replace"}]
      /\ loaded \in [Procs -> Registry!TrainingRunRecord \cup {None}]
      /\ fd \in [Procs -> {"tmp", "record", "unnamed", None}]
      /\ faults \in Nat /\ overlap \in BOOLEAN
  BY DEF RecordInv, Registry!TypeOK
<1>i. /\ \A p \in Procs : HoldingInv(p)
      /\ ~overlap => record # Torn /\ \A p \in Procs : AloneInv(p)
  BY DEF RecordInv
<1> USE RecordConstants, RecordFields DEF Registry!Goto, Registry!Leave, Registry!Fault
<1>1. CASE Registry!TrainerEnds
  <2>1. Registry!TypeOK' /\ \A q \in Procs : HoldingInv(q)'
    BY <1>1, <1>t, <1>i DEF Registry!TrainerEnds, Registry!TypeOK, HoldingInv
  <2>2. ~overlap' => record' # Torn /\ Follows(record, record') /\ \A q \in Procs : AloneInv(q)'
    BY <1>1, <1>t, <1>i DEF Registry!TrainerEnds, AloneInv, Follows
  <2> QED BY <2>1, <2>2
<1>2. ASSUME NEW p \in Procs, NEW command \in Commands, Registry!Load(p, command)
      PROVE  /\ Registry!TypeOK' /\ \A q \in Procs : HoldingInv(q)'
             /\ ~overlap' => /\ record' # Torn /\ Follows(record, record')
                             /\ \A q \in Procs : AloneInv(q)'
  <2>1. Registry!TypeOK' /\ \A q \in Procs : HoldingInv(q)'
    BY <1>2, <1>t, <1>i DEF Registry!Load, Registry!TypeOK, HoldingInv
  <2>2. ASSUME ~overlap'
        PROVE  record' # Torn /\ Follows(record, record') /\ \A q \in Procs : AloneInv(q)'
    <3>1. ~overlap /\ \A q \in Procs : rpc[q] = "idle"
      BY <1>2, <1>t, <2>2 DEF Registry!Load
    <3>2. /\ record # Torn /\ UNCHANGED <<record, tmp, fd>> /\ command \in {"update", "list", "stamp"}
          /\ rpc' = [rpc EXCEPT ![p] = command] /\ loaded' = [loaded EXCEPT ![p] = record]
      BY <1>2 DEF Registry!Load
    <3> QED BY <1>t, <3>1, <3>2 DEF AloneInv, Follows
  <2> QED BY <2>1, <2>2
<1>3. ASSUME NEW p \in Procs, Registry!Running(p) \/ Registry!Crash(p)
      PROVE  /\ Registry!TypeOK' /\ \A q \in Procs : HoldingInv(q)'
             /\ ~overlap' => /\ record' # Torn /\ Follows(record, record')
                             /\ \A q \in Procs : AloneInv(q)'
  <2>1. CASE Registry!Update(p)
    <3>1. PICK status \in Registry!RUN_STATUSES :
            /\ Registry!ValidTransition(loaded[p].status, status)
            /\ loaded' = [loaded EXCEPT ![p] =
                            Registry!Record(status, loaded[p].source_snapshot_id)]
      BY <2>1 DEF Registry!Update
    <3> DEFINE r == Registry!Record(status, loaded[p].source_snapshot_id)
    <3>2. /\ rpc[p] = "update" /\ rpc' = [rpc EXCEPT ![p] = "save"]
          /\ UNCHANGED <<record, tmp, alive, fd, faults, overlap>>
      BY <2>1 DEF Registry!Update
    <3>3. /\ loaded[p] \in Registry!TrainingRunRecord /\ r \in Registry!TrainingRunRecord
          /\ r # None /\ Follows(loaded[p], r) /\ loaded' = [loaded EXCEPT ![p] = r]
      BY <1>t, <1>i, <3>1, <3>2 DEF HoldingInv, Follows, Registry!ValidTransition
    <3> HIDE DEF r
    <3> QED BY <3>2, <3>3, HeldChanged
  <2>2. CASE Registry!UpdateRefused(p)
    <3>1. Registry!TypeOK' /\ \A q \in Procs : HoldingInv(q)'
      BY <2>2, <1>t, <1>i DEF Registry!UpdateRefused, Registry!TypeOK, HoldingInv
    <3>2. ~overlap' => record' # Torn /\ Follows(record, record') /\ \A q \in Procs : AloneInv(q)'
      BY <2>2, <1>t, <1>i DEF Registry!UpdateRefused, AloneInv, Follows
    <3> QED BY <3>1, <3>2
  <2>3. CASE Registry!Reconcile(p)
    <3> DEFINE r == Registry!Record("interrupted", loaded[p].source_snapshot_id)
    <3>1. loaded' = [loaded EXCEPT ![p] = r] /\ loaded[p].status = "running"
      BY <2>3 DEF Registry!Reconcile
    <3>2. /\ rpc[p] = "list" /\ rpc' = [rpc EXCEPT ![p] = "save"]
          /\ UNCHANGED <<record, tmp, alive, fd, faults, overlap>>
      BY <2>3 DEF Registry!Reconcile
    <3>3. /\ loaded[p] \in Registry!TrainingRunRecord /\ r \in Registry!TrainingRunRecord
          /\ r # None /\ Follows(loaded[p], r) /\ loaded' = [loaded EXCEPT ![p] = r]
      BY <1>t, <1>i, <3>1, <3>2
         DEF HoldingInv, Follows, Registry!RUN_STATUSES, Registry!TERMINAL_STATUSES
    <3> HIDE DEF r
    <3> QED BY <3>2, <3>3, HeldChanged
  <2>4. CASE Registry!NothingToReconcile(p)
    <3>1. Registry!TypeOK' /\ \A q \in Procs : HoldingInv(q)'
      BY <2>4, <1>t, <1>i DEF Registry!NothingToReconcile, Registry!TypeOK, HoldingInv
    <3>2. ~overlap' => record' # Torn /\ Follows(record, record') /\ \A q \in Procs : AloneInv(q)'
      BY <2>4, <1>t, <1>i DEF Registry!NothingToReconcile, AloneInv, Follows
    <3> QED BY <3>1, <3>2
  <2>5. CASE Registry!Stamp(p)
    <3>1. PICK v \in Snapshots :
            loaded' = [loaded EXCEPT ![p] = Registry!Record(loaded[p].status, v)]
      BY <2>5 DEF Registry!Stamp
    <3> DEFINE r == Registry!Record(loaded[p].status, v)
    <3>2. /\ rpc[p] = "stamp" /\ rpc' = [rpc EXCEPT ![p] = "save"]
          /\ UNCHANGED <<record, tmp, alive, fd, faults, overlap>>
      BY <2>5 DEF Registry!Stamp
    <3>3. /\ loaded[p] \in Registry!TrainingRunRecord /\ r \in Registry!TrainingRunRecord
          /\ r # None /\ Follows(loaded[p], r) /\ loaded' = [loaded EXCEPT ![p] = r]
      BY <1>t, <1>i, <3>1, <3>2 DEF HoldingInv, Follows
    <3> HIDE DEF r
    <3> QED BY <3>2, <3>3, HeldChanged
  <2>6. CASE Registry!StampAbandoned(p)
    <3>1. Registry!TypeOK' /\ \A q \in Procs : HoldingInv(q)'
      BY <2>6, <1>t, <1>i DEF Registry!StampAbandoned, Registry!TypeOK, HoldingInv
    <3>2. ~overlap' => record' # Torn /\ Follows(record, record') /\ \A q \in Procs : AloneInv(q)'
      BY <2>6, <1>t, <1>i DEF Registry!StampAbandoned, AloneInv, Follows
    <3> QED BY <3>1, <3>2
  <2>7. CASE Registry!OpenTmp(p)
    <3>1. Registry!TypeOK' /\ \A q \in Procs : HoldingInv(q)'
      BY <2>7, <1>t, <1>i DEF Registry!OpenTmp, Registry!TypeOK, HoldingInv
    <3>2. ~overlap' => record' # Torn /\ Follows(record, record') /\ \A q \in Procs : AloneInv(q)'
      BY <2>7, <1>t, <1>i DEF Registry!OpenTmp, AloneInv, Follows
    <3> QED BY <3>1, <3>2
  <2>8. CASE Registry!WriteTmp(p)
    <3>1. /\ rpc[p] = "write" /\ rpc' = [rpc EXCEPT ![p] = "replace"]
          /\ UNCHANGED <<alive, loaded, fd, faults, overlap>>
      BY <2>8 DEF Registry!WriteTmp
    <3>2. loaded[p] \in Registry!TrainingRunRecord
      BY <1>t, <1>i, <3>1 DEF HoldingInv
    <3>3. /\ record' \in Registry!TrainingRunRecord \cup {Torn}
          /\ tmp' \in Registry!TrainingRunRecord \cup {Torn, None}
          /\ fd[p] = "tmp" /\ tmp = Torn => record' = record /\ tmp' = loaded[p]
      BY <2>8, <1>t, <3>2 DEF Registry!WriteTmp, Registry!Overwritten
    <3>4. Registry!TypeOK' /\ \A q \in Procs : HoldingInv(q)'
      BY <1>t, <1>i, <3>1, <3>3 DEF Registry!TypeOK, HoldingInv
    <3>5. ASSUME ~overlap'
          PROVE  record' # Torn /\ Follows(record, record') /\ \A q \in Procs : AloneInv(q)'
      <4>1. ~overlap /\ fd[p] = "tmp" /\ tmp = Torn /\ \A q \in Procs \ {p} : rpc[q] = "idle"
        BY <1>i, <3>1, <3>5 DEF AloneInv
      <4> QED BY <1>t, <1>i, <3>1, <3>3, <4>1 DEF AloneInv, Follows
    <3> QED BY <3>4, <3>5
  <2>9. CASE Registry!WriteError(p)
    <3>1. Registry!TypeOK' /\ \A q \in Procs : HoldingInv(q)'
      BY <2>9, <1>t, <1>i DEF Registry!WriteError, Registry!TypeOK, HoldingInv
    <3>2. ~overlap' => record' # Torn /\ Follows(record, record') /\ \A q \in Procs : AloneInv(q)'
      BY <2>9, <1>t, <1>i DEF Registry!WriteError, AloneInv, Follows
    <3> QED BY <3>1, <3>2
  <2>10. CASE Registry!ReplaceRecord(p)
    <3>1. /\ rpc[p] = "replace" /\ rpc' = [rpc EXCEPT ![p] = "idle"] /\ tmp # None
          /\ loaded' = [loaded EXCEPT ![p] = None] /\ record' = tmp /\ tmp' = None
          /\ UNCHANGED <<alive, faults, overlap>>
      BY <2>10 DEF Registry!ReplaceRecord
    <3>2. /\ fd' \in [Procs -> {"tmp", "record", "unnamed", None}] /\ fd'[p] = None
          /\ \A q \in Procs : fd[q] = None => fd'[q] = None
      <4>1. fd' = [q \in Procs |-> IF q = p THEN None ELSE Registry!Renamed(fd[q])]
        BY <2>10 DEF Registry!ReplaceRecord
      <4>2. ASSUME NEW f \in {"tmp", "record", "unnamed", None}
            PROVE  /\ Registry!Renamed(f) \in {"tmp", "record", "unnamed", None}
                   /\ f = None => Registry!Renamed(f) = None
        BY DEF Registry!Renamed
      <4> QED BY <1>t, <4>1, <4>2
    <3>3. Registry!TypeOK' /\ \A q \in Procs : HoldingInv(q)'
      <4>1. Registry!TypeOK'
        BY <1>t, <3>1, <3>2 DEF Registry!TypeOK
      <4>2. ASSUME NEW q \in Procs PROVE HoldingInv(q)'
        BY <1>t, <1>i, <3>1, <3>2 DEF HoldingInv
      <4> QED BY <4>1, <4>2
    <3>4. ASSUME ~overlap'
          PROVE  record' # Torn /\ Follows(record, record') /\ \A q \in Procs : AloneInv(q)'
      BY <1>t, <1>i, <3>1, <3>4 DEF AloneInv, HoldingInv
    <3> QED BY <3>3, <3>4
  <2>11. CASE Registry!TmpGone(p)
    <3>1. Registry!TypeOK' /\ \A q \in Procs : HoldingInv(q)'
      BY <2>11, <1>t, <1>i DEF Registry!TmpGone, Registry!TypeOK, HoldingInv
    <3>2. ~overlap' => record' # Torn /\ Follows(record, record') /\ \A q \in Procs : AloneInv(q)'
      BY <2>11, <1>t, <1>i DEF Registry!TmpGone, AloneInv, Follows
    <3> QED BY <3>1, <3>2
  <2>12. CASE Registry!Crash(p)
    <3>1. Registry!TypeOK' /\ \A q \in Procs : HoldingInv(q)'
      BY <2>12, <1>t, <1>i DEF Registry!Crash, Registry!TypeOK, HoldingInv
    <3>2. ~overlap' => record' # Torn /\ Follows(record, record') /\ \A q \in Procs : AloneInv(q)'
      BY <2>12, <1>t, <1>i DEF Registry!Crash, AloneInv, Follows
    <3> QED BY <3>1, <3>2
  <2> QED
    BY <1>3, <2>1, <2>2, <2>3, <2>4, <2>5, <2>6, <2>7, <2>8, <2>9, <2>10, <2>11, <2>12
    DEF Registry!Running
<1> QED BY <1>1, <1>2, <1>3 DEF Registry!Next

-----------------------------------------------------------------------------
(* One read of a sealed input *)

\* A file is known once stat saw it, nothing is returned before the end, and a block that was
\* read of another version than the one opened shows: nobody writes an identity again that
\* the reader remembers, so the handle's identity stays different from the opened one.
SeenInv ==
  /\ step \notin {"stat", "done"} => before # None
  /\ step # "done" => result = None
  /\ step \in {"stat", "open"} => ~torn
  /\ step \in {"read", "fstat"} /\ torn => reading # opened
  /\ step = "compare" /\ torn => after # opened

ReadInv == Read!TypeOK /\ SeenInv

LEMMA ReadConstants == MaxBlocks \in Nat /\ None \notin Versions
BY PartsAssumption DEF Read!ReadAssumption

LEMMA ReadInitially == Read!Init => ReadInv
<1> SUFFICES ASSUME Read!Init PROVE ReadInv
  OBVIOUS
<1>1. /\ file \in Read!Identity /\ reading = None /\ before = None /\ opened = None
      /\ after = None /\ step = "stat" /\ result = None
  BY DEF Read!Init
<1>2. linked \in BOOLEAN /\ torn \in BOOLEAN /\ ~torn
  BY DEF Read!Init
<1>3. todo \in 0 .. MaxBlocks /\ ahead \in 0 .. MaxBlocks
  BY ReadConstants DEF Read!Init
<1> QED
  BY <1>1, <1>2, <1>3 DEF ReadInv, SeenInv, Read!TypeOK, Read!Identity, Read!Steps

LEMMA ReadStep == ReadInv /\ Read!Next => ReadInv'
<1> SUFFICES ASSUME ReadInv, Read!Next PROVE Read!TypeOK' /\ SeenInv'
  BY DEF ReadInv
<1>t. Read!TypeOK /\ SeenInv
  BY DEF ReadInv
<1> USE ReadConstants DEF Read!seen, Read!Refuse, Read!Return, Read!Fresh, Read!Expecting
<1>1. CASE Read!Stat
  <2>1. Read!TypeOK'
    BY <1>1, <1>t DEF Read!TypeOK, Read!Identity, Read!Steps, Read!Stat
  <2>2. SeenInv'
    BY <1>1, <1>t DEF Read!TypeOK, Read!Identity, SeenInv, Read!Stat
  <2> QED BY <2>1, <2>2
<1>2. CASE Read!Open
  <2>1. Read!TypeOK'
    BY <1>2, <1>t DEF Read!TypeOK, Read!Identity, Read!Steps, Read!Open
  <2>2. SeenInv'
    BY <1>2, <1>t DEF Read!TypeOK, Read!Identity, SeenInv, Read!Open
  <2> QED BY <2>1, <2>2
<1>3. CASE Read!ReadBlock
  <2>1. /\ step = "read" /\ (torn' <=> torn \/ reading # opened)
        /\ UNCHANGED <<reading, before, opened, after, step, result>>
    BY <1>3 DEF Read!ReadBlock
  <2>2. Read!TypeOK'
    BY <1>3, <1>t DEF Read!TypeOK, Read!Identity, Read!Steps, Read!ReadBlock
  <2>3. SeenInv'
    BY <1>t, <2>1 DEF SeenInv
  <2> QED BY <2>2, <2>3
<1>4. CASE Read!WrongSize
  <2>1. Read!TypeOK'
    BY <1>4, <1>t DEF Read!TypeOK, Read!Identity, Read!Steps, Read!WrongSize
  <2>2. SeenInv'
    BY <1>4, <1>t DEF Read!TypeOK, Read!Identity, SeenInv, Read!WrongSize
  <2> QED BY <2>1, <2>2
<1>5. CASE Read!RightSize
  <2>1. Read!TypeOK'
    BY <1>5, <1>t DEF Read!TypeOK, Read!Identity, Read!Steps, Read!RightSize
  <2>2. SeenInv'
    BY <1>5, <1>t DEF Read!TypeOK, Read!Identity, SeenInv, Read!RightSize
  <2> QED BY <2>1, <2>2
<1>6. CASE Read!Fstat
  <2>1. Read!TypeOK'
    BY <1>6, <1>t DEF Read!TypeOK, Read!Identity, Read!Steps, Read!Fstat
  <2>2. SeenInv'
    BY <1>6, <1>t DEF Read!TypeOK, Read!Identity, SeenInv, Read!Fstat
  <2> QED BY <2>1, <2>2
<1>7. CASE Read!Compare
  <2>1. Read!TypeOK'
    BY <1>7, <1>t DEF Read!TypeOK, Read!Identity, Read!Steps, Read!Compare
  <2>2. SeenInv'
    BY <1>7, <1>t DEF Read!TypeOK, Read!Identity, SeenInv, Read!Compare
  <2> QED BY <2>1, <2>2
<1>8. CASE Read!Failed
  <2>1. Read!TypeOK'
    BY <1>8, <1>t DEF Read!TypeOK, Read!Identity, Read!Steps, Read!Failed
  <2>2. SeenInv'
    BY <1>8, <1>t DEF Read!TypeOK, Read!Identity, SeenInv, Read!Failed
  <2> QED BY <2>1, <2>2
<1>9. CASE Read!Rewrite
  <2>1. Read!TypeOK'
    BY <1>9, <1>t DEF Read!TypeOK, Read!Identity, Read!Steps, Read!Rewrite
  <2>2. SeenInv'
    BY <1>9, <1>t DEF Read!TypeOK, Read!Identity, SeenInv, Read!Rewrite
  <2> QED BY <2>1, <2>2
<1>10. CASE Read!Replace
  <2>1. Read!TypeOK'
    BY <1>10, <1>t DEF Read!TypeOK, Read!Identity, Read!Steps, Read!Replace
  <2>2. SeenInv'
    BY <1>10, <1>t DEF Read!TypeOK, Read!Identity, SeenInv, Read!Replace
  <2> QED BY <2>1, <2>2
<1> QED
  BY <1>1, <1>2, <1>3, <1>4, <1>5, <1>6, <1>7, <1>8, <1>9, <1>10 DEF Read!Next, Read!Reader

\* A step of the reader returns what the file holds whole, or is refused, or shows nothing;
\* a step of somebody else is a write.
LEMMA ReadMaps == ReadInv /\ Read!Next => [Read!Atomic!Next]_(Read!Atomic!vars)
<1> SUFFICES ASSUME ReadInv, Read!Next
             PROVE  Read!Atomic!Next \/ UNCHANGED <<file, result>>
  BY DEF Read!Atomic!vars
<1>t. Read!TypeOK /\ SeenInv
  BY DEF ReadInv
<1> USE ReadConstants DEF Read!seen, Read!Refuse, Read!Return, Read!Fresh
<1> USE DEF Read!Atomic!Next, Read!Atomic!Write, Read!Atomic!Read, Read!Atomic!Refuse
<1>1. CASE Read!Stat
  BY <1>1, <1>t DEF Read!TypeOK, Read!Identity, SeenInv, Read!Stat
<1>2. CASE Read!Open
  BY <1>2, <1>t DEF Read!TypeOK, Read!Identity, SeenInv, Read!Open
<1>3. CASE Read!ReadBlock
  BY <1>3, <1>t DEF Read!TypeOK, Read!Identity, SeenInv, Read!ReadBlock
<1>4. CASE Read!WrongSize
  BY <1>4, <1>t DEF Read!TypeOK, Read!Identity, SeenInv, Read!WrongSize
<1>5. CASE Read!RightSize
  BY <1>5, <1>t DEF Read!TypeOK, Read!Identity, SeenInv, Read!RightSize
<1>6. CASE Read!Fstat
  BY <1>6, <1>t DEF Read!TypeOK, Read!Identity, SeenInv, Read!Fstat
<1>7. CASE Read!Compare
  BY <1>7, <1>t DEF Read!TypeOK, Read!Identity, SeenInv, Read!Compare, Read!SameIdentity
<1>8. CASE Read!Failed
  BY <1>8, <1>t DEF Read!TypeOK, Read!Identity, SeenInv, Read!Failed
<1>9. CASE Read!Rewrite
  BY <1>9, <1>t DEF Read!TypeOK, Read!Identity, SeenInv, Read!Rewrite
<1>10. CASE Read!Replace
  BY <1>10, <1>t DEF Read!TypeOK, Read!Identity, SeenInv, Read!Replace
<1> QED
  BY <1>1, <1>2, <1>3, <1>4, <1>5, <1>6, <1>7, <1>8, <1>9, <1>10 DEF Read!Next, Read!Reader

-----------------------------------------------------------------------------
(* One supervised run *)

Terminals == {Run!TerminalEvent(n, s) : n \in 0 .. MaxEvents, s \in Run!States}
Results == {Run!Result(s, proven) : s \in Run!States, proven \in BOOLEAN}

Forwarded == {Run!Event(n, stage) : n \in 0 .. MaxEvents, stage \in Run!Stages}

\* What the parent keeps of the worker's messages is of the kind it took it for.
KeptInv == terminal \in Terminals \cup {None} /\ admitted \in Results \cup {None}

\* How far the evidence of the run's end has come, by where the parent is: a claim is
\* admitted in the loop, the manifest is decided after it, and the record is written last.
EvidenceInv ==
  /\ admitted # None => accepted /\ (admitted.state = "succeeded" => admitted.proven)
  /\ parent \in {"start", "unspawned", "check", "get"} => admitted = None
  /\ parent \in {"start", "check", "get", "terminate"} => manifest = None
  /\ parent = "retry" => manifest = "failed"
  /\ parent \in {"unspawned", "artifacts", "manifest", "retry", "announce", "returned"}
       => manifest \in Run!States
  /\ manifest = "succeeded" => admitted # None /\ admitted.state = "succeeded"
  /\ parent = "manifest" /\ manifest = "succeeded" => artifacts
  /\ durable # None => durable = manifest /\ parent \in {"announce", "returned", "dead"}
  /\ durable = "succeeded" => artifacts
  /\ parent \in {"announce", "returned"} /\ recording /\ manifest = "succeeded"
       => durable = "succeeded"

\* The events forwarded so far are in order, none beyond the last number read, and the
\* terminal event is kept back until the supervision returns.
EventsInv ==
  /\ \A i, j \in DOMAIN events : i < j => events[i].seq < events[j].seq
  /\ parent # "returned" =>
       \A i \in DOMAIN events : /\ events[i].type = "event"
                                /\ lastSeq # None /\ events[i].seq <= lastSeq
                                /\ terminal # None => events[i].seq < terminal.seq
  /\ terminal # None => lastSeq = terminal.seq
  /\ parent = "returned" =>
       \A i \in DOMAIN events : events[i].type = "terminal" =>
         i = Len(events) /\ events[i].state = manifest

\* The worker is alive only while the parent is in its loop.
WorkerInv ==
  /\ parent \in {"start", "unspawned"} => worker = "unborn"
  /\ Run!NoOrphan

RunInv == Run!TypeOK /\ KeptInv /\ EvidenceInv /\ EventsInv /\ WorkerInv

-----------------------------------------------------------------------------
(* The worker and its messages *)

LEMMA Constants ==
  /\ SilenceTicks \in Nat \ {0} /\ PreflightTicks \in Nat \ {0} /\ MaxEvents \in Nat
  /\ MaxPipe \in Nat \ {0} /\ MaxDrift \in Nat /\ MaxSetbacks \in Nat
  /\ None \notin Nat \cup {"succeeded", "failed"}
BY PartsAssumption DEF Run!RunSupervisorAssumption

\* A message of a kind carries what its kind carries.
LEMMA MessageKinds ==
  ASSUME NEW m \in Run!Messages
  PROVE  /\ m.type = "event" => m \in Forwarded
         /\ m.type = "terminal" => m \in Terminals
         /\ m.type = "result" => m \in Results
<1>1. ASSUME NEW n \in 0 .. MaxEvents, NEW stage \in Run!Stages, m = Run!Event(n, stage)
      PROVE  m \in Forwarded /\ m.type = "event"
  <2>1. m \in Forwarded
    BY <1>1 DEF Forwarded
  <2>2. m.type = "event"
    BY <1>1 DEF Run!Event
  <2> QED BY <2>1, <2>2
<1>2. ASSUME NEW n \in 0 .. MaxEvents, NEW s \in Run!States, m = Run!TerminalEvent(n, s)
      PROVE  m \in Terminals /\ m.type = "terminal"
  <2>1. m \in Terminals
    BY <1>2 DEF Terminals
  <2>2. m.type = "terminal"
    BY <1>2 DEF Run!TerminalEvent
  <2> QED BY <2>1, <2>2
<1>3. ASSUME NEW s \in Run!States, NEW p \in BOOLEAN, m = Run!Result(s, p)
      PROVE  m \in Results /\ m.type = "result"
  <2>1. m \in Results
    BY <1>3 DEF Results
  <2>2. m.type = "result"
    BY <1>3 DEF Run!Result
  <2> QED BY <2>1, <2>2
<1>4. ASSUME NEW t \in {"hello", "accepted", "rejected", "failure", "heartbeat"}, m = Run!Plain(t)
      PROVE  m.type \notin {"event", "terminal", "result"}
  BY <1>4 DEF Run!Plain
<1>5. ASSUME m = Run!Garbage PROVE m.type \notin {"event", "terminal", "result"}
  BY <1>5 DEF Run!Garbage
<1> QED BY <1>1, <1>2, <1>3, <1>4, <1>5 DEF Run!Messages

\* What is known of the fields of a message the parent keeps.
LEMMA Fields ==
  /\ \A m \in Forwarded : m.seq \in 0 .. MaxEvents /\ m.stage \in Run!Stages
                          /\ m.type = "event" /\ m \in Run!Told
                          /\ m \in Run!Logged
  /\ \A m \in Terminals : m.seq \in 0 .. MaxEvents /\ m.state \in Run!States
                          /\ m.type = "terminal" /\ m \in Run!Messages
  /\ \A m \in Results : m.state \in Run!States /\ m.proven \in BOOLEAN
                        /\ m.type = "result" /\ m \in Run!Messages
<1>1. ASSUME NEW m \in Forwarded
      PROVE  /\ m.seq \in 0 .. MaxEvents /\ m.stage \in Run!Stages /\ m.type = "event"
             /\ m \in Run!Told
             /\ m \in Run!Logged
  <2>1. PICK n \in 0 .. MaxEvents, stage \in Run!Stages : m = Run!Event(n, stage)
    BY DEF Forwarded
  <2> QED BY <2>1, Constants DEF Run!Event, Run!Told, Run!Logged
<1>2. ASSUME NEW m \in Terminals
      PROVE  /\ m.seq \in 0 .. MaxEvents /\ m.state \in Run!States /\ m.type = "terminal"
             /\ m \in Run!Messages
  <2>1. PICK n \in 0 .. MaxEvents, s \in Run!States : m = Run!TerminalEvent(n, s)
    BY DEF Terminals
  <2>2. m \in Run!Messages
    BY DEF Run!Messages, Terminals
  <2> QED BY <2>1, <2>2, Constants DEF Run!TerminalEvent
<1>3. ASSUME NEW m \in Results
      PROVE  /\ m.state \in Run!States /\ m.proven \in BOOLEAN /\ m.type = "result"
             /\ m \in Run!Messages
  <2>1. PICK s \in Run!States, p \in BOOLEAN : m = Run!Result(s, p)
    BY DEF Results
  <2>2. m \in Run!Messages
    BY DEF Run!Messages, Results
  <2> QED BY <2>1, <2>2 DEF Run!Result
<1> QED BY <1>1, <1>2, <1>3

\* The worker sends one message more at most and never comes back once it is gone.
LEMMA WorkingEffect ==
  ASSUME Run!TypeOK, Run!Working
  PROVE  /\ Run!WorkerOnly /\ worker \notin {"unborn", "gone"}
         /\ worker' \in {"start", "hello", "running", "succeeding", "failing", "gone"}
         /\ seq' \in 0 .. MaxEvents /\ drift' \in 0 .. MaxDrift /\ pipe' \in Seq(Run!Messages)
<1> USE DEF Run!child
<1>t. /\ worker \in {"unborn", "start", "hello", "running", "succeeding", "failing", "gone"}
      /\ seq \in 0 .. MaxEvents /\ drift \in 0 .. MaxDrift /\ pipe \in Seq(Run!Messages)
  BY DEF Run!TypeOK
<1>m. /\ \A m \in Run!Messages : Run!Send(m) => pipe' \in Seq(Run!Messages)
      /\ \A t \in {"hello", "accepted", "rejected", "failure", "heartbeat"} :
           Run!Plain(t) \in Run!Messages
      /\ \A n \in 0 .. MaxEvents, g \in Run!Stages : Run!Event(n, g) \in Run!Messages
      /\ \A n \in 0 .. MaxEvents, s \in Run!States : Run!TerminalEvent(n, s) \in Run!Messages
      /\ \A s \in Run!States, p \in BOOLEAN : Run!Result(s, p) \in Run!Messages
  BY <1>t DEF Run!Send, Run!Messages
<1>1. CASE Run!SendHello BY <1>1, <1>t, <1>m DEF Run!SendHello
<1>2. CASE Run!SendFailure BY <1>2, <1>t, <1>m DEF Run!SendFailure
<1>3. CASE Run!AcceptDispatch BY <1>3, <1>t, <1>m DEF Run!AcceptDispatch
<1>4. CASE Run!RejectDispatch BY <1>4, <1>t, <1>m DEF Run!RejectDispatch
<1>5. CASE Run!EmitEvent BY <1>5, <1>t, <1>m, Constants DEF Run!EmitEvent
<1>6. CASE Run!Heartbeat BY <1>6, <1>t, <1>m DEF Run!Heartbeat
<1>7. CASE Run!EmitTerminal BY <1>7, <1>t, <1>m DEF Run!EmitTerminal
<1>8. CASE Run!SendResult BY <1>8, <1>t, <1>m DEF Run!SendResult, Run!States
<1>9. CASE Run!WorkerDies BY <1>9, <1>t DEF Run!WorkerDies
<1>10. CASE Run!WorkerDrifts BY <1>10, <1>t, <1>m, Constants DEF Run!WorkerDrifts
<1> QED
  BY <1>1, <1>2, <1>3, <1>4, <1>5, <1>6, <1>7, <1>8, <1>9, <1>10 DEF Run!Working

\* A message that is read is one of the messages, legal, and of the kind the reader takes.
LEMMA ReadsEffect ==
  ASSUME Run!TypeOK, pipe # <<>>, NEW m \in {Head(pipe)}, NEW types, Run!Reads(m, types)
  PROVE  /\ m \in Run!Messages /\ m.type \in types /\ Run!Legal(m) /\ parent = "get"
         /\ pipe' \in Seq(Run!Messages)
<1>1. pipe \in Seq(Run!Messages)
  BY DEF Run!TypeOK
<1>2. Head(pipe) \in Run!Messages /\ Tail(pipe) \in Seq(Run!Messages)
  BY <1>1, HeadTailProperties
<1> QED BY <1>2 DEF Run!Reads

-----------------------------------------------------------------------------
(* The parent *)

LEMMA RunTyped ==
  ASSUME Run!TypeOK, KeptInv, EvidenceInv, Run!Next
  PROVE  Run!TypeOK'
<1> USE Constants DEF Run!child, Run!reading, Run!evidence, Run!Fault
<1>t. Run!TypeOK /\ terminal \in Terminals \cup {None}
  BY DEF KeptInv
<1>1. CASE Run!Working
  BY <1>1, <1>t, WorkingEffect DEF Run!TypeOK, Run!WorkerOnly, Run!reading, Run!evidence
<1>2. CASE Run!RefuseBeforeSpawn
  BY <1>2, <1>t DEF Run!TypeOK, Run!RefuseBeforeSpawn, Run!WriteOrRaise, Run!States
<1>3. CASE Run!Spawn
  BY <1>3, <1>t DEF Run!TypeOK, Run!Spawn
<1>4. CASE Run!SpawnFails
  BY <1>4, <1>t DEF Run!TypeOK, Run!SpawnFails, Run!States
<1>5. CASE Run!WriteUnspawned
  BY <1>5, <1>t DEF Run!TypeOK, Run!WriteUnspawned, Run!WriteOrRaise, Run!States
<1>6. CASE Run!CheckDeadline
  BY <1>6, <1>t DEF Run!TypeOK, Run!CheckDeadline
<1>7. CASE Run!NothingRead
  BY <1>7, <1>t DEF Run!TypeOK, Run!NothingRead
<1>8. CASE Run!ReadEof
  BY <1>8, <1>t DEF Run!TypeOK, Run!ReadEof
<1>9. CASE Run!ReadIllegal
  <2>1. pipe' \in Seq(Run!Messages)
    BY <1>9, <1>t, HeadTailProperties DEF Run!TypeOK, Run!ReadIllegal
  <2> QED BY <1>9, <1>t, <2>1 DEF Run!TypeOK, Run!ReadIllegal
<1>10. ASSUME pipe # <<>>, NEW m \in {Head(pipe)}, Run!ReadHandshake(m) PROVE Run!TypeOK'
  <2>1. /\ m \in Run!Messages /\ m.type \in {"hello", "accepted"} /\ Run!Legal(m)
        /\ pipe' \in Seq(Run!Messages)
    BY <1>10, ReadsEffect DEF Run!ReadHandshake
  <2>2. dispatched' \in BOOLEAN /\ accepted' \in BOOLEAN
    BY <1>10, <1>t DEF Run!TypeOK, Run!ReadHandshake
  <2> QED BY <1>10, <1>t, <2>1, <2>2 DEF Run!TypeOK, Run!ReadHandshake
<1>11. ASSUME pipe # <<>>, NEW m \in {Head(pipe)}, Run!ReadEvent(m) PROVE Run!TypeOK'
  <2>1. /\ m \in Run!Messages /\ m.type \in {"event"} /\ Run!Legal(m)
        /\ pipe' \in Seq(Run!Messages)
    BY <1>11, ReadsEffect DEF Run!ReadEvent
  <2>2. /\ m \in Run!Told /\ m.seq \in 0 .. MaxEvents
        /\ m \in Run!Logged
    BY <2>1, MessageKinds, Fields
  <2>3. events' \in Seq(Run!Told)
    BY <1>11, <1>t, <2>2 DEF Run!TypeOK, Run!ReadEvent
  <2>4. log' \in Seq(Run!Logged)
    <3>1. log' = log \/ log' = Append(log, m)
      BY <1>11 DEF Run!ReadEvent
    <3>2. log \in Seq(Run!Logged)
      BY <1>t DEF Run!TypeOK
    <3> QED BY <3>1, <3>2, <2>2, AppendProperties
  <2>5. trained' \in BOOLEAN /\ preflight' \in (0 .. PreflightTicks) \cup {None}
    BY <1>11, <1>t DEF Run!TypeOK, Run!ReadEvent, Run!ObserveStage
  <2> QED BY <1>11, <1>t, <2>1, <2>2, <2>3, <2>4, <2>5 DEF Run!TypeOK, Run!ReadEvent
<1>12. ASSUME pipe # <<>>, NEW m \in {Head(pipe)}, Run!ReadTerminalEvent(m) PROVE Run!TypeOK'
  <2>1. /\ m \in Run!Messages /\ m.type \in {"terminal"} /\ Run!Legal(m)
        /\ pipe' \in Seq(Run!Messages)
    BY <1>12, ReadsEffect DEF Run!ReadTerminalEvent
  <2>2. m.seq \in 0 .. MaxEvents
    BY <2>1, MessageKinds, Fields
  <2> QED BY <1>12, <1>t, <2>1, <2>2 DEF Run!TypeOK, Run!ReadTerminalEvent
<1>13. ASSUME pipe # <<>>, NEW m \in {Head(pipe)}, Run!ReadHeartbeat(m) PROVE Run!TypeOK'
  <2>1. /\ m \in Run!Messages /\ m.type \in {"heartbeat"} /\ Run!Legal(m)
        /\ pipe' \in Seq(Run!Messages)
    BY <1>13, ReadsEffect DEF Run!ReadHeartbeat
  <2> QED BY <1>13, <1>t, <2>1 DEF Run!TypeOK, Run!ReadHeartbeat
<1>14. ASSUME pipe # <<>>, NEW m \in {Head(pipe)}, Run!ReadRejection(m) PROVE Run!TypeOK'
  <2>1. /\ m \in Run!Messages /\ m.type \in {"rejected", "failure"} /\ Run!Legal(m)
        /\ pipe' \in Seq(Run!Messages)
    BY <1>14, ReadsEffect DEF Run!ReadRejection
  <2> QED BY <1>14, <1>t, <2>1 DEF Run!TypeOK, Run!ReadRejection
<1>15. ASSUME pipe # <<>>, NEW m \in {Head(pipe)}, Run!ReadResult(m) PROVE Run!TypeOK'
  <2>1. /\ m \in Run!Messages /\ m.type \in {"result"} /\ Run!Legal(m)
        /\ pipe' \in Seq(Run!Messages)
    BY <1>15, ReadsEffect DEF Run!ReadResult
  <2> QED BY <1>15, <1>t, <2>1 DEF Run!TypeOK, Run!ReadResult
<1>16. CASE Run!Terminate
  <2>1. admitted # None => admitted.state \in Run!States
    BY Fields DEF KeptInv
  <2> QED BY <1>16, <1>t, <2>1 DEF Run!TypeOK, Run!Terminate, Run!States
<1>17. CASE Run!PersistArtifacts
  <2>1. artifacts' \in BOOLEAN
    <3>1. artifacts' = (admitted # None) \/ artifacts' = artifacts
      BY <1>17 DEF Run!PersistArtifacts
    <3> QED BY <3>1, <1>t DEF Run!TypeOK
  <2>2. manifest' \in Run!States \cup {None} /\ setbacks' \in 0 .. MaxSetbacks
    BY <1>17, <1>t DEF Run!TypeOK, Run!PersistArtifacts, Run!States
  <2> QED BY <1>17, <1>t, <2>1, <2>2 DEF Run!TypeOK, Run!PersistArtifacts
<1>18. CASE Run!PersistManifest
  BY <1>18, <1>t DEF Run!TypeOK, Run!PersistManifest, Run!States
<1>19. CASE Run!RetryManifest
  BY <1>19, <1>t DEF Run!TypeOK, Run!RetryManifest
<1>20. CASE Run!Announce
  <2> DEFINE n == CASE terminal # None -> terminal.seq
                    [] lastSeq # None  -> lastSeq + 1
                    [] OTHER           -> 0
  <2>1. n \in Nat /\ manifest \in Run!States
    BY <1>20, <1>t, Fields DEF Run!TypeOK, Run!Announce, EvidenceInv
  <2>2. Run!TerminalEvent(n, manifest) \in Run!Told
    BY <2>1 DEF Run!Told, Run!TerminalEvent
  <2>3. events' = events \/ events' = Append(events, Run!TerminalEvent(n, manifest))
    BY <1>20 DEF Run!Announce
  <2> HIDE DEF n
  <2>4. events' \in Seq(Run!Told)
    BY <1>t, <2>2, <2>3 DEF Run!TypeOK
  <2>5. durable' \in {durable, manifest} /\ parent' = "returned"
    BY <1>20 DEF Run!Announce
  <2>6. UNCHANGED <<recording, resolved, Run!child, pipe, Run!reading, admitted, manifest,
                    artifacts, log, setbacks>>
    BY <1>20 DEF Run!Announce
  <2> QED BY <1>t, <2>1, <2>4, <2>5, <2>6 DEF Run!TypeOK
<1>21. CASE Run!Tick
  BY <1>21, <1>t DEF Run!TypeOK, Run!Tick
<1>22. CASE Run!ParentDies
  BY <1>22, <1>t DEF Run!TypeOK, Run!ParentDies
<1> QED
  BY <1>1, <1>2, <1>3, <1>4, <1>5, <1>6, <1>7, <1>8, <1>9, <1>10, <1>11, <1>12, <1>13, <1>14,
     <1>15, <1>16, <1>17, <1>18, <1>19, <1>20, <1>21, <1>22
  DEF Run!Next, Run!Supervising, Run!Reading

LEMMA MessagesKept ==
  ASSUME Run!TypeOK, KeptInv, Run!Next
  PROVE  KeptInv'
<1> USE DEF Run!child, Run!reading, Run!evidence, Run!Fault
<1>t. KeptInv
  OBVIOUS
<1>1. CASE Run!Working
  BY <1>1, <1>t, WorkingEffect DEF KeptInv, Run!WorkerOnly, Run!reading, Run!evidence
<1>2. CASE Run!RefuseBeforeSpawn
  BY <1>2, <1>t DEF KeptInv, Run!RefuseBeforeSpawn
<1>3. CASE Run!Spawn
  BY <1>3, <1>t DEF KeptInv, Run!Spawn
<1>4. CASE Run!SpawnFails
  BY <1>4, <1>t DEF KeptInv, Run!SpawnFails
<1>5. CASE Run!WriteUnspawned
  BY <1>5, <1>t DEF KeptInv, Run!WriteUnspawned
<1>6. CASE Run!CheckDeadline
  BY <1>6, <1>t DEF KeptInv, Run!CheckDeadline
<1>7. CASE Run!NothingRead
  BY <1>7, <1>t DEF KeptInv, Run!NothingRead
<1>8. CASE Run!ReadEof
  BY <1>8, <1>t DEF KeptInv, Run!ReadEof
<1>9. CASE Run!ReadIllegal
  BY <1>9, <1>t DEF KeptInv, Run!ReadIllegal
<1>10. ASSUME pipe # <<>>, NEW m \in {Head(pipe)}, Run!ReadHandshake(m) PROVE KeptInv'
  BY <1>10, <1>t DEF KeptInv, Run!ReadHandshake
<1>11. ASSUME pipe # <<>>, NEW m \in {Head(pipe)}, Run!ReadEvent(m) PROVE KeptInv'
  BY <1>11, <1>t DEF KeptInv, Run!ReadEvent
<1>12. ASSUME pipe # <<>>, NEW m \in {Head(pipe)}, Run!ReadTerminalEvent(m) PROVE KeptInv'
  <2>1. /\ m \in Run!Messages /\ m.type \in {"terminal"} /\ Run!Legal(m)
        /\ pipe' \in Seq(Run!Messages)
    BY <1>12, ReadsEffect DEF Run!ReadTerminalEvent
  <2>2. m \in Terminals
    BY <2>1, MessageKinds
  <2> QED BY <1>12, <1>t, <2>2 DEF KeptInv, Run!ReadTerminalEvent
<1>13. ASSUME pipe # <<>>, NEW m \in {Head(pipe)}, Run!ReadHeartbeat(m) PROVE KeptInv'
  BY <1>13, <1>t DEF KeptInv, Run!ReadHeartbeat
<1>14. ASSUME pipe # <<>>, NEW m \in {Head(pipe)}, Run!ReadRejection(m) PROVE KeptInv'
  BY <1>14, <1>t DEF KeptInv, Run!ReadRejection
<1>15. ASSUME pipe # <<>>, NEW m \in {Head(pipe)}, Run!ReadResult(m) PROVE KeptInv'
  <2>1. /\ m \in Run!Messages /\ m.type \in {"result"} /\ Run!Legal(m)
        /\ pipe' \in Seq(Run!Messages)
    BY <1>15, ReadsEffect DEF Run!ReadResult
  <2>2. m \in Results
    BY <2>1, MessageKinds
  <2> QED BY <1>15, <1>t, <2>2 DEF KeptInv, Run!ReadResult
<1>16. CASE Run!Terminate
  BY <1>16, <1>t DEF KeptInv, Run!Terminate
<1>17. CASE Run!PersistArtifacts
  BY <1>17, <1>t DEF KeptInv, Run!PersistArtifacts
<1>18. CASE Run!PersistManifest
  BY <1>18, <1>t DEF KeptInv, Run!PersistManifest
<1>19. CASE Run!RetryManifest
  BY <1>19, <1>t DEF KeptInv, Run!RetryManifest
<1>20. CASE Run!Announce
  BY <1>20, <1>t DEF KeptInv, Run!Announce
<1>21. CASE Run!Tick
  BY <1>21, <1>t DEF KeptInv, Run!Tick
<1>22. CASE Run!ParentDies
  BY <1>22, <1>t DEF KeptInv, Run!ParentDies
<1> QED
  BY <1>1, <1>2, <1>3, <1>4, <1>5, <1>6, <1>7, <1>8, <1>9, <1>10, <1>11, <1>12, <1>13, <1>14,
     <1>15, <1>16, <1>17, <1>18, <1>19, <1>20, <1>21, <1>22
  DEF Run!Next, Run!Supervising, Run!Reading

LEMMA EvidenceKept ==
  ASSUME Run!TypeOK, KeptInv, EvidenceInv, Run!Next
  PROVE  EvidenceInv'
<1> USE DEF Run!child, Run!reading, Run!evidence, Run!Fault
<1>t. /\ EvidenceInv /\ recording \in BOOLEAN /\ artifacts \in BOOLEAN /\ accepted \in BOOLEAN
      /\ manifest \in Run!States \cup {None} /\ None \notin {"succeeded", "failed"}
  BY Constants DEF Run!TypeOK
<1>1. CASE Run!Working
  BY <1>1, <1>t, WorkingEffect
  DEF EvidenceInv, Run!States, Run!WorkerOnly, Run!reading, Run!evidence
<1>2. CASE Run!RefuseBeforeSpawn
  BY <1>2, <1>t DEF EvidenceInv, Run!States, Run!RefuseBeforeSpawn, Run!WriteOrRaise
<1>3. CASE Run!Spawn
  BY <1>3, <1>t DEF EvidenceInv, Run!States, Run!Spawn
<1>4. CASE Run!SpawnFails
  BY <1>4, <1>t DEF EvidenceInv, Run!States, Run!SpawnFails
<1>5. CASE Run!WriteUnspawned
  BY <1>5, <1>t DEF EvidenceInv, Run!States, Run!WriteUnspawned, Run!WriteOrRaise
<1>6. CASE Run!CheckDeadline
  BY <1>6, <1>t DEF EvidenceInv, Run!States, Run!CheckDeadline
<1>7. CASE Run!NothingRead
  BY <1>7, <1>t DEF EvidenceInv, Run!States, Run!NothingRead
<1>8. CASE Run!ReadEof
  BY <1>8, <1>t DEF EvidenceInv, Run!States, Run!ReadEof
<1>9. CASE Run!ReadIllegal
  BY <1>9, <1>t DEF EvidenceInv, Run!States, Run!ReadIllegal
<1>10. ASSUME pipe # <<>>, NEW m \in {Head(pipe)}, Run!ReadHandshake(m) PROVE EvidenceInv'
  BY <1>10, <1>t DEF EvidenceInv, Run!States, Run!ReadHandshake, Run!Reads
<1>11. ASSUME pipe # <<>>, NEW m \in {Head(pipe)}, Run!ReadEvent(m) PROVE EvidenceInv'
  BY <1>11, <1>t DEF EvidenceInv, Run!States, Run!ReadEvent, Run!Reads
<1>12. ASSUME pipe # <<>>, NEW m \in {Head(pipe)}, Run!ReadTerminalEvent(m) PROVE EvidenceInv'
  BY <1>12, <1>t DEF EvidenceInv, Run!States, Run!ReadTerminalEvent, Run!Reads
<1>13. ASSUME pipe # <<>>, NEW m \in {Head(pipe)}, Run!ReadHeartbeat(m) PROVE EvidenceInv'
  BY <1>13, <1>t DEF EvidenceInv, Run!States, Run!ReadHeartbeat, Run!Reads
<1>14. ASSUME pipe # <<>>, NEW m \in {Head(pipe)}, Run!ReadRejection(m) PROVE EvidenceInv'
  BY <1>14, <1>t DEF EvidenceInv, Run!States, Run!ReadRejection, Run!Reads
<1>15. ASSUME pipe # <<>>, NEW m \in {Head(pipe)}, Run!ReadResult(m) PROVE EvidenceInv'
  <2>1. /\ m \in Run!Messages /\ m.type \in {"result"} /\ Run!Legal(m)
        /\ pipe' \in Seq(Run!Messages)
    BY <1>15, ReadsEffect DEF Run!ReadResult
  <2>2. m \in Results /\ m.state \in Run!States /\ m.proven \in BOOLEAN
    BY <2>1, MessageKinds, Fields
  <2>3. accepted
    BY <2>1 DEF Run!Legal
  <2>4. /\ admitted' # None => (admitted'.state = "succeeded" => admitted'.proven)
        /\ parent' = "terminate" /\ UNCHANGED <<accepted, manifest, artifacts, durable, recording>>
    BY <1>15, <2>2 DEF Run!ReadResult
  <2>5. manifest = None /\ durable = None /\ parent = "get"
    BY <1>15, <1>t DEF EvidenceInv, Run!ReadResult, Run!Reads
  <2> QED BY <1>t, <2>3, <2>4, <2>5 DEF EvidenceInv
<1>16. CASE Run!Terminate
  <2>1. admitted # None => admitted.state \in Run!States
    BY Fields DEF KeptInv
  <2> QED BY <1>16, <1>t, <2>1 DEF EvidenceInv, Run!States, Run!Terminate
<1>17. CASE Run!PersistArtifacts
  BY <1>17, <1>t DEF EvidenceInv, Run!States, Run!PersistArtifacts
<1>18. CASE Run!PersistManifest
  BY <1>18, <1>t DEF EvidenceInv, Run!States, Run!PersistManifest
<1>19. CASE Run!RetryManifest
  BY <1>19, <1>t DEF EvidenceInv, Run!States, Run!RetryManifest
<1>20. CASE Run!Announce
  BY <1>20, <1>t DEF EvidenceInv, Run!States, Run!Announce
<1>21. CASE Run!Tick
  BY <1>21, <1>t DEF EvidenceInv, Run!States, Run!Tick
<1>22. CASE Run!ParentDies
  BY <1>22, <1>t DEF EvidenceInv, Run!States, Run!ParentDies
<1> QED
  BY <1>1, <1>2, <1>3, <1>4, <1>5, <1>6, <1>7, <1>8, <1>9, <1>10, <1>11, <1>12, <1>13, <1>14,
     <1>15, <1>16, <1>17, <1>18, <1>19, <1>20, <1>21, <1>22
  DEF Run!Next, Run!Supervising, Run!Reading

LEMMA EventsKept ==
  ASSUME Run!TypeOK, KeptInv, EvidenceInv, EventsInv, Run!Next
  PROVE  EventsInv'
<1> USE DEF Run!child, Run!reading, Run!evidence, Run!Fault
<1>t. /\ EventsInv /\ events \in Seq(Run!Told) /\ DOMAIN events = 1 .. Len(events)
      /\ lastSeq \in (0 .. MaxEvents) \cup {None} /\ None \notin Nat /\ MaxEvents \in Nat
  BY Constants DEF Run!TypeOK
<1>n. \A i \in DOMAIN events : events[i].seq \in Nat
  <2>1. ASSUME NEW i \in DOMAIN events PROVE events[i] \in Run!Told
    BY <1>t, ElementOfSeq
  <2>2. \A e \in Run!Told : e.seq \in Nat
    BY DEF Run!Told, Run!Logged
  <2> QED BY <2>1, <2>2
<1>1. CASE Run!Working
  BY <1>1, <1>t, WorkingEffect DEF EventsInv, Run!WorkerOnly, Run!reading, Run!evidence
<1>2. CASE Run!RefuseBeforeSpawn
  BY <1>2, <1>t DEF EventsInv, Run!RefuseBeforeSpawn, Run!WriteOrRaise
<1>3. CASE Run!Spawn
  BY <1>3, <1>t DEF EventsInv, Run!Spawn
<1>4. CASE Run!SpawnFails
  BY <1>4, <1>t DEF EventsInv, Run!SpawnFails
<1>5. CASE Run!WriteUnspawned
  BY <1>5, <1>t DEF EventsInv, Run!WriteUnspawned, Run!WriteOrRaise
<1>6. CASE Run!CheckDeadline
  BY <1>6, <1>t DEF EventsInv, Run!CheckDeadline
<1>7. CASE Run!NothingRead
  BY <1>7, <1>t DEF EventsInv, Run!NothingRead
<1>8. CASE Run!ReadEof
  BY <1>8, <1>t DEF EventsInv, Run!ReadEof
<1>9. CASE Run!ReadIllegal
  BY <1>9, <1>t DEF EventsInv, Run!ReadIllegal
<1>10. ASSUME pipe # <<>>, NEW m \in {Head(pipe)}, Run!ReadHandshake(m) PROVE EventsInv'
  BY <1>10, <1>t DEF EventsInv, Run!ReadHandshake, Run!Reads
<1>11. ASSUME pipe # <<>>, NEW m \in {Head(pipe)}, Run!ReadEvent(m) PROVE EventsInv'
  <2>1. /\ m \in Run!Messages /\ m.type \in {"event"} /\ Run!Legal(m)
        /\ pipe' \in Seq(Run!Messages)
    BY <1>11, ReadsEffect DEF Run!ReadEvent
  <2>2. m \in Run!Told /\ m.seq \in 0 .. MaxEvents
    BY <2>1, MessageKinds, Fields
  <2>3. terminal = None /\ (lastSeq # None => m.seq > lastSeq)
    BY <2>1 DEF Run!Legal
  <2>4. /\ parent = "get" /\ parent' = "check" /\ lastSeq' = m.seq /\ terminal' = terminal
        /\ events' = Append(events, m)
    BY <1>11 DEF Run!ReadEvent, Run!Reads
  <2>5. /\ DOMAIN events' = 1 .. Len(events) + 1
        /\ \A i \in DOMAIN events : events'[i] = events[i]
        /\ events'[Len(events) + 1] = m /\ Len(events) \in Nat
    BY <1>t, <2>2, <2>4, AppendProperties, LenProperties
  <2>6. \A i \in DOMAIN events : events[i].seq < m.seq
    BY <1>t, <1>n, <2>2, <2>3, <2>4 DEF EventsInv
  <2> QED BY <1>t, <1>n, <2>1, <2>2, <2>3, <2>4, <2>5, <2>6 DEF EventsInv
<1>12. ASSUME pipe # <<>>, NEW m \in {Head(pipe)}, Run!ReadTerminalEvent(m) PROVE EventsInv'
  <2>1. /\ m \in Run!Messages /\ m.type \in {"terminal"} /\ Run!Legal(m)
        /\ pipe' \in Seq(Run!Messages)
    BY <1>12, ReadsEffect DEF Run!ReadTerminalEvent
  <2>2. m \in Terminals /\ m.seq \in 0 .. MaxEvents
    BY <2>1, MessageKinds, Fields
  <2>3. terminal = None /\ (lastSeq # None => m.seq > lastSeq)
    BY <2>1 DEF Run!Legal
  <2>4. /\ parent = "get" /\ parent' = "check" /\ lastSeq' = m.seq /\ terminal' = m
        /\ events' = events
    BY <1>12 DEF Run!ReadTerminalEvent, Run!Reads
  <2> QED BY <1>t, <1>n, <2>2, <2>3, <2>4 DEF EventsInv
<1>13. ASSUME pipe # <<>>, NEW m \in {Head(pipe)}, Run!ReadHeartbeat(m) PROVE EventsInv'
  BY <1>13, <1>t DEF EventsInv, Run!ReadHeartbeat, Run!Reads
<1>14. ASSUME pipe # <<>>, NEW m \in {Head(pipe)}, Run!ReadRejection(m) PROVE EventsInv'
  BY <1>14, <1>t DEF EventsInv, Run!ReadRejection, Run!Reads
<1>15. ASSUME pipe # <<>>, NEW m \in {Head(pipe)}, Run!ReadResult(m) PROVE EventsInv'
  BY <1>15, <1>t DEF EventsInv, Run!ReadResult, Run!Reads
<1>16. CASE Run!Terminate
  BY <1>16, <1>t DEF EventsInv, Run!Terminate
<1>17. CASE Run!PersistArtifacts
  BY <1>17, <1>t DEF EventsInv, Run!PersistArtifacts
<1>18. CASE Run!PersistManifest
  BY <1>18, <1>t DEF EventsInv, Run!PersistManifest
<1>19. CASE Run!RetryManifest
  BY <1>19, <1>t DEF EventsInv, Run!RetryManifest
<1>20. CASE Run!Announce
  <2> DEFINE n == CASE terminal # None -> terminal.seq
                    [] lastSeq # None  -> lastSeq + 1
                    [] OTHER           -> 0
             e == Run!TerminalEvent(n, manifest)
  <2>1. /\ parent = "announce" /\ parent' = "returned"
        /\ UNCHANGED <<lastSeq, terminal, manifest>>
        /\ events' = events \/ events' = Append(events, e)
    BY <1>20 DEF Run!Announce
  <2>2. n \in Nat /\ manifest \in Run!States
    BY <1>t, <2>1, Fields DEF KeptInv, EvidenceInv
  <2>3. \A i \in DOMAIN events : events[i].type = "event" /\ events[i].seq < n
    BY <1>t, <1>n, <2>1, Fields DEF KeptInv, EventsInv
  <2>4. e.seq = n /\ e.type = "terminal" /\ e.state = manifest
    BY DEF Run!TerminalEvent
  <2>5. e \in Run!Told
    BY <2>2 DEF Run!TerminalEvent, Run!Told
  <2> HIDE DEF n, e
  <2>6. CASE events' = events
    BY <1>t, <2>1, <2>3, <2>6 DEF EventsInv
  <2>7. CASE events' = Append(events, e)
    <3>1. /\ DOMAIN events' = 1 .. Len(events) + 1 /\ Len(events') = Len(events) + 1
          /\ \A i \in DOMAIN events : events'[i] = events[i]
          /\ events'[Len(events) + 1] = e /\ Len(events) \in Nat
      BY <1>t, <2>5, <2>7, AppendProperties, LenProperties
    <3> QED BY <1>t, <1>n, <2>1, <2>2, <2>3, <2>4, <3>1 DEF EventsInv
  <2> QED BY <2>1, <2>6, <2>7
<1>21. CASE Run!Tick
  BY <1>21, <1>t DEF EventsInv, Run!Tick
<1>22. CASE Run!ParentDies
  BY <1>22, <1>t DEF EventsInv, Run!ParentDies, Run!Over
<1> QED
  BY <1>1, <1>2, <1>3, <1>4, <1>5, <1>6, <1>7, <1>8, <1>9, <1>10, <1>11, <1>12, <1>13, <1>14,
     <1>15, <1>16, <1>17, <1>18, <1>19, <1>20, <1>21, <1>22
  DEF Run!Next, Run!Supervising, Run!Reading

LEMMA WorkerKept ==
  ASSUME Run!TypeOK, WorkerInv, Run!Next
  PROVE  WorkerInv'
<1> USE DEF Run!child, Run!reading, Run!evidence, Run!Fault
<1>t. WorkerInv
  OBVIOUS
<1>1. CASE Run!Working
  BY <1>1, <1>t, WorkingEffect
  DEF WorkerInv, Run!NoOrphan, Run!WorkerOnly, Run!reading, Run!evidence
<1>2. CASE Run!RefuseBeforeSpawn
  BY <1>2, <1>t DEF WorkerInv, Run!NoOrphan, Run!RefuseBeforeSpawn, Run!WriteOrRaise
<1>3. CASE Run!Spawn
  BY <1>3, <1>t DEF WorkerInv, Run!NoOrphan, Run!Spawn
<1>4. CASE Run!SpawnFails
  BY <1>4, <1>t DEF WorkerInv, Run!NoOrphan, Run!SpawnFails
<1>5. CASE Run!WriteUnspawned
  BY <1>5, <1>t DEF WorkerInv, Run!NoOrphan, Run!WriteUnspawned, Run!WriteOrRaise
<1>6. CASE Run!CheckDeadline
  BY <1>6, <1>t DEF WorkerInv, Run!NoOrphan, Run!CheckDeadline
<1>7. CASE Run!NothingRead
  BY <1>7, <1>t DEF WorkerInv, Run!NoOrphan, Run!NothingRead
<1>8. CASE Run!ReadEof
  BY <1>8, <1>t DEF WorkerInv, Run!NoOrphan, Run!ReadEof
<1>9. CASE Run!ReadIllegal
  BY <1>9, <1>t DEF WorkerInv, Run!NoOrphan, Run!ReadIllegal
<1>10. ASSUME pipe # <<>>, NEW m \in {Head(pipe)}, Run!ReadHandshake(m) PROVE WorkerInv'
  BY <1>10, <1>t DEF WorkerInv, Run!NoOrphan, Run!ReadHandshake, Run!Reads
<1>11. ASSUME pipe # <<>>, NEW m \in {Head(pipe)}, Run!ReadEvent(m) PROVE WorkerInv'
  BY <1>11, <1>t DEF WorkerInv, Run!NoOrphan, Run!ReadEvent, Run!Reads
<1>12. ASSUME pipe # <<>>, NEW m \in {Head(pipe)}, Run!ReadTerminalEvent(m) PROVE WorkerInv'
  BY <1>12, <1>t DEF WorkerInv, Run!NoOrphan, Run!ReadTerminalEvent, Run!Reads
<1>13. ASSUME pipe # <<>>, NEW m \in {Head(pipe)}, Run!ReadHeartbeat(m) PROVE WorkerInv'
  BY <1>13, <1>t DEF WorkerInv, Run!NoOrphan, Run!ReadHeartbeat, Run!Reads
<1>14. ASSUME pipe # <<>>, NEW m \in {Head(pipe)}, Run!ReadRejection(m) PROVE WorkerInv'
  BY <1>14, <1>t DEF WorkerInv, Run!NoOrphan, Run!ReadRejection, Run!Reads
<1>15. ASSUME pipe # <<>>, NEW m \in {Head(pipe)}, Run!ReadResult(m) PROVE WorkerInv'
  BY <1>15, <1>t DEF WorkerInv, Run!NoOrphan, Run!ReadResult, Run!Reads
<1>16. CASE Run!Terminate
  BY <1>16, <1>t DEF WorkerInv, Run!NoOrphan, Run!Terminate
<1>17. CASE Run!PersistArtifacts
  BY <1>17, <1>t DEF WorkerInv, Run!NoOrphan, Run!PersistArtifacts
<1>18. CASE Run!PersistManifest
  BY <1>18, <1>t DEF WorkerInv, Run!NoOrphan, Run!PersistManifest
<1>19. CASE Run!RetryManifest
  BY <1>19, <1>t DEF WorkerInv, Run!NoOrphan, Run!RetryManifest
<1>20. CASE Run!Announce
  BY <1>20, <1>t DEF WorkerInv, Run!NoOrphan, Run!Announce
<1>21. CASE Run!Tick
  BY <1>21, <1>t DEF WorkerInv, Run!NoOrphan, Run!Tick
<1>22. CASE Run!ParentDies
  BY <1>22, <1>t DEF WorkerInv, Run!NoOrphan, Run!ParentDies
<1> QED
  BY <1>1, <1>2, <1>3, <1>4, <1>5, <1>6, <1>7, <1>8, <1>9, <1>10, <1>11, <1>12, <1>13, <1>14,
     <1>15, <1>16, <1>17, <1>18, <1>19, <1>20, <1>21, <1>22
  DEF Run!Next, Run!Supervising, Run!Reading

LEMMA RunInitially == Run!Init => RunInv
<1> SUFFICES ASSUME Run!Init PROVE RunInv
  OBVIOUS
<1> USE Constants DEF Run!Init
<1>1. Run!TypeOK
  <2>1. <<>> \in Seq(Run!Messages) /\ <<>> \in Seq(Run!Told) /\ <<>> \in Seq(Run!Logged)
    OBVIOUS
  <2>2. pipe \in Seq(Run!Messages) /\ events \in Seq(Run!Told) /\ log \in Seq(Run!Logged)
    BY <2>1
  <2>3. /\ recording \in BOOLEAN /\ resolved \in BOOLEAN
        /\ worker = "unborn" /\ seq \in 0 .. MaxEvents /\ drift \in 0 .. MaxDrift
        /\ parent = "start" /\ progress \in 0 .. SilenceTicks /\ preflight = None
    OBVIOUS
  <2>4. /\ trained = FALSE /\ dispatched = FALSE /\ accepted = FALSE /\ lastSeq = None
        /\ terminal = None /\ admitted = None /\ manifest = None /\ durable = None
        /\ artifacts = FALSE /\ setbacks \in 0 .. MaxSetbacks
    OBVIOUS
  <2> HIDE DEF Run!Init
  <2> QED BY <2>2, <2>3, <2>4 DEF Run!TypeOK
<1>2. KeptInv /\ EvidenceInv /\ EventsInv /\ WorkerInv
  BY DEF KeptInv, EvidenceInv, EventsInv, WorkerInv, Run!NoOrphan
<1> QED BY <1>1, <1>2 DEF RunInv

LEMMA RunStep == RunInv /\ Run!Next => RunInv'
BY RunTyped, MessagesKept, EvidenceKept, EventsKept, WorkerKept DEF RunInv

-----------------------------------------------------------------------------
(* The composition *)

PartsInv ==
  /\ component \in {"lock", "watchdog", "registry", "read", "run"}
  /\ Inv /\ DogInv /\ RecordInv /\ ReadInv /\ RunInv

LEMMA PartsInitially == PartsInit => PartsInv
BY InvInit, DogInitially, RecordInitially, ReadInitially, RunInitially DEF PartsInit, PartsInv

\* Whichever part moves, each part takes one of its steps or rests.
LEMMA OnePart ==
  PartsNext \/ UNCHANGED all =>
    /\ component' = component
    /\ Next \/ UNCHANGED vars
    /\ Dog!Next \/ UNCHANGED watchdogVars
    /\ Registry!Next \/ UNCHANGED registryVars
    /\ Read!Next \/ UNCHANGED readVars
    /\ Run!Next \/ UNCHANGED runVars
BY DEF PartsNext, Over, OfLock, OfWatchdog, OfRegistry, OfRead, OfRun, Is, all, parts

LEMMA Rest ==
  ASSUME PartsInv
  PROVE  /\ UNCHANGED vars => Inv'
         /\ UNCHANGED watchdogVars => DogInv'
         /\ UNCHANGED registryVars => RecordInv'
         /\ UNCHANGED readVars => ReadInv'
         /\ UNCHANGED runVars => RunInv'
<1>1. ASSUME UNCHANGED vars PROVE Inv'
  BY <1>1, InvStep DEF PartsInv
<1>2. ASSUME UNCHANGED watchdogVars PROVE DogInv'
  BY <1>2 DEF PartsInv, watchdogVars, DogInv, MeasuredInv, Dog!TypeOK
<1>3. ASSUME UNCHANGED registryVars PROVE RecordInv'
  BY <1>3 DEF PartsInv, registryVars, RecordInv, HoldingInv, AloneInv, Registry!TypeOK
<1>4. ASSUME UNCHANGED readVars PROVE ReadInv'
  BY <1>4 DEF PartsInv, readVars, ReadInv, SeenInv, Read!TypeOK
<1>5. ASSUME UNCHANGED runVars PROVE RunInv'
  <2> USE <1>5 DEF PartsInv, runVars, RunInv
  <2>1. Run!TypeOK' /\ KeptInv'
    BY DEF Run!TypeOK, KeptInv
  <2>2. EvidenceInv' /\ EventsInv' /\ WorkerInv'
    BY DEF EvidenceInv, EventsInv, WorkerInv, Run!NoOrphan
  <2> QED BY <2>1, <2>2
<1> QED BY <1>1, <1>2, <1>3, <1>4, <1>5

LEMMA PartsStep == PartsInv /\ [PartsNext]_all => PartsInv'
<1> SUFFICES ASSUME PartsInv, PartsNext \/ UNCHANGED all PROVE PartsInv'
  OBVIOUS
<1>1. Inv' /\ DogInv' /\ RecordInv' /\ ReadInv' /\ RunInv'
  BY OnePart, Rest, InvStep, DogStep, RecordStep, ReadStep, RunStep DEF PartsInv
<1> QED BY <1>1, OnePart DEF PartsInv

LEMMA PartsInvariant == PartsSpec => []PartsInv
BY PartsInitially, PartsStep, PTL DEF PartsSpec

\* The variables of every part keep their types.
THEOREM PartsTyped == PartsSpec => []PartsTypeOK
<1>1. PartsInv => PartsTypeOK
  BY DEF PartsInv, Inv, DogInv, RecordInv, ReadInv, RunInv, PartsTypeOK
<1> QED BY <1>1, PartsInvariant, PTL

\* The reported fit was measured, and the spill warning agrees with it (the finally clause of
\* TrainingRunner.run), however the polling thread and the training thread interleave.
THEOREM FitHonest == PartsSpec => []FitIsHonest
<1>1. PartsInv => FitIsHonest
  BY DEF PartsInv, DogInv, MeasuredInv, FitIsHonest, Dog!FitIsHonest, After
<1> QED BY <1>1, PartsInvariant, PTL

\* While no two commands overlap, a record stays readable, an ended run stays as it ended and a
\* stamp is kept, whatever crashes and failing writes leave behind (save_run_record).
THEOREM KeptByCommands == PartsSpec => KeptUnlessOverlap
<1>1. PartsInv /\ [PartsNext]_all =>
        [~overlap' /\ Registry!Whole(record) =>
           /\ Registry!Whole(record')
           /\ Registry!Ended(record) => record'.status = record.status
           /\ record.source_snapshot_id # None => record'.source_snapshot_id # None
        ]_(Registry!vars)
  <2> SUFFICES ASSUME PartsInv, PartsNext \/ UNCHANGED all, ~(UNCHANGED Registry!vars),
                      ~overlap', Registry!Whole(record)
               PROVE  /\ Registry!Whole(record')
                      /\ Registry!Ended(record) => record'.status = record.status
                      /\ record.source_snapshot_id # None => record'.source_snapshot_id # None
    OBVIOUS
  <2>1. Registry!Next
    BY OnePart DEF Registry!vars, registryVars
  <2>2. RecordInv' /\ Follows(record, record')
    BY <2>1, RecordStep DEF PartsInv
  <2> QED BY <2>2 DEF RecordInv, Follows, Registry!Whole, Registry!Ended
<1> QED BY <1>1, PartsInvariant, PTL DEF PartsSpec, KeptUnlessOverlap, Registry!KeptUnlessOverlap

\* What a read returns is what the file held, whole, at one moment (_stable_file_read).
THEOREM ReadIsAtomic == PartsSpec => ImplementsAtomicRead
<1>1. PartsInit => Read!Atomic!Init
  BY DEF PartsInit, Read!Init, Read!Atomic!Init, Read!Identity
<1>2. PartsInv /\ [PartsNext]_all => [Read!Atomic!Next]_(Read!Atomic!vars)
  <2>1. UNCHANGED readVars => UNCHANGED Read!Atomic!vars
    BY DEF readVars, Read!Atomic!vars
  <2> QED BY <2>1, OnePart, ReadMaps DEF PartsInv
<1> QED
  BY <1>1, <1>2, PartsInvariant, PTL
  DEF PartsSpec, ImplementsAtomicRead, Read!ImplementsAtomicRead, Read!Atomic!Spec

\* A run is recorded as succeeded only when its worker had accepted the dispatch, its claim was
\* proven from the bytes and the artifact manifests are on disk, whatever the worker sends and
\* whichever writes fail (the writes at the end of execute_run_subprocess).
THEOREM SuccessProven == PartsSpec => []SuccessIsProven
<1>1. PartsInv => SuccessIsProven
  BY Constants DEF PartsInv, RunInv, EvidenceInv, SuccessIsProven, Run!SuccessIsProven
<1> QED BY <1>1, PartsInvariant, PTL

\* The observer is told the events in the order of their numbers, and the returned manifest, the
\* terminal event and the durable manifest agree (the read loop, _finalize).
THEOREM ChannelsConsistent == PartsSpec => []ChannelsAgree
<1>1. PartsInv => ChannelsAgree
  <2> SUFFICES ASSUME PartsInv PROVE Run!ChannelsAgree
    BY DEF ChannelsAgree
  <2>1. ASSUME NEW i \in DOMAIN events, events[i].type = "terminal"
        PROVE  i = Len(events) /\ parent = "returned" /\ events[i].state = manifest
    BY <2>1 DEF PartsInv, RunInv, EventsInv
  <2>2. parent = "returned" => /\ durable # None => durable = manifest
                               /\ recording /\ manifest = "succeeded" => durable = "succeeded"
    BY DEF PartsInv, RunInv, EvidenceInv
  <2>3. \A i, j \in DOMAIN events : i < j => events[i].seq < events[j].seq
    BY DEF PartsInv, RunInv, EventsInv
  <2> QED BY <2>1, <2>2, <2>3 DEF Run!ChannelsAgree, Run!Announced
<1> QED BY <1>1, PartsInvariant, PTL

\* No worker outlives its supervision (the finally of execute_run_subprocess).
THEOREM WorkerEnds == PartsSpec => []NoOrphan
<1>1. PartsInv => NoOrphan
  BY DEF PartsInv, RunInv, WorkerInv, NoOrphan
<1> QED BY <1>1, PartsInvariant, PTL
=============================================================================

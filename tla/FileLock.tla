------------------------------ MODULE FileLock ------------------------------
(***************************************************************************)
(* exclusive_file_lock of storage/file_lock.py on one lock path: a         *)
(* process-local RLock per process keeps its threads apart, a non-blocking *)
(* OS lock polled until a deadline keeps the processes apart, and a        *)
(* thread-local set remembers that the thread already holds the path, so   *)
(* that the same thread re-enters.  platform/environment_manager.py has    *)
(* its own copy of the algorithm.                                          *)
(*                                                                         *)
(* A wait ends when the lock is free or, at any moment before that, by the *)
(* deadline: time itself is not modelled.                                  *)
(***************************************************************************)
EXTENDS Naturals

CONSTANTS
  Threads,     \* the threads that use the lock
  Processes,   \* the processes they run in
  ProcessOf,   \* the process of each thread
  MaxNesting,  \* bound: with-blocks a thread nests
  None         \* nobody

ASSUME FileLockAssumption ==
  /\ ProcessOf \in [Threads -> Processes]
  /\ MaxNesting \in Nat
  /\ None \notin Threads

VARIABLES
  owner,  \* per process: the thread owning the process lock (RLock), or None
  depth,  \* per process: how often it owns it
  flock,  \* the thread whose open stream has the OS lock, or None
  stream, \* per thread: its lock file is open
  held,   \* per thread: the path is in its set of held locks
  nest,   \* per thread: with-bodies it is inside of
  pc      \* per thread: where it is in exclusive_file_lock

vars == <<owner, depth, flock, stream, held, nest, pc>>

\* Where control is when no call of exclusive_file_lock is being entered.
Caller(t) == IF nest[t] = 0 THEN "idle" ELSE "body"

Goto(t, label) == pc' = [pc EXCEPT ![t] = label]

\* RLock.acquire and RLock.release by t.
AcquireRLock(t) ==
  /\ owner[ProcessOf[t]] \in {None, t}
  /\ owner' = [owner EXCEPT ![ProcessOf[t]] = t]
  /\ depth' = [depth EXCEPT ![ProcessOf[t]] = @ + 1]

ReleaseRLock(t) ==
  /\ owner' = [owner EXCEPT ![ProcessOf[t]] = IF depth[ProcessOf[t]] = 1 THEN None ELSE t]
  /\ depth' = [depth EXCEPT ![ProcessOf[t]] = @ - 1]

-----------------------------------------------------------------------------
Init ==
  /\ owner = [p \in Processes |-> None]
  /\ depth = [p \in Processes |-> 0]
  /\ flock = None
  /\ stream = [t \in Threads |-> FALSE]
  /\ held = [t \in Threads |-> FALSE]
  /\ nest = [t \in Threads |-> 0]
  /\ pc = [t \in Threads |-> "idle"]

\* A thread calls exclusive_file_lock, from a with-body or from outside.
Call(t) ==
  /\ pc[t] \in {"idle", "body"} /\ nest[t] < MaxNesting
  /\ Goto(t, "wait_thread")
  /\ UNCHANGED <<owner, depth, flock, stream, held, nest>>

AcquireProcessLock(t) ==
  /\ pc[t] = "wait_thread"
  /\ AcquireRLock(t)
  /\ Goto(t, "check")
  /\ UNCHANGED <<flock, stream, held, nest>>

\* Faulty variant: acquire without a timeout.
WaitForThread(t) ==
  /\ pc[t] = "wait_thread" /\ owner[ProcessOf[t]] \notin {None, t}
  /\ UNCHANGED vars

\* Locked by another thread of the process until the deadline.
ProcessLockTimeout(t) ==
  /\ pc[t] = "wait_thread" /\ owner[ProcessOf[t]] \notin {None, t}
  /\ Goto(t, Caller(t))
  /\ UNCHANGED <<owner, depth, flock, stream, held, nest>>

\* The thread holds the path already: the process lock is all it takes.
Reenter(t) ==
  /\ pc[t] = "check" /\ held[t]
  /\ nest' = [nest EXCEPT ![t] = @ + 1]
  /\ Goto(t, "body")
  /\ UNCHANGED <<owner, depth, flock, stream, held>>

OpenStream(t) ==
  /\ pc[t] = "check" /\ ~held[t]
  /\ stream' = [stream EXCEPT ![t] = TRUE]
  /\ Goto(t, "wait_os")
  /\ UNCHANGED <<owner, depth, flock, held, nest>>

\* The lock file cannot be opened safely: FileLockError, through the finally.
OpenFails(t) ==
  /\ pc[t] = "check" /\ ~held[t]
  /\ ReleaseRLock(t)
  /\ Goto(t, Caller(t))
  /\ UNCHANGED <<flock, stream, held, nest>>

TakeOsLock(t) ==
  /\ pc[t] = "wait_os" /\ flock = None
  /\ flock' = t
  /\ held' = [held EXCEPT ![t] = TRUE]
  /\ nest' = [nest EXCEPT ![t] = @ + 1]
  /\ Goto(t, "body")
  /\ UNCHANGED <<owner, depth, stream>>

\* The finally of a call that did not get in: it closes the stream and
\* releases the process lock.
GiveUp(t) ==
  /\ stream' = [stream EXCEPT ![t] = FALSE]
  /\ ReleaseRLock(t)
  /\ Goto(t, Caller(t))
  /\ UNCHANGED <<flock, held, nest>>

\* Faulty variant: the process lock is released on success only.
OsLockTimeoutKeepsRLock(t) ==
  /\ pc[t] = "wait_os" /\ flock # None
  /\ stream' = [stream EXCEPT ![t] = FALSE]
  /\ Goto(t, Caller(t))
  /\ UNCHANGED <<owner, depth, flock, held, nest>>

\* Another open file has the OS lock until the deadline.
OsLockTimeout(t) == pc[t] = "wait_os" /\ flock # None /\ GiveUp(t)

\* The lock call fails for another reason than contention.
OsLockError(t) == pc[t] = "wait_os" /\ GiveUp(t)

\* Faulty variant: every with-block unlocks on its way out.
LeaveNestedUnlocks(t) ==
  /\ pc[t] = "body" /\ nest[t] > 1
  /\ ReleaseRLock(t)
  /\ flock' = None
  /\ nest' = [nest EXCEPT ![t] = @ - 1]
  /\ UNCHANGED <<stream, held, pc>>

\* A nested with-block ends, normally or by an error: the outer one goes on.
LeaveNested(t) ==
  /\ pc[t] = "body" /\ nest[t] > 1
  /\ ReleaseRLock(t)
  /\ nest' = [nest EXCEPT ![t] = @ - 1]
  /\ UNCHANGED <<flock, stream, held, pc>>

\* Faulty variant: the path stays in the thread's set of held locks.
LeaveOutermostStillHeld(t) ==
  /\ pc[t] = "body" /\ nest[t] = 1
  /\ nest' = [nest EXCEPT ![t] = 0]
  /\ flock' \in {None, flock}
  /\ Goto(t, "close")
  /\ UNCHANGED <<owner, depth, stream, held>>

\* The outermost with-block ends: the path is forgotten, then the explicit
\* unlock, whose failure is ignored.
LeaveOutermost(t) ==
  /\ pc[t] = "body" /\ nest[t] = 1
  /\ held' = [held EXCEPT ![t] = FALSE]
  /\ nest' = [nest EXCEPT ![t] = 0]
  /\ flock' \in {None, flock}
  /\ Goto(t, "close")
  /\ UNCHANGED <<owner, depth, stream>>

\* Closing the stream releases the OS lock in any case.
CloseStream(t) ==
  /\ pc[t] = "close"
  /\ stream' = [stream EXCEPT ![t] = FALSE]
  /\ flock' = IF flock = t THEN None ELSE flock
  /\ ReleaseRLock(t)
  /\ Goto(t, "idle")
  /\ UNCHANGED <<held, nest>>

\* A process dies: the kernel closes its streams and drops its OS lock; a new
\* process starts with fresh thread state.
Crash(p) ==
  LET dead == {t \in Threads : ProcessOf[t] = p}
      reset(f, x) == [t \in Threads |-> IF t \in dead THEN x ELSE f[t]]
  IN
  /\ \E t \in dead : pc[t] # "idle"
  /\ owner' = [owner EXCEPT ![p] = None]
  /\ depth' = [depth EXCEPT ![p] = 0]
  /\ flock' = IF flock \in dead THEN None ELSE flock
  /\ stream' = reset(stream, FALSE)
  /\ held' = reset(held, FALSE)
  /\ nest' = reset(nest, 0)
  /\ pc' = reset(pc, "idle")

-----------------------------------------------------------------------------
\* What exclusive_file_lock does by itself: entering and leaving.
Entering(t) ==
  \/ AcquireProcessLock(t) \/ ProcessLockTimeout(t)
  \/ Reenter(t) \/ OpenStream(t)
  \/ TakeOsLock(t) \/ OsLockTimeout(t)
  \/ CloseStream(t)

\* I/O errors on the lock file.
Failing(t) == OpenFails(t) \/ OsLockError(t)

\* What its caller decides.
Calling(t) == Call(t) \/ LeaveNested(t) \/ LeaveOutermost(t)

Next ==
  \/ \E t \in Threads : Entering(t) \/ Failing(t) \/ Calling(t)
  \/ \E p \in Processes : Crash(p)

Spec == Init /\ [][Next]_vars

\* The lock's own steps are taken; the caller's need not be: a holder may stay
\* in its with-body for ever.
FairSpec == Spec /\ \A t \in Threads : WF_vars(Entering(t))

-----------------------------------------------------------------------------
(* Properties *)

TypeOK ==
  /\ owner \in [Processes -> Threads \cup {None}]
  /\ depth \in [Processes -> Nat]
  /\ flock \in Threads \cup {None}
  /\ stream \in [Threads -> BOOLEAN]
  /\ held \in [Threads -> BOOLEAN]
  /\ nest \in [Threads -> Nat]
  /\ pc \in [Threads -> {"idle", "wait_thread", "check", "wait_os", "body", "close"}]

\* Two threads, of one process or of two, are never inside with-bodies of the
\* path at once (exclusive_file_lock's reason to be).
MutualExclusion ==
  \A t, u \in Threads : nest[t] > 0 /\ nest[u] > 0 => t = u

\* A thread that is out of every call has given everything back: the process
\* lock, the OS lock, the open file and the path it held, whichever way its
\* calls ended (nested, timed out, failed open, failed unlock).
NothingLeaks ==
  \A t \in Threads : pc[t] = "idle" =>
    /\ nest[t] = 0 /\ owner[ProcessOf[t]] # t /\ flock # t /\ ~stream[t] /\ ~held[t]

\* A thread re-enters on the strength of its thread-local set alone, so the set
\* may only name a path whose OS lock its own stream has.
HeldMeansLocked == \A t \in Threads : held[t] => flock = t

\* Acquisition is bounded: a thread that waits gets in or gets an error, even
\* if whoever holds the lock never lets go.
NeverBlocksForever ==
  \A t \in Threads : pc[t] \in {"wait_thread", "wait_os"} ~> pc[t] \in {"body", "idle"}

-----------------------------------------------------------------------------
(* The lock its callers rely on *)

Holder == IF \E t \in Threads : nest[t] > 0
          THEN CHOOSE t \in Threads : nest[t] > 0
          ELSE None

Lock == INSTANCE ExclusiveLock WITH Users <- Threads, Nobody <- None, holder <- Holder

\* To its callers the two-level reentrant lock is a plain exclusive lock.
ImplementsExclusiveLock == Lock!Spec
=============================================================================

----------------------------- MODULE MCFileLock -----------------------------
(* Two processes with two threads each. *)
EXTENDS FileLock

CONSTANTS a1, a2, b1, b2, a, b

TheThreads == {a1, a2, b1, b2}
TheProcesses == {a, b}
TheProcessOf == [t \in TheThreads |-> IF t \in {b1, b2} THEN b ELSE a]
=============================================================================

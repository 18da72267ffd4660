----------------------------- MODULE StableRead -----------------------------
(***************************************************************************)
(* _stable_file_read of platform/execution_config.py: how every sealed     *)
(* input is read and hashed, by planning and by a run, while whoever else  *)
(* has the file may rewrite it in place, append to it for ever, replace it *)
(* or remove it.  Each file system call is a step.                         *)
(*                                                                         *)
(* Data: a version is the bytes of a file with its identity (device,       *)
(* inode, size, modification time): every write makes one that the reader  *)
(* has not seen.  Sizes are blocks still ahead of the reader's position.   *)
(***************************************************************************)
EXTENDS Naturals

CONSTANTS Versions,  \* the versions a file can have
          MaxBlocks, \* the most blocks ever ahead of the reader
          None       \* no file, no value yet

ReadAssumption == MaxBlocks \in Nat /\ None \notin Versions

VARIABLES
  file,     \* the version at the path
  reading,  \* the version behind the open handle
  linked,   \* the path still names the inode of the first stat
  before,   \* the identity stat saw first
  opened,   \* the identity fstat saw after the open
  after,    \* the identity fstat saw after the last byte
  todo,     \* blocks of the expected size not read yet
  ahead,    \* blocks between the handle's position and the end of its file
  torn,     \* a block was read of another version than the one opened
  step,     \* where the reader is
  result    \* the version whose bytes and digest were returned, or "refused"

seen == <<before, opened, after>>
vars == <<file, reading, linked, before, opened, after, todo, ahead, torn, step, result>>

Identity == Versions \cup {None}
Steps == {"stat", "open", "read", "fstat", "compare", "done"}

TypeOK ==
  /\ file \in Identity /\ reading \in Identity
  /\ before \in Identity /\ opened \in Identity /\ after \in Identity
  /\ linked \in BOOLEAN /\ torn \in BOOLEAN
  /\ todo \in 0..MaxBlocks /\ ahead \in 0..MaxBlocks
  /\ step \in Steps
  /\ result \in Versions \cup {None, "refused", "torn"}

Init ==
  /\ file \in Identity
  /\ reading = None /\ linked = FALSE
  /\ before = None /\ opened = None /\ after = None
  /\ todo = 0 /\ ahead = 0 /\ torn = FALSE
  /\ step = "stat" /\ result = None

-----------------------------------------------------------------------------
(* The reader *)

Return(r) == step' = "done" /\ result' = r

Refuse == Return("refused") /\ UNCHANGED <<file, reading, linked, seen, todo, ahead, torn>>

\* exists, is_file and the link check, then the first stat.
Stat ==
  /\ step = "stat"
  /\ \/ file = None /\ Refuse
     \/ /\ file # None
        /\ before' = file /\ linked' = TRUE /\ step' = "open"
        /\ UNCHANGED <<file, reading, opened, after, todo, ahead, torn, result>>

\* open and fstat: another inode is refused at once, a rewritten file only by the comparison.
Open ==
  /\ step = "open"
  /\ \/ ~linked /\ Refuse
     \/ /\ linked
        /\ opened' = file /\ reading' = file /\ step' = "read"
        /\ todo' \in 0..MaxBlocks /\ ahead' = todo'
        /\ UNCHANGED <<file, linked, before, after, torn, result>>

\* The loop goes on while bytes of the size seen at open are missing, never until end of file.
Expecting == todo > 0

ReadBlock ==
  /\ step = "read" /\ Expecting /\ ahead > 0
  /\ ahead' = ahead - 1 /\ todo' = IF todo > 0 THEN todo - 1 ELSE 0
  /\ torn' = (torn \/ reading # opened)
  /\ UNCHANGED <<file, reading, linked, seen, step, result>>

\* The file ends before the expected size, or goes on after it.
WrongSize == step = "read" /\ (Expecting <=> ahead = 0) /\ Refuse

RightSize ==
  /\ step = "read" /\ ~Expecting /\ ahead = 0
  /\ step' = "fstat"
  /\ UNCHANGED <<file, reading, linked, seen, todo, ahead, torn, result>>

\* fstat of the handle after the last byte.
Fstat ==
  /\ step = "fstat"
  /\ after' = reading /\ step' = "compare"
  /\ UNCHANGED <<file, reading, linked, before, opened, todo, ahead, torn, result>>

\* Mutant: the path and the handle are not looked at again after the last byte.
SameOpened == before = opened

\* The last stat and the comparison of the four identities.
SameIdentity == file = before /\ before = opened /\ opened = after

Compare ==
  /\ step = "compare"
  /\ \/ ~SameIdentity /\ Refuse
     \/ /\ SameIdentity
        /\ Return(IF torn THEN "torn" ELSE opened)
        /\ UNCHANGED <<file, reading, linked, seen, todo, ahead, torn>>

\* Any call may fail: an OSError is a refusal.
Failed == step # "done" /\ Refuse

Reader == Stat \/ Open \/ ReadBlock \/ WrongSize \/ RightSize \/ Fstat \/ Compare \/ Failed

-----------------------------------------------------------------------------
(* Everybody else: a write has an identity the reader does not remember *)

Fresh == Versions \ {file, reading, before, opened, after}

\* In place: what the handle reads changes too, and the file may grow or shrink.
Rewrite ==
  /\ file # None /\ file' \in Fresh
  /\ \/ linked /\ reading # None /\ reading' = file' /\ ahead' \in 0..MaxBlocks
     \/ ~(linked /\ reading # None) /\ UNCHANGED <<reading, ahead>>
  /\ UNCHANGED <<linked, seen, todo, torn, step, result>>

\* A rename over the path, a removal or a new file: the handle keeps the old inode.
Replace ==
  /\ file' \in (Fresh \cup {None}) \ {file}
  /\ linked' = FALSE
  /\ UNCHANGED <<reading, seen, todo, ahead, torn, step, result>>

Next == Reader \/ Rewrite \/ Replace

\* A file system call returns; nobody promises that the others ever stop writing.
Spec == Init /\ [][Next]_vars /\ WF_vars(Reader)

-----------------------------------------------------------------------------
(* Properties *)

\* Bytes are returned only with the digest of a file that was at the path, whole, at one moment
\* of the read: the read is atomic (stable_file_bytes: the exact bytes plus their digest).
Atomic == INSTANCE AtomicRead

ImplementsAtomicRead == Atomic!Spec

\* A read comes to an end, however long somebody keeps appending to the file (the comment on
\* the bound of the loop in _stable_file_read).
Ended == step = "done"

ReadEnds == <>Ended
=============================================================================

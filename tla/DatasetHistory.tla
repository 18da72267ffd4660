--------------------------- MODULE DatasetHistory ---------------------------
(***************************************************************************)
(* What the dataset and its versions promise, without files, locks or      *)
(* processes: the contents only grow, unless a stored version holds them;  *)
(* and a stored version, once published, stays for ever with the contents  *)
(* it was published with.                                                  *)
(***************************************************************************)
EXTENDS SequencesExt

CONSTANTS
  Lines,    \* the lines of the dataset
  Versions  \* the version ids

VARIABLES
  contents, \* the lines of the dataset
  history   \* the versions that can be restored: <<id, contents>>

Init == contents \in Seq(Lines) /\ history = {}

\* Rows are appended.
Extend ==
  /\ contents' \in Seq(Lines) /\ IsPrefix(contents, contents')
  /\ UNCHANGED history

\* Rows are changed or removed: some version still has the old contents.
Overwrite ==
  /\ contents' \in Seq(Lines)
  /\ contents = <<>> \/ \E v \in Versions : <<v, contents>> \in history
  /\ UNCHANGED history

\* A version is published under an id no other version has.
Publish ==
  /\ \E e \in history' : /\ e \in Versions \X Seq(Lines)
                         /\ \A h \in history : h[1] # e[1]
                         /\ history' = history \cup {e}
  /\ UNCHANGED contents

Next == Extend \/ Overwrite \/ Publish

Spec == Init /\ [][Next]_<<contents, history>>
=============================================================================

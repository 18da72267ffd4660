----------------------------- MODULE AtomicRead -----------------------------
(***************************************************************************)
(* What a reader of a sealed input is promised: it is refused, or it gets  *)
(* the whole of what the file holds at one moment.                         *)
(***************************************************************************)
CONSTANTS Versions, None

VARIABLES file, result

vars == <<file, result>>

Init == file \in Versions \cup {None} /\ result = None

Write == file' \in Versions \cup {None} /\ UNCHANGED result

Read == result = None /\ file # None /\ result' = file /\ UNCHANGED file

Refuse == result = None /\ result' = "refused" /\ UNCHANGED file

Next == Write \/ Read \/ Refuse

Spec == Init /\ [][Next]_vars
=============================================================================

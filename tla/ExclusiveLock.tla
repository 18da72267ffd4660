---------------------------- MODULE ExclusiveLock ----------------------------
(* What a lock promises: nobody enters while another is inside. *)

CONSTANTS
  Users, \* those who take the lock
  Nobody \* not one of them

VARIABLE holder \* the user inside, or Nobody

Init == holder = Nobody

Take(u) == holder = Nobody /\ holder' = u

\* The holder leaves, or its process dies.
Drop == holder # Nobody /\ holder' = Nobody

Next == Drop \/ \E u \in Users : Take(u)

Spec == Init /\ [][Next]_holder
=============================================================================

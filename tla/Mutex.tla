------------------------------- MODULE Mutex -------------------------------
(***************************************************************************)
(* What a spinlock promises: one CPU at a time is between the return of    *)
(* its acquire and its release.  Spinlock implements this.                 *)
(***************************************************************************)
CONSTANTS CPUs, Nobody

VARIABLE owner

Init == owner = Nobody

Take(c) == owner = Nobody /\ owner' = c
Drop(c) == owner = c /\ owner' = Nobody

Next == \E c \in CPUs : Take(c) \/ Drop(c)

Spec == Init /\ [][Next]_owner
=============================================================================

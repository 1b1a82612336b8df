------------------------------- MODULE MCList -------------------------------
(* Small instances of List: three nodes, two of which have the same key.     *)
EXTENDS List

KeyOf == <<2, 1, 2>>
=============================================================================

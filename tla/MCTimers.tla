------------------------------ MODULE MCTimers ------------------------------
(***************************************************************************)
(* Small instances of Timers.  The table of interrupts has 4 entries: the  *)
(* sources 1 and 2 are fast ones, 3 is not, and 5 shares its entry with 1. *)
(***************************************************************************)
EXTENDS Timers

Table == [s \in 0..3 |-> IF s = 0 THEN None ELSE [id |-> s, fast |-> s # 3]]
=============================================================================

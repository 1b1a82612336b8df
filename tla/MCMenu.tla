------------------------------- MODULE MCMenu -------------------------------
(* The menus of create_menu: 27 items, a submenu of three items on the first
   one, the reboot hook on the sixteenth.  The submenu has a submenu of its
   own, which create_menu does not build but run_menu handles. *)
EXTENDS Menu

MCitemCount == [main |-> 27, sub |-> 3, deep |-> 2]
MCsubMenu ==
    [main |-> [i \in 1..27 |-> IF i = 1 THEN "sub" ELSE "none"],
     sub |-> [i \in 1..3 |-> IF i = 2 THEN "deep" ELSE "none"],
     deep |-> [i \in 1..2 |-> "none"]]
MCtarget == [m \in DOMAIN MCitemCount |-> [i \in 1..MCitemCount[m] |-> m = "main" /\ i = 16]]
=============================================================================

------------------------------ MODULE Sequence ------------------------------
(***************************************************************************)
(* What a list of libds is to its users: a sequence of nodes that changes  *)
(* in single steps.  An unsorted list grows at either end; a sorted one    *)
(* keeps its nodes in the order of their keys, a new node before the nodes *)
(* with the same key.  List implements this.                               *)
(***************************************************************************)
EXTENDS Integers, SequencesExt

CONSTANTS Nodes, Key

VARIABLES items, sorted

Init == items = <<>> /\ sorted \in BOOLEAN

(* The new node n is put in at position i. *)
Add(n, i) ==
    /\ n \notin Range(items)
    /\ items' = InsertAt(items, i, n)
    /\ IF sorted THEN /\ \A j \in 1..i-1 : Key[items[j]] < Key[n]
                      /\ \A j \in i..Len(items) : Key[n] <= Key[items[j]]
                 ELSE i \in {1, Len(items) + 1}

Take(i) == items' = RemoveAt(items, i)

Next ==
    /\ UNCHANGED sorted
    /\ \/ \E n \in Nodes, i \in 1..Len(items)+1 : Add(n, i)
       \/ \E i \in DOMAIN items : Take(i)

Spec == Init /\ [][Next]_<<items, sorted>>
=============================================================================

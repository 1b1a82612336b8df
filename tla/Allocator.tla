------------------------------ MODULE Allocator ------------------------------
(***************************************************************************)
(* What the kernel heap promises to the code that calls kmalloc and kfree: *)
(* a request is answered with memory no other holder has, of the size and  *)
(* the alignment asked for; the memory stays the holder's until it frees   *)
(* it; nothing else changes what anyone holds.  Heap implements this.      *)
(***************************************************************************)
EXTENDS Integers

CONSTANTS Holders, Requests, PAGE_SIZE, None

VARIABLES
    held,       \* Holders -> the memory each holds, or None
    waiting     \* the call in progress, or None

vars == <<held, waiting>>

Memory == [ptr: Nat, size: Nat, page: BOOLEAN, mask: Nat]

Disjoint(m, n) == m.ptr + m.size <= n.ptr \/ n.ptr + n.size <= m.ptr

(* The memory m answers the request c. *)
Answers(m, c) ==
    /\ m.size = c.size /\ m.page = c.page /\ m.mask = c.mask
    /\ c.page => m.ptr % PAGE_SIZE = 0

Init == held = [h \in Holders |-> None] /\ waiting = None

Ask(h, c) ==
    /\ waiting = None /\ held[h] = None
    /\ waiting' = [holder |-> h, asked |-> c]
    /\ UNCHANGED held

(* The memory given is any that fits: the next state says which. *)
Answer ==
    /\ waiting # None /\ waiting' = None
    /\ LET m == held'[waiting.holder] IN
       /\ m \in Memory /\ Answers(m, waiting.asked)
       /\ \A h \in Holders : held[h] # None => Disjoint(held[h], m)
       /\ held' = [held EXCEPT ![waiting.holder] = m]

Free(h) ==
    /\ waiting = None /\ held[h] # None
    /\ held' = [held EXCEPT ![h] = None]
    /\ UNCHANGED waiting

Next ==
    \/ \E h \in Holders, c \in Requests : Ask(h, c)
    \/ Answer
    \/ \E h \in Holders : Free(h)

Spec == Init /\ [][Next]_vars
=============================================================================

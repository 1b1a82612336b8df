-------------------------------- MODULE List --------------------------------
(***************************************************************************)
(* The generic list of libds (list.c) on a multiprocessor: a LIST_SAFE     *)
(* list whose operations take its spinlock, look at the list before they   *)
(* have it and at its nodes after they have given it back.                 *)
(*                                                                         *)
(* One action per piece of an operation that other CPUs can come between:  *)
(* the checks on entry, the steps of the spinlock, the locked section with *)
(* the release at its end, and what follows the release.  Memory comes     *)
(* from kmalloc and goes back by kfree; alive is what is allocated.        *)
(***************************************************************************)
EXTENDS Spinlock, SequencesExt

CONSTANTS
    Nodes,          \* the memory nodes may be allocated in
    Key,            \* Nodes -> the key (and sort key) a node is created with
    Consumers,      \* the CPUs that look nodes up, walk the list and remove
    None            \* the NULL pointer

ASSUME NodesAndKeys ==
    Key \in [Nodes -> Int] /\ None \notin Nodes /\ IsFiniteSet(Nodes)

VARIABLES
    sorted,     \* LIST_SORT_ONINSERT, given to ListCreate
    list,       \* [Headp, Tailp, Length, Link, Prev]: the list and the links of
                \* the nodes
    alive,      \* the nodes that are allocated
    op,         \* the operation each CPU is in: its step f, its node n, its key k
    fault       \* a NULL pointer or freed memory has been used

vars == <<lockvars, sorted, list, alive, op, fault>>

Keys == {Key[n] : n \in Nodes}
Idle == [f |-> "idle", n |-> None, k |-> None]

(* The steps of operations for which the lock is taken. *)
Locked == {"append", "insert", "pop", "find", "lookup", "unlink"}

---------------------------------------------------------------------------
(* What the locked sections do to a list L.                                *)

Empty(L) == L.Headp = None \/ L.Tailp = None

Only(L, n) == [L EXCEPT !.Headp = n, !.Tailp = n, !.Link[n] = None]

(* A variant: the backward link is forgotten. *)
LinkLastForward(L, n) == [L EXCEPT !.Tailp = n, !.Link = [@ EXCEPT ![L.Tailp] = n, ![n] = None]]

LinkLast(L, n) ==
    [L EXCEPT !.Tailp = n, !.Link = [@ EXCEPT ![L.Tailp] = n, ![n] = None],
              !.Prev[n] = L.Tailp]

LinkBefore(L, m, n) ==
    IF L.Prev[m] = None
    THEN [L EXCEPT !.Headp = n, !.Link[n] = m, !.Prev[m] = n]
    ELSE [L EXCEPT !.Link = [@ EXCEPT ![L.Prev[m]] = n, ![n] = m],
                   !.Prev = [@ EXCEPT ![n] = L.Prev[m], ![m] = n]]

(* What the pointer to the i-th node of a list that begins with s is.        *)
Pointer(L, s, i) == IF i = 1 THEN L.Headp ELSE L.Link[s[i-1]]

(* The nodes met from Headp on; a list has no more nodes than there are.     *)
Walk(L) ==
    LET N == Cardinality(Nodes) IN
    CHOOSE s \in BoundedSeq(Nodes, N) :
        /\ \A i \in DOMAIN s : s[i] = Pointer(L, s, i)
        /\ Len(s) = N \/ Pointer(L, s, Len(s) + 1) = None

(* dsmatchkey and dssortkey for the keys of nodes. *)
Matches(n, k) == Key[n] = k
NotAfter(n, m) == Key[n] <= Key[m]

(* Where foreach stops: at the first node that satisfies the test. *)
FirstNode(L, Test(_)) ==
    LET s     == Walk(L)
        found == {i \in DOMAIN s : Test(s[i])}
    IN  IF found = {} THEN None ELSE s[Min(found)]

Longer(L) == [L EXCEPT !.Length = @ + 1]

(* A variant: a sorted list is added to at its end.                          *)
InsertLast(L, n) ==
    Longer(IF Empty(L) THEN [Only(L, n) EXCEPT !.Prev[n] = None] ELSE LinkLast(L, n))

ListInsert(L, n) ==
    LET m == IF sorted THEN FirstNode(L, LAMBDA x : NotAfter(n, x)) ELSE L.Headp IN
    Longer(CASE Empty(L) -> IF sorted THEN Only(L, n) ELSE [Only(L, n) EXCEPT !.Prev[n] = None]
             [] ~Empty(L) /\ m = None -> LinkLast(L, n)
             [] ~Empty(L) /\ m # None /\ sorted -> LinkBefore(L, m, n)
             [] ~Empty(L) /\ m # None /\ ~sorted ->
                    [L EXCEPT !.Headp = n, !.Link[n] = m,
                              !.Prev = [@ EXCEPT ![m] = n, ![n] = None]])

ListAppend(L, n) ==
    IF sorted THEN ListInsert(L, n)
    ELSE Longer(IF Empty(L) THEN [Only(L, n) EXCEPT !.Prev[n] = None] ELSE LinkLast(L, n))

ListPopFront(L) ==
    LET cur  == L.Headp
        next == L.Link[cur]
        prev == IF next = None THEN L.Prev ELSE [L.Prev EXCEPT ![next] = None]
        gone == L.Tailp = cur
    IN  [L EXCEPT !.Headp = IF gone THEN None ELSE next,
                  !.Tailp = IF gone THEN None ELSE @,
                  !.Link[cur] = None, !.Prev = [prev EXCEPT ![cur] = None],
                  !.Length = @ - 1]

(* A variant: the first node is taken for one that is not in the list.       *)
UnlinkBehindHead(L, n) ==
    LET p == L.Prev[n]
        s == L.Link[n]
        less == [L EXCEPT !.Length = @ - 1]
    IN  CASE p = None -> L
          [] p # None /\ s = None -> [less EXCEPT !.Tailp = p, !.Link[p] = None]
          [] p # None /\ s # None -> [less EXCEPT !.Link[p] = s, !.Prev[s] = p]

ListUnlinkNode(L, n) ==
    LET p == L.Prev[n]
        s == L.Link[n]
        less == [L EXCEPT !.Length = @ - 1]
    IN  CASE p = None /\ L.Headp # n -> L
          [] p = None /\ L.Headp = n /\ s = None -> [less EXCEPT !.Headp = None, !.Tailp = None]
          [] p = None /\ L.Headp = n /\ s # None -> [less EXCEPT !.Headp = s, !.Prev[s] = None]
          [] p # None /\ s = None /\ L.Tailp # n -> L
          [] p # None /\ s = None /\ L.Tailp = n -> [less EXCEPT !.Tailp = p, !.Link[p] = None]
          [] p # None /\ s # None -> [less EXCEPT !.Link[p] = s, !.Prev[s] = p]

---------------------------------------------------------------------------
Fault == fault' = TRUE /\ UNCHANGED <<lockvars, sorted, list, alive, op>>

Goes(c, f, n, k) == op' = [op EXCEPT ![c] = [f |-> f, n |-> n, k |-> k]]

(* ListCreateNode makes a node; ListAppend or ListInsert is called with it.  *)
CallAdd(c, f, n) ==
    /\ op[c] = Idle /\ n \notin alive
    /\ alive' = alive \cup {n}
    /\ list' = [list EXCEPT !.Link[n] = None, !.Prev[n] = None]
    /\ Goes(c, f, n, None) /\ Acquire(c)
    /\ UNCHANGED <<sorted, fault>>

(* ListPopFront looks whether the list is empty before it takes the lock.    *)
CallPop(c) ==
    /\ op[c] = Idle /\ list.Headp # None
    /\ Goes(c, "pop", None, None) /\ Acquire(c)
    /\ UNCHANGED <<sorted, list, alive, fault>>

(* ListGetDataByKey and ListRemoveByKey start with ListGetNodeByKey, which   *)
(* looks whether the list is empty before it takes the lock.                 *)
CallByKey(c, f, k) ==
    /\ op[c] = Idle /\ list.Headp # None /\ list.Length # 0
    /\ Goes(c, f, None, k) /\ Acquire(c)
    /\ UNCHANGED <<sorted, list, alive, fault>>

(* foreach (ListExecuteAll, ListExecuteOnKey, TimersTick): no lock is taken. *)
ListBegin(c) ==
    /\ op[c] = Idle /\ list.Headp # None
    /\ Goes(c, "walk", list.Headp, None)
    /\ UNCHANGED <<lockvars, sorted, list, alive, fault>>

(* The loop reads the data and then the Link of the node it is at.           *)
ListNext(c) ==
    /\ op[c].f = "walk"
    /\ \/ /\ op[c].n \in alive
          /\ LET s == list.Link[op[c].n] IN
             IF s = None THEN op' = [op EXCEPT ![c] = Idle] ELSE Goes(c, "walk", s, None)
          /\ UNCHANGED <<lockvars, sorted, list, alive, fault>>
       \/ op[c].n \notin alive /\ Fault

(* ListRemoveByNode on the node the loop is at, or on the one ListRemoveByKey *)
(* has found: ListUnlinkNode looks whether the list is empty, then locks.     *)
CallUnlink(c) ==
    /\ op[c].f \in {"walk", "found"}
    /\ Goes(c, IF list.Headp = None THEN "clear" ELSE "unlink", op[c].n, op[c].k)
    /\ IF list.Headp = None THEN UNCHANGED lockvars ELSE Acquire(c)
    /\ UNCHANGED <<sorted, list, alive, fault>>

(* The spinlock is taken; the CPU waits as long as another one has it.       *)
Spin(c) ==
    /\ op[c].f \in Locked
    /\ Xchg(c) \/ Loop(c)
    /\ UNCHANGED <<sorted, list, alive, op, fault>>

(* The locked sections, each with the release that ends it. *)
Add(c) ==
    /\ op[c].f \in {"append", "insert"} /\ Release(c)
    /\ list' = IF op[c].f = "append" THEN ListAppend(list, op[c].n)
                                     ELSE ListInsert(list, op[c].n)
    /\ op' = [op EXCEPT ![c] = Idle]
    /\ UNCHANGED <<sorted, alive, fault>>

Pop(c) ==
    /\ op[c].f = "pop" /\ at[c] = "in"
    /\ \/ /\ list.Headp # None /\ Release(c)
          /\ list' = ListPopFront(list)
          /\ Goes(c, "destroy", list.Headp, None)
          /\ UNCHANGED <<sorted, alive, fault>>
       \/ list.Headp = None /\ Fault

(* A variant: a lookup that finds nothing returns with the lock.             *)
LookupKeepsLock(c) ==
    /\ op[c].f \in {"find", "lookup"} /\ at[c] = "in"
    /\ \E n \in {FirstNode(list, LAMBDA x : Matches(x, op[c].k))} :
          \/ /\ n = None /\ op' = [op EXCEPT ![c] = Idle] /\ UNCHANGED lockvars
          \/ /\ n # None /\ Release(c)
             /\ Goes(c, IF op[c].f = "find" THEN "found" ELSE "read", n, op[c].k)
    /\ UNCHANGED <<sorted, list, alive, fault>>

Lookup(c) ==
    /\ op[c].f \in {"find", "lookup"} /\ Release(c)
    /\ \E n \in {FirstNode(list, LAMBDA x : Matches(x, op[c].k))} :
          IF n = None THEN op' = [op EXCEPT ![c] = Idle]
          ELSE Goes(c, IF op[c].f = "find" THEN "found" ELSE "read", n, op[c].k)
    /\ UNCHANGED <<sorted, list, alive, fault>>

Unlink(c) ==
    /\ op[c].f = "unlink" /\ at[c] = "in"
    /\ \/ /\ op[c].n \in alive /\ Release(c)
          /\ list' = ListUnlinkNode(list, op[c].n)
          /\ Goes(c, "clear", op[c].n, op[c].k)
          /\ UNCHANGED <<sorted, alive, fault>>
       \/ op[c].n \notin alive /\ Fault

(* After the lock has been given back: ListRemoveByNode clears the links,    *)
(* and ListRemoveByKey, like the caller of ListPopFront, frees the node.     *)
Clear(c) ==
    /\ op[c].f = "clear"
    /\ \/ /\ op[c].n \in alive
          /\ list' = [list EXCEPT !.Link[op[c].n] = None, !.Prev[op[c].n] = None]
          /\ IF op[c].k = None THEN op' = [op EXCEPT ![c] = Idle]
                               ELSE Goes(c, "destroy", op[c].n, op[c].k)
          /\ UNCHANGED <<lockvars, sorted, alive, fault>>
       \/ op[c].n \notin alive /\ Fault

ListDestroyNode(c) ==
    /\ op[c].f = "destroy"
    /\ \/ /\ op[c].n \in alive /\ alive' = alive \ {op[c].n}
          /\ op' = [op EXCEPT ![c] = Idle]
          /\ UNCHANGED <<lockvars, sorted, list, fault>>
       \/ op[c].n \notin alive /\ Fault

(* ListGetDataByKey reads the data of the node it has found. *)
Read(c) ==
    /\ op[c].f = "read"
    /\ \/ /\ op[c].n \in alive /\ op' = [op EXCEPT ![c] = Idle]
          /\ UNCHANGED <<lockvars, sorted, list, alive, fault>>
       \/ op[c].n \notin alive /\ Fault

---------------------------------------------------------------------------
(* ListCreate *)
Init ==
    /\ LockInit
    /\ sorted \in BOOLEAN
    /\ list = [Headp |-> None, Tailp |-> None, Length |-> 0,
               Link |-> [n \in Nodes |-> None], Prev |-> [n \in Nodes |-> None]]
    /\ alive = {}
    /\ op = [c \in CPUs |-> Idle]
    /\ fault = FALSE

Call(c) ==
    \/ \E f \in {"append", "insert"}, n \in Nodes : CallAdd(c, f, n)
    \/ c \in Consumers /\ (CallPop(c) \/ ListBegin(c))
    \/ c \in Consumers /\ \E f \in {"find", "lookup"}, k \in Keys : CallByKey(c, f, k)

(* The next step of the operation a CPU is in. *)
Step(c) ==
    \/ ListNext(c) \/ CallUnlink(c) \/ Spin(c)
    \/ Add(c) \/ Pop(c) \/ Lookup(c) \/ Unlink(c)
    \/ Clear(c) \/ ListDestroyNode(c) \/ Read(c)

Next == ~fault /\ \E c \in CPUs : Call(c) \/ Step(c)

(* A CPU in an operation keeps running; nothing makes the spinlock fair.     *)
Spec == Init /\ [][Next]_vars /\ \A c \in CPUs : WF_vars(~fault /\ Step(c))

---------------------------------------------------------------------------
(* Properties                                                              *)

Ops == Locked \cup {"idle", "walk", "found", "clear", "destroy", "read"}

TypeOK ==
    /\ sorted \in BOOLEAN /\ fault \in BOOLEAN /\ alive \subseteq Nodes
    /\ list.Headp \in Nodes \cup {None} /\ list.Tailp \in Nodes \cup {None}
    /\ list.Length \in 0..Cardinality(Nodes)
    /\ list.Link \in [Nodes -> Nodes \cup {None}]
    /\ list.Prev \in [Nodes -> Nodes \cup {None}]
    /\ op \in [CPUs -> [f: Ops, n: Nodes \cup {None}, k: Keys \cup {None}]]

(* The list L is linked, forwards and backwards, as the sequence s.          *)
LinkedAs(L, s) ==
    /\ IsInjective(s) /\ Len(s) = L.Length
    /\ L.Headp = IF s = <<>> THEN None ELSE s[1]
    /\ L.Tailp = IF s = <<>> THEN None ELSE s[Len(s)]
    /\ \A i \in DOMAIN s :
          /\ L.Prev[s[i]] = IF i = 1 THEN None ELSE s[i-1]
          /\ L.Link[s[i]] = IF i = Len(s) THEN None ELSE s[i+1]

(* Whatever CPUs append, insert, look up and walk, while one of them removes: *)
(* forwards and backwards the list has the same nodes, it ends at Tailp, its  *)
(* Length is their number, and all of them are allocated.                     *)
WellLinked ==
    TypeOK /\ LinkedAs(list, Walk(list)) /\ Range(Walk(list)) \subseteq alive

(* No operation uses a NULL pointer or freed memory, although ListPopFront   *)
(* and ListUnlinkNode look at the list before they lock it, the loops do not *)
(* lock it, and found nodes are used after the lock is released.             *)
NoFault == ~fault

(* A waiting CPU sees the lock taken by some CPU, and who has taken it gives *)
(* it back: no operation ends, or waits for ever, with the lock in hand.     *)
LockPasses ==
    /\ (\E c \in CPUs : at[c] \in {"xchg", "loop"}) ~> (Inside # {})
    /\ \A c \in CPUs : at[c] = "in" ~> at[c] # "in"

S == INSTANCE Sequence WITH items <- Walk(list)

(* Between its locked sections the list is a sequence that changes in the    *)
(* single steps Sequence allows: at its ends or, when sorted, in key order.  *)
ImplementsSequence == S!Spec
=============================================================================

----------------------------- MODULE HeapProofs -----------------------------
(***************************************************************************)
(* Theorems about the kernel heap: its type invariant, and, for clients    *)
(* whose large page requests are multiples of HEAP_STANDARD_ALIGN, the     *)
(* inductive invariant HeapInv: blocks and nodes tile the heap, only the   *)
(* last node of a block is free, and each client's memory has a node of    *)
(* its own, for every size of page, block and header and any requests.     *)
(* From it follows what the heap promises its clients, that its counts of  *)
(* bytes and headers add up, and that it implements the abstract allocator.*)
(***************************************************************************)
EXTENDS Heap, Induction, SequenceTheorems

---------------------------------------------------------------------------
(* Sequences: what the list operations of the heap do, position by position *)

(* Linking a node in before position i moves the later ones one up. *)
LEMMA InsertAtFacts ==
    ASSUME NEW S, NEW s \in Seq(S), NEW i \in 1..Len(s), NEW e \in S
    PROVE  /\ InsertAt(s, i, e) \in Seq(S)
           /\ Len(InsertAt(s, i, e)) = Len(s) + 1
           /\ \A j \in 1..Len(s)+1 : InsertAt(s, i, e)[j] =
                  IF j < i THEN s[j] ELSE IF j = i THEN e ELSE s[j-1]
<1> DEFINE a == SubSeq(s, 1, i-1)
           c == a \o <<e>>
           b == SubSeq(s, i, Len(s))
<1>0. Len(s) \in Nat
  BY LenProperties
<1>1. a \in Seq(S) /\ Len(a) = i-1 /\ \A j \in 1..i-1 : a[j] = s[j]
  BY ElementOfSeq, SubSeqProperties, <1>0
<1>2. b \in Seq(S) /\ Len(b) = Len(s)-i+1 /\ \A j \in 1..Len(s)-i+1 : b[j] = s[i+j-1]
  BY ElementOfSeq, SubSeqProperties, <1>0
<1>3. c \in Seq(S) /\ Len(c) = i /\ \A j \in 1..i : c[j] = IF j < i THEN s[j] ELSE e
  <2> HIDE DEF a
  <2>1. <<e>> \in Seq(S) /\ Len(<<e>>) = 1 /\ <<e>>[1] = e
    OBVIOUS
  <2> QED BY <1>0, <1>1, <2>1, ConcatProperties
<1>4. InsertAt(s, i, e) = c \o b
  BY DEF InsertAt
<1> HIDE DEF a, b, c
<1>5. /\ c \o b \in Seq(S) /\ Len(c \o b) = Len(s) + 1
      /\ \A j \in 1..Len(s)+1 : (c \o b)[j] = IF j <= i THEN c[j] ELSE b[j-i]
  <2>1. Len(c) + Len(b) = Len(s) + 1 /\ c \in Seq(S) /\ b \in Seq(S) /\ Len(c) = i
    BY <1>0, <1>2, <1>3
  <2>2. /\ c \o b \in Seq(S) /\ Len(c \o b) = Len(c) + Len(b)
        /\ \A j \in 1..Len(c)+Len(b) : (c \o b)[j] = IF j <= Len(c) THEN c[j] ELSE b[j - Len(c)]
    BY ONLY <2>1, ConcatProperties, Zenon
  <2> QED BY <2>1, <2>2, Zenon
<1>6. ASSUME NEW j \in 1..Len(s)+1
      PROVE  (c \o b)[j] = IF j < i THEN s[j] ELSE IF j = i THEN e ELSE s[j-1]
  <2>1. CASE j <= i
    BY <2>1, <1>0, <1>3, <1>5
  <2>2. CASE j > i
    <3>1. b[j-i] = s[i+(j-i)-1]
      BY <2>2, <1>0, <1>2
    <3>2. i+(j-i)-1 = j-1
      BY <1>0
    <3> QED BY <2>2, <3>1, <3>2, <1>0, <1>5
  <2>3. j <= i \/ j > i
    BY <1>0
  <2> QED BY <2>1, <2>2, <2>3, Zenon
<1> QED
  BY <1>4, <1>5, <1>6

(* Unlinking the node at position i moves the later ones one down. *)
LEMMA RemoveAtFacts ==
    ASSUME NEW S, NEW s \in Seq(S), NEW i \in 1..Len(s)
    PROVE  /\ RemoveAt(s, i) \in Seq(S)
           /\ Len(RemoveAt(s, i)) = Len(s) - 1
           /\ \A j \in 1..Len(s)-1 : RemoveAt(s, i)[j] = IF j < i THEN s[j] ELSE s[j+1]
<1> DEFINE a == SubSeq(s, 1, i-1)
           b == SubSeq(s, i+1, Len(s))
<1>0. Len(s) \in Nat
  BY LenProperties
<1>1. a \in Seq(S) /\ Len(a) = i-1 /\ \A j \in 1..i-1 : a[j] = s[j]
  BY ElementOfSeq, SubSeqProperties, <1>0
<1>2. b \in Seq(S) /\ Len(b) = Len(s)-i /\ \A j \in 1..Len(s)-i : b[j] = s[i+j]
  BY ElementOfSeq, SubSeqProperties, <1>0
<1>3. RemoveAt(s, i) = a \o b
  BY DEF RemoveAt
<1> HIDE DEF a, b
<1>4. /\ a \o b \in Seq(S) /\ Len(a \o b) = Len(a) + Len(b)
      /\ \A j \in 1..Len(a)+Len(b) : (a \o b)[j] = IF j <= Len(a) THEN a[j] ELSE b[j-Len(a)]
  BY <1>1, <1>2, ConcatProperties
<1>5. Len(a) + Len(b) = Len(s) - 1
  BY <1>0, <1>1, <1>2
<1>6. ASSUME NEW j \in 1..Len(s)-1
      PROVE  (a \o b)[j] = IF j < i THEN s[j] ELSE s[j+1]
  <2>0. j \in 1..Len(a)+Len(b) /\ Len(a) = i-1
    BY <1>1, <1>5
  <2>1. CASE j < i
    <3>1. (a \o b)[j] = a[j]
      BY <2>0, <2>1, <1>0, <1>4
    <3> QED BY <2>1, <3>1, <1>0, <1>1
  <2>2. CASE j >= i
    <3>1. (a \o b)[j] = b[j-Len(a)]
      BY <2>0, <2>2, <1>0, <1>4
    <3>2. b[j-Len(a)] = s[i+(j-Len(a))]
      BY <2>0, <2>2, <1>0, <1>2
    <3>3. i+(j-Len(a)) = j+1
      BY <2>0, <1>0
    <3> QED BY <2>2, <3>1, <3>2, <3>3, <1>0
  <2>3. j < i \/ j >= i
    BY <1>0
  <2> QED BY <2>1, <2>2, <2>3, Zenon
<1> QED
  BY <1>3, <1>4, <1>5, <1>6

---------------------------------------------------------------------------
(* Arithmetic of the ALIGN macro and of size_t                             *)

(* ALIGN rounds up to the next multiple. *)
LEMMA AlignUpFacts ==
    ASSUME NEW v \in Nat, NEW a \in Nat \ {0}
    PROVE  /\ AlignUp(v, a) \in v .. v + a - 1
           /\ AlignUp(v, a) % a = 0
<1>1. v % a \in 0..a-1
  OBVIOUS
<1>2. (v + a - (v % a)) % a = 0
  OBVIOUS
<1> QED
  BY <1>1, <1>2 DEF AlignUp

(* The sum and the difference of two size_t are a size_t. *)
LEMMA SizeFacts ==
    ASSUME NEW m \in 0..SIZE_MOD-1, NEW n \in 0..SIZE_MOD-1
    PROVE  /\ SizeAdd(m, n) \in 0..SIZE_MOD-1
           /\ SizeSub(m, n) \in 0..SIZE_MOD-1
  BY HeapSizes DEF SizeAdd, SizeSub

---------------------------------------------------------------------------
(* Types                                                                   *)

(* The sizes HeapAllocate works with do not overflow when they are rounded:  *)
(* a client's request is small enough, an adjusted one is already a multiple *)
(* of the page size.                                                         *)
Sized(r) ==
    /\ r.size \in 1..SIZE_MOD-1
    /\ r.size < SIZE_MOD - PAGE_SIZE \/ r.size % PAGE_SIZE = 0
    /\ r.align \in {0, HEAP_STANDARD_ALIGN}

TypeInv == TypeOK /\ (pending # None => Sized(pending))

(* Taking a header keeps the record of the header space well typed, and one  *)
(* that was not a real one is never forgotten.                               *)
LEMMA SpaceTypes ==
    ASSUME NEW g \in HeaderType, NEW size \in Nat
    PROVE  HeapSAllocator(g, size) \in HeaderType /\ (HeapSAllocator(g, size).ok => g.ok)
<1> DEFINE limit == MEMORY_LOCATION_HEAP + MEMORY_STATIC_OFFSET
<1>1. g.cur \in Nat /\ g.max \in Nat /\ PAGE_SIZE \in Nat
  BY HeapSizes DEF HeaderType
<1>2. CASE g.cur + size < g.max
  <2>1. HeapSAllocator(g, size) = [g EXCEPT !.cur = @ + size]
    BY <1>1, <1>2 DEF HeapSAllocator
  <2> QED BY <2>1 DEF HeaderType
<1>3. CASE g.cur + size >= g.max /\ g.max + PAGE_SIZE >= limit
  <2>1. HeapSAllocator(g, size) = [g EXCEPT !.ok = FALSE]
    BY <1>1, <1>3 DEF HeapSAllocator
  <2> QED BY <2>1 DEF HeaderType
<1>4. CASE g.cur + size >= g.max /\ ~(g.max + PAGE_SIZE >= limit)
  <2>1. HeapSAllocator(g, size) = [g EXCEPT !.cur = @ + size, !.max = @ + PAGE_SIZE]
    BY <1>1, <1>4 DEF HeapSAllocator
  <2>2. g.cur + size \in Nat /\ g.max + PAGE_SIZE \in Nat
    BY <1>1
  <2> QED BY <2>1, <2>2 DEF HeaderType
<1> QED
  BY <1>1, <1>2, <1>3, <1>4

LEMMA HeaderTypes ==
    ASSUME NEW hs \in HeaderType
    PROVE  /\ TakeNode(hs) \in HeaderType /\ TakeBlockAndNode(hs) \in HeaderType
           /\ TakeNode(hs).ok => hs.ok
           /\ TakeBlockAndNode(hs).ok => HeapSAllocator(hs, BLOCK_HEADER).ok
<1>0. NODE_HEADER \in Nat /\ BLOCK_HEADER \in Nat
  BY HeapSizes
<1>1. ASSUME NEW g \in HeaderType
      PROVE  TakeNode(g) \in HeaderType /\ (TakeNode(g).ok => g.ok)
  <2>1. CASE g.recycled > 0
    BY <2>1 DEF TakeNode, HeaderType
  <2>2. CASE ~(g.recycled > 0)
    BY <2>2, <1>0, SpaceTypes DEF TakeNode
  <2> QED BY <2>1, <2>2
<1>2. HeapSAllocator(hs, BLOCK_HEADER) \in HeaderType
  BY <1>0, SpaceTypes
<1> QED
  BY <1>1, <1>2 DEF TakeBlockAndNode

(* The adjustment of the size and flags keeps a request well typed. *)
LEMMA AdjustedTypes ==
    ASSUME NEW r \in PendingType, Sized(r)
    PROVE  Adjusted(r) \in PendingType /\ Sized(Adjusted(r))
<1> DEFINE large == ~r.page /\ ~r.big /\ r.size >= HEAP_NORMAL_BLOCK
           size  == IF large THEN AlignUp(r.size, PAGE_SIZE) ELSE r.size
           page  == r.page \/ large
           big   == r.big \/ size >= HEAP_LARGE_BLOCK
           final == IF page /\ ~big THEN AlignUp(size, PAGE_SIZE) ELSE size
<1>1. ASSUME NEW v \in 1..SIZE_MOD-1, v < SIZE_MOD - PAGE_SIZE \/ v % PAGE_SIZE = 0
      PROVE  AlignUp(v, PAGE_SIZE) \in 1..SIZE_MOD-1 /\ AlignUp(v, PAGE_SIZE) % PAGE_SIZE = 0
  <2>1. CASE v % PAGE_SIZE = 0
    BY <2>1 DEF AlignUp
  <2>2. CASE v < SIZE_MOD - PAGE_SIZE
    <3>1. SIZE_MOD \in Nat /\ PAGE_SIZE \in Nat \ {0} /\ v \in Nat
      BY HeapSizes
    <3>2. AlignUp(v, PAGE_SIZE) \in v .. v + PAGE_SIZE - 1 /\ AlignUp(v, PAGE_SIZE) % PAGE_SIZE = 0
      BY <3>1, AlignUpFacts
    <3> QED BY <2>2, <3>1, <3>2
  <2> QED BY <1>1, <2>1, <2>2
<1>2. size \in 1..SIZE_MOD-1 /\ (size < SIZE_MOD - PAGE_SIZE \/ size % PAGE_SIZE = 0)
  BY <1>1 DEF Sized
<1> HIDE DEF size
<1>3. final \in 1..SIZE_MOD-1 /\ (final < SIZE_MOD - PAGE_SIZE \/ final % PAGE_SIZE = 0)
  BY <1>1, <1>2
<1>4. Adjusted(r) = [r EXCEPT !.page = page, !.big = big, !.size = final]
  BY DEF Adjusted, size
<1>5. page \in BOOLEAN /\ big \in BOOLEAN
  BY DEF PendingType
<1> HIDE DEF final, page, big
<1>6. final \in Nat
  BY <1>3, HeapSizes
<1>7. Adjusted(r) \in PendingType
  BY <1>4, <1>5, <1>6 DEF PendingType
<1>8. Adjusted(r).size = final /\ Adjusted(r).align = r.align
  BY <1>4 DEF PendingType
<1> QED
  BY <1>3, <1>7, <1>8 DEF Sized

(* The padding in front of an unaligned address is less than the alignment.  *)
LEMMA PaddingType ==
    ASSUME NEW n \in NodeType, NEW align \in {0, HEAP_STANDARD_ALIGN}
    PROVE  Padding(n, align) \in 0..SIZE_MOD-1
<1>1. ASSUME align # 0
      PROVE  n.addr % align \in 0..align-1
  BY <1>1, HeapSizes DEF NodeType
<1> QED
  BY <1>1, HeapSizes DEF Padding, NeedsPadding, IsAligned

(* Allocating in a block leaves a well-typed block. *)
LEMMA AllocateTypes ==
    ASSUME NEW b \in BlockType, NEW i \in DOMAIN b.nodes,
           NEW size \in 1..SIZE_MOD-1, NEW align \in {0, HEAP_STANDARD_ALIGN}
    PROVE  HeapAllocateSizeInBlock(b, i, size, align) \in BlockType
<1> DEFINE n == b.nodes[i]
<1>0. size \in 0..SIZE_MOD-1
  BY HeapSizes
<1>1. b.nodes \in Seq(NodeType) /\ b.bytesFree \in 0..SIZE_MOD-1 /\ i \in 1..Len(b.nodes)
  BY LenProperties DEF BlockType
<1>2. n \in NodeType
  BY <1>1, ElementOfSeq
<1>3. ASSUME NEW ns \in Seq(NodeType), NEW f \in 0..SIZE_MOD-1
      PROVE  [b EXCEPT !.nodes = ns, !.bytesFree = f] \in BlockType
  BY DEF BlockType
<1>4. TakeWhole(b, i, size) \in BlockType
  <2>1. [n EXCEPT !.alloc = TRUE] \in NodeType
    BY <1>2 DEF NodeType
  <2>2. [b.nodes EXCEPT ![i] = [n EXCEPT !.alloc = TRUE]] \in Seq(NodeType)
    BY <1>1, <2>1, ExceptSeq
  <2>3. TakeWhole(b, i, size) = [b EXCEPT !.nodes = [b.nodes EXCEPT ![i] = [n EXCEPT !.alloc = TRUE]],
                                         !.bytesFree = SizeSub(b.bytesFree, size)]
    BY <1>1 DEF TakeWhole, BlockType
  <2>4. SizeSub(b.bytesFree, size) \in 0..SIZE_MOD-1
    BY <1>0, <1>1, SizeFacts
  <2> QED BY <1>3, <2>2, <2>3, <2>4
<1>5. TakeFront(b, i, size, align) \in BlockType
  <2> DEFINE used == SizeAdd(size, Padding(n, align))
             new  == [addr |-> n.addr, len |-> used, alloc |-> TRUE]
             rest == [n EXCEPT !.addr = n.addr + used, !.len = SizeSub(@, used)]
  <2>1. used \in 0..SIZE_MOD-1
    BY <1>0, <1>2, PaddingType, SizeFacts
  <2>2. new \in NodeType /\ rest \in NodeType
    <3>1. SizeSub(n.len, used) \in 0..SIZE_MOD-1
      BY <1>2, <2>1, SizeFacts DEF NodeType
    <3>2. n.addr \in Nat /\ used \in Nat
      BY <1>2, <2>1, HeapSizes DEF NodeType
    <3>3. new \in NodeType
      BY <2>1, <3>2 DEF NodeType
    <3>4. rest = [n EXCEPT !.addr = n.addr + used, !.len = SizeSub(n.len, used)]
      BY <1>2 DEF NodeType
    <3> HIDE DEF used
    <3>5. n.addr + used \in Nat
      BY <3>2
    <3> QED BY <1>2, <3>1, <3>3, <3>4, <3>5 DEF NodeType
  <2>3. /\ ReplaceAt(b.nodes, i, rest) \in Seq(NodeType)
        /\ Len(ReplaceAt(b.nodes, i, rest)) = Len(b.nodes)
    <3> HIDE DEF rest
    <3> QED BY <1>1, <2>2, ExceptSeq DEF ReplaceAt
  <2> HIDE DEF new, rest
  <2>4. InsertAt(ReplaceAt(b.nodes, i, rest), i, new) \in Seq(NodeType)
    BY <1>1, <2>2, <2>3, InsertAtFacts
  <2>5. TakeFront(b, i, size, align)
          = [b EXCEPT !.nodes = InsertAt(ReplaceAt(b.nodes, i, rest), i, new)]
    BY DEF TakeFront, new, rest
  <2> QED BY <2>4, <2>5 DEF BlockType
<1> QED
  BY <1>4, <1>5 DEF HeapAllocateSizeInBlock

(* Freeing a node leaves a well-typed block. *)
LEMMA FreeTypes ==
    ASSUME NEW b \in BlockType, NEW i \in DOMAIN b.nodes
    PROVE  HeapFreeAddressInNode(b, i) \in BlockType
<1> DEFINE n == b.nodes[i]
<1>1. b.nodes \in Seq(NodeType) /\ b.bytesFree \in 0..SIZE_MOD-1 /\ i \in 1..Len(b.nodes)
      /\ Len(b.nodes) \in Nat
  BY LenProperties DEF BlockType
<1>2. \A j \in 1..Len(b.nodes) : b.nodes[j] \in NodeType
  BY <1>1, ElementOfSeq
<1>3. FreedNodes(b, i) \in Seq(NodeType)
  <2>1. CASE MergesBack(b, i)
    <3> DEFINE p == [b.nodes[i-1] EXCEPT !.len = SizeAdd(@, n.len)]
    <3>1. i-1 \in 1..Len(b.nodes)
      BY <2>1, <1>1 DEF MergesBack
    <3>2. p \in NodeType
      BY <1>1, <1>2, <3>1, SizeFacts DEF NodeType
    <3> DEFINE q == [b.nodes EXCEPT ![i-1] = p]
    <3>3. q \in Seq(NodeType) /\ Len(q) = Len(b.nodes)
      <4> HIDE DEF p
      <4> QED BY <1>1, <3>1, <3>2, ExceptSeq
    <3>4. FreedNodes(b, i) = RemoveAt(q, i)
      BY <2>1 DEF FreedNodes, MergesOn
    <3> HIDE DEF p, q
    <3> QED BY <1>1, <3>3, <3>4, RemoveAtFacts
  <2>2. CASE MergesOn(b, i)
    <3> DEFINE p == [b.nodes[i+1] EXCEPT !.addr = n.addr, !.len = SizeAdd(@, n.len)]
    <3>1. i+1 \in 1..Len(b.nodes)
      BY <2>2, <1>1 DEF MergesOn
    <3>2. p \in NodeType
      BY <1>1, <1>2, <3>1, SizeFacts DEF NodeType
    <3> DEFINE q == [b.nodes EXCEPT ![i+1] = p]
    <3>3. q \in Seq(NodeType) /\ Len(q) = Len(b.nodes)
      <4> HIDE DEF p
      <4> QED BY <1>1, <3>1, <3>2, ExceptSeq
    <3>4. FreedNodes(b, i) = RemoveAt(q, i)
      BY <2>2, <1>1 DEF FreedNodes, MergesOn
    <3> HIDE DEF p, q
    <3> QED BY <1>1, <3>3, <3>4, RemoveAtFacts
  <2>3. CASE ~MergesBack(b, i) /\ ~MergesOn(b, i)
    <3>1. [n EXCEPT !.alloc = FALSE] \in NodeType
      BY <1>1, <1>2 DEF NodeType
    <3>2. FreedNodes(b, i) = [b.nodes EXCEPT ![i] = [n EXCEPT !.alloc = FALSE]]
      BY <2>3 DEF FreedNodes
    <3> QED BY <1>1, <3>1, <3>2, ExceptSeq
  <2> QED BY <2>1, <2>2, <2>3
<1>4. SizeAdd(b.bytesFree, n.len) \in 0..SIZE_MOD-1
  BY <1>1, <1>2, SizeFacts DEF NodeType
<1> QED
  BY <1>3, <1>4 DEF HeapFreeAddressInNode, BlockType

(* A new block is well typed when its size is. *)
LEMMA NewBlockType ==
    ASSUME NEW start \in Nat, NEW size \in 1..SIZE_MOD-1, NEW mask \in Nat, NEW kind \in Kinds
    PROVE  NewBlock(start, size, mask, kind) \in BlockType
<1>1. /\ start + size - 1 \in Nat
      /\ [addr |-> start, len |-> size, alloc |-> FALSE] \in NodeType
      /\ size \in 0..SIZE_MOD-1
  BY HeapSizes DEF NodeType
<1>2. <<[addr |-> start, len |-> size, alloc |-> FALSE]>> \in Seq(NodeType)
  BY <1>1
<1> QED
  BY <1>1, <1>2 DEF NewBlock, BlockType

(* The boot-time heap is well typed. *)
LEMMA TypeInit == Init => TypeInv
<1> SUFFICES ASSUME Init PROVE TypeInv
  OBVIOUS
<1> DEFINE data == MEMORY_LOCATION_HEAP + MEMORY_STATIC_OFFSET
<1>1. data \in Nat /\ data + HEAP_NORMAL_BLOCK \in Nat /\ data + HEAP_NORMAL_BLOCK + HEAP_LARGE_BLOCK \in Nat
      /\ MASK \in Nat /\ HEAP_NORMAL_BLOCK \in 1..SIZE_MOD-1 /\ HEAP_LARGE_BLOCK \in 1..SIZE_MOD-1
  BY HeapSizes
<1>2. blocks \in Seq(BlockType)
  <2>1. NewBlock(data, HEAP_NORMAL_BLOCK, MASK, "normal") \in BlockType
    BY <1>1, NewBlockType DEF Kinds
  <2>2. NewBlock(data + HEAP_NORMAL_BLOCK, HEAP_LARGE_BLOCK, MASK, "page") \in BlockType
    BY <1>1, NewBlockType DEF Kinds
  <2> QED BY <2>1, <2>2 DEF Init
<1>3. headers \in HeaderType
  <2>1. NoHeaders \in HeaderType
    BY HeapSizes DEF HeaderType, NoHeaders
  <2> QED BY <2>1, HeaderTypes DEF Init, FirstHeaders
<1>4. mapped = <<>> /\ held = [h \in Holders |-> None] /\ pending = None /\ fault = FALSE
      /\ memStartData \in Nat
  BY <1>1 DEF Init
<1>5. DOMAIN mapped = {}
  BY <1>4
<1> QED
  BY <1>2, <1>3, <1>4, <1>5 DEF TypeInv, TypeOK

(* A call of a wrapper records a well-typed request. *)
LEMMA CallPending ==
    ASSUME NEW h \in Holders, NEW c \in Requests, Call(h, c)
    PROVE  pending' \in PendingType /\ Sized(pending')
<1>1. c \in [page: BOOLEAN, size: 1..SIZE_MOD-PAGE_SIZE-1, mask: 0..MASK]
  BY HeapRequests
<1>2. c.page \in BOOLEAN /\ c.size \in Nat /\ c.mask \in Nat
      /\ c.size \in 1..SIZE_MOD-1 /\ c.size < SIZE_MOD - PAGE_SIZE
  BY <1>1, HeapSizes
<1> DEFINE al == IF c.page THEN 0 ELSE HEAP_STANDARD_ALIGN
<1>3. al \in {0, HEAP_STANDARD_ALIGN} /\ al \in Nat
  BY HeapSizes
<1>4. pending' = [holder |-> h, asked |-> c, expansions |-> 0, size |-> c.size,
                  page |-> c.page, big |-> FALSE, mask |-> c.mask, align |-> al]
  BY DEF Call
<1> HIDE DEF al
<1> QED
  BY <1>2, <1>3, <1>4 DEF PendingType, Sized

LEMMA TypeCall ==
    ASSUME TypeInv, NEW h \in Holders, NEW c \in Requests, Call(h, c)
    PROVE  TypeInv'
BY CallPending DEF TypeInv, TypeOK, Call

(* Stopping at a fault changes nothing else. *)
LEMMA TypeCrash == ASSUME TypeInv, Crash PROVE TypeInv'
  BY DEF TypeInv, TypeOK, Crash, Sized

(* Answering a request from node i of block k. *)
LEMMA TypeServe == ASSUME TypeInv, Serve PROVE TypeInv'
<1>1. PICK r \in {Adjusted(pending)} : \E k \in First(ServingBlocks(r)) :
        \E i \in First(FittingNodes(blocks[k], r.size, r.align)) :
        \E hs \in {IF Splits(blocks[k], i, r.size) THEN TakeNode(headers) ELSE headers} :
          (hs.ok /\ Answer(r, k, i, hs)) \/ (~hs.ok /\ Crash)
  BY DEF Serve
<1>2. PICK k \in First(ServingBlocks(r)) :
        \E i \in First(FittingNodes(blocks[k], r.size, r.align)) :
        \E hs \in {IF Splits(blocks[k], i, r.size) THEN TakeNode(headers) ELSE headers} :
          (hs.ok /\ Answer(r, k, i, hs)) \/ (~hs.ok /\ Crash)
  BY <1>1
<1>3. PICK i \in First(FittingNodes(blocks[k], r.size, r.align)) :
        \E hs \in {IF Splits(blocks[k], i, r.size) THEN TakeNode(headers) ELSE headers} :
          (hs.ok /\ Answer(r, k, i, hs)) \/ (~hs.ok /\ Crash)
  BY <1>2
<1>4. PICK hs \in {IF Splits(blocks[k], i, r.size) THEN TakeNode(headers) ELSE headers} :
          (hs.ok /\ Answer(r, k, i, hs)) \/ (~hs.ok /\ Crash)
  BY <1>3
<1>5. r \in PendingType /\ Sized(r)
  BY AdjustedTypes DEF TypeInv, TypeOK, Serve
<1>6. k \in 1..Len(blocks) /\ blocks[k] \in BlockType /\ i \in DOMAIN blocks[k].nodes
  BY ElementOfSeq, LenProperties DEF First, ServingBlocks, FittingNodes, TypeInv, TypeOK
<1>7. hs \in HeaderType
  BY HeaderTypes DEF TypeInv, TypeOK
<1>8. CASE Answer(r, k, i, hs)
  <2> DEFINE b    == HeapAllocateSizeInBlock(blocks[k], i, r.size, r.align)
             addr == AllocatedAddress(blocks[k], i, r.size, r.align)
  <2>1. blocks' \in Seq(BlockType)
    <3>1. b \in BlockType
      BY <1>5, <1>6, AllocateTypes DEF Sized
    <3>2. blocks' = [blocks EXCEPT ![k] = b]
      BY <1>8 DEF Answer
    <3> HIDE DEF b
    <3> QED BY <1>6, <3>1, <3>2, ExceptSeq DEF TypeInv, TypeOK
  <2>2. addr \in Nat
    <3>1. blocks[k].nodes[i] \in NodeType
      BY <1>6, ElementOfSeq, LenProperties DEF BlockType
    <3>2. Padding(blocks[k].nodes[i], r.align) \in Nat
      BY <3>1, <1>5, PaddingType, HeapSizes DEF Sized
    <3> QED BY <3>1, <3>2 DEF AllocatedAddress, NodeType
  <2>3. DOMAIN mapped' \subseteq Nat /\ \A p \in DOMAIN mapped' : mapped'[p] \in Nat
    <3>1. r.size \in Nat /\ r.size > 0 /\ r.mask \in Nat
      BY <1>5, HeapSizes DEF PendingType, Sized
    <3>2. addr \div PAGE_SIZE \in Nat
      BY <2>2, HeapSizes
    <3>3. CommittedPages(addr, r.size) \subseteq Nat
      <4> HIDE DEF addr
      <4> QED BY <3>2 DEF CommittedPages
    <3>4. mapped' = [p \in DOMAIN mapped \cup CommittedPages(addr, r.size) |->
                        IF p \in DOMAIN mapped THEN mapped[p] ELSE r.mask]
      BY <1>8 DEF Answer, HeapCommitPages
    <3> QED BY <3>1, <3>3, <3>4 DEF TypeInv, TypeOK
  <2>4. held' \in [Holders -> HeldType \cup {None}]
    <3>1. r.holder \in Holders /\ r.asked \in Requests
      BY <1>5 DEF PendingType
    <3>2. r.asked.size \in Nat /\ r.asked.page \in BOOLEAN /\ r.asked.mask \in Nat
      BY <3>1, HeapRequests, HeapSizes
    <3>3. [ptr |-> addr, size |-> r.asked.size, page |-> r.asked.page, mask |-> r.asked.mask] \in HeldType
      BY <2>2, <3>2 DEF HeldType
    <3>4. held' = [held EXCEPT ![r.holder] =
            [ptr |-> addr, size |-> r.asked.size, page |-> r.asked.page, mask |-> r.asked.mask]]
      BY <1>8 DEF Answer
    <3> HIDE DEF addr
    <3> QED BY <3>1, <3>3, <3>4 DEF TypeInv, TypeOK
  <2> QED BY <1>7, <1>8, <2>1, <2>3, <2>4 DEF TypeInv, TypeOK, Answer
<1> QED
  BY <1>4, <1>8, TypeCrash

(* Adding a block of the size the request's kind calls for. *)
LEMMA TypeExpand == ASSUME TypeInv, Expand PROVE TypeInv'
<1>1. PICK r \in {Adjusted(pending)}, hs \in {TakeBlockAndNode(headers)} :
        (hs.ok /\ HeapExpand(r, hs)) \/ (~hs.ok /\ Crash)
  BY DEF Expand
<1>2. r \in PendingType /\ Sized(r)
  BY AdjustedTypes DEF TypeInv, TypeOK, Expand
<1>3. hs \in HeaderType
  BY HeaderTypes DEF TypeInv, TypeOK
<1>4. CASE HeapExpand(r, hs)
  <2>1. KindOf(r) \in Kinds
    BY DEF KindOf, Kinds
  <2>2. ExpansionSize(r) \in 1..SIZE_MOD-1
    BY <1>2, <2>1, HeapSizes DEF ExpansionSize, Kinds, Sized
  <2>3. NewBlock(memStartData, ExpansionSize(r), r.mask, KindOf(r)) \in BlockType
    BY <1>2, <2>1, <2>2, NewBlockType DEF PendingType, TypeInv, TypeOK
  <2>4. blocks' \in Seq(BlockType)
    BY <1>4, <2>3 DEF HeapExpand, TypeInv, TypeOK
  <2>5. memStartData' \in Nat
    BY <1>4, <2>2, HeapSizes, SMTT(30) DEF HeapExpand, TypeInv, TypeOK
  <2>6. pending' \in PendingType /\ Sized(pending')
    <3>1. pending' = [r EXCEPT !.expansions = r.expansions + 1]
      BY <1>4 DEF HeapExpand
    <3>2. r.expansions + 1 \in Nat
      BY <1>2 DEF PendingType
    <3>3. pending'.size = r.size /\ pending'.align = r.align
      BY <1>2, <3>1 DEF PendingType
    <3> QED BY <1>2, <3>1, <3>2, <3>3 DEF PendingType, Sized
  <2> QED BY <1>3, <1>4, <2>4, <2>5, <2>6 DEF HeapExpand, TypeInv, TypeOK
<1> QED
  BY <1>1, <1>4, TypeCrash

(* kfree changes one block, or none. *)
LEMMA TypeKfree == ASSUME TypeInv, NEW h \in Holders, kfree(h) PROVE TypeInv'
<1>1. CASE LocatedBlocks(held[h].ptr) = {} /\ Crash
  BY <1>1, TypeCrash
<1>2. CASE \E k \in First(LocatedBlocks(held[h].ptr)) : HeapFree(held[h].ptr, k)
           /\ held' = [held EXCEPT ![h] = None]
           /\ UNCHANGED <<memStartData, mapped, pending, fault>>
  <2>1. PICK k \in First(LocatedBlocks(held[h].ptr)) : HeapFree(held[h].ptr, k)
    BY <1>2
  <2>2. k \in 1..Len(blocks) /\ blocks[k] \in BlockType
    BY ElementOfSeq, LenProperties DEF First, LocatedBlocks, TypeInv, TypeOK
  <2>3. blocks' \in Seq(BlockType) /\ headers' \in HeaderType
    <3>1. CASE UNCHANGED <<blocks, headers>>
      BY <3>1 DEF TypeInv, TypeOK
    <3>2. CASE \E i \in First(MatchingNodes(blocks[k], held[h].ptr)) :
                 /\ blocks' = [blocks EXCEPT ![k] = HeapFreeAddressInNode(blocks[k], i)]
                 /\ headers' = IF MergesBack(blocks[k], i) \/ MergesOn(blocks[k], i)
                               THEN [headers EXCEPT !.recycled = @ + 1] ELSE headers
      <4>1. PICK i \in First(MatchingNodes(blocks[k], held[h].ptr)) :
                 /\ blocks' = [blocks EXCEPT ![k] = HeapFreeAddressInNode(blocks[k], i)]
                 /\ headers' = IF MergesBack(blocks[k], i) \/ MergesOn(blocks[k], i)
                               THEN [headers EXCEPT !.recycled = @ + 1] ELSE headers
        BY <3>2
      <4>2. i \in DOMAIN blocks[k].nodes
        BY DEF First, MatchingNodes
      <4>3. HeapFreeAddressInNode(blocks[k], i) \in BlockType
        BY <2>2, <4>2, FreeTypes
      <4>4. blocks' \in Seq(BlockType)
        BY <2>2, <4>1, <4>3, ExceptSeq DEF TypeInv, TypeOK
      <4>5. headers' \in HeaderType
        BY <4>1 DEF TypeInv, TypeOK, HeaderType
      <4> QED BY <4>4, <4>5
    <3> QED BY <2>1, <3>1, <3>2 DEF HeapFree
  <2>4. held' \in [Holders -> HeldType \cup {None}]
    BY <1>2 DEF TypeInv, TypeOK
  <2> QED BY <1>2, <2>3, <2>4 DEF TypeInv, TypeOK
<1> QED
  BY <1>1, <1>2 DEF kfree

(* No step of the heap leaves the types. *)
LEMMA TypeNext == TypeInv /\ [Next]_vars => TypeInv'
<1> SUFFICES ASSUME TypeInv, [Next]_vars PROVE TypeInv'
  OBVIOUS
<1>1. ASSUME NEW h \in Holders, NEW c \in Requests, Call(h, c) PROVE TypeInv'
  BY <1>1, TypeCall
<1>2. ASSUME NEW h \in Holders, kfree(h) PROVE TypeInv'
  BY <1>2, TypeKfree
<1>3. CASE Serve
  BY <1>3, TypeServe
<1>4. CASE Expand
  BY <1>4, TypeExpand
<1>5. CASE UNCHANGED vars
  BY <1>5 DEF vars, TypeInv, TypeOK, Sized
<1> QED
  BY <1>1, <1>2, <1>3, <1>4, <1>5 DEF Next

(* The heap's data stays well typed: in particular no length and no          *)
(* BytesFree leaves the range of a size_t, and headers, blocks and requests  *)
(* keep their shape, for every sequence of calls of the clients.             *)
THEOREM HeapTypes == Spec => []TypeOK
<1>1. TypeInv => TypeOK
  BY DEF TypeInv
<1> QED
  BY <1>1, TypeInit, TypeNext, PTL DEF Spec

---------------------------------------------------------------------------
(* Inside a block                                                          *)

(* When the end of a node is aligned and its start is not, room for the      *)
(* rounded size is room for the size and the padding.                        *)
LEMMA RoomForPadding ==
    ASSUME NEW a \in Nat \ {0}, NEW v \in Nat, NEW l \in Nat, NEW s \in Nat,
           v % a # 0, (v + l) % a = 0, l >= AlignUp(s, a)
    PROVE  s + (a - (v % a)) <= l
<1> DEFINE q == v \div a
           p == (v + l) \div a
           u == AlignUp(s, a)
           m == u \div a
           d == v % a
<1>1. v = a * q + d /\ d \in 1..a-1 /\ q \in Nat
  OBVIOUS
<1>2. v + l = a * p /\ p \in Nat
  <2>1. v + l = a * p + ((v + l) % a) /\ p \in Nat
    OBVIOUS
  <2> QED BY <2>1
<1>3. u = a * m /\ m \in Nat /\ u >= s
  <2>1. u \in Nat /\ u >= s /\ u % a = 0
    BY AlignUpFacts
  <2> HIDE DEF u
  <2>2. u = a * m + (u % a) /\ m \in Nat
    BY <2>1
  <2> QED BY <2>1, <2>2
<1>4. u <= l
  OBVIOUS
<1> HIDE DEF q, p, u, m, d
<1>5. l = a * p - (a * q + d)
  BY <1>1, <1>2
<1>6. a * p - a * q - d >= a * m
  BY <1>1, <1>2, <1>3, <1>4, <1>5
<1>7. a * p - a * q = a * (p - q)
  BY <1>1, <1>2
<1>8. p - q > m
  BY <1>1, <1>2, <1>3, <1>6, <1>7
<1>9. a * (p - q) >= a * (m + 1)
  BY <1>1, <1>2, <1>3, <1>8
<1>10. a * (m + 1) = a * m + a
  BY <1>3
<1>11. l >= s + (a - d)
  BY <1>1, <1>2, <1>3, <1>5, <1>7, <1>9, <1>10
<1> QED
  BY <1>11 DEF d

(* Every node lies between the first and the last byte of its block. *)
LEMMA NodeBounds ==
    ASSUME NEW b \in BlockType, Tiles(b), Ordered(b), NEW i \in DOMAIN b.nodes
    PROVE  b.start <= b.nodes[i].addr /\ b.nodes[i].addr + b.nodes[i].len <= b.end + 1
<1> DEFINE L == Len(b.nodes)
<1>1. L \in Nat /\ i \in 1..L /\ b.nodes \in Seq(NodeType) /\ DOMAIN b.nodes = 1..L
  BY LenProperties DEF BlockType
<1>2. \A j \in 1..L : b.nodes[j].addr \in Nat /\ b.nodes[j].len \in Nat
  <2>1. \A j \in 1..L : b.nodes[j] \in NodeType
    BY <1>1, ElementOfSeq
  <2> QED BY <2>1, HeapSizes DEF NodeType
<1>3. 1 \in 1..L /\ L \in 1..L
  BY <1>1
<1>4. b.start \in Nat /\ b.end \in Nat
  BY DEF BlockType
<1>5. b.nodes[1].addr = b.start /\ b.nodes[L].addr + b.nodes[L].len = b.end + 1
  BY DEF Tiles
<1>6. \A j, k \in 1..L : j < k => b.nodes[j].addr + b.nodes[j].len <= b.nodes[k].addr
  BY <1>1 DEF Ordered
<1> HIDE DEF L
<1>7. b.start <= b.nodes[i].addr
  <2>1. CASE i = 1
    BY <2>1, <1>2, <1>3, <1>5
  <2>2. CASE 1 < i
    BY <2>2, <1>1, <1>2, <1>3, <1>4, <1>5, <1>6, SMTT(30)
  <2> QED BY <1>1, <2>1, <2>2
<1>8. b.nodes[i].addr + b.nodes[i].len <= b.end + 1
  <2>1. CASE i = L
    BY <2>1, <1>2, <1>3, <1>4, <1>5
  <2>2. CASE i < L
    <3>1. b.nodes[i].addr + b.nodes[i].len <= b.nodes[L].addr
      BY <2>2, <1>1, <1>3, <1>6
    <3>2. b.nodes[i].addr \in Nat /\ b.nodes[i].len \in Nat
          /\ b.nodes[L].addr \in Nat /\ b.nodes[L].len \in Nat
      BY <1>1, <1>2, <1>3
    <3> QED BY <3>1, <3>2, <1>4, <1>5
  <2> QED BY <1>1, <2>1, <2>2
<1> QED
  BY <1>7, <1>8

(* What an allocation does to a block, seen from outside: only the last node *)
(* changes; it becomes allocated, up to where a new last node may start, and *)
(* the address returned lies in it with room for the size asked.             *)
AllocEffect(b, c, i, addr, size) ==
    LET n == b.nodes[i]
        m == c.nodes[i]
    IN  /\ c.start = b.start /\ c.end = b.end
        /\ i = Len(b.nodes) /\ Len(c.nodes) = IF Splits(b, i, size) THEN i+1 ELSE i
        /\ \A j \in 1..i-1 : c.nodes[j] = b.nodes[j]
        /\ ~n.alloc /\ m.alloc /\ m.addr = n.addr
        /\ addr >= m.addr /\ addr + size <= m.addr + m.len
        /\ Len(c.nodes) = i => m.len = n.len
        /\ Len(c.nodes) = i+1 =>
              /\ ~c.nodes[i+1].alloc
              /\ c.nodes[i+1].addr = m.addr + m.len
              /\ c.nodes[i+1].addr + c.nodes[i+1].len = n.addr + n.len

LEMMA AllocateFacts ==
    ASSUME NEW b \in BlockType, BlockOK(b), NEW size \in 1..SIZE_MOD-1,
           NEW align \in {0, HEAP_STANDARD_ALIGN}, NEW i \in FittingNodes(b, size, align)
    PROVE  AllocEffect(b, HeapAllocateSizeInBlock(b, i, size, align), i,
                       AllocatedAddress(b, i, size, align), size)
<1> DEFINE n == b.nodes[i]
           L == Len(b.nodes)
<1>1. L \in Nat /\ i \in 1..L /\ b.nodes \in Seq(NodeType) /\ DOMAIN b.nodes = 1..L
      /\ b.start \in Nat /\ b.end \in Nat /\ b.bytesFree \in 0..SIZE_MOD-1
  BY LenProperties DEF BlockType, FittingNodes
<1>2. n \in NodeType
  BY <1>1, ElementOfSeq
<1>3. n.addr \in Nat /\ n.len \in 0..SIZE_MOD-1 /\ n.len \in Nat /\ SIZE_MOD \in Nat /\ size \in Nat
  BY <1>2, HeapSizes DEF NodeType
<1>4. NodeFits(b, n, size, align)
  BY DEF FittingNodes
<1>5. ~n.alloc /\ n.len >= size
  BY <1>4 DEF NodeFits
<1>6. i = L
  BY <1>1, <1>5 DEF BlockOK, TailFree
<1>7. CASE ~Splits(b, i, size)
  <2> DEFINE c == TakeWhole(b, i, size)
  <2>1. c.nodes = [b.nodes EXCEPT ![i] = [n EXCEPT !.alloc = TRUE]]
    BY DEF TakeWhole, BlockType
  <2>2. c.start = b.start /\ c.end = b.end
    BY DEF TakeWhole, BlockType
  <2>3. [n EXCEPT !.alloc = TRUE] \in NodeType
    BY <1>2 DEF NodeType
  <2>4. Len(c.nodes) = L /\ \A j \in 1..L : c.nodes[j] = IF j = i THEN [n EXCEPT !.alloc = TRUE] ELSE b.nodes[j]
    <3> HIDE DEF c, n
    <3> QED BY <1>1, <2>1, <2>3, ExceptSeq
  <2>5. c.nodes[i] = [n EXCEPT !.alloc = TRUE] /\ \A j \in 1..i-1 : c.nodes[j] = b.nodes[j]
    <3> HIDE DEF c, n, L
    <3>1. \A j \in 1..i-1 : j \in 1..L /\ j # i
      BY <1>1
    <3> QED BY <1>1, <2>4, <3>1
  <2>6. c.nodes[i].alloc /\ c.nodes[i].addr = n.addr /\ c.nodes[i].len = n.len
    <3> HIDE DEF c
    <3> QED BY <1>2, <2>5 DEF NodeType
  <2>7. AllocatedAddress(b, i, size, align) = n.addr
    BY <1>7 DEF AllocatedAddress
  <2>8. HeapAllocateSizeInBlock(b, i, size, align) = c
    BY <1>7 DEF HeapAllocateSizeInBlock
  <2> HIDE DEF c
  <2>9. i = Len(b.nodes) /\ Len(c.nodes) = i /\ i + 1 # i
        /\ n.addr >= n.addr /\ n.addr + size <= n.addr + n.len
    BY <1>1, <1>3, <1>5, <1>6, <2>4
  <2> HIDE DEF n
  <2>10. AllocEffect(b, c, i, n.addr, size)
    BY <1>5, <1>7, <2>2, <2>5, <2>6, <2>9 DEF AllocEffect, n
  <2> QED BY <2>7, <2>8, <2>10
<1>8. CASE Splits(b, i, size)
  <2> DEFINE pad  == Padding(n, align)
             used == SizeAdd(size, pad)
             new  == [addr |-> n.addr, len |-> used, alloc |-> TRUE]
             rest == [n EXCEPT !.addr = n.addr + used, !.len = SizeSub(@, used)]
             one  == ReplaceAt(b.nodes, i, rest)
             two  == InsertAt(one, i, new)
             c    == TakeFront(b, i, size, align)
  <2>1. pad \in Nat /\ size + pad <= n.len
    <3>1. CASE ~NeedsPadding(n, align)
      BY <3>1, <1>3, <1>5 DEF Padding
    <3>2. CASE NeedsPadding(n, align)
      <4>1. align = HEAP_STANDARD_ALIGN /\ align \in Nat \ {0}
        BY <3>2, HeapSizes DEF NeedsPadding
      <4>2. n.addr % align # 0 /\ n.addr % align \in 0..align-1
        BY <3>2, <1>3, <4>1 DEF NeedsPadding, IsAligned
      <4>3. n.addr + n.len = b.end + 1
        BY <1>1, <1>6 DEF BlockOK, Tiles
      <4>4. (n.addr + n.len) % align = 0
        BY <4>1, <4>3 DEF BlockOK, IsAligned
      <4>5. n.len >= AlignUp(size, align)
        BY <3>2, <1>4, <1>8 DEF NodeFits, Splits
      <4>6. size + (align - (n.addr % align)) <= n.len
        BY <1>3, <4>1, <4>2, <4>4, <4>5, RoomForPadding
      <4>7. pad = align - (n.addr % align)
        BY <3>2 DEF Padding
      <4> HIDE DEF pad, n
      <4> QED BY <4>1, <4>2, <4>6, <4>7
    <3> QED BY <3>1, <3>2
  <2>2. used = size + pad /\ used \in Nat /\ used <= n.len /\ used \in 0..SIZE_MOD-1
    <3> HIDE DEF pad, n
    <3> QED BY <2>1, <1>3 DEF SizeAdd
  <2> HIDE DEF used
  <2>3. rest = [n EXCEPT !.addr = n.addr + used, !.len = n.len - used]
    BY <1>2, <1>3, <2>2 DEF SizeSub, NodeType
  <2>4. /\ rest.addr = n.addr + used /\ rest.len = n.len - used /\ rest.alloc = n.alloc
        /\ new.addr = n.addr /\ new.len = used /\ new.alloc
    BY <1>2, <2>3 DEF NodeType
  <2>5. rest \in NodeType /\ new \in NodeType
    <3>1. n.len - used \in 0..SIZE_MOD-1 /\ n.addr + used \in Nat
      BY <1>3, <2>2
    <3> QED BY <1>2, <1>3, <2>2, <2>3, <3>1 DEF NodeType
  <2> HIDE DEF new, rest
  <2>6. one \in Seq(NodeType) /\ Len(one) = L
        /\ \A j \in 1..L : one[j] = IF j = i THEN rest ELSE b.nodes[j]
    BY <1>1, <2>5, ExceptSeq DEF ReplaceAt
  <2> HIDE DEF one
  <2>7. Len(two) = L+1 /\ \A j \in 1..L+1 : two[j] = IF j < i THEN one[j] ELSE IF j = i THEN new ELSE one[j-1]
    <3>1. one \in Seq(NodeType) /\ i \in 1..Len(one) /\ new \in NodeType
      BY <1>1, <2>5, <2>6
    <3>2. /\ Len(two) = Len(one) + 1
          /\ \A j \in 1..Len(one)+1 :
                two[j] = IF j < i THEN one[j] ELSE IF j = i THEN new ELSE one[j-1]
      <4> HIDE DEF L, pad, n
      <4> QED BY ONLY <3>1, InsertAtFacts DEF two
    <3> HIDE DEF two
    <3> QED BY <2>6, <3>2
  <2>8. c.nodes = two /\ c.start = b.start /\ c.end = b.end
    BY DEF TakeFront, BlockType, one, new, rest, used
  <2> HIDE DEF two, L
  <2>9. two[i] = new /\ two[i+1] = rest /\ \A j \in 1..i-1 : two[j] = b.nodes[j]
    <3>1. i \in 1..L+1 /\ i+1 \in 1..L+1 /\ ~(i < i) /\ ~(i+1 < i) /\ i+1 # i /\ (i+1)-1 = i
      BY <1>1, <1>6
    <3>2. two[i] = new /\ two[i+1] = one[i] /\ one[i] = rest
      BY <1>1, <2>6, <2>7, <3>1
    <3>3. ASSUME NEW j \in 1..i-1 PROVE two[j] = b.nodes[j]
      <4>1. j \in 1..L+1 /\ j \in 1..L /\ j < i /\ j # i
        BY <1>1
      <4> QED BY <2>6, <2>7, <4>1
    <3> QED BY <3>2, <3>3
  <2>10. AllocatedAddress(b, i, size, align) = n.addr + pad
    BY <1>8 DEF AllocatedAddress
  <2>11. HeapAllocateSizeInBlock(b, i, size, align) = c
    BY <1>8 DEF HeapAllocateSizeInBlock
  <2> HIDE DEF c, pad
  <2>12. n.addr + pad >= n.addr /\ (n.addr + pad) + size <= n.addr + used
         /\ (n.addr + used) + (n.len - used) = n.addr + n.len
    BY <1>3, <2>1, <2>2
  <2>13. i = Len(b.nodes) /\ Len(two) = i+1 /\ i+1 # i
    BY <1>1, <1>6, <2>7 DEF L
  <2> HIDE DEF n
  <2>14. AllocEffect(b, c, i, n.addr + pad, size)
    BY <1>5, <1>8, <2>4, <2>8, <2>9, <2>12, <2>13 DEF AllocEffect, n
  <2> QED BY <2>10, <2>11, <2>14
<1> QED
  BY <1>7, <1>8

(* Positions and field types of a block's nodes. *)
LEMMA NodeTypes ==
    ASSUME NEW b \in BlockType
    PROVE  /\ Len(b.nodes) \in Nat /\ DOMAIN b.nodes = 1..Len(b.nodes)
           /\ b.start \in Nat /\ b.end \in Nat
           /\ \A j \in 1..Len(b.nodes) : /\ b.nodes[j] \in NodeType
                                         /\ b.nodes[j].addr \in Nat /\ b.nodes[j].len \in Nat
                                         /\ b.nodes[j].len \in 0..SIZE_MOD-1
                                         /\ b.nodes[j].alloc \in BOOLEAN
<1>1. Len(b.nodes) \in Nat /\ DOMAIN b.nodes = 1..Len(b.nodes) /\ b.nodes \in Seq(NodeType)
      /\ b.start \in Nat /\ b.end \in Nat
  BY LenProperties DEF BlockType
<1>2. \A j \in 1..Len(b.nodes) : b.nodes[j] \in NodeType
  BY <1>1, ElementOfSeq
<1>3. \A n \in NodeType : n.addr \in Nat /\ n.len \in Nat /\ n.len \in 0..SIZE_MOD-1 /\ n.alloc \in BOOLEAN
  BY HeapSizes DEF NodeType
<1> QED
  BY <1>1, <1>2, <1>3

(* An allocation keeps the structure of its block. *)
LEMMA AllocKeepsBlock ==
    ASSUME NEW b \in BlockType, NEW c \in BlockType, BlockOK(b), NEW i \in DOMAIN b.nodes,
           NEW addr, NEW size, AllocEffect(b, c, i, addr, size)
    PROVE  BlockOK(c)
<1> DEFINE x(j) == b.nodes[j]
           y(j) == c.nodes[j]
           L == Len(b.nodes)
           M == Len(c.nodes)
<1>1. /\ i = L /\ i \in Nat \ {0} /\ M \in {i, i+1}
      /\ \A j \in 1..i-1 : y(j) = x(j)
      /\ y(i).alloc /\ y(i).addr = x(i).addr
      /\ M = i => y(i).len = x(i).len
      /\ M = i+1 => /\ y(i+1).addr = y(i).addr + y(i).len
                    /\ y(i+1).addr + y(i+1).len = x(i).addr + x(i).len
  BY NodeTypes DEF AllocEffect
<1>2. c.start = b.start /\ c.end = b.end
  BY DEF AllocEffect
<1>3. /\ \A j \in 1..i : x(j).addr \in Nat /\ x(j).len \in Nat
      /\ \A j \in 1..M : y(j).addr \in Nat /\ y(j).len \in Nat
      /\ b.start \in Nat /\ b.end \in Nat
  BY <1>1, NodeTypes
<1>4. /\ x(1).addr = b.start /\ x(i).addr + x(i).len = b.end + 1
      /\ \A j \in 1..i-1 : x(j+1).addr = x(j).addr + x(j).len
      /\ \A j \in 1..i-1 : x(j).alloc
      /\ \A j, k \in 1..i : j < k => x(j).addr + x(j).len <= x(k).addr
  <2>1. DOMAIN b.nodes = 1..i /\ Len(b.nodes) = i /\ i \in 1..i
    BY <1>1, NodeTypes
  <2>2. Tiles(b) /\ TailFree(b) /\ Ordered(b)
    BY DEF BlockOK
  <2>3. x(1).addr = b.start /\ x(i).addr + x(i).len = b.end + 1
    BY <2>1, <2>2, Zenon DEF Tiles
  <2>4. \A j \in 1..i-1 : x(j+1).addr = x(j).addr + x(j).len
    BY <2>1, <2>2, Zenon DEF Tiles
  <2>5. \A j \in 1..i-1 : x(j).alloc
    BY <2>1, <2>2, Zenon DEF TailFree
  <2>6. \A j, k \in 1..i : j < k => x(j).addr + x(j).len <= x(k).addr
    BY <2>1, <2>2, Zenon DEF Ordered
  <2> QED BY <2>3, <2>4, <2>5, <2>6
<1>5. DOMAIN c.nodes = 1..M
  BY NodeTypes
<1>6. c.nodes # <<>>
  BY <1>1
<1> HIDE DEF x, y, L, M
<1>7. y(1).addr = b.start
  <2>1. CASE i = 1
    BY <2>1, <1>1, <1>4
  <2>2. CASE i # 1
    BY <2>2, <1>1, <1>4
  <2> QED BY <2>1, <2>2
<1>8. y(M).addr + y(M).len = b.end + 1
  BY <1>1, <1>4
<1>9. ASSUME NEW j \in 1..M-1
      PROVE  y(j+1).addr = y(j).addr + y(j).len /\ y(j).alloc
  <2>1. CASE j + 1 < i
    BY <2>1, <1>1, <1>4
  <2>2. CASE j + 1 = i
    <3>1. y(j+1).addr = x(j+1).addr /\ j \in 1..i-1
      BY <2>2, <1>1
    <3> QED BY <3>1, <1>1, <1>4
  <2>3. CASE j = i
    BY <2>3, <1>1
  <2>4. j + 1 < i \/ j + 1 = i \/ j = i
    BY <1>1
  <2> QED BY <2>1, <2>2, <2>3, <2>4
<1>10. ASSUME NEW j \in 1..M, NEW k \in 1..M, j < k
       PROVE  y(j).addr + y(j).len <= y(k).addr
  <2>1. CASE k < i
    BY <2>1, <1>1, <1>4, <1>10
  <2>2. CASE k = i
    <3>1. j \in 1..i-1 /\ j \in 1..i /\ i \in 1..i
      BY <2>2, <1>1, <1>10
    <3> QED BY <2>2, <3>1, <1>1, <1>4
  <2>3. CASE k = i + 1 /\ j = i
    BY <2>3, <1>1, <1>3
  <2>4. CASE k = i + 1 /\ j < i
    <3>1. j \in 1..i-1 /\ j \in 1..i /\ i \in 1..i /\ i \in 1..M
      BY <2>4, <1>1
    <3>2. y(j).addr + y(j).len <= y(i).addr
      BY <2>4, <3>1, <1>1, <1>4
    <3>3. y(k).addr = y(i).addr + y(i).len
      BY <2>4, <1>1
    <3> QED BY <3>1, <3>2, <3>3, <1>3
  <2>5. k < i \/ k = i \/ (k = i + 1 /\ j = i) \/ (k = i + 1 /\ j < i)
    BY <1>1, <1>10
  <2> QED BY <2>1, <2>2, <2>3, <2>4, <2>5
<1>11. Tiles(c)
  BY <1>2, <1>6, <1>7, <1>8, <1>9 DEF Tiles, y, M
<1>12. TailFree(c)
  BY <1>9 DEF TailFree, y, M
<1>13. Ordered(c)
  BY <1>5, <1>10 DEF Ordered, y, M
<1> QED
  BY <1>2, <1>11, <1>12, <1>13 DEF BlockOK

(* What freeing an allocated node does to its block: the node goes to its    *)
(* successor, or stays as the free last node.                                *)
FreeEffect(b, c, i) ==
    LET L == Len(b.nodes) IN
    /\ c.start = b.start /\ c.end = b.end /\ ~MergesBack(b, i)
    /\ c.bytesFree = SizeAdd(b.bytesFree, b.nodes[i].len)
    /\ \A j \in 1..i-1 : c.nodes[j] = b.nodes[j]
    /\ c.nodes[i].addr = b.nodes[i].addr
    /\ i < L =>
         /\ Len(c.nodes) = L - 1
         /\ c.nodes[i].len = b.nodes[i].len + b.nodes[i+1].len
         /\ c.nodes[i].alloc = b.nodes[i+1].alloc
         /\ \A j \in i+1..L-1 : c.nodes[j] = b.nodes[j+1]
    /\ i = L =>
         /\ Len(c.nodes) = L /\ c.nodes[i].len = b.nodes[i].len /\ ~c.nodes[i].alloc

LEMMA FreeFacts ==
    ASSUME NEW b \in BlockType, BlockOK(b), NEW i \in DOMAIN b.nodes
    PROVE  FreeEffect(b, HeapFreeAddressInNode(b, i), i)
<1> DEFINE n == b.nodes[i]
           L == Len(b.nodes)
           c == HeapFreeAddressInNode(b, i)
<1>1. /\ L \in Nat /\ i \in 1..L /\ b.nodes \in Seq(NodeType)
      /\ b.start \in Nat /\ b.end \in Nat
      /\ \A j \in 1..L : b.nodes[j] \in NodeType /\ b.nodes[j].addr \in Nat
                         /\ b.nodes[j].len \in Nat /\ b.nodes[j].alloc \in BOOLEAN
  BY NodeTypes DEF BlockType
<1>2. ~MergesBack(b, i)
  <2>1. i > 1 => b.nodes[i-1].alloc
    BY <1>1 DEF BlockOK, TailFree
  <2> QED BY <2>1 DEF MergesBack
<1>3. /\ c.nodes = FreedNodes(b, i) /\ c.start = b.start /\ c.end = b.end
      /\ c.bytesFree = SizeAdd(b.bytesFree, b.nodes[i].len)
  BY DEF HeapFreeAddressInNode, BlockType
<1>4. CASE i < L
  <2> DEFINE p == [b.nodes[i+1] EXCEPT !.addr = n.addr, !.len = SizeAdd(@, n.len)]
             q == [b.nodes EXCEPT ![i+1] = p]
  <2>1. MergesOn(b, i) /\ i+1 \in 1..L
    BY <1>1, <1>2, <1>4 DEF MergesOn
  <2>2. c.nodes = RemoveAt(q, i)
    BY <1>2, <1>3, <2>1 DEF FreedNodes, MergesOn
  <2>3. SizeAdd(b.nodes[i+1].len, n.len) = n.len + b.nodes[i+1].len
    <3>0. i \in 1..Len(b.nodes)-1
      BY <1>1, <1>4
    <3>1. b.nodes[i+1].addr = n.addr + n.len
      BY <3>0 DEF BlockOK, Tiles
    <3>2. b.start <= n.addr
      BY NodeBounds DEF BlockOK
    <3>3. b.nodes[i+1].addr + b.nodes[i+1].len <= b.end + 1
      BY <2>1, NodeBounds, NodeTypes DEF BlockOK
    <3>4. b.end - b.start + 1 < SIZE_MOD
      BY DEF BlockOK
    <3>5. n.len + b.nodes[i+1].len < SIZE_MOD
      <4>1. /\ n.addr \in Nat /\ n.len \in Nat /\ b.nodes[i+1].addr \in Nat
            /\ b.nodes[i+1].len \in Nat /\ SIZE_MOD \in Nat
            /\ b.start \in Nat /\ b.end \in Nat
        BY <1>1, <2>1, HeapSizes
      <4>2. ASSUME NEW s \in Nat, NEW e \in Nat, NEW x \in Nat, NEW l \in Nat,
                   NEW y \in Nat, NEW m \in Nat, NEW z \in Nat,
                   y = x + l, s <= x, y + m <= e + 1, e - s + 1 < z
            PROVE  l + m < z
        BY <4>2
      <4> HIDE DEF n
      <4> QED BY <3>1, <3>2, <3>3, <3>4, <4>1, <4>2
    <3> QED BY <1>1, <2>1, <3>5, HeapSizes DEF SizeAdd
  <2>4. p = [b.nodes[i+1] EXCEPT !.addr = n.addr, !.len = n.len + b.nodes[i+1].len]
    BY <1>1, <2>1, <2>3 DEF NodeType
  <2>5. p.addr = n.addr /\ p.len = n.len + b.nodes[i+1].len /\ p.alloc = b.nodes[i+1].alloc
    BY <1>1, <2>1, <2>4 DEF NodeType
  <2>6. p \in NodeType
    <3>1. SizeAdd(b.nodes[i+1].len, n.len) \in 0..SIZE_MOD-1
      BY <1>1, <2>1, SizeFacts DEF NodeType
    <3>2. n.len + b.nodes[i+1].len \in 0..SIZE_MOD-1
      BY <2>3, <3>1
    <3> QED BY <1>1, <2>1, <2>4, <3>2 DEF NodeType
  <2> HIDE DEF p
  <2>7. q \in Seq(NodeType) /\ Len(q) = L /\ \A j \in 1..L : q[j] = IF j = i+1 THEN p ELSE b.nodes[j]
    BY <1>1, <2>1, <2>6, ExceptSeq
  <2> HIDE DEF q, L
  <2>8. Len(c.nodes) = L-1 /\ \A j \in 1..L-1 : c.nodes[j] = IF j < i THEN q[j] ELSE q[j+1]
    <3>1. q \in Seq(NodeType) /\ Len(q) = L /\ i \in 1..Len(q)
      BY <1>1, <2>7
    <3>2. /\ Len(RemoveAt(q, i)) = Len(q) - 1
          /\ \A j \in 1..Len(q)-1 : RemoveAt(q, i)[j] = IF j < i THEN q[j] ELSE q[j+1]
      BY ONLY <3>1, RemoveAtFacts, Zenon
    <3> QED BY <2>2, <3>1, <3>2, Zenon
  <2> HIDE DEF c
  <2>9. c.nodes[i] = p
    BY <1>1, <1>4, <2>1, <2>7, <2>8
  <2>10. ASSUME NEW j \in 1..i-1 PROVE c.nodes[j] = b.nodes[j]
    <3>1. j \in 1..L-1 /\ j \in 1..L /\ j < i /\ j # i+1
      BY <1>1, <1>4
    <3> QED BY <2>7, <2>8, <3>1
  <2>11. ASSUME NEW j \in i+1..L-1 PROVE c.nodes[j] = b.nodes[j+1]
    <3>1. j \in 1..L-1 /\ j+1 \in 1..L /\ ~(j < i) /\ j+1 # i+1
      BY <1>1
    <3> QED BY <2>7, <2>8, <3>1
  <2>12. L = Len(b.nodes) /\ i # L
    BY <1>1, <1>4 DEF L
  <2> HIDE DEF n
  <2> QED BY <1>2, <1>3, <1>4, <2>5, <2>8, <2>9, <2>10, <2>11, <2>12 DEF FreeEffect, n, c
<1>5. CASE i = L
  <2>1. ~MergesOn(b, i)
    BY <1>1, <1>5 DEF MergesOn
  <2> DEFINE p == [n EXCEPT !.alloc = FALSE]
  <2>2. c.nodes = [b.nodes EXCEPT ![i] = p]
    BY <1>2, <1>3, <2>1 DEF FreedNodes
  <2>3. p \in NodeType /\ p.addr = n.addr /\ p.len = n.len /\ ~p.alloc
    BY <1>1 DEF NodeType
  <2> HIDE DEF p
  <2>4. Len(c.nodes) = L /\ \A j \in 1..L : c.nodes[j] = IF j = i THEN p ELSE b.nodes[j]
    <3> HIDE DEF c
    <3> QED BY <1>1, <2>2, <2>3, ExceptSeq
  <2> HIDE DEF c
  <2>5. c.nodes[i] = p
    BY <1>1, <2>4
  <2>6. ASSUME NEW j \in 1..i-1 PROVE c.nodes[j] = b.nodes[j]
    <3>1. j \in 1..L /\ j # i
      BY <1>1
    <3> QED BY <2>4, <3>1
  <2>7. ~(i < L)
    BY <1>1, <1>5
  <2> HIDE DEF n
  <2> QED BY <1>2, <1>3, <1>5, <2>3, <2>4, <2>5, <2>6, <2>7 DEF FreeEffect, n, c
<1> QED
  BY <1>1, <1>4, <1>5

(* Freeing keeps the structure of the block. *)
LEMMA FreeKeepsBlock ==
    ASSUME NEW b \in BlockType, NEW c \in BlockType, BlockOK(b), NEW i \in DOMAIN b.nodes,
           FreeEffect(b, c, i)
    PROVE  BlockOK(c)
<1> DEFINE x(j) == b.nodes[j]
           y(j) == c.nodes[j]
           L == Len(b.nodes)
           M == Len(c.nodes)
<1>1. /\ L \in Nat /\ M \in Nat /\ i \in 1..L /\ DOMAIN c.nodes = 1..M
      /\ \A j \in 1..L : x(j).addr \in Nat /\ x(j).len \in Nat
      /\ \A j \in 1..M : y(j).addr \in Nat /\ y(j).len \in Nat
      /\ b.start \in Nat /\ b.end \in Nat
  BY NodeTypes
<1>2. c.start = b.start /\ c.end = b.end
  BY DEF FreeEffect
<1>3. /\ \A j \in 1..i-1 : y(j) = x(j)
      /\ y(i).addr = x(i).addr
      /\ i < L => /\ M = L - 1
                  /\ y(i).len = x(i).len + x(i+1).len /\ y(i).alloc = x(i+1).alloc
                  /\ \A j \in i+1..L-1 : y(j) = x(j+1)
      /\ i = L => M = L /\ y(i).len = x(i).len
  BY DEF FreeEffect
<1>4. /\ x(1).addr = b.start /\ x(L).addr + x(L).len = b.end + 1
      /\ \A j \in 1..L-1 : x(j+1).addr = x(j).addr + x(j).len /\ x(j).alloc
      /\ \A j, k \in 1..L : j < k => x(j).addr + x(j).len <= x(k).addr
  BY <1>1, NodeTypes DEF BlockOK, Tiles, TailFree, Ordered
<1>5. c.nodes # <<>>
  BY <1>1, <1>3
<1> HIDE DEF x, y, L, M
<1>6. y(1).addr = b.start
  <2>1. CASE i = 1
    BY <2>1, <1>3, <1>4
  <2>2. CASE 1 \in 1..i-1
    BY <2>2, <1>3, <1>4
  <2>3. i = 1 \/ 1 \in 1..i-1
    BY <1>1
  <2> QED BY <2>1, <2>2, <2>3
<1>7. CASE i = L
  <2>1. y(M).addr + y(M).len = b.end + 1
    BY <1>1, <1>3, <1>4, <1>7
  <2>2. ASSUME NEW j \in 1..M-1
        PROVE  y(j+1).addr = y(j).addr + y(j).len /\ y(j).alloc
    <3>1. j \in 1..i-1 /\ y(j) = x(j) /\ y(j+1).addr = x(j+1).addr
      <4>1. j \in 1..i-1
        BY <1>1, <1>3, <1>7
      <4>2. j+1 \in 1..i-1 \/ j+1 = i
        BY <1>1, <4>1
      <4> QED BY <1>3, <4>1, <4>2
    <3> QED BY <3>1, <1>4, <1>7
  <2>3. ASSUME NEW j \in 1..M, NEW k \in 1..M, j < k
        PROVE  y(j).addr + y(j).len <= y(k).addr
    <3>1. j \in 1..i-1 /\ j \in 1..L /\ k \in 1..L
      BY <1>1, <1>3, <1>7, <2>3
    <3>2. k \in 1..i-1 \/ k = i
      BY <1>1, <1>7, <3>1
    <3>3. y(j) = x(j) /\ y(k).addr = x(k).addr
      BY <1>3, <3>1, <3>2
    <3> QED BY <1>4, <2>3, <3>1, <3>3
  <2> QED
    BY <1>1, <1>2, <1>5, <1>6, <2>1, <2>2, <2>3 DEF BlockOK, Tiles, TailFree, Ordered, y, M
<1>8. CASE i < L
  <2>1. M = L - 1 /\ i \in 1..L-1 /\ i+1 \in 1..L
    BY <1>1, <1>3, <1>8
  <2>2. y(i).addr + y(i).len = x(i+1).addr + x(i+1).len
    <3>1. x(i+1).addr = x(i).addr + x(i).len
      BY <1>4, <2>1
    <3>2. y(i).len = x(i).len + x(i+1).len /\ y(i).addr = x(i).addr
      BY <1>3, <1>8
    <3>3. x(i).addr \in Nat /\ x(i).len \in Nat /\ x(i+1).len \in Nat
      BY <1>1, <2>1
    <3> QED BY <3>1, <3>2, <3>3
  <2>3. ASSUME NEW j \in 1..M
        PROVE  y(j).addr + y(j).len = x(IF j < i THEN j ELSE j+1).addr + x(IF j < i THEN j ELSE j+1).len
    <3>1. CASE j \in 1..i-1
      BY <3>1, <1>1, <1>3
    <3>2. CASE j = i
      BY <3>2, <2>2, <1>1
    <3>3. CASE j \in i+1..L-1
      BY <3>3, <1>1, <1>3, <1>8
    <3>4. j \in 1..i-1 \/ j = i \/ j \in i+1..L-1
      BY <1>1, <2>1
    <3> QED BY <3>1, <3>2, <3>3, <3>4
  <2>4. ASSUME NEW j \in 1..M
        PROVE  y(j).addr = x(IF j <= i THEN j ELSE j+1).addr
    <3>1. CASE j \in 1..i-1
      BY <3>1, <1>1, <1>3
    <3>2. CASE j = i
      BY <3>2, <1>1, <1>3
    <3>3. CASE j \in i+1..L-1
      BY <3>3, <1>1, <1>3, <1>8
    <3>4. j \in 1..i-1 \/ j = i \/ j \in i+1..L-1
      BY <1>1, <2>1
    <3> QED BY <3>1, <3>2, <3>3, <3>4
  <2>5. ASSUME NEW j \in 1..M, NEW k \in 1..M, j < k
        PROVE  y(j).addr + y(j).len <= y(k).addr
    <3> DEFINE e == IF j < i THEN j ELSE j+1
               s == IF k <= i THEN k ELSE k+1
    <3>1. e \in 1..L /\ s \in 1..L /\ e < s
      BY <1>1, <2>1, <2>5
    <3>2. y(j).addr + y(j).len = x(e).addr + x(e).len
      BY <2>3
    <3>3. y(k).addr = x(s).addr
      BY <2>4
    <3> HIDE DEF e, s
    <3> QED BY <1>4, <3>1, <3>2, <3>3
  <2>6. ASSUME NEW j \in 1..M-1
        PROVE  y(j+1).addr = y(j).addr + y(j).len /\ y(j).alloc
    <3> DEFINE e == IF j < i THEN j ELSE j+1
    <3>1. e \in 1..L-1 /\ j \in 1..M /\ j+1 \in 1..M
      BY <1>1, <2>1
    <3>2. y(j).addr + y(j).len = x(e).addr + x(e).len
      BY <2>3, <3>1
    <3>3. (IF j+1 <= i THEN j+1 ELSE (j+1)+1) = e+1
      BY <1>1, <2>1
    <3>4. y(j+1).addr = x(e+1).addr
      BY <2>4, <3>1, <3>3
    <3>5. y(j).alloc = x(e).alloc
      <4>1. CASE j \in 1..i-1
        BY <4>1, <1>1, <1>3
      <4>2. CASE j = i
        BY <4>2, <1>1, <1>3, <1>8
      <4>3. CASE j \in i+1..L-1
        BY <4>3, <1>1, <1>3, <1>8
      <4>4. j \in 1..i-1 \/ j = i \/ j \in i+1..L-1
        BY <1>1, <2>1
      <4> QED BY <4>1, <4>2, <4>3, <4>4
    <3> HIDE DEF e
    <3> QED BY <1>4, <3>1, <3>2, <3>4, <3>5
  <2>7. y(M).addr + y(M).len = b.end + 1
    <3>1. M \in 1..M /\ (IF M < i THEN M ELSE M+1) = L
      BY <1>1, <2>1
    <3> QED BY <2>3, <3>1, <1>4
  <2> QED
    BY <1>1, <1>2, <1>5, <1>6, <2>5, <2>6, <2>7 DEF BlockOK, Tiles, TailFree, Ordered, y, M
<1> QED
  BY <1>1, <1>7, <1>8

---------------------------------------------------------------------------
(* Across blocks                                                           *)

(* The part of HeapInv that speaks of the blocks alone. *)
Structure(bs) ==
    /\ \A k \in DOMAIN bs : BlockOK(bs[k])
    /\ \A k, l \in DOMAIN bs : k < l => bs[k].end < bs[l].start

Covers(n, p, s) == n.addr <= p /\ p + s <= n.addr + n.len

(* A byte lies in one node only. *)
LEMMA OneNode ==
    ASSUME NEW bs \in Seq(BlockType), Structure(bs),
           NEW k \in DOMAIN bs, NEW i \in DOMAIN bs[k].nodes,
           NEW l \in DOMAIN bs, NEW j \in DOMAIN bs[l].nodes,
           NEW p \in Nat, NEW s \in Nat \ {0}, NEW q \in Nat, NEW t \in Nat \ {0},
           Covers(bs[k].nodes[i], p, s), Covers(bs[l].nodes[j], q, t),
           p <= q, q < p + s
    PROVE  k = l /\ i = j
<1>1. bs[k] \in BlockType /\ bs[l] \in BlockType /\ k \in Nat /\ l \in Nat
      /\ DOMAIN bs = 1..Len(bs)
  BY LenProperties, ElementOfSeq
<1>2. /\ DOMAIN bs[k].nodes = 1..Len(bs[k].nodes) /\ DOMAIN bs[l].nodes = 1..Len(bs[l].nodes)
      /\ Len(bs[k].nodes) \in Nat /\ Len(bs[l].nodes) \in Nat
      /\ bs[k].start \in Nat /\ bs[k].end \in Nat /\ bs[l].start \in Nat /\ bs[l].end \in Nat
      /\ bs[k].nodes[i].addr \in Nat /\ bs[k].nodes[i].len \in Nat
      /\ bs[l].nodes[j].addr \in Nat /\ bs[l].nodes[j].len \in Nat
  BY <1>1, NodeTypes
<1>3. /\ bs[k].start <= bs[k].nodes[i].addr
      /\ bs[k].nodes[i].addr + bs[k].nodes[i].len <= bs[k].end + 1
      /\ bs[l].start <= bs[l].nodes[j].addr
      /\ bs[l].nodes[j].addr + bs[l].nodes[j].len <= bs[l].end + 1
  BY <1>1, NodeBounds DEF Structure, BlockOK
<1> DEFINE x == bs[k].nodes[i].addr
           m == bs[k].nodes[i].len
           y == bs[l].nodes[j].addr
           n == bs[l].nodes[j].len
<1>4. x <= p /\ p + s <= x + m /\ y <= q /\ q + t <= y + n
  BY DEF Covers
<1>5. x \in Nat /\ m \in Nat /\ y \in Nat /\ n \in Nat
  BY <1>2
<1>6. bs[k].start <= x /\ x + m <= bs[k].end + 1 /\ bs[l].start <= y /\ y + n <= bs[l].end + 1
  BY <1>3
<1>7. k < l => bs[k].end < bs[l].start
  BY DEF Structure
<1>8. l < k => bs[l].end < bs[k].start
  BY DEF Structure
<1>9. k = l => (i < j => x + m <= y) /\ (j < i => y + n <= x)
  BY <1>1 DEF Structure, BlockOK, Ordered
<1> HIDE DEF x, y, m, n
<1>10. x <= q /\ q < x + m /\ y <= q /\ q < y + n
  BY <1>4, <1>5
<1>11. ~(k < l)
  BY <1>2, <1>5, <1>6, <1>7, <1>10
<1>12. ~(l < k)
  BY <1>2, <1>5, <1>6, <1>8, <1>10
<1>13. k = l
  BY <1>1, <1>11, <1>12
<1>14. ~(i < j) /\ ~(j < i)
  BY <1>5, <1>9, <1>10, <1>13
<1> QED
  BY <1>2, <1>13, <1>14

(* A multiple of a multiple is a multiple; so is the sum of two.             *)
LEMMA Multiples ==
    ASSUME NEW a \in Nat \ {0}, NEW u \in Nat, u % a = 0
    PROVE  /\ \A v \in Nat : v % a = 0 => (v + u) % a = 0
           /\ \A v \in Nat : u > 0 /\ v % u = 0 => v % a = 0
<1> DEFINE m == u \div a
<1>1. u = a * m /\ m \in Nat
  <2>1. u = a * m + (u % a) /\ m \in Nat
    OBVIOUS
  <2> QED BY <2>1
<1> HIDE DEF m
<1>2. ASSUME NEW w \in Nat
      PROVE  (a * w) % a = 0
  OBVIOUS
<1>3. ASSUME NEW v \in Nat, v % a = 0
      PROVE  (v + u) % a = 0
  <2> DEFINE n == v \div a
  <2>1. v = a * n + (v % a) /\ n \in Nat
    OBVIOUS
  <2> HIDE DEF n
  <2>2. v + u = a * (n + m) /\ n + m \in Nat
    BY <1>1, <1>3, <2>1
  <2> QED BY <1>2, <2>2
<1>4. ASSUME NEW v \in Nat, u > 0, v % u = 0
      PROVE  v % a = 0
  <2> DEFINE n == v \div u
  <2>1. v = u * n + (v % u) /\ n \in Nat
    BY <1>4
  <2> HIDE DEF n
  <2>2. v = a * (m * n) /\ m * n \in Nat
    BY <1>1, <1>4, <2>1
  <2> QED BY <1>2, <2>2
<1> QED
  BY <1>3, <1>4

(* The adjusted size covers the request, and a large one is aligned. *)
LEMMA AdjustedOK ==
    ASSUME NEW r \in PendingType, Sized(r), RequestOK(r)
    PROVE  /\ RequestOK(Adjusted(r))
           /\ Adjusted(r).big => IsAligned(Adjusted(r).size, HEAP_STANDARD_ALIGN)
           /\ Adjusted(r).holder = r.holder /\ Adjusted(r).asked = r.asked
<1> DEFINE large == ~r.page /\ ~r.big /\ r.size >= HEAP_NORMAL_BLOCK
           size  == IF large THEN AlignUp(r.size, PAGE_SIZE) ELSE r.size
           page  == r.page \/ large
           big   == r.big \/ size >= HEAP_LARGE_BLOCK
           final == IF page /\ ~big THEN AlignUp(size, PAGE_SIZE) ELSE size
           al    == HEAP_STANDARD_ALIGN
<1>1. /\ r.size \in Nat /\ PAGE_SIZE \in Nat \ {0} /\ al \in Nat \ {0} /\ PAGE_SIZE % al = 0
      /\ HEAP_LARGE_BLOCK \in Nat /\ r.asked.size \in Nat
  BY HeapSizes, HeapAlignment, HeapRequests DEF PendingType
<1>2. ASSUME NEW v \in Nat
      PROVE  AlignUp(v, PAGE_SIZE) \in Nat /\ AlignUp(v, PAGE_SIZE) >= v /\ AlignUp(v, PAGE_SIZE) % al = 0
  <2>1. AlignUp(v, PAGE_SIZE) \in Nat /\ AlignUp(v, PAGE_SIZE) >= v /\ AlignUp(v, PAGE_SIZE) % PAGE_SIZE = 0
    BY <1>1, AlignUpFacts
  <2> QED BY <1>1, <2>1, Multiples
<1> HIDE DEF al
<1>3. size \in Nat /\ size >= r.size /\ (large => size % al = 0) /\ (~large => size = r.size)
  BY <1>1, <1>2
<1> HIDE DEF size
<1>4. final \in Nat /\ final >= size /\ (page /\ ~big => final % al = 0)
      /\ (~(page /\ ~big) => final = size)
  BY <1>1, <1>2, <1>3
<1>5. Adjusted(r) = [r EXCEPT !.page = page, !.big = big, !.size = final]
  BY DEF Adjusted, size
<1> HIDE DEF final
<1>6. /\ r.size >= r.asked.size
      /\ r.big => r.size >= HEAP_LARGE_BLOCK
      /\ (r.page \/ r.big) /\ r.size >= HEAP_LARGE_BLOCK => r.size % al = 0
  BY DEF RequestOK, IsAligned, al
<1>7. final >= r.asked.size
  BY <1>1, <1>3, <1>4, <1>6
<1>8. big => final >= HEAP_LARGE_BLOCK
  BY <1>1, <1>3, <1>4, <1>6
<1>9. big => final % al = 0
  <2>1. big => final = size
    BY <1>4
  <2>2. large => size % al = 0
    BY <1>3
  <2>3. ASSUME big, ~large PROVE size % al = 0
    <3>1. size = r.size /\ r.size >= HEAP_LARGE_BLOCK
      BY <2>3, <1>1, <1>3, <1>6
    <3>2. r.page \/ r.big \/ r.size < HEAP_NORMAL_BLOCK
      BY <2>3, <1>1, HeapSizes
    <3>3. r.page \/ r.big
      BY <3>1, <3>2, <1>1, HeapSizes
    <3> QED BY <3>1, <3>3, <1>6
  <2> QED BY <2>1, <2>2, <2>3
<1>10. (page \/ big) /\ final >= HEAP_LARGE_BLOCK => final % al = 0
  BY <1>4, <1>9
<1>11. page \in BOOLEAN /\ big \in BOOLEAN
  BY DEF PendingType
<1> HIDE DEF page, big
<1>12. /\ Adjusted(r).size = final /\ Adjusted(r).page = page /\ Adjusted(r).big = big
       /\ Adjusted(r).holder = r.holder /\ Adjusted(r).asked = r.asked
  BY <1>5 DEF PendingType
<1> QED
  BY <1>7, <1>8, <1>9, <1>10, <1>12 DEF RequestOK, IsAligned, al

---------------------------------------------------------------------------
(* Where the clients' memory lies                                          *)

(* Node i of block k is allocated and covers the memory m. *)
HomeAt(bs, m, k, i) ==
    /\ k \in DOMAIN bs /\ i \in DOMAIN bs[k].nodes
    /\ bs[k].nodes[i].alloc /\ Covers(bs[k].nodes[i], m.ptr, m.size)

(* HeldBacked, said of any blocks and any assignment of memory to clients.   *)
Owned(bs, hf) ==
    /\ \A h \in Holders : hf[h] # None => \E k, i : HomeAt(bs, hf[h], k, i)
    /\ \A g, h \in Holders : hf[g] # None /\ hf[h] # None /\ g # h =>
          \A k, i : ~(HomeAt(bs, hf[g], k, i) /\ HomeAt(bs, hf[h], k, i))

Held(hf) ==
    /\ hf \in [Holders -> HeldType \cup {None}]
    /\ \A h \in Holders : hf[h] # None => hf[h].size > 0

(* What is held is memory of at least one byte. *)
LEMMA HeldMemory ==
    ASSUME NEW hf, Held(hf), NEW h \in Holders, hf[h] # None
    PROVE  hf[h].ptr \in Nat /\ hf[h].size \in Nat \ {0}
<1>1. hf[h] \in HeldType
  BY DEF Held
<1> QED
  BY <1>1 DEF Held, HeldType

(* Memory covered by a node and by its home is covered by one node.          *)
LEMMA OneHome ==
    ASSUME NEW bs \in Seq(BlockType), Structure(bs), NEW m, m.ptr \in Nat, m.size \in Nat \ {0},
           NEW k, NEW i, HomeAt(bs, m, k, i),
           NEW l \in DOMAIN bs, NEW j \in DOMAIN bs[l].nodes,
           Covers(bs[l].nodes[j], m.ptr, m.size)
    PROVE  k = l /\ i = j
<1>1. k \in DOMAIN bs /\ i \in DOMAIN bs[k].nodes /\ Covers(bs[k].nodes[i], m.ptr, m.size)
  BY DEF HomeAt
<1>2. m.ptr <= m.ptr /\ m.ptr < m.ptr + m.size
  OBVIOUS
<1> QED
  BY <1>1, <1>2, OneNode

(* HeldBacked is Owned: a node that covers a client's memory is its home.    *)
LEMMA OwnedIsHeldBacked ==
    ASSUME TypeOK, Structure(blocks), Held(held)
    PROVE  HeldBacked <=> Owned(blocks, held)
<1>1. blocks \in Seq(BlockType)
  BY DEF TypeOK
<1>2. ASSUME HeldBacked PROVE Owned(blocks, held)
  <2>1. ASSUME NEW h \in Holders, held[h] # None PROVE \E k, i : HomeAt(blocks, held[h], k, i)
    <3>1. Backed(h)
      BY <1>2, <2>1 DEF HeldBacked, Owners
    <3> QED BY <3>1 DEF Backed, Inside, HomeAt, Covers
  <2>2. ASSUME NEW g \in Holders, NEW h \in Holders, held[g] # None, held[h] # None, g # h,
               NEW k, NEW i, HomeAt(blocks, held[g], k, i), HomeAt(blocks, held[h], k, i)
        PROVE  FALSE
    <3>1. g \in Owners /\ h \in Owners /\ k \in DOMAIN blocks /\ i \in DOMAIN blocks[k].nodes
      BY <2>2 DEF HomeAt, Owners
    <3>2. Inside(g, blocks[k].nodes[i]) /\ Inside(h, blocks[k].nodes[i])
      BY <2>2 DEF HomeAt, Covers, Inside
    <3> QED BY <1>2, <2>2, <3>1, <3>2 DEF HeldBacked, Alone
  <2> QED BY <2>1, <2>2 DEF Owned
<1>3. ASSUME Owned(blocks, held) PROVE HeldBacked
  <2>1. ASSUME NEW h \in Owners PROVE Backed(h)
    BY <1>3 DEF Owned, Owners, HomeAt, Covers, Backed, Inside
  <2>2. ASSUME NEW k \in DOMAIN blocks, NEW i \in DOMAIN blocks[k].nodes,
               NEW g \in Owners, NEW h \in Owners,
               Inside(g, blocks[k].nodes[i]), Inside(h, blocks[k].nodes[i])
        PROVE  g = h
    <3>1. g \in Holders /\ h \in Holders /\ held[g] # None /\ held[h] # None
      BY DEF Owners
    <3>2. ASSUME NEW f \in {g, h} PROVE HomeAt(blocks, held[f], k, i)
      <4>1. f \in Holders /\ held[f] # None /\ Covers(blocks[k].nodes[i], held[f].ptr, held[f].size)
        BY <2>2, <3>1 DEF Inside, Covers
      <4>2. held[f].ptr \in Nat /\ held[f].size \in Nat \ {0}
        BY <4>1, HeldMemory
      <4>3. PICK l, j : HomeAt(blocks, held[f], l, j)
        BY <1>3, <4>1 DEF Owned
      <4>4. l = k /\ j = i
        BY <1>1, <4>1, <4>2, <4>3, OneHome
      <4> QED BY <4>3, <4>4
    <3> QED BY <1>3, <3>1, <3>2 DEF Owned
  <2> QED BY <2>1, <2>2 DEF HeldBacked, Alone
<1> QED
  BY <1>2, <1>3

(* Allocated nodes of a block stay where they are when another is taken, the *)
(* taken one lies in the node it was cut from, and no other is allocated.    *)
LEMMA AllocHomes ==
    ASSUME NEW b \in BlockType, NEW c \in BlockType, NEW i \in DOMAIN b.nodes,
           NEW addr, NEW size, AllocEffect(b, c, i, addr, size), BlockOK(b)
    PROVE  /\ i \in DOMAIN c.nodes
           /\ \A j \in DOMAIN b.nodes : b.nodes[j].alloc =>
                 j \in DOMAIN c.nodes /\ c.nodes[j] = b.nodes[j]
           /\ \A j \in DOMAIN c.nodes : c.nodes[j].alloc /\ j # i =>
                 j \in DOMAIN b.nodes /\ b.nodes[j] = c.nodes[j]
           /\ \A p, s \in Nat : Covers(c.nodes[i], p, s) => Covers(b.nodes[i], p, s)
<1>1. /\ DOMAIN b.nodes = 1..Len(b.nodes) /\ DOMAIN c.nodes = 1..Len(c.nodes)
      /\ Len(b.nodes) \in Nat /\ Len(c.nodes) \in Nat
  BY NodeTypes
<1>2. i = Len(b.nodes) /\ Len(c.nodes) \in {i, i+1} /\ ~b.nodes[i].alloc
      /\ \A j \in 1..i-1 : c.nodes[j] = b.nodes[j]
  BY DEF AllocEffect
<1>3. i \in DOMAIN c.nodes
  BY <1>1, <1>2
<1>4. ASSUME NEW j \in DOMAIN b.nodes, b.nodes[j].alloc
      PROVE  j \in DOMAIN c.nodes /\ c.nodes[j] = b.nodes[j]
  <2>1. j \in 1..i-1
    BY <1>1, <1>2, <1>4
  <2> QED BY <1>1, <1>2, <2>1
<1>5. ASSUME NEW j \in DOMAIN c.nodes, c.nodes[j].alloc, j # i
      PROVE  j \in DOMAIN b.nodes /\ b.nodes[j] = c.nodes[j]
  <2>1. Len(c.nodes) = i+1 => ~c.nodes[i+1].alloc
    BY DEF AllocEffect
  <2>2. j \in 1..i-1
    BY <1>1, <1>2, <1>5, <2>1
  <2> QED BY <1>1, <1>2, <2>2
<1>6. ASSUME NEW p \in Nat, NEW s \in Nat, Covers(c.nodes[i], p, s)
      PROVE  Covers(b.nodes[i], p, s)
  <2> DEFINE x == b.nodes[i]
             y == c.nodes[i]
             z == c.nodes[i+1]
  <2>1. x.addr \in Nat /\ x.len \in Nat /\ y.addr \in Nat /\ y.len \in Nat
    BY <1>1, <1>3, NodeTypes
  <2>2. y.addr = x.addr /\ (Len(c.nodes) = i => y.len = x.len)
        /\ (Len(c.nodes) = i+1 => z.addr = y.addr + y.len /\ z.addr + z.len = x.addr + x.len)
    BY DEF AllocEffect
  <2>3. Len(c.nodes) = i+1 => z.len \in Nat
    <3>1. Len(c.nodes) = i+1 => i+1 \in 1..Len(c.nodes)
      BY <1>1, <1>2
    <3> QED BY <3>1, NodeTypes
  <2>4. y.addr <= p /\ p + s <= y.addr + y.len
    BY <1>6 DEF Covers
  <2> HIDE DEF x, y, z
  <2>5. y.addr + y.len <= x.addr + x.len
    BY <1>2, <2>1, <2>2, <2>3
  <2>6. x.addr <= p /\ p + s <= x.addr + x.len
    BY <2>1, <2>2, <2>4, <2>5
  <2> QED BY <2>6 DEF Covers, x
<1> QED
  BY <1>3, <1>4, <1>5, <1>6

(* The position of node j once node i is freed, for a node j other than i.   *)
Shift(j, i) == IF j < i THEN j ELSE j - 1

(* Every other allocated node of the block covers, where it went, all it     *)
(* covered before.                                                           *)
LEMMA FreeHomes ==
    ASSUME NEW b \in BlockType, NEW c \in BlockType, NEW i \in DOMAIN b.nodes,
           BlockOK(b), FreeEffect(b, c, i),
           NEW j \in DOMAIN b.nodes, j # i, b.nodes[j].alloc,
           NEW p \in Nat, NEW s \in Nat, Covers(b.nodes[j], p, s)
    PROVE  LET t == Shift(j, i) IN
           t \in DOMAIN c.nodes /\ c.nodes[t].alloc /\ Covers(c.nodes[t], p, s)
<1> DEFINE L == Len(b.nodes)
<1>1. /\ DOMAIN b.nodes = 1..L /\ DOMAIN c.nodes = 1..Len(c.nodes)
      /\ L \in Nat /\ Len(c.nodes) \in Nat /\ j \in 1..L /\ i \in 1..L
      /\ \A n \in 1..L : b.nodes[n].addr \in Nat /\ b.nodes[n].len \in Nat
  BY NodeTypes
<1>2. /\ \A n \in 1..i-1 : c.nodes[n] = b.nodes[n]
      /\ c.nodes[i].addr = b.nodes[i].addr
      /\ i < L => /\ Len(c.nodes) = L - 1
                  /\ c.nodes[i].len = b.nodes[i].len + b.nodes[i+1].len
                  /\ c.nodes[i].alloc = b.nodes[i+1].alloc
                  /\ \A n \in i+1..L-1 : c.nodes[n] = b.nodes[n+1]
      /\ i = L => Len(c.nodes) = L
  BY DEF FreeEffect
<1> HIDE DEF L
<1>3. CASE j < i
  <2>1. j \in 1..i-1 /\ j \in 1..Len(c.nodes)
    BY <1>1, <1>2, <1>3
  <2> QED BY <1>1, <1>2, <1>3, <2>1 DEF Shift
<1>4. CASE j > i + 1
  <2>1. i < L /\ j-1 \in i+1..L-1 /\ (j-1)+1 = j /\ j-1 \in 1..L-1 /\ ~(j < i)
    BY <1>1, <1>4
  <2> QED BY <1>1, <1>2, <2>1 DEF Shift
<1>5. CASE j = i + 1
  <2>1. i < L /\ j-1 = i /\ i \in 1..L-1 /\ ~(j < i)
    BY <1>1, <1>5
  <2>2. i \in DOMAIN c.nodes /\ c.nodes[i].alloc
    BY <1>1, <1>2, <1>5, <2>1
  <2> DEFINE x == b.nodes[i]
             y == b.nodes[i+1]
             z == c.nodes[i]
  <2>3. x.addr \in Nat /\ x.len \in Nat /\ y.addr \in Nat /\ y.len \in Nat
    BY <1>1, <1>5
  <2>4. z.addr = x.addr /\ z.len = x.len + y.len
    BY <1>2, <2>1
  <2>5. y.addr <= p /\ p + s <= y.addr + y.len
    BY <1>5 DEF Covers
  <2>6. y.addr = x.addr + x.len
    BY <1>1, <2>1 DEF BlockOK, Tiles, L
  <2> HIDE DEF x, y, z
  <2>7. z.addr <= p /\ p + s <= z.addr + z.len
    BY <2>3, <2>4, <2>5, <2>6
  <2>8. Covers(c.nodes[i], p, s)
    BY <2>7 DEF Covers, z
  <2> QED BY <2>1, <2>2, <2>8 DEF Shift
<1>6. j < i \/ j > i + 1 \/ j = i + 1
  BY <1>1
<1> QED
  BY <1>3, <1>4, <1>5, <1>6

(* Replacing one block by one with the same bounds keeps the structure. *)
LEMMA ReplaceBlock ==
    ASSUME NEW bs \in Seq(BlockType), Structure(bs), NEW k \in DOMAIN bs,
           NEW c \in BlockType, BlockOK(c), c.start = bs[k].start, c.end = bs[k].end,
           NEW cs, cs = [bs EXCEPT ![k] = c]
    PROVE  /\ cs \in Seq(BlockType) /\ Len(cs) = Len(bs) /\ DOMAIN cs = DOMAIN bs
           /\ cs[k] = c /\ \A l \in DOMAIN bs : l # k => cs[l] = bs[l]
           /\ \A l \in DOMAIN bs : cs[l].start = bs[l].start /\ cs[l].end = bs[l].end
           /\ Structure(cs)
<1>1. DOMAIN bs = 1..Len(bs) /\ k \in 1..Len(bs)
  BY LenProperties
<1>2. cs \in Seq(BlockType) /\ Len(cs) = Len(bs)
      /\ \A l \in 1..Len(bs) : cs[l] = IF l = k THEN c ELSE bs[l]
  BY <1>1, ExceptSeq
<1>3. DOMAIN cs = DOMAIN bs
  BY <1>1, <1>2, LenProperties
<1>4. cs[k] = c /\ \A l \in DOMAIN bs : l # k => cs[l] = bs[l]
  BY <1>1, <1>2
<1>5. \A l \in DOMAIN bs : cs[l].start = bs[l].start /\ cs[l].end = bs[l].end
  BY <1>4
<1>6. \A l \in DOMAIN bs : BlockOK(cs[l])
  BY <1>4 DEF Structure
<1>7. Structure(cs)
  BY <1>3, <1>5, <1>6 DEF Structure
<1> QED
  BY <1>2, <1>3, <1>4, <1>5, <1>7

(* An allocation gives the client a node of its own and leaves everybody     *)
(* else's where it was.                                                      *)
LEMMA AllocOwned ==
    ASSUME NEW bs \in Seq(BlockType), Structure(bs), NEW k \in DOMAIN bs,
           NEW i \in DOMAIN bs[k].nodes, NEW c \in BlockType,
           NEW addr \in Nat, NEW size \in Nat, AllocEffect(bs[k], c, i, addr, size),
           NEW hf, Held(hf), Owned(bs, hf), NEW g \in Holders,
           NEW m \in HeldType, m.ptr = addr, m.size > 0, m.size <= size
    PROVE  Owned([bs EXCEPT ![k] = c], [hf EXCEPT ![g] = m])
<1> DEFINE cs  == [bs EXCEPT ![k] = c]
           hf2 == [hf EXCEPT ![g] = m]
<1>1. bs[k] \in BlockType /\ BlockOK(bs[k])
  BY ElementOfSeq, LenProperties DEF Structure
<1>2. BlockOK(c) /\ c.start = bs[k].start /\ c.end = bs[k].end
  BY <1>1, AllocKeepsBlock DEF AllocEffect
<1>3. /\ cs \in Seq(BlockType) /\ DOMAIN cs = DOMAIN bs /\ Structure(cs)
      /\ cs[k] = c /\ \A l \in DOMAIN bs : l # k => cs[l] = bs[l]
  BY <1>2, ReplaceBlock
<1>4. /\ i \in DOMAIN c.nodes
      /\ \A j \in DOMAIN bs[k].nodes : bs[k].nodes[j].alloc =>
            j \in DOMAIN c.nodes /\ c.nodes[j] = bs[k].nodes[j]
      /\ \A j \in DOMAIN c.nodes : c.nodes[j].alloc /\ j # i =>
            j \in DOMAIN bs[k].nodes /\ bs[k].nodes[j] = c.nodes[j]
      /\ \A p, s \in Nat : Covers(c.nodes[i], p, s) => Covers(bs[k].nodes[i], p, s)
  BY <1>1, AllocHomes
<1>5. ~bs[k].nodes[i].alloc /\ c.nodes[i].alloc
  BY DEF AllocEffect
<1>6. /\ hf2[g] = m /\ \A h \in Holders : h # g => hf2[h] = hf[h]
  BY DEF Held
<1>7. m.ptr \in Nat /\ m.size \in Nat \ {0}
  BY DEF HeldType
<1> HIDE DEF cs, hf2
<1>8. ASSUME NEW o, NEW l, NEW j, HomeAt(bs, o, l, j) PROVE HomeAt(cs, o, l, j)
  <2>1. CASE l = k
    BY <2>1, <1>3, <1>4, <1>8 DEF HomeAt
  <2>2. CASE l # k
    BY <2>2, <1>3, <1>8 DEF HomeAt
  <2> QED BY <2>1, <2>2
<1>9. HomeAt(cs, m, k, i)
  <2>1. c.nodes[i].addr \in Nat /\ c.nodes[i].len \in Nat
    BY <1>4, NodeTypes
  <2>2. c.nodes[i].addr <= addr /\ addr + size <= c.nodes[i].addr + c.nodes[i].len
    BY <2>1 DEF AllocEffect
  <2>3. Covers(c.nodes[i], m.ptr, m.size)
    <3> DEFINE x == c.nodes[i].addr
               y == c.nodes[i].len
    <3>1. x \in Nat /\ y \in Nat /\ x <= addr /\ addr + size <= x + y
      BY <2>1, <2>2
    <3> HIDE DEF x, y
    <3>2. x <= m.ptr /\ m.ptr + m.size <= x + y
      BY <3>1, <1>7
    <3> QED BY <3>2 DEF Covers, x, y
  <2> QED BY <1>3, <1>4, <1>5, <2>3 DEF HomeAt
<1>10. ASSUME NEW h \in Holders, hf[h] # None, NEW l, NEW j, HomeAt(cs, hf[h], l, j)
       PROVE  HomeAt(bs, hf[h], l, j)
  <2>1. CASE l # k
    BY <2>1, <1>3, <1>10 DEF HomeAt
  <2>2. CASE l = k /\ j # i
    BY <2>2, <1>3, <1>4, <1>10 DEF HomeAt
  <2>3. CASE l = k /\ j = i
    <3>1. hf[h].ptr \in Nat /\ hf[h].size \in Nat \ {0}
      BY <1>10, HeldMemory
    <3>2. Covers(c.nodes[i], hf[h].ptr, hf[h].size)
      BY <2>3, <1>3, <1>10 DEF HomeAt
    <3>3. Covers(bs[k].nodes[i], hf[h].ptr, hf[h].size)
      BY <1>4, <3>1, <3>2
    <3>4. PICK l2, j2 : HomeAt(bs, hf[h], l2, j2)
      BY <1>10 DEF Owned
    <3>5. l2 = k /\ j2 = i
      BY <3>1, <3>3, <3>4, OneHome
    <3> QED BY <2>3, <3>4, <3>5
  <2> QED BY <2>1, <2>2, <2>3
<1>11. ASSUME NEW h \in Holders, hf2[h] # None
       PROVE  \E l, j : HomeAt(cs, hf2[h], l, j)
  <2>1. CASE h = g
    BY <2>1, <1>6, <1>9
  <2>2. CASE h # g
    <3>1. hf2[h] = hf[h] /\ hf[h] # None
      BY <2>2, <1>6, <1>11
    <3>2. PICK l, j : HomeAt(bs, hf[h], l, j)
      BY <3>1 DEF Owned
    <3> QED BY <3>1, <3>2, <1>8
  <2> QED BY <2>1, <2>2
<1>12. ASSUME NEW h \in Holders, hf2[h] # None, h # g, NEW l, NEW j,
              HomeAt(cs, m, l, j), HomeAt(cs, hf2[h], l, j)
       PROVE  FALSE
  <2>1. l \in DOMAIN cs /\ j \in DOMAIN cs[l].nodes /\ Covers(cs[l].nodes[j], m.ptr, m.size)
    BY <1>12 DEF HomeAt
  <2>2. l = k /\ j = i
    BY <1>3, <1>7, <1>9, <2>1, OneHome
  <2>3. HomeAt(bs, hf[h], k, i)
    BY <1>6, <1>10, <1>12, <2>2
  <2> QED BY <1>5, <2>3 DEF HomeAt
<1>13. ASSUME NEW f \in Holders, NEW h \in Holders, hf2[f] # None, hf2[h] # None, f # h,
              NEW l, NEW j, HomeAt(cs, hf2[f], l, j), HomeAt(cs, hf2[h], l, j)
       PROVE  FALSE
  <2>1. CASE f = g
    BY <2>1, <1>6, <1>12, <1>13
  <2>2. CASE h = g
    BY <2>2, <1>6, <1>12, <1>13
  <2>3. CASE f # g /\ h # g
    <3>1. hf2[f] = hf[f] /\ hf2[h] = hf[h]
      BY <2>3, <1>6
    <3>2. HomeAt(bs, hf[f], l, j) /\ HomeAt(bs, hf[h], l, j)
      BY <3>1, <1>10, <1>13
    <3> QED BY <3>1, <3>2, <1>13 DEF Owned
  <2> QED BY <2>1, <2>2, <2>3
<1>14. Owned(cs, hf2)
  BY <1>11, <1>13 DEF Owned
<1> QED
  BY <1>14 DEF cs, hf2

(* Freeing the node of a client moves the memory of the others with its      *)
(* nodes, and gives none of them a second owner.                             *)
LEMMA FreeOwned ==
    ASSUME NEW bs \in Seq(BlockType), Structure(bs), NEW k \in DOMAIN bs,
           NEW i \in DOMAIN bs[k].nodes, NEW c \in BlockType, FreeEffect(bs[k], c, i),
           NEW hf, Held(hf), Owned(bs, hf), NEW g \in Holders, hf[g] # None,
           HomeAt(bs, hf[g], k, i)
    PROVE  Owned([bs EXCEPT ![k] = c], [hf EXCEPT ![g] = None])
<1> DEFINE cs  == [bs EXCEPT ![k] = c]
           hf2 == [hf EXCEPT ![g] = None]
           to(l, j) == IF l = k THEN Shift(j, i) ELSE j
<1>1. bs[k] \in BlockType /\ BlockOK(bs[k])
  BY ElementOfSeq, LenProperties DEF Structure
<1>2. BlockOK(c) /\ c.start = bs[k].start /\ c.end = bs[k].end
  BY <1>1, FreeKeepsBlock DEF FreeEffect
<1>3. /\ cs \in Seq(BlockType) /\ DOMAIN cs = DOMAIN bs /\ Structure(cs)
      /\ cs[k] = c /\ \A l \in DOMAIN bs : l # k => cs[l] = bs[l]
  BY <1>2, ReplaceBlock
<1>4. hf2[g] = None /\ \A h \in Holders : h # g => hf2[h] = hf[h]
  BY DEF Held
<1> HIDE DEF cs, hf2
<1>5. ASSUME NEW h \in Holders, hf[h] # None, h # g, NEW l, NEW j, HomeAt(bs, hf[h], l, j)
      PROVE  ~(l = k /\ j = i) /\ HomeAt(cs, hf[h], l, to(l, j))
  <2>1. ~(l = k /\ j = i)
    BY <1>5 DEF Owned
  <2>2. CASE l # k
    BY <2>2, <1>3, <1>5 DEF HomeAt
  <2>3. CASE l = k
    <3>1. hf[h].ptr \in Nat /\ hf[h].size \in Nat
      BY <1>5, HeldMemory
    <3>2. j \in DOMAIN bs[k].nodes /\ j # i /\ bs[k].nodes[j].alloc
          /\ Covers(bs[k].nodes[j], hf[h].ptr, hf[h].size)
      BY <2>1, <2>3, <1>5 DEF HomeAt
    <3>3. LET t == Shift(j, i) IN
          t \in DOMAIN c.nodes /\ c.nodes[t].alloc /\ Covers(c.nodes[t], hf[h].ptr, hf[h].size)
      BY <1>1, <3>1, <3>2, FreeHomes
    <3> QED BY <2>1, <2>3, <3>3, <1>3 DEF HomeAt
  <2> QED BY <2>1, <2>2, <2>3
<1>6. ASSUME NEW h \in Holders, hf2[h] # None
      PROVE  h # g /\ hf2[h] = hf[h] /\ \E l, j : HomeAt(bs, hf[h], l, j)
  BY <1>4, <1>6 DEF Owned
<1>7. ASSUME NEW h \in Holders, hf2[h] # None
      PROVE  \E l, j : HomeAt(cs, hf2[h], l, j)
  BY <1>5, <1>6, <1>7
<1>8. ASSUME NEW f \in Holders, NEW h \in Holders, hf2[f] # None, hf2[h] # None, f # h,
              NEW l, NEW j, HomeAt(cs, hf2[f], l, j), HomeAt(cs, hf2[h], l, j)
       PROVE  FALSE
  <2>1. ASSUME NEW e \in {f, h}
        PROVE  \E q : HomeAt(bs, hf[e], l, q) /\ ~(l = k /\ q = i) /\ to(l, q) = j
    <3>1. e \in Holders /\ hf2[e] # None /\ e # g /\ hf2[e] = hf[e] /\ HomeAt(cs, hf[e], l, j)
      BY <1>6, <1>8
    <3>2. PICK n, q : HomeAt(bs, hf[e], n, q)
      BY <3>1, <1>6
    <3>3. ~(n = k /\ q = i) /\ HomeAt(cs, hf[e], n, to(n, q))
      BY <3>1, <3>2, <1>5
    <3>4. hf[e].ptr \in Nat /\ hf[e].size \in Nat \ {0}
      BY <3>1, HeldMemory
    <3>5. l \in DOMAIN cs /\ j \in DOMAIN cs[l].nodes /\ Covers(cs[l].nodes[j], hf[e].ptr, hf[e].size)
      BY <3>1 DEF HomeAt
    <3> HIDE DEF to
    <3>6. n = l /\ to(n, q) = j
      BY <1>3, <3>3, <3>4, <3>5, OneHome
    <3> QED BY <3>2, <3>3, <3>6
  <2>2. PICK q : HomeAt(bs, hf[f], l, q) /\ ~(l = k /\ q = i) /\ to(l, q) = j
    BY <2>1
  <2>3. PICK w : HomeAt(bs, hf[h], l, w) /\ ~(l = k /\ w = i) /\ to(l, w) = j
    BY <2>1
  <2>4. q = w
    <3>1. CASE l # k
      BY <3>1, <2>2, <2>3
    <3>2. CASE l = k
      <4>1. i \in Nat /\ q \in Nat /\ w \in Nat
        BY <3>2, <2>2, <2>3, <1>1, NodeTypes DEF HomeAt
      <4>2. q # i /\ w # i /\ Shift(q, i) = Shift(w, i)
        BY <3>2, <2>2, <2>3
      <4> QED BY <4>1, <4>2 DEF Shift
    <3> QED BY <3>1, <3>2
  <2>5. hf[f] # None /\ hf[h] # None
    BY <1>6, <1>8
  <2> QED BY <1>8, <2>2, <2>3, <2>4, <2>5 DEF Owned
<1>9. Owned(cs, hf2)
  BY <1>7, <1>8 DEF Owned
<1> QED
  BY <1>9 DEF cs, hf2

---------------------------------------------------------------------------
(* The steps of the heap                                                   *)

(* HeapInv, with HeldBacked in the form the lemmas above keep.               *)
Shape ==
    /\ Structure(blocks) /\ blocks # <<>> /\ BlocksTile /\ BlocksOrdered
Sound ==
    /\ Shape /\ Held(held) /\ Owned(blocks, held)
    /\ pending # None => RequestOK(pending)

LEMMA SoundIsHeapInv == ASSUME TypeOK PROVE HeapInv /\ blocks # <<>> <=> Sound
<1>1. blocks \in Seq(BlockType) /\ held \in [Holders -> HeldType \cup {None}]
  BY DEF TypeOK
<1>2. HeapInv => Structure(blocks) /\ Held(held)
  BY <1>1 DEF HeapInv, Structure, BlocksOrdered, Held, Owners
<1>3. Sound => (\A h \in Owners : held[h].size > 0) /\ \A k \in DOMAIN blocks : BlockOK(blocks[k])
  BY DEF Sound, Shape, Structure, Held, Owners
<1>4. Structure(blocks) /\ Held(held) => (HeldBacked <=> Owned(blocks, held))
  BY OwnedIsHeldBacked
<1> QED
  BY <1>2, <1>3, <1>4 DEF HeapInv, Sound, Shape

(* The block HeapCreateBlock makes. *)
LEMMA NewBlockOK ==
    ASSUME NEW start \in Nat, NEW size \in 1..SIZE_MOD-1, NEW mask \in Nat, NEW kind \in Kinds,
           IsAligned(start + size, HEAP_STANDARD_ALIGN)
    PROVE  LET b == NewBlock(start, size, mask, kind) IN
           BlockOK(b) /\ b.start = start /\ b.end = start + size - 1
<1> DEFINE b == NewBlock(start, size, mask, kind)
<1>1. /\ b.start = start /\ b.end = start + size - 1
      /\ b.nodes = <<[addr |-> start, len |-> size, alloc |-> FALSE]>>
  BY DEF NewBlock
<1> HIDE DEF b
<1>2. size \in Nat /\ SIZE_MOD \in Nat /\ size > 0 /\ size < SIZE_MOD
  BY HeapSizes
<1>3. Len(b.nodes) = 1 /\ DOMAIN b.nodes = {1} /\ b.nodes[1].addr = start /\ b.nodes[1].len = size
      /\ b.nodes # <<>>
  BY <1>1
<1>4. start + size - 1 + 1 = start + size /\ (start + size - 1) - start + 1 = size
      /\ start <= start + size - 1
  BY <1>2
<1>5. Tiles(b)
  BY <1>1, <1>3, <1>4 DEF Tiles
<1>6. TailFree(b) /\ Ordered(b)
  BY <1>3 DEF TailFree, Ordered
<1> QED
  BY <1>1, <1>2, <1>4, <1>5, <1>6 DEF BlockOK, b

(* Replacing a block by one with the same bounds, with nothing else of the   *)
(* layout changed, keeps the layout.                                         *)
LEMMA ReplaceShape ==
    ASSUME TypeOK, Shape, NEW k \in DOMAIN blocks, NEW c \in BlockType, BlockOK(c),
           c.start = blocks[k].start, c.end = blocks[k].end,
           blocks' = [blocks EXCEPT ![k] = c], memStartData' = memStartData
    PROVE  Shape'
<1>1. blocks \in Seq(BlockType) /\ Structure(blocks) /\ blocks # <<>>
  BY DEF TypeOK, Shape
<1>2. /\ Len(blocks') = Len(blocks) /\ DOMAIN blocks' = DOMAIN blocks /\ Structure(blocks')
      /\ \A l \in DOMAIN blocks : blocks'[l].start = blocks[l].start /\ blocks'[l].end = blocks[l].end
  <2> DEFINE cs == [blocks EXCEPT ![k] = c]
  <2>1. /\ Len(cs) = Len(blocks) /\ DOMAIN cs = DOMAIN blocks /\ Structure(cs)
        /\ \A l \in DOMAIN blocks : cs[l].start = blocks[l].start /\ cs[l].end = blocks[l].end
    <3>1. k \in DOMAIN blocks /\ BlockOK(c) /\ c \in BlockType
          /\ c.start = blocks[k].start /\ c.end = blocks[k].end
      OBVIOUS
    <3> HIDE DEF cs
    <3>2. cs = [blocks EXCEPT ![k] = c]
      BY DEF cs
    <3>3. Structure(cs)
      BY <1>1, <3>1, <3>2, ReplaceBlock, Zenon
    <3>4. Len(cs) = Len(blocks) /\ DOMAIN cs = DOMAIN blocks
      BY <1>1, <3>1, <3>2, ReplaceBlock
    <3>5. \A l \in DOMAIN blocks : cs[l].start = blocks[l].start /\ cs[l].end = blocks[l].end
      BY <1>1, <3>1, <3>2, ReplaceBlock
    <3> QED BY <3>3, <3>4, <3>5
  <2>2. blocks' = cs
    OBVIOUS
  <2> HIDE DEF cs
  <2> QED BY <2>1, <2>2
<1>3. DOMAIN blocks = 1..Len(blocks) /\ Len(blocks) \in Nat \ {0} /\ blocks' # <<>>
  BY <1>1, <1>2, LenProperties, EmptySeq
<1>4. BlocksTile'
  <2>1. ASSUME NEW l \in 1..Len(blocks)-1
        PROVE  l \in DOMAIN blocks /\ l+1 \in DOMAIN blocks
    BY <1>3
  <2>2. Len(blocks) \in DOMAIN blocks
    BY <1>3
  <2> QED BY <1>2, <2>1, <2>2 DEF BlocksTile, Shape
<1>5. BlocksOrdered'
  BY <1>2 DEF BlocksOrdered, Shape
<1> QED
  BY <1>2, <1>3, <1>4, <1>5 DEF Shape

(* HeapInit. *)
LEMMA SoundInit == Init => Sound
<1> SUFFICES ASSUME Init PROVE Sound
  OBVIOUS
<1> DEFINE data == MEMORY_LOCATION_HEAP + MEMORY_STATIC_OFFSET
           b1 == NewBlock(data, HEAP_NORMAL_BLOCK, MASK, "normal")
           b2 == NewBlock(data + HEAP_NORMAL_BLOCK, HEAP_LARGE_BLOCK, MASK, "page")
<1>1. /\ data \in Nat /\ HEAP_NORMAL_BLOCK \in 1..SIZE_MOD-1 /\ HEAP_LARGE_BLOCK \in 1..SIZE_MOD-1
      /\ HEAP_NORMAL_BLOCK \in Nat /\ HEAP_LARGE_BLOCK \in Nat
      /\ MASK \in Nat /\ HEAP_STANDARD_ALIGN \in Nat \ {0}
  BY HeapSizes
<1>2. "normal" \in Kinds /\ "page" \in Kinds
  BY DEF Kinds
<1>3. data % HEAP_STANDARD_ALIGN = 0 /\ HEAP_NORMAL_BLOCK % HEAP_STANDARD_ALIGN = 0
      /\ HEAP_LARGE_BLOCK % HEAP_STANDARD_ALIGN = 0
  BY HeapAlignment
<1> HIDE DEF data
<1>4. /\ (data + HEAP_NORMAL_BLOCK) % HEAP_STANDARD_ALIGN = 0
      /\ (data + HEAP_NORMAL_BLOCK + HEAP_LARGE_BLOCK) % HEAP_STANDARD_ALIGN = 0
  <2>1. \A v \in Nat : v % HEAP_STANDARD_ALIGN = 0 => (v + HEAP_NORMAL_BLOCK) % HEAP_STANDARD_ALIGN = 0
    BY <1>1, <1>3, Multiples
  <2>2. \A v \in Nat : v % HEAP_STANDARD_ALIGN = 0 => (v + HEAP_LARGE_BLOCK) % HEAP_STANDARD_ALIGN = 0
    BY <1>1, <1>3, Multiples
  <2>3. data + HEAP_NORMAL_BLOCK \in Nat
    BY <1>1
  <2> QED BY <1>1, <1>3, <2>1, <2>2, <2>3
<1>5. BlockOK(b1) /\ b1.start = data /\ b1.end = data + HEAP_NORMAL_BLOCK - 1
  BY <1>1, <1>2, <1>4, NewBlockOK DEF IsAligned
<1>6. BlockOK(b2) /\ b2.start = data + HEAP_NORMAL_BLOCK
      /\ b2.end = data + HEAP_NORMAL_BLOCK + HEAP_LARGE_BLOCK - 1
  <2>1. data + HEAP_NORMAL_BLOCK \in Nat
    BY <1>1
  <2> QED BY <1>1, <1>2, <1>4, <2>1, NewBlockOK DEF IsAligned
<1>7. blocks = <<b1, b2>> /\ memStartData = data + HEAP_NORMAL_BLOCK + HEAP_LARGE_BLOCK
      /\ pending = None
  BY DEF Init, data
<1> HIDE DEF b1, b2
<1>8. Len(blocks) = 2 /\ DOMAIN blocks = {1, 2} /\ blocks[1] = b1 /\ blocks[2] = b2 /\ blocks # <<>>
  BY <1>7
<1>9. BlocksTile
  <2>1. \A k \in 1..Len(blocks)-1 : k = 1
    BY <1>8
  <2> QED BY <1>1, <1>5, <1>6, <1>7, <1>8, <2>1 DEF BlocksTile, BlockOK
<1>10. BlocksOrdered
  BY <1>1, <1>4, <1>5, <1>6, <1>7, <1>8 DEF BlocksOrdered, IsAligned
<1>11. Structure(blocks)
  BY <1>1, <1>5, <1>6, <1>8 DEF Structure
<1>12. \A h \in Holders : held[h] = None
  BY DEF Init
<1>13. Held(held) /\ Owned(blocks, held)
  <2>1. held \in [Holders -> HeldType \cup {None}]
    BY DEF Init
  <2> QED BY <1>12, <2>1 DEF Held, Owned
<1> QED
  BY <1>7, <1>8, <1>9, <1>10, <1>11, <1>13 DEF Sound, Shape

(* A call enters HeapAllocate with a request the clients may make. *)
LEMMA SoundCall ==
    ASSUME RequestsRounded, Sound, NEW h \in Holders, NEW c \in Requests, Call(h, c)
    PROVE  Sound'
<1>1. UNCHANGED <<blocks, memStartData, held>>
  BY DEF Call
<1>2. RequestOK(pending')
  <2>1. pending'.size = c.size /\ pending'.asked = c /\ pending'.page = c.page /\ pending'.big = FALSE
    BY DEF Call
  <2>2. c.size \in Nat
    BY HeapRequests, HeapSizes
  <2> QED BY <2>1, <2>2 DEF RequestOK, RequestsRounded
<1> QED
  BY <1>1, <1>2 DEF Sound, Shape, BlocksTile, BlocksOrdered

LEMMA SoundCrash == ASSUME Sound, Crash PROVE Sound'
  BY DEF Crash, Sound, Shape, BlocksTile, BlocksOrdered

(* HeapAllocate answers. *)
LEMMA SoundServe == ASSUME TypeInv, TypeOK', Sound, Serve PROVE Sound'
<1>1. PICK r \in {Adjusted(pending)} : \E k \in First(ServingBlocks(r)) :
        \E i \in First(FittingNodes(blocks[k], r.size, r.align)) :
        \E hs \in {IF Splits(blocks[k], i, r.size) THEN TakeNode(headers) ELSE headers} :
          (hs.ok /\ Answer(r, k, i, hs)) \/ (~hs.ok /\ Crash)
  BY DEF Serve
<1>2. PICK k \in First(ServingBlocks(r)) :
        \E i \in First(FittingNodes(blocks[k], r.size, r.align)) :
        \E hs \in {IF Splits(blocks[k], i, r.size) THEN TakeNode(headers) ELSE headers} :
          (hs.ok /\ Answer(r, k, i, hs)) \/ (~hs.ok /\ Crash)
  BY <1>1
<1>3. PICK i \in First(FittingNodes(blocks[k], r.size, r.align)) :
        \E hs : (hs.ok /\ Answer(r, k, i, hs)) \/ (~hs.ok /\ Crash)
  BY <1>2
<1>8. PICK hs :
          (hs.ok /\ Answer(r, k, i, hs)) \/ (~hs.ok /\ Crash)
  BY <1>3
<1>4. pending # None /\ pending \in PendingType /\ Sized(pending) /\ RequestOK(pending)
  BY DEF Serve, TypeInv, TypeOK, Sound
<1>5. r \in PendingType /\ Sized(r) /\ r.size >= r.asked.size
  BY <1>4, AdjustedTypes, AdjustedOK DEF RequestOK
<1>6. k \in DOMAIN blocks /\ blocks[k] \in BlockType /\ BlockOK(blocks[k])
      /\ i \in FittingNodes(blocks[k], r.size, r.align) /\ i \in DOMAIN blocks[k].nodes
  <2>1. k \in DOMAIN blocks /\ i \in FittingNodes(blocks[k], r.size, r.align)
        /\ i \in DOMAIN blocks[k].nodes
    BY DEF First, ServingBlocks, FittingNodes
  <2>2. blocks[k] \in BlockType
    BY <2>1, ElementOfSeq, LenProperties DEF TypeInv, TypeOK
  <2> QED BY <2>1, <2>2 DEF Sound, Shape, Structure
<1>7. CASE Answer(r, k, i, hs)
  <2> DEFINE c    == HeapAllocateSizeInBlock(blocks[k], i, r.size, r.align)
             addr == AllocatedAddress(blocks[k], i, r.size, r.align)
             m    == [ptr |-> addr, size |-> r.asked.size,
                      page |-> r.asked.page, mask |-> r.asked.mask]
  <2>1. r.size \in 1..SIZE_MOD-1 /\ r.align \in {0, HEAP_STANDARD_ALIGN} /\ r.size \in Nat
    BY <1>5, HeapSizes DEF Sized
  <2>2. c \in BlockType /\ AllocEffect(blocks[k], c, i, addr, r.size)
    BY <1>6, <2>1, AllocateTypes, AllocateFacts
  <2>3. blocks' = [blocks EXCEPT ![k] = c] /\ held' = [held EXCEPT ![r.holder] = m]
        /\ pending' = None /\ memStartData' = memStartData
    BY <1>7 DEF Answer
  <2>4. addr \in Nat
    <3>1. blocks[k].nodes[i] \in NodeType
      BY <1>6, NodeTypes
    <3>2. Padding(blocks[k].nodes[i], r.align) \in Nat
      BY <2>1, <3>1, PaddingType, HeapSizes
    <3> QED BY <3>1, <3>2 DEF AllocatedAddress, NodeType
  <2>5. r.holder \in Holders /\ r.asked \in Requests
    BY <1>5 DEF PendingType
  <2>6. r.asked.size \in Nat /\ r.asked.size > 0 /\ r.asked.page \in BOOLEAN /\ r.asked.mask \in Nat
    BY <2>5, HeapRequests, HeapSizes
  <2> HIDE DEF c, addr
  <2>7. m \in HeldType /\ m.ptr = addr /\ m.size = r.asked.size
    BY <2>4, <2>6 DEF HeldType
  <2> HIDE DEF m
  <2>8. BlockOK(c) /\ c.start = blocks[k].start /\ c.end = blocks[k].end
    BY <1>6, <2>2, AllocKeepsBlock DEF AllocEffect
  <2>9. Shape'
    BY <1>6, <2>2, <2>3, <2>8, ReplaceShape DEF TypeInv, Sound
  <2>10. Held(held')
    <3>1. held' \in [Holders -> HeldType \cup {None}]
      BY DEF TypeOK
    <3> QED BY <2>3, <2>5, <2>6, <2>7, <3>1 DEF Held, Sound
  <2>11. Owned(blocks', held')
    BY <1>5, <1>6, <2>1, <2>2, <2>3, <2>4, <2>5, <2>6, <2>7, AllocOwned
       DEF TypeInv, TypeOK, Sound, Shape
  <2> QED BY <2>3, <2>9, <2>10, <2>11 DEF Sound
<1> QED
  BY <1>8, <1>7, SoundCrash

(* HeapExpand appends a block right behind the last one. *)
LEMMA SoundExpand == ASSUME TypeInv, TypeOK', Sound, Expand PROVE Sound'
<1>1. PICK r \in {Adjusted(pending)}, hs \in {TakeBlockAndNode(headers)} :
        (hs.ok /\ HeapExpand(r, hs)) \/ (~hs.ok /\ Crash)
  BY DEF Expand
<1>2. pending # None /\ pending \in PendingType /\ Sized(pending) /\ RequestOK(pending)
  BY DEF Expand, TypeInv, TypeOK, Sound
<1>3. /\ r \in PendingType /\ Sized(r) /\ RequestOK(r)
      /\ r.big => IsAligned(r.size, HEAP_STANDARD_ALIGN)
  BY <1>2, AdjustedTypes, AdjustedOK
<1>4. CASE HeapExpand(r, hs)
  <2> DEFINE size == ExpansionSize(r)
             b    == NewBlock(memStartData, size, r.mask, KindOf(r))
             L    == Len(blocks)
  <2>1. KindOf(r) \in Kinds /\ (KindOf(r) = "custom" => r.big)
    BY DEF KindOf, Kinds
  <2>2. size \in 1..SIZE_MOD-1 /\ size \in Nat /\ size % HEAP_STANDARD_ALIGN = 0
    <3>1. HEAP_NORMAL_BLOCK % HEAP_STANDARD_ALIGN = 0 /\ HEAP_LARGE_BLOCK % HEAP_STANDARD_ALIGN = 0
      BY HeapAlignment
    <3>2. r.size \in 1..SIZE_MOD-1
      BY <1>3 DEF Sized
    <3> QED BY <1>3, <2>1, <3>1, <3>2, HeapSizes DEF ExpansionSize, Kinds, IsAligned
  <2>3. memStartData \in Nat /\ memStartData % HEAP_STANDARD_ALIGN = 0 /\ r.mask \in Nat
        /\ HEAP_STANDARD_ALIGN \in Nat \ {0}
    BY <1>3, HeapSizes DEF TypeInv, TypeOK, Sound, Shape, BlocksOrdered, IsAligned, PendingType
  <2> HIDE DEF size
  <2>4. (memStartData + size) % HEAP_STANDARD_ALIGN = 0
    BY <2>2, <2>3, Multiples
  <2>5. BlockOK(b) /\ b.start = memStartData /\ b.end = memStartData + size - 1 /\ b \in BlockType
    BY <2>1, <2>2, <2>3, <2>4, NewBlockOK, NewBlockType DEF IsAligned
  <2>6. /\ blocks' = Append(blocks, b) /\ memStartData' = memStartData + size
        /\ held' = held /\ pending' = [r EXCEPT !.expansions = r.expansions + 1]
    BY <1>4 DEF HeapExpand, size
  <2> HIDE DEF b
  <2>7. blocks \in Seq(BlockType) /\ DOMAIN blocks = 1..L /\ L \in Nat \ {0}
    BY LenProperties, EmptySeq DEF TypeInv, TypeOK, Sound, Shape
  <2>8. /\ blocks' \in Seq(BlockType) /\ Len(blocks') = L+1 /\ DOMAIN blocks' = 1..L+1
        /\ blocks'[L+1] = b /\ \A l \in 1..L : blocks'[l] = blocks[l]
    BY <2>5, <2>6, <2>7, AppendProperties, LenProperties
  <2>9. \A l \in 1..L : /\ BlockOK(blocks[l]) /\ blocks[l].start \in Nat /\ blocks[l].end \in Nat
                        /\ blocks[l].end < memStartData
    <3>1. \A l \in 1..L : blocks[l] \in BlockType
      BY <2>7, ElementOfSeq
    <3> QED BY <2>7, <3>1 DEF Sound, Shape, Structure, BlocksOrdered, BlockType
  <2>10. \A k, l \in 1..L : k < l => blocks[k].end < blocks[l].start
    BY <2>7 DEF Sound, Shape, Structure
  <2>11. L \in 1..L /\ memStartData = blocks[L].end + 1
         /\ (\A l \in 1..L-1 : l+1 \in 1..L /\ l \in 1..L /\ blocks[l+1].start = blocks[l].end + 1)
    BY <2>7 DEF Sound, Shape, BlocksTile
  <2> HIDE DEF L
  <2>12. ASSUME NEW k \in 1..L+1, NEW l \in 1..L+1, k < l
         PROVE  blocks'[k].end < blocks'[l].start
    <3>1. CASE l = L+1
      BY <3>1, <2>5, <2>7, <2>8, <2>9, <2>12
    <3>2. CASE l # L+1
      <4>1. k \in 1..L /\ l \in 1..L
        BY <3>2, <2>7, <2>12
      <4> QED BY <4>1, <2>8, <2>10, <2>12
    <3> QED BY <3>1, <3>2
  <2>13. ASSUME NEW k \in 1..L+1
         PROVE  BlockOK(blocks'[k]) /\ blocks'[k].start <= blocks'[k].end
                /\ blocks'[k].end < memStartData'
    <3>1. CASE k = L+1
      BY <3>1, <2>2, <2>3, <2>5, <2>6, <2>8
    <3>2. CASE k # L+1
      <4>1. k \in 1..L
        BY <3>2, <2>7
      <4>2. BlockOK(blocks'[k])
        BY <4>1, <2>8, <2>9
      <4>3. blocks'[k].end < memStartData /\ blocks'[k].end \in Nat
        BY <4>1, <2>8, <2>9
      <4>4. blocks'[k].start <= blocks'[k].end
        BY <4>2 DEF BlockOK
      <4> DEFINE e == blocks'[k].end
      <4>5. e < memStartData /\ e \in Nat
        BY <4>3
      <4> HIDE DEF e
      <4>6. e < memStartData + size
        BY <4>5, <2>2, <2>3
      <4> QED BY <4>2, <4>4, <4>6, <2>6 DEF e
    <3> QED BY <3>1, <3>2
  <2>14. ASSUME NEW k \in 1..(L+1)-1
         PROVE  blocks'[k+1].start = blocks'[k].end + 1
    <3>1. CASE k = L
      BY <3>1, <2>5, <2>8, <2>11
    <3>2. CASE k # L
      <4>1. k \in 1..L-1
        BY <3>2, <2>7
      <4> QED BY <4>1, <2>8, <2>11
    <3> QED BY <3>1, <3>2
  <2>15. BlocksTile'
    <3>1. memStartData' = blocks'[L+1].end + 1
      BY <2>2, <2>3, <2>5, <2>6, <2>8
    <3> QED BY <2>8, <2>13, <2>14, <3>1 DEF BlocksTile
  <2>16. BlocksOrdered'
    BY <2>4, <2>6, <2>8, <2>12, <2>13 DEF BlocksOrdered, IsAligned
  <2>17. Structure(blocks')
    BY <2>8, <2>12, <2>13 DEF Structure
  <2>18. Owned(blocks', held')
    <3>1. ASSUME NEW m, NEW k, NEW i, HomeAt(blocks, m, k, i)
          PROVE  HomeAt(blocks', m, k, i)
      <4>1. k \in 1..L /\ k \in 1..L+1
        BY <3>1, <2>7 DEF HomeAt
      <4> QED BY <3>1, <4>1, <2>8 DEF HomeAt
    <3>2. ASSUME NEW h \in Holders, held[h] # None, NEW k, NEW i, HomeAt(blocks', held[h], k, i)
          PROVE  HomeAt(blocks, held[h], k, i)
      <4>1. PICK l, j : HomeAt(blocks, held[h], l, j)
        BY <3>2 DEF Sound, Owned
      <4>2. HomeAt(blocks', held[h], l, j)
        BY <3>1, <4>1
      <4>3. held[h].ptr \in Nat /\ held[h].size \in Nat \ {0}
        BY <3>2, HeldMemory DEF Sound
      <4>4. k \in DOMAIN blocks' /\ i \in DOMAIN blocks'[k].nodes
            /\ Covers(blocks'[k].nodes[i], held[h].ptr, held[h].size)
        BY <3>2 DEF HomeAt
      <4>5. l = k /\ j = i
        BY <2>8, <2>17, <4>2, <4>3, <4>4, OneHome
      <4> QED BY <4>1, <4>5
    <3> QED BY <2>6, <3>1, <3>2 DEF Owned, Sound
  <2>19. RequestOK(pending')
    <3>1. pending'.size = r.size /\ pending'.asked = r.asked /\ pending'.page = r.page
          /\ pending'.big = r.big
      BY <1>3, <2>6 DEF PendingType
    <3> QED BY <1>3, <3>1 DEF RequestOK
  <2>20. blocks' # <<>> /\ Held(held')
    BY <2>6, <2>7, <2>8 DEF Sound
  <2> QED BY <2>15, <2>16, <2>17, <2>18, <2>19, <2>20 DEF Sound, Shape
<1> QED
  BY <1>1, <1>4, SoundCrash

(* kfree finds the node of the client and no other. *)
LEMMA SoundKfree == ASSUME TypeInv, TypeOK', Sound, NEW h \in Holders, kfree(h) PROVE Sound'
<1>1. CASE Crash
  BY <1>1, SoundCrash
<1>2. CASE \E k \in First(LocatedBlocks(held[h].ptr)) : HeapFree(held[h].ptr, k)
           /\ held' = [held EXCEPT ![h] = None]
           /\ UNCHANGED <<memStartData, mapped, pending, fault>>
  <2>1. PICK k \in First(LocatedBlocks(held[h].ptr)) : HeapFree(held[h].ptr, k)
    BY <1>2
  <2>2. k \in DOMAIN blocks /\ blocks[k] \in BlockType /\ BlockOK(blocks[k])
        /\ blocks \in Seq(BlockType)
    <3>1. k \in DOMAIN blocks /\ blocks \in Seq(BlockType)
      BY DEF First, LocatedBlocks, TypeInv, TypeOK
    <3> QED BY <3>1, ElementOfSeq, LenProperties DEF Sound, Shape, Structure
  <2>3. held[h] # None /\ held' = [held EXCEPT ![h] = None] /\ pending' = pending
        /\ memStartData' = memStartData /\ Held(held)
    BY <1>2 DEF kfree, Sound
  <2>4. Held(held')
    <3>1. held' \in [Holders -> HeldType \cup {None}]
      BY DEF TypeOK
    <3> QED BY <2>3, <3>1 DEF Held
  <2>5. Shape' /\ Owned(blocks', held')
    <3>1. CASE UNCHANGED blocks
      <4>1. Shape'
        BY <2>3, <3>1 DEF Sound, Shape, BlocksTile, BlocksOrdered
      <4>2. \A g \in Holders : held'[g] # None => held'[g] = held[g]
        BY <2>3 DEF Held
      <4> QED BY <3>1, <4>1, <4>2 DEF Sound, Owned
    <3>2. ASSUME NEW i \in First(MatchingNodes(blocks[k], held[h].ptr)),
                 blocks' = [blocks EXCEPT ![k] = HeapFreeAddressInNode(blocks[k], i)]
          PROVE  Shape' /\ Owned(blocks', held')
      <4> DEFINE n == blocks[k].nodes[i]
                 c == HeapFreeAddressInNode(blocks[k], i)
      <4>1. i \in DOMAIN blocks[k].nodes /\ n.addr <= held[h].ptr /\ held[h].ptr < n.addr + n.len - 1
        BY DEF First, MatchingNodes
      <4>2. held[h].ptr \in Nat /\ held[h].size \in Nat \ {0}
        BY <2>3, HeldMemory
      <4>3. n.addr \in Nat /\ n.len \in Nat
        BY <2>2, <4>1, NodeTypes
      <4>4. Covers(n, held[h].ptr, 1)
        <5> HIDE DEF n
        <5> QED BY <4>1, <4>2, <4>3 DEF Covers
      <4>5. PICK l, j : HomeAt(blocks, held[h], l, j)
        BY <2>3 DEF Sound, Owned
      <4>6. l = k /\ j = i
        <5>1. l \in DOMAIN blocks /\ j \in DOMAIN blocks[l].nodes
              /\ Covers(blocks[l].nodes[j], held[h].ptr, held[h].size)
          BY <4>5 DEF HomeAt
        <5>2. held[h].ptr <= held[h].ptr /\ held[h].ptr < held[h].ptr + held[h].size
          BY <4>2
        <5>3. 1 \in Nat \ {0}
          OBVIOUS
        <5> QED BY <2>2, <4>1, <4>2, <4>4, <5>1, <5>2, <5>3, OneNode DEF Sound, Shape
      <4>7. HomeAt(blocks, held[h], k, i)
        BY <4>5, <4>6
      <4>8. c \in BlockType /\ FreeEffect(blocks[k], c, i)
        BY <2>2, <4>1, FreeTypes, FreeFacts
      <4>9. blocks' = [blocks EXCEPT ![k] = c]
        BY <3>2
      <4> HIDE DEF c, n
      <4>10. BlockOK(c) /\ c.start = blocks[k].start /\ c.end = blocks[k].end
        BY <2>2, <4>1, <4>8, FreeKeepsBlock DEF FreeEffect
      <4>11. Shape'
        BY <2>2, <2>3, <4>8, <4>9, <4>10, ReplaceShape DEF TypeInv, Sound
      <4>12. Owned([blocks EXCEPT ![k] = c], [held EXCEPT ![h] = None])
        BY <2>2, <2>3, <4>1, <4>7, <4>8, FreeOwned DEF Sound, Shape
      <4> QED BY <2>3, <4>9, <4>11, <4>12
    <3> QED BY <2>1, <3>1, <3>2 DEF HeapFree
  <2> QED BY <2>3, <2>4, <2>5 DEF Sound
<1> QED
  BY <1>1, <1>2 DEF kfree

(* No step of the heap breaks the invariant. *)
LEMMA SoundNext == RequestsRounded /\ TypeInv /\ TypeOK' /\ Sound /\ [Next]_vars => Sound'
<1> SUFFICES ASSUME RequestsRounded, TypeInv, TypeOK', Sound, [Next]_vars PROVE Sound'
  OBVIOUS
<1>1. ASSUME NEW h \in Holders, NEW c \in Requests, Call(h, c) PROVE Sound'
  BY <1>1, SoundCall
<1>2. ASSUME NEW h \in Holders, kfree(h) PROVE Sound'
  BY <1>2, SoundKfree
<1>3. CASE Serve
  BY <1>3, SoundServe
<1>4. CASE Expand
  BY <1>4, SoundExpand
<1>5. CASE UNCHANGED vars
  BY <1>5 DEF vars, Sound, Shape, BlocksTile, BlocksOrdered
<1> QED
  BY <1>1, <1>2, <1>3, <1>4, <1>5 DEF Next

---------------------------------------------------------------------------
(* The theorems                                                            *)

(* When every large page request is a multiple of HEAP_STANDARD_ALIGN, the   *)
(* nodes of every block follow each other without gap or overlap, only the   *)
(* last of them is free, the blocks follow each other up to MemStartData,    *)
(* and what each client holds lies in an allocated node of its own.          *)
THEOREM HeapSound == ASSUME RequestsRounded PROVE Spec => []HeapInv
<1>1. Init => TypeInv /\ Sound
  BY TypeInit, SoundInit
<1>2. TypeInv /\ Sound /\ [Next]_vars => TypeInv' /\ Sound'
  BY TypeNext, SoundNext DEF TypeInv
<1>3. TypeInv /\ Sound => HeapInv
  BY SoundIsHeapInv DEF TypeInv
<1> QED
  BY <1>1, <1>2, <1>3, PTL DEF Spec

---------------------------------------------------------------------------
(* What the heap promises its clients, from HeapInv: memory of their own,  *)
(* found again by queries and by kfree, mapped, on the pages asked for,    *)
(* blocks that become whole when all is freed, counts that add up; and     *)
(* that the heap implements the abstract allocator.                        *)

(* Memory in two different nodes has no byte in common. *)
LEMMA ApartIfSound == TypeOK /\ Sound => NoOverlap
<1> SUFFICES ASSUME TypeOK, Sound, NEW g \in Owners, NEW h \in Owners, g # h
             PROVE  \/ held[g].ptr + held[g].size <= held[h].ptr
                    \/ held[h].ptr + held[h].size <= held[g].ptr
  BY DEF NoOverlap
<1>1. g \in Holders /\ h \in Holders /\ held[g] # None /\ held[h] # None
  BY DEF Owners
<1> DEFINE p == held[g].ptr
           s == held[g].size
           q == held[h].ptr
           t == held[h].size
<1>2. p \in Nat /\ q \in Nat /\ s \in Nat \ {0} /\ t \in Nat \ {0}
  BY <1>1, HeldMemory DEF Sound
<1>3. PICK k, i : HomeAt(blocks, held[g], k, i)
  BY <1>1 DEF Sound, Owned
<1>4. PICK l, j : HomeAt(blocks, held[h], l, j)
  BY <1>1 DEF Sound, Owned
<1>5. ~(k = l /\ i = j)
  BY <1>1, <1>3, <1>4 DEF Sound, Owned
<1>6. k \in DOMAIN blocks /\ i \in DOMAIN blocks[k].nodes /\ Covers(blocks[k].nodes[i], p, s)
  BY <1>3 DEF HomeAt
<1>7. l \in DOMAIN blocks /\ j \in DOMAIN blocks[l].nodes /\ Covers(blocks[l].nodes[j], q, t)
  BY <1>4 DEF HomeAt
<1>8. blocks \in Seq(BlockType) /\ Structure(blocks)
  BY DEF TypeOK, Sound, Shape
<1> HIDE DEF p, q, s, t
<1>9. ~(p <= q /\ q < p + s)
  BY <1>2, <1>5, <1>6, <1>7, <1>8, OneNode
<1>10. ~(q <= p /\ p < q + t)
  BY <1>2, <1>5, <1>6, <1>7, <1>8, OneNode
<1>11. p + s <= q \/ q + t <= p
  BY <1>2, <1>9, <1>10
<1> QED
  BY <1>11 DEF p, q, s, t

(* The heap never gives one byte to two clients: under the same condition on *)
(* the requests, what two clients hold at the same time is disjoint, however *)
(* their calls of kmalloc and kfree follow each other.                       *)
THEOREM HeapExclusive == ASSUME RequestsRounded PROVE Spec => []NoOverlap
<1>1. Init => TypeInv /\ Sound
  BY TypeInit, SoundInit
<1>2. TypeInv /\ Sound /\ [Next]_vars => TypeInv' /\ Sound'
  BY TypeNext, SoundNext DEF TypeInv
<1>3. TypeInv /\ Sound => NoOverlap
  BY ApartIfSound DEF TypeInv
<1> QED
  BY <1>1, <1>2, <1>3, PTL DEF Spec

---------------------------------------------------------------------------
(* Where an address is found                                               *)

(* What a client holds lies in the block of its node. *)
LEMMA HomeBounds ==
    ASSUME NEW bs \in Seq(BlockType), Structure(bs), NEW m, m.ptr \in Nat, m.size \in Nat \ {0},
           NEW k, NEW i, HomeAt(bs, m, k, i)
    PROVE  /\ k \in DOMAIN bs /\ bs[k] \in BlockType /\ i \in DOMAIN bs[k].nodes
           /\ bs[k].nodes[i].alloc /\ Covers(bs[k].nodes[i], m.ptr, m.size)
           /\ bs[k].start <= m.ptr /\ m.ptr + m.size <= bs[k].end + 1
<1>1. k \in DOMAIN bs /\ i \in DOMAIN bs[k].nodes /\ bs[k].nodes[i].alloc
      /\ Covers(bs[k].nodes[i], m.ptr, m.size)
  BY DEF HomeAt
<1>2. bs[k] \in BlockType /\ BlockOK(bs[k])
  BY <1>1, ElementOfSeq, LenProperties DEF Structure
<1>3. bs[k].start <= bs[k].nodes[i].addr
      /\ bs[k].nodes[i].addr + bs[k].nodes[i].len <= bs[k].end + 1
  BY <1>1, <1>2, NodeBounds DEF BlockOK
<1> DEFINE n == bs[k].nodes[i]
           s == bs[k].start
           e == bs[k].end
<1>4. n.addr \in Nat /\ n.len \in Nat /\ s \in Nat /\ e \in Nat
  BY <1>1, <1>2, NodeTypes
<1>5. n.addr <= m.ptr /\ m.ptr + m.size <= n.addr + n.len
  BY <1>1 DEF Covers
<1>6. s <= n.addr /\ n.addr + n.len <= e + 1
  BY <1>3
<1> HIDE DEF n, s, e
<1>7. s <= m.ptr /\ m.ptr + m.size <= e + 1
  BY <1>4, <1>5, <1>6
<1> QED
  BY <1>1, <1>2, <1>7 DEF s, e

(* An address lies in one block only. *)
LEMMA OneBlock ==
    ASSUME NEW bs \in Seq(BlockType), Structure(bs), NEW k \in DOMAIN bs, NEW l \in DOMAIN bs,
           NEW a \in Nat, bs[k].start <= a, a <= bs[k].end, bs[l].start <= a, a <= bs[l].end
    PROVE  k = l
<1>1. /\ DOMAIN bs = 1..Len(bs) /\ bs[k] \in BlockType /\ bs[l] \in BlockType
      /\ k \in Nat /\ l \in Nat
  BY ElementOfSeq, LenProperties
<1>2. /\ bs[k].start \in Nat /\ bs[k].end \in Nat
      /\ bs[l].start \in Nat /\ bs[l].end \in Nat
  BY <1>1 DEF BlockType
<1>3. (k < l => bs[k].end < bs[l].start) /\ (l < k => bs[l].end < bs[k].start)
  BY DEF Structure
<1> QED
  BY <1>1, <1>2, <1>3

(* No node but the i-th of block k covers the byte a. *)
OnlyIn(k, i, a) ==
    \A l \in DOMAIN blocks : \A j \in DOMAIN blocks[l].nodes :
        Covers(blocks[l].nodes[j], a, 1) => l = k /\ j = i

(* Every byte of a client's memory is found in the client's node. *)
LEMMA ByteFound ==
    ASSUME TypeOK, Sound, NEW h \in Owners, NEW k, NEW i, HomeAt(blocks, held[h], k, i),
           NEW a \in Nat, held[h].ptr <= a, a < held[h].ptr + held[h].size
    PROVE  /\ held[h].ptr \in Nat /\ held[h].size \in Nat \ {0} /\ a \in Nat
           /\ k \in DOMAIN blocks /\ blocks[k].start <= a /\ a <= blocks[k].end
           /\ OnlyIn(k, i, a)
<1>1. h \in Holders /\ held[h] # None /\ blocks \in Seq(BlockType) /\ Structure(blocks)
  BY DEF Owners, TypeOK, Sound, Shape
<1>2. held[h].ptr \in Nat /\ held[h].size \in Nat \ {0}
  BY <1>1, HeldMemory DEF Sound
<1>3. /\ k \in DOMAIN blocks /\ i \in DOMAIN blocks[k].nodes /\ blocks[k] \in BlockType
      /\ blocks[k].start <= held[h].ptr
      /\ held[h].ptr + held[h].size <= blocks[k].end + 1
      /\ Covers(blocks[k].nodes[i], held[h].ptr, held[h].size)
  BY <1>1, <1>2, HomeBounds
<1> DEFINE p == held[h].ptr
           s == held[h].size
           b == blocks[k].start
           e == blocks[k].end
<1>4. b \in Nat /\ e \in Nat
  BY <1>3, NodeTypes
<1>5. p \in Nat /\ s \in Nat \ {0} /\ p <= a /\ a < p + s /\ b <= p /\ p + s <= e + 1
  BY <1>2, <1>3
<1> HIDE DEF p, s, b, e
<1>6. a \in Nat /\ b <= a /\ a <= e /\ p <= a /\ a < p + s
  BY <1>4, <1>5
<1>7. ASSUME NEW l \in DOMAIN blocks, NEW j \in DOMAIN blocks[l].nodes,
             Covers(blocks[l].nodes[j], a, 1)
      PROVE  l = k /\ j = i
  <2>1. Covers(blocks[k].nodes[i], p, s)
    BY <1>3 DEF p, s
  <2>2. 1 \in Nat \ {0}
    OBVIOUS
  <2> QED BY <1>1, <1>3, <1>5, <1>6, <1>7, <2>1, <2>2, OneNode
<1> QED
  BY <1>2, <1>3, <1>6, <1>7 DEF b, e, OnlyIn

(* Queries find what is held. *)
LEMMA ValidIfSound == TypeOK /\ Sound => HeldIsValid
<1> SUFFICES ASSUME TypeOK, Sound, NEW h \in Owners,
                    NEW a \in held[h].ptr .. held[h].ptr + held[h].size - 1,
                    NEW l \in LocatedBlocks(a), blocks[l].kind = "normal"
             PROVE  HeapValidateAddress(a) /\ \A n \in HeapQuery(a) : Inside(h, n)
  BY DEF HeldIsValid
<1>1. PICK k, i : HomeAt(blocks, held[h], k, i)
  BY DEF Sound, Owned, Owners
<1>0. held[h].ptr \in Nat /\ held[h].size \in Nat \ {0}
  BY HeldMemory DEF Owners, Sound
<1>11. a \in Nat /\ held[h].ptr <= a /\ a < held[h].ptr + held[h].size
  BY <1>0
<1>2. /\ held[h].ptr \in Nat /\ held[h].size \in Nat \ {0} /\ a \in Nat
      /\ k \in DOMAIN blocks /\ blocks[k].start <= a /\ a <= blocks[k].end
      /\ OnlyIn(k, i, a)
  BY <1>1, <1>11, ByteFound
<1>3. blocks \in Seq(BlockType) /\ Structure(blocks)
  BY DEF TypeOK, Sound, Shape
<1>4. \A m \in DOMAIN blocks : blocks[m] \in BlockType /\ blocks[m].end \in Nat
  <2>1. \A m \in DOMAIN blocks : blocks[m] \in BlockType
    BY <1>3, ElementOfSeq, LenProperties
  <2> QED BY <2>1, NodeTypes
<1>5. l \in DOMAIN blocks /\ blocks[l].start <= a /\ a < blocks[l].end
  BY DEF LocatedBlocks
<1>6. l = k
  <2>1. a <= blocks[l].end
    BY <1>2, <1>4, <1>5
  <2> QED BY <1>2, <1>3, <1>5, <2>1, OneBlock
<1> DEFINE n0 == blocks[k].nodes[i]
           p  == held[h].ptr
           s  == held[h].size
<1>7. i \in DOMAIN blocks[k].nodes /\ n0.alloc /\ Covers(n0, p, s)
  BY <1>1 DEF HomeAt
<1>8. n0.addr <= a /\ a <= n0.addr + n0.len - 1
  <2>1. n0.addr \in Nat /\ n0.len \in Nat
    BY <1>2, <1>4, <1>7, NodeTypes
  <2>2. n0.addr <= p /\ p + s <= n0.addr + n0.len
    BY <1>7 DEF Covers
  <2>3. p \in Nat /\ s \in Nat /\ a \in p..p+s-1
    BY <1>2
  <2> HIDE DEF n0, p, s
  <2> QED BY <2>1, <2>2, <2>3
<1>9. HeapValidateAddress(a)
  <2>1. n0 \in Range(blocks[k].nodes)
    BY <1>7 DEF Range
  <2>2. k \in {m \in LocatedBlocks(a) : blocks[m].kind = "normal"}
    BY <1>6
  <2> HIDE DEF n0
  <2>3. n0 \in HeapQuery(a)
    BY <1>8, <2>1, <2>2 DEF HeapQuery
  <2> QED BY <1>7, <2>3 DEF HeapValidateAddress, n0
<1>10. ASSUME NEW n \in HeapQuery(a)
       PROVE  Inside(h, n)
  <2>1. PICK m \in LocatedBlocks(a) : n \in Range(blocks[m].nodes)
    BY DEF HeapQuery
  <2>2. m \in DOMAIN blocks
    BY DEF LocatedBlocks
  <2>3. PICK j \in DOMAIN blocks[m].nodes : n = blocks[m].nodes[j]
    BY <2>1 DEF Range
  <2>4. n.addr <= a /\ a <= n.addr + n.len - 1
    BY DEF HeapQuery
  <2>5. n.addr \in Nat /\ n.len \in Nat
    BY <1>4, <2>2, <2>3, NodeTypes
  <2>6. Covers(n, a, 1)
    BY <1>2, <2>4, <2>5 DEF Covers
  <2>7. m = k /\ j = i
    BY <1>2, <2>2, <2>3, <2>6 DEF OnlyIn
  <2> QED BY <1>7, <2>3, <2>7 DEF Covers, Inside
<1> QED
  BY <1>9, <1>10

(* The one block and the one node kfree may take for those of a client. *)
LEMMA FreeFound ==
    ASSUME TypeOK, Sound, NEW h \in Owners, held[h].size > 1
    PROVE  \E k, i : /\ HomeAt(blocks, held[h], k, i)
                     /\ First(LocatedBlocks(held[h].ptr)) = {k}
                     /\ LocatedBlocks(held[h].ptr) = {k}
                     /\ MatchingNodes(blocks[k], held[h].ptr) = {i}
                     /\ First(MatchingNodes(blocks[k], held[h].ptr)) = {i}
<1> DEFINE p == held[h].ptr
           s == held[h].size
<1>1. PICK k, i : HomeAt(blocks, held[h], k, i)
  BY DEF Sound, Owned, Owners
<1>2. p \in Nat /\ s \in Nat \ {0}
  BY HeldMemory DEF Owners, Sound
<1>3. p <= p /\ p < p + s
  BY <1>2
<1>4. /\ k \in DOMAIN blocks /\ blocks[k].start <= p
      /\ OnlyIn(k, i, p)
  BY <1>1, <1>2, <1>3, ByteFound
<1>5. blocks \in Seq(BlockType) /\ Structure(blocks)
  BY DEF TypeOK, Sound, Shape
<1>6. /\ i \in DOMAIN blocks[k].nodes /\ p + s <= blocks[k].end + 1
      /\ Covers(blocks[k].nodes[i], p, s)
  BY <1>1, <1>2, <1>5, HomeBounds
<1>7. DOMAIN blocks = 1..Len(blocks)
      /\ \A m \in DOMAIN blocks : blocks[m] \in BlockType /\ blocks[m].end \in Nat
  <2>1. DOMAIN blocks = 1..Len(blocks) /\ \A m \in DOMAIN blocks : blocks[m] \in BlockType
    BY <1>5, ElementOfSeq, LenProperties
  <2> QED BY <2>1, NodeTypes
<1>8. s > 1
  OBVIOUS
<1> HIDE DEF p, s
<1>9. LocatedBlocks(p) = {k}
  <2>1. p < blocks[k].end
    <3> DEFINE e == blocks[k].end
    <3>1. e \in Nat /\ p + s <= e + 1
      BY <1>4, <1>6, <1>7
    <3> HIDE DEF e
    <3>2. p < e
      BY <1>2, <1>8, <3>1
    <3> QED BY <3>2 DEF e
  <2>2. ASSUME NEW m \in LocatedBlocks(p)
        PROVE  m = k
    <3>1. m \in DOMAIN blocks /\ blocks[m].start <= p /\ p < blocks[m].end
      BY DEF LocatedBlocks
    <3>2. p <= blocks[m].end /\ p <= blocks[k].end
      BY <1>2, <1>4, <1>7, <2>1, <3>1
    <3> QED BY <1>2, <1>4, <1>5, <3>1, <3>2, OneBlock
  <2> QED BY <1>4, <2>1, <2>2 DEF LocatedBlocks
<1>10. MatchingNodes(blocks[k], p) = {i}
  <2>1. \A j \in DOMAIN blocks[k].nodes :
          blocks[k].nodes[j].addr \in Nat /\ blocks[k].nodes[j].len \in Nat
    BY <1>4, <1>7, NodeTypes
  <2>2. ASSUME NEW j \in MatchingNodes(blocks[k], p)
        PROVE  j = i
    <3> DEFINE n == blocks[k].nodes[j]
    <3>1. j \in DOMAIN blocks[k].nodes /\ n.addr <= p /\ p < n.addr + n.len - 1
      BY DEF MatchingNodes
    <3>2. n.addr \in Nat /\ n.len \in Nat
      BY <2>1, <3>1
    <3>3. Covers(n, p, 1)
      <4> HIDE DEF n
      <4> QED BY <1>2, <3>1, <3>2 DEF Covers
    <3> QED BY <1>4, <3>1, <3>3 DEF OnlyIn
  <2>3. i \in MatchingNodes(blocks[k], p)
    <3> DEFINE n == blocks[k].nodes[i]
    <3>1. n.addr \in Nat /\ n.len \in Nat /\ n.addr <= p /\ p + s <= n.addr + n.len
      BY <1>6, <2>1 DEF Covers
    <3>2. n.addr <= p /\ p < n.addr + n.len - 1
      <4> HIDE DEF n
      <4> QED BY <1>2, <1>8, <3>1
    <3> QED BY <1>6, <3>2 DEF MatchingNodes
  <2> QED BY <2>2, <2>3
<1>11. k \in Nat /\ i \in Nat
  BY <1>4, <1>6, <1>7, NodeTypes
<1>12. \A x \in Nat : First({x}) = {x}
  BY DEF First
<1>13. /\ First(LocatedBlocks(p)) = {k}
       /\ First(MatchingNodes(blocks[k], p)) = {i}
  BY <1>9, <1>10, <1>11, <1>12
<1> QED
  BY <1>1, <1>9, <1>10, <1>13 DEF p

LEMMA FoundIfSound == TypeOK /\ Sound => FreeFindsNode
<1> SUFFICES ASSUME TypeOK, Sound, NEW h \in Owners, held[h].size > 1
             PROVE  \E k \in First(LocatedBlocks(held[h].ptr)) :
                    \E i \in First(MatchingNodes(blocks[k], held[h].ptr)) :
                       blocks[k].nodes[i].alloc /\ Inside(h, blocks[k].nodes[i])
  BY DEF FreeFindsNode
<1>1. PICK k, i : /\ HomeAt(blocks, held[h], k, i)
                  /\ First(LocatedBlocks(held[h].ptr)) = {k}
                  /\ First(MatchingNodes(blocks[k], held[h].ptr)) = {i}
  BY FreeFound
<1>2. blocks[k].nodes[i].alloc /\ Inside(h, blocks[k].nodes[i])
  BY <1>1 DEF HomeAt, Covers, Inside
<1> QED
  BY <1>1, <1>2

(* Every byte a client holds in a normal block is valid to a query, and the  *)
(* node the query finds for it is the client's.                              *)
THEOREM HeapValid == ASSUME RequestsRounded PROVE Spec => []HeldIsValid
<1>1. Init => TypeInv /\ Sound
  BY TypeInit, SoundInit
<1>2. TypeInv /\ Sound /\ [Next]_vars => TypeInv' /\ Sound'
  BY TypeNext, SoundNext DEF TypeInv
<1>3. TypeInv /\ Sound => HeldIsValid
  BY ValidIfSound DEF TypeInv
<1> QED
  BY <1>1, <1>2, <1>3, PTL DEF Spec

(* kfree finds the node of whatever a client gives back, the single byte     *)
(* excepted, and never the node of somebody else.                            *)
THEOREM HeapFreeFinds == ASSUME RequestsRounded PROVE Spec => []FreeFindsNode
<1>1. Init => TypeInv /\ Sound
  BY TypeInit, SoundInit
<1>2. TypeInv /\ Sound /\ [Next]_vars => TypeInv' /\ Sound'
  BY TypeNext, SoundNext DEF TypeInv
<1>3. TypeInv /\ Sound => FreeFindsNode
  BY FoundIfSound DEF TypeInv
<1> QED
  BY <1>1, <1>2, <1>3, PTL DEF Spec
---------------------------------------------------------------------------
(* What the steps do                                                       *)

(* The headers left once a request is served: a node that is cut takes one. *)
HeadersLeft(r, k, i) == IF Splits(blocks[k], i, r.size) THEN TakeNode(headers) ELSE headers

(* HeapAllocate answers the adjusted request r from node i of block k. *)
Answered(r, k, i) ==
    LET c    == HeapAllocateSizeInBlock(blocks[k], i, r.size, r.align)
        addr == AllocatedAddress(blocks[k], i, r.size, r.align)
    IN  /\ pending # None /\ pending \in PendingType /\ r = Adjusted(pending)
        /\ r \in PendingType /\ Sized(r) /\ RequestOK(r)
        /\ r.holder = pending.holder /\ r.asked = pending.asked
        /\ k \in DOMAIN blocks /\ blocks[k] \in BlockType /\ BlockOK(blocks[k])
        /\ blocks[k].kind = KindOf(r) /\ blocks[k].bytesFree >= r.size
        /\ i \in DOMAIN blocks[k].nodes /\ i \in FittingNodes(blocks[k], r.size, r.align)
        /\ c \in BlockType /\ addr \in Nat /\ AllocEffect(blocks[k], c, i, addr, r.size)
        /\ HeadersLeft(r, k, i).ok /\ Answer(r, k, i, HeadersLeft(r, k, i))

LEMMA ServeFacts ==
    ASSUME TypeInv, Sound, Serve
    PROVE  Crash \/ \E r, k, i : Answered(r, k, i)
<1>1. PICK r \in {Adjusted(pending)} : \E k \in First(ServingBlocks(r)) :
        \E i \in First(FittingNodes(blocks[k], r.size, r.align)) :
        LET hs == HeadersLeft(r, k, i) IN (hs.ok /\ Answer(r, k, i, hs)) \/ (~hs.ok /\ Crash)
  BY DEF Serve, HeadersLeft
<1>2. PICK k \in First(ServingBlocks(r)) :
        \E i \in First(FittingNodes(blocks[k], r.size, r.align)) :
        LET hs == HeadersLeft(r, k, i) IN (hs.ok /\ Answer(r, k, i, hs)) \/ (~hs.ok /\ Crash)
  BY <1>1
<1>3. PICK i \in First(FittingNodes(blocks[k], r.size, r.align)) :
        LET hs == HeadersLeft(r, k, i) IN (hs.ok /\ Answer(r, k, i, hs)) \/ (~hs.ok /\ Crash)
  BY <1>2
<1>4. pending # None /\ pending \in PendingType /\ Sized(pending) /\ RequestOK(pending)
  BY DEF Serve, TypeInv, TypeOK, Sound
<1>5. r \in PendingType /\ Sized(r) /\ RequestOK(r) /\ r = Adjusted(pending)
      /\ r.holder = pending.holder /\ r.asked = pending.asked
  BY <1>4, AdjustedTypes, AdjustedOK
<1>6. k \in DOMAIN blocks /\ blocks[k].kind = KindOf(r) /\ blocks[k].bytesFree >= r.size
      /\ i \in FittingNodes(blocks[k], r.size, r.align) /\ i \in DOMAIN blocks[k].nodes
  BY DEF First, ServingBlocks, FittingNodes
<1>7. blocks[k] \in BlockType /\ BlockOK(blocks[k])
  <2>1. blocks[k] \in BlockType
    BY <1>6, ElementOfSeq, LenProperties DEF TypeInv, TypeOK
  <2> QED BY <1>6, <2>1 DEF Sound, Shape, Structure
<1> DEFINE c    == HeapAllocateSizeInBlock(blocks[k], i, r.size, r.align)
           addr == AllocatedAddress(blocks[k], i, r.size, r.align)
<1>8. r.size \in 1..SIZE_MOD-1 /\ r.align \in {0, HEAP_STANDARD_ALIGN}
  BY <1>5 DEF Sized
<1>9. c \in BlockType /\ AllocEffect(blocks[k], c, i, addr, r.size)
  BY <1>6, <1>7, <1>8, AllocateTypes, AllocateFacts
<1>10. addr \in Nat
  <2>1. blocks[k].nodes[i] \in NodeType
    BY <1>6, <1>7, NodeTypes
  <2>2. Padding(blocks[k].nodes[i], r.align) \in Nat
    BY <1>8, <2>1, PaddingType, HeapSizes
  <2> QED BY <2>1, <2>2 DEF AllocatedAddress, NodeType
<1>11. CASE HeadersLeft(r, k, i).ok /\ Answer(r, k, i, HeadersLeft(r, k, i))
  <2> HIDE DEF c, addr
  <2>1. Answered(r, k, i)
    BY <1>4, <1>5, <1>6, <1>7, <1>9, <1>10, <1>11 DEF Answered, c, addr
  <2> QED BY <2>1
<1> QED
  BY <1>3, <1>11

(* What changes for the clients and the blocks when a request is answered. *)
LEMMA AnsweredFacts ==
    ASSUME NEW r, NEW k, NEW i, Answered(r, k, i)
    PROVE  LET c    == HeapAllocateSizeInBlock(blocks[k], i, r.size, r.align)
               addr == AllocatedAddress(blocks[k], i, r.size, r.align)
               m    == [ptr |-> addr, size |-> r.asked.size,
                        page |-> r.asked.page, mask |-> r.asked.mask]
           IN  /\ blocks' = [blocks EXCEPT ![k] = c] /\ memStartData' = memStartData
               /\ headers' = HeadersLeft(r, k, i)
               /\ held' = [held EXCEPT ![r.holder] = m]
               /\ mapped' = HeapCommitPages(addr, r.size, r.mask)
               /\ pending' = None
               /\ r.holder \in Holders /\ m \in HeldType
               /\ m.ptr = addr /\ m.size \in Nat \ {0} /\ m.size <= r.size
               /\ r.size \in Nat \ {0}
<1> DEFINE addr == AllocatedAddress(blocks[k], i, r.size, r.align)
           m    == [ptr |-> addr, size |-> r.asked.size,
                    page |-> r.asked.page, mask |-> r.asked.mask]
<1>1. /\ addr \in Nat /\ r \in PendingType /\ r.size \in 1..SIZE_MOD-1
      /\ r.size >= r.asked.size
  BY DEF Answered, Sized, RequestOK
<1>2. r.holder \in Holders /\ r.asked \in Requests /\ r.size \in Nat \ {0}
  BY <1>1, HeapSizes DEF PendingType
<1>3. /\ r.asked.size \in Nat \ {0} /\ r.asked.page \in BOOLEAN /\ r.asked.mask \in Nat
  BY <1>2, HeapRequests, HeapSizes
<1> HIDE DEF addr
<1>4. m \in HeldType /\ m.ptr = addr /\ m.size = r.asked.size
  BY <1>1, <1>3 DEF HeldType
<1>5. m.size <= r.size
  BY <1>1, <1>2, <1>3, <1>4
<1> QED
  BY <1>2, <1>3, <1>4, <1>5 DEF Answered, Answer, addr

(* The heap grows by one block behind the last. *)
Expanded(r) ==
    LET b == NewBlock(memStartData, ExpansionSize(r), r.mask, KindOf(r)) IN
    /\ pending # None /\ pending \in PendingType /\ Sized(pending) /\ r = Adjusted(pending)
    /\ r \in PendingType /\ Sized(r) /\ RequestOK(r) /\ ServingBlocks(r) = {}
    /\ r.holder = pending.holder /\ r.asked = pending.asked
    /\ b \in BlockType /\ blocks' = Append(blocks, b)
    /\ DOMAIN blocks = 1..Len(blocks) /\ Len(blocks) \in Nat \ {0}
    /\ DOMAIN blocks' = 1..Len(blocks)+1 /\ blocks'[Len(blocks)+1] = b
    /\ \A l \in DOMAIN blocks : blocks'[l] = blocks[l]
    /\ ExpansionSize(r) \in 1..SIZE_MOD-1
    /\ memStartData' = memStartData + ExpansionSize(r)
    /\ pending' = [r EXCEPT !.expansions = r.expansions + 1]
    /\ held' = held /\ mapped' = mapped
    /\ TakeBlockAndNode(headers).ok /\ headers' = TakeBlockAndNode(headers)

LEMMA ExpandFacts ==
    ASSUME TypeInv, Sound, Expand
    PROVE  Crash \/ Expanded(Adjusted(pending))
<1> DEFINE r == Adjusted(pending)
           b == NewBlock(memStartData, ExpansionSize(r), r.mask, KindOf(r))
<1>1. PICK hs \in {TakeBlockAndNode(headers)} :
        (hs.ok /\ HeapExpand(r, hs)) \/ (~hs.ok /\ Crash)
  BY DEF Expand
<1>2. pending # None /\ pending \in PendingType /\ Sized(pending) /\ RequestOK(pending)
  BY DEF Expand, TypeInv, TypeOK, Sound
<1>3. r \in PendingType /\ Sized(r) /\ RequestOK(r) /\ ServingBlocks(r) = {}
      /\ r.holder = pending.holder /\ r.asked = pending.asked
  BY <1>2, AdjustedTypes, AdjustedOK DEF Expand
<1>4. CASE hs.ok /\ HeapExpand(r, hs)
  <2>1. KindOf(r) \in Kinds
    BY DEF KindOf, Kinds
  <2> HIDE DEF r
  <2>2. ExpansionSize(r) \in 1..SIZE_MOD-1
    BY <1>3, <2>1, HeapSizes DEF ExpansionSize, Kinds, Sized
  <2>3. b \in BlockType
    BY <1>3, <2>1, <2>2, NewBlockType DEF PendingType, TypeInv, TypeOK
  <2>4. blocks' = Append(blocks, b)
    BY <1>4 DEF HeapExpand
  <2> HIDE DEF b
  <2>5. blocks \in Seq(BlockType) /\ DOMAIN blocks = 1..Len(blocks) /\ Len(blocks) \in Nat \ {0}
    BY LenProperties, EmptySeq DEF TypeInv, TypeOK, Sound, Shape
  <2>6. /\ blocks' \in Seq(BlockType) /\ DOMAIN blocks' = 1..Len(blocks)+1
        /\ blocks'[Len(blocks)+1] = b /\ \A l \in DOMAIN blocks : blocks'[l] = blocks[l]
    BY <2>3, <2>4, <2>5, AppendProperties, LenProperties
  <2>7. /\ memStartData' = memStartData + ExpansionSize(r)
        /\ pending' = [r EXCEPT !.expansions = r.expansions + 1]
        /\ held' = held /\ mapped' = mapped
        /\ TakeBlockAndNode(headers).ok /\ headers' = TakeBlockAndNode(headers)
    BY <1>1, <1>4 DEF HeapExpand
  <2> QED BY <1>2, <1>3, <2>2, <2>3, <2>4, <2>5, <2>6, <2>7 DEF Expanded, r, b
<1> QED
  BY <1>1, <1>4
(* kfree frees the node i of block k for its client h. *)
Freed(h, k, i) ==
    LET c == HeapFreeAddressInNode(blocks[k], i) IN
    /\ held[h] # None /\ HomeAt(blocks, held[h], k, i)
    /\ k \in DOMAIN blocks /\ blocks[k] \in BlockType /\ BlockOK(blocks[k])
    /\ i \in DOMAIN blocks[k].nodes
    /\ c \in BlockType /\ FreeEffect(blocks[k], c, i)
    /\ blocks' = [blocks EXCEPT ![k] = c]
    /\ held' = [held EXCEPT ![h] = None]
    /\ UNCHANGED <<memStartData, mapped, pending, fault>>

LEMMA KfreeFacts ==
    ASSUME TypeInv, Sound, NEW h \in Holders, kfree(h), held[h].size > 1
    PROVE  \E k, i : Freed(h, k, i)
<1>1. held[h] # None /\ h \in Owners /\ TypeOK
  BY DEF kfree, Owners, TypeInv
<1>2. PICK k, i : /\ HomeAt(blocks, held[h], k, i)
                  /\ First(LocatedBlocks(held[h].ptr)) = {k}
                  /\ LocatedBlocks(held[h].ptr) = {k}
                  /\ MatchingNodes(blocks[k], held[h].ptr) = {i}
                  /\ First(MatchingNodes(blocks[k], held[h].ptr)) = {i}
  BY <1>1, FreeFound
<1>3. k \in DOMAIN blocks /\ i \in DOMAIN blocks[k].nodes
  BY <1>2 DEF HomeAt
<1>4. blocks[k] \in BlockType /\ BlockOK(blocks[k])
  <2>1. blocks[k] \in BlockType
    BY <1>3, ElementOfSeq, LenProperties DEF TypeInv, TypeOK
  <2> QED BY <1>3, <2>1 DEF Sound, Shape, Structure
<1>5. /\ HeapFree(held[h].ptr, k) /\ held' = [held EXCEPT ![h] = None]
      /\ UNCHANGED <<memStartData, mapped, pending, fault>>
  BY <1>2 DEF kfree
<1>6. blocks' = [blocks EXCEPT ![k] = HeapFreeAddressInNode(blocks[k], i)]
  BY <1>2, <1>5 DEF HeapFree
<1>7. HeapFreeAddressInNode(blocks[k], i) \in BlockType
      /\ FreeEffect(blocks[k], HeapFreeAddressInNode(blocks[k], i), i)
  BY <1>3, <1>4, FreeTypes, FreeFacts
<1> QED
  BY <1>1, <1>2, <1>3, <1>4, <1>5, <1>6, <1>7 DEF Freed

(* Nobody who waits for an answer holds memory. *)
WaitsEmpty == pending # None => held[pending.holder] = None

LEMMA WaitsStep == TypeInv /\ Sound /\ WaitsEmpty /\ [Next]_vars => WaitsEmpty'
<1> SUFFICES ASSUME TypeInv, Sound, WaitsEmpty, [Next]_vars PROVE WaitsEmpty'
  OBVIOUS
<1>1. ASSUME NEW h \in Holders, NEW c \in Requests, Call(h, c) PROVE WaitsEmpty'
  BY <1>1 DEF Call, WaitsEmpty
<1>2. ASSUME NEW h \in Holders, kfree(h) PROVE WaitsEmpty'
  BY <1>2 DEF kfree, Crash, WaitsEmpty
<1>3. CASE Crash
  BY <1>3 DEF Crash, WaitsEmpty
<1>4. CASE Serve
  BY <1>3, <1>4, ServeFacts, AnsweredFacts DEF WaitsEmpty
<1>5. CASE Expand
  <2>1. ASSUME Expanded(Adjusted(pending)) PROVE WaitsEmpty'
    <3> DEFINE r == Adjusted(pending)
    <3>1. /\ pending' = [r EXCEPT !.expansions = r.expansions + 1] /\ r \in PendingType
          /\ r.holder = pending.holder /\ held' = held /\ pending # None
      BY <2>1 DEF Expanded
    <3> HIDE DEF r
    <3>2. pending'.holder = pending.holder
      BY <3>1 DEF PendingType
    <3> QED BY <3>1, <3>2 DEF WaitsEmpty
  <2> QED BY <1>3, <1>5, <2>1, ExpandFacts
<1>6. CASE UNCHANGED vars
  BY <1>6 DEF vars, WaitsEmpty
<1> QED
  BY <1>1, <1>2, <1>4, <1>5, <1>6 DEF Next

---------------------------------------------------------------------------
(* Blocks become whole                                                     *)

(* Every allocated node has the memory of a client in it. *)
Peopled(bs, hf) ==
    \A k \in DOMAIN bs : \A i \in DOMAIN bs[k].nodes :
        bs[k].nodes[i].alloc => \E h \in Holders : hf[h] # None /\ HomeAt(bs, hf[h], k, i)

(* The node taken is the new client's, the others have the clients they had. *)
LEMMA AllocPeopled ==
    ASSUME NEW bs \in Seq(BlockType), Structure(bs), NEW k \in DOMAIN bs,
           NEW i \in DOMAIN bs[k].nodes, NEW c \in BlockType,
           NEW addr \in Nat, NEW size \in Nat, AllocEffect(bs[k], c, i, addr, size),
           NEW hf, Held(hf), Peopled(bs, hf), NEW g \in Holders, hf[g] = None,
           NEW m \in HeldType, m.ptr = addr, m.size <= size
    PROVE  Peopled([bs EXCEPT ![k] = c], [hf EXCEPT ![g] = m])
<1> DEFINE cs  == [bs EXCEPT ![k] = c]
           hf2 == [hf EXCEPT ![g] = m]
<1>1. bs[k] \in BlockType /\ BlockOK(bs[k])
  BY ElementOfSeq, LenProperties DEF Structure
<1>2. BlockOK(c) /\ c.start = bs[k].start /\ c.end = bs[k].end
  BY <1>1, AllocKeepsBlock DEF AllocEffect
<1>3. /\ DOMAIN cs = DOMAIN bs /\ cs[k] = c /\ \A l \in DOMAIN bs : l # k => cs[l] = bs[l]
  BY <1>2, ReplaceBlock
<1>4. /\ i \in DOMAIN c.nodes
      /\ \A j \in DOMAIN c.nodes : c.nodes[j].alloc /\ j # i =>
            j \in DOMAIN bs[k].nodes /\ bs[k].nodes[j] = c.nodes[j]
  BY <1>1, AllocHomes
<1>5. /\ hf2[g] = m /\ \A h \in Holders : h # g => hf2[h] = hf[h]
  BY DEF Held
<1>6. m # None /\ HomeAt(cs, m, k, i)
  <2>1. m # None
    BY NoneIsNoRecord DEF HeldType
  <2> DEFINE n == c.nodes[i]
  <2>2. n.alloc /\ addr >= n.addr /\ addr + size <= n.addr + n.len
    BY DEF AllocEffect
  <2>3. n.addr \in Nat /\ n.len \in Nat /\ m.size \in Nat
    BY <1>4, NodeTypes DEF HeldType
  <2>4. Covers(n, m.ptr, m.size)
    <3> HIDE DEF n
    <3> QED BY <2>2, <2>3 DEF Covers
  <2> QED BY <1>3, <1>4, <2>1, <2>2, <2>4 DEF HomeAt
<1> HIDE DEF cs, hf2
<1>7. ASSUME NEW l \in DOMAIN cs, NEW j \in DOMAIN cs[l].nodes, cs[l].nodes[j].alloc
      PROVE  \E h \in Holders : hf2[h] # None /\ HomeAt(cs, hf2[h], l, j)
  <2>1. CASE l = k /\ j = i
    BY <2>1, <1>5, <1>6
  <2>2. CASE ~(l = k /\ j = i)
    <3>1. l \in DOMAIN bs /\ j \in DOMAIN bs[l].nodes /\ bs[l].nodes[j] = cs[l].nodes[j]
      BY <2>2, <1>3, <1>4, <1>7
    <3>2. PICK h \in Holders : hf[h] # None /\ HomeAt(bs, hf[h], l, j)
      BY <3>1, <1>7 DEF Peopled
    <3>3. h # g /\ hf2[h] = hf[h]
      BY <3>2, <1>5
    <3>4. HomeAt(cs, hf[h], l, j)
      BY <3>1, <3>2, <1>7 DEF HomeAt
    <3> QED BY <3>2, <3>3, <3>4
  <2> QED BY <2>1, <2>2
<1>8. Peopled(cs, hf2)
  BY <1>7 DEF Peopled
<1> QED
  BY <1>8 DEF cs, hf2

(* Where a node that is allocated after a free was before. *)
LEMMA FreeOrigins ==
    ASSUME NEW b \in BlockType, NEW c \in BlockType, NEW i \in DOMAIN b.nodes,
           FreeEffect(b, c, i), NEW t \in DOMAIN c.nodes, c.nodes[t].alloc
    PROVE  \E j \in DOMAIN b.nodes : j # i /\ b.nodes[j].alloc /\ Shift(j, i) = t
<1> DEFINE L == Len(b.nodes)
<1>1. /\ DOMAIN b.nodes = 1..L /\ DOMAIN c.nodes = 1..Len(c.nodes)
      /\ L \in Nat /\ Len(c.nodes) \in Nat /\ i \in 1..L /\ t \in 1..Len(c.nodes)
  BY NodeTypes
<1>2. /\ \A j \in 1..i-1 : c.nodes[j] = b.nodes[j]
      /\ i < L => /\ Len(c.nodes) = L - 1
                  /\ c.nodes[i].alloc = b.nodes[i+1].alloc
                  /\ \A j \in i+1..L-1 : c.nodes[j] = b.nodes[j+1]
      /\ i = L => Len(c.nodes) = L /\ ~c.nodes[i].alloc
  BY DEF FreeEffect
<1> HIDE DEF L
<1>3. CASE t < i
  <2>1. t \in 1..i-1 /\ t \in 1..L
    BY <1>1, <1>3
  <2> QED BY <1>1, <1>2, <1>3, <2>1 DEF Shift
<1>4. CASE t = i
  <2>1. i < L /\ b.nodes[i+1].alloc
    BY <1>1, <1>2, <1>4
  <2>2. i+1 \in 1..L /\ i+1 # i /\ Shift(i+1, i) = i
    BY <1>1, <2>1 DEF Shift
  <2> QED BY <1>1, <1>4, <2>1, <2>2
<1>5. CASE t > i
  <2>1. i < L /\ t \in i+1..L-1
    BY <1>1, <1>2, <1>5
  <2>2. t+1 \in 1..L /\ t+1 # i /\ Shift(t+1, i) = t
    BY <1>1, <1>5, <2>1 DEF Shift
  <2>3. b.nodes[t+1].alloc
    BY <1>2, <2>1
  <2> QED BY <1>1, <2>2, <2>3
<1> QED
  BY <1>1, <1>3, <1>4, <1>5

(* A freed node disappears or becomes free; the others keep their clients. *)
LEMMA FreePeopled ==
    ASSUME NEW bs \in Seq(BlockType), Structure(bs), NEW k \in DOMAIN bs,
           NEW i \in DOMAIN bs[k].nodes, NEW c \in BlockType, FreeEffect(bs[k], c, i),
           NEW hf, Held(hf), Peopled(bs, hf), NEW g \in Holders, hf[g] # None,
           HomeAt(bs, hf[g], k, i)
    PROVE  Peopled([bs EXCEPT ![k] = c], [hf EXCEPT ![g] = None])
<1> DEFINE cs  == [bs EXCEPT ![k] = c]
           hf2 == [hf EXCEPT ![g] = None]
<1>1. bs[k] \in BlockType /\ BlockOK(bs[k])
  BY ElementOfSeq, LenProperties DEF Structure
<1>2. BlockOK(c) /\ c.start = bs[k].start /\ c.end = bs[k].end
  BY <1>1, FreeKeepsBlock DEF FreeEffect
<1>3. /\ DOMAIN cs = DOMAIN bs /\ cs[k] = c /\ \A l \in DOMAIN bs : l # k => cs[l] = bs[l]
  BY <1>2, ReplaceBlock
<1>4. \A h \in Holders : h # g => hf2[h] = hf[h]
  BY DEF Held
<1>5. hf[g].ptr \in Nat /\ hf[g].size \in Nat \ {0}
  BY HeldMemory
<1> HIDE DEF cs, hf2
<1>6. ASSUME NEW l \in DOMAIN bs, NEW j \in DOMAIN bs[l].nodes, ~(l = k /\ j = i),
             bs[l].nodes[j].alloc
      PROVE  \E h \in Holders : h # g /\ hf[h] # None /\ HomeAt(bs, hf[h], l, j)
  <2>1. PICK h \in Holders : hf[h] # None /\ HomeAt(bs, hf[h], l, j)
    BY <1>6 DEF Peopled
  <2>2. ASSUME h = g PROVE FALSE
    <3>1. Covers(bs[l].nodes[j], hf[g].ptr, hf[g].size)
      BY <2>1, <2>2 DEF HomeAt
    <3>2. k = l /\ i = j
      BY <1>5, <3>1, OneHome
    <3> QED BY <1>6, <3>2
  <2> QED BY <2>1, <2>2
<1>7. ASSUME NEW l \in DOMAIN cs, NEW t \in DOMAIN cs[l].nodes, cs[l].nodes[t].alloc
      PROVE  \E h \in Holders : hf2[h] # None /\ HomeAt(cs, hf2[h], l, t)
  <2>1. CASE l # k
    <3>1. l \in DOMAIN bs /\ cs[l] = bs[l]
      BY <2>1, <1>3
    <3>2. PICK h \in Holders : h # g /\ hf[h] # None /\ HomeAt(bs, hf[h], l, t)
      BY <2>1, <3>1, <1>6, <1>7
    <3>3. HomeAt(cs, hf[h], l, t)
      BY <3>1, <3>2, <1>7 DEF HomeAt
    <3> QED BY <3>2, <3>3, <1>4
  <2>2. CASE l = k
    <3>1. t \in DOMAIN c.nodes /\ c.nodes[t].alloc
      BY <2>2, <1>3, <1>7
    <3>2. PICK j \in DOMAIN bs[k].nodes : j # i /\ bs[k].nodes[j].alloc /\ Shift(j, i) = t
      BY <3>1, <1>1, FreeOrigins
    <3>3. PICK h \in Holders : h # g /\ hf[h] # None /\ HomeAt(bs, hf[h], k, j)
      BY <3>2, <1>6
    <3>4. hf[h].ptr \in Nat /\ hf[h].size \in Nat
      BY <3>3, HeldMemory
    <3>5. Covers(bs[k].nodes[j], hf[h].ptr, hf[h].size)
      BY <3>3 DEF HomeAt
    <3>6. Covers(c.nodes[t], hf[h].ptr, hf[h].size)
      BY <1>1, <3>2, <3>4, <3>5, FreeHomes
    <3>7. HomeAt(cs, hf[h], k, t)
      BY <3>1, <3>6, <1>3 DEF HomeAt
    <3> QED BY <2>2, <3>3, <3>7, <1>4
  <2> QED BY <2>1, <2>2
<1>8. Peopled(cs, hf2)
  BY <1>7 DEF Peopled
<1> QED
  BY <1>8 DEF cs, hf2
(* The inductive invariant behind FreeBlockWhole. *)
WholeInv ==
    /\ Peopled(blocks, held) /\ WaitsEmpty
    /\ \A h \in Owners : held[h].size > 1

LEMMA WholeInit == Init => WholeInv
<1> SUFFICES ASSUME Init PROVE WholeInv
  OBVIOUS
<1>1. \A k \in DOMAIN blocks : \A i \in DOMAIN blocks[k].nodes : ~blocks[k].nodes[i].alloc
  BY DEF Init, NewBlock
<1>2. pending = None /\ \A h \in Holders : held[h] = None
  BY DEF Init
<1> QED
  BY <1>1, <1>2 DEF WholeInv, Peopled, WaitsEmpty, Owners

LEMMA WholeStep ==
    NoSingleBytes /\ TypeInv /\ Sound /\ WholeInv /\ [Next]_vars => WholeInv'
<1> SUFFICES ASSUME NoSingleBytes, TypeInv, Sound, WholeInv, [Next]_vars
             PROVE  Peopled(blocks', held')
                    /\ \A h \in Holders : held'[h] # None => held'[h].size > 1
  BY WaitsStep DEF WholeInv, Owners
<1>0. /\ blocks \in Seq(BlockType) /\ Structure(blocks) /\ Held(held) /\ Peopled(blocks, held)
      /\ held \in [Holders -> HeldType \cup {None}]
      /\ \A h \in Holders : held[h] # None => held[h].size > 1
  BY DEF TypeInv, TypeOK, Sound, Shape, WholeInv, Owners
<1>1. CASE UNCHANGED <<blocks, held>>
  BY <1>0, <1>1
<1>2. ASSUME NEW h \in Holders, kfree(h)
      PROVE  Peopled(blocks', held')
             /\ \A g \in Holders : held'[g] # None => held'[g].size > 1
  <2>1. held[h] # None /\ held[h].size > 1
    BY <1>0, <1>2 DEF kfree
  <2>2. PICK k, i : Freed(h, k, i)
    BY <1>2, <2>1, KfreeFacts
  <2> DEFINE c == HeapFreeAddressInNode(blocks[k], i)
  <2>3. /\ k \in DOMAIN blocks /\ i \in DOMAIN blocks[k].nodes /\ HomeAt(blocks, held[h], k, i)
        /\ c \in BlockType /\ FreeEffect(blocks[k], c, i)
        /\ blocks' = [blocks EXCEPT ![k] = c] /\ held' = [held EXCEPT ![h] = None]
    BY <2>2 DEF Freed
  <2> HIDE DEF c
  <2>4. Peopled([blocks EXCEPT ![k] = c], [held EXCEPT ![h] = None])
    BY <1>0, <2>1, <2>3, FreePeopled
  <2>5. \A g \in Holders : held'[g] # None => held'[g] = held[g]
    BY <1>0, <2>3
  <2> QED BY <1>0, <2>3, <2>4, <2>5
<1>3. ASSUME NEW r, NEW k, NEW i, Answered(r, k, i)
      PROVE  Peopled(blocks', held')
             /\ \A g \in Holders : held'[g] # None => held'[g].size > 1
  <2> DEFINE c    == HeapAllocateSizeInBlock(blocks[k], i, r.size, r.align)
             addr == AllocatedAddress(blocks[k], i, r.size, r.align)
             m    == [ptr |-> addr, size |-> r.asked.size,
                      page |-> r.asked.page, mask |-> r.asked.mask]
  <2>1. /\ k \in DOMAIN blocks /\ i \in DOMAIN blocks[k].nodes
        /\ c \in BlockType /\ addr \in Nat /\ AllocEffect(blocks[k], c, i, addr, r.size)
        /\ r \in PendingType /\ r.holder = pending.holder /\ pending # None
    BY <1>3 DEF Answered
  <2>2. /\ blocks' = [blocks EXCEPT ![k] = c] /\ held' = [held EXCEPT ![r.holder] = m]
        /\ r.holder \in Holders /\ m \in HeldType
        /\ m.ptr = addr /\ m.size <= r.size /\ r.size \in Nat
    BY <1>3, AnsweredFacts
  <2>3. m.size > 1
    <3>1. r.asked \in Requests
      BY <2>1 DEF PendingType
    <3> QED BY <3>1 DEF NoSingleBytes
  <2>4. held[r.holder] = None
    BY <2>1 DEF WholeInv, WaitsEmpty
  <2> HIDE DEF c, addr, m
  <2>5. Peopled([blocks EXCEPT ![k] = c], [held EXCEPT ![r.holder] = m])
    BY <1>0, <2>1, <2>2, <2>4, AllocPeopled
  <2>6. \A g \in Holders : held'[g] # None => held'[g].size > 1
    BY <1>0, <2>2, <2>3
  <2> QED BY <2>2, <2>5, <2>6
<1>4. ASSUME Expanded(Adjusted(pending))
      PROVE  Peopled(blocks', held') /\ held' = held
  <2> DEFINE L == Len(blocks)
  <2>1. /\ DOMAIN blocks = 1..L /\ L \in Nat \ {0} /\ DOMAIN blocks' = 1..L+1
        /\ \A l \in DOMAIN blocks : blocks'[l] = blocks[l]
        /\ held' = held
    BY <1>4 DEF Expanded
  <2>2. \A i \in DOMAIN blocks'[L+1].nodes : ~blocks'[L+1].nodes[i].alloc
    BY <1>4 DEF Expanded, NewBlock
  <2> HIDE DEF L
  <2>3. ASSUME NEW k \in DOMAIN blocks', NEW i \in DOMAIN blocks'[k].nodes, blocks'[k].nodes[i].alloc
        PROVE  \E h \in Holders : held'[h] # None /\ HomeAt(blocks', held'[h], k, i)
    <3>1. k \in DOMAIN blocks /\ blocks'[k] = blocks[k]
      <4>1. k # L+1
        BY <2>2, <2>3
      <4> QED BY <2>1, <4>1
    <3>2. PICK h \in Holders : held[h] # None /\ HomeAt(blocks, held[h], k, i)
      BY <1>0, <2>3, <3>1 DEF Peopled
    <3>3. HomeAt(blocks', held[h], k, i)
      BY <2>3, <3>1, <3>2 DEF HomeAt
    <3> QED BY <2>1, <3>2, <3>3
  <2> QED BY <2>1, <2>3 DEF Peopled
<1>5. CASE Serve
  BY <1>1, <1>3, <1>5, ServeFacts DEF Crash
<1>6. CASE Expand
  BY <1>0, <1>1, <1>4, <1>6, ExpandFacts DEF Crash
<1>7. ASSUME NEW h \in Holders, NEW c \in Requests, Call(h, c)
      PROVE  UNCHANGED <<blocks, held>>
  BY <1>7 DEF Call
<1>8. UNCHANGED vars => UNCHANGED <<blocks, held>>
  BY DEF vars
<1> QED
  BY <1>1, <1>2, <1>5, <1>6, <1>7, <1>8 DEF Next

LEMMA WholeIfPeopled == TypeOK /\ Sound /\ WholeInv => FreeBlockWhole
<1> SUFFICES ASSUME TypeOK, Sound, WholeInv, NEW k \in DOMAIN blocks,
                    \A h \in Owners : ~Touches(h, blocks[k])
             PROVE  Len(blocks[k].nodes) = 1 /\ ~blocks[k].nodes[1].alloc
  BY DEF FreeBlockWhole
<1>1. blocks \in Seq(BlockType) /\ Structure(blocks)
  BY DEF TypeOK, Sound, Shape
<1>2. blocks[k] \in BlockType /\ BlockOK(blocks[k])
  BY <1>1, ElementOfSeq, LenProperties DEF Structure
<1>3. ASSUME NEW i \in DOMAIN blocks[k].nodes, blocks[k].nodes[i].alloc
      PROVE  FALSE
  <2>1. PICK h \in Holders : held[h] # None /\ HomeAt(blocks, held[h], k, i)
    BY <1>3 DEF WholeInv, Peopled
  <2>2. held[h].ptr \in Nat /\ held[h].size \in Nat \ {0}
    BY <2>1, HeldMemory DEF Sound
  <2>3. blocks[k].start <= held[h].ptr /\ held[h].ptr + held[h].size <= blocks[k].end + 1
    BY <1>1, <2>1, <2>2, HomeBounds
  <2> DEFINE p == held[h].ptr
             s == held[h].size
             e == blocks[k].end
  <2>4. e \in Nat /\ p \in Nat /\ s \in Nat \ {0} /\ p + s <= e + 1
    BY <1>2, <2>2, <2>3, NodeTypes
  <2> HIDE DEF p, s, e
  <2>5. p <= e
    BY <2>4
  <2> QED BY <2>1, <2>3, <2>5 DEF p, e, Touches, Owners
<1>4. Len(blocks[k].nodes) \in Nat \ {0} /\ DOMAIN blocks[k].nodes = 1..Len(blocks[k].nodes)
  <2>1. blocks[k].nodes \in Seq(NodeType) /\ blocks[k].nodes # <<>>
    BY <1>2 DEF BlockType, BlockOK, Tiles
  <2> QED BY <2>1, LenProperties, EmptySeq
<1>5. \A i \in 1..Len(blocks[k].nodes)-1 : blocks[k].nodes[i].alloc
  BY <1>2 DEF BlockOK, TailFree
<1>6. Len(blocks[k].nodes) = 1
  <2> DEFINE L == Len(blocks[k].nodes)
  <2>1. L \in Nat \ {0} /\ DOMAIN blocks[k].nodes = 1..L
    BY <1>4
  <2>2. \A i \in 1..L-1 : i \in 1..L => FALSE
    BY <1>3, <1>5, <2>1
  <2> HIDE DEF L
  <2>3. L = 1
    <3>1. 1 \in 1..L-1 \/ L = 1
      BY <2>1
    <3>2. 1 \in 1..L
      BY <2>1
    <3> QED BY <2>2, <3>1, <3>2
  <2> QED BY <2>3 DEF L
<1> QED
  BY <1>3, <1>4, <1>6

(* A block in which no client has memory left is one free node, however the  *)
(* nodes in it were cut, padded and given back: no byte is ever lost to a    *)
(* node that nobody can free.  Single bytes can be lost: kfree does not find *)
(* the last byte of a node.                                                  *)
THEOREM HeapWhole ==
    ASSUME RequestsRounded, NoSingleBytes PROVE Spec => []FreeBlockWhole
<1>1. Init => TypeInv /\ Sound /\ WholeInv
  BY TypeInit, SoundInit, WholeInit
<1>2. TypeInv /\ Sound /\ WholeInv /\ [Next]_vars => TypeInv' /\ Sound' /\ WholeInv'
  BY TypeNext, SoundNext, WholeStep DEF TypeInv
<1>3. TypeInv /\ Sound /\ WholeInv => FreeBlockWhole
  BY WholeIfPeopled DEF TypeInv
<1> QED
  BY <1>1, <1>2, <1>3, PTL DEF Spec
---------------------------------------------------------------------------
(* What is held is mapped                                                  *)

(* Division by the page size and its remainder. *)
LEMMA PageOf ==
    ASSUME NEW p \in Nat \ {0}, NEW v \in Nat
    PROVE  /\ v \div p \in Nat /\ p * (v \div p) \in Nat
           /\ p * (v \div p) <= v /\ v < p * (v \div p) + p
<1>1. v = p * (v \div p) + (v % p) /\ v \div p \in Nat /\ v % p \in 0..p-1
  OBVIOUS
<1> DEFINE q == v \div p
           d == v % p
<1> HIDE DEF q, d
<1>2. v = p * q + d /\ q \in Nat /\ d \in 0..p-1 /\ p * q \in Nat
  BY <1>1 DEF q, d
<1>3. p * q <= v /\ v < p * q + p
  BY <1>2
<1> QED
  BY <1>2, <1>3 DEF q

LEMMA Cancel ==
    ASSUME NEW p \in Nat \ {0}, NEW x \in Nat, NEW y \in Nat, p * x < p * y
    PROVE  x < y
<1>1. y <= x => p * y <= p * x
  OBVIOUS
<1>2. p * x \in Nat /\ p * y \in Nat
  OBVIOUS
<1> QED
  BY <1>1, <1>2

(* The pages HeapCommitPages maps are all the pages of the range. *)
LEMMA CommittedCovers ==
    ASSUME NEW addr \in Nat, NEW size \in Nat \ {0}, NEW s \in Nat \ {0}, s <= size
    PROVE  addr \div PAGE_SIZE .. (addr + s - 1) \div PAGE_SIZE \subseteq CommittedPages(addr, size)
<1> DEFINE p == PAGE_SIZE
           q == addr \div p
           m == (size + p - 1) \div p
           z == (addr + size - 1) \div p
           y == (addr + s - 1) \div p
<1>0. p \in Nat \ {0}
  BY HeapSizes
<1>1. q \in Nat /\ p * q \in Nat /\ p * q <= addr /\ addr < p * q + p
  BY <1>0, PageOf
<1>2. m \in Nat /\ p * m \in Nat /\ size + p - 1 < p * m + p
  <2>1. size + p - 1 \in Nat
    BY <1>0
  <2> QED BY <1>0, <2>1, PageOf
<1>3. z \in Nat /\ p * z \in Nat /\ p * z <= addr + size - 1 /\ addr + size - 1 < p * z + p
  <2>1. addr + size - 1 \in Nat
    OBVIOUS
  <2> QED BY <1>0, <2>1, PageOf
<1>4. y \in Nat /\ p * y \in Nat /\ p * y <= addr + s - 1
  <2>1. addr + s - 1 \in Nat
    OBVIOUS
  <2> QED BY <1>0, <2>1, PageOf
<1>5. CommittedPages(addr, size) = q .. q + (m + (IF q # z THEN 1 ELSE 0)) - 1
  BY DEF CommittedPages
<1> HIDE DEF p, q, m, z, y
<1>6. p * (q + m + 1) = p * q + p * m + p /\ p * (z + 1) = p * z + p /\ p * 0 = 0
  BY <1>0, <1>1, <1>2, <1>3
<1>7. z < q + m + 1
  <2>1. p * z < p * q + p * m + p
    BY <1>0, <1>1, <1>2, <1>3
  <2>2. p * z < p * (q + m + 1) /\ q + m + 1 \in Nat
    BY <1>1, <1>2, <1>6, <2>1
  <2> QED BY <1>0, <1>3, <2>2, Cancel
<1>8. 0 < m
  <2>1. 0 < p * m
    BY <1>0, <1>2
  <2> QED BY <1>0, <1>2, <1>6, <2>1, Cancel
<1>9. y < z + 1
  <2>1. p * y < p * z + p
    BY <1>0, <1>3, <1>4
  <2>2. p * y < p * (z + 1) /\ z + 1 \in Nat
    BY <1>3, <1>6, <2>1
  <2> QED BY <1>0, <1>4, <2>2, Cancel
<1>10. q .. y \subseteq CommittedPages(addr, size)
  BY <1>1, <1>2, <1>3, <1>4, <1>5, <1>7, <1>8, <1>9
<1> QED
  BY <1>10 DEF q, y, p

LEMMA MappedStep == TypeInv /\ Sound /\ HeldMapped /\ [Next]_vars => HeldMapped'
<1> SUFFICES ASSUME TypeInv, Sound, HeldMapped, [Next]_vars PROVE HeldMapped'
  OBVIOUS
<1> DEFINE Pages(m) == m.ptr \div PAGE_SIZE .. (m.ptr + m.size - 1) \div PAGE_SIZE
<1>0. /\ held \in [Holders -> HeldType \cup {None}]
      /\ \A h \in Holders : held[h] # None => Pages(held[h]) \subseteq DOMAIN mapped
  BY DEF TypeInv, TypeOK, HeldMapped, Owners
<1>1. ASSUME \A h \in Holders : held'[h] # None => Pages(held'[h]) \subseteq DOMAIN mapped'
      PROVE  HeldMapped'
  BY <1>1 DEF HeldMapped, Owners
<1>2. CASE UNCHANGED <<held, mapped>>
  BY <1>0, <1>1, <1>2
<1>3. ASSUME NEW h \in Holders, kfree(h) PROVE HeldMapped'
  <2>1. CASE Crash
    BY <1>2, <2>1 DEF Crash
  <2>2. CASE held' = [held EXCEPT ![h] = None] /\ mapped' = mapped
    <3>1. \A g \in Holders : held'[g] # None => held'[g] = held[g]
      BY <1>0, <2>2
    <3> QED BY <1>0, <1>1, <2>2, <3>1
  <2> QED BY <1>3, <2>1, <2>2 DEF kfree
<1>4. ASSUME NEW r, NEW k, NEW i, Answered(r, k, i) PROVE HeldMapped'
  <2> DEFINE addr == AllocatedAddress(blocks[k], i, r.size, r.align)
             m    == [ptr |-> addr, size |-> r.asked.size,
                      page |-> r.asked.page, mask |-> r.asked.mask]
  <2>1. /\ held' = [held EXCEPT ![r.holder] = m] /\ r.holder \in Holders
        /\ mapped' = HeapCommitPages(addr, r.size, r.mask)
        /\ m.ptr = addr /\ m.size \in Nat \ {0} /\ m.size <= r.size /\ r.size \in Nat \ {0}
    BY <1>4, AnsweredFacts
  <2>2. addr \in Nat
    BY <1>4 DEF Answered
  <2> HIDE DEF addr, m
  <2>3. DOMAIN mapped' = DOMAIN mapped \cup CommittedPages(addr, r.size)
    BY <2>1 DEF HeapCommitPages
  <2>4. addr \div PAGE_SIZE .. (addr + m.size - 1) \div PAGE_SIZE \subseteq CommittedPages(addr, r.size)
    BY <2>1, <2>2, CommittedCovers
  <2>5. Pages(m) \subseteq DOMAIN mapped'
    BY <2>1, <2>3, <2>4
  <2> HIDE DEF Pages
  <2>6. ASSUME NEW g \in Holders, held'[g] # None
        PROVE  Pages(held'[g]) \subseteq DOMAIN mapped'
    <3>1. CASE g = r.holder
      BY <1>0, <2>1, <2>5, <3>1
    <3>2. CASE g # r.holder
      BY <1>0, <2>1, <2>3, <2>6, <3>2
    <3> QED BY <3>1, <3>2
  <2> QED BY <1>1, <2>6
<1>5. CASE Serve
  BY <1>2, <1>4, <1>5, ServeFacts DEF Crash
<1>6. CASE Expand
  BY <1>2, <1>6, ExpandFacts DEF Crash, Expanded
<1>7. ASSUME NEW h \in Holders, NEW c \in Requests, Call(h, c) PROVE HeldMapped'
  BY <1>2, <1>7 DEF Call
<1>8. CASE UNCHANGED vars
  BY <1>2, <1>8 DEF vars
<1> QED
  BY <1>3, <1>5, <1>6, <1>7, <1>8 DEF Next

(* Every page a client's memory touches is mapped from the answer on, for    *)
(* every page size, every padding and every rounding of the request.         *)
THEOREM HeapMapped == ASSUME RequestsRounded PROVE Spec => []HeldMapped
<1>1. Init => TypeInv /\ Sound /\ HeldMapped
  <2>1. Init => HeldMapped
    BY DEF Init, HeldMapped, Owners
  <2> QED BY <2>1, TypeInit, SoundInit
<1>2. TypeInv /\ Sound /\ HeldMapped /\ [Next]_vars => TypeInv' /\ Sound' /\ HeldMapped'
  BY TypeNext, SoundNext, MappedStep DEF TypeInv
<1> QED
  BY <1>1, <1>2, PTL DEF Spec
---------------------------------------------------------------------------
(* Page requests get pages                                                 *)

(* What kfree does to the blocks, whatever it is given. *)
LEMMA KfreeBlocks ==
    ASSUME TypeInv, Sound, NEW h \in Holders, kfree(h)
    PROVE  \/ Crash
           \/ /\ held[h] # None /\ held' = [held EXCEPT ![h] = None]
              /\ UNCHANGED <<memStartData, mapped, pending>>
              /\ \/ blocks' = blocks /\ headers' = headers
                 \/ \E k \in DOMAIN blocks : \E i \in DOMAIN blocks[k].nodes : \E c \in BlockType :
                       /\ headers' = IF i < Len(blocks[k].nodes)
                                     THEN [headers EXCEPT !.recycled = @ + 1] ELSE headers
                       /\ blocks[k] \in BlockType /\ FreeEffect(blocks[k], c, i)
                       /\ BlockOK(c) /\ c.kind = blocks[k].kind /\ c.mask = blocks[k].mask
                       /\ blocks' = [blocks EXCEPT ![k] = c]
<1>1. CASE Crash
  BY <1>1
<1>2. CASE \E k \in First(LocatedBlocks(held[h].ptr)) : HeapFree(held[h].ptr, k)
           /\ held' = [held EXCEPT ![h] = None]
           /\ UNCHANGED <<memStartData, mapped, pending, fault>>
  <2>1. PICK k \in First(LocatedBlocks(held[h].ptr)) : HeapFree(held[h].ptr, k)
    BY <1>2
  <2>2. k \in DOMAIN blocks /\ blocks[k] \in BlockType /\ BlockOK(blocks[k])
    <3>1. k \in DOMAIN blocks /\ blocks \in Seq(BlockType)
      BY DEF First, LocatedBlocks, TypeInv, TypeOK
    <3> QED BY <3>1, ElementOfSeq, LenProperties DEF Sound, Shape, Structure
  <2>3. ASSUME NEW i \in First(MatchingNodes(blocks[k], held[h].ptr)),
               blocks' = [blocks EXCEPT ![k] = HeapFreeAddressInNode(blocks[k], i)],
               headers' = IF MergesBack(blocks[k], i) \/ MergesOn(blocks[k], i)
                          THEN [headers EXCEPT !.recycled = @ + 1] ELSE headers
        PROVE  \E n \in DOMAIN blocks[k].nodes : \E c \in BlockType :
                  /\ headers' = IF n < Len(blocks[k].nodes)
                                THEN [headers EXCEPT !.recycled = @ + 1] ELSE headers
                  /\ FreeEffect(blocks[k], c, n) /\ BlockOK(c)
                  /\ c.kind = blocks[k].kind /\ c.mask = blocks[k].mask
                  /\ blocks' = [blocks EXCEPT ![k] = c]
    <3> DEFINE c == HeapFreeAddressInNode(blocks[k], i)
    <3>1. i \in DOMAIN blocks[k].nodes
      BY DEF First, MatchingNodes
    <3>2. c \in BlockType /\ FreeEffect(blocks[k], c, i)
      BY <2>2, <3>1, FreeTypes, FreeFacts
    <3>3. blocks' = [blocks EXCEPT ![k] = c]
      BY <2>3
    <3>4. c.kind = blocks[k].kind /\ c.mask = blocks[k].mask
      BY <2>2 DEF HeapFreeAddressInNode, BlockType
    <3> HIDE DEF c
    <3>5. BlockOK(c)
      BY <2>2, <3>1, <3>2, FreeKeepsBlock
    <3>6. headers' = IF i < Len(blocks[k].nodes)
                     THEN [headers EXCEPT !.recycled = @ + 1] ELSE headers
      BY <2>3, <3>2 DEF FreeEffect, MergesOn
    <3> QED BY <3>1, <3>2, <3>3, <3>4, <3>5, <3>6
  <2>4. \/ blocks' = blocks /\ headers' = headers
        \/ \E i \in First(MatchingNodes(blocks[k], held[h].ptr)) :
              /\ blocks' = [blocks EXCEPT ![k] = HeapFreeAddressInNode(blocks[k], i)]
              /\ headers' = IF MergesBack(blocks[k], i) \/ MergesOn(blocks[k], i)
                            THEN [headers EXCEPT !.recycled = @ + 1] ELSE headers
    BY <2>1 DEF HeapFree
  <2> QED BY <1>2, <2>2, <2>3, <2>4 DEF kfree
<1> QED
  BY <1>1, <1>2 DEF kfree

LEMMA Inserted ==
    ASSUME NEW X, NEW s \in Seq(X), NEW i \in 1..Len(s), NEW e \in X
    PROVE  InsertAt(s, i, e)[i] = e
<1> DEFINE a == SubSeq(s, 1, i-1)
           c == a \o <<e>>
           b == SubSeq(s, i, Len(s))
<1>0. Len(s) \in Nat
  BY LenProperties
<1>1. a \in Seq(X) /\ Len(a) = i-1 /\ b \in Seq(X) /\ Len(b) = Len(s)-i+1
  BY SubSeqProperties, ElementOfSeq, <1>0
<1>2. c \in Seq(X) /\ Len(c) = i /\ c[i] = e
  <2> HIDE DEF a
  <2>1. <<e>> \in Seq(X) /\ Len(<<e>>) = 1 /\ <<e>>[1] = e
    OBVIOUS
  <2> QED BY <1>0, <1>1, <2>1, ConcatProperties
<1>3. InsertAt(s, i, e) = c \o b
  BY DEF InsertAt
<1> HIDE DEF a, b, c
<1>4. (c \o b)[i] = c[i]
  BY <1>0, <1>1, <1>2, ConcatProperties
<1> QED BY <1>2, <1>3, <1>4

(* A cut without padding is as long as what was asked for. *)
LEMMA UnpaddedCut ==
    ASSUME NEW b \in BlockType, NEW i \in DOMAIN b.nodes, NEW size \in 1..SIZE_MOD-1, NEW align,
           ~NeedsPadding(b.nodes[i], align)
    PROVE  LET c == HeapAllocateSizeInBlock(b, i, size, align) IN
           /\ AllocatedAddress(b, i, size, align) = b.nodes[i].addr
           /\ Len(c.nodes) = Len(b.nodes) \/ c.nodes[i].len = size
<1> DEFINE n == b.nodes[i]
           c == HeapAllocateSizeInBlock(b, i, size, align)
<1>1. b.nodes \in Seq(NodeType) /\ i \in 1..Len(b.nodes) /\ Len(b.nodes) \in Nat
  BY LenProperties DEF BlockType
<1>2. n \in NodeType /\ n.addr \in Nat /\ n.len \in 0..SIZE_MOD-1
  <2>1. n \in NodeType
    BY <1>1, ElementOfSeq
  <2> QED BY <2>1 DEF NodeType
<1>3. size \in 0..SIZE_MOD-1 /\ size \in Nat /\ SIZE_MOD \in Nat
  BY HeapSizes
<1>4. Padding(n, align) = 0 /\ SizeAdd(size, 0) = size
  BY <1>3 DEF Padding, SizeAdd
<1>5. AllocatedAddress(b, i, size, align) = n.addr
  BY <1>2, <1>4 DEF AllocatedAddress
<1>6. CASE ~Splits(b, i, size)
  <2>1. c.nodes = [b.nodes EXCEPT ![i].alloc = TRUE]
    BY <1>6 DEF HeapAllocateSizeInBlock, TakeWhole, BlockType
  <2>2. [n EXCEPT !.alloc = TRUE] \in NodeType
    BY <1>2 DEF NodeType
  <2>3. Len(c.nodes) = Len(b.nodes)
    <3> DEFINE x == [n EXCEPT !.alloc = TRUE]
    <3>1. c.nodes = [b.nodes EXCEPT ![i] = x]
      BY <2>1
    <3> HIDE DEF c, x
    <3> QED BY <1>1, <3>1, LenProperties, ExceptSeq
  <2> QED BY <1>5, <2>3
<1>7. CASE Splits(b, i, size)
  <2> DEFINE new  == [addr |-> n.addr, len |-> size, alloc |-> TRUE]
             rest == [n EXCEPT !.addr = n.addr + size, !.len = SizeSub(@, size)]
  <2>1. c = [b EXCEPT !.nodes = InsertAt(ReplaceAt(b.nodes, i, rest), i, new)]
    BY <1>4, <1>7 DEF HeapAllocateSizeInBlock, TakeFront
  <2>2. new \in NodeType
    BY <1>2, <1>3 DEF NodeType
  <2>3. rest \in NodeType
    <3>1. SizeSub(n.len, size) \in 0..SIZE_MOD-1
      BY <1>2, <1>3, SizeFacts
    <3>2. n.addr + size \in Nat
      BY <1>2, <1>3
    <3> QED BY <1>2, <3>1, <3>2 DEF NodeType
  <2>4. new.len = size
    OBVIOUS
  <2> HIDE DEF new, rest
  <2>5. ReplaceAt(b.nodes, i, rest) \in Seq(NodeType) /\ Len(ReplaceAt(b.nodes, i, rest)) = Len(b.nodes)
    BY <1>1, <2>3, ExceptSeq DEF ReplaceAt
  <2>6. InsertAt(ReplaceAt(b.nodes, i, rest), i, new)[i] = new
    <3> DEFINE s == ReplaceAt(b.nodes, i, rest)
    <3>1. s \in Seq(NodeType) /\ i \in 1..Len(s)
      BY <1>1, <2>5
    <3> HIDE DEF s
    <3>2. InsertAt(s, i, new)[i] = new
      BY <2>2, <3>1, Inserted
    <3> QED BY <3>2 DEF s
  <2>7. c.nodes[i] = new
    BY <2>1, <2>6 DEF BlockType
  <2> QED BY <1>5, <2>4, <2>7
<1> QED
  BY <1>6, <1>7

(* The bounds of every block, and the nodes of blocks that serve whole pages *)
(* lie on page boundaries.                                                   *)
PagedBlock(b) ==
    /\ IsAligned(b.start, PAGE_SIZE) /\ IsAligned(b.end + 1, PAGE_SIZE)
    /\ b.kind # "normal" => \A j \in DOMAIN b.nodes : IsAligned(b.nodes[j].addr, PAGE_SIZE)

PagedRequest(r) ==
    /\ r.asked.page => r.page
    /\ r.big \/ (r.page /\ r.size >= HEAP_LARGE_BLOCK) => IsAligned(r.size, PAGE_SIZE)

PagedInv ==
    /\ IsAligned(memStartData, PAGE_SIZE)
    /\ \A k \in DOMAIN blocks : PagedBlock(blocks[k])
    /\ pending # None => PagedRequest(pending)
    /\ PagesAligned

(* Adjusted requests that normal blocks do not serve ask for whole pages. *)
LEMMA AdjustedPaged ==
    ASSUME NEW r \in PendingType, Sized(r), PagedRequest(r)
    PROVE  /\ PagedRequest(Adjusted(r))
           /\ KindOf(Adjusted(r)) # "normal" => IsAligned(Adjusted(r).size, PAGE_SIZE)
           /\ Adjusted(r).asked.page => KindOf(Adjusted(r)) # "normal"
<1> DEFINE large == ~r.page /\ ~r.big /\ r.size >= HEAP_NORMAL_BLOCK
           size  == IF large THEN AlignUp(r.size, PAGE_SIZE) ELSE r.size
           page  == r.page \/ large
           big   == r.big \/ size >= HEAP_LARGE_BLOCK
           final == IF page /\ ~big THEN AlignUp(size, PAGE_SIZE) ELSE size
<1>1. /\ r.size \in Nat /\ PAGE_SIZE \in Nat \ {0} /\ HEAP_LARGE_BLOCK \in Nat
      /\ HEAP_NORMAL_BLOCK \in Nat /\ HEAP_NORMAL_BLOCK <= HEAP_LARGE_BLOCK
  BY HeapSizes DEF PendingType
<1>2. ASSUME NEW v \in Nat
      PROVE  AlignUp(v, PAGE_SIZE) \in Nat /\ AlignUp(v, PAGE_SIZE) % PAGE_SIZE = 0
  BY <1>1, AlignUpFacts
<1>3. size \in Nat /\ (large => size % PAGE_SIZE = 0) /\ (~large => size = r.size)
  BY <1>1, <1>2
<1> HIDE DEF size
<1>4. (page /\ ~big => final % PAGE_SIZE = 0) /\ (~(page /\ ~big) => final = size)
  BY <1>2, <1>3
<1>5. Adjusted(r) = [r EXCEPT !.page = page, !.big = big, !.size = final]
  BY DEF Adjusted, size
<1> HIDE DEF final
<1>6. /\ r.asked.page => r.page
      /\ r.big \/ (r.page /\ r.size >= HEAP_LARGE_BLOCK) => r.size % PAGE_SIZE = 0
  BY DEF PagedRequest, IsAligned
<1>7. big => final % PAGE_SIZE = 0
  <2>1. ASSUME big, ~large PROVE size % PAGE_SIZE = 0
    <3>1. size = r.size /\ (r.big \/ r.size >= HEAP_LARGE_BLOCK)
      BY <2>1, <1>3
    <3>2. r.page \/ r.big
      BY <2>1, <3>1, <1>1
    <3> QED BY <3>1, <3>2, <1>6
  <2> QED BY <1>3, <1>4, <2>1
<1>8. page \in BOOLEAN /\ big \in BOOLEAN
  BY DEF PendingType
<1>9. r.page => page
  OBVIOUS
<1> HIDE DEF page, big
<1>10. /\ Adjusted(r).size = final /\ Adjusted(r).page = page /\ Adjusted(r).big = big
       /\ Adjusted(r).asked = r.asked
  BY <1>5 DEF PendingType
<1> QED
  BY <1>4, <1>6, <1>7, <1>9, <1>10 DEF PagedRequest, IsAligned, KindOf

LEMMA RoundedRequests == PagesRounded => RequestsRounded
<1> SUFFICES ASSUME PagesRounded, NEW c \in Requests, c.page, c.size >= HEAP_LARGE_BLOCK
             PROVE  c.size % HEAP_STANDARD_ALIGN = 0
  BY DEF RequestsRounded, IsAligned
<1>1. c.size \in Nat /\ c.size % PAGE_SIZE = 0
  <2>1. c.size \in Nat
    BY HeapRequests, HeapSizes
  <2> QED BY <2>1 DEF PagesRounded, IsAligned
<1> QED
  BY <1>1, Multiples, HeapSizes, HeapAlignment

LEMMA PagedInit == Init => PagedInv
<1> SUFFICES ASSUME Init PROVE PagedInv
  OBVIOUS
<1> DEFINE data == MEMORY_LOCATION_HEAP + MEMORY_STATIC_OFFSET
           b1   == NewBlock(data, HEAP_NORMAL_BLOCK, MASK, "normal")
           b2   == NewBlock(data + HEAP_NORMAL_BLOCK, HEAP_LARGE_BLOCK, MASK, "page")
<1>1. /\ data \in Nat /\ HEAP_NORMAL_BLOCK \in Nat /\ HEAP_LARGE_BLOCK \in Nat
      /\ PAGE_SIZE \in Nat \ {0}
  BY HeapSizes
<1>2. /\ data % PAGE_SIZE = 0 /\ HEAP_NORMAL_BLOCK % PAGE_SIZE = 0
      /\ HEAP_LARGE_BLOCK % PAGE_SIZE = 0
  BY HeapPages
<1>3. blocks = <<b1, b2>> /\ memStartData = data + HEAP_NORMAL_BLOCK + HEAP_LARGE_BLOCK
      /\ pending = None /\ \A h \in Holders : held[h] = None
  BY DEF Init
<1> HIDE DEF data
<1>4. (data + HEAP_NORMAL_BLOCK) % PAGE_SIZE = 0
  BY <1>1, <1>2, Multiples
<1>5. data + HEAP_NORMAL_BLOCK \in Nat
  BY <1>1
<1>6. (data + HEAP_NORMAL_BLOCK + HEAP_LARGE_BLOCK) % PAGE_SIZE = 0
  BY <1>1, <1>2, <1>4, <1>5, Multiples
<1>7. PagedBlock(b1)
  BY <1>1, <1>2, <1>4 DEF PagedBlock, NewBlock, IsAligned
<1>8. PagedBlock(b2)
  BY <1>1, <1>4, <1>5, <1>6 DEF PagedBlock, NewBlock, IsAligned
<1> HIDE DEF b1, b2
<1> QED
  BY <1>3, <1>6, <1>7, <1>8 DEF PagedInv, PagesAligned, Owners, IsAligned

(* A block that is cut keeps its node boundaries on pages. *)
LEMMA PagedAnswer ==
    ASSUME NEW r, NEW k, NEW i, Answered(r, k, i), PagedBlock(blocks[k]), PagedRequest(pending),
           Sized(pending)
    PROVE  LET c    == HeapAllocateSizeInBlock(blocks[k], i, r.size, r.align)
               addr == AllocatedAddress(blocks[k], i, r.size, r.align)
           IN  PagedBlock(c) /\ (r.asked.page => IsAligned(addr, PAGE_SIZE))
<1> DEFINE b    == blocks[k]
           n    == b.nodes[i]
           c    == HeapAllocateSizeInBlock(b, i, r.size, r.align)
           addr == AllocatedAddress(b, i, r.size, r.align)
<1>1. /\ b \in BlockType /\ BlockOK(b) /\ i \in DOMAIN b.nodes /\ c \in BlockType
      /\ AllocEffect(b, c, i, addr, r.size) /\ b.kind = KindOf(r)
      /\ r.size \in 1..SIZE_MOD-1 /\ r.align \in {0, HEAP_STANDARD_ALIGN}
      /\ pending \in PendingType /\ r = Adjusted(pending)
  BY DEF Answered, Sized
<1>2. /\ b.kind # "normal" => r.size % PAGE_SIZE = 0
      /\ r.asked.page => b.kind # "normal"
  BY <1>1, AdjustedPaged DEF IsAligned
<1>3. c.kind = b.kind /\ c.start = b.start /\ c.end = b.end
  BY <1>1 DEF HeapAllocateSizeInBlock, TakeFront, TakeWhole, BlockType
<1>4. CASE b.kind = "normal"
  <2> HIDE DEF b, c, addr
  <2>1. PagedBlock(b)
    BY DEF b
  <2> QED BY <1>2, <1>3, <1>4, <2>1 DEF PagedBlock, b, c, addr
<1>5. CASE b.kind # "normal"
  <2>1. /\ \A j \in 1..Len(b.nodes) : b.nodes[j].addr \in Nat
        /\ i \in 1..Len(b.nodes) /\ Len(b.nodes) \in Nat
        /\ DOMAIN b.nodes = 1..Len(b.nodes) /\ DOMAIN c.nodes = 1..Len(c.nodes)
        /\ Len(c.nodes) \in Nat
    BY <1>1, NodeTypes
  <2>2. \A j \in 1..Len(b.nodes) : b.nodes[j].addr % PAGE_SIZE = 0
    BY <1>5, <2>1 DEF PagedBlock, IsAligned
  <2>3. n.addr % HEAP_STANDARD_ALIGN = 0
    BY <2>1, <2>2, Multiples, HeapSizes, HeapAlignment
  <2>4. ~NeedsPadding(n, r.align)
    BY <1>1, <2>3 DEF NeedsPadding, IsAligned
  <2>5. addr = n.addr /\ (Len(c.nodes) = Len(b.nodes) \/ c.nodes[i].len = r.size)
    BY <1>1, <2>4, UnpaddedCut
  <2>6. /\ i = Len(b.nodes) /\ Len(c.nodes) \in {i, i+1} /\ c.nodes[i].addr = n.addr
        /\ \A j \in 1..i-1 : c.nodes[j] = b.nodes[j]
        /\ Len(c.nodes) = i+1 => c.nodes[i+1].addr = c.nodes[i].addr + c.nodes[i].len
    BY <1>1 DEF AllocEffect
  <2> HIDE DEF b, c, addr
  <2>7. \A j \in 1..Len(c.nodes) : c.nodes[j].addr % PAGE_SIZE = 0
    <3>1. TAKE j \in 1..Len(c.nodes)
    <3>2. CASE j < i
      BY <2>1, <2>2, <2>6, <3>2
    <3>3. CASE j = i
      BY <2>1, <2>2, <2>6, <3>3
    <3>4. CASE j = i+1
      <4>1. Len(c.nodes) = i+1 /\ Len(c.nodes) # Len(b.nodes)
        BY <2>1, <2>6, <3>4
      <4>2. c.nodes[j].addr = n.addr + r.size /\ n.addr % PAGE_SIZE = 0 /\ n.addr \in Nat
        BY <2>1, <2>2, <2>5, <2>6, <3>4, <4>1
      <4>3. r.size \in Nat /\ r.size % PAGE_SIZE = 0
        BY <1>1, <1>2, <1>5, HeapSizes
      <4> HIDE DEF n
      <4>4. (n.addr + r.size) % PAGE_SIZE = 0
        BY <4>2, <4>3, HeapSizes, Multiples
      <4> QED BY <4>2, <4>4
    <3> QED BY <2>1, <2>6, <3>2, <3>3, <3>4
  <2>8. PagedBlock(b) /\ n.addr % PAGE_SIZE = 0
    BY <2>1, <2>2 DEF b
  <2> QED BY <1>3, <2>1, <2>5, <2>7, <2>8 DEF PagedBlock, IsAligned, b, c, addr
<1> QED
  BY <1>4, <1>5

(* A block that takes a node back keeps its node boundaries on pages. *)
LEMMA PagedFree ==
    ASSUME NEW b \in BlockType, NEW c \in BlockType, NEW i \in DOMAIN b.nodes,
           FreeEffect(b, c, i), c.kind = b.kind, PagedBlock(b)
    PROVE  PagedBlock(c)
<1>1. /\ DOMAIN b.nodes = 1..Len(b.nodes) /\ DOMAIN c.nodes = 1..Len(c.nodes)
      /\ Len(c.nodes) \in Nat /\ Len(b.nodes) \in Nat
  BY NodeTypes
<1>2. /\ c.start = b.start /\ c.end = b.end /\ c.nodes[i].addr = b.nodes[i].addr
      /\ \A j \in 1..i-1 : c.nodes[j] = b.nodes[j]
      /\ i < Len(b.nodes) => /\ Len(c.nodes) = Len(b.nodes) - 1
                              /\ \A j \in i+1..Len(b.nodes)-1 : c.nodes[j] = b.nodes[j+1]
      /\ i = Len(b.nodes) => Len(c.nodes) = Len(b.nodes)
  BY DEF FreeEffect
<1>3. \A j \in DOMAIN c.nodes : \E l \in DOMAIN b.nodes : c.nodes[j].addr = b.nodes[l].addr
  <2>1. TAKE j \in DOMAIN c.nodes
  <2>2. CASE j < i
    <3>1. j \in DOMAIN b.nodes /\ c.nodes[j].addr = b.nodes[j].addr
      BY <1>1, <1>2, <2>2
    <3> QED BY <3>1
  <2>3. CASE j = i
    BY <1>2, <2>3
  <2>4. CASE j > i
    <3>1. j+1 \in DOMAIN b.nodes /\ c.nodes[j].addr = b.nodes[j+1].addr
      BY <1>1, <1>2, <2>4
    <3> QED BY <3>1
  <2> QED BY <1>1, <2>2, <2>3, <2>4
<1> QED
  BY <1>2, <1>3 DEF PagedBlock

LEMMA PagedStep ==
    PagesRounded /\ TypeInv /\ Sound /\ PagedInv /\ [Next]_vars => PagedInv'
<1> SUFFICES ASSUME PagesRounded, TypeInv, Sound, PagedInv, [Next]_vars PROVE PagedInv'
  OBVIOUS
<1> DEFINE BlocksPaged == \A k \in DOMAIN blocks : PagedBlock(blocks[k])
           HeldPaged == \A h \in Holders : held[h] # None /\ held[h].page => IsAligned(held[h].ptr, PAGE_SIZE)
<1>0. /\ IsAligned(memStartData, PAGE_SIZE) /\ BlocksPaged /\ HeldPaged
      /\ pending # None => PagedRequest(pending)
      /\ held \in [Holders -> HeldType \cup {None}] /\ blocks \in Seq(BlockType) /\ Structure(blocks)
  BY DEF PagedInv, PagesAligned, Owners, TypeInv, TypeOK, Sound, Shape
<1>1. ASSUME IsAligned(memStartData', PAGE_SIZE), BlocksPaged', HeldPaged',
             pending' # None => PagedRequest(pending')
      PROVE  PagedInv'
  BY <1>1 DEF PagedInv, PagesAligned, Owners
<1>2. CASE UNCHANGED <<blocks, memStartData, held, pending>>
  BY <1>0, <1>1, <1>2
<1>3. ASSUME NEW h \in Holders, NEW c \in Requests, Call(h, c) PROVE PagedInv'
  <2>1. UNCHANGED <<blocks, memStartData, held>>
    BY <1>3 DEF Call
  <2>2. /\ pending'.asked = c /\ pending'.page = c.page /\ pending'.big = FALSE
        /\ pending'.size = c.size
    BY <1>3 DEF Call
  <2>3. PagedRequest(pending')
    BY <2>2 DEF PagedRequest, PagesRounded
  <2> QED BY <1>0, <1>1, <2>1, <2>3
<1>4. ASSUME NEW k \in DOMAIN blocks, NEW c \in BlockType, BlockOK(c), PagedBlock(c),
             c.start = blocks[k].start, c.end = blocks[k].end,
             blocks' = [blocks EXCEPT ![k] = c]
      PROVE  BlocksPaged'
  <2>1. /\ DOMAIN blocks' = DOMAIN blocks /\ blocks'[k] = c
        /\ \A l \in DOMAIN blocks : l # k => blocks'[l] = blocks[l]
    BY <1>0, <1>4, ReplaceBlock
  <2> QED BY <1>0, <1>4, <2>1
<1>5. ASSUME NEW h \in Holders, kfree(h) PROVE PagedInv'
  <2>1. CASE Crash
    BY <1>2, <2>1 DEF Crash
  <2>2. CASE held' = [held EXCEPT ![h] = None] /\ UNCHANGED <<memStartData, mapped, pending>>
             /\ (blocks' = blocks \/
                  \E k \in DOMAIN blocks : \E i \in DOMAIN blocks[k].nodes : \E c \in BlockType :
                     /\ blocks[k] \in BlockType /\ FreeEffect(blocks[k], c, i)
                     /\ BlockOK(c) /\ c.kind = blocks[k].kind /\ c.mask = blocks[k].mask
                     /\ blocks' = [blocks EXCEPT ![k] = c])
    <3>1. HeldPaged'
      <4>1. \A g \in Holders : held'[g] # None => held'[g] = held[g]
        BY <1>0, <2>2
      <4> QED BY <1>0, <4>1
    <3>2. ASSUME NEW k \in DOMAIN blocks, NEW i \in DOMAIN blocks[k].nodes, NEW c \in BlockType,
                 blocks[k] \in BlockType, FreeEffect(blocks[k], c, i), BlockOK(c),
                 c.kind = blocks[k].kind, blocks' = [blocks EXCEPT ![k] = c]
          PROVE  BlocksPaged'
      <4>1. PagedBlock(c)
        BY <1>0, <3>2, PagedFree
      <4>2. c.start = blocks[k].start /\ c.end = blocks[k].end
        BY <3>2 DEF FreeEffect
      <4> HIDE DEF BlocksPaged
      <4> QED BY <1>4, <3>2, <4>1, <4>2
    <3>3. BlocksPaged'
      BY <1>0, <2>2, <3>2
    <3> QED BY <1>0, <1>1, <2>2, <3>1, <3>3
  <2> QED BY <1>5, <2>1, <2>2, KfreeBlocks
<1>6. ASSUME NEW r, NEW k, NEW i, Answered(r, k, i) PROVE PagedInv'
  <2> DEFINE c    == HeapAllocateSizeInBlock(blocks[k], i, r.size, r.align)
             addr == AllocatedAddress(blocks[k], i, r.size, r.align)
             m    == [ptr |-> addr, size |-> r.asked.size,
                      page |-> r.asked.page, mask |-> r.asked.mask]
  <2>1. /\ k \in DOMAIN blocks /\ i \in DOMAIN blocks[k].nodes /\ c \in BlockType
        /\ AllocEffect(blocks[k], c, i, addr, r.size)
        /\ pending # None /\ blocks[k] \in BlockType /\ BlockOK(blocks[k])
    BY <1>6 DEF Answered
  <2>2. Sized(pending) /\ PagedRequest(pending) /\ PagedBlock(blocks[k])
    BY <1>0, <2>1 DEF TypeInv
  <2>3. PagedBlock(c) /\ (r.asked.page => IsAligned(addr, PAGE_SIZE))
    BY <1>6, <2>2, PagedAnswer
  <2>4. /\ blocks' = [blocks EXCEPT ![k] = c] /\ memStartData' = memStartData
        /\ held' = [held EXCEPT ![r.holder] = m] /\ pending' = None /\ r.holder \in Holders
    BY <1>6, AnsweredFacts
  <2>5. m.ptr = addr /\ m.page = r.asked.page
    OBVIOUS
  <2> HIDE DEF c, addr, m
  <2>6. BlockOK(c) /\ c.start = blocks[k].start /\ c.end = blocks[k].end
    <3>1. BlockOK(c)
      BY <2>1, AllocKeepsBlock
    <3> QED BY <2>1, <3>1 DEF AllocEffect
  <2>7. BlocksPaged'
    <3> HIDE DEF BlocksPaged
    <3> QED BY <1>4, <2>1, <2>3, <2>4, <2>6
  <2>8. HeldPaged'
    <3>1. ASSUME NEW g \in Holders, held'[g] # None, held'[g].page
          PROVE  IsAligned(held'[g].ptr, PAGE_SIZE)
      <4>1. CASE g = r.holder
        <5>1. held'[g] = m
          BY <1>0, <2>4, <4>1
        <5> QED BY <2>3, <2>5, <3>1, <5>1
      <4>2. CASE g # r.holder
        <5>1. held'[g] = held[g]
          BY <1>0, <2>4, <4>2
        <5> QED BY <1>0, <3>1, <5>1
      <4> QED BY <4>1, <4>2
    <3> QED BY <3>1
  <2> QED BY <1>0, <1>1, <2>4, <2>7, <2>8
<1>7. ASSUME Expanded(Adjusted(pending)) PROVE PagedInv'
  <2> DEFINE r == Adjusted(pending)
             L == Len(blocks)
             s == ExpansionSize(r)
             b == NewBlock(memStartData, s, r.mask, KindOf(r))
  <2>1. /\ pending \in PendingType /\ Sized(pending) /\ PagedRequest(pending)
        /\ DOMAIN blocks = 1..L /\ L \in Nat /\ DOMAIN blocks' = 1..L+1 /\ blocks'[L+1] = b
        /\ \A l \in DOMAIN blocks : blocks'[l] = blocks[l]
        /\ s \in 1..SIZE_MOD-1 /\ memStartData' = memStartData + s
        /\ pending' = [r EXCEPT !.expansions = r.expansions + 1] /\ r \in PendingType
        /\ held' = held
    BY <1>0, <1>7 DEF Expanded
  <2>2. PagedRequest(r) /\ (KindOf(r) # "normal" => r.size % PAGE_SIZE = 0)
    BY <2>1, AdjustedPaged DEF IsAligned
  <2> HIDE DEF r, L
  <2>3. PagedRequest(pending')
    <3>1. /\ pending'.asked = r.asked /\ pending'.page = r.page /\ pending'.big = r.big
          /\ pending'.size = r.size
      BY <2>1 DEF PendingType
    <3> QED BY <2>2, <3>1 DEF PagedRequest
  <2>4. s % PAGE_SIZE = 0 /\ s \in Nat /\ memStartData \in Nat /\ memStartData % PAGE_SIZE = 0
    <3>1. KindOf(r) \in {"custom", "page", "normal"}
      BY DEF KindOf
    <3>2. s % PAGE_SIZE = 0
      BY <2>2, <3>1, HeapPages DEF ExpansionSize
    <3>3. s \in Nat /\ memStartData \in Nat
      BY <2>1, HeapSizes DEF TypeInv, TypeOK
    <3> QED BY <1>0, <3>2, <3>3 DEF IsAligned
  <2>5. (memStartData + s) % PAGE_SIZE = 0
    <3> HIDE DEF s
    <3> QED BY <2>4, Multiples, HeapSizes
  <2>6. PagedBlock(b)
    <3> HIDE DEF s
    <3> QED BY <2>4, <2>5 DEF PagedBlock, NewBlock, IsAligned
  <2> HIDE DEF b, s
  <2>7. BlocksPaged'
    BY <1>0, <2>1, <2>6
  <2>8. HeldPaged'
    BY <1>0, <2>1
  <2> QED BY <1>1, <2>1, <2>3, <2>5, <2>7, <2>8 DEF IsAligned
<1> HIDE DEF BlocksPaged, HeldPaged
<1>8. ASSUME Crash PROVE PagedInv'
  BY <1>2, <1>8 DEF Crash
<1>9. CASE Serve
  <2>1. PICK r, k, i : Crash \/ Answered(r, k, i)
    BY <1>9, ServeFacts
  <2> QED BY <1>6, <1>8, <2>1
<1>10. CASE Expand
  <2>1. Crash \/ Expanded(Adjusted(pending))
    BY <1>10, ExpandFacts
  <2> QED BY <1>7, <1>8, <2>1
<1>11. CASE UNCHANGED vars
  BY <1>2, <1>11 DEF vars
<1> QED
  BY <1>3, <1>5, <1>9, <1>10, <1>11 DEF Next

(* Clients that ask for whole pages when they ask for much get pages: the    *)
(* alignment that page requests do not pass to the search follows from every *)
(* cut, merge and expansion of the blocks that serve them.                   *)
THEOREM HeapPaged == ASSUME PagesRounded PROVE Spec => []PagesAligned
<1>1. Init => TypeInv /\ Sound /\ PagedInv
  BY TypeInit, SoundInit, PagedInit
<1>2. TypeInv /\ Sound /\ PagedInv /\ [Next]_vars => TypeInv' /\ Sound' /\ PagedInv'
  BY TypeNext, SoundNext, PagedStep, RoundedRequests DEF TypeInv
<1>3. PagedInv => PagesAligned
  BY DEF PagedInv
<1> QED
  BY <1>1, <1>2, <1>3, PTL DEF Spec
---------------------------------------------------------------------------
(* The heap is an allocator                                                *)

(* The invariant of all the theorems above, under which steps are compared. *)
PromiseInv == TypeInv /\ Sound /\ PagedInv /\ WaitsEmpty /\ NoOverlap

LEMMA WaitingIsSome ==
    ASSUME NEW r \in PendingType PROVE [holder |-> r.holder, asked |-> r.asked] # None
BY NoneIsNoRecord DEF PendingType

(* An answered request is an answer of the abstract allocator. *)
LEMMA AnswerRefines ==
    ASSUME PromiseInv, PromiseInv', NEW r, NEW k, NEW i, Answered(r, k, i)
    PROVE  A!Answer
<1> DEFINE addr == AllocatedAddress(blocks[k], i, r.size, r.align)
           m    == [ptr |-> addr, size |-> r.asked.size,
                    page |-> r.asked.page, mask |-> r.asked.mask]
           w    == [holder |-> pending.holder, asked |-> pending.asked]
<1>1. /\ held' = [held EXCEPT ![r.holder] = m] /\ pending' = None /\ pending # None
      /\ r.holder \in Holders /\ m \in HeldType /\ m.size > 0
      /\ r.holder = pending.holder /\ r.asked = pending.asked /\ pending \in PendingType
  BY AnsweredFacts DEF Answered
<1>2. w # None /\ w.holder = r.holder /\ w.asked = r.asked
  BY <1>1, WaitingIsSome
<1>3. held \in [Holders -> HeldType \cup {None}] /\ held[r.holder] = None
  BY <1>1 DEF PromiseInv, TypeInv, TypeOK, WaitsEmpty
<1>4. held'[r.holder] = m /\ m # None
  BY <1>1, <1>3, NoneIsNoRecord DEF HeldType
<1>5. m.size = r.asked.size /\ m.page = r.asked.page /\ m.mask = r.asked.mask
  OBVIOUS
<1> HIDE DEF m
<1>6. m.page => m.ptr % PAGE_SIZE = 0
  <2>1. PagesAligned'
    BY DEF PromiseInv, PagedInv
  <2> QED BY <1>1, <1>4, <2>1 DEF PagesAligned, Owners, IsAligned
<1>7. ASSUME NEW h \in Holders, held[h] # None
      PROVE  held[h].ptr + held[h].size <= m.ptr \/ m.ptr + m.size <= held[h].ptr
  <2>1. h # r.holder /\ held'[h] = held[h]
    BY <1>1, <1>3, <1>7
  <2>2. NoOverlap'
    BY DEF PromiseInv
  <2> QED BY <1>1, <1>4, <1>7, <2>1, <2>2 DEF NoOverlap, Owners
<1> HIDE DEF w
<1>8. /\ w # None /\ held'[w.holder] = m /\ m \in A!Memory /\ A!Answers(m, w.asked)
      /\ \A h \in Holders : held[h] # None => A!Disjoint(held[h], m)
      /\ held' = [held EXCEPT ![w.holder] = m]
  BY <1>1, <1>2, <1>4, <1>5, <1>6, <1>7 DEF HeldType, A!Memory, A!Answers, A!Disjoint
<1>9. /\ (IF pending = None THEN None ELSE w) = w
      /\ (IF pending' = None THEN None
          ELSE [holder |-> pending'.holder, asked |-> pending'.asked]) = None
  BY <1>1
<1> QED
  BY <1>8, <1>9 DEF A!Answer, w

LEMMA StepRefines ==
    ASSUME PromiseInv, PromiseInv', [Next]_vars PROVE [A!Next]_(A!vars)
<1>1. ASSUME UNCHANGED <<held, pending>> PROVE UNCHANGED A!vars
  BY <1>1 DEF A!vars
<1>2. ASSUME NEW h \in Holders, NEW c \in Requests, Call(h, c) PROVE A!Ask(h, c)
  <2>1. pending = None /\ held[h] = None /\ held' = held
    BY <1>2 DEF Call
  <2>2. pending'.holder = h /\ pending'.asked = c
    BY <1>2 DEF Call
  <2>3. pending' # None
    <3>1. pending' \in PendingType
      BY <1>2, CallPending
    <3> QED BY <3>1, NoneIsNoRecord
  <2> QED BY <2>1, <2>2, <2>3 DEF A!Ask
<1>3. ASSUME NEW h \in Holders, kfree(h) PROVE A!Free(h) \/ UNCHANGED <<held, pending>>
  <2>1. pending = None /\ held[h] # None
    BY <1>3 DEF kfree
  <2>2. Crash \/ (held' = [held EXCEPT ![h] = None] /\ pending' = pending)
    BY <1>3 DEF kfree
  <2> QED BY <2>1, <2>2 DEF A!Free, Crash
<1>4. CASE Serve
  <2>1. Crash \/ A!Answer
    <3>1. PICK r, k, i : Crash \/ Answered(r, k, i)
      BY <1>4, ServeFacts DEF PromiseInv
    <3> QED BY <3>1, AnswerRefines
  <2> QED BY <1>1, <2>1 DEF A!Next, Crash
<1>5. CASE Expand
  <2>1. Crash \/ Expanded(Adjusted(pending))
    BY <1>5, ExpandFacts DEF PromiseInv
  <2>2. ASSUME Expanded(Adjusted(pending))
        PROVE  /\ held' = held /\ pending # None /\ pending' # None
               /\ pending'.holder = pending.holder /\ pending'.asked = pending.asked
    <3> DEFINE r == Adjusted(pending)
    <3>1. /\ r \in PendingType /\ r.holder = pending.holder /\ r.asked = pending.asked
          /\ held' = held /\ pending # None
          /\ pending' = [r EXCEPT !.expansions = r.expansions + 1]
      BY <2>2 DEF Expanded
    <3> HIDE DEF r
    <3>2. pending' \in PendingType
      BY <3>1 DEF PendingType
    <3> QED BY <3>1, <3>2, NoneIsNoRecord DEF PendingType
  <2> QED BY <1>1, <2>1, <2>2 DEF A!vars, Crash
<1> QED
  BY <1>1, <1>2, <1>3, <1>4, <1>5 DEF Next, A!Next, vars

(* For every number of clients, page size, block size and set of requests,   *)
(* what the clients see of kmalloc and kfree is the abstract allocator: one  *)
(* answer to each call, of the size and the alignment asked for, out of no   *)
(* one else's memory, and nothing taken away that was not freed.             *)
THEOREM HeapImplements == ASSUME PagesRounded PROVE Spec => ImplementsAllocator
<1>1. Init => TypeInv /\ Sound /\ PagedInv /\ WaitsEmpty
  <2>1. Init => WaitsEmpty
    BY DEF Init, WaitsEmpty
  <2> QED BY <2>1, TypeInit, SoundInit, PagedInit
<1>2. TypeInv /\ Sound /\ PagedInv /\ WaitsEmpty /\ [Next]_vars
      => TypeInv' /\ Sound' /\ PagedInv' /\ WaitsEmpty'
  BY TypeNext, SoundNext, PagedStep, WaitsStep, RoundedRequests DEF TypeInv
<1>3. TypeInv /\ Sound /\ PagedInv /\ WaitsEmpty => PromiseInv
  BY ApartIfSound DEF PromiseInv, TypeInv
<1>4. Init => A!Init
  BY DEF Init, A!Init
<1>5. PromiseInv /\ PromiseInv' /\ [Next]_vars => [A!Next]_(A!vars)
  BY StepRefines
<1> QED
  BY <1>1, <1>2, <1>3, <1>4, <1>5, PTL DEF Spec, ImplementsAllocator, A!Spec
---------------------------------------------------------------------------
(* One expansion is enough                                                 *)

(* A request that adjusting leaves as it is. *)
Settled(r) ==
    \/ r.big
    \/ r.page /\ r.size % PAGE_SIZE = 0 /\ r.size < HEAP_LARGE_BLOCK
    \/ ~r.page /\ r.size < HEAP_NORMAL_BLOCK

(* A page request that its rounding has made a large one. *)
Outgrown(r) ==
    OutgrowsKind(r.asked) /\ r.page /\ ~r.big /\ r.size >= HEAP_LARGE_BLOCK

CanServe(bs, r) ==
    \E k \in DOMAIN bs :
        /\ bs[k].kind = KindOf(r) /\ bs[k].bytesFree >= r.size /\ bs[k].mask >= r.mask
        /\ FittingNodes(bs[k], r.size, r.align) # {}

(* The inductive invariant behind ExpandsOnce: what the search will find     *)
(* when it is done again.                                                    *)
ExpandInv ==
    pending # None =>
        \/ /\ pending.expansions = 0 /\ ~pending.big
           /\ pending.size = pending.asked.size /\ pending.page = pending.asked.page
        \/ /\ pending.expansions = 1
           /\ Outgrown(pending) \/ (Settled(pending) /\ CanServe(blocks, pending))
        \/ /\ pending.expansions = 2 /\ OutgrowsKind(pending.asked)
           /\ Settled(pending) /\ CanServe(blocks, pending)

LEMMA SettledStays ==
    ASSUME NEW r \in PendingType, Settled(r) PROVE Adjusted(r) = r
<1>1. /\ r.size \in Nat /\ r.page \in BOOLEAN /\ r.big \in BOOLEAN
      /\ HEAP_NORMAL_BLOCK <= HEAP_LARGE_BLOCK
      /\ HEAP_NORMAL_BLOCK \in Nat /\ HEAP_LARGE_BLOCK \in Nat
  BY HeapSizes DEF PendingType
<1>2. ~(~r.page /\ ~r.big /\ r.size >= HEAP_NORMAL_BLOCK)
  BY <1>1 DEF Settled
<1>3. r.page /\ ~r.big => r.size % PAGE_SIZE = 0 /\ ~(r.size >= HEAP_LARGE_BLOCK)
  BY <1>1 DEF Settled
<1>4. ~r.big => ~(r.size >= HEAP_LARGE_BLOCK)
  BY <1>1 DEF Settled
<1>5. (r.big \/ r.size >= HEAP_LARGE_BLOCK) = r.big
  BY <1>1, <1>4
<1>6. Adjusted(r) = [r EXCEPT !.page = r.page, !.big = r.big, !.size = r.size]
  BY <1>1, <1>2, <1>3, <1>5 DEF Adjusted, AlignUp
<1> QED
  BY <1>6 DEF PendingType

LEMMA OutgrownSettles ==
    ASSUME NEW r \in PendingType, Outgrown(r) PROVE Settled(Adjusted(r))
<1>1. r.page /\ ~r.big /\ r.size >= HEAP_LARGE_BLOCK
  BY DEF Outgrown
<1>2. Adjusted(r) = [r EXCEPT !.page = TRUE, !.big = TRUE, !.size = r.size]
  BY <1>1 DEF Adjusted
<1>3. Adjusted(r).big
  BY <1>2 DEF PendingType
<1> QED
  BY <1>3 DEF Settled

LEMMA FirstSettles ==
    ASSUME NEW r \in PendingType, ~r.big, r.size = r.asked.size, r.page = r.asked.page
    PROVE  Settled(Adjusted(r)) \/ Outgrown(Adjusted(r))
<1> DEFINE large == ~r.page /\ ~r.big /\ r.size >= HEAP_NORMAL_BLOCK
           size  == IF large THEN AlignUp(r.size, PAGE_SIZE) ELSE r.size
           page  == r.page \/ large
           big   == r.big \/ size >= HEAP_LARGE_BLOCK
           final == IF page /\ ~big THEN AlignUp(size, PAGE_SIZE) ELSE size
           q     == Adjusted(r)
<1>1. /\ r.size \in Nat /\ PAGE_SIZE \in Nat \ {0} /\ HEAP_LARGE_BLOCK \in Nat
      /\ HEAP_NORMAL_BLOCK \in Nat /\ HEAP_NORMAL_BLOCK <= HEAP_LARGE_BLOCK
  BY HeapSizes DEF PendingType
<1>2. ASSUME NEW v \in Nat
      PROVE  AlignUp(v, PAGE_SIZE) \in Nat /\ AlignUp(v, PAGE_SIZE) % PAGE_SIZE = 0
  BY <1>1, AlignUpFacts
<1>3. size \in Nat /\ (large => size % PAGE_SIZE = 0) /\ (~large => size = r.size)
  BY <1>1, <1>2
<1>4. q = [r EXCEPT !.page = page, !.big = big, !.size = final]
  BY DEF Adjusted
<1>5. q.page = page /\ q.big = big /\ q.size = final /\ q.asked = r.asked
  <2> HIDE DEF page, big, final, q
  <2> QED BY <1>4 DEF PendingType
<1> SUFFICES Settled(q) \/ Outgrown(q)
  OBVIOUS
<1> HIDE DEF size, q
<1>6. CASE big
  BY <1>5, <1>6 DEF Settled
<1>7. CASE ~big /\ ~page
  <2>1. final = r.size /\ r.size < HEAP_NORMAL_BLOCK
    BY <1>1, <1>3, <1>7
  <2> QED BY <1>5, <1>7, <2>1 DEF Settled
<1>8. CASE ~big /\ large
  <2>1. final = size /\ size < HEAP_LARGE_BLOCK /\ size % PAGE_SIZE = 0
    BY <1>1, <1>3, <1>8 DEF AlignUp
  <2> QED BY <1>5, <1>8, <2>1 DEF Settled
<1>9. CASE ~big /\ r.page
  <2>1. final = AlignUp(r.size, PAGE_SIZE) /\ r.size < HEAP_LARGE_BLOCK
    BY <1>1, <1>3, <1>9
  <2>2. final \in Nat /\ final % PAGE_SIZE = 0
    BY <1>1, <1>2, <2>1
  <2>3. CASE final < HEAP_LARGE_BLOCK
    BY <1>5, <1>9, <2>2, <2>3 DEF Settled
  <2>4. CASE final >= HEAP_LARGE_BLOCK
    <3>1. OutgrowsKind(r.asked)
      BY <1>9, <2>1, <2>4 DEF OutgrowsKind
    <3> QED BY <1>5, <1>9, <2>4, <3>1 DEF Outgrown
  <2> QED BY <1>1, <2>2, <2>3, <2>4
<1> QED
  BY <1>6, <1>7, <1>8, <1>9

(* The block the heap grows by serves the settled request it was added for. *)
LEMMA NewServes ==
    ASSUME Expanded(Adjusted(pending)), Settled(Adjusted(pending)),
           IsAligned(memStartData, HEAP_STANDARD_ALIGN)
    PROVE  Settled(pending') /\ CanServe(blocks', pending')
<1> DEFINE r == Adjusted(pending)
           s == ExpansionSize(r)
           b == NewBlock(memStartData, s, r.mask, KindOf(r))
           L == Len(blocks)
<1>1. /\ r \in PendingType /\ Sized(r) /\ Settled(r) /\ L \in Nat
      /\ DOMAIN blocks' = 1..L+1 /\ blocks'[L+1] = b
      /\ pending' = [r EXCEPT !.expansions = r.expansions + 1]
  BY DEF Expanded
<1> HIDE DEF r, L
<1>2. /\ pending'.size = r.size /\ pending'.page = r.page /\ pending'.big = r.big
      /\ pending'.mask = r.mask /\ pending'.align = r.align
  BY <1>1 DEF PendingType
<1>3. /\ r.size \in Nat /\ r.mask \in Nat /\ r.page \in BOOLEAN /\ r.big \in BOOLEAN
      /\ r.align \in {0, HEAP_STANDARD_ALIGN}
  BY <1>1 DEF PendingType, Sized
<1>4. s \in Nat /\ s >= r.size
  BY <1>1, <1>3, HeapSizes DEF Settled, ExpansionSize, KindOf
<1> HIDE DEF s
<1>5. 1 \in FittingNodes(b, r.size, r.align)
  <2>1. b.nodes = <<[addr |-> memStartData, len |-> s, alloc |-> FALSE]>>
    BY DEF NewBlock
  <2>2. ~NeedsPadding(b.nodes[1], r.align)
    BY <1>3, <2>1 DEF NeedsPadding
  <2>3. NodeFits(b, b.nodes[1], r.size, r.align)
    BY <1>4, <2>1, <2>2 DEF NodeFits
  <2> HIDE DEF b
  <2>4. 1 \in DOMAIN b.nodes
    BY <2>1
  <2> QED BY <2>3, <2>4 DEF FittingNodes
<1>6. b.kind = KindOf(r) /\ b.bytesFree >= r.size /\ b.mask >= r.mask
  BY <1>3, <1>4 DEF NewBlock
<1> HIDE DEF b
<1>7. KindOf(pending') = KindOf(r)
  BY <1>2 DEF KindOf
<1>8. CanServe(blocks', pending')
  <2>1. L+1 \in DOMAIN blocks'
    BY <1>1
  <2>2. /\ b.kind = KindOf(pending') /\ b.bytesFree >= pending'.size /\ b.mask >= pending'.mask
        /\ FittingNodes(b, pending'.size, pending'.align) # {}
    BY <1>2, <1>5, <1>6, <1>7
  <2> DEFINE l == L+1
  <2>3. l \in DOMAIN blocks' /\ blocks'[l] = b
    BY <1>1, <2>1
  <2> HIDE DEF l
  <2> QED BY <2>2, <2>3 DEF CanServe
<1> QED
  BY <1>1, <1>2, <1>8 DEF Settled

LEMMA ExpandStep == TypeInv /\ Sound /\ ExpandInv /\ [Next]_vars => ExpandInv'
<1> SUFFICES ASSUME TypeInv, Sound, ExpandInv, [Next]_vars PROVE ExpandInv'
  OBVIOUS
<1>1. ASSUME UNCHANGED <<blocks, pending>> PROVE ExpandInv'
  BY <1>1 DEF ExpandInv, CanServe, Settled, Outgrown
<1>2. ASSUME pending' = None PROVE ExpandInv'
  BY <1>2 DEF ExpandInv
<1>3. ASSUME Crash PROVE ExpandInv'
  BY <1>1, <1>3 DEF Crash
<1>4. ASSUME NEW h \in Holders, NEW c \in Requests, Call(h, c) PROVE ExpandInv'
  <2>1. /\ pending'.expansions = 0 /\ ~pending'.big /\ pending'.asked = c
        /\ pending'.size = c.size /\ pending'.page = c.page
    BY <1>4 DEF Call
  <2> QED BY <2>1 DEF ExpandInv
<1>5. ASSUME NEW h \in Holders, kfree(h) PROVE ExpandInv'
  <2>1. pending = None /\ (Crash \/ pending' = pending)
    BY <1>5 DEF kfree
  <2> QED BY <1>2, <1>3, <2>1
<1>6. CASE Serve
  <2>1. PICK r, k, i : Crash \/ Answered(r, k, i)
    BY <1>6, ServeFacts
  <2>2. Answered(r, k, i) => pending' = None
    BY AnsweredFacts
  <2> QED BY <1>2, <1>3, <2>1, <2>2
<1>7. ASSUME Expanded(Adjusted(pending)) PROVE ExpandInv'
  <2> DEFINE r == Adjusted(pending)
  <2>1. /\ pending # None /\ pending \in PendingType /\ r \in PendingType
        /\ ServingBlocks(r) = {} /\ r.asked = pending.asked
        /\ pending' = [r EXCEPT !.expansions = r.expansions + 1]
    BY <1>7 DEF Expanded
  <2>2. r.expansions = pending.expansions
    BY <2>1 DEF Adjusted, PendingType
  <2>3. ~(Settled(pending) /\ CanServe(blocks, pending))
    <3>1. ASSUME Settled(pending), CanServe(blocks, pending) PROVE FALSE
      <4>1. r = pending
        BY <2>1, <3>1, SettledStays
      <4>2. ServingBlocks(pending) # {}
        BY <3>1 DEF CanServe, ServingBlocks
      <4> QED BY <2>1, <4>1, <4>2
    <3> QED BY <3>1
  <2>4. IsAligned(memStartData, HEAP_STANDARD_ALIGN)
    BY DEF Sound, Shape, BlocksOrdered
  <2>5. Settled(r) => Settled(pending') /\ CanServe(blocks', pending')
    BY <1>7, <2>4, NewServes
  <2> HIDE DEF r
  <2>6. /\ pending'.asked = pending.asked /\ pending'.page = r.page /\ pending'.big = r.big
        /\ pending'.size = r.size /\ pending'.expansions = pending.expansions + 1
    BY <2>1, <2>2 DEF PendingType
  <2>7. CASE pending.expansions = 0
    <3>1. Settled(r) \/ Outgrown(r)
      BY <2>1, <2>3, <2>7, FirstSettles DEF ExpandInv, r
    <3>2. Outgrown(r) => Outgrown(pending')
      BY <2>1, <2>6 DEF Outgrown
    <3>3. pending'.expansions = 1
      BY <2>6, <2>7
    <3>4. Outgrown(pending') \/ (Settled(pending') /\ CanServe(blocks', pending'))
      BY <2>5, <3>1, <3>2
    <3> QED BY <3>3, <3>4 DEF ExpandInv
  <2>8. CASE pending.expansions = 1
    <3>1. Outgrown(pending)
      BY <2>1, <2>3, <2>8 DEF ExpandInv
    <3>2. Settled(r)
      BY <2>1, <3>1, OutgrownSettles DEF r
    <3>3. OutgrowsKind(pending'.asked)
      BY <2>6, <3>1 DEF Outgrown
    <3>4. pending'.expansions = 2
      BY <2>6, <2>8
    <3> QED BY <2>5, <3>2, <3>3, <3>4 DEF ExpandInv
  <2> QED BY <2>1, <2>3, <2>7, <2>8 DEF ExpandInv
<1>8. CASE Expand
  <2>1. Crash \/ Expanded(Adjusted(pending))
    BY <1>8, ExpandFacts
  <2> QED BY <1>3, <1>7, <2>1
<1>9. CASE UNCHANGED vars
  BY <1>1, <1>9 DEF vars
<1> QED
  BY <1>4, <1>5, <1>6, <1>8, <1>9 DEF Next

(* HeapAllocate's recursion is bounded: for every request and every state of *)
(* the heap it expands once at most, and twice only for a page request whose *)
(* rounding changes the list it is looked for in.                            *)
THEOREM HeapExpandsOnce == ASSUME RequestsRounded PROVE Spec => []ExpandsOnce
<1>1. Init => TypeInv /\ Sound /\ ExpandInv
  <2>1. Init => ExpandInv
    BY DEF Init, ExpandInv
  <2> QED BY <2>1, TypeInit, SoundInit
<1>2. TypeInv /\ Sound /\ ExpandInv /\ [Next]_vars => TypeInv' /\ Sound' /\ ExpandInv'
  BY TypeNext, SoundNext, ExpandStep DEF TypeInv
<1>3. ExpandInv => ExpandsOnce
  BY DEF ExpandInv, ExpandsOnce
<1> QED
  BY <1>1, <1>2, <1>3, PTL DEF Spec

---------------------------------------------------------------------------
(* What the heap counts: free bytes                                        *)

(* As only the last node of a block is ever free, it has all the free bytes. *)
LEMMA FreeBytesAreLast ==
    ASSUME NEW b \in BlockType, BlockOK(b)
    PROVE  LET n == b.nodes[Len(b.nodes)] IN FreeBytes(b) = IF n.alloc THEN 0 ELSE n.len
<1> DEFINE L == Len(b.nodes)
           S == 1..L
           f == [i \in DOMAIN b.nodes |-> IF b.nodes[i].alloc THEN 0 ELSE b.nodes[i].len]
           z == [i \in S |-> 0]
<1>1. /\ L \in Nat \ {0} /\ DOMAIN b.nodes = S /\ L \in S
      /\ \A i \in S : b.nodes[i].len \in Nat /\ (i # L => b.nodes[i].alloc)
  <2>1. L \in Nat /\ DOMAIN b.nodes = S /\ L # 0
    BY NodeTypes, EmptySeq DEF BlockOK, Tiles, BlockType
  <2>2. \A i \in S : i # L => i \in 1..L-1
    BY <2>1
  <2> QED BY <2>1, <2>2, NodeTypes DEF BlockOK, TailFree
<1>2. IsFiniteSet(S)
  BY <1>1, FS_Interval
<1>3. f \in [S -> Int] /\ z \in [S -> Int] /\ \A i \in S : z[i] = 0 /\ (i # L => f[i] = 0)
  BY <1>1
<1>4. f[L] = IF b.nodes[L].alloc THEN 0 ELSE b.nodes[L].len
  BY <1>1
<1>5. FreeBytes(b) = SumFunction(f)
  BY DEF FreeBytes
<1> HIDE DEF f, z, S
<1>6. SumFunction(z) = 0
  BY <1>2, <1>3, SumZeros
<1>7. SumFunction(f) \in Int /\ SumFunction(f) - SumFunction(z) = f[L] - z[L]
  BY <1>1, <1>2, <1>3, SumChanges
<1>8. f[L] \in Int /\ z[L] = 0
  BY <1>1, <1>3
<1> QED BY <1>4, <1>5, <1>6, <1>7, <1>8

SizeOf(b) == b.end - b.start + 1

(* A free last node is not longer than BytesFree says. *)
Counted(b) == LET n == b.nodes[Len(b.nodes)] IN ~n.alloc => n.len <= b.bytesFree

(* BytesFree exceeds the size of the block by the drift that Call allows and *)
(* by what the u clients freed since.                                        *)
Drifted(b, u) == b.bytesFree <= SizeOf(b) * (u + 1) + MaxDrift

BlockCounts(b, u) == Counted(b) /\ SizeOf(b) \in BlockSizes /\ Drifted(b, u)

(* The clients that may have freed memory since the last call. *)
Idle(hf) == {h \in Holders : hf[h] = None}
MayFree == IF pending = None THEN Cardinality(Idle(held)) ELSE 0

(* The inductive invariant behind FreeBytesCounted. *)
RoundedOnce(r) == r.size \in {r.asked.size, AlignUp(r.asked.size, PAGE_SIZE)}
CountInv ==
    /\ \A k \in DOMAIN blocks : BlockCounts(blocks[k], MayFree)
    /\ pending # None => RoundedOnce(pending)

LEMMA CountedIfSound == TypeOK /\ Sound /\ CountInv => FreeBytesCounted
<1> SUFFICES ASSUME TypeOK, Sound, CountInv, NEW k \in DOMAIN blocks
             PROVE  FreeBytes(blocks[k]) <= blocks[k].bytesFree
  BY DEF FreeBytesCounted
<1> DEFINE b == blocks[k]
           n == b.nodes[Len(b.nodes)]
<1>1. b \in BlockType /\ BlockOK(b)
  <2>1. b \in BlockType
    BY ElementOfSeq, LenProperties DEF TypeOK
  <2> QED BY <2>1 DEF Sound, Shape, Structure
<1>2. Counted(b) /\ b.bytesFree \in Nat
  BY <1>1, HeapSizes DEF CountInv, BlockCounts, BlockType
<1> HIDE DEF b
<1>3. FreeBytes(b) = IF n.alloc THEN 0 ELSE n.len
  BY <1>1, FreeBytesAreLast
<1>4. FreeBytes(b) <= b.bytesFree
  BY <1>2, <1>3 DEF Counted
<1> QED BY <1>4 DEF b

(* More clients that may free, more drift. *)
LEMMA DriftGrows ==
    ASSUME NEW b \in BlockType, b.start <= b.end, NEW u \in Nat, NEW v \in Nat, u <= v, Drifted(b, u)
    PROVE  Drifted(b, v)
<1> DEFINE s == SizeOf(b)
           f == b.bytesFree
<1>1. s \in Nat /\ f \in Nat /\ MaxDrift \in Nat
  BY HeapSizes DEF SizeOf, BlockType
<1>2. f <= s * (u + 1) + MaxDrift
  BY DEF Drifted
<1> HIDE DEF s, f
<1>3. PICK w \in Nat : v = u + w
  <2>1. v - u \in Nat /\ v = u + (v - u)
    OBVIOUS
  <2> QED BY <2>1
<1>4. s * (v + 1) = s * (u + 1) + s * w /\ s * w \in Nat /\ s * (u + 1) \in Nat
  BY <1>1, <1>3
<1>5. f <= s * (v + 1) + MaxDrift
  BY <1>1, <1>2, <1>4
<1> QED BY <1>5 DEF Drifted, s, f

(* HeapCreateBlock counts the whole block as free. *)
LEMMA NewCounts ==
    ASSUME NEW start \in Nat, NEW size \in 1..SIZE_MOD-1, size \in BlockSizes, NEW mask, NEW kind,
           NEW u \in Nat
    PROVE  BlockCounts(NewBlock(start, size, mask, kind), u)
<1> DEFINE b == NewBlock(start, size, mask, kind)
<1>1. /\ b.start = start /\ b.end = start + size - 1 /\ b.bytesFree = size
      /\ Len(b.nodes) = 1 /\ b.nodes[1].len = size
  BY DEF NewBlock
<1> HIDE DEF b
<1>2. size \in Nat /\ MaxDrift \in Nat /\ SizeOf(b) = size
  BY <1>1, HeapSizes DEF SizeOf
<1>3. Counted(b)
  BY <1>1, <1>2 DEF Counted
<1>4. Drifted(b, u)
  <2>1. size * (u + 1) = size * u + size /\ size * u \in Nat
    BY <1>2
  <2> QED BY <1>1, <1>2, <2>1 DEF Drifted
<1> QED BY <1>2, <1>3, <1>4 DEF BlockCounts, b

(* Allocation never makes BytesFree smaller than the rest of the free node:  *)
(* a cut leaves BytesFree alone, and where a node is taken whole, none is    *)
(* left.                                                                     *)
LEMMA AllocCounts ==
    ASSUME NEW b \in BlockType, BlockOK(b), NEW c \in BlockType, NEW i \in DOMAIN b.nodes,
           NEW size \in 1..SIZE_MOD-1, NEW align, NEW addr \in Nat,
           c = HeapAllocateSizeInBlock(b, i, size, align), AllocEffect(b, c, i, addr, size),
           size <= b.bytesFree, NEW u \in Nat, BlockCounts(b, u)
    PROVE  BlockCounts(c, u)
<1> DEFINE n == b.nodes[i]
           m == c.nodes[i]
<1>1. /\ c.start = b.start /\ c.end = b.end /\ i = Len(b.nodes) /\ ~n.alloc /\ m.alloc
      /\ m.addr = n.addr /\ Len(c.nodes) = IF Splits(b, i, size) THEN i+1 ELSE i
  BY DEF AllocEffect
<1>2. b.bytesFree \in Nat /\ size \in Nat
  BY HeapSizes DEF BlockType
<1>3. c.bytesFree \in Nat /\ c.bytesFree <= b.bytesFree
      /\ (Splits(b, i, size) => c.bytesFree = b.bytesFree)
  <2>1. CASE Splits(b, i, size)
    BY <1>2, <2>1 DEF HeapAllocateSizeInBlock, TakeFront, BlockType
  <2>2. CASE ~Splits(b, i, size)
    <3>1. c.bytesFree = SizeSub(b.bytesFree, size)
      BY <2>2 DEF HeapAllocateSizeInBlock, TakeWhole, BlockType
    <3> QED BY <1>2, <2>2, <3>1 DEF SizeSub
  <2> QED BY <2>1, <2>2
<1>4. Counted(c)
  <2>1. CASE ~Splits(b, i, size)
    BY <1>1, <2>1 DEF Counted
  <2>2. CASE Splits(b, i, size)
    <3> DEFINE z == c.nodes[i+1]
    <3>1. Len(c.nodes) = i+1 /\ z.addr = m.addr + m.len /\ z.addr + z.len = n.addr + n.len
      BY <1>1, <2>2 DEF AllocEffect
    <3>2. i \in Nat /\ i+1 \in 1..Len(c.nodes) /\ i \in 1..Len(c.nodes) /\ i \in 1..Len(b.nodes)
      BY <1>1, <3>1, NodeTypes
    <3>3. /\ z.len \in Nat /\ z.addr \in Nat /\ m.len \in Nat /\ n.len \in Nat
          /\ n.addr \in Nat /\ m.addr \in Nat
      BY <3>2, NodeTypes
    <3>4. n.len <= b.bytesFree
      BY <1>1 DEF BlockCounts, Counted
    <3> HIDE DEF z, n, m
    <3>5. z.len <= c.bytesFree
      BY <1>1, <1>2, <1>3, <2>2, <3>1, <3>3, <3>4
    <3> QED BY <3>1, <3>5 DEF Counted, z
  <2> QED BY <2>1, <2>2
<1>5. SizeOf(c) = SizeOf(b)
  BY <1>1 DEF SizeOf
<1>6. Drifted(c, u)
  <2> DEFINE d == SizeOf(b) * (u + 1) + MaxDrift
  <2>1. b.bytesFree <= d /\ d \in Int
    <3>1. SizeOf(b) \in Int
      BY NodeTypes DEF SizeOf
    <3> QED BY <3>1, HeapSizes DEF BlockCounts, Drifted
  <2> HIDE DEF d
  <2>2. c.bytesFree <= d
    BY <1>2, <1>3, <2>1
  <2> QED BY <1>5, <2>2 DEF Drifted, d
<1> QED BY <1>4, <1>5, <1>6 DEF BlockCounts

(* A node that is freed adds its length to BytesFree, without a wrap, and to *)
(* the last node at most.                                                    *)
LEMMA FreeCounts ==
    ASSUME DriftFits, NEW b \in BlockType, BlockOK(b), NEW c \in BlockType,
           NEW i \in DOMAIN b.nodes, FreeEffect(b, c, i),
           NEW u \in Nat, u < Cardinality(Holders), BlockCounts(b, u)
    PROVE  BlockCounts(c, u + 1)
<1> DEFINE n == b.nodes[i]
           L == Len(b.nodes)
           s == SizeOf(b)
           f == b.bytesFree
<1>1. /\ c.start = b.start /\ c.end = b.end /\ c.bytesFree = SizeAdd(f, n.len)
  BY DEF FreeEffect
<1>2. L \in Nat /\ i \in 1..L /\ f \in Nat /\ n.len \in Nat /\ n.addr \in Nat /\ b.start \in Nat
      /\ b.end \in Nat /\ L \in 1..L
  <2>1. L \in Nat /\ i \in 1..L /\ b.start \in Nat /\ b.end \in Nat
        /\ \A j \in 1..L : b.nodes[j].addr \in Nat /\ b.nodes[j].len \in Nat
    BY NodeTypes
  <2>2. f \in Nat
    BY HeapSizes DEF BlockType
  <2> QED BY <2>1, <2>2
<1>3. n.len <= s /\ s \in Nat /\ s \in BlockSizes
  <2>1. b.start <= n.addr /\ n.addr + n.len <= b.end + 1 /\ b.start <= b.end
    BY NodeBounds DEF BlockOK
  <2> HIDE DEF n
  <2>2. n.len <= b.end - b.start + 1 /\ b.end - b.start + 1 \in Nat
    BY <1>2, <2>1
  <2> QED BY <2>2 DEF SizeOf, BlockCounts
<1>4. f <= s * (u + 1) + MaxDrift
  BY DEF BlockCounts, Drifted
<1>5. s * (Cardinality(Holders) + 1) + MaxDrift < SIZE_MOD /\ Cardinality(Holders) \in Nat
  BY <1>3, FS_CardinalityType DEF DriftFits
<1>6. n.alloc \in BOOLEAN /\ SIZE_MOD \in Nat /\ MaxDrift \in Nat
  BY <1>2, NodeTypes, HeapSizes
<1>7. f + n.len <= s * (u + 2) + MaxDrift /\ f + n.len < SIZE_MOD
  <2> HIDE DEF n, L, s, f
  <2>1. s * (u + 2) = s * (u + 1) + s
    BY <1>3
  <2>2. f + n.len <= s * (u + 2) + MaxDrift
    <3>1. s * (u + 1) \in Nat /\ s * (u + 2) \in Nat
      BY <1>3
    <3> QED BY <1>2, <1>3, <1>4, <1>6, <2>1, <3>1
  <2>3. s * (u + 2) <= s * (Cardinality(Holders) + 1)
    <3>1. PICK w \in Nat : Cardinality(Holders) + 1 = u + 2 + w
      <4>1. Cardinality(Holders) + 1 - (u + 2) \in Nat
        BY <1>5
      <4>2. Cardinality(Holders) + 1 = u + 2 + (Cardinality(Holders) + 1 - (u + 2))
        BY <1>5
      <4> QED BY <4>1, <4>2
    <3>2. s * (u + 2 + w) = s * (u + 2) + s * w /\ s * w \in Nat /\ s * (u + 2) \in Nat
      BY <1>3
    <3> QED BY <3>1, <3>2
  <2>4. s * (u + 2) \in Nat /\ s * (Cardinality(Holders) + 1) \in Nat
    BY <1>3, <1>5
  <2> QED BY <1>2, <1>5, <1>6, <2>2, <2>3, <2>4
<1>8. c.bytesFree = f + n.len
  BY <1>1, <1>7 DEF SizeAdd
<1>9. Counted(c)
  <2>1. CASE i = L
    <3>1. Len(c.nodes) = L /\ c.nodes[L].len = n.len
      BY <2>1 DEF FreeEffect
    <3> HIDE DEF n, L, f
    <3>2. n.len <= f + n.len
      BY <1>2
    <3> QED BY <1>8, <3>1, <3>2 DEF Counted
  <2>2. CASE i < L /\ i = L-1
    <3>1. /\ Len(c.nodes) = L-1 /\ c.nodes[i].len = n.len + b.nodes[i+1].len
          /\ c.nodes[i].alloc = b.nodes[i+1].alloc
      BY <1>2, <2>2 DEF FreeEffect
    <3>2. i + 1 = L /\ b.nodes[L].len \in Nat /\ (~b.nodes[L].alloc => b.nodes[L].len <= f)
      BY <1>2, <2>2, NodeTypes DEF BlockCounts, Counted
    <3> HIDE DEF n, L, f
    <3>3. /\ Len(c.nodes) = i /\ c.nodes[i].len = n.len + b.nodes[L].len
          /\ c.nodes[i].alloc = b.nodes[L].alloc
      BY <2>2, <3>1, <3>2
    <3>4. ~b.nodes[L].alloc => n.len + b.nodes[L].len <= f + n.len
      BY <1>2, <3>2
    <3> QED BY <1>8, <3>3, <3>4 DEF Counted
  <2>3. CASE i < L /\ i < L-1
    <3>1. L-1 \in i+1..L-1 /\ (L-1)+1 = L
      BY <1>2, <2>3
    <3>2. Len(c.nodes) = L-1 /\ c.nodes[L-1] = b.nodes[L]
      BY <2>3, <3>1 DEF FreeEffect
    <3>3. b.nodes[L].len \in Nat /\ (~b.nodes[L].alloc => b.nodes[L].len <= f)
      BY <1>2, NodeTypes DEF BlockCounts, Counted
    <3> HIDE DEF n, L, f
    <3>4. ~b.nodes[L].alloc => b.nodes[L].len <= f + n.len
      BY <1>2, <3>3
    <3> QED BY <1>8, <3>2, <3>4 DEF Counted
  <2> QED BY <1>2, <2>1, <2>2, <2>3
<1>10. SizeOf(c) = s
  BY <1>1 DEF SizeOf
<1>11. Drifted(c, u + 1)
  <2>1. (u + 1) + 1 = u + 2
    OBVIOUS
  <2> QED BY <1>7, <1>8, <1>10, <2>1 DEF Drifted
<1> QED BY <1>3, <1>9, <1>10, <1>11 DEF BlockCounts

(* Rounding a size up twice is rounding it up once. *)
LEMMA AdjustedRounded ==
    ASSUME NEW r \in PendingType, RoundedOnce(r)
    PROVE  RoundedOnce(Adjusted(r)) /\ Adjusted(r).asked = r.asked
<1> DEFINE P == PAGE_SIZE
           a == r.asked.size
           large == ~r.page /\ ~r.big /\ r.size >= HEAP_NORMAL_BLOCK
           size  == IF large THEN AlignUp(r.size, P) ELSE r.size
           page  == r.page \/ large
           big   == r.big \/ size >= HEAP_LARGE_BLOCK
           final == IF page /\ ~big THEN AlignUp(size, P) ELSE size
<1>1. a \in Nat /\ P \in Nat \ {0}
  <2>1. r.asked \in Requests
    BY DEF PendingType
  <2>2. r.asked.size \in 1..SIZE_MOD-PAGE_SIZE-1
    BY <2>1, HeapRequests
  <2> QED BY <2>2, HeapSizes
<1>2. AlignUp(a, P) \in Nat /\ AlignUp(AlignUp(a, P), P) = AlignUp(a, P)
  <2>1. AlignUp(a, P) \in a..a+P-1 /\ AlignUp(a, P) % P = 0
    BY <1>1, AlignUpFacts
  <2>2. AlignUp(a, P) \in Nat
    BY <1>1, <2>1
  <2>3. \A v \in Nat : v % P = 0 => AlignUp(v, P) = v
    BY <1>1 DEF AlignUp
  <2> QED BY <2>1, <2>2, <2>3
<1>3. r.size \in {a, AlignUp(a, P)}
  BY DEF RoundedOnce
<1>4. Adjusted(r) = [r EXCEPT !.page = page, !.big = big, !.size = final]
  BY DEF Adjusted
<1> HIDE DEF P, a, large, page, big
<1>5. size \in {a, AlignUp(a, P)}
  BY <1>2, <1>3
<1> HIDE DEF size
<1>6. final \in {a, AlignUp(a, P)}
  BY <1>2, <1>5
<1> HIDE DEF final
<1>7. Adjusted(r).size = final /\ Adjusted(r).asked = r.asked
  BY <1>4 DEF PendingType
<1> QED BY <1>6, <1>7 DEF RoundedOnce, a, P

(* A block that HeapExpand adds has a size some request may have. *)
LEMMA ExpansionFits ==
    ASSUME NEW r \in PendingType, RoundedOnce(r)
    PROVE  ExpansionSize(r) \in BlockSizes
<1>1. r.asked \in Requests /\ KindOf(r) \in Kinds
  BY DEF PendingType, KindOf, Kinds
<1> QED BY <1>1 DEF ExpansionSize, BlockSizes, RoundedOnce, Kinds

(* How many clients may free. *)
LEMMA IdleCounts ==
    ASSUME DriftFits, NEW hf \in [Holders -> HeldType \cup {None}]
    PROVE  /\ Cardinality(Idle(hf)) \in Nat
           /\ \A h \in Holders : hf[h] # None =>
                 /\ Cardinality(Idle([hf EXCEPT ![h] = None])) = Cardinality(Idle(hf)) + 1
                 /\ Cardinality(Idle(hf)) < Cardinality(Holders)
<1>1. /\ IsFiniteSet(Holders) /\ Cardinality(Holders) \in Nat
      /\ IsFiniteSet(Idle(hf)) /\ Cardinality(Idle(hf)) \in Nat
  BY FS_Subset, FS_CardinalityType DEF Idle, DriftFits
<1>2. ASSUME NEW h \in Holders, hf[h] # None
      PROVE  /\ Cardinality(Idle([hf EXCEPT ![h] = None])) = Cardinality(Idle(hf)) + 1
             /\ Cardinality(Idle(hf)) < Cardinality(Holders)
  <2>1. Idle([hf EXCEPT ![h] = None]) = Idle(hf) \cup {h} /\ h \notin Idle(hf)
    BY <1>2 DEF Idle
  <2>2. Cardinality(Idle(hf) \cup {h}) = Cardinality(Idle(hf)) + 1
    BY <1>1, <2>1, FS_AddElement
  <2>3. Idle(hf) \cup {h} \in SUBSET Holders
    BY DEF Idle
  <2>4. Cardinality(Idle(hf) \cup {h}) <= Cardinality(Holders)
    BY <1>1, <2>3, FS_Subset
  <2>5. Cardinality(Idle([hf EXCEPT ![h] = None])) = Cardinality(Idle(hf)) + 1
    BY <2>1, <2>2, Zenon
  <2>6. Cardinality(Idle(hf)) < Cardinality(Holders)
    BY <1>1, <2>2, <2>4
  <2> QED BY <2>5, <2>6
<1> QED BY <1>1, <1>2

(* The block at each position after block k has been replaced by c. *)
LEMMA CountsReplaced ==
    ASSUME TypeOK, NEW k \in DOMAIN blocks, NEW c \in BlockType, blocks' = [blocks EXCEPT ![k] = c],
           NEW u, BlockCounts(c, u), \A l \in DOMAIN blocks : BlockCounts(blocks[l], u)
    PROVE  \A l \in DOMAIN blocks' : BlockCounts(blocks'[l], u)
<1>1. DOMAIN blocks' = DOMAIN blocks
  OBVIOUS
<1>2. ASSUME NEW l \in DOMAIN blocks PROVE BlockCounts(blocks'[l], u)
  <2>1. blocks'[l] = IF l = k THEN c ELSE blocks[l]
    BY DEF TypeOK
  <2> QED BY <2>1
<1> QED BY <1>1, <1>2

LEMMA CountInit == DriftFits /\ Init => CountInv
<1> SUFFICES ASSUME DriftFits, Init PROVE CountInv
  OBVIOUS
<1> DEFINE data == MEMORY_LOCATION_HEAP + MEMORY_STATIC_OFFSET
           b1 == NewBlock(data, HEAP_NORMAL_BLOCK, MASK, "normal")
           b2 == NewBlock(data + HEAP_NORMAL_BLOCK, HEAP_LARGE_BLOCK, MASK, "page")
<1>1. pending = None /\ blocks = <<b1, b2>> /\ held = [h \in Holders |-> None]
  BY DEF Init
<1>2. /\ data \in Nat /\ data + HEAP_NORMAL_BLOCK \in Nat
      /\ HEAP_NORMAL_BLOCK \in 1..SIZE_MOD-1 /\ HEAP_LARGE_BLOCK \in 1..SIZE_MOD-1
      /\ HEAP_NORMAL_BLOCK \in BlockSizes /\ HEAP_LARGE_BLOCK \in BlockSizes
  BY HeapSizes DEF BlockSizes
<1>3. MayFree \in Nat
  <2>1. held \in [Holders -> HeldType \cup {None}]
    BY <1>1
  <2> QED BY <2>1, IdleCounts DEF MayFree
<1> HIDE DEF data
<1>4. BlockCounts(b1, MayFree) /\ BlockCounts(b2, MayFree)
  BY <1>2, <1>3, NewCounts
<1> HIDE DEF b1, b2
<1>5. \A k \in DOMAIN blocks : blocks[k] \in {b1, b2}
  BY <1>1
<1> QED BY <1>1, <1>4, <1>5 DEF CountInv

LEMMA CountStep == DriftFits /\ TypeInv /\ Sound /\ CountInv /\ [Next]_vars => CountInv'
<1> SUFFICES ASSUME DriftFits, TypeInv, Sound, CountInv, [Next]_vars PROVE CountInv'
  OBVIOUS
<1> DEFINE u == MayFree
<1>0. /\ TypeOK /\ blocks \in Seq(BlockType) /\ DOMAIN blocks = 1..Len(blocks)
      /\ \A k \in DOMAIN blocks : /\ blocks[k] \in BlockType /\ BlockOK(blocks[k])
                                  /\ blocks[k].start <= blocks[k].end /\ BlockCounts(blocks[k], u)
      /\ held \in [Holders -> HeldType \cup {None}] /\ Cardinality(Idle(held)) \in Nat
      /\ u \in Nat
  <2>1. TypeOK /\ blocks \in Seq(BlockType) /\ DOMAIN blocks = 1..Len(blocks)
        /\ held \in [Holders -> HeldType \cup {None}]
    BY LenProperties DEF TypeInv, TypeOK
  <2>2. \A k \in DOMAIN blocks : blocks[k] \in BlockType
    BY <2>1, ElementOfSeq
  <2>3. \A k \in DOMAIN blocks : BlockOK(blocks[k]) /\ blocks[k].start <= blocks[k].end
    BY DEF Sound, Shape, Structure, BlockOK
  <2>4. Cardinality(Idle(held)) \in Nat
    BY <2>1, IdleCounts
  <2> QED BY <2>1, <2>2, <2>3, <2>4 DEF CountInv, MayFree
<1>1. CASE Crash
  BY <1>1 DEF Crash, CountInv, MayFree
<1>2. CASE UNCHANGED vars
  BY <1>2 DEF vars, CountInv, MayFree
<1>3. ASSUME NEW h \in Holders, NEW c \in Requests, Call(h, c) PROVE CountInv'
  <2>1. /\ blocks' = blocks /\ pending' # None /\ RoundedOnce(pending')
    <3>1. pending' \in PendingType
      BY <1>3, CallPending DEF TypeInv
    <3>2. pending'.size = c.size /\ pending'.asked = c
      BY <1>3 DEF Call
    <3> QED BY <1>3, <3>1, <3>2, NoneIsNoRecord DEF Call, RoundedOnce
  <2>2. \A k \in DOMAIN blocks : Drifted(blocks[k], 0)
    <3>1. ASSUME NEW k \in DOMAIN blocks PROVE Drifted(blocks[k], 0)
      <4>1. blocks[k].bytesFree <= SizeOf(blocks[k]) + MaxDrift
        BY <1>3 DEF Call, SizeOf
      <4>2. SizeOf(blocks[k]) \in Int
        BY <1>0, NodeTypes DEF SizeOf
      <4>3. SizeOf(blocks[k]) * (0 + 1) = SizeOf(blocks[k])
        BY <4>2
      <4> QED BY <4>1, <4>3 DEF Drifted
    <3> QED BY <3>1
  <2>3. MayFree' = 0
    BY <2>1 DEF MayFree
  <2> QED BY <1>0, <2>1, <2>2, <2>3 DEF CountInv, BlockCounts
<1>4. ASSUME NEW h \in Holders, kfree(h) PROVE CountInv'
  <2>1. CASE Crash
    BY <1>1, <2>1
  <2>2. CASE ~Crash
    <3>1. pending = None /\ pending' = None /\ held[h] # None /\ held' = [held EXCEPT ![h] = None]
      BY <1>4, <2>2, KfreeBlocks DEF kfree
    <3>2. u = Cardinality(Idle(held)) /\ MayFree' = u + 1 /\ u < Cardinality(Holders)
      BY <1>0, <3>1, IdleCounts DEF MayFree
    <3> HIDE DEF u
    <3>3. \A k \in DOMAIN blocks : BlockCounts(blocks[k], u + 1)
      <4>1. ASSUME NEW k \in DOMAIN blocks PROVE BlockCounts(blocks[k], u + 1)
        <5>1. Drifted(blocks[k], u + 1)
          BY <1>0, DriftGrows DEF BlockCounts
        <5> QED BY <1>0, <5>1 DEF BlockCounts
      <4> QED BY <4>1
    <3>4. CASE blocks' = blocks
      BY <3>1, <3>2, <3>3, <3>4 DEF CountInv
    <3>5. CASE \E k \in DOMAIN blocks : \E i \in DOMAIN blocks[k].nodes : \E c \in BlockType :
                 FreeEffect(blocks[k], c, i) /\ blocks' = [blocks EXCEPT ![k] = c]
      <4>1. PICK k \in DOMAIN blocks : \E i \in DOMAIN blocks[k].nodes : \E c \in BlockType :
                 FreeEffect(blocks[k], c, i) /\ blocks' = [blocks EXCEPT ![k] = c]
        BY <3>5
      <4>2. PICK i \in DOMAIN blocks[k].nodes, c \in BlockType :
                 FreeEffect(blocks[k], c, i) /\ blocks' = [blocks EXCEPT ![k] = c]
        BY <4>1
      <4>3. BlockCounts(c, u + 1)
        BY <1>0, <3>2, <4>2, FreeCounts
      <4>4. \A l \in DOMAIN blocks' : BlockCounts(blocks'[l], u + 1)
        BY <1>0, <3>3, <4>2, <4>3, CountsReplaced
      <4> QED BY <3>1, <3>2, <4>4 DEF CountInv
    <3>6. \/ blocks' = blocks
          \/ \E k \in DOMAIN blocks : \E i \in DOMAIN blocks[k].nodes : \E c \in BlockType :
                 FreeEffect(blocks[k], c, i) /\ blocks' = [blocks EXCEPT ![k] = c]
      BY <1>4, <2>2, KfreeBlocks
    <3> QED BY <3>4, <3>5, <3>6
  <2> QED BY <2>1, <2>2
<1>5. ASSUME NEW r, NEW k, NEW i, Answered(r, k, i) PROVE CountInv'
  <2> DEFINE c == HeapAllocateSizeInBlock(blocks[k], i, r.size, r.align)
             addr == AllocatedAddress(blocks[k], i, r.size, r.align)
             v == Cardinality(Idle(held'))
  <2>1. /\ pending # None /\ k \in DOMAIN blocks /\ i \in DOMAIN blocks[k].nodes
        /\ r.size \in 1..SIZE_MOD-1 /\ r.size <= blocks[k].bytesFree
        /\ c \in BlockType /\ addr \in Nat /\ AllocEffect(blocks[k], c, i, addr, r.size)
    BY <1>5 DEF Answered, Sized
  <2>2. u = 0
    BY <2>1 DEF MayFree
  <2>3. /\ blocks' = [blocks EXCEPT ![k] = c] /\ pending' = None
        /\ held' \in [Holders -> HeldType \cup {None}]
    BY <1>0, <1>5, AnsweredFacts
  <2>4. c = HeapAllocateSizeInBlock(blocks[k], i, r.size, r.align)
    OBVIOUS
  <2> HIDE DEF c, addr
  <2>5. v \in Nat /\ MayFree' = v
    BY <2>3, IdleCounts DEF MayFree
  <2> HIDE DEF u, v
  <2>6. BlockCounts(c, u)
    BY <1>0, <2>1, <2>4, AllocCounts
  <2>7. ASSUME NEW b \in BlockType, b.start <= b.end, BlockCounts(b, u) PROVE BlockCounts(b, v)
    <3>1. Drifted(b, v)
      BY <2>2, <2>5, <2>7, <1>0, DriftGrows DEF BlockCounts
    <3> QED BY <2>7, <3>1 DEF BlockCounts
  <2>8. \A l \in DOMAIN blocks : BlockCounts(blocks[l], v)
    BY <1>0, <2>7
  <2>9. c.start <= c.end
    BY <1>0, <2>1 DEF AllocEffect
  <2>10. BlockCounts(c, v)
    BY <2>1, <2>6, <2>7, <2>9
  <2>11. \A l \in DOMAIN blocks' : BlockCounts(blocks'[l], v)
    BY <1>0, <2>1, <2>3, <2>8, <2>10, CountsReplaced
  <2> QED BY <2>3, <2>5, <2>11 DEF CountInv
<1>6. ASSUME Expanded(Adjusted(pending)) PROVE CountInv'
  <2> DEFINE r == Adjusted(pending)
             b == NewBlock(memStartData, ExpansionSize(r), r.mask, KindOf(r))
             L == Len(blocks)
  <2>1. /\ pending # None /\ pending \in PendingType /\ r \in PendingType
        /\ L \in Nat /\ DOMAIN blocks' = 1..L+1 /\ blocks'[L+1] = b
        /\ \A l \in DOMAIN blocks : blocks'[l] = blocks[l]
        /\ ExpansionSize(r) \in 1..SIZE_MOD-1
        /\ pending' = [r EXCEPT !.expansions = r.expansions + 1]
    BY <1>6 DEF Expanded
  <2>2. RoundedOnce(r)
    BY <2>1, AdjustedRounded DEF CountInv
  <2> HIDE DEF r
  <2>3. ExpansionSize(r) \in BlockSizes
    BY <2>1, <2>2, ExpansionFits
  <2>4. BlockCounts(b, 0)
    BY <1>0, <2>1, <2>3, NewCounts DEF TypeOK
  <2> HIDE DEF b
  <2>5. pending' # None /\ RoundedOnce(pending')
    <3>1. pending' \in PendingType /\ pending'.size = r.size /\ pending'.asked = r.asked
      <4>1. r.expansions + 1 \in Nat
        BY <2>1 DEF PendingType
      <4> QED BY <2>1, <4>1 DEF PendingType
    <3> QED BY <2>2, <3>1, NoneIsNoRecord DEF RoundedOnce
  <2>6. u = 0 /\ MayFree' = 0
    BY <2>1, <2>5 DEF MayFree
  <2> HIDE DEF u, L
  <2>7. ASSUME NEW l \in DOMAIN blocks' PROVE BlockCounts(blocks'[l], 0)
    <3>1. l = L + 1 \/ l \in 1..L
      BY <2>1
    <3> QED BY <1>0, <2>1, <2>4, <2>6, <3>1 DEF L
  <2> QED BY <2>5, <2>6, <2>7 DEF CountInv
<1>7. Serve => CountInv'
  BY <1>1, <1>5, ServeFacts
<1>8. Expand => CountInv'
  BY <1>1, <1>6, ExpandFacts
<1> QED BY <1>2, <1>3, <1>4, <1>7, <1>8 DEF Next

(* BytesFree, by which HeapAllocate skips blocks without looking at their    *)
(* nodes, never hides free bytes, as long as it does not wrap: whatever is   *)
(* cut, padded, merged and freed, in whatever order.                         *)
THEOREM HeapFreeBytes ==
    ASSUME RequestsRounded, DriftFits PROVE Spec => []FreeBytesCounted
<1>1. Init => TypeInv /\ Sound /\ CountInv
  BY TypeInit, SoundInit, CountInit
<1>2. TypeInv /\ Sound /\ CountInv /\ [Next]_vars => TypeInv' /\ Sound' /\ CountInv'
  BY TypeNext, SoundNext, CountStep DEF TypeInv
<1>3. TypeInv /\ Sound /\ CountInv => FreeBytesCounted
  BY CountedIfSound DEF TypeInv
<1> QED
  BY <1>1, <1>2, <1>3, PTL DEF Spec

---------------------------------------------------------------------------
(* What the heap counts: headers                                           *)

(* The header space hands out what it has mapped, and has mapped no more     *)
(* than is reserved.                                                         *)
Within(hs) == hs.cur <= hs.max /\ hs.max < MEMORY_LOCATION_HEAP + MEMORY_STATIC_OFFSET

(* n bytes of headers were taken, recycled nodes included. *)
Taken(hs, g, n) ==
    /\ g \in HeaderType /\ Within(g)
    /\ g.cur - NODE_HEADER * g.recycled = hs.cur - NODE_HEADER * hs.recycled + n

LEMMA HeaderTaken ==
    ASSUME NEW hs \in HeaderType, Within(hs), NEW size \in 1..PAGE_SIZE-1,
           HeapSAllocator(hs, size).ok
    PROVE  hs.ok /\ Taken(hs, HeapSAllocator(hs, size), size)
<1> DEFINE limit == MEMORY_LOCATION_HEAP + MEMORY_STATIC_OFFSET
           g == HeapSAllocator(hs, size)
<1>1. /\ limit \in Nat /\ PAGE_SIZE \in Nat /\ NODE_HEADER \in Nat /\ size \in Nat
      /\ hs.cur \in Nat /\ hs.max \in Nat /\ hs.recycled \in Nat
      /\ hs.cur <= hs.max /\ hs.max < limit
  BY HeapSizes DEF HeaderType, Within
<1>2. CASE hs.cur + size < hs.max
  <2>1. g = [hs EXCEPT !.cur = @ + size]
    BY <1>1, <1>2 DEF HeapSAllocator
  <2>2. /\ g \in HeaderType /\ g.cur = hs.cur + size /\ g.max = hs.max
        /\ g.recycled = hs.recycled /\ g.ok = hs.ok
    <3>1. hs.cur + size \in Nat
      BY <1>1
    <3> HIDE DEF g
    <3> QED BY <2>1, <3>1 DEF HeaderType
  <2> HIDE DEF g
  <2>3. hs.ok
    BY <2>2 DEF g
  <2>4. Taken(hs, g, size)
    <3>1. NODE_HEADER * hs.recycled \in Nat
      BY <1>1
    <3> QED BY <1>1, <1>2, <2>2, <3>1 DEF Taken, Within
  <2> QED BY <2>3, <2>4 DEF g
<1>3. CASE hs.cur + size >= hs.max /\ hs.max + PAGE_SIZE >= limit
  <2>1. g = [hs EXCEPT !.ok = FALSE]
    BY <1>1, <1>3 DEF HeapSAllocator
  <2>2. ~g.ok
    BY <2>1 DEF HeaderType
  <2> QED BY <2>2
<1>4. CASE hs.cur + size >= hs.max /\ ~(hs.max + PAGE_SIZE >= limit)
  <2>1. g = [hs EXCEPT !.cur = @ + size, !.max = @ + PAGE_SIZE]
    BY <1>1, <1>4 DEF HeapSAllocator
  <2>2. /\ g \in HeaderType /\ g.cur = hs.cur + size /\ g.max = hs.max + PAGE_SIZE
        /\ g.recycled = hs.recycled /\ g.ok = hs.ok
    <3>1. hs.cur + size \in Nat /\ hs.max + PAGE_SIZE \in Nat
      BY <1>1
    <3> QED BY <2>1, <3>1 DEF HeaderType
  <2> HIDE DEF g
  <2>3. hs.ok
    BY <2>2 DEF g
  <2>4. Taken(hs, g, size)
    <3>1. NODE_HEADER * hs.recycled \in Nat
      BY <1>1
    <3> QED BY <1>1, <1>4, <2>2, <3>1 DEF Taken, Within
  <2> QED BY <2>3, <2>4 DEF g
<1> QED BY <1>1, <1>2, <1>3, <1>4

LEMMA NodeTaken ==
    ASSUME NEW hs \in HeaderType, Within(hs), TakeNode(hs).ok
    PROVE  hs.ok /\ Taken(hs, TakeNode(hs), NODE_HEADER)
<1>1. /\ NODE_HEADER \in Nat /\ NODE_HEADER \in 1..PAGE_SIZE-1
      /\ hs.cur \in Nat /\ hs.max \in Nat /\ hs.recycled \in Nat
  BY HeapSizes DEF HeaderType
<1>2. CASE hs.recycled > 0
  <2> DEFINE g == TakeNode(hs)
  <2>1. g = [hs EXCEPT !.recycled = @ - 1]
    BY <1>2 DEF TakeNode
  <2>2. /\ g \in HeaderType /\ g.cur = hs.cur /\ g.max = hs.max
        /\ g.recycled = hs.recycled - 1 /\ g.ok = hs.ok
    <3>1. hs.recycled - 1 \in Nat
      BY <1>1, <1>2
    <3> QED BY <2>1, <3>1 DEF HeaderType
  <2> HIDE DEF g
  <2>3. hs.ok
    BY <2>2 DEF g
  <2>4. Taken(hs, g, NODE_HEADER)
    <3>1. NODE_HEADER * (hs.recycled - 1) = NODE_HEADER * hs.recycled - NODE_HEADER
          /\ NODE_HEADER * hs.recycled \in Nat
      BY <1>1
    <3> QED BY <1>1, <2>2, <3>1 DEF Taken, Within
  <2> QED BY <2>3, <2>4 DEF g
<1>3. CASE ~(hs.recycled > 0)
  BY <1>1, <1>3, HeaderTaken DEF TakeNode
<1> QED BY <1>2, <1>3

LEMMA BlockTaken ==
    ASSUME NEW hs \in HeaderType, Within(hs), TakeBlockAndNode(hs).ok
    PROVE  hs.ok /\ Taken(hs, TakeBlockAndNode(hs), BLOCK_HEADER + NODE_HEADER)
<1> DEFINE g == HeapSAllocator(hs, BLOCK_HEADER)
           e == TakeNode(g)
<1>1. TakeBlockAndNode(hs) = e
  BY DEF TakeBlockAndNode
<1>2. BLOCK_HEADER \in 1..PAGE_SIZE-1 /\ BLOCK_HEADER \in Nat /\ NODE_HEADER \in Nat
  BY HeapSizes
<1>3. g \in HeaderType /\ g.ok /\ hs.ok
  BY <1>2, SpaceTypes, HeaderTypes
<1>4. Taken(hs, g, BLOCK_HEADER)
  BY <1>2, <1>3, HeaderTaken
<1>5. Within(g) /\ e.ok
  BY <1>1, <1>4 DEF Taken
<1> HIDE DEF g
<1>6. Taken(g, e, NODE_HEADER)
  BY <1>3, <1>5, NodeTaken
<1> HIDE DEF e
<1>7. Taken(hs, e, BLOCK_HEADER + NODE_HEADER)
  <2>1. /\ e \in HeaderType /\ Within(e)
        /\ e.cur - NODE_HEADER * e.recycled = g.cur - NODE_HEADER * g.recycled + NODE_HEADER
        /\ g.cur - NODE_HEADER * g.recycled = hs.cur - NODE_HEADER * hs.recycled + BLOCK_HEADER
    BY <1>4, <1>6 DEF Taken
  <2>2. hs.cur \in Nat /\ NODE_HEADER * hs.recycled \in Nat
    BY <1>2 DEF HeaderType
  <2>3. hs.cur - NODE_HEADER * hs.recycled \in Int
    BY <2>2
  <2>4. (hs.cur - NODE_HEADER * hs.recycled + BLOCK_HEADER) + NODE_HEADER
          = hs.cur - NODE_HEADER * hs.recycled + (BLOCK_HEADER + NODE_HEADER)
    BY <1>2, <2>3
  <2> QED BY <2>1, <2>4 DEF Taken
<1> QED BY <1>1, <1>3, <1>7

(* The number of nodes changes with the blocks. *)
LEMMA NodesReplaced ==
    ASSUME blocks \in Seq(BlockType), NEW k \in DOMAIN blocks, NEW c \in BlockType,
           blocks' = [blocks EXCEPT ![k] = c]
    PROVE  /\ NodesInUse \in Int /\ NodesInUse' \in Int
           /\ NodesInUse' = NodesInUse + (Len(c.nodes) - Len(blocks[k].nodes))
<1> DEFINE S == DOMAIN blocks
           f == [l \in DOMAIN blocks |-> Len(blocks[l].nodes)]
           g == [l \in S |-> Len(blocks'[l].nodes)]
<1>1. IsFiniteSet(S) /\ DOMAIN blocks' = S /\ k \in S
  <2>1. S = 1..Len(blocks) /\ Len(blocks) \in Int /\ 1 \in Int
    BY LenProperties
  <2>2. IsFiniteSet(1..Len(blocks))
    BY <2>1, FS_Interval
  <2>3. DOMAIN blocks' = S
    OBVIOUS
  <2> QED BY <2>1, <2>2, <2>3
<1>2. \A l \in S : blocks[l] \in BlockType /\ blocks'[l] = IF l = k THEN c ELSE blocks[l]
  BY LenProperties, ElementOfSeq
<1>3. f \in [S -> Int] /\ g \in [S -> Int]
  <2>1. \A l \in S : Len(blocks[l].nodes) \in Int /\ Len(blocks'[l].nodes) \in Int
    BY <1>2, NodeTypes
  <2> QED BY <2>1
<1>4. (\A l \in S : l # k => g[l] = f[l]) /\ g[k] = Len(c.nodes) /\ f[k] = Len(blocks[k].nodes)
  BY <1>1, <1>2
<1>5. NodesInUse = SumFunction(f) /\ NodesInUse' = SumFunction(g)
  BY <1>1 DEF NodesInUse
<1> HIDE DEF f, g, S
<1>6. SumFunction(g) \in Int /\ SumFunction(f) \in Int /\ SumFunction(g) - SumFunction(f) = g[k] - f[k]
  BY ONLY <1>1, <1>3, <1>4, SumChanges
<1>7. g[k] \in Int /\ f[k] \in Int
  BY <1>1, <1>3
<1>8. SumFunction(g) = SumFunction(f) + (g[k] - f[k])
  BY ONLY <1>6, <1>7
<1> QED BY <1>4, <1>5, <1>6, <1>8, Zenon

LEMMA NodesAppended ==
    ASSUME blocks \in Seq(BlockType), NEW b \in BlockType, blocks' = Append(blocks, b)
    PROVE  NodesInUse \in Int /\ NodesInUse' = NodesInUse + Len(b.nodes)
<1> DEFINE L == Len(blocks)
           S == 1..L
           T == 1..L+1
           f == [l \in DOMAIN blocks |-> Len(blocks[l].nodes)]
           g == [l \in T |-> Len(blocks'[l].nodes)]
<1>1. /\ L \in Nat /\ DOMAIN blocks = S /\ DOMAIN blocks' = T
      /\ \A l \in S : blocks'[l] = blocks[l] /\ blocks[l] \in BlockType
      /\ blocks'[L+1] = b
  BY LenProperties, ElementOfSeq, AppendProperties
<1>2. T = S \cup {L+1} /\ L+1 \notin S /\ IsFiniteSet(S)
  <2> HIDE DEF L
  <2>1. T = S \cup {L+1} /\ L+1 \notin S
    BY <1>1
  <2>2. IsFiniteSet(S)
    BY <1>1, FS_Interval
  <2> QED BY <2>1, <2>2
<1>3. f \in [S -> Int] /\ g \in [T -> Int]
  <2>1. \A l \in S : Len(blocks[l].nodes) \in Int
    BY <1>1, NodeTypes
  <2>2. \A l \in T : Len(blocks'[l].nodes) \in Int
    BY <1>1, <1>2, <2>1, NodeTypes
  <2> QED BY <1>1, <2>1, <2>2
<1>4. (\A l \in S : g[l] = f[l]) /\ g[L+1] = Len(b.nodes)
  BY <1>1, <1>2
<1>5. NodesInUse = SumFunction(f) /\ NodesInUse' = SumFunction(g)
  BY <1>1 DEF NodesInUse
<1> HIDE DEF f, g, S, T, L
<1>6. SumFunction(g) \in Int /\ SumFunction(f) \in Int /\ SumFunction(g) = SumFunction(f) + g[L+1]
  <2>1. ASSUME NEW x, x = L+1
        PROVE  SumFunction(g) \in Int /\ SumFunction(f) \in Int /\ SumFunction(g) = SumFunction(f) + g[x]
    <3>1. /\ T = S \cup {x} /\ x \notin S /\ IsFiniteSet(S)
          /\ f \in [S -> Int] /\ g \in [T -> Int] /\ \A l \in S : g[l] = f[l]
      BY <1>2, <1>3, <1>4, <2>1
    <3> QED BY ONLY <3>1, SumOneMore
  <2> QED BY <2>1
<1> QED BY <1>4, <1>5, <1>6

(* The account, with the recycled nodes on the side of the header space. *)
Account ==
    headers.cur - NODE_HEADER * headers.recycled
        = MEMORY_LOCATION_HEAP + BLOCK_HEADER * Len(blocks) + NODE_HEADER * NodesInUse
HeadersInv == headers.ok /\ Within(headers) /\ Account

LEMMA HeaderSizes ==
    ASSUME TypeOK
    PROVE  /\ NODE_HEADER \in Nat /\ BLOCK_HEADER \in Nat /\ MEMORY_LOCATION_HEAP \in Nat
           /\ headers \in HeaderType /\ headers.cur \in Nat /\ headers.recycled \in Nat
           /\ NODE_HEADER * headers.recycled \in Nat
           /\ Len(blocks) \in Nat /\ blocks \in Seq(BlockType) /\ NodesInUse \in Int
<1>1. /\ NODE_HEADER \in Nat /\ BLOCK_HEADER \in Nat /\ MEMORY_LOCATION_HEAP \in Nat
      /\ headers \in HeaderType /\ headers.cur \in Nat /\ headers.recycled \in Nat
      /\ Len(blocks) \in Nat /\ blocks \in Seq(BlockType)
  BY HeapSizes, LenProperties DEF TypeOK, HeaderType
<1>2. NODE_HEADER * headers.recycled \in Nat
  BY <1>1
<1>3. NodesInUse \in Int
  <2> DEFINE f == [l \in DOMAIN blocks |-> Len(blocks[l].nodes)]
             S == DOMAIN blocks
             z == [l \in S |-> 0]
  <2>1. IsFiniteSet(S) /\ \A l \in S : Len(blocks[l].nodes) \in Int
    BY <1>1, LenProperties, ElementOfSeq, NodeTypes, FS_Interval
  <2>2. f \in [S -> Int]
    BY <2>1
  <2>3. NodesInUse = SumFunction(f)
    BY DEF NodesInUse
  <2> HIDE DEF f, S
  <2>4. PICK g : Sums(g, f, S) /\ SumFunction(f) = g[S]
    BY <2>1, <2>2, SumFolds DEF SumOf
  <2> QED BY <2>3, <2>4 DEF Sums
<1> QED BY <1>1, <1>2, <1>3

LEMMA AccountedIfAccount == TypeOK /\ HeadersInv => HeadersAccounted
<1> SUFFICES ASSUME TypeOK, HeadersInv PROVE HeadersAccounted
  OBVIOUS
<1> DEFINE N == NODE_HEADER
           r == headers.recycled
           n == NodesInUse
           B == BLOCK_HEADER * Len(blocks)
           c == headers.cur
           M == MEMORY_LOCATION_HEAP
<1>1. N \in Nat /\ r \in Nat /\ n \in Int /\ c \in Nat /\ M \in Nat /\ B \in Nat
  BY HeaderSizes
<1>2. c - N * r = M + B + N * n
  BY DEF HeadersInv, Account
<1> HIDE DEF N, r, n, B, c, M
<1>3. N * (n + r) = N * n + N * r /\ N * r \in Int /\ N * n \in Int
  BY <1>1
<1>4. c - M = B + N * (n + r)
  BY <1>1, <1>2, <1>3
<1> QED BY <1>4 DEF HeadersInv, Within, HeadersAccounted, N, r, n, B, c, M

(* The bytes taken are for b blocks and m nodes more.                        *)
LEMMA AccountStep ==
    ASSUME TypeOK, HeadersInv, NEW b \in Int, NEW m \in Int, NEW z,
           z = BLOCK_HEADER * b + NODE_HEADER * m, headers'.ok, Taken(headers, headers', z),
           Len(blocks') = Len(blocks) + b, NodesInUse' = NodesInUse + m
    PROVE  HeadersInv'
<1> DEFINE N == NODE_HEADER
           H == BLOCK_HEADER
           n == NodesInUse
           l == Len(blocks)
           M == MEMORY_LOCATION_HEAP
           x == headers.cur - NODE_HEADER * headers.recycled
           y == headers'.cur - NODE_HEADER * headers'.recycled
<1>1. N \in Nat /\ H \in Nat /\ n \in Int /\ l \in Nat /\ M \in Nat
  BY HeaderSizes
<1>2. x = M + H * l + N * n /\ y = x + (H * b + N * m)
  BY DEF HeadersInv, Account, Taken
<1>3. Within(headers)'
  BY DEF Taken, Within
<1>4. Len(blocks') = l + b /\ NodesInUse' = n + m
  OBVIOUS
<1> HIDE DEF N, H, n, l, M, x, y
<1>5. H * (l + b) = H * l + H * b /\ N * (n + m) = N * n + N * m
      /\ H * l \in Int /\ H * b \in Int /\ N * n \in Int /\ N * m \in Int
  BY <1>1
<1>6. y = M + H * (l + b) + N * (n + m)
  BY <1>1, <1>2, <1>5
<1>7. Account'
  BY <1>4, <1>6 DEF Account, N, H, M, y
<1> QED BY <1>3, <1>7 DEF HeadersInv

(* As many blocks, m nodes more. *)
LEMMA AccountNodes ==
    ASSUME TypeOK, HeadersInv, NEW m \in Int,
           headers'.ok, Taken(headers, headers', NODE_HEADER * m),
           Len(blocks') = Len(blocks), NodesInUse' = NodesInUse + m
    PROVE  HeadersInv'
<1>1. ASSUME NEW b \in Int, b = 0 PROVE HeadersInv'
  <2>1. NODE_HEADER * m = BLOCK_HEADER * b + NODE_HEADER * m /\ Len(blocks') = Len(blocks) + b
    BY <1>1, HeaderSizes
  <2> QED BY <2>1, AccountStep
<1> QED BY <1>1

LEMMA HeadersInit == HeadersFit /\ Init => HeadersInv
<1> SUFFICES ASSUME HeadersFit, Init PROVE HeadersInv
  OBVIOUS
<1> DEFINE one == TakeBlockAndNode(NoHeaders)
           M == MEMORY_LOCATION_HEAP
           N == NODE_HEADER
           B == BLOCK_HEADER
<1>1. TypeOK
  BY TypeInit DEF TypeInv
<1>2. headers = TakeBlockAndNode(one) /\ headers.ok
  BY DEF Init, FirstHeaders, HeadersFit
<1>3. M \in Nat /\ N \in Nat /\ B \in Nat /\ MEMORY_STATIC_OFFSET \in Nat \ {0}
  BY HeapSizes
<1>4. NoHeaders \in HeaderType /\ Within(NoHeaders) /\ NoHeaders.cur = M /\ NoHeaders.recycled = 0
  BY <1>3 DEF NoHeaders, HeaderType, Within
<1>5. one \in HeaderType /\ one.ok
  <2>1. one \in HeaderType
    BY <1>4, HeaderTypes
  <2> HIDE DEF one
  <2>2. HeapSAllocator(one, BLOCK_HEADER).ok
    BY <1>2, <2>1, HeaderTypes
  <2> QED BY <1>3, <2>1, <2>2, SpaceTypes
<1>6. Taken(NoHeaders, one, B + N)
  BY <1>4, <1>5, BlockTaken
<1>7. Within(one)
  BY <1>6 DEF Taken
<1> HIDE DEF one
<1>8. Taken(one, headers, B + N)
  BY <1>2, <1>5, <1>7, BlockTaken
<1>9. headers.cur - N * headers.recycled = M + 2 * B + 2 * N
  <2>1. one.cur - N * one.recycled = M - N * 0 + (B + N)
    BY <1>4, <1>6 DEF Taken
  <2>2. headers.cur - N * headers.recycled = one.cur - N * one.recycled + (B + N)
    BY <1>8 DEF Taken
  <2> QED BY <1>3, <2>1, <2>2
<1> DEFINE data == M + MEMORY_STATIC_OFFSET
           b1 == NewBlock(data, HEAP_NORMAL_BLOCK, MASK, "normal")
           b2 == NewBlock(data + HEAP_NORMAL_BLOCK, HEAP_LARGE_BLOCK, MASK, "page")
           f == [k \in DOMAIN blocks |-> Len(blocks[k].nodes)]
           e == [k \in {1} |-> 1]
           z == [k \in {} |-> 1]
<1>10. blocks = <<b1, b2>> /\ Len(blocks) = 2 /\ DOMAIN blocks = {1, 2}
  BY DEF Init
<1>11. Len(b1.nodes) = 1 /\ Len(b2.nodes) = 1
  BY DEF NewBlock
<1> HIDE DEF b1, b2
<1>12. NodesInUse = 2
  <2>1. f \in [{1, 2} -> Int] /\ f[1] = 1 /\ f[2] = 1 /\ NodesInUse = SumFunction(f)
    BY <1>10, <1>11 DEF NodesInUse
  <2>2. e \in [{1} -> Int] /\ e[1] = 1 /\ z \in [{} -> Int]
    OBVIOUS
  <2> HIDE DEF f, e, z
  <2>3. ASSUME NEW S, S = {} PROVE SumFunction(z) = 0
    BY <2>2, <2>3, SumZeros, FS_EmptySet
  <2>4. ASSUME NEW S, NEW T, NEW x, x = 1, S = {}, T = {1} PROVE SumFunction(e) = SumFunction(z) + e[x]
    <3>1. IsFiniteSet(S) /\ x \notin S /\ T = S \cup {x} /\ z \in [S -> Int] /\ e \in [T -> Int]
          /\ \A y \in S : e[y] = z[y]
      BY <2>2, <2>4, FS_EmptySet
    <3> QED BY ONLY <3>1, SumOneMore
  <2>5. ASSUME NEW S, NEW T, NEW x, x = 2, S = {1}, T = {1, 2} PROVE SumFunction(f) = SumFunction(e) + f[x]
    <3>1. IsFiniteSet(S) /\ x \notin S /\ T = S \cup {x} /\ e \in [S -> Int] /\ f \in [T -> Int]
          /\ \A y \in S : f[y] = e[y]
      <4>1. IsFiniteSet(S)
        BY <2>5, FS_Singleton
      <4>2. \A y \in S : f[y] = 1 /\ e[y] = 1
        BY <2>1, <2>2, <2>5
      <4>3. x \notin S /\ T = S \cup {x} /\ e \in [S -> Int] /\ f \in [T -> Int]
        BY <2>1, <2>2, <2>5
      <4> QED BY <4>1, <4>2, <4>3
    <3> QED BY ONLY <3>1, SumOneMore
  <2>6. SumFunction(z) = 0 /\ SumFunction(e) = SumFunction(z) + e[1] /\ SumFunction(f) = SumFunction(e) + f[2]
    BY <2>3, <2>4, <2>5
  <2> QED BY <2>1, <2>2, <2>6
<1>13. Account
  BY <1>3, <1>9, <1>10, <1>12 DEF Account
<1> QED BY <1>2, <1>8, <1>13 DEF HeadersInv, Taken

LEMMA HeadersStep == TypeInv /\ TypeOK' /\ Sound /\ HeadersInv /\ [Next]_vars => HeadersInv'
<1> SUFFICES ASSUME TypeInv, TypeOK', Sound, HeadersInv, [Next]_vars PROVE HeadersInv'
  OBVIOUS
<1>0. /\ TypeOK /\ TypeOK' /\ blocks \in Seq(BlockType) /\ DOMAIN blocks = 1..Len(blocks)
      /\ headers \in HeaderType /\ headers' \in HeaderType /\ Within(headers) /\ headers.ok
      /\ \A k \in DOMAIN blocks : blocks[k] \in BlockType
      /\ NODE_HEADER \in Nat /\ BLOCK_HEADER \in Nat
  BY LenProperties, ElementOfSeq, HeapSizes DEF TypeInv, TypeOK, HeadersInv
<1>1. ASSUME UNCHANGED <<blocks, headers>> PROVE HeadersInv'
  BY <1>1 DEF HeadersInv, Within, Account, NodesInUse
<1>2. CASE Crash \/ UNCHANGED vars
  BY <1>1, <1>2 DEF Crash, vars
<1>3. ASSUME NEW h \in Holders, NEW c \in Requests, Call(h, c) PROVE HeadersInv'
  BY <1>1, <1>3 DEF Call
<1>4. ASSUME NEW h \in Holders, kfree(h) PROVE HeadersInv'
  <2>1. CASE Crash
    BY <1>2, <2>1
  <2>2. CASE blocks' = blocks /\ headers' = headers
    BY <1>1, <2>2
  <2>3. ASSUME NEW k \in DOMAIN blocks, NEW i \in DOMAIN blocks[k].nodes, NEW c \in BlockType,
               headers' = IF i < Len(blocks[k].nodes)
                          THEN [headers EXCEPT !.recycled = @ + 1] ELSE headers,
               FreeEffect(blocks[k], c, i), blocks' = [blocks EXCEPT ![k] = c]
        PROVE  HeadersInv'
    <3> DEFINE p == Len(c.nodes)
               q == Len(blocks[k].nodes)
               m == p - q
    <3>1. NodesInUse' = NodesInUse + m /\ Len(blocks') = Len(blocks)
      BY <1>0, <2>3, NodesReplaced, LenProperties, ExceptSeq
    <3>2. i \in 1..q /\ q \in Nat /\ p = IF i < q THEN q - 1 ELSE q
      <4>1. i \in 1..q /\ q \in Nat
        BY <1>0, NodeTypes
      <4>2. (i < q => p = q - 1) /\ (i = q => p = q)
        BY <2>3 DEF FreeEffect
      <4> QED BY <4>1, <4>2
    <3> HIDE DEF p, q
    <3>3. m = IF i < q THEN -1 ELSE 0
      BY <3>2
    <3> HIDE DEF m
    <3>4. headers'.ok /\ Taken(headers, headers', NODE_HEADER * m)
      <4>1. CASE i < q
        <5>1. /\ headers'.cur = headers.cur /\ headers'.max = headers.max
              /\ headers'.ok = headers.ok /\ headers'.recycled = headers.recycled + 1
              /\ headers.recycled \in Nat /\ headers.cur \in Nat
          BY <1>0, <2>3, <4>1 DEF HeaderType, q
        <5>2. NODE_HEADER * (headers.recycled + 1) = NODE_HEADER * headers.recycled + NODE_HEADER
              /\ NODE_HEADER * headers.recycled \in Nat /\ NODE_HEADER * m = -NODE_HEADER
          BY <1>0, <3>3, <4>1, <5>1
        <5> QED BY <1>0, <5>1, <5>2 DEF Taken, Within
      <4>2. CASE ~(i < q)
        <5>1. headers' = headers /\ NODE_HEADER * m = 0
          BY <1>0, <2>3, <3>3, <4>2 DEF q
        <5>2. headers.cur \in Nat /\ NODE_HEADER * headers.recycled \in Nat
          BY <1>0, HeaderSizes
        <5> QED BY <1>0, <5>1, <5>2 DEF Taken
      <4> QED BY <4>1, <4>2
    <3>5. m \in Int
      BY <3>3
    <3> QED BY <1>0, <3>1, <3>4, <3>5, AccountNodes
  <2> QED BY <1>4, <2>1, <2>2, <2>3, KfreeBlocks
<1>5. ASSUME NEW r, NEW k, NEW i, Answered(r, k, i) PROVE HeadersInv'
  <2> DEFINE c == HeapAllocateSizeInBlock(blocks[k], i, r.size, r.align)
             addr == AllocatedAddress(blocks[k], i, r.size, r.align)
             p == Len(c.nodes)
             q == Len(blocks[k].nodes)
             m == p - q
             cut == Splits(blocks[k], i, r.size)
  <2>1. /\ k \in DOMAIN blocks /\ c \in BlockType /\ AllocEffect(blocks[k], c, i, addr, r.size)
        /\ HeadersLeft(r, k, i).ok
    BY <1>5 DEF Answered
  <2>2. blocks' = [blocks EXCEPT ![k] = c] /\ headers' = HeadersLeft(r, k, i)
    BY <1>5 DEF Answered, Answer
  <2> HIDE DEF c, addr
  <2>3. q \in Nat /\ p = IF cut THEN q + 1 ELSE q
    <3>1. q \in Nat
      BY <1>0, <2>1, NodeTypes
    <3>2. i = q /\ p = IF cut THEN i + 1 ELSE i
      BY <2>1 DEF AllocEffect
    <3> QED BY <3>1, <3>2
  <2>4. NodesInUse' = NodesInUse + m /\ Len(blocks') = Len(blocks)
    BY <1>0, <2>1, <2>2, NodesReplaced, LenProperties, ExceptSeq
  <2>5. headers' = IF cut THEN TakeNode(headers) ELSE headers
    BY <2>2 DEF HeadersLeft
  <2> HIDE DEF p, q, cut
  <2>6. m = IF cut THEN 1 ELSE 0
    BY <2>3
  <2> HIDE DEF m
  <2>7. headers'.ok /\ Taken(headers, headers', NODE_HEADER * m)
    <3>1. CASE cut
      <4>1. headers' = TakeNode(headers) /\ TakeNode(headers).ok /\ NODE_HEADER * m = NODE_HEADER
        BY <1>0, <2>1, <2>2, <2>5, <2>6, <3>1
      <4> QED BY <1>0, <4>1, NodeTaken
    <3>2. CASE ~cut
      <4>1. headers' = headers /\ NODE_HEADER * m = 0
        BY <1>0, <2>5, <2>6, <3>2
      <4>2. headers.cur \in Nat /\ NODE_HEADER * headers.recycled \in Nat
        BY <1>0, HeaderSizes
      <4> QED BY <1>0, <4>1, <4>2 DEF Taken
    <3> QED BY <3>1, <3>2
  <2>8. m \in Int
    BY <2>6
  <2> QED BY <1>0, <2>4, <2>7, <2>8, AccountNodes
<1>6. ASSUME Expanded(Adjusted(pending)) PROVE HeadersInv'
  <2> DEFINE r == Adjusted(pending)
             b == NewBlock(memStartData, ExpansionSize(r), r.mask, KindOf(r))
  <2>1. /\ b \in BlockType /\ blocks' = Append(blocks, b) /\ Len(blocks) \in Nat
        /\ TakeBlockAndNode(headers).ok /\ headers' = TakeBlockAndNode(headers)
    BY <1>6 DEF Expanded
  <2>2. Len(b.nodes) = 1
    BY DEF NewBlock
  <2> HIDE DEF b
  <2>3. NodesInUse' = NodesInUse + 1 /\ Len(blocks') = Len(blocks) + 1
    <3>1. NodesInUse' = NodesInUse + Len(b.nodes)
      BY <1>0, <2>1, NodesAppended
    <3>2. Len(blocks') = Len(blocks) + 1
      BY <1>0, <2>1, AppendProperties
    <3> QED BY <2>2, <3>1, <3>2, Zenon
  <2>4. headers'.ok /\ Taken(headers, headers', BLOCK_HEADER + NODE_HEADER)
    BY <1>0, <2>1, BlockTaken
  <2>5. ASSUME NEW x \in Int, NEW y \in Int, x = 1, y = 1 PROVE HeadersInv'
    <3>1. BLOCK_HEADER + NODE_HEADER = BLOCK_HEADER * x + NODE_HEADER * y
      BY <1>0, <2>5
    <3> QED BY <1>0, <2>3, <2>4, <2>5, <3>1, AccountStep
  <2> QED BY <2>5
<1>7. Serve => HeadersInv'
  BY <1>2, <1>5, ServeFacts
<1>8. Expand => HeadersInv'
  BY <1>2, <1>6, ExpandFacts
<1> QED BY <1>2, <1>3, <1>4, <1>7, <1>8 DEF Next

(* No header is handed out beyond what is mapped and reserved for headers,   *)
(* and none is lost: each one taken is a block, a node or in the recycler,   *)
(* whatever is merged and cut, and also when the header space runs out.      *)
THEOREM HeapHeaders ==
    ASSUME RequestsRounded, HeadersFit PROVE Spec => []HeadersAccounted
<1>1. Init => TypeInv /\ Sound /\ HeadersInv
  BY TypeInit, SoundInit, HeadersInit
<1>2. TypeInv /\ Sound /\ HeadersInv /\ [Next]_vars => TypeInv' /\ Sound' /\ HeadersInv'
  BY TypeNext, SoundNext, HeadersStep DEF TypeInv
<1>3. TypeInv /\ HeadersInv => HeadersAccounted
  BY AccountedIfAccount DEF TypeInv
<1> QED
  BY <1>1, <1>2, <1>3, PTL DEF Spec
=============================================================================

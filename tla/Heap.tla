-------------------------------- MODULE Heap --------------------------------
(***************************************************************************)
(* The kernel heap of kernel/system/heap.c.                                *)
(*                                                                         *)
(* The heap hands out address ranges from blocks, each of which is cut     *)
(* into a list of nodes.  Three lists of blocks exist (Blocks, PageBlocks, *)
(* CustomBlocks); blocks are only ever appended, so one sequence in order  *)
(* of creation stands for all three and "the list of kind k" is the        *)
(* subsequence of the blocks of that kind.                                 *)
(*                                                                         *)
(* A step is one call of HeapAllocate (which answers, or expands the heap  *)
(* and calls itself again) or one call of kfree.  The kernel is            *)
(* single-threaded and PicInit masks every interrupt, so the steps of two  *)
(* calls do not interleave; the clients may issue calls in any order.      *)
(***************************************************************************)
EXTENDS Integers, SequencesExt

CONSTANTS
    PAGE_SIZE, HEAP_NORMAL_BLOCK, HEAP_LARGE_BLOCK, HEAP_STANDARD_ALIGN,
    MEMORY_LOCATION_HEAP,   \* HeapBase: the headers grow from here
    MEMORY_STATIC_OFFSET,   \* the room reserved for headers; the data follows
    BLOCK_HEADER,           \* sizeof(HeapBlock_t)
    NODE_HEADER,            \* sizeof(HeapNode_t)
    SIZE_MOD,               \* 2^w for a size_t of w bits
    MASK,                   \* __MASK, the mask any physical frame satisfies
    Holders,                \* the clients' pointer variables
    Requests,               \* the calls of kmalloc* the clients may make
    MaxDrift                \* bound: no new call once the BytesFree of a block
                            \* exceeds the size of the block by more

CONSTANTS None              \* a holder without memory; no pending call

Kinds == {"normal", "page", "custom"}

(* A request is a call of one of the kmalloc wrappers: page says whether it  *)
(* asks for page alignment (kmalloc_a, kmalloc_ap, kmalloc_apm).             *)
ASSUME HeapSizes ==
    /\ PAGE_SIZE \in Nat \ {0} /\ HEAP_NORMAL_BLOCK \in Nat \ {0}
    /\ HEAP_LARGE_BLOCK \in Nat \ {0} /\ HEAP_STANDARD_ALIGN \in Nat \ {0}
    /\ MEMORY_LOCATION_HEAP \in Nat
    /\ MEMORY_STATIC_OFFSET \in Nat \ {0}
    /\ BLOCK_HEADER \in 1..PAGE_SIZE-1 /\ NODE_HEADER \in 1..PAGE_SIZE-1
    /\ SIZE_MOD \in Nat /\ HEAP_NORMAL_BLOCK < SIZE_MOD /\ HEAP_LARGE_BLOCK < SIZE_MOD
    /\ HEAP_STANDARD_ALIGN < SIZE_MOD /\ HEAP_NORMAL_BLOCK <= HEAP_LARGE_BLOCK
    /\ MASK \in Nat /\ MaxDrift \in Nat

(* The constants of heap.h and of the memory map are multiples of the        *)
(* alignment.                                                                *)
ASSUME HeapAlignment ==
    \A v \in {PAGE_SIZE, HEAP_NORMAL_BLOCK, HEAP_LARGE_BLOCK,
              MEMORY_LOCATION_HEAP + MEMORY_STATIC_OFFSET} : v % HEAP_STANDARD_ALIGN = 0

(* Blocks are made of whole pages and the first begins on a page. *)
ASSUME HeapPages ==
    \A v \in {HEAP_NORMAL_BLOCK, HEAP_LARGE_BLOCK,
              MEMORY_LOCATION_HEAP + MEMORY_STATIC_OFFSET} : v % PAGE_SIZE = 0

ASSUME HeapRequests ==
    Requests \subseteq [page: BOOLEAN, size: 1..SIZE_MOD-PAGE_SIZE-1, mask: 0..MASK]

VARIABLES
    blocks,         \* every block ever created, in order of creation
    memStartData,   \* where the next block will start
    headers,        \* the header space and the node recycler
    mapped,         \* page -> the mask its frame was asked for with
    held,           \* Holders -> what kmalloc returned to them, or None
    pending,        \* the activation of HeapAllocate in progress, or None
    fault           \* a NULL header or block was dereferenced: the CPU faults
                    \* and ExceptionEntry spins

vars == <<blocks, memStartData, headers, mapped, held, pending, fault>>

---------------------------------------------------------------------------
(* Arithmetic: the ALIGN and DIVUP macros for powers of two, and size_t.   *)

AlignUp(v, a) == IF v % a = 0 THEN v ELSE v + a - (v % a)
IsAligned(v, a) == v % a = 0
SizeAdd(m, n) == IF m + n < SIZE_MOD THEN m + n ELSE m + n - SIZE_MOD
SizeSub(m, n) == IF n <= m THEN m - n ELSE m - n + SIZE_MOD

(* Where a search along a list stops, given the positions it may stop at. *)
First(S) == {i \in S : \A j \in S : i <= j}

---------------------------------------------------------------------------
(* Header space.  A header record is [cur, max, recycled, ok]: MemHeader-  *)
(* Current, MemHeaderMax, the length of NodeRecycler, and whether every    *)
(* header taken so far was a real one.  BlockRecycler is always empty: no  *)
(* code pushes a block on it.                                              *)

HeapSAllocator(hs, size) ==
    LET limit == MEMORY_LOCATION_HEAP + MEMORY_STATIC_OFFSET IN
    CASE hs.cur + size < hs.max -> [hs EXCEPT !.cur = @ + size]
      [] hs.cur + size >= hs.max /\ hs.max + PAGE_SIZE >= limit ->
             [hs EXCEPT !.ok = FALSE]
      [] OTHER -> [hs EXCEPT !.cur = @ + size, !.max = @ + PAGE_SIZE]

TakeNode(hs) ==
    IF hs.recycled > 0 THEN [hs EXCEPT !.recycled = @ - 1]
                       ELSE HeapSAllocator(hs, NODE_HEADER)

TakeBlockAndNode(hs) == TakeNode(HeapSAllocator(hs, BLOCK_HEADER))

(* HeapCreateBlock at address start: one free node spans the block. *)
NewBlock(start, size, mask, kind) ==
    [start |-> start, end |-> start + size - 1, kind |-> kind, mask |-> mask,
     bytesFree |-> size,
     nodes |-> <<[addr |-> start, len |-> size, alloc |-> FALSE]>>]

---------------------------------------------------------------------------
(* Allocation inside a block (HeapAllocateSizeInBlock).                    *)

ExactFit(b, n, size) == n.len = size \/ b.kind = "custom"

NeedsPadding(n, align) == align # 0 /\ ~IsAligned(n.addr, align)

NodeFits(b, n, size, align) ==
    /\ ~n.alloc
    /\ n.len >= size
    /\ ExactFit(b, n, size) \/ ~NeedsPadding(n, align)
                            \/ n.len >= AlignUp(size, align)

(* The nodes the search may stop at; it takes the first. *)
FittingNodes(b, size, align) ==
    {i \in DOMAIN b.nodes : NodeFits(b, b.nodes[i], size, align)}

Padding(n, align) ==
    IF NeedsPadding(n, align) THEN align - (n.addr % align) ELSE 0

(* Does taking node i cut a new node off its front? *)
Splits(b, i, size) == ~ExactFit(b, b.nodes[i], size)

(* The address returned for node i. *)
AllocatedAddress(b, i, size, align) ==
    IF Splits(b, i, size) THEN b.nodes[i].addr + Padding(b.nodes[i], align)
                          ELSE b.nodes[i].addr

(* A variant: the node is not marked. *)
TakeUnmarked(b, i, size) == [b EXCEPT !.bytesFree = SizeSub(@, size)]

(* The block once node i is taken.  Only the exact fit updates BytesFree.  *)
TakeWhole(b, i, size) ==
    [b EXCEPT !.nodes[i].alloc = TRUE, !.bytesFree = SizeSub(@, size)]

(* A variant: the rest of the node begins as if there were no padding.       *)
TakeUnpadded(b, i, size, align) ==
    LET n   == b.nodes[i]
        new == [addr |-> n.addr, len |-> size + Padding(n, align), alloc |-> TRUE]
        rest == [n EXCEPT !.addr = n.addr + size, !.len = SizeSub(@, size)]
    IN  [b EXCEPT !.nodes = InsertAt(ReplaceAt(b.nodes, i, rest), i, new)]

TakeFront(b, i, size, align) ==
    LET n    == b.nodes[i]
        used == SizeAdd(size, Padding(n, align))
        new  == [addr |-> n.addr, len |-> used, alloc |-> TRUE]
        rest == [n EXCEPT !.addr = n.addr + used, !.len = SizeSub(@, used)]
    IN  [b EXCEPT !.nodes = InsertAt(ReplaceAt(b.nodes, i, rest), i, new)]

HeapAllocateSizeInBlock(b, i, size, align) ==
    IF Splits(b, i, size) THEN TakeFront(b, i, size, align)
                          ELSE TakeWhole(b, i, size)

---------------------------------------------------------------------------
(* Allocation (HeapAllocate).                                              *)

(* A variant: page requests are not rounded up. *)
Unrounded(r) == [r EXCEPT !.big = r.big \/ r.size >= HEAP_LARGE_BLOCK]

(* The size and flags a request is turned into on entry. *)
Adjusted(r) ==
    LET large == ~r.page /\ ~r.big /\ r.size >= HEAP_NORMAL_BLOCK
        size  == IF large THEN AlignUp(r.size, PAGE_SIZE) ELSE r.size
        page  == r.page \/ large
        big   == r.big \/ size >= HEAP_LARGE_BLOCK
    IN  [r EXCEPT !.page = page, !.big = big,
                  !.size = IF page /\ ~big THEN AlignUp(size, PAGE_SIZE) ELSE size]

KindOf(r) == IF r.big THEN "custom" ELSE IF r.page THEN "page" ELSE "normal"

(* The blocks an adjusted request can be served from; the first one serves. *)
ServingBlocks(r) ==
    {i \in DOMAIN blocks :
        /\ blocks[i].kind = KindOf(r)
        /\ blocks[i].bytesFree >= r.size
        /\ blocks[i].mask >= r.mask
        /\ FittingNodes(blocks[i], r.size, r.align) # {}}

(* A variant: a range that crosses a page boundary gets no page more.        *)
PagesOfSize(addr, size) ==
    addr \div PAGE_SIZE .. addr \div PAGE_SIZE + (size + PAGE_SIZE - 1) \div PAGE_SIZE - 1

(* HeapCommitPages maps DIVUP(size) pages, one more when the range crosses a *)
(* page boundary; pages already mapped keep the frame they have.             *)
CommittedPages(addr, size) ==
    LET first == addr \div PAGE_SIZE
        count == (size + PAGE_SIZE - 1) \div PAGE_SIZE
                 + (IF first # (addr + size - 1) \div PAGE_SIZE THEN 1 ELSE 0)
    IN  first .. first + count - 1

HeapCommitPages(addr, size, mask) ==
    [p \in DOMAIN mapped \cup CommittedPages(addr, size) |->
        IF p \in DOMAIN mapped THEN mapped[p] ELSE mask]

(* A call of a kmalloc wrapper enters HeapAllocate; a wrapper of the page    *)
(* kind passes ALLOCATION_PAGEALIGN and no alignment, kmalloc and kmalloc_p  *)
(* pass HEAP_STANDARD_ALIGN.  asked keeps what the client wants.             *)
Call(h, c) ==
    /\ ~fault /\ pending = None /\ held[h] = None
    /\ \A k \in DOMAIN blocks : LET b == blocks[k] IN
            b.bytesFree <= b.end - b.start + 1 + MaxDrift
    /\ pending' = [holder |-> h, asked |-> c, expansions |-> 0,
                   size |-> c.size, page |-> c.page, big |-> FALSE, mask |-> c.mask,
                   align |-> IF c.page THEN 0 ELSE HEAP_STANDARD_ALIGN]
    /\ UNCHANGED <<blocks, memStartData, headers, mapped, held, fault>>

(* A variant: the allocator waits for headers to come back.                  *)
WaitForHeaders == UNCHANGED vars

(* The machine stops at a NULL dereference: the exception handler spins. *)
Crash == fault' = TRUE /\ UNCHANGED <<blocks, memStartData, headers, mapped, held, pending>>

(* HeapAllocate finds a block and a node, and answers the call. *)
Answer(r, k, i, hs) ==
    LET b    == blocks[k]
        addr == AllocatedAddress(b, i, r.size, r.align)
    IN  /\ blocks' = [blocks EXCEPT ![k] = HeapAllocateSizeInBlock(b, i, r.size, r.align)]
        /\ headers' = hs
        /\ mapped' = HeapCommitPages(addr, r.size, r.mask)
        /\ held' = [held EXCEPT ![r.holder] =
                      [ptr |-> addr, size |-> r.asked.size,
                       page |-> r.asked.page, mask |-> r.asked.mask]]
        /\ pending' = None
        /\ UNCHANGED <<memStartData, fault>>

Serve ==
    /\ ~fault /\ pending # None
    /\ \E r \in {Adjusted(pending)} :
       \E k \in First(ServingBlocks(r)) :
       \E i \in First(FittingNodes(blocks[k], r.size, r.align)) :
       \E hs \in {IF Splits(blocks[k], i, r.size) THEN TakeNode(headers) ELSE headers} :
          \/ hs.ok /\ Answer(r, k, i, hs)
          \/ ~hs.ok /\ Crash

(* HeapAllocate finds nothing: HeapExpand appends a block of the request's   *)
(* kind, and HeapAllocate calls itself with the adjusted arguments.          *)
(* A variant: every block that is not normal is a large one.                 *)
NoCustomSize(r) == IF KindOf(r) = "normal" THEN HEAP_NORMAL_BLOCK ELSE HEAP_LARGE_BLOCK

ExpansionSize(r) == CASE KindOf(r) = "custom" -> r.size
                      [] KindOf(r) = "page"   -> HEAP_LARGE_BLOCK
                      [] KindOf(r) = "normal" -> HEAP_NORMAL_BLOCK

(* A variant: MemStartData is not moved on. *)
ExpandInPlace(r, hs) ==
    /\ blocks' = Append(blocks, NewBlock(memStartData, ExpansionSize(r), r.mask, KindOf(r)))
    /\ headers' = hs
    /\ pending' = [r EXCEPT !.expansions = @ + 1]
    /\ UNCHANGED <<memStartData, mapped, held, fault>>

HeapExpand(r, hs) ==
    /\ blocks' = Append(blocks, NewBlock(memStartData, ExpansionSize(r), r.mask, KindOf(r)))
    /\ memStartData' = memStartData + ExpansionSize(r)
    /\ headers' = hs
    /\ pending' = [r EXCEPT !.expansions = @ + 1]
    /\ UNCHANGED <<mapped, held, fault>>

Expand ==
    /\ ~fault /\ pending # None
    /\ \E r \in {Adjusted(pending)}, hs \in {TakeBlockAndNode(headers)} :
       /\ ServingBlocks(r) = {}
       /\ \/ hs.ok /\ HeapExpand(r, hs)
          \/ ~hs.ok /\ Crash

---------------------------------------------------------------------------
(* Freeing (kfree, HeapFree).                                              *)

(* HeapFreeLocator on the three lists.  Blocks never share an address        *)
(* (BlocksTile), so the order in which the lists are tried does not matter.  *)
LocatedBlocks(addr) ==
    {i \in DOMAIN blocks : blocks[i].start <= addr /\ addr < blocks[i].end}

(* A variant: the byte behind a node is taken for a part of it.              *)
NodesWithEnd(b, addr) ==
    {i \in DOMAIN b.nodes : LET n == b.nodes[i] IN
        n.addr <= addr /\ addr <= n.addr + n.len}

(* The nodes the search of HeapFreeAddressInNode may stop at.  The last byte *)
(* of a node is not taken for a part of it.                                  *)
MatchingNodes(b, addr) ==
    {i \in DOMAIN b.nodes : LET n == b.nodes[i] IN
        n.addr <= addr /\ addr < n.addr + n.len - 1}

(* What happens to node i: it disappears into a free predecessor; or into    *)
(* its successor, whatever the state of that one (the code tests the flags   *)
(* of the node it has just cleared); or it stays, marked free.               *)
MergesBack(b, i) == i > 1 /\ ~b.nodes[i-1].alloc
(* A variant: the flags of the successor are tested.                         *)
MergesOnFree(b, i) == ~MergesBack(b, i) /\ i < Len(b.nodes) /\ ~b.nodes[i+1].alloc

MergesOn(b, i)   == ~MergesBack(b, i) /\ i < Len(b.nodes)

FreedNodes(b, i) ==
    LET n == b.nodes[i] IN
    CASE MergesBack(b, i) ->
             RemoveAt([b.nodes EXCEPT ![i-1].len = SizeAdd(@, n.len)], i)
      [] MergesOn(b, i) ->
             RemoveAt([b.nodes EXCEPT ![i+1].addr = n.addr, ![i+1].len = SizeAdd(@, n.len)], i)
      [] OTHER -> [b.nodes EXCEPT ![i].alloc = FALSE]

(* A variant: BytesFree is not given back. *)
FreeUncounted(b, i) == [b EXCEPT !.nodes = FreedNodes(b, i)]

HeapFreeAddressInNode(b, i) ==
    [b EXCEPT !.bytesFree = SizeAdd(@, b.nodes[i].len), !.nodes = FreedNodes(b, i)]

(* A variant: the header of a merged node is not recycled.                   *)
FreeNodeOnly(addr, k) ==
    LET b == blocks[k] IN
    /\ \E i \in First(MatchingNodes(b, addr)) :
          blocks' = [blocks EXCEPT ![k] = HeapFreeAddressInNode(b, i)]
    /\ UNCHANGED headers

(* The node with the address is freed; an address in no node frees nothing. *)
HeapFree(addr, k) ==
    LET b == blocks[k] IN
    \/ \E i \in First(MatchingNodes(b, addr)) :
          /\ blocks' = [blocks EXCEPT ![k] = HeapFreeAddressInNode(b, i)]
          /\ headers' = IF MergesBack(b, i) \/ MergesOn(b, i)
                        THEN [headers EXCEPT !.recycled = @ + 1] ELSE headers
    \/ MatchingNodes(b, addr) = {} /\ UNCHANGED <<blocks, headers>>

kfree(h) ==
    /\ ~fault /\ pending = None /\ held[h] # None
    /\ \/ /\ \E k \in First(LocatedBlocks(held[h].ptr)) : HeapFree(held[h].ptr, k)
          /\ held' = [held EXCEPT ![h] = None]
          /\ UNCHANGED <<memStartData, mapped, pending, fault>>
       \/ LocatedBlocks(held[h].ptr) = {} /\ Crash

---------------------------------------------------------------------------
(* Queries.  They look at the list of normal blocks only.                  *)

(* A variant: the last byte of a node is not taken for a part of it.         *)
QueryShort(addr) ==
    {n \in UNION {Range(blocks[k].nodes) :
                  k \in {k \in LocatedBlocks(addr) : blocks[k].kind = "normal"}} :
        n.addr <= addr /\ addr < n.addr + n.len - 1}

HeapQuery(addr) ==
    {n \in UNION {Range(blocks[k].nodes) :
                  k \in {k \in LocatedBlocks(addr) : blocks[k].kind = "normal"}} :
        n.addr <= addr /\ addr <= n.addr + n.len - 1}

HeapValidateAddress(addr) == \E n \in HeapQuery(addr) : n.alloc

---------------------------------------------------------------------------
(* HeapInit creates one normal and one page block.                         *)
NoHeaders == [cur |-> MEMORY_LOCATION_HEAP, max |-> MEMORY_LOCATION_HEAP,
              recycled |-> 0, ok |-> TRUE]
FirstHeaders == TakeBlockAndNode(TakeBlockAndNode(NoHeaders))

Init ==
    LET data == MEMORY_LOCATION_HEAP + MEMORY_STATIC_OFFSET IN
    /\ blocks = <<NewBlock(data, HEAP_NORMAL_BLOCK, MASK, "normal"),
                 NewBlock(data + HEAP_NORMAL_BLOCK, HEAP_LARGE_BLOCK, MASK, "page")>>
    /\ memStartData = data + HEAP_NORMAL_BLOCK + HEAP_LARGE_BLOCK
    /\ headers = FirstHeaders
    /\ mapped = <<>>
    /\ held = [h \in Holders |-> None]
    /\ pending = None
    /\ fault = FALSE

Next ==
    \/ \E h \in Holders, c \in Requests : Call(h, c)
    \/ \E h \in Holders : kfree(h)
    \/ Serve
    \/ Expand

(* The code of HeapAllocate runs to its end; a client need not call.  *)
Spec == Init /\ [][Next]_vars /\ WF_vars(Serve) /\ WF_vars(Expand)

---------------------------------------------------------------------------
(* Properties                                                              *)

NodeType == [addr: Nat, len: 0..SIZE_MOD-1, alloc: BOOLEAN]
HeldType == [ptr: Nat, size: Nat, page: BOOLEAN, mask: Nat]
PendingType == [holder: Holders, asked: Requests, expansions: Nat, size: Nat,
                page: BOOLEAN, big: BOOLEAN, mask: Nat, align: Nat]
BlockType == [start: Nat, end: Nat, kind: Kinds, mask: Nat,
              bytesFree: 0..SIZE_MOD-1, nodes: Seq(NodeType)]

ASSUME NoneIsNoRecord ==
    /\ None \notin HeldType /\ None \notin PendingType
    /\ None \notin [holder: Holders, asked: Requests]

HeaderType == [cur: Nat, max: Nat, recycled: Nat, ok: BOOLEAN]

(* The type invariant of the heap's own data. *)
TypeOK ==
    /\ blocks \in Seq(BlockType)
    /\ memStartData \in Nat
    /\ headers \in HeaderType
    /\ DOMAIN mapped \subseteq Nat /\ \A p \in DOMAIN mapped : mapped[p] \in Nat
    /\ held \in [Holders -> HeldType \cup {None}]
    /\ pending \in PendingType \cup {None}
    /\ fault \in BOOLEAN

Owners == {h \in Holders : held[h] # None}
Inside(h, n) == n.addr <= held[h].ptr /\ held[h].ptr + held[h].size <= n.addr + n.len
Touches(h, b) == b.start <= held[h].ptr /\ held[h].ptr <= b.end

(* The nodes of a block follow each other from its first to its last byte:   *)
(* no cut, padding, merge or removal of a node loses or doubles a byte.      *)
Tiles(b) ==
    LET ns == b.nodes IN
    /\ ns # <<>>
    /\ ns[1].addr = b.start
    /\ \A i \in 1..Len(ns)-1 : ns[i+1].addr = ns[i].addr + ns[i].len
    /\ ns[Len(ns)].addr + ns[Len(ns)].len = b.end + 1
NodesTile == \A k \in DOMAIN blocks : Tiles(blocks[k])

(* The blocks follow each other up to MemStartData, so an address lies in    *)
(* at most one block and the lists may be searched in any order.             *)
BlocksTile ==
    /\ \A k \in DOMAIN blocks : blocks[k].start <= blocks[k].end
    /\ \A k \in 1..Len(blocks)-1 : blocks[k+1].start = blocks[k].end + 1
    /\ memStartData = blocks[Len(blocks)].end + 1

(* Only the last node of a block is ever free: HeapFreeAddressInNode hands   *)
(* any other freed node to its successor, allocated or not.  Its branch that *)
(* merges with a free predecessor is therefore never taken.                  *)
TailFree(b) == \A i \in 1..Len(b.nodes)-1 : b.nodes[i].alloc
OnlyTailFree == \A k \in DOMAIN blocks : TailFree(blocks[k])

(* What a client holds lies in an allocated node and no other client's       *)
(* memory lies in that node.                                                 *)
Backed(h) == \E k \in DOMAIN blocks : \E i \in DOMAIN blocks[k].nodes :
                blocks[k].nodes[i].alloc /\ Inside(h, blocks[k].nodes[i])
Alone(n) == \A g, h \in Owners : Inside(g, n) /\ Inside(h, n) => g = h
HeldBacked ==
    /\ \A h \in Owners : Backed(h)
    /\ \A k \in DOMAIN blocks : \A i \in DOMAIN blocks[k].nodes : Alone(blocks[k].nodes[i])

(* Two clients never hold a byte in common. *)
NoOverlap ==
    \A g, h \in Owners : g # h =>
        \/ held[g].ptr + held[g].size <= held[h].ptr
        \/ held[h].ptr + held[h].size <= held[g].ptr

(* The inductive invariant behind NoOverlap.  It states the order of nodes   *)
(* and of blocks for every pair, and that blocks end and the next one starts *)
(* on an aligned address: the test for room before an aligned split is right *)
(* only then.                                                                *)
Ordered(b) ==
    \A i, j \in DOMAIN b.nodes :
        i < j => b.nodes[i].addr + b.nodes[i].len <= b.nodes[j].addr
BlockOK(b) ==
    /\ b.start <= b.end /\ b.end - b.start + 1 < SIZE_MOD
    /\ IsAligned(b.end + 1, HEAP_STANDARD_ALIGN)
    /\ Tiles(b) /\ TailFree(b) /\ Ordered(b)
BlocksOrdered ==
    /\ IsAligned(memStartData, HEAP_STANDARD_ALIGN)
    /\ \A k, l \in DOMAIN blocks : k < l => blocks[k].end < blocks[l].start
    /\ \A k \in DOMAIN blocks : blocks[k].end < memStartData
RequestOK(r) ==
    /\ r.size >= r.asked.size
    /\ r.big => r.size >= HEAP_LARGE_BLOCK
    /\ (r.page \/ r.big) /\ r.size >= HEAP_LARGE_BLOCK => IsAligned(r.size, HEAP_STANDARD_ALIGN)
HeapInv ==
    /\ \A k \in DOMAIN blocks : BlockOK(blocks[k])
    /\ BlocksTile /\ BlocksOrdered
    /\ pending # None => RequestOK(pending)
    /\ \A h \in Owners : held[h].size > 0
    /\ HeldBacked

(* Large page requests are not rounded up: the clients must ask for a        *)
(* multiple of HEAP_STANDARD_ALIGN.                                          *)
RequestsRounded ==
    \A c \in Requests : c.page /\ c.size >= HEAP_LARGE_BLOCK => IsAligned(c.size, HEAP_STANDARD_ALIGN)

(* For page-aligned answers they must ask for whole pages then.              *)
PagesRounded ==
    \A c \in Requests : c.page /\ c.size >= HEAP_LARGE_BLOCK => IsAligned(c.size, PAGE_SIZE)

(* kfree does not take the last byte of a node for a part of it.             *)
NoSingleBytes == \A c \in Requests : c.size > 1

(* BytesFree does not wrap: what it may drift by before the next call, and   *)
(* the blocks that clients free until then, each at most one node, fit.      *)
BlockSizes ==
    {HEAP_NORMAL_BLOCK, HEAP_LARGE_BLOCK}
    \cup {c.size : c \in Requests} \cup {AlignUp(c.size, PAGE_SIZE) : c \in Requests}
DriftFits ==
    /\ IsFiniteSet(Holders)
    /\ \A s \in BlockSizes : s * (Cardinality(Holders) + 1) + MaxDrift < SIZE_MOD

(* The reserved room holds the headers of HeapInit's two blocks.             *)
HeadersFit == FirstHeaders.ok

(* kfree finds the node of what a client gives back, and no other, whatever  *)
(* lists and nodes it searches first; of a single byte it may find nothing.  *)
FreeFindsNode ==
    \A h \in Owners : held[h].size > 1 =>
        \E k \in First(LocatedBlocks(held[h].ptr)) :
        \E i \in First(MatchingNodes(blocks[k], held[h].ptr)) :
            blocks[k].nodes[i].alloc /\ Inside(h, blocks[k].nodes[i])

(* kfree finds the block of what a client gives back.  The code goes on with *)
(* the block it has found, whether it has found one or not.                  *)
HeldLocated == \A h \in Owners : LocatedBlocks(held[h].ptr) # {}

(* BytesFree, the shortcut HeapAllocate skips blocks by, never hides free    *)
(* bytes a block has.  It may exceed them: a split does not decrease it.     *)
FreeBytes(b) ==
    SumFunction([i \in DOMAIN b.nodes |-> IF b.nodes[i].alloc THEN 0 ELSE b.nodes[i].len])
FreeBytesCounted == \A k \in DOMAIN blocks : FreeBytes(blocks[k]) <= blocks[k].bytesFree

(* A block no client has memory in is one free node again, whatever the      *)
(* order its allocations were freed in: fragments always grow together.      *)
FreeBlockWhole ==
    \A k \in DOMAIN blocks :
        (\A h \in Owners : ~Touches(h, blocks[k])) =>
            Len(blocks[k].nodes) = 1 /\ ~blocks[k].nodes[1].alloc

(* Every page of what a client holds is mapped: all wrappers ask to commit,  *)
(* and the rounding of HeapCommitPages never falls short.                    *)
HeldMapped ==
    \A h \in Owners :
        held[h].ptr \div PAGE_SIZE .. (held[h].ptr + held[h].size - 1) \div PAGE_SIZE
            \subseteq DOMAIN mapped

(* Page requests are answered with page-aligned memory, with no alignment    *)
(* passed to the search: every node boundary of a page block is aligned.     *)
PagesAligned ==
    \A h \in Owners : held[h].page => IsAligned(held[h].ptr, PAGE_SIZE)

(* HeapValidateAddress accepts every byte a client holds in a normal block,  *)
(* the last byte of the block excepted, and the node it finds for the byte   *)
(* is the one the whole of the client's memory lies in.                      *)
HeldIsValid ==
    \A h \in Owners : \A a \in held[h].ptr .. held[h].ptr + held[h].size - 1 :
        (\E k \in LocatedBlocks(a) : blocks[k].kind = "normal") =>
            HeapValidateAddress(a) /\ \A n \in HeapQuery(a) : Inside(h, n)

(* No header is handed out beyond the mapped part of the header space, and   *)
(* every header taken from it is a block, a node of a block or recycled.     *)
NodesInUse == SumFunction([k \in DOMAIN blocks |-> Len(blocks[k].nodes)])
HeadersAccounted ==
    /\ headers.cur <= headers.max
    /\ headers.max < MEMORY_LOCATION_HEAP + MEMORY_STATIC_OFFSET
    /\ headers.cur - MEMORY_LOCATION_HEAP =
          BLOCK_HEADER * Len(blocks)
          + NODE_HEADER * (NodesInUse + headers.recycled)

(* A page request that only its rounding makes a large one.                  *)
OutgrowsKind(c) ==
    c.page /\ c.size < HEAP_LARGE_BLOCK /\ AlignUp(c.size, PAGE_SIZE) >= HEAP_LARGE_BLOCK

(* HeapAllocate calls itself at most once: the block HeapExpand adds serves  *)
(* the request it was added for.  Only a request that turns large while it   *)
(* is rounded looks in the list of another kind when it comes back, and      *)
(* expands the heap a second time.                                           *)
ExpandsOnce ==
    pending # None => \/ pending.expansions <= 1
                      \/ pending.expansions = 2 /\ OutgrowsKind(pending.asked)

(* A kmalloc call returns, or the machine has stopped at a fault.            *)
CallReturns == (pending # None) ~> (pending = None \/ fault)

---------------------------------------------------------------------------
(* The abstract allocator the heap implements.                             *)
A == INSTANCE Allocator WITH
        waiting <- IF pending = None THEN None
                   ELSE [holder |-> pending.holder, asked |-> pending.asked]

(* Seen by its clients, every step of the heap is a step of Allocator.       *)
ImplementsAllocator == A!Spec
=============================================================================

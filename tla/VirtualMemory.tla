--------------------------- MODULE VirtualMemory ---------------------------
(***************************************************************************)
(* The page directory of the kernel and what is mapped through it          *)
(* (virtual_memory.c, address_space.c), with the heap as their user.       *)
(*                                                                         *)
(* Addresses are page numbers.  MmVirtualInit builds its tables with       *)
(* paging off and frames for pointers; afterwards every table is written   *)
(* at a virtual address, and one that is not mapped there is lost.  A      *)
(* mapping that finds no table allocates one with kmalloc_ap, which        *)
(* commits a heap page with a mapping of its own: calls is the stack of    *)
(* the activations of AddressSpaceMap.                                     *)
(*                                                                         *)
(* Of the heap there is only which of its pages are in use.  The kernel is *)
(* single-threaded: a new call begins when no other is in progress.        *)
(***************************************************************************)
EXTENDS PhysicalMemory

CONSTANTS
    PAGES_PER_TABLE,
    HEAP, HEAP_END, VIDEO, RESERVED,    \* MEMORY_LOCATION_*, as page numbers
    VIDEO_FRAME, VideoPages,            \* the frame buffer
    MEMORY_INIT_MASK, AnyMask,          \* AnyMask is __MASK
    HeapPages,      \* pages of the heap's data
    HeaderPages,    \* number of pages at HEAP for the heap's headers
    OtherPages,     \* pages outside the heap that are mapped after boot
    PageCounts,     \* the lengths of these mappings
    Spare,          \* bound: no client takes a heap page once so few are left
    None

(* Every region begins with a table, and the heap lies behind low memory.    *)
(* No two regions share a table.                                             *)
ASSUME Regions ==
    /\ PAGES_PER_TABLE \in Nat \ {0}
    /\ \A v \in {HEAP, HEAP_END, VIDEO, RESERVED} : v \in Nat /\ v % PAGES_PER_TABLE = 0
    /\ LOW_WORDS * BITS <= HEAP /\ HEAP < HEAP_END /\ HEAP_END <= VIDEO
    /\ VideoPages \in Nat \ {0} /\ VIDEO + VideoPages <= RESERVED /\ VIDEO_FRAME \in Nat
    /\ HeaderPages \in Nat
    /\ HEAP + HeaderPages <= HEAP_END
    /\ HeapPages \subseteq HEAP + HeaderPages .. HEAP_END - 1
    /\ OtherPages \subseteq Nat /\ OtherPages \cap HEAP..HEAP_END-1 = {}
    /\ PageCounts \subseteq Nat \ {0} /\ Spare \in Nat

ASSUME Callers ==
    /\ Holders = {"tables", "pages"} /\ Kernel = "kernel"
    /\ {MEMORY_INIT_MASK, AnyMask} \subseteq Masks /\ MEMORY_INIT_MASK <= LOW_MASK

ASSUME NoneIsNoNumber == None \notin Int /\ None # NoFrame /\ None # Outside

VARIABLES
    plan,       \* the tables MmVirtualInit has still to make
    tables,     \* pTables and vTables of the directory, with what is in them
    inuse,      \* the pages of the heap its clients and the directory have
    headers,    \* the number of header pages
    calls,      \* the activations of AddressSpaceMap, the innermost last
    stopped     \* a table was written where it is not, or does not exist

vmvars == <<plan, tables, inuse, headers, calls, stopped>>

PAGE_DIRECTORY_INDEX(v) == v \div PAGES_PER_TABLE
PAGE_TABLE_INDEX(v) == v % PAGES_PER_TABLE
Entries == 0..PAGES_PER_TABLE-1
Empty == [k \in Entries |-> None]

(* What is mapped after boot: the heap's data and headers, and other pages. *)
UserPages == HeapPages \cup HEAP..HEAP+HeaderPages-1 \cup OtherPages

(* The frame the MMU finds for page v, or None. *)
Translate(v) ==
    IF PAGE_DIRECTORY_INDEX(v) \in DOMAIN tables
    THEN tables[PAGE_DIRECTORY_INDEX(v)].page[PAGE_TABLE_INDEX(v)] ELSE None

(* The kernel writes table i at the address in vTables, and the MMU reads it *)
(* in the frame in pTables.                                                  *)
Reached(i) == Translate(tables[i].at) = tables[i].frame

---------------------------------------------------------------------------
(* MmVirtualInit                                                           *)

(* MmVirtualFillPageTable: pages from v to the end of the table, frames from f. *)
Fill(v, f) ==
    LET first == PAGE_TABLE_INDEX(v) IN
    [k \in Entries |-> IF k >= first THEN f + k - first ELSE None]

(* MmVirtualIdentityMapMemoryRange makes a table for every one a region touches. *)
TablesOf(v, n) == PAGE_DIRECTORY_INDEX(v) .. PAGE_DIRECTORY_INDEX(v + n - 1)

(* The frames mapped in the reserved region: the first page, then what the   *)
(* memory map has recorded that is not available memory.                     *)
RecordedFrames(m, i) ==
    LET size == m[i].size % ADDR_MOD
        base == (m[i].address % ADDR_MOD) \div PAGE_SIZE
    IN  IF m[i].type = 1 \/ MmSysMappingsContain(m, i) THEN <<>>
        ELSE [k \in 1 .. (size + PAGE_SIZE - 1) \div PAGE_SIZE |-> base + k - 1]

ReservedFrames(m) == <<0>> \o FlattenSeq([i \in DOMAIN m |-> RecordedFrames(m, i)])

(* The entries of table i of the reserved region. *)
ReservedPages(m, i) ==
    [k \in Entries |->
        LET n == i * PAGES_PER_TABLE + k - RESERVED + 1 IN
        IF n \in DOMAIN ReservedFrames(m) THEN ReservedFrames(m)[n] ELSE None]

(* The first table maps every page but page 0 to the frame of its number;    *)
(* those of the heap are empty; video and reserved memory are mapped.        *)
LowTable == <<[index |-> 0, page |-> Fill(1, 1)]>>
HeapTables ==
    [j \in 1..Cardinality(TablesOf(HEAP, HEAP_END - HEAP)) |->
        [index |-> PAGE_DIRECTORY_INDEX(HEAP) + j - 1, page |-> Empty]]
VideoTables ==
    [j \in 1..Cardinality(TablesOf(VIDEO, VideoPages)) |->
        [index |-> PAGE_DIRECTORY_INDEX(VIDEO) + j - 1,
         page  |-> Fill(VIDEO, VIDEO_FRAME + (j - 1) * PAGES_PER_TABLE)]]
ReservedTables(m) ==
    [j \in 1..Cardinality(TablesOf(RESERVED, Len(ReservedFrames(m)))) |->
        LET i == PAGE_DIRECTORY_INDEX(RESERVED) + j - 1 IN
        [index |-> i, page |-> ReservedPages(m, i)]]

(* A variant: tables of the heap are not made before they are needed.        *)
NoHeapTables(m) == LowTable \o VideoTables \o ReservedTables(m)

(* The tables made at boot, in this order. *)
BootTables(m) == LowTable \o HeapTables \o VideoTables \o ReservedTables(m)

(* Tables without a page that is to be mapped after boot. *)
FreshTables ==
    {t \in [index : Nat, page : [Entries -> Nat \cup {None}]] : \A v \in UserPages :
        PAGE_DIRECTORY_INDEX(v) = t.index => t.page[PAGE_TABLE_INDEX(v)] = None}

(* What is mapped after boot is not mapped at boot. *)
ASSUME Layout ==
    \A m \in MemoryMaps :
        ReservedFrames(m) \in Seq(Nat) /\ BootTables(m) \in Seq(FreshTables)

VmInit ==
    /\ Init
    /\ plan = BootTables(map)
    /\ tables = <<>> /\ inuse = {} /\ headers = 0 /\ calls = <<>> /\ stopped = FALSE

(* A variant: the directory is given one frame.                              *)
DirectoryInOneFrame ==
    /\ ~stopped /\ held[Kernel] = {}
    /\ MmPhysicalAllocateBlock(Kernel, MEMORY_INIT_MASK, 1)
    /\ stopped' = (held'[Kernel] = {})
    /\ UNCHANGED <<plan, tables, inuse, headers, calls>>

InstallDirectory ==
    /\ ~stopped
    /\ MmVirtualInit(MEMORY_INIT_MASK)
    /\ stopped' = (held'[Kernel] = {})
    /\ UNCHANGED <<plan, tables, inuse, headers, calls>>

WithTable(i, t) == [j \in {i} \cup DOMAIN tables |-> IF j = i THEN t ELSE tables[j]]

(* MmVirtualCreatePageTable, called by MmVirtualInit, MmVirtualInitialMap    *)
(* and MmVirtualIdentityMapMemoryRange; each fills and installs the table.   *)
MmVirtualCreatePageTable ==
    /\ ~stopped /\ held[Kernel] # {} /\ plan # <<>>
    /\ MemoryBlocksUsed < MemoryBlocks + MaxFailed
    /\ \E f \in Found(MEMORY_INIT_MASK, 1) :
          /\ Gives("tables", f, 1)
          /\ tables' = WithTable(Head(plan).index,
                                 [frame |-> f, at |-> f, page |-> Head(plan).page])
          /\ stopped' = (f \notin Frames)
    /\ plan' = Tail(plan)
    /\ UNCHANGED <<inuse, headers, calls>>

Paging == held[Kernel] # {} /\ plan = <<>>

---------------------------------------------------------------------------
(* AddressSpaceMap and MmVirtualMap                                        *)

(* count pages from page on: done of them are mapped, frame is for the next  *)
(* one, base is the frame of the first.  table is a heap page for a missing  *)
(* page table.                                                               *)
Activation(v, n, mask) ==
    [page |-> v, count |-> n, mask |-> mask, done |-> 0,
     base |-> None, frame |-> None, table |-> None]

Activations ==
    [page : UserPages, count : PageCounts \cup {1}, mask : Masks, done : Nat,
     base : Frames \cup {None}, frame : Frames \cup {None}, table : HeapPages \cup {None}]

Current == Last(calls)
Replaced(c) == Append(Front(calls), c)
NextPage == Current.page + Current.done
HasTable == PAGE_DIRECTORY_INDEX(NextPage) \in DOMAIN tables
NeedsTable == /\ calls # <<>> /\ Current.frame # None /\ ~HasTable
              /\ Current.table = None
Allocating == Paging /\ ~stopped /\ (calls = <<>> \/ NeedsTable)

(* A frame for the next page: one is allocated only for the first, the       *)
(* others are those that follow it.                                          *)
TakeFrame ==
    /\ ~stopped /\ calls # <<>> /\ Current.frame = None
    /\ \/ /\ Current.base = None
          /\ MemoryBlocksUsed < MemoryBlocks + MaxFailed
          /\ \E f \in Found(Current.mask, 1) :
                /\ Gives("pages", f, 1)
                /\ calls' = Replaced([Current EXCEPT !.base = f, !.frame = f])
                /\ stopped' = (f \notin Frames)
       \/ /\ Current.base # None
          /\ calls' = Replaced([Current EXCEPT !.frame = Current.base + Current.done])
          /\ UNCHANGED <<vars, stopped>>
    /\ UNCHANGED <<plan, tables, inuse, headers>>

(* Variants: a page that is mapped is not told from one that is not; a page  *)
(* counts as mapped when there is a table for it.                            *)
CommitByTable(p, mask, stack) ==
    calls' = IF PAGE_DIRECTORY_INDEX(p) \in DOMAIN tables THEN stack
             ELSE Append(stack, Activation(p, 1, mask))

MapAlways(p, mask, stack) == calls' = Append(stack, Activation(p, 1, mask))

(* HeapCommitPages for one page: MmVirtualGetMapping tells it is mapped.     *)
HeapCommitPages(p, mask, stack) ==
    calls' = IF Translate(p) = None THEN Append(stack, Activation(p, 1, mask)) ELSE stack

(* The directory has no table for the page: kmalloc_ap. *)
AskForTable ==
    /\ ~stopped /\ NeedsTable
    /\ \E p \in HeapPages \ inuse :
          /\ inuse' = inuse \cup {p}
          /\ HeapCommitPages(p, AnyMask, Replaced([Current EXCEPT !.table = p]))
    /\ UNCHANGED <<vars, plan, tables, headers, stopped>>

(* A variant: the table's address goes into the directory as its frame.      *)
AddressAsFrame(p) == [frame |-> p, at |-> p, page |-> Empty]

(* The new table at heap page p, as MmVirtualGetMapping finds it. *)
TableAt(p) == [frame |-> Translate(p), at |-> p, page |-> Empty]

InstallTable ==
    /\ ~stopped /\ calls # <<>> /\ Current.frame # None /\ Current.table # None
    /\ tables' = WithTable(PAGE_DIRECTORY_INDEX(NextPage), TableAt(Current.table))
    /\ calls' = Replaced([Current EXCEPT !.table = None])
    /\ UNCHANGED <<vars, plan, inuse, headers, stopped>>

(* The next page is begun, or the call left. *)
Leave ==
    IF Current.done + 1 = Current.count THEN Front(calls)
    ELSE Replaced([Current EXCEPT !.done = @ + 1, !.frame = None])

(* The entry is written. *)
MmVirtualMap ==
    /\ ~stopped /\ calls # <<>> /\ Current.frame # None /\ HasTable
    /\ LET i == PAGE_DIRECTORY_INDEX(NextPage) IN
       /\ tables' = IF Reached(i)
                    THEN [tables EXCEPT ![i].page[PAGE_TABLE_INDEX(NextPage)] = Current.frame]
                    ELSE tables
       /\ stopped' = ~Reached(i)
    /\ calls' = Leave
    /\ UNCHANGED <<vars, plan, inuse, headers>>

---------------------------------------------------------------------------
(* The users                                                               *)

(* A call of kmalloc is given page p by the heap; it may have been mapped    *)
(* for an earlier client.                                                    *)
kmalloc(p, mask) ==
    /\ Paging /\ ~stopped /\ calls = <<>>
    /\ p \notin inuse /\ Cardinality(HeapPages \ inuse) > Spare
    /\ inuse' = inuse \cup {p}
    /\ HeapCommitPages(p, mask, calls)
    /\ UNCHANGED <<vars, plan, tables, headers, stopped>>

(* The kernel does not free its page tables; freed pages stay mapped. *)
kfree(p) ==
    /\ Paging /\ ~stopped /\ calls = <<>>
    /\ p \in inuse /\ \A i \in DOMAIN tables : tables[i].at # p
    /\ inuse' = inuse \ {p}
    /\ UNCHANGED <<vars, plan, tables, headers, calls, stopped>>

(* HeapSAllocator, called in any kmalloc, maps the next page of headers. *)
HeapSAllocator ==
    /\ Allocating /\ headers < HeaderPages
    /\ headers' = headers + 1
    /\ calls' = Append(calls, Activation(HEAP + headers, 1, AnyMask))
    /\ UNCHANGED <<vars, plan, tables, inuse, stopped>>

(* Anybody else maps pages that are not mapped. *)
AddressSpaceMap(v, n, mask) ==
    /\ Paging /\ ~stopped /\ calls = <<>>
    /\ \A w \in v..v+n-1 : w \in OtherPages /\ Translate(w) = None
    /\ calls' = <<Activation(v, n, mask)>>
    /\ UNCHANGED <<vars, plan, tables, inuse, headers, stopped>>

Mapping == TakeFrame \/ AskForTable \/ InstallTable \/ MmVirtualMap

VmNext ==
    \/ InstallDirectory
    \/ MmVirtualCreatePageTable
    \/ TakeFrame
    \/ AskForTable
    \/ InstallTable
    \/ MmVirtualMap
    \/ HeapSAllocator
    \/ \E p \in HeapPages : (\E mask \in Masks : kmalloc(p, mask)) \/ kfree(p)
    \/ \E v \in OtherPages, n \in PageCounts : AddressSpaceMap(v, n, AnyMask)

VmSpec == VmInit /\ [][VmNext]_<<vars, vmvars>> /\ WF_<<vars, vmvars>>(Mapping)

---------------------------------------------------------------------------
(* Properties                                                              *)

VmTypeOK ==
    /\ TypeOK
    /\ inuse \subseteq HeapPages /\ headers \in 0..HeaderPages /\ stopped \in BOOLEAN
    /\ ~stopped =>
          /\ \A i \in DOMAIN tables :
                tables[i] \in [frame : Frames, at : Nat, page : [Entries -> Nat \cup {None}]]
          /\ calls \in Seq(Activations)
          /\ \A k \in DOMAIN calls : calls[k].done < calls[k].count

(* The directory and the tables made at boot fit into the part of low memory *)
(* that the first table maps, the first place the search takes for the       *)
(* directory included.                                                       *)
FirstTableFits ==
    \A m \in MemoryMaps :
        /\ \A f \in First(FreeAtBoot(m)) : f + 2 < PAGES_PER_TABLE
        /\ FreeAtBoot(m) # {}
        /\ Cardinality({f \in Frames \ UsedAtBoot(m) :
                           f < PAGES_PER_TABLE /\ f \div BITS \in 1..LOW_WORDS-1})
              >= 3 + Len(BootTables(m))

(* Once paging is on, the kernel finds the directory and every page table at *)
(* the address it uses for it (vTables, and frames used as pointers at boot).*)
TablesReachable ==
    /\ VmTypeOK
    /\ Paging /\ ~stopped =>
          /\ \A i \in DOMAIN tables : Reached(i)
          /\ \A f \in held[Kernel] : Translate(f) = f

(* What is mapped after boot has a frame of its own, allocated for it, which *)
(* is no frame of the directory or a table made at boot.                     *)
FramesNotAliased ==
    LET pages == {v \in UserPages : Translate(v) # None} IN
    /\ \A v \in pages : Translate(v) \in held["pages"] \ (held["tables"] \cup held[Kernel])
    /\ \A v, w \in pages : v # w => Translate(v) # Translate(w)

(* virtual_memory.c:249 and 443: a page that is mapped is never mapped to    *)
(* another frame.  invlpg in paging.asm:96 has the wrong operand, so a       *)
(* changed mapping would not even be seen.                                   *)
MappingsStay ==
    [][\A i \in DOMAIN tables : \A k \in Entries :
          tables[i].page[k] # None => /\ i \in DOMAIN tables'
                                      /\ tables'[i].page[k] = tables[i].page[k]]_tables

(* When no call is in progress, every page the heap has handed out and every *)
(* page of headers is mapped.                                                *)
PagesBacked ==
    calls = <<>> /\ ~stopped =>
        \A p \in inuse \cup HEAP..HEAP+headers-1 : Translate(p) # None

(* The frame allocator is used as PhysicalMemory says it is: the directory   *)
(* first, with three frames, everything else one by one.                     *)
ImplementsFrames == Spec

(* A mapping that needs a table, whose own page has to be mapped, comes to   *)
(* an end, unless memory does.                                               *)
MapReturns == calls # <<>> ~> calls = <<>> \/ stopped
=============================================================================

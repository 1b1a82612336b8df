--------------------------- MODULE PhysicalMemory ---------------------------
(***************************************************************************)
(* The physical memory manager of the kernel (physical_memory.c): a bitmap *)
(* of page frames, set up from the memory map the boot loader passes, from *)
(* which callers take frames and to which they give them back.             *)
(*                                                                         *)
(* A frame is a number; used is the set of frames whose bit is set.  The   *)
(* search for a frame in high memory runs over MemoryBlocks words of the   *)
(* bitmap, 32 times as many as it has: what it reads there is whatever     *)
(* lies in memory behind the bitmap, so a search that has found nothing    *)
(* may end with a frame that does not exist (Outside).                     *)
(***************************************************************************)
EXTENDS Integers, FiniteSets, SequencesExt

CONSTANTS
    PAGE_SIZE,
    BITS,           \* __BITS, the frames in a word of the bitmap
    LOW_WORDS,      \* 8 * 16: frames in earlier words are low memory
    LOW_MASK,       \* 0xFFFFFF: requests with no larger mask get low memory
    MemoryBlocks,   \* the frames of the machine
    ADDR_MOD,       \* 2^w for a uintptr_t of w bits
    MemoryMaps,     \* memory maps: sequences of [type, address, size]
    SpecialFrames,  \* the frames reserved one by one (0, 0x4000, ..., 0xA000)
    SystemRegions,  \* the kernel's stack, image and bitmap: [base, size]
    Masks,          \* the masks callers pass
    Kernel,         \* the holder of the page directory
    Holders,        \* the other callers
    Outside,        \* a frame from behind the bitmap
    NoFrame,        \* -1
    MaxFailed       \* bound: MemoryBlocksUsed stops counting at this many more
                    \* than MemoryBlocks

ASSUME MachineSizes ==
    /\ PAGE_SIZE \in Nat \ {0} /\ BITS \in Nat \ {0} /\ LOW_WORDS \in Nat \ {0}
    /\ ADDR_MOD \in Nat \ {0}
    /\ MemoryBlocks \in Nat /\ MemoryBlocks % BITS = 0 /\ LOW_WORDS * BITS < MemoryBlocks
    /\ SpecialFrames \subseteq 0..MemoryBlocks-1 /\ Kernel \notin Holders

ASSUME FramesAreNumbers == Outside \notin Nat /\ NoFrame \notin Nat /\ Outside # NoFrame

VARIABLES
    map,                \* the memory map found at boot
    used,               \* MemoryBitmap
    MemoryBlocksUsed,
    held                \* who has which frames

vars == <<map, used, MemoryBlocksUsed, held>>

Frames == 0..MemoryBlocks-1
First(S) == {f \in S : \A g \in S : f <= g}
Monus(m, n) == IF n <= m THEN m - n ELSE 0

---------------------------------------------------------------------------
(* MmPhyiscalInit                                                          *)

(* The frames MmFreeRegion makes available: the base is rounded down, and so *)
(* is the size.  Addresses and sizes lose their upper bits on the way.       *)
RegionFrames(r) ==
    LET base == (r.address % ADDR_MOD) \div PAGE_SIZE IN
    base .. base + (r.size % ADDR_MOD) \div PAGE_SIZE - 1

(* MmSysMappingsContain: is entry i of the map m of a type and an address    *)
(* already recorded?  Recorded are the first page and the entries before i;  *)
(* a recorded entry of length 0 does not count.                              *)
MmSysMappingsContain(m, i) ==
    LET start(j) == m[j].address % ADDR_MOD IN
    \/ m[i].type = 2 /\ start(i) = 0
    \/ \E j \in 1..i-1 : /\ m[j].type = m[i].type /\ start(j) = start(i)
                         /\ m[j].size % ADDR_MOD # 0

FreedRegions(m) == {i \in DOMAIN m : m[i].type = 1 /\ ~MmSysMappingsContain(m, i)}

(* A variant: as many bits as the size has pages. *)
WholePages(r) == r.base \div PAGE_SIZE .. r.base \div PAGE_SIZE + r.size \div PAGE_SIZE - 1

(* MmAllocateRegion sets one bit more than the size has pages. *)
SystemFrames(r) == r.base \div PAGE_SIZE .. r.base \div PAGE_SIZE + r.size \div PAGE_SIZE

(* A comment (physical_memory.c:255) requires more memory than is reserved.  *)
ASSUME SystemFits == \A r \in SystemRegions : SystemFrames(r) \subseteq Frames

(* The bitmap once regions have been freed and the system's own are set.     *)
UsedAtBoot(m) ==
    (Frames \ UNION {RegionFrames(m[i]) : i \in FreedRegions(m)})
        \cup SpecialFrames \cup UNION {SystemFrames(r) : r \in SystemRegions}

(* Freeing subtracts, but never below 0; the first special frame is not      *)
(* counted; frames of the system are, whether they were in use or not.       *)
CountedAtBoot(m) ==
    Monus(MemoryBlocks, MapThenSumSet(LAMBDA i : Cardinality(RegionFrames(m[i])), FreedRegions(m)))
        + Cardinality(SpecialFrames) - 1
        + MapThenSumSet(LAMBDA r : Cardinality(SystemFrames(r)), SystemRegions)

(* A sum of sizes; no count in the bitmap is negative.                       *)
ASSUME BootCount == \A m \in MemoryMaps : CountedAtBoot(m) \in Nat

---------------------------------------------------------------------------
(* MmGetFreeMapBitLow, MmGetFreeMapBitHigh                                 *)

(* A variant: the last word of low memory is not searched.                   *)
WordsButOne(mask) == IF mask <= LOW_MASK THEN 1..LOW_WORDS-2 ELSE LOW_WORDS..MemoryBlocks-1

Words(mask) == IF mask <= LOW_MASK THEN 1..LOW_WORDS-1 ELSE LOW_WORDS..MemoryBlocks-1

(* The search looks at count bits from f on, but not past the word f is in.  *)
FreeFrom(f, count) ==
    \A k \in 0..count-1 : (f % BITS) + k < BITS => f + k \notin used

FreeFrames(mask, count) ==
    {f \in Frames : f \div BITS \in Words(mask) /\ FreeFrom(f, count)}

SearchLeavesBitmap(mask) == ~(Words(mask) \subseteq 0 .. MemoryBlocks \div BITS - 1)

(* What the search returns. *)
Found(mask, count) ==
    IF FreeFrames(mask, count) # {} THEN First(FreeFrames(mask, count))
    ELSE {NoFrame} \cup (IF SearchLeavesBitmap(mask) THEN {Outside} ELSE {})

---------------------------------------------------------------------------
Init ==
    /\ map \in MemoryMaps
    /\ used = UsedAtBoot(map)
    /\ MemoryBlocksUsed = CountedAtBoot(map)
    /\ held = [h \in Holders \cup {Kernel} |-> {}]

(* A variant: only the first bit is set.                                     *)
AllocateFirstBit(h, mask, count) ==
    /\ MemoryBlocksUsed < MemoryBlocks + MaxFailed
    /\ MemoryBlocksUsed' = MemoryBlocksUsed + 1
    /\ \E f \in Found(mask, count) :
          LET got == IF f \in Nat THEN f..f+count-1 ELSE {f} \ {NoFrame} IN
          /\ used' = used \cup ({f} \cap Frames)
          /\ held' = [held EXCEPT ![h] = @ \cup got]
    /\ UNCHANGED map

(* A variant: the bits are not set. *)
GivesUnmarked(h, f, count) ==
    LET got == IF f \in Nat THEN f..f+count-1 ELSE {f} \ {NoFrame} IN
    /\ held' = [held EXCEPT ![h] = @ \cup got]
    /\ MemoryBlocksUsed' = MemoryBlocksUsed + 1
    /\ UNCHANGED <<map, used>>

(* h is given count frames from f on, if f is one.  The count of used blocks *)
(* grows by one whatever is found.                                           *)
Gives(h, f, count) ==
    LET got == IF f \in Nat THEN f..f+count-1 ELSE {f} \ {NoFrame} IN
    /\ used' = used \cup (got \cap Frames)
    /\ held' = [held EXCEPT ![h] = @ \cup got]
    /\ MemoryBlocksUsed' = MemoryBlocksUsed + 1
    /\ UNCHANGED map

MmPhysicalAllocateBlock(h, mask, count) ==
    /\ MemoryBlocksUsed < MemoryBlocks + MaxFailed
    /\ \E f \in Found(mask, count) : Gives(h, f, count)

(* A variant: the bit stays set. *)
FreeCountOnly(h, f) ==
    /\ f \in held[h]
    /\ MemoryBlocksUsed' = Monus(MemoryBlocksUsed, 1)
    /\ held' = [held EXCEPT ![h] = @ \ {f}]
    /\ UNCHANGED <<map, used>>

(* MmPhysicalFreeBlock: a bit behind the bitmap is not part of used.         *)
MmPhysicalFreeBlock(h, f) ==
    /\ f \in held[h]
    /\ used' = used \ {f}
    /\ MemoryBlocksUsed' = Monus(MemoryBlocksUsed, 1)
    /\ held' = [held EXCEPT ![h] = @ \ {f}]
    /\ UNCHANGED map

(* MmVirtualInit is the first caller, and takes three frames at once for the *)
(* page directory; all later callers take one at a time.                     *)
MmVirtualInit(mask) == held[Kernel] = {} /\ MmPhysicalAllocateBlock(Kernel, mask, 3)

Next ==
    \/ \E mask \in {m \in Masks : m <= LOW_MASK} : MmVirtualInit(mask)
    \/ \E h \in Holders, mask \in Masks :
          held[Kernel] # {} /\ MmPhysicalAllocateBlock(h, mask, 1)
    \/ \E h \in Holders : \E f \in held[h] : MmPhysicalFreeBlock(h, f)

Spec == Init /\ [][Next]_vars

---------------------------------------------------------------------------
(* Properties                                                              *)

TypeOK ==
    /\ map \in MemoryMaps /\ used \subseteq Frames /\ MemoryBlocksUsed \in Nat
    /\ held \in [Holders \cup {Kernel} -> SUBSET (Frames \cup {Outside})]

(* A frame of the machine is held by one caller at most, and its bit is set  *)
(* for as long as it is: it is not handed out again before it is freed.      *)
FramesExclusive ==
    \A g, h \in DOMAIN held :
        /\ held[g] \cap Frames \subseteq used
        /\ g # h => held[g] \cap held[h] \cap Frames = {}

(* The bitmap marks what was reserved at boot and what callers hold: no free *)
(* makes a reserved frame available, no frame is lost.                       *)
FramesAccounted ==
    used = UsedAtBoot(map) \cup (Frames \cap UNION {held[h] : h \in DOMAIN held})

(* What a map must be for frames to lie where it says: the entries that are  *)
(* used begin on a page and within reach of a uintptr_t, as the base of a    *)
(* region is cut to both, and so do the kernel's own regions.                *)
MapsAligned ==
    /\ \A m \in MemoryMaps : \A i \in FreedRegions(m) :
          /\ m[i].size \in Nat
          /\ m[i].address \in 0..ADDR_MOD-1 /\ m[i].address % PAGE_SIZE = 0
    /\ \A r \in SystemRegions :
          r.base \in Nat /\ r.size \in Nat /\ r.base % PAGE_SIZE = 0

(* What a map must be for the page directory: the search for three frames    *)
(* does not look past a word, so the first place it takes must be a good one.*)
FreeAtBoot(m) ==
    {f \in Frames : /\ f \div BITS \in 1..LOW_WORDS-1
                    /\ \A k \in 0..2 : (f % BITS) + k < BITS => f + k \notin UsedAtBoot(m)}
DirectoryFits ==
    \A m \in MemoryMaps : \A f \in First(FreeAtBoot(m)) : f..f+2 \subseteq Frames \ UsedAtBoot(m)

(* Frames handed out lie, with all their bytes, in a region the map calls    *)
(* available, and neither in the first page nor in the kernel's own regions: *)
(* repeated, overlong and truncated entries of the map do not change that.   *)
Available(f) ==
    \E i \in DOMAIN map :
        /\ map[i].type = 1 /\ map[i].address <= f * PAGE_SIZE
        /\ (f + 1) * PAGE_SIZE <= map[i].address + map[i].size
AvailableOnly ==
    /\ TypeOK
    /\ \A h \in DOMAIN held : \A f \in held[h] \cap Frames :
          /\ Available(f) /\ f \notin SpecialFrames
          /\ \A r \in SystemRegions :
                f * PAGE_SIZE >= r.base + r.size \/ (f + 1) * PAGE_SIZE <= r.base

(* A caller goes away without a frame of the machine only when every frame   *)
(* of the part of memory its mask names is in use, the words the search      *)
(* skips excepted; it is never sent to the other part.                       *)
RefusedWhenFull ==
    [][\A h \in Holders, mask \in Masks :
          MmPhysicalAllocateBlock(h, mask, 1) =>
             LET part == {f \in Frames : f \div BITS \in
                            IF mask <= LOW_MASK THEN 1..LOW_WORDS-1
                                                ELSE LOW_WORDS..MemoryBlocks \div BITS - 1}
             IN  \/ \E f \in part \ used : used' = used \cup {f}
                 \/ part \subseteq used /\ used' = used]_vars
=============================================================================

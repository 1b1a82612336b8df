---------------------------- MODULE MemoryProofs ----------------------------
(***************************************************************************)
(* Frames are never shared and never lost, whatever the memory map, the    *)
(* size of the machine and the number of callers.                          *)
(*                                                                         *)
(* The request for three frames looks at the bits of one word only, and    *)
(* may take frames that are in use.  The invariant survives because that   *)
(* request is the first one, and what it takes is never freed.             *)
(*                                                                         *)
(* Virtual memory takes its frames as PhysicalMemory says its callers do,  *)
(* no two pages mapped after boot share a frame, what is mapped stays      *)
(* mapped, clients of the heap get mapped pages, and the kernel finds its  *)
(* page tables: all as long as pages are mapped one at a time.             *)
(***************************************************************************)
EXTENDS VirtualMemory, FiniteSetTheorems, TLAPS

---------------------------------------------------------------------------
(* Physical memory                                                         *)


All == Holders \cup {Kernel}

(* The inductive invariant: nobody has frames before the kernel does, and no *)
(* caller that may free frames has one that was reserved at boot.            *)
FramesInv ==
    /\ held \in [All -> SUBSET (Nat \cup {Outside})]
    /\ FramesExclusive /\ FramesAccounted
    /\ held[Kernel] = {} => \A h \in All : held[h] = {}
    /\ \A h \in Holders : held[h] \cap Frames \cap UsedAtBoot(map) = {}

LEMMA FramesStart == Init => FramesInv
  BY DEF Init, FramesInv, FramesExclusive, FramesAccounted, All

(* What is reserved at boot are frames of the machine. *)
LEMMA BootFrames == UsedAtBoot(map) \subseteq Frames
<1>1. SpecialFrames \subseteq Frames
  BY MachineSizes DEF Frames
<1>2. UNION {SystemFrames(r) : r \in SystemRegions} \subseteq Frames
  BY SystemFits
<1> QED BY <1>1, <1>2 DEF UsedAtBoot

(* What a search for count frames from f on gives. *)
LEMMA SearchResult ==
  ASSUME NEW mask, NEW count, NEW f \in Found(mask, count)
  PROVE  f \in FreeFrames(mask, count) \/ f \in {NoFrame, Outside}
  BY DEF Found, First

(* A frame found for a single request is free. *)
LEMMA SingleFrameFree ==
  ASSUME NEW mask, NEW f \in FreeFrames(mask, 1)
  PROVE  f \in Frames \ used
<1>1. f \in Frames /\ FreeFrom(f, 1)
  BY DEF FreeFrames
<1>2. f \in Nat
  BY <1>1, MachineSizes DEF Frames
<1>3. 0 \in 0..1-1 /\ (f % BITS) + 0 < BITS /\ f + 0 = f
  BY <1>2, MachineSizes
<1> QED BY <1>1, <1>3 DEF FreeFrom

(* The bit map and the holders after a step that gives got to h. *)
LEMMA GivingKeepsInv ==
  ASSUME FramesInv, NEW h \in All, NEW got \in SUBSET (Nat \cup {Outside}),
         \/ h \in Holders /\ held[Kernel] # {} /\ got \cap used \cap Frames = {}
         \/ h = Kernel /\ held[Kernel] = {},
         used' = used \cup (got \cap Frames),
         held' = [held EXCEPT ![h] = @ \cup got],
         map' = map
  PROVE  FramesInv'
<1> USE DEF FramesInv, All
<1>1. /\ held' \in [All -> SUBSET (Nat \cup {Outside})]
      /\ DOMAIN held = All /\ DOMAIN held' = All
      /\ held'[h] = held[h] \cup got
      /\ \A g \in All : g # h => held'[g] = held[g]
  OBVIOUS
<1>2. UsedAtBoot(map)' = UsedAtBoot(map)
  BY DEF UsedAtBoot, FreedRegions, MmSysMappingsContain, RegionFrames
<1>3. \A g \in All : held[g] \cap Frames \subseteq used
  BY <1>1 DEF FramesExclusive
<1>4. \A g \in All : g # h => held[g] \cap got \cap Frames = {}
  <2>1. CASE h \in Holders /\ got \cap used \cap Frames = {}
    BY <1>3, <2>1
  <2>2. CASE held[Kernel] = {}
    BY <2>2
  <2> QED BY <2>1, <2>2
<1>5. FramesExclusive'
  <2>1. ASSUME NEW g \in All PROVE held'[g] \cap Frames \subseteq used'
    BY <1>1, <1>3
  <2>2. ASSUME NEW g \in All, NEW k \in All, g # k
        PROVE  held'[g] \cap held'[k] \cap Frames = {}
    <3>1. held[g] \cap held[k] \cap Frames = {}
      BY <1>1, <2>2 DEF FramesExclusive
    <3>2. CASE g = h
      BY <1>1, <1>4, <2>2, <3>1, <3>2
    <3>3. CASE k = h
      BY <1>1, <1>4, <2>2, <3>1, <3>3
    <3>4. CASE g # h /\ k # h
      BY <1>1, <3>1, <3>4
    <3> QED BY <3>2, <3>3, <3>4
  <2> QED BY <1>1, <2>1, <2>2 DEF FramesExclusive, Frames
<1>6. FramesAccounted'
  <2>1. UNION {held'[g] : g \in All} = got \cup UNION {held[g] : g \in All}
    BY <1>1
  <2> QED BY <1>1, <1>2, <2>1 DEF FramesAccounted, Frames
<1>7. (held[Kernel] = {} => \A g \in All : held[g] = {})'
  BY <1>1
<1>8. (\A g \in Holders : held[g] \cap Frames \cap UsedAtBoot(map) = {})'
  <2>1. UsedAtBoot(map) \subseteq used
    BY DEF FramesAccounted
  <2>2. Kernel \notin Holders
    BY MachineSizes
  <2> QED BY <1>1, <1>2, <2>1, <2>2 DEF Frames
<1> QED BY <1>1, <1>5, <1>6, <1>7, <1>8

(* A frame is freed by one of the callers that have been given single ones.  *)
LEMMA FreeingKeepsInv ==
  ASSUME FramesInv, NEW h \in Holders, NEW f \in held[h], MmPhysicalFreeBlock(h, f)
  PROVE  FramesInv'
<1> USE DEF FramesInv, All, MmPhysicalFreeBlock
<1>1. /\ held' \in [All -> SUBSET (Nat \cup {Outside})]
      /\ DOMAIN held = All /\ DOMAIN held' = All
      /\ held'[h] = held[h] \ {f}
      /\ \A g \in All : g # h => held'[g] = held[g]
  OBVIOUS
<1>2. UsedAtBoot(map)' = UsedAtBoot(map)
  BY DEF UsedAtBoot, FreedRegions, MmSysMappingsContain, RegionFrames
<1>3. \A g \in All : g # h => f \notin held[g] \cap Frames
  BY <1>1 DEF FramesExclusive
<1>4. FramesExclusive'
  BY <1>1, <1>3 DEF FramesExclusive, Frames
<1>5. FramesAccounted'
  <2>1. f \in Frames => f \notin UsedAtBoot(map)
    OBVIOUS
  <2>2. CASE f \in Frames
    <3>1. Frames \cap UNION {held'[g] : g \in All} = (Frames \cap UNION {held[g] : g \in All}) \ {f}
      BY <1>1, <1>3, <2>2
    <3> QED BY <1>1, <1>2, <2>1, <2>2, <3>1 DEF FramesAccounted, Frames
  <2>3. CASE f \notin Frames
    <3>1. Frames \cap UNION {held'[g] : g \in All} = Frames \cap UNION {held[g] : g \in All}
      BY <1>1, <2>3
    <3>2. f \notin used
      BY <2>3, BootFrames DEF FramesAccounted
    <3> QED BY <1>1, <1>2, <2>3, <3>1, <3>2 DEF FramesAccounted, Frames
  <2> QED BY <2>2, <2>3
<1>6. (held[Kernel] = {} => \A g \in All : held[g] = {})'
  <2>1. h # Kernel
    BY MachineSizes
  <2> QED BY <1>1, <2>1
<1>7. (\A g \in Holders : held[g] \cap Frames \cap UsedAtBoot(map) = {})'
  BY <1>1, <1>2 DEF Frames
<1> QED BY <1>1, <1>4, <1>5, <1>6, <1>7

LEMMA FramesStep == FramesInv /\ [Next]_vars => FramesInv'
<1> SUFFICES ASSUME FramesInv, [Next]_vars PROVE FramesInv'
  OBVIOUS
<1>1. ASSUME NEW h \in All, NEW mask, NEW count \in {1, 3},
             MmPhysicalAllocateBlock(h, mask, count),
             \/ h \in Holders /\ held[Kernel] # {} /\ count = 1
             \/ h = Kernel /\ held[Kernel] = {}
      PROVE  FramesInv'
  <2>1. PICK f \in Found(mask, count) :
           /\ used' = used \cup ((IF f \in Nat THEN f..f+count-1 ELSE {f} \ {NoFrame}) \cap Frames)
           /\ held' = [held EXCEPT ![h] =
                          @ \cup (IF f \in Nat THEN f..f+count-1 ELSE {f} \ {NoFrame})]
    BY <1>1 DEF MmPhysicalAllocateBlock, Gives
  <2> DEFINE got == IF f \in Nat THEN f..f+count-1 ELSE {f} \ {NoFrame}
  <2>2. f \in FreeFrames(mask, count) \/ f \in {NoFrame, Outside}
    BY SearchResult
  <2>3. FreeFrames(mask, count) \subseteq Nat
    BY MachineSizes DEF FreeFrames, Frames
  <2>4. got \in SUBSET (Nat \cup {Outside})
    BY <2>2, <2>3, FramesAreNumbers
  <2>5. count = 1 => got \cap used \cap Frames = {}
    <3>1. CASE f \in FreeFrames(mask, count)
      BY <2>3, <3>1, SingleFrameFree
    <3>2. CASE f \in {NoFrame, Outside}
      <4>1. Outside \notin Frames /\ got \subseteq {Outside}
        BY <3>2, FramesAreNumbers, MachineSizes DEF Frames
      <4> QED BY <4>1
    <3> QED BY <2>2, <3>1, <3>2
  <2>6. /\ used' = used \cup (got \cap Frames)
        /\ held' = [held EXCEPT ![h] = @ \cup got]
        /\ map' = map
    BY <1>1, <2>1 DEF MmPhysicalAllocateBlock, Gives
  <2> HIDE DEF got
  <2> QED BY <1>1, <2>4, <2>5, <2>6, GivingKeepsInv
<1>2. CASE UNCHANGED vars
  BY <1>2 DEF vars, FramesInv, FramesExclusive, FramesAccounted, Frames, UsedAtBoot,
              FreedRegions, MmSysMappingsContain, RegionFrames
<1>3. ASSUME NEW mask, MmVirtualInit(mask) PROVE FramesInv'
  BY <1>1, <1>3 DEF MmVirtualInit, All
<1>4. ASSUME NEW h \in Holders, NEW mask \in Masks,
             held[Kernel] # {}, MmPhysicalAllocateBlock(h, mask, 1)
      PROVE  FramesInv'
  BY <1>1, <1>4 DEF All
<1> QED BY <1>2, <1>3, <1>4, FreeingKeepsInv DEF Next

(* No frame of the machine ever has two holders or is free while it is held. *)
THEOREM FramesNotShared == Spec => []FramesExclusive
<1>1. FramesInv => FramesExclusive
  BY DEF FramesInv
<1> QED BY <1>1, FramesStart, FramesStep, PTL DEF Spec

(* The bitmap is always what was reserved at boot and what is held now.      *)
THEOREM FramesNotLost == Spec => []FramesAccounted
<1>1. FramesInv => FramesAccounted
  BY DEF FramesInv
<1> QED BY <1>1, FramesStart, FramesStep, PTL DEF Spec
---------------------------------------------------------------------------
(* Where frames lie                                                         *)

LEMMA Products ==
  ASSUME NEW p \in Nat, NEW m \in Int, NEW n \in Int, m <= n
  PROVE  m * p <= n * p
OBVIOUS

LEMMA Quotient ==
  ASSUME NEW p \in Nat \ {0}, NEW x \in Nat
  PROVE  x = p * (x \div p) + (x % p) /\ x \div p \in Nat /\ x % p \in 0..p-1
OBVIOUS

LEMMA ExactQuotient ==
  ASSUME NEW p \in Nat \ {0}, NEW x \in Nat, x % p = 0
  PROVE  x = p * (x \div p) /\ x \div p \in Nat
<1>1. x = p * (x \div p) + (x % p) /\ x \div p \in Nat
  BY Quotient
<1>2. p * (x \div p) \in Nat
  BY <1>1
<1> QED BY <1>1, <1>2

(* The frames that a region of the map frees lie in the region. *)
LEMMA RegionAvailable ==
  ASSUME NEW r, r.address \in 0..ADDR_MOD-1, r.address % PAGE_SIZE = 0, r.size \in Nat,
         NEW f \in RegionFrames(r)
  PROVE  r.address <= f * PAGE_SIZE /\ (f + 1) * PAGE_SIZE <= r.address + r.size
<1> DEFINE q == r.address \div PAGE_SIZE
           s == r.size % ADDR_MOD
           n == s \div PAGE_SIZE
<1>1. PAGE_SIZE \in Nat \ {0} /\ ADDR_MOD \in Nat \ {0} /\ r.address \in Nat
  BY MachineSizes
<1>2. r.address % ADDR_MOD = r.address
  BY <1>1
<1>3. r.address = PAGE_SIZE * q /\ q \in Nat
  BY <1>1, ExactQuotient, Zenon
<1>4. s \in Nat /\ s <= r.size
  BY <1>1
<1>5. n \in Nat /\ PAGE_SIZE * n <= s
  <2> HIDE DEF s
  <2> QED BY <1>1, <1>4, Quotient
<1>6. f \in q..q+n-1
  BY <1>2 DEF RegionFrames
<1> HIDE DEF q, n, s
<1>7. f \in Int /\ q <= f /\ f + 1 <= q + n
  BY <1>3, <1>5, <1>6
<1>8. q * PAGE_SIZE <= f * PAGE_SIZE /\ (f + 1) * PAGE_SIZE <= (q + n) * PAGE_SIZE
  BY <1>1, <1>3, <1>5, <1>7, Products
<1>9. q * PAGE_SIZE = r.address /\ (q + n) * PAGE_SIZE = r.address + PAGE_SIZE * n
  BY <1>1, <1>3, <1>5
<1> QED BY <1>1, <1>3, <1>4, <1>5, <1>7, <1>8, <1>9

(* A frame whose bit a region of the kernel does not set is not in it. *)
LEMMA OutsideSystem ==
  ASSUME NEW r, r.base \in Nat, r.size \in Nat, r.base % PAGE_SIZE = 0,
         NEW f \in Nat, f \notin SystemFrames(r)
  PROVE  f * PAGE_SIZE >= r.base + r.size \/ (f + 1) * PAGE_SIZE <= r.base
<1> DEFINE q == r.base \div PAGE_SIZE
           n == r.size \div PAGE_SIZE
           b == r.size % PAGE_SIZE
<1>1. PAGE_SIZE \in Nat \ {0}
  BY MachineSizes
<1>2. r.base = PAGE_SIZE * q /\ q \in Nat
  BY <1>1, ExactQuotient, Zenon
<1>3. r.size = PAGE_SIZE * n + b /\ n \in Nat /\ b \in 0..PAGE_SIZE-1
  BY <1>1, Quotient
<1>4. ~(q <= f /\ f <= q + n)
  BY <1>2, <1>3 DEF SystemFrames
<1> HIDE DEF q, n, b
<1>5. CASE f < q
  <2>1. (f + 1) * PAGE_SIZE <= q * PAGE_SIZE
    BY <1>1, <1>2, <1>5, Products
  <2>2. q * PAGE_SIZE = r.base
    BY <1>1, <1>2
  <2> QED BY <2>1, <2>2
<1>6. CASE f >= q + n + 1
  <2>1. (q + n + 1) * PAGE_SIZE <= f * PAGE_SIZE
    BY <1>1, <1>2, <1>3, <1>6, Products
  <2>2. (q + n + 1) * PAGE_SIZE = PAGE_SIZE * q + PAGE_SIZE * n + PAGE_SIZE
    BY <1>1, <1>2, <1>3
  <2>3. PAGE_SIZE * q \in Nat /\ PAGE_SIZE * n \in Nat /\ f * PAGE_SIZE \in Nat
    BY <1>1, <1>2, <1>3
  <2> QED BY <1>1, <1>2, <1>3, <2>1, <2>2, <2>3
<1> QED BY <1>2, <1>3, <1>4, <1>5, <1>6

(* What is not marked at boot is memory for everybody. *)
LEMMA UnmarkedAvailable ==
  ASSUME MapsAligned, map \in MemoryMaps, NEW f \in Frames, f \notin UsedAtBoot(map)
  PROVE  /\ Available(f) /\ f \notin SpecialFrames
         /\ \A r \in SystemRegions :
               f * PAGE_SIZE >= r.base + r.size \/ (f + 1) * PAGE_SIZE <= r.base
<1>1. PICK i \in FreedRegions(map) : f \in RegionFrames(map[i])
  BY DEF UsedAtBoot
<1>2. Available(f)
  <2>1. map[i].size \in Nat /\ map[i].address \in 0..ADDR_MOD-1 /\ map[i].address % PAGE_SIZE = 0
    BY DEF MapsAligned
  <2>2. i \in DOMAIN map /\ map[i].type = 1
    BY DEF FreedRegions
  <2>3. map[i].address <= f * PAGE_SIZE /\ (f + 1) * PAGE_SIZE <= map[i].address + map[i].size
    BY <1>1, <2>1, RegionAvailable
  <2> QED BY <2>2, <2>3 DEF Available
<1>3. f \in Nat
  BY MachineSizes DEF Frames
<1>4. ASSUME NEW r \in SystemRegions
      PROVE  f * PAGE_SIZE >= r.base + r.size \/ (f + 1) * PAGE_SIZE <= r.base
  <2>1. f \notin SystemFrames(r)
    BY DEF UsedAtBoot
  <2>2. r.base \in Nat /\ r.size \in Nat /\ r.base % PAGE_SIZE = 0
    BY DEF MapsAligned
  <2> QED BY <1>3, <2>1, <2>2, OutsideSystem
<1> QED BY <1>2, <1>4 DEF UsedAtBoot

(* Nothing that was marked at boot is ever handed out, which needs that the  *)
(* kernel's three frames are unmarked ones: it is the first to ask.          *)
AvailInv ==
    /\ FramesInv /\ map \in MemoryMaps /\ MemoryBlocksUsed \in Nat
    /\ held \in [All -> SUBSET (Frames \cup {Outside})]
    /\ held[Kernel] \cap UsedAtBoot(map) = {}

LEMMA AvailStart == Init => AvailInv
<1> SUFFICES ASSUME Init PROVE AvailInv
  OBVIOUS
<1>1. held \in [All -> SUBSET (Frames \cup {Outside})] /\ held[Kernel] = {}
  BY DEF Init, All
<1>2. map \in MemoryMaps /\ MemoryBlocksUsed \in Nat
  BY BootCount DEF Init
<1> QED BY <1>1, <1>2, FramesStart DEF AvailInv

LEMMA AvailStep == DirectoryFits /\ AvailInv /\ [Next]_vars => AvailInv'
<1> SUFFICES ASSUME DirectoryFits, AvailInv, [Next]_vars PROVE AvailInv'
  OBVIOUS
<1> USE DEF AvailInv
<1>1. FramesInv'
  BY FramesStep
<1>2. map' = map /\ UsedAtBoot(map)' = UsedAtBoot(map) /\ Frames' = Frames
  <2>1. map' = map
    BY DEF Next, vars, MmVirtualInit, MmPhysicalAllocateBlock, Gives, MmPhysicalFreeBlock
  <2> QED BY <2>1 DEF UsedAtBoot, FreedRegions, MmSysMappingsContain, RegionFrames, Frames
<1>3. MemoryBlocksUsed' \in Nat
  BY DEF Next, vars, MmVirtualInit, MmPhysicalAllocateBlock, Gives, MmPhysicalFreeBlock, Monus
<1>4. ASSUME NEW mask, mask <= LOW_MASK, MmVirtualInit(mask)
      PROVE  /\ held' \in [All -> SUBSET (Frames \cup {Outside})]
             /\ held'[Kernel] \cap UsedAtBoot(map) = {}
  <2>1. PICK f \in Found(mask, 3) : Gives(Kernel, f, 3)
    BY <1>4 DEF MmVirtualInit, MmPhysicalAllocateBlock
  <2> DEFINE got == IF f \in Nat THEN f..f+3-1 ELSE {f} \ {NoFrame}
  <2>2. held' = [held EXCEPT ![Kernel] = @ \cup got]
    BY <2>1 DEF Gives
  <2>3. got \in SUBSET (Frames \cup {Outside}) /\ got \cap UsedAtBoot(map) = {}
    <3>1. CASE FreeFrames(mask, 3) # {}
      <4>1. f \in First(FreeFrames(mask, 3))
        BY <3>1 DEF Found
      <4>2. FreeFrames(mask, 3) = FreeAtBoot(map)
        <5>1. used = UsedAtBoot(map)
          <6>1. \A h \in All : held[h] = {}
            BY <1>4 DEF MmVirtualInit, FramesInv
          <6> QED BY <6>1 DEF FramesInv, FramesAccounted
        <5>2. Words(mask) = 1..LOW_WORDS-1
          BY <1>4 DEF Words
        <5>3. 3-1 = 2
          OBVIOUS
        <5> QED BY <5>1, <5>2, <5>3 DEF FreeFrames, FreeFrom, FreeAtBoot
      <4>3. f..f+2 \subseteq Frames \ UsedAtBoot(map)
        BY <4>1, <4>2 DEF DirectoryFits
      <4>4. f \in Nat
        BY <4>1, MachineSizes DEF First, FreeFrames, Frames
      <4>5. got = f..f+2
        BY <4>4
      <4> QED BY <4>3, <4>5
    <3>2. CASE FreeFrames(mask, 3) = {}
      <4>1. f \in {NoFrame, Outside}
        BY <3>2, SearchResult
      <4>2. got \subseteq {Outside} /\ Outside \notin Frames
        BY <4>1, FramesAreNumbers, MachineSizes DEF Frames
      <4> QED BY <4>2, BootFrames
    <3> QED BY <3>1, <3>2
  <2> HIDE DEF got
  <2> QED BY <2>2, <2>3 DEF All
<1>5. ASSUME NEW h \in Holders, NEW mask, MmPhysicalAllocateBlock(h, mask, 1)
      PROVE  /\ held' \in [All -> SUBSET (Frames \cup {Outside})]
             /\ held'[Kernel] = held[Kernel]
  <2>1. PICK f \in Found(mask, 1) : Gives(h, f, 1)
    BY <1>5 DEF MmPhysicalAllocateBlock
  <2> DEFINE got == IF f \in Nat THEN f..f+1-1 ELSE {f} \ {NoFrame}
  <2>2. held' = [held EXCEPT ![h] = @ \cup got]
    BY <2>1 DEF Gives
  <2>3. got \in SUBSET (Frames \cup {Outside})
    <3>1. CASE f \in FreeFrames(mask, 1)
      <4>1. f \in Frames /\ f \in Nat
        BY <3>1, SingleFrameFree, MachineSizes DEF Frames
      <4> QED BY <4>1
    <3>2. CASE f \in {NoFrame, Outside}
      BY <3>2, FramesAreNumbers
    <3> QED BY <3>1, <3>2, SearchResult
  <2>4. h # Kernel
    BY MachineSizes
  <2> HIDE DEF got
  <2> QED BY <2>2, <2>3, <2>4 DEF All
<1>6. ASSUME NEW h \in Holders, NEW f \in held[h], MmPhysicalFreeBlock(h, f)
      PROVE  /\ held' \in [All -> SUBSET (Frames \cup {Outside})]
             /\ held'[Kernel] = held[Kernel]
  <2>1. h # Kernel
    BY MachineSizes
  <2> QED BY <1>6, <2>1 DEF MmPhysicalFreeBlock, All
<1>7. UNCHANGED vars => held' = held
  BY DEF vars
<1>8. /\ held' \in [All -> SUBSET (Frames \cup {Outside})]
      /\ held'[Kernel] \cap UsedAtBoot(map) = {}
  BY <1>4, <1>5, <1>6, <1>7 DEF Next, vars
<1>9. All' = All
  BY DEF All
<1> QED BY <1>1, <1>2, <1>3, <1>8, <1>9, Zenon

(* Frames handed out are memory, and neither special nor the kernel's own,   *)
(* for every map whose used entries are aligned and in reach: repeated,      *)
(* overlapping, empty and overlong entries do no harm (physical_memory.c:289). *)
THEOREM FramesAvailable == MapsAligned /\ DirectoryFits => (Spec => []AvailableOnly)
<1> SUFFICES ASSUME MapsAligned, DirectoryFits PROVE Spec => []AvailableOnly
  OBVIOUS
<1>1. AvailInv => AvailableOnly
  <2> SUFFICES ASSUME AvailInv PROVE AvailableOnly
    OBVIOUS
  <2>1. TypeOK
    BY BootFrames DEF AvailInv, FramesInv, FramesAccounted, TypeOK, All
  <2>2. ASSUME NEW h \in DOMAIN held, NEW f \in held[h] \cap Frames
        PROVE  f \notin UsedAtBoot(map)
    BY DEF AvailInv, FramesInv, All
  <2> QED BY <2>1, <2>2, UnmarkedAvailable DEF AvailInv, AvailableOnly
<1>2. AvailInv /\ [Next]_vars => AvailInv'
  BY AvailStep
<1> QED BY <1>1, <1>2, AvailStart, PTL DEF Spec

(* A request for one frame is refused only when the part of memory it is     *)
(* for is full, for every machine, whatever the search reads behind the      *)
(* bitmap (physical_memory.c:144).                                           *)
THEOREM RefusedOnlyWhenFull == Spec => RefusedWhenFull
<1> DEFINE Part(mask) == {f \in Frames : f \div BITS \in
                            IF mask <= LOW_MASK THEN 1..LOW_WORDS-1
                                                ELSE LOW_WORDS..MemoryBlocks \div BITS - 1}
           Refusal == \A h \in Holders, mask \in Masks :
              MmPhysicalAllocateBlock(h, mask, 1) =>
                 \/ \E f \in Part(mask) \ used : used' = used \cup {f}
                 \/ Part(mask) \subseteq used /\ used' = used
<1>0. BITS \in Nat \ {0} /\ MemoryBlocks \in Nat
  BY MachineSizes
<1>1. ASSUME NEW f \in Frames
      PROVE  f \in Nat /\ f \div BITS \in Nat /\ f \div BITS <= MemoryBlocks \div BITS - 1
  <2> DEFINE n == MemoryBlocks \div BITS
             m == f \div BITS
  <2>1. f \in Nat /\ f < MemoryBlocks
    BY <1>0 DEF Frames
  <2>2. MemoryBlocks = BITS * n /\ n \in Nat
    BY <1>0, MachineSizes, Quotient
  <2>3. f = BITS * m + (f % BITS) /\ m \in Nat /\ f % BITS \in Nat
    <3>1. f = BITS * m + (f % BITS) /\ m \in Nat /\ f % BITS \in 0..BITS-1
      BY <1>0, <2>1, Quotient, Zenon
    <3> QED BY <3>1
  <2> HIDE DEF n, m
  <2>4. BITS * m < BITS * n
    BY <1>0, <2>1, <2>2, <2>3
  <2>5. ~(n <= m)
    <3>1. n <= m => n * BITS <= m * BITS
      BY <1>0, <2>2, <2>3, Products
    <3>2. n * BITS = BITS * n /\ m * BITS = BITS * m
      BY <1>0, <2>2, <2>3
    <3>3. BITS * n \in Nat /\ BITS * m \in Nat
      BY <1>0, <2>2, <2>3
    <3> QED BY <2>4, <3>1, <3>2, <3>3
  <2>6. m <= n - 1
    BY <2>2, <2>3, <2>5
  <2> QED BY <2>1, <2>3, <2>6 DEF n, m
<1>2. ASSUME NEW mask
      PROVE  Part(mask) = {f \in Frames : f \div BITS \in Words(mask)}
  <2>1. MemoryBlocks \div BITS <= MemoryBlocks /\ MemoryBlocks \div BITS \in Nat
    BY <1>0
  <2>2. ASSUME NEW f \in Frames
        PROVE  f \div BITS \in LOW_WORDS..MemoryBlocks-1
                  <=> f \div BITS \in LOW_WORDS..MemoryBlocks \div BITS - 1
    BY <1>0, <1>1, <2>1, MachineSizes
  <2> QED BY <2>2 DEF Words
<1>3. ASSUME NEW h \in Holders, NEW mask \in Masks, MmPhysicalAllocateBlock(h, mask, 1)
      PROVE  \/ \E f \in Part(mask) \ used : used' = used \cup {f}
             \/ Part(mask) \subseteq used /\ used' = used
  <2>1. PICK f \in Found(mask, 1) : Gives(h, f, 1)
    BY <1>3 DEF MmPhysicalAllocateBlock
  <2> DEFINE got == IF f \in Nat THEN f..f+1-1 ELSE {f} \ {NoFrame}
  <2>2. used' = used \cup (got \cap Frames)
    BY <2>1 DEF Gives
  <2>3. CASE FreeFrames(mask, 1) # {}
    <3>1. f \in FreeFrames(mask, 1)
      BY <2>3 DEF Found, First
    <3>2. f \in Part(mask) /\ f \in Frames \ used
      BY <1>2, <3>1, SingleFrameFree DEF FreeFrames
    <3>3. got = {f}
      BY <1>1, <3>2
    <3> HIDE DEF got, Part
    <3> QED BY <2>2, <3>2, <3>3
  <2>4. CASE FreeFrames(mask, 1) = {}
    <3>1. ASSUME NEW g \in Part(mask), g \notin used
          PROVE  FALSE
      <4>1. g \in Frames /\ g \div BITS \in Words(mask) /\ g \in Nat
        BY <1>1, <1>2
      <4>2. FreeFrom(g, 1)
        <5>1. \A k \in 0..1-1 : g + k = g
          BY <4>1
        <5> QED BY <3>1, <5>1 DEF FreeFrom
      <4> QED BY <2>4, <4>1, <4>2 DEF FreeFrames
    <3>2. f \in {NoFrame, Outside}
      BY <2>4, SearchResult
    <3>3. got \cap Frames = {}
      BY <3>2, FramesAreNumbers, MachineSizes DEF Frames
    <3> HIDE DEF got, Part
    <3> QED BY <2>2, <3>1, <3>3
  <2> QED BY <2>3, <2>4
<1>4. [Next]_vars => [Refusal]_vars
  <2> HIDE DEF Part
  <2> QED BY <1>3
<1>5. RefusedWhenFull <=> [][Refusal]_vars
  BY DEF RefusedWhenFull
<1> HIDE DEF Refusal
<1> QED BY <1>4, <1>5, PTL DEF Spec

---------------------------------------------------------------------------
(* Virtual memory                                                          *)


SinglePages == PageCounts = {1}

CallsTyped ==
    /\ calls \in Seq(Activations)
    /\ \A k \in DOMAIN calls : /\ calls[k].count = 1 /\ calls[k].done = 0
                               /\ calls[k].base = calls[k].frame

Tables == [frame : Nat \cup {None}, at : Nat, page : [Entries -> Nat \cup {None}]]
TablesTyped == tables \in [DOMAIN tables -> Tables]

(* A page has a frame that was allocated for a page, and has it alone. *)
PagesOwn ==
    /\ \A v \in UserPages : Translate(v) # None => Translate(v) \in held["pages"] \cap Frames
    /\ \A v, w \in UserPages : v # w /\ Translate(v) # None => Translate(v) # Translate(w)

(* So has a call in progress the frame it is about to map. *)
CallsOwn ==
    /\ \A k \in DOMAIN calls : calls[k].frame # None =>
          /\ calls[k].frame \in held["pages"]
          /\ \A v \in UserPages : Translate(v) # calls[k].frame
    /\ \A j, k \in DOMAIN calls : j # k /\ calls[k].frame # None => calls[j].frame # calls[k].frame

Sound == CallsTyped /\ TablesTyped /\ PagesOwn /\ CallsOwn

VmInv ==
    /\ FramesInv
    /\ calls # <<>> => held[Kernel] # {}
    /\ plan \in Seq(FreshTables) /\ headers \in Nat
    /\ ~stopped => Sound

---------------------------------------------------------------------------
(* The frame a single request finds is nobody's, and goes to who asked. *)
LEMMA TakenFrame ==
  ASSUME FramesInv, NEW h \in Holders, NEW mask, NEW f \in Found(mask, 1), f \in Frames,
         Gives(h, f, 1)
  PROVE  /\ \A g \in All : f \notin held[g]
         /\ held' \in [All -> SUBSET (Nat \cup {Outside})]
         /\ held'[h] = held[h] \cup {f}
         /\ \A g \in All : g # h => held'[g] = held[g]
<1>1. f \in Nat
  BY MachineSizes DEF Frames
<1>2. f \in FreeFrames(mask, 1)
  BY SearchResult, <1>1, FramesAreNumbers
<1>3. f \notin used
  BY <1>2, SingleFrameFree
<1>4. \A g \in All : f \notin held[g]
  BY <1>3 DEF FramesInv, FramesExclusive, All
<1>5. held' = [held EXCEPT ![h] = @ \cup {f}]
  <2>1. f..f+1-1 = {f}
    BY <1>1
  <2> QED BY <1>1, <2>1 DEF Gives
<1> QED BY <1>1, <1>4, <1>5 DEF FramesInv, All

(* A call of the allocator by the tables or the pages. *)
LEMMA GiveIsNext ==
  ASSUME NEW h \in Holders, NEW mask \in Masks, NEW f \in Found(mask, 1), held[Kernel] # {},
         MemoryBlocksUsed < MemoryBlocks + MaxFailed, Gives(h, f, 1)
  PROVE  Next
BY DEF Next, MmPhysicalAllocateBlock

(* The stack of calls. *)
LEMMA TopOfStack ==
  ASSUME NEW S, NEW s \in Seq(S), s # <<>>
  PROVE  /\ Len(s) \in DOMAIN s /\ Last(s) = s[Len(s)] /\ Last(s) \in S
         /\ Front(s) \in Seq(S) /\ Len(Front(s)) = Len(s) - 1
         /\ \A k \in 1..Len(s)-1 : Front(s)[k] = s[k]
<1>1. Len(s) \in Nat \ {0} /\ DOMAIN s = 1..Len(s) /\ \A k \in 1..Len(s) : s[k] \in S
  OBVIOUS
<1>2. Front(s) = SubSeq(s, 1, Len(s)-1)
  BY DEF Front
<1>3. /\ Front(s) \in Seq(S) /\ Len(Front(s)) = Len(s) - 1
      /\ \A k \in 1..Len(s)-1 : Front(s)[k] = s[k]
  BY <1>1, <1>2
<1> QED BY <1>1, <1>3 DEF Last

(* A new top. *)
LEMMA NewTop ==
  ASSUME NEW S, NEW s \in Seq(S), s # <<>>, NEW c \in S
  PROVE  /\ Append(Front(s), c) \in Seq(S) /\ Append(Front(s), c) # <<>>
         /\ Len(Append(Front(s), c)) = Len(s)
         /\ \A k \in 1..Len(s) : Append(Front(s), c)[k] = IF k = Len(s) THEN c ELSE s[k]
<1>1. Len(s) \in Nat \ {0}
  OBVIOUS
<1>2. /\ Front(s) \in Seq(S) /\ Len(Front(s)) = Len(s) - 1
      /\ \A k \in 1..Len(s)-1 : Front(s)[k] = s[k]
  BY TopOfStack
<1> HIDE DEF Front
<1> QED BY <1>1, <1>2

LEMMA Division ==
  ASSUME NEW a \in Nat \ {0}, NEW x \in Nat
  PROVE  x = a * (x \div a) + (x % a) /\ x \div a \in Nat /\ x % a \in 0..a-1
OBVIOUS

(* Pages differ in their table or in their place in it. *)
LEMMA PageIndex ==
  ASSUME NEW v \in Nat, NEW w \in Nat,
         PAGE_DIRECTORY_INDEX(v) = PAGE_DIRECTORY_INDEX(w),
         PAGE_TABLE_INDEX(v) = PAGE_TABLE_INDEX(w)
  PROVE  v = w
<1> DEFINE q(x) == x \div PAGES_PER_TABLE
           r(x) == x % PAGES_PER_TABLE
<1>1. PAGES_PER_TABLE \in Nat \ {0}
  BY Regions
<1>2. v = PAGES_PER_TABLE * q(v) + r(v) /\ w = PAGES_PER_TABLE * q(w) + r(w)
  BY <1>1, Division
<1>3. q(v) = q(w) /\ r(v) = r(w)
  BY DEF PAGE_DIRECTORY_INDEX, PAGE_TABLE_INDEX
<1> HIDE DEF q, r
<1> QED BY <1>2, <1>3, Zenon

LEMMA UserPagesAreNumbers == UserPages \subseteq Nat
<1>1. HEAP \in Nat /\ HeaderPages \in Nat /\ HEAP_END \in Nat
  BY Regions
<1>2. \A n \in HEAP..HEAP+HeaderPages-1 \cup HEAP+HeaderPages..HEAP_END-1 : n \in Nat
  BY <1>1
<1>3. HeapPages \subseteq HEAP+HeaderPages..HEAP_END-1 /\ OtherPages \subseteq Nat
  BY Regions
<1> QED BY <1>2, <1>3 DEF UserPages

LEMMA IndexTypes ==
  ASSUME NEW v \in Nat
  PROVE  PAGE_DIRECTORY_INDEX(v) \in Nat /\ PAGE_TABLE_INDEX(v) \in Entries
BY Regions DEF PAGE_DIRECTORY_INDEX, PAGE_TABLE_INDEX, Entries

---------------------------------------------------------------------------
(* Steps that map nothing: a table may go, a call may come, frames stay.     *)
LEMMA MappingNothing ==
  ASSUME PagesOwn, CallsOwn,
         \A v \in UserPages : Translate(v)' \in {Translate(v), None},
         held["pages"] \subseteq held'["pages"],
         \A k \in DOMAIN calls' : \/ calls'[k].frame = None
                                  \/ k \in DOMAIN calls /\ calls'[k].frame = calls[k].frame
  PROVE  PagesOwn' /\ CallsOwn'
<1>1. PagesOwn'
  <2>1. ASSUME NEW v \in UserPages, Translate(v)' # None
        PROVE  Translate(v)' = Translate(v) /\ Translate(v) # None
    BY <2>1
  <2>2. Frames' = Frames /\ UserPages' = UserPages
    BY DEF Frames, UserPages
  <2> QED BY <2>1, <2>2 DEF PagesOwn
<1>2. ASSUME NEW k \in DOMAIN calls', calls'[k].frame # None
      PROVE  /\ k \in DOMAIN calls /\ calls'[k].frame = calls[k].frame
             /\ calls[k].frame # None
  BY <1>2
<1>3. ASSUME NEW k \in DOMAIN calls', calls'[k].frame # None, NEW v \in UserPages
      PROVE  Translate(v)' # calls'[k].frame
  BY <1>2, <1>3 DEF CallsOwn
<1>4. ASSUME NEW k \in DOMAIN calls', calls'[k].frame # None
      PROVE  calls'[k].frame \in held'["pages"]
  BY <1>2, <1>4 DEF CallsOwn
<1>5. ASSUME NEW j \in DOMAIN calls', NEW k \in DOMAIN calls', j # k, calls'[k].frame # None
      PROVE  calls'[j].frame # calls'[k].frame
  BY <1>2, <1>5 DEF CallsOwn
<1> QED BY <1>1, <1>3, <1>4, <1>5 DEF CallsOwn, UserPages

(* A new table has no page that is mapped after boot. *)
LEMMA AddingTable ==
  ASSUME TablesTyped, NEW i \in Nat, NEW t \in Tables,
         tables' = [j \in {i} \cup DOMAIN tables |-> IF j = i THEN t ELSE tables[j]],
         \A v \in UserPages :
            PAGE_DIRECTORY_INDEX(v) = i => t.page[PAGE_TABLE_INDEX(v)] = None
  PROVE  TablesTyped' /\ \A v \in UserPages : Translate(v)' \in {Translate(v), None}
<1>1. TablesTyped'
  BY DEF TablesTyped, Tables, Entries
<1>2. ASSUME NEW v \in UserPages
      PROVE  Translate(v)' \in {Translate(v), None}
  BY DEF Translate, PAGE_DIRECTORY_INDEX, PAGE_TABLE_INDEX
<1> QED BY <1>1, <1>2

(* A call that begins has no frame yet. *)
LEMMA Beginning ==
  ASSUME CallsTyped, NEW v \in UserPages, NEW mask \in Masks,
         NEW stack \in Seq(Activations),
         Len(stack) = Len(calls),
         \A k \in DOMAIN calls : /\ stack[k].count = 1 /\ stack[k].done = 0
                                 /\ stack[k].frame = calls[k].frame
                                 /\ stack[k].base = calls[k].base,
         calls' \in {stack, Append(stack, Activation(v, 1, mask))}
  PROVE  /\ CallsTyped'
         /\ \A k \in DOMAIN calls' :
               \/ calls'[k].frame = None
               \/ k \in DOMAIN calls /\ calls'[k].frame = calls[k].frame
<1> DEFINE c == Activation(v, 1, mask)
<1>1. /\ c \in Activations /\ c.frame = None /\ c.base = None /\ c.count = 1 /\ c.done = 0
  BY DEF Activation, Activations
<1>2. calls \in Seq(Activations) /\ DOMAIN calls = DOMAIN stack
  BY DEF CallsTyped
<1> HIDE DEF c
<1>3. CASE calls' = stack
  BY <1>2, <1>3 DEF CallsTyped, Activations, UserPages, Frames
<1>4. CASE calls' = Append(stack, c)
  <2>1. /\ calls' \in Seq(Activations) /\ DOMAIN calls' = DOMAIN stack \cup {Len(stack) + 1}
        /\ calls'[Len(stack) + 1] = c
        /\ \A k \in DOMAIN stack : calls'[k] = stack[k]
    BY <1>1, <1>4
  <2>2. Activations' = Activations
    BY DEF Activations, UserPages, Frames
  <2> QED BY <1>1, <1>2, <2>1, <2>2 DEF CallsTyped
<1> QED BY <1>3, <1>4 DEF c

---------------------------------------------------------------------------
(* The actions, while the machine runs.                                      *)
LEMMA AtBoot ==
  ASSUME VmInv, MmVirtualCreatePageTable, ~stopped'
  PROVE  plan' \in Seq(FreshTables) /\ Sound'
<1> DEFINE t == Head(plan)
<1>1. PICK f \in Found(MEMORY_INIT_MASK, 1) :
        /\ Gives("tables", f, 1) /\ f \in Frames
        /\ tables' = [i \in {t.index} \cup DOMAIN tables |->
                        IF i = t.index THEN [frame |-> f, at |-> f, page |-> t.page]
                        ELSE tables[i]]
  BY DEF MmVirtualCreatePageTable, WithTable
<1>2. plan # <<>> /\ plan \in Seq(FreshTables) /\ plan' = Tail(plan) /\ calls' = calls
  BY DEF VmInv, MmVirtualCreatePageTable
<1>3. t \in FreshTables /\ plan' \in Seq(FreshTables)
  BY <1>2
<1>4. held["pages"] \subseteq held'["pages"]
  BY <1>1, TakenFrame, Callers DEF VmInv, All
<1>5. f \in Nat
  BY <1>1, MachineSizes DEF Frames
<1>6. Sound
  BY DEF MmVirtualCreatePageTable, VmInv, Sound
<1>7. [frame |-> f, at |-> f, page |-> t.page] \in Tables /\ t.index \in Nat
  BY <1>3, <1>5 DEF FreshTables, Tables
<1>8. \A v \in UserPages :
        PAGE_DIRECTORY_INDEX(v) = t.index => t.page[PAGE_TABLE_INDEX(v)] = None
  BY <1>3 DEF FreshTables
<1> HIDE DEF t
<1>9. TablesTyped' /\ \A v \in UserPages : Translate(v)' \in {Translate(v), None}
  BY <1>1, <1>6, <1>7, <1>8, AddingTable DEF Sound
<1>10. PagesOwn' /\ CallsOwn'
  BY <1>2, <1>4, <1>6, <1>9, MappingNothing DEF Sound
<1>11. CallsTyped'
  BY <1>2, <1>6 DEF Sound, CallsTyped, Activations, UserPages, Frames
<1> QED BY <1>3, <1>9, <1>10, <1>11 DEF Sound

(* A call that takes a frame gets one that no page and no other call has.    *)
LEMMA TakingFrame ==
  ASSUME VmInv, TakeFrame, ~stopped'
  PROVE  Sound'
<1> DEFINE c == Current
           n == Len(calls)
<1>1. Sound /\ calls # <<>> /\ c.frame = None /\ calls \in Seq(Activations)
  BY DEF TakeFrame, VmInv, Sound, CallsTyped
<1>2. n \in DOMAIN calls /\ c = calls[n] /\ c \in Activations
  BY <1>1, TopOfStack DEF Current
<1>3. c.base = None /\ c.count = 1 /\ c.done = 0
  BY <1>1, <1>2 DEF Sound, CallsTyped
<1>4. PICK f \in Found(c.mask, 1) :
        /\ Gives("pages", f, 1) /\ f \in Frames
        /\ calls' = Append(Front(calls), [c EXCEPT !.base = f, !.frame = f])
  BY <1>3 DEF TakeFrame, Replaced
<1>5. /\ \A g \in All : f \notin held[g]
      /\ held'["pages"] = held["pages"] \cup {f}
  BY <1>4, TakenFrame, Callers DEF VmInv
<1>6. tables' = tables
  BY DEF TakeFrame
<1>7. [c EXCEPT !.base = f, !.frame = f] \in Activations
  BY <1>2, <1>4 DEF Activations
<1> DEFINE d == [c EXCEPT !.base = f, !.frame = f]
<1>8. d.base = f /\ d.frame = f /\ d.count = 1 /\ d.done = 0
  BY <1>2, <1>3 DEF Activations
<1>9. f \notin held["pages"] /\ f # None
  <2>1. "pages" \in All
    BY Callers DEF All
  <2> QED BY <1>4, <1>5, <2>1, NoneIsNoNumber, MachineSizes DEF Frames
<1> HIDE DEF c, d
<1>10. /\ calls' \in Seq(Activations) /\ DOMAIN calls' = DOMAIN calls
       /\ \A k \in DOMAIN calls : calls'[k] = IF k = n THEN d ELSE calls[k]
  BY <1>1, <1>4, <1>7, NewTop DEF d
<1>11. CallsTyped'
  <2>1. Activations' = Activations
    BY DEF Activations, UserPages, Frames
  <2> QED BY <1>1, <1>8, <1>10, <2>1 DEF CallsTyped, Sound
<1>12. \A v : Translate(v)' = Translate(v)
  BY <1>6 DEF Translate, PAGE_DIRECTORY_INDEX, PAGE_TABLE_INDEX
<1>13. UserPages' = UserPages /\ Frames' = Frames
  BY DEF UserPages, Frames
<1>14. PagesOwn'
  BY <1>1, <1>5, <1>12, <1>13 DEF Sound, PagesOwn
<1>15. \A v \in UserPages : Translate(v) # f
  BY <1>1, <1>9 DEF Sound, PagesOwn
<1>16. \A k \in DOMAIN calls : calls[k].frame # f
  BY <1>1, <1>9 DEF Sound, CallsOwn
<1>17. CallsOwn'
  BY <1>1, <1>5, <1>8, <1>10, <1>12, <1>13, <1>15, <1>16 DEF Sound, CallsOwn
<1>18. TablesTyped'
  BY <1>1, <1>6 DEF Sound, TablesTyped, Tables, Entries
<1> QED BY <1>11, <1>14, <1>17, <1>18 DEF Sound

LEMMA NextIsPage ==
  ASSUME CallsTyped, calls # <<>>
  PROVE  /\ Current = calls[Len(calls)] /\ Len(calls) \in DOMAIN calls
         /\ Current \in Activations /\ NextPage = Current.page /\ NextPage \in UserPages
         /\ Current.count = 1 /\ Current.done = 0 /\ Current.base = Current.frame
<1>1. calls \in Seq(Activations)
  BY DEF CallsTyped
<1>2. /\ Current = calls[Len(calls)] /\ Len(calls) \in DOMAIN calls
      /\ Current \in Activations
  BY <1>1, TopOfStack DEF Current
<1>3. Current.count = 1 /\ Current.done = 0 /\ Current.base = Current.frame
  BY <1>2 DEF CallsTyped
<1>4. Current.page \in UserPages /\ Current.page \in Nat
  BY <1>2, UserPagesAreNumbers DEF Activations
<1> HIDE DEF Current
<1> QED BY <1>2, <1>3, <1>4 DEF NextPage

(* What a call writes changes one entry of one table. *)
LEMMA EntryWritten ==
  ASSUME VmInv, MmVirtualMap, ~stopped'
  PROVE  LET i == PAGE_DIRECTORY_INDEX(NextPage)
             e == PAGE_TABLE_INDEX(NextPage)
         IN  /\ i \in DOMAIN tables /\ e \in Entries
             /\ Current.frame \in Frames /\ Current.frame # None
             /\ TablesTyped /\ TablesTyped' /\ DOMAIN tables' = DOMAIN tables
             /\ \A j \in DOMAIN tables : /\ tables'[j].frame = tables[j].frame
                                        /\ tables'[j].at = tables[j].at
             /\ \A j \in DOMAIN tables, k \in Entries :
                   tables'[j].page[k] = IF j = i /\ k = e THEN Current.frame
                                                         ELSE tables[j].page[k]
             /\ \A w \in UserPages :
                   Translate(w)' = IF w = NextPage THEN Current.frame ELSE Translate(w)
<1> DEFINE v == NextPage
           f == Current.frame
           i == PAGE_DIRECTORY_INDEX(v)
           e == PAGE_TABLE_INDEX(v)
           n == Len(calls)
<1>1. Sound /\ calls # <<>> /\ calls \in Seq(Activations)
  BY DEF MmVirtualMap, VmInv, Sound, CallsTyped
<1>2. /\ Current = calls[n] /\ n \in DOMAIN calls /\ Current \in Activations
      /\ v \in UserPages
  BY <1>1, NextIsPage DEF Sound
<1>3. v \in Nat /\ i \in Nat /\ e \in Entries
  BY <1>2, UserPagesAreNumbers, IndexTypes
<1>4. f \in Frames /\ f # None /\ f \in Nat
  <2>1. f # None
    BY DEF MmVirtualMap
  <2> QED BY <1>2, <2>1, MachineSizes DEF Activations, Frames
<1>5. i \in DOMAIN tables
  BY DEF MmVirtualMap, HasTable
<1>6. tables' = [tables EXCEPT ![i].page[e] = f]
  <2>1. stopped' = ~Reached(i)
    BY DEF MmVirtualMap
  <2>2. Reached(i)
    BY <2>1, Zenon
  <2>3. tables' = IF Reached(i) THEN [tables EXCEPT ![i].page[e] = f] ELSE tables
    BY DEF MmVirtualMap
  <2> QED BY <2>2, <2>3
<1> HIDE DEF v, f, i, e
<1>7. TablesTyped /\ DOMAIN tables' = DOMAIN tables
  BY <1>1, <1>6 DEF Sound
<1>8. /\ TablesTyped'
       /\ \A j \in DOMAIN tables :
             /\ tables'[j].frame = tables[j].frame
             /\ tables'[j].at = tables[j].at
       /\ \A l \in DOMAIN tables, k \in Entries :
             tables'[l].page[k] = IF l = i /\ k = e THEN f ELSE tables[l].page[k]
  <2>1. /\ tables[i] \in Tables
        /\ tables' = [tables EXCEPT ![i] = [tables[i] EXCEPT !.page =
                                              [tables[i].page EXCEPT ![e] = f]]]
    BY <1>5, <1>6, <1>7 DEF TablesTyped
  <2>2. /\ tables[i].page \in [Entries -> Nat \cup {None}]
        /\ [tables[i].page EXCEPT ![e] = f] \in [Entries -> Nat \cup {None}]
        /\ \A k \in Entries : [tables[i].page EXCEPT ![e] = f][k]
                                = IF k = e THEN f ELSE tables[i].page[k]
    BY <1>3, <1>4, <2>1 DEF Tables
  <2> DEFINE pg == [tables[i].page EXCEPT ![e] = f]
             t  == [tables[i] EXCEPT !.page = pg]
  <2> HIDE DEF pg
  <2>3. t \in Tables /\ t.page = pg /\ t.frame = tables[i].frame /\ t.at = tables[i].at
    BY <2>1, <2>2 DEF Tables, pg
  <2> HIDE DEF t
  <2>4. tables' = [tables EXCEPT ![i] = t]
    BY <2>1 DEF t, pg
  <2>5. tables' \in [DOMAIN tables -> Tables]
    BY <1>7, <2>3, <2>4 DEF TablesTyped
  <2>6. Tables' = Tables
    BY DEF Tables, Entries
  <2> QED BY <1>5, <1>7, <2>2, <2>3, <2>4, <2>5, <2>6 DEF TablesTyped, pg
<1>9. ASSUME NEW w \in UserPages
       PROVE  Translate(w)' = IF w = v THEN f ELSE Translate(w)
  <2>1. w \in Nat /\ PAGE_DIRECTORY_INDEX(w) \in Nat /\ PAGE_TABLE_INDEX(w) \in Entries
    BY UserPagesAreNumbers, IndexTypes
  <2>2. w # v => PAGE_DIRECTORY_INDEX(w) # i \/ PAGE_TABLE_INDEX(w) # e
    BY <1>3, <2>1, PageIndex DEF i, e
  <2>3. Translate(w)' = IF PAGE_DIRECTORY_INDEX(w) \in DOMAIN tables'
                        THEN tables'[PAGE_DIRECTORY_INDEX(w)].page[PAGE_TABLE_INDEX(w)] ELSE None
    BY DEF Translate, PAGE_DIRECTORY_INDEX, PAGE_TABLE_INDEX
  <2> QED BY <1>5, <1>7, <1>8, <2>1, <2>2, <2>3 DEF Translate, i, e
<1> QED BY <1>3, <1>4, <1>5, <1>7, <1>8, <1>9 DEF i, e, f, v

(* The page of the innermost call gets its frame, and the call is left.      *)
LEMMA MappingPage ==
  ASSUME VmInv, MmVirtualMap, ~stopped'
  PROVE  Sound'
<1> DEFINE v == NextPage
           f == Current.frame
           n == Len(calls)
<1>1. Sound /\ calls # <<>> /\ calls \in Seq(Activations)
  BY DEF MmVirtualMap, VmInv, Sound, CallsTyped
<1>2. /\ Current = calls[n] /\ n \in DOMAIN calls /\ Current \in Activations
      /\ v \in UserPages /\ Current.count = 1 /\ Current.done = 0
  BY <1>1, NextIsPage DEF Sound
<1>3. f \in Frames /\ f # None /\ f \in Nat
  <2>1. f # None
    BY DEF MmVirtualMap
  <2> QED BY <1>2, <2>1, MachineSizes DEF Activations, Frames
<1>4. held' = held
  BY DEF MmVirtualMap, vars
<1>5. calls' = Front(calls)
  BY <1>2 DEF MmVirtualMap, Leave
<1> HIDE DEF v, f
<1>6. /\ calls' \in Seq(Activations) /\ DOMAIN calls' = 1..n-1
      /\ DOMAIN calls = 1..n /\ \A k \in 1..n-1 : calls'[k] = calls[k]
  BY <1>1, <1>5, TopOfStack
<1>7. CallsTyped'
  <2>1. Activations' = Activations
    BY DEF Activations, UserPages, Frames
  <2> QED BY <1>1, <1>6, <2>1 DEF CallsTyped, Sound
<1>8. TablesTyped' /\ \A w \in UserPages : Translate(w)' = IF w = v THEN f ELSE Translate(w)
  BY EntryWritten DEF v, f
<1>9. UserPages' = UserPages /\ Frames' = Frames
  BY DEF UserPages, Frames
<1>10. f \in held["pages"] /\ \A w \in UserPages : Translate(w) # f
  BY <1>1, <1>2, <1>3 DEF Sound, CallsOwn, f
<1>11. PagesOwn'
  <2>1. ASSUME NEW u \in UserPages, NEW w \in UserPages, u # w, Translate(u)' # None
        PROVE  Translate(u)' # Translate(w)'
    BY <1>1, <1>8, <1>10, <2>1 DEF Sound, PagesOwn
  <2>2. ASSUME NEW w \in UserPages, Translate(w)' # None
        PROVE  Translate(w)' \in held'["pages"] \cap Frames
    BY <1>1, <1>3, <1>4, <1>8, <1>10, <2>2 DEF Sound, PagesOwn
  <2> QED BY <1>9, <2>1, <2>2 DEF PagesOwn
<1>12. ASSUME NEW k \in 1..n-1, calls[k].frame # None
       PROVE  calls[k].frame # f /\ k \in DOMAIN calls
  BY <1>1, <1>2, <1>6, <1>12 DEF Sound, CallsOwn, f
<1>13. CallsOwn'
  BY <1>1, <1>4, <1>6, <1>8, <1>9, <1>12 DEF Sound, CallsOwn
<1> QED BY <1>7, <1>8, <1>11, <1>13 DEF Sound

(* The steps that begin a call or a table, and those of the users.           *)
LEMMA OtherSteps ==
  ASSUME SinglePages, VmInv, ~stopped,
         \/ AskForTable
         \/ HeapSAllocator
         \/ \E p \in HeapPages : (\E mask \in Masks : kmalloc(p, mask)) \/ kfree(p)
         \/ \E v \in OtherPages, n \in PageCounts : AddressSpaceMap(v, n, AnyMask)
  PROVE  Sound'
<1>1. Sound /\ calls \in Seq(Activations) /\ AnyMask \in Masks
  BY Callers DEF VmInv, Sound, CallsTyped
<1>2. tables' = tables /\ held' = held
  BY DEF AskForTable, HeapSAllocator, kmalloc, kfree, AddressSpaceMap, vars
<1>3. TablesTyped' /\ \A v \in UserPages : Translate(v)' \in {Translate(v), None}
  BY <1>1, <1>2 DEF Sound, TablesTyped, Tables, Entries, Translate,
                    PAGE_DIRECTORY_INDEX, PAGE_TABLE_INDEX
<1> SUFFICES /\ CallsTyped'
             /\ \A k \in DOMAIN calls' :
                   \/ calls'[k].frame = None
                   \/ k \in DOMAIN calls /\ calls'[k].frame = calls[k].frame
  BY <1>1, <1>2, <1>3, MappingNothing DEF Sound
<1>4. ASSUME NEW v \in UserPages, NEW mask \in Masks,
             calls' \in {calls, Append(calls, Activation(v, 1, mask))}
      PROVE  /\ CallsTyped'
             /\ \A k \in DOMAIN calls' :
                   \/ calls'[k].frame = None
                   \/ k \in DOMAIN calls /\ calls'[k].frame = calls[k].frame
  <2>1. \A k \in DOMAIN calls : calls[k].count = 1 /\ calls[k].done = 0
    BY <1>1 DEF Sound, CallsTyped
  <2> QED BY <1>1, <1>4, <2>1, Beginning DEF Sound
<1>5. CASE AskForTable
  <2>1. PICK p \in HeapPages :
           calls' \in {Replaced([Current EXCEPT !.table = p]),
                       Append(Replaced([Current EXCEPT !.table = p]), Activation(p, 1, AnyMask))}
    BY <1>5 DEF AskForTable, HeapCommitPages
  <2> DEFINE c == [Current EXCEPT !.table = p]
  <2>2. calls # <<>>
    BY <1>5 DEF AskForTable, NeedsTable
  <2>3. /\ Current = calls[Len(calls)] /\ Len(calls) \in DOMAIN calls
        /\ Current \in Activations /\ Current.count = 1 /\ Current.done = 0
    BY <1>1, <2>2, NextIsPage DEF Sound
  <2>4. /\ c \in Activations /\ c.count = 1 /\ c.done = 0
        /\ c.frame = Current.frame /\ c.base = Current.base
    BY <2>3 DEF Activations
  <2> HIDE DEF c
  <2>5. /\ Replaced(c) \in Seq(Activations) /\ Len(Replaced(c)) = Len(calls)
        /\ \A k \in DOMAIN calls : Replaced(c)[k] = IF k = Len(calls) THEN c ELSE calls[k]
    BY <1>1, <2>2, <2>4, NewTop DEF Replaced
  <2>6. \A k \in DOMAIN calls : /\ Replaced(c)[k].count = 1 /\ Replaced(c)[k].done = 0
                                /\ Replaced(c)[k].frame = calls[k].frame
                                /\ Replaced(c)[k].base = calls[k].base
    BY <1>1, <2>3, <2>4, <2>5 DEF Sound, CallsTyped
  <2>7. p \in UserPages
    BY DEF UserPages
  <2>8. calls' \in {Replaced(c), Append(Replaced(c), Activation(p, 1, AnyMask))}
    BY <2>1 DEF c
  <2> HIDE DEF Replaced
  <2> QED BY <1>1, <2>5, <2>6, <2>7, <2>8, Beginning DEF Sound
<1>6. CASE HeapSAllocator
  <2>1. headers \in Nat /\ headers < HeaderPages
    BY <1>6 DEF HeapSAllocator, VmInv
  <2>2. HEAP + headers \in HEAP..HEAP+HeaderPages-1
    BY <2>1, Regions
  <2>3. HEAP + headers \in UserPages
    BY <2>2 DEF UserPages
  <2>4. calls' = Append(calls, Activation(HEAP + headers, 1, AnyMask))
    BY <1>6 DEF HeapSAllocator
  <2> QED BY <1>1, <1>4, <2>3, <2>4
<1>7. ASSUME NEW p \in HeapPages, NEW mask \in Masks, kmalloc(p, mask)
      PROVE  calls' \in {calls, Append(calls, Activation(p, 1, mask))} /\ p \in UserPages
  BY <1>7 DEF kmalloc, HeapCommitPages, UserPages
<1>8. ASSUME NEW p \in HeapPages, kfree(p)
      PROVE  calls' = calls /\ p \in UserPages
  BY <1>8 DEF kfree, UserPages
<1>9. ASSUME NEW v \in OtherPages, NEW n \in PageCounts, AddressSpaceMap(v, n, AnyMask)
      PROVE  calls' = Append(calls, Activation(v, 1, AnyMask)) /\ v \in UserPages
  BY <1>9 DEF AddressSpaceMap, UserPages, SinglePages
<1> QED BY <1>1, <1>4, <1>5, <1>6, <1>7, <1>8, <1>9

(* The table a call has waited for maps nothing yet. *)
LEMMA InstallingTable ==
  ASSUME VmInv, InstallTable
  PROVE  Sound'
<1> DEFINE c == [Current EXCEPT !.table = None]
           i == PAGE_DIRECTORY_INDEX(NextPage)
           t == [frame |-> Translate(Current.table), at |-> Current.table, page |-> Empty]
<1>1. Sound /\ calls # <<>> /\ calls \in Seq(Activations)
  BY DEF InstallTable, VmInv, Sound, CallsTyped
<1>2. /\ Current = calls[Len(calls)] /\ Len(calls) \in DOMAIN calls
      /\ Current \in Activations /\ NextPage \in UserPages
      /\ Current.count = 1 /\ Current.done = 0
  BY <1>1, NextIsPage DEF Sound
<1>3. Current.table \in HeapPages /\ Current.table \in Nat
  <2>1. Current.table \in HeapPages
    BY <1>2 DEF InstallTable, Activations
  <2> QED BY <2>1, UserPagesAreNumbers DEF UserPages
<1>4. t \in Tables /\ i \in Nat
  <2>1. Translate(Current.table) \in Nat \cup {None}
    BY <1>1, <1>3, IndexTypes DEF Sound, TablesTyped, Tables, Translate
  <2>2. i \in Nat
    BY <1>2, UserPagesAreNumbers, IndexTypes
  <2> QED BY <1>3, <2>1, <2>2 DEF Tables, Empty
<1>5. \A v \in UserPages : t.page[PAGE_TABLE_INDEX(v)] = None
  BY UserPagesAreNumbers, IndexTypes DEF Empty
<1>6. /\ tables' = [j \in {i} \cup DOMAIN tables |-> IF j = i THEN t ELSE tables[j]]
      /\ calls' = Replaced(c) /\ held' = held
  BY DEF InstallTable, WithTable, TableAt, vars
<1>7. /\ c \in Activations /\ c.count = 1 /\ c.done = 0
      /\ c.frame = Current.frame /\ c.base = Current.base
  BY <1>2 DEF Activations
<1> HIDE DEF c, i, t
<1>8. TablesTyped' /\ \A v \in UserPages : Translate(v)' \in {Translate(v), None}
  BY <1>1, <1>4, <1>5, <1>6, AddingTable DEF Sound
<1>9. /\ calls' \in Seq(Activations) /\ DOMAIN calls' = DOMAIN calls
      /\ \A k \in DOMAIN calls : calls'[k] = IF k = Len(calls) THEN c ELSE calls[k]
  BY <1>1, <1>6, <1>7, NewTop DEF Replaced
<1>10. CallsTyped'
  <2>1. Activations' = Activations
    BY DEF Activations, UserPages, Frames
  <2> QED BY <1>1, <1>2, <1>7, <1>9, <2>1 DEF Sound, CallsTyped
<1>11. PagesOwn' /\ CallsOwn'
  BY <1>1, <1>2, <1>6, <1>7, <1>8, <1>9, MappingNothing DEF Sound
<1> QED BY <1>8, <1>10, <1>11 DEF Sound

---------------------------------------------------------------------------
(* Every step of the virtual memory manager is one PhysicalMemory allows.    *)
LEMMA AllocatorStep == SinglePages /\ VmInv /\ [VmNext]_<<vars, vmvars>> => [Next]_vars
<1> SUFFICES ASSUME VmInv, [VmNext]_<<vars, vmvars>> PROVE [Next]_vars
  OBVIOUS
<1>1. CASE InstallDirectory
  BY <1>1, Callers DEF InstallDirectory, Next
<1>2. CASE MmVirtualCreatePageTable
  BY <1>2, GiveIsNext, Callers DEF MmVirtualCreatePageTable
<1>3. CASE TakeFrame
  <2>1. Sound /\ calls # <<>>
    BY <1>3 DEF TakeFrame, VmInv
  <2>2. Current \in Activations
    BY <2>1, NextIsPage DEF Sound
  <2>3. Current.mask \in Masks /\ held[Kernel] # {}
    BY <2>1, <2>2 DEF Activations, VmInv
  <2>4. CASE Current.base = None
    <3>1. PICK f \in Found(Current.mask, 1) : Gives("pages", f, 1)
      BY <1>3, <2>4 DEF TakeFrame
    <3>2. MemoryBlocksUsed < MemoryBlocks + MaxFailed
      BY <1>3, <2>4 DEF TakeFrame
    <3> QED BY <2>3, <3>1, <3>2, GiveIsNext, Callers
  <2> QED BY <1>3, <2>4 DEF TakeFrame
<1>4. CASE UNCHANGED vars
  BY <1>4
<1> QED
  BY <1>1, <1>2, <1>3, <1>4
     DEF VmNext, AskForTable, InstallTable, MmVirtualMap, HeapSAllocator, kmalloc, kfree,
         AddressSpaceMap

LEMMA VmStart == VmInit => VmInv
<1> SUFFICES ASSUME VmInit PROVE VmInv
  OBVIOUS
<1>1. FramesInv /\ map \in MemoryMaps
  BY FramesStart DEF VmInit, Init
<1>2. plan \in Seq(FreshTables)
  BY <1>1, Layout DEF VmInit
<1>3. \A v : Translate(v) = None
  BY DEF VmInit, Translate
<1>4. Sound
  BY <1>3 DEF VmInit, Sound, CallsTyped, TablesTyped, PagesOwn, CallsOwn
<1> QED BY <1>1, <1>2, <1>4 DEF VmInit, VmInv

(* The directory, once there, stays. *)
LEMMA DirectoryStays ==
  ASSUME FramesInv, [Next]_vars, [VmNext]_<<vars, vmvars>>, held[Kernel] # {}
  PROVE  held'[Kernel] # {}
<1>1. held \in [All -> SUBSET (Nat \cup {Outside})] /\ Kernel \in All
  BY DEF FramesInv, All
<1>2. ASSUME NEW h, NEW f, NEW count, Gives(h, f, count)
      PROVE  held'[Kernel] # {}
  BY <1>1, <1>2 DEF Gives
<1>3. CASE UNCHANGED held
  BY <1>3
<1> QED
  BY <1>2, <1>3 DEF VmNext, InstallDirectory, MmVirtualInit, MmPhysicalAllocateBlock,
      MmVirtualCreatePageTable, TakeFrame, AskForTable, InstallTable, MmVirtualMap,
      HeapSAllocator, kmalloc, kfree, AddressSpaceMap, vars

LEMMA VmStep == SinglePages /\ VmInv /\ [VmNext]_<<vars, vmvars>> => VmInv'
<1> SUFFICES ASSUME SinglePages, VmInv, [VmNext]_<<vars, vmvars>> PROVE VmInv'
  OBVIOUS
<1>1. FramesInv'
  BY AllocatorStep, FramesStep DEF VmInv
<1>2. held[Kernel] # {} => held'[Kernel] # {}
  BY AllocatorStep, DirectoryStays DEF VmInv
<1>3. CASE UNCHANGED <<vars, vmvars>>
  BY <1>1, <1>3 DEF VmInv, Sound, CallsTyped, TablesTyped, PagesOwn, CallsOwn, vmvars, vars,
      Activations, FreshTables, Tables, Entries, UserPages, Frames, Translate,
      PAGE_DIRECTORY_INDEX, PAGE_TABLE_INDEX
<1>4. VmNext => calls' = <<>> \/ held'[Kernel] # {}
  BY <1>2 DEF VmInv, VmNext, InstallDirectory, MmVirtualCreatePageTable, TakeFrame,
      AskForTable, InstallTable, MmVirtualMap, HeapSAllocator, kmalloc, kfree,
      AddressSpaceMap, Paging, Allocating, NeedsTable
<1>5. VmNext => plan' \in Seq(FreshTables)' /\ headers' \in Nat
  <2>1. VmNext => \/ plan' = plan
                  \/ plan # <<>> /\ plan' = Tail(plan)
    BY DEF VmNext, InstallDirectory, MmVirtualCreatePageTable, TakeFrame, AskForTable,
        InstallTable, MmVirtualMap, HeapSAllocator, kmalloc, kfree, AddressSpaceMap
  <2>2. VmNext => headers' = headers \/ headers' = headers + 1
    BY DEF VmNext, InstallDirectory, MmVirtualCreatePageTable, TakeFrame, AskForTable,
        InstallTable, MmVirtualMap, HeapSAllocator, kmalloc, kfree, AddressSpaceMap
  <2>3. plan \in Seq(FreshTables) /\ headers \in Nat
    BY DEF VmInv
  <2>4. FreshTables' = FreshTables
    BY DEF FreshTables, Entries, UserPages, PAGE_DIRECTORY_INDEX, PAGE_TABLE_INDEX
  <2>5. plan # <<>> => Tail(plan) \in Seq(FreshTables)
    BY <2>3
  <2> QED BY <2>1, <2>2, <2>3, <2>4, <2>5
<1>6. CASE VmNext /\ stopped'
  BY <1>1, <1>4, <1>5, <1>6 DEF VmInv
<1>7. CASE VmNext /\ ~stopped'
  <2>1. Sound'
    <3>1. ~stopped
      BY <1>7 DEF VmNext, InstallDirectory, MmVirtualCreatePageTable, TakeFrame,
        AskForTable, InstallTable, MmVirtualMap, HeapSAllocator, kmalloc, kfree,
        AddressSpaceMap, Allocating
    <3>2. CASE InstallDirectory
      <4>1. Sound /\ tables' = tables /\ calls' = calls
        BY <3>1, <3>2 DEF VmInv, InstallDirectory
      <4>2. held["pages"] = {}
        BY <3>2, Callers DEF VmInv, FramesInv, InstallDirectory, MmVirtualInit, All
      <4>3. \A v \in UserPages : Translate(v) = None
        BY <4>1, <4>2 DEF Sound, PagesOwn
      <4>4. \A k \in DOMAIN calls : calls[k].frame = None
        BY <4>1, <4>2 DEF Sound, CallsOwn
      <4>5. \A v : Translate(v)' = Translate(v)
        BY <4>1 DEF Translate, PAGE_DIRECTORY_INDEX, PAGE_TABLE_INDEX
      <4>6. PagesOwn' /\ CallsOwn'
        BY <4>1, <4>3, <4>4, <4>5 DEF PagesOwn, CallsOwn, UserPages
      <4>7. CallsTyped' /\ TablesTyped'
        BY <4>1 DEF Sound, CallsTyped, TablesTyped, Tables, Activations, Entries,
            UserPages, Frames
      <4> QED BY <4>6, <4>7 DEF Sound
    <3>3. CASE MmVirtualCreatePageTable
      BY <1>7, <3>3, AtBoot
    <3>4. CASE TakeFrame
      BY <1>7, <3>4, TakingFrame
    <3>5. CASE MmVirtualMap
      BY <1>7, <3>5, MappingPage
    <3>6. CASE InstallTable
      BY <3>6, InstallingTable
    <3> QED BY <1>7, <3>1, <3>2, <3>3, <3>4, <3>5, <3>6, OtherSteps DEF VmNext
  <2> QED BY <1>1, <1>4, <1>5, <1>7, <2>1 DEF VmInv
<1> QED BY <1>3, <1>6, <1>7

(* The frame allocator is used only as PhysicalMemory allows: three frames   *)
(* for the directory first, and then single ones.  So what is proved there   *)
(* holds of the frames under the page tables.                                *)
THEOREM FramesUsed == ASSUME SinglePages PROVE VmSpec => ImplementsFrames
<1>1. VmInit => Init
  BY DEF VmInit
<1> QED
  BY <1>1, VmStart, VmStep, AllocatorStep, PTL DEF VmSpec, ImplementsFrames, Spec

(* While the machine runs, every page mapped after boot has a frame that was *)
(* allocated for it, that no other such page has, and that is in no table.   *)
THEOREM FramesApart == ASSUME SinglePages PROVE VmSpec => [](~stopped => FramesNotAliased)
<1>1. VmInv => (~stopped => FramesNotAliased)
  <2> SUFFICES ASSUME VmInv, ~stopped PROVE FramesNotAliased
    OBVIOUS
  <2>1. PagesOwn /\ FramesExclusive /\ held \in [All -> SUBSET (Nat \cup {Outside})]
    BY DEF VmInv, Sound, FramesInv
  <2>2. {"pages", "tables", Kernel} \subseteq DOMAIN held /\ Kernel # "pages"
    BY <2>1, Callers DEF All
  <2>3. \A f \in held["pages"] \cap Frames : f \notin held["tables"] \cup held[Kernel]
    BY <2>1, <2>2 DEF FramesExclusive
  <2> QED BY <2>1, <2>3 DEF PagesOwn, FramesNotAliased
<1> QED BY <1>1, VmStart, VmStep, PTL DEF VmSpec
---------------------------------------------------------------------------
(* The tables made at boot                                                   *)

(* The indices of the tables in s are different and between lo and hi.       *)
Apart(s, lo, hi) ==
    \A j, k \in DOMAIN s : /\ s[j].index \in lo..hi-1
                           /\ j # k => s[j].index # s[k].index

(* u holds what s and t do, and begins as s.                                 *)
HasBoth(u, s, t) ==
    /\ \A k \in DOMAIN s : k \in DOMAIN u /\ u[k] = s[k]
    /\ \A k \in DOMAIN t : \E j \in DOMAIN u : u[j] = t[k]

LEMMA ApartJoined ==
  ASSUME NEW S, NEW s \in Seq(S), NEW t \in Seq(S),
         NEW lo \in Nat, NEW mid \in Nat, NEW hi \in Nat, lo <= mid, mid <= hi,
         Apart(s, lo, mid), Apart(t, mid, hi)
  PROVE  s \o t \in Seq(S) /\ Apart(s \o t, lo, hi) /\ HasBoth(s \o t, s, t)
<1>1. /\ s \o t \in Seq(S) /\ DOMAIN s = 1..Len(s) /\ DOMAIN t = 1..Len(t)
      /\ DOMAIN (s \o t) = 1..Len(s)+Len(t) /\ Len(s) \in Nat /\ Len(t) \in Nat
      /\ \A k \in 1..Len(s)+Len(t) :
            (s \o t)[k] = IF k <= Len(s) THEN s[k] ELSE t[k - Len(s)]
  OBVIOUS
<1> DEFINE u == s \o t
<1> HIDE DEF u
<1>2. ASSUME NEW k \in DOMAIN u
      PROVE  \/ k \in DOMAIN s /\ u[k] = s[k]
             \/ k - Len(s) \in DOMAIN t /\ u[k] = t[k - Len(s)] /\ k > Len(s)
  BY <1>1 DEF u
<1>3. \A k \in DOMAIN u : u[k].index \in lo..hi-1
  BY <1>2 DEF Apart
<1>4. ASSUME NEW j \in DOMAIN u, NEW k \in DOMAIN u, j < k
      PROVE  u[j].index # u[k].index
  <2>1. j \in Nat /\ k \in Nat /\ (k \in DOMAIN s => j \in DOMAIN s)
    BY <1>1, <1>4 DEF u
  <2>2. CASE k \in DOMAIN s /\ j \in DOMAIN s
    BY <1>1, <1>2, <1>4, <2>1, <2>2 DEF Apart
  <2>3. CASE k \notin DOMAIN s /\ j \in DOMAIN s
    <3>1. u[j].index \in lo..mid-1
      BY <1>1, <1>2, <2>3 DEF Apart
    <3>2. u[k].index \in mid..hi-1
      BY <1>2, <2>3 DEF Apart
    <3> QED BY <3>1, <3>2
  <2>4. CASE k \notin DOMAIN s /\ j \notin DOMAIN s
    <3>1. /\ k - Len(s) \in DOMAIN t /\ u[k] = t[k - Len(s)]
          /\ j - Len(s) \in DOMAIN t /\ u[j] = t[j - Len(s)]
      BY <1>2, <2>4
    <3>2. k - Len(s) # j - Len(s)
      BY <1>1, <1>4, <2>1
    <3> QED BY <3>1, <3>2 DEF Apart
  <2> QED BY <2>1, <2>2, <2>3, <2>4
<1>5. Apart(u, lo, hi)
  <2>1. \A j, k \in DOMAIN u : j # k => j < k \/ k < j
    BY <1>1 DEF u
  <2> QED BY <1>3, <1>4, <2>1 DEF Apart
<1>6. ASSUME NEW k \in DOMAIN t
      PROVE  \E j \in DOMAIN u : u[j] = t[k]
  <2>1. k + Len(s) \in DOMAIN u /\ u[k + Len(s)] = t[k]
    BY <1>1 DEF u
  <2> QED BY <2>1
<1>7. \A k \in DOMAIN s : k \in DOMAIN u /\ u[k] = s[k]
  BY <1>1 DEF u
<1> QED BY <1>1, <1>5, <1>6, <1>7 DEF u, HasBoth

(* The tables of one region. *)
LEMMA Consecutive ==
  ASSUME NEW s, NEW first \in Nat, NEW n \in Nat, NEW hi \in Nat, first + n <= hi,
         DOMAIN s = 1..n, \A j \in 1..n : s[j].index = first + j - 1
  PROVE  Apart(s, first, hi)
<1>1. \A j \in 1..n : s[j].index \in first..hi-1
  OBVIOUS
<1>2. \A j, k \in 1..n : j # k => s[j].index # s[k].index
  OBVIOUS
<1> QED BY <1>1, <1>2 DEF Apart

(* Where a table is, and how many tables there are up to it.                 *)
LEMMA TableOrder ==
  ASSUME NEW v \in Nat, NEW w \in Nat
  PROVE  /\ v <= w => PAGE_DIRECTORY_INDEX(v) <= PAGE_DIRECTORY_INDEX(w)
         /\ v < w /\ w % PAGES_PER_TABLE = 0 => PAGE_DIRECTORY_INDEX(v) < PAGE_DIRECTORY_INDEX(w)
<1> DEFINE p == PAGES_PER_TABLE
           q(x) == x \div p
           r(x) == x % p
<1>1. p \in Nat \ {0}
  BY Regions
<1>2. \A x \in {v, w} : x = p * q(x) + r(x) /\ q(x) \in Nat /\ r(x) \in 0..p-1
  BY <1>1, Division
<1>3. v \div p = q(v) /\ w \div p = q(w) /\ w % p = r(w)
  OBVIOUS
<1> HIDE DEF p, q, r
<1>4. /\ v = q(v) * p + r(v) /\ q(v) \in Nat /\ r(v) \in 0..p-1
      /\ w = q(w) * p + r(w) /\ q(w) \in Nat /\ r(w) \in 0..p-1
  BY <1>1, <1>2
<1>5. ASSUME q(w) < q(v)
      PROVE  q(w) * p + p <= q(v) * p
  <2>1. (q(w) + 1) * p <= q(v) * p
    BY <1>1, <1>4, <1>5, Products
  <2> QED BY <1>1, <1>4, <2>1
<1>6. ASSUME v <= w PROVE q(v) <= q(w)
  <2>1. q(w) < q(v) => w < v
    BY <1>1, <1>4, <1>5
  <2> QED BY <1>4, <1>6, <2>1
<1>7. ASSUME v < w, r(w) = 0 PROVE q(v) < q(w)
  <2>1. q(v) = q(w) => w <= v
    BY <1>1, <1>4, <1>7
  <2> QED BY <1>4, <1>6, <1>7, <2>1
<1> QED BY <1>3, <1>6, <1>7 DEF PAGE_DIRECTORY_INDEX, p

(* The tables made at boot are as many different ones, the one of low memory *)
(* is the first, and the heap has all of its.                                *)
LEMMA BootPlan ==
  ASSUME NEW m \in MemoryMaps
  PROVE  /\ \E hi \in Nat : Apart(BootTables(m), 0, hi)
         /\ 1 \in DOMAIN BootTables(m) /\ BootTables(m)[1] = LowTable[1]
         /\ \A v \in HEAP..HEAP_END-1 : \E k \in DOMAIN BootTables(m) :
               BootTables(m)[k].index = PAGE_DIRECTORY_INDEX(v)
<1> DEFINE ix(v) == PAGE_DIRECTORY_INDEX(v)
           h == HeapTables
           v == VideoTables
           r == ReservedTables(m)
           S == {x[j] : x \in {LowTable, h, v, r}, j \in Nat}
           nh == Cardinality(TablesOf(HEAP, HEAP_END - HEAP))
           nv == Cardinality(TablesOf(VIDEO, VideoPages))
           nr == Cardinality(TablesOf(RESERVED, Len(ReservedFrames(m))))
<1>1. /\ HEAP \in Nat /\ HEAP_END \in Nat /\ VIDEO \in Nat /\ RESERVED \in Nat
      /\ 0 < HEAP /\ HEAP < HEAP_END /\ HEAP_END <= VIDEO
      /\ VideoPages \in Nat \ {0} /\ VIDEO + VideoPages <= RESERVED
  <2>1. LOW_WORDS \in Nat \ {0} /\ BITS \in Nat \ {0}
    BY MachineSizes
  <2> DEFINE low == LOW_WORDS * BITS
  <2>2. low \in Nat \ {0}
    BY <2>1
  <2>3. low <= HEAP
    BY Regions
  <2>4. /\ HEAP \in Nat /\ HEAP_END \in Nat /\ VIDEO \in Nat /\ RESERVED \in Nat
        /\ HEAP < HEAP_END /\ HEAP_END <= VIDEO
        /\ VideoPages \in Nat \ {0} /\ VIDEO + VideoPages <= RESERVED
    BY Regions, Zenon
  <2> HIDE DEF low
  <2> QED BY <2>2, <2>3, <2>4
<1>13. RESERVED \in Nat \ {0}
  BY <1>1
<1>2. /\ ix(HEAP) \in Nat /\ ix(HEAP_END) \in Nat /\ ix(VIDEO) \in Nat /\ ix(RESERVED) \in Nat
      /\ ix(HEAP_END - 1) \in Nat /\ ix(VIDEO + VideoPages - 1) \in Nat
  <2>1. HEAP_END - 1 \in Nat /\ VIDEO + VideoPages - 1 \in Nat
    BY <1>1
  <2> QED BY <1>1, <2>1, IndexTypes
<1>3. /\ 0 < ix(HEAP) /\ ix(HEAP) <= ix(HEAP_END - 1) /\ ix(HEAP_END - 1) < ix(HEAP_END)
      /\ ix(HEAP_END) <= ix(VIDEO) /\ ix(VIDEO) <= ix(VIDEO + VideoPages - 1)
      /\ ix(VIDEO + VideoPages - 1) < ix(RESERVED)
  <2>1. ix(0) = 0 /\ 0 \in Nat
    BY Regions DEF PAGE_DIRECTORY_INDEX
  <2>2. \A x \in {HEAP, HEAP_END, RESERVED} : x % PAGES_PER_TABLE = 0
    BY Regions
  <2>3. /\ HEAP_END - 1 \in Nat /\ HEAP <= HEAP_END - 1 /\ HEAP_END - 1 < HEAP_END
        /\ VIDEO + VideoPages - 1 \in Nat /\ VIDEO <= VIDEO + VideoPages - 1
        /\ VIDEO + VideoPages - 1 < RESERVED
    BY <1>1
  <2> HIDE DEF ix
  <2>4. \A x, y \in Nat : /\ x <= y => ix(x) <= ix(y)
                          /\ x < y /\ y % PAGES_PER_TABLE = 0 => ix(x) < ix(y)
    BY TableOrder DEF ix
  <2> QED BY <1>1, <2>1, <2>2, <2>3, <2>4
<1> HIDE DEF ix
<1> DEFINE Interval(a, b) == /\ IsFiniteSet(a..b)
                             /\ Cardinality(a..b) = IF a > b THEN 0 ELSE b-a+1
<1> HIDE DEF Interval
<1>0. \A a, b \in Int : Interval(a, b)
  BY FS_Interval DEF Interval
<1>4. /\ nh \in Nat /\ nh = ix(HEAP_END - 1) - ix(HEAP) + 1
      /\ nv \in Nat /\ nv = ix(VIDEO + VideoPages - 1) - ix(VIDEO) + 1
      /\ nr \in Nat
  <2>1. HEAP + (HEAP_END - HEAP) - 1 = HEAP_END - 1
    BY <1>1
  <2>2. /\ TablesOf(HEAP, HEAP_END - HEAP) = ix(HEAP) .. ix(HEAP_END - 1)
        /\ TablesOf(VIDEO, VideoPages) = ix(VIDEO) .. ix(VIDEO + VideoPages - 1)
    BY <2>1 DEF TablesOf, ix
  <2>3. IsFiniteSet(TablesOf(RESERVED, Len(ReservedFrames(m))))
    <3>1. Len(ReservedFrames(m)) \in Nat
      BY Layout
    <3> DEFINE last == RESERVED + Len(ReservedFrames(m)) - 1
    <3>2. last \in Nat
      BY <1>1, <1>13, <3>1
    <3>3. ix(last) \in Nat
      BY <3>2, IndexTypes DEF ix
    <3>4. TablesOf(RESERVED, Len(ReservedFrames(m))) = ix(RESERVED)..ix(last)
      BY DEF TablesOf, ix
    <3> HIDE DEF last
    <3>5. Interval(ix(RESERVED), ix(last))
      BY <1>0, <1>2, <3>3
    <3> QED BY <3>4, <3>5 DEF Interval
  <2>4. /\ Cardinality(ix(HEAP) .. ix(HEAP_END - 1)) = ix(HEAP_END - 1) - ix(HEAP) + 1
        /\ Cardinality(ix(VIDEO) .. ix(VIDEO + VideoPages - 1))
              = ix(VIDEO + VideoPages - 1) - ix(VIDEO) + 1
    <3>1. /\ Interval(ix(HEAP), ix(HEAP_END - 1))
          /\ Interval(ix(VIDEO), ix(VIDEO + VideoPages - 1))
      BY <1>0, <1>2
    <3> QED BY <1>2, <1>3, <3>1 DEF Interval
  <2>5. nr \in Nat
    BY <2>3, FS_CardinalityType
  <2> QED BY <1>2, <1>3, <2>2, <2>4, <2>5
<1> HIDE DEF nh, nv, nr
<1>5. /\ LowTable \in Seq(S) /\ DOMAIN LowTable = 1..1 /\ LowTable[1].index = 0
      /\ h \in Seq(S) /\ DOMAIN h = 1..nh /\ \A j \in 1..nh : h[j].index = ix(HEAP) + j - 1
      /\ v \in Seq(S) /\ DOMAIN v = 1..nv /\ \A j \in 1..nv : v[j].index = ix(VIDEO) + j - 1
      /\ r \in Seq(S) /\ DOMAIN r = 1..nr /\ \A j \in 1..nr : r[j].index = ix(RESERVED) + j - 1
  <2>1. \A s, n : n \in Nat /\ s \in {LowTable, h, v, r} /\ s = [j \in 1..n |-> s[j]] => s \in Seq(S)
    OBVIOUS
  <2>2. LowTable = [j \in 1..1 |-> LowTable[j]] /\ LowTable[1].index = 0 /\ DOMAIN LowTable = 1..1
    BY DEF LowTable
  <2>3. /\ h = [j \in 1..nh |-> h[j]] /\ DOMAIN h = 1..nh
        /\ \A j \in 1..nh : h[j].index = ix(HEAP) + j - 1
    BY DEF HeapTables, nh, ix
  <2>4. /\ v = [j \in 1..nv |-> v[j]] /\ DOMAIN v = 1..nv
        /\ \A j \in 1..nv : v[j].index = ix(VIDEO) + j - 1
    BY DEF VideoTables, nv, ix
  <2>5. /\ r = [j \in 1..nr |-> r[j]] /\ DOMAIN r = 1..nr
        /\ \A j \in 1..nr : r[j].index = ix(RESERVED) + j - 1
    BY DEF ReservedTables, nr, ix
  <2> HIDE DEF h, v, r, S
  <2> QED BY <1>4, <2>1, <2>2, <2>3, <2>4, <2>5
<1> HIDE DEF h, v, r, S
<1>6. /\ Apart(LowTable, 0, ix(HEAP)) /\ Apart(h, ix(HEAP), ix(VIDEO))
      /\ Apart(v, ix(VIDEO), ix(RESERVED)) /\ Apart(r, ix(RESERVED), ix(RESERVED) + nr)
  <2>1. Apart(LowTable, 0, ix(HEAP))
    BY <1>2, <1>3, <1>5 DEF Apart
  <2>2. Apart(h, ix(HEAP), ix(VIDEO))
    <3>1. ix(HEAP) + nh <= ix(VIDEO)
      BY <1>2, <1>3, <1>4
    <3> QED BY <1>2, <1>4, <1>5, <3>1, Consecutive
  <2>3. Apart(v, ix(VIDEO), ix(RESERVED))
    <3>1. ix(VIDEO) + nv <= ix(RESERVED)
      BY <1>2, <1>3, <1>4
    <3> QED BY <1>2, <1>4, <1>5, <3>1, Consecutive
  <2>4. Apart(r, ix(RESERVED), ix(RESERVED) + nr)
    <3>1. ix(RESERVED) + nr \in Nat /\ ix(RESERVED) + nr <= ix(RESERVED) + nr
      BY <1>2, <1>4
    <3> QED BY <1>2, <1>4, <1>5, <3>1, Consecutive
  <2> QED BY <2>1, <2>2, <2>3, <2>4
<1>7. /\ LowTable \o h \in Seq(S) /\ Apart(LowTable \o h, 0, ix(VIDEO))
      /\ 1 \in DOMAIN (LowTable \o h) /\ (LowTable \o h)[1] = LowTable[1]
      /\ \A k \in 1..nh : \E j \in DOMAIN (LowTable \o h) : (LowTable \o h)[j] = h[k]
  <2>1. ix(HEAP) <= ix(VIDEO) /\ 1 \in DOMAIN LowTable
    BY <1>2, <1>3, <1>5
  <2>2. LowTable \o h \in Seq(S) /\ Apart(LowTable \o h, 0, ix(VIDEO))
    BY <1>2, <1>3, <1>5, <1>6, <2>1, ApartJoined
  <2>3. HasBoth(LowTable \o h, LowTable, h)
    BY <1>2, <1>3, <1>5, <1>6, <2>1, ApartJoined
  <2> QED BY <1>5, <2>1, <2>2, <2>3 DEF HasBoth
<1> DEFINE lh == LowTable \o h
<1> HIDE DEF lh
<1>8. /\ lh \o v \in Seq(S) /\ Apart(lh \o v, 0, ix(RESERVED))
      /\ 1 \in DOMAIN (lh \o v) /\ (lh \o v)[1] = LowTable[1]
      /\ \A k \in 1..nh : \E j \in DOMAIN (lh \o v) : (lh \o v)[j] = h[k]
  <2>1. ix(VIDEO) <= ix(RESERVED) /\ 0 <= ix(VIDEO)
    BY <1>2, <1>3
  <2>2. lh \in Seq(S) /\ Apart(lh, 0, ix(VIDEO))
    BY <1>7 DEF lh
  <2>3. lh \o v \in Seq(S) /\ Apart(lh \o v, 0, ix(RESERVED)) /\ HasBoth(lh \o v, lh, v)
    BY <1>2, <1>5, <1>6, <2>1, <2>2, ApartJoined
  <2> QED BY <1>7, <2>3 DEF lh, HasBoth
<1> DEFINE lhv == lh \o v
<1> HIDE DEF lhv
<1>9. /\ Apart(lhv \o r, 0, ix(RESERVED) + nr)
      /\ 1 \in DOMAIN (lhv \o r) /\ (lhv \o r)[1] = LowTable[1]
      /\ \A k \in 1..nh : \E j \in DOMAIN (lhv \o r) : (lhv \o r)[j] = h[k]
  <2>1. ix(RESERVED) + nr \in Nat /\ ix(RESERVED) <= ix(RESERVED) + nr /\ 0 <= ix(RESERVED)
    BY <1>2, <1>4
  <2>2. lhv \in Seq(S) /\ Apart(lhv, 0, ix(RESERVED))
    BY <1>8 DEF lhv
  <2>3. Apart(lhv \o r, 0, ix(RESERVED) + nr) /\ HasBoth(lhv \o r, lhv, r)
    BY <1>2, <1>5, <1>6, <2>1, <2>2, ApartJoined
  <2> QED BY <1>8, <2>3 DEF lhv, HasBoth
<1>10. BootTables(m) = lhv \o r
  BY DEF BootTables, lhv, lh, h, v, r
<1>11. ASSUME NEW w \in HEAP..HEAP_END-1
       PROVE  \E k \in 1..nh : h[k].index = ix(w)
  <2>1. w \in Nat /\ HEAP <= w /\ w <= HEAP_END - 1 /\ HEAP_END - 1 \in Nat
    BY <1>1
  <2>2. ix(HEAP) <= ix(w) /\ ix(w) <= ix(HEAP_END - 1) /\ ix(w) \in Nat
    BY <1>1, <2>1, TableOrder, IndexTypes DEF ix
  <2>3. ix(w) - ix(HEAP) + 1 \in 1..nh /\ ix(HEAP) + (ix(w) - ix(HEAP) + 1) - 1 = ix(w)
    BY <1>2, <1>4, <2>2
  <2> QED BY <1>5, <2>3
<1>12. ASSUME NEW w \in HEAP..HEAP_END-1
       PROVE  \E k \in DOMAIN (lhv \o r) : (lhv \o r)[k].index = ix(w)
  BY <1>9, <1>11
<1>14. ix(RESERVED) + nr \in Nat
  BY <1>2, <1>4
<1> QED BY <1>9, <1>10, <1>12, <1>14 DEF ix

---------------------------------------------------------------------------
(* What is mapped stays mapped                                               *)

(* The tables still to be made at boot are new ones, no two of them the      *)
(* same, and the heap has all of its tables when the last is made.           *)
PlanInv ==
    /\ \A k \in DOMAIN plan : plan[k].index \notin DOMAIN tables
    /\ \A j, k \in DOMAIN plan : j # k => plan[j].index # plan[k].index
    /\ calls # <<>> => plan = <<>>
    /\ \A v \in HEAP..HEAP_END-1 :
          \/ PAGE_DIRECTORY_INDEX(v) \in DOMAIN tables
          \/ \E k \in DOMAIN plan : plan[k].index = PAGE_DIRECTORY_INDEX(v)

(* A call nests once at most, as only pages outside the heap lack a table;   *)
(* what it maps is not mapped, and its new table replaces none.              *)
StackInv ==
    /\ Len(calls) <= 2
    /\ Len(calls) = 2 => calls[1].page \in OtherPages /\ calls[2].page \notin OtherPages
    /\ \A v \in UserPages, k \in DOMAIN calls : calls[k].page = v => Translate(v) = None
    /\ \A v \in HeapPages, k \in DOMAIN calls : calls[k].table = v =>
          /\ calls[k].page \in OtherPages
          /\ PAGE_DIRECTORY_INDEX(calls[k].page) \notin DOMAIN tables
          /\ \/ Translate(v) # None
             \/ Len(calls) = 2 /\ calls[2].page = v

(* Pages the users have are mapped, or being mapped; pages for headers that  *)
(* are not needed yet are neither.                                           *)
UsersInv ==
    /\ \A v \in inuse \cup HEAP..HEAP+headers-1 :
          Translate(v) # None \/ \E k \in DOMAIN calls : calls[k].page = v
    /\ \A v \in HEAP+headers..HEAP+HeaderPages-1 :
          Translate(v) = None /\ \A k \in DOMAIN calls : calls[k].page # v

MapInv ==
    /\ VmInv /\ PlanInv
    /\ inuse \subseteq HeapPages /\ headers \in 0..HeaderPages
    /\ ~stopped => StackInv /\ UsersInv
(* The heap's pages, its headers', and the others.                           *)
LEMMA TwoKinds ==
  /\ HeapPages \subseteq HEAP..HEAP_END-1 /\ HEAP..HEAP+HeaderPages-1 \subseteq HEAP..HEAP_END-1
  /\ HeapPages \cap HEAP..HEAP+HeaderPages-1 = {}
  /\ \A v \in UserPages : v \in OtherPages \/ v \in HEAP..HEAP_END-1
  /\ \A v \in OtherPages : v \notin HEAP..HEAP_END-1
<1>1. /\ HEAP \in Nat /\ HEAP_END \in Nat /\ HeaderPages \in Nat /\ HEAP + HeaderPages <= HEAP_END
      /\ HeapPages \subseteq HEAP + HeaderPages .. HEAP_END - 1
      /\ OtherPages \cap HEAP..HEAP_END-1 = {}
  BY Regions, Zenon
<1>2. /\ HeapPages \subseteq HEAP..HEAP_END-1 /\ HEAP..HEAP+HeaderPages-1 \subseteq HEAP..HEAP_END-1
      /\ HeapPages \cap HEAP..HEAP+HeaderPages-1 = {}
  BY <1>1
<1> QED BY <1>1, <1>2 DEF UserPages

(* Once the tables are made, only pages outside the heap lack one.           *)
LEMMA HeapHasTables ==
  ASSUME PlanInv, plan = <<>>, NEW v \in UserPages,
         PAGE_DIRECTORY_INDEX(v) \notin DOMAIN tables
  PROVE  v \in OtherPages
BY TwoKinds DEF PlanInv

(* A new table without pages of the users changes no translation of theirs.  *)
LEMMA NewTable ==
  ASSUME NEW i, i \notin DOMAIN tables, NEW t,
         tables' = [j \in {i} \cup DOMAIN tables |-> IF j = i THEN t ELSE tables[j]],
         \A v \in UserPages :
            PAGE_DIRECTORY_INDEX(v) = i => t.page[PAGE_TABLE_INDEX(v)] = None
  PROVE  /\ \A v \in UserPages : Translate(v)' = Translate(v)
         /\ DOMAIN tables' = {i} \cup DOMAIN tables /\ tables'[i] = t
         /\ \A j \in DOMAIN tables : tables'[j] = tables[j]
BY DEF Translate, PAGE_DIRECTORY_INDEX, PAGE_TABLE_INDEX

(* The table for a page that lacks one, whose call is then the only one.     *)
LEMMA LackingTable ==
  ASSUME MapInv, ~stopped, calls # <<>>, ~HasTable
  PROVE  /\ Len(calls) = 1 /\ calls[1] = Current /\ Current.page \in OtherPages
         /\ NextPage = Current.page
<1>1. /\ CallsTyped /\ PlanInv /\ plan = <<>> /\ StackInv
  BY DEF MapInv, VmInv, Sound, PlanInv
<1>2. /\ Current = calls[Len(calls)] /\ Len(calls) \in DOMAIN calls
      /\ NextPage = Current.page /\ NextPage \in UserPages
  BY <1>1, NextIsPage
<1>3. NextPage \in OtherPages
  BY <1>1, <1>2, HeapHasTables DEF HasTable
<1>4. Len(calls) # 2
  BY <1>1, <1>2, <1>3 DEF StackInv
<1>5. Len(calls) \in Nat /\ DOMAIN calls = 1..Len(calls)
  BY <1>1 DEF CallsTyped
<1>6. Len(calls) = 1
  BY <1>1, <1>2, <1>4, <1>5 DEF StackInv
<1> QED BY <1>2, <1>3, <1>6

(* Making a table at boot.                                                   *)
LEMMA MakingTable ==
  ASSUME MapInv, MmVirtualCreatePageTable
  PROVE  /\ PlanInv' /\ calls' = <<>>
         /\ \A v \in UserPages : Translate(v)' = Translate(v)
         /\ \A j \in DOMAIN tables : j \in DOMAIN tables' /\ tables'[j] = tables[j]
<1> DEFINE t == Head(plan)
<1>1. PICK f \in Found(MEMORY_INIT_MASK, 1) :
        tables' = [i \in {t.index} \cup DOMAIN tables |->
                     IF i = t.index THEN [frame |-> f, at |-> f, page |-> t.page]
                     ELSE tables[i]]
  BY DEF MmVirtualCreatePageTable, WithTable
<1>2. /\ plan # <<>> /\ plan \in Seq(FreshTables) /\ plan' = Tail(plan) /\ calls' = calls
      /\ PlanInv
  BY DEF MapInv, VmInv, MmVirtualCreatePageTable
<1>3. t = plan[1] /\ 1 \in DOMAIN plan /\ t \in FreshTables
  BY <1>2
<1>4. /\ Len(plan) \in Nat /\ DOMAIN plan = 1..Len(plan)
      /\ DOMAIN plan' = 1..Len(plan)-1 /\ \A k \in DOMAIN plan' : plan'[k] = plan[k+1]
  BY <1>2
<1> HIDE DEF t
<1>5. t.index \notin DOMAIN tables
  BY <1>2, <1>3 DEF PlanInv
<1>6. /\ \A v \in UserPages : Translate(v)' = Translate(v)
      /\ DOMAIN tables' = {t.index} \cup DOMAIN tables
      /\ \A j \in DOMAIN tables : tables'[j] = tables[j]
  <2>1. \A v \in UserPages :
          PAGE_DIRECTORY_INDEX(v) = t.index => t.page[PAGE_TABLE_INDEX(v)] = None
    BY <1>3 DEF FreshTables
  <2> DEFINE u == [frame |-> f, at |-> f, page |-> t.page]
  <2>2. u.page = t.page
    OBVIOUS
  <2>3. tables' = [i \in {t.index} \cup DOMAIN tables |-> IF i = t.index THEN u ELSE tables[i]]
    BY <1>1
  <2> HIDE DEF u
  <2> QED BY <1>5, <2>1, <2>2, <2>3, NewTable
<1>7. PlanInv'
  <2>1. \A k \in DOMAIN plan' : k + 1 \in DOMAIN plan /\ k + 1 # 1 /\ plan'[k] = plan[k+1]
    BY <1>4
  <2>2. \A k \in DOMAIN plan' : plan'[k].index \notin DOMAIN tables'
    BY <1>2, <1>3, <1>6, <2>1 DEF PlanInv
  <2>3. ASSUME NEW j \in DOMAIN plan', NEW k \in DOMAIN plan', j # k
        PROVE  plan'[j].index # plan'[k].index
    <3>1. j + 1 # k + 1
      BY <1>4, <2>3
    <3> QED BY <1>2, <2>1, <3>1 DEF PlanInv
  <2>4. calls' = <<>>
    BY <1>2 DEF PlanInv
  <2>5. ASSUME NEW v \in HEAP..HEAP_END-1
        PROVE  \/ PAGE_DIRECTORY_INDEX(v) \in DOMAIN tables'
               \/ \E k \in DOMAIN plan' : plan'[k].index = PAGE_DIRECTORY_INDEX(v)
    <3>1. CASE PAGE_DIRECTORY_INDEX(v) \in DOMAIN tables
      BY <1>6, <3>1
    <3>2. ASSUME NEW k \in DOMAIN plan, plan[k].index = PAGE_DIRECTORY_INDEX(v)
          PROVE  \/ PAGE_DIRECTORY_INDEX(v) \in DOMAIN tables'
                 \/ \E j \in DOMAIN plan' : plan'[j].index = PAGE_DIRECTORY_INDEX(v)
      <4>1. CASE k = 1
        BY <1>3, <1>6, <3>2, <4>1
      <4>2. CASE k # 1
        <5>1. k - 1 \in DOMAIN plan' /\ (k - 1) + 1 = k
          BY <1>4, <4>2
        <5> QED BY <1>4, <3>2, <5>1
      <4> QED BY <4>1, <4>2
    <3> QED BY <1>2, <3>1, <3>2 DEF PlanInv
  <2> QED BY <2>2, <2>3, <2>4, <2>5 DEF PlanInv, PAGE_DIRECTORY_INDEX
<1> QED BY <1>2, <1>6, <1>7 DEF PlanInv

LEMMA PlanStays ==
  ASSUME PlanInv, plan' = plan, \A j \in DOMAIN tables : j \in DOMAIN tables',
         plan = <<>> \/ DOMAIN tables' = DOMAIN tables, calls' # <<>> => plan = <<>>
  PROVE  PlanInv'
BY DEF PlanInv, PAGE_DIRECTORY_INDEX

(* The pages of headers, those in use and the others. *)
LEMMA HeaderRanges ==
  ASSUME inuse \subseteq HeapPages, headers \in 0..HeaderPages
  PROVE  /\ inuse \cup HEAP..HEAP+headers-1 \subseteq UserPages
         /\ HEAP+headers..HEAP+HeaderPages-1 \subseteq UserPages
<1>1. HEAP \in Nat /\ HeaderPages \in Nat
  BY Regions, Zenon
<1>2. /\ HEAP..HEAP+headers-1 \subseteq HEAP..HEAP+HeaderPages-1
      /\ HEAP+headers..HEAP+HeaderPages-1 \subseteq HEAP..HEAP+HeaderPages-1
  BY <1>1
<1> QED BY <1>2 DEF UserPages

(* The stack and the users after a step that maps nothing and begins no call.*)
LEMMA SameCalls ==
  ASSUME StackInv, UsersInv, CallsTyped, Len(calls') = Len(calls), DOMAIN calls' = DOMAIN calls,
         \A k \in DOMAIN calls : /\ calls'[k].page = calls[k].page
                                 /\ calls'[k].table = calls[k].table,
         \A v \in UserPages : Translate(v)' = Translate(v),
         DOMAIN tables' = DOMAIN tables,
         headers' = headers, inuse' \subseteq inuse, inuse \subseteq HeapPages,
         headers \in 0..HeaderPages
  PROVE  StackInv' /\ UsersInv'
<1>1. DOMAIN calls = 1..Len(calls) /\ Len(calls) \in Nat
  BY DEF CallsTyped
<1>2. UserPages' = UserPages /\ HeapPages \subseteq UserPages
  BY DEF UserPages
<1>3. StackInv'
  <2>1. \A v \in UserPages, k \in DOMAIN calls' : calls'[k].page = v => Translate(v)' = None
    BY DEF StackInv
  <2>2. Len(calls') = 2 => calls'[1].page \in OtherPages /\ calls'[2].page \notin OtherPages
    BY <1>1 DEF StackInv
  <2>3. ASSUME NEW v \in HeapPages, NEW k \in DOMAIN calls', calls'[k].table = v
        PROVE  /\ calls'[k].page \in OtherPages
               /\ PAGE_DIRECTORY_INDEX(calls'[k].page) \notin DOMAIN tables'
               /\ \/ Translate(v)' # None
                  \/ Len(calls') = 2 /\ calls'[2].page = v
    BY <1>1, <1>2, <2>3 DEF StackInv
  <2>4. Len(calls') <= 2
    BY DEF StackInv
  <2> QED BY <1>2, <2>1, <2>2, <2>3, <2>4 DEF StackInv, PAGE_DIRECTORY_INDEX
<1>4. UsersInv'
  <2>2. /\ inuse \cup HEAP..HEAP+headers-1 \subseteq UserPages
        /\ HEAP+headers..HEAP+HeaderPages-1 \subseteq UserPages
    BY HeaderRanges
  <2>3. \A v \in inuse' \cup HEAP..HEAP+headers'-1 :
          Translate(v)' # None \/ \E k \in DOMAIN calls' : calls'[k].page = v
    BY <2>2 DEF UsersInv
  <2>4. \A v \in HEAP+headers'..HEAP+HeaderPages-1 :
          Translate(v)' = None /\ \A k \in DOMAIN calls' : calls'[k].page # v
    BY <2>2 DEF UsersInv
  <2> QED BY <2>3, <2>4 DEF UsersInv
<1> QED BY <1>3, <1>4

(* A page is asked for that is mapped already. *)
LEMMA PageThere ==
  ASSUME StackInv, UsersInv, NEW stack, calls' = stack, Len(stack) = Len(calls),
         DOMAIN stack = DOMAIN calls, \A k \in DOMAIN calls : stack[k].page = calls[k].page,
         NEW p \in UserPages, Translate(p) # None, tables' = tables, Len(calls) \in {0, 1},
         \A v \in HeapPages, k \in DOMAIN stack : stack[k].table = v =>
            /\ stack[k].page \in OtherPages
            /\ PAGE_DIRECTORY_INDEX(stack[k].page) \notin DOMAIN tables
            /\ \/ Translate(v) # None
               \/ v = p /\ Len(stack) = 1,
         inuse' \subseteq inuse \cup {p},
         HEAP..HEAP+headers'-1 \subseteq HEAP..HEAP+headers-1 \cup {p},
         HEAP+headers'..HEAP+HeaderPages-1 \subseteq HEAP+headers..HEAP+HeaderPages-1 \ {p}
  PROVE  StackInv' /\ UsersInv'
<1>1. DOMAIN calls' = DOMAIN calls /\ \A k \in DOMAIN calls : calls'[k].page = calls[k].page
  OBVIOUS
<1>2. \A v : Translate(v)' = Translate(v)
  BY DEF Translate, PAGE_DIRECTORY_INDEX, PAGE_TABLE_INDEX
<1>3. UserPages' = UserPages
  BY DEF UserPages
<1>4. StackInv'
  <2>1. \A v \in UserPages, k \in DOMAIN calls' : calls'[k].page = v => Translate(v)' = None
    BY <1>1, <1>2 DEF StackInv
  <2>2. Len(calls') <= 2 /\ Len(calls') # 2
    OBVIOUS
  <2>3. ASSUME NEW v \in HeapPages, NEW k \in DOMAIN calls', calls'[k].table = v
        PROVE  /\ calls'[k].page \in OtherPages
               /\ PAGE_DIRECTORY_INDEX(calls'[k].page) \notin DOMAIN tables'
               /\ Translate(v)' # None
    BY <1>2, <2>3
  <2> QED BY <1>3, <2>1, <2>2, <2>3 DEF StackInv, PAGE_DIRECTORY_INDEX
<1>5. UsersInv'
  <2>1. \A v \in inuse' \cup HEAP..HEAP+headers'-1 :
          Translate(v)' # None \/ \E k \in DOMAIN calls' : calls'[k].page = v
    BY <1>1, <1>2 DEF UsersInv
  <2>2. \A v \in HEAP+headers'..HEAP+HeaderPages-1 :
          Translate(v)' = None /\ \A k \in DOMAIN calls' : calls'[k].page # v
    BY <1>1, <1>2 DEF UsersInv
  <2> QED BY <2>1, <2>2 DEF UsersInv
<1> QED BY <1>4, <1>5

(* A page is asked for, and a call begun to map it if it is not mapped yet.  *)
LEMMA PageAskedFor ==
  ASSUME StackInv, UsersInv, calls \in Seq(Activations), NEW stack \in Seq(Activations),
         Len(stack) = Len(calls), \A k \in DOMAIN calls : stack[k].page = calls[k].page,
         NEW p \in UserPages, NEW mask, tables' = tables,
         calls' = IF Translate(p) = None THEN Append(stack, Activation(p, 1, mask)) ELSE stack,
         \/ Len(calls) = 0
         \/ Len(calls) = 1 /\ calls[1].page \in OtherPages /\ p \notin OtherPages,
         \A v \in HeapPages, k \in DOMAIN stack : stack[k].table = v =>
            /\ stack[k].page \in OtherPages
            /\ PAGE_DIRECTORY_INDEX(stack[k].page) \notin DOMAIN tables
            /\ \/ Translate(v) # None
               \/ v = p /\ Len(stack) = 1,
         inuse' \subseteq inuse \cup {p},
         HEAP..HEAP+headers'-1 \subseteq HEAP..HEAP+headers-1 \cup {p},
         HEAP+headers'..HEAP+HeaderPages-1 \subseteq HEAP+headers..HEAP+HeaderPages-1 \ {p}
  PROVE  StackInv' /\ UsersInv'
<1> DEFINE c == Activation(p, 1, mask)
<1>1. /\ DOMAIN calls = 1..Len(calls) /\ DOMAIN stack = DOMAIN calls
      /\ Len(calls) \in {0, 1}
  <2>1. DOMAIN calls = 1..Len(calls) /\ DOMAIN stack = 1..Len(stack)
    OBVIOUS
  <2> QED BY <2>1
<1>2. c.page = p /\ \A v \in HeapPages : c.table # v
  <2>1. \A v \in HeapPages : v # None
    BY UserPagesAreNumbers, NoneIsNoNumber DEF UserPages
  <2> QED BY <2>1 DEF Activation
<1>3. \A v : Translate(v)' = Translate(v)
  BY DEF Translate, PAGE_DIRECTORY_INDEX, PAGE_TABLE_INDEX
<1>4. HeapPages \subseteq UserPages /\ UserPages' = UserPages
  BY DEF UserPages
<1> HIDE DEF c
<1>5. CASE Translate(p) = None
  <2>1. /\ calls' = Append(stack, c)
        /\ Len(calls') = Len(calls) + 1 /\ DOMAIN calls' = 1..Len(calls)+1
        /\ calls'[Len(calls)+1] = c
        /\ \A k \in DOMAIN calls : calls'[k] = stack[k] /\ calls'[k].page = calls[k].page
    BY <1>1, <1>5 DEF c
  <2>2. \A k \in DOMAIN calls' : k \in DOMAIN calls \/ k = Len(calls) + 1
    BY <1>1, <2>1
  <2>3. StackInv'
    <3>1. \A v \in UserPages, k \in DOMAIN calls' : calls'[k].page = v => Translate(v)' = None
      BY <1>2, <1>3, <1>5, <2>1, <2>2 DEF StackInv
    <3>2. Len(calls') = 2 => calls'[1].page \in OtherPages /\ calls'[2].page \notin OtherPages
      BY <1>1, <1>2, <2>1
    <3>3. ASSUME NEW v \in HeapPages, NEW k \in DOMAIN calls', calls'[k].table = v
          PROVE  /\ calls'[k].page \in OtherPages
                 /\ PAGE_DIRECTORY_INDEX(calls'[k].page) \notin DOMAIN tables'
                 /\ \/ Translate(v)' # None
                    \/ Len(calls') = 2 /\ calls'[2].page = v
      <4>1. k \in DOMAIN calls
        BY <1>2, <2>1, <2>2, <3>3
      <4>2. calls'[k] = stack[k] /\ k \in DOMAIN stack
        BY <1>1, <2>1, <4>1
      <4> QED BY <1>1, <1>2, <1>3, <2>1, <3>3, <4>2
    <3>4. Len(calls') <= 2
      BY <1>1, <2>1
    <3> QED BY <1>4, <3>1, <3>2, <3>3, <3>4 DEF StackInv, PAGE_DIRECTORY_INDEX
  <2>4. ASSUME NEW v, (v = p) \/ \E k \in DOMAIN calls : calls[k].page = v
        PROVE  \E k \in DOMAIN calls' : calls'[k].page = v
    <3>1. \A k \in DOMAIN calls : k \in DOMAIN calls'
      BY <1>1, <2>1
    <3>2. Len(calls) + 1 \in DOMAIN calls'
      BY <1>1, <2>1
    <3> QED BY <1>2, <2>1, <2>4, <3>1, <3>2
  <2>5. UsersInv'
    <3>1. \A v \in inuse' \cup HEAP..HEAP+headers'-1 :
            Translate(v)' # None \/ \E k \in DOMAIN calls' : calls'[k].page = v
      BY <1>3, <2>4 DEF UsersInv
    <3>2. \A v \in HEAP+headers'..HEAP+HeaderPages-1 :
            Translate(v)' = None /\ \A k \in DOMAIN calls' : calls'[k].page # v
      BY <1>2, <1>3, <2>1, <2>2 DEF UsersInv
    <3> QED BY <3>1, <3>2 DEF UsersInv
  <2> QED BY <2>3, <2>5
<1>6. CASE Translate(p) # None
  <2>1. calls' = stack
    BY <1>6
  <2> QED BY <1>1, <1>6, <2>1, PageThere
<1> QED BY <1>5, <1>6

LEMMA Running ==
  ASSUME MapInv, ~stopped
  PROVE  /\ CallsTyped /\ calls \in Seq(Activations) /\ TablesTyped /\ PagesOwn
         /\ StackInv /\ UsersInv /\ PlanInv
         /\ inuse \subseteq HeapPages /\ headers \in 0..HeaderPages
BY DEF MapInv, VmInv, Sound, CallsTyped

(* A call that waits for a table asks the heap for a page.                   *)
LEMMA AskingForTable ==
  ASSUME MapInv, AskForTable
  PROVE  StackInv' /\ UsersInv' /\ PlanInv'
<1> DEFINE c(q) == [Current EXCEPT !.table = q]
           stack(q) == Append(Front(calls), c(q))
<1>1. /\ ~stopped /\ calls # <<>> /\ ~HasTable /\ Current.table = None
      /\ tables' = tables /\ plan' = plan /\ headers' = headers
  BY DEF AskForTable, NeedsTable
<1>2. PICK q \in HeapPages :
        /\ inuse' = inuse \cup {q}
        /\ calls' = IF Translate(q) = None THEN Append(stack(q), Activation(q, 1, AnyMask))
                    ELSE stack(q)
  BY DEF AskForTable, HeapCommitPages, Replaced
<1>3. /\ Len(calls) = 1 /\ calls[1] = Current /\ Current.page \in OtherPages
      /\ NextPage = Current.page
  BY <1>1, LackingTable
<1>4. /\ calls \in Seq(Activations) /\ StackInv /\ UsersInv /\ PlanInv
      /\ headers \in 0..HeaderPages /\ inuse \subseteq HeapPages
  BY <1>1, Running
<1>5. q \in UserPages /\ q \notin OtherPages /\ q \notin HEAP..HEAP+HeaderPages-1
  BY TwoKinds DEF UserPages
<1>6. c(q) \in Activations /\ c(q).page = Current.page /\ c(q).table = q
  <2>1. Current \in Activations
    BY <1>1, <1>4, TopOfStack DEF Current
  <2> QED BY <2>1 DEF Activations
<1> HIDE DEF c
<1>7. /\ stack(q) \in Seq(Activations) /\ Len(stack(q)) = 1
      /\ \A k \in 1..1 : stack(q)[k] = c(q)
  BY <1>1, <1>3, <1>4, <1>6, NewTop
<1> HIDE DEF stack
<1>8. DOMAIN calls = 1..1 /\ DOMAIN stack(q) = 1..1
  BY <1>3, <1>4, <1>7
<1>9. PAGE_DIRECTORY_INDEX(Current.page) \notin DOMAIN tables
  BY <1>1, <1>3 DEF HasTable
<1>10. StackInv' /\ UsersInv'
  <2>1. \A k \in DOMAIN calls : stack(q)[k].page = calls[k].page
    BY <1>3, <1>6, <1>7, <1>8
  <2>2. \A v \in HeapPages, k \in DOMAIN stack(q) : stack(q)[k].table = v =>
            /\ stack(q)[k].page \in OtherPages
            /\ PAGE_DIRECTORY_INDEX(stack(q)[k].page) \notin DOMAIN tables
            /\ v = q /\ Len(stack(q)) = 1
    BY <1>3, <1>6, <1>7, <1>8, <1>9
  <2>3. /\ inuse' \subseteq inuse \cup {q}
        /\ HEAP..HEAP+headers'-1 \subseteq HEAP..HEAP+headers-1 \cup {q}
        /\ HEAP+headers'..HEAP+HeaderPages-1 \subseteq HEAP+headers..HEAP+HeaderPages-1 \ {q}
    <3>1. HEAP+headers..HEAP+HeaderPages-1 \subseteq HEAP..HEAP+HeaderPages-1
      <4>1. HEAP \in Nat /\ HeaderPages \in Nat
        BY Regions, Zenon
      <4> QED BY <1>4, <4>1
    <3> QED BY <1>1, <1>2, <1>5, <3>1
  <2>4. Len(calls) = 1 /\ calls[1].page \in OtherPages /\ q \notin OtherPages
    BY <1>3, <1>5
  <2>5. Len(stack(q)) = Len(calls)
    BY <1>3, <1>7
  <2> QED BY <1>1, <1>2, <1>4, <1>5, <1>7, <2>1, <2>2, <2>3, <2>4, <2>5, PageAskedFor
<1>11. PlanInv'
  <2>1. plan = <<>>
    BY <1>1, <1>4 DEF PlanInv
  <2> QED BY <1>1, <1>4, <2>1, PlanStays
<1> QED BY <1>10, <1>11

(* The steps of the users. *)
LEMMA UsersSteps ==
  ASSUME SinglePages, MapInv, ~stopped,
         \/ HeapSAllocator
         \/ \E q \in HeapPages : (\E mask \in Masks : kmalloc(q, mask))
         \/ \E v \in OtherPages, n \in PageCounts : AddressSpaceMap(v, n, AnyMask)
  PROVE  StackInv' /\ UsersInv' /\ PlanInv'
<1>1. /\ calls \in Seq(Activations) /\ StackInv /\ UsersInv /\ PlanInv
      /\ headers \in 0..HeaderPages /\ inuse \subseteq HeapPages
  BY Running
<1>2. /\ tables' = tables /\ plan' = plan /\ plan = <<>>
  BY DEF HeapSAllocator, kmalloc, AddressSpaceMap, Allocating, Paging
<1>3. HEAP \in Nat /\ HeaderPages \in Nat
  BY Regions, Zenon
<1>4. \/ Len(calls) = 0
      \/ Len(calls) = 1 /\ calls[1].page \in OtherPages /\ calls[1].table = None
  <2>1. calls = <<>> \/ NeedsTable
    BY DEF HeapSAllocator, kmalloc, AddressSpaceMap, Allocating
  <2> QED BY <2>1, LackingTable DEF NeedsTable
<1>5. ASSUME NEW p \in UserPages, NEW mask, Len(calls) = 0 \/ p \notin OtherPages,
             calls' = IF Translate(p) = None THEN Append(calls, Activation(p, 1, mask)) ELSE calls,
             inuse' \subseteq inuse \cup {p},
             HEAP..HEAP+headers'-1 \subseteq HEAP..HEAP+headers-1 \cup {p},
             HEAP+headers'..HEAP+HeaderPages-1 \subseteq HEAP+headers..HEAP+HeaderPages-1 \ {p}
      PROVE  StackInv' /\ UsersInv'
  <2>1. \A v \in HeapPages, k \in DOMAIN calls : calls[k].table # v
    <3>1. \A v \in HeapPages : v # None
      BY UserPagesAreNumbers, NoneIsNoNumber DEF UserPages
    <3>2. \A k \in DOMAIN calls : k = 1 /\ calls[1].table = None
      BY <1>1, <1>4
    <3> QED BY <3>1, <3>2
  <2> QED BY <1>1, <1>2, <1>4, <1>5, <2>1, PageAskedFor
<1>6. PlanInv'
  BY <1>1, <1>2, PlanStays
<1>7. CASE HeapSAllocator
  <2> DEFINE p == HEAP + headers
  <2>1. /\ headers < HeaderPages /\ headers' = headers + 1 /\ inuse' = inuse
        /\ calls' = Append(calls, Activation(p, 1, AnyMask))
    BY <1>7 DEF HeapSAllocator
  <2>2. p \in HEAP..HEAP+HeaderPages-1 /\ p \in HEAP+headers..HEAP+HeaderPages-1
    BY <1>1, <1>3, <2>1
  <2>3. p \in UserPages /\ p \notin OtherPages /\ Translate(p) = None
    BY <1>1, <2>2, TwoKinds DEF UserPages, UsersInv
  <2>4. /\ HEAP..HEAP+headers'-1 \subseteq HEAP..HEAP+headers-1 \cup {p}
        /\ HEAP+headers'..HEAP+HeaderPages-1 \subseteq HEAP+headers..HEAP+HeaderPages-1 \ {p}
    BY <1>1, <1>3, <2>1
  <2> HIDE DEF p
  <2> QED BY <1>5, <1>6, <2>1, <2>3, <2>4
<1>8. ASSUME NEW p \in HeapPages, NEW mask \in Masks, kmalloc(p, mask)
      PROVE  StackInv' /\ UsersInv'
  <2>1. /\ headers' = headers /\ inuse' = inuse \cup {p} /\ calls = <<>>
        /\ calls' = IF Translate(p) = None THEN Append(calls, Activation(p, 1, mask)) ELSE calls
    BY <1>8 DEF kmalloc, HeapCommitPages
  <2>2. p \in UserPages /\ p \notin OtherPages /\ p \notin HEAP..HEAP+HeaderPages-1
    BY TwoKinds DEF UserPages
  <2>3. HEAP+headers..HEAP+HeaderPages-1 \subseteq HEAP..HEAP+HeaderPages-1
    BY <1>1, <1>3
  <2> QED BY <1>5, <2>1, <2>2, <2>3
<1>9. ASSUME NEW v \in OtherPages, NEW n \in PageCounts, AddressSpaceMap(v, n, AnyMask)
      PROVE  StackInv' /\ UsersInv'
  <2>1. v \in UserPages /\ v \in Nat /\ v \notin HEAP..HEAP+HeaderPages-1
    BY TwoKinds, UserPagesAreNumbers DEF UserPages
  <2>2. n = 1 /\ v..v+n-1 = {v}
    BY <2>1 DEF SinglePages
  <2>3. /\ headers' = headers /\ inuse' = inuse /\ calls = <<>> /\ Translate(v) = None
        /\ calls' = <<Activation(v, 1, AnyMask)>>
    BY <1>9, <2>2 DEF AddressSpaceMap
  <2>4. calls' = Append(calls, Activation(v, 1, AnyMask)) /\ Len(calls) = 0
    BY <2>3
  <2>5. HEAP+headers..HEAP+HeaderPages-1 \subseteq HEAP..HEAP+HeaderPages-1
    BY <1>1, <1>3
  <2> QED BY <1>5, <2>1, <2>3, <2>4, <2>5
<1> QED BY <1>6, <1>7, <1>8, <1>9

(* The frame a call takes changes neither its page nor its table.            *)
LEMMA TakingKeeps ==
  ASSUME MapInv, TakeFrame
  PROVE  StackInv' /\ UsersInv' /\ PlanInv'
<1> DEFINE first(f) == [Current EXCEPT !.base = f, !.frame = f]
           later(f) == [Current EXCEPT !.frame = f]
<1>1. /\ CallsTyped /\ calls \in Seq(Activations) /\ StackInv /\ UsersInv /\ PlanInv
      /\ headers \in 0..HeaderPages /\ inuse \subseteq HeapPages /\ calls # <<>>
  <2>1. ~stopped /\ calls # <<>>
    BY Zenon DEF TakeFrame
  <2> QED BY <2>1, Running
<1>2. tables' = tables /\ plan' = plan /\ headers' = headers /\ inuse' = inuse
  BY Zenon DEF TakeFrame
<1>3. /\ Current = calls[Len(calls)] /\ Len(calls) \in DOMAIN calls /\ Current \in Activations
  BY <1>1, NextIsPage
<1>4. PICK c : /\ calls' = Append(Front(calls), c)
               /\ c.page = Current.page /\ c.table = Current.table
  <2>1. \/ \E f : calls' = Append(Front(calls), first(f))
        \/ calls' = Append(Front(calls), later(Current.base + Current.done))
    BY Zenon DEF TakeFrame, Replaced
  <2>2. \A f : /\ first(f).page = Current.page /\ first(f).table = Current.table
              /\ later(f).page = Current.page /\ later(f).table = Current.table
    BY <1>3 DEF Activations
  <2> HIDE DEF first, later
  <2> QED BY <2>1, <2>2
<1> HIDE DEF first, later
<1>5. /\ Len(Front(calls)) = Len(calls) - 1 /\ Front(calls) \in Seq(Activations)
      /\ \A k \in 1..Len(calls)-1 : Front(calls)[k] = calls[k]
      /\ DOMAIN calls = 1..Len(calls) /\ Len(calls) \in Nat
  BY <1>1, TopOfStack
<1> HIDE DEF Front
<1>6. /\ Len(calls') = Len(calls) /\ DOMAIN calls' = DOMAIN calls
      /\ \A k \in DOMAIN calls : calls'[k] = IF k = Len(calls) THEN c ELSE calls[k]
  BY <1>4, <1>5
<1>7. /\ Len(calls') = Len(calls) /\ DOMAIN calls' = DOMAIN calls
      /\ \A k \in DOMAIN calls : /\ calls'[k].page = calls[k].page
                                /\ calls'[k].table = calls[k].table
  BY <1>3, <1>4, <1>6
<1>8. \A v : Translate(v)' = Translate(v)
  BY <1>2 DEF Translate, PAGE_DIRECTORY_INDEX, PAGE_TABLE_INDEX
<1>9. StackInv' /\ UsersInv'
  BY <1>1, <1>2, <1>7, <1>8, SameCalls
<1>10. calls' # <<>> => plan = <<>>
  BY <1>1 DEF PlanInv
<1> QED BY <1>1, <1>2, <1>9, <1>10, PlanStays

(* The call that has waited for a table puts it where there is none.         *)
LEMMA TableInstalled ==
  ASSUME MapInv, InstallTable
  PROVE  /\ StackInv' /\ UsersInv' /\ PlanInv'
         /\ Translate(Current.table) # None /\ Current.table \in HeapPages
         /\ PAGE_DIRECTORY_INDEX(NextPage) \notin DOMAIN tables
         /\ DOMAIN tables' = DOMAIN tables \cup {PAGE_DIRECTORY_INDEX(NextPage)}
         /\ tables'[PAGE_DIRECTORY_INDEX(NextPage)] = TableAt(Current.table)
         /\ \A j \in DOMAIN tables : tables'[j] = tables[j]
         /\ \A v \in UserPages : Translate(v)' = Translate(v)
<1> DEFINE c == [Current EXCEPT !.table = None]
           i == PAGE_DIRECTORY_INDEX(NextPage)
           t == TableAt(Current.table)
<1>1. /\ CallsTyped /\ calls \in Seq(Activations) /\ StackInv /\ UsersInv /\ PlanInv
      /\ headers \in 0..HeaderPages /\ inuse \subseteq HeapPages /\ calls # <<>>
      /\ Current.table # None
  BY Running DEF InstallTable
<1>2. /\ tables' = [j \in {i} \cup DOMAIN tables |-> IF j = i THEN t ELSE tables[j]]
      /\ plan' = plan /\ headers' = headers /\ inuse' = inuse
      /\ calls' = Append(Front(calls), c)
  BY DEF InstallTable, WithTable, Replaced
<1>3. /\ Current = calls[Len(calls)] /\ Len(calls) \in DOMAIN calls /\ Current \in Activations
      /\ NextPage = Current.page
  BY <1>1, NextIsPage
<1>4. Current.table \in HeapPages
  BY <1>1, <1>3 DEF Activations
<1>5. /\ Current.page \in OtherPages /\ i \notin DOMAIN tables
      /\ Translate(Current.table) # None \/ Len(calls) = 2
  BY <1>1, <1>3, <1>4 DEF StackInv
<1>6. Len(calls) # 2
  BY <1>1, <1>3, <1>5 DEF StackInv
<1>7. Len(calls) = 1
  <2>1. DOMAIN calls = 1..Len(calls) /\ Len(calls) \in Nat /\ Len(calls) <= 2
    BY <1>1 DEF StackInv
  <2> QED BY <1>3, <1>6, <2>1
<1>8. t.page = Empty
  BY DEF TableAt
<1>9. \A v \in UserPages : PAGE_DIRECTORY_INDEX(v) = i => t.page[PAGE_TABLE_INDEX(v)] = None
  BY <1>8, UserPagesAreNumbers, IndexTypes DEF Empty
<1>10. c \in Activations /\ c.page = Current.page /\ c.table = None
  BY <1>3 DEF Activations
<1> HIDE DEF c, i, t
<1>11. /\ \A v \in UserPages : Translate(v)' = Translate(v)
       /\ DOMAIN tables' = {i} \cup DOMAIN tables /\ tables'[i] = t
       /\ \A j \in DOMAIN tables : tables'[j] = tables[j]
  BY <1>2, <1>5, <1>9, NewTable
<1>12. Len(calls') = 1 /\ DOMAIN calls' = 1..1 /\ calls'[1] = c
  <2>1. /\ calls' \in Seq(Activations) /\ Len(calls') = 1
        /\ \A k \in 1..1 : calls'[k] = c
    BY <1>1, <1>2, <1>7, <1>10, NewTop
  <2> QED BY <2>1
<1>13. DOMAIN calls = 1..1 /\ calls[1] = Current
  BY <1>1, <1>3, <1>7
<1>14. StackInv'
  <2>1. \A v \in UserPages, k \in DOMAIN calls' : calls'[k].page = v => Translate(v)' = None
    BY <1>1, <1>10, <1>11, <1>12, <1>13 DEF StackInv
  <2>2. \A v \in HeapPages, k \in DOMAIN calls' : calls'[k].table # v
    <3>1. \A v \in HeapPages : v # None
      BY UserPagesAreNumbers, NoneIsNoNumber DEF UserPages
    <3> QED BY <1>10, <1>12, <3>1
  <2>3. UserPages' = UserPages
    BY DEF UserPages
  <2> QED BY <1>12, <2>1, <2>2, <2>3 DEF StackInv, PAGE_DIRECTORY_INDEX
<1>15. UsersInv'
  <2>1. /\ inuse \cup HEAP..HEAP+headers-1 \subseteq UserPages
        /\ HEAP+headers..HEAP+HeaderPages-1 \subseteq UserPages
    BY <1>1, HeaderRanges
  <2>2. /\ \A v : (\E k \in DOMAIN calls' : calls'[k].page = v) <=> Current.page = v
        /\ \A v : (\E k \in DOMAIN calls : calls[k].page = v) <=> Current.page = v
    BY <1>10, <1>12, <1>13
  <2>3. \A v \in inuse' \cup HEAP..HEAP+headers'-1 :
          Translate(v)' # None \/ \E k \in DOMAIN calls' : calls'[k].page = v
    BY <1>1, <1>2, <1>11, <2>1, <2>2 DEF UsersInv
  <2>4. ASSUME NEW v \in HEAP+headers'..HEAP+HeaderPages-1
        PROVE  Translate(v)' = None /\ \A k \in DOMAIN calls' : calls'[k].page # v
    <3>1. Translate(v) = None /\ Current.page # v
      BY <1>1, <1>2, <1>13 DEF UsersInv
    <3> QED BY <1>2, <1>11, <2>1, <2>2, <3>1
  <2> QED BY <2>3, <2>4 DEF UsersInv
<1>16. PlanInv'
  <2>1. plan = <<>>
    BY <1>1 DEF PlanInv
  <2> QED BY <1>1, <1>2, <1>11, <2>1, PlanStays
<1> QED BY <1>4, <1>5, <1>6, <1>11, <1>14, <1>15, <1>16 DEF i, t

(* The page a call has mapped was not mapped, and the call is gone.          *)
LEMMA PageMapped ==
  ASSUME MapInv, MmVirtualMap, ~stopped'
  PROVE  StackInv' /\ UsersInv' /\ PlanInv' /\ Translate(NextPage) = None
<1> DEFINE n == Len(calls)
           u == NextPage
<1>1. /\ CallsTyped /\ calls \in Seq(Activations) /\ StackInv /\ UsersInv /\ PlanInv
      /\ headers \in 0..HeaderPages /\ inuse \subseteq HeapPages /\ calls # <<>>
  BY Running DEF MmVirtualMap
<1>2. /\ Current = calls[n] /\ n \in DOMAIN calls /\ Current \in Activations
      /\ u = Current.page /\ u \in UserPages /\ Current.done + 1 = Current.count
  <2>1. /\ Current = calls[n] /\ n \in DOMAIN calls /\ Current \in Activations
        /\ u = Current.page /\ u \in UserPages /\ Current.count = 1 /\ Current.done = 0
    BY <1>1, NextIsPage
  <2> QED BY <2>1
<1>3. /\ DOMAIN tables' = DOMAIN tables /\ Current.frame # None
      /\ \A w \in UserPages : Translate(w)' = IF w = u THEN Current.frame ELSE Translate(w)
  BY EntryWritten DEF MapInv
<1>4. calls' = Front(calls) /\ plan' = plan /\ headers' = headers /\ inuse' = inuse
  BY <1>2 DEF MmVirtualMap, Leave
<1> HIDE DEF u
<1>5. Translate(u) = None
  BY <1>1, <1>2 DEF StackInv
<1>6. n \in {1, 2} /\ DOMAIN calls = 1..n
  <2>1. DOMAIN calls = 1..Len(calls) /\ Len(calls) \in Nat /\ Len(calls) <= 2
    BY <1>1 DEF StackInv
  <2> QED BY <1>2, <2>1
<1>7. /\ Len(calls') = n - 1 /\ DOMAIN calls' = 1..n-1
      /\ \A k \in 1..n-1 : calls'[k] = calls[k]
  BY <1>1, <1>4, TopOfStack
<1> HIDE DEF n
<1>8. ASSUME NEW k \in DOMAIN calls'
      PROVE  k = 1 /\ n = 2 /\ 1 \in DOMAIN calls /\ calls'[k] = calls[1]
  BY <1>6, <1>7
<1>9. n = 2 => calls[1].page \in OtherPages /\ u \notin OtherPages /\ calls[2].page = u
  BY <1>1, <1>2 DEF StackInv, n
<1>10. StackInv'
  <2>1. \A v \in UserPages, k \in DOMAIN calls' : calls'[k].page = v => Translate(v)' = None
    BY <1>1, <1>3, <1>8, <1>9 DEF StackInv
  <2>2. ASSUME NEW v \in HeapPages, NEW k \in DOMAIN calls', calls'[k].table = v
        PROVE  /\ calls'[k].page \in OtherPages
               /\ PAGE_DIRECTORY_INDEX(calls'[k].page) \notin DOMAIN tables'
               /\ Translate(v)' # None
    <3>1. v \in UserPages
      BY DEF UserPages
    <3> QED BY <1>1, <1>3, <1>8, <1>9, <2>2, <3>1 DEF StackInv
  <2>3. Len(calls') <= 2 /\ Len(calls') # 2
    BY <1>6, <1>7
  <2>4. UserPages' = UserPages
    BY DEF UserPages
  <2> QED BY <2>1, <2>2, <2>3, <2>4 DEF StackInv, PAGE_DIRECTORY_INDEX
<1>11. UsersInv'
  <2>1. /\ inuse \cup HEAP..HEAP+headers-1 \subseteq UserPages
        /\ HEAP+headers..HEAP+HeaderPages-1 \subseteq UserPages
    BY <1>1, HeaderRanges
  <2>2. ASSUME NEW v \in inuse' \cup HEAP..HEAP+headers'-1
        PROVE  Translate(v)' # None \/ \E k \in DOMAIN calls' : calls'[k].page = v
    <3>1. CASE v = u
      BY <1>2, <1>3, <3>1
    <3>2. CASE v # u /\ Translate(v) # None
      BY <1>3, <1>4, <2>1, <3>2
    <3>3. CASE v # u /\ Translate(v) = None
      <4>1. PICK k \in DOMAIN calls : calls[k].page = v
        BY <1>1, <1>4, <3>3 DEF UsersInv
      <4>2. k # n
        BY <1>2, <3>3, <4>1
      <4>3. k \in 1..n-1
        BY <1>6, <4>2
      <4> QED BY <1>7, <4>1, <4>3
    <3> QED BY <3>1, <3>2, <3>3
  <2>3. ASSUME NEW v \in HEAP+headers'..HEAP+HeaderPages-1
        PROVE  Translate(v)' = None /\ \A k \in DOMAIN calls' : calls'[k].page # v
    <3>1. v # u
      BY <1>1, <1>2, <1>4 DEF UsersInv
    <3> QED BY <1>1, <1>3, <1>4, <1>8, <2>1, <3>1 DEF UsersInv
  <2> QED BY <2>2, <2>3 DEF UsersInv
<1>12. PlanInv'
  <2>1. plan = <<>>
    BY <1>1 DEF PlanInv
  <2> QED BY <1>1, <1>3, <1>4, <2>1, PlanStays
<1> QED BY <1>5, <1>10, <1>11, <1>12 DEF u

LEMMA MapStart == VmInit => MapInv
<1> SUFFICES ASSUME VmInit PROVE MapInv
  OBVIOUS
<1>1. VmInv
  BY VmStart
<1>2. map \in MemoryMaps /\ plan = BootTables(map) /\ tables = <<>> /\ calls = <<>>
  BY DEF VmInit, Init
<1>3. DOMAIN tables = {}
  BY <1>2
<1>4. PlanInv
  <2>1. PICK hi \in Nat : Apart(plan, 0, hi)
    BY <1>2, BootPlan
  <2>2. \A v \in HEAP..HEAP_END-1 : \E k \in DOMAIN plan : plan[k].index = PAGE_DIRECTORY_INDEX(v)
    BY <1>2, BootPlan
  <2>3. \A j, k \in DOMAIN plan : j # k => plan[j].index # plan[k].index
    BY <2>1 DEF Apart
  <2> QED BY <1>2, <1>3, <2>2, <2>3 DEF PlanInv
<1>5. inuse = {} /\ headers = 0 /\ 0 \in 0..HeaderPages
  <2>1. HeaderPages \in Nat
    BY Regions, Zenon
  <2> QED BY <2>1 DEF VmInit
<1>6. \A v : Translate(v) = None
  BY <1>3 DEF Translate
<1>7. StackInv
  BY <1>2 DEF StackInv
<1>8. UsersInv
  <2>1. HEAP \in Nat
    BY Regions, Zenon
  <2>2. HEAP..HEAP+headers-1 = {}
    BY <1>5, <2>1
  <2> QED BY <1>2, <1>5, <1>6, <2>2 DEF UsersInv
<1> QED BY <1>1, <1>4, <1>5, <1>7, <1>8 DEF MapInv

(* What a step may do to the tables and to what is mapped by them.           *)
MappingsKept ==
    /\ \A i \in DOMAIN tables : /\ i \in DOMAIN tables' /\ tables'[i].frame = tables[i].frame
                                /\ tables'[i].at = tables[i].at
    /\ \A i \in DOMAIN tables : \A k \in Entries :
          tables[i].page[k] # None => tables'[i].page[k] = tables[i].page[k]

LEMMA Keeping ==
  ASSUME MapInv, [VmNext]_<<vars, vmvars>>
  PROVE  MappingsKept
<1>1. CASE MmVirtualCreatePageTable
  BY <1>1, MakingTable DEF MappingsKept
<1>2. CASE InstallTable
  BY <1>2, TableInstalled DEF MappingsKept
<1>3. CASE MmVirtualMap
  <2> DEFINE i == PAGE_DIRECTORY_INDEX(NextPage)
             e == PAGE_TABLE_INDEX(NextPage)
  <2>1. CASE ~stopped'
    <3>1. Translate(NextPage) = None
      BY <1>3, <2>1, PageMapped
    <3>2. i \in DOMAIN tables
      BY <1>3 DEF MmVirtualMap, HasTable
    <3>3. tables[i].page[e] = None
      BY <3>1, <3>2 DEF Translate
    <3>4. /\ DOMAIN tables' = DOMAIN tables
          /\ \A j \in DOMAIN tables : /\ tables'[j].frame = tables[j].frame
                                      /\ tables'[j].at = tables[j].at
          /\ \A j \in DOMAIN tables, k \in Entries :
                tables'[j].page[k] = IF j = i /\ k = e THEN Current.frame
                                                       ELSE tables[j].page[k]
      BY <1>3, <2>1, EntryWritten DEF MapInv
    <3> HIDE DEF i, e
    <3> QED BY <3>3, <3>4 DEF MappingsKept
  <2>2. CASE stopped'
    <3>1. stopped' = ~Reached(i) /\ (~Reached(i) => tables' = tables)
      BY <1>3 DEF MmVirtualMap
    <3>2. tables' = tables
      BY <2>2, <3>1, Zenon
    <3> QED BY <3>2 DEF MappingsKept
  <2> QED BY <2>1, <2>2
<1>4. CASE tables' = tables
  BY <1>4 DEF MappingsKept
<1>5. tables' # tables => MmVirtualCreatePageTable \/ InstallTable \/ MmVirtualMap
  BY Zenon DEF VmNext, InstallDirectory, TakeFrame, AskForTable, HeapSAllocator, kmalloc, kfree,
      AddressSpaceMap, vmvars
<1> QED BY <1>1, <1>2, <1>3, <1>4, <1>5

LEMMA MapStep == SinglePages /\ MapInv /\ [VmNext]_<<vars, vmvars>> => MapInv'
<1> SUFFICES ASSUME SinglePages, MapInv, [VmNext]_<<vars, vmvars>> PROVE MapInv'
  OBVIOUS
<1>1. VmInv'
  BY VmStep DEF MapInv
<1>2. CASE UNCHANGED <<vars, vmvars>>
  <2>1. /\ plan' = plan /\ tables' = tables /\ calls' = calls /\ inuse' = inuse
        /\ headers' = headers /\ stopped' = stopped
    BY <1>2 DEF vmvars
  <2> QED BY <1>1, <2>1 DEF MapInv, PlanInv, StackInv, UsersInv, UserPages, Translate,
        PAGE_DIRECTORY_INDEX, PAGE_TABLE_INDEX
<1>3. CASE InstallDirectory
  <2>1. /\ plan' = plan /\ tables' = tables /\ calls' = calls /\ inuse' = inuse
        /\ headers' = headers /\ ~stopped
    BY <1>3 DEF InstallDirectory
  <2> QED BY <1>1, <2>1 DEF MapInv, PlanInv, StackInv, UsersInv, UserPages, Translate,
        PAGE_DIRECTORY_INDEX, PAGE_TABLE_INDEX
<1>4. CASE \E p \in HeapPages : kfree(p)
  <2>1. /\ plan' = plan /\ tables' = tables /\ calls' = calls /\ inuse' \subseteq inuse
        /\ headers' = headers /\ ~stopped
    BY <1>4 DEF kfree
  <2> QED BY <1>1, <2>1 DEF MapInv, PlanInv, StackInv, UsersInv, UserPages, Translate,
        PAGE_DIRECTORY_INDEX, PAGE_TABLE_INDEX
<1>5. CASE MmVirtualCreatePageTable
  <2>1. /\ PlanInv' /\ calls' = <<>> /\ calls' = calls
        /\ \A v \in UserPages : Translate(v)' = Translate(v)
        /\ ~stopped /\ inuse' = inuse /\ headers' = headers
    BY <1>5, MakingTable DEF MmVirtualCreatePageTable
  <2>2. /\ CallsTyped /\ StackInv /\ UsersInv
        /\ inuse \subseteq HeapPages /\ headers \in 0..HeaderPages
    BY <2>1, Running
  <2>3. StackInv'
    BY <2>1 DEF StackInv
  <2>4. UsersInv'
    <3>1. /\ inuse \cup HEAP..HEAP+headers-1 \subseteq UserPages
          /\ HEAP+headers..HEAP+HeaderPages-1 \subseteq UserPages
      BY <2>2, HeaderRanges
    <3> QED BY <2>1, <2>2, <3>1 DEF UsersInv
  <2> QED BY <1>1, <2>1, <2>2, <2>3, <2>4 DEF MapInv
<1>6. CASE TakeFrame
  <2>1. inuse' = inuse /\ headers' = headers
    BY <1>6, Zenon DEF TakeFrame
  <2> QED BY <1>1, <1>6, <2>1, TakingKeeps DEF MapInv
<1>7. CASE AskForTable
  <2>1. \E p \in HeapPages : inuse' = inuse \cup {p}
    BY <1>7, Zenon DEF AskForTable
  <2>2. headers' = headers
    BY <1>7 DEF AskForTable
  <2> QED BY <1>1, <1>7, <2>1, <2>2, AskingForTable DEF MapInv
<1>8. CASE InstallTable
  <2>1. inuse' = inuse /\ headers' = headers
    BY <1>8, Zenon DEF InstallTable
  <2> QED BY <1>1, <1>8, <2>1, TableInstalled DEF MapInv
<1>9. CASE MmVirtualMap
  <2>1. inuse' = inuse /\ headers' = headers /\ plan' = plan /\ ~stopped
    BY <1>9, Zenon DEF MmVirtualMap
  <2>2. CASE ~stopped'
    BY <1>1, <1>9, <2>1, <2>2, PageMapped DEF MapInv
  <2>3. CASE stopped'
    <3>1. tables' = tables
      <4>1. /\ stopped' = ~Reached(PAGE_DIRECTORY_INDEX(NextPage))
            /\ ~Reached(PAGE_DIRECTORY_INDEX(NextPage)) => tables' = tables
        BY <1>9 DEF MmVirtualMap
      <4> QED BY <2>3, <4>1, Zenon
    <3>2. calls # <<>> /\ PlanInv
      BY <1>9 DEF MmVirtualMap, MapInv
    <3>3. PlanInv'
      BY <2>1, <3>1, <3>2, PlanStays DEF PlanInv
    <3> QED BY <1>1, <2>1, <2>3, <3>3 DEF MapInv
  <2> QED BY <2>2, <2>3
<1>10. CASE HeapSAllocator
  <2>1. headers' = headers + 1 /\ headers < HeaderPages /\ inuse' = inuse /\ ~stopped
    BY <1>10 DEF HeapSAllocator, Allocating
  <2>2. headers' \in 0..HeaderPages
    <3>1. HeaderPages \in Nat
      BY Regions, Zenon
    <3> QED BY <2>1, <3>1 DEF MapInv
  <2> QED BY <1>1, <1>10, <2>1, <2>2, UsersSteps DEF MapInv
<1>11. ASSUME NEW p \in HeapPages, NEW mask \in Masks, kmalloc(p, mask)
       PROVE  MapInv'
  <2>1. headers' = headers /\ inuse' = inuse \cup {p} /\ ~stopped
    BY <1>11 DEF kmalloc
  <2> QED BY <1>1, <1>11, <2>1, UsersSteps DEF MapInv
<1>12. ASSUME NEW v \in OtherPages, NEW n \in PageCounts, AddressSpaceMap(v, n, AnyMask)
       PROVE  MapInv'
  <2>1. headers' = headers /\ inuse' = inuse /\ ~stopped
    BY <1>12 DEF AddressSpaceMap
  <2> QED BY <1>1, <1>12, <2>1, UsersSteps DEF MapInv
<1> QED
  BY <1>2, <1>3, <1>4, <1>5, <1>6, <1>7, <1>8, <1>9, <1>10, <1>11, <1>12 DEF VmNext

(* A page that is mapped keeps its frame: nothing is written over an entry   *)
(* of a table that is in use, and no table takes the place of another.       *)
THEOREM MappingsAreKept == ASSUME SinglePages PROVE VmSpec => MappingsStay
<1>1. MapInv /\ [VmNext]_<<vars, vmvars>> =>
        [\A i \in DOMAIN tables : \A k \in Entries :
           tables[i].page[k] # None => /\ i \in DOMAIN tables'
                                       /\ tables'[i].page[k] = tables[i].page[k]]_tables
  BY Keeping DEF MappingsKept
<1> QED BY <1>1, MapStart, MapStep, PTL DEF VmSpec, MappingsStay

(* No client of the heap is given a page that is not mapped, though mapping  *)
(* it may need a table, a page for the table, and a mapping of that page.    *)
THEOREM PagesAreBacked == ASSUME SinglePages PROVE VmSpec => []PagesBacked
<1>1. MapInv => PagesBacked
  <2> SUFFICES ASSUME MapInv, calls = <<>>, ~stopped,
                      NEW v \in inuse \cup HEAP..HEAP+headers-1
               PROVE  Translate(v) # None
    BY DEF PagesBacked
  <2> QED BY DEF MapInv, UsersInv
<1> QED BY <1>1, MapStart, MapStep, PTL DEF VmSpec

---------------------------------------------------------------------------
(* The kernel finds its tables                                               *)

(* The first table made is the one every later one is written through.       *)
LowFirst ==
    IF DOMAIN tables = {} THEN plan # <<>> /\ plan[1] = LowTable[1]
    ELSE 0 \in DOMAIN tables /\ \A k \in 1..PAGES_PER_TABLE-1 : tables[0].page[k] = k

(* While tables are made, nobody else has frames, and so there are enough.   *)
BootInv ==
    plan # <<>> =>
        /\ held["pages"] = {}
        /\ IsFiniteSet(held["tables"]) /\ IsFiniteSet(held[Kernel])
        /\ Cardinality(held["tables"]) + Len(plan) <= Len(BootTables(map))
        /\ Cardinality(held[Kernel]) <= 3

ReachInv ==
    /\ LowFirst
    /\ held[Kernel] \subseteq 1..PAGES_PER_TABLE-1
    /\ \A i \in DOMAIN tables :
          /\ tables[i].frame \in Frames
          /\ \A v \in Nat : v = tables[i].at => Translate(v) = tables[i].frame

FullInv ==
    /\ MapInv /\ AvailInv /\ BootInv /\ stopped \in BOOLEAN
    /\ ~stopped => ReachInv

(* Frames of low memory are not frame 0. *)
LEMMA NotFrame0 ==
  ASSUME NEW f \in Frames, f \div BITS \in 1..LOW_WORDS-1
  PROVE  f \in Nat /\ 1 <= f
<1>1. f \in Nat /\ BITS \in Nat \ {0}
  BY MachineSizes DEF Frames
<1>2. f = BITS * (f \div BITS) + (f % BITS) /\ f \div BITS \in Nat /\ f % BITS \in 0..BITS-1
  BY <1>1, Quotient
<1>3. f # 0
  <2>1. f = 0 => f \div BITS = 0
    BY <1>1
  <2> QED BY <2>1
<1> QED BY <1>1, <1>3

(* The directory is given three frames that the first table will map.        *)
LEMMA DirectoryFound ==
  ASSUME FirstTableFits, AvailInv, MmVirtualInit(MEMORY_INIT_MASK), held'[Kernel] # {}
  PROVE  /\ held'[Kernel] \subseteq 1..PAGES_PER_TABLE-1
         /\ IsFiniteSet(held'[Kernel]) /\ Cardinality(held'[Kernel]) <= 3
         /\ \A h \in Holders : held[h] = {} /\ held'[h] = {}
<1>1. PICK f \in Found(MEMORY_INIT_MASK, 3) : Gives(Kernel, f, 3)
  BY DEF MmVirtualInit, MmPhysicalAllocateBlock
<1>2. /\ held \in [All -> SUBSET (Nat \cup {Outside})] /\ map \in MemoryMaps
      /\ \A h \in All : held[h] = {}
  BY DEF AvailInv, FramesInv, MmVirtualInit
<1>3. used = UsedAtBoot(map)
  <2>1. UNION {held[h] : h \in DOMAIN held} = {}
    BY <1>2
  <2> QED BY <2>1 DEF AvailInv, FramesInv, FramesAccounted
<1>4. FreeFrames(MEMORY_INIT_MASK, 3) = FreeAtBoot(map)
  <2>1. Words(MEMORY_INIT_MASK) = 1..LOW_WORDS-1
    BY Callers DEF Words
  <2>2. 0..3-1 = 0..2
    OBVIOUS
  <2> QED BY <1>3, <2>1, <2>2 DEF FreeFrames, FreeAtBoot, FreeFrom
<1>5. f \in First(FreeAtBoot(map))
  BY <1>2, <1>4 DEF FirstTableFits, Found
<1>6. f + 2 < PAGES_PER_TABLE /\ f \in Frames /\ f \div BITS \in 1..LOW_WORDS-1
  BY <1>2, <1>5 DEF FirstTableFits, First, FreeAtBoot
<1>7. f \in Nat /\ 1 <= f
  BY <1>6, NotFrame0
<1>8. held'[Kernel] = f..f+2 /\ \A h \in Holders : held'[h] = {}
  <2>1. f..f+3-1 = f..f+2
    BY <1>7
  <2>2. held' = [held EXCEPT ![Kernel] = @ \cup f..f+2]
    BY <1>1, <1>7, <2>1 DEF Gives
  <2>3. Kernel \notin Holders
    BY MachineSizes
  <2> QED BY <1>2, <2>2, <2>3 DEF All
<1>9. IsFiniteSet(f..f+2) /\ Cardinality(f..f+2) = 3
  <2>1. f \in Int /\ f + 2 \in Int /\ ~(f > f + 2) /\ (f + 2) - f + 1 = 3
    BY <1>7
  <2> QED BY <2>1, FS_Interval
<1>10. f..f+2 \subseteq 1..PAGES_PER_TABLE-1
  <2>1. PAGES_PER_TABLE \in Nat
    BY Regions, Zenon
  <2> QED BY <1>6, <1>7, <2>1
<1> QED BY <1>2, <1>8, <1>9, <1>10 DEF All

(* There are as many free frames in the first table as tables are made, so   *)
(* that the search, which takes the first, never goes beyond it.             *)
LEMMA TableFrameFound ==
  ASSUME FirstTableFits, AvailInv, BootInv, plan # <<>>, Len(plan) \in Nat \ {0},
         NEW f \in Found(MEMORY_INIT_MASK, 1)
  PROVE  f \in Frames /\ f \in 1..PAGES_PER_TABLE-1
<1> DEFINE G == {g \in Frames \ UsedAtBoot(map) :
                    g < PAGES_PER_TABLE /\ g \div BITS \in 1..LOW_WORDS-1}
           T == held["tables"]
           K == held[Kernel]
<1>1. /\ held["pages"] = {} /\ IsFiniteSet(T) /\ IsFiniteSet(K)
      /\ Cardinality(T) + Len(plan) <= Len(BootTables(map)) /\ Cardinality(K) <= 3
  BY DEF BootInv
<1>2. Cardinality(G) >= 3 + Len(BootTables(map)) /\ map \in MemoryMaps
  BY DEF AvailInv, FirstTableFits
<1>3. Words(MEMORY_INIT_MASK) = 1..LOW_WORDS-1
  BY Callers DEF Words
<1>4. MemoryBlocks \in Nat /\ PAGES_PER_TABLE \in Nat
  <2>1. PAGES_PER_TABLE \in Nat
    BY Regions, Zenon
  <2> QED BY <2>1, MachineSizes
<1>5. IsFiniteSet(G)
  <2>1. IsFiniteSet(Frames)
    BY <1>4, FS_Interval DEF Frames
  <2>2. G \in SUBSET Frames
    OBVIOUS
  <2> QED BY <2>1, <2>2, FS_Subset
<1>6. \E g \in G : g \notin T \cup K
  <2>1. IsFiniteSet(T \cup K) /\ Cardinality(T \cup K) <= Cardinality(T) + Cardinality(K)
    <3>1. IsFiniteSet(T \cap K) /\ IsFiniteSet(T \cup K)
          /\ Cardinality(T \cup K) = Cardinality(T) + Cardinality(K) - Cardinality(T \cap K)
      BY <1>1, FS_Union, FS_Intersection
    <3>2. /\ Cardinality(T) \in Nat /\ Cardinality(K) \in Nat
          /\ Cardinality(T \cap K) \in Nat
      BY <1>1, <3>1, FS_CardinalityType
    <3> HIDE DEF T, K
    <3> QED BY <3>1, <3>2
  <2>2. SUFFICES ASSUME G \in SUBSET (T \cup K) PROVE FALSE
    BY Zenon
  <2>3. Cardinality(G) <= Cardinality(T \cup K)
    BY <2>1, <2>2, FS_Subset
  <2>4. /\ Cardinality(T) \in Nat /\ Cardinality(K) \in Nat /\ Cardinality(G) \in Nat
        /\ Cardinality(T \cup K) \in Nat
    BY <1>1, <1>5, <2>1, FS_CardinalityType
  <2>5. Len(BootTables(map)) \in Nat
    <3>1. BootTables(map) \in Seq(FreshTables)
      BY <1>2, Layout
    <3> HIDE DEF BootTables
    <3> QED BY <3>1
  <2> HIDE DEF G, T, K
  <2> QED BY <1>1, <1>2, <2>1, <2>3, <2>4, <2>5
<1>7. PICK g \in G : g \notin T \cup K
  BY <1>6
<1>8. g \notin used
  <2>1. /\ used = UsedAtBoot(map) \cup (Frames \cap UNION {held[h] : h \in DOMAIN held})
        /\ DOMAIN held = {"tables", "pages", Kernel}
    BY Callers DEF AvailInv, FramesInv, FramesAccounted, All
  <2>2. g \notin UNION {held[h] : h \in DOMAIN held}
    BY <1>1, <1>7, <2>1
  <2> QED BY <1>7, <2>1, <2>2
<1>9. g \in FreeFrames(MEMORY_INIT_MASK, 1)
  <2>1. g \in Nat /\ g \in Frames /\ g \div BITS \in 1..LOW_WORDS-1
    BY <1>4, <1>7 DEF Frames
  <2>2. \A k \in 0..1-1 : g + k \notin used
    <3>1. \A k \in 0..1-1 : k = 0
      OBVIOUS
    <3> QED BY <1>8, <2>1, <3>1
  <2> QED BY <1>3, <2>1, <2>2 DEF FreeFrames, FreeFrom
<1>10. /\ f \in Frames /\ f \div BITS \in 1..LOW_WORDS-1 /\ f <= g
  BY <1>3, <1>9 DEF Found, First, FreeFrames
<1>11. f \in Nat /\ 1 <= f
  BY <1>10, NotFrame0
<1>12. f \in 1..PAGES_PER_TABLE-1
  <2>1. g < PAGES_PER_TABLE /\ g \in Nat
    BY <1>4, <1>7 DEF Frames
  <2> QED BY <1>4, <1>10, <1>11, <2>1
<1> QED BY <1>10, <1>12

LEMMA SmallQuotient ==
  ASSUME NEW p \in Nat \ {0}, NEW n \in 0..p-1
  PROVE  n \div p = 0 /\ n % p = n
  OBVIOUS

(* Frames given one at a time, or none. *)
LEMMA OneGiven ==
  ASSUME NEW h, NEW f, Gives(h, f, 1), h \in DOMAIN held, f \in Nat,
         IsFiniteSet(held[h])
  PROVE  IsFiniteSet(held'[h]) /\ Cardinality(held'[h]) <= Cardinality(held[h]) + 1
<1>1. held' = [held EXCEPT ![h] = @ \cup {f}]
  <2>1. f..f+1-1 = {f}
    OBVIOUS
  <2> QED BY <2>1 DEF Gives
<1>2. held'[h] = held[h] \cup {f}
  BY <1>1
<1>3. /\ IsFiniteSet(held[h] \cup {f})
      /\ Cardinality(held[h] \cup {f}) = IF f \in held[h] THEN Cardinality(held[h])
                                                        ELSE Cardinality(held[h]) + 1
  BY FS_AddElement
<1>4. Cardinality(held[h]) \in Nat
  BY FS_CardinalityType
<1> QED BY <1>2, <1>3, <1>4

LEMMA BootStep ==
  ASSUME SinglePages, FirstTableFits, MapInv, AvailInv, BootInv, [VmNext]_<<vars, vmvars>>
  PROVE  BootInv'
<1>1. /\ plan \in Seq(FreshTables) /\ DOMAIN held = {"tables", "pages", Kernel}
      /\ map \in MemoryMaps /\ Kernel \notin Holders
  BY MachineSizes, Callers DEF MapInv, VmInv, AvailInv, FramesInv, All
<1>2. Len(plan) \in Nat /\ (plan # <<>> => Len(plan) \in Nat \ {0})
  BY <1>1
<1>3. held = [h \in DOMAIN held |-> held[h]]
  BY DEF AvailInv, FramesInv
<1>4. CASE MmVirtualCreatePageTable
  <2>1. plan # <<>> /\ plan' = Tail(plan)
    BY <1>4 DEF MmVirtualCreatePageTable
  <2>2. PICK f \in Found(MEMORY_INIT_MASK, 1) : Gives("tables", f, 1)
    BY <1>4 DEF MmVirtualCreatePageTable
  <2>3. f \in Nat
    BY <1>2, <2>1, TableFrameFound, MachineSizes DEF Frames
  <2>4. /\ held["pages"] = {}
        /\ IsFiniteSet(held["tables"]) /\ IsFiniteSet(held[Kernel])
        /\ Cardinality(held["tables"]) + Len(plan) <= Len(BootTables(map))
        /\ Cardinality(held[Kernel]) <= 3
    BY <2>1 DEF BootInv
  <2>5. /\ IsFiniteSet(held'["tables"])
        /\ Cardinality(held'["tables"]) <= Cardinality(held["tables"]) + 1
    BY <1>1, <2>2, <2>3, <2>4, OneGiven
  <2>6. held'["pages"] = held["pages"] /\ held'[Kernel] = held[Kernel] /\ map' = map
    <3>1. "tables" # "pages" /\ Kernel # "tables"
      BY Callers
    <3> DEFINE got == IF f \in Nat THEN f..f+1-1 ELSE {f} \ {NoFrame}
    <3>2. held' = [held EXCEPT !["tables"] = @ \cup got] /\ map' = map
      BY <2>2 DEF Gives
    <3> HIDE DEF got
    <3> QED BY <1>1, <3>1, <3>2
  <2>7. Len(plan') = Len(plan) - 1
    BY <1>1, <2>1
  <2>8. BootTables(map') = BootTables(map) /\ Len(BootTables(map)) \in Nat
    <3>1. BootTables(map) \in Seq(FreshTables)
      BY <1>1, Layout
    <3> HIDE DEF BootTables
    <3> QED BY <2>6, <3>1
  <2>9. Cardinality(held["tables"]) \in Nat /\ Cardinality(held'["tables"]) \in Nat
    BY <2>4, <2>5, FS_CardinalityType
  <2>10. Cardinality(held'["tables"]) + Len(plan') <= Len(BootTables(map))
    BY <1>2, <2>4, <2>5, <2>7, <2>8, <2>9
  <2>11. BootTables(map)' = BootTables(map')
    BY DEF BootTables, LowTable, HeapTables, VideoTables, ReservedTables, TablesOf, Fill, Empty,
        ReservedPages, ReservedFrames, RecordedFrames, MmSysMappingsContain, Entries,
        PAGE_DIRECTORY_INDEX, PAGE_TABLE_INDEX
  <2> QED BY <2>4, <2>5, <2>6, <2>8, <2>10, <2>11 DEF BootInv
<1>5. CASE InstallDirectory
  <2>1. plan' = plan /\ MmVirtualInit(MEMORY_INIT_MASK)
    BY <1>5 DEF InstallDirectory
  <2>2. map' = map /\ held[Kernel] = {}
    BY <2>1 DEF MmVirtualInit, MmPhysicalAllocateBlock, Gives
  <2>3. CASE held'[Kernel] # {}
    <3>1. /\ IsFiniteSet(held'[Kernel]) /\ Cardinality(held'[Kernel]) <= 3
          /\ held'["pages"] = {} /\ held["tables"] = {} /\ held'["tables"] = {}
      BY <2>1, <2>3, DirectoryFound, Callers
    <3> QED BY <2>1, <2>2, <3>1 DEF BootInv
  <2>4. CASE held'[Kernel] = {}
    <3>1. PICK f \in Found(MEMORY_INIT_MASK, 3) : Gives(Kernel, f, 3)
      BY <2>1 DEF MmVirtualInit, MmPhysicalAllocateBlock
    <3> DEFINE got == IF f \in Nat THEN f..f+3-1 ELSE {f} \ {NoFrame}
    <3>2. held' = [held EXCEPT ![Kernel] = @ \cup got]
      BY <3>1 DEF Gives
    <3> HIDE DEF got
    <3>3. held'[Kernel] = got
      BY <1>1, <2>2, <3>2
    <3>4. held' = held
      BY <1>1, <2>2, <2>4, <3>2, <3>3, <1>3
    <3> QED BY <2>1, <2>2, <3>4 DEF BootInv
  <2> QED BY <2>3, <2>4
<1>6. CASE plan' = plan /\ held' = held /\ map' = map
  BY <1>6 DEF BootInv
<1>7. CASE plan' = <<>>
  BY <1>7 DEF BootInv
<1>8. VmNext => \/ MmVirtualCreatePageTable
                \/ InstallDirectory
                \/ plan' = plan /\ held' = held /\ map' = map
                \/ plan' = <<>>
  BY Zenon DEF VmNext, TakeFrame, AskForTable, InstallTable, MmVirtualMap, HeapSAllocator, kmalloc, kfree,
      AddressSpaceMap, vars, MapInv, PlanInv
<1> QED BY <1>4, <1>5, <1>6, <1>7, <1>8 DEF vars, vmvars

LEMMA ReachStep ==
  ASSUME SinglePages, FirstTableFits, FullInv, [VmNext]_<<vars, vmvars>>, ~stopped'
  PROVE  ReachInv'
<1>1. ~stopped
  <2>1. CASE VmNext
    BY <2>1, Zenon DEF VmNext, InstallDirectory, MmVirtualCreatePageTable, TakeFrame, AskForTable,
        InstallTable, MmVirtualMap, HeapSAllocator, kmalloc, kfree, AddressSpaceMap, Allocating
  <2>2. CASE UNCHANGED <<vars, vmvars>>
    BY <2>2 DEF vmvars
  <2> QED BY <2>1, <2>2
<1>2. /\ MapInv /\ AvailInv /\ BootInv /\ ReachInv /\ MappingsKept
      /\ plan \in Seq(FreshTables) /\ TablesTyped /\ PagesOwn
      /\ held \in [All -> SUBSET (Nat \cup {Outside})]
  BY <1>1, Keeping, Running DEF FullInv, MapInv, VmInv, AvailInv, FramesInv
<1>3. \A k \in 1..PAGES_PER_TABLE-1 : k \in Entries /\ k \in Nat /\ k # None
  BY Regions, NoneIsNoNumber DEF Entries
<1>4. DOMAIN tables # {} => LowFirst'
  <2> SUFFICES ASSUME DOMAIN tables # {} PROVE LowFirst'
    OBVIOUS
  <2>1. 0 \in DOMAIN tables /\ \A k \in 1..PAGES_PER_TABLE-1 : tables[0].page[k] = k
    BY <1>2 DEF ReachInv, LowFirst
  <2>2. 0 \in DOMAIN tables' /\ \A k \in 1..PAGES_PER_TABLE-1 : tables'[0].page[k] = k
    BY <1>2, <1>3, <2>1 DEF MappingsKept
  <2> QED BY <2>2 DEF LowFirst
<1>5. \A v \in Nat : Translate(v) # None => Translate(v)' = Translate(v)
  BY <1>2, IndexTypes DEF Translate, MappingsKept, PAGE_DIRECTORY_INDEX, PAGE_TABLE_INDEX
<1>6. ASSUME NEW i \in DOMAIN tables
      PROVE  /\ tables'[i].frame \in Frames
             /\ \A v \in Nat : v = tables'[i].at => Translate(v)' = tables'[i].frame
  <2>1. tables'[i].frame = tables[i].frame /\ tables'[i].at = tables[i].at
    BY <1>2 DEF MappingsKept
  <2>2. tables[i].frame \in Frames /\ tables[i].frame # None
    <3>1. \A f \in Frames : f # None
      BY MachineSizes, NoneIsNoNumber DEF Frames
    <3> QED BY <1>2, <3>1 DEF ReachInv
  <2> QED BY <1>2, <1>5, <2>1, <2>2 DEF ReachInv
<1>7. CASE MmVirtualCreatePageTable
  <2> DEFINE t == Head(plan)
  <2>1. PICK f \in Found(MEMORY_INIT_MASK, 1) :
          /\ Gives("tables", f, 1)
          /\ tables' = [i \in {t.index} \cup DOMAIN tables |->
                          IF i = t.index THEN [frame |-> f, at |-> f, page |-> t.page]
                          ELSE tables[i]]
    BY <1>7 DEF MmVirtualCreatePageTable, WithTable
  <2>2. plan # <<>> /\ Len(plan) \in Nat \ {0} /\ t = plan[1]
    BY <1>2, <1>7 DEF MmVirtualCreatePageTable
  <2>3. f \in Frames /\ f \in 1..PAGES_PER_TABLE-1 /\ f \in Nat
    BY <1>2, <1>3, <2>2, TableFrameFound
  <2>4. held'[Kernel] = held[Kernel]
    <3>1. held' = [held EXCEPT !["tables"] = @ \cup {f}]
      <4>1. f..f+1-1 = {f}
        BY <2>3
      <4> QED BY <2>1, <2>3, <4>1 DEF Gives
    <3>2. Kernel # "tables" /\ Kernel \in All
      BY Callers DEF All
    <3> QED BY <1>2, <3>1, <3>2
  <2> HIDE DEF t
  <2>5. /\ DOMAIN tables' = {t.index} \cup DOMAIN tables
        /\ tables'[t.index].frame = f /\ tables'[t.index].at = f
        /\ tables'[t.index].page = t.page
    BY <2>1
  <2>6. LowFirst'
    <3>1. CASE DOMAIN tables = {}
      <4>1. t.index = 0 /\ t.page = Fill(1, 1)
        BY <1>2, <2>2, <3>1 DEF ReachInv, LowFirst, LowTable
      <4>2. \A k \in 1..PAGES_PER_TABLE-1 : Fill(1, 1)[k] = k
        <5>1. PAGES_PER_TABLE \in Nat \ {0}
          BY Regions
        <5>2. ASSUME NEW k \in 1..PAGES_PER_TABLE-1
              PROVE  Fill(1, 1)[k] = k
          <6>1. 1 % PAGES_PER_TABLE = 1 /\ k \in Entries
            BY <5>1 DEF Entries
          <6> QED BY <5>1, <6>1 DEF Fill, PAGE_TABLE_INDEX
        <5> QED BY <5>2
      <4> QED BY <2>5, <4>1, <4>2 DEF LowFirst
    <3> QED BY <1>4, <3>1
  <2>7. Translate(f)' = f
    <3>1. PAGE_DIRECTORY_INDEX(f) = 0 /\ PAGE_TABLE_INDEX(f) = f
      <4>1. PAGES_PER_TABLE \in Nat \ {0}
        BY Regions, Zenon
      <4> QED BY <2>3, <4>1, SmallQuotient DEF PAGE_DIRECTORY_INDEX, PAGE_TABLE_INDEX
    <3>2. 0 \in DOMAIN tables' /\ tables'[0].page[f] = f
      BY <2>3, <2>5, <2>6 DEF LowFirst
    <3> QED BY <3>1, <3>2 DEF Translate, PAGE_DIRECTORY_INDEX, PAGE_TABLE_INDEX
  <2>8. ASSUME NEW i \in DOMAIN tables'
        PROVE  /\ tables'[i].frame \in Frames
               /\ \A v \in Nat : v = tables'[i].at => Translate(v)' = tables'[i].frame
    <3>1. i = t.index \/ i \in DOMAIN tables
      BY <2>5
    <3>2. CASE i = t.index
      BY <2>3, <2>5, <2>7, <3>2
    <3> QED BY <1>6, <3>1, <3>2
  <2>9. Frames' = Frames
    BY DEF Frames
  <2> QED BY <1>2, <2>4, <2>6, <2>8, <2>9 DEF ReachInv
<1>8. CASE InstallTable
  <2> DEFINE i == PAGE_DIRECTORY_INDEX(NextPage)
             q == Current.table
  <2>1. /\ Translate(q) # None /\ q \in HeapPages
        /\ DOMAIN tables' = DOMAIN tables \cup {i} /\ tables'[i] = TableAt(q)
        /\ \A v \in UserPages : Translate(v)' = Translate(v)
    BY <1>2, <1>8, TableInstalled
  <2>2. tables'[i].frame = Translate(q) /\ tables'[i].at = q
    BY <2>1 DEF TableAt
  <2> HIDE DEF i, q
  <2>3. q \in UserPages /\ Translate(q) \in Frames
    BY <1>2, <2>1 DEF PagesOwn, UserPages
  <2>4. held' = held /\ calls # <<>>
    BY <1>8, Zenon DEF InstallTable, vars
  <2>5. DOMAIN tables # {}
    BY <1>2, <2>4 DEF ReachInv, LowFirst, MapInv, PlanInv
  <2>6. ASSUME NEW j \in DOMAIN tables'
        PROVE  /\ tables'[j].frame \in Frames
               /\ \A v \in Nat : v = tables'[j].at => Translate(v)' = tables'[j].frame
    <3>1. j = i \/ j \in DOMAIN tables
      BY <2>1
    <3>2. CASE j = i
      BY <2>1, <2>2, <2>3, <3>2
    <3> QED BY <1>6, <3>1, <3>2
  <2>7. Frames' = Frames
    BY DEF Frames
  <2> QED BY <1>2, <1>4, <2>4, <2>5, <2>6, <2>7 DEF ReachInv
<1>9. CASE InstallDirectory
  <2>1. MmVirtualInit(MEMORY_INIT_MASK) /\ held'[Kernel] # {} /\ tables' = tables /\ plan' = plan
    <3>1. stopped' = (held'[Kernel] = {})
      BY <1>9 DEF InstallDirectory
    <3>2. held'[Kernel] # {}
      BY <3>1, Zenon
    <3> QED BY <1>9, <3>2 DEF InstallDirectory
  <2>2. held'[Kernel] \subseteq 1..PAGES_PER_TABLE-1
    BY <1>2, <2>1, DirectoryFound
  <2>3. LowFirst'
    BY <1>2, <2>1 DEF ReachInv, LowFirst
  <2>4. Frames' = Frames /\ DOMAIN tables' = DOMAIN tables
    BY <2>1 DEF Frames
  <2> QED BY <1>6, <2>2, <2>3, <2>4 DEF ReachInv
<1>10. CASE /\ DOMAIN tables' = DOMAIN tables /\ held'[Kernel] = held[Kernel]
            /\ plan' = plan
  <2>1. LowFirst'
    BY <1>2, <1>4, <1>10 DEF ReachInv, LowFirst
  <2>2. Frames' = Frames
    BY DEF Frames
  <2> QED BY <1>2, <1>6, <1>10, <2>1, <2>2 DEF ReachInv
<1>11. CASE TakeFrame
  <2>1. tables' = tables /\ plan' = plan
    BY <1>11, Zenon DEF TakeFrame
  <2>2. held'[Kernel] = held[Kernel]
    <3>1. held' = held \/ \E f : Gives("pages", f, 1)
      BY <1>11, Zenon DEF TakeFrame, vars
    <3>2. Kernel # "pages" /\ Kernel \in All
      BY Callers DEF All
    <3> QED BY <1>2, <3>1, <3>2 DEF Gives
  <2> QED BY <1>10, <2>1, <2>2
<1>12. CASE MmVirtualMap
  <2>1. DOMAIN tables' = DOMAIN tables
    BY <1>2, <1>12, EntryWritten DEF MapInv
  <2>2. plan' = plan /\ held' = held
    BY <1>12, Zenon DEF MmVirtualMap, vars
  <2> QED BY <1>10, <2>1, <2>2
<1>13. CASE tables' = tables /\ held' = held /\ plan' = plan
  BY <1>10, <1>13
<1> QED
  BY <1>7, <1>8, <1>9, <1>11, <1>12, <1>13 DEF VmNext, AskForTable, HeapSAllocator, kmalloc, kfree,
      AddressSpaceMap, vars, vmvars

LEMMA FullStart == VmInit => FullInv
<1> SUFFICES ASSUME VmInit PROVE FullInv
  OBVIOUS
<1>1. /\ Init /\ plan = BootTables(map) /\ map \in MemoryMaps /\ DOMAIN tables = {}
      /\ held = [h \in Holders \cup {Kernel} |-> {}]
  BY DEF VmInit, Init
<1>2. BootTables(map) \in Seq(FreshTables)
  BY <1>1, Layout
<1>3. /\ 1 \in DOMAIN BootTables(map) /\ BootTables(map)[1] = LowTable[1]
  BY <1>1, BootPlan
<1>4. LowFirst
  <2> HIDE DEF BootTables, LowTable
  <2> QED BY <1>1, <1>2, <1>3 DEF LowFirst
<1>5. BootInv
  <2>1. IsFiniteSet({}) /\ Cardinality({}) = 0
    BY FS_EmptySet
  <2>2. held["pages"] = {} /\ held["tables"] = {} /\ held[Kernel] = {}
    BY <1>1, Callers
  <2>3. 0 + Len(plan) <= Len(BootTables(map)) /\ 0 <= 3
    <3> HIDE DEF BootTables
    <3> QED BY <1>1, <1>2
  <2> HIDE DEF BootTables
  <2> QED BY <2>1, <2>2, <2>3 DEF BootInv
<1>6. ReachInv
  BY <1>1, <1>4 DEF ReachInv
<1>7. stopped \in BOOLEAN
  BY DEF VmInit
<1> QED BY <1>1, <1>5, <1>6, <1>7, MapStart, AvailStart DEF FullInv

LEMMA FullStep ==
  /\ SinglePages /\ DirectoryFits /\ FirstTableFits
  /\ FullInv /\ [VmNext]_<<vars, vmvars>>
  => FullInv'
<1> SUFFICES ASSUME SinglePages, DirectoryFits, FirstTableFits, FullInv,
                    [VmNext]_<<vars, vmvars>>
             PROVE  FullInv'
  OBVIOUS
<1>1. MapInv'
  BY MapStep DEF FullInv
<1>2. [Next]_vars
  BY AllocatorStep DEF FullInv, MapInv
<1>3. AvailInv'
  BY <1>2, AvailStep DEF FullInv
<1>4. BootInv'
  BY BootStep DEF FullInv
<1>5. ~stopped' => ReachInv'
  BY ReachStep
<1>6. stopped' \in BOOLEAN
  <2>1. CASE stopped' = stopped
    BY <2>1 DEF FullInv
  <2>2. CASE InstallDirectory
    BY <2>2 DEF InstallDirectory
  <2>3. CASE MmVirtualCreatePageTable
    BY <2>3 DEF MmVirtualCreatePageTable
  <2>4. CASE TakeFrame
    BY <2>4 DEF TakeFrame, FullInv
  <2>5. CASE MmVirtualMap
    BY <2>5 DEF MmVirtualMap
  <2>6. \/ stopped' = stopped \/ InstallDirectory \/ MmVirtualCreatePageTable
        \/ TakeFrame \/ MmVirtualMap
    BY Zenon DEF VmNext, AskForTable, InstallTable, HeapSAllocator, kmalloc, kfree,
        AddressSpaceMap, vmvars
  <2> QED BY <2>1, <2>2, <2>3, <2>4, <2>5, <2>6
<1> QED BY <1>1, <1>3, <1>4, <1>5, <1>6 DEF FullInv

(* Once paging is on the kernel writes every page table, and the directory,  *)
(* where the MMU reads it, though the address of a table is a frame for some *)
(* and a page of the heap for others (virtual_memory.c:235 and 447).  The    *)
(* tables made at boot must lie in what the first of them maps: nothing in   *)
(* the code checks it.                                                       *)
THEOREM TablesAreReached ==
  ASSUME SinglePages, DirectoryFits, FirstTableFits
  PROVE  VmSpec => []TablesReachable
<1>1. FullInv => TablesReachable
  <2> SUFFICES ASSUME FullInv PROVE TablesReachable
    OBVIOUS
  <2>1. /\ AvailInv /\ MapInv /\ VmInv /\ (~stopped => Sound)
        /\ (~stopped => ReachInv)
    BY DEF FullInv, MapInv, VmInv
  <2>2. TypeOK
    BY <2>1, BootFrames DEF AvailInv, FramesInv, FramesAccounted, TypeOK, All
  <2>3. ASSUME ~stopped, NEW i \in DOMAIN tables
        PROVE  tables[i] \in [frame : Frames, at : Nat, page : [Entries -> Nat \cup {None}]]
    <3>1. tables[i] \in Tables /\ tables[i].frame \in Frames
      BY <2>1, <2>3 DEF Sound, TablesTyped, ReachInv
    <3> QED BY <3>1 DEF Tables
  <2>4. ASSUME ~stopped
        PROVE  calls \in Seq(Activations) /\ \A k \in DOMAIN calls : calls[k].done < calls[k].count
    <3>1. CallsTyped
      BY <2>1, <2>4 DEF Sound
    <3>2. 0 < 1
      OBVIOUS
    <3> QED BY <3>1, <3>2 DEF CallsTyped
  <2>5. VmTypeOK
    <3>1. inuse \subseteq HeapPages /\ headers \in 0..HeaderPages
      BY <2>1 DEF MapInv
    <3>2. stopped \in BOOLEAN
      BY DEF FullInv
    <3> QED BY <2>2, <2>3, <2>4, <3>1, <3>2 DEF VmTypeOK
  <2>6. ASSUME Paging, ~stopped
        PROVE  /\ \A i \in DOMAIN tables : Reached(i)
               /\ \A f \in held[Kernel] : Translate(f) = f
    <3>1. ReachInv /\ TablesTyped /\ plan = <<>>
      BY <2>1, <2>6 DEF Paging, Sound
    <3>2. \A i \in DOMAIN tables : Reached(i)
      <4>1. \A i \in DOMAIN tables : tables[i].at \in Nat
        BY <3>1 DEF TablesTyped, Tables
      <4> QED BY <3>1, <4>1 DEF ReachInv, Reached
    <3>3. ASSUME NEW f \in held[Kernel]
          PROVE  Translate(f) = f
      <4>1. f \in 1..PAGES_PER_TABLE-1 /\ PAGES_PER_TABLE \in Nat \ {0}
        <5>1. PAGES_PER_TABLE \in Nat \ {0}
          BY Regions, Zenon
        <5> QED BY <3>1, <5>1 DEF ReachInv
      <4>2. f \in 0..PAGES_PER_TABLE-1
        BY <4>1
      <4>3. PAGE_DIRECTORY_INDEX(f) = 0 /\ PAGE_TABLE_INDEX(f) = f
        BY <4>1, <4>2, SmallQuotient DEF PAGE_DIRECTORY_INDEX, PAGE_TABLE_INDEX
      <4>4. 0 \in DOMAIN tables /\ tables[0].page[f] = f
        BY <3>1, <4>1 DEF ReachInv, LowFirst
      <4> QED BY <4>3, <4>4 DEF Translate
    <3> QED BY <3>2, <3>3
  <2> QED BY <2>5, <2>6 DEF TablesReachable
<1> QED BY <1>1, FullStart, FullStep, PTL DEF VmSpec

=============================================================================

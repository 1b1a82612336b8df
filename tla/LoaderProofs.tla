---------------------------- MODULE LoaderProofs ----------------------------
(***************************************************************************)
(* For any discs, program headers and buffers that satisfy the hypotheses: *)
(* the search ends with the kernel of the first disc that has one, its     *)
(* offsets balance over every directory and disc, and the kernel that is   *)
(* started is complete.                                                    *)
(***************************************************************************)
EXTENDS Loader, Induction

Clean == Tidy(machine) /\ errors = 0
Searching == pc \in {"traverse", "look"}
Kernel == pc \in {"load", "elf", "segments", "started"}

\* What was found out about the devices of S.
Detected(S) ==
    \A d \in S :
        /\ machine[d].kind # "busy"
        /\ is_atapi[d] = (machine[d].kind = "atapi")
        /\ atapi_sector_size[d] = IF machine[d].kind = "atapi" THEN machine[d].medium.size ELSE 0

Detection ==
    /\ errors \in Nat /\ machine \in Machines /\ dev \in Devices
    /\ DOMAIN is_atapi = Devices /\ DOMAIN atapi_sector_size = Devices
    /\ pc = "detect" => Detected(1..dev-1)
    /\ pc \notin {"detect", "polling"} => Detected(Devices)

\* The devices before this one do not have the kernel.
Passed ==
    /\ pc \notin {"detect", "polling"} => \A d \in WithKernel(machine) : dev <= d
    /\ pc = "error" => \/ WithKernel(machine) = {}
                       \/ memory[KERNEL_LOAD_START] # Junk /\ ~IsElf

\* The disc that is used, and the volume descriptors passed on it.
Reading ==
    /\ pc = "descriptors" \/ Searching \/ Kernel => Readable(machine, dev)
    /\ pc = "descriptors" => i \in 16..20 /\ \A c \in 16..i-1 : Disc[c].type = 0
    /\ Searching => \E b \in Primary(Disc) : dir_entry = Disc[b].root

\* Each disc walked has moved nestedOffset once, and look_offset at most by the parts
\* of the path that it has.
Done == IF Searching THEN walks - 1 ELSE walks
Offsets ==
    /\ walks \in Nat /\ walks <= dev
    /\ pc = "detect" => walks = 0
    /\ pc \in {"check", "descriptors"} => walks < dev
    /\ Searching => walks >= 1
    /\ nestedOffset = IF pc = "traverse" THEN Len(calls) - walks ELSE -walks
    /\ look_offset \in Int
    /\ -Done <= look_offset
    /\ pc \in {"detect", "check", "descriptors", "traverse"} =>
          look_offset <= Done * (Len(kernel_name) - 2)
    /\ pc = "look" => look_offset <= Done * (Len(kernel_name) - 2) + Top.count

Buffer == DOMAIN dir_entries \subseteq -BlocksBelow..BlocksAbove

\* A call that has read its directory finds it where its offset says.
Calls == [start : Nat, bytes : Nat, itr : Nat, offset : Nat, entry : Int, count : Nat]
Read(c, b) ==
    /\ TidyDirectory(Disc, c)
    /\ c.itr \in 0..1 /\ (c.itr = 0 => c.offset = 0)
    /\ c.offset <= Len(Disc[c.start].entries)
    /\ c.itr = 1 => b \in DOMAIN dir_entries /\ dir_entries[b] = Disc[c.start]
Descended(c, b, called) ==
    /\ c.itr = 1 /\ c.offset < Len(Disc[c.start].entries)
    /\ c.entry = b * SLOTS + c.offset
    /\ Below(Disc, called.start, c.start)
Walk ==
    pc = "traverse" =>
        /\ calls \in Seq(Calls) /\ Len(calls) >= 1
        /\ \A k \in 1..Len(calls) : Read(calls[k], k - walks)
        /\ \A k \in 1..Len(calls)-1 : Descended(calls[k], k - walks, calls[k+1])

\* The directory that is looked through is the one the parts of the path before lead
\* to, and the entries passed lead nowhere.
Leads(e, n) == e.name = kernel_name[n+1] /\ ~e.hidden /\ (n = Len(kernel_name) - 1 \/ e.dir)
Look ==
    pc = "look" =>
        /\ calls \in Seq(Calls) /\ Len(calls) = 1
        /\ Read(Top, look_offset) /\ Top.count < Len(kernel_name)
        /\ \E e \in ResolvedBy(Disc)[Top.count] :
              e.dir /\ e.start = Top.start /\ e.bytes = Top.bytes
        /\ \A j \in 1..Top.offset : ~Leads(Disc[Top.start].entries[j], Top.count)

SearchInv ==
    /\ Passed /\ Reading /\ Offsets /\ Buffer /\ Walk /\ Look
    /\ Kernel => searched \in Resolved(Disc)

\* The first n blocks of the file are where it is loaded to.
LoadedTo(n) ==
    \A k \in 0..n-1 :
        searched.start + k \in DOMAIN Disc /\ KERNEL_LOAD_START + k < MemoryEnd =>
            memory[KERNEL_LOAD_START + k] = Disc[searched.start + k]

KernelFile == Disc[searched.start].file
Placed(p) ==
    /\ \A j \in 0..p.filesz-1 : memory[p.vaddr + j] = Disc[searched.start + p.offset + j]
    /\ \A j \in p.filesz..p.memsz-1 : memory[p.vaddr + j] = Zero

LoadInv ==
    /\ DOMAIN memory = 0..MemoryEnd-1
    /\ pc = "load" => i \in 0..LastBlock /\ LoadedTo(i)
    /\ pc = "elf" => i = 0 /\ LoadedTo(LastBlock + 1)
    /\ pc \in {"segments", "started"} => Disc[searched.start].is = "file" /\ KernelFile \in DOMAIN Elf
    /\ pc \in {"segments", "started"} /\ Fits(Elf[KernelFile]) =>
         /\ LoadedTo(LastBlock + 1) /\ i \in 0..Len(Elf[KernelFile])
         /\ pc = "started" => i = Len(Elf[KernelFile])
         /\ \A k \in 1..i : Elf[KernelFile][k].load => Placed(Elf[KernelFile][k])

LoaderInv == Detection /\ (Clean => SearchInv /\ LoadInv)

---------------------------------------------------------------------------
(* The entries that the kernel's path leads to                             *)

LEMMA OnePrimary ==
  ASSUME NEW disc, NEW b \in Primary(disc), NEW c \in Primary(disc) PROVE b = c
<1>1. b \in 16..20 /\ c \in 16..20
  BY DEF Primary, VolumeDescriptors
<1>2. ~(b < c) /\ ~(c < b)
  BY <1>1 DEF Primary
<1> QED BY <1>1, <1>2

Whole(disc) == TidyDisc(disc) /\ \A b \in DOMAIN disc : IsBlock(disc[b])

Entries(disc) ==
    {disc[b].root : b \in Primary(disc)}
    \cup UNION {{disc[b].entries[j] : j \in DOMAIN disc[b].entries} :
                  b \in {b \in DOMAIN disc : disc[b].is = "directory"}}

LEMMA EntryFacts ==
  ASSUME NEW disc, Whole(disc), NEW e \in Entries(disc)
  PROVE  IsEntry(e) /\ (e.dir => TidyDirectory(disc, e))
<1>1. ASSUME NEW b \in Primary(disc), e = disc[b].root
      PROVE  IsEntry(e) /\ TidyDirectory(disc, e)
  <2>1. b \in DOMAIN disc /\ disc[b].is = "volume" /\ TidyDirectory(disc, disc[b].root)
    BY <1>1 DEF Primary, Whole, TidyDisc
  <2> QED BY <1>1, <2>1 DEF Whole, IsBlock
<1>2. ASSUME NEW b \in DOMAIN disc, disc[b].is = "directory", NEW j \in DOMAIN disc[b].entries,
             e = disc[b].entries[j]
      PROVE  IsEntry(e) /\ (e.dir => TidyDirectory(disc, e))
  BY <1>2 DEF Whole, IsBlock, TidyDisc
<1> QED BY <1>1, <1>2 DEF Entries

\* The entries of the directory an entry leads to.
LEMMA NamedFacts ==
  ASSUME NEW disc, Whole(disc), NEW dir \in Entries(disc), dir.dir, NEW name
  PROVE  /\ Named(disc, dir, name) \subseteq Entries(disc)
         /\ \A x, y \in Named(disc, dir, name) : x = y
<1>1. TidyDirectory(disc, dir)
  BY EntryFacts
<1>2. dir.start \in {b \in DOMAIN disc : disc[b].is = "directory"}
  BY <1>1 DEF TidyDirectory
<1>3. Named(disc, dir, name) \subseteq Entries(disc)
  BY <1>2 DEF Named, Entries
<1>4. \A x, y \in Named(disc, dir, name) : x = y
  BY <1>1 DEF TidyDirectory, Named
<1> QED BY <1>3, <1>4

Leading(disc, n, S) == UNION {Named(disc, dir, kernel_name[n]) : dir \in {e \in S : e.dir}}

LEMMA ResolvedSteps ==
  ASSUME NEW disc, Whole(disc)
  PROVE  /\ ResolvedBy(disc)[0] = {disc[b].root : b \in Primary(disc)}
         /\ \A n \in 1..Len(kernel_name) :
              ResolvedBy(disc)[n] = Leading(disc, n, ResolvedBy(disc)[n-1])
         /\ \A n \in 0..Len(kernel_name) : ResolvedBy(disc)[n] \subseteq Entries(disc)
<1> DEFINE N == Len(kernel_name)
           V == SUBSET Entries(disc)
           v0 == {disc[b].root : b \in Primary(disc)}
           F == [n \in Nat |-> [S \in V |-> Leading(disc, n, S)]]
           Eq(at) == at = [n \in 0..N |-> IF n = 0 THEN v0 ELSE Leading(disc, n, at[n-1])]
<1>1. N \in Nat
  BY LoaderConstants
<1>2. v0 \in V
  BY DEF Entries
<1>3. F \in [Nat -> [V -> V]]
  <2> SUFFICES ASSUME NEW n \in Nat, NEW S \in V PROVE Leading(disc, n, S) \in V
    OBVIOUS
  <2> QED BY NamedFacts DEF Leading
<1>4. \A n \in Nat, S \in V : F[n][S] = Leading(disc, n, S)
  OBVIOUS
<1> HIDE DEF F, V, v0
<1>5. PICK f \in [0..N -> V] : f[0] = v0 /\ \A n \in 1..N : f[n] = F[n][f[n-1]]
  <2>1. Recurs(V, v0, F, N)
    BY <1>1, <1>2, <1>3, Recursion
  <2> QED BY <2>1 DEF Recurs
<1>6. Eq(f)
  <2> SUFFICES ASSUME NEW n \in 0..N, n # 0 PROVE f[n] = Leading(disc, n, f[n-1])
    BY <1>5
  <2>1. n \in 1..N /\ n - 1 \in 0..N /\ n \in Nat
    BY <1>1
  <2> QED BY <1>4, <1>5, <2>1
<1>7. ResolvedBy(disc) = CHOOSE at : Eq(at)
  BY DEF ResolvedBy, Leading, v0
<1>8. Eq(ResolvedBy(disc))
  <2> HIDE DEF Eq
  <2> QED BY <1>6, <1>7
<1>9. ResolvedBy(disc) = f
  <2> DEFINE g == ResolvedBy(disc)
             T == {n \in 0..N : g[n] = f[n]}
  <2> HIDE DEF g
  <2>0. Eq(g)
    BY <1>8 DEF g
  <2>1. T = 0..N
    <3>1. 0 \in T
      BY <1>1, <1>5, <2>0
    <3>2. ASSUME NEW n \in T, n < N PROVE n + 1 \in T
      <4>1. n + 1 \in 0..N /\ n + 1 # 0 /\ (n + 1) - 1 = n
        BY <1>1, <3>2
      <4>2. g[n+1] = Leading(disc, n+1, g[n]) /\ f[n+1] = Leading(disc, n+1, f[n])
        BY <1>6, <2>0, <4>1
      <4> QED BY <4>1, <4>2
    <3> HIDE DEF T
    <3>3. T \in SUBSET (0..N)
      BY DEF T
    <3> QED BY <1>1, <3>1, <3>2, <3>3, EveryNumber
  <2>2. DOMAIN g = 0..N /\ DOMAIN f = 0..N /\ g = [n \in 0..N |-> g[n]] /\ f = [n \in 0..N |-> f[n]]
    BY <1>6, <2>0
  <2> QED BY <2>1, <2>2 DEF g
<1>10. \A n \in 1..N : f[n] = Leading(disc, n, f[n-1])
  <2> SUFFICES ASSUME NEW n \in 1..N PROVE f[n] = Leading(disc, n, f[n-1])
    OBVIOUS
  <2>1. n \in 0..N /\ n # 0
    BY <1>1
  <2> QED BY <1>6, <2>1
<1>11. \A n \in 0..N : f[n] \subseteq Entries(disc)
  BY <1>5 DEF V
<1>12. f[0] = {disc[b].root : b \in Primary(disc)}
  BY <1>5 DEF v0
<1> QED
  BY <1>9, <1>10, <1>11, <1>12

\* The path leads to one entry, or to none.
LEMMA OnePath ==
  ASSUME NEW disc, Whole(disc), NEW n \in 0..Len(kernel_name),
         NEW x \in ResolvedBy(disc)[n], NEW y \in ResolvedBy(disc)[n]
  PROVE  x = y
<1> DEFINE N == Len(kernel_name)
           at == ResolvedBy(disc)
           T == {k \in 0..N : \A a, b \in at[k] : a = b}
<1>1. N \in Nat
  BY LoaderConstants
<1>2. 0 \in T
  BY <1>1, ResolvedSteps, OnePrimary
<1>3. ASSUME NEW k \in T, k < N PROVE k + 1 \in T
  <2>1. k + 1 \in 1..N /\ k + 1 \in 0..N /\ (k + 1) - 1 = k /\ k \in 0..N
    BY <1>1, <1>3
  <2>2. at[k+1] = Leading(disc, k+1, at[k]) /\ at[k] \subseteq Entries(disc)
    BY <2>1, ResolvedSteps
  <2>3. \A a, b \in at[k] : a = b
    OBVIOUS
  <2> HIDE DEF at
  <2>4. \A a, b \in at[k+1] : a = b
    BY <2>2, <2>3, NamedFacts DEF Leading
  <2> QED BY <2>1, <2>4
<1> HIDE DEF T
<1>4. T = 0..N
  BY <1>1, <1>2, <1>3, EveryNumber DEF T
<1> QED BY <1>4 DEF T

---------------------------------------------------------------------------
(* Steps: what is found out about the devices, and when machines are clean *)

LEMMA StepErrors ==
  Detection /\ [Next]_vars => machine' = machine /\ errors' \in {errors, errors + 1}
<1> SUFFICES ASSUME Detection, [Next]_vars PROVE machine' = machine /\ errors' \in {errors, errors + 1}
  OBVIOUS
<1>1. ASSUME NEW lba, NEW old, NEW answer \in Answers(lba, old)
      PROVE  answer.errors \in {errors, errors + 1}
  BY DEF Answers
<1>2. CASE UNCHANGED vars
  BY <1>2 DEF vars
<1>3. CASE detect_device_ata_atapi \/ check_and_load_kernel
  BY <1>3 DEF detect_device_ata_atapi, check_and_load_kernel, drive
<1>4. CASE read_atapi_device
  BY <1>1, <1>4 DEF read_atapi_device, drive
<1>5. CASE traverse_reads \/ look_reads
  BY <1>1, <1>5 DEF traverse_reads, look_reads, ReadBlock, drive
<1>6. CASE traverse \/ look_for_file
  BY <1>6 DEF traverse, look_for_file, drive
<1>7. CASE load_kernel
  BY <1>1, <1>7 DEF load_kernel, drive
<1>8. CASE load_elf32 \/ load_segment
  BY <1>8 DEF load_elf32, load_segment, drive
<1> QED BY <1>2, <1>3, <1>4, <1>5, <1>6, <1>7, <1>8 DEF Next

\* A step on which a clean machine stays clean.
CleanStep == Detection /\ Clean /\ Clean' /\ machine' = machine /\ errors' = errors /\ errors = 0

LEMMA CleanBefore == Detection /\ [Next]_vars /\ Clean' => CleanStep
BY StepErrors DEF CleanStep, Clean, Detection

LEMMA NextDeviceFacts ==
  ASSUME NextDevice, dev \in Devices
  PROVE  /\ dev' \in Devices /\ pc' \in {"check", "error"}
         /\ pc' = "check" => dev' = dev + 1
         /\ pc' = "error" => dev = 4 /\ dev' = dev
BY DEF NextDevice, Devices

\* After detection the devices stay as they were found to be.
LEMMA DetectionStep == Detection /\ [Next]_vars => Detection'
<1> SUFFICES ASSUME Detection, [Next]_vars PROVE Detection'
  OBVIOUS
<1>1. errors' \in Nat /\ machine' = machine /\ machine' \in Machines
  BY StepErrors DEF Detection
<1>2. ASSUME dev' \in Devices, UNCHANGED <<is_atapi, atapi_sector_size>>,
             pc \notin {"detect", "polling"}, pc' \notin {"detect", "polling"}
      PROVE  Detection'
  BY <1>1, <1>2 DEF Detection, Detected
<1>3. CASE UNCHANGED vars
  BY <1>1, <1>3 DEF vars, Detection, Detected
<1>4. CASE detect_device_ata_atapi
  <2> DEFINE device == machine[dev]
  <2>1. dev \in 1..4 /\ dev' = IF dev = 4 THEN 1 ELSE dev + 1
    BY <1>4 DEF detect_device_ata_atapi, Detection, Devices
  <2>2. /\ is_atapi' = [is_atapi EXCEPT ![dev] = device.kind \in {"atapi", "busy"}]
        /\ atapi_sector_size' = [atapi_sector_size EXCEPT ![dev] =
              IF device.kind = "atapi" THEN device.medium.size ELSE 0]
        /\ pc' = IF device.kind = "busy" THEN "polling" ELSE IF dev = 4 THEN "check" ELSE "detect"
        /\ Detected(1..dev-1) /\ DOMAIN is_atapi = Devices /\ DOMAIN atapi_sector_size = Devices
    BY <1>4 DEF detect_device_ata_atapi, Detection
  <2>3. DOMAIN is_atapi' = Devices /\ DOMAIN atapi_sector_size' = Devices /\ dev' \in Devices
    BY <2>1, <2>2 DEF Devices
  <2>4. ASSUME device.kind # "busy", NEW d \in 1..dev
        PROVE  /\ machine'[d].kind # "busy"
               /\ is_atapi'[d] = (machine'[d].kind = "atapi")
               /\ atapi_sector_size'[d] =
                    IF machine'[d].kind = "atapi" THEN machine'[d].medium.size ELSE 0
    <3>1. CASE d = dev
      BY <1>1, <2>1, <2>2, <2>4, <3>1 DEF Devices
    <3>2. CASE d # dev
      <4>1. d \in 1..dev-1 /\ d \in Devices
        BY <2>1, <2>4, <3>2 DEF Devices
      <4> QED BY <1>1, <2>2, <3>2, <4>1 DEF Detected
    <3> QED BY <3>1, <3>2
  <2>5. CASE device.kind = "busy"
    BY <1>1, <2>2, <2>3, <2>5 DEF Detection
  <2>6. CASE device.kind # "busy" /\ dev = 4
    <3>1. Detected(Devices)'
      BY <2>4, <2>6 DEF Detected, Devices
    <3> QED BY <1>1, <2>2, <2>3, <2>6, <3>1 DEF Detection
  <2>7. CASE device.kind # "busy" /\ dev # 4
    <3>1. dev' = dev + 1 /\ pc' = "detect" /\ 1..dev'-1 = 1..dev
      BY <2>1, <2>2, <2>7
    <3>2. Detected(1..dev-1)'
      BY <2>4, <2>7, <3>1 DEF Detected
    <3> QED BY <1>1, <2>3, <3>1, <3>2 DEF Detection
  <2> QED BY <2>5, <2>6, <2>7
<1>5. CASE check_and_load_kernel
  <2>1. pc' \in {"descriptors", "check", "error"} /\ dev' \in Devices
    BY <1>5, NextDeviceFacts DEF check_and_load_kernel, Detection
  <2> QED BY <1>2, <1>5, <2>1 DEF check_and_load_kernel, drive
<1>6. CASE read_atapi_device
  <2>1. pc' \in {"wild", "traverse", "descriptors", "check", "error"} /\ dev' \in Devices
    BY <1>6, NextDeviceFacts DEF read_atapi_device, Detection
  <2> QED BY <1>2, <1>6, <2>1 DEF read_atapi_device, drive
<1>7. CASE traverse_reads \/ look_reads
  BY <1>2, <1>7 DEF traverse_reads, look_reads, ReadBlock, drive, Detection
<1>8. CASE traverse
  <2>1. pc' \in {"wild", "traverse", "look"} /\ dev' = dev
    BY <1>8 DEF traverse, TraverseReturns, navigate_to_file_directory_entry
  <2> QED BY <1>2, <1>8, <2>1 DEF traverse, drive, Detection
<1>9. CASE look_for_file
  <2>1. pc' \in {"wild", "look", "load", "check", "error"} /\ dev' \in Devices
    BY <1>9, NextDeviceFacts DEF look_for_file, Detection, NotFound, Loading
  <2> QED BY <1>2, <1>9, <2>1 DEF look_for_file, drive
<1>10. CASE load_kernel
  BY <1>2, <1>10 DEF load_kernel, drive, Detection
<1>11. CASE load_elf32
  BY <1>2, <1>11 DEF load_elf32, drive, Detection
<1>12. CASE load_segment
  BY <1>2, <1>12 DEF load_segment, drive, Detection
<1> QED
  BY <1>3, <1>4, <1>5, <1>6, <1>7, <1>8, <1>9, <1>10, <1>11, <1>12 DEF Next

---------------------------------------------------------------------------
(* What is known of the disc that is used                                  *)

LEMMA DiscFacts ==
  ASSUME Detection
  PROVE  /\ dev \in 1..4 /\ machine \in Machines /\ Disc = Blocks(machine, dev)
         /\ \A b \in DOMAIN Disc : IsBlock(Disc[b])
         /\ Tidy(machine) /\ Readable(machine, dev) => Whole(Disc)
<1>1. dev \in 1..4 /\ dev \in Devices /\ machine \in Machines
  BY DEF Detection, Devices
<1>2. \A b \in DOMAIN Disc : IsBlock(Disc[b])
  BY <1>1, Media DEF Disc
<1>3. Disc = Blocks(machine, dev)
  BY DEF Disc, Blocks
<1>4. Tidy(machine) /\ Readable(machine, dev) => TidyDisc(Disc)
  BY <1>1, <1>3 DEF Tidy
<1> QED BY <1>1, <1>2, <1>3, <1>4 DEF Whole

\* A read without an error: the block if there is one, and nothing otherwise.
LEMMA CleanAnswer ==
  ASSUME NEW lba, NEW old, NEW answer \in Answers(lba, old), errors \in Nat, answer.errors = errors
  PROVE  answer.new = IF lba \in DOMAIN Disc THEN Disc[lba] ELSE old
BY DEF Answers

LEMMA ReadableDevice ==
  ASSUME Detection, pc = "check"
  PROVE  (is_atapi[dev] /\ atapi_sector_size[dev] = BLOCK_SIZE) = Readable(machine, dev)
<1>1. /\ is_atapi[dev] = (machine[dev].kind = "atapi")
      /\ atapi_sector_size[dev] = IF machine[dev].kind = "atapi" THEN machine[dev].medium.size ELSE 0
  BY DEF Detection, Detected
<1> QED BY <1>1 DEF Readable

LEMMA Parts == Len(kernel_name) \in Nat /\ Len(kernel_name) >= 1 /\ Len(kernel_name) - 2 \in Int
BY LoaderConstants

\* Where no part of the path leads on, it leads nowhere.
LEMMA Barren ==
  ASSUME NEW disc, Whole(disc), NEW n \in 0..Len(kernel_name)-1,
         \A e \in ResolvedBy(disc)[n] : ~e.dir
  PROVE  Resolved(disc) = {}
<1> DEFINE N == Len(kernel_name)
           at == ResolvedBy(disc)
           T == {k \in 0..N : k > n => at[k] = {}}
<1>1. N \in Nat /\ n \in 0..N /\ n \in Nat
  BY LoaderConstants
<1>2. 0 \in T
  BY <1>1
<1>3. ASSUME NEW k \in T, k < N PROVE k + 1 \in T
  <2>1. k + 1 \in 1..N /\ k + 1 \in 0..N /\ (k + 1) - 1 = k /\ k \in Nat
    BY <1>1, <1>3
  <2>2. at[k+1] = Leading(disc, k+1, at[k])
    BY <2>1, ResolvedSteps
  <2>3. k >= n => \A e \in at[k] : ~e.dir
    <3>1. CASE k = n
      BY <3>1
    <3>2. CASE k > n
      BY <3>2
    <3> QED BY <1>1, <2>1, <3>1, <3>2
  <2> HIDE DEF at
  <2>4. k >= n => at[k+1] = {}
    BY <2>2, <2>3 DEF Leading
  <2> QED BY <1>1, <2>1, <2>4
<1> HIDE DEF T
<1>4. T = 0..N
  BY <1>1, <1>2, <1>3, EveryNumber DEF T
<1>5. N \in T /\ N > n
  BY <1>1, <1>4
<1> QED BY <1>5 DEF T, Resolved

---------------------------------------------------------------------------
(* Steps: detection, and the volume descriptors                            *)

\* A device that does not have the kernel is left with its offsets balanced.
GivesUp ==
    /\ NextDevice /\ dev \notin WithKernel(machine)
    /\ pc \notin {"detect", "polling"}
    /\ walks' = walks /\ nestedOffset' = -walks
    /\ look_offset' \in Int /\ -walks <= look_offset'
    /\ look_offset' <= walks * (Len(kernel_name) - 2)
    /\ dir_entries' = dir_entries /\ memory' = memory

LEMMA GivesUpKeeps ==
  ASSUME CleanStep, SearchInv, LoadInv, GivesUp
  PROVE  SearchInv' /\ LoadInv'
<1>1. /\ dev \in 1..4 /\ dev' \in 1..4 /\ pc' \in {"check", "error"}
      /\ pc' = "check" => dev' = dev + 1
      /\ pc' = "error" => dev = 4 /\ dev' = dev
      /\ dev' <= dev + 1
  BY NextDeviceFacts DEF CleanStep, Detection, GivesUp, Devices
<1>2. ~Searching' /\ ~Kernel' /\ machine' = machine
  BY <1>1 DEF Searching, Kernel, CleanStep
<1>3. \A d \in WithKernel(machine) : d \in 1..4 /\ dev < d
  <2>1. \A d \in WithKernel(machine) : d \in 1..4 /\ dev <= d /\ d # dev
    BY DEF SearchInv, Passed, GivesUp, WithKernel, Devices
  <2> QED BY <1>1, <2>1
<1>4. Passed'
  <2>1. pc' = "check" => \A d \in WithKernel(machine) : dev' <= d
    BY <1>1, <1>3
  <2>2. pc' = "error" => WithKernel(machine) = {}
    BY <1>1, <1>3
  <2> QED BY <1>1, <1>2, <2>1, <2>2 DEF Passed
<1>5. Reading'
  BY <1>1, <1>2 DEF Reading
<1>6. Offsets'
  <2>1. walks \in Nat /\ walks <= dev
    BY DEF SearchInv, Offsets
  <2>2. Done' = walks
    BY <1>2 DEF Done, GivesUp
  <2>3. walks' \in Nat /\ walks' <= dev' /\ (pc' = "check" => walks' < dev')
    BY <1>1, <2>1 DEF GivesUp
  <2> QED BY <1>1, <1>2, <2>2, <2>3 DEF Offsets, GivesUp
<1>7. Buffer' /\ Walk' /\ Look'
  BY <1>1 DEF Buffer, Walk, Look, SearchInv, GivesUp
<1>8. LoadInv'
  BY <1>1 DEF LoadInv, GivesUp
<1> QED BY <1>2, <1>4, <1>5, <1>6, <1>7, <1>8 DEF SearchInv

LEMMA DetectKeeps ==
  ASSUME CleanStep, SearchInv, LoadInv, detect_device_ata_atapi
  PROVE  SearchInv' /\ LoadInv'
<1>1. /\ pc = "detect" /\ pc' \in {"polling", "check", "detect"}
      /\ dev \in 1..4 /\ dev' \in 1..4 /\ (pc' = "check" => dev' = 1)
      /\ UNCHANGED <<volume, buffers, calls, searched, i, image>>
  BY DEF detect_device_ata_atapi, CleanStep, Detection, Devices
<1>2. ~Searching' /\ ~Kernel' /\ ~Searching /\ ~Kernel
  BY <1>1 DEF Searching, Kernel
<1>3. Passed'
  <2>1. pc' = "check" => \A d \in WithKernel(machine)' : dev' <= d
    BY <1>1 DEF WithKernel, Devices
  <2> QED BY <1>1, <2>1 DEF Passed
<1>4. Reading'
  BY <1>1, <1>2 DEF Reading
<1>5. Offsets'
  <2>1. /\ walks = 0 /\ nestedOffset = -walks /\ Done = walks /\ look_offset \in Int
        /\ -Done <= look_offset /\ look_offset <= Done * (Len(kernel_name) - 2)
    BY <1>1, <1>2 DEF SearchInv, Offsets, Done
  <2>2. /\ walks' = walks /\ nestedOffset' = nestedOffset /\ look_offset' = look_offset
        /\ Done' = walks
    BY <1>1, <1>2 DEF buffers, Done
  <2>3. 0 \in Nat /\ 0 <= dev' /\ 0 < dev'
    BY <1>1
  <2> QED BY <1>1, <1>2, <2>1, <2>2, <2>3 DEF Offsets
<1>6. Buffer' /\ Walk' /\ Look'
  BY <1>1 DEF Buffer, Walk, Look, SearchInv, buffers
<1>7. LoadInv'
  BY <1>1 DEF LoadInv, image
<1> QED BY <1>2, <1>3, <1>4, <1>5, <1>6, <1>7 DEF SearchInv

LEMMA CheckKeeps ==
  ASSUME CleanStep, SearchInv, LoadInv, check_and_load_kernel
  PROVE  SearchInv' /\ LoadInv'
<1>1. /\ pc = "check" /\ machine' = machine /\ UNCHANGED <<buffers, image>> /\ Detection
  BY DEF check_and_load_kernel, CleanStep
<1>2. ~Searching /\ ~Kernel
  BY <1>1 DEF Searching, Kernel
<1>3. /\ walks \in Nat /\ walks <= dev /\ walks < dev /\ nestedOffset = -walks
      /\ look_offset \in Int /\ -walks <= look_offset
      /\ look_offset <= walks * (Len(kernel_name) - 2)
  BY <1>1, <1>2 DEF SearchInv, Offsets, Done
<1>4. CASE is_atapi[dev] /\ atapi_sector_size[dev] = BLOCK_SIZE
  <2>1. pc' = "descriptors" /\ i' = 16 /\ dev' = dev /\ Readable(machine, dev)
    BY <1>1, <1>4, ReadableDevice DEF check_and_load_kernel
  <2>2. ~Searching' /\ ~Kernel'
    BY <2>1 DEF Searching, Kernel
  <2>3. Passed'
    BY <1>1, <2>1 DEF Passed, SearchInv
  <2>4. Reading'
    BY <1>1, <2>1, <2>2 DEF Reading
  <2>5. Offsets'
    BY <1>1, <1>3, <2>1, <2>2 DEF Offsets, Done, buffers
  <2>6. Buffer' /\ Walk' /\ Look'
    BY <1>1, <2>1 DEF Buffer, Walk, Look, SearchInv, buffers
  <2>7. LoadInv'
    BY <1>1, <2>1 DEF LoadInv, image
  <2> QED BY <2>2, <2>3, <2>4, <2>5, <2>6, <2>7 DEF SearchInv
<1>5. CASE ~(is_atapi[dev] /\ atapi_sector_size[dev] = BLOCK_SIZE)
  <2>1. NextDevice /\ dev \notin WithKernel(machine)
    BY <1>1, <1>5, ReadableDevice DEF check_and_load_kernel, WithKernel
  <2>2. GivesUp
    BY <1>1, <1>3, <2>1 DEF GivesUp, buffers, image
  <2> QED BY <2>2, GivesUpKeeps
<1> QED BY <1>4, <1>5

\* The volume descriptors before the primary one are of type 0.
LEMMA DescriptorsKeep ==
  ASSUME CleanStep, SearchInv, LoadInv, read_atapi_device
  PROVE  SearchInv' /\ LoadInv'
<1>1. /\ pc = "descriptors" /\ machine' = machine /\ Detection /\ Readable(machine, dev)
      /\ i \in 16..20 /\ \A c \in 16..i-1 : Disc[c].type = 0
      /\ UNCHANGED <<dir_entries, nestedOffset, look_offset, searched, image>>
  BY DEF read_atapi_device, CleanStep, SearchInv, Reading
<1>2. ~Searching /\ ~Kernel
  BY <1>1 DEF Searching, Kernel
<1>3. /\ walks \in Nat /\ walks <= dev /\ walks < dev /\ nestedOffset = -walks
      /\ look_offset \in Int /\ -walks <= look_offset
      /\ look_offset <= walks * (Len(kernel_name) - 2)
  BY <1>1, <1>2 DEF SearchInv, Offsets, Done
<1>4. Whole(Disc) /\ i \in DOMAIN Disc /\ Disc[i].is = "volume" /\ Disc = Blocks(machine, dev)
  BY <1>1, DiscFacts DEF CleanStep, Clean, Whole, TidyDisc, VolumeDescriptors
<1>5. PICK answer \in Answers(i, root) : \E type \in VolumeType(answer.new) :
          /\ root' = answer.new /\ errors' = answer.errors
          /\ \/ /\ type = 1 /\ answer.new.is = "volume"
                /\ dir_entry' = answer.new.root /\ calls' = <<Call(answer.new.root, 0)>>
                /\ walks' = walks + 1
                /\ pc' = "traverse" /\ UNCHANGED <<dev, i>>
             \/ /\ type = 1 /\ answer.new.is # "volume"
                /\ pc' = "wild" /\ UNCHANGED <<dir_entry, calls, walks, dev, i>>
             \/ /\ type = 255 \/ (type = 0 /\ i = 20)
                /\ NextDevice /\ UNCHANGED <<dir_entry, calls, walks, i>>
             \/ /\ type = 0 /\ i < 20
                /\ i' = i + 1 /\ UNCHANGED <<pc, dir_entry, calls, walks, dev>>
  BY DEF read_atapi_device
<1> DEFINE type == Disc[i].type
<1>6. answer.new = Disc[i] /\ VolumeType(answer.new) = {type}
  BY <1>4, <1>5, CleanAnswer DEF CleanStep, VolumeType
<1>7. CASE /\ type = 1 /\ dir_entry' = Disc[i].root /\ calls' = <<Call(Disc[i].root, 0)>>
           /\ walks' = walks + 1 /\ pc' = "traverse" /\ UNCHANGED <<dev, i>>
  <2> DEFINE c == Call(Disc[i].root, 0)
  <2>0. Searching' /\ ~Kernel' /\ Disc' = Disc
    BY <1>1, <1>7 DEF Searching, Kernel, Disc
  <2>1. i \in Primary(Disc)
    BY <1>1, <1>6, <1>7 DEF Primary, VolumeDescriptors
  <2>2. Passed'
    BY <1>1, <1>7 DEF Passed, SearchInv
  <2>3. Reading'
    BY <1>1, <1>7, <2>0, <2>1 DEF Reading
  <2>4. /\ Len(calls') = 1 /\ calls'[1] = c /\ c \in Calls /\ calls' \in Seq(Calls)
        /\ TidyDirectory(Disc, Disc[i].root)
    <3>1. IsEntry(Disc[i].root) /\ TidyDirectory(Disc, Disc[i].root)
      BY <1>4, <2>1 DEF Whole, IsBlock, TidyDisc
    <3>2. c \in Calls
      BY <3>1 DEF IsEntry, Call, Calls
    <3> QED BY <1>7, <3>1, <3>2
  <2>5. Offsets'
    <3>1. dev \in 1..4
      BY <1>1, DiscFacts
    <3>2. walks' = walks + 1 /\ walks \in Nat /\ walks < dev /\ nestedOffset = -walks
      BY <1>3, <1>7
    <3>3. walks' \in Nat /\ walks' <= dev /\ walks' >= 1 /\ walks' - 1 = walks
      BY <3>1, <3>2
    <3>4. nestedOffset = 1 - walks'
      BY <3>2
    <3>5. Done' = walks
      BY <2>0, <3>3 DEF Done
    <3> QED BY <1>1, <1>3, <1>7, <2>0, <2>4, <3>1, <3>3, <3>4, <3>5 DEF Offsets
  <2>6. Walk'
    <3>1. Read(calls[1], 1 - walks)'
      <4>1. c.itr = 0 /\ c.offset = 0 /\ c.start = Disc[i].root.start /\ c.bytes = Disc[i].root.bytes
        BY DEF Call
      <4>2. TidyDirectory(Disc, c) /\ 0 <= Len(Disc[c.start].entries)
        BY <1>4, <2>4, <4>1 DEF TidyDirectory, Whole, IsBlock, IsList
      <4> QED BY <1>7, <2>0, <2>4, <4>1, <4>2 DEF Read
    <3>2. \A k \in 1..Len(calls') : k = 1
      BY <2>4
    <3>3. \A k \in 1..Len(calls')-1 : FALSE
      BY <2>4
    <3> QED BY <1>7, <2>0, <2>4, <3>1, <3>2, <3>3 DEF Walk
  <2>7. Buffer' /\ Look'
    BY <1>1, <1>7 DEF Buffer, Look, SearchInv
  <2>8. LoadInv'
    BY <1>1, <1>7 DEF LoadInv, image
  <2> QED BY <2>0, <2>2, <2>3, <2>5, <2>6, <2>7, <2>8 DEF SearchInv
<1>8. CASE (type = 255 \/ (type = 0 /\ i = 20)) /\ NextDevice /\ UNCHANGED <<calls, walks>>
  <2>1. Primary(Disc) = {}
    <3> SUFFICES ASSUME NEW b \in Primary(Disc) PROVE FALSE
      OBVIOUS
    <3>1. b \in 16..20 /\ Disc[b].type = 1 /\ \A c \in 16..b-1 : Disc[c].type = 0
      BY DEF Primary, VolumeDescriptors
    <3>2. ~(b < i) /\ b # i
      BY <1>1, <1>6, <1>8, <3>1
    <3>3. ~(i < b)
      BY <1>1, <1>6, <1>8, <3>1
    <3> QED BY <1>1, <3>1, <3>2, <3>3
  <2>2. Resolved(Disc) = {}
    <3>1. 0 \in 0..Len(kernel_name)-1
      BY Parts
    <3>2. ResolvedBy(Disc)[0] = {}
      BY <1>4, <2>1, ResolvedSteps
    <3> QED BY <1>4, <3>1, <3>2, Barren
  <2>3. dev \notin WithKernel(machine)
    BY <1>4, <2>2 DEF WithKernel
  <2>4. GivesUp
    BY <1>1, <1>3, <1>8, <2>3 DEF GivesUp, image
  <2> QED BY <2>4, GivesUpKeeps
<1>9. CASE type = 0 /\ i < 20 /\ i' = i + 1 /\ UNCHANGED <<pc, dir_entry, calls, walks, dev>>
  <2>0. ~Searching' /\ ~Kernel' /\ Disc' = Disc /\ pc' = "descriptors"
    BY <1>1, <1>9 DEF Searching, Kernel, Disc
  <2>1. Passed'
    BY <1>1, <1>9, <2>0 DEF Passed, SearchInv
  <2>2. Reading'
    <3>1. i' \in 16..20 /\ \A c \in 16..i'-1 : Disc[c].type = 0
      BY <1>1, <1>6, <1>9
    <3> QED BY <1>1, <1>9, <2>0, <3>1 DEF Reading, Readable
  <2>3. Offsets'
    BY <1>1, <1>2, <1>3, <1>9, <2>0 DEF Offsets, Done
  <2>4. Buffer' /\ Walk' /\ Look'
    BY <1>1, <2>0 DEF Buffer, Walk, Look, SearchInv
  <2>5. LoadInv'
    BY <1>1, <2>0 DEF LoadInv, image
  <2> QED BY <2>0, <2>1, <2>2, <2>3, <2>4, <2>5 DEF SearchInv
<1> QED BY <1>4, <1>5, <1>6, <1>7, <1>8, <1>9

---------------------------------------------------------------------------
(* Steps: the walk through all directories                                 *)

LEMMA TidyFacts ==
  ASSUME Whole(Disc), NEW c, TidyDirectory(Disc, c)
  PROVE  /\ Sectors(c.bytes) = 1 /\ c.start \in DOMAIN Disc
         /\ Disc[c.start].is = "directory"
         /\ Len(Disc[c.start].entries) \in Nat /\ Len(Disc[c.start].entries) < SLOTS
         /\ DOMAIN Disc[c.start].entries = 1..Len(Disc[c.start].entries)
         /\ \A j \in 1..Len(Disc[c.start].entries) :
              LET e == Disc[c.start].entries[j] IN
              /\ IsEntry(e) /\ e # Free /\ e # Junk
              /\ e.dir => TidyDirectory(Disc, e)
<1>1. /\ Sectors(c.bytes) = 1 /\ c.start \in DOMAIN Disc /\ Disc[c.start].is = "directory"
      /\ Len(Disc[c.start].entries) < SLOTS
  BY DEF TidyDirectory
<1>2. IsBlock(Disc[c.start])
  BY <1>1 DEF Whole
<1>3. IsList(Disc[c.start].entries) /\ \A j \in DOMAIN Disc[c.start].entries : IsEntry(Disc[c.start].entries[j])
  BY <1>1, <1>2 DEF IsBlock
<1>4. \A e : IsEntry(e) => e # Free /\ e # Junk
  BY DEF IsEntry, Free, Junk
<1>5. \A j \in DOMAIN Disc[c.start].entries :
         Disc[c.start].entries[j].dir => TidyDirectory(Disc, Disc[c.start].entries[j])
  BY <1>1 DEF Whole, TidyDisc
<1> QED BY <1>1, <1>3, <1>4, <1>5 DEF IsList

\* An offset of a block and of an entry in it.
LEMMA Slot ==
  ASSUME NEW b \in Int, NEW o \in Nat, o < SLOTS
  PROVE  (b * SLOTS + o) \div SLOTS = b /\ (b * SLOTS + o) % SLOTS = o
<1>1. SLOTS \in Nat \ {0}
  BY LoaderConstants
<1> QED BY <1>1

\* What is found at an offset where a directory has been read to.
LEMMA FollowsFacts ==
  ASSUME Whole(Disc), NEW c, TidyDirectory(Disc, c), NEW b \in Int, NEW o \in Nat, o < SLOTS,
         b \in DOMAIN dir_entries, dir_entries[b] = Disc[c.start]
  PROVE  Follows(b * SLOTS + o) = IF o + 1 > Len(Disc[c.start].entries) THEN Free
                                  ELSE Disc[c.start].entries[o+1]
<1>1. (b * SLOTS + o) \div SLOTS = b /\ (b * SLOTS + o) % SLOTS = o
  BY Slot
<1> DEFINE n == b * SLOTS + o
<1>2. n \div SLOTS = b /\ n % SLOTS = o
  BY <1>1
<1> HIDE DEF n
<1>3. Block(n \div SLOTS) = Disc[c.start] /\ Disc[c.start].is = "directory"
  BY <1>2, TidyFacts DEF Block
<1>4. Follows(n) = IF o + 1 > Len(Disc[c.start].entries) THEN Free ELSE Disc[c.start].entries[o+1]
  BY <1>2, <1>3 DEF Follows
<1> QED BY <1>4 DEF n

\* What holds while directories are walked.
LEMMA WalkFacts ==
  ASSUME CleanStep, SearchInv, pc = "traverse"
  PROVE  /\ Searching /\ ~Kernel /\ Whole(Disc) /\ Detection /\ dev \in 1..4
         /\ calls \in Seq(Calls) /\ Len(calls) \in Nat /\ Len(calls) >= 1
         /\ \A k \in 1..Len(calls) : calls[k] \in Calls /\ Read(calls[k], k - walks)
         /\ \A k \in 1..Len(calls)-1 : Descended(calls[k], k - walks, calls[k+1])
         /\ walks \in 1..4 /\ walks <= dev /\ nestedOffset = Len(calls) - walks
         /\ Top = calls[Len(calls)] /\ Top \in Calls /\ Read(Top, nestedOffset)
<1>1. Searching /\ ~Kernel
  BY DEF Searching, Kernel
<1>2. dev \in 1..4 /\ Detection /\ Whole(Disc)
  BY <1>1, DiscFacts DEF CleanStep, Clean, SearchInv, Reading
<1>3. /\ calls \in Seq(Calls) /\ Len(calls) >= 1 /\ Len(calls) \in Nat
      /\ \A k \in 1..Len(calls) : calls[k] \in Calls /\ Read(calls[k], k - walks)
      /\ \A k \in 1..Len(calls)-1 : Descended(calls[k], k - walks, calls[k+1])
  BY DEF SearchInv, Walk
<1>4. walks \in Nat /\ walks >= 1 /\ walks <= dev /\ nestedOffset = Len(calls) - walks
  BY <1>1 DEF SearchInv, Offsets
<1>5. walks \in 1..4
  BY <1>2, <1>4
<1>6. Len(calls) \in 1..Len(calls)
  BY <1>3
<1> QED BY <1>1, <1>2, <1>3, <1>4, <1>5, <1>6 DEF Top

\* Directories do not nest deeper than the buffer is long.
LEMMA WalkStaysInside ==
  ASSUME CleanStep, SearchInv, pc = "traverse", BuffersHold
  PROVE  nestedOffset \in -BlocksBelow..BlocksAbove
<1> DEFINE N == BlocksAbove + 2
           Dirs == {b \in DOMAIN Disc : Disc[b].is = "directory"}
           s == [k \in 1..N |-> calls[k].start]
           L == Len(calls)
<1>1. BlocksAbove \in Nat /\ BlocksBelow \in Nat /\ BlocksBelow >= 3
  BY LoaderConstants DEF BuffersHold
<1>2. /\ L \in Nat /\ walks \in 1..4 /\ nestedOffset = L - walks /\ L >= 1
      /\ \A k \in 1..L : Read(calls[k], k - walks)
      /\ \A k \in 1..L-1 : Descended(calls[k], k - walks, calls[k+1])
  BY WalkFacts
<1>3. Nested(Disc)
  BY WalkFacts, DiscFacts DEF CleanStep, Clean, SearchInv, Reading, BuffersHold, Devices
<1> HIDE DEF L
<1>4. L < N
  <2> SUFFICES ASSUME L >= N PROVE FALSE
    BY <1>1, <1>2
  <2>1. \A k \in 1..N : k \in 1..L
    BY <1>1, <1>2
  <2>2. \A k \in 1..BlocksAbove+1 : k \in 1..L-1 /\ k \in 1..N /\ k + 1 \in 1..N
    BY <1>1, <1>2
  <2>3. s \in [1..N -> Dirs]
    BY <1>2, <2>1 DEF Read, TidyDirectory
  <2>4. \A k \in 1..BlocksAbove+1 : Below(Disc, s[k+1], s[k])
    BY <1>2, <2>2 DEF Descended
  <2> HIDE DEF s
  <2> QED BY <1>3, <2>3, <2>4 DEF Nested
<1> QED BY <1>1, <1>2, <1>4

\* The changes of a call.
LEMMA CallFacts ==
  ASSUME NEW t \in Calls
  PROVE  /\ LET c == [t EXCEPT !.itr = @ + 1] IN
            /\ c \in Calls /\ c.itr = t.itr + 1 /\ c.offset = t.offset
            /\ c.start = t.start /\ c.bytes = t.bytes /\ c.entry = t.entry /\ c.count = t.count
         /\ LET c == [t EXCEPT !.offset = @ + 1] IN
            /\ c \in Calls /\ c.offset = t.offset + 1 /\ c.itr = t.itr
            /\ c.start = t.start /\ c.bytes = t.bytes /\ c.entry = t.entry /\ c.count = t.count
         /\ \A n \in Int : LET c == [t EXCEPT !.entry = n] IN
            /\ c \in Calls /\ c.entry = n /\ c.offset = t.offset /\ c.itr = t.itr
            /\ c.start = t.start /\ c.bytes = t.bytes /\ c.count = t.count
<1>1. /\ t.itr \in Nat /\ t.offset \in Nat
      /\ t = [start |-> t.start, bytes |-> t.bytes, itr |-> t.itr, offset |-> t.offset,
              entry |-> t.entry, count |-> t.count]
  BY DEF Calls
<1>2. t.itr + 1 \in Nat /\ t.offset + 1 \in Nat
  BY <1>1
<1> QED BY <1>1, <1>2 DEF Calls

LEMMA NewCall ==
  ASSUME NEW e, IsEntry(e), NEW n \in Nat
  PROVE  /\ Call(e, n) \in Calls /\ Call(e, n).itr = 0 /\ Call(e, n).offset = 0
         /\ Call(e, n).start = e.start /\ Call(e, n).bytes = e.bytes /\ Call(e, n).count = n
<1>1. e.start \in Nat /\ e.bytes \in Nat
  BY DEF IsEntry
<1> HIDE DEF IsEntry
<1> QED BY <1>1 DEF Call, Calls

\* A directory is known by where it is.
LEMMA TidyAlike ==
  ASSUME NEW disc, NEW x, NEW y, TidyDirectory(disc, x), y.start = x.start, y.bytes = x.bytes
  PROVE  TidyDirectory(disc, y)
BY DEF TidyDirectory

\* A change of the call on top.
LEMMA SetTopFacts ==
  ASSUME calls \in Seq(Calls), Len(calls) >= 1, NEW c \in Calls
  PROVE  /\ SetTop(c) \in Seq(Calls) /\ Len(SetTop(c)) = Len(calls)
         /\ SetTop(c)[Len(calls)] = c
         /\ \A k \in 1..Len(calls) : k # Len(calls) => SetTop(c)[k] = calls[k]
BY DEF SetTop

\* A call that reads its directory finds what the disc has.
LEMMA ReadsBlock ==
  ASSUME CleanStep, Whole(Disc), calls \in Seq(Calls), Len(calls) >= 1,
         NEW b \in Int, Read(Top, b), ReadBlock(b)
  PROVE  /\ Top.itr = 0 /\ Top.offset = 0
         /\ calls' \in Seq(Calls) /\ Len(calls') = Len(calls) /\ Len(calls) \in Nat
         /\ \A k \in 1..Len(calls) : k # Len(calls) => calls'[k] = calls[k]
         /\ \E c \in Calls :
              /\ calls'[Len(calls)] = c /\ c.itr = 1 /\ c.offset = 0 /\ c.start = Top.start
              /\ c.bytes = Top.bytes /\ c.count = Top.count
         /\ DOMAIN dir_entries' = DOMAIN dir_entries \cup {b}
         /\ dir_entries'[b] = Disc[Top.start]
         /\ \A x \in DOMAIN dir_entries : x # b => dir_entries'[x] = dir_entries[x]
<1>1. Len(calls) \in Nat /\ Top \in Calls
  BY DEF Top
<1>2. TidyDirectory(Disc, Top) /\ Top.itr \in 0..1 /\ (Top.itr = 0 => Top.offset = 0)
  BY DEF Read
<1>3. Sectors(Top.bytes) = 1 /\ Top.start \in DOMAIN Disc
  BY <1>2, TidyFacts
<1>4. Top.itr = 0 /\ Top.offset = 0 /\ Top.start \in Nat
  BY <1>1, <1>2, <1>3 DEF ReadBlock, Calls
<1>5. PICK answer \in Answers(Top.start + Top.itr, Block(b + Top.itr)) :
        /\ errors' = answer.errors
        /\ dir_entries' = [x \in DOMAIN dir_entries \cup {b + Top.itr} |->
                             IF x = b + Top.itr THEN answer.new ELSE dir_entries[x]]
  BY DEF ReadBlock
<1>6. Top.start + Top.itr = Top.start /\ b + Top.itr = b
  BY <1>4
<1>7. answer.new = Disc[Top.start]
  BY <1>3, <1>5, <1>6, CleanAnswer DEF CleanStep
<1>8. dir_entries' = [x \in DOMAIN dir_entries \cup {b} |->
                        IF x = b THEN Disc[Top.start] ELSE dir_entries[x]]
  BY <1>5, <1>6, <1>7
<1>9. \E c \in Calls :
        /\ calls' = SetTop(c) /\ c.itr = 1 /\ c.offset = 0 /\ c.start = Top.start
        /\ c.bytes = Top.bytes /\ c.count = Top.count
  <2>1. calls' = SetTop([Top EXCEPT !.itr = @ + 1])
    BY DEF ReadBlock
  <2>2. ASSUME NEW t \in Calls, t = Top
        PROVE  \E c \in Calls :
                 /\ calls' = SetTop(c) /\ c.itr = t.itr + 1 /\ c.offset = t.offset
                 /\ c.start = t.start /\ c.bytes = t.bytes /\ c.count = t.count
    <3>1. calls' = SetTop([t EXCEPT !.itr = @ + 1])
      BY <2>1, <2>2
    <3> QED BY <3>1, CallFacts
  <2>3. \E c \in Calls :
           /\ calls' = SetTop(c) /\ c.itr = Top.itr + 1 /\ c.offset = Top.offset
           /\ c.start = Top.start /\ c.bytes = Top.bytes /\ c.count = Top.count
    BY <1>1, <2>2
  <2> QED BY <1>4, <2>3
<1> QED BY <1>1, <1>4, <1>8, <1>9, SetTopFacts

LEMMA TraverseReadsKeep ==
  ASSUME CleanStep, SearchInv, LoadInv, traverse_reads, BuffersHold
  PROVE  SearchInv' /\ LoadInv'
<1> DEFINE b == nestedOffset
           L == Len(calls)
<1>1. /\ pc = "traverse" /\ pc' = pc /\ machine' = machine /\ Disc' = Disc /\ ReadBlock(b)
      /\ UNCHANGED <<dir_entry, dev, nestedOffset, look_offset, searched, i, memory, walks>>
  BY DEF traverse_reads, ReadBlock, CleanStep, drive, volume, image, Disc
<1>2. /\ Searching /\ ~Kernel /\ Whole(Disc) /\ L \in Nat /\ L >= 1
      /\ \A k \in 1..L : calls[k] \in Calls /\ Read(calls[k], k - walks)
      /\ \A k \in 1..L-1 : Descended(calls[k], k - walks, calls[k+1])
      /\ walks \in 1..4 /\ b = L - walks /\ Top = calls[L] /\ Top \in Calls /\ Read(Top, b)
      /\ calls \in Seq(Calls)
  BY <1>1, WalkFacts
<1>3. Searching' /\ ~Kernel'
  BY <1>1, <1>2 DEF Searching, Kernel
<1>4. b \in Int /\ b \in -BlocksBelow..BlocksAbove
  BY <1>1, <1>2, WalkStaysInside
<1>5. /\ calls' \in Seq(Calls) /\ Len(calls') = L
      /\ \A k \in 1..L : k # L => calls'[k] = calls[k]
      /\ DOMAIN dir_entries' = DOMAIN dir_entries \cup {b}
      /\ dir_entries'[b] = Disc[Top.start]
      /\ \A x \in DOMAIN dir_entries : x # b => dir_entries'[x] = dir_entries[x]
  BY <1>1, <1>2, <1>4, ReadsBlock
<1>6. PICK c \in Calls :
        /\ calls'[L] = c /\ c.itr = 1 /\ c.offset = 0 /\ c.start = Top.start /\ c.bytes = Top.bytes
  BY <1>1, <1>2, <1>4, ReadsBlock
<1> HIDE DEF L
<1>7. Walk'
  <2>1. ASSUME NEW k \in 1..L PROVE Read(calls[k], k - walks)'
    <3>1. CASE k = L
      <4>1. TidyDirectory(Disc, c) /\ 0 <= Len(Disc[c.start].entries)
        BY <1>2, <1>6, TidyFacts DEF TidyDirectory, Read
      <4> QED BY <1>1, <1>2, <1>5, <1>6, <3>1, <4>1 DEF Read
    <3>2. CASE k # L
      <4>1. calls'[k] = calls[k] /\ k - walks # b
        BY <1>2, <1>5, <2>1, <3>2
      <4>2. Read(calls[k], k - walks)
        BY <1>2, <2>1
      <4> QED BY <1>1, <1>5, <4>1, <4>2 DEF Read
    <3> QED BY <3>1, <3>2
  <2>2. ASSUME NEW k \in 1..L-1 PROVE Descended(calls[k], k - walks, calls[k+1])'
    <3>1. k \in 1..L /\ k # L /\ k + 1 \in 1..L
      BY <1>2, <2>2
    <3>2. calls'[k] = calls[k] /\ calls'[k+1].start = calls[k+1].start
      BY <1>2, <1>5, <1>6, <3>1
    <3>3. Descended(calls[k], k - walks, calls[k+1])
      BY <1>2, <2>2
    <3> QED BY <1>1, <3>2, <3>3 DEF Descended
  <2> QED BY <1>1, <1>2, <1>5, <2>1, <2>2 DEF Walk
<1>8. Passed' /\ Reading'
  BY <1>1, <1>2, <1>3 DEF Passed, Reading, SearchInv
<1>9. Offsets'
  BY <1>1, <1>2, <1>3, <1>5 DEF Offsets, SearchInv, Done, L
<1>10. Buffer'
  BY <1>4, <1>5 DEF Buffer, SearchInv
<1>11. Look' /\ LoadInv'
  BY <1>1 DEF Look, LoadInv
<1> QED BY <1>3, <1>7, <1>8, <1>9, <1>10, <1>11 DEF SearchInv

\* What a call that has read its directory finds next.
LEMMA TopFacts ==
  ASSUME Whole(Disc), Top \in Calls, NEW b \in Int, Read(Top, b), AllRead
  PROVE  LET entries == Disc[Top.start].entries
             e == Follows(b * SLOTS + Top.offset) IN
         /\ Top.itr = 1 /\ ~AtEnd /\ Top.offset \in Nat /\ Len(entries) \in Nat
         /\ Top.offset <= Len(entries) /\ TidyDirectory(Disc, Top)
         /\ Top.offset = Len(entries) => e = Free
         /\ Top.offset < Len(entries) =>
              /\ e = entries[Top.offset + 1] /\ Top.offset + 1 \in DOMAIN entries
              /\ IsEntry(e) /\ e # Free /\ e # Junk /\ (e.dir => TidyDirectory(Disc, e))
<1> DEFINE entries == Disc[Top.start].entries
           o == Top.offset
<1>1. /\ o \in Nat /\ o <= Len(entries) /\ TidyDirectory(Disc, Top)
      /\ Top.itr \in 0..1
      /\ Top.itr = 1 => b \in DOMAIN dir_entries /\ dir_entries[b] = Disc[Top.start]
  BY DEF Read, Calls
<1>2. /\ Sectors(Top.bytes) = 1 /\ Len(entries) \in Nat /\ Len(entries) < SLOTS
      /\ DOMAIN entries = 1..Len(entries)
      /\ \A j \in 1..Len(entries) : /\ IsEntry(entries[j]) /\ entries[j] # Free /\ entries[j] # Junk
                                    /\ entries[j].dir => TidyDirectory(Disc, entries[j])
  BY <1>1, TidyFacts
<1>3. SLOTS \in Nat \ {0}
  BY LoaderConstants
<1>4. Top.itr = 1 /\ ~AtEnd
  <2>1. Top.itr = 1
    BY <1>1, <1>2 DEF AllRead
  <2>2. ~AtEnd
    BY <1>1, <1>2, <1>3 DEF AtEnd
  <2> QED BY <2>1, <2>2
<1>5. o < SLOTS
  BY <1>1, <1>2, <1>3
<1>6. Follows(b * SLOTS + o) = IF o + 1 > Len(entries) THEN Free ELSE entries[o+1]
  <2> HIDE DEF o
  <2> QED BY <1>1, <1>4, <1>5, FollowsFacts
<1>7. CASE o = Len(entries)
  <2>1. o + 1 > Len(entries) /\ ~(o < Len(entries))
    BY <1>1, <1>2, <1>7
  <2>2. Follows(b * SLOTS + o) = Free
    BY <1>6, <2>1
  <2> HIDE DEF entries, o
  <2> QED BY <1>1, <1>2, <1>4, <2>1, <2>2 DEF entries, o
<1>8. CASE o < Len(entries)
  <2>1. o + 1 \in 1..Len(entries) /\ Follows(b * SLOTS + o) = entries[o+1]
    BY <1>1, <1>2, <1>6, <1>8
  <2> HIDE DEF entries, o
  <2>2. /\ IsEntry(entries[o+1]) /\ entries[o+1] # Free /\ entries[o+1] # Junk
        /\ entries[o+1].dir => TidyDirectory(Disc, entries[o+1])
    BY <1>2, <2>1
  <2> QED BY <1>1, <1>2, <1>4, <1>8, <2>1, <2>2 DEF entries, o
<1> QED BY <1>1, <1>2, <1>7, <1>8

\* What a step of traverse leaves alone, and what it moves.
LEMMA TraverseFrame ==
  ASSUME CleanStep, SearchInv, LoadInv, traverse, pc' = "traverse", Walk',
         nestedOffset' = Len(calls') - walks
  PROVE  SearchInv' /\ LoadInv'
<1>1. /\ pc = "traverse" /\ machine' = machine /\ Disc' = Disc
      /\ UNCHANGED <<dir_entry, dir_entries, dev, look_offset, searched, i, memory, walks>>
  BY DEF traverse, CleanStep, drive, volume, image, Disc
<1>2. Searching /\ ~Kernel /\ Searching' /\ ~Kernel'
  BY <1>1 DEF Searching, Kernel
<1>3. Passed' /\ Reading'
  BY <1>1, <1>2 DEF Passed, Reading, SearchInv
<1>4. Offsets'
  BY <1>1, <1>2 DEF Offsets, SearchInv, Done
<1>5. Buffer' /\ Look' /\ LoadInv'
  BY <1>1 DEF Buffer, Look, LoadInv, SearchInv
<1> QED BY <1>2, <1>3, <1>4, <1>5 DEF SearchInv

\* The whole disc has been walked: the search starts at the root.
LEMMA NavigateKeeps ==
  ASSUME CleanStep, SearchInv, LoadInv, traverse, navigate_to_file_directory_entry,
         Len(calls) = 1, nestedOffset' = nestedOffset - 1
  PROVE  SearchInv' /\ LoadInv'
<1>1. /\ pc = "traverse" /\ pc' = "look" /\ machine' = machine /\ Disc' = Disc
      /\ calls' = <<Call(dir_entry, 0)>>
      /\ UNCHANGED <<dir_entry, dir_entries, dev, look_offset, searched, i, memory, walks>>
  BY DEF traverse, navigate_to_file_directory_entry, CleanStep, drive, volume, image, Disc
<1>2. Searching /\ ~Kernel /\ Searching' /\ ~Kernel' /\ Whole(Disc) /\ Detection
  BY <1>1, WalkFacts DEF Searching, Kernel
<1>3. Passed' /\ Reading'
  BY <1>1, <1>2 DEF Passed, Reading, SearchInv
<1>4. PICK b \in Primary(Disc) : dir_entry = Disc[b].root
  BY <1>2 DEF SearchInv, Reading
<1>5. IsEntry(dir_entry) /\ dir_entry.dir /\ TidyDirectory(Disc, dir_entry)
  <2>1. b \in DOMAIN Disc /\ Disc[b].is = "volume" /\ TidyDirectory(Disc, Disc[b].root)
    BY <1>2, <1>4 DEF Primary, Whole, TidyDisc
  <2> QED BY <1>2, <1>4, <2>1 DEF Whole, IsBlock
<1>6. PICK c \in Calls :
        /\ calls' = <<c>> /\ c.start = dir_entry.start /\ c.bytes = dir_entry.bytes
        /\ c.itr = 0 /\ c.offset = 0 /\ c.count = 0
  BY <1>1, <1>5 DEF Call, Calls, IsEntry
<1>7. Len(calls') = 1 /\ Top' = c /\ calls' \in Seq(Calls)
  BY <1>6 DEF Top
<1>8. Look'
  <2>1. Read(c, look_offset)'
    <3>1. TidyDirectory(Disc, c) /\ 0 <= Len(Disc[c.start].entries)
      BY <1>2, <1>5, <1>6, TidyFacts DEF TidyDirectory
    <3> QED BY <1>1, <1>6, <3>1 DEF Read
  <2>2. dir_entry \in ResolvedBy(Disc)[0]
    BY <1>2, <1>4, ResolvedSteps
  <2>3. Top'.count < Len(kernel_name) /\ Top'.count = 0
    BY <1>6, <1>7, Parts
  <2>4. \E e \in ResolvedBy(Disc)[0] : e.dir /\ e.start = c.start /\ e.bytes = c.bytes
    BY <1>5, <1>6, <2>2
  <2>5. \A j \in 1..c.offset : FALSE
    BY <1>6
  <2> QED BY <1>1, <1>6, <1>7, <2>1, <2>3, <2>4, <2>5 DEF Look
<1>9. Offsets'
  <2>1. nestedOffset = 1 - walks /\ walks \in Nat
    BY <1>1, WalkFacts
  <2>2. nestedOffset' = -walks /\ Top'.count = 0
    BY <2>1, <1>6, <1>7
  <2>3. Done' = Done
    BY <1>1, <1>2 DEF Done
  <2>4. Len(kernel_name) \in Nat /\ Done \in Int
    BY <2>1, Parts DEF Done
  <2>5. Done * (Len(kernel_name) - 2) + 0 = Done * (Len(kernel_name) - 2)
    BY <2>4
  <2> QED BY <1>1, <1>2, <2>2, <2>3, <2>5 DEF Offsets, SearchInv
<1>10. Buffer' /\ Walk' /\ LoadInv'
  BY <1>1 DEF Buffer, Walk, LoadInv, SearchInv
<1> QED BY <1>2, <1>3, <1>8, <1>9, <1>10 DEF SearchInv

LEMMA TraverseKeeps ==
  ASSUME CleanStep, SearchInv, LoadInv, traverse
  PROVE  SearchInv' /\ LoadInv'
<1> DEFINE b == nestedOffset
           L == Len(calls)
           entries == Disc[Top.start].entries
           at == b * SLOTS + Top.offset
           e == Follows(at)
<1>1. /\ pc = "traverse" /\ AllRead /\ machine' = machine /\ Disc' = Disc
      /\ UNCHANGED <<dir_entries, dev, walks>>
  BY DEF traverse, CleanStep, drive, Disc
<1>2. /\ Whole(Disc) /\ L \in Nat /\ L >= 1 /\ calls \in Seq(Calls)
      /\ \A k \in 1..L : calls[k] \in Calls /\ Read(calls[k], k - walks)
      /\ \A k \in 1..L-1 : Descended(calls[k], k - walks, calls[k+1])
      /\ walks \in 1..4 /\ b = L - walks /\ Top = calls[L] /\ Top \in Calls /\ Read(Top, b)
  BY <1>1, WalkFacts
<1>3. b \in Int
  BY <1>2
<1>4. /\ Top.itr = 1 /\ ~AtEnd /\ Top.offset \in Nat /\ Len(entries) \in Nat
      /\ Top.offset <= Len(entries) /\ TidyDirectory(Disc, Top)
      /\ Top.offset = Len(entries) => e = Free
      /\ Top.offset < Len(entries) =>
           /\ e = entries[Top.offset + 1] /\ Top.offset + 1 \in DOMAIN entries
           /\ IsEntry(e) /\ e # Free /\ e # Junk /\ (e.dir => TidyDirectory(Disc, e))
  BY <1>1, <1>2, <1>3, TopFacts
<1>5. \/ e = Free /\ TraverseReturns /\ Leave
      \/ e = Junk
      \/ /\ e.is = "entry" /\ e.dir /\ ~e.hidden /\ ~e.special
         /\ nestedOffset' = nestedOffset + 1
         /\ calls' = Append(SetTop([Top EXCEPT !.entry = at]), Call(e, 0))
         /\ pc' = pc
      \/ Skip /\ pc' = pc /\ nestedOffset' = nestedOffset /\ e.is = "entry"
  BY <1>4 DEF traverse
<1>6. Top.offset = Len(entries) \/ Top.offset < Len(entries)
  BY <1>4
<1> HIDE DEF L, entries, at, e
<1>7. Disc[Top.start].entries = entries
  BY DEF entries
<1>8. CASE e = Free /\ TraverseReturns /\ Leave /\ L = 1
  BY <1>8 , NavigateKeeps DEF TraverseReturns, Leave, L
<1>9. CASE e = Free /\ TraverseReturns /\ Leave /\ L # 1
  <2> DEFINE caller == calls[L-1]
  <2>1. /\ pc' = pc /\ nestedOffset' = b - 1
        /\ calls' = Append(SubSeq(calls, 1, L - 2),
                           [caller EXCEPT !.offset = @ + IF Follows(caller.entry) = Free THEN 0 ELSE 1])
    BY <1>9 DEF TraverseReturns, Leave, L
  <2>2. L - 1 \in 1..L /\ L - 1 \in 1..L-1 /\ L - 2 \in Nat /\ (L - 1) + 1 = L /\ L - 1 \in Nat
    BY <1>2, <1>9
  <2>3. caller \in Calls /\ Read(caller, L - 1 - walks) /\ Descended(caller, L - 1 - walks, calls[L])
    BY <1>2, <2>2
  <2>4. caller.offset \in Nat /\ caller.offset < Len(Disc[caller.start].entries)
        /\ caller.itr = 1 /\ caller.entry = (L - 1 - walks) * SLOTS + caller.offset
        /\ TidyDirectory(Disc, caller) /\ L - 1 - walks \in DOMAIN dir_entries
        /\ dir_entries[L - 1 - walks] = Disc[caller.start]
    BY <2>3 DEF Read, Descended, Calls
  <2>5. /\ Len(Disc[caller.start].entries) \in Nat /\ Len(Disc[caller.start].entries) < SLOTS
        /\ \A j \in 1..Len(Disc[caller.start].entries) : Disc[caller.start].entries[j] # Free
    BY <1>2, <2>4, TidyFacts
  <2>6. SLOTS \in Nat /\ L - 1 - walks \in Int
    BY <1>2, LoaderConstants
  <2> HIDE DEF caller
  <2>7. caller.offset < SLOTS /\ caller.offset + 1 \in 1..Len(Disc[caller.start].entries)
        /\ ~(caller.offset + 1 > Len(Disc[caller.start].entries))
    <3>1. ASSUME NEW o \in Nat, NEW n \in Nat, o < n, n < SLOTS
          PROVE  o < SLOTS /\ o + 1 \in 1..n /\ ~(o + 1 > n)
      BY <2>6, <3>1
    <3> QED BY ONLY <2>4, <2>5, <3>1
  <2>8. Follows(caller.entry) # Free
    <3>1. ASSUME NEW o \in Nat, o = caller.offset, NEW a \in Int, a = L - 1 - walks
          PROVE  Follows(a * SLOTS + o) = IF o + 1 > Len(Disc[caller.start].entries) THEN Free
                                          ELSE Disc[caller.start].entries[o+1]
      BY <1>2, <2>4, <2>7, <3>1, FollowsFacts
    <3> QED BY <2>4, <2>5, <2>6, <2>7, <3>1
  <2>9. PICK c \in Calls :
          /\ calls' = Append(SubSeq(calls, 1, L - 2), c)
          /\ c.start = caller.start /\ c.bytes = caller.bytes /\ c.itr = caller.itr
          /\ c.offset = caller.offset + 1
    <3>1. ASSUME NEW t \in Calls, t = caller
          PROVE  \E c \in Calls :
                   /\ calls' = Append(SubSeq(calls, 1, L - 2), c)
                   /\ c.start = t.start /\ c.bytes = t.bytes /\ c.itr = t.itr
                   /\ c.offset = t.offset + 1
      <4>1. calls' = Append(SubSeq(calls, 1, L - 2), [t EXCEPT !.offset = @ + 1])
        BY <2>1, <2>8, <3>1
      <4> QED BY <4>1, CallFacts
    <3> QED BY <2>3, <3>1
  <2>10. /\ calls' \in Seq(Calls) /\ Len(calls') = L - 1 /\ calls'[L-1] = c
         /\ \A k \in 1..L-1 : k # L - 1 => calls'[k] = calls[k]
    <3>1. SubSeq(calls, 1, L - 2) \in Seq(Calls) /\ Len(SubSeq(calls, 1, L - 2)) = L - 2
          /\ \A k \in 1..L-2 : SubSeq(calls, 1, L - 2)[k] = calls[k]
      BY <1>2, <2>2 DEF L
    <3>2. \A k \in 1..L-1 : k # L - 1 => k \in 1..L-2
      BY <1>2
    <3> HIDE DEF L
    <3> QED BY <2>2, <2>9, <3>1, <3>2
  <2>11. Walk'
    <3>1. ASSUME NEW k \in 1..L-1 PROVE Read(calls[k], k - walks)'
      <4>1. CASE k = L - 1
        <5>1. TidyDirectory(Disc, c) /\ c.offset <= Len(Disc[c.start].entries)
          BY <2>4, <2>7, <2>9 DEF TidyDirectory
        <5> QED BY <1>1, <2>4, <2>9, <2>10, <4>1, <5>1 DEF Read
      <4>2. CASE k # L - 1
        <5>1. calls'[k] = calls[k] /\ Read(calls[k], k - walks)
          <6>1. k \in 1..L
            BY <1>2, <3>1
          <6> QED BY ONLY <1>2, <2>10, <3>1, <4>2, <6>1
        <5> QED BY <1>1, <5>1 DEF Read
      <4> QED BY <4>1, <4>2
    <3>2. ASSUME NEW k \in 1..L-2 PROVE Descended(calls[k], k - walks, calls[k+1])'
      <4>1. k \in 1..L-1 /\ k # L - 1 /\ k + 1 \in 1..L-1
        BY <1>2, <3>2
      <4>2. calls'[k] = calls[k] /\ calls'[k+1].start = calls[k+1].start
        BY <2>9, <2>10, <4>1 DEF caller
      <4>3. Descended(calls[k], k - walks, calls[k+1])
        BY <1>2, <4>1
      <4> QED BY <1>1, <4>2, <4>3 DEF Descended
    <3>3. Len(calls') >= 1 /\ Len(calls') = L - 1 /\ (L - 1) - 1 = L - 2
      BY <1>2, <2>2, <2>10
    <3> QED BY <2>10, <3>1, <3>2, <3>3 DEF Walk
  <2>12. nestedOffset' = Len(calls') - walks
    <3>1. b - 1 = (L - 1) - walks
      BY <1>2
    <3> QED BY ONLY <2>1, <2>10, <3>1
  <2> QED BY <1>1, <2>1, <2>11, <2>12, TraverseFrame
<1>10. CASE /\ Top.offset < Len(entries) /\ e.dir /\ ~e.hidden /\ ~e.special
            /\ nestedOffset' = nestedOffset + 1 /\ pc' = pc
            /\ calls' = Append(SetTop([Top EXCEPT !.entry = at]), Call(e, 0))
  <2>1. /\ e = entries[Top.offset + 1] /\ Top.offset + 1 \in DOMAIN entries
        /\ IsEntry(e) /\ TidyDirectory(Disc, e) /\ at \in Int
    <3>1. SLOTS \in Int
      BY LoaderConstants
    <3> QED BY <1>3, <1>4, <1>10, <3>1 DEF at
  <2>2. PICK c \in Calls :
          /\ calls' = Append(SetTop(c), Call(e, 0)) /\ c.entry = at /\ c.offset = Top.offset
          /\ c.itr = Top.itr /\ c.start = Top.start /\ c.bytes = Top.bytes
    <3>1. ASSUME NEW t \in Calls, t = Top, NEW n \in Int, n = at
          PROVE  \E c \in Calls :
                   /\ calls' = Append(SetTop(c), Call(e, 0)) /\ c.entry = at /\ c.offset = t.offset
                   /\ c.itr = t.itr /\ c.start = t.start /\ c.bytes = t.bytes
      <4>1. calls' = Append(SetTop([t EXCEPT !.entry = n]), Call(e, 0))
        BY <1>10, <3>1
      <4> QED BY <3>1, <4>1, CallFacts
    <3> QED BY <1>2, <2>1, <3>1
  <2>3. PICK d \in Calls : d = Call(e, 0) /\ d.itr = 0 /\ d.offset = 0 /\ d.start = e.start /\ d.bytes = e.bytes
    BY <2>1, NewCall
  <2>4. /\ SetTop(c) \in Seq(Calls) /\ Len(SetTop(c)) = L /\ SetTop(c)[L] = c
        /\ \A k \in 1..L : k # L => SetTop(c)[k] = calls[k]
    BY <1>2, SetTopFacts DEF L
  <2>5. /\ calls' \in Seq(Calls) /\ Len(calls') = L + 1 /\ calls'[L+1] = d /\ calls'[L] = c
        /\ \A k \in 1..L : k # L => calls'[k] = calls[k]
    <3> DEFINE S == SetTop(c)
    <3>1. S \in Seq(Calls) /\ Len(S) = L /\ S[L] = c /\ \A k \in 1..L : k # L => S[k] = calls[k]
      BY <2>4
    <3>2. calls' = Append(S, d)
      BY <2>2, <2>3
    <3> HIDE DEF S
    <3> QED BY <1>2, <3>1, <3>2
  <2>6. Walk'
    <3>1. ASSUME NEW k \in 1..L+1 PROVE Read(calls[k], k - walks)'
      <4>1. CASE k = L + 1
        <5>1. TidyDirectory(Disc, d) /\ 0 <= Len(Disc[d.start].entries)
          <6>1. TidyDirectory(Disc, d)
            BY <2>1, <2>3, TidyAlike
          <6> QED BY <1>2, <6>1, TidyFacts
        <5> QED BY <1>1, <2>3, <2>5, <4>1, <5>1 DEF Read
      <4>2. CASE k = L
        <5>1. Read(Top, k - walks)
          BY <1>2, <4>2
        <5>2. Read(c, k - walks)
          BY <2>2, <5>1 DEF Read, TidyDirectory
        <5> QED BY <1>1, <2>5, <4>2, <5>2 DEF Read
      <4>3. CASE k # L + 1 /\ k # L
        <5>1. k \in 1..L
          BY <1>2, <3>1, <4>3
        <5>2. calls'[k] = calls[k] /\ Read(calls[k], k - walks)
          BY <1>2, <2>5, <4>3, <5>1
        <5> QED BY <1>1, <5>2 DEF Read
      <4> QED BY <4>1, <4>2, <4>3
    <3>2. ASSUME NEW k \in 1..L PROVE Descended(calls[k], k - walks, calls[k+1])'
      <4>1. CASE k = L
        <5>1. Below(Disc, d.start, c.start)
          BY <1>7, <1>10, <2>1, <2>2, <2>3 DEF Below
        <5>2. c.itr = 1 /\ c.offset < Len(Disc[c.start].entries)
          BY <1>4, <1>7, <1>10, <2>2
        <5>3. c.entry = (L - walks) * SLOTS + c.offset
          BY <1>2, <2>2 DEF at
        <5> QED BY <1>1, <2>5, <4>1, <5>1, <5>2, <5>3 DEF Descended
      <4>2. CASE k # L
        <5>1. k \in 1..L-1 /\ k + 1 \in 1..L /\ k \in 1..L
          BY <1>2, <3>2, <4>2
        <5>2. calls'[k] = calls[k] /\ calls'[k+1].start = calls[k+1].start
          BY <1>2, <2>2, <2>5, <4>2, <5>1
        <5>3. Descended(calls[k], k - walks, calls[k+1])
          BY <1>2, <5>1
        <5> QED BY <1>1, <5>2, <5>3 DEF Descended
      <4> QED BY <4>1, <4>2
    <3>3. Len(calls') >= 1 /\ Len(calls') = L + 1 /\ (L + 1) - 1 = L
      BY <1>2, <2>5
    <3> QED BY <2>5, <3>1, <3>2, <3>3 DEF Walk
  <2>7. nestedOffset' = Len(calls') - walks
    <3>1. b + 1 = (L + 1) - walks
      BY <1>2
    <3> QED BY ONLY <1>10, <2>5, <3>1
  <2> QED BY <1>1, <1>10, <2>6, <2>7, TraverseFrame
<1>11. CASE Top.offset < Len(entries) /\ Skip /\ pc' = pc /\ nestedOffset' = nestedOffset
  <2>1. PICK c \in Calls :
          /\ calls' = SetTop(c) /\ c.offset = Top.offset + 1 /\ c.entry = Top.entry
          /\ c.itr = Top.itr /\ c.start = Top.start /\ c.bytes = Top.bytes
    <3>1. ASSUME NEW t \in Calls, t = Top
          PROVE  \E c \in Calls :
                   /\ calls' = SetTop(c) /\ c.offset = t.offset + 1 /\ c.entry = t.entry
                   /\ c.itr = t.itr /\ c.start = t.start /\ c.bytes = t.bytes
      <4>1. calls' = SetTop([t EXCEPT !.offset = @ + 1])
        BY <1>11, <3>1 DEF Skip
      <4> QED BY <4>1, CallFacts
    <3> QED BY <1>2, <3>1
  <2>2. /\ calls' \in Seq(Calls) /\ Len(calls') = L /\ calls'[L] = c
        /\ \A k \in 1..L : k # L => calls'[k] = calls[k]
    BY <1>2, <2>1, SetTopFacts DEF L
  <2>3. Walk'
    <3>1. ASSUME NEW k \in 1..L PROVE Read(calls[k], k - walks)'
      <4>1. CASE k = L
        <5>1. Read(Top, k - walks)
          BY <1>2, <4>1
        <5>2. Top.offset + 1 <= Len(entries)
          BY <1>4, <1>11
        <5>3. Read(c, k - walks)
          BY <1>4, <1>7, <2>1, <5>1, <5>2 DEF Read, TidyDirectory
        <5> QED BY <1>1, <2>2, <4>1, <5>3 DEF Read
      <4>2. CASE k # L
        <5>1. calls'[k] = calls[k] /\ Read(calls[k], k - walks)
          BY <1>2, <2>2, <3>1, <4>2
        <5> QED BY <1>1, <5>1 DEF Read
      <4> QED BY <4>1, <4>2
    <3>2. ASSUME NEW k \in 1..L-1 PROVE Descended(calls[k], k - walks, calls[k+1])'
      <4>1. k \in 1..L /\ k # L /\ k + 1 \in 1..L
        BY <1>2, <3>2
      <4>2. calls'[k] = calls[k] /\ calls'[k+1].start = calls[k+1].start
        BY <1>2, <2>1, <2>2, <4>1
      <4>3. Descended(calls[k], k - walks, calls[k+1])
        BY <1>2, <3>2
      <4> QED BY <1>1, <4>2, <4>3 DEF Descended
    <3> QED BY <1>2, <2>2, <3>1, <3>2 DEF Walk
  <2>4. nestedOffset' = Len(calls') - walks
    BY ONLY <1>2, <1>11, <2>2
  <2> QED BY <1>1, <1>11, <2>3, <2>4, TraverseFrame
<1>12. CASE Top.offset = Len(entries)
  <2>1. e = Free /\ Free # Junk /\ ~(Free.is = "entry")
    BY <1>4, <1>12 DEF Free, Junk
  <2>2. e = Free /\ TraverseReturns /\ Leave
    BY <1>5, <2>1
  <2> QED BY <1>8, <1>9, <2>2
<1>13. CASE Top.offset < Len(entries)
  BY <1>4, <1>5, <1>10, <1>11, <1>13
<1> QED BY <1>6, <1>12, <1>13

---------------------------------------------------------------------------
(* Steps: the search for the kernel's file                                 *)

\* What holds while the path is followed.
LEMMA LookFacts ==
  ASSUME CleanStep, SearchInv, pc = "look"
  PROVE  /\ Searching /\ ~Kernel /\ Whole(Disc) /\ Detection /\ dev \in 1..4
         /\ Disc = Blocks(machine, dev)
         /\ calls \in Seq(Calls) /\ Len(calls) = 1 /\ Top = calls[1] /\ Top \in Calls
         /\ Read(Top, look_offset) /\ Top.count \in 0..Len(kernel_name)-1
         /\ \A j \in 1..Top.offset : ~Leads(Disc[Top.start].entries[j], Top.count)
         /\ walks \in 1..4 /\ nestedOffset = -walks /\ look_offset \in Int
         /\ -(walks - 1) <= look_offset
         /\ look_offset <= (walks - 1) * (Len(kernel_name) - 2) + Top.count
<1>1. Searching /\ ~Kernel
  BY DEF Searching, Kernel
<1>2. dev \in 1..4 /\ Detection /\ Whole(Disc) /\ Disc = Blocks(machine, dev)
  BY <1>1, DiscFacts DEF CleanStep, Clean, SearchInv, Reading
<1>3. /\ calls \in Seq(Calls) /\ Len(calls) = 1
      /\ Read(Top, look_offset) /\ Top.count < Len(kernel_name)
      /\ \A j \in 1..Top.offset : ~Leads(Disc[Top.start].entries[j], Top.count)
  BY DEF SearchInv, Look
<1>4. Top = calls[1] /\ Top \in Calls
  BY <1>3 DEF Top
<1>5. Top.count \in 0..Len(kernel_name)-1
  BY <1>3, <1>4, Parts DEF Calls
<1>6. /\ walks \in Nat /\ walks >= 1 /\ walks <= dev /\ nestedOffset = -walks
      /\ look_offset \in Int /\ -(walks - 1) <= look_offset
      /\ look_offset <= (walks - 1) * (Len(kernel_name) - 2) + Top.count
  BY <1>1 DEF SearchInv, Offsets, Done
<1>7. walks \in 1..4
  BY <1>2, <1>6
<1> QED BY <1>1, <1>2, <1>3, <1>4, <1>5, <1>6, <1>7

LEMMA LookStaysInside ==
  ASSUME CleanStep, SearchInv, pc = "look", BuffersHold
  PROVE  look_offset \in -BlocksBelow..BlocksAbove
<1> DEFINE N == Len(kernel_name)
           w == walks - 1
           n == Top.count
<1>1. /\ BlocksBelow \in Nat /\ BlocksAbove \in Nat /\ BlocksBelow >= 3 /\ N \in Nat
      /\ \A x \in 0..3 : x * (N - 2) + N - 1 <= BlocksAbove
  BY LoaderConstants, Parts DEF BuffersHold
<1>2. w \in 0..3 /\ n \in 0..N-1 /\ look_offset \in Int /\ -w <= look_offset
      /\ look_offset <= w * (N - 2) + n
  BY LookFacts
<1>3. w * (N - 2) + N - 1 <= BlocksAbove
  BY <1>1, <1>2
<1> HIDE DEF N, w, n
<1> DEFINE m == w * (N - 2)
<1>4. m \in Int
  BY <1>1, <1>2
<1>5. m + N - 1 <= BlocksAbove /\ look_offset <= m + n
  BY <1>2, <1>3
<1> HIDE DEF m
<1> QED BY <1>1, <1>2, <1>4, <1>5

\* The entries that lead on are those the path names.
LEMMA LeadsOn ==
  ASSUME NEW disc, Whole(disc), NEW n \in 0..Len(kernel_name)-1,
         NEW dir \in ResolvedBy(disc)[n], dir.dir,
         NEW c, c.start = dir.start, c.bytes = dir.bytes,
         NEW j \in DOMAIN disc[c.start].entries,
         LET e == disc[c.start].entries[j] IN e.name = kernel_name[n+1] /\ ~e.hidden
  PROVE  disc[c.start].entries[j] \in ResolvedBy(disc)[n+1]
<1>1. n + 1 \in 1..Len(kernel_name) /\ (n + 1) - 1 = n
  BY Parts
<1>2. ResolvedBy(disc)[n+1] = Leading(disc, n+1, ResolvedBy(disc)[n])
  BY <1>1, ResolvedSteps
<1>3. disc[c.start].entries[j] \in Named(disc, dir, kernel_name[n+1])
  BY DEF Named
<1> QED BY <1>2, <1>3 DEF Leading

\* When no entry of the directory leads on, the disc does not have the kernel.
LEMMA NothingLeads ==
  ASSUME NEW disc, Whole(disc), NEW n \in 0..Len(kernel_name)-1,
         NEW dir \in ResolvedBy(disc)[n], dir.dir,
         \A j \in DOMAIN disc[dir.start].entries : ~Leads(disc[dir.start].entries[j], n)
  PROVE  Resolved(disc) = {}
<1> DEFINE N == Len(kernel_name)
           at == ResolvedBy(disc)
<1>1. N \in Nat /\ n \in Nat /\ n + 1 \in 1..N /\ (n + 1) - 1 = n /\ n \in 0..N
  BY Parts
<1>2. at[n+1] = Leading(disc, n+1, at[n])
  BY <1>1, ResolvedSteps
<1>3. \A x \in at[n] : x = dir
  BY <1>1, OnePath
<1> HIDE DEF at
<1>4. ASSUME NEW e \in at[n+1] PROVE n # N - 1 /\ ~e.dir
  <2>1. e \in Named(disc, dir, kernel_name[n+1])
    BY <1>2, <1>3 DEF Leading
  <2>2. PICK j \in DOMAIN disc[dir.start].entries : e = disc[dir.start].entries[j]
    BY <2>1 DEF Named
  <2>3. e.name = kernel_name[n+1] /\ ~e.hidden
    BY <2>1 DEF Named
  <2>4. ~Leads(e, n)
    BY <2>2
  <2> QED BY <2>3, <2>4 DEF Leads
<1>5. CASE n = N - 1
  BY <1>1, <1>4, <1>5 DEF at, Resolved
<1>6. CASE n # N - 1
  <2>1. n + 1 \in 0..N-1
    BY <1>1, <1>6
  <2> QED BY <1>4, <2>1, Barren DEF at
<1> QED BY <1>5, <1>6

LEMMA LookReadsKeep ==
  ASSUME CleanStep, SearchInv, LoadInv, look_reads, BuffersHold
  PROVE  SearchInv' /\ LoadInv'
<1> DEFINE b == look_offset
<1>1. /\ pc = "look" /\ pc' = pc /\ machine' = machine /\ Disc' = Disc /\ ReadBlock(b)
      /\ UNCHANGED <<dir_entry, dev, nestedOffset, look_offset, searched, i, memory, walks>>
  BY DEF look_reads, ReadBlock, CleanStep, drive, volume, image, Disc
<1>2. /\ Searching /\ ~Kernel /\ Whole(Disc) /\ calls \in Seq(Calls) /\ Len(calls) = 1
      /\ Top = calls[1] /\ Top \in Calls /\ Read(Top, b) /\ Top.count \in 0..Len(kernel_name)-1
  BY <1>1, LookFacts
<1>3. Searching' /\ ~Kernel'
  BY <1>1, <1>2 DEF Searching, Kernel
<1>4. Len(calls) >= 1 /\ CleanStep
  BY <1>2
<1>5. b \in Int /\ b \in -BlocksBelow..BlocksAbove
  BY <1>1, LookFacts, LookStaysInside
<1>6. /\ calls' \in Seq(Calls) /\ Len(calls') = 1
      /\ DOMAIN dir_entries' = DOMAIN dir_entries \cup {b}
      /\ dir_entries'[b] = Disc[Top.start]
  BY <1>1, <1>2, <1>4, <1>5, ReadsBlock
<1>7. PICK c \in Calls :
        /\ calls'[1] = c /\ c.itr = 1 /\ c.offset = 0 /\ c.start = Top.start /\ c.bytes = Top.bytes
        /\ c.count = Top.count
  BY <1>1, <1>2, <1>4, <1>5, ReadsBlock
<1>8. Top' = c
  BY <1>6, <1>7 DEF Top
<1>9. Look'
  <2>1. TidyDirectory(Disc, c) /\ 0 <= Len(Disc[c.start].entries)
    <3>1. TidyDirectory(Disc, c)
      BY <1>2, <1>7, TidyAlike DEF Read
    <3> QED BY <1>2, <3>1, TidyFacts
  <2>2. Read(c, b)'
    BY <1>1, <1>6, <1>7, <2>1 DEF Read
  <2>3. \E e \in ResolvedBy(Disc)[c.count] : e.dir /\ e.start = c.start /\ e.bytes = c.bytes
    BY <1>1, <1>7 DEF SearchInv, Look
  <2>4. c.count < Len(kernel_name)
    BY <1>2, <1>7, Parts
  <2>5. \A j \in 1..c.offset : FALSE
    BY <1>7
  <2> QED BY <1>1, <1>6, <1>8, <2>2, <2>3, <2>4, <2>5 DEF Look
<1>10. Passed' /\ Reading'
  BY <1>1, <1>2, <1>3 DEF Passed, Reading, SearchInv
<1>11. Offsets'
  <2>1. Done' = Done /\ Top'.count = Top.count
    BY <1>1, <1>2, <1>3, <1>7, <1>8 DEF Done
  <2> QED BY <1>1, <1>2, <1>3, <2>1 DEF Offsets, SearchInv
<1>12. Buffer'
  BY <1>5, <1>6 DEF Buffer, SearchInv
<1>13. Walk' /\ LoadInv'
  BY <1>1 DEF Walk, LoadInv
<1> QED BY <1>3, <1>9, <1>10, <1>11, <1>12, <1>13 DEF SearchInv

\* What a step of look_for_file that goes on leaves alone.
LEMMA LookFrame ==
  ASSUME CleanStep, SearchInv, LoadInv, look_for_file, pc' = "look", dev' = dev, searched' = searched,
         i' = i, Look', look_offset' \in Int, look_offset' >= look_offset,
         look_offset' - look_offset = Top'.count - Top.count, Top.count \in Nat, Top'.count \in Nat
  PROVE  SearchInv' /\ LoadInv'
<1>1. /\ pc = "look" /\ machine' = machine /\ Disc' = Disc
      /\ UNCHANGED <<dir_entry, dir_entries, nestedOffset, memory, walks>>
  BY DEF look_for_file, CleanStep, drive, volume, image, Disc
<1>2. Searching /\ ~Kernel /\ Searching' /\ ~Kernel'
  BY <1>1 DEF Searching, Kernel
<1>3. Passed' /\ Reading'
  BY <1>1, <1>2 DEF Passed, Reading, SearchInv
<1>4. Offsets'
  <2> DEFINE m == Done * (Len(kernel_name) - 2)
  <2>1. /\ walks \in Nat /\ walks <= dev /\ walks >= 1 /\ nestedOffset = -walks
        /\ look_offset \in Int /\ -Done <= look_offset /\ look_offset <= m + Top.count
    BY <1>1, <1>2 DEF SearchInv, Offsets
  <2>2. Done' = Done /\ Done \in Int
    BY <1>1, <1>2, <2>1 DEF Done
  <2>3. m' = m /\ m \in Int
    BY <2>2, Parts
  <2> HIDE DEF m
  <2>4. -Done <= look_offset'
    BY <2>1, <2>2
  <2>5. look_offset' <= m + Top'.count
    BY <2>1, <2>3
  <2> QED BY <1>1, <1>2, <2>1, <2>2, <2>3, <2>4, <2>5 DEF Offsets, m
<1>5. Buffer' /\ Walk' /\ LoadInv'
  BY <1>1 DEF Buffer, Walk, LoadInv, SearchInv
<1> QED BY <1>2, <1>3, <1>4, <1>5 DEF SearchInv

\* The directory ends: the disc is left.
LEMMA NotFoundKeeps ==
  ASSUME CleanStep, SearchInv, LoadInv, look_for_file, Top.offset = Len(Disc[Top.start].entries),
         look_offset' = look_offset - 1, NotFound
  PROVE  SearchInv' /\ LoadInv'
<1>1. /\ pc = "look" /\ NextDevice
      /\ UNCHANGED <<dir_entries, nestedOffset, memory, walks>>
  BY DEF look_for_file, CleanStep, image, NotFound
<1>2. /\ Whole(Disc) /\ Disc = Blocks(machine, dev) /\ Read(Top, look_offset)
      /\ Top.count \in 0..Len(kernel_name)-1
      /\ \A j \in 1..Top.offset : ~Leads(Disc[Top.start].entries[j], Top.count)
      /\ walks \in 1..4 /\ nestedOffset = -walks /\ look_offset \in Int
      /\ -(walks - 1) <= look_offset
      /\ look_offset <= (walks - 1) * (Len(kernel_name) - 2) + Top.count
  BY <1>1, LookFacts
<1>3. PICK dir \in ResolvedBy(Disc)[Top.count] : dir.dir /\ dir.start = Top.start
  BY <1>1 DEF SearchInv, Look
<1>4. DOMAIN Disc[Top.start].entries = 1..Len(Disc[Top.start].entries)
  BY <1>2, TidyFacts DEF Read
<1>5. \A j \in DOMAIN Disc[dir.start].entries : ~Leads(Disc[dir.start].entries[j], Top.count)
  BY <1>2, <1>3, <1>4
<1>6. dev \notin WithKernel(machine)
  <2>1. Resolved(Disc) = {}
    <3>1. ASSUME NEW n \in 0..Len(kernel_name)-1, n = Top.count PROVE Resolved(Disc) = {}
      BY <1>2, <1>3, <1>5, <3>1, NothingLeads
    <3> QED BY <1>2, <3>1
  <2> QED BY <1>2, <2>1 DEF WithKernel
<1>7. look_offset - 1 <= walks * (Len(kernel_name) - 2)
  <2> DEFINE q == Len(kernel_name) - 2
             m == (walks - 1) * q
  <2>1. q \in Int /\ Top.count <= q + 1 /\ Top.count \in Int
    BY <1>2, Parts
  <2>2. m \in Int /\ look_offset <= m + Top.count
    BY <1>2, <2>1
  <2>3. walks * q = m + q
    <3> HIDE DEF q
    <3> QED BY <1>2, <2>1
  <2> HIDE DEF m, q
  <2>4. look_offset - 1 <= m + q
    BY <1>2, <2>1, <2>2
  <2> QED BY <2>3, <2>4 DEF q
<1>8. look_offset - 1 \in Int /\ -walks <= look_offset - 1
  BY <1>2
<1>9. GivesUp
  BY <1>1, <1>2, <1>6, <1>7, <1>8 DEF GivesUp
<1> QED BY <1>9, GivesUpKeeps

\* The file is found: its entry is the one the path leads to.
LEMMA LoadingKeeps ==
  ASSUME CleanStep, SearchInv, LoadInv, look_for_file, look_offset' = look_offset,
         NEW e, e \in Resolved(Disc), IsEntry(e), Loading(e)
  PROVE  SearchInv' /\ LoadInv'
<1>1. /\ pc = "look" /\ pc' = "load" /\ machine' = machine /\ Disc' = Disc /\ dev' = dev
      /\ searched' = e /\ i' = 0
      /\ UNCHANGED <<dir_entries, nestedOffset, look_offset, memory, walks>>
  BY DEF look_for_file, CleanStep, drive, image, Disc, Loading
<1>2. Searching /\ ~Kernel /\ ~Searching' /\ Kernel'
  BY <1>1 DEF Searching, Kernel
<1>3. Passed' /\ Reading'
  BY <1>1, <1>2 DEF Passed, Reading, SearchInv
<1>4. Offsets'
  <2>1. /\ walks \in 1..4 /\ walks <= dev /\ nestedOffset = -walks /\ look_offset \in Int
        /\ -(walks - 1) <= look_offset
    BY <1>1, LookFacts DEF SearchInv, Offsets
  <2>2. Done' = walks
    BY <1>1, <1>2 DEF Done
  <2>3. -walks <= look_offset /\ walks \in Nat
    BY <2>1
  <2> QED BY <1>1, <1>2, <2>1, <2>2, <2>3 DEF Offsets
<1>5. Buffer' /\ Walk' /\ Look'
  BY <1>1 DEF Buffer, Walk, Look, SearchInv
<1>6. LoadInv'
  <2>1. e.bytes \in Nat /\ BLOCK_SIZE \in Nat \ {0}
    BY LoaderConstants DEF IsEntry
  <2>2. 0 <= e.bytes \div BLOCK_SIZE /\ e.bytes \div BLOCK_SIZE \in Int
    BY <2>1
  <2>3. LastBlock' = e.bytes \div BLOCK_SIZE
    BY <1>1 DEF LastBlock
  <2>4. i' \in 0..LastBlock'
    BY <1>1, <2>2, <2>3
  <2>5. LoadedTo(i)'
    BY <1>1 DEF LoadedTo
  <2> QED BY <1>1, <2>4, <2>5 DEF LoadInv
<1> QED BY <1>1, <1>2, <1>3, <1>4, <1>5, <1>6 DEF SearchInv

LEMMA LookKeeps ==
  ASSUME CleanStep, SearchInv, LoadInv, look_for_file
  PROVE  SearchInv' /\ LoadInv'
<1> DEFINE N == Len(kernel_name)
           entries == Disc[Top.start].entries
           e == Follows(look_offset * SLOTS + Top.offset)
           last == Top.count = N - 1
           matches == ~e.hidden /\ e.name = kernel_name[Top.count + 1]
<1>1. /\ pc = "look" /\ AllRead /\ dir_entries' = dir_entries /\ machine' = machine
      /\ dev' = dev => Disc' = Disc
  BY DEF look_for_file, CleanStep, Disc
<1>2. /\ Whole(Disc) /\ calls \in Seq(Calls) /\ Len(calls) = 1
      /\ Top = calls[1] /\ Top \in Calls /\ Read(Top, look_offset) /\ Top.count \in 0..N-1
      /\ \A j \in 1..Top.offset : ~Leads(Disc[Top.start].entries[j], Top.count)
      /\ look_offset \in Int
  BY <1>1, LookFacts
<1>3. /\ Top.itr = 1 /\ ~AtEnd /\ Top.offset \in Nat /\ Len(entries) \in Nat
      /\ Top.offset <= Len(entries) /\ TidyDirectory(Disc, Top)
      /\ Top.offset = Len(entries) => e = Free
      /\ Top.offset < Len(entries) =>
           /\ e = entries[Top.offset + 1] /\ Top.offset + 1 \in DOMAIN entries
           /\ IsEntry(e) /\ e # Free /\ e # Junk /\ (e.dir => TidyDirectory(Disc, e))
  BY <1>1, <1>2, TopFacts
<1>4. PICK dir \in ResolvedBy(Disc)[Top.count] : dir.dir /\ dir.start = Top.start /\ dir.bytes = Top.bytes
  BY <1>1 DEF SearchInv, Look
<1>5. \/ e = Free /\ look_offset' = look_offset - 1 /\ NotFound
      \/ e = Junk
      \/ matches /\ last /\ Loading(e) /\ look_offset' = look_offset /\ e.is = "entry"
      \/ /\ matches /\ ~last /\ e.dir
         /\ look_offset' = look_offset + 1
         /\ calls' = <<Call(e, Top.count + 1)>>
         /\ UNCHANGED <<pc, dev, searched, i>> /\ e.is = "entry"
      \/ /\ ~matches \/ (~last /\ ~e.dir)
         /\ Skip /\ UNCHANGED <<pc, dev, searched, i, look_offset>> /\ e.is = "entry"
  BY <1>3 DEF look_for_file
<1>6. N \in Nat /\ N >= 1
  BY Parts
<1>7. \A j \in 1..Top.offset : ~Leads(entries[j], Top.count)
  BY <1>2
<1> HIDE DEF N, entries, e
<1>8. Disc[Top.start].entries = entries
  BY DEF entries
<1>9. CASE Top.offset = Len(entries)
  <2>1. e = Free /\ Free # Junk /\ ~(Free.is = "entry")
    BY <1>3, <1>9 DEF Free, Junk
  <2>2. look_offset' = look_offset - 1 /\ NotFound
    BY <1>5, <2>1
  <2> QED BY <1>8, <1>9, <2>2, NotFoundKeeps
<1>10. ASSUME Top.offset < Len(entries), matches
       PROVE  e \in ResolvedBy(Disc)[Top.count + 1]
  <2>1. ASSUME NEW n \in 0..Len(kernel_name)-1, n = Top.count, NEW c, c = Top, NEW j, j = Top.offset + 1
        PROVE  Disc[c.start].entries[j] \in ResolvedBy(Disc)[n+1]
    <3>1. j \in DOMAIN Disc[c.start].entries /\ c.start = dir.start /\ c.bytes = dir.bytes
      BY <1>3, <1>4, <1>8, <1>10, <2>1
    <3>2. Disc[c.start].entries[j].name = kernel_name[n+1] /\ ~Disc[c.start].entries[j].hidden
      BY <1>3, <1>8, <1>10, <2>1
    <3>3. dir \in ResolvedBy(Disc)[n] /\ dir.dir
      BY <1>4, <2>1
    <3> QED BY <1>2, <3>1, <3>2, <3>3, LeadsOn
  <2>2. entries[Top.offset + 1] \in ResolvedBy(Disc)[Top.count + 1]
    BY <1>2, <1>8, <2>1 DEF N
  <2> QED BY <1>3, <1>10, <2>2
<1>11. CASE Top.offset < Len(entries) /\ matches /\ last /\ Loading(e) /\ look_offset' = look_offset
  <2>1. e \in Resolved(Disc)
    <3>1. Top.count + 1 = N
      BY <1>2, <1>6, <1>11
    <3> QED BY <1>10, <1>11, <3>1 DEF Resolved, N
  <2> QED BY <1>3, <1>11, <2>1, LoadingKeeps
<1>12. CASE /\ Top.offset < Len(entries) /\ matches /\ ~last /\ e.dir
            /\ look_offset' = look_offset + 1 /\ calls' = <<Call(e, Top.count + 1)>>
            /\ UNCHANGED <<pc, dev, searched, i>>
  <2>1. IsEntry(e) /\ TidyDirectory(Disc, e) /\ Top.count + 1 \in Nat /\ Top.count + 1 < N
    <3>1. ASSUME NEW k \in 0..N-1, k # N - 1 PROVE k + 1 \in Nat /\ k + 1 < N
      BY <1>6, <3>1
    <3>2. Top.count \in 0..N-1 /\ Top.count # N - 1 /\ IsEntry(e) /\ TidyDirectory(Disc, e)
      BY <1>2, <1>3, <1>12
    <3> QED BY ONLY <3>1, <3>2
  <2>2. PICK c \in Calls :
          /\ calls' = <<c>> /\ c.itr = 0 /\ c.offset = 0 /\ c.start = e.start
          /\ c.bytes = e.bytes /\ c.count = Top.count + 1
    <3>1. ASSUME NEW n \in Nat, n = Top.count + 1
          PROVE  \E c \in Calls :
                   /\ calls' = <<c>> /\ c.itr = 0 /\ c.offset = 0 /\ c.start = e.start
                   /\ c.bytes = e.bytes /\ c.count = n
      <4>1. calls' = <<Call(e, n)>>
        BY <1>12, <3>1
      <4> QED BY <2>1, <4>1, NewCall
    <3> QED BY <2>1, <3>1
  <2>3. calls' \in Seq(Calls) /\ Len(calls') = 1 /\ Top' = c
    BY <2>2 DEF Top
  <2>4. Look'
    <3>1. TidyDirectory(Disc, c) /\ 0 <= Len(Disc[c.start].entries)
      <4>1. TidyDirectory(Disc, c)
        BY <2>1, <2>2, TidyAlike
      <4> QED BY <1>2, <4>1, TidyFacts
    <3>2. Read(c, look_offset)'
      BY <1>1, <1>12, <2>2, <3>1 DEF Read
    <3>3. \E d \in ResolvedBy(Disc)[c.count] : d.dir /\ d.start = c.start /\ d.bytes = c.bytes
      BY <1>10, <1>12, <2>2
    <3>4. \A j \in 1..c.offset : FALSE
      BY <2>2
    <3>5. c.count < Len(kernel_name)
      BY <2>1, <2>2 DEF N
    <3> QED BY <1>1, <1>12, <2>3, <3>2, <3>3, <3>4, <3>5 DEF Look
  <2>5. /\ look_offset' \in Int /\ look_offset' >= look_offset
        /\ look_offset' - look_offset = Top'.count - Top.count
        /\ Top.count \in Nat /\ Top'.count \in Nat
    <3>1. ASSUME NEW x \in Int, NEW n \in Nat
          PROVE  x + 1 \in Int /\ x + 1 >= x /\ (x + 1) - x = (n + 1) - n /\ n + 1 \in Nat
      OBVIOUS
    <3>2. Top.count \in Nat /\ Top'.count = Top.count + 1
      BY <1>2, <2>2, <2>3
    <3> QED BY ONLY <1>2, <1>12, <3>1, <3>2
  <2> QED BY <1>1, <1>12, <2>4, <2>5, LookFrame
<1>13. CASE /\ Top.offset < Len(entries) /\ (~matches \/ (~last /\ ~e.dir))
            /\ Skip /\ UNCHANGED <<pc, dev, searched, i, look_offset>>
  <2>1. PICK c \in Calls :
          /\ calls' = SetTop(c) /\ c.offset = Top.offset + 1 /\ c.count = Top.count
          /\ c.itr = Top.itr /\ c.start = Top.start /\ c.bytes = Top.bytes
    <3>1. ASSUME NEW t \in Calls, t = Top
          PROVE  \E c \in Calls :
                   /\ calls' = SetTop(c) /\ c.offset = t.offset + 1 /\ c.count = t.count
                   /\ c.itr = t.itr /\ c.start = t.start /\ c.bytes = t.bytes
      <4>1. calls' = SetTop([t EXCEPT !.offset = @ + 1])
        BY <1>13, <3>1 DEF Skip
      <4> QED BY <4>1, CallFacts
    <3> QED BY <1>2, <3>1
  <2>2. calls' \in Seq(Calls) /\ Len(calls') = 1 /\ Top' = c
    <3>1. Len(calls) >= 1
      BY <1>2
    <3> QED BY <1>2, <2>1, <3>1, SetTopFacts DEF Top
  <2>3. ~Leads(entries[Top.offset + 1], Top.count)
    BY <1>3, <1>13 DEF Leads, N
  <2>4. Look'
    <3>1. Top.offset + 1 <= Len(entries)
      BY <1>3, <1>13
    <3>2. Read(c, look_offset)'
      BY <1>1, <1>2, <1>3, <1>8, <2>1, <3>1, <1>13 DEF Read, TidyDirectory
    <3>3. \E d \in ResolvedBy(Disc)[c.count] : d.dir /\ d.start = c.start /\ d.bytes = c.bytes
      BY <1>4, <2>1
    <3>4. \A j \in 1..c.offset : ~Leads(Disc[c.start].entries[j], c.count)
      <4>1. ASSUME NEW j \in 1..Top.offset + 1 PROVE ~Leads(entries[j], Top.count)
        <5>1. j \in 1..Top.offset \/ j = Top.offset + 1
          BY <1>3, <4>1
        <5> QED BY <1>7, <2>3, <5>1
      <4> QED BY <1>8, <2>1, <4>1
    <3>5. c.count < Len(kernel_name)
      BY <1>2, <1>6, <2>1 DEF N
    <3> QED BY <1>1, <1>13, <2>2, <3>2, <3>3, <3>4, <3>5 DEF Look
  <2>5. look_offset' = look_offset /\ Top'.count = Top.count /\ Top.count \in Nat
    BY <1>2, <1>13, <2>1, <2>2
  <2>6. /\ look_offset' \in Int /\ look_offset' >= look_offset
        /\ look_offset' - look_offset = Top'.count - Top.count /\ Top'.count \in Nat
    <3>1. ASSUME NEW x \in Int, NEW n \in Nat
          PROVE  x >= x /\ x - x = n - n
      OBVIOUS
    <3> QED BY ONLY <1>2, <2>5, <3>1
  <2> QED BY <1>1, <1>13, <2>4, <2>5, <2>6, LookFrame
<1>14. Top.offset = Len(entries) \/ Top.offset < Len(entries)
  BY <1>3
<1>15. CASE Top.offset < Len(entries)
  BY <1>3, <1>5, <1>11, <1>12, <1>13, <1>15
<1> QED BY <1>9, <1>14, <1>15

---------------------------------------------------------------------------
(* Steps: the kernel's file is loaded, and its segments copied             *)

\* What holds of the file once it is found.
LEMMA KernelFacts ==
  ASSUME Detection, Clean, SearchInv, Kernel
  PROVE  /\ Disc = Blocks(machine, dev) /\ dev \in WithKernel(machine) /\ machine \in Machines
         /\ Whole(Disc) /\ searched \in Resolved(Disc) /\ IsEntry(searched)
         /\ LastBlock \in Nat /\ searched.start \in Nat
         /\ LastBlock = searched.bytes \div BLOCK_SIZE
<1>1. /\ Disc = Blocks(machine, dev) /\ Whole(Disc) /\ dev \in Devices /\ machine \in Machines
      /\ Readable(machine, dev)
  BY DiscFacts DEF Clean, SearchInv, Reading, Devices
<1>2. searched \in Resolved(Disc)
  BY DEF SearchInv
<1>3. IsEntry(searched)
  <2>1. Len(kernel_name) \in 0..Len(kernel_name)
    BY Parts
  <2>2. searched \in Entries(Disc)
    BY <1>1, <1>2, <2>1, ResolvedSteps DEF Resolved
  <2> QED BY <1>1, <2>2, EntryFacts
<1>4. LastBlock \in Nat /\ searched.start \in Nat
  <2>1. searched.bytes \in Nat /\ BLOCK_SIZE \in Nat \ {0}
    BY <1>3, LoaderConstants DEF IsEntry
  <2> QED BY <1>3, <2>1 DEF LastBlock, IsEntry
<1> QED BY <1>1, <1>2, <1>3, <1>4 DEF WithKernel, LastBlock

\* The search is over.
LEMMA KernelFrame ==
  ASSUME CleanStep, SearchInv, Kernel, Kernel' \/ pc' \in {"wild", "error"},
         UNCHANGED <<dev, searched, dir_entries, walks, look_offset, nestedOffset>>,
         pc' = "error" => memory'[KERNEL_LOAD_START] # Junk /\ ~IsElf'
  PROVE  SearchInv'
<1>1. /\ pc \in {"load", "elf", "segments", "started"}
      /\ pc' \in {"load", "elf", "segments", "started", "wild", "error"}
      /\ machine' = machine /\ Disc' = Disc
  BY DEF Kernel, CleanStep, Disc
<1>2. ~Searching' /\ ~Searching
  BY <1>1 DEF Searching
<1>3. Passed' /\ Reading'
  BY <1>1, <1>2 DEF Passed, Reading, SearchInv
<1>4. Offsets'
  <2>1. /\ walks \in Nat /\ walks <= dev /\ nestedOffset = -walks /\ look_offset \in Int
        /\ -walks <= look_offset
    BY <1>1, <1>2 DEF SearchInv, Offsets, Done
  <2>2. Done' = walks
    BY <1>2 DEF Done
  <2> QED BY <1>1, <1>2, <2>1, <2>2 DEF Offsets
<1>5. Buffer' /\ Walk' /\ Look'
  BY <1>1 DEF Buffer, Walk, Look, SearchInv
<1> QED BY <1>1, <1>3, <1>4, <1>5 DEF SearchInv

LEMMA LoadKernelKeeps ==
  ASSUME CleanStep, SearchInv, LoadInv, load_kernel
  PROVE  SearchInv' /\ LoadInv'
<1> DEFINE a == KERNEL_LOAD_START + i
<1>1. /\ pc = "load" /\ pc' \in {"load", "elf"} /\ machine' = machine /\ Disc' = Disc /\ Detection
      /\ UNCHANGED <<dev, searched, dir_entries, walks, look_offset, nestedOffset>>
  BY DEF load_kernel, CleanStep, drive, buffers, Disc
<1>2. Kernel /\ Kernel' /\ LastBlock' = LastBlock
  BY <1>1 DEF Kernel, LastBlock
<1>3. /\ LastBlock \in Nat /\ searched.start \in Nat /\ i \in 0..LastBlock /\ LoadedTo(i)
      /\ DOMAIN memory = 0..MemoryEnd-1
  BY <1>1, <1>2, KernelFacts DEF CleanStep, LoadInv
<1>4. KERNEL_LOAD_START \in Nat /\ MemoryEnd \in Nat /\ a \in Nat
  BY <1>3, LoaderConstants
<1>5. PICK answer \in Answers(searched.start + i, memory[a]) :
         errors' = answer.errors /\ memory' = [memory EXCEPT ![a] = answer.new]
  BY DEF load_kernel
<1>6. answer.new = IF searched.start + i \in DOMAIN Disc THEN Disc[searched.start + i] ELSE memory[a]
  <2>1. ASSUME NEW lba, lba = searched.start + i
        PROVE  answer.new = IF lba \in DOMAIN Disc THEN Disc[lba] ELSE memory[a]
    BY <1>1, <1>5, <2>1, CleanAnswer DEF CleanStep
  <2> QED BY <2>1
<1>7. \A k \in 0..i : searched.start + k \in DOMAIN Disc /\ KERNEL_LOAD_START + k < MemoryEnd =>
         memory'[KERNEL_LOAD_START + k] = Disc[searched.start + k]
  <2> SUFFICES ASSUME NEW k \in 0..i, searched.start + k \in DOMAIN Disc,
                      KERNEL_LOAD_START + k < MemoryEnd
               PROVE  memory'[KERNEL_LOAD_START + k] = Disc[searched.start + k]
    OBVIOUS
  <2>1. CASE k = i
    <3>1. a \in 0..MemoryEnd-1
      BY <1>4, <2>1
    <3> QED BY <1>3, <1>5, <1>6, <2>1, <3>1
  <2>2. CASE k # i
    <3>1. k \in 0..i-1 /\ KERNEL_LOAD_START + k # a
      BY <1>3, <1>4, <2>2
    <3>2. memory[KERNEL_LOAD_START + k] = Disc[searched.start + k]
      BY <1>3, <3>1 DEF LoadedTo
    <3>3. KERNEL_LOAD_START + k \in 0..MemoryEnd-1
      BY <1>3, <1>4
    <3> QED BY <1>3, <1>5, <3>1, <3>2, <3>3
  <2> QED BY <2>1, <2>2
<1>8. SearchInv'
  BY <1>1, <1>2, KernelFrame
<1>9. DOMAIN memory' = 0..MemoryEnd-1
  BY <1>3, <1>5
<1>10. CASE i < LastBlock
  <2>1. i' = i + 1 /\ pc' = "load" /\ i + 1 \in 0..LastBlock
    BY <1>3, <1>10 DEF load_kernel
  <2>2. LoadedTo(i)'
    <3>1. \A k \in 0..i'-1 : k \in 0..i
      BY <1>3, <2>1
    <3> QED BY <1>1, <1>7, <3>1 DEF LoadedTo
  <2> QED BY <1>2, <1>8, <1>9, <2>1, <2>2 DEF LoadInv
<1>11. CASE ~(i < LastBlock)
  <2>1. i' = 0 /\ pc' = "elf" /\ i = LastBlock
    BY <1>3, <1>11 DEF load_kernel
  <2>2. LoadedTo(LastBlock + 1)'
    <3>1. \A k \in 0..(LastBlock + 1)-1 : k \in 0..i
      BY <1>3, <2>1
    <3> QED BY <1>1, <1>2, <1>7, <3>1 DEF LoadedTo
  <2> QED BY <1>2, <1>8, <1>9, <2>1, <2>2 DEF LoadInv
<1> QED BY <1>10, <1>11

LEMMA ElfKeeps ==
  ASSUME CleanStep, SearchInv, LoadInv, load_elf32, KernelsThere
  PROVE  SearchInv' /\ LoadInv'
<1>1. /\ pc = "elf" /\ pc' = (IF IsElf THEN "segments" ELSE "error")
      /\ machine' = machine /\ Disc' = Disc /\ Detection /\ Clean
      /\ UNCHANGED <<dev, searched, dir_entries, walks, look_offset, nestedOffset, memory, i>>
  BY DEF load_elf32, CleanStep, drive, buffers, Disc, image
<1>2. Kernel /\ LastBlock' = LastBlock
  BY <1>1 DEF Kernel, LastBlock
<1>3. /\ i = 0 /\ LoadedTo(LastBlock + 1) /\ DOMAIN memory = 0..MemoryEnd-1 /\ LastBlock \in Nat
      /\ searched.start \in Nat /\ Whole(Disc)
  BY <1>1, <1>2, KernelFacts DEF LoadInv
<1>4. searched.start \in DOMAIN Disc
  BY <1>1, <1>2, KernelFacts DEF KernelsThere, Clean
<1>5. memory[KERNEL_LOAD_START] = Disc[searched.start]
  <2>1. KERNEL_LOAD_START \in Nat /\ MemoryEnd \in Nat /\ KERNEL_LOAD_START < MemoryEnd
    BY LoaderConstants
  <2>2. 0 \in 0..(LastBlock + 1)-1
    BY <1>3
  <2>3. searched.start + 0 = searched.start /\ KERNEL_LOAD_START + 0 = KERNEL_LOAD_START
    BY <1>3, <2>1
  <2> QED BY <1>3, <1>4, <2>1, <2>2, <2>3 DEF LoadedTo
<1>6. memory[KERNEL_LOAD_START] # Junk
  BY <1>3, <1>4, <1>5 DEF Whole, IsBlock, Junk
<1>7. CASE IsElf
  <2>1. pc' = "segments" /\ Kernel'
    BY <1>1, <1>7 DEF Kernel
  <2>2. SearchInv'
    BY <1>1, <1>2, <2>1, KernelFrame
  <2>3. Disc[searched.start].is = "file" /\ KernelFile \in DOMAIN Elf
    BY <1>5, <1>7 DEF IsElf, KernelFile
  <2>4. KernelFile' = KernelFile
    BY <1>1 DEF KernelFile
  <2>5. i \in 0..Len(Elf[KernelFile])
    <3>1. Len(Elf[KernelFile]) \in Nat
      BY <2>3, ProgramHeaders DEF IsList
    <3> QED BY <1>3, <3>1
  <2>6. LoadedTo(LastBlock + 1)'
    BY <1>1, <1>2, <1>3 DEF LoadedTo
  <2>7. \A k \in 1..i' : FALSE
    BY <1>1, <1>3
  <2> QED BY <1>1, <1>2, <1>3, <2>1, <2>2, <2>3, <2>4, <2>5, <2>6, <2>7 DEF LoadInv
<1>8. CASE ~IsElf
  <2>1. pc' = "error" /\ ~IsElf'
    BY <1>1, <1>8 DEF IsElf
  <2>2. SearchInv'
    BY <1>1, <1>2, <1>6, <2>1, KernelFrame
  <2> QED BY <1>1, <1>3, <2>1, <2>2 DEF LoadInv
<1> QED BY <1>7, <1>8

\* A complete kernel: the program headers that are read are those of the file.
LEMMA HeaderFacts ==
  ASSUME Detection, Clean, SearchInv, LoadInv, KernelsThere, KernelsComplete,
         pc \in {"segments", "started"}, Fits(Elf[KernelFile])
  PROVE  LET headers == Elf[KernelFile]
             Segments == {k \in DOMAIN headers : headers[k].load} IN
         /\ Len(headers) \in Nat /\ DOMAIN headers = 1..Len(headers)
         /\ \A k \in DOMAIN headers : LET p == headers[k] IN
              /\ p.load \in BOOLEAN /\ p.offset \in Nat /\ p.vaddr \in Nat
              /\ p.filesz \in Nat /\ p.memsz \in Nat
         /\ \A k \in Segments : LET p == headers[k] IN
              /\ p.vaddr + p.memsz <= KERNEL_LOAD_START
              /\ p.filesz <= p.memsz /\ p.offset + p.filesz <= LastBlock + 1
              /\ \A j \in p.offset .. p.offset + p.filesz - 1 :
                    searched.start + j \in DOMAIN Disc /\ KERNEL_LOAD_START + j < MemoryEnd
         /\ \A k, l \in Segments : k # l =>
              \/ headers[k].vaddr + headers[k].memsz <= headers[l].vaddr
              \/ headers[l].vaddr + headers[l].memsz <= headers[k].vaddr
         /\ \E k \in Segments :
              KERNEL_START \in headers[k].vaddr .. headers[k].vaddr + headers[k].memsz - 1
<1> DEFINE headers == Elf[KernelFile]
           Segments == {k \in DOMAIN headers : headers[k].load}
<1>1. Kernel /\ KernelFile \in DOMAIN Elf /\ Disc[searched.start].is = "file" /\ Tidy(machine)
  BY DEF Kernel, LoadInv, Clean
<1>2. Disc = Blocks(machine, dev) /\ dev \in WithKernel(machine) /\ machine \in Machines
      /\ searched \in Resolved(Disc) /\ LastBlock = searched.bytes \div BLOCK_SIZE
  BY <1>1, KernelFacts
<1>3. Complete(Disc, searched, headers)
  BY <1>1, <1>2 DEF KernelsComplete, KernelFile
<1>4. /\ IsList(headers)
      /\ \A k \in DOMAIN headers :
           /\ headers[k].load \in BOOLEAN /\ headers[k].offset \in Nat /\ headers[k].vaddr \in Nat
           /\ headers[k].filesz \in Nat /\ headers[k].memsz \in Nat
  BY <1>1, ProgramHeaders
<1>5. \A k \in Segments : headers[k].vaddr + headers[k].memsz <= KERNEL_LOAD_START
  BY DEF Fits
<1> HIDE DEF headers
<1>6. /\ \A k \in Segments : LET p == headers[k] IN
              /\ p.filesz <= p.memsz /\ p.offset + p.filesz <= LastBlock + 1
              /\ \A j \in p.offset .. p.offset + p.filesz - 1 :
                    searched.start + j \in DOMAIN Disc /\ KERNEL_LOAD_START + j < MemoryEnd
      /\ \A k, l \in Segments : k # l =>
              \/ headers[k].vaddr + headers[k].memsz <= headers[l].vaddr
              \/ headers[l].vaddr + headers[l].memsz <= headers[k].vaddr
      /\ \E k \in Segments :
              KERNEL_START \in headers[k].vaddr .. headers[k].vaddr + headers[k].memsz - 1
  BY <1>2, <1>3 DEF Complete
<1> QED BY <1>4, <1>5, <1>6 DEF IsList, headers

\* One segment is copied: below the file, and apart from those copied before.
LEMMA CopiedFacts ==
  ASSUME NEW p, p.offset \in Nat, p.vaddr \in Nat, p.filesz \in Nat, p.memsz \in Nat,
         p.filesz <= p.memsz, p.vaddr + p.memsz <= KERNEL_LOAD_START,
         DOMAIN memory = 0..MemoryEnd-1
  PROVE  /\ \A j \in 0..p.filesz-1 :
              Copied(p)[p.vaddr + j] = memory[KERNEL_LOAD_START + (p.offset + j)]
         /\ \A j \in p.filesz..p.memsz-1 : Copied(p)[p.vaddr + j] = Zero
         /\ \A a \in 0..MemoryEnd-1 : a < p.vaddr \/ a >= p.vaddr + p.memsz => Copied(p)[a] = memory[a]
<1>1. PICK v \in Nat, o \in Nat, f \in Nat, m \in Nat :
        p.vaddr = v /\ p.offset = o /\ p.filesz = f /\ p.memsz = m
  OBVIOUS
<1>2. f <= m /\ v + m <= KERNEL_LOAD_START
  BY <1>1
<1> DEFINE src == KERNEL_LOAD_START + o
           c == Copied(p)
<1>3. /\ KERNEL_LOAD_START \in Nat /\ MemoryEnd \in Nat /\ KERNEL_LOAD_START < MemoryEnd
      /\ src \in Nat
  BY LoaderConstants
<1>4. ~(v > src /\ v < src + f)
  BY <1>3, <1>2
<1>5. c = [a \in 0..MemoryEnd-1 |->
            IF a \in v .. v + f - 1 THEN memory[src + (a - v)]
            ELSE IF a \in v + f .. v + m - 1 THEN Zero
            ELSE memory[a]]
  BY <1>1, <1>4 DEF Copied
<1> HIDE DEF c
<1>6. ASSUME NEW j \in 0..f-1 PROVE c[v + j] = memory[KERNEL_LOAD_START + (o + j)]
  <2>1. v + j \in 0..MemoryEnd-1 /\ v + j \in v .. v + f - 1 /\ src + ((v + j) - v) = KERNEL_LOAD_START + (o + j)
    BY <1>3, <1>6, <1>2
  <2> QED BY <1>5, <2>1
<1>7. ASSUME NEW j \in f..m-1 PROVE c[v + j] = Zero
  <2>1. v + j \in 0..MemoryEnd-1 /\ v + j \notin v .. v + f - 1 /\ v + j \in v + f .. v + m - 1
    BY <1>3, <1>7, <1>2
  <2> QED BY <1>5, <2>1
<1>8. ASSUME NEW a \in 0..MemoryEnd-1, a < v \/ a >= v + m PROVE c[a] = memory[a]
  <2>1. a \notin v .. v + f - 1 /\ a \notin v + f .. v + m - 1
    BY <1>3, <1>8, <1>2
  <2> QED BY <1>5, <2>1
<1> QED BY <1>1, <1>6, <1>7, <1>8 DEF c

\* The kernel's header stays where it is looked at.
LEMMA HeaderStays ==
  ASSUME Detection, Clean, SearchInv, LoadInv, KernelsThere, pc \in {"segments", "started"},
         Fits(Elf[KernelFile])
  PROVE  memory[KERNEL_LOAD_START] = Disc[searched.start] /\ (IsElf => Headers = Elf[KernelFile])
<1>1. Kernel /\ LoadedTo(LastBlock + 1)
  BY DEF Kernel, LoadInv
<1>2. LastBlock \in Nat /\ searched.start \in Nat /\ searched.start \in DOMAIN Disc
  BY <1>1, KernelFacts DEF KernelsThere, Clean
<1>3. KERNEL_LOAD_START \in Nat /\ MemoryEnd \in Nat /\ KERNEL_LOAD_START < MemoryEnd
  BY LoaderConstants
<1>4. 0 \in 0..(LastBlock + 1)-1
  BY <1>2
<1>5. searched.start + 0 = searched.start /\ KERNEL_LOAD_START + 0 = KERNEL_LOAD_START
  BY <1>2, <1>3
<1>6. memory[KERNEL_LOAD_START] = Disc[searched.start]
  BY <1>1, <1>2, <1>3, <1>4, <1>5 DEF LoadedTo
<1> QED BY <1>6 DEF Headers, KernelFile

\* An address of one segment, which ends below the file and apart from another.
LEMMA Apart ==
  ASSUME NEW v \in Nat, NEW m \in Nat, NEW w \in Nat, NEW n \in Nat,
         v + m <= w \/ w + n <= v, v + m <= KERNEL_LOAD_START, NEW j \in 0..m-1
  PROVE  v + j \in 0..MemoryEnd-1 /\ (v + j < w \/ v + j >= w + n)
<1>1. KERNEL_LOAD_START \in Nat /\ MemoryEnd \in Nat /\ KERNEL_LOAD_START < MemoryEnd
  BY LoaderConstants
<1> QED BY <1>1

\* Copying segment n leaves the file and the segments before it, and puts this one
\* in its place.
LEMMA SegmentCopied ==
  ASSUME Detection, Clean, SearchInv, LoadInv, KernelsThere, KernelsComplete,
         pc = "segments", Fits(Elf[KernelFile]),
         i < Len(Elf[KernelFile]), Elf[KernelFile][i+1].load
  PROVE  LET p == Elf[KernelFile][i+1]
             c == Copied(p) IN
         /\ \A k \in 0..LastBlock :
              searched.start + k \in DOMAIN Disc /\ KERNEL_LOAD_START + k < MemoryEnd =>
                c[KERNEL_LOAD_START + k] = Disc[searched.start + k]
         /\ \A k \in 1..i+1 : LET q == Elf[KernelFile][k] IN
              q.load => /\ \A j \in 0..q.filesz-1 :
                             c[q.vaddr + j] = Disc[searched.start + q.offset + j]
                        /\ \A j \in q.filesz..q.memsz-1 : c[q.vaddr + j] = Zero
<1> DEFINE headers == Elf[KernelFile]
           Segments == {k \in DOMAIN headers : headers[k].load}
           p == headers[i+1]
           c == Copied(p)
<1>1. /\ DOMAIN memory = 0..MemoryEnd-1 /\ LoadedTo(LastBlock + 1) /\ i \in 0..Len(headers)
      /\ \A k \in 1..i : headers[k].load => Placed(headers[k])
  BY DEF LoadInv
<1>2. Kernel
  BY DEF Kernel
<1>3. LastBlock \in Nat /\ searched.start \in Nat
  BY <1>2, KernelFacts
<1>4. /\ Len(headers) \in Nat /\ DOMAIN headers = 1..Len(headers)
      /\ \A k \in DOMAIN headers :
           /\ headers[k].load \in BOOLEAN /\ headers[k].offset \in Nat /\ headers[k].vaddr \in Nat
           /\ headers[k].filesz \in Nat /\ headers[k].memsz \in Nat
      /\ \A k \in Segments :
              /\ headers[k].vaddr + headers[k].memsz <= KERNEL_LOAD_START
              /\ headers[k].filesz <= headers[k].memsz
              /\ headers[k].offset + headers[k].filesz <= LastBlock + 1
              /\ \A j \in headers[k].offset .. headers[k].offset + headers[k].filesz - 1 :
                    searched.start + j \in DOMAIN Disc /\ KERNEL_LOAD_START + j < MemoryEnd
      /\ \A k, l \in Segments : k # l =>
              \/ headers[k].vaddr + headers[k].memsz <= headers[l].vaddr
              \/ headers[l].vaddr + headers[l].memsz <= headers[k].vaddr
  BY HeaderFacts
<1>5. KERNEL_LOAD_START \in Nat /\ MemoryEnd \in Nat /\ KERNEL_LOAD_START < MemoryEnd
  BY LoaderConstants
<1>6. i \in Nat /\ i + 1 \in DOMAIN headers /\ i + 1 \in Segments
  <2>1. i \in Nat /\ i + 1 \in 1..Len(headers)
    BY <1>1, <1>4
  <2> QED BY <1>4, <2>1
<1> HIDE DEF headers
<1>7. PICK v \in Nat, m \in Nat, f \in Nat, o \in Nat :
         p.vaddr = v /\ p.memsz = m /\ p.filesz = f /\ p.offset = o
  BY <1>4, <1>6
<1>8. /\ v + m <= KERNEL_LOAD_START /\ f <= m /\ o + f <= LastBlock + 1
      /\ \A j \in o .. o + f - 1 : searched.start + j \in DOMAIN Disc /\ KERNEL_LOAD_START + j < MemoryEnd
  BY <1>4, <1>6, <1>7
<1> HIDE DEF p
<1>9. /\ \A j \in 0..f-1 : c[v + j] = memory[KERNEL_LOAD_START + (o + j)]
      /\ \A j \in f..m-1 : c[v + j] = Zero
      /\ \A a \in 0..MemoryEnd-1 : a < v \/ a >= v + m => c[a] = memory[a]
  <2>1. ASSUME NEW q, q = p
        PROVE  /\ \A j \in 0..f-1 : Copied(q)[v + j] = memory[KERNEL_LOAD_START + (o + j)]
               /\ \A j \in f..m-1 : Copied(q)[v + j] = Zero
               /\ \A a \in 0..MemoryEnd-1 : a < v \/ a >= v + m => Copied(q)[a] = memory[a]
    <3>1. q.vaddr = v /\ q.memsz = m /\ q.filesz = f /\ q.offset = o
      BY <1>7, <2>1
    <3> QED BY <1>1, <1>8, <3>1, CopiedFacts
  <2> QED BY <2>1
<1> HIDE DEF c
<1>10. ASSUME NEW k \in 0..LastBlock, searched.start + k \in DOMAIN Disc, KERNEL_LOAD_START + k < MemoryEnd
       PROVE  c[KERNEL_LOAD_START + k] = Disc[searched.start + k]
  <2>1. KERNEL_LOAD_START + k \in 0..MemoryEnd-1 /\ KERNEL_LOAD_START + k >= v + m
        /\ k \in 0..(LastBlock + 1)-1
    BY <1>3, <1>5, <1>8, <1>10
  <2> QED BY <1>1, <1>9, <1>10, <2>1 DEF LoadedTo
<1>11. ASSUME NEW k \in 1..i+1, headers[k].load
       PROVE  /\ \A j \in 0..headers[k].filesz-1 :
                   c[headers[k].vaddr + j] = Disc[searched.start + headers[k].offset + j]
              /\ \A j \in headers[k].filesz..headers[k].memsz-1 : c[headers[k].vaddr + j] = Zero
  <2>1. CASE k = i + 1
    <3>1. ASSUME NEW j \in 0..f-1 PROVE c[v + j] = Disc[searched.start + o + j]
      <4>1. o + j \in 0..(LastBlock + 1)-1 /\ o + j \in o .. o + f - 1
            /\ searched.start + (o + j) = searched.start + o + j
        <5>1. ASSUME NEW s \in Nat, NEW n \in Nat, o + f <= n
              PROVE  o + j \in 0..n-1 /\ o + j \in o .. o + f - 1 /\ s + (o + j) = s + o + j
          BY <3>1, <5>1
        <5>2. LastBlock + 1 \in Nat
          BY <1>3
        <5> QED BY ONLY <1>3, <1>8, <5>1, <5>2
      <4>2. memory[KERNEL_LOAD_START + (o + j)] = Disc[searched.start + (o + j)]
        BY <1>1, <1>8, <4>1 DEF LoadedTo
      <4> QED BY <1>9, <3>1, <4>1, <4>2
    <3> QED BY <1>7, <1>9, <2>1, <3>1 DEF p
  <2>2. CASE k # i + 1
    <3>1. k \in 1..i /\ k \in Segments
      <4>1. k \in 1..i /\ k \in 1..Len(headers)
        BY <1>1, <1>4, <1>6, <1>11, <2>2
      <4> QED BY <1>4, <1>11, <4>1
    <3>2. Placed(headers[k])
      BY <1>1, <1>11, <3>1 DEF headers
    <3>3. PICK w \in Nat, n \in Nat, g \in Nat, r \in Nat :
            headers[k].vaddr = w /\ headers[k].memsz = n /\ headers[k].filesz = g /\ headers[k].offset = r
      BY <1>4, <3>1
    <3>4. g <= n /\ w + n <= KERNEL_LOAD_START
      BY <1>4, <3>1, <3>3
    <3>5. w + n <= v \/ v + m <= w
      BY <1>4, <1>6, <1>7, <2>2, <3>1, <3>3 DEF p
    <3>6. ASSUME NEW j \in 0..n-1 PROVE c[w + j] = memory[w + j]
      BY <1>9, <3>4, <3>5, Apart
    <3>7. /\ \A j \in 0..g-1 : memory[w + j] = Disc[searched.start + r + j] /\ j \in 0..n-1
          /\ \A j \in g..n-1 : memory[w + j] = Zero /\ j \in 0..n-1
      <4>1. \A j \in 0..g-1 : memory[w + j] = Disc[searched.start + r + j]
        BY <3>2, <3>3 DEF Placed
      <4>2. \A j \in g..n-1 : memory[w + j] = Zero
        BY <3>2, <3>3 DEF Placed
      <4>3. (\A j \in 0..g-1 : j \in 0..n-1) /\ (\A j \in g..n-1 : j \in 0..n-1)
        BY ONLY <3>4, g \in Nat, n \in Nat
      <4> QED BY <4>1, <4>2, <4>3
    <3> QED BY <3>3, <3>6, <3>7
  <2> QED BY <2>1, <2>2
<1> QED BY <1>10, <1>11 DEF headers, p, c

LEMMA SegmentKeeps ==
  ASSUME CleanStep, SearchInv, LoadInv, load_segment, KernelsThere, KernelsComplete
  PROVE  SearchInv' /\ LoadInv'
<1> DEFINE headers == Elf[KernelFile]
<1>1. /\ pc = "segments" /\ pc' \in {"wild", "segments", "started"}
      /\ machine' = machine /\ Disc' = Disc /\ Detection /\ Clean
      /\ UNCHANGED <<dev, searched, dir_entries, walks, look_offset, nestedOffset>>
  BY DEF load_segment, CleanStep, drive, buffers, Disc
<1>2. Kernel /\ LastBlock' = LastBlock /\ KernelFile' = KernelFile /\ headers' = headers
  BY <1>1 DEF Kernel, LastBlock, KernelFile
<1>3. SearchInv'
  <2>1. Kernel' \/ pc' \in {"wild", "error"}
    BY <1>1 DEF Kernel
  <2> QED BY <1>1, <1>2, <2>1, KernelFrame
<1>4. DOMAIN memory = 0..MemoryEnd-1 /\ DOMAIN memory' = 0..MemoryEnd-1
  <2>1. DOMAIN memory = 0..MemoryEnd-1
    BY DEF LoadInv
  <2>2. \A p : DOMAIN Copied(p) = DOMAIN memory
    BY DEF Copied
  <2> QED BY <2>1, <2>2 DEF load_segment, image
<1>5. Disc[searched.start].is = "file" /\ KernelFile \in DOMAIN Elf
  BY <1>1 DEF LoadInv
<1>6. ASSUME pc' \in {"segments", "started"}, Fits(headers)
      PROVE  /\ LoadedTo(LastBlock + 1)' /\ i' \in 0..Len(headers)
             /\ pc' = "started" => i' = Len(headers)
             /\ \A k \in 1..i' : headers[k].load => Placed(headers[k])'
  <2>1. /\ LoadedTo(LastBlock + 1) /\ i \in 0..Len(headers)
        /\ \A k \in 1..i : headers[k].load => Placed(headers[k])
    BY <1>1, <1>6 DEF LoadInv
  <2>2. IsElf => Headers = headers
    BY <1>1, <1>6, HeaderStays
  <2>3. Len(headers) \in Nat /\ i \in Nat
    BY <1>5, <2>1, ProgramHeaders DEF IsList
  <2> HIDE DEF headers
  <2>4. \/ /\ i < Len(headers) /\ headers[i+1].load
           /\ memory' = Copied(headers[i+1]) /\ i' = i + 1 /\ pc' = "segments"
        \/ /\ i < Len(headers) /\ ~headers[i+1].load
           /\ i' = i + 1 /\ pc' = "segments" /\ memory' = memory
        \/ i = Len(headers) /\ pc' = "started" /\ i' = i /\ memory' = memory
    BY <1>1, <1>6, <2>2 DEF load_segment, image
  <2>5. CASE i < Len(headers) /\ headers[i+1].load /\ memory' = Copied(headers[i+1])
             /\ i' = i + 1 /\ pc' = "segments"
    <3>1. /\ \A k \in 0..LastBlock :
               searched.start + k \in DOMAIN Disc /\ KERNEL_LOAD_START + k < MemoryEnd =>
                 memory'[KERNEL_LOAD_START + k] = Disc[searched.start + k]
          /\ \A k \in 1..i+1 :
               headers[k].load =>
                 /\ \A j \in 0..headers[k].filesz-1 :
                      memory'[headers[k].vaddr + j] = Disc[searched.start + headers[k].offset + j]
                 /\ \A j \in headers[k].filesz..headers[k].memsz-1 : memory'[headers[k].vaddr + j] = Zero
      BY <1>1, <1>6, <2>5, SegmentCopied DEF headers
    <3>2. LoadedTo(LastBlock + 1)'
      <4>1. LastBlock \in Nat
        BY <1>1, <1>2, KernelFacts
      <4>2. \A k \in 0..(LastBlock + 1)-1 : k \in 0..LastBlock
        BY <4>1
      <4> QED BY <1>1, <1>2, <3>1, <4>2 DEF LoadedTo
    <3>3. i' \in 0..Len(headers) /\ 1..i' = 1..i+1
      BY <2>3, <2>5
    <3>4. \A k \in 1..i+1 : headers[k].load => Placed(headers[k])'
      BY <1>1, <1>2, <3>1 DEF Placed
    <3> QED BY <2>5, <3>2, <3>3, <3>4
  <2>6. CASE ~(headers[i+1].load) /\ i < Len(headers) /\ i' = i + 1 /\ pc' = "segments" /\ memory' = memory
    <3>1. i' \in 0..Len(headers) /\ \A k \in 1..i' : k \in 1..i \/ k = i + 1
      BY <2>3, <2>6
    <3>2. \A k \in 1..i' : headers[k].load => Placed(headers[k])
      BY <2>1, <2>6, <3>1
    <3>3. \A k \in 1..i' : headers[k].load => Placed(headers[k])'
      BY <1>1, <1>2, <2>6, <3>2 DEF Placed
    <3>4. LoadedTo(LastBlock + 1)'
      BY <1>1, <1>2, <2>1, <2>6 DEF LoadedTo
    <3> QED BY <2>6, <3>1, <3>3, <3>4
  <2>7. CASE i = Len(headers) /\ pc' = "started" /\ i' = i /\ memory' = memory
    <3>1. \A k \in 1..i' : headers[k].load => Placed(headers[k])'
      BY <1>1, <1>2, <2>1, <2>7 DEF Placed
    <3>2. LoadedTo(LastBlock + 1)'
      BY <1>1, <1>2, <2>1, <2>7 DEF LoadedTo
    <3> QED BY <2>1, <2>7, <3>1, <3>2
  <2> QED BY <2>4, <2>5, <2>6, <2>7
<1>7. LoadInv'
  <2>1. \A k : headers'[k] = headers[k]
    BY <1>2
  <2> QED BY <1>1, <1>2, <1>4, <1>5, <1>6 DEF LoadInv, Kernel
<1> QED BY <1>3, <1>7

---------------------------------------------------------------------------
(* The invariant of the loader                                             *)

LEMMA MinusZero == ASSUME NEW x \in Int, x = 0 PROVE -x = 0
<1>1. x <= 0 /\ x >= 0
  OBVIOUS
<1> QED BY ONLY <1>1, x \in Int

LEMMA LoaderInit == Init => LoaderInv
<1> SUFFICES ASSUME Init PROVE LoaderInv
  OBVIOUS
<1>1. /\ machine \in Machines /\ pc = "detect" /\ dev = 1 /\ errors = 0
      /\ is_atapi = [d \in Devices |-> FALSE] /\ atapi_sector_size = [d \in Devices |-> 0]
      /\ dir_entries = <<>> /\ nestedOffset = 0 /\ look_offset = 0 /\ walks = 0
      /\ memory = [a \in 0..MemoryEnd-1 |-> Junk]
  BY DEF Init
<1>2. ~Searching /\ ~Kernel
  BY <1>1 DEF Searching, Kernel
<1>3. Detection
  <2>1. \A d \in 1..dev-1 : FALSE
    BY <1>1
  <2> QED BY <1>1, <2>1 DEF Detection, Detected, Devices
<1>4. Passed /\ Reading
  BY <1>1, <1>2 DEF Passed, Reading
<1>5. Offsets
  <2>1. Done = 0
    BY <1>1, <1>2 DEF Done
  <2>2. Done * (Len(kernel_name) - 2) = 0
    BY <2>1, Parts
  <2>3. look_offset <= Done * (Len(kernel_name) - 2) /\ -Done <= look_offset /\ -walks = 0
    <3>1. Done \in Int /\ walks \in Int
      BY <1>1, <2>1
    <3>2. -walks = 0
      BY <1>1, <3>1, MinusZero, Zenon
    <3>3. -Done = 0
      BY <2>1, <3>1, MinusZero, Zenon
    <3>4. look_offset <= 0 /\ 0 <= look_offset
      BY <1>1
    <3> QED BY <2>2, <3>2, <3>3, <3>4, Zenon
  <2>4. walks \in Nat /\ walks <= dev /\ look_offset \in Int
    BY <1>1
  <2> HIDE DEF Done
  <2> QED BY <1>1, <1>2, <2>3, <2>4 DEF Offsets
<1>6. Buffer
  <2>1. DOMAIN dir_entries = {}
    BY <1>1
  <2> QED BY <2>1 DEF Buffer
<1>7. Walk /\ Look
  BY <1>1 DEF Walk, Look
<1>8. LoadInv
  BY <1>1 DEF LoadInv
<1> QED BY <1>2, <1>3, <1>4, <1>5, <1>6, <1>7, <1>8 DEF LoaderInv, SearchInv

LEMMA LoaderNext ==
  ASSUME KernelsThere, KernelsComplete, BuffersHold, LoaderInv, [Next]_vars
  PROVE  LoaderInv'
<1>1. Detection'
  BY DetectionStep DEF LoaderInv
<1>2. ASSUME Clean' PROVE SearchInv' /\ LoadInv'
  <2>1. CleanStep
    BY <1>2, CleanBefore DEF LoaderInv
  <2>2. SearchInv /\ LoadInv
    BY <2>1 DEF CleanStep, LoaderInv
  <2>3. CASE UNCHANGED vars
    <3>1. /\ UNCHANGED <<machine, pc, dev, dir_entry, dir_entries, nestedOffset, look_offset>>
          /\ UNCHANGED <<calls, searched, i, memory, walks>>
          /\ Disc' = Disc /\ Top' = Top /\ LastBlock' = LastBlock /\ KernelFile' = KernelFile
          /\ Searching' = Searching /\ Kernel' = Kernel /\ IsElf' = IsElf
      BY <2>3 DEF vars, Disc, Top, LastBlock, KernelFile, Searching, Kernel, IsElf
    <3>2. Passed' /\ Reading' /\ Offsets' /\ Buffer' /\ (Kernel' => searched' \in Resolved(Disc)')
      BY <2>2, <3>1 DEF SearchInv, Passed, Reading, Offsets, Done, Buffer
    <3>3. Walk' /\ Look'
      BY <2>2, <3>1 DEF SearchInv, Walk, Look, Read, Descended
    <3>4. LoadInv'
      BY <2>2, <3>1 DEF LoadInv, LoadedTo, Placed
    <3> QED BY <3>1, <3>2, <3>3, <3>4 DEF SearchInv
  <2>4. CASE detect_device_ata_atapi
    BY <2>1, <2>2, <2>4, DetectKeeps
  <2>5. CASE check_and_load_kernel
    BY <2>1, <2>2, <2>5, CheckKeeps
  <2>6. CASE read_atapi_device
    BY <2>1, <2>2, <2>6, DescriptorsKeep
  <2>7. CASE traverse_reads
    BY <2>1, <2>2, <2>7, TraverseReadsKeep
  <2>8. CASE traverse
    BY <2>1, <2>2, <2>8, TraverseKeeps
  <2>9. CASE look_reads
    BY <2>1, <2>2, <2>9, LookReadsKeep
  <2>10. CASE look_for_file
    BY <2>1, <2>2, <2>10, LookKeeps
  <2>11. CASE load_kernel
    BY <2>1, <2>2, <2>11, LoadKernelKeeps
  <2>12. CASE load_elf32
    BY <2>1, <2>2, <2>12, ElfKeeps
  <2>13. CASE load_segment
    BY <2>1, <2>2, <2>13, SegmentKeeps
  <2> QED
    BY <2>3, <2>4, <2>5, <2>6, <2>7, <2>8, <2>9, <2>10, <2>11, <2>12, <2>13 DEF Next
<1> QED BY <1>1, <1>2 DEF LoaderInv

LEMMA LoaderInvariant ==
  ASSUME KernelsThere, KernelsComplete, BuffersHold
  PROVE  Spec => []LoaderInv
<1>1. Init => LoaderInv
  BY LoaderInit
<1>2. LoaderInv /\ [Next]_vars => LoaderInv'
  BY LoaderNext
<1> QED BY <1>1, <1>2, PTL DEF Spec

\* On clean runs, find_and_load_kernel ends with the entry that the kernel's path
\* leads to on the first disc that has it, and reports an error only if no disc has
\* it or the file there is not an ELF file: for any discs and buffers that hold.
THEOREM SearchIsCorrect ==
  ASSUME KernelsThere, KernelsComplete, BuffersHold
  PROVE  Spec => []SearchCorrect
<1>1. ASSUME LoaderInv PROVE SearchCorrect
  <2> SUFFICES ASSUME Tidy(machine), errors = 0
               PROVE  /\ Found => {dev} = First(WithKernel(machine)) /\ searched \in Resolved(Disc)
                      /\ pc = "error" =>
                           \/ WithKernel(machine) = {}
                           \/ memory[KERNEL_LOAD_START] # Junk /\ ~IsElf
    BY DEF SearchCorrect
  <2>1. Detection /\ Clean /\ SearchInv
    BY <1>1 DEF LoaderInv, Clean
  <2>2. ASSUME Found PROVE {dev} = First(WithKernel(machine)) /\ searched \in Resolved(Disc)
    <3>1. Kernel /\ pc \notin {"detect", "polling"}
      BY <2>2 DEF Found, Kernel
    <3>2. dev \in WithKernel(machine) /\ searched \in Resolved(Disc)
      BY <2>1, <3>1, KernelFacts
    <3>3. \A d \in WithKernel(machine) : dev <= d
      BY <2>1, <3>1 DEF SearchInv, Passed
    <3>4. \A d \in WithKernel(machine) : d \in 1..4
      BY DEF WithKernel, Devices
    <3>5. \A d \in First(WithKernel(machine)) : d = dev
      BY <3>2, <3>3, <3>4 DEF First
    <3>6. dev \in First(WithKernel(machine))
      BY <3>2, <3>3 DEF First
    <3> QED BY <3>2, <3>5, <3>6
  <2>3. ASSUME pc = "error"
        PROVE  WithKernel(machine) = {} \/ (memory[KERNEL_LOAD_START] # Junk /\ ~IsElf)
    BY <2>1, <2>3 DEF SearchInv, Passed
  <2> QED BY <2>2, <2>3
<1>2. Spec => []LoaderInv
  BY LoaderInvariant
<1> QED BY <1>1, <1>2, PTL

\* The offsets of traverse and look_for_file stay in the buffer of directories, and
\* a walk over a disc leaves nestedOffset one block before where it found it.
THEOREM BuffersStayApart ==
  ASSUME KernelsThere, KernelsComplete, BuffersHold
  PROVE  Spec => []BuffersApart
<1>1. ASSUME LoaderInv PROVE BuffersApart
  <2> SUFFICES ASSUME Tidy(machine), errors = 0
               PROVE  /\ DOMAIN dir_entries \subseteq -BlocksBelow..BlocksAbove
                      /\ pc = "look" /\ Top.count = 0 => nestedOffset = -walks
    BY DEF BuffersApart
  <2>1. SearchInv
    BY <1>1 DEF LoaderInv, Clean
  <2> QED BY <2>1 DEF SearchInv, Buffer, Offsets
<1>2. Spec => []LoaderInv
  BY LoaderInvariant
<1> QED BY <1>1, <1>2, PTL

\* The kernel that load_elf32 hands to stage2.asm is complete: every segment of its
\* file is in its place, for any program headers of a complete file.
THEOREM KernelStaysIntact ==
  ASSUME KernelsThere, KernelsComplete, BuffersHold
  PROVE  Spec => []KernelIntact
<1>1. ASSUME LoaderInv PROVE KernelIntact
  <2> DEFINE headers == Elf[KernelFile]
  <2>1. SUFFICES ASSUME pc = "started", Tidy(machine), errors = 0, KernelFile \in DOMAIN Elf => Fits(headers)
                 PROVE  /\ KernelFile \in DOMAIN Elf
                        /\ memory[KERNEL_START] # Junk
                        /\ \A k \in DOMAIN headers : headers[k].load => Placed(headers[k])
    BY DEF KernelIntact, KernelFile, Placed
  <2>2. Detection /\ Clean /\ SearchInv /\ LoadInv /\ pc \in {"segments", "started"} /\ Kernel
    BY <1>1, <2>1 DEF LoaderInv, Clean, Kernel
  <2>3. KernelFile \in DOMAIN Elf /\ Fits(headers) /\ i = Len(headers)
        /\ \A k \in 1..i : headers[k].load => Placed(headers[k])
    BY <2>1, <2>2 DEF LoadInv
  <2>4. DOMAIN headers = 1..Len(headers)
    BY <2>3, ProgramHeaders DEF IsList
  <2>5. \A k \in DOMAIN headers : headers[k].load => Placed(headers[k])
    BY <2>3, <2>4
  <2>6. memory[KERNEL_START] # Junk
    <3>1. PICK k \in DOMAIN headers :
            /\ headers[k].load
            /\ KERNEL_START \in headers[k].vaddr .. headers[k].vaddr + headers[k].memsz - 1
            /\ headers[k].offset \in Nat /\ headers[k].vaddr \in Nat
            /\ headers[k].filesz \in Nat /\ headers[k].memsz \in Nat
            /\ \A j \in headers[k].offset .. headers[k].offset + headers[k].filesz - 1 :
                  searched.start + j \in DOMAIN Disc
      BY <2>2, <2>3, HeaderFacts
    <3>2. PICK v \in Nat, m \in Nat, f \in Nat, o \in Nat :
            headers[k].vaddr = v /\ headers[k].memsz = m /\ headers[k].filesz = f /\ headers[k].offset = o
      BY <3>1
    <3>3. /\ \A j \in 0..f-1 : memory[v + j] = Disc[searched.start + o + j]
          /\ \A j \in f..m-1 : memory[v + j] = Zero
      BY <2>5, <3>1, <3>2 DEF Placed
    <3>4. KERNEL_START \in v .. v + m - 1 /\ \A j \in o .. o + f - 1 : searched.start + j \in DOMAIN Disc
      BY <3>1, <3>2
    <3>5. searched.start \in Nat /\ Whole(Disc)
      BY <2>2, KernelFacts
    <3> DEFINE j == KERNEL_START - v
    <3>6. j \in 0..m-1 /\ v + j = KERNEL_START /\ (j \in 0..f-1 \/ j \in f..m-1)
      BY <3>4, LoaderConstants
    <3>7. CASE j \in 0..f-1
      <4>1. o + j \in o .. o + f - 1 /\ searched.start + (o + j) = searched.start + o + j
        BY <3>5, <3>7
      <4>2. searched.start + o + j \in DOMAIN Disc
        BY <3>4, <4>1
      <4>3. Disc[searched.start + o + j] # Junk
        BY <3>5, <4>2 DEF Whole, IsBlock, Junk
      <4> QED BY <3>3, <3>6, <3>7, <4>3
    <3>8. CASE j \in f..m-1
      <4>1. Zero # Junk
        BY DEF Zero, Junk
      <4> QED BY <3>3, <3>6, <3>8, <4>1
    <3> QED BY <3>6, <3>7, <3>8
  <2> QED BY <2>3, <2>5, <2>6
<1>2. Spec => []LoaderInv
  BY LoaderInvariant
<1> QED BY <1>1, <1>2, PTL
=============================================================================

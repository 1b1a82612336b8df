------------------------------- MODULE Loader -------------------------------
(***************************************************************************)
(* How stage 2 gets the kernel: it detects the four ATA devices            *)
(* (boot/stage2/ata.c), walks the ISO 9660 disc of each ATAPI device and   *)
(* looks for the kernel's path (ISO9660.c), loads the file to              *)
(* KERNEL_LOAD_START, copies the segments of the ELF file to their         *)
(* addresses (elf.c), and stage2.asm starts it.                            *)
(*                                                                         *)
(* A disc is a function from block numbers to blocks: a volume descriptor, *)
(* a block of a directory with its entries, or a block of a file.  The     *)
(* entries of a block have the same length here, SLOTS of them fill it,    *)
(* and the first free slot is an entry of length 0.  Memory is counted in  *)
(* blocks too.  A read that fails leaves its buffer as it is; what was     *)
(* never written is Junk, and a walk that follows it is "wild".            *)
(***************************************************************************)
EXTENDS Integers, Sequences

CONSTANTS
    Machines,           \* what may be attached: device -> [kind, medium]
    BLOCK_SIZE, SLOTS,
    kernel_name,        \* the parts of the kernel's path
    Elf,                \* ELF file -> its program headers
    KERNEL_START,       \* where stage2.asm jumps to
    KERNEL_LOAD_START,
    MemoryEnd,          \* bound: blocks of memory
    BlocksBelow, BlocksAbove, \* free blocks on both sides of dir_entries, up to
                        \* dir_entry and searched_file_dir_entry
    MaxErrors           \* bound: reads that fail

Devices == 1..4         \* in the order of find_and_load_kernel
VolumeDescriptors == 16..20

ASSUME LoaderConstants ==
    /\ BLOCK_SIZE \in Nat \ {0} /\ SLOTS \in Nat \ {0}
    /\ Len(kernel_name) \in 1..10
    /\ KERNEL_START \in Nat /\ KERNEL_LOAD_START \in Nat /\ MemoryEnd \in Nat
    /\ KERNEL_START < KERNEL_LOAD_START /\ KERNEL_LOAD_START < MemoryEnd
    /\ BlocksBelow \in Nat /\ BlocksAbove \in Nat /\ MaxErrors \in Nat
    /\ \A m \in Machines : DOMAIN m = Devices

\* What blocks of a disc are; extents and lengths are unsigned.  The entry of a
\* root is that of a directory.
IsList(s) == Len(s) \in Nat /\ DOMAIN s = 1..Len(s)
IsEntry(e) ==
    /\ e.is = "entry" /\ e.start \in Nat /\ e.bytes \in Nat
    /\ e.dir \in BOOLEAN /\ e.hidden \in BOOLEAN /\ e.special \in BOOLEAN
IsBlock(b) ==
    /\ b.is \in {"volume", "directory", "file"}
    /\ b.is = "volume" => IsEntry(b.root) /\ b.root.dir
    /\ b.is = "directory" => IsList(b.entries) /\ \A j \in DOMAIN b.entries : IsEntry(b.entries[j])

ASSUME Media ==
    \A m \in Machines : \A d \in Devices :
        \A b \in DOMAIN m[d].medium.sectors : IsBlock(m[d].medium.sectors[b])

\* The fields of a program header are unsigned too.
ASSUME ProgramHeaders ==
    \A f \in DOMAIN Elf : IsList(Elf[f]) /\ \A k \in DOMAIN Elf[f] :
        /\ Elf[f][k].load \in BOOLEAN
        /\ Elf[f][k].offset \in Nat /\ Elf[f][k].vaddr \in Nat
        /\ Elf[f][k].filesz \in Nat /\ Elf[f][k].memsz \in Nat

VARIABLES
    machine,            \* the devices of this boot
    pc,                 \* what stage 2 does next
    dev,                \* the device it detects or uses (the global device)
    is_atapi, atapi_sector_size, \* per device
    root, dir_entry,    \* the volume descriptor read last, its root directory
    dir_entries,        \* the buffer of directories: block -> its contents
    nestedOffset, look_offset, \* where traverse and look_for_file read, in blocks
    calls,              \* the calls of traverse, or the one of look_for_file
    searched,           \* searched_file_dir_entry
    i,                  \* the loop variable of the volume descriptors, of the
                        \* file's blocks and of the program headers
    memory,             \* address -> what is there
    g_kernelAddress,
    errors, walks       \* reads that failed, calls of traverse_the_disk

vars == <<machine, pc, dev, is_atapi, atapi_sector_size, root, dir_entry, dir_entries,
          nestedOffset, look_offset, calls, searched, i, memory, g_kernelAddress,
          errors, walks>>
drive == <<machine, is_atapi, atapi_sector_size>>
volume == <<root, dir_entry>>
buffers == <<dir_entries, nestedOffset, look_offset, walks>>
image == <<memory, g_kernelAddress>>

Junk == [is |-> "junk"]     \* never written
Free == [is |-> "free"]     \* an entry of length 0
Zero == [is |-> "zero"]     \* cleared memory
Sectors(bytes) == (bytes + BLOCK_SIZE - 1) \div BLOCK_SIZE
Call(e, n) == [start |-> e.start, bytes |-> e.bytes, itr |-> 0, offset |-> 0,
               entry |-> 0, count |-> n]
Top == calls[Len(calls)]
SetTop(c) == [calls EXCEPT ![Len(calls)] = c]

---------------------------------------------------------------------------
Init ==
    /\ machine \in Machines
    /\ pc = "detect" /\ dev = 1
    /\ is_atapi = [d \in Devices |-> FALSE]
    /\ atapi_sector_size = [d \in Devices |-> 0]
    /\ root = Junk /\ dir_entry = Junk /\ dir_entries = <<>>
    /\ nestedOffset = 0 /\ look_offset = 0 /\ walks = 0
    /\ calls = <<>> /\ searched = Junk /\ i = 0
    /\ memory = [a \in 0..MemoryEnd-1 |-> Junk] /\ g_kernelAddress = 0
    /\ errors = 0

\* A device is known by its signature; the medium of an ATAPI device by its
\* answer to the capacity command, which is an error without a medium.  A device
\* that never gets ready keeps the loader polling.
detect_device_ata_atapi ==
    /\ pc = "detect"
    /\ LET device == machine[dev] IN
       /\ is_atapi' = [is_atapi EXCEPT ![dev] = device.kind \in {"atapi", "busy"}]
       /\ atapi_sector_size' = [atapi_sector_size EXCEPT ![dev] =
             IF device.kind = "atapi" THEN device.medium.size ELSE 0]
       /\ pc' = IF device.kind = "busy" THEN "polling"
                ELSE IF dev = 4 THEN "check" ELSE "detect"
    /\ dev' = IF dev = 4 THEN 1 ELSE dev + 1
    /\ UNCHANGED <<machine, volume, buffers, calls, searched, i, image, errors>>

\* ata_device_read_sector_atapi: the block, or nothing at all on an error,
\* which nobody is told of.  A block the disc does not have is an error.
Disc == machine[dev].medium.sectors
Answers(lba, old) ==
    (IF lba \in DOMAIN Disc THEN {[new |-> Disc[lba], errors |-> errors]}
                            ELSE {[new |-> old, errors |-> errors]})
    \cup (IF errors < MaxErrors THEN {[new |-> old, errors |-> errors + 1]} ELSE {})

---------------------------------------------------------------------------
(* A variant: the last device is not tried. *)
NextDeviceButLast ==
    /\ dev' = IF dev = 3 THEN dev ELSE dev + 1
    /\ pc' = IF dev = 3 THEN "error" ELSE "check"

\* check_and_load_kernel returned 0 for this device.
NextDevice ==
    /\ dev' = IF dev = 4 THEN dev ELSE dev + 1
    /\ pc' = IF dev = 4 THEN "error" ELSE "check"

check_and_load_kernel ==
    /\ pc = "check"
    /\ IF is_atapi[dev] /\ atapi_sector_size[dev] = BLOCK_SIZE
       THEN pc' = "descriptors" /\ i' = 16 /\ UNCHANGED dev
       ELSE NextDevice /\ UNCHANGED i
    /\ UNCHANGED <<drive, volume, buffers, calls, searched, image, errors>>

\* read_atapi_device looks at the type of what is in the buffer; restore_root
\* copies the root's entry out of a primary volume descriptor.
VolumeType(v) == IF v.is = "volume" THEN {v.type} ELSE {0, 1, 255}

read_atapi_device ==
    /\ pc = "descriptors"
    /\ \E answer \in Answers(i, root) : LET v == answer.new IN
       \E type \in VolumeType(v) :
         /\ root' = v /\ errors' = answer.errors
         /\ \/ /\ type = 1 /\ v.is = "volume"
               /\ dir_entry' = v.root /\ calls' = <<Call(v.root, 0)>>
               /\ walks' = walks + 1
               /\ pc' = "traverse" /\ UNCHANGED <<dev, i>>
            \/ /\ type = 1 /\ v.is # "volume"
               /\ pc' = "wild" /\ UNCHANGED <<dir_entry, calls, walks, dev, i>>
            \/ /\ type = 255 \/ (type = 0 /\ i = 20)
               /\ NextDevice /\ UNCHANGED <<dir_entry, calls, walks, i>>
            \/ /\ type = 0 /\ i < 20
               /\ i' = i + 1 /\ UNCHANGED <<pc, dir_entry, calls, walks, dev>>
    /\ UNCHANGED <<drive, dir_entries, nestedOffset, look_offset, searched, image>>

---------------------------------------------------------------------------
\* The buffer of directories: entry n, counted from block 0, and a call's next
\* block of its directory, which goes where the offset says.
Block(b) == IF b \in DOMAIN dir_entries THEN dir_entries[b] ELSE Junk
Follows(n) ==
    LET block == Block(n \div SLOTS)
        slot == (n % SLOTS) + 1 IN
    IF block.is # "directory" THEN Junk
    ELSE IF slot > Len(block.entries) THEN Free ELSE block.entries[slot]

ReadBlock(offset) ==
    LET b == offset + Top.itr IN
    /\ Top.itr < Sectors(Top.bytes)
    /\ \E answer \in Answers(Top.start + Top.itr, Block(b)) :
         /\ errors' = answer.errors
         /\ dir_entries' = [x \in DOMAIN dir_entries \cup {b} |->
                               IF x = b THEN answer.new ELSE dir_entries[x]]
    /\ calls' = SetTop([Top EXCEPT !.itr = @ + 1])
    /\ UNCHANGED <<drive, volume, pc, dev, nestedOffset, look_offset, searched, i,
                   image, walks>>

(* A variant: an entry that is not looked at is not passed either. *)
SkipForgotten == calls' = calls

\* offset += dir->length
Skip == calls' = SetTop([Top EXCEPT !.offset = @ + 1])

AllRead == Top.itr >= Sectors(Top.bytes)
AtEnd == Top.offset >= Sectors(Top.bytes) * SLOTS

\* The search starts at the root with the first part of the path.
navigate_to_file_directory_entry == calls' = <<Call(dir_entry, 0)>> /\ pc' = "look"

\* traverse returns: its caller goes on behind the entry that was the
\* directory, by the length that stands there now.
TraverseReturns ==
    IF Len(calls) = 1
    THEN navigate_to_file_directory_entry
    ELSE LET caller == calls[Len(calls) - 1] IN
         /\ calls' = Append(SubSeq(calls, 1, Len(calls) - 2),
                            [caller EXCEPT !.offset = @ +
                                IF Follows(caller.entry) = Free THEN 0 ELSE 1])
         /\ pc' = pc

(* A variant: the offset is left where the directory was read. *)
LeaveKept == UNCHANGED nestedOffset

\* At the free slot the block of the directory is given back.
Leave == nestedOffset' = nestedOffset - 1

traverse ==
    /\ pc = "traverse" /\ AllRead
    /\ LET at == nestedOffset * SLOTS + Top.offset
           e == Follows(at) IN
       \/ /\ AtEnd
          /\ TraverseReturns /\ UNCHANGED nestedOffset
       \/ /\ ~AtEnd /\ e = Free
          /\ TraverseReturns /\ Leave
       \/ /\ ~AtEnd /\ e = Junk
          /\ pc' = "wild" /\ UNCHANGED <<calls, nestedOffset>>
       \/ /\ ~AtEnd /\ e.is = "entry" /\ e.dir /\ ~e.hidden /\ ~e.special
          /\ nestedOffset' = nestedOffset + 1
          /\ calls' = Append(SetTop([Top EXCEPT !.entry = at]), Call(e, 0))
          /\ pc' = pc
       \/ /\ ~AtEnd /\ e.is = "entry" /\ (~e.dir \/ e.hidden \/ e.special)
          /\ Skip
          /\ UNCHANGED <<pc, nestedOffset>>
    /\ UNCHANGED <<drive, volume, dev, dir_entries, look_offset, searched, i, image,
                   errors, walks>>

traverse_reads == pc = "traverse" /\ ReadBlock(nestedOffset)

---------------------------------------------------------------------------
look_reads == pc = "look" /\ ReadBlock(look_offset)

NotFound ==
    /\ NextDevice /\ calls' = <<>> /\ UNCHANGED <<searched, i>>

Loading(e) ==
    /\ searched' = e /\ i' = 0 /\ pc' = "load" /\ calls' = <<>> /\ UNCHANGED dev

\* look_for_file: falling off the end of its loop it returns nothing, that is,
\* whatever the register holds; the entry it did not find is not there then.
look_for_file ==
    /\ pc = "look" /\ AllRead
    /\ LET e == Follows(look_offset * SLOTS + Top.offset)
           last == Top.count = Len(kernel_name) - 1
           matches == /\ ~e.hidden
                      /\ e.name = kernel_name[Top.count + 1] IN
       \/ /\ AtEnd /\ UNCHANGED look_offset
          /\ \/ NotFound
             \/ /\ pc' = "wild" /\ UNCHANGED <<dev, calls, searched, i>>
       \/ /\ ~AtEnd /\ e = Free
          /\ look_offset' = look_offset - 1 /\ NotFound
       \/ /\ ~AtEnd /\ e = Junk
          /\ pc' = "wild" /\ UNCHANGED <<dev, calls, searched, i, look_offset>>
       \/ /\ ~AtEnd /\ e.is = "entry" /\ matches /\ last
          /\ Loading(e) /\ UNCHANGED look_offset
       \/ /\ ~AtEnd /\ e.is = "entry" /\ matches /\ ~last /\ e.dir
          /\ look_offset' = look_offset + 1
          /\ calls' = <<Call(e, Top.count + 1)>>
          /\ UNCHANGED <<pc, dev, searched, i>>
       \/ /\ ~AtEnd /\ e.is = "entry" /\ (~matches \/ (~last /\ ~e.dir))
          /\ Skip
          /\ UNCHANGED <<pc, dev, searched, i, look_offset>>
    /\ UNCHANGED <<drive, volume, dir_entries, nestedOffset, walks, image, errors>>

---------------------------------------------------------------------------
(* A variant: the block that is not full is left out. *)
LastWholeBlock == (searched.bytes \div BLOCK_SIZE) - 1

\* load_kernel_from_iso9660_using_atapi: one block more than whole blocks.
LastBlock == searched.bytes \div BLOCK_SIZE

load_kernel ==
    /\ pc = "load"
    /\ LET a == KERNEL_LOAD_START + i IN
       \E answer \in Answers(searched.start + i, memory[a]) :
         /\ errors' = answer.errors
         /\ memory' = [memory EXCEPT ![a] = answer.new]
    /\ i' = IF i < LastBlock THEN i + 1 ELSE 0
    /\ pc' = IF i < LastBlock THEN "load" ELSE "elf"
    /\ UNCHANGED <<drive, volume, buffers, dev, calls, searched, g_kernelAddress>>

\* What is at the address of the header decides what the segments are.
IsElf ==
    LET b == memory[KERNEL_LOAD_START] IN
    b.is = "file" /\ b.block = 0 /\ b.file \in DOMAIN Elf
Headers == Elf[memory[KERNEL_LOAD_START].file]

\* memcpyb copies upwards, then memsetb clears the rest of the segment.
Copied(p) ==
    LET src == KERNEL_LOAD_START + p.offset
        Of(k) == IF p.vaddr > src /\ p.vaddr < src + p.filesz
                 THEN memory[src + (k % (p.vaddr - src))] ELSE memory[src + k] IN
    [a \in DOMAIN memory |->
        IF a \in p.vaddr .. p.vaddr + p.filesz - 1 THEN Of(a - p.vaddr)
        ELSE IF a \in p.vaddr + p.filesz .. p.vaddr + p.memsz - 1 THEN Zero
        ELSE memory[a]]

\* load_elf32: the magic number is looked at once, the program headers where
\* they are in memory, one per step.  Then stage2.asm jumps to the kernel.
load_elf32 ==
    /\ pc = "elf"
    /\ pc' = IF IsElf THEN "segments" ELSE "error"
    /\ UNCHANGED <<drive, volume, buffers, dev, calls, searched, i, image, errors>>

load_segment ==
    /\ pc = "segments"
    /\ \/ /\ ~IsElf
          /\ pc' = "wild" /\ UNCHANGED <<i, image>>
       \/ /\ IsElf /\ i < Len(Headers) /\ Headers[i + 1].load
          /\ memory' = Copied(Headers[i + 1])
          /\ g_kernelAddress' = Headers[i + 1].vaddr
          /\ i' = i + 1 /\ pc' = pc
       \/ /\ IsElf /\ i < Len(Headers) /\ ~Headers[i + 1].load
          /\ i' = i + 1 /\ UNCHANGED <<pc, image>>
       \/ /\ IsElf /\ i = Len(Headers)
          /\ pc' = "started" /\ UNCHANGED <<i, image>>
    /\ UNCHANGED <<drive, volume, buffers, dev, calls, searched, errors>>

Next ==
    \/ detect_device_ata_atapi \/ check_and_load_kernel \/ read_atapi_device
    \/ traverse_reads \/ traverse \/ look_reads \/ look_for_file
    \/ load_kernel \/ load_elf32 \/ load_segment

\* The loader is the only program that runs.
Spec == Init /\ [][Next]_vars /\ WF_vars(Next)
---------------------------------------------------------------------------
\* What the loader should find.  On a tidy medium the volume descriptors can be
\* read, directories fit in one block with a free slot, and the kernel's name
\* is that of at most one entry.
Blocks(m, d) == m[d].medium.sectors
Primary(disc) ==
    {b \in VolumeDescriptors : /\ disc[b].type = 1
                               /\ \A c \in 16..b-1 : disc[c].type = 0}
TidyDirectory(disc, e) ==
    /\ Sectors(e.bytes) = 1
    /\ e.start \in DOMAIN disc /\ disc[e.start].is = "directory"
    /\ Len(disc[e.start].entries) < SLOTS
    /\ \A j, k \in DOMAIN disc[e.start].entries :
          disc[e.start].entries[j].name = disc[e.start].entries[k].name => j = k
TidyDisc(disc) ==
    /\ \A b \in VolumeDescriptors : b \in DOMAIN disc /\ disc[b].is = "volume"
    /\ \A b \in Primary(disc) : TidyDirectory(disc, disc[b].root)
    /\ \A b \in DOMAIN disc : disc[b].is = "directory" =>
         \A j \in DOMAIN disc[b].entries : LET e == disc[b].entries[j] IN
            e.dir => TidyDirectory(disc, e)
Readable(m, d) ==
    m[d].kind = "atapi" /\ m[d].medium.size = BLOCK_SIZE
Tidy(m) == \A d \in Devices : Readable(m, d) => TidyDisc(Blocks(m, d))

\* The entries that the first n parts of the kernel's path lead to, at most one on
\* a tidy disc, and those at its end.
Named(disc, dir, name) ==
    {e \in {disc[dir.start].entries[j] : j \in DOMAIN disc[dir.start].entries} :
        e.name = name /\ ~e.hidden}
ResolvedBy(disc) ==
    LET at[n \in 0..Len(kernel_name)] ==
            IF n = 0 THEN {disc[b].root : b \in Primary(disc)}
            ELSE UNION {Named(disc, dir, kernel_name[n]) : dir \in {e \in at[n-1] : e.dir}}
    IN at
Resolved(disc) == ResolvedBy(disc)[Len(kernel_name)]

\* The devices that have the kernel; the first of them counts.
WithKernel(m) == {d \in Devices : Readable(m, d) /\ Resolved(Blocks(m, d)) # {}}
First(S) == {d \in S : \A c \in S : d <= c}
Found == pc \in {"load", "elf", "segments", "started"}

\* When the drives answer and the discs are tidy, the search of all devices ends
\* with the entry of the kernel on the first disc that has it, and fails only if
\* no disc has it, or the file is not an ELF file (find_and_load_kernel...).
SearchCorrect ==
    Tidy(machine) /\ errors = 0 =>
        /\ Found => {dev} = First(WithKernel(machine)) /\ searched \in Resolved(Disc)
        /\ pc = "error" =>
             WithKernel(machine) = {} \/ (memory[KERNEL_LOAD_START] # Junk /\ ~IsElf)

\* The blocks of the directories stay in their buffer, whatever was walked
\* before: traverse and look_for_file move their offsets back as far as they
\* moved them on, except for the root of each disc.
BuffersApart ==
    Tidy(machine) /\ errors = 0 =>
        /\ DOMAIN dir_entries \subseteq -BlocksBelow..BlocksAbove
        /\ pc = "look" /\ Top.count = 0 => nestedOffset = -walks

\* A kernel that lies below the place its file is loaded to.
Fits(headers) ==
    \A k \in DOMAIN headers : headers[k].load =>
        headers[k].vaddr + headers[k].memsz <= KERNEL_LOAD_START

\* The kernel that is started is complete: every segment of its file is at its
\* address, with the rest of it cleared, although the segments are copied
\* below the file one after the other (load_elf32).
KernelIntact ==
    pc = "started" /\ Tidy(machine) /\ errors = 0 =>
        LET file == Disc[searched.start].file
            headers == IF file \in DOMAIN Elf THEN Elf[file] ELSE <<>> IN
        file \in DOMAIN Elf /\ Fits(headers) =>
          /\ memory[KERNEL_START] # Junk
          /\ \A k \in DOMAIN headers : LET p == headers[k] IN
               p.load => /\ \A j \in 0..p.filesz-1 :
                              memory[p.vaddr + j] = Disc[searched.start + p.offset + j]
                         /\ \A j \in p.filesz..p.memsz-1 : memory[p.vaddr + j] = Zero

\* Hypotheses of the theorems: what tidy discs need besides.  Nobody in the loader
\* checks them.  The kernel's path leads to a file that is there.
KernelsThere ==
    \A m \in Machines : Tidy(m) => \A d \in WithKernel(m) :
        \A e \in Resolved(Blocks(m, d)) : e.start \in DOMAIN Blocks(m, d)

\* An ELF file that is complete: its segments lie in the file and in memory, do not
\* overlap, and one has the place stage2.asm jumps to.
Complete(disc, e, headers) ==
    LET Segments == {k \in DOMAIN headers : headers[k].load} IN
    /\ \A k \in Segments : LET p == headers[k] IN
         /\ p.filesz <= p.memsz /\ p.offset + p.filesz <= (e.bytes \div BLOCK_SIZE) + 1
         /\ \A j \in p.offset .. p.offset + p.filesz - 1 :
               e.start + j \in DOMAIN disc /\ KERNEL_LOAD_START + j < MemoryEnd
    /\ \A k, l \in Segments : k # l =>
         \/ headers[k].vaddr + headers[k].memsz <= headers[l].vaddr
         \/ headers[l].vaddr + headers[l].memsz <= headers[k].vaddr
    /\ \E k \in Segments :
         KERNEL_START \in headers[k].vaddr .. headers[k].vaddr + headers[k].memsz - 1
KernelsComplete ==
    \A m \in Machines : Tidy(m) => \A d \in WithKernel(m) :
        \A e \in Resolved(Blocks(m, d)) :
            LET disc == Blocks(m, d)
                file == disc[e.start].file IN
            disc[e.start].is = "file" /\ file \in DOMAIN Elf /\ Fits(Elf[file]) =>
                Complete(disc, e, Elf[file])

\* Directories nest no deeper than there are blocks behind their buffer, and the
\* offsets of traverse and look_for_file, which each disc moves once more, stay in it.
Below(disc, c, b) ==
    \E j \in DOMAIN disc[b].entries : LET e == disc[b].entries[j] IN
        e.dir /\ ~e.hidden /\ ~e.special /\ e.start = c
Nested(disc) ==
    \A s \in [1..BlocksAbove + 2 -> {b \in DOMAIN disc : disc[b].is = "directory"}] :
        \E k \in 1..BlocksAbove + 1 : ~Below(disc, s[k+1], s[k])
BuffersHold ==
    /\ BlocksBelow >= 3
    /\ \A w \in 0..3 : w * (Len(kernel_name) - 2) + Len(kernel_name) - 1 <= BlocksAbove
    /\ \A m \in Machines : Tidy(m) => \A d \in Devices :
         Readable(m, d) => Nested(Blocks(m, d))

\* Finding: stage2.asm takes a 1 for "Success, Kernel was found and loaded", but
\* reads that failed leave holes in what was loaded.
LoadReported ==
    pc = "elf" => \A k \in 0..Sectors(searched.bytes)-1 :
                     memory[KERNEL_LOAD_START + k] = Disc[searched.start + k]

\* The loader comes to an end, whatever reads fail and wherever full or long
\* directories lead its offsets, unless a device keeps it polling
\* (detect_device_ata_atapi has no timeout for an ATAPI device).  The directories
\* form a tree.
BootEnds ==
    (\A d \in Devices : machine[d].kind # "busy") =>
        <>(pc \in {"started", "error", "wild"})
=============================================================================

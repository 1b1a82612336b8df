# Verification of TheTaaJ

TheTaaJ is a 32-bit x86 hobby operating system: a two-stage boot loader (BIOS, ISO9660, a boot
menu, an ELF loader) and a kernel with a heap, a physical and a virtual memory manager, timers,
a graphical boot terminal and two small support libraries (`libos`, `libds`). This directory
holds TLA+ models of its core logic, TLC configurations that check them on small instances and
TLAPS proofs of what matters most.

`PROJECT.json` lists the components, the runs, the hazards of the code, the theorems, and for
every definition of a module the lines of source it models.

## 1. The system

### Components

| Component | Source | State it keeps | Operations | Modelled by |
|---|---|---|---|---|
| Kernel heap | `kernel/system/heap.c` | three block lists, node lists, header cursor, node recycler, `MemStartData` | `kmalloc`, `_p`, `_a`, `_ap`, `_apm`, `kfree`, expand, queries | `Heap`, `Allocator` |
| Spinlock | `lib/libos` | one lock word | acquire, try-acquire, release | `Spinlock`, `Mutex` |
| Generic list | `lib/libds/list.c` | `Headp`, `Tailp`, `Length`, node links, a spinlock | insert, append, pop, look up, unlink, remove, iterate | `List`, `Sequence` |
| Physical memory | `components/physical_memory.c` | frame bitmap, usage count, `SysMappings` | initialise from the memory map, allocate, free, count | `PhysicalMemory` |
| Timers | `kernel/system/timers.c` | list of timers, list of system timers, the active one | create, destroy, register, tick, interrupt | `Timers` |
| Virtual memory, address space | `x32/memory/virtual_memory.c`, `address_space.c` | page directory and its tables | init, map, translate, reserve | `VirtualMemory` |
| Interrupts, IDT, GDT, PIC | `arch/x86/interrupts`, `x32/*.c`, `*.asm` | descriptor tables, `InterruptTable` | install, dispatch, `InterruptGet` | parts, in `Timers` and `Heap` |
| Kernel entry | `kernel_entry.asm`, `kernel_main.c`, `init.c` | boot information | a straight line of initialisers | planned |
| Boot menu | `boot/stage2/menu.c` | selected item and index, page offset, hidden menus, the screen | keys, drawing, submenus | `Menu` |
| Stage 2 loader | `boot/stage2`: `ata.c`, `ISO9660.c`, `elf.c` | what was detected, the directory buffer and its two offsets, the file, memory | detect, walk, search, load, copy the segments | `Loader` |
| `stage2_malloc` | `boot/stage2/menu.c`, `mem.c` | one pointer | take the next bytes | no |
| Stage 1 loader | `boot/stage1`, `boot/common` | BIOS state | sequential BIOS calls | no |
| Terminal, video, log | `kernel/video`, `kernel/log` | frame buffer, cursor and its limits, colour | draw the frame, print, scroll, log | `Terminal`, `Page` |
| Kernel libc | `kernel/libc`, `lib/libc` | none | strings, memory, formatting | where needed |
| Host utilities | `utilities`, `toolchain` | none | inspect images, build | no |

### How they interact

* The boot loader passes a `BootInfo` record; the kernel initialises log, video, GDT, IDT, PIC,
  physical memory, virtual memory, heap and timers in one line of calls.
* `kmalloc` asks to commit the pages of what it returns (`HeapCommitPages`), through
  `AddressSpaceMap` and `MmVirtualMap`; this takes frames from the physical memory manager and,
  when a page table is missing, calls `kmalloc_ap` again. The heap's client interface is
  therefore also its environment: `Heap` records which pages have been asked for with which mask,
  and `VirtualMemory` models the re-entrance, with of the heap no more than which pages are in use.
* Timers allocate with `kmalloc` and keep their timers in a list of `libds`, whose nodes are also
  from `kmalloc`. `TimersTick` runs in an interrupt handler.
* `stage2.asm` calls the detection of devices, the search for the kernel and `load_elf32`, jumps to
  the kernel if all of them return 1, and stops with a message otherwise. The menu is a program of
  its own: `create_menu` returns to nobody who acts on it.
* Every part of the kernel logs, and every log ends in the terminal, one character at a time. The
  exception handlers print too, but never return to what they interrupted.
* A list may be created `LIST_SAFE`; then its operations take a spinlock of `libos`.

### Facts about the environment the models rest on

* The kernel runs on one CPU, and `PicInit` masks every interrupt. Calls of the heap and of the
  frame allocator therefore do not interleave, and these modules make one step per call or
  per activation. The list and its lock are library code meant for several CPUs
  (`lib/include/ds/list.h:34`), and are modelled on several.
* Page 0 is not mapped after `MmVirtualInit`. A NULL dereference faults, and the exception handler
  spins: the machine stops (`fault` in `Heap` and `List`).
* `MmPhysicalFreeBlock`, `TimersRegister`, `TimersInterrupt`, `TimersCreateTimer` and
  `TimersDestroyTimer` have no caller in this commit; they are modelled as the interface offers them. `heap_test` is not called.
* The loader has no interrupts and no timeouts: it polls. A drive may be absent, be no ATAPI drive,
  have no medium, be busy for ever, or fail to read any block.
* `InterruptTable` is never filled in this commit. `MCTimers` gives it entries, as otherwise no
  interrupt is ever "fast".

### What is hard in this code

*Heap*: a chain of small numeric decisions (rounding, padding, half-open comparisons, merging)
that are harmless one by one and whose combinations decide whether memory is lost or shared; a
shortcut counter that drifts; a recursion that must end; exhausted headers.
*List*: checks before the lock, clean-up after it, iteration without it.
*Frames*: bounds of searches, truncation of addresses, overlapping entries in the memory map.
*Timers*: removal from the list that is being iterated, ticks lost by it, rounding.
*Virtual memory*: re-entrance of the heap, tables that cannot be reached once paging is on, pages
mapped twice, frames that a range uses but nobody has allocated.
*Menu*: an offset and an index that are moved by different rules, one global for all menus.
*Loader*: two offsets that must balance over recursion, returns in the middle and several discs;
functions that do not say when they fail; a copy over the memory around its own source.
*Terminal*: limits of the cursor, of the scroll and of the frame that are three different numbers.

All of them are listed with their line and the properties that watch them in `PROJECT.json`
under `hazards`. Some cases of them are outside of the passing runs, and their entries say so: page requests of
an odd size above a large block, ranges of several pages, a second CPU that removes, boot tables that
do not fit below the end of the first one, full directories in the search. The
first three are cases that the code gets wrong (section 5); no caller reaches them in this commit.

## 2. Modules

| Module | What it is |
|---|---|
| `Heap` | the heap; `Init` is `HeapInit`, the actions are `Call`, `Serve`, `Expand`, `kfree` |
| `Allocator` | what the heap promises its clients |
| `MCHeap` | request sets for TLC |
| `HeapProofs` | proofs: the heap's invariants, and what follows from them for its clients and its counters |
| `Spinlock` | the lock, instruction by instruction, with a register per CPU |
| `Mutex` | what a lock promises |
| `List` | extends `Spinlock`: the list on several CPUs |
| `Sequence` | what a list is to its users |
| `MCList` | keys for TLC |
| `ListProofs` | proofs about the spinlock and the list |
| `PhysicalMemory`, `MCPhysicalMemory` | the frame allocator, its memory maps for TLC |
| `VirtualMemory`, `MCVirtualMemory` | extends `PhysicalMemory`: page directory, tables and mappings, an instance for TLC |
| `MemoryProofs` | proofs about both |
| `Timers`, `MCTimers`, `TimersProofs` | timers and system timers, their proofs |
| `Menu`, `MCMenu`, `MenuProofs` | the boot menu, the menus `create_menu` builds, proofs |
| `Loader`, `MCLoader`, `LoaderProofs` | from the detection of drives to the jump to the kernel; discs, machines and ELF files for TLC; proofs |
| `Page` | what a terminal promises: lines of characters |
| `Terminal`, `MCTerminal`, `TerminalProofs` | frame, cursor, scroll and log; small screens for TLC; proofs |
| `Induction` | lemmas for `HeapProofs`, `TerminalProofs` and `LoaderProofs`: functions defined by recursion exist, sums over functions |

Next to some definitions there is one whose comment begins with "A variant". It is the same
definition with a small plausible bug, and belongs to no specification. The list `mutants` in
`PROJECT.json` says which property fails when the variant takes the definition's place; every
property of a passing run has at least one.

### Heap

`blocks` is one sequence for the three lists of the code: blocks are only appended, so the list
of a kind is a subsequence. A block is its address range, mask, `BytesFree` and node sequence;
positions in the sequence stand for the `Link` pointers. `headers` is the cursor and the limit of
the header space, and the number of recycled node headers. `pending` is an activation of
`HeapAllocate`: `Call` enters it with the arguments of a wrapper, `Serve` finds the first block
and node and returns, `Expand` appends a block and calls `HeapAllocate` again with the adjusted
arguments. `held` is what clients have been given; a client frees only that.

Integers are `size_t`: additions and subtractions of lengths and of `BytesFree` wrap at
`SIZE_MOD`. This matters, as a wrong test for room would make a length underflow.

Four things in the code look wrong and are modelled as they are:
* a split does not decrease `BytesFree`, a free increases it, so the counter only grows
  (`FreeBytesCounted` says that this is the harmless direction);
* the test whether the successor of a freed node is free looks at the node just cleared
  (`heap.c:609`), so the node always goes to its successor, allocated or not. Nothing is shared
  because of it: the successor's client still frees it by an address inside it, and then the
  larger node. But only the last node of a block is ever free (`OnlyTailFree`), so a block fills
  up until everything behind a freed node is freed too;
* the last byte of a node is not searched when freeing (`heap.c:570`), so one-byte nodes are never
  found and their memory stays allocated. To its clients this is a leak and no fault, which is
  why `ImplementsAllocator` still holds with one-byte requests. The last byte of a block is not
  searched for either (`heap.c:658`), and there it is a fault (`MCHeap_bytes.cfg`);
* the list a request is looked for in is chosen before its size is rounded (`heap.c:470-475`). A
  page request just below a large block is rounded to one: the first activation expands the page
  list, the second sees a large request and expands the large one too. `ExpandsOnce` names these
  requests (`OutgrowsKind`) and says that it stays at two.

### Spinlock and list

`Spinlock` has a step for each access to the lock word. After a wait the code jumps back to the
`xchg` without setting `eax` to 1; that this is correct is part of `LockInv`. Read as a data
structure, the lock's `mov` of a release is a plain store, which x86 keeps ordered.

`List` extends it. Each operation is cut where another CPU can come between: the checks on entry
(before the lock), the steps of the lock, the locked section with the release at its end, and what
follows. `op[c]` is the operation a CPU is in. `Consumers` is the set of CPUs that may remove,
look up or walk: the code is correct for one, and not for two.

Left out: `ListInsertAt`, `ListPopBack` and `ListRemoveByIndex` have no body; `ListDestroy` is a
series of pops by the last user; `ListLength` reads one word.

### Physical memory

`used` is the bitmap as a set of frames. `Init` computes it from a memory map in the order of
`MmPhyiscalInit`: everything used, the available regions of the map freed unless `SysMappings`
already has an entry of that type and address, then the special frames and the kernel's own
regions reserved. `MmPhysicalAllocateBlock` searches low or high memory by the mask. The search of
high memory compares a word index with the number of frames and so leaves the bitmap; what it
finds there is whatever follows in memory, a nondeterministic `Outside` frame or none. The search
for several frames stops at the end of a word. Only `MmVirtualInit` asks for several (three, for
the page directory), first of all callers and once; the properties depend on this order, which
the specification therefore contains.

### Virtual memory

`VirtualMemory` is `PhysicalMemory` with its callers. Addresses are page numbers. `tables` maps a
directory index to a page table: the frame it is in (`pTables`), the address the kernel writes it
at (`vTables`), and its entries. `plan` is what `MmVirtualInit` still has to build: `BootTables`
computes the tables of the identity, heap, video and reserved regions in the order of the code,
and `InstallDirectory` and `MmVirtualCreatePageTable` take their frames one step at a time. Until
`plan` is empty paging is off and addresses are frames; then `Translate` is the MMU.

`calls` is the stack of activations of `AddressSpaceMap`. `TakeFrame` is its allocation of the
next frame, `MmVirtualMap` writes the entry. If the directory has no table, `AskForTable` is the
`kmalloc_ap` in `virtual_memory.c:219`: the heap gives a page and commits it, by a mapping of its
own if it is not mapped; `InstallTable` puts the result in the directory. Any `kmalloc` may also
need a page of headers (`HeapSAllocator`). The users are `kmalloc`, `kfree`, which leaves its
page mapped, and others that map pages outside the heap. The kernel writes a table where
`vTables` says it is; if that is not where the MMU reads it (`Reached`), or if a search has
returned a frame that does not exist, `stopped` is set: what runs on memory that is not there is
nobody's behaviour.

Left out: flags of entries; `AS_FLAG_CONTIGIOUS` and `MmReserveMemory`, which have no callers; a
second directory, which nothing creates; `MmVirtualUnmap`, whose body is a comment. That the
identity region maps all low frames once more is its purpose, and `FramesNotAliased` does not
count it.

### Timers

`GlbTimers` and `GlbSystemTimers` are sequences, by what `List` shows. `TimersDestroyTimer` is
two steps, as ticks could come after its look-up if the interrupts, all masked in this commit, were enabled. `TimersTick` follows the links of the
list it removes from: `ListRemoveByNode` clears the link of the removed node and the loop ends
there. `since` is a history variable: the time ticked for each timer since its last start.

### Menu

An item is its position in its menu. `running` is the stack of calls of `run_menu`, which
`invoke_item` enters again for a submenu; each has the local variable `selected`, an index beside the
global mark `isSelected` and the menu's `selectedItem`, and nothing but the keys keeps the three
equal. `g_MenuOffset` is one variable for all menus: it is set to 0 on entry and not restored on
return. `draw_menu` puts on the screen what `print_item_at` does not drop. Hidden menus, the escape
key and the return from a submenu are as in the code: a submenu hides its caller's menu and itself on
leaving, and the caller shows its own again.

### Loader

`machine` is what is attached: four devices with their media; a medium is a function from block
numbers to blocks. `pc` is the function that is running, and an action is one call of the drive, or
one turn of a loop. `Answers` is a read: the block, or the old contents of the buffer
if the drive reports an error, of which the caller learns nothing. `dir_entries` is the buffer for directories
in blocks, `nestedOffset` and `look_offset` are where `traverse` and `look_for_file` write in it;
`calls` is the stack of `traverse`, and the one activation of `look_for_file`, whose recursion is a
tail call. An entry is looked at where the code finds it at that moment, also the entry of a
directory whose walk has just returned and may have been overwritten. `load_segment` copies a segment
upwards over what is there (`Copied`), and takes the next program header from memory.

`pc = "wild"` is where the C code has no defined behaviour left: a walk through memory that was never
written, the result of `look_for_file` when its loop runs to its end without a `return` (either
value is in the register), or an ELF header that has been overwritten.

Abstractions: blocks of a directory hold `SLOTS` entries of equal length; names are compared whole
(splitting of paths and the `;1` of ISO 9660 are left out); memory outside of the buffers and of what
is loaded is not there; polls are answered unless the device is `busy`; the content of ATA disks is
not read, as in the code.

### Terminal

`screen` is the frame buffer: each pixel of a graphics mode, each cell of a text mode, with the
character it belongs to. The layout is the code's (header 48, border 5, window from 11 and 49, glyphs
of 8 by 16 with an advance of 10), only the screens are small. `VideoDrawLine` is the loop of the code,
so that the frame is what it draws. `VideoDrawString` prints one character per step, as the state
between two characters is what properties are about; `VesaPutCharacter` and `VGAPutCharacter` make
their scroll part of that step. `Page` is the abstract terminal, and `Shown` maps the pixels to it:
a place shows a character if all its pixels are of that one, and nothing else is around them.

Left out: shapes of glyphs, colours as numbers (the log's default is 0, which is black on black in a
text mode), the VGA graphics mode, for which the code sets no size, the hardware cursor, and the
formatting of log messages. In a text mode the code ignores its own window (`CursorLimitX` is unused,
wrapping goes to column 0), so the frame is only claimed for graphics modes.

## 3. Runs

| Run | Checks | States | Shows |
|---|---|---|---|
| `heap_mixed` | `HeapInv` `NoOverlap` `PagesAligned` `FreeBytesCounted` `FreeBlockWhole` `HeldIsValid` `FreeFindsNode` | 363 000 | three clients, requests of all three block kinds, every merge rule |
| `heap_client` | `HeadersAccounted` `HeldMapped` `ExpandsOnce` `ImplementsAllocator` `CallReturns` | 128 000 | refinement and termination until headers run out, one-byte requests, low masks and requests that rounding makes large included |
| `list_consumer` | `WellLinked` `NoFault` `ImplementsMutex` `ImplementsSequence` `LockPasses` | 26 000 | three CPUs add, one of them also removes |
| `phys_frames` | `FramesExclusive` `FramesAccounted` `AvailableOnly` `RefusedWhenFull` | 60 000 | the frame allocator from three memory maps until memory is full |
| `vm_pages` | `TablesReachable` `FramesNotAliased` `PagesBacked` `MappingsStay` `ImplementsFrames` `MapReturns` | 58 000 | boot, and then heap, headers and others mapping single pages, with and without a table for them |
| `timers_ticks` | `MissedBounded` `ActiveIsClosest` `NotEarly` `SingleShotsExpire` | 94 000 | three timers and two system timers in any order |
| `menu_keys` | `HighlightShown` `OnlyTopShown` | 11 000 | all keys in all menus, to any depth |
| `loader_boot` | `SearchCorrect` `BuffersApart` `KernelIntact` `BootEnds` | 16 000 | 198 machines with discs good and bad, one read that fails |
| `terminal_log` | `CursorInside` `FrameWhole` `ImplementsPage` | 1 700 | logs of every kind on three screens, past every edge |
| `list_consumers` | `NoFault` | violated | see the findings |
| `timers_reach` | `TickReachesAll` | violated | see the findings |
| `loader_errors` | `LoadReported` | violated | see the findings |

The types of the variables are part of `WellLinked`, `AvailableOnly`, `TablesReachable` and
`MissedBounded`, and of the proved invariants of the other modules (`HeapTypes`, `MenuInv`,
`TermInv`).

Five more configurations show what does not hold; each stops with a counterexample, for instance
`tlc -config MCTerminal_scroll.cfg MCTerminal`:

| Configuration | Violates | Because |
|---|---|---|
| `MCHeap_unaligned` | `PagesAligned` | page requests of an odd size above a large block |
| `MCHeap_bytes` | `HeldLocated` | a client may hold nothing but the last byte of a block |
| `MCVirtualMemory_ranges` | `FramesNotAliased` | a mapping of two pages |
| `MCTerminal_scroll` | `ImplementsPage` | a screen as wide as 1024 modulo the advance of the font |
| `MCTerminal_text` | `CharactersShown` | the text mode after its first scroll |

Deadlock is not checked: after a fault, and when all callers have what they want or all bounds are
reached, these systems really stop.

### Bounds, and why they are enough

* *Heap*: a page of 8 bytes, a normal block of 2 pages, a large block of 4, alignment 4 as in the
  code. A normal block holds several nodes, a page block several page requests; request sizes are
  below, at and above each threshold, aligned and unaligned, and in `heap_client` one (27) that becomes
  large when it is rounded. The header space is small in `heap_client`, so that
  running out of headers is reached, and large in `heap_mixed`. Three holders are enough for a node to
  have a predecessor and a successor in use; the symmetry of holders is used where only invariants
  are checked. `MaxDrift` stops new calls when `BytesFree` has drifted: the drift is unbounded
  in the code until the counter wraps (`heap.c:405`), and beyond that bound nothing is
  claimed by TLC. The theorems do not depend on it, except that the counter stays in its width.
* *List*: three CPUs, three nodes, two of them with the same key: insertions before, between,
  after and beside a node, and removal of the first, a middle and the last one. Nodes are freed and
  allocated again, so that a stale pointer can meet a reused node.
* *Frames*: 20 frames in words of 4 bits, 4 words of low memory, addresses of 7 bits. The maps have
  a repeated entry, an empty one, an entry with an odd size, one above the address width, and an
  overlap with the kernel's regions. As on a PC, memory above the address width starts exactly at
  it: its truncated address is 0, which counts as recorded, and the entry is skipped. A truncated
  entry with any other address would make the wrong frames available. Both parts of memory can be exhausted. `MaxFailed` bounds the
  usage counter, which otherwise grows with every failed request.
* *Virtual memory*: tables of 16 pages. The heap has two tables, the frame buffer begins and ends
  inside of a table, the reserved region needs two; a memory map has an entry that ends in the
  middle of a page. Three heap pages in two tables and one page of headers, and two pages outside
  whose table is missing, so that a mapping makes one, from a heap page that is mapped or not.
  Low memory goes further than the first table maps and can be used up, as can high memory.
  `Spare` keeps one heap page for a table, as the heap in the code grows when it needs one. The lengths
  in `PageCounts` are 1 as in all calls of this commit, and 1 and 2 in `MCVirtualMemory_ranges`.
* *Timers*: three timers, so that one can expire before, between and after others; two timeouts;
  ticks of a half, of 1.2 and of 1.5 ms, the first and the last equally far from 1 ms; `MaxSince` is four of the longest timeouts.
* *Menu*: none. The instance has the menus of `create_menu` and the screen's 13 lines; a submenu of
  the submenu is added, so that returns nest.
* *Loader*: blocks of 2 bytes, three entries in a block. The first two devices are any of 14 kinds:
  tidy discs with the kernel in a directory, behind others, hidden, absent, not an ELF file, with
  segments that do not fit below the file; a directory that fills its block, one of two blocks, an
  audio disc; no disc, no drive, a busy one. Two machines have discs in all four drives. Files end
  in the middle of a block or at its end. `MaxErrors` is one failing read, at any place:
  what is claimed of machines that fail is that they come to an end, and a second failure only
  leaves more junk. `BlocksBelow` and `BlocksAbove` are the blocks of free memory on both sides of
  the directory buffer; the code has 15 below its buffer and loses one per disc.
* *Terminal*: windows of two lines and two places. The widths and heights leave the same rest as the
  common modes do (1600x900 and 1024x768 in height); the theorems are about all of them. 80x25 is
  scaled to 8x6. Messages end before, at and behind the end of a line, and two of them scroll
  more than once. `MaxLogs` is 2.

### Fairness

* `Heap`: weak fairness of `Serve` and `Expand`. A call of `HeapAllocate` runs to its end on one
  CPU. No client has to call or free.
* `List`: weak fairness of the steps of each CPU that is inside an operation: instructions are
  executed. The lock itself gives no fairness, so nothing says that a given CPU gets it;
  `LockPasses` says that it is given back and that who waits sees it taken.
* `Timers`: weak fairness of the tick of the active system timer, which is what a hardware timer
  does, and of the end of a destruction begun. Creation, destruction and registration are free.
* `VirtualMemory`: weak fairness of the steps of a call in progress. No boot step and no client
  has to happen.
* `Loader`: weak fairness of its next step: nothing else runs. The step is not enabled while a
  device is busy for ever, which `BootEnds` excludes.
* `Menu` and `Terminal` have no liveness property: a menu waits for keys, and printing is a loop over
  a string.
* `PhysicalMemory` has no liveness property: its searches are loops over constants.

## 4. Proofs

| Theorem | Module | Says |
|---|---|---|
| `HeapTypes` | `HeapProofs` | `Spec => []TypeOK` |
| `HeapSound` | `HeapProofs` | `RequestsRounded` implies `Spec => []HeapInv` |
| `HeapExclusive` | `HeapProofs` | `RequestsRounded` implies `Spec => []NoOverlap` |
| `HeapValid` | `HeapProofs` | `RequestsRounded` implies `Spec => []HeldIsValid` |
| `HeapFreeFinds` | `HeapProofs` | `RequestsRounded` implies `Spec => []FreeFindsNode` |
| `HeapMapped` | `HeapProofs` | `RequestsRounded` implies `Spec => []HeldMapped` |
| `HeapExpandsOnce` | `HeapProofs` | `RequestsRounded` implies `Spec => []ExpandsOnce` |
| `HeapWhole` | `HeapProofs` | `RequestsRounded` and `NoSingleBytes` imply `Spec => []FreeBlockWhole` |
| `HeapPaged` | `HeapProofs` | `PagesRounded` implies `Spec => []PagesAligned` |
| `HeapImplements` | `HeapProofs` | `PagesRounded` implies `Spec => ImplementsAllocator` |
| `HeapFreeBytes` | `HeapProofs` | `RequestsRounded` and `DriftFits` imply `Spec => []FreeBytesCounted` |
| `HeapHeaders` | `HeapProofs` | `RequestsRounded` and `HeadersFit` imply `Spec => []HeadersAccounted` |
| `SpinlockExcludes` | `ListProofs` | `LockSpec => []LockInv`, for any number of CPUs |
| `SpinlockIsMutex` | `ListProofs` | `LockSpec => ImplementsMutex` |
| `ListLocksProperly` | `ListProofs` | `Spec => ImplementsMutex` |
| `ListStaysLinked` | `ListProofs` | `OneConsumer` implies `Spec => []WellLinked`, for any number of CPUs |
| `ListUsesNoFreedNode` | `ListProofs` | `OneConsumer` implies `Spec => []NoFault` |
| `ListIsSequence` | `ListProofs` | `OneConsumer` implies `Spec => ImplementsSequence` |
| `FramesNotShared` | `MemoryProofs` | `Spec => []FramesExclusive`, for any memory map |
| `FramesNotLost` | `MemoryProofs` | `Spec => []FramesAccounted`, for any memory map |
| `FramesAvailable` | `MemoryProofs` | `MapsAligned` and `DirectoryFits` imply `Spec => []AvailableOnly` |
| `RefusedOnlyWhenFull` | `MemoryProofs` | `Spec => RefusedWhenFull` |
| `TicksMissed` | `TimersProofs` | `Spec => []MissedBounded` |
| `ExpiresInTime` | `TimersProofs` | `Spec => NotEarly` |
| `ClosestActive` | `TimersProofs` | `Spec => []ActiveIsClosest` |
| `FramesUsed` | `MemoryProofs` | `SinglePages` implies `VmSpec => ImplementsFrames` |
| `FramesApart` | `MemoryProofs` | `SinglePages` implies `VmSpec => []FramesNotAliased` while memory lasts |
| `MappingsAreKept` | `MemoryProofs` | `SinglePages` implies `VmSpec => MappingsStay` |
| `PagesAreBacked` | `MemoryProofs` | `SinglePages` implies `VmSpec => []PagesBacked` |
| `TablesAreReached` | `MemoryProofs` | `SinglePages`, `DirectoryFits` and `FirstTableFits` imply `VmSpec => []TablesReachable` |
| `SelectionVisible` | `MenuProofs` | `Spec => []HighlightShown`, for any menus and height |
| `InnermostShown` | `MenuProofs` | `Spec => []OnlyTopShown` |
| `SearchIsCorrect` | `LoaderProofs` | `KernelsThere`, `KernelsComplete` and `BuffersHold` imply `Spec => []SearchCorrect` |
| `BuffersStayApart` | `LoaderProofs` | the same imply `Spec => []BuffersApart` |
| `KernelStaysIntact` | `LoaderProofs` | the same imply `Spec => []KernelIntact` |
| `CursorStaysInside` | `TerminalProofs` | `Spec => []CursorInside`, for any mode of at least 33 by 83 |
| `FrameNeverTouched` | `TerminalProofs` | `Spec => [][FrameStays]_vars` |
| `FrameIsWhole` | `TerminalProofs` | `Spec => []FrameWhole` |
| `TerminalImplementsPage` | `TerminalProofs` | `ColumnsFit` implies `Spec => ImplementsPage` |

Assumptions, all named and evaluated by the runs: `HeapSizes` (sizes are positive, blocks smaller
than the width of `size_t`, headers smaller than a page), `HeapAlignment` (page, block and heap
addresses are multiples of the standard alignment), `HeapRequests` (no request is 0 or so close to
the width that rounding wraps), `MachineSizes`, `SystemFits` (what the comment and
the disabled assertion of `physical_memory.c:255-256` require), `Regions` (the order and alignment
of the regions of memory), `Callers` (page tables come from low memory, as `MEMORY_INIT_MASK` asks),
`Layout` (nothing that is mapped after boot is mapped at boot), `MenuConstants` and `SubmenusFit` (menus
are not empty, submenus hang on the first screen and are no higher than it, as those that
`create_menu` builds), `TerminalModes` (the window has a line and two places, and the width modulo 10 is not 3,
for which the last glyph of a line would reach into the border; no common mode has such a width),
`Strings`, `LoaderConstants`, `Media` and `ProgramHeaders` (what blocks of a disc and program headers consist of), `NodesAndKeys` (keys are integers, and memory has finitely many nodes), and that the values standing for
NULL, "nobody" and "no frame" are no addresses, CPUs or frames.

Some theorems have hypotheses instead: the code does not establish them, so they are not
assumptions of the modules. Each is satisfied by the callers there are, or by an ordinary machine,
and evaluated by TLC on the instances:

* `RequestsRounded`, `PagesRounded`: page requests of a large block or more are multiples of the
  alignment, or of the page. The code does not round them (`heap.c:470-475`); the first finding is
  what happens without, and it also breaks the test for room in an aligned split.
* `NoSingleBytes`: nobody asks for one byte, as `kfree` does not find the last byte of a node.
* `OneConsumer`: one CPU removes, looks up and walks. The second finding is what happens without.
* `SinglePages`: all mappings are of one page. All callers satisfy it; the third finding is what
  happens without.
* `MapsAligned`: the entries of the memory map that are used begin on a page and below the address
  width, and the kernel's own regions begin on a page. The code rounds the base of a region down, and
  truncates addresses.
* `DirectoryFits`: the first place the search finds for the directory's three frames really has
  three, though the search does not look past a word of the bitmap.
* `DriftFits`: `BytesFree` does not reach the width of its type. `MaxDrift` bounds the drift in the model;
  in the code it is unbounded, so beyond the first wrap nothing is claimed.
* `HeadersFit`: the room reserved for headers holds those of the two blocks `HeapInit` makes.
* `ColumnsFit`: no width is 4 modulo 10. A finding (scrolled columns) is what happens with one.
* `KernelsThere`, `KernelsComplete`: on a tidy disc with the kernel its path leads to a file that is on the
  disc; if this is an ELF file that fits below the place it is loaded to, its segments lie in the
  file and in memory, do not overlap, and one covers the address `stage2.asm` jumps to.
* `BuffersHold`: directories nest no deeper than there are blocks behind their buffer, so never
  in a cycle, and there is room for what each disc moves the two offsets by. The code has
  no test for any of these; a disc made for this system satisfies them.
* `FirstTableFits`: the directory and all tables of boot find frames among those the first table maps.
  On a PC these are the tables for 4 MB, the heap and the frame buffer and those for the reserved
  entries of the memory map, a few dozen of the frames below 4 MB. No code checks it, and a map
  with gigabytes of reserved memory breaks it.

*Heap.* `NoOverlap` is not inductive. What makes it hold is `HeapInv`: nodes tile their block and
blocks tile the heap; both are ordered pairwise; what a client holds lies in an allocated node, and
no two clients' memory in one; and two facts one would not guess. Only the last node of a block is
free, because a freed node always joins its successor; this is what keeps the merge with an
allocated successor harmless, and it makes the merge with a free predecessor dead code. And the
end of each block is aligned: the test for room compares with the rounded size and not with the
size plus padding, which is right only for a node that ends on an aligned address, that is for the
last one of its block. The proof has one lemma for what an allocation and one for what a free does
to the nodes of a block (`AllocateFacts`, `FreeFacts`), one each for the structure of the block and
for the clients, and one for each action. `HeapProofs` begins with what inserting into and
removing from a sequence does, position by position.

For the clients the proof goes on from there. That kfree and queries find the right node follows from the
order of nodes alone (`OneNode`). `FreeBlockWhole` needs the converse of `HeldBacked`: every allocated node
that is not single has somebody's memory at the right place in it (`Peopled` in `WholeInv`), so a
block without memory has no allocated node, and the last one being the only free one makes it
the only one. `PagesAligned` needs that all boundaries of nodes in page and custom blocks
are page boundaries, `memStartData` among them, and that an adjusted request not served from a normal
block is for whole pages (`PagedInv`). `HeldMapped` is inductive with the type invariant once the
arithmetic of `CommittedPages` is done. `ExpandInv` tells the three activations apart: before the first
expansion the request is the client's, after it either it has changed its list or a block can
serve it, after a second one a block can serve it. The refinement of `Allocator` is proved from
`PromiseInv`, which combines them: `Serve` answers, `Expand` and a fault stutter, `kfree` frees.

`FreeBytesCounted` is a sum over the nodes of a block, but with `OnlyTailFree` it has one summand that is not
zero (`SumZeros`, `SumChanges`). `CountInv` says that the last node, if free, is no longer than
`BytesFree`, and bounds the drift so that the subtractions and additions do not wrap: between two calls each
client frees once at most, so the bound grows with the number of clients that hold nothing.
`HeadersAccounted` is inductive as `Account`, an equation between the cursor, the recycled nodes and
the sum of nodes over all blocks; the work is to say how the sum changes when one block is
replaced or added, for which `Induction` relates the fold of the community modules to a sum over a finite set.

*Spinlock.* `LockInv` is inductive: a CPU about to exchange has 1 in its register. The refinement
maps the owner to the CPU inside.

*List.* `WellLinked` speaks of the walk along the links. Instead of an induction along it, the
invariant says that there is a sequence of nodes that the list is linked as (`LinkedAs`; `Ties` is
the same without its cases), and `WalkAsLinked` shows once that the walk finds any such sequence: a
first position at which the two differ cannot exist, because the least element of a set of
numbers does (from the minimal one of a set of finite intervals). For each operation a lemma then says
which pointers it writes (`InsertOp`, `AppendOp`, `PopOp`, `UnlinkOp`), and two that a list with these
pointers is linked as the sequence with a node put in or taken out (`InsertLinks`, `RemoveLinks`).
`OpsInv` is what the CPUs rely on in between: a node that is being added, or has been taken out and
not yet freed, belongs to one CPU, is allocated and not in the list, and has empty links before it is
added; a node that is looked at is in the list; and somebody who has found the list not empty may
count on it. The last two hold because only the one remover could make them false.
`ListIsSequence` follows from the same steps.

*Frames.* The request for three frames looks at the bits of one word only and may take used frames.
The invariant adds that nobody has frames before the kernel has, and that no caller who may free
holds a frame that was reserved at boot. `AvailInv` adds that the kernel does not either, which is
what `DirectoryFits` is for, and a lemma on the arithmetic of `RegionFrames` makes "not reserved at boot"
into "available and outside the kernel's regions". `RefusedWhenFull` needs no invariant but the type of `used`: it is
about the set a search looks at and the one it should look at, one of which is 32 times too large.

*Timers.* `TimersInv` is `MissedBounded` with the order of creation in the list, and that nobody's time
is below 0. The step that matters is the one that ends early: all timers behind the expired one
miss a tick, and for all of them the number of older timers that are gone grows by one, because the list
is in the order of creation. `NotEarly` is then arithmetic: a timer cannot have missed less than
nothing.

*Virtual memory.* `FramesUsed` is a step refinement: each step of `VmSpec` is one of
`PhysicalMemory` or leaves its variables alone, so the invariants of the frames hold here.
`FramesApart` needs what `FramesNotAliased` does not say: the frame that each activation in progress
has taken was allocated for a page, is mapped nowhere yet, and is no other activation's. That is the
content of `VmInv`; with it, an entry is only ever written with a frame no other entry has, at
whatever depth of the recursion.

`MapInv` adds three parts. `PlanInv`: the tables still to be made are for indices without one, are all different, and with the
existing ones cover the heap (`BootPlan` proves this of `BootTables`). `StackInv`: calls nest once at
most, because a page of the heap always has a table, so that the mapping of the page for a new table
needs none itself. `UsersInv`: what users have is mapped or about to be. From it no table is installed
over another and no entry is written that is not empty (`Keeping`), which is `MappingsStay`, and
`PagesBacked` is `UsersInv` with no call left.

`TablesReachable` needs counting. `BootInv` bounds the frames taken by the tables still to be made;
as nobody else has frames at boot, there is a free one below the end of the first table
(`TableFrameFound`), and the search takes the first. `ReachInv` says that the first table maps each of its
pages to the frame of its number and that every table's address translates to its frame;
for a table from a heap page that is `StackInv` again: the page was mapped before it is used.

*Menu.* `HighlightShown` needs that the index is the position of the selected item in every menu that
is running, and that the offset is within a screen of the index. The latter holds although the two keys move
the offset by different rules: the down key adds one below the first screen whether the selection
leaves the window or not, and this never takes the offset past the selection, because the up key has brought the
offset down with it (`UpOffset`). `SubmenusFit` is used for the offset that a submenu leaves behind: it is 0, and the
item the submenu hangs on is on the first screen.

*Terminal.* `TermInv` says that the cursor is at a place of the grid: a start plus a multiple of the
advance, one line above the limit at most. `CursorInside` follows by arithmetic, which is in lemmas
of its own, and from it that no glyph and no scrolled row reaches the frame. `FrameWhole` needs besides
what the screen is at boot. `VideoDrawLine` is a recursive function, the path of Bresenham's
algorithm; `Induction` shows that such a function exists, and `Across` and `Downwards` that the path
of a horizontal or vertical line is all its points. The title lies in the header (`TitleDrawn`).

For the refinement, `PageInv` says that the cursor is at a line and a place, and that the window is blank between its
places and around them (`Clean`). Drawing a glyph and a scroll keep this (`DrawnClean`,
`ScrolledClean`), the scroll by `ColumnsFit`. Each character that is printed is then a `Write`, a `LineFeed`
or a `Return` of `Page` (`PrintShown`).

*Loader.* `LoaderInv` has two parts. `Detection` holds of every machine: what was found out about the
devices so far is true. The other is claimed of tidy discs and reads that do not fail. The devices
passed do not have the kernel (`Passed`). `Offsets` is the balance: while a disc is walked
`nestedOffset` is the depth of the calls less the number of walks begun, and `look_offset` is bounded by the
parts of the path passed on each disc. In the walk each activation of `traverse` that has read its
directory finds it in the buffer at its own offset, and the one below it was called from an entry of
it (`Walk`); so the calls are a path of nested directories, which `BuffersHold` keeps short enough. In
the search the directory looked through is the one the first parts of the path lead to, and
the entries passed do not lead on (`Look`); with tidy directories at most one does, and
a free slot proves that none does (`NothingLeads`), which is also what `Passed` needs for the next disc.
`LoadInv` goes on: the first `i` blocks of the file are in memory, then the first `i` segments are `Placed`
and the file is still whole, because all of them end below it (`SegmentCopied`).

Only model-checked:

* all liveness (`CallReturns`, `LockPasses`, `MapReturns`, `SingleShotsExpire`, `BootEnds`): liveness
  under fairness and `ENABLED` are out of the installed provers' reach. All other properties of the
  passing runs are stated by a theorem;
* what the five configurations above show, which are counterexamples.

Induction as a rule, with a predicate for a parameter, cannot be used in these proofs either. Where one is
needed, `Induction` goes by the least element of a set of numbers (`LeastNumber`, `EveryNumber`) and by
a minimal finite set (`EveryPart`).

## 5. Findings

* **Unaligned pages** (`MCHeap_unaligned.cfg`). `heap.c:470` flags a page request of a large block or
  more as BIG, and line 473 rounds only what is not BIG. A request of, say, a large block and one
  byte moves `MemStartData` off the page, and the page blocks created later hand out memory that
  is not page aligned. The comment of `kmalloc_a` (`heap.c:1023`) promises `PAGE_ALIGNED`.
* **Two consumers of a safe list** (`list_consumers`). `ListPopFront` tests `Headp` before it takes
  the lock (`list.c:361`); with two consumers the second dereferences NULL.
  `ListGetDataByKey` and the loops use nodes another CPU may have freed.
* **Ranges** (`MCVirtualMemory_ranges.cfg`). `AddressSpaceMap` allocates a frame for the first page of a range only;
  the others get the frames that follow it (`address_space.c:78-88`), allocated or not, although its
  comment (line 43) says it allocates pages. In the run the second page is mapped to the frame of
  the page table made for the first. All callers in this commit map single pages.
* **Lost ticks** (`timers_reach`). A tick in which a single-shot timer expires does not reach the
  timers behind it (`timers.c:146`). `MissedBounded` says how much is lost: one tick for each
  earlier timer that has gone.
* **The last byte of a block** (`MCHeap_bytes.cfg`). A client may be given the last byte of a block, by
  `kmalloc(1)` when the bytes before it are taken. `HeapFreeLocator` takes no block for one that
  holds its last byte (`heap.c:658`), and `kfree` goes on with NULL. The assertion behind "We don't
  want invalid frees" (`heap.c:689-690`) is a comment. Of more than one byte `HeapFreeFinds` proves
  that the block and the node are found.
* **Silent reads** (`loader_errors`). `ata_device_read_sector_atapi` (`ata.c:416-487`) returns
  nothing; after an error it leaves the buffer as it was. `load_kernel_from_iso9660_using_atapi`
  then returns 1 (`ata.c:612`), which `stage2.asm:307-309` takes as "1: Success, Kernel was found
  and loaded", and a kernel with a missing block is started.
* **Scrolled columns** (`MCTerminal_scroll.cfg`). `VideoScroll` copies up to `CursorLimitX - 5`
  (`video.c:179-182`). On a screen whose width is 4 modulo 10, 1024x768 for one, a glyph can
  be put so that its last column of pixels is not copied and stays behind when the text moves up.
* **Text mode** (`MCTerminal_text.cfg`). `TextScroll` clears two lines under the comment "Clear last
  line" (`video.c:278-279`) and leaves the cursor on the last one, so each later line is cleared by
  the scroll that follows it. A TODO at `video.c:335-336` says that this scroll "is not working perfectly".

## 6. Plan

Done in this order: `Heap` with its client specification, `Spinlock` and `List`, `PhysicalMemory`,
`Timers`, `VirtualMemory` and their proofs; then `Menu` and its proofs, `Loader`, and `Terminal`
with the `Page` it implements; then the proofs of both, and of the heap's counters. Next:

1. `KernelMemory`: `Heap` and `VirtualMemory` together. What `kmalloc` commits is then what
   `AddressSpaceMap` maps, and the inner `kmalloc_ap` sees the heap in the middle of the outer call.
   Properties: what a client holds is mapped with frames its mask allows (`heap.c:442` keeps the frame
   of a page whose first mask was weaker), and the heap stays below `HEAP_END` (`heap.c:271` has no
   test). The heap's invariant under this composition.
2. `Timers` over `List`, each operation at its steps, once a commit enables the interrupts that come between.

### Not modelled, and why

* Stage 1 and the 16-bit includes (`vesa.inc`, `memory.inc` and the others): a sequence of BIOS
  calls whose state is the firmware's.
* `boot_menu.c`: an older form of the menu, which nothing calls.
* The packet protocol under a sector read in `ata.c`: the loader sees a read that succeeds or fails.
  That its polling loops end is up to the drive.
* `stage2_malloc`: a pointer that only moves on, for items that are made once.
* The kernel's entry: a straight line of initialisers. GDT, IDT and PIC set-up: constants written
  to hardware once.
* The formatting and memory functions of the kernel's libc: no property here is about the text they
  produce, and copies are steps of the modules that need them.
* The shapes of glyphs, colours as numbers, and the host utilities.

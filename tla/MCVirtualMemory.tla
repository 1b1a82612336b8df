-------------------------- MODULE MCVirtualMemory --------------------------
(***************************************************************************)
(* Small instances of VirtualMemory: tables of 16 pages, pages of 4 bytes. *)
(* Frames 4 to 31 are low memory, 32 to 39 high memory.                    *)
(***************************************************************************)
EXTENDS VirtualMemory

Entry(t, a, s) == [type |-> t, address |-> a, size |-> s]

(* What a PC reports: an entry ends in the middle of a page, the reserved    *)
(* ones take more than a table.                                              *)
PlainMap == <<Entry(1, 0, 66), Entry(2, 66, 6), Entry(1, 120, 40), Entry(2, 180, 76)>>

Maps == {PlainMap}

(* Stack and image of the kernel. *)
KernelRegions == {[base |-> 28, size |-> 4], [base |-> 128, size |-> 4]}

(* The hypotheses of VirtualMemoryProofs on the memory map are those of a    *)
(* machine like this.                                                        *)
ASSUME BootFits == DirectoryFits /\ FirstTableFits
=============================================================================

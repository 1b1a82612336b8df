-------------------------- MODULE MCPhysicalMemory --------------------------
(***************************************************************************)
(* Small instances of PhysicalMemory: pages of 4 bytes, words of 4 bits,   *)
(* 12 low and 4 high frames behind the first word, which is never used.    *)
(***************************************************************************)
EXTENDS PhysicalMemory

Entry(t, a, s) == [type |-> t, address |-> a, size |-> s]

(* What a PC reports: memory up to the middle of a page below the BIOS, and  *)
(* memory from 1 MB on.                                                      *)
PlainMap == <<Entry(1, 0, 33), Entry(2, 33, 3), Entry(1, 40, 40), Entry(2, 100, 8)>>

(* Entries that are repeated, empty, or lie behind the last address: the     *)
(* upper bits of the address and of the size of the last one are cut off.    *)
OddMap == <<Entry(1, 0, 30), Entry(2, 36, 0), Entry(1, 0, 37), Entry(2, 0, 4),
            Entry(1, 56, 26), Entry(1, 128, 200)>>

(* More memory than the machine was counted to have. *)
LongMap == <<Entry(2, 0, 16), Entry(1, 16, 17), Entry(1, 40, 80)>>

Maps == {PlainMap, OddMap, LongMap}

(* Stack, image and bitmap of the kernel. *)
Regions == {[base |-> 28, size |-> 4], [base |-> 40, size |-> 4], [base |-> 48, size |-> 7]}

(* The maps above are such that a frame is where its entry says. *)
ASSUME MapsOfAPC == MapsAligned /\ DirectoryFits
=============================================================================

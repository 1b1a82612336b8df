------------------------------ MODULE MCLoader ------------------------------
(* Small discs: tidy ones with the kernel, without it, with it hidden, as a
   directory, as no ELF file, below directories; and untidy ones. *)
EXTENDS Loader, TLC

E(name, dir, start, bytes) ==
    [is |-> "entry", name |-> name, dir |-> dir, hidden |-> FALSE, special |-> FALSE,
     start |-> start, bytes |-> bytes]
Self(start) == [E("self", TRUE, start, 2) EXCEPT !.special = TRUE]
Hidden(e) == [e EXCEPT !.hidden = TRUE]
Vol(type) == [is |-> "volume", type |-> type, root |-> E("root", TRUE, 21, 2)]
Dir(entries) == [is |-> "directory", entries |-> entries]
File(name, start, blocks) ==
    [b \in start..start+blocks-1 |-> [is |-> "file", file |-> name, block |-> b - start]]

Heads(types) == [b \in 16..20 |-> Vol(types[b - 15])]
Plain == Heads(<<1, 255, 255, 255, 255>>)
\* bytes = 8 is a multiple of the block: one block is read too many.
Good == Plain @@ (21 :> Dir(<<Self(21), E("KERNEL", TRUE, 22, 2)>>))
              @@ (22 :> Dir(<<Self(22), E("KERNEL.ELF", FALSE, 30, 7)>>)) @@ File("kernel", 30, 4)
Late == Heads(<<0, 0, 1, 255, 255>>)
        @@ (21 :> Dir(<<E("A", TRUE, 22, 2), E("KERNEL", TRUE, 23, 2)>>))
        @@ (22 :> Dir(<<E("KERNEL.ELF", FALSE, 30, 7), E("B", TRUE, 24, 2)>>))
        @@ (23 :> Dir(<<E("KERNEL.ELF", FALSE, 40, 8)>>))
        @@ (24 :> Dir(<<E("C", FALSE, 30, 1)>>))
        @@ File("text", 30, 4) @@ File("other", 40, 4)
NoVolume == Heads(<<0, 255, 1, 1, 1>>)
Without == Plain @@ (21 :> Dir(<<E("KERNEL", FALSE, 30, 2), E("KERNEL.ELF", FALSE, 30, 2)>>))
                 @@ File("text", 30, 1)
Concealed == Plain @@ (21 :> Dir(<<E("KERNEL", TRUE, 22, 2)>>))
                   @@ (22 :> Dir(<<Hidden(E("KERNEL.ELF", FALSE, 30, 7))>>)) @@ File("kernel", 30, 4)
Text == Plain @@ (21 :> Dir(<<E("KERNEL", TRUE, 22, 2)>>))
              @@ (22 :> Dir(<<E("KERNEL.ELF", FALSE, 30, 1)>>)) @@ File("text", 30, 1)
Huge == Plain @@ (21 :> Dir(<<E("KERNEL", TRUE, 22, 2)>>))
              @@ (22 :> Dir(<<E("KERNEL.ELF", FALSE, 30, 4)>>)) @@ File("huge", 30, 2)
\* A directory that fills its block, one of two blocks, and an audio disc.
Full == Plain @@ (21 :> Dir(<<E("A", TRUE, 22, 2), E("KERNEL", TRUE, 23, 2)>>))
              @@ (22 :> Dir(<<E("B", TRUE, 23, 2), E("C", FALSE, 30, 1), E("D", FALSE, 30, 1)>>))
              @@ (23 :> Dir(<<E("B", FALSE, 30, 1), E("C", FALSE, 30, 1), E("D", FALSE, 30, 1)>>))
TwoBlocks == [b \in 16..20 |-> [Vol(1) EXCEPT !.root = E("root", TRUE, 21, 4)]]
              @@ (21 :> Dir(<<E("A", TRUE, 23, 2), E("B", FALSE, 30, 1), E("C", FALSE, 30, 1)>>))
              @@ (22 :> Dir(<<E("KERNEL", TRUE, 24, 2)>>))
              @@ (23 :> Dir(<<Self(23)>>))
              @@ (24 :> Dir(<<E("KERNEL.ELF", FALSE, 30, 7)>>)) @@ File("kernel", 30, 4)
\* The directory of the kernel fills its block and does not have it.
Filled == Plain @@ (21 :> Dir(<<E("KERNEL", TRUE, 22, 2)>>))
                @@ (22 :> Dir(<<E("B", FALSE, 30, 1), E("C", FALSE, 30, 1), E("D", FALSE, 30, 1)>>))
Audio == <<>>

Drive(disc) == [kind |-> "atapi", medium |-> [size |-> 2, sectors |-> disc]]
Other(kind) == [kind |-> kind, medium |-> [size |-> 0, sectors |-> <<>>]]
Kinds == {Drive(d) : d \in {Good, Late, NoVolume, Without, Concealed, Text, Huge,
                            Full, TwoBlocks, Audio}}
         \cup {Other("none"), Other("atapi"), Other("busy")}
         \cup {[Drive(Good) EXCEPT !.medium.size = 1]}
MCMachines ==
    {<<a, b, Other("ata"), Other("none")>> : a, b \in Kinds}
    \cup {<<Drive(Without), Drive(Concealed), Drive(NoVolume), Drive(Late)>>,
          <<Drive(Concealed), Drive(Filled), Drive(Good), Other("none")>>}

Segment(offset, vaddr, filesz, memsz) ==
    [load |-> TRUE, offset |-> offset, vaddr |-> vaddr, filesz |-> filesz, memsz |-> memsz]
Note == [load |-> FALSE, offset |-> 0, vaddr |-> 0, filesz |-> 0, memsz |-> 0]
MCkernel_name == <<"KERNEL", "KERNEL.ELF">>
MCElf == [kernel |-> <<Segment(1, 1, 2, 3), Note, Segment(3, 4, 1, 2)>>,
          other |-> <<Segment(0, 1, 4, 5)>>,
          huge |-> <<Segment(0, 1, 1, 6), Segment(1, 2, 1, 1)>>]

ASSUME DiscsOfABoot == KernelsThere /\ KernelsComplete /\ BuffersHold
=============================================================================

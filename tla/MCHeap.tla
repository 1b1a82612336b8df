------------------------------- MODULE MCHeap -------------------------------
(***************************************************************************)
(* Small instances of Heap.  Sizes are scaled: a page is 8 bytes, a normal *)
(* block 2 pages, a large block 4 (2 and 32 in the code), headers fit a    *)
(* page several times; the alignment of 4 is the code's.                   *)
(***************************************************************************)
EXTENDS Heap

Full == MASK

Small(sizes) == [page: {FALSE}, size: sizes, mask: {Full}]
Paged(sizes) == [page: {TRUE}, size: sizes, mask: {Full}]

(* Requests of each of the three kinds, aligned and not, through both kinds  *)
(* of wrapper.                                                               *)
MixedRequests == Small({5, 33}) \cup Paged({3, 32})

(* One-byte requests beside ones of each kind and one that rounding makes     *)
(* large; some pages are asked for with a mask.                              *)
ClientRequests ==
    Small({1, 6, 33}) \cup Paged({16, 27}) \cup [page: {TRUE}, size: {3}, mask: {1}]

(* A large page request is not rounded up; later blocks are off the page.    *)
UnalignedRequests == Small({14}) \cup Paged({8, 33})

(* A single byte may be the last one of a normal block.                       *)
ByteRequests == Small({1, 5, 15})

HolderSymmetry == Permutations(Holders)
=============================================================================

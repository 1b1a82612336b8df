-------------------------------- MODULE Page --------------------------------
(***************************************************************************)
(* What a terminal promises: a page of lines.  A character goes to the     *)
(* current place and what stood there is gone, a line that is full ends,   *)
(* and below the last line the first one makes room.  The module says      *)
(* nothing of pixels, and is what Terminal is shown to implement.          *)
(***************************************************************************)
EXTENDS Integers, Sequences

CONSTANTS Cells, Blank

VARIABLES page, row, column

Columns == Len(page[1])
EmptyLine == [c \in 1..Columns |-> Blank]

Init ==
    /\ page \in Seq(Seq({Blank})) /\ page # <<>>
    /\ \A r \in DOMAIN page : page[r] # <<>> /\ Len(page[r]) = Columns
    /\ row = 1 /\ column = 1

Written(cell) == [page EXCEPT ![row][column] = cell]
Moved(p) ==
    IF row < Len(p) THEN p
    ELSE [r \in DOMAIN p |-> IF r < Len(p) THEN p[r + 1] ELSE EmptyLine]

LineEnds ==
    /\ column' = 1
    /\ row' = IF row < Len(page) THEN row + 1 ELSE row

Write(cell) ==
    \/ column < Columns /\ column' = column + 1 /\ row' = row /\ page' = Written(cell)
    \/ column = Columns /\ LineEnds /\ page' = Moved(Written(cell))

LineFeed == LineEnds /\ page' = Moved(page)

Return == column' = 1 /\ UNCHANGED <<page, row>>

Next == (\E cell \in Cells : Write(cell)) \/ LineFeed \/ Return

Spec == Init /\ [][Next]_<<page, row, column>>
=============================================================================

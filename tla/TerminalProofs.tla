--------------------------- MODULE TerminalProofs ---------------------------
(***************************************************************************)
(* For every resolution: the cursor stays where a character may be drawn,  *)
(* the frame around the window is drawn whole and no step touches it, and  *)
(* what is seen in the window is the page of lines that Page promises.     *)
(***************************************************************************)
EXTENDS Terminal, Induction

\* In a graphics mode the cursor is at one of the places of the window, with the
\* next place still left of its limit; in a text mode it is on the screen.
InWindow ==
    /\ \E k \in Nat : CursorX = CursorStartX + Advance * k
    /\ CursorX + Advance < CursorLimitX
    /\ CursorY \in Nat /\ CursorStartY <= CursorY /\ CursorY + FontHeight < CursorLimitY
OnScreen == CursorX \in 0..mode.width-1 /\ CursorY \in 0..mode.height-1

TermInv ==
    /\ mode \in Modes
    /\ IF IsGraphics THEN InWindow ELSE OnScreen

LEMMA ModeSizes ==
  ASSUME mode \in Modes
  PROVE  /\ mode.width \in Nat /\ mode.height \in Nat
         /\ IsGraphics => mode.width >= 33 /\ mode.height >= 83 /\ mode.width % 10 # 3
         /\ ~IsGraphics => mode.width >= 8 /\ mode.height >= 5
BY TerminalModes DEF IsGraphics

\* A last place that touched the border would need a width of this kind.
LEMMA LastPlace ==
  ASSUME NEW w \in Nat, NEW k \in Nat, w % 10 # 3, 11 + 10 * k + 10 < w - 1
  PROVE  11 + 10 * k + 8 <= w - 5
<1>1. CASE w = 10 * k + 23
  <2>1. (10 * k + 23) % 10 = 3
    OBVIOUS
  <2> QED BY <1>1, <2>1
<1> QED BY <1>1

LEMMA Layout ==
  ASSUME mode \in Modes, IsGraphics
  PROVE  /\ CursorStartX = 11 /\ CursorStartY = 49
         /\ CursorLimitX = mode.width - 1 /\ CursorLimitY = mode.height - 17
         /\ Advance = 10 /\ FontHeight = 16 /\ FontWidth = 8
         /\ borderWidth = 5 /\ headerHeight = 48
BY DEF CursorStartX, CursorStartY, CursorLimitX, CursorLimitY, Advance, FontHeight,
       FontWidth, borderWidth, headerHeight

LEMMA InvImpliesInside == TermInv => CursorInside
<1> SUFFICES ASSUME TermInv PROVE CursorInside
  OBVIOUS
<1>1. mode \in Modes
  BY DEF TermInv
<1>2. CASE IsGraphics
  <2>1. InWindow
    BY <1>2 DEF TermInv
  <2>2. PICK k \in Nat : CursorX = 11 + 10 * k
    BY <2>1, <1>1, <1>2, Layout DEF InWindow
  <2>3. mode.width \in Nat /\ mode.height \in Nat /\ mode.width % 10 # 3
    BY <1>1, <1>2, ModeSizes
  <2>4. 11 + 10 * k + 10 < mode.width - 1
    BY <2>1, <2>2, <1>1, <1>2, Layout DEF InWindow
  <2>5. CursorX + 8 <= mode.width - 5
    BY <2>2, <2>3, <2>4, LastPlace
  <2>6. /\ CursorY \in Nat /\ 49 <= CursorY /\ CursorY + 16 < mode.height - 17
    BY <2>1, <1>1, <1>2, Layout DEF InWindow
  <2>7. 5 <= CursorX
    BY <2>2
  <2>8. 48 <= CursorY /\ CursorY + 16 <= mode.height - 5
    BY <2>3, <2>6
  <2> QED BY <2>5, <2>7, <2>8, <1>1, <1>2, Layout DEF CursorInside
<1>3. CASE ~IsGraphics
  BY <1>1, <1>3, ModeSizes DEF TermInv, OnScreen, CursorInside
<1> QED BY <1>2, <1>3

---------------------------------------------------------------------------
LEMMA InitInv == Init => TermInv
<1> SUFFICES ASSUME Init PROVE TermInv
  OBVIOUS
<1>1. mode \in Modes /\ CursorX = CursorStartX /\ CursorY = CursorStartY
  BY DEF Init
<1>2. CASE IsGraphics
  <2>1. CursorX = 11 + 10 * 0
    BY <1>1, <1>2, Layout
  <2>2. mode.width \in Nat /\ mode.height \in Nat /\ mode.width >= 33 /\ mode.height >= 83
    BY <1>1, <1>2, ModeSizes
  <2>3. /\ 11 + 10 < mode.width - 1 /\ 49 + 16 < mode.height - 17
    BY <2>2
  <2> QED BY <1>1, <1>2, <2>1, <2>3, Layout DEF TermInv, InWindow
<1>3. CASE ~IsGraphics
  <2>1. mode.width \in Nat /\ mode.height \in Nat /\ mode.width >= 8 /\ mode.height >= 5
    BY <1>1, <1>3, ModeSizes
  <2>2. CursorX = 3 /\ CursorY = 3
    BY <1>1, <1>3 DEF CursorStartX, CursorStartY
  <2> QED BY <1>1, <1>3, <2>1, <2>2 DEF TermInv, OnScreen
<1> QED BY <1>2, <1>3

\* The layout follows the mode, which no step changes.
LEMMA SameMode ==
  ASSUME mode' = mode
  PROVE  /\ IsGraphics' = IsGraphics
         /\ CursorStartX' = CursorStartX /\ CursorStartY' = CursorStartY
         /\ CursorLimitX' = CursorLimitX /\ CursorLimitY' = CursorLimitY
BY DEF IsGraphics, CursorStartX, CursorStartY, CursorLimitX, CursorLimitY

LEMMA Drawing ==
  ASSUME TermInv, IsGraphics, NEW ch, VesaPutCharacter(ch), mode' = mode
  PROVE  InWindow'
<1>1. mode \in Modes /\ InWindow
  BY DEF TermInv
<1> DEFINE w == mode.width
           h == mode.height
           x == NextX(ch)
           wraps == x + 10 >= w - 1
           y == CursorY + (IF ch = "nl" THEN 16 ELSE 0) + (IF wraps THEN 16 ELSE 0)
           scrolls == y + 16 >= h - 17
<1>2. w \in Nat /\ h \in Nat /\ w >= 33 /\ h >= 83
  BY <1>1, ModeSizes
<1>3. PICK k \in Nat : CursorX = 11 + 10 * k
  BY <1>1, Layout DEF InWindow
<1>4. CursorX + 10 < w - 1 /\ CursorY \in Nat /\ 49 <= CursorY /\ CursorY + 16 < h - 17
  BY <1>1, Layout DEF InWindow
<1>5. x = IF ch \in {"nl", "cr"} THEN 11 ELSE CursorX + 10
  BY <1>1, Layout DEF NextX
<1>6. /\ CursorX' = (IF wraps THEN 11 ELSE x)
      /\ CursorY' = (IF scrolls THEN y - 16 ELSE y)
  BY <1>1, Layout DEF VesaPutCharacter, Wraps
<1>7. ch = "nl" => ~wraps
  BY <1>2, <1>5
<1>8. y \in {CursorY, CursorY + 16}
  BY <1>4, <1>7
<1>9. /\ CursorY' \in Nat /\ 49 <= CursorY' /\ CursorY' + 16 < h - 17
  <2> HIDE DEF y
  <2> QED BY <1>2, <1>4, <1>6, <1>8
<1>10. \E j \in Nat : CursorX' = 11 + 10 * j
  <2>1. CASE CursorX' = 11
    <3>1. CursorX' = 11 + 10 * 0
      BY <2>1
    <3> QED BY <3>1
  <2>2. CASE CursorX' = CursorX + 10
    <3>1. CursorX' = 11 + 10 * (k + 1) /\ k + 1 \in Nat
      BY <2>2, <1>3
    <3> QED BY <3>1
  <2> QED BY <2>1, <2>2, <1>5, <1>6
<1>11. CursorX' + 10 < w - 1
  BY <1>2, <1>3, <1>5, <1>6
<1> QED BY <1>1, <1>9, <1>10, <1>11, Layout, SameMode DEF InWindow

LEMMA Typing ==
  ASSUME TermInv, ~IsGraphics, NEW ch, VGAPutCharacter(ch), mode' = mode
  PROVE  OnScreen'
<1>1. mode \in Modes /\ OnScreen
  BY DEF TermInv
<1> DEFINE w == mode.width
           h == mode.height
           wraps == TextX(ch) >= w
           y == CursorY + (IF ch = "nl" THEN 1 ELSE 0) + (IF wraps THEN 1 ELSE 0)
<1>2. w \in Nat /\ h \in Nat /\ w >= 8 /\ h >= 5
  BY <1>1, ModeSizes
<1>3. CursorX \in 0..w-1 /\ CursorY \in 0..h-1
  BY <1>1 DEF OnScreen
<1>4. TextX(ch) \in Nat
  <2>1. CursorX \in Nat
    BY <1>2, <1>3
  <2>2. ((CursorX + 8) \div 8) * 8 \in Nat
    BY <2>1
  <2> QED BY <2>1, <2>2 DEF TextX
<1>5. /\ CursorX' = (IF wraps THEN 0 ELSE TextX(ch))
      /\ CursorY' = (IF y >= h - 1 THEN h - 1 ELSE y)
  BY DEF VGAPutCharacter
<1>6. CursorX' \in 0..w-1
  BY <1>2, <1>4, <1>5
<1>7. y \in Nat
  BY <1>2, <1>3
<1>8. CursorY' \in 0..h-1
  <2> HIDE DEF y
  <2> QED BY <1>2, <1>5, <1>7
<1> QED BY <1>6, <1>8 DEF OnScreen

\* Steps that print nothing leave the cursor where it is.
LEMMA NotPrinting ==
  ASSUME TermInv, UNCHANGED <<mode, CursorX, CursorY>>
  PROVE  TermInv'
BY SameMode DEF TermInv, InWindow, OnScreen

\* A step prints a character, or leaves the mode, the screen and the cursor alone.
LEMMA Steps ==
  ASSUME [Next]_vars
  PROVE  VideoDrawString \/ UNCHANGED <<mode, screen, CursorX, CursorY>>
BY DEF Next, vars, LogReturns, Log, LogRaw, LogDebug, LogFatal, LogInformation,
       LogInternalPrint

LEMMA NextInv == TermInv /\ [Next]_vars => TermInv'
<1> SUFFICES ASSUME TermInv, [Next]_vars PROVE TermInv'
  OBVIOUS
<1>1. CASE VideoDrawString
  <2>1. mode' = mode
    BY <1>1 DEF VideoDrawString
  <2>2. CASE IsGraphics
    <3>1. InWindow'
      BY <1>1, <2>1, <2>2, Drawing DEF VideoDrawString
    <3> QED BY <3>1, <2>1, <2>2, SameMode DEF TermInv
  <2>3. CASE ~IsGraphics
    <3>1. OnScreen'
      BY <1>1, <2>1, <2>3, Typing DEF VideoDrawString
    <3> QED BY <3>1, <2>1, <2>3, SameMode DEF TermInv
  <2> QED BY <2>2, <2>3
<1>2. CASE UNCHANGED <<mode, screen, CursorX, CursorY>>
  BY <1>2, NotPrinting
<1> QED BY <1>1, <1>2, Steps

(***************************************************************************)
(* Whatever is printed, in every mode the boot loader may set, the next    *)
(* character is drawn inside the frame, or in a text mode on the screen    *)
(* (VesaPutCharacter, VideoScroll, VGAPutCharacter, TextScroll).           *)
(***************************************************************************)
THEOREM CursorStaysInside == Spec => []CursorInside
BY InitInv, NextInv, InvImpliesInside, PTL DEF Spec

---------------------------------------------------------------------------
\* Neither a character that is drawn inside the frame nor a scrolled window
\* changes a pixel of the frame.
LEMMA DrawnInside ==
  ASSUME mode \in Modes, IsGraphics, CursorInside, CursorX \in Nat, CursorY \in Nat,
         NEW s, NEW cell, NEW r \in DOMAIN s, NEW c \in DOMAIN s[r], OnFrame(c, r)
  PROVE  LET t == VesaDrawCharacter(s, CursorX, CursorY, cell) IN
         r \in DOMAIN t /\ c \in DOMAIN t[r] /\ t[r][c] = s[r][c]
<1>1. r < 48 \/ r >= mode.height - 5 \/ c < 5 \/ c >= mode.width - 5
  BY Layout DEF OnFrame
<1>2. /\ 5 <= CursorX /\ CursorX + 8 <= mode.width - 5
      /\ 48 <= CursorY /\ CursorY + 16 <= mode.height - 5
  BY Layout DEF CursorInside
<1>3. mode.width \in Nat /\ mode.height \in Nat
  BY ModeSizes
<1>4. ~(r \in CursorY..CursorY+16-1 /\ c \in CursorX..CursorX+8-1)
  BY <1>1, <1>2, <1>3
<1> QED BY <1>4, Layout DEF VesaDrawCharacter

LEMMA ScrolledInside ==
  ASSUME mode \in Modes, IsGraphics,
         NEW s, NEW r \in DOMAIN s, NEW c \in DOMAIN s[r], OnFrame(c, r)
  PROVE  LET t == VideoScroll(s) IN
         r \in DOMAIN t /\ c \in DOMAIN t[r] /\ t[r][c] = s[r][c]
<1>1. r < 48 \/ r >= mode.height - 5 \/ c < 5 \/ c >= mode.width - 5
  BY Layout DEF OnFrame
<1>2. mode.width \in Nat /\ mode.height \in Nat
  BY ModeSizes
<1>3. ~(r \in 49..mode.height-17-1 /\ c \in 11..mode.width-1-5-1)
  BY <1>1, <1>2
<1>4. ~(r \in CursorStartY..CursorLimitY-1 /\ c \in Scrolled)
  BY <1>3, Layout DEF Scrolled
<1> QED BY <1>4 DEF VideoScroll

LEMMA FrameNotTouched == TermInv /\ [Next]_vars => FrameStays
<1> SUFFICES ASSUME TermInv, [Next]_vars, IsGraphics,
                    NEW r \in DOMAIN screen, NEW c \in DOMAIN screen[r], OnFrame(c, r)
             PROVE  /\ r \in DOMAIN screen' /\ c \in DOMAIN screen'[r]
                    /\ screen'[r][c] = screen[r][c]
  BY DEF FrameStays
<1>1. CASE VideoDrawString
  <2>1. mode \in Modes /\ CursorInside
    BY InvImpliesInside DEF TermInv
  <2>2. CursorX \in Nat /\ CursorY \in Nat
    BY <2>1, Layout DEF TermInv, InWindow
  <2> DEFINE ch == Head(output)
             drawn == VesaDrawCharacter(screen, CursorX, CursorY, Cell(ch, FgColor, logging))
  <2>3. PICK t \in {screen, drawn} : screen' = t \/ screen' = VideoScroll(t)
    BY <1>1 DEF VideoDrawString, VesaPutCharacter
  <2>4. r \in DOMAIN t /\ c \in DOMAIN t[r] /\ t[r][c] = screen[r][c]
    <3>1. CASE t = screen
      BY <3>1
    <3>2. CASE t = drawn
      BY <3>2, <2>1, <2>2, DrawnInside
    <3> QED BY <2>3, <3>1, <3>2
  <2>5. CASE screen' = VideoScroll(t)
    BY <2>1, <2>4, <2>5, ScrolledInside
  <2> QED BY <2>3, <2>4, <2>5
<1>2. CASE UNCHANGED <<mode, screen, CursorX, CursorY>>
  BY <1>2
<1> QED BY <1>1, <1>2, Steps

(***************************************************************************)
(* No step of the terminal changes a pixel of the frame around its window, *)
(* at any resolution (VesaDrawCharacter, VideoScroll).                     *)
(***************************************************************************)
THEOREM FrameNeverTouched == Spec => [][FrameStays]_vars
<1>1. TermInv /\ [Next]_vars => [FrameStays]_vars
  BY FrameNotTouched
<1> QED BY <1>1, InitInv, NextInv, PTL DEF Spec

---------------------------------------------------------------------------
(* The frame: what VideoDrawLine draws                                     *)

\* The loop goes straight when one of its two ways is 0.
Ways == [x : Nat, y : Nat, dx : Nat, dy : Nat, sx : Int, sy : Int]

LEMMA Straight ==
  ASSUME NEW p \in Ways, (p.dx > 0 /\ p.dy = 0) \/ (p.dx = 0 /\ p.dy > 0)
  PROVE  LET path == LinePath(p.x, p.y, p.dx, p.dy, p.sx, p.sy)
         IN  /\ p.dy = 0 => /\ DOMAIN path = 0..p.dx
                            /\ \A n \in 0..p.dx : path[n].x = p.x + p.sx * n /\ path[n].y = p.y
             /\ p.dx = 0 => /\ DOMAIN path = 0..p.dy
                            /\ \A n \in 0..p.dy : path[n].x = p.x /\ path[n].y = p.y + p.sy * n
<1> DEFINE x == p.x
           y == p.y
           dx == p.dx
           dy == p.dy
           sx == p.sx
           sy == p.sy
           path == LinePath(x, y, dx, dy, sx, sy)
<1>0. /\ x \in Nat /\ y \in Nat /\ dx \in Nat /\ dy \in Nat /\ sx \in Int /\ sy \in Int
      /\ (dx > 0 /\ dy = 0) \/ (dx = 0 /\ dy > 0)
  BY DEF Ways
<1> HIDE DEF x, y, dx, dy, sx, sy
<1> DEFINE e == IF dx > dy THEN dx \div 2 ELSE -(dy \div 2)
           Points == [x : Int, y : Int, err : Int]
           Step == [q \in Points |->
                       [x |-> IF q.err > -dx THEN q.x + sx ELSE q.x,
                        y |-> IF q.err < dy THEN q.y + sy ELSE q.y,
                        err |-> q.err - (IF q.err > -dx THEN dy ELSE 0)
                                      + (IF q.err < dy THEN dx ELSE 0)]]
           start == [x |-> x, y |-> y, err |-> e]
           Eq(f) == f = [n \in 0..dx+dy |-> IF n = 0 THEN start ELSE Step[f[n-1]]]
           line == CHOOSE f : Eq(f)
           here(n) == [x |-> x + (IF dx = 0 THEN 0 ELSE sx * n),
                       y |-> y + (IF dx = 0 THEN sy * n ELSE 0), err |-> e]
           straight == [n \in 0..dx+dy |-> here(n)]
<1>1. e \in Int /\ (dy = 0 => e > -dx /\ ~(e < dy)) /\ (dx = 0 => ~(e > -dx) /\ e < dy)
  BY <1>0
<1> HIDE DEF e
<1>2. ASSUME NEW n \in 0..dx+dy, n # 0 PROVE Step[here(n-1)] = here(n)
  <2>1. n - 1 \in Int /\ sx * n \in Int /\ sy * n \in Int
        /\ sx * (n-1) = sx * n - sx /\ sy * (n-1) = sy * n - sy
    BY <1>0, <1>2
  <2>2. here(n-1) \in Points
    BY <1>0, <1>1, <2>1
  <2>3. Step[here(n-1)] = [x |-> IF here(n-1).err > -dx THEN here(n-1).x + sx ELSE here(n-1).x,
                           y |-> IF here(n-1).err < dy THEN here(n-1).y + sy ELSE here(n-1).y,
                           err |-> here(n-1).err - (IF here(n-1).err > -dx THEN dy ELSE 0)
                                                 + (IF here(n-1).err < dy THEN dx ELSE 0)]
    BY <2>2
  <2> HIDE DEF Step, Points
  <2> QED BY <1>0, <1>1, <2>1, <2>3
<1>3. here(0) = start
  BY <1>0
<1> HIDE DEF Step, start, here
<1>4. Eq(straight)
  <2>1. ASSUME NEW n \in 0..dx+dy PROVE straight[n] = IF n = 0 THEN start ELSE Step[straight[n-1]]
    BY <1>0, <1>2, <1>3
  <2> QED BY <2>1
<1>5. Eq(line)
  BY <1>4, Zenon
<1>6. \A n \in 0..dx+dy : line[n] = here(n)
  <2> DEFINE T == {n \in 0..dx+dy : line[n] = here(n)}
  <2> HIDE DEF line
  <2>1. 0 \in T
    BY <1>0, <1>3, <1>5
  <2>2. ASSUME NEW n \in T, n < dx+dy PROVE n + 1 \in T
    <3>1. n + 1 \in 0..dx+dy /\ n + 1 # 0 /\ (n + 1) - 1 = n
      BY <1>0, <2>2
    <3>2. line[n+1] = Step[line[n]]
      BY <1>5, <3>1
    <3>3. Step[here(n)] = here(n+1)
      BY <1>2, <3>1
    <3> QED BY <3>1, <3>2, <3>3
  <2>3. T = 0..dx+dy
    <3>1. T \in SUBSET (0..dx+dy) /\ dx+dy \in Nat
      BY <1>0
    <3> HIDE DEF T
    <3> QED BY <2>1, <2>2, <3>1, EveryNumber
  <2> QED BY <2>3
<1>7. path = line
  BY Zenon DEF LinePath, Step, start, e
<1> HIDE DEF line, path
<1>8. DOMAIN path = 0..dx+dy /\ \A n \in 0..dx+dy : path[n] = here(n)
  BY <1>5, <1>6, <1>7
<1>9. /\ dy = 0 => /\ DOMAIN path = 0..dx
                   /\ \A n \in 0..dx : path[n].x = x + sx * n /\ path[n].y = y
      /\ dx = 0 => /\ DOMAIN path = 0..dy
                   /\ \A n \in 0..dy : path[n].x = x /\ path[n].y = y + sy * n
  BY <1>0, <1>8 DEF here
<1> QED BY <1>9, Zenon DEF path, x, y, dx, dy, sx, sy

LEMMA Across ==
  ASSUME NEW w \in Nat, w > 1, NEW y \in Nat
  PROVE  VideoDrawLine(0, y, w-1, y) = {<<x, y>> : x \in 0..w-1}
<1> DEFINE path == LinePath(0, y, w-1, 0, 1, -1)
           Ends(n) == path[n].x = w-1 /\ path[n].y = y
           last == CHOOSE n \in DOMAIN path : Ends(n) /\ \A k \in 0..n-1 : ~Ends(k)
<1>1. /\ Abs(w-1-0) = w-1 /\ Abs(y-y) = 0
      /\ (IF 0 < w-1 THEN 1 ELSE -1) = 1 /\ (IF y < y THEN 1 ELSE -1) = -1
  BY DEF Abs
<1>2. VideoDrawLine(0, y, w-1, y) = {<<path[n].x, path[n].y>> : n \in 0..last}
  BY <1>1 DEF VideoDrawLine
<1>3. DOMAIN path = 0..w-1 /\ \A n \in 0..w-1 : path[n].x = n /\ path[n].y = y
  <2> DEFINE p == [x |-> 0, y |-> y, dx |-> w-1, dy |-> 0, sx |-> 1, sy |-> -1]
  <2>1. /\ p \in Ways /\ p.dx > 0 /\ p.dy = 0
        /\ p.x = 0 /\ p.y = y /\ p.dx = w-1 /\ p.sx = 1 /\ p.sy = -1
    BY DEF Ways
  <2>2. path = LinePath(p.x, p.y, p.dx, p.dy, p.sx, p.sy)
    OBVIOUS
  <2> HIDE DEF p, path
  <2>3. DOMAIN path = 0..p.dx /\ \A n \in 0..p.dx : path[n].x = p.x + p.sx * n /\ path[n].y = p.y
    BY <2>1, <2>2, Straight, Zenon
  <2> QED BY <2>1, <2>3
<1> HIDE DEF path
<1>4. last = w-1
  <2>1. \A n \in 0..w-1 : Ends(n) <=> n = w-1
    BY <1>3
  <2>2. w-1 \in DOMAIN path /\ Ends(w-1) /\ \A k \in 0..w-1-1 : ~Ends(k)
    BY <1>3, <2>1
  <2> HIDE DEF Ends
  <2> QED BY <1>3, <2>1, <2>2
<1> QED BY <1>2, <1>3, <1>4

LEMMA Downwards ==
  ASSUME NEW h \in Nat, h > 1, NEW x \in Nat
  PROVE  VideoDrawLine(x, 0, x, h-1) = {<<x, y>> : y \in 0..h-1}
<1> DEFINE path == LinePath(x, 0, 0, h-1, -1, 1)
           Ends(n) == path[n].x = x /\ path[n].y = h-1
           last == CHOOSE n \in DOMAIN path : Ends(n) /\ \A k \in 0..n-1 : ~Ends(k)
<1>1. /\ Abs(h-1-0) = h-1 /\ Abs(x-x) = 0
      /\ (IF 0 < h-1 THEN 1 ELSE -1) = 1 /\ (IF x < x THEN 1 ELSE -1) = -1
  BY DEF Abs
<1>2. VideoDrawLine(x, 0, x, h-1) = {<<path[n].x, path[n].y>> : n \in 0..last}
  BY <1>1 DEF VideoDrawLine
<1>3. DOMAIN path = 0..h-1 /\ \A n \in 0..h-1 : path[n].x = x /\ path[n].y = n
  <2> DEFINE p == [x |-> x, y |-> 0, dx |-> 0, dy |-> h-1, sx |-> -1, sy |-> 1]
  <2>1. /\ p \in Ways /\ p.dx = 0 /\ p.dy > 0
        /\ p.x = x /\ p.y = 0 /\ p.dy = h-1 /\ p.sx = -1 /\ p.sy = 1
    BY DEF Ways
  <2>2. path = LinePath(p.x, p.y, p.dx, p.dy, p.sx, p.sy)
    OBVIOUS
  <2> HIDE DEF p, path
  <2>3. DOMAIN path = 0..p.dy /\ \A n \in 0..p.dy : path[n].x = p.x /\ path[n].y = p.y + p.sy * n
    BY <2>1, <2>2, Straight, Zenon
  <2> QED BY <2>1, <2>3
<1> HIDE DEF path
<1>4. last = h-1
  <2>1. \A n \in 0..h-1 : Ends(n) <=> n = h-1
    BY <1>3
  <2>2. h-1 \in DOMAIN path /\ Ends(h-1) /\ \A k \in 0..h-1-1 : ~Ends(k)
    BY <1>3, <2>1
  <2> HIDE DEF Ends
  <2> QED BY <1>3, <2>1, <2>2
<1> QED BY <1>2, <1>3, <1>4

---------------------------------------------------------------------------
(* The screen at boot: the frame, and the title in its header              *)

LEMMA FrameDrawn ==
  ASSUME mode \in Modes, IsGraphics, NEW c \in 0..mode.width-1, NEW r \in 0..mode.height-1
  PROVE  <<c, r>> \in Frame(mode) <=> OnFrame(c, r)
<1> DEFINE w == mode.width
           h == mode.height
<1>1. w \in Nat /\ h \in Nat /\ w >= 33 /\ h >= 83
  BY ModeSizes
<1>2. \A i \in 0..47 : VideoDrawLine(0, i, w-1, i) = {<<x, i>> : x \in 0..w-1}
  BY <1>1, Across
<1>3. \A i \in 0..4 : VideoDrawLine(i, 0, i, h-1) = {<<i, y>> : y \in 0..h-1}
  BY <1>1, Downwards
<1>4. \A i \in 0..4 : VideoDrawLine(w-1-i, 0, w-1-i, h-1) = {<<w-1-i, y>> : y \in 0..h-1}
  <2>1. \A i \in 0..4 : w-1-i \in Nat
    BY <1>1
  <2> QED BY <1>1, <2>1, Downwards
<1>5. \A i \in 0..4 : VideoDrawLine(0, h-1-i, w-1, h-1-i) = {<<x, h-1-i>> : x \in 0..w-1}
  <2>1. \A i \in 0..4 : h-1-i \in Nat
    BY <1>1
  <2> QED BY <1>1, <2>1, Across
<1> DEFINE In(S) == <<c, r>> \in S
<1>6. <<c, r>> \in Frame(mode) <=>
         \/ \E i \in 0..47 : In(VideoDrawLine(0, i, w-1, i))
         \/ \E i \in 0..4 : In(VideoDrawLine(i, 0, i, h-1))
         \/ \E i \in 0..4 : In(VideoDrawLine(w-1-i, 0, w-1-i, h-1))
         \/ \E i \in 0..4 : In(VideoDrawLine(0, h-1-i, w-1, h-1-i))
  <2>1. mode.type = "graphics" /\ headerHeight - 1 = 47 /\ borderWidth - 1 = 4
    BY DEF IsGraphics, headerHeight, borderWidth
  <2>2. Frame(mode) = UNION ({VideoDrawLine(0, i, w-1, i) : i \in 0..47}
           \cup {VideoDrawLine(i, 0, i, h-1) : i \in 0..4}
           \cup {VideoDrawLine(w-1-i, 0, w-1-i, h-1) : i \in 0..4}
           \cup {VideoDrawLine(0, h-1-i, w-1, h-1-i) : i \in 0..4})
    BY <2>1 DEF Frame
  <2> QED BY <2>2, Zenon
<1>7. \A i \in 0..47 : In(VideoDrawLine(0, i, w-1, i)) <=> r = i
  <2>1. \A i \in 0..47 : In({<<x, i>> : x \in 0..w-1}) <=> r = i
    OBVIOUS
  <2> QED BY <1>2, <2>1, Zenon
<1>8. \A i \in 0..4 : In(VideoDrawLine(i, 0, i, h-1)) <=> c = i
  BY <1>3
<1>9. \A i \in 0..4 : In(VideoDrawLine(w-1-i, 0, w-1-i, h-1)) <=> c = w-1-i
  BY <1>4
<1>10. \A i \in 0..4 : In(VideoDrawLine(0, h-1-i, w-1, h-1-i)) <=> r = h-1-i
  BY <1>5
<1>11. OnFrame(c, r) <=> r < 48 \/ r >= h-5 \/ c < 5 \/ c >= w-5
  BY Layout DEF OnFrame
<1>12. /\ (\E i \in 0..47 : r = i) <=> r < 48
       /\ (\E i \in 0..4 : c = i) <=> c < 5
  OBVIOUS
<1>13. /\ (\E i \in 0..4 : c = w-1-i) <=> c >= w-5
       /\ (\E i \in 0..4 : r = h-1-i) <=> r >= h-5
  BY <1>1
<1> HIDE DEF In
<1> QED BY <1>6, <1>7, <1>8, <1>9, <1>10, <1>11, <1>12, <1>13

\* What the title puts on the screen.
TitleCells == {Cell(ch, "white", "title") : ch \in Glyphs \cup {"nl", "cr"}}

\* A screen of the mode, of these cells.
ScreenOf(cells) == [0..mode.height-1 -> [0..mode.width-1 -> cells]]

\* A glyph of the title at any place of its rows leaves the other rows alone.
LEMMA TitleGlyph ==
  ASSUME mode \in Modes, IsGraphics, NEW cells, NEW u \in ScreenOf(cells), NEW x \in Int,
         NEW cell \in cells
  PROVE  LET d == VesaDrawCharacter(u, x, 18, cell)
         IN  /\ d \in ScreenOf(cells)
             /\ \A r \in 0..mode.height-1, c \in 0..mode.width-1 :
                   d[r][c] = u[r][c] \/ (r \in 18..33 /\ d[r][c] = cell)
<1> DEFINE d == VesaDrawCharacter(u, x, 18, cell)
<1>1. d = [r \in 0..mode.height-1 |-> [c \in 0..mode.width-1 |->
              IF r \in 18..33 /\ c \in x..x+7 THEN cell ELSE u[r][c]]]
  BY DEF VesaDrawCharacter, ScreenOf, FontHeight, FontWidth
<1> HIDE DEF d
<1>2. \A r \in 0..mode.height-1, c \in 0..mode.width-1 : u[r][c] \in cells
  BY DEF ScreenOf
<1>3. d \in ScreenOf(cells)
  BY <1>1, <1>2 DEF ScreenOf
<1>4. \A r \in 0..mode.height-1, c \in 0..mode.width-1 :
         d[r][c] = IF r \in 18..33 /\ c \in x..x+7 THEN cell ELSE u[r][c]
  BY <1>1
<1>5. \A r \in 0..mode.height-1, c \in 0..mode.width-1 :
         d[r][c] = u[r][c] \/ (r \in 18..33 /\ d[r][c] = cell)
  BY <1>4
<1> QED BY <1>3, <1>5 DEF d

\* So does the whole title, glyph by glyph.
LEMMA TitleDrawn ==
  ASSUME mode \in Modes, IsGraphics, NEW cells, TitleCells \subseteq cells,
         NEW s \in ScreenOf(cells)
  PROVE  LET d == Titled(mode, s)
         IN  /\ d \in ScreenOf(cells)
             /\ \A r \in 0..mode.height-1, c \in 0..mode.width-1 :
                   d[r][c] = s[r][c] \/ (r \in 18..33 /\ d[r][c] \in TitleCells)
<1> DEFINE N == Len(Title)
           S == ScreenOf(cells)
           x0 == (mode.width \div 2) - (Len(Title) \div 2) * 8
           glyph(n) == Cell(Title[n], "white", "title")
           Draw(n, u) == VesaDrawCharacter(u, x0 + (n-1) * 10, 18, glyph(n))
           Eq(f) == f = [n \in 0..N |-> IF n = 0 THEN s ELSE Draw(n, f[n-1])]
           t == CHOOSE f : Eq(f)
<1>1. /\ N \in Nat /\ x0 \in Int /\ mode.width \in Nat
      /\ \A n \in 1..N : glyph(n) \in TitleCells /\ glyph(n) \in cells
  <2>1. Title \in Seq(Glyphs \cup {"nl", "cr"})
    BY Strings
  <2>2. N \in Nat /\ \A n \in 1..N : Title[n] \in Glyphs \cup {"nl", "cr"}
    BY <2>1
  <2>3. mode.width \in Nat
    BY ModeSizes
  <2> QED BY <2>2, <2>3 DEF TitleCells
<1>2. Titled(mode, s) = t[N]
  BY Zenon DEF Titled, IsGraphics
<1> HIDE DEF N, x0, glyph
<1>3. ASSUME NEW n \in 1..N, NEW u \in S
      PROVE  /\ Draw(n, u) \in S
             /\ \A r \in 0..mode.height-1, c \in 0..mode.width-1 :
                   Draw(n, u)[r][c] = u[r][c] \/ (r \in 18..33 /\ Draw(n, u)[r][c] \in TitleCells)
  <2> DEFINE x == x0 + (n-1) * 10
  <2>1. x \in Int
    BY <1>1
  <2> HIDE DEF x
  <2>2. /\ VesaDrawCharacter(u, x, 18, glyph(n)) \in ScreenOf(cells)
        /\ \A r \in 0..mode.height-1, c \in 0..mode.width-1 :
             \/ VesaDrawCharacter(u, x, 18, glyph(n))[r][c] = u[r][c]
             \/ r \in 18..33 /\ VesaDrawCharacter(u, x, 18, glyph(n))[r][c] = glyph(n)
    BY <1>1, <2>1, TitleGlyph
  <2> QED BY <1>1, <2>2 DEF x
<1> HIDE DEF S, Draw
<1>4. \E f \in [0..N -> S] : Eq(f)
  <2> DEFINE G == [n \in Nat |-> [u \in S |-> IF n \in 1..N THEN Draw(n, u) ELSE u]]
  <2>1. G \in [Nat -> [S -> S]]
    BY <1>3
  <2>2. s \in S
    BY DEF S
  <2>3. \A n \in 1..N, u \in S : G[n][u] = Draw(n, u)
    BY <1>1
  <2> HIDE DEF G
  <2>4. PICK f \in [0..N -> S] : f[0] = s /\ \A n \in 1..N : f[n] = G[n][f[n-1]]
    <3>1. N \in Nat
      BY <1>1
    <3>2. Recurs(S, s, G, N)
      BY <2>1, <2>2, <3>1, Recursion
    <3> QED BY <3>2 DEF Recurs
  <2>5. \A n \in 0..N : f[n] = IF n = 0 THEN s ELSE Draw(n, f[n-1])
    <3> SUFFICES ASSUME NEW n \in 0..N, n # 0 PROVE f[n] = Draw(n, f[n-1])
      BY <2>4
    <3>1. n \in 1..N /\ n-1 \in 0..N
      BY <1>1
    <3> QED BY <2>3, <2>4, <3>1
  <2>6. Eq(f)
    BY <2>4, <2>5
  <2> QED BY <2>6
<1>5. Eq(t)
  BY <1>4, Zenon
<1> DEFINE Good(u) == /\ u \in S
                      /\ \A r \in 0..mode.height-1, c \in 0..mode.width-1 :
                            u[r][c] = s[r][c] \/ (r \in 18..33 /\ u[r][c] \in TitleCells)
           T == {n \in 0..N : Good(t[n])}
<1> HIDE DEF t
<1>6. 0 \in T
  <2>1. t[0] = s /\ s \in S /\ 0 \in 0..N
    BY <1>1, <1>5 DEF S
  <2> QED BY <2>1
<1>7. ASSUME NEW n \in T, n < N PROVE n + 1 \in T
  <2>1. n \in 0..N /\ n + 1 \in 0..N /\ n + 1 \in 1..N /\ n + 1 # 0 /\ (n + 1) - 1 = n
    BY <1>1, <1>7
  <2>2. t[n+1] = Draw(n + 1, t[n])
    BY <1>5, <2>1
  <2>3. Good(t[n])
    BY <1>7
  <2>4. Draw(n + 1, t[n]) \in S
        /\ \A r \in 0..mode.height-1, c \in 0..mode.width-1 :
              \/ Draw(n + 1, t[n])[r][c] = t[n][r][c]
              \/ r \in 18..33 /\ Draw(n + 1, t[n])[r][c] \in TitleCells
    BY <1>3, <2>1, <2>3
  <2>5. Good(t[n+1])
    BY <2>2, <2>3, <2>4, Zenon
  <2> QED BY <2>1, <2>5
<1>8. T = 0..N
  <2>1. T \in SUBSET (0..N)
    OBVIOUS
  <2> HIDE DEF T
  <2> QED BY <1>1, <1>6, <1>7, <2>1, EveryNumber
<1>9. Good(t[N])
  BY <1>1, <1>8
<1> QED BY <1>2, <1>9 DEF S

\* At boot the frame is whole, and the window in it is blank.
BootCells == {Blank, Border} \cup TitleCells

LEMMA BootScreen ==
  ASSUME mode \in Modes, IsGraphics
  PROVE  LET s == VideoDrawBootTerminal(mode)
         IN  /\ s \in ScreenOf(BootCells)
             /\ \A r \in 0..mode.height-1, c \in 0..mode.width-1 :
                  /\ OnFrame(c, r) => \/ s[r][c] = Border
                                      \/ s[r][c].of = "title" /\ r < headerHeight
                  /\ ~OnFrame(c, r) => s[r][c] = Blank
<1> DEFINE p == [r \in 0..mode.height-1 |-> [c \in 0..mode.width-1 |->
                    IF <<c, r>> \in Frame(mode) THEN Border ELSE Blank]]
           s == VideoDrawBootTerminal(mode)
<1>1. s = Titled(mode, p)
  BY DEF VideoDrawBootTerminal
<1>2. p \in ScreenOf(BootCells)
  BY DEF ScreenOf, BootCells
<1>3. \A r \in 0..mode.height-1, c \in 0..mode.width-1 :
         p[r][c] = IF OnFrame(c, r) THEN Border ELSE Blank
  <2> SUFFICES ASSUME NEW r \in 0..mode.height-1, NEW c \in 0..mode.width-1
               PROVE  p[r][c] = IF OnFrame(c, r) THEN Border ELSE Blank
    OBVIOUS
  <2>1. p[r][c] = IF <<c, r>> \in Frame(mode) THEN Border ELSE Blank
    OBVIOUS
  <2>2. <<c, r>> \in Frame(mode) <=> OnFrame(c, r)
    BY FrameDrawn
  <2> QED BY <2>1, <2>2
<1> HIDE DEF p
<1>4. /\ Titled(mode, p) \in ScreenOf(BootCells)
      /\ \A r \in 0..mode.height-1, c \in 0..mode.width-1 :
            \/ Titled(mode, p)[r][c] = p[r][c]
            \/ r \in 18..33 /\ Titled(mode, p)[r][c] \in TitleCells
  <2>1. TitleCells \subseteq BootCells
    BY DEF BootCells
  <2> QED BY <1>2, <2>1, TitleDrawn
<1>5. /\ headerHeight = 48
      /\ \A r \in 18..33, c \in 0..mode.width-1 : OnFrame(c, r)
      /\ \A cell \in TitleCells : cell.of = "title"
  BY DEF headerHeight, OnFrame, TitleCells, Cell
<1> HIDE DEF s
<1>6. \A r \in 0..mode.height-1, c \in 0..mode.width-1 :
         /\ OnFrame(c, r) => s[r][c] = Border \/ (s[r][c].of = "title" /\ r < headerHeight)
         /\ ~OnFrame(c, r) => s[r][c] = Blank
  BY <1>1, <1>3, <1>4, <1>5
<1> QED BY <1>1, <1>4, <1>6 DEF s

---------------------------------------------------------------------------
\* In a graphics mode the screen has the rows and columns of the mode.
ScreenSized ==
    IsGraphics => /\ DOMAIN screen = 0..mode.height-1
                  /\ \A r \in 0..mode.height-1 : DOMAIN screen[r] = 0..mode.width-1

FrameInv == TermInv /\ ScreenSized /\ FrameWhole

LEMMA InitFrame == Init => FrameInv
<1> SUFFICES ASSUME Init PROVE ScreenSized /\ FrameWhole
  BY InitInv DEF FrameInv
<1> SUFFICES ASSUME IsGraphics
             PROVE  /\ DOMAIN screen = 0..mode.height-1
                    /\ \A r \in 0..mode.height-1 : DOMAIN screen[r] = 0..mode.width-1
                    /\ FrameWhole
  BY DEF ScreenSized, FrameWhole
<1>1. mode \in Modes /\ screen = VideoDrawBootTerminal(mode)
  BY DEF Init
<1>2. /\ screen \in ScreenOf(BootCells)
      /\ \A r \in 0..mode.height-1, c \in 0..mode.width-1 :
            OnFrame(c, r) => \/ screen[r][c] = Border
                             \/ screen[r][c].of = "title" /\ r < headerHeight
  BY <1>1, BootScreen
<1>3. /\ DOMAIN screen = 0..mode.height-1
      /\ \A r \in 0..mode.height-1 : DOMAIN screen[r] = 0..mode.width-1
  BY <1>2 DEF ScreenOf
<1> QED BY <1>2, <1>3 DEF FrameWhole

\* No step changes the size of the screen.
LEMMA SizedKept == TermInv /\ ScreenSized /\ [Next]_vars => ScreenSized'
<1> SUFFICES ASSUME TermInv, ScreenSized, [Next]_vars, IsGraphics
             PROVE  /\ DOMAIN screen' = 0..mode.height-1
                    /\ \A r \in 0..mode.height-1 : DOMAIN screen'[r] = 0..mode.width-1
                    /\ mode' = mode
  BY SameMode, Steps DEF ScreenSized, VideoDrawString
<1>1. /\ DOMAIN screen = 0..mode.height-1
      /\ \A r \in 0..mode.height-1 : DOMAIN screen[r] = 0..mode.width-1
  BY DEF ScreenSized
<1>2. CASE VideoDrawString
  <2> DEFINE ch == Head(output)
             drawn == VesaDrawCharacter(screen, CursorX, CursorY, Cell(ch, FgColor, logging))
  <2>1. PICK t \in {screen, drawn} : screen' = t \/ screen' = VideoScroll(t)
    BY <1>2 DEF VideoDrawString, VesaPutCharacter
  <2>2. /\ DOMAIN t = 0..mode.height-1
        /\ \A r \in 0..mode.height-1 : DOMAIN t[r] = 0..mode.width-1
    BY <1>1, <2>1 DEF VesaDrawCharacter
  <2>3. /\ DOMAIN VideoScroll(t) = 0..mode.height-1
        /\ \A r \in 0..mode.height-1 : DOMAIN VideoScroll(t)[r] = 0..mode.width-1
    BY <2>2 DEF VideoScroll
  <2>4. mode' = mode
    BY <1>2 DEF VideoDrawString
  <2> QED BY <2>1, <2>2, <2>3, <2>4
<1>3. CASE UNCHANGED <<mode, screen, CursorX, CursorY>>
  BY <1>1, <1>3
<1> QED BY <1>2, <1>3, Steps

LEMMA NextFrame == FrameInv /\ [Next]_vars => FrameInv'
<1> SUFFICES ASSUME FrameInv, [Next]_vars PROVE FrameInv'
  OBVIOUS
<1>1. TermInv' /\ ScreenSized'
  BY NextInv, SizedKept DEF FrameInv
<1>2. FrameWhole'
  <2>1. mode' = mode
    BY Steps DEF VideoDrawString
  <2> SUFFICES ASSUME IsGraphics, NEW r \in 0..mode.height-1, NEW c \in 0..mode.width-1,
                      OnFrame(c, r)
               PROVE  \/ screen'[r][c] = Border
                      \/ screen'[r][c].of = "title" /\ r < headerHeight
    BY <2>1, SameMode DEF FrameWhole, OnFrame
  <2>2. r \in DOMAIN screen /\ c \in DOMAIN screen[r]
    BY DEF FrameInv, ScreenSized
  <2>3. screen'[r][c] = screen[r][c]
    BY <2>2, FrameNotTouched DEF FrameInv, FrameStays
  <2> QED BY <2>3 DEF FrameInv, FrameWhole
<1> QED BY <1>1, <1>2 DEF FrameInv

(***************************************************************************)
(* At any resolution the lines VideoDrawBootTerminal draws at boot are the *)
(* whole frame, with nothing but the title over it, and however much is    *)
(* printed and scrolled they are still there (VideoDrawLine, VideoScroll). *)
(***************************************************************************)
THEOREM FrameIsWhole == Spec => []FrameWhole
<1>1. FrameInv => FrameWhole
  BY DEF FrameInv
<1> QED BY <1>1, InitFrame, NextFrame, PTL DEF Spec
---------------------------------------------------------------------------
(* The page: what is shown of the pixels                                   *)

\* The pixel (x, y) of the place c of the line r; 8 and 9 are the gap to the next place.
Pixel(s, r, c, y, x) == s[49 + (r-1) * 16 + y][11 + (c-1) * 10 + x]

\* A screen of the size of the mode, with nothing between the places, and nothing in
\* the rows that are left over below the last line.
GapsBlank(s) ==
    \A r \in 1..Lines, c \in 1..Places-1, y \in 0..15, x \in 8..9 : Pixel(s, r, c, y, x) = Blank
RestBlank(s) ==
    \A r \in 49+16*Lines..mode.height-18, c \in 11..mode.width-7 : s[r][c] = Blank
Sized(s) ==
    /\ DOMAIN s = 0..mode.height-1
    /\ \A r \in 0..mode.height-1 : DOMAIN s[r] = 0..mode.width-1
Clean(s) == Sized(s) /\ GapsBlank(s) /\ RestBlank(s)

\* The lines and the places of the window, and the pixels around them.
LEMMA Grid ==
  ASSUME mode \in Modes, IsGraphics
  PROVE  LET w == mode.width  h == mode.height
         IN  /\ w \in Nat /\ h \in Nat /\ w >= 33 /\ h >= 83
             /\ Lines \in Nat /\ Lines >= 1 /\ 16 * Lines <= h - 67 /\ h - 67 < 16 * Lines + 16
             /\ Places \in Nat /\ Places >= 2 /\ 10 * Places <= w - 13 /\ w - 13 < 10 * Places + 10
<1> DEFINE w == mode.width
           h == mode.height
<1>1. w \in Nat /\ h \in Nat /\ w >= 33 /\ h >= 83
  BY ModeSizes
<1>2. Lines = (h - 67) \div 16 /\ Places = (w - 13) \div 10
  <2>1. h - 17 - 49 - 1 = h - 67 /\ w - 1 - 11 - 1 = w - 13
    BY <1>1
  <2> QED BY <2>1, Layout DEF Lines, Places
<1> QED BY <1>1, <1>2

\* The last place is scrolled with all its columns.
LEMMA LastPlaceScrolled ==
  ASSUME ColumnsFit, mode \in Modes, IsGraphics
  PROVE  10 * Places + 8 <= mode.width - 7
<1>1. mode.width \in Nat /\ mode.width % 10 # 3 /\ mode.width % 10 # 4
  BY ModeSizes DEF ColumnsFit, IsGraphics
<1>2. mode.width # 10 * Places + 13 /\ mode.width # 10 * Places + 14
  <2>1. Places \in Nat
    BY Grid
  <2>2. (10 * Places + 13) % 10 = 3 /\ (10 * Places + 14) % 10 = 4
    BY <2>1
  <2> QED BY <1>1, <2>2
<1> QED BY <1>1, <1>2, Grid

\* SeenOn in terms of Pixel.
SeenPixels(s, r, c) ==
    LET glyph == Pixel(s, r, c, 0, 0) IN
    IF /\ \A y \in 0..15, x \in 0..7 : Pixel(s, r, c, y, x) = glyph
       /\ c < Places => \A y \in 0..15, x \in 8..9 : Pixel(s, r, c, y, x) = Blank
    THEN glyph ELSE Cell("torn", "none", "none")

LEMMA SeenInPixels ==
  ASSUME mode \in Modes, IsGraphics, NEW s, NEW r \in Int, NEW c \in 1..Places
  PROVE  SeenOn(s, r, c) = SeenPixels(s, r, c)
<1> DEFINE P(y, x) == s[PlaceY(r) + y][PlaceX(c) + x]
<1>1. /\ FontHeight - 1 = 15 /\ FontWidth - 1 = 7 /\ Advance - 1 = 9 /\ FontWidth = 8
      /\ 0 \in 0..15 /\ 0 \in 0..7
  BY Layout
<1>2. SeenOn(s, r, c) =
         IF /\ \A y \in 0..15, x \in 0..7 : P(y, x) = P(0, 0)
            /\ c < Places => \A y \in 0..15, x \in 8..9 : P(y, x) = Blank
         THEN P(0, 0) ELSE Cell("torn", "none", "none")
  BY <1>1, Zenon DEF SeenOn
<1>3. PlaceY(r) = 49 + (r-1) * 16 /\ PlaceX(c) = 11 + (c-1) * 10
  BY Layout DEF PlaceX, PlaceY
<1>4. \A y \in 0..15, x \in 0..9 : P(y, x) = Pixel(s, r, c, y, x)
  BY <1>3 DEF Pixel
<1>5. 0 \in 0..9 /\ 0..7 \subseteq 0..9 /\ 8..9 \subseteq 0..9
  OBVIOUS
<1> HIDE DEF P
<1> QED BY <1>1, <1>2, <1>4, <1>5 DEF SeenPixels

\* What is seen depends on the pixels of the place only.
LEMMA SeenSame ==
  ASSUME mode \in Modes, IsGraphics, NEW s, NEW t, NEW r \in Int, NEW q \in Int, NEW c \in 1..Places,
         \A y \in 0..15, x \in 0..9 :
            x < 8 \/ c < Places => Pixel(s, r, c, y, x) = Pixel(t, q, c, y, x)
  PROVE  SeenOn(s, r, c) = SeenOn(t, q, c)
<1>1. \A y \in 0..15, x \in 0..7 : Pixel(s, r, c, y, x) = Pixel(t, q, c, y, x)
  OBVIOUS
<1>2. c < Places => \A y \in 0..15, x \in 8..9 : Pixel(s, r, c, y, x) = Pixel(t, q, c, y, x)
  OBVIOUS
<1>3. 0 \in 0..15 /\ 0 \in 0..7
  OBVIOUS
<1>4. SeenPixels(s, r, c) = SeenPixels(t, q, c)
  BY <1>1, <1>2, <1>3 DEF SeenPixels
<1> QED BY <1>4, SeenInPixels

LEMMA SeenOne ==
  ASSUME mode \in Modes, IsGraphics, NEW s, NEW r \in Int, NEW c \in 1..Places, NEW cell,
         \A y \in 0..15, x \in 0..7 : Pixel(s, r, c, y, x) = cell,
         c < Places => \A y \in 0..15, x \in 8..9 : Pixel(s, r, c, y, x) = Blank
  PROVE  SeenOn(s, r, c) = cell
<1>1. 0 \in 0..15 /\ 0 \in 0..7
  OBVIOUS
<1>2. SeenPixels(s, r, c) = cell
  BY <1>1 DEF SeenPixels
<1> QED BY <1>2, SeenInPixels

\* A character at a place of a line.
DrawnAt(s, line, place, cell) ==
    VesaDrawCharacter(s, 11 + (place-1) * 10, 49 + (line-1) * 16, cell)

\* From s to d only this place was drawn on.
OnlyAt(s, d, line, place, cell) ==
    /\ \A r \in 1..Lines, c \in 1..Places, y \in 0..15, x \in 0..9 :
          x < 8 \/ c < Places =>
            Pixel(d, r, c, y, x) =
               IF r = line /\ c = place /\ x < 8 THEN cell ELSE Pixel(s, r, c, y, x)
    /\ \A r \in 49+16*Lines..mode.height-18, c \in 11..mode.width-7 : d[r][c] = s[r][c]

LEMMA DrawnPixels ==
  ASSUME mode \in Modes, IsGraphics, NEW s, Sized(s), NEW cell,
         NEW line \in 1..Lines, NEW place \in 1..Places
  PROVE  LET d == DrawnAt(s, line, place, cell)
         IN  Sized(d) /\ OnlyAt(s, d, line, place, cell)
<1> DEFINE w == mode.width
           h == mode.height
           X == 11 + (place-1) * 10
           Y == 49 + (line-1) * 16
           d == DrawnAt(s, line, place, cell)
<1>1. /\ w \in Nat /\ h \in Nat /\ Lines \in Nat /\ Places \in Nat
      /\ 16 * Lines <= h - 67 /\ 10 * Places <= w - 13
  BY Grid
<1>2. d = [r \in 0..h-1 |-> [c \in 0..w-1 |->
             IF r \in Y..Y+15 /\ c \in X..X+7 THEN cell ELSE s[r][c]]]
  <2>1. /\ DOMAIN s = 0..h-1 /\ \A r \in 0..h-1 : DOMAIN s[r] = 0..w-1
    BY DEF Sized
  <2>2. X \in Int /\ Y \in Int
    BY <1>1
  <2>3. d = VesaDrawCharacter(s, X, Y, cell)
    BY DEF DrawnAt
  <2> HIDE DEF X, Y, d
  <2>4. Y + 16 - 1 = Y + 15 /\ X + 8 - 1 = X + 7
    BY <2>2
  <2>5. VesaDrawCharacter(s, X, Y, cell) = [r \in DOMAIN s |-> [c \in DOMAIN s[r] |->
             IF r \in Y..Y+15 /\ c \in X..X+7 THEN cell ELSE s[r][c]]]
    BY <2>4 DEF VesaDrawCharacter, FontHeight, FontWidth
  <2> QED BY <2>1, <2>3, <2>5
<1> HIDE DEF d
<1>3. Sized(d)
  BY <1>2 DEF Sized
<1>4. \A r \in 0..h-1, c \in 0..w-1 :
         d[r][c] = IF r \in Y..Y+15 /\ c \in X..X+7 THEN cell ELSE s[r][c]
  BY <1>2
<1>5. ASSUME NEW r \in 1..Lines, NEW c \in 1..Places, NEW y \in 0..15, NEW x \in 0..9,
             x < 8 \/ c < Places
      PROVE  Pixel(d, r, c, y, x) =
                IF r = line /\ c = place /\ x < 8 THEN cell ELSE Pixel(s, r, c, y, x)
  <2> DEFINE a == 49 + (r-1) * 16 + y
             b == 11 + (c-1) * 10 + x
  <2>1. a \in 0..h-1 /\ b \in 0..w-1
    BY <1>1, <1>5
  <2>2. (a \in Y..Y+15 /\ b \in X..X+7) <=> (r = line /\ c = place /\ x < 8)
    BY <1>1
  <2> HIDE DEF a, b, X, Y
  <2>3. d[a][b] = IF r = line /\ c = place /\ x < 8 THEN cell ELSE s[a][b]
    BY <1>4, <2>1, <2>2
  <2> QED BY <2>3 DEF Pixel, a, b
<1>6. ASSUME NEW r \in 49+16*Lines..h-18, NEW c \in 11..w-7
      PROVE  d[r][c] = s[r][c]
  <2>1. r \in 0..h-1 /\ c \in 0..w-1 /\ ~(r \in Y..Y+15)
    BY <1>1
  <2> QED BY <1>4, <2>1
<1> QED BY <1>3, <1>5, <1>6 DEF d, OnlyAt

LEMMA DrawnClean ==
  ASSUME mode \in Modes, IsGraphics, NEW s, Clean(s), NEW cell,
         NEW line \in 1..Lines, NEW place \in 1..Places
  PROVE  LET d == DrawnAt(s, line, place, cell)
         IN  /\ Clean(d)
             /\ PageOf(d) = [PageOf(s) EXCEPT ![line][place] = cell]
<1> DEFINE d == DrawnAt(s, line, place, cell)
<1>1. Sized(d) /\ OnlyAt(s, d, line, place, cell)
  BY DrawnPixels DEF Clean
<1>2. Lines \in Nat /\ Places \in Nat
  BY Grid
<1> HIDE DEF d
<1>3. Clean(d)
  <2>1. RestBlank(d)
    BY <1>1 DEF Clean, RestBlank, OnlyAt
  <2>2. GapsBlank(d)
    <3> SUFFICES ASSUME NEW r \in 1..Lines, NEW c \in 1..Places-1, NEW y \in 0..15, NEW x \in 8..9
                 PROVE  Pixel(d, r, c, y, x) = Blank
      BY DEF GapsBlank
    <3>1. c \in 1..Places /\ c < Places /\ x \in 0..9 /\ ~(x < 8)
      BY <1>2
    <3>2. Pixel(d, r, c, y, x) = Pixel(s, r, c, y, x)
      BY <1>1, <3>1 DEF OnlyAt
    <3> QED BY <3>2 DEF Clean, GapsBlank
  <2> QED BY <1>1, <2>1, <2>2 DEF Clean
<1>4. ASSUME NEW r \in 1..Lines, NEW c \in 1..Places
      PROVE  SeenOn(d, r, c) = IF r = line /\ c = place THEN cell ELSE SeenOn(s, r, c)
  <2>1. CASE r = line /\ c = place
    <3>1. \A y \in 0..15, x \in 0..7 : Pixel(d, r, c, y, x) = cell
      BY <1>1, <2>1 DEF OnlyAt
    <3>2. c < Places => \A y \in 0..15, x \in 8..9 : Pixel(d, r, c, y, x) = Blank
      BY <1>2, <1>3 DEF Clean, GapsBlank
    <3>3. SeenOn(d, r, c) = cell
      BY <3>1, <3>2, SeenOne
    <3> QED BY <2>1, <3>3
  <2>2. CASE ~(r = line /\ c = place)
    <3>1. \A y \in 0..15, x \in 0..9 :
             x < 8 \/ c < Places => Pixel(d, r, c, y, x) = Pixel(s, r, c, y, x)
      BY <1>1, <2>2 DEF OnlyAt
    <3>2. SeenOn(d, r, c) = SeenOn(s, r, c)
      BY <3>1, SeenSame
    <3> QED BY <2>2, <3>2
  <2> QED BY <2>1, <2>2
<1>5. PageOf(d) = [PageOf(s) EXCEPT ![line][place] = cell]
  <2>1. PageOf(d) = [r \in 1..Lines |-> [c \in 1..Places |->
                        IF r = line /\ c = place THEN cell ELSE SeenOn(s, r, c)]]
    BY <1>4 DEF PageOf
  <2> QED BY <2>1 DEF PageOf
<1> QED BY <1>3, <1>5 DEF d

\* Scrolling moves each line to the one above it and leaves the last one blank.
LEMMA ScrolledClean ==
  ASSUME ColumnsFit, mode \in Modes, IsGraphics, NEW s, Clean(s)
  PROVE  LET t == VideoScroll(s)
         IN  /\ Clean(t)
             /\ PageOf(t) = [r \in 1..Lines |->
                   IF r < Lines THEN PageOf(s)[r+1] ELSE [c \in 1..Places |-> Blank]]
<1> DEFINE w == mode.width
           h == mode.height
           t == VideoScroll(s)
<1>1. /\ w \in Nat /\ h \in Nat /\ w >= 33 /\ h >= 83 /\ Lines \in Nat /\ Lines >= 1 /\ Places \in Nat
      /\ 16 * Lines <= h - 67 /\ h - 67 < 16 * Lines + 16 /\ 10 * Places <= w - 13
  BY Grid
<1>2. 10 * Places + 8 <= w - 7
  BY LastPlaceScrolled
<1>3. t = [r \in 0..h-1 |-> [c \in 0..w-1 |->
             IF r \in 49..h-18 /\ c \in 11..w-7
             THEN IF r >= h - 33 THEN Blank ELSE s[r+16][c] ELSE s[r][c]]]
  <2>1. h-17-1 = h-18 /\ h-17-16 = h-33 /\ w-1-5-1 = w-7
    BY <1>1
  <2>2. CursorStartY..CursorLimitY-1 = 49..h-18 /\ Scrolled = 11..w-7
        /\ CursorLimitY - FontHeight = h - 33
    BY <2>1, Layout DEF Scrolled
  <2>3. /\ DOMAIN s = 0..h-1 /\ \A r \in 0..h-1 : DOMAIN s[r] = 0..w-1
    BY DEF Clean, Sized
  <2>4. t = [r \in DOMAIN s |-> [c \in DOMAIN s[r] |->
               IF r \in 49..h-18 /\ c \in 11..w-7
               THEN IF r >= h - 33 THEN Blank ELSE s[r+16][c] ELSE s[r][c]]]
    BY <2>2 DEF VideoScroll, FontHeight
  <2> QED BY <2>3, <2>4
<1> HIDE DEF t
<1>4. Sized(t)
  BY <1>3 DEF Sized
<1>5. \A r \in 49..h-18, c \in 11..w-7 : t[r][c] = IF r >= h - 33 THEN Blank ELSE s[r+16][c]
  <2>1. 49..h-18 \subseteq 0..h-1 /\ 11..w-7 \subseteq 0..w-1
    BY <1>1
  <2> QED BY <1>3, <2>1
<1>6. RestBlank(t)
  <2> SUFFICES ASSUME NEW r \in 49+16*Lines..h-18, NEW c \in 11..w-7 PROVE t[r][c] = Blank
    BY DEF RestBlank
  <2>1. r \in 49..h-18 /\ r >= h - 33
    BY <1>1
  <2> QED BY <1>5, <2>1
<1>7. ASSUME NEW r \in 1..Lines, NEW c \in 1..Places, NEW y \in 0..15, NEW x \in 0..9,
             x < 8 \/ c < Places
      PROVE  Pixel(t, r, c, y, x) = IF r < Lines THEN Pixel(s, r+1, c, y, x) ELSE Blank
  <2> DEFINE a == 49 + (r-1) * 16 + y
             b == 11 + (c-1) * 10 + x
  <2>1. a \in 49..h-18 /\ b \in 11..w-7
    BY <1>1, <1>2, <1>7
  <2>2. CASE r < Lines
    <3>1. ~(a >= h - 33) /\ a + 16 = 49 + ((r+1)-1) * 16 + y
      BY <1>1, <2>2
    <3> HIDE DEF a, b
    <3>2. t[a][b] = s[a+16][b]
      BY <1>5, <2>1, <3>1
    <3> QED BY <2>2, <3>1, <3>2 DEF Pixel, a, b
  <2>3. CASE ~(r < Lines)
    <3>1. r = Lines
      BY <2>3, <1>1
    <3>2. a + 16 >= 49 + 16 * Lines
      BY <3>1, <1>1
    <3>3. ~(a >= h - 33) => a + 16 \in 49+16*Lines..h-18
      BY <1>1, <2>1, <3>2
    <3> HIDE DEF a, b
    <3>4. ~(a >= h - 33) => s[a+16][b] = Blank
      BY <2>1, <3>3 DEF Clean, RestBlank
    <3>5. t[a][b] = Blank
      BY <1>5, <2>1, <3>4
    <3> QED BY <2>3, <3>5 DEF Pixel, a, b
  <2> QED BY <2>2, <2>3
<1>8. GapsBlank(t)
  <2> SUFFICES ASSUME NEW r \in 1..Lines, NEW c \in 1..Places-1, NEW y \in 0..15, NEW x \in 8..9
               PROVE  Pixel(t, r, c, y, x) = Blank
    BY DEF GapsBlank
  <2>1. c \in 1..Places /\ c < Places /\ x \in 0..9 /\ (r < Lines => r + 1 \in 1..Lines)
    BY <1>1
  <2>2. r < Lines => Pixel(s, r+1, c, y, x) = Blank
    BY <2>1 DEF Clean, GapsBlank
  <2> QED BY <1>7, <2>1, <2>2
<1>9. ASSUME NEW r \in 1..Lines, NEW c \in 1..Places
      PROVE  SeenOn(t, r, c) = IF r < Lines THEN SeenOn(s, r+1, c) ELSE Blank
  <2>1. CASE r < Lines
    <3>1. r + 1 \in Int
      OBVIOUS
    <3>2. \A y \in 0..15, x \in 0..9 :
             x < 8 \/ c < Places => Pixel(t, r, c, y, x) = Pixel(s, r+1, c, y, x)
      BY <1>7, <2>1
    <3>3. SeenOn(t, r, c) = SeenOn(s, r+1, c)
      BY <3>1, <3>2, SeenSame
    <3> QED BY <2>1, <3>3
  <2>2. CASE ~(r < Lines)
    <3>1. \A y \in 0..15, x \in 0..7 : Pixel(t, r, c, y, x) = Blank
      BY <1>7, <2>2
    <3>2. c < Places => \A y \in 0..15, x \in 8..9 : Pixel(t, r, c, y, x) = Blank
      BY <1>7, <2>2
    <3>3. SeenOn(t, r, c) = Blank
      BY <3>1, <3>2, SeenOne
    <3> QED BY <2>2, <3>3
  <2> QED BY <2>1, <2>2
<1>10. PageOf(t) = [r \in 1..Lines |->
          IF r < Lines THEN PageOf(s)[r+1] ELSE [c \in 1..Places |-> Blank]]
  <2>1. \A r \in 1..Lines : r < Lines => PageOf(s)[r+1] = [c \in 1..Places |-> SeenOn(s, r+1, c)]
    BY <1>1 DEF PageOf
  <2>2. \A r \in 1..Lines : [c \in 1..Places |-> SeenOn(t, r, c)] =
           IF r < Lines THEN [c \in 1..Places |-> SeenOn(s, r+1, c)] ELSE [c \in 1..Places |-> Blank]
    BY <1>9
  <2> QED BY <2>1, <2>2 DEF PageOf
<1> QED BY <1>4, <1>6, <1>8, <1>10 DEF Clean, t
---------------------------------------------------------------------------
(* The refinement: each step is one of the page, or changes nothing of it  *)

Inks == {"default", "information", "debug", "error"}
Kinds == {"none", "raw", "information", "debug", "fatal"}
PageCells == {Cell(ch, ink, of) : ch \in Glyphs, ink \in Inks, of \in Kinds}

\* A cursor is at a place of a line.
PlaceOf(x, y, line, place) == x = 11 + (place-1) * 10 /\ y = 49 + (line-1) * 16
AtPlace(line, place) == PlaceOf(CursorX, CursorY, line, place)

PageInv ==
    /\ mode \in Modes
    /\ output \in Seq(Glyphs \cup {"nl", "cr"})
    /\ IsGraphics => /\ \E line \in 1..Lines, place \in 1..Places : AtPlace(line, place)
                     /\ Clean(screen)
                     /\ FgColor \in Inks /\ logging \in Kinds

LEMMA InitPage == Init => PageInv
<1> SUFFICES ASSUME Init PROVE PageInv
  OBVIOUS
<1>1. /\ mode \in Modes /\ screen = VideoDrawBootTerminal(mode)
      /\ CursorX = CursorStartX /\ CursorY = CursorStartY
      /\ FgColor = (IF IsGraphics THEN "default" ELSE "text")
      /\ output = Welcome /\ logging = "none"
  BY DEF Init
<1>2. output \in Seq(Glyphs \cup {"nl", "cr"})
  BY <1>1, Strings
<1>3. ASSUME IsGraphics
      PROVE  /\ \E line \in 1..Lines, place \in 1..Places : AtPlace(line, place)
             /\ Clean(screen) /\ FgColor \in Inks /\ logging \in Kinds
  <2> DEFINE w == mode.width
             h == mode.height
  <2>1. /\ w \in Nat /\ h \in Nat /\ w >= 33 /\ h >= 83
        /\ Lines \in Nat /\ Lines >= 1 /\ 16 * Lines <= h - 67
        /\ Places \in Nat /\ Places >= 2 /\ 10 * Places <= w - 13
    BY <1>1, <1>3, Grid
  <2>2. AtPlace(1, 1) /\ 1 \in 1..Lines /\ 1 \in 1..Places
    BY <1>1, <1>3, <2>1, Layout DEF AtPlace, PlaceOf
  <2>3. /\ screen \in ScreenOf(BootCells)
        /\ \A r \in 0..h-1, c \in 0..w-1 : ~OnFrame(c, r) => screen[r][c] = Blank
    BY <1>1, <1>3, BootScreen
  <2>4. Sized(screen)
    BY <2>3 DEF ScreenOf, Sized
  <2>5. \A r \in 49..h-18, c \in 11..w-7 : screen[r][c] = Blank
    <3> SUFFICES ASSUME NEW r \in 49..h-18, NEW c \in 11..w-7 PROVE screen[r][c] = Blank
      OBVIOUS
    <3>1. r \in 0..h-1 /\ c \in 0..w-1 /\ ~(r < 48 \/ r >= h-5 \/ c < 5 \/ c >= w-5)
      BY <2>1
    <3>2. ~OnFrame(c, r)
      BY <1>1, <1>3, <3>1, Layout DEF OnFrame
    <3> QED BY <2>3, <3>1, <3>2
  <2>6. GapsBlank(screen)
    <3> SUFFICES ASSUME NEW r \in 1..Lines, NEW c \in 1..Places-1, NEW y \in 0..15, NEW x \in 8..9
                 PROVE  Pixel(screen, r, c, y, x) = Blank
      BY DEF GapsBlank
    <3> DEFINE a == 49 + (r-1) * 16 + y
               b == 11 + (c-1) * 10 + x
    <3>1. a \in 49..h-18 /\ b \in 11..w-7
      BY <2>1
    <3> HIDE DEF a, b
    <3>2. screen[a][b] = Blank
      BY <2>5, <3>1
    <3> QED BY <3>2 DEF Pixel, a, b
  <2>7. RestBlank(screen)
    <3>1. 49+16*Lines..h-18 \subseteq 49..h-18
      BY <2>1
    <3> QED BY <2>5, <3>1 DEF RestBlank
  <2> QED BY <1>1, <1>3, <2>2, <2>4, <2>6, <2>7 DEF Clean, Inks, Kinds
<1> QED BY <1>1, <1>2, <1>3 DEF PageInv

\* At boot every place is blank, those that the frame or the title would cover too.
LEMMA BlankPage ==
  ASSUME Init, IsGraphics
  PROVE  PageOf(screen) = [r \in 1..Lines |-> [c \in 1..Places |-> Blank]]
<1>1. /\ mode \in Modes /\ screen = VideoDrawBootTerminal(mode)
  BY DEF Init
<1> DEFINE w == mode.width
           h == mode.height
<1>2. /\ w \in Nat /\ h \in Nat /\ w >= 33 /\ h >= 83
      /\ Lines \in Nat /\ Lines >= 1 /\ 16 * Lines <= h - 67
      /\ Places \in Nat /\ Places >= 2 /\ 10 * Places <= w - 13
  BY <1>1, Grid
<1>3. /\ screen \in ScreenOf(BootCells)
      /\ \A r \in 0..h-1, c \in 0..w-1 : ~OnFrame(c, r) => screen[r][c] = Blank
  BY <1>1, BootScreen
<1>4. ASSUME NEW r \in 1..Lines, NEW c \in 1..Places PROVE SeenOn(screen, r, c) = Blank
  <2>1. ASSUME NEW y \in 0..15, NEW x \in 0..9, x < 8 \/ c < Places
        PROVE  Pixel(screen, r, c, y, x) = Blank
    <3> DEFINE a == 49 + (r-1) * 16 + y
               b == 11 + (c-1) * 10 + x
    <3>1. a \in 0..h-1 /\ b \in 0..w-1 /\ ~(a < 48 \/ a >= h-5 \/ b < 5 \/ b >= w-5)
      <4>1. a \in 49..h-18 /\ b \in 11..10*Places+8
        BY <1>2, <2>1
      <4>2. w # 10 * Places + 13
        <5>1. (10 * Places + 13) % 10 = 3
          BY <1>2
        <5> QED BY <5>1, <1>1, ModeSizes
      <4> HIDE DEF a, b
      <4> QED BY <1>2, <4>1, <4>2
    <3> HIDE DEF a, b
    <3>2. ~OnFrame(b, a)
      BY <1>1, <3>1, Layout DEF OnFrame
    <3>3. screen[a][b] = Blank
      BY <1>3, <3>1, <3>2
    <3> QED BY <3>3 DEF Pixel, a, b
  <2>2. \A y \in 0..15, x \in 0..7 : Pixel(screen, r, c, y, x) = Blank
    BY <2>1
  <2>3. c < Places => \A y \in 0..15, x \in 8..9 : Pixel(screen, r, c, y, x) = Blank
    BY <2>1
  <2> QED BY <1>1, <2>2, <2>3, SeenOne
<1> QED BY <1>4 DEF PageOf

\* Printing a character in a graphics mode, line and place given.
LineAfter(line) == IF line < Lines THEN line + 1 ELSE line
PageAfter(p, line) ==
    IF line < Lines THEN p
    ELSE [r \in 1..Lines |-> IF r < Lines THEN p[r+1] ELSE [c \in 1..Places |-> Blank]]

PageStep(ch, line, place, cell, page, next) ==
    LET written == [page EXCEPT ![line][place] = cell]
        At(l, p) == PlaceOf(CursorX', CursorY', l, p)
    IN  \/ ch = "cr" /\ At(line, 1) /\ next = page
        \/ ch = "nl" /\ At(LineAfter(line), 1) /\ next = PageAfter(page, line)
        \/ ch \notin {"nl", "cr"} /\ place < Places /\ At(line, place + 1) /\ next = written
        \/ /\ ch \notin {"nl", "cr"} /\ place = Places
           /\ At(LineAfter(line), 1) /\ next = PageAfter(written, line)

LEMMA Printed ==
  ASSUME ColumnsFit, PageInv, IsGraphics, NEW ch, VesaPutCharacter(ch), mode' = mode,
         NEW line \in 1..Lines, NEW place \in 1..Places, AtPlace(line, place)
  PROVE  /\ Clean(screen')
         /\ PageStep(ch, line, place, Cell(ch, FgColor, logging), PageOf(screen), PageOf(screen'))
<1> DEFINE w == mode.width
           h == mode.height
           cell == Cell(ch, FgColor, logging)
           page == PageOf(screen)
           next == PageOf(screen')
           written == [page EXCEPT ![line][place] = cell]
           x == IF ch \in {"nl", "cr"} THEN 11 ELSE CursorX + 10
           wraps == x + 10 >= w - 1
           y == CursorY + (IF ch = "nl" THEN 16 ELSE 0) + (IF wraps THEN 16 ELSE 0)
           scrolls == y + 16 >= h - 17
           d == DrawnAt(screen, line, place, cell)
           drawn == IF ch \in {"nl", "cr"} THEN screen ELSE d
<1>1. mode \in Modes /\ Clean(screen)
  BY DEF PageInv
<1>2. /\ w \in Nat /\ h \in Nat /\ w >= 33 /\ h >= 83 /\ Lines \in Nat /\ Lines >= 1
      /\ 16 * Lines <= h - 67 /\ h - 67 < 16 * Lines + 16
      /\ Places \in Nat /\ 10 * Places <= w - 13 /\ w - 13 < 10 * Places + 10
  BY <1>1, Grid
<1>3. CursorX = 11 + (place-1) * 10 /\ CursorY = 49 + (line-1) * 16
  BY DEF AtPlace, PlaceOf
<1>4. d = VesaDrawCharacter(screen, CursorX, CursorY, cell)
  BY <1>3 DEF DrawnAt
<1>5. Clean(d) /\ PageOf(d) = written
  BY <1>1, DrawnClean
<1>6. /\ CursorX' = (IF wraps THEN 11 ELSE x)
      /\ CursorY' = (IF scrolls THEN y - 16 ELSE y)
      /\ screen' = (IF scrolls THEN VideoScroll(drawn) ELSE drawn)
  <2>1. NextX(ch) = x
    BY <1>1, Layout DEF NextX
  <2>2. Wraps(x) = wraps
    BY <1>1, Layout DEF Wraps
  <2> HIDE DEF d, cell
  <2> QED BY <1>1, <1>4, <2>1, <2>2, Layout DEF VesaPutCharacter, cell
<1> HIDE DEF d, cell, page, written, next
<1>7. ch \in {"nl", "cr"} => ~wraps
  BY <1>2
<1>8. ch \notin {"nl", "cr"} => (wraps <=> place = Places)
  BY <1>2, <1>3
<1>9. y = CursorY => ~scrolls
  BY <1>2, <1>3
<1>10. y = CursorY + 16 => (scrolls <=> ~(line < Lines))
  BY <1>2, <1>3
<1>11. /\ Clean(drawn)
       /\ Clean(VideoScroll(drawn))
       /\ PageOf(VideoScroll(drawn)) =
             [r \in 1..Lines |-> IF r < Lines THEN PageOf(drawn)[r+1] ELSE [c \in 1..Places |-> Blank]]
  <2>1. Clean(drawn)
    BY <1>1, <1>5
  <2> HIDE DEF drawn
  <2> QED BY <1>1, <2>1, ScrolledClean
<1> HIDE DEF x, wraps, scrolls, y, drawn
<1>12. Clean(screen')
  BY <1>6, <1>11
<1> DEFINE Goal == PageStep(ch, line, place, cell, page, next)
<1>13. ASSUME ch = "cr" PROVE Goal
  <2>1. drawn = screen /\ x = 11 /\ ~wraps /\ y = CursorY
    BY <1>13, <1>3, <1>7 DEF drawn, x, y
  <2>2. screen' = screen /\ CursorX' = 11 /\ CursorY' = CursorY
    BY <1>6, <1>9, <2>1
  <2>3. PlaceOf(CursorX', CursorY', line, 1)
    BY <1>3, <2>2 DEF PlaceOf
  <2>4. next = page
    BY <2>2 DEF next, page
  <2> QED BY <1>13, <2>3, <2>4 DEF PageStep
<1>14. ASSUME ch = "nl" PROVE Goal
  <2>1. drawn = screen /\ x = 11 /\ ~wraps /\ y = CursorY + 16
    BY <1>14, <1>3, <1>7 DEF drawn, x, y
  <2>2. CursorX' = 11 /\ CursorY' = IF line < Lines THEN CursorY + 16 ELSE CursorY
    BY <1>3, <1>6, <1>10, <2>1
  <2>3. PlaceOf(CursorX', CursorY', LineAfter(line), 1)
    BY <1>2, <1>3, <2>2 DEF PlaceOf, LineAfter
  <2>4. next = PageAfter(page, line)
    BY <1>6, <1>10, <1>11, <2>1 DEF PageAfter, page, next
  <2> QED BY <1>14, <2>3, <2>4 DEF PageStep
<1>15. ASSUME ch \notin {"nl", "cr"}, place < Places PROVE Goal
  <2>1. drawn = d /\ x = CursorX + 10 /\ ~wraps /\ y = CursorY
    BY <1>15, <1>2, <1>3, <1>8 DEF drawn, x, y
  <2>2. screen' = d /\ CursorX' = CursorX + 10 /\ CursorY' = CursorY
    BY <1>6, <1>9, <2>1
  <2>3. PlaceOf(CursorX', CursorY', line, place + 1)
    BY <1>3, <2>2 DEF PlaceOf
  <2>4. next = written
    BY <1>5, <2>2 DEF next
  <2> QED BY <1>15, <2>3, <2>4 DEF PageStep, written
<1>16. ASSUME ch \notin {"nl", "cr"}, place = Places PROVE Goal
  <2>1. drawn = d /\ wraps /\ y = CursorY + 16
    BY <1>16, <1>2, <1>3, <1>8 DEF drawn, x, y
  <2>2. CursorX' = 11 /\ CursorY' = IF line < Lines THEN CursorY + 16 ELSE CursorY
    BY <1>3, <1>6, <1>10, <2>1
  <2>3. PlaceOf(CursorX', CursorY', LineAfter(line), 1)
    BY <1>2, <1>3, <2>2 DEF PlaceOf, LineAfter
  <2>4. next = PageAfter(written, line)
    BY <1>5, <1>6, <1>10, <1>11, <2>1 DEF PageAfter, next
  <2> QED BY <1>16, <2>3, <2>4 DEF PageStep, written
<1>17. place < Places \/ place = Places
  BY <1>2
<1>18. Goal
  <2> HIDE DEF Goal
  <2> QED BY <1>13, <1>14, <1>15, <1>16, <1>17
<1> QED BY <1>12, <1>18 DEF cell, page, next
---------------------------------------------------------------------------
\* The page follows the mode, which no step changes.
LEMMA SamePage ==
  ASSUME mode' = mode
  PROVE  /\ Lines' = Lines /\ Places' = Places
         /\ Clean(screen)' <=> Clean(screen')
         /\ PageOf(screen)' = PageOf(screen')
<1>1. /\ CursorStartX' = CursorStartX /\ CursorStartY' = CursorStartY
      /\ CursorLimitX' = CursorLimitX /\ CursorLimitY' = CursorLimitY
  BY SameMode
<1>2. Lines' = Lines /\ Places' = Places
  BY <1>1 DEF Lines, Places
<1>3. Clean(screen)' <=> Clean(screen')
  BY <1>2 DEF Clean, Sized, GapsBlank, RestBlank, Pixel
<1>4. PageOf(screen)' = PageOf(screen')
  BY <1>1, <1>2 DEF PageOf, SeenOn, PlaceX, PlaceY
<1> QED BY <1>2, <1>3, <1>4

\* The next place is a place.
LEMMA PlaceKept ==
  ASSUME PageInv, IsGraphics, NEW ch, NEW line \in 1..Lines, NEW place \in 1..Places,
         NEW cell, NEW page, NEW next, PageStep(ch, line, place, cell, page, next)
  PROVE  \E l \in 1..Lines, p \in 1..Places : PlaceOf(CursorX', CursorY', l, p)
<1>1. Lines \in Nat /\ Lines >= 1 /\ Places \in Nat /\ Places >= 2
  BY Grid DEF PageInv
<1>2. LineAfter(line) \in 1..Lines /\ 1 \in 1..Places /\ (place < Places => place + 1 \in 1..Places)
  BY <1>1 DEF LineAfter
<1> QED BY <1>2 DEF PageStep

LEMMA NextPage == ColumnsFit /\ PageInv /\ [Next]_vars => PageInv'
<1> SUFFICES ASSUME ColumnsFit, PageInv, [Next]_vars PROVE PageInv'
  OBVIOUS
<1> DEFINE Text == Seq(Glyphs \cup {"nl", "cr"})
<1>0. mode \in Modes /\ output \in Text
  BY DEF PageInv
<1>1. CASE VideoDrawString
  <2>1. /\ mode' = mode /\ FgColor' = FgColor /\ logging' = logging
        /\ output # <<>> /\ output' = Tail(output)
    BY <1>1 DEF VideoDrawString
  <2>2. output' \in Text
    BY <1>0, <2>1
  <2>3. ASSUME IsGraphics
        PROVE  /\ \E l \in 1..Lines, p \in 1..Places : PlaceOf(CursorX', CursorY', l, p)
               /\ Clean(screen') /\ FgColor' \in Inks /\ logging' \in Kinds
    <3>1. PICK line \in 1..Lines, place \in 1..Places : AtPlace(line, place)
      BY <2>3 DEF PageInv
    <3>2. VesaPutCharacter(Head(output))
      BY <1>1, <2>3 DEF VideoDrawString
    <3>3. /\ Clean(screen')
          /\ PageStep(Head(output), line, place, Cell(Head(output), FgColor, logging),
                      PageOf(screen), PageOf(screen'))
      BY <2>1, <2>3, <3>1, <3>2, Printed
    <3>4. \E l \in 1..Lines, p \in 1..Places : PlaceOf(CursorX', CursorY', l, p)
      BY <2>3, <3>3, PlaceKept
    <3> QED BY <2>1, <2>3, <3>3, <3>4 DEF PageInv
  <2> QED BY <1>0, <2>1, <2>2, <2>3, SameMode, SamePage DEF PageInv, AtPlace
<1>2. ASSUME UNCHANGED <<mode, screen, CursorX, CursorY>>, output' \in Text,
             FgColor' = FgColor \/ FgColor' \in Inks, logging' = logging \/ logging' \in Kinds
      PROVE  PageInv'
  <2>1. mode' = mode /\ screen' = screen /\ CursorX' = CursorX /\ CursorY' = CursorY
    BY <1>2
  <2> QED BY <1>2, <2>1, SameMode, SamePage DEF PageInv, AtPlace
<1>3. CASE LogReturns
  <2>1. FgColor' \in Inks /\ logging' \in Kinds /\ output' = output
        /\ UNCHANGED <<mode, screen, CursorX, CursorY>>
    BY <1>3 DEF LogReturns, Inks, Kinds
  <2> QED BY <1>0, <1>2, <2>1
<1>4. ASSUME NEW type \in Kinds, NEW header \in Text, NEW message \in Text,
             LogInternalPrint(type, header, message)
      PROVE  PageInv'
  <2>1. /\ output' = header \o message \o <<"nl">> /\ logging' = type
        /\ FgColor' = (IF type = "raw" THEN FgColor ELSE Ink(type))
        /\ UNCHANGED <<mode, screen, CursorX, CursorY>>
    BY <1>4 DEF LogInternalPrint
  <2>2. Ink(type) \in Inks
    BY DEF Ink, Inks
  <2>3. output' \in Text
    BY <2>1
  <2> QED BY <1>2, <2>1, <2>2, <2>3
<1>5. ASSUME NEW message \in Messages,
             Log(message) \/ LogRaw(message) \/ LogDebug(message)
             \/ LogFatal(message) \/ LogInformation(message)
      PROVE  PageInv'
  <2>1. message \in Text /\ Header \in Text /\ <<>> \in Text /\ message \o <<"nl">> \in Text
    <3>1. message \in Text /\ Header \in Text
      BY Strings
    <3> QED BY <3>1
  <2>2. {"raw", "debug", "fatal", "information"} \subseteq Kinds
    BY DEF Kinds
  <2> QED BY <1>4, <1>5, <2>1, <2>2 DEF Log, LogRaw, LogDebug, LogFatal, LogInformation
<1>6. CASE UNCHANGED vars
  BY <1>0, <1>2, <1>6 DEF vars
<1> QED BY <1>1, <1>3, <1>5, <1>6 DEF Next

---------------------------------------------------------------------------
\* The page that is shown, in terms of the line and the place of the cursor.
LEMMA ShownIs ==
  ASSUME IsGraphics, mode \in Modes, NEW line \in Int, NEW place \in Int, AtPlace(line, place)
  PROVE  ShownPage = PageOf(screen) /\ ShownRow = line /\ ShownColumn = place
<1>1. (CursorY - 49) \div 16 + 1 = line /\ (CursorX - 11) \div 10 + 1 = place
  BY DEF AtPlace, PlaceOf
<1> QED BY <1>1, Layout DEF ShownPage, ShownRow, ShownColumn

LEMMA ShownNext ==
  ASSUME IsGraphics, mode \in Modes, mode' = mode,
         NEW line \in Int, NEW place \in Int, PlaceOf(CursorX', CursorY', line, place)
  PROVE  ShownPage' = PageOf(screen') /\ ShownRow' = line /\ ShownColumn' = place
<1>1. (CursorY' - 49) \div 16 + 1 = line /\ (CursorX' - 11) \div 10 + 1 = place
  BY DEF PlaceOf
<1> QED BY <1>1, Layout, SameMode, SamePage DEF ShownPage, ShownRow, ShownColumn

LEMMA InitShown == Init => Shown!Init
<1> SUFFICES ASSUME Init PROVE Shown!Init
  OBVIOUS
<1>1. CASE IsGraphics
  <2>1. mode \in Modes
    BY DEF Init
  <2>2. Lines \in Nat /\ Lines >= 1 /\ Places \in Nat /\ Places >= 2
    BY <1>1, <2>1, Grid
  <2>3. AtPlace(1, 1)
    BY <1>1, <2>1, Layout DEF Init, AtPlace, PlaceOf
  <2>4. ShownPage = PageOf(screen) /\ ShownRow = 1 /\ ShownColumn = 1
    BY <1>1, <2>1, <2>3, ShownIs
  <2> DEFINE line == [c \in 1..Places |-> Blank]
             page == [r \in 1..Lines |-> line]
  <2>5. ShownPage = page
    BY <1>1, <2>4, BlankPage
  <2>6. line \in Seq({Blank}) /\ line # <<>> /\ Len(line) = Places
    BY <2>2
  <2> HIDE DEF line
  <2>7. page \in Seq(Seq({Blank})) /\ page # <<>>
    BY <2>2, <2>6
  <2>8. \A r \in DOMAIN page : page[r] = line
    OBVIOUS
  <2>9. page[1] = line
    BY <2>2
  <2> QED BY <2>4, <2>5, <2>6, <2>7, <2>8, <2>9 DEF Shown!Init, Shown!Columns
<1>2. CASE ~IsGraphics
  <2>1. ShownPage = <<<<Blank>>>> /\ ShownRow = 1 /\ ShownColumn = 1
    BY <1>2 DEF ShownPage, ShownRow, ShownColumn
  <2> QED BY <2>1 DEF Shown!Init, Shown!Columns
<1> QED BY <1>1, <1>2

ShownVars == <<ShownPage, ShownRow, ShownColumn>>

\* A step that prints is a step of the page.
LEMMA PrintShown ==
  ASSUME ColumnsFit, PageInv, IsGraphics, VideoDrawString
  PROVE  Shown!Next
<1> DEFINE ch == Head(output)
           cell == Cell(ch, FgColor, logging)
           page == PageOf(screen)
           next == PageOf(screen')
<1>1. mode \in Modes /\ mode' = mode /\ VesaPutCharacter(ch)
  BY DEF PageInv, VideoDrawString
<1>2. PICK line \in 1..Lines, place \in 1..Places : AtPlace(line, place)
  BY DEF PageInv
<1>3. PageStep(ch, line, place, cell, page, next)
  BY <1>1, <1>2, Printed
<1>4. Lines \in Nat /\ Lines >= 1 /\ Places \in Nat /\ Places >= 2
  BY <1>1, Grid
<1> DEFINE written == [page EXCEPT ![line][place] = cell]
<1>5. /\ page \in [1..Lines -> [1..Places -> {page[r][c] : r \in 1..Lines, c \in 1..Places}]]
  BY DEF PageOf
<1>6. /\ ShownPage = page /\ ShownRow = line /\ ShownColumn = place
  BY <1>1, <1>2, ShownIs
<1>7. /\ DOMAIN page = 1..Lines /\ Len(page) = Lines /\ Len(page[1]) = Places
      /\ DOMAIN written = 1..Lines /\ Len(written) = Lines
  <2>1. DOMAIN page = 1..Lines /\ Len(page) = Lines
    BY <1>4 DEF PageOf
  <2>2. page[1] = [c \in 1..Places |-> SeenOn(screen, 1, c)]
    BY <1>4 DEF PageOf
  <2>3. Len(page[1]) = Places
    BY <1>4, <2>2
  <2> HIDE DEF page
  <2>4. DOMAIN written = 1..Lines /\ Len(written) = Lines
    BY <1>4, <2>1
  <2> QED BY <2>1, <2>3, <2>4
<1> HIDE DEF page, next, cell, written
<1>8. ch \notin {"nl", "cr"} => ch \in Glyphs
  <2>1. output \in Seq(Glyphs \cup {"nl", "cr"}) /\ output # <<>>
    BY DEF PageInv, VideoDrawString
  <2> QED BY <2>1
<1>9. cell \in PageCells \/ ch \in {"nl", "cr"}
  BY <1>8 DEF PageCells, PageInv, cell
<1>10. /\ Shown!Columns = Places
       /\ Shown!EmptyLine = [c \in 1..Places |-> Blank]
       /\ Shown!Moved(page) = PageAfter(page, line)
       /\ Shown!Moved(written) = PageAfter(written, line)
       /\ Shown!Written(cell) = written
  <2>1. Shown!Columns = Places
    BY <1>6, <1>7 DEF Shown!Columns
  <2>2. Shown!EmptyLine = [c \in 1..Places |-> Blank]
    BY <2>1 DEF Shown!EmptyLine
  <2>3. \A p : DOMAIN p = 1..Lines /\ Len(p) = Lines => Shown!Moved(p) = PageAfter(p, line)
    BY <1>6, <2>2 DEF Shown!Moved, PageAfter
  <2> QED BY <1>6, <1>7, <2>1, <2>2, <2>3 DEF Shown!Written, written
<1>11. \A l, p \in Int : PlaceOf(CursorX', CursorY', l, p)
                            => ShownPage' = next /\ ShownRow' = l /\ ShownColumn' = p
  BY <1>1, ShownNext DEF next
<1>12. LineAfter(line) \in Int /\ LineAfter(line) = IF line < Len(page) THEN line + 1 ELSE line
  BY <1>4, <1>7 DEF LineAfter
<1>13. CASE ch = "cr" /\ PlaceOf(CursorX', CursorY', line, 1) /\ next = page
  <2>1. Shown!Return
    BY <1>6, <1>11, <1>13 DEF Shown!Return
  <2> QED BY <2>1 DEF Shown!Next
<1>14. CASE ch = "nl" /\ PlaceOf(CursorX', CursorY', LineAfter(line), 1) /\ next = PageAfter(page, line)
  <2>1. Shown!LineFeed
    BY <1>6, <1>10, <1>11, <1>12, <1>14 DEF Shown!LineFeed, Shown!LineEnds
  <2> QED BY <2>1 DEF Shown!Next
<1>15. CASE /\ ch \notin {"nl", "cr"} /\ place < Places
            /\ PlaceOf(CursorX', CursorY', line, place + 1) /\ next = written
  <2>1. Shown!Write(cell)
    BY <1>6, <1>10, <1>11, <1>15 DEF Shown!Write
  <2> QED BY <1>9, <1>15, <2>1 DEF Shown!Next, PageCells, Inks, Kinds
<1>16. CASE /\ ch \notin {"nl", "cr"} /\ place = Places
            /\ PlaceOf(CursorX', CursorY', LineAfter(line), 1) /\ next = PageAfter(written, line)
  <2>1. Shown!Write(cell)
    BY <1>6, <1>10, <1>11, <1>12, <1>16 DEF Shown!Write, Shown!LineEnds
  <2> QED BY <1>9, <1>16, <2>1 DEF Shown!Next, PageCells, Inks, Kinds
<1> QED BY <1>3, <1>13, <1>14, <1>15, <1>16 DEF PageStep, written

LEMMA NextShown == ColumnsFit /\ PageInv /\ [Next]_vars => [Shown!Next]_ShownVars
<1> SUFFICES ASSUME ColumnsFit, PageInv, [Next]_vars PROVE [Shown!Next]_ShownVars
  OBVIOUS
<1>1. CASE UNCHANGED <<mode, screen, CursorX, CursorY>>
  <2>1. mode' = mode /\ screen' = screen /\ CursorX' = CursorX /\ CursorY' = CursorY
    BY <1>1
  <2>2. UNCHANGED ShownVars
    BY <2>1, SameMode, SamePage DEF ShownVars, ShownPage, ShownRow, ShownColumn
  <2> QED BY <2>2
<1>2. CASE VideoDrawString /\ IsGraphics
  BY <1>2, PrintShown
<1>3. CASE VideoDrawString /\ ~IsGraphics
  <2>1. mode' = mode
    BY <1>3 DEF VideoDrawString
  <2>2. UNCHANGED ShownVars
    BY <1>3, <2>1, SameMode DEF ShownVars, ShownPage, ShownRow, ShownColumn
  <2> QED BY <2>2
<1> QED BY <1>1, <1>2, <1>3, Steps

(***************************************************************************)
(* At every resolution whose columns fit, what is seen in the frame buffer *)
(* of a graphics mode is the page Page promises: a character goes to the   *)
(* cursor's place and to no other, and when the window scrolls each line   *)
(* moves up whole and the last one is blank (VesaPutCharacter,             *)
(* VesaDrawCharacter, VideoScroll).                                        *)
(***************************************************************************)
THEOREM TerminalImplementsPage == ColumnsFit => (Spec => ImplementsPage)
<1> SUFFICES ASSUME ColumnsFit PROVE Spec => ImplementsPage
  OBVIOUS
<1>1. Init => PageInv /\ Shown!Init
  BY InitPage, InitShown
<1>2. PageInv /\ [Next]_vars => PageInv'
  BY NextPage
<1>3. PageInv /\ [Next]_vars => [Shown!Next]_ShownVars
  BY NextShown
<1> QED BY <1>1, <1>2, <1>3, PTL DEF Spec, ImplementsPage, Shown!Spec, ShownVars
=============================================================================

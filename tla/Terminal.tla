------------------------------ MODULE Terminal ------------------------------
(***************************************************************************)
(* The boot terminal of the kernel (kernel/video: boot_terminal.c,         *)
(* video.c, vbe.c, vga.c) and the log that writes to it (kernel/log).      *)
(* The screen is what is in the frame buffer, pixel by pixel in a graphics *)
(* mode and cell by cell in a text mode: which glyph is there, in which    *)
(* ink.  The shapes of the glyphs are left out, a glyph fills its          *)
(* FontWidth x FontHeight pixels.  What a log call formats is one of       *)
(* Messages.                                                               *)
(***************************************************************************)
EXTENDS Integers, Sequences

CONSTANTS
    Modes,      \* the modes the boot loader may set: [type, width, height]
    Title, Welcome, Header, \* strings: the title, the greeting, a log's system
    Messages,   \* strings that are logged
    Glyphs,     \* characters of the font, without those that only move
    MaxLogs     \* bound: calls of the log

FontWidth == 8
FontHeight == 16
Advance == FontWidth + 2
headerHeight == 48      \* of the frame in a graphics mode, and its border
borderWidth == 5

\* What the modes have to be for the window to have two columns and one line,
\* and for no column of glyphs to reach into the right border.
ASSUME TerminalModes ==
    \A m \in Modes :
        /\ m.type \in {"graphics", "text"} /\ m.width \in Nat /\ m.height \in Nat
        /\ m.type = "graphics" => m.width >= 33 /\ m.height >= 83 /\ m.width % 10 # 3
        /\ m.type = "text" => m.width >= 8 /\ m.height >= 5

ASSUME Strings ==
    /\ {Title, Welcome, Header} \subseteq Seq(Glyphs \cup {"nl", "cr"})
    /\ Messages \subseteq Seq(Glyphs \cup {"nl", "cr"}) /\ MaxLogs \in Nat

VARIABLES
    mode,               \* the terminal's Type and Info
    screen,             \* row -> column -> what is there
    CursorX, CursorY,
    FgColor,
    output,             \* what VideoDrawString still has to print
    logging,            \* the kind of log that prints it
    logs                \* calls of the log so far

vars == <<mode, screen, CursorX, CursorY, FgColor, output, logging, logs>>

\* The window VideoDrawBootTerminal leaves inside the frame.
IsGraphics == mode.type = "graphics"
CursorStartX == IF IsGraphics THEN 11 ELSE 3
CursorStartY == IF IsGraphics THEN 49 ELSE 3
CursorLimitX == mode.width - 1
CursorLimitY == mode.height - IF IsGraphics THEN 17 ELSE 2

\* What may be at a place of the screen: a glyph, its ink, and what it is part
\* of, which only the properties look at.
Cell(ch, fg, of) == [ch |-> ch, fg |-> fg, of |-> of]
Blank == Cell("blank", "none", "none")
Border == Cell("border", "none", "none")

---------------------------------------------------------------------------
Abs(n) == IF n < 0 THEN -n ELSE n

\* VideoDrawLine: the pixels of Bresenham's loop, dx columns and dy rows far, which
\* ends at the end point.
LinePath(x0, y0, dx, dy, sx, sy) ==
    LET Step == [p \in [x : Int, y : Int, err : Int] |->
                    [x |-> IF p.err > -dx THEN p.x + sx ELSE p.x,
                     y |-> IF p.err < dy THEN p.y + sy ELSE p.y,
                     err |-> p.err - (IF p.err > -dx THEN dy ELSE 0)
                                   + (IF p.err < dy THEN dx ELSE 0)]]
        err == IF dx > dy THEN dx \div 2 ELSE -(dy \div 2)
        at[n \in 0..dx+dy] == IF n = 0 THEN [x |-> x0, y |-> y0, err |-> err]
                              ELSE Step[at[n - 1]]
    IN at

VideoDrawLine(x0, y0, x1, y1) ==
    LET path == LinePath(x0, y0, Abs(x1 - x0), Abs(y1 - y0),
                         IF x0 < x1 THEN 1 ELSE -1, IF y0 < y1 THEN 1 ELSE -1)
        Ends(n) == path[n].x = x1 /\ path[n].y = y1
        last == CHOOSE n \in DOMAIN path : Ends(n) /\ \A k \in 0..n-1 : ~Ends(k) IN
    {<<path[n].x, path[n].y>> : n \in 0..last}

\* VesaDrawCharacter
VesaDrawCharacter(s, x, y, cell) ==
    [r \in DOMAIN s |-> [c \in DOMAIN s[r] |->
        IF r \in y..y+FontHeight-1 /\ c \in x..x+FontWidth-1 THEN cell ELSE s[r][c]]]

TextDrawCharacter(s, x, y, cell) == [s EXCEPT ![y][x] = cell]

\* VideoDrawBootTerminal: the header, the borders, then the title over them.
Frame(m) ==
    LET w == m.width  h == m.height
        header == IF m.type = "graphics" THEN headerHeight ELSE 2
        border == IF m.type = "graphics" THEN borderWidth ELSE 1 IN
    UNION ({VideoDrawLine(0, i, w-1, i) : i \in 0..header-1}
           \cup {VideoDrawLine(i, 0, i, h-1) : i \in 0..border-1}
           \cup {VideoDrawLine(w-1-i, 0, w-1-i, h-1) : i \in 0..border-1}
           \cup {VideoDrawLine(0, h-1-i, w-1, h-1-i) : i \in 0..border-1})

Titled(m, s) ==
    LET x0 == (m.width \div 2) - (Len(Title) \div 2) * 8
        t[n \in 0..Len(Title)] ==
            IF n = 0 THEN s
            ELSE LET cell == Cell(Title[n], "white", "title") IN
                 IF m.type = "graphics"
                 THEN VesaDrawCharacter(t[n-1], x0 + (n-1) * 10, 18, cell)
                 ELSE TextDrawCharacter(t[n-1], x0 + n - 1, 1, cell)
    IN t[Len(Title)]

VideoDrawBootTerminal(m) ==
    LET frame == Frame(m) IN
    Titled(m, [r \in 0..m.height-1 |-> [c \in 0..m.width-1 |->
                  IF <<c, r>> \in frame THEN Border ELSE Blank]])

Init ==
    /\ mode \in Modes
    /\ screen = VideoDrawBootTerminal(mode)
    /\ CursorX = CursorStartX /\ CursorY = CursorStartY
    /\ FgColor = IF IsGraphics THEN "default" ELSE "text"
    /\ output = Welcome /\ logging = "none" /\ logs = 0

---------------------------------------------------------------------------
(* A variant: the columns of the right border are scrolled too. *)
ScrolledWide == CursorStartX..CursorLimitX-1

\* The columns of VideoScroll.
Scrolled == CursorStartX..CursorLimitX-borderWidth-1

(* A variant: the last rows are not cleared. *)
VideoScrollUncleared(s) ==
    [r \in DOMAIN s |-> [c \in DOMAIN s[r] |->
        IF r \in CursorStartY..CursorLimitY-1 /\ c \in Scrolled
        THEN s[r + FontHeight][c] ELSE s[r][c]]]

\* VideoScroll: each row of the window gets what is FontHeight rows below it,
\* then the last FontHeight rows are cleared.
VideoScroll(s) ==
    [r \in DOMAIN s |-> [c \in DOMAIN s[r] |->
        IF r \in CursorStartY..CursorLimitY-1 /\ c \in Scrolled
        THEN IF r >= CursorLimitY - FontHeight THEN Blank ELSE s[r + FontHeight][c]
        ELSE s[r][c]]]

\* The place after a character, before the checks for the end of the line.
NextX(ch) == IF ch \in {"nl", "cr"} THEN CursorStartX ELSE CursorX + Advance

(* A variant: the end of the line is seen when the character is drawn. *)
WrapsLate(x) == x >= CursorLimitX

Wraps(x) == x + Advance >= CursorLimitX

VesaPutCharacter(ch) ==
    LET drawn == IF ch \in {"nl", "cr"} THEN screen
                 ELSE VesaDrawCharacter(screen, CursorX, CursorY,
                                        Cell(ch, FgColor, logging))
        wraps == Wraps(NextX(ch))
        y == CursorY + (IF ch = "nl" THEN FontHeight ELSE 0)
                     + (IF wraps THEN FontHeight ELSE 0)
        scrolls == y + FontHeight >= CursorLimitY IN
    /\ CursorX' = IF wraps THEN CursorStartX ELSE NextX(ch)
    /\ CursorY' = IF scrolls THEN y - FontHeight ELSE y
    /\ screen' = IF scrolls THEN VideoScroll(drawn) ELSE drawn

---------------------------------------------------------------------------
\* TextScroll: the whole screen, then the last two rows are cleared.
TextScroll(s) ==
    [r \in DOMAIN s |->
        IF r >= mode.height - 2 THEN [c \in DOMAIN s[r] |-> Blank] ELSE s[r + 1]]

\* A tab goes to the next multiple of 8, a backspace one place back.
TextX(ch) ==
    CASE ch = "bs"          -> IF CursorX = 0 THEN 0 ELSE CursorX - 1
      [] ch = "tab"         -> ((CursorX + 8) \div 8) * 8
      [] ch \in {"cr", "nl"} -> 3
      [] OTHER              -> CursorX + 1

VGAPutCharacter(ch) ==
    LET drawn == IF ch \in {"bs", "tab", "cr", "nl"} THEN screen
                 ELSE TextDrawCharacter(screen, CursorX, CursorY,
                                        Cell(ch, FgColor, logging))
        wraps == TextX(ch) >= mode.width
        y == CursorY + (IF ch = "nl" THEN 1 ELSE 0) + (IF wraps THEN 1 ELSE 0)
        scrolls == y >= mode.height - 1 IN
    /\ CursorX' = IF wraps THEN 0 ELSE TextX(ch)
    /\ CursorY' = IF scrolls THEN mode.height - 1 ELSE y
    /\ screen' = IF scrolls THEN TextScroll(drawn) ELSE drawn

\* One character of VideoDrawString.
VideoDrawString ==
    /\ output # <<>>
    /\ IF IsGraphics THEN VesaPutCharacter(Head(output)) ELSE VGAPutCharacter(Head(output))
    /\ output' = Tail(output)
    /\ UNCHANGED <<mode, FgColor, logging, logs>>

---------------------------------------------------------------------------
Ink(type) ==
    CASE type = "information" -> "information"
      [] type = "debug"       -> "debug"
      [] type = "fatal"       -> "error"
      [] OTHER                -> "default"

\* LogInternalPrint: the ink of the log, "[header] ", and the message with a
\* line feed; a raw log is printed as it is in the ink there is.
LogInternalPrint(type, header, message) ==
    /\ output = <<>> /\ logging = "none" /\ logs < MaxLogs
    /\ logging' = type /\ logs' = logs + 1
    /\ FgColor' = IF type = "raw" THEN FgColor ELSE Ink(type)
    /\ output' = header \o message \o <<"nl">>
    /\ UNCHANGED <<mode, screen, CursorX, CursorY>>

LogReturns ==
    /\ output = <<>> /\ logging # "none"
    /\ logging' = "none" /\ FgColor' = "default"
    /\ UNCHANGED <<mode, screen, CursorX, CursorY, output, logs>>

Log(message) == LogInternalPrint("raw", <<>>, message \o <<"nl">>)
LogRaw(message) == LogInternalPrint("raw", <<>>, message)
LogDebug(message) == LogInternalPrint("debug", Header, message)
LogFatal(message) == LogInternalPrint("fatal", Header, message)
LogInformation(message) == LogInternalPrint("information", Header, message)

Next ==
    \/ VideoDrawString \/ LogReturns
    \/ \E message \in Messages :
          \/ Log(message) \/ LogRaw(message) \/ LogDebug(message)
          \/ LogFatal(message) \/ LogInformation(message)

Spec == Init /\ [][Next]_vars

---------------------------------------------------------------------------
\* The cursor stays where a character may be drawn: in a graphics mode within
\* the frame, in a text mode on the screen, whatever was printed before
\* (VesaPutCharacter, VGAPutCharacter).
CursorInside ==
    IF IsGraphics
    THEN /\ borderWidth <= CursorX /\ CursorX + FontWidth <= mode.width - borderWidth
         /\ headerHeight <= CursorY /\ CursorY + FontHeight <= mode.height - borderWidth
    ELSE /\ 0 <= CursorX /\ CursorX < mode.width
         /\ 0 <= CursorY /\ CursorY < mode.height

OnFrame(c, r) ==
    \/ r < headerHeight \/ r >= mode.height - borderWidth
    \/ c < borderWidth \/ c >= mode.width - borderWidth

\* The frame that was drawn around the window is still whole in a graphics mode,
\* although the text is scrolled beneath it (VideoScroll, VideoDrawBootTerminal).
FrameWhole ==
    IsGraphics => \A r \in 0..mode.height-1, c \in 0..mode.width-1 :
        OnFrame(c, r) =>
            \/ screen[r][c] = Border
            \/ screen[r][c].of = "title" /\ r < headerHeight

\* No step touches the frame.
FrameStays ==
    IsGraphics => \A r \in DOMAIN screen : \A c \in DOMAIN screen[r] :
        OnFrame(c, r) =>
            /\ r \in DOMAIN screen' /\ c \in DOMAIN screen'[r]
            /\ screen'[r][c] = screen[r][c]

\* What a reader sees in a graphics mode: the lines of the window, and in each
\* the places of the glyphs.  Pixels of a place that differ, or pixels between
\* the places that are not blank, make no character.
PlaceX(c) == CursorStartX + (c - 1) * Advance
PlaceY(r) == CursorStartY + (r - 1) * FontHeight
Lines == (CursorLimitY - CursorStartY - 1) \div FontHeight
Places == (CursorLimitX - CursorStartX - 1) \div Advance
SeenOn(s, r, c) ==
    LET pixel(y, x) == s[PlaceY(r) + y][PlaceX(c) + x]
        glyph == pixel(0, 0) IN
    IF /\ \A y \in 0..FontHeight-1, x \in 0..FontWidth-1 : pixel(y, x) = glyph
       /\ c < Places => \A y \in 0..FontHeight-1, x \in FontWidth..Advance-1 :
                           pixel(y, x) = Blank
    THEN glyph ELSE Cell("torn", "none", "none")

\* The last place of a line is scrolled with all its columns: no width is 4 modulo
\* the advance of the font.
ColumnsFit == \A m \in Modes : m.type = "graphics" => m.width % 10 # 4

PageOf(s) == [r \in 1..Lines |-> [c \in 1..Places |-> SeenOn(s, r, c)]]

ShownPage == IF IsGraphics THEN PageOf(screen) ELSE <<<<Blank>>>>
ShownRow == IF IsGraphics THEN (CursorY - CursorStartY) \div FontHeight + 1 ELSE 1
ShownColumn == IF IsGraphics THEN (CursorX - CursorStartX) \div Advance + 1 ELSE 1

\* The terminal implements a page of lines in a graphics mode (a text mode
\* promises nothing here).
Shown == INSTANCE Page WITH
    Cells <- {Cell(ch, ink, of) : ch \in Glyphs,
                 ink \in {"default", "information", "debug", "error"},
                 of \in {"none", "raw", "information", "debug", "fatal"}},
    page <- ShownPage, row <- ShownRow, column <- ShownColumn
ImplementsPage == Shown!Spec

\* Finding: "Clear last line" clears two lines, so that a character printed on
\* the last one, where the cursor stays after the first scroll, is gone.
CharactersShown ==
    [][VideoDrawString /\ ~IsGraphics /\ Head(output) \in Glyphs \ {"tab", "bs"} =>
          \E r \in DOMAIN screen' : \E c \in DOMAIN screen'[r] :
              screen'[r][c] = Cell(Head(output), FgColor, logging)]_vars
=============================================================================

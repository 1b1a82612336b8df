----------------------------- MODULE MenuProofs -----------------------------
(***************************************************************************)
(* For every number of menus, items and lines: whatever keys are pressed,  *)
(* the highlighted item is on the screen, and only the innermost menu is   *)
(* shown.                                                                  *)
(*                                                                         *)
(* The two rules that move g_MenuOffset keep offset < index <= offset +    *)
(* menu_height in the main menu only because its index and its selected    *)
(* item agree there (it is entered once) and because a submenu, which      *)
(* clears the offset, is entered from the first screen and never scrolls.  *)
(***************************************************************************)
EXTENDS Menu, TLAPS

Frames == [menu : Menus, selected : Nat]

Typed ==
    /\ selectedItem \in [Menus -> Nat]
    /\ \A m \in Menus : selectedItem[m] \in 1..itemCount[m]
    /\ isSelected \in [Menus -> SUBSET Nat]
    /\ isHidden \in [Menus -> BOOLEAN]
    /\ running \in Seq(Frames) /\ Len(running) >= 1
    /\ g_MenuOffset \in Nat
    /\ at \in {"draw", "key", "reboot"}

\* The menus that were ever run mark their selected item and nothing else.
Marks ==
    /\ \A m \in Menus : \/ isSelected[m] = {selectedItem[m]}
                        \/ isSelected[m] = {} /\ selectedItem[m] = 1
    /\ \A k \in 1..Len(running) : isSelected[running[k].menu] # {}

\* The main menu is the outermost call; the submenus fit on the screen.
Stack ==
    /\ running[1].menu = Main
    /\ running[1].selected = selectedItem[Main]
    /\ \A k \in 2..Len(running) :
         /\ running[k].menu # Main /\ running[k].menu # running[k-1].menu
         /\ itemCount[running[k].menu] <= menu_height
         /\ running[k].selected \in 1..itemCount[running[k].menu]

Window ==
    IF Len(running) = 1
    THEN /\ g_MenuOffset < selectedItem[Main]
         /\ selectedItem[Main] <= g_MenuOffset + menu_height
         /\ itemCount[Main] <= menu_height => g_MenuOffset = 0
    ELSE g_MenuOffset = 0 /\ selectedItem[Main] <= menu_height

Drawn == at = "key" => screen = [l \in Lines |-> Printed(menu, l)]

MenuInv == Typed /\ Marks /\ Stack /\ Window /\ Drawn /\ OnlyTopShown

\* The innermost frame is a frame of a menu.
LEMMA TopTyped ==
    ASSUME MenuInv
    PROVE  /\ Len(running) \in Nat /\ Len(running) \in 1..Len(running) /\ Top \in Frames /\ menu \in Menus
           /\ itemCount[menu] \in Nat \ {0} /\ selectedItem[menu] \in 1..itemCount[menu]
<1>1. Len(running) \in Nat /\ Len(running) \in 1..Len(running)
  BY DEF MenuInv, Typed
<1>2. Top \in Frames
  BY <1>1 DEF MenuInv, Typed, Top
<1>3. menu \in Menus
  BY <1>2 DEF menu, Frames
<1>. QED BY <1>1, <1>2, <1>3, MenuConstants DEF MenuInv, Typed

LEMMA FramesTyped ==
    ASSUME MenuInv
    PROVE  \A k \in 1..Len(running) : running[k] \in Frames /\ running[k].menu \in Menus
<1>1. \A k \in 1..Len(running) : running[k] \in Frames
  BY DEF MenuInv, Typed
<1>. QED BY <1>1 DEF Frames

LEMMA DeepRunning ==
    ASSUME MenuInv, Len(running) # 1
    PROVE  Len(running) \in 2..Len(running) /\ 1 \in 1..Len(running)
<1>1. Len(running) \in Nat /\ Len(running) \in 1..Len(running)
  BY TopTyped
<1>. QED BY <1>1

\* Whether it is the main menu or not, the selected item of the innermost menu
\* is in the window.
LEMMA SelectedInWindow ==
    ASSUME MenuInv
    PROVE  g_MenuOffset < selectedItem[menu] /\ selectedItem[menu] <= g_MenuOffset + menu_height
<1>0. /\ Len(running) \in Nat /\ Len(running) \in 1..Len(running)
      /\ selectedItem[menu] \in 1..itemCount[menu] /\ itemCount[menu] \in Nat \ {0}
  BY TopTyped
<1>1. CASE Len(running) = 1
  <2>1. menu = Main
    BY <1>1 DEF MenuInv, Stack, menu, Top
  <2>. QED BY <1>1, <2>1 DEF MenuInv, Window
<1>2. CASE Len(running) # 1
  <2>1. Len(running) \in 2..Len(running)
    BY <1>0, <1>2
  <2>2. itemCount[menu] <= menu_height
    BY <2>1 DEF MenuInv, Stack, menu, Top
  <2>. QED BY <1>0, <1>2, <2>2, MenuConstants DEF MenuInv, Window
<1>. QED BY <1>1, <1>2

\* The invariant gives the property of the screen.
LEMMA ShownByInvariant == MenuInv => HighlightShown
<1>1. SUFFICES ASSUME MenuInv, at = "key" PROVE HighlightShown
  BY DEF HighlightShown
<1>. DEFINE line == selectedItem[menu] - 1 - g_MenuOffset
<1>2. /\ Len(running) \in 1..Len(running) /\ menu \in Menus
      /\ itemCount[menu] \in Nat \ {0} /\ selectedItem[menu] \in 1..itemCount[menu]
  BY <1>1, TopTyped
<1>3. g_MenuOffset \in Int /\ menu_height \in Nat
  BY <1>1, MenuConstants DEF MenuInv, Typed
<1>4. line \in Lines
  BY <1>1, <1>2, <1>3, SelectedInWindow DEF Lines
<1>5. isSelected[menu] = {selectedItem[menu]}
  BY <1>1, <1>2 DEF MenuInv, Marks, menu, Top
<1>6. \A l \in Lines : screen[l] = Printed(menu, l)
  BY <1>1 DEF MenuInv, Drawn
<1>7. ASSUME NEW l \in Lines PROVE screen[l].color = "selected" <=> l = line
  <2>1. l + g_MenuOffset + 1 = selectedItem[menu] <=> l = line
    BY <1>2, <1>3 DEF Lines
  <2>2. l + g_MenuOffset + 1 \in isSelected[menu] <=> l = line
    BY <1>5, <2>1
  <2>3. CASE l = line
    <3>1. Printed(menu, l) = [item |-> selectedItem[menu], color |-> "selected"]
      BY <1>2, <2>1, <2>2, <2>3 DEF Printed
    <3>. QED BY <1>6, <2>3, <3>1
  <2>4. CASE l # line
    <3>1. \/ Printed(menu, l) = NoItem
          \/ Printed(menu, l) = [item |-> l + g_MenuOffset + 1, color |-> "item"]
      BY <2>2, <2>4 DEF Printed
    <3>2. Printed(menu, l).color # "selected"
      BY <3>1 DEF NoItem
    <3>. QED BY <1>6, <2>4, <3>2
  <2>. QED BY <2>3, <2>4
<1>8. screen[line].item = selectedItem[menu]
  <2>1. line + g_MenuOffset + 1 = selectedItem[menu]
    BY <1>2, <1>3
  <2>2. Printed(menu, line).item = selectedItem[menu]
    BY <1>2, <2>1 DEF Printed
  <2>. QED BY <1>4, <1>6, <2>2
<1>. QED BY <1>4, <1>7, <1>8 DEF HighlightShown, Highlighted

---------------------------------------------------------------------------
LEMMA InitMenuInv == Init => MenuInv
<1>. SUFFICES ASSUME Init PROVE MenuInv
  OBVIOUS
<1>1. /\ running \in Seq(Frames) /\ Len(running) = 1
      /\ running[1] = [menu |-> Main, selected |-> 1] /\ menu = Main
  BY MenuConstants DEF Init, Frames, menu, Top
<1>2. \A m \in Menus : 1 \in 1..itemCount[m]
  BY MenuConstants
<1>3. Typed
  BY <1>1, <1>2, MenuConstants DEF Init, Typed
<1>4. Marks
  <2>1. \A m \in Menus : selectedItem[m] = 1 /\ isSelected[m] = IF m = Main THEN {1} ELSE {}
    BY DEF Init
  <2>2. \A k \in 1..Len(running) : running[k].menu = Main
    BY <1>1
  <2>3. Main \in Menus
    BY MenuConstants
  <2>. QED BY <2>1, <2>2, <2>3 DEF Marks
<1>5. Stack /\ Window
  BY <1>1, MenuConstants DEF Init, Stack, Window
<1>6. Drawn /\ OnlyTopShown
  BY <1>1, MenuConstants DEF Init, Drawn, OnlyTopShown
<1>. QED BY <1>3, <1>4, <1>5, <1>6 DEF MenuInv

\* Select and SetIndex, as Up and Down use them, in the main menu and in others.
LEMMA KeyKeeps ==
    ASSUME MenuInv, at = "key", NEW i \in 1..itemCount[menu], NEW j \in 1..itemCount[menu],
           Select(i), SetIndex(j), isHidden' = isHidden, at' = "draw",
           Len(running) = 1 => j = i,
           g_MenuOffset' \in Nat,
           IF Len(running) = 1
           THEN /\ g_MenuOffset' < i /\ i <= g_MenuOffset' + menu_height
                /\ itemCount[menu] <= menu_height => g_MenuOffset' = 0
           ELSE g_MenuOffset' = 0
    PROVE  MenuInv'
<1>0. Len(running) \in Nat /\ Len(running) \in 1..Len(running)
  BY TopTyped
<1>1. /\ Len(running) \in Nat /\ Len(running) \in 1..Len(running) /\ Top \in Frames /\ menu \in Menus
      /\ itemCount[menu] \in Nat \ {0} /\ selectedItem[menu] \in 1..itemCount[menu]
  BY TopTyped
<1>2. running' \in Seq(Frames) /\ Len(running') = Len(running)
  <2>1. [Top EXCEPT !.selected = j] \in Frames
    BY <1>1 DEF Frames
  <2>2. running' = [running EXCEPT ![Len(running)] = [Top EXCEPT !.selected = j]]
    BY DEF SetIndex, Top
  <2>. QED BY <1>1, <2>1, <2>2 DEF MenuInv, Typed
<1>3. \A k \in 1..Len(running) : /\ running'[k].menu = running[k].menu
                                 /\ k # Len(running) => running'[k] = running[k]
                                 /\ k = Len(running) => running'[k].selected = j
  BY <1>1 DEF MenuInv, Typed, SetIndex
<1>4. menu' = menu
  BY <1>1, <1>2, <1>3 DEF menu, Top
<1>5. Typed'
  BY <1>1, <1>2 DEF MenuInv, Typed, Select
<1>6. isSelected[menu] = {selectedItem[menu]}
  BY <1>1 DEF MenuInv, Marks, menu, Top
<1>7. Marks'
  <2>1. selectedItem'[menu] = i /\ isSelected'[menu] = {i}
    BY <1>1, <1>6 DEF MenuInv, Typed, Select
  <2>2. \A m \in Menus \ {menu} : /\ selectedItem'[m] = selectedItem[m]
                                  /\ isSelected'[m] = isSelected[m]
    BY <1>1 DEF MenuInv, Typed, Select
  <2>3. \A m \in Menus : isSelected[m] # {} => isSelected'[m] # {}
    BY <2>1, <2>2
  <2>4. \A k \in 1..Len(running) : running[k].menu \in Menus
    BY FramesTyped
  <2>5. \A k \in 1..Len(running') : isSelected'[running'[k].menu] # {}
    BY <1>2, <1>3, <2>3, <2>4 DEF MenuInv, Marks
  <2>6. \A m \in Menus : \/ isSelected'[m] = {selectedItem'[m]}
                         \/ isSelected'[m] = {} /\ selectedItem'[m] = 1
    BY <2>1, <2>2 DEF MenuInv, Marks
  <2>. QED BY <2>5, <2>6 DEF Marks
<1>8. Stack' /\ Window'
  <2>1. CASE Len(running) = 1
    <3>1. menu = Main
      BY <2>1 DEF MenuInv, Stack, menu, Top
    <3>2. running'[1].menu = Main /\ running'[1].selected = i /\ selectedItem'[Main] = i
      BY <1>1, <1>3, <2>1, <3>1 DEF MenuInv, Typed, Stack, Select
    <3>3. Stack'
      BY <1>2, <2>1, <3>2 DEF Stack
    <3>4. Window'
      BY <1>2, <2>1, <3>1, <3>2 DEF Window
    <3>. QED BY <3>3, <3>4
  <2>2. CASE Len(running) # 1
    <3>1. Len(running) \in 2..Len(running) /\ 1 \in 1..Len(running)
      BY <2>2, DeepRunning
    <3>2. menu # Main
      BY <3>1 DEF MenuInv, Stack, menu, Top
    <3>3. selectedItem'[Main] = selectedItem[Main]
      BY <1>1, <3>2, MenuConstants DEF MenuInv, Typed, Select
    <3>4. running'[1] = running[1]
      BY <1>3, <2>2, <3>1
    <3>5. ASSUME NEW k \in 2..Len(running)
          PROVE  /\ running'[k].menu # Main /\ running'[k].menu # running'[k-1].menu
                 /\ itemCount[running'[k].menu] <= menu_height
                 /\ running'[k].selected \in 1..itemCount[running'[k].menu]
      <4>1. k \in 1..Len(running) /\ k-1 \in 1..Len(running)
        BY <1>0, <3>5
      <4>2. running'[k].menu = running[k].menu /\ running'[k-1].menu = running[k-1].menu
        BY <1>3, <4>1
      <4>3. running'[k].selected \in 1..itemCount[running[k].menu]
        BY <1>3, <3>5, <4>1 DEF MenuInv, Stack, menu, Top
      <4>. QED BY <3>5, <4>2, <4>3 DEF MenuInv, Stack
    <3>. QED BY <1>2, <2>2, <3>3, <3>4, <3>5 DEF MenuInv, Stack, Window
  <2>. QED BY <2>1, <2>2
<1>9. Drawn' /\ OnlyTopShown'
  BY <1>4 DEF MenuInv, Drawn, OnlyTopShown
<1>. QED BY <1>5, <1>7, <1>8, <1>9 DEF MenuInv

---------------------------------------------------------------------------
\* run_menu returns: the caller's menu is shown again, with the offset at 0.
LEMMA ReturnKeeps ==
    ASSUME MenuInv, NEW hidden \in [Menus -> BOOLEAN], Return(hidden),
           \A m \in Menus : hidden[m],
           UNCHANGED <<selectedItem, isSelected, g_MenuOffset>>
    PROVE  MenuInv'
<1>. DEFINE callers == SubSeq(running, 1, Len(running) - 1)
<1>1. /\ Len(running) > 1 /\ running' = callers /\ at' = "draw"
      /\ isHidden' = [hidden EXCEPT ![callers[Len(callers)].menu] = FALSE]
  BY DEF Return
<1>2. running \in Seq(Frames) /\ Len(running) \in Nat
  BY DEF MenuInv, Typed
<1>. HIDE DEF callers
<1>3. /\ callers \in Seq(Frames) /\ Len(callers) = Len(running) - 1
      /\ Len(callers) \in 1..Len(callers) /\ Len(callers) \in Nat
      /\ \A k \in 1..Len(callers) : k \in 1..Len(running) /\ callers[k] = running[k]
  BY <1>1, <1>2 DEF callers
<1>4. Typed'
  <2>1. running' \in Seq(Frames) /\ Len(running') >= 1
    BY <1>1, <1>3
  <2>2. isHidden' \in [Menus -> BOOLEAN]
    BY <1>1
  <2>. QED BY <1>1, <2>1, <2>2 DEF MenuInv, Typed
<1>5. menu' = callers[Len(callers)].menu /\ menu' \in Menus
  <2>1. menu' = callers[Len(callers)].menu
    BY <1>1 DEF menu, Top
  <2>. QED BY <1>3, <2>1, FramesTyped
<1>6. Marks'
  BY <1>1, <1>2, <1>3 DEF MenuInv, Marks
<1>7. Stack'
  <2>1. running'[1] = running[1]
    BY <1>1, <1>3
  <2>2. \A k \in 2..Len(running') : /\ k \in 2..Len(running)
                                   /\ running'[k] = running[k] /\ running'[k-1] = running[k-1]
    BY <1>1, <1>2, <1>3
  <2>. QED BY <2>1, <2>2 DEF MenuInv, Stack
<1>8. Window'
  BY <1>1, <1>2, <1>3, MenuConstants DEF MenuInv, Typed, Window
<1>9. Drawn' /\ OnlyTopShown'
  BY <1>1, <1>5 DEF Drawn, OnlyTopShown
<1>. QED BY <1>4, <1>6, <1>7, <1>8, <1>9 DEF MenuInv

LEMMA EnterKeeps == MenuInv /\ EnterSubmenu => MenuInv'
<1>. SUFFICES ASSUME MenuInv, EnterSubmenu PROVE MenuInv'
  OBVIOUS
<1>. DEFINE m == subMenu[menu][selectedItem[menu]]
<1>1. /\ Len(running) \in Nat /\ Len(running) \in 1..Len(running) /\ Top \in Frames /\ menu \in Menus
      /\ itemCount[menu] \in Nat \ {0} /\ selectedItem[menu] \in 1..itemCount[menu]
  BY TopTyped
<1>2. m \in Menus /\ m # menu /\ m # Main /\ selectedItem[menu] <= menu_height
      /\ itemCount[m] <= menu_height /\ itemCount[m] \in Nat \ {0}
  BY <1>1, MenuConstants, SubmenusFit DEF EnterSubmenu, HasSubmenu
<1>3. /\ running' = Append(running, [menu |-> m, selected |-> 1])
      /\ g_MenuOffset' = 0 /\ at' = "draw" /\ selectedItem' = selectedItem
      /\ isHidden' = [[isHidden EXCEPT ![menu] = TRUE] EXCEPT ![m] = FALSE]
      /\ isSelected' = IF isSelected[m] = {} THEN [isSelected EXCEPT ![m] = {1}] ELSE isSelected
  BY DEF EnterSubmenu, RunMenu
<1>4. running \in Seq(Frames) /\ Len(running) \in Nat /\ [menu |-> m, selected |-> 1] \in Frames
  BY <1>1, <1>2 DEF MenuInv, Typed, Frames
<1>5. /\ running' \in Seq(Frames) /\ Len(running') = Len(running) + 1
      /\ \A k \in 1..Len(running) : running'[k] = running[k]
      /\ running'[Len(running) + 1] = [menu |-> m, selected |-> 1]
  BY <1>3, <1>4
<1>6. Typed'
  <2>1. isHidden' \in [Menus -> BOOLEAN]
    BY <1>3 DEF MenuInv, Typed
  <2>0. isSelected' \in [Menus -> SUBSET Nat]
    <3>0. {1} \in SUBSET Nat /\ isSelected \in [Menus -> SUBSET Nat]
      BY DEF MenuInv, Typed
    <3>. HIDE DEF m
    <3>1. [isSelected EXCEPT ![m] = {1}] \in [Menus -> SUBSET Nat]
      BY <3>0
    <3>. QED BY <1>3, <3>1 DEF MenuInv, Typed
  <2>2. running' \in Seq(Frames) /\ Len(running') >= 1
    BY <1>4, <1>5
  <2>. QED BY <1>3, <2>0, <2>1, <2>2 DEF MenuInv, Typed
<1>7. menu' = m
  BY <1>5 DEF menu, Top
<1>8. Marks'
  <2>1. \A n \in Menus : \/ isSelected'[n] = {selectedItem'[n]}
                         \/ isSelected'[n] = {} /\ selectedItem'[n] = 1
    <3>1. \A n \in Menus \ {m} : isSelected'[n] = isSelected[n]
      BY <1>3 DEF MenuInv, Typed
    <3>2. isSelected'[m] = IF isSelected[m] = {} THEN {1} ELSE isSelected[m]
      BY <1>2, <1>3 DEF MenuInv, Typed
    <3>. QED BY <1>3, <3>1, <3>2 DEF MenuInv, Marks
  <2>2. ASSUME NEW k \in 1..Len(running')
        PROVE  isSelected'[running'[k].menu] # {}
    <3>0. \A n \in Menus : n = m \/ isSelected[n] # {} => isSelected'[n] # {}
      BY <1>2, <1>3 DEF MenuInv, Typed
    <3>1. CASE k = Len(running) + 1
      BY <1>2, <1>5, <3>0, <3>1
    <3>2. CASE k # Len(running) + 1
      <4>1. k \in 1..Len(running)
        BY <1>4, <1>5, <2>2, <3>2
      <4>2. running[k].menu \in Menus /\ isSelected[running[k].menu] # {}
        BY <4>1, FramesTyped DEF MenuInv, Marks
      <4>. QED BY <1>5, <3>0, <4>1, <4>2
    <3>. QED BY <3>1, <3>2
  <2>. QED BY <2>1, <2>2 DEF Marks
<1>9. Stack'
  <2>1. running'[1] = running[1]
    BY <1>1, <1>5
  <2>2. ASSUME NEW k \in 2..Len(running')
        PROVE  /\ running'[k].menu # Main /\ running'[k].menu # running'[k-1].menu
               /\ itemCount[running'[k].menu] <= menu_height
               /\ running'[k].selected \in 1..itemCount[running'[k].menu]
    <3>1. CASE k = Len(running) + 1
      <4>1. running'[k-1].menu = menu
        BY <1>1, <1>4, <1>5, <3>1 DEF menu, Top
      <4>. QED BY <1>2, <1>5, <3>1, <4>1
    <3>2. CASE k # Len(running) + 1
      <4>1. k \in 2..Len(running) /\ k \in 1..Len(running) /\ k-1 \in 1..Len(running)
        BY <1>4, <1>5, <2>2, <3>2
      <4>. QED BY <1>5, <4>1 DEF MenuInv, Stack
    <3>. QED BY <3>1, <3>2
  <2>. QED BY <1>3, <2>1, <2>2 DEF MenuInv, Stack
<1>10. Window'
  <2>1. selectedItem[Main] <= menu_height
    <3>1. CASE Len(running) = 1
      BY <1>2, <3>1 DEF MenuInv, Stack, menu, Top
    <3>2. CASE Len(running) # 1
      BY <3>2 DEF MenuInv, Window
    <3>. QED BY <3>1, <3>2
  <2>2. Len(running') # 1
    BY <1>1, <1>4, <1>5
  <2>. QED BY <1>3, <2>1, <2>2 DEF Window
<1>11. Drawn' /\ OnlyTopShown'
  BY <1>1, <1>2, <1>3, <1>7 DEF MenuInv, Typed, Drawn, OnlyTopShown
<1>. QED BY <1>6, <1>8, <1>9, <1>10, <1>11 DEF MenuInv

---------------------------------------------------------------------------
\* In the main menu the index is the selected item; in a submenu it is only
\* some item.
LEMMA IndexTyped ==
    ASSUME MenuInv
    PROVE  /\ Top.selected \in 1..itemCount[menu]
           /\ Len(running) = 1 => menu = Main /\ Top.selected = selectedItem[menu]
           /\ Len(running) # 1 => itemCount[menu] <= menu_height /\ g_MenuOffset = 0
<1>0. Len(running) \in Nat /\ Len(running) \in 1..Len(running)
  BY TopTyped
<1>1. CASE Len(running) = 1
  <2>1. menu = Main /\ Top.selected = selectedItem[menu]
    BY <1>1 DEF MenuInv, Stack, menu, Top
  <2>. QED BY <1>1, <2>1, TopTyped
<1>2. CASE Len(running) # 1
  <2>1. Len(running) \in 2..Len(running)
    BY <1>0, <1>2
  <2>. QED BY <1>2, <2>1 DEF MenuInv, Stack, Window, menu, Top
<1>. QED BY <1>1, <1>2

\* How the two keys move the window of h lines over n items.
LEMMA UpArithmetic ==
    ASSUME NEW n \in Nat \ {0}, NEW h \in Nat \ {0}, NEW o \in Nat, NEW s \in 1..n,
           o < s, s <= o + h, n <= h => o = 0
    PROVE  LET i == IF s > 1 THEN s - 1 ELSE n
               p == IF n <= h THEN o ELSE IF i = n THEN n - h
                    ELSE IF i <= o THEN o - 1 ELSE o
           IN p \in Nat /\ p < i /\ i <= p + h /\ (n <= h => p = 0)
OBVIOUS

LEMMA DownArithmetic ==
    ASSUME NEW n \in Nat \ {0}, NEW h \in Nat \ {0}, NEW o \in Nat, NEW s \in 1..n,
           o < s, s <= o + h, n <= h => o = 0
    PROVE  LET i == IF s + 1 > n THEN 1 ELSE s + 1
               p == (IF s + 1 > n THEN 0 ELSE o) + (IF i > h THEN 1 ELSE 0)
           IN p \in Nat /\ p < i /\ i <= p + h /\ (n <= h => p = 0)
OBVIOUS

LEMMA UpKeeps == MenuInv /\ Up => MenuInv'
<1>. SUFFICES ASSUME MenuInv, Up PROVE MenuInv'
  OBVIOUS
<1>. DEFINE i == IF selectedItem[menu] > 1 THEN selectedItem[menu] - 1 ELSE itemCount[menu]
            j == IF Top.selected - 1 <= 0 THEN itemCount[menu] ELSE Top.selected - 1
<1>1. itemCount[menu] \in Nat \ {0} /\ selectedItem[menu] \in 1..itemCount[menu]
  BY TopTyped
<1>2. /\ Top.selected \in 1..itemCount[menu]
      /\ Len(running) = 1 => menu = Main /\ Top.selected = selectedItem[menu]
      /\ Len(running) # 1 => itemCount[menu] <= menu_height /\ g_MenuOffset = 0
  BY IndexTyped
<1>3. i \in 1..itemCount[menu] /\ j \in 1..itemCount[menu]
  BY <1>1, <1>2
<1>4. Len(running) = 1 => j = i
  BY <1>1, <1>2
<1>5. /\ Select(i) /\ SetIndex(j) /\ isHidden' = isHidden /\ at = "key" /\ at' = "draw"
      /\ g_MenuOffset' = UpOffset(j)
  BY DEF Up, select_previous_item
<1>6. g_MenuOffset \in Nat /\ menu_height \in Nat \ {0}
  BY MenuConstants DEF MenuInv, Typed
<1>8. g_MenuOffset < selectedItem[menu] /\ selectedItem[menu] <= g_MenuOffset + menu_height
  BY SelectedInWindow
<1>9. CASE Len(running) = 1
  <2>0. itemCount[menu] <= menu_height => g_MenuOffset = 0
    BY <1>2, <1>9 DEF MenuInv, Window
  <2>1. /\ g_MenuOffset' \in Nat /\ g_MenuOffset' < i /\ i <= g_MenuOffset' + menu_height
        /\ itemCount[menu] <= menu_height => g_MenuOffset' = 0
    BY <1>1, <1>2, <1>4, <1>5, <1>6, <1>8, <1>9, <2>0, UpArithmetic DEF UpOffset
  <2>. QED BY <1>3, <1>4, <1>5, <1>9, <2>1, KeyKeeps
<1>10. CASE Len(running) # 1
  <2>1. g_MenuOffset' = 0
    BY <1>1, <1>2, <1>5, <1>6, <1>10 DEF UpOffset
  <2>. QED BY <1>3, <1>4, <1>5, <1>10, <2>1, KeyKeeps
<1>. QED BY <1>9, <1>10

LEMMA DownKeeps == MenuInv /\ Down => MenuInv'
<1>. SUFFICES ASSUME MenuInv, Down PROVE MenuInv'
  OBVIOUS
<1>. DEFINE i == IF selectedItem[menu] < itemCount[menu] THEN selectedItem[menu] + 1 ELSE 1
            wraps == Top.selected + 1 > itemCount[menu]
            j == IF wraps THEN 1 ELSE Top.selected + 1
<1>1. itemCount[menu] \in Nat \ {0} /\ selectedItem[menu] \in 1..itemCount[menu]
  BY TopTyped
<1>2. /\ Top.selected \in 1..itemCount[menu]
      /\ Len(running) = 1 => menu = Main /\ Top.selected = selectedItem[menu]
      /\ Len(running) # 1 => itemCount[menu] <= menu_height /\ g_MenuOffset = 0
  BY IndexTyped
<1>3. i \in 1..itemCount[menu] /\ j \in 1..itemCount[menu]
  BY <1>1, <1>2
<1>4. Len(running) = 1 => j = i
  BY <1>1, <1>2
<1>5. /\ Select(i) /\ SetIndex(j) /\ isHidden' = isHidden /\ at = "key" /\ at' = "draw"
      /\ g_MenuOffset' = DownOffset(wraps, j)
  BY DEF Down, select_next_item
<1>6. g_MenuOffset \in Nat /\ menu_height \in Nat \ {0}
  BY MenuConstants DEF MenuInv, Typed
<1>8. g_MenuOffset < selectedItem[menu] /\ selectedItem[menu] <= g_MenuOffset + menu_height
  BY SelectedInWindow
<1>9. CASE Len(running) = 1
  <2>0. itemCount[menu] <= menu_height => g_MenuOffset = 0
    BY <1>2, <1>9 DEF MenuInv, Window
  <2>1. /\ g_MenuOffset' \in Nat /\ g_MenuOffset' < i /\ i <= g_MenuOffset' + menu_height
        /\ itemCount[menu] <= menu_height => g_MenuOffset' = 0
    BY <1>1, <1>2, <1>4, <1>5, <1>6, <1>8, <1>9, <2>0, DownArithmetic DEF DownOffset
  <2>. QED BY <1>3, <1>4, <1>5, <1>9, <2>1, KeyKeeps
<1>10. CASE Len(running) # 1
  <2>1. g_MenuOffset' = 0
    BY <1>1, <1>2, <1>3, <1>5, <1>6, <1>10 DEF DownOffset
  <2>. QED BY <1>3, <1>4, <1>5, <1>10, <2>1, KeyKeeps
<1>. QED BY <1>9, <1>10

---------------------------------------------------------------------------
LEMMA NextKeeps == MenuInv /\ [Next]_vars => MenuInv'
<1>. SUFFICES ASSUME MenuInv, [Next]_vars PROVE MenuInv'
  OBVIOUS
<1>0. menu \in Menus
  BY TopTyped
<1>1. CASE draw_menu
  <2>1. ~isHidden[menu]
    BY <1>0 DEF MenuInv, OnlyTopShown
  <2>2. /\ at' = "key" /\ screen' = [l \in Lines |-> Printed(menu, l)]
        /\ UNCHANGED <<selectedItem, isSelected, isHidden, running, g_MenuOffset>>
    BY <1>1, <2>1 DEF draw_menu
  <2>3. Drawn'
    BY <2>2 DEF Drawn, Printed, menu, Top
  <2>. QED BY <2>2, <2>3 DEF MenuInv, Typed, Marks, Stack, Window, OnlyTopShown, menu, Top
<1>2. CASE Up
  BY <1>2, UpKeeps
<1>3. CASE Down
  BY <1>3, DownKeeps
<1>4. CASE Escape
  <2>. DEFINE hidden == [isHidden EXCEPT ![menu] = TRUE]
  <2>1. hidden \in [Menus -> BOOLEAN] /\ \A m \in Menus : hidden[m]
    BY <1>0 DEF MenuInv, Typed, OnlyTopShown
  <2>2. Return(hidden) /\ UNCHANGED <<selectedItem, isSelected, g_MenuOffset>>
    BY <1>4 DEF Escape
  <2>. QED BY <2>1, <2>2, ReturnKeeps
<1>5. CASE EnterSubmenu
  BY <1>5, EnterKeeps
<1>6. CASE system_reboot
  BY <1>6 DEF system_reboot, MenuInv, Typed, Marks, Stack, Window, Drawn, OnlyTopShown, menu, Top
<1>7. CASE OtherKey
  BY <1>7 DEF OtherKey, MenuInv, Typed, Marks, Stack, Window, Drawn, OnlyTopShown, menu, Top
<1>8. CASE UNCHANGED vars
  <2>1. Drawn'
    BY <1>8 DEF vars, MenuInv, Drawn, Printed, menu, Top
  <2>. QED BY <1>8, <2>1 DEF vars, MenuInv, Typed, Marks, Stack, Window, OnlyTopShown, menu, Top
<1>. QED BY <1>1, <1>2, <1>3, <1>4, <1>5, <1>6, <1>7, <1>8 DEF Next

\* The invariant holds in every reachable state.
LEMMA MenuInvHolds == Spec => []MenuInv
BY InitMenuInv, NextKeeps, PTL DEF Spec

\* Whatever keys were pressed (run_menu), the item the return key would invoke
\* is on the screen, and is the only one highlighted.
THEOREM SelectionVisible == Spec => []HighlightShown
BY MenuInvHolds, ShownByInvariant, PTL

\* Only the innermost menu is shown: no menu is left hidden by invoke_item, and
\* none stays on after Hide_Menu.
THEOREM InnermostShown == Spec => []OnlyTopShown
<1>1. MenuInv => OnlyTopShown
  BY DEF MenuInv
<1>. QED BY <1>1, MenuInvHolds, PTL
=============================================================================

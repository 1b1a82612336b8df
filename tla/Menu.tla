-------------------------------- MODULE Menu --------------------------------
(***************************************************************************)
(* The boot menu of stage 2 (boot/stage2/menu.c): menus of items, moved    *)
(* through with the up and down keys and scrolled by a global offset.      *)
(*                                                                         *)
(* An item is its position in its menu, 1..itemCount: next and prev are    *)
(* the neighbours, head is 1 and tail is itemCount.  run_menu calls itself *)
(* through invoke_item for a submenu; running holds one frame per call,    *)
(* with the index `selected' that is a local variable of the call.  The    *)
(* screen is the lines print_item_at has put in the area of the items.     *)
(***************************************************************************)
EXTENDS Integers, Sequences

CONSTANTS
    None,
    Menus, Main,        \* the menus, and the one create_menu runs
    itemCount,          \* menu -> number of its items
    subMenu,            \* menu -> item -> its submenu or None
    target,             \* menu -> item -> TRUE if it has a hook
    CanEscape,          \* the menus whose type is not MAIN_MENU
    menu_height         \* lines of the area of the items

\* What create_menu builds: the main menu is of type MAIN_MENU, and submenus,
\* no higher than the screen, hang on items of the first screen.
ASSUME MenuConstants ==
    /\ None \notin Menus /\ Main \in Menus \ CanEscape
    /\ menu_height \in Nat \ {0}
    /\ itemCount \in [Menus -> Nat \ {0}]
    /\ \A m \in Menus :
         /\ subMenu[m] \in [1..itemCount[m] -> Menus \cup {None}]
         /\ target[m] \in [1..itemCount[m] -> BOOLEAN]

ASSUME SubmenusFit ==
    \A m \in Menus : \A i \in 1..itemCount[m] :
        subMenu[m][i] # None =>
            /\ i <= menu_height /\ itemCount[subMenu[m][i]] <= menu_height
            /\ subMenu[m][i] \notin {m, Main}

VARIABLES
    selectedItem,       \* menu -> its selected item
    isSelected,         \* menu -> the items marked as selected
    isHidden,           \* menu -> hidden
    running,            \* the calls of run_menu: [menu, selected]
    g_MenuOffset,
    screen,             \* line -> the [item, color] printed there, item 0 for none
    at                  \* what the innermost call does next: "draw" or "key",
                        \* or "reboot": system_reboot loops for ever

vars == <<selectedItem, isSelected, isHidden, running, g_MenuOffset, screen, at>>

Lines == 0..menu_height-1
NoItem == [item |-> 0, color |-> "background"]
Blank == [l \in Lines |-> NoItem]
Top == running[Len(running)]
menu == Top.menu

---------------------------------------------------------------------------
\* Entering run_menu(m), with the frames of its callers below.
RunMenu(m, callers, hidden, marks) ==
    /\ g_MenuOffset' = 0
    /\ isHidden' = [hidden EXCEPT ![m] = FALSE]
    /\ isSelected' = IF marks[m] = {} THEN [marks EXCEPT ![m] = {1}] ELSE marks
    /\ running' = Append(callers, [menu |-> m, selected |-> 1])
    /\ at' = "draw"

\* create_menu has made the menus and calls run_menu: no item is marked, the
\* first item added to a menu is its selectedItem.
Init ==
    /\ selectedItem = [m \in Menus |-> 1]
    /\ isSelected = [m \in Menus |-> IF m = Main THEN {1} ELSE {}]
    /\ isHidden = [m \in Menus |-> m # Main]
    /\ running = <<[menu |-> Main, selected |-> 1]>>
    /\ g_MenuOffset = 0 /\ screen = Blank /\ at = "draw"

(* A variant: the caller's menu stays hidden.                              *)
ReturnHidden(hidden) ==
    /\ Len(running) > 1
    /\ running' = SubSeq(running, 1, Len(running) - 1)
    /\ isHidden' = hidden
    /\ at' = "draw"

\* run_menu returns, to the invoke_item that called it.
Return(hidden) ==
    /\ Len(running) > 1
    /\ LET callers == SubSeq(running, 1, Len(running) - 1) IN
       /\ running' = callers
       /\ isHidden' = [hidden EXCEPT ![callers[Len(callers)].menu] = FALSE]
    /\ at' = "draw"

\* print_item_at drops the lines outside of the area.
Printed(m, l) ==
    LET i == l + g_MenuOffset + 1 IN
    IF i \in 1..itemCount[m] THEN [item |-> i, color |-> IF i \in isSelected[m] THEN "selected" ELSE "item"]
    ELSE NoItem

\* The loop of run_menu draws its menu, or returns when it finds it hidden.
draw_menu ==
    /\ at = "draw"
    /\ IF isHidden[menu]
       THEN screen' = Blank /\ Return(isHidden)
       ELSE /\ screen' = [l \in Lines |-> Printed(menu, l)]
            /\ at' = "key" /\ UNCHANGED <<isHidden, running>>
    /\ UNCHANGED <<selectedItem, isSelected, g_MenuOffset>>

---------------------------------------------------------------------------
\* The keys.  select_next_item and select_previous_item move the mark.
Select(i) ==
    /\ selectedItem' = [selectedItem EXCEPT ![menu] = i]
    /\ isSelected' = [isSelected EXCEPT ![menu] =
                         (@ \ {selectedItem[menu]}) \cup {i}]

SetIndex(i) ==
    running' = [running EXCEPT ![Len(running)] = [@ EXCEPT !.selected = i]]

select_previous_item ==
    Select(IF selectedItem[menu] > 1 THEN selectedItem[menu] - 1 ELSE itemCount[menu])

select_next_item ==
    Select(IF selectedItem[menu] < itemCount[menu] THEN selectedItem[menu] + 1 ELSE 1)

(* A variant: the window does not follow upwards.                           *)
UpOffsetKept(i) ==
    IF i = itemCount[menu] THEN itemCount[menu] - menu_height ELSE g_MenuOffset

UpOffset(i) ==
    IF itemCount[menu] <= menu_height THEN g_MenuOffset
    ELSE IF i = itemCount[menu] THEN itemCount[menu] - menu_height
    ELSE IF i <= g_MenuOffset THEN g_MenuOffset - 1 ELSE g_MenuOffset

Up ==
    /\ at = "key"
    /\ select_previous_item
    /\ LET i == IF Top.selected - 1 <= 0 THEN itemCount[menu] ELSE Top.selected - 1 IN
       /\ SetIndex(i)
       /\ g_MenuOffset' = UpOffset(i)
    /\ at' = "draw" /\ UNCHANGED <<isHidden, screen>>

DownOffset(wraps, i) ==
    (IF wraps THEN 0 ELSE g_MenuOffset) + (IF i > menu_height THEN 1 ELSE 0)

Down ==
    /\ at = "key"
    /\ select_next_item
    /\ LET wraps == Top.selected + 1 > itemCount[menu]
           i == IF wraps THEN 1 ELSE Top.selected + 1 IN
       /\ SetIndex(i)
       /\ g_MenuOffset' = DownOffset(wraps, i)
    /\ at' = "draw" /\ UNCHANGED <<isHidden, screen>>

\* In a MAIN_MENU the escape key is ignored.
Escape ==
    /\ at = "key" /\ menu \in CanEscape
    /\ Return([isHidden EXCEPT ![menu] = TRUE])
    /\ UNCHANGED <<selectedItem, isSelected, g_MenuOffset, screen>>

HasSubmenu == subMenu[menu][selectedItem[menu]] # None

\* The return key: invoke_item with a submenu, with a hook, or with neither.
EnterSubmenu ==
    /\ at = "key" /\ HasSubmenu
    /\ RunMenu(subMenu[menu][selectedItem[menu]], running,
               [isHidden EXCEPT ![menu] = TRUE], isSelected)
    /\ UNCHANGED <<selectedItem, screen>>

system_reboot ==
    /\ at = "key" /\ ~HasSubmenu /\ target[menu][selectedItem[menu]]
    /\ screen' = Blank /\ at' = "reboot"
    /\ UNCHANGED <<selectedItem, isSelected, isHidden, running, g_MenuOffset>>

\* Any other key code, and the keys that do nothing here.
OtherKey ==
    /\ at = "key"
    /\ at' = "draw"
    /\ UNCHANGED <<selectedItem, isSelected, isHidden, running, g_MenuOffset, screen>>

Next ==
    \/ draw_menu
    \/ Up \/ Down \/ Escape \/ EnterSubmenu \/ system_reboot \/ OtherKey

Spec == Init /\ [][Next]_vars

---------------------------------------------------------------------------
\* The item the return key invokes is on the screen whatever keys led here,
\* and it is the only one that is highlighted (print_item_at, run_menu).
Highlighted == {l \in Lines : screen[l].color = "selected"}

HighlightShown ==
    at = "key" => \E l \in Lines : /\ Highlighted = {l}
                                   /\ screen[l].item = selectedItem[menu]

\* Of all menus only the one that reads the keys is not hidden: a menu comes
\* back when its submenu returns, and is not left before (invoke_item, Hide_Menu).
OnlyTopShown ==
    \A m \in Menus : ~isHidden[m] <=> m = menu

=============================================================================

-------------------------------- MODULE Icons --------------------------------
(***************************************************************************)
(* The icons of the pinboard and the panels (icon.c, pinboard.c, panel.c): *)
(* their selection and PRIMARY, the index of paths, the shortcut keys, the *)
(* edit boxes and the popup menu, and the file each board is saved to.     *)
(*                                                                         *)
(* Everything but the widget is global and refers to Icons it holds no     *)
(* reference on: finalizing an Icon has to take it out of all of it.  An   *)
(* Icon is freed when its widget is destroyed, by the user, by a message   *)
(* from another program, or together with its board.                       *)
(***************************************************************************)
EXTENDS Naturals, FiniteSets

CONSTANTS
    Icon,      \* the Icons there may be
    BoardOf,   \* the board each of them is on
    Pinboard,  \* the board that is the pinboard; the others are panels
    Path,      \* the paths of icons
    Shortcut,  \* the strings for shortcut keys
    KeyOf,     \* the key each of them stands for, if it can be parsed
    NoShortcut, NoKey, NoIcon,
    Entries,   \* bound: what the user or a message asks for, as <<path, shortcut, locked>>
    MaxIcons   \* bound: icons at a time

ASSUME IconAssumption ==
    /\ IsFiniteSet(Icon) /\ NoIcon \notin Icon /\ NoShortcut \notin Shortcut
    /\ Entries \subseteq Path \X (Shortcut \cup {NoShortcut}) \X BOOLEAN

VARIABLES
    icon,      \* the Icons
    global,    \* selection, PRIMARY, menu or drag (and at which icon), and the tables
    board      \* the boards that are up, and their files (none at first)

iconVars == <<icon, global, board>>

Board == {BoardOf[i] : i \in Icon}
Key == {KeyOf[s] : s \in Shortcut} \ {NoKey}
KeyOfIcon(ic, i) == IF ic[i].shortcut = NoShortcut THEN NoKey ELSE KeyOf[ic[i].shortcut]

(* What the file says of an icon. *)
Description(p, s, locked) == [path |-> p, shortcut |-> s, locked |-> locked]
Absent == [state |-> "none", path |-> "none", shortcut |-> NoShortcut, locked |-> FALSE,
           selected |-> FALSE, dialog |-> FALSE]

Descriptions == {Description(e[1], e[2], e[3]) : e \in Entries}

(* The state of one handler on its way: the Icons and the globals. *)
State == [icon |-> icon, global |-> global]
OnBoard(ic, b) == {i \in Icon : BoardOf[i] = b /\ ic[i].state = "live"}

IconInit ==
    /\ icon = [i \in Icon |-> Absent]
    /\ global = [selection |-> {}, primary |-> FALSE, refused |-> FALSE, popup |-> "none",
                 at |-> NoIcon, tmp |-> FALSE, hash |-> [p \in Path |-> {}], shortcuts |-> {},
                 count |-> [k \in Key |-> 0], grabbed |-> {}]
    /\ board = [up |-> {}, file |-> [b \in Board |-> {}]]

--------------------
(* Selection. *)

(* icon_set_selected_int: PRIMARY is claimed with the first icon and given *)
(* up with the last; the X server may refuse it.                           *)
SetSelectedInt(s, i, selected) ==
    IF s.icon[i].selected = selected THEN s
    ELSE LET sel == IF selected THEN s.global.selection \cup {i} ELSE s.global.selection \ {i}
         IN [icon |-> [s.icon EXCEPT ![i].selected = selected],
             global |-> [s.global EXCEPT
                !.selection = sel,
                !.primary = IF selected THEN @ \/ ~s.global.refused ELSE @ /\ sel # {}]]

UnselectAll(s, S) ==
    [icon |-> [i \in Icon |-> IF i \in S THEN [s.icon[i] EXCEPT !.selected = FALSE] ELSE s.icon[i]],
     global |-> [s.global EXCEPT !.selection = @ \ S, !.primary = @ /\ s.global.selection \ S # {}]]

(* icon_select_only: the icon is selected before the others are cleared. *)
SelectOnlyIcon(s, i) ==
    LET d == SetSelectedInt(s, i, TRUE) IN UnselectAll(d, d.global.selection \ {i})

(* icon_set_selected *)
SetIconSelected(s, i, selected) ==
    IF selected /\ \E j \in s.global.selection : BoardOf[j] # BoardOf[i]
    THEN SelectOnlyIcon(s, i)
    ELSE SetSelectedInt(s, i, selected)

--------------------
(* Paths and shortcuts. *)

(* icon_set_path *)
SetPath(s, i, p) ==
    [icon |-> [s.icon EXCEPT ![i].path = p],
     global |-> [s.global EXCEPT
        !.hash = [q \in Path |-> IF q = p THEN @[q] \cup {i} ELSE @[q] \ {i}]]]

(* ungrab_key: the last icon with a key gives up the X grab. *)
UngrabKey(s, i) ==
    LET k == KeyOfIcon(s.icon, i)
        n == s.global.count[k] - 1
    IN IF k = NoKey THEN s
       ELSE [s EXCEPT !.global.shortcuts = @ \ {i}, !.global.count[k] = n,
                      !.global.grabbed = IF n > 0 THEN @ ELSE @ \ {k}]

(* grab_key: the first icon with a key asks for the X grab; one that fails *)
(* (the key is another program's) is only warned of.                       *)
GrabKey(s, i) ==
    LET k == KeyOfIcon(s.icon, i)
    IN IF k = NoKey THEN s
       ELSE [s EXCEPT !.global.shortcuts = @ \cup {i}, !.global.count[k] = @ + 1,
                      !.global.grabbed = IF s.global.count[k] > 0 \/ s.global.refused THEN @
                                         ELSE @ \cup {k}]

(* Mutant: a key that is taken by a second icon is not counted again. *)
SetShortcutOnce(s, i, shortcut) ==
    IF s.icon[i].shortcut = shortcut THEN s
    ELSE LET d == [UngrabKey(s, i) EXCEPT !.icon[i].shortcut = shortcut]
             k == KeyOfIcon(d.icon, i)
         IN IF k # NoKey /\ d.global.count[k] > 0
            THEN [d EXCEPT !.global.shortcuts = @ \cup {i}]
            ELSE GrabKey(d, i)

(* icon_set_shortcut *)
SetShortcut(s, i, shortcut) ==
    IF s.icon[i].shortcut = shortcut THEN s
    ELSE GrabKey([UngrabKey(s, i) EXCEPT !.icon[i].shortcut = shortcut], i)

--------------------
(* The life of an Icon. *)

(* icon_finialize returns at once, and leaves everything as it is, if the  *)
(* Icon is selected; its memory is freed all the same.                     *)
Finalize(s, i) ==
    IF s.icon[i].selected THEN [s EXCEPT !.icon[i].state = "freed"]
    ELSE LET d == [s EXCEPT !.global.at = IF @ = i THEN NoIcon ELSE @,
                            !.global.hash = [q \in Path |-> @[q] \ {i}]]
         IN [SetShortcut(d, i, NoShortcut) EXCEPT !.icon[i] = Absent]

FinalizeAll(s, S) ==
    LET each[T \in SUBSET S] ==
          IF T = {} THEN s ELSE LET i == CHOOSE j \in T : TRUE IN Finalize(each[T \ {i}], i)
    IN each[S]

(* icon_destroy *)
DestroyIcon(s, i) ==
    LET d == SetSelectedInt(s, i, FALSE)
    IN IF d.icon[i].locked THEN d ELSE Finalize(d, i)

NewIcon(s, i, d) ==
    LET e == SetPath([s EXCEPT !.icon[i] = [Absent EXCEPT !.state = "live"]], i, d.path)
    IN [SetShortcut(e, i, d.shortcut) EXCEPT !.icon[i].locked = d.locked]

Saved(ic, b) == [i \in OnBoard(ic, b) |-> Description(ic[i].path, ic[i].shortcut, ic[i].locked)]

(* A handler ends, having saved the boards of B. *)
Done(s, B) ==
    /\ icon' = s.icon
    /\ global' = [s.global EXCEPT !.refused = FALSE]
    /\ board' = [board EXCEPT !.file = [b \in Board |-> IF b \in B THEN {Saved(s.icon, b)} ELSE @[b]]]

(* The X server may refuse what a handler asks for: PRIMARY, or a key that *)
(* another program has.                                                    *)
Handler(Op(_), B) ==
    \E refused \in BOOLEAN :
        Done(Op([State EXCEPT !.global.refused = refused]), B)

LiveIcons == {i \in Icon : icon[i].state = "live"}
NoPopup == global.popup = "none"

--------------------
(* The mouse. *)

ToggleIcon(i) ==
    i \in LiveIcons /\ NoPopup /\ Handler(LAMBDA s : SetIconSelected(s, i, ~s.icon[i].selected), {})

(* ACT_SELECT_EXCL; on a panel it does not clear the others. *)
SelectExcl(i) ==
    /\ i \in LiveIcons /\ NoPopup
    /\ Handler(LAMBDA s : IF BoardOf[i] = Pinboard THEN SelectOnlyIcon(s, i)
                          ELSE SetIconSelected(s, i, TRUE), {})

ClearIcons == NoPopup /\ Handler(LAMBDA s : UnselectAll(s, Icon), {})

(* select_lasso: the icons of the pinboard that lie in the lasso box. *)
SelectLasso(S) ==
    /\ NoPopup /\ S # {} /\ S \subseteq OnBoard(icon, Pinboard)
    /\ Handler(LAMBDA s :
         LET each[T \in SUBSET S] ==
               IF T = {} THEN s
               ELSE LET i == CHOOSE j \in T : TRUE IN SetIconSelected(each[T \ {i}], i, TRUE)
         IN each[S], {})

(* start_drag: an icon that is not selected is selected for the drag; with *)
(* another button than the first a panel leaves it selected.               *)
IconDragStarts(i) ==
    /\ i \in LiveIcons /\ NoPopup
    /\ \E adjust \in BOOLEAN :
         Handler(LAMBDA s :
           LET d == [s EXCEPT !.global.popup = "drag", !.global.at = i]
           IN IF s.icon[i].selected THEN d
              ELSE IF adjust /\ BoardOf[i] # Pinboard THEN SetIconSelected(d, i, TRUE)
              ELSE [SelectOnlyIcon(d, i) EXCEPT !.global.tmp = TRUE], {})

(* drag_end is called unless the widget is gone. *)
IconDragEnds ==
    /\ global.popup = "drag"
    /\ Handler(LAMBDA s :
         LET d == [s EXCEPT !.global.popup = "none", !.global.at = NoIcon]
         IN IF s.global.at = NoIcon \/ ~s.global.tmp THEN d
            ELSE [UnselectAll(d, Icon) EXCEPT !.global.tmp = FALSE], {})

--------------------
(* The menu and the edit box. *)

IconMenuOpens(i) ==
    /\ NoPopup /\ i \in LiveIcons \cup {NoIcon}
    /\ Handler(LAMBDA s : [s EXCEPT !.global.popup = "menu", !.global.at = i], {})

IconMenuCloses ==
    /\ global.popup = "menu"
    /\ Handler(LAMBDA s : [s EXCEPT !.global.popup = "none", !.global.at = NoIcon], {})

(* remove_items: the icon of the menu joins the selection; locked icons    *)
(* are refused.                                                            *)
RemoveItems ==
    LET i == global.at
        d == IF i = NoIcon THEN State ELSE SetIconSelected(State, i, TRUE)
        S == d.global.selection
    IN /\ global.popup = "menu"
       /\ i # NoIcon => ~icon[i].locked
       /\ IF \E j \in S : d.icon[j].locked THEN Done(d, {})
          ELSE Done(FinalizeAll(UnselectAll(d, S), S), {BoardOf[j] : j \in S})

(* show_rename_box *)
ShowRenameBox ==
    /\ global.popup = "menu" /\ global.at # NoIcon
    /\ Handler(LAMBDA s : [s EXCEPT !.icon[s.global.at].dialog = TRUE], {})

(* rename_activate *)
RenameActivate(i, d) ==
    /\ i \in LiveIcons /\ icon[i].dialog
    /\ Handler(LAMBDA s : [SetShortcut(SetPath(s, i, d.path), i, d.shortcut) EXCEPT
                             !.icon[i].locked = d.locked, !.icon[i].dialog = FALSE], {BoardOf[i]})

CancelRename(i) ==
    i \in LiveIcons /\ icon[i].dialog /\ Handler(LAMBDA s : [s EXCEPT !.icon[i].dialog = FALSE], {})

--------------------
(* Messages, other programs and the boards. *)

Room(n) == Cardinality(LiveIcons) + n <= MaxIcons

(* pinboard_pin_with_args and panel_add_item *)
Pin(i, d) ==
    /\ icon[i].state = "none" /\ BoardOf[i] \in board.up /\ Room(1)
    /\ Handler(LAMBDA s : NewIcon(s, i, d), {BoardOf[i]})

(* PinboardAdd with Update: the icon with the path takes the rest over. *)
PinUpdate(i, d) ==
    /\ i \in OnBoard(icon, Pinboard) /\ icon[i].path = d.path
    /\ Handler(LAMBDA s : [SetShortcut(SetPath(s, i, d.path), i, d.shortcut) EXCEPT
                             !.icon[i].locked = d.locked], {Pinboard})

(* pinboard_remove and remove_item_from_side, which unlock the icon. *)
RemoveIcon(i) ==
    /\ i \in LiveIcons
    /\ Handler(LAMBDA s : DestroyIcon([s EXCEPT !.icon[i].locked = FALSE], i), {BoardOf[i]})

(* Another program claims PRIMARY: lose_selection. *)
LoseSelection ==
    /\ global.primary
    /\ Handler(LAMBDA s : UnselectAll([s EXCEPT !.global.primary = FALSE], Icon), {})

(* The icons the file lists, or the one for the home directory. *)
Loads(b) == IF board.file[b] # {} THEN board.file[b]
            ELSE {[i \in {j} |-> Description(p, NoShortcut, FALSE)] :
                    j \in {j \in Icon : BoardOf[j] = b}, p \in Path}

LoadAll(s, file) ==
    LET each[T \in SUBSET DOMAIN file] ==
          IF T = {} THEN s
          ELSE LET i == CHOOSE j \in T : TRUE
                   d == each[T \ {i}]
               IN IF d.icon[i].state = "none" THEN NewIcon(d, i, file[i]) ELSE d
    IN each[DOMAIN file]

(* pinboard_activate or panel_new with a name: the old board is taken down *)
(* first.                                                                  *)
Activate(b) ==
    \E file \in Loads(b) :
        LET d == LoadAll(FinalizeAll(State, OnBoard(icon, b)), file)
        IN /\ Cardinality({i \in Icon : d.icon[i].state = "live"}) <= MaxIcons
           /\ icon' = d.icon /\ global' = d.global
           /\ board' = [board EXCEPT !.up = @ \cup {b}]

(* ... without a name: the pinboard is turned off, a panel is removed. *)
TurnOff(b) ==
    /\ b \in board.up
    /\ LET d == FinalizeAll(State, OnBoard(icon, b))
       IN /\ icon' = d.icon /\ global' = d.global
          /\ board' = [board EXCEPT !.up = @ \ {b}]

FreedSelected == {i \in Icon : icon[i].state = "freed"}

IconNext ==
    \/ \E i \in Icon : ToggleIcon(i) \/ SelectExcl(i) \/ IconDragStarts(i) \/ RemoveIcon(i)
    \/ ClearIcons
    \/ \E S \in SUBSET Icon : SelectLasso(S)
    \/ IconDragEnds
    \/ \E i \in Icon \cup {NoIcon} : IconMenuOpens(i)
    \/ IconMenuCloses
    \/ RemoveItems
    \/ ShowRenameBox
    \/ \E i \in Icon, d \in Descriptions : RenameActivate(i, d) \/ Pin(i, d) \/ PinUpdate(i, d)
    \/ \E i \in Icon : CancelRename(i)
    \/ LoseSelection
    \/ \E b \in Board : Activate(b) \/ TurnOff(b)

(* What happens once freed memory is used is not modelled. *)
SoundNext == FreedSelected = {} /\ IconNext

BoardsSpec == IconInit /\ [][SoundNext]_iconVars

--------------------
(* "Every icon in the list is from the same group", and the filer owns     *)
(* PRIMARY only while there is something to send.                          *)
OneGroup == FreedSelected = {} =>
    /\ global.selection = {i \in LiveIcons : icon[i].selected}
    /\ \A i, j \in global.selection : BoardOf[i] = BoardOf[j]
    /\ global.primary => global.selection # {}

(* Through edits, removals and boards that come and go, icons_hash finds   *)
(* each icon under its path and nothing else; "the same combo may be listed*)
(* more than once, but has only one X grab", which is given back with the  *)
(* last icon that has it.                                                  *)
TablesExact == FreedSelected = {} =>
    /\ \A p \in Path : global.hash[p] = {i \in LiveIcons : icon[i].path = p}
    /\ global.shortcuts = {i \in LiveIcons : KeyOfIcon(icon, i) # NoKey}
    /\ \A k \in Key : LET S == {i \in LiveIcons : KeyOfIcon(icon, i) = k}
                      IN global.count[k] = Cardinality(S) /\ (k \in global.grabbed => S # {})
    /\ global.at \in LiveIcons \cup {NoIcon}

(* The file of a board that is up says what is on the board, unless nothing*)
(* was ever changed on it.                                                 *)
SavedAsShown == \A b \in board.up :
    FreedSelected = {} => board.file[b] \subseteq {Saved(icon, b)}

(* Selection, tables and files agree with the icons there are, whatever is *)
(* done to them and to their boards.                                       *)
BoardsRight == OneGroup /\ TablesExact /\ SavedAsShown

(* g_return_if_fail(!icon->selected): an Icon is not finalized while it is *)
(* on the selection.                                                       *)
FreedUnselected == FreedSelected = {}
=============================================================================

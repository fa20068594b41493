----------------------------- MODULE Collection -----------------------------
(***************************************************************************)
(* The icon view of a filer window: the Collection widget (collection.c),  *)
(* what view_collection.c makes of the Directory's reports, and the PRIMARY*)
(* selection the window owns while something is selected in it (filer.c).  *)
(*                                                                         *)
(* Every mark of a Collection is a position in its array, so each operation*)
(* that moves items must move the marks with them; and the counter, the    *)
(* signals and the owner of PRIMARY follow the selected flags at a         *)
(* distance.  Items are numbers in the order of their names; a key stands  *)
(* for what the window sorts by first.                                     *)
(***************************************************************************)
EXTENDS Integers, Sequences, FiniteSets, SequencesExt

CONSTANTS
    NItems,   \* the items there may be: 1..NItems
    MaxKey,   \* what they are sorted by: 1..MaxKey
    MaxWinks, \* MAX_WINKS
    MaxRows   \* bound: the rows that may be visible

ASSUME CollectionAssumption ==
    NItems \in Nat /\ MaxKey \in Nat \ {0} /\ MaxWinks \in Nat /\ MaxRows \in Nat

VARIABLE coll

Item == 1..NItems
Len1(c) == Len(c.order)
Position == -1..(NItems - 1)

(* The item at a position; positions count from 0. *)
At(c, i) == c.order[i + 1]
InRange(c, i) == i \in 0..(Len1(c) - 1)
PositionOf(c, x) == (CHOOSE i \in 1..Len1(c) : c.order[i] = x) - 1

NewCollection == [order |-> <<>>, key |-> [x \in Item |-> 1], sel |-> {}, count |-> 0,
                  cursor |-> -1, old |-> -1, wink |-> -1, winks |-> 0, timer |-> FALSE,
                  pending |-> -1, mapped |-> FALSE, columns |-> 1, vertical |-> FALSE,
                  primary |-> "none", normal |-> FALSE, temp |-> FALSE, popup |-> "none",
                  lost |-> FALSE, refused |-> FALSE]

--------------------
(* Signals and the PRIMARY selection. *)

(* lose_selection: filer_lost_selection gives PRIMARY up. *)
Lose(c) == [c EXCEPT !.lost = TRUE, !.primary = IF @ = "us" THEN "none" ELSE @]

(* Mutant: a selection that is not claimed is drawn as before. *)
ChangedKeepsState(c) ==
    LET claimed == ~c.temp /\ ~c.refused
    IN IF c.primary = "us" \/ c.count = 0 \/ ~claimed THEN c
       ELSE [c EXCEPT !.primary = "us", !.normal = TRUE]

(* selection_changed: filer_selection_changed claims PRIMARY if there is   *)
(* something to send, unless the item is only selected for a menu or a     *)
(* drag; the X server may refuse.                                          *)
Changed(c) ==
    LET claimed == ~c.temp /\ ~c.refused
    IN IF c.primary = "us" \/ c.count = 0 THEN c
       ELSE [c EXCEPT !.primary = IF claimed THEN "us" ELSE @, !.normal = claimed]

(* collection_item_set_selected, before it tells of the change. *)
Marked(c, x, selected, signal) ==
    IF (x \in c.sel) = selected THEN c
    ELSE LET n == IF selected THEN c.count + 1 ELSE c.count - 1
             d == [c EXCEPT !.sel = IF selected THEN @ \cup {x} ELSE @ \ {x}, !.count = n]
         IN IF signal /\ n = 0 THEN Lose(d) ELSE d

SetSelected(c, x, selected) ==
    IF (x \in c.sel) = selected THEN c ELSE Changed(Marked(c, x, selected, TRUE))

(* collection_clear_except. *)
ClearExcept(c, x) ==
    LET d == IF x = 0 THEN c ELSE SetSelected(c, x, TRUE)
        e == [d EXCEPT !.sel = @ \cap {x}, !.count = IF x = 0 THEN 0 ELSE 1]
    IN IF d.count = 0 THEN d ELSE Changed(IF x = 0 THEN Lose(e) ELSE e)

(* collection_select_all. *)
SelectAll(c) == IF c.count = Len1(c) THEN c
                ELSE Changed([c EXCEPT !.sel = Range(c.order), !.count = Len1(c)])

(* The items after the first i are marked one by one, those in S as        *)
(* selected.                                                               *)
MarkedAfter(c, i, S, signal) ==
    LET marked[k \in 0..Len1(c)] ==
          IF k <= i THEN c
          ELSE Marked(marked[k - 1], c.order[k], c.order[k] \in S, signal)
    IN marked[Len1(c)]

(* view_select_if: while something is selected the first item is selected  *)
(* to the last, so that PRIMARY is not lost and claimed again.             *)
SelectIf(c, S) ==
    IF Len1(c) = 0 THEN c
    ELSE LET first == Head(c.order)
             d == IF c.count > 0 THEN Marked(c, first, TRUE, TRUE) ELSE c
         IN Changed(Marked(MarkedAfter(d, 1, S, TRUE), first, first \in S, TRUE))

(* collection_process_area: the items in the lasso box are selected, or    *)
(* toggled.                                                                *)
ProcessArea(c, S, toggle) ==
    LET d == MarkedAfter(c, 0, IF toggle THEN (c.sel \ S) \cup (S \ c.sel) ELSE c.sel \cup S, FALSE)
        e == IF d.count = 0 /\ c.count > 0 THEN Lose(d) ELSE d
    IN IF S \cap Range(c.order) = {} THEN e ELSE Changed(e)

--------------------
(* Order and position. *)

Before(c, x, y) == c.key[x] < c.key[y] \/ (c.key[x] = c.key[y] /\ x < y)
Sorted(c) == \A i \in 1..(Len1(c) - 1) : Before(c, c.order[i], c.order[i + 1])

(* The members of W in the order of the relation R: each at the place that *)
(* the members before it leave it.                                         *)
Arranged(W, R) ==
    LET Before1(x) == {y \in W : <<y, x>> \in R}
    IN [j \in 1..Cardinality(W) |-> CHOOSE x \in W : Cardinality(Before1(x)) = j - 1]

InSortOrder(c) == {p \in Range(c.order) \X Range(c.order) : Before(c, p[1], p[2])}
InArrayOrder(c) == {p \in Range(c.order) \X Range(c.order) : PositionOf(c, p[1]) < PositionOf(c, p[2])}

(* collection_set_cursor_item. *)
SetCursor(c, i) ==
    [c EXCEPT !.cursor = i, !.old = IF i = -1 /\ c.cursor # -1 THEN c.cursor ELSE @]

(* Where the item at position i of c is in d. *)
Moved(c, d, i) == IF InRange(c, i) THEN PositionOf(d, At(c, i)) ELSE i

(* Mutant: the cursor stays where it is in the window. *)
QsortCursorStays(c) ==
    IF Len1(c) < 2 \/ Sorted(c) THEN c
    ELSE LET d == [c EXCEPT !.order = Arranged(Range(@), InSortOrder(c))]
         IN [d EXCEPT !.pending = Moved(c, d, @), !.wink = Moved(c, d, @)]

(* collection_qsort: the cursor, the wink and the wink that waits for the  *)
(* window keep their items.                                                *)
Qsort(c) ==
    IF Len1(c) < 2 \/ Sorted(c) THEN c
    ELSE LET d == [c EXCEPT !.order = Arranged(Range(@), InSortOrder(c))]
         IN [d EXCEPT !.cursor = Moved(c, d, @), !.pending = Moved(c, d, @),
                      !.wink = Moved(c, d, @),
                      !.old = IF InRange(c, c.wink) THEN Moved(c, d, c.wink) ELSE @]

(* collection_find_item halves the span <<lower, upper>> until it meets    *)
(* the item.                                                               *)
Find(c, x) ==
    LET search[p \in (0..Len1(c)) \X (0..Len1(c))] ==
          LET i == (p[1] + p[2]) \div 2
          IN IF p[1] >= p[2] THEN -1
             ELSE IF At(c, i) = x THEN i
             ELSE IF Before(c, x, At(c, i)) THEN search[<<p[1], i>>] ELSE search[<<i + 1, p[2]>>]
    IN search[<<0, Len1(c)>>]

(* collection_delete_if: the cursor goes back by the items that are taken  *)
(* away at or before it, and a wink is stopped; a wink that waits for the  *)
(* window is left where it is.                                             *)
DeleteIf(c, S) ==
    LET gone == {i \in 0..(Len1(c) - 1) : At(c, i) \in S}
        d == [c EXCEPT !.order = Arranged(Range(@) \ S, InArrayOrder(c)), !.sel = @ \ S,
                       !.cursor = @ - Cardinality({i \in gone : i <= @}),
                       !.wink = -1, !.timer = FALSE]
        e == IF c.count > 0 /\ d.sel = {} THEN Lose(d) ELSE d
    IN IF gone = {} THEN c ELSE [e EXCEPT !.count = Cardinality(d.sel)]

(* view_collection_add_items: insert at the end, then sort. *)
AddItems(c, xs) == Qsort([c EXCEPT !.order = @ \o xs])

Rows(c) == LET n == (Len1(c) + c.columns - 1) \div c.columns IN IF n > 1 THEN n ELSE 1
Cols(c) == IF ~c.vertical THEN c.columns
           ELSE LET n == (Len1(c) + Rows(c) - 1) \div Rows(c) IN IF n > 1 THEN n ELSE 1

(* collection_item_to_rowcol and collection_rowcol_to_item. *)
RowCol(c, i) == IF c.vertical THEN <<i % Rows(c), i \div Rows(c)>>
                ELSE <<i \div c.columns, i % c.columns>>
ItemAt(c, row, col) ==
    IF c.vertical THEN IF row >= Rows(c) THEN Len1(c) ELSE row + col * Rows(c)
    ELSE row * c.columns + col

Clamp(i, low, high) == IF i < low THEN low ELSE IF i > high THEN high ELSE i

(* collection_move_cursor, when rows first to last can be seen. *)
RowMoved(c, row, col, drow) ==
    CASE ~c.vertical -> <<Clamp(row + drow, 0, Rows(c) - 1), col>>
      [] c.vertical /\ drow > 0 /\ row = Rows(c) - 1 ->
           IF col # Cols(c) - 1 THEN <<0, col + 1>> ELSE <<row, col>>
      [] c.vertical /\ drow < 0 /\ row = 0 ->
           IF col # 0 THEN <<Rows(c) - 1, col - 1>> ELSE <<row, col>>
      [] OTHER -> <<Clamp(row + drow, 0, Rows(c) - 1), col>>

Target(c, drow, dcol, first, last) ==
    LET from == IF c.cursor # -1 THEN c.cursor
                ELSE IF c.old < Len1(c) THEN c.old ELSE Len1(c) - 1
        row  == RowCol(c, from)[1]
        col0 == RowCol(c, from)[2] + dcol
        col  == IF c.vertical THEN Clamp(col0, 0, Cols(c) - 1) ELSE col0
        to   == IF from = -1 THEN <<first, 0>>
                ELSE IF row < first THEN <<first, col>>
                ELSE IF row > last THEN <<last, col>>
                ELSE RowMoved(c, row, col, drow)
    IN Clamp(ItemAt(c, to[1], to[2]), 0, Len1(c) - 1)

MoveCursor(c, drow, dcol, first, last, mark) ==
    IF Len1(c) = 0 THEN SetCursor(c, 0)
    ELSE LET i == Target(c, drow, dcol, first, last)
             d == IF mark = "none" THEN c ELSE SetSelected(c, At(c, i), mark = "select")
         IN SetCursor(d, i)

--------------------
(* A step of the program: lost tells whether it gave PRIMARY up, and the   *)
(* X server refuses a claim of PRIMARY that comes too late; a step that    *)
(* selects nothing claims nothing.                                         *)
StepQuietly(Op(_)) == coll' = Op([coll EXCEPT !.lost = FALSE])
Step(Op(_)) ==
    \E refused \in BOOLEAN :
        coll' = [Op([coll EXCEPT !.lost = FALSE, !.refused = refused]) EXCEPT !.refused = FALSE]

CollInit == \E n \in {1, 2}, v \in BOOLEAN :
                coll = [NewCollection EXCEPT !.columns = n, !.vertical = v]

Shown == {coll.order[i] : i \in 1..Len1(coll)}
Idle == coll.popup = "none"

(* What the Directory finds: items it adds, changes and then tells of, or  *)
(* takes away.                                                             *)
ItemsAdded(S)   == S # {} /\ S \cap Shown = {} /\ StepQuietly(LAMBDA c : AddItems(c, SetToSeq(S)))
ItemChanges(x, k) == k # coll.key[x] /\ StepQuietly(LAMBDA c : [c EXCEPT !.key[x] = k])
ItemsUpdated    == StepQuietly(Qsort)
ItemsDeleted(S) == S # {} /\ S \subseteq Shown /\ Step(LAMBDA c : DeleteIf(c, S))

ItemSteps ==
    \/ \E S \in SUBSET Item : ItemsAdded(S) \/ ItemsDeleted(S)
    \/ \E x \in Item, k \in 1..MaxKey : ItemChanges(x, k)
    \/ ItemsUpdated

(* collection_wink_item; a window that is not mapped yet keeps it for      *)
(* collection_map.                                                         *)
Wink(c, i) ==
    LET d == [c EXCEPT !.wink = -1, !.timer = FALSE]
    IN CASE i # -1 /\ ~c.mapped -> [d EXCEPT !.pending = i]
         [] i # -1 /\ c.mapped  -> [d EXCEPT !.old = i, !.wink = i, !.winks = MaxWinks, !.timer = TRUE]
         [] OTHER -> d

WinkOnMap(c) ==
    LET d == [c EXCEPT !.mapped = TRUE]
    IN [(IF InRange(c, c.pending) THEN Wink(d, c.pending) ELSE d) EXCEPT !.pending = -1]

Winked(i) == Idle /\ InRange(coll, i) /\ StepQuietly(LAMBDA c : Wink(c, i))
Map == ~coll.mapped /\ StepQuietly(WinkOnMap)
WinkTimeout ==
    /\ coll.timer
    /\ StepQuietly(LAMBDA c : IF c.winks > 0 THEN [c EXCEPT !.winks = @ - 1]
                       ELSE [c EXCEPT !.wink = -1, !.timer = FALSE])

(* The cursor keys, Home, End and a button press. *)
CursorKey(drow, dcol, first, last, mark) ==
    LET Move(c) == MoveCursor(c, drow, dcol, first, last, mark)
    IN Idle /\ IF mark = "none" THEN StepQuietly(Move) ELSE Step(Move)
CursorSet ==
    /\ Idle
    /\ \E i \in {-1, 0, IF Len1(coll) > 0 THEN Len1(coll) - 1 ELSE 0} :
         StepQuietly(LAMBDA c : SetCursor(c, i))
Resize(n) == StepQuietly(LAMBDA c : [c EXCEPT !.columns = n])

MarkSteps ==
    \/ \E i \in Position : Winked(i)
    \/ Map
    \/ WinkTimeout
    \/ \E first, last \in 0..MaxRows : first <= last /\
           \E d \in {<<-1, 0>>, <<1, 0>>, <<0, -1>>, <<0, 1>>, <<first - last + 1, 0>>,
                     <<last - first - 1, 0>>} :
               CursorKey(d[1], d[2], first, last, "none")
    \/ CursorSet
    \/ \E n \in {1, 2} : Resize(n)

--------------------
(* The selection. *)
Toggle(x) == Idle /\ x \in Shown /\ Step(LAMBDA c : SetSelected(c, x, x \notin c.sel))
SelectOnly(x) == Idle /\ x \in Shown /\ Step(LAMBDA c : ClearExcept(c, x))
ClearSelection == Idle /\ Step(LAMBDA c : ClearExcept(c, 0))
SelectEvery == Idle /\ Step(SelectAll)
SelectWhere(S) == Idle /\ Step(LAMBDA c : SelectIf(c, S))
EndLasso(S, toggle) == Idle /\ Step(LAMBDA c : ProcessArea(c, S, toggle))
ShiftArrow(mark) == CursorKey(1, 0, 0, MaxRows, mark)

(* filer_perform_action on a selected item that is drawn as not owned. *)
Reclaim ==
    /\ Idle /\ coll.count > 0 /\ ~coll.normal
    /\ Step(LAMBDA c : Changed([c EXCEPT !.temp = FALSE]))

(* filer_lost_primary. *)
OtherClaims ==
    /\ coll.primary # "other"
    /\ Step(LAMBDA c : [c EXCEPT !.primary = "other", !.normal = @ /\ c.primary # "us"])

(* show_filer_menu over an item, or over none. *)
MenuOpens(x) ==
    /\ Idle /\ x \in Shown \cup {0}
    /\ Step(LAMBDA c :
           LET temp == c.count = 0 /\ x # 0
               d == [c EXCEPT !.temp = temp, !.popup = "menu"]
           IN IF temp THEN SetSelected(d, x, TRUE) ELSE d)

(* filer_motion_notify: a drag begins, unless the item no longer exists. *)
DragStarts(x, ctrl) ==
    /\ Idle /\ x \in Shown
    /\ \E popup \in {"drag", "none"} :
         Step(LAMBDA c :
           LET d == [Wink(c, -1) EXCEPT
                       !.temp = IF x \notin c.sel /\ (ctrl => c.count = 0) THEN TRUE ELSE @]
               e == IF x \in c.sel THEN d
                    ELSE IF ctrl THEN SetSelected(d, x, TRUE) ELSE ClearExcept(d, x)
           IN [e EXCEPT !.popup = IF e.count = 1 THEN popup ELSE "drag"])

(* menu_closed and drag_end. *)
PopupEnds ==
    /\ ~Idle
    /\ Step(LAMBDA c : LET d == IF c.temp THEN ClearExcept(c, 0) ELSE c
                       IN [d EXCEPT !.temp = FALSE, !.popup = "none"])

(* target_callback: an item is chosen for a command of the menu. *)
TargetChosen(x) ==
    /\ Idle /\ x \in Shown
    /\ Step(LAMBDA c :
           LET d == ClearExcept(Wink([c EXCEPT !.temp = TRUE], PositionOf(c, x)), x)
           IN [ClearExcept(d, 0) EXCEPT !.temp = FALSE])

SelectionSteps ==
    \/ \E x \in Item : Toggle(x) \/ SelectOnly(x) \/ TargetChosen(x)
    \/ ClearSelection
    \/ SelectEvery
    \/ \E S \in SUBSET Item : SelectWhere(S) \/ \E toggle \in BOOLEAN : EndLasso(S, toggle)
    \/ \E mark \in {"select", "unselect"} : ShiftArrow(mark)
    \/ Reclaim
    \/ OtherClaims
    \/ \E x \in Item \cup {0} : MenuOpens(x)
    \/ \E x \in Item, ctrl \in BOOLEAN : DragStarts(x, ctrl)
    \/ PopupEnds

CollectionSpec == CollInit /\ [][ItemSteps \/ MarkSteps \/ SelectionSteps]_coll

--------------------
(* The window owns PRIMARY only while there is something to send (else     *)
(* selection_get warns of an "empty selection"), and the counter it goes   *)
(* by is right; and it gives PRIMARY up only when nothing is left selected, *)
(* not to claim it again within one command (view_select_if).              *)
PrimaryMeansSelection ==
    /\ coll.sel \subseteq Shown /\ coll.count = Cardinality(coll.sel)
    /\ coll.primary = "us" => coll.count > 0
    /\ coll.lost => coll.count = 0

(* A selection is drawn as it is owned: set_selection_state follows the    *)
(* owner of PRIMARY through refusals, menus, drags and other programs.     *)
DrawnAsOwned == coll.count > 0 => (coll.normal <=> coll.primary = "us")

(* The cursor and the winks are on items, and a wink that can be seen ends;*)
(* what a report of changed items looks up is found where it is, as the    *)
(* view is sorted first, by the order that the search goes by.             *)
MarksInRange ==
    /\ InRange(coll, coll.cursor) \/ coll.cursor = -1 \/ (coll.cursor = 0 /\ Shown = {})
    /\ coll.timer <=> coll.wink # -1
    /\ coll.timer => InRange(coll, coll.wink)
    /\ Sorted(Qsort(coll))
    /\ \A x \in Item :
         Find(Qsort(coll), x) = IF x \in Shown THEN PositionOf(Qsort(coll), x) ELSE -1

(* Selection, owner and marks agree with the items there are, in whatever  *)
(* order items, keys, menus, drags and other programs come.                *)
CollectionRight == PrimaryMeansSelection /\ DrawnAsOwned /\ MarksInRange

(* Sorting and the arrival of items leave every mark on its item, and so   *)
(* does a deletion the cursor (collection_qsort, collection_delete_if).    *)
Follows(i, j, x) == x \in Range(coll'.order) => InRange(coll', j) /\ At(coll', j) = x
MarksMove == coll'.order # coll.order =>
    /\ InRange(coll, coll.cursor) => Follows(coll.cursor, coll'.cursor, At(coll, coll.cursor))
    /\ Shown \subseteq Range(coll'.order) =>
         /\ InRange(coll, coll.wink) => Follows(coll.wink, coll'.wink, At(coll, coll.wink))
         /\ InRange(coll, coll.pending) =>
              Follows(coll.pending, coll'.pending, At(coll, coll.pending))
MarksFollow == [][MarksMove]_coll

(* Both: what the selection and the marks claim holds in every state, and  *)
(* across every change of the order.                                       *)
CollectionKept == []CollectionRight /\ MarksFollow
=============================================================================

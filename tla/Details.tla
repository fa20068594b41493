------------------------------ MODULE Details ------------------------------
(* The list view (view_details.c).  It is a GtkTreeView and also the model  *)
(* that this shows: an array of items, whose every change is announced by   *)
(* row signals.  GTK keeps what it knows of a row, the selection and the    *)
(* cursor, by position, and moves it only as the signals say.  Positions    *)
(* count from 1; 0 stands for none.                                         *)
EXTENDS Integers, Sequences, FiniteSets

CONSTANTS Row,       \* the items there can be, 1..n
          MaxSortKey \* bound: the values an item may be sorted by

ASSUME DetailsAssumption ==
    Row \subseteq Nat \ {0} /\ IsFiniteSet(Row) /\ MaxSortKey \in Nat \ {0}

VARIABLES
    list,     \* the ViewDetails with its items
    gtk,      \* what the tree view keeps of the rows
    chosen    \* the items the user selected, and the one under the cursor

View == [list |-> list, gtk |-> gtk]    \* the operations act on such a pair

DetailsInit ==
    /\ list = [items |-> << >>, key |-> [x \in Row |-> 1], ascending |-> TRUE, wink |-> 0,
               missed |-> {}]
    /\ gtk = [selected |-> << >>, cursor |-> 0]
    /\ chosen = [items |-> {}, cursor |-> 0]

Items(l) == {l.items[i] : i \in DOMAIN l.items}
AfterRemoval(s, i) == [j \in 1..(Len(s) - 1) |-> s[IF j < i THEN j ELSE j + 1]]

--------------------
(* What GTK does on a signal about the row at position i, or all of them. *)
RowInserted(g, i) ==
    [selected |-> [j \in 1..(Len(g.selected) + 1) |->
                     IF j < i THEN g.selected[j] ELSE j > i /\ g.selected[j - 1]],
     cursor |-> IF g.cursor >= i THEN g.cursor + 1 ELSE g.cursor]

RowDeleted(g, i) ==
    [selected |-> AfterRemoval(g.selected, i),
     cursor |-> IF g.cursor = i THEN 0 ELSE IF g.cursor > i THEN g.cursor - 1 ELSE g.cursor]

RowsReordered(g, newOrder) ==
    [selected |-> [j \in DOMAIN newOrder |-> g.selected[newOrder[j]]],
     cursor |-> IF g.cursor = 0 THEN 0 ELSE CHOOSE j \in DOMAIN newOrder : newOrder[j] = g.cursor]

--------------------
(* wrap_sort: names decide between equal keys, and all is reversed. *)
SortsBefore(l, x, y) ==
    LET before == l.key[x] < l.key[y] \/ (l.key[x] = l.key[y] /\ x < y)
    IN x # y /\ (before <=> l.ascending)

(* Mutant: the inverse, where each row goes to. *)
ReorderOfInverse(old, new) == [i \in DOMAIN old |-> CHOOSE j \in DOMAIN new : old[i] = new[j]]

(* new_order: for each new position the old one. *)
ReorderOf(old, new) == [j \in DOMAIN new |-> CHOOSE i \in DOMAIN old : old[i] = new[j]]

(* The row that is being flashed is looked for from the last new position,  *)
(* and the position found is compared with the old ones that remain.        *)
WinkMoves(old, wink) ==
    LET n == Len(old)
        at[k \in 0..n] == IF k = 0 THEN wink
                          ELSE IF at[k - 1] = old[n - k + 1] THEN n - k + 1 ELSE at[k - 1]
    IN at[n]

Resort(v) ==
    LET l == v.list
        place(x) == Cardinality({y \in Items(l) : SortsBefore(l, y, x)}) + 1
        sorted == [j \in DOMAIN l.items |-> CHOOSE x \in Items(l) : place(x) = j]
    IN [list |-> [l EXCEPT !.items = sorted,
                           !.wink = WinkMoves(ReorderOf(l.items, sorted), @)],
        gtk |-> RowsReordered(v.gtk, ReorderOf(l.items, sorted))]

(* The new items are appended, each announced, and then sorted in. *)
Appended(v, x) ==
    [list |-> [v.list EXCEPT !.items = Append(@, x)],
     gtk |-> RowInserted(v.gtk, Len(v.list.items) + 1)]

AddRows(v, new) ==
    LET added[n \in 0..Len(new)] == IF n = 0 THEN v ELSE Appended(added[n - 1], new[n])
    IN Resort(added[Len(new)])

(* details_find_item: a binary search in the order the array should have. *)
FindItem(l, x) ==
    LET search[p \in (1..(Len(l.items) + 1)) \X (1..(Len(l.items) + 1))] ==
          LET i == (p[1] + p[2]) \div 2
          IN IF p[1] >= p[2] THEN 0
             ELSE IF l.items[i] = x THEN i
             ELSE IF SortsBefore(l, x, l.items[i]) THEN search[<<p[1], i>>] ELSE search[<<i + 1, p[2]>>]
    IN search[<<1, Len(l.items) + 1>>]

(* The keys have changed already.  Each item must be found to be redrawn. *)
UpdateRows(v, S) ==
    LET w == Resort(v)
    IN [w EXCEPT !.list.missed = {x \in S \cap Items(w.list) : FindItem(w.list, x) = 0}]

(* Rows are removed and announced in one pass from the top. *)
Removed(v, i) ==
    [list |-> [v.list EXCEPT !.items = AfterRemoval(@, i)],
     gtk |-> RowDeleted(v.gtk, i)]

DeleteRows(v, S) ==
    LET n == Len(v.list.items)
        pass[k \in 0..n] ==      \* after k items have been tested: the view, and i
          IF k = 0 THEN [v |-> v, i |-> 1]
          ELSE LET p == pass[k - 1]
               IN IF p.v.list.items[p.i] \in S THEN [v |-> Removed(p.v, p.i), i |-> p.i]
                  ELSE [v |-> p.v, i |-> p.i + 1]
    IN pass[n].v

(* All rows are announced as gone, the last first, then the array is empty. *)
ClearRows(v) ==
    LET n == Len(v.list.items)
        gone[k \in 0..n] == IF k = 0 THEN v.gtk ELSE RowDeleted(gone[k - 1], n - k + 1)
    IN [list |-> [v.list EXCEPT !.items = << >>], gtk |-> gone[n]]

--------------------
(* The iterator: the items in turn from the start, from the cursor or from  *)
(* a base (noted when the minibuffer opened; the rows may have changed      *)
(* since), forwards or backwards, round the end, and possibly only the      *)
(* selected ones.                                                           *)
IterStart(l, g, base, flags) ==
    LET n == Len(l.items)
        i == IF "from cursor" \in flags THEN g.cursor
             ELSE IF "from base" \in flags THEN base ELSE 0
    IN IF i \in 1..n THEN i ELSE IF "backwards" \in flags THEN n ELSE 1

IterStep(n, i, flags) ==
    IF "backwards" \in flags THEN (IF i = 1 THEN n ELSE i - 1) ELSE (IF i = n THEN 1 ELSE i + 1)

IterItems(l, g, base, flags) ==
    LET n == IF "from cursor" \in flags /\ g.cursor = 0 THEN 0 ELSE Len(l.items)
        at[k \in 1..n] == IF k = 1 THEN IterStart(l, g, base, flags) ELSE IterStep(n, at[k - 1], flags)
        given[k \in 0..n] ==    \* of the first k rows
          IF k = 0 THEN << >>
          ELSE IF "selected" \in flags => g.selected[at[k]] THEN Append(given[k - 1], at[k])
          ELSE given[k - 1]
    IN given[n]

--------------------
(* The directory tells the view what is new, changed and gone. *)
Becomes(v, c) == list' = v.list /\ gtk' = v.gtk /\ chosen' = c

ItemsNew(new) ==
    /\ \A i \in DOMAIN new : new[i] \notin Items(list)
    /\ Becomes(AddRows(View, new), chosen)

ItemsModified(S, k) ==
    /\ S # {} /\ \E x \in S : list.key[x] # k
    /\ Becomes(UpdateRows([View EXCEPT !.list.key = [x \in Row |-> IF x \in S THEN k ELSE @[x]]], S),
               chosen)

ItemsGone(S) ==
    /\ S \cap Items(list) # {}
    /\ Becomes(DeleteRows(View, S), [items |-> chosen.items \ S,
                                     cursor |-> IF chosen.cursor \in S THEN 0 ELSE chosen.cursor])

ClearView == list.items # << >> /\ Becomes(ClearRows(View), [items |-> {}, cursor |-> 0])

ReverseOrder ==
    Becomes(Resort([View EXCEPT !.list.ascending = ~@]), chosen)

(* The user selects by position. *)
SetSelectedRow(i, on) ==
    /\ i \in DOMAIN list.items
    /\ gtk' = [gtk EXCEPT !.selected[i] = on]
    /\ chosen' = [chosen EXCEPT !.items = IF on THEN @ \cup {list.items[i]} ELSE @ \ {list.items[i]}]
    /\ UNCHANGED list

SelectOnlyRow(i) ==
    /\ i \in DOMAIN list.items
    /\ gtk' = [gtk EXCEPT !.selected = [j \in DOMAIN @ |-> j = i]]
    /\ chosen' = [chosen EXCEPT !.items = {list.items[i]}]
    /\ UNCHANGED list

SelectAllRows(on) ==
    /\ gtk' = [gtk EXCEPT !.selected = [j \in DOMAIN @ |-> on]]
    /\ chosen' = [chosen EXCEPT !.items = IF on THEN Items(list) ELSE {}]
    /\ UNCHANGED list

CursorToIter(i) ==
    /\ i \in 0..Len(list.items)
    /\ gtk' = [gtk EXCEPT !.cursor = i]
    /\ chosen' = [chosen EXCEPT !.cursor = IF i = 0 THEN 0 ELSE list.items[i]]
    /\ UNCHANGED list

(* A lasso takes the rows between its ends.  The start was noted when the   *)
(* button went down, and the rows may have changed since: it may be any.    *)
LassoWants(start, end, toggle, i, selected) ==
    IF i < start \/ i >= end THEN selected ELSE ~toggle \/ ~selected

LassoRows(start, end, toggle) ==
    LET low  == IF start < end THEN start ELSE end
        high == IF start < end THEN end ELSE start
    IN /\ end <= Len(list.items) + 1
       /\ gtk' = [gtk EXCEPT !.selected =
                     [i \in DOMAIN @ |-> LassoWants(low, high, toggle, i, @[i])]]
       /\ chosen' = [chosen EXCEPT !.items =
                     {list.items[i] : i \in {j \in DOMAIN list.items : gtk'.selected[j]}}]
       /\ UNCHANGED list

(* A row is flashed, until the timeout has run seven times. *)
WinkRow(i) == i \in DOMAIN list.items /\ list' = [list EXCEPT !.wink = i] /\ UNCHANGED <<gtk, chosen>>
WinkEnds   == list.wink # 0 /\ list' = [list EXCEPT !.wink = 0] /\ UNCHANGED <<gtk, chosen>>

DetailsNext ==
    \/ \E x, y \in Row : ItemsNew(IF x = y THEN <<x>> ELSE <<x, y>>)
    \/ \E S \in SUBSET Row : ItemsGone(S) \/ \E k \in 1..MaxSortKey : ItemsModified(S, k)
    \/ ClearView \/ ReverseOrder
    \/ \E i \in 0..Cardinality(Row) : CursorToIter(i) \/ SelectOnlyRow(i)
    \/ \E i \in Row, on \in BOOLEAN : SetSelectedRow(i, on) \/ SelectAllRows(on)
    \/ \E i, j \in 1..(Cardinality(Row) + 1), b \in BOOLEAN : LassoRows(i, j, b)
    \/ WinkEnds \/ \E i \in Row : WinkRow(i)

detailsVars == <<list, gtk, chosen>>
DetailsSpec == DetailsInit /\ [][DetailsNext]_detailsVars

--------------------
(* However the rows are added, sorted, changed and removed, GTK is told so  *)
(* that the selection and the cursor stay with the items they were put on,  *)
(* no update misses its row, and an iterator gives every item once, or      *)
(* every selected one, wherever it starts.  The wink may stay elsewhere.    *)
RowsFollow ==
    /\ Len(gtk.selected) = Len(list.items)
    /\ {list.items[i] : i \in {j \in DOMAIN list.items : gtk.selected[j]}} = chosen.items
    /\ chosen.cursor = (IF gtk.cursor = 0 THEN 0 ELSE list.items[gtk.cursor])
    /\ list.missed = {}
    /\ \A way \in SUBSET {"from cursor", "backwards", "selected"}, base \in {0} \cup Row :
         LET given == IterItems(list, gtk, base, way \cup {"from base"})
             items == IF "selected" \in way THEN chosen.items ELSE Items(list)
         IN /\ Len(given) = Cardinality({given[k] : k \in DOMAIN given})
            /\ {list.items[given[k]] : k \in DOMAIN given}
               = IF "from cursor" \in way /\ gtk.cursor = 0 THEN {} ELSE items
=============================================================================

----------------------------- MODULE Placement -----------------------------
(* Where things are put on the pinboard (pinboard.c): the icons that are   *)
(* pinned, at a point or wherever there is room, and the buttons of the    *)
(* windows that are iconified, which remember their places.  A rectangle   *)
(* is in pixels, and the used ones are a region in which a free place is    *)
(* searched for, row by row or column by column, from a corner.             *)
EXTENDS Integers, FiniteSets

CONSTANTS
    PinnedIcon,     \* what may be pinned
    Iconified,      \* the windows that may be iconified
    TitleOf,        \* TitleOf[w]: the title of a window, which names its place
    IconSizes,      \* the sizes <<w, h>> of an icon with its label
    ButtonSizes,    \* the sizes of the button of a window
    Screen,         \* <<width, height>>
    GridStep, SearchStep,
    ButtonFrame,          \* what a button is larger than its contents, on a side
    PanelArea,      \* the rectangle of the panel
    Layouts,        \* [clamp, top, start, going, monitors] of the options
    AskedPlaces,           \* the <<x, y>> that icons are asked to be pinned at
    Spots,          \* the places that things are dragged to
    MaxPuts

Rect(x, y, size) == [x |-> x, y |-> y, w |-> size[1], h |-> size[2]]
NoRect == Rect(-1, -1, <<0, 0>>)
PutThing == PinnedIcon \cup Iconified

ASSUME PlacementAssumption ==
    /\ PinnedIcon \cap Iconified = {} /\ GridStep \in Nat \ {0} /\ SearchStep \in Nat \ {0}
    /\ ButtonFrame \in Nat /\ Screen \in Nat \X Nat
    /\ IconSizes \subseteq Nat \X Nat /\ ButtonSizes \subseteq Nat \X Nat
    /\ AskedPlaces \subseteq Int \X Int /\ Spots \subseteq Int \X Int
    /\ PanelArea \in [x : Nat, y : Nat, w : Nat, h : Nat]
    /\ \A l \in Layouts :
         /\ l.top \in Nat /\ l.clamp \in BOOLEAN /\ l.monitors # {}
         /\ \A m \in l.monitors : /\ m \in [x : Nat, y : Nat, w : Nat, h : Nat]
                                  /\ m.x + m.w <= Screen[1] /\ m.y + m.h <= Screen[2]

VARIABLES
    put,         \* where each thing is on the pinboard, or NoRect
    centre,      \* the point an icon is centred on
    placed,      \* placed_icons: title to rectangle
    layout,      \* the options
    panelShown,
    found,       \* the thing last put by a search, and the direction and start it had
    puts

placeVars == <<put, centre, placed, layout, panelShown, found, puts>>

NoSearch == [of |-> "none", dx |-> 1, dy |-> 1, from |-> 0, going |-> "down"]

PlacementInit ==
    /\ put = [t \in PutThing |-> NoRect] /\ centre = [i \in PinnedIcon |-> <<0, 0>>]
    /\ placed = [s \in {TitleOf[w] : w \in Iconified} |-> NoRect]
    /\ layout \in Layouts /\ panelShown \in BOOLEAN
    /\ found = NoSearch /\ puts = 0

(* How far two rectangles lie over each other, on the shallower axis. *)
Least(a, b) == IF a < b THEN a ELSE b
Most(a, b)  == IF a < b THEN b ELSE a
Over(r, s) ==
    Least(Least(r.x + r.w, s.x + s.w) - Most(r.x, s.x), Least(r.y + r.h, s.y + s.h) - Most(r.y, s.y))
Apart(r, used) == \A s \in used : Over(r, s) <= 0

(* find_free_rect, first part: the margins, the panels and the children. *)
NoGo ==
    (IF layout.top > 0 THEN {Rect(0, 0, <<Screen[1], layout.top>>)} ELSE {})
    \cup (IF panelShown THEN {PanelArea} ELSE {})
UsedBut(t) == NoGo \cup {put[o] : o \in {o \in PutThing \ {t} : put[o] # NoRect}}

(* search_free: the first free place of the area, or none; the outer       *)
(* coordinate is x when the search goes down columns.                      *)
Coords(lo, hi, by) == {v \in lo..hi : IF by > 0 THEN (v - lo) % by = 0 ELSE (hi - v) % (-by) = 0}
Sooner(a, b, by) == IF by > 0 THEN a < b ELSE a > b
SearchFree(size, used, going, dx, dy, area) ==
    LET Free == {r \in {Rect(x, y, size) : x \in Coords(area.x, area.x + area.w, dx),
                                           y \in Coords(area.y, area.y + area.h, dy)} : Apart(r, used)}
        First(r, s) ==
            IF going = "down"
            THEN Sooner(r.x, s.x, dx) \/ (r.x = s.x /\ Sooner(r.y, s.y, dy))
            ELSE Sooner(r.y, s.y, dy) \/ (r.y = s.y /\ Sooner(r.x, s.x, dx))
    IN  IF Free = {} THEN Rect(-1, -1, size)
        ELSE CHOOSE r \in Free : \A s \in Free \ {r} : First(r, s)

WholeScreen(size) == Rect(0, 0, <<Screen[1] - size[1], Screen[2] - size[2]>>)

(* search_free_xinerama: the monitor under the pointer. *)
OnMonitor(m, size) == Rect(m.x, m.y, <<m.w - size[1], m.h - size[2]>>)

(* The box bounded by a start coordinate, by the code's own arithmetic. *)
StartBox(size, going, dx, dy, from) ==
    LET top  == layout.top
        high == Screen[2] - top
        west == from - size[1] \div 2
        north == from - size[2] \div 2
        Box(x, y, w, h) == Rect(x, y, <<w - size[1], h - size[2]>>)
    IN  CASE going = "down" /\ dx > 0 /\ west > 0 /\ Screen[1] - from > 0 ->
               Box(west, top, Screen[1] - from, high)
          [] going = "down" /\ dx < 0 -> Box(0, top, from + size[1] \div 2, high)
          [] going = "across" /\ dy > 0 /\ north > top /\ high - from > 0 ->
               Box(0, north, Screen[1], high - from)
          [] going = "across" /\ dy < 0 -> Box(0, top, Screen[1], from + size[2] \div 2)
          [] OTHER -> Box(0, top, Screen[1], high)

(* The mutant does not go on to the whole screen. *)
SearchOnlyBox(size, used, going, dx, dy, from, m) ==
    IF from > 0 THEN SearchFree(size, used, going, dx, dy, StartBox(size, going, dx, dy, from))
    ELSE SearchFree(size, used, going, dx, dy, WholeScreen(size))

(* The searches of one monitor, or of several when no start is given. *)
SearchAll(size, used, going, dx, dy, from, m) ==
    LET near == IF Cardinality(layout.monitors) > 1
                THEN SearchFree(size, used, going, dx, dy, OnMonitor(m, size))
                ELSE IF from > 0 THEN SearchFree(size, used, going, dx, dy, StartBox(size, going, dx, dy, from))
                ELSE NoRect
    IN  IF near.x # -1 THEN near ELSE SearchFree(size, used, going, dx, dy, WholeScreen(size))

(* The search step, rounded up to the grid, away from the corner. *)
Stepping(corner) ==
    LET step == ((SearchStep - 1) \div GridStep + 1) * GridStep
    IN  [dx |-> IF corner \in {"top right", "bottom right"} THEN -step ELSE step,
         dy |-> IF corner \in {"bottom left", "bottom right"} THEN -step ELSE step]

(* find_free_rect: several monitors and a start coordinate make no search, *)
(* and the rectangle keeps what it had, which may be anything.             *)
FoundFor(t, size, corner, going, from, m) ==
    LET step == Stepping(corner)
        r == SearchAll(size, UsedBut(t), going, step.dx, step.dy, from, m)
    IN  IF r.x = -1 THEN Rect(0, 0, size) ELSE r
NoSearchMade(from) == Cardinality(layout.monitors) > 1 /\ from > 0

Counted == puts < MaxPuts /\ puts' = puts + 1

(* pinboard_add_widget: the place of the title, while that is free and     *)
(* large enough; the rectangle that is remembered keeps its old size.      *)
Iconify(w) ==
    /\ Counted /\ put[w] = NoRect
    /\ \E size \in ButtonSizes, m \in layout.monitors :
         LET old  == placed[TitleOf[w]]
             fits == old # NoRect /\ old.w >= size[1] /\ old.h >= size[2] /\ Apart(old, UsedBut(w))
             kept == IF old = NoRect THEN size ELSE <<old.w, old.h>>
             r    == IF fits THEN old ELSE FoundFor(w, kept, layout.start, layout.going, 0, m)
         IN  /\ put' = [put EXCEPT ![w] = Rect(r.x, r.y, size)]
             /\ placed' = [placed EXCEPT ![TitleOf[w]] = r]
    /\ found' = [of |-> w, from |-> 0, going |-> layout.going,
                 dx |-> Stepping(layout.start).dx, dy |-> Stepping(layout.start).dy]
    /\ UNCHANGED <<centre, layout, panelShown>>

(* hide_icon: the window is shown again. *)
Uniconify(w) ==
    /\ put[w] # NoRect /\ put' = [put EXCEPT ![w] = NoRect] /\ found' = NoSearch
    /\ UNCHANGED <<centre, placed, layout, panelShown, puts>>

(* pinboard_moved_widget: the button is dragged, and its place remembered. *)
DragButton(w, x, y) ==
    /\ Counted /\ put[w] # NoRect
    /\ put' = [put EXCEPT ![w] = Rect(x, y, <<@.w, @.h>>)]
    /\ placed' = [placed EXCEPT ![TitleOf[w]] = Rect(x, y, <<@.w, @.h>>)]
    /\ found' = NoSearch /\ UNCHANGED <<centre, layout, panelShown>>

(* snap_to_grid and offset_from_centre. *)
Quotient(v, by) == IF v < 0 THEN -((-v) \div by) ELSE v \div by
Snap(v) == Quotient(v + GridStep \div 2, GridStep) * GridStep
Framed(size) == <<size[1] + 2 * ButtonFrame, size[2] + 2 * ButtonFrame>>
Clamped(v, hi) == IF v > hi THEN hi ELSE Most(v, 0)
Around(x, y, size) ==
    LET within(n) == IF layout.clamp THEN n ELSE 0
    IN  Rect(Clamped(x - size[1] \div 2, Screen[1] - within(size[1])),
             Clamped(y - size[2] \div 2, Screen[2] - within(size[2])), size)

(* pinboard_pin_with_args: what a pair of coordinates asks for. *)
CornerAsked(x, y) ==
    LET corners == {-8, -7, -6, -5} \cap {x, y}        \* the lowest one counts
        corner(c) == c \in corners /\ \A d \in corners : c <= d
        edge == corners = {}
    IN CASE corner(-8) \/ (edge /\ x \in {-2, -4} /\ y = -2) -> "bottom right"
         [] corner(-7) \/ (edge /\ x \in {-1, -3} /\ y = -2) -> "bottom left"
         [] corner(-6) \/ (edge /\ x \in {-2, -4} /\ y = -1) -> "top right"
         [] OTHER -> "top left"
GoingAsked(x, y) == IF y > 0 \/ x \in {-3, -4} THEN "across" ELSE "down"
StartAsked(x, y) == IF y > 0 THEN y ELSE IF x > 0 THEN x ELSE 0

(* An icon is pinned at a point. *)
PinTo(i, x, y, size) ==
    /\ centre' = [centre EXCEPT ![i] = <<Snap(x), Snap(y)>>]
    /\ put' = [put EXCEPT ![i] = Around(Snap(x), Snap(y), Framed(size))]
    /\ UNCHANGED <<placed, layout, panelShown>>
PinAt(i, x, y) ==
    /\ Counted /\ put[i] = NoRect /\ x >= 0 /\ y >= 0
    /\ \E size \in IconSizes : PinTo(i, x, y, size)
    /\ found' = NoSearch

(* An icon is pinned where there is room. *)
PinSomewhere(i, x, y) ==
    /\ Counted /\ put[i] = NoRect /\ (x < 0 \/ y < 0) /\ ~NoSearchMade(StartAsked(x, y))
    /\ \E size \in IconSizes, m \in layout.monitors :
         LET r == FoundFor(i, size, CornerAsked(x, y), GoingAsked(x, y), StartAsked(x, y), m)
         IN  PinTo(i, r.x + size[1] \div 2, r.y + size[2] \div 2, size)
    /\ found' = [of |-> i, from |-> StartAsked(x, y), going |-> GoingAsked(x, y),
                 dx |-> Stepping(CornerAsked(x, y)).dx, dy |-> Stepping(CornerAsked(x, y)).dy]
PinAnywhere(i, x, y) ==
    /\ Counted /\ put[i] = NoRect /\ (x < 0 \/ y < 0) /\ NoSearchMade(StartAsked(x, y))
    /\ \E size \in IconSizes, spot \in Spots : PinTo(i, spot[1], spot[2], size)
    /\ found' = NoSearch

(* An icon that is there is given a new point: a coordinate that is not    *)
(* given keeps its value.                                                  *)
PinAgain(i, x, y) ==
    /\ Counted /\ put[i] # NoRect
    /\ LET nx == Snap(IF x < 0 THEN centre[i][1] ELSE x)
           ny == Snap(IF y < 0 THEN centre[i][2] ELSE y)
       IN  /\ centre' = [centre EXCEPT ![i] = <<nx, ny>>]
           /\ put' = [put EXCEPT ![i] = Around(nx, ny, <<put[i].w, put[i].h>>)]
    /\ found' = NoSearch /\ UNCHANGED <<placed, layout, panelShown>>

(* pinboard_reshape_icon: the label or the image has another size. *)
Reshape(i) ==
    /\ Counted /\ put[i] # NoRect
    /\ \E size \in IconSizes : put' = [put EXCEPT ![i] = Around(centre[i][1], centre[i][2], Framed(size))]
    /\ found' = NoSearch /\ UNCHANGED <<centre, placed, layout, panelShown>>

(* pinboard_move_icons: the selected icons move as far as the dragged one. *)
DragIcons(i, S, x, y) ==
    LET dx == Snap(x) - centre[i][1]
        dy == Snap(y) - centre[i][2]
        to == [j \in S |-> <<centre[j][1] + dx, centre[j][2] + dy>>]
    IN  /\ Counted /\ i \in S /\ \A j \in S : put[j] # NoRect
        /\ <<dx, dy>> # <<0, 0>>
        /\ centre' = [j \in PinnedIcon |-> IF j \in S THEN to[j] ELSE centre[j]]
        /\ put' = [t \in PutThing |->
                     IF t \in S THEN Around(to[t][1], to[t][2], <<put[t].w, put[t].h>>) ELSE put[t]]
        /\ found' = NoSearch /\ UNCHANGED <<placed, layout, panelShown>>

(* pinboard_remove. *)
Unpin(i) ==
    /\ put[i] # NoRect /\ put' = [put EXCEPT ![i] = NoRect] /\ found' = NoSearch
    /\ centre' = [centre EXCEPT ![i] = <<0, 0>>]
    /\ UNCHANGED <<placed, layout, panelShown, puts>>

(* panel_mark_used sees the panels there are. *)
TogglePanel ==
    /\ Counted /\ panelShown' = ~panelShown /\ found' = NoSearch
    /\ UNCHANGED <<put, centre, placed, layout>>

PlacementNext ==
    \/ \E w \in Iconified : Iconify(w) \/ Uniconify(w) \/ \E s \in Spots : DragButton(w, s[1], s[2])
    \/ \E i \in PinnedIcon :
         \/ Reshape(i) \/ Unpin(i)
         \/ \E a \in AskedPlaces : PinSomewhere(i, a[1], a[2]) \/ PinAnywhere(i, a[1], a[2])
         \/ \E s \in Spots : PinAt(i, s[1], s[2])
         \/ \E a \in AskedPlaces \cup Spots : PinAgain(i, a[1], a[2])
         \/ \E S \in SUBSET PinnedIcon, s \in Spots : DragIcons(i, S, s[1], s[2])
    \/ TogglePanel

PlacementSpec == PlacementInit /\ [][PlacementNext]_placeVars

--------------------
(* What is put by a search lies over nothing else on the pinboard, while   *)
(* the whole screen has room for it at some step from the corner: an icon, *)
(* which is then snapped to the grid and framed, over nothing by more than *)
(* the frame and half a step of the grid (or the frame again, at the edge).*)
(* (find_free_rect, pinboard_pin_with_args; a button that has grown since  *)
(* its place was remembered is looked for by its old size, and is left     *)
(* out, and so is an icon that is looked for back from a start at the edge  *)
(* of the screen, where the box of the search goes over the edge.)          *)
RoomFor(t, size) ==
    \E x \in Coords(0, Screen[1] - size[1], found.dx), y \in Coords(0, Screen[2] - size[2], found.dy) :
        Apart(Rect(x, y, size), UsedBut(t))
OverEdge(size) ==
    /\ found.from > 0
    /\ \/ found.going = "down" /\ found.dx < 0 /\ found.from + size[1] \div 2 > Screen[1]
       \/ found.going = "across" /\ found.dy < 0 /\ layout.top + found.from + size[2] \div 2 > Screen[2]
PlacedApart ==
    LET t == found.of IN
    \/ t = "none"
    \/ t \in Iconified /\ LET r == put[t] IN
         \/ placed[TitleOf[t]].w < r.w \/ placed[TitleOf[t]].h < r.h
         \/ ~RoomFor(t, <<placed[TitleOf[t]].w, placed[TitleOf[t]].h>>)
         \/ Apart(r, UsedBut(t))
    \/ t \in PinnedIcon /\ LET r == put[t]
                                size == <<r.w - 2 * ButtonFrame, r.h - 2 * ButtonFrame>> IN
         \/ ~RoomFor(t, size) \/ OverEdge(size)
         \/ \A s \in UsedBut(t) : Over(r, s) <= ButtonFrame + Most(ButtonFrame, GridStep \div 2)
=============================================================================

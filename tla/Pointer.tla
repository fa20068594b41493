------------------------------- MODULE Pointer -------------------------------
(***************************************************************************)
(* Mouse buttons, from the X server to the actions they are bound to       *)
(* (dnd.c, bind.c and the handlers of the views, the pinboard and the      *)
(* panels), and the windows that spring open during a drag.                *)
(*                                                                         *)
(* The motion system is global and counts buttons: the widget of the first *)
(* press gets a GTK grab, and everything is reset with the last release.   *)
(* It only learns of presses and releases that the X server delivers to    *)
(* the filer, so whatever takes the pointer away from it in between must   *)
(* say so (dnd_motion_ungrab).  What a click selects is in Collection and  *)
(* Icons.                                                                  *)
(***************************************************************************)
EXTENDS Naturals, FiniteSets

CONSTANTS
    Widget,      \* the widgets that handle buttons
    KindOf,      \* what each is: view, details, pin, pinboard, panel icon or panel
    Outer,       \* the widget each lies in, or itself
    NoWidget, Elsewhere,
    Options,     \* bound: settings of <<singleClick, singlePinboard, forward13>> tried
    MaxDown      \* bound: buttons held at once

(* Who may have the pointer besides the filer's widgets: loose is whoever  *)
(* it is over.                                                             *)
OtherOwners == {"nobody", "loose", "menu", "drag", "other"}

ASSUME PointerAssumption ==
    /\ NoWidget \notin Widget /\ Elsewhere \notin Widget
    /\ Widget \cap OtherOwners = {}
    /\ Outer \in [Widget -> Widget]

VARIABLES
    mouse,       \* the X server's side (down, owner) and the motion system
    setting,     \* the options that choose the bindings
    spring       \* spring-loading

pointerVars == <<mouse, setting, spring>>

Button == 1..3
Settings == {[singleClick |-> o[1], singlePinboard |-> o[2], forward13 |-> o[3]] : o \in Options}

PointerInit ==
    /\ mouse = [down |-> {}, owner |-> "nobody", state |-> "none", pressed |-> 0,
                widget |-> NoWidget, grab |-> FALSE, lasso |-> {}, target |-> FALSE,
                given |-> FALSE]
    /\ setting \in Settings
    /\ spring = [armed |-> FALSE, open |-> FALSE, checks |-> 0]

Inside(w, v) == v \in {w, Outer[w]}

(* Who gets an event when the pointer is over a widget: the X server's grab*)
(* comes first, then the GTK grab.                                         *)
Receiver(under) ==
    LET w == IF mouse.owner \in Widget THEN mouse.owner ELSE under
    IN IF w = Elsewhere \/ mouse.widget = NoWidget \/ Inside(w, mouse.widget) THEN w
       ELSE mouse.widget

(* The pointer is another's: a menu, a drag or another program. *)
Away == mouse.owner \in {"menu", "drag", "other"}

--------------------
(* The motion system (dnd.c). *)

MotionPress(m, w) ==
    [m EXCEPT !.pressed = @ + 1,
              !.widget = IF m.pressed = 0 THEN w ELSE @,
              !.state = IF @ = "none" THEN "disabled" ELSE @]

MotionStart(m, motion) == IF m.state = "disabled" THEN [m EXCEPT !.state = motion] ELSE m

MotionUngrab(m) ==
    [m EXCEPT !.state = "none", !.pressed = 0, !.widget = NoWidget, !.grab = FALSE]

(* Mutant: only the last button is counted. *)
MotionReleaseLast(m) == IF m.pressed = 1 THEN MotionUngrab(m) ELSE m

MotionRelease(m) ==
    CASE m.pressed = 0 -> m
      [] m.pressed = 1 -> MotionUngrab(m)
      [] OTHER -> [m EXCEPT !.pressed = @ - 1]

(* dnd_motion_release returns TRUE: it is not a click. *)
Eaten(m, far) == m.pressed # 1 \/ m.state \in {"reposition", "disabled"} \/ far

(* dnd_motion_grab_pointer *)
GrabPointer(m) == [m EXCEPT !.grab = TRUE, !.owner = m.widget]

--------------------
(* The bindings (bind.c); opening with shift is opening. *)

Background == {"directory", "pinboard", "panel"}

ContextsOf(w) ==
    CASE KindOf[w] \in {"view", "details"} -> {"item", "directory"}
      [] KindOf[w] = "pin" -> {"pinboard icon"}
      [] OTHER -> {KindOf[w]}

(* bind_lookup_bev *)
Lookup(context, e) ==
    LET dclickMode == \/ context = "item" /\ ~setting.singleClick
                      \/ context = "pinboard icon" /\ ~setting.singlePinboard
        opens == /\ context \notin Background /\ ~dclickMode /\ ~e.ctrl
                 /\ e.button = 1 \/ context = "item"
    IN CASE e.button = 3 -> IF e.type = "press" THEN "popup" ELSE "ignore"
         [] e.button # 3 /\ e.type = "double" ->
              IF context \notin Background /\ dclickMode THEN "open" ELSE "ignore"
         [] e.button # 3 /\ e.type = "release" -> IF opens THEN "open" ELSE "ignore"
         [] e.button # 3 /\ e.type = "press" ->
              CASE context = "panel" -> "clear"
                [] context \in {"directory", "pinboard"} -> "lasso"
                [] context = "panel icon" /\ ~e.ctrl /\ e.button # 1 -> "move"
                [] OTHER -> "prime"

Slow(w) == IF KindOf[w] \in {"view", "details"} THEN BOOLEAN ELSE {FALSE}

(* filer_perform_action and perform_action.  A view may be waiting for a   *)
(* click that chooses a target; it does nothing while a slow drag holds    *)
(* the selection, or when a double-click began on another item.            *)
Perform(m, w, context, e, slow) ==
    LET act == Lookup(context, e)
        view == KindOf[w] \in {"view", "details"}
    IN CASE view /\ slow /\ context = "item" -> m
         [] view /\ ~(slow /\ context = "item") /\ m.target -> [MotionUngrab(m) EXCEPT !.target = FALSE]
         [] OTHER ->
              CASE act \in {"open", "clear"} -> MotionUngrab(m)
                [] act = "popup" -> [MotionUngrab(m) EXCEPT !.owner = "menu"]
                [] act = "prime" -> MotionStart(m, "ready")
                [] act = "move" -> MotionStart(m, "reposition")
                [] act = "lasso" -> [m EXCEPT !.lasso = @ \cup {w}]
                [] OTHER -> m

(* The pinboard passes the middle button, and on request the others on the *)
(* background, to the window manager, which needs the pointer.             *)
Forwarded(w, b) ==
    \/ b = 2 /\ KindOf[w] \in {"pin", "pinboard"}
    \/ b # 2 /\ KindOf[w] = "pinboard" /\ setting.forward13

ButtonPress(m, w, context, e, slow) ==
    CASE Forwarded(w, e.button) -> [m EXCEPT !.owner = "loose", !.given = @ \/ m.pressed > 0]
      [] ~Forwarded(w, e.button) /\ m.state = "none" ->
           Perform(MotionPress(m, w), w, context, e, slow)
      [] OTHER -> MotionPress(m, w)

ButtonRelease(m, w, context, e, slow, far) ==
    LET n == MotionRelease(m)
        done == IF Eaten(m, far) THEN n ELSE Perform(n, w, context, e, slow)
        ends == n.pressed = 0 /\ (Eaten(m, far) \/ KindOf[w] = "details")
    IN IF Forwarded(w, e.button) THEN Perform(m, w, context, e, slow)
       ELSE [done EXCEPT !.lasso = IF ends THEN @ \ {w} ELSE @]

--------------------
(* What the user does. *)

ButtonEvent(type, b, ctrl) == [type |-> type, button |-> b, ctrl |-> ctrl]

(* A button goes down; a second click in time is told of once more, as a   *)
(* double-click at the same place.                                         *)
PressButton(b, under) ==
    /\ b \notin mouse.down /\ Cardinality(mouse.down) < MaxDown
    /\ LET w == Receiver(under)
           m == [mouse EXCEPT !.down = @ \cup {b}]
       IN mouse' \in
            IF Away THEN {m}
            ELSE IF w = Elsewhere THEN {[m EXCEPT !.owner = "other"]}
            ELSE {LET held == [m EXCEPT !.owner = IF @ \in Widget THEN @ ELSE under]
                      once == ButtonPress(held, w, context, ButtonEvent("press", b, ctrl), slow)
                  IN IF ~double \/ once.owner = "menu" \/ Forwarded(w, b) THEN once
                     ELSE Perform(once, w, context, ButtonEvent("double", b, ctrl), slow) :
                    context \in ContextsOf(w), ctrl \in BOOLEAN, double \in BOOLEAN,
                    slow \in Slow(w)}
    /\ UNCHANGED <<setting, spring>>

(* The X server's own grab ends with the last button, that of a menu does  *)
(* not.                                                                    *)
OwnerAfter(b) ==
    CASE mouse.owner = "menu" -> "menu"
      [] mouse.owner # "menu" /\ mouse.down = {b} -> "nobody"
      [] mouse.owner = "drag" /\ mouse.down # {b} -> "loose"
      [] OTHER -> mouse.owner

ReleaseButton(b, under) ==
    /\ b \in mouse.down
    /\ LET w == Receiver(under)
           m == [mouse EXCEPT !.down = @ \ {b}, !.owner = OwnerAfter(b)]
       IN mouse' \in
            IF Away \/ w = Elsewhere THEN {m}
            ELSE {ButtonRelease(m, w, context, ButtonEvent("release", b, ctrl), slow, far) :
                    context \in ContextsOf(w), ctrl \in BOOLEAN, slow \in Slow(w), far \in BOOLEAN}
    /\ UNCHANGED <<setting, spring>>

(* The pointer is moved far from where the button went down: a drag begins *)
(* (filer_motion_notify, start_drag), unless the item is gone, or the icon *)
(* of a panel is moved, perhaps to its other side.                         *)
MovePointer(under) ==
    /\ ~Away
    /\ LET w == Receiver(under)
       IN /\ w # Elsewhere /\ KindOf[w] \notin {"pinboard", "panel"}
          /\ KindOf[w] = "details" => w \notin mouse.lasso
          /\ \/ /\ mouse.state = "ready"
                /\ \/ mouse' = [MotionUngrab(mouse) EXCEPT !.owner = "drag"]
                   \/ /\ KindOf[w] \in {"view", "details"}
                      /\ mouse' = MotionUngrab(mouse)
             \/ /\ mouse.state = "reposition" /\ KindOf[w] = "panel icon"
                /\ mouse.widget # NoWidget
                /\ mouse' = GrabPointer(mouse)
    /\ UNCHANGED <<setting, spring>>

Released(m) == [m EXCEPT !.owner = IF m.down = {} THEN "nobody" ELSE "loose"]

MenuDone == mouse.owner = "menu" /\ mouse' = Released(mouse) /\ UNCHANGED <<setting, spring>>
DragCancelled == mouse.owner = "drag" /\ mouse' = Released(mouse) /\ UNCHANGED <<setting, spring>>

(* filer_target_mode *)
TargetMode == mouse' = [mouse EXCEPT !.target = ~@] /\ UNCHANGED <<setting, spring>>

(* The menu key, and the end of a widget: neither tells the motion system. *)
MenuKey ==
    /\ ~Away
    /\ mouse' = [mouse EXCEPT !.owner = "menu", !.given = @ \/ mouse.pressed > 0]
    /\ UNCHANGED <<setting, spring>>

WidgetGoes == mouse.widget # NoWidget /\ mouse' = [mouse EXCEPT !.given = TRUE]
              /\ UNCHANGED <<setting, spring>>

--------------------
(* Spring-loading; a drag may also come from another program. *)

(* dnd_spring_load and dnd_spring_abort, from the handlers of drag-motion  *)
(* and drag-leave.                                                         *)
SpringLoad == spring' = [spring EXCEPT !.armed = TRUE] /\ UNCHANGED <<mouse, setting>>
SpringAbort == spring' = [spring EXCEPT !.armed = FALSE] /\ UNCHANGED <<mouse, setting>>

(* spring_now: a bookmark or a directory that is gone opens nothing; the   *)
(* window that is open changes directory.                                  *)
SpringNow ==
    /\ spring.armed
    /\ spring' \in {[spring EXCEPT !.armed = FALSE],
                    [spring EXCEPT !.armed = FALSE, !.open = TRUE,
                                   !.checks = IF spring.open THEN @ ELSE @ + 1]}
    /\ spring'.checks <= 2
    /\ UNCHANGED <<mouse, setting>>

(* spring_check_idle *)
SpringCheck ==
    /\ spring.checks > 0
    /\ ~spring.open \/ mouse.down = {}
    /\ spring' = [spring EXCEPT !.open = FALSE, !.checks = @ - 1]
    /\ UNCHANGED <<mouse, setting>>

SpringClosed == spring.open /\ spring' = [spring EXCEPT !.open = FALSE]
                /\ UNCHANGED <<mouse, setting>>

PointerNext ==
    /\ ~mouse.given
    /\ \/ \E b \in Button, under \in Widget \cup {Elsewhere} :
             PressButton(b, under) \/ ReleaseButton(b, under)
       \/ \E under \in Widget \cup {Elsewhere} : MovePointer(under)
       \/ MenuDone \/ DragCancelled \/ TargetMode \/ MenuKey \/ WidgetGoes
       \/ SpringLoad \/ SpringAbort \/ SpringNow \/ SpringCheck \/ SpringClosed

PointerSpec == PointerInit /\ [][PointerNext]_pointerVars

--------------------
(* "The system will be reset once all mouse buttons are released": whatever*)
(* is pressed over whichever widgets, and through menus, drags and moved   *)
(* icons, no grab and no count outlives the buttons, as long as the pointer*)
(* was not given away while one was held.  A window that sprang open has a *)
(* timeout that will close it.                                             *)
ReleasedMeansReady ==
    /\ mouse.down = {} /\ mouse.owner = "nobody" /\ ~mouse.given =>
         /\ mouse.state = "none" /\ mouse.pressed = 0 /\ mouse.widget = NoWidget
         /\ ~mouse.grab
    /\ ~mouse.given => mouse.pressed <= Cardinality(mouse.down)
    /\ spring.open => spring.checks > 0
=============================================================================

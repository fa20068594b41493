------------------------------ MODULE Tasklist ------------------------------
(***************************************************************************)
(* The icons of iconified windows on the pinboard (tasklist.c).  Windows,  *)
(* their properties and the list of clients belong to the X server, the    *)
(* window manager and other programs; what the filer knows comes by        *)
(* property events, and every answer may be about a window that has been   *)
(* destroyed since.  A handler reads the properties as they are when it    *)
(* runs, so the events that wait are a set.                                *)
(***************************************************************************)
EXTENDS Naturals, FiniteSets

CONSTANTS
    XWindow,   \* the windows of other programs
    MaxTitle,  \* bound: a title changes up to this number
    MaxPushes  \* bound: times the options, the desktop or that of a window is switched

ASSUME TaskAssumption == MaxTitle \in Nat

VARIABLES
    server,    \* the X server: windows, properties and events on the way
    task       \* the filer: known windows, their icons and timeouts

taskVars == <<server, task>>

NoTitle == MaxTitle + 1
AllDesktops == 2    \* 0xffffffff
ListEvent == <<"list">>
DesktopEvent == <<"desktop">>
SupportedEvent == <<"supported">>
StateEvent(w) == <<"state", w>>
NameEvent(w) == <<"name", w>>

(* An IconWindow, whether it is in the table of the known ones, whether its *)
(* events have been selected, and whether its timeout is in the main loop.  *)
(* A ghost, moved: it has gone to another desktop since its status was last *)
(* checked, in a time when the desktop matters.                             *)
NoIconWindow == [known |-> FALSE, selected |-> FALSE, iconified |-> FALSE, icon |-> FALSE,
                 label |-> NoTitle, timeout |-> FALSE, source |-> FALSE, moved |-> FALSE]

TaskInit ==
    /\ server = [born |-> {}, alive |-> {}, listed |-> {}, iconic |-> {},
                 desk |-> [w \in XWindow |-> 0], title |-> [w \in XWindow |-> 0],
                 current |-> 0, events |-> {}, pushes |-> 0]
    /\ task = [active |-> FALSE, perDesk |-> FALSE, old |-> {}, current |-> 0,
               win |-> [w \in XWindow |-> NoIconWindow]]

--------------------
(* What the handlers are made of, for what the filer has of one window.  A *)
(* window that is destroyed while it is being read is in died: what was    *)
(* read before stands.                                                     *)

Iconic(s, t, w, died) ==
    /\ w \in s.alive /\ w \in s.iconic
    /\ t.perDesk /\ w \notin died => s.desk[w] \in {t.current, AllDesktops}

(* get_icon_name *)
IconName(s, w, died) == IF w \in s.alive \ died THEN s.title[w] ELSE NoTitle

(* g_hash_table_remove and icon_win_free, which lets go of a window that   *)
(* still has an icon without freeing it.                                   *)
Forget(e) == [e EXCEPT !.known = FALSE, !.iconified = FALSE, !.timeout = FALSE, !.source = e.icon /\ @]

(* window_check_status, and what is done about an X error in it. *)
CheckStatus(s, t, before, w, died) ==
    LET e == [before EXCEPT !.moved = FALSE]
        iconic == Iconic(s, t, w, died)
        d == CASE iconic /\ ~e.iconified ->
                    [e EXCEPT !.iconified = TRUE, !.icon = TRUE, !.label = IconName(s, w, died)]
               [] ~iconic /\ e.iconified ->
                    [e EXCEPT !.iconified = FALSE, !.icon = FALSE, !.label = NoTitle]
               [] iconic = e.iconified -> e
    IN IF w \in s.alive /\ ~(t.perDesk /\ w \in died) THEN d ELSE Forget(d)

(* add_window *)
AddWindow(s, t, e, w, died) ==
    IF e.known THEN CheckStatus(s, t, e, w, died)
    ELSE IF w \notin s.alive THEN e
    ELSE CheckStatus(s, t, [e EXCEPT !.known = TRUE, !.selected = TRUE], w, died)

(* Mutant: the window is forgotten with its icon. *)
RemoveWindowOnly(e) == IF e.known THEN Forget(e) ELSE e

(* remove_window *)
RemoveWindow(e) ==
    IF ~e.known THEN e
    ELSE IF e.iconified THEN Forget([e EXCEPT !.iconified = FALSE, !.icon = FALSE, !.label = NoTitle])
    ELSE Forget(e)

(* tasklist_update compares the old list with the new; what it does about  *)
(* a window leaves the others alone.                                       *)
TasklistUpdate(s, t, toEmpty, died) ==
    LET mapping == IF toEmpty THEN {} ELSE s.listed
    IN [t EXCEPT !.old = mapping,
                 !.win = [w \in XWindow |-> IF w \in mapping THEN AddWindow(s, t, t.win[w], w, died)
                                            ELSE IF w \in t.old THEN RemoveWindow(t.win[w])
                                            ELSE t.win[w]]]

(* tasklist_set_active, called when the options or the pinboard change. *)
SetActive(s, t, active, perDesk, died) ==
    LET u == [t EXCEPT !.perDesk = perDesk]
    IN CASE active # t.active ->
              TasklistUpdate(s, [u EXCEPT !.active = active,
                                          !.current = IF active THEN s.current ELSE @],
                             ~active, died)
         [] active = t.active /\ active /\ perDesk # t.perDesk ->
              TasklistUpdate(s, u, FALSE, died)
         [] OTHER -> u

--------------------
(* The X server, the window manager and the other programs. *)

Push(s, e) == [s EXCEPT !.events = @ \cup e]
Told(w, e) == IF task.win[w].selected THEN {e} ELSE {}

XMap(w) ==
    /\ w \notin server.born
    /\ server' = Push([server EXCEPT !.born = @ \cup {w}, !.alive = @ \cup {w},
                                     !.listed = @ \cup {w}], {ListEvent})
    /\ UNCHANGED task

XIconify(w) ==
    /\ w \in server.alive
    /\ server' = Push([server EXCEPT !.iconic = (@ \ {w}) \cup ({w} \ @)],
                      Told(w, StateEvent(w)))
    /\ UNCHANGED task

XSetName(w) ==
    /\ w \in server.alive /\ server.title[w] < MaxTitle
    /\ server' = Push([server EXCEPT !.title[w] = @ + 1], Told(w, NameEvent(w)))
    /\ UNCHANGED task

XDestroy(w) ==
    /\ w \in server.alive
    /\ server' = [server EXCEPT !.alive = @ \ {w}]
    /\ UNCHANGED task

(* The window manager notices, or gives a window up. *)
XUnlist(w) ==
    /\ w \in server.listed
    /\ server' = Push([server EXCEPT !.listed = @ \ {w}], {ListEvent})
    /\ UNCHANGED task

(* A window goes to another desktop or to all of them, or to where it is    *)
(* not in the viewport.  Its _NET_WM_DESKTOP changes, and window_filter has *)
(* no case for that: there is no event that would matter.                   *)
XMove(w) ==
    /\ w \in server.alive /\ server.pushes < MaxPushes
    /\ \E d \in {0, 1, AllDesktops} \ {server.desk[w]} :
          server' = [server EXCEPT !.desk[w] = d, !.pushes = @ + 1]
    /\ task' = IF task.perDesk THEN [task EXCEPT !.win[w].moved = TRUE] ELSE task

XSwitchDesktop ==
    /\ server.pushes < MaxPushes
    /\ server' = Push([server EXCEPT !.current = 1 - @, !.pushes = @ + 1], {DesktopEvent})
    /\ UNCHANGED task

(* Another window manager takes over. *)
XSupported ==
    /\ server.pushes < MaxPushes
    /\ server' = Push([server EXCEPT !.pushes = @ + 1], {SupportedEvent})
    /\ UNCHANGED task

--------------------
(* The filer. *)

(* window_filter; while it is not installed an event has no effect. *)
Filtered(e, Op(_, _)) ==
    /\ e \in server.events
    /\ \E died \in SUBSET server.alive :
        /\ Cardinality(died) <= 1
        /\ task' = IF task.active THEN Op(server, died) ELSE task
        /\ server' = [server EXCEPT !.events = @ \ {e}, !.alive = @ \ died]

StateChanged(w) ==
    Filtered(StateEvent(w),
             LAMBDA s, died : IF task.win[w].known
                              THEN [task EXCEPT !.win[w] = CheckStatus(s, task, task.win[w], w, died)]
                              ELSE task)

NameChanged(w) ==
    Filtered(NameEvent(w),
             LAMBDA s, died :
               IF task.win[w].known /\ task.win[w].icon /\ ~task.win[w].timeout
               THEN [task EXCEPT !.win[w].timeout = TRUE, !.win[w].source = TRUE]
               ELSE task)

ListChanged == Filtered(ListEvent, LAMBDA s, died : TasklistUpdate(s, task, FALSE, died))

(* update_current_desktop, then tasklist_update. *)
DesktopChanged ==
    Filtered(DesktopEvent, LAMBDA s, died :
        TasklistUpdate(s, [task EXCEPT !.current = s.current], FALSE, died))

(* update_supported *)
Supported ==
    Filtered(SupportedEvent, LAMBDA s, died :
        TasklistUpdate(s, TasklistUpdate(s, task, TRUE, {}), FALSE, died))

(* update_title; a window that is no icon any more keeps timeout_update. *)
UpdateTitle(w) ==
    /\ task.win[w].source
    /\ task' = IF ~task.win[w].icon THEN [task EXCEPT !.win[w].source = FALSE]
               ELSE [task EXCEPT !.win[w].label = IconName(server, w, {}),
                                 !.win[w].source = FALSE, !.win[w].timeout = FALSE]
    /\ UNCHANGED server

OptionsChanged(active, perDesk) ==
    /\ server.pushes < MaxPushes
    /\ active # task.active \/ perDesk # task.perDesk
    /\ \E died \in SUBSET server.alive :
        /\ Cardinality(died) <= 1
        /\ task' = SetActive(server, task, active, perDesk, died)
        /\ server' = [server EXCEPT !.pushes = @ + 1, !.alive = @ \ died]

TaskNext ==
    \/ \E w \in XWindow : XMap(w) \/ XIconify(w) \/ XSetName(w) \/ XDestroy(w) \/ XUnlist(w) \/ XMove(w)
    \/ XSwitchDesktop
    \/ XSupported
    \/ \E w \in XWindow : StateChanged(w) \/ NameChanged(w) \/ UpdateTitle(w)
    \/ ListChanged
    \/ DesktopChanged
    \/ Supported
    \/ \E active, perDesk \in BOOLEAN : OptionsChanged(active, perDesk)

TaskSpec == TaskInit /\ [][TaskNext]_taskVars

--------------------
(* Once the events are handled the pinboard shows exactly the windows that *)
(* are iconic on this desktop, under the names they have now, except for   *)
(* those that have moved to another desktop since they were last looked at *)
(* (their icon is right again once the desktop, the list of windows or the *)
(* options change), and except for a name that waits for its timeout.  (A  *)
(* window whose timeout_update is left set by update_title is never named  *)
(* again, and is excused with those; one that dies between two reads leaves*)
(* its icon behind, and is not a living window.)                           *)
LivingIcons == {w \in server.alive : task.win[w].icon}
Quiet == server.events = {}
TaskIconsRight == Quiet =>
    LET W == server.alive \cap server.listed
    IN /\ task.active => /\ \A w \in W : task.win[w].known
                         /\ LivingIcons \subseteq W
                         /\ \A w \in W : ~task.win[w].moved =>
                               (task.win[w].icon <=> Iconic(server, task, w, {}))
                         /\ task.current = server.current
       /\ ~task.active => LivingIcons = {}
       /\ \A w \in LivingIcons \cap W :
            task.active /\ ~task.win[w].timeout => task.win[w].label = server.title[w]
=============================================================================

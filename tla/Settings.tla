------------------------------ MODULE Settings ------------------------------
(* How a window displays a directory, and what "Save Display Settings"      *)
(* records of it (filer.c, display.c): the box takes the values when it is  *)
(* opened, OK records those that are ticked for that directory, in a table  *)
(* and in Settings.xml; they are used when a window is opened on it or goes *)
(* to it.  Several boxes may be open, also after their window has gone.     *)
EXTENDS Naturals, FiniteSets, TLC

CONSTANTS Pane,       \* the filer windows
          Folder, NoFolder,
          Crowded,    \* folders with so many items that Automatic means small
          Alike,      \* settings handled alike: hidden files, sorting, the filter
          Ticked,     \* the sets of ticks that a user leaves
          MaxChoices, MaxBoxes \* bounds: changes by the user; boxes

VARIABLES shown,   \* at, and how: what is displayed (style), is it automatic;
                   \* opening: it is not on the screen yet
          settingsTable, \* settings_table: all that the box took, and what was ticked
          xmlFile, \* Settings.xml
          boxes, made, \* boxes that are open; changes and boxes so far
          unique, resize, \* options: one window for a folder; filer_auto_resize
          recorded \* ghost: what the last OK ticked for each folder, in this run
                   \* and up to the last time that the file was written in full,
                   \* which is nothing once a write has been cut short

settingsVars == <<shown, settingsTable, xmlFile, boxes, made, unique, resize, recorded>>

(* What a tick is about: "Details" is about two things, and where a window  *)
(* is belongs to the window manager.  The size is TRUE for a window that    *)
(* has one of its own, not the one that view_autosize gives it.             *)
Tick == Alike \cup {"style", "details", "thumbs", "size", "position"}
About(t) == CASE t = "details"  -> {"details", "view"}
              [] t = "position" -> {}
              [] OTHER          -> {t}
AboutAll(ts) == UNION {About(t) : t \in ts}
Thing == AboutAll(Tick)
ASSUME SettingsAssumption ==
    /\ Ticked \subseteq SUBSET Tick
    /\ Alike \cap {"style", "details", "view", "thumbs", "size", "position"} = {}

ByDefault == [k \in Thing |-> IF k = "style" THEN "large" ELSE FALSE]
Unused  == [is |-> ByDefault, ticked |-> {}]
Actual(wanted, folder) ==
    IF wanted # "auto" THEN wanted ELSE IF folder \in Crowded THEN "small" ELSE "large"

Autosized(is, when) == IF when THEN [is EXCEPT !["size"] = FALSE] ELSE is

(* display_set_layout; display_set_actual_size is one with what it has.     *)
SetLayout(p, wanted, details, force) ==
    LET changed == p.wanted # wanted \/ p.is["details"] # details
        is      == [p.is EXCEPT !["style"] = Actual(wanted, p.at), !["details"] = details]
    IN [p EXCEPT !.wanted = wanted,
                 !.is = Autosized(is, force \/ resize = "always" \/ (resize = "style" /\ changed))]

Overlaid(is, set) == [k \in Thing |-> IF k \in AboutAll(set.ticked) THEN set.is[k] ELSE is[k]]

(* filer_opendir: the options, or the source window (if there is one and    *)
(* the options say that it is inherited from), and on top of it what is     *)
(* recorded for the directory.                                              *)
NewPane(folder, src) ==
    LET set  == settingsTable[folder]
        from == src # NoFolder
        base == [k \in Thing |-> IF from /\ k # "size" THEN shown[src].is[k] ELSE ByDefault[k]]
        p    == [at |-> folder, wanted |-> "unknown", opening |-> TRUE, is |-> Overlaid(base, set)]
    IN SetLayout(p, IF "style" \in set.ticked THEN set.is["style"]
                    ELSE IF from THEN shown[src].wanted ELSE "auto",
                 p.is["details"], ~("size" \in set.ticked /\ resize = "never"))

(* check_settings, with filer_set_view_type, then display_set_actual_size:  *)
(* the size that is displayed becomes the wanted one if only details were   *)
(* recorded.                                                                *)
CheckSettings(p) ==
    LET set == settingsTable[p.at]
        is  == Overlaid(p.is, set)
        q   == [p EXCEPT !.is = Autosized([is EXCEPT !["details"] = p.is["details"]],
                                          "details" \in set.ticked /\ resize # "never")]
    IN SetLayout(q, IF "style" \in set.ticked THEN set.is["style"]
                    ELSE IF "details" \in set.ticked THEN p.is["style"] ELSE p.wanted,
                 is["details"], FALSE)

OthersAt(p, folder) == {q \in Pane \ {p} : shown[q].at = folder}
OnScreen(p) == shown[p].at # NoFolder /\ ~shown[p].opening
NeverSaved == [set |-> Unused, loaded |-> FALSE]
Shut == [at |-> NoFolder, wanted |-> "auto", opening |-> FALSE, is |-> ByDefault]

--------------------
SettingsInit ==
    /\ shown = [p \in Pane |-> Shut] /\ boxes = {} /\ made = [choices |-> 0, boxes |-> 0]
    /\ settingsTable = [d \in Folder |-> Unused] /\ xmlFile = settingsTable
    /\ unique \in BOOLEAN /\ resize \in {"never", "style", "always"}
    /\ recorded = [now |-> [d \in Folder |-> NeverSaved], filed |-> [d \in Folder |-> NeverSaved]]

OnlyShown == UNCHANGED <<settingsTable, xmlFile, boxes, unique, resize, recorded>>

OpenShown(p, folder, src) ==
    /\ shown[p].at = NoFolder
    /\ ~(unique /\ OthersAt(p, folder) # {})
    /\ src # NoFolder => OnScreen(src)
    /\ shown' = [shown EXCEPT ![p] = NewPane(folder, src)]
    /\ UNCHANGED made /\ OnlyShown

(* open_filer_window, on a timeout or when the scan ends: only a position   *)
(* that is recorded keeps the window from being resized.                    *)
OpenFilerWindow(p) ==
    /\ shown[p].opening
    /\ LET force == ~(resize = "never" /\ "position" \in settingsTable[shown[p].at].ticked)
           laid  == SetLayout(shown[p], shown[p].wanted, shown[p].is["details"], force)
       IN  shown' = [shown EXCEPT ![p] = [laid EXCEPT !.opening = FALSE]]
    /\ UNCHANGED made /\ OnlyShown

(* filer_change_to: a window may also go to where it is already.            *)
GoTo(p, folder) ==
    /\ OnScreen(p)
    /\ shown' = [q \in Pane |->
                  IF q = p THEN CheckSettings([shown[p] EXCEPT !.at = folder])
                  ELSE IF unique /\ q \in OthersAt(p, folder) THEN Shut ELSE shown[q]]
    /\ UNCHANGED made /\ OnlyShown

CloseShown(p) ==
    /\ shown[p].at # NoFolder
    /\ shown' = [shown EXCEPT ![p] = Shut]
    /\ UNCHANGED made /\ OnlyShown

(* display_change_size: bigger or smaller icons, from what is displayed, as *)
(* long as there are any.                                                   *)
ChangeSize(p, bigger) ==
    LET next == IF shown[p].is["style"] # "large" THEN "large"
                ELSE IF bigger THEN "huge" ELSE "small"
    IN /\ shown[p].is["style"] # (IF bigger THEN "huge" ELSE "small")
       /\ shown' = [shown EXCEPT ![p] = SetLayout(@, next, @.is["details"], FALSE)]

(* The display menu and the toolbar, one thing at a time.  Hidden files and *)
(* the filter lay the window out again (display_update_hidden), sorting     *)
(* does not; another view may resize it, and so may the user.  The menu     *)
(* toggles the automatic size of icons, the toolbar only turns it on.       *)
Choose(p) ==
    /\ OnScreen(p) /\ made.choices < MaxChoices
    /\ made' = [made EXCEPT !.choices = @ + 1]
    /\ \/ \E k \in Alike \cup {"thumbs", "size"} : shown' = [shown EXCEPT ![p].is[k] = ~@]
       \/ \E k \in Alike :
             LET q == [shown[p] EXCEPT !.is[k] = ~@]
             IN shown' = [shown EXCEPT ![p] = SetLayout(q, q.wanted, q.is["details"], FALSE)]
       \/ LET view == [shown[p].is EXCEPT !["view"] = ~@]
          IN shown' = [shown EXCEPT ![p].is = Autosized(view, resize # "never")]
       \/ shown' = [shown EXCEPT ![p] = SetLayout(@, @.wanted, ~@.is["details"], FALSE)]
       \/ \E bigger \in BOOLEAN : ChangeSize(p, bigger)
       \/ LET wanted == IF shown[p].wanted = "auto" THEN shown[p].is["style"] ELSE "auto"
          IN shown' = [shown EXCEPT ![p] = SetLayout(@, wanted, @.is["details"], FALSE)]
       \/ shown' = [shown EXCEPT ![p] = SetLayout(@, "auto", @.is["details"], TRUE)]
    /\ OnlyShown

--------------------
(* filer_save_settings. *)
SaveSettings(p) ==
    /\ OnScreen(p) /\ made.boxes < MaxBoxes
    /\ made' = [made EXCEPT !.boxes = @ + 1]
    /\ boxes' = boxes \cup {[folder |-> shown[p].at, is |-> shown[p].is]}
    /\ UNCHANGED <<shown, settingsTable, xmlFile, unique, resize, recorded>>

(* add_nodes: whether the thumbnails are recorded goes by the tick for the  *)
(* style.                                                                   *)
AddNodes(set) ==
    [set EXCEPT !.ticked = IF "style" \in @ THEN @ \cup {"thumbs"} ELSE @ \ {"thumbs"}]

(* Mutant: what was recorded first stays. *)
StoreOnce(box, ticked) ==
    [settingsTable EXCEPT ![box.folder] = IF @ = Unused THEN [is |-> box.is, ticked |-> ticked] ELSE @]

StoreSettings(box, ticked) == [settingsTable EXCEPT ![box.folder] = [is |-> box.is, ticked |-> ticked]]

(* settings_response and save_settings.  Settings.xml is written in place,  *)
(* if it can be opened at all, and the result is not looked at; of a file   *)
(* that is cut short xml_new can load nothing.                              *)
Respond(box, ticked, outcome) ==
    /\ box \in boxes /\ boxes' = boxes \ {box}
    /\ settingsTable' = StoreSettings(box, ticked)
    /\ LET now == [recorded.now EXCEPT ![box.folder] =
                      [set |-> [is |-> box.is, ticked |-> ticked], loaded |-> FALSE]]
       IN \/ /\ outcome = "written"
             /\ xmlFile' = [d \in Folder |-> AddNodes(settingsTable'[d])]
             /\ recorded' = [now |-> now, filed |-> now]
          \/ /\ outcome = "cut short"
             /\ xmlFile' = [d \in Folder |-> Unused]
             /\ recorded' = [now |-> now, filed |-> [d \in Folder |-> NeverSaved]]
          \/ /\ outcome = "not opened"
             /\ xmlFile' = xmlFile
             /\ recorded' = [now |-> now, filed |-> recorded.filed]
    /\ UNCHANGED <<shown, made, unique, resize>>

CancelBox(box) ==
    /\ box \in boxes /\ boxes' = boxes \ {box}
    /\ UNCHANGED <<shown, settingsTable, xmlFile, made, unique, resize, recorded>>

(* The filer ends, or dies, and is started again: load_settings. *)
LoadSettings(set) == [set EXCEPT !.is = [k \in Thing |-> IF k \in AboutAll(set.ticked) THEN @[k] ELSE ByDefault[k]]]

StartAgain ==
    /\ settingsTable # [d \in Folder |-> Unused]
    /\ shown' = [p \in Pane |-> Shut] /\ boxes' = {}
    /\ settingsTable' = [d \in Folder |-> LoadSettings(xmlFile[d])]
    /\ recorded' = [recorded EXCEPT !.now = [d \in Folder |-> [recorded.filed[d] EXCEPT !.loaded = TRUE]]]
    /\ UNCHANGED <<xmlFile, made, unique, resize>>

SettingsNext ==
    \/ \E p \in Pane, d \in Folder : GoTo(p, d) \/ \E src \in Pane \cup {NoFolder} : OpenShown(p, d, src)
    \/ \E p \in Pane : OpenFilerWindow(p) \/ CloseShown(p) \/ Choose(p) \/ SaveSettings(p)
    \/ \E box \in boxes : \/ CancelBox(box)
                          \/ \E ticked \in Ticked, outcome \in {"written", "cut short", "not opened"} :
                                Respond(box, ticked, outcome)
    \/ StartAgain

SettingsSpec == SettingsInit /\ [][SettingsNext]_settingsVars

--------------------
(* Each time a directory is opened, or a window goes to it, it is displayed *)
(* by what was last recorded for it ("Remember the display settings just    *)
(* for this directory.  Each time you open the directory, the saved         *)
(* settings will be used", Help/Manual.html:520), as the box showed it when *)
(* it was opened, whatever the window was, showed or inherits, and so it    *)
(* comes on the screen.  After a restart that is what the file was last     *)
(* written with in full, if no write has been cut short since, and but for  *)
(* the thumbnails, which go by the tick for the style.  The size is used    *)
(* where windows are never resized automatically, and then only until they  *)
(* come on the screen, unless the position is recorded with it.             *)
Kept(r) == AboutAll(r.set.ticked) \ (IF r.loaded /\ "style" \notin r.set.ticked THEN {"thumbs"} ELSE {})
Resized == IF resize = "never" THEN {} ELSE {"size"}
ResizedIn(d) == IF resize = "never" /\ "position" \in settingsTable[d].ticked THEN {} ELSE {"size"}

SettingsUsed ==
    [][\A p \in Pane :
          LET d == shown'[p].at IN
          /\ d # NoFolder /\ d # shown[p].at => \A k \in Kept(recorded.now[d]) \ Resized :
                                                   shown'[p].is[k] = recorded.now[d].set.is[k]
          /\ d # NoFolder /\ d = shown[p].at /\ shown[p].opening => \A k \in Thing \ ResizedIn(d) :
                                                   shown'[p].is[k] = shown[p].is[k]]_settingsVars
=============================================================================

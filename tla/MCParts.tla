------------------------------ MODULE MCParts ------------------------------
(* Small instances, for TLC, of the parts of the filer that share no state *)
(* with each other: a behaviour is one of one part, and the others stay as *)
(* they were at the start.                                                 *)
EXTENDS Collection, Tasklist, Remote, Icons, Pointer, DirectSave,
    BulkRename, Details, Options, Minibuffer, Infobox, Mounts, Bookmarks, Find, Settings, RunAction, TLC
CONSTANTS pinA, pinB, panC, pin, leftPanel, s1, k1,
    view1, details1, pin1, desk, icon1, panel1, w2
VARIABLE part

(* Remote *)
Requests == {<<"open">>, <<"close">>, <<"close", "open">>, <<"error", "open">>}

(* Icons: two icons of the pinboard and one of a panel. *)
Boards == (pinA :> pin) @@ (pinB :> pin) @@ (panC :> leftPanel)
Keys   == s1 :> k1
Asked  == {<<"p1", NoShortcut, TRUE>>, <<"p2", s1, FALSE>>}

(* Pointer: a view of each kind, the pinboard with an icon and a panel with*)
(* one.                                                                    *)
Kinds  == (view1 :> "view") @@ (details1 :> "details") @@ (pin1 :> "pin") @@ (desk :> "pinboard")
          @@ (icon1 :> "panel icon") @@ (panel1 :> "panel")
Outers == (pin1 :> desk) @@ (icon1 :> panel1) @@ [w \in Widget |-> w]
Tried  == {<<TRUE, TRUE, FALSE>>, <<FALSE, FALSE, TRUE>>}

(* BulkRename: two of the names are second spellings of others. *)
Spelled == ("" :> "none") @@ ("a" :> "pa") @@ ("b" :> "pb") @@ ("c" :> "pc")
           @@ ("./b" :> "pb") @@ ("./c" :> "pc")
Shown0  == <<"a", "b">>

(* Options: one option is in the box; there may be a file of the oldest     *)
(* form.                                                                   *)
Unset == [o \in Opt |-> 0]
Olds  == {[format |-> "lines", options |-> "x" :> 1, home |-> TRUE]}

(* Minibuffer: four names, one of them hidden and one a directory. *)
Names4 == <<<<".", "a">>, <<"a">>, <<"a", "b">>, <<"A", "b", "c">>>>
Lower  == [c \in {"a", "b", "c", ".", "A"} |-> IF c = "A" THEN "a" ELSE c]
InPlaces == ("p" :> ToSet(Names4)) @@ ("q" :> {<<"a", "b">>})
SubOf  == <<"p", <<"a">>>> :> "q"
Typed  == {<<"a">>, <<"a", "b">>, <<".">>, <<"c">>}
GlobOf == "g1" :> {<<"a", "b">>, <<"A", "b", "c">>}
TrueOf == "c1" :> {<<"a">>}

(* Infobox: links to a directory and to nothing. *)
KindOfTarget == ("d" :> "dir") @@ ("none" :> "gone")

(* Mounts: one mount point, and a directory in it. *)
DirsAbove == ("top" :> {"top"}) @@ ("m" :> {"m", "top"}) @@ ("m/d" :> {"m/d", "m", "top"})
DirParent == ("top" :> "top") @@ ("m" :> "top") @@ ("m/d" :> "m")

(* Bookmarks: some directories and what they are in. *)
DirsIn == ("top" :> "root") @@ ("a" :> "top") @@ ("a/b" :> "a") @@ ("c" :> "top")

(* Find: one word of flags, one number, one unit and one variable. *)
FlagsOf   == "-fl" :> <<"IsReg", "IsLink">>
Numbers   == "1" :> 1
UnitSizes == "K" :> 2
Found     == {[is |-> {"IsReg", "'a'"}, value |-> "size" :> 0, now |-> 3],
              [is |-> {"IsLink", "'a'"}, value |-> "size" :> 1, now |-> 3],
              [is |-> {"IsReg"}, value |-> "size" :> 2, now |-> 3],
              [is |-> {"IsReg", "IsLink"}, value |-> "size" :> 0, now |-> 1]}

(* RunAction: two types of one media type, one a special case of the other. *)
MediaTypes == ("xml" :> "application") @@ ("xhtml" :> "application")
Parents    == ("xml" :> <<>>) @@ ("xhtml" :> <<"xml">>)
Defaults   == ("xml" :> <<"desk">>) @@ ("xhtml" :> <<>>)
AppKinds   == ("dir" :> "appdir") @@ ("prog" :> "program") @@ ("desk" :> "desktop")

(* Settings: some ticks are left in each box. *)
TicksLeft == {{"style", "hidden", "size"}, {"details", "thumbs", "size", "position"}}

Init ==
    /\ part \in {"marks", "selection", "tasklist", "remote", "icons", "pointer", "saving",
               "renaming", "details", "options", "minibuffer", "infobox", "mounts", "bookmarks", "history", "find", "settings", "runaction", "opening"}
    /\ ActionsInit /\ OpenInit /\ TaskInit /\ RemoteInit /\ IconInit /\ PointerInit
    /\ SaveInit /\ BulkInit /\ DetailsInit /\ OptionsInit /\ SettingsInit /\ FindInit /\ BookmarksInit /\ MountInit /\ InfoInit /\ MiniInit
    /\ IF part = "marks" THEN CollInit ELSE coll = NewCollection
    /\ disk \in [RunPath -> {NotThere} \cup {Program(a) : a \in App}] \* tabulated
    /\ setting.singleClick => part = "pointer"
    /\ unique => part = "settings"
    /\ part # "settings" \/ unique => resize = "never"
    /\ bm.file.there => part # "history"

(* A step of one part, which leaves the variables of the others alone. *)
Only(p, A) ==
    /\ part = p /\ A /\ UNCHANGED part
    /\ IF p \in {"marks", "selection"} THEN TRUE ELSE UNCHANGED coll
    /\ IF p = "tasklist" THEN TRUE ELSE UNCHANGED taskVars
    /\ IF p = "remote" THEN TRUE ELSE UNCHANGED remoteVars
    /\ IF p = "icons" THEN TRUE ELSE UNCHANGED iconVars
    /\ IF p = "pointer" THEN TRUE ELSE UNCHANGED pointerVars
    /\ IF p = "saving" THEN TRUE ELSE UNCHANGED saveVars
    /\ IF p = "renaming" THEN TRUE ELSE UNCHANGED bulkVars
    /\ IF p = "details" THEN TRUE ELSE UNCHANGED detailsVars
    /\ IF p = "options" THEN TRUE ELSE UNCHANGED optionVars
    /\ IF p = "minibuffer" THEN TRUE ELSE UNCHANGED miniVars
    /\ IF p = "infobox" THEN TRUE ELSE UNCHANGED infoVars
    /\ IF p = "mounts" THEN TRUE ELSE UNCHANGED mountVars
    /\ IF p \in {"bookmarks", "history"} THEN TRUE ELSE UNCHANGED bookmarkVars
    /\ IF p = "settings" THEN TRUE ELSE UNCHANGED settingsVars
    /\ IF p = "find" THEN TRUE ELSE UNCHANGED query
    /\ IF p = "runaction" THEN TRUE ELSE UNCHANGED runVars
    /\ IF p = "opening" THEN TRUE ELSE UNCHANGED openVars

FewLinks == thing'.link => thing'.kind \in {"dir", "file"}
InIcons(A) == Only("icons", A) /\ (icon'[pinB].state # "none" => icon'[pinA].state # "none")

Next ==
    \/ Only("marks", ItemSteps \/ MarkSteps)
    \/ Only("selection", SelectionSteps \/ \E S \in SUBSET Item : ItemsAdded(S) \/ ItemsDeleted(S))
    \/ Only("tasklist", TaskNext)
    \/ Only("remote", RemoteNext)
    \/ InIcons(SoundNext)
    \/ Only("pointer", PointerNext)
    \/ Only("saving", SaveNext /\ (drag'.from \in {"filer", "other"} => box' = NewBox))
    \/ Only("renaming", BulkNext)
    \/ Only("details", DetailsNext)
    \/ Only("options", OptionsNext)
    \/ Only("find", FindSteps)
    \/ Only("runaction", BoxSteps \/ OutsideSteps)
    \/ Only("opening", (dataPipe = NoPipe /\ OpenSteps /\ FewLinks) \/ (opened = NotOpened /\ PipeSteps))
    \/ Only("settings", SettingsNext /\ (made'.boxes = 2 => shown'[w2].at = NoFolder))
    \/ Only("bookmarks", MarksNext) \/ Only("history", HistoryNext)
    \/ Only("mounts", MountNext)
    \/ Only("infobox", InfoNext)
    \/ Only("minibuffer", MiniNext)

vars == <<part, pointerVars, coll, taskVars, remoteVars, iconVars, saveVars,
          bulkVars, detailsVars, optionVars, miniVars, infoVars, mountVars, bookmarkVars, query, settingsVars, runVars, openVars>>

Spec == Init /\ [][Next]_vars

(* What the part that runs has changed: the rest is as it was. *)
OwnState ==
    CASE part \in {"marks", "selection"} -> <<part, coll>>
      [] part = "tasklist" -> <<part, taskVars>>
      [] part = "remote"   -> <<part, remoteVars>>
      [] part = "icons"    -> <<part, iconVars>>
      [] part = "pointer"  -> <<part, pointerVars>>
      [] part = "saving"   -> <<part, saveVars>>
      [] part = "renaming" -> <<part, bulkVars>>
      [] part = "details"  -> <<part, detailsVars>>
      [] part = "options"  -> <<part, optionVars>>
      [] part = "find" -> <<part, query>>
      [] part = "runaction" -> <<part, runVars>>
      [] part = "opening" -> <<part, openVars>>
      [] part = "settings" -> <<part, settingsVars>>
      [] part \in {"bookmarks", "history"} -> <<part, bookmarkVars>>
      [] part = "mounts" -> <<part, mountVars>>
      [] part = "infobox" -> <<part, infoVars>>
      [] part = "minibuffer" -> <<part, miniVars>>

(* The icons alone. *)
IconSpec == Init /\ part = "icons" /\ [][Next]_vars
=============================================================================

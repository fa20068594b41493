------------------------------ MODULE RunAction ------------------------------
(* What happens when the user opens something, and the Set Run Action box.  *)
(* The program for a type is found through Choices: an entry for the type   *)
(* or, failing that, for its media type, in the user's directory or in the  *)
(* system's; then the desktop's default; then that of a parent type.  The   *)
(* box binds a program to a type or to its media type, and removes such an  *)
(* entry again (run.c, the end of type.c, filer_openitem).                  *)
EXTENDS Integers, Sequences, FiniteSets
CONSTANTS Type, MediaOf, ParentsOf,       \* parents: a sequence of types
          DefaultsOf,                     \* the desktop files of mimeapps.list
          App, AppKind,                   \* "appdir", "program", "big", "desktop" or "text"
          Theirs,                         \* programs the user may not delete
          ShellCommand, EmptyCommand, LongOnes, Asking,   \* long ones; those that have a $
          ActionBox, NoType, MaxOutside,
          DataLength, PipeSize
VARIABLES disk, actionBox, asksToDelete, bound, outside,
          thing, seenAs, itemView, opened, dataPipe
runVars == <<disk, actionBox, asksToDelete, bound, outside>>
openVars == <<thing, seenAs, itemView, opened, dataPipe>>

(* No type is, through its parents, its own parent: type_from_path and the  *)
(* functions that follow parents do not return otherwise.                   *)
RunAssumption ==
    /\ AppKind \in [App -> {"appdir", "program", "big", "desktop", "text"}]
    /\ \A t \in Type : DefaultsOf[t] \in Seq(App) /\ ParentsOf[t] \in Seq(Type)
    /\ IsFiniteSet(Type)
    /\ \E rank \in [Type -> 0..Cardinality(Type)] :
           \A t \in Type : \A i \in DOMAIN ParentsOf[t] : rank[ParentsOf[t][i]] < rank[t]
    /\ DataLength \in Nat /\ PipeSize \in Nat
ASSUME RunAssumption

RunName    == Type \cup {MediaOf[t] : t \in Type}
RunPath == ({"user", "system"} \X RunName) \cup ({"app"} \X App)
NoRun   == <<"none", "none">>
NotThere == [is |-> "nothing", to |-> "none"]
LinkedTo(a) == [is |-> "link", to |-> a]
(* A script of more than 256 bytes counts as a big program. *)
Script(c) == [is |-> IF c \in LongOnes THEN "big" ELSE "script", to |-> c]
Program(a) == [is |-> AppKind[a], to |-> a]

(* exists follows links. *)
RunExists(p) == /\ p # NoRun
                /\ disk[p].is = "link" => disk[<<"app", disk[p].to>>].is # "nothing"
                /\ disk[p].is # "nothing"
FirstIn(paths, good) ==
    LET fit == {i \in DOMAIN paths : paths[i] \in good}
    IN IF fit = {} THEN NoRun ELSE paths[CHOOSE i \in fit : \A j \in fit : i <= j]
FirstThere(paths) == FirstIn(paths, {p \in RunPath : RunExists(p)})
(* Mutant: the system's directory is looked at first. *)
ChoicesPathsSystem(n) == <<<<"system", n>>, <<"user", n>>>>
ChoicesPaths(n) == <<<<"user", n>>, <<"system", n>>>>
ChoicesLoad(n)  == FirstThere(ChoicesPaths(n))
DefaultApp(t) == FirstThere([i \in DOMAIN DefaultsOf[t] |-> <<"app", DefaultsOf[t][i]>>])
Followed(p) == IF p # NoRun /\ disk[p].is = "link" THEN <<"app", disk[p].to>> ELSE p

HandlerFor[t \in Type] ==
    LET own == FirstIn(<<ChoicesLoad(t), ChoicesLoad(MediaOf[t]), DefaultApp(t)>>, RunPath)
        inherited == [i \in DOMAIN ParentsOf[t] |-> HandlerFor[ParentsOf[t][i]]]
    IN IF own # NoRun THEN Followed(own) ELSE FirstIn(inherited, RunPath)

(* What is run for a file of type t: type_open. *)
Runs(t) == IF HandlerFor[t] = NoRun THEN NotThere ELSE disk[HandlerFor[t]]

(***************************************************************************)
(* The box.                                                                *)
(***************************************************************************)
NewActionBox == [state |-> "none", type |-> NoType, media |-> FALSE, text |-> EmptyCommand]
NotAsking == [box |-> {}, does |-> "none", with |-> "none", path |-> NoRun]

(* handler_for_radios: what the box shows, and what Clear removes. *)
ForRadios(b) == IF b.media THEN ChoicesLoad(MediaOf[b.type]) ELSE HandlerFor[b.type]

(* get_current_command: only a small script of the usual form is taken. *)
CurrentCommand(t) == IF Runs(t).is = "script" THEN Runs(t).to ELSE EmptyCommand

BoxFor(t) == [NewActionBox EXCEPT !.state = "open", !.type = t, !.text = CurrentCommand(t)]

BoxUsable(x) == asksToDelete = NotAsking /\ actionBox[x].state \in {"open", "closing"}

SetRunAction(x, t) ==
    /\ asksToDelete = NotAsking /\ actionBox[x].state = "none"
    /\ actionBox' = [actionBox EXCEPT ![x] = BoxFor(t)]
    /\ UNCHANGED <<disk, asksToDelete, bound, outside>>

RadioChosen(x) ==
    /\ BoxUsable(x)
    /\ actionBox' = [actionBox EXCEPT ![x].media = ~@]
    /\ UNCHANGED <<disk, asksToDelete, bound, outside>>

(* Close, or the idle callback after a drop. *)
BoxClosed(x) ==
    /\ BoxUsable(x)
    /\ actionBox' = [actionBox EXCEPT ![x] = NewActionBox]
    /\ UNCHANGED <<disk, asksToDelete, bound, outside>>

SaveName(b) == IF b.media THEN MediaOf[b.type] ELSE b.type
(* get_action_save_path. *)
SavePath(b) == <<"user", SaveName(b)>>

Unlinkable(p) == /\ disk[p].is \notin {"nothing", "appdir"} /\ p[1] # "system"
                 /\ p[1] = "app" => p[2] \notin Theirs
Unlink(p) == [disk EXCEPT ![p] = NotThere]
Unbound(p) == IF p[1] = "user" THEN [bound EXCEPT ![p[2]] = NotThere] ELSE bound

(* The old entry is out of the way.  Clear is done; a program that was      *)
(* dropped is linked to, and the box goes when the filer is idle; a script  *)
(* is written, which may fail at the start or half way and closes the box   *)
(* even so.                                                                 *)
Cleared(x, after, free) == disk' = after /\ bound' = free /\ UNCHANGED actionBox
Linked(x, p, a, after, free) ==
    /\ disk' = [after EXCEPT ![p] = LinkedTo(a)] /\ bound' = [free EXCEPT ![p[2]] = LinkedTo(a)]
    /\ actionBox' = [actionBox EXCEPT ![x].state = "closing"]
ScriptWritten(x, p, c, after, free) ==
    /\ actionBox' = [actionBox EXCEPT ![x] = NewActionBox]
    /\ \/ disk' = [after EXCEPT ![p] = Script(c)] /\ bound' = [free EXCEPT ![p[2]] = Script(c)]
       \/ /\ disk' \in {after, [after EXCEPT ![p] = [is |-> "broken", to |-> "none"]]}
          /\ bound' = [free EXCEPT ![p[2]] = NotThere]
Carry(x, does, a, after, free) ==
    /\ asksToDelete' = NotAsking
    /\ \E p \in {SavePath(actionBox[x])} :
         \/ does = "clear" /\ Cleared(x, after, free)
         \/ does = "drop" /\ Linked(x, p, a, after, free)
         \/ does = "command" /\ ScriptWritten(x, p, a, after, free)

(* The entry could not be removed, or the user would not have it removed. *)
Abandon == asksToDelete' = NotAsking /\ UNCHANGED <<disk, bound, actionBox>>

Droppable(a) == disk[<<"app", a>>].is \in {"appdir", "program", "big"}

(* remove_handler_with_confirm, for Clear, a program that is dropped on the *)
(* box, or Use ShellCommand.                                                     *)
BoxUsed(x, does, a) ==
    /\ BoxUsable(x)
    /\ does = "drop" => Droppable(a)
    /\ does = "command" => a \in Asking
    /\ \E p \in {IF does = "clear" THEN ForRadios(actionBox[x]) ELSE SavePath(actionBox[x])} :
         IF p = NoRun \/ disk[p].is = "nothing" THEN Carry(x, does, a, disk, bound)
         ELSE IF disk[p].is = "big"
         THEN /\ asksToDelete' = [box |-> {x}, does |-> does, with |-> a, path |-> p]
              /\ UNCHANGED <<disk, actionBox, bound>>
         ELSE IF Unlinkable(p) THEN Carry(x, does, a, Unlink(p), Unbound(p))
         ELSE Abandon
    /\ UNCHANGED outside

Answered(x, yes) ==
    /\ asksToDelete.box = {x}
    /\ IF yes /\ Unlinkable(asksToDelete.path)
       THEN Carry(x, asksToDelete.does, asksToDelete.with, Unlink(asksToDelete.path), Unbound(asksToDelete.path))
       ELSE Abandon
    /\ UNCHANGED outside

(* Another program: installs or removes programs, and writes entries. *)
AppComesOrGoes(a) ==
    /\ outside < MaxOutside /\ outside' = outside + 1
    /\ disk' = [disk EXCEPT ![<<"app", a>>] = IF @ = NotThere THEN Program(a) ELSE NotThere]
    /\ UNCHANGED <<actionBox, asksToDelete, bound>>
EntryWritten(p, v) ==
    /\ outside < MaxOutside /\ outside' = outside + 1 /\ disk[p] # v
    /\ disk' = [disk EXCEPT ![p] = v] /\ bound' = Unbound(p)
    /\ UNCHANGED <<actionBox, asksToDelete>>

ActionsInit ==
    /\ disk = [p \in RunPath |-> IF p[1] = "app" THEN Program(p[2]) ELSE NotThere]
    /\ actionBox = [x \in ActionBox |-> NewActionBox] /\ asksToDelete = NotAsking
    /\ bound = [n \in RunName |-> NotThere] /\ outside = 0

BoxSteps ==
    \/ \E x \in ActionBox :
         \/ \E t \in Type : SetRunAction(x, t)
         \/ RadioChosen(x) \/ BoxClosed(x) \/ BoxUsed(x, "clear", "none")
         \/ \E c \in ShellCommand \cup {actionBox[x].text} : BoxUsed(x, "command", c)
         \/ \E a \in App : BoxUsed(x, "drop", a)
         \/ \E yes \in BOOLEAN : Answered(x, yes)
OutsideSteps ==
    \/ \E a \in App : AppComesOrGoes(a)
    \/ \E p \in {"user", "system"} \X RunName, v \in {NotThere, Script(EmptyCommand)} \cup {LinkedTo(a) : a \in App \ Theirs} :
         EntryWritten(p, v)

(* Names whose binding type t may use. *)
NamesFor[t \in Type] == {t, MediaOf[t]} \cup UNION {NamesFor[ParentsOf[t][i]] : i \in DOMAIN ParentsOf[t]}

Specific(t) == ChoicesLoad(t) # NoRun
Present(v) == v # NotThere /\ (v.is = "link" => disk[<<"app", v.to>>] # NotThere)
WhatRuns(v) == IF v.is = "link" THEN disk[<<"app", v.to>>] ELSE v

(* Once a program or a command is set for a type it is what is run for that *)
(* type, and one set for a media type is what is run for each of its types  *)
(* that has no entry of its own (Manual.html:1627-1638), until somebody     *)
(* removes the entry or the program.                                        *)
RunsWhatWasSet == \A n \in RunName : Present(bound[n]) =>
    \A t \in Type : (t = n \/ (MediaOf[t] = n /\ ~Specific(t))) => Runs(t) = WhatRuns(bound[n])

(* Setting it for one name leaves what is run for the types that do not go  *)
(* by that name; and an entry that is a program of some size is deleted     *)
(* only once the user was asked about that one.                             *)
SetsOnly == \A n \in RunName : bound'[n] # bound[n] /\ bound'[n] # NotThere =>
    \A t \in Type : n \notin NamesFor[t] => Runs(t)' = Runs(t)
AskedFirst == \A p \in RunPath :
    disk[p].is = "big" /\ disk'[p] # disk[p] /\ outside' = outside => asksToDelete.path = p

RunActionRight == []RunsWhatWasSet /\ [][SetsOnly /\ AskedFirst]_runVars

(***************************************************************************)
(* Opening an item of a window.  What it is was seen at the last scan, and *)
(* may have changed on the disk.                                           *)
(***************************************************************************)
ItemKind == {"dir", "appdir", "unmounted", "mounted", "program", "file", "device", "missing"}
DirKind(k) == k \in {"dir", "appdir", "unmounted", "mounted"}
NotOpened == [does |-> "none", seen |-> "none", link |-> FALSE, shift |-> FALSE, started |-> FALSE,
              closed |-> FALSE, winked |-> FALSE]

(* open_mountpoint, run_diritem: what is done with an item that was seen    *)
(* as k.                                                                    *)
OpenMountPoint(k, edit) ==
    IF (k = "mounted") = edit THEN IF k = "mounted" THEN "unmount" ELSE "mount" ELSE "look"
RunDirItem(k, link, edit) ==
    IF link /\ edit THEN "target"
    ELSE IF k = "appdir" /\ ~edit THEN "run"
    ELSE IF k \in {"unmounted", "mounted"} THEN OpenMountPoint(k, edit)
    ELSE IF DirKind(k) THEN "look"
    ELSE IF k = "program" /\ ~edit THEN "run"
    ELSE IF k \in {"program", "file"} THEN IF edit THEN "edit" ELSE "load"
    ELSE "error"

(* What the run_ functions return, and whether a program was started: an    *)
(* application counts as run whatever happens; a program that cannot be     *)
(* started does not; a file counts as loaded if there is a handler, even    *)
(* one that cannot be started, or a helper that can.                        *)
RunOutcomes(k, now) == {[ok |-> k = "appdir" \/ now = k, started |-> now = k]}
LoadOutcomes == {[ok |-> TRUE, started |-> TRUE], [ok |-> TRUE, started |-> FALSE], [ok |-> FALSE, started |-> FALSE]}
LinkOutcomes == {[ok |-> thing.link, started |-> FALSE]}
Outcomes(does, k) ==
    CASE does = "run" -> RunOutcomes(k, thing.kind)
      [] does \in {"load", "edit"} -> LoadOutcomes
      [] does = "target" -> LinkOutcomes
      [] OTHER -> {[ok |-> does # "error", started |-> FALSE]}

(* filer_openitem: with the shell minibuffer up the name is added to the    *)
(* command.  Otherwise an item not yet examined is examined, and opened; if *)
(* the window goes to another directory that is all, else it is closed or   *)
(* the item winks.  A target in the same directory leaves the window there. *)
(* Mutant: an application always counts as run.                             *)
KeepsNotApps(k, shift) == DirKind(k) /\ k # "appdir"
Keeps(k, shift) == DirKind(k) /\ (shift \/ k # "appdir")

OpenItem(shift, same, close, mini) ==
    /\ itemView.open /\ itemView.mini # "shell" /\ itemView.at = "home"
    /\ \E seen \in {IF seenAs.kind = "unknown" THEN thing ELSE seenAs} :
       \E does \in {RunDirItem(seen.kind, seen.link, shift)} : \E r \in Outcomes(does, seen.kind) :
       \E moved \in {r.ok /\ same /\ does \in {"look", "mount", "target"} /\ (does = "target" => ~thing.near)} :
       \E closed \in {r.ok /\ ~moved /\ close /\ ~Keeps(seen.kind, shift)} :
         /\ seenAs' = seen
         /\ opened' = [does |-> does, seen |-> seen.kind, link |-> seen.link, shift |-> shift,
                       started |-> r.started, closed |-> closed,
                       winked |-> r.ok /\ ~moved /\ ~closed /\ ~(shift /\ seen.link)]
         /\ itemView' = [itemView EXCEPT !.open = ~closed, !.at = IF moved THEN IF does = "target" THEN "target" ELSE "item" ELSE @,
                                 !.mini = IF r.ok /\ ~moved /\ mini THEN "none" ELSE @]
    /\ UNCHANGED <<thing, dataPipe>>
(* The item was not examined yet and is gone: dir_update_item has freed it  *)
(* when it is opened, which works as long as the memory holds.              *)
FreedOpened ==
    /\ itemView.open /\ itemView.mini # "shell" /\ itemView.at = "home"
    /\ seenAs.kind = "unknown" /\ thing.kind = "missing"
    /\ opened' = [NotOpened EXCEPT !.does = "crash"] /\ itemView' = [itemView EXCEPT !.open = FALSE]
    /\ UNCHANGED <<thing, seenAs, dataPipe>>
AddedToCommand ==
    /\ itemView.open /\ itemView.mini = "shell" /\ itemView.at = "home"
    /\ opened' = NotOpened /\ UNCHANGED <<thing, seenAs, itemView, dataPipe>>

(* The item changes, a scan or a report brings the window up to date, and   *)
(* the user comes back to the directory.                                    *)
ThingChanges(k, link, near) ==
    /\ thing' = [kind |-> k, link |-> link, near |-> near] /\ thing' # thing
    /\ near => link
    /\ opened' = NotOpened /\ UNCHANGED <<seenAs, itemView, dataPipe>>
Examined ==
    /\ seenAs # thing /\ seenAs' = thing
    /\ opened' = NotOpened /\ UNCHANGED <<thing, itemView, dataPipe>>
BackHome(mini) ==
    /\ itemView' = [open |-> TRUE, at |-> "home", mini |-> mini] /\ seenAs' = [thing EXCEPT !.kind = "unknown"]
    /\ opened' = NotOpened /\ UNCHANGED <<thing, dataPipe>>

(***************************************************************************)
(* run_with_data: data dropped on a program is written to its standard     *)
(* input as it takes it, by a callback of the main loop.                   *)
(***************************************************************************)
NoPipe == [state |-> "none", sent |-> 0, read |-> 0, reader |-> FALSE, error |-> FALSE]
DataDropped ==
    /\ dataPipe.state = "none" /\ dataPipe' = [NoPipe EXCEPT !.state = "open", !.reader = TRUE]
    /\ UNCHANGED <<thing, seenAs, itemView, opened>>

(* Mutant: the dataPipe is closed when it is full. *)
WriteOnce ==
    /\ dataPipe.state = "open"
    /\ \E room \in {PipeSize - (dataPipe.sent - dataPipe.read)} :
         /\ dataPipe.reader => room > 0
         /\ dataPipe' = IF ~dataPipe.reader THEN [dataPipe EXCEPT !.state = "closed", !.error = TRUE]
                    ELSE [dataPipe EXCEPT !.sent = IF DataLength - @ <= room THEN DataLength ELSE @ + room, !.state = "closed"]
    /\ UNCHANGED <<thing, seenAs, itemView, opened>>
(* write_data goes on until all is sent, the dataPipe is full or the program is *)
(* gone.                                                                    *)
WriteData ==
    /\ dataPipe.state = "open"
    /\ \E room \in {PipeSize - (dataPipe.sent - dataPipe.read)} : \E all \in {DataLength - dataPipe.sent <= room} :
         /\ dataPipe.reader => room > 0
         /\ dataPipe' = IF ~dataPipe.reader THEN [dataPipe EXCEPT !.state = "closed", !.error = dataPipe.sent < DataLength]
                    ELSE IF all THEN [dataPipe EXCEPT !.sent = DataLength, !.state = "closed"]
                    ELSE [dataPipe EXCEPT !.sent = @ + room]
    /\ UNCHANGED <<thing, seenAs, itemView, opened>>
ProgramReads ==
    /\ dataPipe.reader /\ dataPipe.read < dataPipe.sent /\ dataPipe' = [dataPipe EXCEPT !.read = @ + 1]
    /\ UNCHANGED <<thing, seenAs, itemView, opened>>
(* It ends, or closes the dataPipe, or has read to the end. *)
ProgramEnds ==
    /\ dataPipe.reader
    /\ dataPipe' = IF dataPipe.state = "closed" THEN NoPipe ELSE [dataPipe EXCEPT !.reader = FALSE]
    /\ UNCHANGED <<thing, seenAs, itemView, opened>>
PipeForgotten ==
    /\ ~dataPipe.reader /\ dataPipe.state = "closed" /\ dataPipe' = NoPipe
    /\ UNCHANGED <<thing, seenAs, itemView, opened>>

OpenInit ==
    /\ thing = [kind |-> "file", link |-> FALSE, near |-> FALSE] /\ seenAs = [thing EXCEPT !.kind = "unknown"]
    /\ itemView = [open |-> TRUE, at |-> "home", mini |-> "none"] /\ opened = NotOpened /\ dataPipe = NoPipe
OpenSteps ==
    \/ \E shift, same, close \in BOOLEAN : OpenItem(shift, same, close, FALSE)
    \/ \E shift \in BOOLEAN : itemView.mini = "path" /\ OpenItem(shift, TRUE, FALSE, TRUE)
    \/ AddedToCommand \/ Examined \/ FreedOpened
    \/ \E k \in ItemKind, link, near \in BOOLEAN : ThingChanges(k, link, near)
    \/ \E mini \in {"none", "path", "shell"} : BackHome(mini)
PipeSteps == DataDropped \/ WriteData \/ ProgramReads \/ ProgramEnds \/ PipeForgotten

RunSpec ==
    /\ ActionsInit /\ OpenInit
    /\ [][\/ (BoxSteps \/ OutsideSteps) /\ UNCHANGED openVars
          \/ (OpenSteps \/ PipeSteps) /\ UNCHANGED runVars]_<<runVars, openVars>>

(* However the item has changed since it was seen: with Shift held nothing  *)
(* is run, and nothing is mounted; only Shift unmounts, and only what was   *)
(* seen mounted; a window that opened a directory, or started no program    *)
(* where one was to be run, is not closed; and a closed window shows no     *)
(* wink (Manual.html:280-284, 1016-1030; filer.c:920).                      *)
OpenedRight ==
    /\ opened.shift => opened.does \notin {"run", "load", "mount"}
    /\ opened.does = "unmount" => opened.shift /\ opened.seen = "mounted"
    /\ opened.closed => /\ opened.does \in {"run", "load", "edit", "target"}
                        /\ opened.does = "run" /\ opened.seen = "program" => opened.started
                        /\ opened.does = "target" => ~DirKind(opened.seen)
(* A program that reads to the end gets all of the data, unless an error    *)
(* was reported.                                                            *)
AllOrError == dataPipe.state = "closed" /\ ~dataPipe.error => dataPipe.sent = DataLength
RunRight == RunActionRight /\ [](OpenedRight /\ AllOrError)
=============================================================================

------------------------------ MODULE Backdrop ------------------------------
(* The backdrop of the pinboard (pinboard.c): an image that is set from the*)
(* Set Backdrop box or by another program, or a program that the filer     *)
(* runs and that says through a pipe which images to show, one line each,  *)
(* and is told "ok" once an image has been loaded.                          *)
(* A line is read as a whole: a part of one waits in the buffer.            *)
EXTENDS Naturals, Sequences

CONSTANTS Wallpaper,      \* image files
          BackdropApp,    \* applications that can set the backdrop
          FitStyle,       \* ways to show an image; "tile" is one
          MaxPrograms,    \* bound: programs run
          MaxLines,       \* bound: lines that a program writes
          MaxSettings     \* bound: what the user, other programs and the options change

ASSUME BackdropAssumption ==
    /\ "tile" \in FitStyle /\ "program" \notin FitStyle /\ "none" \notin FitStyle
    /\ Wallpaper # {}

VARIABLES
    pb,        \* current_pinboard, what it shows, its file, and the Set Backdrop box
    runs,      \* the programs that were run, in their order
    settings   \* how many changes there were

backdropVars == <<pb, runs, settings>>

PlainBackdrop == [path |-> "none", style |-> "none"]
BackImage(p, style) == [path |-> p, style |-> style]
RunsApp(app) == [path |-> app, style |-> "program"]
NoBackdropBox == [open |-> FALSE, path |-> "none", style |-> "tile"]

\* A program: its lines that the filer has not read, how many images of its were
\* loaded, and how often it was told so.
Started(app) == [app |-> app, alive |-> TRUE, lines |-> <<>>, written |-> 0, loaded |-> 0, oks |-> 0]

--------------------
(* The state of all that a handler changes: pinboard and programs. *)
World == [pb |-> pb, runs |-> runs]

(* Mutant: the program stays connected. *)
AbandonNever(w) == w

(* abandon_backdrop_app: the two pipes are closed, with what the program   *)
(* has written.                                                             *)
AbandonApp(w) ==
    IF w.pb.talks = 0 THEN w
    ELSE [w EXCEPT !.pb.talks = 0, !.runs[w.pb.talks] = [@ EXCEPT !.lines = <<>>, !.written = 0]]

(* pinboard_save: the backdrop is in the file, or the file is as it was. *)
SaveBoard(w, ok) == IF ok THEN [w EXCEPT !.pb.file = w.pb.set, !.pb.unsaved = FALSE]
                    ELSE [w EXCEPT !.pb.unsaved = TRUE]

(* update_radios, and the path in the box.  A button that changes there    *)
(* sets the same backdrop once more.                                        *)
ShowInBox(w) ==
    IF ~w.pb.box.open THEN w
    ELSE [w EXCEPT !.pb.box = [open |-> TRUE, path |-> w.pb.set.path,
                               style |-> IF w.pb.set.style \in FitStyle THEN w.pb.set.style ELSE "tile"]]

(* pinboard_set_backdrop(NULL, BACKDROP_NONE) *)
NoBackdrop(w, ok) ==
    ShowInBox(SaveBoard([AbandonApp(w) EXCEPT !.pb.set = PlainBackdrop, !.pb.drawn = PlainBackdrop], ok))

(* load_backdrop, and the window's new style: an image that cannot be      *)
(* loaded is no longer the backdrop, and neither is the program that named *)
(* it.                                                                      *)
LoadImage(w, i, ok) ==
    IF i.path \in w.pb.images THEN [w EXCEPT !.pb.drawn = i] ELSE NoBackdrop(w, ok)

(* reload_backdrop: a program is run, and what was shown stays until it    *)
(* says what to show.                                                       *)
ReloadBackdrop(w, ok, spawned) ==
    CASE w.pb.set.style = "program" /\ spawned ->
             [w EXCEPT !.runs = Append(@, Started(w.pb.set.path)), !.pb.talks = Len(w.runs) + 1]
      [] w.pb.set.style = "program" /\ ~spawned -> w
      [] w.pb.set = PlainBackdrop -> [w EXCEPT !.pb.drawn = PlainBackdrop]
      [] OTHER -> LoadImage(w, w.pb.set, ok)

(* pinboard_activate: the pinboard is loaded from its file, and the one    *)
(* that was in use is cleared first.                                        *)
ActivateBoard(w, ok, spawned) ==
    ReloadBackdrop([AbandonApp(w) EXCEPT !.pb.on = TRUE, !.pb.set = w.pb.file, !.pb.drawn = PlainBackdrop], ok, spawned)

(* pinboard_set_backdrop: without a pinboard the default one is loaded. *)
SetBackdrop(w, to, ok, spawned) ==
    \E w1 \in {IF w.pb.on THEN w ELSE ActivateBoard(w, ok, spawned)} :
    \E w2 \in {ReloadBackdrop([AbandonApp(w1) EXCEPT !.pb.set = to], ok, spawned)} :
    \E w3 \in {ShowInBox(SaveBoard(w2, ok))} :
        pb' = w3.pb /\ runs' = w3.runs

WorldIs(w) == pb' = w.pb /\ runs' = w.runs
MayRun == Len(runs) + 2 <= MaxPrograms
Setting == settings < MaxSettings /\ settings' = settings + 1

--------------------
(* The pinboard is turned on, or loaded again: rpc_Pinboard, and the idle  *)
(* callback recreate_pinboard after a change of the options.                *)
TurnBoardOn == Setting /\ MayRun /\ \E ok, spawned \in BOOLEAN : WorldIs(ActivateBoard(World, ok, spawned))

(* pinboard_clear.  The box stays open. *)
TurnBoardOff ==
    /\ pb.on /\ Setting
    /\ WorldIs([AbandonApp(World) EXCEPT !.pb.on = FALSE, !.pb.drawn = PlainBackdrop, !.pb.set = PlainBackdrop])

(* pinboard_check_options: a colour has changed. *)
ColourChanged ==
    /\ pb.on /\ Setting /\ MayRun
    /\ \E ok, spawned \in BOOLEAN : WorldIs(ReloadBackdrop(AbandonApp(World), ok, spawned))

(* rpc_SetBackdrop; pinboard_set_backdrop_app, which refuses what is not an*)
(* application for it.                                                      *)
SetFromOutside(to) ==
    Setting /\ MayRun /\ \E ok, spawned \in BOOLEAN : SetBackdrop(World, to, ok, spawned)

--------------------
(* pinboard_set_backdrop_box *)
OpenBackdropBox ==
    /\ pb.on /\ WorldIs(ShowInBox([World EXCEPT !.pb.box.open = TRUE]))
    /\ UNCHANGED settings

CloseBackdropBox == pb.box.open /\ pb' = [pb EXCEPT !.box = NoBackdropBox] /\ UNCHANGED <<runs, settings>>

(* drag_backdrop_dropped: what exists, an image or an application. *)
DropImage(p) == pb.box.open /\ p \in pb.images /\ SetFromOutside(BackImage(p, pb.box.style))
DropApp(app) == pb.box.open /\ SetFromOutside(RunsApp(app))
ClearBackdrop ==
    /\ pb.box.open /\ pb.box.path # "none" /\ pb.on /\ Setting
    /\ \E ok \in BOOLEAN : WorldIs(NoBackdrop(World, ok))

(* radios_changed: the buttons are grey while a program or nothing is set. *)
ChooseStyle(style) ==
    /\ pb.box.open /\ pb.on /\ style # pb.box.style
    /\ pb.set.style \in FitStyle
    /\ SetFromOutside(BackImage(pb.box.path, style))

--------------------
(* The program writes a line, which may be nonsense or name what is not an *)
(* image; or it exits.  What a program does that the filer has abandoned    *)
(* concerns nobody.                                                         *)
WriteLine(line) ==
    /\ pb.talks # 0 /\ runs[pb.talks].alive /\ runs[pb.talks].written < MaxLines
    /\ runs' = [runs EXCEPT ![pb.talks].lines = Append(@, line), ![pb.talks].written = @ + 1]
    /\ UNCHANGED <<pb, settings>>

ProgramExits ==
    /\ pb.talks # 0 /\ runs[pb.talks].alive
    /\ runs' = [runs EXCEPT ![pb.talks].alive = FALSE]
    /\ UNCHANGED <<pb, settings>>

(* command_from_backdrop_app: a line is obeyed and answered, unless it was *)
(* wrong or the image was; the program may be gone when it is answered.     *)
Obey(w, line, ok) ==
    LET i == w.pb.talks
        seen == LoadImage(w, line, ok)
        counted == [seen EXCEPT !.runs[i].loaded = @ + 1]
    IN  CASE i = 0 -> w
          [] i # 0 /\ line.style \notin FitStyle -> AbandonApp(w)
          [] i # 0 /\ line.style \in FitStyle /\ seen.pb.talks = 0 -> seen
          [] i # 0 /\ line.style \in FitStyle /\ seen.pb.talks # 0 /\ ~w.runs[i].alive -> AbandonApp(counted)
          [] OTHER -> [counted EXCEPT !.runs[i].oks = @ + 1]

(* What is left of the state when these lines have been obeyed. *)
AfterLines(w, lines, ok) ==
    LET after[k \in 0..Len(lines)] == IF k = 0 THEN w ELSE Obey(after[k - 1], lines[k], ok)
    IN  after[Len(lines)]

(* backdrop_from_child: one read, and all the lines that are complete then.*)
ReadLines ==
    LET i == pb.talks IN
    /\ i # 0 /\ runs[i].lines # <<>>
    /\ \E n \in 1..Len(runs[i].lines), ok \in BOOLEAN :
       \E w \in {[World EXCEPT !.runs[i].lines = SubSeq(@, n + 1, Len(@))]} :
          WorldIs(AfterLines(w, SubSeq(runs[i].lines, 1, n), ok))
    /\ UNCHANGED settings

ReadEnd ==
    LET i == pb.talks IN
    /\ i # 0 /\ runs[i].lines = <<>> /\ ~runs[i].alive
    /\ WorldIs(AbandonApp(World)) /\ UNCHANGED settings

(* Outside: an image is deleted. *)
WallpaperDeleted(p) ==
    /\ p \in pb.images /\ Setting
    /\ pb' = [pb EXCEPT !.images = @ \ {p}]
    /\ UNCHANGED runs

Line == {BackImage(p, style) : p \in Wallpaper, style \in FitStyle} \cup {BackImage("junk", "none")}

BackdropInit ==
    /\ \E f \in {PlainBackdrop, BackImage(CHOOSE p \in Wallpaper : TRUE, "tile")} \cup {RunsApp(a) : a \in BackdropApp} :
          pb = [on |-> FALSE, set |-> PlainBackdrop, talks |-> 0, drawn |-> PlainBackdrop, file |-> f, unsaved |-> FALSE,
                images |-> Wallpaper, box |-> NoBackdropBox]
    /\ runs = <<>>
    /\ settings = 0

BackdropNext ==
    \/ TurnBoardOn \/ TurnBoardOff \/ ColourChanged
    \/ \E p \in Wallpaper, style \in FitStyle : SetFromOutside(BackImage(p, style))
    \/ \E a \in BackdropApp : SetFromOutside(RunsApp(a)) \/ DropApp(a)
    \/ OpenBackdropBox \/ CloseBackdropBox \/ ClearBackdrop
    \/ \E p \in Wallpaper : DropImage(p) \/ WallpaperDeleted(p)
    \/ \E style \in FitStyle : ChooseStyle(style)
    \/ ProgramExits \/ \E line \in Line : WriteLine(line)
    \/ ReadLines \/ ReadEnd

BackdropSpec == BackdropInit /\ [][BackdropNext]_backdropVars

--------------------
(* The filer listens to a program only while that one is the backdrop, and *)
(* it is the one that was started last.                                     *)
ListensToTheRightOne ==
    pb.talks # 0 => pb.on /\ pb.set = RunsApp(runs[pb.talks].app) /\ pb.talks = Len(runs)

(* "it should read the line ok before deleting the image": a program is    *)
(* told so once for each image of its that was loaded, and not before; only*)
(* one that has exited misses the last.                                     *)
OkMeansLoaded ==
    \A i \in DOMAIN runs : runs[i].oks <= runs[i].loaded /\ (runs[i].alive => runs[i].oks = runs[i].loaded)

(* What is shown, what is in the file and what the box says is what is set,*)
(* through images that cannot be loaded and programs that name them: the   *)
(* backdrop that has been removed is not tried again at the next start.     *)
OneBackdrop ==
    /\ pb.on /\ pb.set.style # "program" => pb.drawn = pb.set
    /\ pb.on /\ ~pb.unsaved => pb.file = pb.set
    /\ pb.on /\ pb.box.open /\ ~pb.unsaved => pb.box.path = pb.set.path
    /\ pb.on /\ pb.box.open /\ ~pb.unsaved /\ pb.set.style \in FitStyle => pb.box.style = pb.set.style

(* All of it. *)
BackdropRight == ListensToTheRightOne /\ OkMeansLoaded /\ OneBackdrop
=============================================================================

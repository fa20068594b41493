----------------------------- MODULE UserIcons -----------------------------
(* The icons that the user sets (usericons.c): the rules for single files, *)
(* in memory and in the file globicons, which other programs may write     *)
(* too; the image inside a directory; the images for types; and which of   *)
(* these an item shows once it is looked at (diritem.c, type.c).            *)
(* Each thing is the only one of its type.  Images are what they show; the *)
(* cache of images, which another module has, is left out.                  *)
EXTENDS Naturals

CONSTANTS IconItem,      \* the files in a window
          IconFolder,    \* those of them that are directories
          Picture,       \* image files
          MaxAsked       \* bound: requests, restarts, and what happens outside the filer

VARIABLES
    rules,      \* glob_icons, the file globicons, and what they should hold
    images,     \* the pictures there are; .DirIcon in a folder; the images of types in the
                \* user's directory, and those that the system has; AppRun and AppIcon.xpm in
                \* a folder; and whether a folder is writable for all, so that it is not trusted
    typeImage,  \* type->image, and whether it is younger than two seconds
    drawn,      \* what an item shows
    stale,      \* the items that show what is out of date, and nothing has told the filer
    recheck,    \* the items that a scan still has to look at
    setBox,     \* the Set Icon box
    asked       \* how many of these there were

pictureVars == <<rules, images, typeImage, drawn, stale, recheck, setBox, asked>>

NoPicture == "none"
FirstPicture == CHOOSE p \in Picture : TRUE
NoRules == [i \in IconItem |-> NoPicture]
NoSetBox == [open |-> FALSE, of |-> CHOOSE i \in IconItem : TRUE, set |-> "path", path |-> NoPicture,
             asks |-> FALSE]

(* examine_dir and check_globicon: the image of an item's own, for rules t *)
(* and what is on the disk.                                                 *)
Own(i, t, d) ==
    CASE t[i] \in d.pics -> t[i]
      [] t[i] \notin d.pics /\ i \in IconFolder /\ d.trusted /\ d.dir[i] \in Picture -> d.dir[i]
      [] t[i] \notin d.pics /\ i \in IconFolder /\ d.trusted /\ d.dir[i] \notin Picture /\ d.app # "no" -> d.app
      [] OTHER -> NoPicture

(* Where type_to_icon and the box look for the image of a type. *)
TypeIconPath(i, d) ==
    CASE d.type[i] # NoPicture -> "user"
      [] d.type[i] = NoPicture /\ i \in d.system -> "system"
      [] OTHER -> NoPicture

(* type_to_icon: a file of the user's that cannot be loaded hides that of  *)
(* the system, and the theme is used.                                       *)
TypeOnDisk(i, d) ==
    CASE d.type[i] \in Picture -> d.type[i]
      [] TypeIconPath(i, d) = "system" -> "system"
      [] OTHER -> "theme"

Best(i) == IF Own(i, rules.table, images) = NoPicture THEN TypeOnDisk(i, images) ELSE Own(i, rules.table, images)

--------------------
(* diritem_restat and di_image, for each of the things; others become      *)
(* stale.  The image of a type is not looked for again within two seconds. *)
Look(things, t, others) ==
    \E own \in {[i \in IconItem |-> Own(i, t, images')]} :
        /\ typeImage' = [i \in IconItem |->
              IF i \in things /\ own[i] = NoPicture /\ ~typeImage[i].fresh
              THEN [img |-> TypeOnDisk(i, images'), fresh |-> TRUE] ELSE typeImage[i]]
        /\ drawn' = [i \in IconItem |->
              CASE i \notin things -> drawn[i]
                [] i \in things /\ own[i] = NoPicture -> typeImage'[i].img
                [] OTHER -> own[i]]
        /\ stale' = (stale \ things) \cup others \cup
                    {i \in things : own[i] = NoPicture /\ typeImage'[i].img # TypeOnDisk(i, images')}

(* Mutant: the rule that was set last is all that is written. *)
SaveNewest(r, ok, newer) ==
    IF ok
    THEN [r EXCEPT !.list = [i \in IconItem |-> IF r.table[i] = r.list[i] THEN NoPicture ELSE r.table[i]],
                   !.there = TRUE, !.newer = newer, !.unsaved = FALSE, !.foreign = FALSE]
    ELSE [r EXCEPT !.unsaved = TRUE]

(* write_globicons: the whole table replaces the file, or the file stays. *)
Save(r, ok, newer) ==
    IF ok
    THEN [r EXCEPT !.list = r.table, !.there = TRUE, !.newer = newer, !.unsaved = FALSE, !.foreign = FALSE]
    ELSE [r EXCEPT !.unsaved = TRUE]

(* read_globicons: only a file that was written after it was last read.    *)
(* What it says is what is wanted only if another program wrote it, or if  *)
(* the rules in memory could not be saved.                                  *)
Read(r) ==
    IF ~r.there \/ ~r.newer THEN r
    ELSE [r EXCEPT !.table = r.list, !.newer = FALSE, !.foreign = FALSE, !.unsaved = FALSE,
                   !.wanted = IF r.foreign \/ r.unsaved THEN r.list ELSE @]

(* examine: the item is looked at, and if it is a folder that a window     *)
(* shows then that is scanned too, which reads the rules again.             *)
Examine(i, r) ==
    \E viewed \in BOOLEAN :
        /\ viewed => i \in IconFolder
        /\ rules' = IF viewed THEN Read(r) ELSE r
        /\ Look({i}, r.table, {j \in IconItem : rules'.table[j] # r.table[j]})

SavedRules(r) == {Save(r, ok, newer) : ok \in BOOLEAN, newer \in {r.newer, TRUE}}

(* add_globicon *)
AddGlobicon(i, p) ==
    \E r \in SavedRules([rules EXCEPT !.table[i] = p, !.wanted[i] = p]) : Examine(i, r)

(* delete_globicon *)
DeleteGlobicon(i) ==
    IF rules.table[i] = NoPicture THEN UNCHANGED <<rules, typeImage, drawn, stale>>
    ELSE \E r \in SavedRules([rules EXCEPT !.table[i] = NoPicture, !.wanted[i] = NoPicture]) : Examine(i, r)

(* full_refresh: the window is scanned, unless it is being scanned; then   *)
(* what has changed of an item that was looked at before goes unnoticed.    *)
FullRefresh(i, things) ==
    IF recheck = {}
    THEN rules' = Read(rules) /\ recheck' = IconItem /\ Look(things, rules.table, {})
    ELSE UNCHANGED <<rules, recheck>> /\ Look(things, rules.table, {i} \ (recheck \cup things))

Ask == asked < MaxAsked /\ asked' = asked + 1

--------------------
(* The scan of the window, in time or on request. *)
Rescan ==
    /\ recheck = {}
    /\ rules' = Read(rules) /\ recheck' = IconItem
    /\ UNCHANGED <<images, typeImage, drawn, stale, setBox, asked>>

CheckThing(i) ==
    /\ i \in recheck
    /\ UNCHANGED <<images, rules, setBox, asked>>
    /\ recheck' = recheck \ {i} /\ Look({i}, rules.table, {})

TwoSeconds ==
    /\ \E i \in IconItem : typeImage[i].fresh
    /\ typeImage' = [i \in IconItem |-> [typeImage[i] EXCEPT !.fresh = FALSE]]
    /\ UNCHANGED <<images, rules, drawn, stale, recheck, setBox, asked>>

(* diritem_init: a new filer has read the rules and looked at everything. *)
RestartIcons ==
    /\ Ask
    /\ rules' = Read([rules EXCEPT !.newer = rules.there, !.table = IF rules.there THEN @ ELSE NoRules,
                                   !.wanted = IF rules.there THEN @ ELSE NoRules])
    /\ setBox' = NoSetBox /\ recheck' = IconItem
    /\ UNCHANGED <<images, typeImage, drawn, stale>>

(* rpc_SetIcon takes any picture, there or not; rpc_UnsetIcon. *)
RpcSetIcon(i, p) == Ask /\ UNCHANGED <<images, recheck, setBox>> /\ AddGlobicon(i, p)
RpcUnsetIcon(i) == Ask /\ UNCHANGED <<images, recheck, setBox>> /\ DeleteGlobicon(i)

--------------------
(* radios_changed: the path that the box shows for a choice. *)
PathShown(i, set, t, d) ==
    CASE set = "path" -> t[i]
      [] set = "copy" -> IF d.dir[i] = NoPicture THEN NoPicture ELSE "dirIcon"
      [] OTHER -> TypeIconPath(i, d)

IdleBox == setBox.open /\ ~setBox.asks
ChoiceMade(b) == [b EXCEPT !.path = PathShown(b.of, b.set, rules.table, images)]

(* icon_set_handler_dialog: in a directory that is writable the image goes *)
(* inside.                                                                  *)
OpenSetIcon(i, set) ==
    /\ ~setBox.open /\ (set = "copy" => i \in IconFolder)
    /\ setBox' = ChoiceMade([NoSetBox EXCEPT !.open = TRUE, !.of = i, !.set = set])
    /\ UNCHANGED <<images, rules, typeImage, drawn, stale, recheck, asked>>

ChooseSet(set) ==
    /\ IdleBox /\ set # setBox.set /\ (set = "copy" => setBox.of \in IconFolder)
    /\ setBox' = ChoiceMade([setBox EXCEPT !.set = set])
    /\ UNCHANGED <<images, rules, typeImage, drawn, stale, recheck, asked>>

(* do_set_icon for a single file: set_icon_path.  When that has worked the *)
(* box closes once there is nothing else to do, which may be after another *)
(* drop.                                                                    *)
DropForPath(p) ==
    /\ IdleBox /\ setBox.set = "path" /\ p \in images.pics /\ Ask
    /\ UNCHANGED <<images, recheck, setBox>>
    /\ AddGlobicon(setBox.of, p)

(* create_diricon and convert_to_png: what can fail at the start, or when  *)
(* the old image is gone already.                                           *)
DropForCopy(p) ==
    LET i == setBox.of IN
    /\ IdleBox /\ setBox.set = "copy" /\ p \in images.pics /\ Ask
    /\ UNCHANGED <<rules, recheck, setBox>>
    /\ \E c \in {p, "broken", images.dir[i]} :
          /\ images' = [images EXCEPT !.dir[i] = c]
          /\ IF c = p THEN Look({i}, rules.table, {})
             ELSE Look({}, rules.table, IF c = "broken" THEN {i} ELSE {})

(* set_icon_for_type *)
DropForType(p) ==
    LET i == setBox.of IN
    /\ IdleBox /\ setBox.set = "type" /\ p \in images.pics /\ Ask
    /\ UNCHANGED setBox
    /\ \E c \in {p, "broken", images.type[i]} :
          /\ images' = [images EXCEPT !.type[i] = c]
          /\ IF c = p THEN FullRefresh(i, {})
             ELSE UNCHANGED <<rules, recheck>> /\ Look({}, rules.table, IF c = "broken" THEN {i} ELSE {})

(* clear_icon for a single file.  The box shows what is set after that. *)
ClearPath ==
    /\ IdleBox /\ setBox.set = "path" /\ setBox.path # NoPicture /\ Ask
    /\ UNCHANGED images
    /\ \E r \in IF rules.table[setBox.of] = NoPicture THEN {rules}
                ELSE SavedRules([rules EXCEPT !.table[setBox.of] = NoPicture, !.wanted[setBox.of] = NoPicture]) :
          /\ Look({setBox.of}, r.table, {})
          /\ rules' = IF recheck = {} THEN Read(r) ELSE r
          /\ recheck' = IF recheck = {} THEN IconItem ELSE recheck
          /\ setBox' = [setBox EXCEPT !.path = rules'.table[setBox.of]]

(* Otherwise it asks first, and meanwhile everything else goes on. *)
AskToClear ==
    /\ IdleBox /\ setBox.set # "path" /\ setBox.path # NoPicture /\ Ask
    /\ setBox' = [setBox EXCEPT !.asks = TRUE]
    /\ UNCHANGED <<images, rules, typeImage, drawn, stale, recheck>>

(* What is removed is the path that the box shows, if it still is there    *)
(* and may be; a file of the system stays.                                  *)
Removed(path, i) ==
    CASE path = "dirIcon" -> {images, [images EXCEPT !.dir[i] = NoPicture]}
      [] path = "user"    -> {images, [images EXCEPT !.type[i] = NoPicture]}
      [] OTHER            -> {images}

ConfirmClear(yes) ==
    LET i == setBox.of IN
    /\ setBox.asks
    /\ UNCHANGED asked
    /\ \E now \in IF yes THEN Removed(setBox.path, i) ELSE {images} :
          /\ images' = now
          /\ FullRefresh(i, IF now # images THEN {i} ELSE {})
          /\ setBox' = [setBox EXCEPT !.asks = FALSE, !.path = PathShown(i, setBox.set, rules'.table, now)]

(* dialog_response, and destroy_on_idle. *)
CloseSetIcon ==
    /\ IdleBox /\ setBox' = NoSetBox
    /\ UNCHANGED <<images, rules, typeImage, drawn, stale, recheck, asked>>

--------------------
(* Outside: a picture is deleted, an image in a folder comes or goes, and  *)
(* another program writes the rules, maybe in the second of the last read. *)
PictureDeleted(p) ==
    /\ p \in images.pics /\ Ask
    /\ images' = [images EXCEPT !.pics = @ \ {p}]
    /\ stale' = stale \cup {i \in IconItem : rules.table[i] = p}
    /\ UNCHANGED <<rules, typeImage, drawn, recheck, setBox>>

DirIconChanged(i, c) ==
    /\ i \in IconFolder /\ images.dir[i] # c /\ Ask
    /\ images' = [images EXCEPT !.dir[i] = c]
    /\ stale' = stale \cup {i}
    /\ UNCHANGED <<rules, typeImage, drawn, recheck, setBox>>

RulesWritten(i, p) ==
    /\ rules.list[i] # p /\ Ask
    /\ \E newer \in {rules.newer, TRUE} :
          rules' = [rules EXCEPT !.list[i] = p, !.there = TRUE, !.newer = newer, !.foreign = TRUE]
    /\ UNCHANGED <<images, typeImage, drawn, stale, recheck, setBox>>

RulesDeleted ==
    /\ rules.there /\ Ask
    /\ rules' = [rules EXCEPT !.list = NoRules, !.there = FALSE, !.foreign = TRUE]
    /\ UNCHANGED <<images, typeImage, drawn, stale, recheck, setBox>>

(* There may be no file, or one without rules, or one with a rule for the  *)
(* folder; either the folder is trusted, or it is an application that is   *)
(* not.                                                                     *)
FirstRules == [table |-> NoRules, list |-> NoRules, there |-> FALSE, newer |-> FALSE, unsaved |-> FALSE,
               foreign |-> FALSE, wanted |-> NoRules]

UserIconsInit ==
    /\ \E list \in {NoRules, [i \in IconItem |-> IF i \in IconFolder THEN FirstPicture ELSE NoPicture]} :
          rules \in {FirstRules, [FirstRules EXCEPT !.table = list, !.list = list, !.wanted = list, !.there = TRUE]}
    /\ \E app \in {"no", "appIcon"}, trusted \in BOOLEAN :
          /\ trusted = (app = "no")
          /\ images = [pics |-> Picture, dir |-> NoRules, type |-> NoRules, app |-> app, trusted |-> trusted,
                     system |-> IconItem]
    /\ typeImage = [i \in IconItem |-> [img |-> TypeOnDisk(i, images), fresh |-> FALSE]]
    /\ drawn = [i \in IconItem |-> Best(i)]
    /\ stale = {} /\ recheck = {}
    /\ setBox = NoSetBox
    /\ asked = 0

UserIconsNext ==
    \/ Rescan \/ TwoSeconds \/ RestartIcons
    \/ \E i \in IconItem : CheckThing(i) \/ RpcUnsetIcon(i)
    \/ \E i \in IconItem, p \in Picture : RpcSetIcon(i, p)
    \/ \E i \in IconItem, set \in {"path", "copy"} : OpenSetIcon(i, set)
    \/ \E set \in {"path", "copy", "type"} : ChooseSet(set)
    \/ \E p \in Picture : DropForPath(p) \/ DropForCopy(p) \/ DropForType(p)
    \/ ClearPath \/ AskToClear \/ CloseSetIcon
    \/ \E yes \in BOOLEAN : ConfirmClear(yes)
    \/ \E p \in Picture : PictureDeleted(p)
    \/ \E i \in IconItem, c \in Picture \cup {NoPicture} : DirIconChanged(i, c)
    \/ \E i \in IconItem, p \in Picture \cup {NoPicture} : RulesWritten(i, p)
    \/ RulesDeleted

UserIconsSpec == UserIconsInit /\ [][UserIconsNext]_pictureVars

--------------------
(* A rule that the user has set, or has cleared, stays so in memory, and   *)
(* the file has it too so that it survives a restart, until another        *)
(* program's file is read; only a save that failed may lose it.             *)
RulesKept ==
    /\ ~rules.unsaved => rules.table = rules.wanted
    /\ ~rules.unsaved /\ ~rules.foreign => rules.list = rules.table

(* An item that no scan still has to look at, and that nobody has changed  *)
(* behind the filer's back, shows the first of: its rule, the image inside *)
(* it, that of the application, that of its type.                           *)
BestIsShown == \A i \in IconItem \ (stale \cup recheck) : drawn[i] = Best(i)

(* Both: the icons that the user sets are kept, and they are drawn. *)
IconsRight == RulesKept /\ BestIsShown
=============================================================================

# ROX-Filer in TLA+

TLA+ modules, TLC configurations and TLAPS proofs for ROX-Filer, a GTK file
manager written in C. All paths below are relative to `ROX-Filer/src/` in the
repository; "Manual" is `ROX-Filer/Help/Manual.html`.

    tlasany M.tla                         parse a module
    tlc -workers 2 -config X.cfg MCM.tla  check a run
    tlapm DirectoryProofs.tla             check the proofs of a module

## 1. The program

ROX-Filer is one process with one thread, the GTK main loop, and it forks
children: one for each action (copy, delete, mount, find, ...), one for each
thumbnail, du and file(1) for an Info box, a program that draws the backdrop,
and the programs it launches. Everything inside the process is a handler of
the main loop that runs to its end, so the unit of interleaving is the handler.
A handler that shows a modal dialog runs a main loop inside, so other handlers
run in the middle of it. What interleaves with the handlers is the file system,
changed by anybody at any time, the user, the timers and idle callbacks, the
X server and its other clients, the children, and signals.

### 1.1 Components

| component | state | hard because | correct if |
|---|---|---|---|
| Directory (`dir.c`), one per directory for all windows | known items, three lists of items not announced, the recheck list, users, flags, a monitor, four main loop sources | windows attach and leave in mid-scan; changes during a scan; single reports mixed with scans; the directory goes | a scan runs exactly while it has work and a user; windows show what is on the disk once the loop is idle; no list has a freed item |
| filer windows (`filer.c`) | directory, filters, items displayed, thumb queue, display settings, mount point | closed, led elsewhere and reused while callbacks are on the way | they show what the filters let through, as recorded for the directory |
| fscache (`fscache.c`) | entries by device and inode, compared by size, mode and seconds | reused inodes; NULL entries for "being made"; purges | nothing older than the file; one object per file |
| actions (`action.c`, `abox.c`) | window, question, boxes, entry, child and two pipes | answers, toggles, texts and the unmount handshake share a pipe; the child may die anywhere | nothing is done that was not agreed to; what is done is reported; windows close before an unmount |
| thumbnails (`pixmaps.c`) | cache, queues, children | chains of children driven by callbacks | each image is made once, for all windows; chains end |
| child deaths (`main.c`) | table of callbacks, a flag, a pipe | signals merge and come at any moment | each callback is called once, after its child died |
| Collection, list view (`collection.c`, `view_details.c`) | items with selection, cursor, wink by position | positions shift under every sort and deletion | marks stay with their items; PRIMARY agrees |
| minibuffer (`minibuffer.c`) | mode, text, base of a search, history | the view changes between two keys | red, cursor and selection follow the text |
| mounts (`mount.c`, `filer.c`) | what is mounted and by whom, offers, answers | offers are answered later, others mount too | offers come for the last window only; answers are kept |
| icons, pinboard, panel | icons, tables, selection, boards and files; backdrop; positions | boards are taken down under everything; a program sets the backdrop | tables and files agree with the icons; the backdrop is the one set |
| user icons (`usericons.c`) | rules and file, `.DirIcon`, type icons | written from memory, read back by whole seconds | what the user set is kept and drawn |
| types and run (`type.c`, `run.c`) | run actions in Choices, defaults | looked up through types and directories; changed by others | the program set is the one that runs |
| options, choices | values, box, file | saving fails, the filer dies | the next start has the last save |
| bookmarks, display settings | file, cached document, editor or boxes | each is as old as its last look | what the user asked for is what is used |
| task list, remote (`tasklist.c`, `remote.c`) | windows and properties of the X server | windows die between two reads; filers start together | icons agree with the windows; one filer |
| drag and drop, buttons (`dnd.c`, `gtksavebox.c`) | count and grab; save property | menus, drags and grabs of others | the system resets; a save that is reported is saved |
| find (`find.c`), bulk rename, infobox | a parser; a table; children of a box | see section 1.3 | as their rows in section 2 say |

Menus of applications, `modechange.c` (GNU code), xdgmime (vendored) and the
helpers in `support.c`, `gui_support.c`, `xml.c`, `i18n.c`, `log.c` have little
or no state of their own. PROJECT.json lists every part with what is left out.

### 1.2 How the components interact

    file system --monitor event--> Directory --DIR_*--> windows --attach/detach--> Directory
    fscache (dir_cache) --load, update--> Directory
    action child --'s' path--> filer: dir_check_this --> Directory
    action child --'X' path--> filer: filer_close_recursive --> windows; 'X' --> child
    action child --'M','m' path--> filer: filer_check_mounted --> fscache, windows
    any child --SIGCHLD, pipe--> on_child_death callbacks
    thumbnail child --exit--> callback --> pixmap_cache, dir_force_update_path --> Directory
    backdrop program --lines--> pinboard --"ok"--> program
    second filer process --root window property--> running filer: SOAP calls --> windows, boards, options
    usericons, type icons --full_refresh--> windows, icons

### 1.3 What is hard to test

PROJECT.json lists the hazards, each at its line, with the properties that
catch it. Where a property does not hold of the code, a run shows it
(section 5), or section 6 names it.

## 2. Modules

`Directory` and `Action` have instances of their own (`MCDirectory`,
`MCAction`). The other modules model parts that share no state with each
other. To check them without multiplying them, `MCParts` and `MCChildren` take
a disjunction: `part` says which one a behaviour is about, the others stay
as they were at the start, and the VIEW `OwnState` drops what cannot change.

| module | models | state | property |
|---|---|---|---|
| `Directory` | `dir.c`, the windows that use it, its entry in `dir_cache`, the disk | `disk`, `dirstat`, `dirty`, `event`; the record `dir` | section 3 |
| `Action` | `action.c`, `abox.c`: delete, copy, move, link, mount, unmount, eject | `gui`, `child`, `toChild`, `toParent`, the history `done` | section 3 |
| `EntryAction` | find, permissions, set type, disk usage | `ewin`, `echild`, `eDown`, `eUp` | `EntryRight` |
| `Thumbs` | thumb queue (`filer.c`), `pixmaps.c`, the pixmap cache | windows, cache, children, `~/.thumbnails`, references | `ThumbsRight`, `ChainsEnd` |
| `DeathNotice` | what on_child_death promises | `watched`, `over` | refined by the next |
| `ChildDeath` | SIGCHLD, flag, pipe and waitpid loop (`main.c`) | processes, signal, flag, pipe, `pc` | `NoLostWakeUp`, `NoticeSpec` |
| `Backdrop` | the backdrop, its box, file and program (`pinboard.c`) | `pb`, `runs` | `BackdropRight` |
| `UserIcons` | `usericons.c`, type icons, look-up in `diritem.c` | `rules`, `images`, `typeImage`, `drawn`, `recheck`, `setBox` | `IconsRight` |
| `Placement` | where things are put on the pinboard | `put`, `centre`, `placed` | `PlacedApart` |
| `Collection` | `collection.c`, `view_collection.c`, PRIMARY | `coll` | `CollectionKept` |
| `Details` | `view_details.c` as its tree view's model | `list`, `gtk` | `RowsFollow` |
| `Tasklist` | `tasklist.c` and the X server | `server`, `task` | `TaskIconsRight` |
| `Remote` | start, requests, end of the filer (`remote.c`) | `grab`, `root`, `client`, `filer` | `OneFiler`, `AnswerMeansDone` |
| `Icons` | `icon.c` with the boards | `icon`, `global`, `board` | `BoardsRight` |
| `Pointer` | buttons and spring-loading (`dnd.c`, `bind.c`) | `mouse`, `spring` | `ReleasedMeansReady` |
| `DirectSave` | save boxes and drops (`gtksavebox.c`, `dnd.c`) | `box`, `drag` | `SavedIsSaved` |
| `BulkRename` | `bulk_rename.c` | rows, stage, what is at each path | `NothingReplaced` |
| `Options` | `options.c`, `choices.c` | files, values, box, dialogs | `OptionsKept` |
| `Minibuffer` | `minibuffer.c` with the view | `mini`, `pane`, `history` | `MiniFollows` |
| `Infobox` | `infobox.c` | boxes, their du and file, `held` | `InfoRight` |
| `Mounts` | offers to unmount (`filer.c`, `mount.c`) | mounts, windows, offers, jobs, answers | `MountsRight` |
| `Bookmarks` | `bookmarks.c` | file, document, editor; the history list | `BookmarksRight` |
| `Find` | `find.c` | the text and how far it is parsed | `FindRight` |
| `Settings` | display settings (`filer.c`, `display.c`) | windows, table, `Settings.xml`, boxes | `SettingsUsed` |
| `RunAction` | `run.c`, the run actions of `type.c`, filer_openitem | the files in Choices, the box; an item and its pipe | `RunRight` |
| `*Proofs` | theorems about `Directory` (`DirectoryProofs`, `DisplayProofs`), `Action`, `Thumbs`, `ChildDeath`, `Remote`, `Pointer`, `EntryAction` with `Action`, and in `PartsProofs` `BulkRename`, `Settings`, `DirectSave`, `Options`, `UserIcons`, `Backdrop`, `Minibuffer`; `Infobox` and `Icons` are with `ChildDeath`, `Bookmarks` with `Thumbs`, `Tasklist`, `Placement` and `Collection` with `Remote`, `Mounts`, `Details` and `RunAction` with `Pointer` | | section 4 |

Everywhere an action is a whole handler, whatever it calls included, and a C
function that is called in several places is an operator of its name from
state to state. A record holds the state where many small functions change it.

### 2.1 Directory

Each C function is an operator from the record `dir` to the record `dir`,
composed in the order in which the C code calls them: `Rescan` is
`dir_rescan`, made of `SetScanning`, `MergeNew`, `RemoveMissing`,
`QueueInteresting`, `SetIdleCallback`, each with the name of its function. Each
handler of the main loop is one action.

* `disk` maps a name to the details of its file (an abstract value for size,
  times, mode, type, ...) or `Absent`. `dirstat` says whether stat and opendir
  of the directory succeed. `dirty` says that the directory's stat is no
  longer the one the fscache recorded. `event` says that the monitor has queued
  an event.
* A `DirItem` is a pair of a name and a number, so that two objects with one
  name, one of them freed, can be told apart. `details` holds the fields of
  each; `Blank` is TYPE_UNKNOWN, `Absent` a freed object.
* `view[w][i]` is what window `w` has drawn of item `i`: `Absent` if it does
  not display it. `only[w]` and `showHidden[w]` are its filters.
* The recheck list is a set; `next` in the actions chooses the head, so every
  order the windows may have queued the names in is covered.
* `missed` is a history variable, not in the code: a change happened that no
  monitor event, stat or rescan will tell the filer of. Properties that say
  "the display is right" are about states without it; the run `dir_unnoticed`
  is about the rest.

The file system acts between any two handlers: create, delete, replace, write
in place (which leaves the directory's stat alone), rename the directory away
and back, take away and give back its permission.

Not in the module: the dummy directory of a window opened on a missing path;
a changed inode under an open window; the glob filter; a window that stays
attached to an old Directory object. `fscache` times are exact here (`dirty`).

### 2.2 Action and EntryAction

`Infos` are the facts the child may find by lstat and access about a path;
`Verdict` is what do_delete, do_copy2, do_move2, do_link and do_mount make of
them and of the boxes. The child's `pc` is the place in these functions where it
can be interrupted; `todo` is its stack of unfinished work.

| C | TLA+ |
|---|---|
| start_action, setpgid | `Init`, `NewGroup` |
| check_flags, lstat, the decision to ask | `Consider` |
| printf_reply | `ReadReply` (one byte) |
| for_dir_contents | `EnterDirectory`, `EndDirectory` |
| unlink, copy_file, symlink, mv, mkdir, sh -c mount | `Works`, `Fails`, `FailsMounted` |
| send_check_path, send_mount_path, "M" | `Tell` |
| the X handshake | `AskToClose`, `Handshake` |
| response, flag_toggled, abort_operation | `Answer`, `QuietButton`, `Toggle`, `Cancel` |
| message_from_child | `Receive`, `EndOfFile` |

`done` is history: what was clicked, excused by the boxes, agreed to, done,
reported, closed. `child.confused` is history too: the child has read another
byte than X in the handshake (see `action_handshake`).

In `EntryAction` the pipe to the child also carries the text of the entry
(`EntryChanged`, read_new_entry_text), compiled when the child next needs it
(`Compile`). `EntryRight`: what is done to a file is what the entry said when
the user said Yes for that file, or when the child came to it if it did not
ask; and boxes and questions agree. Texts have no line breaks (section 6).

Not in the modules: progress, previews, is_sub_dir; a message cut in two;
closing the window by other means than Cancel (GTK routes them all there).

### 2.3 Children: Thumbs, ChildDeath, DeathNotice, Backdrop

`Thumbs` has two windows' queues, each worked off by a chain of idle callback,
child and callback; `refs` counts the references a chain holds on its window.
`ThumbsRight`: a bar means a chain is on, every chain holds one reference, an
image is made by one child at a time, and what one window has loaded all show.
`ChainsEnd`: a chain ends whatever becomes of window, child and file.

`DeathNotice` is the abstract promise: a function that is registered for a
child is called, once, after the child died. `ChildDeath` implements it, with
the signal handler between any two steps; `NoticeSpec` is the refinement with
`watched` the table and `over` the zombies in it.

`Backdrop`: a program is run, writes lines, is answered with "ok", exits, is
abandoned; an image that cannot be loaded removes the backdrop in the middle of
a command. `BackdropRight`: the filer listens only to the program that is set
and was started last; "ok" means loaded; screen, file and box agree with what
is set.

### 2.4 Views: Collection, Details, Minibuffer, Settings

`Collection` keeps each mark as a position; `CollectionKept` relates the marks
before and after every step to the items they were on, and the counter and
PRIMARY to the selection. `Details` has GTK's copy of the rows, which changes
only as the row signals say. `Minibuffer` has all modes (path, shell,
if, name, filter) with the iterators of the view; its view also changes by
scans, clicks and other programs. `Settings`: the box takes the values when it
opens, OK records the ticked ones, a window uses them when it comes to the
directory, `StartAgain` reads the file. The file is written in place, so a write
may be cut short, and then nothing of it is promised any more. A window is laid
out when it is made (`NewPane`) and again when it comes on the screen
(`OpenFilerWindow`), and either may autosize it (`Autosized`); its size is one of
its own or not, for each setting of filer_auto_resize. Only with "Never
automatically resize" is a recorded size promised, and only until the window comes
on the screen unless its position is recorded too (`ResizedIn`, section 6).

### 2.5 The rest

* `Tasklist`: handlers read properties of windows that may have died; `events`
  is a set because a handler reads what is there when it runs. Windows may be
  moved between desktops at any time (`XMove`). window_filter has no case for
  that, so `TaskIconsRight` makes an exception of a window that was moved since
  its state was last read (`moved`; section 6).
* `Remote`: processes look for the filer under a server grab, leave requests
  and wait ten seconds; a dialog inside a request runs a main loop in which
  requests arrive (`frames`).
* `Icons`: an Icon dies with its widget, whoever destroys that. What happens
  after freed memory is used is not modelled (`SoundNext`).
* `Pointer`: presses and releases as the X server sends them under GTK grabs.
* `DirectSave`: one save box and one drag, of the filer's own save box, of its
  files or of another program, to a window of this or another host.
* `BulkRename`: other programs act before and during the dialog and the loop.
* `Options`: a save may fail at each of its steps, and the filer be killed in
  the dialog that says so.
* `Infobox`: `held` counts sources, descriptors and windows; `spoilt` is the
  use of freed memory, after which nothing is said.
* `Mounts`: windows, offers and jobs all count for number_of_windows.
* `Bookmarks`: four copies of the list. The history is a list with a pointer to
  its tail and a counter.
* `Find`: the parser is a machine with a stack of what waits (so that the C
  recursion is explicit); `Derives` is an independent grammar by length of the
  text, and `TreesOver` writes texts together with what they mean.
* `RunAction`: the first half is the files in Choices and the box that changes
  them; the second is one item that is clicked, and the pipe of its program.
* `UserIcons`: `drawn` changes only when something makes the filer restat an
  item; `stale` are items that changed behind its back.
* `Placement`: `SearchAll` is the order of the searches, `StartBox` their
  arithmetic, `Around` the clamping. A search picks the first free place
  by `First`. The theorem assumes that monitors are on the screen.

## 3. Runs

| run | instance | properties |
|---|---|---|
| `dir_scan` | 2 windows, 2 names, one hidden, 2 versions of a file | `TypeOK`, `ScanRuns`, `IndicatorRight`, `UpdateOwed`, `KnownIsShown`, `SettledDisplay` |
| `dir_reports` | 1 window, 2 names, one of them reported singly | `PendingNotified`, `NoDangling`, `NamesRight` |
| `dir_live` | 1 window, 2 names, one hidden, type filter, with fairness | `Converges`, `MissingIsClosed` |
| `action_files` | all seven actions on a directory with one entry; 2 clicks on boxes, 1 on Cancel | `BytesMeanTheSame`, `AgreedIsDone` |
| `action_mounts` | `MCChildren`: link, mount, unmount, eject of two paths (2 clicks, 2 Cancels); `EntryAction`, `ChildDeath`, `Thumbs`, `Backdrop`, `UserIcons`, `Placement`; with fairness | `ClosedFirst`, `ActionsEnd`, `EntryRight`, `NoLostWakeUp`, `NoticeSpec`, `ThumbsRight`, `ChainsEnd`, `BackdropRight`, `IconsRight`, `PlacedApart` |
| `parts` | `MCParts`: the other modules of section 2 | theirs |
| `dir_lost`, `dir_unnoticed`, `dir_dangling`, `dir_types`, `action_handshake`, `icons_freed` | the smallest instance that shows it | one finding each, section 5 |

### 3.1 Bounds

*Directory.* Two names are enough for a scan to be interrupted between them and
for one name to be hidden, new, gone or reported while the other is not; two
windows for one to attach or leave while the other watches. Two versions of a
file make a restat change something. `dir_scan` uses the symmetry of the two
windows, which start alike. `MaxItems` is the number of objects for one name:
one where nothing but scans makes objects (a name then has at most one), three
where single reports do; an action that would need more is not taken
(`HasRoom`).

*Action.* One directory with one entry has every transition of the recursion;
two selected paths in `action_mounts` let a byte meant for the first be read
for the second. `MaxToggles` and `MaxAborts` bound the clicks: two toggles
set and reset a box or change two, a second Cancel covers SIGKILL.

*Children.* Two images in two directories (or one image in two windows), two
thumbnail children at a time, three user moves and events. Two children to
die, one byte read at a time, three forks. One picture, a folder and a page,
two requests or outside events for the user's icons, with the box on the
folder. One image, one application, two styles, three runs of the program with
two lines each, three changes of the backdrop. Two icons, two windows, three
things put on a screen of 12 by 10 pixels with one monitor or two. An entry
with two meaningful texts and one that means nothing, over a directory with one
file.

*Parts.* Three items with two sort keys; one window on two desktops; three
processes; two icons of a pinboard and one of a panel; a widget of each kind
and two buttons down at once; three names with two second spellings and two
steps of other programs; two options of which one has a widget; four names (one
hidden, one a directory, one in capitals) and four keys or outside events; one
Info box with two lines of output and two edits; one mount point with a
directory in it and two windows, one job, one offer, two outside events; two
bookmarks, two writes of others, five visits with a history of two; texts up to
four signs and trees up to three tests; a second window only while there is one
settings box, two boxes in all, two sets of ticks with every setting in one of
them, automatic resizing only without the option of one window per folder; two types of one media type, one a special case
of the other, one box and one outside change; a pipe of two bytes for five.

Each bound is a CONSTANT named `Max...` in its module or a set in the MC
module. They are the least with which the interesting cases above happen; the
mutants of PROJECT.json show that each property can fail within them.

Deadlock is checked in the `dir` runs. In the others it is not: an action ends, a
filer that was killed stays dead, and the bounds stop the users.

### 3.2 Fairness

In `dir_live` each main loop source is served again and again while it is
ready, which is what the GLib main loop does. It is written as
`[]<>~ready \/ []<><<A>>_vars`, weak fairness with ENABLED written out as the
condition under which the handler changes the state. The user and the file
system are not fair. In `action_mounts` the child runs, a signal that reached it
is delivered, and GTK reads the pipe; the main loop and the signal handler of
`ChildDeath` go on; idle callbacks, scans and thumbnail children of `Thumbs`
go on. The user is not fair, so that an action ends (`ActionsEnd`) only
has the premise that the window does not show a question for ever. `EntryAction`,
`Backdrop`, `UserIcons`, `Placement` and the modules in `parts` state safety only.

## 4. Proofs

TLAPS checks 41 theorems, for every value of the constants that the named
assumptions allow. The proofs use no other assumption, except where the last
column states one.

| module | theorem | for every |
|---|---|---|
| `DirectoryProofs` | `Inductive`, `TypeCorrect`, `ScanRunsAlways`, `IndicatorAlwaysRight`, `PendingAlwaysNotified`, `UpdateAlwaysOwed` | set of names and windows, hidden and reported names, filters, both settings of close_dir_when_missing |
| `DisplayProofs` | `NamesInductive` | the same |
| | `NamesAlwaysRight` | the same, `TypeFilters = {}` |
| | `NothingDangles` | the same, `CloseWhenMissing = TRUE` |
| | `DisplayInductive`, `KnownAlwaysShown`, `SettledAlwaysFresh` | the same, `Default`: nothing reported singly, and `CloseWhenMissing = TRUE` |
| `ActionProofs` | `ActionInductive`, `ActionTypes`, `AnswersMatchQuestions`, `DoneAsAgreed`, `WindowsClosedFirst` | tree of paths, selection, action, number of clicks |
| | `EntryAlwaysRight` | files, contents, texts and what compiles, clicks |
| `ThumbsProofs` | `ThumbInductive`, `ThumbsAlwaysRight` | windows, images, directories, number of children |
| | `BookmarksAlwaysRight` | documents, paths and places, length of the history |
| `ChildDeathProofs` | `DeathNoLostWakeUp`, `DeathIsNoticed` (the step simulation of `DeathNotice`) | number of children and size of a read |
| | `BoardsAlwaysRight` | icons, boards, paths, shortcut keys, requests |
| | `InfoAlwaysRight` | boxes, edits, changes of the file, lengths of the output of file(1) |
| `RemoteProofs` | `OneFilerAlways`, `AnswersAlwaysTrue` | number of processes, requests |
| | `TaskIconsAlwaysRight` | windows, their titles, switches of options and desktop |
| | `CollectionAlwaysKept` | number of items, sort keys, rows that can be seen |
| | `PlacedAlwaysApart` | icons, windows, sizes, screen, monitors, layouts, steps of the grid and of the search |
| `PointerProofs` | `ReleasedAlwaysReady` | widgets, options, number of buttons held |
| | `MountsAlwaysRight` | mount points, directories, windows, action windows, dialogs at a time |
| | `RowsAlwaysFollow` | finite set of items, sort keys |
| | `RunAlwaysRight` | finite set of types, their parents (not in a circle), media types and defaults, programs, length of the data and of the pipe |
| `PartsProofs` | `NothingEverReplaced` | table of names, paths they stand for |
| | `SettingsAlwaysUsed` | folders, windows, settings, sets of ticks |
| | `SavedAlwaysSaved` | kinds of drops, requests |
| | `OptionsAlwaysKept` | options, values, files of earlier versions |
| | `IconsAlwaysRight` | items, folders, applications, types, pictures |
| | `BackdropAlwaysRight` | images, applications, styles, programs run, lines they write |
| | `MiniAlwaysFollows` | names, letters, directories and their files, patterns, conditions, commands |

The four conditions are needed, and a run shows each: without the first half of
`Default` the run `dir_lost` violates `KnownIsShown`, without the second
`dir_dangling` violates `NoDangling`, and `dir_types` violates what it says of
windows that filter by type. `TypeFilters = {}` is stronger than that: a window
that filters by type keeps an item it should no longer let through, and is not
told to redraw it when the filter refuses it.

**Directory.** `IInv` is the types of all variables, and `DirInv(dir)`: the scan
is on exactly while there is a name to recheck and a user, with the idle
callback installed (`ScanInv`); the indicators (`IndicatorsBut`); the notify
timeout runs when something is pending (`NotifyInv`); an update that is owed has
somebody to trigger it (`Owed`). The parts need each other: that a window's
indicator is right after an attach rests on `ScanInv` before it, that no update
is forgotten when a scan ends rests on the idle callback being installed while
one runs. They are not kept by each function taken alone: in the middle of
`Attach` the new window's indicator is not right yet (hence
`IndicatorsBut(d, W)`: all but those in W), and after `QueueInteresting` there
may be a list without a callback, until `SetIdleCallback` restores `ScanInv`
whatever came before. So the proof has a typing lemma and a control lemma for
each operator, lemmas for the composed ones (`RescanInv`, `AttachInv`,
`DetachInv`, ...), and then one step per action in `FileSystemStep`,
`MainLoopStep` and `UserStep`.

**What the windows show.** `DisplayInv` adds to `IInv` what the lists hold
(`Listed`), what each window displays (`Displayed`), and, which is the heart of it,
that the Directory knows what it does not know: an event is on its way, or
nobody watches and the fscache can tell from the stat, or `Right` holds, that is
an update is owed, or a change went unnoticed or reading failed (`Behind`),
or the windows are about to be closed, or every name on the disk is known and
each item is as on the disk or noted to be looked at again (`Fresh`). At rest the
other cases are excluded and what is known is what is shown. `Listed` says that no
item waits in new_items, which is true only of scans, hence `Default`. `NamesInv`
is the weaker invariant that survives single reports: a window displays only what
lives or is about to be taken away, drawn as it is or with an update waiting
(`Held`), what waits to be announced is on a list (`Waiting`), and the names
known and new together are those on the disk (`HasNames`), again unless something
says that they are not. Each C function is shown to keep it (`Keeps`), the
functions are composed as in the code, and there is one step per action.

**Action.** `ActionInv` says who may still hold the pipes (`Lifetimes`), what
the child still has to do and in which order (`Agenda`), that there is exactly one
question or answer on the two pipes while the child asks and none
otherwise (`OneQuestion`), and the same of the X handshake while the child has
read no byte it did not expect (`ClosingAsked`). With `FlagsAgree`, which is counted
over the flag bytes still in the pipe, this gives `BytesMeanTheSame`. `AgreedTo`
carries the consent from the click through the pipe to the child, and
`NoneForgotten` follows each path agreed to until the filer is told that it is
done. Both are true only until the child confuses bytes, which is the finding
of `action_handshake`; `AgreedIsDone` and `ClosedFirst` say so.

`EntryInv`, of the actions with an entry box, says where the text is that the user
typed: behind the last E in the pipe, or with the child as a text, or compiled
(`HasAt`). A Y stands in the pipe where the text that was agreed to is the last
before it (`AskedFirst`), so that what the child compiles when it has read the Y is
that text, and what was done to a file before is forgotten when the child comes
to it again. One question at a time (`InStep`) is needed for that too: the question in
the window is about the file that the child is at (`Lives`).

**Thumbs.** `ThumbInv` is the types, that children and windows are at places that
exist (`Placed`), that no entry of the cache is newer than its file and that what a
child works on is marked in the cache (`CacheRight`), the references of the chains
(`QueueServed`), and that windows show what is loaded, also in mid-scan
(`ShownAlways`). That an image is not made twice is inductive only with the mark.

**ChildDeath.** `NoLostWakeUp` is not inductive alone: between the test of the
flag and the end of waitpid the flag says nothing. `FlagHasByte` adds that a
raised flag has its byte in the pipe, or the loop has just taken it.

**Remote.** A live filer is the one the root window names (`LiveIsNamed`), which
is inductive only with what the grab is for: who looks or is about to announce
itself holds it (`GrabHeld`), and found nobody (`NobodyYet`). `AnswerInv` follows
a request: it is in one place at most, the inbox or a frame of one filer
(`RequestsOnce`), and the changes of its property that the client has seen or will
see are its own and that of the filer that ran it (`ChangesCounted`), so that the
second one is the answer.

**Pointer.** The count of the motion system is at most the number of buttons
held that its widget does not forward to the window manager (`Counted`), and
nothing is left over when it is zero (`AtRest`).

**The parts.** `BulkInv`: the old names of the rows are of different files, and a
row about to be renamed was just seen to have a free name. `SettingsInv`: the
table holds what was last recorded, and the file what was recorded when it was
last written in full, and the icons of a window have the size it wants there, so that `SettingsUsed`, an action property, follows for each step.
`SaveInv`: a drop is finished once no request waits (`Dropping`), and a
box that was told to use the property has saved or the property is on its way to
be cleared (`Boxed`); TLC looks at the drags of others only with a new
box, the theorem at all. `OptionsInv`: what the next start would load is what
the last successful save wrote (`Filed`), what is in force is that or what a box
was opened with (`InStep`), and the box knows whether it has something to
revert (`BoxRight`). `IconsInv`: a file that is not there has no rules, what the
filer remembers is what the user wants, and the file is that unless a save failed or
another program wrote it; and each step that changes what an item would show looks
at the item again or marks it as stale (`LookShows`, `ExamineShows`,
`FullRefreshShows`). `BackInv`: besides the three parts of `BackdropRight`, while
nothing is unsaved the box agrees with the file, whether the pinboard is on or
not, since that is what it is loaded from. The functions of a line, of
several lines and of a new backdrop have a lemma each (`ObeyOK`, `AfterIs`,
`ReloadOK`, ...).

**Task list.** `TaskInv` says of each window alive what the filer knows of it, or
which event on the way will tell it, but of its desktop if it was moved (`WindowFollowed`), and what makes the handlers
find it (`WindowSound`): the events of a known window are selected, it is in the old
list, and it has an icon exactly while it is marked as iconified. One lemma treats
all callers of tasklist_update (`AfterUpdate`), one the handlers about one window
(`OneWindow`), one what the X server does by itself (`ServerMoves`); with the filter
removed nothing living is known, so that what it misses does no harm (`Inactive`).

**Infobox.** That the sources and descriptors held are those of what the boxes show
is not kept by a step alone: a box that closes gives back what it holds, not what
it shows. `InfoInv` adds to the types (`InfoTypes`) that each box shows a scan or
a text being read exactly while it has the watch or the reader (`BoxSound`), and
counts watches, readers and pipes over all boxes (`Counts`). Each C function is
shown to leave what is held for the other boxes as it was (`Same`), so that a
handler of one box keeps the whole (`HandlerKeeps`).

**Mounts.** In the middle of a handler the count of the filer is not that of its
windows, offers and actions: each is taken away before its count is given back. So
the lemmas follow the difference (`Surplus`) through the handler, and `MountInv`
says that it is zero, and the count is not, whenever a handler of a filer that
runs is done (`AllCounted`). That an unmount nobody was asked about comes only with
the last window is an action property over what becomes of the places for actions,
so the invariant says that an empty one is not marked silent (`NoneSilent`). The
assumption that a directory is not below its parent is needed when the last
window leaves a mount point for the directory above it.

**Icons.** The property is conditional: it says nothing once an Icon was freed while
it was selected, which `icons_freed` shows can happen. The invariant
`BoardsInductive` is not: `Good` holds at any point of any handler, and keeps a
freed Icon in the selection, the index and the counts, where the code leaves it
too. Each C function has a lemma that it keeps `Good` and changes no icon but its
own (`SetShortcutGood`, `FinalizeGood`, `NewIconGood`, ...). A key's count is
the number of icons that have it, so that giving up the grab with the
last one is right (`UngrabIs`, `GrabIs`: between the two the tables are exact
for all icons but one). What a board's file says is followed through loading and
saving: a board that is taken down and read back shows what was saved
(`ActivateRight`), and a handler that changed what a file says has saved it
(`DoneRight`).

**Bookmarks.** `MarksInv`: a copy of the file in memory that is not stale is the file,
and what the user asked for is in the file or, while that cannot be read, in
the document that will be written. `HistoryInv` relates the three structures of the
history: list, hash table and tail are of the same directories, the free places are
those not used, the list is in the order of the last visits, and what
was visited and is not on it has `HistoryMax` others visited since
(`ManySince`). A list is searched and cut by position, so that a visit is followed
as a sequence that loses one element and gains one in front (`VisitedAgain`,
`RemovedIs`, `AddHistoryIs`).

**Placement.** Every step but two says that nothing was searched for, so the
invariant is of types alone. The rest is about one step: among the free places of a
search there is a first (`SoonestOf`, twice), so that a search that fails has no
place (`SearchFinds`); the monitor, the box and the screen are tried in turn and
what is found is on the screen but for a box that goes over its edge (`BoxIs`,
`FoundIs`); snapping, framing and clamping move each side by at most the frame
and the larger of frame and half a step (`FramedAlong`), and what was apart
lies over by at most that (`GrownOver`).

**Details.** `ViewGood` says of an array, of what GTK keeps and of a choice of items
that the rows selected are those of the items chosen and the cursor's row is its
item's. Each operation of the view keeps it, for the choice less what is gone
(`Resorts`, `AddsRows`, `Deletes`, `Clears`). Sorting is right because the places of
the items are all different and as many as there are (`Places`, `Sorts`); the
pass that deletes keeps that nothing above it is to go, and that as much is left
below it as there is to test (`PassGood`); the binary search finds what lies
between its ends by induction on their distance (`Finds`), in an array that is
in order (`InOrder`), which holds right after sorting and not always; the iterator meets
each position once because its k-th is known in closed form (`TurnMeets`).

**Collection.** That PRIMARY is owned only with something selected is not kept by
an operation alone: while one runs, PRIMARY may be owned by a window whose counter has
changed. So `Counted1` says what holds before selection_changed tells of a change, and
`SelGood` what holds after (`ChangedIs`); that view_select_if never passes through
an empty selection is `MarkedUpto`, which keeps the first item selected through its
loop. `CollGood` adds that the array holds each item once and where the marks
are (`MarksGood`). The sorted array is each item at the place that those before it leave
it, which is a bijection (`ArrangedRight`); from that follow the order and the marks
(`QsortIs`), what a deletion leaves and by how much the cursor goes back (`DeleteIfIs`,
`CursorGoesBack`), and that the search finds what lies between its ends by
induction on their distance (`FindsAll`). Its refusals of PRIMARY and its
claims by others are in every step (`Begun`, `StepStays`).

**RunAction.** The program for a type is defined by what it is for its parents. That
such a definition has a meaning for every type is induction on how far a type is
above its ancestors (`InheritsExists`), and so is what holds of all types if it passes
from parents to children (`TypesRise`). `RunInv` says that what the box bound and
nobody touched since is what is in the directory, and that a box which waits for an
answer will write the entry it asked about. That setting a program for a name leaves
the other types alone follows each lookup through directories, defaults, links and
parents: an entry that changes is not met on the way (`SameOwn`, `OthersRunSame`).

**Minibuffer.** That the files shown are those the flag for hidden ones lets through is
part of the invariant whenever the flag is up and no scan is on (`ShownIs`): the red path
asks it only of a name with a dot, but such a name may be typed when the flag has been
up for a while. `RedRight` relates text, colour, cursor and view of a path that was just
looked up, `ChosenRight` the same of a pattern; whatever changes the view otherwise takes
the answer back (`StaleGood`). An iterator meets each item once, at a distance from the
cursor that is known in closed form (`IterateIs`, `PathMeets`, `StepsAre`), so that what
it finds first is nearest (`SearchIs`). Two names agree up to a first letter that
differs (`StemIs`), and the least of these stems is what all have in common
(`StemFills`). The assumption that a directory is not in itself is used when Tab
goes down into one. How the view sorts its names is taken as given; `ViewOrderIs` shows that
the list holds exactly those asked for.

**Recursion.** A read of the backdrop's pipe obeys any number of lines, which the
model states as a recursive function. That such a function stays within a
set each step stays within (`AfterIs`) is proved from the least element of a set of
numbers (`Least`, from the library's `WFMin`) and induction on a set instead of an
operator (`Rise`); that the function exists at all is `Steps`. The loops over the
icons of a board, of the selection or of a file take the icons in an order the
model leaves open; `EachOf` is the induction over such a set and `WayExists` the
function. `UpTo` is the same for the numbers up to a bound, with which each loop of
`Details`, `Collection` and `Minibuffer` is followed.

TLC checked each invariant on a small instance before it was proved. So that the
obligations are about one case at a time, the arms of some CASEs were made disjoint.

Only model-checked, and why:

* Liveness (`Converges`, `MissingIsClosed`, `ActionsEnd`, `ChainsEnd`) and the
  fairness part of `NoticeSpec`: they need ENABLED.
* `FindRight`: that the parser accepts what the grammar derives is a fact about recursive
  functions over texts, an induction over data, on both sides. The library's
  induction theorems take an operator, which the provers cannot instantiate, and the
  detour of `Recursion` above has not been tried on it. It is also about texts of the
  kinds that `Derives` and `Leaves` describe, and not about every value of `Sign`.

## 5. Findings

* `dir_lost`: a file that is deleted, checked, recreated and checked again
  within the notify timeout is known to the Directory and displayed nowhere,
  because dir_merge_new announces new items before gone ones and windows
  remove by name. `KnownIsShown` holds where files are not reported singly.
* `dir_unnoticed`: toggling a filter in the only window drops the monitor with
  an event it has queued; the change stays unnoticed.
* `dir_dangling`: with close_dir_when_missing off, dir_rescan on a directory that
  has gone frees items that are still on `up_items`.
* `dir_types`: a window that shows only directories does not come to show one
  that is added while it is open, because the filter is applied while the type
  is still unknown and never again.
* `action_handshake`: a click on Quiet while the child waits for the filer's X
  is read in its place, and the X then counts for the next path, which is
  unmounted while its windows are open.
* `icons_freed`: a board that is taken down while one of its icons is selected
  frees the Icon, which stays on the selection and in the tables
  (`icon.c:981` asserts that it cannot).

## 6. Seen while modelling

What the code does that its documents or neighbouring code speak against, or
that a property had to leave out. No run is kept for these.

*Directory, cache, windows.* Two single checks of a new name before a merge make
two items for it (`dir.c:629`). Times are compared in whole seconds
(`fscache.c:63`), and an inode that is reused is taken for the same file (355).
filer_openitem reads an item that dir_update_item may have freed
(`filer.c:916-918`; `FreedOpened`). Shift and middle click on a link within its
directory closes the window that should show it (`filer.c:937`).
temp_item_selected stays set after the menu (`filer.c:2790`).

*Actions.* A second action inherits the first one's pipe ends, so that the first
child sees no end of file (`action.c:825`). A line break pasted into an entry
ends the text early and the rest is read as flags or answers (602, against 694).
Permissions and Set type look at the link's target and then ask S_ISLNK (2012).

*Thumbnails.* The child's result is taken for the file as it is when it ends
(`pixmaps.c:621`): an image that changed meanwhile keeps the picture of what it was.

*Mounts.* The check at `filer.c:606` is always true; a window left by other means
than Close and Up makes no offer; only the nearest of nested mounts is offered; a
file system that another program remounts stays the filer's (against Manual:1022).

*Views.* view_details' resort overwrites wink_item while it is used (1366), and
deletions do not move it. minibuffer_hide fills the view before it clears
temp_show_hidden (218, against Manual:1127). "~user" reads past the end of the
string (497). ShowThumbs is saved with the tick for the style
(`filer.c:3413`); check_settings sets the hidden flag without an update (3465).
Settings.xml is written in place (3442), so a write that is cut short loses all
that was filed. By default a recorded size is autosized over (against Manual:520);
and open_filer_window (348) tests for a recorded position, not size, so that a
window whose size alone is recorded is autosized as it comes on the screen even
with "Never automatically resize".

*Task list.* An iconified window that is sent to another desktop keeps its icon
(or lacks one, if it is brought here) until its state, the desktop or the list of windows
changes: the event for _NET_WM_DESKTOP is delivered and not looked at
(`tasklist.c:465`), against "Iconified windows on another desktops are not shown"
(397).

*Pinboard.* The left button held while the middle one is forwarded leaves the
count at one (`pinboard.c:1411`). A file with an unknown backdrop style is
saved as a program's (1569, 1717). A NUL in a program's output blocks its lines
(2586). With several monitors and a start coordinate no place is searched and
the icon goes where the stack says (2847); a button that has grown is searched a
place by its old size (415). The box of the backdrop stays open when
the pinboard is turned off.

*User icons.* A type's icon that is set during a scan, or within two seconds of a
look, is not drawn until the next scan (`type.c:603`); rules written by another
program in the second of the last read are overwritten (`usericons.c:96`);
the Manual (1650) names another file than the code.

*Run actions.* Clearing an action "only for the type" follows links and defaults,
so that it may remove the application itself or another type's
(`type.c:788`, 826, against the comment at 1077). A failed write leaves the old
action removed. A program that cannot be started still closes the window.

*Bookmarks, options.* The bookmarks are not saved atomically and a failed save is
undone silently; the editor overwrites what another program wrote. SetOption
tells no feature (`options.c:256`). An old options file that is converted
(`main.c:618`) keeps choices_migrate from moving the others.

*Others.* "Not" eats one more character and "(-f)" needs a blank (`find.c:556`).
An Info box that is closed before its idle refresh uses freed details
(`infobox.c:500`), and kill may reach another process (494). A client whose request
reaches a quitting filer waits ten seconds and exits with success
(`remote.c:1240`). access() does not see a dangling link (`bulk_rename.c:375`).
Failures after 'F' in a raw save leave a state that reports success
(`gtksavebox.c:75`).

## 7. Not modelled

Drawing, layout, fonts and scaling; menus and toolbars beyond the commands named
above; xdgmime (vendored) and modechange (GNU code); applets and panel options;
session management; the command line; the parsing of fstab, mtab, XML
and desktop files. Several Directories in one cache and dummy directories are left
for a module of their own, as are the key groups of `filer.c`, the menu of a drop
and the clipboard of `menu.c`.

## 8. Plan

1. `FSCache`: the lookup modes, reused inodes, times in seconds and purge, with
   an abstract cache as its specification, and several Directories in it.
2. An abstract view of a directory refined by `Directory`, and an abstract action
   (consent, act, report) refined by `Action`.
3. Proofs: `FindRight`, whose module parses texts.
4. The menu of a drop, groups, and the remaining SOAP calls.

------------------------------ MODULE Directory ------------------------------
(***************************************************************************)
(* One cached Directory object (dir.c), the filer windows attached to it   *)
(* (filer.c, view_collection.c) and the file system directory it copies.   *)
(*                                                                         *)
(* The filer is single-threaded: every handler of the GTK main loop is one *)
(* action here, and is written as a composition of operators on the record *)
(* "dir", one operator per C function, in the order the C code calls them. *)
(* Between two handlers the file system and the user do as they please.    *)
(***************************************************************************)
EXTENDS Naturals, FiniteSets

CONSTANTS
    Leaf,             \* the names that may exist in the directory
    Hidden,           \* the names a window hides unless it shows hidden files
    Directories,      \* the details that say the file is a directory
    TypeFilters,      \* the type filters ("dirs", "files") the user may choose
    Window,           \* the filer windows that may view the directory
    MaxDetails,       \* how many different details (size, mtime, ...) a file has
    MaxItems,         \* bound: DirItem objects alive at once for one name
    CloseWhenMissing, \* the option close_dir_when_missing (default TRUE)
    Reported          \* the names that are ever reported singly (dir_check_this)

Details == 1..MaxDetails
Absent  == 0                  \* lstat says ENOENT; or: not displayed
Blank   == MaxDetails + 1     \* TYPE_UNKNOWN: a name that was never restatted
Item    == Leaf \X (1..MaxItems)

ASSUME ConstantsAssumption ==
    /\ Hidden \subseteq Leaf
    /\ Directories \subseteq Details
    /\ TypeFilters \subseteq {"dirs", "files"}
    /\ MaxDetails \in Nat \ {0}
    /\ MaxItems \in Nat \ {0}
    /\ CloseWhenMissing \in BOOLEAN
    /\ Reported \subseteq Leaf

VARIABLES
    disk,     \* [Leaf -> details of the file, or Absent]
    dirstat,  \* "ok", "gone" (stat of the directory fails), "noread" (opendir fails)
    dirty,    \* the directory's stat differs from the one the fscache recorded
    event,    \* a file monitor event is queued and not delivered yet
    dir       \* the Directory, its users and the sources it has in the main loop

vars == <<disk, dirstat, dirty, event, dir>>

--------------------
(* The Directory and what its windows show. *)

NameOf(i)   == i[1]
NamesOf(S)  == {NameOf(i) : i \in S}
OnDisk      == {l \in Leaf : disk[l] # Absent}
InView(d, w)     == {i \in Item : d.view[w][i] # Absent}

Shown(d, w, l, v) ==
    /\ d.only[w] = "files" => v \notin Directories
    /\ d.only[w] = "dirs"  => v \in Directories
    /\ l \notin Hidden \/ d.showHidden[w]

(* filer_match_filter.  A name that was never restatted is no directory. *)
MatchFilter(d, w, i) == Shown(d, w, NameOf(i), d.details[i])

(* lstat of one entry: nothing is found below a path that has gone. *)
Lstat(l) == IF dirstat = "gone" THEN Absent ELSE disk[l]

NothingShown == [i \in Item |-> Absent]

NewDirectory ==
    [loaded      |-> FALSE,
     users       |-> {},
     known       |-> {}, new |-> {}, up |-> {}, gone |-> {},
     details     |-> [i \in Item |-> Absent],
     needRescan  |-> {},
     recheck     |-> {},
     scanning    |-> FALSE,
     idle        |-> FALSE,
     needsUpdate |-> TRUE,
     notify      |-> FALSE,
     timer       |-> FALSE,
     error       |-> "none",
     closing     |-> FALSE,
     missed      |-> FALSE,
     view        |-> [w \in Window |-> NothingShown],
     busy        |-> [w \in Window |-> FALSE],
     showHidden  |-> [w \in Window |-> FALSE],
     only        |-> [w \in Window |-> "all"]]

DirectoryType ==
    [loaded : BOOLEAN,
     users : SUBSET Window,
     known : SUBSET Item, new : SUBSET Item, up : SUBSET Item, gone : SUBSET Item,
     details : [Item -> Details \cup {Absent, Blank}],
     needRescan : SUBSET Item,
     recheck : SUBSET Leaf,
     scanning : BOOLEAN,
     idle : BOOLEAN,
     needsUpdate : BOOLEAN,
     notify : BOOLEAN,
     timer : BOOLEAN,
     error : {"none", "stat", "open"},
     closing : BOOLEAN,
     missed : BOOLEAN,
     view : [Window -> [Item -> Details \cup {Absent, Blank}]],
     busy : [Window -> BOOLEAN],
     showHidden : [Window -> BOOLEAN],
     only : [Window -> {"all"} \cup TypeFilters]]

(* A DirItem is a name and the number of an object for that name that      *)
(* nothing refers to; MaxItems is large enough that there is always one.   *)
InUse(d) == d.known \cup d.new \cup d.up \cup d.gone \cup UNION {InView(d, w) : w \in Window}
FreeItems(d, l) == {n \in 1..MaxItems : <<l, n>> \notin InUse(d)}

(* Mutant: the new item is not given its name. *)
NewItemUnnamed(d, l) == <<Absent, MaxItems>>

NewItem(d, l) == <<l, IF FreeItems(d, l) = {} THEN MaxItems
                      ELSE CHOOSE n \in FreeItems(d, l) : \A m \in FreeItems(d, l) : n <= m>>

--------------------
(* dir.c, the functions that call the windows back. *)

(* dir_set_scanning, and the windows' DIR_START_SCAN / DIR_END_SCAN. *)
SetScanning(d, on) ==
    IF d.scanning = on THEN d
    ELSE [d EXCEPT !.scanning = on,
                   !.busy = [w \in Window |-> IF w \in d.users THEN on ELSE @[w]]]

(* What DIR_ADD add, DIR_UPDATE upd and DIR_REMOVE del make of the items   *)
(* window w displays.  Items are removed by name, and only items that are  *)
(* found are redrawn.                                                      *)
Redrawn(d, w, add, upd, del) ==
    [i \in Item |->
        IF NameOf(i) \in NamesOf(del) THEN Absent
        ELSE IF /\ MatchFilter(d, w, i)
                /\ i \in add \/ (i \in upd /\ d.view[w][i] # Absent)
             THEN d.details[i]
             ELSE d.view[w][i]]

Tell(d, W, add, upd, del) ==
    [w \in Window |-> IF w \in W THEN Redrawn(d, w, add, upd, del) ELSE d.view[w]]

(* The hash table keeps, of the items with one name, the last one inserted:*)
(* the one with the largest number.                                        *)
Latest(S) == {i \in S : \A j \in S : NameOf(j) = NameOf(i) => j[2] <= i[2]}

(* Freed objects have no details. *)
Freed(details, S) == [i \in Item |-> IF i \in S THEN Absent ELSE details[i]]

MergeNew(d) ==
    [d EXCEPT !.view    = Tell(d, d.users, d.new, d.up, d.gone),
              !.known   = {i \in @ : NameOf(i) \notin NamesOf(d.new)} \cup Latest(d.new),
              !.details = Freed(@, d.gone),
              !.needRescan = @ \ d.gone,
              !.new = {}, !.up = {}, !.gone = {}]

(* Mutant: notify_deleted is not called. *)
RemoveMissingQuietly(d, names) ==
    LET deleted == {i \in d.known : NameOf(i) \notin names}
    IN  [d EXCEPT !.known = @ \ deleted, !.details = Freed(@, deleted),
                  !.needRescan = @ \ deleted]

RemoveMissing(d, names) ==
    LET deleted == {i \in d.known : NameOf(i) \notin names}
    IN  [d EXCEPT !.known   = @ \ deleted,
                  !.view    = Tell(d, d.users, {}, {}, deleted),
                  !.details = Freed(@, deleted),
                  !.needRescan = @ \ deleted]

(* queue_interesting for the windows W: every displayed item that still    *)
(* needs it is put on the recheck list.                                    *)
QueueInteresting(d, W) ==
    LET wanted == d.needRescan \cap UNION {InView(d, w) : w \in W}
    IN  [d EXCEPT !.recheck = @ \cup NamesOf(wanted), !.needRescan = @ \ wanted]

(* Mutants: the removal of an item does not start the notify timeout; an   *)
(* item that has changed is not put in up_items.                           *)
InsertItemQuietly(d, l) ==
    LET found == {i \in d.known : NameOf(i) = l}
    IN  [d EXCEPT !.known = @ \ found, !.gone = @ \cup found]

InsertItemUnseen(d, l) ==
    LET found == {i \in d.known : NameOf(i) = l}
    IN  [d EXCEPT !.details = [i \in Item |-> IF i \in found THEN Lstat(l) ELSE @[i]],
                  !.needRescan = @ \ found]

(* insert_item: restat one name and note what has become of it. *)
InsertItem(d, l) ==
    LET found == {i \in d.known : NameOf(i) = l}
        now   == Lstat(l)
        item  == IF found = {} THEN NewItem(d, l) ELSE CHOOSE i \in found : TRUE
        restatted == [d EXCEPT !.details[item] = now, !.needRescan = @ \ {item}]
    IN  IF found = {}
        THEN IF now = Absent THEN d
             ELSE [restatted EXCEPT !.new = @ \cup {item}, !.up = @ \cup {item},
                                    !.notify = TRUE]
        ELSE IF now = Absent
             THEN [restatted EXCEPT !.known = @ \ {item}, !.gone = @ \cup {item},
                                    !.notify = TRUE]
             ELSE IF d.details[item] = now /\ item \notin d.needRescan
                  THEN restatted
                  ELSE [restatted EXCEPT !.up = @ \cup {item}, !.notify = TRUE]

(* recheck_callback up to the point where it may call dir_rescan.  "next"  *)
(* is the name at the head of recheck_list, whose order depends on how the *)
(* windows sort.                                                           *)
Pick(S, next) == IF next \in S THEN next ELSE CHOOSE l \in S : TRUE

RecheckOne(d, next) ==
    LET l == Pick(d.recheck, next)
        e == InsertItem([d EXCEPT !.recheck = @ \ {l}], l)
    IN  IF e.recheck # {} THEN e
        ELSE [SetScanning(MergeNew(e), FALSE) EXCEPT !.idle = FALSE]

(* Mutant: the scan goes on when the last window has detached. *)
SetIdleCallbackUnwatched(d, next) ==
    IF d.recheck # {} THEN [SetScanning(d, TRUE) EXCEPT !.idle = TRUE]
    ELSE [SetScanning(d, FALSE) EXCEPT !.idle = FALSE]

(* set_idle_callback.  A scan that starts checks its first name at once;   *)
(* needs_update is never set when one starts, so the recheck_callback it   *)
(* calls does not go on to dir_rescan.                                     *)
SetIdleCallback(d, next) ==
    IF d.recheck # {} /\ d.users # {}
    THEN IF d.idle THEN SetScanning(d, TRUE)
         ELSE RecheckOne([SetScanning(d, TRUE) EXCEPT !.idle = TRUE], next)
    ELSE [SetScanning(d, FALSE) EXCEPT !.idle = FALSE]

(* Mutants: known items are not marked for a recheck; items whose names are*)
(* no longer listed are not removed.                                       *)
ReadNewNames(d) ==
    LET kept  == RemoveMissing(MergeNew(SetScanning(d, TRUE)), OnDisk)
        fresh == {NewItem(kept, l) : l \in OnDisk \ NamesOf(kept.known)}
    IN  [kept EXCEPT !.recheck = {}, !.new = fresh, !.missed = FALSE,
                     !.details = [i \in Item |-> IF i \in fresh THEN Blank ELSE @[i]],
                     !.needRescan = @ \cup fresh]

ReadNamesKeepAll(d) ==
    LET fresh == {NewItem(d, l) : l \in OnDisk \ NamesOf(d.known)}
    IN  [MergeNew(SetScanning(d, TRUE)) EXCEPT
            !.recheck = {}, !.new = fresh, !.missed = FALSE,
            !.details = [i \in Item |-> IF i \in fresh THEN Blank ELSE @[i]]]

(* The part of dir_rescan that reads the names and marks every item. *)
ReadNames(d) ==
    LET names == OnDisk
        kept  == RemoveMissing(MergeNew(SetScanning(d, TRUE)), names)
        fresh == {NewItem(kept, l) : l \in names \ NamesOf(kept.known)}
    IN  [kept EXCEPT !.recheck    = {},
                     !.new        = fresh,
                     !.details    = [i \in Item |-> IF i \in fresh THEN Blank ELSE @[i]],
                     !.needRescan = @ \cup kept.known \cup fresh,
                     !.missed     = FALSE]

(* Mutant: a directory that cannot be statted does not close its windows. *)
RescanLeavesOpen(d, next) ==
    LET d0 == [d EXCEPT !.needsUpdate = FALSE, !.error = "none"]
        d1 == MergeNew(ReadNames(d0))
    IN  IF dirstat # "ok" THEN [d0 EXCEPT !.error = "open"]
        ELSE MergeNew(SetIdleCallback(QueueInteresting(d1, d1.users), next))

(* dir_rescan. *)
Rescan(d, next) ==
    LET d0 == [d EXCEPT !.needsUpdate = FALSE, !.error = "none"]
        d1 == MergeNew(ReadNames(d0))
    IN  CASE dirstat = "gone" /\ CloseWhenMissing  -> [d0 EXCEPT !.closing = TRUE]
          [] dirstat = "gone" /\ ~CloseWhenMissing -> RemoveMissing([d0 EXCEPT !.error = "stat"], {})
          [] dirstat = "noread" -> [d0 EXCEPT !.error = "open"]
          [] OTHER -> MergeNew(SetIdleCallback(QueueInteresting(d1, d1.users), next))

(* update, called by the fscache and by dir_update. *)
Update(d, next) ==
    IF d.scanning THEN [d EXCEPT !.needsUpdate = TRUE] ELSE Rescan(d, next)

(* Mutants: the attaching window is not told that no scan is running; it is*)
(* given the known items only if one is not.                               *)
AttachBusy(d, w, next) ==
    LET shown == [d EXCEPT !.users = @ \cup {w}, !.busy[w] = TRUE,
                           !.view[w] = Redrawn([d EXCEPT !.view[w] = NothingShown],
                                               w, d.known, {}, {})]
        asked == IF d.needsUpdate /\ ~d.scanning THEN Rescan(shown, next)
                 ELSE QueueInteresting(shown, {w})
    IN  SetIdleCallback(asked, next)

AttachEmpty(d, w, next) ==
    LET shown == [d EXCEPT !.users = @ \cup {w}, !.busy[w] = d.scanning,
                           !.view[w] = IF d.scanning THEN NothingShown
                                       ELSE Redrawn([d EXCEPT !.view[w] = NothingShown],
                                                    w, d.known, {}, {})]
    IN  IF d.needsUpdate /\ ~d.scanning THEN Rescan(shown, next)
        ELSE SetIdleCallback(QueueInteresting(shown, {w}), next)

(* attach (filer.c) and dir_attach. *)
Attach(d, w, next) ==
    LET shown == [d EXCEPT !.users = @ \cup {w}, !.busy[w] = TRUE,
                           !.view[w] = Redrawn([d EXCEPT !.view[w] = NothingShown],
                                               w, d.known, {}, {})]
        asked == IF d.needsUpdate /\ ~d.scanning THEN Rescan(shown, next)
                 ELSE QueueInteresting(shown, {w})
        idled == SetIdleCallback(asked, next)
    IN  IF idled.scanning THEN idled ELSE [idled EXCEPT !.busy[w] = FALSE]

(* detach and dir_detach for every window in W.  With the last user the    *)
(* monitor goes, and with it an event it has queued: "missed" remembers    *)
(* that until the names are next read.                                     *)
Detach(d, W, next) ==
    LET left == [d EXCEPT !.users = @ \ W,
                          !.view = [w \in Window |-> IF w \in W THEN NothingShown ELSE @[w]],
                          !.busy = [w \in Window |-> IF w \in W THEN FALSE ELSE @[w]]]
    IN  [SetIdleCallback(left, next) EXCEPT
            !.missed = @ \/ (event /\ d.users \subseteq W)]

(* filer_window_destroyed; a window opened later starts without hidden     *)
(* files and without a type filter.                                        *)
Destroy(d, W, next) ==
    [Detach(d, W, next) EXCEPT
        !.showHidden = [w \in Window |-> IF w \in W THEN FALSE ELSE @[w]],
        !.only = [w \in Window |-> IF w \in W THEN "all" ELSE @[w]]]

(* Mutant: the timeout is set but needs_update is not. *)
RescanTimerOnly(d) == [d EXCEPT !.timer = TRUE]

(* rescan_soon. *)
RescanSoon(d) == [d EXCEPT !.needsUpdate = TRUE, !.timer = TRUE]

--------------------
(* The file system.  A change of the names, or of a file that is replaced  *)
(* rather than written in place, changes the directory's own stat; the     *)
(* monitor, while there is one, queues an event for every change.          *)

Notified == event' = (event \/ dir.users # {})

Create(l) ==
    /\ dirstat # "gone" /\ disk[l] = Absent
    /\ \E v \in Details : disk' = [disk EXCEPT ![l] = v]
    /\ dirty' = TRUE /\ Notified
    /\ UNCHANGED <<dirstat, dir>>

Delete(l) ==
    /\ dirstat # "gone" /\ disk[l] # Absent
    /\ disk' = [disk EXCEPT ![l] = Absent]
    /\ dirty' = TRUE /\ Notified
    /\ UNCHANGED <<dirstat, dir>>

Replace(l) ==
    /\ dirstat # "gone" /\ disk[l] # Absent
    /\ \E v \in Details \ {disk[l]} : disk' = [disk EXCEPT ![l] = v]
    /\ dirty' = TRUE /\ Notified
    /\ UNCHANGED <<dirstat, dir>>

WriteInPlace(l) ==
    /\ dirstat # "gone" /\ disk[l] # Absent
    /\ \E v \in Details \ {disk[l]} : disk' = [disk EXCEPT ![l] = v]
    /\ Notified
    /\ dir' = [dir EXCEPT !.missed = @ \/ (dir.loaded /\ dir.users = {})]
    /\ UNCHANGED <<dirstat, dirty>>

(* The directory is renamed away, comes back, or has its mode changed. *)
ChangeDirectory(from, to) ==
    /\ dirstat = from
    /\ dirstat' = to
    /\ dirty' = TRUE /\ Notified
    /\ UNCHANGED <<disk, dir>>

FileSystem ==
    \/ \E l \in Leaf : Create(l) \/ Delete(l) \/ Replace(l) \/ WriteInPlace(l)
    \/ ChangeDirectory("ok", "gone") \/ ChangeDirectory("gone", "ok")
    \/ ChangeDirectory("ok", "noread") \/ ChangeDirectory("noread", "ok")

--------------------
(* The main loop's own sources. *)

MonitorEvent ==
    /\ event
    /\ event' = FALSE
    /\ dir' = RescanSoon(dir)
    /\ UNCHANGED <<disk, dirstat, dirty>>

RescanTimeout(next) ==
    /\ dir.timer
    /\ LET d == IF ~dir.scanning /\ dir.needsUpdate THEN Rescan(dir, next) ELSE dir
       IN  dir' = [d EXCEPT !.timer = d.scanning]
    /\ UNCHANGED <<disk, dirstat, dirty, event>>

NotifyTimeout ==
    /\ dir.notify
    /\ dir' = [MergeNew(dir) EXCEPT !.notify = FALSE]
    /\ UNCHANGED <<disk, dirstat, dirty, event>>

(* Mutant: needs_update is not looked at when the scan ends. *)
RecheckCallbackForgets(next) ==
    /\ dir.idle
    /\ dir' = RecheckOne(dir, next)
    /\ UNCHANGED <<disk, dirstat, dirty, event>>

RecheckCallback(next) ==
    /\ dir.idle
    /\ LET d == RecheckOne(dir, next)
       IN  dir' = IF ~d.scanning /\ d.needsUpdate THEN Rescan(d, next) ELSE d
    /\ UNCHANGED <<disk, dirstat, dirty, event>>

(* filer_close_recursive, queued by dir_rescan. *)
CloseRecursive(next) ==
    /\ dir.closing
    /\ dir' = [Destroy(dir, dir.users, next) EXCEPT !.closing = FALSE]
    /\ event' = FALSE
    /\ UNCHANGED <<disk, dirstat, dirty>>

MainLoop ==
    \/ MonitorEvent \/ NotifyTimeout
    \/ \E next \in Leaf : RescanTimeout(next) \/ RecheckCallback(next) \/ CloseRecursive(next)

--------------------
(* The user and the rest of the filer. *)

(* g_fscache_lookup on the directory: load it, or update it if its stat    *)
(* has changed.                                                            *)
Lookup(d, next) ==
    IF ~d.loaded THEN [d EXCEPT !.loaded = TRUE]
    ELSE IF dirty THEN Update(d, next) ELSE d

(* filer_opendir, and filer_change_to for a window that was elsewhere. *)
OpenDir(w, next) ==
    /\ w \notin dir.users /\ dirstat # "gone"
    /\ dir' = Attach(Lookup(dir, next), w, next)
    /\ dirty' = FALSE
    /\ UNCHANGED <<disk, dirstat, event>>

(* The window is destroyed or shows another directory. *)
CloseWindow(w, next) ==
    /\ w \in dir.users
    /\ dir' = Destroy(dir, {w}, next)
    /\ event' = (event /\ dir.users # {w})
    /\ UNCHANGED <<disk, dirstat, dirty>>

(* display_set_hidden: filer_detach_rescan with the flag changed ... *)
SetHidden(w, next) ==
    /\ w \in dir.users
    /\ LET d == [dir EXCEPT !.showHidden[w] = ~@]
       IN  dir' = Attach(Detach(d, {w}, next), w, next)
    /\ event' = (event /\ dir.users # {w})
    /\ UNCHANGED <<disk, dirstat, dirty>>

(* ... and the toolbar's Dirs button, which shows only directories or only *)
(* files.                                                                  *)
SetTypes(w, next) ==
    /\ w \in dir.users
    /\ \E only \in (TypeFilters \cup {"all"}) \ {dir.only[w]} :
         dir' = Attach(Detach([dir EXCEPT !.only[w] = only], {w}, next), w, next)
    /\ event' = (event /\ dir.users # {w})
    /\ UNCHANGED <<disk, dirstat, dirty>>

(* filer_update_dir: look the directory up afresh, then update it. *)
UpdateDir(w, warning, next) ==
    /\ w \in dir.users
    /\ IF dirstat = "gone"
       THEN /\ dir' = IF warning THEN dir ELSE Destroy(dir, {w}, next)
            /\ event' = (event /\ dir'.users # {})
            /\ UNCHANGED dirty
       ELSE /\ dir' = Update(Lookup(dir, next), next)
            /\ dirty' = FALSE
            /\ UNCHANGED event
    /\ UNCHANGED <<disk, dirstat>>

(* refresh_dirs: g_fscache_update on a directory that is in the cache. *)
RefreshDirs(next) ==
    /\ dir.loaded /\ dirstat # "gone"
    /\ dir' = Update(dir, next)
    /\ dirty' = FALSE
    /\ UNCHANGED <<disk, dirstat, event>>

(* Bound: a report that makes an object leaves one more for the next scan. *)
HasRoom(l) == l \in NamesOf(dir.known) \/ Cardinality(FreeItems(dir, l)) > 1

(* dir_check_this: an action child, a menu or a SOAP call reports one file.*)
CheckThis(l) ==
    /\ dir.loaded /\ dirstat # "gone"
    /\ HasRoom(l)
    /\ dir' = InsertItem(dir, l)
    /\ UNCHANGED <<disk, dirstat, dirty, event>>

(* dir_update_item: the user clicked on a name a window displays. *)
UpdateItem(l) ==
    /\ \E w \in dir.users : l \in NamesOf(InView(dir, w))
    /\ HasRoom(l)
    /\ dir' = MergeNew(InsertItem(dir, l))
    /\ UNCHANGED <<disk, dirstat, dirty, event>>

(* dir_force_update_path: a thumbnail is ready, redraw the item. *)
ForceUpdate(l) ==
    /\ dir.loaded /\ dirstat # "gone"
    /\ dir' = [dir EXCEPT !.view =
                 Tell(dir, dir.users, {}, {i \in dir.known : NameOf(i) = l}, {})]
    /\ UNCHANGED <<disk, dirstat, dirty, event>>

User ==
    \/ \E w \in Window, next \in Leaf :
          \/ OpenDir(w, next) \/ CloseWindow(w, next) \/ SetHidden(w, next)
          \/ SetTypes(w, next)
          \/ \E warning \in BOOLEAN : UpdateDir(w, warning, next)
    \/ \E next \in Leaf : RefreshDirs(next)
    \/ \E l \in Reported : CheckThis(l) \/ UpdateItem(l) \/ ForceUpdate(l)

Init ==
    /\ disk \in [Leaf -> Details \cup {Absent}]
    /\ dirstat = "ok"
    /\ dirty = FALSE
    /\ event = FALSE
    /\ dir = NewDirectory

Next == FileSystem \/ MainLoop \/ User

Spec == Init /\ [][Next]_vars

(* GTK runs every source that is ready sooner or later: weak fairness of   *)
(* each source, with the condition under which it can change the state     *)
(* written out (a rescan timeout during a scan only re-arms itself).       *)
Fairness ==
    /\ []<>~event \/ []<><<MonitorEvent>>_vars
    /\ []<>~dir.notify \/ []<><<NotifyTimeout>>_vars
    /\ []<>~(dir.timer /\ ~dir.scanning) \/ []<><<\E next \in Leaf : RescanTimeout(next)>>_vars
    /\ []<>~dir.idle \/ []<><<\E next \in Leaf : RecheckCallback(next)>>_vars
    /\ []<>~dir.closing \/ []<><<\E next \in Leaf : CloseRecursive(next)>>_vars

FairSpec == Spec /\ Fairness

--------------------
(* Correctness. *)

(* Every variable has its type. *)
TypeOK ==
    /\ disk \in [Leaf -> Details \cup {Absent}]
    /\ dirstat \in {"ok", "gone", "noread"}
    /\ dirty \in BOOLEAN
    /\ event \in BOOLEAN
    /\ dir \in DirectoryType

(* The scan runs exactly while there is a name to recheck and a window that*)
(* wants to know, and then the idle callback is installed: recheck_callback*)
(* never finds an empty list, and a window that attaches to, leaves or     *)
(* re-attaches to a directory in mid-scan neither strands the list nor     *)
(* leaves a callback behind (set_idle_callback, dir_attach, dir_detach).   *)
ScanRuns ==
    /\ dir.scanning <=> (dir.recheck # {} /\ dir.users # {})
    /\ dir.idle <=> dir.scanning

(* A window's scanning indicator says what the directory is doing, whether *)
(* the scan began before it attached, in the attach or after it.           *)
IndicatorRight == \A w \in dir.users : dir.busy[w] <=> dir.scanning

(* Items that wait to be announced have the notify timeout to announce     *)
(* them, whichever way the scan that found them ended.                     *)
PendingNotified == dir.new \cup dir.up \cup dir.gone # {} => dir.notify

(* dir.h, needs_update: a rescan that is owed to somebody watching is      *)
(* either triggered by the end of the scan or by the rescan timeout.       *)
UpdateOwed == dir.needsUpdate /\ dir.users # {} => dir.scanning \/ dir.timer

(* dir.h, known_items: "What our users know about".  Every known item that *)
(* a window's filter lets through is displayed in that window, unless the  *)
(* window filters by type (see OnlyTheseTypes).                            *)
KnownIsShown ==
    \A w \in dir.users : dir.only[w] = "all" => \A i \in dir.known :
        MatchFilter(dir, w, i) => i \in InView(dir, w)

(* No window, and no list that will be sent to the windows, refers to an   *)
(* item that has been freed.                                               *)
NoDangling ==
    /\ dir.up \subseteq dir.known \cup dir.new \cup dir.gone
    /\ \A w \in dir.users : \A i \in InView(dir, w) : dir.details[i] # Absent \/ i \in dir.gone

(* What a window has drawn of an item is what the Directory holds, unless  *)
(* an update or a removal of it is waiting to be announced.                *)
DrawnOrPending ==
    \A w \in dir.users : \A i \in InView(dir, w) \cap dir.known :
        dir.view[w][i] = dir.details[i] \/ i \in dir.up

(* Nothing that would change the display is waiting in the main loop. *)
Quiescent ==
    /\ dir.users # {} /\ dirstat = "ok" /\ dir.error = "none"
    /\ ~dir.scanning /\ ~dir.timer /\ ~dir.notify /\ ~dir.closing /\ ~event

(* ... and no change went unnoticed since the names were last read. *)
Settled == Quiescent /\ ~dir.missed

(* Once the main loop is idle, the Directory has the names on the disk ... *)
SettledNames == Settled => NamesOf(dir.known) = OnDisk

(* What is shown or about to be is what is known, and what is known, once  *)
(* there is nothing left to do, is what is there.                           *)
NamesRight == DrawnOrPending /\ SettledNames

FreshIn(w) ==
    /\ NamesOf(InView(dir, w)) = {l \in OnDisk : Shown(dir, w, l, disk[l])}
    /\ \A i \in InView(dir, w) : dir.view[w][i] = disk[NameOf(i)]

(* ... and every window that does not filter by type displays exactly the  *)
(* files its filter lets through, with the details they have on the disk.  *)
SettledDisplay == Settled => \A w \in dir.users : dir.only[w] = "all" => FreshIn(w)

(* The same for the windows that do: "Show dirs only", "Show files only"   *)
(* (Manual, toolbar; toolbar.c).                                           *)
OnlyTheseTypes == Settled => \A w \in dir.users : dir.only[w] # "all" => FreshIn(w)

(* The same without the exception for changes that went unnoticed: the     *)
(* dir_cache "will automatically trigger a rescan if needed" and whoever is*)
(* attached gets "notified when the Directory changes" (dir.c, top).       *)
NothingUnnoticed == Quiescent => \A w \in dir.users : dir.only[w] = "all" => FreshIn(w)

(* Once the file system, the windows and their filters stay as they are,   *)
(* every window that does not filter by type comes to display the directory*)
(* as it is and goes on doing so, however often it is refreshed.           *)
Converges ==
    <>[][FALSE]_<<disk, dirstat, dir.users, dir.showHidden, dir.only>>
        => <>[](dirstat = "ok" /\ ~dir.missed =>
                   \A w \in dir.users : dir.only[w] = "all" => FreshIn(w))

(* With close_dir_when_missing, windows onto a directory that has gone are *)
(* closed.                                                                 *)
MissingIsClosed ==
    CloseWhenMissing => (<>[](dirstat = "gone" /\ ~dir.missed) => <>[](dir.users = {}))
=============================================================================

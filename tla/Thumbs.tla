------------------------------- MODULE Thumbs -------------------------------
(***************************************************************************)
(* Thumbnails: the queue each filer window keeps (filer.c), the cache of   *)
(* images (fscache.c holding what pixmaps.c puts in it), the children that *)
(* make thumbnails and the files in ~/.thumbnails they leave behind.       *)
(*                                                                         *)
(* A window works through its queue in a chain: an idle callback takes the *)
(* first path, pixmap_background_thumb answers at once or when a child     *)
(* dies, and the answer adds the next idle callback.  Nothing ties a chain *)
(* to the queue it was started for: cancelling empties the queue and hides *)
(* the bar, and the next scan may start another chain beside the first.    *)
(*                                                                         *)
(* A file is its version (0 when it is not there), which stands for what   *)
(* UPTODATE compares; an image is the version it was made from, 0 for NULL.*)
(***************************************************************************)
EXTENDS Naturals, Sequences, FiniteSets, SequencesExt

CONSTANTS
    Window, Image, Dir,
    DirOf,        \* the directory each image is in
    NoProgram,    \* the images whose type nothing can make a thumbnail of
    Order,        \* the images in the order the views list them
    MaxVersion,   \* bound: versions of a file
    MaxKids,      \* children the system allows; fork fails beyond them
    MaxMoves,     \* bound: what the user does to the windows
    MaxEvents     \* bound: changes of files and purges

ASSUME ThumbsAssumption ==
    /\ DirOf \in [Image -> Dir]
    /\ NoProgram \subseteq Image
    /\ Order \in Seq(Image) /\ Range(Order) = Image
    /\ MaxVersion \in Nat /\ MaxKids \in Nat /\ MaxMoves \in Nat /\ MaxEvents \in Nat

VARIABLES
    file,    \* the version of each image that is on the disk
    seen,    \* the version the Directory has told its users of
    scan,    \* what each Directory is doing: unread, scanning or known
    thumb,   \* the file in ~/.thumbnails for each image
    cache,   \* pixmap_cache
    win,     \* the FilerWindow objects
    idle,    \* the idle callbacks of filer_next_thumb_real
    refs,    \* the references the chains hold on a window
    kids,    \* the ChildThumbnail of each child
    moves, events

thumbVars == <<file, seen, scan, thumb, cache, win, idle, refs, kids, moves, events>>

Version == 0..MaxVersion
Pid     == 1..MaxKids
NoThumb == [of |-> 0, stamp |-> 0]
NoEntry == [known |-> FALSE, stamp |-> 0, image |-> 0, leaked |-> FALSE]
NoKid   == [path |-> Order[1], win |-> 0, version |-> 0, got |-> 0, state |-> "none", lost |-> FALSE]
Nothing == [p \in Image |-> 0]
Closed  == [open |-> FALSE, dir |-> DirOf[Order[1]], thumbs |-> FALSE, bar |-> FALSE,
            queue |-> <<>>, shown |-> Nothing]

--------------------
(* pixmap_cache. *)

(* A look-up that takes only what is up to date (FSCACHE_LOOKUP_ONLY_NEW). *)
Found(c, p) == file[p] # 0 /\ c[p].known /\ c[p].stamp = file[p]

(* g_fscache_insert with update_details: the entry is made or taken over,  *)
(* and records what the file is now.                                       *)
InsertNew(c, p, image, leaked) ==
    IF file[p] = 0 THEN c
    ELSE [c EXCEPT ![p] = [known |-> TRUE, stamp |-> file[p], image |-> image,
                           leaked |-> leaked]]

(* g_fscache_insert without it: only into an entry that is there, which    *)
(* keeps the times it has.                                                 *)
InsertOld(c, p, image) ==
    IF file[p] = 0 \/ ~c[p].known THEN c
    ELSE [c EXCEPT ![p].image = image, ![p].leaked = FALSE]

(* A purge keeps an image that something else holds: a view that shows it, *)
(* or a reference nobody gives back.                                       *)
InUse(p) == cache[p].image # 0
            /\ (cache[p].leaked \/ \E w \in Window : win[w].open
                                      /\ win[w].shown[p] = cache[p].image)

(* get_thumbnail_for: the thumbnail names the time of the file it was made *)
(* from, but one made of a file changed in the last few seconds will do.   *)
Usable(t, p, young) == /\ t[p].of # 0 /\ file[p] # 0
                       /\ t[p].stamp = file[p] \/ young

--------------------
(* The windows. *)

Scanning(w) == scan[win[w].dir] # "known"

(* What display_update_view puts in a ViewItem. *)
Drawn(c, w, p) == IF w.thumbs /\ DirOf[p] = w.dir /\ Found(c, p) THEN c[p].image ELSE 0

(* The items of S are drawn again, those that are gone are taken away. *)
Redrawn(c, w, sn, S) == [w EXCEPT !.shown =
    [p \in Image |-> IF p \notin S THEN @[p]
                     ELSE IF sn[p] = 0 THEN 0 ELSE Drawn(c, w, p)]]

(* Mutant: only the windows that are waiting for thumbnails are told. *)
ForceUpdateWaiting(ws, c, p) ==
    IF seen[p] = 0 THEN ws
    ELSE [w \in Window |-> IF ws[w].bar /\ ws[w].dir = DirOf[p]
                           THEN [ws[w] EXCEPT !.shown[p] = Drawn(c, ws[w], p)]
                           ELSE ws[w]]

(* dir_force_update_path: every window that shows the directory draws the  *)
(* item again, if the Directory knows it.                                  *)
ForceUpdate(ws, c, p) ==
    IF seen[p] = 0 THEN ws
    ELSE [w \in Window |-> IF ws[w].open /\ ws[w].dir = DirOf[p]
                           THEN [ws[w] EXCEPT !.shown[p] = Drawn(c, ws[w], p)]
                           ELSE ws[w]]

(* filer_create_thumbs: what is not in the cache joins the queue. *)
Wanted(c, w, sn) == SelectSeq(Order,
    LAMBDA p : DirOf[p] = w.dir /\ sn[p] # 0 /\ ~Found(c, p) /\ ~Contains(w.queue, p))

CreateThumbs(c, w, sn) ==
    IF w.thumbs THEN [w EXCEPT !.queue = @ \o Wanted(c, w, sn)] ELSE w

(* filer_cancel_thumbnails. *)
Cancelled(w) == [w EXCEPT !.bar = FALSE, !.queue = <<>>]

(* start_thumb_scanning, for each window of S whose queue is not empty. *)
Starts(ws, w) == ws[w].queue # <<>> /\ ~ws[w].bar

StartThumbs(ws, S) ==
    LET T == {w \in S : Starts(ws, w)} IN
    /\ win'  = [w \in Window |-> IF w \in T THEN [ws[w] EXCEPT !.bar = TRUE] ELSE ws[w]]
    /\ idle' = [w \in Window |-> IF w \in T THEN idle[w] + 1 ELSE idle[w]]
    /\ refs' = [w \in Window |-> IF w \in T THEN refs[w] + 1 ELSE refs[w]]

(* dir_attach: DIR_ADD for what the Directory knows, and DIR_END_SCAN when *)
(* it is not scanning.                                                     *)
Attached(w) ==
    LET v == Redrawn(cache, [w EXCEPT !.shown = Nothing], seen, Image)
    IN IF scan[w.dir] = "known" THEN CreateThumbs(cache, v, seen) ELSE v

--------------------
(* What the user does to the windows. *)

UserMoved == moves < MaxMoves /\ moves' = moves + 1
NoCacheChange == UNCHANGED <<cache, kids, thumb, events>>
NoDiskChange  == UNCHANGED <<file, seen, scan>>

(* filer_opendir; a window that is closed and whose GtkWindow is still     *)
(* held by a chain is not the window that is opened.                       *)
OpenWindow(w, d) ==
    /\ UserMoved /\ ~win[w].open /\ refs[w] = 0
    /\ \E thumbs \in BOOLEAN :
         StartThumbs([win EXCEPT ![w] = Attached([Closed EXCEPT !.open = TRUE, !.dir = d,
                                                               !.thumbs = thumbs])],
                     IF scan[d] = "known" THEN {w} ELSE {})
    /\ NoCacheChange /\ NoDiskChange

(* filer_window_destroyed. *)
CloseWindow(w) ==
    /\ UserMoved /\ win[w].open
    /\ win' = [win EXCEPT ![w] = Closed]
    /\ UNCHANGED <<idle, refs>> /\ NoCacheChange /\ NoDiskChange

(* filer_change_to. *)
ChangeTo(w, d) ==
    /\ UserMoved /\ win[w].open
    /\ StartThumbs([win EXCEPT ![w] = Attached([Cancelled(@) EXCEPT !.dir = d])],
                   IF scan[d] = "known" THEN {w} ELSE {})
    /\ NoCacheChange /\ NoDiskChange

(* display_set_thumbs. *)
SetThumbs(w) ==
    /\ UserMoved /\ win[w].open
    /\ LET v == Redrawn(cache, [win[w] EXCEPT !.thumbs = ~@], seen, Image)
           u == IF v.thumbs THEN CreateThumbs(cache, v, seen) ELSE Cancelled(v)
       IN StartThumbs([win EXCEPT ![w] = u], IF Scanning(w) THEN {} ELSE {w})
    /\ NoCacheChange /\ NoDiskChange

(* The Cancel button of the bar. *)
CancelThumbs(w) ==
    /\ UserMoved /\ win[w].open /\ win[w].bar
    /\ win' = [win EXCEPT ![w] = Cancelled(@)]
    /\ UNCHANGED <<idle, refs>> /\ NoCacheChange /\ NoDiskChange

--------------------
(* The disk, the Directories and the purges. *)

Event == events < MaxEvents /\ events' = events + 1

(* The entries of S are gone, so nothing marks what a child is making. *)
Forgotten(S) ==
    /\ cache' = [p \in Image |-> IF p \in S THEN NoEntry ELSE cache[p]]
    /\ kids'  = [i \in Pid |-> IF kids[i].path \in S /\ kids[i].state # "none"
                              THEN [kids[i] EXCEPT !.lost = TRUE] ELSE kids[i]]

(* Another program writes an image, puts another file in its place or      *)
(* deletes it.  The entry of another inode is not this path's any more (an *)
(* inode number that is used again is as good as a write in place).        *)
Change(p) ==
    /\ Event /\ file[p] # 0
    /\ \E v \in {0, file[p] + 1} \cap Version : file' = [file EXCEPT ![p] = v]
    /\ Forgotten({p}) \/ UNCHANGED <<cache, kids>>
    /\ UNCHANGED <<seen, scan, thumb, win, idle, refs, moves>>

(* A thumbnail is deleted: the button that purges the disk cache starts a  *)
(* delete action on all of them.                                           *)
DeleteThumb(p) ==
    /\ Event /\ thumb[p].of # 0
    /\ thumb' = [thumb EXCEPT ![p] = NoThumb]
    /\ UNCHANGED <<cache, win, idle, refs, kids, moves>> /\ NoDiskChange

(* A Directory that somebody looks at is scanned again. *)
StartScan(d) ==
    /\ scan[d] = "known" /\ \E w \in Window : win[w].open /\ win[w].dir = d
    /\ \E p \in Image : DirOf[p] = d /\ seen[p] # file[p]
    /\ scan' = [scan EXCEPT ![d] = "scanning"]
    /\ UNCHANGED <<file, seen, win, idle, refs, moves>> /\ NoCacheChange

(* The scan ends: the windows are told of what has changed, and then with  *)
(* DIR_END_SCAN they look for thumbnails to make.                          *)
EndScan(d) ==
    LET news  == {p \in Image : DirOf[p] = d /\ seen[p] # file[p]}
        now   == [p \in Image |-> IF DirOf[p] = d THEN file[p] ELSE seen[p]]
        users == {w \in Window : win[w].open /\ win[w].dir = d}
    IN /\ scan[d] = "scanning" /\ users # {}
       /\ scan' = [scan EXCEPT ![d] = "known"]
       /\ seen' = now
       /\ StartThumbs([w \in Window |->
             IF w \in users THEN CreateThumbs(cache, Redrawn(cache, win[w], now, news), now)
             ELSE win[w]], users)
       /\ UNCHANGED <<file, moves>> /\ NoCacheChange

(* g_fscache_purge, by the timer or by the button: which entries are old   *)
(* enough to go is left open.                                              *)
Purge ==
    /\ Event
    /\ \E S \in SUBSET {p \in Image : cache[p].known /\ ~InUse(p)} :
         S # {} /\ Forgotten(S)
    /\ UNCHANGED <<thumb, win, idle, refs, moves>> /\ NoDiskChange

--------------------
(* filer_next_thumb_real and pixmap_background_thumb. *)

Free == {i \in Pid : kids[i].state = "none"}

(* Mutant: the reference is not given back. *)
NextGoneKept(w) ==
    /\ idle[w] > 0 /\ ~win[w].open
    /\ idle' = [idle EXCEPT ![w] = @ - 1]
    /\ UNCHANGED <<win, refs, moves>> /\ NoCacheChange /\ NoDiskChange

(* The window is gone: the chain ends. *)
NextGone(w) ==
    /\ idle[w] > 0 /\ ~win[w].open
    /\ idle' = [idle EXCEPT ![w] = @ - 1]
    /\ refs' = [refs EXCEPT ![w] = @ - 1]
    /\ UNCHANGED <<win, moves>> /\ NoCacheChange /\ NoDiskChange

(* The queue is empty: the chain ends and hides the bar. *)
NextNone(w) ==
    /\ idle[w] > 0 /\ win[w].open /\ win[w].queue = <<>>
    /\ win'  = [win EXCEPT ![w] = Cancelled(@)]
    /\ idle' = [idle EXCEPT ![w] = @ - 1]
    /\ refs' = [refs EXCEPT ![w] = @ - 1]
    /\ UNCHANGED moves /\ NoCacheChange /\ NoDiskChange

(* The first path of the queue, which is then taken from it. *)
Head1(w)  == Head(win[w].queue)
Taken(w)  == [win EXCEPT ![w].queue = Tail(@)]
HasNext(w) == idle[w] > 0 /\ win[w].open /\ win[w].queue # <<>>

(* There is an image, in memory or in ~/.thumbnails: it is shown.  The     *)
(* reference pixmap_try_thumb returns is not given back.                   *)
NextLoaded(w) ==
    /\ HasNext(w)
    /\ \E p \in Image, young \in BOOLEAN :
        LET inMemory == Found(cache, p) /\ cache[p].image # 0 IN
        /\ p = Head1(w)
        /\ inMemory \/ Usable(thumb, p, young)
        /\ cache' = IF inMemory THEN [cache EXCEPT ![p].leaked = TRUE]
                                ELSE InsertNew(cache, p, thumb[p].of, TRUE)
        /\ win' = ForceUpdate(Taken(w), cache', p)
    /\ UNCHANGED <<idle, refs, kids, thumb, events, moves>> /\ NoDiskChange

(* There is none: NULL is put in the cache, so that nobody else tries, and *)
(* a child is forked; or the image is being made already, or cannot be.    *)
NextMissing(w) ==
    /\ HasNext(w)
    /\ \E p \in Image :
       LET known == Found(cache, p)
           forks == ~known /\ p \notin NoProgram /\ Free # {}
       IN /\ p = Head1(w)
          /\ ~(known /\ cache[p].image # 0) /\ ~Usable(thumb, p, FALSE)
          /\ cache' = IF known THEN cache ELSE InsertNew(cache, p, 0, FALSE)
          /\ kids' = IF forks
                     THEN [kids EXCEPT ![CHOOSE i \in Free : \A j \in Free : i <= j] =
                             [path |-> p, win |-> w, version |-> file[p], got |-> 0,
                              state |-> "forked", lost |-> FALSE]]
                     ELSE kids
          /\ idle' = IF forks THEN [idle EXCEPT ![w] = @ - 1] ELSE idle
          /\ win' = Taken(w)
    /\ UNCHANGED <<refs, thumb, events, moves>> /\ NoDiskChange

--------------------
(* The children. *)

(* child_create_thumbnail loads the image; or cannot, or the child dies    *)
(* before it has saved anything, which is the same to everybody else.      *)
ChildLoads(i) ==
    /\ kids[i].state = "forked"
    /\ \E got \in {0, file[kids[i].path]} :
         kids' = [kids EXCEPT ![i].got = got, ![i].state = IF got = 0 THEN "dead" ELSE "loaded"]
    /\ UNCHANGED <<file, seen, scan, thumb, cache, win, idle, refs, moves, events>>

(* save_thumbnail: the time that is written is the one the file has now. *)
ChildSaves(i) ==
    LET p == kids[i].path IN
    /\ kids[i].state = "loaded"
    /\ thumb' = IF file[p] = 0 THEN thumb
                ELSE [thumb EXCEPT ![p] = [of |-> kids[i].got, stamp |-> file[p]]]
    /\ kids' = [kids EXCEPT ![i].state = "dead"]
    /\ UNCHANGED <<file, seen, scan, cache, win, idle, refs, moves, events>>

(* Mutant: without a thumbnail nobody is called back. *)
ChildDoneSilently(i) ==
    LET p == kids[i].path
        w == kids[i].win
    IN /\ kids[i].state = "dead"
       /\ IF Usable(thumb, p, FALSE)
          THEN /\ cache' = InsertOld(cache, p, thumb[p].of)
               /\ win' = ForceUpdate(win, cache', p)
               /\ idle' = [idle EXCEPT ![w] = @ + 1]
          ELSE UNCHANGED <<cache, win, idle>>
       /\ kids' = [kids EXCEPT ![i] = NoKid]
       /\ UNCHANGED <<file, seen, scan, thumb, refs, moves, events>>

(* thumbnail_child_done, and the callback filer_next_thumb in it: the item *)
(* is drawn again if there is a thumbnail, and the chain goes on.          *)
ChildDone(i) ==
    LET p == kids[i].path
        w == kids[i].win
    IN /\ kids[i].state = "dead"
       /\ \E young \in BOOLEAN :
            IF Usable(thumb, p, young)
            THEN /\ cache' = InsertOld(cache, p, thumb[p].of)
                 /\ win' = ForceUpdate(win, cache', p)
            ELSE UNCHANGED <<cache, win>>
       /\ idle' = [idle EXCEPT ![w] = @ + 1]
       /\ kids' = [kids EXCEPT ![i] = NoKid]
       /\ UNCHANGED <<file, seen, scan, thumb, refs, moves, events>>
--------------------
ThumbInit ==
    /\ file \in [Image -> {0, 1}]
    /\ seen = Nothing
    /\ scan = [d \in Dir |-> "scanning"]
    /\ thumb = [p \in Image |-> NoThumb]
    /\ cache = [p \in Image |-> NoEntry]
    /\ win = [w \in Window |-> Closed]
    /\ idle = [w \in Window |-> 0]
    /\ refs = [w \in Window |-> 0]
    /\ kids = [i \in Pid |-> NoKid]
    /\ moves = 0 /\ events = 0

Filer ==
    \/ \E w \in Window : NextGone(w) \/ NextNone(w) \/ NextLoaded(w) \/ NextMissing(w)
    \/ \E d \in Dir : EndScan(d) \/ StartScan(d)
    \/ \E i \in Pid : ChildDone(i)

UserOfWindow ==
    \/ \E w \in Window : CloseWindow(w) \/ SetThumbs(w) \/ CancelThumbs(w)
    \/ \E w \in Window, d \in Dir : OpenWindow(w, d) \/ ChangeTo(w, d)

Children == \E i \in Pid : ChildLoads(i) \/ ChildSaves(i)

Others == Purge \/ \E p \in Image : Change(p) \/ DeleteThumb(p)

ThumbNext == Filer \/ UserOfWindow \/ Children \/ Others

(* The main loop serves every idle callback and every dead child, and a    *)
(* child does not work on one image for ever.  Nothing is promised of the  *)
(* user or of the disk.                                                    *)
ThumbFairness ==
    /\ \A w \in Window : WF_thumbVars(NextGone(w) \/ NextNone(w) \/ NextLoaded(w) \/ NextMissing(w))
    /\ \A d \in Dir : WF_thumbVars(EndScan(d))
    /\ \A i \in Pid : WF_thumbVars(ChildLoads(i) \/ ChildSaves(i) \/ ChildDone(i))

ThumbSpec == ThumbInit /\ [][ThumbNext]_thumbVars /\ ThumbFairness

--------------------
(* Properties. *)

ChildrenOf(w) == {i \in Pid : kids[i].state # "none" /\ kids[i].win = w}

(* The bar stands for "already scanning": start_thumb_scanning does nothing*)
(* while it is visible.  So while it is there a chain must be alive to take*)
(* it away, however many chains have been started and cancelled; and a     *)
(* queue that nobody will start at the end of a scan has its bar.  Each    *)
(* chain holds exactly one reference on its window, from the start of it to*)
(* its end, through children that outlive the window.                      *)
QueueServed == \A w \in Window :
    /\ win[w].open /\ win[w].bar => idle[w] > 0 \/ ChildrenOf(w) # {}
    /\ win[w].open /\ win[w].queue # <<>> /\ ~Scanning(w) => win[w].bar
    /\ refs[w] = idle[w] + Cardinality(ChildrenOf(w))

(* "Add an entry, set to NULL, so no-one else tries to load this image":   *)
(* two children work on the same version of an image only if the cache was *)
(* purged in between, or the file was put in another's place.              *)
OneChild == \A i, j \in Pid :
    /\ i # j /\ kids[i].state # "none" /\ kids[j].state # "none"
    /\ kids[i].path = kids[j].path /\ kids[i].version = kids[j].version
    /\ kids[i].version # 0
    => kids[i].lost \/ kids[j].lost

(* What one window has loaded every window shows: an image that is in the  *)
(* cache for the file as the Directory knows it is drawn wherever the file *)
(* is listed, whichever window asked for it and even if that one is gone.  *)
EveryWindowShows == \A w \in Window, p \in Image :
    /\ win[w].open /\ win[w].thumbs /\ win[w].dir = DirOf[p] /\ ~Scanning(w)
    /\ seen[p] # 0 /\ Found(cache, p) /\ cache[p].image # 0
    => win[w].shown[p] = cache[p].image

(* An image is loaded once, and for all. *)
ImagesShared == OneChild /\ EveryWindowShows

(* The queues are served, and what is loaded for one window is for all. *)
ThumbsRight == QueueServed /\ ImagesShared

(* A chain comes to an end whatever becomes of its window, its children and*)
(* the files: the paths in the queue have been tried, the bar is gone (by  *)
(* QueueServed) and the GtkWindow, which may have been closed long ago, can*)
(* be freed.                                                               *)
ChainsEnd == \A w \in Window : (refs[w] > 0) ~> (refs[w] = 0)
=============================================================================

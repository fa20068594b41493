------------------------------ MODULE Mounts ------------------------------
(* Mount points that the user mounts through the filer (mount.c), the offer *)
(* to unmount them when their last window is left, and what is remembered   *)
(* of the answers (filer.c).  Other programs mount and unmount too, the     *)
(* actions run in processes of their own, and the filer may be killed.      *)
EXTENDS Naturals, FiniteSets

CONSTANTS Mount,         \* mount points
          ShownDir,      \* directories that windows show, those among them
          Above,         \* the directories above each, from itself to the root
          Parent,        \* the one directly above
          Win, Job,      \* bounds: filer windows, action windows
          Way,           \* ways of unmounting: "unmount", "eject"
          NoDir,
          MaxOffers,     \* bound: dialogs for a mount point at a time
          MaxMountEvents \* bound: what others do, restarts and failing saves

ASSUME MountAssumption ==
    /\ IsFiniteSet(Mount) /\ IsFiniteSet(Win) /\ IsFiniteSet(Job) /\ MaxOffers \in Nat
    /\ Mount \subseteq ShownDir /\ NoDir \notin ShownDir
    /\ Above \in [ShownDir -> SUBSET ShownDir] /\ Parent \in [ShownDir -> ShownDir]
    /\ \A p \in ShownDir : Parent[p] # p => p \notin Above[Parent[p]]
    /\ Way \cap {"ask", "no change"} = {}

VARIABLES
    mounts,  \* what is mounted, what the filer thinks the user mounted
    wins,    \* the directory of each filer window
    offers,  \* the dialogs for each mount point
    jobs,    \* the action windows
    learnt,  \* the remembered answers, the file of them, and whether it is behind
    filerRun \* whether it runs, its windows counted; events so far

mountVars == <<mounts, wins, offers, jobs, learnt, filerRun>>

Choice == {"ask", "no change"} \cup Way
NoJob  == [does |-> "none", mount |-> NoDir, silent |-> FALSE, phase |-> "none"]
AskAll == [m \in Mount |-> "ask"]

MountInit ==
    /\ mounts = [now |-> {}, mine |-> {}]
    /\ wins = [w \in Win |-> NoDir] /\ offers = [m \in Mount |-> 0] /\ jobs = [j \in Job |-> NoJob]
    /\ learnt = [table |-> AskAll, file |-> AskAll, behind |-> FALSE]
    /\ filerRun = [up |-> FALSE, count |-> 0, events |-> 0]

Under(p, m) == p # NoDir /\ m \in Above[p]
DirExists(p) == Above[p] \cap Mount \subseteq mounts.now \cup {p}

(* A handler works on all of the state. *)
MountsNow == [mounts |-> mounts, wins |-> wins, offers |-> offers, jobs |-> jobs, learnt |-> learnt,
              filerRun |-> filerRun]
MountsBecome(s) ==
    /\ mounts' = s.mounts /\ wins' = s.wins /\ offers' = s.offers
    /\ jobs' = s.jobs /\ learnt' = s.learnt /\ filerRun' = s.filerRun

(* one_less_window: the last one ends the filer. *)
LessWindows(s, n) ==
    IF n = 0 THEN s ELSE [s EXCEPT !.filerRun.count = @ - n, !.filerRun.up = s.filerRun.count - n >= 1]
Destroyed(s, W) ==
    LessWindows([s EXCEPT !.wins = [w \in Win |-> IF w \in W THEN NoDir ELSE @[w]]], Cardinality(W))

--------------------
(* mount_user_mount: after an action, or when the answer is needed. *)
UserMount(s, m) == [s EXCEPT !.mounts.mine = IF m \in s.mounts.now THEN @ \cup {m} ELSE @ \ {m}]
IsUserMounted(s, m) == m \in s.mounts.mine /\ m \in s.mounts.now
Checked(s, M) == [s EXCEPT !.mounts.mine = @ \ (M \ s.mounts.now)]

(* save_learnt_mounts: all answers but "ask"; fopen may fail. *)
SaveLearnt(s, works) ==
    IF works THEN [s EXCEPT !.learnt.file = s.learnt.table, !.learnt.behind = FALSE]
             ELSE [s EXCEPT !.learnt.behind = TRUE]

(* filer_set_unmount_action. *)
SetUnmountAction(s, m, choice, works) == SaveLearnt([s EXCEPT !.learnt.table[m] = choice], works)

(* action_mount and action_eject: another window, if the fork succeeds. *)
Starts(s, j, does, m, silent) ==
    [s EXCEPT !.jobs[j] = [does |-> does, mount |-> m, silent |-> silent, phase |-> "started"], !.filerRun.count = @ + 1]

(* Mutant: the windows on what is mounted further down do not count. *)
MayOfferAtRoot(s, w, m, j) ==
    IF \E v \in Win \ {w} : s.wins[v] = m THEN s
    ELSE CASE s.learnt.table[m] = "ask" -> [s EXCEPT !.offers[m] = @ + 1, !.filerRun.count = @ + 1]
           [] s.learnt.table[m] = "no change" -> s
           [] OTHER -> Starts(s, j, s.learnt.table[m], m, TRUE)

(* may_offer_unmount. *)
MayOffer(s, w, m, j) ==
    IF \E v \in Win \ {w} : Under(s.wins[v], m) THEN s
    ELSE CASE s.learnt.table[m] = "ask" -> [s EXCEPT !.offers[m] = @ + 1, !.filerRun.count = @ + 1]
           [] s.learnt.table[m] = "no change" -> s
           [] OTHER -> Starts(s, j, s.learnt.table[m], m, TRUE)

(* get_ancestor_user_mount_point: the nearest; what is found to be unmounted *)
(* on the way there is forgotten.                                           *)
Mine(s, p) == {m \in Above[p] \cap Mount : IsUserMounted(s, m)}
Nearest(s, p) == {m \in Mine(s, p) : Mine(s, p) \subseteq Above[m]}
Passed(s, p) == {n \in Above[p] \cap Mount : \A m \in Nearest(s, p) : n \notin Above[m]}

(* filer_window_delete, and the window goes. *)
WindowDelete(s, w, j) ==
    LET p == s.wins[w]
        t == Checked(s, Passed(s, p))
        u == IF Nearest(s, p) = {} THEN t ELSE MayOffer(t, w, CHOOSE m \in Nearest(s, p) : TRUE, j)
    IN Destroyed(u, {w})

Free(j) == jobs[j].phase = "none"
Bounded(s) == \A m \in Mount : s.offers[m] <= MaxOffers
Event(s) == [s EXCEPT !.filerRun.events = @ + 1]
MayHappen == filerRun.events < MaxMountEvents

--------------------
(* The filer starts with a window, knowing what it has saved; mounts of an  *)
(* earlier run are not the user's any more (mount_init, load_learnt_mounts).*)
StartFiler(w, p) ==
    /\ ~filerRun.up /\ DirExists(p)
    /\ MountsBecome([MountsNow EXCEPT !.mounts.mine = {}, !.wins = [v \in Win |-> IF v = w THEN p ELSE NoDir],
                                      !.offers = [m \in Mount |-> 0], !.jobs = [j \in Job |-> NoJob],
                                      !.learnt.table = learnt.file, !.learnt.behind = FALSE,
                                      !.filerRun.up = TRUE, !.filerRun.count = 1])
Killed ==
    /\ filerRun.up /\ MayHappen
    /\ MountsBecome([Event(MountsNow) EXCEPT !.wins = [w \in Win |-> NoDir], !.offers = [m \in Mount |-> 0],
                      !.jobs = [j \in Job |-> NoJob], !.filerRun.up = FALSE, !.filerRun.count = 0])

(* filer_opendir, and the ways a window changes directory without an offer. *)
OpenDir(w, p) ==
    /\ filerRun.up /\ DirExists(p)
    /\ IF wins[w] = NoDir
       THEN MountsBecome([MountsNow EXCEPT !.wins[w] = p, !.filerRun.count = @ + 1])
       ELSE MountsBecome([MountsNow EXCEPT !.wins[w] = p])

CloseWindow(w, j) ==
    /\ filerRun.up /\ wins[w] # NoDir /\ Free(j)
    /\ LET s == WindowDelete(MountsNow, w, j) IN Bounded(s) /\ MountsBecome(s)

(* A window whose directory is gone, or another of the same directory when  *)
(* windows are to be unique, is destroyed without any offer.                *)
DestroyWindow(w) ==
    /\ filerRun.up /\ wins[w] # NoDir
    /\ ~DirExists(wins[w]) \/ \E v \in Win \ {w} : wins[v] = wins[w]
    /\ MountsBecome(Destroyed(MountsNow, {w}))

(* change_to_parent, which looks at the mount point itself only. *)
ChangeToParent(w, j) ==
    /\ filerRun.up /\ wins[w] # NoDir /\ Parent[wins[w]] # wins[w] /\ Free(j)
    /\ LET p == wins[w]
           s == IF p \in Mount THEN Checked(MountsNow, {p}) ELSE MountsNow
           t == IF p \in Mount /\ IsUserMounted(s, p) THEN MayOffer(s, w, p, j) ELSE s
       IN Bounded(t) /\ MountsBecome([t EXCEPT !.wins[w] = Parent[p]])

(* unmount_dialog_response: the action first, then the answer is kept. *)
DialogResponse(m, answer, keep, works, j) ==
    /\ filerRun.up /\ offers[m] > 0 /\ Free(j) /\ (~works => keep /\ MayHappen)
    /\ LET s == IF answer = "no change" THEN MountsNow ELSE Starts(MountsNow, j, answer, m, FALSE)
           t == IF keep THEN SetUnmountAction(s, m, answer, works) ELSE s
           u == IF works THEN t ELSE Event(t)
       IN MountsBecome(LessWindows([u EXCEPT !.offers[m] = @ - 1], 1))

(* unmount_option_toggled, in an Info box. *)
OptionToggled(m, choice, works) ==
    /\ filerRun.up /\ learnt.table[m] # choice /\ MayHappen
    /\ MountsBecome(Event(SetUnmountAction(MountsNow, m, choice, works)))

--------------------
(* The user mounts or unmounts: a click on the mount point, or the menu. *)
UserActs(m, does, j) ==
    /\ filerRun.up /\ DirExists(m) /\ Free(j)
    /\ MountsBecome(Starts(MountsNow, j, does, m, FALSE))

(* filer_close_recursive, before an unmount; the command may fail; 'M' tells *)
(* of it unless it failed, but always of an eject.                          *)
CloseBelow(j) ==
    /\ filerRun.up /\ jobs[j].phase = "started"
    /\ MountsBecome(Destroyed([MountsNow EXCEPT !.jobs[j].phase = "safe"],
                              IF jobs[j].does = "mount" THEN {} ELSE {w \in Win : Under(wins[w], jobs[j].mount)}))
CommandRuns(j) ==
    /\ jobs[j].phase = "safe"
    /\ LET m == jobs[j].mount IN
       \/ MountsBecome([MountsNow EXCEPT !.jobs[j].phase = IF jobs[j].does = "eject" THEN "told" ELSE "ending"])
       \/ MountsBecome([MountsNow EXCEPT !.jobs[j].phase = "told",
                            !.mounts.now = IF jobs[j].does = "mount" THEN @ \cup {m}
                                           ELSE {n \in @ : m \notin Above[n]}])
MountMessage(j) ==
    /\ filerRun.up /\ jobs[j].phase = "told"
    /\ LET s == UserMount(MountsNow, jobs[j].mount) IN
       MountsBecome(Destroyed([s EXCEPT !.jobs[j].phase = "ending"],
                              {w \in Win : Under(wins[w], jobs[j].mount) /\ ~DirExists(wins[w])}))
JobEnds(j) ==
    /\ filerRun.up /\ jobs[j].phase \in {"started", "safe", "ending"}        \* or it is closed
    /\ MountsBecome(LessWindows([MountsNow EXCEPT !.jobs[j] = NoJob], 1))

OthersMount(m) ==
    /\ MayHappen /\ DirExists(m)
    /\ MountsBecome(Event([MountsNow EXCEPT !.mounts.now = IF m \in @ THEN {n \in @ : m \notin Above[n]} ELSE @ \cup {m}]))

MountNext ==
    \/ Killed
    \/ \E w \in Win, p \in ShownDir : StartFiler(w, p) \/ OpenDir(w, p)
    \/ \E w \in Win : DestroyWindow(w) \/ \E j \in Job : CloseWindow(w, j) \/ ChangeToParent(w, j)
    \/ \E m \in Mount, j \in Job, works, keep \in BOOLEAN, a \in Choice \ {"ask"} : DialogResponse(m, a, keep, works, j)
    \/ \E m \in Mount, c \in Choice, works \in BOOLEAN : OptionToggled(m, c, works)
    \/ \E m \in Mount, j \in Job, d \in {"mount"} \cup Way : UserActs(m, d, j)
    \/ \E j \in Job : CloseBelow(j) \/ CommandRuns(j) \/ MountMessage(j) \/ JobEnds(j)
    \/ \E m \in Mount : OthersMount(m)

MountSpec == MountInit /\ [][MountNext]_mountVars

--------------------
(* The filer runs as long as a window, an offer or an action is there, and  *)
(* no longer: a count that is given back before the next is taken would end *)
(* it with the offer on the screen (filer.c:687,757, main.c:685).           *)
StaysWhileNeeded ==
    filerRun.up => /\ filerRun.count = Cardinality({w \in Win : wins[w] # NoDir})
                                 + Cardinality({o \in Mount \X (1..MaxOffers) : o[2] <= offers[o[1]]})
                                 + Cardinality({j \in Job : ~Free(j)})
                /\ filerRun.count > 0

(* What the user asked to be done in future is what the next run will find  *)
(* in the file, unless it could not be written (filer.c:3280-3310).         *)
AnswersKept == filerRun.up /\ ~learnt.behind => learnt.file = learnt.table

(* An offer, or an unmount that nobody is asked about, comes only for a file*)
(* system that is mounted and was mounted through the filer, and only when  *)
(* the window that leaves it was the last one there (Manual.html:1022-1026, *)
(* filer.c:581-586).                                                        *)
Comes(m) == \/ offers'[m] > offers[m]
            \/ \E j \in Job : jobs'[j].silent /\ jobs'[j].mount = m /\ Free(j)
OffersAreLast ==
    \A m \in Mount : Comes(m) => /\ m \in mounts.mine \cap mounts.now
                                 /\ \A w \in Win : ~Under(wins'[w], m)

MountsRight == [](StaysWhileNeeded /\ AnswersKept) /\ [][OffersAreLast]_mountVars
===========================================================================

------------------------------ MODULE Infobox ------------------------------
(* The Info boxes (infobox.c).  A box is drawn from what the file is at that *)
(* moment, and drawn again by Refresh and after an edit of the link target. *)
(* While it is shown, du measures a directory and file(1) looks at a file;  *)
(* their output is waited for by sources of the main loop, which have to go *)
(* with the details they write to.  All the boxes here are of one file.     *)
EXTENDS Naturals, FiniteSets

CONSTANTS Box,
          PermBit,      \* the permission bits
          LinkTo,       \* what a link may point to
          TargetKind,   \* the kind of file at each of those
          NoLink,
          MaxOutput,    \* bound: the reads that the output of file(1) takes
          MaxFileSteps, \* bound: the changes made by others
          MaxEdits      \* bound: the edits of a link before the idle callback

ASSUME InfoAssumption ==
    /\ IsFiniteSet(Box) /\ NoLink \notin LinkTo /\ MaxOutput \in Nat
    /\ TargetKind \in [LinkTo -> {"file", "dir", "mounted", "gone"}]

VARIABLES
    subject,  \* the file
    ibox,     \* what each box shows
    du,       \* the du child of each box and its pipe
    says,     \* the file(1) child of each box and its pipe
    held,     \* the sources and descriptors in use, the windows counted
    spoilt    \* a freed widget has been used

infoVars == <<subject, ibox, du, says, held, spoilt>>

Seen == [kind : {"file", "dir", "mounted", "gone"}, mode : SUBSET PermBit, link : LinkTo \cup {NoLink}]

Undrawn == [open |-> FALSE, cell |-> "none", label |-> "none", read |-> 0,
            ticks |-> {}, link |-> NoLink, pending |-> 0]
NoDu   == [watched |-> FALSE, chan |-> FALSE, child |-> "none"]
NoSays == [fd |-> FALSE, child |-> "none", sent |-> 0, output |-> 0]

InfoInit ==
    /\ subject \in {[kind |-> k, mode |-> {}, link |-> NoLink, steps |-> 0] : k \in {"file", "dir", "mounted"}}
                   \cup {[kind |-> TargetKind[t], mode |-> {}, link |-> t, steps |-> 0] : t \in LinkTo}
    /\ ibox = [b \in Box |-> Undrawn] /\ du = [b \in Box |-> NoDu] /\ says = [b \in Box |-> NoSays]
    /\ held = [sources |-> 0, fds |-> 0, windows |-> 0] /\ spoilt = FALSE

(* Another program changes the file. *)
ReplaceFile ==
    /\ subject.steps < MaxFileSteps
    /\ \E v \in Seen :
          /\ v.link # NoLink => v.kind = TargetKind[v.link] /\ v.mode = {}
          /\ v.kind = "gone" => v.mode = {}
          /\ v # [kind |-> subject.kind, mode |-> subject.mode, link |-> subject.link]
          /\ subject' = [kind |-> v.kind, mode |-> v.mode, link |-> v.link, steps |-> subject.steps + 1]
    /\ UNCHANGED <<ibox, du, says, held, spoilt>>

(* A handler on the state of box b. *)
InfoNow(b) == [file |-> subject, box |-> ibox[b], du |-> du[b], says |-> says[b], held |-> held]
InfoBecomes(b, s) ==
    /\ subject' = s.file /\ held' = s.held
    /\ ibox' = [ibox EXCEPT ![b] = s.box] /\ du' = [du EXCEPT ![b] = s.du]
    /\ says' = [says EXCEPT ![b] = s.says]

--------------------
(* make_details: the list, without the rest if lstat failed.  The size of a *)
(* directory is left to du, unless it is that of a mounted file system.     *)
Lost(f) == f.kind = "gone" /\ f.link = NoLink
MakeDetails(s, duWorks) ==
    LET t == [s EXCEPT !.box.link = s.file.link, !.du = NoDu,
                       !.box.cell = IF Lost(s.file) THEN "none" ELSE "known"]
    IN IF s.file.kind # "dir" THEN t
       ELSE IF duWorks
            THEN [t EXCEPT !.box.cell = "scanning", !.du = [watched |-> TRUE, chan |-> TRUE, child |-> "running"],
                           !.held.sources = @ + 1, !.held.fds = @ + 1]
            ELSE [t EXCEPT !.box.cell = "failed"]

(* make_file_says, for a file: fork, a pipe and an input source. *)
MakeFileSays(s, forks, output) ==
    LET t == [s EXCEPT !.box.label = "none", !.box.read = 0, !.says = NoSays]
    IN IF s.file.kind # "file" THEN t
       ELSE IF forks
            THEN [t EXCEPT !.box.label = "reading", !.held.sources = @ + 1, !.held.fds = @ + 1,
                           !.says = [fd |-> TRUE, child |-> "running", sent |-> 0, output |-> output]]
            ELSE [t EXCEPT !.box.label = "failed"]

(* make_permissions, but not for a link. *)
MakePermissions(s) == [s EXCEPT !.box.ticks = IF s.file.link = NoLink THEN s.file.mode ELSE {}]

MakeBox(s, works, output) == MakePermissions(MakeFileSays(MakeDetails(s, works), works, output))

(* Mutant: only a du that has not answered yet is looked after. *)
KillDuIfScanning(s) ==
    IF s.du.watched THEN [s EXCEPT !.held.sources = @ - 1, !.held.fds = @ - 1, !.du = NoDu]
    ELSE [s EXCEPT !.du = NoDu]

(* kill_du_output: the view is destroyed, whether du has ended or not. *)
KillDu(s) ==
    IF ~s.du.chan THEN s
    ELSE [s EXCEPT !.held.sources = IF s.du.watched THEN @ - 1 ELSE @, !.held.fds = @ - 1, !.du = NoDu]

(* file_info_destroyed. *)
FileInfoDestroyed(s) ==
    IF s.says.fd THEN [s EXCEPT !.held.sources = @ - 1, !.held.fds = @ - 1, !.says = NoSays]
    ELSE [s EXCEPT !.says = NoSays]

DestroyDetails(s) == FileInfoDestroyed(KillDu(s))

(* refresh_info. *)
RefreshInfo(s, works, output) == MakeBox(DestroyDetails(s), works, output)

--------------------
(* infobox_new. *)
NewInfobox(b) ==
    /\ ~ibox[b].open /\ ibox[b].pending = 0
    /\ \E works \in BOOLEAN, n \in 0..MaxOutput :
          InfoBecomes(b, MakeBox([InfoNow(b) EXCEPT !.box.open = TRUE, !.held.windows = @ + 1], works, n))
    /\ UNCHANGED spoilt

(* got_response: Refresh, or the box goes. *)
Refresh(b) ==
    /\ ibox[b].open
    /\ \E works \in BOOLEAN, n \in 0..MaxOutput : InfoBecomes(b, RefreshInfo(InfoNow(b), works, n))
    /\ UNCHANGED spoilt
CloseInfobox(b) ==
    /\ ibox[b].open
    /\ LET s == DestroyDetails(InfoNow(b)) IN
       InfoBecomes(b, [s EXCEPT !.box = [Undrawn EXCEPT !.pending = s.box.pending], !.held.windows = @ - 1])
    /\ UNCHANGED spoilt

(* du writes its line and ends, or ends without one. *)
DuEnds(b) ==
    /\ du[b].child = "running"
    /\ \E how \in {"said", "silent"} : du' = [du EXCEPT ![b].child = how]
    /\ UNCHANGED <<subject, ibox, says, held, spoilt>>

(* read_du_output: one line is read, or the end or an error met; whichever  *)
(* it is, the cell says so and the watch has done its work.                 *)
ReadDuOutput(b) ==
    /\ du[b].watched /\ du[b].child # "running"
    /\ \E fails \in BOOLEAN :
          InfoBecomes(b, [InfoNow(b) EXCEPT !.box.cell = IF du[b].child = "said" /\ ~fails THEN "known" ELSE "failed",
                                            !.du.watched = FALSE, !.held.sources = @ - 1])
    /\ UNCHANGED spoilt

(* file(1) writes its text piece by piece and ends. *)
FileWrites(b) ==
    /\ says[b].child = "running"
    /\ \/ says[b].sent < says[b].output /\ says' = [says EXCEPT ![b].sent = @ + 1]
       \/ says[b].sent >= says[b].output /\ says' = [says EXCEPT ![b].child = "ended"]
    /\ UNCHANGED <<subject, ibox, du, held, spoilt>>

(* add_file_output: what has been read so far is the label. *)
AddFileOutput(b) ==
    /\ says[b].fd
    /\ \/ /\ ibox[b].read < says[b].sent
          /\ InfoBecomes(b, [InfoNow(b) EXCEPT !.box.read = @ + 1])
       \/ /\ ibox[b].read = says[b].sent /\ says[b].child = "ended"
          /\ InfoBecomes(b, [InfoNow(b) EXCEPT !.box.label = "whole", !.says.fd = FALSE,
                                               !.held.sources = @ - 1, !.held.fds = @ - 1])
       \/ InfoBecomes(b, [InfoNow(b) EXCEPT !.box.label = "failed", !.says.fd = FALSE,     \* read error
                                            !.held.sources = @ - 1, !.held.fds = @ - 1])
    /\ UNCHANGED spoilt

--------------------
(* permissions_apply: all the bits are set, as the ticks say. *)
PermissionsApply(b, t) ==
    /\ ibox[b].open /\ ibox[b].link = NoLink
    /\ LET ticks == IF t \in ibox[b].ticks THEN ibox[b].ticks \ {t} ELSE ibox[b].ticks \cup {t}
           s     == [InfoNow(b) EXCEPT !.box.ticks = ticks]
       IN \/ InfoBecomes(b, s)                                    \* chmod fails, with a message
          \/ /\ subject.kind # "gone"                             \* (of a link: of what it points to)
             /\ InfoBecomes(b, IF subject.link = NoLink THEN [s EXCEPT !.file.mode = ticks] ELSE s)
    /\ UNCHANGED spoilt

(* cell_edited: the new target is typed into the row. *)
LinkCellEdited(b, to) ==
    /\ ibox[b].open /\ ibox[b].link # NoLink
    /\ LET s == InfoNow(b) IN
       \/ InfoBecomes(b, s)                       \* not a link now, no change, or unlink fails
       \/ /\ subject.link \notin {NoLink, to} /\ ibox[b].pending < MaxEdits
          /\ \/ InfoBecomes(b, [s EXCEPT !.file.link = NoLink, !.file.kind = "gone"])     \* symlink fails
             \/ InfoBecomes(b, [s EXCEPT !.file.link = to, !.file.kind = TargetKind[to], !.box.pending = @ + 1])
    /\ UNCHANGED spoilt

(* refresh_info_idle: the window is still referenced, but if it has been    *)
(* closed meanwhile its details are gone.                                   *)
RefreshInfoIdle(b) ==
    /\ ibox[b].pending > 0
    /\ LET s == [InfoNow(b) EXCEPT !.box.pending = @ - 1] IN
       IF ibox[b].open
       THEN \E works \in BOOLEAN, n \in 0..MaxOutput :
               InfoBecomes(b, RefreshInfo(s, works, n)) /\ UNCHANGED spoilt
       ELSE InfoBecomes(b, s) /\ spoilt' = TRUE

InfoNext ==
    /\ ~spoilt
    /\ \/ ReplaceFile
       \/ \E b \in Box :
             \/ NewInfobox(b) \/ Refresh(b) \/ CloseInfobox(b)
             \/ DuEnds(b) \/ ReadDuOutput(b) \/ FileWrites(b) \/ AddFileOutput(b)
             \/ \E t \in PermBit : PermissionsApply(b, t)
             \/ \E to \in LinkTo : LinkCellEdited(b, to)
             \/ RefreshInfoIdle(b)

InfoSpec == InfoInit /\ [][InfoNext]_infoVars

--------------------
(* Every source and every descriptor belongs to something that is on the    *)
(* screen and still waits for it: none is left of details that have been    *)
(* destroyed, and no cell says "Scanning" for ever.  Every open box counts  *)
(* as a window that keeps the filer running (infobox.c:154-169,488-498).    *)
HeldForShown ==
    /\ held.sources = Cardinality({b \in Box : ibox[b].cell = "scanning"})
                      + Cardinality({b \in Box : ibox[b].label = "reading"})
    /\ held.fds = Cardinality({b \in Box : du[b].chan}) + Cardinality({b \in Box : says[b].fd})
    /\ held.windows = Cardinality({b \in Box : ibox[b].open})
    /\ \A b \in Box : ibox[b].label = "whole" => ibox[b].read = says[b].output
InfoRight == spoilt \/ HeldForShown
===========================================================================

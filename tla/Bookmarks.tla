----------------------------- MODULE Bookmarks -----------------------------
(* The bookmarks and the list of recently visited directories              *)
(* (bookmarks.c).  The bookmarks are in a file that other programs may     *)
(* write too, in a document that the filer reads through its cache of XML  *)
(* files and then changes in place, and in the rows of the editor, each of *)
(* which may be older than the others.                                     *)
(* Titles are left out.  Each save has a time of its own: two saves in one *)
(* second, of the same length, are not told apart by the cache.            *)
EXTENDS Naturals, SequencesExt, FiniteSets

CONSTANTS Mark,        \* the directories that are bookmarked
          Visitable,   \* the directories that are visited
          DirOver,     \* their parents
          HistoryMax,  \* 30 in the code
          MaxMarks,    \* bound: bookmarks
          MaxWrites,   \* bound: writes by other programs and of restarts
          MaxCuts,     \* bound: saves that leave half a file
          MaxVisits    \* bound: directories visited

(* The empty string, which is the tail of an empty list, is no directory. *)
ASSUME BookmarksAssumption == HistoryMax \in Nat /\ "" \notin Visitable

VARIABLES
    bm,       \* the file, the document, and the cache of XML files
    editor,   \* the Edit Bookmarks dialog
    wanted,   \* what the user has asked for, as last written by anyone else
    raced,    \* another program has written while the editor was open
    budget,
    visited,  \* history, the hash table, history_tail and history_free
    visits    \* all that was visited, the last one first

markVars == <<bm, editor, wanted, raced, budget>>
historyVars == <<visited, visits>>
bookmarkVars == <<markVars, historyVars>>

Nothing0 == [has |-> FALSE, list |-> <<>>]
Uncached == [fresh |-> FALSE, ok |-> FALSE, list |-> <<>>]
ShortList == SeqOf(Mark, 2)

BookmarksInit ==
    /\ \E there, ok \in BOOLEAN, marks \in ShortList :
          /\ ok \/ marks = <<>>
          /\ there \/ (ok /\ marks = <<>>)
          /\ bm = [file |-> [there |-> there, ok |-> ok, list |-> marks], doc |-> Nothing0, cache |-> Uncached]
          /\ wanted = marks
    /\ editor = [open |-> FALSE, rows |-> <<>>]
    /\ raced = FALSE
    /\ budget = [writes |-> 0, cuts |-> 0]
    /\ visited = [list |-> <<>>, hash |-> {}, tail |-> "", free |-> HistoryMax]
    /\ visits = <<>>

--------------------
(* xml_cache_load: the file is read again only if it is another one than   *)
(* was read last; what cannot be read is remembered too.                    *)
XmlLoad(b) == IF b.cache.fresh THEN b.cache ELSE [fresh |-> TRUE, ok |-> b.file.ok, list |-> b.file.list]

(* update_bookmarks. *)
UpdateBookmarks(b) ==
    IF ~b.file.there THEN [b EXCEPT !.doc.has = TRUE]
    ELSE LET c == XmlLoad(b)
         IN  [b EXCEPT !.cache = c, !.doc = [has |-> TRUE, list |-> IF c.ok THEN c.list ELSE b.doc.list]]

(* bookmarks_save.  Nobody looks whether it worked. *)
BookmarksSave(b, whole) ==
    [b EXCEPT !.file = [there |-> TRUE, ok |-> whole, list |-> IF whole THEN b.doc.list ELSE <<>>],
              !.cache.fresh = FALSE]

Cut(whole) == /\ whole \/ budget.cuts < MaxCuts
              /\ budget' = [budget EXCEPT !.cuts = IF whole THEN @ ELSE @ + 1]

(* Mutant: the editor stays, with its list. *)
AddDirQuietly(d) ==
    LET b == UpdateBookmarks(bm) IN
    /\ Len(b.doc.list) < MaxMarks
    /\ \E whole \in BOOLEAN :
          /\ Cut(whole)
          /\ bm' = BookmarksSave([b EXCEPT !.doc.list = Append(@, d)], whole)
    /\ editor' = editor
    /\ wanted' = Append(IF raced THEN b.doc.list ELSE wanted, d)
    /\ raced' = FALSE

(* bookmarks_add_dir, for a directory that has no bookmark yet: the editor  *)
(* is destroyed, as its list lacks the new one.                             *)
AddDir(d) ==
    LET b == UpdateBookmarks(bm) IN
    /\ Len(b.doc.list) < MaxMarks
    /\ \E whole \in BOOLEAN :
          /\ Cut(whole)
          /\ bm' = BookmarksSave([b EXCEPT !.doc.list = Append(@, d)], whole)
    /\ editor' = [open |-> FALSE, rows |-> <<>>]
    /\ wanted' = Append(IF raced THEN b.doc.list ELSE wanted, d)
    /\ raced' = FALSE

(* bookmarks_add, bookmarks_add_uri. *)
Add(d) ==
    IF Contains(UpdateBookmarks(bm).doc.list, d)
    THEN bm' = UpdateBookmarks(bm) /\ UNCHANGED <<editor, wanted, raced, budget>>
    ELSE AddDir(d)

(* bookmarks_build_menu. *)
BuildMenu == bm' = UpdateBookmarks(bm) /\ UNCHANGED <<editor, wanted, raced, budget>>

(* bookmarks_edit. *)
Edit ==
    /\ ~editor.open
    /\ bm' = UpdateBookmarks(bm)
    /\ editor' = [open |-> TRUE, rows |-> bm'.doc.list]
    /\ UNCHANGED <<wanted, raced, budget>>

(* commit_edits, on each change of the rows and when the editor is closed:  *)
(* a new document, which is not the one in the cache.                       *)
CommitEdits(rows) ==
    \E whole \in BOOLEAN :
       /\ Cut(whole)
       /\ bm' = BookmarksSave([bm EXCEPT !.doc = [has |-> TRUE, list |-> rows]], whole)
       /\ raced' = FALSE

EditRows(rows, asked) ==
    /\ CommitEdits(rows)
    /\ editor' = [editor EXCEPT !.rows = rows]
    /\ wanted' = IF raced THEN rows ELSE asked

Swap(s, i) == [s EXCEPT ![i] = s[i + 1], ![i + 1] = s[i]]

Without(s, K) == LET kept == SetToSortSeq(DOMAIN s \ K, <) IN [i \in DOMAIN kept |-> s[kept[i]]]

(* edit_delete, reorder_up and reorder_down, dir_dropped, cell_edited. *)
EditDelete(K) ==
    /\ editor.open /\ K # {} /\ K \subseteq DOMAIN editor.rows
    /\ EditRows(Without(editor.rows, K), IF raced THEN <<>> ELSE Without(wanted, K))
Reorder(i) ==
    /\ editor.open /\ i \in 1..(Len(editor.rows) - 1)
    /\ EditRows(Swap(editor.rows, i), IF raced THEN <<>> ELSE Swap(wanted, i))
DirDropped(d) ==
    /\ editor.open /\ Len(editor.rows) < MaxMarks
    /\ EditRows(Append(editor.rows, d), Append(wanted, d))
MarkEdited(i, d) ==
    /\ editor.open /\ i \in DOMAIN editor.rows
    /\ EditRows([editor.rows EXCEPT ![i] = d], IF raced THEN <<>> ELSE [wanted EXCEPT ![i] = d])

(* edit_response. *)
EditResponse ==
    /\ editor.open
    /\ CommitEdits(editor.rows)
    /\ editor' = [open |-> FALSE, rows |-> <<>>]
    /\ wanted' = IF raced THEN editor.rows ELSE wanted

--------------------
(* Other programs, and other filers, change the file or break it. *)
Budgeted == budget.writes < MaxWrites /\ budget' = [budget EXCEPT !.writes = @ + 1]

OtherWrites(marks) ==
    /\ Budgeted
    /\ bm' = [bm EXCEPT !.file = [there |-> TRUE, ok |-> TRUE, list |-> marks], !.cache.fresh = FALSE]
    /\ raced' = editor.open
    /\ wanted' = IF editor.open THEN wanted ELSE marks
    /\ UNCHANGED editor

OtherBreaks ==
    /\ Budgeted
    /\ bm' = [bm EXCEPT !.file = [there |-> TRUE, ok |-> FALSE, list |-> <<>>], !.cache.fresh = FALSE]
    /\ wanted' = IF editor.open THEN wanted ELSE bm.doc.list
    /\ UNCHANGED <<editor, raced>>

(* The filer is started anew: what was cut is gone. *)
Restart ==
    /\ Budgeted
    /\ bm' = [bm EXCEPT !.doc = Nothing0, !.cache = Uncached]
    /\ editor' = [open |-> FALSE, rows |-> <<>>]
    /\ raced' = FALSE
    /\ wanted' = IF ~bm.file.ok THEN <<>> ELSE IF raced THEN bm.file.list ELSE wanted

(* g_fscache_purge: a document that is in use stays, so what is dropped is  *)
(* the note that the file could not be read.                                *)
PurgeXml ==
    /\ bm.cache.fresh /\ ~bm.cache.ok
    /\ bm' = [bm EXCEPT !.cache = Uncached]
    /\ UNCHANGED <<editor, wanted, raced, budget>>

MarksNext ==
    /\ \/ \E d \in Mark : Add(d) \/ DirDropped(d) \/ \E i \in 1..MaxMarks : MarkEdited(i, d)
       \/ BuildMenu \/ Edit \/ EditResponse
       \/ \E K \in SUBSET (1..MaxMarks) : EditDelete(K)
       \/ \E i \in 1..MaxMarks : Reorder(i)
       \/ \E marks \in ShortList : OtherWrites(marks)
       \/ OtherBreaks \/ Restart \/ PurgeXml
    /\ UNCHANGED historyVars

--------------------
(* history_remove.  The tail is an element of the list, as in a GList. *)
HistoryRemove(h, p) ==
    IF p \notin h.hash THEN h
    ELSE [list |-> RemoveFirst(h.list, p), hash |-> h.hash \ {p},
          tail |-> IF h.tail = p THEN IF Len(h.list) > 1 THEN h.list[Len(h.list) - 1] ELSE "" ELSE h.tail,
          free |-> h.free + 1]

(* bookmarks_add_history, whenever a window is attached to a directory. *)
AddHistory(h, p) ==
    LET a == HistoryRemove(HistoryRemove(h, p), DirOver[p])
        b == [list |-> <<p>> \o a.list, hash |-> a.hash \cup {p},
              tail |-> IF a.tail = "" THEN p ELSE a.tail, free |-> a.free - 1]
    IN IF a.free = 0 THEN HistoryRemove([b EXCEPT !.free = 0 - 1], b.tail) ELSE b

Visit(p) ==
    /\ Len(visits) < MaxVisits
    /\ visited' = AddHistory(visited, p)
    /\ visits' = <<p>> \o visits
    /\ UNCHANGED markVars

HistoryNext == \E p \in Visitable : Visit(p)

BookmarksSpec == BookmarksInit /\ [][MarksNext \/ HistoryNext]_bookmarkVars

--------------------
(* What was added, deleted and moved is what the menu, the editor and the   *)
(* file have, whatever is cached, and whoever else writes: unless that is   *)
(* while the editor is open, whose list is then written over it             *)
(* (bookmarks.c:439, 646).                                                  *)
MarksKept ==
    ~raced =>
        /\ UpdateBookmarks(bm).doc.list = wanted
        /\ bm.file.ok => bm.file.list = wanted
        /\ editor.open => editor.rows = wanted

(* Recently Visited has the last visited first, nothing twice, no directory *)
(* whose child was visited later, and nothing is dropped before as many     *)
(* others were visited as the list holds (bookmarks.c:260).                 *)
LastVisit(p) == SelectInSeq(visits, LAMBDA q : q = p)
Since(p) == {visits[i] : i \in 1..(LastVisit(p) - 1)}
HistoryRight ==
    /\ visited.hash = ToSet(visited.list) /\ Cardinality(visited.hash) = Len(visited.list)
    /\ visited.free = HistoryMax - Len(visited.list) /\ visited.free >= 0
    /\ visited.tail = IF visited.list = <<>> THEN "" ELSE Last(visited.list)
    /\ \A i, j \in DOMAIN visited.list : i < j => LastVisit(visited.list[i]) < LastVisit(visited.list[j])
    /\ \A p \in ToSet(visits) :
          LET left == \E q \in Since(p) : DirOver[q] = p
          IN  /\ left => p \notin visited.hash
              /\ ~left /\ Cardinality(Since(p)) < HistoryMax => p \in visited.hash

BookmarksRight == MarksKept /\ HistoryRight
===========================================================================

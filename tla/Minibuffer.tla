---------------------------- MODULE Minibuffer ----------------------------
(* The minibuffer of a filer window (minibuffer.c) with the view it works  *)
(* on: the names in the order of the view, the cursor, the base of a       *)
(* search and the iterators (view_collection.c).  Names are tuples of      *)
(* letters.                                                                *)
EXTENDS Integers, Sequences, FiniteSets, SequencesExt

CONSTANTS Place,         \* the directories that exist
          Nowhere,       \* one that does not
          NameOrder,     \* all names, in the order of the view
          Fold,          \* each letter in lower case
          Contents,      \* the files of each directory, as far as the view may show them
          SubPlace,      \* <<directory, name>> -> the directory of that name
          Leaf,          \* what may be typed after the last /
          Pattern, Globs,    \* patterns, and the names each of them matches
          Condition, NoCond,   \* the Find conditions, and those that are wrong
          Selects,       \* the names a condition is true of
          Command,       \* shell commands
          MaxMiniSteps   \* bound: the keys and other events

Letter == DOMAIN Fold

ASSUME MiniAssumption ==
    /\ NameOrder \in Seq(Seq(Letter) \ {<< >>}) /\ Leaf \subseteq Seq(Letter) /\ Nowhere \notin Place
    /\ \A dir \in DOMAIN SubPlace : SubPlace[dir] \in Place \ {dir[1]}

VARIABLES mini,          \* the minibuffer
          pane,          \* the view
          history,       \* shell_history, the latest first
          onDisk,        \* the files of the directory of the window
          tabbed,        \* what the last Tab completed
          miniSteps      \* counted for the bound

miniVars == <<mini, pane, history, onDisk, tabbed, miniSteps>>

(* A handler works on all of the state. *)
MiniNow == [mini |-> mini, pane |-> pane, disk |-> onDisk]
MiniBecomes(s) == mini' = s.mini /\ pane' = s.pane /\ onDisk' = s.disk

(* The names of S in the order of the view. *)
ViewOrder(S) ==
    LET listed[k \in 0..Len(NameOrder)] ==
          IF k = 0 THEN << >>
          ELSE IF NameOrder[k] \in S THEN Append(listed[k - 1], NameOrder[k]) ELSE listed[k - 1]
    IN listed[Len(NameOrder)]

Blank == [place |-> Nowhere, leaf |-> << >>]
Words == "words"         \* a command line that was edited by hand
NoTab == [old |-> << >>, new |-> << >>, hits |-> {}]

MiniInit ==
    \E p \in Place :
      /\ mini = [mode |-> "none", text |-> Blank, error |-> FALSE, temp |-> FALSE, idles |-> 0,
                 recall |-> -1, fresh |-> FALSE]
      /\ onDisk = Contents[p]
      /\ pane = [place |-> p, items |-> ViewOrder({n \in ToSet(NameOrder) : n \in Contents[p] /\ n[1] # "."}),
                 cursor |-> -1, base |-> -1, sel |-> {}, filter |-> "all", had |-> FALSE,
                 select |-> << >>, scanning |-> FALSE]
      /\ history = << >> /\ tabbed = NoTab /\ miniSteps = 0

--------------------
(* The view: its items are counted from 0, and -1 is none. *)
Count(v) == Len(v.items)
NameAt(v, i) == v.items[i + 1]
OnItem(v, i) == i \in 0..(Count(v) - 1)
InPane(s, n) ==
    /\ n \in s.disk /\ (n[1] = "." => s.mini.temp)
    /\ s.pane.filter = "all" \/ n \in Globs[s.pane.filter] \/ <<s.pane.place, n>> \in DOMAIN SubPlace
Displayed(s) == ViewOrder({n \in ToSet(NameOrder) : InPane(s, n)})

(* matches: the pattern is a prefix, in either case. *)
Matches(name, leaf) ==
    Len(leaf) <= Len(name) /\ \A k \in 1..Len(leaf) : Fold[name[k]] = Fold[leaf[k]]

(* iter_init, iter_next and iter_prev: each item once, from `start' on, and *)
(* from the end of the view if that is no item.                            *)
Iterate(v, start, dir) ==
    LET n == Count(v)
        first == IF OnItem(v, start) THEN start ELSE IF dir < 0 THEN n - 1 ELSE 0
    IN [k \in 1..n |-> (first + (IF dir < 0 THEN 1 - k ELSE k - 1)) % n]

(* Where an iterator finds the first item of S, if it does. *)
FirstOf(path, S) == SelectInSeq(path, LAMBDA i : i \in S)
CursorTo(v, i) == [v EXCEPT !.cursor = i]
CursorIter(v) == IF OnItem(v, v.cursor) THEN v.cursor ELSE -1

(* view_show_cursor: a cursor that is gone comes back near where it was. *)
CursorShown(v) ==
    IF Count(v) = 0 THEN {CursorTo(v, 0)}
    ELSE IF OnItem(v, v.cursor) THEN {v} ELSE {CursorTo(v, i) : i \in {0, Count(v) - 1}}

SelectThose(v, S) == [v EXCEPT !.sel = {n \in S : \E i \in 1..Count(v) : v.items[i] = n}]

(* The end of a scan: a cursor of the old directory comes back, on the     *)
(* item that is to be selected.                                            *)
EndOfScan(v) ==
    LET back == v.had /\ v.cursor = -1
        u == [v EXCEPT !.scanning = FALSE, !.cursor = IF back THEN 0 ELSE @, !.had = @ /\ ~back]
        i == FirstOf([k \in 1..Count(v) |-> v.items[k]], {v.select}) - 1
    IN IF i >= 0 THEN [u EXCEPT !.select = << >>, !.cursor = IF u.cursor = -1 THEN -1 ELSE i]
       ELSE [u EXCEPT !.select = << >>]

(* display_update_hidden: the view is cleared, and filled again. *)
UpdateHidden(s) ==
    [s EXCEPT !.pane = EndOfScan([@ EXCEPT !.items = Displayed(s), !.sel = {},
                                           !.cursor = IF Count(s.pane) = 0 THEN s.pane.cursor ELSE -1])]

(* filer_change_to: the files of the new directory are known, or will be   *)
(* found by a scan.  A path in the minibuffer will be replaced.            *)
ChangeTo(s, p, leaf, known) ==
    LET t == [s EXCEPT !.disk = Contents[p],
                       !.mini.idles = IF s.mini.mode = "path" THEN @ + 1 ELSE @,
                       !.mini.fresh = FALSE,
                       !.pane = [@ EXCEPT !.place = p, !.select = leaf, !.had = s.pane.had \/ s.pane.cursor # -1,
                                          !.cursor = -1, !.sel = {}, !.items = << >>, !.scanning = TRUE]]
    IN IF known THEN [t EXCEPT !.pane = EndOfScan([@ EXCEPT !.items = Displayed(t)])] ELSE t

--------------------
(* find_exact_match and find_next_match, which looks at the base itself    *)
(* only if dir is 0.                                                       *)
FindExact(v, leaf) == FirstOf(Iterate(v, -1, 1), {i \in 0..(Count(v) - 1) : NameAt(v, i) = leaf})
FindNext(v, leaf, dir) ==
    LET path == Iterate(v, v.base, dir)
        rest == IF dir = 0 THEN path ELSE Tail(path)
        k == FirstOf(rest, {i \in 0..(Count(v) - 1) : Matches(NameAt(v, i), leaf)})
    IN IF Count(v) = 0 THEN [found |-> FALSE, view |-> v]
       ELSE [found |-> k > 0, view |-> CursorTo(v, IF k > 0 THEN rest[k] ELSE path[1])]

(* search_in_dir *)
SearchInDir(v, leaf, dir) ==
    LET u == FindNext([v EXCEPT !.base = CursorIter(v)], leaf, dir).view
    IN [u EXCEPT !.base = CursorIter(u)]

(* path_changed: the cursor goes to what is typed, or the window to its    *)
(* directory; a name with a dot shows the hidden ones.                     *)
PathChanged(s, text, known) ==
    LET t == [s EXCEPT !.mini = [@ EXCEPT !.text = text, !.error = FALSE, !.fresh = TRUE]]
        dot == text.leaf # << >> /\ text.leaf[1] = "."
        u == IF dot /\ ~s.mini.temp THEN UpdateHidden([t EXCEPT !.mini.temp = TRUE]) ELSE t
        exact == FindExact(u.pane, text.leaf)
        next == FindNext(u.pane, text.leaf, 0)
    IN IF text = Blank THEN t
       ELSE IF text.place = Nowhere THEN [t EXCEPT !.mini.error = TRUE]
       ELSE IF text.place # s.pane.place THEN ChangeTo(t, text.place, text.leaf, known)
       ELSE IF exact > 0 THEN [u EXCEPT !.pane = CursorTo(@, exact - 1)]
       ELSE [u EXCEPT !.pane = next.view, !.mini.error = ~next.found]

(* complete: how far the other names that go on as typed agree with the    *)
(* one at the cursor; the names are read off its text and put back in      *)
(* place of what was typed.                                                *)
Stem(a, b) ==
    CHOOSE k \in 0..Len(a) : /\ Matches(b, SubSeq(a, 1, k))
                             /\ k = Len(a) \/ k = Len(b) \/ Fold[a[k + 1]] # Fold[b[k + 1]]
Others(v, i) == {NameAt(v, j) : j \in (0..(Count(v) - 1)) \ {i}}

(* Mutant: the longest of the stems. *)
ShortestStemMax(v, i, leaf) ==
    LET stems == {Stem(NameAt(v, i), b) : b \in Others(v, i)} \cap Len(leaf)..Len(NameAt(v, i))
    IN IF stems = {} THEN -1 ELSE Max(stems)
ShortestStem(v, i, leaf) ==
    LET stems == {Stem(NameAt(v, i), b) : b \in Others(v, i)} \cap Len(leaf)..Len(NameAt(v, i))
    IN IF stems = {} THEN -1 ELSE Min(stems)

Complete(s, known) ==
    LET v == s.pane
        i == CursorIter(v)
        leaf == s.mini.text.leaf
        item == NameAt(v, i)
        stem == ShortestStem(v, i, leaf)
        dir == <<v.place, item>>
    IN IF i = -1 \/ s.mini.text = Blank \/ ~Matches(item, leaf) \/ stem = Len(leaf) THEN s
       ELSE IF stem >= 0
       THEN PathChanged(PathChanged(s, [s.mini.text EXCEPT !.leaf = << >>], known),
                        [s.mini.text EXCEPT !.leaf = SubSeq(item, 1, stem)], known)
       ELSE IF dir \in DOMAIN SubPlace
       THEN PathChanged(s, [place |-> SubPlace[dir], leaf |-> << >>], known)
       ELSE PathChanged(s, [place |-> v.place, leaf |-> item], known)

--------------------
(* minibuffer_show, for each of its uses.  A history starts at none. *)
ShowPath(s, v) ==
    LET t == [s EXCEPT !.pane = [v EXCEPT !.base = CursorIter(v)],
                       !.mini = [@ EXCEPT !.mode = "path", !.error = FALSE, !.fresh = FALSE, !.temp = FALSE,
                                          !.text = [place |-> v.place, leaf |-> << >>]]]
    IN IF s.mini.temp THEN UpdateHidden(t) ELSE t
ShowOther(s, mode, text) ==
    [s EXCEPT !.mini = [@ EXCEPT !.mode = mode, !.error = FALSE, !.text = text, !.recall = -1, !.fresh = FALSE]]

ShowMini(mode) ==
    \/ mode = "path" /\ \E v \in CursorShown(pane) : MiniBecomes(ShowPath(MiniNow, v))
    \/ mode \in {"shell", "if"} /\ MiniBecomes(ShowOther(MiniNow, mode, Words))
    \/ /\ mode = "filter"
       /\ MiniBecomes([ShowOther(MiniNow, mode, pane.filter) EXCEPT !.mini.recall = mini.recall])
    \/ /\ mode = "name"
       /\ \E v \in CursorShown(pane) :
            MiniBecomes([ShowOther(MiniNow, mode, Words)
                           EXCEPT !.pane = SelectThose([v EXCEPT !.base = CursorIter(v)], {})])

(* minibuffer_hide: hidden files are shown as long as the cursor is on one *)
(* of them; the view is filled again before the flag is taken back.        *)
HideMini(s) ==
    LET v == s.pane
        stay == OnItem(v, v.cursor) /\ NameAt(v, v.cursor)[1] = "."
        t == [s EXCEPT !.mini = [@ EXCEPT !.mode = "none", !.fresh = FALSE]]
    IN [IF s.mini.temp /\ ~stay THEN UpdateHidden(t) ELSE t EXCEPT !.mini.temp = FALSE]

(* add_to_history, which all windows share *)
Added(line) == IF line = Words \/ (history # << >> /\ history[1] = line) THEN history
               ELSE <<line>> \o history

--------------------
(* The text is edited. *)
TypePath(text, known) ==
    mini.mode = "path" /\ MiniBecomes(PathChanged(MiniNow, text, known)) /\ UNCHANGED <<history, tabbed>>

TypeName(p) ==
    LET v == SelectThose(pane, Globs[p])
        path == Iterate(v, v.base, 1)
        k == FirstOf(path, {i \in 0..(Count(v) - 1) : NameAt(v, i) \in v.sel})
    IN /\ mini.mode = "name"
       /\ MiniBecomes([MiniNow EXCEPT !.pane = IF k > 0 THEN CursorTo(v, path[k]) ELSE v,
                                      !.mini.text = p, !.mini.fresh = TRUE])
       /\ UNCHANGED <<history, tabbed>>

TypeLine(line) ==
    /\ \/ mini.mode = "shell" /\ line \in Command
       \/ mini.mode = "if" /\ line \in Condition
       \/ mini.mode = "filter" /\ line \in Pattern \cup {"all"}
    /\ MiniBecomes([MiniNow EXCEPT !.mini.text = line]) /\ UNCHANGED <<history, tabbed>>

(* The keys.  Escape keeps a command. *)
Escape ==
    /\ mini.mode # "none" /\ MiniBecomes(HideMini(MiniNow)) /\ UNCHANGED tabbed
    /\ history' = IF mini.mode = "shell" THEN Added(mini.text) ELSE history

Recall(dir) ==
    LET pos == mini.recall + dir
    IN IF pos >= Len(history) THEN MiniNow
       ELSE [MiniNow EXCEPT !.mini.recall = IF pos < -1 THEN -1 ELSE pos,
                            !.mini.text = IF pos < 0 THEN Words ELSE history[pos + 1]]

(* filer_next_selected *)
NextSelected(v, dir) ==
    LET on == OnItem(v, v.cursor)
        path == Iterate(v, IF on THEN v.cursor ELSE -1, dir)
        rest == IF on /\ NameAt(v, v.cursor) \in v.sel THEN Tail(path) ELSE path
        k == FirstOf(rest, {i \in 0..(Count(v) - 1) : NameAt(v, i) \in v.sel})
    IN IF k > 0 THEN CursorTo(v, rest[k]) ELSE v

Arrow(dir) ==
    /\ MiniBecomes(CASE mini.mode = "path" -> [MiniNow EXCEPT !.pane = SearchInDir(@, mini.text.leaf, dir)]
                     [] mini.mode = "name" -> [MiniNow EXCEPT !.pane = NextSelected(@, dir)]
                     [] OTHER -> Recall(-dir))
    /\ mini.mode \in {"path", "name", "shell", "if"} /\ UNCHANGED <<history, tabbed>>

Tab(known) ==
    LET s == Complete(MiniNow, known)
    IN /\ mini.mode = "path" /\ MiniBecomes(s) /\ UNCHANGED history
       /\ tabbed' = IF s.mini.idles > mini.idles \/ s.mini.text = mini.text THEN NoTab
                    ELSE [old |-> mini.text.leaf, new |-> s.mini.text.leaf,
                          hits |-> {n \in ToSet(pane.items) : Matches(n, mini.text.leaf)}]

(* path_return_pressed: a directory is opened in this window, a file by    *)
(* its program, which may fail.                                            *)
ReturnPath(known, works) ==
    LET i == CursorIter(pane)
        dir == <<pane.place, NameAt(pane, i)>>
    IN /\ mini.mode = "path" /\ UNCHANGED <<history, tabbed>>
       /\ MiniBecomes(IF i = -1 \/ ~Matches(NameAt(pane, i), mini.text.leaf) THEN MiniNow
                      ELSE IF dir \in DOMAIN SubPlace THEN ChangeTo(MiniNow, SubPlace[dir], << >>, known)
                      ELSE IF works THEN HideMini(MiniNow) ELSE MiniNow)

ReturnLine ==
    LET line == mini.text
        chosen == IF line \in Condition \ NoCond
                  THEN [MiniNow EXCEPT !.pane = SelectThose(@, Selects[line])] ELSE MiniNow
        filtered == [MiniNow EXCEPT !.pane.filter = line]
    IN /\ UNCHANGED tabbed
       /\ history' = IF mini.mode \in {"shell", "if"} THEN Added(line) ELSE history
       /\ \/ mini.mode \in {"shell", "name"} /\ MiniBecomes(HideMini(MiniNow))
          \/ mini.mode = "if" /\ MiniBecomes(IF line \in NoCond THEN MiniNow ELSE HideMini(chosen))
          \/ /\ mini.mode = "filter"
             /\ MiniBecomes(HideMini(IF line = pane.filter THEN MiniNow ELSE UpdateHidden(filtered)))

(* minibuffer_show_cb *)
IdleShow ==
    /\ mini.idles > 0 /\ UNCHANGED <<history, tabbed>>
    /\ \E v \in CursorShown(pane) : MiniBecomes(ShowPath([MiniNow EXCEPT !.mini.idles = @ - 1], v))

(* What else happens to the window: it is led elsewhere, scanned, clicked  *)
(* at, its files come and go, and other windows have minibuffers, too.     *)
LedElsewhere(p, known) == pane.place # p /\ MiniBecomes(ChangeTo(MiniNow, p, << >>, known))
ScanEnds ==
    /\ pane.scanning
    /\ MiniBecomes([MiniNow EXCEPT !.pane = EndOfScan([@ EXCEPT !.items = Displayed(MiniNow)]),
                                   !.mini.fresh = FALSE])
ClickedBeside == MiniBecomes([MiniNow EXCEPT !.pane.cursor = -1, !.mini.fresh = FALSE])
FileComesOrGoes(n) ==
    LET s == [MiniNow EXCEPT !.disk = (@ \cup {n}) \ (@ \cap {n}), !.mini.fresh = FALSE]
        old == ToSet(pane.items)
        new == IF n \in onDisk THEN old \ {n} ELSE old \cup ({n} \cap ToSet(Displayed(s)))
        before == {x \in new : \E k \in 1..(pane.cursor + 1) : pane.items[k] = x}
    IN /\ ~pane.scanning
       /\ MiniBecomes([s EXCEPT !.pane.items = ViewOrder(new),
                                !.pane.sel = @ \ {n},
                                !.pane.cursor = IF OnItem(pane, @) THEN Cardinality(before) - 1 ELSE @])

MiniOutside ==
    /\ UNCHANGED tabbed
    /\ \/ /\ UNCHANGED history
          /\ \/ ScanEnds \/ ClickedBeside \/ \E n \in ToSet(NameOrder) : FileComesOrGoes(n)
             \/ \E p \in Place, known \in BOOLEAN : LedElsewhere(p, known)
       \/ \E line \in Command : history' = Added(line) /\ MiniBecomes(MiniNow)

MiniKeys ==
    \/ \E mode \in {"path", "shell", "if", "name", "filter"} : ShowMini(mode) /\ UNCHANGED <<history, tabbed>>
    \/ \E known \in BOOLEAN :
         \/ \E p \in Place \cup {Nowhere}, leaf \in Leaf \cup {<< >>} : TypePath([place |-> p, leaf |-> leaf], known)
         \/ Tab(known) \/ \E works \in BOOLEAN : ReturnPath(known, works)
    \/ \E p \in Pattern : TypeName(p)
    \/ \E line \in Command \cup Condition \cup Pattern \cup {"all"} : TypeLine(line)
    \/ Escape \/ ReturnLine \/ IdleShow \/ \E dir \in {1, -1} : Arrow(dir)

MiniNext ==
    /\ miniSteps < MaxMiniSteps /\ miniSteps' = miniSteps + 1
    /\ MiniKeys \/ MiniOutside

MiniSpec == MiniInit /\ [][MiniNext]_miniVars

--------------------
(* While a path is typed, it is shown as wrong exactly if nothing in the   *)
(* window goes on like it, and otherwise the cursor is on something that   *)
(* does, wherever the search began; the path is that of the window, unless *)
(* it is wrong or about to be replaced.  A pattern has its names selected, *)
(* and the cursor on one of them.  Tab fills in as much as all names that  *)
(* go on like the typed one have in common.  Hidden files are asked for    *)
(* only by an open minibuffer.                                             *)
MiniFollows ==
    LET v == pane
        text == mini.text
        on == OnItem(v, v.cursor)
    IN /\ mini.temp => mini.mode # "none"
       /\ mini.mode = "path" /\ text # Blank =>
            /\ mini.idles = 0 /\ ~mini.error => text.place = v.place
            /\ mini.fresh /\ text.place = v.place =>
                 /\ mini.error <=> ~\E n \in ToSet(v.items) : Matches(n, text.leaf)
                 /\ ~mini.error => on /\ Matches(NameAt(v, v.cursor), text.leaf)
                 /\ ~mini.error => \A dir \in {1, -1} :
                      LET n == Count(v)
                          steps(i) == ((dir * (i - v.cursor) - 1) % n) + 1
                          found == SearchInDir(v, text.leaf, dir).cursor
                      IN /\ Matches(NameAt(v, found), text.leaf)
                         /\ \A i \in 0..(n - 1) : Matches(NameAt(v, i), text.leaf) => steps(found) <= steps(i)
                 /\ text.leaf # << >> /\ text.leaf[1] = "." /\ ~v.scanning => ToSet(v.items) = ToSet(Displayed(MiniNow))
       /\ mini.mode = "name" /\ mini.fresh =>
            /\ v.sel = Globs[text] \cap ToSet(v.items)
            /\ v.sel # {} => on /\ NameAt(v, v.cursor) \in v.sel
       /\ tabbed # NoTab =>
            /\ \A n \in tabbed.hits : Matches(n, tabbed.new)
            /\ ~\E c \in DOMAIN Fold : \A n \in tabbed.hits : Matches(n, Append(tabbed.new, c))
=============================================================================

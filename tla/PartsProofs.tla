----------------------------- MODULE PartsProofs -----------------------------
(* Seven parts that keep their own state, and the theorem about each: the *)
(* bulk rename box, the settings of a directory's windows, the drags that *)
(* ask for a file to be saved, the options, the icons that the user sets, *)
(* the backdrop, and the minibuffer.  They share no variable, so each has *)
(* its own inductive invariant and its own specification. *)
EXTENDS BulkRename, Settings, DirectSave, Options, UserIcons, Backdrop, Minibuffer,
        SequenceTheorems, FiniteSetTheorems, WellFoundedInduction, NaturalsInduction, TLAPS
--------------------
(* The bulk rename box.  The table keeps the old names of different files, *)
(* and a row that is about to be renamed was just seen to have a free name. *)
OldPath(i)  == PathOf[rows[i].old]
Unnoticed   == {"none", "dangling", "unseen"}      \* what access() does not see

BulkTypes ==
    /\ rows \in Seq([old : Name \ {""}, new : Name])
    /\ stage \in {"edit", "confirm", "look", "rename", "closed"}
    /\ others \in Nat
    /\ DOMAIN entry = Paths

BulkInv ==
    /\ BulkTypes
    /\ \A i, j \in DOMAIN rows : OldPath(i) = OldPath(j) => i = j
    /\ stage \in {"confirm", "look", "rename"} => rows # << >>
    /\ stage = "rename" => Renames(rows[1]) /\ entry[PathOf[rows[1].new]] \in Unnoticed
    /\ NothingReplaced

(* What a function on 1..n is: a sequence. *)
LEMMA FunctionIsSeq ==
    ASSUME NEW S, NEW n \in Nat, NEW f \in [1..n -> S]
    PROVE  f \in Seq(S)
BY SeqDef

(* A sequence is a function on its domain. *)
LEMMA SeqIsFunction ==
    ASSUME NEW S, NEW s \in Seq(S)
    PROVE  Len(s) \in Nat /\ DOMAIN s = 1..Len(s) /\ \A i \in DOMAIN s : s[i] \in S
BY LenProperties, ElementOfSeq

(* The tail of a sequence, position by position. *)
LEMMA TailOf ==
    ASSUME NEW S, NEW s \in Seq(S), s # << >>
    PROVE  /\ Tail(s) \in Seq(S) /\ Len(s) \in Nat /\ Len(s) >= 1
           /\ DOMAIN Tail(s) = 1..(Len(s) - 1) /\ DOMAIN s = 1..Len(s)
           /\ Tail(s) = << >> => Len(s) = 1
           /\ \A i \in DOMAIN Tail(s) : i \in Nat /\ i + 1 \in DOMAIN s /\ i + 1 # 1 /\ Tail(s)[i] = s[i + 1]
<1>1. Len(s) \in Nat /\ DOMAIN s = 1..Len(s)
  BY LenProperties
<1>2. Tail(s) \in Seq(S) /\ Len(Tail(s)) = Len(s) - 1 /\ \A i \in 1..Len(Tail(s)) : Tail(s)[i] = s[i + 1]
  BY HeadTailProperties
<1>3. Len(Tail(s)) \in Nat /\ DOMAIN Tail(s) = 1..Len(Tail(s))
  BY <1>2, LenProperties
<1>4. Tail(s) = << >> => Len(Tail(s)) = 0
  BY EmptySeq
<1> QED BY <1>1, <1>2, <1>3, <1>4

(* The box opens on the files of different paths. *)
LEMMA BulkStarts == BulkInit => BulkInv
<1> SUFFICES ASSUME BulkInit PROVE BulkInv
  OBVIOUS
<1>1. /\ rows = [i \in DOMAIN Listed0 |-> [old |-> Listed0[i], new |-> Listed0[i]]]
      /\ stage = "edit" /\ lost = {} /\ others = 0
      /\ entry = [p \in Paths |-> IF \E i \in DOMAIN Listed0 : PathOf[Listed0[i]] = p THEN p ELSE "none"]
  BY DEF BulkInit
<1>2. Len(Listed0) \in Nat /\ DOMAIN Listed0 = 1..Len(Listed0)
      /\ \A i \in DOMAIN Listed0 : Listed0[i] \in Name \ {""}
  BY BulkAssumption, SeqIsFunction
<1>3. \A i \in DOMAIN Listed0 : Listed0[i] \in Name \ {""}
  BY <1>2
<1>4. rows \in Seq([old : Name \ {""}, new : Name]) /\ DOMAIN rows = DOMAIN Listed0
  <2>1. rows \in [1..Len(Listed0) -> [old : Name \ {""}, new : Name]]
    BY <1>1, <1>2
  <2> QED BY <2>1, <1>1, <1>2, FunctionIsSeq
<1>5. \A i \in DOMAIN rows : OldPath(i) = PathOf[Listed0[i]] /\ OldPath(i) \in Paths
  BY <1>1, <1>3, <1>4 DEF OldPath, Paths
<1>6. \A i \in DOMAIN rows : entry[OldPath(i)] = OldPath(i)
  BY <1>1, <1>4, <1>5
<1>7. \A i, j \in DOMAIN rows : OldPath(i) = OldPath(j) => i = j
  BY <1>4, <1>5, BulkAssumption
<1> QED BY <1>1, <1>4, <1>6, <1>7 DEF BulkInv, BulkTypes, NothingReplaced, OldPath

(* The old names are not touched in the editing. *)
LEMMA EditingKeeps ==
    ASSUME BulkInv, UNCHANGED <<stage, entry, lost, others>>, stage = "edit",
           rows' \in Seq([old : Name \ {""}, new : Name]), DOMAIN rows' = DOMAIN rows,
           \A i \in DOMAIN rows : rows'[i].old = rows[i].old
    PROVE  BulkInv'
BY DEF BulkInv, BulkTypes, NothingReplaced, OldPath

(* The first row is done and removed: the others keep their files. *)
LEMMA RowRemoved ==
    ASSUME BulkInv, RowDone, rows # << >>, others' = others, DOMAIN entry' = Paths,
           lost' \subseteq Unnoticed,
           others = 0 => \A i \in DOMAIN rows : i # 1 => entry'[OldPath(i)] = OldPath(i)
    PROVE  BulkInv'
<1>1. /\ rows \in Seq([old : Name \ {""}, new : Name])
      /\ rows' = Tail(rows) /\ stage' = IF Len(rows) = 1 THEN "closed" ELSE "look"
      /\ others \in Nat
  BY DEF BulkInv, BulkTypes, RowDone
<1>2. /\ rows' \in Seq([old : Name \ {""}, new : Name])
      /\ rows' = << >> => Len(rows) = 1
      /\ \A i \in DOMAIN rows' : i \in Nat /\ i + 1 \in DOMAIN rows /\ i + 1 # 1 /\ rows'[i] = rows[i + 1]
  BY <1>1, TailOf
<1>3. \A i \in DOMAIN rows' : OldPath(i)' = OldPath(i + 1)
  BY <1>2 DEF OldPath
<1>4. \A i, j \in DOMAIN rows' : OldPath(i)' = OldPath(j)' => i = j
  <2> SUFFICES ASSUME NEW i \in DOMAIN rows', NEW j \in DOMAIN rows', OldPath(i)' = OldPath(j)'
               PROVE  i = j
    OBVIOUS
  <2>1. i \in Nat /\ j \in Nat /\ i + 1 \in DOMAIN rows /\ j + 1 \in DOMAIN rows
    BY <1>2
  <2>2. OldPath(i + 1) = OldPath(j + 1)
    BY <1>3
  <2>3. i + 1 = j + 1
    BY <2>1, <2>2 DEF BulkInv
  <2> QED BY <2>1, <2>3
<1>5. NothingReplaced'
  BY <1>2, <1>3 DEF NothingReplaced, OldPath, Unnoticed
<1>6. BulkTypes'
  BY <1>1, <1>2 DEF BulkTypes
<1>7. stage' \in {"confirm", "look", "rename"} => rows' # << >>
  BY <1>1, <1>2
<1> QED BY <1>1, <1>4, <1>5, <1>6, <1>7 DEF BulkInv

(* A cell, a substitution and a reset write only new names. *)
LEMMA EditingSteps ==
    ASSUME BulkInv, \/ \E i \in DOMAIN rows, n \in Name : CellEdited(i, n)
                    \/ \E S \in SUBSET DOMAIN rows : \E f \in [S -> Name] : ApplyReplace(S, f)
                    \/ ResetModel
    PROVE  BulkInv'
<1> DEFINE RowType == [old : Name \ {""}, new : Name]
<1>1. /\ rows \in Seq(RowType) /\ Len(rows) \in Nat /\ DOMAIN rows = 1..Len(rows)
      /\ rows \in [DOMAIN rows -> RowType] /\ \A i \in DOMAIN rows : rows[i] \in RowType
  BY SeqIsFunction, LenProperties DEF BulkInv, BulkTypes
<1>2. SUFFICES ASSUME UNCHANGED <<stage, entry, lost, others>>, stage = "edit",
                      rows' \in [DOMAIN rows -> RowType], \A i \in DOMAIN rows : rows'[i].old = rows[i].old
               PROVE  BulkInv'
  <2>1. ASSUME NEW i \in DOMAIN rows, NEW n \in Name, CellEdited(i, n)
        PROVE  /\ UNCHANGED <<stage, entry, lost, others>> /\ stage = "edit"
               /\ rows' \in [DOMAIN rows -> RowType] /\ \A j \in DOMAIN rows : rows'[j].old = rows[j].old
    <3>1. rows' = [rows EXCEPT ![i].new = n]
      BY <2>1 DEF CellEdited
    <3>2. \A j \in DOMAIN rows : rows'[j] = IF j = i THEN [rows[i] EXCEPT !.new = n] ELSE rows[j]
      BY <1>1, <3>1
    <3>3. [rows[i] EXCEPT !.new = n] \in RowType /\ [rows[i] EXCEPT !.new = n].old = rows[i].old
      BY <1>1
    <3>4. rows' \in [DOMAIN rows -> RowType]
      BY <1>1, <3>1, <3>2, <3>3
    <3> QED BY <2>1, <3>2, <3>3, <3>4 DEF CellEdited
  <2>2. ASSUME NEW S \in SUBSET DOMAIN rows, NEW f \in [S -> Name], ApplyReplace(S, f)
        PROVE  /\ UNCHANGED <<stage, entry, lost, others>> /\ stage = "edit"
               /\ rows' \in [DOMAIN rows -> RowType] /\ \A j \in DOMAIN rows : rows'[j].old = rows[j].old
    <3>1. \A j \in DOMAIN rows :
            LET r == IF j \in S THEN [rows[j] EXCEPT !.new = f[j]] ELSE rows[j]
            IN  r \in RowType /\ r.old = rows[j].old
      BY <1>1
    <3> QED BY <2>2, <3>1 DEF ApplyReplace
  <2>3. ASSUME ResetModel
        PROVE  /\ UNCHANGED <<stage, entry, lost, others>> /\ stage = "edit"
               /\ rows' \in [DOMAIN rows -> RowType] /\ \A j \in DOMAIN rows : rows'[j].old = rows[j].old
    <3>1. \A j \in DOMAIN rows : LET r == [rows[j] EXCEPT !.new = rows[j].old]
                                 IN  r \in RowType /\ r.old = rows[j].old
      BY <1>1
    <3> QED BY <2>3, <3>1 DEF ResetModel
  <2> QED BY <2>1, <2>2, <2>3
<1>3. rows' \in Seq(RowType) /\ DOMAIN rows' = DOMAIN rows
  BY <1>1, <1>2, FunctionIsSeq
<1> QED BY <1>2, <1>3, EditingKeeps

(* The check of the table, its dialog and the closing change the stage only.*)
LEMMA CheckingSteps ==
    ASSUME BulkInv, RenameItems \/ Close \/ \E b \in BOOLEAN : Confirm(b)
    PROVE  BulkInv'
<1>1. UNCHANGED <<rows, entry, lost, others>> /\ stage' \in {"edit", "confirm", "look", "closed"}
  BY DEF RenameItems, Close, Confirm
<1>2. stage' \in {"confirm", "look"} => rows # << >>
  BY DEF RenameItems, Close, Confirm
<1> QED BY <1>1, <1>2 DEF BulkInv, BulkTypes, NothingReplaced, OldPath

(* The first row is skipped, or it is seen that its new name is free. *)
LEMMA LookingSteps ==
    ASSUME BulkInv, LookAgain
    PROVE  BulkInv'
<1>1. stage = "look" /\ rows # << >> /\ UNCHANGED <<entry, lost, others>>
  BY DEF LookAgain, BulkInv
<1>2. CASE ~Renames(rows[1])
  <2>1. RowDone /\ DOMAIN entry' = Paths /\ lost' \subseteq Unnoticed
    BY <1>1, <1>2 DEF LookAgain, BulkInv, BulkTypes, NothingReplaced, Unnoticed
  <2>2. others = 0 => \A i \in DOMAIN rows : i # 1 => entry'[OldPath(i)] = OldPath(i)
    BY <1>1 DEF BulkInv, NothingReplaced, OldPath
  <2> QED BY <1>1, <2>1, <2>2, RowRemoved
<1>3. CASE Renames(rows[1])
  <2>1. rows' = rows /\ stage' = IF Exists(PathOf[rows[1].new]) THEN "edit" ELSE "rename"
    BY <1>3 DEF LookAgain
  <2>2. stage' = "rename" => entry[PathOf[rows[1].new]] \in Unnoticed
    BY <2>1 DEF Exists, Unnoticed
  <2> QED BY <1>1, <1>3, <2>1, <2>2 DEF BulkInv, BulkTypes, NothingReplaced, OldPath, Renames
<1> QED BY <1>2, <1>3

(* The rename: as no other program took part, what it replaces is no file *)
(* of another row. *)
LEMMA RenamingSteps ==
    ASSUME BulkInv, NEW works \in BOOLEAN, DoRename(works)
    PROVE  BulkInv'
<1> DEFINE RowType == [old : Name \ {""}, new : Name]
<1>1. PICK from : from = PathOf[rows[1].old]
  OBVIOUS
<1>2. PICK to : to = PathOf[rows[1].new]
  OBVIOUS
<1>3. /\ stage = "rename" /\ rows # << >> /\ others' = others
      /\ Renames(rows[1]) /\ entry[to] \in Unnoticed
  BY <1>2 DEF DoRename, BulkInv
<1>4. rows[1] \in RowType /\ 1 \in DOMAIN rows /\ \A i \in DOMAIN rows : rows[i] \in RowType
  <2>1. rows \in Seq(RowType)
    BY DEF BulkInv, BulkTypes
  <2>2. Len(rows) \in Nat /\ Len(rows) >= 1 /\ DOMAIN rows = 1..Len(rows)
    BY <1>3, <2>1, TailOf
  <2>3. \A i \in DOMAIN rows : rows[i] \in RowType
    BY <2>1, SeqIsFunction
  <2>4. 1 \in DOMAIN rows
    BY <2>2
  <2> QED BY <2>3, <2>4
<1>5. from \in Paths /\ to \in Paths
  BY <1>1, <1>2, <1>3, <1>4 DEF Renames, Paths
<1>6. CASE entry[from] = "none" \/ ~works
  <2>1. stage' = "edit" /\ UNCHANGED <<rows, entry, lost>>
    BY <1>1, <1>6 DEF DoRename
  <2> QED BY <1>3, <2>1 DEF BulkInv, BulkTypes, NothingReplaced, OldPath
<1>7. CASE ~(entry[from] = "none" \/ ~works)
  <2>1. /\ entry' = IF from = to THEN entry ELSE [entry EXCEPT ![from] = "none", ![to] = entry[from]]
        /\ lost' = IF from = to THEN lost ELSE lost \cup {entry[to]}
        /\ RowDone
    BY <1>1, <1>2, <1>7 DEF DoRename
  <2>2. DOMAIN entry' = Paths /\ lost' \subseteq Unnoticed
    BY <1>3, <2>1 DEF BulkInv, BulkTypes, NothingReplaced, Unnoticed
  <2>3. ASSUME others = 0, NEW i \in DOMAIN rows, i # 1
        PROVE  entry'[OldPath(i)] = OldPath(i)
    <3>1. entry[OldPath(i)] = OldPath(i) /\ OldPath(i) \in Paths
      BY <1>4, <2>3 DEF BulkInv, NothingReplaced, OldPath, Paths
    <3>2. OldPath(i) # from
      BY <1>1, <1>4, <2>3 DEF BulkInv, OldPath
    <3>3. OldPath(i) # to
      BY <1>3, <3>1, BulkAssumption DEF Unnoticed
    <3> QED BY <1>5, <2>1, <3>1, <3>2, <3>3 DEF BulkInv, BulkTypes
  <2> QED BY <1>3, <2>1, <2>2, <2>3, RowRemoved
<1> QED BY <1>6, <1>7

(* What other programs put where the box just looked is not seen by it. *)
LEMMA OthersKeep ==
    ASSUME BulkInv, NEW p \in Paths, NEW e \in {"file", "dangling", "none"}, OtherProgram(p, e)
    PROVE  BulkInv'
<1>1. PICK x : x = IF e = "file" /\ stage = "rename" /\ p = PathOf[rows[1].new] THEN "unseen" ELSE e
  OBVIOUS
<1>2. entry' = [entry EXCEPT ![p] = x] /\ UNCHANGED <<rows, stage, lost>> /\ others' = others + 1
  BY <1>1 DEF OtherProgram
<1>3. BulkTypes' /\ others' # 0
  <2>1. others \in Nat /\ DOMAIN entry = Paths
    BY DEF BulkInv, BulkTypes
  <2>2. others' \in Nat /\ others' # 0
    BY <1>2, <2>1
  <2>3. DOMAIN entry' = Paths
    BY <1>2, <2>1
  <2> QED BY <1>2, <2>2, <2>3 DEF BulkInv, BulkTypes
<1>4. stage' = "rename" => Renames(rows'[1]) /\ entry'[PathOf[rows'[1].new]] \in Unnoticed
  <2> SUFFICES ASSUME stage = "rename"
               PROVE  Renames(rows[1]) /\ entry'[PathOf[rows[1].new]] \in Unnoticed
    BY <1>2 DEF Renames
  <2>1. PICK to : to = PathOf[rows[1].new]
    OBVIOUS
  <2>2. Renames(rows[1]) /\ entry[to] \in Unnoticed /\ DOMAIN entry = Paths
    BY <2>1 DEF BulkInv, BulkTypes
  <2>3. p = to => x \in Unnoticed
    BY <1>1, <2>1 DEF Unnoticed
  <2>4. entry'[to] \in Unnoticed
    BY <1>2, <2>2, <2>3
  <2> QED BY <2>1, <2>2, <2>4
<1> QED BY <1>2, <1>3, <1>4 DEF BulkInv, NothingReplaced, OldPath

LEMMA BulkKeeps == BulkInv /\ [BulkNext]_bulkVars => BulkInv'
<1> SUFFICES ASSUME BulkInv, [BulkNext]_bulkVars
             PROVE  BulkInv'
  OBVIOUS
<1>1. CASE \/ \E i \in DOMAIN rows, n \in Name : CellEdited(i, n)
           \/ \E S \in SUBSET DOMAIN rows : \E f \in [S -> Name] : ApplyReplace(S, f)
           \/ ResetModel
  BY <1>1, EditingSteps
<1>2. CASE RenameItems \/ Close \/ \E b \in BOOLEAN : Confirm(b)
  BY <1>2, CheckingSteps
<1>3. CASE LookAgain
  BY <1>3, LookingSteps
<1>4. CASE \E b \in BOOLEAN : DoRename(b)
  BY <1>4, RenamingSteps
<1>5. CASE \E p \in Paths, e \in {"file", "dangling", "none"} : OtherProgram(p, e)
  BY <1>5, OthersKeep
<1>6. CASE UNCHANGED bulkVars
  BY <1>6 DEF bulkVars, BulkInv, BulkTypes, NothingReplaced, OldPath, Renames
<1> QED BY <1>1, <1>2, <1>3, <1>4, <1>5, <1>6 DEF BulkNext

(* A bulk rename replaces no file that access() could have shown it, and *)
(* while no other program interferes every row that is left has its file: *)
(* for any names, spellings and tables (bulk_rename.c:375-450). *)
THEOREM NothingEverReplaced == BulkSpec => []NothingReplaced
<1>1. BulkInv => NothingReplaced
  BY DEF BulkInv
<1> QED BY <1>1, BulkStarts, BulkKeeps, PTL DEF BulkSpec
--------------------
(* The display settings.  What the last OK recorded for a directory is in *)
(* the table, and what the file was last written with in full is in it, *)
(* under the ticks it was given; no size of icons is ever recorded as *)
(* automatic, and a window displays the one that it wants. *)
PaneRecord(p) == /\ p \in [at : Folder \cup {NoFolder}, wanted : {p.wanted}, opening : {p.opening}, is : {p.is}]
                 /\ DOMAIN p.is = Thing
SetRecord(s)  == s \in [is : {s.is}, ticked : SUBSET Tick] /\ DOMAIN s.is = Thing
BoxRecord(b)  == b \in [folder : Folder, is : {b.is}] /\ DOMAIN b.is = Thing
Recording(r)  == r \in [set : {r.set}, loaded : BOOLEAN] /\ SetRecord(r.set)
NotAuto(is)   == is["style"] # "auto"
PaneRight(p)  == /\ PaneRecord(p) /\ NotAuto(p.is)
                 /\ p.at # NoFolder => p.is["style"] = Actual(p.wanted, p.at)

SettingsTypes ==
    /\ DOMAIN shown = Pane /\ \A p \in Pane : PaneRight(shown[p])
    /\ \A b \in boxes : BoxRecord(b) /\ NotAuto(b.is)
    /\ DOMAIN settingsTable = Folder /\ DOMAIN xmlFile = Folder
    /\ \A d \in Folder : /\ SetRecord(settingsTable[d]) /\ NotAuto(settingsTable[d].is)
                         /\ SetRecord(xmlFile[d]) /\ NotAuto(xmlFile[d].is)
    /\ recorded \in [now : {recorded.now}, filed : {recorded.filed}]
    /\ DOMAIN recorded.now = Folder /\ DOMAIN recorded.filed = Folder
    /\ \A d \in Folder : Recording(recorded.now[d]) /\ Recording(recorded.filed[d])

(* A set has what is kept of a recording. *)
Holds(set, r) == \A k \in Kept(r) : k \in AboutAll(set.ticked) /\ set.is[k] = r.set.is[k]
OnceLoaded(r) == [r EXCEPT !.loaded = TRUE]

SettingsInv ==
    /\ SettingsTypes
    /\ \A d \in Folder : Holds(settingsTable[d], recorded.now[d])
    /\ \A d \in Folder : Holds(xmlFile[d], OnceLoaded(recorded.filed[d]))

(* What the ticks are about. *)
LEMMA StyleIsItsTick ==
    ASSUME NEW ts
    PROVE  /\ "style" \in AboutAll(ts) <=> "style" \in ts
           /\ "details" \in AboutAll(ts) <=> "details" \in ts
           /\ "size" \in AboutAll(ts) <=> "size" \in ts
           /\ "style" \in Thing /\ "details" \in Thing /\ "view" \in Thing /\ "thumbs" \in Thing /\ "size" \in Thing
           /\ ts \in SUBSET Tick => AboutAll(ts) \subseteq Thing
<1>1. \A t : /\ "style" \in About(t) <=> t = "style"
             /\ "details" \in About(t) <=> t = "details"
             /\ "size" \in About(t) <=> t = "size"
  BY DEF About
<1>2. "view" \in About("details") /\ "thumbs" \in About("thumbs") /\ {"style", "details", "thumbs", "size"} \subseteq Tick
  BY DEF About, Tick
<1> QED BY <1>1, <1>2 DEF AboutAll, Thing

LEMMA ActualIsNotAuto ==
    ASSUME NEW wanted, NEW folder
    PROVE  Actual(wanted, folder) # "auto" /\ (wanted # "auto" => Actual(wanted, folder) = wanted)
BY DEF Actual

(* view_autosize. *)
LEMMA AutosizedIs ==
    ASSUME NEW is, DOMAIN is = Thing, NEW when \in BOOLEAN
    PROVE  /\ DOMAIN Autosized(is, when) = Thing
           /\ \A k \in Thing \ {"size"} : Autosized(is, when)[k] = is[k]
           /\ ~when => Autosized(is, when) = is
<1>1. CASE when
  <2>1. PICK f : f = [is EXCEPT !["size"] = FALSE]
    OBVIOUS
  <2>2. DOMAIN f = Thing /\ \A k \in Thing \ {"size"} : f[k] = is[k]
    BY <2>1
  <2> QED BY <1>1, <2>1, <2>2 DEF Autosized
<1>2. CASE ~when
  BY <1>2 DEF Autosized
<1> QED BY <1>1, <1>2

(* display_set_layout. *)
LEMMA LayoutSet ==
    ASSUME NEW p, PaneRecord(p), NEW wanted, NEW details, NEW force \in BOOLEAN,
           NEW q, q = SetLayout(p, wanted, details, force)
    PROVE  /\ PaneRight(q) /\ q.at = p.at /\ q.wanted = wanted /\ q.opening = p.opening
           /\ q.is["style"] = Actual(wanted, p.at) /\ q.is["details"] = details
           /\ \A k \in Thing \ {"style", "details", "size"} : q.is[k] = p.is[k]
           /\ resize = "never" /\ ~force => q.is["size"] = p.is["size"]
<1>1. PICK v : v = Actual(wanted, p.at)
  OBVIOUS
<1>2. PICK when \in BOOLEAN : when = (force \/ resize = "always" \/ (resize = "style" /\ (p.wanted # wanted \/ p.is["details"] # details)))
  OBVIOUS
<1>3. PICK f : f = [p.is EXCEPT !["style"] = v, !["details"] = details]
  OBVIOUS
<1>4. DOMAIN f = Thing /\ f["style"] = v /\ f["details"] = details
      /\ \A k \in Thing \ {"style", "details"} : f[k] = p.is[k]
  <2>1. "style" \in Thing /\ "details" \in Thing
    BY StyleIsItsTick
  <2>2. DOMAIN p.is = Thing
    BY DEF PaneRecord
  <2> QED BY <1>3, <2>1, <2>2
<1>5. PICK g : g = Autosized(f, when)
  OBVIOUS
<1>6. DOMAIN g = Thing /\ (\A k \in Thing \ {"size"} : g[k] = f[k]) /\ (~when => g = f)
  BY <1>4, <1>5, AutosizedIs
<1>7. q = [p EXCEPT !.wanted = wanted, !.is = g]
  BY <1>1, <1>2, <1>3, <1>5 DEF SetLayout
<1>8. /\ q.at = p.at /\ q.wanted = wanted /\ q.opening = p.opening /\ q.is = g
      /\ q \in [at : Folder \cup {NoFolder}, wanted : {wanted}, opening : {p.opening}, is : {g}]
  BY <1>7 DEF PaneRecord
<1>9. v # "auto"
  BY <1>1, ActualIsNotAuto
<1>10. "style" \in Thing /\ "details" \in Thing /\ "size" \in Thing
  BY StyleIsItsTick
<1>11. g["style"] = v /\ g["details"] = details /\ \A k \in Thing \ {"style", "details", "size"} : g[k] = p.is[k]
  BY <1>4, <1>6, <1>10
<1>12. resize = "never" /\ ~force => g["size"] = p.is["size"]
  <2>1. resize = "never" /\ ~force => ~when
    BY <1>2
  <2> QED BY <1>4, <1>6, <1>10, <2>1
<1>13. PaneRight(q)
  BY <1>1, <1>6, <1>8, <1>9, <1>11 DEF PaneRight, PaneRecord, NotAuto
<1> QED BY <1>1, <1>8, <1>11, <1>12, <1>13

(* What is recorded for a directory goes over what is there. *)
LEMMA SetsOverlaid ==
    ASSUME NEW p, PaneRecord(p), NEW set, SetRecord(set), NotAuto(set.is), NEW wanted, NEW details, NEW force \in BOOLEAN,
           "style" \in set.ticked => wanted = set.is["style"],
           "details" \in set.ticked => details = set.is["details"],
           \A k \in Thing \ {"style", "details", "size"} : k \in AboutAll(set.ticked) => p.is[k] = set.is[k],
           resize = "never" /\ "size" \in set.ticked => ~force /\ p.is["size"] = set.is["size"],
           NEW q, q = SetLayout(p, wanted, details, force)
    PROVE  \A k \in AboutAll(set.ticked) \ Resized : q.is[k] = set.is[k]
<1> SUFFICES ASSUME NEW k \in AboutAll(set.ticked) \ Resized
             PROVE  q.is[k] = set.is[k]
  OBVIOUS
<1>0. /\ q.is["style"] = Actual(wanted, p.at) /\ q.is["details"] = details
      /\ \A x \in Thing \ {"style", "details", "size"} : q.is[x] = p.is[x]
      /\ resize = "never" /\ ~force => q.is["size"] = p.is["size"]
  BY LayoutSet
<1>1. k \in Thing
  BY StyleIsItsTick DEF SetRecord
<1>2. CASE k = "style"
  <2>1. wanted = set.is["style"] /\ wanted # "auto"
    BY <1>2, StyleIsItsTick DEF NotAuto
  <2> QED BY <1>0, <1>2, <2>1, ActualIsNotAuto
<1>3. CASE k = "details"
  BY <1>0, <1>3, StyleIsItsTick
<1>4. CASE k = "size"
  <2>1. "size" \in set.ticked
    BY <1>4, StyleIsItsTick
  <2>2. resize = "never"
    BY <1>4 DEF Resized
  <2> QED BY <1>0, <1>4, <2>1, <2>2
<1>5. CASE k \in Thing \ {"style", "details", "size"}
  BY <1>0, <1>5
<1> QED BY <1>1, <1>2, <1>3, <1>4, <1>5

LEMMA OverlaidIs ==
    ASSUME NEW is, NEW set, NEW f, f = Overlaid(is, set)
    PROVE  DOMAIN f = Thing /\ \A k \in Thing : k \in AboutAll(set.ticked) => f[k] = set.is[k]
BY DEF Overlaid

(* A window that is opened, and one that goes to a directory, displays it *)
(* by the table. *)
UsesTable(p, d) ==
    /\ PaneRight(p) /\ p.at = d
    /\ \A k \in AboutAll(settingsTable[d].ticked) \ Resized : p.is[k] = settingsTable[d].is[k]

LEMMA OpenedByTable ==
    ASSUME SettingsTypes, NEW d \in Folder, NEW src
    PROVE  UsesTable(NewPane(d, src), d)
<1>1. PICK set : set = settingsTable[d]
  OBVIOUS
<1>2. PICK base : base = [k \in Thing |-> IF src # NoFolder /\ k # "size" THEN shown[src].is[k] ELSE ByDefault[k]]
  OBVIOUS
<1>3. PICK f : f = Overlaid(base, set)
  OBVIOUS
<1>4. PICK p : p = [at |-> d, wanted |-> "unknown", opening |-> TRUE, is |-> f]
  OBVIOUS
<1>5. PICK other : other = IF src # NoFolder THEN shown[src].wanted ELSE "auto"
  OBVIOUS
<1>6. PICK wanted : wanted = IF "style" \in set.ticked THEN set.is["style"] ELSE other
  OBVIOUS
<1>7. PICK force \in BOOLEAN : force = ~("size" \in set.ticked /\ resize = "never")
  OBVIOUS
<1>8. PICK q : q = SetLayout(p, wanted, f["details"], force)
  OBVIOUS
<1>9. NewPane(d, src) = q
  BY <1>1, <1>2, <1>3, <1>4, <1>5, <1>6, <1>7, <1>8 DEF NewPane
<1>10. SetRecord(set) /\ NotAuto(set.is)
  BY <1>1 DEF SettingsTypes
<1>11. DOMAIN f = Thing /\ \A k \in Thing : k \in AboutAll(set.ticked) => f[k] = set.is[k]
  BY <1>3, OverlaidIs
<1>12. PaneRecord(p) /\ p.at = d /\ p.is = f
  BY <1>4, <1>11 DEF PaneRecord
<1>13. \A k \in AboutAll(set.ticked) \ Resized : q.is[k] = set.is[k]
  <2>1. "details" \in set.ticked => f["details"] = set.is["details"]
    BY <1>11, StyleIsItsTick
  <2>2. resize = "never" /\ "size" \in set.ticked => ~force /\ p.is["size"] = set.is["size"]
    BY <1>7, <1>11, <1>12, StyleIsItsTick
  <2>3. \A k \in Thing \ {"style", "details", "size"} : k \in AboutAll(set.ticked) => p.is[k] = set.is[k]
    BY <1>11, <1>12
  <2> QED BY <1>6, <1>8, <1>10, <1>12, <2>1, <2>2, <2>3, SetsOverlaid
<1>14. PaneRight(q) /\ q.at = d
  BY <1>8, <1>12, LayoutSet
<1> QED BY <1>1, <1>9, <1>13, <1>14 DEF UsesTable

LEMMA WentByTable ==
    ASSUME SettingsTypes, NEW d \in Folder, NEW p, PaneRecord(p), p.at = d
    PROVE  UsesTable(CheckSettings(p), d)
<1>1. PICK set : set = settingsTable[d]
  OBVIOUS
<1>2. PICK f : f = Overlaid(p.is, set)
  OBVIOUS
<1>3. PICK g : g = [f EXCEPT !["details"] = p.is["details"]]
  OBVIOUS
<1>4. PICK when \in BOOLEAN : when = ("details" \in set.ticked /\ resize # "never")
  OBVIOUS
<1>5. PICK h : h = Autosized(g, when)
  OBVIOUS
<1>6. PICK q : q = [p EXCEPT !.is = h]
  OBVIOUS
<1>7. PICK other : other = IF "details" \in set.ticked THEN p.is["style"] ELSE p.wanted
  OBVIOUS
<1>8. PICK wanted : wanted = IF "style" \in set.ticked THEN set.is["style"] ELSE other
  OBVIOUS
<1>f. PICK force \in BOOLEAN : force = FALSE
  OBVIOUS
<1>9. PICK r : r = SetLayout(q, wanted, f["details"], force)
  OBVIOUS
<1>10. CheckSettings(p) = r
  BY <1>1, <1>2, <1>3, <1>4, <1>5, <1>6, <1>7, <1>8, <1>f, <1>9 DEF CheckSettings
<1>11. SetRecord(set) /\ NotAuto(set.is)
  BY <1>1 DEF SettingsTypes
<1>12. DOMAIN f = Thing /\ \A k \in Thing : k \in AboutAll(set.ticked) => f[k] = set.is[k]
  BY <1>2, OverlaidIs
<1>13. "details" \in Thing /\ "size" \in Thing
  BY StyleIsItsTick
<1>14. DOMAIN g = Thing /\ \A k \in Thing \ {"details"} : g[k] = f[k]
  BY <1>3, <1>12
<1>15. DOMAIN h = Thing /\ (\A k \in Thing \ {"size"} : h[k] = g[k]) /\ (~when => h = g)
  BY <1>5, <1>14, AutosizedIs
<1>16. /\ q.at = p.at /\ q.wanted = p.wanted /\ q.opening = p.opening /\ q.is = h
       /\ q \in [at : Folder \cup {NoFolder}, wanted : {p.wanted}, opening : {p.opening}, is : {h}]
  BY <1>6 DEF PaneRecord
<1>17. PaneRecord(q) /\ q.at = d
  BY <1>15, <1>16 DEF PaneRecord
<1>18. \A k \in AboutAll(set.ticked) \ Resized : r.is[k] = set.is[k]
  <2>1. "details" \in set.ticked => f["details"] = set.is["details"]
    BY <1>12, <1>13, StyleIsItsTick
  <2>2. resize = "never" /\ "size" \in set.ticked => q.is["size"] = set.is["size"]
    <3>1. resize = "never" => h["size"] = f["size"]
      BY <1>4, <1>13, <1>14, <1>15
    <3>2. "size" \in set.ticked => f["size"] = set.is["size"]
      BY <1>12, <1>13, StyleIsItsTick
    <3> QED BY <1>16, <3>1, <3>2
  <2>3. \A k \in Thing \ {"style", "details", "size"} : k \in AboutAll(set.ticked) => q.is[k] = set.is[k]
    BY <1>12, <1>14, <1>15, <1>16
  <2> QED BY <1>8, <1>f, <1>9, <1>11, <1>17, <2>1, <2>2, <2>3, SetsOverlaid
<1>19. PaneRight(r) /\ r.at = d
  BY <1>9, <1>17, LayoutSet
<1> QED BY <1>1, <1>10, <1>18, <1>19 DEF UsesTable

LEMMA ShutPane == PaneRight(Shut) /\ Shut.at = NoFolder
<1>1. ByDefault["style"] = "large" /\ DOMAIN ByDefault = Thing
  BY StyleIsItsTick DEF ByDefault
<1> QED BY <1>1 DEF PaneRight, PaneRecord, NotAuto, Shut

(* Only the windows change: each is as it was, is shut, changes what it *)
(* shows where it is (if it is opening, at most its size), or goes *)
(* somewhere, once it is open, and displays that by the table. *)
PanesChange ==
    /\ DOMAIN shown' = Pane
    /\ \A p \in Pane :
         \/ shown'[p] = shown[p] \/ shown'[p] = Shut
         \/ /\ PaneRight(shown'[p]) /\ shown'[p].at = shown[p].at
            /\ shown[p].opening /\ shown[p].at # NoFolder =>
                  \A k \in Thing \ ResizedIn(shown[p].at) : shown'[p].is[k] = shown[p].is[k]
         \/ /\ \E d \in Folder : UsesTable(shown'[p], d)
            /\ ~shown[p].opening \/ shown[p].at = NoFolder
UsedNow ==
    \A p \in Pane :
        LET d == shown'[p].at IN
        /\ d # NoFolder /\ d # shown[p].at => \A k \in Kept(recorded.now[d]) \ Resized :
                                                 shown'[p].is[k] = recorded.now[d].set.is[k]
        /\ d # NoFolder /\ d = shown[p].at /\ shown[p].opening => \A k \in Thing \ ResizedIn(d) :
                                                 shown'[p].is[k] = shown[p].is[k]

LEMMA PanesKeep ==
    ASSUME SettingsInv, PanesChange, UNCHANGED <<settingsTable, xmlFile, boxes, recorded>>
    PROVE  SettingsInv' /\ UsedNow
<1>1. \A p \in Pane : PaneRight(shown'[p])
  <2> SUFFICES ASSUME NEW p \in Pane
               PROVE  PaneRight(shown'[p])
    OBVIOUS
  <2>1. CASE shown'[p] = shown[p]
    BY <2>1 DEF SettingsInv, SettingsTypes
  <2>2. CASE shown'[p] = Shut
    BY <2>2, ShutPane
  <2>3. CASE \E d \in Folder : UsesTable(shown'[p], d)
    BY <2>3 DEF UsesTable
  <2> QED BY <2>1, <2>2, <2>3 DEF PanesChange
<1>2. SettingsTypes'
  <2>1. \A p \in Pane : PaneRight(shown[p])'
    BY <1>1 DEF PaneRight, PaneRecord, NotAuto
  <2> QED BY <2>1 DEF SettingsInv, SettingsTypes, PanesChange
<1>3. SettingsInv'
  BY <1>2 DEF SettingsInv
<1>4. ASSUME NEW p \in Pane, NEW d, d = shown'[p].at, d # NoFolder, d # shown[p].at,
             NEW k \in Kept(recorded.now[d]) \ Resized
      PROVE  shown'[p].is[k] = recorded.now[d].set.is[k]
  <2>1. d \in Folder /\ UsesTable(shown'[p], d)
    <3>1. PICK c \in Folder : UsesTable(shown'[p], c)
      BY <1>4, ShutPane DEF PanesChange
    <3> QED BY <1>4, <3>1 DEF UsesTable
  <2>2. k \in AboutAll(settingsTable[d].ticked) /\ settingsTable[d].is[k] = recorded.now[d].set.is[k]
    BY <1>4, <2>1 DEF SettingsInv, Holds
  <2> QED BY <1>4, <2>1, <2>2 DEF UsesTable
<1>5. ASSUME NEW p \in Pane, shown'[p].at # NoFolder, shown'[p].at = shown[p].at, shown[p].opening,
             NEW k \in Thing \ ResizedIn(shown[p].at)
      PROVE  shown'[p].is[k] = shown[p].is[k]
  BY <1>5, ShutPane DEF PanesChange
<1> QED BY <1>3, <1>4, <1>5 DEF UsedNow

(* The actions of the windows.  One thing that is shown changes, or the *)
(* layout. *)
LEMMA ToldOtherwise ==
    ASSUME NEW p, PaneRight(p), NEW g, DOMAIN g = Thing, g["style"] = p.is["style"]
    PROVE  PaneRight([p EXCEPT !.is = g]) /\ [p EXCEPT !.is = g].at = p.at
<1>1. PICK q : q = [p EXCEPT !.is = g]
  OBVIOUS
<1>2. /\ q.at = p.at /\ q.wanted = p.wanted /\ q.is = g
      /\ q \in [at : Folder \cup {NoFolder}, wanted : {p.wanted}, opening : {p.opening}, is : {g}]
  BY <1>1 DEF PaneRight, PaneRecord
<1>3. q.opening = p.opening
  BY <1>1 DEF PaneRight, PaneRecord
<1> QED BY <1>1, <1>2, <1>3 DEF PaneRight, PaneRecord, NotAuto

LEMMA ChoiceChanges ==
    ASSUME SettingsTypes, NEW p \in Pane, Choose(p)
    PROVE  PanesChange
<1>1. DOMAIN shown = Pane /\ (\A q \in Pane : PaneRight(shown[q])) /\ PaneRecord(shown[p]) /\ DOMAIN shown[p].is = Thing
  BY DEF SettingsTypes, PaneRight, PaneRecord
<1>2. ~shown[p].opening
  BY DEF Choose, OnScreen
<1>3. ASSUME NEW q, PaneRight(q), q.at = shown[p].at, shown' = [shown EXCEPT ![p] = q]
      PROVE  PanesChange
  BY <1>1, <1>2, <1>3 DEF PanesChange
<1>4. ASSUME NEW k \in Thing \ {"style"}, NEW g, g = [shown[p].is EXCEPT ![k] = ~@]
      PROVE  DOMAIN g = Thing /\ g["style"] = shown[p].is["style"]
  BY <1>1, <1>4, StyleIsItsTick
<1>5. ASSUME NEW k \in Thing \ {"style"}, shown' = [shown EXCEPT ![p].is[k] = ~@]
      PROVE  PanesChange
  <2>1. PICK g : g = [shown[p].is EXCEPT ![k] = ~@]
    OBVIOUS
  <2>2. PICK q : q = [shown[p] EXCEPT !.is = g]
    OBVIOUS
  <2>3. PaneRight(q) /\ q.at = shown[p].at
    BY <1>1, <1>4, <2>1, <2>2, ToldOtherwise
  <2>4. shown' = [shown EXCEPT ![p] = q]
    BY <1>5, <2>1, <2>2
  <2> QED BY <1>3, <2>3, <2>4
<1>6. ASSUME NEW q, PaneRecord(q), q.at = shown[p].at, NEW wanted, NEW details, NEW force \in BOOLEAN,
             shown' = [shown EXCEPT ![p] = SetLayout(q, wanted, details, force)]
      PROVE  PanesChange
  <2>1. PICK r : r = SetLayout(q, wanted, details, force)
    OBVIOUS
  <2>2. PaneRight(r) /\ r.at = shown[p].at
    BY <1>6, <2>1, LayoutSet
  <2> QED BY <1>3, <1>6, <2>1, <2>2
<1>7. \A k \in Alike \cup {"thumbs", "size"} : k \in Thing \ {"style"}
  <2>1. \A k \in Alike : About(k) = {k} /\ k # "style"
    BY SettingsAssumption DEF About
  <2>2. \A k \in Alike : k \in Thing
    BY <2>1 DEF Thing, AboutAll, Tick
  <2> QED BY <2>1, <2>2, StyleIsItsTick
<1>8. ASSUME NEW k \in Alike, NEW q, q = [shown[p] EXCEPT !.is[k] = ~@],
             shown' = [shown EXCEPT ![p] = SetLayout(q, q.wanted, q.is["details"], FALSE)]
      PROVE  PanesChange
  <2>1. PICK g : g = [shown[p].is EXCEPT ![k] = ~@]
    OBVIOUS
  <2>2. q = [shown[p] EXCEPT !.is = g]
    BY <1>8, <2>1
  <2>3. PaneRight(q) /\ q.at = shown[p].at
    BY <1>1, <1>4, <1>7, <2>1, <2>2, ToldOtherwise
  <2> QED BY <1>6, <1>8, <2>3 DEF PaneRight
<1>9. ASSUME NEW g, g = [shown[p].is EXCEPT !["view"] = ~@],
             shown' = [shown EXCEPT ![p].is = Autosized(g, resize # "never")]
      PROVE  PanesChange
  <2>1. PICK h : h = Autosized(g, resize # "never")
    OBVIOUS
  <2>2. DOMAIN g = Thing /\ g["style"] = shown[p].is["style"]
    BY <1>1, <1>9, StyleIsItsTick
  <2>3. DOMAIN h = Thing /\ h["style"] = shown[p].is["style"]
    BY <2>1, <2>2, StyleIsItsTick DEF Autosized
  <2>4. PICK q : q = [shown[p] EXCEPT !.is = h]
    OBVIOUS
  <2>5. PaneRight(q) /\ q.at = shown[p].at
    BY <1>1, <2>3, <2>4, ToldOtherwise
  <2>6. shown' = [shown EXCEPT ![p] = q]
    <3>1. shown' = [shown EXCEPT ![p].is = h]
      BY <1>9, <2>1, Zenon
    <3> QED BY <2>4, <3>1
  <2> QED BY <1>3, <2>5, <2>6
<1>10. ASSUME NEW wanted, NEW details, NEW force \in BOOLEAN,
              shown' = [shown EXCEPT ![p] = SetLayout(shown[p], wanted, details, force)]
       PROVE  PanesChange
  BY <1>1, <1>6, <1>10
<1>11. CASE \E k \in Alike \cup {"thumbs", "size"} : shown' = [shown EXCEPT ![p].is[k] = ~@]
  BY <1>5, <1>7, <1>11
<1>12. CASE \E k \in Alike : LET q == [shown[p] EXCEPT !.is[k] = ~@]
                             IN shown' = [shown EXCEPT ![p] = SetLayout(q, q.wanted, q.is["details"], FALSE)]
  BY <1>8, <1>12
<1>13. CASE shown' = [shown EXCEPT ![p] = SetLayout(@, @.wanted, ~@.is["details"], FALSE)]
  <2>1. PICK details : details = ~shown[p].is["details"]
    OBVIOUS
  <2>2. PICK wanted : wanted = shown[p].wanted
    OBVIOUS
  <2> QED BY <1>10, <1>13, <2>1, <2>2
<1>14. CASE \E bigger \in BOOLEAN : ChangeSize(p, bigger)
  <2>1. PICK bigger \in BOOLEAN : ChangeSize(p, bigger)
    BY <1>14
  <2>2. PICK next : next = IF shown[p].is["style"] # "large" THEN "large" ELSE IF bigger THEN "huge" ELSE "small"
    OBVIOUS
  <2>3. shown' = [shown EXCEPT ![p] = SetLayout(shown[p], next, shown[p].is["details"], FALSE)]
    BY <2>1, <2>2 DEF ChangeSize
  <2> QED BY <1>10, <2>3
<1>15. CASE LET wanted == IF shown[p].wanted = "auto" THEN shown[p].is["style"] ELSE "auto"
            IN shown' = [shown EXCEPT ![p] = SetLayout(@, wanted, @.is["details"], FALSE)]
  BY <1>10, <1>15
<1>16. CASE shown' = [shown EXCEPT ![p] = SetLayout(@, "auto", @.is["details"], TRUE)]
  BY <1>10, <1>16
<1> QED BY <1>9, <1>11, <1>12, <1>13, <1>14, <1>15, <1>16 DEF Choose

(* open_filer_window: only the size may change, and not always. *)
LEMMA OpenedOnScreen ==
    ASSUME SettingsTypes, NEW p \in Pane, OpenFilerWindow(p)
    PROVE  PanesChange
<1>1. DOMAIN shown = Pane /\ PaneRight(shown[p]) /\ PaneRecord(shown[p])
  BY DEF SettingsTypes, PaneRight
<1>2. PICK force \in BOOLEAN : force = ~(resize = "never" /\ "position" \in settingsTable[shown[p].at].ticked)
  OBVIOUS
<1>3. PICK laid : laid = SetLayout(shown[p], shown[p].wanted, shown[p].is["details"], force)
  OBVIOUS
<1>4. PICK q : q = [laid EXCEPT !.opening = FALSE]
  OBVIOUS
<1>5. shown' = [shown EXCEPT ![p] = q]
  BY <1>2, <1>3, <1>4 DEF OpenFilerWindow
<1>6. /\ PaneRight(laid) /\ laid.at = shown[p].at /\ laid.wanted = shown[p].wanted
      /\ laid.is["style"] = Actual(shown[p].wanted, shown[p].at) /\ laid.is["details"] = shown[p].is["details"]
      /\ \A k \in Thing \ {"style", "details", "size"} : laid.is[k] = shown[p].is[k]
      /\ resize = "never" /\ ~force => laid.is["size"] = shown[p].is["size"]
  BY <1>1, <1>3, LayoutSet
<1>7. /\ q.at = laid.at /\ q.wanted = laid.wanted /\ q.opening = FALSE /\ q.is = laid.is
      /\ q \in [at : Folder \cup {NoFolder}, wanted : {q.wanted}, opening : {q.opening}, is : {q.is}]
  BY <1>4, <1>6 DEF PaneRight, PaneRecord
<1>8. PaneRight(q) /\ q.at = shown[p].at
  BY <1>6, <1>7 DEF PaneRight, PaneRecord
<1>9. shown[p].at # NoFolder => \A k \in Thing \ ResizedIn(shown[p].at) : q.is[k] = shown[p].is[k]
  BY <1>1, <1>2, <1>6, <1>7 DEF PaneRight, ResizedIn
<1> QED BY <1>1, <1>5, <1>8, <1>9 DEF PanesChange

(* The actions of the windows, together. *)
LEMMA PaneSteps ==
    ASSUME SettingsInv,
           \/ \E p \in Pane, d \in Folder : GoTo(p, d) \/ \E src \in Pane \cup {NoFolder} : OpenShown(p, d, src)
           \/ \E p \in Pane : OpenFilerWindow(p) \/ CloseShown(p) \/ Choose(p)
    PROVE  SettingsInv' /\ UsedNow
<1>1. SettingsTypes /\ DOMAIN shown = Pane /\ \A p \in Pane : PaneRight(shown[p])
  BY DEF SettingsInv, SettingsTypes
<1>2. ASSUME NEW p \in Pane, NEW d \in Folder, GoTo(p, d)
      PROVE  PanesChange
  <2>1. PICK moved : moved = [shown[p] EXCEPT !.at = d]
    OBVIOUS
  <2>2. /\ moved.at = d /\ moved.is = shown[p].is
        /\ moved \in [at : Folder \cup {NoFolder}, wanted : {moved.wanted}, opening : {moved.opening}, is : {moved.is}]
    BY <1>1, <2>1 DEF PaneRight, PaneRecord
  <2>3. PaneRecord(moved)
    BY <1>1, <2>2 DEF PaneRight, PaneRecord
  <2>4. PICK went : went = CheckSettings(moved)
    OBVIOUS
  <2>5. UsesTable(went, d)
    BY <1>1, <2>2, <2>3, <2>4, WentByTable
  <2>6. shown' = [q \in Pane |-> IF q = p THEN went ELSE IF unique /\ q \in OthersAt(p, d) THEN Shut ELSE shown[q]]
    BY <1>2, <2>1, <2>4 DEF GoTo
  <2>7. ~shown[p].opening
    BY <1>2 DEF GoTo, OnScreen
  <2> QED BY <2>5, <2>6, <2>7 DEF PanesChange
<1>3. ASSUME NEW p \in Pane, NEW d \in Folder, NEW src, OpenShown(p, d, src)
      PROVE  PanesChange
  <2>1. PICK new : new = NewPane(d, src)
    OBVIOUS
  <2>2. shown' = [shown EXCEPT ![p] = new] /\ shown[p].at = NoFolder
    BY <1>3, <2>1 DEF OpenShown
  <2>3. UsesTable(new, d)
    BY <1>1, <2>1, OpenedByTable
  <2> QED BY <1>1, <2>2, <2>3 DEF PanesChange
<1>4. ASSUME NEW p \in Pane, CloseShown(p)
      PROVE  PanesChange
  BY <1>1, <1>4 DEF CloseShown, PanesChange
<1>5. PanesChange
  BY <1>1, <1>2, <1>3, <1>4, ChoiceChanges, OpenedOnScreen
<1>6. UNCHANGED <<settingsTable, xmlFile, boxes, recorded>>
  BY DEF GoTo, OpenShown, OpenFilerWindow, CloseShown, Choose, OnlyShown
<1> QED BY <1>5, <1>6, PanesKeep

(* add_nodes and load_settings: what the file keeps, and what comes of it. *)
LEMMA NodesAdded ==
    ASSUME NEW set, SetRecord(set), NEW r, Recording(r), Holds(set, r)
    PROVE  /\ SetRecord(AddNodes(set)) /\ AddNodes(set).is = set.is
           /\ Holds(AddNodes(set), OnceLoaded(r))
<1>1. PICK t : t = IF "style" \in set.ticked THEN set.ticked \cup {"thumbs"} ELSE set.ticked \ {"thumbs"}
  OBVIOUS
<1>2. PICK new : new = AddNodes(set)
  OBVIOUS
<1>3. new.is = set.is /\ new.ticked = t /\ new \in [is : {set.is}, ticked : {t}]
  BY <1>1, <1>2 DEF AddNodes, SetRecord
<1>4. t \in SUBSET Tick
  BY <1>1 DEF SetRecord, Tick
<1>5. SetRecord(new)
  BY <1>3, <1>4 DEF SetRecord
<1>6. PICK o : o = OnceLoaded(r)
  OBVIOUS
<1>7. o.set = r.set /\ o.loaded = TRUE
  BY <1>6 DEF OnceLoaded, Recording
<1>8. ASSUME NEW k \in Kept(o)
      PROVE  k \in AboutAll(t) /\ set.is[k] = r.set.is[k]
  <2>1. k \in Kept(r) /\ ("style" \notin r.set.ticked => k # "thumbs")
    BY <1>7, <1>8 DEF Kept
  <2>2. k \in AboutAll(set.ticked) /\ set.is[k] = r.set.is[k]
    BY <2>1 DEF Holds
  <2>3. "style" \in r.set.ticked => "style" \in set.ticked
    <3>1. "style" \in r.set.ticked => "style" \in Kept(r)
      BY StyleIsItsTick DEF Kept
    <3> QED BY <3>1, StyleIsItsTick DEF Holds
  <2>4. k \in AboutAll(t)
    <3>1. CASE "style" \in set.ticked
      BY <1>1, <2>2, <3>1 DEF AboutAll
    <3>2. CASE "style" \notin set.ticked
      <4>1. k # "thumbs" /\ t = set.ticked \ {"thumbs"}
        BY <1>1, <2>1, <2>3, <3>2
      <4> QED BY <2>2, <4>1 DEF AboutAll, About
    <3> QED BY <3>1, <3>2
  <2> QED BY <2>2, <2>4
<1>9. Holds(new, o)
  BY <1>3, <1>7, <1>8 DEF Holds
<1> QED BY <1>2, <1>3, <1>5, <1>6, <1>9

LEMMA SetsLoaded ==
    ASSUME NEW set, SetRecord(set), NotAuto(set.is), NEW r, SetRecord(r.set), Holds(set, r)
    PROVE  /\ SetRecord(LoadSettings(set)) /\ NotAuto(LoadSettings(set).is)
           /\ Holds(LoadSettings(set), r)
<1>1. PICK f : f = [k \in Thing |-> IF k \in AboutAll(set.ticked) THEN set.is[k] ELSE ByDefault[k]]
  OBVIOUS
<1>2. PICK new : new = LoadSettings(set)
  OBVIOUS
<1>3. new.is = f /\ new.ticked = set.ticked /\ new \in [is : {f}, ticked : SUBSET Tick]
  BY <1>1, <1>2 DEF LoadSettings, SetRecord
<1>4. DOMAIN f = Thing /\ \A k \in Thing : k \in AboutAll(set.ticked) => f[k] = set.is[k]
  BY <1>1
<1>5. f["style"] # "auto"
  BY <1>1, StyleIsItsTick DEF ByDefault, NotAuto
<1>6. Kept(r) \subseteq Thing
  BY StyleIsItsTick DEF Kept, SetRecord
<1> QED BY <1>2, <1>3, <1>4, <1>5, <1>6 DEF SetRecord, NotAuto, Holds

(* Nothing is recorded, and nothing in the file. *)
LEMMA NothingFiled ==
    /\ SetRecord(Unused) /\ NotAuto(Unused.is) /\ Recording(NeverSaved)
    /\ Holds(Unused, NeverSaved) /\ Holds(Unused, OnceLoaded(NeverSaved))
<1>1. DOMAIN ByDefault = Thing /\ ByDefault["style"] = "large"
  BY StyleIsItsTick DEF ByDefault
<1>2. SetRecord(Unused) /\ NotAuto(Unused.is)
  BY <1>1 DEF Unused, SetRecord, NotAuto
<1>3. Recording(NeverSaved) /\ Kept(NeverSaved) = {} /\ Kept(OnceLoaded(NeverSaved)) = {}
  BY <1>2 DEF Recording, NeverSaved, Kept, OnceLoaded, AboutAll, Unused
<1> QED BY <1>2, <1>3 DEF Holds

LEMMA SettingsStart == SettingsInit => SettingsInv
<1> SUFFICES ASSUME SettingsInit PROVE SettingsInv
  OBVIOUS
<1>4. SettingsTypes
  <2>1. DOMAIN shown = Pane /\ \A p \in Pane : PaneRight(shown[p])
    BY ShutPane DEF SettingsInit
  <2>2. /\ boxes = {} /\ settingsTable = [d \in Folder |-> Unused] /\ xmlFile = [d \in Folder |-> Unused]
        /\ recorded = [now |-> [d \in Folder |-> NeverSaved], filed |-> [d \in Folder |-> NeverSaved]]
    BY DEF SettingsInit
  <2>3. DOMAIN recorded.now = Folder /\ DOMAIN recorded.filed = Folder
        /\ recorded \in [now : {recorded.now}, filed : {recorded.filed}]
        /\ \A d \in Folder : recorded.now[d] = NeverSaved /\ recorded.filed[d] = NeverSaved
    BY <2>2
  <2> QED BY NothingFiled, <2>1, <2>2, <2>3 DEF SettingsTypes
<1>5. \A d \in Folder : settingsTable[d] = Unused /\ xmlFile[d] = Unused /\ recorded.now[d] = NeverSaved /\ recorded.filed[d] = NeverSaved
  BY DEF SettingsInit
<1> QED BY NothingFiled, <1>4, <1>5 DEF SettingsInv

(* A box is opened with what its window shows, or closed without OK. *)
LEMMA BoxOpened ==
    ASSUME SettingsInv, (\E p \in Pane : SaveSettings(p)) \/ \E b \in boxes : CancelBox(b)
    PROVE  SettingsInv' /\ UNCHANGED shown
<1>1. UNCHANGED <<shown, settingsTable, xmlFile, recorded>>
  BY DEF SaveSettings, CancelBox
<1>2. \A b \in boxes' : BoxRecord(b) /\ NotAuto(b.is)
  <2>1. \A b \in boxes : BoxRecord(b) /\ NotAuto(b.is)
    BY DEF SettingsInv, SettingsTypes
  <2>2. ASSUME NEW p \in Pane, SaveSettings(p)
        PROVE  \A b \in boxes' : BoxRecord(b) /\ NotAuto(b.is)
    <3>1. PaneRecord(shown[p]) /\ NotAuto(shown[p].is) /\ shown[p].at # NoFolder
      BY <2>2 DEF SettingsInv, SettingsTypes, PaneRight, SaveSettings, OnScreen
    <3>2. PICK b : b = [folder |-> shown[p].at, is |-> shown[p].is]
      OBVIOUS
    <3>3. b.is = shown[p].is /\ b \in [folder : Folder, is : {b.is}]
      BY <3>1, <3>2 DEF PaneRecord
    <3>4. BoxRecord(b) /\ NotAuto(b.is)
      BY <3>1, <3>3 DEF PaneRecord, BoxRecord
    <3>5. boxes' = boxes \cup {b}
      BY <2>2, <3>2 DEF SaveSettings
    <3> QED BY <2>1, <3>4, <3>5
  <2>3. ASSUME NEW c \in boxes, CancelBox(c)
        PROVE  \A b \in boxes' : BoxRecord(b) /\ NotAuto(b.is)
    BY <2>1, <2>3 DEF CancelBox
  <2> QED BY <2>2, <2>3
<1> QED BY <1>1, <1>2 DEF SettingsInv, SettingsTypes

(* OK: what was ticked is recorded, and written with the rest of the table. *)
LEMMA Responded ==
    ASSUME SettingsInv, NEW dialog \in boxes, NEW ticked \in Ticked,
           NEW outcome \in {"written", "cut short", "not opened"}, Respond(dialog, ticked, outcome)
    PROVE  SettingsInv' /\ UNCHANGED shown
<1>1. PICK new : new = [is |-> dialog.is, ticked |-> ticked]
  OBVIOUS
<1>2. PICK rec : rec = [set |-> new, loaded |-> FALSE]
  OBVIOUS
<1>3. PICK now : now = [recorded.now EXCEPT ![dialog.folder] = rec]
  OBVIOUS
<1>4. /\ boxes' \subseteq boxes /\ shown' = shown
      /\ settingsTable' = [settingsTable EXCEPT ![dialog.folder] = new]
  BY <1>1, <1>2, <1>3 DEF Respond, StoreSettings
<1>5. BoxRecord(dialog) /\ NotAuto(dialog.is)
  BY DEF SettingsInv, SettingsTypes
<1>6. SetRecord(new) /\ NotAuto(new.is)
  BY <1>1, <1>5, SettingsAssumption DEF SetRecord, BoxRecord
<1>7. Recording(rec) /\ Holds(new, rec)
  BY <1>2, <1>6 DEF Recording, Holds, Kept
<1>8. DOMAIN settingsTable' = Folder /\ DOMAIN now = Folder
  BY <1>3, <1>4 DEF SettingsInv, SettingsTypes
<1>9. ASSUME NEW d \in Folder
      PROVE  /\ SetRecord(settingsTable'[d]) /\ NotAuto(settingsTable'[d].is)
             /\ Recording(now[d]) /\ Holds(settingsTable'[d], now[d])
  <2>1. CASE d = dialog.folder
    <3>1. settingsTable'[d] = new /\ now[d] = rec
      BY <1>3, <1>4, <2>1 DEF SettingsInv, SettingsTypes
    <3> QED BY <1>6, <1>7, <3>1
  <2>2. CASE d # dialog.folder
    <3>1. settingsTable'[d] = settingsTable[d] /\ now[d] = recorded.now[d]
      BY <1>3, <1>4, <2>2 DEF SettingsInv, SettingsTypes
    <3> QED BY <3>1 DEF SettingsInv, SettingsTypes
  <2> QED BY <2>1, <2>2
<1>10. PICK filed :
          /\ recorded' = [now |-> now, filed |-> filed]
          /\ \/ filed = now /\ xmlFile' = [d \in Folder |-> AddNodes(settingsTable'[d])]
             \/ filed = [d \in Folder |-> NeverSaved] /\ xmlFile' = [d \in Folder |-> Unused]
             \/ filed = recorded.filed /\ xmlFile' = xmlFile
  BY <1>1, <1>2, <1>3 DEF Respond
<1>11. ASSUME NEW d \in Folder
       PROVE  /\ SetRecord(xmlFile'[d]) /\ NotAuto(xmlFile'[d].is)
              /\ Recording(filed[d]) /\ Holds(xmlFile'[d], OnceLoaded(filed[d]))
  <2>1. CASE filed = now /\ xmlFile' = [c \in Folder |-> AddNodes(settingsTable'[c])]
    <3>1. PICK set : set = settingsTable'[d]
      OBVIOUS
    <3>2. PICK r : r = now[d]
      OBVIOUS
    <3>3. SetRecord(set) /\ NotAuto(set.is) /\ Recording(r) /\ Holds(set, r)
      BY <1>9, <3>1, <3>2
    <3>4. SetRecord(AddNodes(set)) /\ AddNodes(set).is = set.is /\ Holds(AddNodes(set), OnceLoaded(r))
      BY <3>3, NodesAdded
    <3>5. xmlFile'[d] = AddNodes(set) /\ filed[d] = r
      BY <2>1, <3>1, <3>2
    <3> QED BY <3>3, <3>4, <3>5
  <2>2. CASE filed = [c \in Folder |-> NeverSaved] /\ xmlFile' = [c \in Folder |-> Unused]
    <3>1. xmlFile'[d] = Unused /\ filed[d] = NeverSaved
      BY <2>2
    <3> QED BY <3>1, NothingFiled
  <2>3. CASE filed = recorded.filed /\ xmlFile' = xmlFile
    BY <2>3 DEF SettingsInv, SettingsTypes
  <2> QED BY <1>10, <2>1, <2>2, <2>3
<1>12. /\ DOMAIN xmlFile' = Folder /\ DOMAIN filed = Folder
       /\ recorded'.now = now /\ recorded'.filed = filed
       /\ recorded' \in [now : {recorded'.now}, filed : {recorded'.filed}]
  BY <1>8, <1>10 DEF SettingsInv, SettingsTypes
<1>13. SettingsTypes'
  <2>1. DOMAIN shown' = Pane /\ \A p \in Pane : PaneRight(shown[p])'
    BY <1>4 DEF SettingsInv, SettingsTypes, PaneRight, PaneRecord, NotAuto
  <2>2. \A b \in boxes' : BoxRecord(b) /\ NotAuto(b.is)
    BY <1>4 DEF SettingsInv, SettingsTypes
  <2>3. \A d \in Folder : /\ SetRecord(settingsTable'[d]) /\ NotAuto(settingsTable'[d].is)
                          /\ SetRecord(xmlFile'[d]) /\ NotAuto(xmlFile'[d].is)
    BY <1>9, <1>11
  <2>4. \A d \in Folder : Recording(recorded'.now[d]) /\ Recording(recorded'.filed[d])
    BY <1>9, <1>11, <1>12
  <2> QED BY <1>8, <1>12, <2>1, <2>2, <2>3, <2>4 DEF SettingsTypes
<1> QED BY <1>4, <1>9, <1>11, <1>12, <1>13 DEF SettingsInv

(* The filer ends and is started again, with what is in the file. *)
LEMMA StartedAgain ==
    ASSUME SettingsInv, StartAgain
    PROVE  SettingsInv' /\ \A p \in Pane : shown'[p].at = NoFolder
<1>1. PICK now : now = [d \in Folder |-> [recorded.filed[d] EXCEPT !.loaded = TRUE]]
  OBVIOUS
<1>2. /\ shown' = [p \in Pane |-> Shut] /\ boxes' = {} /\ xmlFile' = xmlFile
      /\ settingsTable' = [d \in Folder |-> LoadSettings(xmlFile[d])]
      /\ recorded' = [recorded EXCEPT !.now = now]
  BY <1>1 DEF StartAgain
<1>3. recorded'.now = now /\ recorded'.filed = recorded.filed /\ recorded' \in [now : {now}, filed : {recorded'.filed}]
  BY <1>2 DEF SettingsInv, SettingsTypes
<1>4. ASSUME NEW d \in Folder
      PROVE  /\ SetRecord(settingsTable'[d]) /\ NotAuto(settingsTable'[d].is)
             /\ Recording(now[d]) /\ Holds(settingsTable'[d], now[d])
  <2>1. PICK set : set = xmlFile[d]
    OBVIOUS
  <2>2. PICK r : r = OnceLoaded(recorded.filed[d])
    OBVIOUS
  <2>3. Recording(recorded.filed[d]) /\ SetRecord(set) /\ NotAuto(set.is) /\ Holds(set, r)
    BY <2>1, <2>2 DEF SettingsInv, SettingsTypes
  <2>4. r.set = recorded.filed[d].set /\ r \in [set : {r.set}, loaded : BOOLEAN]
    BY <2>2, <2>3 DEF OnceLoaded, Recording
  <2>5. Recording(r)
    BY <2>3, <2>4 DEF Recording
  <2>6. SetRecord(r.set)
    BY <2>5 DEF Recording
  <2>7. SetRecord(LoadSettings(set)) /\ NotAuto(LoadSettings(set).is) /\ Holds(LoadSettings(set), r)
    BY <2>3, <2>6, SetsLoaded
  <2>8. settingsTable'[d] = LoadSettings(set) /\ now[d] = r
    BY <1>1, <1>2, <2>1, <2>2 DEF OnceLoaded
  <2> QED BY <2>5, <2>7, <2>8
<1>5. SettingsTypes'
  <2>1. DOMAIN shown' = Pane /\ \A p \in Pane : PaneRight(shown[p])'
    BY <1>2, ShutPane DEF PaneRight, PaneRecord, NotAuto
  <2>2. DOMAIN settingsTable' = Folder /\ DOMAIN now = Folder
    BY <1>1, <1>2
  <2>3. DOMAIN xmlFile = Folder /\ DOMAIN recorded.filed = Folder
        /\ \A d \in Folder : SetRecord(xmlFile[d]) /\ NotAuto(xmlFile[d].is) /\ Recording(recorded.filed[d])
    BY DEF SettingsInv, SettingsTypes
  <2> QED BY <1>2, <1>3, <1>4, <2>1, <2>2, <2>3 DEF SettingsTypes
<1>6. \A p \in Pane : shown'[p].at = NoFolder
  BY <1>2, ShutPane
<1> QED BY <1>2, <1>3, <1>4, <1>5, <1>6 DEF SettingsInv

LEMMA SettingsStep == SettingsInv /\ [SettingsNext]_settingsVars => SettingsInv' /\ UsedNow
<1> SUFFICES ASSUME SettingsInv, [SettingsNext]_settingsVars
             PROVE  SettingsInv' /\ UsedNow
  OBVIOUS
<1>1. CASE \/ \E p \in Pane, d \in Folder : GoTo(p, d) \/ \E src \in Pane \cup {NoFolder} : OpenShown(p, d, src)
           \/ \E p \in Pane : OpenFilerWindow(p) \/ CloseShown(p) \/ Choose(p)
  BY <1>1, PaneSteps
<1>2. CASE (\E p \in Pane : SaveSettings(p)) \/ \E b \in boxes : CancelBox(b)
  BY <1>2, BoxOpened DEF UsedNow
<1>3. CASE \E dialog \in boxes, ticked \in Ticked, outcome \in {"written", "cut short", "not opened"} :
             Respond(dialog, ticked, outcome)
  BY <1>3, Responded DEF UsedNow
<1>4. CASE StartAgain
  BY <1>4, StartedAgain DEF UsedNow
<1>5. CASE UNCHANGED settingsVars
  BY <1>5 DEF settingsVars, SettingsInv, SettingsTypes, UsedNow
<1> QED BY <1>1, <1>2, <1>3, <1>4, <1>5 DEF SettingsNext

(* Each time a directory is opened, or a window goes to it, it is displayed *)
(* by what was last recorded for it (filer.c:3405, Help/Manual.html:520), and *)
(* so it comes on the screen; after a restart by what the file was last *)
(* written with in full, if no write has been cut short since; the size *)
(* where windows are never resized automatically, and until they come on *)
(* the screen unless the position is recorded too: for any windows, *)
(* directories, settings and ticks. *)
THEOREM SettingsAlwaysUsed == SettingsSpec => SettingsUsed
<1>1. SettingsInv /\ [SettingsNext]_settingsVars => [UsedNow]_settingsVars
  BY SettingsStep
<1>2. SettingsInv /\ [SettingsNext]_settingsVars => SettingsInv'
  BY SettingsStep
<1> QED BY <1>1, <1>2, SettingsStart, PTL DEF SettingsSpec, SettingsUsed, UsedNow
--------------------
(* Saving by dragging.  A request waits only for a drop, which is finished *)
(* once no request waits; and a box that was told to use the property has *)
(* saved, or the property is on its way to be cleared. *)
DragRecord(d) ==
    d \in [from : {"none", "box", "filer", "other"}, offers : {d.offers}, prop : {d.prop}, dropped : BOOLEAN,
           type : {d.type}, ask : BOOLEAN, wants : {d.wants}, reply : {d.reply}, finished : Nat,
           ok : BOOLEAN, served : BOOLEAN]
BoxState(b) ==
    b \in [open : BOOLEAN, usingXds : BOOLEAN, dataSent : BOOLEAN, running : {b.running},
           told : {b.told}, stored : BOOLEAN, late : BOOLEAN]

(* The target's part. *)
Dropping(d) ==
    /\ DragRecord(d)
    /\ ~d.dropped => d.finished = 0 /\ d.wants = "none"
    /\ d.dropped => d.finished = (IF d.wants = "none" THEN 1 ELSE 0)
    /\ d.ok => d.served /\ d.finished = 1
    /\ d.reply = "S" => d.served
    /\ d.from = "box" => d.offers = {"xds"}

(* The source's part. *)
Boxed(b, d) ==
    /\ BoxState(b)
    /\ b.told = "path" => b.stored
    /\ b.usingXds /\ ~b.stored /\ d.from = "box" =>
           d.dropped /\ (d.prop = "none" \/ (d.reply = "F" /\ d.wants = "xds"))
    /\ b.stored /\ b.open /\ ~b.late => d.from = "box" /\ b.dataSent

SaveInv == Dropping(drag) /\ Boxed(box, drag)

LEMMA NoDragIsFine == Dropping(NoDrag) /\ NoDrag.from = "none" /\ NoDrag.prop = "none" /\ ~NoDrag.dropped
BY DEF Dropping, DragRecord, NoDrag

LEMMA NewBoxIsFine == ASSUME NEW d PROVE Boxed(NewBox, d)
BY DEF Boxed, BoxState, NewBox

(* A request for a format, and gtk_drag_finish. *)
LEMMA AskingKeeps ==
    ASSUME NEW d, Dropping(d), d.dropped, d.finished = 0, NEW format, format # "none"
    PROVE  /\ Dropping(Asks(d, format)) /\ Asks(d, format).from = d.from
           /\ Asks(d, format).prop = d.prop /\ Asks(d, format).dropped
<1>1. PICK e : e = Asks(d, format)
  OBVIOUS
<1>2. /\ e.from = d.from /\ e.offers = d.offers /\ e.prop = d.prop /\ e.dropped = d.dropped /\ e.type = d.type
      /\ e.ask = d.ask /\ e.wants = format /\ e.reply = "none" /\ e.finished = d.finished
      /\ e.ok = d.ok /\ e.served = d.served
  BY <1>1 DEF Asks, Dropping, DragRecord
<1>3. DragRecord(e)
  BY <1>1 DEF Asks, Dropping, DragRecord
<1>4. Dropping(e)
  BY <1>2, <1>3 DEF Dropping
<1> QED BY <1>1, <1>2, <1>4

LEMMA FinishingKeeps ==
    ASSUME NEW d, DragRecord(d), d.dropped, d.finished = 0, NEW ok \in BOOLEAN, ok => d.served,
           d.from = "box" => d.offers = {"xds"}
    PROVE  /\ Dropping(Finish(d, ok)) /\ Finish(d, ok).from = d.from
           /\ Finish(d, ok).prop = d.prop /\ Finish(d, ok).dropped
<1>1. PICK e : e = Finish(d, ok)
  OBVIOUS
<1>2. d = [from |-> d.from, offers |-> d.offers, prop |-> d.prop, dropped |-> d.dropped, type |-> d.type,
           ask |-> d.ask, wants |-> d.wants, reply |-> d.reply, finished |-> d.finished,
           ok |-> d.ok, served |-> d.served]
  BY DEF DragRecord
<1>3. e = [from |-> d.from, offers |-> d.offers, prop |-> d.prop, dropped |-> d.dropped, type |-> d.type,
           ask |-> d.ask, wants |-> "none", reply |-> "none", finished |-> d.finished + 1,
           ok |-> ok, served |-> d.served]
  BY <1>1, <1>2 DEF Finish
<1>4. DragRecord(e)
  BY <1>3 DEF DragRecord
<1>5. Dropping(e) /\ e.from = d.from /\ e.prop = d.prop /\ e.dropped
  BY <1>3, <1>4 DEF Dropping
<1> QED BY <1>1, <1>5

(* The drag changes alone; what a box relies on stays. *)
LEMMA DragAlone ==
    ASSUME SaveInv, box' = box, Dropping(drag'),
           drag'.from = drag.from \/ (drag.from # "box" /\ drag'.from # "box"),
           box.usingXds /\ ~box.stored /\ drag.from = "box" => drag'.dropped /\ drag'.prop = "none"
    PROVE  SaveInv'
BY DEF SaveInv, Boxed

(* Another source begins or ends a drag, answers, or does not. *)
LEMMA OtherSources ==
    ASSUME SaveInv, FilerDrag \/ FilerDataGet \/ OtherDrag \/ OtherDataGet \/ GiveUp \/ OtherEnds
    PROVE  SaveInv'
<1>1. box' = box /\ Dropping(drag) /\ DragRecord(drag)
  BY DEF FilerDrag, FilerDataGet, OtherDrag, OtherDataGet, GiveUp, OtherEnds, SaveInv, Dropping
<1>3. CASE FilerDrag
  <2>1. PICK offers : drag = NoDrag /\ drag' = [NoDrag EXCEPT !.from = "filer", !.offers = offers]
    BY <1>3 DEF FilerDrag
  <2>2. PICK d : d = [NoDrag EXCEPT !.from = "filer", !.offers = offers]
    OBVIOUS
  <2>3. Dropping(d) /\ d.from # "box"
    BY <2>2 DEF Dropping, DragRecord, NoDrag
  <2>4. Dropping(drag') /\ drag'.from # "box" /\ drag.from # "box"
    BY <2>1, <2>2, <2>3, NoDragIsFine
  <2> QED BY <1>1, <2>4, DragAlone
<1>4. CASE OtherDrag
  <2>1. PICK offers, name : drag = NoDrag /\ drag' = [NoDrag EXCEPT !.from = "other", !.offers = offers, !.prop = name]
    BY <1>4 DEF OtherDrag
  <2>2. PICK d : d = [NoDrag EXCEPT !.from = "other", !.offers = offers, !.prop = name]
    OBVIOUS
  <2>3. Dropping(d) /\ d.from # "box"
    BY <2>2 DEF Dropping, DragRecord, NoDrag
  <2>4. Dropping(drag') /\ drag'.from # "box" /\ drag.from # "box"
    BY <2>1, <2>2, <2>3, NoDragIsFine
  <2> QED BY <1>1, <2>4, DragAlone
<1>5. ASSUME NEW r, drag' = [drag EXCEPT !.reply = r], r # "S", drag.wants # "none", drag.reply = "none"
      PROVE  SaveInv'
  <2>1. PICK d : d = [drag EXCEPT !.reply = r]
    OBVIOUS
  <2>2. /\ d.from = drag.from /\ d.offers = drag.offers /\ d.prop = drag.prop /\ d.dropped = drag.dropped
        /\ d.type = drag.type /\ d.ask = drag.ask /\ d.wants = drag.wants /\ d.reply = r
        /\ d.finished = drag.finished /\ d.ok = drag.ok /\ d.served = drag.served /\ DragRecord(d)
    BY <1>1, <2>1 DEF DragRecord
  <2>3. Dropping(d)
    BY <1>1, <1>5, <2>2 DEF Dropping
  <2>4. box.usingXds /\ ~box.stored /\ drag.from = "box" => drag.dropped /\ drag.prop = "none"
    BY <1>5 DEF SaveInv, Boxed
  <2>5. Dropping(drag') /\ drag'.from = drag.from /\ drag'.prop = drag.prop /\ drag'.dropped = drag.dropped
    BY <1>5, <2>1, <2>2, <2>3
  <2> QED BY <1>1, <2>4, <2>5, DragAlone
<1>6. CASE FilerDataGet
  <2>1. PICK r : drag' = [drag EXCEPT !.reply = r] /\ r # "S" /\ drag.wants # "none" /\ drag.reply = "none"
    BY <1>6 DEF FilerDataGet
  <2> QED BY <1>5, <2>1
<1>7. CASE GiveUp
  BY <1>5, <1>7 DEF GiveUp
<1>8. CASE OtherDataGet
  <2>1. PICK r : drag' = [drag EXCEPT !.reply = r, !.served = (r = "S")]
    BY <1>8 DEF OtherDataGet
  <2>2. drag.from = "other" /\ drag.wants # "none" /\ drag.reply = "none"
    BY <1>8 DEF OtherDataGet
  <2>3. PICK served : served = (r = "S")
    OBVIOUS
  <2>4. PICK d : d = [drag EXCEPT !.reply = r, !.served = served]
    OBVIOUS
  <2>5. /\ d.from = drag.from /\ d.offers = drag.offers /\ d.prop = drag.prop /\ d.dropped = drag.dropped
        /\ d.type = drag.type /\ d.ask = drag.ask /\ d.wants = drag.wants /\ d.reply = r
        /\ d.finished = drag.finished /\ d.ok = drag.ok /\ d.served = served
    BY <1>1, <2>4 DEF DragRecord
  <2>6. DragRecord(d)
    <3>1. drag = [from |-> drag.from, offers |-> drag.offers, prop |-> drag.prop, dropped |-> drag.dropped,
           type |-> drag.type, ask |-> drag.ask, wants |-> drag.wants, reply |-> drag.reply,
           finished |-> drag.finished, ok |-> drag.ok, served |-> drag.served]
      BY <1>1 DEF DragRecord
    <3>2. d = [from |-> drag.from, offers |-> drag.offers, prop |-> drag.prop, dropped |-> drag.dropped,
           type |-> drag.type, ask |-> drag.ask, wants |-> drag.wants, reply |-> r,
           finished |-> drag.finished, ok |-> drag.ok, served |-> served]
      BY <2>4, <3>1
    <3>3. served \in BOOLEAN
      BY <2>3
    <3> QED BY <1>1, <3>2, <3>3 DEF DragRecord
  <2>7. Dropping(d)
    <3>1. drag.dropped /\ drag.finished = 0 /\ ~drag.ok
      BY <1>1, <2>2 DEF Dropping
    <3>2. d.dropped /\ d.finished = 0 /\ ~d.ok /\ d.wants # "none" /\ d.from # "box"
      BY <2>2, <2>5, <3>1
    <3>3. d.reply = "S" => d.served
      BY <2>3, <2>5
    <3> QED BY <2>6, <3>2, <3>3 DEF Dropping
  <2>8. Dropping(drag') /\ drag'.from # "box" /\ drag.from # "box"
    BY <2>1, <2>2, <2>3, <2>4, <2>5, <2>7
  <2> QED BY <1>1, <2>8, DragAlone
<1>9. CASE OtherEnds
  <2>1. drag' = NoDrag /\ drag.from # "box"
    BY <1>9 DEF OtherEnds
  <2> QED BY <1>1, <2>1, NoDragIsFine, DragAlone
<1> QED BY <1>3, <1>4, <1>6, <1>7, <1>8, <1>9

(* The target: a drop asks for a format or is finished at once. *)
LEMMA DropKeeps ==
    ASSUME SaveInv, NEW item, NEW host, NEW ask \in BOOLEAN, DragDrop(item, host, ask)
    PROVE  SaveInv'
<1>1. box' = box /\ Dropping(drag) /\ DragRecord(drag) /\ ~drag.dropped
  BY DEF DragDrop, SaveInv, Dropping
<1>2. PICK type : type = MotionItem(item, drag.offers)
  OBVIOUS
<1>3. PICK d : d = [drag EXCEPT !.dropped = TRUE, !.type = type, !.ask = ask]
  OBVIOUS
<1>4. /\ d.from = drag.from /\ d.offers = drag.offers /\ d.prop = drag.prop /\ d.dropped
      /\ d.wants = drag.wants /\ d.reply = drag.reply
      /\ d.finished = drag.finished /\ d.ok = drag.ok /\ d.served = drag.served
  BY <1>1, <1>3 DEF DragRecord
<1>5. DragRecord(d)
  <2>1. drag = [from |-> drag.from, offers |-> drag.offers, prop |-> drag.prop, dropped |-> drag.dropped,
           type |-> drag.type, ask |-> drag.ask, wants |-> drag.wants, reply |-> drag.reply,
           finished |-> drag.finished, ok |-> drag.ok, served |-> drag.served]
    BY <1>1 DEF DragRecord
  <2>2. d = [from |-> drag.from, offers |-> drag.offers, prop |-> drag.prop, dropped |-> TRUE,
           type |-> type, ask |-> ask, wants |-> drag.wants, reply |-> drag.reply,
           finished |-> drag.finished, ok |-> drag.ok, served |-> drag.served]
    BY <1>3, <2>1
  <2> QED BY <1>1, <2>2 DEF DragRecord
<1>6. d.finished = 0 /\ d.wants = "none" /\ ~d.ok /\ (d.reply = "S" => d.served)
      /\ (d.from = "box" => d.offers = {"xds"})
  BY <1>1, <1>4 DEF Dropping
<1>7. PICK ended : ended = Finish(d, FALSE) /\ Dropping(ended) /\ ended.from = d.from
  BY <1>4, <1>5, <1>6, FinishingKeeps
<1>8. ASSUME NEW format, format # "none"
      PROVE  Dropping(Asks(d, format)) /\ Asks(d, format).from = d.from
  <2>1. PICK e : e = Asks(d, format)
    OBVIOUS
  <2>2. /\ e.from = d.from /\ e.offers = d.offers /\ e.dropped /\ e.wants = format /\ e.reply = "none"
        /\ e.finished = 0 /\ ~e.ok /\ DragRecord(e)
    BY <1>4, <1>5, <1>6, <2>1 DEF Asks, DragRecord
  <2>3. Dropping(e)
    BY <1>6, <1>8, <2>2 DEF Dropping
  <2> QED BY <2>1, <2>2, <2>3
<1>9. PICK h : h = [d EXCEPT !.prop = host]
  OBVIOUS
<1>10. Dropping(Asks(h, "xds")) /\ Asks(h, "xds").from = d.from
  <2>1. PICK e : e = Asks(h, "xds")
    OBVIOUS
  <2>2. /\ h.from = d.from /\ h.offers = d.offers /\ h.dropped /\ h.finished = 0 /\ ~h.ok /\ DragRecord(h)
    BY <1>4, <1>5, <1>6, <1>9 DEF DragRecord
  <2>3. /\ e.from = h.from /\ e.offers = h.offers /\ e.dropped /\ e.wants = "xds" /\ e.reply = "none"
        /\ e.finished = 0 /\ ~e.ok /\ DragRecord(e)
    BY <2>1, <2>2 DEF Asks, DragRecord
  <2>4. Dropping(e)
    BY <1>6, <2>2, <2>3 DEF Dropping
  <2> QED BY <2>1, <2>2, <2>3, <2>4
<1>11. Dropping(drag') /\ drag'.from = d.from
  <2>1. PICK best : best = BestFormat(drag.offers)
    OBVIOUS
  <2>2. drag' = ended \/ drag' = Asks(h, "xds") \/ drag' = Asks(d, "uri")
        \/ (best # "none" /\ drag' = Asks(d, best))
    BY <1>2, <1>3, <1>7, <1>9, <2>1 DEF DragDrop
  <2>3. "uri" # "none"
    OBVIOUS
  <2>4. Dropping(ended) /\ ended.from = d.from
    BY <1>7
  <2> QED BY <1>8, <1>10, <2>2, <2>3, <2>4
<1>12. Dropping(drag') /\ drag'.from = drag.from
  BY <1>4, <1>11
<1>13. ~(box.usingXds /\ ~box.stored /\ drag.from = "box")
  BY <1>1 DEF SaveInv, Boxed
<1> QED BY <1>1, <1>12, <1>13, DragAlone

(* The target: an answer leads to another request or finishes the drop. *)
LEMMA AnswerKeeps ==
    ASSUME SaveInv, NEW written \in BOOLEAN, DataReceived(written)
    PROVE  SaveInv'
<1>1. box' = box /\ Dropping(drag) /\ DragRecord(drag)
  BY DEF DataReceived, SaveInv, Dropping
<1>2. drag.dropped /\ drag.finished = 0 /\ drag.wants # "none" /\ ~drag.ok
      /\ (drag.reply = "S" => drag.served) /\ (drag.from = "box" => drag.offers = {"xds"})
  BY <1>1 DEF DataReceived, Dropping
<1>3. PICK cleared : cleared = [drag EXCEPT !.prop = "none"]
  OBVIOUS
<1>4. DragRecord(cleared) /\ cleared.from = drag.from /\ cleared.offers = drag.offers /\ cleared.dropped /\ cleared.finished = 0
      /\ cleared.prop = "none"
  BY <1>1, <1>2, <1>3 DEF DragRecord
<1>5. ASSUME NEW b \in BOOLEAN
      PROVE  LET s == [drag EXCEPT !.served = b] IN
             DragRecord(s) /\ s.from = drag.from /\ s.offers = drag.offers /\ s.dropped /\ s.finished = 0
             /\ s.prop = drag.prop /\ (b => s.served)
  BY <1>1, <1>2, <1>5 DEF DragRecord
<1> DEFINE Fine(n) == /\ Dropping(n) /\ n.from = drag.from /\ n.dropped
                      /\ n.prop = drag.prop \/ n.prop = "none"
<1>6. Fine(Finish(drag, FALSE)) /\ (drag.reply = "S" => Fine(Finish(drag, TRUE)))
  BY <1>1, <1>2, FinishingKeeps
<1>7. Fine(Finish(cleared, FALSE)) /\ Finish(cleared, FALSE).prop = "none"
  BY <1>2, <1>4, FinishingKeeps
<1>8. Fine(Asks(drag, "raw"))
  BY <1>1, <1>2, AskingKeeps
<1>9. Fine(Finish([drag EXCEPT !.served = TRUE], TRUE))
  <2>1. PICK s : s = [drag EXCEPT !.served = TRUE]
    OBVIOUS
  <2>2. DragRecord(s) /\ s.from = drag.from /\ s.offers = drag.offers /\ s.dropped /\ s.finished = 0
        /\ s.prop = drag.prop /\ s.served
    BY <1>1, <1>2, <2>1 DEF DragRecord
  <2> QED BY <1>2, <2>1, <2>2, FinishingKeeps
<1>10. \A b \in BOOLEAN : Fine(Finish([drag EXCEPT !.served = b], FALSE))
  <2> SUFFICES ASSUME NEW b \in BOOLEAN PROVE Fine(Finish([drag EXCEPT !.served = b], FALSE))
    OBVIOUS
  <2>1. PICK s : s = [drag EXCEPT !.served = b]
    OBVIOUS
  <2>2. DragRecord(s) /\ s.from = drag.from /\ s.offers = drag.offers /\ s.dropped /\ s.finished = 0
        /\ s.prop = drag.prop
    BY <1>5, <2>1
  <2> QED BY <1>2, <2>1, <2>2, FinishingKeeps
<1> HIDE DEF Fine
<1>11. /\ Fine(GotXdsReply(drag))
       /\ drag.from = "box" /\ drag.reply = "F" => GotXdsReply(drag).prop = "none"
  BY <1>2, <1>3, <1>6, <1>7, <1>8 DEF GotXdsReply
<1>12. Fine(GotRaw(drag, written))
  BY <1>3, <1>6, <1>7, <1>9 DEF GotRaw
<1>13. Fine(GotUriList(drag))
  <2>1. (drag.reply = "mixed") \in BOOLEAN
    OBVIOUS
  <2>2. Fine(Finish([drag EXCEPT !.served = (drag.reply = "mixed")], FALSE))
    BY <1>10, <2>1
  <2> QED BY <1>6, <1>8, <1>9, <2>2 DEF GotUriList
<1>14. Fine(drag') /\ (drag.wants = "xds" /\ drag.from = "box" /\ drag.reply = "F" => drag'.prop = "none")
  BY <1>6, <1>11, <1>12, <1>13 DEF DataReceived
<1>15. box.usingXds /\ ~box.stored /\ drag.from = "box" =>
         drag.prop = "none" \/ (drag.reply = "F" /\ drag.wants = "xds")
  BY DEF SaveInv, Boxed
<1>16. Dropping(drag') /\ drag'.from = drag.from /\ drag'.dropped
       /\ (drag'.prop = drag.prop \/ drag'.prop = "none")
  BY <1>14 DEF Fine
<1> QED BY <1>1, <1>14, <1>15, <1>16, DragAlone

(* The box alone changes: it is shown, used, and closed. *)
LEMMA BoxAlone ==
    ASSUME SaveInv, DoSave \/ Discard \/ Cancel \/ ShowBox
    PROVE  SaveInv'
<1>1. drag' = drag /\ Dropping(drag) /\ Boxed(box, drag) /\ BoxState(box)
  BY DEF DoSave, Discard, Cancel, ShowBox, SaveInv, Boxed
<1>2. CASE DoSave
  <2>1. PICK b : b = [box EXCEPT !.running = << "entry" >>]
    OBVIOUS
  <2>2. /\ b.open = box.open /\ b.usingXds = box.usingXds /\ b.dataSent = box.dataSent /\ b.told = box.told
        /\ b.stored = box.stored /\ b.late = box.late /\ BoxState(b)
    BY <1>1, <2>1 DEF BoxState
  <2>3. Boxed(b, drag)
    BY <1>1, <2>2 DEF Boxed
  <2> QED BY <1>1, <1>2, <2>1, <2>3 DEF SaveInv, DoSave
<1>3. ASSUME NEW told, told # "path" \/ told = box.told, box' = [box EXCEPT !.told = told, !.open = FALSE]
      PROVE  SaveInv'
  <2>1. PICK b : b = [box EXCEPT !.told = told, !.open = FALSE]
    OBVIOUS
  <2>2. /\ ~b.open /\ b.usingXds = box.usingXds /\ b.dataSent = box.dataSent /\ b.told = told
        /\ b.stored = box.stored /\ b.late = box.late /\ BoxState(b)
    BY <1>1, <2>1 DEF BoxState
  <2>3. Boxed(b, drag)
    BY <1>1, <1>3, <2>2 DEF Boxed
  <2> QED BY <1>1, <1>3, <2>1, <2>3 DEF SaveInv
<1>4. CASE Discard
  BY <1>3, <1>4 DEF Discard
<1>5. CASE Cancel
  <2>1. box' = [box EXCEPT !.told = box.told, !.open = FALSE]
    BY <1>1, <1>5 DEF Cancel, BoxState
  <2> QED BY <1>3, <2>1
<1>6. CASE ShowBox
  BY <1>1, <1>6, NewBoxIsFine DEF ShowBox, SaveInv
<1> QED BY <1>2, <1>4, <1>5, <1>6

(* The drag from the box begins, is answered and ends. *)
LEMMA PressKeeps ==
    ASSUME SaveInv, PressIcon
    PROVE  SaveInv'
<1>1. drag = NoDrag /\ box.open /\ Boxed(box, drag) /\ BoxState(box)
  BY DEF PressIcon, SaveInv, Boxed
<1>2. PICK leaf : drag' = [NoDrag EXCEPT !.from = "box", !.offers = {"xds"}, !.prop = leaf]
  BY DEF PressIcon
<1>3. PICK d : d = [NoDrag EXCEPT !.from = "box", !.offers = {"xds"}, !.prop = leaf]
  OBVIOUS
<1>4. Dropping(d)
  BY <1>3 DEF Dropping, DragRecord, NoDrag
<1>5. PICK b : b = [box EXCEPT !.usingXds = FALSE, !.dataSent = FALSE]
  OBVIOUS
<1>6. /\ b.open = box.open /\ ~b.usingXds /\ b.told = box.told /\ b.stored = box.stored
      /\ b.late = box.late /\ BoxState(b)
  BY <1>1, <1>5 DEF BoxState
<1>7. ~(box.stored /\ box.open /\ ~box.late)
  BY <1>1, NoDragIsFine DEF Boxed
<1>8. Boxed(b, d)
  BY <1>1, <1>6, <1>7 DEF Boxed
<1> QED BY <1>2, <1>3, <1>4, <1>5, <1>8 DEF SaveInv, PressIcon

LEMMA RequestKeeps ==
    ASSUME SaveInv, BoxDataGet
    PROVE  SaveInv'
<1>1. /\ Dropping(drag) /\ DragRecord(drag) /\ Boxed(box, drag) /\ BoxState(box)
      /\ drag.from = "box" /\ drag.wants = "xds" /\ drag.reply = "none" /\ drag.dropped
  BY DEF BoxDataGet, SaveInv, Boxed, Dropping
<1>2. CASE box.open /\ drag.prop = "local"
  <2>1. PICK b : b = [box EXCEPT !.running = Append(@, "drag")]
    OBVIOUS
  <2>2. /\ b.open = box.open /\ b.usingXds = box.usingXds /\ b.dataSent = box.dataSent /\ b.told = box.told
        /\ b.stored = box.stored /\ b.late = box.late /\ BoxState(b)
    BY <1>1, <2>1 DEF BoxState
  <2>3. Boxed(b, drag)
    BY <1>1, <2>2 DEF Boxed
  <2> QED BY <1>1, <1>2, <2>1, <2>3 DEF SaveInv, BoxDataGet
<1>3. CASE ~(box.open /\ drag.prop = "local")
  <2>1. PICK r : r = IF ~box.open THEN "null" ELSE IF drag.prop = "remote" THEN "F" ELSE "E"
    OBVIOUS
  <2>2. PICK d : d = [drag EXCEPT !.reply = r]
    OBVIOUS
  <2>3. /\ d.from = drag.from /\ d.offers = drag.offers /\ d.prop = drag.prop /\ d.dropped = drag.dropped
        /\ d.wants = drag.wants /\ d.reply = r
        /\ d.finished = drag.finished /\ d.ok = drag.ok /\ d.served = drag.served /\ DragRecord(d)
    BY <1>1, <2>2 DEF DragRecord
  <2>4. Dropping(d)
    BY <1>1, <2>1, <2>3 DEF Dropping
  <2>5. PICK u : u = (box.usingXds \/ r = "F")
    OBVIOUS
  <2>6. PICK b : b = [box EXCEPT !.usingXds = u]
    OBVIOUS
  <2>7. /\ b.open = box.open /\ b.usingXds = u /\ b.dataSent = box.dataSent /\ b.told = box.told
        /\ b.stored = box.stored /\ b.late = box.late
    BY <1>1, <2>6 DEF BoxState
  <2>8. BoxState(b)
    <3>1. box = [open |-> box.open, usingXds |-> box.usingXds, dataSent |-> box.dataSent, running |-> box.running,
                 told |-> box.told, stored |-> box.stored, late |-> box.late]
      BY <1>1 DEF BoxState
    <3>2. b = [open |-> box.open, usingXds |-> u, dataSent |-> box.dataSent, running |-> box.running,
               told |-> box.told, stored |-> box.stored, late |-> box.late]
      BY <2>6, <3>1
    <3>3. u \in BOOLEAN
      BY <2>5
    <3> QED BY <1>1, <3>2, <3>3 DEF BoxState
  <2>9. Boxed(b, d)
    <3>1. b.usingXds /\ ~b.stored /\ d.from = "box" => d.dropped /\ (d.prop = "none" \/ (d.reply = "F" /\ d.wants = "xds"))
      BY <1>1, <2>3, <2>5, <2>7 DEF Boxed
    <3> QED BY <1>1, <2>3, <2>7, <2>8, <3>1 DEF Boxed
  <2>10. drag' = d /\ box' = b
    <3>1. drag' = d
      BY <1>3, <2>1, <2>2 DEF BoxDataGet
    <3>2. box' = [box EXCEPT !.usingXds = @ \/ drag'.reply = "F"]
      BY <1>3 DEF BoxDataGet
    <3>3. (box.usingXds \/ drag'.reply = "F") = u
      BY <2>3, <2>5, <3>1
    <3> QED BY <2>6, <3>1, <3>2, <3>3
  <2> QED BY <2>4, <2>9, <2>10 DEF SaveInv
<1> QED BY <1>2, <1>3

LEMMA EndKeeps ==
    ASSUME SaveInv, DragEnd
    PROVE  SaveInv'
<1>1. /\ Dropping(drag) /\ Boxed(box, drag) /\ BoxState(box) /\ drag.from = "box" /\ drag' = NoDrag
      /\ drag.dropped => drag.finished > 0
  BY DEF DragEnd, SaveInv, Boxed
<1>2. ~(drag.reply = "F" /\ drag.wants = "xds")
  BY <1>1 DEF Dropping
<1>3. ASSUME NEW told, told = "path" => box.stored, box' = [box EXCEPT !.told = told, !.open = FALSE]
      PROVE  SaveInv'
  <2>1. PICK b : b = [box EXCEPT !.told = told, !.open = FALSE]
    OBVIOUS
  <2>2. ~b.open /\ b.told = told /\ b.stored = box.stored /\ BoxState(b)
    BY <1>1, <2>1 DEF BoxState
  <2>3. Boxed(b, NoDrag)
    BY <1>3, <2>2, NoDragIsFine DEF Boxed
  <2> QED BY <1>1, <1>3, <2>1, <2>3, NoDragIsFine DEF SaveInv
<1>4. CASE box.open /\ box.usingXds /\ drag.prop # "none"
  <2>1. box.stored
    BY <1>1, <1>2, <1>4 DEF Boxed, BoxState
  <2>2. box' = [box EXCEPT !.told = "path", !.open = FALSE]
    BY <1>4 DEF DragEnd
  <2> QED BY <1>3, <2>1, <2>2
<1>5. CASE box.open /\ ~(box.usingXds /\ drag.prop # "none") /\ box.dataSent
  <2>1. box' = [box EXCEPT !.told = "no path", !.open = FALSE]
    BY <1>5 DEF DragEnd
  <2>2. "no path" # "path"
    OBVIOUS
  <2> QED BY <1>3, <2>1, <2>2
<1>6. CASE ~box.open \/ (~(box.usingXds /\ drag.prop # "none") /\ ~box.dataSent)
  <2>1. box' = box
    BY <1>6 DEF DragEnd
  <2>2. Boxed(box, NoDrag)
    BY <1>1, <1>6, NoDragIsFine DEF Boxed
  <2> QED BY <1>1, <2>1, <2>2, NoDragIsFine DEF SaveInv
<1> QED BY <1>4, <1>5, <1>6

(* A handler ends: what it saved is stored, and its caller is told. *)
LEMMA HandlerKeeps ==
    ASSUME SaveInv, NEW saved \in BOOLEAN, HandlerEnds(saved)
    PROVE  SaveInv'
<1>1. Dropping(drag) /\ DragRecord(drag) /\ Boxed(box, drag) /\ BoxState(box)
  BY DEF SaveInv, Dropping, Boxed
<1>2. PICK stack : stack = SubSeq(box.running, 1, Len(box.running) - 1)
  OBVIOUS
<1>3. PICK last : last = Stack[Len(Stack)]
  OBVIOUS
<1>4. PICK stored : stored = (box.stored \/ saved)
  OBVIOUS
<1>5. PICK b : b = [box EXCEPT !.running = stack, !.stored = stored]
  OBVIOUS
<1>6. PICK waiting : waiting = (drag.from = "box" /\ drag.wants = "xds" /\ drag.reply = "none")
  OBVIOUS
<1>7. box = [open |-> box.open, usingXds |-> box.usingXds, dataSent |-> box.dataSent, running |-> box.running,
             told |-> box.told, stored |-> box.stored, late |-> box.late]
  BY <1>1 DEF BoxState
<1>8. b = [open |-> box.open, usingXds |-> box.usingXds, dataSent |-> box.dataSent, running |-> stack,
           told |-> box.told, stored |-> stored, late |-> box.late]
  BY <1>5, <1>7
<1>9. stored \in BOOLEAN /\ box.open \in BOOLEAN /\ box.usingXds \in BOOLEAN /\ box.dataSent \in BOOLEAN
      /\ box.stored \in BOOLEAN /\ box.late \in BOOLEAN
  BY <1>1, <1>4 DEF BoxState
<1>10. CASE last = "drag"
  <2>1. PICK sent : sent = (box.dataSent \/ saved)
    OBVIOUS
  <2>2. PICK using : using = (box.usingXds \/ saved)
    OBVIOUS
  <2>3. PICK late : late = (box.late \/ (saved /\ drag.from # "box"))
    OBVIOUS
  <2>4. PICK c : c = [open |-> box.open, usingXds |-> using, dataSent |-> sent, running |-> stack,
                      told |-> box.told, stored |-> stored, late |-> late]
    OBVIOUS
  <2>5. box' = [b EXCEPT !.dataSent = @ \/ saved, !.usingXds = @ \/ saved,
                         !.late = @ \/ (saved /\ drag.from # "box")]
    BY <1>2, <1>3, <1>4, <1>5, <1>10 DEF HandlerEnds
  <2>6. box' = [b EXCEPT !.dataSent = sent, !.usingXds = using, !.late = late]
    <3>1. b.dataSent = box.dataSent /\ b.usingXds = box.usingXds /\ b.late = box.late
      BY <1>8
    <3>2. (b.dataSent \/ saved) = sent /\ (b.usingXds \/ saved) = using
          /\ (b.late \/ (saved /\ drag.from # "box")) = late
      BY <2>1, <2>2, <2>3, <3>1
    <3> QED BY <2>5, <3>2
  <2>7. box' = c
    <3>1. PICK e : e = [b EXCEPT !.dataSent = sent, !.usingXds = using, !.late = late]
      OBVIOUS
    <3>2. /\ e.open = box.open /\ e.usingXds = using /\ e.dataSent = sent /\ e.running = stack
          /\ e.told = box.told /\ e.stored = stored /\ e.late = late /\ DOMAIN e = DOMAIN b
      BY <1>8, <3>1
    <3> DEFINE R == [open : {box.open}, usingXds : {using}, dataSent : {sent}, running : {stack},
                     told : {box.told}, stored : {stored}, late : {late}]
    <3>4. b \in [open : {box.open}, usingXds : {b.usingXds}, dataSent : {b.dataSent}, running : {stack},
                 told : {box.told}, stored : {stored}, late : {b.late}]
      BY <1>8
    <3>5. e \in R
      BY <3>1, <3>4
    <3>6. c \in R
      BY <2>4
    <3>3. e = c
      BY <3>5, <3>6
    <3> QED BY <2>6, <3>1, <3>3
  <2>8. BoxState(c)
    <3>1. sent \in BOOLEAN /\ using \in BOOLEAN /\ late \in BOOLEAN
      BY <2>1, <2>2, <2>3
    <3> QED BY <1>9, <2>4, <3>1 DEF BoxState
  <2>9. PICK r : r = IF saved THEN "S" ELSE "E"
    OBVIOUS
  <2>10. PICK d : d = [drag EXCEPT !.reply = r, !.served = saved]
    OBVIOUS
  <2>11. drag' = IF waiting THEN d ELSE drag
    BY <1>3, <1>6, <1>10, <2>9, <2>10 DEF HandlerEnds
  <2>12. /\ d.from = drag.from /\ d.offers = drag.offers /\ d.prop = drag.prop /\ d.dropped = drag.dropped
         /\ d.wants = drag.wants /\ d.reply = r /\ d.finished = drag.finished /\ d.ok = drag.ok /\ d.served = saved
    BY <1>1, <2>10 DEF DragRecord
  <2>13. DragRecord(d)
    <3>1. drag = [from |-> drag.from, offers |-> drag.offers, prop |-> drag.prop, dropped |-> drag.dropped,
           type |-> drag.type, ask |-> drag.ask, wants |-> drag.wants, reply |-> drag.reply,
           finished |-> drag.finished, ok |-> drag.ok, served |-> drag.served]
      BY <1>1 DEF DragRecord
    <3>2. d = [from |-> drag.from, offers |-> drag.offers, prop |-> drag.prop, dropped |-> drag.dropped,
           type |-> drag.type, ask |-> drag.ask, wants |-> drag.wants, reply |-> r,
           finished |-> drag.finished, ok |-> drag.ok, served |-> saved]
      BY <2>10, <3>1
    <3> QED BY <1>1, <3>2 DEF DragRecord
  <2>14. ASSUME waiting
         PROVE  Dropping(d)
    <3>1. drag.dropped /\ drag.finished = 0 /\ ~drag.ok /\ drag.wants # "none"
      <4>1. drag.wants = "xds"
        BY <1>6, <2>14
      <4> QED BY <1>1, <4>1 DEF Dropping
    <3>2. d.dropped /\ d.finished = 0 /\ ~d.ok /\ d.wants # "none" /\ (d.from = "box" => d.offers = {"xds"})
      BY <1>1, <2>12, <3>1 DEF Dropping
    <3>3. d.reply = "S" => d.served
      BY <2>9, <2>12
    <3> QED BY <2>13, <3>2, <3>3 DEF Dropping
  <2>15. Dropping(drag') /\ drag'.from = drag.from /\ drag'.prop = drag.prop /\ drag'.dropped = drag.dropped
    BY <1>1, <2>11, <2>12, <2>14
  <2>16. /\ c.open = box.open /\ c.usingXds = using /\ c.dataSent = sent /\ c.told = box.told
         /\ c.stored = stored /\ c.late = late
    BY <2>4
  <2>17. c.usingXds /\ ~c.stored /\ drag'.from = "box" =>
           drag'.dropped /\ (drag'.prop = "none" \/ (drag'.reply = "F" /\ drag'.wants = "xds"))
    <3> SUFFICES ASSUME c.usingXds, ~c.stored, drag'.from = "box"
                 PROVE  drag'.dropped /\ (drag'.prop = "none" \/ (drag'.reply = "F" /\ drag'.wants = "xds"))
      OBVIOUS
    <3>1. box.usingXds /\ ~box.stored /\ drag.from = "box"
      BY <1>4, <2>2, <2>15, <2>16
    <3>2. drag.dropped /\ (drag.prop = "none" \/ (drag.reply = "F" /\ drag.wants = "xds"))
      BY <1>1, <3>1 DEF Boxed
    <3>3. waiting => drag.prop = "none"
      BY <1>6, <3>2
    <3> QED BY <2>11, <2>15, <3>2, <3>3
  <2>18. c.stored /\ c.open /\ ~c.late => drag'.from = "box" /\ c.dataSent
    BY <1>1, <1>4, <2>1, <2>3, <2>15, <2>16 DEF Boxed
  <2>19. c.told = "path" => c.stored
    BY <1>1, <1>4, <2>16 DEF Boxed
  <2>20. Boxed(c, drag')
    BY <2>8, <2>17, <2>18, <2>19 DEF Boxed
  <2> QED BY <2>7, <2>15, <2>20 DEF SaveInv
<1>11. CASE last # "drag"
  <2>1. drag' = drag /\ box' = IF saved /\ box.open THEN [b EXCEPT !.told = "path", !.open = FALSE] ELSE b
    BY <1>2, <1>3, <1>4, <1>5, <1>11 DEF HandlerEnds
  <2>2. CASE saved /\ box.open
    <3>1. PICK c : c = [b EXCEPT !.told = "path", !.open = FALSE]
      OBVIOUS
    <3>2. c = [open |-> FALSE, usingXds |-> box.usingXds, dataSent |-> box.dataSent, running |-> stack,
               told |-> "path", stored |-> stored, late |-> box.late]
      BY <1>8, <3>1
    <3>3. BoxState(c) /\ ~c.open /\ c.told = "path" /\ c.stored
      BY <1>4, <1>9, <2>2, <3>2 DEF BoxState
    <3>4. Boxed(c, drag)
      BY <3>3 DEF Boxed
    <3> QED BY <1>1, <2>1, <2>2, <3>1, <3>4 DEF SaveInv
  <2>3. CASE ~(saved /\ box.open)
    <3>1. BoxState(b) /\ b.open = box.open /\ b.usingXds = box.usingXds /\ b.dataSent = box.dataSent
          /\ b.told = box.told /\ b.stored = stored /\ b.late = box.late
      BY <1>8, <1>9 DEF BoxState
    <3>2. (box.stored => stored) /\ (stored /\ box.open => box.stored)
      BY <1>4, <2>3
    <3>3. Boxed(b, drag)
      BY <1>1, <3>1, <3>2 DEF Boxed
    <3> QED BY <1>1, <2>1, <2>3, <3>3 DEF SaveInv
  <2> QED BY <2>2, <2>3
<1> QED BY <1>10, <1>11

LEMMA SaveStarts == SaveInit => SaveInv
BY NoDragIsFine, NewBoxIsFine DEF SaveInit, SaveInv

LEMMA SaveKeeps == SaveInv /\ [SaveNext]_saveVars => SaveInv'
<1> SUFFICES ASSUME SaveInv, [SaveNext]_saveVars
             PROVE  SaveInv'
  OBVIOUS
<1>1. CASE FilerDrag \/ FilerDataGet \/ OtherDrag \/ OtherDataGet \/ GiveUp \/ OtherEnds
  BY <1>1, OtherSources
<1>2. CASE DoSave \/ Discard \/ Cancel \/ ShowBox
  BY <1>2, BoxAlone
<1>3. CASE \E item \in {"background", "file", "bookmarks", "directory", "program"},
             host \in {"local", "remote"}, ask \in BOOLEAN : DragDrop(item, host, ask)
  BY <1>3, DropKeeps
<1>4. CASE \E b \in BOOLEAN : HandlerEnds(b) \/ DataReceived(b)
  BY <1>4, HandlerKeeps, AnswerKeeps
<1>5. CASE PressIcon
  BY <1>5, PressKeeps
<1>6. CASE BoxDataGet
  BY <1>6, RequestKeeps
<1>7. CASE DragEnd
  BY <1>7, EndKeeps
<1>8. CASE UNCHANGED saveVars
  BY <1>8 DEF saveVars, SaveInv
<1> QED BY <1>1, <1>2, <1>3, <1>4, <1>5, <1>6, <1>7, <1>8 DEF SaveNext

(* Every drop is finished once, success is reported only of what was saved *)
(* or handed on, and a box is closed by its successful save *)
(* (gtksavebox.c:75, dnd.c:797), also while other programs drag over it. *)
THEOREM SavedAlwaysSaved == SaveSpec => []SavedIsSaved
<1>1. SaveInv => SavedIsSaved
  <2> SUFFICES ASSUME SaveInv PROVE SavedIsSaved
    OBVIOUS
  <2>1. FinishedOnce
    BY DEF SaveInv, Dropping, FinishedOnce
  <2>2. (box.told = "path" => box.stored) /\ (box.stored /\ ~Modal /\ drag.from # "box" /\ ~box.late => ~box.open)
    BY DEF SaveInv, Boxed
  <2> QED BY <2>1, <2>2 DEF SavedIsSaved
<1> QED BY <1>1, SaveStarts, SaveKeeps, PTL DEF SaveSpec
--------------------
(* The options.  Unless a save has failed, what is in force is in the file *)
(* while no box is open, and what a box was opened with while one is; only *)
(* the dialog of a request is over an open box, and it closes the box; and *)
(* there is a file in ~/.config only in a directory of the new form. *)
Values == [Opt -> Val]
Waiter == {"start", "set", "close"}
OptionsFile(f) ==
    /\ f \in [format : {"none", "lines", "xml"}, options : {f.options}, home : BOOLEAN]
    /\ \A o \in Opt \cap DOMAIN f.options : f.options[o] \in Val
ConfigRecord(c) ==
    /\ c \in [xdg : {c.xdg}, old : {c.old}, dir : BOOLEAN]
    /\ OptionsFile(c.xdg) /\ OptionsFile(c.old)
    /\ c.old # NoFile => c.old.format # "none"
ForceRecord(g) ==
    g \in [running : BOOLEAN, value : Values, backup : Values, changed : SUBSET Opt, noticed : Values,
           late : SUBSET Opt, failed : BOOLEAN]
OboxRecord(b) == b \in [state : {"none", "open", "closing"}, widget : Values, revert : BOOLEAN]
HasParts(s) == s \in [config : {s.config}, filer : {s.filer}, box : {s.box}, waiters : {s.waiters}, kept : {s.kept}]
PartsTyped(s) == s \in [config : {s.config}, filer : {s.filer}, box : {s.box}, waiters : Seq(Waiter), kept : Values]
USE DEF HasParts, PartsTyped
OptionsTyped(s) ==
    /\ PartsTyped(s)
    /\ ConfigRecord(s.config) /\ ForceRecord(s.filer) /\ OboxRecord(s.box)

(* The file, and what the features know. *)
Filed(s) ==
    /\ OptionsTyped(s)
    /\ Loaded(s.config) = s.kept /\ (~s.config.dir => s.config.xdg = NoFile)
    /\ s.filer.running => \A o \in Opt \ s.filer.late : s.filer.noticed[o] = s.filer.value[o]
InStep(s) ==
    ~s.filer.failed => IF s.box.state = "open" THEN s.filer.backup = s.kept ELSE s.filer.value = s.kept
BoxRight(s) ==
    /\ s.box.state # "open" => ~s.box.revert
    /\ s.box.state = "open" =>
         /\ \A i \in DOMAIN s.waiters : s.waiters[i] = "set"
         /\ s.waiters = << >> => /\ \A o \in HasWidget : s.box.widget[o] = s.filer.value[o]
                                 /\ s.box.revert <=> s.filer.value # s.filer.backup
KeptRight(s) ==
    /\ Filed(s)
    /\ IF s.filer.running THEN InStep(s) /\ BoxRight(s) ELSE s.box.state = "none" /\ s.waiters = << >>

OptionsInv == KeptRight(OptionsNow)

LEMMA NoFileIsEmpty == OptionsFile(NoFile) /\ NoFile.format = "none" /\ ~NoFile.home /\ DOMAIN NoFile.options = {}
BY EmptySeq, LenProperties DEF OptionsFile, NoFile

(* What is loaded has a value for every option. *)
LEMMA LoadedValues == ASSUME NEW c, ConfigRecord(c) PROVE Loaded(c) \in Values
<1>1. PICK set : set = FoundFile(c).options
  OBVIOUS
<1>2. \A o \in Opt \cap DOMAIN set : set[o] \in Val
  <2>1. PICK f : f = FoundFile(c)
    OBVIOUS
  <2>2. f = c.xdg \/ f = c.old
    BY <2>1 DEF FoundFile
  <2>3. OptionsFile(f)
    BY <2>2 DEF ConfigRecord
  <2> QED BY <1>1, <2>1, <2>3 DEF OptionsFile
<1>3. Loaded(c) = [o \in Opt |-> IF o \in DOMAIN set THEN set[o] ELSE Default[o]]
  BY <1>1 DEF Loaded
<1> QED BY <1>2, <1>3, OptionsAssumption DEF Values

(* A written file is the one that is found, and it has all the values. *)
LEMMA LoadedWritten ==
    ASSUME NEW c, c.xdg = Xml(c.xdg.options), c.xdg.options \in Values
    PROVE  Loaded(c) = c.xdg.options
<1>1. c.xdg.format = "xml"
  BY DEF Xml
<1>2. FoundFile(c) = c.xdg
  BY <1>1 DEF FoundFile
<1> QED BY <1>2 DEF Loaded, Values

(* save_options, the file. *)
LEMMA FileWritten ==
    ASSUME NEW s, Filed(s), NEW how \in SaveHow, NEW t, t = WriteFile(s, how)
    PROVE  /\ Filed(t) /\ t.box = s.box /\ t.waiters = s.waiters
           /\ t.filer.running = s.filer.running /\ t.filer.value = s.filer.value /\ t.filer.backup = s.filer.backup
           /\ t.filer.failed <=> how # "works"
           /\ t.kept = IF how = "works" THEN s.filer.value ELSE s.kept
<1>1. PICK failed : failed = (how # "works")
  OBVIOUS
<1>2. PICK dir : dir = (s.config.dir \/ how # "no directory")
  OBVIOUS
<1>3. PICK xdg : xdg = IF how = "works" THEN Xml(s.filer.value) ELSE s.config.xdg
  OBVIOUS
<1>4. PICK now : now = IF how = "works" THEN s.filer.value ELSE s.kept
  OBVIOUS
<1>5. /\ OptionsTyped(s) /\ ConfigRecord(s.config) /\ ForceRecord(s.filer) /\ OboxRecord(s.box)
      /\ HasParts(s)
  BY DEF Filed, OptionsTyped
<1>6. t = [s EXCEPT !.filer.failed = failed, !.config.dir = dir, !.config.xdg = xdg, !.kept = now]
  BY <1>1, <1>2, <1>3, <1>4 DEF WriteFile
<1>7. /\ t.filer = [s.filer EXCEPT !.failed = failed] /\ t.config = [[s.config EXCEPT !.dir = dir] EXCEPT !.xdg = xdg]
      /\ t.box = s.box /\ t.waiters = s.waiters /\ t.kept = now
      /\ HasParts(t)
  BY <1>5, <1>6
<1>8. PICK c : c = t.config
  OBVIOUS
<1>9. c.xdg = xdg /\ c.old = s.config.old /\ c.dir = dir /\ c \in [xdg : {c.xdg}, old : {c.old}, dir : {dir}]
  <2>1. s.config \in [xdg : {s.config.xdg}, old : {s.config.old}, dir : BOOLEAN]
    BY <1>5 DEF ConfigRecord
  <2>2. c = [[s.config EXCEPT !.dir = dir] EXCEPT !.xdg = xdg]
    BY <1>7, <1>8
  <2>3. c.xdg = xdg /\ c.old = s.config.old /\ c.dir = dir
    BY <2>1, <2>2
  <2>4. c \in [xdg : {xdg}, old : {s.config.old}, dir : {dir}]
    BY <2>1, <2>2
  <2> QED BY <2>3, <2>4
<1>10. PICK g : g = t.filer
  OBVIOUS
<1>11. /\ g.running = s.filer.running /\ g.value = s.filer.value /\ g.backup = s.filer.backup
       /\ g.changed = s.filer.changed /\ g.noticed = s.filer.noticed /\ g.late = s.filer.late
       /\ g.failed = failed
  BY <1>5, <1>7, <1>10 DEF ForceRecord
<1>12. failed \in BOOLEAN /\ dir \in BOOLEAN
  BY <1>1, <1>2
<1>13. ForceRecord(g)
  BY <1>5, <1>7, <1>10, <1>12 DEF ForceRecord
<1>14. ConfigRecord(c)
  <2>1. OptionsFile(xdg)
    <3>1. CASE how = "works"
      BY <1>3, <1>5, <3>1 DEF OptionsFile, Xml, ForceRecord, Values
    <3>2. CASE how # "works"
      BY <1>3, <1>5, <3>2 DEF ConfigRecord
    <3> QED BY <3>1, <3>2
  <2> QED BY <1>5, <1>9, <1>12, <2>1 DEF ConfigRecord
<1>15. now \in Values
  BY <1>4, <1>5 DEF OptionsTyped, ForceRecord
<1>16. OptionsTyped(t)
  <2>1. PartsTyped(t)
    BY <1>5, <1>7, <1>15 DEF OptionsTyped
  <2> QED BY <1>5, <1>7, <1>8, <1>10, <1>13, <1>14, <2>1 DEF OptionsTyped
<1>17. Loaded(c) = now
  <2>1. CASE how = "works"
    <3>1. xdg = Xml(now) /\ now = s.filer.value
      BY <1>3, <1>4, <2>1
    <3>2. xdg.options = now
      BY <3>1 DEF Xml
    <3> QED BY <1>9, <1>15, <3>1, <3>2, LoadedWritten
  <2>2. CASE how # "works"
    <3>1. xdg = s.config.xdg /\ now = s.kept
      BY <1>3, <1>4, <2>2
    <3> QED BY <1>9, <3>1 DEF Loaded, FoundFile, Filed
  <2> QED BY <2>1, <2>2
<1>18. ~dir => xdg = NoFile
  BY <1>2, <1>3 DEF Filed
<1>19. Filed(t)
  BY <1>7, <1>8, <1>9, <1>10, <1>11, <1>16, <1>17, <1>18 DEF Filed
<1> QED BY <1>1, <1>4, <1>7, <1>10, <1>11, <1>19

(* A handler waits for a dialog; a box is gone. *)
SameFiler(s, t) == t.config = s.config /\ t.filer = s.filer /\ t.kept = s.kept

LEMMA Waiting ==
    ASSUME NEW s, Filed(s), NEW dialog \in Waiter, NEW t, t = Waits(s, dialog)
    PROVE  /\ Filed(t) /\ SameFiler(s, t) /\ t.box = s.box
           /\ t.waiters # << >> /\ DOMAIN s.waiters \subseteq DOMAIN t.waiters
           /\ \A i \in DOMAIN t.waiters : t.waiters[i] = dialog \/ (i \in DOMAIN s.waiters /\ t.waiters[i] = s.waiters[i])
<1>1. OptionsTyped(s) /\ s.waiters \in Seq(Waiter)
  BY DEF Filed, OptionsTyped
<1>2. PICK w : w = Append(s.waiters, dialog)
  OBVIOUS
<1>3. /\ w \in Seq(Waiter) /\ Len(w) = Len(s.waiters) + 1 /\ Len(s.waiters) \in Nat
      /\ \A i \in 1..Len(s.waiters) : w[i] = s.waiters[i]
      /\ w[Len(s.waiters) + 1] = dialog
  BY <1>1, <1>2, AppendProperties, LenProperties
<1>4. DOMAIN w = 1..(Len(s.waiters) + 1) /\ DOMAIN s.waiters = 1..Len(s.waiters)
  BY <1>1, <1>3, LenProperties
<1>5. w # << >>
  BY <1>3, EmptySeq
<1>6. t = [s EXCEPT !.waiters = w]
  BY <1>2 DEF Waits
<1>7. /\ t.config = s.config /\ t.filer = s.filer /\ t.kept = s.kept /\ t.box = s.box /\ t.waiters = w
      /\ t \in [config : {t.config}, filer : {t.filer}, box : {t.box}, waiters : {w}, kept : {t.kept}]
  BY <1>1, <1>6 DEF OptionsTyped
<1>8. OptionsTyped(t)
  BY <1>1, <1>3, <1>7 DEF OptionsTyped
<1>9. Filed(t)
  BY <1>7, <1>8 DEF Filed
<1>10. \A i \in DOMAIN w : w[i] = dialog \/ (i \in DOMAIN s.waiters /\ w[i] = s.waiters[i])
  BY <1>3, <1>4
<1>11. DOMAIN s.waiters \subseteq DOMAIN w
  BY <1>3, <1>4
<1> QED BY <1>5, <1>7, <1>9, <1>10, <1>11 DEF SameFiler

LEMMA NoBoxRecord == OboxRecord(NoBox) /\ NoBox.state = "none" /\ ~NoBox.revert
BY OptionsAssumption DEF OboxRecord, NoBox, Values

LEMMA GoneBox ==
    ASSUME NEW s, Filed(s), NEW t, t = BoxGone(s)
    PROVE  /\ Filed(t) /\ t.kept = s.kept /\ t.waiters = s.waiters /\ t.box.state = "none" /\ ~t.box.revert
           /\ t.filer.running = s.filer.running /\ t.filer.value = s.filer.value /\ t.filer.failed = s.filer.failed
<1>1. /\ OptionsTyped(s) /\ ForceRecord(s.filer)
      /\ HasParts(s)
  BY DEF Filed, OptionsTyped
<1>2. /\ t.filer = [s.filer EXCEPT !.backup = Default] /\ t.box = NoBox
      /\ t.config = s.config /\ t.waiters = s.waiters /\ t.kept = s.kept
      /\ HasParts(t)
  BY <1>1 DEF BoxGone
<1>3. PICK g : g = t.filer
  OBVIOUS
<1>4. /\ g.running = s.filer.running /\ g.value = s.filer.value /\ g.noticed = s.filer.noticed
      /\ g.late = s.filer.late /\ g.failed = s.filer.failed
  BY <1>1, <1>2, <1>3 DEF ForceRecord
<1>5. ForceRecord(g)
  BY <1>1, <1>2, <1>3, OptionsAssumption DEF ForceRecord, Values
<1>6. OptionsTyped(t)
  <2>1. PartsTyped(t)
    BY <1>1, <1>2 DEF OptionsTyped
  <2> QED BY <1>1, <1>2, <1>3, <1>5, <2>1, NoBoxRecord DEF OptionsTyped
<1>7. Filed(t)
  BY <1>2, <1>3, <1>4, <1>6 DEF Filed
<1> QED BY <1>2, <1>3, <1>4, <1>7, NoBoxRecord

(* The box is destroyed: what is in force is then saved, or has failed to *)
(* be. *)
LEMMA DestroyedBox ==
    ASSUME NEW s, Filed(s), s.filer.running, NEW how \in SaveHow, NEW t, t = DestroyBox(s, how),
           ~s.filer.failed /\ s.filer.value = s.filer.backup => s.filer.value = s.kept
    PROVE  KeptRight(t)
<1>1. PICK b : b = [NoBox EXCEPT !.state = "closing"]
  OBVIOUS
<1>2. OboxRecord(b) /\ b.state = "closing" /\ ~b.revert
  BY <1>1, NoBoxRecord DEF OboxRecord, NoBox
<1>3. PICK u : u = [s EXCEPT !.box = b]
  OBVIOUS
<1>4. /\ OptionsTyped(s)
      /\ HasParts(s)
  BY DEF Filed, OptionsTyped
<1>5. /\ u.config = s.config /\ u.filer = s.filer /\ u.waiters = s.waiters /\ u.kept = s.kept /\ u.box = b
      /\ u \in [config : {u.config}, filer : {u.filer}, box : {u.box}, waiters : {u.waiters}, kept : {u.kept}]
  BY <1>3, <1>4
<1>6. OptionsTyped(u)
  BY <1>2, <1>4, <1>5 DEF OptionsTyped
<1>7. Filed(u)
  BY <1>5, <1>6 DEF Filed
<1>8. t = IF s.filer.value = s.filer.backup THEN BoxGone(u)
          ELSE IF how = "works" THEN BoxGone(WriteFile(u, how)) ELSE Waits(WriteFile(u, how), "close")
  BY <1>1, <1>3 DEF DestroyBox
<1>9. CASE s.filer.value = s.filer.backup
  <2>1. t = BoxGone(u)
    BY <1>8, <1>9
  <2>2. /\ Filed(t) /\ t.kept = u.kept /\ t.waiters = u.waiters /\ t.box.state = "none" /\ ~t.box.revert
        /\ t.filer.running = u.filer.running /\ t.filer.value = u.filer.value /\ t.filer.failed = u.filer.failed
    BY <1>7, <2>1, GoneBox
  <2> QED BY <1>5, <1>9, <2>2 DEF KeptRight, InStep, BoxRight
<1>10. PICK w : w = WriteFile(u, how)
  OBVIOUS
<1>11. /\ Filed(w) /\ w.box = b /\ w.filer.running /\ (w.filer.failed <=> how # "works")
       /\ w.kept = IF how = "works" THEN w.filer.value ELSE s.kept
  <2>1. /\ Filed(w) /\ w.box = u.box /\ w.waiters = u.waiters
        /\ w.filer.running = u.filer.running /\ w.filer.value = u.filer.value /\ w.filer.backup = u.filer.backup
        /\ w.filer.failed <=> how # "works"
        /\ w.kept = IF how = "works" THEN u.filer.value ELSE u.kept
    BY <1>7, <1>10, FileWritten
  <2> QED BY <1>5, <2>1
<1>12. CASE s.filer.value # s.filer.backup /\ how = "works"
  <2>1. t = BoxGone(w)
    BY <1>8, <1>10, <1>12
  <2>2. /\ Filed(t) /\ t.kept = w.kept /\ t.box.state = "none" /\ ~t.box.revert
        /\ t.filer.running = w.filer.running /\ t.filer.value = w.filer.value
    BY <1>11, <2>1, GoneBox
  <2> QED BY <1>11, <1>12, <2>2 DEF KeptRight, InStep, BoxRight
<1>13. CASE s.filer.value # s.filer.backup /\ how # "works"
  <2>1. t = Waits(w, "close")
    BY <1>8, <1>10, <1>13
  <2>2. Filed(t) /\ SameFiler(w, t) /\ t.box = w.box
    BY <1>11, <2>1, Waiting DEF Waiter
  <2> QED BY <1>2, <1>11, <1>13, <2>2 DEF KeptRight, InStep, BoxRight, SameFiler
<1> QED BY <1>9, <1>12, <1>13

(* The end of save_options. *)
LEMMA SaveEnded ==
    ASSUME NEW s, Filed(s), s.filer.running, NEW how \in SaveHow, NEW t, t = SaveEnds(s, how),
           IF s.box.state = "open" THEN ~s.filer.failed /\ s.filer.value = s.filer.backup => s.filer.value = s.kept
           ELSE ~s.box.revert /\ (~s.filer.failed => s.filer.value = s.kept)
    PROVE  KeptRight(t)
<1>1. CASE s.box.state = "open"
  BY <1>1, DestroyedBox DEF SaveEnds
<1>2. CASE s.box.state # "open"
  BY <1>2 DEF SaveEnds, KeptRight, InStep, BoxRight
<1> QED BY <1>1, <1>2

(* choices_migrate: the same file is found in its new place. *)
LEMMA Migrated ==
    ASSUME NEW s, Filed(s), NEW moves \in BOOLEAN, NEW t, t = Migrate(s, moves)
    PROVE  Filed(t) /\ t.filer = s.filer /\ t.box = s.box /\ t.waiters = s.waiters /\ t.kept = s.kept
<1>1. CASE ~(moves /\ ~s.config.dir /\ s.config.old.home)
  BY <1>1 DEF Migrate
<1>2. CASE moves /\ ~s.config.dir /\ s.config.old.home
  <2>1. PICK c : c = [xdg |-> s.config.old, old |-> NoFile, dir |-> TRUE]
    OBVIOUS
  <2>2. t = [s EXCEPT !.config = c]
    BY <1>2, <2>1 DEF Migrate
  <2>3. /\ OptionsTyped(s) /\ ConfigRecord(s.config)
        /\ HasParts(s)
    BY DEF Filed, OptionsTyped
  <2>4. /\ t.config = c /\ t.filer = s.filer /\ t.box = s.box /\ t.waiters = s.waiters /\ t.kept = s.kept
        /\ HasParts(t)
    BY <2>2, <2>3
  <2>5. c.xdg = s.config.old /\ c.old = NoFile /\ c.dir /\ c \in [xdg : {c.xdg}, old : {c.old}, dir : BOOLEAN]
    BY <2>1
  <2>6. ConfigRecord(c)
    BY <2>3, <2>5, NoFileIsEmpty DEF ConfigRecord
  <2>7. OptionsTyped(t)
    BY <2>3, <2>4, <2>6 DEF OptionsTyped
  <2>8. FoundFile(c) = FoundFile(s.config)
    <3>1. s.config.xdg = NoFile /\ s.config.old.format # "none"
      BY <1>2, <2>3, NoFileIsEmpty DEF Filed, ConfigRecord
    <3> QED BY <2>5, <3>1, NoFileIsEmpty DEF FoundFile
  <2>9. Loaded(c) = s.kept
    BY <2>8 DEF Loaded, Filed
  <2> QED BY <2>4, <2>5, <2>7, <2>9 DEF Filed
<1> QED BY <1>1, <1>2

(* options_notify: the features know what has changed, and Revert is right. *)
LEMMA Notified ==
    ASSUME NEW s, OptionsTyped(s), Loaded(s.config) = s.kept, ~s.config.dir => s.config.xdg = NoFile,
           \A o \in Opt \ (s.filer.late \cup s.filer.changed) : s.filer.noticed[o] = s.filer.value[o],
           NEW t, t = Notify(s)
    PROVE  /\ Filed(t) /\ t.config = s.config /\ t.waiters = s.waiters /\ t.kept = s.kept
           /\ t.filer.running = s.filer.running /\ t.filer.value = s.filer.value
           /\ t.filer.backup = s.filer.backup /\ t.filer.failed = s.filer.failed
           /\ t.box.state = s.box.state /\ t.box.widget = s.box.widget
           /\ t.box.revert <=> s.box.state = "open" /\ s.filer.value # s.filer.backup
<1>1. /\ ForceRecord(s.filer) /\ OboxRecord(s.box) /\ ConfigRecord(s.config)
      /\ HasParts(s)
  BY DEF OptionsTyped
<1>2. PICK noticed : noticed = [o \in Opt |-> IF o \in s.filer.changed THEN s.filer.value[o] ELSE s.filer.noticed[o]]
  OBVIOUS
<1>3. PICK late : late = s.filer.late \ s.filer.changed
  OBVIOUS
<1>4. PICK revert : revert = (s.box.state = "open" /\ s.filer.value # s.filer.backup)
  OBVIOUS
<1>5. t = [s EXCEPT !.filer.noticed = noticed, !.filer.late = late, !.box.revert = revert]
  BY <1>2, <1>3, <1>4 DEF Notify
<1>6. /\ t.filer = [[s.filer EXCEPT !.noticed = noticed] EXCEPT !.late = late]
      /\ t.box = [s.box EXCEPT !.revert = revert]
      /\ t.config = s.config /\ t.waiters = s.waiters /\ t.kept = s.kept
      /\ HasParts(t)
  BY <1>1, <1>5
<1>7. PICK g : g = t.filer
  OBVIOUS
<1>8. /\ g.running = s.filer.running /\ g.value = s.filer.value /\ g.backup = s.filer.backup
      /\ g.noticed = noticed /\ g.late = late /\ g.failed = s.filer.failed
  BY <1>1, <1>6, <1>7 DEF ForceRecord
<1>9. noticed \in Values /\ late \in SUBSET Opt /\ revert \in BOOLEAN
  BY <1>1, <1>2, <1>3, <1>4 DEF ForceRecord, Values
<1>10. ForceRecord(g)
  <2>1. g = [[s.filer EXCEPT !.noticed = noticed] EXCEPT !.late = late]
    BY <1>6, <1>7
  <2> QED BY <1>1, <1>9, <2>1 DEF ForceRecord
<1>11. PICK b : b = t.box
  OBVIOUS
<1>12. b.state = s.box.state /\ b.widget = s.box.widget /\ b.revert = revert /\ OboxRecord(b)
  <2>1. b = [s.box EXCEPT !.revert = revert]
    BY <1>6, <1>11
  <2>2. b.state = s.box.state /\ b.widget = s.box.widget /\ b.revert = revert
    BY <1>1, <2>1 DEF OboxRecord
  <2>3. OboxRecord(b)
    BY <1>1, <1>9, <2>1 DEF OboxRecord
  <2> QED BY <2>2, <2>3
<1>13. OptionsTyped(t)
  <2>1. PartsTyped(t)
    BY <1>6 DEF OptionsTyped
  <2> QED BY <1>1, <1>6, <1>7, <1>10, <1>11, <1>12, <2>1 DEF OptionsTyped
<1>14. \A o \in Opt \ late : noticed[o] = s.filer.value[o]
  BY <1>2, <1>3
<1>15. Filed(t)
  BY <1>6, <1>7, <1>8, <1>13, <1>14 DEF Filed
<1> QED BY <1>4, <1>6, <1>7, <1>8, <1>11, <1>12, <1>15

LEMMA BecomesRight ==
    ASSUME NEW t, KeptRight(t), OptionsBecome(t)
    PROVE  OptionsInv'
<1>1. HasParts(t)
  BY DEF KeptRight, Filed, OptionsTyped
<1>2. OptionsNow' = t
  BY <1>1 DEF OptionsNow, OptionsBecome
<1> QED BY <1>2 DEF OptionsInv

LEMMA DownFiler ==
    /\ ForceRecord(Down) /\ ~Down.running /\ Down.noticed = Default /\ Down.late = {} /\ ~Down.failed
BY OptionsAssumption DEF ForceRecord, Down, Values

LEMMA OptionsStart == OptionsInit => OptionsInv
<1> SUFFICES ASSUME OptionsInit PROVE OptionsInv
  OBVIOUS
<1>1. PICK s : s = OptionsNow
  OBVIOUS
<1>2. /\ s.config = config /\ s.filer = Down /\ s.box = NoBox /\ s.waiters = << >> /\ s.kept = Loaded(config)
      /\ s \in [config : {config}, filer : {Down}, box : {NoBox}, waiters : {<< >>}, kept : {Loaded(config)}]
  BY <1>1 DEF OptionsInit, OptionsNow
<1>3. PICK f \in OldFiles \cup {NoFile} : config = [xdg |-> NoFile, old |-> f, dir |-> FALSE]
  BY DEF OptionsInit
<1>4. OptionsFile(f) /\ (f # NoFile => f.format # "none")
  BY <1>3, NoFileIsEmpty, OptionsAssumption DEF OptionsFile
<1>5. ConfigRecord(config)
  <2>1. config.xdg = NoFile /\ config.old = f /\ config \in [xdg : {config.xdg}, old : {config.old}, dir : BOOLEAN]
    BY <1>3
  <2> QED BY <1>4, <2>1, NoFileIsEmpty DEF ConfigRecord
<1>6. s.kept \in Values
  BY <1>2, <1>5, LoadedValues
<1>7. << >> \in Seq(Waiter)
  BY EmptySeq
<1>8. OptionsTyped(s)
  BY <1>2, <1>5, <1>6, <1>7, DownFiler, NoBoxRecord DEF OptionsTyped
<1>9. Filed(s)
  BY <1>2, <1>3, <1>8, DownFiler DEF Filed
<1> QED BY <1>1, <1>2, <1>9, DownFiler, NoBoxRecord DEF OptionsInv, KeptRight

(* The filer starts. *)
LEMMA StartKeeps ==
    ASSUME OptionsInv, NEW how \in SaveHow, NEW moves \in BOOLEAN, FilerStarts(how, moves)
    PROVE  OptionsInv'
<1>1. PICK s0 : s0 = OptionsNow
  OBVIOUS
<1>2. /\ s0.config = config /\ s0.filer = inForce /\ s0.box = obox /\ s0.waiters = waiters /\ s0.kept = kept
      /\ KeptRight(s0) /\ Filed(s0) /\ OptionsTyped(s0) /\ ConfigRecord(config)
      /\ s0 \in [config : {s0.config}, filer : {s0.filer}, box : {s0.box}, waiters : {s0.waiters}, kept : {s0.kept}]
  BY <1>1 DEF OptionsNow, OptionsInv, KeptRight, Filed, OptionsTyped
<1>3. ~inForce.running /\ s0.box.state = "none" /\ s0.waiters = << >>
  BY <1>2 DEF FilerStarts, KeptRight
<1>4. PICK value : value = Loaded(config)
  OBVIOUS
<1>5. value = s0.kept /\ value \in Values
  BY <1>2, <1>4, LoadedValues DEF Filed
<1>6. PICK changed : changed = {o \in Opt : value[o] # Default[o]}
  OBVIOUS
<1>7. PICK g : g = [Down EXCEPT !.running = TRUE, !.value = value, !.changed = changed]
  OBVIOUS
<1>8. /\ g.running /\ g.value = value /\ g.changed = changed /\ g.noticed = Default /\ g.late = {} /\ ~g.failed
      /\ ForceRecord(g)
  BY <1>5, <1>6, <1>7, OptionsAssumption DEF ForceRecord, Down, Values
<1>9. PICK s : s = [s0 EXCEPT !.filer = g]
  OBVIOUS
<1>10. /\ s.config = config /\ s.filer = g /\ s.box = s0.box /\ s.waiters = s0.waiters /\ s.kept = s0.kept
       /\ HasParts(s)
  BY <1>2, <1>9
<1>11. OptionsTyped(s)
  BY <1>2, <1>8, <1>10 DEF OptionsTyped
<1>12. \A o \in Opt \ (g.late \cup g.changed) : g.noticed[o] = g.value[o]
  BY <1>6, <1>8
<1>13. PICK t : t = Notify(s)
  OBVIOUS
<1>14. /\ Filed(t) /\ t.config = config /\ t.waiters = << >> /\ t.kept = value
       /\ t.filer.running /\ t.filer.value = value /\ ~t.filer.failed /\ t.box.state = "none" /\ ~t.box.revert
  <2>1. Loaded(s.config) = s.kept /\ (~s.config.dir => s.config.xdg = NoFile)
    BY <1>2, <1>10 DEF Filed
  <2>2. /\ Filed(t) /\ t.config = s.config /\ t.waiters = s.waiters /\ t.kept = s.kept
        /\ t.filer.running = s.filer.running /\ t.filer.value = s.filer.value
        /\ t.filer.failed = s.filer.failed /\ t.box.state = s.box.state
        /\ t.box.revert <=> s.box.state = "open" /\ s.filer.value # s.filer.backup
    BY <1>10, <1>11, <1>12, <1>13, <2>1, Notified
  <2> QED BY <1>3, <1>5, <1>8, <1>10, <2>2
<1>15. PICK r : r = IF FoundFile(config).format = "lines" THEN Waits(WriteFile(t, how), "start") ELSE Migrate(t, moves)
  OBVIOUS
<1>16. OptionsBecome(r)
  BY <1>1, <1>4, <1>6, <1>7, <1>9, <1>13, <1>15 DEF FilerStarts
<1>17. KeptRight(r)
  <2>1. CASE FoundFile(config).format = "lines"
    <3>1. PICK w : w = WriteFile(t, how)
      OBVIOUS
    <3>2. /\ Filed(w) /\ w.box = t.box /\ w.filer.running = t.filer.running /\ w.filer.value = t.filer.value
          /\ w.filer.failed <=> how # "works"
          /\ w.kept = IF how = "works" THEN t.filer.value ELSE t.kept
      <4>1. Filed(t)
        BY <1>14
      <4> QED BY <3>1, <4>1, FileWritten
    <3>3. Filed(r) /\ SameFiler(w, r) /\ r.box = w.box
      BY <1>15, <2>1, <3>1, <3>2, Waiting DEF Waiter
    <3> QED BY <1>14, <3>2, <3>3 DEF KeptRight, InStep, BoxRight, SameFiler
  <2>2. CASE FoundFile(config).format # "lines"
    <3>1. r = Migrate(t, moves)
      BY <1>15, <2>2
    <3>2. Filed(r) /\ r.filer = t.filer /\ r.box = t.box /\ r.waiters = t.waiters /\ r.kept = t.kept
      BY <1>14, <3>1, Migrated
    <3> QED BY <1>14, <3>2 DEF KeptRight, InStep, BoxRight
  <2> QED BY <2>1, <2>2
<1> QED BY <1>16, <1>17, BecomesRight

(* The state of the options and all that holds of its parts. *)
IsNow(s) ==
    /\ s = OptionsNow /\ KeptRight(s) /\ Filed(s) /\ OptionsTyped(s) /\ ForceRecord(s.filer) /\ OboxRecord(s.box)
    /\ s.config = config /\ s.filer = inForce /\ s.box = obox /\ s.waiters = waiters /\ s.kept = kept
    /\ HasParts(s)
USE DEF IsNow

(* The state, as the record the handlers work on. *)
LEMMA StateNow ==
    ASSUME OptionsInv
    PROVE  \E s : IsNow(s)
<1>1. PICK s : s = OptionsNow
  OBVIOUS
<1>2. /\ s.config = config /\ s.filer = inForce /\ s.box = obox /\ s.waiters = waiters /\ s.kept = kept
      /\ HasParts(s)
  BY <1>1 DEF OptionsNow
<1>3. KeptRight(s) /\ Filed(s) /\ OptionsTyped(s)
  BY <1>1 DEF OptionsInv, KeptRight, Filed
<1>4. ForceRecord(s.filer) /\ OboxRecord(s.box)
  BY <1>3 DEF OptionsTyped
<1> QED BY <1>1, <1>2, <1>3, <1>4

(* A dialog ends. *)
LEMMA DialogKeeps ==
    ASSUME OptionsInv, NEW how \in SaveHow, NEW moves \in BOOLEAN, DialogEnds(how, moves)
    PROVE  OptionsInv'
<1>1. PICK s0 : IsNow(s0)
  BY StateNow
<1>2. waiters # << >> /\ waiters \in Seq(Waiter)
  BY <1>1 DEF DialogEnds, OptionsTyped
<1>3. PICK w : w = SubSeq(waiters, 1, Len(waiters) - 1)
  OBVIOUS
<1>4. Len(waiters) \in Nat /\ Len(waiters) >= 1 /\ DOMAIN waiters = 1..Len(waiters)
  BY <1>2, LenProperties, EmptySeq
<1>5. w \in Seq(Waiter)
  <2>1. Len(waiters) - 1 \in 0..Len(waiters)
    BY <1>4
  <2> QED BY <1>2, <1>3, <1>4, SubSeqProperties
<1>6. PICK last : last = waiters[Len(waiters)]
  OBVIOUS
<1>7. last \in Waiter /\ Len(waiters) \in DOMAIN waiters
  <2>1. Len(waiters) \in 1..Len(waiters)
    BY <1>4
  <2> QED BY <1>2, <1>4, <1>6, <2>1, ElementOfSeq
<1>8. PICK s : s = [s0 EXCEPT !.waiters = w]
  OBVIOUS
<1>9. /\ s.config = s0.config /\ s.filer = s0.filer /\ s.box = s0.box /\ s.waiters = w /\ s.kept = s0.kept
      /\ HasParts(s)
  BY <1>1, <1>8
<1>10. OptionsTyped(s)
  BY <1>1, <1>5, <1>9 DEF OptionsTyped
<1>11. Filed(s)
  BY <1>1, <1>9, <1>10 DEF Filed
<1>12. s0.filer.running /\ InStep(s0) /\ BoxRight(s0)
  BY <1>1, <1>2 DEF KeptRight
<1>13. OptionsBecome(CASE last = "start" -> Migrate(s, moves)
                       [] last = "set"   -> SaveEnds(s, how)
                       [] last = "close" -> BoxGone(s))
  BY <1>1, <1>3, <1>6, <1>8 DEF DialogEnds
<1>14. s.box.state = "open" => last = "set"
  BY <1>1, <1>6, <1>7, <1>9, <1>12 DEF BoxRight
<1>15. CASE last = "start"
  <2>1. PICK t : t = Migrate(s, moves)
    OBVIOUS
  <2>2. OptionsBecome(t)
    BY <1>13, <1>15, <2>1
  <2>3. Filed(t) /\ t.filer = s.filer /\ t.box = s.box /\ t.waiters = s.waiters /\ t.kept = s.kept
    BY <1>11, <2>1, Migrated
  <2>4. KeptRight(t)
    BY <1>9, <1>12, <1>14, <1>15, <2>3 DEF KeptRight, InStep, BoxRight
  <2> QED BY <2>2, <2>4, BecomesRight
<1>16. CASE last = "set"
  <2>1. PICK t : t = SaveEnds(s, how)
    OBVIOUS
  <2>2. OptionsBecome(t)
    BY <1>13, <1>16, <2>1
  <2>3. IF s.box.state = "open" THEN ~s.filer.failed /\ s.filer.value = s.filer.backup => s.filer.value = s.kept
        ELSE ~s.box.revert /\ (~s.filer.failed => s.filer.value = s.kept)
    BY <1>9, <1>12 DEF InStep, BoxRight
  <2>4. KeptRight(t)
    BY <1>9, <1>11, <1>12, <2>1, <2>3, SaveEnded
  <2> QED BY <2>2, <2>4, BecomesRight
<1>17. CASE last = "close"
  <2>1. PICK t : t = BoxGone(s)
    OBVIOUS
  <2>2. OptionsBecome(t)
    BY <1>13, <1>17, <2>1
  <2>3. /\ Filed(t) /\ t.kept = s.kept /\ t.waiters = s.waiters /\ t.box.state = "none" /\ ~t.box.revert
        /\ t.filer.running = s.filer.running /\ t.filer.value = s.filer.value /\ t.filer.failed = s.filer.failed
    BY <1>11, <2>1, GoneBox
  <2>4. KeptRight(t)
    BY <1>9, <1>12, <1>14, <1>17, <2>3 DEF KeptRight, InStep, BoxRight
  <2> QED BY <2>2, <2>4, BecomesRight
<1> QED BY <1>7, <1>15, <1>16, <1>17 DEF Waiter

(* The box is opened and closed. *)
LEMMA ShowKeeps ==
    ASSUME OptionsInv, ShowOptions
    PROVE  OptionsInv'
<1>1. PICK s0 : IsNow(s0)
  BY StateNow
<1>2. s0.filer.running /\ s0.waiters = << >> /\ s0.box.state = "none"
  BY <1>1 DEF ShowOptions, NoDialog
<1>3. PICK value : value = s0.filer.value
  OBVIOUS
<1>4. PICK b : b = [state |-> "open", widget |-> value, revert |-> FALSE]
  OBVIOUS
<1>5. PICK t : t = [s0 EXCEPT !.filer.backup = value, !.box = b]
  OBVIOUS
<1>6. /\ t.filer = [s0.filer EXCEPT !.backup = value] /\ t.box = b
      /\ t.config = s0.config /\ t.waiters = s0.waiters /\ t.kept = s0.kept
      /\ HasParts(t)
  BY <1>1, <1>5
<1>7. PICK g : g = t.filer
  OBVIOUS
<1>8. /\ g.running = s0.filer.running /\ g.value = value /\ g.backup = value /\ g.noticed = s0.filer.noticed
      /\ g.late = s0.filer.late /\ g.failed = s0.filer.failed /\ ForceRecord(g)
  BY <1>1, <1>3, <1>6, <1>7 DEF ForceRecord
<1>9. b.state = "open" /\ b.widget = value /\ ~b.revert /\ OboxRecord(b)
  BY <1>1, <1>3, <1>4 DEF OboxRecord, ForceRecord
<1>10. OptionsTyped(t)
  <2>1. PartsTyped(t)
    BY <1>1, <1>6 DEF OptionsTyped
  <2> QED BY <1>1, <1>6, <1>7, <1>8, <1>9, <2>1 DEF OptionsTyped
<1>11. Filed(t)
  BY <1>1, <1>3, <1>6, <1>7, <1>8, <1>10 DEF Filed
<1>12. t.filer.value = value /\ t.filer.backup = value /\ (~t.filer.failed => value = t.kept) /\ t.filer.running
  BY <1>1, <1>2, <1>3, <1>6, <1>7, <1>8 DEF KeptRight, InStep
<1>13. KeptRight(t)
  <2>1. t.waiters = << >> /\ DOMAIN t.waiters = {}
    BY <1>2, <1>6, EmptySeq, LenProperties
  <2> QED BY <1>6, <1>9, <1>11, <1>12, <2>1 DEF KeptRight, InStep, BoxRight
<1>14. OptionsBecome(t)
  BY <1>1, <1>3, <1>4, <1>5 DEF ShowOptions
<1> QED BY <1>13, <1>14, BecomesRight

LEMMA CloseKeeps ==
    ASSUME OptionsInv, NEW how \in SaveHow, CloseOptions(how)
    PROVE  OptionsInv'
<1>1. PICK s0 : s0 = OptionsNow /\ KeptRight(s0) /\ Filed(s0) /\ s0.filer = inForce /\ s0.box = obox
  BY StateNow
<1>2. inForce.running /\ obox.state = "open" /\ OptionsBecome(DestroyBox(s0, how))
  BY <1>1 DEF CloseOptions, NoDialog
<1>3. ~s0.filer.failed /\ s0.filer.value = s0.filer.backup => s0.filer.value = s0.kept
  BY <1>1, <1>2 DEF KeptRight, InStep
<1>4. PICK t : t = DestroyBox(s0, how)
  OBVIOUS
<1>5. KeptRight(t)
  BY <1>1, <1>2, <1>3, <1>4, DestroyedBox
<1> QED BY <1>2, <1>4, <1>5, BecomesRight

(* A widget changes: its option changes with it. *)
LEMMA WidgetKeeps ==
    ASSUME OptionsInv, NEW o \in Opt, NEW v \in Val, CheckWidget(o, v)
    PROVE  OptionsInv'
<1>1. PICK s0 : IsNow(s0)
  BY StateNow
<1>2. /\ s0.filer.running /\ s0.waiters = << >> /\ s0.box.state = "open" /\ o \in HasWidget /\ v # s0.box.widget[o]
      /\ InStep(s0) /\ BoxRight(s0)
  BY <1>1 DEF CheckWidget, NoDialog, KeptRight
<1>3. PICK changed : changed = {p \in {o} : s0.filer.value[p] # v}
  OBVIOUS
<1>4. PICK value : value = [s0.filer.value EXCEPT ![o] = v]
  OBVIOUS
<1>5. PICK widget : widget = [s0.box.widget EXCEPT ![o] = v]
  OBVIOUS
<1>6. PICK s : s = [s0 EXCEPT !.box.widget[o] = v, !.filer.changed = changed, !.filer.value[o] = v]
  OBVIOUS
<1>7. /\ s.filer = [[s0.filer EXCEPT !.changed = changed] EXCEPT !.value = value]
      /\ s.box = [s0.box EXCEPT !.widget = widget]
      /\ s.config = s0.config /\ s.waiters = s0.waiters /\ s.kept = s0.kept
      /\ HasParts(s)
  BY <1>1, <1>4, <1>5, <1>6 DEF ForceRecord, OboxRecord
<1>8. changed = {o} /\ changed \in SUBSET Opt
  BY <1>2, <1>3 DEF BoxRight
<1>9. /\ value \in Values /\ value[o] = v /\ \A p \in Opt : p # o => value[p] = s0.filer.value[p]
      /\ widget \in Values /\ widget[o] = v /\ \A p \in Opt : p # o => widget[p] = s0.box.widget[p]
  BY <1>1, <1>4, <1>5 DEF ForceRecord, OboxRecord, Values
<1>10. PICK g : g = s.filer
  OBVIOUS
<1>11. /\ g.running = s0.filer.running /\ g.value = value /\ g.backup = s0.filer.backup /\ g.changed = changed
       /\ g.noticed = s0.filer.noticed /\ g.late = s0.filer.late /\ g.failed = s0.filer.failed
  BY <1>1, <1>7, <1>10 DEF ForceRecord
<1>12. ForceRecord(g)
  <2>1. g = [[s0.filer EXCEPT !.changed = changed] EXCEPT !.value = value]
    BY <1>7, <1>10
  <2>2. changed \in SUBSET Opt /\ value \in Values
    BY <1>8, <1>9
  <2> QED BY <1>1, <2>1, <2>2 DEF ForceRecord
<1>13. PICK b : b = s.box
  OBVIOUS
<1>14. b.state = "open" /\ b.widget = widget /\ OboxRecord(b)
  BY <1>1, <1>2, <1>7, <1>9, <1>13 DEF OboxRecord
<1>15. OptionsTyped(s)
  <2>1. PartsTyped(s)
    BY <1>1, <1>7 DEF OptionsTyped
  <2> QED BY <1>1, <1>7, <1>10, <1>12, <1>13, <1>14, <2>1 DEF OptionsTyped
<1>16. PICK t : t = Notify(s)
  OBVIOUS
<1>17. /\ Filed(t) /\ t.waiters = s.waiters /\ t.kept = s.kept
       /\ t.filer.running = g.running /\ t.filer.value = g.value
       /\ t.filer.backup = g.backup /\ t.filer.failed = g.failed
       /\ t.box.state = b.state /\ t.box.widget = b.widget
       /\ t.box.revert <=> b.state = "open" /\ g.value # g.backup
  <2>1. \A p \in Opt \ (s.filer.late \cup s.filer.changed) : s.filer.noticed[p] = s.filer.value[p]
    <3>1. \A p \in Opt \ s0.filer.late : s0.filer.noticed[p] = s0.filer.value[p]
      BY <1>1, <1>2 DEF Filed
    <3> QED BY <1>8, <1>9, <1>10, <1>11, <3>1
  <2>2. Loaded(s.config) = s.kept /\ (~s.config.dir => s.config.xdg = NoFile)
    BY <1>1, <1>7 DEF Filed
  <2> QED BY <1>10, <1>13, <1>15, <1>16, <2>1, <2>2, Notified
<1>18. InStep(t)
  BY <1>2, <1>7, <1>11, <1>14, <1>17 DEF InStep
<1>19. BoxRight(t)
  <2>1. t.waiters = << >> /\ DOMAIN t.waiters = {}
    BY <1>2, <1>7, <1>17, EmptySeq, LenProperties
  <2>2. \A p \in HasWidget : widget[p] = value[p]
    BY <1>2, <1>9, OptionsAssumption DEF BoxRight
  <2> QED BY <1>11, <1>14, <1>17, <2>1, <2>2 DEF BoxRight
<1>20. OptionsBecome(t)
  <2>1. s = [OptionsNow EXCEPT !.box.widget[o] = v, !.filer.changed = {p \in {o} : inForce.value[p] # v},
                               !.filer.value[o] = v]
    <3>1. {p \in {o} : inForce.value[p] # v} = changed
      BY <1>1, <1>3
    <3> QED BY <1>1, <1>6, <3>1
  <2>2. OptionsBecome(IF s.filer.changed = {} THEN s ELSE Notify(s))
    BY <2>1 DEF CheckWidget
  <2> QED BY <1>8, <1>10, <1>11, <1>16, <2>2
<1>21. KeptRight(t)
  BY <1>2, <1>11, <1>17, <1>18, <1>19 DEF KeptRight
<1> QED BY <1>20, <1>21, BecomesRight

(* Revert: what is in force, and the widgets, are as when the box opened. *)
LEMMA RevertKeeps ==
    ASSUME OptionsInv, RevertOptions
    PROVE  OptionsInv'
<1>1. PICK s0 : IsNow(s0)
  BY StateNow
<1>2. s0.filer.running /\ s0.waiters = << >> /\ s0.box.revert /\ InStep(s0) /\ BoxRight(s0)
  BY <1>1 DEF RevertOptions, NoDialog, KeptRight
<1>3. s0.box.state = "open"
  BY <1>2 DEF BoxRight
<1>4. PICK changed : changed = {p \in Opt : s0.filer.value[p] # s0.filer.backup[p]}
  OBVIOUS
<1>5. PICK value : value = s0.filer.backup
  OBVIOUS
<1>6. PICK s : s = [s0 EXCEPT !.filer.changed = changed, !.filer.value = value]
  OBVIOUS
<1>7. /\ s.filer = [[s0.filer EXCEPT !.changed = changed] EXCEPT !.value = value]
      /\ s.config = s0.config /\ s.waiters = s0.waiters /\ s.kept = s0.kept /\ s.box = s0.box
      /\ HasParts(s)
  BY <1>1, <1>6
<1>8. PICK g : g = s.filer
  OBVIOUS
<1>9. /\ g.running = s0.filer.running /\ g.value = value /\ g.backup = value /\ g.changed = changed
      /\ g.noticed = s0.filer.noticed /\ g.late = s0.filer.late /\ g.failed = s0.filer.failed
  BY <1>1, <1>5, <1>7, <1>8 DEF ForceRecord
<1>10. value \in Values /\ changed \in SUBSET Opt
  BY <1>1, <1>4, <1>5 DEF ForceRecord
<1>11. ForceRecord(g)
  BY <1>1, <1>7, <1>8, <1>10 DEF ForceRecord
<1>12. OptionsTyped(s)
  <2>1. PartsTyped(s)
    BY <1>1, <1>7 DEF OptionsTyped
  <2> QED BY <1>1, <1>7, <1>8, <1>11, <2>1 DEF OptionsTyped
<1>13. PICK n : n = Notify(s)
  OBVIOUS
<1>14. /\ Filed(n) /\ n.waiters = s.waiters /\ n.kept = s.kept
       /\ n.filer.running = g.running /\ n.filer.value = g.value
       /\ n.filer.backup = g.backup /\ n.filer.failed = g.failed
       /\ n.box.state = s.box.state /\ n.box.widget = s.box.widget
       /\ n.box.revert <=> s.box.state = "open" /\ g.value # g.backup
  <2>1. \A p \in Opt \ (s.filer.late \cup s.filer.changed) : s.filer.noticed[p] = s.filer.value[p]
    BY <1>1, <1>2, <1>4, <1>5, <1>8, <1>9 DEF Filed
  <2>2. Loaded(s.config) = s.kept /\ (~s.config.dir => s.config.xdg = NoFile)
    BY <1>1, <1>7 DEF Filed
  <2> QED BY <1>8, <1>12, <1>13, <2>1, <2>2, Notified
<1>15. PICK widget : widget = [p \in Opt |-> IF p \in HasWidget THEN n.filer.value[p] ELSE n.box.widget[p]]
  OBVIOUS
<1>16. OptionsTyped(n) /\ OboxRecord(n.box)
       /\ n \in [config : {n.config}, filer : {n.filer}, box : {n.box}, waiters : {n.waiters}, kept : {n.kept}]
  BY <1>14 DEF Filed, OptionsTyped
<1>17. widget \in Values
  BY <1>9, <1>10, <1>14, <1>15, <1>16 DEF OboxRecord, Values
<1>18. PICK t : t = [n EXCEPT !.box.widget = widget]
  OBVIOUS
<1>19. /\ t.box = [n.box EXCEPT !.widget = widget]
       /\ t.config = n.config /\ t.waiters = n.waiters /\ t.kept = n.kept /\ t.filer = n.filer
       /\ HasParts(t)
  BY <1>16, <1>18
<1>20. PICK b : b = t.box
  OBVIOUS
<1>21. b.state = n.box.state /\ b.widget = widget /\ b.revert = n.box.revert /\ OboxRecord(b)
  BY <1>16, <1>17, <1>19, <1>20 DEF OboxRecord
<1>22. OptionsTyped(t)
  <2>1. PartsTyped(t)
    BY <1>16, <1>19 DEF OptionsTyped
  <2> QED BY <1>16, <1>19, <1>20, <1>21, <2>1 DEF OptionsTyped
<1>23. Filed(t)
  BY <1>14, <1>19, <1>22 DEF Filed
<1>24. InStep(t)
  BY <1>2, <1>3, <1>5, <1>7, <1>9, <1>14, <1>19, <1>20, <1>21 DEF InStep
<1>25. BoxRight(t)
  <2>1. t.waiters = << >> /\ DOMAIN t.waiters = {}
    BY <1>2, <1>7, <1>14, <1>19, EmptySeq, LenProperties
  <2>2. \A p \in HasWidget : widget[p] = value[p]
    BY <1>9, <1>14, <1>15, OptionsAssumption
  <2>3. t.filer.value = value /\ t.filer.backup = value /\ t.box.widget = widget /\ ~t.box.revert
    BY <1>9, <1>14, <1>19, <1>20, <1>21
  <2> QED BY <2>1, <2>2, <2>3 DEF BoxRight
<1>26. OptionsBecome(t)
  <2>1. s = [OptionsNow EXCEPT !.filer.changed = {p \in Opt : inForce.value[p] # inForce.backup[p]},
                               !.filer.value = inForce.backup]
    BY <1>1, <1>4, <1>5, <1>6
  <2>2. OptionsBecome(UpdateOptionWidgets(n))
    BY <1>13, <2>1 DEF RevertOptions
  <2>3. UpdateOptionWidgets(n) = t
    BY <1>15, <1>18 DEF UpdateOptionWidgets
  <2> QED BY <2>2, <2>3
<1>27. KeptRight(t)
  BY <1>2, <1>9, <1>14, <1>19, <1>23, <1>24, <1>25 DEF KeptRight
<1> QED BY <1>26, <1>27, BecomesRight

(* The request SetOption: the value is saved at once, also while a box or a *)
(* dialog is up. *)
LEMMA SetKeeps ==
    ASSUME OptionsInv, NEW o \in Opt, NEW v \in Val, NEW how \in SaveHow, NEW how2 \in SaveHow,
           SetOption(o, v, how, how2)
    PROVE  OptionsInv'
<1>1. PICK s0 : IsNow(s0)
  BY StateNow
<1>2. s0.filer.running /\ InStep(s0) /\ BoxRight(s0)
  BY <1>1 DEF SetOption, KeptRight
<1>3. PICK value : value = [s0.filer.value EXCEPT ![o] = v]
  OBVIOUS
<1>4. PICK changed : changed = IF s0.filer.value[o] = v THEN s0.filer.changed \ {o} ELSE s0.filer.changed \cup {o}
  OBVIOUS
<1>5. PICK late : late = IF s0.filer.value[o] = v THEN s0.filer.late ELSE s0.filer.late \cup {o}
  OBVIOUS
<1>6. PICK g : g = [[[s0.filer EXCEPT !.value = value] EXCEPT !.changed = changed] EXCEPT !.late = late]
  OBVIOUS
<1>7. PICK s : s = [s0 EXCEPT !.filer = g]
  OBVIOUS
<1>8. /\ g.running = s0.filer.running /\ g.value = value /\ g.backup = s0.filer.backup /\ g.changed = changed
      /\ g.noticed = s0.filer.noticed /\ g.late = late /\ g.failed = s0.filer.failed
  BY <1>1, <1>6 DEF ForceRecord
<1>9. value \in Values /\ changed \in SUBSET Opt /\ late \in SUBSET Opt
  BY <1>1, <1>3, <1>4, <1>5 DEF ForceRecord, Values
<1>10. ForceRecord(g)
  BY <1>1, <1>6, <1>9 DEF ForceRecord
<1>11. /\ s.filer = g /\ s.box = s0.box /\ s.config = s0.config /\ s.waiters = s0.waiters /\ s.kept = s0.kept
       /\ HasParts(s)
  BY <1>1, <1>7
<1>12. OptionsTyped(s)
  <2>1. PartsTyped(s)
    BY <1>1, <1>11 DEF OptionsTyped
  <2> QED BY <1>1, <1>10, <1>11, <2>1 DEF OptionsTyped
<1>13. \A p \in Opt \ late : g.noticed[p] = value[p]
  <2>1. \A p \in Opt \ s0.filer.late : s0.filer.noticed[p] = s0.filer.value[p]
    BY <1>1, <1>2 DEF Filed
  <2>2. \A p \in Opt : p # o => value[p] = s0.filer.value[p]
    BY <1>1, <1>3 DEF ForceRecord, Values
  <2>3. value[o] = v
    BY <1>1, <1>3 DEF ForceRecord, Values
  <2> QED BY <1>5, <1>8, <2>1, <2>2, <2>3
<1>14. Filed(s)
  BY <1>1, <1>8, <1>11, <1>12, <1>13 DEF Filed
<1>15. s = [OptionsNow EXCEPT !.filer.value[o] = v,
                              !.filer.changed = IF inForce.value[o] = v THEN @ \ {o} ELSE @ \cup {o},
                              !.filer.late = IF inForce.value[o] = v THEN @ ELSE @ \cup {o}]
  BY <1>1, <1>3, <1>4, <1>5, <1>6, <1>7 DEF ForceRecord
<1>16. OptionsBecome(IF s0.filer.value[o] = v THEN s
                     ELSE IF how = "works" THEN SaveEnds(WriteFile(s, how), how2)
                     ELSE Waits(WriteFile(s, how), "set"))
  BY <1>1, <1>15 DEF SetOption
<1>17. CASE s0.filer.value[o] = v
  <2>1. value = s0.filer.value
    BY <1>1, <1>3, <1>17 DEF ForceRecord, Values
  <2>2. KeptRight(s)
    <3>1. /\ g.running /\ g.value = s0.filer.value /\ g.backup = s0.filer.backup /\ g.failed = s0.filer.failed
      BY <1>2, <1>8, <2>1
    <3>2. InStep(s)
      BY <1>2, <1>11, <3>1 DEF InStep
    <3>3. BoxRight(s)
      BY <1>2, <1>11, <3>1 DEF BoxRight
    <3> QED BY <1>11, <1>14, <3>1, <3>2, <3>3 DEF KeptRight
  <2>3. OptionsBecome(s)
    BY <1>16, <1>17
  <2> QED BY <2>2, <2>3, BecomesRight
<1>18. PICK w : w = WriteFile(s, how)
  OBVIOUS
<1>19. /\ Filed(w) /\ w.box = s0.box /\ w.waiters = s0.waiters /\ w.filer.running
       /\ w.filer.value = value /\ w.filer.backup = s0.filer.backup
       /\ w.filer.failed <=> how # "works"
       /\ w.kept = IF how = "works" THEN value ELSE s0.kept
  <2>1. /\ Filed(w) /\ w.box = s.box /\ w.waiters = s.waiters
        /\ w.filer.running = s.filer.running /\ w.filer.value = s.filer.value /\ w.filer.backup = s.filer.backup
        /\ w.filer.failed <=> how # "works"
        /\ w.kept = IF how = "works" THEN s.filer.value ELSE s.kept
    BY <1>14, <1>18, FileWritten
  <2> QED BY <1>2, <1>8, <1>11, <2>1
<1>20. CASE s0.filer.value[o] # v /\ how = "works"
  <2>1. PICK t : t = SaveEnds(w, how2)
    OBVIOUS
  <2>2. IF w.box.state = "open" THEN ~w.filer.failed /\ w.filer.value = w.filer.backup => w.filer.value = w.kept
        ELSE ~w.box.revert /\ (~w.filer.failed => w.filer.value = w.kept)
    BY <1>2, <1>19, <1>20 DEF BoxRight
  <2>3. KeptRight(t)
    BY <1>19, <2>1, <2>2, SaveEnded
  <2>4. OptionsBecome(t)
    BY <1>16, <1>18, <1>20, <2>1
  <2> QED BY <2>3, <2>4, BecomesRight
<1>21. CASE s0.filer.value[o] # v /\ how # "works"
  <2>1. PICK t : t = Waits(w, "set")
    OBVIOUS
  <2>2. /\ Filed(t) /\ SameFiler(w, t) /\ t.box = w.box
        /\ t.waiters # << >> /\ DOMAIN w.waiters \subseteq DOMAIN t.waiters
        /\ \A i \in DOMAIN t.waiters : t.waiters[i] = "set" \/ (i \in DOMAIN w.waiters /\ t.waiters[i] = w.waiters[i])
    BY <1>19, <2>1, Waiting DEF Waiter
  <2>3. BoxRight(t)
    BY <1>2, <1>19, <2>2 DEF BoxRight
  <2>4. KeptRight(t)
    BY <1>19, <1>21, <2>2, <2>3 DEF KeptRight, InStep, SameFiler
  <2>5. OptionsBecome(t)
    BY <1>16, <1>18, <1>21, <2>1
  <2> QED BY <2>4, <2>5, BecomesRight
<1> QED BY <1>17, <1>20, <1>21

(* The filer is killed: what is found at the next start is still the file *)
(* of the last save that succeeded, also in the middle of another. *)
LEMMA KillKeeps ==
    ASSUME OptionsInv, NEW saving \in BOOLEAN, KilledSaving(saving)
    PROVE  OptionsInv'
<1>1. PICK s0 : IsNow(s0)
  BY StateNow
<1>2. PICK c : c = IF saving THEN HalfWritten(s0.config) ELSE s0.config
  OBVIOUS
<1>3. ConfigRecord(s0.config)
  BY <1>1 DEF OptionsTyped
<1>4. /\ c.xdg = s0.config.xdg /\ c.old = s0.config.old /\ ConfigRecord(c)
      /\ (~c.dir => ~s0.config.dir)
  BY <1>2, <1>3 DEF HalfWritten, ConfigRecord
<1>5. PICK b : b = NoBox
  OBVIOUS
<1>6. PICK g : g = Down
  OBVIOUS
<1>7. PICK t : t = [s0 EXCEPT !.filer = g, !.box = b, !.waiters = << >>, !.config = c]
  OBVIOUS
<1>8. /\ t.filer = g /\ t.box = b /\ t.waiters = << >> /\ t.config = c /\ t.kept = s0.kept
      /\ HasParts(t)
  BY <1>1, <1>7
<1>9. OptionsTyped(t)
  <2>1. << >> \in Seq(Waiter) /\ t.kept \in Values
    BY <1>1, <1>8, EmptySeq DEF OptionsTyped
  <2>2. PartsTyped(t)
    BY <1>8, <2>1
  <2> QED BY <1>4, <1>5, <1>6, <1>8, <2>2, DownFiler, NoBoxRecord DEF OptionsTyped
<1>10. Loaded(c) = Loaded(s0.config)
  BY <1>4 DEF Loaded, FoundFile
<1>11. Filed(t)
  BY <1>1, <1>4, <1>6, <1>8, <1>9, <1>10, DownFiler DEF Filed
<1>12. KeptRight(t)
  BY <1>5, <1>6, <1>8, <1>11, DownFiler, NoBoxRecord DEF KeptRight
<1>13. OptionsBecome(t)
  <2>1. KilledSaving(saving) =>
          OptionsBecome([s0 EXCEPT !.filer = Down, !.box = NoBox, !.waiters = << >>,
                                   !.config = IF saving THEN HalfWritten(@) ELSE @])
    BY <1>1 DEF KilledSaving
  <2>2. t = [s0 EXCEPT !.filer = Down, !.box = NoBox, !.waiters = << >>,
                       !.config = IF saving THEN HalfWritten(@) ELSE @]
    BY <1>2, <1>5, <1>6, <1>7
  <2> QED BY <2>1, <2>2
<1> QED BY <1>12, <1>13, BecomesRight

LEMMA OptionsKeeps == OptionsInv /\ [OptionsNext]_optionVars => OptionsInv'
<1> SUFFICES ASSUME OptionsInv, [OptionsNext]_optionVars
             PROVE  OptionsInv'
  OBVIOUS
<1>1. CASE ShowOptions
  BY <1>1, ShowKeeps
<1>2. CASE RevertOptions
  BY <1>2, RevertKeeps
<1>3. ASSUME NEW how \in SaveHow, CloseOptions(how)
      PROVE  OptionsInv'
  BY <1>3, CloseKeeps
<1>4. ASSUME NEW how \in SaveHow, NEW moves \in BOOLEAN, FilerStarts(how, moves)
      PROVE  OptionsInv'
  BY <1>4, StartKeeps
<1>5. ASSUME NEW how \in SaveHow, NEW moves \in BOOLEAN, DialogEnds(how, moves)
      PROVE  OptionsInv'
  BY <1>5, DialogKeeps
<1>6. ASSUME NEW saving \in BOOLEAN, KilledSaving(saving)
      PROVE  OptionsInv'
  BY <1>6, KillKeeps
<1>7. ASSUME NEW o \in Opt, NEW v \in Val, CheckWidget(o, v)
      PROVE  OptionsInv'
  BY <1>7, WidgetKeeps
<1>8. ASSUME NEW o \in Opt, NEW v \in Val, NEW how \in SaveHow, NEW how2 \in SaveHow, SetOption(o, v, how, how2)
      PROVE  OptionsInv'
  BY <1>8, SetKeeps
<1>9. CASE UNCHANGED optionVars
  <2>1. OptionsNow' = OptionsNow
    BY <1>9 DEF optionVars, OptionsNow
  <2>2. PICK s : s = OptionsNow /\ KeptRight(s)
    BY DEF OptionsInv
  <2>3. OptionsBecome(s)
    BY <1>9, <2>2 DEF OptionsBecome, OptionsNow, optionVars
  <2> QED BY <2>2, <2>3, BecomesRight
<1> QED BY <1>1, <1>2, <1>3, <1>4, <1>5, <1>6, <1>7, <1>8, <1>9 DEF OptionsNext

(* What the last successful save wrote is what the next start loads, and *)
(* with no box and no dialog it is what is in force unless a save failed: *)
(* for every set of options and values, with any files of earlier versions. *)
THEOREM OptionsAlwaysKept == OptionsSpec => []OptionsKept
<1>1. OptionsInv => OptionsKept
  <2> SUFFICES ASSUME OptionsInv PROVE OptionsKept
    OBVIOUS
  <2>1. PICK s0 : IsNow(s0)
    BY StateNow
  <2>2. Loaded(config) = kept /\ (inForce.running => \A o \in Opt \ inForce.late : inForce.noticed[o] = inForce.value[o])
    BY <2>1 DEF Filed
  <2>3. NoDialog => InStep(s0) /\ BoxRight(s0) /\ waiters = << >>
    BY <2>1 DEF NoDialog, KeptRight
  <2>4. NoDialog /\ obox.state = "none" /\ ~inForce.failed => inForce.value = kept
    BY <2>1, <2>3 DEF InStep
  <2>5. obox.state = "open" /\ NoDialog =>
          /\ \A o \in HasWidget : obox.widget[o] = inForce.value[o]
          /\ obox.revert <=> inForce.value # inForce.backup
    BY <2>1, <2>3 DEF BoxRight
  <2> QED BY <2>2, <2>4, <2>5 DEF OptionsKept
<1> QED BY <1>1, OptionsStart, OptionsKeeps, PTL DEF OptionsSpec

--------------------
(* The user's icons.  A save that worked made the file what is in memory, *)
(* a file that is not there has no rules, and what an item shows is right *)
(* as long as every step looks at it again or marks it when what it would *)
(* show changes. *)
RulesRecord(r) ==
    /\ r \in [table : {r.table}, list : {r.list}, there : BOOLEAN, newer : BOOLEAN, unsaved : BOOLEAN,
              foreign : BOOLEAN, wanted : {r.wanted}]
    /\ DOMAIN r.table = IconItem /\ DOMAIN r.list = IconItem /\ DOMAIN r.wanted = IconItem
WithRule(r, i, p) == [r EXCEPT !.table[i] = p, !.wanted[i] = p]
ImagesRecord(d) ==
    d \in [pics : SUBSET Picture, dir : {d.dir}, type : {d.type}, app : {d.app}, trusted : BOOLEAN,
           system : {d.system}] /\ DOMAIN d.dir = IconItem /\ DOMAIN d.type = IconItem

RulesSound(r) ==
    /\ RulesRecord(r)
    /\ ~r.there => r.list = NoRules
    /\ r.table = r.wanted
    /\ ~r.unsaved /\ ~r.foreign => r.list = r.table

IconsInv == RulesSound(rules) /\ ImagesRecord(images) /\ BestIsShown

LEMMA ReadIsSound ==
    ASSUME NEW r, RulesSound(r) PROVE RulesSound(Read(r))
BY DEF RulesSound, RulesRecord, Read

LEMMA SaveIsSound ==
    ASSUME NEW r, RulesSound(r), NEW i, NEW p, NEW s \in SavedRules(WithRule(r, i, p))
    PROVE  /\ RulesSound(s)
           /\ \A j \in IconItem : j # i => s.table[j] = r.table[j]
<1>1. PICK q : q = WithRule(r, i, p)
  OBVIOUS
<1>2. /\ RulesRecord(q) /\ q.there = r.there /\ q.list = r.list /\ q.unsaved = r.unsaved
      /\ q.foreign = r.foreign /\ q.newer = r.newer
      /\ \A j \in IconItem : j # i => q.table[j] = r.table[j]
      /\ q.table = q.wanted
  BY <1>1 DEF RulesSound, RulesRecord, WithRule
<1>3. PICK ok \in BOOLEAN, newer \in BOOLEAN : s = Save(q, ok, newer)
  <2>1. s \in SavedRules(q)
    BY <1>1
  <2>2. q.newer \in BOOLEAN
    BY <1>2 DEF RulesRecord
  <2>3. PICK ok \in BOOLEAN, newer \in {q.newer, TRUE} : s = Save(q, ok, newer)
    BY <2>1 DEF SavedRules, Save
  <2> QED BY <2>2, <2>3
<1>4. CASE ok
  <2>1. /\ s.table = q.table /\ s.list = q.table /\ s.wanted = q.wanted /\ s.there = TRUE
        /\ s.unsaved = FALSE /\ RulesRecord(s)
    BY <1>2, <1>3, <1>4 DEF Save, RulesRecord
  <2>2. s.table = s.wanted
    BY <1>2, <2>1
  <2> QED BY <1>2, <2>1, <2>2 DEF RulesSound
<1>5. CASE ~ok
  <2>1. /\ s.table = q.table /\ s.list = q.list /\ s.there = q.there /\ s.wanted = q.wanted
        /\ s.unsaved = TRUE /\ RulesRecord(s)
    BY <1>2, <1>3, <1>5 DEF Save, RulesRecord
  <2> QED BY <1>2, <2>1 DEF RulesSound
<1> QED BY <1>4, <1>5

(* What an item shows depends on nothing else. *)
SameFor(j) ==
    /\ images'.dir[j] = images.dir[j] /\ images'.type[j] = images.type[j]
    /\ images'.pics = images.pics /\ images'.app = images.app
    /\ images'.trusted = images.trusted /\ images'.system = images.system

LEMMA BestStays ==
    ASSUME NEW j \in IconItem, rules'.table[j] = rules.table[j], SameFor(j)
    PROVE  Best(j)' = Best(j)
<1>1. Own(j, rules.table, images)' = Own(j, rules.table, images)
  BY DEF SameFor, Own
<1>2. TypeOnDisk(j, images)' = TypeOnDisk(j, images)
  BY DEF SameFor, TypeOnDisk, TypeIconPath
<1> QED BY <1>1, <1>2 DEF Best

(* Looking is enough where nothing else changes. *)
LEMMA LookShows ==
    ASSUME BestIsShown, NEW things, NEW t, NEW marked, Look(things, t, marked),
           \A j \in things :
               j \notin IconItem \/ j \in recheck' \/ j \in marked \/ rules'.table[j] = t[j],
           \A j \in IconItem \ things :
               j \in recheck' \/ j \in marked \/ (j \notin recheck /\ Best(j)' = Best(j))
    PROVE  BestIsShown'
<1> SUFFICES ASSUME NEW j \in IconItem, j \notin stale', j \notin recheck'
             PROVE  drawn'[j] = Best(j)'
  BY DEF BestIsShown
<1>1. PICK own : own = [i \in IconItem |-> Own(i, t, images')]
  OBVIOUS
<1>2. /\ drawn' = [i \in IconItem |->
                CASE i \notin things -> drawn[i]
                  [] i \in things /\ own[i] = NoPicture -> typeImage'[i].img
                  [] OTHER -> own[i]]
      /\ stale' = (stale \ things) \cup marked \cup
                    {i \in things : own[i] = NoPicture /\ typeImage'[i].img # TypeOnDisk(i, images')}
  BY <1>1 DEF Look
<1>3. CASE j \notin things
  BY <1>2, <1>3 DEF BestIsShown
<1>4. CASE j \in things
  <2>1. rules'.table[j] = t[j]
    BY <1>2, <1>4
  <2>2. own[j] = Own(j, rules.table, images)'
    BY <1>1, <2>1 DEF Own
  <2>3. CASE own[j] = NoPicture
    <3>1. drawn'[j] = typeImage'[j].img /\ typeImage'[j].img = TypeOnDisk(j, images')
      BY <1>2, <1>4, <2>3
    <3> QED BY <2>2, <2>3, <3>1 DEF Best
  <2>4. CASE own[j] # NoPicture
    <3>1. drawn'[j] = own[j]
      BY <1>2, <1>4, <2>4
    <3> QED BY <2>2, <2>4, <3>1 DEF Best
  <2> QED BY <2>3, <2>4
<1> QED BY <1>3, <1>4

LEMMA ExamineShows ==
    ASSUME BestIsShown, UNCHANGED <<images, recheck>>, NEW i, NEW r, Examine(i, r), RulesSound(r),
           \A j \in IconItem : j # i => r.table[j] = rules.table[j]
    PROVE  RulesSound(rules') /\ BestIsShown'
<1>1. PICK viewed \in BOOLEAN :
         /\ rules' = IF viewed THEN Read(r) ELSE r
         /\ Look({i}, r.table, {j \in IconItem : rules'.table[j] # r.table[j]})
  BY DEF Examine
<1>2. RulesSound(rules')
  BY <1>1, ReadIsSound
<1>3. \A j \in {i} : j \in {k \in IconItem : rules'.table[k] # r.table[k]}
                        \/ j \notin IconItem \/ rules'.table[j] = r.table[j]
  OBVIOUS
<1>4. \A j \in IconItem \ {i} :
         j \in recheck' \/ j \in {k \in IconItem : rules'.table[k] # r.table[k]}
           \/ (j \notin recheck /\ Best(j)' = Best(j))
  BY BestStays DEF SameFor
<1> QED BY <1>1, <1>2, <1>3, <1>4, LookShows

LEMMA FullRefreshShows ==
    ASSUME BestIsShown, RulesSound(rules), NEW i, NEW things \in SUBSET {i}, FullRefresh(i, things),
           \A j \in IconItem : j # i => SameFor(j)
    PROVE  RulesSound(rules') /\ BestIsShown'
<1>1. CASE recheck = {}
  BY <1>1, ReadIsSound DEF FullRefresh, BestIsShown
<1>2. CASE recheck # {}
  <2>1. /\ UNCHANGED <<rules, recheck>>
        /\ Look(things, rules.table, {i} \ (recheck \cup things))
    BY <1>2 DEF FullRefresh
  <2>2. \A j \in IconItem \ things :
           j \in recheck' \/ j \in {i} \ (recheck \cup things) \/ (j \notin recheck /\ Best(j)' = Best(j))
    BY <2>1, BestStays
  <2>3. \A j \in things : rules'.table[j] = rules.table[j]
    BY <2>1
  <2> QED BY <2>1, <2>2, <2>3, LookShows
<1> QED BY <1>1, <1>2

LEMMA RulesUsed ==
    ASSUME RulesSound(rules), BestIsShown, UNCHANGED <<images, recheck>>, NEW i, NEW p
    PROVE  /\ AddGlobicon(i, p) => RulesSound(rules') /\ BestIsShown'
           /\ DeleteGlobicon(i) => RulesSound(rules') /\ BestIsShown'
<1>1. ASSUME NEW q, NEW r \in SavedRules(WithRule(rules, i, q)), Examine(i, r)
      PROVE  RulesSound(rules') /\ BestIsShown'
  <2>1. RulesSound(r) /\ \A j \in IconItem : j # i => r.table[j] = rules.table[j]
    BY <1>1, SaveIsSound
  <2> QED BY <1>1, <2>1, ExamineShows
<1>2. AddGlobicon(i, p) => RulesSound(rules') /\ BestIsShown'
  BY <1>1 DEF AddGlobicon, WithRule
<1>3. ASSUME UNCHANGED <<rules, typeImage, drawn, stale>>
      PROVE  RulesSound(rules') /\ BestIsShown'
  BY <1>3 DEF BestIsShown, Best, Own, TypeOnDisk, TypeIconPath
<1>4. DeleteGlobicon(i) => RulesSound(rules') /\ BestIsShown'
  <2> HAVE DeleteGlobicon(i)
  <2>1. CASE rules.table[i] = NoPicture
    BY <1>3, <2>1 DEF DeleteGlobicon
  <2>2. CASE rules.table[i] # NoPicture
    BY <1>1, <2>2 DEF DeleteGlobicon, WithRule
  <2> QED BY <2>1, <2>2
<1> QED BY <1>2, <1>4

(* The images, for what changes one of them. *)
WithDir(d, i, c)  == [d EXCEPT !.dir[i] = c]
WithType(d, i, c) == [d EXCEPT !.type[i] = c]

LEMMA ImageSet ==
    ASSUME ImagesRecord(images), NEW i, NEW c,
           images' \in {images, WithDir(images, i, c), WithType(images, i, c)}
    PROVE  ImagesRecord(images') /\ \A j \in IconItem : j # i => SameFor(j)
BY DEF ImagesRecord, SameFor, WithDir, WithType

(* Nothing is looked at. *)
LEMMA NothingLookedAt ==
    ASSUME BestIsShown, UNCHANGED <<rules, drawn, recheck>>, NEW marked, stale' = stale \cup marked,
           \A j \in IconItem : j \in marked \/ SameFor(j)
    PROVE  BestIsShown'
BY BestStays DEF BestIsShown

LEMMA IconsStart == UserIconsInit => IconsInv
<1> SUFFICES ASSUME UserIconsInit PROVE IconsInv
  OBVIOUS
<1>1. RulesSound(FirstRules)
  BY DEF FirstRules, RulesSound, RulesRecord, NoRules
<1>2. ASSUME NEW list \in {NoRules, [i \in IconItem |-> IF i \in IconFolder THEN FirstPicture ELSE NoPicture]}
      PROVE  RulesSound([FirstRules EXCEPT !.table = list, !.list = list, !.wanted = list, !.there = TRUE])
  <2>1. DOMAIN list = IconItem
    BY <1>2 DEF NoRules
  <2> QED BY <1>1, <2>1 DEF FirstRules, RulesSound, RulesRecord
<1>3. RulesSound(rules)
  BY <1>1, <1>2 DEF UserIconsInit
<1>4. ImagesRecord(images)
  BY DEF UserIconsInit, ImagesRecord, NoRules
<1>5. BestIsShown
  BY DEF UserIconsInit, BestIsShown
<1> QED BY <1>3, <1>4, <1>5 DEF IconsInv

(* What the filer does of its own, and requests. *)
LEMMA IconScans ==
    ASSUME IconsInv, Rescan \/ TwoSeconds \/ RestartIcons \/ (\E i \in IconItem : CheckThing(i) \/ RpcUnsetIcon(i))
                       \/ (\E i \in IconItem, p \in Picture : RpcSetIcon(i, p))
    PROVE  IconsInv'
<1> USE DEF IconsInv
<1>1. CASE Rescan
  BY <1>1, ReadIsSound DEF Rescan, BestIsShown
<1>2. CASE TwoSeconds
  <2>1. BestIsShown'
    BY <1>2, NothingLookedAt DEF TwoSeconds, SameFor
  <2> QED BY <1>2, <2>1 DEF TwoSeconds
<1>3. CASE RestartIcons
  <2>1. PICK r : r = [rules EXCEPT !.newer = rules.there, !.table = IF rules.there THEN @ ELSE NoRules,
                                   !.wanted = IF rules.there THEN @ ELSE NoRules]
    OBVIOUS
  <2>2. RulesSound(r)
    BY <2>1 DEF RulesSound, RulesRecord, NoRules
  <2>3. rules' = Read(r) /\ recheck' = IconItem /\ images' = images
    BY <1>3, <2>1 DEF RestartIcons
  <2>4. RulesSound(rules')
    BY <2>2, <2>3, ReadIsSound
  <2>5. BestIsShown'
    BY <2>3 DEF BestIsShown
  <2> QED BY <2>3, <2>4, <2>5
<1>4. ASSUME NEW i \in IconItem, CheckThing(i) PROVE IconsInv'
  <2>1. UNCHANGED <<images, rules>> /\ recheck' = recheck \ {i} /\ Look({i}, rules.table, {})
    BY <1>4 DEF CheckThing
  <2>2. \A j \in {i} : rules'.table[j] = rules.table[j]
    BY <2>1
  <2>3. \A j \in IconItem \ {i} : j \in recheck' \/ (j \notin recheck /\ Best(j)' = Best(j))
    BY <2>1, BestStays DEF SameFor
  <2>4. BestIsShown'
    BY <2>1, <2>2, <2>3, LookShows
  <2> QED BY <2>1, <2>4
<1>5. ASSUME NEW i \in IconItem, RpcUnsetIcon(i) PROVE IconsInv'
  <2>1. UNCHANGED <<images, recheck>> /\ DeleteGlobicon(i)
    BY <1>5 DEF RpcUnsetIcon
  <2> QED BY <2>1, RulesUsed
<1>6. ASSUME NEW i \in IconItem, NEW p \in Picture, RpcSetIcon(i, p) PROVE IconsInv'
  <2>1. UNCHANGED <<images, recheck>> /\ AddGlobicon(i, p)
    BY <1>6 DEF RpcSetIcon
  <2> QED BY <2>1, RulesUsed
<1> QED BY <1>1, <1>2, <1>3, <1>4, <1>5, <1>6

(* What is done in the box. *)
LEMMA IconBox ==
    ASSUME IconsInv,
           \/ (\E i \in IconItem, set \in {"path", "copy"} : OpenSetIcon(i, set))
           \/ (\E set \in {"path", "copy", "type"} : ChooseSet(set))
           \/ (\E p \in Picture : DropForPath(p) \/ DropForCopy(p) \/ DropForType(p))
           \/ ClearPath \/ AskToClear \/ CloseSetIcon
           \/ (\E yes \in BOOLEAN : ConfirmClear(yes))
    PROVE  IconsInv'
<1> USE DEF IconsInv
<1>1. ASSUME UNCHANGED <<images, rules, typeImage, drawn, stale, recheck>> PROVE IconsInv'
  <2>1. BestIsShown'
    BY <1>1, NothingLookedAt DEF SameFor
  <2> QED BY <1>1, <2>1
<1>2. ASSUME NEW i \in IconItem, NEW set \in {"path", "copy"}, OpenSetIcon(i, set) PROVE IconsInv'
  BY <1>1, <1>2 DEF OpenSetIcon
<1>3. ASSUME NEW set \in {"path", "copy", "type"}, ChooseSet(set) PROVE IconsInv'
  BY <1>1, <1>3 DEF ChooseSet
<1>4. AskToClear \/ CloseSetIcon => IconsInv'
  BY <1>1 DEF AskToClear, CloseSetIcon
<1>5. ASSUME NEW p \in Picture, DropForPath(p) PROVE IconsInv'
  <2>1. UNCHANGED <<images, recheck>> /\ AddGlobicon(setBox.of, p)
    BY <1>5 DEF DropForPath
  <2> QED BY <2>1, RulesUsed
<1>6. ASSUME NEW p \in Picture, DropForCopy(p) PROVE IconsInv'
  <2>1. PICK i : i = setBox.of
    OBVIOUS
  <2>2. PICK c \in {p, "broken", images.dir[i]} :
           /\ images' = [images EXCEPT !.dir[i] = c]
           /\ IF c = p THEN Look({i}, rules.table, {})
              ELSE Look({}, rules.table, IF c = "broken" THEN {i} ELSE {})
    BY <1>6, <2>1 DEF DropForCopy
  <2>3. UNCHANGED <<rules, recheck>>
    BY <1>6 DEF DropForCopy
  <2>4. ImagesRecord(images') /\ \A j \in IconItem : j # i => SameFor(j)
    <3>1. images' = WithDir(images, i, c)
      BY <2>2 DEF WithDir
    <3> QED BY <3>1, ImageSet
  <2>5. CASE c = p
    <3>1. \A j \in IconItem \ {i} : j \in recheck' \/ (j \notin recheck /\ Best(j)' = Best(j))
      BY <2>3, <2>4, BestStays
    <3>2. \A j \in {i} : rules'.table[j] = rules.table[j]
      BY <2>3
    <3>3. BestIsShown'
      BY <2>2, <2>5, <3>1, <3>2, LookShows
    <3> QED BY <2>3, <2>4, <3>3
  <2>6. CASE c # p
    <3>1. PICK marked : marked = IF c = "broken" THEN {i} ELSE {}
      OBVIOUS
    <3>2. c # "broken" => SameFor(i)
      BY <2>2, <2>6 DEF SameFor, ImagesRecord
    <3>3. \A j \in IconItem \ {} : j \in recheck' \/ j \in marked \/ (j \notin recheck /\ Best(j)' = Best(j))
      BY <2>3, <2>4, <3>1, <3>2, BestStays
    <3>4. Look({}, rules.table, marked)
      BY <2>2, <2>6, <3>1
    <3>5. BestIsShown'
      BY <3>3, <3>4, LookShows
    <3> QED BY <2>3, <2>4, <3>5
  <2> QED BY <2>5, <2>6
<1>7. ASSUME NEW p \in Picture, DropForType(p) PROVE IconsInv'
  <2>1. PICK i : i = setBox.of
    OBVIOUS
  <2>2. PICK c \in {p, "broken", images.type[i]} :
           /\ images' = [images EXCEPT !.type[i] = c]
           /\ IF c = p THEN FullRefresh(i, {})
              ELSE UNCHANGED <<rules, recheck>> /\ Look({}, rules.table, IF c = "broken" THEN {i} ELSE {})
    BY <1>7, <2>1 DEF DropForType
  <2>3. ImagesRecord(images') /\ \A j \in IconItem : j # i => SameFor(j)
    <3>1. images' = WithType(images, i, c)
      BY <2>2 DEF WithType
    <3> QED BY <3>1, ImageSet
  <2>4. CASE c = p
    BY <2>2, <2>3, <2>4, FullRefreshShows
  <2>5. CASE c # p
    <3>1. PICK marked : marked = IF c = "broken" THEN {i} ELSE {}
      OBVIOUS
    <3>2. c # "broken" => SameFor(i)
      BY <2>2, <2>5 DEF SameFor, ImagesRecord
    <3>3. UNCHANGED <<rules, recheck>> /\ Look({}, rules.table, marked)
      BY <2>2, <2>5, <3>1
    <3>4. \A j \in IconItem \ {} : j \in recheck' \/ j \in marked \/ (j \notin recheck /\ Best(j)' = Best(j))
      BY <2>3, <3>1, <3>2, <3>3, BestStays
    <3>5. BestIsShown'
      BY <3>3, <3>4, LookShows
    <3> QED BY <2>3, <3>3, <3>5
  <2> QED BY <2>4, <2>5
<1>8. ASSUME ClearPath PROVE IconsInv'
  <2>1. PICK i : i = setBox.of
    OBVIOUS
  <2>2. PICK r \in IF rules.table[i] = NoPicture THEN {rules} ELSE SavedRules(WithRule(rules, i, NoPicture)) :
          /\ Look({i}, r.table, {})
          /\ rules' = IF recheck = {} THEN Read(r) ELSE r
          /\ recheck' = IF recheck = {} THEN IconItem ELSE recheck
    BY <1>8, <2>1 DEF ClearPath, WithRule
  <2>3. RulesSound(r) /\ \A j \in IconItem : j # i => r.table[j] = rules.table[j]
    BY <2>2, SaveIsSound
  <2>4. images' = images
    BY <1>8 DEF ClearPath
  <2>5. CASE recheck = {}
    BY <2>2, <2>3, <2>4, <2>5, ReadIsSound DEF BestIsShown
  <2>6. CASE recheck # {}
    <3>1. rules' = r /\ recheck' = recheck
      BY <2>2, <2>6
    <3>2. \A j \in IconItem \ {i} : j \in recheck' \/ (j \notin recheck /\ Best(j)' = Best(j))
      BY <2>3, <2>4, <3>1, BestStays DEF SameFor
    <3>3. \A j \in {i} : rules'.table[j] = r.table[j]
      BY <3>1
    <3>4. BestIsShown'
      BY <2>2, <3>2, <3>3, LookShows
    <3> QED BY <2>3, <2>4, <3>1, <3>4
  <2> QED BY <2>5, <2>6
<1>9. ASSUME NEW yes \in BOOLEAN, ConfirmClear(yes) PROVE IconsInv'
  <2>1. PICK i : i = setBox.of
    OBVIOUS
  <2>2. PICK now \in IF yes THEN Removed(setBox.path, i) ELSE {images} :
          images' = now /\ FullRefresh(i, IF now # images THEN {i} ELSE {})
    BY <1>9, <2>1 DEF ConfirmClear
  <2>3. now \in {images, [images EXCEPT !.dir[i] = NoPicture], [images EXCEPT !.type[i] = NoPicture]}
    BY <2>2 DEF Removed
  <2>4. ImagesRecord(images') /\ \A j \in IconItem : j # i => SameFor(j)
    <3>1. images' \in {images, WithDir(images, i, NoPicture), WithType(images, i, NoPicture)}
      BY <2>2, <2>3 DEF WithDir, WithType
    <3> QED BY <3>1, ImageSet
  <2>5. RulesSound(rules') /\ BestIsShown'
    BY <2>2, <2>4, FullRefreshShows
  <2> QED BY <2>4, <2>5
<1> QED BY <1>2, <1>3, <1>4, <1>5, <1>6, <1>7, <1>8, <1>9

(* What other programs do. *)
LEMMA IconsOutside ==
    ASSUME IconsInv,
           \/ (\E p \in Picture : PictureDeleted(p))
           \/ (\E i \in IconItem, c \in Picture \cup {NoPicture} : DirIconChanged(i, c))
           \/ (\E i \in IconItem, p \in Picture \cup {NoPicture} : RulesWritten(i, p))
           \/ RulesDeleted
    PROVE  IconsInv'
<1> USE DEF IconsInv
<1>1. ASSUME NEW p \in Picture, PictureDeleted(p) PROVE IconsInv'
  <2>1. ImagesRecord(images')
    BY <1>1 DEF PictureDeleted, ImagesRecord
  <2>2. /\ UNCHANGED <<rules, drawn, recheck>>
        /\ stale' = stale \cup {i \in IconItem : rules.table[i] = p}
        /\ images'.pics = images.pics \ {p} /\ images'.dir = images.dir /\ images'.type = images.type
        /\ images'.app = images.app /\ images'.trusted = images.trusted /\ images'.system = images.system
    BY <1>1 DEF PictureDeleted, ImagesRecord
  <2>3. ASSUME NEW j \in IconItem, rules.table[j] # p PROVE Best(j)' = Best(j)
    <3>1. rules.table[j] \in images'.pics <=> rules.table[j] \in images.pics
      BY <2>2, <2>3
    <3>2. Own(j, rules.table, images)' = Own(j, rules.table, images)
      BY <2>2, <3>1 DEF Own
    <3>3. TypeOnDisk(j, images)' = TypeOnDisk(j, images)
      BY <2>2 DEF TypeOnDisk, TypeIconPath
    <3> QED BY <3>2, <3>3 DEF Best
  <2>4. BestIsShown'
    BY <2>2, <2>3 DEF BestIsShown
  <2> QED BY <2>1, <2>2, <2>4
<1>2. ASSUME NEW i \in IconItem, NEW c \in Picture \cup {NoPicture}, DirIconChanged(i, c) PROVE IconsInv'
  <2>1. /\ images' = [images EXCEPT !.dir[i] = c] /\ stale' = stale \cup {i}
        /\ UNCHANGED <<rules, drawn, recheck>>
    BY <1>2 DEF DirIconChanged
  <2>2. ImagesRecord(images') /\ \A j \in IconItem : j # i => SameFor(j)
    <3>1. images' = WithDir(images, i, c)
      BY <2>1 DEF WithDir
    <3> QED BY <3>1, ImageSet
  <2>3. BestIsShown'
    BY <2>1, <2>2, NothingLookedAt
  <2> QED BY <2>1, <2>2, <2>3
<1>3. ASSUME UNCHANGED <<images, typeImage, drawn, stale, recheck>>, rules'.table = rules.table PROVE BestIsShown'
  BY <1>3, BestStays DEF BestIsShown, SameFor
<1>4. ASSUME NEW i \in IconItem, NEW p \in Picture \cup {NoPicture}, RulesWritten(i, p) PROVE IconsInv'
  <2>1. PICK newer \in BOOLEAN :
           rules' = [rules EXCEPT !.list[i] = p, !.there = TRUE, !.newer = newer, !.foreign = TRUE]
    BY <1>4 DEF RulesWritten, RulesSound, RulesRecord
  <2>2. RulesSound(rules') /\ rules'.table = rules.table
    BY <2>1 DEF RulesSound, RulesRecord
  <2> QED BY <1>3, <1>4, <2>2 DEF RulesWritten
<1>5. CASE RulesDeleted
  <2>1. RulesSound(rules') /\ rules'.table = rules.table
    BY <1>5 DEF RulesDeleted, RulesSound, RulesRecord, NoRules
  <2> QED BY <1>3, <1>5, <2>1 DEF RulesDeleted
<1> QED BY <1>1, <1>2, <1>4, <1>5

(* The rules of the user are kept, and every item shows the best icon there *)
(* is for it, whatever the box, requests and other programs change and *)
(* whenever the filer looks (usericons.c, diritem.c, type.c). *)
THEOREM IconsAlwaysRight == UserIconsSpec => []IconsRight
<1>1. IconsInv => IconsRight
  BY DEF IconsInv, IconsRight, RulesKept, RulesSound
<1>2. IconsInv /\ UNCHANGED pictureVars => IconsInv'
  BY NothingLookedAt DEF IconsInv, pictureVars, SameFor
<1>3. IconsInv /\ [UserIconsNext]_pictureVars => IconsInv'
  BY <1>2, IconScans, IconBox, IconsOutside DEF UserIconsNext
<1> QED BY <1>1, <1>3, IconsStart, PTL DEF UserIconsSpec
--------------------
(* The backdrop.  What a handler works on is pinboard and programs together; *)
(* a program is heard only while its pinboard is on, it is what is set, and *)
(* it was the last one started.  While nothing is unsaved the box shows what *)
(* is in the file, on or off: that is what the pinboard is loaded from. *)
BackPath == Wallpaper \cup BackdropApp \cup {"none"}
BackSettings == [path : BackPath, style : FitStyle] \cup {PlainBackdrop} \cup {RunsApp(a) : a \in BackdropApp}
BackBox == [open : BOOLEAN, path : BackPath, style : FitStyle]
BackRun == [app : BackdropApp, alive : BOOLEAN, lines : Seq(Line), written : Nat, loaded : Nat, oks : Nat]
BackPb == [on : BOOLEAN, set : BackSettings, talks : Nat, drawn : BackSettings, file : BackSettings,
           unsaved : BOOLEAN, images : SUBSET Wallpaper, box : BackBox]
BackWorld == [pb : BackPb, runs : Seq(BackRun)]

Heard(w) ==
    w.pb.talks # 0 => w.pb.on /\ w.pb.set = RunsApp(w.runs[w.pb.talks].app) /\ w.pb.talks = Len(w.runs)
ToldOf(r) == r.oks <= r.loaded /\ (r.alive => r.oks = r.loaded)
Told(w) == \A i \in DOMAIN w.runs : ToldOf(w.runs[i])
Drawn(w) == w.pb.on /\ w.pb.set.style # "program" => w.pb.drawn = w.pb.set
InFile(w) == w.pb.on /\ ~w.pb.unsaved => w.pb.file = w.pb.set
InBox(w) ==
    w.pb.box.open /\ ~w.pb.unsaved =>
        /\ w.pb.box.path = w.pb.file.path
        /\ w.pb.file.style \in FitStyle => w.pb.box.style = w.pb.file.style

Sound(w) == w \in BackWorld /\ Heard(w) /\ Told(w)
BackOK(w) == Sound(w) /\ Drawn(w) /\ InFile(w) /\ InBox(w)
BackInv == BackOK(World)

LEMMA BackTypes ==
    /\ PlainBackdrop \in BackSettings /\ \A a \in BackdropApp : RunsApp(a) \in BackSettings
    /\ \A p \in BackPath, f \in FitStyle : BackImage(p, f) \in BackSettings
    /\ \A s \in BackSettings : s.style \notin FitStyle =>
           s = PlainBackdrop \/ (s.style = "program" /\ \E a \in BackdropApp : s = RunsApp(a))
    /\ \A s \in BackSettings : s.path \in BackPath
    /\ \A line \in Line : line.style \in FitStyle => line \in BackSettings
    /\ PlainBackdrop.style = "none" /\ \A a \in BackdropApp : RunsApp(a).style = "program" /\ RunsApp(a).path = a
    /\ NoBackdropBox \in BackBox
<1> USE DEF PlainBackdrop, RunsApp, BackImage
<1>1. PlainBackdrop \in BackSettings /\ \A a \in BackdropApp : RunsApp(a) \in BackSettings
  BY DEF BackSettings
<1>2. \A p \in BackPath, f \in FitStyle : BackImage(p, f) \in BackSettings
  BY DEF BackSettings
<1>3. ASSUME NEW s \in BackSettings
      PROVE  /\ s.path \in BackPath
             /\ s.style \notin FitStyle => s = PlainBackdrop \/ (s.style = "program" /\ \E a \in BackdropApp : s = RunsApp(a))
  <2>1. CASE s \in [path : BackPath, style : FitStyle]
    BY <2>1
  <2>2. CASE s = PlainBackdrop
    BY <2>2 DEF BackPath
  <2>3. CASE s \in {RunsApp(a) : a \in BackdropApp}
    <3>1. PICK a \in BackdropApp : s = RunsApp(a)
      BY <2>3
    <3> QED BY <3>1 DEF BackPath
  <2> QED BY <2>1, <2>2, <2>3 DEF BackSettings
<1>4. ASSUME NEW line \in Line, line.style \in FitStyle PROVE line \in BackSettings
  <2>1. line # BackImage("junk", "none")
    BY <1>4, BackdropAssumption
  <2>2. PICK p \in Wallpaper, f \in FitStyle : line = BackImage(p, f)
    BY <2>1 DEF Line
  <2> QED BY <1>2, <2>2 DEF BackPath
<1>5. PlainBackdrop.style = "none" /\ \A a \in BackdropApp : RunsApp(a).style = "program" /\ RunsApp(a).path = a
  OBVIOUS
<1>6. NoBackdropBox \in BackBox
  BY BackdropAssumption DEF NoBackdropBox, BackBox, BackPath
<1> QED BY <1>1, <1>2, <1>3, <1>4, <1>5, <1>6

(* A program's record is replaced. *)
LEMMA RunChanged ==
    ASSUME NEW s \in Seq(BackRun), NEW i \in DOMAIN s, NEW r \in BackRun
    PROVE  /\ [s EXCEPT ![i] = r] \in Seq(BackRun)
           /\ DOMAIN [s EXCEPT ![i] = r] = DOMAIN s /\ Len([s EXCEPT ![i] = r]) = Len(s)
           /\ [s EXCEPT ![i] = r][i] = r /\ \A j \in DOMAIN s : j # i => [s EXCEPT ![i] = r][j] = s[j]
OBVIOUS

(* abandon_backdrop_app closes the connection and changes nothing else there. *)
LEMMA AbandonOK ==
    ASSUME NEW w, Sound(w)
    PROVE  /\ Sound(AbandonApp(w)) /\ AbandonApp(w).pb = [w.pb EXCEPT !.talks = 0]
<1>1. w \in BackWorld /\ w.pb \in BackPb /\ w.runs \in Seq(BackRun) /\ w = [pb |-> w.pb, runs |-> w.runs]
  BY DEF Sound, BackWorld
<1>2. CASE w.pb.talks = 0
  <2>1. w.pb = [w.pb EXCEPT !.talks = 0]
    BY <1>1, <1>2 DEF BackPb
  <2> QED BY <1>2, <2>1 DEF AbandonApp
<1>3. CASE w.pb.talks # 0
  <2>1. PICK i : i = w.pb.talks
    OBVIOUS
  <2>2. i \in DOMAIN w.runs
    BY <1>1, <1>3, <2>1 DEF Sound, Heard, BackPb
  <2>3. PICK r : r = [w.runs[i] EXCEPT !.lines = <<>>, !.written = 0]
    OBVIOUS
  <2>4. w.runs[i] \in BackRun
    BY <1>1, <2>2
  <2>5. r \in BackRun /\ ToldOf(r)
    <3>1. ToldOf(w.runs[i])
      BY <2>2 DEF Sound, Told
    <3>2. <<>> \in Seq(Line)
      OBVIOUS
    <3> QED BY <2>3, <2>4, <3>1, <3>2 DEF BackRun, ToldOf
  <2>6. PICK b : b = [w.pb EXCEPT !.talks = 0]
    OBVIOUS
  <2>7. b \in BackPb /\ b.talks = 0
    BY <1>1, <2>6 DEF BackPb
  <2>8. PICK s : s = [w.runs EXCEPT ![i] = r]
    OBVIOUS
  <2>9. s \in Seq(BackRun) /\ DOMAIN s = DOMAIN w.runs /\ s[i] = r /\ \A j \in DOMAIN s : j # i => s[j] = w.runs[j]
    BY <1>1, <2>2, <2>5, <2>8, RunChanged
  <2>10. AbandonApp(w) = [pb |-> b, runs |-> s]
    BY <1>1, <1>3, <2>1, <2>3, <2>6, <2>8 DEF AbandonApp
  <2>11. PICK v : v = AbandonApp(w)
    OBVIOUS
  <2>12. v \in BackWorld /\ v.pb = b /\ v.runs = s
    BY <2>7, <2>9, <2>10, <2>11 DEF BackWorld
  <2>13. Told(v)
    BY <2>5, <2>9, <2>12 DEF Told, Sound
  <2>14. Heard(v)
    BY <2>7, <2>12 DEF Heard
  <2> QED BY <2>6, <2>11, <2>12, <2>13, <2>14 DEF Sound
<1> QED BY <1>2, <1>3

(* A change of the pinboard alone, to one that is connected to nobody. *)
LEMMA BoardChanged ==
    ASSUME NEW w, Sound(w), NEW b \in BackPb, b.talks = 0
    PROVE  Sound([w EXCEPT !.pb = b]) /\ [w EXCEPT !.pb = b].pb = b
BY DEF Sound, BackWorld, Heard, Told

LEMMA PbTypes ==
    ASSUME NEW w, Sound(w)
    PROVE  /\ w \in BackWorld /\ w.pb \in BackPb /\ w.runs \in Seq(BackRun) /\ w.pb.set \in BackSettings
           /\ w.pb.file \in BackSettings /\ w.pb.drawn \in BackSettings /\ w.pb.box \in BackBox
           /\ w.pb.images \in SUBSET Wallpaper /\ w.pb.on \in BOOLEAN /\ w.pb.unsaved \in BOOLEAN
           /\ w.pb.talks \in 0..Len(w.runs) /\ w = [pb |-> w.pb, runs |-> w.runs]
BY DEF Sound, BackWorld, BackPb, Heard

(* Another pinboard record. *)
LEMMA BoardPut ==
    ASSUME NEW w, w \in BackWorld, NEW b \in BackPb
    PROVE  [w EXCEPT !.pb = b] \in BackWorld /\ [w EXCEPT !.pb = b].pb = b /\ [w EXCEPT !.pb = b].runs = w.runs
BY DEF BackWorld

(* Saved and shown: the file, if it could be written, and the box are what is set.*)
LEMMA SavedOK ==
    ASSUME NEW w, Sound(w), Drawn(w), NEW ok \in BOOLEAN
    PROVE  BackOK(ShowInBox(SaveBoard(w, ok))) /\ ShowInBox(SaveBoard(w, ok)).pb.talks = w.pb.talks
           /\ ShowInBox(SaveBoard(w, ok)).pb.on = w.pb.on /\ ShowInBox(SaveBoard(w, ok)).pb.set = w.pb.set
           /\ ShowInBox(SaveBoard(w, ok)).runs = w.runs
<1> USE PbTypes, BackTypes
<1>1. PICK v : v = SaveBoard(w, ok)
  OBVIOUS
<1>2. /\ v \in BackWorld /\ v.runs = w.runs /\ v.pb.on = w.pb.on /\ v.pb.set = w.pb.set /\ v.pb.talks = w.pb.talks
      /\ v.pb.drawn = w.pb.drawn /\ (~v.pb.unsaved => v.pb.file = v.pb.set) /\ v.pb.box = w.pb.box
  <2>1. PICK b : b = IF ok THEN [w.pb EXCEPT !.file = w.pb.set, !.unsaved = FALSE] ELSE [w.pb EXCEPT !.unsaved = TRUE]
    OBVIOUS
  <2>2. /\ b \in BackPb /\ b.on = w.pb.on /\ b.set = w.pb.set /\ b.talks = w.pb.talks
        /\ b.drawn = w.pb.drawn /\ (~b.unsaved => b.file = b.set) /\ b.box = w.pb.box
    <3>1. w.pb \in BackPb /\ w.pb.set \in BackSettings
      OBVIOUS
    <3>2. CASE ok
      BY <2>1, <3>1, <3>2 DEF BackPb
    <3>3. CASE ~ok
      BY <2>1, <3>1, <3>3 DEF BackPb
    <3> QED BY <3>2, <3>3
  <2>3. v = [w EXCEPT !.pb = b]
    BY <1>1, <2>1 DEF SaveBoard
  <2> QED BY <2>2, <2>3, BoardPut
<1>3. PICK u : u = ShowInBox(v)
  OBVIOUS
<1>4. /\ u \in BackWorld /\ u.runs = v.runs /\ u.pb.on = v.pb.on /\ u.pb.set = v.pb.set /\ u.pb.talks = v.pb.talks
      /\ u.pb.drawn = v.pb.drawn /\ u.pb.unsaved = v.pb.unsaved /\ u.pb.file = v.pb.file
      /\ (u.pb.box.open => u.pb.box.path = v.pb.set.path
                           /\ (v.pb.set.style \in FitStyle => u.pb.box.style = v.pb.set.style))
  <2>1. v.pb \in BackPb /\ v.pb.set.path \in BackPath /\ v.pb.box \in BackBox /\ "tile" \in FitStyle
    BY <1>2, BackdropAssumption DEF BackWorld, BackPb
  <2>2. CASE v.pb.box.open
    <3>1. PICK x : x = [open |-> TRUE, path |-> v.pb.set.path,
                         style |-> IF v.pb.set.style \in FitStyle THEN v.pb.set.style ELSE "tile"]
      OBVIOUS
    <3>2. x \in BackBox
      BY <2>1, <3>1 DEF BackBox
    <3>3. u = [v EXCEPT !.pb.box = x]
      BY <1>3, <2>2, <3>1 DEF ShowInBox
    <3> QED BY <1>2, <3>1, <3>2, <3>3 DEF BackWorld, BackPb
  <2>3. CASE ~v.pb.box.open
    BY <1>2, <1>3, <2>3 DEF ShowInBox
  <2> QED BY <2>2, <2>3
<1>5. Heard(u) /\ Told(u) /\ Drawn(u) /\ InFile(u) /\ InBox(u)
  BY <1>2, <1>4 DEF Sound, Heard, Told, Drawn, InFile, InBox
<1> QED BY <1>1, <1>2, <1>3, <1>4, <1>5 DEF BackOK, Sound

(* The backdrop is removed, in the file and in the box too. *)
LEMMA NoBackdropOK ==
    ASSUME NEW w, Sound(w), NEW ok \in BOOLEAN
    PROVE  BackOK(NoBackdrop(w, ok)) /\ NoBackdrop(w, ok).pb.talks = 0 /\ NoBackdrop(w, ok).pb.on = w.pb.on
<1>1. PICK v : v = AbandonApp(w)
  OBVIOUS
<1>2. Sound(v) /\ v.pb = [w.pb EXCEPT !.talks = 0]
  BY <1>1, AbandonOK
<1>3. PICK u : u = [v EXCEPT !.pb.set = PlainBackdrop, !.pb.drawn = PlainBackdrop]
  OBVIOUS
<1>4. /\ u \in BackWorld /\ u.runs = v.runs /\ u.pb.talks = 0 /\ u.pb.set = PlainBackdrop /\ u.pb.drawn = PlainBackdrop
      /\ u.pb.on = w.pb.on
  <2>1. v \in BackWorld /\ v.pb \in BackPb /\ w.pb \in BackPb /\ PlainBackdrop \in BackSettings
    BY <1>2, PbTypes, BackTypes
  <2>2. PICK b : b = [v.pb EXCEPT !.set = PlainBackdrop, !.drawn = PlainBackdrop]
    OBVIOUS
  <2>3. b \in BackPb /\ b.talks = 0 /\ b.set = PlainBackdrop /\ b.drawn = PlainBackdrop /\ b.on = w.pb.on
    BY <1>2, <2>1, <2>2 DEF BackPb
  <2>4. u = [v EXCEPT !.pb = b]
    BY <1>3, <2>2
  <2> QED BY <2>1, <2>3, <2>4, BoardPut
<1>5. Sound(u) /\ Drawn(u)
  BY <1>2, <1>4 DEF Sound, Heard, Told, Drawn
<1>6. NoBackdrop(w, ok) = ShowInBox(SaveBoard(u, ok))
  BY <1>1, <1>3 DEF NoBackdrop
<1> QED BY <1>4, <1>5, <1>6, SavedOK

(* An image is loaded, or it is no longer the backdrop. *)
LEMMA LoadOK ==
    ASSUME NEW w, Sound(w), NEW i \in BackSettings, NEW ok \in BOOLEAN
    PROVE  \/ LoadImage(w, i, ok) = [w EXCEPT !.pb.drawn = i]
           \/ BackOK(LoadImage(w, i, ok)) /\ LoadImage(w, i, ok).pb.talks = 0 /\ LoadImage(w, i, ok).pb.on = w.pb.on
BY NoBackdropOK DEF LoadImage

(* The image i is shown. *)
WithDrawn(w, i) == [w EXCEPT !.pb.drawn = i]

(* Only what is shown changes. *)
LEMMA DrawnOK ==
    ASSUME NEW w, Sound(w), NEW i \in BackSettings, NEW u, u = WithDrawn(w, i)
    PROVE  /\ Sound(u) /\ u.pb.drawn = i /\ u.pb.set = w.pb.set /\ u.pb.on = w.pb.on
           /\ u.pb.talks = w.pb.talks /\ u.runs = w.runs
           /\ InFile(w) => InFile(u)
           /\ InBox(w) => InBox(u)
BY PbTypes DEF WithDrawn, Sound, BackWorld, BackPb, Heard, Told, InFile, InBox

(* What is set is shown. *)
LEMMA ShownOK ==
    ASSUME NEW w, Sound(w), NEW i, i = w.pb.set, NEW v, v = WithDrawn(w, i)
    PROVE  /\ Sound(v) /\ Drawn(v) /\ v.pb.on = w.pb.on
           /\ InFile(w) => InFile(v)
           /\ InBox(w) => InBox(v)
<1>1. i \in BackSettings
  BY PbTypes
<1>2. /\ Sound(v) /\ v.pb.drawn = i /\ v.pb.set = i /\ v.pb.on = w.pb.on
      /\ InFile(w) => InFile(v)
      /\ InBox(w) => InBox(v)
  BY <1>1, DrawnOK
<1> QED BY <1>2 DEF Drawn

(* A backdrop is loaded while no program is connected: what is shown is what *)
(* is set then, and the file and the box are as they were or are right. *)
LEMMA ReloadOK ==
    ASSUME NEW w, Sound(w), w.pb.talks = 0, w.pb.on, NEW ok \in BOOLEAN, NEW spawned \in BOOLEAN
    PROVE  /\ Sound(ReloadBackdrop(w, ok, spawned)) /\ Drawn(ReloadBackdrop(w, ok, spawned))
           /\ ReloadBackdrop(w, ok, spawned).pb.on
           /\ InFile(w) => InFile(ReloadBackdrop(w, ok, spawned))
           /\ InBox(w) => InBox(ReloadBackdrop(w, ok, spawned))
<1> USE PbTypes
<1>1. PICK v : v = ReloadBackdrop(w, ok, spawned)
  OBVIOUS
<1>2. CASE w.pb.set.style = "program" /\ spawned
  <2>1. PICK a \in BackdropApp : w.pb.set = RunsApp(a)
    BY <1>2, BackTypes, BackdropAssumption
  <2>2. PICK r : r = Started(w.pb.set.path)
    OBVIOUS
  <2>3. r \in BackRun /\ ToldOf(r) /\ r.app = a
    BY <2>1, <2>2, BackTypes DEF Started, BackRun, ToldOf
  <2>4. PICK s : s = Append(w.runs, r)
    OBVIOUS
  <2>5. s \in Seq(BackRun) /\ Len(s) = Len(w.runs) + 1 /\ s[Len(s)] = r /\ Len(w.runs) \in Nat
        /\ \A j \in 1..Len(w.runs) : s[j] = w.runs[j]
    BY <2>3, <2>4
  <2>6. PICK b : b = [w.pb EXCEPT !.talks = Len(w.runs) + 1]
    OBVIOUS
  <2>7. b \in BackPb /\ b.talks = Len(w.runs) + 1 /\ b.on /\ b.set = w.pb.set /\ b.file = w.pb.file
        /\ b.unsaved = w.pb.unsaved /\ b.box = w.pb.box
    BY <2>5, <2>6 DEF BackPb
  <2>8. v = [pb |-> b, runs |-> s]
    <3>1. w = [pb |-> w.pb, runs |-> w.runs]
      OBVIOUS
    <3>2. v = [w EXCEPT !.runs = Append(@, Started(w.pb.set.path)), !.pb.talks = Len(w.runs) + 1]
      BY <1>1, <1>2, BackTypes DEF ReloadBackdrop
    <3> QED BY <2>2, <2>4, <2>6, <3>1, <3>2
  <2>9. v \in BackWorld /\ v.pb = b /\ v.runs = s
    BY <2>5, <2>7, <2>8 DEF BackWorld
  <2>10. Heard(v)
    BY <2>1, <2>3, <2>5, <2>7, <2>9 DEF Heard
  <2>11. ASSUME NEW j \in DOMAIN s PROVE ToldOf(s[j])
    <3>1. CASE j = Len(s)
      BY <2>3, <2>5, <3>1
    <3>2. CASE j # Len(s)
      <4>1. j \in 1..Len(w.runs) /\ j \in DOMAIN w.runs
        BY <2>5, <3>2
      <4> QED BY <2>5, <4>1 DEF Sound, Told
    <3> QED BY <3>1, <3>2
  <2>12. Told(v)
    BY <2>9, <2>11 DEF Told
  <2>13. Drawn(v) /\ (InFile(w) => InFile(v)) /\ (InBox(w) => InBox(v))
    BY <1>2, <2>7, <2>9 DEF Drawn, InFile, InBox
  <2> QED BY <1>1, <2>7, <2>9, <2>10, <2>12, <2>13 DEF Sound
<1>3. CASE w.pb.set.style = "program" /\ ~spawned
  <2>1. v = w
    BY <1>1, <1>3, BackTypes DEF ReloadBackdrop
  <2> QED BY <1>1, <1>3, <2>1 DEF Drawn
<1>4. CASE w.pb.set = PlainBackdrop
  <2>1. w.pb.set.style # "program"
    BY <1>4, BackTypes
  <2>2. v = WithDrawn(w, PlainBackdrop)
    BY <1>1, <1>4, <2>1 DEF ReloadBackdrop, WithDrawn
  <2> HIDE PbTypes
  <2>3. Sound(v) /\ Drawn(v) /\ v.pb.on = w.pb.on /\ (InFile(w) => InFile(v)) /\ (InBox(w) => InBox(v))
    BY <1>4, <2>2, ShownOK
  <2> QED BY <1>1, <2>3
<1>5. CASE w.pb.set.style # "program" /\ w.pb.set # PlainBackdrop
  <2>1. v = LoadImage(w, w.pb.set, ok)
    BY <1>1, <1>5 DEF ReloadBackdrop
  <2>2. PICK i \in BackSettings : i = w.pb.set
    OBVIOUS
  <2>3. CASE v = [w EXCEPT !.pb.drawn = i]
    <3>1. v = WithDrawn(w, i)
      BY <2>3 DEF WithDrawn
    <3> HIDE PbTypes
    <3>2. Sound(v) /\ Drawn(v) /\ v.pb.on = w.pb.on /\ (InFile(w) => InFile(v)) /\ (InBox(w) => InBox(v))
      BY <2>2, <3>1, ShownOK
    <3> QED BY <1>1, <3>2
  <2>4. CASE BackOK(v) /\ v.pb.on = w.pb.on
    BY <1>1, <2>4 DEF BackOK
  <2> QED BY <2>1, <2>2, <2>3, <2>4, LoadOK
<1> QED BY <1>2, <1>3, <1>4, <1>5

(* The pinboard is loaded from its file. *)
LEMMA ActivateOK ==
    ASSUME NEW w, BackOK(w), NEW ok \in BOOLEAN, NEW spawned \in BOOLEAN
    PROVE  BackOK(ActivateBoard(w, ok, spawned)) /\ ActivateBoard(w, ok, spawned).pb.on
<1>1. PICK v : v = AbandonApp(w)
  OBVIOUS
<1>2. Sound(v) /\ v.pb = [w.pb EXCEPT !.talks = 0]
  BY <1>1, AbandonOK DEF BackOK
<1>3. PICK u : u = [v EXCEPT !.pb.on = TRUE, !.pb.set = w.pb.file, !.pb.drawn = PlainBackdrop]
  OBVIOUS
<1>4. /\ u \in BackWorld /\ u.runs = v.runs /\ u.pb.talks = 0 /\ u.pb.set = w.pb.file /\ u.pb.on
      /\ u.pb.file = w.pb.file /\ u.pb.unsaved = w.pb.unsaved /\ u.pb.box = w.pb.box
  <2>1. Sound(w)
    BY DEF BackOK
  <2>2. v \in BackWorld /\ v.pb \in BackPb /\ w.pb \in BackPb /\ w.pb.file \in BackSettings /\ PlainBackdrop \in BackSettings
    BY <1>2, <2>1, PbTypes, BackTypes
  <2>3. PICK b : b = [v.pb EXCEPT !.on = TRUE, !.set = w.pb.file, !.drawn = PlainBackdrop]
    OBVIOUS
  <2>4. b \in BackPb /\ b.talks = 0 /\ b.set = w.pb.file /\ b.on
        /\ b.file = w.pb.file /\ b.unsaved = w.pb.unsaved /\ b.box = w.pb.box
    BY <1>2, <2>2, <2>3 DEF BackPb
  <2>5. u = [v EXCEPT !.pb = b]
    BY <1>3, <2>3
  <2> QED BY <2>2, <2>4, <2>5, BoardPut
<1>5. Sound(u) /\ InFile(u) /\ InBox(u)
  BY <1>2, <1>4 DEF BackOK, Sound, Heard, Told, InFile, InBox
<1>6. ActivateBoard(w, ok, spawned) = ReloadBackdrop(u, ok, spawned)
  BY <1>1, <1>3 DEF ActivateBoard
<1> QED BY <1>4, <1>5, <1>6, ReloadOK DEF BackOK

(* pinboard_set_backdrop. *)
LEMMA SetOK ==
    ASSUME BackOK(World), NEW to \in BackSettings, NEW ok \in BOOLEAN, NEW spawned \in BOOLEAN, SetBackdrop(World, to, ok, spawned)
    PROVE  BackOK(World)'
<1>1. PICK w : w = World
  OBVIOUS
<1>2. PICK w1 : w1 = IF w.pb.on THEN w ELSE ActivateBoard(w, ok, spawned)
  OBVIOUS
<1>3. BackOK(w1) /\ w1.pb.on
  BY <1>1, <1>2, ActivateOK
<1>4. PICK v : v = AbandonApp(w1)
  OBVIOUS
<1>5. Sound(v) /\ v.pb = [w1.pb EXCEPT !.talks = 0]
  BY <1>3, <1>4, AbandonOK DEF BackOK
<1>6. PICK b : b = [v.pb EXCEPT !.set = to]
  OBVIOUS
<1>7. b \in BackPb /\ b.talks = 0 /\ b.on
  <2>1. Sound(w1) /\ w1.pb \in BackPb /\ v.pb \in BackPb
    BY <1>3, <1>5, PbTypes DEF BackOK
  <2> QED BY <1>3, <1>5, <1>6, <2>1 DEF BackPb
<1>8. PICK u : u = [v EXCEPT !.pb.set = to]
  OBVIOUS
<1>9. u = [v EXCEPT !.pb = b]
  BY <1>6, <1>8
<1>10. Sound(u) /\ u.pb = b
  BY <1>5, <1>7, <1>9, BoardChanged
<1>11. PICK w2 : w2 = ReloadBackdrop(u, ok, spawned)
  OBVIOUS
<1>12. Sound(w2) /\ Drawn(w2)
  BY <1>7, <1>10, <1>11, ReloadOK
<1>13. PICK w3 : w3 = ShowInBox(SaveBoard(w2, ok))
  OBVIOUS
<1>14. BackOK(w3)
  BY <1>12, <1>13, SavedOK
<1>15. pb' = w3.pb /\ runs' = w3.runs
  BY <1>1, <1>2, <1>4, <1>8, <1>11, <1>13 DEF SetBackdrop
<1>16. World' = w3
  BY <1>14, <1>15, PbTypes DEF World, BackOK
<1> QED BY <1>14, <1>16

(* The program says nothing more, and what it showed last stays. *)
LEMMA AbandonKeeps ==
    ASSUME NEW w, BackOK(w)
    PROVE  BackOK(AbandonApp(w))
<1>1. PICK v : v = AbandonApp(w)
  OBVIOUS
<1>2. Sound(v) /\ v.pb = [w.pb EXCEPT !.talks = 0] /\ w.pb \in BackPb
  BY <1>1, AbandonOK, PbTypes DEF BackOK
<1>3. /\ v.pb.on = w.pb.on /\ v.pb.set = w.pb.set /\ v.pb.drawn = w.pb.drawn /\ v.pb.file = w.pb.file
      /\ v.pb.unsaved = w.pb.unsaved /\ v.pb.box = w.pb.box
  BY <1>2 DEF BackPb
<1> QED BY <1>1, <1>2, <1>3 DEF BackOK, Drawn, InFile, InBox

(* The program that is connected, changed without its name. *)
LEMMA ProgramChanged ==
    ASSUME NEW w, BackOK(w), w.pb.talks # 0, NEW r \in BackRun, ToldOf(r), r.app = w.runs[w.pb.talks].app
    PROVE  BackOK([w EXCEPT !.runs[w.pb.talks] = r])
<1>1. PICK i : i = w.pb.talks
  OBVIOUS
<1>2. Sound(w) /\ i \in DOMAIN w.runs /\ w = [pb |-> w.pb, runs |-> w.runs] /\ w.runs \in Seq(BackRun) /\ w.pb \in BackPb
  BY <1>1, PbTypes DEF BackOK
<1>3. PICK s : s = [w.runs EXCEPT ![i] = r]
  OBVIOUS
<1>4. s \in Seq(BackRun) /\ DOMAIN s = DOMAIN w.runs /\ Len(s) = Len(w.runs) /\ s[i] = r
      /\ \A j \in DOMAIN s : j # i => s[j] = w.runs[j]
  BY <1>2, <1>3, RunChanged
<1>5. PICK v : v = [w EXCEPT !.runs[w.pb.talks] = r]
  OBVIOUS
<1>6. v = [pb |-> w.pb, runs |-> s]
  BY <1>1, <1>2, <1>3, <1>5
<1>7. v \in BackWorld /\ v.pb = w.pb /\ v.runs = s
  BY <1>2, <1>4, <1>6 DEF BackWorld
<1>8. Told(v)
  BY <1>2, <1>4, <1>7 DEF Told, Sound
<1>9. Heard(v)
  BY <1>1, <1>2, <1>4, <1>7 DEF Heard, Sound
<1>10. Drawn(v) /\ InFile(v) /\ InBox(v)
  BY <1>7 DEF Drawn, InFile, InBox, BackOK
<1> QED BY <1>5, <1>7, <1>8, <1>9, <1>10 DEF BackOK, Sound

(* One line of the program's, through each of its ends. *)
LEMMA ObeyOK ==
    ASSUME NEW w, BackOK(w), NEW line \in Line, NEW ok \in BOOLEAN
    PROVE  BackOK(Obey(w, line, ok))
<1> DEFINE i == w.pb.talks
           seen == LoadImage(w, line, ok)
           counted == [seen EXCEPT !.runs[i].loaded = @ + 1]
<1>1. Sound(w)
  BY DEF BackOK
<1>2. CASE i = 0
  BY <1>2 DEF Obey
<1>3. CASE i # 0 /\ line.style \notin FitStyle
  BY <1>3, AbandonKeeps DEF Obey
<1>4. CASE i # 0 /\ line.style \in FitStyle
  <2>1. line \in BackSettings
    BY <1>4, BackTypes
  <2>2. CASE BackOK(seen) /\ seen.pb.talks = 0
    BY <1>4, <2>2 DEF Obey
  <2>3. CASE seen = [w EXCEPT !.pb.drawn = line]
    <3>1. PICK v : v = [w EXCEPT !.pb.drawn = line]
      OBVIOUS
    <3>2. Sound(v) /\ v.pb.set = w.pb.set /\ v.pb.on = w.pb.on /\ v.pb.talks = i /\ v.runs = w.runs /\ InFile(v) /\ InBox(v)
      <4>1. v = WithDrawn(w, line)
        BY <3>1 DEF WithDrawn
      <4> QED BY <1>1, <2>1, <4>1, DrawnOK DEF BackOK
    <3>3. i \in DOMAIN v.runs /\ v.runs[i] \in BackRun /\ v.runs[i] = w.runs[i]
      BY <1>4, <3>2, PbTypes
    <3>4. Drawn(v)
      BY <1>1, <1>4, <3>2, <3>3, BackTypes DEF Drawn, Sound, Heard, BackRun
    <3>5. BackOK(v)
      BY <3>2, <3>4 DEF BackOK
    <3>6. ToldOf(v.runs[i])
      BY <3>2, <3>3 DEF Sound, Told
    <3>7. v = [pb |-> v.pb, runs |-> v.runs] /\ v.runs \in Seq(BackRun)
      BY <3>2, PbTypes
    <3>8. CASE ~w.runs[i].alive
      <4>1. PICK r : r = [v.runs[i] EXCEPT !.loaded = @ + 1]
        OBVIOUS
      <4>2. r \in BackRun /\ ToldOf(r) /\ r.app = v.runs[i].app
        BY <3>3, <3>6, <3>8, <4>1 DEF BackRun, ToldOf
      <4>3. BackOK([v EXCEPT !.runs[v.pb.talks] = r])
        BY <1>4, <3>2, <3>5, <4>2, ProgramChanged
      <4>4. counted = [v EXCEPT !.runs[v.pb.talks] = r]
        BY <2>3, <3>1, <3>2, <3>3, <3>7, <4>1
      <4>5. Obey(w, line, ok) = AbandonApp(counted)
        BY <1>4, <2>3, <3>1, <3>2, <3>8 DEF Obey
      <4> QED BY <4>3, <4>4, <4>5, AbandonKeeps
    <3>9. CASE w.runs[i].alive
      <4>1. PICK r : r = [v.runs[i] EXCEPT !.loaded = @ + 1, !.oks = @ + 1]
        OBVIOUS
      <4>2. r \in BackRun /\ ToldOf(r) /\ r.app = v.runs[i].app
        <5>1. v.runs[i].oks = v.runs[i].loaded /\ r.oks = v.runs[i].oks + 1 /\ r.loaded = v.runs[i].loaded + 1
          BY <3>3, <3>6, <3>9, <4>1 DEF BackRun, ToldOf
        <5>2. r \in BackRun /\ r.app = v.runs[i].app
          <6>1. PICK n \in Nat, o \in Nat : n = v.runs[i].loaded + 1 /\ o = v.runs[i].oks + 1
            <7>1. v.runs[i].loaded \in Nat /\ v.runs[i].oks \in Nat
              BY <3>3 DEF BackRun
            <7> QED BY <7>1
          <6>2. r = [v.runs[i] EXCEPT !.loaded = n, !.oks = o]
            BY <4>1, <6>1
          <6> QED BY <3>3, <6>2 DEF BackRun
        <5>3. r.loaded \in Nat
          BY <5>2 DEF BackRun
        <5> QED BY <5>1, <5>2, <5>3 DEF ToldOf
      <4>3. BackOK([v EXCEPT !.runs[v.pb.talks] = r])
        BY <1>4, <3>2, <3>5, <4>2, ProgramChanged
      <4>4. Obey(w, line, ok) = [counted EXCEPT !.runs[i].oks = @ + 1]
        BY <1>4, <2>3, <3>1, <3>2, <3>9 DEF Obey
      <4>5. PICK q : q = [v.runs[i] EXCEPT !.loaded = @ + 1]
        OBVIOUS
      <4>6. [counted EXCEPT !.runs[i].oks = @ + 1] = [pb |-> v.pb, runs |-> [v.runs EXCEPT ![i] = r]]
        <5>1. [q EXCEPT !.oks = @ + 1] = r
          BY <3>3, <4>1, <4>5 DEF BackRun
        <5>2. PICK s : s = [v.runs EXCEPT ![i] = q]
          OBVIOUS
        <5>3. s[i] = q
          BY <3>3, <3>7, <4>5, <5>2
        <5>4. PICK c : c = [v EXCEPT !.runs = s]
          OBVIOUS
        <5>5. c = [pb |-> v.pb, runs |-> s]
          BY <3>7, <5>4
        <5>6. counted = c
          BY <2>3, <3>1, <4>5, <5>2, <5>4
        <5>7. [s EXCEPT ![i] = r] = [v.runs EXCEPT ![i] = r]
          BY <3>3, <3>7, <5>2
        <5>8. [c EXCEPT !.runs[i].oks = @ + 1] = [c EXCEPT !.runs = [s EXCEPT ![i] = [q EXCEPT !.oks = @ + 1]]]
          BY <5>3, <5>5
        <5>9. [c EXCEPT !.runs = [s EXCEPT ![i] = r]] = [pb |-> v.pb, runs |-> [s EXCEPT ![i] = r]]
          BY <5>5
        <5> QED BY <5>1, <5>6, <5>7, <5>8, <5>9
      <4>7. [v EXCEPT !.runs[v.pb.talks] = r] = [pb |-> v.pb, runs |-> [v.runs EXCEPT ![i] = r]]
        BY <3>2, <3>7
      <4> QED BY <4>3, <4>4, <4>6, <4>7
    <3> QED BY <3>8, <3>9
  <2> QED BY <1>1, <2>1, <2>2, <2>3, LoadOK
<1> QED BY <1>2, <1>3, <1>4
(* Induction, from the least element of a set of numbers. *)
LEMMA LessWF == IsWellFoundedOn(OpToRel(<, Nat), Nat)
BY NatLessThanWellFounded, Zenon
LEMMA Rel == \A x, y \in Nat : x < y => <<x, y>> \in OpToRel(<, Nat)
BY DEF OpToRel
LEMMA Least ==
    ASSUME NEW T \in SUBSET Nat, T # {} PROVE \E x \in T : \A y \in T : x <= y
<1>1. PICK R : R = OpToRel(<, Nat)
  OBVIOUS
<1>2. IsWellFoundedOn(R, Nat)
  BY <1>1, LessWF
<1>3. T \subseteq Nat
  OBVIOUS
<1>4. PICK x \in T : \A y \in T : ~(<<y, x>> \in R)
  BY <1>2, <1>3, WFMin
<1>5. ASSUME NEW y \in T, y < x PROVE FALSE
  <2>1. x \in Nat /\ y \in Nat
    BY <1>3
  <2>2. <<y, x>> \in R
    BY <1>1, <1>5, <2>1, Rel
  <2> QED BY <1>4, <2>2
<1>6. \A y \in T : x <= y
  BY <1>3, <1>5
<1> QED BY <1>6
LEMMA Rise ==
    ASSUME NEW T \in SUBSET Nat, 0 \in T, \A n \in Nat : n \in T => n + 1 \in T
    PROVE T = Nat
<1>1. CASE Nat \ T = {}
  BY <1>1
<1>2. CASE Nat \ T # {}
  <2>1. PICK x \in Nat \ T : \A y \in Nat \ T : x <= y
    BY <1>2, Least
  <2>2. x # 0 /\ x \in Nat /\ x - 1 \in Nat /\ x - 1 \notin Nat \ T
    BY <2>1
  <2> QED BY <2>1, <2>2
<1> QED BY <1>1, <1>2

(* n functions that lead from S to S, one applied after the other. *)
Leads(S, w, n, next) == \E g \in [0..n -> S] : g[0] = w /\ \A k \in 1..n : g[k] = next[k][g[k - 1]]

LEMMA Steps ==
    ASSUME NEW S, NEW w \in S, NEW N \in Nat, NEW next, next \in [1..N -> [S -> S]]
    PROVE  \A n \in 0..N : Leads(S, w, n, next)
<1> DEFINE Runs(n) == \E g \in [0..n -> S] : g[0] = w /\ \A k \in 1..n : g[k] = next[k][g[k - 1]]
           T == {n \in Nat : n <= N => Runs(n)}
<1>1. 0 \in T
  <2>1. PICK g : g = [k \in 0..0 |-> w]
    OBVIOUS
  <2>2. g \in [0..0 -> S] /\ g[0] = w
    BY <2>1
  <2>3. \A k \in 1..0 : g[k] = next[k][g[k - 1]]
    OBVIOUS
  <2>4. Runs(0)
    BY <2>2, <2>3
  <2> QED BY <2>4
<1>2. ASSUME NEW n \in Nat, n \in T PROVE n + 1 \in T
  <2> SUFFICES ASSUME n + 1 <= N PROVE Runs(n + 1)
    OBVIOUS
  <2>1. PICK g \in [0..n -> S] : g[0] = w /\ \A k \in 1..n : g[k] = next[k][g[k - 1]]
    BY <1>2
  <2>2. PICK h : h = [k \in 0..(n + 1) |-> IF k = n + 1 THEN next[n + 1][g[n]] ELSE g[k]]
    OBVIOUS
  <2>3. next[n + 1] \in [S -> S] /\ g[n] \in S
    BY <2>1
  <2>4. h \in [0..(n + 1) -> S]
    BY <2>1, <2>2, <2>3
  <2>5. h[0] = w
    BY <2>1, <2>2
  <2>6. ASSUME NEW k \in 1..(n + 1) PROVE h[k] = next[k][h[k - 1]]
    <3>1. CASE k = n + 1
      BY <2>2, <3>1
    <3>2. CASE k # n + 1
      <4>1. k \in 1..n /\ k \in 0..(n + 1) /\ k - 1 \in 0..(n + 1) /\ k - 1 # n + 1
        BY <3>2
      <4> QED BY <2>1, <2>2, <3>2, <4>1
    <3> QED BY <3>1, <3>2
  <2> QED BY <2>4, <2>5, <2>6
<1> HIDE DEF T
<1>3. T \in SUBSET Nat
  BY DEF T
<1>4. T = Nat
  BY <1>1, <1>2, <1>3, Rise
<1>5. ASSUME NEW n \in 0..N PROVE Runs(n)
  <2>1. n \in Nat /\ n <= N
    OBVIOUS
  <2> HIDE DEF Runs
  <2> QED BY <1>4, <2>1 DEF T
<1> QED BY <1>5 DEF Leads

(* What the lines of a program make of the state is in S when each line keeps *)
(* it there: the function in AfterLines exists, and is in S at each line. *)
LEMMA AfterIs ==
    ASSUME NEW S, NEW w \in S, NEW lines \in Seq(Line), NEW ok,
           \A v \in S : \A line \in Line : Obey(v, line, ok) \in S
    PROVE AfterLines(w, lines, ok) \in S
<1>1. PICK m \in Nat : m = Len(lines)
  OBVIOUS
<1>2. \A k \in 1..m : lines[k] \in Line
  BY <1>1
<1>3. PICK next : next = [k \in 1..m |-> [v \in S |-> Obey(v, lines[k], ok)]]
  OBVIOUS
<1>4. next \in [1..m -> [S -> S]]
  BY <1>2, <1>3
<1>5. \A n \in 0..m : Leads(S, w, n, next)
  BY <1>4, Steps
<1>6. m \in 0..m
  BY <1>1
<1>7. PICK g \in [0..m -> S] : g[0] = w /\ \A k \in 1..m : g[k] = next[k][g[k - 1]]
  BY <1>5, <1>6 DEF Leads
<1>8. g = [k \in 0..m |-> IF k = 0 THEN w ELSE Obey(g[k - 1], lines[k], ok)]
  <2>1. ASSUME NEW k \in 0..m PROVE g[k] = IF k = 0 THEN w ELSE Obey(g[k - 1], lines[k], ok)
    <3>1. CASE k = 0
      BY <1>7, <3>1
    <3>2. CASE k # 0
      <4>1. k \in 1..m /\ k - 1 \in 0..m
        BY <3>2
      <4> QED BY <1>3, <1>7, <3>2, <4>1
    <3> QED BY <3>1, <3>2
  <2> QED BY <1>7, <2>1
<1> DEFINE after == CHOOSE f : f = [k \in 0..Len(lines) |-> IF k = 0 THEN w ELSE Obey(f[k - 1], lines[k], ok)]
<1>9. after = [k \in 0..m |-> IF k = 0 THEN w ELSE Obey(after[k - 1], lines[k], ok)]
  BY <1>1, <1>8
<1>10. AfterLines(w, lines, ok) = after[m]
  BY <1>1 DEF AfterLines
<1> DEFINE T == {k \in Nat : k <= m => after[k] \in S}
<1> HIDE DEF after
<1>11. T = Nat
  <2>1. 0 \in T
    BY <1>1, <1>9
  <2>2. ASSUME NEW n \in Nat, n \in T PROVE n + 1 \in T
    <3>1. n + 1 <= m => after[n + 1] = Obey(after[n], lines[n + 1], ok) /\ lines[n + 1] \in Line
      BY <1>1, <1>2, <1>9
    <3> QED BY <2>2, <3>1
  <2>3. T \in SUBSET Nat
    OBVIOUS
  <2> HIDE DEF T
  <2> QED BY <2>1, <2>2, <2>3, Rise
<1> QED BY <1>1, <1>10, <1>11

--------------------
LEMMA WorldOf ==
    ASSUME NEW w, BackOK(w), WorldIs(w)
    PROVE  BackInv'
<1>1. Sound(w)
  BY DEF BackOK
<1>2. World' = w
  BY <1>1, PbTypes DEF WorldIs, World
<1> QED BY <1>2 DEF BackInv

LEMMA BackInit == BackdropInit => BackInv
<1> SUFFICES ASSUME BackdropInit PROVE BackOK(World)
  BY DEF BackInv
<1>1. PICK f \in {PlainBackdrop, BackImage(CHOOSE p \in Wallpaper : TRUE, "tile")} \cup {RunsApp(a) : a \in BackdropApp} :
         pb = [on |-> FALSE, set |-> PlainBackdrop, talks |-> 0, drawn |-> PlainBackdrop, file |-> f, unsaved |-> FALSE,
               images |-> Wallpaper, box |-> NoBackdropBox]
  BY DEF BackdropInit
<1>2. f \in BackSettings
  <2>1. (CHOOSE p \in Wallpaper : TRUE) \in BackPath /\ "tile" \in FitStyle
    BY BackdropAssumption DEF BackPath
  <2> QED BY <2>1, BackTypes
<1>3. pb \in BackPb /\ pb.talks = 0 /\ ~pb.on /\ ~pb.box.open
  BY <1>1, <1>2, BackTypes DEF BackPb, NoBackdropBox
<1>4. runs = <<>> /\ runs \in Seq(BackRun)
  BY DEF BackdropInit
<1> QED BY <1>3, <1>4 DEF World, BackWorld, BackOK, Sound, Heard, Told, Drawn, InFile, InBox

LEMMA BackNow ==
    ASSUME BackInv
    PROVE  /\ BackOK(World) /\ Sound(World) /\ pb \in BackPb /\ runs \in Seq(BackRun)
           /\ (pb.talks # 0 => pb.talks \in DOMAIN runs) /\ World.pb = pb /\ World.runs = runs
BY PbTypes DEF BackInv, BackOK, World

LEMMA TurnBoardOnStep == ASSUME BackInv, TurnBoardOn PROVE BackInv'
<1>1. PICK ok, spawned \in BOOLEAN : WorldIs(ActivateBoard(World, ok, spawned))
  BY DEF TurnBoardOn
<1> QED BY <1>1, BackNow, ActivateOK, WorldOf

LEMMA TurnBoardOffStep == ASSUME BackInv, TurnBoardOff PROVE BackInv'
<1>1. PICK v : v = AbandonApp(World)
  OBVIOUS
<1>2. Sound(v) /\ v.pb = [pb EXCEPT !.talks = 0]
  BY <1>1, AbandonOK, BackNow
<1>3. PICK u : u = [v EXCEPT !.pb.on = FALSE, !.pb.drawn = PlainBackdrop, !.pb.set = PlainBackdrop]
  OBVIOUS
<1>4. /\ u \in BackWorld /\ u.runs = v.runs /\ u.pb.talks = 0 /\ ~u.pb.on
      /\ u.pb.file = pb.file /\ u.pb.unsaved = pb.unsaved /\ u.pb.box = pb.box
  <2>1. v \in BackWorld /\ v.pb \in BackPb /\ pb \in BackPb /\ PlainBackdrop \in BackSettings
    BY <1>2, BackNow, PbTypes, BackTypes
  <2>2. PICK b : b = [v.pb EXCEPT !.on = FALSE, !.drawn = PlainBackdrop, !.set = PlainBackdrop]
    OBVIOUS
  <2>3. b \in BackPb /\ b.talks = 0 /\ ~b.on /\ b.file = pb.file /\ b.unsaved = pb.unsaved /\ b.box = pb.box
    BY <1>2, <2>1, <2>2 DEF BackPb
  <2>4. u = [v EXCEPT !.pb = b]
    BY <1>3, <2>2
  <2> QED BY <2>1, <2>3, <2>4, BoardPut
<1>5. BackOK(u)
  BY <1>2, <1>4, BackNow DEF BackOK, Sound, Heard, Told, Drawn, InFile, InBox
<1>6. WorldIs(u)
  BY <1>1, <1>3 DEF TurnBoardOff
<1> QED BY <1>5, <1>6, WorldOf

LEMMA ColourChangedStep == ASSUME BackInv, ColourChanged PROVE BackInv'
<1>1. PICK ok, spawned \in BOOLEAN : WorldIs(ReloadBackdrop(AbandonApp(World), ok, spawned))
  BY DEF ColourChanged
<1>2. PICK v : v = AbandonApp(World)
  OBVIOUS
<1>3. BackOK(v) /\ v.pb.talks = 0 /\ v.pb.on
  <2>1. PICK w : w = World
    OBVIOUS
  <2>2. BackOK(w) /\ Sound(w) /\ w.pb = pb /\ pb \in BackPb
    BY <2>1, BackNow
  <2>3. v = AbandonApp(w)
    BY <1>2, <2>1
  <2>4. BackOK(v) /\ v.pb = [pb EXCEPT !.talks = 0]
    BY <2>2, <2>3, AbandonOK, AbandonKeeps
  <2> QED BY <2>2, <2>4 DEF ColourChanged, BackPb
<1>4. BackOK(ReloadBackdrop(v, ok, spawned))
  BY <1>3, ReloadOK DEF BackOK
<1> QED BY <1>1, <1>2, <1>4, WorldOf

LEMMA SetFromOutsideStep == ASSUME BackInv, NEW to \in BackSettings, SetFromOutside(to) PROVE BackInv'
BY SetOK DEF SetFromOutside, BackInv

LEMMA OpenBackdropBoxStep == ASSUME BackInv, OpenBackdropBox PROVE BackInv'
<1> USE BackNow
<1>1. PICK v : v = [World EXCEPT !.pb.box.open = TRUE]
  OBVIOUS
<1>2. /\ v \in BackWorld /\ v.runs = runs /\ v.pb.on = pb.on /\ v.pb.set = pb.set /\ v.pb.talks = pb.talks
      /\ v.pb.drawn = pb.drawn /\ v.pb.file = pb.file /\ v.pb.unsaved = pb.unsaved /\ v.pb.box.open
  <2>1. PICK b : b = [pb.box EXCEPT !.open = TRUE]
    OBVIOUS
  <2>2. b \in BackBox /\ b.open
    BY <2>1 DEF BackBox, BackPb
  <2>3. v = [World EXCEPT !.pb.box = b]
    BY <1>1, <2>1
  <2> QED BY <2>2, <2>3 DEF World, BackWorld, BackPb
<1>3. PICK x : x = [open |-> TRUE, path |-> v.pb.set.path,
                    style |-> IF v.pb.set.style \in FitStyle THEN v.pb.set.style ELSE "tile"]
  OBVIOUS
<1>4. x \in BackBox
  BY <1>2, <1>3, BackTypes, BackdropAssumption DEF BackBox, BackPb
<1>5. PICK u : u = [v EXCEPT !.pb.box = x]
  OBVIOUS
<1>6. WorldIs(u)
  <2>1. ShowInBox(v) = u
    BY <1>2, <1>3, <1>5 DEF ShowInBox
  <2> QED BY <1>1, <2>1 DEF OpenBackdropBox
<1>7. /\ u \in BackWorld /\ u.runs = runs /\ u.pb.on = pb.on /\ u.pb.set = pb.set /\ u.pb.talks = pb.talks
      /\ u.pb.drawn = pb.drawn /\ u.pb.file = pb.file /\ u.pb.unsaved = pb.unsaved /\ u.pb.box = x
  BY <1>2, <1>4, <1>5 DEF BackWorld, BackPb
<1>8. BackOK(u)
  BY <1>3, <1>2, <1>7 DEF OpenBackdropBox, BackOK, Sound, Heard, Told, Drawn, InFile, InBox
<1> QED BY <1>6, <1>8, WorldOf

LEMMA CloseBackdropBoxStep == ASSUME BackInv, CloseBackdropBox PROVE BackInv'
<1>1. /\ pb' \in BackPb /\ runs' = runs /\ pb'.on = pb.on /\ pb'.set = pb.set /\ pb'.talks = pb.talks
      /\ pb'.drawn = pb.drawn /\ pb'.file = pb.file /\ pb'.unsaved = pb.unsaved /\ ~pb'.box.open
  BY BackNow, BackTypes DEF CloseBackdropBox, BackPb, NoBackdropBox
<1> QED BY <1>1, BackNow DEF BackInv, World, BackWorld, BackOK, Sound, Heard, Told, Drawn, InFile, InBox

LEMMA ClearBackdropStep == ASSUME BackInv, ClearBackdrop PROVE BackInv'
<1>1. PICK ok \in BOOLEAN : WorldIs(NoBackdrop(World, ok))
  BY DEF ClearBackdrop
<1> QED BY <1>1, BackNow, NoBackdropOK, WorldOf

LEMMA DropStep ==
    ASSUME BackInv, (\E p \in Wallpaper : DropImage(p)) \/ (\E app \in BackdropApp : DropApp(app))
    PROVE BackInv'
<1>1. ASSUME NEW p \in Wallpaper, DropImage(p) PROVE BackInv'
  <2>1. BackImage(p, pb.box.style) \in BackSettings
    BY BackNow, BackTypes DEF BackPb, BackBox, BackPath
  <2> QED BY <1>1, <2>1, SetFromOutsideStep DEF DropImage
<1>2. ASSUME NEW app \in BackdropApp, DropApp(app) PROVE BackInv'
  BY <1>2, BackTypes, SetFromOutsideStep DEF DropApp
<1> QED BY <1>1, <1>2

LEMMA ChooseStyleStep == ASSUME BackInv, NEW style \in FitStyle, ChooseStyle(style) PROVE BackInv'
<1>1. BackImage(pb.box.path, style) \in BackSettings
  BY BackNow, BackTypes DEF BackPb, BackBox
<1> QED BY <1>1, SetFromOutsideStep DEF ChooseStyle

LEMMA WriteLineStep == ASSUME BackInv, NEW line \in Line, WriteLine(line) PROVE BackInv'
<1> USE BackNow
<1>1. PICK i : i = pb.talks
  OBVIOUS
<1>2. i \in DOMAIN runs /\ runs[i] \in BackRun /\ ToldOf(runs[i])
  BY <1>1 DEF WriteLine, Sound, Told
<1>3. PICK r : r = [runs[i] EXCEPT !.lines = Append(@, line), !.written = @ + 1]
  OBVIOUS
<1>4. r \in BackRun /\ ToldOf(r) /\ r.app = runs[i].app
  <2>1. Append(runs[i].lines, line) \in Seq(Line)
    BY <1>2 DEF BackRun
  <2>2. PICK q : q = Append(runs[i].lines, line)
    OBVIOUS
  <2>3. PICK n \in Nat : n = runs[i].written + 1
    BY <1>2 DEF BackRun
  <2>4. r = [runs[i] EXCEPT !.lines = q, !.written = n] /\ q \in Seq(Line)
    BY <1>3, <2>1, <2>2, <2>3
  <2> QED BY <1>2, <2>4 DEF BackRun, ToldOf
<1>5. runs' = [runs EXCEPT ![i] = r] /\ pb' = pb
  BY <1>1, <1>2, <1>3 DEF WriteLine
<1>6. BackOK([World EXCEPT !.runs[World.pb.talks] = r])
  BY <1>1, <1>4, ProgramChanged DEF WriteLine
<1>7. WorldIs([World EXCEPT !.runs[World.pb.talks] = r])
  BY <1>1, <1>5 DEF WorldIs, World
<1> QED BY <1>6, <1>7, WorldOf

LEMMA ProgramExitsStep == ASSUME BackInv, ProgramExits PROVE BackInv'
<1> USE BackNow
<1>1. PICK i : i = pb.talks
  OBVIOUS
<1>2. i \in DOMAIN runs /\ runs[i] \in BackRun /\ ToldOf(runs[i])
  BY <1>1 DEF ProgramExits, Sound, Told
<1>3. PICK r : r = [runs[i] EXCEPT !.alive = FALSE]
  OBVIOUS
<1>4. r \in BackRun /\ ToldOf(r) /\ r.app = runs[i].app
  BY <1>2, <1>3 DEF BackRun, ToldOf
<1>5. runs' = [runs EXCEPT ![i] = r] /\ pb' = pb
  BY <1>1, <1>2, <1>3 DEF ProgramExits
<1>6. BackOK([World EXCEPT !.runs[World.pb.talks] = r])
  BY <1>1, <1>4, ProgramChanged DEF ProgramExits
<1>7. WorldIs([World EXCEPT !.runs[World.pb.talks] = r])
  BY <1>1, <1>5 DEF WorldIs, World
<1> QED BY <1>6, <1>7, WorldOf

LEMMA ReadLinesStep == ASSUME BackInv, ReadLines PROVE BackInv'
<1> USE BackNow
<1>1. PICK i : i = pb.talks
  OBVIOUS
<1>2. i # 0 /\ i \in DOMAIN runs /\ runs[i] \in BackRun /\ ToldOf(runs[i]) /\ runs[i].lines \in Seq(Line)
  <2>1. i # 0
    BY <1>1 DEF ReadLines
  <2>2. i \in DOMAIN runs /\ runs[i] \in BackRun
    BY <1>1, <2>1
  <2>3. ToldOf(runs[i])
    BY <2>2 DEF Sound, Told
  <2> QED BY <2>1, <2>2, <2>3 DEF BackRun
<1>3. PICK n \in 1..Len(runs[i].lines), ok \in BOOLEAN :
         WorldIs(AfterLines([World EXCEPT !.runs[i].lines = SubSeq(@, n + 1, Len(@))], SubSeq(runs[i].lines, 1, n), ok))
  BY <1>1 DEF ReadLines
<1>4. PICK read : read = SubSeq(runs[i].lines, 1, n)
  OBVIOUS
<1>5. PICK rest : rest = SubSeq(runs[i].lines, n + 1, Len(runs[i].lines))
  OBVIOUS
<1>6. read \in Seq(Line) /\ rest \in Seq(Line)
  <2>1. PICK q \in Seq(Line) : q = runs[i].lines
    BY <1>2
  <2>2. \A a, b \in Nat : SubSeq(q, a, b) \in Seq(Line) \/ ~(1 <= a /\ b <= Len(q))
    OBVIOUS
  <2>3. n \in Nat /\ n + 1 \in Nat /\ Len(q) \in Nat /\ 1 <= n + 1 /\ n <= Len(q)
    BY <2>1
  <2> QED BY <1>4, <1>5, <2>1, <2>2, <2>3
<1>7. PICK r : r = [runs[i] EXCEPT !.lines = rest]
  OBVIOUS
<1>8. r \in BackRun /\ ToldOf(r) /\ r.app = runs[i].app
  BY <1>2, <1>6, <1>7 DEF BackRun, ToldOf
<1>9. PICK w : w = [World EXCEPT !.runs[World.pb.talks] = r]
  OBVIOUS
<1>10. BackOK(w)
  BY <1>1, <1>2, <1>8, <1>9, ProgramChanged
<1>11. w = [World EXCEPT !.runs[i].lines = SubSeq(@, n + 1, Len(@))]
  BY <1>1, <1>2, <1>5, <1>7, <1>9
<1> DEFINE S == {v \in BackWorld : BackOK(v)}
<1>12. w \in S
  BY <1>10 DEF BackOK, Sound
<1>13. ASSUME NEW v \in S, NEW line \in Line PROVE Obey(v, line, ok) \in S
  <2>1. BackOK(Obey(v, line, ok))
    BY ObeyOK
  <2> QED BY <2>1 DEF BackOK, Sound
<1> HIDE DEF S
<1>14. AfterLines(w, read, ok) \in S
  BY <1>6, <1>12, <1>13, AfterIs
<1>15. WorldIs(AfterLines(w, read, ok))
  BY <1>3, <1>4, <1>11
<1> QED BY <1>14, <1>15, WorldOf DEF S

LEMMA ReadEndStep == ASSUME BackInv, ReadEnd PROVE BackInv'
BY BackNow, AbandonKeeps, WorldOf DEF ReadEnd

LEMMA WallpaperDeletedStep == ASSUME BackInv, NEW p \in Wallpaper, WallpaperDeleted(p) PROVE BackInv'
<1>1. /\ pb' \in BackPb /\ runs' = runs /\ pb'.on = pb.on /\ pb'.set = pb.set /\ pb'.talks = pb.talks
      /\ pb'.drawn = pb.drawn /\ pb'.file = pb.file /\ pb'.unsaved = pb.unsaved /\ pb'.box = pb.box
  BY BackNow DEF WallpaperDeleted, BackPb
<1> QED BY <1>1, BackNow DEF BackInv, World, BackWorld, BackOK, Sound, Heard, Told, Drawn, InFile, InBox

(* Each step of the pinboard, the programs, the user and the outside. *)
LEMMA BackStep == BackInv /\ [BackdropNext]_backdropVars => BackInv'
<1> SUFFICES ASSUME BackInv, [BackdropNext]_backdropVars PROVE BackInv'
  OBVIOUS
<1>1. CASE TurnBoardOn \/ TurnBoardOff \/ ColourChanged
  BY <1>1, TurnBoardOnStep, TurnBoardOffStep, ColourChangedStep
<1>2. CASE \E p \in Wallpaper, style \in FitStyle : SetFromOutside(BackImage(p, style))
  <2>1. \A p \in Wallpaper, style \in FitStyle : BackImage(p, style) \in BackSettings
    BY BackTypes DEF BackPath
  <2> QED BY <1>2, <2>1, SetFromOutsideStep
<1>3. CASE \E a \in BackdropApp : SetFromOutside(RunsApp(a)) \/ DropApp(a)
  BY <1>3, BackTypes, SetFromOutsideStep, DropStep
<1>4. CASE OpenBackdropBox \/ CloseBackdropBox \/ ClearBackdrop
  BY <1>4, OpenBackdropBoxStep, CloseBackdropBoxStep, ClearBackdropStep
<1>5. CASE \E p \in Wallpaper : DropImage(p) \/ WallpaperDeleted(p)
  BY <1>5, DropStep, WallpaperDeletedStep
<1>6. CASE \E style \in FitStyle : ChooseStyle(style)
  BY <1>6, ChooseStyleStep
<1>7. CASE ProgramExits \/ \E line \in Line : WriteLine(line)
  BY <1>7, ProgramExitsStep, WriteLineStep
<1>8. CASE ReadLines \/ ReadEnd
  BY <1>8, ReadLinesStep, ReadEndStep
<1>9. CASE UNCHANGED backdropVars
  BY <1>9 DEF backdropVars, BackInv, BackOK, Sound, Heard, Told, Drawn, InFile, InBox, World
<1> QED BY <1>1, <1>2, <1>3, <1>4, <1>5, <1>6, <1>7, <1>8, <1>9 DEF BackdropNext

(* The filer listens only to the program that is the backdrop and was started *)
(* last, a program is told ok once for each image that was loaded, and what is *)
(* shown, what is in the file and what the box says is what is set. *)
THEOREM BackdropAlwaysRight == BackdropSpec => []BackdropRight
<1>1. ASSUME BackInv PROVE BackdropRight
  BY <1>1, BackNow DEF BackOK, Sound, Heard, Told, ToldOf, Drawn, InFile, InBox, BackdropRight, ListensToTheRightOne,
     OkMeansLoaded, OneBackdrop
<1>2. BackInv => BackdropRight
  BY <1>1
<1> QED BY <1>2, BackInit, BackStep, PTL DEF BackdropSpec

--------------------
(* The minibuffer.  Numbers up to a bound, one by one. *)
LEMMA UpTo ==
    ASSUME NEW n \in Nat, NEW S, 0 \in S, \A k \in 0..n : k \in S /\ k < n => k + 1 \in S
    PROVE  0..n \subseteq S
<1> DEFINE Bad == {k \in 0..n : k \notin S}
<1>1. ASSUME Bad # {} PROVE FALSE
  <2>1. Bad \in SUBSET Nat
    OBVIOUS
  <2>2. PICK k \in Bad : \A j \in Bad : k <= j
    BY <1>1, <2>1, Least
  <2>3. k \in Nat /\ k <= n /\ k # 0 /\ k \notin S
    OBVIOUS
  <2>4. k - 1 \in 0..n /\ k - 1 < n /\ ~(k <= k - 1) /\ (k - 1) + 1 = k
    BY <2>3
  <2>5. k - 1 \in S
    BY <2>2, <2>4
  <2> QED BY <2>3, <2>4, <2>5
<1> QED BY <1>1

(* The first of a sequence. *)
FirstIs(path, n, S, k) ==
    /\ k \in 0..n
    /\ k > 0 => path[k] \in S /\ \A j \in 1..n : j < k => path[j] \notin S
    /\ k = 0 => \A j \in 1..n : path[j] \notin S

LEMMA FirstFound ==
    ASSUME NEW n \in Nat, NEW path, Len(path) = n, NEW S
    PROVE  FirstIs(path, n, S, FirstOf(path, S))
<1> DEFINE I == {i \in 1..n : path[i] \in S}
<1>1. FirstOf(path, S) = IF I # {} THEN Min(I) ELSE 0
  BY DEF FirstOf, SelectInSeq
<1>2. CASE I = {}
  BY <1>1, <1>2 DEF FirstIs
<1>3. CASE I # {}
  <2>1. I \in SUBSET Nat
    OBVIOUS
  <2>2. \E m \in I : \A k \in I : m <= k
    BY <1>3, <2>1, Least
  <2>3. Min(I) \in I /\ \A k \in I : Min(I) <= k
    <3> HIDE DEF I
    <3> QED BY <2>2 DEF Min
  <2> DEFINE k == Min(I)
  <2> HIDE DEF k
  <2>4. FirstOf(path, S) = k
    BY <1>1, <1>3 DEF k
  <2>5. k \in I /\ \A j \in I : k <= j
    BY <2>3 DEF k
  <2>6. \A j \in 1..n : j < k => path[j] \notin S
    BY <2>5
  <2> QED BY <2>4, <2>5, <2>6 DEF FirstIs
<1> QED BY <1>2, <1>3

LEMMA MapIs ==
    ASSUME NEW n \in Nat, NEW T, NEW f \in [1..n -> T]
    PROVE  f \in Seq(T) /\ Len(f) = n /\ ToSet(f) = {f[i] : i \in 1..n}
BY DEF ToSet

--------------------
(* The names of a set in the order of the view. *)
MiniName == Seq(Letter) \ {<< >>}
ViewStep(S, b, k) == IF NameOrder[k] \in S THEN Append(b, NameOrder[k]) ELSE b
ViewOf(S) ==
    LET listed[k \in 0..Len(NameOrder)] ==
          IF k = 0 THEN << >>
          ELSE IF NameOrder[k] \in S THEN Append(listed[k - 1], NameOrder[k]) ELSE listed[k - 1]
    IN listed

LEMMA ViewEach ==
    ASSUME NEW S, NEW n \in Nat, n = Len(NameOrder)
    PROVE  ViewOf(S)[0] = << >> /\ \A k \in 1..n : ViewOf(S)[k] = ViewStep(S, ViewOf(S)[k - 1], k)
<1> DEFINE a == << >>
           Move(b, k) == ViewStep(S, b, k)
           Upto(m, f) == f = [k \in 0..m |-> IF k = 0 THEN a ELSE Move(f[k - 1], k)]
           K == {m \in 0..n : \E f : Upto(m, f)}
           listed == ViewOf(S)
<1>1. listed = CHOOSE f : Upto(n, f)
  BY DEF ViewOf, ViewStep
<1> HIDE DEF Move, listed, a
<1>2. 0 \in K
  <2> DEFINE f == [k \in 0..0 |-> a]
  <2>1. Upto(0, f)
    OBVIOUS
  <2>2. 0 \in 0..n
    OBVIOUS
  <2> HIDE DEF f, Upto
  <2> QED BY <2>1, <2>2
<1>3. ASSUME NEW m \in 0..n, m \in K, m < n PROVE m + 1 \in K
  <2>1. PICK f : Upto(m, f)
    BY <1>3
  <2> DEFINE g == [k \in 0..(m + 1) |-> IF k <= m THEN f[k] ELSE Move(f[m], m + 1)]
  <2>2. \A k \in 0..(m + 1) : g[k] = IF k = 0 THEN a ELSE Move(g[k - 1], k)
    <3>1. ASSUME NEW k \in 0..(m + 1) PROVE g[k] = IF k = 0 THEN a ELSE Move(g[k - 1], k)
      <4>1. CASE k = 0
        <5>1. g[0] = f[0] /\ f[0] = a
          BY <2>1
        <5> QED BY <4>1, <5>1
      <4>2. CASE k # 0 /\ k <= m
        <5>1. k \in 0..m /\ k - 1 \in 0..m
          BY <4>2
        <5>2. g[k] = f[k] /\ g[k - 1] = f[k - 1] /\ f[k] = Move(f[k - 1], k)
          BY <2>1, <4>2, <5>1
        <5> QED BY <4>2, <5>2
      <4>3. CASE k # 0 /\ ~(k <= m)
        <5>1. k = m + 1 /\ k - 1 = m /\ m \in 0..(m + 1)
          BY <4>3
        <5>2. g[k] = Move(f[m], m + 1) /\ g[m] = f[m]
          BY <5>1
        <5> QED BY <4>3, <5>1, <5>2
      <4> QED BY <4>1, <4>2, <4>3
    <3> QED BY <3>1
  <2>3. g = [k \in 0..(m + 1) |-> IF k = 0 THEN a ELSE Move(g[k - 1], k)]
    <3>1. g = [k \in 0..(m + 1) |-> g[k]]
      OBVIOUS
    <3> HIDE DEF g
    <3> QED BY <2>2, <3>1
  <2>4. Upto(m + 1, g)
    <3> HIDE DEF g
    <3> QED BY <2>3
  <2> HIDE DEF g
  <2> QED BY <1>3, <2>4
<1>4. 0..n \subseteq K
  <2> HIDE DEF K
  <2> QED BY <1>2, <1>3, UpTo
<1>5. \E f : Upto(n, f)
  BY <1>4
<1>6. Upto(n, listed)
  <2> HIDE DEF Upto
  <2> QED BY <1>1, <1>5
<1>7. listed[0] = a /\ \A k \in 1..n : listed[k] = Move(listed[k - 1], k)
  <2>1. \A k \in 0..n : listed[k] = IF k = 0 THEN a ELSE Move(listed[k - 1], k)
    BY <1>6
  <2> QED BY <2>1
<1> QED BY <1>7 DEF Move, listed, a

LEMMA ViewOrderIs ==
    ASSUME NEW S
    PROVE  ViewOrder(S) \in Seq(MiniName) /\ ToSet(ViewOrder(S)) = S \cap ToSet(NameOrder)
<1> DEFINE n == Len(NameOrder)
           f == ViewOf(S)
           Had(k) == {NameOrder[j] : j \in 1..k}
           Right(k) == f[k] \in Seq(MiniName) /\ \A x : x \in ToSet(f[k]) <=> x \in S /\ \E j \in 1..k : NameOrder[j] = x
           K == {k \in 0..n : Right(k)}
<1>1. NameOrder \in Seq(MiniName) /\ n \in Nat /\ \A k \in 1..n : NameOrder[k] \in MiniName
  BY MiniAssumption DEF MiniName
<1>2. f[0] = << >> /\ \A k \in 1..n : f[k] = ViewStep(S, f[k - 1], k)
  BY <1>1, ViewEach
<1>3. ViewOrder(S) = f[n]
  BY DEF ViewOrder, ViewOf
<1>4. DOMAIN NameOrder = 1..n
  BY <1>1
<1> HIDE DEF f, n
<1>5. 0 \in K
  <2>1. f[0] \in Seq(MiniName) /\ ToSet(f[0]) = {}
    BY <1>2 DEF ToSet
  <2> QED BY <1>1, <2>1
<1>6. ASSUME NEW k \in 0..n, k \in K, k < n PROVE k + 1 \in K
  <2>1. Right(k) /\ k + 1 \in 1..n /\ (k + 1) - 1 = k /\ k \in Nat
    BY <1>1, <1>6
  <2>2. f[k + 1] = ViewStep(S, f[k], k + 1)
    BY <1>2, <2>1
  <2> DEFINE y == NameOrder[k + 1]
             s == f[k]
             t == f[k + 1]
  <2>3. y \in MiniName
    BY <1>1, <2>1
  <2>4. \A x : (\E j \in 1..(k + 1) : NameOrder[j] = x) <=> (x = y \/ \E j \in 1..k : NameOrder[j] = x)
    <3>1. \A j \in 1..(k + 1) : j = k + 1 \/ j \in 1..k
      BY <2>1
    <3>2. 1..k \subseteq 1..(k + 1) /\ k + 1 \in 1..(k + 1)
      BY <2>1
    <3> QED BY <3>1, <3>2
  <2>5. CASE y \in S
    <3>1. t = Append(s, y)
      BY <2>2, <2>5 DEF ViewStep
    <3>2. s \in Seq(MiniName)
      BY <2>1
    <3> DEFINE m == Len(s)
    <3>3. m \in Nat /\ t \in Seq(MiniName) /\ Len(t) = m + 1 /\ t[m + 1] = y /\ \A i \in 1..m : t[i] = s[i]
      BY <2>3, <3>1, <3>2, AppendProperties
    <3>4. DOMAIN s = 1..m /\ DOMAIN t = 1..(m + 1)
      BY <3>2, <3>3
    <3> HIDE DEF m, s, t, y
    <3>5. \A x : x \in ToSet(t) <=> x = y \/ x \in ToSet(s)
      <4>1. \A i \in 1..(m + 1) : i = m + 1 \/ i \in 1..m
        BY <3>3
      <4>2. m + 1 \in 1..(m + 1) /\ 1..m \subseteq 1..(m + 1)
        BY <3>3
      <4> QED BY <3>3, <3>4, <4>1, <4>2 DEF ToSet
    <3>6. \A x : x \in ToSet(s) <=> x \in S /\ \E j \in 1..k : NameOrder[j] = x
      BY <2>1 DEF s
    <3>7. \A x : x \in ToSet(t) <=> x \in S /\ \E j \in 1..(k + 1) : NameOrder[j] = x
      BY <2>4, <2>5, <3>5, <3>6
    <3> QED BY <2>1, <3>3, <3>7 DEF t
  <2>6. CASE y \notin S
    <3>1. t = s
      BY <2>2, <2>6 DEF ViewStep
    <3> HIDE DEF s, t
    <3>2. \A x : x \in ToSet(s) <=> x \in S /\ \E j \in 1..k : NameOrder[j] = x
      BY <2>1 DEF s
    <3>3. \A x : x \in ToSet(t) <=> x \in S /\ \E j \in 1..(k + 1) : NameOrder[j] = x
      BY <2>4, <2>6, <3>1, <3>2
    <3> QED BY <2>1, <3>1, <3>3 DEF t, s
  <2> QED BY <2>5, <2>6
<1>7. 0..n \subseteq K
  <2> HIDE DEF K
  <2> QED BY <1>1, <1>5, <1>6, UpTo
<1>8. Right(n)
  <2>1. n \in 0..n
    BY <1>1
  <2> HIDE DEF Right
  <2> QED BY <1>7, <2>1
<1>9. ViewOrder(S) \in Seq(MiniName)
  BY <1>3, <1>8
<1>10. \A x : x \in ToSet(ViewOrder(S)) <=> x \in S /\ \E j \in 1..n : NameOrder[j] = x
  <2>1. \A x : x \in ToSet(f[n]) <=> x \in S /\ \E j \in 1..n : NameOrder[j] = x
    BY <1>8
  <2> QED BY <1>3, <2>1, Zenon
<1>11. \A x : x \in ToSet(NameOrder) <=> \E j \in 1..n : NameOrder[j] = x
  BY <1>4 DEF ToSet
<1> QED BY <1>9, <1>10, <1>11

--------------------
(* The iterators: the k-th item of an iterator in closed form. *)
LEMMA Turned ==
    ASSUME NEW n \in Nat, n # 0, NEW a \in Int
    PROVE  /\ a \in 0..(n - 1) => a % n = a
           /\ a \in n..(2 * n - 1) => a % n = a - n
           /\ a \in (0 - n)..(-1) => a % n = a + n
OBVIOUS

PathItem(n, c, dir, k) ==
    IF dir < 0 THEN IF c + 1 - k >= 0 THEN c + 1 - k ELSE c + 1 - k + n
    ELSE IF c + k - 1 < n THEN c + k - 1 ELSE c + k - 1 - n
FirstItem(v, start, dir) ==
    IF OnItem(v, start) THEN start ELSE IF dir < 0 THEN Count(v) - 1 ELSE 0
PathIs(n, c, dir, path) ==
    /\ Len(path) = n /\ path \in [1..n -> 0..(n - 1)]
    /\ \A k \in 1..n : path[k] = PathItem(n, c, dir, k)

LEMMA IterateIs ==
    ASSUME NEW v, NEW n \in Nat, Count(v) = n, NEW start \in Int, NEW dir \in {-1, 0, 1}
    PROVE  /\ PathIs(n, FirstItem(v, start, dir), dir, Iterate(v, start, dir))
           /\ n > 0 => FirstItem(v, start, dir) \in 0..(n - 1)
<1> DEFINE c == FirstItem(v, start, dir)
           item(k) == (c + (IF dir < 0 THEN 1 - k ELSE k - 1)) % n
           path == [k \in 1..n |-> item(k)]
<1>1. Iterate(v, start, dir) = path
  BY DEF Iterate, FirstItem
<1>2. n > 0 => c \in 0..(n - 1)
  BY DEF FirstItem, OnItem
<1> HIDE DEF c
<1>3. ASSUME NEW k \in 1..n PROVE item(k) = PathItem(n, c, dir, k) /\ item(k) \in 0..(n - 1)
  <2>1. n # 0 /\ c \in 0..(n - 1)
    BY <1>2
  <2>2. CASE dir < 0
    <3>1. item(k) = (c + 1 - k) % n
      BY <2>1, <2>2
    <3> DEFINE a == c + 1 - k
    <3>2. a \in Int /\ (a >= 0 => a \in 0..(n - 1)) /\ (~(a >= 0) => a \in (0 - n)..(-1))
      BY <2>1
    <3>3. PathItem(n, c, dir, k) = IF a >= 0 THEN a ELSE a + n
      BY <2>2 DEF PathItem
    <3>4. item(k) = a % n
      BY <3>1
    <3> HIDE DEF a, item
    <3>5. a % n = IF a >= 0 THEN a ELSE a + n
      BY <2>1, <3>2, Turned
    <3> QED BY <2>1, <3>2, <3>3, <3>4, <3>5
  <2>3. CASE ~(dir < 0)
    <3>1. item(k) = (c + (k - 1)) % n
      BY <2>1, <2>3
    <3> DEFINE a == c + (k - 1)
    <3>2. a \in Int /\ (a < n => a \in 0..(n - 1)) /\ (~(a < n) => a \in n..(2 * n - 1))
      BY <2>1
    <3>3. PathItem(n, c, dir, k) = IF a < n THEN a ELSE a - n
      BY <2>1, <2>3 DEF PathItem
    <3>4. item(k) = a % n
      BY <3>1
    <3> HIDE DEF a, item
    <3>5. a % n = IF a < n THEN a ELSE a - n
      BY <2>1, <3>2, Turned
    <3> QED BY <2>1, <3>2, <3>3, <3>4, <3>5
  <2> QED BY <2>2, <2>3
<1> HIDE DEF item
<1>4. path \in [1..n -> 0..(n - 1)] /\ \A k \in 1..n : path[k] = PathItem(n, c, dir, k)
  BY <1>3
<1> HIDE DEF path
<1>5. Len(path) = n
  BY <1>4, MapIs
<1> QED BY <1>1, <1>2, <1>4, <1>5 DEF PathIs, c

LEMMA PathMeets ==
    ASSUME NEW n \in Nat, NEW c \in 0..(n - 1), NEW dir \in {-1, 0, 1}, NEW i \in 0..(n - 1)
    PROVE  \E k \in 1..n : PathItem(n, c, dir, k) = i
<1>1. CASE dir < 0
  <2>1. CASE i <= c
    <3>1. c + 1 - i \in 1..n /\ PathItem(n, c, dir, c + 1 - i) = i
      BY <1>1, <2>1 DEF PathItem
    <3> QED BY <3>1
  <2>2. CASE ~(i <= c)
    <3>1. c + 1 - i + n \in 1..n /\ PathItem(n, c, dir, c + 1 - i + n) = i
      BY <1>1, <2>2 DEF PathItem
    <3> QED BY <3>1
  <2> QED BY <2>1, <2>2
<1>2. CASE ~(dir < 0)
  <2>1. CASE i >= c
    <3>1. i - c + 1 \in 1..n /\ PathItem(n, c, dir, i - c + 1) = i
      BY <1>2, <2>1 DEF PathItem
    <3> QED BY <3>1
  <2>2. CASE ~(i >= c)
    <3>1. i - c + 1 + n \in 1..n /\ PathItem(n, c, dir, i - c + 1 + n) = i
      BY <1>2, <2>2 DEF PathItem
    <3> QED BY <3>1
  <2> QED BY <2>1, <2>2
<1> QED BY <1>1, <1>2

(* How far an item is from the cursor, in the direction of the search. *)
StepsTo(n, c, dir, i) == ((dir * (i - c) - 1) % n) + 1
LEMMA StepsAre ==
    ASSUME NEW n \in Nat, NEW c \in 0..(n - 1), NEW dir \in {-1, 1}, NEW k \in 2..n
    PROVE  StepsTo(n, c, dir, PathItem(n, c, dir, k)) = k - 1
<1> DEFINE i == PathItem(n, c, dir, k)
           a == dir * (i - c) - 1
<1>1. n # 0
  OBVIOUS
<1>2. CASE dir = 1
  <2>1. a = i - c - 1 /\ i = IF c + k - 1 < n THEN c + k - 1 ELSE c + k - 1 - n
    BY <1>2 DEF PathItem
  <2> HIDE DEF i, a
  <2>2. a \in Int /\ (a = k - 2 \/ a = k - 2 - n)
    BY <2>1
  <2>3. a % n = k - 2
    <3>1. CASE a = k - 2
      <4>1. a \in 0..(n - 1)
        BY <3>1
      <4> QED BY <1>1, <2>2, <3>1, <4>1, Turned
    <3>2. CASE a = k - 2 - n
      <4>1. a \in (0 - n)..(-1)
        BY <3>2
      <4>2. a % n = a + n
        BY <1>1, <2>2, <4>1, Turned
      <4> QED BY <3>2, <4>2
    <3> QED BY <2>2, <3>1, <3>2
  <2> QED BY <2>3 DEF StepsTo, a, i
<1>3. CASE dir = -1
  <2>1. a = c - i - 1 /\ i = IF c + 1 - k >= 0 THEN c + 1 - k ELSE c + 1 - k + n
    <3>1. \A b \in Int : -1 * b = 0 - b
      OBVIOUS
    <3>2. i = IF c + 1 - k >= 0 THEN c + 1 - k ELSE c + 1 - k + n
      BY <1>3 DEF PathItem
    <3> HIDE DEF i
    <3>3. i - c \in Int
      BY <3>2
    <3>4. a = (0 - (i - c)) - 1
      BY <1>3, <3>1, <3>3
    <3> QED BY <3>2, <3>4
  <2> HIDE DEF i, a
  <2>2. a \in Int /\ (a = k - 2 \/ a = k - 2 - n)
    BY <2>1
  <2>3. a % n = k - 2
    <3>1. CASE a = k - 2
      <4>1. a \in 0..(n - 1)
        BY <3>1
      <4> QED BY <1>1, <2>2, <3>1, <4>1, Turned
    <3>2. CASE a = k - 2 - n
      <4>1. a \in (0 - n)..(-1)
        BY <3>2
      <4>2. a % n = a + n
        BY <1>1, <2>2, <4>1, Turned
      <4> QED BY <3>2, <4>2
    <3> QED BY <2>2, <3>1, <3>2
  <2> QED BY <2>3 DEF StepsTo, a, i
<1> QED BY <1>2, <1>3

LEMMA StepsBack ==
    ASSUME NEW n \in Nat, NEW c \in 0..(n - 1), NEW dir \in {-1, 1}
    PROVE  StepsTo(n, c, dir, c) = n
<1>1. n # 0 /\ dir * (c - c) - 1 = -1
  OBVIOUS
<1>2. -1 \in Int /\ -1 \in (0 - n)..(-1)
  OBVIOUS
<1>3. (-1) % n = -1 + n
  BY <1>1, <1>2, Turned
<1> QED BY <1>1, <1>3 DEF StepsTo

--------------------
(* The view, as far as the searches change it. *)
PaneIs(v) ==
    v \in [place : Place, items : Seq(MiniName), cursor : Int, base : Int, sel : {v.sel},
           filter : {v.filter}, had : {v.had}, select : {v.select}, scanning : BOOLEAN]
PaneMoved(v, d, i, b) ==
    /\ PaneIs(d) /\ d.items = v.items /\ d.place = v.place /\ d.sel = v.sel /\ d.filter = v.filter
    /\ d.scanning = v.scanning /\ d.cursor = i /\ d.base = b

LEMMA PaneMoves ==
    ASSUME NEW v, PaneIs(v), NEW i \in Int
    PROVE  PaneMoved(v, CursorTo(v, i), i, v.base) /\ PaneMoved(v, [v EXCEPT !.base = i], v.cursor, i)
<1>1. PaneMoved(v, CursorTo(v, i), i, v.base)
  BY DEF PaneIs, PaneMoved, CursorTo
<1>2. PaneMoved(v, [v EXCEPT !.base = i], v.cursor, i)
  BY DEF PaneIs, PaneMoved
<1> QED BY <1>1, <1>2

LEMMA PaneHas ==
    ASSUME NEW v, PaneIs(v)
    PROVE  /\ Count(v) \in Nat /\ v.cursor \in Int /\ v.base \in Int /\ v.items \in Seq(MiniName) /\ v.place \in Place
           /\ v.scanning \in BOOLEAN /\ DOMAIN v.items = 1..Count(v)
           /\ \A i \in 0..(Count(v) - 1) : NameAt(v, i) \in MiniName /\ NameAt(v, i) \in ToSet(v.items)
           /\ \A x \in ToSet(v.items) : x \in MiniName /\ \E i \in 0..(Count(v) - 1) : NameAt(v, i) = x
<1> DEFINE n == Count(v)
           s == v.items
<1>1. s \in Seq(MiniName) /\ v.cursor \in Int /\ v.base \in Int /\ v.place \in Place /\ v.scanning \in BOOLEAN
  BY DEF PaneIs
<1>2. n \in Nat /\ DOMAIN s = 1..n /\ \A k \in 1..n : s[k] \in MiniName
  <2>1. n = Len(s)
    BY DEF Count
  <2> HIDE DEF n, s
  <2> QED BY <1>1, <2>1
<1>3. \A i : NameAt(v, i) = s[i + 1]
  BY DEF NameAt
<1> HIDE DEF n, s
<1>4. ASSUME NEW i \in 0..(n - 1) PROVE NameAt(v, i) \in MiniName /\ NameAt(v, i) \in ToSet(s)
  <2>1. i + 1 \in 1..n
    BY <1>2
  <2> QED BY <1>2, <1>3, <2>1 DEF ToSet
<1>5. ASSUME NEW x \in ToSet(s) PROVE x \in MiniName /\ \E i \in 0..(n - 1) : NameAt(v, i) = x
  <2>1. PICK k \in 1..n : s[k] = x
    BY <1>2 DEF ToSet
  <2>2. k - 1 \in 0..(n - 1) /\ NameAt(v, k - 1) = x
    <3>1. (k - 1) + 1 = k
      BY <1>2
    <3> QED BY <1>2, <1>3, <2>1, <3>1
  <2> QED BY <1>2, <2>1, <2>2
<1> QED BY <1>1, <1>2, <1>4, <1>5 DEF s, n

LEMMA CursorIterIs ==
    ASSUME NEW v, PaneIs(v)
    PROVE  /\ CursorIter(v) \in Int /\ (OnItem(v, v.cursor) => CursorIter(v) = v.cursor)
           /\ CursorIter(v) # -1 => OnItem(v, v.cursor) /\ CursorIter(v) = v.cursor
BY PaneHas DEF CursorIter

--------------------
(* find_exact_match and find_next_match. *)
MatchesIn(v, leaf) == {i \in 0..(Count(v) - 1) : Matches(NameAt(v, i), leaf)}
NextTo(v, leaf, r) ==
    /\ r.found \in BOOLEAN /\ r.found <=> MatchesIn(v, leaf) # {}
    /\ r.found => \E i \in MatchesIn(v, leaf) : r.view = CursorTo(v, i)
    /\ r.view = v \/ \E i \in Int : r.view = CursorTo(v, i)

LEMMA FindNextIs ==
    ASSUME NEW v, PaneIs(v), NEW leaf
    PROVE  NextTo(v, leaf, FindNext(v, leaf, 0))
<1> DEFINE n == Count(v)
           c == FirstItem(v, v.base, 0)
           S == MatchesIn(v, leaf)
           path == Iterate(v, v.base, 0)
           k == FirstOf(path, S)
           r == FindNext(v, leaf, 0)
<1>1. n \in Nat /\ v.base \in Int /\ 0 \in {-1, 0, 1}
  BY PaneHas
<1>2. r = IF n = 0 THEN [found |-> FALSE, view |-> v]
          ELSE [found |-> k > 0, view |-> CursorTo(v, IF k > 0 THEN path[k] ELSE path[1])]
  BY DEF FindNext, MatchesIn
<1>3. S \subseteq 0..(n - 1)
  BY DEF MatchesIn
<1>4. PathIs(n, c, 0, path) /\ (n > 0 => c \in 0..(n - 1))
  <2> HIDE DEF n
  <2>1. Count(v) = n
    BY DEF n
  <2> QED BY <1>1, <2>1, IterateIs
<1> HIDE DEF n, c, path
<1>5. FirstIs(path, n, S, k)
  BY <1>1, <1>4, FirstFound DEF PathIs
<1> HIDE DEF k, S, r
<1>6. CASE n = 0
  <2>1. S = {}
    BY <1>3, <1>6
  <2>2. r.found = FALSE /\ r.view = v
    BY <1>2, <1>6
  <2> QED BY <2>1, <2>2 DEF NextTo, S, r
<1>7. CASE n # 0 /\ k > 0
  <2>1. r.found = TRUE /\ r.view = CursorTo(v, path[k])
    BY <1>2, <1>7
  <2>3. path[k] \in S
    BY <1>5, <1>7 DEF FirstIs
  <2>4. path[k] \in 0..(n - 1)
    BY <1>3, <2>3
  <2>2. path[k] \in S /\ path[k] \in Int
    BY <1>1, <2>3, <2>4
  <2> QED BY <2>1, <2>2 DEF NextTo, S, r
<1>8. CASE n # 0 /\ ~(k > 0)
  <2>1. r.found = FALSE /\ r.view = CursorTo(v, path[1])
    <3> DEFINE more == k > 0
    <3>1. more = FALSE
      BY <1>8
    <3>2. r = [found |-> more, view |-> CursorTo(v, IF more THEN path[k] ELSE path[1])]
      BY <1>2, <1>8
    <3> HIDE DEF more
    <3> QED BY <3>1, <3>2
  <2>2. path[1] \in Int
    BY <1>1, <1>4, <1>8 DEF PathIs
  <2>3. ASSUME NEW i \in S PROVE FALSE
    <3>1. PICK j \in 1..n : PathItem(n, c, 0, j) = i
      BY <1>1, <1>3, <1>4, <1>8, PathMeets
    <3>2. path[j] = i
      BY <1>4, <3>1 DEF PathIs
    <3>3. k = 0
      BY <1>5, <1>8 DEF FirstIs
    <3> QED BY <1>5, <2>3, <3>2, <3>3 DEF FirstIs
  <2> QED BY <2>1, <2>2, <2>3 DEF NextTo, S, r
<1> QED BY <1>6, <1>7, <1>8

ExactTo(v, leaf, k) ==
    /\ k \in Nat
    /\ k > 0 => k - 1 \in 0..(Count(v) - 1) /\ NameAt(v, k - 1) = leaf

LEMMA FindExactIs ==
    ASSUME NEW v, PaneIs(v), NEW leaf
    PROVE  ExactTo(v, leaf, FindExact(v, leaf))
<1> DEFINE n == Count(v)
           c == FirstItem(v, -1, 1)
           S == {i \in 0..(n - 1) : NameAt(v, i) = leaf}
           path == Iterate(v, -1, 1)
           k == FirstOf(path, S)
<1>1. n \in Nat /\ -1 \in Int /\ 1 \in {-1, 0, 1}
  BY PaneHas
<1>2. FindExact(v, leaf) = k
  BY DEF FindExact
<1>3. c = 0
  BY <1>1 DEF FirstItem, OnItem
<1>4. PathIs(n, c, 1, path)
  <2> HIDE DEF n
  <2>1. Count(v) = n
    BY DEF n
  <2> QED BY <1>1, <2>1, IterateIs
<1> HIDE DEF n, c, path, S
<1>5. FirstIs(path, n, S, k)
  BY <1>1, <1>4, FirstFound DEF PathIs
<1> HIDE DEF k
<1>6. ASSUME k > 0 PROVE k - 1 \in 0..(n - 1) /\ NameAt(v, k - 1) = leaf
  <2>1. k \in 1..n /\ path[k] \in S
    BY <1>5, <1>6 DEF FirstIs
  <2>2. path[k] = k - 1
    BY <1>1, <1>3, <1>4, <2>1 DEF PathIs, PathItem
  <2> QED BY <2>1, <2>2 DEF S
<1>7. k \in Nat
  BY <1>1, <1>5 DEF FirstIs
<1> QED BY <1>2, <1>6, <1>7 DEF ExactTo, n

(* The next in a direction, from the cursor on a match. *)
NearestTo(v, leaf, dir, d) ==
    /\ PaneMoved(v, d, d.cursor, d.base) /\ d.cursor \in Int
    /\ OnItem(v, v.cursor) /\ Matches(NameAt(v, v.cursor), leaf) =>
         /\ d.cursor \in MatchesIn(v, leaf)
         /\ \A i \in MatchesIn(v, leaf) :
              StepsTo(Count(v), v.cursor, dir, d.cursor) <= StepsTo(Count(v), v.cursor, dir, i)

LEMMA SearchIs ==
    ASSUME NEW v, PaneIs(v), NEW leaf, NEW dir \in {-1, 1}
    PROVE  NearestTo(v, leaf, dir, SearchInDir(v, leaf, dir))
<1> DEFINE b == CursorIter(v)
           w == [v EXCEPT !.base = b]
           r == FindNext(w, leaf, dir)
           u == r.view
           e == CursorIter(u)
           d == [u EXCEPT !.base = e]
<1>1. SearchInDir(v, leaf, dir) = d
  BY DEF SearchInDir
<1>2. b \in Int /\ (OnItem(v, v.cursor) => b = v.cursor)
  BY CursorIterIs
<1> HIDE DEF b
<1>3. PaneMoved(v, w, v.cursor, b) /\ PaneIs(w)
  BY <1>2, PaneMoves DEF PaneMoved
<1>4. Count(w) = Count(v) /\ MatchesIn(w, leaf) = MatchesIn(v, leaf) /\ w.base = b /\ w.cursor = v.cursor
      /\ \A i : OnItem(w, i) <=> OnItem(v, i)
  BY <1>3 DEF PaneMoved, MatchesIn, Count, NameAt, OnItem
<1> HIDE DEF w
<1> DEFINE n == Count(w)
           c == FirstItem(w, w.base, dir)
           S == MatchesIn(w, leaf)
           path == Iterate(w, w.base, dir)
           rest == Tail(path)
           k == FirstOf(rest, S)
<1>5. r = IF n = 0 THEN [found |-> FALSE, view |-> w]
          ELSE [found |-> k > 0, view |-> CursorTo(w, IF k > 0 THEN rest[k] ELSE path[1])]
  <2>1. dir # 0
    OBVIOUS
  <2> QED BY <2>1 DEF FindNext, MatchesIn
<1>6. n \in Nat /\ w.base \in Int /\ dir \in {-1, 0, 1} /\ dir # 0
  BY <1>3, PaneHas
<1>7. S \subseteq 0..(n - 1)
  BY DEF MatchesIn
<1>8. PathIs(n, c, dir, path) /\ (n > 0 => c \in 0..(n - 1))
  <2> HIDE DEF n
  <2>1. Count(w) = n
    BY DEF n
  <2> QED BY <1>6, <2>1, IterateIs
<1>9. OnItem(v, v.cursor) => c = v.cursor
  BY <1>2, <1>4 DEF FirstItem
<1> HIDE DEF n, c, path, S, r
<1>10. CASE n = 0
  <2>1. u = w
    BY <1>5, <1>10
  <2> HIDE DEF u
  <2>2. e \in Int
    BY <1>3, <2>1, CursorIterIs
  <2> HIDE DEF e
  <2>3. PaneMoved(w, d, w.cursor, e)
    BY <1>3, <2>1, <2>2, PaneMoves
  <2>4. ~OnItem(v, v.cursor)
    BY <1>3, <1>4, <1>10, PaneHas DEF OnItem, n
  <2> HIDE DEF d
  <2>5. PaneMoved(v, d, d.cursor, d.base) /\ d.cursor \in Int
    BY <1>3, <2>3, PaneHas DEF PaneMoved
  <2> QED BY <1>1, <2>4, <2>5 DEF NearestTo
<1>11. CASE n # 0
  <2> DEFINE to == IF k > 0 THEN rest[k] ELSE path[1]
  <2>1. u = CursorTo(w, to)
    BY <1>5, <1>11
  <2>2. Len(rest) = n - 1 /\ \A j \in 1..(n - 1) : rest[j] = path[j + 1]
    <3>1. path \in Seq(Int) /\ Len(path) = n /\ path # << >>
      <4>1. path \in [1..n -> Int]
        BY <1>6, <1>8 DEF PathIs
      <4>2. path \in Seq(Int) /\ Len(path) = n
        BY <1>6, <4>1, MapIs
      <4> QED BY <1>11, <4>2
    <3> HIDE DEF path
    <3> QED BY <3>1, HeadTailProperties
  <2> HIDE DEF rest, u
  <2>3. n - 1 \in Nat
    BY <1>6, <1>11
  <2>4. FirstIs(rest, n - 1, S, k)
    BY <2>2, <2>3, FirstFound
  <2> HIDE DEF k
  <2>5. to \in 0..(n - 1)
    <3>1. CASE k > 0
      <4>1. k \in 1..(n - 1) /\ rest[k] \in S
        BY <2>3, <2>4, <3>1 DEF FirstIs
      <4> QED BY <1>7, <3>1, <4>1
    <3>2. CASE ~(k > 0)
      <4>1. 1 \in 1..n
        BY <1>6, <1>11
      <4> QED BY <1>8, <3>2, <4>1 DEF PathIs
    <3> QED BY <3>1, <3>2
  <2>6. OnItem(v, v.cursor) /\ Matches(NameAt(v, v.cursor), leaf) =>
            to \in S /\ \A i \in S : StepsTo(n, c, dir, to) <= StepsTo(n, c, dir, i)
    <3>1. SUFFICES ASSUME OnItem(v, v.cursor), Matches(NameAt(v, v.cursor), leaf)
                   PROVE  to \in S /\ \A i \in S : StepsTo(n, c, dir, to) <= StepsTo(n, c, dir, i)
      OBVIOUS
    <3>2. c \in S
      BY <1>4, <1>9, <3>1 DEF S, MatchesIn, OnItem
    <3>3. c \in 0..(n - 1)
      BY <1>6, <1>8, <1>11
    <3>4. StepsTo(n, c, dir, c) = n
      BY <1>6, <3>3, StepsBack
    <3>5. ASSUME NEW i \in S, i # c
          PROVE \E j \in 1..(n - 1) : rest[j] = i /\ StepsTo(n, c, dir, i) = j
      <4>1. PICK m \in 1..n : PathItem(n, c, dir, m) = i
        BY <1>6, <1>7, <3>3, <3>5, PathMeets
      <4>2. PathItem(n, c, dir, 1) = c
        BY <1>6, <3>3 DEF PathItem
      <4>3. m \in 2..n /\ m - 1 \in 1..(n - 1) /\ (m - 1) + 1 = m
        BY <1>6, <3>5, <4>1, <4>2
      <4>4. StepsTo(n, c, dir, i) = m - 1
        BY <1>6, <3>3, <4>1, <4>3, StepsAre
      <4>5. rest[m - 1] = i
        BY <1>8, <2>2, <4>1, <4>3 DEF PathIs
      <4> QED BY <4>3, <4>4, <4>5
    <3>6. CASE k > 0
      <4>1. k \in 1..(n - 1) /\ rest[k] \in S /\ \A j \in 1..(n - 1) : j < k => rest[j] \notin S
        BY <2>3, <2>4, <3>6 DEF FirstIs
      <4>2. to = rest[k]
        BY <3>6
      <4> HIDE DEF to
      <4>3. StepsTo(n, c, dir, to) = k
        <5>1. to = PathItem(n, c, dir, k + 1) /\ k + 1 \in 2..n /\ (k + 1) - 1 = k
          BY <1>6, <1>8, <2>2, <4>1, <4>2 DEF PathIs
        <5> QED BY <1>6, <3>3, <5>1, StepsAre
      <4>4. ASSUME NEW i \in S PROVE k <= StepsTo(n, c, dir, i)
        <5>1. CASE i = c
          BY <1>6, <3>4, <4>1, <5>1
        <5>2. CASE i # c
          <6>1. PICK j \in 1..(n - 1) : rest[j] = i /\ StepsTo(n, c, dir, i) = j
            BY <3>5, <4>4, <5>2
          <6> QED BY <1>6, <4>1, <4>4, <6>1
        <5> QED BY <5>1, <5>2
      <4> QED BY <4>1, <4>2, <4>3, <4>4
    <3>7. CASE ~(k > 0)
      <4>1. to = c
        <5>1. 1 \in 1..n /\ PathItem(n, c, dir, 1) = c
          BY <1>6, <3>3 DEF PathItem
        <5> QED BY <1>8, <3>7, <5>1 DEF PathIs
      <4> HIDE DEF to
      <4>2. ASSUME NEW i \in S PROVE i = c
        <5>1. k = 0
          BY <2>3, <2>4, <3>7 DEF FirstIs
        <5>2. \A j \in 1..(n - 1) : rest[j] \notin S
          BY <2>4, <5>1 DEF FirstIs
        <5> QED BY <3>5, <4>2, <5>2
      <4>3. \A i \in S : StepsTo(n, c, dir, to) <= StepsTo(n, c, dir, i)
        BY <1>6, <3>4, <4>1, <4>2
      <4> QED BY <3>2, <4>1, <4>3
    <3> QED BY <3>6, <3>7
  <2> HIDE DEF to
  <2>7. to \in Int
    BY <2>5
  <2>8. PaneMoved(w, u, to, w.base)
    BY <1>3, <2>1, <2>7, PaneMoves
  <2>9. e \in Int
    BY <2>8, CursorIterIs DEF PaneMoved
  <2> HIDE DEF e
  <2>10. PaneMoved(u, d, to, e)
    BY <2>8, <2>9, PaneMoves DEF PaneMoved
  <2> HIDE DEF d
  <2>11. PaneMoved(v, d, d.cursor, d.base) /\ d.cursor = to
    BY <1>3, <2>8, <2>10 DEF PaneMoved
  <2> QED BY <1>1, <1>4, <1>9, <2>6, <2>7, <2>11 DEF NearestTo, n, S
<1> QED BY <1>10, <1>11

--------------------
(* The state a handler works on, and what each step leaves of it. *)
MiniIs(m) ==
    m \in [mode : {m.mode}, text : {m.text}, error : BOOLEAN, temp : BOOLEAN, idles : Nat,
           recall : {m.recall}, fresh : BOOLEAN]
StateIs(s) ==
    /\ s \in [mini : {s.mini}, pane : {s.pane}, disk : {s.disk}]
    /\ MiniIs(s.mini) /\ PaneIs(s.pane)

PanePut(s, w, r) == StateIs(r) /\ r.pane = w /\ r.mini = s.mini /\ r.disk = s.disk
MiniPut(s, m, r) == StateIs(r) /\ r.mini = m /\ r.pane = s.pane /\ r.disk = s.disk

LEMMA StatePuts ==
    ASSUME NEW s, StateIs(s)
    PROVE  /\ \A w : PaneIs(w) => PanePut(s, w, [s EXCEPT !.pane = w])
           /\ \A m : MiniIs(m) => MiniPut(s, m, [s EXCEPT !.mini = m])
<1>1. s \in [mini : {s.mini}, pane : {s.pane}, disk : {s.disk}] /\ MiniIs(s.mini) /\ PaneIs(s.pane)
  BY DEF StateIs
<1>2. ASSUME NEW w, PaneIs(w) PROVE PanePut(s, w, [s EXCEPT !.pane = w])
  <2> DEFINE r == [s EXCEPT !.pane = w]
  <2>1. r \in [mini : {r.mini}, pane : {r.pane}, disk : {r.disk}] /\ r.pane = w /\ r.mini = s.mini /\ r.disk = s.disk
    BY <1>1
  <2> HIDE DEF r
  <2>2. StateIs(r)
    BY <1>1, <1>2, <2>1 DEF StateIs
  <2> QED BY <2>1, <2>2 DEF PanePut, r
<1>3. ASSUME NEW m, MiniIs(m) PROVE MiniPut(s, m, [s EXCEPT !.mini = m])
  <2> DEFINE r == [s EXCEPT !.mini = m]
  <2>1. r \in [mini : {r.mini}, pane : {r.pane}, disk : {r.disk}] /\ r.mini = m /\ r.pane = s.pane /\ r.disk = s.disk
    BY <1>1
  <2> HIDE DEF r
  <2>2. StateIs(r)
    BY <1>1, <1>3, <2>1 DEF StateIs
  <2> QED BY <2>1, <2>2 DEF MiniPut, r
<1> QED BY <1>2, <1>3

(* What is displayed depends on this much of the state. *)
LEMMA DisplayedAs ==
    ASSUME NEW s, NEW t, s.disk = t.disk, s.mini.temp = t.mini.temp, s.pane.filter = t.pane.filter,
           s.pane.place = t.pane.place
    PROVE  Displayed(s) = Displayed(t)
BY DEF Displayed, InPane

LEMMA DisplayedIs ==
    ASSUME NEW s
    PROVE  /\ Displayed(s) \in Seq(MiniName)
           /\ ToSet(Displayed(s)) = {n \in ToSet(NameOrder) : InPane(s, n)}
<1> DEFINE S == {n \in ToSet(NameOrder) : InPane(s, n)}
<1>1. Displayed(s) = ViewOrder(S) /\ S \cap ToSet(NameOrder) = S
  BY DEF Displayed
<1> HIDE DEF S
<1>2. ViewOrder(S) \in Seq(MiniName) /\ ToSet(ViewOrder(S)) = S \cap ToSet(NameOrder)
  BY ViewOrderIs
<1> QED BY <1>1, <1>2 DEF S

--------------------
(* The end of a scan, and the view cleared and filled again. *)
PaneEnded(v, d) ==
    /\ PaneIs(d) /\ d.items = v.items /\ d.place = v.place /\ d.sel = v.sel /\ d.filter = v.filter
    /\ d.scanning = FALSE

LEMMA EndOfScanIs ==
    ASSUME NEW v, PaneIs(v)
    PROVE  PaneEnded(v, EndOfScan(v))
<1> DEFINE off == FALSE
           back == v.had /\ v.cursor = -1
           had == v.had /\ ~back
           c == IF back THEN 0 ELSE v.cursor
           u == [v EXCEPT !.scanning = off, !.cursor = c, !.had = had]
           path == [k \in 1..Count(v) |-> v.items[k]]
           i == FirstOf(path, {v.select}) - 1
           e == IF u.cursor = -1 THEN -1 ELSE i
<1>1. EndOfScan(v) = IF i >= 0 THEN [u EXCEPT !.select = << >>, !.cursor = e] ELSE [u EXCEPT !.select = << >>]
  BY DEF EndOfScan
<1>2. off \in BOOLEAN /\ off = FALSE
  OBVIOUS
<1>3. c \in Int
  BY PaneHas
<1>4. i \in Int
  <2>1. Count(v) \in Nat
    BY PaneHas
  <2>2. Len(path) = Count(v)
    <3> DEFINE n == Count(v)
    <3>1. path = [k \in 1..n |-> v.items[k]] /\ n \in Nat
      BY <2>1
    <3> HIDE DEF n
    <3> QED BY <3>1 DEF n
  <2> HIDE DEF path
  <2>3. FirstIs(path, Count(v), {v.select}, FirstOf(path, {v.select}))
    BY <2>1, <2>2, FirstFound
  <2> QED BY <2>1, <2>3 DEF FirstIs
<1> HIDE DEF c, had, off, i
<1>5. PaneIs(u) /\ u.items = v.items /\ u.place = v.place /\ u.sel = v.sel /\ u.filter = v.filter /\ u.scanning = FALSE
  BY <1>2, <1>3 DEF PaneIs
<1> HIDE DEF u
<1>6. e \in Int
  BY <1>4
<1> HIDE DEF e
<1>7. PaneEnded(v, [u EXCEPT !.select = << >>, !.cursor = e])
  BY <1>5, <1>6 DEF PaneIs, PaneEnded
<1>8. PaneEnded(v, [u EXCEPT !.select = << >>])
  BY <1>5 DEF PaneIs, PaneEnded
<1> QED BY <1>1, <1>7, <1>8

(* The view is as it should be after r. *)
AllShown(r) == ToSet(r.pane.items) = ToSet(Displayed(r))
Refilled(s, r) ==
    /\ StateIs(r) /\ r.mini = s.mini /\ r.disk = s.disk /\ AllShown(r)
    /\ r.pane.place = s.pane.place /\ r.pane.filter = s.pane.filter /\ r.pane.scanning = FALSE

LEMMA RefilledBy ==
    ASSUME NEW s, StateIs(s), NEW w, PaneIs(w), w.items = Displayed(s), w.place = s.pane.place,
           w.filter = s.pane.filter
    PROVE  Refilled(s, [s EXCEPT !.pane = EndOfScan(w)])
<1> DEFINE e == EndOfScan(w)
           r == [s EXCEPT !.pane = e]
<1>1. PaneEnded(w, e)
  BY EndOfScanIs
<1> HIDE DEF e
<1>2. PanePut(s, e, r)
  BY <1>1, StatePuts DEF PaneEnded
<1> HIDE DEF r
<1>3. Displayed(r) = Displayed(s)
  BY <1>1, <1>2, DisplayedAs DEF PanePut, PaneEnded
<1>4. Refilled(s, r)
  BY <1>1, <1>2, <1>3 DEF PanePut, PaneEnded, Refilled, AllShown
<1> QED BY <1>4 DEF r, e

LEMMA UpdateHiddenIs ==
    ASSUME NEW s, StateIs(s)
    PROVE  Refilled(s, UpdateHidden(s))
<1> DEFINE v == s.pane
           d == Displayed(s)
           c == IF Count(v) = 0 THEN v.cursor ELSE -1
           x == [s.pane EXCEPT !.items = Displayed(s), !.sel = {}, !.cursor = IF Count(s.pane) = 0 THEN @ ELSE -1]
           w == [v EXCEPT !.items = d, !.sel = {}, !.cursor = c]
<1>1. UpdateHidden(s) = [s EXCEPT !.pane = EndOfScan(x)]
  BY DEF UpdateHidden
<1>6. x = w
  OBVIOUS
<1> HIDE DEF x
<1>2. PaneIs(v)
  BY DEF StateIs
<1>3. d \in Seq(MiniName)
  BY DisplayedIs
<1> HIDE DEF v
<1>4. c \in Int
  BY <1>2, PaneHas
<1> HIDE DEF c, d
<1>5. PaneIs(w) /\ w.items = d /\ w.place = v.place /\ w.filter = v.filter
  BY <1>2, <1>3, <1>4 DEF PaneIs
<1> HIDE DEF w
<1> QED BY <1>1, <1>5, <1>6, RefilledBy DEF v, d
--------------------
(* The invariant of the minibuffer. *)
PathText == [place : Place \cup {Nowhere}, leaf : Seq(Letter)]
TextIs(s) == s.mini.mode = "path" => s.mini.text \in PathText
AskedIs(s) == s.mini.temp => s.mini.mode # "none"
ShownIs(s) == s.mini.temp /\ ~s.pane.scanning => AllShown(s)
Dotted(leaf) == leaf # << >> /\ leaf[1] = "."
RedRight(s) ==
    s.mini.mode = "path" /\ s.mini.text # Blank =>
      /\ s.mini.idles = 0 /\ ~s.mini.error => s.mini.text.place = s.pane.place
      /\ s.mini.fresh /\ s.mini.text.place = s.pane.place =>
           /\ s.mini.error <=> MatchesIn(s.pane, s.mini.text.leaf) = {}
           /\ ~s.mini.error => s.pane.cursor \in MatchesIn(s.pane, s.mini.text.leaf)
           /\ Dotted(s.mini.text.leaf) => s.mini.temp
ChosenRight(s) ==
    s.mini.mode = "name" /\ s.mini.fresh =>
      /\ s.pane.sel = Globs[s.mini.text] \cap ToSet(s.pane.items)
      /\ s.pane.sel # {} => OnItem(s.pane, s.pane.cursor) /\ NameAt(s.pane, s.pane.cursor) \in s.pane.sel
MiniGood(s) == StateIs(s) /\ TextIs(s) /\ AskedIs(s) /\ ShownIs(s) /\ RedRight(s) /\ ChosenRight(s)

(* Another view of the same files is as right. *)
LEMMA ShownAs ==
    ASSUME NEW s, NEW r, ShownIs(s), s.disk = r.disk, s.mini.temp = r.mini.temp, s.pane.filter = r.pane.filter,
           s.pane.place = r.pane.place, s.pane.items = r.pane.items, s.pane.scanning = r.pane.scanning
    PROVE  ShownIs(r)
<1>1. Displayed(s) = Displayed(r)
  BY DisplayedAs
<1> QED BY <1>1 DEF ShownIs, AllShown

--------------------
(* filer_change_to *)
Led(s, p, r) ==
    /\ StateIs(r) /\ ShownIs(r) /\ r.pane.place = p
    /\ r.mini.mode = s.mini.mode /\ r.mini.text = s.mini.text /\ r.mini.error = s.mini.error
    /\ r.mini.temp = s.mini.temp /\ ~r.mini.fresh
    /\ r.mini.idles = IF s.mini.mode = "path" THEN s.mini.idles + 1 ELSE s.mini.idles

LEMMA ChangeToIs ==
    ASSUME NEW s, StateIs(s), NEW p \in Place, NEW leaf, NEW known \in BOOLEAN
    PROVE  Led(s, p, ChangeTo(s, p, leaf, known))
<1> DEFINE k == IF s.mini.mode = "path" THEN s.mini.idles + 1 ELSE s.mini.idles
           off == FALSE
           on == TRUE
           none == -1
           had == s.pane.had \/ s.pane.cursor # -1
           m == [s.mini EXCEPT !.idles = k, !.fresh = off]
           w == [s.pane EXCEPT !.place = p, !.select = leaf, !.had = had, !.cursor = none, !.sel = {},
                               !.items = << >>, !.scanning = on]
           t == [s EXCEPT !.disk = Contents[p],
                          !.mini.idles = IF s.mini.mode = "path" THEN @ + 1 ELSE @,
                          !.mini.fresh = FALSE,
                          !.pane = [@ EXCEPT !.place = p, !.select = leaf, !.had = s.pane.had \/ s.pane.cursor # -1,
                                             !.cursor = -1, !.sel = {}, !.items = << >>, !.scanning = TRUE]]
           e == [t.pane EXCEPT !.items = Displayed(t)]
<1>1. ChangeTo(s, p, leaf, known) = IF known THEN [t EXCEPT !.pane = EndOfScan(e)] ELSE t
  BY DEF ChangeTo
<1>2. MiniIs(s.mini) /\ PaneIs(s.pane) /\ s \in [mini : {s.mini}, pane : {s.pane}, disk : {s.disk}]
  BY DEF StateIs
<1>3. t.mini = m /\ t.pane = w /\ t.disk = Contents[p]
  BY <1>2
<1>4. t \in [mini : {t.mini}, pane : {t.pane}, disk : {t.disk}]
  BY <1>2
<1> HIDE DEF t
<1>5. k \in Nat /\ off \in BOOLEAN /\ ~off /\ on \in BOOLEAN /\ on /\ none \in Int
  BY <1>2 DEF MiniIs
<1>6. << >> \in Seq(MiniName)
  OBVIOUS
<1> HIDE DEF k, off, on, none, had
<1>7. MiniIs(m) /\ m.mode = s.mini.mode /\ m.text = s.mini.text /\ m.error = s.mini.error /\ m.temp = s.mini.temp
      /\ m.fresh = off /\ m.idles = k
  BY <1>2, <1>5 DEF MiniIs
<1>8. PaneIs(w) /\ w.place = p /\ w.scanning = on /\ w.filter = s.pane.filter
  BY <1>2, <1>5, <1>6 DEF PaneIs
<1> HIDE DEF m, w
<1>9. StateIs(t)
  BY <1>3, <1>4, <1>7, <1>8 DEF StateIs
<1>10. CASE known
  <2> DEFINE d == Displayed(t)
             r == [t EXCEPT !.pane = EndOfScan(e)]
  <2>1. d \in Seq(MiniName)
    BY DisplayedIs
  <2> HIDE DEF d
  <2>2. PaneIs(e) /\ e.items = d /\ e.place = t.pane.place /\ e.filter = t.pane.filter
    BY <1>3, <1>8, <2>1 DEF PaneIs, d
  <2> HIDE DEF e
  <2>3. Refilled(t, r)
    BY <1>9, <2>2, RefilledBy DEF d
  <2> HIDE DEF r
  <2>4. Led(s, p, r)
    BY <1>3, <1>5, <1>7, <1>8, <2>3 DEF Refilled, Led, ShownIs, k
  <2> QED BY <1>1, <1>10, <2>4 DEF r
<1>11. CASE ~known
  <2>1. Led(s, p, t)
    BY <1>3, <1>5, <1>7, <1>8, <1>9 DEF Led, ShownIs, k
  <2> QED BY <1>1, <1>11, <2>1
<1> QED BY <1>10, <1>11

--------------------
(* path_changed *)
TypedIn(s, text, u) ==
    /\ StateIs(u) /\ ShownIs(u) /\ u.pane.place = s.pane.place
    /\ u.mini.mode = "path" /\ u.mini.text = text /\ u.mini.error = FALSE /\ u.mini.fresh = TRUE
    /\ u.mini.idles = s.mini.idles

LEMMA TypedInIs ==
    ASSUME NEW s, MiniGood(s), s.mini.mode = "path", NEW text
    PROVE  TypedIn(s, text, [s EXCEPT !.mini = [@ EXCEPT !.text = text, !.error = FALSE, !.fresh = TRUE]])
<1> DEFINE off == FALSE
           on == TRUE
           m == [s.mini EXCEPT !.text = text, !.error = off, !.fresh = on]
           t == [s EXCEPT !.mini = m]
<1>1. MiniIs(s.mini) /\ StateIs(s) /\ ShownIs(s)
  BY DEF StateIs, MiniGood
<1>2. off \in BOOLEAN /\ off = FALSE /\ on \in BOOLEAN /\ on = TRUE
  OBVIOUS
<1> HIDE DEF off, on
<1>3. MiniIs(m) /\ m.mode = "path" /\ m.text = text /\ m.error = off /\ m.fresh = on /\ m.idles = s.mini.idles
      /\ m.temp = s.mini.temp
  BY <1>1 , <1>2 DEF MiniIs
<1> HIDE DEF m
<1>4. MiniPut(s, m, t)
  BY <1>1, <1>3, StatePuts
<1> HIDE DEF t
<1>5. ShownIs(t)
  BY <1>1, <1>3, <1>4, ShownAs DEF MiniPut
<1>6. TypedIn(s, text, t)
  BY <1>2, <1>3, <1>4, <1>5 DEF MiniPut, TypedIn
<1> QED BY <1>6 DEF t, m, off, on

LEMMA TypedDot ==
    ASSUME NEW s, NEW text, NEW t, TypedIn(s, text, t)
    PROVE  TypedIn(s, text, UpdateHidden([t EXCEPT !.mini.temp = TRUE]))
           /\ UpdateHidden([t EXCEPT !.mini.temp = TRUE]).mini.temp
<1> DEFINE on == TRUE
           m == [t.mini EXCEPT !.temp = on]
           a == [t EXCEPT !.mini = m]
           u == UpdateHidden(a)
<1>1. StateIs(t) /\ MiniIs(t.mini) /\ t \in [mini : {t.mini}, pane : {t.pane}, disk : {t.disk}]
  BY DEF TypedIn, StateIs
<1>2. [t EXCEPT !.mini.temp = TRUE] = a
  BY <1>1
<1>3. on \in BOOLEAN /\ on
  OBVIOUS
<1> HIDE DEF on
<1>4. MiniIs(m) /\ m.mode = t.mini.mode /\ m.text = t.mini.text /\ m.error = t.mini.error /\ m.fresh = t.mini.fresh
      /\ m.idles = t.mini.idles /\ m.temp
  BY <1>1, <1>3 DEF MiniIs
<1> HIDE DEF m
<1>5. MiniPut(t, m, a)
  BY <1>1, <1>4, StatePuts
<1> HIDE DEF a
<1>6. Refilled(a, u)
  BY <1>5, UpdateHiddenIs DEF MiniPut
<1> HIDE DEF u
<1>7. TypedIn(s, text, u) /\ u.mini.temp
  BY <1>4, <1>5, <1>6 DEF TypedIn, MiniPut, Refilled, ShownIs
<1> QED BY <1>2, <1>7 DEF u

(* What is asked of the result. *)
PathTo(s, text, r) ==
    /\ MiniGood(r) /\ r.mini.mode = "path" /\ r.mini.text = text /\ r.mini.idles >= s.mini.idles
    /\ text.place \in Place \ {s.pane.place} => r.mini.idles = s.mini.idles + 1

LEMMA MatchesItself ==
    ASSUME NEW leaf \in Seq(Letter)
    PROVE  Matches(leaf, leaf)
<1>1. Len(leaf) \in Nat
  BY LenProperties
<1> QED BY <1>1 DEF Matches

LEMMA FoundGood ==
    ASSUME NEW s, NEW text \in PathText, NEW u, TypedIn(s, text, u), text.place = s.pane.place,
           Dotted(text.leaf) => u.mini.temp, s.mini.idles \in Nat,
           NEW r, StateIs(r), r.disk = u.disk, PaneMoved(u.pane, r.pane, r.pane.cursor, r.pane.base),
           r.mini.mode = "path", r.mini.text = text, r.mini.idles = s.mini.idles, r.mini.temp = u.mini.temp,
           r.mini.error <=> MatchesIn(u.pane, text.leaf) = {},
           ~r.mini.error => r.pane.cursor \in MatchesIn(u.pane, text.leaf)
    PROVE  PathTo(s, text, r)
<1>1. ShownIs(u) /\ u.pane.place = s.pane.place
  BY DEF TypedIn
<1>2. ShownIs(r)
  BY <1>1, ShownAs DEF PaneMoved
<1>3. MatchesIn(r.pane, text.leaf) = MatchesIn(u.pane, text.leaf)
  BY DEF PaneMoved, MatchesIn, Count, NameAt
<1>4. r.pane.place = text.place
  BY <1>1 DEF PaneMoved
<1>5. RedRight(r)
  BY <1>3, <1>4 DEF RedRight
<1>6. TextIs(r) /\ AskedIs(r) /\ ChosenRight(r)
  BY DEF TextIs, AskedIs, ChosenRight
<1>7. MiniGood(r)
  BY <1>2, <1>5, <1>6 DEF MiniGood
<1> QED BY <1>7 DEF PathTo
MissIs(u, leaf, next, r) ==
    /\ StateIs(r) /\ r.disk = u.disk /\ r.pane = next.view /\ r.mini = [u.mini EXCEPT !.error = ~next.found]
    /\ PaneMoved(u.pane, next.view, next.view.cursor, next.view.base)
    /\ next.found <=> MatchesIn(u.pane, leaf) # {}
    /\ next.found => next.view.cursor \in MatchesIn(u.pane, leaf)

LEMMA TypedMiss ==
    ASSUME NEW u, StateIs(u), NEW leaf, NEW next, next = FindNext(u.pane, leaf, 0)
    PROVE  MissIs(u, leaf, next, [u EXCEPT !.pane = next.view, !.mini.error = ~next.found])
<1> DEFINE v == u.pane
           wrong == ~next.found
           m == [u.mini EXCEPT !.error = wrong]
           r == [u EXCEPT !.pane = next.view, !.mini.error = wrong]
<1>1. StateIs(u) /\ MiniIs(u.mini) /\ PaneIs(v) /\ u \in [mini : {u.mini}, pane : {u.pane}, disk : {u.disk}]
  BY DEF StateIs
<1> HIDE DEF v
<1>2. NextTo(v, leaf, next)
  BY <1>1, FindNextIs DEF v
<1>3. PaneMoved(v, next.view, next.view.cursor, next.view.base)
  <2>1. CASE next.view = v
    BY <1>1, <2>1, PaneHas DEF PaneMoved
  <2>2. CASE \E i \in Int : next.view = CursorTo(v, i)
    <3>1. PICK i \in Int : next.view = CursorTo(v, i)
      BY <2>2
    <3>2. PaneMoved(v, next.view, i, v.base)
      BY <1>1, <3>1, PaneMoves
    <3> QED BY <3>2 DEF PaneMoved
  <2> QED BY <1>2, <2>1, <2>2 DEF NextTo
<1>4. next.found => next.view.cursor \in MatchesIn(v, leaf)
  <2>1. ASSUME next.found PROVE next.view.cursor \in MatchesIn(v, leaf)
    <3>1. PICK i \in MatchesIn(v, leaf) : next.view = CursorTo(v, i)
      BY <1>2, <2>1 DEF NextTo
    <3>2. i \in 0..(Count(v) - 1)
      BY <3>1 DEF MatchesIn
    <3>3. i \in Int
      BY <1>1, <3>2, PaneHas
    <3>4. PaneMoved(v, next.view, i, v.base)
      BY <1>1, <3>1, <3>3, PaneMoves
    <3> QED BY <3>1, <3>4 DEF PaneMoved
  <2> QED BY <2>1
<1>5. wrong \in BOOLEAN
  OBVIOUS
<1> HIDE DEF wrong
<1>6. MiniIs(m)
  BY <1>1, <1>5 DEF MiniIs
<1>7. r.disk = u.disk /\ r.pane = next.view /\ r.mini = m /\ r \in [mini : {r.mini}, pane : {r.pane}, disk : {r.disk}]
  BY <1>1
<1> HIDE DEF r, m
<1>8. StateIs(r)
  BY <1>3, <1>6, <1>7 DEF StateIs, PaneMoved
<1>9. next.found <=> MatchesIn(v, leaf) # {}
  BY <1>2 DEF NextTo
<1> QED BY <1>3, <1>4, <1>7, <1>8, <1>9 DEF r, m, wrong, v, MissIs

LEMMA PathChangedIs ==
    ASSUME NEW s, MiniGood(s), s.mini.mode = "path", NEW text \in PathText, NEW known \in BOOLEAN
    PROVE  PathTo(s, text, PathChanged(s, text, known))
<1> DEFINE t == [s EXCEPT !.mini = [@ EXCEPT !.text = text, !.error = FALSE, !.fresh = TRUE]]
           dot == text.leaf # << >> /\ text.leaf[1] = "."
           dotted == UpdateHidden([t EXCEPT !.mini.temp = TRUE])
           u == IF dot /\ ~s.mini.temp THEN dotted ELSE t
           exact == FindExact(u.pane, text.leaf)
           next == FindNext(u.pane, text.leaf, 0)
           wrong == [t EXCEPT !.mini.error = TRUE]
           led == ChangeTo(t, text.place, text.leaf, known)
           hit == [u EXCEPT !.pane = CursorTo(@, exact - 1)]
           miss == [u EXCEPT !.pane = next.view, !.mini.error = ~next.found]
           r == PathChanged(s, text, known)
<1>1. r = IF text = Blank THEN t
          ELSE IF text.place = Nowhere THEN wrong
          ELSE IF text.place # s.pane.place THEN led
          ELSE IF exact > 0 THEN hit ELSE miss
  BY DEF PathChanged
<1>2. StateIs(s) /\ MiniIs(s.mini) /\ PaneIs(s.pane) /\ s.pane.place \in Place /\ s.mini.idles \in Nat
      /\ s.mini.temp \in BOOLEAN /\ ShownIs(s)
  <2>1. StateIs(s) /\ ShownIs(s)
    BY DEF MiniGood
  <2>2. MiniIs(s.mini) /\ PaneIs(s.pane)
    BY <2>1 DEF StateIs
  <2> QED BY <2>1, <2>2, PaneHas DEF MiniIs
<1>3. TypedIn(s, text, t) /\ t.mini.temp = s.mini.temp
  <2>1. TypedIn(s, text, t)
    BY TypedInIs
  <2>2. t.mini.temp = s.mini.temp
    BY <1>2 DEF StateIs, MiniIs
  <2> QED BY <2>1, <2>2
<1> HIDE DEF t
<1>4. text.place \in Place \cup {Nowhere} /\ text.leaf \in Seq(Letter) /\ Nowhere \notin Place
  BY MiniAssumption DEF PathText
<1>5. CASE text = Blank
  <2>1. r = t
    BY <1>1, <1>5
  <2>2. TextIs(t) /\ AskedIs(t) /\ RedRight(t) /\ ChosenRight(t)
    BY <1>3, <1>5 DEF TypedIn, TextIs, AskedIs, RedRight, ChosenRight
  <2>3. MiniGood(t) /\ text.place = Nowhere
    BY <1>3, <1>5, <2>2 DEF TypedIn, MiniGood, Blank
  <2> QED BY <1>2, <1>3, <1>4, <2>1, <2>3 DEF TypedIn, PathTo
<1>6. CASE text # Blank /\ text.place = Nowhere
  <2>1. r = wrong
    BY <1>1, <1>6
  <2> DEFINE on == TRUE
             m == [t.mini EXCEPT !.error = on]
             w == [t EXCEPT !.mini = m]
  <2>2. StateIs(t) /\ MiniIs(t.mini) /\ t \in [mini : {t.mini}, pane : {t.pane}, disk : {t.disk}] /\ ShownIs(t)
    BY <1>3 DEF TypedIn, StateIs
  <2>3. wrong = w
    BY <2>2
  <2>4. on \in BOOLEAN /\ on
    OBVIOUS
  <2> HIDE DEF on, wrong
  <2>5. MiniIs(m) /\ m.mode = t.mini.mode /\ m.text = t.mini.text /\ m.error /\ m.idles = t.mini.idles
        /\ m.temp = t.mini.temp
    BY <2>2, <2>4 DEF MiniIs
  <2> HIDE DEF m
  <2>6. MiniPut(t, m, w)
    BY <2>2, <2>5, StatePuts
  <2> HIDE DEF w
  <2>7. ShownIs(w)
    BY <2>2, <2>5, <2>6, ShownAs DEF MiniPut
  <2>8. w.mini.text = text /\ w.mini.error /\ w.pane.place = s.pane.place /\ w.mini.mode = "path"
        /\ w.mini.idles = s.mini.idles /\ StateIs(w)
    BY <1>3, <2>5, <2>6 DEF TypedIn, MiniPut
  <2>9. RedRight(w)
    BY <1>2, <1>4, <1>6, <2>8 DEF RedRight
  <2>10. TextIs(w) /\ AskedIs(w) /\ ChosenRight(w)
    BY <2>8 DEF TextIs, AskedIs, ChosenRight
  <2>11. MiniGood(w)
    BY <2>7, <2>8, <2>9, <2>10 DEF MiniGood
  <2> QED BY <1>2, <1>4, <1>6, <2>1, <2>3, <2>8, <2>11 DEF PathTo
<1>7. CASE text # Blank /\ text.place # Nowhere /\ text.place # s.pane.place
  <2>1. r = led
    BY <1>1, <1>7
  <2>2. Led(t, text.place, led)
    BY <1>3, <1>4, <1>7, ChangeToIs DEF TypedIn
  <2> HIDE DEF led
  <2>3. led.mini.mode = "path" /\ led.mini.text = text /\ led.mini.idles = s.mini.idles + 1 /\ ~led.mini.fresh
        /\ StateIs(led) /\ ShownIs(led)
    BY <1>3, <2>2 DEF Led, TypedIn
  <2>4. TextIs(led) /\ AskedIs(led) /\ ChosenRight(led)
    BY <2>3 DEF TextIs, AskedIs, ChosenRight
  <2>5. RedRight(led)
    BY <1>2, <2>3 DEF RedRight
  <2>6. MiniGood(led)
    BY <2>3, <2>4, <2>5 DEF MiniGood
  <2> QED BY <1>2, <2>1, <2>3, <2>6 DEF PathTo
<1>8. CASE text # Blank /\ text.place # Nowhere /\ text.place = s.pane.place
  <2>1. TypedIn(s, text, u) /\ (Dotted(text.leaf) => u.mini.temp)
    <3>1. TypedIn(s, text, dotted) /\ dotted.mini.temp
      BY <1>3, TypedDot
    <3> HIDE DEF dotted
    <3>2. CASE dot /\ ~s.mini.temp
      BY <3>1, <3>2
    <3>3. CASE ~(dot /\ ~s.mini.temp)
      <4>1. u = t
        BY <3>3
      <4>2. Dotted(text.leaf) => s.mini.temp
        BY <3>3 DEF Dotted
      <4> HIDE DEF u
      <4> QED BY <1>3, <4>1, <4>2
    <3> QED BY <3>2, <3>3
  <2> HIDE DEF u
  <2>2. StateIs(u) /\ PaneIs(u.pane) /\ MiniIs(u.mini)
    BY <2>1 DEF TypedIn, StateIs
  <2>3. ExactTo(u.pane, text.leaf, exact)
    BY <2>2, FindExactIs
  <2> HIDE DEF exact
  <2>4. CASE exact > 0
    <3>1. r = hit
      BY <1>1, <1>8, <2>4
    <3> DEFINE i == exact - 1
               w == CursorTo(u.pane, i)
    <3>2. i \in 0..(Count(u.pane) - 1) /\ NameAt(u.pane, i) = text.leaf
      BY <2>3, <2>4 DEF ExactTo
    <3> HIDE DEF i
    <3>3. i \in MatchesIn(u.pane, text.leaf) /\ i \in Int
      BY <1>4, <2>2, <3>2, MatchesItself, PaneHas DEF MatchesIn
    <3>4. PaneMoved(u.pane, w, i, u.pane.base)
      BY <2>2, <3>3, PaneMoves
    <3> HIDE DEF w
    <3> DEFINE h == [u EXCEPT !.pane = w]
    <3>5. PanePut(u, w, h)
      BY <2>2, <3>4, StatePuts DEF PaneMoved
    <3> HIDE DEF h
    <3>6. StateIs(h) /\ h.disk = u.disk /\ PaneMoved(u.pane, h.pane, h.pane.cursor, h.pane.base) /\ h.pane.cursor = i
          /\ h.mini = u.mini
      BY <3>4, <3>5 DEF PanePut, PaneMoved
    <3>7. h.mini.mode = "path" /\ h.mini.text = text /\ h.mini.idles = s.mini.idles /\ ~h.mini.error
      BY <2>1, <3>6 DEF TypedIn
    <3>8. (h.mini.error <=> MatchesIn(u.pane, text.leaf) = {}) /\ h.pane.cursor \in MatchesIn(u.pane, text.leaf)
      BY <3>3, <3>6, <3>7
    <3>9. PathTo(s, text, h)
      BY <1>2, <1>8, <2>1, <3>6, <3>7, <3>8, FoundGood
    <3> QED BY <3>1, <3>9 DEF h, w, i
  <2>5. CASE ~(exact > 0)
    <3>1. r = miss
      BY <1>1, <1>8, <2>5
    <3> DEFINE found == next.found
               wrong1 == ~found
               m == [u.mini EXCEPT !.error = wrong1]
    <3>11. MissIs(u, text.leaf, next, miss)
      BY <2>2, TypedMiss
    <3> HIDE DEF miss, next
    <3>2. /\ StateIs(miss) /\ miss.disk = u.disk /\ miss.pane = next.view /\ miss.mini = m
          /\ PaneMoved(u.pane, next.view, next.view.cursor, next.view.base)
          /\ found <=> MatchesIn(u.pane, text.leaf) # {}
          /\ found => next.view.cursor \in MatchesIn(u.pane, text.leaf)
      BY <3>11 DEF MissIs
    <3>3. wrong1 \in BOOLEAN /\ (wrong1 <=> MatchesIn(u.pane, text.leaf) = {})
      BY <3>2
    <3>4. ~wrong1 => next.view.cursor \in MatchesIn(u.pane, text.leaf)
      BY <3>2
    <3> HIDE DEF wrong1
    <3>5. m.mode = u.mini.mode /\ m.text = u.mini.text /\ m.idles = u.mini.idles /\ m.temp = u.mini.temp
          /\ m.error = wrong1
      BY <2>2, <3>3 DEF MiniIs
    <3> HIDE DEF m
    <3>6. miss.mini.mode = "path" /\ miss.mini.text = text /\ miss.mini.idles = s.mini.idles
          /\ miss.mini.temp = u.mini.temp /\ miss.mini.error = wrong1
      BY <2>1, <3>2, <3>5 DEF TypedIn
    <3>7. PaneMoved(u.pane, miss.pane, miss.pane.cursor, miss.pane.base)
      BY <3>2
    <3>8. ~miss.mini.error => miss.pane.cursor \in MatchesIn(u.pane, text.leaf)
      BY <3>2, <3>4, <3>6
    <3>10. miss.mini.error <=> MatchesIn(u.pane, text.leaf) = {}
      BY <3>3, <3>6
    <3>9. PathTo(s, text, miss)
      BY <1>2, <1>8, <2>1, <3>2, <3>6, <3>7, <3>8, <3>10, FoundGood
    <3> QED BY <3>1, <3>9
  <2> QED BY <2>4, <2>5
<1> QED BY <1>5, <1>6, <1>7, <1>8
--------------------
(* Tab: how far two names agree. *)
LEMMA PrefixIs ==
    ASSUME NEW a \in Seq(Letter), NEW k \in 0..Len(a)
    PROVE  SubSeq(a, 1, k) \in Seq(Letter) /\ Len(SubSeq(a, 1, k)) = k /\ \A j \in 1..k : SubSeq(a, 1, k)[j] = a[j]
<1>1. Len(a) \in Nat /\ \A j \in 1..Len(a) : a[j] \in Letter
  OBVIOUS
<1>2. \A j \in 1..k : a[j] \in Letter
  BY <1>1
<1> QED BY <1>1, <1>2, SubSeqProperties

StemTo(a, b, k) ==
    /\ k \in 0..Len(a) /\ Matches(b, SubSeq(a, 1, k))
    /\ k = Len(a) \/ k = Len(b) \/ Fold[a[k + 1]] # Fold[b[k + 1]]

LEMMA StemIs ==
    ASSUME NEW a \in Seq(Letter), NEW b \in Seq(Letter)
    PROVE  StemTo(a, b, Stem(a, b))
<1> DEFINE D == {k \in 0..Len(a) : k = Len(a) \/ k = Len(b) \/ Fold[a[k + 1]] # Fold[b[k + 1]]}
<1>1. Len(a) \in Nat /\ Len(b) \in Nat
  OBVIOUS
<1>2. Len(a) \in D /\ D \in SUBSET Nat
  BY <1>1
<1>3. PICK k \in D : \A j \in D : k <= j
  BY <1>2, Least
<1>4. k \in 0..Len(a) /\ k \in Nat
  BY <1>1
<1>5. ASSUME NEW j \in 1..k PROVE j <= Len(b) /\ Fold[b[j]] = Fold[a[j]]
  <2> DEFINE i == j - 1
  <2>1. i \in 0..Len(a) /\ i < k /\ i + 1 = j
    BY <1>1, <1>4
  <2> HIDE DEF i
  <2>2. i \notin D
    <3> HIDE DEF D
    <3> QED BY <1>3, <1>4, <2>1
  <2>3. i # Len(b) /\ Fold[b[j]] = Fold[a[j]]
    BY <2>1, <2>2
  <2>4. Len(b) \notin D \/ k <= Len(b)
    BY <1>3
  <2>5. Len(b) \in 0..Len(a) => Len(b) \in D
    OBVIOUS
  <2> HIDE DEF D
  <2>6. k <= Len(b)
    BY <1>1, <1>4, <2>4, <2>5
  <2> QED BY <1>1, <1>4, <2>3, <2>6
<1>6. k <= Len(b)
  <2>1. CASE k = 0
    BY <1>1, <2>1
  <2>2. CASE k # 0
    <3>1. k \in 1..k
      BY <1>4, <2>2
    <3> QED BY <1>5, <3>1
  <2> QED BY <2>1, <2>2
<1>7. Matches(b, SubSeq(a, 1, k))
  <2> DEFINE p == SubSeq(a, 1, k)
  <2>1. Len(p) = k /\ \A j \in 1..k : p[j] = a[j]
    BY <1>4, PrefixIs
  <2> HIDE DEF p
  <2>2. Matches(b, p)
    BY <1>5, <1>6, <2>1 DEF Matches
  <2> QED BY <2>2 DEF p
<1>8. StemTo(a, b, k)
  BY <1>3, <1>4, <1>7 DEF StemTo
<1>9. Stem(a, b) = CHOOSE x \in 0..Len(a) : /\ Matches(b, SubSeq(a, 1, x))
                                            /\ x = Len(a) \/ x = Len(b) \/ Fold[a[x + 1]] # Fold[b[x + 1]]
  BY DEF Stem
<1>10. \E x \in 0..Len(a) : /\ Matches(b, SubSeq(a, 1, x))
                            /\ x = Len(a) \/ x = Len(b) \/ Fold[a[x + 1]] # Fold[b[x + 1]]
  BY <1>8 DEF StemTo
<1> HIDE DEF D
<1> QED BY <1>9, <1>10, Zenon DEF StemTo

(* A shorter prefix is matched by what matches a longer one, and two names *)
(* that go on as typed agree at least so far. *)
LEMMA MatchesLess ==
    ASSUME NEW a \in Seq(Letter), NEW k \in 0..Len(a), NEW m \in 0..k, NEW b \in Seq(Letter),
           Matches(b, SubSeq(a, 1, k))
    PROVE  Matches(b, SubSeq(a, 1, m))
<1>1. k \in Nat /\ m \in Nat /\ Len(a) \in Nat /\ Len(b) \in Nat /\ m \in 0..Len(a) /\ m <= k
  OBVIOUS
<1> DEFINE p == SubSeq(a, 1, k)
           q == SubSeq(a, 1, m)
<1>2. Len(p) = k /\ (\A j \in 1..k : p[j] = a[j]) /\ Len(q) = m /\ (\A j \in 1..m : q[j] = a[j])
  BY <1>1, PrefixIs
<1>3. Matches(b, p)
  OBVIOUS
<1> HIDE DEF p, q
<1>4. Matches(b, q)
  BY <1>1, <1>2, <1>3 DEF Matches
<1> QED BY <1>4 DEF q

LEMMA MatchesWhole ==
    ASSUME NEW a \in Seq(Letter), NEW leaf \in Seq(Letter), Matches(a, leaf), NEW b \in Seq(Letter),
           NEW k \in 0..Len(a), Len(leaf) <= k, Matches(b, SubSeq(a, 1, k))
    PROVE  Matches(b, leaf)
<1> DEFINE p == SubSeq(a, 1, k)
<1>1. Len(p) = k /\ \A j \in 1..k : p[j] = a[j]
  BY PrefixIs
<1>2. Matches(b, p) /\ k \in Nat /\ Len(leaf) \in Nat /\ Len(a) \in Nat /\ Len(b) \in Nat
  OBVIOUS
<1> HIDE DEF p
<1> QED BY <1>1, <1>2 DEF Matches

LEMMA StemLong ==
    ASSUME NEW a \in Seq(Letter), NEW b \in Seq(Letter), NEW leaf \in Seq(Letter), Matches(a, leaf), Matches(b, leaf)
    PROVE  Stem(a, b) \in Len(leaf)..Len(a) /\ StemTo(a, b, Stem(a, b))
<1> DEFINE k == Stem(a, b)
<1>1. StemTo(a, b, k)
  BY StemIs
<1> HIDE DEF k
<1>2. Len(leaf) \in Nat /\ Len(a) \in Nat /\ Len(b) \in Nat /\ Len(leaf) <= Len(a) /\ Len(leaf) <= Len(b)
  BY DEF Matches
<1>3. k \in 0..Len(a)
  BY <1>1 DEF StemTo
<1>4. ~(k < Len(leaf))
  <2>1. SUFFICES ASSUME k < Len(leaf) PROVE FALSE
    OBVIOUS
  <2>2. k + 1 \in 1..Len(leaf) /\ k # Len(a) /\ k # Len(b)
    BY <1>2, <1>3, <2>1
  <2>3. Fold[a[k + 1]] = Fold[leaf[k + 1]] /\ Fold[b[k + 1]] = Fold[leaf[k + 1]]
    BY <2>2 DEF Matches
  <2> QED BY <1>1, <2>2, <2>3 DEF StemTo
<1> QED BY <1>1, <1>2, <1>3, <1>4 DEF k
--------------------
(* Tab: all of what is filled in is common to the names that go on like *)
(* what was typed, and nothing more is. *)
TabIs(tab) ==
    tab # NoTab => /\ \A n \in tab.hits : Matches(n, tab.new)
                   /\ ~\E c \in DOMAIN Fold : \A n \in tab.hits : Matches(n, Append(tab.new, c))
FilledIn(hits, new) ==
    /\ \A n \in hits : Matches(n, new)
    /\ ~\E c \in Letter : \A n \in hits : Matches(n, Append(new, c))
HitsOf(v, leaf) == {n \in ToSet(v.items) : Matches(n, leaf)}
StemsOf(v, i, leaf) == {Stem(NameAt(v, i), b) : b \in Others(v, i)} \cap Len(leaf)..Len(NameAt(v, i))
StemFound(v, i, leaf, k) ==
    IF StemsOf(v, i, leaf) = {} THEN k = -1
    ELSE k \in StemsOf(v, i, leaf) /\ \A x \in StemsOf(v, i, leaf) : k <= x

LEMMA ShortestStemIs ==
    ASSUME NEW v, NEW i, NEW leaf, Len(leaf) \in Nat, Len(NameAt(v, i)) \in Nat
    PROVE  StemFound(v, i, leaf, ShortestStem(v, i, leaf))
<1> DEFINE stems == StemsOf(v, i, leaf)
<1>1. ShortestStem(v, i, leaf) = IF stems = {} THEN -1 ELSE Min(stems)
  BY DEF ShortestStem, StemsOf
<1>2. stems \in SUBSET Nat
  BY DEF StemsOf
<1> HIDE DEF stems
<1>3. CASE stems = {}
  BY <1>1, <1>3 DEF StemFound, stems
<1>4. CASE stems # {}
  <2>1. \E x \in stems : \A y \in stems : x <= y
    BY <1>2, <1>4, Least
  <2>2. Min(stems) \in stems /\ \A y \in stems : Min(stems) <= y
    BY <2>1, Zenon DEF Min
  <2> QED BY <1>1, <1>4, <2>2 DEF StemFound, stems
<1> QED BY <1>3, <1>4

(* A hit is the name at the cursor, or has a stem with it. *)
LEMMA HitIs ==
    ASSUME NEW v, PaneIs(v), NEW i \in 0..(Count(v) - 1), NEW leaf \in Seq(Letter), Matches(NameAt(v, i), leaf),
           NEW n \in HitsOf(v, leaf)
    PROVE  n \in Seq(Letter) /\ (n = NameAt(v, i) \/ (Stem(NameAt(v, i), n) \in StemsOf(v, i, leaf) /\ StemTo(NameAt(v, i), n, Stem(NameAt(v, i), n))))
<1>1. Matches(n, leaf) /\ n \in ToSet(v.items)
  BY DEF HitsOf
<1>2. PICK j \in 0..(Count(v) - 1) : NameAt(v, j) = n
  BY <1>1, PaneHas
<1>3. n \in Seq(Letter) /\ NameAt(v, i) \in Seq(Letter)
  BY <1>1, PaneHas DEF MiniName
<1>4. CASE i = j
  BY <1>2, <1>3, <1>4
<1>5. CASE i # j
  <2>1. n \in Others(v, i)
    BY <1>2, <1>5 DEF Others
  <2>2. Stem(NameAt(v, i), n) \in Len(leaf)..Len(NameAt(v, i)) /\ StemTo(NameAt(v, i), n, Stem(NameAt(v, i), n))
    BY <1>1, <1>3, StemLong
  <2> QED BY <1>3, <2>1, <2>2 DEF StemsOf
<1> QED BY <1>4, <1>5

LEMMA TooLong ==
    ASSUME NEW a \in Seq(Letter), NEW k \in 0..Len(a), NEW c \in Letter, NEW b \in Seq(Letter),
           Matches(b, Append(SubSeq(a, 1, k), c))
    PROVE  k < Len(b) /\ Fold[b[k + 1]] = Fold[c]
<1> DEFINE p == SubSeq(a, 1, k)
           q == Append(p, c)
<1>1. p \in Seq(Letter) /\ Len(p) = k
  BY PrefixIs
<1> HIDE DEF p
<1>2. Len(q) = k + 1 /\ q[k + 1] = c
  BY <1>1, AppendProperties
<1>3. Matches(b, q) /\ k \in Nat /\ Len(b) \in Nat
  BY DEF p
<1> HIDE DEF q
<1>4. k + 1 \in 1..Len(q) /\ Len(q) <= Len(b)
  BY <1>2, <1>3 DEF Matches
<1> QED BY <1>2, <1>3, <1>4 DEF Matches

LEMMA StemFills ==
    ASSUME NEW v, PaneIs(v), NEW i \in 0..(Count(v) - 1), NEW leaf \in Seq(Letter), Matches(NameAt(v, i), leaf),
           NEW k, StemFound(v, i, leaf, k), StemsOf(v, i, leaf) # {}
    PROVE  /\ k \in 0..Len(NameAt(v, i)) /\ SubSeq(NameAt(v, i), 1, k) \in Seq(Letter)
           /\ FilledIn(HitsOf(v, leaf), SubSeq(NameAt(v, i), 1, k))
<1> DEFINE a == NameAt(v, i)
           new == SubSeq(a, 1, k)
<1>1. a \in Seq(Letter) /\ a \in ToSet(v.items) /\ Len(a) \in Nat /\ Len(leaf) \in Nat
  BY PaneHas DEF MiniName
<1>2. k \in StemsOf(v, i, leaf) /\ \A x \in StemsOf(v, i, leaf) : k <= x
  BY DEF StemFound
<1>3. k \in Len(leaf)..Len(a) /\ \E b \in Others(v, i) : k = Stem(a, b)
  BY <1>2 DEF StemsOf
<1>4. k \in 0..Len(a) /\ Len(leaf) <= k
  BY <1>1, <1>3
<1>5. a \in HitsOf(v, leaf)
  BY <1>1 DEF HitsOf
<1>6. ASSUME NEW n \in HitsOf(v, leaf) PROVE Matches(n, new)
  <2>1. n \in Seq(Letter)
    BY <1>6, HitIs
  <2>2. CASE n = a
    <3>1. Len(new) = k /\ \A j \in 1..k : new[j] = a[j]
      BY <1>1, <1>4, PrefixIs
    <3> HIDE DEF new, a
    <3> QED BY <1>4, <1>1, <2>2, <3>1 DEF Matches
  <2>3. CASE n # a
    <3> DEFINE x == Stem(a, n)
    <3>1. x \in StemsOf(v, i, leaf) /\ StemTo(a, n, x)
      BY <1>6, <2>3, HitIs
    <3> HIDE DEF x
    <3>2. x \in 0..Len(a) /\ Matches(n, SubSeq(a, 1, x)) /\ k <= x
      BY <1>2, <3>1 DEF StemTo
    <3>3. k \in 0..x
      BY <1>4, <3>2, <1>1
    <3> HIDE DEF a
    <3> QED BY <1>1, <2>1, <3>2, <3>3, MatchesLess
  <2> QED BY <2>2, <2>3
<1>7. ASSUME NEW c \in Letter, \A n \in HitsOf(v, leaf) : Matches(n, Append(new, c)) PROVE FALSE
  <2>1. PICK b \in Others(v, i) : k = Stem(a, b)
    BY <1>3
  <2>2. b \in Seq(Letter) /\ b \in ToSet(v.items)
    BY <2>1, PaneHas DEF Others, MiniName
  <2>3. StemTo(a, b, k)
    BY <1>1, <2>1, <2>2, StemIs
  <2> HIDE DEF a
  <2>4. Matches(b, new)
    BY <2>3 DEF StemTo
  <2>5. Matches(b, leaf)
    BY <1>1, <1>4, <2>2, <2>4, MatchesWhole DEF a
  <2>6. b \in HitsOf(v, leaf)
    BY <2>2, <2>5 DEF HitsOf
  <2>7. k < Len(a) /\ Fold[a[k + 1]] = Fold[c]
    BY <1>1, <1>4, <1>5, <1>7, TooLong
  <2>8. k < Len(b) /\ Fold[b[k + 1]] = Fold[c]
    BY <1>1, <1>4, <1>7, <2>2, <2>6, TooLong
  <2> QED BY <1>1, <1>4, <2>2, <2>3, <2>7, <2>8 DEF StemTo
<1>8. new \in Seq(Letter)
  BY <1>1, <1>4, PrefixIs
<1> HIDE DEF new
<1>9. FilledIn(HitsOf(v, leaf), new)
  BY <1>6, <1>7 DEF FilledIn
<1> QED BY <1>4, <1>8, <1>9 DEF new, a

LEMMA NameFills ==
    ASSUME NEW v, PaneIs(v), NEW i \in 0..(Count(v) - 1), NEW leaf \in Seq(Letter), Matches(NameAt(v, i), leaf),
           StemsOf(v, i, leaf) = {}
    PROVE  NameAt(v, i) \in Seq(Letter) /\ FilledIn(HitsOf(v, leaf), NameAt(v, i))
<1> DEFINE a == NameAt(v, i)
<1>1. a \in Seq(Letter) /\ a \in ToSet(v.items) /\ Len(a) \in Nat
  BY PaneHas DEF MiniName
<1>2. a \in HitsOf(v, leaf)
  BY <1>1 DEF HitsOf
<1>3. ASSUME NEW n \in HitsOf(v, leaf) PROVE n = a
  BY HitIs
<1>4. Matches(a, a)
  BY <1>1, MatchesItself
<1>5. ASSUME NEW c \in Letter, Matches(a, Append(a, c)) PROVE FALSE
  <2> HIDE DEF a
  <2>1. Len(Append(a, c)) = Len(a) + 1
    BY <1>1, AppendProperties
  <2> QED BY <1>1, <1>5, <2>1 DEF Matches
<1> HIDE DEF a
<1>6. FilledIn(HitsOf(v, leaf), a)
  BY <1>2, <1>3, <1>4, <1>5 DEF FilledIn
<1> QED BY <1>1, <1>6 DEF a
CompletedBy(s, r) ==
    /\ MiniGood(r)
    /\ \/ r.mini.idles > s.mini.idles
       \/ r.mini.text = s.mini.text
       \/ FilledIn(HitsOf(s.pane, s.mini.text.leaf), r.mini.text.leaf)

LEMMA GoodHas ==
    ASSUME NEW s, MiniGood(s)
    PROVE  /\ StateIs(s) /\ MiniIs(s.mini) /\ PaneIs(s.pane) /\ s.mini.idles \in Nat /\ s.mini.temp \in BOOLEAN
           /\ s.mini.mode = "path" => s.mini.text \in PathText /\ s.mini.text.leaf \in Seq(Letter)
                                      /\ s.mini.text.place \in Place \cup {Nowhere}
<1>1. StateIs(s)
  BY DEF MiniGood
<1>2. MiniIs(s.mini) /\ PaneIs(s.pane)
  BY <1>1 DEF StateIs
<1>3. s.mini.mode = "path" => s.mini.text \in PathText
  BY DEF MiniGood, TextIs
<1>4. s.mini.idles \in Nat /\ s.mini.temp \in BOOLEAN
  BY <1>2 DEF MiniIs
<1>5. s.mini.text \in PathText => s.mini.text.leaf \in Seq(Letter) /\ s.mini.text.place \in Place \cup {Nowhere}
  BY DEF PathText
<1> QED BY <1>1, <1>2, <1>3, <1>4, <1>5

LEMMA LeafPut ==
    ASSUME NEW text \in PathText, NEW new \in Seq(Letter)
    PROVE  [text EXCEPT !.leaf = new] \in PathText /\ [text EXCEPT !.leaf = new].leaf = new
BY DEF PathText

LEMMA CompleteIs ==
    ASSUME NEW s, MiniGood(s), s.mini.mode = "path", NEW known \in BOOLEAN
    PROVE  CompletedBy(s, Complete(s, known))
<1> DEFINE v == s.pane
           i == CursorIter(v)
           text == s.mini.text
           leaf == text.leaf
           item == NameAt(v, i)
           stem == ShortestStem(v, i, leaf)
           dir == <<v.place, item>>
           bare == [text EXCEPT !.leaf = << >>]
           part == [text EXCEPT !.leaf = SubSeq(item, 1, stem)]
           sub == [place |-> SubPlace[dir], leaf |-> << >>]
           whole == [place |-> v.place, leaf |-> item]
           mid == PathChanged(s, bare, known)
           r == Complete(s, known)
<1>1. r = IF i = -1 \/ text = Blank \/ ~Matches(item, leaf) \/ stem = Len(leaf) THEN s
          ELSE IF stem >= 0 THEN PathChanged(mid, part, known)
          ELSE IF dir \in DOMAIN SubPlace THEN PathChanged(s, sub, known)
          ELSE PathChanged(s, whole, known)
  BY DEF Complete
<1>2. PaneIs(v) /\ text \in PathText /\ leaf \in Seq(Letter) /\ v.place \in Place
  BY GoodHas, PaneHas
<1> HIDE DEF r, mid, bare, part, sub, whole, stem, item
<1>3. CASE i = -1 \/ text = Blank \/ ~Matches(item, leaf) \/ stem = Len(leaf)
  <2>1. r = s
    BY <1>1, <1>3
  <2> QED BY <2>1 DEF CompletedBy, r
<1>4. CASE i # -1 /\ text # Blank /\ Matches(item, leaf) /\ stem # Len(leaf)
  <2>1. i \in 0..(Count(v) - 1) /\ v.cursor \in Int
    BY <1>2, <1>4, CursorIterIs, PaneHas DEF OnItem
  <2>2. item \in Seq(Letter) /\ Len(item) \in Nat /\ Len(leaf) \in Nat
    BY <1>2, <2>1, PaneHas DEF item, MiniName
  <2>3. StemFound(v, i, leaf, stem)
    BY <2>2, ShortestStemIs DEF stem, item
  <2>4. Matches(NameAt(v, i), leaf)
    BY <1>4 DEF item
  <2> HIDE DEF i, v, leaf
  <2>5. CASE StemsOf(v, i, leaf) # {}
    <3>1. /\ stem \in 0..Len(item) /\ SubSeq(item, 1, stem) \in Seq(Letter)
          /\ FilledIn(HitsOf(v, leaf), SubSeq(item, 1, stem))
      BY <1>2, <2>1, <2>3, <2>4, <2>5, StemFills DEF item
    <3>2. stem >= 0
      BY <2>2, <3>1
    <3>3. r = PathChanged(mid, part, known)
      BY <1>1, <1>4, <3>2
    <3>4. bare \in PathText
      <4>1. << >> \in Seq(Letter)
        OBVIOUS
      <4> QED BY <1>2, <4>1, LeafPut DEF bare
    <3>5. PathTo(s, bare, mid)
      BY <3>4, PathChangedIs DEF mid
    <3>6. part \in PathText /\ part.leaf = SubSeq(item, 1, stem)
      BY <1>2, <3>1, LeafPut DEF part
    <3>7. PathTo(mid, part, r)
      BY <3>3, <3>5, <3>6, PathChangedIs DEF PathTo
    <3>8. CompletedBy(s, r)
      BY <3>1, <3>6, <3>7 DEF PathTo, CompletedBy, v, leaf
    <3> QED BY <3>8 DEF r
  <2>6. CASE StemsOf(v, i, leaf) = {}
    <3>1. stem = -1 /\ ~(stem >= 0)
      BY <2>3, <2>6 DEF StemFound
    <3>2. CASE dir \in DOMAIN SubPlace
      <4>1. r = PathChanged(s, sub, known)
        BY <1>1, <1>4, <3>1, <3>2
      <4>2. SubPlace[dir] \in Place \ {v.place}
        <5>1. dir[1] = v.place
          OBVIOUS
        <5> HIDE DEF dir
        <5> QED BY <3>2, <5>1, MiniAssumption
      <4> HIDE DEF dir
      <4>3. sub \in PathText /\ sub.place = SubPlace[dir]
        <5>1. << >> \in Seq(Letter)
          OBVIOUS
        <5> QED BY <4>2, <5>1 DEF sub, PathText
      <4>4. PathTo(s, sub, r)
        BY <4>1, <4>3, PathChangedIs
      <4>5. r.mini.idles = s.mini.idles + 1 /\ s.mini.idles \in Nat
        BY <4>2, <4>3, <4>4, GoodHas DEF PathTo, v
      <4>6. CompletedBy(s, r)
        BY <4>4, <4>5 DEF PathTo, CompletedBy
      <4> QED BY <4>6 DEF r
    <3>3. CASE dir \notin DOMAIN SubPlace
      <4>1. r = PathChanged(s, whole, known)
        BY <1>1, <1>4, <3>1, <3>3
      <4>2. whole \in PathText /\ whole.leaf = item
        BY <1>2, <2>2 DEF whole, PathText
      <4>3. PathTo(s, whole, r)
        BY <4>1, <4>2, PathChangedIs
      <4>4. FilledIn(HitsOf(v, leaf), item)
        BY <1>2, <2>1, <2>4, <2>6, NameFills DEF item
      <4>5. CompletedBy(s, r)
        BY <4>2, <4>3, <4>4 DEF PathTo, CompletedBy, v, leaf
      <4> QED BY <4>5 DEF r
    <3> QED BY <3>2, <3>3
  <2> QED BY <2>5, <2>6
<1> QED BY <1>3, <1>4

--------------------
(* The view, and the states of the other modes. *)
SelectedAs(v, S, d) ==
    PaneIs(d) /\ d.items = v.items /\ d.place = v.place /\ d.filter = v.filter /\ d.scanning = v.scanning
    /\ d.cursor = v.cursor /\ d.base = v.base /\ d.sel = S \cap ToSet(v.items)

LEMMA SelectIs ==
    ASSUME NEW v, PaneIs(v), NEW S
    PROVE  SelectedAs(v, S, SelectThose(v, S))
<1> DEFINE T == {n \in S : \E i \in 1..Count(v) : v.items[i] = n}
           d == [v EXCEPT !.sel = T]
<1>1. T = S \cap ToSet(v.items)
  BY PaneHas DEF ToSet
<1> HIDE DEF T
<1>2. PaneIs(d) /\ d.items = v.items /\ d.place = v.place /\ d.filter = v.filter /\ d.scanning = v.scanning
      /\ d.cursor = v.cursor /\ d.base = v.base /\ d.sel = T
  BY DEF PaneIs
<1>3. SelectThose(v, S) = d
  BY DEF SelectThose, T
<1> QED BY <1>1, <1>2, <1>3 DEF SelectedAs

(* The same files are shown as before, and the mode is neither that of a *)
(* path nor that of a pattern that was typed. *)
LEMMA OtherGood ==
    ASSUME NEW s, StateIs(s), ShownIs(s), NEW r, StateIs(r), r.disk = s.disk, r.mini.temp = s.mini.temp,
           r.pane.filter = s.pane.filter, r.pane.place = s.pane.place, r.pane.items = s.pane.items,
           r.pane.scanning = s.pane.scanning, r.mini.mode \notin {"none", "path"},
           r.mini.mode = "name" => ~r.mini.fresh
    PROVE  MiniGood(r)
<1>1. ShownIs(r)
  BY ShownAs
<1>2. TextIs(r) /\ AskedIs(r) /\ RedRight(r) /\ ChosenRight(r)
  BY DEF TextIs, AskedIs, RedRight, ChosenRight
<1> QED BY <1>1, <1>2 DEF MiniGood

(* The minibuffer is hidden. *)
LEMMA HideIs ==
    ASSUME NEW s, StateIs(s)
    PROVE  MiniGood(HideMini(s))
<1> DEFINE none == "none"
           off == FALSE
           m == [s.mini EXCEPT !.mode = none, !.fresh = off]
           t == [s EXCEPT !.mini = m]
           stay == OnItem(s.pane, s.pane.cursor) /\ NameAt(s.pane, s.pane.cursor)[1] = "."
           u == IF s.mini.temp /\ ~stay THEN UpdateHidden(t) ELSE t
           r == [u EXCEPT !.mini.temp = off]
<1>1. HideMini(s) = r
  BY DEF HideMini
<1>2. off \in BOOLEAN /\ ~off /\ none = "none" /\ MiniIs(s.mini)
  BY DEF StateIs
<1> HIDE DEF off, none, stay
<1>3. MiniIs(m) /\ m.mode = none
  BY <1>2 DEF MiniIs
<1> HIDE DEF m
<1>4. MiniPut(s, m, t)
  BY <1>3, StatePuts
<1> HIDE DEF t
<1>5. StateIs(u) /\ u.mini = m
  <2>1. Refilled(t, UpdateHidden(t))
    BY <1>4, UpdateHiddenIs DEF MiniPut
  <2> QED BY <1>4, <2>1 DEF MiniPut, Refilled
<1> HIDE DEF u
<1> DEFINE w == [m EXCEPT !.temp = off]
<1>6. r = [u EXCEPT !.mini = w]
  BY <1>5 DEF StateIs
<1>7. MiniIs(w) /\ w.mode = none /\ w.temp = off
  BY <1>2, <1>3 DEF MiniIs
<1> HIDE DEF w, r
<1>8. MiniPut(u, w, r)
  BY <1>5, <1>6, <1>7, StatePuts
<1>9. StateIs(r) /\ r.mini.mode = "none" /\ ~r.mini.temp
  BY <1>2, <1>7, <1>8 DEF MiniPut
<1>10. TextIs(r) /\ AskedIs(r) /\ RedRight(r) /\ ChosenRight(r) /\ ShownIs(r)
  BY <1>9 DEF TextIs, AskedIs, RedRight, ChosenRight, ShownIs
<1>11. MiniGood(r)
  BY <1>9, <1>10 DEF MiniGood
<1> QED BY <1>1, <1>11

(* The minibuffer is shown for a path. *)
LEMMA CursorShownIs ==
    ASSUME NEW v, PaneIs(v), NEW w \in CursorShown(v)
    PROVE  PaneMoved(v, w, w.cursor, w.base) /\ PaneIs(w)
<1>1. w = v \/ \E i \in Int : w = CursorTo(v, i)
  <2>1. Count(v) \in Nat /\ 0 \in Int /\ Count(v) - 1 \in Int
    BY PaneHas
  <2> QED BY <2>1 DEF CursorShown
<1>2. CASE w = v
  BY <1>2 DEF PaneMoved
<1>3. CASE \E i \in Int : w = CursorTo(v, i)
  <2>1. PICK i \in Int : w = CursorTo(v, i)
    BY <1>3
  <2>2. PaneMoved(v, w, i, v.base)
    BY <2>1, PaneMoves
  <2> QED BY <2>2 DEF PaneMoved
<1> QED BY <1>1, <1>2, <1>3

LEMMA BaseAtCursor ==
    ASSUME NEW v, PaneIs(v), NEW w \in CursorShown(v)
    PROVE  \E c, b \in Int : PaneMoved(v, [w EXCEPT !.base = CursorIter(w)], c, b)
<1> DEFINE b == CursorIter(w)
           x == [w EXCEPT !.base = b]
<1>1. PaneMoved(v, w, w.cursor, w.base) /\ PaneIs(w)
  BY CursorShownIs
<1>2. b \in Int /\ w.cursor \in Int
  BY <1>1, CursorIterIs, PaneHas
<1> HIDE DEF b
<1>3. PaneMoved(w, x, w.cursor, b)
  BY <1>1, <1>2, PaneMoves
<1> HIDE DEF x
<1>4. PaneMoved(v, x, w.cursor, b)
  BY <1>1, <1>3 DEF PaneMoved
<1> QED BY <1>2, <1>4 DEF x, b

LEMMA ShowPathIs ==
    ASSUME NEW s, StateIs(s), NEW v \in CursorShown(s.pane)
    PROVE  MiniGood(ShowPath(s, v))
<1> DEFINE path == "path"
           off == FALSE
           text == [place |-> v.place, leaf |-> << >>]
           m == [s.mini EXCEPT !.mode = path, !.error = off, !.fresh = off, !.temp = off, !.text = text]
           w == [v EXCEPT !.base = CursorIter(v)]
           t == [s EXCEPT !.pane = w, !.mini = m]
           a == [s EXCEPT !.pane = w]
           b == [a EXCEPT !.mini = m]
           r == IF s.mini.temp THEN UpdateHidden(t) ELSE t
<1>1. ShowPath(s, v) = r
  BY DEF ShowPath
<1>2. MiniIs(s.mini) /\ PaneIs(s.pane) /\ s \in [mini : {s.mini}, pane : {s.pane}, disk : {s.disk}]
  BY DEF StateIs
<1>3. t = b
  BY <1>2
<1>4. PaneIs(w) /\ w.place = s.pane.place
  BY <1>2, BaseAtCursor DEF PaneMoved
<1>5. text.place = s.pane.place /\ text \in PathText
  <2>1. v.place = s.pane.place /\ s.pane.place \in Place
    BY <1>2, CursorShownIs, PaneHas DEF PaneMoved
  <2>2. << >> \in Seq(Letter)
    OBVIOUS
  <2> QED BY <2>1, <2>2 DEF PathText
<1>6. off \in BOOLEAN /\ ~off /\ path = "path"
  OBVIOUS
<1> HIDE DEF off, path, text, w, t
<1>7. MiniIs(m) /\ m.mode = path /\ m.temp = off /\ m.text = text /\ m.fresh = off
  BY <1>2, <1>6 DEF MiniIs
<1> HIDE DEF m
<1>8. PanePut(s, w, a)
  BY <1>4, StatePuts
<1> HIDE DEF a
<1>9. MiniPut(a, m, b)
  BY <1>7, <1>8, StatePuts DEF PanePut
<1> HIDE DEF b
<1>10. StateIs(t) /\ t.mini = m /\ t.pane = w
  BY <1>3, <1>8, <1>9 DEF PanePut, MiniPut
<1>11. StateIs(r) /\ r.mini = m /\ r.pane.place = s.pane.place
  <2>1. Refilled(t, UpdateHidden(t))
    BY <1>10, UpdateHiddenIs
  <2> QED BY <1>4, <1>10, <2>1 DEF Refilled
<1> HIDE DEF r
<1>12. r.mini.mode = "path" /\ ~r.mini.temp /\ r.mini.text = text /\ ~r.mini.fresh
  BY <1>6, <1>7, <1>11
<1>13. TextIs(r) /\ AskedIs(r) /\ RedRight(r) /\ ChosenRight(r) /\ ShownIs(r)
  BY <1>5, <1>11, <1>12 DEF TextIs, AskedIs, RedRight, ChosenRight, ShownIs
<1>14. MiniGood(r)
  BY <1>11, <1>13 DEF MiniGood
<1> QED BY <1>1, <1>14
--------------------
(* The handlers, one at a time: each ends in a state that is right. *)
MiniNext1 == [mini |-> mini', pane |-> pane', disk |-> onDisk']
EndsGood == MiniGood(MiniNext1)

LEMMA GoodNow ==
    ASSUME MiniGood(MiniNow)
    PROVE  /\ StateIs(MiniNow) /\ MiniIs(mini) /\ PaneIs(pane) /\ ShownIs(MiniNow)
           /\ MiniNow.mini = mini /\ MiniNow.pane = pane /\ MiniNow.disk = onDisk
<1>1. MiniNow.mini = mini /\ MiniNow.pane = pane /\ MiniNow.disk = onDisk
  BY DEF MiniNow
<1>2. StateIs(MiniNow) /\ ShownIs(MiniNow)
  BY DEF MiniGood
<1> HIDE DEF MiniNow
<1>3. MiniIs(MiniNow.mini) /\ PaneIs(MiniNow.pane)
  BY <1>2 DEF StateIs
<1> QED BY <1>1, <1>2, <1>3

LEMMA Becoming ==
    ASSUME NEW r, MiniBecomes(r), MiniGood(r)
    PROVE  EndsGood
<1>1. r \in [mini : {r.mini}, pane : {r.pane}, disk : {r.disk}]
  BY DEF MiniGood, StateIs
<1>2. r = MiniNext1
  BY <1>1 DEF MiniBecomes, MiniNext1
<1> QED BY <1>2 DEF EndsGood

LEMMA ShowGood ==
    ASSUME MiniGood(MiniNow), NEW mode \in {"path", "shell", "if", "name", "filter"}, ShowMini(mode)
    PROVE  EndsGood
<1> DEFINE s == MiniNow
<1>1. StateIs(s) /\ MiniIs(mini) /\ PaneIs(pane) /\ ShownIs(s) /\ s.mini = mini /\ s.pane = pane /\ s.disk = onDisk
  BY GoodNow
<1>2. \/ mode = "path" /\ \E v \in CursorShown(pane) : MiniBecomes(ShowPath(s, v))
      \/ mode \in {"shell", "if"} /\ MiniBecomes(ShowOther(s, mode, Words))
      \/ mode = "filter" /\ MiniBecomes([ShowOther(s, mode, pane.filter) EXCEPT !.mini.recall = mini.recall])
      \/ mode = "name" /\ \E v \in CursorShown(pane) :
            MiniBecomes([ShowOther(s, mode, Words)
                           EXCEPT !.pane = SelectThose([v EXCEPT !.base = CursorIter(v)], {})])
  BY DEF ShowMini
<1> HIDE DEF s
<1>3. ASSUME NEW text, mode # "path"
      PROVE  StateIs(ShowOther(s, mode, text)) /\ ShowOther(s, mode, text).mini.mode = mode
             /\ ShowOther(s, mode, text).mini.temp = mini.temp /\ ~ShowOther(s, mode, text).mini.fresh
             /\ ShowOther(s, mode, text).pane = pane /\ ShowOther(s, mode, text).disk = onDisk
  <2> DEFINE off == FALSE
             none == -1
             m == [s.mini EXCEPT !.mode = mode, !.error = off, !.text = text, !.recall = none, !.fresh = off]
             r == [s EXCEPT !.mini = m]
  <2>1. ShowOther(s, mode, text) = r
    BY DEF ShowOther
  <2>2. off \in BOOLEAN /\ ~off
    OBVIOUS
  <2> HIDE DEF off, none
  <2>3. MiniIs(m) /\ m.mode = mode /\ m.temp = mini.temp /\ m.fresh = off
    BY <1>1, <2>2 DEF MiniIs
  <2> HIDE DEF m
  <2>4. MiniPut(s, m, r)
    BY <1>1, <2>3, StatePuts
  <2> HIDE DEF r
  <2> QED BY <1>1, <2>1, <2>2, <2>3, <2>4 DEF MiniPut
<1>4. CASE mode = "path"
  <2>1. PICK v \in CursorShown(pane) : MiniBecomes(ShowPath(s, v))
    BY <1>2, <1>4
  <2>2. MiniGood(ShowPath(s, v))
    BY <1>1, ShowPathIs
  <2> QED BY <2>1, <2>2, Becoming
<1>5. CASE mode \in {"shell", "if"}
  <2> DEFINE r == ShowOther(s, mode, Words)
  <2>1. MiniBecomes(r)
    BY <1>2, <1>5
  <2>2. StateIs(r) /\ r.mini.mode = mode /\ r.mini.temp = mini.temp /\ ~r.mini.fresh /\ r.pane = pane /\ r.disk = onDisk
    BY <1>3, <1>5
  <2> HIDE DEF r
  <2>3. MiniGood(r)
    BY <1>1, <1>5, <2>2, OtherGood
  <2> QED BY <2>1, <2>3, Becoming
<1>6. CASE mode = "filter"
  <2> DEFINE a == ShowOther(s, mode, pane.filter)
             m == [a.mini EXCEPT !.recall = mini.recall]
             r == [a EXCEPT !.mini = m]
             b == [a EXCEPT !.mini.recall = mini.recall]
  <2>1. MiniBecomes(b)
    BY <1>2, <1>6
  <2>2. StateIs(a) /\ a.mini.mode = mode /\ a.mini.temp = mini.temp /\ ~a.mini.fresh /\ a.pane = pane /\ a.disk = onDisk
    BY <1>3, <1>6
  <2> HIDE DEF a
  <2>3. b = r /\ MiniIs(a.mini)
    BY <2>2 DEF StateIs
  <2> HIDE DEF b
  <2>4. MiniIs(m) /\ m.mode = a.mini.mode /\ m.temp = a.mini.temp /\ m.fresh = a.mini.fresh
    BY <2>3 DEF MiniIs
  <2> HIDE DEF m
  <2>5. MiniPut(a, m, r)
    BY <2>2, <2>4, StatePuts
  <2> HIDE DEF r
  <2>6. MiniGood(r)
    BY <1>1, <1>6, <2>2, <2>4, <2>5, OtherGood DEF MiniPut
  <2> QED BY <2>1, <2>3, <2>6, Becoming
<1>7. CASE mode = "name"
  <2> DEFINE a == ShowOther(s, mode, Words)
  <2>1. PICK v \in CursorShown(pane) :
            MiniBecomes([a EXCEPT !.pane = SelectThose([v EXCEPT !.base = CursorIter(v)], {})])
    BY <1>2, <1>7
  <2>2. StateIs(a) /\ a.mini.mode = mode /\ a.mini.temp = mini.temp /\ ~a.mini.fresh /\ a.pane = pane /\ a.disk = onDisk
    BY <1>3, <1>7
  <2> HIDE DEF a
  <2> DEFINE x == [v EXCEPT !.base = CursorIter(v)]
             w == SelectThose(x, {})
             r == [a EXCEPT !.pane = w]
  <2>3. PICK c \in Int, b \in Int : PaneMoved(pane, x, c, b)
    BY <1>1, BaseAtCursor
  <2> HIDE DEF x
  <2>4. SelectedAs(x, {}, w)
    BY <2>3, SelectIs DEF PaneMoved
  <2> HIDE DEF w
  <2>5. PanePut(a, w, r)
    BY <2>2, <2>4, StatePuts DEF SelectedAs
  <2>6. MiniBecomes(r)
    BY <2>1 DEF r, w, x
  <2> HIDE DEF r
  <2>7. r.pane.filter = pane.filter /\ r.pane.place = pane.place /\ r.pane.items = pane.items
        /\ r.pane.scanning = pane.scanning
    BY <2>3, <2>4, <2>5 DEF PaneMoved, SelectedAs, PanePut
  <2>8. MiniGood(r)
    BY <1>1, <1>7, <2>2, <2>5, <2>7, OtherGood DEF PanePut
  <2> QED BY <2>6, <2>8, Becoming
<1> QED BY <1>4, <1>5, <1>6, <1>7

LEMMA TypePathGood ==
    ASSUME MiniGood(MiniNow), NEW text \in PathText, NEW known \in BOOLEAN, TypePath(text, known)
    PROVE  EndsGood
<1>1. mini.mode = "path" /\ MiniBecomes(PathChanged(MiniNow, text, known)) /\ MiniNow.mini = mini
  BY GoodNow DEF TypePath
<1>2. MiniGood(PathChanged(MiniNow, text, known))
  BY <1>1, PathChangedIs DEF PathTo
<1> QED BY <1>1, <1>2, Becoming

LEMMA TabGood ==
    ASSUME MiniGood(MiniNow), NEW known \in BOOLEAN, Tab(known)
    PROVE  EndsGood /\ TabIs(tabbed')
<1> DEFINE s == Complete(MiniNow, known)
           hits == HitsOf(pane, mini.text.leaf)
           new == s.mini.text.leaf
<1>1. mini.mode = "path" /\ MiniBecomes(s) /\ MiniNow.mini = mini /\ MiniNow.pane = pane
  BY GoodNow DEF Tab
<1>2. tabbed' = IF s.mini.idles > mini.idles \/ s.mini.text = mini.text THEN NoTab
                ELSE [old |-> mini.text.leaf, new |-> new, hits |-> hits]
  BY DEF Tab, HitsOf
<1>3. CompletedBy(MiniNow, s)
  BY <1>1, CompleteIs
<1> HIDE DEF s, new
<1>4. s.mini.idles > mini.idles \/ s.mini.text = mini.text \/ FilledIn(hits, new)
  BY <1>1, <1>3 DEF CompletedBy, new
<1> HIDE DEF hits
<1>5. CASE s.mini.idles > mini.idles \/ s.mini.text = mini.text
  <2>1. tabbed' = NoTab
    BY <1>2, <1>5
  <2> QED BY <1>1, <1>3, <2>1, Becoming DEF CompletedBy, TabIs
<1>6. CASE ~(s.mini.idles > mini.idles \/ s.mini.text = mini.text)
  <2>1. tabbed' = [old |-> mini.text.leaf, new |-> new, hits |-> hits]
    BY <1>2, <1>6
  <2>2. tabbed'.new = new /\ tabbed'.hits = hits
    BY <2>1
  <2>3. TabIs(tabbed')
    BY <1>4, <1>6, <2>2 DEF FilledIn, TabIs, Letter
  <2> QED BY <1>1, <1>3, <2>3, Becoming DEF CompletedBy
<1> QED BY <1>5, <1>6

LEMMA EscapeGood ==
    ASSUME MiniGood(MiniNow), Escape
    PROVE  EndsGood
<1>1. MiniGood(HideMini(MiniNow)) /\ MiniBecomes(HideMini(MiniNow))
  BY GoodNow, HideIs DEF Escape
<1> QED BY <1>1, Becoming

LEMMA ReturnPathGood ==
    ASSUME MiniGood(MiniNow), NEW known \in BOOLEAN, NEW works \in BOOLEAN, ReturnPath(known, works)
    PROVE  EndsGood
<1> DEFINE i == CursorIter(pane)
           dir == <<pane.place, NameAt(pane, i)>>
           led == ChangeTo(MiniNow, SubPlace[dir], << >>, known)
<1>1. /\ mini.mode = "path"
      /\ MiniBecomes(IF i = -1 \/ ~Matches(NameAt(pane, i), mini.text.leaf) THEN MiniNow
                     ELSE IF dir \in DOMAIN SubPlace THEN led
                     ELSE IF works THEN HideMini(MiniNow) ELSE MiniNow)
  BY DEF ReturnPath
<1>2. StateIs(MiniNow) /\ MiniNow.mini = mini /\ mini.idles \in Nat
  BY GoodNow DEF MiniIs
<1>3. dir \in DOMAIN SubPlace => MiniGood(led)
  <2>1. SUFFICES ASSUME dir \in DOMAIN SubPlace PROVE MiniGood(led)
    OBVIOUS
  <2> HIDE DEF dir
  <2>2. SubPlace[dir] \in Place
    BY <2>1, MiniAssumption
  <2>3. Led(MiniNow, SubPlace[dir], led)
    BY <1>2, <2>2, ChangeToIs
  <2> HIDE DEF led
  <2>4. StateIs(led) /\ ShownIs(led) /\ led.mini.mode = "path" /\ led.mini.idles = mini.idles + 1 /\ ~led.mini.fresh
        /\ led.mini.text = mini.text
    BY <1>1, <1>2, <2>3 DEF Led
  <2>5. TextIs(led)
    BY <1>1, <1>2, <2>4, GoodHas DEF TextIs
  <2>6. AskedIs(led) /\ ChosenRight(led) /\ RedRight(led)
    BY <1>2, <2>4 DEF AskedIs, ChosenRight, RedRight
  <2> QED BY <2>4, <2>5, <2>6 DEF MiniGood
<1>4. MiniGood(HideMini(MiniNow))
  BY <1>2, HideIs
<1> HIDE DEF led, dir, i
<1> QED BY <1>1, <1>3, <1>4, Becoming

LEMMA ReturnLineGood ==
    ASSUME MiniGood(MiniNow), ReturnLine
    PROVE  EndsGood
<1> DEFINE line == mini.text
           chosen == IF line \in Condition \ NoCond
                     THEN [MiniNow EXCEPT !.pane = SelectThose(@, Selects[line])] ELSE MiniNow
           filtered == [MiniNow EXCEPT !.pane.filter = line]
           to == IF line = pane.filter THEN MiniNow ELSE UpdateHidden(filtered)
<1>1. StateIs(MiniNow) /\ PaneIs(pane) /\ MiniNow.pane = pane
  BY GoodNow
<1>2. \/ MiniBecomes(HideMini(MiniNow))
      \/ MiniBecomes(IF line \in NoCond THEN MiniNow ELSE HideMini(chosen))
      \/ MiniBecomes(HideMini(to))
  BY DEF ReturnLine
<1>3. StateIs(chosen)
  <2> DEFINE w == SelectThose(pane, Selects[line])
  <2>1. [MiniNow EXCEPT !.pane = SelectThose(@, Selects[line])] = [MiniNow EXCEPT !.pane = w]
    BY <1>1
  <2>2. PaneIs(w)
    BY <1>1, SelectIs DEF SelectedAs
  <2> HIDE DEF w
  <2>3. StateIs([MiniNow EXCEPT !.pane = w])
    BY <1>1, <2>2, StatePuts DEF PanePut
  <2> QED BY <1>1, <2>1, <2>3
<1>4. StateIs(to)
  <2> DEFINE w == [pane EXCEPT !.filter = line]
  <2>1. filtered = [MiniNow EXCEPT !.pane = w]
    BY <1>1 DEF StateIs
  <2>2. PaneIs(w)
    BY <1>1 DEF PaneIs
  <2> HIDE DEF w, filtered
  <2>3. StateIs(filtered)
    BY <1>1, <2>1, <2>2, StatePuts DEF PanePut
  <2>4. StateIs(UpdateHidden(filtered))
    BY <2>3, UpdateHiddenIs DEF Refilled
  <2> QED BY <1>1, <2>4
<1> HIDE DEF to, chosen
<1>5. MiniGood(HideMini(MiniNow)) /\ MiniGood(HideMini(chosen)) /\ MiniGood(HideMini(to))
  BY <1>1, <1>3, <1>4, HideIs
<1> QED BY <1>2, <1>5, Becoming

LEMMA IdleGood ==
    ASSUME MiniGood(MiniNow), IdleShow
    PROVE  EndsGood
<1> DEFINE k == mini.idles - 1
           m == [mini EXCEPT !.idles = k]
           s == [MiniNow EXCEPT !.mini.idles = @ - 1]
           t == [MiniNow EXCEPT !.mini = m]
<1>1. PICK v \in CursorShown(pane) : MiniBecomes(ShowPath(s, v))
  BY DEF IdleShow
<1>2. StateIs(MiniNow) /\ MiniIs(mini) /\ MiniNow.pane = pane /\ MiniNow.mini = mini
  BY GoodNow
<1>3. k \in Nat
  BY <1>2 DEF IdleShow, MiniIs
<1>4. s = t
  BY <1>2 DEF StateIs
<1> HIDE DEF k, s
<1>5. MiniIs(m)
  BY <1>2, <1>3 DEF MiniIs
<1> HIDE DEF m
<1>6. StateIs(t) /\ t.pane = pane
  BY <1>2, <1>5, StatePuts DEF MiniPut
<1> HIDE DEF t
<1>7. MiniGood(ShowPath(s, v))
  BY <1>4, <1>6, ShowPathIs
<1> QED BY <1>1, <1>7, Becoming
(* What is no longer a fresh answer only has to keep the path. *)
LEMMA StaleGood ==
    ASSUME NEW s, MiniGood(s), NEW r, StateIs(r), ShownIs(r), r.mini = [s.mini EXCEPT !.fresh = FALSE],
           r.pane.place = s.pane.place
    PROVE  MiniGood(r)
<1> DEFINE off == FALSE
           m == [s.mini EXCEPT !.fresh = off]
<1>1. MiniIs(s.mini) /\ TextIs(s) /\ AskedIs(s) /\ RedRight(s)
  BY DEF MiniGood, StateIs
<1>2. r.mini = m /\ ~off
  OBVIOUS
<1> HIDE DEF off
<1>3. m.mode = s.mini.mode /\ m.text = s.mini.text /\ m.error = s.mini.error /\ m.temp = s.mini.temp
      /\ m.idles = s.mini.idles /\ m.fresh = off
  BY <1>1 DEF MiniIs
<1> HIDE DEF m
<1>4. TextIs(r) /\ AskedIs(r) /\ ChosenRight(r)
  BY <1>1, <1>2, <1>3 DEF TextIs, AskedIs, ChosenRight
<1>5. RedRight(r)
  BY <1>1, <1>2, <1>3 DEF RedRight
<1> QED BY <1>4, <1>5 DEF MiniGood


LEMMA ScanGood ==
    ASSUME MiniGood(MiniNow), ScanEnds
    PROVE  EndsGood
<1> DEFINE d == Displayed(MiniNow)
           e == [pane EXCEPT !.items = d]
           w == EndOfScan(e)
           off == FALSE
           m == [mini EXCEPT !.fresh = off]
           a == [MiniNow EXCEPT !.pane = w]
           r == [a EXCEPT !.mini = m]
           b == [MiniNow EXCEPT !.pane = EndOfScan([@ EXCEPT !.items = Displayed(MiniNow)]), !.mini.fresh = FALSE]
<1>1. MiniBecomes(b)
  BY DEF ScanEnds
<1>2. StateIs(MiniNow) /\ MiniIs(mini) /\ PaneIs(pane) /\ MiniNow.mini = mini /\ MiniNow.pane = pane
      /\ MiniNow.disk = onDisk
  BY GoodNow
<1>3. b = r
  <2> DEFINE x == [MiniNow EXCEPT !.pane = w, !.mini.fresh = off]
  <2>1. b = x
    BY <1>2
  <2> HIDE DEF w, b
  <2>2. x = r
    BY <1>2 DEF StateIs
  <2> QED BY <2>1, <2>2
<1>4. d \in Seq(MiniName)
  BY DisplayedIs
<1>5. off \in BOOLEAN
  OBVIOUS
<1> HIDE DEF b, d, off
<1>6. PaneIs(e) /\ e.items = d /\ e.place = pane.place /\ e.filter = pane.filter
  BY <1>2, <1>4 DEF PaneIs
<1> HIDE DEF e
<1>7. Refilled(MiniNow, a)
  BY <1>2, <1>6, RefilledBy DEF d
<1> HIDE DEF a
<1>8. MiniIs(m) /\ m.temp = mini.temp
  BY <1>2, <1>5 DEF MiniIs
<1> HIDE DEF m
<1>9. MiniPut(a, m, r)
  BY <1>7, <1>8, StatePuts DEF Refilled
<1> HIDE DEF r
<1>10. Displayed(r) = Displayed(a)
  BY <1>2, <1>7, <1>8, <1>9, DisplayedAs DEF MiniPut, Refilled
<1>11. StateIs(r) /\ ShownIs(r) /\ r.mini = m /\ r.pane.place = pane.place
  BY <1>2, <1>7, <1>9, <1>10 DEF MiniPut, Refilled, ShownIs, AllShown
<1>12. MiniGood(r)
  BY <1>2, <1>11, StaleGood DEF m, off
<1> QED BY <1>1, <1>3, <1>12, Becoming

LEMMA ClickGood ==
    ASSUME MiniGood(MiniNow), ClickedBeside
    PROVE  EndsGood
<1> DEFINE none == -1
           off == FALSE
           w == [pane EXCEPT !.cursor = none]
           m == [mini EXCEPT !.fresh = off]
           a == [MiniNow EXCEPT !.pane = w]
           r == [a EXCEPT !.mini = m]
           b == [MiniNow EXCEPT !.pane.cursor = -1, !.mini.fresh = FALSE]
<1>1. MiniBecomes(b)
  BY DEF ClickedBeside
<1>2. StateIs(MiniNow) /\ MiniIs(mini) /\ PaneIs(pane) /\ MiniNow.mini = mini /\ MiniNow.pane = pane
      /\ ShownIs(MiniNow) /\ MiniNow.disk = onDisk
  BY GoodNow
<1>3. b = r
  BY <1>2 DEF StateIs
<1>4. off \in BOOLEAN /\ none \in Int
  OBVIOUS
<1> HIDE DEF b, off, none
<1>5. PaneIs(w) /\ w.place = pane.place /\ w.items = pane.items /\ w.filter = pane.filter /\ w.scanning = pane.scanning
  BY <1>2, <1>4 DEF PaneIs
<1> HIDE DEF w
<1>6. PanePut(MiniNow, w, a)
  BY <1>2, <1>5, StatePuts
<1> HIDE DEF a
<1>8. MiniIs(m) /\ m.temp = mini.temp
  BY <1>2, <1>4 DEF MiniIs
<1> HIDE DEF m
<1>9. MiniPut(a, m, r)
  BY <1>6, <1>8, StatePuts DEF PanePut
<1> HIDE DEF r
<1>10. StateIs(r) /\ r.mini = m /\ r.pane = w /\ r.disk = onDisk
  BY <1>2, <1>6, <1>9 DEF MiniPut, PanePut
<1>11. ShownIs(r)
  BY <1>2, <1>5, <1>8, <1>10, ShownAs
<1>12. MiniGood(r)
  BY <1>2, <1>5, <1>10, <1>11, StaleGood DEF m, off
<1> QED BY <1>1, <1>3, <1>12, Becoming

LEMMA LedGood ==
    ASSUME MiniGood(MiniNow), NEW p \in Place, NEW known \in BOOLEAN, LedElsewhere(p, known)
    PROVE  EndsGood
<1> DEFINE led == ChangeTo(MiniNow, p, << >>, known)
<1>1. MiniBecomes(led) /\ StateIs(MiniNow)
  BY GoodNow DEF LedElsewhere
<1>2. Led(MiniNow, p, led)
  BY <1>1, ChangeToIs
<1> HIDE DEF led
<1> DEFINE s == MiniNow
<1>3. TextIs(s) /\ AskedIs(s) /\ s.mini.idles \in Nat
  BY GoodHas DEF MiniGood
<1> HIDE DEF s
<1>4. StateIs(led) /\ ShownIs(led)
  BY <1>2 DEF Led
<1>5. TextIs(led) /\ AskedIs(led) /\ ChosenRight(led)
  BY <1>2, <1>3 DEF Led, TextIs, AskedIs, ChosenRight, s
<1>6. RedRight(led)
  <2>1. led.mini.mode = "path" => led.mini.idles = s.mini.idles + 1
    BY <1>2 DEF Led, s
  <2>2. ~led.mini.fresh
    BY <1>2 DEF Led
  <2> QED BY <1>3, <2>1, <2>2 DEF RedRight
<1>7. MiniGood(led)
  BY <1>4, <1>5, <1>6 DEF MiniGood
<1> QED BY <1>1, <1>7, Becoming

LEMMA LineGood ==
    ASSUME MiniGood(MiniNow), mini.mode \in {"shell", "if", "filter"}, NEW m, MiniIs(m), m.mode = mini.mode,
           m.temp = mini.temp, NEW r, r = [MiniNow EXCEPT !.mini = m], MiniBecomes(r)
    PROVE  EndsGood
<1>1. StateIs(MiniNow) /\ MiniNow.mini = mini /\ ShownIs(MiniNow)
  BY GoodNow
<1>2. MiniPut(MiniNow, m, r)
  BY <1>1, StatePuts
<1>3. MiniGood(r)
  BY <1>1, <1>2, OtherGood DEF MiniPut
<1> QED BY <1>3, Becoming

LEMMA TypeLineGood ==
    ASSUME MiniGood(MiniNow), NEW line, TypeLine(line)
    PROVE  EndsGood
<1> DEFINE m == [mini EXCEPT !.text = line]
           r == [MiniNow EXCEPT !.mini.text = line]
           q == [MiniNow EXCEPT !.mini = m]
<1>1. mini.mode \in {"shell", "if", "filter"} /\ MiniBecomes(r)
  BY DEF TypeLine
<1>2. StateIs(MiniNow) /\ MiniNow.mini = mini /\ MiniIs(mini)
  BY GoodNow
<1>3. r = q
  BY <1>2 DEF StateIs
<1>4. MiniIs(m) /\ m.mode = mini.mode /\ m.temp = mini.temp
  BY <1>2 DEF MiniIs
<1> HIDE DEF m, r
<1> QED BY <1>1, <1>3, <1>4, LineGood
(* An item that iterators find first. *)
LEMMA FoundIn ==
    ASSUME NEW v, PaneIs(v), NEW start \in Int, NEW dir \in {-1, 1}, NEW S, S \subseteq 0..(Count(v) - 1),
           NEW rest, NEW k, k = FirstOf(rest, S), rest = Iterate(v, start, dir) \/ (rest = Tail(Iterate(v, start, dir)) /\ Count(v) > 0)
    PROVE  /\ k \in Nat /\ (k > 0 => rest[k] \in S)
           /\ rest = Iterate(v, start, dir) /\ S # {} => k > 0
<1> DEFINE n == Count(v)
           path == Iterate(v, start, dir)
           c == FirstItem(v, start, dir)
<1>1. n \in Nat
  BY PaneHas
<1>2. PathIs(n, c, dir, path) /\ (n > 0 => c \in 0..(n - 1))
  <2> HIDE DEF n
  <2>1. Count(v) = n /\ dir \in {-1, 0, 1}
    BY DEF n
  <2> QED BY <1>1, <2>1, IterateIs
<1> HIDE DEF n, path, c
<1>3. Len(rest) \in Nat
  <2>1. path \in [1..n -> Int]
    BY <1>1, <1>2 DEF PathIs
  <2>2. path \in Seq(Int) /\ Len(path) = n
    BY <1>1, <2>1, MapIs
  <2>3. CASE rest = path
    BY <1>1, <2>2, <2>3
  <2>4. CASE rest = Tail(path) /\ n > 0
    <3>1. path # << >>
      BY <1>1, <2>2, <2>4
    <3>2. Len(rest) = n - 1
      BY <2>2, <2>4, <3>1, HeadTailProperties
    <3> QED BY <1>1, <2>4, <3>2
  <2> QED BY <2>3, <2>4 DEF path, n
<1> DEFINE m == Len(rest)
<1>4. FirstIs(rest, m, S, k)
  BY <1>3, FirstFound
<1>5. ASSUME rest = path, S # {} PROVE k > 0
  <2>1. m = n
    BY <1>2, <1>5 DEF PathIs
  <2>2. PICK i \in S : i \in 0..(n - 1)
    BY <1>5 DEF n
  <2>3. c \in 0..(n - 1)
    BY <1>1, <1>2, <2>2
  <2>6. dir \in {-1, 0, 1} /\ i \in 0..(n - 1)
    BY <2>2
  <2> HIDE DEF m
  <2>4. PICK j \in 1..n : PathItem(n, c, dir, j) = i
    BY <1>1, <2>3, <2>6, PathMeets
  <2>5. rest[j] \in S
    BY <1>2, <1>5, <2>2, <2>4 DEF PathIs
  <2> HIDE DEF m
  <2> QED BY <1>1, <1>4, <2>1, <2>4, <2>5 DEF FirstIs
<1> HIDE DEF m
<1>6. k \in Nat /\ (k > 0 => rest[k] \in S)
  BY <1>3, <1>4 DEF FirstIs, m
<1> QED BY <1>5, <1>6 DEF path

(* A pattern is typed, and the cursor led along what it selects. *)
SelectedIn(v) == {i \in 0..(Count(v) - 1) : NameAt(v, i) \in v.sel}
ChosenIn(v) == v.sel # {} => OnItem(v, v.cursor) /\ NameAt(v, v.cursor) \in v.sel

LEMMA ChosenMoved ==
    ASSUME NEW v, PaneIs(v), NEW i \in SelectedIn(v)
    PROVE  PaneMoved(v, CursorTo(v, i), i, v.base) /\ ChosenIn(CursorTo(v, i))
<1>1. i \in 0..(Count(v) - 1) /\ NameAt(v, i) \in v.sel /\ Count(v) \in Nat
  BY PaneHas DEF SelectedIn
<1>2. i \in Int
  BY <1>1
<1> DEFINE d == CursorTo(v, i)
<1>3. PaneMoved(v, d, i, v.base)
  BY <1>2, PaneMoves
<1> HIDE DEF d
<1>4. ChosenIn(d)
  BY <1>1, <1>3 DEF ChosenIn, PaneMoved, OnItem, NameAt, Count
<1> QED BY <1>3, <1>4 DEF d

LEMMA TypeNameGood ==
    ASSUME MiniGood(MiniNow), NEW p, TypeName(p)
    PROVE  EndsGood
<1> DEFINE S == Globs[p]
           v == SelectThose(pane, S)
           path == Iterate(v, v.base, 1)
           k == FirstOf(path, SelectedIn(v))
           on == TRUE
           w == IF k > 0 THEN CursorTo(v, path[k]) ELSE v
           m == [mini EXCEPT !.text = p, !.fresh = on]
           a == [MiniNow EXCEPT !.pane = w]
           r == [a EXCEPT !.mini = m]
           b == [MiniNow EXCEPT !.pane = w, !.mini.text = p, !.mini.fresh = TRUE]
<1>1. MiniBecomes(b) /\ mini.mode = "name"
  BY DEF TypeName, SelectedIn
<1>2. StateIs(MiniNow) /\ MiniIs(mini) /\ PaneIs(pane) /\ MiniNow.mini = mini /\ MiniNow.pane = pane
      /\ ShownIs(MiniNow) /\ MiniNow.disk = onDisk
  BY GoodNow
<1>3. SelectedAs(pane, S, v)
  BY <1>2, SelectIs
<1> HIDE DEF v
<1>4. PaneIs(v) /\ v.base \in Int
  BY <1>3, PaneHas DEF SelectedAs
<1>5. SelectedIn(v) \subseteq 0..(Count(v) - 1)
  BY DEF SelectedIn
<1>6. k \in Nat /\ (k > 0 => path[k] \in SelectedIn(v)) /\ (SelectedIn(v) # {} => k > 0)
  BY <1>4, <1>5, FoundIn
<1> HIDE DEF k, path
<1>7. v.sel # {} => SelectedIn(v) # {}
  <2>1. v.sel \subseteq ToSet(v.items)
    BY <1>3 DEF SelectedAs
  <2>2. ASSUME NEW x \in v.sel PROVE SelectedIn(v) # {}
    <3>1. PICK i \in 0..(Count(v) - 1) : NameAt(v, i) = x
      BY <1>4, <2>1, PaneHas
    <3> QED BY <3>1 DEF SelectedIn
  <2> QED BY <2>2
<1>8. PaneMoved(v, w, w.cursor, w.base) /\ ChosenIn(w)
  <2>1. CASE k > 0
    <3>1. PaneMoved(v, CursorTo(v, path[k]), path[k], v.base) /\ ChosenIn(CursorTo(v, path[k]))
      BY <1>4, <1>6, <2>1, ChosenMoved
    <3> QED BY <2>1, <3>1 DEF PaneMoved
  <2>2. CASE ~(k > 0)
    BY <1>4, <1>6, <1>7, <2>2 DEF PaneMoved, ChosenIn
  <2> QED BY <2>1, <2>2
<1> HIDE DEF w
<1>9. b = r
  BY <1>2 DEF StateIs
<1>10. on \in BOOLEAN
  OBVIOUS
<1> HIDE DEF b, on
<1>11. MiniIs(m) /\ m.mode = mini.mode /\ m.text = p /\ m.temp = mini.temp
  BY <1>2, <1>10 DEF MiniIs
<1> HIDE DEF m
<1>12. PanePut(MiniNow, w, a)
  BY <1>2, <1>8, StatePuts DEF PaneMoved
<1> HIDE DEF a
<1>13. MiniPut(a, m, r)
  BY <1>11, <1>12, StatePuts DEF PanePut
<1> HIDE DEF r
<1>14. StateIs(r) /\ r.mini = m /\ r.pane = w /\ r.disk = onDisk
  BY <1>2, <1>12, <1>13 DEF MiniPut, PanePut
<1>15. w.items = pane.items /\ w.place = pane.place /\ w.filter = pane.filter /\ w.scanning = pane.scanning
       /\ w.sel = S \cap ToSet(w.items)
  BY <1>3, <1>8 DEF PaneMoved, SelectedAs
<1>16. ShownIs(r)
  BY <1>2, <1>11, <1>14, <1>15, ShownAs
<1> HIDE DEF S
<1>17. ChosenRight(r)
  BY <1>8, <1>11, <1>14, <1>15 DEF ChosenRight, ChosenIn, S
<1>18. TextIs(r) /\ AskedIs(r) /\ RedRight(r)
  BY <1>1, <1>11, <1>14 DEF TextIs, AskedIs, RedRight
<1>19. MiniGood(r)
  BY <1>14, <1>16, <1>17, <1>18 DEF MiniGood
<1> QED BY <1>1, <1>9, <1>19, Becoming

NextIs(v, d) ==
    /\ PaneMoved(v, d, d.cursor, d.base)
    /\ ChosenIn(v) => ChosenIn(d)

LEMMA NextSelectedIs ==
    ASSUME NEW v, PaneIs(v), NEW dir \in {-1, 1}
    PROVE  NextIs(v, NextSelected(v, dir))
<1> DEFINE on == OnItem(v, v.cursor)
           start == IF on THEN v.cursor ELSE -1
           path == Iterate(v, start, dir)
           rest == IF on /\ NameAt(v, v.cursor) \in v.sel THEN Tail(path) ELSE path
           k == FirstOf(rest, SelectedIn(v))
<1>1. NextSelected(v, dir) = IF k > 0 THEN CursorTo(v, rest[k]) ELSE v
  BY DEF NextSelected, SelectedIn
<1>2. start \in Int /\ Count(v) \in Nat
  BY PaneHas
<1>3. rest = path \/ (rest = Tail(path) /\ Count(v) > 0)
  <2>1. on => Count(v) > 0
    BY <1>2, PaneHas DEF OnItem
  <2> HIDE DEF on, path
  <2> QED BY <2>1
<1>4. SelectedIn(v) \subseteq 0..(Count(v) - 1)
  BY DEF SelectedIn
<1> HIDE DEF start, rest
<1>5. k \in Nat /\ (k > 0 => rest[k] \in SelectedIn(v))
  BY <1>2, <1>3, <1>4, FoundIn
<1> HIDE DEF k, path
<1>6. CASE k > 0
  <2>1. PaneMoved(v, CursorTo(v, rest[k]), rest[k], v.base) /\ ChosenIn(CursorTo(v, rest[k]))
    BY <1>5, <1>6, ChosenMoved
  <2> QED BY <1>1, <1>6, <2>1 DEF NextIs, PaneMoved
<1>7. CASE ~(k > 0)
  BY <1>1, <1>7 DEF NextIs, PaneMoved
<1> QED BY <1>6, <1>7

(* The arrow keys. *)
LEMMA ArrowGood ==
    ASSUME MiniGood(MiniNow), NEW dir \in {1, -1}, Arrow(dir)
    PROVE  EndsGood
<1>1. StateIs(MiniNow) /\ MiniIs(mini) /\ PaneIs(pane) /\ MiniNow.mini = mini /\ MiniNow.pane = pane
      /\ ShownIs(MiniNow) /\ MiniNow.disk = onDisk
  BY GoodNow
<1>2. TextIs(MiniNow) /\ AskedIs(MiniNow) /\ RedRight(MiniNow) /\ ChosenRight(MiniNow)
  BY DEF MiniGood
<1>3. mini.mode \in {"path", "name", "shell", "if"}
  BY DEF Arrow
<1>4. CASE mini.mode = "path"
  <2> DEFINE leaf == mini.text.leaf
             w == SearchInDir(pane, leaf, dir)
             b == [MiniNow EXCEPT !.pane = SearchInDir(@, mini.text.leaf, dir)]
             r == [MiniNow EXCEPT !.pane = w]
  <2>1. MiniBecomes(b)
    BY <1>4 DEF Arrow
  <2>2. b = r
    BY <1>1
  <2>3. NearestTo(pane, leaf, dir, w)
    BY <1>1, SearchIs
  <2> HIDE DEF b, w
  <2>4. PanePut(MiniNow, w, r)
    BY <1>1, <2>3, StatePuts DEF NearestTo, PaneMoved
  <2> HIDE DEF r
  <2>5. StateIs(r) /\ r.mini = mini /\ r.pane = w /\ r.disk = onDisk
    BY <1>1, <2>4 DEF PanePut
  <2>6. w.items = pane.items /\ w.place = pane.place /\ w.filter = pane.filter /\ w.scanning = pane.scanning
    BY <2>3 DEF NearestTo, PaneMoved
  <2>7. ShownIs(r)
    BY <1>1, <2>5, <2>6, ShownAs
  <2>8. MatchesIn(w, leaf) = MatchesIn(pane, leaf)
    BY <2>6 DEF MatchesIn, Count, NameAt
  <2>9. pane.cursor \in MatchesIn(pane, leaf) => w.cursor \in MatchesIn(w, leaf)
    <3>1. SUFFICES ASSUME pane.cursor \in MatchesIn(pane, leaf) PROVE w.cursor \in MatchesIn(pane, leaf)
      BY <2>8
    <3>2. OnItem(pane, pane.cursor) /\ Matches(NameAt(pane, pane.cursor), leaf)
      BY <3>1 DEF MatchesIn, OnItem
    <3> QED BY <2>3, <3>2 DEF NearestTo
  <2>10. RedRight(r)
    BY <1>1, <1>2, <2>5, <2>6, <2>8, <2>9 DEF RedRight
  <2>11. TextIs(r) /\ AskedIs(r) /\ ChosenRight(r)
    BY <1>1, <1>2, <1>4, <2>5 DEF TextIs, AskedIs, ChosenRight
  <2>12. MiniGood(r)
    BY <2>5, <2>7, <2>10, <2>11 DEF MiniGood
  <2> QED BY <2>1, <2>2, <2>12, Becoming
<1>5. CASE mini.mode = "name"
  <2> DEFINE w == NextSelected(pane, dir)
             b == [MiniNow EXCEPT !.pane = NextSelected(@, dir)]
             r == [MiniNow EXCEPT !.pane = w]
  <2>1. MiniBecomes(b)
    BY <1>5 DEF Arrow
  <2>2. b = r
    BY <1>1
  <2>3. NextIs(pane, w)
    BY <1>1, NextSelectedIs
  <2> HIDE DEF b, w
  <2>4. PanePut(MiniNow, w, r)
    BY <1>1, <2>3, StatePuts DEF NextIs, PaneMoved
  <2> HIDE DEF r
  <2>5. StateIs(r) /\ r.mini = mini /\ r.pane = w /\ r.disk = onDisk
    BY <1>1, <2>4 DEF PanePut
  <2>6. w.items = pane.items /\ w.place = pane.place /\ w.filter = pane.filter /\ w.scanning = pane.scanning
        /\ w.sel = pane.sel
    BY <2>3 DEF NextIs, PaneMoved
  <2>7. ShownIs(r)
    BY <1>1, <2>5, <2>6, ShownAs
  <2>8. ChosenRight(r)
    BY <1>1, <1>2, <2>3, <2>5, <2>6 DEF ChosenRight, NextIs, ChosenIn
  <2>9. TextIs(r) /\ AskedIs(r) /\ RedRight(r)
    BY <1>1, <1>2, <1>5, <2>5 DEF TextIs, AskedIs, RedRight
  <2>10. MiniGood(r)
    BY <2>5, <2>7, <2>8, <2>9 DEF MiniGood
  <2> QED BY <2>1, <2>2, <2>10, Becoming
<1>6. CASE mini.mode \in {"shell", "if"}
  <2>1. MiniBecomes(Recall(-dir))
    BY <1>6 DEF Arrow
  <2> DEFINE pos == mini.recall + (-dir)
             to == IF pos < -1 THEN -1 ELSE pos
             line == IF pos < 0 THEN Words ELSE history[pos + 1]
             m == [mini EXCEPT !.recall = to, !.text = line]
             b == [MiniNow EXCEPT !.mini.recall = to, !.mini.text = line]
             r == [MiniNow EXCEPT !.mini = m]
  <2>2. Recall(-dir) = IF pos >= Len(history) THEN MiniNow ELSE b
    BY DEF Recall
  <2> HIDE DEF to, line, pos
  <2>3. b = r
    BY <1>1 DEF StateIs
  <2> HIDE DEF b
  <2>4. MiniIs(m) /\ m.mode = mini.mode /\ m.temp = mini.temp
    BY <1>1 DEF MiniIs
  <2> HIDE DEF m
  <2>5. CASE MiniBecomes(r)
    BY <1>6, <2>4, <2>5, LineGood
  <2>6. CASE MiniBecomes(MiniNow)
    BY <2>6, Becoming
  <2> HIDE DEF r
  <2> QED BY <2>1, <2>2, <2>3, <2>5, <2>6
<1> QED BY <1>3, <1>4, <1>5, <1>6
(* A file comes or goes. *)
LEMMA ToSetFinite ==
    ASSUME NEW T, NEW s \in Seq(T)
    PROVE  IsFiniteSet(ToSet(s))
<1> DEFINE n == Len(s)
           U == ToSet(s)
<1>1. n \in Nat /\ s \in [1..n -> T]
  OBVIOUS
<1>2. U = {s[k] : k \in 1..n}
  BY <1>1 DEF ToSet
<1> HIDE DEF n, U
<1>3. s \in [1..n -> U] /\ \A t \in U : \E k \in 1..n : s[k] = t
  BY <1>1, <1>2
<1>4. s \in Surjection(1..n, U)
  BY <1>3 DEF Surjection
<1>5. IsFiniteSet(1..n)
  BY <1>1, FS_Interval
<1> QED BY <1>4, <1>5, FS_Surjection DEF U

LEMMA FileGood ==
    ASSUME MiniGood(MiniNow), NEW n \in ToSet(NameOrder), FileComesOrGoes(n)
    PROVE  EndsGood
<1> DEFINE d == (onDisk \cup {n}) \ (onDisk \cap {n})
           s == [MiniNow EXCEPT !.disk = (@ \cup {n}) \ (@ \cap {n}), !.mini.fresh = FALSE]
           old == ToSet(pane.items)
           new == IF n \in onDisk THEN old \ {n} ELSE old \cup ({n} \cap ToSet(Displayed(s)))
           before == {x \in new : \E k \in 1..(pane.cursor + 1) : pane.items[k] = x}
           b == [s EXCEPT !.pane.items = ViewOrder(new), !.pane.sel = @ \ {n},
                          !.pane.cursor = IF OnItem(pane, @) THEN Cardinality(before) - 1 ELSE @]
<1>1. ~pane.scanning /\ MiniBecomes(b)
  BY DEF FileComesOrGoes
<1>2. StateIs(MiniNow) /\ MiniIs(mini) /\ PaneIs(pane) /\ MiniNow.mini = mini /\ MiniNow.pane = pane
      /\ ShownIs(MiniNow) /\ MiniNow.disk = onDisk
  BY GoodNow
<1> DEFINE off == FALSE
           m == [mini EXCEPT !.fresh = off]
           items == ViewOrder(new)
           sel == pane.sel \ {n}
           c == IF OnItem(pane, pane.cursor) THEN Cardinality(before) - 1 ELSE pane.cursor
           w == [pane EXCEPT !.items = items, !.sel = sel, !.cursor = c]
<1>3. off \in BOOLEAN
  OBVIOUS
<1>4. s.mini = m /\ s.pane = pane /\ s.disk = d /\ s \in [mini : {s.mini}, pane : {s.pane}, disk : {s.disk}]
  BY <1>2 DEF StateIs
<1> HIDE DEF off, s, d, m
<1>5. MiniIs(m) /\ m.temp = mini.temp
  BY <1>2, <1>3 DEF MiniIs, m
<1>6. items \in Seq(MiniName) /\ ToSet(items) = new \cap ToSet(NameOrder)
  <2> HIDE DEF new
  <2> QED BY ViewOrderIs
<1>7. c \in Int
  <2>1. new \subseteq old \cup {n}
    OBVIOUS
  <2>2. IsFiniteSet(old)
    BY <1>2, PaneHas, ToSetFinite
  <2> HIDE DEF old, new
  <2>3. IsFiniteSet(old \cup {n})
    BY <2>2, FS_AddElement
  <2>4. before \subseteq old \cup {n}
    BY <2>1
  <2> HIDE DEF before
  <2>5. IsFiniteSet(before)
    BY <2>3, <2>4, FS_Subset
  <2>6. Cardinality(before) \in Nat
    BY <2>5, FS_CardinalityType
  <2> QED BY <1>2, <2>6, PaneHas
<1>8. b.mini = m /\ b.disk = d /\ b.pane = w /\ b \in [mini : {b.mini}, pane : {b.pane}, disk : {b.disk}]
  <2> HIDE DEF items, before
  <2>1. b = [s EXCEPT !.pane.items = items, !.pane.sel = @ \ {n},
                      !.pane.cursor = IF OnItem(pane, @) THEN Cardinality(before) - 1 ELSE @]
    BY DEF items
  <2> QED BY <1>4, <2>1
<1> HIDE DEF b, items, c, sel
<1>9. PaneIs(w) /\ w.items = items /\ w.place = pane.place /\ w.filter = pane.filter /\ w.scanning = pane.scanning
  BY <1>2, <1>6, <1>7 DEF PaneIs
<1> HIDE DEF w
<1>10. StateIs(b)
  BY <1>5, <1>8, <1>9 DEF StateIs
<1>11. Displayed(b) = Displayed(s)
  BY <1>4, <1>5, <1>8, <1>9, DisplayedAs
<1>12. ShownIs(b)
  <2>1. SUFFICES ASSUME mini.temp PROVE ToSet(items) = ToSet(Displayed(s))
    BY <1>5, <1>8, <1>9, <1>11 DEF ShownIs, AllShown
  <2>2. old = {x \in ToSet(NameOrder) : InPane(MiniNow, x)}
    BY <1>1, <1>2, <2>1, DisplayedIs DEF ShownIs, AllShown
  <2>3. ToSet(Displayed(s)) = {x \in ToSet(NameOrder) : InPane(s, x)}
    BY DisplayedIs
  <2> DEFINE O == ToSet(NameOrder)
             P(x) == InPane(MiniNow, x)
             Q(x) == InPane(s, x)
  <2>4. \A x : x # n => (P(x) <=> Q(x))
    BY <1>2, <1>4, <1>5 DEF InPane, d
  <2>5. Q(n) => n \notin onDisk
    BY <1>4 DEF InPane, d
  <2>6. P(n) => n \in onDisk
    BY <1>2 DEF InPane
  <2> DEFINE D == ToSet(Displayed(s))
  <2>7. ToSet(items) = new \cap O /\ new = IF n \in onDisk THEN old \ {n} ELSE old \cup ({n} \cap D)
    BY <1>6
  <2>8. old = {x \in O : P(x)} /\ D = {x \in O : Q(x)}
    BY <2>2, <2>3
  <2> HIDE DEF P, Q, O, D, old, new
  <2>9. ToSet(items) = D
    BY <2>4, <2>5, <2>6, <2>7, <2>8
  <2> QED BY <2>9 DEF D
<1>13. MiniGood(b)
  BY <1>2, <1>8, <1>9, <1>10, <1>12, StaleGood DEF m, off
<1> QED BY <1>1, <1>13, Becoming

--------------------
(* All of the steps. *)
MiniInv == MiniGood(MiniNow) /\ TabIs(tabbed)

LEMMA MiniStarts ==
    ASSUME MiniInit
    PROVE  MiniInv
<1> DEFINE off == FALSE
           none == -1
           S(p) == {x \in ToSet(NameOrder) : x \in Contents[p] /\ x[1] # "."}
<1>1. PICK p \in Place :
        /\ mini = [mode |-> "none", text |-> Blank, error |-> off, temp |-> off, idles |-> 0,
                   recall |-> none, fresh |-> off]
        /\ pane = [place |-> p, items |-> ViewOrder(S(p)),
                   cursor |-> none, base |-> none, sel |-> {}, filter |-> "all", had |-> off,
                   select |-> << >>, scanning |-> off]
        /\ tabbed = NoTab
  BY DEF MiniInit
<1>2. ViewOrder(S(p)) \in Seq(MiniName)
  <2> DEFINE T == S(p)
  <2> HIDE DEF T, S
  <2>1. ViewOrder(T) \in Seq(MiniName)
    BY ViewOrderIs
  <2> QED BY <2>1 DEF T
<1>3. off \in BOOLEAN /\ none \in Int /\ ~off
  OBVIOUS
<1> HIDE DEF off, none, S
<1>4. MiniIs(mini) /\ mini.mode = "none" /\ ~mini.temp
  BY <1>1, <1>3 DEF MiniIs
<1>5. PaneIs(pane)
  BY <1>1, <1>2, <1>3 DEF PaneIs
<1> DEFINE s == MiniNow
<1>6. s.mini = mini /\ s.pane = pane /\ s \in [mini : {s.mini}, pane : {s.pane}, disk : {s.disk}]
  BY DEF MiniNow
<1> HIDE DEF s
<1>7. StateIs(s)
  BY <1>4, <1>5, <1>6 DEF StateIs
<1>8. TextIs(s) /\ AskedIs(s) /\ ShownIs(s) /\ RedRight(s) /\ ChosenRight(s)
  BY <1>4, <1>6 DEF TextIs, AskedIs, ShownIs, RedRight, ChosenRight
<1>9. MiniGood(s)
  BY <1>7, <1>8 DEF MiniGood
<1>10. TabIs(tabbed)
  BY <1>1 DEF TabIs
<1> QED BY <1>9, <1>10 DEF MiniInv, s

LEMMA MiniStep ==
    ASSUME MiniInv, MiniNext
    PROVE  EndsGood /\ TabIs(tabbed')
<1>1. MiniGood(MiniNow) /\ TabIs(tabbed)
  BY DEF MiniInv
<1> HIDE DEF MiniInv
<1>2. MiniKeys \/ MiniOutside
  BY DEF MiniNext
<1>3. UNCHANGED tabbed => TabIs(tabbed')
  BY <1>1
<1>4. CASE MiniOutside
  <2>1. UNCHANGED tabbed
    BY <1>4 DEF MiniOutside
  <2>2. \/ ScanEnds \/ ClickedBeside \/ \E n \in ToSet(NameOrder) : FileComesOrGoes(n)
        \/ \E p \in Place, known \in BOOLEAN : LedElsewhere(p, known)
        \/ MiniBecomes(MiniNow)
    BY <1>4 DEF MiniOutside
  <2>3. EndsGood
    BY <1>1, <2>2, ScanGood, ClickGood, FileGood, LedGood, Becoming
  <2> QED BY <1>3, <2>1, <2>3
<1>5. CASE MiniKeys
  <2>1. \/ \E mode \in {"path", "shell", "if", "name", "filter"} : ShowMini(mode) /\ UNCHANGED <<history, tabbed>>
        \/ \E known \in BOOLEAN, p \in Place \cup {Nowhere}, leaf \in Leaf \cup {<< >>} :
             TypePath([place |-> p, leaf |-> leaf], known)
        \/ \E known \in BOOLEAN : Tab(known)
        \/ \E known \in BOOLEAN, works \in BOOLEAN : ReturnPath(known, works)
        \/ \E p \in Pattern : TypeName(p)
        \/ \E line \in Command \cup Condition \cup Pattern \cup {"all"} : TypeLine(line)
        \/ Escape \/ ReturnLine \/ IdleShow
        \/ \E dir \in {1, -1} : Arrow(dir)
    BY <1>5 DEF MiniKeys
  <2>2. CASE \E mode \in {"path", "shell", "if", "name", "filter"} : ShowMini(mode) /\ UNCHANGED <<history, tabbed>>
    BY <1>1, <1>3, <2>2, ShowGood
  <2>3. CASE \E known \in BOOLEAN, p \in Place \cup {Nowhere}, leaf \in Leaf \cup {<< >>} :
               TypePath([place |-> p, leaf |-> leaf], known)
    <3>1. PICK known \in BOOLEAN, p \in Place \cup {Nowhere}, leaf \in Leaf \cup {<< >>} :
            TypePath([place |-> p, leaf |-> leaf], known)
      BY <2>3
    <3> DEFINE text == [place |-> p, leaf |-> leaf]
    <3>2. leaf \in Seq(Letter)
      <4>1. << >> \in Seq(Letter)
        OBVIOUS
      <4>2. leaf \in Leaf \/ leaf = << >>
        OBVIOUS
      <4> QED BY <4>1, <4>2, MiniAssumption
    <3>3. text \in PathText
      BY <3>2 DEF PathText
    <3>4. UNCHANGED tabbed
      BY <3>1 DEF TypePath
    <3> HIDE DEF text
    <3>5. TypePath(text, known)
      BY <3>1 DEF text
    <3> QED BY <1>1, <1>3, <3>3, <3>4, <3>5, TypePathGood
  <2>4. CASE \E known \in BOOLEAN : Tab(known)
    BY <1>1, <2>4, TabGood
  <2>5. CASE \E known \in BOOLEAN, works \in BOOLEAN : ReturnPath(known, works)
    <3>1. UNCHANGED tabbed
      BY <2>5 DEF ReturnPath
    <3> QED BY <1>1, <1>3, <2>5, <3>1, ReturnPathGood
  <2>6. CASE \E p \in Pattern : TypeName(p)
    <3>1. UNCHANGED tabbed
      BY <2>6 DEF TypeName
    <3> QED BY <1>1, <1>3, <2>6, <3>1, TypeNameGood
  <2>7. CASE \E line \in Command \cup Condition \cup Pattern \cup {"all"} : TypeLine(line)
    <3>1. UNCHANGED tabbed
      BY <2>7 DEF TypeLine
    <3> QED BY <1>1, <1>3, <2>7, <3>1, TypeLineGood
  <2>8. CASE Escape
    <3>1. UNCHANGED tabbed
      BY <2>8 DEF Escape
    <3> QED BY <1>1, <1>3, <2>8, <3>1, EscapeGood
  <2>9. CASE ReturnLine
    <3>1. UNCHANGED tabbed
      BY <2>9 DEF ReturnLine
    <3> QED BY <1>1, <1>3, <2>9, <3>1, ReturnLineGood
  <2>10. CASE IdleShow
    <3>1. UNCHANGED tabbed
      BY <2>10 DEF IdleShow
    <3> QED BY <1>1, <1>3, <2>10, <3>1, IdleGood
  <2>11. CASE \E dir \in {1, -1} : Arrow(dir)
    <3>1. UNCHANGED tabbed
      BY <2>11 DEF Arrow
    <3> QED BY <1>1, <1>3, <2>11, <3>1, ArrowGood
  <2> QED BY <2>1, <2>2, <2>3, <2>4, <2>5, <2>6, <2>7, <2>8, <2>9, <2>10, <2>11
<1> QED BY <1>2, <1>4, <1>5

LEMMA InvFollows ==
    ASSUME MiniInv
    PROVE  MiniFollows
<1> DEFINE v == pane
           text == mini.text
           leaf == text.leaf
           on == OnItem(v, v.cursor)
           n == Count(v)
           found(dir) == SearchInDir(v, leaf, dir).cursor
<1>1. MiniGood(MiniNow) /\ TabIs(tabbed)
  BY DEF MiniInv
<1>2. PaneIs(v) /\ MiniNow.mini = mini /\ MiniNow.pane = pane /\ ShownIs(MiniNow)
  BY <1>1, GoodNow
<1>3. AskedIs(MiniNow) /\ RedRight(MiniNow) /\ ChosenRight(MiniNow)
  BY <1>1 DEF MiniGood
<1>4. mini.temp => mini.mode # "none"
  BY <1>2, <1>3 DEF AskedIs
<1>5. mini.mode = "name" /\ mini.fresh =>
         /\ v.sel = Globs[text] \cap ToSet(v.items)
         /\ v.sel # {} => on /\ NameAt(v, v.cursor) \in v.sel
  BY <1>2, <1>3 DEF ChosenRight
<1>6. tabbed # NoTab =>
        /\ \A x \in tabbed.hits : Matches(x, tabbed.new)
        /\ ~\E c \in DOMAIN Fold : \A x \in tabbed.hits : Matches(x, Append(tabbed.new, c))
  BY <1>1 DEF TabIs
<1>7. ASSUME mini.mode = "path", text # Blank
      PROVE  /\ mini.idles = 0 /\ ~mini.error => text.place = v.place
             /\ mini.fresh /\ text.place = v.place =>
                  /\ mini.error <=> MatchesIn(v, leaf) = {}
                  /\ ~mini.error => v.cursor \in MatchesIn(v, leaf)
                  /\ Dotted(leaf) => mini.temp
  BY <1>2, <1>3, <1>7 DEF RedRight
<1>8. MatchesIn(v, leaf) = {} <=> ~\E x \in ToSet(v.items) : Matches(x, leaf)
  <2>1. \A i \in 0..(Count(v) - 1) : NameAt(v, i) \in ToSet(v.items)
    BY <1>2, PaneHas
  <2>2. \A x \in ToSet(v.items) : \E i \in 0..(Count(v) - 1) : NameAt(v, i) = x
    BY <1>2, PaneHas
  <2> HIDE DEF leaf, v
  <2> QED BY <2>1, <2>2 DEF MatchesIn
<1>9. v.cursor \in MatchesIn(v, leaf) => on /\ Matches(NameAt(v, v.cursor), leaf)
  BY DEF MatchesIn, OnItem
<1>10. ASSUME v.cursor \in MatchesIn(v, leaf), NEW dir \in {1, -1}
       PROVE  /\ Matches(NameAt(v, found(dir)), leaf)
              /\ \A i \in 0..(n - 1) : Matches(NameAt(v, i), leaf) =>
                   ((dir * (found(dir) - v.cursor) - 1) % n) + 1 <= ((dir * (i - v.cursor) - 1) % n) + 1
  <2> HIDE DEF v, leaf
  <2>1. NearestTo(v, leaf, dir, SearchInDir(v, leaf, dir))
    BY <1>2, SearchIs
  <2>2. found(dir) \in MatchesIn(v, leaf) /\ \A i \in MatchesIn(v, leaf) :
           StepsTo(n, v.cursor, dir, found(dir)) <= StepsTo(n, v.cursor, dir, i)
    BY <1>9, <1>10, <2>1 DEF NearestTo
  <2> HIDE DEF found
  <2> QED BY <2>2 DEF MatchesIn, StepsTo
<1>11. Dotted(leaf) <=> leaf # << >> /\ leaf[1] = "."
  BY DEF Dotted
<1>12. mini.temp /\ ~v.scanning => ToSet(v.items) = ToSet(Displayed(MiniNow))
  BY <1>2 DEF ShownIs, AllShown
<1> HIDE DEF found, on, leaf, text, v, n
<1>13. mini.mode = "path" /\ text # Blank =>
            /\ mini.idles = 0 /\ ~mini.error => text.place = v.place
            /\ mini.fresh /\ text.place = v.place =>
                 /\ mini.error <=> ~\E x \in ToSet(v.items) : Matches(x, leaf)
                 /\ ~mini.error => on /\ Matches(NameAt(v, v.cursor), leaf)
                 /\ ~mini.error => \A dir \in {1, -1} :
                         /\ Matches(NameAt(v, found(dir)), leaf)
                         /\ \A i \in 0..(n - 1) : Matches(NameAt(v, i), leaf) =>
                              ((dir * (found(dir) - v.cursor) - 1) % n) + 1 <= ((dir * (i - v.cursor) - 1) % n) + 1
                 /\ leaf # << >> /\ leaf[1] = "." /\ ~v.scanning => ToSet(v.items) = ToSet(Displayed(MiniNow))
  BY <1>7, <1>8, <1>9, <1>10, <1>11, <1>12
<1> QED BY <1>4, <1>5, <1>6, <1>13 DEF MiniFollows, found, on, leaf, text, v, n

--------------------
(* Whatever is typed, completed or searched for in a minibuffer, and what- *)
(* ever happens to the window in between, the path is red exactly if no *)
(* file of the window goes on like it and has the cursor on one otherwise, *)
(* a pattern has its files selected, Tab fills in what all that go on like *)
(* the typed name have in common, and hidden files are asked for only by *)
(* an open minibuffer (minibuffer.c). *)
THEOREM MiniAlwaysFollows == MiniSpec => []MiniFollows
<1>1. MiniInit => MiniInv
  BY MiniStarts
<1>2. MiniInv /\ [MiniNext]_miniVars => MiniInv'
  <2>1. ASSUME MiniInv, MiniNext PROVE MiniInv'
    <3>1. EndsGood /\ TabIs(tabbed')
      BY <2>1, MiniStep
    <3> QED BY <3>1 DEF EndsGood, MiniNext1, MiniInv, MiniNow
  <2>2. ASSUME MiniInv, UNCHANGED miniVars PROVE MiniInv'
    BY <2>2 DEF miniVars, MiniInv, MiniNow
  <2> QED BY <2>1, <2>2
<1>3. MiniInv => MiniFollows
  BY InvFollows
<1> QED BY <1>1, <1>2, <1>3, PTL DEF MiniSpec
=============================================================================

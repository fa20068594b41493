----------------------------- MODULE BulkRename -----------------------------
(* The bulk rename box (bulk_rename.c): a table of old and new names that   *)
(* is checked as a whole and then worked off row by row, while other        *)
(* programs create and delete files.  A name may reach another directory    *)
(* or be a second spelling of a path, and access() does not see a symbolic  *)
(* link that leads nowhere.                                                 *)
EXTENDS Integers, Sequences

CONSTANTS Name,          \* the names that can be typed, "" included
          Slashed,       \* those that contain a /
          PathOf,        \* the path a name stands for, in the box's directory
          Listed0,       \* the names the box is opened on
          MaxOthers      \* bound: steps of other programs

VARIABLES
    rows,    \* the list store: old and new name of each row
    stage,   \* "edit", "confirm" (a dialog runs), "look", "rename", "closed"
    entry,   \* entry[p]: the file at p, "dangling", or "none"
    lost,    \* what a rename of the box replaced, and what it had seen of it
    others   \* the steps of other programs

Paths  == {PathOf[n] : n \in Name \ {""}}

(* The box is opened on the leafnames of items of one directory, which      *)
(* stand for different paths; a file is named by the path it was listed at. *)
ASSUME BulkAssumption ==
    /\ MaxOthers \in Nat
    /\ Listed0 \in Seq(Name \ {""})
    /\ \A i, j \in DOMAIN Listed0 : PathOf[Listed0[i]] = PathOf[Listed0[j]] => i = j
    /\ Paths \cap {"none", "dangling", "file", "unseen"} = {}

Exists(p) == entry[p] \notin {"none", "dangling"}       \* access(p, F_OK) == 0
Renames(r) == r.new # "" /\ r.new # r.old

BulkInit ==
    /\ rows = [i \in DOMAIN Listed0 |-> [old |-> Listed0[i], new |-> Listed0[i]]]
    /\ stage = "edit" /\ lost = {} /\ others = 0
    /\ entry = [p \in Paths |-> IF \E i \in DOMAIN Listed0 : PathOf[Listed0[i]] = p THEN p ELSE "none"]

(* A cell is edited; a substitution changes some new names; Reset. *)
CellEdited(i, n) ==
    /\ stage = "edit" /\ i \in DOMAIN rows
    /\ rows' = [rows EXCEPT ![i].new = n]
    /\ UNCHANGED <<stage, entry, lost, others>>

(* What an expression matches, and what subst makes of it, is left open. *)
ApplyReplace(matched, result) ==
    /\ stage = "edit"
    /\ rows' = [i \in DOMAIN rows |-> IF i \in matched THEN [rows[i] EXCEPT !.new = result[i]] ELSE rows[i]]
    /\ UNCHANGED <<stage, entry, lost, others>>

ResetModel ==
    /\ stage = "edit"
    /\ rows' = [i \in DOMAIN rows |-> [rows[i] EXCEPT !.new = rows[i].old]]
    /\ UNCHANGED <<stage, entry, lost, others>>

(* rename_items, first pass.  A name that is in the table so far may not    *)
(* come again, as an old or a new one, and no new name may exist.           *)
NamesBefore(i) == UNION {{rows[j].old} \cup (IF Renames(rows[j]) THEN {rows[j].new} ELSE {}) :
                         j \in 1..(i - 1)}
RowIsFine(i) ==
    /\ rows[i].old \notin NamesBefore(i)
    /\ Renames(rows[i]) =>
         /\ rows[i].new \notin NamesBefore(i)
         /\ ~Exists(PathOf[rows[i].new])

RenameItems ==
    /\ stage = "edit"
    /\ stage' = IF \E i \in DOMAIN rows : ~RowIsFine(i) THEN "edit"
                ELSE IF \E i \in DOMAIN rows : rows[i].new \in Slashed THEN "confirm"
                ELSE IF \E i \in DOMAIN rows : Renames(rows[i]) THEN "look" ELSE "edit"
    /\ UNCHANGED <<rows, entry, lost, others>>

Confirm(yes) ==
    /\ stage = "confirm"
    /\ stage' = IF yes /\ \E i \in DOMAIN rows : Renames(rows[i]) THEN "look" ELSE "edit"
    /\ UNCHANGED <<rows, entry, lost, others>>

(* Second pass: the first row is skipped, or looked at again, renamed and   *)
(* removed; an error leaves it and the rest in the table.  The box closes   *)
(* with the last row.                                                       *)
RowDone == rows' = Tail(rows) /\ stage' = IF Len(rows) = 1 THEN "closed" ELSE "look"

(* Mutant: the table has been checked, so the row is not. *)
LookAgainAtNothing ==
    /\ stage = "look"
    /\ IF ~Renames(rows[1]) THEN RowDone ELSE stage' = "rename" /\ UNCHANGED rows
    /\ UNCHANGED <<entry, lost, others>>

LookAgain ==
    /\ stage = "look"
    /\ IF ~Renames(rows[1]) THEN RowDone
       ELSE stage' = (IF Exists(PathOf[rows[1].new]) THEN "edit" ELSE "rename") /\ UNCHANGED rows
    /\ UNCHANGED <<entry, lost, others>>

DoRename(works) ==
    LET from == PathOf[rows[1].old]
        to   == PathOf[rows[1].new]
    IN /\ stage = "rename"
       /\ IF entry[from] = "none" \/ ~works THEN stage' = "edit" /\ UNCHANGED <<rows, entry, lost>>
          ELSE /\ entry' = IF from = to THEN entry ELSE [entry EXCEPT ![from] = "none", ![to] = entry[from]]
               /\ lost' = IF from = to THEN lost ELSE lost \cup {entry[to]}
               /\ RowDone
       /\ UNCHANGED others

Close == stage = "edit" /\ stage' = "closed" /\ UNCHANGED <<rows, entry, lost, others>>

(* Other programs.  What they put at a path that was just looked at is new. *)
OtherProgram(p, e) ==
    /\ others < MaxOthers /\ others' = others + 1
    /\ entry[p] # e /\ (e = "none" \/ entry[p] = "none")
    /\ entry' = [entry EXCEPT ![p] = IF e = "file" /\ stage = "rename" /\ p = PathOf[rows[1].new]
                                     THEN "unseen" ELSE e]
    /\ UNCHANGED <<rows, stage, lost>>

BulkNext ==
    \/ \E i \in DOMAIN rows, n \in Name : CellEdited(i, n)
    \/ \E S \in SUBSET DOMAIN rows : \E f \in [S -> Name] : ApplyReplace(S, f)
    \/ ResetModel \/ RenameItems \/ LookAgain \/ Close
    \/ \E b \in BOOLEAN : Confirm(b) \/ DoRename(b)
    \/ \E p \in Paths, e \in {"file", "dangling", "none"} : OtherProgram(p, e)

bulkVars == <<rows, stage, entry, lost, others>>

BulkSpec == BulkInit /\ [][BulkNext]_bulkVars

--------------------
(* Names that stand for one path, rows that swap names, and files that come *)
(* and go during the dialog: a bulk rename still replaces no file, except   *)
(* one created between access and rename, and links that lead nowhere.  And *)
(* after an error the table has exactly the rows that are not done: their   *)
(* files are still where they were, if no other program took them.          *)
NothingReplaced ==
    /\ lost \subseteq {"none", "dangling", "unseen"}
    /\ others = 0 => \A i \in DOMAIN rows : entry[PathOf[rows[i].old]] = PathOf[rows[i].old]
=============================================================================

---------------------------- MODULE EntryAction ----------------------------
(* The actions that have an entry box (Find, Permissions, Set type), and   *)
(* Disk Usage, which has none (action.c).  What the user types goes to the *)
(* child through the same pipe as the answers and the option boxes, and the*)
(* child compiles it when it next has a use for it.  Cancel, and what the  *)
(* actions on files do, are in Action.                                     *)
EXTENDS Naturals, SequencesExt, FiniteSets

CONSTANTS EFile,       \* the files an action comes to
          FilesIn,     \* the contents of a directory; <<>> for anything else
          Chosen,      \* the list it is started on
          Text, Valid, \* what may be typed, what compiles
          NoText, NoItem,
          MaxTyping,   \* bound: changes of the entry
          MaxClicks,   \* bound: clicks on the option boxes
          MaxSearches  \* bound: searches of one Find

ASSUME EntryAssumption ==
    /\ FilesIn \in [EFile -> Seq(EFile)] /\ Chosen \in Seq(EFile) /\ NoItem \notin EFile
    /\ Valid \subseteq Text /\ NoText \notin Text
    /\ MaxTyping \in Nat /\ MaxClicks \in Nat /\ MaxSearches \in Nat

VARIABLES
    ekind,   \* what is done
    ewin,    \* the window: entry, boxes, question, results
    echild,  \* the child
    eDown,   \* to the child: answers, boxes, texts
    eUp,     \* to the window
    eDone    \* what was last done to a file, and what the entry said when it was agreed to

entryVars == <<ekind, ewin, echild, eDown, eUp, eDone>>

HasEntry == ekind # "usage"
IsFolder(i) == FilesIn[i] # <<>>
AskAbout(i) == [type |-> "?", item |-> i]
TextByte(t) == [type |-> "E", text |-> t]
Sign(c) == [type |-> c, text |-> NoText]
Errs(n) == [k \in 1..n |-> [type |-> "!", item |-> NoItem]]

EntryInit ==
    /\ ekind \in {"find", "chmod", "settype", "usage"}
    /\ \E t \in Text, recurse \in BOOLEAN :
          LET quiet == ekind = "usage" IN
          /\ ewin = [open |-> TRUE, alive |-> TRUE, text |-> t, quiet |-> quiet, recurse |-> recurse,
                     question |-> FALSE, asked |-> NoItem, results |-> {}, errors |-> FALSE,
                     typing |-> 0, clicks |-> 0]
          /\ echild = [pc |-> "next", quiet |-> quiet, recurse |-> recurse, new |-> t, compiled |-> NoText,
                       todo |-> Chosen, item |-> NoItem, replied |-> FALSE, searches |-> 1]
    /\ eDown = <<>> /\ eUp = <<>>
    /\ eDone = [acted |-> {}, yes |-> [i \in EFile |-> NoText], came |-> [i \in EFile |-> NoText]]

--------------------
(* process_flag, and read_new_entry_text for an E. *)
Processed(c, b) ==
    CASE b.type = "Q" -> [c EXCEPT !.quiet = ~@]
      [] b.type = "R" -> [c EXCEPT !.recurse = ~@]
      [] b.type = "E" -> [c EXCEPT !.new = b.text]
      [] OTHER -> c                                     \* "Bad message", which is never sent

(* The bytes or messages of these types in a pipe. *)
Places(s, types) == {k \in DOMAIN s : s[k].type \in types}
Number(s, types) == Cardinality(Places(s, types))
OddlyMany(x) == Number(eDown, {x}) % 2 = 1

(* check_flags: all that has come, so that the last text counts. *)
CheckFlags ==
    LET texts == Places(eDown, {"E"}) IN
    [echild EXCEPT !.quiet = (@ # OddlyMany("Q")), !.recurse = (@ # OddlyMany("R")),
                   !.new = IF texts = {} THEN @ ELSE eDown[Max(texts)].text]

(* Mutant: the text is compiled only if there is no condition yet. *)
CompileFirst(c) ==
    IF c.new = NoText \/ c.compiled # NoText THEN c
    ELSE [c EXCEPT !.compiled = IF c.new \in Valid THEN c.new ELSE NoText, !.new = NoText]

(* The new text replaces the condition, the mode or the type, also if it    *)
(* means nothing.                                                           *)
Compile(c) ==
    IF c.new = NoText THEN c
    ELSE [c EXCEPT !.compiled = IF c.new \in Valid THEN c.new ELSE NoText, !.new = NoText]

(* The loop before an action: until it can be used, the user is asked again,*)
(* Quiet or not.                                                            *)
Ready(c) == ~HasEntry \/ c.compiled # NoText
Loop(c) ==
    LET compiled == Compile(c) IN
    IF Ready(compiled) THEN [child |-> [compiled EXCEPT !.pc = "act"], says |-> << >>]
    ELSE [child |-> [compiled EXCEPT !.pc = "ask", !.replied = TRUE], says |-> Errs(1) \o <<AskAbout(compiled.item)>>]

ESend(messages) == eUp' = eUp \o messages

--------------------
(* do_find, do_chmod, do_settype and do_usage, up to the first question.  A *)
(* link is passed over by chmod and settype, a plain file is counted.       *)
NextItem ==
    /\ echild.pc = "next" /\ echild.todo # <<>>
    /\ LET i == Head(echild.todo)
           c == [CheckFlags EXCEPT !.item = i, !.todo = Tail(@), !.replied = FALSE]
           asks == ~c.quiet /\ (ekind = "usage" => IsFolder(i))
       IN  /\ \E failed \in BOOLEAN :
                 \/ /\ failed /\ ekind # "find"                   \* lstat
                    /\ echild' = c /\ ESend(Errs(1))
                 \/ /\ ~failed /\ asks
                    /\ echild' = [c EXCEPT !.pc = "ask", !.replied = TRUE] /\ ESend(<<AskAbout(i)>>)
                 \/ /\ ~failed /\ ~asks
                    /\ echild' = Loop(c).child /\ ESend(Loop(c).says)
           /\ eDone' = [eDone EXCEPT !.came[i] = ewin.text, !.acted = {a \in @ : a.item # i}]
    /\ eDown' = <<>>
    /\ UNCHANGED <<ekind, ewin>>

(* One turn of printf_reply's loop.  The item is NoItem when Find asks      *)
(* whether there is to be another search.                                   *)
Reply ==
    /\ echild.pc = "ask" /\ eDown # <<>>
    /\ LET b == Head(eDown)
           again == [echild EXCEPT !.pc = "next", !.todo = Chosen, !.searches = @ + 1]
       IN IF b.type = "Y"
          THEN IF echild.item = NoItem
               THEN echild' = again /\ ESend(<<[type |-> "#", item |-> NoItem]>>)
               ELSE echild' = Loop(echild).child /\ ESend(Loop(echild).says)
          ELSE IF b.type = "N"
          THEN echild' = [echild EXCEPT !.pc = IF echild.item = NoItem THEN "over" ELSE "next"] /\ ESend(<<>>)
          ELSE echild' = Processed(echild, b) /\ ESend(<<>>)
    /\ eDown' = Tail(eDown)
    /\ UNCHANGED <<ekind, ewin, eDone>>

(* The rest: test the file, change its mode, set its type or count it, then *)
(* go into a directory.  Permissions and types do so only with Recurse, and *)
(* a search unless the condition prunes.                                    *)
Act ==
    /\ echild.pc = "act"
    /\ LET i == echild.item
           inner == IF IsFolder(i) THEN FilesIn[i] ELSE <<>>
           does  == [item |-> i, text |-> IF HasEntry THEN echild.compiled ELSE NoText, asked |-> echild.replied]
       IN \E ok, enters, readable \in BOOLEAN :
             /\ ~ok => ~enters \/ ekind = "find"
             /\ enters => IsFolder(i) /\ (ekind \in {"chmod", "settype"} => echild.recurse)
             /\ readable => enters
             /\ ekind \in {"chmod", "settype"} /\ ok /\ IsFolder(i) /\ echild.recurse => enters
             /\ ekind = "usage" => ok /\ (IsFolder(i) => enters)
             /\ echild' = [echild EXCEPT !.pc = "next", !.todo = (IF readable THEN inner ELSE <<>>) \o @]
             /\ eDone' = IF ok /\ (ekind = "settype" => ~IsFolder(i)) THEN [eDone EXCEPT !.acted = @ \cup {does}] ELSE eDone
             /\ ESend((IF ekind = "find" /\ ok THEN <<[type |-> "=", item |-> i]>>
                       ELSE IF ekind # "find" /\ ~ok THEN Errs(1) ELSE <<>>)
                      \o (IF enters /\ ~readable THEN Errs(1) ELSE <<>>))
    /\ UNCHANGED <<ekind, ewin, eDown>>

(* The list is done.  find_cb starts again as long as the user wants. *)
ListDone ==
    /\ echild.pc = "next" /\ echild.todo = <<>>
    /\ IF ekind = "find" /\ echild.searches <= MaxSearches
       THEN echild' = [echild EXCEPT !.pc = "ask", !.item = NoItem] /\ ESend(<<AskAbout(NoItem)>>)
       ELSE echild' = [echild EXCEPT !.pc = "over"] /\ ESend(<<>>)
    /\ UNCHANGED <<ekind, ewin, eDown, eDone>>

--------------------
(* To the child, while there is one. *)
SendDown(bytes) == eDown' = IF ewin.alive THEN eDown \o bytes ELSE eDown

(* entry_changed. *)
EntryChanged(t) ==
    /\ ewin.open /\ HasEntry /\ t # ewin.text /\ ewin.typing < MaxTyping
    /\ ewin' = [ewin EXCEPT !.text = t, !.typing = @ + 1]
    /\ SendDown(<<TextByte(t)>>)
    /\ UNCHANGED <<ekind, echild, eUp, eDone>>

EntryAnswer(yes) ==
    /\ ewin.open /\ ewin.question
    /\ ewin' = [ewin EXCEPT !.question = FALSE]
    /\ SendDown(<<Sign(IF yes THEN "Y" ELSE "N")>>)
    /\ eDone' = IF yes /\ ewin.asked # NoItem THEN [eDone EXCEPT !.yes[ewin.asked] = ewin.text] ELSE eDone
    /\ UNCHANGED <<ekind, echild, eUp>>

BoxClicked(x) ==
    /\ ewin.open /\ ewin.clicks < MaxClicks /\ (x = "R" => ekind \in {"chmod", "settype"})
    /\ ewin' = [ewin EXCEPT !.quiet = IF x = "Q" THEN ~@ ELSE @, !.recurse = IF x = "R" THEN ~@ ELSE @,
                            !.clicks = @ + 1]
    /\ SendDown(<<Sign(x)>>)
    /\ UNCHANGED <<ekind, echild, eUp, eDone>>

(* process_message. *)
MessageComes ==
    /\ ewin.open /\ ewin.alive /\ eUp # <<>>
    /\ LET m == Head(eUp)
       IN ewin' = [ewin EXCEPT !.question = @ \/ m.type = "?", !.asked = IF m.type = "?" THEN m.item ELSE @,
                               !.errors = @ \/ m.type = "!",
                               !.results = IF m.type = "=" THEN @ \cup {m.item} ELSE IF m.type = "#" THEN {} ELSE @]
    /\ eUp' = Tail(eUp)
    /\ UNCHANGED <<ekind, echild, eDown, eDone>>

(* The end of the file: a Find or Disk Usage window stays to be read. *)
ChildOver ==
    /\ ewin.open /\ ewin.alive /\ eUp = <<>> /\ echild.pc = "over"
    /\ ewin' = [ewin EXCEPT !.alive = FALSE, !.question = FALSE,
                            !.open = ewin.errors \/ ekind \in {"find", "usage"}]
    /\ eDown' = <<>>
    /\ UNCHANGED <<ekind, echild, eUp, eDone>>

EntryNext ==
    \/ NextItem \/ Reply \/ Act \/ ListDone
    \/ \E t \in Text : EntryChanged(t)
    \/ \E yes \in BOOLEAN : EntryAnswer(yes)
    \/ \E x \in {"Q", "R"} : BoxClicked(x)
    \/ MessageComes \/ ChildOver

EntrySpec == EntryInit /\ [][EntryNext]_entryVars

--------------------
(* What is done to a file is what the entry said when the user clicked Yes  *)
(* for that file, or, if Quiet was on, when the child came to it; never a   *)
(* text that means nothing, and never a text that was typed before or after *)
(* (read_new_entry_text, action.c:602, and the loops at 1056, 1161, 1243).  *)
DoneAsTyped ==
    HasEntry => \A a \in eDone.acted :
        /\ a.text \in Valid
        /\ a.text = IF a.asked THEN eDone.yes[a.item] ELSE eDone.came[a.item]

(* One question at a time, and the boxes agree, as in Action. *)
InStep ==
    ewin.alive =>
        /\ ewin.quiet = (echild.quiet # OddlyMany("Q")) /\ ewin.recurse = (echild.recurse # OddlyMany("R"))
        /\ Number(eUp, {"?"}) + Number(eDown, {"Y", "N"})
             + (IF ewin.question THEN 1 ELSE 0) = IF echild.pc = "ask" THEN 1 ELSE 0

EntryRight == DoneAsTyped /\ InStep
===========================================================================

------------------------------- MODULE Action -------------------------------
(***************************************************************************)
(* An action window (action.c, abox.c): the filer and the child it forks to*)
(* delete, copy, move, link, mount, unmount or eject, and the two pipes    *)
(* between them.                                                           *)
(*                                                                         *)
(* The child works through its list of paths and asks before it acts; the  *)
(* filer shows the question and sends one byte for each button or box the  *)
(* user clicks.  The two run concurrently, so a byte may be read long after*)
(* the click it stands for, and in another part of the child than the one  *)
(* that was running then.                                                  *)
(***************************************************************************)
EXTENDS Naturals, Sequences, FiniteSets

CONSTANTS
    Path,        \* the paths an action may come to
    NoPath,
    Contents,    \* the entries of a directory; <<>> for anything else
    Selected,    \* the list of paths the action is started on
    Kinds,       \* the kinds of action that are started
    MaxToggles,  \* bound: clicks on the option boxes
    MaxAborts    \* bound: clicks on Cancel while the child lives

ASSUME ActionAssumption ==
    /\ NoPath \notin Path
    /\ Contents \in [Path -> Seq(Path)]
    /\ Selected \in Seq(Path)
    /\ Kinds \subseteq {"delete", "copy", "move", "link", "mount", "umount", "eject"}
    /\ MaxToggles \in Nat
    /\ MaxAborts \in Nat

VARIABLES
    kind,      \* what the child does to each path
    gui,       \* the GUIside and the ABox
    child,     \* the child process
    toChild,   \* the bytes the filer has sent and the child has not read
    toParent,  \* the messages the child has sent and the filer has not read
    done       \* what has been clicked, done and reported, to state properties

vars == <<kind, gui, child, toChild, toParent, done>>

--------------------
(* The option boxes: Quiet, Force, Merge, Newer and Ignore older. *)

Flag == {"Q", "F", "M", "W", "I"}

FlagsOf(k) == CASE k = "delete" -> {"Q", "F"}
                [] k \in {"copy", "move"} -> {"Q", "M", "W", "I"}
                [] OTHER -> {"Q"}

Count(s, x) == Cardinality({i \in DOMAIN s : s[i] = x})
Odd(s, x)   == Count(s, x) % 2 = 1

(* Mutant: a flag is set where it should be toggled. *)
SetFlags(flag, s) == [x \in Flag |-> flag[x] \/ Count(s, x) > 0]

(* process_flag for each flag of s in turn. *)
ProcessFlags(flag, s) == [x \in Flag |-> flag[x] # Odd(s, x)]

Message(t, p) == [type |-> t, path |-> p]
Errors(n)     == [i \in 1..n |-> Message("!", NoPath)]

(* Bytes that are no flags make process_flag send "Bad message". *)
BadMessages(s) == Errors(Len(SelectSeq(s, LAMBDA b : b \notin Flag)))

IsDir(p)   == Contents[p] # <<>>
Job(op, p) == [op |-> op, path |-> p]
Jobs(s)    == [i \in DOMAIN s |-> Job("do", s[i])]

--------------------
(* What do_delete, do_copy2, do_move2, do_link, do_mount and do_eject find *)
(* out about a path, and what follows from it.                             *)

Plain   == [found |-> TRUE, prot |-> FALSE, exists |-> FALSE, merge |-> FALSE, age |-> "newer"]
Missing == [Plain EXCEPT !.found = FALSE]

Infos(p) ==
    CASE kind = "delete" -> {Missing} \cup {[Plain EXCEPT !.prot = b] : b \in BOOLEAN}
      [] kind \in {"copy", "move"} ->
            {Missing, Plain} \cup
            [found : {TRUE}, prot : {FALSE}, exists : {TRUE},
             merge : IF IsDir(p) THEN BOOLEAN ELSE {FALSE},
             age   : IF IsDir(p) THEN {"same"} ELSE {"older", "same", "newer"}]
      [] OTHER -> {Plain}

(* Ignore older: the destination is no older than the source. *)
Skipped(p, i, flag) ==
    kind \in {"copy", "move"} /\ i.exists /\ flag["I"] /\ i.age # "newer" /\ ~IsDir(p)

Merges(i, flag) == kind \in {"copy", "move"} /\ i.exists /\ i.merge /\ flag["M"]

(* The question is asked with ignore_quiet. *)
MustClick(p, i, flag) ==
    \/ kind = "delete" /\ i.prot /\ ~flag["F"]
    \/ kind \in {"copy", "move"} /\ i.exists /\ ~(flag["W"] /\ i.age # "older" /\ ~IsDir(p))

Verdict(p, i, flag) ==
    CASE ~i.found                                 -> "missing"
      [] i.found /\ Skipped(p, i, flag)           -> "skip"
      [] i.found /\ ~Skipped(p, i, flag) /\ ~Merges(i, flag)
           /\ (~flag["Q"] \/ MustClick(p, i, flag)) -> "ask"
      [] OTHER                                    -> "go"

--------------------
(* The child. *)

Send(messages) == toParent' = toParent \o messages
Dead == child.pc \in {"exited", "killed"}

(* setpgid: until then the filer's kill(-pid) reaches nobody. *)
NewGroup ==
    /\ child.pc = "forked"
    /\ child' = [child EXCEPT !.pc = "next"]
    /\ UNCHANGED <<kind, gui, toChild, toParent, done>>

(* Mutant: check_flags is not called. *)
ConsiderUnread ==
    /\ child.pc = "next" /\ child.todo # <<>> /\ Head(child.todo).op = "do"
    /\ \E info \in Infos(Head(child.todo).path) :
         LET p == Head(child.todo).path
             v == Verdict(p, info, child.flag)
         IN  /\ child' = [child EXCEPT !.info = info, !.path = p, !.todo = Tail(@),
                  !.pc = CASE v = "ask" -> "ask" [] v = "go" -> "act" [] OTHER -> "next"]
             /\ Send(CASE v = "ask" -> <<Message("?", p)>>
                       [] v = "missing" -> Errors(1)
                       [] OTHER -> <<>>)
             /\ done' = [done EXCEPT
                  !.agreed = IF v = "go" THEN @ \cup {p} ELSE @,
                  !.excused = IF Verdict(p, info, gui.flag) = "go" THEN @ \cup {p} ELSE @]
    /\ UNCHANGED <<kind, gui, toChild>>

(* check_flags, lstat and the decision whether to ask about the next path. *)
(* "excused" remembers whether the boxes, as the user sees them ticked, let*)
(* the child go on without a click.                                        *)
Consider ==
    /\ child.pc = "next" /\ child.todo # <<>> /\ Head(child.todo).op = "do"
    /\ \E info \in Infos(Head(child.todo).path) :
         LET p    == Head(child.todo).path
             flag == ProcessFlags(child.flag, toChild)
             v    == Verdict(p, info, flag)
         IN  /\ child' = [child EXCEPT
                  !.flag = flag, !.info = info, !.path = p, !.todo = Tail(@),
                  !.pc = CASE v = "ask" -> "ask" [] v = "go" -> "act" [] OTHER -> "next"]
             /\ Send(BadMessages(toChild) \o
                     CASE v = "ask" -> <<Message("?", p)>>
                       [] v = "missing" -> Errors(1)
                       [] OTHER -> <<>>)
             /\ done' = [done EXCEPT
                  !.agreed = IF v = "go" THEN @ \cup {p} ELSE @,
                  !.excused = IF Verdict(p, info, gui.flag) = "go" THEN @ \cup {p} ELSE @]
    /\ toChild' = <<>>
    /\ UNCHANGED <<kind, gui>>

(* Mutant: only Yes ends the loop. *)
ReadReplyYes ==
    /\ child.pc = "ask" /\ toChild # <<>>
    /\ LET b == Head(toChild)
       IN  /\ child' = [child EXCEPT !.pc = IF b = "Y" THEN "act" ELSE @,
                                     !.flag = ProcessFlags(@, <<b>>)]
           /\ Send(IF b = "Y" THEN <<>> ELSE BadMessages(<<b>>))
           /\ done' = [done EXCEPT !.agreed = IF b = "Y" THEN @ \cup {child.path} ELSE @]
    /\ toChild' = Tail(toChild)
    /\ UNCHANGED <<kind, gui>>

(* One turn of printf_reply's loop. *)
ReadReply ==
    /\ child.pc = "ask" /\ toChild # <<>>
    /\ LET b == Head(toChild)
       IN  /\ child' = [child EXCEPT
                !.pc = CASE b = "Y" -> "act" [] b = "N" -> "next" [] OTHER -> @,
                !.flag = ProcessFlags(@, <<b>>)]
           /\ Send(IF b \in {"Y", "N"} THEN <<>> ELSE BadMessages(<<b>>))
           /\ done' = [done EXCEPT !.agreed = IF b = "Y" THEN @ \cup {child.path} ELSE @]
    /\ toChild' = Tail(toChild)
    /\ UNCHANGED <<kind, gui>>

(* for_dir_contents, and what comes after it: rmdir for delete and move,   *)
(* chmod and utime for a directory that copy has made.  The names may not  *)
(* be readable, and then only that is left.                                *)
MergeInto == kind \in {"copy", "move"} /\ child.info.exists /\ child.info.merge

EnterDirectory ==
    /\ \/ child.pc = "act" /\ IsDir(child.path) /\ (kind = "delete" \/ MergeInto)
       \/ child.pc = "next" /\ child.todo # <<>> /\ Head(child.todo).op = "enter"
    /\ \E readable \in BOOLEAN :
         LET rest   == IF child.pc = "act" THEN child.todo ELSE Tail(child.todo)
             ending == IF child.pc = "act" /\ kind = "copy" THEN <<>>
                       ELSE <<Job("end", child.path)>>
         IN  /\ child' = [child EXCEPT !.pc = "next",
                  !.todo = (IF readable THEN Jobs(Contents[child.path]) ELSE <<>>) \o ending \o rest]
             /\ Send(IF readable THEN <<>> ELSE Errors(1))
    /\ done' = IF child.pc = "act" /\ kind = "copy"
               THEN [done EXCEPT !.agreed = @ \ {child.path}] ELSE done
    /\ UNCHANGED <<kind, gui, toChild>>

(* The system calls and commands that do the work on one path: unlink,     *)
(* mkdir, symlink, copy_file, mv, mount.  An object in the way is removed  *)
(* first, and an error in that may not be the end of it.                   *)
Works ==
    /\ \/ child.pc = "run"
       \/ /\ child.pc = "act" /\ kind \notin {"umount", "eject"}
          /\ ~(IsDir(child.path) /\ (kind = "delete" \/ MergeInto))
    /\ done' = [done EXCEPT !.performed = @ \cup {child.path}]
    /\ \E failed \in 0..1 :
         /\ failed = 0 \/ (child.info.exists /\ ~MergeInto)
         /\ Send(Errors(failed))
    /\ child' = [child EXCEPT !.pc = "tell",
            !.todo = (IF kind = "copy" /\ IsDir(child.path)
                      THEN <<Job("enter", child.path)>> ELSE <<>>) \o @]
    /\ UNCHANGED <<kind, gui, toChild>>

(* ... and the same calls failing.  A failed eject is reported like any    *)
(* other, and so is a mount that "seems to be mounted now anyway".         *)
Fails ==
    /\ \/ child.pc = "run"
       \/ /\ child.pc = "act" /\ kind \notin {"umount", "eject"}
          /\ ~(kind = "delete" /\ IsDir(child.path))
    /\ Send(Errors(1))
    /\ child' = [child EXCEPT !.pc = IF kind = "eject" THEN "tell" ELSE "next"]
    /\ UNCHANGED <<kind, gui, toChild, done>>

FailsMounted ==
    /\ child.pc = "act" /\ kind = "mount"
    /\ Send(Errors(1))
    /\ child' = [child EXCEPT !.pc = "tell"]
    /\ UNCHANGED <<kind, gui, toChild, done>>

(* The end of a directory: rmdir for delete and move, chmod and utime for  *)
(* copy.  do_move2 does not mind if the directory cannot be removed.       *)
EndDirectory ==
    /\ child.pc = "next" /\ child.todo # <<>> /\ Head(child.todo).op = "end"
    /\ LET p == Head(child.todo).path
       IN  \E failed \in 0..1 :
             /\ child' = [child EXCEPT !.path = p, !.todo = Tail(@),
                   !.pc = IF kind = "move" \/ (kind = "delete" /\ failed = 0)
                          THEN "tell" ELSE "next"]
             /\ Send(IF kind = "move" THEN <<>> ELSE Errors(failed))
             /\ done' = [done EXCEPT !.performed =
                   IF kind = "move" \/ (kind = "delete" /\ failed = 0) THEN @ \cup {p} ELSE @]
    /\ UNCHANGED <<kind, gui, toChild>>

(* send_check_path and send_mount_path. *)
Tell ==
    /\ child.pc = "tell"
    /\ Send(<<Message(IF kind \in {"mount", "umount", "eject"} THEN "M" ELSE "s", child.path)>>)
    /\ child' = [child EXCEPT !.pc = "next"]
    /\ UNCHANGED <<kind, gui, toChild, done>>

(* "Need to close all sub-directories now": the filer is asked to, and the *)
(* child waits for one byte, which ought to be the filer's X.              *)
AskToClose ==
    /\ child.pc = "act" /\ kind \in {"umount", "eject"}
    /\ Send(<<Message("X", child.path)>>)
    /\ child' = [child EXCEPT !.pc = "handshake"]
    /\ UNCHANGED <<kind, gui, toChild, done>>

(* Mutant: whatever byte comes first is taken for the filer's X. *)
HandshakeAny ==
    /\ child.pc = "handshake" /\ toChild # <<>>
    /\ child' = [child EXCEPT !.pc = "run"]
    /\ toChild' = Tail(toChild)
    /\ UNCHANGED <<kind, gui, toParent, done>>

Handshake ==
    /\ child.pc = "handshake" /\ toChild # <<>>
    /\ child' = [child EXCEPT !.pc = IF Head(toChild) = "X" THEN "run" ELSE "next",
                              !.confused = @ \/ Head(toChild) # "X"]
    /\ toChild' = Tail(toChild)
    /\ UNCHANGED <<kind, gui, toParent, done>>

Exit ==
    /\ child.pc = "next" /\ child.todo = <<>>
    /\ child' = [child EXCEPT !.pc = "exited"]
    /\ UNCHANGED <<kind, gui, toChild, toParent, done>>

(* A signal of abort_operation takes effect. *)
Killed ==
    /\ child.signalled /\ ~Dead
    /\ child' = [child EXCEPT !.pc = "killed"]
    /\ UNCHANGED <<kind, gui, toChild, toParent, done>>

ChildStep ==
    \/ NewGroup \/ Consider \/ ReadReply \/ EnterDirectory \/ Works \/ Fails \/ FailsMounted
    \/ EndDirectory \/ Tell \/ AskToClose \/ Handshake \/ Exit

--------------------
(* The filer's main loop: the buttons, the boxes and the child's messages. *)

(* fputc on to_child.  After the child's death nobody reads it. *)
Write(bytes) == toChild' = IF gui.alive THEN toChild \o bytes ELSE toChild

(* Mutant: the question stays up, and so do the Yes and No buttons. *)
AnswerStaysUp(yes) ==
    /\ gui.open /\ gui.question
    /\ Write(<<IF yes THEN "Y" ELSE "N">>)
    /\ done' = [done EXCEPT !.clicked = IF yes THEN @ \cup {gui.asked} ELSE @]
    /\ UNCHANGED <<kind, gui, child, toParent>>

(* The Yes and No buttons, which are shaded unless there is a question. *)
Answer(yes) ==
    /\ gui.open /\ gui.question
    /\ Write(<<IF yes THEN "Y" ELSE "N">>)
    /\ gui' = [gui EXCEPT !.question = FALSE]
    /\ done' = [done EXCEPT !.clicked = IF yes THEN @ \cup {gui.asked} ELSE @]
    /\ UNCHANGED <<kind, child, toParent>>

(* The Quiet button: tick the box, then answer Yes. *)
QuietButton ==
    /\ gui.open /\ gui.question /\ ~gui.flag["Q"]
    /\ Write(<<"Q", "Y">>)
    /\ gui' = [gui EXCEPT !.flag["Q"] = TRUE, !.question = FALSE]
    /\ done' = [done EXCEPT !.clicked = @ \cup {gui.asked}]
    /\ UNCHANGED <<kind, child, toParent>>

Toggle(x) ==
    /\ gui.open /\ x \in FlagsOf(kind) /\ gui.toggles < MaxToggles
    /\ gui' = [gui EXCEPT !.flag[x] = ~@, !.toggles = @ + 1]
    /\ Write(<<x>>)
    /\ UNCHANGED <<kind, child, toParent, done>>

(* abort_operation, for the Cancel button and the window manager's close.  *)
(* A signal sent before the child has its process group is lost.           *)
Cancel ==
    /\ gui.open
    /\ IF gui.alive
       THEN /\ gui.aborts < MaxAborts
            /\ gui' = [gui EXCEPT !.aborts = @ + 1]
            /\ child' = [child EXCEPT !.signalled = @ \/ child.pc # "forked"]
       ELSE gui' = [gui EXCEPT !.open = FALSE] /\ UNCHANGED child
    /\ UNCHANGED <<kind, toChild, toParent, done>>

(* message_from_child and process_message. *)
Receive ==
    /\ gui.open /\ gui.alive /\ toParent # <<>>
    /\ LET m == Head(toParent)
       IN  /\ gui' = [gui EXCEPT !.question = @ \/ m.type = "?",
                                 !.asked = IF m.type = "?" THEN m.path ELSE @,
                                 !.errors = @ \/ m.type = "!"]
           /\ done' = [done EXCEPT
                 !.reported = IF m.type \in {"s", "M"} THEN @ \cup {m.path} ELSE @,
                 !.closed = IF m.type = "X" THEN @ \cup {m.path} ELSE @]
           /\ Write(IF m.type = "X" THEN <<"X">> ELSE <<>>)
    /\ toParent' = Tail(toParent)
    /\ UNCHANGED <<kind, child>>

(* Mutant: abox_cancel_ask is not called. *)
EndOfFileAsking ==
    /\ gui.open /\ gui.alive /\ toParent = <<>> /\ Dead
    /\ gui' = [gui EXCEPT !.alive = FALSE, !.open = gui.errors]
    /\ toChild' = <<>>
    /\ UNCHANGED <<kind, child, toParent, done>>

(* message_from_child at the end of the file: abox_cancel_ask, and the     *)
(* window goes unless it has errors to show.                               *)
EndOfFile ==
    /\ gui.open /\ gui.alive /\ toParent = <<>> /\ Dead
    /\ gui' = [gui EXCEPT !.alive = FALSE, !.question = FALSE, !.open = gui.errors]
    /\ toChild' = <<>>
    /\ UNCHANGED <<kind, child, toParent, done>>

User ==
    \/ \E yes \in BOOLEAN : Answer(yes)
    \/ QuietButton \/ Cancel
    \/ \E x \in Flag : Toggle(x)

(* start_action.  The boxes start as the options say, and the child is     *)
(* forked with the same values.                                            *)
Init ==
    /\ kind \in Kinds
    /\ \E on \in SUBSET FlagsOf(kind) :
         LET flag == [x \in Flag |-> x \in on]
         IN  /\ gui = [open |-> TRUE, alive |-> TRUE, question |-> FALSE, asked |-> NoPath,
                       flag |-> flag, errors |-> FALSE, aborts |-> 0, toggles |-> 0]
             /\ child = [pc |-> "forked", flag |-> flag, todo |-> Jobs(Selected),
                         path |-> NoPath, info |-> Plain,
                         signalled |-> FALSE, confused |-> FALSE]
    /\ toChild = <<>> /\ toParent = <<>>
    /\ done = [clicked |-> {}, excused |-> {}, agreed |-> {},
               performed |-> {}, reported |-> {}, closed |-> {}]

Next == ChildStep \/ Killed \/ Receive \/ EndOfFile \/ User

Spec == Init /\ [][Next]_vars

(* The kernel runs the child and delivers its signals, and GTK serves the  *)
(* pipe.  Nothing makes the user click.                                    *)
Fairness ==
    /\ WF_vars(ChildStep) /\ WF_vars(Killed)
    /\ WF_vars(Receive) /\ WF_vars(EndOfFile)

FairSpec == Spec /\ Fairness

--------------------
(* Correctness. *)

Info == [found : BOOLEAN, prot : BOOLEAN, exists : BOOLEAN, merge : BOOLEAN,
         age : {"older", "same", "newer"}]

(* Every variable has its type. *)
TypeOK ==
    /\ kind \in Kinds
    /\ gui \in [open : BOOLEAN, alive : BOOLEAN, question : BOOLEAN, asked : Path \cup {NoPath},
                flag : [Flag -> BOOLEAN], errors : BOOLEAN,
                aborts : 0..MaxAborts, toggles : 0..MaxToggles]
    /\ child \in [pc : {"forked", "next", "ask", "act", "handshake", "run", "tell",
                         "exited", "killed"},
                  flag : [Flag -> BOOLEAN],
                  todo : Seq([op : {"do", "enter", "end"}, path : Path]),
                  path : Path \cup {NoPath}, info : Info,
                  signalled : BOOLEAN, confused : BOOLEAN]
    /\ toChild \in Seq(Flag \cup {"Y", "N", "X"})
    /\ toParent \in Seq([type : {"?", "s", "M", "X", "!"}, path : Path \cup {NoPath}])
    /\ done \in [clicked : SUBSET Path, excused : SUBSET Path, agreed : SUBSET Path,
                 performed : SUBSET Path, reported : SUBSET Path, closed : SUBSET Path]

(* The filer and the child agree on every option box, once the toggles on  *)
(* their way are counted, although the child reads them in three places    *)
(* and each byte only says "toggled" (flag_toggled, check_flags,           *)
(* printf_reply).  One toggle taken for something else would turn Quiet    *)
(* into its opposite for the rest of the action.                           *)
FlagsAgree ==
    gui.alive /\ ~child.confused =>
        \A x \in Flag : gui.flag[x] = (child.flag[x] # Odd(toChild, x))

Questions == Cardinality({i \in DOMAIN toParent : toParent[i].type = "?"})
Answers   == Count(toChild, "Y") + Count(toChild, "N")

(* While the child waits for a reply exactly one of these exists: its      *)
(* question on the way, the question in the window, the answer on the way. *)
(* At any other time there is none, so that no click can answer a question *)
(* that has not been asked yet; and the question in the window is the one  *)
(* the child waits on.                                                     *)
OneAnswer ==
    gui.alive /\ ~Dead =>
        /\ Questions + Answers + (IF gui.question THEN 1 ELSE 0)
             = IF child.pc = "ask" THEN 1 ELSE 0
        /\ gui.question => gui.asked = child.path

(* What is on the two pipes means the same to both sides. *)
BytesMeanTheSame == FlagsAgree /\ OneAnswer

(* The child only acts on a path if the user clicked Yes while the window  *)
(* showed the question about that very path, or if the boxes as they were  *)
(* ticked in the window when the child came to the path excused it from    *)
(* asking.                                                                 *)
Consent == ~child.confused => done.performed \subseteq done.clicked \cup done.excused

(* A window that closes by itself without being cancelled (no errors to    *)
(* show) has done all that was agreed to, and the filer has been told to   *)
(* look at each path that changed.                                         *)
SilentSuccess ==
    ~gui.open /\ ~gui.errors /\ gui.aborts = 0 /\ ~child.confused =>
        done.agreed \subseteq done.performed \cap done.reported

(* Both: what was done was agreed to, and what was agreed to was done. *)
AgreedIsDone == Consent /\ SilentSuccess

(* do_mount and do_eject wait until the filer has closed every window      *)
(* below the path before they run the command.                             *)
ClosedFirst ==
    kind \in {"umount", "eject"} /\ ~child.confused => done.performed \subseteq done.closed

(* The same for every run of the command: "Wait until it's safe" and the   *)
(* assertion c == 'X' that follows.                                        *)
SafeToUnmount ==
    kind \in {"umount", "eject"} =>
        done.performed \subseteq done.closed
        /\ (child.pc = "run" => child.path \in done.closed)

(* If the user answers whatever is asked, the action comes to an end. *)
Finishes == ([]<>~gui.question) => <>~gui.alive

(* A child that a signal has reached is noticed: its window closes or shows*)
(* that it has gone, even if it died with a question on the way.           *)
CancelEnds == child.signalled ~> (~gui.alive /\ ~gui.question)

(* Both: no action window waits for ever for an answer that was given, or  *)
(* for a child that was ended.                                             *)
ActionsEnd == Finishes /\ CancelEnds
=============================================================================

----------------------------- MODULE DirectSave -----------------------------
(* Saving by dragging.  A save box (gtksavebox.c) lets the user type a path *)
(* or drag an icon to a directory window, perhaps of a filer on another     *)
(* host; such a window (dnd.c) also takes what other programs and the filer *)
(* itself drag there.  Source and target talk in requests for a format, one *)
(* at a time, and through the property XdndDirectSave0 of the source window:*)
(* the leafname, then the name the target chose, and empty if it failed.    *)
EXTENDS Sequences, Integers

VARIABLES
    box,    \* a save box, with what the user was told of it in told
    drag    \* the drag in progress, with what its target has made of it

Format == {"xds", "uri", "moz", "raw"}

(* running is the stack of save_to_file handlers that have not returned:    *)
(* they show dialogs, in which the main loop runs.  late: a save succeeded  *)
(* after its request had been given up.                                     *)
NewBox == [open |-> TRUE, usingXds |-> FALSE, dataSent |-> FALSE, running |-> << >>,
           told |-> "nothing", stored |-> FALSE, late |-> FALSE]

NoDrag == [from |-> "none", offers |-> {}, prop |-> "none", dropped |-> FALSE, type |-> "none",
           ask |-> FALSE, wants |-> "none", reply |-> "none", finished |-> 0, ok |-> FALSE,
           served |-> FALSE]

SaveInit == box = NewBox /\ drag = NoDrag

Stack  == box.running
Modal  == Stack # << >>                 \* a dialog of a handler holds the grab
Asks(d, format) == [d EXCEPT !.wants = format, !.reply = "none"]
Finish(d, ok)   == [d EXCEPT !.finished = @ + 1, !.ok = ok, !.wants = "none", !.reply = "none"]

--------------------
(* The box. *)
PressIcon ==
    /\ box.open /\ ~Modal /\ drag = NoDrag
    /\ \E leaf \in {"leaf", "slash"} :      \* the basename of / is /
         drag' = [NoDrag EXCEPT !.from = "box", !.offers = {"xds"}, !.prop = leaf]
    /\ box' = [box EXCEPT !.usingXds = FALSE, !.dataSent = FALSE]

(* A request for the data: the path to save to is the property's, if it is  *)
(* one of this host.  A handler that saves is started; it may show dialogs. *)
BoxDataGet ==
    /\ drag.from = "box" /\ drag.wants = "xds" /\ drag.reply = "none"
    /\ \A i \in DOMAIN Stack : Stack[i] # "drag"
    /\ IF box.open /\ drag.prop = "local"
       THEN box' = [box EXCEPT !.running = Append(@, "drag")] /\ UNCHANGED drag
       ELSE /\ drag' = [drag EXCEPT !.reply =
                  IF ~box.open THEN "null" ELSE IF drag.prop = "remote" THEN "F" ELSE "E"]
            /\ box' = [box EXCEPT !.usingXds = @ \/ drag'.reply = "F"]

(* Return in the entry, or the Save button; a name that is no full path     *)
(* only shows a message.                                                    *)
DoSave ==
    /\ box.open /\ ~Modal /\ (drag.from = "box" => drag.dropped)
    /\ box' = [box EXCEPT !.running = << "entry" >>]
    /\ UNCHANGED drag

(* The end of a handler (copy_cb, link_cb, new_directory_cb...) and of the  *)
(* caller: drag_data_get answers, do_save reports and closes the box.       *)
HandlerEnds(saved) ==
    /\ Modal
    /\ LET last == Stack[Len(Stack)]
           b == [box EXCEPT !.running = SubSeq(@, 1, Len(@) - 1), !.stored = @ \/ saved]
           waiting == drag.from = "box" /\ drag.wants = "xds" /\ drag.reply = "none"
       IN IF last = "drag"
          THEN /\ box' = [b EXCEPT !.dataSent = @ \/ saved, !.usingXds = @ \/ saved,
                                   !.late = @ \/ (saved /\ drag.from # "box")]
               /\ drag' = IF waiting
                          THEN [drag EXCEPT !.reply = IF saved THEN "S" ELSE "E", !.served = saved]
                          ELSE drag
          ELSE /\ box' = IF saved /\ box.open THEN [b EXCEPT !.told = "path", !.open = FALSE] ELSE b
               /\ UNCHANGED drag

(* GTK reports the end of the drag: the target finished it, or it was       *)
(* released over nothing.  An empty property reads like a missing one.      *)
DragEnd ==
    /\ drag.from = "box" /\ (drag.dropped => drag.finished > 0)
    /\ drag' = NoDrag
    /\ box' = IF ~box.open THEN box
              ELSE IF box.usingXds /\ drag.prop # "none"
              THEN [box EXCEPT !.told = "path", !.open = FALSE]
              ELSE IF box.dataSent THEN [box EXCEPT !.told = "no path", !.open = FALSE] ELSE box

(* The Discard and the Cancel buttons, and another box. *)
Discard == box.open /\ ~Modal /\ box' = [box EXCEPT !.told = "no path", !.open = FALSE] /\ UNCHANGED drag
Cancel  == box.open /\ ~Modal /\ box' = [box EXCEPT !.open = FALSE] /\ UNCHANGED drag
ShowBox == ~box.open /\ ~Modal /\ drag = NoDrag /\ box' = NewBox /\ UNCHANGED drag

--------------------
(* Other sources: the filer's own drags, of several items or of one file    *)
(* with its contents, and other programs, which offer and answer anything.  *)
FilerDrag ==
    /\ drag = NoDrag
    /\ \E offers \in {{"uri"}, {"uri", "raw"}} :
         drag' = [NoDrag EXCEPT !.from = "filer", !.offers = offers]
    /\ UNCHANGED box

FilerDataGet ==
    /\ drag.from = "filer" /\ drag.wants # "none" /\ drag.reply = "none"
    /\ \E r \in IF drag.wants = "raw" THEN {"data", "null"} ELSE {"local"} :
         drag' = [drag EXCEPT !.reply = r]
    /\ UNCHANGED box

OtherDrag ==
    /\ drag = NoDrag
    /\ \E offers \in SUBSET Format, name \in {"none", "leaf", "slash"} :
         drag' = [NoDrag EXCEPT !.from = "other", !.offers = offers, !.prop = name]
    /\ UNCHANGED box

UriLists == {"empty", "local", "remote", "http", "mixed", "remotes"}

OtherDataGet ==
    /\ drag.from = "other" /\ drag.wants # "none" /\ drag.reply = "none"
    /\ \E r \in CASE drag.wants = "xds" -> {"S", "F", "E", "?"}
                  [] drag.wants = "raw" -> {"data"}
                  [] drag.wants = "uri" -> UriLists
                  [] drag.wants = "moz" -> {"local", "remote", "http", "invalid"} :
         drag' = [drag EXCEPT !.reply = r, !.served = (r = "S")]
    /\ UNCHANGED box

(* No answer within GTK's time. *)
GiveUp ==
    /\ drag.wants # "none" /\ drag.reply = "none" /\ drag.from # "filer"
    /\ drag' = [drag EXCEPT !.reply = "null"]
    /\ UNCHANGED box

OtherEnds == drag.from \in {"filer", "other"} /\ (drag.dropped => drag.finished > 0)
             /\ drag' = NoDrag /\ UNCHANGED box

--------------------
(* The target.  What is under the pointer decides what a drop would do. *)
MotionItem(item, offers) ==
    CASE item \in {"background", "file"} -> "dir"
      [] item = "bookmarks" -> "bookmark"
      [] item = "directory" -> IF offers \cap {"uri", "moz", "xds"} # {} THEN "dir" ELSE "none"
      [] item = "program"   -> IF offers \cap {"uri", "moz", "raw"} # {} THEN "prog" ELSE "none"

BestFormat(offers) ==
    IF "uri" \in offers THEN "uri" ELSE IF "moz" \in offers THEN "moz"
    ELSE IF "raw" \in offers THEN "raw" ELSE "none"

DragDrop(item, host, ask) ==
    LET type == MotionItem(item, drag.offers)
        d    == [drag EXCEPT !.dropped = TRUE, !.type = type, !.ask = ask]
        best == BestFormat(drag.offers)
    IN /\ drag.from # "none" /\ ~drag.dropped /\ type # "none"
       /\ drag' = IF type = "bookmark"
                  THEN IF "uri" \in drag.offers THEN Asks(d, "uri") ELSE Finish(d, FALSE)
                  ELSE IF type = "dir" /\ "xds" \in drag.offers
                  THEN IF drag.prop = "leaf" THEN Asks([d EXCEPT !.prop = host], "xds")
                       ELSE Finish(d, FALSE)
                  ELSE IF best = "none" THEN Finish(d, FALSE) ELSE Asks(d, best)
       /\ UNCHANGED box

(* Mutant: the property keeps the name after a failure. *)
GotXdsReplyKeeps(d) ==
    IF d.reply = "F" /\ "raw" \in d.offers THEN Asks(d, "raw") ELSE Finish(d, d.reply = "S")

GotXdsReply(d) ==
    IF d.reply = "F" /\ "raw" \in d.offers THEN Asks(d, "raw")
    ELSE IF d.reply = "S" THEN Finish(d, TRUE)
    ELSE Finish([d EXCEPT !.prop = "none"], FALSE)

(* The data is for a program, or for a new file, which may not be writable. *)
GotRaw(d, written) ==
    IF d.ask THEN Finish(d, FALSE)
    ELSE IF d.type = "prog" \/ written THEN Finish([d EXCEPT !.served = TRUE], TRUE)
    ELSE Finish(IF "xds" \in d.offers THEN [d EXCEPT !.prop = "none"] ELSE d, FALSE)

(* The files are handed to an action, a program, the bookmarks, a menu or   *)
(* the download command.  With some remote files the others are still used. *)
GotUriList(d) ==
    LET done == Finish([d EXCEPT !.served = TRUE], TRUE)
    IN IF d.type = "bookmark" THEN done
       ELSE IF d.reply = "empty" THEN Finish(d, FALSE)
       ELSE IF d.type = "prog" /\ ~d.ask THEN done
       ELSE IF d.reply \in {"remote", "http"} /\ "raw" \in d.offers THEN Asks(d, "raw")
       ELSE IF d.reply \in {"local", "http"} THEN done
       ELSE Finish([d EXCEPT !.served = (d.reply = "mixed")], FALSE)

DataReceived(written) ==
    /\ drag.wants # "none" /\ drag.reply # "none"
    /\ drag' = IF drag.reply = "null" THEN Finish(drag, FALSE)
               ELSE CASE drag.wants = "xds" -> GotXdsReply(drag)
                      [] drag.wants = "raw" -> GotRaw(drag, written)
                      [] drag.wants = "moz" /\ drag.reply = "invalid" -> Finish(drag, FALSE)
                      [] OTHER -> GotUriList(drag)
    /\ UNCHANGED box

SaveNext ==
    \/ PressIcon \/ BoxDataGet \/ DoSave \/ DragEnd \/ Discard \/ Cancel \/ ShowBox
    \/ \E b \in BOOLEAN : HandlerEnds(b) \/ DataReceived(b)
    \/ FilerDrag \/ FilerDataGet \/ OtherDrag \/ OtherDataGet \/ GiveUp \/ OtherEnds
    \/ \E item \in {"background", "file", "bookmarks", "directory", "program"},
          host \in {"local", "remote"}, ask \in BOOLEAN : DragDrop(item, host, ask)

saveVars == <<box, drag>>

SaveSpec == SaveInit /\ [][SaveNext]_saveVars

--------------------
(* Every drop is finished, by exactly one gtk_drag_finish, however its      *)
(* requests are answered; and the source is told of success only when its   *)
(* data was saved, written or handed on.                                    *)
FinishedOnce ==
    drag.dropped =>
        /\ drag.finished = (IF drag.wants = "none" THEN 1 ELSE 0)
        /\ drag.ok => drag.served

(* gtksavebox.c:75: saved_to_uri says that the save was successful.  With a *)
(* path, it comes only when save_to_file succeeded; and a save that         *)
(* succeeded closes the box, unless its request had been given up.  Both    *)
(* rest on the answers of FinishedOnce.                                     *)
SavedIsSaved ==
    /\ FinishedOnce
    /\ box.told = "path" => box.stored
    /\ box.stored /\ ~Modal /\ drag.from # "box" /\ ~box.late => ~box.open
=============================================================================

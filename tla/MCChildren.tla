----------------------------- MODULE MCChildren -----------------------------
(* Small instances, for TLC, of what the filer has its child processes do: *)
(* the child of an action on files, the child of an action with an entry   *)
(* box, the children that make thumbnails, the program that sets the       *)
(* backdrop, and the notice of their deaths; and of the icons that the user*)
(* sets, and of where things are put on the pinboard.                      *)
(* They share no state: a behaviour is one of one of them, and the others  *)
(* stay as they were at the start.                                          *)
EXTENDS MCAction, EntryAction, ChildDeath, Thumbs, Backdrop, UserIcons,
    Placement, TLC
CONSTANTS one, two, w1, w2, d1, d2, pin1, pin2, small1, small2
VARIABLE part

(* Thumbs: two windows that list one image, or one window and two          *)
(* directories with an image in each.                                      *)
TwoHomes == (one :> d1) @@ (two :> d2)
Listed   == <<one, two>>

(* EntryAction: a directory with a file. *)
OneFile == (d :> <<e>>) @@ (e :> <<>>)
TheDir  == <<d>>

(* Placement: two icons and two windows, on one monitor or on two, with a  *)
(* panel at the bottom.                                                     *)
Titles       == (small1 :> "t1") @@ (small2 :> "t2")
LabelSizes   == {<<2, 2>>, <<4, 2>>}
WindowSizes  == {<<4, 4>>, <<6, 4>>}
SmallScreen  == <<12, 10>>
BottomPanel  == Rect(0, 8, <<12, 2>>)
OneMonitor   == {Rect(0, 0, <<12, 10>>)}
TwoMonitors  == {Rect(0, 0, <<6, 10>>), Rect(6, 0, <<6, 10>>)}
BoardLayouts ==
    {[clamp |-> TRUE, top |-> 2, start |-> "top left", going |-> "down", monitors |-> OneMonitor],
     [clamp |-> FALSE, top |-> 0, start |-> "bottom right", going |-> "across", monitors |-> TwoMonitors]}
AskedFor     == {<<-1, -1>>, <<-4, -2>>, <<-5, 4>>, <<6, -8>>}
DropPoints   == {<<3, 3>>, <<8, 6>>}

NoAction ==
    /\ kind = "none" /\ toChild = <<>> /\ toParent = <<>>
    /\ gui = [open |-> FALSE, alive |-> FALSE, question |-> FALSE, asked |-> NoPath, flag |-> <<>>,
              errors |-> FALSE, aborts |-> 0, toggles |-> 0]
    /\ child = [pc |-> "dead", signalled |-> FALSE, confused |-> FALSE]
    /\ done = [performed |-> {}, closed |-> {}]

InitParts ==
    /\ part \in {"action", "entry", "death", "thumbs", "icons", "backdrop", "placement"}
    /\ IF part = "action" THEN Init ELSE NoAction
    /\ EntryInit /\ DeathInit /\ ThumbInit /\ UserIconsInit /\ BackdropInit /\ PlacementInit
    /\ part = "icons" \/ (rules = FirstRules /\ images.trusted)
    /\ part = "backdrop" \/ pb.file = PlainBackdrop
    /\ part = "placement" \/ (layout.clamp /\ ~panelShown)
    /\ IF part = "thumbs" THEN file[one] = 1 ELSE file = Nothing

(* A step of one part, which leaves the variables of the others alone. *)
Only(p, A) ==
    /\ part = p /\ A /\ UNCHANGED part
    /\ IF p = "action" THEN TRUE ELSE UNCHANGED vars
    /\ IF p = "entry" THEN TRUE ELSE UNCHANGED entryVars
    /\ IF p = "death" THEN TRUE ELSE UNCHANGED deathVars
    /\ IF p = "thumbs" THEN TRUE ELSE UNCHANGED thumbVars
    /\ IF p = "icons" THEN TRUE ELSE UNCHANGED pictureVars
    /\ IF p = "backdrop" THEN TRUE ELSE UNCHANGED backdropVars
    /\ IF p = "placement" THEN TRUE ELSE UNCHANGED placeVars

InAction(A) == Only("action", A)
InEntry(A)  == Only("entry", A)
InDeath(A)  == Only("death", A)
InThumbs(A) == Only("thumbs", A) /\ moves' + events' <= 3 /\ (win'[w2].open => file'[two] = 0)
InIcons(A)  == Only("icons", A) /\ (setBox'.open => setBox'.of \in IconFolder)

NextOfParts == InAction(Next) \/ InEntry(EntryNext) \/ InDeath(DeathNext) \/ InThumbs(ThumbNext)
               \/ InIcons(UserIconsNext) \/ Only("backdrop", BackdropNext)
               \/ Only("placement", PlacementNext)

partVars == <<part, vars, entryVars, deathVars, thumbVars, pictureVars, backdropVars, placeVars>>

(* The fairness of Action, of ChildDeath and of Thumbs. *)
FairParts ==
    /\ WF_partVars(InAction(ChildStep)) /\ WF_partVars(InAction(Killed))
    /\ WF_partVars(InAction(Receive)) /\ WF_partVars(InAction(EndOfFile))
    /\ WF_partVars(InDeath(MainStep)) /\ WF_partVars(InDeath(ChildDied))
    /\ \A w \in Window :
         WF_partVars(InThumbs(NextGone(w) \/ NextNone(w) \/ NextLoaded(w) \/ NextMissing(w)))
    /\ \A d0 \in Dir : WF_partVars(InThumbs(EndScan(d0)))
    /\ \A i \in Pid : WF_partVars(InThumbs(ChildLoads(i) \/ ChildSaves(i) \/ ChildDone(i)))

ChildrenSpec == InitParts /\ [][NextOfParts]_partVars /\ FairParts

(* What the part that runs has changed: the rest is as it was. *)
OwnState ==
    CASE part = "action" -> <<part, vars>>
      [] part = "entry"  -> <<part, entryVars>>
      [] part = "death"  -> <<part, deathVars>>
      [] part = "thumbs" -> <<part, thumbVars>>
      [] part = "icons"  -> <<part, pictureVars>>
      [] part = "backdrop" -> <<part, backdropVars>>
      [] part = "placement" -> <<part, placeVars>>
=============================================================================

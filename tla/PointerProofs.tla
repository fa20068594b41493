--------------------------- MODULE PointerProofs ---------------------------
(***************************************************************************)
(* The motion system is ready again once all buttons are up, for any       *)
(* widgets, options and number of buttons held (ReleasedMeansReady).       *)
(*                                                                         *)
(* The count of the motion system is never more than the buttons that are  *)
(* held, but that is not inductive: a release that is passed to the window *)
(* manager is not counted down.  So Counted compares it with the buttons   *)
(* that the widget with the grab does not forward; and that widget is the  *)
(* one which the X server sends the events to, as long as anything is      *)
(* counted.                                                                *)
(*                                                                         *)
(* The mounts of the user's, the offers to unmount them and the answers    *)
(* that are kept are right for any mount points, windows and actions       *)
(* (MountsAlwaysRight).  That the filer runs as long as something is there *)
(* is not inductive while handlers are at work: a handler takes something  *)
(* away and gives back its count afterwards, so the proof follows the      *)
(* surplus of the count over what it counts through the handler, and       *)
(* MountInv says that it is zero whenever the handler is done.             *)
(*                                                                         *)
(* In the list view the selection, the cursor and the iterators follow the *)
(* items, for any items and sort keys (RowsAlwaysFollow).                  *)
(*                                                                         *)
(* What the Run Action box sets is what runs, what is opened is opened as  *)
(* it was seen, and data dropped on a program is written in full or an     *)
(* error is shown, for any types, parents of types and programs            *)
(* (RunAlwaysRight).                                                       *)
(***************************************************************************)
EXTENDS Pointer, Mounts, Details, RunAction, SequenceTheorems, FiniteSetTheorems, WellFoundedInduction, TLAPS

MouseType ==
    [down : SUBSET Button, owner : Widget \cup OtherOwners,
     state : {"none", "disabled", "ready", "reposition"},
     pressed : Nat, widget : Widget \cup {NoWidget}, grab : BOOLEAN,
     lasso : SUBSET Widget, target : BOOLEAN, given : BOOLEAN]

SpringType == [armed : BOOLEAN, open : BOOLEAN, checks : Nat]

(* The buttons that the widget counts. *)
Counts(w, down) == {b \in down : ~Forwarded(w, b)}

(* Nothing is left over when no button is counted. *)
AtRest(m) == m.pressed = 0 => m.state = "none" /\ m.widget = NoWidget /\ ~m.grab

Counted(m) == m.pressed > 0 =>
    /\ m.owner \in Widget /\ m.widget = m.owner
    /\ m.pressed <= Cardinality(Counts(m.owner, m.down))

Sound(m) == m \in MouseType /\ (~m.given => AtRest(m) /\ Counted(m))

PointerInv == Sound(mouse) /\ spring \in SpringType /\ (spring.open => spring.checks > 0)

--------------------
(* Buttons are few. *)
LEMMA CountsFinite ==
    ASSUME NEW down \in SUBSET Button, NEW w
    PROVE  /\ IsFiniteSet(down) /\ IsFiniteSet(Counts(w, down))
           /\ Cardinality(down) \in Nat /\ Cardinality(Counts(w, down)) \in Nat
           /\ Cardinality(Counts(w, down)) <= Cardinality(down)
<1>1. IsFiniteSet(Button) BY FS_Interval, 1 \in Int, 3 \in Int DEF Button
<1>2. IsFiniteSet(down) BY <1>1, FS_Subset
<1>3. Counts(w, down) \subseteq down BY DEF Counts
<1> QED BY <1>2, <1>3, FS_Subset, FS_CardinalityType

(* After a reset nothing is counted. *)
LEMMA UngrabSound ==
    ASSUME NEW m \in MouseType, NEW owner \in Widget \cup OtherOwners, NEW target \in BOOLEAN
    PROVE  Sound([MotionUngrab(m) EXCEPT !.owner = owner, !.target = target])
<1> DEFINE n == [MotionUngrab(m) EXCEPT !.owner = owner, !.target = target]
<1>1. n \in MouseType BY DEF MouseType, MotionUngrab
<1>2. n.pressed = 0 /\ n.state = "none" /\ n.widget = NoWidget /\ ~n.grab
      BY DEF MouseType, MotionUngrab
<1> HIDE DEF n
<1>3. Sound(n) BY <1>1, <1>2 DEF Sound, AtRest, Counted
<1> QED BY <1>3 DEF n

(* What a binding does never adds to the count: it leaves it, or resets the*)
(* motion system. *)
LEMMA PerformSound ==
    ASSUME NEW m, Sound(m), NEW w \in Widget, NEW context, NEW e, NEW slow
    PROVE  Sound(Perform(m, w, context, e, slow))
<1> DEFINE n == Perform(m, w, context, e, slow)
<1>1. \/ n = m
      \/ n = [MotionUngrab(m) EXCEPT !.target = FALSE]
      \/ n = MotionUngrab(m)
      \/ n = [MotionUngrab(m) EXCEPT !.owner = "menu"]
      \/ n = MotionStart(m, "ready")
      \/ n = MotionStart(m, "reposition")
      \/ n = [m EXCEPT !.lasso = @ \cup {w}]
  <2> DEFINE view == KindOf[w] \in {"view", "details"}
             item == slow /\ context = "item"
             act == Lookup(context, e)
  <2>1. CASE view /\ item BY <2>1 DEF Perform
  <2>2. CASE view /\ ~item /\ m.target BY <2>2 DEF Perform
  <2>3. CASE ~(view /\ item) /\ ~(view /\ ~item /\ m.target)
    <3>1. CASE act \in {"open", "clear"} BY <2>3, <3>1 DEF Perform
    <3>2. CASE act = "popup" BY <2>3, <3>2 DEF Perform
    <3>3. CASE act = "prime" BY <2>3, <3>3 DEF Perform
    <3>4. CASE act = "move" BY <2>3, <3>4 DEF Perform
    <3>5. CASE act = "lasso" BY <2>3, <3>5 DEF Perform
    <3>6. CASE act \notin {"open", "clear", "popup", "prime", "move", "lasso"}
          BY <2>3, <3>6 DEF Perform
    <3> QED BY <3>1, <3>2, <3>3, <3>4, <3>5, <3>6
  <2> QED BY <2>1, <2>2, <2>3
<1>0. m \in MouseType /\ m.owner \in Widget \cup OtherOwners /\ m.target \in BOOLEAN
      BY DEF Sound, MouseType
<1>2. ASSUME NEW t \in {"ready", "reposition"} PROVE Sound(MotionStart(m, t))
      BY DEF MotionStart, Sound, AtRest, Counted, MouseType
<1> SUFFICES Sound(n) OBVIOUS
<1> HIDE DEF n
<1>3. CASE n = m BY <1>3
<1>4. CASE n = [MotionUngrab(m) EXCEPT !.target = FALSE]
  <2>1. n = [MotionUngrab(m) EXCEPT !.owner = m.owner, !.target = FALSE]
        BY <1>4 DEF MotionUngrab
  <2> QED BY <1>0, <2>1, UngrabSound
<1>5. CASE n = MotionUngrab(m)
  <2>1. n = [MotionUngrab(m) EXCEPT !.owner = m.owner, !.target = m.target]
        BY <1>5 DEF MotionUngrab
  <2> QED BY <1>0, <2>1, UngrabSound
<1>6. CASE n = [MotionUngrab(m) EXCEPT !.owner = "menu"]
  <2>1. n = [MotionUngrab(m) EXCEPT !.owner = "menu", !.target = m.target]
        BY <1>6 DEF MotionUngrab
  <2>2. "menu" \in Widget \cup OtherOwners BY DEF OtherOwners
  <2> QED BY <1>0, <2>1, <2>2, UngrabSound
<1>7. CASE n = [m EXCEPT !.lasso = @ \cup {w}]
      BY <1>7 DEF Sound, AtRest, Counted, MouseType
<1> QED BY <1>1, <1>2, <1>3, <1>4, <1>5, <1>6, <1>7

(* While nothing is counted, buttons and the pointer may change hands. *)
LEMMA IdleSound ==
    ASSUME NEW m, Sound(m), ~m.given, m.pressed = 0, NEW down \in SUBSET Button,
           NEW owner \in Widget \cup OtherOwners
    PROVE  /\ Sound([m EXCEPT !.down = down, !.owner = owner])
           /\ Sound([m EXCEPT !.owner = owner])
           /\ Sound([m EXCEPT !.down = down])
<1> DEFINE n1 == [m EXCEPT !.down = down, !.owner = owner]
           n2 == [m EXCEPT !.owner = owner]
           n3 == [m EXCEPT !.down = down]
<1>1. m \in MouseType /\ AtRest(m) BY DEF Sound
<1>2. n1 \in MouseType /\ n2 \in MouseType /\ n3 \in MouseType
      BY <1>1 DEF MouseType
<1>3. \A n \in {n1, n2, n3} : n.pressed = 0 /\ AtRest(n)
      BY <1>1 DEF AtRest, MouseType
<1> HIDE DEF n1, n2, n3
<1>4. Sound(n1) /\ Sound(n2) /\ Sound(n3)
      BY <1>2, <1>3 DEF Sound, Counted
<1> QED BY <1>4 DEF n1, n2, n3

(* An owner that is not a widget means that nothing is counted; else the *)
(* event goes to the owner. *)
LEMMA WhoReceives ==
    ASSUME Sound(mouse), ~mouse.given, NEW under \in Widget \cup {Elsewhere}
    PROVE  /\ mouse.owner \notin Widget => mouse.pressed = 0 /\ Receiver(under) = under
           /\ mouse.owner \in Widget => Receiver(under) = mouse.owner
<1> USE PointerAssumption DEF Sound, AtRest, Counted, MouseType
<1>1. mouse.pressed = 0 \/ mouse.pressed > 0 OBVIOUS
<1>2. mouse.owner \notin Widget => mouse.pressed = 0 BY <1>1
<1>3. mouse.widget = NoWidget \/ mouse.widget = mouse.owner BY <1>1
<1>4. mouse.owner \notin Widget => mouse.widget = NoWidget BY <1>2
<1>5. mouse.owner \in Widget => Receiver(under) = mouse.owner
      BY <1>3 DEF Receiver
<1>6. mouse.owner \notin Widget => Receiver(under) = under
      BY <1>4 DEF Receiver
<1> QED BY <1>2, <1>5, <1>6

(* A button that goes down is counted, or given to the window manager. *)
LEMMA PressSound ==
    ASSUME Sound(mouse), ~mouse.given, NEW b \in Button, b \notin mouse.down,
           NEW w \in Widget, mouse.owner \in Widget => w = mouse.owner,
           mouse.owner \notin Widget => mouse.pressed = 0,
           NEW context, NEW type, NEW ctrl, NEW slow
    PROVE  LET held == [mouse EXCEPT !.down = @ \cup {b}, !.owner = w]
           IN Sound(ButtonPress(held, w, context, ButtonEvent(type, b, ctrl), slow))
<1> DEFINE held == [mouse EXCEPT !.down = @ \cup {b}, !.owner = w]
           e == ButtonEvent(type, b, ctrl)
           n == ButtonPress(held, w, context, e, slow)
<1> SUFFICES Sound(n) OBVIOUS
<1>1. /\ mouse \in MouseType /\ held \in MouseType /\ e.button = b /\ held.owner = w
      /\ held.pressed = mouse.pressed /\ ~held.given /\ held.widget = mouse.widget
      /\ held.down = mouse.down \cup {b} /\ held.state = mouse.state /\ held.grab = mouse.grab
      BY DEF Sound, MouseType, ButtonEvent
<1> HIDE DEF held, e
<1>2. CASE Forwarded(w, b)
  <2>1. n = [held EXCEPT !.owner = "loose", !.given = @ \/ held.pressed > 0]
        BY <1>1, <1>2 DEF ButtonPress
  <2> HIDE DEF n
  <2>2. n \in MouseType
        BY <1>1, <2>1 DEF MouseType, OtherOwners
  <2>3. CASE mouse.pressed = 0
    <3>1. n.state = "none" /\ n.widget = NoWidget /\ ~n.grab /\ n.pressed = 0
          BY <1>1, <2>1, <2>3 DEF Sound, AtRest, MouseType
    <3> QED BY <2>2, <3>1 DEF Sound, AtRest, Counted
  <2>4. CASE mouse.pressed > 0
    <3>1. n.given BY <1>1, <2>1, <2>4 DEF MouseType
    <3> QED BY <2>2, <3>1 DEF Sound
  <2> QED BY <1>1, <2>3, <2>4 DEF MouseType
<1>3. CASE ~Forwarded(w, b)
  <2> DEFINE p == MotionPress(held, w)
  <2>1. n = p \/ n = Perform(p, w, context, e, slow)
        BY <1>1, <1>3 DEF ButtonPress
  <2> DEFINE k  == mouse.pressed + 1
             v  == IF mouse.pressed = 0 THEN w ELSE mouse.widget
             st == IF mouse.state = "none" THEN "disabled" ELSE mouse.state
  <2>0. p = [held EXCEPT !.pressed = k, !.widget = v, !.state = st]
        BY <1>1 DEF MotionPress, MouseType
  <2>00. k \in Nat /\ v \in Widget \cup {NoWidget} /\ st \in {"none", "disabled", "ready", "reposition"}
        BY <1>1 DEF MouseType
  <2> HIDE DEF p, n, k, v, st
  <2>2. /\ p \in MouseType /\ ~p.given /\ p.pressed = mouse.pressed + 1
        /\ p.owner = w /\ p.down = mouse.down \cup {b}
        /\ p.widget = IF mouse.pressed = 0 THEN w ELSE mouse.widget
        BY <1>1, <2>0, <2>00 DEF MouseType, k, v
  <2>3. mouse.pressed > 0 =>
          mouse.widget = w /\ mouse.pressed <= Cardinality(Counts(w, mouse.down))
        BY <1>1 DEF Sound, Counted
  <2>4. Counts(w, p.down) = Counts(w, mouse.down) \cup {b}
        BY <1>3, <2>2 DEF Counts
  <2>5. Cardinality(Counts(w, p.down)) = Cardinality(Counts(w, mouse.down)) + 1
        BY <1>1, <2>4, CountsFinite, FS_AddElement DEF Counts, MouseType
  <2>6. Cardinality(Counts(w, mouse.down)) \in Nat
        BY <1>1, CountsFinite DEF MouseType
  <2>7. mouse.pressed \in Nat BY <1>1 DEF MouseType
  <2>8. p.widget = w /\ p.pressed > 0 /\ p.pressed <= Cardinality(Counts(w, p.down))
        BY <2>2, <2>3, <2>5, <2>6, <2>7
  <2>9. Sound(p) BY <2>2, <2>8 DEF Sound, AtRest, Counted
  <2> QED BY <2>1, <2>9, PerformSound
<1> QED BY <1>2, <1>3

(* A button that goes up is no longer counted, if it was. *)
LEMMA ReleaseSound ==
    ASSUME Sound(mouse), ~mouse.given, NEW b \in mouse.down,
           NEW w \in Widget, mouse.owner \in Widget => w = mouse.owner,
           NEW owner \in Widget \cup OtherOwners,
           mouse.down # {b} => owner = mouse.owner,
           NEW context, NEW type, NEW ctrl, NEW slow, NEW far
    PROVE  LET up == [mouse EXCEPT !.down = @ \ {b}, !.owner = owner]
           IN Sound(ButtonRelease(up, w, context, ButtonEvent(type, b, ctrl), slow, far))
<1> DEFINE up == [mouse EXCEPT !.down = @ \ {b}, !.owner = owner]
           e == ButtonEvent(type, b, ctrl)
           r == ButtonRelease(up, w, context, e, slow, far)
           n == MotionRelease(up)
<1> SUFFICES Sound(r) OBVIOUS
<1>1. /\ mouse \in MouseType /\ up \in MouseType /\ e.button = b /\ up.owner = owner
      /\ up.pressed = mouse.pressed /\ ~up.given /\ up.widget = mouse.widget
      /\ up.down = mouse.down \ {b} /\ up.state = mouse.state /\ up.grab = mouse.grab
      BY DEF Sound, MouseType, ButtonEvent
<1>2. /\ mouse.pressed \in Nat /\ mouse.down \in SUBSET Button
      /\ Cardinality(Counts(w, mouse.down)) \in Nat
      BY <1>1, CountsFinite DEF MouseType
<1>3. mouse.pressed > 0 =>
        /\ mouse.owner = w /\ mouse.widget = w
        /\ mouse.pressed <= Cardinality(Counts(w, mouse.down))
      BY DEF Sound, Counted
<1>4. mouse.pressed = 0 => AtRest(up) /\ Counted(up)
      BY <1>1 DEF Sound, AtRest, Counted
<1>5. CASE Forwarded(w, b)
  <2>1. r = Perform(up, w, context, e, slow)
        BY <1>1, <1>5 DEF ButtonRelease
  <2>2. Counts(w, up.down) = Counts(w, mouse.down)
        BY <1>1, <1>5 DEF Counts
  <2>3. mouse.pressed > 0 => mouse.down # {b}
    <3>1. SUFFICES ASSUME mouse.pressed > 0, mouse.down = {b} PROVE FALSE OBVIOUS
    <3>2. Counts(w, mouse.down) = {} BY <1>5, <3>1 DEF Counts
    <3> QED BY <1>2, <1>3, <3>1, <3>2, FS_EmptySet
  <2> HIDE DEF up, r
  <2>4. mouse.pressed > 0 => Counted(up)
        BY <1>1, <1>3, <2>2, <2>3 DEF Counted
  <2>5. mouse.pressed > 0 => AtRest(up) BY <1>1 DEF AtRest
  <2>6. Sound(up) BY <1>1, <1>2, <1>4, <2>4, <2>5 DEF Sound
  <2> QED BY <2>1, <2>6, PerformSound
<1>6. CASE ~Forwarded(w, b)
  <2> DEFINE done == IF Eaten(up, far) THEN n ELSE Perform(n, w, context, e, slow)
  <2>1. PICK lasso : r = [done EXCEPT !.lasso = lasso] /\ (lasso = done.lasso \/ lasso = done.lasso \ {w})
        BY <1>1, <1>6 DEF ButtonRelease
  <2> HIDE DEF up, r
  <2>2. Sound(n)
    <3>1. CASE mouse.pressed = 0
      <4>1. n = up BY <1>1, <3>1 DEF MotionRelease
      <4> QED BY <1>1, <1>4, <3>1, <4>1 DEF Sound
    <3>2. CASE mouse.pressed = 1
      <4>0. n = MotionUngrab(up) BY <1>1, <3>2 DEF MotionRelease
      <4>1. n = [MotionUngrab(up) EXCEPT !.owner = up.owner, !.target = up.target]
            BY <1>1, <4>0 DEF MotionUngrab, MouseType
      <4> HIDE DEF n
      <4>2. up.target \in BOOLEAN BY <1>1 DEF MouseType
      <4> QED BY <1>1, <4>1, <4>2, UngrabSound
    <3>3. CASE mouse.pressed > 1
      <4>1. n = [up EXCEPT !.pressed = mouse.pressed - 1]
            BY <1>1, <3>3 DEF MotionRelease
      <4> HIDE DEF n
      <4>2. /\ n \in MouseType /\ n.owner = owner /\ n.widget = w
            /\ n.pressed = mouse.pressed - 1 /\ n.pressed > 0 /\ n.down = mouse.down \ {b}
            BY <1>1, <1>2, <1>3, <3>3, <4>1 DEF MouseType
      <4>3. Counts(w, n.down) = Counts(w, mouse.down) \ {b} /\ b \in Counts(w, mouse.down)
            BY <1>6, <4>2 DEF Counts
      <4>4. Cardinality(Counts(w, n.down)) = Cardinality(Counts(w, mouse.down)) - 1
            BY <1>2, <4>3, CountsFinite, FS_RemoveElement
      <4>5. mouse.down # {b}
        <5>1. mouse.down = {b} => Counts(w, n.down) = {} BY <4>2 DEF Counts
        <5>2. Cardinality({}) = 0 BY FS_EmptySet
        <5>3. Cardinality(Counts(w, mouse.down)) > 1 BY <1>2, <1>3, <3>3
        <5>4. Cardinality(Counts(w, n.down)) # 0 BY <1>2, <4>4, <5>3
        <5> QED BY <5>1, <5>2, <5>4
      <4>6. n.owner = w BY <1>2, <1>3, <3>3, <4>2, <4>5
      <4>7. Counted(n) BY <1>2, <1>3, <3>3, <4>2, <4>4, <4>6 DEF Counted
      <4> QED BY <4>2, <4>7 DEF Sound, AtRest
    <3> QED BY <1>2, <3>1, <3>2, <3>3
  <2>3. Sound(done) BY <2>2, PerformSound
  <2> HIDE DEF done
  <2> QED BY <2>1, <2>3 DEF Sound, MouseType, AtRest, Counted
<1> QED BY <1>5, <1>6

LEMMA PressButtonSound ==
    ASSUME Sound(mouse), ~mouse.given, NEW b \in Button,
           NEW under \in Widget \cup {Elsewhere}, PressButton(b, under)
    PROVE  Sound(mouse')
<1> DEFINE w == Receiver(under)
           m == [mouse EXCEPT !.down = @ \cup {b}]
<1>1. /\ mouse \in MouseType /\ mouse.owner \in Widget \cup OtherOwners
      /\ mouse.down \cup {b} \in SUBSET Button
      BY DEF Sound, MouseType
<1>2. /\ mouse.owner \notin Widget => mouse.pressed = 0 /\ w = under
      /\ mouse.owner \in Widget => w = mouse.owner
      BY WhoReceives
<1>3. CASE Away
  <2>1. mouse' = m BY <1>3 DEF PressButton
  <2>2. mouse.pressed = 0 BY <1>2, <1>3, PointerAssumption DEF Away, OtherOwners
  <2> QED BY <1>1, <2>1, <2>2, IdleSound
<1>4. CASE ~Away /\ w = Elsewhere
  <2>1. mouse' = [m EXCEPT !.owner = "other"] BY <1>4 DEF PressButton
  <2>2. mouse.pressed = 0 BY <1>2, <1>4, PointerAssumption
  <2>3. mouse' = [mouse EXCEPT !.down = @ \cup {b}, !.owner = "other"] BY <1>1, <2>1 DEF MouseType
  <2>4. "other" \in Widget \cup OtherOwners BY DEF OtherOwners
  <2> QED BY <1>1, <2>2, <2>3, <2>4, IdleSound
<1>5. CASE ~Away /\ w # Elsewhere
  <2> DEFINE held == [m EXCEPT !.owner = IF @ \in Widget THEN @ ELSE under]
             Once(context, ctrl, slow) == ButtonPress(held, w, context, ButtonEvent("press", b, ctrl), slow)
             Then(once, context, ctrl, slow) ==
                 Perform(once, w, context, ButtonEvent("double", b, ctrl), slow)
  <2>1. w \in Widget BY <1>2, <1>5
  <2>2. held = [mouse EXCEPT !.down = @ \cup {b}, !.owner = w]
        BY <1>1, <1>2 DEF MouseType
  <2>3. b \notin mouse.down BY DEF PressButton
  <2>4. \E context, ctrl, slow :
          LET once == Once(context, ctrl, slow)
          IN mouse' = once \/ mouse' = Then(once, context, ctrl, slow)
        BY <1>5 DEF PressButton
  <2> HIDE DEF held, w
  <2>5. \A context, ctrl, slow : Sound(Once(context, ctrl, slow))
        BY <1>2, <2>1, <2>2, <2>3, PressSound
  <2> HIDE DEF Once
  <2> QED BY <2>1, <2>4, <2>5, PerformSound
<1> QED BY <1>3, <1>4, <1>5

LEMMA ReleaseButtonSound ==
    ASSUME Sound(mouse), ~mouse.given, NEW b \in Button,
           NEW under \in Widget \cup {Elsewhere}, ReleaseButton(b, under)
    PROVE  Sound(mouse')
<1> DEFINE w == Receiver(under)
           owner == OwnerAfter(b)
           m == [mouse EXCEPT !.down = @ \ {b}, !.owner = owner]
<1>1. /\ mouse \in MouseType /\ mouse.owner \in Widget \cup OtherOwners
      /\ mouse.down \ {b} \in SUBSET Button
      BY DEF Sound, MouseType
<1>2. /\ mouse.owner \notin Widget => mouse.pressed = 0 /\ w = under
      /\ mouse.owner \in Widget => w = mouse.owner
      BY WhoReceives
<1>3. owner \in Widget \cup OtherOwners BY <1>1 DEF OtherOwners, OwnerAfter
<1>4. CASE Away \/ w = Elsewhere
  <2>1. mouse' = m BY <1>4 DEF ReleaseButton
  <2>2. mouse.pressed = 0 BY <1>2, <1>4, PointerAssumption DEF Away, OtherOwners
  <2> HIDE DEF owner
  <2> QED BY <1>1, <1>3, <2>1, <2>2, IdleSound
<1>5. CASE ~(Away \/ w = Elsewhere)
  <2>1. w \in Widget BY <1>2, <1>5
  <2>2. mouse.down # {b} => owner = mouse.owner BY <1>5 DEF Away, OwnerAfter
  <2>3. \E context, ctrl, slow, far :
          mouse' = ButtonRelease(m, w, context, ButtonEvent("release", b, ctrl), slow, far)
        BY <1>5 DEF ReleaseButton
  <2>4. b \in mouse.down BY DEF ReleaseButton
  <2> HIDE DEF w, owner
  <2> QED BY <1>1, <1>2, <1>3, <2>1, <2>2, <2>3, <2>4, ReleaseSound
<1> QED BY <1>4, <1>5

(* The options stay as they are. *)
LEMMA SettingKept ==
    ASSUME setting' = setting, Sound(mouse') PROVE Sound(mouse)'
BY DEF Sound, AtRest, Counted, Counts, Forwarded, MouseType

LEMMA PointerStep == PointerInv /\ [PointerNext]_pointerVars => PointerInv'
<1> SUFFICES ASSUME PointerInv, [PointerNext]_pointerVars PROVE PointerInv'
    OBVIOUS
<1>0. Sound(mouse) /\ mouse \in MouseType BY DEF PointerInv, Sound
<1>1. CASE UNCHANGED pointerVars
  <2>1. Sound(mouse') /\ setting' = setting /\ spring' = spring BY <1>0, <1>1 DEF pointerVars
  <2> QED BY <2>1, SettingKept DEF PointerInv
<1>2. CASE PointerNext /\ UNCHANGED <<setting, spring>>
  <2>0. ~mouse.given BY <1>2 DEF PointerNext
  <2> SUFFICES Sound(mouse') BY <1>2, SettingKept DEF PointerInv
  <2>1. ASSUME NEW b \in Button, NEW under \in Widget \cup {Elsewhere},
               PressButton(b, under) \/ ReleaseButton(b, under)
        PROVE  Sound(mouse')
        BY <1>0, <2>0, <2>1, PressButtonSound, ReleaseButtonSound
  <2>2. ASSUME NEW under \in Widget \cup {Elsewhere}, MovePointer(under) PROVE Sound(mouse')
    <3>1. CASE mouse' = [MotionUngrab(mouse) EXCEPT !.owner = "drag"] \/ mouse' = MotionUngrab(mouse)
      <4>1. \E o \in {"drag", mouse.owner} :
              mouse' = [MotionUngrab(mouse) EXCEPT !.owner = o, !.target = mouse.target]
        <5>1. PICK m : m = MotionUngrab(mouse)
          OBVIOUS
        <5>2. m \in MouseType /\ m.owner = mouse.owner /\ m.target = mouse.target
          BY <1>0, <5>1 DEF MouseType, MotionUngrab
        <5>3. CASE mouse' = [m EXCEPT !.owner = "drag"]
          <6>1. mouse' = [m EXCEPT !.owner = "drag", !.target = mouse.target]
            BY <5>2, <5>3 DEF MouseType
          <6> QED BY <5>1, <6>1
        <5>4. CASE mouse' = m
          <6>1. mouse' = [m EXCEPT !.owner = mouse.owner, !.target = mouse.target]
            BY <5>2, <5>4 DEF MouseType
          <6> QED BY <5>1, <6>1
        <5> QED BY <3>1, <5>1, <5>3, <5>4, Zenon
      <4>2. "drag" \in OtherOwners /\ mouse.owner \in Widget \cup OtherOwners /\ mouse.target \in BOOLEAN
            BY <1>0 DEF MouseType, OtherOwners
      <4>3. PICK o \in {"drag", mouse.owner} :
              mouse' = [MotionUngrab(mouse) EXCEPT !.owner = o, !.target = mouse.target]
            BY <4>1
      <4>4. o \in Widget \cup OtherOwners BY <4>2
      <4> QED BY <1>0, <4>2, <4>3, <4>4, UngrabSound
    <3>2. CASE mouse.widget # NoWidget /\ mouse' = GrabPointer(mouse)
      <4>1. mouse.pressed > 0 BY <1>0, <2>0, <3>2 DEF Sound, AtRest, MouseType
      <4>2. mouse' = [mouse EXCEPT !.grab = TRUE]
            BY <1>0, <2>0, <3>2, <4>1 DEF Sound, Counted, GrabPointer, MouseType
      <4>3. mouse' \in MouseType BY <1>0, <4>2 DEF MouseType
      <4>4. mouse'.pressed > 0 /\ Counted(mouse')
            BY <1>0, <2>0, <4>1, <4>2 DEF Sound, Counted, MouseType
      <4> QED BY <4>3, <4>4 DEF Sound, AtRest
    <3> QED BY <2>2, <3>1, <3>2 DEF MovePointer
  <2>3. CASE MenuDone \/ DragCancelled
    <3>1. mouse.pressed = 0
          BY <1>0, <2>0, <2>3, PointerAssumption
          DEF Sound, Counted, MenuDone, DragCancelled, OtherOwners, MouseType
    <3>2. \E o \in {"nobody", "loose"} : mouse' = [mouse EXCEPT !.owner = o]
          BY <2>3 DEF MenuDone, DragCancelled, Released
    <3>3. {"nobody", "loose"} \subseteq OtherOwners /\ mouse.down \in SUBSET Button
          BY <1>0 DEF OtherOwners, MouseType
    <3>4. PICK o \in {"nobody", "loose"} : mouse' = [mouse EXCEPT !.owner = o]
          BY <3>2
    <3>5. o \in Widget \cup OtherOwners BY <3>3
    <3> QED BY <1>0, <2>0, <3>1, <3>3, <3>4, <3>5, IdleSound
  <2>4. CASE TargetMode
        BY <1>0, <2>4 DEF TargetMode, Sound, AtRest, Counted, MouseType
  <2>5. CASE MenuKey
    <3>1. mouse' \in MouseType
          BY <1>0, <2>5 DEF MenuKey, MouseType, OtherOwners
    <3>2. mouse.pressed = 0 => AtRest(mouse') /\ mouse'.pressed = 0
          BY <1>0, <2>0, <2>5 DEF MenuKey, Sound, AtRest, MouseType
    <3>3. mouse.pressed > 0 => mouse'.given
          BY <1>0, <2>5 DEF MenuKey, MouseType
    <3> QED BY <1>0, <3>1, <3>2, <3>3 DEF Sound, Counted, MouseType
  <2>6. CASE WidgetGoes
        BY <1>0, <2>6 DEF WidgetGoes, Sound, MouseType
  <2> QED BY <1>2, <2>1, <2>2, <2>3, <2>4, <2>5, <2>6
          DEF PointerNext, SpringLoad, SpringAbort, SpringNow, SpringCheck, SpringClosed,
              PointerInv, Sound
<1>3. CASE SpringLoad \/ SpringAbort \/ SpringNow \/ SpringCheck \/ SpringClosed
  <2>1. Sound(mouse)'
    <3>1. mouse' = mouse /\ setting' = setting
          BY <1>3 DEF SpringLoad, SpringAbort, SpringNow, SpringCheck, SpringClosed
    <3> QED BY <1>0, <3>1, SettingKept
  <2>2. spring \in SpringType /\ (spring.open => spring.checks > 0) BY DEF PointerInv
  <2>3. CASE SpringLoad \/ SpringAbort \/ SpringClosed
        BY <2>1, <2>2, <2>3 DEF SpringLoad, SpringAbort, SpringClosed, SpringType, PointerInv
  <2>4. CASE SpringNow
    <3>1. CASE spring' = [spring EXCEPT !.armed = FALSE]
          BY <2>1, <2>2, <3>1 DEF SpringType, PointerInv
    <3>2. CASE spring' = [spring EXCEPT !.armed = FALSE, !.open = TRUE,
                            !.checks = IF spring.open THEN @ ELSE @ + 1]
      <4> DEFINE k == IF spring.open THEN spring.checks ELSE spring.checks + 1
      <4>00. k \in Nat /\ k > 0 BY <2>2 DEF SpringType
      <4>0. spring' = [spring EXCEPT !.armed = FALSE, !.open = TRUE, !.checks = k]
            BY <3>2
      <4> HIDE DEF k
      <4>1. spring' \in SpringType BY <2>2, <4>00, <4>0 DEF SpringType
      <4>2. spring'.checks > 0 BY <2>2, <4>00, <4>0 DEF SpringType
      <4> QED BY <2>1, <4>1, <4>2 DEF PointerInv
    <3> QED BY <2>4, <3>1, <3>2 DEF SpringNow
  <2>5. CASE SpringCheck
    <3> DEFINE k == spring.checks - 1
    <3>0. k \in Nat BY <2>2, <2>5 DEF SpringCheck, SpringType
    <3>1. spring' = [spring EXCEPT !.open = FALSE, !.checks = k] BY <2>5 DEF SpringCheck
    <3> HIDE DEF k
    <3>2. spring' \in SpringType /\ ~spring'.open BY <2>2, <3>0, <3>1 DEF SpringType
    <3> QED BY <2>1, <3>2 DEF PointerInv
  <2> QED BY <1>3, <2>3, <2>4, <2>5
<1>4. ASSUME NEW b \in Button, NEW under \in Widget \cup {Elsewhere},
             PressButton(b, under) \/ ReleaseButton(b, under)
      PROVE  UNCHANGED <<setting, spring>>
      BY <1>4 DEF PressButton, ReleaseButton
<1>5. ASSUME NEW under \in Widget \cup {Elsewhere}, MovePointer(under)
      PROVE  UNCHANGED <<setting, spring>>
      BY <1>5 DEF MovePointer
<1>6. MenuDone \/ DragCancelled \/ TargetMode \/ MenuKey \/ WidgetGoes =>
        UNCHANGED <<setting, spring>>
      BY DEF MenuDone, DragCancelled, TargetMode, MenuKey, WidgetGoes
<1> QED BY <1>1, <1>2, <1>3, <1>4, <1>5, <1>6 DEF PointerNext

(* Once all buttons are up no grab, no count and no state is left over, as *)
(* long as the pointer was not given away while one was held, and a window *)
(* that sprang open will be closed (dnd_motion_*, spring_now). *)
THEOREM ReleasedAlwaysReady == PointerSpec => []ReleasedMeansReady
<1>1. PointerInit => PointerInv
      BY DEF PointerInit, PointerInv, Sound, AtRest, Counted, MouseType, SpringType, OtherOwners
<1>2. PointerInv => ReleasedMeansReady
  <2> SUFFICES ASSUME PointerInv PROVE ReleasedMeansReady
      OBVIOUS
  <2>1. /\ mouse \in MouseType /\ mouse.pressed \in Nat /\ mouse.down \in SUBSET Button
        /\ Cardinality(mouse.down) \in Nat
        BY CountsFinite DEF PointerInv, Sound, MouseType
  <2>2. ~mouse.given => mouse.pressed <= Cardinality(mouse.down)
    <3>1. SUFFICES ASSUME ~mouse.given, mouse.pressed > 0
                   PROVE  mouse.pressed <= Cardinality(mouse.down)
          BY <2>1
    <3>2. /\ mouse.pressed <= Cardinality(Counts(mouse.owner, mouse.down))
          BY <3>1 DEF PointerInv, Sound, Counted
    <3>3. /\ Cardinality(Counts(mouse.owner, mouse.down)) \in Nat
          /\ Cardinality(Counts(mouse.owner, mouse.down)) <= Cardinality(mouse.down)
          BY <2>1, CountsFinite
    <3> QED BY <2>1, <3>2, <3>3
  <2>3. mouse.down = {} /\ ~mouse.given => mouse.pressed = 0
    <3>1. Cardinality({}) = 0 BY FS_EmptySet
    <3> QED BY <2>1, <2>2, <3>1
  <2> QED BY <2>2, <2>3 DEF ReleasedMeansReady, PointerInv, Sound, AtRest
<1> QED BY <1>1, <1>2, PointerStep, PTL DEF PointerSpec

--------------------
(* A state of Mounts, as one record. *)
JobRecord == {e \in [does : {"none", "mount"} \cup Way, mount : Mount \cup {NoDir}, silent : BOOLEAN,
                     phase : {"none", "started", "safe", "told", "ending"}] : e.phase # "none" => e.mount \in Mount}
MountsRecord == [now : SUBSET Mount, mine : SUBSET Mount]
LearntRecord == [table : [Mount -> Choice], file : [Mount -> Choice], behind : BOOLEAN]
RunRecord == [up : BOOLEAN, count : Int, events : Nat]
MountState == [mounts : MountsRecord, wins : [Win -> ShownDir \cup {NoDir}], offers : [Mount -> Nat],
               jobs : [Job -> JobRecord], learnt : LearntRecord, filerRun : RunRecord]

OpenIn(s) == {w \in Win : s.wins[w] # NoDir}
OffersIn(s) == {o \in Mount \X (1..MaxOffers) : o[2] <= s.offers[o[1]]}
JobsIn(s) == {j \in Job : s.jobs[j].phase # "none"}
Surplus(s) == s.filerRun.count - Cardinality(OpenIn(s)) - Cardinality(OffersIn(s)) - Cardinality(JobsIn(s))

(* The parts of the invariant, of a state. *)
AllCounted(s) == s.filerRun.up => Surplus(s) = 0 /\ s.filerRun.count > 0
AnswersWritten(s) == s.filerRun.up /\ ~s.learnt.behind => s.learnt.file = s.learnt.table
NoneSilent(s) == \A j \in Job : s.jobs[j].phase = "none" => ~s.jobs[j].silent
MountsSound(s) == s \in MountState /\ Bounded(s) /\ AnswersWritten(s) /\ NoneSilent(s)
MountInv == MountsSound(MountsNow) /\ AllCounted(MountsNow)

(* The record of the state has the variables as its fields. *)
LEMMA NowIs == /\ MountsNow.mounts = mounts /\ MountsNow.wins = wins /\ MountsNow.offers = offers /\ MountsNow.jobs = jobs
               /\ MountsNow.learnt = learnt /\ MountsNow.filerRun = filerRun
BY DEF MountsNow

(* After MountsBecome, the state is the one that was built. *)
LEMMA BecomeIs == ASSUME NEW s \in MountState, MountsBecome(s) PROVE MountsNow' = s
BY DEF MountsBecome, MountsNow, MountState

(* So the invariant holds after it when its parts hold of what was built. *)
LEMMA InvIs == ASSUME NEW s, MountsSound(s), AllCounted(s), MountsBecome(s) PROVE MountInv'
<1>1. s \in MountState
  BY DEF MountsSound
<1>2. MountsNow' = s
  BY <1>1, BecomeIs
<1>3. PICK t : t = MountsNow'
  OBVIOUS
<1>4. MountsSound(t) /\ AllCounted(t)
  BY <1>2, <1>3
<1>5. MountsSound(MountsNow)' /\ AllCounted(MountsNow)'
  BY <1>3, <1>4 DEF MountsSound, AllCounted, AnswersWritten, NoneSilent, Surplus, Bounded, OpenIn, OffersIn, JobsIn
<1> QED BY <1>5 DEF MountInv

(* The types of the parts of a state. *)
LEMMA StateParts ==
    ASSUME NEW s \in MountState
    PROVE  /\ s.mounts \in MountsRecord /\ s.wins \in [Win -> ShownDir \cup {NoDir}] /\ s.offers \in [Mount -> Nat]
           /\ s.jobs \in [Job -> JobRecord] /\ s.learnt \in LearntRecord /\ s.filerRun \in RunRecord
           /\ s.filerRun.up \in BOOLEAN /\ s.filerRun.count \in Int /\ s.filerRun.events \in Nat
BY DEF MountState, RunRecord

(* The sets that are counted are finite. *)
LEMMA CountsAre ==
    ASSUME NEW s \in MountState
    PROVE  /\ IsFiniteSet(OpenIn(s)) /\ IsFiniteSet(OffersIn(s)) /\ IsFiniteSet(JobsIn(s))
           /\ Cardinality(OpenIn(s)) \in Nat /\ Cardinality(OffersIn(s)) \in Nat /\ Cardinality(JobsIn(s)) \in Nat
           /\ Surplus(s) \in Int
<1>1. IsFiniteSet(Mount \X (1..MaxOffers))
  <2>1. IsFiniteSet(1..MaxOffers)
    <3>1. MaxOffers \in Nat
      BY MountAssumption, Zenon
    <3>2. 1 \in Int /\ MaxOffers \in Int
      BY <3>1
    <3> QED BY <3>2, FS_Interval
  <2> QED BY <2>1, MountAssumption, FS_Product
<1>2. IsFiniteSet(OpenIn(s)) /\ IsFiniteSet(OffersIn(s)) /\ IsFiniteSet(JobsIn(s))
  BY <1>1, MountAssumption, FS_Subset DEF OpenIn, OffersIn, JobsIn
<1>3. Cardinality(OpenIn(s)) \in Nat /\ Cardinality(OffersIn(s)) \in Nat /\ Cardinality(JobsIn(s)) \in Nat
  BY <1>2, FS_CardinalityType
<1> QED BY <1>2, <1>3, StateParts DEF Surplus

(* A finite set with one more element, and without some of its own. *)
LEMMA OneMore ==
    ASSUME NEW S, NEW T, NEW x, IsFiniteSet(S), x \notin S, T = S \cup {x}
    PROVE  IsFiniteSet(T) /\ Cardinality(S) \in Nat /\ Cardinality(T) = Cardinality(S) + 1
BY FS_AddElement, FS_CardinalityType

(* A finite set without some of its own. *)
LEMMA SomeLess ==
    ASSUME NEW S, NEW T, NEW W, IsFiniteSet(S), W \subseteq S, T = S \ W
    PROVE  /\ IsFiniteSet(W) /\ Cardinality(W) \in Nat /\ Cardinality(S) \in Nat /\ Cardinality(W) <= Cardinality(S)
           /\ Cardinality(T) = Cardinality(S) - Cardinality(W) /\ (Cardinality(W) = 0 <=> W = {})
<1>1. IsFiniteSet(W) /\ IsFiniteSet(T)
  BY FS_Subset
<1>2. Cardinality(W) \in Nat /\ Cardinality(S) \in Nat /\ Cardinality(T) \in Nat
  BY <1>1, FS_CardinalityType
<1>3. W \cap T = {} /\ S = W \cup T
  OBVIOUS
<1>4. Cardinality(S) = Cardinality(W) + Cardinality(T) - Cardinality(W \cap T)
  BY <1>1, <1>3, FS_Union
<1>5. Cardinality(W \cap T) = 0
  BY <1>3, FS_EmptySet
<1>6. Cardinality(W) = 0 <=> W = {}
  BY <1>1, FS_EmptySet
<1> QED BY <1>1, <1>2, <1>4, <1>5, <1>6

(* A filer that runs, with each window, offer and action counted. *)
MountsRun(s) == MountsSound(s) /\ s.filerRun.up /\ Surplus(s) = 0 /\ s.filerRun.count > 0

(* A change of something else. *)
LEMMA RunsAlike ==
    ASSUME NEW s, MountsRun(s), NEW u \in MountState, u.wins = s.wins, u.offers = s.offers,
           u.filerRun.up = s.filerRun.up, u.filerRun.count = s.filerRun.count,
           \A j \in Job : u.jobs[j].phase = "none" <=> s.jobs[j].phase = "none",
           NoneSilent(u), u.learnt.behind \/ u.learnt.file = u.learnt.table
    PROVE  MountsRun(u)
<1>1. OpenIn(u) = OpenIn(s) /\ OffersIn(u) = OffersIn(s) /\ JobsIn(u) = JobsIn(s)
  BY DEF OpenIn, OffersIn, JobsIn
<1>2. Surplus(u) = 0
  BY <1>1 DEF MountsRun, Surplus
<1> QED BY <1>2 DEF MountsRun, MountsSound, Bounded, AnswersWritten

(* What one_less_window changes (main.c:685). *)
LEMMA LessWindowsIs ==
    ASSUME NEW s \in MountState, NEW n \in Nat, NEW u, u = LessWindows(s, n)
    PROVE  /\ u \in MountState /\ u.mounts = s.mounts /\ u.wins = s.wins /\ u.offers = s.offers /\ u.jobs = s.jobs
           /\ u.learnt = s.learnt /\ u.filerRun.count = s.filerRun.count - n
           /\ u.filerRun.up <=> (n = 0 /\ s.filerRun.up) \/ (n # 0 /\ s.filerRun.count - n >= 1)
<1>1. s.filerRun \in RunRecord /\ s.filerRun.up \in BOOLEAN /\ s.filerRun.count \in Int
  BY StateParts
<1>2. CASE n = 0
  BY <1>1, <1>2 DEF LessWindows
<1>3. CASE n # 0
  <2>1. PICK k \in Int : k = s.filerRun.count - n
    BY <1>1
  <2>2. PICK up \in BOOLEAN : up = (s.filerRun.count - n >= 1)
    <3>1. CASE s.filerRun.count - n >= 1
      <4>1. (s.filerRun.count - n >= 1) = TRUE
        BY <3>1
      <4> QED BY <4>1, Zenon
    <3>2. CASE ~(s.filerRun.count - n >= 1)
      <4>1. (s.filerRun.count - n >= 1) = FALSE
        BY <3>2
      <4> QED BY <4>1, Zenon
    <3> QED BY <3>1, <3>2
  <2>3. PICK r : r = [s.filerRun EXCEPT !.count = k, !.up = up]
    OBVIOUS
  <2>4. r \in RunRecord /\ r.count = k /\ r.up = up
    BY <1>1, <2>3 DEF RunRecord
  <2>5. PICK t : t = [s EXCEPT !.filerRun = r]
    OBVIOUS
  <2>6. u = t
    <3>1. u = [s EXCEPT !.filerRun.count = k, !.filerRun.up = up]
      BY <1>3, <2>1, <2>2 DEF LessWindows
    <3> QED BY <2>3, <2>5, <3>1
  <2>7. /\ t \in MountState /\ t.mounts = s.mounts /\ t.wins = s.wins /\ t.offers = s.offers /\ t.jobs = s.jobs
        /\ t.learnt = s.learnt /\ t.filerRun = r
    BY <2>4, <2>5 DEF MountState
  <2> QED BY <1>3, <2>1, <2>2, <2>4, <2>6, <2>7
<1> QED BY <1>2, <1>3

(* Something that was counted is gone before the count is given back. *)
LEMMA GivenBack ==
    ASSUME NEW s \in MountState, s.filerRun.up, NEW n \in Nat, Surplus(s) = n,
           n = 0 => s.filerRun.count > 0, Bounded(s), AnswersWritten(s), NoneSilent(s),
           NEW u, u = LessWindows(s, n)
    PROVE  MountsSound(u) /\ AllCounted(u)
<1>1. /\ u \in MountState /\ u.wins = s.wins /\ u.offers = s.offers /\ u.jobs = s.jobs
      /\ u.learnt = s.learnt /\ u.filerRun.count = s.filerRun.count - n
      /\ (u.filerRun.up <=> (n = 0 /\ s.filerRun.up) \/ (n # 0 /\ s.filerRun.count - n >= 1))
  BY LessWindowsIs
<1>2. OpenIn(u) = OpenIn(s) /\ OffersIn(u) = OffersIn(s) /\ JobsIn(u) = JobsIn(s)
  BY <1>1 DEF OpenIn, OffersIn, JobsIn
<1>3. s.filerRun.count \in Int
  BY StateParts
<1>4. Surplus(u) = 0
  BY <1>1, <1>2, <1>3, CountsAre DEF Surplus
<1>5. AllCounted(u)
  BY <1>1, <1>3, <1>4 DEF AllCounted
<1>6. MountsSound(u)
  BY <1>1 DEF MountsSound, Bounded, AnswersWritten, NoneSilent
<1> QED BY <1>5, <1>6

(* Windows that are destroyed are counted off (filer.c:687). *)
LEMMA DestroyedIs ==
    ASSUME NEW s, MountsRun(s), NEW W \in SUBSET OpenIn(s), NEW u, u = Destroyed(s, W)
    PROVE  /\ MountsSound(u) /\ AllCounted(u) /\ u.offers = s.offers /\ u.jobs = s.jobs
           /\ u.wins = [w \in Win |-> IF w \in W THEN NoDir ELSE s.wins[w]]
<1>1. s \in MountState /\ s.filerRun.up /\ Surplus(s) = 0 /\ s.filerRun.count > 0
      /\ Bounded(s) /\ AnswersWritten(s) /\ NoneSilent(s)
  BY DEF MountsRun, MountsSound
<1>2. PICK wins2 : wins2 = [w \in Win |-> IF w \in W THEN NoDir ELSE s.wins[w]]
  OBVIOUS
<1>3. wins2 \in [Win -> ShownDir \cup {NoDir}]
  BY <1>1, <1>2, StateParts
<1>4. PICK t : t = [s EXCEPT !.wins = wins2]
  OBVIOUS
<1>5. /\ t \in MountState /\ t.mounts = s.mounts /\ t.wins = wins2 /\ t.offers = s.offers /\ t.jobs = s.jobs
      /\ t.learnt = s.learnt /\ t.filerRun = s.filerRun
  BY <1>1, <1>3, <1>4 DEF MountState
<1>6. OpenIn(t) = OpenIn(s) \ W /\ OffersIn(t) = OffersIn(s) /\ JobsIn(t) = JobsIn(s)
  BY <1>2, <1>5 DEF OpenIn, OffersIn, JobsIn
<1>7. PICK n : n = Cardinality(W)
  OBVIOUS
<1>8. n \in Nat /\ Cardinality(OpenIn(t)) = Cardinality(OpenIn(s)) - n
  <2>1. IsFiniteSet(OpenIn(s)) /\ W \subseteq OpenIn(s) /\ OpenIn(t) = OpenIn(s) \ W
    BY <1>1, <1>6, CountsAre
  <2>2. PICK O, P : O = OpenIn(s) /\ P = OpenIn(t)
    OBVIOUS
  <2>3. IsFiniteSet(O) /\ W \subseteq O /\ P = O \ W
    BY <2>1, <2>2, Zenon
  <2>4. Cardinality(W) \in Nat /\ Cardinality(P) = Cardinality(O) - Cardinality(W)
    BY <2>3, SomeLess, Zenon
  <2> QED BY <1>7, <2>2, <2>4
<1>9. Surplus(t) = n
  BY <1>1, <1>5, <1>6, <1>8, CountsAre, StateParts DEF Surplus
<1>10. u = LessWindows(t, n)
  BY <1>2, <1>4, <1>7 DEF Destroyed
<1>11. Bounded(t) /\ AnswersWritten(t) /\ NoneSilent(t)
  BY <1>1, <1>5 DEF Bounded, AnswersWritten, NoneSilent
<1>12. MountsSound(u) /\ AllCounted(u)
  BY <1>1, <1>5, <1>8, <1>9, <1>10, <1>11, GivenBack
<1>13. u.offers = t.offers /\ u.jobs = t.jobs /\ u.wins = t.wins
  BY <1>5, <1>8, <1>10, LessWindowsIs
<1> QED BY <1>2, <1>5, <1>12, <1>13

(* Looking at a mount point changes nothing that is counted. *)
LEMMA CheckedIs ==
    ASSUME NEW s, MountsRun(s), NEW M, NEW u, u = Checked(s, M)
    PROVE  MountsRun(u) /\ u.wins = s.wins /\ u.offers = s.offers /\ u.jobs = s.jobs /\ u.learnt = s.learnt
<1>1. s \in MountState /\ s.mounts \in MountsRecord
  BY StateParts DEF MountsRun, MountsSound
<1>2. PICK m : m = [s.mounts EXCEPT !.mine = @ \ (M \ s.mounts.now)]
  OBVIOUS
<1>3. m \in MountsRecord
  BY <1>1, <1>2 DEF MountsRecord
<1>4. u = [s EXCEPT !.mounts = m]
  BY <1>2 DEF Checked
<1>5. /\ u \in MountState /\ u.wins = s.wins /\ u.offers = s.offers /\ u.jobs = s.jobs /\ u.learnt = s.learnt
      /\ u.filerRun = s.filerRun
  BY <1>1, <1>3, <1>4 DEF MountState
<1>6. NoneSilent(u) /\ (u.learnt.behind \/ u.learnt.file = u.learnt.table)
  BY <1>5, StateParts DEF MountsRun, MountsSound, NoneSilent, AnswersWritten, LearntRecord
<1> QED BY <1>5, <1>6, RunsAlike

(* Nor does mount_user_mount. *)
LEMMA UserMountIs ==
    ASSUME NEW s, MountsRun(s), NEW m \in Mount, NEW u, u = UserMount(s, m)
    PROVE  MountsRun(u) /\ u.wins = s.wins /\ u.offers = s.offers /\ u.jobs = s.jobs /\ u.learnt = s.learnt
<1>1. s \in MountState /\ s.mounts \in MountsRecord
  BY StateParts DEF MountsRun, MountsSound
<1>2. PICK r : r = [s.mounts EXCEPT !.mine = IF m \in s.mounts.now THEN @ \cup {m} ELSE @ \ {m}]
  OBVIOUS
<1>3. r \in MountsRecord
  BY <1>1, <1>2 DEF MountsRecord
<1>4. u = [s EXCEPT !.mounts = r]
  BY <1>2 DEF UserMount
<1>5. /\ u \in MountState /\ u.wins = s.wins /\ u.offers = s.offers /\ u.jobs = s.jobs /\ u.learnt = s.learnt
      /\ u.filerRun = s.filerRun
  BY <1>1, <1>3, <1>4 DEF MountState
<1>6. NoneSilent(u) /\ (u.learnt.behind \/ u.learnt.file = u.learnt.table)
  BY <1>5, StateParts DEF MountsRun, MountsSound, NoneSilent, AnswersWritten, LearntRecord
<1> QED BY <1>5, <1>6, RunsAlike

(* Something more is counted together with what the count is for. *)
LEMMA OneMoreCounted ==
    ASSUME NEW s, MountsRun(s), NEW r \in RunRecord, r.up, r.count = s.filerRun.count + 1,
           NEW u \in MountState, u.filerRun = r, u.learnt = s.learnt, Bounded(u), NoneSilent(u),
           \/ \E x : x \notin OpenIn(s) /\ OpenIn(u) = OpenIn(s) \cup {x} /\ OffersIn(u) = OffersIn(s) /\ JobsIn(u) = JobsIn(s)
           \/ \E x : x \notin OffersIn(s) /\ OffersIn(u) = OffersIn(s) \cup {x} /\ OpenIn(u) = OpenIn(s) /\ JobsIn(u) = JobsIn(s)
           \/ \E x : x \notin JobsIn(s) /\ JobsIn(u) = JobsIn(s) \cup {x} /\ OpenIn(u) = OpenIn(s) /\ OffersIn(u) = OffersIn(s)
    PROVE  MountsRun(u)
<1>1. s \in MountState /\ s.filerRun.count \in Int /\ s.filerRun.count > 0 /\ Surplus(s) = 0
  BY StateParts DEF MountsRun, MountsSound
<1>2. Cardinality(OpenIn(u)) + Cardinality(OffersIn(u)) + Cardinality(JobsIn(u))
        = Cardinality(OpenIn(s)) + Cardinality(OffersIn(s)) + Cardinality(JobsIn(s)) + 1
  <2>1. CASE \E x : x \notin OpenIn(s) /\ OpenIn(u) = OpenIn(s) \cup {x} /\ OffersIn(u) = OffersIn(s) /\ JobsIn(u) = JobsIn(s)
    <3>1. Cardinality(OpenIn(u)) = Cardinality(OpenIn(s)) + 1
      BY <1>1, <2>1, CountsAre, OneMore
    <3> QED BY <1>1, <2>1, <3>1, CountsAre
  <2>2. CASE \E x : x \notin OffersIn(s) /\ OffersIn(u) = OffersIn(s) \cup {x} /\ OpenIn(u) = OpenIn(s) /\ JobsIn(u) = JobsIn(s)
    <3>1. Cardinality(OffersIn(u)) = Cardinality(OffersIn(s)) + 1
      BY <1>1, <2>2, CountsAre, OneMore
    <3> QED BY <1>1, <2>2, <3>1, CountsAre
  <2>3. CASE \E x : x \notin JobsIn(s) /\ JobsIn(u) = JobsIn(s) \cup {x} /\ OpenIn(u) = OpenIn(s) /\ OffersIn(u) = OffersIn(s)
    <3>1. Cardinality(JobsIn(u)) = Cardinality(JobsIn(s)) + 1
      BY <1>1, <2>3, CountsAre, OneMore
    <3> QED BY <1>1, <2>3, <3>1, CountsAre
  <2> QED BY <2>1, <2>2, <2>3
<1>3. Surplus(u) = 0
  BY <1>1, <1>2, CountsAre DEF Surplus
<1>4. AnswersWritten(u)
  BY DEF MountsRun, MountsSound, AnswersWritten
<1> QED BY <1>1, <1>3, <1>4 DEF MountsRun, MountsSound

(* The count after one more. *)
LEMMA CountUp ==
    ASSUME NEW s, MountsRun(s)
    PROVE  \E r \in RunRecord : r = [s.filerRun EXCEPT !.count = @ + 1] /\ r.up /\ r.count = s.filerRun.count + 1
<1>1. s.filerRun \in RunRecord /\ s.filerRun.up /\ s.filerRun.count \in Int
  BY StateParts DEF MountsRun, MountsSound
<1>2. PICK k \in Int : k = s.filerRun.count + 1
  BY <1>1
<1>3. PICK r : r = [s.filerRun EXCEPT !.count = k]
  OBVIOUS
<1>4. r \in RunRecord /\ r.up /\ r.count = k
  BY <1>1, <1>3 DEF RunRecord
<1>5. r = [s.filerRun EXCEPT !.count = @ + 1]
  BY <1>2, <1>3
<1> QED BY <1>2, <1>4, <1>5

(* An action window is counted as it is started. *)
LEMMA StartsIs ==
    ASSUME NEW s, MountsRun(s), NEW j \in Job, s.jobs[j].phase = "none", NEW does \in {"mount"} \cup Way, NEW m \in Mount,
           NEW silent \in BOOLEAN, NEW u, u = Starts(s, j, does, m, silent)
    PROVE  /\ MountsRun(u) /\ u.wins = s.wins /\ u.offers = s.offers /\ u.learnt = s.learnt
           /\ u.jobs[j].mount = m /\ u.jobs[j].silent = silent /\ \A k \in Job \ {j} : u.jobs[k] = s.jobs[k]
<1>1. s \in MountState /\ s.jobs \in [Job -> JobRecord] /\ Bounded(s) /\ NoneSilent(s)
  BY StateParts DEF MountsRun, MountsSound
<1>2. PICK r \in RunRecord : r = [s.filerRun EXCEPT !.count = @ + 1] /\ r.up /\ r.count = s.filerRun.count + 1
  BY CountUp
<1>3. PICK e : e = [does |-> does, mount |-> m, silent |-> silent, phase |-> "started"]
  OBVIOUS
<1>4. e \in JobRecord /\ e.mount = m /\ e.silent = silent /\ e.phase = "started"
  BY <1>3 DEF JobRecord
<1>5. PICK jobs2 : jobs2 = [s.jobs EXCEPT ![j] = e]
  OBVIOUS
<1>6. jobs2 \in [Job -> JobRecord] /\ jobs2[j] = e /\ \A k \in Job \ {j} : jobs2[k] = s.jobs[k]
  BY <1>1, <1>4, <1>5
<1>7. PICK t : t = [s EXCEPT !.jobs = jobs2, !.filerRun = r]
  OBVIOUS
<1>8. /\ t \in MountState /\ t.mounts = s.mounts /\ t.wins = s.wins /\ t.offers = s.offers /\ t.jobs = jobs2
      /\ t.learnt = s.learnt /\ t.filerRun = r
  BY <1>1, <1>6, <1>7 DEF MountState
<1>9. u = t
  BY <1>2, <1>3, <1>5, <1>7 DEF Starts
<1>10. /\ j \notin JobsIn(s) /\ JobsIn(t) = JobsIn(s) \cup {j} /\ OpenIn(t) = OpenIn(s) /\ OffersIn(t) = OffersIn(s)
  BY <1>4, <1>6, <1>8 DEF JobsIn, OpenIn, OffersIn
<1>11. Bounded(t) /\ NoneSilent(t)
  BY <1>1, <1>4, <1>6, <1>8 DEF Bounded, NoneSilent
<1>12. MountsRun(t)
  BY <1>2, <1>8, <1>10, <1>11, OneMoreCounted
<1> QED BY <1>4, <1>6, <1>8, <1>9, <1>12

OneOffer(s, m) == [s EXCEPT !.offers[m] = @ + 1, !.filerRun.count = @ + 1]

(* A dialog is counted as it comes up. *)
LEMMA OfferMore ==
    ASSUME NEW s, MountsRun(s), NEW m \in Mount, NEW u, u = OneOffer(s, m), Bounded(u)
    PROVE  /\ MountsRun(u) /\ u.wins = s.wins /\ u.jobs = s.jobs /\ u.learnt = s.learnt
           /\ \A n \in Mount \ {m} : u.offers[n] = s.offers[n]
<1>1. s \in MountState /\ s.offers \in [Mount -> Nat] /\ s.offers[m] \in Nat /\ NoneSilent(s)
  BY StateParts DEF MountsRun, MountsSound
<1>2. PICK r \in RunRecord : r = [s.filerRun EXCEPT !.count = @ + 1] /\ r.up /\ r.count = s.filerRun.count + 1
  BY CountUp
<1>3. PICK n \in Nat : n = s.offers[m] + 1
  BY <1>1
<1>4. PICK offers2 : offers2 = [s.offers EXCEPT ![m] = n]
  OBVIOUS
<1>5. offers2 \in [Mount -> Nat] /\ offers2[m] = n /\ \A k \in Mount \ {m} : offers2[k] = s.offers[k]
  BY <1>1, <1>4
<1>6. PICK t : t = [s EXCEPT !.offers = offers2, !.filerRun = r]
  OBVIOUS
<1>7. /\ t \in MountState /\ t.mounts = s.mounts /\ t.wins = s.wins /\ t.offers = offers2 /\ t.jobs = s.jobs
      /\ t.learnt = s.learnt /\ t.filerRun = r
  BY <1>1, <1>5, <1>6 DEF MountState
<1>8. u = t
  BY <1>2, <1>3, <1>4, <1>6 DEF OneOffer
<1>9. n <= MaxOffers /\ n \in 1..MaxOffers
  <2>1. MaxOffers \in Nat
    BY MountAssumption, Zenon
  <2>2. n <= MaxOffers
    BY <1>5, <1>7, <1>8 DEF Bounded
  <2> QED BY <1>1, <1>3, <2>1, <2>2
<1>10. <<m, n>> \notin OffersIn(s) /\ OffersIn(t) = OffersIn(s) \cup {<<m, n>>}
  <2>1. MaxOffers \in Nat
    BY MountAssumption, Zenon
  <2>2. \A k \in Mount, i \in 1..MaxOffers : i <= offers2[k] <=> i <= s.offers[k] \/ (k = m /\ i = n)
    BY <1>1, <1>3, <1>5, <2>1
  <2>3. \A o \in Mount \X (1..MaxOffers) : o = <<o[1], o[2]>> /\ o[1] \in Mount /\ o[2] \in 1..MaxOffers
    OBVIOUS
  <2>4. ~(n <= s.offers[m])
    BY <1>1, <1>3
  <2>5. <<m, n>> \in Mount \X (1..MaxOffers) /\ <<m, n>>[1] = m /\ <<m, n>>[2] = n
    BY <1>9
  <2>6. \A o \in Mount \X (1..MaxOffers) : o[2] <= offers2[o[1]] <=> o[2] <= s.offers[o[1]] \/ o = <<m, n>>
    BY <2>2, <2>3, <2>5
  <2> QED BY <1>7, <2>4, <2>5, <2>6 DEF OffersIn
<1>11. OpenIn(t) = OpenIn(s) /\ JobsIn(t) = JobsIn(s)
  BY <1>7 DEF JobsIn, OpenIn
<1>12. NoneSilent(t) /\ Bounded(t)
  BY <1>1, <1>7, <1>8 DEF NoneSilent
<1>13. MountsRun(t)
  BY <1>2, <1>7, <1>10, <1>11, <1>12, OneMoreCounted
<1> QED BY <1>5, <1>7, <1>8, <1>13

(* An answer that is neither of the two is a way of unmounting. *)
LEMMA AnswersAre == ASSUME NEW s \in MountState, NEW m \in Mount, s.learnt.table[m] \notin {"ask", "no change"}
                    PROVE  s.learnt.table[m] \in Way
<1>1. s.learnt.table[m] \in Choice
  BY StateParts DEF LearntRecord
<1> QED BY <1>1 DEF Choice

(* An offer, or an unmount without one, comes when no other window is left.*)
LEMMA MayOfferIs ==
    ASSUME NEW s, MountsRun(s), NEW w \in Win, NEW m \in Mount, NEW j \in Job, s.jobs[j].phase = "none",
           NEW u, u = MayOffer(s, w, m, j), Bounded(u)
    PROVE  /\ MountsRun(u) /\ u.wins = s.wins
           /\ \A n \in Mount \ {m} : u.offers[n] = s.offers[n]
           /\ \A k \in Job : s.jobs[k].phase = "none" => ~u.jobs[k].silent \/ u.jobs[k].mount = m
           /\ \/ u.offers = s.offers /\ u.jobs = s.jobs
              \/ \A v \in Win \ {w} : ~Under(s.wins[v], m)
<1>1. s \in MountState /\ NoneSilent(s)
  BY DEF MountsRun, MountsSound
<1>2. CASE \E v \in Win \ {w} : Under(s.wins[v], m)
  BY <1>1, <1>2 DEF MayOffer, NoneSilent
<1>3. CASE ~\E v \in Win \ {w} : Under(s.wins[v], m)
  <2>1. CASE s.learnt.table[m] = "ask"
    <3>1. u = OneOffer(s, m)
      BY <1>3, <2>1 DEF MayOffer, OneOffer
    <3>2. MountsRun(u) /\ u.wins = s.wins /\ u.jobs = s.jobs /\ \A n \in Mount \ {m} : u.offers[n] = s.offers[n]
      BY <3>1, OfferMore
    <3> QED BY <1>1, <1>3, <3>2 DEF NoneSilent
  <2>2. CASE s.learnt.table[m] = "no change"
    <3>1. u = s
      BY <1>3, <2>2 DEF MayOffer
    <3> QED BY <1>1, <3>1 DEF NoneSilent
  <2>3. CASE s.learnt.table[m] \notin {"ask", "no change"}
    <3>0. PICK silent \in BOOLEAN, does \in {"mount"} \cup Way : silent = TRUE /\ does = s.learnt.table[m]
      BY <1>1, <2>3, AnswersAre
    <3>1. u = Starts(s, j, does, m, silent)
      BY <1>3, <2>3, <3>0 DEF MayOffer
    <3>2. s.jobs[j].phase = "none"
      OBVIOUS
    <3>3. /\ MountsRun(u) /\ u.wins = s.wins /\ u.offers = s.offers
          /\ u.jobs[j].mount = m /\ \A k \in Job \ {j} : u.jobs[k] = s.jobs[k]
      BY <3>1, <3>2, StartsIs
    <3>4. \A k \in Job : s.jobs[k].phase = "none" => ~u.jobs[k].silent \/ u.jobs[k].mount = m
      BY <1>1, <3>3 DEF NoneSilent
    <3> QED BY <1>3, <3>3, <3>4
  <2> QED BY <2>1, <2>2, <2>3
<1> QED BY <1>2, <1>3

(* After an answer the table is in the file, or the file is behind. *)
LEMMA SetUnmountActionIs ==
    ASSUME NEW s, MountsRun(s), NEW m \in Mount, NEW choice \in Choice, NEW works \in BOOLEAN,
           NEW u, u = SetUnmountAction(s, m, choice, works)
    PROVE  MountsRun(u) /\ u.wins = s.wins /\ u.offers = s.offers /\ u.jobs = s.jobs
<1>1. s \in MountState /\ s.learnt \in LearntRecord /\ NoneSilent(s)
  BY StateParts DEF MountsRun, MountsSound
<1>2. PICK table : table = [s.learnt.table EXCEPT ![m] = choice]
  OBVIOUS
<1>3. table \in [Mount -> Choice]
  BY <1>1, <1>2 DEF LearntRecord
<1>4. PICK l : l = IF works THEN [s.learnt EXCEPT !.table = table, !.file = table, !.behind = FALSE]
                            ELSE [s.learnt EXCEPT !.table = table, !.behind = TRUE]
  OBVIOUS
<1>5. l \in LearntRecord /\ (l.behind \/ l.file = l.table)
  BY <1>1, <1>3, <1>4 DEF LearntRecord
<1>6. PICK a : a = [s EXCEPT !.learnt = [s.learnt EXCEPT !.table = table]]
  OBVIOUS
<1>7. /\ a \in MountState /\ a.learnt = [s.learnt EXCEPT !.table = table] /\ a.wins = s.wins /\ a.offers = s.offers
      /\ a.jobs = s.jobs /\ a.filerRun = s.filerRun /\ a.learnt \in LearntRecord /\ a.learnt.table = table
  <2>1. [s.learnt EXCEPT !.table = table] \in LearntRecord
    BY <1>1, <1>3 DEF LearntRecord
  <2> QED BY <1>1, <1>6, <2>1 DEF MountState, LearntRecord
<1>8. u = SaveLearnt(a, works)
  BY <1>2, <1>6 DEF SetUnmountAction
<1>9. u = [a EXCEPT !.learnt = l]
  <2>1. CASE works
    <3>1. l = [a.learnt EXCEPT !.file = a.learnt.table, !.behind = FALSE]
      BY <1>1, <1>4, <1>7, <2>1 DEF LearntRecord
    <3> QED BY <1>8, <2>1, <3>1 DEF SaveLearnt
  <2>2. CASE ~works
    <3>1. l = [a.learnt EXCEPT !.behind = TRUE]
      BY <1>1, <1>4, <1>7, <2>2 DEF LearntRecord
    <3> QED BY <1>8, <2>2, <3>1 DEF SaveLearnt
  <2> QED BY <2>1, <2>2
<1>10. /\ u \in MountState /\ u.learnt = l /\ u.wins = s.wins /\ u.offers = s.offers /\ u.jobs = s.jobs /\ u.filerRun = s.filerRun
  BY <1>5, <1>7, <1>9 DEF MountState
<1>11. NoneSilent(u)
  BY <1>1, <1>10 DEF NoneSilent
<1> QED BY <1>5, <1>10, <1>11, RunsAlike

(* Counting what others do changes nothing else. *)
LEMMA EventIs ==
    ASSUME NEW s \in MountState, NEW u, u = Event(s)
    PROVE  /\ u \in MountState /\ u.mounts = s.mounts /\ u.wins = s.wins /\ u.offers = s.offers /\ u.jobs = s.jobs
           /\ u.learnt = s.learnt /\ u.filerRun.up = s.filerRun.up /\ u.filerRun.count = s.filerRun.count
           /\ (MountsRun(s) => MountsRun(u))
<1>1. s.filerRun \in RunRecord /\ s.filerRun.events \in Nat
  BY StateParts
<1>2. PICK k \in Nat : k = s.filerRun.events + 1
  BY <1>1
<1>3. PICK r : r = [s.filerRun EXCEPT !.events = k]
  OBVIOUS
<1>4. r \in RunRecord /\ r.up = s.filerRun.up /\ r.count = s.filerRun.count
  BY <1>1, <1>3 DEF RunRecord
<1>5. u = [s EXCEPT !.filerRun = r]
  BY <1>2, <1>3 DEF Event
<1>6. /\ u \in MountState /\ u.mounts = s.mounts /\ u.wins = s.wins /\ u.offers = s.offers /\ u.jobs = s.jobs
      /\ u.learnt = s.learnt /\ u.filerRun = r
  BY <1>4, <1>5 DEF MountState
<1>7. ASSUME MountsRun(s) PROVE MountsRun(u)
  <2>1. NoneSilent(u) /\ (u.learnt.behind \/ u.learnt.file = u.learnt.table)
    BY <1>6, <1>7, StateParts DEF MountsRun, MountsSound, NoneSilent, AnswersWritten, LearntRecord
  <2> QED BY <1>4, <1>6, <1>7, <2>1, RunsAlike
<1> QED BY <1>4, <1>6, <1>7

(* What no offer and no unmount by itself comes of. *)
NothingComes(s) == /\ \A m \in Mount : s.offers[m] <= offers[m]
             /\ \A j \in Job : Free(j) => ~s.jobs[j].silent

(* A step after which there is no offer more is as OffersAreLast has it. *)
LEMMA NothingOffered ==
    ASSUME NEW s \in MountState, offers \in [Mount -> Nat], MountsBecome(s), NothingComes(s)
    PROVE  OffersAreLast
<1>1. offers' = s.offers /\ jobs' = s.jobs
  BY DEF MountsBecome
<1>2. \A m \in Mount : ~(s.offers[m] > offers[m])
  <2>1. s.offers \in [Mount -> Nat]
    BY StateParts
  <2> QED BY <2>1 DEF NothingComes
<1> QED BY <1>1, <1>2 DEF OffersAreLast, Comes, NothingComes

(* What the invariant says of the state as it is. *)
LEMMA RunsNow ==
    ASSUME MountInv
    PROVE  /\ MountsSound(MountsNow) /\ MountsNow \in MountState /\ (filerRun.up => MountsRun(MountsNow))
           /\ offers \in [Mount -> Nat] /\ jobs \in [Job -> JobRecord] /\ NothingComes(MountsNow)
<1>1. MountsSound(MountsNow) /\ MountsNow \in MountState /\ NoneSilent(MountsNow)
  BY DEF MountInv, MountsSound
<1>2. filerRun.up => MountsRun(MountsNow)
  BY <1>1, NowIs DEF MountInv, AllCounted, MountsRun
<1>3. offers \in [Mount -> Nat] /\ jobs \in [Job -> JobRecord]
  BY <1>1, StateParts, NowIs
<1>4. NothingComes(MountsNow)
  BY <1>1, <1>3, NowIs DEF NothingComes, NoneSilent, Free
<1> QED BY <1>1, <1>2, <1>3, <1>4

(* A handler that offers nothing. *)
LEMMA QuietStep ==
    ASSUME MountInv, NEW s, MountsSound(s), AllCounted(s), NothingComes(s), MountsBecome(s)
    PROVE  MountInv' /\ OffersAreLast
<1>1. s \in MountState
  BY DEF MountsSound
<1>2. offers \in [Mount -> Nat]
  BY RunsNow
<1> QED BY <1>1, <1>2, InvIs, NothingOffered

(* A filer that runs is as the invariant has it. *)
LEMMA RunningIs == ASSUME NEW s, MountsRun(s) PROVE MountsSound(s) /\ AllCounted(s)
BY DEF MountsRun, AllCounted

(* A filer that does not run yet, and nothing mounted. *)
LEMMA MountStart == MountInit => MountInv
<1> SUFFICES ASSUME MountInit PROVE MountInv
  OBVIOUS
<1>1. AskAll \in [Mount -> Choice]
  BY DEF AskAll, Choice
<1>2. NoJob \in JobRecord
  BY DEF NoJob, JobRecord
<1>3. MountsNow \in MountState
  <2>1. mounts \in MountsRecord /\ wins \in [Win -> ShownDir \cup {NoDir}] /\ offers \in [Mount -> Nat]
    BY DEF MountInit, MountsRecord
  <2>2. jobs \in [Job -> JobRecord]
    BY <1>2 DEF MountInit
  <2>3. learnt \in LearntRecord
    BY <1>1 DEF MountInit, LearntRecord
  <2>4. filerRun \in RunRecord
    BY DEF MountInit, RunRecord
  <2> QED BY <2>1, <2>2, <2>3, <2>4 DEF MountsNow, MountState
<1>4. ~MountsNow.filerRun.up /\ Bounded(MountsNow) /\ NoneSilent(MountsNow)
  <2>1. MaxOffers \in Nat
    BY MountAssumption, Zenon
  <2> QED BY <2>1, NowIs DEF MountInit, Bounded, NoneSilent, NoJob
<1> QED BY <1>3, <1>4 DEF MountInv, MountsSound, AllCounted, AnswersWritten

(* An offer for one mount point of the user's that no window is left on. *)
LEMMA LastOffer ==
    ASSUME MountInv, NEW v \in MountState, MountsBecome(v), NEW m \in Mount, m \in mounts.mine \cap mounts.now,
           \A n \in Mount \ {m} : v.offers[n] = offers[n],
           \A k \in Job : jobs[k].phase = "none" => ~v.jobs[k].silent \/ v.jobs[k].mount = m,
           \/ v.offers = offers /\ v.jobs = jobs
           \/ \A x \in Win : ~Under(v.wins[x], m)
    PROVE  OffersAreLast
<1>1. offers' = v.offers /\ jobs' = v.jobs /\ wins' = v.wins /\ offers \in [Mount -> Nat]
  BY RunsNow DEF MountsBecome
<1>2. CASE v.offers = offers /\ v.jobs = jobs
  <2>1. NothingComes(v)
    BY <1>1, <1>2, RunsNow, NowIs DEF NothingComes
  <2> QED BY <1>1, <2>1, NothingOffered
<1>3. CASE \A x \in Win : ~Under(v.wins[x], m)
  <2>1. \A x \in Win : ~Under(wins'[x], m)
    BY <1>1, <1>3 DEF Under
  <2>2. \A n \in Mount \ {m} : ~(offers'[n] > offers[n])
    BY <1>1
  <2>3. \A n \in Mount \ {m} : ~\E k \in Job : jobs'[k].silent /\ jobs'[k].mount = n /\ Free(k)
    BY <1>1 DEF Free
  <2> QED BY <2>1, <2>2, <2>3 DEF OffersAreLast, Comes
<1> QED BY <1>2, <1>3

(* A window is closed: the nearest mount point of the user's above it. *)
LEMMA CloseWindowStep == ASSUME MountInv, NEW w \in Win, NEW j \in Job, CloseWindow(w, j) PROVE MountInv' /\ OffersAreLast
<1>1. PICK s : s = MountsNow
  OBVIOUS
<1>2. /\ MountsRun(s) /\ s \in MountState /\ s.wins = wins /\ s.offers = offers /\ s.jobs = jobs /\ s.mounts = mounts
      /\ wins[w] # NoDir /\ jobs[j].phase = "none" /\ offers \in [Mount -> Nat]
  BY <1>1, RunsNow, NowIs DEF CloseWindow, Free
<1>3. PICK p : p = wins[w]
  OBVIOUS
<1>4. PICK t : t = Checked(s, Passed(s, p))
  OBVIOUS
<1>5. MountsRun(t) /\ t.wins = s.wins /\ t.offers = s.offers /\ t.jobs = s.jobs
  BY <1>2, <1>4, CheckedIs
<1>6. PICK u : u = IF Nearest(s, p) = {} THEN t ELSE MayOffer(t, w, CHOOSE m \in Nearest(s, p) : TRUE, j)
  OBVIOUS
<1>7. PICK v : v = WindowDelete(s, w, j)
  OBVIOUS
<1>8. Bounded(v) /\ MountsBecome(v)
  BY <1>1, <1>7 DEF CloseWindow
<1>9. v = Destroyed(u, {w})
  BY <1>2, <1>3, <1>4, <1>6, <1>7 DEF WindowDelete
<1>10. v.offers = u.offers
  BY <1>9 DEF Destroyed, LessWindows
<1>11. Bounded(u)
  BY <1>8, <1>10 DEF Bounded
<1>12. ASSUME MountsRun(u), u.wins = s.wins
       PROVE  MountInv' /\ v.offers = u.offers /\ v.jobs = u.jobs /\ v \in MountState
              /\ v.wins = [x \in Win |-> IF x \in {w} THEN NoDir ELSE s.wins[x]]
  <2>1. {w} \in SUBSET OpenIn(u)
    BY <1>2, <1>12 DEF OpenIn
  <2>2. MountsSound(v) /\ AllCounted(v) /\ v.offers = u.offers /\ v.jobs = u.jobs
        /\ v.wins = [x \in Win |-> IF x \in {w} THEN NoDir ELSE s.wins[x]]
    BY <1>9, <1>12, <2>1, DestroyedIs
  <2> QED BY <1>8, <2>2, InvIs DEF MountsSound
<1>13. CASE Nearest(s, p) = {}
  <2>1. u = t
    BY <1>6, <1>13
  <2>2. MountInv' /\ v.offers = s.offers /\ v.jobs = s.jobs /\ v \in MountState
    BY <1>5, <1>12, <2>1
  <2>3. NothingComes(v)
    BY <1>1, <1>2, <2>2, RunsNow, NowIs DEF NothingComes
  <2> QED BY <1>2, <1>8, <2>2, <2>3, NothingOffered
<1>14. CASE Nearest(s, p) # {}
  <2>1. PICK m \in Nearest(s, p) : m = CHOOSE n \in Nearest(s, p) : TRUE
    BY <1>14
  <2>2. m \in Mount /\ m \in mounts.mine \cap mounts.now
    BY <1>2, <2>1 DEF Nearest, Mine, IsUserMounted
  <2>3. u = MayOffer(t, w, m, j)
    BY <1>6, <1>14, <2>1
  <2>4. /\ MountsRun(u) /\ u.wins = s.wins
        /\ \A n \in Mount \ {m} : u.offers[n] = offers[n]
        /\ \A k \in Job : jobs[k].phase = "none" => ~u.jobs[k].silent \/ u.jobs[k].mount = m
        /\ \/ u.offers = offers /\ u.jobs = jobs
           \/ \A x \in Win \ {w} : ~Under(wins[x], m)
    <3>1. t.jobs[j].phase = "none"
      BY <1>2, <1>5
    <3>2. /\ MountsRun(u) /\ u.wins = t.wins
          /\ \A n \in Mount \ {m} : u.offers[n] = t.offers[n]
          /\ \A k \in Job : t.jobs[k].phase = "none" => ~u.jobs[k].silent \/ u.jobs[k].mount = m
          /\ \/ u.offers = t.offers /\ u.jobs = t.jobs
             \/ \A x \in Win \ {w} : ~Under(t.wins[x], m)
      BY <1>5, <1>11, <2>2, <2>3, <3>1, MayOfferIs
    <3> QED BY <1>2, <1>5, <3>2
  <2>5. /\ MountInv' /\ v.offers = u.offers /\ v.jobs = u.jobs /\ v \in MountState
        /\ v.wins = [x \in Win |-> IF x \in {w} THEN NoDir ELSE s.wins[x]]
    BY <1>12, <2>4
  <2>6. /\ \A n \in Mount \ {m} : v.offers[n] = offers[n]
        /\ \A k \in Job : jobs[k].phase = "none" => ~v.jobs[k].silent \/ v.jobs[k].mount = m
    BY <2>4, <2>5
  <2>7. \/ v.offers = offers /\ v.jobs = jobs
        \/ \A x \in Win : ~Under(v.wins[x], m)
    BY <1>2, <2>4, <2>5 DEF Under
  <2> QED BY <1>8, <2>2, <2>5, <2>6, <2>7, LastOffer
<1> QED BY <1>13, <1>14

(* A window that is there shows another directory. *)
LEMMA MovedIs ==
    ASSUME NEW s, MountsRun(s), NEW w \in Win, s.wins[w] # NoDir, NEW p \in ShownDir, NEW u, u = [s EXCEPT !.wins[w] = p]
    PROVE  /\ MountsRun(u) /\ u \in MountState /\ u.offers = s.offers /\ u.jobs = s.jobs
           /\ u.wins[w] = p /\ \A v \in Win \ {w} : u.wins[v] = s.wins[v]
<1>1. /\ s \in MountState /\ s.wins \in [Win -> ShownDir \cup {NoDir}] /\ Bounded(s) /\ AnswersWritten(s) /\ NoneSilent(s)
      /\ s.filerRun.up /\ Surplus(s) = 0 /\ s.filerRun.count > 0
  BY StateParts DEF MountsRun, MountsSound
<1>2. PICK wins2 : wins2 = [s.wins EXCEPT ![w] = p]
  OBVIOUS
<1>3. /\ wins2 \in [Win -> ShownDir \cup {NoDir}] /\ wins2[w] = p /\ \A v \in Win \ {w} : wins2[v] = s.wins[v]
  BY <1>1, <1>2
<1>4. u = [s EXCEPT !.wins = wins2]
  BY <1>2
<1>5. /\ u \in MountState /\ u.wins = wins2 /\ u.offers = s.offers /\ u.jobs = s.jobs
      /\ u.learnt = s.learnt /\ u.filerRun = s.filerRun
  BY <1>1, <1>3, <1>4 DEF MountState
<1>6. p # NoDir
  BY MountAssumption, Zenon
<1>7. OpenIn(u) = OpenIn(s)
  BY <1>3, <1>5, <1>6 DEF OpenIn
<1>8. OffersIn(u) = OffersIn(s) /\ JobsIn(u) = JobsIn(s)
  BY <1>5 DEF OffersIn, JobsIn
<1>9. Surplus(u) = 0
  BY <1>1, <1>5, <1>7, <1>8 DEF Surplus
<1>10. Bounded(u) /\ AnswersWritten(u) /\ NoneSilent(u)
  BY <1>1, <1>5 DEF Bounded, AnswersWritten, NoneSilent
<1> QED BY <1>1, <1>3, <1>5, <1>9, <1>10 DEF MountsRun, MountsSound

(* A window leaves a mount point for its parent, which is not below it. *)
LEMMA ChangeToParentStep == ASSUME MountInv, NEW w \in Win, NEW j \in Job, ChangeToParent(w, j) PROVE MountInv' /\ OffersAreLast
<1>1. PICK r : r = MountsNow
  OBVIOUS
<1>2. /\ MountsRun(r) /\ r \in MountState /\ r.wins = wins /\ r.offers = offers /\ r.jobs = jobs /\ r.mounts = mounts
      /\ wins[w] # NoDir /\ Parent[wins[w]] # wins[w] /\ jobs[j].phase = "none" /\ wins \in [Win -> ShownDir \cup {NoDir}]
  BY <1>1, RunsNow, NowIs, StateParts DEF ChangeToParent, Free
<1>3. PICK p \in ShownDir : p = wins[w]
  BY <1>2
<1>4. Parent \in [ShownDir -> ShownDir] /\ \A d \in ShownDir : Parent[d] # d => d \notin Above[Parent[d]]
  BY MountAssumption, Zenon
<1>5. Parent[p] \in ShownDir /\ p \notin Above[Parent[p]]
  BY <1>2, <1>3, <1>4
<1>6. PICK s : s = IF p \in Mount THEN Checked(r, {p}) ELSE r
  OBVIOUS
<1>7. PICK t : t = IF p \in Mount /\ IsUserMounted(s, p) THEN MayOffer(s, w, p, j) ELSE s
  OBVIOUS
<1>8. PICK v : v = [t EXCEPT !.wins[w] = Parent[p]]
  OBVIOUS
<1>9. Bounded(t) /\ MountsBecome(v)
  BY <1>1, <1>3, <1>6, <1>7, <1>8 DEF ChangeToParent
<1>10. MountsRun(s) /\ s.wins = wins /\ s.offers = offers /\ s.jobs = jobs
  BY <1>2, <1>6, CheckedIs
<1>11. ASSUME MountsRun(t), t.wins = wins
       PROVE  /\ MountsSound(v) /\ AllCounted(v) /\ v \in MountState /\ v.offers = t.offers /\ v.jobs = t.jobs
              /\ v.wins[w] = Parent[p] /\ \A x \in Win \ {w} : v.wins[x] = wins[x]
  BY <1>2, <1>5, <1>8, <1>11, MovedIs, RunningIs
<1>12. CASE ~(p \in Mount /\ IsUserMounted(s, p))
  <2>1. t = s
    BY <1>7, <1>12
  <2>2. MountsSound(v) /\ AllCounted(v) /\ v.offers = offers /\ v.jobs = jobs
    BY <1>10, <1>11, <2>1
  <2>3. NothingComes(v)
    BY <1>1, <1>2, <2>2, RunsNow, NowIs DEF NothingComes
  <2> QED BY <1>9, <2>2, <2>3, QuietStep
<1>13. CASE p \in Mount /\ IsUserMounted(s, p)
  <2>1. t = MayOffer(s, w, p, j)
    BY <1>7, <1>13
  <2>2. /\ MountsRun(t) /\ t.wins = s.wins
        /\ \A n \in Mount \ {p} : t.offers[n] = s.offers[n]
        /\ \A k \in Job : s.jobs[k].phase = "none" => ~t.jobs[k].silent \/ t.jobs[k].mount = p
        /\ \/ t.offers = s.offers /\ t.jobs = s.jobs
           \/ \A x \in Win \ {w} : ~Under(s.wins[x], p)
    <3>1. s.jobs[j].phase = "none"
      BY <1>2, <1>10
    <3> QED BY <1>9, <1>10, <1>13, <2>1, <3>1, MayOfferIs
  <2>3. /\ MountsSound(v) /\ AllCounted(v) /\ v \in MountState /\ v.offers = t.offers /\ v.jobs = t.jobs
        /\ v.wins[w] = Parent[p] /\ \A x \in Win \ {w} : v.wins[x] = wins[x]
    BY <1>10, <1>11, <2>2
  <2>4. p \in mounts.mine \cap mounts.now
    <3>1. s = Checked(r, {p})
      BY <1>6, <1>13
    <3>2. r.mounts \in MountsRecord
      BY <1>2, StateParts
    <3>3. s.mounts = [r.mounts EXCEPT !.mine = @ \ ({p} \ r.mounts.now)]
      BY <1>2, <3>1 DEF Checked, MountState
    <3>4. s.mounts.mine \subseteq mounts.mine /\ s.mounts.now = mounts.now
      BY <1>2, <3>2, <3>3 DEF MountsRecord
    <3> QED BY <1>13, <3>4 DEF IsUserMounted
  <2>5. \/ v.offers = offers /\ v.jobs = jobs
        \/ \A x \in Win : ~Under(v.wins[x], p)
    <3>1. ~Under(v.wins[w], p)
      BY <1>5, <2>3 DEF Under
    <3> QED BY <1>10, <2>2, <2>3, <3>1 DEF Under
  <2>6. MountInv'
    BY <1>9, <2>3, InvIs
  <2>7. /\ \A n \in Mount \ {p} : v.offers[n] = offers[n]
        /\ \A k \in Job : jobs[k].phase = "none" => ~v.jobs[k].silent \/ v.jobs[k].mount = p
    BY <1>10, <2>2, <2>3
  <2> QED BY <1>9, <1>13, <2>3, <2>4, <2>5, <2>6, <2>7, LastOffer
<1> QED BY <1>12, <1>13

(* A change of neither the windows nor what is offered, of any filer. *)
LEMMA StillCounted ==
    ASSUME NEW s, MountsSound(s), AllCounted(s), NEW u \in MountState, u.wins = s.wins, u.offers = s.offers, u.learnt = s.learnt,
           u.filerRun.up = s.filerRun.up, u.filerRun.count = s.filerRun.count,
           \A j \in Job : u.jobs[j].phase = "none" <=> s.jobs[j].phase = "none", NoneSilent(u)
    PROVE  MountsSound(u) /\ AllCounted(u)
<1>1. OpenIn(u) = OpenIn(s) /\ OffersIn(u) = OffersIn(s) /\ JobsIn(u) = JobsIn(s)
  BY DEF OpenIn, OffersIn, JobsIn
<1>2. AllCounted(u)
  BY <1>1 DEF AllCounted, Surplus
<1> QED BY <1>2 DEF MountsSound, Bounded, AnswersWritten

(* An action window is at the next of its phases. *)
LEMMA PhaseIs ==
    ASSUME NEW s, MountsSound(s), AllCounted(s), NEW j \in Job, s.jobs[j].phase # "none",
           NEW ph \in {"started", "safe", "told", "ending"}, NEW u, u = [s EXCEPT !.jobs[j].phase = ph]
    PROVE  /\ MountsSound(u) /\ AllCounted(u) /\ u \in MountState /\ u.wins = s.wins /\ u.offers = s.offers /\ u.mounts = s.mounts
           /\ u.filerRun = s.filerRun /\ s.jobs[j].mount \in Mount
           /\ \A k \in Job \ {j} : u.jobs[k] = s.jobs[k]
<1>1. s \in MountState /\ s.jobs \in [Job -> JobRecord] /\ NoneSilent(s)
  BY StateParts DEF MountsSound
<1>2. s.jobs[j] \in JobRecord
  BY <1>1
<1>3. PICK e : e = [s.jobs[j] EXCEPT !.phase = ph]
  OBVIOUS
<1>4. e \in JobRecord /\ e.phase # "none" /\ s.jobs[j].mount \in Mount
  BY <1>2, <1>3 DEF JobRecord
<1>5. PICK jobs2 : jobs2 = [s.jobs EXCEPT ![j] = e]
  OBVIOUS
<1>6. jobs2 \in [Job -> JobRecord] /\ jobs2[j] = e /\ \A k \in Job \ {j} : jobs2[k] = s.jobs[k]
  BY <1>1, <1>4, <1>5
<1>7. u = [s EXCEPT !.jobs = jobs2]
  BY <1>3, <1>5
<1>8. /\ u \in MountState /\ u.wins = s.wins /\ u.offers = s.offers /\ u.mounts = s.mounts /\ u.learnt = s.learnt
      /\ u.filerRun = s.filerRun /\ u.jobs = jobs2
  BY <1>1, <1>6, <1>7 DEF MountState
<1>9. NoneSilent(u) /\ \A k \in Job : u.jobs[k].phase = "none" <=> s.jobs[k].phase = "none"
  BY <1>1, <1>4, <1>6, <1>8 DEF NoneSilent
<1> QED BY <1>4, <1>6, <1>8, <1>9, StillCounted

(* Other mounts than there were. *)
LEMMA MountedIs ==
    ASSUME NEW s, MountsSound(s), AllCounted(s), NEW now \in SUBSET Mount, NEW u, u = [s EXCEPT !.mounts.now = now]
    PROVE  /\ MountsSound(u) /\ AllCounted(u) /\ u \in MountState /\ u.offers = s.offers /\ u.jobs = s.jobs
<1>1. s \in MountState /\ s.mounts \in MountsRecord /\ NoneSilent(s)
  BY StateParts DEF MountsSound
<1>2. PICK m : m = [s.mounts EXCEPT !.now = now]
  OBVIOUS
<1>3. m \in MountsRecord
  BY <1>1, <1>2 DEF MountsRecord
<1>4. u = [s EXCEPT !.mounts = m]
  BY <1>2
<1>5. /\ u \in MountState /\ u.wins = s.wins /\ u.offers = s.offers /\ u.learnt = s.learnt
      /\ u.filerRun = s.filerRun /\ u.jobs = s.jobs
  BY <1>1, <1>3, <1>4 DEF MountState
<1>6. NoneSilent(u)
  BY <1>1, <1>5 DEF NoneSilent
<1> QED BY <1>5, <1>6, StillCounted

(* A run starts with one window, and reads the answers from the file. *)
LEMMA StartFilerStep == ASSUME MountInv, NEW w \in Win, NEW p \in ShownDir, StartFiler(w, p) PROVE MountInv' /\ OffersAreLast
<1>1. PICK r : r = MountsNow
  OBVIOUS
<1>2. /\ r \in MountState /\ r.offers = offers /\ r.jobs = jobs /\ r.mounts \in MountsRecord /\ r.learnt \in LearntRecord
      /\ r.learnt = learnt /\ r.filerRun \in RunRecord /\ offers \in [Mount -> Nat]
  BY <1>1, RunsNow, NowIs, StateParts
<1>3. PICK a : a = [r.mounts EXCEPT !.mine = {}]
  OBVIOUS
<1>4. PICK b : b = [v \in Win |-> IF v = w THEN p ELSE NoDir]
  OBVIOUS
<1>5. PICK c : c = [m \in Mount |-> 0]
  OBVIOUS
<1>6. PICK d : d = [j \in Job |-> NoJob]
  OBVIOUS
<1>7. PICK e : e = [r.learnt EXCEPT !.table = learnt.file, !.behind = FALSE]
  OBVIOUS
<1>23. PICK up \in BOOLEAN : up = TRUE
  OBVIOUS
<1>24. PICK k \in Int : k = 1
  OBVIOUS
<1>8. PICK f : f = [r.filerRun EXCEPT !.count = k, !.up = up]
  OBVIOUS
<1>9. a \in MountsRecord
  BY <1>2, <1>3 DEF MountsRecord
<1>10. b \in [Win -> ShownDir \cup {NoDir}] /\ c \in [Mount -> Nat]
  BY <1>4, <1>5
<1>11. d \in [Job -> JobRecord] /\ \A j \in Job : d[j].phase = "none" /\ ~d[j].silent
  BY <1>6 DEF JobRecord, NoJob
<1>12. e \in LearntRecord /\ e.file = e.table
  BY <1>2, <1>7 DEF LearntRecord
<1>13. f \in RunRecord /\ f.count = k
  BY <1>2, <1>8 DEF RunRecord
<1>14. PICK s : s = [r EXCEPT !.mounts = a, !.wins = b, !.offers = c, !.jobs = d, !.learnt = e, !.filerRun = f]
  OBVIOUS
<1>15. s \in MountState /\ s.wins = b /\ s.offers = c /\ s.jobs = d /\ s.learnt = e /\ s.filerRun = f
  BY <1>2, <1>9, <1>10, <1>11, <1>12, <1>13, <1>14 DEF MountState
<1>16. MountsBecome(s)
  <2>1. s = [MountsNow EXCEPT !.mounts.mine = {}, !.wins = [v \in Win |-> IF v = w THEN p ELSE NoDir],
                              !.offers = [m \in Mount |-> 0], !.jobs = [j \in Job |-> NoJob],
                              !.learnt.table = learnt.file, !.learnt.behind = FALSE,
                              !.filerRun.up = TRUE, !.filerRun.count = 1]
    <3>1. f = [r.filerRun EXCEPT !.count = 1, !.up = TRUE]
      BY <1>8, <1>23, <1>24
    <3> QED BY <1>1, <1>3, <1>4, <1>5, <1>6, <1>7, <1>14, <3>1, Zenon
  <2> QED BY <2>1 DEF StartFiler
<1>17. MaxOffers \in Nat /\ p # NoDir
  BY MountAssumption, Zenon
<1>18. OpenIn(s) = {w} /\ OffersIn(s) = {} /\ JobsIn(s) = {}
  <2>1. \A o \in Mount \X (1..MaxOffers) : ~(o[2] <= c[o[1]])
    BY <1>5, <1>17
  <2> QED BY <1>4, <1>11, <1>15, <1>17, <2>1 DEF OpenIn, OffersIn, JobsIn
<1>19. Surplus(s) = 0
  <2>1. Cardinality({w}) = 1 /\ Cardinality({}) = 0
    BY FS_Singleton, FS_EmptySet
  <2>2. PICK x, y, z : x = OpenIn(s) /\ y = OffersIn(s) /\ z = JobsIn(s)
    OBVIOUS
  <2>3. Cardinality(x) = 1 /\ Cardinality(y) = 0 /\ Cardinality(z) = 0
    BY <1>18, <2>1, <2>2
  <2>4. Surplus(s) = 1 - 1 - 0 - 0
    BY <1>13, <1>15, <1>24, <2>2, <2>3 DEF Surplus
  <2> QED BY <2>4
<1>20. MountsSound(s) /\ AllCounted(s) /\ NothingComes(s)
  <2>1. NoneSilent(s) /\ AnswersWritten(s)
    BY <1>11, <1>12, <1>15 DEF NoneSilent, AnswersWritten
  <2>2. Bounded(s) /\ \A m \in Mount : s.offers[m] <= offers[m]
    BY <1>2, <1>5, <1>15, <1>17 DEF Bounded
  <2>3. NothingComes(s)
    BY <1>11, <1>15, <2>2 DEF NothingComes
  <2>4. AllCounted(s)
    BY <1>13, <1>15, <1>19, <1>24 DEF AllCounted
  <2> QED BY <1>15, <2>1, <2>2, <2>3, <2>4 DEF MountsSound
<1> QED BY <1>16, <1>20, QuietStep

(* A run that is killed leaves nothing that counts. *)
LEMMA KilledStep == ASSUME MountInv, Killed PROVE MountInv' /\ OffersAreLast
<1>1. PICK r : r = Event(MountsNow)
  OBVIOUS
<1>2. /\ r \in MountState /\ r.offers = offers /\ r.jobs = jobs /\ r.filerRun \in RunRecord /\ offers \in [Mount -> Nat]
  BY <1>1, RunsNow, NowIs, EventIs, StateParts
<1>4. PICK b : b = [v \in Win |-> NoDir]
  OBVIOUS
<1>5. PICK c : c = [m \in Mount |-> 0]
  OBVIOUS
<1>6. PICK d : d = [j \in Job |-> NoJob]
  OBVIOUS
<1>23. PICK up \in BOOLEAN : up = FALSE
  OBVIOUS
<1>24. PICK k \in Int : k = 0
  OBVIOUS
<1>8. PICK f : f = [r.filerRun EXCEPT !.count = k, !.up = up]
  OBVIOUS
<1>10. b \in [Win -> ShownDir \cup {NoDir}] /\ c \in [Mount -> Nat]
  BY <1>4, <1>5
<1>11. d \in [Job -> JobRecord] /\ \A j \in Job : d[j].phase = "none" /\ ~d[j].silent
  BY <1>6 DEF JobRecord, NoJob
<1>13. f \in RunRecord /\ f.up = up
  BY <1>2, <1>8 DEF RunRecord
<1>14. PICK s : s = [r EXCEPT !.wins = b, !.offers = c, !.jobs = d, !.filerRun = f]
  OBVIOUS
<1>15. s \in MountState /\ s.wins = b /\ s.offers = c /\ s.jobs = d /\ s.filerRun = f
  BY <1>2, <1>10, <1>11, <1>13, <1>14 DEF MountState
<1>16. MountsBecome(s)
  <2>1. s = [Event(MountsNow) EXCEPT !.wins = [w \in Win |-> NoDir], !.offers = [m \in Mount |-> 0],
                      !.jobs = [j \in Job |-> NoJob], !.filerRun.up = FALSE, !.filerRun.count = 0]
    BY <1>1, <1>4, <1>5, <1>6, <1>8, <1>14, <1>23, <1>24
  <2> QED BY <2>1 DEF Killed
<1>17. MaxOffers \in Nat
  BY MountAssumption, Zenon
<1>20. MountsSound(s) /\ AllCounted(s) /\ NothingComes(s)
  BY <1>2, <1>5, <1>11, <1>13, <1>15, <1>17, <1>23 DEF MountsSound, AllCounted, NothingComes, Bounded, AnswersWritten, NoneSilent
<1> QED BY <1>16, <1>20, QuietStep

(* What is left when the windows of a set are gone. *)
LEMMA DestroyedStep ==
    ASSUME MountInv, NEW s, MountsRun(s), NothingComes(s), NEW W \in SUBSET OpenIn(s), MountsBecome(Destroyed(s, W))
    PROVE  MountInv' /\ OffersAreLast
<1>1. PICK u : u = Destroyed(s, W)
  OBVIOUS
<1>2. /\ MountsSound(u) /\ AllCounted(u) /\ u.offers = s.offers /\ u.jobs = s.jobs
      /\ u.wins = [w \in Win |-> IF w \in W THEN NoDir ELSE s.wins[w]]
  BY <1>1, DestroyedIs
<1>3. NothingComes(u)
  BY <1>2 DEF NothingComes
<1> QED BY <1>1, <1>2, <1>3, QuietStep

(* A window is opened, or shows another directory. *)
LEMMA OpenDirStep == ASSUME MountInv, NEW w \in Win, NEW p \in ShownDir, OpenDir(w, p) PROVE MountInv' /\ OffersAreLast
<1>1. PICK s : s = MountsNow
  OBVIOUS
<1>2. MountsRun(s) /\ s.wins = wins /\ s.offers = offers /\ s.jobs = jobs /\ s \in MountState
  BY <1>1, RunsNow, NowIs DEF OpenDir
<1>3. NothingComes(s)
  BY <1>1, RunsNow
<1>4. CASE wins[w] # NoDir
  <2>1. PICK u : u = [s EXCEPT !.wins[w] = p]
    OBVIOUS
  <2>2. MountsBecome(u)
    BY <1>1, <1>4, <2>1 DEF OpenDir
  <2>3. MountsRun(u) /\ u.offers = s.offers /\ u.jobs = s.jobs
    BY <1>2, <1>4, <2>1, MovedIs
  <2>4. NothingComes(u)
    BY <1>3, <2>3 DEF NothingComes
  <2> QED BY <2>2, <2>3, <2>4, RunningIs, QuietStep
<1>5. CASE wins[w] = NoDir
  <2>1. PICK r \in RunRecord : r = [s.filerRun EXCEPT !.count = @ + 1] /\ r.up /\ r.count = s.filerRun.count + 1
    BY <1>2, CountUp
  <2>2. PICK wins2 : wins2 = [s.wins EXCEPT ![w] = p]
    OBVIOUS
  <2>3. wins2 \in [Win -> ShownDir \cup {NoDir}] /\ wins2[w] = p /\ \A v \in Win \ {w} : wins2[v] = s.wins[v]
    BY <1>2, <2>2, StateParts
  <2>4. PICK u : u = [s EXCEPT !.wins = wins2, !.filerRun = r]
    OBVIOUS
  <2>5. /\ u \in MountState /\ u.wins = wins2 /\ u.offers = s.offers /\ u.jobs = s.jobs
        /\ u.learnt = s.learnt /\ u.filerRun = r
    BY <1>2, <2>1, <2>3, <2>4 DEF MountState
  <2>6. MountsBecome(u)
    <3>1. u = [MountsNow EXCEPT !.wins[w] = p, !.filerRun.count = @ + 1]
      BY <1>1, <2>1, <2>2, <2>4
    <3> QED BY <1>5, <3>1 DEF OpenDir
  <2>7. p # NoDir
    BY MountAssumption, Zenon
  <2>8. w \notin OpenIn(s) /\ OpenIn(u) = OpenIn(s) \cup {w} /\ OffersIn(u) = OffersIn(s) /\ JobsIn(u) = JobsIn(s)
    BY <1>2, <1>5, <2>3, <2>5, <2>7 DEF OpenIn, OffersIn, JobsIn
  <2>9. Bounded(u) /\ NoneSilent(u)
    BY <1>2, <2>5 DEF MountsRun, MountsSound, Bounded, NoneSilent
  <2>10. MountsRun(u)
    BY <1>2, <2>1, <2>5, <2>8, <2>9, OneMoreCounted
  <2>11. NothingComes(u)
    BY <1>3, <2>5 DEF NothingComes
  <2> QED BY <2>6, <2>10, <2>11, RunningIs, QuietStep
<1> QED BY <1>4, <1>5

(* A window whose directory is gone. *)
LEMMA DestroyWindowStep == ASSUME MountInv, NEW w \in Win, DestroyWindow(w) PROVE MountInv' /\ OffersAreLast
<1>1. PICK s : s = MountsNow
  OBVIOUS
<1>2. MountsRun(s) /\ s.wins = wins /\ NothingComes(s) /\ wins[w] # NoDir
  BY <1>1, RunsNow, NowIs DEF DestroyWindow
<1>3. {w} \in SUBSET OpenIn(s)
  BY <1>2 DEF OpenIn
<1>4. MountsBecome(Destroyed(s, {w}))
  BY <1>1 DEF DestroyWindow
<1> QED BY <1>2, <1>3, <1>4, DestroyedStep

(* An answer is changed in the Info box. *)
LEMMA OptionToggledStep ==
    ASSUME MountInv, NEW m \in Mount, NEW c \in Choice, NEW works \in BOOLEAN, OptionToggled(m, c, works)
    PROVE  MountInv' /\ OffersAreLast
<1>1. PICK s : s = MountsNow
  OBVIOUS
<1>2. MountsRun(s) /\ NothingComes(s)
  BY <1>1, RunsNow DEF OptionToggled
<1>3. PICK t : t = SetUnmountAction(s, m, c, works)
  OBVIOUS
<1>4. MountsRun(t) /\ t.offers = s.offers /\ t.jobs = s.jobs /\ t \in MountState
  BY <1>2, <1>3, SetUnmountActionIs DEF MountsRun, MountsSound
<1>5. PICK u : u = Event(t)
  OBVIOUS
<1>6. MountsRun(u) /\ u.offers = s.offers /\ u.jobs = s.jobs
  BY <1>4, <1>5, EventIs
<1>7. MountsBecome(u)
  BY <1>1, <1>3, <1>5 DEF OptionToggled
<1>8. NothingComes(u)
  BY <1>2, <1>6 DEF NothingComes
<1> QED BY <1>6, <1>7, <1>8, RunningIs, QuietStep

(* An action whose user has asked for it. *)
LEMMA AskedFor ==
    ASSUME NEW s, MountsRun(s), NothingComes(s), NEW j \in Job, s.jobs[j].phase = "none", NEW does \in {"mount"} \cup Way,
           NEW m \in Mount, NEW silent \in BOOLEAN, ~silent, NEW u, u = Starts(s, j, does, m, silent)
    PROVE  MountsRun(u) /\ NothingComes(u) /\ u.wins = s.wins /\ u.offers = s.offers
<1>1. /\ MountsRun(u) /\ u.wins = s.wins /\ u.offers = s.offers /\ u.learnt = s.learnt
      /\ u.jobs[j].mount = m /\ u.jobs[j].silent = silent /\ \A k \in Job \ {j} : u.jobs[k] = s.jobs[k]
  BY StartsIs
<1>2. NothingComes(u)
  BY <1>1 DEF NothingComes
<1> QED BY <1>1, <1>2

(* The user mounts or unmounts. *)
LEMMA UserActsStep ==
    ASSUME MountInv, NEW m \in Mount, NEW does \in {"mount"} \cup Way, NEW j \in Job, UserActs(m, does, j)
    PROVE  MountInv' /\ OffersAreLast
<1>1. PICK s : s = MountsNow
  OBVIOUS
<1>2. MountsRun(s) /\ NothingComes(s) /\ s.jobs[j].phase = "none"
  BY <1>1, RunsNow, NowIs DEF UserActs, Free
<1>6. PICK silent \in BOOLEAN : silent = FALSE
  OBVIOUS
<1>3. PICK u : u = Starts(s, j, does, m, silent)
  OBVIOUS
<1>4. MountsRun(u) /\ NothingComes(u)
  BY <1>2, <1>3, <1>6, AskedFor
<1>5. MountsBecome(u)
  BY <1>1, <1>3, <1>6 DEF UserActs
<1> QED BY <1>4, <1>5, RunningIs, QuietStep

(* The windows below are closed before the command runs. *)
LEMMA CloseBelowStep == ASSUME MountInv, NEW j \in Job, CloseBelow(j) PROVE MountInv' /\ OffersAreLast
<1>1. PICK s : s = MountsNow
  OBVIOUS
<1>2. MountsRun(s) /\ NothingComes(s) /\ s.wins = wins /\ s.jobs = jobs /\ s.jobs[j].phase = "started"
  BY <1>1, RunsNow, NowIs DEF CloseBelow
<1>3. PICK t : t = [s EXCEPT !.jobs[j].phase = "safe"]
  OBVIOUS
<1>4. /\ MountsSound(t) /\ AllCounted(t) /\ t \in MountState /\ t.wins = s.wins /\ t.offers = s.offers /\ t.filerRun = s.filerRun
      /\ \A k \in Job \ {j} : t.jobs[k] = s.jobs[k]
  BY <1>2, <1>3, RunningIs, PhaseIs
<1>5. MountsRun(t)
  BY <1>2, <1>4 DEF MountsRun, AllCounted
<1>6. PICK W : W = IF jobs[j].does = "mount" THEN {} ELSE {w \in Win : Under(wins[w], jobs[j].mount)}
  OBVIOUS
<1>7. W \in SUBSET OpenIn(t)
  BY <1>2, <1>4, <1>6 DEF OpenIn, Under
<1>8. NothingComes(t)
  BY <1>2, <1>4 DEF NothingComes, Free
<1>9. MountsBecome(Destroyed(t, W))
  BY <1>1, <1>3, <1>6 DEF CloseBelow
<1> QED BY <1>5, <1>7, <1>8, <1>9, DestroyedStep

(* The command of the child runs whether the filer still runs or not. *)
LEMMA CommandRunsStep == ASSUME MountInv, NEW j \in Job, CommandRuns(j) PROVE MountInv' /\ OffersAreLast
<1>1. PICK s : s = MountsNow
  OBVIOUS
<1>2. /\ MountsSound(s) /\ AllCounted(s) /\ NothingComes(s) /\ s.jobs = jobs /\ s.mounts = mounts /\ s.jobs[j].phase = "safe"
      /\ s \in MountState
  BY <1>1, RunsNow, NowIs DEF CommandRuns, MountInv
<1>3. ASSUME NEW ph \in {"told", "ending"}, NEW t, t = [s EXCEPT !.jobs[j].phase = ph]
      PROVE  /\ MountsSound(t) /\ AllCounted(t) /\ NothingComes(t) /\ t \in MountState
             /\ t.mounts = s.mounts /\ s.jobs[j].mount \in Mount
  <2>1. /\ MountsSound(t) /\ AllCounted(t) /\ t \in MountState /\ t.offers = s.offers
        /\ t.mounts = s.mounts /\ s.jobs[j].mount \in Mount
        /\ \A k \in Job \ {j} : t.jobs[k] = s.jobs[k]
    BY <1>2, <1>3, PhaseIs
  <2>2. NothingComes(t)
    BY <1>2, <2>1 DEF NothingComes, Free
  <2> QED BY <2>1, <2>2
<1>4. CASE MountsBecome([MountsNow EXCEPT !.jobs[j].phase = IF jobs[j].does = "eject" THEN "told" ELSE "ending"])
  <2>1. PICK ph \in {"told", "ending"} : ph = IF jobs[j].does = "eject" THEN "told" ELSE "ending"
    OBVIOUS
  <2>2. PICK t : t = [s EXCEPT !.jobs[j].phase = ph]
    OBVIOUS
  <2>3. MountsBecome(t)
    BY <1>1, <1>4, <2>1, <2>2
  <2>4. MountsSound(t) /\ AllCounted(t) /\ NothingComes(t)
    BY <1>3, <2>2
  <2> QED BY <2>3, <2>4, QuietStep
<1>5. CASE MountsBecome([MountsNow EXCEPT !.jobs[j].phase = "told",
                            !.mounts.now = IF jobs[j].does = "mount" THEN @ \cup {jobs[j].mount}
                                           ELSE {n \in @ : jobs[j].mount \notin Above[n]}])
  <2>1. PICK ph \in {"told", "ending"} : ph = "told"
    OBVIOUS
  <2>2. PICK t : t = [s EXCEPT !.jobs[j].phase = ph]
    OBVIOUS
  <2>3. MountsSound(t) /\ AllCounted(t) /\ NothingComes(t) /\ t \in MountState /\ t.mounts = mounts /\ jobs[j].mount \in Mount
    BY <1>2, <1>3, <2>2
  <2>4. mounts.now \in SUBSET Mount
    BY <1>2, StateParts DEF MountsRecord
  <2>5. PICK now \in SUBSET Mount : now = IF jobs[j].does = "mount" THEN mounts.now \cup {jobs[j].mount}
                                          ELSE {n \in mounts.now : jobs[j].mount \notin Above[n]}
    <3>1. CASE jobs[j].does = "mount"
      BY <2>3, <2>4, <3>1
    <3>2. CASE jobs[j].does # "mount"
      BY <2>4, <3>2
    <3> QED BY <3>1, <3>2
  <2>6. PICK u : u = [t EXCEPT !.mounts.now = now]
    OBVIOUS
  <2>7. MountsBecome(u)
    <3>1. u = [MountsNow EXCEPT !.jobs[j].phase = "told",
                            !.mounts.now = IF jobs[j].does = "mount" THEN @ \cup {jobs[j].mount}
                                           ELSE {n \in @ : jobs[j].mount \notin Above[n]}]
      <4>1. PICK jobs2 : jobs2 = [s.jobs EXCEPT ![j].phase = ph]
        OBVIOUS
      <4>2. PICK mounts2 : mounts2 = [s.mounts EXCEPT !.now = now]
        OBVIOUS
      <4>3. t = [s EXCEPT !.jobs = jobs2]
        BY <2>2, <4>1
      <4>4. u = [t EXCEPT !.mounts = mounts2]
        BY <1>2, <2>3, <2>6, <4>2
      <4>5. u = [s EXCEPT !.jobs = jobs2, !.mounts = mounts2]
        BY <4>3, <4>4
      <4> QED BY <1>1, <1>2, <2>1, <2>5, <4>1, <4>2, <4>5
    <3> QED BY <1>5, <3>1
  <2>8. MountsSound(u) /\ AllCounted(u) /\ u.offers = t.offers /\ u.jobs = t.jobs
    BY <2>3, <2>6, MountedIs
  <2>9. NothingComes(u)
    BY <2>3, <2>8 DEF NothingComes
  <2> QED BY <2>7, <2>8, <2>9, QuietStep
<1> QED BY <1>4, <1>5 DEF CommandRuns

(* The parent is told, and closes windows whose directories are gone. *)
LEMMA MountMessageStep == ASSUME MountInv, NEW j \in Job, MountMessage(j) PROVE MountInv' /\ OffersAreLast
<1>1. PICK s : s = MountsNow
  OBVIOUS
<1>2. /\ MountsRun(s) /\ NothingComes(s) /\ s.wins = wins /\ s.jobs = jobs /\ s.jobs[j].phase = "told"
      /\ s.jobs \in [Job -> JobRecord]
  BY <1>1, RunsNow, NowIs DEF MountMessage
<1>3. PICK m \in Mount : m = jobs[j].mount
  BY <1>2 DEF JobRecord
<1>4. PICK r : r = UserMount(s, m)
  OBVIOUS
<1>5. MountsRun(r) /\ r.wins = s.wins /\ r.offers = s.offers /\ r.jobs = s.jobs
  BY <1>2, <1>4, UserMountIs
<1>6. PICK t : t = [r EXCEPT !.jobs[j].phase = "ending"]
  OBVIOUS
<1>7. /\ MountsSound(t) /\ AllCounted(t) /\ t \in MountState /\ t.wins = r.wins /\ t.offers = r.offers /\ t.filerRun = r.filerRun
      /\ \A k \in Job \ {j} : t.jobs[k] = r.jobs[k]
  <2>1. r.jobs[j].phase # "none"
    BY <1>2, <1>5
  <2> QED BY <1>5, <1>6, <2>1, RunningIs, PhaseIs
<1>8. MountsRun(t)
  BY <1>5, <1>7 DEF MountsRun, AllCounted
<1>9. PICK V : V = {w \in Win : Under(wins[w], m) /\ ~DirExists(wins[w])}
  OBVIOUS
<1>10. V \in SUBSET OpenIn(t)
  BY <1>2, <1>5, <1>7, <1>9 DEF OpenIn, Under
<1>11. NothingComes(t)
  BY <1>2, <1>5, <1>7 DEF NothingComes, Free
<1>12. MountsBecome(Destroyed(t, V))
  BY <1>1, <1>3, <1>4, <1>6, <1>9 DEF MountMessage
<1> QED BY <1>8, <1>10, <1>11, <1>12, DestroyedStep

(* Other programs mount and unmount. *)
LEMMA OthersMountStep == ASSUME MountInv, NEW m \in Mount, OthersMount(m) PROVE MountInv' /\ OffersAreLast
<1>1. PICK s : s = MountsNow
  OBVIOUS
<1>2. MountsSound(s) /\ AllCounted(s) /\ NothingComes(s) /\ s.mounts = mounts /\ s \in MountState
  BY <1>1, RunsNow, NowIs DEF MountInv
<1>3. mounts.now \in SUBSET Mount
  BY <1>2, StateParts DEF MountsRecord
<1>4. PICK now \in SUBSET Mount : now = IF m \in mounts.now THEN {n \in mounts.now : m \notin Above[n]} ELSE mounts.now \cup {m}
  <2>1. CASE m \in mounts.now
    BY <1>3, <2>1
  <2>2. CASE m \notin mounts.now
    BY <1>3, <2>2
  <2> QED BY <2>1, <2>2
<1>5. PICK t : t = [s EXCEPT !.mounts.now = now]
  OBVIOUS
<1>6. MountsSound(t) /\ AllCounted(t) /\ t \in MountState /\ t.offers = s.offers /\ t.jobs = s.jobs
  BY <1>2, <1>5, MountedIs
<1>7. PICK u : u = Event(t)
  OBVIOUS
<1>8. /\ u \in MountState /\ u.wins = t.wins /\ u.offers = t.offers /\ u.jobs = t.jobs /\ u.learnt = t.learnt
      /\ u.filerRun.up = t.filerRun.up /\ u.filerRun.count = t.filerRun.count
  BY <1>6, <1>7, EventIs
<1>9. NoneSilent(u)
  BY <1>6, <1>8 DEF NoneSilent, MountsSound
<1>10. MountsSound(u) /\ AllCounted(u)
  BY <1>6, <1>8, <1>9, StillCounted
<1>11. MountsBecome(u)
  <2>1. t = [MountsNow EXCEPT !.mounts.now = IF m \in @ THEN {n \in @ : m \notin Above[n]} ELSE @ \cup {m}]
    BY <1>1, <1>2, <1>4, <1>5
  <2> QED BY <1>7, <2>1 DEF OthersMount
<1>12. NothingComes(u)
  BY <1>2, <1>6, <1>8 DEF NothingComes
<1> QED BY <1>10, <1>11, <1>12, QuietStep

(* What was counted is gone, and its count is given back. *)
LEMMA GoneAndGivenBack ==
    ASSUME MountInv, NEW s, MountsRun(s), NEW t \in MountState, t.filerRun = s.filerRun, t.wins = s.wins,
           Bounded(t), AnswersWritten(t), NoneSilent(t), NothingComes(t),
           \/ \E x \in OffersIn(s) : OffersIn(t) = OffersIn(s) \ {x} /\ JobsIn(t) = JobsIn(s)
           \/ \E x \in JobsIn(s) : JobsIn(t) = JobsIn(s) \ {x} /\ OffersIn(t) = OffersIn(s),
           MountsBecome(LessWindows(t, 1))
    PROVE  MountInv' /\ OffersAreLast
<1>1. s \in MountState /\ s.filerRun.up /\ Surplus(s) = 0 /\ s.filerRun.count \in Int
  BY StateParts DEF MountsRun, MountsSound
<1>2. OpenIn(t) = OpenIn(s)
  BY DEF OpenIn
<1>3. PICK n \in Nat : n = 1
  OBVIOUS
<1>4. Surplus(t) = n
  <2>1. CASE \E x \in OffersIn(s) : OffersIn(t) = OffersIn(s) \ {x} /\ JobsIn(t) = JobsIn(s)
    <3>1. PICK x \in OffersIn(s) : OffersIn(t) = OffersIn(s) \ {x} /\ JobsIn(t) = JobsIn(s)
      BY <2>1
    <3>2. {x} \subseteq OffersIn(s) /\ Cardinality({x}) = 1
      BY <3>1, FS_Singleton
    <3>3. Cardinality(OffersIn(t)) = Cardinality(OffersIn(s)) - 1
      <4>1. IsFiniteSet(OffersIn(s))
        BY <1>1, CountsAre
      <4> QED BY <3>1, <4>1, FS_RemoveElement
    <3> QED BY <1>1, <1>2, <1>3, <3>1, <3>3, CountsAre DEF Surplus
  <2>2. CASE \E x \in JobsIn(s) : JobsIn(t) = JobsIn(s) \ {x} /\ OffersIn(t) = OffersIn(s)
    <3>1. PICK x \in JobsIn(s) : JobsIn(t) = JobsIn(s) \ {x} /\ OffersIn(t) = OffersIn(s)
      BY <2>2
    <3>2. {x} \subseteq JobsIn(s) /\ Cardinality({x}) = 1
      BY <3>1, FS_Singleton
    <3>3. Cardinality(JobsIn(t)) = Cardinality(JobsIn(s)) - 1
      <4>1. IsFiniteSet(JobsIn(s))
        BY <1>1, CountsAre
      <4> QED BY <3>1, <4>1, FS_RemoveElement
    <3> QED BY <1>1, <1>2, <1>3, <3>1, <3>3, CountsAre DEF Surplus
  <2> QED BY <2>1, <2>2
<1>5. PICK u : u = LessWindows(t, n)
  OBVIOUS
<1>6. MountsBecome(u) /\ t.filerRun.up
  BY <1>1, <1>3, <1>5
<1>7. MountsSound(u) /\ AllCounted(u)
  <2>1. n = 0 => t.filerRun.count > 0
    BY <1>3
  <2> QED BY <1>4, <1>5, <1>6, <2>1, GivenBack
<1>8. u.offers = t.offers /\ u.jobs = t.jobs
  BY <1>5, LessWindowsIs
<1>9. NothingComes(u)
  BY <1>8 DEF NothingComes
<1> QED BY <1>6, <1>7, <1>9, QuietStep

(* The action window is closed. *)
LEMMA JobEndsStep == ASSUME MountInv, NEW j \in Job, JobEnds(j) PROVE MountInv' /\ OffersAreLast
<1>1. PICK s : s = MountsNow
  OBVIOUS
<1>2. /\ MountsRun(s) /\ NothingComes(s) /\ s.jobs = jobs /\ s.jobs[j].phase # "none" /\ s \in MountState
      /\ s.jobs \in [Job -> JobRecord] /\ Bounded(s) /\ AnswersWritten(s) /\ NoneSilent(s)
  BY <1>1, RunsNow, NowIs DEF JobEnds, MountsRun, MountsSound
<1>3. PICK jobs2 : jobs2 = [s.jobs EXCEPT ![j] = NoJob]
  OBVIOUS
<1>4. NoJob \in JobRecord /\ NoJob.phase = "none" /\ ~NoJob.silent
  BY DEF NoJob, JobRecord
<1>5. jobs2 \in [Job -> JobRecord] /\ jobs2[j] = NoJob /\ \A k \in Job \ {j} : jobs2[k] = s.jobs[k]
  BY <1>2, <1>3, <1>4
<1>6. PICK t : t = [s EXCEPT !.jobs = jobs2]
  OBVIOUS
<1>7. /\ t \in MountState /\ t.wins = s.wins /\ t.offers = s.offers /\ t.learnt = s.learnt
      /\ t.filerRun = s.filerRun /\ t.jobs = jobs2
  BY <1>2, <1>5, <1>6 DEF MountState
<1>8. j \in JobsIn(s) /\ JobsIn(t) = JobsIn(s) \ {j} /\ OffersIn(t) = OffersIn(s)
  BY <1>2, <1>4, <1>5, <1>7 DEF JobsIn, OffersIn
<1>9. Bounded(t) /\ AnswersWritten(t) /\ NoneSilent(t) /\ NothingComes(t)
  BY <1>2, <1>4, <1>5, <1>7 DEF Bounded, AnswersWritten, NoneSilent, NothingComes
<1>10. MountsBecome(LessWindows(t, 1))
  BY <1>1, <1>3, <1>6 DEF JobEnds
<1> QED BY <1>2, <1>7, <1>8, <1>9, <1>10, GoneAndGivenBack

(* An answer starts its action first; the dialog is counted off last. *)
LEMMA DialogResponseStep ==
    ASSUME MountInv, NEW m \in Mount, NEW answer \in Choice \ {"ask"}, NEW keep \in BOOLEAN, NEW works \in BOOLEAN,
           NEW j \in Job, DialogResponse(m, answer, keep, works, j)
    PROVE  MountInv' /\ OffersAreLast
<1>1. PICK r : r = MountsNow
  OBVIOUS
<1>2. MountsRun(r) /\ NothingComes(r) /\ r.jobs[j].phase = "none" /\ r.offers = offers /\ offers[m] > 0
  BY <1>1, RunsNow, NowIs DEF DialogResponse, Free
<1>3. PICK silent \in BOOLEAN : silent = FALSE
  OBVIOUS
<1>4. PICK s : s = IF answer = "no change" THEN r ELSE Starts(r, j, answer, m, silent)
  OBVIOUS
<1>5. MountsRun(s) /\ NothingComes(s) /\ s.offers = offers
  <2>1. CASE answer = "no change"
    BY <1>2, <1>4, <2>1
  <2>2. CASE answer # "no change"
    <3>1. PICK does \in {"mount"} \cup Way : does = answer
      BY <2>2 DEF Choice
    <3>2. s = Starts(r, j, does, m, silent)
      BY <1>4, <2>2, <3>1
    <3>3. MountsRun(s) /\ NothingComes(s) /\ s.wins = r.wins /\ s.offers = r.offers
      BY <1>2, <1>3, <3>2, AskedFor
    <3> QED BY <1>2, <3>3
  <2> QED BY <2>1, <2>2
<1>6. PICK t : t = IF keep THEN SetUnmountAction(s, m, answer, works) ELSE s
  OBVIOUS
<1>7. MountsRun(t) /\ t.offers = s.offers /\ t.jobs = s.jobs /\ t \in MountState
  <2>1. CASE keep
    <3>1. t = SetUnmountAction(s, m, answer, works)
      BY <1>6, <2>1
    <3>2. MountsRun(t) /\ t.wins = s.wins /\ t.offers = s.offers /\ t.jobs = s.jobs
      BY <1>5, <3>1, SetUnmountActionIs
    <3> QED BY <3>2 DEF MountsRun, MountsSound
  <2>2. CASE ~keep
    BY <1>5, <1>6, <2>2 DEF MountsRun, MountsSound
  <2> QED BY <2>1, <2>2
<1>8. PICK u : u = IF works THEN t ELSE Event(t)
  OBVIOUS
<1>9. MountsRun(u) /\ u.offers = s.offers /\ u.jobs = s.jobs
  <2>1. CASE works
    BY <1>7, <1>8, <2>1
  <2>2. CASE ~works
    <3>1. u = Event(t)
      BY <1>8, <2>2
    <3> QED BY <1>7, <3>1, EventIs
  <2> QED BY <2>1, <2>2
<1>10. /\ u \in MountState /\ u.offers \in [Mount -> Nat] /\ u.offers = offers /\ Bounded(u) /\ AnswersWritten(u) /\ NoneSilent(u)
  BY <1>5, <1>9, StateParts DEF MountsRun, MountsSound
<1>11. PICK n \in Nat : n = u.offers[m] - 1
  BY <1>2, <1>10
<1>12. PICK offers2 : offers2 = [u.offers EXCEPT ![m] = n]
  OBVIOUS
<1>13. offers2 \in [Mount -> Nat] /\ offers2[m] = n /\ \A k \in Mount \ {m} : offers2[k] = u.offers[k]
  BY <1>10, <1>12
<1>14. PICK v : v = [u EXCEPT !.offers = offers2]
  OBVIOUS
<1>15. /\ v \in MountState /\ v.wins = u.wins /\ v.offers = offers2 /\ v.jobs = u.jobs /\ v.learnt = u.learnt
       /\ v.filerRun = u.filerRun
  BY <1>10, <1>13, <1>14 DEF MountState
<1>16. MountsBecome(LessWindows(v, 1))
  <2>1. v = [u EXCEPT !.offers[m] = @ - 1]
    BY <1>11, <1>12, <1>14
  <2> QED BY <1>1, <1>3, <1>4, <1>6, <1>8, <2>1 DEF DialogResponse
<1>17. MaxOffers \in Nat
  BY MountAssumption, Zenon
<1>18. u.offers[m] \in Nat /\ u.offers[m] <= MaxOffers /\ u.offers[m] \in 1..MaxOffers
  BY <1>2, <1>10, <1>17 DEF Bounded
<1>19. /\ <<m, u.offers[m]>> \in OffersIn(u) /\ OffersIn(v) = OffersIn(u) \ {<<m, u.offers[m]>>}
       /\ JobsIn(v) = JobsIn(u)
  <2>1. PICK top \in 1..MaxOffers : top = u.offers[m]
    BY <1>18
  <2>2. <<m, top>> \in Mount \X (1..MaxOffers) /\ <<m, top>>[1] = m /\ <<m, top>>[2] = top
    OBVIOUS
  <2>3. \A k \in Mount, i \in 1..MaxOffers : i <= offers2[k] <=> i <= u.offers[k] /\ ~(k = m /\ i = top)
    BY <1>10, <1>11, <1>13, <1>17, <2>1
  <2>4. \A o \in Mount \X (1..MaxOffers) : o = <<o[1], o[2]>> /\ o[1] \in Mount /\ o[2] \in 1..MaxOffers
    OBVIOUS
  <2>5. \A o \in Mount \X (1..MaxOffers) : o[2] <= offers2[o[1]] <=> o[2] <= u.offers[o[1]] /\ o # <<m, top>>
    BY <2>2, <2>3, <2>4
  <2>6. top <= u.offers[m]
    BY <1>18, <2>1
  <2> QED BY <1>15, <2>1, <2>2, <2>5, <2>6 DEF OffersIn, JobsIn
<1>20. Bounded(v) /\ \A k \in Mount : v.offers[k] <= offers[k]
  BY <1>10, <1>11, <1>13, <1>15, <1>17 DEF Bounded
<1>21. AnswersWritten(v) /\ NoneSilent(v)
  BY <1>10, <1>15 DEF AnswersWritten, NoneSilent
<1>22. NothingComes(v)
  BY <1>5, <1>9, <1>15, <1>20 DEF NothingComes
<1> QED BY <1>9, <1>15, <1>16, <1>19, <1>20, <1>21, <1>22, GoneAndGivenBack

(* Each action keeps the invariant and offers only as it may. *)
LEMMA MountStep == MountInv /\ [MountNext]_mountVars => MountInv' /\ OffersAreLast
<1> SUFFICES ASSUME MountInv, [MountNext]_mountVars PROVE MountInv' /\ OffersAreLast
  OBVIOUS
<1>1. CASE UNCHANGED mountVars
  <2>1. MountsBecome(MountsNow)
    BY <1>1, NowIs DEF mountVars, MountsBecome
  <2>2. MountsSound(MountsNow) /\ AllCounted(MountsNow) /\ NothingComes(MountsNow)
    BY RunsNow DEF MountInv
  <2>3. PICK s : s = MountsNow
    OBVIOUS
  <2> QED BY <2>1, <2>2, <2>3, QuietStep
<1>2. CASE MountNext
  <2>1. CASE Killed
    BY <2>1, KilledStep
  <2>2. CASE \E w \in Win, p \in ShownDir : StartFiler(w, p) \/ OpenDir(w, p)
    BY <2>2, StartFilerStep, OpenDirStep
  <2>3. CASE \E w \in Win : DestroyWindow(w) \/ \E j \in Job : CloseWindow(w, j) \/ ChangeToParent(w, j)
    BY <2>3, DestroyWindowStep, CloseWindowStep, ChangeToParentStep
  <2>4. CASE \E m \in Mount, j \in Job, works, keep \in BOOLEAN, a \in Choice \ {"ask"} : DialogResponse(m, a, keep, works, j)
    BY <2>4, DialogResponseStep
  <2>5. CASE \E m \in Mount, c \in Choice, works \in BOOLEAN : OptionToggled(m, c, works)
    BY <2>5, OptionToggledStep
  <2>6. CASE \E m \in Mount, j \in Job, d \in {"mount"} \cup Way : UserActs(m, d, j)
    BY <2>6, UserActsStep
  <2>7. CASE \E j \in Job : CloseBelow(j) \/ CommandRuns(j) \/ MountMessage(j) \/ JobEnds(j)
    BY <2>7, CloseBelowStep, CommandRunsStep, MountMessageStep, JobEndsStep
  <2>8. CASE \E m \in Mount : OthersMount(m)
    BY <2>8, OthersMountStep
  <2> QED BY <1>2, <2>1, <2>2, <2>3, <2>4, <2>5, <2>6, <2>7, <2>8 DEF MountNext
<1> QED BY <1>1, <1>2

(* The invariant has both of the invariants that a run checks. *)
LEMMA MountInvMeans == MountInv => StaysWhileNeeded /\ AnswersKept
<1> SUFFICES ASSUME MountInv PROVE StaysWhileNeeded /\ AnswersKept
  OBVIOUS
<1>1. PICK s : s = MountsNow
  OBVIOUS
<1>2. /\ s \in MountState /\ AllCounted(s) /\ AnswersWritten(s) /\ s.wins = wins /\ s.offers = offers /\ s.jobs = jobs
      /\ s.learnt = learnt /\ s.filerRun = filerRun
  BY <1>1, NowIs DEF MountInv, MountsSound
<1>3. AnswersKept
  BY <1>2 DEF AnswersWritten, AnswersKept
<1>4. /\ OpenIn(s) = {w \in Win : wins[w] # NoDir}
      /\ OffersIn(s) = {o \in Mount \X (1..MaxOffers) : o[2] <= offers[o[1]]}
      /\ JobsIn(s) = {j \in Job : ~Free(j)}
  BY <1>2 DEF OpenIn, OffersIn, JobsIn, Free
<1>5. filerRun.up => /\ filerRun.count = Cardinality(OpenIn(s)) + Cardinality(OffersIn(s)) + Cardinality(JobsIn(s))
                     /\ filerRun.count > 0
  BY <1>2, CountsAre, StateParts DEF AllCounted, Surplus
<1>6. StaysWhileNeeded
  BY <1>4, <1>5 DEF StaysWhileNeeded
<1> QED BY <1>3, <1>6

(* What is promised of the mounts that are the user's (filer.c:581-586, *)
(* 687, 3280-3310, main.c:685): the filer runs exactly as long as a window,*)
(* an offer or an action is there, an answer that is to be kept is in the *)
(* file, and an offer comes only when the last window leaves a mount of *)
(* the user's. *)
THEOREM MountsAlwaysRight == MountSpec => MountsRight
<1>1. MountInit => MountInv
  BY MountStart
<1>2. MountInv /\ [MountNext]_mountVars => MountInv'
  BY MountStep
<1>3. MountInv /\ [MountNext]_mountVars => [OffersAreLast]_mountVars
  BY MountStep
<1>4. MountInv => StaysWhileNeeded /\ AnswersKept
  BY MountInvMeans
<1> QED BY <1>1, <1>2, <1>3, <1>4, PTL DEF MountSpec, MountsRight

--------------------
(***************************************************************************)
(* THE LIST VIEW: WHAT GTK KEEPS OF THE ROWS FOLLOWS THE ITEMS             *)
(***************************************************************************)

(* Induction up to a number, over a set. *)
LEMMA UpTo ==
    ASSUME NEW n \in Nat, NEW S, 0 \in S, \A k \in 0..n : k \in S /\ k < n => k + 1 \in S
    PROVE  0..n \subseteq S
<1> DEFINE Bad == {k \in 0..n : k \notin S}
<1>1. ASSUME Bad # {} PROVE FALSE
  <2>1. Bad \subseteq Nat
    OBVIOUS
  <2>2. PICK k \in Bad : \A j \in Bad : ~(<<j, k>> \in OpToRel(<, Nat))
    BY <1>1, <2>1, WFMin, NatLessThanWellFounded, Zenon
  <2>3. \A j \in Bad : ~(j < k)
    BY <2>1, <2>2 DEF OpToRel
  <2>4. k \in 0..n /\ k \notin S
    OBVIOUS
  <2>7. k \in Nat /\ k <= n /\ k # 0
    BY <2>4
  <2>5. k - 1 \in 0..n /\ k - 1 < n /\ k - 1 < k /\ (k - 1) + 1 = k
    BY <2>7
  <2>6. k - 1 \in S
    BY <2>3, <2>5
  <2> QED BY <2>4, <2>5, <2>6, <2>7
<1> QED BY <1>1

(* The rows: what there is in the array, each once; and what GTK keeps, *)
(* for as many rows. *)
RowsOf(items) ==
    /\ items \in Seq(Row)
    /\ \A i, j \in 1..Len(items) : items[i] = items[j] => i = j
GtkFor(g, n) ==
    g \in [selected : {g.selected}, cursor : {g.cursor}] /\ g.selected \in [1..n -> BOOLEAN] /\ g.cursor \in 0..n
(* The array as the view needs it, but for its order. *)
ListGood(l) ==
    /\ l \in [items : {l.items}, key : {l.key}, ascending : {l.ascending}, wink : {l.wink}, missed : {l.missed}]
    /\ RowsOf(l.items) /\ l.key \in [Row -> Int] /\ l.ascending \in BOOLEAN
(* The rows that are selected are those of the items in S, and the cursor *)
(* is on the item c, or on none. *)
Shows(items, g, S, c) ==
    /\ {items[i] : i \in {j \in 1..Len(items) : g.selected[j]}} = S
    /\ c = IF g.cursor = 0 THEN 0 ELSE items[g.cursor]
ViewGood(v, S, c) ==
    /\ ListGood(v.list) /\ GtkFor(v.gtk, Len(v.list.items)) /\ Shows(v.list.items, v.gtk, S, c)

LEMMA RowsAre ==
    ASSUME NEW items, RowsOf(items)
    PROVE  \E n \in Nat : /\ n = Len(items) /\ DOMAIN items = 1..n /\ items \in [1..n -> Row]
                          /\ \A i, j \in 1..n : items[i] = items[j] => i = j
<1>1. items \in Seq(Row)
  BY DEF RowsOf
<1>2. Len(items) \in Nat /\ DOMAIN items = 1..Len(items) /\ items \in [1..Len(items) -> Row]
  BY <1>1, LenProperties
<1> QED BY <1>2 DEF RowsOf

LEMMA RowsFrom ==
    ASSUME NEW n \in Nat, NEW items \in [1..n -> Row], \A i, j \in 1..n : items[i] = items[j] => i = j
    PROVE  RowsOf(items) /\ Len(items) = n
<1>1. items \in Seq(Row) /\ Len(items) = n
  BY SeqDef
<1> QED BY <1>1 DEF RowsOf

(* What is shown, of the arrays as functions. *)
LEMMA ShowsIs ==
    ASSUME NEW n \in Nat, NEW items \in [1..n -> Row], Len(items) = n,
           \A i, j \in 1..n : items[i] = items[j] => i = j,
           NEW g, GtkFor(g, n), NEW S, NEW c
    PROVE  Shows(items, g, S, c) <=>
             /\ \A i \in 1..n : g.selected[i] = (items[i] \in S)
             /\ S \subseteq {items[i] : i \in 1..n}
             /\ c = IF g.cursor = 0 THEN 0 ELSE items[g.cursor]
<1>1. g.selected \in [1..n -> BOOLEAN]
  BY DEF GtkFor
<1>2. ASSUME Shows(items, g, S, c)
      PROVE  /\ \A i \in 1..n : g.selected[i] = (items[i] \in S)
             /\ S \subseteq {items[i] : i \in 1..n}
             /\ c = IF g.cursor = 0 THEN 0 ELSE items[g.cursor]
  <2>1. S = {items[i] : i \in {j \in 1..n : g.selected[j]}}
        /\ c = IF g.cursor = 0 THEN 0 ELSE items[g.cursor]
    BY <1>2 DEF Shows
  <2>2. ASSUME NEW i \in 1..n PROVE g.selected[i] = (items[i] \in S)
    <3>1. g.selected[i] \in BOOLEAN
      BY <1>1
    <3>2. g.selected[i] => items[i] \in S
      BY <2>1
    <3>3. items[i] \in S => g.selected[i]
      <4>1. ASSUME items[i] \in S PROVE g.selected[i]
        <5>1. PICK j \in 1..n : g.selected[j] /\ items[i] = items[j]
          BY <4>1, <2>1
        <5>2. i = j
          BY <5>1
        <5> QED BY <5>1, <5>2
      <4> QED BY <4>1
    <3> QED BY <3>1, <3>2, <3>3
  <2>3. S \subseteq {items[i] : i \in 1..n}
    BY <2>1
  <2> QED BY <2>1, <2>2, <2>3
<1>3. ASSUME \A i \in 1..n : g.selected[i] = (items[i] \in S), S \subseteq {items[i] : i \in 1..n},
             c = IF g.cursor = 0 THEN 0 ELSE items[g.cursor]
      PROVE  Shows(items, g, S, c)
  <2>1. ASSUME NEW x \in {items[i] : i \in {j \in 1..n : g.selected[j]}} PROVE x \in S
    BY <1>3
  <2>2. ASSUME NEW x \in S PROVE x \in {items[i] : i \in {j \in 1..n : g.selected[j]}}
    <3>1. PICK i \in 1..n : x = items[i]
      BY <1>3
    <3>2. g.selected[i]
      BY <1>3, <3>1, Zenon
    <3> QED BY <3>1, <3>2
  <2> QED BY <1>3, <2>1, <2>2 DEF Shows
<1> QED BY <1>2, <1>3


--------------------
(* What is sorted is put in order, and every row is told where it went. *)
PlaceOf(l, x) == Cardinality({y \in Items(l) : SortsBefore(l, y, x)}) + 1
SortedOf(l) == [j \in DOMAIN l.items |-> CHOOSE x \in Items(l) : PlaceOf(l, x) = j]

LEMMA SortsOrder ==
    ASSUME NEW l, ListGood(l), NEW x \in Row, NEW y \in Row, NEW z \in Row
    PROVE  /\ ~SortsBefore(l, x, x)
           /\ SortsBefore(l, x, y) => ~SortsBefore(l, y, x)
           /\ SortsBefore(l, x, y) /\ SortsBefore(l, y, z) => SortsBefore(l, x, z)
           /\ x = y \/ SortsBefore(l, x, y) \/ SortsBefore(l, y, x)
<1>1. l.key \in [Row -> Int] /\ l.ascending \in BOOLEAN
  BY DEF ListGood
<1>2. x \in Nat /\ y \in Nat /\ z \in Nat /\ l.key[x] \in Int /\ l.key[y] \in Int /\ l.key[z] \in Int
  BY <1>1, DetailsAssumption
<1>3. CASE l.ascending = TRUE
  BY <1>2, <1>3 DEF SortsBefore
<1>4. CASE l.ascending = FALSE
  BY <1>2, <1>4 DEF SortsBefore
<1> QED BY <1>1, <1>3, <1>4

LEMMA ItemsAre ==
    ASSUME NEW l, RowsOf(l.items)
    PROVE  Items(l) \subseteq Row /\ IsFiniteSet(Items(l)) /\ Cardinality(Items(l)) = Len(l.items)
           /\ Items(l) = {l.items[i] : i \in 1..Len(l.items)}
<1>1. PICK n \in Nat : /\ n = Len(l.items) /\ DOMAIN l.items = 1..n /\ l.items \in [1..n -> Row]
                       /\ \A i, j \in 1..n : l.items[i] = l.items[j] => i = j
  BY RowsAre
<1>2. Items(l) = {l.items[i] : i \in 1..n} /\ Items(l) \subseteq Row
  BY <1>1 DEF Items
<1>3. IsFiniteSet(1..n) /\ Cardinality(1..n) = n
  <2>1. 1 \in Int /\ n \in Int
    OBVIOUS
  <2>2. IsFiniteSet(1..n) /\ Cardinality(1..n) = IF 1 > n THEN 0 ELSE n - 1 + 1
    BY <2>1, FS_Interval
  <2> QED BY <2>2
<1>4. l.items \in Surjection(1..n, Items(l))
  BY <1>1, <1>2 DEF Surjection
<1>5. l.items \in Injection(1..n, Items(l))
  BY <1>1, <1>2 DEF Injection, IsInjective
<1>6. IsFiniteSet(Items(l)) /\ (Cardinality(Items(l)) = Cardinality(1..n) <=> l.items \in Injection(1..n, Items(l)))
  BY <1>3, <1>4, FS_Surjection, Zenon
<1> QED BY <1>1, <1>2, <1>3, <1>5, <1>6

LEMMA Places ==
    ASSUME NEW l, ListGood(l)
    PROVE  /\ \A x \in Items(l) : PlaceOf(l, x) \in 1..Len(l.items)
           /\ \A x, y \in Items(l) : SortsBefore(l, y, x) => PlaceOf(l, y) < PlaceOf(l, x)
<1> DEFINE I == Items(l)
           Below(x) == {y \in I : SortsBefore(l, y, x)}
<1>1. I \subseteq Row /\ IsFiniteSet(I) /\ Cardinality(I) = Len(l.items)
  BY ItemsAre DEF ListGood
<1>2. ASSUME NEW x \in I
      PROVE  IsFiniteSet(Below(x)) /\ Cardinality(Below(x)) \in Nat /\ Cardinality(Below(x)) < Cardinality(I)
  <2>1. Below(x) \in SUBSET I /\ x \notin Below(x) /\ x \in Row
    BY <1>1, SortsOrder
  <2>2. IsFiniteSet(Below(x)) /\ Cardinality(Below(x)) <= Cardinality(I)
        /\ (Cardinality(I) = Cardinality(Below(x)) => I = Below(x))
    BY <1>1, <2>1, FS_Subset, Zenon
  <2>3. I # Below(x)
    BY <2>1, <1>2
  <2>4. Cardinality(Below(x)) \in Nat /\ Cardinality(I) \in Nat
    BY <1>1, <2>2, FS_CardinalityType, Zenon
  <2> HIDE DEF Below, I
  <2> QED BY <2>2, <2>3, <2>4
<1>3. ASSUME NEW x \in I PROVE PlaceOf(l, x) = Cardinality(Below(x)) + 1
  BY DEF PlaceOf
<1>4. ASSUME NEW x \in I PROVE PlaceOf(l, x) \in 1..Len(l.items)
  <2>1. Cardinality(I) \in Nat
    BY <1>1, FS_CardinalityType, Zenon
  <2>2. Cardinality(Below(x)) \in Nat /\ Cardinality(Below(x)) < Cardinality(I)
    BY <1>2
  <2> HIDE DEF Below, I
  <2> QED BY <1>1, <1>3, <1>4, <2>1, <2>2
<1>5. ASSUME NEW x \in I, NEW y \in I, SortsBefore(l, y, x) PROVE PlaceOf(l, y) < PlaceOf(l, x)
  <2>1. x \in Row /\ y \in Row
    BY <1>1
  <2>2. ASSUME NEW z \in Below(y) PROVE z \in Below(x)
    <3>1. z \in Row /\ z \in I /\ SortsBefore(l, z, y)
      BY <1>1
    <3> QED BY <1>5, <2>1, <3>1, SortsOrder
  <2>3. Below(y) \in SUBSET Below(x)
    BY <2>2
  <2>4. y \in Below(x) /\ y \notin Below(y)
    BY <1>5, <2>1, SortsOrder
  <2>5. IsFiniteSet(Below(x)) /\ Cardinality(Below(x)) \in Nat /\ Cardinality(Below(y)) \in Nat
    BY <1>2
  <2>6. Cardinality(Below(y)) <= Cardinality(Below(x))
        /\ (Cardinality(Below(x)) = Cardinality(Below(y)) => Below(x) = Below(y))
    BY <2>3, <2>5, FS_Subset, Zenon
  <2>7. PlaceOf(l, y) = Cardinality(Below(y)) + 1 /\ PlaceOf(l, x) = Cardinality(Below(x)) + 1
    BY <1>3
  <2>8. Below(x) # Below(y)
    BY <2>4
  <2> HIDE DEF Below, I
  <2> QED BY <2>5, <2>6, <2>7, <2>8
<1> QED BY <1>4, <1>5

(* An array in order. *)
InOrder(l) == \A i, j \in 1..Len(l.items) : i < j => SortsBefore(l, l.items[i], l.items[j])
SortedRight(l, new) ==
    /\ RowsOf(new) /\ Len(new) = Len(l.items)
    /\ {new[i] : i \in 1..Len(new)} = Items(l)
    /\ \A i, j \in 1..Len(new) : i < j => SortsBefore(l, new[i], new[j])

LEMMA Sorts ==
    ASSUME NEW l, ListGood(l)
    PROVE  SortedRight(l, SortedOf(l))
<1> DEFINE n == Len(l.items)
           I == Items(l)
           new == SortedOf(l)
           place == [x \in I |-> PlaceOf(l, x)]
<1>1. n \in Nat /\ DOMAIN l.items = 1..n /\ l.items \in [1..n -> Row]
  <2>1. RowsOf(l.items)
    BY DEF ListGood
  <2>2. PICK m \in Nat : m = Len(l.items) /\ DOMAIN l.items = 1..m /\ l.items \in [1..m -> Row]
    BY <2>1, RowsAre
  <2> QED BY <2>2
<1>2. I \subseteq Row /\ IsFiniteSet(I) /\ Cardinality(I) = n
  BY ItemsAre DEF ListGood
<1>3. \A x \in I : PlaceOf(l, x) \in 1..n
  BY Places
<1>4. \A x, y \in I : SortsBefore(l, y, x) => PlaceOf(l, y) < PlaceOf(l, x)
  BY Places
<1>5. \A x, y \in I : PlaceOf(l, x) = PlaceOf(l, y) => x = y
  <2>1. ASSUME NEW x \in I, NEW y \in I, PlaceOf(l, x) = PlaceOf(l, y), x # y PROVE FALSE
    <3>1. x \in Row /\ y \in Row
      BY <1>2
    <3>2. SortsBefore(l, x, y) \/ SortsBefore(l, y, x)
      BY <2>1, <3>1, SortsOrder, Zenon
    <3>3. PlaceOf(l, x) < PlaceOf(l, y) \/ PlaceOf(l, y) < PlaceOf(l, x)
      BY <1>4, <3>2, Zenon
    <3>4. PlaceOf(l, x) \in Nat /\ PlaceOf(l, y) \in Nat
      BY <1>1, <1>3
    <3> HIDE DEF I
    <3> QED BY <2>1, <3>3, <3>4
  <2> QED BY <2>1
<1>6. place \in Injection(I, 1..n)
  <2>1. place \in [I -> 1..n]
    BY <1>3
  <2> QED BY <1>5, <2>1 DEF Injection, IsInjective
<1>7. IsFiniteSet(1..n) /\ Cardinality(1..n) = n
  <2>1. 1 \in Int /\ n \in Int
    BY <1>1
  <2>2. IsFiniteSet(1..n) /\ Cardinality(1..n) = IF 1 > n THEN 0 ELSE n - 1 + 1
    BY <2>1, FS_Interval
  <2> HIDE DEF n
  <2> QED BY <1>1, <2>2
<1>8. place \in Surjection(I, 1..n)
  BY <1>2, <1>6, <1>7, FS_Injection, Zenon
<1>9. \A j \in 1..n : \E x \in I : PlaceOf(l, x) = j
  BY <1>8 DEF Surjection
<1>10. \A j \in 1..n : new[j] \in I /\ PlaceOf(l, new[j]) = j
  <2>1. ASSUME NEW j \in 1..n PROVE new[j] \in I /\ PlaceOf(l, new[j]) = j
    <3>1. new[j] = CHOOSE x \in Items(l) : PlaceOf(l, x) = j
      BY <1>1 DEF SortedOf
    <3>2. \E x \in Items(l) : PlaceOf(l, x) = j
      BY <1>9
    <3> HIDE DEF new
    <3> QED BY <3>1, <3>2
  <2> QED BY <2>1
<1>11. new \in [1..n -> Row]
  <2>1. DOMAIN new = 1..n
    BY <1>1 DEF SortedOf
  <2>2. new = [j \in DOMAIN new |-> new[j]]
    BY DEF SortedOf
  <2>3. \A j \in 1..n : new[j] \in Row
    BY <1>2, <1>10
  <2> HIDE DEF new, I, n
  <2> QED BY <2>1, <2>2, <2>3
<1>12. \A i, j \in 1..n : new[i] = new[j] => i = j
  <2> HIDE DEF new, I, n
  <2> QED BY <1>10
<1>13. RowsOf(new) /\ Len(new) = n
  <2> HIDE DEF new, I, n
  <2> QED BY <1>1, <1>11, <1>12, RowsFrom
<1>14. {new[i] : i \in 1..n} = I
  <2>1. ASSUME NEW x \in I PROVE x \in {new[i] : i \in 1..n}
    <3>1. PlaceOf(l, x) \in 1..n
      BY <1>3
    <3>2. new[PlaceOf(l, x)] \in I /\ PlaceOf(l, new[PlaceOf(l, x)]) = PlaceOf(l, x)
      BY <1>10, <3>1
    <3>3. new[PlaceOf(l, x)] = x
      BY <1>5, <2>1, <3>2
    <3> HIDE DEF new, I, n
    <3> QED BY <3>1, <3>3
  <2>2. \A i \in 1..n : new[i] \in I
    BY <1>10
  <2> HIDE DEF new, I, n
  <2> QED BY <2>1, <2>2
<1>15. ASSUME NEW i \in 1..n, NEW j \in 1..n, i < j PROVE SortsBefore(l, new[i], new[j])
  <2>1. new[i] \in I /\ new[j] \in I /\ PlaceOf(l, new[i]) = i /\ PlaceOf(l, new[j]) = j
    BY <1>10
  <2>2. new[i] \in Row /\ new[j] \in Row
    BY <1>2, <2>1
  <2>3. new[i] # new[j]
    BY <1>12, <1>15, <1>1
  <2>4. SortsBefore(l, new[i], new[j]) \/ SortsBefore(l, new[j], new[i])
    BY <2>2, <2>3, SortsOrder, Zenon
  <2>5. SortsBefore(l, new[j], new[i]) => j < i
    BY <1>4, <2>1
  <2> HIDE DEF new, I, n
  <2> QED BY <1>1, <1>15, <2>4, <2>5
<1> HIDE DEF new, I, n
<1> QED BY <1>13, <1>14, <1>15 DEF SortedRight, new, I, n

(* The new order sent to GTK, and what GTK makes of it. *)
Reordering(old, new, n, p) == p \in [1..n -> 1..n] /\ \A j \in 1..n : old[p[j]] = new[j]

LEMMA Reorders ==
    ASSUME NEW n \in Nat, NEW old \in [1..n -> Row], NEW new \in [1..n -> Row],
           \A j \in 1..n : \E i \in 1..n : old[i] = new[j]
    PROVE  Reordering(old, new, n, ReorderOf(old, new))
<1> DEFINE p == ReorderOf(old, new)
<1>1. p = [j \in 1..n |-> CHOOSE i \in 1..n : old[i] = new[j]]
  <2>1. DOMAIN old = 1..n /\ DOMAIN new = 1..n
    OBVIOUS
  <2> QED BY <2>1 DEF ReorderOf
<1>2. ASSUME NEW j \in 1..n PROVE p[j] \in 1..n /\ old[p[j]] = new[j]
  <2>1. \E i \in 1..n : old[i] = new[j]
    OBVIOUS
  <2>2. p[j] = CHOOSE i \in 1..n : old[i] = new[j]
    BY <1>1
  <2> HIDE DEF p
  <2> QED BY <2>1, <2>2
<1> HIDE DEF p
<1> QED BY <1>1, <1>2 DEF p, Reordering

LEMMA ReorderedShows ==
    ASSUME NEW n \in Nat, NEW old \in [1..n -> Row], NEW new \in [1..n -> Row],
           Len(old) = n, Len(new) = n,
           \A i, j \in 1..n : old[i] = old[j] => i = j,
           \A i, j \in 1..n : new[i] = new[j] => i = j,
           {new[i] : i \in 1..n} = {old[i] : i \in 1..n},
           NEW g, GtkFor(g, n), NEW S, NEW c, Shows(old, g, S, c)
    PROVE  /\ GtkFor(RowsReordered(g, ReorderOf(old, new)), n)
           /\ Shows(new, RowsReordered(g, ReorderOf(old, new)), S, c)
<1> DEFINE p == ReorderOf(old, new)
           h == RowsReordered(g, p)
<1>1. p \in [1..n -> 1..n] /\ \A j \in 1..n : old[p[j]] = new[j]
  <2>1. ASSUME NEW j \in 1..n PROVE \E i \in 1..n : old[i] = new[j]
    <3>1. new[j] \in {new[i] : i \in 1..n}
      OBVIOUS
    <3>2. new[j] \in {old[i] : i \in 1..n}
      BY <3>1, Zenon
    <3> QED BY <3>2
  <2>2. Reordering(old, new, n, p)
    BY <2>1, Reorders
  <2> HIDE DEF p
  <2> QED BY <2>2 DEF Reordering
<1> HIDE DEF p
<1>2. /\ \A i \in 1..n : g.selected[i] = (old[i] \in S)
      /\ S \subseteq {old[i] : i \in 1..n}
      /\ c = IF g.cursor = 0 THEN 0 ELSE old[g.cursor]
  BY ShowsIs
<1>3. g.selected \in [1..n -> BOOLEAN] /\ g.cursor \in 0..n
  BY DEF GtkFor
<1>4. h = [selected |-> [j \in 1..n |-> g.selected[p[j]]],
           cursor |-> IF g.cursor = 0 THEN 0 ELSE CHOOSE j \in 1..n : p[j] = g.cursor]
  <2>1. DOMAIN p = 1..n
    BY <1>1
  <2> QED BY <2>1 DEF RowsReordered
<1>5. h.selected = [j \in 1..n |-> g.selected[p[j]]]
      /\ h.cursor = IF g.cursor = 0 THEN 0 ELSE CHOOSE j \in 1..n : p[j] = g.cursor
  BY <1>4
<1>6. h \in [selected : {h.selected}, cursor : {h.cursor}]
  BY <1>4
<1> HIDE DEF h
<1>7. h.selected \in [1..n -> BOOLEAN] /\ \A j \in 1..n : h.selected[j] = (new[j] \in S)
  <2>1. ASSUME NEW j \in 1..n PROVE h.selected[j] = (new[j] \in S)
    <3>1. p[j] \in 1..n /\ old[p[j]] = new[j]
      BY <1>1
    <3>2. g.selected[p[j]] = (old[p[j]] \in S)
      BY <1>2, <3>1, Zenon
    <3>3. h.selected[j] = g.selected[p[j]]
      BY <1>5
    <3> QED BY <3>1, <3>2, <3>3, Zenon
  <2>2. h.selected \in [1..n -> BOOLEAN]
    <3>1. \A j \in 1..n : g.selected[p[j]] \in BOOLEAN
      BY <1>1, <1>3
    <3> QED BY <1>5, <3>1, Zenon
  <2> QED BY <2>1, <2>2
<1>8. h.cursor \in 0..n /\ c = IF h.cursor = 0 THEN 0 ELSE new[h.cursor]
  <2>1. CASE g.cursor = 0
    BY <1>2, <1>5, <2>1
  <2>2. CASE g.cursor # 0
    <3>1. g.cursor \in 1..n
      BY <1>3, <2>2
    <3>2. PICK j \in 1..n : new[j] = old[g.cursor]
      <4>1. old[g.cursor] \in {old[i] : i \in 1..n}
        BY <3>1, Zenon
      <4>2. old[g.cursor] \in {new[i] : i \in 1..n}
        BY <4>1, Zenon
      <4> QED BY <4>2, Zenon
    <3>3. old[p[j]] = old[g.cursor] /\ p[j] \in 1..n
      BY <1>1, <3>2
    <3>4. p[j] = g.cursor
      BY <3>1, <3>3
    <3>5. h.cursor = CHOOSE k \in 1..n : p[k] = g.cursor
      BY <1>5, <2>2
    <3>6. h.cursor \in 1..n /\ p[h.cursor] = g.cursor
      BY <3>4, <3>5
    <3>7. new[h.cursor] = old[g.cursor]
      BY <1>1, <3>6
    <3>8. c = old[g.cursor]
      BY <1>2, <2>2
    <3> QED BY <3>6, <3>7, <3>8
  <2> QED BY <2>1, <2>2
<1>9. S \subseteq {new[i] : i \in 1..n}
  BY <1>2
<1>10. GtkFor(h, n)
  BY <1>6, <1>7, <1>8 DEF GtkFor
<1>11. Shows(new, h, S, c)
  BY <1>7, <1>8, <1>9, <1>10, ShowsIs, Zenon
<1> QED BY <1>10, <1>11 DEF h, p

(* A view that was sorted: as it was, and in order. *)
SortedView(v, w, S, c) ==
    /\ ViewGood(w, S, c) /\ InOrder(w.list)
    /\ Items(w.list) = Items(v.list) /\ w.list.missed = v.list.missed
    /\ w = [list |-> w.list, gtk |-> w.gtk]

LEMMA Resorts ==
    ASSUME NEW v, NEW S, NEW c, ViewGood(v, S, c)
    PROVE  SortedView(v, Resort(v), S, c)
<1> DEFINE l == v.list
           old == v.list.items
           new == SortedOf(l)
           p == ReorderOf(old, new)
           w == Resort(v)
<1>1. w = [list |-> [l EXCEPT !.items = new, !.wink = WinkMoves(p, @)], gtk |-> RowsReordered(v.gtk, p)]
  BY DEF Resort, SortedOf, PlaceOf
<1>2. ListGood(l) /\ GtkFor(v.gtk, Len(old)) /\ Shows(old, v.gtk, S, c)
  BY DEF ViewGood
<1>3. SortedRight(l, new)
  BY <1>2, Sorts
<1>4. PICK n \in Nat : /\ n = Len(old) /\ DOMAIN old = 1..n /\ old \in [1..n -> Row]
                       /\ \A i, j \in 1..n : old[i] = old[j] => i = j
  BY <1>2, RowsAre DEF ListGood
<1>5. Items(l) = {old[i] : i \in 1..n}
  BY <1>4 DEF Items
<1> HIDE DEF new, p, w
<1>6. RowsOf(new) /\ Len(new) = n /\ {new[i] : i \in 1..n} = {old[i] : i \in 1..n}
  BY <1>3, <1>4, <1>5 DEF SortedRight
<1>7. DOMAIN new = 1..n /\ new \in [1..n -> Row] /\ \A i, j \in 1..n : new[i] = new[j] => i = j
  BY <1>6, RowsAre
<1>8. GtkFor(RowsReordered(v.gtk, p), n) /\ Shows(new, RowsReordered(v.gtk, p), S, c)
  BY <1>2, <1>4, <1>6, <1>7, ReorderedShows DEF p
<1>9. w.gtk = RowsReordered(v.gtk, p) /\ w.list = [l EXCEPT !.items = new, !.wink = WinkMoves(p, @)]
      /\ w = [list |-> w.list, gtk |-> w.gtk]
  BY <1>1
<1> DEFINE m == w.list
<1>10. l \in [items : {l.items}, key : {l.key}, ascending : {l.ascending}, wink : {l.wink}, missed : {l.missed}]
  BY <1>2 DEF ListGood
<1>11. m.items = new /\ m.key = l.key /\ m.ascending = l.ascending /\ m.missed = l.missed
       /\ m \in [items : {m.items}, key : {m.key}, ascending : {m.ascending}, wink : {m.wink}, missed : {m.missed}]
  BY <1>9, <1>10
<1> HIDE DEF m
<1>12. ListGood(m)
  BY <1>2, <1>6, <1>11 DEF ListGood
<1>13. ViewGood(w, S, c)
  BY <1>6, <1>8, <1>9, <1>11, <1>12 DEF ViewGood, m
<1>14. Items(m) = Items(l)
  <2>1. Items(m) = {new[i] : i \in DOMAIN new}
    BY <1>11, Zenon DEF Items
  <2>2. Items(m) = {new[i] : i \in 1..n}
    BY <1>7, <2>1, Zenon
  <2> QED BY <1>5, <1>6, <2>2, Zenon
<1>15. InOrder(m)
  <2>1. \A x, y : SortsBefore(m, x, y) = SortsBefore(l, x, y)
    BY <1>11 DEF SortsBefore
  <2>2. \A i, j \in 1..n : i < j => SortsBefore(l, new[i], new[j])
    BY <1>3, <1>6 DEF SortedRight
  <2> QED BY <1>6, <1>11, <2>1, <2>2 DEF InOrder
<1> QED BY <1>9, <1>11, <1>13, <1>14, <1>15 DEF SortedView, m, w

--------------------
(* What is added: each at the end, and then sorted in. *)
AppendedView(v, w, x, S, c) ==
    /\ ViewGood(w, S, c) /\ Items(w.list) = Items(v.list) \cup {x}
    /\ w.list.missed = v.list.missed

LEMMA Appends ==
    ASSUME NEW v, NEW S, NEW c, ViewGood(v, S, c), NEW x \in Row, x \notin Items(v.list)
    PROVE  AppendedView(v, Appended(v, x), x, S, c)
<1> DEFINE l == v.list
           g == v.gtk
           old == v.list.items
           new == Append(v.list.items, x)
           w == Appended(v, x)
           h == RowInserted(g, Len(old) + 1)
<1>1. ListGood(l) /\ GtkFor(g, Len(old)) /\ Shows(old, g, S, c)
  BY DEF ViewGood
<1>2. PICK n \in Nat : /\ n = Len(old) /\ DOMAIN old = 1..n /\ old \in [1..n -> Row]
                       /\ \A i, j \in 1..n : old[i] = old[j] => i = j
  BY <1>1, RowsAre DEF ListGood
<1>3. old \in Seq(Row)
  BY <1>1 DEF ListGood, RowsOf
<1>4. Items(l) = {old[i] : i \in 1..n}
  BY <1>2 DEF Items
<1>5. new \in [1..(n + 1) -> Row] /\ Len(new) = n + 1 /\ new[n + 1] = x /\ \A i \in 1..n : new[i] = old[i]
  <2>1. new \in Seq(Row) /\ Len(new) = n + 1 /\ new[n + 1] = x /\ \A i \in 1..n : new[i] = old[i]
    BY <1>2, <1>3, AppendProperties
  <2> HIDE DEF new
  <2>2. new \in [1..Len(new) -> Row]
    BY <2>1, LenProperties
  <2> QED BY <2>1, <2>2
<1> HIDE DEF new
<1>6. \A i, j \in 1..(n + 1) : new[i] = new[j] => i = j
  <2> SUFFICES ASSUME NEW i \in 1..(n + 1), NEW j \in 1..(n + 1), new[i] = new[j] PROVE i = j
    OBVIOUS
  <2>1. \A k \in 1..n : new[k] # x
    BY <1>4, <1>5
  <2>2. \A k \in 1..(n + 1) : k \in 1..n \/ k = n + 1
    OBVIOUS
  <2>3. CASE i \in 1..n /\ j \in 1..n
    <3>1. old[i] = old[j]
      BY <1>5, <2>3
    <3> QED BY <1>2, <2>3, <3>1
  <2>4. new[n + 1] = x
    BY <1>5
  <2>5. CASE i = n + 1
    BY <2>1, <2>2, <2>4, <2>5, Zenon
  <2>6. CASE j = n + 1
    BY <2>1, <2>2, <2>4, <2>6, Zenon
  <2> QED BY <2>2, <2>3, <2>5, <2>6
<1>7. RowsOf(new)
  BY <1>5, <1>6, RowsFrom
<1>8. /\ \A i \in 1..n : g.selected[i] = (old[i] \in S)
      /\ S \subseteq {old[i] : i \in 1..n}
      /\ c = IF g.cursor = 0 THEN 0 ELSE old[g.cursor]
  BY <1>1, <1>2, ShowsIs
<1>9. g.selected \in [1..n -> BOOLEAN] /\ g.cursor \in 0..n /\ Len(g.selected) = n
  <2>1. g.selected \in [1..n -> BOOLEAN] /\ g.cursor \in 0..n
    BY <1>1, <1>2 DEF GtkFor
  <2>2. Len(g.selected) = n
    BY <2>1, SeqDef
  <2> QED BY <2>1, <2>2
<1>10. h = [selected |-> [j \in 1..(n + 1) |-> IF j < n + 1 THEN g.selected[j] ELSE j > n + 1 /\ g.selected[j - 1]],
            cursor |-> g.cursor]
  <2>1. h = [selected |-> [j \in 1..(Len(g.selected) + 1) |->
                            IF j < n + 1 THEN g.selected[j] ELSE j > n + 1 /\ g.selected[j - 1]],
             cursor |-> IF g.cursor >= n + 1 THEN g.cursor + 1 ELSE g.cursor]
    BY <1>2, Zenon DEF RowInserted
  <2>2. ~(g.cursor >= n + 1)
    BY <1>9
  <2> QED BY <1>9, <2>1, <2>2, Zenon
<1>11. /\ h.selected = [j \in 1..(n + 1) |-> IF j < n + 1 THEN g.selected[j] ELSE j > n + 1 /\ g.selected[j - 1]]
       /\ h.cursor = g.cursor /\ h \in [selected : {h.selected}, cursor : {h.cursor}]
  <2>1. PICK f : f = [j \in 1..(n + 1) |-> IF j < n + 1 THEN g.selected[j] ELSE j > n + 1 /\ g.selected[j - 1]]
    OBVIOUS
  <2>2. h = [selected |-> f, cursor |-> g.cursor]
    BY <1>10, <2>1, Zenon
  <2> HIDE DEF h
  <2>3. h.selected = f /\ h.cursor = g.cursor /\ h \in [selected : {h.selected}, cursor : {h.cursor}]
    BY <2>2
  <2> QED BY <2>1, <2>3, Zenon
<1> HIDE DEF h
<1>12. \A j \in 1..n : h.selected[j] = g.selected[j]
  BY <1>2, <1>11
<1>13. h.selected[n + 1] = FALSE
  <2>1. n + 1 \in 1..(n + 1) /\ ~(n + 1 < n + 1) /\ ~(n + 1 > n + 1)
    BY <1>2
  <2>2. h.selected[n + 1] = IF n + 1 < n + 1 THEN g.selected[n + 1] ELSE n + 1 > n + 1 /\ g.selected[n + 1 - 1]
    BY <1>11, <2>1, Zenon
  <2> QED BY <2>1, <2>2, Zenon
<1>14. h.selected \in [1..(n + 1) -> BOOLEAN]
  <2>1. h.selected = [j \in 1..(n + 1) |-> h.selected[j]]
    BY <1>11
  <2>2. \A j \in 1..(n + 1) : h.selected[j] \in BOOLEAN
    <3>1. ASSUME NEW j \in 1..(n + 1) PROVE h.selected[j] \in BOOLEAN
      <4>1. CASE j \in 1..n
        BY <1>9, <1>12, <4>1
      <4>2. CASE j = n + 1
        BY <1>13, <4>2
      <4> QED BY <4>1, <4>2
    <3> QED BY <3>1
  <2> QED BY <2>1, <2>2, Zenon
<1>15. GtkFor(h, n + 1)
  BY <1>9, <1>11, <1>14 DEF GtkFor
<1>16. x \notin S
  BY <1>4, <1>8
<1>17. ASSUME NEW j \in 1..(n + 1) PROVE h.selected[j] = (new[j] \in S)
  <2>1. CASE j \in 1..n
    <3>1. h.selected[j] = g.selected[j] /\ g.selected[j] = (old[j] \in S) /\ new[j] = old[j]
      BY <1>5, <1>8, <1>12, <2>1, Zenon
    <3> QED BY <3>1, Zenon
  <2>2. CASE j = n + 1
    <3>1. new[j] = x /\ h.selected[j] = FALSE
      BY <1>5, <1>13, <2>2
    <3>2. (new[j] \in S) = FALSE
      BY <1>16, <3>1
    <3> QED BY <3>1, <3>2, Zenon
  <2> QED BY <2>1, <2>2
<1>18. S \subseteq {new[i] : i \in 1..(n + 1)}
  <2>1. ASSUME NEW y \in S PROVE y \in {new[i] : i \in 1..(n + 1)}
    <3>1. PICK i \in 1..n : y = old[i]
      BY <1>8
    <3>2. i \in 1..(n + 1) /\ y = new[i]
      BY <1>5, <3>1
    <3> QED BY <3>2
  <2> QED BY <2>1
<1>19. c = IF h.cursor = 0 THEN 0 ELSE new[h.cursor]
  BY <1>5, <1>8, <1>9, <1>11
<1>20. Shows(new, h, S, c)
  <2>1. n + 1 \in Nat
    OBVIOUS
  <2> QED BY <1>5, <1>6, <1>15, <1>17, <1>18, <1>19, <2>1, ShowsIs, Zenon
<1>21. w = [list |-> [l EXCEPT !.items = new], gtk |-> h]
  BY DEF Appended, new, h
<1> DEFINE m == w.list
<1>22. l \in [items : {l.items}, key : {l.key}, ascending : {l.ascending}, wink : {l.wink}, missed : {l.missed}]
  BY <1>1 DEF ListGood
<1>23. w.gtk = h /\ m = [l EXCEPT !.items = new]
  BY <1>21
<1> HIDE DEF w
<1>24. m.items = new /\ m.key = l.key /\ m.ascending = l.ascending /\ m.missed = l.missed
       /\ m \in [items : {m.items}, key : {m.key}, ascending : {m.ascending}, wink : {m.wink}, missed : {m.missed}]
  BY <1>22, <1>23
<1>25. ListGood(m)
  BY <1>1, <1>7, <1>24 DEF ListGood
<1>26. ViewGood(w, S, c)
  BY <1>5, <1>15, <1>20, <1>23, <1>24, <1>25 DEF ViewGood
<1>27. Items(m) = Items(l) \cup {x}
  <2>1. Items(m) = {new[i] : i \in DOMAIN new}
    BY <1>24, Zenon DEF Items
  <2>2. DOMAIN new = 1..(n + 1)
    BY <1>5
  <2>3. ASSUME NEW y \in Items(m) PROVE y \in Items(l) \cup {x}
    BY <1>4, <1>5, <2>1, <2>2, <2>3
  <2>4. ASSUME NEW y \in Items(l) PROVE y \in Items(m)
    <3>1. PICK i \in 1..n : y = old[i]
      BY <1>4
    <3>2. i \in 1..(n + 1) /\ y = new[i]
      BY <1>5, <3>1
    <3> QED BY <2>1, <2>2, <3>2
  <2>5. x \in Items(m)
    BY <1>5, <2>1, <2>2
  <2> HIDE DEF m, l
  <2> QED BY <2>3, <2>4, <2>5
<1> QED BY <1>24, <1>26, <1>27 DEF AppendedView, w, m, l

AddedTo(v, new) ==
    LET added[n \in 0..Len(new)] == IF n = 0 THEN v ELSE Appended(added[n - 1], new[n]) IN added

AddedEach(v, new, added) ==
    added[0] = v /\ \A k \in 1..Len(new) : added[k] = Appended(added[k - 1], new[k])

LEMMA Adds ==
    ASSUME NEW v, NEW new, Len(new) \in Nat
    PROVE  AddedEach(v, new, AddedTo(v, new))
<1> DEFINE n == Len(new)
           Upto(m, f) == f = [k \in 0..m |-> IF k = 0 THEN v ELSE Appended(f[k - 1], new[k])]
           K == {m \in 0..n : \E f : Upto(m, f)}
<1>1. 0 \in K
  <2>1. Upto(0, [k \in 0..0 |-> v])
    OBVIOUS
  <2>2. 0 \in 0..n
    OBVIOUS
  <2> QED BY <2>1, <2>2
<1>2. ASSUME NEW m \in 0..n, m \in K, m < n PROVE m + 1 \in K
  <2>1. PICK f : Upto(m, f)
    BY <1>2
  <2> DEFINE e == [k \in 0..(m + 1) |-> IF k = m + 1 THEN Appended(f[m], new[m + 1]) ELSE f[k]]
  <2>2. \A k \in 0..m : e[k] = f[k] /\ f[k] = IF k = 0 THEN v ELSE Appended(f[k - 1], new[k])
    BY <2>1
  <2>3. e[m + 1] = Appended(e[m], new[m + 1])
    OBVIOUS
  <2>4. \A k \in 0..(m + 1) : e[k] = IF k = 0 THEN v ELSE Appended(e[k - 1], new[k])
    <3> HIDE DEF e
    <3>1. ASSUME NEW k \in 0..(m + 1) PROVE e[k] = IF k = 0 THEN v ELSE Appended(e[k - 1], new[k])
      <4>1. CASE k = m + 1
        BY <2>3, <4>1
      <4>2. CASE k = 0
        BY <2>2, <4>2
      <4>3. CASE k \in 1..m
        <5>1. k \in 0..m /\ k - 1 \in 0..m /\ k # 0
          BY <4>3
        <5> QED BY <2>2, <5>1
      <4> QED BY <4>1, <4>2, <4>3
    <3> QED BY <3>1
  <2>5. e = [k \in 0..(m + 1) |-> e[k]]
    OBVIOUS
  <2>6. Upto(m + 1, e)
    <3> HIDE DEF e
    <3> QED BY <2>4, <2>5
  <2>7. m + 1 \in 0..n
    BY <1>2
  <2> HIDE DEF e, Upto
  <2> QED BY <2>6, <2>7
<1>3. 0..n \subseteq K
  <2> HIDE DEF K
  <2> QED BY <1>1, <1>2, UpTo
<1>4. \E f : Upto(n, f)
  BY <1>3
<1>5. AddedTo(v, new) = CHOOSE f : Upto(n, f)
  BY DEF AddedTo
<1>6. Upto(n, AddedTo(v, new))
  <2> HIDE DEF Upto
  <2> QED BY <1>4, <1>5
<1> QED BY <1>6 DEF AddedEach

LEMMA AddsRows ==
    ASSUME NEW v, NEW S, NEW c, ViewGood(v, S, c), NEW x \in Row, NEW y \in Row,
           x \notin Items(v.list), y \notin Items(v.list),
           NEW new, new = IF x = y THEN <<x>> ELSE <<x, y>>
    PROVE  ViewGood(AddRows(v, new), S, c) /\ AddRows(v, new).list.missed = v.list.missed
<1> DEFINE a == AddedTo(v, new)
           w == a[Len(new)]
<1>1. AddRows(v, new) = Resort(w)
  BY DEF AddRows, AddedTo
<1>2. ViewGood(w, S, c) /\ w.list.missed = v.list.missed
  <2>1. Len(new) \in Nat
    OBVIOUS
  <2>2. a[0] = v /\ \A k \in 1..Len(new) : a[k] = Appended(a[k - 1], new[k])
    <3>1. AddedEach(v, new, a)
      BY <2>1, Adds
    <3> HIDE DEF a
    <3> QED BY <3>1 DEF AddedEach
  <2> HIDE DEF a
  <2>3. a[1] = Appended(v, x)
    BY <2>2
  <2>4. AppendedView(v, a[1], x, S, c)
    BY <2>3, Appends
  <2>5. CASE x = y
    BY <2>4, <2>5 DEF AppendedView
  <2>6. CASE x # y
    <3>1. Len(new) = 2 /\ a[2] = Appended(a[1], y)
      BY <2>2, <2>6
    <3>2. y \notin Items(a[1].list) /\ ViewGood(a[1], S, c)
      BY <2>4, <2>6 DEF AppendedView
    <3>3. AppendedView(a[1], a[2], y, S, c)
      BY <3>1, <3>2, Appends
    <3> QED BY <2>4, <3>1, <3>3 DEF AppendedView
  <2> QED BY <2>5, <2>6
<1> HIDE DEF w
<1>3. SortedView(w, Resort(w), S, c)
  BY <1>2, Resorts
<1> QED BY <1>1, <1>2, <1>3 DEF SortedView

--------------------
(* A row that is removed takes its selection with it, and the cursor. *)
RemovedView(v, w, i, S, c) ==
    /\ ViewGood(w, S \ {v.list.items[i]}, IF c = v.list.items[i] THEN 0 ELSE c)
    /\ Items(w.list) = Items(v.list) \ {v.list.items[i]}
    /\ Len(w.list.items) = Len(v.list.items) - 1
    /\ \A j \in 1..(i - 1) : w.list.items[j] = v.list.items[j]
    /\ w.list.missed = v.list.missed

LEMMA Removes ==
    ASSUME NEW v, NEW S, NEW c, ViewGood(v, S, c), NEW i \in 1..Len(v.list.items)
    PROVE  RemovedView(v, Removed(v, i), i, S, c)
<1> DEFINE l == v.list
           g == v.gtk
           old == v.list.items
           new == AfterRemoval(v.list.items, i)
           w == Removed(v, i)
           h == RowDeleted(g, i)
           x == old[i]
           T == S \ {x}
           d == IF c = x THEN 0 ELSE c
           up(j) == IF j < i THEN j ELSE j + 1
<1>1. ListGood(l) /\ GtkFor(g, Len(old)) /\ Shows(old, g, S, c)
  BY DEF ViewGood
<1>2. PICK n \in Nat : /\ n = Len(old) /\ DOMAIN old = 1..n /\ old \in [1..n -> Row]
                       /\ \A k, j \in 1..n : old[k] = old[j] => k = j
  BY <1>1, RowsAre DEF ListGood
<1>3. i \in 1..n /\ n - 1 \in Nat
  BY <1>2
<1>4. Items(l) = {old[k] : k \in 1..n}
  BY <1>2 DEF Items
<1>5. \A j \in 1..(n - 1) : up(j) \in 1..n /\ up(j) # i /\ \A k \in 1..(n - 1) : up(j) = up(k) => j = k
  BY <1>3
<1>6. new = [j \in 1..(n - 1) |-> old[up(j)]]
  BY <1>2 DEF AfterRemoval
<1> HIDE DEF new
<1>7. new \in [1..(n - 1) -> Row] /\ Len(new) = n - 1
  <2>1. \A j \in 1..(n - 1) : old[up(j)] \in Row
    BY <1>2, <1>5
  <2> HIDE DEF up
  <2>2. new \in [1..(n - 1) -> Row]
    BY <1>6, <2>1
  <2>3. \A m \in Nat : \A f \in [1..m -> Row] : Len(f) = m
    BY SeqDef
  <2> QED BY <1>3, <2>2, <2>3, Zenon
<1>8. \A j \in 1..(n - 1) : new[j] = old[up(j)] /\ new[j] # x
  <2> HIDE DEF up
  <2> QED BY <1>2, <1>3, <1>5, <1>6
<1>9. \A j, k \in 1..(n - 1) : new[j] = new[k] => j = k
  <2> HIDE DEF up, old
  <2> SUFFICES ASSUME NEW j \in 1..(n - 1), NEW k \in 1..(n - 1), new[j] = new[k] PROVE j = k
    OBVIOUS
  <2>1. old[up(j)] = old[up(k)] /\ up(j) \in 1..n /\ up(k) \in 1..n
    BY <1>5, <1>8, Zenon
  <2>2. up(j) = up(k)
    BY <1>2, <2>1, Zenon
  <2> QED BY <1>5, <2>2, Zenon
<1>10. RowsOf(new)
  BY <1>3, <1>7, <1>9, RowsFrom
<1>11. /\ \A k \in 1..n : g.selected[k] = (old[k] \in S)
       /\ S \subseteq {old[k] : k \in 1..n}
       /\ c = IF g.cursor = 0 THEN 0 ELSE old[g.cursor]
  BY <1>1, <1>2, ShowsIs
<1>12. g.selected \in [1..n -> BOOLEAN] /\ g.cursor \in 0..n /\ Len(g.selected) = n
  <2>1. g.selected \in [1..n -> BOOLEAN] /\ g.cursor \in 0..n
    BY <1>1, <1>2 DEF GtkFor
  <2>2. Len(g.selected) = n
    BY <2>1, SeqDef
  <2> QED BY <2>1, <2>2
<1>13. h = [selected |-> [j \in 1..(n - 1) |-> g.selected[up(j)]],
            cursor |-> IF g.cursor = i THEN 0 ELSE IF g.cursor > i THEN g.cursor - 1 ELSE g.cursor]
  BY <1>12, Zenon DEF RowDeleted, AfterRemoval
<1>14. /\ h.selected = [j \in 1..(n - 1) |-> g.selected[up(j)]]
       /\ h.cursor = IF g.cursor = i THEN 0 ELSE IF g.cursor > i THEN g.cursor - 1 ELSE g.cursor
       /\ h \in [selected : {h.selected}, cursor : {h.cursor}]
  BY <1>13
<1> HIDE DEF h
<1>15. h.selected \in [1..(n - 1) -> BOOLEAN] /\ h.cursor \in 0..(n - 1)
  <2>1. \A j \in 1..(n - 1) : g.selected[up(j)] \in BOOLEAN
    BY <1>5, <1>12
  <2>2. h.cursor \in 0..(n - 1)
    BY <1>3, <1>12, <1>14
  <2> HIDE DEF up
  <2> QED BY <1>14, <2>1, <2>2, Zenon
<1>16. GtkFor(h, n - 1)
  BY <1>14, <1>15 DEF GtkFor
<1>17. ASSUME NEW j \in 1..(n - 1) PROVE h.selected[j] = (new[j] \in T)
  <2> HIDE DEF up
  <2>1. h.selected[j] = g.selected[up(j)] /\ g.selected[up(j)] = (old[up(j)] \in S)
    BY <1>5, <1>11, <1>14, Zenon
  <2>2. new[j] = old[up(j)] /\ new[j] # x
    BY <1>8
  <2>3. (new[j] \in T) = (new[j] \in S)
    BY <2>2
  <2> QED BY <2>1, <2>2, <2>3, Zenon
<1>18. \A k \in 1..n : k # i => \E j \in 1..(n - 1) : k = up(j)
  <2>1. ASSUME NEW k \in 1..n, k # i PROVE \E j \in 1..(n - 1) : k = up(j)
    <3>1. CASE k < i
      <4>1. k \in 1..(n - 1) /\ k = up(k)
        BY <1>3, <3>1
      <4> QED BY <4>1
    <3>2. CASE k > i
      <4>1. k - 1 \in 1..(n - 1) /\ k = up(k - 1)
        BY <1>3, <3>2
      <4> QED BY <4>1
    <3> QED BY <2>1, <3>1, <3>2, <1>3
  <2> QED BY <2>1
<1>19. {new[j] : j \in 1..(n - 1)} = Items(l) \ {x}
  <2> HIDE DEF up
  <2>1. ASSUME NEW y \in {new[j] : j \in 1..(n - 1)} PROVE y \in Items(l) \ {x}
    <3>1. PICK j \in 1..(n - 1) : y = new[j]
      OBVIOUS
    <3>2. y # x /\ y = old[up(j)] /\ up(j) \in 1..n
      BY <1>5, <1>8, <3>1
    <3> QED BY <1>4, <3>2
  <2>2. ASSUME NEW y \in Items(l) \ {x} PROVE y \in {new[j] : j \in 1..(n - 1)}
    <3>1. PICK k \in 1..n : y = old[k]
      BY <1>4
    <3>2. k # i
      BY <3>1, <2>2
    <3>3. PICK j \in 1..(n - 1) : k = up(j)
      BY <1>18, <3>2
    <3> QED BY <1>8, <3>1, <3>3
  <2> QED BY <2>1, <2>2, Zenon
<1>20. T \subseteq {new[j] : j \in 1..(n - 1)}
  <2>1. S \subseteq Items(l)
    BY <1>4, <1>11
  <2> QED BY <1>19, <2>1
<1>21. d = IF h.cursor = 0 THEN 0 ELSE new[h.cursor]
  <2>1. CASE g.cursor = 0
    <3>1. h.cursor = 0 /\ c = 0
      BY <1>3, <1>11, <1>14, <2>1
    <3> QED BY <3>1
  <2>2. CASE g.cursor = i
    BY <1>3, <1>11, <1>14, <2>2
  <2>3. CASE g.cursor # 0 /\ g.cursor # i
    <3>1. g.cursor \in 1..n /\ h.cursor \in 1..(n - 1) /\ up(h.cursor) = g.cursor
      BY <1>3, <1>12, <1>14, <2>3
    <3> HIDE DEF up
    <3>2. c = old[g.cursor] /\ new[h.cursor] = c /\ new[h.cursor] # x
      BY <1>8, <1>11, <2>3, <3>1
    <3>3. h.cursor # 0
      BY <3>1, <1>3
    <3> QED BY <3>2, <3>3
  <2> QED BY <2>1, <2>2, <2>3
<1>22. Shows(new, h, T, d)
  <2> HIDE DEF T, d, up
  <2> QED BY <1>3, <1>7, <1>9, <1>16, <1>17, <1>20, <1>21, ShowsIs, Zenon
<1>23. w = [list |-> [l EXCEPT !.items = new], gtk |-> h]
  BY DEF Removed, new, h
<1> DEFINE m == w.list
<1>24. l \in [items : {l.items}, key : {l.key}, ascending : {l.ascending}, wink : {l.wink}, missed : {l.missed}]
  BY <1>1 DEF ListGood
<1>25. w.gtk = h /\ m = [l EXCEPT !.items = new]
  BY <1>23
<1> HIDE DEF w
<1>26. m.items = new /\ m.key = l.key /\ m.ascending = l.ascending /\ m.missed = l.missed
       /\ m \in [items : {m.items}, key : {m.key}, ascending : {m.ascending}, wink : {m.wink}, missed : {m.missed}]
  BY <1>24, <1>25
<1>27. ListGood(m)
  BY <1>1, <1>10, <1>26 DEF ListGood
<1>28. ViewGood(w, T, d)
  <2> HIDE DEF T, d
  <2> QED BY <1>7, <1>16, <1>22, <1>25, <1>26, <1>27 DEF ViewGood
<1>29. Items(m) = Items(l) \ {x}
  <2>1. Items(m) = {new[j] : j \in DOMAIN new}
    BY <1>26, Zenon DEF Items
  <2>2. DOMAIN new = 1..(n - 1)
    BY <1>7
  <2> QED BY <1>19, <2>1, <2>2, Zenon
<1>30. \A j \in 1..(i - 1) : new[j] = old[j]
  <2>1. \A j \in 1..(i - 1) : j \in 1..(n - 1) /\ up(j) = j
    BY <1>3
  <2> HIDE DEF up
  <2> QED BY <1>8, <2>1
<1> HIDE DEF m
<1>31. ViewGood(w, T, d) /\ Items(w.list) = Items(l) \ {x} /\ Len(w.list.items) = n - 1
       /\ (\A j \in 1..(i - 1) : w.list.items[j] = old[j]) /\ w.list.missed = l.missed
  BY <1>7, <1>26, <1>28, <1>29, <1>30 DEF m
<1> QED BY <1>2, <1>31 DEF RemovedView, w

(* The pass over all the rows. *)
PassStep(p, S) ==
    IF p.v.list.items[p.i] \in S THEN [v |-> Removed(p.v, p.i), i |-> p.i]
    ELSE [v |-> p.v, i |-> p.i + 1]
PassOf(v, S) ==
    LET n == Len(v.list.items)
        pass[k \in 0..n] ==
          IF k = 0 THEN [v |-> v, i |-> 1]
          ELSE LET p == pass[k - 1]
               IN IF p.v.list.items[p.i] \in S THEN [v |-> Removed(p.v, p.i), i |-> p.i]
                  ELSE [v |-> p.v, i |-> p.i + 1]
    IN pass
PassEach(v, S, pass) ==
    /\ pass[0] = [v |-> v, i |-> 1]
    /\ \A k \in 1..Len(v.list.items) : pass[k] = PassStep(pass[k - 1], S)

LEMMA Passes ==
    ASSUME NEW v, NEW S, Len(v.list.items) \in Nat
    PROVE  PassEach(v, S, PassOf(v, S))
<1> DEFINE n == Len(v.list.items)
           a == [v |-> v, i |-> 1]
           Upto(m, f) == f = [k \in 0..m |-> IF k = 0 THEN a ELSE PassStep(f[k - 1], S)]
           K == {m \in 0..n : \E f : Upto(m, f)}
<1>5. PassOf(v, S) = CHOOSE f : Upto(n, f)
  BY DEF PassOf, PassStep
<1> HIDE DEF a
<1>1. 0 \in K
  <2>1. Upto(0, [k \in 0..0 |-> a])
    OBVIOUS
  <2>2. 0 \in 0..n
    OBVIOUS
  <2> QED BY <2>1, <2>2
<1>2. ASSUME NEW m \in 0..n, m \in K, m < n PROVE m + 1 \in K
  <2>1. PICK f : Upto(m, f)
    BY <1>2
  <2> DEFINE e == [k \in 0..(m + 1) |-> IF k = m + 1 THEN PassStep(f[m], S) ELSE f[k]]
  <2>2. \A k \in 0..m : e[k] = f[k] /\ f[k] = IF k = 0 THEN a ELSE PassStep(f[k - 1], S)
    BY <2>1
  <2>3. e[m + 1] = PassStep(e[m], S)
    OBVIOUS
  <2>4. \A k \in 0..(m + 1) : e[k] = IF k = 0 THEN a ELSE PassStep(e[k - 1], S)
    <3> HIDE DEF e
    <3>1. ASSUME NEW k \in 0..(m + 1) PROVE e[k] = IF k = 0 THEN a ELSE PassStep(e[k - 1], S)
      <4>1. CASE k = m + 1
        BY <2>3, <4>1
      <4>2. CASE k = 0
        BY <2>2, <4>2
      <4>3. CASE k \in 1..m
        <5>1. k \in 0..m /\ k - 1 \in 0..m /\ k # 0
          BY <4>3
        <5> QED BY <2>2, <5>1
      <4> QED BY <4>1, <4>2, <4>3
    <3> QED BY <3>1
  <2>5. e = [k \in 0..(m + 1) |-> e[k]]
    OBVIOUS
  <2>6. Upto(m + 1, e)
    <3> HIDE DEF e
    <3> QED BY <2>4, <2>5
  <2>7. m + 1 \in 0..n
    BY <1>2
  <2> HIDE DEF e, Upto
  <2> QED BY <2>6, <2>7
<1>3. 0..n \subseteq K
  <2> HIDE DEF K
  <2> QED BY <1>1, <1>2, UpTo
<1>4. \E f : Upto(n, f)
  <2>1. n \in 0..n
    OBVIOUS
  <2>2. n \in K
    BY <1>3, <2>1, Zenon
  <2> QED BY <2>2
<1>6. Upto(n, PassOf(v, S))
  <2> HIDE DEF Upto
  <2> QED BY <1>4, <1>5
<1> DEFINE pass == PassOf(v, S)
<1>7. pass = [k \in 0..n |-> IF k = 0 THEN a ELSE PassStep(pass[k - 1], S)]
  BY <1>6
<1> HIDE DEF pass
<1>8. pass[0] = a /\ \A k \in 1..n : pass[k] = PassStep(pass[k - 1], S)
  <2>1. \A k \in 0..n : pass[k] = IF k = 0 THEN a ELSE PassStep(pass[k - 1], S)
    BY <1>7, Zenon
  <2>2. 0 \in 0..n /\ \A k \in 1..n : k \in 0..n /\ k # 0
    BY <1>1
  <2> QED BY <2>1, <2>2, Zenon
<1> QED BY <1>8 DEF PassEach, a, pass

(* After k rows: what is left shows what is left of the selection. *)
PassGood(v, S, C, c, p, k) ==
    /\ ViewGood(p.v, C \cap Items(p.v.list), IF c \in Items(p.v.list) THEN c ELSE 0)
    /\ p.i \in Nat \ {0} /\ Len(p.v.list.items) - (p.i - 1) = Len(v.list.items) - k
    /\ \A j \in 1..(p.i - 1) : p.v.list.items[j] \notin S
    /\ Items(v.list) \ S \subseteq Items(p.v.list) /\ Items(p.v.list) \subseteq Items(v.list)
    /\ p.v.list.missed = v.list.missed

LEMMA PassKeeps ==
    ASSUME NEW v, NEW S, NEW C, NEW c, NEW p, NEW k \in Nat, k < Len(v.list.items),
           Len(v.list.items) \in Nat, PassGood(v, S, C, c, p, k)
    PROVE  PassGood(v, S, C, c, PassStep(p, S), k + 1)
<1> DEFINE u == p.v
           i == p.i
           old == u.list.items
           I == Items(u.list)
           n == Len(v.list.items)
           q == PassStep(p, S)
           d == IF c \in I THEN c ELSE 0
<1>1. ViewGood(u, C \cap I, d) /\ i \in Nat \ {0} /\ Len(old) - (i - 1) = n - k
      /\ (\A j \in 1..(i - 1) : old[j] \notin S)
      /\ Items(v.list) \ S \subseteq I /\ I \subseteq Items(v.list) /\ u.list.missed = v.list.missed
  BY DEF PassGood
<1> HIDE DEF u, i
<1>2. RowsOf(old)
  BY <1>1 DEF ViewGood, ListGood
<1>3. Len(old) \in Nat /\ I = {old[j] : j \in 1..Len(old)} /\ I \subseteq Row
  BY <1>2, ItemsAre, RowsAre
<1>4. i \in 1..Len(old) /\ n - k \in Nat \ {0}
  <2> HIDE DEF old
  <2> QED BY <1>1, <1>3
<1>5. CASE old[i] \in S
  <2> DEFINE w == Removed(u, i)
             x == old[i]
  <2>1. q = [v |-> w, i |-> i]
    BY <1>5 DEF PassStep, u, i
  <2>2. RemovedView(u, w, i, C \cap I, d)
    BY <1>1, <1>4, Removes
  <2> HIDE DEF w, q
  <2>3. q.v = w /\ q.i = i
    BY <2>1
  <2>4. ViewGood(w, (C \cap I) \ {x}, IF d = x THEN 0 ELSE d) /\ Items(w.list) = I \ {x}
        /\ Len(w.list.items) = Len(old) - 1 /\ (\A j \in 1..(i - 1) : w.list.items[j] = old[j])
        /\ w.list.missed = u.list.missed
    BY <2>2 DEF RemovedView
  <2>5. (C \cap I) \ {x} = C \cap Items(w.list)
    BY <2>4
  <2>6. (IF d = x THEN 0 ELSE d) = IF c \in Items(w.list) THEN c ELSE 0
    <3>1. x \in I /\ x # 0
      BY <1>3, <1>4, DetailsAssumption
    <3> QED BY <2>4, <3>1
  <2>7. ViewGood(w, C \cap Items(w.list), IF c \in Items(w.list) THEN c ELSE 0)
    <3>1. \A A, B, a, b : A = B /\ a = b /\ ViewGood(w, A, a) => ViewGood(w, B, b)
      OBVIOUS
    <3> HIDE DEF d, I, x
    <3> QED BY <2>4, <2>5, <2>6, <3>1, Zenon
  <2>8. Len(w.list.items) - (i - 1) = n - (k + 1)
    <3> HIDE DEF old
    <3> QED BY <1>1, <1>3, <2>4
  <2>9. \A j \in 1..(i - 1) : w.list.items[j] \notin S
    BY <1>1, <2>4
  <2>10. Items(v.list) \ S \subseteq Items(w.list) /\ Items(w.list) \subseteq Items(v.list)
    BY <1>1, <1>5, <2>4
  <2> QED BY <1>1, <2>3, <2>4, <2>7, <2>8, <2>9, <2>10, Zenon DEF PassGood, q
<1>6. CASE old[i] \notin S
  <2>1. q = [v |-> u, i |-> i + 1]
    BY <1>6 DEF PassStep, u, i
  <2> HIDE DEF q
  <2>2. q.v = u /\ q.i = i + 1
    BY <2>1
  <2>3. i + 1 \in Nat \ {0} /\ (i + 1) - 1 = i /\ i \in Nat
    BY <1>1
  <2>4. Len(old) - ((i + 1) - 1) = n - (k + 1)
    <3>1. Len(old) - (i - 1) = n - k /\ Len(old) \in Nat /\ i \in Nat /\ n \in Nat /\ k \in Nat
      BY <1>1, <1>3
    <3>2. \A a, b, e, f \in Nat : a - (b - 1) = e - f => a - ((b + 1) - 1) = e - (f + 1)
      OBVIOUS
    <3> HIDE DEF old, n
    <3> QED BY <3>1, <3>2
  <2>5. \A j \in 1..((i + 1) - 1) : old[j] \notin S
    <3>1. \A j \in 1..((i + 1) - 1) : j \in 1..(i - 1) \/ j = i
      BY <1>1
    <3> QED BY <1>1, <1>6, <3>1
  <2> QED BY <1>1, <2>2, <2>3, <2>4, <2>5, Zenon DEF PassGood, q
<1> QED BY <1>5, <1>6

LEMMA Deletes ==
    ASSUME NEW v, NEW S \in SUBSET Row, NEW C, NEW c, ViewGood(v, C, c)
    PROVE  /\ ViewGood(DeleteRows(v, S), C \ S, IF c \in S THEN 0 ELSE c)
           /\ DeleteRows(v, S).list.missed = v.list.missed
<1> DEFINE n == Len(v.list.items)
           pass == PassOf(v, S)
           K == {k \in 0..n : PassGood(v, S, C, c, pass[k], k)}
<1>1. RowsOf(v.list.items)
  BY DEF ViewGood, ListGood
<1>2. n \in Nat /\ Items(v.list) \subseteq Row /\ Items(v.list) = {v.list.items[j] : j \in 1..n}
  BY <1>1, RowsAre, ItemsAre
<1>3. PassEach(v, S, pass)
  BY <1>2, Passes
<1>4. DeleteRows(v, S) = pass[n].v
  BY DEF DeleteRows, PassOf
<1>5. C \subseteq Items(v.list) /\ (c = 0 \/ c \in Items(v.list))
  <2>1. PICK m \in Nat : /\ m = n /\ DOMAIN v.list.items = 1..m /\ v.list.items \in [1..m -> Row]
                         /\ \A k, j \in 1..m : v.list.items[k] = v.list.items[j] => k = j
    BY <1>1, RowsAre
  <2>2. GtkFor(v.gtk, m) /\ Shows(v.list.items, v.gtk, C, c)
    BY <2>1 DEF ViewGood
  <2>3. C \subseteq {v.list.items[k] : k \in 1..m} /\ c = IF v.gtk.cursor = 0 THEN 0 ELSE v.list.items[v.gtk.cursor]
    BY <2>1, <2>2, ShowsIs
  <2>4. v.gtk.cursor \in 0..m
    BY <2>2 DEF GtkFor
  <2> QED BY <1>2, <2>1, <2>3, <2>4
<1> HIDE DEF pass
<1>6. 0 \in K
  <2>1. pass[0] = [v |-> v, i |-> 1]
    BY <1>3 DEF PassEach
  <2>2. pass[0].v = v /\ pass[0].i = 1
    BY <2>1
  <2>3. C \cap Items(v.list) = C /\ (IF c \in Items(v.list) THEN c ELSE 0) = c
    BY <1>5
  <2>4. ViewGood(v, C \cap Items(v.list), IF c \in Items(v.list) THEN c ELSE 0)
    <3>1. \A A, B, a, b : A = B /\ a = b /\ ViewGood(v, B, b) => ViewGood(v, A, a)
      OBVIOUS
    <3> QED BY <2>3, <3>1, Zenon
  <2>5. n - (1 - 1) = n - 0 /\ 1 \in Nat \ {0} /\ 0 \in 0..n /\ 1..(1 - 1) = {}
    <3> HIDE DEF n
    <3> QED BY <1>2
  <2>6. Items(v.list) \ S \subseteq Items(v.list)
    OBVIOUS
  <2>7. PassGood(v, S, C, c, pass[0], 0)
    BY <2>2, <2>4, <2>5, <2>6 DEF PassGood
  <2> QED BY <2>5, <2>7
<1>7. ASSUME NEW k \in 0..n, k \in K, k < n PROVE k + 1 \in K
  <2>1. PassGood(v, S, C, c, pass[k], k)
    BY <1>7
  <2>2. k \in Nat /\ k + 1 \in 1..n /\ (k + 1) - 1 = k /\ k + 1 \in 0..n
    <3> HIDE DEF n
    <3> QED BY <1>2, <1>7
  <2>3. pass[k + 1] = PassStep(pass[k], S)
    BY <1>3, <2>2 DEF PassEach
  <2>4. PassGood(v, S, C, c, pass[k + 1], k + 1)
    BY <1>2, <1>7, <2>1, <2>2, <2>3, PassKeeps
  <2> QED BY <2>2, <2>4
<1>8. 0..n \subseteq K
  <2> HIDE DEF K
  <2> QED BY <1>2, <1>6, <1>7, UpTo
<1>9. PassGood(v, S, C, c, pass[n], n)
  BY <1>2, <1>8
<1> DEFINE w == pass[n].v
           I == Items(w.list)
<1>10. ViewGood(w, C \cap I, IF c \in I THEN c ELSE 0)
       /\ pass[n].i \in Nat \ {0} /\ Len(w.list.items) - (pass[n].i - 1) = n - n
       /\ (\A j \in 1..(pass[n].i - 1) : w.list.items[j] \notin S)
       /\ Items(v.list) \ S \subseteq I /\ I \subseteq Items(v.list) /\ w.list.missed = v.list.missed
  BY <1>9 DEF PassGood
<1> HIDE DEF w
<1>11. Len(w.list.items) \in Nat /\ I = {w.list.items[j] : j \in 1..Len(w.list.items)}
  <2>1. RowsOf(w.list.items)
    BY <1>10 DEF ViewGood, ListGood
  <2> QED BY <2>1, RowsAre, ItemsAre
<1>12. Len(w.list.items) = pass[n].i - 1
  <2>1. Len(w.list.items) - (pass[n].i - 1) = n - n /\ Len(w.list.items) \in Nat /\ pass[n].i \in Nat /\ n \in Nat
    BY <1>2, <1>10, <1>11
  <2>2. \A a, b, e \in Nat : a - (b - 1) = e - e => a = b - 1
    OBVIOUS
  <2> HIDE DEF n, I
  <2> QED BY <2>1, <2>2
<1>13. I = Items(v.list) \ S
  <2>1. \A x \in I : x \notin S
    BY <1>10, <1>11, <1>12
  <2> HIDE DEF I
  <2> QED BY <1>10, <2>1
<1>14. C \cap I = C \ S /\ (IF c \in I THEN c ELSE 0) = (IF c \in S THEN 0 ELSE c)
  <2> HIDE DEF I
  <2> QED BY <1>5, <1>13
<1>15. ViewGood(w, C \ S, IF c \in S THEN 0 ELSE c)
  <2>1. \A A, B, a, b : A = B /\ a = b /\ ViewGood(w, A, a) => ViewGood(w, B, b)
    OBVIOUS
  <2> HIDE DEF I
  <2> QED BY <1>10, <1>14, <2>1, Zenon
<1> QED BY <1>4, <1>10, <1>15, Zenon DEF w

(* All are announced as gone, from the last to the first. *)
GoneOf(v) ==
    LET n == Len(v.list.items)
        gone[k \in 0..n] == IF k = 0 THEN v.gtk ELSE RowDeleted(gone[k - 1], n - k + 1)
    IN gone
GoneEach(v, gone) ==
    /\ gone[0] = v.gtk
    /\ \A k \in 1..Len(v.list.items) : gone[k] = RowDeleted(gone[k - 1], Len(v.list.items) - k + 1)

LEMMA Goes ==
    ASSUME NEW v, Len(v.list.items) \in Nat
    PROVE  GoneEach(v, GoneOf(v))
<1> DEFINE n == Len(v.list.items)
           a == v.gtk
           Step(b, k) == RowDeleted(b, n - k + 1)
           Upto(m, f) == f = [k \in 0..m |-> IF k = 0 THEN a ELSE Step(f[k - 1], k)]
           K == {m \in 0..n : \E f : Upto(m, f)}
<1>1. GoneOf(v) = CHOOSE f : Upto(n, f)
  BY DEF GoneOf
<1>2. 0 \in K
  <2>1. Upto(0, [k \in 0..0 |-> a])
    OBVIOUS
  <2>2. 0 \in 0..n
    OBVIOUS
  <2> QED BY <2>1, <2>2
<1>3. ASSUME NEW m \in 0..n, m \in K, m < n PROVE m + 1 \in K
  <2>1. PICK f : Upto(m, f)
    BY <1>3
  <2> HIDE DEF Step
  <2> DEFINE e == [k \in 0..(m + 1) |-> IF k = m + 1 THEN Step(f[m], m + 1) ELSE f[k]]
  <2>2. \A k \in 0..m : e[k] = f[k] /\ f[k] = IF k = 0 THEN a ELSE Step(f[k - 1], k)
    BY <2>1
  <2>3. e[m + 1] = Step(e[m], m + 1)
    OBVIOUS
  <2>4. \A k \in 0..(m + 1) : e[k] = IF k = 0 THEN a ELSE Step(e[k - 1], k)
    <3> HIDE DEF e
    <3>1. ASSUME NEW k \in 0..(m + 1) PROVE e[k] = IF k = 0 THEN a ELSE Step(e[k - 1], k)
      <4>1. CASE k = m + 1
        BY <2>3, <4>1
      <4>2. CASE k = 0
        BY <2>2, <4>2
      <4>3. CASE k \in 1..m
        <5>1. k \in 0..m /\ k - 1 \in 0..m /\ k # 0
          BY <4>3
        <5> QED BY <2>2, <5>1
      <4> QED BY <4>1, <4>2, <4>3
    <3> QED BY <3>1
  <2>5. e = [k \in 0..(m + 1) |-> e[k]]
    OBVIOUS
  <2>6. Upto(m + 1, e)
    <3> HIDE DEF e
    <3> QED BY <2>4, <2>5
  <2>7. m + 1 \in 0..n
    BY <1>3
  <2> HIDE DEF e, Upto
  <2> QED BY <2>6, <2>7
<1>4. 0..n \subseteq K
  <2> HIDE DEF K
  <2> QED BY <1>2, <1>3, UpTo
<1>5. \E f : Upto(n, f)
  <2>1. n \in 0..n
    OBVIOUS
  <2>2. n \in K
    BY <1>4, <2>1, Zenon
  <2> QED BY <2>2
<1> DEFINE gone == GoneOf(v)
<1>6. Upto(n, gone)
  <2> HIDE DEF Upto
  <2> QED BY <1>1, <1>5
<1> HIDE DEF gone, Step
<1>7. gone[0] = a /\ \A k \in 1..n : gone[k] = Step(gone[k - 1], k)
  BY <1>6
<1> QED BY <1>7 DEF GoneEach, gone, Step

LEMMA Clears ==
    ASSUME NEW v, NEW C, NEW c, ViewGood(v, C, c)
    PROVE  ViewGood(ClearRows(v), {}, 0) /\ ClearRows(v).list.missed = v.list.missed
<1> DEFINE n == Len(v.list.items)
           gone == GoneOf(v)
           K == {k \in 0..n : GtkFor(gone[k], n - k)}
           l == v.list
           w == ClearRows(v)
<1>1. RowsOf(v.list.items)
  BY DEF ViewGood, ListGood
<1>2. n \in Nat
  BY <1>1, RowsAre
<1>3. GoneEach(v, gone)
  BY <1>2, Goes
<1>4. w = [list |-> [l EXCEPT !.items = << >>], gtk |-> gone[n]]
  BY DEF ClearRows, GoneOf
<1> HIDE DEF gone, n
<1>5. 0 \in K
  <2>1. gone[0] = v.gtk
    BY <1>3 DEF GoneEach
  <2>2. GtkFor(v.gtk, n)
    BY DEF ViewGood, n
  <2>3. n - 0 = n /\ 0 \in 0..n
    BY <1>2
  <2> QED BY <2>1, <2>2, <2>3
<1>6. ASSUME NEW k \in 0..n, k \in K, k < n PROVE k + 1 \in K
  <2> DEFINE r == n - k
             g == gone[k]
             h == gone[k + 1]
  <2>1. r \in Nat \ {0} /\ n - (k + 1) + 1 = r /\ n - (k + 1) = r - 1 /\ k + 1 \in 1..n /\ (k + 1) - 1 = k
    BY <1>2, <1>6
  <2>2. GtkFor(g, r)
    BY <1>6
  <2>3. h = RowDeleted(g, r)
    <3>1. h = RowDeleted(gone[(k + 1) - 1], n - (k + 1) + 1)
      BY <1>3, <2>1, Zenon DEF GoneEach, n
    <3> HIDE DEF r
    <3> QED BY <2>1, <3>1
  <2> HIDE DEF r, g, h
  <2>4. g.selected \in [1..r -> BOOLEAN] /\ g.cursor \in 0..r /\ Len(g.selected) = r
    <3>1. g.selected \in [1..r -> BOOLEAN] /\ g.cursor \in 0..r
      BY <2>2 DEF GtkFor
    <3> QED BY <2>1, <3>1, SeqDef
  <2>5. h = [selected |-> [j \in 1..(r - 1) |-> g.selected[IF j < r THEN j ELSE j + 1]],
             cursor |-> IF g.cursor = r THEN 0 ELSE IF g.cursor > r THEN g.cursor - 1 ELSE g.cursor]
    BY <2>3, <2>4, Zenon DEF RowDeleted, AfterRemoval
  <2>6. h \in [selected : {h.selected}, cursor : {h.cursor}]
        /\ h.selected = [j \in 1..(r - 1) |-> g.selected[IF j < r THEN j ELSE j + 1]]
        /\ h.cursor = IF g.cursor = r THEN 0 ELSE IF g.cursor > r THEN g.cursor - 1 ELSE g.cursor
    BY <2>5
  <2>7. h.cursor \in 0..(r - 1)
    BY <2>1, <2>4, <2>6
  <2>8. \A j \in 1..(r - 1) : g.selected[IF j < r THEN j ELSE j + 1] \in BOOLEAN
    BY <2>1, <2>4
  <2>9. h.selected \in [1..(r - 1) -> BOOLEAN]
    BY <2>6, <2>8, Zenon
  <2>10. GtkFor(h, r - 1)
    BY <2>6, <2>7, <2>9, Zenon DEF GtkFor
  <2>11. k + 1 \in 0..n
    BY <2>1
  <2> QED BY <2>1, <2>10, <2>11 DEF h
<1>7. 0..n \subseteq K
  <2> HIDE DEF K
  <2> QED BY <1>2, <1>5, <1>6, UpTo
<1>8. GtkFor(gone[n], 0)
  <2>1. n \in 0..n /\ n - n = 0
    BY <1>2
  <2>2. n \in K
    BY <1>7, <2>1, Zenon
  <2> QED BY <2>1, <2>2
<1>9. w.gtk = gone[n] /\ w.list = [l EXCEPT !.items = << >>]
  BY <1>4
<1> DEFINE m == w.list
<1> HIDE DEF w
<1>10. l \in [items : {l.items}, key : {l.key}, ascending : {l.ascending}, wink : {l.wink}, missed : {l.missed}]
  BY DEF ViewGood, ListGood
<1>11. m.items = << >> /\ m.key = l.key /\ m.ascending = l.ascending /\ m.missed = l.missed
       /\ m \in [items : {m.items}, key : {m.key}, ascending : {m.ascending}, wink : {m.wink}, missed : {m.missed}]
  BY <1>9, <1>10
<1>12. RowsOf(<< >>) /\ Len(<< >>) = 0
  BY DEF RowsOf
<1>13. ListGood(m)
  BY <1>11, <1>12 DEF ViewGood, ListGood
<1>14. Shows(<< >>, gone[n], {}, 0)
  <2>1. gone[n].cursor = 0
    BY <1>8 DEF GtkFor
  <2>2. 1..0 = {}
    OBVIOUS
  <2> QED BY <1>12, <2>1, <2>2 DEF Shows
<1> QED BY <1>8, <1>9, <1>11, <1>12, <1>13, <1>14 DEF ViewGood, w, m

--------------------
(* In an array that is in order, the search finds every item. *)
Half(p) == (p[1] + p[2]) \div 2
Spans(l) == (1..(Len(l.items) + 1)) \X (1..(Len(l.items) + 1))
SearchStep(l, x, p, f) ==
    IF p[1] >= p[2] THEN 0
    ELSE IF l.items[Half(p)] = x THEN Half(p)
    ELSE IF SortsBefore(l, x, l.items[Half(p)]) THEN f[<<p[1], Half(p)>>] ELSE f[<<Half(p) + 1, p[2]>>]
SearchOf(l, x) ==
    LET search[p \in (1..(Len(l.items) + 1)) \X (1..(Len(l.items) + 1))] ==
          LET i == (p[1] + p[2]) \div 2
          IN IF p[1] >= p[2] THEN 0
             ELSE IF l.items[i] = x THEN i
             ELSE IF SortsBefore(l, x, l.items[i]) THEN search[<<p[1], i>>] ELSE search[<<i + 1, p[2]>>]
    IN search

LEMMA Halves ==
    ASSUME NEW n \in Nat, NEW p \in (1..n) \X (1..n), p[1] < p[2]
    PROVE  /\ Half(p) \in Int /\ p[1] <= Half(p) /\ Half(p) < p[2]
           /\ Half(p) \in 1..n /\ <<p[1], Half(p)>> \in (1..n) \X (1..n)
           /\ <<Half(p) + 1, p[2]>> \in (1..n) \X (1..n)
<1>1. p[1] \in 1..n /\ p[2] \in 1..n
  OBVIOUS
<1>2. \A a, b \in Nat : a < b => (a + b) \div 2 \in Int /\ a <= (a + b) \div 2 /\ (a + b) \div 2 < b
  OBVIOUS
<1>3. Half(p) \in Int /\ p[1] <= Half(p) /\ Half(p) < p[2]
  BY <1>1, <1>2 DEF Half
<1> QED BY <1>1, <1>3

LEMMA Searches ==
    ASSUME NEW l, NEW x, Len(l.items) \in Nat
    PROVE  \A p \in Spans(l) : SearchOf(l, x)[p] = SearchStep(l, x, p, SearchOf(l, x))
<1> DEFINE n == Len(l.items)
           P == Spans(l)
           Step(p, f) == SearchStep(l, x, p, f)
           Upto(m, f) == DOMAIN f = P /\ \A p \in P : p[2] - p[1] <= m => f[p] = Step(p, f)
           K == {m \in 0..n : \E f : Upto(m, f)}
           Whole(f) == f = [p \in P |-> Step(p, f)]
<1>1. P = (1..(n + 1)) \X (1..(n + 1)) /\ n + 1 \in Nat
  BY DEF Spans
<1>2. SearchOf(l, x) = CHOOSE f : Whole(f)
  BY DEF SearchOf, Spans, SearchStep, Half
<1>3. ASSUME NEW p \in P, NEW f, NEW g,
             p[1] < p[2] => \A q \in P : q[2] - q[1] < p[2] - p[1] => f[q] = g[q]
      PROVE  Step(p, f) = Step(p, g)
  <2>1. CASE p[1] >= p[2]
    BY <2>1 DEF SearchStep
  <2>2. CASE ~(p[1] >= p[2])
    <3>1. p[1] \in 1..(n + 1) /\ p[2] \in 1..(n + 1)
      BY <1>1
    <3>2. p[1] < p[2]
      BY <2>2, <3>1
    <3> DEFINE h == Half(p)
               a == <<p[1], h>>
               b == <<h + 1, p[2]>>
    <3>3. h \in Int /\ p[1] <= h /\ h < p[2] /\ a \in P /\ b \in P
      BY <1>1, <3>2, Halves
    <3>4. a[1] = p[1] /\ a[2] = h /\ b[1] = h + 1 /\ b[2] = p[2]
      OBVIOUS
    <3> HIDE DEF a, b, h, P
    <3>5. a[2] - a[1] < p[2] - p[1] /\ b[2] - b[1] < p[2] - p[1]
      BY <3>1, <3>3, <3>4
    <3>6. f[a] = g[a] /\ f[b] = g[b]
      BY <1>3, <3>2, <3>3, <3>5
    <3> QED BY <2>2, <3>6, Zenon DEF SearchStep, a, b, h
  <2> QED BY <2>1, <2>2
<1>4. \A p \in P : p[1] \in Int /\ p[2] \in Int /\ p[2] - p[1] <= n
  BY <1>1
<1> HIDE DEF Step, P
<1>5. 0 \in K
  <2> DEFINE z == [p \in P |-> 0]
             e == [p \in P |-> Step(p, z)]
  <2>1. ASSUME NEW p \in P, p[2] - p[1] <= 0 PROVE e[p] = Step(p, e)
    <3>1. ~(p[1] < p[2])
      BY <1>4, <2>1
    <3>2. Step(p, z) = Step(p, e)
      <4> HIDE DEF z, e
      <4> QED BY <1>3, <3>1
    <3>3. e[p] = Step(p, z)
      BY Zenon
    <3> QED BY <3>2, <3>3
  <2>2. DOMAIN e = P
    BY Zenon
  <2>3. Upto(0, e)
    <3> HIDE DEF e
    <3> QED BY <2>1, <2>2
  <2>4. 0 \in 0..n
    OBVIOUS
  <2> HIDE DEF e, Upto
  <2> QED BY <2>3, <2>4
<1>6. ASSUME NEW m \in 0..n, m \in K, m < n PROVE m + 1 \in K
  <2>1. PICK f : Upto(m, f)
    BY <1>6
  <2> DEFINE e == [p \in P |-> Step(p, f)]
  <2>2. DOMAIN e = P /\ \A p \in P : e[p] = Step(p, f)
    BY Zenon
  <2> HIDE DEF e
  <2>3. ASSUME NEW p \in P, p[2] - p[1] <= m + 1 PROVE e[p] = Step(p, e)
    <3>1. ASSUME NEW q \in P, q[2] - q[1] < p[2] - p[1] PROVE f[q] = e[q]
      <4>1. q[2] - q[1] <= m
        BY <1>4, <2>3, <3>1
      <4>2. f[q] = Step(q, f)
        BY <2>1, <4>1
      <4> QED BY <2>2, <4>2
    <3>2. Step(p, f) = Step(p, e)
      BY <1>3, <3>1
    <3> QED BY <2>2, <3>2
  <2>4. Upto(m + 1, e)
    BY <2>2, <2>3
  <2>5. m + 1 \in 0..n
    BY <1>6
  <2> HIDE DEF Upto
  <2> QED BY <2>4, <2>5
<1>7. 0..n \subseteq K
  <2> HIDE DEF K
  <2> QED BY <1>5, <1>6, UpTo
<1>8. \E f : Whole(f)
  <2>1. n \in 0..n
    OBVIOUS
  <2>2. n \in K
    BY <1>7, <2>1, Zenon
  <2>3. PICK f : Upto(n, f)
    BY <2>2
  <2> DEFINE e == [p \in P |-> Step(p, f)]
  <2>4. DOMAIN e = P /\ \A p \in P : e[p] = Step(p, f)
    BY Zenon
  <2>5. \A p \in P : f[p] = Step(p, f)
    BY <1>4, <2>3
  <2>6. \A p \in P : e[p] = f[p]
    BY <2>4, <2>5, Zenon
  <2>7. \A p \in P : e[p] = Step(p, e)
    <3> HIDE DEF e
    <3>1. ASSUME NEW p \in P PROVE e[p] = Step(p, e)
      <4>1. Step(p, f) = Step(p, e)
        BY <1>3, <2>6
      <4> QED BY <2>4, <4>1
    <3> QED BY <3>1
  <2>8. e = [p \in P |-> e[p]]
    OBVIOUS
  <2>9. Whole(e)
    <3> HIDE DEF e
    <3> QED BY <2>7, <2>8
  <2> HIDE DEF e, Whole
  <2> QED BY <2>9
<1> DEFINE s == SearchOf(l, x)
<1>9. Whole(s)
  <2> HIDE DEF Whole
  <2> QED BY <1>2, <1>8
<1> HIDE DEF s
<1>10. \A p \in P : s[p] = Step(p, s)
  BY <1>9
<1> QED BY <1>10 DEF s, P, Step

LEMMA Finds ==
    ASSUME NEW l, ListGood(l), InOrder(l), NEW x \in Items(l)
    PROVE  FindItem(l, x) # 0
<1> DEFINE n == Len(l.items)
           s == SearchOf(l, x)
           P == Spans(l)
<1>1. RowsOf(l.items)
  BY DEF ListGood
<1>2. /\ n \in Nat /\ n + 1 \in Nat /\ l.items \in [1..n -> Row]
      /\ \A i, j \in 1..n : l.items[i] = l.items[j] => i = j
      /\ Items(l) = {l.items[i] : i \in 1..n}
  BY <1>1, RowsAre, ItemsAre
<1>3. P = (1..(n + 1)) \X (1..(n + 1))
  BY DEF Spans
<1>4. \A p \in P : s[p] = SearchStep(l, x, p, s)
  BY <1>2, Searches, Zenon
<1>5. FindItem(l, x) = s[<<1, n + 1>>]
  BY DEF FindItem, SearchOf
<1>6. PICK t \in 1..n : x = l.items[t]
  BY <1>2
<1>7. \A i, j \in 1..n : i < j => SortsBefore(l, l.items[i], l.items[j])
  BY DEF InOrder
<1> HIDE DEF s, P, n
<1> DEFINE Holds(p) == p[1] <= t /\ t < p[2]
           K == {m \in 0..n : \A p \in P : p[2] - p[1] <= m /\ Holds(p) => s[p] # 0}
<1>8. \A p \in P : p[1] \in 1..(n + 1) /\ p[2] \in 1..(n + 1)
  BY <1>3
<1>9. 0 \in K
  <2>1. \A p \in P : p[2] - p[1] <= 0 => ~Holds(p)
    BY <1>2, <1>8
  <2>2. 0 \in 0..n
    BY <1>2
  <2> QED BY <2>1, <2>2
<1>10. ASSUME NEW m \in 0..n, m \in K, m < n PROVE m + 1 \in K
  <2>1. ASSUME NEW p \in P, p[2] - p[1] <= m + 1, Holds(p) PROVE s[p] # 0
    <3> DEFINE h == Half(p)
               a == <<p[1], h>>
               b == <<h + 1, p[2]>>
               y == l.items[h]
    <3>1. p[1] \in 1..(n + 1) /\ p[2] \in 1..(n + 1) /\ p[1] <= t /\ t < p[2] /\ p[1] < p[2]
      BY <1>2, <1>8, <2>1
    <3>2. h \in Int /\ p[1] <= h /\ h < p[2] /\ a \in P /\ b \in P
      BY <1>2, <1>3, <3>1, Halves
    <3>3. a[1] = p[1] /\ a[2] = h /\ b[1] = h + 1 /\ b[2] = p[2]
      OBVIOUS
    <3>4. s[p] = IF y = x THEN h ELSE IF SortsBefore(l, x, y) THEN s[a] ELSE s[b]
      <4>1. ~(p[1] >= p[2])
        BY <1>2, <3>1
      <4> QED BY <1>4, <4>1, Zenon DEF SearchStep
    <3> HIDE DEF a, b, h
    <3>5. h \in 1..n
      BY <1>2, <3>1, <3>2
    <3>6. y \in Row /\ x \in Row
      BY <1>2, <1>6, <3>5
    <3>7. CASE h = t
      BY <1>6, <3>4, <3>5, <3>7
    <3>8. CASE h > t
      <4>1. SortsBefore(l, x, y)
        BY <1>6, <1>7, <3>5, <3>8
      <4>2. y # x
        BY <4>1 DEF SortsBefore
      <4>3. a[2] - a[1] <= m /\ Holds(a)
        BY <1>2, <2>1, <3>1, <3>2, <3>3, <3>8
      <4>4. s[a] # 0
        BY <1>10, <3>2, <4>3
      <4> QED BY <3>4, <4>1, <4>2, <4>4
    <3>9. CASE h < t
      <4>1. SortsBefore(l, y, x)
        BY <1>6, <1>7, <3>5, <3>9
      <4>2. y # x /\ ~SortsBefore(l, x, y)
        BY <3>6, <4>1, SortsOrder
      <4>3. b[2] - b[1] <= m /\ Holds(b)
        BY <1>2, <2>1, <3>1, <3>2, <3>3, <3>9
      <4>4. s[b] # 0
        BY <1>10, <3>2, <4>3
      <4> QED BY <3>4, <4>2, <4>4
    <3> QED BY <1>2, <3>2, <3>7, <3>8, <3>9
  <2>2. m + 1 \in 0..n
    BY <1>2, <1>10
  <2> HIDE DEF Holds
  <2> QED BY <2>1, <2>2
<1>11. 0..n \subseteq K
  <2> HIDE DEF K
  <2> QED BY <1>2, <1>9, <1>10, UpTo
<1>12. n \in K
  <2>1. n \in 0..n
    BY <1>2
  <2> QED BY <1>11, <2>1, Zenon
<1> DEFINE p == <<1, n + 1>>
<1>13. p \in P /\ p[2] - p[1] <= n /\ p[1] <= t /\ t < p[2]
  BY <1>2, <1>3
<1> HIDE DEF p
<1>14. s[p] # 0
  BY <1>12, <1>13
<1> QED BY <1>5, <1>14 DEF n, p

LEMMA Updates ==
    ASSUME NEW v, NEW S, NEW c, ViewGood(v, S, c), NEW T
    PROVE  ViewGood(UpdateRows(v, T), S, c) /\ UpdateRows(v, T).list.missed = {}
<1> DEFINE w == Resort(v)
           m == w.list
           u == UpdateRows(v, T)
           z == {x \in T \cap Items(m) : FindItem(m, x) = 0}
<1>1. SortedView(v, w, S, c)
  BY Resorts
<1> HIDE DEF w
<1>2. ViewGood(w, S, c) /\ InOrder(m) /\ w = [list |-> m, gtk |-> w.gtk]
  BY <1>1 DEF SortedView
<1>3. ListGood(m) /\ GtkFor(w.gtk, Len(m.items)) /\ Shows(m.items, w.gtk, S, c)
  BY <1>2 DEF ViewGood
<1>4. z = {}
  BY <1>2, <1>3, Finds
<1>5. u = [w EXCEPT !.list.missed = z]
  BY DEF UpdateRows, w
<1>6. u.list = [m EXCEPT !.missed = z] /\ u.gtk = w.gtk
  <2> HIDE DEF m, u, z
  <2>1. w = [list |-> m, gtk |-> w.gtk]
    BY <1>2
  <2>2. w.list = m
    BY DEF m
  <2> QED BY <1>5, <2>1, <2>2
<1> HIDE DEF u, m, z
<1> DEFINE r == u.list
<1>7. m \in [items : {m.items}, key : {m.key}, ascending : {m.ascending}, wink : {m.wink}, missed : {m.missed}]
  BY <1>3 DEF ListGood
<1>8. r.items = m.items /\ r.key = m.key /\ r.ascending = m.ascending /\ r.missed = z
      /\ r \in [items : {r.items}, key : {r.key}, ascending : {r.ascending}, wink : {r.wink}, missed : {r.missed}]
  BY <1>6, <1>7
<1>9. ListGood(r)
  BY <1>3, <1>8 DEF ListGood
<1>10. ViewGood(u, S, c)
  BY <1>3, <1>6, <1>8, <1>9 DEF ViewGood
<1> QED BY <1>4, <1>8, <1>10 DEF u

--------------------
(* The iterator.  The positions in turn, from any start and either way: *)
(* each is met once. *)
TurnOf(n, s, flags) ==
    LET at[k \in 1..n] == IF k = 1 THEN s ELSE IterStep(n, at[k - 1], flags) IN at
TurnEach(n, s, flags, at) ==
    /\ n > 0 => at[1] = s
    /\ \A k \in 2..n : at[k] = IterStep(n, at[k - 1], flags)

LEMMA Turns ==
    ASSUME NEW n \in Nat, NEW s, NEW flags
    PROVE  TurnEach(n, s, flags, TurnOf(n, s, flags))
<1> DEFINE Step(b) == IterStep(n, b, flags)
           Upto(m, f) == f = [k \in 1..m |-> IF k = 1 THEN s ELSE Step(f[k - 1])]
           K == {m \in 0..n : \E f : Upto(m, f)}
<1>1. TurnOf(n, s, flags) = CHOOSE f : Upto(n, f)
  BY DEF TurnOf
<1>2. 0 \in K
  <2>1. Upto(0, [k \in 1..0 |-> s])
    OBVIOUS
  <2>2. 0 \in 0..n
    OBVIOUS
  <2> QED BY <2>1, <2>2
<1>3. ASSUME NEW m \in 0..n, m \in K, m < n PROVE m + 1 \in K
  <2>1. PICK f : Upto(m, f)
    BY <1>3
  <2> HIDE DEF Step
  <2> DEFINE e == [k \in 1..(m + 1) |-> IF k = 1 THEN s ELSE IF k = m + 1 THEN Step(f[m]) ELSE f[k]]
  <2>2. \A k \in 1..m : e[k] = f[k] /\ f[k] = IF k = 1 THEN s ELSE Step(f[k - 1])
    BY <2>1
  <2>3. e[1] = s /\ (m > 0 => e[m + 1] = Step(e[m]))
    <3>1. e[1] = s
      OBVIOUS
    <3>2. ASSUME m > 0 PROVE e[m + 1] = Step(e[m])
      <4>1. m \in 1..m /\ m + 1 \in 1..(m + 1) /\ m + 1 # 1
        BY <3>2
      <4>2. e[m + 1] = Step(f[m])
        BY <4>1
      <4> QED BY <2>2, <4>1, <4>2
    <3> QED BY <3>1, <3>2
  <2>4. \A k \in 1..(m + 1) : e[k] = IF k = 1 THEN s ELSE Step(e[k - 1])
    <3> HIDE DEF e
    <3>1. ASSUME NEW k \in 1..(m + 1) PROVE e[k] = IF k = 1 THEN s ELSE Step(e[k - 1])
      <4>1. CASE k = 1
        BY <2>3, <4>1
      <4>2. CASE k = m + 1 /\ k # 1
        <5>1. m > 0 /\ k - 1 = m
          BY <4>2
        <5> QED BY <2>3, <4>2, <5>1
      <4>3. CASE k \in 2..m
        <5>1. k \in 1..m /\ k - 1 \in 1..m /\ k # 1
          BY <4>3
        <5> QED BY <2>2, <5>1
      <4> QED BY <4>1, <4>2, <4>3
    <3> QED BY <3>1
  <2>5. e = [k \in 1..(m + 1) |-> e[k]]
    OBVIOUS
  <2>6. Upto(m + 1, e)
    <3> HIDE DEF e
    <3> QED BY <2>4, <2>5
  <2>7. m + 1 \in 0..n
    BY <1>3
  <2> HIDE DEF e, Upto
  <2> QED BY <2>6, <2>7
<1>4. 0..n \subseteq K
  <2> HIDE DEF K
  <2> QED BY <1>2, <1>3, UpTo
<1>5. \E f : Upto(n, f)
  <2>1. n \in 0..n
    OBVIOUS
  <2>2. n \in K
    BY <1>4, <2>1, Zenon
  <2> QED BY <2>2
<1> DEFINE at == TurnOf(n, s, flags)
<1>6. Upto(n, at)
  <2> HIDE DEF Upto
  <2> QED BY <1>1, <1>5
<1> HIDE DEF at, Step
<1>7. (n > 0 => at[1] = s) /\ \A k \in 2..n : at[k] = Step(at[k - 1])
  <2>1. \A k \in 1..n : at[k] = IF k = 1 THEN s ELSE Step(at[k - 1])
    BY <1>6
  <2>2. \A k \in 2..n : k \in 1..n /\ k # 1
    OBVIOUS
  <2> QED BY <2>1, <2>2
<1> QED BY <1>7 DEF TurnEach, at, Step

TurnMeetsAll(n, at) ==
    /\ \A k \in 1..n : at[k] \in 1..n
    /\ \A k, j \in 1..n : at[k] = at[j] => k = j
    /\ \A i \in 1..n : \E k \in 1..n : at[k] = i

LEMMA TurnMeets ==
    ASSUME NEW n \in Nat \ {0}, NEW s \in 1..n, NEW flags
    PROVE  TurnMeetsAll(n, TurnOf(n, s, flags))
<1> DEFINE at == TurnOf(n, s, flags)
           forth(k) == IF s + k - 1 <= n THEN s + k - 1 ELSE s + k - 1 - n
           back(k) == IF s - k + 1 >= 1 THEN s - k + 1 ELSE s - k + 1 + n
<1>1. at[1] = s /\ \A k \in 2..n : at[k] = IterStep(n, at[k - 1], flags)
  BY Turns DEF TurnEach
<1> HIDE DEF at
<1>2. CASE "backwards" \in flags
  <2> DEFINE K == {m \in 0..n : m > 0 => at[m] = back(m)}
  <2>1. 0 \in K
    OBVIOUS
  <2>2. ASSUME NEW m \in 0..n, m \in K, m < n PROVE m + 1 \in K
    <3>1. CASE m = 0
      BY <1>1, <2>2, <3>1
    <3>2. CASE m # 0
      <4>1. at[m] = back(m) /\ m + 1 \in 2..n /\ (m + 1) - 1 = m
        BY <2>2, <3>2
      <4>2. at[m + 1] = IF at[m] = 1 THEN n ELSE at[m] - 1
        BY <1>1, <1>2, <4>1, Zenon DEF IterStep
      <4> QED BY <4>1, <4>2
    <3> QED BY <3>1, <3>2
  <2>3. 0..n \subseteq K
    <3> HIDE DEF K
    <3> QED BY <2>1, <2>2, UpTo
  <2>4. \A k \in 1..n : at[k] = back(k)
    BY <2>3
  <2>5. \A k \in 1..n : back(k) \in 1..n
    OBVIOUS
  <2>6. \A k, j \in 1..n : back(k) = back(j) => k = j
    OBVIOUS
  <2>7. ASSUME NEW i \in 1..n PROVE \E k \in 1..n : back(k) = i
    <3>1. CASE i <= s
      <4>1. s - i + 1 \in 1..n /\ back(s - i + 1) = i
        BY <3>1
      <4> QED BY <4>1
    <3>2. CASE i > s
      <4>1. s - i + 1 + n \in 1..n /\ back(s - i + 1 + n) = i
        BY <3>2
      <4> QED BY <4>1
    <3> QED BY <3>1, <3>2
  <2> HIDE DEF back
  <2>8. \A k \in 1..n : at[k] \in 1..n
    BY <2>4, <2>5
  <2>9. \A k, j \in 1..n : at[k] = at[j] => k = j
    BY <2>4, <2>6, Zenon
  <2>10. \A i \in 1..n : \E k \in 1..n : at[k] = i
    BY <2>4, <2>7, Zenon
  <2> QED BY <2>8, <2>9, <2>10, Zenon DEF TurnMeetsAll, at
<1>3. CASE "backwards" \notin flags
  <2> DEFINE K == {m \in 0..n : m > 0 => at[m] = forth(m)}
  <2>1. 0 \in K
    OBVIOUS
  <2>2. ASSUME NEW m \in 0..n, m \in K, m < n PROVE m + 1 \in K
    <3>1. CASE m = 0
      BY <1>1, <2>2, <3>1
    <3>2. CASE m # 0
      <4>1. at[m] = forth(m) /\ m + 1 \in 2..n /\ (m + 1) - 1 = m
        BY <2>2, <3>2
      <4>2. at[m + 1] = IF at[m] = n THEN 1 ELSE at[m] + 1
        BY <1>1, <1>3, <4>1, Zenon DEF IterStep
      <4> QED BY <4>1, <4>2
    <3> QED BY <3>1, <3>2
  <2>3. 0..n \subseteq K
    <3> HIDE DEF K
    <3> QED BY <2>1, <2>2, UpTo
  <2>4. \A k \in 1..n : at[k] = forth(k)
    BY <2>3
  <2>5. \A k \in 1..n : forth(k) \in 1..n
    OBVIOUS
  <2>6. \A k, j \in 1..n : forth(k) = forth(j) => k = j
    OBVIOUS
  <2>7. ASSUME NEW i \in 1..n PROVE \E k \in 1..n : forth(k) = i
    <3>1. CASE i >= s
      <4>1. i - s + 1 \in 1..n /\ forth(i - s + 1) = i
        BY <3>1
      <4> QED BY <4>1
    <3>2. CASE i < s
      <4>1. i - s + 1 + n \in 1..n /\ forth(i - s + 1 + n) = i
        BY <3>2
      <4> QED BY <4>1
    <3> QED BY <3>1, <3>2
  <2> HIDE DEF forth
  <2> QED BY <2>4, <2>5, <2>6, <2>7 DEF TurnMeetsAll, at
<1> QED BY <1>2, <1>3

(* Those of them that are wanted, each given once. *)
GivenOf(n, at, g, flags) ==
    LET given[k \in 0..n] ==
          IF k = 0 THEN << >>
          ELSE IF "selected" \in flags => g.selected[at[k]] THEN Append(given[k - 1], at[k])
          ELSE given[k - 1]
    IN given
GivenStep(b, k, at, g, flags) ==
    IF "selected" \in flags => g.selected[at[k]] THEN Append(b, at[k]) ELSE b
GivenEach(n, at, g, flags, given) ==
    given[0] = << >> /\ \A k \in 1..n : given[k] = GivenStep(given[k - 1], k, at, g, flags)

LEMMA Gives ==
    ASSUME NEW n \in Nat, NEW at, NEW g, NEW flags
    PROVE  GivenEach(n, at, g, flags, GivenOf(n, at, g, flags))
<1> DEFINE a == << >>
           Step(b, k) == GivenStep(b, k, at, g, flags)
           Upto(m, f) == f = [k \in 0..m |-> IF k = 0 THEN a ELSE Step(f[k - 1], k)]
           K == {m \in 0..n : \E f : Upto(m, f)}
<1>1. GivenOf(n, at, g, flags) = CHOOSE f : Upto(n, f)
  BY DEF GivenOf, GivenStep
<1> HIDE DEF a
<1>2. 0 \in K
  <2>1. Upto(0, [k \in 0..0 |-> a])
    OBVIOUS
  <2>2. 0 \in 0..n
    OBVIOUS
  <2> QED BY <2>1, <2>2
<1>3. ASSUME NEW m \in 0..n, m \in K, m < n PROVE m + 1 \in K
  <2>1. PICK f : Upto(m, f)
    BY <1>3
  <2> HIDE DEF Step
  <2> DEFINE e == [k \in 0..(m + 1) |-> IF k = m + 1 THEN Step(f[m], m + 1) ELSE f[k]]
  <2>2. \A k \in 0..m : e[k] = f[k] /\ f[k] = IF k = 0 THEN a ELSE Step(f[k - 1], k)
    BY <2>1
  <2>3. e[m + 1] = Step(e[m], m + 1)
    OBVIOUS
  <2>4. \A k \in 0..(m + 1) : e[k] = IF k = 0 THEN a ELSE Step(e[k - 1], k)
    <3> HIDE DEF e
    <3>1. ASSUME NEW k \in 0..(m + 1) PROVE e[k] = IF k = 0 THEN a ELSE Step(e[k - 1], k)
      <4>1. CASE k = m + 1
        BY <2>3, <4>1
      <4>2. CASE k = 0
        BY <2>2, <4>2
      <4>3. CASE k \in 1..m
        <5>1. k \in 0..m /\ k - 1 \in 0..m /\ k # 0
          BY <4>3
        <5> QED BY <2>2, <5>1
      <4> QED BY <4>1, <4>2, <4>3
    <3> QED BY <3>1
  <2>5. e = [k \in 0..(m + 1) |-> e[k]]
    OBVIOUS
  <2>6. Upto(m + 1, e)
    <3> HIDE DEF e
    <3> QED BY <2>4, <2>5
  <2>7. m + 1 \in 0..n
    BY <1>3
  <2> HIDE DEF e, Upto
  <2> QED BY <2>6, <2>7
<1>4. 0..n \subseteq K
  <2> HIDE DEF K
  <2> QED BY <1>2, <1>3, UpTo
<1>5. \E f : Upto(n, f)
  <2>1. n \in 0..n
    OBVIOUS
  <2>2. n \in K
    BY <1>4, <2>1, Zenon
  <2> QED BY <2>2
<1> DEFINE given == GivenOf(n, at, g, flags)
<1>6. Upto(n, given)
  <2> HIDE DEF Upto
  <2> QED BY <1>1, <1>5
<1> HIDE DEF given, Step
<1>7. given[0] = a /\ \A k \in 1..n : given[k] = Step(given[k - 1], k)
  BY <1>6
<1> QED BY <1>7 DEF GivenEach, given, Step, a

(* A sequence that lists a set of positions, each once. *)
Lists(s, W) ==
    /\ s \in Seq(Nat) /\ \A a, b \in 1..Len(s) : s[a] = s[b] => a = b
    /\ {s[a] : a \in 1..Len(s)} = W

LEMMA ListsOneMore ==
    ASSUME NEW s, NEW W, Lists(s, W), NEW i \in Nat, i \notin W
    PROVE  Lists(Append(s, i), W \cup {i})
<1> DEFINE t == Append(s, i)
<1>1. s \in Seq(Nat) /\ (\A a, b \in 1..Len(s) : s[a] = s[b] => a = b) /\ {s[a] : a \in 1..Len(s)} = W
  BY DEF Lists
<1>2. PICK m \in Nat : m = Len(s)
  BY <1>1
<1>3. t \in Seq(Nat) /\ Len(t) = m + 1 /\ t[m + 1] = i /\ \A a \in 1..m : t[a] = s[a]
  BY <1>1, <1>2, AppendProperties
<1> HIDE DEF t
<1>4. \A a \in 1..m : t[a] \in W /\ t[a] # i
  BY <1>1, <1>2, <1>3
<1>5. \A a \in 1..(m + 1) : a \in 1..m \/ a = m + 1
  BY <1>2
<1>6. \A a, b \in 1..(m + 1) : t[a] = t[b] => a = b
  BY <1>1, <1>2, <1>3, <1>4, <1>5
<1>7. {t[a] : a \in 1..(m + 1)} = W \cup {i}
  <2>1. ASSUME NEW x \in {t[a] : a \in 1..(m + 1)} PROVE x \in W \cup {i}
    BY <1>3, <1>4, <1>5
  <2>2. ASSUME NEW x \in W PROVE x \in {t[a] : a \in 1..(m + 1)}
    <3>1. PICK a \in 1..m : x = s[a]
      BY <1>1, <1>2
    <3>2. a \in 1..(m + 1) /\ x = t[a]
      BY <1>2, <1>3, <3>1
    <3> QED BY <3>2
  <2>3. i \in {t[a] : a \in 1..(m + 1)}
    <3>1. m + 1 \in 1..(m + 1)
      BY <1>2
    <3> QED BY <1>3, <3>1
  <2> QED BY <2>1, <2>2, <2>3
<1> QED BY <1>3, <1>6, <1>7 DEF Lists, t

LEMMA GivesWanted ==
    ASSUME NEW n \in Nat, NEW at, TurnMeetsAll(n, at), NEW g, NEW flags
    PROVE  Lists(GivenOf(n, at, g, flags)[n], {i \in 1..n : "selected" \in flags => g.selected[i]})
<1> DEFINE given == GivenOf(n, at, g, flags)
           Want(i) == "selected" \in flags => g.selected[i]
           Upto(k) == {i \in 1..n : Want(i) /\ \E j \in 1..k : at[j] = i}
           K == {k \in 0..n : Lists(given[k], Upto(k))}
<1>1. given[0] = << >> /\ \A k \in 1..n : given[k] = IF Want(at[k]) THEN Append(given[k - 1], at[k]) ELSE given[k - 1]
  <2>1. GivenEach(n, at, g, flags, given)
    BY Gives
  <2> HIDE DEF given
  <2> QED BY <2>1, Zenon DEF GivenEach, GivenStep
<1>2. /\ \A k \in 1..n : at[k] \in 1..n
      /\ \A k, j \in 1..n : at[k] = at[j] => k = j
      /\ \A i \in 1..n : \E k \in 1..n : at[k] = i
  BY DEF TurnMeetsAll
<1> HIDE DEF given, Want
<1>3. 0 \in K
  <2>1. Upto(0) = {}
    OBVIOUS
  <2>2. << >> \in Seq(Nat) /\ Len(<< >>) = 0 /\ 1..0 = {}
    OBVIOUS
  <2>3. Lists(<< >>, {})
    BY <2>2 DEF Lists
  <2>4. 0 \in 0..n
    OBVIOUS
  <2> HIDE DEF Upto
  <2> QED BY <1>1, <2>1, <2>3, <2>4
<1>4. ASSUME NEW k \in 0..n, k \in K, k < n PROVE k + 1 \in K
  <2> DEFINE i == at[k + 1]
  <2>1. k + 1 \in 1..n /\ (k + 1) - 1 = k /\ k + 1 \in 0..n /\ \A j \in 1..(k + 1) : j \in 1..k \/ j = k + 1
    BY <1>4
  <2>2. i \in 1..n /\ i \in Nat
    BY <1>2, <2>1
  <2>3. \A j \in 1..k : at[j] # i
    BY <1>2, <1>4, <2>1
  <2>4. Lists(given[k], Upto(k))
    BY <1>4
  <2>5. given[k + 1] = IF Want(i) THEN Append(given[k], i) ELSE given[k]
    BY <1>1, <2>1
  <2>6. CASE Want(i)
    <3>1. Upto(k + 1) = Upto(k) \cup {i}
      <4>1. ASSUME NEW y \in Upto(k + 1) PROVE y \in Upto(k) \cup {i}
        BY <2>1
      <4>2. ASSUME NEW y \in Upto(k) PROVE y \in Upto(k + 1)
        <5>1. \A j \in 1..k : j \in 1..(k + 1)
          OBVIOUS
        <5> QED BY <5>1
      <4>3. i \in Upto(k + 1)
        <5>1. k + 1 \in 1..(k + 1)
          OBVIOUS
        <5> QED BY <2>2, <2>6, <5>1
      <4> HIDE DEF Upto, i
      <4> QED BY <4>1, <4>2, <4>3
    <3>2. i \notin Upto(k)
      BY <2>3
    <3> HIDE DEF Upto, i
    <3>3. Lists(Append(given[k], i), Upto(k) \cup {i})
      BY <2>2, <2>4, <3>2, ListsOneMore
    <3> QED BY <2>1, <2>5, <2>6, <3>1, <3>3
  <2>7. CASE ~Want(i)
    <3>1. Upto(k + 1) = Upto(k)
      <4>1. ASSUME NEW y \in Upto(k + 1) PROVE y \in Upto(k)
        BY <2>1, <2>7
      <4>2. ASSUME NEW y \in Upto(k) PROVE y \in Upto(k + 1)
        <5>1. \A j \in 1..k : j \in 1..(k + 1)
          OBVIOUS
        <5> QED BY <5>1
      <4> HIDE DEF Upto, i
      <4> QED BY <4>1, <4>2
    <3> HIDE DEF Upto, i
    <3> QED BY <2>1, <2>4, <2>5, <2>7, <3>1
  <2> QED BY <2>6, <2>7
<1>5. 0..n \subseteq K
  <2> HIDE DEF K
  <2> QED BY <1>3, <1>4, UpTo
<1>6. n \in 0..n
  OBVIOUS
<1>7. Lists(given[n], Upto(n))
  BY <1>5, <1>6
<1>8. Upto(n) = {i \in 1..n : Want(i)}
  BY <1>2
<1> HIDE DEF Upto
<1> QED BY <1>7, <1>8 DEF given, Want

LEMMA Iterates ==
    ASSUME NEW l, RowsOf(l.items), NEW g, GtkFor(g, Len(l.items)), NEW base, NEW flags
    PROVE  Lists(IterItems(l, g, base, flags),
                 IF "from cursor" \in flags /\ g.cursor = 0 THEN {}
                 ELSE {i \in 1..Len(l.items) : "selected" \in flags => g.selected[i]})
<1> DEFINE n == IF "from cursor" \in flags /\ g.cursor = 0 THEN 0 ELSE Len(l.items)
           s == IterStart(l, g, base, flags)
           at == TurnOf(n, s, flags)
           t == IterItems(l, g, base, flags)
<1>1. Len(l.items) \in Nat /\ n \in Nat
  BY RowsAre
<1>2. t = GivenOf(n, at, g, flags)[n]
  BY DEF IterItems, GivenOf, TurnOf
<1>3. n # 0 => s \in 1..n
  <2> DEFINE m == Len(l.items)
             i == IF "from cursor" \in flags THEN g.cursor ELSE IF "from base" \in flags THEN base ELSE 0
  <2>1. s = IF i \in 1..m THEN i ELSE IF "backwards" \in flags THEN m ELSE 1
    BY DEF IterStart
  <2>2. n # 0 => n = m
    OBVIOUS
  <2> HIDE DEF s, i, m, n
  <2>3. CASE i \in 1..m
    BY <2>1, <2>2, <2>3
  <2>4. CASE i \notin 1..m
    <3>1. n # 0 => 1 \in 1..m /\ m \in 1..m
      BY <1>1, <2>2
    <3> QED BY <2>1, <2>2, <2>4, <3>1, Zenon
  <2> QED BY <2>3, <2>4
<1>4. TurnMeetsAll(n, at)
  <2> HIDE DEF n, s
  <2>1. CASE n = 0
    <3>1. 1..n = {}
      BY <2>1
    <3> HIDE DEF at
    <3> QED BY <3>1 DEF TurnMeetsAll
  <2>2. CASE n # 0
    BY <1>1, <1>3, <2>2, TurnMeets
  <2> QED BY <2>1, <2>2
<1> HIDE DEF at, s, t, n
<1>5. Lists(t, {i \in 1..n : "selected" \in flags => g.selected[i]})
  BY <1>1, <1>2, <1>4, GivesWanted
<1>6. CASE "from cursor" \in flags /\ g.cursor = 0
  <2>1. n = 0
    BY <1>6 DEF n
  <2>2. {i \in 1..n : "selected" \in flags => g.selected[i]} = {}
    BY <2>1
  <2> QED BY <1>5, <1>6, <2>2, Zenon DEF t
<1>7. CASE ~("from cursor" \in flags /\ g.cursor = 0)
  <2>1. n = Len(l.items)
    BY <1>7 DEF n
  <2> QED BY <1>5, <1>7, <2>1, Zenon DEF t
<1> QED BY <1>6, <1>7

LEMMA ListsCounts ==
    ASSUME NEW s, NEW W, Lists(s, W)
    PROVE  DOMAIN s = 1..Len(s) /\ Len(s) = Cardinality({s[a] : a \in 1..Len(s)})
<1>1. s \in Seq(Nat) /\ (\A a, b \in 1..Len(s) : s[a] = s[b] => a = b)
  BY DEF Lists
<1>2. PICK n \in Nat : n = Len(s) /\ DOMAIN s = 1..n /\ s \in [1..n -> Nat]
  BY <1>1, LenProperties
<1> DEFINE I == {s[a] : a \in 1..n}
<1>3. IsFiniteSet(1..n) /\ Cardinality(1..n) = n
  <2>1. 1 \in Int /\ n \in Int
    OBVIOUS
  <2>2. IsFiniteSet(1..n) /\ Cardinality(1..n) = IF 1 > n THEN 0 ELSE n - 1 + 1
    BY <2>1, FS_Interval
  <2> QED BY <2>2
<1>4. s \in Surjection(1..n, I)
  BY <1>2 DEF Surjection
<1>5. s \in Injection(1..n, I)
  BY <1>1, <1>2 DEF Injection, IsInjective
<1> HIDE DEF I
<1>6. Cardinality(I) = Cardinality(1..n) <=> s \in Injection(1..n, I)
  BY <1>3, <1>4, FS_Surjection, Zenon
<1> QED BY <1>2, <1>3, <1>5, <1>6 DEF I

--------------------
(* The invariant: the array is the view's, GTK keeps rows for it, and they *)
(* show the user's choice; and no update has missed its row. *)
DetailsGood ==
    /\ ViewGood(View, chosen.items, chosen.cursor) /\ list.missed = {}
    /\ chosen \in [items : {chosen.items}, cursor : {chosen.cursor}]

LEMMA RowsFollowWhenGood == DetailsGood => RowsFollow
<1> SUFFICES ASSUME DetailsGood PROVE RowsFollow
  OBVIOUS
<1>1. ListGood(list) /\ GtkFor(gtk, Len(list.items)) /\ Shows(list.items, gtk, chosen.items, chosen.cursor)
      /\ list.missed = {}
  BY DEF DetailsGood, ViewGood, View
<1>2. PICK n \in Nat : /\ n = Len(list.items) /\ DOMAIN list.items = 1..n /\ list.items \in [1..n -> Row]
                       /\ \A i, j \in 1..n : list.items[i] = list.items[j] => i = j
  BY <1>1, RowsAre DEF ListGood
<1>3. Len(gtk.selected) = n
  <2>1. gtk.selected \in [1..n -> BOOLEAN]
    BY <1>1, <1>2 DEF GtkFor
  <2> QED BY <2>1, SeqDef
<1>4. {list.items[i] : i \in {j \in 1..n : gtk.selected[j]}} = chosen.items
      /\ chosen.cursor = (IF gtk.cursor = 0 THEN 0 ELSE list.items[gtk.cursor])
  BY <1>1, <1>2 DEF Shows
<1>5. ASSUME NEW way \in SUBSET {"from cursor", "backwards", "selected"}, NEW base \in {0} \cup Row
      PROVE  LET given == IterItems(list, gtk, base, way \cup {"from base"})
                 items == IF "selected" \in way THEN chosen.items ELSE Items(list)
             IN /\ Len(given) = Cardinality({given[k] : k \in DOMAIN given})
                /\ {list.items[given[k]] : k \in DOMAIN given}
                   = IF "from cursor" \in way /\ gtk.cursor = 0 THEN {} ELSE items
  <2> DEFINE flags == way \cup {"from base"}
             given == IterItems(list, gtk, base, flags)
             items == IF "selected" \in way THEN chosen.items ELSE Items(list)
             none == "from cursor" \in way /\ gtk.cursor = 0
             W == {i \in 1..n : "selected" \in way => gtk.selected[i]}
  <2>1. ("from cursor" \in flags <=> "from cursor" \in way) /\ ("selected" \in flags <=> "selected" \in way)
    <3>1. "from cursor" # "from base" /\ "selected" # "from base"
      OBVIOUS
    <3> QED BY <3>1, Zenon
  <2> DEFINE U == {i \in 1..Len(list.items) : "selected" \in flags => gtk.selected[i]}
             cut == "from cursor" \in flags /\ gtk.cursor = 0
  <2> HIDE DEF flags
  <2>2. Lists(given, IF cut THEN {} ELSE U)
    <3>1. RowsOf(list.items) /\ GtkFor(gtk, Len(list.items))
      BY <1>1 DEF ListGood
    <3> QED BY <3>1, Iterates
  <2>3. Lists(given, IF none THEN {} ELSE W)
    <3>1. U = W
      BY <1>2, <2>1
    <3>2. cut <=> none
      BY <2>1, Zenon
    <3> HIDE DEF given, U, W, none, cut
    <3>3. CASE cut
      BY <2>2, <3>2, <3>3
    <3>4. CASE ~cut
      BY <2>2, <3>1, <3>2, <3>4
    <3> QED BY <3>3, <3>4
  <2> HIDE DEF given, U, cut
  <2>4. DOMAIN given = 1..Len(given) /\ Len(given) = Cardinality({given[k] : k \in 1..Len(given)})
    BY <2>3, ListsCounts
  <2>5. {given[k] : k \in 1..Len(given)} = IF none THEN {} ELSE W
    BY <2>3 DEF Lists
  <2>6. {list.items[given[k]] : k \in 1..Len(given)} = {list.items[i] : i \in IF none THEN {} ELSE W}
    <3> DEFINE V == IF none THEN {} ELSE W
    <3>1. {given[k] : k \in 1..Len(given)} = V
      BY <2>5
    <3> HIDE DEF V
    <3>2. ASSUME NEW k \in 1..Len(given) PROVE given[k] \in V
      BY <3>1
    <3>3. ASSUME NEW i \in V PROVE \E k \in 1..Len(given) : given[k] = i
      BY <3>1
    <3>4. ASSUME NEW x \in {list.items[given[k]] : k \in 1..Len(given)} PROVE x \in {list.items[i] : i \in V}
      BY <3>2
    <3>5. ASSUME NEW x \in {list.items[i] : i \in V} PROVE x \in {list.items[given[k]] : k \in 1..Len(given)}
      <4>1. PICK i \in V : x = list.items[i]
        OBVIOUS
      <4>2. PICK k \in 1..Len(given) : given[k] = i
        BY <3>3
      <4> QED BY <4>1, <4>2
    <3>6. {list.items[given[k]] : k \in 1..Len(given)} = {list.items[i] : i \in V}
      BY <3>4, <3>5, Zenon
    <3> QED BY <3>6, Zenon DEF V
  <2>7. {list.items[i] : i \in W} = items
    <3>1. CASE "selected" \in way
      <4>1. W = {j \in 1..n : gtk.selected[j]}
        BY <3>1
      <4> QED BY <1>4, <3>1, <4>1
    <3>2. CASE "selected" \notin way
      <4>1. W = 1..n
        BY <3>2
      <4>2. Items(list) = {list.items[i] : i \in 1..n}
        BY <1>2 DEF Items
      <4> QED BY <3>2, <4>1, <4>2
    <3> QED BY <3>1, <3>2
  <2>8. {list.items[given[k]] : k \in 1..Len(given)} = IF none THEN {} ELSE items
    <3>1. CASE none
      <4>1. {list.items[i] : i \in {}} = {}
        OBVIOUS
      <4> QED BY <2>6, <3>1, <4>1
    <3>2. CASE ~none
      <4> HIDE DEF none, W, items
      <4> QED BY <2>6, <2>7, <3>2
    <3> QED BY <3>1, <3>2
  <2> QED BY <2>4, <2>8, Zenon DEF given, flags
<1> QED BY <1>1, <1>2, <1>3, <1>4, <1>5, Zenon DEF RowsFollow

LEMMA DetailsStarts == DetailsInit => DetailsGood
<1> SUFFICES ASSUME DetailsInit PROVE DetailsGood
  OBVIOUS
<1>1. /\ list = [items |-> << >>, key |-> [x \in Row |-> 1], ascending |-> TRUE, wink |-> 0, missed |-> {}]
      /\ gtk = [selected |-> << >>, cursor |-> 0]
      /\ chosen = [items |-> {}, cursor |-> 0]
  BY DEF DetailsInit
<1>2. RowsOf(<< >>) /\ Len(<< >>) = 0 /\ 1..0 = {}
  BY DEF RowsOf
<1>3. ListGood(list)
  <2>1. list.items = << >> /\ list.key = [x \in Row |-> 1] /\ list.ascending = TRUE
        /\ list \in [items : {list.items}, key : {list.key}, ascending : {list.ascending}, wink : {list.wink}, missed : {list.missed}]
    BY <1>1
  <2>2. list.key \in [Row -> Int]
    BY <2>1
  <2> QED BY <1>2, <2>1, <2>2 DEF ListGood
<1>4. gtk.selected = << >> /\ gtk.cursor = 0 /\ gtk \in [selected : {gtk.selected}, cursor : {gtk.cursor}]
  BY <1>1
<1>5. GtkFor(gtk, 0)
  <2>1. << >> \in [1..0 -> BOOLEAN]
    BY <1>2
  <2> QED BY <1>4, <2>1 DEF GtkFor
<1>6. list.items = << >> /\ list.missed = {} /\ chosen.items = {} /\ chosen.cursor = 0
      /\ chosen \in [items : {chosen.items}, cursor : {chosen.cursor}]
  BY <1>1
<1>7. Shows(<< >>, gtk, {}, 0)
  BY <1>2, <1>4 DEF Shows
<1> QED BY <1>2, <1>3, <1>5, <1>6, <1>7 DEF DetailsGood, ViewGood, View

(* A view and a choice that are good make a good state. *)
LEMMA BecomesGood ==
    ASSUME NEW v, NEW c, Becomes(v, c), ViewGood(v, c.items, c.cursor), v.list.missed = {},
           c \in [items : {c.items}, cursor : {c.cursor}]
    PROVE  DetailsGood'
<1>1. list' = v.list /\ gtk' = v.gtk /\ chosen' = c
  BY DEF Becomes
<1>2. View'.list = v.list /\ View'.gtk = v.gtk
  BY <1>1 DEF View
<1>3. ViewGood(View', chosen'.items, chosen'.cursor)
  BY <1>1, <1>2 DEF ViewGood
<1> QED BY <1>1, <1>3 DEF DetailsGood

LEMMA DirectoryTells ==
    ASSUME DetailsGood,
           \/ \E x, y \in Row : ItemsNew(IF x = y THEN <<x>> ELSE <<x, y>>)
           \/ \E S \in SUBSET Row : ItemsGone(S) \/ \E k \in 1..MaxSortKey : ItemsModified(S, k)
           \/ ClearView \/ ReverseOrder
    PROVE  DetailsGood'
<1> DEFINE C == chosen.items
           c == chosen.cursor
<1>1. ViewGood(View, C, c) /\ View.list = list /\ list.missed = {} /\ View.list.missed = {}
      /\ chosen \in [items : {C}, cursor : {c}]
  BY DEF DetailsGood, View
<1>2. ASSUME NEW x \in Row, NEW y \in Row, ItemsNew(IF x = y THEN <<x>> ELSE <<x, y>>) PROVE DetailsGood'
  <2> DEFINE new == IF x = y THEN <<x>> ELSE <<x, y>>
  <2>1. (\A i \in DOMAIN new : new[i] \notin Items(list)) /\ Becomes(AddRows(View, new), chosen)
    BY <1>2 DEF ItemsNew
  <2>2. x \notin Items(View.list) /\ y \notin Items(View.list)
    <3>1. CASE x = y
      <4>1. 1 \in DOMAIN new /\ new[1] = x
        BY <3>1
      <4> QED BY <1>1, <2>1, <3>1, <4>1
    <3>2. CASE x # y
      <4>1. 1 \in DOMAIN new /\ new[1] = x /\ 2 \in DOMAIN new /\ new[2] = y
        BY <3>2
      <4> QED BY <1>1, <2>1, <4>1
    <3> QED BY <3>1, <3>2
  <2>3. ViewGood(AddRows(View, new), C, c) /\ AddRows(View, new).list.missed = View.list.missed
    <3>1. new = IF x = y THEN <<x>> ELSE <<x, y>>
      OBVIOUS
    <3> HIDE DEF new
    <3> QED BY <1>1, <2>2, <3>1, AddsRows
  <2> HIDE DEF new
  <2> QED BY <1>1, <2>1, <2>3, BecomesGood
<1>3. ASSUME NEW S \in SUBSET Row, ItemsGone(S) PROVE DetailsGood'
  <2> DEFINE d == [items |-> C \ S, cursor |-> IF c \in S THEN 0 ELSE c]
             w == DeleteRows(View, S)
  <2>1. Becomes(w, d)
    BY <1>3 DEF ItemsGone
  <2>2. ViewGood(w, C \ S, IF c \in S THEN 0 ELSE c) /\ w.list.missed = View.list.missed
    BY <1>1, Deletes
  <2>3. d.items = C \ S /\ d.cursor = (IF c \in S THEN 0 ELSE c) /\ d \in [items : {d.items}, cursor : {d.cursor}]
    OBVIOUS
  <2> HIDE DEF d, w, C, c
  <2>4. ViewGood(w, d.items, d.cursor) /\ w.list.missed = {}
    BY <1>1, <2>2, <2>3
  <2> QED BY <2>1, <2>3, <2>4, BecomesGood
<1>4. ASSUME NEW S \in SUBSET Row, NEW k \in 1..MaxSortKey, ItemsModified(S, k) PROVE DetailsGood'
  <2> DEFINE v == [View EXCEPT !.list.key = [x \in Row |-> IF x \in S THEN k ELSE @[x]]]
             key == [x \in Row |-> IF x \in S THEN k ELSE list.key[x]]
             m == [list EXCEPT !.key = key]
  <2>1. Becomes(UpdateRows(v, S), chosen)
    BY <1>4 DEF ItemsModified
  <2>2. ListGood(list) /\ GtkFor(gtk, Len(list.items)) /\ Shows(list.items, gtk, C, c)
    BY <1>1 DEF ViewGood, View
  <2>3. key \in [Row -> Int]
    <3>1. list.key \in [Row -> Int] /\ k \in Int
      BY <2>2, DetailsAssumption DEF ListGood
    <3> QED BY <3>1
  <2>4. v.list = m /\ v.gtk = gtk
    <3>1. View = [list |-> list, gtk |-> gtk]
      BY DEF View
    <3>2. v = [View EXCEPT !.list.key = key]
      BY <3>1
    <3> HIDE DEF v, key
    <3> QED BY <3>1, <3>2
  <2>5. list \in [items : {list.items}, key : {list.key}, ascending : {list.ascending}, wink : {list.wink}, missed : {list.missed}]
    BY <2>2 DEF ListGood
  <2> HIDE DEF key
  <2>6. m.items = list.items /\ m.key = key /\ m.ascending = list.ascending
        /\ m \in [items : {m.items}, key : {m.key}, ascending : {m.ascending}, wink : {m.wink}, missed : {m.missed}]
    BY <2>5
  <2> HIDE DEF m, v
  <2>7. ListGood(m)
    BY <2>2, <2>3, <2>6 DEF ListGood
  <2>8. ViewGood(v, C, c)
    BY <2>2, <2>4, <2>6, <2>7 DEF ViewGood
  <2>9. ViewGood(UpdateRows(v, S), C, c) /\ UpdateRows(v, S).list.missed = {}
    BY <2>8, Updates
  <2> QED BY <1>1, <2>1, <2>9, BecomesGood
<1>5. ASSUME ClearView PROVE DetailsGood'
  <2> DEFINE d == [items |-> {}, cursor |-> 0]
             w == ClearRows(View)
  <2>1. Becomes(w, d)
    BY <1>5 DEF ClearView
  <2>2. ViewGood(w, {}, 0) /\ w.list.missed = View.list.missed
    BY <1>1, Clears
  <2>3. d.items = {} /\ d.cursor = 0 /\ d \in [items : {d.items}, cursor : {d.cursor}]
    OBVIOUS
  <2> HIDE DEF d, w, C, c
  <2>4. ViewGood(w, d.items, d.cursor) /\ w.list.missed = {}
    BY <1>1, <2>2, <2>3
  <2> QED BY <2>1, <2>3, <2>4, BecomesGood
<1>6. ASSUME ReverseOrder PROVE DetailsGood'
  <2> DEFINE v == [View EXCEPT !.list.ascending = ~@]
             m == [list EXCEPT !.ascending = ~@]
  <2>1. Becomes(Resort(v), chosen)
    BY <1>6 DEF ReverseOrder
  <2>2. ListGood(list) /\ GtkFor(gtk, Len(list.items)) /\ Shows(list.items, gtk, C, c)
    BY <1>1 DEF ViewGood, View
  <2>3. v.list = m /\ v.gtk = gtk
    BY DEF View
  <2>4. list \in [items : {list.items}, key : {list.key}, ascending : {list.ascending}, wink : {list.wink}, missed : {list.missed}]
    BY <2>2 DEF ListGood
  <2>5. m.items = list.items /\ m.key = list.key /\ m.ascending \in BOOLEAN /\ m.missed = list.missed
        /\ m \in [items : {m.items}, key : {m.key}, ascending : {m.ascending}, wink : {m.wink}, missed : {m.missed}]
    BY <2>4
  <2> HIDE DEF m, v
  <2>6. ListGood(m)
    BY <2>2, <2>5 DEF ListGood
  <2>7. ViewGood(v, C, c)
    BY <2>2, <2>3, <2>5, <2>6 DEF ViewGood
  <2>8. ViewGood(Resort(v), C, c) /\ Resort(v).list.missed = {}
    BY <1>1, <2>3, <2>5, <2>7, Resorts DEF SortedView
  <2> QED BY <1>1, <2>1, <2>8, BecomesGood
<1> QED BY <1>2, <1>3, <1>4, <1>5, <1>6

(* What the user does leaves the array as it is. *)
LEMMA ChosenGood ==
    ASSUME DetailsGood, list' = list, GtkFor(gtk', Len(list.items)),
           chosen' \in [items : {chosen'.items}, cursor : {chosen'.cursor}],
           chosen'.items = {list.items[i] : i \in {j \in 1..Len(list.items) : gtk'.selected[j]}},
           chosen'.cursor = IF gtk'.cursor = 0 THEN 0 ELSE list.items[gtk'.cursor]
    PROVE  DetailsGood'
<1>1. ListGood(list) /\ list.missed = {}
  BY DEF DetailsGood, ViewGood, View
<1>2. View'.list = list /\ View'.gtk = gtk'
  BY DEF View
<1>3. Shows(list.items, gtk', chosen'.items, chosen'.cursor)
  BY DEF Shows
<1>4. ViewGood(View', chosen'.items, chosen'.cursor)
  BY <1>1, <1>2, <1>3 DEF ViewGood
<1> QED BY <1>1, <1>4 DEF DetailsGood

(* Of what GTK keeps, only the selection is changed. *)
LEMMA SelectionSet ==
    ASSUME DetailsGood, list' = list, NEW s \in [1..Len(list.items) -> BOOLEAN],
           gtk' = [gtk EXCEPT !.selected = s],
           chosen' = [chosen EXCEPT !.items = {list.items[i] : i \in {j \in 1..Len(list.items) : s[j]}}]
    PROVE  DetailsGood'
<1>1. GtkFor(gtk, Len(list.items)) /\ Shows(list.items, gtk, chosen.items, chosen.cursor)
      /\ chosen \in [items : {chosen.items}, cursor : {chosen.cursor}]
  BY DEF DetailsGood, ViewGood, View
<1>2. gtk \in [selected : {gtk.selected}, cursor : {gtk.cursor}] /\ gtk.cursor \in 0..Len(list.items)
  BY <1>1 DEF GtkFor
<1>3. gtk'.selected = s /\ gtk'.cursor = gtk.cursor
      /\ gtk' \in [selected : {gtk'.selected}, cursor : {gtk'.cursor}]
  BY <1>2
<1> DEFINE T == {list.items[i] : i \in {j \in 1..Len(list.items) : s[j]}}
<1> HIDE DEF T
<1>4. chosen' = [chosen EXCEPT !.items = T]
  BY DEF T
<1>5. chosen'.items = T /\ chosen'.cursor = chosen.cursor
      /\ chosen' \in [items : {chosen'.items}, cursor : {chosen'.cursor}]
  BY <1>1, <1>4
<1>6. GtkFor(gtk', Len(list.items))
  BY <1>2, <1>3 DEF GtkFor
<1>7. chosen'.items = {list.items[i] : i \in {j \in 1..Len(list.items) : gtk'.selected[j]}}
  BY <1>3, <1>5, Zenon DEF T
<1>8. chosen'.cursor = IF gtk'.cursor = 0 THEN 0 ELSE list.items[gtk'.cursor]
  BY <1>1, <1>3, <1>5 DEF Shows
<1> QED BY <1>5, <1>6, <1>7, <1>8, ChosenGood

LEMMA UserChooses ==
    ASSUME DetailsGood,
           \/ \E i \in 0..Cardinality(Row) : CursorToIter(i) \/ SelectOnlyRow(i)
           \/ \E i \in Row, on \in BOOLEAN : SetSelectedRow(i, on) \/ SelectAllRows(on)
           \/ \E i, j \in 1..(Cardinality(Row) + 1), b \in BOOLEAN : LassoRows(i, j, b)
    PROVE  DetailsGood'
<1> DEFINE C == chosen.items
           old == list.items
<1>1. ListGood(list) /\ GtkFor(gtk, Len(old)) /\ Shows(old, gtk, C, chosen.cursor)
      /\ chosen \in [items : {C}, cursor : {chosen.cursor}]
  BY DEF DetailsGood, ViewGood, View
<1>2. PICK n \in Nat : /\ n = Len(old) /\ DOMAIN old = 1..n /\ old \in [1..n -> Row]
                       /\ \A i, j \in 1..n : old[i] = old[j] => i = j
  BY <1>1, RowsAre DEF ListGood
<1>3. /\ gtk.selected \in [1..n -> BOOLEAN] /\ DOMAIN gtk.selected = 1..n /\ gtk.cursor \in 0..n
      /\ gtk \in [selected : {gtk.selected}, cursor : {gtk.cursor}]
  BY <1>1, <1>2 DEF GtkFor
<1>4. C = {old[i] : i \in {j \in 1..n : gtk.selected[j]}}
      /\ chosen.cursor = IF gtk.cursor = 0 THEN 0 ELSE old[gtk.cursor]
  BY <1>1, <1>2 DEF Shows
<1>5. ASSUME NEW i, CursorToIter(i) PROVE DetailsGood'
  <2>1. i \in 0..n /\ gtk' = [gtk EXCEPT !.cursor = i] /\ list' = list
        /\ chosen' = [chosen EXCEPT !.cursor = IF i = 0 THEN 0 ELSE old[i]]
    BY <1>2, <1>5 DEF CursorToIter
  <2>2. gtk'.selected = gtk.selected /\ gtk'.cursor = i
        /\ gtk' \in [selected : {gtk'.selected}, cursor : {gtk'.cursor}]
    BY <1>3, <2>1
  <2>3. chosen'.items = C /\ chosen'.cursor = (IF i = 0 THEN 0 ELSE old[i])
        /\ chosen' \in [items : {chosen'.items}, cursor : {chosen'.cursor}]
    BY <1>1, <2>1
  <2>4. GtkFor(gtk', Len(old))
    BY <1>2, <1>3, <2>1, <2>2 DEF GtkFor
  <2>5. chosen'.items = {old[k] : k \in {j \in 1..Len(old) : gtk'.selected[j]}}
    BY <1>2, <1>4, <2>2, <2>3, Zenon
  <2> QED BY <2>1, <2>2, <2>3, <2>4, <2>5, ChosenGood
<1>6. ASSUME NEW i, SelectOnlyRow(i) PROVE DetailsGood'
  <2> DEFINE s == [j \in 1..n |-> j = i]
             T == {old[k] : k \in {j \in 1..n : s[j]}}
  <2>1. i \in 1..n /\ list' = list /\ gtk' = [gtk EXCEPT !.selected = s]
        /\ chosen' = [chosen EXCEPT !.items = {old[i]}]
    BY <1>2, <1>3, <1>6 DEF SelectOnlyRow
  <2>2. s \in [1..n -> BOOLEAN]
    BY Zenon
  <2>3. T = {old[i]}
    BY <2>1
  <2> HIDE DEF s
  <2>4. chosen' = [chosen EXCEPT !.items = {old[k] : k \in {j \in 1..Len(old) : s[j]}}]
    BY <1>2, <2>1, <2>3, Zenon
  <2>5. s \in [1..Len(old) -> BOOLEAN]
    BY <1>2, <2>2
  <2> QED BY <2>1, <2>4, <2>5, SelectionSet
<1>7. ASSUME NEW i, NEW on \in BOOLEAN, SetSelectedRow(i, on) PROVE DetailsGood'
  <2> DEFINE s == [gtk.selected EXCEPT ![i] = on]
             T == {old[k] : k \in {j \in 1..n : s[j]}}
  <2>1. i \in 1..n /\ list' = list /\ gtk' = [gtk EXCEPT !.selected[i] = on]
        /\ chosen' = [chosen EXCEPT !.items = IF on THEN @ \cup {old[i]} ELSE @ \ {old[i]}]
    BY <1>2, <1>7 DEF SetSelectedRow
  <2>2. gtk' = [gtk EXCEPT !.selected = s]
    BY <2>1
  <2>3. s \in [1..n -> BOOLEAN] /\ (s[i] <=> on) /\ \A j \in 1..n : j # i => s[j] = gtk.selected[j]
    BY <1>3, <2>1
  <2> HIDE DEF s
  <2>4. T = IF on THEN C \cup {old[i]} ELSE C \ {old[i]}
    <3>1. CASE on
      <4>1. ASSUME NEW x \in T PROVE x \in C \cup {old[i]}
        BY <1>4, <2>3
      <4>2. ASSUME NEW x \in C \cup {old[i]} PROVE x \in T
        BY <1>4, <2>1, <2>3, <3>1
      <4> QED BY <3>1, <4>1, <4>2
    <3>2. CASE ~on
      <4>1. ASSUME NEW x \in T PROVE x \in C \ {old[i]}
        BY <1>2, <1>4, <2>1, <2>3, <3>2
      <4>2. ASSUME NEW x \in C \ {old[i]} PROVE x \in T
        BY <1>4, <2>3
      <4> QED BY <3>2, <4>1, <4>2
    <3> QED BY <3>1, <3>2
  <2>5. chosen' = [chosen EXCEPT !.items = T]
    <3> HIDE DEF T
    <3> QED BY <2>1, <2>4
  <2>6. chosen' = [chosen EXCEPT !.items = {old[k] : k \in {j \in 1..Len(old) : s[j]}}]
    BY <1>2, <2>5, Zenon
  <2>7. s \in [1..Len(old) -> BOOLEAN]
    BY <1>2, <2>3
  <2> QED BY <2>1, <2>2, <2>6, <2>7, SelectionSet
<1>8. ASSUME NEW on \in BOOLEAN, SelectAllRows(on) PROVE DetailsGood'
  <2> DEFINE s == [j \in 1..n |-> on]
             T == {old[k] : k \in {j \in 1..n : s[j]}}
  <2>1. list' = list /\ gtk' = [gtk EXCEPT !.selected = s]
        /\ chosen' = [chosen EXCEPT !.items = IF on THEN Items(list) ELSE {}]
    BY <1>3, <1>8 DEF SelectAllRows
  <2>2. s \in [1..n -> BOOLEAN]
    OBVIOUS
  <2>3. Items(list) = {old[k] : k \in 1..n}
    BY <1>2 DEF Items
  <2>4. T = IF on THEN Items(list) ELSE {}
    BY <2>3
  <2> HIDE DEF s
  <2>5. chosen' = [chosen EXCEPT !.items = T]
    <3> HIDE DEF T
    <3> QED BY <2>1, <2>4
  <2>6. chosen' = [chosen EXCEPT !.items = {old[k] : k \in {j \in 1..Len(old) : s[j]}}]
    BY <1>2, <2>5, Zenon
  <2>7. s \in [1..Len(old) -> BOOLEAN]
    BY <1>2, <2>2
  <2> QED BY <2>1, <2>6, <2>7, SelectionSet
<1>9. ASSUME NEW start, NEW end, NEW toggle \in BOOLEAN, LassoRows(start, end, toggle) PROVE DetailsGood'
  <2> DEFINE low == IF start < end THEN start ELSE end
             high == IF start < end THEN end ELSE start
             s == [i \in 1..n |-> LassoWants(low, high, toggle, i, gtk.selected[i])]
             T == {old[k] : k \in {j \in 1..n : s[j]}}
  <2>1. list' = list /\ gtk' = [gtk EXCEPT !.selected = s]
        /\ chosen' = [chosen EXCEPT !.items = {old[i] : i \in {j \in 1..n : gtk'.selected[j]}}]
    BY <1>2, <1>3, <1>9 DEF LassoRows
  <2> HIDE DEF low, high
  <2>2. s \in [1..n -> BOOLEAN]
    <3>1. \A i \in 1..n : LassoWants(low, high, toggle, i, gtk.selected[i]) \in BOOLEAN
      BY <1>3 DEF LassoWants
    <3> QED BY <3>1
  <2> HIDE DEF s
  <2>3. gtk'.selected = s
    BY <1>3, <2>1
  <2>4. chosen' = [chosen EXCEPT !.items = {old[k] : k \in {j \in 1..Len(old) : s[j]}}]
    <3> DEFINE R(f) == {old[k] : k \in {j \in 1..n : f[j]}}
    <3>1. chosen' = [chosen EXCEPT !.items = R(gtk'.selected)]
      BY <2>1
    <3>2. R(s) = {old[k] : k \in {j \in 1..Len(old) : s[j]}}
      BY <1>2, Zenon
    <3> HIDE DEF R
    <3> QED BY <2>3, <3>1, <3>2
  <2>5. s \in [1..Len(old) -> BOOLEAN]
    BY <1>2, <2>2
  <2> QED BY <2>1, <2>4, <2>5, SelectionSet
<1> QED BY <1>5, <1>6, <1>7, <1>8, <1>9

LEMMA RowFlashes ==
    ASSUME DetailsGood, WinkEnds \/ \E i \in Row : WinkRow(i)
    PROVE  DetailsGood'
<1>1. ListGood(list) /\ GtkFor(gtk, Len(list.items)) /\ Shows(list.items, gtk, chosen.items, chosen.cursor)
      /\ list.missed = {} /\ chosen \in [items : {chosen.items}, cursor : {chosen.cursor}]
  BY DEF DetailsGood, ViewGood, View
<1>2. PICK w : list' = [list EXCEPT !.wink = w] /\ gtk' = gtk /\ chosen' = chosen
  BY DEF WinkEnds, WinkRow
<1>3. list \in [items : {list.items}, key : {list.key}, ascending : {list.ascending}, wink : {list.wink}, missed : {list.missed}]
  BY <1>1 DEF ListGood
<1> DEFINE m == list'
<1>4. m.items = list.items /\ m.key = list.key /\ m.ascending = list.ascending /\ m.missed = list.missed
      /\ m \in [items : {m.items}, key : {m.key}, ascending : {m.ascending}, wink : {m.wink}, missed : {m.missed}]
  BY <1>2, <1>3
<1> HIDE DEF m
<1>5. ListGood(m)
  BY <1>1, <1>4 DEF ListGood
<1>6. View'.list = m /\ View'.gtk = gtk
  BY <1>2 DEF View, m
<1>7. ViewGood(View', chosen'.items, chosen'.cursor)
  BY <1>1, <1>2, <1>4, <1>5, <1>6 DEF ViewGood
<1> QED BY <1>1, <1>2, <1>4, <1>7 DEF DetailsGood, m

LEMMA DetailsSteps == DetailsGood /\ [DetailsNext]_detailsVars => DetailsGood'
<1> SUFFICES ASSUME DetailsGood, [DetailsNext]_detailsVars PROVE DetailsGood'
  OBVIOUS
<1>1. CASE UNCHANGED detailsVars
  <2>1. list' = list /\ gtk' = gtk /\ chosen' = chosen
    BY <1>1 DEF detailsVars
  <2>2. View' = View
    BY <2>1 DEF View
  <2> QED BY <2>1, <2>2 DEF DetailsGood
<1>2. CASE DetailsNext
  <2>1. \/ \E x, y \in Row : ItemsNew(IF x = y THEN <<x>> ELSE <<x, y>>)
        \/ \E S \in SUBSET Row : ItemsGone(S) \/ \E k \in 1..MaxSortKey : ItemsModified(S, k)
        \/ ClearView \/ ReverseOrder
        \/ \E i \in 0..Cardinality(Row) : CursorToIter(i) \/ SelectOnlyRow(i)
        \/ \E i \in Row, on \in BOOLEAN : SetSelectedRow(i, on) \/ SelectAllRows(on)
        \/ \E i, j \in 1..(Cardinality(Row) + 1), b \in BOOLEAN : LassoRows(i, j, b)
        \/ WinkEnds \/ \E i \in Row : WinkRow(i)
    BY <1>2, Zenon DEF DetailsNext
  <2> QED BY <2>1, DirectoryTells, UserChooses, RowFlashes, Zenon
<1> QED BY <1>1, <1>2

(* The list view: however the rows are added, sorted, changed and removed, *)
(* the selection and the cursor that GTK keeps by position stay with the *)
(* items they were put on, no update misses its row, and an iterator gives *)
(* every item once, or every selected one. *)
THEOREM RowsAlwaysFollow == DetailsSpec => []RowsFollow
<1>1. DetailsInit => DetailsGood
  BY DetailsStarts
<1>2. DetailsGood /\ [DetailsNext]_detailsVars => DetailsGood'
  BY DetailsSteps
<1>3. DetailsGood => RowsFollow
  BY RowsFollowWhenGood
<1> QED BY <1>1, <1>2, <1>3, PTL DEF DetailsSpec

(***************************************************************************)
(* Run actions.  A disk is good if its links name programs and what there  *)
(* is of a program is that program.                                        *)
(***************************************************************************)
EntryGood(v) == v = NotThere \/ (v.is # "nothing" /\ (v.is = "link" => v.to \in App))
DiskGood(d) ==
    /\ d \in [RunPath -> {d[p] : p \in RunPath}]
    /\ \A p \in RunPath : EntryGood(d[p])
    /\ \A a \in App : d[<<"app", a>>] \in {NotThere, Program(a)}
(* What was bound by the box and not touched since is what is on the disk. *)
BoundGood(d, b) ==
    /\ b \in [RunName -> {b[n] : n \in RunName}]
    /\ \A n \in RunName : b[n] # NotThere => d[<<"user", n>>] = b[n]
BoxGood(b) ==
    /\ b \in [state : {"none", "open", "closing"}, type : {b.type}, media : BOOLEAN, text : {b.text}]
    /\ b.state # "none" => b.type \in Type
(* A box that waits for an answer about another entry than it would write *)
(* is one that clears. *)
AskGood(q) == q = NotAsking \/
    \E x \in ActionBox :
      /\ q \in [box : {{x}}, does : {"clear", "drop", "command"}, with : {q.with}, path : RunPath]
      /\ actionBox[x].state # "none"
      /\ q.does = "drop" => q.with \in App
      /\ q.does # "clear" => q.path = SavePath(actionBox[x])
RunInv ==
    /\ DiskGood(disk) /\ BoundGood(disk, bound)
    /\ actionBox \in [ActionBox -> {actionBox[x] : x \in ActionBox}]
    /\ \A x \in ActionBox : BoxGood(actionBox[x])
    /\ AskGood(asksToDelete)
    /\ outside \in Nat

(* Of a sequence of paths the first that is good, if there is one. *)
LEMMA FirstIs ==
    ASSUME NEW s, NEW good, NEW n \in Nat, DOMAIN s = 1..n
    PROVE  \/ FirstIn(s, good) = NoRun /\ \A i \in 1..n : s[i] \notin good
           \/ \E i \in 1..n : /\ FirstIn(s, good) = s[i] /\ s[i] \in good
                              /\ \A j \in 1..n : j < i => s[j] \notin good
<1> DEFINE fit == {i \in DOMAIN s : s[i] \in good}
           least == CHOOSE i \in fit : \A j \in fit : i <= j
<1>1. CASE fit = {}
  BY <1>1 DEF FirstIn
<1>2. CASE fit # {}
  <2> DEFINE Low == {k \in 0..n : \A i \in 1..n : i <= k => s[i] \notin good}
  <2>1. 0 \in Low
    OBVIOUS
  <2>2. ASSUME \A i \in fit : ~ \A j \in fit : i <= j PROVE FALSE
    <3>1. ASSUME NEW k \in 0..n, k \in Low, k < n PROVE k + 1 \in Low
      <4>1. k + 1 \in 1..n /\ k + 1 \in 0..n
        BY <3>1
      <4>2. ASSUME NEW i \in 1..n, i <= k + 1, s[i] \in good PROVE FALSE
        <5>1. i = k + 1
          BY <3>1, <4>2
        <5>2. i \in fit
          BY <4>2
        <5>3. PICK j \in fit : ~(i <= j)
          BY <2>2, <5>2
        <5>4. j \in 1..n /\ s[j] \in good
          OBVIOUS
        <5>5. j <= k
          BY <5>1, <5>3, <5>4
        <5> QED BY <3>1, <5>4, <5>5
      <4> QED BY <4>1, <4>2
    <3> HIDE DEF Low
    <3>2. 0..n \subseteq Low
      BY <2>1, <3>1, UpTo
    <3>3. n \in Low
      BY <3>2
    <3> QED BY <1>2, <3>3 DEF Low
  <2>3. least \in fit /\ \A j \in fit : least <= j
    BY <2>2
  <2>4. FirstIn(s, good) = s[least]
    BY <1>2 DEF FirstIn
  <2>5. least \in 1..n /\ s[least] \in good
    BY <2>3
  <2>6. ASSUME NEW j \in 1..n, j < least PROVE s[j] \notin good
    <3> SUFFICES ASSUME s[j] \in good PROVE FALSE
      OBVIOUS
    <3>1. j \in fit
      OBVIOUS
    <3>2. least <= j
      BY <2>3, <3>1
    <3> HIDE DEF least
    <3> QED BY <2>5, <2>6, <3>2
  <2> HIDE DEF least
  <2> QED BY <2>4, <2>5, <2>6
<1> QED BY <1>1, <1>2

(* Only which of its elements are good counts. *)
LEMMA FirstSame ==
    ASSUME NEW s, NEW good, NEW fine, \A i \in DOMAIN s : s[i] \in good <=> s[i] \in fine
    PROVE  FirstIn(s, good) = FirstIn(s, fine)
<1> DEFINE A == {i \in DOMAIN s : s[i] \in good}
           B == {i \in DOMAIN s : s[i] \in fine}
           Of(S) == IF S = {} THEN NoRun ELSE s[CHOOSE i \in S : \A j \in S : i <= j]
<1>1. A = B
  OBVIOUS
<1>2. FirstIn(s, good) = Of(A) /\ FirstIn(s, fine) = Of(B)
  BY DEF FirstIn
<1> HIDE DEF A, B, Of
<1> QED BY <1>1, <1>2

LEMMA FirstOfTwo ==
    ASSUME NEW a, NEW b, NEW good
    PROVE  FirstIn(<<a, b>>, good) = IF a \in good THEN a ELSE IF b \in good THEN b ELSE NoRun
<1> DEFINE s == <<a, b>>
<1>1. DOMAIN s = 1..2 /\ s[1] = a /\ s[2] = b /\ 2 \in Nat
  OBVIOUS
<1> HIDE DEF s
<1>2. \/ FirstIn(s, good) = NoRun /\ \A i \in 1..2 : s[i] \notin good
      \/ \E i \in 1..2 : /\ FirstIn(s, good) = s[i] /\ s[i] \in good
                         /\ \A j \in 1..2 : j < i => s[j] \notin good
  BY <1>1, FirstIs
<1>3. 1 \in 1..2 /\ 2 \in 1..2 /\ 1 < 2 /\ \A i \in 1..2 : i = 1 \/ i = 2
  OBVIOUS
<1>4. FirstIn(s, good) = IF a \in good THEN a ELSE IF b \in good THEN b ELSE NoRun
  BY <1>1, <1>2, <1>3
<1> QED BY <1>4 DEF s

LEMMA FirstOfThree ==
    ASSUME NEW a, NEW b, NEW c, NEW good
    PROVE  FirstIn(<<a, b, c>>, good) =
               IF a \in good THEN a ELSE IF b \in good THEN b ELSE IF c \in good THEN c ELSE NoRun
<1> DEFINE s == <<a, b, c>>
<1>1. DOMAIN s = 1..3 /\ s[1] = a /\ s[2] = b /\ s[3] = c /\ 3 \in Nat
  OBVIOUS
<1> HIDE DEF s
<1>2. \/ FirstIn(s, good) = NoRun /\ \A i \in 1..3 : s[i] \notin good
      \/ \E i \in 1..3 : /\ FirstIn(s, good) = s[i] /\ s[i] \in good
                         /\ \A j \in 1..3 : j < i => s[j] \notin good
  BY <1>1, FirstIs
<1>3. /\ 1 \in 1..3 /\ 2 \in 1..3 /\ 3 \in 1..3 /\ 1 < 2 /\ 1 < 3 /\ 2 < 3
      /\ \A i \in 1..3 : i = 1 \/ i = 2 \/ i = 3
  OBVIOUS
<1>4. FirstIn(s, good) =
          IF a \in good THEN a ELSE IF b \in good THEN b ELSE IF c \in good THEN c ELSE NoRun
  BY <1>1, <1>2, <1>3
<1> QED BY <1>4 DEF s

(* What is defined from what it is for the parents exists: by induction on *)
(* how far a type is above its ancestors. *)
Given(f, t) == [i \in DOMAIN ParentsOf[t] |-> f[ParentsOf[t][i]]]
Inherits(f, V, Step) == f \in [Type -> V] /\ \A t \in Type : f[t] = Step[t][Given(f, t)]
LEMMA ParentsAre ==
    ASSUME NEW t \in Type
    PROVE  /\ ParentsOf[t] \in Seq(Type) /\ Len(ParentsOf[t]) \in Nat /\ DOMAIN ParentsOf[t] = 1..Len(ParentsOf[t])
           /\ \A i \in DOMAIN ParentsOf[t] : ParentsOf[t][i] \in Type
BY RunAssumption DEF RunAssumption
LEMMA GivenSeq ==
    ASSUME NEW V, NEW t \in Type, NEW f \in [Type -> V]
    PROVE  Given(f, t) \in Seq(V)
<1>1. \A i \in 1..Len(ParentsOf[t]) : f[ParentsOf[t][i]] \in V
  BY ParentsAre
<1>2. Given(f, t) = [i \in 1..Len(ParentsOf[t]) |-> f[ParentsOf[t][i]]]
  BY ParentsAre DEF Given
<1>3. Given(f, t) \in [1..Len(ParentsOf[t]) -> V]
  BY <1>1, <1>2
<1>4. PICK k \in Nat : Given(f, t) \in [1..k -> V]
  BY <1>3, ParentsAre
<1> QED BY <1>4, SeqDef
LEMMA InheritsExists ==
    ASSUME NEW V, NEW v \in V, NEW Step, \A t \in Type : Step[t] \in [Seq(V) -> V]
    PROVE  \E f : Inherits(f, V, Step)
<1> DEFINE n == Cardinality(Type)
<1>1. PICK rank \in [Type -> 0..n] :
          \A t \in Type : \A i \in DOMAIN ParentsOf[t] : rank[ParentsOf[t][i]] < rank[t]
  BY RunAssumption DEF RunAssumption
<1>2. n \in Nat
  BY RunAssumption, FS_CardinalityType DEF RunAssumption
<1>3. \A t \in Type : rank[t] \in Nat /\ rank[t] <= n
  BY <1>1, <1>2
<1> HIDE DEF n
<1>5. ASSUME NEW t \in Type, NEW f \in [Type -> V] PROVE Given(f, t) \in Seq(V)
  BY GivenSeq
<1> DEFINE Made(f, m) == f \in [Type -> V] /\ \A t \in Type : rank[t] < m => f[t] = Step[t][Given(f, t)]
           M == {m \in 0..(n + 1) : \E f : Made(f, m)}
<1>6. 0 \in M
  <2>1. Made([t \in Type |-> v], 0)
    BY <1>3
  <2>2. 0 \in 0..(n + 1)
    BY <1>2
  <2> QED BY <2>1, <2>2
<1>7. ASSUME NEW m \in 0..(n + 1), m \in M, m < n + 1 PROVE m + 1 \in M
  <2>1. PICK f : Made(f, m)
    BY <1>7
  <2> DEFINE g == [t \in Type |-> IF rank[t] = m THEN Step[t][Given(f, t)] ELSE f[t]]
  <2>2. g \in [Type -> V]
    BY <1>5, <2>1
  <2>3. ASSUME NEW t \in Type, rank[t] < m + 1 PROVE g[t] = Step[t][Given(g, t)]
    <3>1. \A i \in DOMAIN ParentsOf[t] : ParentsOf[t][i] \in Type /\ rank[ParentsOf[t][i]] # m
      BY <1>1, <1>2, <1>3, ParentsAre, <2>3
    <3>2. \A i \in DOMAIN ParentsOf[t] : g[ParentsOf[t][i]] = f[ParentsOf[t][i]]
      BY <3>1
    <3>3. Given(g, t) = Given(f, t)
      BY <3>2 DEF Given
    <3>4. rank[t] = m \/ rank[t] < m
      BY <1>2, <1>3, <2>3
    <3>5. CASE rank[t] = m
      BY <3>3, <3>5
    <3>6. CASE rank[t] < m
      <4>1. rank[t] # m /\ f[t] = Step[t][Given(f, t)]
        BY <1>3, <2>1, <3>6
      <4> QED BY <3>3, <4>1
    <3> QED BY <3>4, <3>5, <3>6
  <2> HIDE DEF g
  <2>4. Made(g, m + 1)
    BY <2>2, <2>3
  <2>5. m + 1 \in 0..(n + 1)
    BY <1>2, <1>7
  <2> HIDE DEF Made
  <2> QED BY <2>4, <2>5
<1> HIDE DEF M
<1>8. n + 1 \in M
  <2>1. n + 1 \in Nat /\ n + 1 \in 0..(n + 1)
    BY <1>2
  <2>2. 0..(n + 1) \subseteq M
    BY <2>1, <1>6, <1>7, UpTo
  <2> QED BY <2>1, <2>2
<1>9. PICK f : Made(f, n + 1)
  BY <1>8 DEF M
<1>10. \A t \in Type : rank[t] < n + 1
  BY <1>2, <1>3
<1> QED BY <1>9, <1>10 DEF Inherits

LEMMA FirstAmong ==
    ASSUME NEW s, NEW good, NEW n \in Nat, DOMAIN s = 1..n
    PROVE  FirstIn(s, good) \in good \cup {NoRun}
BY FirstIs

(* The program for a type is found as its definition says: it is defined by *)
(* what it is for the parents. *)
OwnHandler(t) == FirstIn(<<ChoicesLoad(t), ChoicesLoad(MediaOf[t]), DefaultApp(t)>>, RunPath)
HandlerRecurs == \A t \in Type :
    HandlerFor[t] = IF OwnHandler(t) # NoRun THEN Followed(OwnHandler(t)) ELSE FirstIn(Given(HandlerFor, t), RunPath)
LEMMA HandlerIs == HandlerRecurs
<1> DEFINE V == RunPath \cup {NoRun} \cup {Followed(p) : p \in RunPath}
           Made(t, s) == IF OwnHandler(t) # NoRun THEN Followed(OwnHandler(t)) ELSE FirstIn(s, RunPath)
           Step == [t \in Type |-> [s \in Seq(V) |-> Made(t, s)]]
           Whole(f) == f = [t \in Type |-> Made(t, Given(f, t))]
<1>1. HandlerFor = CHOOSE f : Whole(f)
  BY DEF HandlerFor, OwnHandler, Given
<1>2. NoRun \in V
  OBVIOUS
<1>3. ASSUME NEW t \in Type, NEW s \in Seq(V) PROVE Made(t, s) \in V
  <2>1. OwnHandler(t) \in RunPath \cup {NoRun}
    BY FirstOfThree DEF OwnHandler
  <2>2. FirstIn(s, RunPath) \in RunPath \cup {NoRun}
    <3>1. Len(s) \in Nat /\ DOMAIN s = 1..Len(s)
      OBVIOUS
    <3> QED BY <3>1, FirstAmong
  <2>3. OwnHandler(t) # NoRun => Followed(OwnHandler(t)) \in {Followed(p) : p \in RunPath}
    BY <2>1
  <2> QED BY <2>2, <2>3
<1> HIDE DEF V, Made
<1>4. \A t \in Type : Step[t] \in [Seq(V) -> V]
  BY <1>3
<1>5. PICK f : Inherits(f, V, Step)
  BY <1>2, <1>4, InheritsExists
<1>6. ASSUME NEW t \in Type PROVE f[t] = Made(t, Given(f, t))
  <2>1. f[t] = Step[t][Given(f, t)] /\ f \in [Type -> V]
    BY <1>5 DEF Inherits
  <2>2. Given(f, t) \in Seq(V)
    BY <2>1, GivenSeq
  <2> QED BY <2>1, <2>2
<1>7. Whole(f)
  BY <1>5, <1>6 DEF Inherits
<1>8. Whole(HandlerFor)
  BY <1>1, <1>7
<1>9. \A t \in Type : HandlerFor[t] = Made(t, Given(HandlerFor, t))
  BY <1>8
<1> QED BY <1>9 DEF HandlerRecurs, Made
LEMMA HandlerIsNext == HandlerRecurs'
BY HandlerIs, PTL

(* The names a type may use. *)
LEMMA NamesAre ==
    \A t \in Type : NamesFor[t] = {t, MediaOf[t]} \cup UNION {NamesFor[ParentsOf[t][i]] : i \in DOMAIN ParentsOf[t]}
<1> DEFINE V == SUBSET RunName
           Made(t, s) == {t, MediaOf[t]} \cup UNION {s[i] : i \in DOMAIN s}
           Step == [t \in Type |-> [s \in Seq(V) |-> Made(t, s)]]
           Names(t, f) == {t, MediaOf[t]} \cup UNION {f[ParentsOf[t][i]] : i \in DOMAIN ParentsOf[t]}
           Whole(f) == f = [t \in Type |-> Names(t, f)]
<1>1. NamesFor = CHOOSE f : Whole(f)
  BY DEF NamesFor
<1>2. {} \in V
  OBVIOUS
<1>3. ASSUME NEW t \in Type, NEW s \in Seq(V) PROVE Made(t, s) \in V
  <2>1. \A i \in DOMAIN s : s[i] \subseteq RunName
    OBVIOUS
  <2>2. {t, MediaOf[t]} \subseteq RunName
    BY DEF RunName
  <2> QED BY <2>1, <2>2, Zenon
<1>4. ASSUME NEW t \in Type, NEW f PROVE Made(t, Given(f, t)) = Names(t, f)
  <2>1. DOMAIN Given(f, t) = DOMAIN ParentsOf[t]
    BY DEF Given
  <2>2. \A i \in DOMAIN ParentsOf[t] : Given(f, t)[i] = f[ParentsOf[t][i]]
    BY DEF Given
  <2> HIDE DEF Made
  <2>3. {Given(f, t)[i] : i \in DOMAIN Given(f, t)} = {f[ParentsOf[t][i]] : i \in DOMAIN ParentsOf[t]}
    BY <2>1, <2>2
  <2> QED BY <2>3 DEF Made
<1> HIDE DEF V, Made, Names
<1>5. \A t \in Type : Step[t] \in [Seq(V) -> V]
  BY <1>3
<1>6. PICK f : Inherits(f, V, Step)
  BY <1>2, <1>5, InheritsExists
<1>7. ASSUME NEW t \in Type PROVE f[t] = Names(t, f)
  <2>1. f[t] = Step[t][Given(f, t)] /\ f \in [Type -> V]
    BY <1>6 DEF Inherits
  <2>2. Given(f, t) \in Seq(V)
    BY <2>1, GivenSeq
  <2>3. f[t] = Made(t, Given(f, t))
    BY <2>1, <2>2
  <2> QED BY <2>3, <1>4
<1>8. Whole(f)
  BY <1>6, <1>7 DEF Inherits
<1>9. Whole(NamesFor)
  BY <1>1, <1>8
<1>10. \A t \in Type : NamesFor[t] = Names(t, NamesFor)
  BY <1>9
<1> QED BY <1>10 DEF Names

(* What holds of a type when it holds of its parents holds of all types. *)
LEMMA TypesRise ==
    ASSUME NEW S, \A t \in Type : (\A i \in DOMAIN ParentsOf[t] : ParentsOf[t][i] \in S) => t \in S
    PROVE  \A t \in Type : t \in S
<1> DEFINE n == Cardinality(Type)
<1>1. PICK rank \in [Type -> 0..n] :
          \A t \in Type : \A i \in DOMAIN ParentsOf[t] : rank[ParentsOf[t][i]] < rank[t]
  BY RunAssumption DEF RunAssumption
<1>2. n \in Nat
  BY RunAssumption, FS_CardinalityType DEF RunAssumption
<1>3. \A t \in Type : rank[t] \in Nat /\ rank[t] <= n
  BY <1>1, <1>2
<1> HIDE DEF n
<1> DEFINE M == {m \in 0..(n + 1) : \A t \in Type : rank[t] < m => t \in S}
<1>4. 0 \in M
  BY <1>2, <1>3
<1>5. ASSUME NEW m \in 0..(n + 1), m \in M, m < n + 1 PROVE m + 1 \in M
  <2>1. ASSUME NEW t \in Type, rank[t] < m + 1 PROVE t \in S
    <3>1. ASSUME NEW i \in DOMAIN ParentsOf[t] PROVE ParentsOf[t][i] \in S
      <4>1. ParentsOf[t][i] \in Type /\ rank[ParentsOf[t][i]] < rank[t]
        BY <1>1, ParentsAre
      <4>2. rank[ParentsOf[t][i]] < m
        BY <1>2, <1>3, <2>1, <4>1
      <4> QED BY <1>5, <4>1, <4>2
    <3> QED BY <3>1
  <2>2. m + 1 \in 0..(n + 1)
    BY <1>2, <1>5
  <2> QED BY <2>1, <2>2
<1> HIDE DEF M
<1>6. n + 1 \in Nat /\ n + 1 \in 0..(n + 1)
  BY <1>2
<1>7. 0..(n + 1) \subseteq M
  BY <1>4, <1>5, <1>6, UpTo
<1>8. n + 1 \in M
  BY <1>6, <1>7
<1> QED BY <1>2, <1>3, <1>8 DEF M

LEMMA PathsAre ==
    /\ NoRun \notin RunPath
    /\ \A n \in RunName : <<"user", n>> \in RunPath /\ <<"system", n>> \in RunPath
    /\ \A a \in App : <<"app", a>> \in RunPath
    /\ \A t \in Type : t \in RunName /\ MediaOf[t] \in RunName
    /\ \A p \in RunPath : \/ \E n \in RunName : p = <<"user", n>> \/ p = <<"system", n>>
                          \/ \E a \in App : p = <<"app", a>>
BY DEF NoRun, RunPath, RunName

LEMMA LoadsFrom ==
    ASSUME NEW n \in RunName
    PROVE  ChoicesLoad(n) = IF RunExists(<<"user", n>>) THEN <<"user", n>>
                            ELSE IF RunExists(<<"system", n>>) THEN <<"system", n>> ELSE NoRun
<1> DEFINE good == {p \in RunPath : RunExists(p)}
           u == <<"user", n>>
           s == <<"system", n>>
<1>1. ChoicesLoad(n) = FirstIn(<<u, s>>, good)
  BY DEF ChoicesLoad, FirstThere, ChoicesPaths
<1>2. (u \in good <=> RunExists(u)) /\ (s \in good <=> RunExists(s))
  BY PathsAre
<1> HIDE DEF good, u, s
<1>3. FirstIn(<<u, s>>, good) = IF u \in good THEN u ELSE IF s \in good THEN s ELSE NoRun
  BY FirstOfTwo
<1>4. ChoicesLoad(n) = IF RunExists(u) THEN u ELSE IF RunExists(s) THEN s ELSE NoRun
  BY <1>1, <1>2, <1>3
<1> QED BY <1>4 DEF u, s

LEMMA OwnIs ==
    ASSUME NEW t \in Type
    PROVE  OwnHandler(t) = IF ChoicesLoad(t) \in RunPath THEN ChoicesLoad(t)
                           ELSE IF ChoicesLoad(MediaOf[t]) \in RunPath THEN ChoicesLoad(MediaOf[t])
                           ELSE IF DefaultApp(t) \in RunPath THEN DefaultApp(t) ELSE NoRun
BY FirstOfThree DEF OwnHandler

(* What was set is found before anything else. *)
LEMMA WhatWasSetRuns == ASSUME RunInv PROVE RunsWhatWasSet
<1> SUFFICES ASSUME NEW n \in RunName, Present(bound[n]), NEW t \in Type,
                    t = n \/ (MediaOf[t] = n /\ ~Specific(t))
             PROVE  Runs(t) = WhatRuns(bound[n])
  BY DEF RunsWhatWasSet
<1> DEFINE u == <<"user", n>>
           v == bound[n]
<1>1. DiskGood(disk) /\ BoundGood(disk, bound)
  BY DEF RunInv
<1>2. u \in RunPath /\ disk[u] = v /\ v # NotThere /\ EntryGood(v)
  <2>1. v # NotThere
    BY DEF Present
  <2> QED BY <1>1, <2>1, PathsAre DEF DiskGood, BoundGood
<1>3. v.is # "nothing" /\ (v.is = "link" => v.to \in App)
  BY <1>2 DEF EntryGood
<1>4. ASSUME v.is = "link" PROVE disk[<<"app", v.to>>].is # "nothing"
  <2>1. disk[<<"app", v.to>>] # NotThere
    BY <1>4 DEF Present
  <2>2. disk[<<"app", v.to>>] = Program(v.to) /\ v.to \in App
    BY <1>1, <1>3, <1>4, <2>1 DEF DiskGood
  <2>3. AppKind[v.to] # "nothing"
    BY <2>2, RunAssumption DEF RunAssumption
  <2> QED BY <2>2, <2>3 DEF Program
<1>5. RunExists(u)
  BY <1>2, <1>3, <1>4, PathsAre DEF RunExists
<1>6. ChoicesLoad(n) = u
  BY <1>5, LoadsFrom
<1>7. OwnHandler(t) = u
  <2>1. CASE t = n
    BY <1>2, <1>6, <2>1, OwnIs
  <2>2. CASE MediaOf[t] = n /\ ~Specific(t)
    <3>1. ChoicesLoad(t) \notin RunPath
      BY <2>2, PathsAre DEF Specific
    <3> QED BY <1>2, <1>6, <2>2, <3>1, OwnIs
  <2> QED BY <2>1, <2>2
<1>8. HandlerFor[t] = Followed(u)
  BY <1>2, <1>7, HandlerIs, PathsAre DEF HandlerRecurs
<1>9. CASE v.is = "link"
  <2>1. HandlerFor[t] = <<"app", v.to>>
    BY <1>2, <1>8, <1>9, PathsAre DEF Followed
  <2>2. <<"app", v.to>> \in RunPath
    BY <1>3, <1>9, PathsAre
  <2> HIDE DEF v
  <2>3. Runs(t) = disk[<<"app", v.to>>]
    BY <2>1, <2>2, PathsAre DEF Runs
  <2>4. WhatRuns(v) = disk[<<"app", v.to>>]
    BY <1>9 DEF WhatRuns
  <2> QED BY <2>3, <2>4 DEF v
<1>10. CASE v.is # "link"
  <2>1. HandlerFor[t] = u
    BY <1>2, <1>8, <1>10 DEF Followed
  <2> HIDE DEF v, u
  <2>2. Runs(t) = v
    BY <1>2, <2>1, PathsAre DEF Runs
  <2>3. WhatRuns(v) = v
    BY <1>10 DEF WhatRuns
  <2> QED BY <2>2, <2>3 DEF v
<1> QED BY <1>9, <1>10

(* An entry that changes changes nothing for the types that do not use its *)
(* name. *)
OthersSame(u) == \A p \in RunPath : p # u => disk'[p] = disk[p]
NotThat(p, u) == p \in RunPath \cup {NoRun} /\ p # u
LEMMA SameExists ==
    ASSUME DiskGood(disk), NEW n \in RunName, OthersSame(<<"user", n>>), NEW p \in RunPath, p # <<"user", n>>
    PROVE  /\ RunExists(p)' <=> RunExists(p)
           /\ Followed(p)' = Followed(p) /\ NotThat(Followed(p), <<"user", n>>)
<1>1. p # NoRun /\ disk'[p] = disk[p] /\ EntryGood(disk[p])
  BY PathsAre DEF OthersSame, DiskGood
<1>2. CASE disk[p].is = "link"
  <2>1. disk[p].to \in App
    BY <1>1, <1>2 DEF EntryGood, NotThere
  <2> DEFINE q == <<"app", disk[p].to>>
  <2>2. q \in RunPath /\ q # <<"user", n>> /\ q[1] = "app"
    BY <2>1, PathsAre
  <2>3. disk'[q] = disk[q]
    BY <2>2 DEF OthersSame
  <2> QED BY <1>1, <1>2, <2>2, <2>3 DEF RunExists, Followed, NotThat
<1>3. CASE disk[p].is # "link"
  BY <1>1, <1>3 DEF RunExists, Followed, NotThat
<1> QED BY <1>2, <1>3

LEMMA SameLoad ==
    ASSUME DiskGood(disk), NEW n \in RunName, OthersSame(<<"user", n>>),
           NEW s, NEW k \in Nat, DOMAIN s = 1..k, \A i \in 1..k : s[i] \in RunPath /\ s[i] # <<"user", n>>
    PROVE  FirstThere(s)' = FirstThere(s) /\ NotThat(FirstThere(s), <<"user", n>>)
<1> DEFINE good == {p \in RunPath : RunExists(p)}
<1>1. FirstThere(s) = FirstIn(s, good) /\ FirstThere(s)' = FirstIn(s, good')
  BY DEF FirstThere
<1>2. ASSUME NEW i \in DOMAIN s PROVE s[i] \in good <=> s[i] \in good'
  BY SameExists
<1> HIDE DEF good
<1>3. FirstIn(s, good) = FirstIn(s, good')
  BY <1>2, FirstSame
<1>4. NotThat(FirstIn(s, good), <<"user", n>>)
  <2>1. FirstIn(s, good) = NoRun \/ \E i \in 1..k : FirstIn(s, good) = s[i]
    BY FirstIs
  <2> QED BY <2>1, PathsAre DEF NotThat
<1> QED BY <1>1, <1>3, <1>4

LEMMA SameOwn ==
    ASSUME DiskGood(disk), NEW n \in RunName, OthersSame(<<"user", n>>),
           NEW t \in Type, t # n, MediaOf[t] # n
    PROVE  OwnHandler(t)' = OwnHandler(t) /\ NotThat(OwnHandler(t), <<"user", n>>)
<1> DEFINE u == <<"user", n>>
<1>1. ASSUME NEW m \in RunName, m # n PROVE ChoicesLoad(m)' = ChoicesLoad(m) /\ NotThat(ChoicesLoad(m), u)
  <2> DEFINE s == ChoicesPaths(m)
  <2>1. DOMAIN s = 1..2 /\ 2 \in Nat /\ s[1] = <<"user", m>> /\ s[2] = <<"system", m>>
    BY DEF ChoicesPaths
  <2>2. \A i \in 1..2 : s[i] \in RunPath /\ s[i] # u
    <3>1. \A i \in 1..2 : i = 1 \/ i = 2
      OBVIOUS
    <3>2. <<"user", m>> # u /\ <<"system", m>> # u
      BY <1>1
    <3> QED BY <2>1, <3>1, <3>2, PathsAre
  <2> HIDE DEF s, u
  <2>3. FirstThere(s)' = FirstThere(s) /\ NotThat(FirstThere(s), u)
    BY <2>1, <2>2, SameLoad DEF u
  <2>4. ChoicesLoad(m) = FirstThere(s) /\ ChoicesLoad(m)' = FirstThere(s)'
    BY DEF ChoicesLoad, s
  <2> QED BY <2>3, <2>4
<1>2. DefaultApp(t)' = DefaultApp(t) /\ NotThat(DefaultApp(t), u)
  <2> DEFINE s == [i \in DOMAIN DefaultsOf[t] |-> <<"app", DefaultsOf[t][i]>>]
             k == Len(DefaultsOf[t])
  <2>1. DefaultsOf[t] \in Seq(App)
    BY RunAssumption DEF RunAssumption
  <2>2. k \in Nat /\ DOMAIN s = 1..k /\ \A i \in 1..k : DefaultsOf[t][i] \in App /\ s[i] = <<"app", DefaultsOf[t][i]>>
    BY <2>1
  <2> HIDE DEF s, k
  <2>3. \A i \in 1..k : s[i] \in RunPath /\ s[i] # u
    BY <2>2, PathsAre
  <2> HIDE DEF u
  <2>4. FirstThere(s)' = FirstThere(s) /\ NotThat(FirstThere(s), u)
    BY <2>2, <2>3, SameLoad DEF u
  <2>5. DefaultApp(t) = FirstThere(s) /\ DefaultApp(t)' = FirstThere(s)'
    BY DEF DefaultApp, s
  <2> QED BY <2>4, <2>5
<1>3. t \in RunName /\ MediaOf[t] \in RunName
  BY PathsAre
<1> HIDE DEF u
<1>4. /\ ChoicesLoad(t)' = ChoicesLoad(t) /\ NotThat(ChoicesLoad(t), u)
      /\ ChoicesLoad(MediaOf[t])' = ChoicesLoad(MediaOf[t]) /\ NotThat(ChoicesLoad(MediaOf[t]), u)
  BY <1>1, <1>3
<1>5. OwnHandler(t)' = OwnHandler(t)
  BY <1>2, <1>4 DEF OwnHandler
<1>6. NotThat(NoRun, u)
  BY PathsAre DEF NotThat, u
<1>7. NotThat(OwnHandler(t), u)
  BY <1>2, <1>4, <1>6, OwnIs
<1> QED BY <1>5, <1>7 DEF u

LEMMA OthersRunSame ==
    ASSUME DiskGood(disk), NEW n \in RunName, OthersSame(<<"user", n>>), NEW t \in Type, n \notin NamesFor[t]
    PROVE  Runs(t)' = Runs(t)
<1> DEFINE u == <<"user", n>>
           Same(r) == n \notin NamesFor[r] => HandlerFor[r]' = HandlerFor[r] /\ NotThat(HandlerFor[r], u)
           S == {r \in Type : Same(r)}
<1>1. ASSUME NEW r \in Type, \A i \in DOMAIN ParentsOf[r] : ParentsOf[r][i] \in S, n \notin NamesFor[r]
      PROVE  HandlerFor[r]' = HandlerFor[r] /\ NotThat(HandlerFor[r], u)
  <2> DEFINE g == Given(HandlerFor, r)
             k == Len(ParentsOf[r])
             own == OwnHandler(r)
  <2>1. r # n /\ MediaOf[r] # n /\ \A i \in DOMAIN ParentsOf[r] : n \notin NamesFor[ParentsOf[r][i]]
    BY <1>1, NamesAre
  <2>2. own' = own /\ NotThat(own, u)
    BY <2>1, SameOwn
  <2>3. \A i \in DOMAIN ParentsOf[r] : HandlerFor[ParentsOf[r][i]]' = HandlerFor[ParentsOf[r][i]] /\ NotThat(HandlerFor[ParentsOf[r][i]], u)
    BY <1>1, <2>1
  <2>4. g' = g
    BY <2>3 DEF Given
  <2>5. k \in Nat /\ DOMAIN g = 1..k /\ \A i \in 1..k : NotThat(g[i], u)
    BY <2>3, ParentsAre DEF Given
  <2>6. NotThat(FirstIn(g, RunPath), u)
    <3> HIDE DEF g, k, u
    <3>1. FirstIn(g, RunPath) = NoRun \/ \E i \in 1..k : FirstIn(g, RunPath) = g[i]
      BY <2>5, FirstIs
    <3>2. NotThat(NoRun, u)
      BY PathsAre DEF NotThat, u
    <3> QED BY <2>5, <3>1, <3>2
  <2>7. HandlerFor[r] = IF own # NoRun THEN Followed(own) ELSE FirstIn(g, RunPath)
    BY HandlerIs DEF HandlerRecurs
  <2>8. HandlerFor[r]' = IF own' # NoRun THEN Followed(own)' ELSE FirstIn(g', RunPath)
    BY HandlerIsNext DEF HandlerRecurs
  <2>9. own # NoRun => Followed(own)' = Followed(own) /\ NotThat(Followed(own), u)
    <3>1. ASSUME own # NoRun PROVE own \in RunPath /\ own # u
      BY <2>2, <3>1 DEF NotThat
    <3> DEFINE F(p) == Followed(p)
    <3>2. \A p \in RunPath : p # u => Followed(p)' = Followed(p) /\ NotThat(Followed(p), u)
      BY SameExists
    <3>3. own # NoRun => NotThat(Followed(own), u)
      BY <3>1, <3>2
    <3>4. own # NoRun => Followed(own)' = Followed(own)
      BY <2>2, <3>1, <3>2 DEF Followed
    <3> QED BY <3>3, <3>4
  <2> HIDE DEF own, g, u
  <2> QED BY <2>2, <2>4, <2>6, <2>7, <2>8, <2>9
<1>2. ASSUME NEW r \in Type, \A i \in DOMAIN ParentsOf[r] : ParentsOf[r][i] \in S PROVE r \in S
  BY <1>1, <1>2
<1> HIDE DEF S
<1>3. \A r \in Type : r \in S
  BY <1>2, TypesRise
<1>4. HandlerFor[t]' = HandlerFor[t] /\ NotThat(HandlerFor[t], u)
  BY <1>3 DEF S
<1>5. HandlerFor[t] # NoRun => disk'[HandlerFor[t]] = disk[HandlerFor[t]]
  BY <1>4 DEF NotThat, OthersSame
<1> HIDE DEF u
<1> QED BY <1>4, <1>5 DEF Runs

(* Removing an entry, and writing one. *)
LEMMA DiskPut ==
    ASSUME NEW d, DiskGood(d), NEW p \in RunPath, NEW v, EntryGood(v),
           \A a \in App : p = <<"app", a>> => v \in {NotThere, Program(a)}
    PROVE  /\ DiskGood([d EXCEPT ![p] = v])
           /\ \A q \in RunPath : [d EXCEPT ![p] = v][q] = IF q = p THEN v ELSE d[q]
<1> DEFINE e == [d EXCEPT ![p] = v]
<1>1. e = [q \in RunPath |-> e[q]] /\ \A q \in RunPath : e[q] = IF q = p THEN v ELSE d[q]
  BY DEF DiskGood
<1> HIDE DEF e
<1>2. e \in [RunPath -> {e[q] : q \in RunPath}]
  BY <1>1
<1>3. \A q \in RunPath : EntryGood(e[q])
  BY <1>1 DEF DiskGood
<1>4. \A a \in App : e[<<"app", a>>] \in {NotThere, Program(a)}
  BY <1>1, PathsAre DEF DiskGood
<1>5. DiskGood(e)
  BY <1>2, <1>3, <1>4 DEF DiskGood
<1> QED BY <1>1, <1>5 DEF e

LEMMA UnboundIs ==
    ASSUME NEW p \in RunPath, BoundGood(disk, bound)
    PROVE  /\ Unbound(p) \in [RunName -> {Unbound(p)[n] : n \in RunName}]
           /\ \A n \in RunName : Unbound(p)[n] = IF p = <<"user", n>> THEN NotThere ELSE bound[n]
<1> DEFINE b == Unbound(p)
<1>1. bound \in [RunName -> {bound[n] : n \in RunName}]
  BY DEF BoundGood
<1>2. b \in [RunName -> {b[n] : n \in RunName}]
  <2>1. b = [n \in RunName |-> b[n]]
    BY <1>1 DEF Unbound
  <2> HIDE DEF b
  <2> QED BY <2>1
<1>3. ASSUME NEW n \in RunName PROVE b[n] = IF p = <<"user", n>> THEN NotThere ELSE bound[n]
  <2>1. CASE p[1] = "user"
    <3>1. PICK m \in RunName : p = <<"user", m>>
      BY <2>1, PathsAre
    <3>2. b[n] = IF n = m THEN NotThere ELSE bound[n]
      BY <1>1, <2>1, <3>1 DEF Unbound
    <3> QED BY <3>1, <3>2
  <2>2. CASE p[1] # "user"
    BY <2>2 DEF Unbound
  <2> QED BY <2>1, <2>2
<1> QED BY <1>2, <1>3

LEMMA PutUnbinds ==
    ASSUME NEW p \in RunPath, DiskGood(disk), BoundGood(disk, bound), NEW v, EntryGood(v),
           \A a \in App : p = <<"app", a>> => v \in {NotThere, Program(a)}
    PROVE  /\ DiskGood([disk EXCEPT ![p] = v]) /\ BoundGood([disk EXCEPT ![p] = v], Unbound(p))
           /\ \A q \in RunPath : q # p => [disk EXCEPT ![p] = v][q] = disk[q]
           /\ \A n \in RunName : Unbound(p)[n] # bound[n] => Unbound(p)[n] = NotThere
<1> DEFINE d == [disk EXCEPT ![p] = v]
           b == Unbound(p)
<1>1. DiskGood(d) /\ \A q \in RunPath : d[q] = IF q = p THEN v ELSE disk[q]
  BY DiskPut
<1>2. /\ b \in [RunName -> {b[n] : n \in RunName}]
      /\ \A n \in RunName : b[n] = IF p = <<"user", n>> THEN NotThere ELSE bound[n]
  BY UnboundIs
<1> HIDE DEF d, b
<1>3. ASSUME NEW n \in RunName, b[n] # NotThere PROVE d[<<"user", n>>] = b[n]
  <2>1. p # <<"user", n>> /\ b[n] = bound[n]
    BY <1>2, <1>3
  <2>2. d[<<"user", n>>] = disk[<<"user", n>>]
    BY <1>1, <2>1, PathsAre
  <2> QED BY <1>3, <2>1, <2>2 DEF BoundGood
<1>4. BoundGood(d, b)
  BY <1>2, <1>3 DEF BoundGood
<1> QED BY <1>1, <1>2, <1>4 DEF d, b

Writes(d, b, n, v, w, d2, b2) ==
    /\ \/ d2 = [d EXCEPT ![<<"user", n>>] = v] /\ w \in {v, NotThere}
       \/ d2 = d /\ w = NotThere
    /\ b2 = [b EXCEPT ![n] = w]
LEMMA WrittenGood ==
    ASSUME NEW d, NEW b, DiskGood(d), BoundGood(d, b), NEW n \in RunName, NEW v, EntryGood(v),
           NEW w, NEW d2, NEW b2, Writes(d, b, n, v, w, d2, b2)
    PROVE  /\ DiskGood(d2) /\ BoundGood(d2, b2)
           /\ \A p \in RunPath : p # <<"user", n>> => d2[p] = d[p]
           /\ \A m \in RunName : m # n => b2[m] = b[m]
<1> DEFINE u == <<"user", n>>
<1>1. b \in [RunName -> {b[m] : m \in RunName}] /\ u \in RunPath /\ \A a \in App : u # <<"app", a>>
  BY PathsAre DEF BoundGood
<1>2. /\ DiskGood(d2) /\ \A p \in RunPath : p # u => d2[p] = d[p]
      /\ \/ d2[u] = v /\ w \in {v, NotThere}
         \/ d2[u] = d[u] /\ w = NotThere
  <2>1. CASE d2 = [d EXCEPT ![u] = v] /\ w \in {v, NotThere}
    <3> HIDE DEF u
    <3>1. /\ DiskGood([d EXCEPT ![u] = v])
          /\ \A q \in RunPath : [d EXCEPT ![u] = v][q] = IF q = u THEN v ELSE d[q]
      BY <1>1, DiskPut
    <3>2. d2[u] = v /\ DiskGood(d2) /\ \A p \in RunPath : p # u => d2[p] = d[p]
      BY <1>1, <2>1, <3>1
    <3> QED BY <2>1, <3>2
  <2>2. CASE d2 = d /\ w = NotThere
    BY <2>2
  <2> QED BY <2>1, <2>2 DEF Writes
<1>3. b2 = [m \in RunName |-> b2[m]] /\ b2[n] = w /\ \A m \in RunName : m # n => b2[m] = b[m]
  BY <1>1 DEF Writes
<1>4. b2 \in [RunName -> {b2[m] : m \in RunName}]
  BY <1>3
<1>5. ASSUME NEW m \in RunName, b2[m] # NotThere PROVE d2[<<"user", m>>] = b2[m]
  <2>1. CASE m = n
    BY <1>2, <1>3, <1>5, <2>1
  <2>2. CASE m # n
    <3>1. <<"user", m>> # u /\ <<"user", m>> \in RunPath
      BY <2>2, PathsAre
    <3> QED BY <1>2, <1>3, <1>5, <2>2, <3>1 DEF BoundGood
  <2> QED BY <2>1, <2>2
<1>6. BoundGood(d2, b2)
  BY <1>4, <1>5 DEF BoundGood
<1> QED BY <1>2, <1>3, <1>6

LEMMA RunInitInv == ActionsInit => RunInv
<1> SUFFICES ASSUME ActionsInit PROVE RunInv
  OBVIOUS
<1> USE DEF ActionsInit
<1>1. disk = [p \in RunPath |-> IF p[1] = "app" THEN Program(p[2]) ELSE NotThere]
  OBVIOUS
<1>2. \A p \in RunPath : \/ p[1] = "app" /\ p[2] \in App
                         \/ p[1] # "app"
  BY DEF RunPath
<1>3. \A a \in App : EntryGood(Program(a))
  <2>1. \A a \in App : AppKind[a] \notin {"nothing", "link"}
    BY RunAssumption DEF RunAssumption
  <2> QED BY <2>1 DEF EntryGood, Program
<1>4. DiskGood(disk)
  <2>1. disk = [p \in RunPath |-> disk[p]]
    BY <1>1
  <2>2. disk \in [RunPath -> {disk[p] : p \in RunPath}]
    BY <2>1
  <2>3. \A p \in RunPath : disk[p] = IF p[1] = "app" THEN Program(p[2]) ELSE NotThere
    BY <1>1
  <2>4. \A p \in RunPath : EntryGood(disk[p])
    <3>1. EntryGood(NotThere)
      BY DEF EntryGood
    <3> QED BY <1>2, <1>3, <2>3, <3>1
  <2>5. \A a \in App : <<"app", a>> \in RunPath /\ <<"app", a>>[1] = "app" /\ <<"app", a>>[2] = a
    BY PathsAre
  <2>6. \A a \in App : disk[<<"app", a>>] = Program(a)
    BY <2>3, <2>5
  <2> QED BY <2>2, <2>4, <2>6 DEF DiskGood
<1>5. BoundGood(disk, bound)
  BY DEF BoundGood
<1>6. actionBox \in [ActionBox -> {actionBox[x] : x \in ActionBox}]
  OBVIOUS
<1>7. \A x \in ActionBox : BoxGood(actionBox[x])
  BY DEF BoxGood, NewActionBox
<1> QED BY <1>4, <1>5, <1>6, <1>7 DEF RunInv, AskGood

(* The boxes: one changes at a time. *)
BoxesGood == /\ actionBox \in [ActionBox -> {actionBox[x] : x \in ActionBox}]
             /\ \A x \in ActionBox : BoxGood(actionBox[x])
LEMMA BoxChanges ==
    ASSUME BoxesGood, NEW x \in ActionBox, NEW b, BoxGood(b), actionBox' = [actionBox EXCEPT ![x] = b]
    PROVE  BoxesGood'
<1>1. actionBox' = [y \in ActionBox |-> actionBox'[y]] /\ \A y \in ActionBox : actionBox'[y] = IF y = x THEN b ELSE actionBox[y]
  BY DEF BoxesGood
<1>2. \A y \in ActionBox : BoxGood(actionBox'[y])
  BY <1>1 DEF BoxesGood
<1>3. actionBox' \in [ActionBox -> {actionBox'[y] : y \in ActionBox}]
  BY <1>1
<1> QED BY <1>2, <1>3 DEF BoxesGood
LEMMA NewBoxGood == BoxGood(NewActionBox)
BY DEF BoxGood, NewActionBox

LEMMA SavesTo ==
    ASSUME NEW b, BoxGood(b), b.state # "none"
    PROVE  SaveName(b) \in RunName /\ SavePath(b) = <<"user", SaveName(b)>> /\ SavePath(b) \in RunPath
BY PathsAre DEF BoxGood, SaveName, SavePath

(* What a step does: the invariant stays, and the two things the property *)
(* says of steps are true of it. *)
RunStepGood == RunInv' /\ SetsOnly /\ AskedFirst

(* An entry was there and has been removed, or there was none. *)
Cleaned(q, after, free) ==
    \/ after = disk /\ free = bound /\ (q = NoRun \/ disk[q].is = "nothing")
    \/ q \in RunPath /\ after = Unlink(q) /\ free = Unbound(q) /\ (disk[q].is = "big" => asksToDelete.path = q)
LEMMA Carried ==
    ASSUME RunInv, NEW x \in ActionBox, actionBox[x].state # "none", NEW does \in {"clear", "drop", "command"}, NEW a,
           does = "drop" => a \in App, NEW q \in RunPath \cup {NoRun}, NEW after, NEW free, Cleaned(q, after, free),
           does # "clear" => q = SavePath(actionBox[x]),
           Carry(x, does, a, after, free), outside' = outside
    PROVE  RunStepGood
<1> DEFINE n == SaveName(actionBox[x])
           u == SavePath(actionBox[x])
<1>1. DiskGood(disk) /\ BoundGood(disk, bound) /\ BoxesGood /\ BoxGood(actionBox[x]) /\ outside \in Nat
  BY DEF RunInv, BoxesGood
<1>2. n \in RunName /\ u = <<"user", n>> /\ u \in RunPath
  BY <1>1, SavesTo
<1>3. /\ DiskGood(after) /\ BoundGood(after, free)
      /\ \A p \in RunPath : p # q => after[p] = disk[p]
      /\ \A p \in RunPath : after[p] # disk[p] /\ disk[p].is = "big" => asksToDelete.path = p
      /\ \A m \in RunName : free[m] # bound[m] => free[m] = NotThere
  <2>1. CASE after = disk /\ free = bound
    BY <1>1, <2>1
  <2>2. CASE q \in RunPath /\ after = Unlink(q) /\ free = Unbound(q) /\ (disk[q].is = "big" => asksToDelete.path = q)
    <3>1. EntryGood(NotThere)
      BY DEF EntryGood
    <3> QED BY <1>1, <2>2, <3>1, PutUnbinds DEF Unlink
  <2> QED BY <2>1, <2>2 DEF Cleaned
<1>4. asksToDelete' = NotAsking /\ AskGood(asksToDelete)'
  BY DEF Carry, AskGood
<1>5. CASE does = "clear"
  <2>1. disk' = after /\ bound' = free /\ actionBox' = actionBox
    BY <1>5 DEF Carry, Cleared
  <2>2. RunInv'
    BY <1>1, <1>3, <1>4, <2>1 DEF RunInv, BoxesGood
  <2>3. SetsOnly
    BY <1>3, <2>1 DEF SetsOnly
  <2>4. AskedFirst
    BY <1>3, <2>1 DEF AskedFirst
  <2> QED BY <2>2, <2>3, <2>4 DEF RunStepGood
<1>6. CASE does # "clear"
  <2>1. \E v, w : EntryGood(v) /\ Writes(after, free, n, v, w, disk', bound')
    <3>1. u[2] = n
      BY <1>2
    <3>2. CASE does = "drop" /\ Linked(x, u, a, after, free)
      <4>1. EntryGood(LinkedTo(a)) /\ Writes(after, free, n, LinkedTo(a), LinkedTo(a), disk', bound')
        BY <1>2, <3>1, <3>2 DEF EntryGood, LinkedTo, Linked, Writes
      <4> QED BY <4>1
    <3>3. CASE does = "command" /\ ScriptWritten(x, u, a, after, free)
      <4> DEFINE broken == [is |-> "broken", to |-> "none"]
      <4>1. EntryGood(Script(a)) /\ EntryGood(broken)
        BY DEF EntryGood, Script
      <4>2. \/ Writes(after, free, n, Script(a), Script(a), disk', bound')
            \/ Writes(after, free, n, broken, NotThere, disk', bound')
        BY <1>2, <3>1, <3>3 DEF ScriptWritten, Writes
      <4> QED BY <4>1, <4>2
    <3> QED BY <1>6, <3>2, <3>3 DEF Carry
  <2>2. PICK v, w : EntryGood(v) /\ Writes(after, free, n, v, w, disk', bound')
    BY <2>1
  <2> HIDE DEF n, u
  <2>3. /\ DiskGood(disk') /\ BoundGood(disk', bound')
        /\ \A p \in RunPath : p # <<"user", n>> => disk'[p] = after[p]
        /\ \A m \in RunName : m # n => bound'[m] = free[m]
    BY <1>2, <1>3, <2>2, WrittenGood
  <2>4. q = u
    BY <1>6 DEF u
  <2>5. OthersSame(<<"user", n>>)
    BY <1>2, <1>3, <2>3, <2>4 DEF OthersSame
  <2>6. SetsOnly
    <3> SUFFICES ASSUME NEW m \in RunName, bound'[m] # bound[m], bound'[m] # NotThere, NEW t \in Type, m \notin NamesFor[t]
                 PROVE  Runs(t)' = Runs(t)
      BY DEF SetsOnly
    <3>1. m = n
      BY <1>3, <2>3
    <3> QED BY <1>1, <1>2, <2>5, <3>1, OthersRunSame
  <2>7. AskedFirst
    <3> SUFFICES ASSUME NEW p \in RunPath, disk[p].is = "big", disk'[p] # disk[p]
                 PROVE  asksToDelete.path = p
      BY DEF AskedFirst
    <3>1. p = u /\ p = q
      BY <1>2, <2>4, <2>5 DEF OthersSame
    <3> QED BY <3>1, PathsAre DEF Cleaned
  <2>8. BoxesGood'
    <3>1. CASE actionBox' = [actionBox EXCEPT ![x] = NewActionBox]
      BY <1>1, <3>1, BoxChanges, NewBoxGood
    <3>2. CASE actionBox' = [actionBox EXCEPT ![x].state = "closing"]
      <4> DEFINE b == [actionBox[x] EXCEPT !.state = "closing"]
      <4>1. actionBox' = [actionBox EXCEPT ![x] = b]
        BY <3>2
      <4>2. BoxGood(b)
        BY <1>1 DEF BoxGood
      <4> HIDE DEF b
      <4> QED BY <1>1, <4>1, <4>2, BoxChanges
    <3> QED BY <1>6, <3>1, <3>2 DEF Carry, Linked, ScriptWritten
  <2>9. RunInv'
    BY <1>1, <1>4, <2>3, <2>8 DEF RunInv, BoxesGood
  <2> QED BY <2>6, <2>7, <2>9 DEF RunStepGood
<1> QED BY <1>5, <1>6

LEMMA HandlerPlace ==
    ASSUME DiskGood(disk), NEW t \in Type
    PROVE  HandlerFor[t] \in RunPath \cup {NoRun}
<1>1. OwnHandler(t) \in RunPath \cup {NoRun}
  BY OwnIs
<1>2. \A p \in RunPath : Followed(p) \in RunPath
  BY PathsAre DEF Followed, DiskGood, EntryGood, NotThere
<1>3. FirstIn(Given(HandlerFor, t), RunPath) \in RunPath \cup {NoRun}
  <2>1. DOMAIN Given(HandlerFor, t) = 1..Len(ParentsOf[t]) /\ Len(ParentsOf[t]) \in Nat
    BY ParentsAre DEF Given
  <2> QED BY <2>1, FirstAmong
<1> QED BY <1>1, <1>2, <1>3, HandlerIs DEF HandlerRecurs

LEMMA RadiosPlace ==
    ASSUME DiskGood(disk), NEW b, BoxGood(b), b.state # "none"
    PROVE  ForRadios(b) \in RunPath \cup {NoRun}
<1>1. b.type \in Type
  BY DEF BoxGood
<1>2. ChoicesLoad(MediaOf[b.type]) \in RunPath \cup {NoRun}
  BY <1>1, LoadsFrom, PathsAre
<1> QED BY <1>1, <1>2, HandlerPlace DEF ForRadios

LEMMA BoxUsedGood ==
    ASSUME RunInv, NEW x \in ActionBox, NEW does \in {"clear", "drop", "command"}, NEW a, does = "drop" => a \in App,
           BoxUsed(x, does, a)
    PROVE  RunStepGood
<1> DEFINE p == IF does = "clear" THEN ForRadios(actionBox[x]) ELSE SavePath(actionBox[x])
<1>1. DiskGood(disk) /\ BoundGood(disk, bound) /\ BoxesGood /\ BoxGood(actionBox[x]) /\ outside \in Nat
  BY DEF RunInv, BoxesGood
<1>2. actionBox[x].state # "none" /\ asksToDelete = NotAsking /\ outside' = outside
  BY DEF BoxUsed, BoxUsable
<1>3. p \in RunPath \cup {NoRun} /\ (does # "clear" => p = SavePath(actionBox[x]))
  BY <1>1, <1>2, SavesTo, RadiosPlace
<1> HIDE DEF p
<1>4. CASE p = NoRun \/ disk[p].is = "nothing"
  <2>1. Carry(x, does, a, disk, bound)
    BY <1>4 DEF BoxUsed, p
  <2>2. Cleaned(p, disk, bound)
    BY <1>4 DEF Cleaned
  <2> QED BY <1>2, <1>3, <2>1, <2>2, Carried
<1>5. CASE ~(p = NoRun \/ disk[p].is = "nothing") /\ disk[p].is = "big"
  <2>1. /\ asksToDelete' = [box |-> {x}, does |-> does, with |-> a, path |-> p]
        /\ disk' = disk /\ actionBox' = actionBox /\ bound' = bound
    BY <1>5 DEF BoxUsed, p
  <2>2. p \in RunPath
    BY <1>3, <1>5
  <2>3. AskGood(asksToDelete)'
    <3> DEFINE q == [box |-> {x}, does |-> does, with |-> a, path |-> p]
    <3>1. /\ q \in [box : {{x}}, does : {"clear", "drop", "command"}, with : {q.with}, path : RunPath]
          /\ q.does = does /\ q.with = a /\ q.path = p
      BY <2>2
    <3> HIDE DEF q
    <3>2. \E y \in ActionBox :
              /\ q \in [box : {{y}}, does : {"clear", "drop", "command"}, with : {q.with}, path : RunPath]
              /\ actionBox'[y].state # "none"
              /\ q.does = "drop" => q.with \in App
              /\ q.does # "clear" => q.path = SavePath(actionBox'[y])
      <4>1. actionBox'[x].state # "none" /\ (does # "clear" => p = SavePath(actionBox'[x]))
        BY <1>2, <1>3, <2>1
      <4> QED BY <3>1, <4>1
    <3>3. asksToDelete' = q
      BY <2>1 DEF q
    <3> QED BY <3>2, <3>3 DEF AskGood
  <2>4. RunInv'
    BY <1>1, <1>2, <2>1, <2>3 DEF RunInv, BoxesGood
  <2>5. SetsOnly /\ AskedFirst
    BY <2>1 DEF SetsOnly, AskedFirst
  <2> QED BY <2>4, <2>5 DEF RunStepGood
<1>6. CASE ~(p = NoRun \/ disk[p].is = "nothing") /\ disk[p].is # "big" /\ Unlinkable(p)
  <2>1. Carry(x, does, a, Unlink(p), Unbound(p))
    BY <1>6 DEF BoxUsed, p
  <2>2. Cleaned(p, Unlink(p), Unbound(p))
    BY <1>3, <1>6 DEF Cleaned
  <2> QED BY <1>2, <1>3, <2>1, <2>2, Carried
<1>7. CASE ~(p = NoRun \/ disk[p].is = "nothing") /\ disk[p].is # "big" /\ ~Unlinkable(p)
  <2>1. asksToDelete' = NotAsking /\ disk' = disk /\ bound' = bound /\ actionBox' = actionBox
    BY <1>7 DEF BoxUsed, Abandon, p
  <2>2. RunInv'
    BY <1>1, <1>2, <2>1 DEF RunInv, BoxesGood, AskGood
  <2>3. SetsOnly /\ AskedFirst
    BY <2>1 DEF SetsOnly, AskedFirst
  <2> QED BY <2>2, <2>3 DEF RunStepGood
<1> QED BY <1>4, <1>5, <1>6, <1>7

LEMMA AnsweredGood ==
    ASSUME RunInv, NEW x \in ActionBox, NEW yes \in BOOLEAN, Answered(x, yes)
    PROVE  RunStepGood
<1> DEFINE q == asksToDelete
<1>1. DiskGood(disk) /\ BoundGood(disk, bound) /\ BoxesGood /\ outside \in Nat
  BY DEF RunInv, BoxesGood
<1>2. /\ actionBox[x].state # "none" /\ q.does \in {"clear", "drop", "command"} /\ q.path \in RunPath
      /\ q.does = "drop" => q.with \in App
      /\ q.does # "clear" => q.path = SavePath(actionBox[x])
  <2>1. q.box = {x} /\ q # NotAsking
    BY DEF Answered, NotAsking
  <2>2. PICK y \in ActionBox :
            /\ q \in [box : {{y}}, does : {"clear", "drop", "command"}, with : {q.with}, path : RunPath]
            /\ actionBox[y].state # "none"
            /\ q.does = "drop" => q.with \in App
            /\ q.does # "clear" => q.path = SavePath(actionBox[y])
    BY <2>1 DEF RunInv, AskGood
  <2>3. q.box = {y} /\ q.does \in {"clear", "drop", "command"} /\ q.path \in RunPath
    BY <2>2
  <2>4. y = x
    BY <2>1, <2>3
  <2> QED BY <2>2, <2>3, <2>4
<1>3. outside' = outside
  BY DEF Answered
<1>4. CASE Carry(x, q.does, q.with, Unlink(q.path), Unbound(q.path))
  <2>1. Cleaned(q.path, Unlink(q.path), Unbound(q.path))
    BY <1>2 DEF Cleaned
  <2> HIDE DEF q
  <2> QED BY <1>2, <1>3, <1>4, <2>1, Carried
<1>5. CASE Abandon
  <2>1. asksToDelete' = NotAsking /\ disk' = disk /\ bound' = bound /\ actionBox' = actionBox
    BY <1>5 DEF Abandon
  <2>2. RunInv'
    BY <1>1, <1>3, <2>1 DEF RunInv, BoxesGood, AskGood
  <2>3. SetsOnly /\ AskedFirst
    BY <2>1 DEF SetsOnly, AskedFirst
  <2> QED BY <2>2, <2>3 DEF RunStepGood
<1> QED BY <1>4, <1>5 DEF Answered

(* The box itself, and what others do. *)
LEMMA BoxShownGood ==
    ASSUME RunInv, NEW x \in ActionBox,
           (\E t \in Type : SetRunAction(x, t)) \/ RadioChosen(x) \/ BoxClosed(x)
    PROVE  RunStepGood
<1>1. DiskGood(disk) /\ BoundGood(disk, bound) /\ BoxesGood /\ BoxGood(actionBox[x]) /\ outside \in Nat
  BY DEF RunInv, BoxesGood
<1>2. disk' = disk /\ bound' = bound /\ asksToDelete' = asksToDelete /\ outside' = outside /\ asksToDelete = NotAsking
  BY DEF SetRunAction, RadioChosen, BoxClosed, BoxUsable
<1>3. \E b : BoxGood(b) /\ actionBox' = [actionBox EXCEPT ![x] = b]
  <2>1. ASSUME NEW t \in Type, SetRunAction(x, t) PROVE BoxGood(BoxFor(t)) /\ actionBox' = [actionBox EXCEPT ![x] = BoxFor(t)]
    BY <2>1 DEF SetRunAction, BoxGood, BoxFor, NewActionBox
  <2>2. ASSUME RadioChosen(x)
        PROVE  \E b : BoxGood(b) /\ actionBox' = [actionBox EXCEPT ![x] = b]
    <3> DEFINE b == [actionBox[x] EXCEPT !.media = ~@]
    <3>1. actionBox' = [actionBox EXCEPT ![x] = b]
      BY <2>2 DEF RadioChosen
    <3>2. BoxGood(b)
      BY <1>1 DEF BoxGood
    <3> HIDE DEF b
    <3> QED BY <3>1, <3>2
  <2>3. ASSUME BoxClosed(x) PROVE actionBox' = [actionBox EXCEPT ![x] = NewActionBox]
    BY <2>3 DEF BoxClosed
  <2> QED BY <2>1, <2>2, <2>3, NewBoxGood
<1>4. BoxesGood'
  BY <1>1, <1>3, BoxChanges
<1>5. RunInv'
  BY <1>1, <1>2, <1>4 DEF RunInv, BoxesGood, AskGood
<1>6. SetsOnly /\ AskedFirst
  BY <1>2 DEF SetsOnly, AskedFirst
<1> QED BY <1>5, <1>6 DEF RunStepGood

LEMMA OutsideGood ==
    ASSUME RunInv, OutsideSteps
    PROVE  RunStepGood
<1>1. DiskGood(disk) /\ BoundGood(disk, bound) /\ BoxesGood /\ AskGood(asksToDelete) /\ outside \in Nat
  BY DEF RunInv, BoxesGood
<1>2. actionBox' = actionBox /\ asksToDelete' = asksToDelete /\ outside' = outside + 1
  BY DEF OutsideSteps, AppComesOrGoes, EntryWritten
<1>3. DiskGood(disk') /\ BoundGood(disk', bound') /\ \A n \in RunName : bound'[n] # bound[n] => bound'[n] = NotThere
  <2>1. ASSUME NEW a \in App, AppComesOrGoes(a)
        PROVE  DiskGood(disk') /\ BoundGood(disk', bound') /\ \A n \in RunName : bound'[n] # bound[n] => bound'[n] = NotThere
    <3> DEFINE p == <<"app", a>>
               v == IF disk[p] = NotThere THEN Program(a) ELSE NotThere
    <3>1. p \in RunPath /\ EntryGood(v)
      <4>1. AppKind[a] \notin {"nothing", "link"}
        BY RunAssumption DEF RunAssumption
      <4> QED BY <4>1, PathsAre DEF EntryGood, Program
    <3>2. \A b \in App : p = <<"app", b>> => v \in {NotThere, Program(b)}
      OBVIOUS
    <3>3. disk' = [disk EXCEPT ![p] = v] /\ bound' = bound
      BY <2>1 DEF AppComesOrGoes
    <3>4. Unbound(p) = bound
      BY DEF Unbound
    <3> HIDE DEF p, v
    <3> QED BY <1>1, <3>1, <3>2, <3>3, <3>4, PutUnbinds
  <2>2. ASSUME NEW p \in {"user", "system"} \X RunName,
               NEW v \in {NotThere, Script(EmptyCommand)} \cup {LinkedTo(a) : a \in App \ Theirs}, EntryWritten(p, v)
        PROVE  DiskGood(disk') /\ BoundGood(disk', bound') /\ \A n \in RunName : bound'[n] # bound[n] => bound'[n] = NotThere
    <3>1. p \in RunPath /\ \A a \in App : p # <<"app", a>>
      BY DEF RunPath
    <3>2. EntryGood(v)
      BY DEF EntryGood, Script, LinkedTo
    <3>3. disk' = [disk EXCEPT ![p] = v] /\ bound' = Unbound(p)
      BY <2>2 DEF EntryWritten
    <3> QED BY <1>1, <3>1, <3>2, <3>3, PutUnbinds
  <2> QED BY <2>1, <2>2 DEF OutsideSteps
<1>4. RunInv'
  BY <1>1, <1>2, <1>3 DEF RunInv, BoxesGood, AskGood
<1>5. SetsOnly
  BY <1>3 DEF SetsOnly
<1>6. AskedFirst
  BY <1>1, <1>2 DEF AskedFirst
<1> QED BY <1>4, <1>5, <1>6 DEF RunStepGood

LEMMA BoxStepGood ==
    ASSUME RunInv, BoxSteps \/ OutsideSteps
    PROVE  RunStepGood
<1>1. ASSUME NEW x \in ActionBox,
             \/ BoxUsed(x, "clear", "none")
             \/ \E c \in ShellCommand \cup {actionBox[x].text} : BoxUsed(x, "command", c)
             \/ \E a \in App : BoxUsed(x, "drop", a)
      PROVE  RunStepGood
  BY <1>1, BoxUsedGood
<1> QED BY <1>1, BoxShownGood, AnsweredGood, OutsideGood DEF BoxSteps

LEMMA RunStill ==
    ASSUME RunInv, UNCHANGED runVars
    PROVE  RunStepGood
<1>1. disk' = disk /\ actionBox' = actionBox /\ asksToDelete' = asksToDelete /\ bound' = bound /\ outside' = outside
  BY DEF runVars
<1>2. RunInv'
  BY <1>1 DEF RunInv, AskGood
<1>3. SetsOnly /\ AskedFirst
  BY <1>1 DEF SetsOnly, AskedFirst
<1> QED BY <1>2, <1>3 DEF RunStepGood

(* Opening, and writing to a program. *)
PipeGood == /\ dataPipe \in [state : {"none", "open", "closed"}, sent : Int, read : Int, reader : {dataPipe.reader}, error : {dataPipe.error}]
            /\ dataPipe.sent <= DataLength
OpenInv == OpenedRight /\ AllOrError /\ PipeGood

(* What is done with an item, by what it was seen to be. *)
LEMMA OpenIs ==
    ASSUME NEW k, NEW link, NEW edit \in BOOLEAN, NEW does, does = RunDirItem(k, link, edit)
    PROVE  /\ edit => does \notin {"run", "load", "mount"}
           /\ does = "unmount" => edit /\ k = "mounted"
           /\ does = "target" => edit
           /\ does \in {"look", "mount", "unmount"} => Keeps(k, edit)
           /\ does \in {"target", "run", "mount", "unmount", "look", "edit", "load", "error"}
BY DEF RunDirItem, OpenMountPoint, DirKind, Keeps

LEMMA OpensRight ==
    ASSUME NEW shift \in BOOLEAN, NEW same, NEW close, NEW mini, OpenItem(shift, same, close, mini)
    PROVE  OpenedRight' /\ dataPipe' = dataPipe
<1>1. PICK seen \in {IF seenAs.kind = "unknown" THEN thing ELSE seenAs} :
      \E does \in {RunDirItem(seen.kind, seen.link, shift)} : \E r \in Outcomes(does, seen.kind) :
      \E moved \in {r.ok /\ same /\ does \in {"look", "mount", "target"} /\ (does = "target" => ~thing.near)} :
      \E closed \in {r.ok /\ ~moved /\ close /\ ~Keeps(seen.kind, shift)} :
         opened' = [does |-> does, seen |-> seen.kind, link |-> seen.link, shift |-> shift,
                    started |-> r.started, closed |-> closed,
                    winked |-> r.ok /\ ~moved /\ ~closed /\ ~(shift /\ seen.link)]
  BY DEF OpenItem
<1> DEFINE k == seen.kind
<1>2. PICK does \in {RunDirItem(k, seen.link, shift)} : \E r \in Outcomes(does, k) :
      \E moved \in {r.ok /\ same /\ does \in {"look", "mount", "target"} /\ (does = "target" => ~thing.near)} :
      \E closed \in {r.ok /\ ~moved /\ close /\ ~Keeps(k, shift)} :
         opened' = [does |-> does, seen |-> k, link |-> seen.link, shift |-> shift,
                    started |-> r.started, closed |-> closed,
                    winked |-> r.ok /\ ~moved /\ ~closed /\ ~(shift /\ seen.link)]
  BY <1>1
<1>3. PICK r \in Outcomes(does, k) :
         /\ opened'.does = does /\ opened'.seen = k /\ opened'.shift = shift /\ opened'.started = r.started
         /\ opened'.closed => r.ok /\ ~Keeps(k, shift)
  <2>1. PICK r \in Outcomes(does, k) :
          \E moved \in {r.ok /\ same /\ does \in {"look", "mount", "target"} /\ (does = "target" => ~thing.near)} :
          \E closed \in {r.ok /\ ~moved /\ close /\ ~Keeps(k, shift)} :
             opened' = [does |-> does, seen |-> k, link |-> seen.link, shift |-> shift,
                        started |-> r.started, closed |-> closed,
                        winked |-> r.ok /\ ~moved /\ ~closed /\ ~(shift /\ seen.link)]
    BY <1>2
  <2>2. PICK moved, closed :
             /\ closed = (r.ok /\ ~moved /\ close /\ ~Keeps(k, shift))
             /\ opened' = [does |-> does, seen |-> k, link |-> seen.link, shift |-> shift,
                        started |-> r.started, closed |-> closed,
                        winked |-> r.ok /\ ~moved /\ ~closed /\ ~(shift /\ seen.link)]
    BY <2>1, Zenon
  <2> HIDE DEF k
  <2>3. opened'.does = does /\ opened'.seen = k /\ opened'.shift = shift /\ opened'.started = r.started /\ opened'.closed = closed
    BY <2>2
  <2>4. closed => r.ok /\ ~Keeps(k, shift)
    BY <2>2, Zenon
  <2>5. opened'.closed => r.ok /\ ~Keeps(k, shift)
    BY <2>3, <2>4, Zenon
  <2> QED BY <2>3, <2>5, Zenon
<1>4. /\ shift => does \notin {"run", "load", "mount"}
      /\ does = "unmount" => shift /\ k = "mounted"
      /\ does = "target" => shift
      /\ does \in {"look", "mount", "unmount"} => Keeps(k, shift)
      /\ does \in {"target", "run", "mount", "unmount", "look", "edit", "load", "error"}
  BY <1>2, OpenIs
<1> HIDE DEF k
<1>5. does = "error" => ~r.ok
  <2>1. does = "error" => r = [ok |-> does # "error", started |-> FALSE]
    BY <1>3 DEF Outcomes
  <2> DEFINE e == does # "error"
  <2>2. does = "error" => r = [ok |-> e, started |-> FALSE]
    BY <2>1
  <2> HIDE DEF e
  <2>3. does = "error" => r.ok = e
    BY <2>2
  <2> QED BY <2>3, Zenon DEF e
<1>6. does = "run" /\ k = "program" /\ r.ok => r.started
  BY <1>3 DEF Outcomes, RunOutcomes
<1>7. does = "target" /\ ~Keeps(k, shift) => ~DirKind(k)
  BY <1>4 DEF Keeps
<1>8. OpenedRight'
  BY <1>3, <1>4, <1>5, <1>6, <1>7 DEF OpenedRight
<1> QED BY <1>8 DEF OpenItem

LEMMA OpenStepsRight ==
    ASSUME OpenInv, OpenSteps
    PROVE  OpenInv'
<1>1. OpenedRight' /\ dataPipe' = dataPipe
  <2>1. ASSUME AddedToCommand \/ Examined \/ FreedOpened
               \/ (\E k \in ItemKind, link, near \in BOOLEAN : ThingChanges(k, link, near))
               \/ (\E mini \in {"none", "path", "shell"} : BackHome(mini))
        PROVE  OpenedRight' /\ dataPipe' = dataPipe
    BY <2>1 DEF AddedToCommand, Examined, FreedOpened, ThingChanges, BackHome, OpenedRight, NotOpened
  <2> QED BY <2>1, OpensRight DEF OpenSteps
<1> QED BY <1>1 DEF OpenInv, AllOrError, PipeGood

LEMMA PipeIs ==
    ASSUME DataLength \in Nat, NEW s \in {"none", "open", "closed"}, NEW m \in Int, NEW k \in Int, NEW r, NEW e,
           dataPipe' = [state |-> s, sent |-> m, read |-> k, reader |-> r, error |-> e],
           m <= DataLength, s = "closed" => m = DataLength \/ e
    PROVE  PipeGood' /\ AllOrError'
<1>1. /\ dataPipe'.state = s /\ dataPipe'.sent = m /\ dataPipe'.read = k /\ dataPipe'.reader = r /\ dataPipe'.error = e
      /\ dataPipe' \in [state : {s}, sent : {m}, read : {k}, reader : {r}, error : {e}]
  OBVIOUS
<1>2. PipeGood'
  BY <1>1 DEF PipeGood
<1>3. AllOrError'
  BY <1>1, Zenon DEF AllOrError
<1> QED BY <1>2, <1>3

LEMMA PipeStepsRight ==
    ASSUME OpenInv, PipeSteps
    PROVE  OpenInv'
<1>1. opened' = opened
  BY DEF PipeSteps, DataDropped, WriteData, ProgramReads, ProgramEnds, PipeForgotten
<1>2. DataLength \in Nat /\ PipeSize \in Nat /\ PipeGood /\ AllOrError
  BY RunAssumption DEF RunAssumption, OpenInv
<1>3. PipeGood' /\ AllOrError'
  <2>1. CASE DataDropped
    <3>1. dataPipe' = [state |-> "open", sent |-> 0, read |-> 0, reader |-> TRUE, error |-> FALSE]
      BY <2>1 DEF DataDropped, NoPipe
    <3> QED BY <1>2, <3>1, PipeIs
  <2>2. CASE WriteData
    <3> DEFINE room == PipeSize - (dataPipe.sent - dataPipe.read)
    <3>1. /\ dataPipe.state = "open" /\ room \in Int /\ dataPipe.sent \in Int /\ dataPipe.read \in Int
          /\ dataPipe.sent <= DataLength
      BY <1>2, <2>2 DEF WriteData, PipeGood
    <3>2. \/ ~dataPipe.reader /\ dataPipe' = [dataPipe EXCEPT !.state = "closed", !.error = dataPipe.sent < DataLength]
          \/ dataPipe' = [dataPipe EXCEPT !.sent = DataLength, !.state = "closed"]
          \/ ~(DataLength - dataPipe.sent <= room) /\ dataPipe' = [dataPipe EXCEPT !.sent = @ + room]
      <4> HIDE DEF room
      <4> QED BY <2>2, Zenon DEF WriteData, room
    <3> HIDE DEF room
    <3>3. CASE dataPipe' = [dataPipe EXCEPT !.state = "closed", !.error = dataPipe.sent < DataLength]
      <4>1. dataPipe' = [state |-> "closed", sent |-> dataPipe.sent, read |-> dataPipe.read, reader |-> dataPipe.reader,
                         error |-> dataPipe.sent < DataLength]
        BY <1>2, <3>3 DEF PipeGood
      <4>2. dataPipe.sent = DataLength \/ dataPipe.sent < DataLength
        BY <1>2, <3>1
      <4> QED BY <1>2, <3>1, <4>1, <4>2, PipeIs, Zenon
    <3>4. CASE dataPipe' = [dataPipe EXCEPT !.sent = DataLength, !.state = "closed"]
      <4>1. dataPipe' = [state |-> "closed", sent |-> DataLength, read |-> dataPipe.read, reader |-> dataPipe.reader,
                         error |-> dataPipe.error]
        BY <1>2, <3>4 DEF PipeGood
      <4>2. DataLength \in Int /\ DataLength <= DataLength
        BY <1>2
      <4> QED BY <1>2, <3>1, <4>1, <4>2, PipeIs
    <3>5. CASE ~(DataLength - dataPipe.sent <= room) /\ dataPipe' = [dataPipe EXCEPT !.sent = @ + room]
      <4>1. dataPipe' = [state |-> dataPipe.state, sent |-> dataPipe.sent + room, read |-> dataPipe.read, reader |-> dataPipe.reader,
                         error |-> dataPipe.error]
        BY <1>2, <3>5 DEF PipeGood
      <4>2. dataPipe.sent + room \in Int /\ dataPipe.sent + room <= DataLength
        BY <1>2, <3>1, <3>5
      <4> QED BY <1>2, <3>1, <4>1, <4>2, PipeIs
    <3> QED BY <3>2, <3>3, <3>4, <3>5
  <2>3. CASE ProgramReads
    BY <1>2, <2>3 DEF ProgramReads, PipeGood, AllOrError
  <2>4. CASE ProgramEnds
    <3>1. CASE dataPipe' = NoPipe
      <4>1. dataPipe' = [state |-> "none", sent |-> 0, read |-> 0, reader |-> FALSE, error |-> FALSE]
        BY <3>1 DEF NoPipe
      <4> QED BY <1>2, <4>1, PipeIs
    <3>2. CASE dataPipe.state # "closed" /\ dataPipe' = [dataPipe EXCEPT !.reader = FALSE]
      <4>1. /\ dataPipe' = [state |-> dataPipe.state, sent |-> dataPipe.sent, read |-> dataPipe.read, reader |-> FALSE,
                            error |-> dataPipe.error]
            /\ dataPipe.state \in {"none", "open", "closed"} /\ dataPipe.sent \in Int /\ dataPipe.read \in Int
            /\ dataPipe.sent <= DataLength
        BY <1>2, <3>2 DEF PipeGood
      <4> QED BY <1>2, <3>2, <4>1, PipeIs
    <3> QED BY <2>4, <3>1, <3>2 DEF ProgramEnds
  <2>5. CASE PipeForgotten
    BY <1>2, <2>5 DEF PipeForgotten, NoPipe, PipeGood, AllOrError
  <2> QED BY <2>1, <2>2, <2>3, <2>4, <2>5 DEF PipeSteps
<1> QED BY <1>1, <1>3 DEF OpenInv, OpenedRight

(* What was set for a type or a media type is what runs, setting it changes *)
(* nothing for other types, and a program is removed only after the user *)
(* was asked; an item is opened as it was seen, and data that was dropped *)
(* is written in full or an error is shown: for all types, programs and *)
(* defaults (type.c, run.c, filer_openitem). *)
THEOREM RunAlwaysRight == RunSpec => RunRight
<1>1. ActionsInit /\ OpenInit => RunInv /\ OpenInv
  <2>1. OpenInit => OpenInv
    BY RunAssumption DEF RunAssumption, OpenInit, OpenInv, OpenedRight, NotOpened, AllOrError, PipeGood, NoPipe
  <2> QED BY <2>1, RunInitInv
<1> DEFINE A == (BoxSteps \/ OutsideSteps) /\ UNCHANGED openVars
           B == (OpenSteps \/ PipeSteps) /\ UNCHANGED runVars
<1>2. RunInv /\ OpenInv /\ [A \/ B]_<<runVars, openVars>> => (RunInv /\ OpenInv)' /\ [SetsOnly /\ AskedFirst]_runVars
  <2> SUFFICES ASSUME RunInv, OpenInv, [A \/ B]_<<runVars, openVars>>
               PROVE  RunInv' /\ OpenInv' /\ SetsOnly /\ AskedFirst
    OBVIOUS
  <2>1. ASSUME UNCHANGED openVars PROVE OpenInv'
    BY <2>1 DEF openVars, OpenInv, OpenedRight, AllOrError, PipeGood
  <2>2. CASE A
    BY <2>1, <2>2, BoxStepGood DEF RunStepGood
  <2>3. CASE B
    BY <2>3, RunStill, OpenStepsRight, PipeStepsRight DEF RunStepGood
  <2>4. CASE UNCHANGED <<runVars, openVars>>
    BY <2>1, <2>4, RunStill DEF RunStepGood
  <2> QED BY <2>2, <2>3, <2>4
<1>3. RunInv => RunsWhatWasSet
  BY WhatWasSetRuns
<1>4. OpenInv => OpenedRight /\ AllOrError
  BY DEF OpenInv
<1> QED BY <1>1, <1>2, <1>3, <1>4, PTL DEF RunSpec, RunRight, RunActionRight
=============================================================================

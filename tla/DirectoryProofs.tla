--------------------------- MODULE DirectoryProofs ---------------------------
(***************************************************************************)
(* Theorems about Directory for every set of names and windows, checked by *)
(* TLAPS.  Each C function is an operator on the record dir, so the proof  *)
(* has a typing lemma and a control lemma for each operator, and the step  *)
(* of an action follows from the lemmas of the operators it composes.      *)
(***************************************************************************)
EXTENDS Directory, TLAPS, WellFoundedInduction

Content == Details \cup {Absent, Blank}

--------------------
(* Types. *)

(* The first free object for a name exists whenever any is free. *)
LEMMA NewItemType ==
    ASSUME NEW d, NEW l \in Leaf
    PROVE  NewItem(d, l) \in Item /\ NameOf(NewItem(d, l)) = l
<1> DEFINE F == FreeItems(d, l)
<1>1. MaxItems \in 1..MaxItems
  BY ConstantsAssumption
<1>2. ASSUME F # {} PROVE \E n \in F : \A m \in F : n <= m
  <2>1. F \subseteq Nat
    BY DEF FreeItems
  <2>2. PICK n \in F : \A m \in F : ~(<<m, n>> \in OpToRel(<, Nat))
    BY <1>2, <2>1, NatLessThanWellFounded, WFMin
  <2>3. \A m \in F : ~(m < n)
    BY <2>1, <2>2 DEF OpToRel
  <2> QED BY <2>1, <2>3
<1>3. F \subseteq 1..MaxItems
  BY DEF FreeItems
<1>4. CASE F = {}
  BY <1>1, <1>4 DEF NewItem, Item, NameOf
<1>5. CASE F # {}
  <2>1. (CHOOSE n \in F : \A m \in F : n <= m) \in F
    BY <1>2, <1>5
  <2> DEFINE first == CHOOSE n \in F : \A m \in F : n <= m
  <2>2. NewItem(d, l) = <<l, first>>
    BY <1>5 DEF NewItem
  <2>3. first \in 1..MaxItems
    BY <1>3, <2>1
  <2> HIDE DEF first
  <2> QED BY <2>2, <2>3 DEF Item, NameOf
<1> QED BY <1>4, <1>5

LEMMA LstatType ==
    ASSUME disk \in [Leaf -> Details \cup {Absent}], NEW l \in Leaf
    PROVE  Lstat(l) \in Details \cup {Absent}
BY DEF Lstat

LEMMA SetScanningType ==
    ASSUME NEW d \in DirectoryType, NEW on \in BOOLEAN
    PROVE  SetScanning(d, on) \in DirectoryType
<1> DEFINE told == [w \in Window |-> IF w \in d.users THEN on ELSE d.busy[w]]
<1>1. told \in [Window -> BOOLEAN]
  BY DEF DirectoryType
<1>2. [d EXCEPT !.scanning = on, !.busy = told] \in DirectoryType
  <2> HIDE DEF told
  <2> QED BY <1>1 DEF DirectoryType
<1>3. CASE d.scanning = on
  BY <1>3 DEF SetScanning
<1>4. CASE d.scanning # on
  <2>1. SetScanning(d, on) = [d EXCEPT !.scanning = on, !.busy = told]
    BY <1>4 DEF SetScanning, DirectoryType
  <2> QED BY <1>2, <2>1
<1> QED BY <1>3, <1>4

LEMMA RedrawnType ==
    ASSUME NEW d \in DirectoryType, NEW w \in Window, NEW add, NEW upd, NEW del
    PROVE  Redrawn(d, w, add, upd, del) \in [Item -> Content]
BY DEF Redrawn, DirectoryType, Content

LEMMA TellType ==
    ASSUME NEW d \in DirectoryType, NEW W, NEW add, NEW upd, NEW del
    PROVE  Tell(d, W, add, upd, del) \in [Window -> [Item -> Content]]
BY RedrawnType DEF Tell, DirectoryType, Content

LEMMA FreedType ==
    ASSUME NEW d \in DirectoryType, NEW S
    PROVE  Freed(d.details, S) \in [Item -> Content]
BY DEF DirectoryType, Freed, Content

LEMMA MergeNewType ==
    ASSUME NEW d \in DirectoryType
    PROVE  MergeNew(d) \in DirectoryType
<1>1. Tell(d, d.users, d.new, d.up, d.gone) \in [Window -> [Item -> Content]]
  BY TellType
<1>2. Freed(d.details, d.gone) \in [Item -> Content]
  BY FreedType
<1>3. Latest(d.new) \subseteq Item
  BY DEF DirectoryType, Latest
<1> QED BY <1>1, <1>2, <1>3 DEF MergeNew, DirectoryType, Content

LEMMA RemoveMissingType ==
    ASSUME NEW d \in DirectoryType, NEW names
    PROVE  RemoveMissing(d, names) \in DirectoryType
<1> DEFINE deleted == {i \in d.known : NameOf(i) \notin names}
<1>1. Tell(d, d.users, {}, {}, deleted) \in [Window -> [Item -> Content]]
  BY TellType
<1>2. Freed(d.details, deleted) \in [Item -> Content]
  BY FreedType
<1> QED BY <1>1, <1>2 DEF RemoveMissing, DirectoryType, Content

LEMMA NamesOfType ==
    ASSUME NEW S \in SUBSET Item
    PROVE  NamesOf(S) \subseteq Leaf
BY DEF NamesOf, NameOf, Item

LEMMA QueueInterestingType ==
    ASSUME NEW d \in DirectoryType, NEW W
    PROVE  QueueInteresting(d, W) \in DirectoryType
<1> DEFINE wanted == d.needRescan \cap UNION {InView(d, w) : w \in W}
<1>1. wanted \in SUBSET Item
  BY DEF DirectoryType
<1>2. NamesOf(wanted) \subseteq Leaf
  BY <1>1, NamesOfType
<1> HIDE DEF wanted
<1>3. [d EXCEPT !.recheck = @ \cup NamesOf(wanted), !.needRescan = @ \ wanted] \in DirectoryType
  BY <1>2 DEF DirectoryType
<1> QED BY <1>3 DEF QueueInteresting, wanted

LEMMA InsertItemType ==
    ASSUME NEW d \in DirectoryType, NEW l \in Leaf,
           disk \in [Leaf -> Details \cup {Absent}]
    PROVE  InsertItem(d, l) \in DirectoryType
<1> DEFINE found == {i \in d.known : NameOf(i) = l}
           now   == Lstat(l)
           item  == IF found = {} THEN NewItem(d, l) ELSE CHOOSE i \in found : TRUE
           restatted == [d EXCEPT !.details[item] = now, !.needRescan = @ \ {item}]
<1>1. item \in Item
  BY NewItemType DEF DirectoryType
<1>2. now \in Content
  BY LstatType DEF Content
<1> HIDE DEF item, now
<1>3. restatted \in DirectoryType
  BY <1>1, <1>2 DEF DirectoryType, Content
<1> HIDE DEF restatted, found
<1>4. [restatted EXCEPT !.new = @ \cup {item}, !.up = @ \cup {item}, !.notify = TRUE] \in DirectoryType
  BY <1>1, <1>3 DEF DirectoryType
<1>5. [restatted EXCEPT !.known = @ \ {item}, !.gone = @ \cup {item}, !.notify = TRUE] \in DirectoryType
  BY <1>1, <1>3 DEF DirectoryType
<1>6. [restatted EXCEPT !.up = @ \cup {item}, !.notify = TRUE] \in DirectoryType
  BY <1>1, <1>3 DEF DirectoryType
<1> QED BY <1>3, <1>4, <1>5, <1>6 DEF InsertItem, item, now, restatted, found

--------------------
(* Control: what the operators do to the scan and to the notify timeout. *)

Pending(d) == d.new \cup d.up \cup d.gone # {}

(* The indicators of all attached windows but those in X are right; those *)
(* of the windows in X may say "scanning" when the directory is not. *)
IndicatorsBut(d, X) ==
    \A w \in d.users : (d.scanning => d.busy[w]) /\ (d.busy[w] => d.scanning \/ w \in X)

(* e has the scan state of d ... *)
SameScan(d, e) ==
    /\ e.users = d.users /\ e.needsUpdate = d.needsUpdate /\ e.timer = d.timer
    /\ e.scanning = d.scanning /\ e.idle = d.idle /\ e.busy = d.busy

(* ... or at least its users, what it owes them and its timeout. *)
SameDebt(d, e) ==
    e.users = d.users /\ e.needsUpdate = d.needsUpdate /\ e.timer = d.timer

ScanInv(d) ==
    /\ d.scanning <=> (d.recheck # {} /\ d.users # {})
    /\ d.idle <=> d.scanning

NotifyInv(d) == Pending(d) => d.notify

LEMMA MergeNewControl ==
    ASSUME NEW d \in DirectoryType
    PROVE  /\ SameScan(d, MergeNew(d))
           /\ MergeNew(d).recheck = d.recheck
           /\ ~Pending(MergeNew(d))
BY DEF MergeNew, DirectoryType, SameScan, Pending

LEMMA SetScanningControl ==
    ASSUME NEW d \in DirectoryType, NEW on \in BOOLEAN, NEW X, IndicatorsBut(d, X)
    PROVE  LET e == SetScanning(d, on)
           IN  /\ SameDebt(d, e)
               /\ e.scanning = on /\ e.idle = d.idle /\ e.recheck = d.recheck
               /\ IndicatorsBut(e, X)
               /\ NotifyInv(d) => NotifyInv(e)
<1>1. CASE d.scanning = on
  BY <1>1 DEF SetScanning, SameDebt
<1>2. CASE d.scanning # on
  BY <1>2 DEF SetScanning, DirectoryType, SameDebt, IndicatorsBut, NotifyInv, Pending
<1> QED BY <1>1, <1>2

LEMMA RemoveMissingControl ==
    ASSUME NEW d \in DirectoryType, NEW names
    PROVE  LET e == RemoveMissing(d, names)
           IN  /\ SameScan(d, e) /\ e.recheck = d.recheck
               /\ NotifyInv(d) => NotifyInv(e)
BY DEF RemoveMissing, DirectoryType, SameScan, NotifyInv, Pending

LEMMA QueueInterestingControl ==
    ASSUME NEW d \in DirectoryType, NEW W
    PROVE  LET e == QueueInteresting(d, W)
           IN  /\ SameScan(d, e)
               /\ d.recheck \subseteq e.recheck
               /\ NotifyInv(d) => NotifyInv(e)
BY DEF QueueInteresting, DirectoryType, SameScan, NotifyInv, Pending

LEMMA InsertItemControl ==
    ASSUME NEW d \in DirectoryType, NEW l \in Leaf
    PROVE  LET e == InsertItem(d, l)
           IN  /\ SameScan(d, e) /\ e.recheck = d.recheck
               /\ NotifyInv(d) => NotifyInv(e)
BY DEF InsertItem, DirectoryType, SameScan, NotifyInv, Pending

(* recheck_callback: what is left of the list is still being scanned, and *)
(* with the last name the scan ends, announces what it found and stops. *)
LEMMA PickInSet ==
    ASSUME NEW S \in SUBSET Leaf, S # {}, NEW next
    PROVE  Pick(S, next) \in S
BY DEF Pick

LEMMA RecheckOneLemma ==
    ASSUME NEW d \in DirectoryType, NEW next, NEW X,
           disk \in [Leaf -> Details \cup {Absent}],
           d.scanning, d.idle, d.users # {}, d.recheck # {},
           IndicatorsBut(d, X)
    PROVE  LET e == RecheckOne(d, next)
           IN  /\ e \in DirectoryType
               /\ SameDebt(d, e)
               /\ ScanInv(e)
               /\ IndicatorsBut(e, X)
               /\ NotifyInv(d) => NotifyInv(e)
               /\ e.scanning \/ ~Pending(e)
<1> DEFINE l == Pick(d.recheck, next)
           d1 == [d EXCEPT !.recheck = @ \ {l}]
           e1 == InsertItem(d1, l)
           m  == MergeNew(e1)
           s  == SetScanning(m, FALSE)
           e  == RecheckOne(d, next)
<1>1. l \in Leaf
  BY PickInSet DEF DirectoryType
<1> HIDE DEF l
<1>2. /\ d1 \in DirectoryType /\ SameScan(d, d1)
      /\ NotifyInv(d) => NotifyInv(d1)
  BY DEF DirectoryType, SameScan, NotifyInv, Pending
<1> HIDE DEF d1
<1>3. e1 \in DirectoryType /\ SameScan(d1, e1) /\ (NotifyInv(d1) => NotifyInv(e1))
  BY <1>1, <1>2, InsertItemType, InsertItemControl
<1> HIDE DEF e1
<1>4. m \in DirectoryType /\ SameScan(e1, m) /\ m.recheck = e1.recheck /\ ~Pending(m)
  BY <1>3, MergeNewType, MergeNewControl
<1>5. IndicatorsBut(e1, X) /\ IndicatorsBut(m, X)
  BY <1>2, <1>3, <1>4 DEF IndicatorsBut, SameScan
<1> HIDE DEF m
<1>6. /\ s \in DirectoryType /\ SameDebt(m, s) /\ ~s.scanning
      /\ s.recheck = m.recheck /\ IndicatorsBut(s, X) /\ (NotifyInv(m) => NotifyInv(s))
  BY <1>4, <1>5, SetScanningType, SetScanningControl
<1>7. ~Pending(s)
  BY <1>4 DEF s, SetScanning, Pending, DirectoryType
<1> HIDE DEF s
<1>8. CASE e1.recheck # {}
  <2>1. e = e1
    BY <1>8 DEF RecheckOne, e1, d1, l
  <2> QED BY <1>2, <1>3, <1>5, <1>8, <2>1 DEF SameScan, SameDebt, ScanInv
<1>9. CASE e1.recheck = {}
  <2> DEFINE g == [s EXCEPT !.idle = FALSE]
  <2>0. g = [s EXCEPT !.idle = FALSE]
    OBVIOUS
  <2>1. e = g
    BY <1>9 DEF RecheckOne, s, m, e1, d1, l
  <2> HIDE DEF g
  <2>2. s \in DirectoryType
    BY <1>6
  <2>3. g \in DirectoryType
    BY <2>0, <2>2 DEF DirectoryType
  <2>4. /\ g.users = s.users /\ g.needsUpdate = s.needsUpdate /\ g.timer = s.timer
        /\ g.scanning = s.scanning /\ g.recheck = s.recheck /\ g.busy = s.busy
    BY <2>0, <2>2 DEF DirectoryType
  <2>7. g.new = s.new /\ g.up = s.up /\ g.gone = s.gone /\ g.idle = FALSE
    BY <2>0, <2>2 DEF DirectoryType
  <2>5. ScanInv(g)
    BY <1>4, <1>6, <1>9, <2>4, <2>7 DEF ScanInv
  <2>6. SameDebt(s, g) /\ IndicatorsBut(g, X) /\ ~Pending(g)
    BY <1>6, <1>7, <2>4, <2>7 DEF SameDebt, IndicatorsBut, Pending
  <2> QED BY <1>2, <1>3, <1>4, <1>6, <2>1, <2>3, <2>5, <2>6 DEF SameScan, SameDebt, NotifyInv
<1> QED BY <1>8, <1>9

(* set_idle_callback brings the scan in line with the list and the users, *)
(* whatever they were before. *)
LEMMA SetIdleCallbackLemma ==
    ASSUME NEW d \in DirectoryType, NEW next, NEW X,
           disk \in [Leaf -> Details \cup {Absent}],
           IndicatorsBut(d, X)
    PROVE  LET e == SetIdleCallback(d, next)
           IN  /\ e \in DirectoryType
               /\ SameDebt(d, e)
               /\ ScanInv(e)
               /\ IndicatorsBut(e, X)
               /\ NotifyInv(d) => NotifyInv(e)
               /\ d.idle /\ d.recheck # {} /\ d.users # {} => e.scanning
<1> DEFINE e == SetIdleCallback(d, next)
           t == SetScanning(d, TRUE)
           f == SetScanning(d, FALSE)
<1>1. /\ t \in DirectoryType /\ SameDebt(d, t) /\ t.scanning /\ t.idle = d.idle
      /\ t.recheck = d.recheck /\ IndicatorsBut(t, X) /\ (NotifyInv(d) => NotifyInv(t))
  BY SetScanningType, SetScanningControl
<1>2. /\ f \in DirectoryType /\ SameDebt(d, f) /\ ~f.scanning /\ f.idle = d.idle
      /\ f.recheck = d.recheck /\ IndicatorsBut(f, X) /\ (NotifyInv(d) => NotifyInv(f))
  BY SetScanningType, SetScanningControl
<1> HIDE DEF t, f
<1>3. CASE ~(d.recheck # {} /\ d.users # {})
  <2> DEFINE g == [f EXCEPT !.idle = FALSE]
  <2>0. g = [f EXCEPT !.idle = FALSE]
    OBVIOUS
  <2>1. e = g
    BY <1>3 DEF SetIdleCallback, f
  <2> HIDE DEF g
  <2>2. g \in DirectoryType
    BY <1>2, <2>0 DEF DirectoryType
  <2>3. /\ g.users = f.users /\ g.needsUpdate = f.needsUpdate /\ g.timer = f.timer
        /\ g.scanning = f.scanning /\ g.recheck = f.recheck /\ g.busy = f.busy
    BY <1>2, <2>0 DEF DirectoryType
  <2>4. g.new = f.new /\ g.up = f.up /\ g.gone = f.gone /\ g.notify = f.notify /\ ~g.idle
    BY <1>2, <2>0 DEF DirectoryType
  <2>5. SameDebt(d, g) /\ IndicatorsBut(g, X) /\ (NotifyInv(d) => NotifyInv(g))
    BY <1>2, <2>3, <2>4 DEF SameDebt, IndicatorsBut, NotifyInv, Pending
  <2>6. ScanInv(g)
    BY <1>2, <1>3, <2>3, <2>4 DEF ScanInv, SameDebt
  <2> QED BY <1>3, <2>1, <2>2, <2>5, <2>6
<1>4. CASE d.recheck # {} /\ d.users # {} /\ d.idle
  <2>1. e = t
    BY <1>4 DEF SetIdleCallback, t
  <2> QED BY <1>1, <1>4, <2>1 DEF SameDebt, ScanInv
<1>5. CASE d.recheck # {} /\ d.users # {} /\ ~d.idle
  <2> DEFINE t1 == [t EXCEPT !.idle = TRUE]
  <2>1. e = RecheckOne(t1, next)
    BY <1>5 DEF SetIdleCallback, t
  <2>2. /\ t1 \in DirectoryType /\ SameDebt(t, t1) /\ t1.scanning /\ t1.idle
        /\ t1.recheck = t.recheck /\ IndicatorsBut(t1, X) /\ (NotifyInv(t) => NotifyInv(t1))
    BY <1>1 DEF DirectoryType, SameDebt, IndicatorsBut, NotifyInv, Pending
  <2> HIDE DEF t1
  <2>3. t1.users # {} /\ t1.recheck # {}
    BY <1>1, <1>5, <2>2 DEF SameDebt
  <2>4. /\ e \in DirectoryType /\ SameDebt(t1, e) /\ ScanInv(e) /\ IndicatorsBut(e, X)
        /\ (NotifyInv(t1) => NotifyInv(e))
    BY <2>1, <2>2, <2>3, RecheckOneLemma
  <2> QED BY <1>1, <1>5, <2>2, <2>4 DEF SameDebt
<1> QED BY <1>3, <1>4, <1>5

LEMMA ReadNamesLemma ==
    ASSUME NEW d \in DirectoryType, NEW X, IndicatorsBut(d, X)
    PROVE  LET e == ReadNames(d)
           IN  /\ e \in DirectoryType
               /\ SameDebt(d, e)
               /\ IndicatorsBut(e, X)
               /\ NotifyInv(d) => NotifyInv(MergeNew(e))
<1> DEFINE s == SetScanning(d, TRUE)
           m == MergeNew(s)
           kept == RemoveMissing(m, OnDisk)
           fresh == {NewItem(kept, l) : l \in OnDisk \ NamesOf(kept.known)}
           e == ReadNames(d)
<1>1. s \in DirectoryType /\ SameDebt(d, s) /\ IndicatorsBut(s, X)
  BY SetScanningType, SetScanningControl
<1> HIDE DEF s
<1>2. m \in DirectoryType /\ SameScan(s, m)
  BY <1>1, MergeNewType, MergeNewControl
<1> HIDE DEF m
<1>3. kept \in DirectoryType /\ SameScan(m, kept)
  BY <1>2, RemoveMissingType, RemoveMissingControl
<1>4. SameDebt(d, kept) /\ IndicatorsBut(kept, X)
  BY <1>1, <1>2, <1>3 DEF SameScan, SameDebt, IndicatorsBut
<1> HIDE DEF kept
<1>5. fresh \subseteq Item
  BY NewItemType DEF OnDisk
<1> HIDE DEF fresh
<1>6. [i \in Item |-> IF i \in fresh THEN Blank ELSE kept.details[i]] \in [Item -> Content]
  BY <1>3 DEF DirectoryType, Content
<1>7. e = [kept EXCEPT !.recheck    = {},
                       !.new        = fresh,
                       !.details    = [i \in Item |-> IF i \in fresh THEN Blank ELSE @[i]],
                       !.needRescan = @ \cup kept.known \cup fresh,
                       !.missed     = FALSE]
  BY DEF ReadNames, kept, m, s, fresh
<1> HIDE DEF e
<1>8. e \in DirectoryType
  BY <1>3, <1>5, <1>6, <1>7 DEF DirectoryType, Content
<1>9. SameDebt(kept, e) /\ IndicatorsBut(e, X)
  BY <1>3, <1>4, <1>7 DEF DirectoryType, SameDebt, IndicatorsBut
<1>10. ~Pending(MergeNew(e))
  BY <1>8, MergeNewControl
<1> QED BY <1>4, <1>8, <1>9, <1>10 DEF SameDebt, NotifyInv, e

(* dir_rescan, called when no scan is running, settles what needs_update *)
(* stood for, and leaves the scan in order unless it was not and the *)
(* directory cannot be read. *)
LEMMA RescanLemma ==
    ASSUME NEW d \in DirectoryType, NEW next, NEW X,
           disk \in [Leaf -> Details \cup {Absent}],
           dirstat \in {"ok", "gone", "noread"},
           IndicatorsBut(d, X)
    PROVE  LET e == Rescan(d, next)
           IN  /\ e \in DirectoryType
               /\ e.users = d.users /\ e.timer = d.timer /\ ~e.needsUpdate
               /\ ScanInv(d) => ScanInv(e)
               /\ IndicatorsBut(e, X)
               /\ NotifyInv(d) => NotifyInv(e)
<1> DEFINE d0 == [d EXCEPT !.needsUpdate = FALSE, !.error = "none"]
           r  == ReadNames(d0)
           d1 == MergeNew(r)
           q  == QueueInteresting(d1, d1.users)
           i  == SetIdleCallback(q, next)
           e  == Rescan(d, next)
<1>1. /\ d0 \in DirectoryType
      /\ d0.users = d.users /\ d0.timer = d.timer /\ ~d0.needsUpdate
      /\ ScanInv(d) => ScanInv(d0)
      /\ IndicatorsBut(d0, X)
      /\ NotifyInv(d) => NotifyInv(d0)
  BY DEF DirectoryType, ScanInv, IndicatorsBut, NotifyInv, Pending
<1> HIDE DEF d0
<1>2. CASE dirstat = "gone" /\ CloseWhenMissing
  <2> DEFINE g == [d0 EXCEPT !.closing = TRUE]
  <2>0. g = [d0 EXCEPT !.closing = TRUE]
    OBVIOUS
  <2>1. e = g
    BY <1>2 DEF Rescan, d0
  <2> HIDE DEF g
  <2>2. g \in DirectoryType
    BY <1>1, <2>0 DEF DirectoryType
  <2>3. /\ g.users = d0.users /\ g.needsUpdate = d0.needsUpdate /\ g.timer = d0.timer
        /\ g.scanning = d0.scanning /\ g.recheck = d0.recheck /\ g.busy = d0.busy
    BY <1>1, <2>0 DEF DirectoryType
  <2>4. /\ g.new = d0.new /\ g.up = d0.up /\ g.gone = d0.gone /\ g.notify = d0.notify
        /\ g.idle = d0.idle
    BY <1>1, <2>0 DEF DirectoryType
  <2> QED BY <1>1, <2>1, <2>2, <2>3, <2>4 DEF ScanInv, IndicatorsBut, NotifyInv, Pending
<1>3. CASE dirstat = "gone" /\ ~CloseWhenMissing
  <2> DEFINE x == [d0 EXCEPT !.error = "stat"]
  <2>1. e = RemoveMissing(x, {})
    BY <1>3 DEF Rescan, d0
  <2>2. /\ x \in DirectoryType /\ SameScan(d0, x) /\ x.recheck = d0.recheck
        /\ NotifyInv(d0) => NotifyInv(x)
    BY <1>1 DEF DirectoryType, SameScan, NotifyInv, Pending
  <2> HIDE DEF x
  <2>3. /\ e \in DirectoryType /\ SameScan(x, e) /\ e.recheck = x.recheck
        /\ NotifyInv(x) => NotifyInv(e)
    BY <2>1, <2>2, RemoveMissingType, RemoveMissingControl
  <2> QED BY <1>1, <2>2, <2>3 DEF SameScan, ScanInv, IndicatorsBut
<1>4. CASE dirstat = "noread"
  <2> DEFINE g == [d0 EXCEPT !.error = "open"]
  <2>0. g = [d0 EXCEPT !.error = "open"]
    OBVIOUS
  <2>1. e = g
    BY <1>4 DEF Rescan, d0
  <2> HIDE DEF g
  <2>2. g \in DirectoryType
    BY <1>1, <2>0 DEF DirectoryType
  <2>3. /\ g.users = d0.users /\ g.needsUpdate = d0.needsUpdate /\ g.timer = d0.timer
        /\ g.scanning = d0.scanning /\ g.recheck = d0.recheck /\ g.busy = d0.busy
    BY <1>1, <2>0 DEF DirectoryType
  <2>4. /\ g.new = d0.new /\ g.up = d0.up /\ g.gone = d0.gone /\ g.notify = d0.notify
        /\ g.idle = d0.idle
    BY <1>1, <2>0 DEF DirectoryType
  <2> QED BY <1>1, <2>1, <2>2, <2>3, <2>4 DEF ScanInv, IndicatorsBut, NotifyInv, Pending
<1>5. CASE dirstat = "ok"
  <2>1. e = MergeNew(i)
    BY <1>5 DEF Rescan, i, q, d1, r, d0
  <2>2. /\ r \in DirectoryType /\ SameDebt(d0, r) /\ IndicatorsBut(r, X)
        /\ NotifyInv(d0) => NotifyInv(MergeNew(r))
    BY <1>1, ReadNamesLemma
  <2> HIDE DEF r
  <2>3. d1 \in DirectoryType /\ SameScan(r, d1)
    BY <2>2, MergeNewType, MergeNewControl
  <2>4. IndicatorsBut(d1, X) /\ (NotifyInv(d0) => NotifyInv(d1))
    BY <2>2, <2>3 DEF SameScan, IndicatorsBut
  <2> HIDE DEF d1
  <2>5. q \in DirectoryType /\ SameScan(d1, q) /\ (NotifyInv(d1) => NotifyInv(q))
    BY <2>3, QueueInterestingType, QueueInterestingControl
  <2>6. IndicatorsBut(q, X)
    BY <2>4, <2>5 DEF SameScan, IndicatorsBut
  <2> HIDE DEF q
  <2>7. /\ i \in DirectoryType /\ SameDebt(q, i) /\ ScanInv(i) /\ IndicatorsBut(i, X)
        /\ NotifyInv(q) => NotifyInv(i)
    BY <2>5, <2>6, SetIdleCallbackLemma
  <2> HIDE DEF i
  <2>8. e \in DirectoryType /\ SameScan(i, e) /\ e.recheck = i.recheck /\ ~Pending(e)
    BY <2>1, <2>7, MergeNewType, MergeNewControl
  <2>9. SameDebt(d0, e)
    BY <2>2, <2>3, <2>5, <2>7, <2>8 DEF SameDebt, SameScan
  <2> QED BY <1>1, <2>7, <2>8, <2>9 DEF SameDebt, SameScan, ScanInv, IndicatorsBut, NotifyInv
<1> QED BY <1>2, <1>3, <1>4, <1>5

--------------------
(* The control invariant of the Directory, and that every operation an *)
(* action is made of preserves it. *)

Owed(d) == d.needsUpdate /\ d.users # {} => d.scanning \/ d.timer

DirInv(d) ==
    /\ d \in DirectoryType
    /\ ScanInv(d)
    /\ IndicatorsBut(d, {})
    /\ NotifyInv(d)
    /\ Owed(d)

LEMMA RescanInv ==
    ASSUME NEW d, DirInv(d), NEW next,
           disk \in [Leaf -> Details \cup {Absent}],
           dirstat \in {"ok", "gone", "noread"}
    PROVE  DirInv(Rescan(d, next)) /\ Rescan(d, next).users = d.users
BY RescanLemma DEF DirInv, Owed

LEMMA UpdateInv ==
    ASSUME NEW d, DirInv(d), NEW next,
           disk \in [Leaf -> Details \cup {Absent}],
           dirstat \in {"ok", "gone", "noread"}
    PROVE  DirInv(Update(d, next)) /\ Update(d, next).users = d.users
<1>1. CASE d.scanning
  BY <1>1 DEF Update, DirInv, DirectoryType, ScanInv, IndicatorsBut, NotifyInv, Owed, Pending
<1>2. CASE ~d.scanning
  BY <1>2, RescanInv DEF Update
<1> QED BY <1>1, <1>2

LEMMA LookupInv ==
    ASSUME NEW d, DirInv(d), NEW next,
           disk \in [Leaf -> Details \cup {Absent}],
           dirstat \in {"ok", "gone", "noread"}
    PROVE  DirInv(Lookup(d, next)) /\ Lookup(d, next).users = d.users
<1>1. CASE ~d.loaded
  BY <1>1 DEF Lookup, DirInv, DirectoryType, ScanInv, IndicatorsBut, NotifyInv, Owed, Pending
<1>2. CASE d.loaded
  BY <1>2, UpdateInv DEF Lookup
<1> QED BY <1>1, <1>2

(* A window that attaches finds the scan in order whatever state the list *)
(* was left in when the last window detached. *)
LEMMA AttachInv ==
    ASSUME NEW d, DirInv(d), NEW w \in Window, w \notin d.users, NEW next,
           disk \in [Leaf -> Details \cup {Absent}],
           dirstat \in {"ok", "gone", "noread"}
    PROVE  DirInv(Attach(d, w, next))
<1> DEFINE shown == [d EXCEPT !.users = @ \cup {w}, !.busy[w] = TRUE,
                              !.view[w] = Redrawn([d EXCEPT !.view[w] = NothingShown],
                                                  w, d.known, {}, {})]
           asked == IF d.needsUpdate /\ ~d.scanning THEN Rescan(shown, next)
                    ELSE QueueInteresting(shown, {w})
           idled == SetIdleCallback(asked, next)
           e == Attach(d, w, next)
<1>1. d \in DirectoryType
  BY DEF DirInv
<1>2. [d EXCEPT !.view[w] = NothingShown] \in DirectoryType
  BY <1>1 DEF DirectoryType, NothingShown
<1>3. Redrawn([d EXCEPT !.view[w] = NothingShown], w, d.known, {}, {}) \in [Item -> Content]
  BY <1>2, RedrawnType
<1>4. shown \in DirectoryType
  BY <1>1, <1>3 DEF DirectoryType, Content
<1>5. /\ shown.users = d.users \cup {w} /\ shown.timer = d.timer
      /\ shown.needsUpdate = d.needsUpdate
      /\ shown.scanning = d.scanning /\ shown.idle = d.idle /\ shown.recheck = d.recheck
      /\ IndicatorsBut(shown, {w}) /\ NotifyInv(shown)
  BY <1>1 DEF DirInv, DirectoryType, IndicatorsBut, NotifyInv, Pending
<1> HIDE DEF shown
<1>6. /\ asked \in DirectoryType
      /\ asked.users = d.users \cup {w} /\ asked.timer = d.timer
      /\ IndicatorsBut(asked, {w}) /\ NotifyInv(asked)
      /\ asked.needsUpdate => asked.idle /\ asked.recheck # {}
  <2>1. CASE d.needsUpdate /\ ~d.scanning
    BY <1>4, <1>5, <2>1, RescanLemma
  <2>2. CASE ~(d.needsUpdate /\ ~d.scanning)
    <3> DEFINE q == QueueInteresting(shown, {w})
    <3>1. /\ q \in DirectoryType /\ SameScan(shown, q) /\ shown.recheck \subseteq q.recheck
          /\ NotifyInv(q)
      BY <1>4, <1>5, QueueInterestingType, QueueInterestingControl
    <3>2. IndicatorsBut(q, {w})
      BY <1>5, <3>1 DEF SameScan, IndicatorsBut
    <3>3. asked = q
      BY <2>2
    <3> HIDE DEF q
    <3>4. d.needsUpdate => d.idle /\ d.recheck # {}
      BY <2>2 DEF DirInv, ScanInv
    <3> QED BY <1>5, <3>1, <3>2, <3>3, <3>4 DEF SameScan
  <2> QED BY <2>1, <2>2
<1> HIDE DEF asked
<1>7. /\ idled \in DirectoryType /\ SameDebt(asked, idled) /\ ScanInv(idled)
      /\ IndicatorsBut(idled, {w}) /\ NotifyInv(idled)
      /\ asked.idle /\ asked.recheck # {} /\ asked.users # {} => idled.scanning
  BY <1>6, SetIdleCallbackLemma
<1> HIDE DEF idled
<1>8. idled.needsUpdate => idled.scanning
  BY <1>6, <1>7 DEF SameDebt
<1>9. e = IF idled.scanning THEN idled ELSE [idled EXCEPT !.busy[w] = FALSE]
  BY DEF Attach, idled, asked, shown
<1>10. CASE idled.scanning
  BY <1>7, <1>8, <1>9, <1>10 DEF DirInv, IndicatorsBut, Owed
<1>11. CASE ~idled.scanning
  <2> DEFINE f == [idled EXCEPT !.busy[w] = FALSE]
  <2>1. f \in DirectoryType /\ ScanInv(f) /\ NotifyInv(f) /\ Owed(f)
    BY <1>7, <1>8, <1>11 DEF DirectoryType, ScanInv, NotifyInv, Pending, Owed
  <2>2. IndicatorsBut(f, {})
    BY <1>7, <1>11 DEF DirectoryType, IndicatorsBut
  <2> QED BY <1>9, <1>11, <2>1, <2>2 DEF DirInv
<1> QED BY <1>10, <1>11

(* Windows that detach leave the scan to the others, or stop it. *)
LEMMA DetachInv ==
    ASSUME NEW d, DirInv(d), NEW W \in SUBSET Window, NEW next,
           disk \in [Leaf -> Details \cup {Absent}],
           event \in BOOLEAN
    PROVE  /\ DirInv(Detach(d, W, next))
           /\ Detach(d, W, next).users = d.users \ W
<1> DEFINE left == [d EXCEPT !.users = @ \ W,
                             !.view = [w \in Window |-> IF w \in W THEN NothingShown ELSE @[w]],
                             !.busy = [w \in Window |-> IF w \in W THEN FALSE ELSE @[w]]]
           idled == SetIdleCallback(left, next)
           e == Detach(d, W, next)
<1>1. d \in DirectoryType
  BY DEF DirInv
<1>2. left \in DirectoryType
  BY <1>1 DEF DirectoryType, NothingShown
<1>3. /\ left.users = d.users \ W /\ left.timer = d.timer
      /\ left.needsUpdate = d.needsUpdate
      /\ left.scanning = d.scanning /\ left.idle = d.idle /\ left.recheck = d.recheck
      /\ IndicatorsBut(left, {}) /\ NotifyInv(left)
  BY <1>1 DEF DirInv, DirectoryType, IndicatorsBut, NotifyInv, Pending
<1> HIDE DEF left
<1>4. /\ idled \in DirectoryType /\ SameDebt(left, idled) /\ ScanInv(idled)
      /\ IndicatorsBut(idled, {}) /\ NotifyInv(idled)
      /\ left.idle /\ left.recheck # {} /\ left.users # {} => idled.scanning
  BY <1>2, <1>3, SetIdleCallbackLemma
<1> HIDE DEF idled
<1>5. idled.needsUpdate /\ idled.users # {} => idled.scanning \/ idled.timer
  BY <1>3, <1>4 DEF DirInv, ScanInv, Owed, SameDebt
<1>6. e = [idled EXCEPT !.missed = @ \/ (event /\ d.users \subseteq W)]
  BY DEF Detach, idled, left
<1>7. e \in DirectoryType
  <2>1. (idled.missed \/ (event /\ d.users \subseteq W)) \in BOOLEAN
    BY <1>4 DEF DirectoryType
  <2> QED BY <1>4, <1>6, <2>1 DEF DirectoryType
<1>8. ScanInv(e) /\ IndicatorsBut(e, {}) /\ NotifyInv(e) /\ Owed(e)
  BY <1>4, <1>5, <1>6 DEF DirectoryType, ScanInv, IndicatorsBut, NotifyInv, Pending, Owed
<1>9. e.users = d.users \ W
  BY <1>3, <1>4, <1>6 DEF DirectoryType, SameDebt
<1> QED BY <1>7, <1>8, <1>9 DEF DirInv

LEMMA DestroyInv ==
    ASSUME NEW d, DirInv(d), NEW W \in SUBSET Window, NEW next,
           disk \in [Leaf -> Details \cup {Absent}],
           event \in BOOLEAN
    PROVE  DirInv(Destroy(d, W, next))
<1>1. DirInv(Detach(d, W, next))
  BY DetachInv
<1> QED BY <1>1 DEF Destroy, DirInv, DirectoryType, ScanInv, IndicatorsBut, NotifyInv,
                    Pending, Owed

--------------------
(* The inductive invariant and the steps of the specification. *)

FsType ==
    /\ disk \in [Leaf -> Details \cup {Absent}]
    /\ dirstat \in {"ok", "gone", "noread"}
    /\ dirty \in BOOLEAN
    /\ event \in BOOLEAN

IInv == FsType /\ DirInv(dir)

LEMMA InitIInv == Init => IInv
<1> SUFFICES ASSUME Init PROVE IInv
  OBVIOUS
<1>1. dir = NewDirectory
  BY DEF Init
<1>2. dir \in DirectoryType
  BY <1>1 DEF NewDirectory, DirectoryType, NothingShown
<1>3. ScanInv(dir) /\ IndicatorsBut(dir, {}) /\ NotifyInv(dir) /\ Owed(dir)
  BY <1>1 DEF NewDirectory, ScanInv, IndicatorsBut, NotifyInv, Pending, Owed
<1> QED BY <1>2, <1>3 DEF Init, IInv, FsType, DirInv

LEMMA FileSystemStep == IInv /\ FileSystem => IInv'
<1> SUFFICES ASSUME IInv, FileSystem PROVE IInv'
  OBVIOUS
<1> USE DEF Notified
<1>1. ASSUME NEW l \in Leaf, Create(l) PROVE IInv'
  BY <1>1 DEF Create, IInv, FsType, DirInv, DirectoryType
<1>2. ASSUME NEW l \in Leaf, Delete(l) PROVE IInv'
  BY <1>2 DEF Delete, IInv, FsType, DirInv, DirectoryType
<1>3. ASSUME NEW l \in Leaf, Replace(l) PROVE IInv'
  BY <1>3 DEF Replace, IInv, FsType, DirInv, DirectoryType
<1>4. ASSUME NEW l \in Leaf, WriteInPlace(l) PROVE IInv'
  <2>1. FsType'
    BY <1>4 DEF WriteInPlace, IInv, FsType
  <2>2. dir' = [dir EXCEPT !.missed = dir.missed \/ (dir.loaded /\ dir.users = {})]
    BY <1>4 DEF WriteInPlace
  <2>3. PICK b \in BOOLEAN : b = (dir.missed \/ (dir.loaded /\ dir.users = {}))
    OBVIOUS
  <2>6. dir' = [dir EXCEPT !.missed = b]
    BY <2>2, <2>3, Zenon
  <2>7. DirInv(dir)
    BY DEF IInv
  <2>4. dir' \in DirectoryType /\ SameScan(dir, dir') /\ dir'.recheck = dir.recheck /\ dir'.new = dir.new
        /\ dir'.up = dir.up /\ dir'.gone = dir.gone /\ dir'.notify = dir.notify
    BY <2>6, <2>7 DEF DirInv, DirectoryType, SameScan
  <2>5. DirInv(dir)'
    BY <2>4, <2>7 DEF DirInv, SameScan, ScanInv, IndicatorsBut, NotifyInv, Pending, Owed
  <2> QED BY <2>1, <2>5 DEF IInv
<1>5. ASSUME NEW from \in {"ok", "gone", "noread"}, NEW to \in {"ok", "gone", "noread"},
             ChangeDirectory(from, to)
      PROVE  IInv'
  BY <1>5 DEF ChangeDirectory, IInv, FsType, DirInv, DirectoryType
<1> QED BY <1>1, <1>2, <1>3, <1>4, <1>5 DEF FileSystem

LEMMA MainLoopStep == IInv /\ MainLoop => IInv'
<1> SUFFICES ASSUME IInv, MainLoop PROVE IInv'
  OBVIOUS
<1>0. FsType /\ DirInv(dir) /\ dir \in DirectoryType
  BY DEF IInv, DirInv
<1>1. ASSUME MonitorEvent PROVE IInv'
  <2>1. dir' = [dir EXCEPT !.needsUpdate = TRUE, !.timer = TRUE]
    BY <1>1 DEF MonitorEvent, RescanSoon
  <2>2. DirInv(dir)'
    BY <1>0, <2>1 DEF DirInv, DirectoryType, ScanInv, IndicatorsBut, NotifyInv, Pending, Owed
  <2> QED BY <1>0, <1>1, <2>2 DEF MonitorEvent, IInv, FsType
<1>2. ASSUME NotifyTimeout PROVE IInv'
  <2> DEFINE m == MergeNew(dir)
  <2>1. m \in DirectoryType /\ SameScan(dir, m) /\ m.recheck = dir.recheck /\ ~Pending(m)
    BY <1>0, MergeNewType, MergeNewControl
  <2>2. dir' = [m EXCEPT !.notify = FALSE]
    BY <1>2 DEF NotifyTimeout
  <2> HIDE DEF m
  <2>3. DirInv(dir)'
    BY <1>0, <2>1, <2>2 DEF DirInv, DirectoryType, SameScan, ScanInv, IndicatorsBut, NotifyInv,
                            Pending, Owed
  <2> QED BY <1>0, <1>2, <2>3 DEF NotifyTimeout, IInv, FsType
<1>3. ASSUME NEW next \in Leaf, RescanTimeout(next) PROVE IInv'
  <2> DEFINE d == IF ~dir.scanning /\ dir.needsUpdate THEN Rescan(dir, next) ELSE dir
  <2>1. DirInv(d)
    BY <1>0, RescanInv DEF FsType
  <2>2. ~d.scanning => ~d.needsUpdate
    BY <1>0, RescanLemma DEF FsType, DirInv
  <2>3. dir' = [d EXCEPT !.timer = d.scanning]
    BY <1>3 DEF RescanTimeout
  <2> HIDE DEF d
  <2>4. DirInv(dir)'
    BY <2>1, <2>2, <2>3 DEF DirInv, DirectoryType, ScanInv, IndicatorsBut, NotifyInv, Pending, Owed
  <2> QED BY <1>0, <1>3, <2>4 DEF RescanTimeout, IInv, FsType
<1>4. ASSUME NEW next \in Leaf, RecheckCallback(next) PROVE IInv'
  <2> DEFINE d == RecheckOne(dir, next)
  <2>1. dir.idle
    BY <1>4 DEF RecheckCallback
  <2>2. dir.scanning /\ dir.recheck # {} /\ dir.users # {}
    BY <1>0, <2>1 DEF DirInv, ScanInv
  <2>3. /\ d \in DirectoryType /\ SameDebt(dir, d) /\ ScanInv(d)
        /\ IndicatorsBut(d, {}) /\ NotifyInv(d)
    BY <1>0, <2>1, <2>2, RecheckOneLemma DEF DirInv, FsType
  <2>4. dir' = IF ~d.scanning /\ d.needsUpdate THEN Rescan(d, next) ELSE d
    BY <1>4 DEF RecheckCallback
  <2> HIDE DEF d
  <2>5. CASE ~d.scanning /\ d.needsUpdate
    <3>1. dir' = Rescan(d, next)
      BY <2>4, <2>5
    <3>2. /\ Rescan(d, next) \in DirectoryType /\ ~Rescan(d, next).needsUpdate
          /\ ScanInv(Rescan(d, next)) /\ IndicatorsBut(Rescan(d, next), {})
          /\ NotifyInv(Rescan(d, next))
      BY <1>0, <2>3, RescanLemma DEF FsType
    <3>3. DirInv(Rescan(d, next))
      BY <3>2 DEF DirInv, Owed
    <3> QED BY <1>0, <1>4, <3>1, <3>3 DEF RecheckCallback, IInv, FsType
  <2>6. CASE ~(~d.scanning /\ d.needsUpdate)
    <3>1. DirInv(d)
      BY <2>3, <2>6 DEF DirInv, Owed
    <3> QED BY <1>0, <1>4, <2>4, <2>6, <3>1 DEF RecheckCallback, IInv, FsType
  <2> QED BY <2>5, <2>6
<1>5. ASSUME NEW next \in Leaf, CloseRecursive(next) PROVE IInv'
  <2> DEFINE d == Destroy(dir, dir.users, next)
  <2>1. DirInv(d)
    BY <1>0, DestroyInv DEF FsType, DirectoryType
  <2>2. dir' = [d EXCEPT !.closing = FALSE]
    BY <1>5 DEF CloseRecursive
  <2> HIDE DEF d
  <2>3. DirInv(dir)'
    BY <2>1, <2>2 DEF DirInv, DirectoryType, ScanInv, IndicatorsBut, NotifyInv, Pending, Owed
  <2> QED BY <1>0, <1>5, <2>3 DEF CloseRecursive, IInv, FsType
<1> QED BY <1>1, <1>2, <1>3, <1>4, <1>5 DEF MainLoop

LEMMA UserStep == IInv /\ User => IInv'
<1> SUFFICES ASSUME IInv, User PROVE IInv'
  OBVIOUS
<1>0. /\ FsType /\ DirInv(dir) /\ dir \in DirectoryType
      /\ disk \in [Leaf -> Details \cup {Absent}]
      /\ dirstat \in {"ok", "gone", "noread"}
      /\ event \in BOOLEAN
  BY DEF IInv, DirInv, FsType
<1>1. ASSUME NEW w \in Window, NEW next \in Leaf, OpenDir(w, next) PROVE IInv'
  <2>1. DirInv(Lookup(dir, next)) /\ w \notin Lookup(dir, next).users
    BY <1>0, <1>1, LookupInv DEF OpenDir
  <2>2. DirInv(Attach(Lookup(dir, next), w, next))
    BY <1>0, <2>1, AttachInv
  <2> QED BY <1>0, <1>1, <2>2 DEF OpenDir, IInv, FsType
<1>2. ASSUME NEW w \in Window, NEW next \in Leaf, CloseWindow(w, next) PROVE IInv'
  <2>1. DirInv(Destroy(dir, {w}, next))
    BY <1>0, DestroyInv
  <2> QED BY <1>0, <1>2, <2>1 DEF CloseWindow, IInv, FsType
<1>3. ASSUME NEW w \in Window, NEW next \in Leaf, SetHidden(w, next) PROVE IInv'
  <2> DEFINE d == [dir EXCEPT !.showHidden[w] = ~@]
             x == Detach(d, {w}, next)
  <2>1. d \in DirectoryType /\ DirInv(d)
    BY <1>0 DEF DirInv, DirectoryType, ScanInv, IndicatorsBut, NotifyInv, Pending, Owed
  <2> HIDE DEF d
  <2>2. DirInv(x) /\ x.users = d.users \ {w}
    BY <1>0, <2>1, DetachInv
  <2> HIDE DEF x
  <2>3. DirInv(Attach(x, w, next))
    BY <1>0, <2>2, AttachInv
  <2>4. dir' = Attach(x, w, next)
    BY <1>3 DEF SetHidden, x, d
  <2> QED BY <1>0, <1>3, <2>3, <2>4 DEF SetHidden, IInv, FsType
<1>4. ASSUME NEW w \in Window, NEW next \in Leaf, NEW warning \in BOOLEAN,
             UpdateDir(w, warning, next)
      PROVE  IInv'
  <2>1. CASE dirstat = "gone"
    <3>1. DirInv(dir')
      BY <1>0, <1>4, <2>1, DestroyInv DEF UpdateDir
    <3>2. event' \in BOOLEAN
      BY <1>0, <1>4, <2>1 DEF UpdateDir
    <3> QED BY <1>0, <1>4, <2>1, <3>1, <3>2 DEF UpdateDir, IInv, FsType
  <2>2. CASE dirstat # "gone"
    <3>1. DirInv(Lookup(dir, next))
      BY <1>0, LookupInv
    <3>2. DirInv(Update(Lookup(dir, next), next))
      BY <1>0, <3>1, UpdateInv
    <3> QED BY <1>0, <1>4, <2>2, <3>2 DEF UpdateDir, IInv, FsType
  <2> QED BY <2>1, <2>2
<1>5. ASSUME NEW next \in Leaf, RefreshDirs(next) PROVE IInv'
  BY <1>0, <1>5, UpdateInv DEF RefreshDirs, IInv, FsType
<1>6. ASSUME NEW l \in Leaf, CheckThis(l) PROVE IInv'
  <2> DEFINE d == InsertItem(dir, l)
  <2>1. d \in DirectoryType /\ SameScan(dir, d) /\ d.recheck = dir.recheck /\ NotifyInv(d)
    BY <1>0, InsertItemType, InsertItemControl DEF DirInv
  <2> HIDE DEF d
  <2>2. DirInv(d)
    BY <1>0, <2>1 DEF DirInv, SameScan, ScanInv, IndicatorsBut, Owed
  <2> QED BY <1>0, <1>6, <2>2 DEF CheckThis, IInv, FsType, d
<1>7. ASSUME NEW l \in Leaf, UpdateItem(l) PROVE IInv'
  <2> DEFINE d == InsertItem(dir, l)
             m == MergeNew(d)
  <2>1. d \in DirectoryType /\ SameScan(dir, d) /\ d.recheck = dir.recheck
    BY <1>0, InsertItemType, InsertItemControl
  <2> HIDE DEF d
  <2>2. m \in DirectoryType /\ SameScan(d, m) /\ m.recheck = d.recheck /\ ~Pending(m)
    BY <2>1, MergeNewType, MergeNewControl
  <2> HIDE DEF m
  <2>3. DirInv(m)
    BY <1>0, <2>1, <2>2 DEF DirInv, SameScan, ScanInv, IndicatorsBut, NotifyInv, Owed
  <2> QED BY <1>0, <1>7, <2>3 DEF UpdateItem, IInv, FsType, m, d
<1>8. ASSUME NEW l \in Leaf, ForceUpdate(l) PROVE IInv'
  <2> DEFINE told == Tell(dir, dir.users, {}, {i \in dir.known : NameOf(i) = l}, {})
  <2>1. told \in [Window -> [Item -> Content]]
    BY <1>0, TellType
  <2>2. dir' = [dir EXCEPT !.view = told]
    BY <1>8 DEF ForceUpdate
  <2> HIDE DEF told
  <2>3. DirInv(dir)'
    BY <1>0, <2>1, <2>2 DEF DirInv, DirectoryType, Content, ScanInv, IndicatorsBut, NotifyInv,
                            Pending, Owed
  <2> QED BY <1>0, <1>8, <2>3 DEF ForceUpdate, IInv, FsType
<1>9. ASSUME NEW w \in Window, NEW next \in Leaf, SetTypes(w, next) PROVE IInv'
  <2>1. PICK only \in (TypeFilters \cup {"all"}) \ {dir.only[w]} :
             dir' = Attach(Detach([dir EXCEPT !.only[w] = only], {w}, next), w, next)
    BY <1>9 DEF SetTypes
  <2> DEFINE d == [dir EXCEPT !.only[w] = only]
             x == Detach(d, {w}, next)
  <2>2. d \in DirectoryType /\ DirInv(d)
    BY <1>0 DEF DirInv, DirectoryType, ScanInv, IndicatorsBut, NotifyInv, Pending, Owed
  <2>3. dir' = Attach(x, w, next)
    BY <2>1
  <2> HIDE DEF d
  <2>4. DirInv(x) /\ x.users = d.users \ {w}
    BY <1>0, <2>2, DetachInv
  <2> HIDE DEF x
  <2>5. DirInv(Attach(x, w, next))
    BY <1>0, <2>4, AttachInv
  <2> QED BY <1>0, <1>9, <2>3, <2>5 DEF SetTypes, IInv, FsType
<1>10. Reported \subseteq Leaf
  BY ConstantsAssumption
<1> QED BY <1>1, <1>2, <1>3, <1>4, <1>5, <1>6, <1>7, <1>8, <1>9, <1>10 DEF User

(* The inductive invariant holds in every reachable state, for every set of*)
(* names, windows, hidden and reported names, type filters and both *)
(* settings of close_dir_when_missing. *)
THEOREM Inductive == Spec => []IInv
<1>1. IInv /\ UNCHANGED vars => IInv'
  BY DEF IInv, FsType, vars
<1>2. IInv /\ [Next]_vars => IInv'
  BY <1>1, FileSystemStep, MainLoopStep, UserStep DEF Next
<1> QED BY InitIInv, <1>2, PTL DEF Spec

(* Every variable keeps its type (no list of names ever holds an item, no *)
(* window outside the set is told anything). *)
THEOREM TypeCorrect == Spec => []TypeOK
<1>1. IInv => TypeOK
  BY DEF IInv, FsType, DirInv, TypeOK
<1> QED BY <1>1, Inductive, PTL

(* dir.c: the idle callback is installed, and the directory says it is *)
(* scanning, exactly while a name is to be rechecked and somebody watches. *)
THEOREM ScanRunsAlways == Spec => []ScanRuns
<1>1. IInv => ScanRuns
  BY DEF IInv, DirInv, ScanInv, ScanRuns
<1> QED BY <1>1, Inductive, PTL

(* filer.c: the scanning indicator of every attached window is right. *)
THEOREM IndicatorAlwaysRight == Spec => []IndicatorRight
<1>1. IInv => IndicatorRight
  BY DEF IInv, DirInv, IndicatorsBut, IndicatorRight
<1> QED BY <1>1, Inductive, PTL

(* dir.c: items waiting to be announced have a notify timeout. *)
THEOREM PendingAlwaysNotified == Spec => []PendingNotified
<1>1. IInv => PendingNotified
  BY DEF IInv, DirInv, NotifyInv, Pending, PendingNotified
<1> QED BY <1>1, Inductive, PTL

(* dir.h: a rescan owed to somebody watching is never forgotten. *)
THEOREM UpdateAlwaysOwed == Spec => []UpdateOwed
<1>1. IInv => UpdateOwed
  BY DEF IInv, DirInv, Owed, UpdateOwed
<1> QED BY <1>1, Inductive, PTL
=============================================================================

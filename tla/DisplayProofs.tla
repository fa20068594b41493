----------------------------- MODULE DisplayProofs -----------------------------
(***************************************************************************)
(* What the windows display, for every set of names and windows.           *)
(*                                                                         *)
(* The first part is about the whole of what is displayed: it is what is on*)
(* the disk if only the Directory's own scans look at it (nothing is       *)
(* reported singly) and windows are closed when it has gone, which is the  *)
(* default; see the runs dir_lost and dir_dangling for what happens        *)
(* otherwise.  The second part allows reports and gives what remains true: *)
(* the names are right and no item is drawn after it was freed.            *)
(***************************************************************************)
EXTENDS DirectoryProofs

--------------------
(* The invariants. *)

(* The window shows this name as far as hidden files go. *)
Lets(d, w, i) == NameOf(i) \notin Hidden \/ d.showHidden[w]

NamesUnique(S) == \A i, j \in S : NameOf(i) = NameOf(j) => i = j

(* The item lists: a scan only meets names that are known already, so no *)
(* item waits in new_items, and a name is known or gone but never both. *)
Listed(d) ==
    /\ d.new = {}
    /\ d.known \cap d.gone = {}
    /\ NamesUnique(d.known \cup d.gone)
    /\ d.up \subseteq d.known \cup d.gone
    /\ d.needRescan \subseteq d.known
    /\ d.recheck \subseteq NamesOf(d.known)
    /\ \A i \in d.known : d.details[i] # Absent

(* What a window displays is known or about to be taken away, and in one *)
(* that does not filter by type it is what the filter lets through, drawn *)
(* as the Directory has it unless a redraw is waiting. *)
ShownIn(d, w) ==
    /\ InView(d, w) \subseteq d.known \cup d.gone
    /\ d.only[w] = "all" =>
          /\ \A i \in d.known : Lets(d, w, i) => d.view[w][i] # Absent
          /\ \A i \in InView(d, w) : Lets(d, w, i)
          /\ \A i \in d.known : d.view[w][i] \in {Absent, d.details[i]} \/ i \in d.up

Displayed(d) ==
    \A w \in Window : IF w \in d.users THEN ShownIn(d, w) ELSE InView(d, w) = {}

(* The Directory has the names on the disk, and of each item what is there *)
(* or a note to look at it again ... *)
Copied(d) ==
    /\ NamesOf(d.known) = OnDisk
    /\ \A i \in d.known :
          i \in d.needRescan \/ NameOf(i) \in d.recheck \/ d.details[i] = disk[NameOf(i)]

(* ... which is not put off for what the windows W display. *)
NotPutOff(d, W) == \A w \in W : InView(d, w) \cap d.needRescan = {}

Fresh(d) == Copied(d) /\ NotPutOff(d, d.users)

--------------------
(* Operators that leave all this alone. *)

SameContent(d, e) ==
    /\ e.users = d.users /\ e.known = d.known /\ e.new = d.new /\ e.up = d.up /\ e.gone = d.gone
    /\ e.details = d.details /\ e.needRescan = d.needRescan /\ e.recheck = d.recheck
    /\ e.view = d.view /\ e.showHidden = d.showHidden /\ e.only = d.only

SameRest(d, e) ==
    e.loaded = d.loaded /\ e.error = d.error /\ e.closing = d.closing /\ e.missed = d.missed

LEMMA SameContentKeeps ==
    ASSUME NEW d, NEW e, SameContent(d, e)
    PROVE  /\ Listed(d) => Listed(e)
           /\ Displayed(d) => Displayed(e)
           /\ Fresh(d) => Fresh(e)
<1>1. Listed(d) => Listed(e)
  BY DEF SameContent, Listed
<1>2. Displayed(d) => Displayed(e)
  BY DEF SameContent, Displayed, ShownIn, InView, Lets
<1>3. Fresh(d) => Fresh(e)
  BY DEF SameContent, Fresh, Copied, NotPutOff, InView
<1> QED BY <1>1, <1>2, <1>3

LEMMA SetScanningContent ==
    ASSUME NEW d \in DirectoryType, NEW on \in BOOLEAN
    PROVE  SameContent(d, SetScanning(d, on)) /\ SameRest(d, SetScanning(d, on))
BY DEF SetScanning, DirectoryType, SameContent, SameRest

LEMMA IdleContent ==
    ASSUME NEW d \in DirectoryType, NEW on \in BOOLEAN
    PROVE  SameContent(d, [d EXCEPT !.idle = on]) /\ SameRest(d, [d EXCEPT !.idle = on])
BY DEF DirectoryType, SameContent, SameRest

--------------------
(* merge_new. *)

LEMMA TellValue ==
    ASSUME NEW d \in DirectoryType, NEW W, NEW add, NEW upd, NEW del,
           NEW w \in Window, NEW i \in Item
    PROVE  Tell(d, W, add, upd, del)[w][i] =
             IF w \notin W THEN d.view[w][i]
             ELSE IF NameOf(i) \in NamesOf(del) THEN Absent
             ELSE IF MatchFilter(d, w, i) /\ (i \in add \/ (i \in upd /\ d.view[w][i] # Absent))
                  THEN d.details[i]
                  ELSE d.view[w][i]
BY DEF Tell, Redrawn

(* Without a type filter, hidden names are all a window filters. *)
LEMMA MatchAll ==
    ASSUME NEW d, NEW w, d.only[w] = "all", NEW i
    PROVE  MatchFilter(d, w, i) <=> Lets(d, w, i)
BY DEF MatchFilter, Shown, Lets

LEMMA NamesOfMember ==
    ASSUME NEW S, NEW i \in S
    PROVE  NameOf(i) \in NamesOf(S)
BY DEF NamesOf

(* What is merged out of the lists when no item is new: what has gone is *)
(* taken out of the windows, what has changed is redrawn. *)
LEMMA MergeNewContent ==
    ASSUME NEW d \in DirectoryType, Listed(d), Displayed(d)
    PROVE  LET e == MergeNew(d)
           IN  /\ Listed(e) /\ Displayed(e) /\ SameRest(d, e)
               /\ e.known = d.known /\ e.up = {} /\ e.gone = {}
               /\ e.needRescan = d.needRescan /\ e.recheck = d.recheck /\ e.users = d.users
               /\ e.showHidden = d.showHidden /\ e.only = d.only
               /\ Fresh(d) => Fresh(e)
<1> DEFINE e == MergeNew(d)
<1>1. d.new = {} /\ NamesOf(d.new) = {} /\ Latest(d.new) = {}
  BY DEF Listed, NamesOf, Latest
<1>2. /\ e.known = {i \in d.known : NameOf(i) \notin NamesOf(d.new)} \cup Latest(d.new)
      /\ e.new = {} /\ e.up = {} /\ e.gone = {}
      /\ e.view = Tell(d, d.users, d.new, d.up, d.gone)
      /\ e.details = Freed(d.details, d.gone)
      /\ e.needRescan = d.needRescan \ d.gone
  BY DEF MergeNew, DirectoryType
<1>3. /\ e.recheck = d.recheck /\ e.users = d.users
      /\ e.showHidden = d.showHidden /\ e.only = d.only /\ SameRest(d, e)
  BY DEF MergeNew, DirectoryType, SameRest
<1> HIDE DEF e
<1>4. e.known = d.known
  BY <1>1, <1>2
<1>5. e.needRescan = d.needRescan
  BY <1>2 DEF Listed
<1>6. /\ d.known \subseteq Item /\ d.gone \subseteq Item
      /\ d.view \in [Window -> [Item -> Content]]
  BY DEF DirectoryType, Content
<1>7. \A i \in d.known : e.details[i] = d.details[i]
  BY <1>2, <1>6 DEF Freed, Listed
<1>8. Listed(e)
  BY <1>2, <1>3, <1>4, <1>5, <1>7 DEF Listed, NamesUnique
<1>9. \A i \in d.known : NameOf(i) \notin NamesOf(d.gone)
  BY DEF Listed, NamesUnique, NamesOf
<1>10. ASSUME NEW w \in d.users, NEW i \in Item
       PROVE  e.view[w][i] = IF NameOf(i) \in NamesOf(d.gone) THEN Absent
                             ELSE IF MatchFilter(d, w, i) /\ i \in d.up /\ d.view[w][i] # Absent
                             THEN d.details[i] ELSE d.view[w][i]
  <2>1. w \in Window
    BY DEF DirectoryType
  <2> QED BY <1>1, <1>2, <2>1, TellValue
<1>11. ASSUME NEW w \in Window, w \notin d.users
       PROVE  InView(e, w) = InView(d, w)
  BY <1>2, <1>11, TellValue DEF InView
<1>12. ASSUME NEW w \in d.users
       PROVE  ShownIn(e, w) /\ InView(e, w) \subseteq InView(d, w)
  <2>1. w \in Window /\ ShownIn(d, w)
    BY DEF DirectoryType, Displayed
  <2>2. InView(e, w) \subseteq InView(d, w)
    BY <1>10 DEF InView
  <2>3. \A i \in InView(e, w) : i \notin d.gone
    BY <1>10, NamesOfMember DEF InView
  <2>4. InView(e, w) \subseteq e.known \cup e.gone
    BY <1>4, <2>1, <2>2, <2>3 DEF ShownIn
  <2>5. ASSUME d.only[w] = "all"
        PROVE  /\ \A i \in e.known : Lets(e, w, i) => e.view[w][i] # Absent
               /\ \A i \in InView(e, w) : Lets(e, w, i)
               /\ \A i \in e.known : e.view[w][i] \in {Absent, e.details[i]} \/ i \in e.up
    <3>1. \A i : MatchFilter(d, w, i) <=> Lets(d, w, i)
      BY <2>5, MatchAll
    <3>2. \A i : Lets(e, w, i) <=> Lets(d, w, i)
      BY <1>3 DEF Lets
    <3>3. ASSUME NEW i \in e.known
          PROVE  /\ Lets(e, w, i) => e.view[w][i] # Absent
                 /\ e.view[w][i] \in {Absent, e.details[i]}
      <4>1. i \in Item /\ i \in d.known /\ d.details[i] # Absent /\ e.details[i] = d.details[i]
        BY <1>4, <1>6, <1>7 DEF Listed
      <4>2. /\ Lets(d, w, i) => d.view[w][i] # Absent
            /\ d.view[w][i] # Absent => Lets(d, w, i)
            /\ d.view[w][i] \in {Absent, d.details[i]} \/ i \in d.up
        BY <2>1, <2>5, <4>1 DEF ShownIn, InView
      <4> QED BY <1>9, <1>10, <3>1, <3>2, <4>1, <4>2
    <3>4. \A i \in InView(e, w) : Lets(e, w, i)
      BY <2>1, <2>2, <2>5, <3>2 DEF ShownIn
    <3> QED BY <3>3, <3>4
  <2> QED BY <1>3, <2>2, <2>4, <2>5 DEF ShownIn
<1>13. Displayed(e)
  BY <1>3, <1>11, <1>12 DEF Displayed
<1>14. ASSUME Fresh(d) PROVE Fresh(e)
  BY <1>3, <1>4, <1>5, <1>7, <1>12, <1>14 DEF Fresh, Copied, NotPutOff
<1> QED BY <1>2, <1>3, <1>4, <1>5, <1>8, <1>13, <1>14 DEF e

--------------------
(* dir_rescan, up to the second merge_new. *)

(* Items with other names are removed from the lists and the windows. *)
LEMMA RemoveMissingContent ==
    ASSUME NEW d \in DirectoryType, Listed(d), Displayed(d), d.up = {}, d.gone = {}, NEW names
    PROVE  LET e == RemoveMissing(d, names)
           IN  /\ e.known = {i \in d.known : NameOf(i) \in names}
               /\ e.new = {} /\ e.up = {} /\ e.gone = {}
               /\ e.needRescan \subseteq e.known
               /\ NamesUnique(e.known)
               /\ \A i \in e.known : e.details[i] # Absent
               /\ Displayed(e) /\ SameRest(d, e)
               /\ e.users = d.users /\ e.showHidden = d.showHidden /\ e.only = d.only
<1> DEFINE e == RemoveMissing(d, names)
           deleted == {i \in d.known : NameOf(i) \notin names}
<1>1. /\ e.known = d.known \ deleted
      /\ e.new = d.new /\ e.up = d.up /\ e.gone = d.gone
      /\ e.view = Tell(d, d.users, {}, {}, deleted)
      /\ e.details = Freed(d.details, deleted)
      /\ e.needRescan = d.needRescan \ deleted
  BY DEF RemoveMissing, DirectoryType
<1>2. /\ e.users = d.users
      /\ e.showHidden = d.showHidden /\ e.only = d.only /\ SameRest(d, e)
  BY DEF RemoveMissing, DirectoryType, SameRest
<1> HIDE DEF e
<1>3. d.known \subseteq Item /\ d.view \in [Window -> [Item -> Content]]
  BY DEF DirectoryType, Content
<1>4. e.known = {i \in d.known : NameOf(i) \in names}
  BY <1>1
<1>5. \A i \in e.known : e.details[i] = d.details[i]
  BY <1>1, <1>3 DEF Freed
<1>6. /\ e.new = {} /\ e.up = {} /\ e.gone = {}
      /\ e.needRescan \subseteq e.known
      /\ NamesUnique(e.known)
      /\ \A i \in e.known : e.details[i] # Absent
  BY <1>1, <1>4, <1>5 DEF Listed, NamesUnique
<1>7. ASSUME NEW w \in d.users, NEW i \in Item
      PROVE  e.view[w][i] = IF NameOf(i) \in NamesOf(deleted) THEN Absent ELSE d.view[w][i]
  <2>1. w \in Window
    BY DEF DirectoryType
  <2> QED BY <1>1, <2>1, TellValue
<1>8. ASSUME NEW w \in Window, w \notin d.users
      PROVE  InView(e, w) = InView(d, w)
  BY <1>1, <1>8, TellValue DEF InView
<1>9. \A i \in e.known : NameOf(i) \notin NamesOf(deleted)
  BY <1>4 DEF NamesOf
<1>10. ASSUME NEW w \in d.users
       PROVE  ShownIn(e, w)
  <2>1. w \in Window /\ ShownIn(d, w)
    BY DEF DirectoryType, Displayed
  <2>2. InView(e, w) \subseteq InView(d, w)
    BY <1>7 DEF InView
  <2>3. \A i \in InView(e, w) : i \notin deleted
    BY <1>7, NamesOfMember DEF InView
  <2>4. InView(e, w) \subseteq e.known \cup e.gone
    BY <1>1, <2>1, <2>2, <2>3 DEF ShownIn
  <2>5. ASSUME d.only[w] = "all"
        PROVE  /\ \A i \in e.known : Lets(e, w, i) => e.view[w][i] # Absent
               /\ \A i \in InView(e, w) : Lets(e, w, i)
               /\ \A i \in e.known : e.view[w][i] \in {Absent, e.details[i]} \/ i \in e.up
    <3>1. \A i : Lets(e, w, i) <=> Lets(d, w, i)
      BY <1>2 DEF Lets
    <3>2. \A i \in e.known : i \in d.known /\ e.view[w][i] = d.view[w][i]
      BY <1>3, <1>4, <1>7, <1>9
    <3> QED BY <1>1, <1>5, <2>1, <2>2, <2>5, <3>1, <3>2 DEF ShownIn
  <2> QED BY <1>2, <2>4, <2>5 DEF ShownIn
<1>11. Displayed(e)
  BY <1>2, <1>8, <1>10 DEF Displayed
<1> QED BY <1>2, <1>4, <1>6, <1>11 DEF e

(* The names are read and merged: every name on the disk is known, under *)
(* one item, is displayed where the filter lets it through, and is to be *)
(* looked at again. *)
LEMMA ReadNamesContent ==
    ASSUME NEW d \in DirectoryType, Listed(d), Displayed(d)
    PROVE  LET e == MergeNew(ReadNames(d))
           IN  /\ Listed(e) /\ Displayed(e)
               /\ NamesOf(e.known) = OnDisk
               /\ e.needRescan = e.known /\ e.recheck = {}
               /\ e.loaded = d.loaded /\ e.error = d.error /\ e.closing = d.closing /\ ~e.missed
               /\ e.users = d.users
<1> DEFINE s == SetScanning(d, TRUE)
           m == MergeNew(s)
           kept == RemoveMissing(m, OnDisk)
           fresh == {NewItem(kept, l) : l \in OnDisk \ NamesOf(kept.known)}
           r == ReadNames(d)
           e == MergeNew(r)
<1>1. /\ s \in DirectoryType /\ Listed(s) /\ Displayed(s) /\ SameRest(d, s) /\ s.users = d.users
  BY SetScanningType, SetScanningContent, SameContentKeeps DEF SameContent
<1> HIDE DEF s
<1>2. /\ m \in DirectoryType /\ Listed(m) /\ Displayed(m) /\ SameRest(s, m)
      /\ m.up = {} /\ m.gone = {} /\ m.users = d.users
  BY <1>1, MergeNewType, MergeNewContent
<1> HIDE DEF m
<1>3. /\ kept \in DirectoryType /\ Displayed(kept) /\ SameRest(m, kept) /\ kept.users = d.users
      /\ kept.known = {i \in m.known : NameOf(i) \in OnDisk}
      /\ kept.new = {} /\ kept.up = {} /\ kept.gone = {}
      /\ kept.needRescan \subseteq kept.known /\ NamesUnique(kept.known)
      /\ \A i \in kept.known : kept.details[i] # Absent
  BY <1>2, RemoveMissingType, RemoveMissingContent
<1> HIDE DEF kept
<1>4. ASSUME NEW l \in OnDisk \ NamesOf(kept.known)
      PROVE  NewItem(kept, l) \in Item /\ NameOf(NewItem(kept, l)) = l
  BY NewItemType DEF OnDisk
<1>5. fresh \subseteq Item /\ NamesUnique(fresh)
  BY <1>4 DEF NamesUnique
<1>6. NamesOf(fresh) = OnDisk \ NamesOf(kept.known)
  BY <1>4 DEF NamesOf
<1> HIDE DEF fresh
<1>7. r = [kept EXCEPT !.recheck    = {},
                       !.new        = fresh,
                       !.details    = [i \in Item |-> IF i \in fresh THEN Blank ELSE @[i]],
                       !.needRescan = @ \cup kept.known \cup fresh,
                       !.missed     = FALSE]
  BY DEF ReadNames, kept, m, s, fresh
<1> HIDE DEF r
<1>8. /\ r.known = kept.known /\ r.new = fresh /\ r.up = {} /\ r.gone = {}
      /\ r.view = kept.view /\ r.recheck = {} /\ r.users = kept.users
      /\ r.showHidden = kept.showHidden /\ r.only = kept.only
  BY <1>3, <1>7 DEF DirectoryType
<1>9. /\ r.details = [i \in Item |-> IF i \in fresh THEN Blank ELSE kept.details[i]]
      /\ r.needRescan = kept.known \cup fresh
      /\ r.loaded = kept.loaded /\ r.error = kept.error /\ r.closing = kept.closing
      /\ r.missed = FALSE
  BY <1>3, <1>7 DEF DirectoryType
<1>10. r \in DirectoryType
  <2>1. [i \in Item |-> IF i \in fresh THEN Blank ELSE kept.details[i]] \in [Item -> Content]
    BY <1>3 DEF DirectoryType, Content
  <2>2. kept \in DirectoryType
    BY <1>3
  <2> QED BY <1>5, <1>7, <2>1, <2>2 DEF DirectoryType, Content
<1>11. /\ e.known = {i \in r.known : NameOf(i) \notin NamesOf(r.new)} \cup Latest(r.new)
       /\ e.new = {} /\ e.up = {} /\ e.gone = {}
       /\ e.view = Tell(r, r.users, r.new, r.up, r.gone)
       /\ e.details = Freed(r.details, r.gone)
       /\ e.needRescan = r.needRescan \ r.gone
  BY <1>10 DEF MergeNew, DirectoryType
<1>12. /\ e.recheck = r.recheck /\ e.users = r.users
       /\ e.showHidden = r.showHidden /\ e.only = r.only
       /\ e.loaded = r.loaded /\ e.error = r.error /\ e.closing = r.closing /\ e.missed = r.missed
  BY <1>10 DEF MergeNew, DirectoryType
<1> HIDE DEF e
<1>13. kept.known \subseteq Item /\ kept.view \in [Window -> [Item -> Content]]
  BY <1>3 DEF DirectoryType, Content
<1>14. Latest(fresh) = fresh
  <2>1. \A i \in fresh : i[2] \in Nat
    BY <1>5 DEF Item
  <2>2. \A i \in fresh : i[2] <= i[2]
    BY <2>1
  <2>3. \A i, j \in fresh : NameOf(j) = NameOf(i) => j[2] <= i[2]
    BY <1>5, <2>2 DEF NamesUnique
  <2> QED BY <2>3 DEF Latest
<1>15. \A i \in kept.known : NameOf(i) \in NamesOf(kept.known) /\ NameOf(i) \notin NamesOf(fresh)
  BY <1>6, NamesOfMember
<1>16. e.known = kept.known \cup fresh
  BY <1>8, <1>11, <1>14, <1>15
<1>17. NamesOf(e.known) = OnDisk
  BY <1>3, <1>6, <1>16 DEF NamesOf
<1>18. /\ \A i \in fresh : e.details[i] = Blank /\ r.details[i] = Blank
       /\ \A i \in kept.known : e.details[i] = kept.details[i] /\ r.details[i] = kept.details[i]
  <2>1. \A i \in Item : e.details[i] = r.details[i]
    BY <1>8, <1>11 DEF Freed
  <2>2. \A i \in kept.known : i \notin fresh
    BY <1>15, NamesOfMember
  <2> QED BY <1>5, <1>9, <1>13, <2>1, <2>2
<1>19. Blank # Absent
  BY ConstantsAssumption DEF Blank, Absent
<1>20. Listed(e)
  <2>1. NamesUnique(e.known)
    BY <1>3, <1>5, <1>15, <1>16, NamesOfMember DEF NamesUnique
  <2>2. \A i \in e.known : e.details[i] # Absent
    BY <1>3, <1>16, <1>18, <1>19
  <2> QED BY <1>8, <1>9, <1>11, <1>12, <1>16, <2>1, <2>2 DEF Listed
<1>21. ASSUME NEW w \in r.users, NEW i \in Item
       PROVE  e.view[w][i] = IF MatchFilter(r, w, i) /\ i \in fresh
                             THEN r.details[i] ELSE kept.view[w][i]
  <2>1. w \in Window /\ NamesOf(r.gone) = {}
    BY <1>8, <1>10 DEF DirectoryType, NamesOf
  <2> QED BY <1>8, <1>10, <1>11, <2>1, TellValue
<1>22. ASSUME NEW w \in Window, w \notin r.users
       PROVE  InView(e, w) = InView(kept, w)
  BY <1>8, <1>10, <1>11, <1>22, TellValue DEF InView
<1>23. ASSUME NEW w \in r.users
       PROVE  ShownIn(e, w)
  <2>1. w \in Window /\ ShownIn(kept, w)
    BY <1>3, <1>8 DEF DirectoryType, Displayed
  <2>2. InView(e, w) \subseteq e.known \cup e.gone
    BY <1>3, <1>16, <1>21, <2>1 DEF InView, ShownIn
  <2>3. ASSUME e.only[w] = "all"
        PROVE  /\ \A i \in e.known : Lets(e, w, i) => e.view[w][i] # Absent
               /\ \A i \in InView(e, w) : Lets(e, w, i)
               /\ \A i \in e.known : e.view[w][i] \in {Absent, e.details[i]} \/ i \in e.up
    <3>1. r.only[w] = "all" /\ kept.only[w] = "all"
      BY <1>8, <1>12, <2>3
    <3>2. \A i : MatchFilter(r, w, i) <=> Lets(r, w, i)
      BY <3>1, MatchAll
    <3>3. \A i : (Lets(e, w, i) <=> Lets(r, w, i)) /\ (Lets(kept, w, i) <=> Lets(r, w, i))
      BY <1>8, <1>12 DEF Lets
    <3>4. \A i \in fresh : kept.view[w][i] = Absent
      <4> SUFFICES ASSUME NEW i \in fresh, kept.view[w][i] # Absent PROVE FALSE
        OBVIOUS
      <4>1. i \in kept.known
        BY <1>3, <1>5, <2>1 DEF InView, ShownIn
      <4> QED BY <1>15, <4>1, NamesOfMember
    <3>5. ASSUME NEW i \in fresh
          PROVE  /\ Lets(e, w, i) => e.view[w][i] # Absent
                 /\ e.view[w][i] # Absent => Lets(e, w, i)
                 /\ e.view[w][i] \in {Absent, e.details[i]}
      BY <1>5, <1>18, <1>19, <1>21, <3>2, <3>3, <3>4
    <3>6. ASSUME NEW i \in kept.known
          PROVE  /\ Lets(e, w, i) => e.view[w][i] # Absent
                 /\ e.view[w][i] # Absent => Lets(e, w, i)
                 /\ e.view[w][i] \in {Absent, e.details[i]}
      <4>1. i \in Item /\ i \notin fresh
        BY <1>13, <1>15, NamesOfMember
      <4>2. e.view[w][i] = kept.view[w][i]
        BY <1>21, <4>1
      <4> QED BY <1>3, <1>18, <2>1, <3>1, <3>3, <4>1, <4>2 DEF ShownIn, InView
    <3>7. \A i \in InView(e, w) : i \in e.known /\ e.view[w][i] # Absent
      BY <1>11, <2>2 DEF InView
    <3> QED BY <1>16, <3>5, <3>6, <3>7
  <2> QED BY <2>2, <2>3 DEF ShownIn
<1>24. Displayed(e)
  BY <1>3, <1>8, <1>12, <1>22, <1>23 DEF Displayed
<1>25. e.needRescan = e.known
  BY <1>8, <1>9, <1>11, <1>16
<1> QED BY <1>1, <1>2, <1>3, <1>8, <1>9, <1>12, <1>17, <1>20, <1>24, <1>25 DEF SameRest, e, r

--------------------
(* The recheck list. *)

(* queue_interesting: what is displayed is moved from one list to another. *)
LEMMA QueueInterestingContent ==
    ASSUME NEW d \in DirectoryType, Listed(d), Displayed(d), NEW W \in SUBSET Window
    PROVE  LET e == QueueInteresting(d, W)
           IN  /\ Listed(e) /\ Displayed(e) /\ SameRest(d, e) /\ e.users = d.users
               /\ Copied(d) => Copied(e)
               /\ NotPutOff(e, W)
               /\ \A U : NotPutOff(d, U) => NotPutOff(e, U)
<1> DEFINE e == QueueInteresting(d, W)
           wanted == d.needRescan \cap UNION {InView(d, w) : w \in W}
<1>1. /\ e.recheck = d.recheck \cup NamesOf(wanted)
      /\ e.needRescan = d.needRescan \ wanted
  BY DEF QueueInteresting, DirectoryType
<1>2. /\ e.users = d.users /\ e.known = d.known /\ e.new = d.new /\ e.up = d.up
      /\ e.gone = d.gone /\ e.details = d.details
      /\ e.view = d.view /\ e.showHidden = d.showHidden /\ e.only = d.only /\ SameRest(d, e)
  BY DEF QueueInteresting, DirectoryType, SameRest
<1> HIDE DEF e
<1>3. wanted \subseteq d.known /\ \A w \in W : InView(d, w) \cap d.needRescan \subseteq wanted
  BY DEF Listed
<1> HIDE DEF wanted
<1>4. Listed(e)
  BY <1>1, <1>2, <1>3 DEF Listed, NamesOf
<1>5. Displayed(e)
  BY <1>2 DEF Displayed, ShownIn, InView, Lets
<1>6. ASSUME Copied(d) PROVE Copied(e)
  BY <1>1, <1>2, <1>6, NamesOfMember DEF Copied
<1>7. NotPutOff(e, W) /\ \A U : NotPutOff(d, U) => NotPutOff(e, U)
  BY <1>1, <1>2, <1>3 DEF NotPutOff, InView
<1> QED BY <1>2, <1>4, <1>5, <1>6, <1>7 DEF e

(* insert_item for a name that is taken off the recheck list: the item is *)
(* the one that is known, and it has what is on the disk now. *)
LEMMA InsertItemContent ==
    ASSUME NEW d \in DirectoryType, Listed(d), Displayed(d), NEW l \in d.recheck,
           disk \in [Leaf -> Details \cup {Absent}]
    PROVE  LET e == InsertItem([d EXCEPT !.recheck = @ \ {l}], l)
           IN  /\ Listed(e) /\ Displayed(e) /\ SameRest(d, e) /\ e.users = d.users
               /\ Fresh(d) /\ dirstat # "gone" => Fresh(e)
<1> DEFINE c == [d EXCEPT !.recheck = @ \ {l}]
           found == {i \in c.known : NameOf(i) = l}
           now   == Lstat(l)
           item  == IF found = {} THEN NewItem(c, l) ELSE CHOOSE i \in found : TRUE
           restatted == [c EXCEPT !.details[item] = now, !.needRescan = @ \ {item}]
           e == InsertItem(c, l)
<1>1. c \in DirectoryType /\ c.recheck = d.recheck \ {l}
  BY DEF DirectoryType
<1>2. /\ c.users = d.users /\ c.known = d.known /\ c.new = d.new /\ c.up = d.up
      /\ c.gone = d.gone /\ c.details = d.details /\ c.needRescan = d.needRescan
      /\ c.view = d.view /\ c.showHidden = d.showHidden /\ c.only = d.only /\ SameRest(d, c)
  BY DEF DirectoryType, SameRest
<1> HIDE DEF c
<1>3. found # {} /\ found = {i \in d.known : NameOf(i) = l}
  BY <1>2 DEF Listed, NamesOf
<1>4. item \in d.known /\ NameOf(item) = l
  BY <1>3
<1>5. \A i \in d.known \cup d.gone : NameOf(i) = l => i = item
  BY <1>4 DEF Listed, NamesUnique
<1> HIDE DEF item, now
<1>6. item \in Item /\ d.known \subseteq Item /\ d.details \in [Item -> Content]
  BY <1>4 DEF DirectoryType, Content
<1>7. now \in Details \cup {Absent}
  BY LstatType DEF DirectoryType, now
<1>8. restatted \in DirectoryType
  BY <1>1, <1>6, <1>7 DEF DirectoryType, Content
<1>9. /\ restatted.recheck = d.recheck \ {l}
      /\ restatted.details = [d.details EXCEPT ![item] = now]
      /\ restatted.needRescan = d.needRescan \ {item}
      /\ restatted.users = d.users /\ restatted.known = d.known /\ restatted.new = d.new
      /\ restatted.up = d.up /\ restatted.gone = d.gone
      /\ restatted.view = d.view /\ restatted.showHidden = d.showHidden
      /\ restatted.only = d.only /\ SameRest(d, restatted)
  BY <1>1, <1>2 DEF DirectoryType, SameRest
<1>10. e = IF now = Absent
           THEN [restatted EXCEPT !.known = @ \ {item}, !.gone = @ \cup {item}, !.notify = TRUE]
           ELSE IF c.details[item] = now /\ item \notin c.needRescan THEN restatted
           ELSE [restatted EXCEPT !.up = @ \cup {item}, !.notify = TRUE]
  BY <1>3 DEF InsertItem, item, now, found
<1> HIDE DEF restatted, e
<1>11. /\ e.recheck = d.recheck \ {l} /\ e.needRescan = d.needRescan \ {item}
       /\ e.details = [d.details EXCEPT ![item] = now]
       /\ e.users = d.users /\ e.new = d.new /\ e.view = d.view
       /\ e.showHidden = d.showHidden /\ e.only = d.only /\ SameRest(d, e)
  BY <1>8, <1>9, <1>10 DEF DirectoryType, SameRest
<1>12. \A i \in Item : i # item => e.details[i] = d.details[i]
  BY <1>6, <1>11
<1>13. e.details[item] = now
  BY <1>6, <1>11
<1>14. \A w : InView(e, w) = InView(d, w) /\ \A i : Lets(e, w, i) <=> Lets(d, w, i)
  BY <1>11 DEF InView, Lets
<1>15. CASE now = Absent
  <2>1. e.known = d.known \ {item} /\ e.gone = d.gone \cup {item} /\ e.up = d.up
    BY <1>8, <1>9, <1>10, <1>15 DEF DirectoryType
  <2>2. Listed(e)
    <3>1. \A n \in d.recheck \ {l} : n \in NamesOf(e.known)
      BY <1>4, <2>1 DEF Listed, NamesOf
    <3>2. d.known \cup d.gone = e.known \cup e.gone /\ e.known \cap e.gone = {}
      BY <1>4, <2>1 DEF Listed
    <3>3. e.needRescan \subseteq e.known /\ e.recheck \subseteq NamesOf(e.known)
      BY <1>11, <2>1, <3>1 DEF Listed
    <3>4. \A i \in e.known : e.details[i] # Absent
      BY <1>6, <1>12, <2>1 DEF Listed
    <3> QED BY <1>11, <2>1, <3>2, <3>3, <3>4 DEF Listed
  <2>3. ASSUME NEW w \in d.users PROVE ShownIn(e, w)
    <3>1. ShownIn(d, w)
      BY DEF Displayed, DirectoryType
    <3> QED BY <1>4, <1>6, <1>11, <1>12, <1>14, <2>1, <3>1 DEF ShownIn
  <2>4. Displayed(e)
    BY <1>11, <1>14, <2>3 DEF Displayed
  <2>5. ~(Copied(d) /\ dirstat # "gone")
    BY <1>4, <1>15, NamesOfMember DEF Copied, OnDisk, Lstat, now
  <2> QED BY <1>11, <2>2, <2>4, <2>5 DEF e, c, Fresh
<1>16. CASE now # Absent
  <2>1. /\ e.known = d.known /\ e.gone = d.gone
        /\ e.up \in {d.up, d.up \cup {item}}
        /\ item \notin e.up => now = d.details[item]
    BY <1>2, <1>8, <1>9, <1>10, <1>16 DEF DirectoryType
  <2>2. Listed(e)
    BY <1>4, <1>6, <1>11, <1>12, <1>13, <1>16, <2>1 DEF Listed
  <2>3. ASSUME NEW w \in d.users PROVE ShownIn(e, w)
    <3>1. ShownIn(d, w)
      BY DEF Displayed, DirectoryType
    <3> QED BY <1>4, <1>6, <1>11, <1>12, <1>13, <1>14, <2>1, <3>1 DEF ShownIn
  <2>4. Displayed(e)
    BY <1>11, <1>14, <2>3 DEF Displayed
  <2>5. ASSUME Fresh(d), dirstat # "gone" PROVE Fresh(e)
    <3>1. now = disk[l]
      BY <2>5 DEF Lstat, now
    <3>2. \A i \in d.known : i # item => NameOf(i) # l
      BY <1>5
    <3>3. Copied(e)
      BY <1>4, <1>6, <1>11, <1>12, <1>13, <2>1, <2>5, <3>1, <3>2 DEF Fresh, Copied
    <3>4. NotPutOff(e, e.users)
      BY <1>11, <1>14, <2>5 DEF Fresh, NotPutOff
    <3> QED BY <3>3, <3>4 DEF Fresh
  <2> QED BY <1>11, <2>2, <2>4, <2>5 DEF e, c
<1> QED BY <1>15, <1>16

(* recheck_callback before it looks at needs_update. *)
LEMMA RecheckOneContent ==
    ASSUME NEW d \in DirectoryType, Listed(d), Displayed(d), d.recheck # {}, NEW next,
           disk \in [Leaf -> Details \cup {Absent}]
    PROVE  LET e == RecheckOne(d, next)
           IN  /\ Listed(e) /\ Displayed(e) /\ SameRest(d, e) /\ e.users = d.users
               /\ Fresh(d) /\ dirstat # "gone" => Fresh(e)
<1> DEFINE l == Pick(d.recheck, next)
           d1 == [d EXCEPT !.recheck = @ \ {l}]
           e1 == InsertItem(d1, l)
           m == MergeNew(e1)
           s == SetScanning(m, FALSE)
           e == RecheckOne(d, next)
<1>1. l \in d.recheck /\ l \in Leaf
  BY PickInSet DEF DirectoryType
<1> HIDE DEF l
<1>2. d1 \in DirectoryType
  BY DEF DirectoryType
<1>3. /\ Listed(e1) /\ Displayed(e1) /\ SameRest(d, e1) /\ e1.users = d.users
      /\ Fresh(d) /\ dirstat # "gone" => Fresh(e1)
  BY <1>1, InsertItemContent
<1> HIDE DEF d1
<1>4. e1 \in DirectoryType
  BY <1>1, <1>2, InsertItemType
<1>5. e = IF e1.recheck # {} THEN e1 ELSE [s EXCEPT !.idle = FALSE]
  BY DEF RecheckOne, s, m, e1, d1, l
<1> HIDE DEF e1
<1>6. /\ m \in DirectoryType /\ Listed(m) /\ Displayed(m) /\ SameRest(e1, m)
      /\ m.users = e1.users /\ (Fresh(e1) => Fresh(m))
  BY <1>3, <1>4, MergeNewType, MergeNewContent
<1> HIDE DEF m
<1>7. s \in DirectoryType /\ SameContent(m, s) /\ SameRest(m, s)
  BY <1>6, SetScanningType, SetScanningContent
<1> HIDE DEF s, e
<1>8. CASE e1.recheck # {}
  BY <1>3, <1>5, <1>8 DEF e
<1>9. CASE e1.recheck = {}
  <2>1. SameContent(s, e) /\ SameRest(s, e)
    BY <1>5, <1>7, <1>9, IdleContent
  <2>2. SameContent(m, e) /\ SameRest(m, e)
    BY <1>7, <2>1 DEF SameContent, SameRest
  <2>3. Listed(e) /\ Displayed(e) /\ (Fresh(m) => Fresh(e)) /\ e.users = m.users
    BY <1>6, <2>2, SameContentKeeps DEF SameContent
  <2> QED BY <1>3, <1>6, <2>2, <2>3 DEF SameRest, e
<1> QED BY <1>8, <1>9

LEMMA SetIdleCallbackContent ==
    ASSUME NEW d \in DirectoryType, Listed(d), Displayed(d), NEW next,
           disk \in [Leaf -> Details \cup {Absent}]
    PROVE  LET e == SetIdleCallback(d, next)
           IN  /\ Listed(e) /\ Displayed(e) /\ SameRest(d, e) /\ e.users = d.users
               /\ Fresh(d) /\ dirstat # "gone" => Fresh(e)
<1> DEFINE e == SetIdleCallback(d, next)
           t == SetScanning(d, TRUE)
           f == SetScanning(d, FALSE)
           t1 == [t EXCEPT !.idle = TRUE]
           f1 == [f EXCEPT !.idle = FALSE]
<1>1. /\ t \in DirectoryType /\ SameContent(d, t) /\ SameRest(d, t)
      /\ f \in DirectoryType /\ SameContent(d, f) /\ SameRest(d, f)
  BY SetScanningType, SetScanningContent
<1>2. e = IF d.recheck # {} /\ d.users # {}
          THEN IF d.idle THEN t ELSE RecheckOne(t1, next)
          ELSE f1
  BY DEF SetIdleCallback
<1> HIDE DEF t, f, e
<1>3. /\ SameContent(t, t1) /\ SameRest(t, t1) /\ SameContent(f, f1) /\ SameRest(f, f1)
      /\ t1 \in DirectoryType
  <2>1. t1 \in DirectoryType
    BY <1>1 DEF DirectoryType
  <2> QED BY <1>1, <2>1, IdleContent
<1> HIDE DEF t1, f1
<1>4. ASSUME NEW x \in {t, t1, f1}
      PROVE  /\ Listed(x) /\ Displayed(x) /\ SameRest(d, x) /\ x.users = d.users
             /\ x.recheck = d.recheck /\ (Fresh(d) => Fresh(x))
  <2>1. SameContent(d, x) /\ SameRest(d, x)
    BY <1>1, <1>3 DEF SameContent, SameRest
  <2> QED BY <2>1, SameContentKeeps DEF SameContent
<1>5. CASE d.recheck # {} /\ d.users # {} /\ ~d.idle
  <2>1. /\ Listed(e) /\ Displayed(e) /\ SameRest(t1, e) /\ e.users = t1.users
        /\ Fresh(t1) /\ dirstat # "gone" => Fresh(e)
    BY <1>2, <1>3, <1>4, <1>5, RecheckOneContent
  <2> QED BY <1>4, <2>1 DEF SameRest, e
<1>6. CASE ~(d.recheck # {} /\ d.users # {} /\ ~d.idle)
  <2>1. e \in {t, f1}
    BY <1>2, <1>6
  <2> QED BY <1>4, <2>1 DEF e
<1> QED BY <1>5, <1>6

--------------------
(* dir_rescan and what leads to it. *)

(* A directory that can be read is as on the disk after it; one that cannot*)
(* has an error to show or is about to lose its windows. *)
LEMMA RescanContent ==
    ASSUME NEW d \in DirectoryType, Listed(d), Displayed(d), NEW next, NEW X,
           IndicatorsBut(d, X), CloseWhenMissing = TRUE, disk \in [Leaf -> Details \cup {Absent}],
           dirstat \in {"ok", "gone", "noread"}
    PROVE  LET e == Rescan(d, next)
           IN  /\ Listed(e) /\ Displayed(e)
               /\ e.users = d.users /\ e.loaded = d.loaded
               /\ d.closing => e.closing
               /\ dirstat = "ok" => Fresh(e)
               /\ dirstat = "gone" => e.closing
               /\ dirstat = "noread" => e.error # "none"
<1> DEFINE d0 == [d EXCEPT !.needsUpdate = FALSE, !.error = "none"]
           d1 == MergeNew(ReadNames(d0))
           q  == QueueInteresting(d1, d1.users)
           i  == SetIdleCallback(q, next)
           e  == Rescan(d, next)
<1>1. /\ d0 \in DirectoryType /\ SameContent(d, d0) /\ d0.loaded = d.loaded /\ d0.closing = d.closing
      /\ IndicatorsBut(d0, X)
  BY DEF DirectoryType, SameContent, IndicatorsBut
<1>2. e = CASE dirstat = "gone" -> [d0 EXCEPT !.closing = TRUE]
            [] dirstat = "noread" -> [d0 EXCEPT !.error = "open"]
            [] OTHER -> MergeNew(i)
  BY DEF Rescan
<1> HIDE DEF d0, e
<1>3. Listed(d0) /\ Displayed(d0) /\ d0.users = d.users
  BY <1>1, SameContentKeeps DEF SameContent
<1>4. CASE dirstat = "gone"
  <2>1. e = [d0 EXCEPT !.closing = TRUE]
    BY <1>2, <1>4
  <2>2. SameContent(d0, e) /\ e.loaded = d0.loaded /\ e.closing = TRUE
    BY <1>1, <2>1 DEF DirectoryType, SameContent
  <2> QED BY <1>1, <1>3, <1>4, <2>2, SameContentKeeps DEF SameContent, e
<1>5. CASE dirstat = "noread"
  <2>1. e = [d0 EXCEPT !.error = "open"]
    BY <1>2, <1>5
  <2>2. SameContent(d0, e) /\ e.loaded = d0.loaded /\ e.closing = d0.closing /\ e.error = "open"
    BY <1>1, <2>1 DEF DirectoryType, SameContent
  <2> QED BY <1>1, <1>3, <1>5, <2>2, SameContentKeeps DEF SameContent, e
<1>6. CASE dirstat = "ok"
  <2>1. e = MergeNew(i)
    BY <1>2, <1>6
  <2>2. ReadNames(d0) \in DirectoryType /\ IndicatorsBut(ReadNames(d0), X)
    BY <1>1, ReadNamesLemma
  <2>3. d1 \in DirectoryType /\ IndicatorsBut(d1, X)
    BY <2>2, MergeNewType, MergeNewControl DEF SameScan, IndicatorsBut
  <2>4. /\ Listed(d1) /\ Displayed(d1)
        /\ NamesOf(d1.known) = OnDisk
        /\ d1.needRescan = d1.known
        /\ d1.loaded = d0.loaded /\ d1.closing = d0.closing
        /\ d1.users = d0.users
    BY <1>1, <1>3, ReadNamesContent
  <2> HIDE DEF d1
  <2>5. Copied(d1)
    BY <2>4 DEF Copied
  <2>6. d1.users \in SUBSET Window
    BY <2>3 DEF DirectoryType
  <2>7. /\ q \in DirectoryType /\ Listed(q) /\ Displayed(q) /\ SameRest(d1, q)
        /\ q.users = d1.users /\ Copied(q) /\ NotPutOff(q, q.users)
    BY <2>3, <2>4, <2>5, <2>6, QueueInterestingType, QueueInterestingContent
  <2>8. IndicatorsBut(q, X)
    BY <2>3, QueueInterestingControl DEF SameScan, IndicatorsBut
  <2> HIDE DEF q
  <2>9. Fresh(q)
    BY <2>7 DEF Fresh
  <2>10. /\ Listed(i) /\ Displayed(i) /\ SameRest(q, i) /\ i.users = q.users /\ Fresh(i)
    BY <1>6, <2>7, <2>9, SetIdleCallbackContent
  <2>11. i \in DirectoryType
    BY <2>7, <2>8, SetIdleCallbackLemma
  <2> HIDE DEF i
  <2>12. Listed(e) /\ Displayed(e) /\ SameRest(i, e) /\ e.users = i.users /\ Fresh(e)
    BY <2>1, <2>10, <2>11, MergeNewContent
  <2> QED BY <1>1, <1>3, <1>6, <2>4, <2>7, <2>10, <2>12 DEF SameRest, e
<1> QED BY <1>4, <1>5, <1>6

--------------------
(* The operations the actions are made of. *)

(* Something says that the Directory is not what is on the disk ... *)
Behind(d) == d.needsUpdate \/ d.missed \/ d.error # "none"

(* ... or its windows are about to be closed (while it is known to have *)
(* changed: "changed"), or it is. *)
Right(d, changed) ==
    Behind(d) \/ (changed /\ d.closing) \/ (Fresh(d) /\ dirstat # "gone")

Sound(d) == DirInv(d) /\ Listed(d) /\ Displayed(d)

FsOK ==
    /\ disk \in [Leaf -> Details \cup {Absent}]
    /\ dirstat \in {"ok", "gone", "noread"}
    /\ event \in BOOLEAN
    /\ CloseWhenMissing = TRUE

LEMMA RescanSound ==
    ASSUME NEW d, Sound(d), NEW next, FsOK, NEW changed, dirstat = "gone" => changed
    PROVE  LET e == Rescan(d, next)
           IN  Sound(e) /\ Right(e, changed) /\ e.users = d.users /\ e.loaded = d.loaded
<1>1. DirInv(Rescan(d, next))
  BY RescanInv DEF Sound, FsOK
<1>2. d \in DirectoryType /\ IndicatorsBut(d, {})
  BY DEF Sound, DirInv
<1> QED BY <1>1, <1>2, RescanContent DEF Sound, FsOK, Right, Behind

LEMMA UpdateSound ==
    ASSUME NEW d, Sound(d), NEW next, FsOK, NEW changed, dirstat = "gone" => changed
    PROVE  LET e == Update(d, next)
           IN  Sound(e) /\ Right(e, changed) /\ e.users = d.users /\ e.loaded = d.loaded
<1>1. CASE ~d.scanning
  BY <1>1, RescanSound DEF Update
<1>2. CASE d.scanning
  <2> DEFINE e == Update(d, next)
  <2>1. DirInv(e)
    BY UpdateInv DEF Sound, FsOK
  <2>2. d \in DirectoryType /\ e = [d EXCEPT !.needsUpdate = TRUE]
    BY <1>2 DEF Sound, DirInv, Update
  <2> HIDE DEF e
  <2>3. SameContent(d, e) /\ e.needsUpdate /\ e.loaded = d.loaded
    BY <2>2 DEF DirectoryType, SameContent
  <2> QED BY <2>1, <2>3, SameContentKeeps DEF Sound, SameContent, Right, Behind, e
<1> QED BY <1>1, <1>2

(* g_fscache_lookup: what has changed is updated, and a new Directory owes *)
(* an update. *)
LEMMA LookupSound ==
    ASSUME NEW d, Sound(d), NEW next, FsOK, dirstat # "gone", ~d.loaded => d.needsUpdate
    PROVE  LET e == Lookup(d, next)
           IN  /\ Sound(e) /\ e.users = d.users /\ e.loaded
               /\ dirty \/ Right(d, FALSE) => Right(e, FALSE)
<1> DEFINE e == Lookup(d, next)
<1>1. CASE ~d.loaded
  <2>1. DirInv(e)
    BY LookupInv DEF Sound, FsOK
  <2>2. d \in DirectoryType /\ e = [d EXCEPT !.loaded = TRUE]
    BY <1>1 DEF Sound, DirInv, Lookup
  <2> HIDE DEF e
  <2>3. SameContent(d, e) /\ e.needsUpdate /\ e.loaded
    BY <1>1, <2>2 DEF DirectoryType, SameContent
  <2> QED BY <2>1, <2>3, SameContentKeeps DEF Sound, SameContent, Right, Behind, e
<1>2. CASE d.loaded /\ dirty
  BY <1>2, UpdateSound DEF Lookup
<1>3. CASE d.loaded /\ ~dirty
  BY <1>3 DEF Lookup
<1> QED BY <1>1, <1>2, <1>3

LEMMA AttachSound ==
    ASSUME NEW d, Sound(d), NEW w \in Window, w \notin d.users, NEW next, FsOK,
           NEW changed, dirstat = "gone" => changed
    PROVE  LET e == Attach(d, w, next)
           IN  /\ Sound(e) /\ e.users = d.users \cup {w} /\ e.loaded = d.loaded
               /\ Right(d, changed) => Right(e, changed)
<1> DEFINE d2 == [d EXCEPT !.view[w] = NothingShown]
           drawn == Redrawn(d2, w, d.known, {}, {})
           shown == [d EXCEPT !.users = @ \cup {w}, !.busy[w] = TRUE, !.view[w] = drawn]
           asked == IF d.needsUpdate /\ ~d.scanning THEN Rescan(shown, next)
                    ELSE QueueInteresting(shown, {w})
           idled == SetIdleCallback(asked, next)
           e == Attach(d, w, next)
<1>1. d \in DirectoryType /\ Listed(d) /\ Displayed(d) /\ DirInv(d)
  BY DEF Sound, DirInv
<1>2. DirInv(e)
  BY <1>1, AttachInv DEF FsOK
<1>3. d2 \in DirectoryType /\ d2.known = d.known /\ d2.details = d.details
      /\ d2.showHidden = d.showHidden /\ d2.only = d.only
      /\ d2.view[w] = NothingShown
  BY <1>1 DEF DirectoryType, NothingShown
<1> HIDE DEF d2
<1>4. d.known \subseteq Item /\ d.view \in [Window -> [Item -> Content]]
  BY <1>1 DEF DirectoryType, Content
<1>5. drawn = [i \in Item |-> IF MatchFilter(d, w, i) /\ i \in d.known THEN d.details[i] ELSE Absent]
  BY <1>3 DEF Redrawn, NamesOf, MatchFilter, Shown, NothingShown
<1>6. drawn \in [Item -> Content]
  BY <1>1, <1>5 DEF DirectoryType, Content
<1> HIDE DEF drawn
<1>7. shown \in DirectoryType
  BY <1>1, <1>6 DEF DirectoryType, Content
<1>8. /\ shown.users = d.users \cup {w}
      /\ shown.view = [d.view EXCEPT ![w] = drawn]
      /\ shown.known = d.known /\ shown.new = d.new /\ shown.up = d.up /\ shown.gone = d.gone
      /\ shown.details = d.details /\ shown.needRescan = d.needRescan
      /\ shown.recheck = d.recheck /\ shown.showHidden = d.showHidden /\ shown.only = d.only
      /\ shown.needsUpdate = d.needsUpdate /\ SameRest(d, shown)
  BY <1>1 DEF DirectoryType, SameRest
<1>9. IndicatorsBut(shown, {w})
  BY <1>1 DEF DirInv, DirectoryType, IndicatorsBut
<1> HIDE DEF shown
<1>10. Listed(shown)
  BY <1>1, <1>8 DEF Listed
<1>11. shown.view[w] = drawn /\ \A x \in Window : x # w => shown.view[x] = d.view[x]
  BY <1>4, <1>8
<1>12. ShownIn(shown, w)
  <2>1. \A i \in Item : i \notin d.known => shown.view[w][i] = Absent
    BY <1>5, <1>11
  <2>2. InView(shown, w) \subseteq d.known
    BY <2>1 DEF InView
  <2>3. ASSUME shown.only[w] = "all"
        PROVE  /\ \A i \in shown.known : Lets(shown, w, i) => shown.view[w][i] # Absent
               /\ \A i \in InView(shown, w) : Lets(shown, w, i)
               /\ \A i \in shown.known : shown.view[w][i] \in {Absent, shown.details[i]}
    <3>1. \A i : MatchFilter(d, w, i) <=> Lets(d, w, i)
      BY <1>8, <2>3, MatchAll
    <3>2. \A i : Lets(shown, w, i) <=> Lets(d, w, i)
      BY <1>8 DEF Lets
    <3>3. \A i \in d.known : shown.view[w][i] = IF Lets(d, w, i) THEN d.details[i] ELSE Absent
      BY <1>4, <1>5, <1>11, <3>1
    <3>4. \A i \in d.known : d.details[i] # Absent
      BY <1>1 DEF Listed
    <3>5. \A i \in InView(shown, w) : shown.view[w][i] # Absent
      BY DEF InView
    <3> QED BY <1>8, <2>2, <3>2, <3>3, <3>4, <3>5
  <2> QED BY <1>8, <2>2, <2>3 DEF ShownIn
<1>13. \A x \in Window : x # w => InView(shown, x) = InView(d, x)
  BY <1>11 DEF InView
<1>14. Displayed(shown)
  <2>1. ASSUME NEW x \in d.users, x # w PROVE ShownIn(shown, x)
    <3>1. x \in Window /\ ShownIn(d, x)
      BY <1>1 DEF Displayed, DirectoryType
    <3> QED BY <1>8, <1>11, <1>13, <2>1, <3>1 DEF ShownIn, Lets
  <2> QED BY <1>1, <1>8, <1>12, <1>13, <2>1 DEF Displayed
<1>15. /\ asked \in DirectoryType /\ Listed(asked) /\ Displayed(asked)
       /\ asked.users = d.users \cup {w} /\ asked.loaded = d.loaded
       /\ IndicatorsBut(asked, {w})
       /\ Right(d, changed) => Right(asked, changed)
  <2>1. CASE d.needsUpdate /\ ~d.scanning
    <3>1. asked = Rescan(shown, next)
      BY <2>1
    <3>2. asked \in DirectoryType /\ IndicatorsBut(asked, {w})
      BY <1>7, <1>9, <3>1, RescanLemma DEF FsOK
    <3> QED BY <1>7, <1>8, <1>9, <1>10, <1>14, <3>1, <3>2, RescanContent
            DEF FsOK, Right, Behind, SameRest
  <2>2. CASE ~(d.needsUpdate /\ ~d.scanning)
    <3> DEFINE q == QueueInteresting(shown, {w})
    <3>1. asked = q
      BY <2>2
    <3>2. q \in DirectoryType /\ SameScan(shown, q)
      BY <1>7, QueueInterestingType, QueueInterestingControl
    <3>3. /\ Listed(q) /\ Displayed(q) /\ SameRest(shown, q) /\ q.users = shown.users
          /\ Copied(shown) => Copied(q)
          /\ NotPutOff(q, {w})
          /\ NotPutOff(shown, d.users) => NotPutOff(q, d.users)
      BY <1>7, <1>10, <1>14, QueueInterestingContent
    <3>4. IndicatorsBut(q, {w})
      BY <1>9, <3>2 DEF SameScan, IndicatorsBut
    <3> HIDE DEF q, asked
    <3>5. ASSUME Fresh(d) PROVE Fresh(q)
      <4>1. Copied(shown)
        BY <1>8, <3>5 DEF Fresh, Copied
      <4>2. d.users \subseteq Window
        BY <1>1 DEF DirectoryType
      <4>3. NotPutOff(shown, d.users)
        BY <1>8, <1>13, <3>5, <4>2 DEF Fresh, NotPutOff
      <4> QED BY <1>8, <3>3, <4>1, <4>3 DEF Fresh, NotPutOff
    <3>6. q.needsUpdate = d.needsUpdate
      BY <1>8, <3>2 DEF SameScan
    <3> QED BY <1>8, <3>1, <3>2, <3>3, <3>5, <3>6, <3>4 DEF SameRest, Right, Behind
  <2> QED BY <2>1, <2>2
<1> HIDE DEF asked
<1>16. /\ Listed(idled) /\ Displayed(idled) /\ SameRest(asked, idled) /\ idled.users = asked.users
       /\ Fresh(asked) /\ dirstat # "gone" => Fresh(idled)
  BY <1>15, SetIdleCallbackContent DEF FsOK
<1>17. idled.needsUpdate = asked.needsUpdate
  BY <1>15, SetIdleCallbackLemma DEF FsOK, SameDebt
<1>18. idled \in DirectoryType
  BY <1>15, SetIdleCallbackLemma DEF FsOK
<1>19. e = IF idled.scanning THEN idled ELSE [idled EXCEPT !.busy[w] = FALSE]
  BY DEF asked, shown, drawn, d2, Attach
<1> HIDE DEF idled, e
<1>20. SameContent(idled, e) /\ SameRest(idled, e) /\ e.needsUpdate = idled.needsUpdate
  BY <1>18, <1>19 DEF DirectoryType, SameContent, SameRest
<1>21. Listed(e) /\ Displayed(e) /\ (Fresh(idled) => Fresh(e))
  BY <1>16, <1>20, SameContentKeeps
<1> QED BY <1>2, <1>15, <1>16, <1>17, <1>20, <1>21
        DEF Sound, SameContent, SameRest, Right, Behind, e

(* Displayed, whatever may be said of the windows W. *)
DisplayedBut(d, W) ==
    \A w \in Window : IF w \in d.users THEN w \in W \/ ShownIn(d, w) ELSE InView(d, w) = {}

(* With the last window an event that is on its way is lost, and the *)
(* Directory has missed it. *)
LEMMA DetachSound ==
    ASSUME NEW d, DirInv(d), Listed(d), NEW W \in SUBSET Window, DisplayedBut(d, W),
           NEW next, FsOK, NEW changed
    PROVE  LET e == Detach(d, W, next)
           IN  /\ Sound(e) /\ e.users = d.users \ W /\ e.loaded = d.loaded
               /\ e.closing = d.closing
               /\ Right(d, changed) => Right(e, changed)
               /\ event /\ d.users \subseteq W => e.missed
<1> DEFINE left == [d EXCEPT !.users = @ \ W,
                             !.view = [w \in Window |-> IF w \in W THEN NothingShown ELSE @[w]],
                             !.busy = [w \in Window |-> IF w \in W THEN FALSE ELSE @[w]]]
           idled == SetIdleCallback(left, next)
           e == Detach(d, W, next)
<1>1. d \in DirectoryType
  BY DEF DirInv
<1>2. DirInv(e) /\ e.users = d.users \ W
  BY <1>1, DetachInv DEF FsOK
<1>3. left \in DirectoryType
  BY <1>1 DEF DirectoryType, NothingShown
<1>4. /\ left.users = d.users \ W
      /\ left.view = [w \in Window |-> IF w \in W THEN NothingShown ELSE d.view[w]]
      /\ left.known = d.known /\ left.new = d.new /\ left.up = d.up /\ left.gone = d.gone
      /\ left.details = d.details /\ left.needRescan = d.needRescan
      /\ left.recheck = d.recheck /\ left.showHidden = d.showHidden /\ left.only = d.only
      /\ left.needsUpdate = d.needsUpdate /\ SameRest(d, left) /\ IndicatorsBut(left, {})
  BY <1>1 DEF DirInv, DirectoryType, SameRest, IndicatorsBut
<1> HIDE DEF left
<1>5. Listed(left)
  BY <1>1, <1>4 DEF Listed
<1>6. ASSUME NEW w \in Window
      PROVE  /\ w \in W => InView(left, w) = {}
             /\ w \notin W => left.view[w] = d.view[w] /\ InView(left, w) = InView(d, w)
  BY <1>4 DEF InView, NothingShown
<1>7. Displayed(left)
  <2>1. ASSUME NEW w \in d.users \ W PROVE ShownIn(left, w)
    <3>1. w \in Window /\ ShownIn(d, w)
      BY <1>1 DEF DisplayedBut, DirectoryType
    <3> QED BY <1>4, <1>6, <2>1, <3>1 DEF ShownIn, Lets
  <2> QED BY <1>4, <1>6, <2>1 DEF Displayed, DisplayedBut
<1>8. ASSUME Fresh(d) PROVE Fresh(left)
  <2>1. d.users \subseteq Window
    BY <1>1 DEF DirectoryType
  <2> QED BY <1>4, <1>6, <1>8, <2>1 DEF Fresh, Copied, NotPutOff
<1>9. /\ Listed(idled) /\ Displayed(idled) /\ SameRest(left, idled) /\ idled.users = left.users
      /\ Fresh(left) /\ dirstat # "gone" => Fresh(idled)
  BY <1>3, <1>5, <1>7, SetIdleCallbackContent DEF FsOK
<1>10. idled \in DirectoryType /\ idled.needsUpdate = left.needsUpdate
  BY <1>3, <1>4, SetIdleCallbackLemma DEF FsOK, SameDebt
<1>11. e = [idled EXCEPT !.missed = @ \/ (event /\ d.users \subseteq W)]
  BY DEF Detach, left
<1> HIDE DEF idled, e
<1>12. /\ SameContent(idled, e) /\ e.loaded = idled.loaded /\ e.error = idled.error
       /\ e.closing = idled.closing /\ e.needsUpdate = idled.needsUpdate
       /\ e.missed = (idled.missed \/ (event /\ d.users \subseteq W))
  BY <1>10, <1>11 DEF DirectoryType, SameContent
<1>13. Listed(e) /\ Displayed(e) /\ (Fresh(idled) => Fresh(e))
  BY <1>9, <1>12, SameContentKeeps
<1> QED BY <1>2, <1>4, <1>8, <1>9, <1>10, <1>12, <1>13
        DEF Sound, SameRest, Right, Behind, e

LEMMA DestroySound ==
    ASSUME NEW d, Sound(d), NEW W \in SUBSET Window, NEW next, FsOK, NEW changed
    PROVE  LET e == Destroy(d, W, next)
           IN  /\ Sound(e) /\ e.users = d.users \ W /\ e.loaded = d.loaded
               /\ e.closing = d.closing
               /\ Right(d, changed) => Right(e, changed)
               /\ event /\ d.users \subseteq W => e.missed
<1> DEFINE x == Detach(d, W, next)
           e == Destroy(d, W, next)
<1>0. DirInv(d) /\ Listed(d) /\ DisplayedBut(d, W)
  BY DEF Sound, Displayed, DisplayedBut
<1>1. /\ Sound(x) /\ x.users = d.users \ W /\ x.loaded = d.loaded
      /\ x.closing = d.closing
      /\ Right(d, changed) => Right(x, changed)
      /\ event /\ d.users \subseteq W => x.missed
  BY <1>0, DetachSound
<1>2. DirInv(e)
  BY DestroyInv DEF Sound, FsOK
<1>3. e = [x EXCEPT !.showHidden = [w \in Window |-> IF w \in W THEN FALSE ELSE @[w]],
                    !.only = [w \in Window |-> IF w \in W THEN "all" ELSE @[w]]]
  BY DEF Destroy
<1> HIDE DEF x, e
<1>4. x \in DirectoryType
  BY <1>1 DEF Sound, DirInv
<1>5. /\ e.users = x.users /\ e.known = x.known /\ e.new = x.new /\ e.up = x.up /\ e.gone = x.gone
      /\ e.details = x.details /\ e.needRescan = x.needRescan /\ e.recheck = x.recheck
      /\ e.view = x.view /\ e.needsUpdate = x.needsUpdate /\ SameRest(x, e)
      /\ e.showHidden = [w \in Window |-> IF w \in W THEN FALSE ELSE x.showHidden[w]]
      /\ e.only = [w \in Window |-> IF w \in W THEN "all" ELSE x.only[w]]
  BY <1>3, <1>4 DEF DirectoryType, SameRest
<1>6. Listed(e)
  BY <1>1, <1>5 DEF Sound, Listed
<1>7. Displayed(e)
  <2>1. \A w \in Window : InView(e, w) = InView(x, w)
    BY <1>5 DEF InView
  <2>2. ASSUME NEW w \in x.users PROVE ShownIn(e, w)
    <3>1. w \in Window /\ ShownIn(x, w) /\ w \notin W
      BY <1>1, <1>4 DEF Sound, Displayed, DirectoryType
    <3>2. e.only[w] = x.only[w] /\ e.showHidden[w] = x.showHidden[w]
      BY <1>5, <3>1
    <3> QED BY <1>5, <2>1, <3>1, <3>2 DEF ShownIn, Lets
  <2> QED BY <1>1, <1>5, <2>1, <2>2 DEF Sound, Displayed
<1>8. Fresh(x) => Fresh(e)
  BY <1>5 DEF Fresh, Copied, NotPutOff, InView
<1> QED BY <1>1, <1>2, <1>5, <1>6, <1>7, <1>8 DEF Sound, SameRest, Right, Behind, e

LEMMA DestroyUsers ==
    ASSUME NEW d, DirInv(d), NEW W \in SUBSET Window, NEW next,
           disk \in [Leaf -> Details \cup {Absent}], event \in BOOLEAN
    PROVE  Destroy(d, W, next).users = d.users \ W
<1> DEFINE x == Detach(d, W, next)
<1>1. DirInv(x) /\ x.users = d.users \ W
  BY DetachInv
<1>2. Destroy(d, W, next) = [x EXCEPT !.showHidden = [w \in Window |-> IF w \in W THEN FALSE ELSE @[w]],
                                    !.only = [w \in Window |-> IF w \in W THEN "all" ELSE @[w]]]
  BY DEF Destroy
<1> HIDE DEF x
<1> QED BY <1>1, <1>2 DEF DirInv, DirectoryType

(* Detaching windows leaves what is owed as it was. *)
LEMMA DestroyDebt ==
    ASSUME NEW d, DirInv(d), NEW W \in SUBSET Window, NEW next,
           disk \in [Leaf -> Details \cup {Absent}], event \in BOOLEAN
    PROVE  LET e == Destroy(d, W, next)
           IN  e.needsUpdate = d.needsUpdate /\ e.timer = d.timer
<1> DEFINE left == [d EXCEPT !.users = @ \ W,
                             !.view = [w \in Window |-> IF w \in W THEN NothingShown ELSE @[w]],
                             !.busy = [w \in Window |-> IF w \in W THEN FALSE ELSE @[w]]]
           idled == SetIdleCallback(left, next)
           x == Detach(d, W, next)
           e == Destroy(d, W, next)
<1>1. d \in DirectoryType
  BY DEF DirInv
<1>2. left \in DirectoryType
  BY <1>1 DEF DirectoryType, NothingShown
<1>3. left.needsUpdate = d.needsUpdate /\ left.timer = d.timer /\ IndicatorsBut(left, {})
  BY <1>1 DEF DirInv, DirectoryType, IndicatorsBut
<1> HIDE DEF left
<1>4. idled \in DirectoryType /\ SameDebt(left, idled)
  BY <1>2, <1>3, SetIdleCallbackLemma
<1>5. x = [idled EXCEPT !.missed = @ \/ (event /\ d.users \subseteq W)]
  BY DEF Detach, left
<1>6. x \in DirectoryType
  BY DetachInv DEF DirInv
<1> HIDE DEF idled, x
<1>7. e = [x EXCEPT !.showHidden = [w \in Window |-> IF w \in W THEN FALSE ELSE @[w]],
                    !.only = [w \in Window |-> IF w \in W THEN "all" ELSE @[w]]]
  BY DEF Destroy, x
<1> HIDE DEF e
<1>8. x.needsUpdate = idled.needsUpdate /\ x.timer = idled.timer
  BY <1>4, <1>5 DEF DirectoryType
<1>9. e.needsUpdate = x.needsUpdate /\ e.timer = x.timer
  BY <1>6, <1>7 DEF DirectoryType
<1> QED BY <1>3, <1>4, <1>8, <1>9 DEF SameDebt, e

--------------------
(* The inductive invariant and the steps of the specification. *)

(* What has not been read yet is owed, and a change of the directory that *)
(* takes it away is one the fscache can tell.  Either an event is on its *)
(* way, or nobody watches and the fscache can tell, or the Directory says *)
(* that it is behind, or it is not. *)
DisplayInv ==
    /\ IInv
    /\ Listed(dir) /\ Displayed(dir)
    /\ dir.loaded \/ (dir.users = {} /\ dir.needsUpdate /\ ~dir.timer /\ ~event)
    /\ dirstat = "gone" => dirty
    /\ event \/ Right(dir, dirty) \/ (dirty /\ dir.users = {})

(* The conditions under which the invariant holds. *)
Default == Reported = {} /\ CloseWhenMissing = TRUE

LEMMA RightPrime ==
    ASSUME UNCHANGED <<disk, dirstat>>, Right(dir', dirty')
    PROVE  Right(dir, dirty)'
BY DEF Right, Behind, Fresh, Copied, NotPutOff, InView, OnDisk

LEMMA InitDisplayInv == Init => DisplayInv
<1> SUFFICES ASSUME Init PROVE DisplayInv
  OBVIOUS
<1>1. dir = NewDirectory
  BY DEF Init
<1>2. Listed(dir)
  BY <1>1 DEF NewDirectory, Listed, NamesUnique
<1>3. Displayed(dir)
  BY <1>1 DEF NewDirectory, Displayed, InView, NothingShown
<1>4. dir.users = {} /\ dir.needsUpdate /\ ~dir.timer
  BY <1>1 DEF NewDirectory
<1> QED BY <1>2, <1>3, <1>4, InitIInv DEF Init, DisplayInv, Right, Behind

(* What the file system does to a directory somebody watches is announced; *)
(* the fscache or, for a file written in place, nobody can tell the rest. *)
LEMMA FileSystemDisplay ==
    ASSUME DisplayInv, FileSystem PROVE DisplayInv'
<1>1. IInv'
  BY FileSystemStep DEF DisplayInv
<1>2. CASE UNCHANGED dir /\ dirty' = TRUE /\ Notified
  BY <1>1, <1>2 DEF DisplayInv, Notified, Right, Behind
<1>3. ASSUME NEW l \in Leaf, WriteInPlace(l) PROVE DisplayInv'
  <2>1. dir' = [dir EXCEPT !.missed = @ \/ (dir.loaded /\ dir.users = {})]
    BY <1>3 DEF WriteInPlace
  <2>2. dir \in DirectoryType
    BY DEF DisplayInv, IInv, DirInv
  <2>3. /\ SameContent(dir, dir') /\ dir'.loaded = dir.loaded /\ dir'.timer = dir.timer
        /\ dir'.needsUpdate = dir.needsUpdate
        /\ dir'.missed = (dir.missed \/ (dir.loaded /\ dir.users = {}))
    BY <2>1, <2>2 DEF DirectoryType, SameContent
  <2>4. Listed(dir') /\ Displayed(dir') /\ dir'.users = dir.users
    BY <2>3, SameContentKeeps DEF DisplayInv, SameContent
  <2>5. (event \/ Right(dir, dirty) \/ (dirty /\ dir.users = {}))'
    BY <1>3, <2>3, <2>4 DEF WriteInPlace, Notified, DisplayInv, Right, Behind
  <2> QED BY <1>1, <1>3, <2>3, <2>4, <2>5 DEF WriteInPlace, Notified, DisplayInv
<1>4. ASSUME NEW l \in Leaf, Create(l) \/ Delete(l) \/ Replace(l)
      PROVE  UNCHANGED dir /\ dirty' = TRUE /\ Notified
  BY <1>4 DEF Create, Delete, Replace
<1>5. ASSUME NEW from, NEW to, ChangeDirectory(from, to)
      PROVE  UNCHANGED dir /\ dirty' = TRUE /\ Notified
  BY <1>5 DEF ChangeDirectory
<1> QED BY <1>2, <1>3, <1>4, <1>5 DEF FileSystem

LEMMA Environment == DisplayInv /\ Default => FsOK /\ Sound(dir)
BY DEF DisplayInv, Default, FsOK, Sound, IInv, FsType

LEMMA MainLoopDisplay ==
    ASSUME DisplayInv, Default, MainLoop PROVE DisplayInv'
<1>1. IInv' /\ UNCHANGED <<disk, dirstat>>
  BY MainLoopStep DEF DisplayInv, MainLoop, MonitorEvent, NotifyTimeout, RescanTimeout,
                      RecheckCallback, CloseRecursive
<1>2. FsOK /\ Sound(dir) /\ dir \in DirectoryType /\ (dirstat = "gone" => dirty)
  BY Environment DEF DisplayInv, Sound, DirInv
<1>3. CASE MonitorEvent
  <2>1. dir' = [dir EXCEPT !.needsUpdate = TRUE, !.timer = TRUE]
    BY <1>3 DEF MonitorEvent, RescanSoon
  <2>2. SameContent(dir, dir') /\ dir'.needsUpdate /\ dir'.loaded = dir.loaded
    BY <1>2, <2>1 DEF DirectoryType, SameContent
  <2> QED BY <1>1, <1>3, <2>2, SameContentKeeps DEF MonitorEvent, DisplayInv, Right, Behind
<1>4. CASE NotifyTimeout
  <2> DEFINE m == MergeNew(dir)
  <2>1. /\ m \in DirectoryType /\ Listed(m) /\ Displayed(m) /\ SameRest(dir, m)
        /\ SameScan(dir, m) /\ (Fresh(dir) => Fresh(m))
    BY <1>2, MergeNewType, MergeNewControl, MergeNewContent DEF DisplayInv
  <2>2. dir' = [m EXCEPT !.notify = FALSE]
    BY <1>4 DEF NotifyTimeout
  <2> HIDE DEF m
  <2>3. SameContent(m, dir') /\ SameRest(m, dir') /\ SameScan(m, dir')
    BY <2>1, <2>2 DEF DirectoryType, SameContent, SameRest, SameScan
  <2>4. Listed(dir') /\ Displayed(dir') /\ (Fresh(m) => Fresh(dir'))
    BY <2>1, <2>3, SameContentKeeps
  <2>5. Right(dir, dirty) => Right(dir', dirty)
    BY <2>1, <2>3, <2>4 DEF Right, Behind, SameRest, SameScan
  <2>6. Right(dir, dirty) => Right(dir, dirty)'
    BY <1>1, <1>4, <2>5, RightPrime DEF NotifyTimeout
  <2> QED BY <1>1, <1>4, <2>1, <2>3, <2>4, <2>6 DEF NotifyTimeout, DisplayInv, SameRest, SameScan
<1>5. ASSUME NEW next \in Leaf, RescanTimeout(next) PROVE DisplayInv'
  <2> DEFINE d == IF ~dir.scanning /\ dir.needsUpdate THEN Rescan(dir, next) ELSE dir
  <2>1. /\ Sound(d) /\ d.users = dir.users /\ d.loaded = dir.loaded
        /\ Right(dir, dirty) => Right(d, dirty)
    BY <1>2, RescanSound
  <2>2. dir' = [d EXCEPT !.timer = d.scanning] /\ dirty' = dirty /\ event' = event /\ dir.timer
    BY <1>5 DEF RescanTimeout
  <2> HIDE DEF d
  <2>3. /\ SameContent(d, dir') /\ SameRest(d, dir') /\ dir'.needsUpdate = d.needsUpdate
    BY <2>1, <2>2 DEF Sound, DirInv, DirectoryType, SameContent, SameRest
  <2>4. Listed(dir') /\ Displayed(dir') /\ (Fresh(d) => Fresh(dir'))
    BY <2>1, <2>3, SameContentKeeps DEF Sound
  <2>5. Right(d, dirty) => Right(dir', dirty')
    BY <2>2, <2>3, <2>4 DEF Right, Behind, SameRest
  <2>6. Right(dir, dirty) => Right(dir, dirty)'
    BY <1>1, <2>1, <2>5, RightPrime
  <2> QED BY <1>1, <2>1, <2>2, <2>3, <2>4, <2>6 DEF DisplayInv, SameRest, SameContent
<1>6. ASSUME NEW next \in Leaf, RecheckCallback(next) PROVE DisplayInv'
  <2> DEFINE d == RecheckOne(dir, next)
  <2>1. /\ dir.idle /\ dirty' = dirty /\ event' = event
        /\ dir' = IF ~d.scanning /\ d.needsUpdate THEN Rescan(d, next) ELSE d
    BY <1>6 DEF RecheckCallback
  <2>2. dir.scanning /\ dir.recheck # {} /\ dir.users # {} /\ IndicatorsBut(dir, {})
    BY <1>2, <2>1 DEF Sound, DirInv, ScanInv
  <2>3. /\ Listed(d) /\ Displayed(d) /\ SameRest(dir, d) /\ d.users = dir.users
        /\ Fresh(dir) /\ dirstat # "gone" => Fresh(d)
    BY <1>2, <2>2, RecheckOneContent DEF Sound, FsOK
  <2>4. d \in DirectoryType /\ SameDebt(dir, d) /\ IndicatorsBut(d, {})
    BY <1>2, <2>1, <2>2, RecheckOneLemma DEF FsOK
  <2> HIDE DEF d
  <2>5. CASE ~d.scanning /\ d.needsUpdate
    <3>1. dir' = Rescan(d, next)
      BY <2>1, <2>5
    <3>2. /\ Listed(dir') /\ Displayed(dir') /\ dir'.users = d.users /\ dir'.loaded = d.loaded
          /\ Right(dir', dirty')
      BY <1>2, <2>1, <2>3, <2>4, <3>1, RescanContent DEF FsOK, Right, Behind
    <3> QED BY <1>1, <2>1, <2>2, <2>3, <3>2, RightPrime DEF DisplayInv, SameRest
  <2>6. CASE ~(~d.scanning /\ d.needsUpdate)
    <3>1. dir' = d
      BY <2>1, <2>6
    <3>2. Right(dir, dirty) => Right(dir', dirty')
      BY <2>1, <2>3, <2>4, <3>1 DEF Right, Behind, SameRest, SameDebt
    <3>3. Right(dir, dirty) => Right(dir, dirty)'
      BY <1>1, <3>2, RightPrime
    <3> QED BY <1>1, <2>1, <2>2, <2>3, <3>1, <3>3 DEF DisplayInv, SameRest
  <2> QED BY <2>5, <2>6
<1>7. ASSUME NEW next \in Leaf, CloseRecursive(next) PROVE DisplayInv'
  <2> DEFINE d == Destroy(dir, dir.users, next)
  <2>1. dir.users \in SUBSET Window
    BY <1>2 DEF DirectoryType
  <2>2. /\ Sound(d) /\ d.users = {} /\ d.loaded = dir.loaded
        /\ Right(dir, FALSE) => Right(d, FALSE)
        /\ event => d.missed
    <3>1. Sound(d)
      BY <1>2, <2>1, DestroySound
    <3>2. d.users = dir.users \ dir.users
      BY <1>2, <2>1, DestroySound
    <3>3. d.loaded = dir.loaded
      BY <1>2, <2>1, DestroySound
    <3>4. Right(dir, FALSE) => Right(d, FALSE)
      BY <1>2, <2>1, DestroySound
    <3>5. event /\ dir.users \subseteq dir.users => d.missed
      BY <1>2, <2>1, DestroySound
    <3> QED BY <3>1, <3>2, <3>3, <3>4, <3>5
  <2>3. dir' = [d EXCEPT !.closing = FALSE] /\ event' = FALSE /\ dirty' = dirty
    BY <1>7 DEF CloseRecursive
  <2>4. d.needsUpdate = dir.needsUpdate /\ d.timer = dir.timer
    BY <1>2, <2>1, DestroyDebt DEF FsOK, Sound
  <2> HIDE DEF d
  <2>5. /\ SameContent(d, dir') /\ dir'.loaded = d.loaded /\ dir'.missed = d.missed
        /\ dir'.error = d.error /\ dir'.needsUpdate = d.needsUpdate /\ dir'.timer = d.timer
    BY <2>2, <2>3 DEF Sound, DirInv, DirectoryType, SameContent
  <2>6. Listed(dir') /\ Displayed(dir') /\ (Fresh(d) => Fresh(dir')) /\ dir'.users = {}
    BY <2>2, <2>5, SameContentKeeps DEF Sound, SameContent
  <2>7. event \/ Right(dir, FALSE) => Right(dir', dirty')
    BY <2>2, <2>3, <2>5, <2>6 DEF Right, Behind
  <2>8. (dirty /\ dir.users = {})' \/ Right(dir, dirty)'
    BY <1>1, <2>3, <2>6, <2>7, RightPrime DEF DisplayInv, Right
  <2> QED BY <1>1, <2>2, <2>3, <2>4, <2>5, <2>6, <2>8 DEF DisplayInv
<1> QED BY <1>3, <1>4, <1>5, <1>6, <1>7 DEF MainLoop

(* A window's filter is all that changes. *)
SameBut(d, e, w) ==
    /\ e.users = d.users /\ e.known = d.known /\ e.new = d.new /\ e.up = d.up /\ e.gone = d.gone
    /\ e.details = d.details /\ e.needRescan = d.needRescan /\ e.recheck = d.recheck
    /\ e.view = d.view /\ e.needsUpdate = d.needsUpdate /\ SameRest(d, e)
    /\ \A x \in Window : x # w => e.showHidden[x] = d.showHidden[x] /\ e.only[x] = d.only[x]

LEMMA SameButKeeps ==
    ASSUME NEW d, NEW e, NEW w, SameBut(d, e, w), Listed(d), Displayed(d), d.users \subseteq Window
    PROVE  /\ Listed(e) /\ DisplayedBut(e, {w}) /\ e.users = d.users /\ e.loaded = d.loaded
           /\ Right(d, dirty) => Right(e, dirty)
<1>1. Listed(e)
  BY DEF SameBut, Listed
<1>2. \A x : InView(e, x) = InView(d, x)
  BY DEF SameBut, InView
<1>3. ASSUME NEW x \in d.users, x # w PROVE ShownIn(e, x)
  <2>1. x \in Window /\ ShownIn(d, x)
    BY DEF Displayed
  <2> QED BY <1>2, <1>3, <2>1 DEF SameBut, ShownIn, Lets
<1>4. DisplayedBut(e, {w})
  BY <1>2, <1>3 DEF SameBut, Displayed, DisplayedBut
<1>5. Fresh(d) => Fresh(e)
  BY <1>2 DEF SameBut, Fresh, Copied, NotPutOff
<1> QED BY <1>1, <1>4, <1>5 DEF SameBut, SameRest, Right, Behind

LEMMA UserDisplay ==
    ASSUME DisplayInv, Default, User PROVE DisplayInv'
<1>1. IInv'
  BY UserStep DEF DisplayInv
<1>2. /\ FsOK /\ Sound(dir) /\ dir \in DirectoryType /\ (dirstat = "gone" => dirty)
      /\ ~dir.loaded => dir.needsUpdate
  BY Environment DEF DisplayInv, Sound, DirInv
<1>3. ASSUME NEW w \in Window, NEW next \in Leaf, OpenDir(w, next) PROVE DisplayInv'
  <2> DEFINE d == Lookup(dir, next)
             e == Attach(d, w, next)
  <2>1. /\ w \notin dir.users /\ dirstat # "gone" /\ dir' = e /\ dirty' = FALSE
        /\ UNCHANGED <<disk, dirstat, event>>
    BY <1>3 DEF OpenDir
  <2>2. /\ Sound(d) /\ d.users = dir.users /\ d.loaded
        /\ dirty \/ Right(dir, FALSE) => Right(d, FALSE)
    BY <1>2, <2>1, LookupSound
  <2> HIDE DEF d
  <2>3. Sound(e) /\ e.loaded /\ (Right(d, FALSE) => Right(e, FALSE))
    BY <1>2, <2>1, <2>2, AttachSound
  <2> HIDE DEF e
  <2>4. event \/ Right(d, FALSE)
    BY <2>2 DEF DisplayInv, Right
  <2>5. event \/ Right(dir', dirty')
    BY <2>1, <2>3, <2>4
  <2>6. event \/ Right(dir, dirty)'
    BY <2>1, <2>5, RightPrime
  <2> QED BY <1>1, <2>1, <2>3, <2>6 DEF DisplayInv, Sound
<1>4. ASSUME NEW w \in Window, NEW next \in Leaf, dir' = Destroy(dir, {w}, next), w \in dir.users,
             event' = (event /\ dir.users # {w}), UNCHANGED <<disk, dirstat, dirty>>
      PROVE  DisplayInv'
  <2> DEFINE e == Destroy(dir, {w}, next)
  <2>1. /\ Sound(e) /\ e.users = dir.users \ {w} /\ e.loaded = dir.loaded
        /\ Right(dir, dirty) => Right(e, dirty)
        /\ event /\ dir.users \subseteq {w} => e.missed
    <3>1. PICK W \in SUBSET Window : W = {w}
      OBVIOUS
    <3>2. PICK y : y = Destroy(dir, W, next)
      OBVIOUS
    <3>3. /\ Sound(y) /\ y.users = dir.users \ W /\ y.loaded = dir.loaded
          /\ Right(dir, dirty) => Right(y, dirty)
          /\ event /\ dir.users \subseteq W => y.missed
      BY <1>2, <3>2, DestroySound
    <3> QED BY <3>1, <3>2, <3>3
  <2>2. e = dir'
    BY <1>4
  <2> HIDE DEF e
  <2>3. event' \/ Right(dir', dirty') \/ (dirty' /\ dir'.users = {})
    BY <1>4, <2>1, <2>2 DEF DisplayInv, Right, Behind
  <2>4. (event \/ Right(dir, dirty) \/ (dirty /\ dir.users = {}))'
    BY <1>4, <2>3, RightPrime
  <2> QED BY <1>1, <1>4, <2>1, <2>2, <2>4 DEF DisplayInv, Sound
<1>5. ASSUME NEW w \in Window, NEW next \in Leaf, CloseWindow(w, next) PROVE DisplayInv'
  BY <1>4, <1>5 DEF CloseWindow
<1>6. ASSUME NEW w \in dir.users, NEW next \in Leaf, NEW d, dir' = Attach(Detach(d, {w}, next), w, next),
             DirInv(d), Listed(d), DisplayedBut(d, {w}), d.users = dir.users, d.loaded = dir.loaded,
             Right(dir, dirty) => Right(d, dirty),
             event' = (event /\ dir.users # {w}), UNCHANGED <<disk, dirstat, dirty>>
      PROVE  DisplayInv'
  <2> DEFINE x == Detach(d, {w}, next)
             e == Attach(x, w, next)
  <2>1. w \in Window
    BY <1>2 DEF DirectoryType
  <2>2. /\ Sound(x) /\ x.users = dir.users \ {w} /\ x.loaded = dir.loaded
        /\ Right(d, dirty) => Right(x, dirty)
        /\ event /\ dir.users \subseteq {w} => x.missed
    <3>1. PICK W \in SUBSET Window : W = {w}
      BY <2>1
    <3>2. PICK y : y = Detach(d, W, next)
      OBVIOUS
    <3>3. DisplayedBut(d, W)
      BY <1>6, <3>1
    <3>4. /\ Sound(y) /\ y.users = d.users \ W /\ y.loaded = d.loaded
          /\ Right(d, dirty) => Right(y, dirty)
          /\ event /\ d.users \subseteq W => y.missed
      BY <1>2, <1>6, <3>2, <3>3, DetachSound
    <3> QED BY <1>6, <3>1, <3>2, <3>4
  <2> HIDE DEF x
  <2>3. Sound(e) /\ e.loaded = dir.loaded /\ (Right(x, dirty) => Right(e, dirty))
    BY <1>2, <2>1, <2>2, AttachSound
  <2>4. e = dir'
    BY <1>6 DEF x
  <2> HIDE DEF e
  <2>5. event' \/ Right(dir', dirty')
    BY <1>6, <2>2, <2>3, <2>4 DEF DisplayInv, Right, Behind
  <2>6. event' \/ Right(dir, dirty)'
    BY <1>6, <2>5, RightPrime
  <2>7. dir.loaded
    BY DEF DisplayInv
  <2> QED BY <1>1, <1>6, <2>3, <2>4, <2>6, <2>7 DEF DisplayInv, Sound
<1>7. ASSUME NEW w \in Window, NEW next \in Leaf, SetHidden(w, next) PROVE DisplayInv'
  <2> DEFINE d == [dir EXCEPT !.showHidden[w] = ~@]
  <2>1. /\ w \in dir.users /\ dir' = Attach(Detach(d, {w}, next), w, next)
        /\ event' = (event /\ dir.users # {w}) /\ UNCHANGED <<disk, dirstat, dirty>>
    BY <1>7 DEF SetHidden
  <2>2. DirInv(d)
    BY <1>2 DEF Sound, DirInv, DirectoryType, ScanInv, IndicatorsBut, NotifyInv, Pending, Owed
  <2>3. SameBut(dir, d, w)
    BY <1>2 DEF DirectoryType, SameBut, SameRest
  <2> HIDE DEF d
  <2>4. dir.users \subseteq Window
    BY <1>2 DEF DirectoryType
  <2>5. /\ Listed(d) /\ DisplayedBut(d, {w}) /\ d.users = dir.users /\ d.loaded = dir.loaded
        /\ Right(dir, dirty) => Right(d, dirty)
    BY <1>2, <2>3, <2>4, SameButKeeps DEF Sound
  <2> QED BY <1>6, <2>1, <2>2, <2>5
<1>8. ASSUME NEW w \in Window, NEW next \in Leaf, SetTypes(w, next) PROVE DisplayInv'
  <2>1. PICK only \in (TypeFilters \cup {"all"}) \ {dir.only[w]} :
             dir' = Attach(Detach([dir EXCEPT !.only[w] = only], {w}, next), w, next)
    BY <1>8 DEF SetTypes
  <2> DEFINE d == [dir EXCEPT !.only[w] = only]
  <2>2. /\ w \in dir.users /\ dir' = Attach(Detach(d, {w}, next), w, next)
        /\ event' = (event /\ dir.users # {w}) /\ UNCHANGED <<disk, dirstat, dirty>>
    BY <1>8, <2>1 DEF SetTypes
  <2>3. DirInv(d)
    BY <1>2 DEF Sound, DirInv, DirectoryType, ScanInv, IndicatorsBut, NotifyInv, Pending, Owed
  <2>4. SameBut(dir, d, w)
    BY <1>2 DEF DirectoryType, SameBut, SameRest
  <2> HIDE DEF d
  <2>5. dir.users \subseteq Window
    BY <1>2 DEF DirectoryType
  <2>6. /\ Listed(d) /\ DisplayedBut(d, {w}) /\ d.users = dir.users /\ d.loaded = dir.loaded
        /\ Right(dir, dirty) => Right(d, dirty)
    BY <1>2, <2>4, <2>5, SameButKeeps DEF Sound
  <2> QED BY <1>6, <2>2, <2>3, <2>6
<1>9. ASSUME NEW w \in Window, NEW next \in Leaf, NEW warning \in BOOLEAN,
             UpdateDir(w, warning, next)
      PROVE  DisplayInv'
  <2>1. w \in dir.users /\ UNCHANGED <<disk, dirstat>>
    BY <1>9 DEF UpdateDir
  <2>2. CASE dirstat = "gone" /\ ~warning
    <3> DEFINE e == Destroy(dir, {w}, next)
    <3>1. dir' = e /\ event' = (event /\ dir'.users # {}) /\ dirty' = dirty
      BY <1>9, <2>2 DEF UpdateDir
    <3>2. e.users = dir.users \ {w}
      BY <1>2, DestroySound
    <3>3. event' = (event /\ dir.users # {w})
      BY <2>1, <3>1, <3>2
    <3> QED BY <1>4, <2>1, <3>1, <3>3
  <2>3. CASE dirstat = "gone" /\ warning
    <3>1. dir' = dir /\ dirty' = dirty /\ event' = (event /\ dir'.users # {})
      BY <1>9, <2>3 DEF UpdateDir
    <3>2. event' = event
      BY <1>2, <2>1, <3>1 DEF FsOK
    <3>3. Right(dir, dirty) => Right(dir, dirty)'
      BY <2>1, <3>1, RightPrime
    <3> QED BY <1>1, <2>1, <3>1, <3>2, <3>3 DEF DisplayInv
  <2>4. CASE dirstat # "gone"
    <3> DEFINE d == Lookup(dir, next)
               e == Update(d, next)
    <3>1. dir' = e /\ dirty' = FALSE /\ event' = event
      BY <1>9, <2>4 DEF UpdateDir
    <3>2. Sound(d) /\ d.loaded
      BY <1>2, <2>4, LookupSound
    <3> HIDE DEF d
    <3>3. Sound(e) /\ e.loaded /\ Right(e, FALSE)
      BY <1>2, <2>4, <3>2, UpdateSound
    <3> HIDE DEF e
    <3>4. Right(dir, dirty)'
      BY <2>1, <3>1, <3>3, RightPrime
    <3> QED BY <1>1, <2>1, <2>4, <3>1, <3>3, <3>4 DEF DisplayInv, Sound
  <2> QED BY <2>2, <2>3, <2>4
<1>10. ASSUME NEW next \in Leaf, RefreshDirs(next) PROVE DisplayInv'
  <2> DEFINE e == Update(dir, next)
  <2>1. /\ dir.loaded /\ dirstat # "gone" /\ dir' = e /\ dirty' = FALSE
        /\ UNCHANGED <<disk, dirstat, event>>
    BY <1>10 DEF RefreshDirs
  <2>2. Sound(e) /\ e.loaded = dir.loaded /\ Right(e, FALSE)
    BY <1>2, <2>1, UpdateSound
  <2> HIDE DEF e
  <2>3. Right(dir, dirty)'
    BY <2>1, <2>2, RightPrime
  <2> QED BY <1>1, <2>1, <2>2, <2>3 DEF DisplayInv, Sound
<1> QED BY <1>3, <1>5, <1>7, <1>8, <1>9, <1>10 DEF User, Default

(* The invariant holds in every reachable state. *)
THEOREM DisplayInductive ==
    ASSUME Default PROVE Spec => []DisplayInv
<1>1. DisplayInv /\ UNCHANGED vars => DisplayInv'
  BY DEF DisplayInv, IInv, FsType, vars, Right, Behind, Fresh, Copied, NotPutOff, InView, OnDisk
<1>2. DisplayInv /\ [Next]_vars => DisplayInv'
  BY <1>1, FileSystemDisplay, MainLoopDisplay, UserDisplay DEF Next
<1> QED BY InitDisplayInv, <1>2, PTL DEF Spec

(* dir.h, known_items: "What our users know about".  Every known item that *)
(* passes the filter is displayed, in every window without a type filter. *)
THEOREM KnownAlwaysShown ==
    ASSUME Default PROVE Spec => []KnownIsShown
<1>1. DisplayInv => KnownIsShown
  <2> SUFFICES ASSUME DisplayInv, NEW w \in dir.users, dir.only[w] = "all",
                      NEW i \in dir.known, MatchFilter(dir, w, i)
               PROVE  i \in InView(dir, w)
    BY DEF KnownIsShown
  <2>1. w \in Window /\ i \in Item
    BY DEF DisplayInv, IInv, DirInv, DirectoryType
  <2> QED BY <2>1, MatchAll DEF DisplayInv, Displayed, ShownIn, InView
<1> QED BY <1>1, DisplayInductive, PTL

(* With nothing left to do the Directory is a copy of the disk: no rescan, *)
(* no name and no item waits, and no event will say that anything changed. *)
LEMMA SettledIsCopied ==
    ASSUME DisplayInv, Settled
    PROVE  /\ dir.users \subseteq Window
           /\ NamesOf(dir.known) = OnDisk
           /\ dir.up = {} /\ dir.gone = {}
           /\ \A w \in dir.users : \A i \in dir.known \cap InView(dir, w) :
                 dir.details[i] = disk[NameOf(i)]
<1>1. /\ dir.users # {} /\ dirstat = "ok" /\ dir.error = "none" /\ ~dir.missed
      /\ ~dir.scanning /\ ~dir.timer /\ ~dir.notify /\ ~dir.closing /\ ~event
  BY DEF Settled, Quiescent
<1>2. DirInv(dir) /\ dir \in DirectoryType
  BY DEF DisplayInv, IInv, DirInv
<1>3. ~dir.needsUpdate /\ dir.recheck = {} /\ dir.new = {} /\ dir.up = {} /\ dir.gone = {}
  BY <1>1, <1>2 DEF DirInv, Owed, ScanInv, NotifyInv, Pending
<1>4. Fresh(dir)
  BY <1>1, <1>3 DEF DisplayInv, Right, Behind
<1>5. ASSUME NEW w \in dir.users, NEW i \in dir.known \cap InView(dir, w)
      PROVE  dir.details[i] = disk[NameOf(i)]
  <2>1. i \notin dir.needRescan
    BY <1>4, <1>5 DEF Fresh, NotPutOff
  <2> QED BY <1>3, <1>4, <1>5, <2>1 DEF Fresh, Copied
<1>6. dir.users \subseteq Window
  BY <1>2 DEF DirectoryType
<1> QED BY <1>3, <1>4, <1>5, <1>6 DEF Fresh, Copied

(* dir.c, filer.c: once the main loop has nothing left to do and no change *)
(* has gone unnoticed, every window without a type filter displays the *)
(* files that are on the disk, as they are. *)
THEOREM SettledAlwaysFresh ==
    ASSUME Default PROVE Spec => []SettledDisplay
<1>1. DisplayInv => SettledDisplay
  <2> SUFFICES ASSUME DisplayInv, Settled, NEW w \in dir.users, dir.only[w] = "all"
               PROVE  FreshIn(w)
    BY DEF SettledDisplay
  <2>1. /\ w \in Window /\ NamesOf(dir.known) = OnDisk /\ dir.up = {} /\ dir.gone = {}
        /\ \A i \in dir.known \cap InView(dir, w) : dir.details[i] = disk[NameOf(i)]
    BY SettledIsCopied
  <2>2. ShownIn(dir, w)
    BY <2>1 DEF DisplayInv, Displayed
  <2>3. InView(dir, w) \subseteq dir.known
    BY <2>1, <2>2 DEF ShownIn
  <2>4. \A i \in dir.known : Lets(dir, w, i) <=> i \in InView(dir, w)
    <3>1. dir.known \subseteq Item
      BY DEF DisplayInv, IInv, DirInv, DirectoryType
    <3> QED BY <2>2, <3>1 DEF ShownIn, InView
  <2>5. ASSUME NEW l, NEW v PROVE Shown(dir, w, l, v) <=> (l \notin Hidden \/ dir.showHidden[w])
    BY DEF Shown
  <2>6. \A i \in InView(dir, w) : dir.view[w][i] = disk[NameOf(i)]
    <3> SUFFICES ASSUME NEW i \in InView(dir, w) PROVE dir.view[w][i] = disk[NameOf(i)]
      OBVIOUS
    <3>1. dir.view[w][i] # Absent /\ i \in dir.known
      BY <2>3 DEF InView
    <3>2. dir.view[w][i] = dir.details[i]
      BY <2>1, <2>2, <3>1 DEF ShownIn
    <3> QED BY <2>1, <3>1, <3>2
  <2>7. NamesOf(InView(dir, w)) = {l \in OnDisk : l \notin Hidden \/ dir.showHidden[w]}
    BY <2>1, <2>3, <2>4 DEF NamesOf, Lets
  <2>8. {l \in OnDisk : l \notin Hidden \/ dir.showHidden[w]}
          = {l \in OnDisk : Shown(dir, w, l, disk[l])}
    BY <2>5
  <2> QED BY <2>6, <2>7, <2>8 DEF FreshIn
<1> QED BY <1>1, DisplayInductive, PTL

--------------------
(* Files that are reported singly.  What follows holds as well when action *)
(* children, menus and SOAP calls report files at any moment, so that items*)
(* wait in new_items and a name may be known, new and gone at once. *)

(* What a window displays is alive or about to be taken away, and in a *)
(* window without a type filter drawn as it is unless an update waits. *)
Seen(d, w) ==
    /\ \A i \in InView(d, w) : d.details[i] # Absent \/ i \in d.gone
    /\ d.only[w] = "all" => \A i \in InView(d, w) :
          /\ Lets(d, w, i)
          /\ d.view[w][i] = d.details[i] \/ i \in d.up \/ i \notin d.known

SeenBut(d, W) ==
    \A w \in Window : IF w \in d.users THEN w \in W \/ Seen(d, w) ELSE InView(d, w) = {}

Held(d) == SeenBut(d, {})

Waiting(d) == CloseWhenMissing => d.up \subseteq d.known \cup d.new \cup d.gone

HasNames(d) == NamesOf(d.known) \cup NamesOf(d.new) = OnDisk

FsTyped ==
    /\ disk \in [Leaf -> Details \cup {Absent}]
    /\ dirstat \in {"ok", "gone", "noread"}
    /\ event \in BOOLEAN

(* As Right, of the names alone. *)
NamesTrue(d, changed) ==
    Behind(d) \/ (changed /\ d.closing) \/ (HasNames(d) /\ dirstat # "gone")

(* e has the items of d, whatever of them waits for a recheck ... *)
SameItems(d, e) ==
    /\ e.users = d.users /\ e.known = d.known /\ e.new = d.new /\ e.up = d.up /\ e.gone = d.gone
    /\ e.details = d.details /\ e.view = d.view
    /\ e.showHidden = d.showHidden /\ e.only = d.only

(* ... or is as good for the windows as d is. *)
Keeps(d, e) ==
    /\ e.users = d.users /\ SameRest(d, e)
    /\ Held(d) => Held(e)
    /\ Waiting(d) => Waiting(e)
    /\ dirstat # "gone" /\ HasNames(d) => HasNames(e)

LEMMA SameItemsKeep ==
    ASSUME NEW d, NEW e, SameItems(d, e)
    PROVE  /\ e.users = d.users
           /\ Held(d) => Held(e)
           /\ Waiting(d) => Waiting(e)
           /\ HasNames(d) => HasNames(e)
<1>1. \A w : InView(e, w) = InView(d, w)
  BY DEF SameItems, InView
<1>2. Held(d) => Held(e)
  BY <1>1 DEF SameItems, Held, SeenBut, Seen, Lets
<1> QED BY <1>2 DEF SameItems, Waiting, HasNames

LEMMA SameContentSameItems ==
    ASSUME NEW d, NEW e, SameContent(d, e) PROVE SameItems(d, e)
BY DEF SameContent, SameItems

LEMMA KeepsTransitive ==
    ASSUME NEW d, NEW e, NEW f, Keeps(d, e), Keeps(e, f) PROVE Keeps(d, f)
BY DEF Keeps, SameRest

LEMMA SameKeeps ==
    ASSUME NEW d, NEW e, SameItems(d, e), SameRest(d, e) PROVE Keeps(d, e)
BY SameItemsKeep DEF Keeps

LEMMA LeastExists ==
    ASSUME NEW F, F \subseteq Nat, F # {} PROVE \E n \in F : \A m \in F : n <= m
<1>1. PICK n \in F : \A m \in F : ~(<<m, n>> \in OpToRel(<, Nat))
  BY NatLessThanWellFounded, WFMin
<1>2. \A m \in F : ~(m < n)
  BY <1>1 DEF OpToRel
<1>3. n \in F
  BY <1>1
<1> QED BY <1>2, <1>3

(* The hash table keeps one item for every name that is inserted. *)
LEMMA LatestNames ==
    ASSUME NEW S \in SUBSET Item PROVE NamesOf(Latest(S)) = NamesOf(S) /\ Latest(S) \subseteq S
<1>1. Latest(S) \subseteq S
  BY DEF Latest
<1>2. ASSUME NEW i \in S PROVE \E j \in Latest(S) : NameOf(j) = NameOf(i)
  <2> DEFINE above(j) == MaxItems - j[2]
             B == {above(j) : j \in {k \in S : NameOf(k) = NameOf(i)}}
  <2>1. \A j \in Item : j[2] \in 1..MaxItems
    BY DEF Item
  <2>2. \A j \in S : above(j) \in Nat
    BY <2>1, ConstantsAssumption
  <2>3. B \subseteq Nat /\ above(i) \in B
    BY <2>2
  <2>4. PICK n \in B : \A m \in B : n <= m
    <3> HIDE DEF B
    <3> QED BY <2>3, LeastExists
  <2>6. PICK j \in S : NameOf(j) = NameOf(i) /\ above(j) = n
    BY <2>4
  <2>7. \A k \in S : NameOf(k) = NameOf(j) => k[2] <= j[2]
    <3> SUFFICES ASSUME NEW k \in S, NameOf(k) = NameOf(j) PROVE k[2] <= j[2]
      OBVIOUS
    <3>1. above(j) <= above(k)
      BY <2>4, <2>6
    <3>2. k[2] \in Nat /\ j[2] \in Nat
      BY <2>1
    <3> QED BY <3>1, <3>2, ConstantsAssumption
  <2>8. j \in Latest(S)
    BY <2>7 DEF Latest
  <2> QED BY <2>6, <2>8
<1> QED BY <1>1, <1>2 DEF NamesOf

LEMMA MergeNewKeeps ==
    ASSUME NEW d \in DirectoryType
    PROVE  LET e == MergeNew(d) IN Keeps(d, e) /\ e.new = {} /\ e.up = {} /\ e.gone = {}
<1> DEFINE e == MergeNew(d)
<1>1. /\ e.known = {i \in d.known : NameOf(i) \notin NamesOf(d.new)} \cup Latest(d.new)
      /\ e.new = {} /\ e.up = {} /\ e.gone = {}
      /\ e.view = Tell(d, d.users, d.new, d.up, d.gone)
      /\ e.details = Freed(d.details, d.gone)
      /\ e.users = d.users
      /\ e.showHidden = d.showHidden /\ e.only = d.only /\ SameRest(d, e)
  BY DEF MergeNew, DirectoryType, SameRest
<1> HIDE DEF e
<1>2. /\ d.new \subseteq Item /\ d.users \subseteq Window
      /\ Latest(d.new) \subseteq d.new /\ NamesOf(Latest(d.new)) = NamesOf(d.new)
  BY LatestNames DEF DirectoryType
<1>3. ASSUME NEW w \in d.users, NEW i \in Item
      PROVE  e.view[w][i] =
               IF NameOf(i) \in NamesOf(d.gone) THEN Absent
               ELSE IF MatchFilter(d, w, i) /\ (i \in d.new \/ (i \in d.up /\ d.view[w][i] # Absent))
                    THEN d.details[i] ELSE d.view[w][i]
  BY <1>1, <1>2, TellValue
<1>4. ASSUME NEW w \in Window, w \notin d.users
      PROVE  InView(e, w) = InView(d, w)
  BY <1>1, <1>4, TellValue DEF InView
<1>5. ASSUME NEW w \in d.users, Seen(d, w) PROVE Seen(e, w)
  <2>1. ASSUME NEW i \in InView(e, w)
        PROVE  /\ e.details[i] # Absent /\ e.details[i] = d.details[i]
               /\ d.only[w] = "all" => /\ Lets(d, w, i)
                                       /\ e.view[w][i] = e.details[i] \/ i \notin e.known
    <3>1. i \in Item /\ e.view[w][i] # Absent
      BY DEF InView
    <3>2. NameOf(i) \notin NamesOf(d.gone) /\ i \notin d.gone
      BY <1>3, <3>1, NamesOfMember
    <3>3. e.details[i] = d.details[i]
      BY <1>1, <3>1, <3>2 DEF Freed
    <3>4. CASE MatchFilter(d, w, i) /\ (i \in d.new \/ (i \in d.up /\ d.view[w][i] # Absent))
      <4>1. e.view[w][i] = d.details[i]
        BY <1>3, <3>1, <3>2, <3>4
      <4> QED BY <3>1, <3>3, <3>4, <4>1, MatchAll
    <3>5. CASE ~(MatchFilter(d, w, i) /\ (i \in d.new \/ (i \in d.up /\ d.view[w][i] # Absent)))
      <4>1. e.view[w][i] = d.view[w][i] /\ i \in InView(d, w)
        BY <1>3, <3>1, <3>2, <3>5 DEF InView
      <4>2. d.details[i] # Absent
        BY <1>5, <3>2, <4>1 DEF Seen
      <4>3. ASSUME d.only[w] = "all"
            PROVE  /\ Lets(d, w, i)
                   /\ e.view[w][i] = e.details[i] \/ i \notin e.known
        <5>1. Lets(d, w, i) /\ (d.view[w][i] = d.details[i] \/ i \in d.up \/ i \notin d.known)
          BY <1>5, <4>1, <4>3 DEF Seen
        <5>2. MatchFilter(d, w, i)
          BY <4>3, <5>1, MatchAll
        <5>3. i \notin d.new /\ i \notin d.up
          BY <3>1, <3>5, <4>1, <5>2
        <5> QED BY <1>1, <1>2, <3>3, <4>1, <5>1, <5>3
      <4> QED BY <3>3, <4>2, <4>3
    <3> QED BY <3>4, <3>5
  <2> QED BY <1>1, <2>1 DEF Seen, Lets
<1>6. Held(d) => Held(e)
  BY <1>1, <1>4, <1>5 DEF Held, SeenBut
<1>7. HasNames(d) => HasNames(e)
  <2>1. NamesOf(e.known) \cup NamesOf(e.new) = NamesOf(d.known) \cup NamesOf(d.new)
    <3>1. PICK K : K = {i \in d.known : NameOf(i) \notin NamesOf(d.new)}
      OBVIOUS
    <3>2. e.known = K \cup Latest(d.new) /\ NamesOf(e.new) = {}
      BY <1>1, <3>1 DEF NamesOf
    <3>3. NamesOf(K \cup Latest(d.new)) = NamesOf(K) \cup NamesOf(Latest(d.new))
      BY DEF NamesOf
    <3>4. NamesOf(K) = NamesOf(d.known) \ NamesOf(d.new)
      BY <3>1 DEF NamesOf
    <3> QED BY <1>2, <3>2, <3>3, <3>4
  <2> QED BY <2>1 DEF HasNames
<1>8. Waiting(e)
  BY <1>1 DEF Waiting
<1> QED BY <1>1, <1>6, <1>7, <1>8 DEF Keeps, e

(* Items that go are taken out of the windows before they are freed. *)
LEMMA RemoveMissingHeld ==
    ASSUME NEW d \in DirectoryType, NEW names
    PROVE  LET e == RemoveMissing(d, names)
           IN  /\ Held(d) => Held(e)
               /\ e.known = {i \in d.known : NameOf(i) \in names}
               /\ e.new = d.new /\ e.up = d.up /\ e.gone = d.gone
               /\ e.users = d.users /\ SameRest(d, e)
<1> DEFINE e == RemoveMissing(d, names)
           deleted == {i \in d.known : NameOf(i) \notin names}
<1>1. /\ e.known = d.known \ deleted
      /\ e.new = d.new /\ e.up = d.up /\ e.gone = d.gone
      /\ e.view = Tell(d, d.users, {}, {}, deleted)
      /\ e.details = Freed(d.details, deleted)
      /\ e.users = d.users /\ e.showHidden = d.showHidden /\ e.only = d.only
      /\ SameRest(d, e)
  BY DEF RemoveMissing, DirectoryType, SameRest
<1> HIDE DEF e
<1>2. ASSUME NEW w \in d.users, NEW i \in Item
      PROVE  e.view[w][i] = IF NameOf(i) \in NamesOf(deleted) THEN Absent ELSE d.view[w][i]
  <2>1. w \in Window
    BY DEF DirectoryType
  <2> QED BY <1>1, <2>1, TellValue
<1>3. ASSUME NEW w \in Window, w \notin d.users
      PROVE  InView(e, w) = InView(d, w)
  BY <1>1, <1>3, TellValue DEF InView
<1>4. e.known = {i \in d.known : NameOf(i) \in names}
  BY <1>1
<1> HIDE DEF deleted
<1>5. ASSUME NEW w \in d.users, Seen(d, w) PROVE Seen(e, w)
  <2>1. ASSUME NEW i \in InView(e, w)
        PROVE  /\ i \in InView(d, w) /\ e.view[w][i] = d.view[w][i]
               /\ e.details[i] = d.details[i]
    <3>1. i \in Item /\ e.view[w][i] # Absent
      BY DEF InView
    <3>2. i \notin deleted /\ e.view[w][i] = d.view[w][i] /\ i \in InView(d, w)
      BY <1>2, <3>1, NamesOfMember DEF InView
    <3> QED BY <1>1, <3>1, <3>2 DEF Freed
  <2> QED BY <1>1, <1>5, <2>1 DEF Seen, Lets
<1>6. Held(d) => Held(e)
  BY <1>1, <1>3, <1>5 DEF Held, SeenBut
<1> QED BY <1>1, <1>4, <1>6 DEF e

(* The names are read and merged. *)
LEMMA ReadNamesKeeps ==
    ASSUME NEW d \in DirectoryType
    PROVE  LET e == MergeNew(ReadNames(d))
           IN  /\ Held(d) => Held(e)
               /\ Waiting(e) /\ HasNames(e)
               /\ e.loaded = d.loaded /\ e.error = d.error /\ e.closing = d.closing
               /\ e.users = d.users
<1> DEFINE s == SetScanning(d, TRUE)
           m == MergeNew(s)
           kept == RemoveMissing(m, OnDisk)
           fresh == {NewItem(kept, l) : l \in OnDisk \ NamesOf(kept.known)}
           r == ReadNames(d)
           e == MergeNew(r)
<1>1. s \in DirectoryType /\ Keeps(d, s)
  BY SetScanningType, SetScanningContent, SameContentSameItems, SameKeeps
<1> HIDE DEF s
<1>2. m \in DirectoryType /\ Keeps(s, m) /\ m.new = {} /\ m.up = {} /\ m.gone = {}
  BY <1>1, MergeNewType, MergeNewKeeps
<1> HIDE DEF m
<1>3. /\ kept \in DirectoryType /\ (Held(m) => Held(kept))
      /\ kept.known = {i \in m.known : NameOf(i) \in OnDisk}
      /\ kept.new = {} /\ kept.up = {} /\ kept.gone = {}
      /\ kept.users = m.users /\ SameRest(m, kept)
  BY <1>2, RemoveMissingType, RemoveMissingHeld
<1> HIDE DEF kept
<1>4. ASSUME NEW l \in OnDisk \ NamesOf(kept.known)
      PROVE  NewItem(kept, l) \in Item /\ NameOf(NewItem(kept, l)) = l
  BY NewItemType DEF OnDisk
<1>5. fresh \subseteq Item
  BY <1>4
<1>6. NamesOf(fresh) = OnDisk \ NamesOf(kept.known)
  BY <1>4 DEF NamesOf
<1>7. \A i \in fresh : i \notin kept.known
  BY <1>4, NamesOfMember
<1> HIDE DEF fresh
<1>8. r = [kept EXCEPT !.recheck    = {},
                       !.new        = fresh,
                       !.details    = [i \in Item |-> IF i \in fresh THEN Blank ELSE @[i]],
                       !.needRescan = @ \cup kept.known \cup fresh,
                       !.missed     = FALSE]
  BY DEF ReadNames, kept, m, s, fresh
<1> HIDE DEF r
<1>9. /\ r.known = kept.known /\ r.new = fresh /\ r.up = {} /\ r.gone = {}
      /\ r.view = kept.view /\ r.users = kept.users
      /\ r.showHidden = kept.showHidden /\ r.only = kept.only
      /\ r.details = [i \in Item |-> IF i \in fresh THEN Blank ELSE kept.details[i]]
      /\ r.loaded = kept.loaded /\ r.error = kept.error /\ r.closing = kept.closing
  BY <1>3, <1>8 DEF DirectoryType
<1>10. r \in DirectoryType
  <2>1. [i \in Item |-> IF i \in fresh THEN Blank ELSE kept.details[i]] \in [Item -> Content]
    BY <1>3 DEF DirectoryType, Content
  <2> QED BY <1>3, <1>5, <1>8, <2>1 DEF DirectoryType, Content
<1>11. \A w : InView(r, w) = InView(kept, w) /\ \A i : Lets(r, w, i) <=> Lets(kept, w, i)
  BY <1>9 DEF InView, Lets
<1>12. Blank # Absent
  BY ConstantsAssumption DEF Blank, Absent
<1>13. ASSUME NEW w \in kept.users, Seen(kept, w) PROVE Seen(r, w)
  <2>1. ASSUME NEW i \in InView(r, w)
        PROVE  /\ r.details[i] # Absent
               /\ r.only[w] = "all" => /\ Lets(r, w, i)
                                       /\ r.view[w][i] = r.details[i] \/ i \notin r.known
    <3>1. i \in Item /\ i \in InView(kept, w) /\ kept.details[i] # Absent
      BY <1>3, <1>11, <1>13 DEF Seen, InView
    <3>2. r.details[i] = IF i \in fresh THEN Blank ELSE kept.details[i]
      BY <1>9, <3>1
    <3>3. ASSUME r.only[w] = "all"
          PROVE  Lets(r, w, i) /\ (r.view[w][i] = r.details[i] \/ i \notin r.known)
      <4>1. Lets(kept, w, i) /\ (kept.view[w][i] = kept.details[i] \/ i \notin kept.known)
        BY <1>3, <1>9, <1>13, <3>1, <3>3 DEF Seen
      <4> QED BY <1>7, <1>9, <1>11, <3>2, <4>1
    <3> QED BY <1>12, <3>1, <3>2, <3>3
  <2> QED BY <2>1 DEF Seen
<1>14. Held(m) => Held(r)
  BY <1>3, <1>9, <1>11, <1>13 DEF Held, SeenBut
<1>15. HasNames(r)
  <2>1. NamesOf(kept.known) \subseteq OnDisk
    BY <1>3 DEF NamesOf
  <2> QED BY <1>6, <1>9, <2>1 DEF HasNames
<1>16. Waiting(r)
  BY <1>9 DEF Waiting
<1>17. Keeps(r, e)
  BY <1>10, MergeNewKeeps
<1>18. HasNames(e)
  <2>1. e.known = {i \in r.known : NameOf(i) \notin NamesOf(r.new)} \cup Latest(r.new) /\ e.new = {}
    BY <1>10 DEF MergeNew, DirectoryType
  <2>2. NamesOf(Latest(r.new)) = NamesOf(r.new) /\ Latest(r.new) \subseteq r.new
    BY <1>10, LatestNames DEF DirectoryType
  <2>3. NamesOf(e.known) \cup NamesOf(e.new) = NamesOf(r.known) \cup NamesOf(r.new)
    BY <2>1, <2>2 DEF NamesOf
  <2> QED BY <1>15, <2>3 DEF HasNames
<1> HIDE DEF e
<1>19. Held(d) => Held(e)
  BY <1>1, <1>2, <1>14, <1>17 DEF Keeps
<1>20. Waiting(e)
  BY <1>16, <1>17 DEF Keeps
<1>21. e.users = d.users /\ e.loaded = d.loaded /\ e.error = d.error /\ e.closing = d.closing
  BY <1>1, <1>2, <1>3, <1>9, <1>17 DEF Keeps, SameRest
<1> QED BY <1>18, <1>19, <1>20, <1>21 DEF e, r

LEMMA QueueInterestingKeeps ==
    ASSUME NEW d \in DirectoryType, NEW W
    PROVE  Keeps(d, QueueInteresting(d, W))
<1>1. SameItems(d, QueueInteresting(d, W)) /\ SameRest(d, QueueInteresting(d, W))
  BY DEF QueueInteresting, DirectoryType, SameItems, SameRest
<1> QED BY <1>1, SameKeeps

(* insert_item, for any name, reported or scanned. *)
LEMMA InsertItemKeeps ==
    ASSUME NEW d \in DirectoryType, NEW l \in Leaf, disk \in [Leaf -> Details \cup {Absent}]
    PROVE  Keeps(d, InsertItem(d, l))
<1> DEFINE found == {i \in d.known : NameOf(i) = l}
           now   == Lstat(l)
           item  == IF found = {} THEN NewItem(d, l) ELSE CHOOSE i \in found : TRUE
           restatted == [d EXCEPT !.details[item] = now, !.needRescan = @ \ {item}]
           e == InsertItem(d, l)
<1>1. item \in Item /\ NameOf(item) = l
  BY NewItemType DEF DirectoryType
<1>2. found # {} => item \in d.known
  OBVIOUS
<1>3. now \in Details \cup {Absent}
  BY LstatType
<1>4. dirstat # "gone" => (now = Absent <=> l \notin OnDisk)
  BY DEF Lstat, OnDisk
<1> HIDE DEF item, now
<1>5. restatted \in DirectoryType
  BY <1>1, <1>3 DEF DirectoryType, Content
<1>6. /\ restatted.details = [d.details EXCEPT ![item] = now]
      /\ restatted.users = d.users /\ restatted.known = d.known /\ restatted.new = d.new
      /\ restatted.up = d.up /\ restatted.gone = d.gone
      /\ restatted.view = d.view /\ restatted.showHidden = d.showHidden
      /\ restatted.only = d.only /\ SameRest(d, restatted)
  BY DEF DirectoryType, SameRest
<1>7. e = IF found = {}
          THEN IF now = Absent THEN d
               ELSE [restatted EXCEPT !.new = @ \cup {item}, !.up = @ \cup {item}, !.notify = TRUE]
          ELSE IF now = Absent
               THEN [restatted EXCEPT !.known = @ \ {item}, !.gone = @ \cup {item}, !.notify = TRUE]
               ELSE IF d.details[item] = now /\ item \notin d.needRescan THEN restatted
                    ELSE [restatted EXCEPT !.up = @ \cup {item}, !.notify = TRUE]
  BY DEF InsertItem, item, now
<1>8. \A i \in d.known : NameOf(i) # l => i \notin found
  OBVIOUS
<1>9. found = {} => l \notin NamesOf(d.known)
  BY DEF NamesOf
<1> HIDE DEF restatted, e, found
<1>10. d.details \in [Item -> Content] /\ d.known \subseteq Item
  BY DEF DirectoryType, Content
<1>11. CASE found = {} /\ now = Absent
  <2>1. e = d
    BY <1>7, <1>11
  <2> QED BY <2>1 DEF e, Keeps, SameRest
<1>12. CASE ~(found = {} /\ now = Absent)
  <2>1. /\ e.details = [d.details EXCEPT ![item] = now]
        /\ e.users = d.users /\ e.view = d.view
        /\ e.showHidden = d.showHidden /\ e.only = d.only /\ SameRest(d, e)
    BY <1>5, <1>6, <1>7, <1>12 DEF DirectoryType, SameRest
  <2>2. \A i \in Item : e.details[i] = IF i = item THEN now ELSE d.details[i]
    BY <1>10, <2>1
  <2>3. \A w : InView(e, w) = InView(d, w) /\ \A i : Lets(e, w, i) <=> Lets(d, w, i)
    BY <2>1 DEF InView, Lets
  <2>4. CASE found = {}
    <3>1. /\ e.known = d.known /\ e.new = d.new \cup {item} /\ e.up = d.up \cup {item}
          /\ e.gone = d.gone /\ now # Absent
      BY <1>5, <1>6, <1>7, <1>12, <2>4 DEF DirectoryType
    <3>2. ASSUME NEW w \in d.users, Seen(d, w) PROVE Seen(e, w)
      BY <2>1, <2>2, <2>3, <3>1, <3>2 DEF Seen, InView
    <3>3. Held(d) => Held(e)
      BY <2>1, <2>3, <3>2 DEF Held, SeenBut
    <3>4. ASSUME dirstat # "gone", HasNames(d) PROVE HasNames(e)
      <4>1. l \in NamesOf(d.known) \cup NamesOf(d.new)
        BY <1>4, <3>1, <3>4 DEF HasNames
      <4>2. NamesOf(e.new) = NamesOf(d.new) \cup {l}
        BY <1>1, <3>1 DEF NamesOf
      <4> QED BY <3>1, <3>4, <4>1, <4>2 DEF HasNames
    <3>5. Waiting(d) => Waiting(e)
      BY <3>1 DEF Waiting
    <3> QED BY <2>1, <3>3, <3>4, <3>5 DEF Keeps, e
  <2>5. CASE found # {} /\ now = Absent
    <3>1. /\ e.known = d.known \ {item} /\ e.new = d.new /\ e.up = d.up
          /\ e.gone = d.gone \cup {item}
      BY <1>5, <1>6, <1>7, <2>5 DEF DirectoryType
    <3>2. ASSUME NEW w \in d.users, Seen(d, w) PROVE Seen(e, w)
      BY <2>1, <2>2, <2>3, <3>1, <3>2 DEF Seen, InView
    <3>3. Held(d) => Held(e)
      BY <2>1, <2>3, <3>2 DEF Held, SeenBut
    <3>4. ~(dirstat # "gone" /\ HasNames(d))
      BY <1>1, <1>2, <1>4, <2>5, NamesOfMember DEF HasNames
    <3>5. Waiting(d) => Waiting(e)
      BY <3>1 DEF Waiting
    <3> QED BY <2>1, <3>3, <3>4, <3>5 DEF Keeps, e
  <2>6. CASE found # {} /\ now # Absent
    <3>1. /\ e.known = d.known /\ e.new = d.new /\ e.gone = d.gone
          /\ e.up \in {d.up, d.up \cup {item}}
          /\ item \notin e.up => now = d.details[item]
      BY <1>5, <1>6, <1>7, <2>6 DEF DirectoryType
    <3>2. ASSUME NEW w \in d.users, Seen(d, w) PROVE Seen(e, w)
      BY <2>1, <2>2, <2>3, <2>6, <3>1, <3>2 DEF Seen, InView
    <3>3. Held(d) => Held(e)
      BY <2>1, <2>3, <3>2 DEF Held, SeenBut
    <3>4. HasNames(d) => HasNames(e)
      BY <3>1 DEF HasNames
    <3>5. Waiting(d) => Waiting(e)
      BY <1>2, <2>6, <3>1 DEF Waiting
    <3> QED BY <2>1, <3>3, <3>4, <3>5 DEF Keeps, e
  <2> QED BY <2>4, <2>5, <2>6
<1> QED BY <1>11, <1>12

LEMMA RecheckOneKeeps ==
    ASSUME NEW d \in DirectoryType, d.recheck # {}, NEW next,
           disk \in [Leaf -> Details \cup {Absent}]
    PROVE  Keeps(d, RecheckOne(d, next))
<1> DEFINE l == Pick(d.recheck, next)
           d1 == [d EXCEPT !.recheck = @ \ {l}]
           e1 == InsertItem(d1, l)
           m == MergeNew(e1)
           s == SetScanning(m, FALSE)
           e == RecheckOne(d, next)
<1>1. l \in d.recheck /\ l \in Leaf
  BY PickInSet DEF DirectoryType
<1> HIDE DEF l
<1>2. d1 \in DirectoryType /\ SameItems(d, d1) /\ SameRest(d, d1)
  BY DEF DirectoryType, SameItems, SameRest
<1> HIDE DEF d1
<1>3. e1 \in DirectoryType /\ Keeps(d1, e1) /\ Keeps(d, d1)
  BY <1>1, <1>2, InsertItemType, InsertItemKeeps, SameKeeps
<1>4. e = IF e1.recheck # {} THEN e1 ELSE [s EXCEPT !.idle = FALSE]
  BY DEF RecheckOne, s, m, e1, d1, l
<1> HIDE DEF e1
<1>5. m \in DirectoryType /\ Keeps(e1, m)
  BY <1>3, MergeNewType, MergeNewKeeps
<1> HIDE DEF m
<1>6. s \in DirectoryType /\ Keeps(m, s)
  BY <1>5, SetScanningType, SetScanningContent, SameContentSameItems, SameKeeps
<1> HIDE DEF s
<1>7. Keeps(s, [s EXCEPT !.idle = FALSE])
  BY <1>6, IdleContent, SameContentSameItems, SameKeeps
<1> HIDE DEF e
<1>8. Keeps(d, e1) /\ Keeps(d, [s EXCEPT !.idle = FALSE])
  BY <1>3, <1>5, <1>6, <1>7, KeepsTransitive
<1>9. Keeps(d, e)
  BY <1>4, <1>8
<1> QED BY <1>9 DEF e

LEMMA SetIdleCallbackKeeps ==
    ASSUME NEW d \in DirectoryType, NEW next, disk \in [Leaf -> Details \cup {Absent}]
    PROVE  Keeps(d, SetIdleCallback(d, next))
<1> DEFINE e == SetIdleCallback(d, next)
           t == SetScanning(d, TRUE)
           f == SetScanning(d, FALSE)
           t1 == [t EXCEPT !.idle = TRUE]
           f1 == [f EXCEPT !.idle = FALSE]
<1>1. /\ t \in DirectoryType /\ SameContent(d, t) /\ SameRest(d, t)
      /\ f \in DirectoryType /\ SameContent(d, f) /\ SameRest(d, f)
  BY SetScanningType, SetScanningContent
<1>2. e = IF d.recheck # {} /\ d.users # {}
          THEN IF d.idle THEN t ELSE RecheckOne(t1, next)
          ELSE f1
  BY DEF SetIdleCallback
<1> HIDE DEF t, f, e
<1>3. /\ SameContent(t, t1) /\ SameRest(t, t1) /\ SameContent(f, f1) /\ SameRest(f, f1)
      /\ t1 \in DirectoryType
  <2>1. t1 \in DirectoryType
    BY <1>1 DEF DirectoryType
  <2> QED BY <1>1, <2>1, IdleContent
<1> HIDE DEF t1, f1
<1>4. Keeps(d, t) /\ Keeps(t, t1) /\ Keeps(d, f) /\ Keeps(f, f1)
  BY <1>1, <1>3, SameContentSameItems, SameKeeps
<1>5. Keeps(d, t1) /\ Keeps(d, f1)
  BY <1>4, KeepsTransitive
<1>6. d.recheck # {} => t1.recheck # {}
  BY <1>1, <1>3 DEF SameContent
<1>7. d.recheck # {} => Keeps(d, RecheckOne(t1, next))
  BY <1>3, <1>5, <1>6, RecheckOneKeeps, KeepsTransitive
<1>8. Keeps(d, e)
  BY <1>2, <1>4, <1>5, <1>7
<1> QED BY <1>8 DEF e

(* dir_rescan reads the names, or has an error to show, or closes. *)
LEMMA RescanNames ==
    ASSUME NEW d \in DirectoryType, NEW next, NEW X, IndicatorsBut(d, X), FsTyped
    PROVE  LET e == Rescan(d, next)
           IN  /\ e.users = d.users /\ e.loaded = d.loaded
               /\ Held(d) => Held(e)
               /\ Waiting(d) => Waiting(e)
               /\ d.closing => e.closing
               /\ dirstat = "ok" => HasNames(e)
               /\ dirstat = "gone" => e.closing \/ e.error # "none"
               /\ dirstat = "noread" => e.error # "none"
<1> DEFINE d0 == [d EXCEPT !.needsUpdate = FALSE, !.error = "none"]
           d1 == MergeNew(ReadNames(d0))
           q  == QueueInteresting(d1, d1.users)
           i  == SetIdleCallback(q, next)
           e  == Rescan(d, next)
<1>1. /\ d0 \in DirectoryType /\ SameItems(d, d0) /\ d0.loaded = d.loaded /\ d0.closing = d.closing
      /\ IndicatorsBut(d0, X)
  BY DEF DirectoryType, SameItems, IndicatorsBut
<1>2. e = CASE dirstat = "gone" /\ CloseWhenMissing -> [d0 EXCEPT !.closing = TRUE]
            [] dirstat = "gone" /\ ~CloseWhenMissing -> RemoveMissing([d0 EXCEPT !.error = "stat"], {})
            [] dirstat = "noread" -> [d0 EXCEPT !.error = "open"]
            [] OTHER -> MergeNew(i)
  BY DEF Rescan
<1> HIDE DEF d0, e
<1>3. d0.users = d.users /\ (Held(d) => Held(d0)) /\ (Waiting(d) => Waiting(d0))
  BY <1>1, SameItemsKeep
<1>4. CASE dirstat = "gone" /\ CloseWhenMissing
  <2>1. e = [d0 EXCEPT !.closing = TRUE]
    BY <1>2, <1>4
  <2>2. SameItems(d0, e) /\ e.loaded = d0.loaded /\ e.closing = TRUE
    BY <1>1, <2>1 DEF DirectoryType, SameItems
  <2> QED BY <1>1, <1>3, <1>4, <2>2, SameItemsKeep DEF e
<1>5. CASE dirstat = "noread"
  <2>1. e = [d0 EXCEPT !.error = "open"]
    BY <1>2, <1>5
  <2>2. SameItems(d0, e) /\ e.loaded = d0.loaded /\ e.closing = d0.closing /\ e.error = "open"
    BY <1>1, <2>1 DEF DirectoryType, SameItems
  <2> QED BY <1>1, <1>3, <1>5, <2>2, SameItemsKeep DEF e
<1>6. CASE dirstat = "ok"
  <2>1. e = MergeNew(i)
    BY <1>2, <1>6
  <2>2. ReadNames(d0) \in DirectoryType /\ IndicatorsBut(ReadNames(d0), X)
    BY <1>1, ReadNamesLemma
  <2>3. d1 \in DirectoryType /\ IndicatorsBut(d1, X)
    BY <2>2, MergeNewType, MergeNewControl DEF SameScan, IndicatorsBut
  <2>4. /\ Held(d0) => Held(d1)
        /\ Waiting(d1) /\ HasNames(d1)
        /\ d1.loaded = d0.loaded /\ d1.closing = d0.closing
        /\ d1.users = d0.users
    BY <1>1, ReadNamesKeeps
  <2> HIDE DEF d1
  <2>5. q \in DirectoryType /\ Keeps(d1, q)
    BY <2>3, QueueInterestingType, QueueInterestingKeeps
  <2>6. IndicatorsBut(q, X)
    BY <2>3, QueueInterestingControl DEF SameScan, IndicatorsBut
  <2> HIDE DEF q
  <2>7. i \in DirectoryType
    BY <2>5, <2>6, SetIdleCallbackLemma DEF FsTyped
  <2>8. Keeps(q, i)
    BY <2>5, SetIdleCallbackKeeps DEF FsTyped
  <2> HIDE DEF i
  <2>9. Keeps(d1, e)
    BY <2>1, <2>5, <2>7, <2>8, MergeNewKeeps, KeepsTransitive
  <2> QED BY <1>1, <1>3, <1>6, <2>4, <2>9 DEF Keeps, SameRest, e
<1>7. CASE dirstat = "gone" /\ ~CloseWhenMissing
  <2> DEFINE x == [d0 EXCEPT !.error = "stat"]
  <2>1. e = RemoveMissing(x, {})
    BY <1>2, <1>7
  <2>2. /\ x \in DirectoryType /\ SameItems(d0, x) /\ x.loaded = d0.loaded
        /\ x.closing = d0.closing /\ x.error = "stat"
    BY <1>1 DEF DirectoryType, SameItems
  <2> HIDE DEF x
  <2>3. (Held(x) => Held(e)) /\ e.users = x.users /\ SameRest(x, e)
    BY <2>1, <2>2, RemoveMissingHeld
  <2>4. Waiting(e)
    BY <1>7 DEF Waiting
  <2> QED BY <1>1, <1>3, <1>7, <2>2, <2>3, <2>4, SameItemsKeep DEF SameRest, e
<1> QED BY <1>4, <1>5, <1>6, <1>7, ConstantsAssumption DEF FsTyped

Fit(d) == DirInv(d) /\ Held(d) /\ Waiting(d)

LEMMA RescanFit ==
    ASSUME NEW d, Fit(d), NEW next, FsTyped, NEW changed, dirstat = "gone" => changed
    PROVE  LET e == Rescan(d, next)
           IN  Fit(e) /\ NamesTrue(e, changed) /\ e.users = d.users /\ e.loaded = d.loaded
<1>1. DirInv(Rescan(d, next))
  BY RescanInv DEF Fit, FsTyped
<1>2. d \in DirectoryType /\ IndicatorsBut(d, {})
  BY DEF Fit, DirInv
<1> QED BY <1>1, <1>2, RescanNames DEF Fit, FsTyped, NamesTrue, Behind

LEMMA UpdateFit ==
    ASSUME NEW d, Fit(d), NEW next, FsTyped, NEW changed, dirstat = "gone" => changed
    PROVE  LET e == Update(d, next)
           IN  Fit(e) /\ NamesTrue(e, changed) /\ e.users = d.users /\ e.loaded = d.loaded
<1>1. CASE ~d.scanning
  BY <1>1, RescanFit DEF Update
<1>2. CASE d.scanning
  <2> DEFINE e == Update(d, next)
  <2>1. DirInv(e)
    BY UpdateInv DEF Fit, FsTyped
  <2>2. d \in DirectoryType /\ e = [d EXCEPT !.needsUpdate = TRUE]
    BY <1>2 DEF Fit, DirInv, Update
  <2> HIDE DEF e
  <2>3. SameItems(d, e) /\ e.needsUpdate /\ e.loaded = d.loaded
    BY <2>2 DEF DirectoryType, SameItems
  <2> QED BY <2>1, <2>3, SameItemsKeep DEF Fit, NamesTrue, Behind, e
<1> QED BY <1>1, <1>2

LEMMA LookupFit ==
    ASSUME NEW d, Fit(d), NEW next, FsTyped, dirstat # "gone", ~d.loaded => d.needsUpdate
    PROVE  LET e == Lookup(d, next)
           IN  /\ Fit(e) /\ e.users = d.users /\ e.loaded
               /\ dirty \/ NamesTrue(d, FALSE) => NamesTrue(e, FALSE)
<1> DEFINE e == Lookup(d, next)
<1>1. CASE ~d.loaded
  <2>1. DirInv(e)
    BY LookupInv DEF Fit, FsTyped
  <2>2. d \in DirectoryType /\ e = [d EXCEPT !.loaded = TRUE]
    BY <1>1 DEF Fit, DirInv, Lookup
  <2> HIDE DEF e
  <2>3. SameItems(d, e) /\ e.needsUpdate /\ e.loaded
    BY <1>1, <2>2 DEF DirectoryType, SameItems
  <2> QED BY <2>1, <2>3, SameItemsKeep DEF Fit, NamesTrue, Behind, e
<1>2. CASE d.loaded /\ dirty
  BY <1>2, UpdateFit DEF Lookup
<1>3. CASE d.loaded /\ ~dirty
  BY <1>3 DEF Lookup
<1> QED BY <1>1, <1>2, <1>3

(* The window that attaches is given the items that are known. *)
LEMMA AttachFit ==
    ASSUME NEW d, Fit(d), NEW w \in Window, w \notin d.users, NEW next, FsTyped,
           NEW changed, dirstat = "gone" => changed
    PROVE  LET e == Attach(d, w, next)
           IN  /\ Fit(e) /\ e.users = d.users \cup {w} /\ e.loaded = d.loaded
               /\ NamesTrue(d, changed) => NamesTrue(e, changed)
<1> DEFINE d2 == [d EXCEPT !.view[w] = NothingShown]
           drawn == Redrawn(d2, w, d.known, {}, {})
           shown == [d EXCEPT !.users = @ \cup {w}, !.busy[w] = TRUE, !.view[w] = drawn]
           asked == IF d.needsUpdate /\ ~d.scanning THEN Rescan(shown, next)
                    ELSE QueueInteresting(shown, {w})
           idled == SetIdleCallback(asked, next)
           e == Attach(d, w, next)
<1>1. d \in DirectoryType /\ DirInv(d) /\ Held(d) /\ Waiting(d)
  BY DEF Fit, DirInv
<1>2. DirInv(e)
  BY <1>1, AttachInv DEF FsTyped
<1>3. d2 \in DirectoryType /\ d2.known = d.known /\ d2.details = d.details
      /\ d2.showHidden = d.showHidden /\ d2.only = d.only
      /\ d2.view[w] = NothingShown
  BY <1>1 DEF DirectoryType, NothingShown
<1> HIDE DEF d2
<1>4. d.known \subseteq Item /\ d.view \in [Window -> [Item -> Content]]
  BY <1>1 DEF DirectoryType, Content
<1>5. drawn = [i \in Item |-> IF MatchFilter(d, w, i) /\ i \in d.known THEN d.details[i] ELSE Absent]
  BY <1>3 DEF Redrawn, NamesOf, MatchFilter, Shown, NothingShown
<1>6. drawn \in [Item -> Content]
  BY <1>1, <1>5 DEF DirectoryType, Content
<1> HIDE DEF drawn
<1>7. shown \in DirectoryType
  BY <1>1, <1>6 DEF DirectoryType, Content
<1>8. /\ shown.users = d.users \cup {w}
      /\ shown.view = [d.view EXCEPT ![w] = drawn]
      /\ shown.known = d.known /\ shown.new = d.new /\ shown.up = d.up /\ shown.gone = d.gone
      /\ shown.details = d.details
      /\ shown.showHidden = d.showHidden /\ shown.only = d.only
      /\ shown.needsUpdate = d.needsUpdate /\ SameRest(d, shown)
  BY <1>1 DEF DirectoryType, SameRest
<1>9. IndicatorsBut(shown, {w})
  BY <1>1 DEF DirInv, DirectoryType, IndicatorsBut
<1> HIDE DEF shown
<1>10. Waiting(shown) /\ (HasNames(d) => HasNames(shown))
  BY <1>1, <1>8 DEF Waiting, HasNames
<1>11. shown.view[w] = drawn /\ \A x \in Window : x # w => shown.view[x] = d.view[x]
  BY <1>4, <1>8
<1>12. Seen(shown, w)
  <2>1. ASSUME NEW i \in InView(shown, w)
        PROVE  /\ i \in Item /\ MatchFilter(d, w, i)
               /\ shown.view[w][i] = d.details[i] /\ d.details[i] # Absent
    BY <1>5, <1>11 DEF InView
  <2> QED BY <1>8, <2>1, MatchAll DEF Seen, Lets
<1>13. \A x \in Window : x # w => InView(shown, x) = InView(d, x)
  BY <1>11 DEF InView
<1>14. Held(shown)
  <2>1. ASSUME NEW x \in d.users, x # w PROVE Seen(shown, x)
    <3>1. x \in Window /\ Seen(d, x)
      BY <1>1 DEF Held, SeenBut, DirectoryType
    <3> QED BY <1>8, <1>11, <1>13, <2>1, <3>1 DEF Seen, Lets
  <2> QED BY <1>1, <1>8, <1>12, <1>13, <2>1 DEF Held, SeenBut
<1>15. /\ asked \in DirectoryType /\ Held(asked) /\ Waiting(asked)
       /\ asked.users = d.users \cup {w} /\ asked.loaded = d.loaded
       /\ IndicatorsBut(asked, {w})
       /\ NamesTrue(d, changed) => NamesTrue(asked, changed)
  <2>1. CASE d.needsUpdate /\ ~d.scanning
    <3>1. asked = Rescan(shown, next)
      BY <2>1
    <3>2. asked \in DirectoryType /\ IndicatorsBut(asked, {w})
      BY <1>7, <1>9, <3>1, RescanLemma DEF FsTyped
    <3> QED BY <1>7, <1>8, <1>9, <1>10, <1>14, <3>1, <3>2, RescanNames
            DEF FsTyped, NamesTrue, Behind, SameRest
  <2>2. CASE ~(d.needsUpdate /\ ~d.scanning)
    <3> DEFINE q == QueueInteresting(shown, {w})
    <3>1. asked = q
      BY <2>2
    <3>2. q \in DirectoryType /\ SameScan(shown, q) /\ Keeps(shown, q)
      BY <1>7, QueueInterestingType, QueueInterestingControl, QueueInterestingKeeps
    <3>3. IndicatorsBut(q, {w})
      BY <1>9, <3>2 DEF SameScan, IndicatorsBut
    <3> HIDE DEF q, asked
    <3>4. q.needsUpdate = d.needsUpdate
      BY <1>8, <3>2 DEF SameScan
    <3> QED BY <1>8, <1>10, <1>14, <3>1, <3>2, <3>3, <3>4 DEF Keeps, SameRest, NamesTrue, Behind
  <2> QED BY <2>1, <2>2
<1> HIDE DEF asked
<1>16. Keeps(asked, idled)
  BY <1>15, SetIdleCallbackKeeps DEF FsTyped
<1>17. idled.needsUpdate = asked.needsUpdate
  BY <1>15, SetIdleCallbackLemma DEF FsTyped, SameDebt
<1>18. idled \in DirectoryType
  BY <1>15, SetIdleCallbackLemma DEF FsTyped
<1>19. e = IF idled.scanning THEN idled ELSE [idled EXCEPT !.busy[w] = FALSE]
  BY DEF asked, shown, drawn, d2, Attach
<1> HIDE DEF idled, e
<1>20. SameItems(idled, e) /\ SameRest(idled, e) /\ e.needsUpdate = idled.needsUpdate
  BY <1>18, <1>19 DEF DirectoryType, SameItems, SameRest
<1>21. Keeps(asked, e)
  BY <1>16, <1>20, SameKeeps, KeepsTransitive
<1>22. NamesTrue(asked, changed) => NamesTrue(e, changed)
  BY <1>17, <1>20, <1>21 DEF Keeps, SameRest, NamesTrue, Behind
<1> QED BY <1>2, <1>15, <1>21, <1>22 DEF Fit, Keeps, SameRest, e

(* The windows that leave display nothing any more. *)
LEMMA DetachFit ==
    ASSUME NEW d, DirInv(d), Waiting(d), NEW W \in SUBSET Window, SeenBut(d, W),
           NEW next, FsTyped, NEW changed
    PROVE  LET e == Detach(d, W, next)
           IN  /\ Fit(e) /\ e.users = d.users \ W /\ e.loaded = d.loaded
               /\ e.closing = d.closing
               /\ NamesTrue(d, changed) => NamesTrue(e, changed)
               /\ event /\ d.users \subseteq W => e.missed
<1> DEFINE left == [d EXCEPT !.users = @ \ W,
                             !.view = [w \in Window |-> IF w \in W THEN NothingShown ELSE @[w]],
                             !.busy = [w \in Window |-> IF w \in W THEN FALSE ELSE @[w]]]
           idled == SetIdleCallback(left, next)
           e == Detach(d, W, next)
<1>1. d \in DirectoryType
  BY DEF DirInv
<1>2. DirInv(e) /\ e.users = d.users \ W
  BY <1>1, DetachInv DEF FsTyped
<1>3. left \in DirectoryType
  BY <1>1 DEF DirectoryType, NothingShown
<1>4. /\ left.users = d.users \ W
      /\ left.view = [w \in Window |-> IF w \in W THEN NothingShown ELSE d.view[w]]
      /\ left.known = d.known /\ left.new = d.new /\ left.up = d.up /\ left.gone = d.gone
      /\ left.details = d.details
      /\ left.showHidden = d.showHidden /\ left.only = d.only
      /\ left.needsUpdate = d.needsUpdate /\ SameRest(d, left) /\ IndicatorsBut(left, {})
  BY <1>1 DEF DirInv, DirectoryType, SameRest, IndicatorsBut
<1> HIDE DEF left
<1>5. ASSUME NEW w \in Window
      PROVE  /\ w \in W => InView(left, w) = {}
             /\ w \notin W => left.view[w] = d.view[w] /\ InView(left, w) = InView(d, w)
  BY <1>4 DEF InView, NothingShown
<1>6. Held(left)
  <2>1. ASSUME NEW w \in d.users \ W PROVE Seen(left, w)
    <3>1. w \in Window /\ Seen(d, w)
      BY <1>1 DEF SeenBut, DirectoryType
    <3> QED BY <1>4, <1>5, <2>1, <3>1 DEF Seen, Lets
  <2> QED BY <1>4, <1>5, <2>1 DEF Held, SeenBut
<1>7. Waiting(left) /\ (HasNames(d) => HasNames(left))
  BY <1>4 DEF Waiting, HasNames
<1>8. Keeps(left, idled)
  BY <1>3, SetIdleCallbackKeeps DEF FsTyped
<1>9. idled \in DirectoryType /\ idled.needsUpdate = left.needsUpdate
  BY <1>3, <1>4, SetIdleCallbackLemma DEF FsTyped, SameDebt
<1>10. e = [idled EXCEPT !.missed = @ \/ (event /\ d.users \subseteq W)]
  BY DEF Detach, left
<1> HIDE DEF idled, e
<1>11. /\ SameItems(idled, e) /\ e.loaded = idled.loaded /\ e.error = idled.error
       /\ e.closing = idled.closing /\ e.needsUpdate = idled.needsUpdate
       /\ e.missed = (idled.missed \/ (event /\ d.users \subseteq W))
  BY <1>9, <1>10 DEF DirectoryType, SameItems
<1>12. Held(e) /\ Waiting(e) /\ (HasNames(idled) => HasNames(e))
  BY <1>6, <1>7, <1>8, <1>11, SameItemsKeep DEF Keeps
<1>13. e.loaded = d.loaded /\ e.closing = d.closing
  BY <1>4, <1>8, <1>11 DEF Keeps, SameRest
<1>14. NamesTrue(d, changed) => NamesTrue(e, changed)
  BY <1>4, <1>7, <1>8, <1>9, <1>11, <1>12 DEF Keeps, SameRest, NamesTrue, Behind
<1>15. event /\ d.users \subseteq W => e.missed
  BY <1>11
<1> QED BY <1>2, <1>12, <1>13, <1>14, <1>15 DEF Fit, e

LEMMA DestroyFit ==
    ASSUME NEW d, Fit(d), NEW W \in SUBSET Window, NEW next, FsTyped, NEW changed
    PROVE  LET e == Destroy(d, W, next)
           IN  /\ Fit(e) /\ e.users = d.users \ W /\ e.loaded = d.loaded
               /\ e.closing = d.closing
               /\ NamesTrue(d, changed) => NamesTrue(e, changed)
               /\ event /\ d.users \subseteq W => e.missed
<1> DEFINE x == Detach(d, W, next)
           e == Destroy(d, W, next)
<1>0. DirInv(d) /\ Waiting(d) /\ SeenBut(d, W)
  BY DEF Fit, Held, SeenBut
<1>1. /\ Fit(x) /\ x.users = d.users \ W /\ x.loaded = d.loaded
      /\ x.closing = d.closing
      /\ NamesTrue(d, changed) => NamesTrue(x, changed)
      /\ event /\ d.users \subseteq W => x.missed
  BY <1>0, DetachFit
<1>2. DirInv(e)
  BY DestroyInv DEF Fit, FsTyped
<1>3. e = [x EXCEPT !.showHidden = [w \in Window |-> IF w \in W THEN FALSE ELSE @[w]],
                    !.only = [w \in Window |-> IF w \in W THEN "all" ELSE @[w]]]
  BY DEF Destroy
<1> HIDE DEF x, e
<1>4. x \in DirectoryType
  BY <1>1 DEF Fit, DirInv
<1>5. /\ e.users = x.users /\ e.known = x.known /\ e.new = x.new /\ e.up = x.up /\ e.gone = x.gone
      /\ e.details = x.details /\ e.view = x.view /\ e.needsUpdate = x.needsUpdate /\ SameRest(x, e)
      /\ e.showHidden = [w \in Window |-> IF w \in W THEN FALSE ELSE x.showHidden[w]]
      /\ e.only = [w \in Window |-> IF w \in W THEN "all" ELSE x.only[w]]
  BY <1>3, <1>4 DEF DirectoryType, SameRest
<1>6. Held(e)
  <2>1. \A w \in Window : InView(e, w) = InView(x, w)
    BY <1>5 DEF InView
  <2>2. ASSUME NEW w \in x.users PROVE Seen(e, w)
    <3>1. w \in Window /\ Seen(x, w) /\ w \notin W
      BY <1>1, <1>4 DEF Fit, Held, SeenBut, DirectoryType
    <3>2. e.only[w] = x.only[w] /\ e.showHidden[w] = x.showHidden[w]
      BY <1>5, <3>1
    <3> QED BY <1>5, <2>1, <3>1, <3>2 DEF Seen, Lets
  <2> QED BY <1>1, <1>5, <2>1, <2>2 DEF Fit, Held, SeenBut
<1>7. Waiting(e) /\ (HasNames(x) => HasNames(e))
  BY <1>1, <1>5 DEF Fit, Waiting, HasNames
<1>8. NamesTrue(x, changed) => NamesTrue(e, changed)
  BY <1>5, <1>7 DEF SameRest, NamesTrue, Behind
<1> QED BY <1>1, <1>2, <1>5, <1>6, <1>7, <1>8 DEF Fit, SameRest, e

(* What is redrawn is drawn as the Directory has it. *)
LEMMA RedrawKeeps ==
    ASSUME NEW d \in DirectoryType, NEW S, Held(d),
           NEW e, e = [d EXCEPT !.view = Tell(d, d.users, {}, S, {})]
    PROVE  Held(e) /\ e.users = d.users
<1>1. /\ e.view = Tell(d, d.users, {}, S, {})
      /\ e.users = d.users /\ e.known = d.known /\ e.up = d.up /\ e.gone = d.gone
      /\ e.details = d.details /\ e.showHidden = d.showHidden /\ e.only = d.only
  BY DEF DirectoryType
<1>2. ASSUME NEW w \in Window, NEW i \in Item
      PROVE  e.view[w][i] = d.view[w][i] \/ (w \in d.users /\ e.view[w][i] = d.details[i] /\ i \in InView(d, w))
  <2>1. e.view[w][i] = IF w \notin d.users THEN d.view[w][i]
                       ELSE IF MatchFilter(d, w, i) /\ (i \in S /\ d.view[w][i] # Absent)
                       THEN d.details[i] ELSE d.view[w][i]
    BY <1>1, TellValue DEF NamesOf
  <2> QED BY <2>1 DEF InView
<1>3. ASSUME NEW w \in Window PROVE InView(e, w) \subseteq InView(d, w)
  BY <1>2 DEF InView
<1>4. ASSUME NEW w \in d.users PROVE Seen(e, w)
  <2>1. w \in Window /\ Seen(d, w)
    BY DEF Held, SeenBut, DirectoryType
  <2>2. \A i \in InView(e, w) : i \in Item /\ i \in InView(d, w)
    BY <1>3, <2>1 DEF InView
  <2> QED BY <1>1, <1>2, <2>1, <2>2 DEF Seen, Lets
<1> QED BY <1>1, <1>3, <1>4 DEF Held, SeenBut

--------------------
(* The invariant of the names, and the steps. *)

NamesInv ==
    /\ IInv
    /\ Held(dir) /\ Waiting(dir)
    /\ dir.loaded \/ (dir.users = {} /\ dir.needsUpdate /\ ~dir.timer /\ ~event)
    /\ dirstat = "gone" => dirty
    /\ event \/ NamesTrue(dir, dirty) \/ (dirty /\ dir.users = {})

LEMMA NamesTruePrime ==
    ASSUME UNCHANGED <<disk, dirstat>>, NamesTrue(dir', dirty')
    PROVE  NamesTrue(dir, dirty)'
BY DEF NamesTrue, Behind, HasNames, OnDisk

LEMMA InitNamesInv == Init => NamesInv
<1> SUFFICES ASSUME Init PROVE NamesInv
  OBVIOUS
<1>1. dir = NewDirectory
  BY DEF Init
<1>2. Held(dir)
  BY <1>1 DEF NewDirectory, Held, SeenBut, InView, NothingShown
<1>3. dir.users = {} /\ dir.needsUpdate /\ ~dir.timer /\ Waiting(dir)
  BY <1>1 DEF NewDirectory, Waiting
<1> QED BY <1>2, <1>3, InitIInv DEF Init, NamesInv, NamesTrue, Behind

LEMMA FileSystemNames ==
    ASSUME NamesInv, FileSystem PROVE NamesInv'
<1>1. IInv'
  BY FileSystemStep DEF NamesInv
<1>2. CASE UNCHANGED dir /\ dirty' = TRUE /\ Notified
  BY <1>1, <1>2 DEF NamesInv, Notified, NamesTrue, Behind
<1>3. ASSUME NEW l \in Leaf, WriteInPlace(l) PROVE NamesInv'
  <2>1. dir' = [dir EXCEPT !.missed = @ \/ (dir.loaded /\ dir.users = {})]
    BY <1>3 DEF WriteInPlace
  <2>2. dir \in DirectoryType
    BY DEF NamesInv, IInv, DirInv
  <2>3. /\ SameItems(dir, dir') /\ dir'.loaded = dir.loaded /\ dir'.timer = dir.timer
        /\ dir'.needsUpdate = dir.needsUpdate
        /\ dir'.missed = (dir.missed \/ (dir.loaded /\ dir.users = {}))
    BY <2>1, <2>2 DEF DirectoryType, SameItems
  <2>4. Held(dir') /\ Waiting(dir') /\ dir'.users = dir.users
    BY <2>3, SameItemsKeep DEF NamesInv
  <2>5. (event \/ NamesTrue(dir, dirty) \/ (dirty /\ dir.users = {}))'
    BY <1>3, <2>3, <2>4 DEF WriteInPlace, Notified, NamesInv, NamesTrue, Behind
  <2> QED BY <1>1, <1>3, <2>3, <2>4, <2>5 DEF WriteInPlace, Notified, NamesInv
<1>4. ASSUME NEW l \in Leaf, Create(l) \/ Delete(l) \/ Replace(l)
      PROVE  UNCHANGED dir /\ dirty' = TRUE /\ Notified
  BY <1>4 DEF Create, Delete, Replace
<1>5. ASSUME NEW from, NEW to, ChangeDirectory(from, to)
      PROVE  UNCHANGED dir /\ dirty' = TRUE /\ Notified
  BY <1>5 DEF ChangeDirectory
<1> QED BY <1>2, <1>3, <1>4, <1>5 DEF FileSystem

LEMMA FitNow == NamesInv => FsTyped /\ Fit(dir) /\ dir \in DirectoryType
BY DEF NamesInv, FsTyped, Fit, IInv, FsType, DirInv

LEMMA MainLoopNames ==
    ASSUME NamesInv, MainLoop PROVE NamesInv'
<1>1. IInv' /\ UNCHANGED <<disk, dirstat>>
  BY MainLoopStep DEF NamesInv, MainLoop, MonitorEvent, NotifyTimeout, RescanTimeout,
                      RecheckCallback, CloseRecursive
<1>2. FsTyped /\ Fit(dir) /\ dir \in DirectoryType /\ (dirstat = "gone" => dirty)
  BY FitNow DEF NamesInv
<1>3. CASE MonitorEvent
  <2>1. dir' = [dir EXCEPT !.needsUpdate = TRUE, !.timer = TRUE]
    BY <1>3 DEF MonitorEvent, RescanSoon
  <2>2. SameItems(dir, dir') /\ dir'.needsUpdate /\ dir'.loaded = dir.loaded
    BY <1>2, <2>1 DEF DirectoryType, SameItems
  <2> QED BY <1>1, <1>3, <2>2, SameItemsKeep DEF MonitorEvent, NamesInv, NamesTrue, Behind
<1>4. CASE NotifyTimeout
  <2> DEFINE m == MergeNew(dir)
  <2>1. m \in DirectoryType /\ SameScan(dir, m) /\ Keeps(dir, m)
    BY <1>2, MergeNewType, MergeNewControl, MergeNewKeeps
  <2>2. dir' = [m EXCEPT !.notify = FALSE]
    BY <1>4 DEF NotifyTimeout
  <2> HIDE DEF m
  <2>3. SameItems(m, dir') /\ SameRest(m, dir') /\ SameScan(m, dir')
    BY <2>1, <2>2 DEF DirectoryType, SameItems, SameRest, SameScan
  <2>4. Keeps(dir, dir')
    BY <2>1, <2>3, SameKeeps, KeepsTransitive
  <2>5. NamesTrue(dir, dirty) => NamesTrue(dir', dirty)
    BY <2>1, <2>3, <2>4 DEF NamesTrue, Behind, Keeps, SameRest, SameScan
  <2>6. NamesTrue(dir, dirty) => NamesTrue(dir, dirty)'
    BY <1>1, <1>4, <2>5, NamesTruePrime DEF NotifyTimeout
  <2>7. dirty' = dirty /\ event' = event /\ dirstat' = dirstat
    BY <1>4 DEF NotifyTimeout
  <2>8. Held(dir') /\ Waiting(dir') /\ dir'.users = dir.users /\ dir'.loaded = dir.loaded
    BY <2>4 DEF NamesInv, Keeps, SameRest
  <2>9. dir'.needsUpdate = dir.needsUpdate /\ dir'.timer = dir.timer
    BY <2>1, <2>3 DEF SameScan
  <2> QED BY <1>1, <2>6, <2>7, <2>8, <2>9 DEF NamesInv
<1>5. ASSUME NEW next \in Leaf, RescanTimeout(next) PROVE NamesInv'
  <2> DEFINE d == IF ~dir.scanning /\ dir.needsUpdate THEN Rescan(dir, next) ELSE dir
  <2>1. /\ Fit(d) /\ d.users = dir.users /\ d.loaded = dir.loaded
        /\ NamesTrue(dir, dirty) => NamesTrue(d, dirty)
    BY <1>2, RescanFit
  <2>2. dir' = [d EXCEPT !.timer = d.scanning] /\ dirty' = dirty /\ event' = event /\ dir.timer
    BY <1>5 DEF RescanTimeout
  <2> HIDE DEF d
  <2>3. SameItems(d, dir') /\ SameRest(d, dir') /\ dir'.needsUpdate = d.needsUpdate
    BY <2>1, <2>2 DEF Fit, DirInv, DirectoryType, SameItems, SameRest
  <2>4. Held(dir') /\ Waiting(dir') /\ (HasNames(d) => HasNames(dir')) /\ dir'.users = d.users
    BY <2>1, <2>3, SameItemsKeep DEF Fit
  <2>5. NamesTrue(d, dirty) => NamesTrue(dir', dirty')
    BY <2>2, <2>3, <2>4 DEF NamesTrue, Behind, SameRest
  <2>6. NamesTrue(dir, dirty) => NamesTrue(dir, dirty)'
    BY <1>1, <2>1, <2>5, NamesTruePrime
  <2> QED BY <1>1, <2>1, <2>2, <2>3, <2>4, <2>6 DEF NamesInv, SameRest
<1>6. ASSUME NEW next \in Leaf, RecheckCallback(next) PROVE NamesInv'
  <2> DEFINE d == RecheckOne(dir, next)
  <2>1. /\ dir.idle /\ dirty' = dirty /\ event' = event
        /\ dir' = IF ~d.scanning /\ d.needsUpdate THEN Rescan(d, next) ELSE d
    BY <1>6 DEF RecheckCallback
  <2>2. dir.scanning /\ dir.recheck # {} /\ dir.users # {} /\ IndicatorsBut(dir, {})
    BY <1>2, <2>1 DEF Fit, DirInv, ScanInv
  <2>3. Keeps(dir, d)
    BY <1>2, <2>2, RecheckOneKeeps DEF FsTyped
  <2>4. d \in DirectoryType /\ SameDebt(dir, d) /\ IndicatorsBut(d, {})
    BY <1>2, <2>1, <2>2, RecheckOneLemma DEF FsTyped
  <2> HIDE DEF d
  <2>5. dir.loaded /\ d.loaded /\ Held(d) /\ Waiting(d) /\ d.users = dir.users
    BY <2>2, <2>3 DEF NamesInv, Keeps, SameRest
  <2>6. CASE ~d.scanning /\ d.needsUpdate
    <3>1. dir' = Rescan(d, next)
      BY <2>1, <2>6
    <3>2. /\ Held(dir') /\ Waiting(dir') /\ dir'.users = d.users /\ dir'.loaded = d.loaded
          /\ NamesTrue(dir', dirty')
      <4>1. /\ dir'.users = d.users /\ dir'.loaded = d.loaded
            /\ Held(d) => Held(dir')
            /\ Waiting(d) => Waiting(dir')
            /\ dirstat = "ok" => HasNames(dir')
            /\ dirstat = "gone" => dir'.closing \/ dir'.error # "none"
            /\ dirstat = "noread" => dir'.error # "none"
        BY <1>2, <2>4, <3>1, RescanNames, Zenon
      <4>2. NamesTrue(dir', dirty')
        BY <1>2, <2>1, <4>1 DEF FsTyped, NamesTrue, Behind
      <4> QED BY <2>5, <4>1, <4>2
    <3>3. NamesTrue(dir, dirty)'
      BY <1>1, <3>2, NamesTruePrime
    <3> QED BY <1>1, <1>2, <2>1, <2>5, <3>2, <3>3 DEF NamesInv
  <2>7. CASE ~(~d.scanning /\ d.needsUpdate)
    <3>1. dir' = d
      BY <2>1, <2>7
    <3>2. NamesTrue(dir, dirty) => NamesTrue(dir', dirty')
      BY <2>1, <2>3, <2>4, <3>1 DEF NamesTrue, Behind, Keeps, SameRest, SameDebt
    <3>3. NamesTrue(dir, dirty) => NamesTrue(dir, dirty)'
      BY <1>1, <3>2, NamesTruePrime
    <3> QED BY <1>1, <1>2, <2>1, <2>5, <3>1, <3>3 DEF NamesInv
  <2> QED BY <2>6, <2>7
<1>7. ASSUME NEW next \in Leaf, CloseRecursive(next) PROVE NamesInv'
  <2> DEFINE d == Destroy(dir, dir.users, next)
  <2>1. dir.users \in SUBSET Window
    BY <1>2 DEF DirectoryType
  <2>2. /\ Fit(d) /\ d.users = {} /\ d.loaded = dir.loaded
        /\ NamesTrue(dir, FALSE) => NamesTrue(d, FALSE)
        /\ event => d.missed
    <3>1. Fit(d)
      BY <1>2, <2>1, DestroyFit
    <3>2. d.users = dir.users \ dir.users
      BY <1>2, <2>1, DestroyFit
    <3>3. d.loaded = dir.loaded
      BY <1>2, <2>1, DestroyFit
    <3>4. NamesTrue(dir, FALSE) => NamesTrue(d, FALSE)
      BY <1>2, <2>1, DestroyFit
    <3>5. event /\ dir.users \subseteq dir.users => d.missed
      BY <1>2, <2>1, DestroyFit
    <3> QED BY <3>1, <3>2, <3>3, <3>4, <3>5
  <2>3. dir' = [d EXCEPT !.closing = FALSE] /\ event' = FALSE /\ dirty' = dirty
    BY <1>7 DEF CloseRecursive
  <2>4. d.needsUpdate = dir.needsUpdate /\ d.timer = dir.timer
    BY <1>2, <2>1, DestroyDebt DEF FsTyped, Fit
  <2> HIDE DEF d
  <2>5. /\ SameItems(d, dir') /\ dir'.loaded = d.loaded /\ dir'.missed = d.missed
        /\ dir'.error = d.error /\ dir'.needsUpdate = d.needsUpdate /\ dir'.timer = d.timer
    BY <2>2, <2>3 DEF Fit, DirInv, DirectoryType, SameItems
  <2>6. Held(dir') /\ Waiting(dir') /\ (HasNames(d) => HasNames(dir')) /\ dir'.users = {}
    BY <2>2, <2>5, SameItemsKeep DEF Fit
  <2>7. event \/ NamesTrue(dir, FALSE) => NamesTrue(dir', dirty')
    BY <2>2, <2>3, <2>5, <2>6 DEF NamesTrue, Behind
  <2>8. (dirty /\ dir.users = {})' \/ NamesTrue(dir, dirty)'
    BY <1>1, <2>3, <2>6, <2>7, NamesTruePrime DEF NamesInv, NamesTrue
  <2> QED BY <1>1, <2>2, <2>3, <2>4, <2>5, <2>6, <2>8 DEF NamesInv
<1> QED BY <1>3, <1>4, <1>5, <1>6, <1>7 DEF MainLoop

LEMMA SameButNames ==
    ASSUME NEW d, NEW e, NEW w, SameBut(d, e, w), Waiting(d), Held(d), d.users \subseteq Window
    PROVE  /\ Waiting(e) /\ SeenBut(e, {w}) /\ e.users = d.users /\ e.loaded = d.loaded
           /\ NamesTrue(d, dirty) => NamesTrue(e, dirty)
<1>1. Waiting(e) /\ (HasNames(d) => HasNames(e))
  BY DEF SameBut, Waiting, HasNames
<1>2. \A x : InView(e, x) = InView(d, x)
  BY DEF SameBut, InView
<1>3. ASSUME NEW x \in d.users, x # w PROVE Seen(e, x)
  <2>1. x \in Window /\ Seen(d, x)
    BY DEF Held, SeenBut
  <2> QED BY <1>2, <1>3, <2>1 DEF SameBut, Seen, Lets
<1>4. SeenBut(e, {w})
  BY <1>2, <1>3 DEF SameBut, Held, SeenBut
<1> QED BY <1>1, <1>4 DEF SameBut, SameRest, NamesTrue, Behind

LEMMA UserNames ==
    ASSUME NamesInv, User PROVE NamesInv'
<1>1. IInv'
  BY UserStep DEF NamesInv
<1>2. /\ FsTyped /\ Fit(dir) /\ dir \in DirectoryType /\ (dirstat = "gone" => dirty)
      /\ ~dir.loaded => dir.needsUpdate
  BY FitNow DEF NamesInv, Fit, DirInv
<1>3. ASSUME NEW w \in Window, NEW next \in Leaf, OpenDir(w, next) PROVE NamesInv'
  <2> DEFINE d == Lookup(dir, next)
             e == Attach(d, w, next)
  <2>1. /\ w \notin dir.users /\ dirstat # "gone" /\ dir' = e /\ dirty' = FALSE
        /\ UNCHANGED <<disk, dirstat, event>>
    BY <1>3 DEF OpenDir
  <2>2. /\ Fit(d) /\ d.users = dir.users /\ d.loaded
        /\ dirty \/ NamesTrue(dir, FALSE) => NamesTrue(d, FALSE)
    BY <1>2, <2>1, LookupFit
  <2> HIDE DEF d
  <2>3. Fit(e) /\ e.loaded /\ (NamesTrue(d, FALSE) => NamesTrue(e, FALSE))
    BY <1>2, <2>1, <2>2, AttachFit
  <2> HIDE DEF e
  <2>4. event \/ NamesTrue(d, FALSE)
    BY <2>2 DEF NamesInv, NamesTrue
  <2>5. event \/ NamesTrue(dir', dirty')
    BY <2>1, <2>3, <2>4
  <2>6. event \/ NamesTrue(dir, dirty)'
    BY <2>1, <2>5, NamesTruePrime
  <2> QED BY <1>1, <2>1, <2>3, <2>6 DEF NamesInv, Fit
<1>4. ASSUME NEW w \in Window, NEW next \in Leaf, dir' = Destroy(dir, {w}, next), w \in dir.users,
             event' = (event /\ dir.users # {w}), UNCHANGED <<disk, dirstat, dirty>>
      PROVE  NamesInv'
  <2> DEFINE e == Destroy(dir, {w}, next)
  <2>1. /\ Fit(e) /\ e.users = dir.users \ {w} /\ e.loaded = dir.loaded
        /\ NamesTrue(dir, dirty) => NamesTrue(e, dirty)
        /\ event /\ dir.users \subseteq {w} => e.missed
    <3>0. {w} \in SUBSET Window
      OBVIOUS
    <3>1. Fit(e)
      BY <1>2, <3>0, DestroyFit
    <3>2. e.users = dir.users \ {w}
      BY <1>2, <3>0, DestroyUsers DEF Fit, FsTyped
    <3>3. e.loaded = dir.loaded
      BY <1>2, <3>0, DestroyFit
    <3>4. NamesTrue(dir, dirty) => NamesTrue(e, dirty)
      BY <1>2, <3>0, DestroyFit
    <3>5. event /\ dir.users \subseteq {w} => e.missed
      BY <1>2, <3>0, DestroyFit
    <3> QED BY <3>1, <3>2, <3>3, <3>4, <3>5
  <2>2. e = dir'
    BY <1>4
  <2> HIDE DEF e
  <2>3. event' \/ NamesTrue(dir', dirty') \/ (dirty' /\ dir'.users = {})
    BY <1>4, <2>1, <2>2 DEF NamesInv, NamesTrue, Behind
  <2>4. (event \/ NamesTrue(dir, dirty) \/ (dirty /\ dir.users = {}))'
    BY <1>4, <2>3, NamesTruePrime
  <2> QED BY <1>1, <1>4, <2>1, <2>2, <2>4 DEF NamesInv, Fit
<1>5. ASSUME NEW w \in Window, NEW next \in Leaf, CloseWindow(w, next) PROVE NamesInv'
  BY <1>4, <1>5 DEF CloseWindow
<1>6. ASSUME NEW w \in dir.users, NEW next \in Leaf, NEW d, dir' = Attach(Detach(d, {w}, next), w, next),
             DirInv(d), Waiting(d), SeenBut(d, {w}), d.users = dir.users, d.loaded = dir.loaded,
             NamesTrue(dir, dirty) => NamesTrue(d, dirty),
             event' = (event /\ dir.users # {w}), UNCHANGED <<disk, dirstat, dirty>>
      PROVE  NamesInv'
  <2> DEFINE x == Detach(d, {w}, next)
             e == Attach(x, w, next)
  <2>1. w \in Window
    BY <1>2 DEF DirectoryType
  <2>2. /\ Fit(x) /\ x.users = dir.users \ {w} /\ x.loaded = dir.loaded
        /\ NamesTrue(d, dirty) => NamesTrue(x, dirty)
        /\ event /\ dir.users \subseteq {w} => x.missed
    <3>1. PICK W \in SUBSET Window : W = {w}
      BY <2>1
    <3>2. PICK y : y = Detach(d, W, next)
      OBVIOUS
    <3>3. FsTyped /\ DirInv(d) /\ Waiting(d) /\ SeenBut(d, W)
      BY <1>2, <1>6, <3>1
    <3>4. /\ Fit(y) /\ y.users = d.users \ W /\ y.loaded = d.loaded
          /\ NamesTrue(d, dirty) => NamesTrue(y, dirty)
          /\ event /\ d.users \subseteq W => y.missed
      BY <3>2, <3>3, DetachFit
    <3> QED BY <1>6, <3>1, <3>2, <3>4
  <2> HIDE DEF x
  <2>3. Fit(e) /\ e.loaded = dir.loaded /\ (NamesTrue(x, dirty) => NamesTrue(e, dirty))
    BY <1>2, <2>1, <2>2, AttachFit
  <2>4. e = dir'
    BY <1>6 DEF x
  <2> HIDE DEF e
  <2>5. event' \/ NamesTrue(dir', dirty')
    BY <1>6, <2>2, <2>3, <2>4 DEF NamesInv, NamesTrue, Behind
  <2>6. event' \/ NamesTrue(dir, dirty)'
    BY <1>6, <2>5, NamesTruePrime
  <2>7. dir.loaded
    BY DEF NamesInv
  <2> QED BY <1>1, <1>6, <2>3, <2>4, <2>6, <2>7 DEF NamesInv, Fit
<1>7. ASSUME NEW w \in Window, NEW next \in Leaf, SetHidden(w, next) PROVE NamesInv'
  <2> DEFINE d == [dir EXCEPT !.showHidden[w] = ~@]
  <2>1. /\ w \in dir.users /\ dir' = Attach(Detach(d, {w}, next), w, next)
        /\ event' = (event /\ dir.users # {w}) /\ UNCHANGED <<disk, dirstat, dirty>>
    BY <1>7 DEF SetHidden
  <2>2. DirInv(d)
    BY <1>2 DEF Fit, DirInv, DirectoryType, ScanInv, IndicatorsBut, NotifyInv, Pending, Owed
  <2>3. SameBut(dir, d, w)
    BY <1>2 DEF DirectoryType, SameBut, SameRest
  <2> HIDE DEF d
  <2>4. dir.users \subseteq Window
    BY <1>2 DEF DirectoryType
  <2>5. /\ Waiting(d) /\ SeenBut(d, {w}) /\ d.users = dir.users /\ d.loaded = dir.loaded
        /\ NamesTrue(dir, dirty) => NamesTrue(d, dirty)
    BY <1>2, <2>3, <2>4, SameButNames DEF Fit
  <2> QED BY <1>6, <2>1, <2>2, <2>5
<1>8. ASSUME NEW w \in Window, NEW next \in Leaf, SetTypes(w, next) PROVE NamesInv'
  <2>1. PICK only \in (TypeFilters \cup {"all"}) \ {dir.only[w]} :
             dir' = Attach(Detach([dir EXCEPT !.only[w] = only], {w}, next), w, next)
    BY <1>8 DEF SetTypes
  <2> DEFINE d == [dir EXCEPT !.only[w] = only]
  <2>2. /\ w \in dir.users /\ dir' = Attach(Detach(d, {w}, next), w, next)
        /\ event' = (event /\ dir.users # {w}) /\ UNCHANGED <<disk, dirstat, dirty>>
    BY <1>8, <2>1 DEF SetTypes
  <2>3. DirInv(d)
    BY <1>2 DEF Fit, DirInv, DirectoryType, ScanInv, IndicatorsBut, NotifyInv, Pending, Owed
  <2>4. SameBut(dir, d, w)
    BY <1>2 DEF DirectoryType, SameBut, SameRest
  <2> HIDE DEF d
  <2>5. dir.users \subseteq Window
    BY <1>2 DEF DirectoryType
  <2>6. /\ Waiting(d) /\ SeenBut(d, {w}) /\ d.users = dir.users /\ d.loaded = dir.loaded
        /\ NamesTrue(dir, dirty) => NamesTrue(d, dirty)
    BY <1>2, <2>4, <2>5, SameButNames DEF Fit
  <2> QED BY <1>6, <2>2, <2>3, <2>6
<1>9. ASSUME NEW w \in Window, NEW next \in Leaf, NEW warning \in BOOLEAN,
             UpdateDir(w, warning, next)
      PROVE  NamesInv'
  <2>1. w \in dir.users /\ UNCHANGED <<disk, dirstat>>
    BY <1>9 DEF UpdateDir
  <2>2. CASE dirstat = "gone" /\ ~warning
    <3> DEFINE e == Destroy(dir, {w}, next)
    <3>1. dir' = e /\ event' = (event /\ dir'.users # {}) /\ dirty' = dirty
      BY <1>9, <2>2 DEF UpdateDir
    <3>2. e.users = dir.users \ {w}
      BY <1>2, <2>1, DestroyUsers DEF Fit, FsTyped, DirInv, DirectoryType
    <3>3. event' = (event /\ dir.users # {w})
      BY <2>1, <3>1, <3>2
    <3> QED BY <1>4, <2>1, <3>1, <3>3
  <2>3. CASE dirstat = "gone" /\ warning
    <3>1. dir' = dir /\ dirty' = dirty /\ event' = (event /\ dir'.users # {})
      BY <1>9, <2>3 DEF UpdateDir
    <3>2. event' = event
      BY <1>2, <2>1, <3>1 DEF FsTyped
    <3>3. NamesTrue(dir, dirty) => NamesTrue(dir, dirty)'
      BY <2>1, <3>1, NamesTruePrime
    <3> QED BY <1>1, <2>1, <3>1, <3>2, <3>3 DEF NamesInv
  <2>4. CASE dirstat # "gone"
    <3> DEFINE d == Lookup(dir, next)
               e == Update(d, next)
    <3>1. dir' = e /\ dirty' = FALSE /\ event' = event
      BY <1>9, <2>4 DEF UpdateDir
    <3>2. Fit(d) /\ d.loaded
      BY <1>2, <2>4, LookupFit
    <3> HIDE DEF d
    <3>3. Fit(e) /\ e.loaded /\ NamesTrue(e, FALSE)
      BY <1>2, <2>4, <3>2, UpdateFit
    <3> HIDE DEF e
    <3>4. NamesTrue(dir, dirty)'
      BY <2>1, <3>1, <3>3, NamesTruePrime
    <3> QED BY <1>1, <2>1, <2>4, <3>1, <3>3, <3>4 DEF NamesInv, Fit
  <2> QED BY <2>2, <2>3, <2>4
<1>10. ASSUME NEW next \in Leaf, RefreshDirs(next) PROVE NamesInv'
  <2> DEFINE e == Update(dir, next)
  <2>1. /\ dir.loaded /\ dirstat # "gone" /\ dir' = e /\ dirty' = FALSE
        /\ UNCHANGED <<disk, dirstat, event>>
    BY <1>10 DEF RefreshDirs
  <2>2. Fit(e) /\ e.loaded = dir.loaded /\ NamesTrue(e, FALSE)
    BY <1>2, <2>1, UpdateFit
  <2> HIDE DEF e
  <2>3. NamesTrue(dir, dirty)'
    BY <2>1, <2>2, NamesTruePrime
  <2> QED BY <1>1, <2>1, <2>2, <2>3 DEF NamesInv, Fit
<1>11. ASSUME NEW d, d \in DirectoryType, Keeps(dir, d), SameScan(dir, d), dir' = d,
              UNCHANGED <<dirty, event, disk, dirstat>>
       PROVE  NamesInv'
  <2>1. Held(d) /\ Waiting(d) /\ d.users = dir.users /\ d.loaded = dir.loaded
    BY <1>11 DEF NamesInv, Keeps, SameRest
  <2>2. NamesTrue(dir, dirty) => NamesTrue(d, dirty)
    BY <1>11 DEF NamesTrue, Behind, Keeps, SameRest, SameScan
  <2>3. NamesTrue(dir, dirty) => NamesTrue(dir, dirty)'
    BY <1>11, <2>2, NamesTruePrime
  <2> QED BY <1>1, <1>11, <2>1, <2>3 DEF NamesInv, SameScan
<1>12. ASSUME NEW l \in Leaf, CheckThis(l) PROVE NamesInv'
  <2> DEFINE d == InsertItem(dir, l)
  <2>1. dir' = d /\ UNCHANGED <<dirty, event, disk, dirstat>>
    BY <1>12 DEF CheckThis
  <2>2. d \in DirectoryType /\ Keeps(dir, d) /\ SameScan(dir, d)
    BY <1>2, InsertItemType, InsertItemControl, InsertItemKeeps DEF FsTyped
  <2> HIDE DEF d
  <2> QED BY <1>11, <2>1, <2>2
<1>13. ASSUME NEW l \in Leaf, UpdateItem(l) PROVE NamesInv'
  <2> DEFINE d == InsertItem(dir, l)
             m == MergeNew(d)
  <2>1. dir' = m /\ UNCHANGED <<dirty, event, disk, dirstat>>
    BY <1>13 DEF UpdateItem
  <2>2. d \in DirectoryType /\ Keeps(dir, d) /\ SameScan(dir, d)
    BY <1>2, InsertItemType, InsertItemControl, InsertItemKeeps DEF FsTyped
  <2> HIDE DEF d
  <2>3. m \in DirectoryType /\ Keeps(d, m) /\ SameScan(d, m)
    BY <2>2, MergeNewType, MergeNewControl, MergeNewKeeps
  <2> HIDE DEF m
  <2>4. Keeps(dir, m) /\ SameScan(dir, m)
    BY <2>2, <2>3, KeepsTransitive DEF SameScan
  <2> QED BY <1>11, <2>1, <2>3, <2>4
<1>14. ASSUME NEW l \in Leaf, ForceUpdate(l) PROVE NamesInv'
  <2>1. /\ dir' = [dir EXCEPT !.view = Tell(dir, dir.users, {}, {i \in dir.known : NameOf(i) = l}, {})]
        /\ UNCHANGED <<dirty, event, disk, dirstat>>
    BY <1>14 DEF ForceUpdate
  <2> DEFINE told == Tell(dir, dir.users, {}, {i \in dir.known : NameOf(i) = l}, {})
  <2>2. Held(dir') /\ dir'.users = dir.users
    BY <1>2, <2>1, RedrawKeeps DEF Fit
  <2>3. dir' = [dir EXCEPT !.view = told]
    BY <2>1
  <2> HIDE DEF told
  <2>4. /\ dir'.known = dir.known /\ dir'.new = dir.new /\ dir'.up = dir.up /\ dir'.gone = dir.gone
        /\ dir'.needsUpdate = dir.needsUpdate /\ dir'.timer = dir.timer /\ SameRest(dir, dir')
    BY <1>2, <2>3 DEF DirectoryType, SameRest
  <2>5. NamesTrue(dir, dirty) => NamesTrue(dir', dirty')
    BY <2>1, <2>4 DEF NamesTrue, Behind, HasNames, SameRest
  <2>6. NamesTrue(dir, dirty) => NamesTrue(dir, dirty)'
    BY <2>1, <2>5, NamesTruePrime
  <2> QED BY <1>1, <2>1, <2>2, <2>4, <2>6 DEF NamesInv, Waiting, SameRest
<1>15. Reported \subseteq Leaf
  BY ConstantsAssumption
<1> QED BY <1>3, <1>5, <1>7, <1>8, <1>9, <1>10, <1>12, <1>13, <1>14, <1>15 DEF User

(* The invariant of the names holds in every reachable state, whatever is *)
(* reported singly, whatever filters the windows have and whether or not *)
(* they are closed when the directory has gone. *)
THEOREM NamesInductive == Spec => []NamesInv
<1>1. NamesInv /\ UNCHANGED vars => NamesInv'
  BY DEF NamesInv, IInv, FsType, vars, NamesTrue, Behind, HasNames, OnDisk
<1>2. NamesInv /\ [Next]_vars => NamesInv'
  BY <1>1, FileSystemNames, MainLoopNames, UserNames DEF Next
<1> QED BY InitNamesInv, <1>2, PTL DEF Spec

(* dir.c, diritem.c: no window, and no list that will be sent to one, holds*)
(* an item that has been freed. *)
THEOREM NothingDangles ==
    ASSUME CloseWhenMissing = TRUE PROVE Spec => []NoDangling
<1>1. NamesInv => NoDangling
  <2> SUFFICES ASSUME NamesInv PROVE NoDangling
    OBVIOUS
  <2>1. dir.users \subseteq Window
    BY DEF NamesInv, IInv, DirInv, DirectoryType
  <2> QED BY <2>1 DEF NoDangling, NamesInv, Waiting, Held, SeenBut, Seen
<1> QED BY <1>1, NamesInductive, PTL

(* dir.c: what a window has drawn of an item is what the Directory holds *)
(* unless an update of it is waiting to be announced, and once there is *)
(* nothing left to do the names it knows are the names on the disk; for *)
(* windows that may filter hidden files but not types. *)
THEOREM NamesAlwaysRight ==
    ASSUME TypeFilters = {} PROVE Spec => []NamesRight
<1>1. NamesInv => SettledNames
  <2> SUFFICES ASSUME NamesInv, Settled PROVE NamesOf(dir.known) = OnDisk
    BY DEF SettledNames
  <2>1. /\ dir.users # {} /\ dir.error = "none" /\ ~dir.missed
        /\ ~dir.scanning /\ ~dir.timer /\ ~dir.notify /\ ~dir.closing /\ ~event
    BY DEF Settled, Quiescent
  <2>2. DirInv(dir)
    BY DEF NamesInv, IInv
  <2>3. ~dir.needsUpdate /\ dir.new = {}
    BY <2>1, <2>2 DEF DirInv, Owed, NotifyInv, Pending
  <2>4. HasNames(dir)
    BY <2>1, <2>3 DEF NamesInv, NamesTrue, Behind
  <2> QED BY <2>3, <2>4 DEF HasNames, NamesOf
<1>2. NamesInv => DrawnOrPending
  <2> SUFFICES ASSUME NamesInv, NEW w \in dir.users, NEW i \in InView(dir, w) \cap dir.known
               PROVE  dir.view[w][i] = dir.details[i] \/ i \in dir.up
    BY DEF DrawnOrPending
  <2>1. w \in Window /\ dir.only[w] = "all"
    BY DEF NamesInv, IInv, DirInv, DirectoryType
  <2>2. Seen(dir, w)
    BY <2>1 DEF NamesInv, Held, SeenBut
  <2> QED BY <2>1, <2>2 DEF Seen
<1> QED BY <1>1, <1>2, NamesInductive, PTL DEF NamesRight
=============================================================================

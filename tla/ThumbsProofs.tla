---------------------------- MODULE ThumbsProofs ----------------------------
(***************************************************************************)
(* Proofs about the thumbnails, for any windows, images, directories and   *)
(* number of children: every queue is served and every reference given     *)
(* back, no image is made twice, and what one window has loaded every      *)
(* window shows; and, at the end, about the bookmarks and the directories  *)
(* visited, for any of them and any length of the list.                    *)
(***************************************************************************)
EXTENDS Thumbs, Bookmarks, SequenceTheorems, FiniteSetTheorems, WellFoundedInduction, TLAPS

--------------------
(* The inductive invariant. *)

KidState == {"none", "forked", "loaded", "dead"}
KidType  == [path : Image \cup {Order[1]}, win : Window \cup {0}, version : Nat, got : Nat,
             state : KidState, lost : BOOLEAN]
EntryType == [known : BOOLEAN, stamp : Nat, image : Nat, leaked : BOOLEAN]
(* A FilerWindow, with whatever queue it has. *)
WinType(w) == w \in [open : BOOLEAN, dir : Dir \cup {DirOf[Order[1]]}, thumbs : BOOLEAN,
                     bar : BOOLEAN, queue : {w.queue}, shown : [Image -> Nat]]

ThumbTypes ==
    /\ file \in [Image -> Nat] /\ seen \in [Image -> Nat]
    /\ scan \in [Dir -> {"unread", "scanning", "known"}]
    /\ thumb \in [Image -> [of : Nat, stamp : Nat]]
    /\ cache \in [Image -> EntryType]
    /\ win = [w \in Window |-> win[w]] /\ \A w \in Window : WinType(win[w])
    /\ idle \in [Window -> Nat] /\ refs \in [Window -> Nat]
    /\ kids \in [Pid -> KidType]
    /\ moves \in Nat /\ events \in Nat

(* A child works on an image for a window, and a window shows a directory. *)
Placed ==
    /\ \A i \in Pid :
          kids[i].state # "none" => kids[i].path \in Image /\ kids[i].win \in Window
    /\ \A w \in Window : win[w].open => win[w].dir \in Dir

(* An entry is never newer than its file, ... *)
StampsPast == \A p \in Image :
    cache[p].known /\ file[p] # 0 => cache[p].stamp <= file[p]

(* ... and no older than what a child is making for it, unless the entry *)
(* went while the child worked. *)
Marked == \A i \in Pid :
    kids[i].state # "none" /\ ~kids[i].lost /\ kids[i].version # 0 =>
        cache[kids[i].path].known /\ cache[kids[i].path].stamp >= kids[i].version

CacheRight == StampsPast /\ Marked /\ OneChild

(* EveryWindowShows, also while the directory is being scanned. *)
ShownAlways == \A w \in Window, p \in Image :
    /\ win[w].open /\ win[w].thumbs /\ win[w].dir = DirOf[p]
    /\ seen[p] # 0 /\ Found(cache, p) /\ cache[p].image # 0
    => win[w].shown[p] = cache[p].image

ThumbInv ==
    /\ ThumbTypes /\ Placed
    /\ CacheRight /\ QueueServed /\ ShownAlways

--------------------
(* What the operators of the windows return. *)

LEMMA DrawnIs ==
    ASSUME NEW c \in [Image -> EntryType], NEW w, WinType(w), NEW p \in Image
    PROVE  Drawn(c, w, p) \in Nat
<1>1. c[p].image \in Nat
  BY DEF EntryType
<1> QED BY <1>1 DEF Drawn

LEMMA RedrawnIs ==
    ASSUME NEW c \in [Image -> EntryType], NEW w, WinType(w), NEW sn \in [Image -> Nat],
           NEW S
    PROVE  LET v == Redrawn(c, w, sn, S) IN
           /\ WinType(v)
           /\ v.open = w.open /\ v.dir = w.dir /\ v.thumbs = w.thumbs /\ v.bar = w.bar
           /\ v.queue = w.queue
           /\ \A p \in Image : v.shown[p] = IF p \notin S THEN w.shown[p]
                                            ELSE IF sn[p] = 0 THEN 0 ELSE Drawn(c, w, p)
<1> DEFINE f == [p \in Image |-> IF p \notin S THEN w.shown[p]
                                 ELSE IF sn[p] = 0 THEN 0 ELSE Drawn(c, w, p)]
<1>1. \A p \in Image : w.shown[p] \in Nat /\ Drawn(c, w, p) \in Nat
  <2>1. w.shown \in [Image -> Nat]
    BY DEF WinType
  <2> QED BY <2>1, DrawnIs
<1>2. f \in [Image -> Nat]
  BY <1>1
<1>3. Redrawn(c, w, sn, S) = [w EXCEPT !.shown = f]
  BY DEF Redrawn
<1>4. \A p \in Image : f[p] = IF p \notin S THEN w.shown[p]
                              ELSE IF sn[p] = 0 THEN 0 ELSE Drawn(c, w, p)
  OBVIOUS
<1> HIDE DEF f
<1> QED BY <1>2, <1>3, <1>4 DEF WinType

LEMMA CreateThumbsIs ==
    ASSUME NEW c, NEW w, WinType(w), NEW sn
    PROVE  LET v == CreateThumbs(c, w, sn) IN
           /\ WinType(v)
           /\ v.open = w.open /\ v.dir = w.dir /\ v.thumbs = w.thumbs /\ v.bar = w.bar
           /\ v.shown = w.shown
<1> DEFINE queue == w.queue \o Wanted(c, w, sn)
<1>1. CreateThumbs(c, w, sn) = IF w.thumbs THEN [w EXCEPT !.queue = queue] ELSE w
  BY DEF CreateThumbs
<1> HIDE DEF queue
<1>2. WinType([w EXCEPT !.queue = queue])
  BY DEF WinType
<1> QED BY <1>1, <1>2 DEF WinType

LEMMA CancelledIs ==
    ASSUME NEW w, WinType(w)
    PROVE  /\ WinType(Cancelled(w))
           /\ Cancelled(w).open = w.open /\ Cancelled(w).dir = w.dir
           /\ Cancelled(w).thumbs = w.thumbs /\ Cancelled(w).shown = w.shown
           /\ ~Cancelled(w).bar /\ Cancelled(w).queue = <<>>
BY DEF Cancelled, WinType

LEMMA ClosedIs ==
    /\ WinType(Closed) /\ ~Closed.open /\ ~Closed.bar /\ Closed.queue = <<>>
<1>1. Nothing \in [Image -> Nat]
  BY DEF Nothing
<1> QED BY <1>1 DEF Closed, WinType

(* A window that attaches shows what the cache has of what it is told. *)
LEMMA AttachedIs ==
    ASSUME ThumbTypes, NEW w, WinType(w)
    PROVE  LET v == Attached(w) IN
           /\ WinType(v)
           /\ v.open = w.open /\ v.dir = w.dir /\ v.thumbs = w.thumbs /\ v.bar = w.bar
           /\ scan[w.dir] # "known" => v.queue = w.queue
           /\ \A p \in Image : seen[p] # 0 => v.shown[p] = Drawn(cache, w, p)
<1> DEFINE u == [w EXCEPT !.shown = Nothing]
           r == Redrawn(cache, u, seen, Image)
<1>1. /\ WinType(u)
      /\ u.open = w.open /\ u.dir = w.dir /\ u.thumbs = w.thumbs /\ u.bar = w.bar
      /\ u.queue = w.queue
  BY DEF Nothing, WinType
<1> HIDE DEF u
<1>2. /\ WinType(r)
      /\ r.open = w.open /\ r.dir = w.dir /\ r.thumbs = w.thumbs /\ r.bar = w.bar
      /\ r.queue = w.queue
      /\ \A p \in Image : seen[p] # 0 => r.shown[p] = Drawn(cache, u, p)
  BY <1>1, RedrawnIs DEF ThumbTypes
<1>3. \A p \in Image : Drawn(cache, u, p) = Drawn(cache, w, p)
  BY <1>1 DEF Drawn
<1>4. Attached(w) = IF scan[w.dir] = "known" THEN CreateThumbs(cache, r, seen) ELSE r
  BY DEF Attached, u
<1> HIDE DEF r
<1> QED BY <1>2, <1>3, <1>4, CreateThumbsIs

(* An item that is drawn again in every window that lists it. *)
LEMMA ForceUpdateIs ==
    ASSUME ThumbTypes, NEW c \in [Image -> EntryType], NEW p \in Image,
           NEW ws, ws = [w \in Window |-> ws[w]], \A w \in Window : WinType(ws[w])
    PROVE  LET v == ForceUpdate(ws, c, p) IN
           /\ v = [w \in Window |-> v[w]]
           /\ \A w \in Window :
                /\ WinType(v[w])
                /\ v[w].open = ws[w].open /\ v[w].dir = ws[w].dir
                /\ v[w].thumbs = ws[w].thumbs /\ v[w].bar = ws[w].bar
                /\ v[w].queue = ws[w].queue
                /\ \A q \in Image : q # p => v[w].shown[q] = ws[w].shown[q]
                /\ seen[p] # 0 /\ ws[w].open /\ ws[w].dir = DirOf[p]
                     => v[w].shown[p] = Drawn(c, ws[w], p)
<1>1. CASE seen[p] = 0
  BY <1>1 DEF ForceUpdate
<1>2. CASE seen[p] # 0
  <2> DEFINE Again(w) == [ws[w] EXCEPT !.shown[p] = Drawn(c, ws[w], p)]
  <2>1. ASSUME NEW w \in Window
        PROVE  /\ WinType(Again(w))
               /\ Again(w).open = ws[w].open /\ Again(w).dir = ws[w].dir
               /\ Again(w).thumbs = ws[w].thumbs /\ Again(w).bar = ws[w].bar
               /\ Again(w).queue = ws[w].queue
               /\ \A q \in Image : q # p => Again(w).shown[q] = ws[w].shown[q]
               /\ Again(w).shown[p] = Drawn(c, ws[w], p)
    <3>1. Drawn(c, ws[w], p) \in Nat
      BY DrawnIs
    <3> DEFINE n == Drawn(c, ws[w], p)
    <3> HIDE DEF n
    <3>2. WinType(ws[w])
      OBVIOUS
    <3>3. [ws[w].shown EXCEPT ![p] = n] \in [Image -> Nat]
      BY <3>1, <3>2 DEF n, WinType
    <3> DEFINE f == [ws[w].shown EXCEPT ![p] = n]
    <3>4. Again(w) = [ws[w] EXCEPT !.shown = f]
      BY DEF n
    <3>5. f[p] = n /\ \A q \in Image : q # p => f[q] = ws[w].shown[q]
      BY <3>2 DEF WinType
    <3> HIDE DEF f, Again
    <3> QED BY <3>2, <3>3, <3>4, <3>5 DEF WinType, f, n
  <2>2. ForceUpdate(ws, c, p) = [w \in Window |-> IF ws[w].open /\ ws[w].dir = DirOf[p]
                                                  THEN Again(w) ELSE ws[w]]
    BY <1>2 DEF ForceUpdate
  <2> HIDE DEF Again
  <2> QED BY <2>1, <2>2
<1> QED BY <1>1, <1>2

(* Only the one entry changes, and neither what it is nor when it was made.*)
LEMMA InsertOldIs ==
    ASSUME ThumbTypes, NEW p \in Image, NEW n \in Nat
    PROVE  LET c == InsertOld(cache, p, n) IN
           /\ c \in [Image -> EntryType]
           /\ \A q \in Image : q # p => c[q] = cache[q]
           /\ c[p].known = cache[p].known /\ c[p].stamp = cache[p].stamp
<1> DEFINE e == [cache[p] EXCEPT !.image = n, !.leaked = FALSE]
<1>1. cache[p] \in EntryType
  BY DEF ThumbTypes
<1>2. e \in EntryType /\ e.known = cache[p].known /\ e.stamp = cache[p].stamp
  BY <1>1 DEF EntryType
<1>3. InsertOld(cache, p, n) = IF file[p] = 0 \/ ~cache[p].known THEN cache
                               ELSE [cache EXCEPT ![p] = e]
  <2>1. [cache EXCEPT ![p].image = n, ![p].leaked = FALSE] = [cache EXCEPT ![p] = e]
    BY <1>1 DEF ThumbTypes, EntryType
  <2> QED BY <2>1 DEF InsertOld
<1> HIDE DEF e
<1> QED BY <1>2, <1>3 DEF ThumbTypes

LEMMA TakenIs ==
    ASSUME ThumbTypes, NEW w \in Window
    PROVE  /\ Taken(w) = [u \in Window |-> Taken(w)[u]]
           /\ \A u \in Window :
                /\ WinType(Taken(w)[u])
                /\ Taken(w)[u].open = win[u].open /\ Taken(w)[u].dir = win[u].dir
                /\ Taken(w)[u].thumbs = win[u].thumbs /\ Taken(w)[u].bar = win[u].bar
                /\ Taken(w)[u].shown = win[u].shown
                /\ u # w => Taken(w)[u].queue = win[u].queue
<1> DEFINE x == [win[w] EXCEPT !.queue = Tail(win[w].queue)]
<1>1. Taken(w) = [win EXCEPT ![w] = x]
  BY DEF Taken
<1>2. WinType(win[w])
  BY DEF ThumbTypes
<1>3. /\ WinType(x) /\ x.open = win[w].open /\ x.dir = win[w].dir
      /\ x.thumbs = win[w].thumbs /\ x.bar = win[w].bar /\ x.shown = win[w].shown
  BY <1>2 DEF WinType
<1> HIDE DEF x
<1> QED BY <1>1, <1>3 DEF ThumbTypes

(* What start_thumb_scanning leaves of the windows. *)
LEMMA StartIs ==
    ASSUME NEW ws, \A w \in Window : WinType(ws[w]), NEW S, StartThumbs(ws, S)
    PROVE  /\ win' = [w \in Window |-> win'[w]]
           /\ \A w \in Window :
                /\ WinType(win'[w])
                /\ win'[w].open = ws[w].open /\ win'[w].dir = ws[w].dir
                /\ win'[w].thumbs = ws[w].thumbs /\ win'[w].shown = ws[w].shown
                /\ win'[w].queue = ws[w].queue
                /\ win'[w].bar = (ws[w].bar \/ (w \in S /\ ws[w].queue # <<>>))
<1>1. win' = [w \in Window |-> IF w \in S /\ Starts(ws, w)
                               THEN [ws[w] EXCEPT !.bar = TRUE] ELSE ws[w]]
  BY DEF StartThumbs
<1>2. ASSUME NEW w \in Window
      PROVE  LET x == [ws[w] EXCEPT !.bar = TRUE] IN
             /\ WinType(x) /\ x.open = ws[w].open /\ x.dir = ws[w].dir
             /\ x.thumbs = ws[w].thumbs /\ x.shown = ws[w].shown
             /\ x.queue = ws[w].queue /\ x.bar
             /\ ws[w].bar \in BOOLEAN /\ x.bar \in BOOLEAN
  BY DEF WinType
<1> DEFINE X(w) == [ws[w] EXCEPT !.bar = TRUE]
<1>3. \A w \in Window : win'[w] = IF w \in S /\ Starts(ws, w) THEN X(w) ELSE ws[w]
  BY <1>1
<1>4. win' = [w \in Window |-> win'[w]]
  BY <1>1
<1>5. \A w \in Window :
             /\ WinType(X(w)) /\ X(w).open = ws[w].open /\ X(w).dir = ws[w].dir
             /\ X(w).thumbs = ws[w].thumbs /\ X(w).shown = ws[w].shown
             /\ X(w).queue = ws[w].queue /\ X(w).bar = TRUE
             /\ ws[w].bar \in BOOLEAN
  BY <1>2
<1> HIDE DEF X
<1>6. ASSUME NEW w \in Window
      PROVE  /\ WinType(win'[w])
             /\ win'[w].open = ws[w].open /\ win'[w].dir = ws[w].dir
             /\ win'[w].thumbs = ws[w].thumbs /\ win'[w].shown = ws[w].shown
             /\ win'[w].queue = ws[w].queue
             /\ win'[w].bar = (ws[w].bar \/ (w \in S /\ ws[w].queue # <<>>))
  <2>1. CASE w \in S /\ Starts(ws, w)
    <3>1. win'[w] = X(w)
      BY <1>3, <2>1
    <3> QED BY <1>5, <2>1, <3>1, Zenon DEF Starts
  <2>2. CASE ~(w \in S /\ Starts(ws, w))
    <3>1. win'[w] = ws[w]
      BY <1>3, <2>2
    <3>2. ws[w].bar = (ws[w].bar \/ (w \in S /\ ws[w].queue # <<>>))
      BY <1>5, <2>2, Zenon DEF Starts
    <3> QED BY <3>1, <3>2
  <2> QED BY <2>1, <2>2
<1> QED BY <1>4, <1>6

--------------------
(* The children. *)

(* fork gives the first number that is free. *)
LEMMA FirstFree ==
    ASSUME Free # {}
    PROVE  (CHOOSE i \in Free : \A j \in Free : i <= j) \in Free
<1>1. Free \subseteq Nat /\ Free \in SUBSET Int
  BY ThumbsAssumption DEF Free, Pid
<1>2. PICK i \in Free : \A j \in Free : ~ (<<j, i>> \in OpToRel(<, Nat))
  BY <1>1, WFMin, NatLessThanWellFounded, Zenon
<1>3. \A j \in Free : ~ (j < i)
  BY <1>1, <1>2 DEF OpToRel
<1>4. \A j \in Free : i <= j
  BY <1>1, <1>3
<1> QED BY <1>4

(* The children that work for a window are counted. *)
LEMMA ChildrenCounted ==
    ASSUME NEW w
    PROVE  /\ IsFiniteSet(ChildrenOf(w)) /\ Cardinality(ChildrenOf(w)) \in Nat
           /\ Cardinality(ChildrenOf(w)) = 0 <=> ChildrenOf(w) = {}
<1>1. IsFiniteSet(Pid)
  BY FS_Interval, ThumbsAssumption DEF Pid
<1>2. ChildrenOf(w) \in SUBSET Pid
  BY DEF ChildrenOf
<1>3. IsFiniteSet(ChildrenOf(w))
  BY <1>1, <1>2, FS_Subset
<1> QED BY <1>3, FS_CardinalityType, FS_EmptySet

(* They are the same as long as the children work for the same windows. *)
LEMMA ChildrenKept ==
    ASSUME \A i \in Pid : kids'[i].win = kids[i].win
                          /\ (kids'[i].state = "none" <=> kids[i].state = "none"),
           NEW w
    PROVE  ChildrenOf(w)' = ChildrenOf(w)
BY DEF ChildrenOf

LEMMA ChildStarted ==
    ASSUME NEW i \in Pid, NEW w \in Window, kids[i].state = "none",
           kids'[i].win = w, kids'[i].state # "none",
           \A j \in Pid : j # i => kids'[j] = kids[j]
    PROVE  /\ Cardinality(ChildrenOf(w)') = Cardinality(ChildrenOf(w)) + 1
           /\ ChildrenOf(w)' # {}
           /\ \A u \in Window : u # w => ChildrenOf(u)' = ChildrenOf(u)
<1>1. ChildrenOf(w)' = ChildrenOf(w) \cup {i} /\ i \notin ChildrenOf(w)
  BY DEF ChildrenOf
<1>2. \A u \in Window : u # w => ChildrenOf(u)' = ChildrenOf(u)
  BY DEF ChildrenOf
<1>3. IsFiniteSet(ChildrenOf(w))
  BY ChildrenCounted
<1>4. Cardinality(ChildrenOf(w) \cup {i}) = Cardinality(ChildrenOf(w)) + 1
  BY <1>1, <1>3, FS_AddElement
<1> QED BY <1>1, <1>2, <1>4

LEMMA ChildEnded ==
    ASSUME NEW i \in Pid, NEW w \in Window, kids[i].state # "none", kids[i].win = w,
           kids'[i].state = "none",
           \A j \in Pid : j # i => kids'[j] = kids[j]
    PROVE  /\ Cardinality(ChildrenOf(w)') = Cardinality(ChildrenOf(w)) - 1
           /\ \A u \in Window : u # w => ChildrenOf(u)' = ChildrenOf(u)
<1>1. ChildrenOf(w)' = ChildrenOf(w) \ {i} /\ i \in ChildrenOf(w)
  BY DEF ChildrenOf
<1>2. \A u \in Window : u # w => ChildrenOf(u)' = ChildrenOf(u)
  BY DEF ChildrenOf
<1>3. IsFiniteSet(ChildrenOf(w))
  BY ChildrenCounted
<1>4. Cardinality(ChildrenOf(w) \ {i}) = Cardinality(ChildrenOf(w)) - 1
  BY <1>1, <1>3, FS_RemoveElement
<1> QED BY <1>1, <1>2, <1>4

--------------------
(* What keeps the parts of the invariant. *)

(* Entries get younger, and children stay what they are until they end. *)
LEMMA CacheRightKept ==
    ASSUME ThumbTypes, Placed, CacheRight, ThumbTypes', file' = file,
           \A p \in Image : cache[p].known =>
               cache'[p].known /\ cache'[p].stamp >= cache[p].stamp,
           \A p \in Image : cache'[p].known /\ file[p] # 0 => cache'[p].stamp <= file[p],
           \A i \in Pid : kids'[i].state # "none" =>
               /\ kids[i].state # "none" /\ kids'[i].path = kids[i].path
               /\ kids'[i].version = kids[i].version /\ kids'[i].lost = kids[i].lost
    PROVE  CacheRight'
<1>1. StampsPast'
  BY DEF StampsPast
<1>2. Marked'
  <2> SUFFICES ASSUME NEW i \in Pid, kids'[i].state # "none", ~kids'[i].lost,
                      kids'[i].version # 0
               PROVE  cache'[kids'[i].path].known
                      /\ cache'[kids'[i].path].stamp >= kids'[i].version
    BY DEF Marked, Pid
  <2>1. cache[kids[i].path].known /\ cache[kids[i].path].stamp >= kids[i].version
        /\ kids[i].path \in Image
    BY DEF CacheRight, Marked, Placed
  <2> DEFINE p == kids[i].path
             v == kids[i].version
  <2>2. p \in Image /\ v \in Nat /\ cache[p].stamp \in Nat /\ cache'[p].stamp \in Nat
    BY <2>1 DEF ThumbTypes, KidType, EntryType
  <2>3. cache'[p].known /\ cache'[p].stamp >= cache[p].stamp
    BY <2>1, <2>2
  <2>4. kids'[i].path = p /\ kids'[i].version = v
    OBVIOUS
  <2>5. cache[p].stamp >= v
    BY <2>1
  <2> HIDE DEF p, v
  <2> QED BY <2>2, <2>3, <2>4, <2>5
<1>3. OneChild'
  BY DEF CacheRight, OneChild, Pid
<1> QED BY <1>1, <1>2, <1>3 DEF CacheRight

(* When the entries of S go, what is being made for them is marked lost. *)
LEMMA ForgottenIs ==
    ASSUME ThumbTypes, Placed, NEW S, Forgotten(S)
    PROVE  /\ cache' \in [Image -> EntryType] /\ kids' \in [Pid -> KidType]
           /\ \A p \in Image : IF p \in S THEN cache'[p] = NoEntry ELSE cache'[p] = cache[p]
           /\ \A i \in Pid :
                 /\ kids'[i].path = kids[i].path /\ kids'[i].win = kids[i].win
                 /\ kids'[i].version = kids[i].version /\ kids'[i].state = kids[i].state
                 /\ kids'[i].lost = (kids[i].lost \/ (kids[i].path \in S /\ kids[i].state # "none"))
<1>1. NoEntry \in EntryType
  BY DEF NoEntry, EntryType
<1>2. cache' \in [Image -> EntryType]
      /\ \A p \in Image : IF p \in S THEN cache'[p] = NoEntry ELSE cache'[p] = cache[p]
  BY <1>1 DEF Forgotten, ThumbTypes
<1> DEFINE L(i) == [kids[i] EXCEPT !.lost = TRUE]
<1>3. ASSUME NEW i \in Pid
      PROVE  /\ L(i) \in KidType /\ L(i).path = kids[i].path /\ L(i).win = kids[i].win
             /\ L(i).version = kids[i].version /\ L(i).state = kids[i].state
             /\ L(i).lost = TRUE /\ kids[i].lost \in BOOLEAN /\ kids[i] \in KidType
  BY DEF ThumbTypes, KidType
<1>4. kids' = [i \in Pid |-> IF kids[i].path \in S /\ kids[i].state # "none"
                             THEN L(i) ELSE kids[i]]
  BY DEF Forgotten
<1> HIDE DEF L
<1>5. kids' \in [Pid -> KidType]
  BY <1>3, <1>4
<1> QED BY <1>2, <1>3, <1>4, <1>5

(* A chain is started for each window that has a queue and no bar: those *)
(* of S are looked at, and no other needs it. *)
LEMMA QueueServedStart ==
    ASSUME ThumbTypes, QueueServed, kids' = kids,
           NEW ws, \A w \in Window : WinType(ws[w]), NEW S, StartThumbs(ws, S),
           \A w \in Window : ws[w].open /\ ws[w].bar => win[w].open /\ win[w].bar,
           \A w \in Window : /\ ws[w].open /\ ws[w].queue # <<>> /\ ~ws[w].bar
                             /\ ~(scan'[ws[w].dir] # "known")
                             => w \in S
    PROVE  QueueServed'
<1>1. \A w \in Window :
        /\ win'[w].open = ws[w].open /\ win'[w].dir = ws[w].dir
        /\ win'[w].queue = ws[w].queue
        /\ win'[w].bar = (ws[w].bar \/ (w \in S /\ ws[w].queue # <<>>))
  BY StartIs
<1>2. \A w \in Window : ChildrenOf(w)' = ChildrenOf(w)
  BY DEF ChildrenOf
<1>3. \A w \in Window : Cardinality(ChildrenOf(w)) \in Nat
  BY ChildrenCounted
<1> SUFFICES ASSUME NEW w \in Window
             PROVE  /\ win'[w].open /\ win'[w].bar => idle'[w] > 0 \/ ChildrenOf(w)' # {}
                    /\ win'[w].open /\ win'[w].queue # <<>> /\ ~Scanning(w)' => win'[w].bar
                    /\ refs'[w] = idle'[w] + Cardinality(ChildrenOf(w)')
  BY DEF QueueServed
<1>4. /\ idle[w] \in Nat /\ refs[w] \in Nat
      /\ win[w].open /\ win[w].bar => idle[w] > 0 \/ ChildrenOf(w) # {}
      /\ refs[w] = idle[w] + Cardinality(ChildrenOf(w))
  BY DEF ThumbTypes, QueueServed
<1>5. Scanning(w)' = (scan'[ws[w].dir] # "known")
  BY <1>1 DEF Scanning
<1>6. CASE w \in S /\ ws[w].queue # <<>> /\ ~ws[w].bar
  <2>1. idle'[w] = idle[w] + 1 /\ refs'[w] = refs[w] + 1
    BY <1>6 DEF StartThumbs, Starts
  <2>2. win'[w].bar
    BY <1>1, <1>6
  <2>3. idle'[w] > 0 /\ refs'[w] = idle'[w] + Cardinality(ChildrenOf(w))
    BY <1>3, <1>4, <2>1
  <2> QED BY <1>2, <2>2, <2>3
<1>7. CASE ~(w \in S /\ ws[w].queue # <<>> /\ ~ws[w].bar)
  <2>1. idle'[w] = idle[w] /\ refs'[w] = refs[w]
    BY <1>7 DEF StartThumbs, Starts
  <2>2. ws[w].bar \in BOOLEAN
    BY DEF WinType
  <2>3. win'[w].bar = ws[w].bar
    BY <1>1, <1>7, <2>2
  <2> QED BY <1>1, <1>2, <1>3, <1>4, <1>5, <1>7, <2>1, <2>3
<1> QED BY <1>6, <1>7

(* No chain is started or ended, and no queue is filled. *)
LEMMA QueueServedKept ==
    ASSUME ThumbTypes, QueueServed, idle' = idle, refs' = refs,
           \A w \in Window : ChildrenOf(w)' = ChildrenOf(w),
           \A w \in Window : win'[w].open =>
              /\ win[w].open
              /\ win'[w].bar => win[w].bar
              /\ win'[w].queue # <<>> /\ ~Scanning(w)' =>
                   win'[w].bar = win[w].bar /\ win[w].queue # <<>> /\ ~Scanning(w)
    PROVE  QueueServed'
BY DEF QueueServed

(* The windows as they are but for one. *)
LEMMA OneWindowIs ==
    ASSUME ThumbTypes, NEW w \in Window, NEW x, WinType(x)
    PROVE  LET ws == [win EXCEPT ![w] = x] IN
           /\ ws = [u \in Window |-> ws[u]]
           /\ \A u \in Window : WinType(ws[u])
           /\ ws[w] = x /\ \A u \in Window : u # w => ws[u] = win[u]
BY DEF ThumbTypes

(* The types of what StartThumbs writes. *)
LEMMA StartTypes ==
    ASSUME ThumbTypes, NEW ws, \A w \in Window : WinType(ws[w]), NEW S, StartThumbs(ws, S)
    PROVE  /\ idle' \in [Window -> Nat] /\ refs' \in [Window -> Nat]
           /\ win' = [w \in Window |-> win'[w]] /\ \A w \in Window : WinType(win'[w])
<1>1. idle' \in [Window -> Nat] /\ refs' \in [Window -> Nat]
  BY DEF StartThumbs, ThumbTypes
<1> QED BY <1>1, StartIs

(* When the windows attach, or draw what they list again, while the disk *)
(* and the cache stay. *)
LEMMA ShownStart ==
    ASSUME ThumbTypes, ShownAlways, UNCHANGED <<file, seen, cache>>,
           NEW ws, \A u \in Window : WinType(ws[u]), NEW S, StartThumbs(ws, S),
           NEW w \in Window, \A u \in Window : u # w => ws[u] = win[u],
           ws[w].thumbs => \A p \in Image :
               seen[p] # 0 /\ DirOf[p] = ws[w].dir /\ Found(cache, p)
                  => ws[w].shown[p] = cache[p].image
    PROVE  ShownAlways'
<1>1. \A u \in Window :
        /\ win'[u].open = ws[u].open /\ win'[u].dir = ws[u].dir
        /\ win'[u].thumbs = ws[u].thumbs /\ win'[u].shown = ws[u].shown
  BY StartIs
<1>2. \A p \in Image : Found(cache, p)' = Found(cache, p)
  BY DEF Found
<1> SUFFICES ASSUME NEW u \in Window, NEW p \in Image,
                    win'[u].open, win'[u].thumbs, win'[u].dir = DirOf[p],
                    seen'[p] # 0, Found(cache, p)', cache'[p].image # 0
             PROVE  win'[u].shown[p] = cache'[p].image
  BY DEF ShownAlways
<1> QED BY <1>1, <1>2 DEF ShownAlways

--------------------
(* The steps of the user. *)

LEMMA ThumbInitial == ThumbInit => ThumbInv
<1> SUFFICES ASSUME ThumbInit PROVE ThumbInv
  OBVIOUS
<1>1. \A i \in Pid : kids[i] = NoKid
  BY DEF ThumbInit
<1>2. NoKid.state = "none"
  BY DEF NoKid
<1>3. \A w \in Window : win[w] = Closed /\ idle[w] = 0 /\ refs[w] = 0
  BY DEF ThumbInit
<1>4. ThumbTypes
  <2>1. NoKid \in KidType
    BY DEF NoKid, KidType, KidState
  <2>2. NoEntry \in EntryType /\ NoThumb \in [of : Nat, stamp : Nat]
    BY DEF NoEntry, EntryType, NoThumb
  <2>3. kids \in [Pid -> KidType] /\ cache \in [Image -> EntryType]
        /\ thumb \in [Image -> [of : Nat, stamp : Nat]]
    BY <2>1, <2>2 DEF ThumbInit
  <2>4. win = [w \in Window |-> win[w]] /\ \A w \in Window : WinType(win[w])
    BY ClosedIs DEF ThumbInit
  <2>5. idle \in [Window -> Nat] /\ refs \in [Window -> Nat] /\ moves \in Nat /\ events \in Nat
        /\ scan \in [Dir -> {"unread", "scanning", "known"}]
    BY DEF ThumbInit
  <2>6. file \in [Image -> Nat] /\ seen \in [Image -> Nat]
    BY DEF ThumbInit, Nothing
  <2> QED BY <2>3, <2>4, <2>5, <2>6 DEF ThumbTypes
<1>5. Placed /\ ShownAlways
  BY <1>1, <1>2, <1>3, ClosedIs DEF Placed, ShownAlways
<1>6. CacheRight
  <2>1. \A p \in Image : ~cache[p].known
    BY DEF ThumbInit, NoEntry
  <2> QED BY <1>1, <1>2, <2>1 DEF CacheRight, StampsPast, Marked, OneChild
<1>7. QueueServed
  <2>1. ASSUME NEW w \in Window PROVE Cardinality(ChildrenOf(w)) = 0
    <3>1. ChildrenOf(w) = {}
      BY <1>1, <1>2 DEF ChildrenOf
    <3> QED BY <3>1, FS_EmptySet
  <2> QED BY <2>1, <1>3, ClosedIs DEF QueueServed
<1> QED BY <1>4, <1>5, <1>6, <1>7 DEF ThumbInv

(* As long as the files, the cache and the children stay. *)
LEMMA CacheUntouched ==
    ASSUME ThumbInv, UNCHANGED <<file, cache, kids>>
    PROVE  CacheRight' /\ \A w : ChildrenOf(w)' = ChildrenOf(w)
<1>1. CacheRight'
  BY DEF ThumbInv, CacheRight, StampsPast, Marked, OneChild
<1> QED BY <1>1 DEF ChildrenOf

(* One window becomes x, and its thumbnails are looked for if it is in S. *)
LEMMA OneWindowStarts ==
    ASSUME ThumbInv, NEW w \in Window, NEW x, WinType(x), NEW S,
           StartThumbs([win EXCEPT ![w] = x], S),
           moves' \in Nat, NoCacheChange, NoDiskChange,
           x.open => x.dir \in Dir,
           x.open /\ x.bar => win[w].open /\ win[w].bar,
           x.open /\ scan[x.dir] = "known" => w \in S,
           x.thumbs => \A p \in Image :
               seen[p] # 0 /\ DirOf[p] = x.dir /\ Found(cache, p) => x.shown[p] = cache[p].image
    PROVE  ThumbInv'
<1>1. /\ ThumbTypes /\ Placed /\ QueueServed /\ ShownAlways
      /\ UNCHANGED <<file, seen, scan, thumb, cache, kids, events>>
  BY DEF ThumbInv, NoCacheChange, NoDiskChange
<1> DEFINE ws == [win EXCEPT ![w] = x]
<1>2. /\ \A u \in Window : WinType(ws[u])
      /\ ws[w] = x /\ \A u \in Window : u # w => ws[u] = win[u]
  BY <1>1, OneWindowIs
<1>3. StartThumbs(ws, S)
  OBVIOUS
<1> HIDE DEF ws
<1>4. ThumbTypes'
  BY <1>1, <1>2, <1>3, StartTypes DEF ThumbTypes, Pid
<1>5. Placed'
  <2>1. \A u \in Window : win'[u].open = ws[u].open /\ win'[u].dir = ws[u].dir
    BY <1>2, <1>3, StartIs
  <2> QED BY <1>1, <1>2, <2>1 DEF Placed, Pid
<1>6. QueueServed'
  <2>1. \A u \in Window : ws[u].open /\ ws[u].bar => win[u].open /\ win[u].bar
    BY <1>2
  <2>2. \A u \in Window : /\ ws[u].open /\ ws[u].queue # <<>> /\ ~ws[u].bar
                          /\ ~(scan'[ws[u].dir] # "known")
                          => u \in S
    BY <1>1, <1>2 DEF QueueServed, Scanning
  <2> QED BY <1>1, <1>2, <1>3, <2>1, <2>2, QueueServedStart
<1>7. ShownAlways'
  BY <1>1, <1>2, <1>3, ShownStart
<1>8. CacheRight'
  BY <1>1, CacheUntouched
<1> QED BY <1>4, <1>5, <1>6, <1>7, <1>8 DEF ThumbInv

(* What the cache has is drawn. *)
LEMMA DrawnFound ==
    ASSUME NEW c, NEW w, NEW p, w.thumbs, DirOf[p] = w.dir, Found(c, p)
    PROVE  Drawn(c, w, p) = c[p].image
BY DEF Drawn

LEMMA OpenWindowKeeps ==
    ASSUME ThumbInv, NEW w \in Window, NEW d \in Dir, OpenWindow(w, d)
    PROVE  ThumbInv'
<1>1. PICK thumbs \in BOOLEAN :
        StartThumbs([win EXCEPT ![w] = Attached([Closed EXCEPT !.open = TRUE, !.dir = d,
                                                               !.thumbs = thumbs])],
                    IF scan[d] = "known" THEN {w} ELSE {})
  BY DEF OpenWindow
<1> DEFINE o == [Closed EXCEPT !.open = TRUE, !.dir = d, !.thumbs = thumbs]
<1>2. WinType(o) /\ o.dir = d /\ ~o.bar /\ o.thumbs = thumbs
  BY ClosedIs DEF WinType
<1>3. StartThumbs([win EXCEPT ![w] = Attached(o)], IF scan[d] = "known" THEN {w} ELSE {})
  BY <1>1
<1> HIDE DEF o
<1> PICK x : x = Attached(o)
  OBVIOUS
<1>4. /\ WinType(x) /\ x.dir = d /\ ~x.bar /\ x.thumbs = thumbs
      /\ \A p \in Image : seen[p] # 0 => x.shown[p] = Drawn(cache, o, p)
  BY <1>2, AttachedIs DEF ThumbInv
<1>5. moves' \in Nat /\ NoCacheChange /\ NoDiskChange
  BY DEF OpenWindow, UserMoved, ThumbInv, ThumbTypes
<1>6. x.thumbs => \A p \in Image :
        seen[p] # 0 /\ DirOf[p] = x.dir /\ Found(cache, p) => x.shown[p] = cache[p].image
  <2> SUFFICES ASSUME x.thumbs, NEW p \in Image, seen[p] # 0, DirOf[p] = x.dir, Found(cache, p)
               PROVE  x.shown[p] = cache[p].image
    OBVIOUS
  <2>1. o.thumbs /\ DirOf[p] = o.dir
    BY <1>2, <1>4
  <2>2. Drawn(cache, o, p) = cache[p].image
    BY <2>1, DrawnFound
  <2> QED BY <2>2, <1>2, <1>4
<1> DEFINE S == IF scan[d] = "known" THEN {w} ELSE {}
<1>7. StartThumbs([win EXCEPT ![w] = x], S)
  BY <1>3
<1>8. x.open /\ scan[x.dir] = "known" => w \in S
  BY <1>4
<1> HIDE DEF S
<1> QED BY <1>4, <1>5, <1>6, <1>7, <1>8, OneWindowStarts

LEMMA ChangeToKeeps ==
    ASSUME ThumbInv, NEW w \in Window, NEW d \in Dir, ChangeTo(w, d)
    PROVE  ThumbInv'
<1>1. WinType(win[w]) /\ win = [u \in Window |-> win[u]]
  BY DEF ThumbInv, ThumbTypes
<1> DEFINE o == [Cancelled(win[w]) EXCEPT !.dir = d]
<1>2. WinType(o) /\ o.dir = d /\ ~o.bar
  BY <1>1, CancelledIs DEF WinType
<1>3. StartThumbs([win EXCEPT ![w] = Attached(o)], IF scan[d] = "known" THEN {w} ELSE {})
  <2>1. [win EXCEPT ![w] = Attached([Cancelled(@) EXCEPT !.dir = d])]
        = [win EXCEPT ![w] = Attached(o)]
    BY <1>1
  <2> QED BY <2>1 DEF ChangeTo
<1> HIDE DEF o
<1> PICK x : x = Attached(o)
  OBVIOUS
<1>4. /\ WinType(x) /\ x.dir = d /\ ~x.bar /\ x.thumbs = o.thumbs
      /\ \A p \in Image : seen[p] # 0 => x.shown[p] = Drawn(cache, o, p)
  BY <1>2, AttachedIs DEF ThumbInv
<1>5. moves' \in Nat /\ NoCacheChange /\ NoDiskChange
  BY DEF ChangeTo, UserMoved, ThumbInv, ThumbTypes
<1>6. x.thumbs => \A p \in Image :
        seen[p] # 0 /\ DirOf[p] = x.dir /\ Found(cache, p) => x.shown[p] = cache[p].image
  <2> SUFFICES ASSUME x.thumbs, NEW p \in Image, seen[p] # 0, DirOf[p] = x.dir, Found(cache, p)
               PROVE  x.shown[p] = cache[p].image
    OBVIOUS
  <2>1. o.thumbs /\ DirOf[p] = o.dir
    BY <1>2, <1>4
  <2>2. Drawn(cache, o, p) = cache[p].image
    BY <2>1, DrawnFound
  <2> QED BY <2>2, <1>2, <1>4
<1> DEFINE S == IF scan[d] = "known" THEN {w} ELSE {}
<1>7. StartThumbs([win EXCEPT ![w] = x], S)
  BY <1>3
<1>8. x.open /\ scan[x.dir] = "known" => w \in S
  BY <1>4
<1> HIDE DEF S
<1> QED BY <1>4, <1>5, <1>6, <1>7, <1>8, OneWindowStarts

LEMMA SetThumbsKeeps ==
    ASSUME ThumbInv, NEW w \in Window, SetThumbs(w)
    PROVE  ThumbInv'
<1>1. /\ WinType(win[w]) /\ win[w].open /\ win[w].dir \in Dir
      /\ cache \in [Image -> EntryType] /\ seen \in [Image -> Nat]
  BY DEF ThumbInv, ThumbTypes, Placed, SetThumbs
<1> DEFINE o == [win[w] EXCEPT !.thumbs = ~win[w].thumbs]
           v == Redrawn(cache, o, seen, Image)
<1>2. WinType(o) /\ o.open /\ o.dir = win[w].dir /\ o.bar = win[w].bar
  BY <1>1 DEF WinType
<1>3. StartThumbs([win EXCEPT ![w] = IF v.thumbs THEN CreateThumbs(cache, v, seen) ELSE Cancelled(v)],
                  IF Scanning(w) THEN {} ELSE {w})
  BY DEF SetThumbs
<1> HIDE DEF o
<1>4. /\ WinType(v) /\ v.open /\ v.dir = win[w].dir /\ v.bar = win[w].bar /\ v.thumbs = o.thumbs
      /\ \A p \in Image : seen[p] # 0 => v.shown[p] = Drawn(cache, o, p)
  BY <1>1, <1>2, RedrawnIs
<1> HIDE DEF v
<1> PICK x : x = IF v.thumbs THEN CreateThumbs(cache, v, seen) ELSE Cancelled(v)
  OBVIOUS
<1>5. /\ WinType(x) /\ x.open /\ x.dir = win[w].dir /\ (x.bar => win[w].bar)
      /\ x.thumbs = o.thumbs /\ x.shown = v.shown
  BY <1>4, CreateThumbsIs, CancelledIs
<1>6. moves' \in Nat /\ NoCacheChange /\ NoDiskChange
  BY DEF SetThumbs, UserMoved, ThumbInv, ThumbTypes
<1>7. x.thumbs => \A p \in Image :
        seen[p] # 0 /\ DirOf[p] = x.dir /\ Found(cache, p) => x.shown[p] = cache[p].image
  <2> SUFFICES ASSUME x.thumbs, NEW p \in Image, seen[p] # 0, DirOf[p] = x.dir, Found(cache, p)
               PROVE  x.shown[p] = cache[p].image
    OBVIOUS
  <2>1. o.thumbs /\ DirOf[p] = o.dir
    BY <1>2, <1>4, <1>5
  <2>2. Drawn(cache, o, p) = cache[p].image
    BY <2>1, DrawnFound
  <2> QED BY <2>2, <1>2, <1>4, <1>5
<1> DEFINE S == IF Scanning(w) THEN {} ELSE {w}
<1>8. StartThumbs([win EXCEPT ![w] = x], S)
  BY <1>3
<1>9. x.open /\ scan[x.dir] = "known" => w \in S
  BY <1>5 DEF Scanning
<1> HIDE DEF S
<1> QED BY <1>1, <1>5, <1>6, <1>7, <1>8, <1>9, OneWindowStarts

(* A window loses its bar and its queue, or is closed: x is what is left. *)
LEMMA OneWindowStops ==
    ASSUME ThumbInv, NEW w \in Window, NEW x, win' = [win EXCEPT ![w] = x],
           WinType(x), x.open => win[w].open /\ x.dir = win[w].dir /\ x.thumbs = win[w].thumbs,
           x.open => x.shown = win[w].shown, ~x.bar, x.queue = <<>>,
           UNCHANGED <<file, seen, scan, cache, kids>>
    PROVE  /\ win' = [u \in Window |-> win'[u]] /\ \A u \in Window : WinType(win'[u])
           /\ Placed' /\ CacheRight' /\ ShownAlways'
           /\ idle' = idle /\ refs' = refs => QueueServed'
<1>1. ThumbTypes /\ Placed /\ QueueServed /\ ShownAlways
  BY DEF ThumbInv
<1>2. /\ win' = [u \in Window |-> win'[u]] /\ \A u \in Window : WinType(win'[u])
      /\ win'[w] = x /\ \A u \in Window : u # w => win'[u] = win[u]
  <2>1. win' = [u \in Window |-> IF u = w THEN x ELSE win[u]]
    BY <1>1 DEF ThumbTypes
  <2>2. \A u \in Window : win'[u] = IF u = w THEN x ELSE win[u]
    BY <2>1
  <2>3. win' = [u \in Window |-> win'[u]]
    BY <2>1
  <2> QED BY <1>1, <2>2, <2>3 DEF ThumbTypes
<1>3. CacheRight' /\ \A u \in Window : ChildrenOf(u)' = ChildrenOf(u)
  BY CacheUntouched
<1>4. Placed'
  BY <1>1, <1>2 DEF Placed, Pid
<1>5. ShownAlways'
  BY <1>1, <1>2 DEF ShownAlways, Found
<1>6. ASSUME idle' = idle, refs' = refs PROVE QueueServed'
  BY <1>1, <1>2, <1>3, <1>6, QueueServedKept DEF Scanning
<1> QED BY <1>2, <1>3, <1>4, <1>5, <1>6

LEMMA CloseWindowKeeps ==
    ASSUME ThumbInv, NEW w \in Window, CloseWindow(w)
    PROVE  ThumbInv'
<1>1. /\ win' = [win EXCEPT ![w] = Closed]
      /\ UNCHANGED <<file, seen, scan, thumb, cache, kids, idle, refs, events>>
      /\ moves' \in Nat
  BY DEF CloseWindow, NoCacheChange, NoDiskChange, UserMoved, ThumbInv, ThumbTypes
<1>2. /\ win' = [u \in Window |-> win'[u]] /\ \A u \in Window : WinType(win'[u])
      /\ Placed' /\ CacheRight' /\ ShownAlways' /\ QueueServed'
  BY <1>1, OneWindowStops, ClosedIs
<1>3. ThumbTypes'
  BY <1>1, <1>2 DEF ThumbInv, ThumbTypes, Pid
<1> QED BY <1>2, <1>3 DEF ThumbInv

LEMMA CancelThumbsKeeps ==
    ASSUME ThumbInv, NEW w \in Window, CancelThumbs(w)
    PROVE  ThumbInv'
<1>1. /\ win' = [win EXCEPT ![w] = Cancelled(win[w])]
      /\ UNCHANGED <<file, seen, scan, thumb, cache, kids, idle, refs, events>>
      /\ moves' \in Nat
  BY DEF CancelThumbs, NoCacheChange, NoDiskChange, UserMoved, ThumbInv, ThumbTypes
<1>2. WinType(win[w])
  BY DEF ThumbInv, ThumbTypes
<1>3. win[w].open
  BY DEF CancelThumbs
<1>4. /\ win' = [u \in Window |-> win'[u]] /\ \A u \in Window : WinType(win'[u])
      /\ Placed' /\ CacheRight' /\ ShownAlways' /\ QueueServed'
  BY <1>1, <1>2, <1>3, OneWindowStops, CancelledIs
<1>5. ThumbTypes'
  BY <1>1, <1>4 DEF ThumbInv, ThumbTypes, Pid
<1> QED BY <1>4, <1>5 DEF ThumbInv

--------------------
(* The steps of the chains. *)

(* A chain ends: the reference goes with the callback. *)
LEMMA ChainEnds ==
    ASSUME ThumbInv, NEW w \in Window, idle[w] > 0,
           idle' = [idle EXCEPT ![w] = @ - 1], refs' = [refs EXCEPT ![w] = @ - 1]
    PROVE  /\ idle' \in [Window -> Nat] /\ refs' \in [Window -> Nat]
           /\ \A u \in Window : u # w => idle'[u] = idle[u]
           /\ \A u \in Window : refs'[u] = idle'[u] + Cardinality(ChildrenOf(u))
<1>1. /\ idle \in [Window -> Nat] /\ refs \in [Window -> Nat]
      /\ \A u \in Window : refs[u] = idle[u] + Cardinality(ChildrenOf(u))
      /\ \A u \in Window : Cardinality(ChildrenOf(u)) \in Nat
  BY ChildrenCounted DEF ThumbInv, ThumbTypes, QueueServed
<1>2. idle'[w] = idle[w] - 1 /\ refs'[w] = refs[w] - 1
  BY <1>1
<1>3. idle'[w] \in Nat /\ refs'[w] \in Nat
      /\ refs'[w] = idle'[w] + Cardinality(ChildrenOf(w))
  BY <1>1, <1>2
<1>4. \A u \in Window : u # w => idle'[u] = idle[u] /\ refs'[u] = refs[u]
  BY <1>1
<1>5. idle' \in [Window -> Nat] /\ refs' \in [Window -> Nat]
  BY <1>1, <1>3
<1> QED BY <1>1, <1>3, <1>4, <1>5

LEMMA NextGoneKeeps ==
    ASSUME ThumbInv, NEW w \in Window, NextGone(w)
    PROVE  ThumbInv'
<1>1. /\ UNCHANGED <<file, seen, scan, thumb, cache, kids, win, moves, events>>
      /\ idle[w] > 0 /\ ~win[w].open
      /\ idle' = [idle EXCEPT ![w] = @ - 1] /\ refs' = [refs EXCEPT ![w] = @ - 1]
  BY DEF NextGone, NoCacheChange, NoDiskChange
<1>2. /\ idle' \in [Window -> Nat] /\ refs' \in [Window -> Nat]
      /\ \A u \in Window : u # w => idle'[u] = idle[u]
      /\ \A u \in Window : refs'[u] = idle'[u] + Cardinality(ChildrenOf(u))
  BY <1>1, ChainEnds
<1>3. CacheRight' /\ \A u \in Window : ChildrenOf(u)' = ChildrenOf(u)
  BY <1>1, CacheUntouched
<1>4. ThumbTypes'
  BY <1>1, <1>2 DEF ThumbInv, ThumbTypes, Pid
<1>5. Placed' /\ ShownAlways'
  BY <1>1 DEF ThumbInv, Placed, ShownAlways, Found, Pid
<1>6. QueueServed'
  BY <1>1, <1>2, <1>3 DEF ThumbInv, QueueServed, Scanning
<1> QED BY <1>3, <1>4, <1>5, <1>6 DEF ThumbInv

LEMMA NextNoneKeeps ==
    ASSUME ThumbInv, NEW w \in Window, NextNone(w)
    PROVE  ThumbInv'
<1>1. /\ UNCHANGED <<file, seen, scan, thumb, cache, kids, moves, events>>
      /\ idle[w] > 0 /\ win[w].open
      /\ win' = [win EXCEPT ![w] = Cancelled(win[w])]
      /\ idle' = [idle EXCEPT ![w] = @ - 1] /\ refs' = [refs EXCEPT ![w] = @ - 1]
  BY DEF NextNone, NoCacheChange, NoDiskChange
<1>2. /\ idle' \in [Window -> Nat] /\ refs' \in [Window -> Nat]
      /\ \A u \in Window : u # w => idle'[u] = idle[u]
      /\ \A u \in Window : refs'[u] = idle'[u] + Cardinality(ChildrenOf(u))
  BY <1>1, ChainEnds
<1>3. CacheRight' /\ \A u \in Window : ChildrenOf(u)' = ChildrenOf(u)
  BY <1>1, CacheUntouched
<1>4. WinType(win[w])
  BY DEF ThumbInv, ThumbTypes
<1>5. /\ win' = [u \in Window |-> win'[u]] /\ \A u \in Window : WinType(win'[u])
      /\ Placed' /\ CacheRight' /\ ShownAlways'
  BY <1>1, <1>4, OneWindowStops, CancelledIs
<1>6. ThumbTypes'
  BY <1>1, <1>2, <1>5 DEF ThumbInv, ThumbTypes, Pid
<1>7. QueueServed'
  <2>1. /\ win'[w] = Cancelled(win[w]) /\ \A u \in Window : u # w => win'[u] = win[u]
    BY <1>1 DEF ThumbInv, ThumbTypes
  <2>2. ~win'[w].bar /\ win'[w].queue = <<>>
    BY <1>4, <2>1, CancelledIs
  <2> QED BY <1>1, <1>2, <1>3, <2>1, <2>2 DEF ThumbInv, QueueServed, Scanning
<1> QED BY <1>3, <1>5, <1>6, <1>7 DEF ThumbInv

(* The entry of the first image is written and the image drawn. *)
LEMMA NextLoadedKeeps ==
    ASSUME ThumbInv, NEW w \in Window, NextLoaded(w)
    PROVE  ThumbInv'
<1>1. /\ UNCHANGED <<file, seen, scan, thumb, kids, idle, refs, moves, events>>
      /\ ThumbTypes /\ Placed /\ CacheRight /\ QueueServed /\ ShownAlways
      /\ win[w].open /\ win[w].queue # <<>>
  BY DEF NextLoaded, NoDiskChange, HasNext, ThumbInv
<1>2. PICK p \in Image, young \in BOOLEAN :
        LET inMemory == Found(cache, p) /\ cache[p].image # 0 IN
        /\ p = Head1(w)
        /\ inMemory \/ Usable(thumb, p, young)
        /\ cache' = IF inMemory THEN [cache EXCEPT ![p].leaked = TRUE]
                                ELSE InsertNew(cache, p, thumb[p].of, TRUE)
        /\ win' = ForceUpdate(Taken(w), cache', p)
  BY DEF NextLoaded
<1>3. /\ cache' \in [Image -> EntryType]
      /\ \A q \in Image : q # p => cache'[q] = cache[q]
      /\ cache[p].known /\ file[p] # 0 => cache'[p].known /\ cache'[p].stamp >= cache[p].stamp
      /\ file[p] # 0 /\ cache'[p].stamp = file[p]
  <2>1. CASE Found(cache, p) /\ cache[p].image # 0
    <3> DEFINE e == [cache[p] EXCEPT !.leaked = TRUE]
    <3>1. e \in EntryType /\ e.known = cache[p].known /\ e.stamp = cache[p].stamp
          /\ cache[p].stamp \in Nat
      BY <1>1 DEF ThumbTypes, EntryType
    <3>2. cache' = [cache EXCEPT ![p] = e]
      BY <1>2, <2>1
    <3> HIDE DEF e
    <3>3. cache' \in [Image -> EntryType] /\ cache'[p] = e
          /\ \A q \in Image : q # p => cache'[q] = cache[q]
      BY <1>1, <3>1, <3>2 DEF ThumbTypes
    <3>4. file[p] # 0 /\ cache[p].stamp = file[p]
      BY <2>1 DEF Found
    <3> QED BY <3>1, <3>3, <3>4
  <2>2. CASE ~(Found(cache, p) /\ cache[p].image # 0)
    <3>1. Usable(thumb, p, young) /\ cache' = InsertNew(cache, p, thumb[p].of, TRUE)
      BY <1>2, <2>2
    <3>2. thumb[p].of \in Nat /\ file[p] # 0
      BY <1>1, <3>1 DEF ThumbTypes, Usable
    <3>3. /\ cache' \in [Image -> EntryType]
          /\ \A q \in Image : q # p => cache'[q] = cache[q]
          /\ cache'[p].known /\ cache'[p].stamp = file[p]
      <4> PICK x : x = [known |-> TRUE, stamp |-> file[p], image |-> thumb[p].of, leaked |-> TRUE]
        OBVIOUS
      <4>1. x \in EntryType /\ x.known /\ x.stamp = file[p]
        BY <1>1, <3>2 DEF ThumbTypes, EntryType
      <4> PICK c : c = cache'
        OBVIOUS
      <4>2. c = IF file[p] = 0 THEN cache ELSE [cache EXCEPT ![p] = x]
        BY <3>1 DEF InsertNew
      <4>3. /\ c \in [Image -> EntryType]
            /\ \A q \in Image : q # p => c[q] = cache[q]
            /\ file[p] # 0 => c[p].known /\ c[p].stamp = file[p]
        BY <1>1, <4>1, <4>2 DEF ThumbTypes
      <4> QED BY <3>2, <4>3
    <3>4. cache[p].known => cache[p].stamp <= file[p]
          /\ cache[p].stamp \in Nat /\ file[p] \in Nat
      BY <1>1, <3>2 DEF CacheRight, StampsPast, ThumbTypes, EntryType
    <3> QED BY <3>2, <3>3, <3>4
  <2> QED BY <2>1, <2>2
<1>4. /\ win' = [u \in Window |-> win'[u]]
      /\ \A u \in Window :
           /\ WinType(win'[u])
           /\ win'[u].open = win[u].open /\ win'[u].dir = win[u].dir
           /\ win'[u].thumbs = win[u].thumbs /\ win'[u].bar = win[u].bar
           /\ u # w => win'[u].queue = win[u].queue
           /\ \A q \in Image : q # p => win'[u].shown[q] = win[u].shown[q]
           /\ seen[p] # 0 /\ win[u].open /\ win[u].dir = DirOf[p] /\ win[u].thumbs
              /\ Found(cache', p) => win'[u].shown[p] = cache'[p].image
  <2> PICK ws : ws = Taken(w)
    OBVIOUS
  <2>1. /\ ws = [u \in Window |-> ws[u]]
        /\ \A u \in Window :
             /\ WinType(ws[u])
             /\ ws[u].open = win[u].open /\ ws[u].dir = win[u].dir
             /\ ws[u].thumbs = win[u].thumbs /\ ws[u].bar = win[u].bar
             /\ ws[u].shown = win[u].shown
             /\ u # w => ws[u].queue = win[u].queue
    BY <1>1, TakenIs
  <2> PICK c : c = cache'
    OBVIOUS
  <2>2. win' = ForceUpdate(ws, c, p) /\ c \in [Image -> EntryType]
    BY <1>2, <1>3
  <2>3. /\ win' = [u \in Window |-> win'[u]]
        /\ \A u \in Window :
             /\ WinType(win'[u])
             /\ win'[u].open = ws[u].open /\ win'[u].dir = ws[u].dir
             /\ win'[u].thumbs = ws[u].thumbs /\ win'[u].bar = ws[u].bar
             /\ win'[u].queue = ws[u].queue
             /\ \A q \in Image : q # p => win'[u].shown[q] = ws[u].shown[q]
             /\ seen[p] # 0 /\ ws[u].open /\ ws[u].dir = DirOf[p]
                  => win'[u].shown[p] = Drawn(c, ws[u], p)
    BY <1>1, <2>1, <2>2, ForceUpdateIs
  <2>4. \A u \in Window : ws[u].thumbs /\ DirOf[p] = ws[u].dir /\ Found(c, p)
           => Drawn(c, ws[u], p) = c[p].image
    BY DrawnFound
  <2> QED BY <2>1, <2>3, <2>4
<1>5. ThumbTypes'
  BY <1>1, <1>3, <1>4 DEF ThumbTypes, Pid
<1>6. Placed'
  BY <1>1, <1>4 DEF Placed, Pid
<1>7. CacheRight'
  <2>1. \A q \in Image : cache[q].stamp \in Nat /\ file[q] \in Nat
    BY <1>1 DEF ThumbTypes, EntryType
  <2>2. \A q \in Image : cache[q].known => cache'[q].known /\ cache'[q].stamp >= cache[q].stamp
    BY <1>3, <2>1
  <2>3. \A q \in Image : cache'[q].known /\ file[q] # 0 => cache'[q].stamp <= file[q]
    BY <1>1, <1>3, <2>1 DEF CacheRight, StampsPast
  <2> QED BY <1>1, <1>5, <2>2, <2>3, CacheRightKept
<1>8. QueueServed'
  <2>1. \A u \in Window : ChildrenOf(u)' = ChildrenOf(u)
    BY <1>1 DEF ChildrenOf
  <2> QED BY <1>1, <1>4, <2>1, QueueServedKept DEF Scanning
<1>9. ShownAlways'
  <2>1. \A q \in Image : Found(cache, q)' = Found(cache', q)
    BY <1>1 DEF Found
  <2>2. \A q \in Image : q # p => Found(cache', q) = Found(cache, q)
    BY <1>3 DEF Found
  <2> SUFFICES ASSUME NEW u \in Window, NEW q \in Image,
                      win'[u].open, win'[u].thumbs, win'[u].dir = DirOf[q],
                      seen'[q] # 0, Found(cache, q)', cache'[q].image # 0
               PROVE  win'[u].shown[q] = cache'[q].image
    BY DEF ShownAlways
  <2>3. CASE q = p
    BY <1>1, <1>4, <2>1, <2>3
  <2>4. CASE q # p
    BY <1>1, <1>3, <1>4, <2>1, <2>2, <2>4 DEF ShownAlways
  <2> QED BY <2>3, <2>4
<1> QED BY <1>5, <1>6, <1>7, <1>8, <1>9 DEF ThumbInv

(* NULL is put in the cache and a child forked: no other can be working on *)
(* this version, since its entry would be there. *)
LEMMA NextMissingKeeps ==
    ASSUME ThumbInv, NEW w \in Window, NextMissing(w)
    PROVE  ThumbInv'
<1>1. /\ UNCHANGED <<file, seen, scan, thumb, refs, moves, events>>
      /\ ThumbTypes /\ Placed /\ CacheRight /\ QueueServed /\ ShownAlways
      /\ win[w].open /\ win[w].queue # <<>> /\ idle[w] > 0
  BY DEF NextMissing, NoDiskChange, HasNext, ThumbInv
<1>2. PICK p \in Image :
       LET known == Found(cache, p)
           forks == ~known /\ p \notin NoProgram /\ Free # {}
       IN /\ p = Head1(w)
          /\ ~(known /\ cache[p].image # 0) /\ ~Usable(thumb, p, FALSE)
          /\ cache' = IF known THEN cache ELSE InsertNew(cache, p, 0, FALSE)
          /\ kids' = IF forks
                     THEN [kids EXCEPT ![CHOOSE i \in Free : \A j \in Free : i <= j] =
                             [path |-> p, win |-> w, version |-> file[p], got |-> 0,
                              state |-> "forked", lost |-> FALSE]]
                     ELSE kids
          /\ idle' = IF forks THEN [idle EXCEPT ![w] = @ - 1] ELSE idle
          /\ win' = Taken(w)
  BY DEF NextMissing
<1>3. /\ win' = [u \in Window |-> win'[u]]
      /\ \A u \in Window :
           /\ WinType(win'[u])
           /\ win'[u].open = win[u].open /\ win'[u].dir = win[u].dir
           /\ win'[u].thumbs = win[u].thumbs /\ win'[u].bar = win[u].bar
           /\ win'[u].shown = win[u].shown
           /\ u # w => win'[u].queue = win[u].queue
  BY <1>1, <1>2, TakenIs
<1>4. /\ cache' \in [Image -> EntryType]
      /\ \A q \in Image : q # p => cache'[q] = cache[q]
      /\ Found(cache, p) => cache' = cache
      /\ file[p] = 0 => cache'[p] = cache[p]
      /\ file[p] # 0 => cache'[p].known /\ cache'[p].stamp = file[p] /\ cache'[p].image = 0
  <2>1. CASE Found(cache, p)
    <3>1. cache' = cache /\ cache[p].image = 0
      BY <1>2, <2>1
    <3> QED BY <1>1, <2>1, <3>1 DEF ThumbTypes, Found
  <2>2. CASE ~Found(cache, p)
    <3> PICK x : x = [known |-> TRUE, stamp |-> file[p], image |-> 0, leaked |-> FALSE]
      OBVIOUS
    <3>1. x \in EntryType /\ x.known /\ x.stamp = file[p] /\ x.image = 0
      BY <1>1 DEF ThumbTypes, EntryType
    <3>2. cache' = IF file[p] = 0 THEN cache ELSE [cache EXCEPT ![p] = x]
      BY <1>2, <2>2 DEF InsertNew
    <3> QED BY <1>1, <2>2, <3>1, <3>2 DEF ThumbTypes
  <2> QED BY <2>1, <2>2
<1>5. ShownAlways'
  <2>1. \A q \in Image : q # p => Found(cache, q)' = Found(cache, q)
    BY <1>1, <1>4 DEF Found
  <2>2. ~(Found(cache, p)' /\ cache'[p].image # 0)
    BY <1>1, <1>2, <1>4 DEF Found
  <2> QED BY <1>1, <1>3, <1>4, <2>1, <2>2 DEF ShownAlways
<1>6. \A q \in Image : /\ cache[q].known => cache'[q].known /\ cache'[q].stamp >= cache[q].stamp
                       /\ cache'[q].known /\ file[q] # 0 => cache'[q].stamp <= file[q]
  <2>1. \A q \in Image : cache[q].stamp \in Nat /\ file[q] \in Nat
    BY <1>1 DEF ThumbTypes, EntryType
  <2>2. \A q \in Image : cache[q].known /\ file[q] # 0 => cache[q].stamp <= file[q]
    BY <1>1 DEF CacheRight, StampsPast
  <2> QED BY <1>4, <2>1, <2>2
<1>7. CASE ~(~Found(cache, p) /\ p \notin NoProgram /\ Free # {})
  <2>1. kids' = kids /\ idle' = idle
    BY <1>2, <1>7
  <2>2. ThumbTypes'
    BY <1>1, <1>3, <1>4, <2>1 DEF ThumbTypes, Pid
  <2>3. Placed'
    BY <1>1, <1>3, <2>1 DEF Placed, Pid
  <2>4. CacheRight'
    BY <1>1, <1>6, <2>1, <2>2, CacheRightKept
  <2>5. QueueServed'
    <3>1. \A u \in Window : ChildrenOf(u)' = ChildrenOf(u)
      BY <2>1 DEF ChildrenOf
    <3> QED BY <1>1, <1>3, <2>1, <3>1, QueueServedKept DEF Scanning
  <2> QED BY <1>5, <2>2, <2>3, <2>4, <2>5 DEF ThumbInv
<1>8. CASE ~Found(cache, p) /\ p \notin NoProgram /\ Free # {}
  <2> DEFINE i == CHOOSE i \in Free : \A j \in Free : i <= j
  <2>1. i \in Pid /\ kids[i].state = "none"
    BY <1>8, FirstFree DEF Free
  <2>2. /\ kids' = [kids EXCEPT ![i] = [path |-> p, win |-> w, version |-> file[p], got |-> 0,
                                        state |-> "forked", lost |-> FALSE]]
        /\ idle' = [idle EXCEPT ![w] = @ - 1]
    BY <1>2, <1>8
  <2> HIDE DEF i
  <2> PICK k : k = [path |-> p, win |-> w, version |-> file[p], got |-> 0,
                    state |-> "forked", lost |-> FALSE]
    OBVIOUS
  <2>3. /\ k \in KidType /\ k.path = p /\ k.win = w /\ k.version = file[p]
        /\ k.state = "forked" /\ ~k.lost
    BY <1>1 DEF ThumbTypes, KidType, KidState
  <2>4. /\ kids' \in [Pid -> KidType] /\ kids'[i] = k
        /\ \A j \in Pid : j # i => kids'[j] = kids[j]
    BY <1>1, <2>1, <2>2, <2>3 DEF ThumbTypes
  <2>5. idle[w] \in Nat /\ idle' \in [Window -> Nat] /\ idle'[w] = idle[w] - 1
        /\ \A u \in Window : u # w => idle'[u] = idle[u]
    BY <1>1, <2>2 DEF ThumbTypes
  <2>6. ThumbTypes'
    BY <1>1, <1>3, <1>4, <2>4, <2>5 DEF ThumbTypes, Pid
  <2>7. Placed'
    <3>1. \A j \in Pid : kids'[j].state # "none" =>
             kids'[j].path \in Image /\ kids'[j].win \in Window
      BY <1>1, <2>3, <2>4 DEF Placed
    <3> QED BY <1>1, <1>3, <3>1 DEF Placed, Pid
  <2>8. CacheRight'
    <3>1. StampsPast'
      BY <1>1, <1>6 DEF StampsPast
    <3>2. \A j \in Pid : kids[j].state # "none" /\ ~kids[j].lost /\ kids[j].version # 0 =>
             /\ cache'[kids[j].path].known
             /\ cache'[kids[j].path].stamp >= kids[j].version
      <4> SUFFICES ASSUME NEW j \in Pid,
                          kids[j].state # "none", ~kids[j].lost, kids[j].version # 0
                   PROVE  /\ cache'[kids[j].path].known
                          /\ cache'[kids[j].path].stamp >= kids[j].version
        OBVIOUS
      <4> PICK q : q = kids[j].path
        OBVIOUS
      <4>1. q \in Image /\ cache[q].known /\ cache[q].stamp >= kids[j].version
        BY <1>1 DEF CacheRight, Marked, Placed
      <4>2. cache'[q].known /\ cache'[q].stamp >= cache[q].stamp
        BY <1>6, <4>1
      <4>3. cache[q].stamp \in Nat /\ cache'[q].stamp \in Nat /\ kids[j].version \in Nat
        BY <1>1, <1>4, <4>1 DEF ThumbTypes, EntryType, KidType
      <4> QED BY <4>1, <4>2, <4>3
    <3>3. Marked'
      <4>1. k.version # 0 => cache'[k.path].known /\ cache'[k.path].stamp >= k.version
        BY <1>1, <1>4, <2>3 DEF ThumbTypes
      <4> QED BY <2>4, <3>2, <4>1 DEF Marked, Pid
    <3>4. \A j \in Pid : kids[j].state # "none" /\ kids[j].path = p
             /\ kids[j].version = file[p] /\ file[p] # 0 => kids[j].lost
      <4> SUFFICES ASSUME NEW j \in Pid, kids[j].state # "none", kids[j].path = p,
                          kids[j].version = file[p], file[p] # 0, ~kids[j].lost
                   PROVE  FALSE
        BY <1>1 DEF ThumbTypes, KidType
      <4>1. cache[p].known /\ cache[p].stamp >= file[p]
        BY <1>1 DEF CacheRight, Marked
      <4>2. cache[p].stamp <= file[p] /\ cache[p].stamp \in Nat /\ file[p] \in Nat
        BY <1>1, <4>1 DEF CacheRight, StampsPast, ThumbTypes, EntryType
      <4>3. cache[p].stamp = file[p]
        BY <4>1, <4>2
      <4> QED BY <1>8, <4>1, <4>3 DEF Found
    <3>5. OneChild'
      BY <1>1, <2>3, <2>4, <3>4 DEF CacheRight, OneChild, Pid
    <3> QED BY <3>1, <3>3, <3>5 DEF CacheRight
  <2>9. QueueServed'
    <3>1. /\ Cardinality(ChildrenOf(w)') = Cardinality(ChildrenOf(w)) + 1
          /\ ChildrenOf(w)' # {}
          /\ \A u \in Window : u # w => ChildrenOf(u)' = ChildrenOf(u)
      BY <2>1, <2>3, <2>4, ChildStarted
    <3>2. refs[w] = idle[w] + Cardinality(ChildrenOf(w)) /\ Cardinality(ChildrenOf(w)) \in Nat
      BY <1>1, ChildrenCounted DEF QueueServed
    <3>3. refs'[w] = idle'[w] + Cardinality(ChildrenOf(w)')
      <4>1. PICK q \in Nat, l \in Nat : q = idle[w] /\ l = Cardinality(ChildrenOf(w))
        BY <2>5, <3>2
      <4>2. refs'[w] = q + l
        BY <1>1, <3>2, <4>1
      <4>3. idle'[w] = q - 1 /\ Cardinality(ChildrenOf(w)') = l + 1
        BY <2>5, <3>1, <4>1
      <4> QED BY <4>1, <4>2, <4>3
    <3>4. win'[w].open /\ win'[w].queue # <<>> /\ ~Scanning(w)' => win'[w].bar
      BY <1>1, <1>3 DEF QueueServed, Scanning
    <3>5. ASSUME NEW u \in Window, u # w
          PROVE  /\ win'[u].open /\ win'[u].bar => idle'[u] > 0 \/ ChildrenOf(u)' # {}
                 /\ win'[u].open /\ win'[u].queue # <<>> /\ ~Scanning(u)' => win'[u].bar
                 /\ refs'[u] = idle'[u] + Cardinality(ChildrenOf(u)')
      BY <1>1, <1>3, <2>5, <3>1, <3>5 DEF QueueServed, Scanning
    <3> QED BY <3>1, <3>3, <3>4, <3>5 DEF QueueServed
  <2> QED BY <1>5, <2>6, <2>7, <2>8, <2>9 DEF ThumbInv
<1> QED BY <1>7, <1>8

--------------------
(* The steps of the children. *)

(* A child that goes on working for the same window on the same image. *)
LEMMA ChildGoesOn ==
    ASSUME ThumbInv, NEW i \in Pid, NEW k \in KidType, kids' = [kids EXCEPT ![i] = k],
           kids[i].state # "none", k.state # "none", k.path = kids[i].path,
           k.win = kids[i].win, k.version = kids[i].version, k.lost = kids[i].lost,
           thumb' \in [Image -> [of : Nat, stamp : Nat]],
           UNCHANGED <<file, seen, scan, cache, win, idle, refs, moves, events>>
    PROVE  ThumbInv'
<1>1. ThumbTypes /\ Placed /\ CacheRight /\ QueueServed /\ ShownAlways
  BY DEF ThumbInv
<1>2. /\ kids' \in [Pid -> KidType] /\ kids'[i] = k
      /\ \A j \in Pid : j # i => kids'[j] = kids[j]
  BY <1>1 DEF ThumbTypes
<1>3. \A j \in Pid :
        /\ kids'[j].path = kids[j].path /\ kids'[j].win = kids[j].win
        /\ kids'[j].version = kids[j].version /\ kids'[j].lost = kids[j].lost
        /\ (kids'[j].state = "none" <=> kids[j].state = "none")
  BY <1>2
<1>4. ThumbTypes'
  BY <1>1, <1>2 DEF ThumbTypes, Pid
<1>5. Placed' /\ ShownAlways'
  BY <1>1, <1>3 DEF Placed, ShownAlways, Found, Pid
<1>6. CacheRight'
  <2>1. \A p \in Image : cache[p].stamp \in Nat /\ file[p] \in Nat
    BY <1>1 DEF ThumbTypes, EntryType
  <2>2. \A p \in Image : cache'[p].known /\ file[p] # 0 => cache'[p].stamp <= file[p]
    BY <1>1 DEF CacheRight, StampsPast
  <2>3. \A p \in Image : cache[p].known => cache'[p].known /\ cache'[p].stamp >= cache[p].stamp
    BY <2>1
  <2> QED BY <1>1, <1>3, <1>4, <2>2, <2>3, CacheRightKept
<1>7. QueueServed'
  <2>1. \A u \in Window : ChildrenOf(u)' = ChildrenOf(u)
    BY <1>3, ChildrenKept
  <2> QED BY <1>1, <2>1, QueueServedKept DEF Scanning
<1> QED BY <1>4, <1>5, <1>6, <1>7 DEF ThumbInv

LEMMA ChildLoadsKeeps ==
    ASSUME ThumbInv, NEW i \in Pid, ChildLoads(i)
    PROVE  ThumbInv'
<1>1. /\ UNCHANGED <<file, seen, scan, thumb, cache, win, idle, refs, moves, events>>
      /\ kids[i].state = "forked"
  BY DEF ChildLoads
<1>2. kids[i].path \in Image /\ kids[i] \in KidType /\ file \in [Image -> Nat]
      /\ thumb \in [Image -> [of : Nat, stamp : Nat]]
      /\ kids \in [Pid -> KidType]
  BY <1>1 DEF ThumbInv, ThumbTypes, Placed
<1>3. PICK got \in {0, file[kids[i].path]} :
         kids' = [kids EXCEPT ![i].got = got, ![i].state = IF got = 0 THEN "dead" ELSE "loaded"]
  BY DEF ChildLoads
<1> PICK k : k = [kids[i] EXCEPT !.got = got, !.state = IF got = 0 THEN "dead" ELSE "loaded"]
  OBVIOUS
<1>4. got \in Nat
  BY <1>2
<1>5. /\ k \in KidType /\ k.state # "none" /\ k.path = kids[i].path
      /\ k.win = kids[i].win /\ k.version = kids[i].version /\ k.lost = kids[i].lost
  BY <1>2, <1>4 DEF KidType, KidState
<1>6. kids' = [kids EXCEPT ![i] = k]
  BY <1>2, <1>3 DEF KidType
<1> QED BY <1>1, <1>2, <1>5, <1>6, ChildGoesOn

LEMMA ChildSavesKeeps ==
    ASSUME ThumbInv, NEW i \in Pid, ChildSaves(i)
    PROVE  ThumbInv'
<1>1. /\ UNCHANGED <<file, seen, scan, cache, win, idle, refs, moves, events>>
      /\ kids[i].state = "loaded"
      /\ kids' = [kids EXCEPT ![i].state = "dead"]
  BY DEF ChildSaves
<1>2. kids[i].path \in Image /\ kids[i] \in KidType /\ file \in [Image -> Nat]
      /\ thumb \in [Image -> [of : Nat, stamp : Nat]]
      /\ kids \in [Pid -> KidType]
  BY <1>1 DEF ThumbInv, ThumbTypes, Placed
<1>3. thumb' \in [Image -> [of : Nat, stamp : Nat]]
  <2>1. kids[i].got \in Nat /\ file[kids[i].path] \in Nat
    BY <1>2 DEF KidType
  <2>2. [of |-> kids[i].got, stamp |-> file[kids[i].path]] \in [of : Nat, stamp : Nat]
    BY <2>1
  <2> QED BY <1>2, <2>2 DEF ChildSaves
<1> PICK k : k = [kids[i] EXCEPT !.state = "dead"]
  OBVIOUS
<1>4. /\ k \in KidType /\ k.state # "none" /\ k.path = kids[i].path
      /\ k.win = kids[i].win /\ k.version = kids[i].version /\ k.lost = kids[i].lost
  BY <1>2 DEF KidType, KidState
<1>5. kids' = [kids EXCEPT ![i] = k]
  BY <1>1, <1>2
<1> QED BY <1>1, <1>3, <1>4, <1>5, ChildGoesOn

(* The child is gone and its chain goes on: the callback takes over the *)
(* reference.  What it has made is drawn in every window. *)
LEMMA ChildDoneKeeps ==
    ASSUME ThumbInv, NEW i \in Pid, ChildDone(i)
    PROVE  ThumbInv'
<1>1. /\ UNCHANGED <<file, seen, scan, thumb, refs, moves, events>>
      /\ ThumbTypes /\ Placed /\ CacheRight /\ QueueServed /\ ShownAlways
      /\ kids[i].state = "dead"
      /\ idle' = [idle EXCEPT ![kids[i].win] = @ + 1] /\ kids' = [kids EXCEPT ![i] = NoKid]
  BY DEF ChildDone, ThumbInv
<1> PICK p, w : p = kids[i].path /\ w = kids[i].win
  OBVIOUS
<1>2. p \in Image /\ w \in Window
  BY <1>1 DEF Placed
<1>3. PICK young \in BOOLEAN :
            IF Usable(thumb, p, young)
            THEN /\ cache' = InsertOld(cache, p, thumb[p].of)
                 /\ win' = ForceUpdate(win, cache', p)
            ELSE UNCHANGED <<cache, win>>
  BY DEF ChildDone
<1>4. /\ cache' \in [Image -> EntryType]
      /\ \A q \in Image : q # p => cache'[q] = cache[q]
      /\ cache'[p].known = cache[p].known /\ cache'[p].stamp = cache[p].stamp
      /\ win' = [u \in Window |-> win'[u]]
      /\ \A u \in Window :
           /\ WinType(win'[u])
           /\ win'[u].open = win[u].open /\ win'[u].dir = win[u].dir
           /\ win'[u].thumbs = win[u].thumbs /\ win'[u].bar = win[u].bar
           /\ win'[u].queue = win[u].queue
           /\ \A q \in Image : q # p => win'[u].shown[q] = win[u].shown[q]
           /\ seen[p] # 0 /\ win[u].open /\ win[u].dir = DirOf[p] /\ win[u].thumbs
              /\ Found(cache', p)
              => \/ win'[u].shown[p] = cache'[p].image
                 \/ cache' = cache /\ win' = win
  <2>1. CASE Usable(thumb, p, young)
    <3> PICK n, c : n = thumb[p].of /\ c = cache'
      OBVIOUS
    <3>1. n \in Nat /\ c = InsertOld(cache, p, n) /\ win' = ForceUpdate(win, c, p)
      BY <1>1, <1>2, <1>3, <2>1 DEF ThumbTypes
    <3>2. /\ c \in [Image -> EntryType]
          /\ \A q \in Image : q # p => c[q] = cache[q]
          /\ c[p].known = cache[p].known /\ c[p].stamp = cache[p].stamp
      BY <1>1, <1>2, <3>1, InsertOldIs
    <3> PICK ws : ws = win
      OBVIOUS
    <3>3. ws = [u \in Window |-> ws[u]] /\ \A u \in Window : WinType(ws[u])
      BY <1>1 DEF ThumbTypes
    <3>4. /\ win' = [u \in Window |-> win'[u]]
          /\ \A u \in Window :
               /\ WinType(win'[u])
               /\ win'[u].open = ws[u].open /\ win'[u].dir = ws[u].dir
               /\ win'[u].thumbs = ws[u].thumbs /\ win'[u].bar = ws[u].bar
               /\ win'[u].queue = ws[u].queue
               /\ \A q \in Image : q # p => win'[u].shown[q] = ws[u].shown[q]
               /\ seen[p] # 0 /\ ws[u].open /\ ws[u].dir = DirOf[p]
                    => win'[u].shown[p] = Drawn(c, ws[u], p)
      <4>1. ThumbTypes /\ win' = ForceUpdate(ws, c, p) /\ c \in [Image -> EntryType]
        BY <1>1, <3>1, <3>2
      <4> QED BY <1>2, <3>3, <4>1, ForceUpdateIs
    <3>5. \A u \in Window : ws[u].thumbs /\ DirOf[p] = ws[u].dir /\ Found(c, p)
             => Drawn(c, ws[u], p) = c[p].image
      BY DrawnFound
    <3> QED BY <3>2, <3>4, <3>5
  <2>2. CASE ~Usable(thumb, p, young)
    <3>1. cache' = cache /\ win' = win
      BY <1>3, <2>2
    <3> QED BY <1>1, <3>1 DEF ThumbTypes
  <2> QED BY <2>1, <2>2
<1>5. NoKid.state = "none" /\ NoKid \in KidType
  BY DEF NoKid, KidType, KidState
<1>6. /\ kids' \in [Pid -> KidType] /\ kids'[i].state = "none"
      /\ \A j \in Pid : j # i => kids'[j] = kids[j]
  BY <1>1, <1>5 DEF ThumbTypes
<1>7. idle[w] \in Nat /\ idle' \in [Window -> Nat] /\ idle'[w] = idle[w] + 1
      /\ \A u \in Window : u # w => idle'[u] = idle[u]
  BY <1>1, <1>2 DEF ThumbTypes
<1>8. ThumbTypes'
  BY <1>1, <1>4, <1>6, <1>7 DEF ThumbTypes, Pid
<1>9. Placed'
  BY <1>1, <1>4, <1>6 DEF Placed, Pid
<1>10. CacheRight'
  <2>1. \A q \in Image : cache[q].stamp \in Nat /\ file[q] \in Nat
    BY <1>1 DEF ThumbTypes, EntryType
  <2>2. \A q \in Image : cache[q].known => cache'[q].known /\ cache'[q].stamp >= cache[q].stamp
    BY <1>4, <2>1
  <2>3. \A q \in Image : cache'[q].known /\ file[q] # 0 => cache'[q].stamp <= file[q]
    BY <1>1, <1>4 DEF CacheRight, StampsPast
  <2>4. \A j \in Pid : kids'[j].state # "none" => j # i
    BY <1>6
  <2>5. \A j \in Pid : kids'[j].state # "none" =>
               /\ kids[j].state # "none" /\ kids'[j].path = kids[j].path
               /\ kids'[j].version = kids[j].version /\ kids'[j].lost = kids[j].lost
    BY <1>6, <2>4
  <2> QED BY <1>1, <1>8, <2>2, <2>3, <2>5, CacheRightKept
<1>11. QueueServed'
  <2>1. /\ Cardinality(ChildrenOf(w)') = Cardinality(ChildrenOf(w)) - 1
        /\ \A u \in Window : u # w => ChildrenOf(u)' = ChildrenOf(u)
    BY <1>1, <1>2, <1>6, ChildEnded
  <2>2. refs[w] = idle[w] + Cardinality(ChildrenOf(w)) /\ Cardinality(ChildrenOf(w)) \in Nat
    BY <1>1, <1>2, ChildrenCounted DEF QueueServed
  <2>3. refs'[w] = idle'[w] + Cardinality(ChildrenOf(w)') /\ idle'[w] > 0
    BY <1>1, <1>7, <2>1, <2>2
  <2>4. win'[w].open /\ win'[w].queue # <<>> /\ ~Scanning(w)' => win'[w].bar
    BY <1>1, <1>2, <1>4 DEF QueueServed, Scanning
  <2>5. ASSUME NEW u \in Window, u # w
        PROVE  /\ win'[u].open /\ win'[u].bar => idle'[u] > 0 \/ ChildrenOf(u)' # {}
               /\ win'[u].open /\ win'[u].queue # <<>> /\ ~Scanning(u)' => win'[u].bar
               /\ refs'[u] = idle'[u] + Cardinality(ChildrenOf(u)')
    BY <1>1, <1>4, <1>7, <2>1, <2>5 DEF QueueServed, Scanning
  <2> QED BY <2>3, <2>4, <2>5 DEF QueueServed
<1>12. ShownAlways'
  <2>1. \A q \in Image : q # p => Found(cache, q)' = Found(cache, q)
    BY <1>1, <1>4 DEF Found
  <2>2. Found(cache, p)' = Found(cache', p)
    BY <1>1 DEF Found
  <2> SUFFICES ASSUME NEW u \in Window, NEW q \in Image,
                      win'[u].open, win'[u].thumbs, win'[u].dir = DirOf[q],
                      seen'[q] # 0, Found(cache, q)', cache'[q].image # 0
               PROVE  win'[u].shown[q] = cache'[q].image
    BY DEF ShownAlways
  <2>3. CASE q = p
    <3>1. \/ win'[u].shown[p] = cache'[p].image
          \/ cache' = cache /\ win' = win
      BY <1>1, <1>4, <2>2, <2>3
    <3>2. cache' = cache => Found(cache, p)
      BY <1>1, <2>2, <2>3 DEF Found
    <3> QED BY <1>1, <2>3, <3>1, <3>2 DEF ShownAlways
  <2>4. CASE q # p
    BY <1>1, <1>4, <2>1, <2>4 DEF ShownAlways
  <2> QED BY <2>3, <2>4
<1> QED BY <1>8, <1>9, <1>10, <1>11, <1>12 DEF ThumbInv

--------------------
(* The disk, the Directories and the purges. *)

(* Entries go, and with them the marks of what is being made; the files of *)
(* S are new, or gone. *)
LEMMA EntriesGo ==
    ASSUME ThumbInv, NEW S, Forgotten(S), file' = file,
           UNCHANGED <<seen, scan, thumb, win, idle, refs, moves>>, events' \in Nat
    PROVE  ThumbInv'
<1>1. ThumbTypes /\ Placed /\ CacheRight /\ QueueServed /\ ShownAlways
  BY DEF ThumbInv
<1>2. /\ cache' \in [Image -> EntryType] /\ kids' \in [Pid -> KidType]
      /\ \A p \in Image : IF p \in S THEN cache'[p] = NoEntry ELSE cache'[p] = cache[p]
      /\ \A i \in Pid :
            /\ kids'[i].path = kids[i].path /\ kids'[i].win = kids[i].win
            /\ kids'[i].version = kids[i].version /\ kids'[i].state = kids[i].state
            /\ kids'[i].lost = (kids[i].lost \/ (kids[i].path \in S /\ kids[i].state # "none"))
  BY <1>1, ForgottenIs
<1>3. ThumbTypes'
  BY <1>1, <1>2 DEF ThumbTypes, Pid
<1>4. Placed'
  BY <1>1, <1>2 DEF Placed, Pid
<1>5. StampsPast' /\ ShownAlways'
  <2>1. ~NoEntry.known
    BY DEF NoEntry
  <2>2. StampsPast'
    BY <1>1, <1>2, <2>1 DEF CacheRight, StampsPast
  <2>3. ShownAlways'
    BY <1>1, <1>2, <2>1 DEF ShownAlways, Found
  <2> QED BY <2>2, <2>3
<1>6. Marked'
  <2> SUFFICES ASSUME NEW i \in Pid, kids'[i].state # "none", ~kids'[i].lost,
                      kids'[i].version # 0
               PROVE  cache'[kids'[i].path].known
                      /\ cache'[kids'[i].path].stamp >= kids'[i].version
    BY DEF Marked, Pid
  <2>1. kids[i].path \in Image /\ kids[i].path \notin S /\ ~kids[i].lost
        /\ kids[i].state # "none" /\ kids[i].version # 0
    BY <1>1, <1>2 DEF Placed
  <2>2. cache'[kids[i].path] = cache[kids[i].path]
    BY <1>2, <2>1
  <2> QED BY <1>1, <1>2, <2>1, <2>2 DEF CacheRight, Marked
<1>7. OneChild'
  <2> SUFFICES ASSUME NEW i \in Pid, NEW j \in Pid, i # j, kids'[i].state # "none", kids'[j].state # "none",
                      kids'[i].path = kids'[j].path, kids'[i].version = kids'[j].version, kids'[i].version # 0
               PROVE  kids'[i].lost \/ kids'[j].lost
    BY DEF OneChild, Pid
  <2>1. kids[i].lost \/ kids[j].lost
    BY <1>1, <1>2 DEF CacheRight, OneChild
  <2> QED BY <1>2, <2>1
<1>8. QueueServed'
  <2>1. \A u \in Window : ChildrenOf(u)' = ChildrenOf(u)
    BY <1>2, ChildrenKept
  <2> QED BY <1>1, <2>1, QueueServedKept DEF Scanning
<1> QED BY <1>3, <1>4, <1>5, <1>6, <1>7, <1>8 DEF ThumbInv, CacheRight

LEMMA PurgeKeeps ==
    ASSUME ThumbInv, Purge
    PROVE  ThumbInv'
<1>1. /\ UNCHANGED <<file, seen, scan, thumb, win, idle, refs, moves>> /\ events' \in Nat
  BY DEF Purge, NoDiskChange, Event, ThumbInv, ThumbTypes
<1>2. PICK S : Forgotten(S)
  BY DEF Purge
<1> QED BY <1>1, <1>2, EntriesGo

(* A file changes: its entry is out of date, or belongs to another inode. *)
LEMMA ChangeKeeps ==
    ASSUME ThumbInv, NEW p \in Image, Change(p)
    PROVE  ThumbInv'
<1>1. /\ UNCHANGED <<seen, scan, thumb, win, idle, refs, moves>> /\ events' \in Nat
      /\ ThumbTypes /\ Placed /\ CacheRight /\ QueueServed /\ ShownAlways
  BY DEF Change, Event, ThumbInv, ThumbTypes
<1>2. PICK v \in {0, file[p] + 1} \cap Version : file' = [file EXCEPT ![p] = v]
  BY DEF Change
<1>3. /\ file' \in [Image -> Nat] /\ file'[p] = v /\ (v # 0 => v = file[p] + 1)
      /\ \A q \in Image : q # p => file'[q] = file[q]
      /\ file[p] \in Nat /\ file[p] # 0
  BY <1>1, <1>2 DEF ThumbTypes, Change
<1>4. /\ cache' \in [Image -> EntryType] /\ kids' \in [Pid -> KidType]
      /\ \A q \in Image : q # p => cache'[q] = cache[q]
      /\ cache'[p] = cache[p] \/ cache'[p] = NoEntry
      /\ \A i \in Pid :
            /\ kids'[i].path = kids[i].path /\ kids'[i].win = kids[i].win
            /\ kids'[i].version = kids[i].version /\ kids'[i].state = kids[i].state
            /\ kids[i].lost => kids'[i].lost
            /\ kids[i].path = p /\ kids[i].state # "none" /\ cache'[p] # cache[p]
                 => kids'[i].lost
  <2>1. CASE Forgotten({p})
    <3> PICK S : S = {p}
      OBVIOUS
    <3>1. /\ cache' \in [Image -> EntryType] /\ kids' \in [Pid -> KidType]
          /\ \A q \in Image : IF q \in S THEN cache'[q] = NoEntry ELSE cache'[q] = cache[q]
          /\ \A i \in Pid :
                /\ kids'[i].path = kids[i].path /\ kids'[i].win = kids[i].win
                /\ kids'[i].version = kids[i].version /\ kids'[i].state = kids[i].state
                /\ kids'[i].lost = (kids[i].lost \/ (kids[i].path \in S /\ kids[i].state # "none"))
      BY <1>1, <2>1, ForgottenIs
    <3> QED BY <3>1
  <2>2. CASE UNCHANGED <<cache, kids>>
    BY <1>1, <2>2 DEF ThumbTypes
  <2> QED BY <2>1, <2>2 DEF Change
<1>5. ~NoEntry.known
  BY DEF NoEntry
<1>6. ThumbTypes'
  BY <1>1, <1>3, <1>4 DEF ThumbTypes, Pid
<1>7. Placed'
  BY <1>1, <1>4 DEF Placed, Pid
<1>8. \A q \in Image : q # p => Found(cache, q)' = Found(cache, q)
  BY <1>3, <1>4 DEF Found
<1>9. cache[p].known => cache[p].stamp <= file[p] /\ cache[p].stamp \in Nat
  BY <1>1, <1>3 DEF CacheRight, StampsPast, ThumbTypes, EntryType
<1>10. ~Found(cache, p)'
  BY <1>3, <1>4, <1>5, <1>9 DEF Found
<1>11. StampsPast'
  <2>1. cache'[p].known /\ file'[p] # 0 => cache'[p].stamp <= file'[p]
    BY <1>3, <1>4, <1>5, <1>9
  <2> QED BY <1>1, <1>3, <1>4, <2>1 DEF CacheRight, StampsPast
<1>12. Marked'
  <2> SUFFICES ASSUME NEW i \in Pid, kids'[i].state # "none", ~kids'[i].lost,
                      kids'[i].version # 0
               PROVE  cache'[kids'[i].path].known
                      /\ cache'[kids'[i].path].stamp >= kids'[i].version
    BY DEF Marked, Pid
  <2>1. kids[i].path \in Image /\ ~kids[i].lost
        /\ kids[i].state # "none" /\ kids[i].version # 0
    BY <1>1, <1>4 DEF Placed
  <2>2. cache'[kids[i].path] = cache[kids[i].path]
    BY <1>4, <2>1
  <2> QED BY <1>1, <1>4, <2>1, <2>2 DEF CacheRight, Marked
<1>13. OneChild'
  BY <1>1, <1>4 DEF CacheRight, OneChild, Pid
<1>14. QueueServed'
  <2>1. \A u \in Window : ChildrenOf(u)' = ChildrenOf(u)
    BY <1>4, ChildrenKept
  <2> QED BY <1>1, <2>1, QueueServedKept DEF Scanning
<1>15. ShownAlways'
  BY <1>1, <1>4, <1>8, <1>10 DEF ShownAlways
<1> QED BY <1>6, <1>7, <1>11, <1>12, <1>13, <1>14, <1>15 DEF ThumbInv, CacheRight

(* Only the file in ~/.thumbnails goes. *)
LEMMA DeleteThumbKeeps ==
    ASSUME ThumbInv, NEW p \in Image, DeleteThumb(p)
    PROVE  ThumbInv'
<1>1. /\ UNCHANGED <<file, seen, scan, cache, win, idle, refs, kids, moves>>
      /\ thumb' = [thumb EXCEPT ![p] = NoThumb] /\ events' \in Nat
  BY DEF DeleteThumb, NoDiskChange, Event, ThumbInv, ThumbTypes
<1>2. ThumbTypes'
  BY <1>1 DEF ThumbInv, ThumbTypes, NoThumb, Pid
<1>3. CacheRight' /\ \A u \in Window : ChildrenOf(u)' = ChildrenOf(u)
  BY <1>1, CacheUntouched
<1>4. Placed' /\ ShownAlways'
  BY <1>1 DEF ThumbInv, Placed, ShownAlways, Found, Pid
<1>5. QueueServed'
  BY <1>1, <1>3 DEF ThumbInv, QueueServed, Scanning
<1> QED BY <1>2, <1>3, <1>4, <1>5 DEF ThumbInv

LEMMA StartScanKeeps ==
    ASSUME ThumbInv, NEW d \in Dir, StartScan(d)
    PROVE  ThumbInv'
<1>1. /\ UNCHANGED <<file, seen, thumb, cache, win, idle, refs, kids, moves, events>>
      /\ scan' = [scan EXCEPT ![d] = "scanning"]
  BY DEF StartScan, NoCacheChange
<1>2. ThumbTypes'
  BY <1>1 DEF ThumbInv, ThumbTypes, Pid
<1>3. CacheRight' /\ \A u \in Window : ChildrenOf(u)' = ChildrenOf(u)
  BY <1>1, CacheUntouched
<1>4. Placed' /\ ShownAlways'
  BY <1>1 DEF ThumbInv, Placed, ShownAlways, Found, Pid
<1>5. QueueServed'
  <2>1. \A u \in Window : win[u].open /\ ~Scanning(u)' => ~Scanning(u)
    BY <1>1 DEF ThumbInv, ThumbTypes, Placed, Scanning
  <2> QED BY <1>1, <1>3, <2>1 DEF ThumbInv, QueueServed
<1> QED BY <1>2, <1>3, <1>4, <1>5 DEF ThumbInv

(* The windows are told of what has changed, and look for what is missing. *)
LEMMA EndScanKeeps ==
    ASSUME ThumbInv, NEW d \in Dir, EndScan(d)
    PROVE  ThumbInv'
<1>1. /\ UNCHANGED <<file, thumb, cache, kids, moves, events>>
      /\ ThumbTypes /\ Placed /\ CacheRight /\ QueueServed /\ ShownAlways
      /\ scan' = [scan EXCEPT ![d] = "known"]
  BY DEF EndScan, NoCacheChange, ThumbInv
<1>2. PICK news, now, users :
        /\ news  = {p \in Image : DirOf[p] = d /\ seen[p] # file[p]}
        /\ now   = [p \in Image |-> IF DirOf[p] = d THEN file[p] ELSE seen[p]]
        /\ users = {w \in Window : win[w].open /\ win[w].dir = d}
  OBVIOUS
<1>3. PICK ws : ws = [w \in Window |->
        IF w \in users THEN CreateThumbs(cache, Redrawn(cache, win[w], now, news), now)
        ELSE win[w]]
  OBVIOUS
<1>4. seen' = now /\ StartThumbs(ws, users)
  BY <1>2, <1>3 DEF EndScan
<1>5. now \in [Image -> Nat] /\ cache \in [Image -> EntryType]
  BY <1>1, <1>2 DEF ThumbTypes
<1>6. ASSUME NEW w \in Window
      PROVE  /\ WinType(ws[w])
             /\ ws[w].open = win[w].open /\ ws[w].dir = win[w].dir
             /\ ws[w].thumbs = win[w].thumbs /\ ws[w].bar = win[w].bar
             /\ w \notin users => ws[w] = win[w]
             /\ w \in users => \A p \in Image :
                  ws[w].shown[p] = IF p \notin news THEN win[w].shown[p]
                                   ELSE IF now[p] = 0 THEN 0 ELSE Drawn(cache, win[w], p)
  <2>1. WinType(win[w])
    BY <1>1 DEF ThumbTypes
  <2> PICK v : v = Redrawn(cache, win[w], now, news)
    OBVIOUS
  <2>2. /\ WinType(v)
        /\ v.open = win[w].open /\ v.dir = win[w].dir /\ v.thumbs = win[w].thumbs
        /\ v.bar = win[w].bar
        /\ \A p \in Image : v.shown[p] = IF p \notin news THEN win[w].shown[p]
                                         ELSE IF now[p] = 0 THEN 0 ELSE Drawn(cache, win[w], p)
    BY <1>5, <2>1, RedrawnIs
  <2> PICK u : u = CreateThumbs(cache, v, now)
    OBVIOUS
  <2>3. /\ WinType(u)
        /\ u.open = v.open /\ u.dir = v.dir /\ u.thumbs = v.thumbs /\ u.bar = v.bar
        /\ u.shown = v.shown
    BY <2>2, CreateThumbsIs
  <2>4. ws[w] = IF w \in users THEN u ELSE win[w]
    BY <1>3
  <2> QED BY <2>1, <2>2, <2>3, <2>4
<1>7. \A w \in Window :
        /\ win'[w].open = win[w].open /\ win'[w].dir = win[w].dir
        /\ win'[w].thumbs = win[w].thumbs /\ win'[w].shown = ws[w].shown
  <2>1. \A w \in Window : WinType(ws[w])
    BY <1>6
  <2>2. \A w \in Window :
          /\ win'[w].open = ws[w].open /\ win'[w].dir = ws[w].dir
          /\ win'[w].thumbs = ws[w].thumbs /\ win'[w].shown = ws[w].shown
    <3>1. StartThumbs(ws, users)
      BY <1>4
    <3> QED BY <2>1, <3>1, StartIs
  <2>3. \A w \in Window : ws[w].open = win[w].open /\ ws[w].dir = win[w].dir
                          /\ ws[w].thumbs = win[w].thumbs
    BY <1>6
  <2> QED BY <2>2, <2>3
<1>8. ThumbTypes'
  <2>1. scan' \in [Dir -> {"unread", "scanning", "known"}]
    BY <1>1 DEF ThumbTypes
  <2>2. /\ idle' \in [Window -> Nat] /\ refs' \in [Window -> Nat]
        /\ win' = [w \in Window |-> win'[w]] /\ \A w \in Window : WinType(win'[w])
    BY <1>1, <1>4, <1>6, StartTypes
  <2> QED BY <1>1, <1>4, <1>5, <2>1, <2>2 DEF ThumbTypes, Pid
<1>9. Placed'
  BY <1>1, <1>7 DEF Placed, Pid
<1>10. CacheRight'
  BY <1>1, CacheUntouched
<1>11. QueueServed'
  <2>1. \A w \in Window : ws[w].open /\ ws[w].bar => win[w].open /\ win[w].bar
    BY <1>6
  <2>2. \A w \in Window : /\ ws[w].open /\ ws[w].queue # <<>> /\ ~ws[w].bar
                          /\ ~(scan'[ws[w].dir] # "known")
                          => w \in users
    <3> SUFFICES ASSUME NEW w \in Window, w \notin users,
                        ws[w].open, ws[w].queue # <<>>, ~ws[w].bar,
                        scan'[ws[w].dir] = "known"
                 PROVE  FALSE
      OBVIOUS
    <3>1. ws[w] = win[w] /\ win[w].dir # d
      BY <1>6, <1>2
    <3>2. scan[win[w].dir] = "known"
      BY <1>1, <3>1 DEF ThumbTypes, Placed
    <3> QED BY <1>1, <3>1, <3>2 DEF QueueServed, Scanning
  <2>3. ThumbTypes /\ QueueServed /\ kids' = kids /\ StartThumbs(ws, users)
        /\ \A w \in Window : WinType(ws[w])
    BY <1>1, <1>4, <1>6
  <2> QED BY <2>1, <2>2, <2>3, QueueServedStart
<1>12. ShownAlways'
  <2> SUFFICES ASSUME NEW w \in Window, NEW p \in Image,
                      win'[w].open, win'[w].thumbs, win'[w].dir = DirOf[p],
                      seen'[p] # 0, Found(cache, p)', cache'[p].image # 0
               PROVE  win'[w].shown[p] = cache'[p].image
    BY DEF ShownAlways
  <2>1. /\ win[w].open /\ win[w].thumbs /\ win[w].dir = DirOf[p] /\ now[p] # 0
        /\ Found(cache, p) /\ cache[p].image # 0 /\ win'[w].shown = ws[w].shown
        /\ cache' = cache
    BY <1>1, <1>4, <1>7 DEF Found
  <2>2. CASE p \in news
    <3>1. w \in users
      BY <1>2, <2>1, <2>2
    <3>2. ws[w].shown[p] = Drawn(cache, win[w], p)
      <4>1. ws[w].shown[p] = IF p \notin news THEN win[w].shown[p]
                             ELSE IF now[p] = 0 THEN 0 ELSE Drawn(cache, win[w], p)
        BY <1>6, <3>1
      <4> QED BY <2>1, <2>2, <4>1
    <3> QED BY <2>1, <3>2, DrawnFound
  <2>3. CASE p \notin news
    <3>1. now[p] = seen[p]
      BY <1>1, <1>2, <2>3 DEF ThumbTypes
    <3>2. ws[w].shown[p] = win[w].shown[p]
      BY <1>6, <2>3
    <3> QED BY <1>1, <2>1, <3>1, <3>2 DEF ShownAlways
  <2> QED BY <2>2, <2>3
<1> QED BY <1>8, <1>9, <1>10, <1>11, <1>12 DEF ThumbInv

--------------------
(* The theorems. *)

LEMMA ThumbStutter == ThumbInv /\ UNCHANGED thumbVars => ThumbInv'
<1> SUFFICES ASSUME ThumbInv, UNCHANGED thumbVars PROVE ThumbInv'
  OBVIOUS
<1>1. UNCHANGED <<file, seen, scan, thumb, cache, win, idle, refs, kids, moves, events>>
  BY DEF thumbVars
<1>2. CacheRight' /\ \A u \in Window : ChildrenOf(u)' = ChildrenOf(u)
  BY <1>1, CacheUntouched
<1>3. ThumbTypes' /\ Placed' /\ ShownAlways'
  BY <1>1 DEF ThumbInv, ThumbTypes, Placed, ShownAlways, Found, Pid
<1>4. QueueServed'
  BY <1>1, <1>2 DEF ThumbInv, QueueServed, Scanning
<1> QED BY <1>2, <1>3, <1>4 DEF ThumbInv

LEMMA ThumbStep == ThumbInv /\ ThumbNext => ThumbInv'
<1> SUFFICES ASSUME ThumbInv, ThumbNext PROVE ThumbInv'
  OBVIOUS
<1>1. CASE Filer
  <2>1. ASSUME NEW w \in Window,
               NextGone(w) \/ NextNone(w) \/ NextLoaded(w) \/ NextMissing(w)
        PROVE  ThumbInv'
    BY <2>1, NextGoneKeeps, NextNoneKeeps, NextLoadedKeeps, NextMissingKeeps
  <2>2. ASSUME NEW d \in Dir, EndScan(d) \/ StartScan(d) PROVE ThumbInv'
    BY <2>2, EndScanKeeps, StartScanKeeps
  <2>3. ASSUME NEW i \in Pid, ChildDone(i) PROVE ThumbInv'
    BY <2>3, ChildDoneKeeps
  <2> QED BY <1>1, <2>1, <2>2, <2>3 DEF Filer
<1>2. CASE UserOfWindow
  <2>1. ASSUME NEW w \in Window, CloseWindow(w) \/ SetThumbs(w) \/ CancelThumbs(w)
        PROVE  ThumbInv'
    BY <2>1, CloseWindowKeeps, SetThumbsKeeps, CancelThumbsKeeps
  <2>2. ASSUME NEW w \in Window, NEW d \in Dir, OpenWindow(w, d) \/ ChangeTo(w, d)
        PROVE  ThumbInv'
    BY <2>2, OpenWindowKeeps, ChangeToKeeps
  <2> QED BY <1>2, <2>1, <2>2 DEF UserOfWindow
<1>3. CASE Children
  <2>1. ASSUME NEW i \in Pid, ChildLoads(i) \/ ChildSaves(i) PROVE ThumbInv'
    BY <2>1, ChildLoadsKeeps, ChildSavesKeeps
  <2> QED BY <1>3, <2>1 DEF Children
<1>4. CASE Others
  <2>1. ASSUME Purge PROVE ThumbInv'
    BY <2>1, PurgeKeeps
  <2>2. ASSUME NEW p \in Image, Change(p) \/ DeleteThumb(p) PROVE ThumbInv'
    BY <2>2, ChangeKeeps, DeleteThumbKeeps
  <2> QED BY <1>4, <2>1, <2>2 DEF Others
<1> QED BY <1>1, <1>2, <1>3, <1>4 DEF ThumbNext

(* The invariant holds in every state of the specification: filer.c keeps *)
(* a chain for every bar and a reference for every chain, and pixmaps.c a *)
(* mark in the cache for every child. *)
THEOREM ThumbInductive == ThumbSpec => []ThumbInv
<1>1. ThumbInit => ThumbInv
  BY ThumbInitial
<1>2. ThumbInv /\ [ThumbNext]_thumbVars => ThumbInv'
  BY ThumbStep, ThumbStutter
<1> QED BY <1>1, <1>2, PTL DEF ThumbSpec

(* Queues are served, references counted, no image is made twice for the *)
(* same version of its file, and what is loaded for one window every *)
(* window that lists it shows, for any windows, images and children. *)
THEOREM ThumbsAlwaysRight == ThumbSpec => []ThumbsRight
<1>1. ThumbInv => ThumbsRight
  BY DEF ThumbInv, CacheRight, ShownAlways, ThumbsRight, ImagesShared, EveryWindowShows
<1> QED BY <1>1, ThumbInductive, PTL

--------------------
(* The bookmarks.  The cache of XML files holds, while it is fresh, what *)
(* is in the file; what the user asked for is in the file while that can *)
(* be read, and otherwise in the document; and nothing else is shown in an *)
(* editor that nobody else has written behind. *)
BmShape(b) ==
    b \in [file  : [there : BOOLEAN, ok : BOOLEAN, list : {b.file.list}],
           doc   : [has : BOOLEAN, list : {b.doc.list}],
           cache : [fresh : BOOLEAN, ok : BOOLEAN, list : {b.cache.list}]]

CacheTrue(b) ==
    b.cache.fresh => b.file.there /\ b.cache.ok = b.file.ok /\ b.cache.list = b.file.list

NoFileYet(b) == ~b.file.there => b.file.ok /\ b.file.list = <<>> /\ b.doc.list = <<>>

(* What was asked for is where it will be read from. *)
KeptIn(b, list) ==
    /\ b.file.ok => b.file.list = list
    /\ ~b.file.ok => b.doc.list = list

MarksInv ==
    /\ BmShape(bm) /\ CacheTrue(bm) /\ NoFileYet(bm)
    /\ editor = [open |-> editor.open, rows |-> editor.rows] /\ editor.open \in BOOLEAN
    /\ raced \in BOOLEAN /\ (raced => editor.open)
    /\ ~raced => /\ KeptIn(bm, wanted)
                 /\ editor.open => editor.rows = wanted /\ bm.doc.list = wanted

(* update_bookmarks leaves the file alone, and the document has what is in *)
(* it if it can be read. *)
Updated(b, c) ==
    /\ BmShape(c) /\ CacheTrue(c) /\ NoFileYet(c)
    /\ c.file = b.file
    /\ c.doc.list = IF b.file.ok THEN b.file.list ELSE b.doc.list

LEMMA UpdateIs ==
    ASSUME NEW b, BmShape(b), CacheTrue(b), NoFileYet(b)
    PROVE  Updated(b, UpdateBookmarks(b))
<1>1. CASE ~b.file.there
  <2> DEFINE c == [file  |-> [there |-> b.file.there, ok |-> b.file.ok, list |-> b.file.list],
                   doc   |-> [has |-> TRUE, list |-> b.doc.list],
                   cache |-> [fresh |-> b.cache.fresh, ok |-> b.cache.ok, list |-> b.cache.list]]
  <2>1. UpdateBookmarks(b) = c
    BY <1>1 DEF UpdateBookmarks, BmShape
  <2>2. Updated(b, c)
    BY <1>1 DEF Updated, BmShape, CacheTrue, NoFileYet
  <2> QED BY <2>1, <2>2
<1>2. CASE b.file.there
  <2> DEFINE list == IF b.file.ok THEN b.file.list ELSE b.doc.list
             c == [file  |-> [there |-> b.file.there, ok |-> b.file.ok, list |-> b.file.list],
                   doc   |-> [has |-> TRUE, list |-> list],
                   cache |-> [fresh |-> TRUE, ok |-> b.file.ok, list |-> b.file.list]]
  <2>1. XmlLoad(b) = [fresh |-> TRUE, ok |-> b.file.ok, list |-> b.file.list]
    BY DEF XmlLoad, BmShape, CacheTrue
  <2>2. UpdateBookmarks(b) = c
    <3>1. PICK yes \in BOOLEAN : yes = TRUE
      OBVIOUS
    <3>2. UpdateBookmarks(b)
          = [b EXCEPT !.cache = [fresh |-> yes, ok |-> b.file.ok, list |-> b.file.list],
                      !.doc = [has |-> yes, list |-> list]]
      BY <1>2, <2>1, <3>1 DEF UpdateBookmarks
    <3>3. PICK text : text = list
      OBVIOUS
    <3> HIDE DEF list
    <3>4. [b EXCEPT !.cache = [fresh |-> yes, ok |-> b.file.ok, list |-> b.file.list],
                    !.doc = [has |-> yes, list |-> text]]
          = [file  |-> [there |-> b.file.there, ok |-> b.file.ok, list |-> b.file.list],
             doc   |-> [has |-> yes, list |-> text],
             cache |-> [fresh |-> yes, ok |-> b.file.ok, list |-> b.file.list]]
      <4>1. PICK x : x = [fresh |-> yes, ok |-> b.file.ok, list |-> b.file.list]
        OBVIOUS
      <4>2. PICK y : y = [has |-> yes, list |-> text]
        OBVIOUS
      <4>3. b = [file |-> b.file, doc |-> b.doc, cache |-> b.cache]
            /\ b.file = [there |-> b.file.there, ok |-> b.file.ok, list |-> b.file.list]
        BY DEF BmShape
      <4>4. [b EXCEPT !.cache = x, !.doc = y] = [file |-> b.file, doc |-> y, cache |-> x]
        <5>1. b \in [file : {b.file}, doc : {b.doc}, cache : {b.cache}]
          BY <4>3
        <5>2. [b EXCEPT !.cache = x, !.doc = y] \in [file : {b.file}, doc : {y}, cache : {x}]
          BY <5>1
        <5>3. \A z \in [file : {b.file}, doc : {y}, cache : {x}] :
                 z = [file |-> b.file, doc |-> y, cache |-> x]
          OBVIOUS
        <5> QED BY <5>2, <5>3, Zenon
      <4> QED BY <4>1, <4>2, <4>3, <4>4
    <3> QED BY <1>2, <3>1, <3>2, <3>3, <3>4
  <2>3. Updated(b, c)
    BY <1>2 DEF Updated, BmShape, CacheTrue, NoFileYet
  <2> QED BY <2>2, <2>3
<1> QED BY <1>1, <1>2 DEF BmShape

(* Whatever the document is, once it is saved the file has it, or is cut. *)
SavedAs(c, list) ==
    /\ BmShape(c) /\ CacheTrue(c) /\ NoFileYet(c)
    /\ KeptIn(c, list) /\ c.doc.list = list

LEMMA SaveIs ==
    ASSUME NEW b, BmShape(b), NEW list, NEW has \in BOOLEAN, NEW whole \in BOOLEAN
    PROVE  SavedAs(BookmarksSave([b EXCEPT !.doc = [has |-> has, list |-> list]], whole), list)
<1> DEFINE c == [file  |-> [there |-> TRUE, ok |-> whole, list |-> IF whole THEN list ELSE <<>>],
                 doc   |-> [has |-> has, list |-> list],
                 cache |-> [fresh |-> FALSE, ok |-> b.cache.ok, list |-> b.cache.list]]
<1>1. BookmarksSave([b EXCEPT !.doc = [has |-> has, list |-> list]], whole) = c
  <2>1. PICK yes \in BOOLEAN : yes = TRUE
    OBVIOUS
  <2>2. PICK no \in BOOLEAN : no = FALSE
    OBVIOUS
  <2>3. PICK kept : kept = IF whole THEN list ELSE <<>>
    OBVIOUS
  <2>4. PICK d : d = [b EXCEPT !.doc = [has |-> has, list |-> list]]
    OBVIOUS
  <2>5. /\ d.doc = [has |-> has, list |-> list] /\ d.doc.list = list
        /\ d = [file |-> b.file, doc |-> [has |-> has, list |-> list], cache |-> b.cache]
    BY <2>4 DEF BmShape
  <2>6. BookmarksSave(d, whole)
        = [d EXCEPT !.file = [there |-> yes, ok |-> whole, list |-> kept], !.cache.fresh = no]
    BY <2>1, <2>2, <2>3, <2>5 DEF BookmarksSave
  <2>7. [d EXCEPT !.file = [there |-> yes, ok |-> whole, list |-> kept], !.cache.fresh = no]
        = [file  |-> [there |-> yes, ok |-> whole, list |-> kept],
           doc   |-> [has |-> has, list |-> list],
           cache |-> [fresh |-> no, ok |-> b.cache.ok, list |-> b.cache.list]]
    <3>1. PICK x : x = [there |-> yes, ok |-> whole, list |-> kept]
      OBVIOUS
    <3>2. PICK y : y = [d.cache EXCEPT !.fresh = no]
      OBVIOUS
    <3>3. [d EXCEPT !.file = x, !.cache.fresh = no] = [d EXCEPT !.file = x, !.cache = y]
      BY <3>2, <2>5
    <3>4. [d EXCEPT !.file = x, !.cache = y]
          = [file |-> x, doc |-> [has |-> has, list |-> list], cache |-> y]
      <4>1. PICK g : g = [has |-> has, list |-> list]
        OBVIOUS
      <4>2. d \in [file : {d.file}, doc : {g}, cache : {d.cache}]
        BY <2>5, <4>1
      <4>3. [d EXCEPT !.file = x, !.cache = y] \in [file : {x}, doc : {g}, cache : {y}]
        BY <4>2
      <4>4. \A z \in [file : {x}, doc : {g}, cache : {y}] : z = [file |-> x, doc |-> g, cache |-> y]
        OBVIOUS
      <4>5. [d EXCEPT !.file = x, !.cache = y] = [file |-> x, doc |-> g, cache |-> y]
        BY <4>3, <4>4, Zenon
      <4> QED BY <4>1, <4>5, Zenon
    <3>5. d.cache = b.cache /\ b.cache = [fresh |-> b.cache.fresh, ok |-> b.cache.ok, list |-> b.cache.list]
      BY <2>5 DEF BmShape
    <3>6. y = [fresh |-> no, ok |-> b.cache.ok, list |-> b.cache.list]
      BY <3>2, <3>5
    <3> QED BY <3>1, <3>3, <3>4, <3>6
  <2> QED BY <2>1, <2>2, <2>3, <2>4, <2>6, <2>7
<1>2. SavedAs(c, list)
  BY DEF SavedAs, BmShape, CacheTrue, NoFileYet, KeptIn
<1> QED BY <1>1, <1>2

LEMMA MarksStart == BookmarksInit => MarksInv
<1> SUFFICES ASSUME BookmarksInit PROVE MarksInv
  OBVIOUS
<1>1. PICK there \in BOOLEAN, ok \in BOOLEAN, marks \in ShortList :
          /\ ok \/ marks = <<>>
          /\ there \/ (ok /\ marks = <<>>)
          /\ bm = [file |-> [there |-> there, ok |-> ok, list |-> marks], doc |-> Nothing0, cache |-> Uncached]
          /\ wanted = marks
  BY DEF BookmarksInit
<1>2. bm = [file  |-> [there |-> there, ok |-> ok, list |-> marks],
            doc   |-> [has |-> FALSE, list |-> <<>>],
            cache |-> [fresh |-> FALSE, ok |-> FALSE, list |-> <<>>]]
  BY <1>1 DEF Nothing0, Uncached
<1>3. /\ bm.file.there = there /\ bm.file.ok = ok /\ bm.file.list = marks
      /\ bm.doc.list = <<>> /\ bm.cache.fresh = FALSE
  BY <1>2
<1>4. BmShape(bm)
  BY <1>2 DEF BmShape
<1>5. CacheTrue(bm) /\ NoFileYet(bm) /\ KeptIn(bm, wanted)
  BY <1>1, <1>3 DEF CacheTrue, NoFileYet, KeptIn
<1> QED BY <1>4, <1>5 DEF MarksInv, BookmarksInit

LEMMA MarksInvKept == MarksInv => MarksKept
BY UpdateIs DEF MarksInv, MarksKept, Updated, KeptIn

(* The document is read anew, and nothing is changed in it. *)
LEMMA ReadAnewKeeps ==
    ASSUME MarksInv, bm' = UpdateBookmarks(bm), UNCHANGED <<wanted, raced>>,
           \/ UNCHANGED editor
           \/ ~editor.open /\ editor' = [open |-> TRUE, rows |-> bm'.doc.list]
    PROVE  MarksInv'
<1>1. Updated(bm, bm')
  BY UpdateIs DEF MarksInv
<1>2. ~raced => KeptIn(bm', wanted) /\ bm'.doc.list = wanted
  BY <1>1 DEF MarksInv, Updated, KeptIn
<1>3. CASE UNCHANGED editor
  BY <1>1, <1>2, <1>3 DEF MarksInv, Updated
<1>4. CASE ~editor.open /\ editor' = [open |-> TRUE, rows |-> bm'.doc.list]
  BY <1>1, <1>2, <1>4 DEF MarksInv, Updated
<1> QED BY <1>3, <1>4

LEMMA AddDirKeeps == ASSUME MarksInv, NEW d, AddDir(d) PROVE MarksInv'
<1> DEFINE b == UpdateBookmarks(bm)
           list == Append(b.doc.list, d)
<1>1. Updated(bm, b)
  BY UpdateIs DEF MarksInv
<1>2. PICK whole \in BOOLEAN : bm' = BookmarksSave([b EXCEPT !.doc.list = list], whole)
  BY DEF AddDir
<1>3. [b EXCEPT !.doc.list = list] = [b EXCEPT !.doc = [has |-> b.doc.has, list |-> list]]
  <2> HIDE DEF b
  <2> DEFINE new == list
  <2> HIDE DEF list
  <2> QED BY <1>1 DEF Updated, BmShape
<1>4. BmShape(bm') /\ CacheTrue(bm') /\ NoFileYet(bm') /\ KeptIn(bm', list)
  <2>1. BmShape(b) /\ b.doc.has \in BOOLEAN
    BY <1>1 DEF Updated, BmShape
  <2> HIDE DEF b, list
  <2>2. SavedAs(bm', list)
    BY <1>2, <1>3, <2>1, SaveIs
  <2> QED BY <2>2 DEF SavedAs
<1>5. wanted' = list
  <2>1. wanted' = Append(IF raced THEN b.doc.list ELSE wanted, d)
    BY DEF AddDir
  <2>2. ~raced => b.doc.list = wanted
    BY <1>1 DEF MarksInv, Updated, KeptIn
  <2> QED BY <2>1, <2>2 DEF MarksInv
<1>6. editor' = [open |-> FALSE, rows |-> <<>>] /\ raced' = FALSE
  BY DEF AddDir
<1> QED BY <1>4, <1>5, <1>6 DEF MarksInv

LEMMA CommitKeeps ==
    ASSUME MarksInv, NEW rows, CommitEdits(rows), wanted' = rows,
           \/ editor' = [open |-> FALSE, rows |-> <<>>]
           \/ editor' = [editor EXCEPT !.rows = rows]
    PROVE  MarksInv'
<1>1. PICK whole \in BOOLEAN :
          bm' = BookmarksSave([bm EXCEPT !.doc = [has |-> TRUE, list |-> rows]], whole)
  BY DEF CommitEdits
<1>2. /\ BmShape(bm') /\ CacheTrue(bm') /\ NoFileYet(bm') /\ KeptIn(bm', rows)
      /\ bm'.doc.list = rows
  <2>1. BmShape(bm)
    BY DEF MarksInv
  <2>2. SavedAs(bm', rows)
    BY <1>1, <2>1, SaveIs
  <2> QED BY <2>2 DEF SavedAs
<1>3. raced' = FALSE
  BY DEF CommitEdits
<1>4. /\ editor' = [open |-> editor'.open, rows |-> editor'.rows] /\ editor'.open \in BOOLEAN
      /\ editor'.open => editor'.rows = rows
  <2>1. CASE editor' = [open |-> FALSE, rows |-> <<>>]
    BY <2>1
  <2>2. CASE editor' = [editor EXCEPT !.rows = rows]
    BY <2>2 DEF MarksInv
  <2> QED BY <2>1, <2>2
<1> QED BY <1>2, <1>3, <1>4 DEF MarksInv

LEMMA OthersKeep ==
    ASSUME MarksInv, OtherBreaks \/ Restart \/ PurgeXml \/ \E marks \in ShortList : OtherWrites(marks)
    PROVE  MarksInv'
<1> DEFINE Bm(there, ok, list, doc, xml) ==
              [file |-> [there |-> there, ok |-> ok, list |-> list],
               doc |-> [has |-> doc.has, list |-> doc.list],
               cache |-> [fresh |-> xml.fresh, ok |-> xml.ok, list |-> xml.list]]
<1>1. ASSUME NEW marks \in ShortList, OtherWrites(marks) PROVE MarksInv'
  <2>1. bm' = Bm(TRUE, TRUE, marks, bm.doc, [bm.cache EXCEPT !.fresh = FALSE])
    BY <1>1 DEF OtherWrites, MarksInv, BmShape
  <2>2. BmShape(bm') /\ CacheTrue(bm') /\ NoFileYet(bm') /\ KeptIn(bm', marks)
    BY <2>1 DEF BmShape, CacheTrue, NoFileYet, KeptIn, MarksInv
  <2> QED BY <1>1, <2>2 DEF OtherWrites, MarksInv
<1>2. CASE OtherBreaks
  <2>1. bm' = Bm(TRUE, FALSE, <<>>, bm.doc, [bm.cache EXCEPT !.fresh = FALSE])
    BY <1>2 DEF OtherBreaks, MarksInv, BmShape
  <2>2. /\ BmShape(bm') /\ CacheTrue(bm') /\ NoFileYet(bm') /\ KeptIn(bm', bm.doc.list)
        /\ bm'.doc.list = bm.doc.list
    BY <2>1 DEF BmShape, CacheTrue, NoFileYet, KeptIn, MarksInv
  <2> QED BY <1>2, <2>2 DEF OtherBreaks, MarksInv
<1>3. CASE Restart
  <2>1. bm' = Bm(bm.file.there, bm.file.ok, bm.file.list, Nothing0, Uncached)
    BY <1>3 DEF Restart, MarksInv, BmShape, Nothing0, Uncached
  <2>2. BmShape(bm') /\ CacheTrue(bm') /\ NoFileYet(bm')
    BY <2>1 DEF BmShape, CacheTrue, NoFileYet, MarksInv, Nothing0, Uncached
  <2>3. KeptIn(bm', wanted')
    BY <1>3, <2>1 DEF KeptIn, MarksInv, Nothing0, Restart, BmShape
  <2> QED BY <1>3, <2>2, <2>3 DEF Restart, MarksInv
<1>4. CASE PurgeXml
  <2>1. bm' = Bm(bm.file.there, bm.file.ok, bm.file.list, bm.doc, Uncached)
    BY <1>4 DEF PurgeXml, MarksInv, BmShape, Uncached
  <2>2. /\ BmShape(bm') /\ CacheTrue(bm') /\ NoFileYet(bm')
        /\ ~raced => KeptIn(bm', wanted)
        /\ bm'.doc.list = bm.doc.list
    BY <2>1 DEF BmShape, CacheTrue, NoFileYet, KeptIn, MarksInv, Uncached
  <2> QED BY <1>4, <2>2 DEF PurgeXml, MarksInv
<1> QED BY <1>1, <1>2, <1>3, <1>4

LEMMA MarksStep == MarksInv /\ MarksNext => MarksInv'
<1> SUFFICES ASSUME MarksInv, MarksNext PROVE MarksInv'
  OBVIOUS
<1>1. ASSUME NEW d \in Mark, Add(d) PROVE MarksInv'
  BY <1>1, ReadAnewKeeps, AddDirKeeps DEF Add
<1>2. ASSUME BuildMenu \/ Edit PROVE MarksInv'
  BY <1>2, ReadAnewKeeps DEF BuildMenu, Edit
<1>3. ASSUME NEW rows, NEW asked, EditRows(rows, asked), ~raced => asked = rows PROVE MarksInv'
  <2>1. /\ CommitEdits(rows) /\ editor' = [editor EXCEPT !.rows = rows]
        /\ wanted' = rows
    BY <1>3 DEF EditRows
  <2> QED BY <2>1, CommitKeeps
<1>4. ASSUME NEW d \in Mark, DirDropped(d) PROVE MarksInv'
  BY <1>3, <1>4 DEF DirDropped, MarksInv
<1>5. ASSUME NEW d \in Mark, NEW i, MarkEdited(i, d) PROVE MarksInv'
  BY <1>3, <1>5 DEF MarkEdited, MarksInv
<1>6. ASSUME EditResponse PROVE MarksInv'
  <2>1. /\ CommitEdits(editor.rows) /\ editor' = [open |-> FALSE, rows |-> <<>>]
        /\ wanted' = editor.rows
    BY <1>6 DEF EditResponse, MarksInv
  <2> QED BY <2>1, CommitKeeps
<1>7. ASSUME NEW K, EditDelete(K) PROVE MarksInv'
  BY <1>3, <1>7 DEF EditDelete, MarksInv
<1>8. ASSUME NEW i, Reorder(i) PROVE MarksInv'
  BY <1>3, <1>8 DEF Reorder, MarksInv
<1> QED BY <1>1, <1>2, <1>4, <1>5, <1>6, <1>7, <1>8, OthersKeep DEF MarksNext

--------------------
(* The directories visited.  The list is a short view of all the visits: *)
(* its order is that of the last visit to each, the table has what it has, *)
(* and what is not in it was followed by a child or by many others. *)

(* The place of x in a sequence, its first. *)
LastIn(s, x) == SelectInSeq(s, LAMBDA q : q = x)

LEMMA LastInIs ==
    ASSUME NEW S, NEW s \in Seq(S), NEW x
    PROVE  /\ \A n \in 1..Len(s) :
                 s[n] = x /\ (\A i \in 1..(n - 1) : s[i] # x) => LastIn(s, x) = n
           /\ x \in ToSet(s) =>
                 /\ LastIn(s, x) \in 1..Len(s) /\ s[LastIn(s, x)] = x
                 /\ \A i \in 1..(LastIn(s, x) - 1) : s[i] # x
<1> DEFINE I == {i \in 1..Len(s) : s[i] = x}
<1>1. LastIn(s, x) = IF I # {} THEN Min(I) ELSE 0
  BY DEF LastIn, SelectInSeq
<1>2. Len(s) \in Nat /\ DOMAIN s = 1..Len(s)
  OBVIOUS
<1>3. ASSUME NEW n \in I, \A i \in I : n <= i PROVE Min(I) = n
  BY <1>2, <1>3 DEF Min
<1>4. ASSUME NEW n \in 1..Len(s), s[n] = x, \A i \in 1..(n - 1) : s[i] # x
      PROVE  LastIn(s, x) = n
  <2>1. n \in I /\ \A i \in I : n <= i
    BY <1>2, <1>4
  <2> QED BY <1>1, <1>3, <2>1
<1>5. ASSUME x \in ToSet(s)
      PROVE  \E n \in 1..Len(s) : s[n] = x /\ \A i \in 1..(n - 1) : s[i] # x
  <2>1. I \subseteq Nat /\ I # {}
    BY <1>2, <1>5 DEF ToSet
  <2>2. PICK n \in I : \A i \in I : <<i, n>> \notin OpToRel(<, Nat)
    BY <2>1, WFMin, NatLessThanWellFounded, Zenon
  <2>3. \A i \in I : ~(i < n)
    BY <2>1, <2>2 DEF OpToRel
  <2>4. n \in 1..Len(s) /\ s[n] = x
    OBVIOUS
  <2>5. ASSUME NEW i \in 1..(n - 1), s[i] = x PROVE FALSE
    <3>1. i \in I /\ i < n
      BY <1>2, <2>4, <2>5
    <3> QED BY <2>3, <3>1
  <2> QED BY <2>4, <2>5
<1> QED BY <1>4, <1>5

(* What was visited since x was last. *)
After(s, x) == {s[i] : i \in 1..(LastIn(s, x) - 1)}

LEMMA LastInFirst ==
    ASSUME NEW S, NEW s \in Seq(S), NEW x, NEW n \in 1..Len(s),
           s[n] = x, \A i \in 1..(n - 1) : s[i] # x
    PROVE  LastIn(s, x) = n
BY LastInIs

LEMMA PrependedIs ==
    ASSUME NEW S, NEW s \in Seq(S), NEW p \in S
    PROVE  /\ <<p>> \o s \in Seq(S) /\ Len(<<p>> \o s) = Len(s) + 1
           /\ (<<p>> \o s)[1] = p
           /\ \A i \in 1..Len(s) : (<<p>> \o s)[i + 1] = s[i]
           /\ ToSet(<<p>> \o s) = {p} \cup ToSet(s)
<1> DEFINE t == <<p>> \o s
<1>1. t \in Seq(S) /\ Len(t) = Len(s) + 1
  OBVIOUS
<1>2. t[1] = p /\ \A i \in 1..Len(s) : t[i + 1] = s[i]
  OBVIOUS
<1>3. /\ DOMAIN t = 1..(Len(s) + 1) /\ DOMAIN s = 1..Len(s) /\ Len(s) \in Nat
      /\ \A i \in 2..(Len(s) + 1) : t[i] = s[i - 1]
  BY <1>1
<1> HIDE DEF t
<1>4. ToSet(t) = {p} \cup ToSet(s)
  <2>1. ASSUME NEW i \in DOMAIN t PROVE t[i] \in {p} \cup ToSet(s)
    <3>1. CASE i = 1
      BY <1>2, <3>1
    <3>2. CASE i # 1
      <4>1. i - 1 \in DOMAIN s /\ t[i] = s[i - 1]
        BY <1>3, <3>2
      <4> QED BY <4>1 DEF ToSet
    <3> QED BY <3>1, <3>2
  <2>2. ASSUME NEW i \in DOMAIN s PROVE s[i] \in ToSet(t)
    <3>1. i + 1 \in DOMAIN t /\ t[i + 1] = s[i]
      BY <1>2, <1>3
    <3> QED BY <3>1 DEF ToSet
  <2>3. p \in ToSet(t)
    BY <1>2, <1>3 DEF ToSet
  <2> QED BY <2>1, <2>2, <2>3 DEF ToSet
<1> QED BY <1>1, <1>2, <1>4 DEF t

Again(s, t, p) ==
    /\ LastIn(t, p) = 1 /\ After(t, p) = {}
    /\ \A q \in ToSet(s) \ {p} :
          LastIn(t, q) = LastIn(s, q) + 1 /\ After(t, q) = {p} \cup After(s, q)

LEMMA VisitedAgain ==
    ASSUME NEW S, NEW s \in Seq(S), NEW p \in S
    PROVE  Again(s, <<p>> \o s, p)
<1> DEFINE t == <<p>> \o s
<1>1. /\ t \in Seq(S) /\ Len(t) = Len(s) + 1 /\ Len(s) \in Nat /\ t[1] = p
      /\ \A i \in 1..Len(s) : t[i + 1] = s[i]
      /\ \A i \in 2..(Len(s) + 1) : i - 1 \in 1..Len(s) /\ t[i] = s[i - 1]
  BY PrependedIs
<1> HIDE DEF t
<1>2. LastIn(t, p) = 1
  BY <1>1, LastInIs
<1>3. After(t, p) = {}
  BY <1>2 DEF After
<1>4. ASSUME NEW q \in ToSet(s) \ {p}
      PROVE  LastIn(t, q) = LastIn(s, q) + 1 /\ After(t, q) = {p} \cup After(s, q)
  <2>1. /\ LastIn(s, q) \in 1..Len(s) /\ s[LastIn(s, q)] = q
        /\ \A i \in 1..(LastIn(s, q) - 1) : s[i] # q
    BY LastInIs
  <2> DEFINE n == LastIn(s, q)
  <2>2. n + 1 \in 1..Len(t) /\ t[n + 1] = q
    BY <1>1, <2>1
  <2>3. ASSUME NEW i \in 1..n PROVE t[i] # q /\ t[i] \in {p} \cup After(s, q)
    <3>1. CASE i = 1
      BY <1>1, <3>1
    <3>2. CASE i # 1
      <4>1. i - 1 \in 1..(n - 1) /\ t[i] = s[i - 1]
        BY <1>1, <2>1, <3>2
      <4> QED BY <2>1, <4>1 DEF After
    <3> QED BY <3>1, <3>2
  <2>4. LastIn(t, q) = n + 1
    <3>1. PICK m \in 1..Len(t) : m = n + 1
      BY <2>2
    <3>2. t[m] = q /\ \A i \in 1..(m - 1) : t[i] # q
      BY <2>1, <2>2, <2>3, <3>1
    <3>3. LastIn(t, q) = m
      <4> t \in Seq(S)
        BY <1>1
      <4> QED BY <3>2, LastInFirst
    <3> QED BY <3>1, <3>3
  <2>5. ASSUME NEW i \in 1..(n - 1) PROVE s[i] \in After(t, q)
    <3>1. i + 1 \in 1..(LastIn(t, q) - 1) /\ t[i + 1] = s[i]
      BY <1>1, <2>1, <2>4
    <3> QED BY <3>1 DEF After
  <2>6. p \in After(t, q)
    <3>1. 1 \in 1..(LastIn(t, q) - 1)
      BY <2>1, <2>4
    <3> QED BY <1>1, <3>1 DEF After
  <2>7. After(t, q) \subseteq {p} \cup After(s, q)
    BY <2>1, <2>3, <2>4 DEF After
  <2>8. After(s, q) \subseteq After(t, q)
    BY <2>5 DEF After
  <2> QED BY <2>4, <2>6, <2>7, <2>8
<1>5. Again(s, t, p)
  BY <1>2, <1>3, <1>4 DEF Again
<1> QED BY <1>5 DEF t

LEMMA AfterFinite ==
    ASSUME NEW S, NEW s \in Seq(S), NEW x, LastIn(s, x) \in Nat
    PROVE  IsFiniteSet(After(s, x)) /\ Cardinality(After(s, x)) \in Nat
<1> DEFINE D == 1..(LastIn(s, x) - 1)
           f == [i \in D |-> s[i]]
<1>1. IsFiniteSet(D)
  BY FS_Interval
<1>2. f \in Surjection(D, After(s, x))
  <2>1. f \in [D -> After(s, x)]
    BY DEF After
  <2>2. \A y \in After(s, x) : \E i \in D : f[i] = y
    BY DEF After
  <2> QED BY <2>1, <2>2 DEF Surjection
<1> HIDE DEF D, f
<1>3. IsFiniteSet(After(s, x))
  BY <1>1, <1>2, FS_Surjection
<1> QED BY <1>3, FS_CardinalityType

(* The list, the table, the tail and the count say the same. *)
Distinct(s) == \A i, j \in DOMAIN s : s[i] = s[j] => i = j
NoTail == ""
Held(h) ==
    /\ h \in [list : Seq(Visitable), hash : SUBSET Visitable, tail : Visitable \cup {NoTail}, free : Int]
    /\ h.hash = ToSet(h.list) /\ Distinct(h.list)
    /\ h.free = HistoryMax - Len(h.list)
    /\ h.tail = IF h.list = <<>> THEN NoTail ELSE Last(h.list)
InOrder(list, s) ==
    \A i, j \in DOMAIN list : i < j => LastIn(s, list[i]) < LastIn(s, list[j])

OneOut(s, r, k, S) ==
    /\ r \in Seq(S) /\ Len(r) = Len(s) - 1
    /\ \A i \in 1..(Len(s) - 1) : r[i] = IF i < k THEN s[i] ELSE s[i + 1]

LEMMA RemovedIs ==
    ASSUME NEW S, NEW s \in Seq(S), Distinct(s), NEW k \in 1..Len(s)
    PROVE  OneOut(s, RemoveFirst(s, s[k]), k, S)
<1> DEFINE r == SubSeq(s, 1, k - 1) \o SubSeq(s, k + 1, Len(s))
<1>1. SelectInSeq(s, LAMBDA v : v = s[k]) = k
  <2>1. \A i \in 1..(k - 1) : s[i] # s[k]
    BY DEF Distinct
  <2>2. LastIn(s, s[k]) = k
    BY <2>1, LastInFirst
  <2> QED BY <2>2 DEF LastIn
<1>2. RemoveFirst(s, s[k]) = r
  BY <1>1 DEF RemoveFirst, RemoveAt
<1> DEFINE front == SubSeq(s, 1, k - 1)
           rest  == SubSeq(s, k + 1, Len(s))
<1>5. Len(s) \in Nat /\ k \in Nat /\ k <= Len(s) /\ k >= 1 /\ \A i \in 1..Len(s) : s[i] \in S
  OBVIOUS
<1>6. /\ front \in Seq(S) /\ Len(front) = k - 1
      /\ \A i \in 1..(k - 1) : front[i] = s[i]
  <2>1. \A i \in 1..(k - 1) : s[i] \in S
    BY <1>5
  <2>2. /\ SubSeq(s, 1, k - 1) \in Seq(S)
        /\ Len(SubSeq(s, 1, k - 1)) = IF 1 <= k - 1 THEN k - 1 - 1 + 1 ELSE 0
        /\ \A i \in 1..(k - 1 - 1 + 1) : SubSeq(s, 1, k - 1)[i] = s[1 + i - 1]
    BY <1>5, <2>1, SubSeqProperties
  <2> QED BY <1>5, <2>2
<1>7. /\ rest \in Seq(S) /\ Len(rest) = Len(s) - k
      /\ \A i \in 1..(Len(s) - k) : rest[i] = s[k + i]
  <2>1. \A i \in (k + 1)..Len(s) : s[i] \in S
    BY <1>5
  <2>2. /\ SubSeq(s, k + 1, Len(s)) \in Seq(S)
        /\ Len(SubSeq(s, k + 1, Len(s))) = IF k + 1 <= Len(s) THEN Len(s) - (k + 1) + 1 ELSE 0
        /\ \A i \in 1..(Len(s) - (k + 1) + 1) : SubSeq(s, k + 1, Len(s))[i] = s[k + 1 + i - 1]
    BY <1>5, <2>1, SubSeqProperties
  <2> QED BY <1>5, <2>2
<1> HIDE DEF front, rest
<1>8. /\ front \o rest \in Seq(S) /\ Len(front \o rest) = Len(front) + Len(rest)
      /\ \A i \in 1..(Len(front) + Len(rest)) :
            (front \o rest)[i] = IF i <= Len(front) THEN front[i] ELSE rest[i - Len(front)]
  BY <1>6, <1>7, ConcatProperties
<1>9. r = front \o rest
  BY DEF front, rest
<1> HIDE DEF r
<1>3. r \in Seq(S) /\ Len(r) = Len(s) - 1
  <2>4. Len(front) = k - 1 /\ Len(rest) = Len(s) - k
    BY <1>6, <1>7
  <2>5. k - 1 \in Int /\ Len(s) - k \in Int
    BY <1>5
  <2>1. PICK n \in Int : n = Len(front) + Len(rest)
    BY <2>4, <2>5
  <2>2. r \in Seq(S) /\ Len(r) = n
    BY <1>8, <1>9, <2>1, Zenon
  <2>3. n = Len(s) - 1
    BY <1>5, <2>1, <2>4
  <2> QED BY <2>2, <2>3
<1>4. ASSUME NEW i \in 1..(Len(s) - 1) PROVE r[i] = IF i < k THEN s[i] ELSE s[i + 1]
  <2>1. CASE i < k
    <3>0. Len(front) = k - 1 /\ Len(rest) = Len(s) - k
      BY <1>6, <1>7
    <3>1. i \in 1..(Len(front) + Len(rest)) /\ i <= Len(front) /\ i \in 1..(k - 1)
      BY <1>5, <2>1, <3>0
    <3> QED BY <1>6, <1>8, <1>9, <2>1, <3>1
  <2>2. CASE ~(i < k)
    <3>1. /\ i \in 1..(Len(front) + Len(rest)) /\ ~(i <= Len(front))
          /\ i - Len(front) \in 1..(Len(s) - k) /\ k + (i - Len(front)) = i + 1
      <4>1. Len(front) = k - 1 /\ Len(rest) = Len(s) - k
        BY <1>6, <1>7
      <4> QED BY <1>5, <2>2, <4>1
    <3> QED BY <1>7, <1>8, <1>9, <2>2, <3>1
  <2> QED BY <2>1, <2>2
<1> QED BY <1>2, <1>3, <1>4 DEF OneOut

(* The end of a sequence that one element is taken out of. *)
EndsOf(s, r, k, S) ==
    /\ s # <<>> /\ (s[k] = Last(s) <=> k = Len(s))
    /\ Len(s) = 1 \/ Len(s) > 1
    /\ Len(s) = 1 => r = <<>> /\ k = Len(s)
    /\ Len(s) > 1 => r # <<>>
    /\ Len(s) > 1 /\ k = Len(s) => Last(r) = s[Len(s) - 1]
    /\ k # Len(s) => Last(r) = Last(s)
    /\ r # <<>> => Last(r) \in S
    /\ Len(r) <= Len(s)

LEMMA EndsAre ==
    ASSUME NEW S, NEW s \in Seq(S), Distinct(s), NEW k \in 1..Len(s),
           NEW r, OneOut(s, r, k, S)
    PROVE  EndsOf(s, r, k, S)
<1>1. Len(s) \in Nat /\ DOMAIN s = 1..Len(s) /\ k \in Nat /\ 1 <= k /\ k <= Len(s)
  OBVIOUS
<1>2. r \in Seq(S) /\ Len(r) = Len(s) - 1
  BY DEF OneOut
<1>3. s # <<>>
  BY <1>1
<1>4. s[k] = Last(s) <=> k = Len(s)
  <2>1. k \in DOMAIN s /\ Len(s) \in DOMAIN s
    BY <1>1
  <2> QED BY <2>1, Zenon DEF Distinct, Last
<1>5. CASE Len(s) = 1
  <2>1. r = <<>> /\ k = Len(s)
    BY <1>1, <1>2, <1>5
  <2> QED BY <1>2, <1>3, <1>4, <1>5, <2>1 DEF EndsOf
<1>6. CASE Len(s) > 1
  <2> DEFINE n == Len(s) - 1
  <2>1. n \in Nat /\ n = Len(s) - 1 /\ n \in 1..(Len(s) - 1) /\ n + 1 = Len(s)
        /\ (k # Len(s) => ~(n < k)) /\ (k = Len(s) => n < k)
    <3>1. PICK m \in Nat : m = Len(s)
      BY <1>1
    <3>2. m > 1 /\ k \in Nat /\ 1 <= k /\ k <= m
      BY <1>1, <1>6, <3>1, Zenon
    <3>3. PICK i \in Nat : i = m - 1 /\ (k # m => ~(i < k)) /\ (k = m => i < k)
      <4>1. m - 1 \in Nat /\ (k # m => ~(m - 1 < k)) /\ (k = m => m - 1 < k)
        BY <3>2
      <4> QED BY <4>1
    <3>4. i \in 1..(m - 1) /\ i + 1 = m
      BY <3>2, <3>3
    <3> QED BY <3>1, <3>3, <3>4, Zenon
  <2> HIDE DEF n
  <2>2. r # <<>> /\ Last(r) = r[n] /\ n \in 1..Len(r)
    BY <1>2, <2>1 DEF Last
  <2>3. r[n] = IF n < k THEN s[n] ELSE s[n + 1]
    BY <2>1 DEF OneOut
  <2>4. Last(r) \in S
    BY <1>2, <2>2
  <2>5. k = Len(s) => Last(r) = s[Len(s) - 1]
    BY <2>1, <2>2, <2>3
  <2>6. k # Len(s) => Last(r) = Last(s)
    BY <2>1, <2>2, <2>3 DEF Last
  <2>7. Len(r) <= Len(s) /\ Len(s) # 1
    BY <1>1, <1>2, <1>6
  <2> QED BY <1>3, <1>4, <1>6, <2>2, <2>4, <2>5, <2>6, <2>7 DEF EndsOf
<1> QED BY <1>1, <1>5, <1>6

LEMMA FewerInOrder ==
    ASSUME NEW S, NEW s \in Seq(S), Distinct(s), NEW k \in 1..Len(s)
    PROVE  LET r == RemoveFirst(s, s[k])
           IN  /\ Distinct(r) /\ ToSet(r) = ToSet(s) \ {s[k]}
               /\ \A t : InOrder(s, t) => InOrder(r, t)
<1> DEFINE r == RemoveFirst(s, s[k])
           old(i) == IF i < k THEN i ELSE i + 1
<1>1. /\ r \in Seq(S) /\ Len(r) = Len(s) - 1 /\ DOMAIN r = 1..(Len(s) - 1)
      /\ DOMAIN s = 1..Len(s) /\ Len(s) \in Nat
      /\ \A i \in DOMAIN r : r[i] = s[old(i)]
  <2>1. OneOut(s, r, k, S)
    BY RemovedIs
  <2> HIDE DEF r
  <2>2. r \in Seq(S) /\ Len(r) = Len(s) - 1
    BY <2>1 DEF OneOut
  <2>3. DOMAIN r = 1..(Len(s) - 1) /\ DOMAIN s = 1..Len(s) /\ Len(s) \in Nat
    BY <2>2
  <2>4. \A i \in 1..(Len(s) - 1) : r[i] = s[old(i)]
    BY <2>1, <2>3 DEF OneOut
  <2> QED BY <2>2, <2>3, <2>4
<1> HIDE DEF r
<1>2. ASSUME NEW i \in DOMAIN r PROVE old(i) \in DOMAIN s /\ old(i) # k /\ r[i] = s[old(i)]
  BY <1>1
<1>3. \A i, j \in DOMAIN r : (i < j => old(i) < old(j)) /\ (old(i) = old(j) => i = j)
  BY <1>1
<1>4. ASSUME NEW j \in DOMAIN s, j # k PROVE \E i \in DOMAIN r : old(i) = j
  <2>1. CASE j < k
    <3>1. j \in DOMAIN r /\ old(j) = j
      BY <1>1, <2>1
    <3> QED BY <3>1
  <2>2. CASE k < j
    <3>1. j - 1 \in DOMAIN r /\ old(j - 1) = j
      BY <1>1, <2>2
    <3> QED BY <3>1
  <2> QED BY <1>1, <1>4, <2>1, <2>2
<1> HIDE DEF old
<1>5. Distinct(r)
  BY <1>2, <1>3 DEF Distinct
<1>6. ToSet(r) = ToSet(s) \ {s[k]}
  <2>1. ToSet(r) \subseteq ToSet(s) \ {s[k]}
    BY <1>1, <1>2 DEF Distinct, ToSet
  <2>2. ASSUME NEW j \in DOMAIN s, s[j] # s[k] PROVE s[j] \in ToSet(r)
    <3>1. PICK i \in DOMAIN r : old(i) = j
      BY <1>4, <2>2
    <3>2. r[i] = s[j]
      BY <1>2, <3>1
    <3> QED BY <3>2 DEF ToSet
  <2> QED BY <2>1, <2>2 DEF ToSet
<1>7. ASSUME NEW t, InOrder(s, t) PROVE InOrder(r, t)
  <2> SUFFICES ASSUME NEW i \in DOMAIN r, NEW j \in DOMAIN r, i < j
               PROVE  LastIn(t, r[i]) < LastIn(t, r[j])
    BY DEF InOrder
  <2>1. old(i) \in DOMAIN s /\ old(j) \in DOMAIN s /\ old(i) < old(j)
    BY <1>2, <1>3
  <2>2. LastIn(t, s[old(i)]) < LastIn(t, s[old(j)])
    BY <1>7, <2>1 DEF InOrder
  <2> QED BY <1>2, <2>2
<1> QED BY <1>5, <1>6, <1>7 DEF r

LEMMA HeldIs ==
    ASSUME NEW h, Held(h)
    PROVE  /\ h.list \in Seq(Visitable) /\ DOMAIN h.list = 1..Len(h.list) /\ Len(h.list) \in Nat
           /\ h.hash = ToSet(h.list) /\ h.hash \in SUBSET Visitable
           /\ HistoryMax \in Nat /\ NoTail \notin Visitable
           /\ h.free \in Int /\ h.free = HistoryMax - Len(h.list)
           /\ Distinct(h.list)
<1>1. h \in [list : Seq(Visitable), hash : SUBSET Visitable, tail : Visitable \cup {NoTail}, free : Int]
  BY DEF Held
<1>2. h.list \in Seq(Visitable) /\ h.hash \in SUBSET Visitable /\ h.free \in Int
  BY <1>1
<1>3. DOMAIN h.list = 1..Len(h.list) /\ Len(h.list) \in Nat
  BY <1>2, LenProperties
<1>4. HistoryMax \in Nat /\ NoTail \notin Visitable
  BY BookmarksAssumption, Zenon DEF NoTail
<1> QED BY <1>2, <1>3, <1>4 DEF Held

(* history_remove. *)
LessOf(h, g, p) ==
    /\ Held(g) /\ g.hash = h.hash \ {p} /\ Len(g.list) <= Len(h.list)
    /\ p \in h.hash => g.free = h.free + 1
    /\ \A t : InOrder(h.list, t) => InOrder(g.list, t)

LEMMA HistoryRemoveIs ==
    ASSUME NEW h, Held(h), NEW p PROVE LessOf(h, HistoryRemove(h, p), p)
<1>1. /\ h.list \in Seq(Visitable) /\ DOMAIN h.list = 1..Len(h.list) /\ Len(h.list) \in Nat
      /\ h.hash = ToSet(h.list) /\ HistoryMax \in Nat /\ NoTail \notin Visitable
  BY HeldIs
<1>2. CASE p \notin h.hash
  <2>1. HistoryRemove(h, p) = h
    BY <1>2 DEF HistoryRemove
  <2>2. Len(h.list) <= Len(h.list)
    BY <1>1
  <2>3. LessOf(h, h, p)
    BY <1>2, <2>2 DEF LessOf
  <2> QED BY <2>1, <2>3
<1>3. CASE p \in h.hash
  <2>1. PICK k \in 1..Len(h.list) : h.list[k] = p
    BY <1>1, <1>3 DEF ToSet
  <2> DEFINE list == RemoveFirst(h.list, p)
             tail == IF h.tail = p THEN IF Len(h.list) > 1 THEN h.list[Len(h.list) - 1] ELSE NoTail
                     ELSE h.tail
             g == [list |-> list, hash |-> h.hash \ {p}, tail |-> tail, free |-> h.free + 1]
  <2>2. HistoryRemove(h, p) = g
    BY <1>3, Zenon DEF HistoryRemove, NoTail
  <2>3. Distinct(h.list)
    BY HeldIs
  <2>4. /\ list \in Seq(Visitable) /\ Len(list) = Len(h.list) - 1
        /\ \A i \in 1..(Len(h.list) - 1) : list[i] = IF i < k THEN h.list[i] ELSE h.list[i + 1]
    <3>1. OneOut(h.list, list, k, Visitable)
      BY <1>1, <2>1, <2>3, RemovedIs
    <3> QED BY <3>1 DEF OneOut
  <2>5. /\ Distinct(list) /\ ToSet(list) = ToSet(h.list) \ {p}
        /\ \A t : InOrder(h.list, t) => InOrder(list, t)
    BY <1>1, <2>1, <2>3, FewerInOrder
  <2>6. EndsOf(h.list, list, k, Visitable)
    <3>1. OneOut(h.list, list, k, Visitable)
      BY <1>1, <2>1, <2>3, RemovedIs
    <3> HIDE DEF list
    <3> QED BY <1>1, <2>1, <2>3, <3>1, EndsAre
  <2> HIDE DEF list
  <2>7. h.list # <<>> /\ h.tail = Last(h.list)
    BY <2>6 DEF Held, EndsOf
  <2>8. tail = IF list = <<>> THEN NoTail ELSE Last(list)
    <3>1. CASE Len(h.list) = 1
      <4>1. list = <<>> /\ h.tail = p
        BY <2>1, <2>6, <2>7, <3>1 DEF EndsOf
      <4> QED BY <3>1, <4>1
    <3>2. CASE Len(h.list) > 1
      <4>1. list # <<>>
        BY <2>6, <3>2 DEF EndsOf
      <4>2. CASE k = Len(h.list)
        BY <2>1, <2>6, <2>7, <3>2, <4>1, <4>2 DEF EndsOf
      <4>3. CASE k # Len(h.list)
        BY <2>1, <2>6, <2>7, <4>1, <4>3 DEF EndsOf
      <4> QED BY <4>2, <4>3
    <3> QED BY <2>6, <3>1, <3>2 DEF EndsOf
  <2>9. tail \in Visitable \cup {NoTail}
    BY <2>6, <2>8 DEF EndsOf
  <2>10. h.hash \ {p} \in SUBSET Visitable /\ h.free + 1 \in Int
         /\ h.free + 1 = HistoryMax - Len(list)
    <3>1. /\ h.hash \in SUBSET Visitable /\ h.free \in Int /\ h.free = HistoryMax - Len(h.list)
          /\ Len(h.list) \in Nat /\ HistoryMax \in Nat
      BY HeldIs
    <3>2. PICK m \in Nat, f \in Int : m = Len(h.list) /\ f = h.free /\ f = HistoryMax - m
      BY <3>1
    <3>3. Len(list) = m - 1
      BY <2>4, <3>2, Zenon
    <3>4. f + 1 = HistoryMax - (m - 1)
      BY <3>1, <3>2
    <3> QED BY <3>1, <3>2, <3>3, <3>4
  <2> HIDE DEF tail
  <2>11. Held(g)
    BY <1>1, <2>4, <2>5, <2>8, <2>9, <2>10 DEF Held
  <2>12. Len(list) <= Len(h.list)
    BY <2>6 DEF EndsOf
  <2>13. LessOf(h, g, p)
    BY <2>5, <2>11, <2>12, Zenon DEF LessOf
  <2> QED BY <2>2, <2>13
<1> QED BY <1>2, <1>3

LEMMA CardOfDistinct ==
    ASSUME NEW S, NEW s \in Seq(S), Distinct(s)
    PROVE  IsFiniteSet(ToSet(s)) /\ Cardinality(ToSet(s)) = Len(s)
<1>1. DOMAIN s = 1..Len(s) /\ Len(s) \in Nat
  OBVIOUS
<1>2. IsFiniteSet(1..Len(s)) /\ Cardinality(1..Len(s)) = Len(s)
  <2>1. 1 \in Int /\ Len(s) \in Int
    BY <1>1
  <2>2. /\ IsFiniteSet(1..Len(s))
        /\ Cardinality(1..Len(s)) = IF 1 > Len(s) THEN 0 ELSE Len(s) - 1 + 1
    BY <2>1, FS_Interval
  <2>3. PICK n \in Nat : n = Len(s)
    BY <1>1
  <2>4. (IF 1 > n THEN 0 ELSE n - 1 + 1) = n
    OBVIOUS
  <2>5. /\ IsFiniteSet(1..n) /\ Cardinality(1..n) = IF 1 > n THEN 0 ELSE n - 1 + 1
    BY <2>2, <2>3, Zenon
  <2>6. PICK c : c = Cardinality(1..n)
    OBVIOUS
  <2>7. c = n
    BY <2>5, <2>6
  <2> QED BY <2>3, <2>5, <2>6, <2>7, Zenon
<1>3. s \in Surjection(1..Len(s), ToSet(s)) /\ s \in Injection(1..Len(s), ToSet(s))
  <2>1. s \in [1..Len(s) -> ToSet(s)]
    BY <1>1 DEF ToSet
  <2>2. \A x \in ToSet(s) : \E i \in 1..Len(s) : s[i] = x
    BY <1>1 DEF ToSet
  <2>3. \A i, j \in 1..Len(s) : s[i] = s[j] => i = j
    BY <1>1 DEF Distinct
  <2>4. s \in Surjection(1..Len(s), ToSet(s))
    BY <2>1, <2>2 DEF Surjection
  <2>5. s \in Injection(1..Len(s), ToSet(s))
    BY <1>1, <2>1, <2>3 DEF Injection, IsInjective
  <2> QED BY <2>4, <2>5
<1>4. /\ IsFiniteSet(ToSet(s))
      /\ Cardinality(ToSet(s)) = Cardinality(1..Len(s)) <=> s \in Injection(1..Len(s), ToSet(s))
  BY <1>2, <1>3, FS_Surjection
<1> QED BY <1>2, <1>3, <1>4

(* All that stand before the last of the list were visited since it was. *)
LEMMA ManySince ==
    ASSUME NEW S, NEW list \in Seq(S), NEW t \in Seq(S), list # <<>>,
           Distinct(list), InOrder(list, t), ToSet(list) \subseteq ToSet(t)
    PROVE  Cardinality(After(t, Last(list))) >= Len(list) - 1
<1> DEFINE n == Len(list)
           x == Last(list)
           front == SubSeq(list, 1, n - 1)
<1>1. n \in Nat /\ n >= 1 /\ DOMAIN list = 1..n /\ \A i \in 1..n : list[i] \in S
  OBVIOUS
<1>2. /\ front \in Seq(S) /\ Len(front) = n - 1
      /\ \A i \in 1..(n - 1) : front[i] = list[i]
  <2>1. \A i \in 1..(n - 1) : list[i] \in S
    BY <1>1
  <2>2. /\ SubSeq(list, 1, n - 1) \in Seq(S)
        /\ Len(SubSeq(list, 1, n - 1)) = IF 1 <= n - 1 THEN n - 1 - 1 + 1 ELSE 0
        /\ \A i \in 1..(n - 1 - 1 + 1) : SubSeq(list, 1, n - 1)[i] = list[1 + i - 1]
    BY <1>1, <2>1, SubSeqProperties
  <2> QED BY <1>1, <2>2
<1> HIDE DEF front
<1>3. DOMAIN front = 1..(n - 1)
  BY <1>2
<1>4. Distinct(front)
  BY <1>1, <1>2, <1>3 DEF Distinct
<1>5. Cardinality(ToSet(front)) = n - 1
  BY <1>2, <1>4, CardOfDistinct
<1>6. /\ LastIn(t, x) \in 1..Len(t) /\ Len(t) \in Nat
  <2>1. x \in ToSet(list)
    BY <1>1 DEF Last, ToSet
  <2> QED BY <2>1, LastInIs
<1>7. ASSUME NEW i \in 1..(n - 1) PROVE front[i] \in After(t, x)
  <2>1. LastIn(t, list[i]) < LastIn(t, x)
    BY <1>1 DEF InOrder, Last
  <2>2. list[i] \in ToSet(t)
    <3>1. i \in DOMAIN list
      BY <1>1
    <3> QED BY <3>1 DEF ToSet
  <2>3. LastIn(t, list[i]) \in 1..Len(t) /\ t[LastIn(t, list[i])] = list[i]
    BY <2>2, LastInIs
  <2>4. LastIn(t, list[i]) \in 1..(LastIn(t, x) - 1)
    BY <1>6, <2>1, <2>3
  <2> QED BY <1>2, <2>3, <2>4 DEF After
<1>8. ToSet(front) \subseteq After(t, x)
  BY <1>3, <1>7 DEF ToSet
<1>9. IsFiniteSet(After(t, x)) /\ Cardinality(After(t, x)) \in Nat
  BY <1>6, AfterFinite
<1>10. Cardinality(ToSet(front)) <= Cardinality(After(t, x))
  BY <1>8, <1>9, FS_Subset
<1> QED BY <1>1, <1>5, <1>9, <1>10

(* bookmarks_add_history. *)
Left(s, p) == \E q \in After(s, p) : DirOver[q] = p
HistoryInv ==
    /\ Held(visited) /\ visited.free >= 0
    /\ visits \in Seq(Visitable) /\ visited.hash \subseteq ToSet(visits)
    /\ InOrder(visited.list, visits)
    /\ \A p \in ToSet(visits) :
          /\ Left(visits, p) => p \notin visited.hash
          /\ ~Left(visits, p) /\ Cardinality(After(visits, p)) < HistoryMax => p \in visited.hash

(* With p before them all. *)
Prepended(a, p) ==
    [list |-> <<p>> \o a.list, hash |-> a.hash \cup {p},
     tail |-> IF a.tail = NoTail THEN p ELSE a.tail, free |-> a.free - 1]

LEMMA PrependedHeld ==
    ASSUME NEW a, Held(a), NEW p \in Visitable, p \notin a.hash
    PROVE  Held(Prepended(a, p))
<1> DEFINE list == <<p>> \o a.list
           tail == IF a.tail = NoTail THEN p ELSE a.tail
<1>1. /\ a.list \in Seq(Visitable) /\ DOMAIN a.list = 1..Len(a.list) /\ Len(a.list) \in Nat
      /\ a.hash = ToSet(a.list) /\ a.hash \in SUBSET Visitable
      /\ HistoryMax \in Nat /\ NoTail \notin Visitable
      /\ a.free \in Int /\ a.free = HistoryMax - Len(a.list)
      /\ Distinct(a.list)
  BY HeldIs
<1>2. /\ list \in Seq(Visitable) /\ Len(list) = Len(a.list) + 1 /\ list[1] = p
      /\ \A i \in 1..Len(a.list) : list[i + 1] = a.list[i]
      /\ ToSet(list) = {p} \cup ToSet(a.list)
  BY <1>1, PrependedIs
<1> HIDE DEF list
<1>3. PICK n \in Nat : n = Len(a.list)
  BY <1>1
<1>4. DOMAIN list = 1..(n + 1) /\ DOMAIN a.list = 1..n
  BY <1>1, <1>2, <1>3
<1>5. \A i \in 2..(n + 1) : i - 1 \in 1..n /\ list[i] = a.list[i - 1]
  <2>1. \A i \in 2..(n + 1) : i - 1 \in 1..n /\ i - 1 + 1 = i
    OBVIOUS
  <2> QED BY <1>2, <1>3, <2>1
<1>6. Distinct(list)
  <2> SUFFICES ASSUME NEW i \in DOMAIN list, NEW j \in DOMAIN list, list[i] = list[j]
               PROVE  i = j
    BY DEF Distinct
  <2>1. ASSUME NEW k \in 2..(n + 1) PROVE list[k] # p
    <3>1. a.list[k - 1] \in a.hash
      BY <1>1, <1>4, <1>5 DEF ToSet
    <3> QED BY <1>5, <3>1
  <2>2. CASE i = 1 \/ j = 1
    BY <1>2, <1>4, <2>1, <2>2
  <2>3. CASE i # 1 /\ j # 1
    <3>1. i \in 2..(n + 1) /\ j \in 2..(n + 1)
      BY <1>4, <2>3
    <3>2. a.list[i - 1] = a.list[j - 1] /\ i - 1 \in DOMAIN a.list /\ j - 1 \in DOMAIN a.list
      BY <1>4, <1>5, <3>1
    <3>3. i - 1 = j - 1
      BY <1>1, <3>2 DEF Distinct
    <3> QED BY <3>1, <3>3
  <2> QED BY <2>2, <2>3
<1>7. list # <<>> /\ Last(list) = list[n + 1]
  BY <1>2, <1>3 DEF Last
<1>8. tail = Last(list)
  <2>1. CASE n = 0
    <3>1. a.list = <<>>
      <4>1. Len(a.list) = 0 /\ a.list \in Seq(Visitable)
        BY <1>1, <1>3, <2>1
      <4> QED BY <4>1, EmptySeq
    <3>2. a.tail = NoTail
      BY <3>1 DEF Held
    <3> QED BY <1>2, <1>7, <2>1, <3>2
  <2>2. CASE n # 0
    <3>1. a.list # <<>> /\ n \in 1..n /\ n + 1 \in 2..(n + 1) /\ n + 1 - 1 = n
      BY <1>1, <1>3, <2>2
    <3>2. a.tail = a.list[n]
      BY <1>3, <3>1 DEF Held, Last
    <3>3. a.list[n] \in Visitable
      BY <1>1, <1>3, <3>1
    <3>4. list[n + 1] = a.list[n]
      BY <1>5, <3>1
    <3> QED BY <1>1, <1>7, <3>2, <3>3, <3>4
  <2> QED BY <2>1, <2>2
<1>9. Last(list) \in Visitable
  <2>1. n + 1 \in 1..Len(list)
    BY <1>2, <1>3
  <2> QED BY <1>2, <1>7, <2>1
<1>10. a.free - 1 \in Int /\ a.free - 1 = HistoryMax - Len(list)
  <2>1. PICK f \in Int : f = a.free /\ f = HistoryMax - n
    BY <1>1, <1>3
  <2>2. f - 1 = HistoryMax - (n + 1)
    BY <1>1, <2>1
  <2>3. Len(list) = n + 1
    BY <1>2, <1>3
  <2> QED BY <2>1, <2>2, <2>3
<1> HIDE DEF tail
<1>11. Prepended(a, p) = [list |-> list, hash |-> a.hash \cup {p}, tail |-> tail, free |-> a.free - 1]
  BY DEF Prepended, list, tail
<1>12. Held([list |-> list, hash |-> a.hash \cup {p}, tail |-> tail, free |-> a.free - 1])
  BY <1>1, <1>2, <1>6, <1>7, <1>8, <1>9, <1>10 DEF Held
<1> QED BY <1>11, <1>12, Zenon

LEMMA PrependedInOrder ==
    ASSUME NEW list \in Seq(Visitable), NEW s \in Seq(Visitable), NEW p \in Visitable,
           p \notin ToSet(list), ToSet(list) \subseteq ToSet(s), InOrder(list, s)
    PROVE  InOrder(<<p>> \o list, <<p>> \o s)
<1> DEFINE new == <<p>> \o list
           t == <<p>> \o s
<1>1. /\ new \in Seq(Visitable) /\ Len(new) = Len(list) + 1 /\ new[1] = p
      /\ \A i \in 1..Len(list) : new[i + 1] = list[i]
  BY PrependedIs
<1>2. /\ LastIn(t, p) = 1
      /\ \A q \in ToSet(s) \ {p} : LastIn(t, q) = LastIn(s, q) + 1
  <2>1. Again(s, t, p)
    BY VisitedAgain
  <2> QED BY <2>1 DEF Again
<1> HIDE DEF new, t
<1>3. PICK n \in Nat : n = Len(list) /\ DOMAIN list = 1..n /\ DOMAIN new = 1..(n + 1)
  BY <1>1
<1>4. \A i \in 2..(n + 1) : i - 1 \in 1..n /\ new[i] = list[i - 1]
  <2>1. \A i \in 2..(n + 1) : i - 1 \in 1..n /\ i - 1 + 1 = i
    OBVIOUS
  <2> QED BY <1>1, <1>3, <2>1
<1>5. ASSUME NEW i \in 2..(n + 1)
      PROVE  LastIn(t, new[i]) = LastIn(s, list[i - 1]) + 1 /\ LastIn(s, list[i - 1]) \in 1..Len(s)
  <2>1. i - 1 \in DOMAIN list /\ new[i] = list[i - 1] /\ list[i - 1] \in ToSet(list)
    BY <1>3, <1>4 DEF ToSet
  <2>2. list[i - 1] \in ToSet(s) \ {p}
    BY <2>1
  <2> QED BY <1>2, <2>1, <2>2, LastInIs
<1>6. ASSUME NEW i \in DOMAIN new, NEW j \in DOMAIN new, i < j
      PROVE  LastIn(t, new[i]) < LastIn(t, new[j])
  <2>1. j \in 2..(n + 1)
    BY <1>3, <1>6
  <2>2. LastIn(t, new[j]) = LastIn(s, list[j - 1]) + 1 /\ LastIn(s, list[j - 1]) \in 1..Len(s)
    BY <1>5, <2>1
  <2>3. CASE i = 1
    BY <1>1, <1>2, <2>2, <2>3
  <2>4. CASE i # 1
    <3>1. i \in 2..(n + 1) /\ i - 1 \in DOMAIN list /\ j - 1 \in DOMAIN list /\ i - 1 < j - 1
      BY <1>3, <1>6, <2>4
    <3>2. LastIn(s, list[i - 1]) < LastIn(s, list[j - 1])
      BY <3>1 DEF InOrder
    <3>3. LastIn(t, new[i]) = LastIn(s, list[i - 1]) + 1 /\ LastIn(s, list[i - 1]) \in 1..Len(s)
      BY <1>5, <3>1
    <3> QED BY <2>2, <3>2, <3>3
  <2> QED BY <2>3, <2>4
<1> QED BY <1>6 DEF InOrder, new, t

LEMMA HistoryStart == BookmarksInit => HistoryInv
<1> SUFFICES ASSUME BookmarksInit PROVE HistoryInv
  OBVIOUS
<1>1. visited = [list |-> <<>>, hash |-> {}, tail |-> NoTail, free |-> HistoryMax] /\ visits = <<>>
  BY Zenon DEF BookmarksInit, NoTail
<1>2. HistoryMax \in Nat
  BY BookmarksAssumption
<1>3. /\ visited.list = <<>> /\ visited.hash = {} /\ visited.tail = NoTail /\ visited.free = HistoryMax
      /\ ToSet(<<>>) = {}
  BY <1>1 DEF ToSet
<1>4. <<>> \in Seq(Visitable) /\ Len(<<>>) = 0 /\ DOMAIN <<>> = {}
  OBVIOUS
<1>5. Held(visited)
  <2>1. visited \in [list : Seq(Visitable), hash : SUBSET Visitable, tail : Visitable \cup {NoTail}, free : Int]
    BY <1>1, <1>2, <1>4
  <2>2. Distinct(<<>>)
    BY <1>4 DEF Distinct
  <2>3. visited.free = HistoryMax - Len(visited.list)
    BY <1>2, <1>3, <1>4
  <2> QED BY <1>3, <2>1, <2>2, <2>3 DEF Held
<1>6. InOrder(visited.list, visits)
  BY <1>3, <1>4 DEF InOrder
<1> QED BY <1>1, <1>2, <1>3, <1>4, <1>5, <1>6 DEF HistoryInv

(* What the list is after a visit, before its last is dropped. *)
Fuller(h, b, p) ==
    /\ Held(b) /\ b.hash = (h.hash \ {p, DirOver[p]}) \cup {p}
    /\ b.free >= -1 /\ b.list # <<>>
    /\ InOrder(b.list, <<p>> \o visits)

LEMMA AddHistoryIs ==
    ASSUME HistoryInv, NEW p \in Visitable
    PROVE  \E b : /\ Fuller(visited, b, p)
                  /\ \/ b.free >= 0 /\ AddHistory(visited, p) = b
                     \/ b.free = -1 /\ AddHistory(visited, p) = HistoryRemove(b, b.tail)
<1> DEFINE h1 == HistoryRemove(visited, p)
           a  == HistoryRemove(h1, DirOver[p])
           b  == Prepended(a, p)
<1>1. LessOf(visited, h1, p)
  BY HistoryRemoveIs DEF HistoryInv
<1>2. Held(h1)
  BY <1>1 DEF LessOf
<1>3. LessOf(h1, a, DirOver[p])
  <2> HIDE DEF h1
  <2> QED BY <1>2, HistoryRemoveIs
<1>4. /\ AddHistory(visited, p) = IF a.free = 0 THEN HistoryRemove([b EXCEPT !.free = 0 - 1], b.tail) ELSE b
  BY Zenon DEF AddHistory, Prepended, NoTail
<1> HIDE DEF h1
<1> HIDE DEF a
<1>5. /\ Held(a) /\ a.hash = visited.hash \ {p, DirOver[p]}
      /\ InOrder(a.list, visits)
  BY <1>1, <1>3 DEF LessOf, HistoryInv
<1>6. a.free >= 0 /\ a.free \in Int
  <2>1. /\ a.free \in Int /\ a.free = HistoryMax - Len(a.list) /\ Len(a.list) \in Nat /\ HistoryMax \in Nat
    BY <1>5, HeldIs
  <2>2. visited.free \in Int /\ visited.free = HistoryMax - Len(visited.list) /\ Len(visited.list) \in Nat
    BY HeldIs DEF HistoryInv
  <2>3. Len(a.list) <= Len(h1.list) /\ Len(h1.list) <= Len(visited.list)
    BY <1>1, <1>3 DEF LessOf
  <2>4. Len(h1.list) \in Nat
    BY <1>2, HeldIs
  <2>5. PICK m \in Nat, n \in Nat, k \in Nat : m = Len(a.list) /\ n = Len(visited.list) /\ k = Len(h1.list)
    BY <2>1, <2>2, <2>4
  <2>6. m <= k /\ k <= n /\ HistoryMax - n >= 0
    BY <2>2, <2>3, <2>5, Zenon DEF HistoryInv
  <2>7. HistoryMax - m >= 0
    BY <2>1, <2>6
  <2> QED BY <2>1, <2>5, <2>7, Zenon
<1>7. Held(b)
  BY <1>5, PrependedHeld
<1>8. /\ b.list = <<p>> \o a.list /\ b.hash = a.hash \cup {p} /\ b.free = a.free - 1
  BY DEF Prepended
<1>9. InOrder(b.list, <<p>> \o visits)
  <2>1. a.list \in Seq(Visitable) /\ ToSet(a.list) = a.hash
    BY <1>5, HeldIs
  <2>2. p \notin ToSet(a.list) /\ ToSet(a.list) \subseteq ToSet(visits) /\ visits \in Seq(Visitable)
    BY <1>5, <2>1 DEF HistoryInv
  <2>3. InOrder(<<p>> \o a.list, <<p>> \o visits)
    BY <1>5, <2>1, <2>2, PrependedInOrder
  <2> QED BY <1>8, <2>3, Zenon
<1>10. b.list # <<>>
  <2>1. a.list \in Seq(Visitable)
    BY <1>5, HeldIs
  <2>2. Len(b.list) = Len(a.list) + 1 /\ Len(a.list) \in Nat
    BY <1>8, <2>1, PrependedIs
  <2> QED BY <2>2
<1> HIDE DEF b
<1>11. Fuller(visited, b, p)
  BY <1>5, <1>6, <1>7, <1>8, <1>9, <1>10 DEF Fuller
<1>12. CASE a.free = 0
  <2>1. b.free = -1 /\ 0 - 1 = -1
    BY <1>8, <1>12
  <2>2. [b EXCEPT !.free = 0 - 1] = b
    <3>1. b \in [list : Seq(Visitable), hash : SUBSET Visitable, tail : Visitable \cup {NoTail}, free : Int]
      BY <1>7 DEF Held
    <3> QED BY <2>1, <3>1
  <2>3. AddHistory(visited, p) = HistoryRemove(b, b.tail)
    BY <1>4, <1>12, <2>2, Zenon
  <2> QED BY <1>11, <2>1, <2>3, Zenon
<1>13. CASE a.free # 0
  <2>1. b.free >= 0
    BY <1>6, <1>8, <1>13
  <2>2. AddHistory(visited, p) = b
    BY <1>4, <1>13, Zenon
  <2> QED BY <1>11, <2>1, <2>2, Zenon
<1> QED BY <1>12, <1>13

LEMMA VisitKeeps == ASSUME HistoryInv, NEW p \in Visitable, Visit(p) PROVE HistoryInv'
<1>1. visited' = AddHistory(visited, p) /\ visits' = <<p>> \o visits
  BY DEF Visit
<1>2. /\ visits \in Seq(Visitable) /\ visits' \in Seq(Visitable)
      /\ ToSet(visits') = {p} \cup ToSet(visits)
  BY <1>1, PrependedIs DEF HistoryInv
<1>3. /\ LastIn(visits', p) = 1 /\ After(visits', p) = {}
      /\ \A q \in ToSet(visits) \ {p} : After(visits', q) = {p} \cup After(visits, q)
  <2>1. Again(visits, visits', p)
    BY <1>1, <1>2, VisitedAgain
  <2> QED BY <2>1 DEF Again
<1>4. PICK b : /\ Fuller(visited, b, p)
               /\ \/ b.free >= 0 /\ AddHistory(visited, p) = b
                  \/ b.free = -1 /\ AddHistory(visited, p) = HistoryRemove(b, b.tail)
  BY AddHistoryIs
<1>5. /\ Held(b) /\ b.hash = (visited.hash \ {p, DirOver[p]}) \cup {p}
      /\ b.free >= -1 /\ b.list # <<>> /\ InOrder(b.list, visits')
  BY <1>1, <1>4 DEF Fuller
<1>6. b.hash \subseteq ToSet(visits')
  BY <1>2, <1>5 DEF HistoryInv
<1>7. ASSUME NEW q \in ToSet(visits')
      PROVE  /\ Left(visits', q) => q \notin b.hash
             /\ ~Left(visits', q) /\ Cardinality(After(visits', q)) < HistoryMax => q \in b.hash
  <2>1. CASE q = p
    BY <1>3, <1>5, <2>1 DEF Left
  <2>2. CASE q # p
    <3>1. q \in ToSet(visits) /\ After(visits', q) = {p} \cup After(visits, q)
      BY <1>2, <1>3, <2>2
    <3>2. Left(visits', q) <=> Left(visits, q) \/ DirOver[p] = q
      BY <3>1 DEF Left
    <3>3. Cardinality(After(visits, q)) <= Cardinality(After(visits', q))
          /\ Cardinality(After(visits, q)) \in Nat /\ Cardinality(After(visits', q)) \in Nat
      <4>1. LastIn(visits, q) \in Nat /\ LastIn(visits', q) \in Nat
        BY <1>2, <3>1, LastInIs
      <4>2. /\ IsFiniteSet(After(visits, q)) /\ Cardinality(After(visits, q)) \in Nat
            /\ IsFiniteSet(After(visits', q)) /\ Cardinality(After(visits', q)) \in Nat
        BY <1>2, <4>1, AfterFinite
      <4> QED BY <3>1, <4>2, FS_Subset
    <3>4. Left(visits, q) => q \notin visited.hash
      BY <3>1 DEF HistoryInv
    <3>5. ~Left(visits, q) /\ Cardinality(After(visits, q)) < HistoryMax => q \in visited.hash
      BY <3>1 DEF HistoryInv
    <3>6. Left(visits', q) => q \notin b.hash
      BY <1>5, <2>2, <3>2, <3>4
    <3>7. ASSUME ~Left(visits', q), Cardinality(After(visits', q)) < HistoryMax PROVE q \in b.hash
      <4>1. Cardinality(After(visits, q)) < HistoryMax
        <5> HistoryMax \in Nat
          BY BookmarksAssumption, Zenon
        <5> QED BY <3>3, <3>7
      <4> QED BY <1>5, <3>2, <3>5, <3>7, <4>1
    <3> QED BY <3>6, <3>7
  <2> QED BY <2>1, <2>2
<1>8. CASE b.free >= 0 /\ AddHistory(visited, p) = b
  <2>1. visited' = b
    BY <1>1, <1>8
  <2> QED BY <1>2, <1>5, <1>6, <1>7, <1>8, <2>1 DEF HistoryInv
<1>9. CASE b.free = -1 /\ AddHistory(visited, p) = HistoryRemove(b, b.tail)
  <2> DEFINE x == b.tail
  <2>1. LessOf(b, visited', x)
    BY <1>1, <1>5, <1>9, HistoryRemoveIs
  <2>2. /\ Held(visited') /\ visited'.hash = b.hash \ {x}
        /\ InOrder(visited'.list, visits') /\ (x \in b.hash => visited'.free = b.free + 1)
    BY <1>5, <2>1 DEF LessOf
  <2>3. /\ b.list \in Seq(Visitable) /\ b.hash = ToSet(b.list) /\ Len(b.list) \in Nat
        /\ HistoryMax \in Nat /\ b.free = HistoryMax - Len(b.list) /\ Distinct(b.list)
    BY <1>5, HeldIs
  <2>4. x = Last(b.list) /\ x \in ToSet(b.list)
    <3>1. x = Last(b.list)
      BY <1>5 DEF Held
    <3>2. Len(b.list) \in DOMAIN b.list
      BY <1>5, <2>3
    <3> QED BY <3>1, <3>2 DEF Last, ToSet
  <2>5. visited'.free = 0
    BY <1>9, <2>2, <2>3, <2>4
  <2>6. Cardinality(After(visits', x)) >= HistoryMax /\ Cardinality(After(visits', x)) \in Nat
    <3>1. Cardinality(After(visits', Last(b.list))) >= Len(b.list) - 1
      BY <1>2, <1>5, <1>6, <2>3, ManySince
    <3>2. Len(b.list) - 1 = HistoryMax
      BY <1>9, <2>3
    <3>3. LastIn(visits', x) \in Nat
      BY <1>2, <1>6, <2>3, <2>4, LastInIs
    <3>4. Cardinality(After(visits', x)) \in Nat
      BY <1>2, <3>3, AfterFinite
    <3> QED BY <2>4, <3>1, <3>2, <3>4
  <2>7. ASSUME NEW q \in ToSet(visits')
        PROVE  /\ Left(visits', q) => q \notin visited'.hash
               /\ ~Left(visits', q) /\ Cardinality(After(visits', q)) < HistoryMax => q \in visited'.hash
    <3>1. CASE q = x
      BY <2>2, <2>3, <2>6, <3>1
    <3>2. CASE q # x
      BY <1>7, <2>2, <3>2
    <3> QED BY <3>1, <3>2
  <2>8. visited'.hash \subseteq ToSet(visits')
    BY <1>6, <2>2
  <2> QED BY <1>2, <2>2, <2>5, <2>7, <2>8 DEF HistoryInv
<1> QED BY <1>4, <1>8, <1>9

LEMMA HistoryInvRight == HistoryInv => HistoryRight
<1> SUFFICES ASSUME HistoryInv PROVE HistoryRight
  OBVIOUS
<1>1. /\ visited.list \in Seq(Visitable) /\ visited.hash = ToSet(visited.list)
      /\ visited.free = HistoryMax - Len(visited.list) /\ Distinct(visited.list)
  BY HeldIs DEF HistoryInv
<1>2. Cardinality(visited.hash) = Len(visited.list)
  BY <1>1, CardOfDistinct
<1>3. visited.tail = IF visited.list = <<>> THEN "" ELSE Last(visited.list)
  BY Zenon DEF HistoryInv, Held, NoTail
<1>4. \A p : LastVisit(p) = LastIn(visits, p) /\ Since(p) = After(visits, p)
  BY DEF LastVisit, LastIn, Since, After
<1>5. \A i, j \in DOMAIN visited.list : i < j => LastVisit(visited.list[i]) < LastVisit(visited.list[j])
  BY <1>4 DEF HistoryInv, InOrder
<1>6. \A p \in ToSet(visits) :
         LET left == \E q \in Since(p) : DirOver[q] = p
         IN  /\ left => p \notin visited.hash
             /\ ~left /\ Cardinality(Since(p)) < HistoryMax => p \in visited.hash
  BY <1>4 DEF HistoryInv, Left
<1>7. visited.free >= 0
  BY DEF HistoryInv
<1> QED BY <1>1, <1>2, <1>3, <1>5, <1>6, <1>7, Zenon DEF HistoryRight

(* The marks and the history change in steps of their own. *)
LEMMA BookmarksStep ==
    MarksInv /\ HistoryInv /\ [MarksNext \/ HistoryNext]_bookmarkVars => MarksInv' /\ HistoryInv'
<1> SUFFICES ASSUME MarksInv, HistoryInv, [MarksNext \/ HistoryNext]_bookmarkVars
             PROVE  MarksInv' /\ HistoryInv'
  OBVIOUS
<1>1. UNCHANGED historyVars => HistoryInv'
  BY Zenon DEF historyVars, HistoryInv
<1>2. UNCHANGED markVars => MarksInv'
  <2> SUFFICES ASSUME UNCHANGED markVars PROVE MarksInv'
    OBVIOUS
  <2>1. bm' = bm /\ editor' = editor /\ wanted' = wanted /\ raced' = raced
    BY DEF markVars
  <2> QED BY <2>1 DEF MarksInv
<1>3. CASE MarksNext
  BY <1>1, <1>3, MarksStep DEF MarksNext
<1>4. CASE HistoryNext
  <2>1. PICK p \in Visitable : Visit(p)
    BY <1>4 DEF HistoryNext
  <2> QED BY <1>2, <2>1, VisitKeeps DEF Visit
<1>5. CASE UNCHANGED bookmarkVars
  BY <1>1, <1>2, <1>5 DEF bookmarkVars
<1> QED BY <1>3, <1>4, <1>5

(* What the user added, deleted and moved is what the menu, the editor and *)
(* the file have, whatever of it is cached and whoever else writes the file,*)
(* and Recently Visited has the last visited first, each once, none whose *)
(* child came later, and drops none before as many others were visited as *)
(* it holds: for any directories and any length of the list. *)
THEOREM BookmarksAlwaysRight == BookmarksSpec => []BookmarksRight
<1>1. BookmarksInit => MarksInv /\ HistoryInv
  BY MarksStart, HistoryStart
<1>2. MarksInv /\ HistoryInv => BookmarksRight
  BY MarksInvKept, HistoryInvRight DEF BookmarksRight
<1> QED BY <1>1, <1>2, BookmarksStep, PTL DEF BookmarksSpec
=============================================================================

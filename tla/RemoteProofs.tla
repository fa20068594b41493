---------------------------- MODULE RemoteProofs ----------------------------
(***************************************************************************)
(* At most one process is the filer, and a client that is answered had its *)
(* request run once, for any number of processes and any requests.         *)
(*                                                                         *)
(* OneFiler follows once every live filer is the one that the root window  *)
(* names, which is inductive only with what the grab of the X server is    *)
(* for: a process between its look at the root window and its announcement *)
(* holds the grab, and nobody is live when it found nobody.                *)
(*                                                                         *)
(* In the icon view the selection, its counter, the owner of PRIMARY, the  *)
(* cursor and the winks follow the items, for any items and sort keys      *)
(* (CollectionAlwaysKept).  That the window owns PRIMARY only with         *)
(* something selected is not inductive: CollGood adds that what it owns is *)
(* drawn as owned, that the array holds each item once, and that the       *)
(* fields have their types.                                                *)
(***************************************************************************)
EXTENDS Remote, Tasklist, Placement, Collection,
        SequenceTheorems, FiniteSetTheorems, WellFoundedInduction, TLAPS

(* The processes and the fields of their records: all the proof needs to *)
(* know of the types. *)
RemoteShape ==
    /\ DOMAIN client = Process /\ DOMAIN filer = Process
    /\ \A p \in Process :
         /\ DOMAIN client[p] = {"state", "request", "times", "changes"}
         /\ DOMAIN filer[p] = {"state", "windows", "inbox", "frames"}

Becoming(p) == client[p].state = "is filer" /\ filer[p].state = "none"

(* The grab belongs to the process that looks at the root window, until it *)
(* has left its request or has announced itself. *)
GrabHeld == \A p \in Process :
    client[p].state = "grabbed" \/ Becoming(p) => grab = p

LiveIsNamed == \A p \in Process : Live(p) => root = p /\ p \in ipc

NobodyYet == \A p, q \in Process : Becoming(p) => ~Live(q)

RemoteInv == RemoteShape /\ GrabHeld /\ LiveIsNamed /\ NobodyYet

(* What every step but the announcement leaves alone: nobody becomes live, *)
(* and nobody new looks for a filer or finds none. *)
Calm ==
    /\ RemoteShape' /\ root' = root /\ ipc' = ipc /\ grab' = grab
    /\ \A p \in Process :
         /\ filer'[p].state = filer[p].state
              \/ (Live(p) /\ filer'[p].state \in {"quitting", "dead"})
         /\ client'[p].state = client[p].state
              \/ client'[p].state \in {"answered", "gave up"}

(* What a filer does of its own, and a client that waits, is calm. *)
LEMMA CalmSteps ==
    ASSUME RemoteShape, NEW p \in Process,
           \/ SoapDone(p) \/ TooSlow(p) \/ ClientEvent(p) \/ Invoke(p) \/ DialogClosed(p)
           \/ EndSoap(p) \/ UserCloses(p) \/ FilerEnds(p) \/ UNCHANGED remoteVars
    PROVE  Calm
<1> USE DEF RemoteShape
<1>1. CASE SoapDone(p) BY <1>1 DEF SoapDone, Calm
<1>2. CASE TooSlow(p) BY <1>2 DEF TooSlow, Calm
<1>3. CASE ClientEvent(p) BY <1>3 DEF ClientEvent, Calm, RunSoap, Frame
<1>4. CASE Invoke(p) BY <1>4 DEF Invoke, Calm, OneLess, Live
<1>5. CASE DialogClosed(p) BY <1>5 DEF DialogClosed, Calm
<1>6. CASE EndSoap(p) BY <1>6 DEF EndSoap, Calm, Live
<1>7. CASE UserCloses(p) BY <1>7 DEF UserCloses, Calm, InLoop, OneLess, Live
<1>8. CASE FilerEnds(p) BY <1>8 DEF FilerEnds, Calm, NoFiler, Live
<1>9. CASE UNCHANGED remoteVars BY <1>9 DEF remoteVars, Calm
<1> QED BY <1>1, <1>2, <1>3, <1>4, <1>5, <1>6, <1>7, <1>8, <1>9

LEMMA CalmKeeps == RemoteInv /\ Calm => RemoteInv'
BY DEF RemoteInv, Calm, GrabHeld, LiveIsNamed, NobodyYet, Becoming, Live

LEMMA NoProcessIsNone == \A p \in Process : p # NoProcess
BY RemoteAssumption DEF Process, NoProcess

(* The election: the server is grabbed before the look at the root window, *)
(* and released after the announcement. *)
LEMMA ElectionKeeps == RemoteInv /\ [RemoteNext]_remoteVars => RemoteInv'
<1> SUFFICES ASSUME RemoteInv, [RemoteNext]_remoteVars PROVE RemoteInv'
    OBVIOUS
<1> USE DEF RemoteInv, GrabHeld, LiveIsNamed, NobodyYet, Becoming, Live
<1>1. ASSUME NEW p \in Process, NEW r \in Request, Start(p, r) PROVE RemoteInv'
  <2>1. RemoteShape' BY <1>1 DEF Start, RemoteShape
  <2>2. /\ grab = NoProcess /\ grab' = p /\ UNCHANGED <<root, ipc, filer>>
        /\ client'[p].state = "grabbed"
        /\ \A q \in Process : q # p => client'[q] = client[q]
        BY <1>1 DEF Start, RemoteShape
  <2>3. \A q \in Process : client[q].state # "grabbed" /\ ~Becoming(q)
        BY NoProcessIsNone, <2>2
  <2>4. \A q \in Process : ~Becoming(q)'
        BY <2>2, <2>3
  <2>5. LiveIsNamed' /\ NobodyYet' BY <2>2, <2>4
  <2>6. GrabHeld' BY <2>2, <2>3, <2>4
  <2> QED BY <2>1, <2>5, <2>6
<1>2. ASSUME NEW p \in Process, SoapSend(p) PROVE RemoteInv'
  <2>1. RemoteShape' BY <1>2 DEF SoapSend, RemoteShape
  <2>2. /\ grab = p /\ client[p].state = "grabbed" /\ UNCHANGED <<root, ipc>>
        /\ client'[p].state = "waiting"
        /\ \A q \in Process : q # p => client'[q] = client[q]
        BY <1>2 DEF SoapSend, RemoteShape
  <2>3. PICK r \in Existing : filer' = [filer EXCEPT ![r].inbox = Append(@, p)]
        BY <1>2 DEF SoapSend
  <2>4. \A q \in Process : filer'[q].state = filer[q].state
        BY <2>3 DEF RemoteShape
  <2> QED BY <2>1, <2>2, <2>4
<1>3. ASSUME NEW p \in Process, NoneFound(p) PROVE RemoteInv'
  <2>1. RemoteShape' BY <1>3 DEF NoneFound, RemoteShape
  <2>2. /\ grab = p /\ UNCHANGED <<grab, root, ipc, filer>>
        /\ client'[p].state = "is filer"
        /\ \A q \in Process : q # p => client'[q] = client[q]
        BY <1>3 DEF NoneFound, RemoteShape
  <2>3. \A q \in Process : ~Live(q)
        BY NoProcessIsNone, <1>3 DEF NoneFound, Existing
  <2> QED BY <2>1, <2>2, <2>3
<1>4. ASSUME NEW p \in Process, BecomeFiler(p) PROVE RemoteInv'
  <2>1. RemoteShape' BY <1>4 DEF BecomeFiler, RunSoap, RemoteShape
  <2>2. /\ root' = p /\ p \in ipc' /\ client' = client
        /\ filer'[p].state = "running"
        /\ \A q \in Process : q # p => filer'[q] = filer[q]
        BY <1>4 DEF BecomeFiler, RunSoap, RemoteShape
  <2>3. grab = p /\ \A q \in Process : ~Live(q)
        BY <1>4 DEF BecomeFiler
  <2>4. \A q \in Process : client[q].state # "grabbed" /\ ~Becoming(q)'
        BY <1>4, <2>2, <2>3 DEF BecomeFiler
  <2> QED BY <2>1, <2>2, <2>3, <2>4
<1>5. ASSUME NEW p \in Process,
             \/ SoapDone(p) \/ TooSlow(p) \/ ClientEvent(p) \/ Invoke(p) \/ DialogClosed(p)
             \/ EndSoap(p) \/ UserCloses(p) \/ FilerEnds(p)
      PROVE  RemoteInv'
      BY <1>5, CalmSteps, CalmKeeps
<1>6. CASE UNCHANGED remoteVars
      BY <1>6, CalmSteps, CalmKeeps DEF remoteVars, RemoteShape
<1> QED BY <1>1, <1>2, <1>3, <1>4, <1>5, <1>6 DEF RemoteNext

LEMMA ElectionStarts == RemoteInit => RemoteInv
<1> SUFFICES ASSUME RemoteInit PROVE RemoteInv
    OBVIOUS
<1>1. /\ client = [p \in Process |-> NoClient] /\ filer = [p \in Process |-> NoFiler]
      BY DEF RemoteInit
<1>2. RemoteShape BY <1>1 DEF RemoteShape, NoClient, NoFiler
<1>3. \A p \in Process : client[p].state = "new" /\ filer[p].state = "none"
      BY <1>1 DEF NoClient, NoFiler
<1> QED BY <1>2, <1>3 DEF RemoteInv, GrabHeld, LiveIsNamed, NobodyYet, Becoming, Live

(* At any moment at most one process is the filer that the others find, *)
(* however many are started at once (remote_init, get_existing_ipc_window).*)
THEOREM OneFilerAlways == RemoteSpec => []OneFiler
<1>1. RemoteInv => OneFiler
      BY DEF RemoteInv, LiveIsNamed, OneFiler
<1> QED BY <1>1, ElectionStarts, ElectionKeeps, PTL DEF RemoteSpec

--------------------
(* What a client is told.  AnswerMeansDone is inductive once every request *)
(* is in one place at most, and the changes of its property that a client *)
(* has seen or will see are its own and that of the filer that ran it. *)

Call == {"open", "close", "error"}
FrameType == [from : Process, calls : Seq(Call), dialog : BOOLEAN]
ClientType == [state : {"new", "grabbed", "waiting", "is filer", "answered", "gave up"},
               request : Seq(Call), times : Nat, changes : Nat]
FilerType == [state : {"none", "running", "quitting", "dead"},
              windows : Nat, inbox : Seq(Process), frames : Seq(FrameType)]

RemoteTypes ==
    /\ client \in [Process -> ClientType]
    /\ filer \in [Process -> FilerType]
    /\ executed \in [Process -> Nat]
    /\ root \in Process \cup {NoProcess}

(* A process whose request nobody has seen yet. *)
Fresh(q) == client[q].state \in {"new", "grabbed"} \/ Becoming(q)

Untouched(q) == executed[q] = 0 /\ ~Fresh(q)

(* The requests a filer holds are different, and none of them was run. *)
HeldOnce(f) ==
    /\ \A i, j \in 1..Len(f.inbox) : f.inbox[i] = f.inbox[j] => i = j
    /\ \A i, j \in 1..Len(f.frames) : f.frames[i].from = f.frames[j].from => i = j
    /\ \A i \in 1..Len(f.inbox), j \in 1..Len(f.frames) : f.inbox[i] # f.frames[j].from
    /\ \A i \in 1..Len(f.inbox) : Untouched(f.inbox[i])
    /\ \A i \in 1..Len(f.frames) : Untouched(f.frames[i].from)

RequestsOnce ==
    /\ \A p \in Process : HeldOnce(filer[p])
    /\ \A p \in Process : ~Live(p) => filer[p].inbox = <<>> /\ filer[p].frames = <<>>
    /\ \A q \in Process : executed[q] <= 1
    /\ \A q \in Process : Fresh(q) => executed[q] = 0 /\ client[q].times = 0

ChangesCounted == \A q \in Process :
    /\ client[q].state = "waiting" =>
          client[q].times <= 1 /\ client[q].times + client[q].changes = 1 + executed[q]
    /\ client[q].state = "answered" => executed[q] = 1

(* run_soap counts as a window until it ends. *)
WindowsCounted == \A p \in Process :
    /\ filer[p].windows >= Len(filer[p].frames)
    /\ filer[p].state = "quitting" => filer[p].windows = 0

AnswerInv ==
    RemoteTypes /\ RequestsOnce /\ ChangesCounted /\ WindowsCounted

LEMMA ConsFrame ==
    ASSUME NEW S, NEW s \in Seq(S), NEW h \in S
    PROVE  /\ <<h>> \o s \in Seq(S) /\ Len(<<h>> \o s) = Len(s) + 1
           /\ \A i \in 1..(Len(s) + 1) : (<<h>> \o s)[i] = IF i = 1 THEN h ELSE s[i - 1]
OBVIOUS

LEMMA TailFrame ==
    ASSUME NEW S, NEW s \in Seq(S), s # <<>>
    PROVE  /\ Head(s) \in S /\ Tail(s) \in Seq(S) /\ Len(s) >= 1
           /\ Len(Tail(s)) = Len(s) - 1 /\ Head(s) = s[1]
           /\ \A i \in 1..(Len(s) - 1) : Tail(s)[i] = s[i + 1]
OBVIOUS

(* What a filer holds stays once-held if nobody it holds becomes fresh or *)
(* was run elsewhere. *)
LEMMA HeldStill ==
    ASSUME NEW f \in FilerType, HeldOnce(f),
           \A q \in Process : Untouched(q) => Untouched(q)'
    PROVE  HeldOnce(f)'
<1>1. f.inbox \in Seq(Process) /\ f.frames \in Seq(FrameType)
  BY DEF FilerType
<1>2. \A i \in 1..Len(f.inbox) : f.inbox[i] \in Process
  BY <1>1
<1>3. \A i \in 1..Len(f.frames) : f.frames[i] \in FrameType
  BY <1>1
<1>4. \A i \in 1..Len(f.frames) : f.frames[i].from \in Process
  BY <1>3 DEF FrameType
<1> QED BY <1>2, <1>4 DEF HeldOnce

(* A step that only changes what one live filer does. *)
LEMMA FilerAlone ==
    ASSUME AnswerInv, NEW p \in Process, Live(p), NEW f \in FilerType,
           filer' = [filer EXCEPT ![p] = f], UNCHANGED <<root, client, executed>>,
           f.state # "none", HeldOnce(f),
           f.state = "dead" => f.inbox = <<>> /\ f.frames = <<>>,
           f.windows >= Len(f.frames), f.state = "quitting" => f.windows = 0
    PROVE  AnswerInv'
<1>1. /\ filer'[p] = f /\ \A q \in Process : q # p => filer'[q] = filer[q]
      /\ filer' \in [Process -> FilerType]
  BY DEF AnswerInv, RemoteTypes
<1>2. RemoteTypes'
  BY <1>1 DEF AnswerInv, RemoteTypes
<1>3. \A q \in Process : Fresh(q)' = Fresh(q)
  BY <1>1 DEF Fresh, Becoming, Live
<1>4. \A q \in Process : Untouched(q) => Untouched(q)'
  BY <1>3 DEF Untouched
<1>5. \A q \in Process : HeldOnce(filer[q])'
  <2> TAKE q \in Process
  <2>1. CASE q = p
    <3>1. HeldOnce(f)'
      BY <1>4, HeldStill
    <3> QED BY <1>1, <2>1, <3>1 DEF HeldOnce
  <2>2. CASE q # p
    <3> DEFINE g == filer[q]
    <3>1. g \in FilerType /\ HeldOnce(g)
      BY DEF AnswerInv, RemoteTypes, RequestsOnce
    <3>2. \A h \in FilerType : HeldOnce(h) => HeldOnce(h)'
      BY <1>4, HeldStill
    <3> QED BY <1>1, <2>2, <3>1, <3>2 DEF HeldOnce
  <2> QED BY <2>1, <2>2
<1>6. RequestsOnce'
  <2>1. f.state \in {"running", "quitting", "dead"}
    BY DEF FilerType
  <2>2. \A q \in Process : ~Live(q)' => filer'[q].inbox = <<>> /\ filer'[q].frames = <<>>
    BY <1>1, <2>1 DEF AnswerInv, RequestsOnce, Live
  <2> QED BY <1>3, <1>5, <2>2 DEF AnswerInv, RequestsOnce
<1>7. ChangesCounted' /\ WindowsCounted'
  BY <1>1 DEF AnswerInv, ChangesCounted, WindowsCounted
<1> QED BY <1>2, <1>6, <1>7 DEF AnswerInv

(* A step that only changes what one client waits for. *)
LEMMA ClientAlone ==
    ASSUME AnswerInv, NEW p \in Process, NEW c \in ClientType,
           client' = [client EXCEPT ![p] = c], UNCHANGED <<root, filer, executed>>,
           c.state \in {"new", "grabbed"} \/ (c.state = "is filer" /\ filer[p].state = "none") =>
               Fresh(p) /\ c.times = client[p].times,
           c.state = "waiting" => c.times <= 1 /\ c.times + c.changes = 1 + executed[p],
           c.state = "answered" => executed[p] = 1
    PROVE  AnswerInv'
<1>1. /\ client'[p] = c /\ \A q \in Process : q # p => client'[q] = client[q]
      /\ client' \in [Process -> ClientType]
  BY DEF AnswerInv, RemoteTypes
<1>2. RemoteTypes'
  BY <1>1 DEF AnswerInv, RemoteTypes
<1>3. \A q \in Process : Fresh(q)' => Fresh(q) /\ client'[q].times = client[q].times
  BY <1>1 DEF Fresh, Becoming
<1>4. \A q \in Process : Untouched(q) => Untouched(q)'
  BY <1>3 DEF Untouched
<1>5. \A q \in Process : HeldOnce(filer[q])'
  <2> TAKE q \in Process
  <2> DEFINE g == filer[q]
  <2>1. g \in FilerType /\ HeldOnce(g)
    BY DEF AnswerInv, RemoteTypes, RequestsOnce
  <2>2. \A h \in FilerType : HeldOnce(h) => HeldOnce(h)'
    BY <1>4, HeldStill
  <2> QED BY <2>1, <2>2 DEF HeldOnce
<1>6. RequestsOnce'
  <2>1. \A q \in Process : Live(q)' = Live(q)
    BY DEF Live
  <2> QED BY <1>3, <1>5, <2>1 DEF AnswerInv, RequestsOnce
<1>7. ChangesCounted' /\ WindowsCounted'
  BY <1>1 DEF AnswerInv, ChangesCounted, WindowsCounted
<1> QED BY <1>2, <1>6, <1>7 DEF AnswerInv

LEMMA StartAnswers ==
    ASSUME AnswerInv, NEW p \in Process, NEW r \in Request, Start(p, r) PROVE AnswerInv'
<1> DEFINE c == [client[p] EXCEPT !.state = "grabbed", !.request = r]
<1>1. /\ client' = [client EXCEPT ![p] = c] /\ UNCHANGED <<root, filer, executed>>
      /\ client[p].state = "new"
  BY DEF Start, AnswerInv, RemoteTypes, ClientType
<1>2. r \in Seq(Call)
  BY RemoteAssumption DEF Call
<1>3. c \in ClientType /\ c.state = "grabbed" /\ c.times = client[p].times
  BY <1>2 DEF AnswerInv, RemoteTypes, ClientType
<1>4. Fresh(p)
  BY <1>1 DEF Fresh
<1> HIDE DEF c
<1> QED BY <1>1, <1>3, <1>4, ClientAlone

LEMMA NoneFoundAnswers ==
    ASSUME AnswerInv, NEW p \in Process, NoneFound(p) PROVE AnswerInv'
<1> DEFINE c == [client[p] EXCEPT !.state = "is filer"]
<1>1. /\ client' = [client EXCEPT ![p] = c] /\ UNCHANGED <<root, filer, executed>>
      /\ client[p].state = "grabbed"
  BY DEF NoneFound, AnswerInv, RemoteTypes, ClientType
<1>2. c \in ClientType /\ c.state = "is filer" /\ c.times = client[p].times
  BY DEF AnswerInv, RemoteTypes, ClientType
<1>3. Fresh(p)
  BY <1>1 DEF Fresh
<1> HIDE DEF c
<1> QED BY <1>1, <1>2, <1>3, ClientAlone

LEMMA SoapDoneAnswers ==
    ASSUME AnswerInv, NEW p \in Process, SoapDone(p) PROVE AnswerInv'
<1> DEFINE c == [client[p] EXCEPT !.changes = @ - 1, !.times = @ + 1,
                     !.state = IF client[p].times = 1 THEN "answered" ELSE @]
<1>1. /\ client' = [client EXCEPT ![p] = c] /\ UNCHANGED <<root, filer, executed>>
      /\ client[p].state = "waiting" /\ client[p].changes > 0
  BY DEF SoapDone, AnswerInv, RemoteTypes, ClientType
<1>2. client[p] \in ClientType /\ executed[p] \in Nat /\ executed[p] <= 1
  BY DEF AnswerInv, RemoteTypes, RequestsOnce
<1>3. client[p].times <= 1 /\ client[p].times + client[p].changes = 1 + executed[p]
  BY <1>1 DEF AnswerInv, ChangesCounted
<1>4. /\ c.changes = client[p].changes - 1 /\ c.times = client[p].times + 1
      /\ c.state = IF client[p].times = 1 THEN "answered" ELSE "waiting"
      /\ c.request = client[p].request
  BY <1>1, <1>2 DEF ClientType
<1>5. client[p].times \in Nat /\ client[p].changes \in Nat
  BY <1>2 DEF ClientType
<1> DEFINE changes == client[p].changes - 1
           times   == client[p].times + 1
           state   == IF client[p].times = 1 THEN "answered" ELSE client[p].state
<1>6. changes \in Nat /\ times \in Nat /\ state \in {"waiting", "answered"}
  BY <1>1, <1>5
<1>7. c \in ClientType
  <2>1. c = [client[p] EXCEPT !.changes = changes, !.times = times, !.state = state]
    OBVIOUS
  <2> HIDE DEF changes, times, state, c
  <2> QED BY <1>2, <1>6, <2>1 DEF ClientType
<1> HIDE DEF c
<1>8. c.state \notin {"new", "grabbed", "is filer"}
  BY <1>4
<1>9. c.state = "waiting" => c.times <= 1 /\ c.times + c.changes = 1 + executed[p]
  BY <1>2, <1>3, <1>4, <1>5
<1>10. c.state = "answered" => executed[p] = 1
  BY <1>1, <1>2, <1>3, <1>4, <1>5
<1> QED BY <1>1, <1>7, <1>8, <1>9, <1>10, ClientAlone

LEMMA TooSlowAnswers ==
    ASSUME AnswerInv, NEW p \in Process, TooSlow(p) PROVE AnswerInv'
<1> DEFINE c == [client[p] EXCEPT !.state = "gave up"]
<1>1. client' = [client EXCEPT ![p] = c] /\ UNCHANGED <<root, filer, executed>>
  BY DEF TooSlow, AnswerInv, RemoteTypes, ClientType
<1>2. c \in ClientType /\ c.state = "gave up"
  BY DEF AnswerInv, RemoteTypes, ClientType
<1> HIDE DEF c
<1> QED BY <1>1, <1>2, ClientAlone

(* What the filer is: a live one, and its record. *)
LEMMA ClientEventAnswers ==
    ASSUME AnswerInv, NEW p \in Process, ClientEvent(p) PROVE AnswerInv'
<1> DEFINE g == filer[p]
           q == Head(g.inbox)
           less == [g EXCEPT !.inbox = Tail(@)]
           frame == Frame(q)
           more == [g EXCEPT !.inbox = Tail(@), !.windows = @ + 1, !.frames = <<frame>> \o @]
<1>1. g \in FilerType /\ HeldOnce(g) /\ g.state = "running" /\ Live(p) /\ g.inbox # <<>>
  BY DEF ClientEvent, InLoop, Live, AnswerInv, RemoteTypes, RequestsOnce
<1>2. g.inbox \in Seq(Process) /\ g.frames \in Seq(FrameType) /\ g.windows \in Nat
  BY <1>1 DEF FilerType
<1>3. g.windows >= Len(g.frames)
  BY DEF AnswerInv, WindowsCounted
<1>4. /\ q \in Process /\ Tail(g.inbox) \in Seq(Process) /\ Len(g.inbox) >= 1
      /\ Len(Tail(g.inbox)) = Len(g.inbox) - 1 /\ q = g.inbox[1]
      /\ \A i \in 1..(Len(g.inbox) - 1) : Tail(g.inbox)[i] = g.inbox[i + 1]
  BY <1>1, <1>2, TailFrame
<1>5. UNCHANGED <<root, client, executed>>
  BY DEF ClientEvent
<1>6. CASE client[q].state # "waiting"
  <2>1. filer' = [filer EXCEPT ![p] = less]
    BY <1>6 DEF ClientEvent
  <2>2. /\ less \in FilerType /\ less.state = "running" /\ less.inbox = Tail(g.inbox)
        /\ less.frames = g.frames /\ less.windows = g.windows
    BY <1>1, <1>4 DEF FilerType
  <2> HIDE DEF less, g, q
  <2>3. HeldOnce(less)
    BY <1>1, <1>2, <1>4, <2>2 DEF HeldOnce
  <2> QED BY <1>1, <1>3, <1>5, <2>1, <2>2, <2>3, FilerAlone
<1>7. CASE client[q].state = "waiting"
  <2>1. filer' = [filer EXCEPT ![p] = more]
    <3>1. filer' = [filer EXCEPT ![p] = RunSoap(less, q)]
      BY <1>7 DEF ClientEvent
    <3>2. RunSoap(less, q) = more
      BY <1>1 DEF RunSoap, FilerType
    <3> QED BY <3>1, <3>2
  <2>2. frame \in FrameType /\ frame.from = q
    BY <1>4 DEF Frame, FrameType, AnswerInv, RemoteTypes, ClientType
  <2> DEFINE frames == <<frame>> \o g.frames
  <2>3. /\ frames \in Seq(FrameType) /\ Len(frames) = Len(g.frames) + 1
        /\ \A i \in 1..(Len(g.frames) + 1) : frames[i] = IF i = 1 THEN frame ELSE g.frames[i - 1]
    BY <1>2, <2>2, ConsFrame
  <2> HIDE DEF frames
  <2>4. more = [g EXCEPT !.inbox = Tail(@), !.windows = @ + 1, !.frames = frames]
    BY DEF frames
  <2> HIDE DEF more, frame
  <2> DEFINE inbox == Tail(g.inbox)
             windows == g.windows + 1
  <2>5. more = [g EXCEPT !.inbox = inbox, !.windows = windows, !.frames = frames]
    BY <2>4
  <2>6. inbox \in Seq(Process) /\ windows \in Nat
    BY <1>2, <1>4
  <2> HIDE DEF g, q, inbox, windows
  <2>7. /\ more \in FilerType /\ more.state = "running" /\ more.inbox = inbox
         /\ more.frames = frames /\ more.windows = windows
    BY <1>1, <2>3, <2>5, <2>6 DEF FilerType
  <2>8. /\ more \in FilerType /\ more.state = "running" /\ more.inbox = Tail(g.inbox)
        /\ more.frames = frames /\ more.windows = g.windows + 1
    BY <2>7 DEF inbox, windows
  <2>9. Untouched(q)
    BY <1>1, <1>2, <1>4 DEF HeldOnce
  <2>10. \A i \in 1..Len(g.frames) : Untouched(g.frames[i].from) /\ g.frames[i].from # q
    BY <1>1, <1>2, <1>4 DEF HeldOnce
  <2>11. \A i \in 1..Len(more.inbox) :
             /\ Untouched(more.inbox[i]) /\ more.inbox[i] # q
             /\ \A j \in 1..Len(more.inbox) : more.inbox[i] = more.inbox[j] => i = j
             /\ \A j \in 1..Len(g.frames) : more.inbox[i] # g.frames[j].from
    BY <1>1, <1>2, <1>4, <2>8 DEF HeldOnce
  <2>12. \A i, j \in 1..Len(g.frames) : g.frames[i].from = g.frames[j].from => i = j
    BY <1>1 DEF HeldOnce
  <2>13. \A i \in 1..Len(more.frames) :
            \/ i = 1 /\ more.frames[i].from = q
            \/ i # 1 /\ i - 1 \in 1..Len(g.frames) /\ more.frames[i].from = g.frames[i - 1].from
    BY <1>2, <2>2, <2>3, <2>8
  <2>14. \A i, j \in 1..Len(more.frames) : more.frames[i].from = more.frames[j].from => i = j
    <3> SUFFICES ASSUME NEW i \in 1..Len(more.frames), NEW j \in 1..Len(more.frames),
                        more.frames[i].from = more.frames[j].from
                 PROVE  i = j
      OBVIOUS
    <3>1. Len(more.frames) \in Nat
      BY <1>2, <2>3, <2>8
    <3>2. i = 1 <=> more.frames[i].from = q
      BY <2>10, <2>13
    <3>3. j = 1 <=> more.frames[j].from = q
      BY <2>10, <2>13
    <3>4. CASE i # 1 /\ j # 1
      <4>1. i - 1 \in 1..Len(g.frames) /\ j - 1 \in 1..Len(g.frames)
            /\ g.frames[i - 1].from = g.frames[j - 1].from
        BY <2>13, <3>4
      <4>2. i - 1 = j - 1
        BY <2>12, <4>1
      <4> QED BY <3>1, <4>2
    <3> QED BY <3>2, <3>3, <3>4
  <2>15. HeldOnce(more)
    BY <2>9, <2>10, <2>11, <2>13, <2>14 DEF HeldOnce
  <2>16. more.windows >= Len(more.frames)
    BY <1>2, <1>3, <2>3, <2>8
  <2> QED BY <1>1, <1>5, <2>1, <2>8, <2>15, <2>16, FilerAlone
<1> QED BY <1>6, <1>7

LEMMA UserClosesAnswers ==
    ASSUME AnswerInv, NEW p \in Process, UserCloses(p) PROVE AnswerInv'
<1> DEFINE g == filer[p]
           f == OneLess(g, 1)
<1>1. g \in FilerType /\ HeldOnce(g) /\ g.state = "running" /\ Live(p)
  BY DEF UserCloses, InLoop, Live, AnswerInv, RemoteTypes, RequestsOnce
<1>2. g.inbox \in Seq(Process) /\ g.frames \in Seq(FrameType) /\ g.windows \in Nat
  BY <1>1 DEF FilerType
<1>3. /\ g.windows - Len(g.frames) > 0 /\ UNCHANGED <<root, client, executed>>
      /\ filer' = [filer EXCEPT ![p] = f]
  BY DEF UserCloses, OpenWindows
<1>4. g.windows - 1 \in Nat /\ g.windows - 1 >= Len(g.frames)
  BY <1>2, <1>3
<1> DEFINE windows == g.windows - 1
           state == IF windows < 1 THEN "quitting" ELSE "running"
<1>5. f = [g EXCEPT !.windows = windows, !.state = state]
  BY <1>1 DEF OneLess
<1>6. windows \in Nat /\ state \in {"running", "quitting"}
  BY <1>4
<1>7. windows >= Len(g.frames) /\ (state = "quitting" => windows = 0)
  BY <1>2, <1>4
<1> HIDE DEF f, g, windows, state
<1>8. /\ f \in FilerType /\ f.inbox = g.inbox /\ f.frames = g.frames
      /\ f.windows = windows /\ f.state = state
  BY <1>1, <1>5, <1>6 DEF FilerType
<1>9. HeldOnce(f)
  BY <1>1, <1>8 DEF HeldOnce
<1> QED BY <1>1, <1>3, <1>8, <1>9, <1>6, <1>7, FilerAlone

LEMMA FilerEndsAnswers ==
    ASSUME AnswerInv, NEW p \in Process, FilerEnds(p) PROVE AnswerInv'
<1> DEFINE f == [NoFiler EXCEPT !.state = "dead"]
<1>1. Live(p) /\ filer' = [filer EXCEPT ![p] = f] /\ UNCHANGED <<root, client, executed>>
  BY DEF FilerEnds, Live
<1>2. f = [state |-> "dead", windows |-> 0, inbox |-> <<>>, frames |-> <<>>]
  BY DEF NoFiler
<1> HIDE DEF f
<1>3. <<>> \in Seq(Process) /\ <<>> \in Seq(FrameType)
  OBVIOUS
<1>4. /\ f \in FilerType /\ f.inbox = <<>> /\ f.frames = <<>> /\ f.windows = 0
      /\ f.state = "dead"
  BY <1>2, <1>3 DEF FilerType
<1>5. Len(f.inbox) = 0 /\ Len(f.frames) = 0
  BY <1>4
<1>6. HeldOnce(f)
  BY <1>5 DEF HeldOnce
<1>7. f.windows >= Len(f.frames) /\ f.state # "none" /\ f.state # "quitting"
  BY <1>4, <1>5
<1>8. f \in FilerType /\ f.inbox = <<>> /\ f.frames = <<>>
  BY <1>4
<1> QED BY <1>1, <1>6, <1>7, <1>8, FilerAlone

(* The frame on top goes on to its next call, or shows a dialog. *)
LEMMA TopFrame ==
    ASSUME NEW s \in Seq(FrameType), s # <<>>, NEW h \in FrameType, h.from = Head(s).from
    PROVE  /\ [s EXCEPT ![1] = h] \in Seq(FrameType)
           /\ Len([s EXCEPT ![1] = h]) = Len(s) /\ Len(s) \in Nat /\ Len(s) >= 1
           /\ \A i \in 1..Len(s) : [s EXCEPT ![1] = h][i].from = s[i].from
<1>1. 1 \in 1..Len(s) /\ Head(s) = s[1] /\ Len(s) \in Nat /\ Len(s) >= 1
  OBVIOUS
<1>2. /\ [s EXCEPT ![1] = h] \in Seq(FrameType)
      /\ Len([s EXCEPT ![1] = h]) = Len(s)
      /\ \A i \in 1..Len(s) : [s EXCEPT ![1] = h][i] = IF i = 1 THEN h ELSE s[i]
  BY <1>1, ExceptSeq
<1> QED BY <1>1, <1>2

LEMMA DialogClosedAnswers ==
    ASSUME AnswerInv, NEW p \in Process, DialogClosed(p) PROVE AnswerInv'
<1> DEFINE g == filer[p]
           h == [Head(g.frames) EXCEPT !.dialog = FALSE]
           frames == [g.frames EXCEPT ![1] = h]
           f == [g EXCEPT !.frames = frames]
<1>1. /\ g \in FilerType /\ HeldOnce(g) /\ Live(p) /\ g.frames # <<>>
      /\ UNCHANGED <<root, client, executed>>
  BY DEF DialogClosed, AnswerInv, RemoteTypes, RequestsOnce
<1>2. g.inbox \in Seq(Process) /\ g.frames \in Seq(FrameType) /\ g.windows \in Nat
  BY <1>1 DEF FilerType
<1>3. Head(g.frames) = g.frames[1] /\ Head(g.frames) \in FrameType
  BY <1>1, <1>2
<1>4. filer' = [filer EXCEPT ![p] = f]
  <2>1. filer' = [filer EXCEPT ![p].frames[1].dialog = FALSE]
    BY DEF DialogClosed
  <2> QED BY <1>3, <2>1
<1>5. h \in FrameType /\ h.from = Head(g.frames).from
  BY <1>3 DEF FrameType
<1> HIDE DEF h
<1>6. /\ frames \in Seq(FrameType) /\ Len(frames) = Len(g.frames)
      /\ \A i \in 1..Len(g.frames) : frames[i].from = g.frames[i].from
  BY <1>1, <1>2, <1>5, TopFrame
<1> HIDE DEF frames
<1>7. /\ f \in FilerType /\ f.inbox = g.inbox /\ f.frames = frames
      /\ f.windows = g.windows /\ f.state = g.state
  BY <1>1, <1>6 DEF FilerType
<1>8. g.windows >= Len(g.frames) /\ (g.state = "quitting" => g.windows = 0)
  BY DEF AnswerInv, WindowsCounted
<1>9. g.state # "none" /\ g.state # "dead"
  BY <1>1 DEF Live
<1> HIDE DEF f, g
<1>10. HeldOnce(f)
  BY <1>1, <1>6, <1>7 DEF HeldOnce
<1> QED BY <1>1, <1>4, <1>6, <1>7, <1>8, <1>9, <1>10, FilerAlone

LEMMA InvokeAnswers ==
    ASSUME AnswerInv, NEW p \in Process, Invoke(p) PROVE AnswerInv'
<1> DEFINE g == filer[p]
           top == Head(g.frames)
           h == [top EXCEPT !.calls = Tail(@)]
           rest == [g EXCEPT !.frames = [@ EXCEPT ![1] = h]]
<1>1. /\ g \in FilerType /\ HeldOnce(g) /\ Live(p) /\ g.frames # <<>>
      /\ UNCHANGED <<root, client, executed>>
  BY DEF Invoke, AnswerInv, RemoteTypes, RequestsOnce
<1>2. g.inbox \in Seq(Process) /\ g.frames \in Seq(FrameType) /\ g.windows \in Nat
  BY <1>1 DEF FilerType
<1>3. top = g.frames[1] /\ top \in FrameType /\ top.calls # <<>>
  BY <1>1, <1>2 DEF Invoke
<1>4. g.windows >= Len(g.frames) /\ (g.state = "quitting" => g.windows = 0)
  BY DEF AnswerInv, WindowsCounted
<1>5. Len(g.frames) \in Nat /\ Len(g.frames) >= 1 /\ g.windows >= 1
  BY <1>1, <1>2, <1>4
<1>6. g.state = "running"
  BY <1>1, <1>4, <1>5 DEF Live
<1>7. h \in FrameType /\ h.from = top.from
  <2>1. Tail(top.calls) \in Seq(Call)
    BY <1>3 DEF FrameType
  <2> QED BY <1>3, <2>1 DEF FrameType
(* Only the calls of the frame on top, its dialog, the number of windows. *)
<1>8. ASSUME NEW b \in FrameType, b.from = top.from, NEW n \in Nat, n >= Len(g.frames),
             filer' = [filer EXCEPT ![p] =
                         [g EXCEPT !.windows = n, !.frames = [g.frames EXCEPT ![1] = b]]]
      PROVE  AnswerInv'
  <2> DEFINE frames == [g.frames EXCEPT ![1] = b]
             f == [g EXCEPT !.windows = n, !.frames = frames]
  <2>1. /\ frames \in Seq(FrameType) /\ Len(frames) = Len(g.frames)
        /\ \A i \in 1..Len(g.frames) : frames[i].from = g.frames[i].from
    BY <1>1, <1>2, <1>8, TopFrame
  <2>2. filer' = [filer EXCEPT ![p] = f]
    BY <1>8
  <2> HIDE DEF frames
  <2>3. /\ f \in FilerType /\ f.inbox = g.inbox /\ f.frames = frames
        /\ f.windows = n /\ f.state = "running"
    BY <1>1, <1>6, <2>1 DEF FilerType
  <2> HIDE DEF f, g
  <2>4. HeldOnce(f)
    BY <1>1, <2>1, <2>3 DEF HeldOnce
  <2> QED BY <1>1, <1>8, <2>1, <2>2, <2>3, <2>4, FilerAlone
<1> DEFINE call == Head(top.calls)
           opened == g.windows + 1
           closed == g.windows - (g.windows - Len(g.frames))
<1>9. opened \in Nat /\ opened >= Len(g.frames) /\ closed = Len(g.frames) /\ closed \in Nat
  BY <1>2, <1>4, <1>5
<1>10. filer' = [filer EXCEPT ![p] =
          CASE call = "open" /\ OpenWindows(g) < MaxOpen -> [rest EXCEPT !.windows = @ + 1]
            [] call = "close" /\ OpenWindows(g) > 0 -> OneLess(rest, OpenWindows(g))
            [] call = "error" -> [rest EXCEPT !.frames[1].dialog = TRUE]
            [] OTHER -> rest]
  BY <1>3 DEF Invoke
<1> DEFINE frames == [g.frames EXCEPT ![1] = h]
<1>11. /\ rest = [g EXCEPT !.frames = frames] /\ rest.windows = g.windows
       /\ rest.state = "running" /\ rest.frames = frames
  BY <1>1, <1>6 DEF FilerType
<1>12. CASE call = "open" /\ OpenWindows(g) < MaxOpen
  <2>1. filer' = [filer EXCEPT ![p] = [rest EXCEPT !.windows = opened]]
    BY <1>10, <1>11, <1>12
  <2>2. [rest EXCEPT !.windows = opened] = [g EXCEPT !.windows = opened, !.frames = frames]
    BY <1>1 DEF FilerType
  <2> HIDE DEF g, h, opened, rest
  <2> QED BY <1>7, <1>8, <1>9, <2>1, <2>2
<1>13. CASE call = "close" /\ OpenWindows(g) > 0
  <2>1. filer' = [filer EXCEPT ![p] = OneLess(rest, OpenWindows(g))]
    BY <1>10, <1>13
  <2>2. rest.windows - OpenWindows(g) = closed /\ ~(closed < 1)
    BY <1>2, <1>5, <1>9, <1>11 DEF OpenWindows
  <2>3. OneLess(rest, OpenWindows(g)) = [rest EXCEPT !.windows = closed, !.state = rest.state]
    <3> DEFINE n == OpenWindows(g)
    <3>1. OneLess(rest, n) = [rest EXCEPT !.windows = @ - n,
              !.state = IF n > 0 /\ rest.windows - n < 1 THEN "quitting" ELSE @]
      BY DEF OneLess
    <3> HIDE DEF n, rest, closed
    <3> QED BY <2>2, <3>1 DEF n
  <2>4. [rest EXCEPT !.windows = closed, !.state = rest.state]
          = [g EXCEPT !.windows = closed, !.frames = frames]
    BY <1>1 DEF FilerType
  <2>5. closed \in Nat /\ closed >= Len(g.frames)
    BY <1>5, <1>9
  <2> HIDE DEF g, h, closed, rest
  <2> QED BY <1>7, <1>8, <2>1, <2>3, <2>4, <2>5
<1>14. CASE call = "error"
  <2> DEFINE b == [h EXCEPT !.dialog = TRUE]
  <2>1. filer' = [filer EXCEPT ![p] = [rest EXCEPT !.frames[1].dialog = TRUE]]
    BY <1>10, <1>14
  <2>2. b \in FrameType /\ b.from = top.from
    BY <1>7 DEF FrameType
  <2>3. frames[1] = h
    BY <1>2, <1>5
  <2>4. [rest EXCEPT !.frames[1].dialog = TRUE]
          = [g EXCEPT !.windows = g.windows, !.frames = [g.frames EXCEPT ![1] = b]]
    <3>1. [rest EXCEPT !.frames[1].dialog = TRUE] = [rest EXCEPT !.frames = [frames EXCEPT ![1] = b]]
      BY <1>11, <2>3
    <3>2. [frames EXCEPT ![1] = b] = [g.frames EXCEPT ![1] = b]
      BY <1>2
    <3>3. [rest EXCEPT !.frames = [g.frames EXCEPT ![1] = b]]
            = [g EXCEPT !.windows = g.windows, !.frames = [g.frames EXCEPT ![1] = b]]
      BY <1>1 DEF FilerType
    <3> QED BY <3>1, <3>2, <3>3
  <2> HIDE DEF g, h, b, rest
  <2> QED BY <1>2, <1>4, <1>8, <2>1, <2>2, <2>4
<1>15. CASE /\ ~(call = "open" /\ OpenWindows(g) < MaxOpen)
            /\ ~(call = "close" /\ OpenWindows(g) > 0)
            /\ call # "error"
  <2>1. filer' = [filer EXCEPT ![p] = rest]
    BY <1>10, <1>15
  <2>2. rest = [g EXCEPT !.windows = g.windows, !.frames = frames]
    BY <1>1 DEF FilerType
  <2> HIDE DEF g, h, rest
  <2> QED BY <1>2, <1>4, <1>7, <1>8, <2>1, <2>2
<1> QED BY <1>12, <1>13, <1>14, <1>15

(* A step that moves a request, to or within the one filer there is. *)
LEMMA RequestMoves ==
    ASSUME AnswerInv, RemoteTypes', NEW p \in Process, NEW f \in FilerType,
           filer' = [filer EXCEPT ![p] = f], \A q \in Process : q # p => ~Live(q),
           \A q \in Process : Fresh(q)' => Fresh(q) /\ executed'[q] = executed[q]
                                                    /\ client'[q].times = client[q].times,
           \A q \in Process : executed'[q] <= 1,
           f.state \in {"running", "quitting"}, HeldOnce(f)',
           f.windows >= Len(f.frames), f.state = "quitting" => f.windows = 0,
           ChangesCounted'
    PROVE  AnswerInv'
<1>1. filer'[p] = f /\ \A q \in Process : q # p => filer'[q] = filer[q]
  BY DEF AnswerInv, RemoteTypes
<1>2. \A q \in Process : q # p => filer'[q].inbox = <<>> /\ filer'[q].frames = <<>>
  BY <1>1 DEF AnswerInv, RequestsOnce
<1>3. \A q \in Process : HeldOnce(filer[q])'
  <2> TAKE q \in Process
  <2>1. CASE q = p
    BY <1>1, <2>1 DEF HeldOnce
  <2>2. CASE q # p
    <3>1. Len(filer'[q].inbox) = 0 /\ Len(filer'[q].frames) = 0
      BY <1>2, <2>2
    <3> QED BY <3>1 DEF HeldOnce
  <2> QED BY <2>1, <2>2
<1>4. RequestsOnce'
  <2>1. \A q \in Process : ~Live(q)' => filer'[q].inbox = <<>> /\ filer'[q].frames = <<>>
    BY <1>1, <1>2 DEF Live
  <2> QED BY <1>3, <2>1 DEF AnswerInv, RequestsOnce
<1>5. WindowsCounted'
  BY <1>1 DEF AnswerInv, WindowsCounted
<1> QED BY <1>4, <1>5 DEF AnswerInv

(* ... into an inbox, ... *)
LEMMA SoapSendAnswers ==
    ASSUME RemoteInv, AnswerInv, NEW p \in Process, SoapSend(p) PROVE AnswerInv'
<1>1. PICK r \in Existing :
         /\ filer' = [filer EXCEPT ![r].inbox = Append(@, p)]
         /\ client' = [client EXCEPT ![p].state = "waiting", ![p].changes = 1]
  BY DEF SoapSend
<1>2. r \in Process /\ Live(r) /\ \A q \in Process : q # r => ~Live(q)
  BY DEF Existing, AnswerInv, RemoteTypes, RemoteInv, LiveIsNamed
<1> DEFINE inbox == Append(filer[r].inbox, p)
           c == [client[p] EXCEPT !.state = "waiting", !.changes = 1]
<1>3. PICK g : g = filer[r]
  OBVIOUS
<1>4. PICK f : f = [g EXCEPT !.inbox = inbox]
  OBVIOUS
<1>5. g \in FilerType /\ HeldOnce(g)
  BY <1>2, <1>3 DEF AnswerInv, RemoteTypes, RequestsOnce
<1>6. /\ client[p].state = "grabbed" /\ client[p] \in ClientType
      /\ executed' = executed /\ root' = root
  BY DEF SoapSend, AnswerInv, RemoteTypes
<1>7. Fresh(p) /\ executed[p] = 0 /\ client[p].times = 0
  BY <1>6 DEF Fresh, AnswerInv, RequestsOnce
<1>8. g.inbox \in Seq(Process) /\ g.frames \in Seq(FrameType)
  BY <1>5 DEF FilerType
<1>9. /\ inbox \in Seq(Process) /\ Len(inbox) = Len(g.inbox) + 1
      /\ \A i \in 1..(Len(g.inbox) + 1) :
            inbox[i] = IF i = Len(g.inbox) + 1 THEN p ELSE g.inbox[i]
  BY <1>3, <1>8
<1>10. filer' = [filer EXCEPT ![r] = f] /\ client' = [client EXCEPT ![p] = c]
  BY <1>1, <1>3, <1>4
<1>11. c \in ClientType /\ c.state = "waiting" /\ c.times = 0 /\ c.changes = 1
  BY <1>6, <1>7 DEF ClientType
<1> HIDE DEF inbox, c
<1>12. /\ f \in FilerType /\ f.inbox = inbox /\ f.frames = g.frames
       /\ f.windows = g.windows /\ f.state = g.state
  BY <1>4, <1>5, <1>9 DEF FilerType
<1>13. /\ filer'[r] = f /\ \A q \in Process : q # r => filer'[q] = filer[q]
       /\ client'[p] = c /\ \A q \in Process : q # p => client'[q] = client[q]
       /\ RemoteTypes'
  BY <1>2, <1>6, <1>10, <1>11, <1>12 DEF AnswerInv, RemoteTypes
<1>14. \A q \in Process : filer'[q].state = filer[q].state
  BY <1>3, <1>12, <1>13
<1>15. \A q \in Process : Fresh(q)' => Fresh(q) /\ q # p
  BY <1>6, <1>11, <1>13, <1>14 DEF Fresh, Becoming
<1>16. (\A q \in Process : Untouched(q) => Untouched(q)') /\ Untouched(p)'
  BY <1>6, <1>7, <1>15 DEF Untouched
<1>17. HeldOnce(f)'
  <2>1. HeldOnce(g)'
    BY <1>5, <1>16, HeldStill
  <2>2. /\ \A i \in 1..Len(g.inbox) : g.inbox[i] # p
        /\ \A i \in 1..Len(g.frames) : g.frames[i].from # p
    BY <1>5, <1>7 DEF HeldOnce, Untouched
  <2>3. Len(g.inbox) \in Nat
    BY <1>8
  <2>4. \A i \in 1..Len(f.inbox) :
            \/ i = Len(g.inbox) + 1 /\ f.inbox[i] = p
            \/ i \in 1..Len(g.inbox) /\ f.inbox[i] = g.inbox[i]
    BY <1>9, <1>12, <2>3
  <2> QED BY <1>12, <1>16, <2>1, <2>2, <2>4 DEF HeldOnce
<1>18. ChangesCounted'
  BY <1>6, <1>7, <1>11, <1>13 DEF AnswerInv, ChangesCounted
<1>19. f.windows >= Len(f.frames) /\ (f.state = "quitting" => f.windows = 0)
  BY <1>2, <1>3, <1>12 DEF AnswerInv, WindowsCounted
<1>20. f.state \in {"running", "quitting"}
  BY <1>2, <1>3, <1>12 DEF Live
<1>21. \A q \in Process : Fresh(q)' => Fresh(q) /\ executed'[q] = executed[q]
                                       /\ client'[q].times = client[q].times
  BY <1>6, <1>13, <1>15
<1>22. \A q \in Process : executed'[q] <= 1
  BY <1>6 DEF AnswerInv, RequestsOnce
<1> QED BY <1>2, <1>10, <1>12, <1>13, <1>17, <1>18, <1>19, <1>20, <1>21, <1>22, RequestMoves

(* ... into a frame of the new filer, ... *)
LEMMA BecomeFilerAnswers ==
    ASSUME RemoteInv, AnswerInv, NEW p \in Process, BecomeFiler(p) PROVE AnswerInv'
<1>1. /\ Becoming(p) /\ root' = p /\ client' = client /\ executed' = executed
      /\ filer' = [filer EXCEPT ![p] = RunSoap([@ EXCEPT !.state = "running"], p)]
  BY DEF BecomeFiler, Becoming
<1>2. \A q \in Process : ~Live(q)
  BY <1>1 DEF RemoteInv, NobodyYet
<1>3. PICK g : g = filer[p]
  OBVIOUS
<1>4. g \in FilerType /\ g.inbox = <<>> /\ g.frames = <<>>
  BY <1>2, <1>3 DEF AnswerInv, RemoteTypes, RequestsOnce
<1>5. g.windows \in Nat
  BY <1>4 DEF FilerType
<1>6. PICK frame : frame = Frame(p)
  OBVIOUS
<1>7. frame \in FrameType /\ frame.from = p
  BY <1>6 DEF Frame, FrameType, AnswerInv, RemoteTypes, ClientType
<1> DEFINE windows == g.windows + 1
           frames == <<frame>>
<1>8. windows \in Nat /\ windows >= 1 /\ frames \in Seq(FrameType)
      /\ Len(frames) = 1 /\ frames[1] = frame
  BY <1>5, <1>7
<1>9. PICK f : f = [g EXCEPT !.state = "running", !.windows = windows, !.frames = frames]
  OBVIOUS
<1>10. filer' = [filer EXCEPT ![p] = f]
  <2>1. RunSoap([g EXCEPT !.state = "running"], p) = f
    <3> DEFINE h == [g EXCEPT !.state = "running"]
    <3>1. RunSoap(h, p) = [h EXCEPT !.windows = @ + 1, !.frames = <<frame>> \o @]
      BY <1>6 DEF RunSoap
    <3>2. h.windows = g.windows /\ h.frames = <<>>
      BY <1>4 DEF FilerType
    <3>3. <<frame>> \o <<>> = <<frame>>
      OBVIOUS
    <3> QED BY <1>4, <1>9, <3>1, <3>2, <3>3 DEF FilerType
  <2> QED BY <1>1, <1>3, <2>1
<1> HIDE DEF windows, frames
<1>11. /\ f \in FilerType /\ f.inbox = <<>> /\ f.frames = frames /\ f.windows = windows
       /\ f.state = "running"
  BY <1>4, <1>8, <1>9 DEF FilerType
<1>12. RemoteTypes' /\ filer'[p] = f /\ \A q \in Process : q # p => filer'[q] = filer[q]
  BY <1>1, <1>10, <1>11 DEF AnswerInv, RemoteTypes
<1>13. \A q \in Process : Fresh(q)' => Fresh(q)
  BY <1>1, <1>11, <1>12 DEF Fresh, Becoming
<1>14. Untouched(p)'
  <2>1. ~Fresh(p)'
    BY <1>1, <1>11, <1>12 DEF Fresh, Becoming
  <2>2. executed[p] = 0
    BY <1>1 DEF Fresh, AnswerInv, RequestsOnce
  <2> QED BY <1>1, <2>1, <2>2 DEF Untouched
<1>15. HeldOnce(f)'
  <2>1. Len(f.inbox) = 0 /\ Len(f.frames) = 1 /\ f.frames[1].from = p
    BY <1>7, <1>8, <1>11
  <2> QED BY <1>14, <2>1 DEF HeldOnce
<1>16. ChangesCounted'
  BY <1>1 DEF AnswerInv, ChangesCounted
<1>17. \A q \in Process : executed'[q] <= 1
  BY <1>1 DEF AnswerInv, RequestsOnce
<1>18. f.windows >= Len(f.frames)
  BY <1>8, <1>11
<1> QED BY <1>1, <1>2, <1>10, <1>11, <1>12, <1>13, <1>15, <1>16, <1>17, <1>18, RequestMoves

(* ... and out of a frame when it has been run. *)
LEMMA EndSoapAnswers ==
    ASSUME RemoteInv, AnswerInv, NEW p \in Process, EndSoap(p) PROVE AnswerInv'
<1>1. PICK g : g = filer[p]
  OBVIOUS
<1>2. Live(p) /\ g.frames # <<>> /\ g \in FilerType /\ HeldOnce(g)
  BY <1>1 DEF EndSoap, AnswerInv, RemoteTypes, RequestsOnce
<1>3. /\ g.windows >= Len(g.frames) /\ (g.state = "quitting" => g.windows = 0)
  BY <1>1 DEF AnswerInv, WindowsCounted
<1>4. g.frames \in Seq(FrameType) /\ g.windows \in Nat /\ g.inbox \in Seq(Process)
  BY <1>2 DEF FilerType
<1>5. PICK q : q = Head(g.frames).from
  OBVIOUS
<1>6. PICK frames : frames = Tail(g.frames)
  OBVIOUS
<1>7. /\ Head(g.frames) \in FrameType /\ frames \in Seq(FrameType) /\ Len(g.frames) >= 1
      /\ Len(frames) = Len(g.frames) - 1 /\ Head(g.frames) = g.frames[1]
      /\ \A i \in 1..(Len(g.frames) - 1) : frames[i] = g.frames[i + 1]
      /\ Len(g.frames) \in Nat
  BY <1>2, <1>4, <1>6, TailFrame
<1>8. q \in Process /\ q = g.frames[1].from
  BY <1>5, <1>7 DEF FrameType
<1>9. Untouched(q)
  BY <1>2, <1>7, <1>8 DEF HeldOnce
<1>10. PICK windows : windows = g.windows - 1
  OBVIOUS
<1>11. PICK state : state = IF windows = 0 THEN "quitting" ELSE "running"
  OBVIOUS
<1>12. g.state = "running"
  BY <1>1, <1>2, <1>3, <1>4, <1>7 DEF Live
<1>13. windows \in Nat /\ windows >= Len(frames) /\ (state = "quitting" => windows = 0)
       /\ state \in {"running", "quitting"}
  BY <1>3, <1>4, <1>7, <1>10, <1>11
<1>14. PICK f : f = [g EXCEPT !.frames = frames, !.windows = windows, !.state = state]
  OBVIOUS
<1>15. /\ filer' = [filer EXCEPT ![p] = f] /\ root' = root
       /\ client' = [client EXCEPT ![q].changes = IF client[q].state = "waiting" THEN @ + 1 ELSE @]
       /\ executed' = [executed EXCEPT ![q] = @ + 1]
  <2>1. filer' = [filer EXCEPT ![p].frames = Tail(@), ![p].windows = windows,
                    ![p].state = IF windows = 0 THEN "quitting" ELSE @]
    BY <1>1, <1>10 DEF EndSoap
  <2>2. filer' = [filer EXCEPT ![p] = f]
    BY <1>1, <1>2, <1>6, <1>11, <1>12, <1>14, <2>1 DEF FilerType, AnswerInv, RemoteTypes
  <2> QED BY <1>1, <1>5, <2>2 DEF EndSoap
<1>16. PICK c : c = [client[q] EXCEPT !.changes = IF client[q].state = "waiting" THEN @ + 1 ELSE @]
  OBVIOUS
<1>17. /\ c \in ClientType /\ c.state = client[q].state /\ c.times = client[q].times
       /\ c.changes = IF c.state = "waiting" THEN client[q].changes + 1 ELSE client[q].changes
  <2>1. client[q] \in ClientType
    BY <1>8 DEF AnswerInv, RemoteTypes
  <2> DEFINE changes == IF client[q].state = "waiting" THEN client[q].changes + 1
                        ELSE client[q].changes
  <2>2. changes \in Nat
    <3>1. client[q].changes \in Nat
      BY <2>1 DEF ClientType
    <3> QED BY <3>1
  <2>3. c = [client[q] EXCEPT !.changes = changes]
    BY <1>16
  <2> HIDE DEF changes
  <2>4. c \in ClientType /\ c.state = client[q].state /\ c.times = client[q].times
        /\ c.changes = changes
    BY <2>1, <2>2, <2>3 DEF ClientType
  <2> QED BY <2>4 DEF changes
<1>18. /\ f \in FilerType /\ f.inbox = g.inbox /\ f.frames = frames /\ f.windows = windows
       /\ f.state = state
  BY <1>2, <1>7, <1>13, <1>14 DEF FilerType
<1>19. /\ filer'[p] = f /\ \A r \in Process : r # p => filer'[r] = filer[r]
       /\ client'[q] = c /\ \A r \in Process : r # q => client'[r] = client[r]
       /\ executed'[q] = executed[q] + 1
       /\ \A r \in Process : r # q => executed'[r] = executed[r]
  BY <1>8, <1>15, <1>16 DEF AnswerInv, RemoteTypes
<1>20. RemoteTypes'
  <2>1. client' \in [Process -> ClientType]
    <3>1. client' = [client EXCEPT ![q] = c]
      BY <1>15, <1>16
    <3> QED BY <1>17, <3>1 DEF AnswerInv, RemoteTypes
  <2>2. filer' \in [Process -> FilerType]
    BY <1>15, <1>18 DEF AnswerInv, RemoteTypes
  <2>3. executed' \in [Process -> Nat]
    <3>1. executed \in [Process -> Nat] /\ executed[q] + 1 \in Nat
      BY <1>8 DEF AnswerInv, RemoteTypes
    <3> QED BY <1>15, <3>1
  <2> QED BY <1>15, <2>1, <2>2, <2>3 DEF AnswerInv, RemoteTypes
<1>21. \A r \in Process : Fresh(r)' = Fresh(r)
  <2>1. \A r \in Process : client'[r].state = client[r].state
    BY <1>17, <1>19
  <2>2. \A r \in Process : filer'[r].state = "none" <=> filer[r].state = "none"
    BY <1>1, <1>12, <1>13, <1>18, <1>19
  <2> QED BY <2>1, <2>2 DEF Fresh, Becoming
<1>22. executed[q] = 0 /\ ~Fresh(q)
  BY <1>9 DEF Untouched
<1>23. \A r \in Process : Untouched(r) /\ r # q => Untouched(r)'
  BY <1>19, <1>21 DEF Untouched
<1>24. HeldOnce(f)'
  <2>1. \A i \in 1..Len(f.frames) : i + 1 \in 1..Len(g.frames) /\ f.frames[i] = g.frames[i + 1]
    BY <1>7, <1>18
  <2>2. \A i \in 1..Len(f.frames) : f.frames[i].from # q /\ Untouched(f.frames[i].from)
    <3> SUFFICES ASSUME NEW i \in 1..Len(f.frames)
                 PROVE  f.frames[i].from # q /\ Untouched(f.frames[i].from)
      OBVIOUS
    <3>1. i + 1 # 1 /\ 1 \in 1..Len(g.frames)
      BY <1>7, <1>18
    <3>2. g.frames[i + 1].from # g.frames[1].from
      BY <1>2, <2>1, <3>1 DEF HeldOnce
    <3>3. Untouched(g.frames[i + 1].from)
      BY <1>2, <2>1 DEF HeldOnce
    <3> QED BY <1>8, <2>1, <3>2, <3>3
  <2>3. \A i \in 1..Len(f.inbox) : f.inbox[i] # q /\ Untouched(f.inbox[i])
    BY <1>2, <1>7, <1>8, <1>18 DEF HeldOnce
  <2>4. \A i \in 1..Len(f.inbox) : f.inbox[i] \in Process
    BY <1>4, <1>18
  <2>5. \A i \in 1..Len(f.frames) : f.frames[i] \in FrameType
    BY <1>7, <1>18
  <2>6. \A i \in 1..Len(f.frames) : f.frames[i].from \in Process
    BY <2>5 DEF FrameType
  <2>7. \A i \in 1..Len(f.inbox) : Untouched(f.inbox[i])'
    BY <1>23, <2>3, <2>4
  <2>8. \A i \in 1..Len(f.frames) : Untouched(f.frames[i].from)'
    BY <1>23, <2>2, <2>6
  <2>9. \A i, j \in 1..Len(f.inbox) : f.inbox[i] = f.inbox[j] => i = j
    BY <1>2, <1>18 DEF HeldOnce
  <2>10. \A i, j \in 1..Len(f.frames) : f.frames[i].from = f.frames[j].from => i = j
    <3> SUFFICES ASSUME NEW i \in 1..Len(f.frames), NEW j \in 1..Len(f.frames),
                        f.frames[i].from = f.frames[j].from
                 PROVE  i = j
      OBVIOUS
    <3>1. g.frames[i + 1].from = g.frames[j + 1].from
      BY <2>1
    <3>2. i + 1 = j + 1
      BY <1>2, <2>1, <3>1 DEF HeldOnce
    <3> QED BY <1>7, <1>18, <3>2
  <2>11. \A i \in 1..Len(f.inbox), j \in 1..Len(f.frames) : f.inbox[i] # f.frames[j].from
    BY <1>2, <1>18, <2>1 DEF HeldOnce
  <2> QED BY <2>7, <2>8, <2>9, <2>10, <2>11 DEF HeldOnce
<1>25. ChangesCounted'
  <2>1. c.state # "answered"
    BY <1>8, <1>17, <1>22 DEF AnswerInv, ChangesCounted
  <2>2. /\ client[q].times \in Nat /\ client[q].changes \in Nat
        /\ client[q].state = "waiting" => client[q].times <= 1
              /\ client[q].times + client[q].changes = 1 + executed[q]
    BY <1>8 DEF AnswerInv, RemoteTypes, ClientType, ChangesCounted
  <2>3. c.state = "waiting" => c.times <= 1 /\ c.times + c.changes = 1 + executed'[q]
    BY <1>17, <1>19, <1>22, <2>2
  <2> QED BY <1>19, <2>1, <2>3 DEF AnswerInv, ChangesCounted
<1>26. \A r \in Process : Fresh(r)' => Fresh(r) /\ executed'[r] = executed[r]
                                       /\ client'[r].times = client[r].times
  BY <1>19, <1>21, <1>22
<1>27. \A r \in Process : executed'[r] <= 1
  BY <1>19, <1>22 DEF AnswerInv, RequestsOnce
<1>28. \A r \in Process : r # p => ~Live(r)
  BY <1>2 DEF RemoteInv, LiveIsNamed
<1> QED BY <1>13, <1>15, <1>18, <1>20, <1>24, <1>25, <1>26, <1>27, <1>28, RequestMoves

--------------------
LEMMA InitAnswers == RemoteInit => AnswerInv
<1> SUFFICES ASSUME RemoteInit PROVE AnswerInv
  OBVIOUS
<1>1. /\ client = [p \in Process |-> NoClient] /\ filer = [p \in Process |-> NoFiler]
      /\ executed = [p \in Process |-> 0] /\ root = NoProcess
  BY DEF RemoteInit
<1>2. <<>> \in Seq(Process) /\ <<>> \in Seq(FrameType) /\ <<>> \in Seq(Call)
  OBVIOUS
<1>3. NoClient \in ClientType /\ NoFiler \in FilerType
  BY <1>2 DEF NoClient, ClientType, NoFiler, FilerType
<1>4. RemoteTypes
  BY <1>1, <1>3 DEF RemoteTypes
<1>5. \A p \in Process :
         /\ filer[p].inbox = <<>> /\ filer[p].frames = <<>> /\ filer[p].windows = 0
         /\ filer[p].state = "none" /\ client[p].state = "new" /\ client[p].times = 0
         /\ executed[p] = 0
  BY <1>1 DEF NoClient, NoFiler
<1>6. \A p \in Process : Len(filer[p].inbox) = 0 /\ Len(filer[p].frames) = 0
  BY <1>5
<1>7. \A p \in Process : HeldOnce(filer[p])
  BY <1>6 DEF HeldOnce
<1>8. RequestsOnce /\ ChangesCounted /\ WindowsCounted
  BY <1>5, <1>6, <1>7 DEF RequestsOnce, ChangesCounted, WindowsCounted
<1> QED BY <1>4, <1>8 DEF AnswerInv

LEMMA StepAnswers == RemoteInv /\ AnswerInv /\ [RemoteNext]_remoteVars => AnswerInv'
<1> SUFFICES ASSUME RemoteInv, AnswerInv, [RemoteNext]_remoteVars PROVE AnswerInv'
  OBVIOUS
<1>1. CASE UNCHANGED remoteVars
  <2>1. UNCHANGED <<grab, root, ipc, client, filer, executed>>
    BY <1>1 DEF remoteVars
  <2>2. \A q \in Process : Fresh(q)' = Fresh(q) /\ Live(q)' = Live(q)
    BY <2>1 DEF Fresh, Becoming, Live
  <2>3. \A q \in Process : Untouched(q) => Untouched(q)'
    BY <2>1, <2>2 DEF Untouched
  <2>4. \A q \in Process : HeldOnce(filer[q])'
    <3> TAKE q \in Process
    <3>1. PICK f : f = filer[q]
      OBVIOUS
    <3>2. f \in FilerType /\ HeldOnce(f)
      BY <3>1 DEF AnswerInv, RemoteTypes, RequestsOnce
    <3>3. HeldOnce(f)'
      BY <2>3, <3>2, HeldStill
    <3>4. f = filer'[q]
      BY <2>1, <3>1
    <3> QED BY <3>3, <3>4 DEF HeldOnce
  <2>5. RemoteTypes' /\ RequestsOnce'
    BY <2>1, <2>2, <2>4 DEF AnswerInv, RemoteTypes, RequestsOnce
  <2>6. ChangesCounted' /\ WindowsCounted'
    BY <2>1 DEF AnswerInv, ChangesCounted, WindowsCounted
  <2> QED BY <2>5, <2>6 DEF AnswerInv
<1>2. CASE RemoteNext
  BY <1>2, StartAnswers, SoapSendAnswers, NoneFoundAnswers, BecomeFilerAnswers,
     SoapDoneAnswers, TooSlowAnswers, ClientEventAnswers, InvokeAnswers,
     DialogClosedAnswers, EndSoapAnswers, UserClosesAnswers, FilerEndsAnswers DEF RemoteNext
<1> QED BY <1>1, <1>2

(* A client that was answered had its request run, and no request is run *)
(* twice, although the filer may quit, die or be replaced while it waits, *)
(* and a dialog may run a main loop in the middle of a request; and the *)
(* filer only leaves its main loop without a window and with no request *)
(* half run (soap_done, client_event, run_soap, one_less_window). *)
THEOREM AnswersAlwaysTrue == RemoteSpec => []AnswerMeansDone
<1>1. AnswerInv => AnswerMeansDone
  <2> SUFFICES ASSUME AnswerInv, NEW p \in Process
               PROVE  /\ executed[p] <= 1
                      /\ client[p].state = "answered" => executed[p] = 1
                      /\ filer[p].state = "quitting" =>
                            OpenWindows(filer[p]) = 0 /\ filer[p].frames = <<>>
    BY DEF AnswerMeansDone
  <2>1. executed[p] <= 1 /\ (client[p].state = "answered" => executed[p] = 1)
    BY DEF AnswerInv, RequestsOnce, ChangesCounted
  <2>2. /\ filer[p].frames \in Seq(FrameType)
        /\ filer[p].windows >= Len(filer[p].frames)
        /\ filer[p].state = "quitting" => filer[p].windows = 0
    BY DEF AnswerInv, RemoteTypes, FilerType, WindowsCounted
  <2>3. filer[p].state = "quitting" => Len(filer[p].frames) = 0 /\ filer[p].frames = <<>>
    BY <2>2
  <2> QED BY <2>1, <2>2, <2>3 DEF OpenWindows
<1> QED BY <1>1, ElectionStarts, ElectionKeeps, InitAnswers, StepAnswers, PTL DEF RemoteSpec

--------------------
(* The task list.  An event that is still on the way excuses what the filer*)
(* does not know yet; TaskInv says so window by window, for those alive, and*)
(* with it what makes the handlers right: a window that is known has its *)
(* events selected and is in the old list, and an icon is there exactly while*)
(* the window is marked as iconified. *)

(* The types of the state. *)
EventOfTask == {ListEvent, DesktopEvent, SupportedEvent} \cup {StateEvent(w) : w \in XWindow} \cup {NameEvent(w) : w \in XWindow}
ServerRecord == [born : SUBSET XWindow, alive : SUBSET XWindow, listed : SUBSET XWindow, iconic : SUBSET XWindow,
                 desk : [XWindow -> Nat], title : [XWindow -> Nat], current : {0, 1},
                 events : SUBSET EventOfTask, pushes : Nat]
WindowRecord == [known : BOOLEAN, selected : BOOLEAN, iconified : BOOLEAN, icon : BOOLEAN, label : Nat,
                 timeout : BOOLEAN, source : BOOLEAN, moved : BOOLEAN]
TaskRecord == [active : BOOLEAN, perDesk : BOOLEAN, old : SUBSET XWindow, current : {0, 1}, win : [XWindow -> WindowRecord]]

(* What holds of a living window whatever the filer shows. *)
WindowSound(s, t, w) ==
    /\ (t.win[w].known => t.win[w].selected /\ w \in t.old)
    /\ t.win[w].icon = t.win[w].iconified /\ (t.win[w].iconified => t.win[w].known)
    /\ (t.win[w].icon /\ ~t.win[w].timeout => t.win[w].label = s.title[w] \/ NameEvent(w) \in s.events)

(* What the filer knows of it, or has been told. *)
WindowFollowed(s, t, w) ==
    /\ (w \in s.listed => t.win[w].known \/ ListEvent \in s.events)
    /\ (w \in s.listed /\ t.win[w].known /\ ~t.win[w].moved =>
          t.win[w].iconified = Iconic(s, t, w, {}) \/ StateEvent(w) \in s.events)
    /\ (w \notin s.listed /\ t.win[w].known => ListEvent \in s.events)

AllSound(s, t) == \A w \in s.alive : WindowSound(s, t, w)
AllFollowed(s, t) == \A w \in s.alive : WindowFollowed(s, t, w)
SwitchKnown(s, t) ==
    /\ (~t.active => t.old = {})
    /\ (t.active => AllFollowed(s, t) /\ (t.current = s.current \/ DesktopEvent \in s.events))
(* Of a window that has not been made yet nothing is known. *)
NoneUnborn(s, t) ==
    /\ s.alive \subseteq s.born
    /\ \A w \in XWindow \ s.born : ~t.win[w].known /\ ~t.win[w].icon /\ ~t.win[w].iconified
TaskRight(s, t) == s \in ServerRecord /\ t \in TaskRecord /\ AllSound(s, t) /\ SwitchKnown(s, t) /\ NoneUnborn(s, t)
TaskInv == TaskRight(server, task)

(* No event is another one. *)
LEMMA EventsDiffer ==
    /\ ListEvent # DesktopEvent /\ ListEvent # SupportedEvent /\ DesktopEvent # SupportedEvent
    /\ \A v, w \in XWindow : /\ (StateEvent(v) = StateEvent(w) => v = w) /\ (NameEvent(v) = NameEvent(w) => v = w)
                             /\ StateEvent(v) # NameEvent(w)
    /\ \A w \in XWindow : /\ StateEvent(w) \notin {ListEvent, DesktopEvent, SupportedEvent}
                          /\ NameEvent(w) \notin {ListEvent, DesktopEvent, SupportedEvent}
BY DEF ListEvent, DesktopEvent, SupportedEvent, StateEvent, NameEvent

(* What the operators make of one window: a window that lives through it has*)
(* the status it has on the server, and a new icon has its title. *)
LEMMA ForgetIs == ASSUME NEW e \in WindowRecord
                  PROVE  Forget(e) \in WindowRecord /\ ~Forget(e).known /\ ~Forget(e).iconified /\ Forget(e).icon = e.icon
BY DEF Forget, WindowRecord

LEMMA CheckStatusIs ==
    ASSUME NEW s \in ServerRecord, NEW t \in TaskRecord, NEW e \in WindowRecord, NEW w \in XWindow,
           NEW died \in SUBSET s.alive, NEW d, d = CheckStatus(s, t, e, w, died)
    PROVE  /\ d \in WindowRecord
           /\ w \in s.alive \ died /\ e.icon = e.iconified =>
                /\ d.iconified = Iconic(s, t, w, {}) /\ d.icon = d.iconified
                /\ d.known = e.known /\ d.selected = e.selected /\ d.timeout = e.timeout
                /\ (d.icon /\ ~e.icon => d.label = s.title[w]) /\ (d.icon /\ e.icon => d.label = e.label)
<1>1. PICK iconic \in BOOLEAN : iconic = Iconic(s, t, w, died)
  BY DEF Iconic
<1>2. IconName(s, w, died) \in Nat /\ NoTitle \in Nat
  BY TaskAssumption DEF IconName, NoTitle, ServerRecord
<1>f. PICK f : f = [e EXCEPT !.moved = FALSE]
  OBVIOUS
<1>g. /\ f \in WindowRecord /\ f.iconified = e.iconified /\ f.known = e.known /\ f.selected = e.selected
      /\ f.timeout = e.timeout /\ f.icon = e.icon /\ f.label = e.label
  BY <1>f DEF WindowRecord
<1>3. PICK c : c = CASE iconic /\ ~f.iconified ->
                    [f EXCEPT !.iconified = TRUE, !.icon = TRUE, !.label = IconName(s, w, died)]
               [] ~iconic /\ f.iconified ->
                    [f EXCEPT !.iconified = FALSE, !.icon = FALSE, !.label = NoTitle]
               [] iconic = f.iconified -> f
  OBVIOUS
<1>4. /\ c \in WindowRecord /\ c.iconified = iconic /\ c.known = e.known /\ c.selected = e.selected /\ c.timeout = e.timeout
      /\ (e.icon = e.iconified => /\ c.icon = c.iconified /\ (c.icon /\ ~e.icon => c.label = IconName(s, w, died))
                                  /\ (c.icon /\ e.icon => c.label = e.label))
  BY <1>2, <1>3, <1>g DEF WindowRecord
<1>5. d = IF w \in s.alive /\ ~(t.perDesk /\ w \in died) THEN c ELSE Forget(c)
  BY <1>1, <1>3, <1>f DEF CheckStatus
<1>6. d \in WindowRecord
  BY <1>4, <1>5, ForgetIs
<1>7. ASSUME w \in s.alive \ died
      PROVE  d = c /\ IconName(s, w, died) = s.title[w] /\ iconic = Iconic(s, t, w, {})
  BY <1>1, <1>5, <1>7 DEF IconName, Iconic
<1> QED BY <1>4, <1>6, <1>7

LEMMA AddWindowIs ==
    ASSUME NEW s \in ServerRecord, NEW t \in TaskRecord, NEW e \in WindowRecord, NEW w \in XWindow,
           NEW died \in SUBSET s.alive, NEW d, d = AddWindow(s, t, e, w, died)
    PROVE  /\ d \in WindowRecord
           /\ w \in s.alive \ died /\ e.icon = e.iconified /\ (e.known => e.selected) =>
                /\ d.iconified = Iconic(s, t, w, {}) /\ d.icon = d.iconified
                /\ d.known /\ d.selected /\ d.timeout = e.timeout
                /\ (d.icon /\ ~e.icon => d.label = s.title[w]) /\ (d.icon /\ e.icon => d.label = e.label)
<1>1. CASE e.known
  BY <1>1, CheckStatusIs DEF AddWindow
<1>2. CASE ~e.known /\ w \notin s.alive
  BY <1>2 DEF AddWindow
<1>3. CASE ~e.known /\ w \in s.alive
  <2>1. PICK f : f = [e EXCEPT !.known = TRUE, !.selected = TRUE]
    OBVIOUS
  <2>2. f \in WindowRecord /\ f.known /\ f.selected /\ f.icon = e.icon /\ f.iconified = e.iconified /\ f.timeout = e.timeout
        /\ f.label = e.label
    BY <2>1 DEF WindowRecord
  <2>3. d = CheckStatus(s, t, f, w, died)
    BY <1>3, <2>1 DEF AddWindow
  <2> QED BY <2>2, <2>3, CheckStatusIs
<1> QED BY <1>1, <1>2, <1>3

(* A window that is removed leaves no icon behind. *)
LEMMA RemoveWindowIs ==
    ASSUME NEW e \in WindowRecord
    PROVE  /\ RemoveWindow(e) \in WindowRecord /\ ~RemoveWindow(e).known
           /\ e.icon = e.iconified /\ (e.iconified => e.known) => ~RemoveWindow(e).icon /\ ~RemoveWindow(e).iconified
<1>1. CASE e.known /\ e.iconified
  <2>1. PICK f : f = [e EXCEPT !.iconified = FALSE, !.icon = FALSE, !.label = NoTitle]
    OBVIOUS
  <2>2. NoTitle \in Nat
    BY TaskAssumption DEF NoTitle
  <2>3. f \in WindowRecord /\ ~f.icon
    BY <2>1, <2>2 DEF WindowRecord
  <2>4. RemoveWindow(e) = Forget(f)
    BY <1>1, <2>1 DEF RemoveWindow
  <2> QED BY <2>3, <2>4, ForgetIs
<1>2. CASE e.known /\ ~e.iconified
  <2>1. RemoveWindow(e) = Forget(e)
    BY <1>2 DEF RemoveWindow
  <2> QED BY <1>2, <2>1, ForgetIs
<1>3. CASE ~e.known
  BY <1>3 DEF RemoveWindow
<1> QED BY <1>1, <1>2, <1>3 DEF WindowRecord

(* What tasklist_update is to leave. *)
Updated(s, t, u, empty, died) ==
    /\ u \in TaskRecord /\ u.old = (IF empty THEN {} ELSE s.listed)
    /\ u.active = t.active /\ u.current = t.current /\ u.perDesk = t.perDesk
    /\ \A w \in s.alive \ died :
         /\ WindowSound(s, u, w)
         /\ IF w \in u.old THEN u.win[w].known /\ u.win[w].iconified = Iconic(s, u, w, {})
                           ELSE ~u.win[w].known
    /\ \A w \in XWindow \ s.alive : ~t.win[w].known => u.win[w] = t.win[w]

(* tasklist_update, for all windows at once. *)
LEMMA UpdateIs ==
    ASSUME NEW s \in ServerRecord, NEW t \in TaskRecord, NEW died \in SUBSET s.alive, AllSound(s, t),
           NEW empty \in BOOLEAN, NEW u, u = TasklistUpdate(s, t, empty, died)
    PROVE  Updated(s, t, u, empty, died)
<1>1. PICK mapping \in SUBSET XWindow : mapping = IF empty THEN {} ELSE s.listed
  BY DEF ServerRecord
<1>2. PICK win : win = [w \in XWindow |-> IF w \in mapping THEN AddWindow(s, t, t.win[w], w, died)
                                         ELSE IF w \in t.old THEN RemoveWindow(t.win[w])
                                         ELSE t.win[w]]
  OBVIOUS
<1>3. \A w \in XWindow : t.win[w] \in WindowRecord
  BY DEF TaskRecord
<1>4. win \in [XWindow -> WindowRecord]
  <2>1. \A w \in XWindow : /\ AddWindow(s, t, t.win[w], w, died) \in WindowRecord
                           /\ RemoveWindow(t.win[w]) \in WindowRecord
    BY <1>3, AddWindowIs, RemoveWindowIs
  <2> QED BY <1>2, <1>3, <2>1
<1>5. u = [t EXCEPT !.old = mapping, !.win = win]
  BY <1>1, <1>2 DEF TasklistUpdate
<1>6. /\ u \in TaskRecord /\ u.old = mapping /\ u.win = win /\ u.active = t.active /\ u.current = t.current
      /\ u.perDesk = t.perDesk
  BY <1>4, <1>5 DEF TaskRecord
<1>7. ASSUME NEW w \in s.alive \ died
      PROVE  /\ WindowSound(s, u, w)
             /\ IF w \in u.old THEN u.win[w].known /\ u.win[w].iconified = Iconic(s, u, w, {})
                               ELSE ~u.win[w].known
  <2>1. PICK e \in WindowRecord : e = t.win[w]
    BY <1>3 DEF ServerRecord
  <2>2. PICK d : d = u.win[w]
    OBVIOUS
  <2>3. w \in XWindow /\ WindowSound(s, t, w)
    BY DEF ServerRecord, AllSound
  <2>4. e.icon = e.iconified /\ (e.iconified => e.known) /\ (e.known => e.selected /\ w \in t.old)
        /\ (e.icon /\ ~e.timeout => e.label = s.title[w] \/ NameEvent(w) \in s.events)
    BY <2>1, <2>3 DEF WindowSound
  <2>5. d = IF w \in mapping THEN AddWindow(s, t, e, w, died) ELSE IF w \in t.old THEN RemoveWindow(e) ELSE e
    BY <1>2, <1>6, <2>1, <2>2, <2>3
  <2>6. Iconic(s, u, w, {}) = Iconic(s, t, w, {})
    BY <1>6 DEF Iconic
  <2>7. CASE w \in mapping
    <3>1. /\ d.iconified = Iconic(s, t, w, {}) /\ d.icon = d.iconified
          /\ d.known /\ d.selected /\ d.timeout = e.timeout
          /\ (d.icon /\ ~e.icon => d.label = s.title[w]) /\ (d.icon /\ e.icon => d.label = e.label)
      <4>1. d = AddWindow(s, t, e, w, died)
        BY <2>5, <2>7
      <4> QED BY <2>3, <2>4, <4>1, AddWindowIs
    <3>2. WindowSound(s, u, w)
      BY <1>6, <2>2, <2>4, <2>7, <3>1 DEF WindowSound
    <3> QED BY <1>6, <2>2, <2>6, <2>7, <3>1, <3>2
  <2>8. CASE w \notin mapping
    <3>1. ~d.known /\ ~d.icon /\ ~d.iconified /\ d \in WindowRecord
      BY <2>4, <2>5, <2>8, RemoveWindowIs
    <3>2. WindowSound(s, u, w)
      BY <2>2, <3>1 DEF WindowSound, WindowRecord
    <3> QED BY <1>6, <2>2, <2>8, <3>1, <3>2
  <2> QED BY <2>7, <2>8
<1>8. ASSUME NEW w \in XWindow \ s.alive, ~t.win[w].known
      PROVE  u.win[w] = t.win[w]
  <2>1. PICK e : e = t.win[w]
    OBVIOUS
  <2>2. AddWindow(s, t, e, w, died) = e /\ RemoveWindow(e) = e
    BY <1>8, <2>1 DEF AddWindow, RemoveWindow
  <2> QED BY <1>2, <1>6, <2>1, <2>2
<1> QED BY <1>1, <1>6, <1>7, <1>8 DEF Updated

(* The server after a handler: some windows have died, an event is handled.*)
LaterServer(s, z, died) ==
    /\ z \in ServerRecord /\ z.alive = s.alive \ died /\ z.listed = s.listed /\ z.iconic = s.iconic /\ z.desk = s.desk
    /\ z.title = s.title /\ z.current = s.current
    /\ z.born = s.born

(* After tasklist_update everything is right for who has lived through it. *)
LEMMA AfterUpdate ==
    ASSUME NEW s \in ServerRecord, NEW t \in TaskRecord, NEW died \in SUBSET s.alive, AllSound(s, t), NoneUnborn(s, t),
           NEW empty \in BOOLEAN, t.active = ~empty, NEW z, LaterServer(s, z, died),
           \A w \in XWindow : NameEvent(w) \in s.events => NameEvent(w) \in z.events,
           t.active => t.current = s.current \/ DesktopEvent \in z.events,
           NEW u, u = TasklistUpdate(s, t, empty, died)
    PROVE  TaskRight(z, u)
<1>1. /\ u \in TaskRecord /\ u.old = (IF empty THEN {} ELSE s.listed)
      /\ u.active = t.active /\ u.current = t.current /\ u.perDesk = t.perDesk
      /\ \A w \in s.alive \ died :
           /\ WindowSound(s, u, w)
           /\ IF w \in u.old THEN u.win[w].known /\ u.win[w].iconified = Iconic(s, u, w, {})
                             ELSE ~u.win[w].known
      /\ \A w \in XWindow \ s.alive : ~t.win[w].known => u.win[w] = t.win[w]
  <2>1. Updated(s, t, u, empty, died)
    BY UpdateIs
  <2> QED BY <2>1 DEF Updated
<1>2. \A w \in z.alive : w \in XWindow /\ w \in s.alive \ died
  BY DEF LaterServer, ServerRecord
<1>3. AllSound(z, u)
  BY <1>1, <1>2 DEF AllSound, WindowSound, LaterServer
<1>4. ASSUME u.active PROVE AllFollowed(z, u)
  <2>1. u.old = z.listed
    BY <1>1, <1>4 DEF LaterServer
  <2>2. \A w \in z.alive : Iconic(z, u, w, {}) = Iconic(s, u, w, {})
    BY <1>2 DEF Iconic, LaterServer
  <2> QED BY <1>1, <1>2, <2>1, <2>2 DEF AllFollowed, WindowFollowed
<1>5. ~u.active => u.old = {}
  BY <1>1
<1>6. u.active => u.current = z.current \/ DesktopEvent \in z.events
  BY <1>1 DEF LaterServer
<1>7. NoneUnborn(z, u)
  BY <1>1 DEF NoneUnborn, LaterServer
<1>8. SwitchKnown(z, u)
  BY <1>4, <1>5, <1>6 DEF SwitchKnown
<1> QED BY <1>1, <1>3, <1>7, <1>8 DEF TaskRight, LaterServer

(* At the start there are no windows. *)
LEMMA TaskStart == TaskInit => TaskInv
<1> SUFFICES ASSUME TaskInit PROVE TaskInv
  OBVIOUS
<1>1. server \in ServerRecord
  BY DEF TaskInit, ServerRecord
<1>2. NoIconWindow \in WindowRecord
  BY TaskAssumption DEF NoIconWindow, WindowRecord, NoTitle
<1>3. task \in TaskRecord
  BY <1>2 DEF TaskInit, TaskRecord
<1>4. AllSound(server, task) /\ SwitchKnown(server, task)
  BY DEF TaskInit, AllSound, SwitchKnown
<1>5. NoneUnborn(server, task)
  BY DEF TaskInit, NoneUnborn, NoIconWindow
<1> QED BY <1>1, <1>3, <1>4, <1>5 DEF TaskInv, TaskRight

(* What the X server and other programs do: z is the server after it. *)
LEMMA ServerMoves ==
    ASSUME TaskInv, NEW z \in ServerRecord, z.desk = server.desk, server' = z, UNCHANGED task,
           server.events \subseteq z.events, z.current = server.current \/ DesktopEvent \in z.events,
           z.alive \subseteq z.born, server.born \subseteq z.born,
           \A w \in z.alive \ server.alive : w \notin server.born /\ ListEvent \in z.events /\ w \in z.listed,
           \A w \in server.alive : /\ (w \in z.listed <=> w \in server.listed) \/ ListEvent \in z.events
                                   /\ (w \in z.iconic <=> w \in server.iconic) \/ (task.win[w].selected => StateEvent(w) \in z.events)
                                   /\ z.title[w] = server.title[w] \/ (task.win[w].selected => NameEvent(w) \in z.events),
           \A w \in z.listed \ server.listed : w \notin server.alive
    PROVE  TaskInv'
<1>1. server \in ServerRecord /\ task \in TaskRecord /\ AllSound(server, task) /\ SwitchKnown(server, task) /\ NoneUnborn(server, task)
  BY DEF TaskInv, TaskRight
<1>2. ASSUME NEW w \in z.alive, w \in server.alive
      PROVE  WindowSound(z, task, w) /\ (task.active => WindowFollowed(z, task, w))
  <2>1. WindowSound(server, task, w) /\ (task.active => WindowFollowed(server, task, w))
    BY <1>1, <1>2 DEF AllSound, SwitchKnown, AllFollowed
  <2>2. w \in XWindow
    BY DEF ServerRecord
  <2>3. WindowSound(z, task, w)
    BY <1>2, <2>1, <2>2 DEF WindowSound
  <2>4. ASSUME task.active PROVE WindowFollowed(z, task, w)
    <3>1. (w \in z.iconic <=> w \in server.iconic) => Iconic(z, task, w, {}) = Iconic(server, task, w, {})
      BY <1>2 DEF Iconic
    <3>2. task.win[w].known => task.win[w].selected
      BY <2>1 DEF WindowSound
    <3> QED BY <1>2, <2>1, <2>4, <3>1, <3>2 DEF WindowFollowed
  <2> QED BY <2>3, <2>4
<1>3. ASSUME NEW w \in z.alive, w \notin server.alive
      PROVE  WindowSound(z, task, w) /\ WindowFollowed(z, task, w)
  <2>1. ~task.win[w].known /\ ~task.win[w].icon /\ ~task.win[w].iconified /\ w \in XWindow
    BY <1>1, <1>3 DEF NoneUnborn, ServerRecord
  <2>2. task.win[w] \in WindowRecord
    BY <1>1, <2>1 DEF TaskRecord
  <2> QED BY <1>3, <2>1, <2>2 DEF WindowSound, WindowFollowed, WindowRecord
<1>4. AllSound(z, task) /\ SwitchKnown(z, task)
  BY <1>1, <1>2, <1>3 DEF AllSound, SwitchKnown, AllFollowed
<1>5. NoneUnborn(z, task)
  BY <1>1 DEF NoneUnborn
<1> QED BY <1>1, <1>4, <1>5 DEF TaskInv, TaskRight

(* The types of the parts of the server, and of what is pushed. *)
LEMMA ServerParts ==
    ASSUME NEW s \in ServerRecord
    PROVE  /\ s.born \in SUBSET XWindow /\ s.alive \in SUBSET XWindow /\ s.listed \in SUBSET XWindow /\ s.iconic \in SUBSET XWindow
           /\ s.desk \in [XWindow -> Nat] /\ s.title \in [XWindow -> Nat] /\ s.current \in {0, 1}
           /\ s.events \in SUBSET EventOfTask /\ s.pushes \in Nat
BY DEF ServerRecord

LEMMA PushIs ==
    ASSUME NEW s \in ServerRecord, NEW E \in SUBSET EventOfTask
    PROVE  /\ Push(s, E) \in ServerRecord /\ Push(s, E).events = s.events \cup E
           /\ Push(s, E).born = s.born /\ Push(s, E).alive = s.alive /\ Push(s, E).listed = s.listed
           /\ Push(s, E).iconic = s.iconic /\ Push(s, E).desk = s.desk /\ Push(s, E).title = s.title
           /\ Push(s, E).current = s.current /\ Push(s, E).pushes = s.pushes
BY DEF Push, ServerRecord

LEMMA ToldIs ==
    ASSUME NEW w \in XWindow
    PROVE  /\ Told(w, StateEvent(w)) \in SUBSET EventOfTask /\ Told(w, NameEvent(w)) \in SUBSET EventOfTask
           /\ {ListEvent} \in SUBSET EventOfTask /\ {DesktopEvent} \in SUBSET EventOfTask /\ {SupportedEvent} \in SUBSET EventOfTask
           /\ (task.win[w].selected => StateEvent(w) \in Told(w, StateEvent(w)) /\ NameEvent(w) \in Told(w, NameEvent(w)))
BY DEF Told, EventOfTask

(* The steps of the X server and the other programs. *)
LEMMA XMapStep == ASSUME TaskInv, NEW w \in XWindow, XMap(w) PROVE TaskInv'
<1>1. server \in ServerRecord /\ NoneUnborn(server, task)
  BY DEF TaskInv, TaskRight
<1>2. PICK a : a = [server EXCEPT !.born = @ \cup {w}, !.alive = @ \cup {w}, !.listed = @ \cup {w}]
  OBVIOUS
<1>3. /\ a \in ServerRecord /\ a.born = server.born \cup {w} /\ a.alive = server.alive \cup {w} /\ a.listed = server.listed \cup {w}
      /\ a.iconic = server.iconic /\ a.desk = server.desk /\ a.title = server.title /\ a.current = server.current
      /\ a.events = server.events
  BY <1>1, <1>2 DEF ServerRecord
<1>4. PICK z : z = Push(a, {ListEvent})
  OBVIOUS
<1>5. /\ z \in ServerRecord /\ z.born = a.born /\ z.alive = a.alive /\ z.listed = a.listed
      /\ z.iconic = a.iconic /\ z.desk = a.desk /\ z.title = a.title /\ z.current = a.current
      /\ z.events = a.events \cup {ListEvent}
  BY <1>3, <1>4, PushIs, ToldIs
<1>6. server' = z /\ UNCHANGED task /\ w \notin server.born
  BY <1>2, <1>4 DEF XMap
<1>7. server.alive \subseteq server.born
  BY <1>1 DEF NoneUnborn
<1> QED BY <1>3, <1>5, <1>6, <1>7, ServerMoves

LEMMA XIconifyStep == ASSUME TaskInv, NEW w \in XWindow, XIconify(w) PROVE TaskInv'
<1>1. server \in ServerRecord /\ NoneUnborn(server, task)
  BY DEF TaskInv, TaskRight
<1>2. PICK a : a = [server EXCEPT !.iconic = (@ \ {w}) \cup ({w} \ @)]
  OBVIOUS
<1>3. /\ a \in ServerRecord /\ a.born = server.born /\ a.alive = server.alive /\ a.listed = server.listed
      /\ a.iconic \ {w} = server.iconic \ {w} /\ a.desk = server.desk /\ a.title = server.title /\ a.current = server.current
      /\ a.events = server.events
  BY <1>1, <1>2 DEF ServerRecord
<1>4. PICK z : z = Push(a, Told(w, StateEvent(w)))
  OBVIOUS
<1>5. /\ z \in ServerRecord /\ z.born = a.born /\ z.alive = a.alive /\ z.listed = a.listed
      /\ z.iconic = a.iconic /\ z.desk = a.desk /\ z.title = a.title /\ z.current = a.current
      /\ z.events = a.events \cup Told(w, StateEvent(w))
  BY <1>3, <1>4, PushIs, ToldIs
<1>6. server' = z /\ UNCHANGED task
  BY <1>2, <1>4 DEF XIconify
<1>7. server.alive \subseteq server.born
  BY <1>1 DEF NoneUnborn
<1>8. \A v \in server.alive : (v \in z.iconic <=> v \in server.iconic) \/ (task.win[v].selected => StateEvent(v) \in z.events)
  BY <1>3, <1>5, ToldIs
<1> QED BY <1>3, <1>5, <1>6, <1>7, <1>8, ServerMoves

LEMMA XSetNameStep == ASSUME TaskInv, NEW w \in XWindow, XSetName(w) PROVE TaskInv'
<1>1. server \in ServerRecord /\ NoneUnborn(server, task)
  BY DEF TaskInv, TaskRight
<1>2. PICK a : a = [server EXCEPT !.title[w] = @ + 1]
  OBVIOUS
<1>3. /\ a \in ServerRecord /\ a.born = server.born /\ a.alive = server.alive /\ a.listed = server.listed
      /\ a.iconic = server.iconic /\ a.desk = server.desk /\ a.current = server.current
      /\ a.events = server.events /\ \A v \in XWindow \ {w} : a.title[v] = server.title[v]
  BY <1>1, <1>2 DEF ServerRecord
<1>4. PICK z : z = Push(a, Told(w, NameEvent(w)))
  OBVIOUS
<1>5. /\ z \in ServerRecord /\ z.born = a.born /\ z.alive = a.alive /\ z.listed = a.listed
      /\ z.iconic = a.iconic /\ z.desk = a.desk /\ z.title = a.title /\ z.current = a.current
      /\ z.events = a.events \cup Told(w, NameEvent(w))
  BY <1>3, <1>4, PushIs, ToldIs
<1>6. server' = z /\ UNCHANGED task
  BY <1>2, <1>4 DEF XSetName
<1>7. server.alive \subseteq server.born /\ server.alive \subseteq XWindow
  BY <1>1 DEF NoneUnborn, ServerRecord
<1>8. \A v \in server.alive : z.title[v] = server.title[v] \/ (task.win[v].selected => NameEvent(v) \in z.events)
  BY <1>3, <1>5, <1>7, ToldIs
<1> QED BY <1>3, <1>5, <1>6, <1>7, <1>8, ServerMoves

LEMMA XDestroyStep == ASSUME TaskInv, NEW w \in XWindow, XDestroy(w) PROVE TaskInv'
<1>1. server \in ServerRecord /\ NoneUnborn(server, task)
  BY DEF TaskInv, TaskRight
<1>2. PICK z : z = [server EXCEPT !.alive = @ \ {w}]
  OBVIOUS
<1>3. /\ z \in ServerRecord /\ z.born = server.born /\ z.alive = server.alive \ {w} /\ z.listed = server.listed
      /\ z.iconic = server.iconic /\ z.desk = server.desk /\ z.title = server.title /\ z.current = server.current
      /\ z.events = server.events
  BY <1>1, <1>2 DEF ServerRecord
<1>4. server' = z /\ UNCHANGED task
  BY <1>2 DEF XDestroy
<1>5. server.alive \subseteq server.born
  BY <1>1 DEF NoneUnborn
<1> QED BY <1>3, <1>4, <1>5, ServerMoves

LEMMA XUnlistStep == ASSUME TaskInv, NEW w \in XWindow, XUnlist(w) PROVE TaskInv'
<1>1. server \in ServerRecord /\ NoneUnborn(server, task)
  BY DEF TaskInv, TaskRight
<1>2. PICK a : a = [server EXCEPT !.listed = @ \ {w}]
  OBVIOUS
<1>3. /\ a \in ServerRecord /\ a.born = server.born /\ a.alive = server.alive /\ a.listed = server.listed \ {w}
      /\ a.iconic = server.iconic /\ a.desk = server.desk /\ a.title = server.title /\ a.current = server.current
      /\ a.events = server.events
  BY <1>1, <1>2 DEF ServerRecord
<1>4. PICK z : z = Push(a, {ListEvent})
  OBVIOUS
<1>5. /\ z \in ServerRecord /\ z.born = a.born /\ z.alive = a.alive /\ z.listed = a.listed
      /\ z.iconic = a.iconic /\ z.desk = a.desk /\ z.title = a.title /\ z.current = a.current
      /\ z.events = a.events \cup {ListEvent}
  BY <1>3, <1>4, PushIs, ToldIs
<1>6. server' = z /\ UNCHANGED task
  BY <1>2, <1>4 DEF XUnlist
<1>7. server.alive \subseteq server.born
  BY <1>1 DEF NoneUnborn
<1> QED BY <1>3, <1>5, <1>6, <1>7, ServerMoves

(* A window goes to another desktop: if that matters it is noted, and the  *)
(* others are where they were.                                             *)
LEMMA XMoveStep == ASSUME TaskInv, NEW w \in XWindow, XMove(w) PROVE TaskInv'
<1>1. /\ server \in ServerRecord /\ AllSound(server, task) /\ SwitchKnown(server, task) /\ NoneUnborn(server, task)
      /\ task \in TaskRecord
  BY DEF TaskInv, TaskRight
<1>n. PICK n : n = server.pushes + 1
  OBVIOUS
<1>2. PICK d \in {0, 1, AllDesktops} : n = server.pushes + 1 /\ server' = [server EXCEPT !.desk[w] = d, !.pushes = n]
  BY <1>n DEF XMove
<1>3. PICK z : z = server'
  OBVIOUS
<1>4. /\ z \in ServerRecord /\ z.born = server.born /\ z.alive = server.alive /\ z.listed = server.listed
      /\ z.iconic = server.iconic /\ z.title = server.title /\ z.current = server.current /\ z.events = server.events
      /\ \A v \in XWindow \ {w} : z.desk[v] = server.desk[v]
  <2>1. d \in Nat /\ n \in Nat
    BY <1>1, <1>2, ServerParts DEF AllDesktops
  <2> QED BY <1>1, <1>2, <1>3, <2>1 DEF ServerRecord
<1>5. PICK e : e = IF task.perDesk THEN [task.win[w] EXCEPT !.moved = TRUE] ELSE task.win[w]
  OBVIOUS
<1>6. PICK u : u = [task EXCEPT !.win[w] = e]
  OBVIOUS
<1>7. task' = u
  <2>1. [task EXCEPT !.win[w] = task.win[w]] = task
    BY <1>1 DEF TaskRecord
  <2> QED BY <1>5, <1>6, <2>1 DEF XMove
<1>8. PICK b \in WindowRecord : b = task.win[w]
  BY <1>1 DEF TaskRecord
<1>9. /\ e \in WindowRecord /\ e.known = b.known /\ e.selected = b.selected /\ e.iconified = b.iconified
      /\ e.icon = b.icon /\ e.label = b.label /\ e.timeout = b.timeout
      /\ task.perDesk => e.moved
      /\ ~task.perDesk => e = b
  BY <1>5, <1>8 DEF WindowRecord
<1>10. /\ u \in TaskRecord /\ u.active = task.active /\ u.perDesk = task.perDesk /\ u.old = task.old /\ u.current = task.current
       /\ u.win[w] = e /\ \A v \in XWindow \ {w} : u.win[v] = task.win[v]
  BY <1>1, <1>6, <1>9 DEF TaskRecord
<1>11. ASSUME NEW v \in z.alive
       PROVE  WindowSound(z, u, v) /\ (u.active => WindowFollowed(z, u, v))
  <2>1. WindowSound(server, task, v) /\ (u.active => WindowFollowed(server, task, v)) /\ v \in XWindow
    BY <1>1, <1>4, <1>10, <1>11 DEF AllSound, SwitchKnown, AllFollowed, ServerRecord
  <2>2. CASE v # w
    <3>1. Iconic(z, u, v, {}) = Iconic(server, task, v, {}) /\ u.win[v] = task.win[v]
      BY <1>4, <1>10, <2>1, <2>2 DEF Iconic
    <3> QED BY <1>4, <1>10, <2>1, <3>1 DEF WindowSound, WindowFollowed
  <2>3. CASE v = w
    <3>1. WindowSound(z, u, v)
      BY <1>4, <1>8, <1>9, <1>10, <2>1, <2>3 DEF WindowSound
    <3>2. ~task.perDesk => Iconic(z, u, v, {}) = Iconic(server, task, v, {})
      BY <1>4, <1>10 DEF Iconic
    <3>3. u.active => WindowFollowed(z, u, v)
      BY <1>4, <1>8, <1>9, <1>10, <2>1, <2>3, <3>2 DEF WindowFollowed
    <3> QED BY <3>1, <3>3
  <2> QED BY <2>2, <2>3
<1>12. AllSound(z, u) /\ SwitchKnown(z, u)
  BY <1>1, <1>4, <1>10, <1>11 DEF AllSound, SwitchKnown, AllFollowed
<1>13. NoneUnborn(z, u)
  BY <1>1, <1>4, <1>8, <1>9, <1>10 DEF NoneUnborn
<1> QED BY <1>3, <1>4, <1>7, <1>10, <1>12, <1>13 DEF TaskInv, TaskRight

LEMMA PushedStep == ASSUME TaskInv, XSwitchDesktop \/ XSupported PROVE TaskInv'
<1>1. server \in ServerRecord /\ NoneUnborn(server, task) /\ server.current \in {0, 1} /\ server.pushes \in Nat
  BY ServerParts DEF TaskInv, TaskRight
<1>2. PICK c \in {0, 1}, n \in Nat, E \in SUBSET EventOfTask :
         /\ server' = Push([server EXCEPT !.current = c, !.pushes = n], E) /\ UNCHANGED task
         /\ c = server.current \/ DesktopEvent \in E
  <2>1. CASE XSwitchDesktop
    <3>1. server' = Push([server EXCEPT !.current = 1 - server.current, !.pushes = server.pushes + 1], {DesktopEvent}) /\ UNCHANGED task
      BY <2>1 DEF XSwitchDesktop
    <3>2. PICK c \in {0, 1}, n \in Nat : c = 1 - server.current /\ n = server.pushes + 1
      BY <1>1
    <3>3. {DesktopEvent} \in SUBSET EventOfTask
      BY DEF EventOfTask
    <3> QED BY <3>1, <3>2, <3>3
  <2>2. CASE XSupported
    <3>1. PICK n \in Nat : n = server.pushes + 1
      BY <1>1
    <3>2. {SupportedEvent} \in SUBSET EventOfTask
      BY DEF EventOfTask
    <3>3. server' = Push([server EXCEPT !.pushes = n], {SupportedEvent}) /\ UNCHANGED task
      BY <2>2, <3>1 DEF XSupported
    <3>4. [server EXCEPT !.pushes = n] = [server EXCEPT !.current = server.current, !.pushes = n]
      BY <1>1 DEF ServerRecord
    <3> QED BY <1>1, <3>2, <3>3, <3>4
  <2> QED BY <2>1, <2>2
<1>3. PICK a : a = [server EXCEPT !.current = c, !.pushes = n]
  OBVIOUS
<1>4. /\ a \in ServerRecord /\ a.born = server.born /\ a.alive = server.alive /\ a.listed = server.listed
      /\ a.iconic = server.iconic /\ a.desk = server.desk /\ a.title = server.title /\ a.current = c
      /\ a.events = server.events
  BY <1>1, <1>3 DEF ServerRecord
<1>5. PICK z : z = Push(a, E)
  OBVIOUS
<1>6. /\ z \in ServerRecord /\ z.born = a.born /\ z.alive = a.alive /\ z.listed = a.listed
      /\ z.iconic = a.iconic /\ z.desk = a.desk /\ z.title = a.title /\ z.current = a.current
      /\ z.events = a.events \cup E
  BY <1>4, <1>5, PushIs
<1>7. server' = z /\ UNCHANGED task
  BY <1>2, <1>3, <1>5
<1>8. server.alive \subseteq server.born
  BY <1>1 DEF NoneUnborn
<1> QED BY <1>2, <1>4, <1>6, <1>7, <1>8, ServerMoves

(* The server after an event was handled. *)
LEMMA Served ==
    ASSUME TaskInv, NEW ev, NEW died \in SUBSET server.alive,
           NEW z, z = [server EXCEPT !.events = @ \ {ev}, !.alive = @ \ died]
    PROVE  LaterServer(server, z, died) /\ z.events = server.events \ {ev}
<1>1. server \in ServerRecord
  BY DEF TaskInv, TaskRight
<1> QED BY <1>1 DEF LaterServer, ServerRecord

(* While the filer shows no icons, nothing has to be known. *)
LEMMA Inactive ==
    ASSUME TaskInv, NEW t \in TaskRecord, ~t.active, ~task.active, t.win = task.win, t.old = task.old,
           NEW died, NEW z, LaterServer(server, z, died)
    PROVE  TaskRight(z, t)
<1>1. /\ server \in ServerRecord /\ AllSound(server, task) /\ SwitchKnown(server, task) /\ NoneUnborn(server, task)
      /\ task.old = {} /\ task \in TaskRecord
  BY DEF TaskInv, TaskRight, SwitchKnown
<1>2. AllSound(z, t)
  <2>1. ASSUME NEW w \in z.alive PROVE WindowSound(z, t, w)
    <3>1. w \in server.alive /\ w \in XWindow
      BY <1>1 DEF LaterServer, ServerRecord
    <3>2. WindowSound(server, task, w) /\ task.win[w] \in WindowRecord
      BY <1>1, <3>1 DEF AllSound, TaskRecord
    <3>3. ~task.win[w].known /\ ~task.win[w].icon /\ ~task.win[w].iconified
      BY <1>1, <3>2 DEF WindowSound, WindowRecord
    <3> QED BY <3>2, <3>3 DEF WindowSound, WindowRecord
  <2> QED BY <2>1 DEF AllSound
<1>3. NoneUnborn(z, t)
  BY <1>1 DEF NoneUnborn, LaterServer
<1>4. SwitchKnown(z, t)
  BY <1>1 DEF SwitchKnown
<1> QED BY <1>2, <1>3, <1>4 DEF TaskRight, LaterServer

(* A handler about one window. *)
LEMMA OneWindow ==
    ASSUME TaskInv, NEW died \in SUBSET server.alive, NEW z, LaterServer(server, z, died),
           NEW w \in XWindow, NEW d \in WindowRecord, NEW u, u = [task EXCEPT !.win[w] = d],
           ListEvent \in server.events => ListEvent \in z.events,
           DesktopEvent \in server.events => DesktopEvent \in z.events,
           \A v \in XWindow \ {w} : /\ StateEvent(v) \in server.events => StateEvent(v) \in z.events
                                    /\ NameEvent(v) \in server.events => NameEvent(v) \in z.events,
           w \in z.alive => WindowSound(z, u, w) /\ (task.active => WindowFollowed(z, u, w)),
           w \in server.born \/ (~d.known /\ ~d.icon /\ ~d.iconified)
    PROVE  TaskRight(z, u)
<1>1. /\ server \in ServerRecord /\ AllSound(server, task) /\ SwitchKnown(server, task) /\ NoneUnborn(server, task)
      /\ task \in TaskRecord
  BY DEF TaskInv, TaskRight
<1>2. /\ u \in TaskRecord /\ u.active = task.active /\ u.perDesk = task.perDesk /\ u.old = task.old /\ u.current = task.current
      /\ u.win[w] = d /\ \A v \in XWindow \ {w} : u.win[v] = task.win[v]
  BY <1>1 DEF TaskRecord
<1>3. ASSUME NEW v \in z.alive
      PROVE  WindowSound(z, u, v) /\ (u.active => WindowFollowed(z, u, v))
  <2>1. CASE v = w
    BY <1>2, <2>1
  <2>2. CASE v # w
    <3>1. v \in server.alive /\ v \in XWindow \ {w}
      BY <1>1, <2>2 DEF LaterServer, ServerRecord
    <3>2. WindowSound(server, task, v) /\ (u.active => WindowFollowed(server, task, v))
      BY <1>1, <1>2, <3>1 DEF AllSound, SwitchKnown, AllFollowed
    <3>3. u.win[v] = task.win[v]
      BY <1>2, <3>1
    <3>4. WindowSound(z, u, v)
      BY <1>2, <3>1, <3>2, <3>3 DEF WindowSound, LaterServer
    <3>5. Iconic(z, u, v, {}) = Iconic(server, task, v, {})
      BY <1>2, <3>1 DEF Iconic, LaterServer
    <3>6. u.active => WindowFollowed(z, u, v)
      BY <3>1, <3>2, <3>3, <3>5 DEF WindowFollowed, LaterServer
    <3> QED BY <3>4, <3>6
  <2> QED BY <2>1, <2>2
<1>4. AllSound(z, u)
  BY <1>3 DEF AllSound
<1>5. SwitchKnown(z, u)
  BY <1>1, <1>2, <1>3 DEF SwitchKnown, AllFollowed, LaterServer
<1>6. NoneUnborn(z, u)
  BY <1>1, <1>2 DEF NoneUnborn, LaterServer
<1> QED BY <1>2, <1>4, <1>5, <1>6 DEF TaskRight, LaterServer

(* The steps of the filer, one handler at a time. *)
LEMMA StateChangedStep == ASSUME TaskInv, NEW w \in XWindow, StateChanged(w) PROVE TaskInv'
<1>1. /\ server \in ServerRecord /\ AllSound(server, task) /\ SwitchKnown(server, task) /\ NoneUnborn(server, task)
      /\ task \in TaskRecord /\ task.win[w] \in WindowRecord
  BY DEF TaskInv, TaskRight, TaskRecord
<1>2. PICK died \in SUBSET server.alive :
        /\ server' = [server EXCEPT !.events = @ \ {StateEvent(w)}, !.alive = @ \ died]
        /\ task' = IF task.active
                   THEN IF task.win[w].known
                        THEN [task EXCEPT !.win[w] = CheckStatus(server, task, task.win[w], w, died)]
                        ELSE task
                   ELSE task
  BY DEF StateChanged, Filtered
<1>3. PICK z : z = server'
  OBVIOUS
<1>4. LaterServer(server, z, died) /\ z.events = server.events \ {StateEvent(w)}
  BY <1>2, <1>3, Served
<1>5. CASE ~task.active
  <2>1. TaskRight(z, task)
    BY <1>1, <1>4, <1>5, Inactive
  <2> QED BY <1>2, <1>3, <1>5, <2>1 DEF TaskInv
<1>6. CASE task.active
  <2>1. PICK e \in WindowRecord : e = task.win[w]
    BY <1>1
  <2>2. PICK d : d = IF e.known THEN CheckStatus(server, task, e, w, died) ELSE e
    OBVIOUS
  <2>3. PICK u : u = [task EXCEPT !.win[w] = d]
    OBVIOUS
  <2>4. task' = u
    <3>1. [task EXCEPT !.win[w] = task.win[w]] = task
      BY <1>1 DEF TaskRecord
    <3> QED BY <1>2, <1>6, <2>1, <2>2, <2>3, <3>1
  <2>5. d \in WindowRecord
    BY <1>1, <2>2, CheckStatusIs
  <2>6. /\ u.active = task.active /\ u.perDesk = task.perDesk /\ u.old = task.old /\ u.current = task.current /\ u.win[w] = d
    BY <1>1, <2>3, <2>5 DEF TaskRecord
  <2>7. ASSUME w \in z.alive
        PROVE  WindowSound(z, u, w) /\ WindowFollowed(z, u, w)
    <3>1. w \in server.alive \ died
      BY <1>4, <2>7 DEF LaterServer
    <3>2. WindowSound(server, task, w) /\ WindowFollowed(server, task, w)
      BY <1>1, <1>6, <3>1 DEF AllSound, SwitchKnown, AllFollowed
    <3>3. Iconic(z, u, w, {}) = Iconic(server, task, w, {})
      BY <1>4, <2>6, <2>7, <3>1 DEF Iconic, LaterServer
    <3>4. /\ StateEvent(w) # ListEvent /\ (NameEvent(w) \in server.events => NameEvent(w) \in z.events)
          /\ (ListEvent \in server.events => ListEvent \in z.events)
      BY <1>4, EventsDiffer
    <3>5. CASE ~e.known
      <4>1. d = e
        BY <2>2, <3>5
      <4> QED BY <1>4, <2>1, <2>6, <3>2, <3>4, <3>5, <4>1 DEF WindowSound, WindowFollowed, LaterServer
    <3>6. CASE e.known
      <4>1. d = CheckStatus(server, task, e, w, died) /\ e.icon = e.iconified
        BY <2>1, <2>2, <3>2, <3>6 DEF WindowSound
      <4>2. /\ d.iconified = Iconic(server, task, w, {}) /\ d.icon = d.iconified
            /\ d.known = e.known /\ d.selected = e.selected /\ d.timeout = e.timeout
            /\ (d.icon /\ ~e.icon => d.label = server.title[w]) /\ (d.icon /\ e.icon => d.label = e.label)
        BY <1>1, <3>1, <4>1, CheckStatusIs
      <4>3. WindowSound(z, u, w)
        BY <1>4, <2>1, <2>6, <3>2, <3>4, <3>6, <4>2 DEF WindowSound, LaterServer
      <4>4. WindowFollowed(z, u, w)
        BY <1>4, <2>1, <2>6, <3>2, <3>3, <3>4, <3>6, <4>2 DEF WindowFollowed, LaterServer
      <4> QED BY <4>3, <4>4
    <3> QED BY <3>5, <3>6
  <2>8. w \in server.born \/ (~d.known /\ ~d.icon /\ ~d.iconified)
    BY <1>1, <2>1, <2>2 DEF NoneUnborn
  <2>9. /\ ListEvent \in server.events => ListEvent \in z.events
        /\ DesktopEvent \in server.events => DesktopEvent \in z.events
        /\ \A v \in XWindow \ {w} : /\ StateEvent(v) \in server.events => StateEvent(v) \in z.events
                                    /\ NameEvent(v) \in server.events => NameEvent(v) \in z.events
    BY <1>4, EventsDiffer
  <2>10. TaskRight(z, u)
    BY <1>4, <2>3, <2>5, <2>7, <2>8, <2>9, OneWindow
  <2> QED BY <1>3, <2>4, <2>10 DEF TaskInv
<1> QED BY <1>5, <1>6

LEMMA NameChangedStep == ASSUME TaskInv, NEW w \in XWindow, NameChanged(w) PROVE TaskInv'
<1>1. /\ server \in ServerRecord /\ AllSound(server, task) /\ SwitchKnown(server, task) /\ NoneUnborn(server, task)
      /\ task \in TaskRecord /\ task.win[w] \in WindowRecord
  BY DEF TaskInv, TaskRight, TaskRecord
<1>2. PICK died \in SUBSET server.alive :
        /\ server' = [server EXCEPT !.events = @ \ {NameEvent(w)}, !.alive = @ \ died]
        /\ task' = IF task.active
                   THEN IF task.win[w].known /\ task.win[w].icon /\ ~task.win[w].timeout
                        THEN [task EXCEPT !.win[w].timeout = TRUE, !.win[w].source = TRUE]
                        ELSE task
                   ELSE task
  BY DEF NameChanged, Filtered
<1>3. PICK z : z = server'
  OBVIOUS
<1>4. LaterServer(server, z, died) /\ z.events = server.events \ {NameEvent(w)}
  BY <1>2, <1>3, Served
<1>5. CASE ~task.active
  <2>1. TaskRight(z, task)
    BY <1>1, <1>4, <1>5, Inactive
  <2> QED BY <1>2, <1>3, <1>5, <2>1 DEF TaskInv
<1>6. CASE task.active
  <2>1. PICK e \in WindowRecord : e = task.win[w]
    BY <1>1
  <2>2. PICK d : d = IF e.known /\ e.icon /\ ~e.timeout THEN [e EXCEPT !.timeout = TRUE, !.source = TRUE] ELSE e
    OBVIOUS
  <2>3. PICK u : u = [task EXCEPT !.win[w] = d]
    OBVIOUS
  <2>4. task' = u
    <3>1. [task EXCEPT !.win[w] = task.win[w]] = task
      BY <1>1 DEF TaskRecord
    <3>2. [task EXCEPT !.win[w].timeout = TRUE, !.win[w].source = TRUE]
            = [task EXCEPT !.win[w] = [e EXCEPT !.timeout = TRUE, !.source = TRUE]]
      BY <1>1, <2>1 DEF TaskRecord
    <3> QED BY <1>2, <1>6, <2>1, <2>2, <2>3, <3>1, <3>2
  <2>5. /\ d \in WindowRecord /\ d.known = e.known /\ d.selected = e.selected /\ d.icon = e.icon /\ d.iconified = e.iconified
        /\ d.moved = e.moved /\ d.label = e.label /\ (e.timeout => d.timeout) /\ (e.known /\ e.icon => d.timeout)
    BY <2>2 DEF WindowRecord
  <2>6. /\ u.active = task.active /\ u.perDesk = task.perDesk /\ u.old = task.old /\ u.current = task.current /\ u.win[w] = d
    BY <1>1, <2>3, <2>5 DEF TaskRecord
  <2>7. ASSUME w \in z.alive
        PROVE  WindowSound(z, u, w) /\ WindowFollowed(z, u, w)
    <3>1. w \in server.alive
      BY <1>4, <2>7 DEF LaterServer
    <3>2. WindowSound(server, task, w) /\ WindowFollowed(server, task, w)
      BY <1>1, <1>6, <3>1 DEF AllSound, SwitchKnown, AllFollowed
    <3>3. Iconic(z, u, w, {}) = Iconic(server, task, w, {})
      BY <1>4, <2>6, <2>7, <3>1 DEF Iconic, LaterServer
    <3>4. /\ (StateEvent(w) \in server.events => StateEvent(w) \in z.events)
          /\ (ListEvent \in server.events => ListEvent \in z.events)
      BY <1>4, EventsDiffer
    <3>5. WindowSound(z, u, w)
      BY <2>1, <2>5, <2>6, <3>2 DEF WindowSound
    <3>6. WindowFollowed(z, u, w)
      BY <1>4, <2>1, <2>5, <2>6, <3>2, <3>3, <3>4 DEF WindowFollowed, LaterServer
    <3> QED BY <3>5, <3>6
  <2>8. w \in server.born \/ (~d.known /\ ~d.icon /\ ~d.iconified)
    BY <1>1, <2>1, <2>5 DEF NoneUnborn
  <2>9. /\ ListEvent \in server.events => ListEvent \in z.events
        /\ DesktopEvent \in server.events => DesktopEvent \in z.events
        /\ \A v \in XWindow \ {w} : /\ StateEvent(v) \in server.events => StateEvent(v) \in z.events
                                    /\ NameEvent(v) \in server.events => NameEvent(v) \in z.events
    BY <1>4, EventsDiffer
  <2>10. TaskRight(z, u)
    BY <1>4, <2>3, <2>5, <2>7, <2>8, <2>9, OneWindow
  <2> QED BY <1>3, <2>4, <2>10 DEF TaskInv
<1> QED BY <1>5, <1>6

LEMMA UpdateTitleStep == ASSUME TaskInv, NEW w \in XWindow, UpdateTitle(w) PROVE TaskInv'
<1>1. /\ server \in ServerRecord /\ AllSound(server, task) /\ SwitchKnown(server, task) /\ NoneUnborn(server, task)
      /\ task \in TaskRecord /\ task.win[w] \in WindowRecord
  BY DEF TaskInv, TaskRight, TaskRecord
<1>2. LaterServer(server, server, {})
  BY <1>1 DEF LaterServer
<1>3. PICK e \in WindowRecord : e = task.win[w]
  BY <1>1
<1>4. PICK name \in Nat : name = IconName(server, w, {})
  BY <1>1, TaskAssumption, ServerParts DEF IconName, NoTitle
<1>5. PICK d : d = IF ~e.icon THEN [e EXCEPT !.source = FALSE]
                   ELSE [e EXCEPT !.label = name, !.source = FALSE, !.timeout = FALSE]
  OBVIOUS
<1>6. PICK u : u = [task EXCEPT !.win[w] = d]
  OBVIOUS
<1>7. task' = u /\ server' = server
  <2>1. [task EXCEPT !.win[w].source = FALSE] = [task EXCEPT !.win[w] = [e EXCEPT !.source = FALSE]]
    BY <1>1, <1>3 DEF TaskRecord
  <2>2. [task EXCEPT !.win[w].label = name, !.win[w].source = FALSE, !.win[w].timeout = FALSE]
          = [task EXCEPT !.win[w] = [e EXCEPT !.label = name, !.source = FALSE, !.timeout = FALSE]]
    BY <1>1, <1>3 DEF TaskRecord
  <2> QED BY <1>3, <1>4, <1>5, <1>6, <2>1, <2>2 DEF UpdateTitle
<1>8. /\ d \in WindowRecord /\ d.known = e.known /\ d.selected = e.selected /\ d.icon = e.icon /\ d.iconified = e.iconified
      /\ d.moved = e.moved /\ (e.icon => d.label = name)
  BY <1>5 DEF WindowRecord
<1>9. /\ u.active = task.active /\ u.perDesk = task.perDesk /\ u.old = task.old /\ u.current = task.current /\ u.win[w] = d
  BY <1>1, <1>6, <1>8 DEF TaskRecord
<1>10. ASSUME w \in server.alive
       PROVE  WindowSound(server, u, w) /\ (task.active => WindowFollowed(server, u, w))
  <2>1. WindowSound(server, task, w) /\ (task.active => WindowFollowed(server, task, w))
    BY <1>1, <1>10 DEF AllSound, SwitchKnown, AllFollowed
  <2>2. name = server.title[w]
    BY <1>4, <1>10 DEF IconName
  <2>3. Iconic(server, u, w, {}) = Iconic(server, task, w, {})
    BY <1>9 DEF Iconic
  <2>4. WindowSound(server, u, w)
    BY <1>3, <1>8, <1>9, <2>1, <2>2 DEF WindowSound
  <2>5. task.active => WindowFollowed(server, u, w)
    BY <1>3, <1>8, <1>9, <2>1, <2>3 DEF WindowFollowed
  <2> QED BY <2>4, <2>5
<1>11. w \in server.born \/ (~d.known /\ ~d.icon /\ ~d.iconified)
  BY <1>1, <1>3, <1>8 DEF NoneUnborn
<1>12. TaskRight(server, u)
  BY <1>2, <1>6, <1>8, <1>10, <1>11, OneWindow
<1> QED BY <1>7, <1>12 DEF TaskInv

(* Handlers that compare all windows, while the filer shows icons. *)
LEMMA UpdatedStep ==
    ASSUME TaskInv, task.active, NEW ev \in {ListEvent, DesktopEvent, SupportedEvent}, NEW died \in SUBSET server.alive,
           NEW z, z = [server EXCEPT !.events = @ \ {ev}, !.alive = @ \ died],
           NEW t \in TaskRecord, t.active, AllSound(server, t), NoneUnborn(server, t),
           t.current = server.current \/ (ev # DesktopEvent /\ t.current = task.current),
           server' = z, task' = TasklistUpdate(server, t, FALSE, died)
    PROVE  TaskInv'
<1>1. LaterServer(server, z, died) /\ z.events = server.events \ {ev}
  BY Served
<1>2. server \in ServerRecord /\ (task.current = server.current \/ DesktopEvent \in server.events)
  BY DEF TaskInv, TaskRight, SwitchKnown
<1>3. /\ \A w \in XWindow : NameEvent(w) \in server.events => NameEvent(w) \in z.events
      /\ t.current = server.current \/ DesktopEvent \in z.events
  BY <1>1, <1>2, EventsDiffer
<1>4. PICK u : u = TasklistUpdate(server, t, FALSE, died)
  OBVIOUS
<1>5. TaskRight(z, u)
  BY <1>1, <1>2, <1>3, <1>4, AfterUpdate
<1> QED BY <1>4, <1>5 DEF TaskInv

LEMMA ComparedStep == ASSUME TaskInv, ListChanged \/ DesktopChanged \/ Supported PROVE TaskInv'
<1>1. /\ server \in ServerRecord /\ AllSound(server, task) /\ SwitchKnown(server, task) /\ NoneUnborn(server, task)
      /\ task \in TaskRecord /\ server.current \in {0, 1}
  BY ServerParts DEF TaskInv, TaskRight
<1>2. PICK ev \in {ListEvent, DesktopEvent, SupportedEvent}, died \in SUBSET server.alive :
        /\ server' = [server EXCEPT !.events = @ \ {ev}, !.alive = @ \ died]
        /\ \E t : /\ task' = IF task.active THEN TasklistUpdate(server, t, FALSE, died) ELSE task
                 /\ \/ ev = ListEvent /\ t = task
                    \/ ev = DesktopEvent /\ t = [task EXCEPT !.current = server.current]
                    \/ ev = SupportedEvent /\ t = TasklistUpdate(server, task, TRUE, {})
  BY DEF ListChanged, DesktopChanged, Supported, Filtered
<1>3. PICK z : z = server'
  OBVIOUS
<1>4. LaterServer(server, z, died) /\ z.events = server.events \ {ev}
  BY <1>2, <1>3, Served
<1>5. CASE ~task.active
  <2>1. TaskRight(z, task)
    BY <1>1, <1>4, <1>5, Inactive
  <2> QED BY <1>2, <1>3, <1>5, <2>1 DEF TaskInv
<1>6. CASE task.active
  <2>0. PICK t : /\ task' = TasklistUpdate(server, t, FALSE, died)
                 /\ \/ ev = ListEvent /\ t = task
                    \/ ev = DesktopEvent /\ t = [task EXCEPT !.current = server.current]
                    \/ ev = SupportedEvent /\ t = TasklistUpdate(server, task, TRUE, {})
    BY <1>2, <1>6
  <2>1. /\ t \in TaskRecord /\ t.active /\ AllSound(server, t) /\ NoneUnborn(server, t)
        /\ t.current = server.current \/ (ev # DesktopEvent /\ t.current = task.current)
    <3>1. CASE ev = ListEvent /\ t = task
      BY <1>1, <1>6, <3>1, EventsDiffer
    <3>2. CASE ev = DesktopEvent /\ t = [task EXCEPT !.current = server.current]
      <4>1. t \in TaskRecord /\ t.active /\ t.current = server.current /\ t.win = task.win /\ t.old = task.old
        BY <1>1, <1>6, <3>2 DEF TaskRecord
      <4> QED BY <1>1, <4>1 DEF AllSound, WindowSound, NoneUnborn
    <3>3. CASE ev = SupportedEvent /\ t = TasklistUpdate(server, task, TRUE, {})
      <4>1. Updated(server, task, t, TRUE, {})
        BY <1>1, <3>3, UpdateIs
      <4>2. t \in TaskRecord /\ t.active /\ t.current = task.current /\ AllSound(server, t)
        BY <1>6, <4>1 DEF Updated, AllSound
      <4>3. NoneUnborn(server, t)
        BY <1>1, <4>1 DEF Updated, NoneUnborn
      <4> QED BY <3>3, <4>2, <4>3, EventsDiffer
    <3> QED BY <2>0, <3>1, <3>2, <3>3
  <2> QED BY <1>2, <1>3, <1>6, <2>0, <2>1, UpdatedStep
<1> QED BY <1>5, <1>6

(* The options or the pinboard are switched, or nothing has to be done. *)
LEMMA OptionsChangedStep == ASSUME TaskInv, NEW active \in BOOLEAN, NEW perDesk \in BOOLEAN, OptionsChanged(active, perDesk) PROVE TaskInv'
<1>1. /\ server \in ServerRecord /\ AllSound(server, task) /\ SwitchKnown(server, task) /\ NoneUnborn(server, task)
      /\ task \in TaskRecord /\ server.pushes \in Nat /\ server.current \in {0, 1}
  BY ServerParts DEF TaskInv, TaskRight
<1>2. PICK died \in SUBSET server.alive :
        /\ server' = [server EXCEPT !.pushes = server.pushes + 1, !.alive = @ \ died]
        /\ task' = SetActive(server, task, active, perDesk, died)
  BY DEF OptionsChanged
<1>3. PICK n \in Nat : n = server.pushes + 1
  BY <1>1
<1>4. PICK z : z = server'
  OBVIOUS
<1>5. LaterServer(server, z, died) /\ z.events = server.events
  <2>1. z = [server EXCEPT !.pushes = n, !.alive = @ \ died]
    BY <1>2, <1>3, <1>4
  <2> QED BY <1>1, <2>1 DEF LaterServer, ServerRecord
<1>6. active # task.active \/ perDesk # task.perDesk
  BY DEF OptionsChanged
<1>7. PICK p : p = [task EXCEPT !.perDesk = perDesk]
  OBVIOUS
<1>8. p \in TaskRecord /\ p.active = task.active /\ p.win = task.win /\ p.old = task.old /\ p.current = task.current
  BY <1>1, <1>7 DEF TaskRecord
<1>9. PICK q : q = [p EXCEPT !.active = active, !.current = IF active THEN server.current ELSE p.current]
  OBVIOUS
<1>10. q \in TaskRecord /\ q.active = active /\ q.win = task.win /\ q.old = task.old /\ (active => q.current = server.current)
  <2>1. p.current \in {0, 1}
    BY <1>8 DEF TaskRecord
  <2> QED BY <1>1, <1>8, <1>9, <2>1 DEF TaskRecord
<1>11. AllSound(server, p) /\ NoneUnborn(server, p) /\ AllSound(server, q) /\ NoneUnborn(server, q)
  BY <1>1, <1>8, <1>10 DEF AllSound, WindowSound, NoneUnborn
<1>12. PICK u : u = task'
  OBVIOUS
<1>13. u = CASE active # task.active -> TasklistUpdate(server, q, ~active, died)
             [] active = task.active /\ active /\ perDesk # task.perDesk -> TasklistUpdate(server, p, FALSE, died)
             [] OTHER -> p
  BY <1>2, <1>7, <1>9, <1>12 DEF SetActive
<1>14. CASE active # task.active
  <2>1. u = TasklistUpdate(server, q, ~active, died)
    BY <1>13, <1>14
  <2>2. PICK empty \in BOOLEAN : empty = ~active
    OBVIOUS
  <2>3. TaskRight(z, u)
    BY <1>1, <1>5, <1>10, <1>11, <2>1, <2>2, AfterUpdate
  <2> QED BY <1>4, <1>12, <2>3 DEF TaskInv
<1>15. CASE active = task.active /\ active
  <2>1. u = TasklistUpdate(server, p, FALSE, died)
    BY <1>6, <1>13, <1>15
  <2>2. p.current = server.current \/ DesktopEvent \in z.events
    BY <1>1, <1>5, <1>8, <1>15 DEF SwitchKnown
  <2>3. TaskRight(z, u)
    BY <1>1, <1>5, <1>8, <1>11, <1>15, <2>1, <2>2, AfterUpdate
  <2> QED BY <1>4, <1>12, <2>3 DEF TaskInv
<1>16. CASE active = task.active /\ ~active
  <2>1. u = p
    BY <1>13, <1>16
  <2>2. TaskRight(z, p)
    BY <1>5, <1>8, <1>16, Inactive
  <2> QED BY <1>4, <1>12, <2>1, <2>2 DEF TaskInv
<1> QED BY <1>14, <1>15, <1>16

(* Every step. *)
LEMMA TaskStep == TaskInv /\ [TaskNext]_taskVars => TaskInv'
<1> SUFFICES ASSUME TaskInv, [TaskNext]_taskVars PROVE TaskInv'
  OBVIOUS
<1>1. ASSUME NEW w \in XWindow, XMap(w) \/ XIconify(w) \/ XSetName(w) \/ XDestroy(w) \/ XUnlist(w) \/ XMove(w) PROVE TaskInv'
  BY <1>1, XMapStep, XIconifyStep, XSetNameStep, XDestroyStep, XUnlistStep, XMoveStep
<1>2. CASE XSwitchDesktop \/ XSupported
  BY <1>2, PushedStep
<1>3. ASSUME NEW w \in XWindow, StateChanged(w) \/ NameChanged(w) \/ UpdateTitle(w) PROVE TaskInv'
  BY <1>3, StateChangedStep, NameChangedStep, UpdateTitleStep
<1>4. CASE ListChanged \/ DesktopChanged \/ Supported
  BY <1>4, ComparedStep
<1>5. ASSUME NEW active \in BOOLEAN, NEW perDesk \in BOOLEAN, OptionsChanged(active, perDesk) PROVE TaskInv'
  BY <1>5, OptionsChangedStep
<1>6. CASE UNCHANGED taskVars
  BY <1>6 DEF taskVars, TaskInv
<1> QED BY <1>1, <1>2, <1>3, <1>4, <1>5, <1>6 DEF TaskNext

(* Once all events are handled the pinboard shows exactly the windows that *)
(* are iconic on this desktop, under their names, except for those sent to *)
(* another desktop since they were last looked at (window_filter,          *)
(* tasklist.c:465, does not follow that): for any number of windows that   *)
(* come, go, die between two reads, are moved and are renamed, and any     *)
(* switches of the options and the desktop.                                *)
THEOREM TaskIconsAlwaysRight == TaskSpec => []TaskIconsRight
<1>1. ASSUME TaskInv, Quiet PROVE TaskIconsRight
  <2>1. /\ server \in ServerRecord /\ AllSound(server, task) /\ SwitchKnown(server, task) /\ task \in TaskRecord
    BY <1>1 DEF TaskInv, TaskRight
  <2>2. server.events = {}
    BY <1>1 DEF Quiet
  <2>3. ASSUME NEW w \in server.alive
        PROVE  /\ WindowSound(server, task, w) /\ task.win[w].icon \in BOOLEAN
               /\ task.win[w].known \in BOOLEAN /\ task.win[w].iconified \in BOOLEAN
               /\ (task.active => WindowFollowed(server, task, w))
    <3>1. w \in XWindow
      BY <2>1 DEF ServerRecord
    <3>2. task.win[w] \in WindowRecord
      BY <2>1, <3>1 DEF TaskRecord
    <3> QED BY <2>1, <3>2 DEF AllSound, SwitchKnown, AllFollowed, WindowRecord
  <2>4. ASSUME task.active
        PROVE  /\ \A w \in server.alive \cap server.listed : task.win[w].known
               /\ LivingIcons \subseteq server.alive \cap server.listed
               /\ \A w \in server.alive \cap server.listed :
                    ~task.win[w].moved => (task.win[w].icon <=> Iconic(server, task, w, {}))
               /\ task.current = server.current
    <3>1. \A w \in server.alive : /\ w \in server.listed <=> task.win[w].known
                                  /\ w \in server.listed /\ ~task.win[w].moved => task.win[w].icon = Iconic(server, task, w, {})
                                  /\ task.win[w].icon => task.win[w].known
      BY <2>2, <2>3, <2>4 DEF WindowSound, WindowFollowed
    <3>2. task.current = server.current
      BY <2>1, <2>2, <2>4 DEF SwitchKnown
    <3> QED BY <3>1, <3>2 DEF LivingIcons
  <2>5. ASSUME ~task.active PROVE LivingIcons = {}
    <3>1. task.old = {}
      BY <2>1, <2>5 DEF SwitchKnown
    <3>2. \A w \in server.alive : ~task.win[w].icon
      BY <2>3, <3>1 DEF WindowSound
    <3> QED BY <3>2 DEF LivingIcons
  <2>6. \A w \in LivingIcons : ~task.win[w].timeout => task.win[w].label = server.title[w]
    BY <2>2, <2>3 DEF WindowSound, LivingIcons
  <2> QED BY <2>4, <2>5, <2>6 DEF TaskIconsRight
<1>2. TaskInv => TaskIconsRight
  BY <1>1 DEF TaskIconsRight
<1> QED BY <1>2, TaskStart, TaskStep, PTL DEF TaskSpec
--------------------
(***************************************************************************)
(* PLACEMENT: WHAT A SEARCH HAS PUT IS APART FROM THE REST                 *)
(*                                                                         *)
(* Only two steps put a thing by a search; the others say that nothing was *)
(* searched for.  So the invariant is of types alone, and the work is in   *)
(* three lemmas: a search finds a free place if there is one (FirstOfFree),*)
(* an icon that is snapped, framed and kept on the screen grows by no more *)
(* than the frame and half a step on any side (AroundIs), and what was     *)
(* apart lies over by no more than that then (GrownOver).                  *)
(***************************************************************************)

IntRect   == [x : Int, y : Int, w : Int, h : Int]
SizedRect == [x : Int, y : Int, w : Nat, h : Nat]

PlaceInv ==
    /\ put \in [PutThing -> SizedRect]
    /\ centre \in [PinnedIcon -> Int \X Int]
    /\ placed \in [{TitleOf[w] : w \in Iconified} -> SizedRect]
    /\ layout \in Layouts /\ panelShown \in BOOLEAN

LEMMA RectTyped == ASSUME NEW x \in Int, NEW y \in Int, NEW w \in Int, NEW h \in Int
                   PROVE /\ Rect(x, y, <<w, h>>) \in IntRect
                         /\ Rect(x, y, <<w, h>>).x = x /\ Rect(x, y, <<w, h>>).y = y
                         /\ Rect(x, y, <<w, h>>).w = w /\ Rect(x, y, <<w, h>>).h = h
  BY DEF Rect, IntRect

LEMMA SizedTyped ==
    /\ SizedRect \subseteq IntRect
    /\ \A r \in IntRect : r.w \in Nat /\ r.h \in Nat => r \in SizedRect
<1>1. SizedRect \subseteq IntRect
  BY DEF SizedRect, IntRect
<1>2. ASSUME NEW r \in IntRect, r.w \in Nat, r.h \in Nat PROVE r \in SizedRect
  BY <1>2 DEF SizedRect, IntRect
<1> QED BY <1>1, <1>2

LEMMA SizeIs == ASSUME NEW size \in Int \X Int
                PROVE size[1] \in Int /\ size[2] \in Int /\ size = <<size[1], size[2]>>
  OBVIOUS

(* How far they lie over each other is a number, and less when one of them *)
(* is cut at its right and at its bottom. *)
LEMMA OverCut ==
    ASSUME NEW r \in IntRect, NEW s \in IntRect, NEW w \in Int, NEW h \in Int, w <= r.w, h <= r.h
    PROVE  Over(Rect(r.x, r.y, <<w, h>>), s) <= Over(r, s) /\ Over(r, s) \in Int
<1> DEFINE q == Rect(r.x, r.y, <<w, h>>)
<1>1. r.x \in Int /\ r.y \in Int /\ r.w \in Int /\ r.h \in Int /\ s.x \in Int /\ s.y \in Int /\ s.w \in Int /\ s.h \in Int
  BY DEF IntRect
<1>2. q.x = r.x /\ q.y = r.y /\ q.w = w /\ q.h = h
  BY <1>1, RectTyped
<1> HIDE DEF q
<1>3. Over(q, s) <= Over(r, s) /\ Over(r, s) \in Int
  BY <1>1, <1>2 DEF Over, Least, Most
<1> QED BY <1>3 DEF q

(* Grown on each side by at most k in a way that what it grows in all is *)
(* at most twice the frame, a rectangle that was apart lies over by k. *)
LEMMA GrownOver ==
    ASSUME NEW r \in IntRect, NEW s \in IntRect, NEW q \in IntRect, NEW b \in Nat, NEW k \in Nat,
           2 * b <= k, Over(r, s) <= 0, r.w >= 0, r.h >= 0,
           q.w = r.w + 2 * b, q.h = r.h + 2 * b,
           r.x - q.x <= k, r.y - q.y <= k,
           q.x + q.w - (r.x + r.w) <= k, q.y + q.h - (r.y + r.h) <= k
    PROVE  Over(q, s) <= k
<1>1. r.x \in Int /\ r.y \in Int /\ r.w \in Int /\ r.h \in Int /\ s.x \in Int /\ s.y \in Int /\ s.w \in Int /\ s.h \in Int
      /\ q.x \in Int /\ q.y \in Int /\ q.w \in Int /\ q.h \in Int
  BY DEF IntRect
<1> DEFINE Lap(x, w, y, v) == Least(x + w, y + v) - Most(x, y)
<1>2. ASSUME NEW x \in Int, NEW w \in Int, NEW y \in Int, NEW v \in Int, NEW z \in Int, w >= 0,
             Lap(x, w, y, v) <= 0, x - z <= k, z + (w + 2 * b) - (x + w) <= k
      PROVE  Lap(z, w + 2 * b, y, v) <= k /\ Lap(z, w + 2 * b, y, v) \in Int
  BY <1>2 DEF Least, Most
<1>3. Lap(r.x, r.w, s.x, s.w) <= 0 \/ Lap(r.y, r.h, s.y, s.h) <= 0
  BY <1>1 DEF Over, Least, Most
<1>4. Lap(r.x, r.w, s.x, s.w) <= 0 => Lap(q.x, q.w, s.x, s.w) <= k
  BY <1>1, <1>2
<1>5. Lap(r.y, r.h, s.y, s.h) <= 0 => Lap(q.y, q.h, s.y, s.h) <= k
  BY <1>1, <1>2
<1>6. Lap(q.x, q.w, s.x, s.w) \in Int /\ Lap(q.y, q.h, s.y, s.h) \in Int
  BY <1>1 DEF Least, Most
<1>7. Over(q, s) = Least(Lap(q.x, q.w, s.x, s.w), Lap(q.y, q.h, s.y, s.h))
  BY DEF Over
<1> HIDE DEF Lap
<1> QED BY <1>3, <1>4, <1>5, <1>6, <1>7 DEF Least

(* Of some whole numbers between two, one is the soonest. *)
LEMMA SoonestOf ==
    ASSUME NEW S, S # {}, NEW lo \in Int, NEW hi \in Int, S \subseteq lo..hi, NEW by \in Int
    PROVE  \E a \in S : \A b \in S \ {a} : Sooner(a, b, by)
<1> DEFINE Key(a) == IF by > 0 THEN a - lo ELSE hi - a
           Keys == {Key(a) : a \in S}
<1>1. Keys \subseteq Nat /\ Keys # {}
  OBVIOUS
<1>2. PICK k \in Keys : \A j \in Keys : ~(<<j, k>> \in OpToRel(<, Nat))
  BY <1>1, NatLessThanWellFounded, WFMin, Zenon
<1>3. \A j \in Keys : ~(j < k)
  BY <1>1, <1>2 DEF OpToRel
<1>4. PICK a \in S : k = Key(a)
  OBVIOUS
<1>5. ASSUME NEW c \in S \ {a} PROVE Sooner(a, c, by)
  <2>1. ~(Key(c) < Key(a)) /\ a \in Int /\ c \in Int /\ a # c
    <3>1. Key(c) \in Keys
      OBVIOUS
    <3>2. a \in lo..hi /\ c \in lo..hi /\ a # c
      BY <1>4
    <3> HIDE DEF Keys, Key
    <3>3. ~(Key(c) < Key(a))
      BY <3>1, <1>3, <1>4
    <3> QED BY <3>2, <3>3
  <2> QED BY <2>1 DEF Sooner
<1> QED BY <1>5

(* The free places of a search, and the first of them. *)
FreePlaces(size, used, dx, dy, area) ==
    {r \in {Rect(x, y, size) : x \in Coords(area.x, area.x + area.w, dx),
                               y \in Coords(area.y, area.y + area.h, dy)} : Apart(r, used)}

LEMMA FreeIs ==
    ASSUME NEW size \in Int \X Int, NEW used, NEW area \in IntRect, NEW dx \in Int, NEW dy \in Int,
           NEW r \in FreePlaces(size, used, dx, dy, area)
    PROVE  /\ r \in IntRect /\ Apart(r, used) /\ r = Rect(r.x, r.y, size)
           /\ r.w = size[1] /\ r.h = size[2]
           /\ r.x \in area.x..(area.x + area.w) /\ r.y \in area.y..(area.y + area.h)
<1>1. PICK x \in Coords(area.x, area.x + area.w, dx), y \in Coords(area.y, area.y + area.h, dy) :
         r = Rect(x, y, size)
  BY DEF FreePlaces
<1>2. x \in area.x..(area.x + area.w) /\ y \in area.y..(area.y + area.h)
      /\ area.x \in Int /\ area.y \in Int /\ area.w \in Int /\ area.h \in Int
  BY DEF Coords, IntRect
<1>3. x \in Int /\ y \in Int
  BY <1>2
<1>4. r \in IntRect /\ r.x = x /\ r.y = y /\ r.w = size[1] /\ r.h = size[2]
  BY <1>1, <1>3, RectTyped, SizeIs
<1>5. Apart(r, used)
  BY DEF FreePlaces
<1> QED BY <1>1, <1>2, <1>4, <1>5

LEMMA SearchFinds ==
    ASSUME NEW size \in Int \X Int, NEW used, NEW going, NEW area \in IntRect, NEW dx \in Int, NEW dy \in Int
    PROVE  IF FreePlaces(size, used, dx, dy, area) = {}
           THEN SearchFree(size, used, going, dx, dy, area) = Rect(-1, -1, size)
           ELSE SearchFree(size, used, going, dx, dy, area) \in FreePlaces(size, used, dx, dy, area)
<1> DEFINE F == FreePlaces(size, used, dx, dy, area)
           First(r, s) ==
             IF going = "down"
             THEN Sooner(r.x, s.x, dx) \/ (r.x = s.x /\ Sooner(r.y, s.y, dy))
             ELSE Sooner(r.y, s.y, dy) \/ (r.y = s.y /\ Sooner(r.x, s.x, dx))
<1>1. SearchFree(size, used, going, dx, dy, area) =
        IF F = {} THEN Rect(-1, -1, size) ELSE CHOOSE r \in F : \A s \in F \ {r} : First(r, s)
  BY DEF SearchFree, FreePlaces
<1>2. \A r \in F : /\ r.x \in area.x..(area.x + area.w) /\ r.y \in area.y..(area.y + area.h)
                   /\ r = Rect(r.x, r.y, size)
  BY FreeIs
<1>3. area.x \in Int /\ area.x + area.w \in Int /\ area.y \in Int /\ area.y + area.h \in Int
  BY DEF IntRect
<1> HIDE DEF F
<1>4. ASSUME F # {} PROVE \E r \in F : \A s \in F \ {r} : First(r, s)
  <2>1. CASE going = "down"
    <3> DEFINE X == {r.x : r \in F}
    <3>1. X # {} /\ X \subseteq area.x..(area.x + area.w)
      BY <1>2, <1>4
    <3> HIDE DEF X
    <3>2. PICK a \in X : \A b \in X \ {a} : Sooner(a, b, dx)
      BY <3>1, <1>3, SoonestOf
    <3> DEFINE Y == {r.y : r \in {q \in F : q.x = a}}
    <3>3. Y # {} /\ Y \subseteq area.y..(area.y + area.h)
      BY <1>2, <3>2 DEF X
    <3> HIDE DEF Y
    <3>4. PICK c \in Y : \A b \in Y \ {c} : Sooner(c, b, dy)
      BY <3>3, <1>3, SoonestOf
    <3>5. PICK r \in F : r.x = a /\ r.y = c
      BY <3>4 DEF Y
    <3>6. ASSUME NEW s \in F \ {r} PROVE First(r, s)
      <4>1. CASE s.x # a
        <5>1. s.x \in X \ {a}
          BY <4>1 DEF X
        <5> QED BY <5>1, <3>2, <3>5, <2>1
      <4>2. CASE s.x = a
        <5>1. s.y \in Y
          BY <4>2 DEF Y
        <5>2. s.y # c
          BY <1>2, <3>5, <3>6, <4>2
        <5>3. Sooner(c, s.y, dy)
          BY <5>1, <5>2, <3>4
        <5> QED BY <5>3, <3>5, <4>2, <2>1
      <4> QED BY <4>1, <4>2
    <3> QED BY <3>6
  <2>2. CASE going # "down"
    <3> DEFINE Y == {r.y : r \in F}
    <3>1. Y # {} /\ Y \subseteq area.y..(area.y + area.h)
      BY <1>2, <1>4
    <3> HIDE DEF Y
    <3>2. PICK a \in Y : \A b \in Y \ {a} : Sooner(a, b, dy)
      BY <3>1, <1>3, SoonestOf
    <3> DEFINE X == {r.x : r \in {q \in F : q.y = a}}
    <3>3. X # {} /\ X \subseteq area.x..(area.x + area.w)
      BY <1>2, <3>2 DEF Y
    <3> HIDE DEF X
    <3>4. PICK c \in X : \A b \in X \ {c} : Sooner(c, b, dx)
      BY <3>3, <1>3, SoonestOf
    <3>5. PICK r \in F : r.y = a /\ r.x = c
      BY <3>4 DEF X
    <3>6. ASSUME NEW s \in F \ {r} PROVE First(r, s)
      <4>1. CASE s.y # a
        <5>1. s.y \in Y \ {a}
          BY <4>1 DEF Y
        <5> QED BY <5>1, <3>2, <3>5, <2>2
      <4>2. CASE s.y = a
        <5>1. s.x \in X
          BY <4>2 DEF X
        <5>2. s.x # c
          BY <1>2, <3>5, <3>6, <4>2
        <5>3. Sooner(c, s.x, dx)
          BY <5>1, <5>2, <3>4
        <5> QED BY <5>3, <3>5, <4>2, <2>2
      <4> QED BY <4>1, <4>2
    <3> QED BY <3>6
  <2> QED BY <2>1, <2>2
<1> HIDE DEF First
<1>5. F # {} => (CHOOSE r \in F : \A s \in F \ {r} : First(r, s)) \in F
  BY <1>4
<1>6. SearchFree(size, used, going, dx, dy, area) = IF F = {} THEN Rect(-1, -1, size) ELSE CHOOSE r \in F : \A s \in F \ {r} : First(r, s)
  BY <1>1
<1>7. IF F = {} THEN SearchFree(size, used, going, dx, dy, area) = Rect(-1, -1, size)
      ELSE SearchFree(size, used, going, dx, dy, area) \in F
  BY <1>5, <1>6
<1> QED BY <1>7 DEF F

(* The steps of the search are numbers. *)
LEMMA SteppingIs == ASSUME NEW corner PROVE Stepping(corner).dx \in Int /\ Stepping(corner).dy \in Int
<1> DEFINE step == ((SearchStep - 1) \div GridStep + 1) * GridStep
<1>1. step \in Int /\ -step \in Int
  BY PlacementAssumption
<1> DEFINE right == corner \in {"top right", "bottom right"}
           low   == corner \in {"bottom left", "bottom right"}
<1>2. Stepping(corner) = [dx |-> IF right THEN -step ELSE step, dy |-> IF low THEN -step ELSE step]
  BY Zenon DEF Stepping
<1> HIDE DEF step, right, low
<1> QED BY <1>1, <1>2

(* What the layout and the screen are. *)
LEMMA LayoutIs ==
    ASSUME PlaceInv
    PROVE  /\ layout.top \in Nat /\ layout.clamp \in BOOLEAN
           /\ Screen[1] \in Nat /\ Screen[2] \in Nat
           /\ \A m \in layout.monitors :
                /\ m.x \in Nat /\ m.y \in Nat /\ m.w \in Nat /\ m.h \in Nat
                /\ m.x + m.w <= Screen[1] /\ m.y + m.h <= Screen[2]
<1>1. layout \in Layouts
  BY DEF PlaceInv
<1>2. layout.top \in Nat /\ layout.clamp \in BOOLEAN
      /\ \A m \in layout.monitors : /\ m \in [x : Nat, y : Nat, w : Nat, h : Nat]
                                    /\ m.x + m.w <= Screen[1] /\ m.y + m.h <= Screen[2]
  BY <1>1, PlacementAssumption
<1>3. Screen[1] \in Nat /\ Screen[2] \in Nat
  BY PlacementAssumption
<1> QED BY <1>2, <1>3

(* What the others use. *)
LEMMA UsedIs == ASSUME PlaceInv, NEW t PROVE UsedBut(t) \subseteq IntRect
<1>1. NoGo \subseteq IntRect
  <2>1. PanelArea \in IntRect
    BY PlacementAssumption DEF IntRect
  <2>2. Rect(0, 0, <<Screen[1], layout.top>>) \in IntRect
    BY LayoutIs, RectTyped
  <2> QED BY <2>1, <2>2 DEF NoGo
<1>2. \A o \in PutThing : put[o] \in IntRect
  BY SizedTyped DEF PlaceInv
<1> QED BY <1>1, <1>2 DEF UsedBut

(* The areas that are searched. *)
LEMMA WholeIs ==
    ASSUME PlaceInv, NEW size \in Int \X Int
    PROVE  /\ WholeScreen(size) \in IntRect /\ WholeScreen(size).x = 0 /\ WholeScreen(size).y = 0
           /\ WholeScreen(size).w = Screen[1] - size[1] /\ WholeScreen(size).h = Screen[2] - size[2]
<1>1. Screen[1] - size[1] \in Int /\ Screen[2] - size[2] \in Int
  BY LayoutIs, SizeIs
<1> QED BY <1>1, RectTyped DEF WholeScreen

LEMMA MonitorIs ==
    ASSUME PlaceInv, NEW size \in Int \X Int, NEW m \in layout.monitors
    PROVE  /\ OnMonitor(m, size) \in IntRect /\ OnMonitor(m, size).x >= 0 /\ OnMonitor(m, size).y >= 0
           /\ OnMonitor(m, size).x + OnMonitor(m, size).w <= Screen[1] - size[1]
           /\ OnMonitor(m, size).y + OnMonitor(m, size).h <= Screen[2] - size[2]
<1>1. m.x \in Nat /\ m.y \in Nat /\ m.w \in Nat /\ m.h \in Nat /\ size[1] \in Int /\ size[2] \in Int
      /\ m.x + m.w <= Screen[1] /\ m.y + m.h <= Screen[2] /\ Screen[1] \in Nat /\ Screen[2] \in Nat
  BY LayoutIs, SizeIs
<1>2. m.w - size[1] \in Int /\ m.h - size[2] \in Int
  BY <1>1
<1>3. /\ OnMonitor(m, size) \in IntRect /\ OnMonitor(m, size).x = m.x /\ OnMonitor(m, size).y = m.y
      /\ OnMonitor(m, size).w = m.w - size[1] /\ OnMonitor(m, size).h = m.h - size[2]
  BY <1>1, <1>2, RectTyped DEF OnMonitor
<1> QED BY <1>1, <1>3

(* The box goes over the edge only when it is searched back from the start.*)
Beyond(size, going, dx, dy, from) ==
    \/ going = "down" /\ dx < 0 /\ from + size[1] \div 2 > Screen[1]
    \/ going = "across" /\ dy < 0 /\ layout.top + from + size[2] \div 2 > Screen[2]

LEMMA BoxIs ==
    ASSUME PlaceInv, NEW size \in Nat \X Nat, NEW going, NEW dx \in Int, NEW dy \in Int, NEW from \in Nat
    PROVE  LET box == StartBox(size, going, dx, dy, from) IN
           /\ box \in IntRect /\ box.x >= 0 /\ box.y >= 0
           /\ Beyond(size, going, dx, dy, from)
              \/ (box.x + box.w <= Screen[1] - size[1] /\ box.y + box.h <= Screen[2] - size[2])
<1> DEFINE a == size[1]  b == size[2]  c == size[1] \div 2  d == size[2] \div 2
           S == Screen[1]  T == Screen[2]  top == layout.top  high == Screen[2] - layout.top
           Fits(box) == /\ box \in IntRect /\ box.x >= 0 /\ box.y >= 0
                        /\ Beyond(size, going, dx, dy, from)
                           \/ (box.x + box.w <= S - a /\ box.y + box.h <= T - b)
           Box(x, y, w, h) == Rect(x, y, <<w - a, h - b>>)
<1>1. a \in Nat /\ b \in Nat /\ S \in Nat /\ T \in Nat /\ top \in Nat
  BY LayoutIs
<1>2. c \in Nat /\ d \in Nat /\ 2 * c <= a /\ a <= 2 * c + 1 /\ 2 * d <= b /\ b <= 2 * d + 1 /\ high = T - top
  BY <1>1
<1>3. StartBox(size, going, dx, dy, from) =
        CASE going = "down" /\ dx > 0 /\ from - c > 0 /\ S - from > 0 ->
               Box(from - c, top, S - from, high)
          [] going = "down" /\ dx < 0 -> Box(0, top, from + c, high)
          [] going = "across" /\ dy > 0 /\ from - d > top /\ high - from > 0 ->
               Box(0, from - d, S, high - from)
          [] going = "across" /\ dy < 0 -> Box(0, top, S, from + d)
          [] OTHER -> Box(0, top, S, high)
  BY DEF StartBox
<1>4. Beyond(size, going, dx, dy, from) <=>
         \/ going = "down" /\ dx < 0 /\ from + c > S
         \/ going = "across" /\ dy < 0 /\ top + from + d > T
  BY DEF Beyond
<1> HIDE DEF a, b, c, d, S, T, top, high
<1>5. ASSUME NEW x \in Int, NEW y \in Int, NEW w \in Int, NEW h \in Int, x >= 0, y >= 0,
             Beyond(size, going, dx, dy, from) \/ (x + w <= S /\ y + h <= T)
      PROVE  Fits(Box(x, y, w, h))
  <2> DEFINE q == Rect(x, y, <<w - a, h - b>>)
  <2>9. w - a \in Int /\ h - b \in Int
    BY <1>1
  <2>1. q \in IntRect /\ q.x = x /\ q.y = y /\ q.w = w - a /\ q.h = h - b
    BY <2>9, RectTyped
  <2> HIDE DEF q
  <2>2. Beyond(size, going, dx, dy, from) \/ (q.x + q.w <= S - a /\ q.y + q.h <= T - b)
    BY <2>1, <1>1, <1>5
  <2>3. Fits(q)
    BY <2>1, <2>2, <1>5
  <2> QED BY <2>3 DEF q
<1> HIDE DEF Box, Fits
<1>6. Fits(StartBox(size, going, dx, dy, from))
  <2>1. CASE going = "down" /\ dx > 0 /\ from - c > 0 /\ S - from > 0
    <3>1. /\ from - c \in Int /\ top \in Int /\ S - from \in Int /\ high \in Int
          /\ from - c >= 0 /\ top >= 0 /\ (from - c) + (S - from) <= S /\ top + high <= T
      BY <1>1, <1>2, <2>1
    <3> QED BY <3>1, <2>1, <1>3, <1>5
  <2>2. CASE going = "down" /\ dx < 0
    <3>1. /\ from + c \in Int /\ top \in Int /\ high \in Int
          /\ top >= 0 /\ top + high <= T
          /\ Beyond(size, going, dx, dy, from) \/ 0 + (from + c) <= S
      BY <1>1, <1>2, <1>4, <2>2
    <3>2. Fits(Box(0, top, from + c, high))
      BY <3>1, <1>5
    <3>3. StartBox(size, going, dx, dy, from) = Box(0, top, from + c, high)
      BY <2>2, <1>3
    <3> QED BY <3>2, <3>3
  <2>3. CASE going = "across" /\ dy > 0 /\ from - d > top /\ high - from > 0
    <3>1. /\ from - d \in Int /\ S \in Int /\ high - from \in Int
          /\ from - d >= 0 /\ 0 + S <= S /\ (from - d) + (high - from) <= T
      BY <1>1, <1>2, <2>3
    <3>2. Fits(Box(0, from - d, S, high - from))
      BY <3>1, <1>5
    <3>3. StartBox(size, going, dx, dy, from) = Box(0, from - d, S, high - from)
      BY <2>3, <1>3
    <3> QED BY <3>2, <3>3
  <2>4. CASE going = "across" /\ dy < 0
    <3>1. /\ from + d \in Int /\ top \in Int /\ S \in Int
          /\ top >= 0 /\ 0 + S <= S
          /\ Beyond(size, going, dx, dy, from) \/ top + (from + d) <= T
      BY <1>1, <1>2, <1>4, <2>4
    <3>2. Fits(Box(0, top, S, from + d))
      BY <3>1, <1>5
    <3>3. StartBox(size, going, dx, dy, from) = Box(0, top, S, from + d)
      BY <2>4, <1>3
    <3> QED BY <3>2, <3>3
  <2>5. CASE /\ ~(going = "down" /\ dx > 0 /\ from - c > 0 /\ S - from > 0) /\ ~(going = "down" /\ dx < 0)
             /\ ~(going = "across" /\ dy > 0 /\ from - d > top /\ high - from > 0) /\ ~(going = "across" /\ dy < 0)
    <3>1. top \in Int /\ S \in Int /\ high \in Int /\ top >= 0 /\ 0 + S <= S /\ top + high <= T
      BY <1>1, <1>2
    <3>2. Fits(Box(0, top, S, high))
      BY <3>1, <1>5
    <3>3. StartBox(size, going, dx, dy, from) = Box(0, top, S, high)
      BY <2>5, <1>3
    <3> QED BY <3>2, <3>3
  <2> QED BY <2>1, <2>2, <2>3, <2>4, <2>5
<1> QED BY <1>6 DEF Fits, S, T, a, b

SizedAs(r, size) == r \in IntRect /\ r.w = size[1] /\ r.h = size[2]

(* A search, of a monitor, of the box and then of the whole screen, finds *)
(* a place that is free when the whole screen has one, and then on the *)
(* screen unless it goes over the edge of its box. *)
LEMMA FoundIs ==
    ASSUME PlaceInv, NEW t, NEW size \in Nat \X Nat, NEW corner, NEW going, NEW from \in Nat,
           NEW m \in layout.monitors
    PROVE  LET r == FoundFor(t, size, corner, going, from, m)
               dx == Stepping(corner).dx
               dy == Stepping(corner).dy IN
           /\ SizedAs(r, size)
           /\ FreePlaces(size, UsedBut(t), dx, dy, WholeScreen(size)) # {} =>
                /\ Apart(r, UsedBut(t))
                /\ NoSearchMade(from) \/ (from > 0 /\ Beyond(size, going, dx, dy, from))
                   \/ (0 <= r.x /\ r.x <= Screen[1] - size[1] /\ 0 <= r.y /\ r.y <= Screen[2] - size[2])
<1> DEFINE dx == Stepping(corner).dx  dy == Stepping(corner).dy  used == UsedBut(t)
           Search(area) == SearchFree(size, used, going, dx, dy, area)
           FreeIn(area) == FreePlaces(size, used, dx, dy, area)
           whole == WholeScreen(size)
           box == StartBox(size, going, dx, dy, from)
           mon == OnMonitor(m, size)
           many == Cardinality(layout.monitors) > 1
           over == NoSearchMade(from) \/ (from > 0 /\ Beyond(size, going, dx, dy, from))
           In(r) == 0 <= r.x /\ r.x <= Screen[1] - size[1] /\ 0 <= r.y /\ r.y <= Screen[2] - size[2]
           Good(r) == r \in IntRect /\ r.w = size[1] /\ r.h = size[2] /\ Apart(r, used)
<1>1. dx \in Int /\ dy \in Int /\ size \in Int \X Int
  BY SteppingIs
<1>2. size[1] \in Nat /\ size[2] \in Nat /\ size = <<size[1], size[2]>> /\ Screen[1] \in Nat /\ Screen[2] \in Nat
  BY LayoutIs
<1>3. ASSUME NEW area \in IntRect
      PROVE  /\ FreeIn(area) = {} => Search(area) = Rect(-1, -1, size)
             /\ FreeIn(area) # {} => Search(area) \in FreeIn(area)
  BY <1>1, SearchFinds
<1>4. ASSUME NEW area \in IntRect, NEW r \in FreeIn(area)
      PROVE  /\ Good(r) /\ r.x \in area.x..(area.x + area.w) /\ r.y \in area.y..(area.y + area.h)
             /\ area.x \in Int /\ area.y \in Int /\ area.w \in Int /\ area.h \in Int
  <2>1. /\ r \in IntRect /\ Apart(r, used) /\ r.w = size[1] /\ r.h = size[2]
        /\ r.x \in area.x..(area.x + area.w) /\ r.y \in area.y..(area.y + area.h)
    BY <1>1, FreeIs
  <2> QED BY <2>1 DEF IntRect
<1>5. /\ whole \in IntRect /\ whole.x = 0 /\ whole.y = 0
      /\ whole.w = Screen[1] - size[1] /\ whole.h = Screen[2] - size[2]
  BY <1>1, WholeIs
<1>6. /\ mon \in IntRect /\ mon.x >= 0 /\ mon.y >= 0
      /\ mon.x + mon.w <= Screen[1] - size[1] /\ mon.y + mon.h <= Screen[2] - size[2]
  BY <1>1, MonitorIs
<1>7. /\ box \in IntRect /\ box.x >= 0 /\ box.y >= 0
      /\ Beyond(size, going, dx, dy, from)
         \/ (box.x + box.w <= Screen[1] - size[1] /\ box.y + box.h <= Screen[2] - size[2])
  BY <1>1, BoxIs
<1>8. /\ Rect(-1, -1, size) \in IntRect /\ Rect(-1, -1, size).x = -1
      /\ Rect(-1, -1, size).w = size[1] /\ Rect(-1, -1, size).h = size[2]
      /\ Rect(0, 0, size) \in IntRect /\ Rect(0, 0, size).x = 0
      /\ Rect(0, 0, size).w = size[1] /\ Rect(0, 0, size).h = size[2]
  BY <1>2, RectTyped
<1>9. FoundFor(t, size, corner, going, from, m) =
        LET r == SearchAll(size, used, going, dx, dy, from, m) IN IF r.x = -1 THEN Rect(0, 0, size) ELSE r
  BY DEF FoundFor
<1> DEFINE near == IF many THEN Search(mon) ELSE IF from > 0 THEN Search(box) ELSE NoRect
           all == IF near.x # -1 THEN near ELSE Search(whole)
<1>10. SearchAll(size, used, going, dx, dy, from, m) = all
  BY DEF SearchAll
<1>11. NoRect.x = -1
  BY RectTyped DEF NoRect
<1>12. many /\ from > 0 => over
  BY DEF NoSearchMade
<1> HIDE DEF dx, dy, used, Search, FreeIn, whole, box, mon, Good, many
<1>13. near.x # -1 => Good(near) /\ (over \/ In(near))
  <2>1. CASE many
    <3>1. near = Search(mon)
      BY <2>1
    <3>2. ASSUME FreeIn(mon) # {} PROVE Good(near) /\ In(near)
      <4>1. near \in FreeIn(mon)
        BY <1>3, <1>6, <3>1, <3>2
      <4>2. /\ Good(near) /\ near.x \in mon.x..(mon.x + mon.w) /\ near.y \in mon.y..(mon.y + mon.h)
            /\ mon.x \in Int /\ mon.y \in Int /\ mon.w \in Int /\ mon.h \in Int
        BY <1>4, <1>6, <4>1
      <4> HIDE DEF near
      <4> QED BY <4>2, <1>6, <1>2
    <3> QED BY <3>1, <3>2, <1>3, <1>6, <1>8
  <2>2. CASE ~many /\ from > 0
    <3>1. near = Search(box)
      BY <2>2
    <3>2. ASSUME FreeIn(box) # {} PROVE Good(near) /\ (over \/ In(near))
      <4>1. near \in FreeIn(box)
        BY <1>3, <1>7, <3>1, <3>2
      <4>2. /\ Good(near) /\ near.x \in box.x..(box.x + box.w) /\ near.y \in box.y..(box.y + box.h)
            /\ box.x \in Int /\ box.y \in Int /\ box.w \in Int /\ box.h \in Int
        BY <1>4, <1>7, <4>1
      <4> HIDE DEF near
      <4>3. Beyond(size, going, dx, dy, from) \/ In(near)
        BY <4>2, <1>7, <1>2
      <4> QED BY <4>2, <4>3, <2>2
    <3> QED BY <3>1, <3>2, <1>3, <1>7, <1>8
  <2>3. CASE ~many /\ ~(from > 0)
    BY <2>3, <1>11
  <2> QED BY <2>1, <2>2, <2>3
<1>14. ASSUME FreeIn(whole) # {} PROVE Good(Search(whole)) /\ In(Search(whole)) /\ Search(whole).x # -1
  <2> DEFINE r == Search(whole)
  <2>1. r \in FreeIn(whole)
    BY <1>3, <1>5, <1>14
  <2>2. Good(r) /\ r.x \in whole.x..(whole.x + whole.w) /\ r.y \in whole.y..(whole.y + whole.h)
    BY <1>4, <1>5, <2>1
  <2> HIDE DEF r
  <2>3. Good(r) /\ In(r) /\ r.x # -1
    BY <2>2, <1>5, <1>2
  <2> QED BY <2>3 DEF r
<1>15. FreeIn(whole) # {} => Good(all) /\ (over \/ In(all)) /\ all.x # -1
  <2> HIDE DEF near, In
  <2> QED BY <1>13, <1>14
<1>16. Good(all) \/ all = Rect(-1, -1, size)
  <2> HIDE DEF near, In
  <2> QED BY <1>13, <1>14, <1>3, <1>5
<1> DEFINE r == FoundFor(t, size, corner, going, from, m)
<1>17. r = IF all.x = -1 THEN Rect(0, 0, size) ELSE all
  BY <1>9, <1>10
<1> HIDE DEF r, all, In, over
<1>18. SizedAs(r, size)
  BY <1>16, <1>17, <1>8 DEF Good, SizedAs
<1>19. FreeIn(whole) # {} => Apart(r, used) /\ (over \/ In(r))
  BY <1>15, <1>17 DEF Good
<1> QED BY <1>18, <1>19 DEF r, FreeIn, In, over, used, whole, dx, dy

LEMMA FoundTyped ==
    ASSUME PlaceInv, NEW t, NEW size \in Nat \X Nat, NEW corner, NEW going, NEW from \in Nat,
           NEW m \in layout.monitors
    PROVE  /\ FoundFor(t, size, corner, going, from, m) \in SizedRect
           /\ FoundFor(t, size, corner, going, from, m).w = size[1]
           /\ FoundFor(t, size, corner, going, from, m).h = size[2]
<1> DEFINE r == FoundFor(t, size, corner, going, from, m)
<1>0. SizedAs(r, size)
  BY FoundIs
<1> HIDE DEF r
<1>1. r \in IntRect /\ r.w = size[1] /\ r.h = size[2]
  BY <1>0 DEF SizedAs
<1>2. size[1] \in Nat /\ size[2] \in Nat
  OBVIOUS
<1>3. r \in SizedRect /\ r.w = size[1] /\ r.h = size[2]
  BY <1>1, <1>2, SizedTyped
<1> QED BY <1>3 DEF r

(* snap_to_grid moves a point by at most half a step. *)
LEMMA SnapIs == ASSUME NEW v \in Nat
                PROVE Snap(v) \in Int /\ Snap(v) - v <= GridStep \div 2 /\ v - Snap(v) <= GridStep \div 2
<1> DEFINE n == GridStep  g == GridStep \div 2  u == v + GridStep \div 2  k == (v + GridStep \div 2) \div GridStep
<1>1. n \in Nat /\ n > 0 /\ g \in Nat /\ n <= 2 * g + 1 /\ u \in Nat /\ u = v + g
  BY PlacementAssumption
<1>2. Snap(v) = k * n
  BY <1>1 DEF Snap, Quotient
<1>3. k \in Int /\ k * n \in Int /\ k * n <= u /\ u < k * n + n
  <2> HIDE DEF n, u
  <2>1. u \div n \in Int /\ (u \div n) * n \in Int /\ (u \div n) * n <= u /\ u < (u \div n) * n + n
    BY <1>1
  <2> QED BY <2>1 DEF n, u
<1> HIDE DEF n, g, u, k
<1>4. Snap(v) \in Int /\ Snap(v) - v <= g /\ v - Snap(v) <= g
  <2> DEFINE p == k * n
  <2>1. p \in Int /\ p <= u /\ u < p + n /\ Snap(v) = p
    BY <1>2, <1>3
  <2> HIDE DEF p
  <2> QED BY <2>1, <1>1
<1> QED BY <1>4 DEF g

LEMMA SnapTyped == ASSUME NEW v \in Int PROVE Snap(v) \in Int
<1> DEFINE u == v + GridStep \div 2
<1>1. GridStep \in Nat /\ GridStep > 0 /\ u \in Int
  BY PlacementAssumption
<1> HIDE DEF u
<1>2. Quotient(u, GridStep) \in Int
  BY <1>1 DEF Quotient
<1> DEFINE q == Quotient(u, GridStep)
<1>3. q \in Int
  BY <1>2
<1>4. Snap(v) = q * GridStep
  BY DEF Snap, u
<1> HIDE DEF q
<1> QED BY <1>1, <1>3, <1>4

(* offset_from_centre: the rectangle, and where it may be. *)
LEMMA AroundTyped ==
    ASSUME PlaceInv, NEW x \in Int, NEW y \in Int, NEW size \in Int \X Int
    PROVE  LET q == Around(x, y, size) IN
           /\ q \in IntRect /\ q.w = size[1] /\ q.h = size[2]
           /\ q.x = Clamped(x - size[1] \div 2, Screen[1] - (IF layout.clamp THEN size[1] ELSE 0))
           /\ q.y = Clamped(y - size[2] \div 2, Screen[2] - (IF layout.clamp THEN size[2] ELSE 0))
<1> DEFINE hx == Screen[1] - (IF layout.clamp THEN size[1] ELSE 0)
           hy == Screen[2] - (IF layout.clamp THEN size[2] ELSE 0)
           cx == Clamped(x - size[1] \div 2, hx)
           cy == Clamped(y - size[2] \div 2, hy)
<1>1. size[1] \in Int /\ size[2] \in Int /\ size = <<size[1], size[2]>> /\ hx \in Int /\ hy \in Int
      /\ size[1] \div 2 \in Int /\ size[2] \div 2 \in Int
  BY LayoutIs
<1>2. Around(x, y, size) = Rect(cx, cy, size)
  BY DEF Around
<1> HIDE DEF hx, hy
<1>3. cx \in Int /\ cy \in Int
  BY <1>1 DEF Clamped, Most
<1> HIDE DEF cx, cy
<1>4. Rect(cx, cy, size) \in IntRect /\ Rect(cx, cy, size).x = cx /\ Rect(cx, cy, size).y = cy
      /\ Rect(cx, cy, size).w = size[1] /\ Rect(cx, cy, size).h = size[2]
  BY <1>1, <1>3, RectTyped
<1> QED BY <1>2, <1>4 DEF cx, cy, hx, hy

(* On one axis: a place from v, a wide, that is on a screen S wide, is *)
(* centred and snapped, framed by b and kept on the screen: each side has *)
(* moved out by at most the frame and the larger of it and half a step. *)
LEMMA FramedAlong ==
    ASSUME NEW S \in Nat, NEW a \in Nat, NEW b \in Nat, NEW v \in Int, 0 <= v, v <= S - a,
           NEW g \in Nat, NEW c \in Int, c - (v + a \div 2) <= g, (v + a \div 2) - c <= g,
           NEW hi \in Int, hi = S \/ hi = S - (a + 2 * b)
    PROVE  LET p == Clamped(c - (a + 2 * b) \div 2, hi)
               k == b + Most(b, g) IN
           v - p <= k /\ p + (a + 2 * b) - (v + a) <= k
<1> DEFINE d == a \div 2  p0 == c - (a + 2 * b) \div 2
<1>1. d \in Nat /\ (a + 2 * b) \div 2 = d + b
  OBVIOUS
<1>2. p0 = c - d - b /\ c - (v + d) <= g /\ (v + d) - c <= g
  BY <1>1
<1>3. v - p0 <= b + g /\ p0 + 2 * b - v <= b + g /\ p0 \in Int
  BY <1>1, <1>2
<1> HIDE DEF p0
<1>4. LET p == Clamped(p0, hi)
          k == b + Most(b, g) IN
      v - p <= k /\ p + (a + 2 * b) - (v + a) <= k
  <2>1. v - hi <= 2 * b
    OBVIOUS
  <2>2. CASE p0 > hi
    BY <1>3, <2>1, <2>2 DEF Clamped, Most
  <2>3. CASE ~(p0 > hi)
    BY <1>3, <2>3 DEF Clamped, Most
  <2> QED BY <2>2, <2>3
<1> QED BY <1>4 DEF p0

--------------------
(* The types are kept. *)

LEMMA PlaceInvInit == PlacementInit => PlaceInv
<1>1. NoRect \in SizedRect
  BY DEF NoRect, Rect, SizedRect
<1> QED BY <1>1 DEF PlacementInit, PlaceInv

(* Icons, and what they are pinned at, are of the sizes there are. *)
LEMMA AskedIs ==
    /\ \A s \in IconSizes : s \in Nat \X Nat
    /\ \A s \in ButtonSizes : s \in Nat \X Nat
    /\ \A a \in AskedPlaces \cup Spots : a[1] \in Int /\ a[2] \in Int
  BY PlacementAssumption

(* What is put around a point. *)
LEMMA AroundSized ==
    ASSUME PlaceInv, NEW x \in Int, NEW y \in Int, NEW size \in Nat \X Nat
    PROVE  Around(x, y, size) \in SizedRect
<1>1. size \in Int \X Int /\ size[1] \in Nat /\ size[2] \in Nat
  OBVIOUS
<1>2. Around(x, y, size) \in IntRect /\ Around(x, y, size).w = size[1] /\ Around(x, y, size).h = size[2]
  BY <1>1, AroundTyped
<1> QED BY <1>1, <1>2, SizedTyped

LEMMA FramedIs == ASSUME NEW size \in Nat \X Nat
                  PROVE /\ Framed(size) \in Nat \X Nat
                        /\ Framed(size)[1] = size[1] + 2 * ButtonFrame
                        /\ Framed(size)[2] = size[2] + 2 * ButtonFrame
  BY PlacementAssumption DEF Framed

LEMMA PinToTyped ==
    ASSUME PlaceInv, NEW i \in PinnedIcon, NEW x \in Int, NEW y \in Int, NEW size \in Nat \X Nat,
           PinTo(i, x, y, size)
    PROVE  PlaceInv'
<1>1. Snap(x) \in Int /\ Snap(y) \in Int
  BY SnapTyped
<1>2. Around(Snap(x), Snap(y), Framed(size)) \in SizedRect
  BY <1>1, FramedIs, AroundSized
<1>3. put' \in [PutThing -> SizedRect]
  BY <1>2 DEF PinTo, PlaceInv
<1>4. centre' \in [PinnedIcon -> Int \X Int]
  BY <1>1 DEF PinTo, PlaceInv
<1> QED BY <1>3, <1>4 DEF PinTo, PlaceInv

LEMMA StartIs == ASSUME NEW x \in Int, NEW y \in Int PROVE StartAsked(x, y) \in Nat
  BY DEF StartAsked

(* pinboard_add_widget: where the button is put, and what is remembered. *)
Kept(w, size) == IF placed[TitleOf[w]] = NoRect THEN size ELSE <<placed[TitleOf[w]].w, placed[TitleOf[w]].h>>
FitsOld(w, size) ==
    LET old == placed[TitleOf[w]] IN
    old # NoRect /\ old.w >= size[1] /\ old.h >= size[2] /\ Apart(old, UsedBut(w))
ButtonAt(w, size, m) ==
    IF FitsOld(w, size) THEN placed[TitleOf[w]]
    ELSE FoundFor(w, Kept(w, size), layout.start, layout.going, 0, m)

LEMMA IconifyIs ==
    ASSUME PlaceInv, NEW w \in Iconified, Iconify(w)
    PROVE  \E size \in ButtonSizes, m \in layout.monitors :
              LET r == ButtonAt(w, size, m) IN
              /\ size \in Nat \X Nat /\ Kept(w, size) \in Nat \X Nat /\ placed[TitleOf[w]] \in SizedRect
              /\ r \in SizedRect
              /\ put' = [put EXCEPT ![w] = Rect(r.x, r.y, size)]
              /\ placed' = [placed EXCEPT ![TitleOf[w]] = r]
<1>1. PICK size \in ButtonSizes, m \in layout.monitors :
         LET old  == placed[TitleOf[w]]
             fits == old # NoRect /\ old.w >= size[1] /\ old.h >= size[2] /\ Apart(old, UsedBut(w))
             kept == IF old = NoRect THEN size ELSE <<old.w, old.h>>
             r    == IF fits THEN old ELSE FoundFor(w, kept, layout.start, layout.going, 0, m)
         IN  /\ put' = [put EXCEPT ![w] = Rect(r.x, r.y, size)]
             /\ placed' = [placed EXCEPT ![TitleOf[w]] = r]
  BY DEF Iconify
<1>2. LET r == ButtonAt(w, size, m) IN
      put' = [put EXCEPT ![w] = Rect(r.x, r.y, size)] /\ placed' = [placed EXCEPT ![TitleOf[w]] = r]
  BY <1>1 DEF ButtonAt, FitsOld, Kept
<1>3. size \in Nat \X Nat /\ placed[TitleOf[w]] \in SizedRect
  BY AskedIs DEF PlaceInv
<1>4. Kept(w, size) \in Nat \X Nat
  BY <1>3 DEF Kept, SizedRect
<1>5. ButtonAt(w, size, m) \in SizedRect
  <2> DEFINE f == FoundFor(w, Kept(w, size), layout.start, layout.going, 0, m)
  <2>1. 0 \in Nat
    OBVIOUS
  <2>2. f \in SizedRect
    BY <2>1, <1>4, FoundTyped, Zenon
  <2> HIDE DEF f
  <2>3. ButtonAt(w, size, m) = IF FitsOld(w, size) THEN placed[TitleOf[w]] ELSE f
    BY DEF ButtonAt, f
  <2> QED BY <2>2, <2>3, <1>3
<1> QED BY <1>2, <1>3, <1>4, <1>5

LEMMA IconifyTyped == ASSUME PlaceInv, NEW w \in Iconified, Iconify(w) PROVE PlaceInv'
<1>1. PICK size \in ButtonSizes, m \in layout.monitors :
         /\ size \in Nat \X Nat /\ ButtonAt(w, size, m) \in SizedRect
         /\ put' = [put EXCEPT ![w] = Rect(ButtonAt(w, size, m).x, ButtonAt(w, size, m).y, size)]
         /\ placed' = [placed EXCEPT ![TitleOf[w]] = ButtonAt(w, size, m)]
  BY IconifyIs
<1>2. Rect(ButtonAt(w, size, m).x, ButtonAt(w, size, m).y, size) \in SizedRect
  BY <1>1 DEF SizedRect, Rect
<1>3. put' \in [PutThing -> SizedRect] /\ placed' \in [{TitleOf[v] : v \in Iconified} -> SizedRect]
  BY <1>1, <1>2 DEF PlaceInv
<1> QED BY <1>3 DEF PlaceInv, Iconify

LEMMA DragTyped ==
    ASSUME PlaceInv, NEW w \in Iconified, NEW x \in Int, NEW y \in Int, DragButton(w, x, y) PROVE PlaceInv'
<1>1. put[w] \in SizedRect /\ placed[TitleOf[w]] \in SizedRect
  BY DEF PlaceInv, PutThing
<1>2. /\ Rect(x, y, <<put[w].w, put[w].h>>) \in SizedRect
      /\ Rect(x, y, <<placed[TitleOf[w]].w, placed[TitleOf[w]].h>>) \in SizedRect
  BY <1>1 DEF Rect, SizedRect
<1>3. put' = [put EXCEPT ![w] = Rect(x, y, <<put[w].w, put[w].h>>)]
      /\ placed' = [placed EXCEPT ![TitleOf[w]] = Rect(x, y, <<placed[TitleOf[w]].w, placed[TitleOf[w]].h>>)]
  BY DEF DragButton, PlaceInv
<1>4. put' \in [PutThing -> SizedRect] /\ placed' \in [{TitleOf[v] : v \in Iconified} -> SizedRect]
  BY <1>2, <1>3 DEF PlaceInv
<1> QED BY <1>4 DEF PlaceInv, DragButton

LEMMA PinAgainTyped ==
    ASSUME PlaceInv, NEW i \in PinnedIcon, NEW x \in Int, NEW y \in Int, PinAgain(i, x, y) PROVE PlaceInv'
<1> DEFINE nx == Snap(IF x < 0 THEN centre[i][1] ELSE x)
           ny == Snap(IF y < 0 THEN centre[i][2] ELSE y)
           size == <<put[i].w, put[i].h>>
<1>1. centre[i] \in Int \X Int /\ put[i] \in SizedRect
  BY DEF PlaceInv, PutThing
<1>2. (IF x < 0 THEN centre[i][1] ELSE x) \in Int /\ (IF y < 0 THEN centre[i][2] ELSE y) \in Int
  BY <1>1
<1>3. nx \in Int /\ ny \in Int
  BY <1>2, SnapTyped
<1>4. size \in Nat \X Nat
  BY <1>1 DEF SizedRect
<1>5. centre' = [centre EXCEPT ![i] = <<nx, ny>>] /\ put' = [put EXCEPT ![i] = Around(nx, ny, size)]
  BY DEF PinAgain
<1> HIDE DEF nx, ny, size
<1>6. Around(nx, ny, size) \in SizedRect
  BY <1>3, <1>4, AroundSized
<1>7. put' \in [PutThing -> SizedRect] /\ centre' \in [PinnedIcon -> Int \X Int]
  BY <1>3, <1>5, <1>6 DEF PlaceInv
<1> QED BY <1>7 DEF PlaceInv, PinAgain

LEMMA ReshapeTyped == ASSUME PlaceInv, NEW i \in PinnedIcon, Reshape(i) PROVE PlaceInv'
<1>1. PICK size \in IconSizes : put' = [put EXCEPT ![i] = Around(centre[i][1], centre[i][2], Framed(size))]
  BY DEF Reshape
<1>2. centre[i][1] \in Int /\ centre[i][2] \in Int
  <2>1. centre[i] \in Int \X Int
    BY DEF PlaceInv
  <2> QED BY <2>1
<1>3. Around(centre[i][1], centre[i][2], Framed(size)) \in SizedRect
  BY <1>2, AskedIs, FramedIs, AroundSized
<1>4. put' \in [PutThing -> SizedRect]
  BY <1>1, <1>3 DEF PlaceInv
<1> QED BY <1>4 DEF PlaceInv, Reshape

LEMMA DragIconsTyped ==
    ASSUME PlaceInv, NEW i \in PinnedIcon, NEW S \in SUBSET PinnedIcon, NEW x \in Int, NEW y \in Int,
           DragIcons(i, S, x, y)
    PROVE  PlaceInv'
<1> DEFINE dx == Snap(x) - centre[i][1]
           dy == Snap(y) - centre[i][2]
           to == [j \in S |-> <<centre[j][1] + dx, centre[j][2] + dy>>]
<1>1. centre' = [j \in PinnedIcon |-> IF j \in S THEN to[j] ELSE centre[j]]
      /\ put' = [t \in PutThing |->
                   IF t \in S THEN Around(to[t][1], to[t][2], <<put[t].w, put[t].h>>) ELSE put[t]]
  BY DEF DragIcons
<1>2. \A j \in PinnedIcon : centre[j] \in Int \X Int /\ centre[j][1] \in Int /\ centre[j][2] \in Int
  <2>1. \A j \in PinnedIcon : centre[j] \in Int \X Int
    BY DEF PlaceInv
  <2> QED BY <2>1
<1>3. dx \in Int /\ dy \in Int
  BY <1>2, SnapTyped
<1> HIDE DEF dx, dy
<1>4. \A j \in S : to[j] \in Int \X Int /\ to[j][1] \in Int /\ to[j][2] \in Int
  BY <1>2, <1>3
<1> HIDE DEF to
<1>5. \A t \in PutThing : put[t] \in SizedRect /\ <<put[t].w, put[t].h>> \in Nat \X Nat
  BY DEF PlaceInv, SizedRect
<1>6. \A t \in S : Around(to[t][1], to[t][2], <<put[t].w, put[t].h>>) \in SizedRect
  BY <1>4, <1>5, AroundSized DEF PutThing
<1>7. put' \in [PutThing -> SizedRect]
  BY <1>1, <1>5, <1>6
<1>8. centre' \in [PinnedIcon -> Int \X Int]
  BY <1>1, <1>2, <1>4
<1> QED BY <1>7, <1>8 DEF PlaceInv, DragIcons

LEMMA PinTyped ==
    ASSUME PlaceInv, NEW i \in PinnedIcon, NEW x \in Int, NEW y \in Int,
           PinAt(i, x, y) \/ PinSomewhere(i, x, y) \/ PinAnywhere(i, x, y)
    PROVE  PlaceInv'
<1>1. CASE PinAt(i, x, y)
  <2>1. PICK size \in IconSizes : PinTo(i, x, y, size)
    BY <1>1 DEF PinAt
  <2> QED BY <2>1, AskedIs, PinToTyped
<1>2. CASE PinSomewhere(i, x, y)
  <2>1. PICK size \in IconSizes, m \in layout.monitors :
          LET r == FoundFor(i, size, CornerAsked(x, y), GoingAsked(x, y), StartAsked(x, y), m)
          IN  PinTo(i, r.x + size[1] \div 2, r.y + size[2] \div 2, size)
    BY <1>2 DEF PinSomewhere
  <2> DEFINE r == FoundFor(i, size, CornerAsked(x, y), GoingAsked(x, y), StartAsked(x, y), m)
  <2>2. size \in Nat \X Nat
    BY AskedIs
  <2>3. r \in SizedRect
    BY <2>2, StartIs, FoundTyped
  <2>4. PinTo(i, r.x + size[1] \div 2, r.y + size[2] \div 2, size)
    BY <2>1
  <2> HIDE DEF r
  <2>5. r.x + size[1] \div 2 \in Int /\ r.y + size[2] \div 2 \in Int
    BY <2>2, <2>3 DEF SizedRect
  <2> QED BY <2>2, <2>4, <2>5, PinToTyped
<1>3. CASE PinAnywhere(i, x, y)
  <2>1. PICK size \in IconSizes, spot \in Spots : PinTo(i, spot[1], spot[2], size)
    BY <1>3 DEF PinAnywhere
  <2> QED BY <2>1, AskedIs, PinToTyped
<1> QED BY <1>1, <1>2, <1>3

LEMMA RemovedTyped ==
    ASSUME PlaceInv, NEW t \in PutThing, put' = [put EXCEPT ![t] = NoRect]
    PROVE  put' \in [PutThing -> SizedRect]
<1>1. NoRect \in SizedRect
  BY DEF NoRect, Rect, SizedRect
<1> QED BY <1>1 DEF PlaceInv

LEMMA PlaceInvStep == ASSUME PlaceInv, PlacementNext PROVE PlaceInv'
<1>1. ASSUME NEW w \in Iconified, NEW s \in Spots, DragButton(w, s[1], s[2]) PROVE PlaceInv'
  BY <1>1, AskedIs, DragTyped
<1>2. ASSUME NEW w \in Iconified, Uniconify(w) PROVE PlaceInv'
  BY <1>2, RemovedTyped DEF Uniconify, PlaceInv, PutThing
<1>3. ASSUME NEW i \in PinnedIcon, NEW a \in AskedPlaces \cup Spots,
             \/ PinSomewhere(i, a[1], a[2]) \/ PinAnywhere(i, a[1], a[2])
             \/ PinAt(i, a[1], a[2]) \/ PinAgain(i, a[1], a[2])
      PROVE  PlaceInv'
  BY <1>3, AskedIs, PinTyped, PinAgainTyped
<1>4. ASSUME NEW i \in PinnedIcon, Reshape(i) PROVE PlaceInv'
  BY <1>4, ReshapeTyped
<1>5. ASSUME NEW i \in PinnedIcon, Unpin(i) PROVE PlaceInv'
  <2>1. put' \in [PutThing -> SizedRect]
    BY <1>5, RemovedTyped DEF Unpin, PutThing
  <2>2. centre' \in [PinnedIcon -> Int \X Int]
    BY <1>5 DEF Unpin, PlaceInv
  <2> QED BY <1>5, <2>1, <2>2 DEF Unpin, PlaceInv
<1>6. ASSUME NEW i \in PinnedIcon, NEW S \in SUBSET PinnedIcon, NEW s \in Spots,
             DragIcons(i, S, s[1], s[2])
      PROVE  PlaceInv'
  BY <1>6, AskedIs, DragIconsTyped
<1>7. ASSUME TogglePanel PROVE PlaceInv'
  BY <1>7 DEF TogglePanel, PlaceInv
<1>8. ASSUME NEW w \in Iconified, Iconify(w) PROVE PlaceInv'
  BY <1>8, IconifyTyped
<1> QED BY <1>1, <1>2, <1>3, <1>4, <1>5, <1>6, <1>7, <1>8 DEF PlacementNext

--------------------
(* What is put by a search is apart. *)

LEMMA UsedKept ==
    ASSUME PlaceInv, NEW t \in PutThing, NEW q, put' = [put EXCEPT ![t] = q],
           layout' = layout, panelShown' = panelShown
    PROVE  UsedBut(t)' = UsedBut(t)
<1>1. \A o \in PutThing \ {t} : put'[o] = put[o]
  BY DEF PlaceInv
<1>2. NoGo' = NoGo
  BY DEF NoGo
<1> QED BY <1>1, <1>2 DEF UsedBut

(* Room on the screen, and what the property says of a thing with it. *)
RoomIn(size, used, dx, dy) ==
    \E x \in Coords(0, Screen[1] - size[1], dx), y \in Coords(0, Screen[2] - size[2], dy) :
        Apart(Rect(x, y, size), used)

LEMMA RoomIs ==
    ASSUME PlaceInv, NEW size \in Nat \X Nat, NEW used, NEW dx \in Int, NEW dy \in Int,
           RoomIn(size, used, dx, dy)
    PROVE  FreePlaces(size, used, dx, dy, WholeScreen(size)) # {}
<1> DEFINE area == WholeScreen(size)
<1>6. PICK x \in Coords(0, Screen[1] - size[1], dx), y \in Coords(0, Screen[2] - size[2], dy) :
         Apart(Rect(x, y, size), used)
  BY DEF RoomIn
<1>1. size \in Int \X Int /\ size[1] \in Int /\ size[2] \in Int /\ Screen[1] \in Int /\ Screen[2] \in Int
  BY LayoutIs
<1>2. area.x = 0 /\ area.y = 0 /\ area.w = Screen[1] - size[1] /\ area.h = Screen[2] - size[2]
  BY <1>1, WholeIs
<1> HIDE DEF area
<1>3. area.x + area.w = Screen[1] - size[1] /\ area.y + area.h = Screen[2] - size[2]
  BY <1>1, <1>2
<1>4. x \in Coords(area.x, area.x + area.w, dx) /\ y \in Coords(area.y, area.y + area.h, dy)
  BY <1>2, <1>3
<1>5. Rect(x, y, size) \in FreePlaces(size, used, dx, dy, area)
  BY <1>4, <1>6 DEF FreePlaces
<1> QED BY <1>5 DEF area

ButtonApart(at, old, used, dx, dy) ==
    old.w < at.w \/ old.h < at.h \/ ~RoomIn(<<old.w, old.h>>, used, dx, dy) \/ Apart(at, used)
IconApart(at, used, dx, dy, over) ==
    \/ ~RoomIn(<<at.w - 2 * ButtonFrame, at.h - 2 * ButtonFrame>>, used, dx, dy)
    \/ over
    \/ \A s \in used : Over(at, s) <= ButtonFrame + Most(ButtonFrame, GridStep \div 2)

LEMMA IconifyApart == ASSUME PlaceInv, NEW w \in Iconified, Iconify(w) PROVE PlacedApart'
<1>1. PICK size \in ButtonSizes, m \in layout.monitors :
         LET r == ButtonAt(w, size, m) IN
         /\ size \in Nat \X Nat /\ Kept(w, size) \in Nat \X Nat /\ placed[TitleOf[w]] \in SizedRect
         /\ r \in SizedRect
         /\ put' = [put EXCEPT ![w] = Rect(r.x, r.y, size)]
         /\ placed' = [placed EXCEPT ![TitleOf[w]] = r]
  BY IconifyIs
<1> DEFINE r == ButtonAt(w, size, m)
           step == Stepping(layout.start)
           used == UsedBut(w)
           kept == Kept(w, size)
           q == Rect(r.x, r.y, size)
<1>2. /\ size \in Nat \X Nat /\ kept \in Nat \X Nat /\ r \in SizedRect
      /\ put' = [put EXCEPT ![w] = q] /\ placed' = [placed EXCEPT ![TitleOf[w]] = r]
  BY <1>1
<1>3. /\ found'.of = w /\ found'.dx = step.dx /\ found'.dy = step.dy
      /\ layout' = layout /\ panelShown' = panelShown
  BY DEF Iconify
<1>4. put'[w] = q /\ placed'[TitleOf[w]] = r
  BY <1>2 DEF PlaceInv, PutThing
<1>5. used' = used
  BY <1>2, <1>3, UsedKept DEF PutThing
<1>6. step.dx \in Int /\ step.dy \in Int
  BY SteppingIs
<1>7. r = IF FitsOld(w, size) THEN placed[TitleOf[w]]
          ELSE FoundFor(w, kept, layout.start, layout.going, 0, m)
  BY DEF ButtonAt
<1>8. used \subseteq IntRect
  BY UsedIs
<1> HIDE DEF r, step, used, kept, q
<1>9. ASSUME Apart(r, used), r.w >= size[1], r.h >= size[2] PROVE Apart(q, used)
  <2>1. r \in IntRect /\ size[1] \in Int /\ size[2] \in Int /\ size = <<size[1], size[2]>>
    BY <1>2, SizedTyped
  <2>2. ASSUME NEW s \in used PROVE Over(q, s) <= 0
    <3>1. s \in IntRect /\ Over(r, s) <= 0
      BY <1>8, <1>9 DEF Apart
    <3>2. Over(Rect(r.x, r.y, <<size[1], size[2]>>), s) <= Over(r, s) /\ Over(r, s) \in Int
      BY <1>9, <2>1, <3>1, OverCut
    <3>3. q = Rect(r.x, r.y, <<size[1], size[2]>>)
      BY <2>1 DEF q
    <3>4. Over(q, s) \in Int
      <4>1. q \in IntRect
        BY <2>1, <3>3, RectTyped DEF IntRect
      <4> QED BY <3>1, <4>1 DEF IntRect, Over, Least, Most
    <3> QED BY <3>1, <3>2, <3>3, <3>4
  <2> QED BY <2>2 DEF Apart
<1>10. ASSUME RoomIn(<<r.w, r.h>>, used, step.dx, step.dy) PROVE Apart(r, used)
  <2>1. CASE FitsOld(w, size)
    BY <1>7, <2>1 DEF FitsOld, used
  <2>2. CASE ~FitsOld(w, size)
    <3>1. r = FoundFor(w, kept, layout.start, layout.going, 0, m) /\ 0 \in Nat
      BY <1>7, <2>2
    <3>2. r.w = kept[1] /\ r.h = kept[2]
      BY <3>1, <1>2, FoundTyped
    <3>3. <<r.w, r.h>> = kept
      BY <3>2, <1>2
    <3>4. FreePlaces(kept, used, step.dx, step.dy, WholeScreen(kept)) # {}
      BY <1>10, <3>3, <1>2, <1>6, RoomIs
    <3> QED BY <3>1, <3>4, <1>2, FoundIs DEF step, used
  <2> QED BY <2>1, <2>2
<1>11. q.w = size[1] /\ q.h = size[2]
  BY DEF q, Rect
<1>12. r.w \in Int /\ r.h \in Int /\ size[1] \in Int /\ size[2] \in Int
  BY <1>2 DEF SizedRect
<1>13. ButtonApart(q, r, used, step.dx, step.dy)
  BY <1>9, <1>10, <1>11, <1>12 DEF ButtonApart
<1>14. used = UsedBut(w)'
  BY <1>5 DEF used
<1>15. w \in Iconified /\ ButtonApart(put'[w], placed'[TitleOf[w]], UsedBut(w)', found'.dx, found'.dy)
  BY <1>3, <1>4, <1>13, <1>14
<1>16. UsedBut(found.of)' = UsedBut(w)'
  BY <1>3 DEF UsedBut
<1>17. /\ found'.of \in Iconified
       /\ ButtonApart(put'[found'.of], placed'[TitleOf[found'.of]], UsedBut(found.of)', found'.dx, found'.dy)
  BY <1>3, <1>15, <1>16, Zenon
<1> QED BY <1>17, Zenon DEF PlacedApart, ButtonApart, RoomFor, RoomIn

LEMMA PinnedApart ==
    ASSUME PlaceInv, NEW i \in PinnedIcon, NEW x \in Int, NEW y \in Int, PinSomewhere(i, x, y)
    PROVE  PlacedApart'
<1> DEFINE corner == CornerAsked(x, y)  going == GoingAsked(x, y)  from == StartAsked(x, y)
           step == Stepping(corner)  used == UsedBut(i)
<1>1. PICK size \in IconSizes, m \in layout.monitors :
         LET r == FoundFor(i, size, corner, going, from, m)
         IN  PinTo(i, r.x + size[1] \div 2, r.y + size[2] \div 2, size)
  BY DEF PinSomewhere
<1> DEFINE r == FoundFor(i, size, corner, going, from, m)
           cx == r.x + size[1] \div 2
           cy == r.y + size[2] \div 2
           sx == Snap(cx)  sy == Snap(cy)
           q == Around(sx, sy, Framed(size))
           b == ButtonFrame  g == GridStep \div 2  k == b + Most(b, g)
           over == from > 0 /\ Beyond(size, going, step.dx, step.dy, from)
<1>2. size \in Nat \X Nat /\ size[1] \in Nat /\ size[2] \in Nat /\ size = <<size[1], size[2]>>
      /\ size \in Int \X Int /\ Screen[1] \in Nat /\ Screen[2] \in Nat
  BY AskedIs, LayoutIs
<1>3. from \in Nat /\ step.dx \in Int /\ step.dy \in Int
  BY StartIs, SteppingIs
<1>4. r \in SizedRect /\ r \in IntRect /\ r.w = size[1] /\ r.h = size[2]
  BY <1>2, <1>3, FoundTyped, SizedTyped
<1>5. put' = [put EXCEPT ![i] = q] /\ layout' = layout /\ panelShown' = panelShown
  BY <1>1 DEF PinTo
<1>6. put'[i] = q
  BY <1>5 DEF PlaceInv, PutThing
<1>7. /\ found'.of = i /\ found'.from = from /\ found'.going = going
      /\ found'.dx = step.dx /\ found'.dy = step.dy /\ ~NoSearchMade(from)
  BY DEF PinSomewhere
<1>8. UsedBut(i)' = used
  BY <1>5, UsedKept DEF PutThing
<1>9. ASSUME RoomIn(size, used, step.dx, step.dy)
      PROVE  /\ Apart(r, used)
             /\ over \/ (0 <= r.x /\ r.x <= Screen[1] - size[1] /\ 0 <= r.y /\ r.y <= Screen[2] - size[2])
  <2>1. FreePlaces(size, used, step.dx, step.dy, WholeScreen(size)) # {}
    BY <1>9, <1>2, <1>3, RoomIs
  <2> QED BY <2>1, <1>2, <1>3, <1>7, FoundIs
<1>10. used \subseteq IntRect
  BY UsedIs
<1>11. over <=> OverEdge(size)'
  BY <1>5, <1>7 DEF OverEdge, Beyond
<1> HIDE DEF corner, going, from, step, used, r, over
<1>12. r.x \in Int /\ r.y \in Int /\ size[1] \div 2 \in Nat /\ size[2] \div 2 \in Nat
  BY <1>2, <1>4 DEF IntRect
<1>13. cx \in Int /\ cy \in Int
  BY <1>12
<1>14. sx \in Int /\ sy \in Int
  BY <1>13, SnapTyped
<1>15. b \in Nat /\ g \in Nat /\ k \in Nat /\ 2 * b <= k
  BY PlacementAssumption DEF Most
<1>16. /\ q \in IntRect /\ q.w = size[1] + 2 * b /\ q.h = size[2] + 2 * b
       /\ q.x = Clamped(sx - (size[1] + 2 * b) \div 2, Screen[1] - (IF layout.clamp THEN size[1] + 2 * b ELSE 0))
       /\ q.y = Clamped(sy - (size[2] + 2 * b) \div 2, Screen[2] - (IF layout.clamp THEN size[2] + 2 * b ELSE 0))
  <2>1. Framed(size) \in Int \X Int /\ Framed(size)[1] = size[1] + 2 * b /\ Framed(size)[2] = size[2] + 2 * b
    BY <1>2, FramedIs
  <2> HIDE DEF sx, sy, b
  <2> QED BY <2>1, <1>14, AroundTyped
<1> HIDE DEF q
<1>17. ASSUME 0 <= r.x, r.x <= Screen[1] - size[1] PROVE r.x - q.x <= k /\ q.x + q.w - (r.x + r.w) <= k
  <2>1. cx \in Nat
    BY <1>12, <1>17
  <2>2. sx - cx <= g /\ cx - sx <= g
    BY <2>1, SnapIs
  <2> DEFINE hi == Screen[1] - (IF layout.clamp THEN size[1] + 2 * b ELSE 0)
  <2>3. hi \in Int /\ (hi = Screen[1] \/ hi = Screen[1] - (size[1] + 2 * b))
    BY <1>2, <1>15
  <2> HIDE DEF hi, sx, g, b
  <2>4. LET p == Clamped(sx - (size[1] + 2 * b) \div 2, hi) IN
        r.x - p <= b + Most(b, g) /\ p + (size[1] + 2 * b) - (r.x + size[1]) <= b + Most(b, g)
    BY <2>2, <2>3, <1>2, <1>12, <1>14, <1>15, <1>17, FramedAlong
  <2> QED BY <2>4, <1>4, <1>16 DEF hi
<1>18. ASSUME 0 <= r.y, r.y <= Screen[2] - size[2] PROVE r.y - q.y <= k /\ q.y + q.h - (r.y + r.h) <= k
  <2>1. cy \in Nat
    BY <1>12, <1>18
  <2>2. sy - cy <= g /\ cy - sy <= g
    BY <2>1, SnapIs
  <2> DEFINE hi == Screen[2] - (IF layout.clamp THEN size[2] + 2 * b ELSE 0)
  <2>3. hi \in Int /\ (hi = Screen[2] \/ hi = Screen[2] - (size[2] + 2 * b))
    BY <1>2, <1>15
  <2> HIDE DEF hi, sy, g, b
  <2>4. LET p == Clamped(sy - (size[2] + 2 * b) \div 2, hi) IN
        r.y - p <= b + Most(b, g) /\ p + (size[2] + 2 * b) - (r.y + size[2]) <= b + Most(b, g)
    BY <2>2, <2>3, <1>2, <1>12, <1>14, <1>15, <1>18, FramedAlong
  <2> QED BY <2>4, <1>4, <1>16 DEF hi
<1>19. ASSUME RoomIn(size, used, step.dx, step.dy), ~over, NEW s \in used PROVE Over(q, s) <= k
  <2>1. s \in IntRect /\ Over(r, s) <= 0
    BY <1>9, <1>10, <1>19 DEF Apart
  <2>2. /\ r.x - q.x <= k /\ q.x + q.w - (r.x + r.w) <= k
        /\ r.y - q.y <= k /\ q.y + q.h - (r.y + r.h) <= k
    BY <1>9, <1>17, <1>18, <1>19
  <2>3. r.w >= 0 /\ r.h >= 0 /\ q.w = r.w + 2 * b /\ q.h = r.h + 2 * b
    BY <1>2, <1>4, <1>16
  <2> HIDE DEF b, k
  <2> QED BY <2>1, <2>2, <2>3, <1>4, <1>15, <1>16, GrownOver
<1>20. <<q.w - 2 * b, q.h - 2 * b>> = size
  <2>1. q.w - 2 * b = size[1] /\ q.h - 2 * b = size[2]
    BY <1>2, <1>15, <1>16
  <2> QED BY <2>1, <1>2
<1>21. IconApart(q, used, step.dx, step.dy, over)
  BY <1>19, <1>20 DEF IconApart
<1>22. /\ found'.of \in PinnedIcon
       /\ IconApart(put'[found'.of], UsedBut(found.of)', found'.dx, found'.dy,
                    OverEdge(<<put[found.of].w - 2 * ButtonFrame, put[found.of].h - 2 * ButtonFrame>>)')
  <2>3. UsedBut(found.of)' = UsedBut(i)'
    BY <1>7 DEF UsedBut
  <2>1. <<put'[i].w - 2 * ButtonFrame, put'[i].h - 2 * ButtonFrame>> = size
    BY <1>6, <1>20
  <2>2. OverEdge(<<put[i].w - 2 * ButtonFrame, put[i].h - 2 * ButtonFrame>>)' <=> over
    BY <1>11, <2>1 DEF OverEdge
  <2>4. OverEdge(<<put[found.of].w - 2 * ButtonFrame, put[found.of].h - 2 * ButtonFrame>>)'
        <=> OverEdge(<<put[i].w - 2 * ButtonFrame, put[i].h - 2 * ButtonFrame>>)'
    BY <1>7 DEF OverEdge
  <2>5. OverEdge(<<put[found.of].w - 2 * ButtonFrame, put[found.of].h - 2 * ButtonFrame>>)' = over
    BY <2>2, <2>4 DEF OverEdge, over
  <2>6. UsedBut(found.of)' = used
    BY <2>3, <1>8
  <2>7. IconApart(put'[i], used, step.dx, step.dy, over)
    BY <1>6, <1>21
  <2> QED BY <2>5, <2>6, <2>7, <1>7, Zenon
<1> QED BY <1>22, Zenon DEF PlacedApart, IconApart, RoomFor, RoomIn

LEMMA PlacedStep == ASSUME PlaceInv, PlacementNext PROVE PlacedApart'
<1>1. ASSUME NEW w \in Iconified, Iconify(w) PROVE PlacedApart'
  BY <1>1, IconifyApart
<1>2. ASSUME NEW i \in PinnedIcon, NEW a \in AskedPlaces, PinSomewhere(i, a[1], a[2]) PROVE PlacedApart'
  BY <1>2, AskedIs, PinnedApart
<1>3. ASSUME found' = NoSearch PROVE PlacedApart'
  BY <1>3 DEF NoSearch, PlacedApart
<1> QED BY <1>1, <1>2, <1>3 DEF PlacementNext, Uniconify, DragButton, Reshape, Unpin, PinAnywhere,
              PinAt, PinAgain, DragIcons, TogglePanel

(* What a search has put on the pinboard lies over nothing else on it, but *)
(* for the frame and the snapping of an icon, while the screen has room *)
(* for it: the search of a monitor, of a box and of the whole screen, with *)
(* the margins, the panel and what is there left out (find_free_rect, *)
(* pinboard_add_widget, pinboard_pin_with_args). *)
THEOREM PlacedAlwaysApart == PlacementSpec => []PlacedApart
<1>1. PlacementInit => PlaceInv /\ PlacedApart
  <2>1. PlacementInit => PlacedApart
    BY DEF PlacementInit, NoSearch, PlacedApart
  <2> QED BY <2>1, PlaceInvInit
<1>2. PlaceInv /\ PlacedApart /\ [PlacementNext]_placeVars => PlaceInv' /\ PlacedApart'
  <2>1. ASSUME PlaceInv, PlacedApart, UNCHANGED placeVars PROVE PlaceInv' /\ PlacedApart'
    <3>1. /\ put' = put /\ centre' = centre /\ placed' = placed /\ layout' = layout
          /\ panelShown' = panelShown /\ found' = found
      BY <2>1 DEF placeVars
    <3>2. PlaceInv'
      BY <2>1, <3>1 DEF PlaceInv
    <3>3. PlacedApart'
      <4> DEFINE t == found.of
                 size == <<put[t].w - 2 * ButtonFrame, put[t].h - 2 * ButtonFrame>>
      <4>1. UsedBut(found.of)' = UsedBut(t)
        BY <3>1 DEF UsedBut, NoGo
      <4>2. OverEdge(<<put[found.of].w - 2 * ButtonFrame, put[found.of].h - 2 * ButtonFrame>>)' = OverEdge(size)
        BY <3>1 DEF OverEdge
      <4>3. \/ t = "none"
            \/ t \in Iconified /\ ButtonApart(put[t], placed[TitleOf[t]], UsedBut(t), found.dx, found.dy)
            \/ t \in PinnedIcon /\ IconApart(put[t], UsedBut(t), found.dx, found.dy, OverEdge(size))
        BY <2>1, Zenon DEF PlacedApart, ButtonApart, IconApart, RoomFor, RoomIn
      <4>4. \/ found'.of = "none"
            \/ found'.of \in Iconified
               /\ ButtonApart(put'[found'.of], placed'[TitleOf[found'.of]], UsedBut(found.of)', found'.dx, found'.dy)
            \/ found'.of \in PinnedIcon
               /\ IconApart(put'[found'.of], UsedBut(found.of)', found'.dx, found'.dy,
                    OverEdge(<<put[found.of].w - 2 * ButtonFrame, put[found.of].h - 2 * ButtonFrame>>)')
        BY <3>1, <4>1, <4>2, <4>3, Zenon
      <4> QED BY <4>4, Zenon DEF PlacedApart, ButtonApart, IconApart, RoomFor, RoomIn
    <3> QED BY <3>2, <3>3
  <2>2. ASSUME PlaceInv, PlacementNext PROVE PlaceInv' /\ PlacedApart'
    BY <2>2, PlaceInvStep, PlacedStep
  <2> QED BY <2>1, <2>2
<1> QED BY <1>1, <1>2, PTL DEF PlacementSpec

--------------------
(* The icon view. *)
LEMMA UpTo ==
    ASSUME NEW n \in Nat, NEW S, 0 \in S, \A k \in 0..n : k \in S /\ k < n => k + 1 \in S
    PROVE  0..n \subseteq S
<1> DEFINE Bad == {k \in 0..n : k \notin S}
<1>1. ASSUME Bad # {} PROVE FALSE
  <2>1. Bad \subseteq Nat
    OBVIOUS
  <2>2. PICK k \in Bad : \A j \in Bad : ~(<<j, k>> \in OpToRel(<, Nat))
    BY <1>1, <2>1, WFMin, NatLessThanWellFounded, Zenon
  <2>3. \A j \in Bad : ~(j < k)
    BY <2>1, <2>2 DEF OpToRel
  <2>4. k \in 0..n /\ k \notin S
    OBVIOUS
  <2>7. k \in Nat /\ k <= n /\ k # 0
    BY <2>4
  <2>5. k - 1 \in 0..n /\ k - 1 < n /\ k - 1 < k /\ (k - 1) + 1 = k
    BY <2>7
  <2>6. k - 1 \in S
    BY <2>3, <2>5
  <2> QED BY <2>4, <2>5, <2>6, <2>7
<1> QED BY <1>1

Half(p) == (p[1] + p[2]) \div 2

(* A relation that orders a finite set, and the set arranged by it. *)
Orders(W, R) ==
    /\ IsFiniteSet(W)
    /\ \A x \in W : <<x, x>> \notin R
    /\ \A x, y, z \in W : <<x, y>> \in R /\ <<y, z>> \in R => <<x, z>> \in R
    /\ \A x, y \in W : x = y \/ <<x, y>> \in R \/ <<y, x>> \in R
Below(W, R, x) == {y \in W : <<y, x>> \in R}
ArrangedRight(W, R, n, s) ==
    /\ n = Cardinality(W) /\ n \in Nat /\ s \in [1..n -> W]
    /\ \A i, j \in 1..n : s[i] = s[j] => i = j
    /\ \A x \in W : \E j \in 1..n : s[j] = x
    /\ \A i, j \in 1..n : i < j => <<s[i], s[j]>> \in R
    /\ \A j \in 1..n : Cardinality(Below(W, R, s[j])) = j - 1

LEMMA Ranks ==
    ASSUME NEW W, NEW R, Orders(W, R)
    PROVE  /\ \A x \in W : Cardinality(Below(W, R, x)) + 1 \in 1..Cardinality(W)
           /\ \A x, y \in W : <<y, x>> \in R => Cardinality(Below(W, R, y)) < Cardinality(Below(W, R, x))
<1> DEFINE B(x) == Below(W, R, x)
<1>1. IsFiniteSet(W) /\ Cardinality(W) \in Nat
  BY FS_CardinalityType, Zenon DEF Orders
<1>2. ASSUME NEW x \in W
      PROVE  IsFiniteSet(B(x)) /\ Cardinality(B(x)) \in Nat /\ Cardinality(B(x)) < Cardinality(W)
  <2>1. B(x) \in SUBSET W /\ x \notin B(x)
    BY DEF Orders, Below
  <2>2. IsFiniteSet(B(x)) /\ Cardinality(B(x)) <= Cardinality(W)
        /\ (Cardinality(W) = Cardinality(B(x)) => W = B(x))
    BY <1>1, <2>1, FS_Subset, Zenon
  <2>3. W # B(x)
    BY <2>1, <1>2
  <2>4. Cardinality(B(x)) \in Nat
    BY <2>2, FS_CardinalityType, Zenon
  <2> HIDE DEF B
  <2> QED BY <1>1, <2>2, <2>3, <2>4
<1>3. ASSUME NEW x \in W, NEW y \in W, <<y, x>> \in R PROVE Cardinality(B(y)) < Cardinality(B(x))
  <2>1. B(y) \in SUBSET B(x) /\ y \in B(x) /\ y \notin B(y)
    BY <1>3 DEF Orders, Below
  <2>2. IsFiniteSet(B(x)) /\ Cardinality(B(x)) \in Nat /\ Cardinality(B(y)) \in Nat
    BY <1>2
  <2>3. Cardinality(B(y)) <= Cardinality(B(x)) /\ (Cardinality(B(x)) = Cardinality(B(y)) => B(x) = B(y))
    BY <2>1, <2>2, FS_Subset, Zenon
  <2>4. B(x) # B(y)
    BY <2>1
  <2> HIDE DEF B
  <2> QED BY <2>2, <2>3, <2>4
<1>4. ASSUME NEW x \in W PROVE Cardinality(B(x)) + 1 \in 1..Cardinality(W)
  <2>1. Cardinality(B(x)) \in Nat /\ Cardinality(B(x)) < Cardinality(W)
    BY <1>2
  <2> HIDE DEF B
  <2> QED BY <1>1, <2>1
<1> QED BY <1>3, <1>4

LEMMA Arranges ==
    ASSUME NEW W, NEW R, Orders(W, R)
    PROVE  ArrangedRight(W, R, Cardinality(W), Arranged(W, R))
<1> DEFINE n == Cardinality(W)
           Place(x) == Cardinality(Below(W, R, x)) + 1
           place == [x \in W |-> Place(x)]
           s == Arranged(W, R)
<1>1. IsFiniteSet(W) /\ n \in Nat
  BY FS_CardinalityType, Zenon DEF Orders
<1>2. \A x \in W : Place(x) \in 1..n
  BY Ranks
<1>3. \A x, y \in W : <<y, x>> \in R => Place(y) < Place(x)
  <2>1. ASSUME NEW x \in W, NEW y \in W, <<y, x>> \in R PROVE Place(y) < Place(x)
    <3>1. Cardinality(Below(W, R, y)) < Cardinality(Below(W, R, x))
      BY <2>1, Ranks
    <3>2. Place(x) \in 1..n /\ Place(y) \in 1..n
      BY <1>2
    <3>3. IsFiniteSet(Below(W, R, x)) /\ IsFiniteSet(Below(W, R, y))
      <4>1. Below(W, R, x) \in SUBSET W /\ Below(W, R, y) \in SUBSET W
        BY DEF Below
      <4> QED BY <1>1, <4>1, FS_Subset, Zenon
    <3>4. Cardinality(Below(W, R, x)) \in Nat /\ Cardinality(Below(W, R, y)) \in Nat
      BY <3>3, FS_CardinalityType, Zenon
    <3> QED BY <3>1, <3>4
  <2> QED BY <2>1
<1> HIDE DEF Place
<1>4. \A x, y \in W : Place(x) = Place(y) => x = y
  <2>1. ASSUME NEW x \in W, NEW y \in W, Place(x) = Place(y), x # y PROVE FALSE
    <3>1. <<x, y>> \in R \/ <<y, x>> \in R
      BY <2>1, Zenon DEF Orders
    <3>2. Place(x) < Place(y) \/ Place(y) < Place(x)
      BY <1>3, <3>1, Zenon
    <3>3. Place(x) \in Int /\ Place(y) \in Int
      BY <1>1, <1>2
    <3> QED BY <2>1, <3>2, <3>3
  <2> QED BY <2>1
<1>5. place \in Injection(W, 1..n)
  <2>1. place \in [W -> 1..n]
    BY <1>2
  <2> QED BY <1>4, <2>1 DEF Injection, IsInjective
<1>6. IsFiniteSet(1..n) /\ Cardinality(1..n) = n
  <2>1. 1 \in Int /\ n \in Int
    BY <1>1
  <2>2. IsFiniteSet(1..n) /\ Cardinality(1..n) = IF 1 > n THEN 0 ELSE n - 1 + 1
    BY <2>1, FS_Interval
  <2> HIDE DEF n
  <2> QED BY <1>1, <2>2
<1>7. place \in Surjection(W, 1..n)
  BY <1>1, <1>5, <1>6, FS_Injection, Zenon
<1>8. \A j \in 1..n : \E x \in W : Place(x) = j
  BY <1>7 DEF Surjection
<1>9. ASSUME NEW x \in W, NEW j \in 1..n PROVE Place(x) = j <=> Cardinality(Below(W, R, x)) = j - 1
  <2>1. IsFiniteSet(Below(W, R, x))
    <3>1. Below(W, R, x) \in SUBSET W
      BY DEF Below
    <3> QED BY <1>1, <3>1, FS_Subset, Zenon
  <2>2. Cardinality(Below(W, R, x)) \in Nat
    BY <2>1, FS_CardinalityType, Zenon
  <2> HIDE DEF n
  <2> QED BY <1>1, <2>2 DEF Place
<1>10. \A j \in 1..n : s[j] \in W /\ Place(s[j]) = j
  <2>1. ASSUME NEW j \in 1..n PROVE s[j] \in W /\ Place(s[j]) = j
    <3>1. s[j] = CHOOSE x \in W : Cardinality(Below(W, R, x)) = j - 1
      BY DEF Arranged, Below
    <3>2. \E x \in W : Cardinality(Below(W, R, x)) = j - 1
      BY <1>8, <1>9
    <3>3. s[j] \in W /\ Cardinality(Below(W, R, s[j])) = j - 1
      <4> HIDE DEF s
      <4> QED BY <3>1, <3>2
    <3> HIDE DEF s
    <3> QED BY <1>9, <3>3
  <2> QED BY <2>1
<1>11. s = [j \in 1..n |-> s[j]]
  <2> DEFINE At1(j) == CHOOSE x \in W : Cardinality(Below(W, R, x)) = j - 1
  <2>1. s = [j \in 1..n |-> At1(j)]
    BY DEF Arranged, Below
  <2> HIDE DEF At1, s, n
  <2> QED BY <2>1
<1> HIDE DEF s, n
<1>12. s \in [1..n -> W]
  BY <1>10, <1>11
<1>13. \A i, j \in 1..n : s[i] = s[j] => i = j
  BY <1>10
<1>14. \A x \in W : \E j \in 1..n : s[j] = x
  <2>1. ASSUME NEW x \in W PROVE \E j \in 1..n : s[j] = x
    <3>1. Place(x) \in 1..n /\ Place(s[Place(x)]) = Place(x) /\ s[Place(x)] \in W
      BY <1>2, <1>10
    <3>2. s[Place(x)] = x
      BY <1>4, <3>1
    <3> QED BY <3>1, <3>2
  <2> QED BY <2>1
<1>15. \A i, j \in 1..n : i < j => <<s[i], s[j]>> \in R
  <2>1. ASSUME NEW i \in 1..n, NEW j \in 1..n, i < j PROVE <<s[i], s[j]>> \in R
    <3>1. s[i] \in W /\ s[j] \in W /\ Place(s[i]) = i /\ Place(s[j]) = j
      BY <1>10
    <3>2. i \in Int /\ j \in Int /\ s[i] # s[j]
      BY <1>1, <1>13, <2>1
    <3>3. <<s[i], s[j]>> \in R \/ <<s[j], s[i]>> \in R
      BY <3>1, <3>2, Zenon DEF Orders
    <3>4. <<s[j], s[i]>> \in R => j < i
      BY <1>3, <3>1
    <3> QED BY <2>1, <3>2, <3>3, <3>4
  <2> QED BY <2>1
<1>16. \A j \in 1..n : Cardinality(Below(W, R, s[j])) = j - 1
  BY <1>9, <1>10
<1>17. n = Cardinality(W) /\ n \in Nat
  BY <1>1 DEF n
<1> QED BY <1>12, <1>13, <1>14, <1>15, <1>16, <1>17 DEF ArrangedRight, s, n

--------------------
(* A Collection, its marks and its selection. *)
CollRecord ==
    [order : Seq(Item), key : [Item -> Int], sel : SUBSET Item, count : Int,
     cursor : Int, old : Int, wink : Int, winks : Int, timer : BOOLEAN, pending : Int,
     mapped : BOOLEAN, columns : {1, 2}, vertical : BOOLEAN,
     primary : {"none", "us", "other"}, normal : BOOLEAN, temp : BOOLEAN,
     popup : {"none", "menu", "drag"}, lost : BOOLEAN, refused : BOOLEAN]

EachOnce(c) == \A i, j \in 1..Len1(c) : c.order[i] = c.order[j] => i = j
MarksGood(c) ==
    /\ EachOnce(c)
    /\ InRange(c, c.cursor) \/ c.cursor = -1 \/ (c.cursor = 0 /\ Len1(c) = 0)
    /\ c.timer <=> c.wink # -1
    /\ c.timer => InRange(c, c.wink)

(* What is counted, before selection_changed tells of it; and after. *)
Counted1(c) ==
    /\ c.sel \subseteq Range(c.order) /\ c.count = Cardinality(c.sel)
    /\ c.lost => c.count = 0
    /\ c.primary = "us" => c.count > 0 /\ c.normal
SelGood(c) ==
    /\ Counted1(c)
    /\ c.count > 0 => (c.normal <=> c.primary = "us")

SameMarks(c, d) ==
    /\ d.order = c.order /\ d.key = c.key /\ d.cursor = c.cursor /\ d.old = c.old
    /\ d.wink = c.wink /\ d.winks = c.winks /\ d.timer = c.timer /\ d.pending = c.pending
    /\ d.mapped = c.mapped /\ d.columns = c.columns /\ d.vertical = c.vertical
SameMode(c, d) ==
    /\ d.temp = c.temp /\ d.popup = c.popup /\ d.refused = c.refused

LEMMA OrderIs ==
    ASSUME NEW c \in CollRecord, EachOnce(c)
    PROVE  \E n \in Nat :
             /\ n = Len1(c) /\ DOMAIN c.order = 1..n /\ c.order \in [1..n -> Item]
             /\ \A i, j \in 1..n : c.order[i] = c.order[j] => i = j
             /\ Range(c.order) = {c.order[i] : i \in 1..n} /\ Range(c.order) \subseteq Item
             /\ IsFiniteSet(Range(c.order)) /\ Cardinality(Range(c.order)) = n
<1> DEFINE s == c.order
<1>1. s \in Seq(Item)
  BY DEF CollRecord
<1>2. PICK n \in Nat : n = Len1(c) /\ DOMAIN s = 1..n /\ s \in [1..n -> Item]
  BY <1>1, LenProperties DEF Len1
<1>3. Range(s) = {s[i] : i \in 1..n} /\ Range(s) \subseteq Item
  BY <1>2 DEF Range
<1>4. IsFiniteSet(1..n) /\ Cardinality(1..n) = n
  <2>1. 1 \in Int /\ n \in Int
    OBVIOUS
  <2>2. IsFiniteSet(1..n) /\ Cardinality(1..n) = IF 1 > n THEN 0 ELSE n - 1 + 1
    BY <2>1, FS_Interval
  <2> QED BY <2>2
<1>5. \A i, j \in 1..n : s[i] = s[j] => i = j
  BY <1>2 DEF EachOnce
<1>6. s \in Surjection(1..n, Range(s))
  BY <1>2, <1>3 DEF Surjection
<1>7. s \in Injection(1..n, Range(s))
  BY <1>2, <1>3, <1>5 DEF Injection, IsInjective
<1>8. IsFiniteSet(Range(s)) /\ (Cardinality(Range(s)) = Cardinality(1..n) <=> s \in Injection(1..n, Range(s)))
  BY <1>4, <1>6, FS_Surjection, Zenon
<1>9. IsFiniteSet(Range(s)) /\ Cardinality(Range(s)) = n
  BY <1>4, <1>7, <1>8
<1> HIDE DEF s
<1> QED BY <1>2, <1>3, <1>5, <1>9 DEF s

LEMMA SelFinite ==
    ASSUME NEW c \in CollRecord, NEW S, S \subseteq Range(c.order)
    PROVE  IsFiniteSet(S) /\ Cardinality(S) \in Nat /\ (Cardinality(S) = 0 <=> S = {})
           /\ S \in SUBSET Item
<1>1. PICK n \in Nat : DOMAIN c.order = 1..n /\ c.order \in [1..n -> Item]
  BY LenProperties DEF CollRecord
<1>2. c.order \in Surjection(1..n, Range(c.order)) /\ Range(c.order) \subseteq Item
  BY <1>1 DEF Range, Surjection
<1>3. IsFiniteSet(1..n)
  BY FS_Interval
<1>4. IsFiniteSet(Range(c.order))
  BY <1>2, <1>3, FS_Surjection, Zenon
<1>5. S \in SUBSET Range(c.order)
  OBVIOUS
<1>6. IsFiniteSet(S)
  BY <1>4, <1>5, FS_Subset, Zenon
<1>7. Cardinality(S) \in Nat /\ (Cardinality(S) = 0 <=> S = {})
  BY <1>6, FS_CardinalityType, FS_EmptySet, Zenon
<1> QED BY <1>2, <1>5, <1>6, <1>7

LEMMA LoseIs ==
    ASSUME NEW c \in CollRecord
    PROVE  LET d == Lose(c)
           IN /\ d \in CollRecord /\ SameMarks(c, d) /\ SameMode(c, d)
              /\ d.sel = c.sel /\ d.count = c.count /\ d.normal = c.normal
              /\ d.lost = TRUE /\ d.primary # "us" 
BY DEF CollRecord, Lose, SameMarks, SameMode

ChangedTo(c, d) ==
    /\ d \in CollRecord /\ SameMarks(c, d) /\ SameMode(c, d)
    /\ d.sel = c.sel /\ d.count = c.count /\ d.lost = c.lost /\ SelGood(d)

LEMMA ChangedIs ==
    ASSUME NEW c \in CollRecord, Counted1(c)
    PROVE  ChangedTo(c, Changed(c))
<1> DEFINE claimed == ~c.temp /\ ~c.refused
<1>1. claimed \in BOOLEAN
  BY Zenon
<1>2. c.count \in Nat
  BY SelFinite DEF Counted1
<1>3. CASE c.primary = "us" \/ c.count = 0
  <2>1. Changed(c) = c
    BY <1>3 DEF Changed
  <2>2. SelGood(c)
    BY <1>2, <1>3 DEF SelGood, Counted1
  <2> QED BY <2>1, <2>2 DEF ChangedTo, SameMarks, SameMode
<1>4. CASE ~(c.primary = "us" \/ c.count = 0)
  <2> DEFINE owner == IF claimed THEN "us" ELSE c.primary
             d == [c EXCEPT !.primary = owner, !.normal = claimed]
  <2>1. Changed(c) = d
    BY <1>4 DEF Changed
  <2>2. owner \in {"none", "us", "other"} /\ (owner = "us" <=> claimed)
    BY <1>4 DEF CollRecord
  <2> HIDE DEF owner, claimed
  <2>3. d \in CollRecord /\ SameMarks(c, d) /\ SameMode(c, d)
        /\ d.sel = c.sel /\ d.count = c.count /\ d.lost = c.lost
        /\ d.primary = owner /\ d.normal = claimed
    BY <1>1, <2>2 DEF CollRecord, SameMarks, SameMode
  <2> HIDE DEF d
  <2>4. d.order = c.order
    BY <2>3 DEF SameMarks
  <2>5. d.primary = "us" => d.count > 0 /\ d.normal
    BY <1>2, <1>4, <2>2, <2>3
  <2>6. d.normal <=> d.primary = "us"
    BY <2>2, <2>3
  <2>7. SelGood(d)
    BY <2>3, <2>4, <2>5, <2>6 DEF SelGood, Counted1
  <2> QED BY <2>1, <2>3, <2>7 DEF ChangedTo
<1> QED BY <1>3, <1>4

SelectionTo(c, d, T, n) ==
    /\ d \in CollRecord /\ SameMarks(c, d) /\ SameMode(c, d) /\ d.sel = T /\ d.count = n
    /\ d.normal = c.normal /\ d.lost = c.lost /\ d.primary = c.primary
LEMMA SelectionPut ==
    ASSUME NEW c \in CollRecord, NEW T \in SUBSET Item, NEW n \in Int
    PROVE  SelectionTo(c, [c EXCEPT !.sel = T, !.count = n], T, n)
<1> DEFINE d == [c EXCEPT !.sel = T, !.count = n]
<1>1. d \in CollRecord
  BY DEF CollRecord
<1>2. SameMarks(c, d) /\ SameMode(c, d) /\ d.sel = T /\ d.count = n
      /\ d.normal = c.normal /\ d.lost = c.lost /\ d.primary = c.primary
  BY DEF CollRecord, SameMarks, SameMode
<1> QED BY <1>1, <1>2 DEF SelectionTo

(* One item marked. *)
SelCounted(c) == c.sel \subseteq Range(c.order) /\ c.count = Cardinality(c.sel)
MarkedTo(c, d, x, selected, signal) ==
    /\ d \in CollRecord /\ SameMarks(c, d) /\ SameMode(c, d) /\ SelCounted(d)
    /\ d.sel = (IF selected THEN c.sel \cup {x} ELSE c.sel \ {x})
    /\ d.normal = c.normal
    /\ \/ d.lost = c.lost /\ d.primary = c.primary /\ (signal => d.count > 0 \/ d.sel = c.sel)
       \/ d.lost = TRUE /\ d.primary # "us" /\ d.count = 0 /\ signal /\ d.sel # c.sel

LEMMA MarkedIs ==
    ASSUME NEW c \in CollRecord, SelCounted(c), NEW x \in Range(c.order),
           NEW selected \in BOOLEAN, NEW signal \in BOOLEAN
    PROVE  MarkedTo(c, Marked(c, x, selected, signal), x, selected, signal)
<1> DEFINE T == IF selected THEN c.sel \cup {x} ELSE c.sel \ {x}
           n == IF selected THEN c.count + 1 ELSE c.count - 1
           d == [c EXCEPT !.sel = T, !.count = n]
<1>1. IsFiniteSet(c.sel) /\ c.count \in Nat /\ c.sel \in SUBSET Item /\ x \in Item
  <2>1. {x} \subseteq Range(c.order)
    OBVIOUS
  <2>2. {x} \in SUBSET Item
    BY <2>1, SelFinite
  <2> QED BY <2>2, SelFinite DEF SelCounted
<1>2. CASE (x \in c.sel) = selected
  <2>1. Marked(c, x, selected, signal) = c
    BY <1>2, Zenon DEF Marked
  <2>2. c.sel = T
    BY <1>2
  <2> QED BY <2>1, <2>2 DEF MarkedTo, SameMarks, SameMode
<1>3. CASE (x \in c.sel) # selected
  <2>1. Cardinality(T) = n
    <3>1. CASE selected = TRUE
      <4>1. x \notin c.sel /\ T = c.sel \cup {x} /\ n = c.count + 1
        BY <1>3, <3>1
      <4> QED BY <1>1, <4>1, FS_AddElement DEF SelCounted
    <3>2. CASE selected = FALSE
      <4>1. x \in c.sel /\ T = c.sel \ {x} /\ n = c.count - 1
        BY <1>3, <3>2
      <4>2. Cardinality(c.sel \ {x}) = Cardinality(c.sel) - 1
        BY <1>1, <4>1, FS_RemoveElement, Zenon
      <4> HIDE DEF T, n
      <4> QED BY <4>1, <4>2 DEF SelCounted
    <3> QED BY <3>1, <3>2
  <2>2. T \subseteq Range(c.order)
    BY DEF SelCounted
  <2>3. n \in Nat /\ T \in SUBSET Item
    BY <2>1, <2>2, SelFinite, Zenon
  <2>4. Marked(c, x, selected, signal) = IF signal /\ n = 0 THEN Lose(d) ELSE d
    BY <1>3, Zenon DEF Marked
  <2>5. d \in CollRecord /\ SameMarks(c, d) /\ SameMode(c, d) /\ d.sel = T /\ d.count = n
        /\ d.normal = c.normal /\ d.lost = c.lost /\ d.primary = c.primary
    <3> HIDE DEF T, n
    <3>1. n \in Int
      BY <2>3
    <3>2. SelectionTo(c, d, T, n)
      BY <2>3, <3>1, SelectionPut
    <3> HIDE DEF d
    <3> QED BY <3>2 DEF SelectionTo
  <2>6. d.order = c.order
    BY <2>5 DEF SameMarks
  <2>7. SelCounted(d)
    <3> HIDE DEF T, n, d
    <3> QED BY <2>1, <2>2, <2>5, <2>6 DEF SelCounted
  <2>8. CASE signal /\ n = 0
    <3> DEFINE e == Lose(d)
    <3> HIDE DEF d
    <3>1. e \in CollRecord /\ SameMarks(d, e) /\ SameMode(d, e)
              /\ e.sel = d.sel /\ e.count = d.count /\ e.normal = d.normal
              /\ e.lost = TRUE /\ e.primary # "us"
      BY <2>5, LoseIs
    <3>2. SameMarks(c, e) /\ SameMode(c, e)
      <4> HIDE DEF e
      <4> QED BY <2>5, <3>1 DEF SameMarks, SameMode
    <3>3. SelCounted(e)
      <4>1. e.order = d.order
        BY <3>1 DEF SameMarks
      <4> HIDE DEF e
      <4> QED BY <2>7, <3>1, <4>1 DEF SelCounted
    <3>4. e.sel = T /\ e.count = 0 /\ e.normal = c.normal
      BY <2>5, <2>8, <3>1
    <3>5. Marked(c, x, selected, signal) = e
      BY <2>4, <2>8
    <3>6. T # c.sel
      BY <1>3
    <3> HIDE DEF e
    <3> QED BY <2>8, <3>1, <3>2, <3>3, <3>4, <3>5, <3>6 DEF MarkedTo
  <2>9. CASE ~(signal /\ n = 0)
    <3>1. Marked(c, x, selected, signal) = d
      BY <2>4, <2>9
    <3>2. signal => d.count > 0
      <4> HIDE DEF d, n
      <4> QED BY <2>3, <2>5, <2>9
    <3> HIDE DEF d
    <3> QED BY <2>5, <2>7, <3>1, <3>2 DEF MarkedTo
  <2> QED BY <2>8, <2>9
<1> QED BY <1>2, <1>3

(* The operations that select keep the marks, and leave a selection that *)
(* is counted and owned. *)
Selects(c, d) == d \in CollRecord /\ SameMarks(c, d) /\ SameMode(c, d) /\ SelGood(d)

LEMMA SelectsThen ==
    ASSUME NEW c, NEW d, NEW e, SameMarks(c, d), SameMode(c, d), Selects(d, e)
    PROVE  Selects(c, e)
BY DEF Selects, SameMarks, SameMode

LEMMA SetSelectedIs ==
    ASSUME NEW c \in CollRecord, SelGood(c), c.lost = FALSE, NEW x \in Range(c.order),
           NEW selected \in BOOLEAN
    PROVE  LET d == SetSelected(c, x, selected)
           IN /\ Selects(c, d)
              /\ d.sel = (IF selected THEN c.sel \cup {x} ELSE c.sel \ {x})
              /\ selected => d.lost = FALSE
<1> DEFINE T == IF selected THEN c.sel \cup {x} ELSE c.sel \ {x}
           e == Marked(c, x, selected, TRUE)
           d == SetSelected(c, x, selected)
<1>1. CASE (x \in c.sel) = selected
  <2>1. SetSelected(c, x, selected) = c /\ c.sel = T
    BY <1>1, Zenon DEF SetSelected
  <2> QED BY <2>1 DEF Selects, SameMarks, SameMode
<1>2. CASE (x \in c.sel) # selected
  <2>1. SelCounted(c)
    BY DEF SelGood, Counted1, SelCounted
  <2>2. MarkedTo(c, e, x, selected, TRUE)
    BY <2>1, MarkedIs
  <2>3. d = Changed(e)
    BY <1>2, Zenon DEF SetSelected
  <2>4. T # c.sel
    BY <1>2
  <2> HIDE DEF e, d
  <2>5. e \in CollRecord /\ SameMarks(c, e) /\ SameMode(c, e) /\ e.sel = T /\ e.normal = c.normal
        /\ SelCounted(e)
        /\ \/ e.lost = FALSE /\ e.primary = c.primary /\ e.count > 0
           \/ e.lost = TRUE /\ e.primary # "us" /\ e.count = 0
    BY <2>2, <2>4 DEF MarkedTo
  <2>6. Counted1(e)
    <3>1. e.primary = "us" => e.count > 0 /\ e.normal
      BY <2>5 DEF SelGood, Counted1
    <3>2. e.lost => e.count = 0
      BY <2>5
    <3> QED BY <2>5, <3>1, <3>2 DEF Counted1, SelCounted
  <2>7. ChangedTo(e, d)
    BY <2>3, <2>5, <2>6, ChangedIs
  <2>8. Selects(c, d)
    BY <2>5, <2>7, SelectsThen DEF ChangedTo, Selects
  <2>9. d.sel = T /\ d.lost = e.lost
    BY <2>5, <2>7 DEF ChangedTo
  <2>10. ASSUME selected PROVE d.lost = FALSE
    <3>1. x \in e.sel /\ e.sel \subseteq Range(e.order)
      BY <2>5, <2>10 DEF SelCounted
    <3>2. e.count # 0
      BY <2>5, <3>1, SelFinite DEF SelCounted
    <3> QED BY <2>5, <2>9, <3>2
  <2> QED BY <2>8, <2>9, <2>10 DEF d
<1> QED BY <1>1, <1>2

LEMMA ClearExceptIs ==
    ASSUME NEW c \in CollRecord, SelGood(c), c.lost = FALSE, NEW x \in Range(c.order) \cup {0}
    PROVE  /\ Selects(c, ClearExcept(c, x))
           /\ x # 0 => ClearExcept(c, x).lost = FALSE
<1> DEFINE d == IF x = 0 THEN c ELSE SetSelected(c, x, TRUE)
           n == IF x = 0 THEN 0 ELSE 1
           e == [d EXCEPT !.sel = d.sel \cap {x}, !.count = n]
           f == IF x = 0 THEN Lose(e) ELSE e
<1>1. ClearExcept(c, x) = IF d.count = 0 THEN d ELSE Changed(f)
  BY DEF ClearExcept
<1>2. Selects(c, d) /\ d.lost = FALSE /\ (x # 0 => x \in d.sel)
  <2>1. CASE x = 0
    BY <2>1 DEF Selects, SameMarks, SameMode
  <2>2. CASE x # 0
    <3> DEFINE s == SetSelected(c, x, TRUE)
    <3>1. x \in Range(c.order) /\ d = s
      BY <2>2
    <3>2. Selects(c, s) /\ s.sel = c.sel \cup {x} /\ s.lost = FALSE
      BY <3>1, SetSelectedIs
    <3> HIDE DEF s, d
    <3> QED BY <2>2, <3>1, <3>2
  <2> QED BY <2>1, <2>2
<1> HIDE DEF d
<1>3. d \in CollRecord /\ SelGood(d) /\ SameMarks(c, d) /\ SameMode(c, d)
  BY <1>2 DEF Selects
<1>4. IsFiniteSet(d.sel) /\ d.count \in Nat /\ (d.count = 0 <=> d.sel = {}) /\ d.sel \subseteq Item
  BY <1>3, SelFinite DEF SelGood, Counted1
<1>5. CASE d.count = 0
  BY <1>1, <1>2, <1>5
<1>6. CASE d.count # 0
  <2> DEFINE T == d.sel \cap {x}
  <2>1. T \in SUBSET Item /\ T \subseteq d.sel
    BY <1>4
  <2>2. n \in Int /\ n = Cardinality(T)
    <3>1. CASE x = 0
      <4>1. T = {}
        BY <1>4, <3>1 DEF Item
      <4> QED BY <3>1, <4>1, FS_EmptySet
    <3>2. CASE x # 0
      <4>1. T = {x}
        BY <1>2, <3>2
      <4>2. Cardinality({x}) = 1
        BY FS_Singleton
      <4>3. n = 1
        BY <3>2
      <4> HIDE DEF T, n
      <4> QED BY <4>1, <4>2, <4>3
    <3> QED BY <3>1, <3>2
  <2> HIDE DEF T, n
  <2>3. SelectionTo(d, e, T, n)
    <3>1. e = [d EXCEPT !.sel = T, !.count = n]
      BY DEF T
    <3> QED BY <1>3, <2>1, <2>2, <3>1, SelectionPut
  <2> HIDE DEF e
  <2>4. e \in CollRecord /\ SameMarks(d, e) /\ SameMode(d, e) /\ e.sel = T /\ e.count = n
        /\ e.normal = d.normal /\ e.lost = FALSE /\ e.primary = d.primary
    BY <1>2, <2>3 DEF SelectionTo
  <2>5. d.sel \subseteq Range(d.order) /\ e.order = d.order
    BY <1>3, <2>4 DEF SelGood, Counted1, SameMarks
  <2>6. SelCounted(e)
    BY <2>1, <2>2, <2>4, <2>5 DEF SelCounted
  <2>7. f \in CollRecord /\ SameMarks(d, f) /\ SameMode(d, f) /\ Counted1(f) /\ (x # 0 => f.lost = FALSE)
    <3>1. CASE x = 0
      <4> DEFINE g == Lose(e)
      <4>1. g \in CollRecord /\ SameMarks(e, g) /\ SameMode(e, g) /\ g.sel = e.sel /\ g.count = e.count
            /\ g.normal = e.normal /\ g.lost = TRUE /\ g.primary # "us"
        BY <2>4, LoseIs
      <4>2. f = g
        BY <3>1
      <4> HIDE DEF g, f
      <4>3. SameMarks(d, g) /\ SameMode(d, g) /\ g.order = e.order
        BY <2>4, <4>1 DEF SameMarks, SameMode
      <4>4. g.count = 0
        BY <2>4, <3>1, <4>1 DEF n
      <4>5. Counted1(g)
        BY <2>6, <4>1, <4>3, <4>4 DEF Counted1, SelCounted
      <4> QED BY <3>1, <4>1, <4>2, <4>3, <4>5
    <3>2. CASE x # 0
      <4>1. f = e /\ n = 1
        BY <3>2 DEF n
      <4>2. e.primary = "us" => e.normal
        BY <1>3, <2>4 DEF SelGood, Counted1
      <4>4. e.count > 0
        BY <2>4, <4>1
      <4>5. ~e.lost
        BY <2>4
      <4>3. Counted1(e)
        BY <2>6, <4>2, <4>4, <4>5, Zenon DEF Counted1, SelCounted
      <4> HIDE DEF f
      <4> QED BY <2>4, <4>1, <4>3
    <3> QED BY <3>1, <3>2
  <2> HIDE DEF f
  <2>8. ChangedTo(f, Changed(f))
    BY <2>7, ChangedIs
  <2>9. SameMarks(c, f) /\ SameMode(c, f)
    BY <1>3, <2>7 DEF SameMarks, SameMode
  <2>10. Selects(c, Changed(f))
    BY <2>8, <2>9, SelectsThen DEF ChangedTo, Selects
  <2>11. x # 0 => Changed(f).lost = FALSE
    BY <2>7, <2>8 DEF ChangedTo
  <2> QED BY <1>1, <1>6, <2>10, <2>11
<1> QED BY <1>5, <1>6

LEMMA SelectAllIs ==
    ASSUME NEW c \in CollRecord, EachOnce(c), SelGood(c), c.lost = FALSE
    PROVE  Selects(c, SelectAll(c))
<1>1. CASE c.count = Len1(c)
  BY <1>1 DEF SelectAll, Selects, SameMarks, SameMode
<1>2. CASE c.count # Len1(c)
  <2> DEFINE T == Range(c.order)
             n == Len1(c)
             d == [c EXCEPT !.sel = T, !.count = n]
  <2>1. n \in Nat /\ T \in SUBSET Item /\ Cardinality(T) = n /\ IsFiniteSet(T)
    BY OrderIs
  <2> HIDE DEF T, n
  <2>2. SelectionTo(c, d, T, n)
    <3>1. n \in Int
      BY <2>1
    <3> QED BY <2>1, <3>1, SelectionPut
  <2>3. SelectAll(c) = Changed(d)
    BY <1>2 DEF SelectAll, T, n
  <2> HIDE DEF d
  <2>4. c.count <= n /\ c.count \in Nat
    <3>1. c.sel \in SUBSET T /\ c.count = Cardinality(c.sel)
      BY DEF SelGood, Counted1, T
    <3>2. Cardinality(c.sel) <= n /\ IsFiniteSet(c.sel)
      BY <2>1, <3>1, FS_Subset, Zenon
    <3>3. Cardinality(c.sel) \in Nat
      BY <3>2, FS_CardinalityType, Zenon
    <3> QED BY <3>1, <3>2, <3>3
  <2>5. n > 0
    BY <1>2, <2>1, <2>4 DEF n
  <2>6. d \in CollRecord /\ SameMarks(c, d) /\ SameMode(c, d) /\ d.sel = T /\ d.count = n
        /\ d.normal = c.normal /\ d.lost = c.lost /\ d.primary = c.primary /\ d.order = c.order
    BY <2>2 DEF SelectionTo, SameMarks
  <2>7. Counted1(d)
    <3>1. d.primary = "us" => d.normal
      BY <2>6 DEF SelGood, Counted1
    <3>2. d.sel \subseteq Range(d.order)
      BY <2>6 DEF T
    <3> QED BY <2>1, <2>5, <2>6, <3>1, <3>2 DEF Counted1
  <2>8. ChangedTo(d, Changed(d))
    BY <2>6, <2>7, ChangedIs
  <2> QED BY <2>3, <2>6, <2>8, SelectsThen DEF ChangedTo, Selects
<1> QED BY <1>1, <1>2

(* Items marked one after another. *)
MarkStep(c, S, signal, k, d) == Marked(d, c.order[k], c.order[k] \in S, signal)
MarksOf(c, i, S, signal) ==
    LET marked[k \in 0..Len1(c)] ==
          IF k <= i THEN c
          ELSE Marked(marked[k - 1], c.order[k], c.order[k] \in S, signal)
    IN marked
MarkEach(c, i, S, signal, f) ==
    \A k \in 0..Len1(c) : f[k] = IF k <= i THEN c ELSE MarkStep(c, S, signal, k, f[k - 1])

LEMMA MarksEach ==
    ASSUME NEW c, NEW i \in Nat, NEW S, NEW signal, Len1(c) \in Nat
    PROVE  MarkEach(c, i, S, signal, MarksOf(c, i, S, signal))
<1> DEFINE n == Len1(c)
           MarkAt(k, d) == MarkStep(c, S, signal, k, d)
           Upto(m, f) == f = [k \in 0..m |-> IF k <= i THEN c ELSE MarkAt(k, f[k - 1])]
           K == {m \in 0..n : \E f : Upto(m, f)}
           marked == MarksOf(c, i, S, signal)
<1>1. marked = CHOOSE f : Upto(n, f)
  BY DEF MarksOf, MarkStep
<1> HIDE DEF MarkAt, marked
<1>2. 0 \in K
  <2>1. Upto(0, [k \in 0..0 |-> c])
    OBVIOUS
  <2>2. 0 \in 0..n
    OBVIOUS
  <2> QED BY <2>1, <2>2
<1>3. ASSUME NEW m \in 0..n, m \in K, m < n PROVE m + 1 \in K
  <2>1. PICK f : Upto(m, f)
    BY <1>3
  <2> DEFINE e == [k \in 0..(m + 1) |-> IF k = m + 1 THEN (IF k <= i THEN c ELSE MarkAt(k, f[m])) ELSE f[k]]
  <2>2. \A k \in 0..m : e[k] = f[k] /\ f[k] = IF k <= i THEN c ELSE MarkAt(k, f[k - 1])
    BY <2>1
  <2>3. e[m + 1] = IF m + 1 <= i THEN c ELSE MarkAt(m + 1, e[m])
    OBVIOUS
  <2>4. ASSUME NEW k \in 0..(m + 1) PROVE e[k] = IF k <= i THEN c ELSE MarkAt(k, e[k - 1])
    <3> HIDE DEF e
    <3>1. CASE k = m + 1
      BY <2>3, <3>1
    <3>2. CASE k = 0
      BY <2>2, <3>2
    <3>3. CASE k \in 1..m
      <4>1. k \in 0..m /\ k - 1 \in 0..m
        BY <3>3
      <4>2. e[k] = f[k] /\ e[k - 1] = f[k - 1] /\ f[k] = IF k <= i THEN c ELSE MarkAt(k, f[k - 1])
        BY <2>2, <4>1
      <4> QED BY <4>2
    <3> QED BY <3>1, <3>2, <3>3
  <2>5. e = [k \in 0..(m + 1) |-> e[k]]
    OBVIOUS
  <2>6. Upto(m + 1, e)
    <3> HIDE DEF e
    <3> QED BY <2>4, <2>5
  <2>7. m + 1 \in 0..n
    BY <1>3
  <2> HIDE DEF e, Upto
  <2> QED BY <2>6, <2>7
<1>4. 0..n \subseteq K
  <2> HIDE DEF K
  <2> QED BY <1>2, <1>3, UpTo
<1>5. \E f : Upto(n, f)
  <2>1. n \in 0..n
    OBVIOUS
  <2>2. n \in K
    BY <1>4, <2>1, Zenon
  <2> QED BY <2>2
<1>6. Upto(n, marked)
  <2> HIDE DEF Upto
  <2> QED BY <1>1, <1>5
<1>7. \A k \in 0..n : marked[k] = IF k <= i THEN c ELSE MarkAt(k, marked[k - 1])
  BY <1>6
<1> QED BY <1>7 DEF MarkEach, marked, MarkAt

(* After the first k items, those after i are as S says. *)
MarkedUpto(c, i, S, k, d) ==
    /\ d \in CollRecord /\ SameMarks(c, d) /\ SameMode(c, d) /\ SelCounted(d)
    /\ d.normal = c.normal /\ d.lost = c.lost /\ d.primary = c.primary
    /\ \A j \in 1..Len1(c) :
         c.order[j] \in d.sel <=> c.order[j] \in (IF i < j /\ j <= k THEN S ELSE c.sel)

LEMMA MarkedUptoMore ==
    ASSUME NEW c \in CollRecord, EachOnce(c), NEW i \in Nat, NEW S, NEW signal \in BOOLEAN,
           signal => c.sel = {} \/ (i >= 1 /\ c.order[1] \in c.sel), c.sel \subseteq Range(c.order),
           NEW k \in 1..Len1(c), k > i, NEW d, MarkedUpto(c, i, S, k - 1, d)
    PROVE  MarkedUpto(c, i, S, k, MarkStep(c, S, signal, k, d))
<1> DEFINE n == Len1(c)
           x == c.order[k]
           wanted == c.order[k] \in S
           e == Marked(d, x, wanted, signal)
<1>1. /\ n \in Nat /\ c.order \in [1..n -> Item] /\ \A a, b \in 1..n : c.order[a] = c.order[b] => a = b
      /\ Range(c.order) = {c.order[a] : a \in 1..n}
  BY OrderIs
<1>2. d \in CollRecord /\ SelCounted(d) /\ SameMarks(c, d) /\ SameMode(c, d) /\ d.normal = c.normal
      /\ d.lost = c.lost /\ d.primary = c.primary
  BY DEF MarkedUpto
<1>3. \A j \in 1..n : c.order[j] \in d.sel <=> c.order[j] \in (IF i < j /\ j <= k - 1 THEN S ELSE c.sel)
  BY DEF MarkedUpto
<1>4. wanted \in BOOLEAN
  OBVIOUS
<1>5. x \in Range(d.order)
  <2>1. d.order = c.order
    BY <1>2 DEF SameMarks
  <2> QED BY <1>1, <2>1
<1>6. MarkStep(c, S, signal, k, d) = e
  BY DEF MarkStep
<1>7. MarkedTo(d, e, x, wanted, signal)
  <2> HIDE DEF x, wanted
  <2> QED BY <1>2, <1>4, <1>5, MarkedIs
<1>8. e \in CollRecord /\ SameMarks(d, e) /\ SameMode(d, e) /\ SelCounted(e) /\ e.normal = d.normal
      /\ e.sel = (IF wanted THEN d.sel \cup {x} ELSE d.sel \ {x})
      /\ \/ e.lost = d.lost /\ e.primary = d.primary
         \/ e.lost = TRUE /\ e.count = 0 /\ signal /\ e.sel # d.sel
  <2> HIDE DEF e, x, wanted
  <2> QED BY <1>7 DEF MarkedTo
<1> HIDE DEF e, n
<1>9. k \in 1..n /\ k \in Int /\ i \in Int
  BY <1>1 DEF n
<1>10. \A j \in 1..n : c.order[j] \in e.sel <=> c.order[j] \in (IF i < j /\ j <= k THEN S ELSE c.sel)
  <2>1. ASSUME NEW j \in 1..n PROVE c.order[j] \in e.sel <=> c.order[j] \in (IF i < j /\ j <= k THEN S ELSE c.sel)
    <3>1. CASE j = k
      BY <1>8, <1>9, <3>1
    <3>2. CASE j # k
      <4>1. c.order[j] # x
        BY <1>1, <1>9, <3>2
      <4>2. c.order[j] \in e.sel <=> c.order[j] \in d.sel
        BY <1>8, <4>1
      <4>3. (j <= k) <=> (j <= k - 1)
        BY <1>1, <1>9, <3>2
      <4> QED BY <1>3, <4>2, <4>3
    <3> QED BY <3>1, <3>2
  <2> QED BY <2>1
<1>11. e.lost = d.lost /\ e.primary = d.primary
  <2>1. SUFFICES ASSUME e.count = 0, signal, e.sel # d.sel PROVE FALSE
    BY <1>8
  <2>2. e.sel = {}
    BY <1>8, <2>1, SelFinite DEF SelCounted
  <2>3. x \in d.sel
    BY <1>8, <2>1, <2>2
  <2>4. x \in c.sel
    BY <1>3, <1>9, <2>3
  <2>5. i >= 1 /\ c.order[1] \in c.sel
    BY <2>1, <2>4
  <2>6. 1 \in 1..n /\ ~(i < 1)
    BY <1>1, <1>9, <2>5
  <2>7. c.order[1] \in e.sel
    BY <1>10, <2>5, <2>6
  <2> QED BY <2>2, <2>7
<1>12. SameMarks(c, e) /\ SameMode(c, e) /\ e.normal = c.normal /\ e.lost = c.lost /\ e.primary = c.primary
  BY <1>2, <1>8, <1>11 DEF SameMarks, SameMode
<1> QED BY <1>6, <1>8, <1>10, <1>12 DEF MarkedUpto, n

LEMMA MarkedAfterIs ==
    ASSUME NEW c \in CollRecord, EachOnce(c), NEW i \in Nat, NEW S, NEW signal \in BOOLEAN,
           signal => c.sel = {} \/ (i >= 1 /\ c.order[1] \in c.sel), SelCounted(c)
    PROVE  MarkedUpto(c, i, S, Len1(c), MarkedAfter(c, i, S, signal))
<1> DEFINE n == Len1(c)
           f == MarksOf(c, i, S, signal)
           K == {k \in 0..n : MarkedUpto(c, i, S, k, f[k])}
<1>1. n \in Nat /\ c.sel \subseteq Range(c.order)
  BY OrderIs DEF SelCounted
<1>2. MarkedAfter(c, i, S, signal) = f[n]
  BY DEF MarkedAfter, MarksOf
<1>3. \A k \in 0..n : f[k] = IF k <= i THEN c ELSE MarkStep(c, S, signal, k, f[k - 1])
  BY <1>1, MarksEach DEF MarkEach
<1> HIDE DEF f
<1>4. ASSUME NEW k \in 0..n, k <= i PROVE MarkedUpto(c, i, S, k, f[k])
  <2>1. f[k] = c
    BY <1>3, <1>4
  <2>2. \A j \in 1..n : ~(i < j /\ j <= k)
    BY <1>1, <1>4
  <2> QED BY <2>1, <2>2 DEF MarkedUpto, SameMarks, SameMode
<1>5. 0 \in K
  BY <1>1, <1>4
<1>6. ASSUME NEW k \in 0..n, k \in K, k < n PROVE k + 1 \in K
  <2>1. k + 1 \in 0..n /\ k + 1 \in 1..n /\ (k + 1) - 1 = k
    BY <1>1, <1>6
  <2>2. CASE k + 1 <= i
    BY <1>4, <2>1, <2>2
  <2>3. CASE ~(k + 1 <= i)
    <3>1. f[k + 1] = MarkStep(c, S, signal, k + 1, f[k])
      BY <1>3, <2>1, <2>3
    <3>2. k + 1 > i
      BY <2>1, <2>3
    <3>3. MarkedUpto(c, i, S, (k + 1) - 1, f[k])
      BY <1>6, <2>1
    <3>4. MarkedUpto(c, i, S, k + 1, MarkStep(c, S, signal, k + 1, f[k]))
      BY <1>1, <2>1, <3>2, <3>3, MarkedUptoMore
    <3> QED BY <2>1, <3>1, <3>4
  <2> QED BY <2>2, <2>3
<1>7. 0..n \subseteq K
  <2> HIDE DEF K
  <2> QED BY <1>1, <1>5, <1>6, UpTo
<1>8. n \in K
  <2>1. n \in 0..n
    BY <1>1
  <2> QED BY <1>7, <2>1, Zenon
<1> QED BY <1>2, <1>8

LEMMA SelectIfIs ==
    ASSUME NEW c \in CollRecord, EachOnce(c), SelGood(c), c.lost = FALSE, NEW S
    PROVE  Selects(c, SelectIf(c, S))
<1> DEFINE n == Len1(c)
           x == Head(c.order)
           b == Marked(c, x, TRUE, TRUE)
           d == IF c.count > 0 THEN b ELSE c
           e == MarkedAfter(d, 1, S, TRUE)
           g == Marked(e, x, x \in S, TRUE)
<1>1. /\ n \in Nat /\ c.order \in [1..n -> Item] /\ Range(c.order) = {c.order[i] : i \in 1..n}
  BY OrderIs
<1>2. CASE n = 0
  <2>1. SelectIf(c, S) = c
    BY <1>2 DEF SelectIf
  <2> QED BY <2>1 DEF Selects, SameMarks, SameMode
<1>3. CASE n # 0
  <2>1. x = c.order[1] /\ 1 \in 1..n /\ x \in Range(c.order)
    <3>1. c.order \in Seq(Item) /\ c.order # <<>>
      BY <1>3 DEF CollRecord, Len1
    <3>2. x = c.order[1]
      BY <3>1, HeadTailProperties
    <3>3. 1 \in 1..n
      BY <1>1, <1>3
    <3> HIDE DEF x, n
    <3> QED BY <1>1, <3>2, <3>3
  <2>2. SelectIf(c, S) = Changed(g)
    BY <1>3 DEF SelectIf
  <2>3. SelCounted(c) /\ c.count \in Nat /\ (c.count = 0 <=> c.sel = {})
    BY SelFinite DEF SelGood, Counted1, SelCounted
  <2> HIDE DEF x
  <2>4. /\ d \in CollRecord /\ SameMarks(c, d) /\ SameMode(c, d) /\ SelCounted(d)
        /\ d.normal = c.normal /\ d.lost = FALSE /\ d.primary = c.primary
        /\ (d.sel = {} /\ c.count = 0) \/ x \in d.sel
    <3>1. CASE c.count > 0
      <4>1. MarkedTo(c, b, x, TRUE, TRUE)
        BY <2>1, <2>3, MarkedIs
      <4>2. d = b
        BY <3>1
      <4> HIDE DEF b, d
      <4>3. b.sel = c.sel \cup {x} /\ SelCounted(b) /\ b \in CollRecord
        BY <4>1 DEF MarkedTo
      <4>4. b.count # 0
        BY <4>3, SelFinite DEF SelCounted
      <4> QED BY <4>1, <4>2, <4>3, <4>4 DEF MarkedTo
    <3>2. CASE ~(c.count > 0)
      <4>1. d = c
        BY <3>2
      <4>2. c.count = 0
        BY <2>3, <3>2
      <4> HIDE DEF d
      <4> QED BY <2>3, <4>1, <4>2 DEF SameMarks, SameMode
    <3> QED BY <3>1, <3>2
  <2> HIDE DEF d
  <2>5. d.order = c.order /\ Len1(d) = n /\ EachOnce(d)
    BY <2>4 DEF SameMarks, EachOnce, Len1
  <2>6. MarkedUpto(d, 1, S, n, e)
    <3>1. d.sel = {} \/ (1 >= 1 /\ d.order[1] \in d.sel)
      BY <2>1, <2>4, <2>5
    <3>2. 1 \in Nat
      OBVIOUS
    <3>3. MarkedUpto(d, 1, S, Len1(d), MarkedAfter(d, 1, S, TRUE))
      BY <2>4, <2>5, <3>1, <3>2, MarkedAfterIs
    <3> QED BY <2>5, <3>3
  <2> HIDE DEF e
  <2>7. /\ e \in CollRecord /\ SameMarks(d, e) /\ SameMode(d, e) /\ SelCounted(e)
        /\ e.normal = c.normal /\ e.lost = FALSE /\ e.primary = c.primary /\ e.order = c.order
    BY <2>4, <2>5, <2>6 DEF MarkedUpto, SameMarks
  <2>8. x \in d.sel => x \in e.sel
    <3>1. \A j \in 1..Len1(d) : d.order[j] \in e.sel <=> d.order[j] \in (IF 1 < j /\ j <= n THEN S ELSE d.sel)
      BY <2>6 DEF MarkedUpto
    <3>2. ~(1 < 1) /\ 1 \in 1..Len1(d)
      BY <2>1, <2>5
    <3> QED BY <2>1, <2>5, <3>1, <3>2
  <2>9. MarkedTo(e, g, x, x \in S, TRUE)
    <3>1. (x \in S) \in BOOLEAN /\ TRUE \in BOOLEAN /\ x \in Range(e.order)
      BY <2>1, <2>7
    <3> QED BY <2>7, <3>1, MarkedIs
  <2> HIDE DEF g
  <2>10. /\ g \in CollRecord /\ SameMarks(e, g) /\ SameMode(e, g) /\ SelCounted(g) /\ g.normal = c.normal
         /\ \/ g.lost = FALSE /\ g.primary = c.primary /\ (g.count > 0 \/ g.sel = e.sel)
            \/ g.lost = TRUE /\ g.primary # "us" /\ g.count = 0
    BY <2>7, <2>9 DEF MarkedTo
  <2>11. ASSUME g.primary = "us" PROVE g.count > 0 /\ g.normal
    <3>1. c.primary = "us" /\ (g.count > 0 \/ g.sel = e.sel)
      BY <2>10, <2>11
    <3>2. c.count > 0 /\ c.normal
      BY <3>1 DEF SelGood, Counted1
    <3>3. x \in e.sel
      BY <2>3, <2>4, <2>8, <3>2
    <3>4. g.count \in Nat /\ (g.count = 0 <=> g.sel = {})
      BY <2>10, SelFinite DEF SelCounted
    <3> QED BY <2>10, <3>1, <3>2, <3>3, <3>4
  <2>12. Counted1(g)
    BY <2>10, <2>11 DEF Counted1, SelCounted
  <2>13. ChangedTo(g, Changed(g))
    BY <2>10, <2>12, ChangedIs
  <2>14. SameMarks(c, g) /\ SameMode(c, g)
    BY <2>4, <2>7, <2>10 DEF SameMarks, SameMode
  <2> QED BY <2>2, <2>13, <2>14, SelectsThen DEF ChangedTo, Selects
<1> QED BY <1>2, <1>3

LEMMA ProcessAreaIs ==
    ASSUME NEW c \in CollRecord, EachOnce(c), SelGood(c), c.lost = FALSE, NEW S, NEW toggle \in BOOLEAN
    PROVE  Selects(c, ProcessArea(c, S, toggle))
<1> DEFINE n == Len1(c)
           W == IF toggle THEN (c.sel \ S) \cup (S \ c.sel) ELSE c.sel \cup S
           d == MarkedAfter(c, 0, W, FALSE)
           e == IF d.count = 0 /\ c.count > 0 THEN Lose(d) ELSE d
<1>1. /\ n \in Nat /\ c.order \in [1..n -> Item] /\ Range(c.order) = {c.order[i] : i \in 1..n}
  BY OrderIs
<1>2. SelCounted(c) /\ c.count \in Nat /\ (c.count = 0 <=> c.sel = {}) /\ c.sel \subseteq Range(c.order)
  BY SelFinite DEF SelGood, Counted1, SelCounted
<1>3. ProcessArea(c, S, toggle) = IF S \cap Range(c.order) = {} THEN e ELSE Changed(e)
  BY DEF ProcessArea
<1> HIDE DEF W
<1>4. MarkedUpto(c, 0, W, n, d)
  <2>1. 0 \in Nat /\ FALSE \in BOOLEAN
    OBVIOUS
  <2> QED BY <1>2, <2>1, MarkedAfterIs
<1> HIDE DEF d
<1>5. /\ d \in CollRecord /\ SameMarks(c, d) /\ SameMode(c, d) /\ SelCounted(d)
      /\ d.normal = c.normal /\ d.lost = FALSE /\ d.primary = c.primary /\ d.order = c.order
  BY <1>4 DEF MarkedUpto, SameMarks
<1>6. d.count \in Nat /\ (d.count = 0 <=> d.sel = {})
  BY <1>5, SelFinite DEF SelCounted
<1>7. e \in CollRecord /\ SameMarks(c, e) /\ SameMode(c, e) /\ Counted1(e)
  <2>1. CASE d.count = 0 /\ c.count > 0
    <3> DEFINE g == Lose(d)
    <3>1. g \in CollRecord /\ SameMarks(d, g) /\ SameMode(d, g) /\ g.sel = d.sel /\ g.count = d.count
          /\ g.normal = d.normal /\ g.lost = TRUE /\ g.primary # "us"
      BY <1>5, LoseIs
    <3>2. e = g
      BY <2>1
    <3> HIDE DEF g, e
    <3>3. SameMarks(c, g) /\ SameMode(c, g) /\ g.order = d.order
      BY <1>5, <3>1 DEF SameMarks, SameMode
    <3>4. Counted1(g)
      BY <1>5, <2>1, <3>1, <3>3 DEF Counted1, SelCounted
    <3> QED BY <3>1, <3>2, <3>3, <3>4
  <2>2. CASE ~(d.count = 0 /\ c.count > 0)
    <3>1. e = d
      BY <2>2
    <3>2. d.primary = "us" => d.count > 0 /\ d.normal
      BY <1>5, <1>6, <2>2 DEF SelGood, Counted1
    <3>3. Counted1(d)
      BY <1>5, <3>2 DEF Counted1, SelCounted
    <3> HIDE DEF e
    <3> QED BY <1>5, <3>1, <3>3
  <2> QED BY <2>1, <2>2
<1>8. CASE S \cap Range(c.order) # {}
  <2> HIDE DEF e
  <2>1. ChangedTo(e, Changed(e))
    BY <1>7, ChangedIs
  <2> QED BY <1>3, <1>7, <1>8, <2>1, SelectsThen DEF ChangedTo, Selects
<1>9. CASE S \cap Range(c.order) = {}
  <2>1. d.sel = c.sel
    <3>1. \A j \in 1..n : c.order[j] \in d.sel <=> c.order[j] \in W
      <4>1. \A j \in 1..n : c.order[j] \in d.sel <=> c.order[j] \in (IF 0 < j /\ j <= n THEN W ELSE c.sel)
        BY <1>4 DEF MarkedUpto
      <4>2. \A j \in 1..n : 0 < j /\ j <= n
        BY <1>1
      <4> QED BY <4>1, <4>2
    <3>2. \A j \in 1..n : c.order[j] \in W <=> c.order[j] \in c.sel
      BY <1>1, <1>9 DEF W
    <3>3. \A y \in Range(c.order) : y \in d.sel <=> y \in c.sel
      BY <1>1, <3>1, <3>2
    <3>4. d.sel \subseteq Range(c.order) /\ c.sel \subseteq Range(c.order)
      BY <1>2, <1>5 DEF SelCounted
    <3> QED BY <3>3, <3>4
  <2>2. d.count = c.count
    BY <1>2, <1>5, <2>1 DEF SelCounted
  <2>3. e = d
    BY <1>2, <2>2
  <2> HIDE DEF e
  <2>4. d.count > 0 => (d.normal <=> d.primary = "us")
    <3>1. c.count > 0 => (c.normal <=> c.primary = "us")
      BY DEF SelGood
    <3> QED BY <1>5, <2>2, <3>1
  <2>5. SelGood(e)
    BY <1>7, <2>3, <2>4 DEF SelGood
  <2> QED BY <1>3, <1>7, <1>9, <2>5 DEF Selects
<1> QED BY <1>8, <1>9

--------------------
(* The order, and the marks that follow it. *)
LEMMA BeforeOrder ==
    ASSUME NEW c \in CollRecord, NEW x \in Item, NEW y \in Item, NEW z \in Item
    PROVE  /\ ~Before(c, x, x)
           /\ Before(c, x, y) => ~Before(c, y, x)
           /\ Before(c, x, y) /\ Before(c, y, z) => Before(c, x, z)
           /\ x = y \/ Before(c, x, y) \/ Before(c, y, x)
<1>1. c.key \in [Item -> Int]
  BY DEF CollRecord
<1>2. x \in Int /\ y \in Int /\ z \in Int /\ c.key[x] \in Int /\ c.key[y] \in Int /\ c.key[z] \in Int
  <2>1. Item \subseteq Int
    BY CollectionAssumption DEF Item
  <2> QED BY <1>1, <2>1
<1> QED BY <1>2 DEF Before

SameSelection(c, d) ==
    /\ d.sel = c.sel /\ d.count = c.count /\ d.primary = c.primary /\ d.normal = c.normal
    /\ d.temp = c.temp /\ d.popup = c.popup /\ d.lost = c.lost /\ d.refused = c.refused

LEMMA SelectionKept ==
    ASSUME NEW c, NEW d, SelGood(c), SameSelection(c, d), Range(c.order) \subseteq Range(d.order)
    PROVE  SelGood(d)
<1>1. d.sel \subseteq Range(d.order)
  BY DEF SelGood, Counted1, SameSelection
<1> QED BY <1>1, Zenon DEF SelGood, Counted1, SameSelection

LEMMA MarksKept ==
    ASSUME NEW c, NEW d, MarksGood(c), SameMarks(c, d)
    PROVE  MarksGood(d)
<1>1. Len1(d) = Len1(c) /\ (EachOnce(c) => EachOnce(d)) /\ \A i : InRange(c, i) <=> InRange(d, i)
  BY DEF SameMarks, Len1, EachOnce, InRange
<1> QED BY <1>1 DEF MarksGood, SameMarks

(* Where an item is. *)
LEMMA PositionIs ==
    ASSUME NEW d, NEW x, Len1(d) \in Nat, NEW k \in 1..Len1(d), d.order[k] = x,
           \A i, j \in 1..Len1(d) : d.order[i] = d.order[j] => i = j
    PROVE  PositionOf(d, x) = k - 1 /\ InRange(d, k - 1) /\ At(d, k - 1) = x
<1> DEFINE p == CHOOSE i \in 1..Len1(d) : d.order[i] = x
<1>1. p \in 1..Len1(d) /\ d.order[p] = x
  OBVIOUS
<1>2. PositionOf(d, x) = p - 1
  BY DEF PositionOf
<1> HIDE DEF p
<1>3. p = k
  BY <1>1
<1>4. k - 1 \in 0..(Len1(d) - 1) /\ (k - 1) + 1 = k
  OBVIOUS
<1> QED BY <1>2, <1>3, <1>4 DEF InRange, At

(* An item that a mark is on. *)
OnItem(c, i, d, j) == InRange(c, i) => InRange(d, j) /\ At(d, j) = At(c, i)
LEMMA MovedIs ==
    ASSUME NEW c \in CollRecord, EachOnce(c), NEW d, Len1(d) \in Nat,
           \A i, j \in 1..Len1(d) : d.order[i] = d.order[j] => i = j,
           \A x \in Range(c.order) : \E j \in 1..Len1(d) : d.order[j] = x,
           NEW i \in Int
    PROVE  /\ Moved(c, d, i) \in Int /\ OnItem(c, i, d, Moved(c, d, i))
           /\ ~InRange(c, i) => Moved(c, d, i) = i
<1>1. CASE ~InRange(c, i)
  BY <1>1 DEF Moved, OnItem
<1>2. CASE InRange(c, i)
  <2> DEFINE x == At(c, i)
  <2>1. x \in Range(c.order)
    <3>1. PICK n \in Nat : n = Len1(c) /\ DOMAIN c.order = 1..n
      BY OrderIs
    <3>2. i + 1 \in 1..n
      BY <1>2, <3>1 DEF InRange
    <3> QED BY <3>1, <3>2 DEF At, Range
  <2>2. PICK k \in 1..Len1(d) : d.order[k] = x
    BY <2>1
  <2>3. PositionOf(d, x) = k - 1 /\ InRange(d, k - 1) /\ At(d, k - 1) = x
    <3> HIDE DEF x
    <3> QED BY <2>2, PositionIs
  <2>4. Moved(c, d, i) = k - 1 /\ k - 1 \in Int
    BY <1>2, <2>3 DEF Moved
  <2> QED BY <1>2, <2>3, <2>4 DEF OnItem
<1> QED BY <1>1, <1>2

InOrder1(c) == \A i, j \in 1..Len1(c) : i < j => Before(c, c.order[i], c.order[j])
SortedFrom(c, d) ==
    /\ d \in CollRecord /\ EachOnce(d) /\ SameSelection(c, d)
    /\ Len1(d) = Len1(c) /\ Range(d.order) = Range(c.order) /\ InOrder1(d)
    /\ d.key = c.key /\ d.winks = c.winks /\ d.timer = c.timer /\ d.mapped = c.mapped
    /\ OnItem(c, c.cursor, d, d.cursor) /\ OnItem(c, c.wink, d, d.wink)
    /\ OnItem(c, c.pending, d, d.pending)
    /\ ~InRange(c, c.cursor) => d.cursor = c.cursor
    /\ ~InRange(c, c.wink) => d.wink = c.wink

LEMMA SortOrders ==
    ASSUME NEW c \in CollRecord, EachOnce(c)
    PROVE  Orders(Range(c.order), InSortOrder(c))
<1> DEFINE W == Range(c.order)
           R == InSortOrder(c)
<1>1. W \subseteq Item /\ IsFiniteSet(W)
  BY OrderIs
<1>2. \A x, y \in W : <<x, y>> \in R <=> Before(c, x, y)
  BY DEF InSortOrder
<1> HIDE DEF W, R
<1>3. \A x \in W : <<x, x>> \notin R
  BY <1>1, <1>2, BeforeOrder
<1>4. \A x, y, z \in W : <<x, y>> \in R /\ <<y, z>> \in R => <<x, z>> \in R
  <2>1. ASSUME NEW x \in W, NEW y \in W, NEW z \in W, <<x, y>> \in R, <<y, z>> \in R PROVE <<x, z>> \in R
    <3>1. x \in Item /\ y \in Item /\ z \in Item /\ Before(c, x, y) /\ Before(c, y, z)
      BY <1>1, <1>2, <2>1
    <3>2. Before(c, x, z)
      BY <3>1, BeforeOrder
    <3> QED BY <1>2, <3>2
  <2> QED BY <2>1
<1>5. \A x, y \in W : x = y \/ <<x, y>> \in R \/ <<y, x>> \in R
  <2>1. ASSUME NEW x \in W, NEW y \in W PROVE x = y \/ <<x, y>> \in R \/ <<y, x>> \in R
    <3>1. x \in Item /\ y \in Item
      BY <1>1
    <3>2. x = y \/ Before(c, x, y) \/ Before(c, y, x)
      BY <3>1, BeforeOrder
    <3> QED BY <1>2, <3>2
  <2> QED BY <2>1
<1> QED BY <1>1, <1>3, <1>4, <1>5 DEF Orders, W, R

LEMMA SortedAll ==
    ASSUME NEW c \in CollRecord, EachOnce(c), Len1(c) < 2 \/ Sorted(c)
    PROVE  InOrder1(c)
<1> DEFINE n == Len1(c)
           K == {m \in 0..n : \A i, j \in 1..n : i < j /\ j <= m => Before(c, c.order[i], c.order[j])}
<1>1. n \in Nat /\ c.order \in [1..n -> Item]
  BY OrderIs
<1>2. \A i \in 1..(n - 1) : Before(c, c.order[i], c.order[i + 1])
  BY <1>1 DEF Sorted
<1> HIDE DEF n
<1>3. 0 \in K
  BY <1>1
<1>4. ASSUME NEW m \in 0..n, m \in K, m < n PROVE m + 1 \in K
  <2>1. ASSUME NEW i \in 1..n, NEW j \in 1..n, i < j, j <= m + 1 PROVE Before(c, c.order[i], c.order[j])
    <3>1. CASE j <= m
      BY <1>4, <2>1, <3>1
    <3>2. CASE j = m + 1
      <4>1. m \in 1..(n - 1) /\ m \in 1..n /\ Before(c, c.order[m], c.order[j])
        BY <1>1, <1>2, <1>4, <2>1, <3>2
      <4>2. CASE i = m
        BY <4>1, <4>2
      <4>3. CASE i < m
        <5>1. Before(c, c.order[i], c.order[m])
          BY <1>1, <1>4, <4>1, <4>3
        <5>2. c.order[i] \in Item /\ c.order[m] \in Item /\ c.order[j] \in Item
          BY <1>1, <4>1
        <5> QED BY <4>1, <5>1, <5>2, BeforeOrder
      <4> QED BY <1>1, <2>1, <3>2, <4>2, <4>3
    <3> QED BY <1>1, <2>1, <3>1, <3>2
  <2>2. m + 1 \in 0..n
    BY <1>1, <1>4
  <2> QED BY <2>1, <2>2
<1>5. 0..n \subseteq K
  <2> HIDE DEF K
  <2> QED BY <1>1, <1>3, <1>4, UpTo
<1>6. n \in K
  <2>1. n \in 0..n
    BY <1>1
  <2> QED BY <1>5, <2>1, Zenon
<1>7. \A i, j \in 1..n : i < j => Before(c, c.order[i], c.order[j])
  BY <1>1, <1>6
<1> QED BY <1>7 DEF InOrder1, n

MarksTo(c, d, o, cu, pe, wi, ol) ==
    /\ d \in CollRecord /\ SameSelection(c, d)
    /\ d.order = o /\ d.cursor = cu /\ d.pending = pe /\ d.wink = wi /\ d.old = ol
    /\ d.key = c.key /\ d.winks = c.winks /\ d.timer = c.timer /\ d.mapped = c.mapped
    /\ d.columns = c.columns /\ d.vertical = c.vertical

LEMMA OrderPut ==
    ASSUME NEW c \in CollRecord, NEW o \in Seq(Item)
    PROVE  MarksTo(c, [c EXCEPT !.order = o], o, c.cursor, c.pending, c.wink, c.old)
<1> DEFINE d == [c EXCEPT !.order = o]
<1>1. d \in CollRecord
  BY DEF CollRecord
<1>2. SameSelection(c, d)
  BY DEF CollRecord, SameSelection
<1>3. MarksTo(c, d, o, c.cursor, c.pending, c.wink, c.old)
  BY <1>1, <1>2 DEF CollRecord, MarksTo
<1> QED BY <1>3

LEMMA MarksPut ==
    ASSUME NEW c \in CollRecord, NEW cu \in Int, NEW pe \in Int, NEW wi \in Int, NEW ol \in Int
    PROVE  MarksTo(c, [c EXCEPT !.cursor = cu, !.pending = pe, !.wink = wi, !.old = ol],
                   c.order, cu, pe, wi, ol)
<1> DEFINE d == [c EXCEPT !.cursor = cu, !.pending = pe, !.wink = wi, !.old = ol]
<1>1. d \in CollRecord
  BY DEF CollRecord
<1>2. SameSelection(c, d)
  BY DEF CollRecord, SameSelection
<1>3. MarksTo(c, d, c.order, cu, pe, wi, ol)
  BY <1>1, <1>2 DEF CollRecord, MarksTo
<1> QED BY <1>3

LEMMA MarksAre ==
    ASSUME NEW c \in CollRecord
    PROVE  /\ c.cursor \in Int /\ c.pending \in Int /\ c.wink \in Int /\ c.old \in Int /\ c.order \in Seq(Item)
           /\ c.winks \in Int /\ c.timer \in BOOLEAN
BY DEF CollRecord

(* An array rearranged: as a function, and where its items are. *)
LEMMA OrderFrom ==
    ASSUME NEW n \in Nat, NEW o \in [1..n -> Item]
    PROVE  o \in Seq(Item) /\ Len(o) = n /\ Range(o) = {o[j] : j \in 1..n}
<1>1. o \in Seq(Item) /\ Len(o) = n
  BY SeqDef
<1>2. DOMAIN o = 1..n
  OBVIOUS
<1> QED BY <1>1, <1>2 DEF Range

LEMMA QsortIs ==
    ASSUME NEW c \in CollRecord, EachOnce(c)
    PROVE  SortedFrom(c, Qsort(c))
<1>1. CASE Len1(c) < 2 \/ Sorted(c)
  <2>1. Qsort(c) = c /\ InOrder1(c)
    BY <1>1, SortedAll DEF Qsort
  <2> QED BY <2>1 DEF SortedFrom, SameSelection, OnItem
<1>2. CASE ~(Len1(c) < 2 \/ Sorted(c))
  <2> DEFINE W == Range(c.order)
             R == InSortOrder(c)
             o == Arranged(W, R)
             d == [c EXCEPT !.order = o]
             cu == Moved(c, d, d.cursor)
             pe == Moved(c, d, d.pending)
             wi == Moved(c, d, d.wink)
             ol == IF InRange(c, c.wink) THEN Moved(c, d, c.wink) ELSE d.old
             e == [d EXCEPT !.cursor = cu, !.pending = pe, !.wink = wi, !.old = ol]
  <2>1. PICK n \in Nat : n = Len1(c) /\ W \subseteq Item /\ Cardinality(W) = n
    BY OrderIs
  <2>2. ArrangedRight(W, R, n, o)
    BY <2>1, SortOrders, Arranges
  <2>3. Qsort(c) = e
    BY <1>2 DEF Qsort
  <2> HIDE DEF o
  <2>4. o \in [1..n -> Item] /\ \A x \in W : \E j \in 1..n : o[j] = x
    BY <2>1, <2>2 DEF ArrangedRight
  <2>5. o \in Seq(Item) /\ Len(o) = n /\ Range(o) = {o[j] : j \in 1..n}
    BY <2>4, OrderFrom
  <2>6. Range(o) = W
    BY <2>2, <2>4, <2>5 DEF ArrangedRight
  <2>7. MarksTo(c, d, o, c.cursor, c.pending, c.wink, c.old)
    BY <2>5, OrderPut
  <2>8. /\ d \in CollRecord /\ d.order = o /\ d.cursor = c.cursor /\ d.pending = c.pending
        /\ d.wink = c.wink /\ d.old = c.old /\ SameSelection(c, d) /\ Len1(d) = n
    BY <2>5, <2>7 DEF MarksTo, Len1
  <2>9. \A i, j \in 1..Len1(d) : d.order[i] = d.order[j] => i = j
    BY <2>2, <2>8 DEF ArrangedRight
  <2>10. \A x \in Range(c.order) : \E j \in 1..Len1(d) : d.order[j] = x
    BY <2>4, <2>8
  <2> HIDE DEF W, R
  <2>11. ASSUME NEW i \in Int
         PROVE  /\ Moved(c, d, i) \in Int /\ OnItem(c, i, d, Moved(c, d, i))
                /\ ~InRange(c, i) => Moved(c, d, i) = i
    <3> HIDE DEF d
    <3>1. Len1(d) \in Nat
      BY <2>8
    <3> QED BY <2>9, <2>10, <3>1, MovedIs
  <2>12. cu \in Int /\ pe \in Int /\ wi \in Int /\ ol \in Int
    <3>1. d.cursor \in Int /\ d.pending \in Int /\ d.wink \in Int /\ d.old \in Int /\ c.wink \in Int
      BY <2>8, MarksAre
    <3> HIDE DEF d
    <3> QED BY <2>11, <3>1
  <2>13. /\ OnItem(c, c.cursor, d, cu) /\ OnItem(c, c.wink, d, wi) /\ OnItem(c, c.pending, d, pe)
         /\ ~InRange(c, c.cursor) => cu = c.cursor
         /\ ~InRange(c, c.wink) => wi = c.wink
    <3>1. c.cursor \in Int /\ c.pending \in Int /\ c.wink \in Int
      BY MarksAre
    <3> HIDE DEF d
    <3> QED BY <2>8, <2>11, <3>1
  <2> HIDE DEF cu, pe, wi, ol, d
  <2>14. MarksTo(d, e, d.order, cu, pe, wi, ol)
    BY <2>8, <2>12, MarksPut
  <2> HIDE DEF e
  <2>15. /\ e \in CollRecord /\ SameSelection(c, e) /\ e.order = o /\ Len1(e) = n
         /\ e.cursor = cu /\ e.pending = pe /\ e.wink = wi
         /\ e.key = c.key /\ e.winks = c.winks /\ e.timer = c.timer /\ e.mapped = c.mapped
    BY <2>5, <2>7, <2>8, <2>14 DEF MarksTo, SameSelection, Len1
  <2>16. EachOnce(e)
    BY <2>2, <2>15 DEF EachOnce, ArrangedRight
  <2>17. \A x, y \in Item : Before(e, x, y) <=> Before(c, x, y)
    BY <2>15 DEF Before
  <2>18. InOrder1(e)
    <3>1. ASSUME NEW i \in 1..n, NEW j \in 1..n, i < j PROVE Before(e, o[i], o[j])
      <4>1. <<o[i], o[j]>> \in R
        BY <2>2, <3>1 DEF ArrangedRight
      <4>2. Before(c, o[i], o[j])
        BY <4>1 DEF R, InSortOrder
      <4> QED BY <2>4, <2>17, <4>2
    <3> QED BY <2>15, <3>1 DEF InOrder1
  <2>19. \A i, j \in Int : OnItem(c, i, d, j) => OnItem(c, i, e, j)
    BY <2>8, <2>15 DEF OnItem, InRange, At
  <2>20. c.cursor \in Int /\ c.pending \in Int /\ c.wink \in Int
    BY MarksAre
  <2>21. OnItem(c, c.cursor, e, cu) /\ OnItem(c, c.wink, e, wi) /\ OnItem(c, c.pending, e, pe)
    BY <2>12, <2>13, <2>19, <2>20
  <2>22. Range(e.order) = Range(c.order)
    BY <2>6, <2>15 DEF W
  <2>23. Len1(e) = Len1(c)
    BY <2>1, <2>15
  <2> QED BY <2>3, <2>13, <2>15, <2>16, <2>18, <2>21, <2>22, <2>23 DEF SortedFrom
<1> QED BY <1>1, <1>2

LEMMA QsortKeeps ==
    ASSUME NEW c \in CollRecord, NEW d \in CollRecord, MarksGood(c), SortedFrom(c, d)
    PROVE  MarksGood(d)
<1>1. d.timer = c.timer /\ EachOnce(d) /\ Len1(d) = Len1(c)
  BY DEF SortedFrom
<1>2. InRange(d, d.cursor) \/ d.cursor = -1 \/ (d.cursor = 0 /\ Len1(d) = 0)
  BY <1>1 DEF SortedFrom, MarksGood, OnItem
<1>3. d.wink # -1 <=> c.wink # -1
  <2>1. CASE InRange(c, c.wink)
    <3>1. InRange(d, d.wink)
      BY <2>1 DEF SortedFrom, OnItem
    <3> QED BY <2>1, <3>1 DEF InRange
  <2>2. CASE ~InRange(c, c.wink)
    BY <2>2 DEF SortedFrom
  <2> QED BY <2>1, <2>2
<1>4. d.timer => InRange(d, d.wink)
  BY <1>1 DEF SortedFrom, MarksGood, OnItem
<1>5. d.timer <=> d.wink # -1
  BY <1>1, <1>3 DEF MarksGood
<1> QED BY <1>1, <1>2, <1>4, <1>5 DEF MarksGood

(* What is left after a deletion, in the order of the array. *)
LEMMA KeepsOrder ==
    ASSUME NEW c \in CollRecord, EachOnce(c), NEW S
    PROVE  /\ Orders(Range(c.order) \ S, InArrayOrder(c))
           /\ \A i \in 1..Len1(c) : PositionOf(c, c.order[i]) = i - 1
<1> DEFINE n == Len1(c)
           W == Range(c.order)
           V == Range(c.order) \ S
           R == InArrayOrder(c)
<1>1. /\ n \in Nat /\ \A i, j \in 1..n : c.order[i] = c.order[j] => i = j
      /\ W = {c.order[i] : i \in 1..n} /\ IsFiniteSet(W)
  BY OrderIs
<1>2. \A i \in 1..n : PositionOf(c, c.order[i]) = i - 1
  BY <1>1, PositionIs
<1>3. \A x \in W : PositionOf(c, x) \in Int
  BY <1>1, <1>2
<1>4. \A x, y \in W : PositionOf(c, x) = PositionOf(c, y) => x = y
  BY <1>1, <1>2
<1>5. \A x, y \in W : <<x, y>> \in R <=> PositionOf(c, x) < PositionOf(c, y)
  BY DEF InArrayOrder
<1>6. V \in SUBSET W /\ IsFiniteSet(V)
  <2>1. V \in SUBSET W
    OBVIOUS
  <2> QED BY <1>1, <2>1, FS_Subset, Zenon
<1> HIDE DEF V, W, R
<1>7. \A x \in V : <<x, x>> \notin R
  BY <1>3, <1>5, <1>6
<1>8. \A x, y, z \in V : <<x, y>> \in R /\ <<y, z>> \in R => <<x, z>> \in R
  BY <1>3, <1>5, <1>6
<1>9. \A x, y \in V : x = y \/ <<x, y>> \in R \/ <<y, x>> \in R
  <2>1. ASSUME NEW x \in V, NEW y \in V, x # y PROVE <<x, y>> \in R \/ <<y, x>> \in R
    <3>1. x \in W /\ y \in W
      BY <1>6
    <3>2. PositionOf(c, x) \in Int /\ PositionOf(c, y) \in Int
      BY <1>3, <3>1
    <3>3. PositionOf(c, x) # PositionOf(c, y)
      BY <1>4, <2>1, <3>1
    <3>4. PositionOf(c, x) < PositionOf(c, y) \/ PositionOf(c, y) < PositionOf(c, x)
      BY <3>2, <3>3
    <3> QED BY <1>5, <3>1, <3>4
  <2> QED BY <2>1
<1> QED BY <1>2, <1>6, <1>7, <1>8, <1>9 DEF Orders, V, R, n

(* Where the cursor goes: below it there are as many as are kept. *)
GoneIn(c, S) == {i \in 0..(Len1(c) - 1) : At(c, i) \in S}
CursorAfter(c, S) == c.cursor - Cardinality({i \in GoneIn(c, S) : i <= c.cursor})

LEMMA CursorGoesBack ==
    ASSUME NEW c \in CollRecord, EachOnce(c), NEW S, InRange(c, c.cursor),
           NEW m, NEW o, ArrangedRight(Range(c.order) \ S, InArrayOrder(c), m, o)
    PROVE  /\ CursorAfter(c, S) \in -1..(m - 1)
           /\ At(c, c.cursor) \notin S =>
                CursorAfter(c, S) \in 0..(m - 1) /\ o[CursorAfter(c, S) + 1] = At(c, c.cursor)
<1> DEFINE n == Len1(c)
           k == c.cursor
           W == Range(c.order) \ S
           R == InArrayOrder(c)
           Gone == {i \in GoneIn(c, S) : i <= k}
           Left == {i \in 0..k : At(c, i) \notin S}
           Items1 == {x \in W : PositionOf(c, x) <= k}
           item == [i \in Left |-> At(c, i)]
<1>1. /\ n \in Nat /\ \A i, j \in 1..n : c.order[i] = c.order[j] => i = j
      /\ Range(c.order) = {c.order[i] : i \in 1..n} /\ IsFiniteSet(Range(c.order))
  BY OrderIs
<1>2. k \in 0..(n - 1) /\ k \in Nat
  BY <1>1 DEF InRange
<1>3. \A i \in 1..n : PositionOf(c, c.order[i]) = i - 1
  BY KeepsOrder
<1>4. \A i \in 0..k : i + 1 \in 1..n /\ At(c, i) = c.order[i + 1] /\ At(c, i) \in Range(c.order)
      /\ PositionOf(c, At(c, i)) = i
  BY <1>1, <1>2, <1>3 DEF At
<1>5. Cardinality(0..k) = k + 1 /\ IsFiniteSet(0..k)
  <2>1. 0 \in Int /\ k \in Int
    BY <1>2
  <2>2. IsFiniteSet(0..k) /\ Cardinality(0..k) = IF 0 > k THEN 0 ELSE k - 0 + 1
    BY <2>1, FS_Interval
  <2> QED BY <1>2, <2>2
<1>6. 0..k = Gone \cup Left /\ Gone \cap Left = {}
  BY <1>1, <1>2 DEF GoneIn
<1>7. IsFiniteSet(Gone) /\ IsFiniteSet(Left)
  <2>1. Gone \in SUBSET (0..k) /\ Left \in SUBSET (0..k)
    BY <1>6
  <2> QED BY <1>5, <2>1, FS_Subset, Zenon
<1> HIDE DEF Gone, Left
<1>8. Cardinality(Gone) + Cardinality(Left) = k + 1 /\ Cardinality(Gone) \in Nat /\ Cardinality(Left) \in Nat
  <2>1. Cardinality(Gone \cup Left) = Cardinality(Gone) + Cardinality(Left) - Cardinality(Gone \cap Left)
    BY <1>7, FS_Union
  <2>2. Cardinality(Gone \cap Left) = 0
    BY <1>6, FS_EmptySet
  <2>3. Cardinality(Gone) \in Nat /\ Cardinality(Left) \in Nat
    BY <1>7, FS_CardinalityType, Zenon
  <2>4. Cardinality(Gone \cup Left) = k + 1
    BY <1>5, <1>6
  <2> HIDE DEF k
  <2> QED BY <1>2, <2>1, <2>2, <2>3, <2>4
<1>9. CursorAfter(c, S) = Cardinality(Left) - 1
  <2>1. CursorAfter(c, S) = k - Cardinality(Gone)
    BY DEF CursorAfter, Gone
  <2> QED BY <1>2, <1>8, <2>1
<1>10. IsFiniteSet(Items1) /\ IsFiniteSet(W) /\ Cardinality(Items1) <= Cardinality(W)
  <2>1. W \in SUBSET Range(c.order) /\ Items1 \in SUBSET W
    OBVIOUS
  <2>2. IsFiniteSet(W)
    BY <1>1, <2>1, FS_Subset, Zenon
  <2> QED BY <2>1, <2>2, FS_Subset, Zenon
<1>11. item \in [Left -> Items1]
  <2>1. ASSUME NEW i \in Left PROVE At(c, i) \in Items1
    <3>1. i \in 0..k /\ At(c, i) \notin S /\ i <= k
      BY <1>2 DEF Left
    <3> QED BY <1>4, <3>1
  <2> HIDE DEF Items1
  <2> QED BY <2>1
<1>12. item \in Bijection(Left, Items1)
  <2>1. \A i, j \in Left : item[i] = item[j] => i = j
    BY <1>4 DEF Left
  <2>2. \A x \in Items1 : \E i \in Left : item[i] = x
    <3>1. ASSUME NEW x \in Items1 PROVE \E i \in Left : item[i] = x
      <4>1. PICK j \in 1..n : x = c.order[j]
        BY <1>1
      <4>2. PositionOf(c, x) = j - 1 /\ j - 1 <= k /\ x \notin S
        BY <1>3, <4>1
      <4>3. j - 1 \in 0..k /\ At(c, j - 1) = x
        BY <1>1, <1>2, <4>1, <4>2 DEF At
      <4>4. j - 1 \in Left
        BY <4>2, <4>3 DEF Left
      <4> QED BY <4>3, <4>4
    <3> QED BY <3>1
  <2> HIDE DEF item, Items1
  <2>3. item \in Injection(Left, Items1)
    BY <1>11, <2>1 DEF Injection, IsInjective
  <2>4. item \in Surjection(Left, Items1)
    BY <1>11, <2>2 DEF Surjection
  <2> QED BY <2>3, <2>4 DEF Bijection
<1>13. Cardinality(Items1) = Cardinality(Left)
  <2>1. Cardinality(Left) = Cardinality(Items1)
    <3> HIDE DEF item, Items1
    <3>1. ExistsBijection(Left, Items1)
      BY <1>12 DEF ExistsBijection
    <3> QED BY <1>7, <3>1, FS_Bijection, Zenon
  <2> QED BY <2>1
<1>14. m = Cardinality(W) /\ m \in Nat
  BY DEF ArrangedRight
<1>15. CursorAfter(c, S) \in -1..(m - 1)
  <2>1. Cardinality(Left) <= m
    BY <1>10, <1>13, <1>14
  <2> HIDE DEF W, Items1
  <2> QED BY <1>8, <1>9, <1>14, <2>1
<1>16. ASSUME At(c, k) \notin S
       PROVE  CursorAfter(c, S) \in 0..(m - 1) /\ o[CursorAfter(c, S) + 1] = At(c, k)
  <2> DEFINE x == At(c, k)
  <2>1. x \in W /\ PositionOf(c, x) = k /\ x \in Range(c.order)
    BY <1>2, <1>4, <1>16
  <2>2. PICK j \in 1..m : o[j] = x
    BY <2>1 DEF ArrangedRight
  <2>3. Cardinality(Below(W, R, x)) = j - 1
    BY <2>2 DEF ArrangedRight
  <2>4. Items1 = Below(W, R, x) \cup {x} /\ x \notin Below(W, R, x)
    <3>1. \A y \in W : y \in Range(c.order) /\ PositionOf(c, y) \in Int /\ (PositionOf(c, y) = k => y = x)
      <4>1. ASSUME NEW y \in W PROVE y \in Range(c.order) /\ PositionOf(c, y) \in Int /\ (PositionOf(c, y) = k => y = x)
        <5>1. PICK a \in 1..n : y = c.order[a]
          BY <1>1
        <5>2. PositionOf(c, y) = a - 1
          BY <1>3, <5>1
        <5>3. a - 1 = k => y = x
          BY <5>1 DEF At
        <5> QED BY <5>1, <5>2, <5>3
      <4> QED BY <4>1
    <3>2. \A y \in W : <<y, x>> \in R <=> PositionOf(c, y) < k
      BY <2>1 DEF InArrayOrder
    <3> HIDE DEF x, W, R
    <3>3. \A y \in W : y \in Below(W, R, x) <=> PositionOf(c, y) < k
      BY <3>2 DEF Below
    <3>4. \A y \in W : PositionOf(c, y) <= k <=> (PositionOf(c, y) < k \/ y = x)
      BY <1>2, <2>1, <3>1
    <3>5. Below(W, R, x) \subseteq W
      BY DEF Below
    <3>6. x \notin Below(W, R, x)
      BY <1>2, <2>1, <3>3
    <3> QED BY <2>1, <3>3, <3>4, <3>5, <3>6
  <2>5. IsFiniteSet(Below(W, R, x))
    <3>1. Below(W, R, x) \in SUBSET W
      BY DEF Below
    <3> QED BY <1>10, <3>1, FS_Subset, Zenon
  <2> HIDE DEF x, W, R, Items1
  <2>6. Cardinality(Items1) = Cardinality(Below(W, R, x)) + 1
    BY <2>4, <2>5, FS_AddElement
  <2>7. CursorAfter(c, S) = j - 1
    BY <1>9, <1>13, <1>14, <2>2, <2>3, <2>6
  <2>8. CursorAfter(c, S) \in 0..(m - 1) /\ CursorAfter(c, S) + 1 = j
    BY <1>14, <2>2, <2>7
  <2> QED BY <2>2, <2>8 DEF x
<1> QED BY <1>15, <1>16

DeletedTo(c, d, o, T, cu) ==
    /\ d \in CollRecord /\ d.order = o /\ d.sel = T /\ d.cursor = cu /\ d.wink = -1 /\ d.timer = FALSE
    /\ d.count = c.count /\ d.primary = c.primary /\ d.normal = c.normal /\ d.lost = c.lost
    /\ SameMode(c, d)

LEMMA DeletePut ==
    ASSUME NEW c \in CollRecord, NEW o \in Seq(Item), NEW T \in SUBSET Item, NEW cu \in Int
    PROVE  DeletedTo(c, [c EXCEPT !.order = o, !.sel = T, !.cursor = cu, !.wink = -1, !.timer = FALSE], o, T, cu)
<1> DEFINE d == [c EXCEPT !.order = o, !.sel = T, !.cursor = cu, !.wink = -1, !.timer = FALSE]
<1>1. d \in CollRecord
  <2> DEFINE none == -1
             b == [c EXCEPT !.order = o, !.sel = T, !.cursor = cu]
  <2>1. none \in Int
    OBVIOUS
  <2>2. d = [b EXCEPT !.wink = none, !.timer = FALSE]
    OBVIOUS
  <2>3. b \in CollRecord
    BY DEF CollRecord
  <2> HIDE DEF none, b, d
  <2> QED BY <2>1, <2>2, <2>3 DEF CollRecord
<1>2. DeletedTo(c, d, o, T, cu)
  BY <1>1 DEF CollRecord, DeletedTo, SameMode
<1> QED BY <1>2

LEMMA CountPut ==
    ASSUME NEW c \in CollRecord, NEW n \in Int
    PROVE  SelectionTo(c, [c EXCEPT !.count = n], c.sel, n)
<1> DEFINE d == [c EXCEPT !.count = n]
<1>1. d \in CollRecord
  BY DEF CollRecord
<1>2. SelectionTo(c, d, c.sel, n)
  BY <1>1 DEF CollRecord, SelectionTo, SameMarks, SameMode
<1> QED BY <1>2

LEMMA DeleteIfIs ==
    ASSUME NEW c \in CollRecord, MarksGood(c), SelGood(c), c.lost = FALSE,
           NEW S, S # {}, S \subseteq Range(c.order)
    PROVE  LET d == DeleteIf(c, S)
           IN /\ d \in CollRecord /\ MarksGood(d) /\ SelGood(d)
              /\ Range(d.order) = Range(c.order) \ S
              /\ InRange(c, c.cursor) /\ At(c, c.cursor) \notin S => OnItem(c, c.cursor, d, d.cursor)
<1> DEFINE n == Len1(c)
           W == Range(c.order) \ S
           R == InArrayOrder(c)
           o == Arranged(W, R)
           T == c.sel \ S
           cu == CursorAfter(c, S)
           d == [c EXCEPT !.order = o, !.sel = T, !.cursor = cu, !.wink = -1, !.timer = FALSE]
           e == IF c.count > 0 /\ d.sel = {} THEN Lose(d) ELSE d
           q == Cardinality(d.sel)
           f == [e EXCEPT !.count = q]
<1>1. EachOnce(c)
  BY DEF MarksGood
<1>2. /\ n \in Nat /\ Range(c.order) = {c.order[i] : i \in 1..n} /\ Range(c.order) \subseteq Item
  BY <1>1, OrderIs
<1>3. n > 0 /\ GoneIn(c, S) # {}
  <2>1. PICK x \in S : x \in Range(c.order)
    OBVIOUS
  <2>2. PICK j \in 1..n : x = c.order[j]
    BY <1>2, <2>1
  <2>3. j - 1 \in 0..(n - 1) /\ At(c, j - 1) = x
    BY <1>2, <2>2 DEF At
  <2> QED BY <1>2, <2>1, <2>2, <2>3 DEF GoneIn
<1>4. DeleteIf(c, S) = f
  BY <1>3 DEF DeleteIf, GoneIn, CursorAfter
<1>5. PICK m : ArrangedRight(W, R, m, o)
  BY <1>1, KeepsOrder, Arranges
<1> HIDE DEF o, cu
<1>6. m \in Nat /\ o \in [1..m -> Item] /\ o \in Seq(Item) /\ Len(o) = m /\ Range(o) = W
      /\ \A i, j \in 1..m : o[i] = o[j] => i = j
  <2>1. m \in Nat /\ o \in [1..m -> W] /\ \A x \in W : \E j \in 1..m : o[j] = x
    BY <1>5 DEF ArrangedRight
  <2>2. o \in [1..m -> Item]
    BY <1>2, <2>1
  <2>3. o \in Seq(Item) /\ Len(o) = m /\ Range(o) = {o[j] : j \in 1..m}
    BY <2>1, <2>2, OrderFrom
  <2>4. Range(o) = W
    BY <2>1, <2>3
  <2>5. \A i, j \in 1..m : o[i] = o[j] => i = j
    BY <1>5 DEF ArrangedRight
  <2> QED BY <2>1, <2>2, <2>3, <2>4, <2>5
<1>7. /\ cu \in -1..(m - 1)
      /\ InRange(c, c.cursor) /\ At(c, c.cursor) \notin S => cu \in 0..(m - 1) /\ o[cu + 1] = At(c, c.cursor)
  <2>1. CASE InRange(c, c.cursor)
    BY <1>1, <1>5, <2>1, CursorGoesBack DEF cu
  <2>2. CASE ~InRange(c, c.cursor)
    <3>1. c.cursor = -1
      BY <1>2, <1>3, <2>2 DEF MarksGood
    <3>2. {i \in GoneIn(c, S) : i <= c.cursor} = {}
      BY <1>2, <3>1 DEF GoneIn
    <3>3. cu = -1
      <4>1. Cardinality({}) = 0
        BY FS_EmptySet
      <4> QED BY <3>1, <3>2, <4>1 DEF cu, CursorAfter
    <3> QED BY <1>6, <2>2, <3>3
  <2> QED BY <2>1, <2>2
<1>8. T \subseteq Range(c.order) /\ T \subseteq c.sel /\ T \subseteq W
  BY DEF SelGood, Counted1
<1>9. T \in SUBSET Item /\ cu \in Int
  BY <1>2, <1>6, <1>7, <1>8
<1> HIDE DEF T
<1>10. DeletedTo(c, d, o, T, cu)
  BY <1>6, <1>9, DeletePut
<1> HIDE DEF d
<1>11. d \in CollRecord /\ d.order = o /\ d.sel = T /\ d.cursor = cu /\ d.wink = -1 /\ d.timer = FALSE
       /\ d.count = c.count /\ d.primary = c.primary /\ d.normal = c.normal /\ d.lost = FALSE
  BY <1>10 DEF DeletedTo
<1>12. q \in Nat /\ (q = 0 <=> T = {})
  BY <1>8, <1>11, SelFinite
<1>13. c.count \in Nat /\ (c.count = 0 <=> c.sel = {})
  BY SelFinite DEF SelGood, Counted1
<1>14. e \in CollRecord /\ SameMarks(d, e) /\ e.sel = T /\ e.normal = c.normal
       /\ \/ c.count > 0 /\ T = {} /\ e.lost = TRUE /\ e.primary # "us"
          \/ ~(c.count > 0 /\ T = {}) /\ e.lost = FALSE /\ e.primary = c.primary
  <2>1. CASE c.count > 0 /\ T = {}
    <3> DEFINE g == Lose(d)
    <3>1. g \in CollRecord /\ SameMarks(d, g) /\ g.sel = d.sel /\ g.normal = d.normal
          /\ g.lost = TRUE /\ g.primary # "us"
      BY <1>11, LoseIs
    <3>2. e = g
      BY <1>11, <2>1
    <3> HIDE DEF g, e
    <3> QED BY <1>11, <2>1, <3>1, <3>2
  <2>2. CASE ~(c.count > 0 /\ T = {})
    <3>1. e = d
      BY <1>11, <2>2
    <3> HIDE DEF e
    <3> QED BY <1>11, <2>2, <3>1 DEF SameMarks
  <2> QED BY <2>1, <2>2
<1> HIDE DEF e, q
<1>15. SelectionTo(e, f, e.sel, q)
  <2>1. q \in Int
    BY <1>12
  <2> QED BY <1>14, <2>1, CountPut
<1> HIDE DEF f
<1>16. f \in CollRecord /\ f.order = o /\ f.cursor = cu /\ f.wink = -1 /\ f.timer = FALSE
       /\ f.sel = T /\ f.count = q /\ f.normal = c.normal /\ f.lost = e.lost /\ f.primary = e.primary
  BY <1>11, <1>14, <1>15 DEF SelectionTo, SameMarks
<1>17. Len1(f) = m /\ EachOnce(f) /\ Range(f.order) = W
  BY <1>6, <1>16 DEF Len1, EachOnce
<1>18. MarksGood(f)
  <2>1. InRange(f, f.cursor) \/ f.cursor = -1
    BY <1>6, <1>7, <1>16, <1>17 DEF InRange
  <2>2. f.timer <=> f.wink # -1
    BY <1>16
  <2>3. ~f.timer
    BY <1>16
  <2> QED BY <1>17, <2>1, <2>2, <2>3, Zenon DEF MarksGood
<1>19. SelGood(f)
  <2>1. f.sel \subseteq Range(f.order) /\ f.count = Cardinality(f.sel)
    <3>1. Cardinality(f.sel) = q
      BY <1>11, <1>16 DEF q
    <3> QED BY <1>8, <1>16, <1>17, <3>1
  <2>2. f.lost => f.count = 0
    BY <1>12, <1>14, <1>16
  <2>3. c.count > 0 => (c.normal <=> c.primary = "us")
    BY DEF SelGood
  <2>4. c.primary = "us" => c.count > 0
    BY DEF SelGood, Counted1
  <2>5. f.count > 0 => c.count > 0 /\ f.primary = c.primary
    BY <1>8, <1>12, <1>13, <1>14, <1>16
  <2>6. f.primary = "us" => f.count > 0
    BY <1>12, <1>13, <1>14, <1>16, <2>4
  <2>7. f.count > 0 => (f.normal <=> f.primary = "us")
    BY <1>16, <2>3, <2>5
  <2> QED BY <2>1, <2>2, <2>6, <2>7, Zenon DEF SelGood, Counted1
<1>20. InRange(c, c.cursor) /\ At(c, c.cursor) \notin S => OnItem(c, c.cursor, f, f.cursor)
  BY <1>6, <1>7, <1>16, <1>17 DEF OnItem, InRange, At
<1> QED BY <1>4, <1>16, <1>17, <1>18, <1>19, <1>20 DEF W

(* In a Collection that is sorted the search finds what is there. *)
FindSpans(c) == (0..Len1(c)) \X (0..Len1(c))
FindStep(c, x, p, f) ==
    IF p[1] >= p[2] THEN -1
    ELSE IF At(c, Half(p)) = x THEN Half(p)
    ELSE IF Before(c, x, At(c, Half(p))) THEN f[<<p[1], Half(p)>>] ELSE f[<<Half(p) + 1, p[2]>>]
FindOf(c, x) ==
    LET search[p \in (0..Len1(c)) \X (0..Len1(c))] ==
          LET i == (p[1] + p[2]) \div 2
          IN IF p[1] >= p[2] THEN -1
             ELSE IF At(c, i) = x THEN i
             ELSE IF Before(c, x, At(c, i)) THEN search[<<p[1], i>>] ELSE search[<<i + 1, p[2]>>]
    IN search

LEMMA FindHalves ==
    ASSUME NEW n \in Nat, NEW p \in (0..n) \X (0..n), p[1] < p[2]
    PROVE  /\ Half(p) \in Int /\ p[1] <= Half(p) /\ Half(p) < p[2]
           /\ Half(p) \in 0..(n - 1) /\ <<p[1], Half(p)>> \in (0..n) \X (0..n)
           /\ <<Half(p) + 1, p[2]>> \in (0..n) \X (0..n)
<1>1. p[1] \in 0..n /\ p[2] \in 0..n
  OBVIOUS
<1>2. \A a, b \in Nat : a < b => (a + b) \div 2 \in Int /\ a <= (a + b) \div 2 /\ (a + b) \div 2 < b
  OBVIOUS
<1>3. Half(p) \in Int /\ p[1] <= Half(p) /\ Half(p) < p[2]
  BY <1>1, <1>2 DEF Half
<1> QED BY <1>1, <1>3

LEMMA FindsSteps ==
    ASSUME NEW c, NEW x, Len1(c) \in Nat
    PROVE  \A p \in FindSpans(c) : FindOf(c, x)[p] = FindStep(c, x, p, FindOf(c, x))
<1> DEFINE n == Len1(c)
           P == FindSpans(c)
           Next1(p, f) == FindStep(c, x, p, f)
           Upto(m, f) == DOMAIN f = P /\ \A p \in P : p[2] - p[1] <= m => f[p] = Next1(p, f)
           K == {m \in 0..n : \E f : Upto(m, f)}
           Whole(f) == f = [p \in P |-> Next1(p, f)]
<1>1. P = (0..n) \X (0..n) /\ n \in Nat
  BY DEF FindSpans
<1>2. FindOf(c, x) = CHOOSE f : Whole(f)
  BY DEF FindOf, FindSpans, FindStep, Half
<1>3. ASSUME NEW p \in P, NEW f, NEW g,
             p[1] < p[2] => \A q \in P : q[2] - q[1] < p[2] - p[1] => f[q] = g[q]
      PROVE  Next1(p, f) = Next1(p, g)
  <2>1. CASE p[1] >= p[2]
    BY <2>1 DEF FindStep
  <2>2. CASE ~(p[1] >= p[2])
    <3>1. p[1] \in 0..n /\ p[2] \in 0..n
      BY <1>1
    <3>2. p[1] < p[2]
      BY <2>2, <3>1
    <3> DEFINE h == Half(p)
               a == <<p[1], h>>
               b == <<h + 1, p[2]>>
    <3>3. h \in Int /\ p[1] <= h /\ h < p[2] /\ a \in P /\ b \in P
      BY <1>1, <3>2, FindHalves
    <3>4. a[1] = p[1] /\ a[2] = h /\ b[1] = h + 1 /\ b[2] = p[2]
      OBVIOUS
    <3> HIDE DEF a, b, h, P
    <3>5. a[2] - a[1] < p[2] - p[1] /\ b[2] - b[1] < p[2] - p[1]
      BY <3>1, <3>3, <3>4
    <3>6. f[a] = g[a] /\ f[b] = g[b]
      BY <1>3, <3>2, <3>3, <3>5
    <3> QED BY <2>2, <3>6, Zenon DEF FindStep, a, b, h
  <2> QED BY <2>1, <2>2
<1>4. \A p \in P : p[1] \in Int /\ p[2] \in Int /\ p[2] - p[1] <= n
  BY <1>1
<1> HIDE DEF Next1, P
<1>5. 0 \in K
  <2> DEFINE z == [p \in P |-> 0]
             e == [p \in P |-> Next1(p, z)]
  <2>1. ASSUME NEW p \in P, p[2] - p[1] <= 0 PROVE e[p] = Next1(p, e)
    <3>1. ~(p[1] < p[2])
      BY <1>4, <2>1
    <3>2. Next1(p, z) = Next1(p, e)
      <4> HIDE DEF z, e
      <4> QED BY <1>3, <3>1
    <3>3. e[p] = Next1(p, z)
      BY Zenon
    <3> QED BY <3>2, <3>3
  <2>2. DOMAIN e = P
    BY Zenon
  <2>3. Upto(0, e)
    <3> HIDE DEF e
    <3> QED BY <2>1, <2>2
  <2>4. 0 \in 0..n
    OBVIOUS
  <2> HIDE DEF e, Upto
  <2> QED BY <2>3, <2>4
<1>6. ASSUME NEW m \in 0..n, m \in K, m < n PROVE m + 1 \in K
  <2>1. PICK f : Upto(m, f)
    BY <1>6
  <2> DEFINE e == [p \in P |-> Next1(p, f)]
  <2>2. DOMAIN e = P /\ \A p \in P : e[p] = Next1(p, f)
    BY Zenon
  <2> HIDE DEF e
  <2>3. ASSUME NEW p \in P, p[2] - p[1] <= m + 1 PROVE e[p] = Next1(p, e)
    <3>1. ASSUME NEW q \in P, q[2] - q[1] < p[2] - p[1] PROVE f[q] = e[q]
      <4>1. q[2] - q[1] <= m
        BY <1>4, <2>3, <3>1
      <4>2. f[q] = Next1(q, f)
        BY <2>1, <4>1
      <4> QED BY <2>2, <4>2
    <3>2. Next1(p, f) = Next1(p, e)
      BY <1>3, <3>1
    <3> QED BY <2>2, <3>2
  <2>4. Upto(m + 1, e)
    BY <2>2, <2>3
  <2>5. m + 1 \in 0..n
    BY <1>6
  <2> HIDE DEF Upto
  <2> QED BY <2>4, <2>5
<1>7. 0..n \subseteq K
  <2> HIDE DEF K
  <2> QED BY <1>5, <1>6, UpTo
<1>8. \E f : Whole(f)
  <2>1. n \in 0..n
    OBVIOUS
  <2>2. n \in K
    BY <1>7, <2>1, Zenon
  <2>3. PICK f : Upto(n, f)
    BY <2>2
  <2> DEFINE e == [p \in P |-> Next1(p, f)]
  <2>4. DOMAIN e = P /\ \A p \in P : e[p] = Next1(p, f)
    BY Zenon
  <2>5. \A p \in P : f[p] = Next1(p, f)
    BY <1>4, <2>3
  <2>6. \A p \in P : e[p] = f[p]
    BY <2>4, <2>5, Zenon
  <2>7. \A p \in P : e[p] = Next1(p, e)
    <3> HIDE DEF e
    <3>1. ASSUME NEW p \in P PROVE e[p] = Next1(p, e)
      <4>1. Next1(p, f) = Next1(p, e)
        BY <1>3, <2>6
      <4> QED BY <2>4, <4>1
    <3> QED BY <3>1
  <2>8. e = [p \in P |-> e[p]]
    OBVIOUS
  <2>9. Whole(e)
    <3> HIDE DEF e
    <3> QED BY <2>7, <2>8
  <2> HIDE DEF e, Whole
  <2> QED BY <2>9
<1> DEFINE s == FindOf(c, x)
<1>9. Whole(s)
  <2> HIDE DEF Whole
  <2> QED BY <1>2, <1>8
<1> HIDE DEF s
<1>10. \A p \in P : s[p] = Next1(p, s)
  BY <1>9
<1> QED BY <1>10 DEF s, P, Next1

LEMMA FindsAll ==
    ASSUME NEW c \in CollRecord, EachOnce(c), InOrder1(c), NEW x \in Item
    PROVE  Find(c, x) = IF x \in Range(c.order) THEN PositionOf(c, x) ELSE -1
<1> DEFINE n == Len1(c)
           s == FindOf(c, x)
           P == FindSpans(c)
           answer == IF x \in Range(c.order) THEN PositionOf(c, x) ELSE -1
<1>1. /\ n \in Nat /\ c.order \in [1..n -> Item] /\ \A i, j \in 1..n : c.order[i] = c.order[j] => i = j
      /\ Range(c.order) = {c.order[i] : i \in 1..n}
  BY OrderIs
<1>2. \A i \in 1..n : PositionOf(c, c.order[i]) = i - 1
  BY KeepsOrder
<1>3. P = (0..n) \X (0..n)
  BY DEF FindSpans
<1>4. \A p \in P : s[p] = FindStep(c, x, p, s)
  BY <1>1, FindsSteps, Zenon
<1>5. Find(c, x) = s[<<0, n>>]
  BY DEF Find, FindOf
<1>6. \A i, j \in 1..n : i < j => Before(c, c.order[i], c.order[j])
  BY DEF InOrder1
<1>7. \A i \in 1..n : c.order[i] = x => answer = i - 1
  BY <1>1, <1>2
<1>8. (\A i \in 1..n : c.order[i] # x) => answer = -1
  BY <1>1
<1> HIDE DEF s, P, n, answer
<1> DEFINE Holds(p) == \A i \in 1..n : c.order[i] = x => p[1] < i /\ i <= p[2]
           K == {m \in 0..n : \A p \in P : p[2] - p[1] <= m /\ Holds(p) => s[p] = answer}
<1>9. \A p \in P : p[1] \in 0..n /\ p[2] \in 0..n
  BY <1>3
<1>10. ASSUME NEW p \in P, p[1] >= p[2], Holds(p) PROVE s[p] = answer
  <2>1. \A i \in 1..n : c.order[i] # x
    BY <1>1, <1>9, <1>10
  <2>2. s[p] = -1
    BY <1>4, <1>10, Zenon DEF FindStep
  <2> QED BY <1>8, <2>1, <2>2
<1>11. 0 \in K
  <2>1. \A p \in P : p[2] - p[1] <= 0 => p[1] >= p[2]
    BY <1>1, <1>9
  <2>2. 0 \in 0..n
    BY <1>1
  <2> HIDE DEF Holds
  <2> QED BY <1>10, <2>1, <2>2
<1>12. ASSUME NEW m \in 0..n, m \in K, m < n PROVE m + 1 \in K
  <2>1. ASSUME NEW p \in P, p[2] - p[1] <= m + 1, Holds(p), p[1] < p[2] PROVE s[p] = answer
    <3> DEFINE h == Half(p)
               a == <<p[1], h>>
               b == <<h + 1, p[2]>>
               y == c.order[h + 1]
    <3>1. p[1] \in 0..n /\ p[2] \in 0..n
      BY <1>9
    <3>2. h \in Int /\ p[1] <= h /\ h < p[2] /\ a \in P /\ b \in P /\ h \in 0..(n - 1)
      BY <1>1, <1>3, <2>1, FindHalves
    <3>3. a[1] = p[1] /\ a[2] = h /\ b[1] = h + 1 /\ b[2] = p[2]
      OBVIOUS
    <3>4. s[p] = IF y = x THEN h ELSE IF Before(c, x, y) THEN s[a] ELSE s[b]
      <4>1. ~(p[1] >= p[2])
        BY <1>1, <2>1, <3>1
      <4> QED BY <1>4, <4>1, Zenon DEF FindStep, At
    <3> HIDE DEF a, b, h
    <3>5. h + 1 \in 1..n
      BY <1>1, <3>2
    <3>6. y \in Item
      BY <1>1, <3>5
    <3>7. CASE y = x
      <4>1. answer = (h + 1) - 1
        BY <1>7, <3>5, <3>7
      <4> QED BY <3>2, <3>4, <3>7, <4>1
    <3>8. CASE y # x /\ Before(c, x, y)
      <4>1. Holds(a)
        <5>1. ASSUME NEW i \in 1..n, c.order[i] = x PROVE a[1] < i /\ i <= a[2]
          <6>1. p[1] < i /\ i <= p[2]
            BY <2>1, <5>1
          <6>2. ~(h + 1 < i)
            <7>1. ~Before(c, y, x)
              BY <3>6, <3>8, BeforeOrder
            <7> QED BY <1>6, <3>5, <5>1, <7>1
          <6>3. h + 1 # i
            BY <3>8, <5>1
          <6>4. i <= h
            BY <3>2, <6>2, <6>3
          <6> QED BY <3>3, <6>1, <6>4
        <5> QED BY <5>1
      <4>2. a[2] - a[1] <= m
        BY <1>1, <2>1, <3>1, <3>2, <3>3
      <4>3. s[a] = answer
        BY <1>12, <3>2, <4>1, <4>2
      <4> QED BY <3>4, <3>8, <4>3
    <3>9. CASE y # x /\ ~Before(c, x, y)
      <4>1. Holds(b)
        <5>1. ASSUME NEW i \in 1..n, c.order[i] = x PROVE b[1] < i /\ i <= b[2]
          <6>1. p[1] < i /\ i <= p[2]
            BY <2>1, <5>1
          <6>2. ~(i < h + 1)
            BY <1>6, <3>5, <3>9, <5>1
          <6>3. h + 1 # i
            BY <3>9, <5>1
          <6>4. h + 1 < i
            BY <3>2, <6>2, <6>3
          <6> QED BY <3>3, <6>1, <6>4
        <5> QED BY <5>1
      <4>2. b[2] - b[1] <= m
        BY <1>1, <2>1, <3>1, <3>2, <3>3
      <4>3. s[b] = answer
        BY <1>12, <3>2, <4>1, <4>2
      <4> QED BY <3>4, <3>9, <4>3
    <3> QED BY <3>7, <3>8, <3>9
  <2>2. m + 1 \in 0..n
    BY <1>1, <1>12
  <2>3. ASSUME NEW p \in P, p[2] - p[1] <= m + 1, Holds(p) PROVE s[p] = answer
    <3>1. p[1] >= p[2] \/ p[1] < p[2]
      BY <1>1, <1>9
    <3> HIDE DEF Holds
    <3> QED BY <1>10, <2>1, <2>3, <3>1
  <2> HIDE DEF Holds
  <2> QED BY <2>2, <2>3
<1>13. 0..n \subseteq K
  <2> HIDE DEF K
  <2> QED BY <1>1, <1>11, <1>12, UpTo
<1>14. n \in K
  <2>1. n \in 0..n
    BY <1>1
  <2> QED BY <1>13, <2>1, Zenon
<1> DEFINE p == <<0, n>>
<1>15. p \in P /\ p[2] - p[1] <= n /\ p[1] = 0 /\ p[2] = n
  BY <1>1, <1>3
<1> HIDE DEF p
<1>16. Holds(p)
  BY <1>1, <1>15
<1>17. s[p] = answer
  BY <1>14, <1>15, <1>16
<1> QED BY <1>5, <1>17 DEF answer, n, p

--------------------
(* The steps. *)
CollGood(c) == c \in CollRecord /\ MarksGood(c) /\ SelGood(c)

(* A step that leaves the order and the selection, or the order. *)
SameButMarks(c, d) == SameSelection(c, d) /\ d.order = c.order /\ d.key = c.key
KeepsGood(c, d) == CollGood(d) /\ SameButMarks(c, d)

LEMMA KeptGood ==
    ASSUME NEW c, NEW d \in CollRecord, CollGood(c), SameButMarks(c, d),
           InRange(c, d.cursor) \/ d.cursor = -1 \/ (d.cursor = 0 /\ Len1(c) = 0),
           d.timer <=> d.wink # -1, d.timer => InRange(c, d.wink)
    PROVE  KeepsGood(c, d)
<1>1. Len1(d) = Len1(c) /\ \A i : InRange(d, i) <=> InRange(c, i)
  BY DEF SameButMarks, Len1, InRange
<1>2. EachOnce(d)
  BY <1>1 DEF CollGood, MarksGood, EachOnce, SameButMarks
<1>3. MarksGood(d)
  BY <1>1, <1>2 DEF MarksGood
<1>4. SelGood(d)
  BY SelectionKept DEF CollGood, SameButMarks
<1> QED BY <1>3, <1>4 DEF KeepsGood, CollGood

LEMMA WinkOff ==
    ASSUME NEW c, CollGood(c)
    PROVE  LET d == [c EXCEPT !.wink = -1, !.timer = FALSE]
           IN KeepsGood(c, d) /\ d.mapped = c.mapped
<1> DEFINE none == -1
           no == FALSE
           d == [c EXCEPT !.wink = none, !.timer = no]
<1>1. none \in Int /\ no \in BOOLEAN /\ none = -1 /\ ~no
  OBVIOUS
<1> HIDE DEF none, no
<1>2. c \in CollRecord
  BY DEF CollGood
<1>3. d \in CollRecord
  BY <1>1, <1>2 DEF CollRecord
<1>4. SameButMarks(c, d) /\ d.cursor = c.cursor /\ d.wink = none /\ d.timer = no /\ d.mapped = c.mapped
  BY <1>2 DEF CollRecord, SameButMarks, SameSelection
<1>5. InRange(c, d.cursor) \/ d.cursor = -1 \/ (d.cursor = 0 /\ Len1(c) = 0)
  BY <1>4 DEF CollGood, MarksGood
<1> HIDE DEF d
<1>6. KeepsGood(c, d)
  BY <1>1, <1>3, <1>4, <1>5, KeptGood
<1> QED BY <1>4, <1>6 DEF d, none, no

LEMMA WinkIs ==
    ASSUME NEW c, CollGood(c), NEW i \in Int, InRange(c, i) \/ i = -1
    PROVE  KeepsGood(c, Wink(c, i))
<1> DEFINE d == [c EXCEPT !.wink = -1, !.timer = FALSE]
<1>1. KeepsGood(c, d) /\ d.mapped = c.mapped
  BY WinkOff
<1>2. Wink(c, i) = CASE i # -1 /\ ~c.mapped -> [d EXCEPT !.pending = i]
                     [] i # -1 /\ c.mapped  -> [d EXCEPT !.old = i, !.wink = i, !.winks = MaxWinks, !.timer = TRUE]
                     [] OTHER -> d
  BY DEF Wink
<1> HIDE DEF d
<1>3. d \in CollRecord /\ CollGood(d) /\ SameButMarks(c, d)
  BY <1>1 DEF KeepsGood, CollGood
<1>4. c.mapped \in BOOLEAN
  BY DEF CollGood, CollRecord
<1>5. ASSUME NEW e, KeepsGood(d, e) PROVE KeepsGood(c, e)
  BY <1>3, <1>5 DEF KeepsGood, SameButMarks, SameSelection
<1>6. CASE i = -1
  <2>1. Wink(c, i) = d
    BY <1>2, <1>6
  <2> QED BY <1>1, <2>1
<1>7. CASE i # -1 /\ c.mapped = FALSE
  <2> DEFINE e == [d EXCEPT !.pending = i]
  <2>1. Wink(c, i) = e
    BY <1>2, <1>7
  <2>2. e \in CollRecord
    BY <1>3 DEF CollRecord
  <2>3. SameButMarks(d, e) /\ e.cursor = d.cursor /\ e.wink = d.wink /\ e.timer = d.timer
    BY <1>3 DEF CollRecord, SameButMarks, SameSelection
  <2> HIDE DEF e
  <2>4. KeepsGood(d, e)
    <3>1. InRange(d, e.cursor) \/ e.cursor = -1 \/ (e.cursor = 0 /\ Len1(d) = 0)
      BY <1>3, <2>3 DEF CollGood, MarksGood
    <3>2. (e.timer <=> e.wink # -1) /\ (e.timer => InRange(d, e.wink))
      BY <1>3, <2>3 DEF CollGood, MarksGood
    <3> QED BY <1>3, <2>2, <2>3, <3>1, <3>2, KeptGood
  <2> QED BY <1>5, <2>1, <2>4
<1>8. CASE i # -1 /\ c.mapped = TRUE
  <2> DEFINE yes == TRUE
             e == [d EXCEPT !.old = i, !.wink = i, !.winks = MaxWinks, !.timer = yes]
  <2>1. Wink(c, i) = e
    BY <1>2, <1>8
  <2>2. yes \in BOOLEAN /\ yes /\ MaxWinks \in Int
    BY CollectionAssumption
  <2> HIDE DEF yes
  <2>3. e \in CollRecord
    BY <1>3, <2>2 DEF CollRecord
  <2>4. SameButMarks(d, e) /\ e.cursor = d.cursor /\ e.wink = i /\ e.timer = yes
    BY <1>3 DEF CollRecord, SameButMarks, SameSelection
  <2> HIDE DEF e
  <2>5. InRange(d, i)
    BY <1>3, <1>8 DEF InRange, Len1, SameButMarks
  <2>6. KeepsGood(d, e)
    <3>1. InRange(d, e.cursor) \/ e.cursor = -1 \/ (e.cursor = 0 /\ Len1(d) = 0)
      BY <1>3, <2>4 DEF CollGood, MarksGood
    <3>2. (e.timer <=> e.wink # -1) /\ (e.timer => InRange(d, e.wink))
      BY <1>8, <2>2, <2>4, <2>5
    <3> QED BY <1>3, <2>3, <2>4, <3>1, <3>2, KeptGood
  <2> QED BY <1>5, <2>1, <2>6
<1> QED BY <1>4, <1>6, <1>7, <1>8

LEMMA SetCursorIs ==
    ASSUME NEW c, CollGood(c), NEW i \in Int,
           InRange(c, i) \/ i = -1 \/ (i = 0 /\ Len1(c) = 0)
    PROVE  KeepsGood(c, SetCursor(c, i))
<1> DEFINE ol == IF i = -1 /\ c.cursor # -1 THEN c.cursor ELSE c.old
           d == [c EXCEPT !.cursor = i, !.old = ol]
<1>1. c \in CollRecord
  BY DEF CollGood
<1>2. ol \in Int
  BY <1>1, MarksAre
<1>3. SetCursor(c, i) = d
  BY DEF SetCursor
<1> HIDE DEF ol
<1>4. d \in CollRecord
  BY <1>1, <1>2 DEF CollRecord
<1>5. SameButMarks(c, d) /\ d.cursor = i /\ d.wink = c.wink /\ d.timer = c.timer
  BY <1>1 DEF CollRecord, SameButMarks, SameSelection
<1> HIDE DEF d
<1>6. (d.timer <=> d.wink # -1) /\ (d.timer => InRange(c, d.wink))
  BY <1>5 DEF CollGood, MarksGood
<1> QED BY <1>3, <1>4, <1>5, <1>6, KeptGood

LEMMA WinkOnMapIs ==
    ASSUME NEW c, CollGood(c)
    PROVE  KeepsGood(c, WinkOnMap(c))
<1> DEFINE yes == TRUE
           none == -1
           d == [c EXCEPT !.mapped = yes]
           e == IF InRange(c, c.pending) THEN Wink(d, c.pending) ELSE d
           f == [e EXCEPT !.pending = none]
<1>1. c \in CollRecord /\ yes \in BOOLEAN /\ none \in Int
  BY DEF CollGood
<1>2. WinkOnMap(c) = f
  BY DEF WinkOnMap
<1> HIDE DEF yes, none
<1>3. KeepsGood(c, d)
  <2>1. d \in CollRecord
    BY <1>1 DEF CollRecord
  <2>2. SameButMarks(c, d) /\ d.cursor = c.cursor /\ d.wink = c.wink /\ d.timer = c.timer
    BY <1>1 DEF CollRecord, SameButMarks, SameSelection
  <2> HIDE DEF d
  <2>3. (d.timer <=> d.wink # -1) /\ (d.timer => InRange(c, d.wink))
    BY <2>2 DEF CollGood, MarksGood
  <2>4. InRange(c, d.cursor) \/ d.cursor = -1 \/ (d.cursor = 0 /\ Len1(c) = 0)
    BY <2>2 DEF CollGood, MarksGood
  <2> QED BY <2>1, <2>2, <2>3, <2>4, KeptGood
<1> HIDE DEF d
<1>4. CollGood(d) /\ SameButMarks(c, d)
  BY <1>3 DEF KeepsGood
<1>5. KeepsGood(d, e)
  <2>1. CASE InRange(c, c.pending)
    <3>1. InRange(d, c.pending) /\ c.pending \in Int
      BY <1>1, <1>4, <2>1, MarksAre DEF InRange, Len1, SameButMarks
    <3> QED BY <1>4, <2>1, <3>1, WinkIs
  <2>2. CASE ~InRange(c, c.pending)
    <3>1. e = d
      BY <2>2
    <3> QED BY <1>4, <3>1 DEF KeepsGood, SameButMarks, SameSelection
  <2> QED BY <2>1, <2>2
<1> HIDE DEF e
<1>6. CollGood(e) /\ e \in CollRecord /\ SameButMarks(d, e)
  BY <1>5 DEF KeepsGood, CollGood
<1>7. KeepsGood(e, f)
  <2>1. f \in CollRecord
    BY <1>1, <1>6 DEF CollRecord
  <2>2. SameButMarks(e, f) /\ f.cursor = e.cursor /\ f.wink = e.wink /\ f.timer = e.timer
    BY <1>6 DEF CollRecord, SameButMarks, SameSelection
  <2> HIDE DEF f
  <2>3. (f.timer <=> f.wink # -1) /\ (f.timer => InRange(e, f.wink))
    BY <1>6, <2>2 DEF CollGood, MarksGood
  <2>4. InRange(e, f.cursor) \/ f.cursor = -1 \/ (f.cursor = 0 /\ Len1(e) = 0)
    BY <1>6, <2>2 DEF CollGood, MarksGood
  <2> QED BY <1>6, <2>1, <2>2, <2>3, <2>4, KeptGood
<1> HIDE DEF f
<1> QED BY <1>2, <1>4, <1>6, <1>7 DEF KeepsGood, SameButMarks, SameSelection

LEMMA TargetIs ==
    ASSUME NEW c \in CollRecord, Len1(c) \in Nat, Len1(c) # 0, NEW drow \in Int, NEW dcol \in Int,
           NEW first \in Int, NEW last \in Int
    PROVE  Target(c, drow, dcol, first, last) \in 0..(Len1(c) - 1)
<1> DEFINE n == Len1(c)
           rows == Rows(c)
           from == IF c.cursor # -1 THEN c.cursor ELSE IF c.old < Len1(c) THEN c.old ELSE Len1(c) - 1
           row  == RowCol(c, from)[1]
           col0 == RowCol(c, from)[2] + dcol
           col  == IF c.vertical THEN Clamp(col0, 0, Cols(c) - 1) ELSE col0
           to   == IF from = -1 THEN <<first, 0>>
                   ELSE IF row < first THEN <<first, col>>
                   ELSE IF row > last THEN <<last, col>>
                   ELSE RowMoved(c, row, col, drow)
<1>1. c.cursor \in Int /\ c.old \in Int /\ c.columns \in {1, 2} /\ c.vertical \in BOOLEAN /\ n \in Nat /\ n # 0
  BY DEF CollRecord
<1>2. Target(c, drow, dcol, first, last) = Clamp(ItemAt(c, to[1], to[2]), 0, n - 1)
  BY DEF Target
<1>3. \A a, low, high \in Int : Clamp(a, low, high) \in Int
  BY DEF Clamp
<1>4. \A a \in Int : Clamp(a, 0, n - 1) \in 0..(n - 1)
  <2> HIDE DEF n
  <2> QED BY <1>1 DEF Clamp
<1>5. \A a \in Int, b \in {1, 2} : a \div b \in Int /\ a % b \in Int
  OBVIOUS
<1>6. rows \in Int /\ rows >= 1
  <2>1. (n + c.columns - 1) \div c.columns \in Int
    <3>1. n + c.columns - 1 \in Int
      BY <1>1
    <3> HIDE DEF n
    <3> QED BY <1>1, <1>5, <3>1
  <2>2. rows = IF (n + c.columns - 1) \div c.columns > 1 THEN (n + c.columns - 1) \div c.columns ELSE 1
    BY DEF Rows
  <2> DEFINE q == (n + c.columns - 1) \div c.columns
  <2> HIDE DEF q, rows
  <2>3. q \in Int /\ rows = IF q > 1 THEN q ELSE 1
    BY <2>1, <2>2 DEF q
  <2> QED BY <2>3
<1> HIDE DEF n, rows, from
<1>7. \A a, b \in Int : b >= 1 => a \div b \in Int /\ a % b \in Int
  OBVIOUS
<1>8. Cols(c) \in Int
  <2>1. (n + rows - 1) \div rows \in Int
    <3>1. n + rows - 1 \in Int
      BY <1>1, <1>6
    <3> QED BY <1>6, <1>7, <3>1
  <2>2. Cols(c) = IF ~c.vertical THEN c.columns
                  ELSE IF (n + rows - 1) \div rows > 1 THEN (n + rows - 1) \div rows ELSE 1
    BY DEF Cols, n, rows
  <2> QED BY <1>1, <2>1, <2>2
<1>9. from \in Int
  BY <1>1 DEF from, n
<1>10. row \in Int /\ col0 \in Int
  <2>1. from % rows \in Int /\ from \div rows \in Int
    BY <1>6, <1>7, <1>9
  <2>2. from \div c.columns \in Int /\ from % c.columns \in Int
    BY <1>1, <1>5, <1>9
  <2>3. RowCol(c, from)[1] = (IF c.vertical THEN from % rows ELSE from \div c.columns)
        /\ RowCol(c, from)[2] = IF c.vertical THEN from \div rows ELSE from % c.columns
    BY <1>1 DEF RowCol, rows
  <2> QED BY <2>1, <2>2, <2>3
<1> HIDE DEF row, col0
<1>11. col \in Int
  <2>1. 0 \in Int /\ Cols(c) - 1 \in Int
    BY <1>8
  <2> QED BY <1>3, <1>10, <2>1
<1> HIDE DEF col
<1>12. RowMoved(c, row, col, drow)[1] \in Int /\ RowMoved(c, row, col, drow)[2] \in Int
  <2> DEFINE r == Clamp(row + drow, 0, rows - 1)
  <2>1. r \in Int
    <3>1. row + drow \in Int /\ 0 \in Int /\ rows - 1 \in Int
      BY <1>6, <1>10
    <3> QED BY <1>3, <3>1
  <2>2. RowMoved(c, row, col, drow) =
          CASE ~c.vertical -> <<r, col>>
            [] c.vertical /\ drow > 0 /\ row = rows - 1 ->
                 IF col # Cols(c) - 1 THEN <<0, col + 1>> ELSE <<row, col>>
            [] c.vertical /\ drow < 0 /\ row = 0 ->
                 IF col # 0 THEN <<rows - 1, col - 1>> ELSE <<row, col>>
            [] OTHER -> <<r, col>>
    BY DEF RowMoved, rows
  <2> HIDE DEF r
  <2>3. RowMoved(c, row, col, drow) \in Int \X Int
    <3>1. CASE c.vertical = FALSE
      <4>1. RowMoved(c, row, col, drow) = <<r, col>>
        BY <2>2, <3>1
      <4> QED BY <1>11, <2>1, <4>1
    <3>2. CASE c.vertical = TRUE
      <4>1. RowMoved(c, row, col, drow) \in {<<r, col>>, <<0, col + 1>>, <<row, col>>, <<rows - 1, col - 1>>}
        BY <1>6, <1>10, <2>2, <3>2
      <4>2. col + 1 \in Int /\ col - 1 \in Int /\ rows - 1 \in Int
        BY <1>6, <1>11
      <4> QED BY <1>10, <1>11, <2>1, <4>1, <4>2
    <3> QED BY <1>1, <3>1, <3>2
  <2> QED BY <2>3
<1>13. to[1] \in Int /\ to[2] \in Int
  BY <1>11, <1>12
<1> HIDE DEF to
<1>14. ItemAt(c, to[1], to[2]) \in Int
  <2>1. \A a, b, k \in Int : a + b * k \in Int
    OBVIOUS
  <2>2. to[1] + to[2] * rows \in Int
    BY <1>6, <1>13, <2>1
  <2>3. to[1] * c.columns + to[2] \in Int
    BY <1>1, <1>13
  <2>4. ItemAt(c, to[1], to[2]) \in {n, to[1] + to[2] * rows, to[1] * c.columns + to[2]}
    BY DEF ItemAt, n, rows
  <2> QED BY <1>1, <2>2, <2>3, <2>4
<1> QED BY <1>2, <1>4, <1>14 DEF n

(* What an operation on a good Collection leaves. *)
StaysGood(c, d) == CollGood(d) /\ d.order = c.order

LEMMA SelectsGood ==
    ASSUME NEW c, NEW d, CollGood(c), Selects(c, d)
    PROVE  StaysGood(c, d)
BY MarksKept DEF Selects, CollGood, StaysGood, SameMarks

LEMMA MoveCursorIs ==
    ASSUME NEW c, CollGood(c), c.lost = FALSE, NEW drow \in Int, NEW dcol \in Int,
           NEW first \in Int, NEW last \in Int, NEW mark \in {"none", "select", "unselect"}
    PROVE  StaysGood(c, MoveCursor(c, drow, dcol, first, last, mark))
<1> DEFINE n == Len1(c)
           i == Target(c, drow, dcol, first, last)
           marked == mark = "select"
           d == IF mark = "none" THEN c ELSE SetSelected(c, At(c, i), marked)
<1>1. c \in CollRecord /\ EachOnce(c) /\ SelGood(c)
  BY DEF CollGood, MarksGood
<1>2. n \in Nat /\ DOMAIN c.order = 1..n /\ Range(c.order) = {c.order[j] : j \in 1..n}
  BY <1>1, OrderIs
<1>3. CASE n = 0
  <2>1. MoveCursor(c, drow, dcol, first, last, mark) = SetCursor(c, 0)
    BY <1>3 DEF MoveCursor
  <2>2. 0 \in Int
    OBVIOUS
  <2>3. KeepsGood(c, SetCursor(c, 0))
    BY <1>3, <2>2, SetCursorIs
  <2> QED BY <2>1, <2>3 DEF KeepsGood, StaysGood, SameButMarks
<1>4. CASE n # 0
  <2>1. MoveCursor(c, drow, dcol, first, last, mark) = SetCursor(d, i)
    BY <1>4 DEF MoveCursor
  <2>2. i \in 0..(n - 1)
    BY <1>1, <1>2, <1>4, TargetIs
  <2> HIDE DEF i
  <2>3. At(c, i) \in Range(c.order)
    BY <1>2, <2>2 DEF At
  <2>4. StaysGood(c, d)
    <3>1. CASE mark = "none"
      BY <3>1 DEF StaysGood
    <3>2. CASE mark # "none"
      <4>1. marked \in BOOLEAN
        OBVIOUS
      <4> HIDE DEF marked
      <4>2. Selects(c, SetSelected(c, At(c, i), marked))
        BY <1>1, <2>3, <4>1, SetSelectedIs
      <4> QED BY <3>2, <4>2, SelectsGood
    <3> QED BY <3>1, <3>2
  <2> HIDE DEF d
  <2>5. InRange(d, i) /\ i \in Int /\ CollGood(d) /\ d.order = c.order
    BY <1>2, <2>2, <2>4 DEF StaysGood, InRange, Len1
  <2>6. KeepsGood(d, SetCursor(d, i))
    BY <2>5, SetCursorIs
  <2> QED BY <2>1, <2>5, <2>6 DEF KeepsGood, StaysGood, SameButMarks
<1> QED BY <1>3, <1>4

LEMMA SetToSeqIs ==
    ASSUME NEW S, IsFiniteSet(S)
    PROVE  \E m \in Nat : /\ SetToSeq(S) \in [1..m -> S] /\ \A i, j \in 1..m : SetToSeq(S)[i] = SetToSeq(S)[j] => i = j
                          /\ m = Cardinality(S)
<1> DEFINE m == Cardinality(S)
           Right(f) == \A i, j \in DOMAIN f : f[i] = f[j] => i = j
<1>1. m \in Nat /\ ExistsBijection(1..m, S)
  BY FS_CardinalityType, Zenon
<1>2. PICK f : f \in Bijection(1..m, S)
  BY <1>1 DEF ExistsBijection
<1>3. SetToSeq(S) = CHOOSE g \in [1..m -> S] : Right(g)
  BY DEF SetToSeq, IsInjective
<1> HIDE DEF m
<1>4. f \in [1..m -> S] /\ \A i, j \in 1..m : f[i] = f[j] => i = j
  BY <1>2 DEF Bijection, Injection, IsInjective
<1>5. Right(f)
  BY <1>4
<1> HIDE DEF Right
<1>6. SetToSeq(S) \in [1..m -> S] /\ Right(SetToSeq(S))
  BY <1>3, <1>4, <1>5
<1> DEFINE s == SetToSeq(S)
<1>7. s \in [1..m -> S] /\ Right(s)
  BY <1>6
<1> HIDE DEF s
<1>8. DOMAIN s = 1..m
  BY <1>7
<1>9. \A i, j \in 1..m : s[i] = s[j] => i = j
  BY <1>7, <1>8, Zenon DEF Right
<1> QED BY <1>1, <1>7, <1>9 DEF s, m

LEMMA Joined ==
    ASSUME NEW a \in Seq(Item), NEW b \in Seq(Item), NEW n, NEW m, Len(a) = n, Len(b) = m
    PROVE  a \o b \in Seq(Item) /\ Len(a \o b) = n + m
           /\ \A i \in 1..(n + m) : (a \o b)[i] = IF i <= n THEN a[i] ELSE b[i - n]
BY ConcatProperties, Zenon

(* Items at the end of the array, before it is sorted. *)
LEMMA InsertIs ==
    ASSUME NEW c, CollGood(c), NEW S, S \subseteq Item, S \cap Range(c.order) = {}
    PROVE  LET d == [c EXCEPT !.order = c.order \o SetToSeq(S)]
           IN /\ CollGood(d) /\ Range(c.order) \subseteq Range(d.order)
              /\ d.cursor = c.cursor /\ d.wink = c.wink /\ d.pending = c.pending
              /\ \A i : OnItem(c, i, d, i)
<1> DEFINE xs == SetToSeq(S)
           o == c.order \o xs
           d == [c EXCEPT !.order = o]
           n == Len1(c)
<1>1. c \in CollRecord /\ EachOnce(c) /\ SelGood(c)
  BY DEF CollGood, MarksGood
<1>2. /\ n \in Nat /\ c.order \in [1..n -> Item] /\ \A i, j \in 1..n : c.order[i] = c.order[j] => i = j
      /\ Range(c.order) = {c.order[i] : i \in 1..n} /\ c.order \in Seq(Item)
  BY <1>1, OrderIs, MarksAre
<1>3. IsFiniteSet(S)
  <2>1. IsFiniteSet(Item)
    BY FS_Interval, CollectionAssumption DEF Item
  <2>2. S \in SUBSET Item
    OBVIOUS
  <2> QED BY <2>1, <2>2, FS_Subset, Zenon
<1>4. PICK m \in Nat : xs \in [1..m -> S] /\ \A i, j \in 1..m : xs[i] = xs[j] => i = j
  BY <1>3, SetToSeqIs
<1> HIDE DEF xs
<1>5. xs \in [1..m -> Item] /\ \A i \in 1..m : xs[i] \notin Range(c.order)
  BY <1>4
<1>6. xs \in Seq(Item) /\ Len(xs) = m
  BY <1>5, OrderFrom
<1>7. o \in Seq(Item) /\ Len(o) = n + m
      /\ \A i \in 1..(n + m) : o[i] = IF i <= n THEN c.order[i] ELSE xs[i - n]
  <2>1. Len(c.order) = n
    BY DEF Len1
  <2>2. n \in Nat /\ m \in Nat /\ c.order \in Seq(Item) /\ xs \in Seq(Item) /\ Len(c.order) = n /\ Len(xs) = m
    BY <1>2, <1>6, <2>1
  <2> HIDE DEF n
  <2> QED BY <2>2, Joined
<1> HIDE DEF o
<1>8. MarksTo(c, d, o, c.cursor, c.pending, c.wink, c.old)
  BY <1>1, <1>7, OrderPut
<1> HIDE DEF d
<1>9. /\ d \in CollRecord /\ SameSelection(c, d) /\ d.order = o /\ Len1(d) = n + m
      /\ d.cursor = c.cursor /\ d.pending = c.pending /\ d.wink = c.wink /\ d.timer = c.timer
  BY <1>7, <1>8 DEF MarksTo, Len1
<1> HIDE DEF n
<1>10. \A i \in 1..n : i \in 1..(n + m) /\ o[i] = c.order[i]
  BY <1>2, <1>4, <1>7
<1>11. \A i, j \in 1..(n + m) : o[i] = o[j] => i = j
  <2>1. \A i \in 1..(n + m) : (i \in 1..n /\ o[i] = c.order[i] /\ o[i] \in Range(c.order))
                              \/ (i - n \in 1..m /\ o[i] = xs[i - n] /\ o[i] \notin Range(c.order))
    <3>1. ASSUME NEW i \in 1..(n + m)
          PROVE (i \in 1..n /\ o[i] = c.order[i] /\ o[i] \in Range(c.order))
                              \/ (i - n \in 1..m /\ o[i] = xs[i - n] /\ o[i] \notin Range(c.order))
      <4>1. CASE i <= n
        <5>1. i \in 1..n /\ o[i] = c.order[i]
          BY <1>2, <1>7, <4>1
        <5> QED BY <1>2, <5>1
      <4>2. CASE ~(i <= n)
        <5>1. i - n \in 1..m /\ o[i] = xs[i - n]
          BY <1>2, <1>4, <1>7, <4>2
        <5> QED BY <1>5, <5>1
      <4> QED BY <4>1, <4>2
    <3> QED BY <3>1
  <2>2. ASSUME NEW i \in 1..(n + m), NEW j \in 1..(n + m), o[i] = o[j] PROVE i = j
    <3>1. CASE i \in 1..n /\ o[i] = c.order[i] /\ o[i] \in Range(c.order)
      <4>1. j \in 1..n /\ o[j] = c.order[j]
        BY <2>1, <2>2, <3>1
      <4> QED BY <1>2, <2>2, <3>1, <4>1
    <3>2. CASE i - n \in 1..m /\ o[i] = xs[i - n] /\ o[i] \notin Range(c.order)
      <4>1. j - n \in 1..m /\ o[j] = xs[j - n]
        BY <2>1, <2>2, <3>2
      <4>2. i - n = j - n
        BY <1>4, <2>2, <3>2, <4>1
      <4> QED BY <1>2, <1>4, <4>2
    <3> QED BY <2>1, <3>1, <3>2
  <2> QED BY <2>2
<1>12. EachOnce(d)
  BY <1>9, <1>11 DEF EachOnce
<1>13. Range(c.order) \subseteq Range(d.order)
  <2>1. DOMAIN o = 1..(n + m)
    BY <1>7, LenProperties
  <2> QED BY <1>2, <1>9, <1>10, <2>1 DEF Range
<1>14. \A i : OnItem(c, i, d, i)
  <2>1. ASSUME NEW i, InRange(c, i) PROVE InRange(d, i) /\ At(d, i) = At(c, i)
    <3>1. i \in 0..(n - 1)
      BY <2>1 DEF InRange, n
    <3>2. i + 1 \in 1..n /\ i \in 0..(n + m - 1)
      BY <1>2, <1>4, <3>1
    <3>3. InRange(d, i)
      <4>1. n + m - 1 = Len1(d) - 1
        <5>1. n \in Nat /\ m \in Nat /\ Len1(d) = n + m
          BY <1>2, <1>9
        <5> QED BY <5>1
      <4> QED BY <3>2, <4>1 DEF InRange
    <3> QED BY <1>9, <1>10, <3>2, <3>3 DEF At
  <2> QED BY <2>1 DEF OnItem
<1>15. MarksGood(d)
  <2>1. InRange(d, d.cursor) \/ d.cursor = -1 \/ (d.cursor = 0 /\ Len1(d) = 0)
    <3>1. CASE InRange(c, c.cursor)
      BY <1>9, <1>14, <3>1 DEF OnItem
    <3>2. CASE c.cursor = -1
      BY <1>9, <3>2
    <3>3. CASE c.cursor = 0 /\ n = 0
      BY <1>4, <1>9, <3>3 DEF InRange
    <3> QED BY <3>1, <3>2, <3>3 DEF CollGood, MarksGood, n
  <2>2. (d.timer <=> d.wink # -1) /\ (d.timer => InRange(d, d.wink))
    BY <1>9, <1>14 DEF CollGood, MarksGood, OnItem
  <2> QED BY <1>12, <2>1, <2>2 DEF MarksGood
<1>16. SelGood(d)
  BY <1>1, <1>9, <1>13, SelectionKept
<1> QED BY <1>9, <1>13, <1>14, <1>15, <1>16 DEF CollGood, d, o, xs

(* What is in the way while an operation runs, and how it starts and ends. *)
ModeTo(c, d) ==
    /\ d \in CollRecord /\ SameMarks(c, d)
    /\ d.sel = c.sel /\ d.count = c.count /\ d.primary = c.primary /\ d.normal = c.normal /\ d.lost = c.lost

LEMMA ModeGood ==
    ASSUME NEW c, NEW d, CollGood(c), ModeTo(c, d)
    PROVE  StaysGood(c, d)
<1>1. d.order = c.order /\ SameMarks(c, d)
  BY DEF ModeTo, SameMarks
<1>2. MarksGood(d)
  BY <1>1, MarksKept DEF CollGood
<1>3. SelGood(d)
  BY <1>1, Zenon DEF CollGood, ModeTo, SelGood, Counted1
<1> QED BY <1>1, <1>2, <1>3 DEF ModeTo, CollGood, StaysGood

LEMMA ModePut ==
    ASSUME NEW c \in CollRecord, NEW t \in BOOLEAN, NEW p \in {"none", "menu", "drag"}
    PROVE  /\ ModeTo(c, [c EXCEPT !.temp = t]) /\ [c EXCEPT !.temp = t].temp = t
           /\ ModeTo(c, [c EXCEPT !.popup = p])
           /\ ModeTo(c, [c EXCEPT !.temp = t, !.popup = p])
           /\ ModeTo(c, [c EXCEPT !.refused = t])
<1>1. ASSUME NEW d, d \in {[c EXCEPT !.temp = t], [c EXCEPT !.popup = p],
                           [c EXCEPT !.temp = t, !.popup = p], [c EXCEPT !.refused = t]}
      PROVE  ModeTo(c, d)
  <2>1. CASE d = [c EXCEPT !.temp = t]
    BY <2>1 DEF CollRecord, ModeTo, SameMarks
  <2>2. CASE d = [c EXCEPT !.popup = p]
    BY <2>2 DEF CollRecord, ModeTo, SameMarks
  <2>3. CASE d = [c EXCEPT !.temp = t, !.popup = p]
    BY <2>3 DEF CollRecord, ModeTo, SameMarks
  <2>4. CASE d = [c EXCEPT !.refused = t]
    BY <2>4 DEF CollRecord, ModeTo, SameMarks
  <2> QED BY <1>1, <2>1, <2>2, <2>3, <2>4
<1>2. [c EXCEPT !.temp = t].temp = t
  BY DEF CollRecord
<1> QED BY <1>1, <1>2

Begun(c, b) ==
    /\ CollGood(b) /\ b \in CollRecord /\ EachOnce(b) /\ SelGood(b) /\ b.lost = FALSE
    /\ b.order = c.order /\ b.key = c.key /\ b.cursor = c.cursor /\ b.wink = c.wink /\ b.winks = c.winks
    /\ b.pending = c.pending /\ b.timer = c.timer /\ b.count = c.count /\ b.sel = c.sel

LEMMA Begins ==
    ASSUME NEW c, CollGood(c), NEW r \in BOOLEAN
    PROVE  Begun(c, [c EXCEPT !.lost = FALSE]) /\ Begun(c, [c EXCEPT !.lost = FALSE, !.refused = r])
<1>1. c \in CollRecord
  BY DEF CollGood
<1>2. ASSUME NEW b, b \in CollRecord, SameMarks(c, b), b.lost = FALSE,
             b.sel = c.sel, b.count = c.count, b.primary = c.primary, b.normal = c.normal
      PROVE  Begun(c, b)
  <2>1. b.order = c.order
    BY <1>2 DEF SameMarks
  <2>2. MarksGood(b)
    BY <1>2, MarksKept DEF CollGood
  <2>3. ~b.lost
    BY <1>2
  <2>4. SelGood(b)
    BY <1>2, <2>1, <2>3, Zenon DEF CollGood, SelGood, Counted1
  <2> QED BY <1>2, <2>2, <2>4 DEF Begun, CollGood, MarksGood, SameMarks
<1>3. Begun(c, [c EXCEPT !.lost = FALSE])
  <2> DEFINE no == FALSE
             b == [c EXCEPT !.lost = no]
  <2>1. no \in BOOLEAN /\ no = FALSE
    OBVIOUS
  <2> HIDE DEF no
  <2>2. b \in CollRecord /\ SameMarks(c, b) /\ b.lost = no /\ b.sel = c.sel /\ b.count = c.count
        /\ b.primary = c.primary /\ b.normal = c.normal
    BY <1>1, <2>1 DEF CollRecord, SameMarks
  <2>3. Begun(c, b)
    <3> HIDE DEF b
    <3> QED BY <1>2, <2>1, <2>2
  <2> QED BY <2>3 DEF no
<1>4. Begun(c, [c EXCEPT !.lost = FALSE, !.refused = r])
  <2> DEFINE no == FALSE
             b == [c EXCEPT !.lost = no, !.refused = r]
  <2>1. no \in BOOLEAN /\ no = FALSE
    OBVIOUS
  <2> HIDE DEF no
  <2>2. b \in CollRecord /\ SameMarks(c, b) /\ b.lost = no /\ b.sel = c.sel /\ b.count = c.count
        /\ b.primary = c.primary /\ b.normal = c.normal
    BY <1>1, <2>1 DEF CollRecord, SameMarks
  <2>3. Begun(c, b)
    <3> HIDE DEF b
    <3> QED BY <1>2, <2>1, <2>2
  <2> QED BY <2>3 DEF no
<1> QED BY <1>3, <1>4

(* What a step must show. *)
CollStep == CollGood(coll') /\ MarksMove

LEMMA Stays ==
    ASSUME NEW b, Begun(coll, b), StaysGood(b, coll')
    PROVE  CollStep
BY DEF Begun, StaysGood, CollStep, MarksMove

LEMMA QuietStays ==
    ASSUME CollGood(coll), NEW d, coll' = d, StaysGood([coll EXCEPT !.lost = FALSE], d)
    PROVE  CollStep
<1>1. TRUE \in BOOLEAN
  OBVIOUS
<1>2. Begun(coll, [coll EXCEPT !.lost = FALSE])
  BY <1>1, Begins
<1> QED BY <1>2, Stays

LEMMA StepStays ==
    ASSUME CollGood(coll), NEW r \in BOOLEAN, NEW d, coll' = [d EXCEPT !.refused = FALSE],
           StaysGood([coll EXCEPT !.lost = FALSE, !.refused = r], d)
    PROVE  CollStep
<1> DEFINE b == [coll EXCEPT !.lost = FALSE, !.refused = r]
<1>1. Begun(coll, b)
  BY Begins
<1> HIDE DEF b
<1>2. StaysGood(b, d) /\ CollGood(d) /\ d \in CollRecord
  BY DEF b, StaysGood, CollGood
<1>3. ModeTo(d, coll')
  <2>1. FALSE \in BOOLEAN /\ "none" \in {"none", "menu", "drag"}
    OBVIOUS
  <2> QED BY <1>2, <2>1, ModePut
<1>4. StaysGood(d, coll')
  BY <1>2, <1>3, ModeGood
<1>5. StaysGood(b, coll')
  BY <1>2, <1>4 DEF StaysGood
<1> QED BY <1>1, <1>5, Stays

LEMMA ShownIs == ASSUME CollGood(coll) PROVE Shown = Range(coll.order)
<1>1. coll \in CollRecord /\ EachOnce(coll)
  BY DEF CollGood, MarksGood
<1> QED BY <1>1, OrderIs DEF Shown

--------------------
(* The Directory's reports. *)
LEMMA AddedKeeps ==
    ASSUME CollGood(coll), NEW S, S \subseteq Item, S \cap Shown = {}, ItemsAdded(S)
    PROVE  CollStep
<1> DEFINE b == [coll EXCEPT !.lost = FALSE]
           d == [b EXCEPT !.order = b.order \o SetToSeq(S)]
           e == Qsort(d)
<1>1. coll' = e
  BY DEF ItemsAdded, StepQuietly, AddItems
<1>2. TRUE \in BOOLEAN
  OBVIOUS
<1>3. Begun(coll, b)
  BY <1>2, Begins
<1>4. Shown = Range(coll.order)
  BY ShownIs
<1> HIDE DEF b
<1>5. S \cap Range(b.order) = {} /\ CollGood(b)
  BY <1>3, <1>4 DEF Begun
<1>6. /\ CollGood(d) /\ Range(b.order) \subseteq Range(d.order)
      /\ d.cursor = b.cursor /\ d.wink = b.wink /\ d.pending = b.pending
      /\ \A i : OnItem(b, i, d, i)
  BY <1>5, InsertIs
<1> HIDE DEF d
<1>7. d \in CollRecord /\ MarksGood(d) /\ SelGood(d) /\ EachOnce(d)
  BY <1>6 DEF CollGood, MarksGood
<1>8. SortedFrom(d, e)
  BY <1>7, QsortIs
<1> HIDE DEF e
<1>9. e \in CollRecord /\ SameSelection(d, e) /\ Range(e.order) = Range(d.order)
      /\ OnItem(d, d.cursor, e, e.cursor) /\ OnItem(d, d.wink, e, e.wink) /\ OnItem(d, d.pending, e, e.pending)
  BY <1>8 DEF SortedFrom
<1>10. MarksGood(e)
  BY <1>7, <1>8, <1>9, QsortKeeps
<1>11. SelGood(e)
  BY <1>7, <1>9, SelectionKept
<1>12. \A i : InRange(coll, i) => InRange(b, i) /\ At(b, i) = At(coll, i)
  BY <1>3 DEF Begun, InRange, At, Len1
<1>13. coll.cursor = b.cursor /\ coll.wink = b.wink /\ coll.pending = b.pending
  BY <1>3 DEF Begun
<1>14. ASSUME NEW i, NEW j, OnItem(b, i, d, i), OnItem(d, i, coll', j), InRange(coll, i)
       PROVE  Follows(i, j, At(coll, i))
  BY <1>12, <1>14 DEF OnItem, Follows
<1>15. MarksMove
  BY <1>1, <1>6, <1>9, <1>13, <1>14 DEF MarksMove
<1> QED BY <1>1, <1>9, <1>10, <1>11, <1>15 DEF CollStep, CollGood

LEMMA ChangesKeeps ==
    ASSUME CollGood(coll), NEW x \in Item, NEW k \in 1..MaxKey, ItemChanges(x, k)
    PROVE  CollStep
<1> DEFINE b == [coll EXCEPT !.lost = FALSE]
           K == [b.key EXCEPT ![x] = k]
           d == [b EXCEPT !.key = K]
<1>1. coll' = d
  BY DEF ItemChanges, StepQuietly
<1>2. TRUE \in BOOLEAN
  OBVIOUS
<1>3. Begun(coll, b)
  BY <1>2, Begins
<1> HIDE DEF b
<1>4. b \in CollRecord /\ MarksGood(b) /\ SelGood(b) /\ CollGood(b)
  BY <1>3 DEF Begun, CollGood
<1>5. K \in [Item -> Int]
  <2>1. b.key \in [Item -> Int]
    BY <1>4 DEF CollRecord
  <2>2. k \in Int
    BY CollectionAssumption
  <2> QED BY <2>1, <2>2
<1> HIDE DEF K
<1>6. d \in CollRecord
  BY <1>4, <1>5 DEF CollRecord
<1>7. SameSelection(b, d) /\ d.order = b.order /\ d.cursor = b.cursor /\ d.wink = b.wink /\ d.timer = b.timer
  BY <1>4 DEF CollRecord, SameSelection
<1> HIDE DEF d
<1>8. MarksGood(d)
  BY <1>4, <1>7 DEF MarksGood, EachOnce, InRange, Len1
<1>9. SelGood(d)
  BY <1>4, <1>7, SelectionKept
<1>10. StaysGood(b, d)
  BY <1>6, <1>7, <1>8, <1>9 DEF StaysGood, CollGood
<1> QED BY <1>1, <1>3, <1>10, Stays

LEMMA UpdatedKeeps ==
    ASSUME CollGood(coll), ItemsUpdated
    PROVE  CollStep
<1> DEFINE b == [coll EXCEPT !.lost = FALSE]
           e == Qsort(b)
<1>1. coll' = e
  BY DEF ItemsUpdated, StepQuietly
<1>2. TRUE \in BOOLEAN
  OBVIOUS
<1>3. Begun(coll, b)
  BY <1>2, Begins
<1> HIDE DEF b
<1>4. b \in CollRecord /\ MarksGood(b) /\ SelGood(b) /\ EachOnce(b)
  BY <1>3 DEF Begun, CollGood
<1>5. SortedFrom(b, e)
  BY <1>4, QsortIs
<1> HIDE DEF e
<1>6. e \in CollRecord /\ SameSelection(b, e) /\ Range(e.order) = Range(b.order)
      /\ OnItem(b, b.cursor, e, e.cursor) /\ OnItem(b, b.wink, e, e.wink) /\ OnItem(b, b.pending, e, e.pending)
  BY <1>5 DEF SortedFrom
<1>7. MarksGood(e)
  BY <1>4, <1>5, <1>6, QsortKeeps
<1>8. SelGood(e)
  BY <1>4, <1>6, SelectionKept
<1>9. \A i : InRange(coll, i) => InRange(b, i) /\ At(b, i) = At(coll, i)
  BY <1>3 DEF Begun, InRange, At, Len1
<1>10. coll.cursor = b.cursor /\ coll.wink = b.wink /\ coll.pending = b.pending
  BY <1>3 DEF Begun
<1>11. ASSUME NEW i, NEW j, OnItem(b, i, coll', j), InRange(coll, i)
       PROVE  Follows(i, j, At(coll, i))
  BY <1>9, <1>11 DEF OnItem, Follows
<1>12. MarksMove
  BY <1>1, <1>6, <1>10, <1>11 DEF MarksMove
<1> QED BY <1>1, <1>6, <1>7, <1>8, <1>12 DEF CollStep, CollGood

LEMMA DeletedKeeps ==
    ASSUME CollGood(coll), NEW S, ItemsDeleted(S)
    PROVE  CollStep
<1>1. PICK r \in BOOLEAN :
        coll' = [DeleteIf([coll EXCEPT !.lost = FALSE, !.refused = r], S) EXCEPT !.refused = FALSE]
  BY DEF ItemsDeleted, Step
<1>2. S # {} /\ S \subseteq Range(coll.order)
  BY ShownIs DEF ItemsDeleted
<1> DEFINE b == [coll EXCEPT !.lost = FALSE, !.refused = r]
           d == DeleteIf(b, S)
<1>3. Begun(coll, b)
  BY Begins
<1>4. coll' = [d EXCEPT !.refused = FALSE]
  BY <1>1
<1> HIDE DEF b
<1>5. b \in CollRecord /\ MarksGood(b) /\ SelGood(b) /\ b.lost = FALSE /\ S \subseteq Range(b.order)
  BY <1>2, <1>3 DEF Begun, CollGood
<1>6. /\ d \in CollRecord /\ MarksGood(d) /\ SelGood(d) /\ Range(d.order) = Range(b.order) \ S
      /\ InRange(b, b.cursor) /\ At(b, b.cursor) \notin S => OnItem(b, b.cursor, d, d.cursor)
  BY <1>2, <1>5, DeleteIfIs
<1> HIDE DEF d
<1>7. CollGood(d)
  BY <1>6 DEF CollGood
<1>8. ModeTo(d, coll')
  <2>1. FALSE \in BOOLEAN /\ "none" \in {"none", "menu", "drag"}
    OBVIOUS
  <2> QED BY <1>4, <1>6, <2>1, ModePut
<1>9. CollGood(coll') /\ coll'.order = d.order /\ coll'.cursor = d.cursor
  BY <1>7, <1>8, ModeGood DEF StaysGood, ModeTo, SameMarks
<1>10. b.order = coll.order /\ b.cursor = coll.cursor
  BY <1>3 DEF Begun
<1>11. InRange(coll, coll.cursor) => Follows(coll.cursor, coll'.cursor, At(coll, coll.cursor))
  BY <1>6, <1>9, <1>10 DEF Follows, OnItem, InRange, At, Len1
<1>12. ~(Shown \subseteq Range(coll'.order))
  BY <1>2, <1>6, <1>9, <1>10, ShownIs
<1> QED BY <1>9, <1>11, <1>12 DEF CollStep, MarksMove

--------------------
(* The winks, the cursor and the window. *)
LEMMA KeepsStays == ASSUME NEW c, NEW d, KeepsGood(c, d) PROVE StaysGood(c, d)
BY DEF KeepsGood, SameButMarks, StaysGood

LEMMA QuietBegins ==
    ASSUME CollGood(coll)
    PROVE  Begun(coll, [coll EXCEPT !.lost = FALSE])
<1>1. TRUE \in BOOLEAN
  OBVIOUS
<1> QED BY <1>1, Begins

LEMMA SameRange ==
    ASSUME NEW b, NEW i, Begun(coll, b)
    PROVE  InRange(b, i) <=> InRange(coll, i)
BY DEF Begun, InRange, Len1

LEMMA WinkedKeeps ==
    ASSUME CollGood(coll), NEW i \in Position, Winked(i)
    PROVE  CollStep
<1> DEFINE b == [coll EXCEPT !.lost = FALSE]
           d == Wink(b, i)
<1>1. coll' = d
  BY DEF Winked, StepQuietly
<1>2. Begun(coll, b)
  BY QuietBegins
<1>3. InRange(coll, i) /\ i \in Int
  BY CollectionAssumption DEF Winked, Position
<1> HIDE DEF b
<1>4. InRange(b, i) /\ CollGood(b)
  BY <1>2, <1>3, SameRange DEF Begun
<1>5. StaysGood(b, d)
  BY <1>3, <1>4, WinkIs, KeepsStays
<1> QED BY <1>1, <1>2, <1>5, Stays

LEMMA MapKeeps ==
    ASSUME CollGood(coll), Map
    PROVE  CollStep
<1> DEFINE b == [coll EXCEPT !.lost = FALSE]
           d == WinkOnMap(b)
<1>1. coll' = d
  BY DEF Map, StepQuietly
<1>2. Begun(coll, b)
  BY QuietBegins
<1> HIDE DEF b
<1>3. StaysGood(b, d)
  BY <1>2, WinkOnMapIs, KeepsStays DEF Begun
<1> QED BY <1>1, <1>2, <1>3, Stays

LEMMA TimeoutKeeps ==
    ASSUME CollGood(coll), WinkTimeout
    PROVE  CollStep
<1> DEFINE b == [coll EXCEPT !.lost = FALSE]
           m == b.winks - 1
           d == [b EXCEPT !.winks = m]
           e == [b EXCEPT !.wink = -1, !.timer = FALSE]
<1>1. coll' = IF b.winks > 0 THEN d ELSE e
  BY DEF WinkTimeout, StepQuietly
<1>2. Begun(coll, b)
  BY QuietBegins
<1> HIDE DEF b
<1>3. CollGood(b) /\ b \in CollRecord /\ b.winks \in Int
  BY <1>2, MarksAre DEF Begun
<1>4. StaysGood(b, e)
  BY <1>3, WinkOff, KeepsStays
<1>5. StaysGood(b, d)
  <2>1. m \in Int
    BY <1>3
  <2> HIDE DEF m
  <2>2. d \in CollRecord
    BY <1>3, <2>1 DEF CollRecord
  <2>3. SameButMarks(b, d) /\ d.cursor = b.cursor /\ d.wink = b.wink /\ d.timer = b.timer
    BY <1>3 DEF CollRecord, SameButMarks, SameSelection
  <2> HIDE DEF d
  <2>4. (d.timer <=> d.wink # -1) /\ (d.timer => InRange(b, d.wink))
    BY <1>3, <2>3 DEF CollGood, MarksGood
  <2>5. InRange(b, d.cursor) \/ d.cursor = -1 \/ (d.cursor = 0 /\ Len1(b) = 0)
    BY <1>3, <2>3 DEF CollGood, MarksGood
  <2> QED BY <1>3, <2>2, <2>3, <2>4, <2>5, KeptGood, KeepsStays
<1> HIDE DEF d, e
<1> QED BY <1>1, <1>2, <1>4, <1>5, Stays

LEMMA CursorSetKeeps ==
    ASSUME CollGood(coll), CursorSet
    PROVE  CollStep
<1>1. PICK i \in {-1, 0, IF Len1(coll) > 0 THEN Len1(coll) - 1 ELSE 0} :
        coll' = SetCursor([coll EXCEPT !.lost = FALSE], i)
  BY DEF CursorSet, StepQuietly
<1> DEFINE b == [coll EXCEPT !.lost = FALSE]
           d == SetCursor(b, i)
<1>2. Begun(coll, b)
  BY QuietBegins
<1>3. coll' = d
  BY <1>1
<1> HIDE DEF b
<1>4. CollGood(b) /\ b \in CollRecord /\ EachOnce(b) /\ Len1(b) = Len1(coll)
  BY <1>2 DEF Begun, Len1
<1>5. Len1(b) \in Nat
  BY <1>4, OrderIs
<1>6. i \in Int /\ (InRange(b, i) \/ i = -1 \/ (i = 0 /\ Len1(b) = 0))
  BY <1>1, <1>4, <1>5 DEF InRange
<1>7. StaysGood(b, d)
  BY <1>4, <1>6, SetCursorIs, KeepsStays
<1> QED BY <1>2, <1>3, <1>7, Stays

LEMMA ResizeKeeps ==
    ASSUME CollGood(coll), NEW n \in {1, 2}, Resize(n)
    PROVE  CollStep
<1> DEFINE b == [coll EXCEPT !.lost = FALSE]
           d == [b EXCEPT !.columns = n]
<1>1. coll' = d
  BY DEF Resize, StepQuietly
<1>2. Begun(coll, b)
  BY QuietBegins
<1> HIDE DEF b
<1>3. CollGood(b) /\ b \in CollRecord
  BY <1>2 DEF Begun
<1>4. d \in CollRecord
  BY <1>3 DEF CollRecord
<1>5. SameButMarks(b, d) /\ d.cursor = b.cursor /\ d.wink = b.wink /\ d.timer = b.timer
  BY <1>3 DEF CollRecord, SameButMarks, SameSelection
<1> HIDE DEF d
<1>6. (d.timer <=> d.wink # -1) /\ (d.timer => InRange(b, d.wink))
  BY <1>3, <1>5 DEF CollGood, MarksGood
<1>7. InRange(b, d.cursor) \/ d.cursor = -1 \/ (d.cursor = 0 /\ Len1(b) = 0)
  BY <1>3, <1>5 DEF CollGood, MarksGood
<1>8. StaysGood(b, d)
  BY <1>3, <1>4, <1>5, <1>6, <1>7, KeptGood, KeepsStays
<1> QED BY <1>1, <1>2, <1>8, Stays

LEMMA CursorKeyKeeps ==
    ASSUME CollGood(coll), NEW drow \in Int, NEW dcol \in Int, NEW first \in Int, NEW last \in Int,
           NEW mark \in {"none", "select", "unselect"}, CursorKey(drow, dcol, first, last, mark)
    PROVE  CollStep
<1>1. CASE mark = "none"
  <2> DEFINE b == [coll EXCEPT !.lost = FALSE]
             d == MoveCursor(b, drow, dcol, first, last, mark)
  <2>1. coll' = d
    BY <1>1 DEF CursorKey, StepQuietly
  <2>2. Begun(coll, b)
    BY QuietBegins
  <2> HIDE DEF b
  <2>3. StaysGood(b, d)
    BY <2>2, MoveCursorIs DEF Begun
  <2> QED BY <2>1, <2>2, <2>3, Stays
<1>2. CASE mark # "none"
  <2>1. PICK r \in BOOLEAN :
          coll' = [MoveCursor([coll EXCEPT !.lost = FALSE, !.refused = r], drow, dcol, first, last, mark)
                     EXCEPT !.refused = FALSE]
    BY <1>2 DEF CursorKey, Step
  <2> DEFINE b == [coll EXCEPT !.lost = FALSE, !.refused = r]
             d == MoveCursor(b, drow, dcol, first, last, mark)
  <2>2. StaysGood(b, d)
    <3>1. Begun(coll, b)
      BY Begins
    <3> HIDE DEF b
    <3> QED BY <3>1, MoveCursorIs DEF Begun
  <2>3. coll' = [d EXCEPT !.refused = FALSE]
    BY <2>1
  <2> HIDE DEF d
  <2> QED BY <2>2, <2>3, StepStays
<1> QED BY <1>1, <1>2

LEMMA MarkStepsKeep ==
    ASSUME CollGood(coll), MarkSteps
    PROVE  CollStep
<1>1. CASE \E i \in Position : Winked(i)
  BY <1>1, WinkedKeeps
<1>2. CASE Map
  BY <1>2, MapKeeps
<1>3. CASE WinkTimeout
  BY <1>3, TimeoutKeeps
<1>4. CASE \E first, last \in 0..MaxRows : first <= last /\
           \E d \in {<<-1, 0>>, <<1, 0>>, <<0, -1>>, <<0, 1>>, <<first - last + 1, 0>>,
                     <<last - first - 1, 0>>} :
               CursorKey(d[1], d[2], first, last, "none")
  <2>1. PICK first \in 0..MaxRows, last \in 0..MaxRows : \E d \in {<<-1, 0>>, <<1, 0>>, <<0, -1>>, <<0, 1>>,
               <<first - last + 1, 0>>, <<last - first - 1, 0>>} : CursorKey(d[1], d[2], first, last, "none")
    BY <1>4
  <2>2. PICK d \in {<<-1, 0>>, <<1, 0>>, <<0, -1>>, <<0, 1>>,
               <<first - last + 1, 0>>, <<last - first - 1, 0>>} : CursorKey(d[1], d[2], first, last, "none")
    BY <2>1
  <2>3. first \in Int /\ last \in Int
    BY CollectionAssumption
  <2>4. d[1] \in Int /\ d[2] \in Int
    BY <2>3
  <2>5. "none" \in {"none", "select", "unselect"}
    OBVIOUS
  <2> QED BY <2>2, <2>3, <2>4, <2>5, CursorKeyKeeps
<1>5. CASE CursorSet
  BY <1>5, CursorSetKeeps
<1>6. CASE \E n \in {1, 2} : Resize(n)
  BY <1>6, ResizeKeeps
<1> QED BY <1>1, <1>2, <1>3, <1>4, <1>5, <1>6 DEF MarkSteps

--------------------
(* The selection. *)
LEMMA StaysThen ==
    ASSUME NEW c, NEW d, NEW e, d.order = c.order, StaysGood(d, e)
    PROVE  StaysGood(c, e)
BY DEF StaysGood

LEMMA ModeOnly ==
    ASSUME NEW c, CollGood(c), c.lost = FALSE, NEW t \in BOOLEAN, NEW p \in {"none", "menu", "drag"},
           NEW d \in {[c EXCEPT !.temp = t], [c EXCEPT !.popup = p], [c EXCEPT !.temp = t, !.popup = p]}
    PROVE  StaysGood(c, d) /\ d.lost = FALSE /\ d.count = c.count /\ d.sel = c.sel
<1>1. c \in CollRecord
  BY DEF CollGood
<1>2. ModeTo(c, d)
  <2>1. PICK x, y, z : x = [c EXCEPT !.temp = t] /\ y = [c EXCEPT !.popup = p] /\ z = [c EXCEPT !.temp = t, !.popup = p]
    OBVIOUS
  <2>2. ModeTo(c, x)
    BY <1>1, <2>1, ModePut, Zenon
  <2>3. ModeTo(c, y)
    BY <1>1, <2>1, ModePut, Zenon
  <2>4. ModeTo(c, z)
    BY <1>1, <2>1, ModePut, Zenon
  <2>5. d \in {x, y, z}
    BY <2>1
  <2> QED BY <2>2, <2>3, <2>4, <2>5, Zenon
<1> QED BY <1>2, ModeGood DEF ModeTo

LEMMA ClearExceptStays ==
    ASSUME NEW c, CollGood(c), c.lost = FALSE, NEW x \in Range(c.order) \cup {0}
    PROVE  StaysGood(c, ClearExcept(c, x)) /\ (x # 0 => ClearExcept(c, x).lost = FALSE)
<1>1. c \in CollRecord /\ SelGood(c)
  BY DEF CollGood
<1>2. Selects(c, ClearExcept(c, x)) /\ (x # 0 => ClearExcept(c, x).lost = FALSE)
  BY <1>1, ClearExceptIs
<1> QED BY <1>2, SelectsGood

LEMMA SetSelectedStays ==
    ASSUME NEW c, CollGood(c), c.lost = FALSE, NEW x \in Range(c.order), NEW selected \in BOOLEAN
    PROVE  StaysGood(c, SetSelected(c, x, selected)) /\ (selected => SetSelected(c, x, selected).lost = FALSE)
<1>1. c \in CollRecord /\ SelGood(c)
  BY DEF CollGood
<1>2. Selects(c, SetSelected(c, x, selected)) /\ (selected => SetSelected(c, x, selected).lost = FALSE)
  BY <1>1, SetSelectedIs
<1> QED BY <1>2, SelectsGood

LEMMA ToggleKeeps ==
    ASSUME CollGood(coll), NEW x, Toggle(x)
    PROVE  CollStep
<1>1. PICK r \in BOOLEAN : LET b == [coll EXCEPT !.lost = FALSE, !.refused = r]
                           IN coll' = [SetSelected(b, x, x \notin b.sel) EXCEPT !.refused = FALSE]
  BY DEF Toggle, Step
<1> DEFINE b == [coll EXCEPT !.lost = FALSE, !.refused = r]
           s == x \notin b.sel
           d == SetSelected(b, x, s)
<1>2. coll' = [d EXCEPT !.refused = FALSE]
  BY <1>1
<1>3. s \in BOOLEAN
  OBVIOUS
<1> HIDE DEF s
<1>4. StaysGood(b, d)
  <2>1. Begun(coll, b) /\ x \in Range(coll.order)
    BY Begins, ShownIs DEF Toggle
  <2> HIDE DEF b
  <2> QED BY <1>3, <2>1, SetSelectedStays DEF Begun
<1> HIDE DEF d
<1> QED BY <1>2, <1>4, StepStays

LEMMA ClearsKeep ==
    ASSUME CollGood(coll), NEW x, SelectOnly(x) \/ (x = 0 /\ ClearSelection)
    PROVE  CollStep
<1>1. PICK r \in BOOLEAN :
        coll' = [ClearExcept([coll EXCEPT !.lost = FALSE, !.refused = r], x) EXCEPT !.refused = FALSE]
  BY DEF SelectOnly, ClearSelection, Step
<1> DEFINE b == [coll EXCEPT !.lost = FALSE, !.refused = r]
           d == ClearExcept(b, x)
<1>2. coll' = [d EXCEPT !.refused = FALSE]
  BY <1>1
<1>3. StaysGood(b, d)
  <2>1. Begun(coll, b) /\ x \in Range(coll.order) \cup {0}
    BY Begins, ShownIs DEF SelectOnly
  <2> HIDE DEF b
  <2> QED BY <2>1, ClearExceptStays DEF Begun
<1> HIDE DEF d
<1> QED BY <1>2, <1>3, StepStays

LEMMA SelectEveryKeeps ==
    ASSUME CollGood(coll), SelectEvery
    PROVE  CollStep
<1>1. PICK r \in BOOLEAN :
        coll' = [SelectAll([coll EXCEPT !.lost = FALSE, !.refused = r]) EXCEPT !.refused = FALSE]
  BY DEF SelectEvery, Step
<1> DEFINE b == [coll EXCEPT !.lost = FALSE, !.refused = r]
           d == SelectAll(b)
<1>2. coll' = [d EXCEPT !.refused = FALSE]
  BY <1>1
<1>3. StaysGood(b, d)
  <2>1. Begun(coll, b)
    BY Begins
  <2> HIDE DEF b
  <2> QED BY <2>1, SelectAllIs, SelectsGood DEF Begun
<1> HIDE DEF d
<1> QED BY <1>2, <1>3, StepStays

LEMMA SelectWhereKeeps ==
    ASSUME CollGood(coll), NEW S, SelectWhere(S)
    PROVE  CollStep
<1>1. PICK r \in BOOLEAN :
        coll' = [SelectIf([coll EXCEPT !.lost = FALSE, !.refused = r], S) EXCEPT !.refused = FALSE]
  BY DEF SelectWhere, Step
<1> DEFINE b == [coll EXCEPT !.lost = FALSE, !.refused = r]
           d == SelectIf(b, S)
<1>2. coll' = [d EXCEPT !.refused = FALSE]
  BY <1>1
<1>3. StaysGood(b, d)
  <2>1. Begun(coll, b)
    BY Begins
  <2> HIDE DEF b
  <2> QED BY <2>1, SelectIfIs, SelectsGood DEF Begun
<1> HIDE DEF d
<1> QED BY <1>2, <1>3, StepStays

LEMMA LassoKeeps ==
    ASSUME CollGood(coll), NEW S, NEW toggle \in BOOLEAN, EndLasso(S, toggle)
    PROVE  CollStep
<1>1. PICK r \in BOOLEAN :
        coll' = [ProcessArea([coll EXCEPT !.lost = FALSE, !.refused = r], S, toggle) EXCEPT !.refused = FALSE]
  BY DEF EndLasso, Step
<1> DEFINE b == [coll EXCEPT !.lost = FALSE, !.refused = r]
           d == ProcessArea(b, S, toggle)
<1>2. coll' = [d EXCEPT !.refused = FALSE]
  BY <1>1
<1>3. StaysGood(b, d)
  <2>1. Begun(coll, b)
    BY Begins
  <2> HIDE DEF b
  <2> QED BY <2>1, ProcessAreaIs, SelectsGood DEF Begun
<1> HIDE DEF d
<1> QED BY <1>2, <1>3, StepStays

LEMMA ReclaimKeeps ==
    ASSUME CollGood(coll), Reclaim
    PROVE  CollStep
<1>1. PICK r \in BOOLEAN : LET b == [coll EXCEPT !.lost = FALSE, !.refused = r]
                           IN coll' = [Changed([b EXCEPT !.temp = FALSE]) EXCEPT !.refused = FALSE]
  BY DEF Reclaim, Step
<1> DEFINE b == [coll EXCEPT !.lost = FALSE, !.refused = r]
           t == [b EXCEPT !.temp = FALSE]
           d == Changed(t)
<1>2. coll' = [d EXCEPT !.refused = FALSE]
  BY <1>1
<1>3. StaysGood(b, d)
  <2>1. Begun(coll, b)
    BY Begins
  <2> HIDE DEF b
  <2>2. FALSE \in BOOLEAN /\ "none" \in {"none", "menu", "drag"}
    OBVIOUS
  <2>3. StaysGood(b, t)
    BY <2>1, <2>2, ModeOnly DEF Begun
  <2> HIDE DEF t
  <2>4. CollGood(t) /\ t.order = b.order /\ t \in CollRecord /\ SelGood(t)
    BY <2>3 DEF StaysGood, CollGood
  <2>5. ChangedTo(t, Changed(t))
    BY <2>4, ChangedIs DEF SelGood
  <2>6. Selects(t, d)
    BY <2>5 DEF ChangedTo, Selects
  <2> QED BY <2>4, <2>6, SelectsGood, StaysThen
<1> HIDE DEF d
<1> QED BY <1>2, <1>3, StepStays

LEMMA OtherClaimsKeeps ==
    ASSUME CollGood(coll), OtherClaims
    PROVE  CollStep
<1>1. PICK r \in BOOLEAN : LET b == [coll EXCEPT !.lost = FALSE, !.refused = r]
                           IN coll' = [[b EXCEPT !.primary = "other", !.normal = b.normal /\ b.primary # "us"]
                                         EXCEPT !.refused = FALSE]
  BY DEF OtherClaims, Step
<1> DEFINE b == [coll EXCEPT !.lost = FALSE, !.refused = r]
           n == b.normal /\ b.primary # "us"
           d == [b EXCEPT !.primary = "other", !.normal = n]
<1>2. coll' = [d EXCEPT !.refused = FALSE]
  BY <1>1
<1>3. StaysGood(b, d)
  <2>1. Begun(coll, b)
    BY Begins
  <2> HIDE DEF b
  <2>2. b \in CollRecord /\ MarksGood(b) /\ SelGood(b)
    BY <2>1 DEF Begun, CollGood
  <2>3. n \in BOOLEAN
    OBVIOUS
  <2>4. b.count > 0 => n = FALSE
    BY <2>2 DEF SelGood
  <2> HIDE DEF n
  <2>5. d \in CollRecord
    BY <2>2, <2>3 DEF CollRecord
  <2>6. SameMarks(b, d) /\ d.sel = b.sel /\ d.count = b.count /\ d.primary = "other" /\ d.normal = n
        /\ d.lost = b.lost
    BY <2>2 DEF CollRecord, SameMarks
  <2> HIDE DEF d
  <2>7. MarksGood(d)
    BY <2>2, <2>6, MarksKept
  <2>8. d.primary # "us"
    BY <2>6
  <2>9. d.order = b.order
    BY <2>6 DEF SameMarks
  <2>10. SelGood(d)
    <3>1. d.sel \subseteq Range(d.order) /\ d.count = Cardinality(d.sel)
      BY <2>2, <2>6, <2>9 DEF SelGood, Counted1
    <3>2. d.lost => d.count = 0
      BY <2>2, <2>6, Zenon DEF SelGood, Counted1
    <3>3. d.count > 0 => d.normal = FALSE
      BY <2>4, <2>6
    <3> QED BY <2>8, <3>1, <3>2, <3>3 DEF SelGood, Counted1
  <2> QED BY <2>5, <2>7, <2>9, <2>10 DEF StaysGood, CollGood
<1> HIDE DEF d
<1> QED BY <1>2, <1>3, StepStays

--------------------
(* Menus and drags. *)
LEMMA MenuKeeps ==
    ASSUME CollGood(coll), NEW x, MenuOpens(x)
    PROVE  CollStep
<1>1. PICK r \in BOOLEAN :
        LET b == [coll EXCEPT !.lost = FALSE, !.refused = r]
            temp == b.count = 0 /\ x # 0
            d == [b EXCEPT !.temp = temp, !.popup = "menu"]
        IN coll' = [(IF temp THEN SetSelected(d, x, TRUE) ELSE d) EXCEPT !.refused = FALSE]
  BY DEF MenuOpens, Step
<1> DEFINE b == [coll EXCEPT !.lost = FALSE, !.refused = r]
           t == b.count = 0 /\ x # 0
           d == [b EXCEPT !.temp = t, !.popup = "menu"]
           e == IF t THEN SetSelected(d, x, TRUE) ELSE d
<1>2. coll' = [e EXCEPT !.refused = FALSE]
  BY <1>1
<1>3. StaysGood(b, e)
  <2>1. Begun(coll, b) /\ x \in Range(coll.order) \cup {0}
    BY Begins, ShownIs DEF MenuOpens
  <2> HIDE DEF b
  <2>2. t \in BOOLEAN /\ (t => x # 0)
    OBVIOUS
  <2> HIDE DEF t
  <2>3. StaysGood(b, d) /\ d.lost = FALSE
    <3>1. "menu" \in {"none", "menu", "drag"}
      OBVIOUS
    <3> QED BY <2>1, <2>2, <3>1, ModeOnly DEF Begun
  <2> HIDE DEF d
  <2>4. CollGood(d) /\ d.order = b.order
    BY <2>3 DEF StaysGood
  <2>5. CASE t
    <3>1. x \in Range(d.order)
      BY <2>1, <2>2, <2>4, <2>5 DEF Begun
    <3>2. TRUE \in BOOLEAN
      OBVIOUS
    <3>3. StaysGood(d, SetSelected(d, x, TRUE))
      BY <2>3, <2>4, <3>1, <3>2, SetSelectedStays
    <3> QED BY <2>4, <2>5, <3>3, StaysThen
  <2>6. CASE ~t
    BY <2>3, <2>6
  <2> QED BY <2>5, <2>6
<1> HIDE DEF e
<1> QED BY <1>2, <1>3, StepStays

LEMMA WinkStays ==
    ASSUME NEW c, CollGood(c), c.lost = FALSE, NEW i \in Int, InRange(c, i) \/ i = -1
    PROVE  LET d == Wink(c, i)
           IN StaysGood(c, d) /\ d.lost = FALSE /\ d.sel = c.sel /\ d.count = c.count
              /\ d.temp = c.temp /\ d.popup = c.popup
BY WinkIs, KeepsStays DEF KeepsGood, SameButMarks, SameSelection

LEMMA DragKeeps ==
    ASSUME CollGood(coll), NEW x, NEW ctrl \in BOOLEAN, DragStarts(x, ctrl)
    PROVE  CollStep
<1>1. PICK popup \in {"drag", "none"}, r \in BOOLEAN :
        LET b == [coll EXCEPT !.lost = FALSE, !.refused = r]
            d == [Wink(b, -1) EXCEPT !.temp = IF x \notin b.sel /\ (ctrl => b.count = 0) THEN TRUE ELSE @]
            e == IF x \in b.sel THEN d
                 ELSE IF ctrl THEN SetSelected(d, x, TRUE) ELSE ClearExcept(d, x)
        IN coll' = [[e EXCEPT !.popup = IF e.count = 1 THEN popup ELSE "drag"] EXCEPT !.refused = FALSE]
  BY DEF DragStarts, Step
<1> DEFINE b == [coll EXCEPT !.lost = FALSE, !.refused = r]
           w == Wink(b, -1)
           t == IF x \notin b.sel /\ (ctrl => b.count = 0) THEN TRUE ELSE w.temp
           d == [w EXCEPT !.temp = t]
           e == IF x \in b.sel THEN d ELSE IF ctrl THEN SetSelected(d, x, TRUE) ELSE ClearExcept(d, x)
           p == IF e.count = 1 THEN popup ELSE "drag"
           f == [e EXCEPT !.popup = p]
<1>2. coll' = [f EXCEPT !.refused = FALSE]
  BY <1>1
<1>3. StaysGood(b, f)
  <2>1. Begun(coll, b) /\ x \in Range(coll.order)
    BY Begins, ShownIs DEF DragStarts
  <2> HIDE DEF b
  <2>2. CollGood(b) /\ b.lost = FALSE /\ -1 \in Int /\ x \in Range(b.order)
    BY <2>1 DEF Begun
  <2>3. StaysGood(b, w) /\ w.lost = FALSE
    BY <2>2, WinkStays
  <2> HIDE DEF w
  <2>4. CollGood(w) /\ w.order = b.order /\ w \in CollRecord
    BY <2>3 DEF StaysGood, CollGood
  <2>5. t \in BOOLEAN
    BY <2>4 DEF CollRecord
  <2> HIDE DEF t
  <2>6. StaysGood(w, d) /\ d.lost = FALSE
    <3>1. "none" \in {"none", "menu", "drag"}
      OBVIOUS
    <3> QED BY <2>3, <2>4, <2>5, <3>1, ModeOnly
  <2> HIDE DEF d
  <2>7. CollGood(d) /\ d.order = b.order
    BY <2>4, <2>6 DEF StaysGood
  <2>8. StaysGood(d, e) /\ (x # 0 => e.lost = FALSE)
    <3>1. CASE x \in b.sel
      BY <2>6, <2>7, <3>1 DEF StaysGood
    <3>2. CASE x \notin b.sel /\ ctrl = TRUE
      <4>1. TRUE \in BOOLEAN
        OBVIOUS
      <4>2. e = SetSelected(d, x, TRUE)
        BY <3>2
      <4> HIDE DEF e
      <4>3. StaysGood(d, SetSelected(d, x, TRUE)) /\ SetSelected(d, x, TRUE).lost = FALSE
        BY <2>2, <2>6, <2>7, <4>1, SetSelectedStays
      <4> QED BY <4>2, <4>3
    <3>3. CASE x \notin b.sel /\ ctrl = FALSE
      <4>1. e = ClearExcept(d, x)
        BY <3>3
      <4> HIDE DEF e
      <4>2. StaysGood(d, ClearExcept(d, x)) /\ (x # 0 => ClearExcept(d, x).lost = FALSE)
        BY <2>2, <2>6, <2>7, ClearExceptStays
      <4> QED BY <4>1, <4>2
    <3> QED BY <3>1, <3>2, <3>3
  <2> HIDE DEF e
  <2>9. x # 0
    <3>1. b \in CollRecord /\ EachOnce(b)
      BY <2>2 DEF CollGood, MarksGood
    <3>2. Range(b.order) \subseteq Item
      BY <3>1, OrderIs
    <3> QED BY <2>2, <3>2, CollectionAssumption DEF Item
  <2>10. CollGood(e) /\ e.order = b.order /\ e.lost = FALSE
    BY <2>7, <2>8, <2>9 DEF StaysGood
  <2>11. StaysGood(e, f)
    <3>1. p \in {"none", "menu", "drag"} /\ TRUE \in BOOLEAN
      OBVIOUS
    <3> HIDE DEF p
    <3> QED BY <2>10, <3>1, ModeOnly
  <2> HIDE DEF f
  <2> QED BY <2>10, <2>11, StaysThen
<1> HIDE DEF f
<1> QED BY <1>2, <1>3, StepStays

LEMMA PopupEndsKeeps ==
    ASSUME CollGood(coll), PopupEnds
    PROVE  CollStep
<1>1. PICK r \in BOOLEAN :
        LET b == [coll EXCEPT !.lost = FALSE, !.refused = r]
            d == IF b.temp THEN ClearExcept(b, 0) ELSE b
        IN coll' = [[d EXCEPT !.temp = FALSE, !.popup = "none"] EXCEPT !.refused = FALSE]
  BY DEF PopupEnds, Step
<1> DEFINE b == [coll EXCEPT !.lost = FALSE, !.refused = r]
           d == IF b.temp THEN ClearExcept(b, 0) ELSE b
           e == [d EXCEPT !.temp = FALSE, !.popup = "none"]
<1>2. coll' = [e EXCEPT !.refused = FALSE]
  BY <1>1
<1>3. StaysGood(b, e)
  <2>1. Begun(coll, b)
    BY Begins
  <2> HIDE DEF b
  <2>2. CollGood(b) /\ b.lost = FALSE /\ 0 \in Range(b.order) \cup {0}
    BY <2>1 DEF Begun
  <2>3. StaysGood(b, d)
    BY <2>2, ClearExceptStays DEF StaysGood
  <2> HIDE DEF d
  <2>4. CollGood(d) /\ d.order = b.order /\ d \in CollRecord
    BY <2>3 DEF StaysGood, CollGood
  <2>5. ModeTo(d, e)
    <3>1. FALSE \in BOOLEAN /\ "none" \in {"none", "menu", "drag"}
      OBVIOUS
    <3> QED BY <2>4, <3>1, ModePut
  <2> HIDE DEF e
  <2> QED BY <2>4, <2>5, ModeGood, StaysThen
<1> HIDE DEF e
<1> QED BY <1>2, <1>3, StepStays

LEMMA TargetKeeps ==
    ASSUME CollGood(coll), NEW x, TargetChosen(x)
    PROVE  CollStep
<1>1. PICK r \in BOOLEAN :
        LET b == [coll EXCEPT !.lost = FALSE, !.refused = r]
            d == ClearExcept(Wink([b EXCEPT !.temp = TRUE], PositionOf(b, x)), x)
        IN coll' = [[ClearExcept(d, 0) EXCEPT !.temp = FALSE] EXCEPT !.refused = FALSE]
  BY DEF TargetChosen, Step
<1> DEFINE b == [coll EXCEPT !.lost = FALSE, !.refused = r]
           i == PositionOf(b, x)
           t == [b EXCEPT !.temp = TRUE]
           w == Wink(t, i)
           d == ClearExcept(w, x)
           e == ClearExcept(d, 0)
           f == [e EXCEPT !.temp = FALSE]
<1>2. coll' = [f EXCEPT !.refused = FALSE]
  BY <1>1
<1>3. StaysGood(b, f)
  <2>1. Begun(coll, b) /\ x \in Range(coll.order)
    BY Begins, ShownIs DEF TargetChosen
  <2> HIDE DEF b
  <2>2. CollGood(b) /\ b.lost = FALSE /\ x \in Range(b.order) /\ b \in CollRecord /\ EachOnce(b)
    BY <2>1 DEF Begun
  <2>3. InRange(b, i) /\ i \in Int
    <3>1. PICK n \in Nat : n = Len1(b) /\ (\A j, k \in 1..n : b.order[j] = b.order[k] => j = k)
                           /\ Range(b.order) = {b.order[j] : j \in 1..n}
      BY <2>2, OrderIs
    <3>2. PICK k \in 1..n : b.order[k] = x
      BY <2>2, <3>1
    <3>3. i = k - 1 /\ InRange(b, k - 1)
      BY <3>1, <3>2, PositionIs
    <3> QED BY <3>3
  <2> HIDE DEF i
  <2>4. x # 0
    <3>1. Range(b.order) \subseteq Item
      BY <2>2, OrderIs
    <3> QED BY <2>2, <3>1, CollectionAssumption DEF Item
  <2>5. StaysGood(b, t) /\ t.lost = FALSE
    <3>1. TRUE \in BOOLEAN /\ "none" \in {"none", "menu", "drag"}
      OBVIOUS
    <3> QED BY <2>2, <3>1, ModeOnly
  <2> HIDE DEF t
  <2>6. CollGood(t) /\ t.order = b.order /\ InRange(t, i)
    BY <2>3, <2>5 DEF StaysGood, InRange, Len1
  <2>7. StaysGood(t, w) /\ w.lost = FALSE
    BY <2>3, <2>5, <2>6, WinkStays
  <2> HIDE DEF w
  <2>8. CollGood(w) /\ w.order = b.order
    BY <2>6, <2>7 DEF StaysGood
  <2>9. StaysGood(w, d) /\ d.lost = FALSE
    BY <2>2, <2>4, <2>7, <2>8, ClearExceptStays
  <2> HIDE DEF d
  <2>10. CollGood(d) /\ d.order = b.order
    BY <2>8, <2>9 DEF StaysGood
  <2>11. StaysGood(d, e)
    BY <2>9, <2>10, ClearExceptStays
  <2> HIDE DEF e
  <2>12. CollGood(e) /\ e.order = b.order /\ e \in CollRecord
    BY <2>10, <2>11 DEF StaysGood, CollGood
  <2>13. ModeTo(e, f)
    <3>1. FALSE \in BOOLEAN /\ "none" \in {"none", "menu", "drag"}
      OBVIOUS
    <3> QED BY <2>12, <3>1, ModePut
  <2> HIDE DEF f
  <2> QED BY <2>12, <2>13, ModeGood, StaysThen
<1> HIDE DEF f
<1> QED BY <1>2, <1>3, StepStays

LEMMA SelectionStepsKeep ==
    ASSUME CollGood(coll), SelectionSteps
    PROVE  CollStep
<1>1. CASE \E x \in Item : Toggle(x) \/ SelectOnly(x) \/ TargetChosen(x)
  BY <1>1, ToggleKeeps, ClearsKeep, TargetKeeps
<1>2. CASE ClearSelection
  BY <1>2, ClearsKeep
<1>3. CASE SelectEvery
  BY <1>3, SelectEveryKeeps
<1>4. CASE \E S \in SUBSET Item : SelectWhere(S) \/ \E toggle \in BOOLEAN : EndLasso(S, toggle)
  BY <1>4, SelectWhereKeeps, LassoKeeps
<1>5. CASE \E mark \in {"select", "unselect"} : ShiftArrow(mark)
  <2>1. PICK mark \in {"select", "unselect"} : CursorKey(1, 0, 0, MaxRows, mark)
    BY <1>5 DEF ShiftArrow
  <2>2. 1 \in Int /\ 0 \in Int /\ MaxRows \in Int /\ mark \in {"none", "select", "unselect"}
    BY CollectionAssumption
  <2> QED BY <2>1, <2>2, CursorKeyKeeps
<1>6. CASE Reclaim
  BY <1>6, ReclaimKeeps
<1>7. CASE OtherClaims
  BY <1>7, OtherClaimsKeeps
<1>8. CASE \E x \in Item \cup {0} : MenuOpens(x)
  BY <1>8, MenuKeeps
<1>9. CASE \E x \in Item, ctrl \in BOOLEAN : DragStarts(x, ctrl)
  BY <1>9, DragKeeps
<1>10. CASE PopupEnds
  BY <1>10, PopupEndsKeeps
<1> QED BY <1>1, <1>2, <1>3, <1>4, <1>5, <1>6, <1>7, <1>8, <1>9, <1>10 DEF SelectionSteps

LEMMA ItemStepsKeep ==
    ASSUME CollGood(coll), ItemSteps
    PROVE  CollStep
<1>1. CASE \E S \in SUBSET Item : ItemsAdded(S) \/ ItemsDeleted(S)
  <2>1. PICK S \in SUBSET Item : ItemsAdded(S) \/ ItemsDeleted(S)
    BY <1>1
  <2>2. CASE ItemsAdded(S)
    <3>1. S \cap Shown = {}
      BY <2>2 DEF ItemsAdded
    <3> QED BY <2>2, <3>1, AddedKeeps
  <2> QED BY <2>1, <2>2, DeletedKeeps
<1>2. CASE \E x \in Item, k \in 1..MaxKey : ItemChanges(x, k)
  BY <1>2, ChangesKeeps
<1>3. CASE ItemsUpdated
  BY <1>3, UpdatedKeeps
<1> QED BY <1>1, <1>2, <1>3 DEF ItemSteps

(* A window starts with no items. *)
LEMMA CollStarts ==
    ASSUME CollInit
    PROVE  CollGood(coll)
<1>1. PICK n \in {1, 2}, v \in BOOLEAN : coll = [NewCollection EXCEPT !.columns = n, !.vertical = v]
  BY DEF CollInit
<1> DEFINE no == FALSE
           none == -1
           start == [order |-> <<>>, key |-> [x \in Item |-> 1], sel |-> {}, count |-> 0,
                     cursor |-> none, old |-> none, wink |-> none, winks |-> 0, timer |-> no,
                     pending |-> none, mapped |-> no, columns |-> 1, vertical |-> no,
                     primary |-> "none", normal |-> no, temp |-> no, popup |-> "none",
                     lost |-> no, refused |-> no]
<1>2. none \in Int /\ no \in BOOLEAN /\ none = -1 /\ no = FALSE
  OBVIOUS
<1>3. coll = [start EXCEPT !.columns = n, !.vertical = v]
  BY <1>1 DEF NewCollection
<1> HIDE DEF none, no
<1> DEFINE keys == [x \in Item |-> 1]
<1>4. <<>> \in Seq(Item) /\ keys \in [Item -> Int] /\ {} \in SUBSET Item /\ Len(<<>>) = 0
  OBVIOUS
<1> HIDE DEF keys
<1>5. start \in CollRecord
  BY <1>2, <1>4 DEF CollRecord, keys
<1>6. coll \in CollRecord /\ coll.order = <<>> /\ coll.sel = {} /\ coll.count = 0 /\ coll.cursor = none
      /\ coll.wink = none /\ coll.timer = no /\ coll.lost = no /\ coll.primary = "none"
  <2>1. start.order = <<>> /\ start.sel = {} /\ start.count = 0 /\ start.cursor = none
        /\ start.wink = none /\ start.timer = no /\ start.lost = no /\ start.primary = "none"
    OBVIOUS
  <2> HIDE DEF start
  <2> QED BY <1>3, <1>5, <2>1 DEF CollRecord
<1>7. Len1(coll) = 0
  BY <1>4, <1>6 DEF Len1
<1>8. MarksGood(coll)
  BY <1>2, <1>6, <1>7 DEF MarksGood, EachOnce
<1>9. SelGood(coll)
  <2>1. Cardinality({}) = 0
    BY FS_EmptySet
  <2> QED BY <1>2, <1>6, <2>1 DEF SelGood, Counted1
<1> QED BY <1>6, <1>8, <1>9 DEF CollGood

(* What is good is right. *)
LEMMA GoodIsRight ==
    ASSUME CollGood(coll)
    PROVE  CollectionRight
<1>1. coll \in CollRecord /\ EachOnce(coll) /\ MarksGood(coll) /\ SelGood(coll) /\ Shown = Range(coll.order)
  BY ShownIs DEF CollGood, MarksGood
<1>2. PrimaryMeansSelection /\ DrawnAsOwned
  BY <1>1, Zenon DEF SelGood, Counted1, PrimaryMeansSelection, DrawnAsOwned
<1> DEFINE q == Qsort(coll)
<1>3. SortedFrom(coll, q)
  BY <1>1, QsortIs
<1> HIDE DEF q
<1>4. q \in CollRecord /\ EachOnce(q) /\ InOrder1(q) /\ Range(q.order) = Range(coll.order)
  BY <1>3 DEF SortedFrom
<1>5. Sorted(q)
  <2>1. Len1(q) \in Nat
    BY <1>4, OrderIs
  <2>2. \A i \in 1..(Len1(q) - 1) : i \in 1..Len1(q) /\ i + 1 \in 1..Len1(q) /\ i < i + 1
    BY <2>1
  <2> QED BY <1>4, <2>2 DEF Sorted, InOrder1
<1>6. ASSUME NEW x \in Item PROVE Find(q, x) = IF x \in Shown THEN PositionOf(q, x) ELSE -1
  BY <1>1, <1>4, FindsAll
<1>7. InRange(coll, coll.cursor) \/ coll.cursor = -1 \/ (coll.cursor = 0 /\ Shown = {})
  <2>1. Len1(coll) = 0 => Shown = {}
    BY <1>1 DEF Shown
  <2> QED BY <1>1, <2>1 DEF MarksGood
<1>8. MarksInRange
  BY <1>1, <1>5, <1>6, <1>7 DEF MarksInRange, MarksGood, q
<1> QED BY <1>2, <1>8 DEF CollectionRight

(* THEOREM: whatever the order of items, keys, menus, drags and the *)
(* programs that claim PRIMARY, the counter and the owner of PRIMARY agree *)
(* with the selected flags, the marks are on items, the search of the *)
(* sorted array finds each, and every change of the order takes the marks *)
(* with it: in a window of any number of items. *)
THEOREM CollectionAlwaysKept == CollectionSpec => CollectionKept
<1> DEFINE Inv == CollGood(coll)
<1>1. CollInit => Inv
  BY CollStarts
<1>2. Inv /\ [ItemSteps \/ MarkSteps \/ SelectionSteps]_coll => Inv' /\ [MarksMove]_coll
  <2>1. CASE ItemSteps \/ MarkSteps \/ SelectionSteps
    BY <2>1, ItemStepsKeep, MarkStepsKeep, SelectionStepsKeep DEF CollStep
  <2>2. CASE UNCHANGED coll
    BY <2>2
  <2> QED BY <2>1, <2>2
<1>3. Inv => CollectionRight
  BY GoodIsRight
<1> HIDE DEF Inv
<1> QED BY <1>1, <1>2, <1>3, PTL DEF CollectionSpec, CollectionKept, MarksFollow
=============================================================================

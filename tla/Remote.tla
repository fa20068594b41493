------------------------------- MODULE Remote -------------------------------
(***************************************************************************)
(* Starting the filer (main.c, remote.c).  A process that finds a running  *)
(* filer through a property of the root window leaves its request in a     *)
(* property of its own and waits for it to change; one that finds none     *)
(* becomes the filer.  The filer ends when its last window is closed.      *)
(***************************************************************************)
EXTENDS Naturals, Sequences

CONSTANTS
    NProcess,  \* bound: the processes that are started
    Request,   \* the requests: sequences of calls
    MaxOpen    \* bound: windows the filer may have open

ASSUME RemoteAssumption ==
    /\ NProcess \in Nat /\ MaxOpen \in Nat
    /\ Request \subseteq Seq({"open", "close", "error"})

(* Processes are numbered in the order in which they reach remote_init. *)
Process == 1..NProcess
NoProcess == 0

VARIABLES
    grab,     \* the process that has grabbed the X server
    root,     \* the process whose window the root property names
    ipc,      \* the processes whose window names itself
    client,   \* each process as a client
    filer,    \* each process as a filer
    executed  \* how often the request of each process has been run

remoteVars == <<grab, root, ipc, client, filer, executed>>

NoClient == [state |-> "new", request |-> <<>>, times |-> 0, changes |-> 0]
NoFiler == [state |-> "none", windows |-> 0, inbox |-> <<>>, frames |-> <<>>]

RemoteInit ==
    /\ grab = NoProcess /\ root = NoProcess /\ ipc = {}
    /\ client = [p \in Process |-> NoClient]
    /\ filer = [p \in Process |-> NoFiler]
    /\ executed = [p \in Process |-> 0]

Live(p) == filer[p].state \in {"running", "quitting"}

Frame(p) == [from |-> p, calls |-> client[p].request, dialog |-> FALSE]

(* run_soap begins: it counts as a window itself, and the calls are to be  *)
(* run one after the other.                                                *)
RunSoap(f, p) == [f EXCEPT !.windows = @ + 1, !.frames = <<Frame(p)>> \o @]

--------------------
(* remote_init *)
Start(p, request) ==
    /\ client[p].state = "new" /\ grab = NoProcess
    /\ \A q \in Process : q < p => client[q].state # "new"
    /\ grab' = p
    /\ client' = [client EXCEPT ![p].state = "grabbed", ![p].request = request]
    /\ UNCHANGED <<root, ipc, filer, executed>>

(* get_existing_ipc_window: a property that is out of date names a window  *)
(* that is gone, or that does not name itself.                             *)
Existing == IF root # NoProcess /\ root \in ipc /\ Live(root) THEN {root} ELSE {}

(* The request goes into a property, and a message to the running filer. *)
SoapSend(p) ==
    /\ grab = p /\ client[p].state = "grabbed"
    /\ \E q \in Existing :
         /\ filer' = [filer EXCEPT ![q].inbox = Append(@, p)]
         /\ client' = [client EXCEPT ![p].state = "waiting", ![p].changes = 1]
    /\ grab' = NoProcess
    /\ UNCHANGED <<root, ipc, executed>>

(* Mutant: the server is released before the properties are set. *)
NoneFoundUngrabs(p) ==
    /\ grab = p /\ client[p].state = "grabbed" /\ Existing = {}
    /\ grab' = NoProcess
    /\ client' = [client EXCEPT ![p].state = "is filer"]
    /\ UNCHANGED <<root, ipc, filer, executed>>

NoneFound(p) ==
    /\ grab = p /\ client[p].state = "grabbed" /\ Existing = {}
    /\ client' = [client EXCEPT ![p].state = "is filer"]
    /\ UNCHANGED <<grab, root, ipc, filer, executed>>

(* The IPC window is announced; main then runs the request of its own. *)
BecomeFiler(p) ==
    /\ client[p].state = "is filer" /\ filer[p].state = "none"
    /\ root' = p /\ ipc' = ipc \cup {p}
    /\ grab' = IF grab = p THEN NoProcess ELSE grab
    /\ filer' = [filer EXCEPT ![p] = RunSoap([@ EXCEPT !.state = "running"], p)]
    /\ UNCHANGED <<client, executed>>

--------------------
(* The client waits. *)

(* Mutant: the first change is taken for the reply. *)
SoapDoneAtOnce(p) ==
    /\ client[p].state = "waiting" /\ client[p].changes > 0
    /\ client' = [client EXCEPT ![p].state = "answered"]
    /\ UNCHANGED <<grab, root, ipc, filer, executed>>

(* soap_done: the first change of the property is the client's own. *)
SoapDone(p) ==
    /\ client[p].state = "waiting" /\ client[p].changes > 0
    /\ client' = [client EXCEPT ![p].changes = @ - 1, ![p].times = @ + 1,
                                ![p].state = IF client[p].times = 1 THEN "answered" ELSE @]
    /\ UNCHANGED <<grab, root, ipc, filer, executed>>

(* too_slow, ten seconds later. *)
TooSlow(p) ==
    /\ client[p].state = "waiting"
    /\ client' = [client EXCEPT ![p].state = "gave up"]
    /\ UNCHANGED <<grab, root, ipc, filer, executed>>

--------------------
(* The filer. *)

(* The main loop runs, the outer one or that of a dialog. *)
InLoop(p) == filer[p].state = "running" /\ (filer[p].frames # <<>> => Head(filer[p].frames).dialog)

(* client_event: a sender that is gone, or its property, cannot be read. *)
ClientEvent(p) ==
    /\ InLoop(p) /\ filer[p].inbox # <<>>
    /\ LET q == Head(filer[p].inbox)
           f == [filer[p] EXCEPT !.inbox = Tail(@)]
       IN filer' = [filer EXCEPT ![p] = IF client[q].state = "waiting" THEN RunSoap(f, q) ELSE f]
    /\ UNCHANGED <<grab, root, ipc, client, executed>>

(* one_less_window, n times *)
OneLess(f, n) ==
    [f EXCEPT !.windows = @ - n,
              !.state = IF n > 0 /\ f.windows - n < 1 THEN "quitting" ELSE @]

(* The windows that are windows. *)
OpenWindows(f) == f.windows - Len(f.frames)

(* One call: a window is opened, all windows are closed, or an error is    *)
(* reported in a dialog that runs a main loop of its own.                  *)
Invoke(p) ==
    /\ Live(p) /\ filer[p].frames # <<>>
    /\ LET f     == filer[p]
           frame == Head(f.frames)
           rest  == [f EXCEPT !.frames[1].calls = Tail(@)]
       IN /\ ~frame.dialog /\ frame.calls # <<>>
          /\ filer' = [filer EXCEPT ![p] =
               CASE Head(frame.calls) = "open" /\ OpenWindows(f) < MaxOpen ->
                      [rest EXCEPT !.windows = @ + 1]
                 [] Head(frame.calls) = "close" /\ OpenWindows(f) > 0 ->
                      OneLess(rest, OpenWindows(f))
                 [] Head(frame.calls) = "error" -> [rest EXCEPT !.frames[1].dialog = TRUE]
                 [] OTHER -> rest]
    /\ UNCHANGED <<grab, root, ipc, client, executed>>

DialogClosed(p) ==
    /\ Live(p) /\ filer[p].frames # <<>>
    /\ Head(filer[p].frames).dialog
    /\ filer' = [filer EXCEPT ![p].frames[1].dialog = FALSE]
    /\ UNCHANGED <<grab, root, ipc, client, executed>>

(* run_soap ends; main enters the main loop if there is a window, and      *)
(* client_event leaves it if there is none and then changes the property.  *)
EndSoap(p) ==
    /\ Live(p) /\ filer[p].frames # <<>>
    /\ ~Head(filer[p].frames).dialog /\ Head(filer[p].frames).calls = <<>>
    /\ LET q == Head(filer[p].frames).from
           n == filer[p].windows - 1
       IN /\ filer' = [filer EXCEPT ![p].frames = Tail(@), ![p].windows = n,
                                    ![p].state = IF n = 0 THEN "quitting" ELSE @]
          /\ client' = [client EXCEPT ![q].changes = IF client[q].state = "waiting" THEN @ + 1 ELSE @]
          /\ executed' = [executed EXCEPT ![q] = @ + 1]
    /\ UNCHANGED <<grab, root, ipc>>

(* The user closes a window. *)
UserCloses(p) ==
    /\ InLoop(p) /\ OpenWindows(filer[p]) > 0
    /\ filer' = [filer EXCEPT ![p] = OneLess(@, 1)]
    /\ UNCHANGED <<grab, root, ipc, client, executed>>

(* The process ends, and with it its window; or it is killed. *)
FilerEnds(p) ==
    /\ filer[p].state = "running" \/ (filer[p].state = "quitting" /\ filer[p].frames = <<>>)
    /\ filer' = [filer EXCEPT ![p] = [NoFiler EXCEPT !.state = "dead"]]
    /\ UNCHANGED <<grab, root, ipc, client, executed>>

RemoteNext ==
    \/ \E p \in Process, r \in Request : Start(p, r)
    \/ \E p \in Process : SoapSend(p) \/ NoneFound(p) \/ BecomeFiler(p)
    \/ \E p \in Process : SoapDone(p) \/ TooSlow(p)
    \/ \E p \in Process : ClientEvent(p) \/ Invoke(p) \/ DialogClosed(p) \/ EndSoap(p)
    \/ \E p \in Process : UserCloses(p) \/ FilerEnds(p)

RemoteSpec == RemoteInit /\ [][RemoteNext]_remoteVars

--------------------
(* However many are started at once, one of them becomes the filer, and    *)
(* another only when that one has ended.                                   *)
OneFiler == \A p, q \in Process : Live(p) /\ Live(q) => p = q

(* A client that was answered had its request run, once; a request is run  *)
(* at most once, also when the client gave up.  And the filer does not     *)
(* leave its main loop with a window open, although a request may close the*)
(* last window and then open another ("make sure we don't quit before doing*)
(* the whole list").                                                       *)
AnswerMeansDone == \A p \in Process :
    /\ executed[p] <= 1
    /\ client[p].state = "answered" => executed[p] = 1
    /\ filer[p].state = "quitting" => OpenWindows(filer[p]) = 0 /\ filer[p].frames = <<>>
=============================================================================

-------------------------- MODULE ChildDeathProofs --------------------------
(***************************************************************************)
(* No death of a child is missed, for any number of children, any size of  *)
(* the reads from the pipe and any moment a signal arrives at.             *)
(*                                                                         *)
(* NoLostWakeUp is not inductive alone: between the test of the flag and   *)
(* the end of waitpid the flag says nothing, and a flag that is up must    *)
(* have its byte.  FlagHasByte adds that.                                  *)
(***************************************************************************)
EXTENDS ChildDeath, Infobox, Icons, Integers, FiniteSetTheorems, WellFoundedInduction, TLAPS

(* A flag that is up is about to be seen: its byte is in the pipe or the *)
(* main loop has just taken it. *)
FlagHasByte == flag => pipe > 0 \/ pc \in {"woken", "died"}

DeathInv == DeathTypeOK /\ FlagHasByte /\ NoLostWakeUp

(* Every step of the table, the handler and the children keeps the types. *)
LEMMA TypeStep == DeathTypeOK /\ [DeathNext]_deathVars => DeathTypeOK'
<1> SUFFICES ASSUME DeathTypeOK, [DeathNext]_deathVars PROVE DeathTypeOK'
    OBVIOUS
<1> USE ChildDeathAssumption DEF DeathTypeOK
<1>1. CASE Register BY <1>1 DEF Register
<1>2. CASE WakeUp BY <1>2 DEF WakeUp
<1>3. CASE TestFlag BY <1>3 DEF TestFlag
<1>4. CASE ClearFlag BY <1>4 DEF ClearFlag
<1>5. CASE ReapNone BY <1>5 DEF ReapNone
<1>6. ASSUME NEW c \in Child, Reap(c) PROVE DeathTypeOK'
      BY <1>6 DEF Reap
<1>7. CASE ChildDied
      <2>1. pipe' \in Nat BY <1>7 DEF ChildDied
      <2>2. signal' \in BOOLEAN /\ flag' \in BOOLEAN BY <1>7, Zenon DEF ChildDied
      <2> QED BY <1>7, <2>1, <2>2 DEF ChildDied
<1>8. ASSUME NEW c \in Child, Fork(c) PROVE DeathTypeOK'
      BY <1>8 DEF Fork
<1>9. ASSUME NEW c \in Child, ChildExits(c) PROVE DeathTypeOK'
      BY <1>9 DEF ChildExits
<1>10. CASE UNCHANGED deathVars BY <1>10 DEF deathVars
<1> QED BY <1>1, <1>2, <1>3, <1>4, <1>5, <1>6, <1>7, <1>8, <1>9, <1>10
        DEF DeathNext, MainStep

(* A step that leaves the zombies, or takes some away, and disturbs neither*)
(* the signal, the flag, the pipe nor the place of the main loop. *)
LEMMA InvStep == DeathInv /\ [DeathNext]_deathVars => DeathInv'
<1> SUFFICES ASSUME DeathInv, [DeathNext]_deathVars PROVE DeathInv'
    OBVIOUS
<1>0. DeathTypeOK' BY TypeStep DEF DeathInv
<1> SUFFICES (FlagHasByte /\ NoLostWakeUp)' BY <1>0 DEF DeathInv
<1> USE DEF DeathInv, DeathTypeOK, FlagHasByte, NoLostWakeUp, Zombies
<1>1. CASE Register BY <1>1 DEF Register
<1>2. CASE WakeUp BY <1>2 DEF WakeUp
<1>3. CASE TestFlag BY <1>3 DEF TestFlag
<1>4. CASE ClearFlag BY <1>4 DEF ClearFlag
<1>5. CASE ReapNone BY <1>5 DEF ReapNone
<1>6. ASSUME NEW c \in Child, Reap(c) PROVE (FlagHasByte /\ NoLostWakeUp)'
      BY <1>6 DEF Reap
<1>7. CASE ChildDied BY <1>7 DEF ChildDied
<1>8. ASSUME NEW c \in Child, Fork(c) PROVE (FlagHasByte /\ NoLostWakeUp)'
      BY <1>8 DEF Fork
<1>9. ASSUME NEW c \in Child, ChildExits(c) PROVE (FlagHasByte /\ NoLostWakeUp)'
      BY <1>9 DEF ChildExits
<1>10. CASE UNCHANGED deathVars BY <1>10 DEF deathVars
<1> QED BY <1>1, <1>2, <1>3, <1>4, <1>5, <1>6, <1>7, <1>8, <1>9, <1>10
        DEF DeathNext, MainStep

LEMMA InitInv == DeathInit => DeathInv
<1> SUFFICES ASSUME DeathInit PROVE DeathInv
    OBVIOUS
<1>1. FlagHasByte BY DEF DeathInit, FlagHasByte
<1>2. NoLostWakeUp BY DEF DeathInit, NoLostWakeUp, Zombies
<1>3. signal \in BOOLEAN /\ flag \in BOOLEAN BY Zenon DEF DeathInit
<1>4. DeathTypeOK BY <1>3 DEF DeathInit, DeathTypeOK
<1> QED BY <1>1, <1>2, <1>4 DEF DeathInv

(* The main loop is never left asleep with a dead child to be told of. *)
THEOREM DeathNoLostWakeUp == DeathSpec => [](DeathTypeOK /\ NoLostWakeUp)
<1>1. DeathInv => DeathTypeOK /\ NoLostWakeUp BY DEF DeathInv
<1> QED BY InitInv, InvStep, <1>1, PTL DEF DeathSpec

--------------------
(* Every step of the table is a step of the promise or leaves it alone. *)
LEMMA NoticeStep == DeathTypeOK /\ [DeathNext]_deathVars => [Notice!Next]_(Notice!nvars)
<1> SUFFICES ASSUME DeathTypeOK, [DeathNext]_deathVars
             PROVE [Notice!Next]_(Notice!nvars)
    OBVIOUS
<1> USE DEF DeathTypeOK, Notice!nvars
<1>1. CASE Register
      <2>1. CASE UNCHANGED table BY <1>1, <2>1 DEF Register
      <2>2. ASSUME NEW c \in fresh, table' = table \cup {c}, c \notin table
            PROVE [Notice!Next]_(Notice!nvars)
            <3>1. proc' = proc BY <1>1 DEF Register
            <3>2. CASE proc[c] = "zombie"
                  <4>1. {x \in table' : proc'[x] = "zombie"}
                          = {x \in table : proc[x] = "zombie"} \cup {c}
                        BY <2>2, <3>1, <3>2
                  <4> QED BY <2>2, <4>1 DEF Notice!Next, Notice!Watch
            <3>3. CASE proc[c] # "zombie"
                  <4>1. {x \in table' : proc'[x] = "zombie"}
                          = {x \in table : proc[x] = "zombie"}
                        BY <2>2, <3>1, <3>3
                  <4> QED BY <2>2, <4>1 DEF Notice!Next, Notice!Watch
            <3> QED BY <3>2, <3>3
      <2>3. ASSUME NEW c \in fresh, table' = table \cup {c}, c \in table
            PROVE [Notice!Next]_(Notice!nvars)
            BY <1>1, <2>3 DEF Register
      <2> QED BY <1>1, <2>1, <2>2, <2>3 DEF Register
<1>2. CASE WakeUp BY <1>2 DEF WakeUp
<1>3. CASE TestFlag BY <1>3 DEF TestFlag
<1>4. CASE ClearFlag BY <1>4 DEF ClearFlag
<1>5. CASE ReapNone BY <1>5 DEF ReapNone
<1>6. ASSUME NEW c \in Child, Reap(c) PROVE [Notice!Next]_(Notice!nvars)
      <2>1. CASE c \in table
            <3>1. Notice!Tell(c) BY <1>6, <2>1 DEF Reap, Notice!Tell
            <3> QED BY <3>1 DEF Notice!Next
      <2>2. CASE c \notin table BY <1>6, <2>2 DEF Reap
      <2> QED BY <2>1, <2>2
<1>7. CASE ChildDied BY <1>7 DEF ChildDied
<1>8. ASSUME NEW c \in Child, Fork(c) PROVE [Notice!Next]_(Notice!nvars)
      BY <1>8 DEF Fork
<1>9. ASSUME NEW c \in Child, ChildExits(c) PROVE [Notice!Next]_(Notice!nvars)
      <2>1. CASE c \in table
            <3>1. Notice!Die(c) BY <1>9, <2>1 DEF ChildExits, Notice!Die
            <3> QED BY <3>1 DEF Notice!Next
      <2>2. CASE c \notin table BY <1>9, <2>2 DEF ChildExits
      <2> QED BY <2>1, <2>2
<1>10. CASE UNCHANGED deathVars BY <1>10 DEF deathVars
<1> QED BY <1>1, <1>2, <1>3, <1>4, <1>5, <1>6, <1>7, <1>8, <1>9, <1>10
        DEF DeathNext, MainStep

(* on_child_death keeps the safety part of its promise: a function that is *)
(* registered is called once, and not before the child has died. *)
THEOREM DeathIsNoticed == DeathSpec => Notice!Init /\ [][Notice!Next]_(Notice!nvars)
<1>1. DeathInit => Notice!Init BY DEF DeathInit, Notice!Init
<1>2. DeathInv => DeathTypeOK BY DEF DeathInv
<1> QED BY InitInv, InvStep, NoticeStep, <1>1, <1>2, PTL DEF DeathSpec

(***************************************************************************)
(* The Info boxes, whose children are du and file(1): what is held is held *)
(* for something on the screen, for any number of boxes, edits and changes *)
(* of the file.  InfoRight counts what the boxes show; it is kept only     *)
(* with BoxSound, which relates what each shows to its watch and its       *)
(* reader, and with Counts, over watches and readers.                      *)
(***************************************************************************)

(* The types of the parts of a state. *)
FileRecord == [kind : {"file", "dir", "mounted", "gone"}, mode : SUBSET PermBit, link : LinkTo \cup {NoLink}, steps : Nat]
BoxRecord == [open : BOOLEAN, cell : {"none", "known", "scanning", "failed"}, label : {"none", "reading", "whole", "failed"},
              read : Nat, ticks : SUBSET PermBit, link : LinkTo \cup {NoLink}, pending : Nat]
DuRecord == [watched : BOOLEAN, chan : BOOLEAN, child : {"none", "running", "said", "silent"}]
SaysRecord == [fd : BOOLEAN, child : {"none", "running", "ended"}, sent : Nat, output : Nat]
HeldRecord == [sources : Int, fds : Int, windows : Int]
InfoState == [file : FileRecord, box : BoxRecord, du : DuRecord, says : SaysRecord, held : HeldRecord]

(* What a box shows of its children. *)
BoxSound(x, d, y) ==
    /\ (x.cell = "scanning" => d.watched) /\ (d.watched => x.cell = "scanning" /\ d.chan)
    /\ (x.label = "reading" => y.fd) /\ (y.fd => x.label = "reading")
    /\ x.read <= y.sent /\ y.sent <= y.output /\ (y.child = "ended" => y.sent = y.output)
    /\ (x.label = "whole" => x.read = y.output)
    /\ (~x.open => ~d.chan /\ ~d.watched /\ ~y.fd)

(* What is held for the other boxes. *)
Bit(p) == IF p THEN 1 ELSE 0
OtherSources(s) == s.held.sources - Bit(s.du.watched) - Bit(s.says.fd)
OtherFds(s) == s.held.fds - Bit(s.du.chan) - Bit(s.says.fd)
OtherWindows(s) == s.held.windows - Bit(s.box.open)
Same(s, t) ==
    OtherSources(t) = OtherSources(s) /\ OtherFds(t) = OtherFds(s) /\ OtherWindows(t) = OtherWindows(s)

(* The boxes that hold something of each kind, and how much that is together. *)
Watched == {b \in Box : du[b].watched}
Read == {b \in Box : says[b].fd}
Channels == {b \in Box : du[b].chan}
Open == {b \in Box : ibox[b].open}
Counts ==
    /\ held.sources = Cardinality(Watched) + Cardinality(Read)
    /\ held.fds = Cardinality(Channels) + Cardinality(Read)
    /\ held.windows = Cardinality(Open)
InfoTypes ==
    /\ subject \in FileRecord /\ ibox \in [Box -> BoxRecord] /\ du \in [Box -> DuRecord]
    /\ says \in [Box -> SaysRecord] /\ held \in HeldRecord
InfoInv == InfoTypes /\ Counts /\ \A b \in Box : BoxSound(ibox[b], du[b], says[b])

(* How many boxes there are of a kind, after one box changed. *)
LEMMA CountChange ==
    ASSUME NEW b \in Box, NEW A \in SUBSET Box, NEW B \in SUBSET Box, B \ {b} = A \ {b}
    PROVE  Cardinality(A) \in Nat /\ Cardinality(B) = Cardinality(A) - Bit(b \in A) + Bit(b \in B)
<1>1. IsFiniteSet(A) /\ IsFiniteSet(B) /\ Cardinality(A) \in Nat /\ Cardinality(B) \in Nat
  BY InfoAssumption, FS_Subset, FS_CardinalityType
<1>2. CASE b \in A /\ b \notin B
  <2>1. B = A \ {b}
    BY <1>2
  <2>2. Cardinality(B) = Cardinality(A) - 1
    BY <1>1, <1>2, <2>1, FS_RemoveElement
  <2> QED BY <1>1, <1>2, <2>2 DEF Bit
<1>3. CASE b \notin A /\ b \in B
  <2>1. A = B \ {b}
    BY <1>3
  <2>2. Cardinality(A) = Cardinality(B) - 1
    BY <1>1, <1>3, <2>1, FS_RemoveElement
  <2> QED BY <1>1, <1>3, <2>2 DEF Bit
<1>4. CASE b \in A /\ b \in B
  <2>1. A = B
    BY <1>4
  <2> QED BY <1>1, <1>4, <2>1 DEF Bit
<1>5. CASE b \notin A /\ b \notin B
  <2>1. A = B
    BY <1>5
  <2> QED BY <1>1, <1>5, <2>1 DEF Bit
<1> QED BY <1>2, <1>3, <1>4, <1>5

(* The state a handler of one box starts from. *)
LEMMA NowIsState ==
    ASSUME InfoInv, NEW b \in Box
    PROVE  /\ InfoNow(b) \in InfoState /\ BoxSound(InfoNow(b).box, InfoNow(b).du, InfoNow(b).says)
           /\ InfoNow(b).box = ibox[b] /\ InfoNow(b).du = du[b] /\ InfoNow(b).says = says[b]
           /\ InfoNow(b).file = subject /\ InfoNow(b).held = held
BY DEF InfoInv, InfoTypes, InfoNow, InfoState

(* A handler of one box that keeps what is held for the others. *)
LEMMA HandlerKeeps ==
    ASSUME InfoInv, NEW b \in Box, NEW s \in InfoState, BoxSound(s.box, s.du, s.says), Same(InfoNow(b), s), InfoBecomes(b, s)
    PROVE  InfoInv'
<1>1. InfoTypes'
  BY DEF InfoInv, InfoTypes, InfoBecomes, InfoState
<1>2. /\ ibox' = [ibox EXCEPT ![b] = s.box] /\ du' = [du EXCEPT ![b] = s.du] /\ says' = [says EXCEPT ![b] = s.says]
      /\ held' = s.held
  BY DEF InfoBecomes
<1>3. /\ ibox'[b] = s.box /\ du'[b] = s.du /\ says'[b] = s.says
      /\ \A c \in Box : c # b => ibox'[c] = ibox[c] /\ du'[c] = du[c] /\ says'[c] = says[c]
  BY <1>2 DEF InfoInv, InfoTypes
<1>4. \A c \in Box : BoxSound(ibox'[c], du'[c], says'[c])
  BY <1>3 DEF InfoInv
<1>5. /\ (b \in Watched <=> du[b].watched) /\ (b \in Watched' <=> s.du.watched) /\ Watched' \ {b} = Watched \ {b}
  BY <1>3 DEF Watched
<1>6. /\ (b \in Read <=> says[b].fd) /\ (b \in Read' <=> s.says.fd) /\ Read' \ {b} = Read \ {b}
  BY <1>3 DEF Read
<1>7. /\ (b \in Channels <=> du[b].chan) /\ (b \in Channels' <=> s.du.chan) /\ Channels' \ {b} = Channels \ {b}
  BY <1>3 DEF Channels
<1>8. /\ (b \in Open <=> ibox[b].open) /\ (b \in Open' <=> s.box.open) /\ Open' \ {b} = Open \ {b}
  BY <1>3 DEF Open
<1>9. /\ Watched \in SUBSET Box /\ Watched' \in SUBSET Box /\ Read \in SUBSET Box /\ Read' \in SUBSET Box
      /\ Channels \in SUBSET Box /\ Channels' \in SUBSET Box /\ Open \in SUBSET Box /\ Open' \in SUBSET Box
  BY DEF Watched, Read, Channels, Open
<1>10. /\ Cardinality(Watched) \in Nat /\ Cardinality(Watched') = Cardinality(Watched) - Bit(du[b].watched) + Bit(s.du.watched)
  BY <1>5, <1>9, CountChange DEF Bit
<1>11. /\ Cardinality(Read) \in Nat /\ Cardinality(Read') = Cardinality(Read) - Bit(says[b].fd) + Bit(s.says.fd)
  BY <1>6, <1>9, CountChange DEF Bit
<1>12. /\ Cardinality(Channels) \in Nat /\ Cardinality(Channels') = Cardinality(Channels) - Bit(du[b].chan) + Bit(s.du.chan)
  BY <1>7, <1>9, CountChange DEF Bit
<1>13. /\ Cardinality(Open) \in Nat /\ Cardinality(Open') = Cardinality(Open) - Bit(ibox[b].open) + Bit(s.box.open)
  BY <1>8, <1>9, CountChange DEF Bit
<1>14. held \in HeldRecord /\ s.held \in HeldRecord /\ \A p : Bit(p) \in {0, 1}
  BY DEF InfoInv, InfoTypes, InfoState, Bit
<1>15. Counts'
  <2>1. /\ s.held.sources - Bit(s.du.watched) - Bit(s.says.fd) = held.sources - Bit(du[b].watched) - Bit(says[b].fd)
        /\ s.held.fds - Bit(s.du.chan) - Bit(s.says.fd) = held.fds - Bit(du[b].chan) - Bit(says[b].fd)
        /\ s.held.windows - Bit(s.box.open) = held.windows - Bit(ibox[b].open)
    BY NowIsState DEF Same, OtherSources, OtherFds, OtherWindows
  <2>2. /\ held.sources = Cardinality(Watched) + Cardinality(Read)
        /\ held.fds = Cardinality(Channels) + Cardinality(Read)
        /\ held.windows = Cardinality(Open)
    BY DEF InfoInv, Counts
  <2>3. /\ s.held.sources \in Int /\ s.held.fds \in Int /\ s.held.windows \in Int
        /\ held.sources \in Int /\ held.fds \in Int /\ held.windows \in Int
    BY <1>14 DEF HeldRecord
  <2>4. held'.sources = Cardinality(Watched') + Cardinality(Read')
    BY <1>2, <1>10, <1>11, <1>14, <2>1, <2>2, <2>3
  <2>5. held'.fds = Cardinality(Channels') + Cardinality(Read')
    BY <1>2, <1>12, <1>11, <1>14, <2>1, <2>2, <2>3
  <2>6. held'.windows = Cardinality(Open')
    BY <1>2, <1>13, <1>14, <2>1, <2>2, <2>3
  <2> QED BY <2>4, <2>5, <2>6 DEF Counts
<1> QED BY <1>1, <1>4, <1>15 DEF InfoInv

(* The fields of a state. *)
LEMMA Parts ==
    ASSUME NEW s \in InfoState
    PROVE  /\ s.file \in FileRecord /\ s.box \in BoxRecord /\ s.du \in DuRecord /\ s.says \in SaysRecord /\ s.held \in HeldRecord
           /\ s = [file |-> s.file, box |-> s.box, du |-> s.du, says |-> s.says, held |-> s.held]
           /\ s.held.sources \in Int /\ s.held.fds \in Int /\ s.held.windows \in Int
BY DEF InfoState, HeldRecord

(* Other numbers of sources and descriptors. *)
Holding(h, m, n) == [h EXCEPT !.sources = m, !.fds = n]

LEMMA HeldChanged ==
    ASSUME NEW h \in HeldRecord, NEW m \in Int, NEW n \in Int
    PROVE  /\ Holding(h, m, n) \in HeldRecord /\ Holding(h, m, n).sources = m /\ Holding(h, m, n).fds = n
           /\ Holding(h, m, n).windows = h.windows
BY DEF HeldRecord, Holding

(* kill_du_output: the view of du is gone with its pipe and watch. *)
LEMMA KillDuIs ==
    ASSUME NEW s \in InfoState, s.du.watched => s.du.chan
    PROVE  /\ KillDu(s) \in InfoState /\ Same(s, KillDu(s)) /\ ~KillDu(s).du.watched /\ ~KillDu(s).du.chan
           /\ KillDu(s).box = s.box /\ KillDu(s).file = s.file /\ KillDu(s).says = s.says
<1>0. /\ s.file \in FileRecord /\ s.box \in BoxRecord /\ s.du \in DuRecord /\ s.says \in SaysRecord /\ s.held \in HeldRecord
      /\ s.held.sources \in Int /\ s.held.fds \in Int /\ s.held.windows \in Int
  BY Parts
<1>1. CASE ~s.du.chan
  BY <1>1 DEF KillDu, Same, InfoState, DuRecord
<1>2. CASE s.du.chan
  <2>1. PICK h : h = [s.held EXCEPT !.sources = IF s.du.watched THEN @ - 1 ELSE @, !.fds = @ - 1]
    OBVIOUS
  <2>2. h \in HeldRecord /\ h.fds = s.held.fds - 1 /\ h.windows = s.held.windows
        /\ h.sources = s.held.sources - Bit(s.du.watched)
    <3>1. PICK m \in Int, n \in Int : m = s.held.sources - Bit(s.du.watched) /\ n = s.held.fds - 1
      BY <1>0 DEF Bit
    <3>2. h = Holding(s.held, m, n)
      <4>1. m = IF s.du.watched THEN s.held.sources - 1 ELSE s.held.sources
        BY <1>0, <3>1 DEF Bit
      <4> QED BY <2>1, <3>1, <4>1 DEF Holding
    <3>3. s.held \in HeldRecord
      BY <1>0
    <3> QED BY <3>1, <3>2, <3>3, HeldChanged
  <2>3. PICK t : t = [file |-> s.file, box |-> s.box, du |-> NoDu, says |-> s.says, held |-> h]
    OBVIOUS
  <2>4. KillDu(s) = t
    <3>1. KillDu(s) = [s EXCEPT !.held = h, !.du = NoDu]
      BY <1>2, <2>1 DEF KillDu
    <3> QED BY <1>0, <2>3, <3>1 DEF InfoState
  <2>5. NoDu \in DuRecord /\ ~NoDu.watched /\ ~NoDu.chan
    BY DEF NoDu, DuRecord
  <2>6. t \in InfoState
    BY <1>0, <2>2, <2>3, <2>5 DEF InfoState
  <2>7. Same(s, t)
    BY <1>0, <1>2, <2>2, <2>3, <2>5 DEF Same, OtherSources, OtherFds, OtherWindows, Bit
  <2> QED BY <2>3, <2>4, <2>5, <2>6, <2>7
<1> QED BY <1>1, <1>2

(* file_info_destroyed: the pipe of file(1) is closed and its source removed. *)
LEMMA FileInfoDestroyedIs ==
    ASSUME NEW s \in InfoState
    PROVE  /\ FileInfoDestroyed(s) \in InfoState /\ Same(s, FileInfoDestroyed(s)) /\ ~FileInfoDestroyed(s).says.fd
           /\ FileInfoDestroyed(s).box = s.box /\ FileInfoDestroyed(s).file = s.file /\ FileInfoDestroyed(s).du = s.du
<1>0. /\ s.file \in FileRecord /\ s.box \in BoxRecord /\ s.du \in DuRecord /\ s.says \in SaysRecord /\ s.held \in HeldRecord
      /\ s.held.sources \in Int /\ s.held.fds \in Int /\ s.held.windows \in Int
  BY Parts
<1>1. PICK h : h = IF s.says.fd THEN [s.held EXCEPT !.sources = @ - 1, !.fds = @ - 1] ELSE s.held
  OBVIOUS
<1>2. h \in HeldRecord /\ h.fds = s.held.fds - Bit(s.says.fd) /\ h.windows = s.held.windows
      /\ h.sources = s.held.sources - Bit(s.says.fd)
  <2>1. CASE s.says.fd
    <3>1. PICK m \in Int, n \in Int : m = s.held.sources - 1 /\ n = s.held.fds - 1
      BY <1>0
    <3>2. h = Holding(s.held, m, n)
      BY <1>1, <2>1, <3>1 DEF Holding
    <3>3. h \in HeldRecord /\ h.sources = m /\ h.fds = n /\ h.windows = s.held.windows
      <4>1. s.held \in HeldRecord
        BY <1>0
      <4> QED BY <3>2, <4>1, HeldChanged
    <3> QED BY <2>1, <3>1, <3>3 DEF Bit
  <2>2. CASE ~s.says.fd
    BY <1>0, <1>1, <2>2 DEF Bit
  <2> QED BY <2>1, <2>2
<1>3. PICK t : t = [file |-> s.file, box |-> s.box, du |-> s.du, says |-> NoSays, held |-> h]
  OBVIOUS
<1>4. FileInfoDestroyed(s) = t
  <2>1. FileInfoDestroyed(s) = [s EXCEPT !.held = h, !.says = NoSays]
    <3>1. CASE s.says.fd
      BY <1>1, <3>1 DEF FileInfoDestroyed
    <3>2. CASE ~s.says.fd
      BY <1>0, <1>1, <3>2 DEF FileInfoDestroyed
    <3> QED BY <3>1, <3>2
  <2> QED BY <1>0, <1>3, <2>1 DEF InfoState
<1>5. NoSays \in SaysRecord /\ ~NoSays.fd
  BY DEF NoSays, SaysRecord
<1>6. t \in InfoState
  BY <1>0, <1>2, <1>3, <1>5 DEF InfoState
<1>7. Same(s, t)
  BY <1>0, <1>2, <1>3, <1>5 DEF Same, OtherSources, OtherFds, OtherWindows, Bit, HeldRecord
<1> QED BY <1>3, <1>4, <1>5, <1>6, <1>7

(* A box that is closed or refreshed gives back what both children held. *)
LEMMA DestroyDetailsIs ==
    ASSUME NEW s \in InfoState, BoxSound(s.box, s.du, s.says)
    PROVE  /\ DestroyDetails(s) \in InfoState /\ Same(s, DestroyDetails(s))
           /\ ~DestroyDetails(s).du.watched /\ ~DestroyDetails(s).du.chan /\ ~DestroyDetails(s).says.fd
           /\ DestroyDetails(s).box = s.box /\ DestroyDetails(s).file = s.file
<1>1. PICK t : t = KillDu(s)
  OBVIOUS
<1>2. t \in InfoState /\ Same(s, t) /\ ~t.du.watched /\ ~t.du.chan /\ t.box = s.box /\ t.file = s.file
  BY <1>1, KillDuIs DEF BoxSound
<1>3. PICK u : u = FileInfoDestroyed(t)
  OBVIOUS
<1>4. u \in InfoState /\ Same(t, u) /\ ~u.says.fd /\ u.box = t.box /\ u.file = t.file /\ u.du = t.du
  BY <1>2, <1>3, FileInfoDestroyedIs
<1>5. Same(s, u)
  BY <1>2, <1>4 DEF Same
<1>6. DestroyDetails(s) = u
  BY <1>1, <1>3 DEF DestroyDetails
<1> QED BY <1>2, <1>4, <1>5, <1>6

(* make_details, where nothing is left of earlier ones. *)
LEMMA MakeDetailsIs ==
    ASSUME NEW s \in InfoState, ~s.du.watched, ~s.du.chan, NEW works \in BOOLEAN
    PROVE  /\ MakeDetails(s, works) \in InfoState /\ Same(s, MakeDetails(s, works))
           /\ LET t == MakeDetails(s, works) IN
              /\ (t.box.cell = "scanning" => t.du.watched) /\ (t.du.watched => t.box.cell = "scanning" /\ t.du.chan)
              /\ t.says = s.says /\ t.file = s.file /\ t.box.open = s.box.open /\ t.box.pending = s.box.pending
<1>0. /\ s.file \in FileRecord /\ s.box \in BoxRecord /\ s.du \in DuRecord /\ s.says \in SaysRecord /\ s.held \in HeldRecord
      /\ s.held.sources \in Int /\ s.held.fds \in Int /\ s.held.windows \in Int
  BY Parts
<1>1. PICK c : c = IF Lost(s.file) THEN "none" ELSE "known"
  OBVIOUS
<1>2. c \in {"none", "known"} /\ s.file.link \in LinkTo \cup {NoLink}
  BY <1>0, <1>1 DEF FileRecord
<1>3. NoDu \in DuRecord /\ ~NoDu.watched /\ ~NoDu.chan
  BY DEF NoDu, DuRecord
<1>4. PICK x : x = [s.box EXCEPT !.link = s.file.link, !.cell = c]
  OBVIOUS
<1>5. x \in BoxRecord /\ x.open = s.box.open /\ x.pending = s.box.pending /\ x.cell = c
  BY <1>0, <1>2, <1>4 DEF BoxRecord
<1>6. PICK t : t = [file |-> s.file, box |-> x, du |-> NoDu, says |-> s.says, held |-> s.held]
  OBVIOUS
<1>7. t = [s EXCEPT !.box.link = s.file.link, !.du = NoDu, !.box.cell = IF Lost(s.file) THEN "none" ELSE "known"]
  <2>1. [s EXCEPT !.box = x, !.du = NoDu]
          = [s EXCEPT !.box.link = s.file.link, !.du = NoDu, !.box.cell = IF Lost(s.file) THEN "none" ELSE "known"]
    BY <1>0, <1>1, <1>4
  <2>2. t = [s EXCEPT !.box = x, !.du = NoDu]
    <3>1. PICK q : q = [file |-> s.file, box |-> x, du |-> s.du, says |-> s.says, held |-> s.held]
      OBVIOUS
    <3>2. q = [s EXCEPT !.box = x]
      BY <3>1 DEF InfoState
    <3>3. t = [q EXCEPT !.du = NoDu]
      BY <1>6, <3>1
    <3>4. [[s EXCEPT !.box = x] EXCEPT !.du = NoDu] = [s EXCEPT !.box = x, !.du = NoDu]
      OBVIOUS
    <3> QED BY <3>2, <3>3, <3>4
  <2> QED BY <2>1, <2>2
<1>8. PICK v : v = MakeDetails(s, works)
  OBVIOUS
<1>9. v = IF s.file.kind # "dir" THEN t
          ELSE IF works
            THEN [t EXCEPT !.box.cell = "scanning", !.du = [watched |-> TRUE, chan |-> TRUE, child |-> "running"],
                           !.held.sources = @ + 1, !.held.fds = @ + 1]
            ELSE [t EXCEPT !.box.cell = "failed"]
  BY <1>7, <1>8 DEF MakeDetails
<1>10. CASE s.file.kind # "dir"
  <2>1. v = t /\ t \in InfoState
    BY <1>0, <1>3, <1>5, <1>6, <1>9, <1>10 DEF InfoState
  <2>2. Same(s, t)
    BY <1>0, <1>3, <1>5, <1>6 DEF Same, OtherSources, OtherFds, OtherWindows, Bit
  <2> QED BY <1>2, <1>3, <1>5, <1>6, <1>8, <2>1, <2>2
<1>11. CASE s.file.kind = "dir" /\ ~works
  <2>1. PICK y : y = [x EXCEPT !.cell = "failed"]
    OBVIOUS
  <2>2. y \in BoxRecord /\ y.open = s.box.open /\ y.pending = s.box.pending /\ y.cell = "failed"
    BY <1>5, <2>1 DEF BoxRecord
  <2>3. v = [file |-> s.file, box |-> y, du |-> NoDu, says |-> s.says, held |-> s.held]
    BY <1>6, <1>9, <1>11, <2>1
  <2>4. v \in InfoState
    BY <1>0, <1>3, <2>2, <2>3 DEF InfoState
  <2>5. Same(s, v)
    BY <1>0, <1>3, <2>2, <2>3 DEF Same, OtherSources, OtherFds, OtherWindows, Bit
  <2> QED BY <1>3, <1>8, <2>2, <2>3, <2>4, <2>5
<1>12. CASE s.file.kind = "dir" /\ works
  <2>1. PICK y : y = [x EXCEPT !.cell = "scanning"]
    OBVIOUS
  <2>2. y \in BoxRecord /\ y.open = s.box.open /\ y.pending = s.box.pending /\ y.cell = "scanning"
    BY <1>5, <2>1 DEF BoxRecord
  <2>3. PICK d : d = [watched |-> TRUE, chan |-> TRUE, child |-> "running"]
    OBVIOUS
  <2>4. d \in DuRecord /\ d.watched /\ d.chan
    BY <2>3 DEF DuRecord
  <2>5. PICK h : h = [s.held EXCEPT !.sources = @ + 1, !.fds = @ + 1]
    OBVIOUS
  <2>6. h \in HeldRecord /\ h.sources = s.held.sources + 1 /\ h.fds = s.held.fds + 1 /\ h.windows = s.held.windows
    <3>1. PICK m \in Int, k \in Int : m = s.held.sources + 1 /\ k = s.held.fds + 1
      BY <1>0
    <3>2. h = Holding(s.held, m, k)
      BY <2>5, <3>1 DEF Holding
    <3>3. s.held \in HeldRecord
      BY <1>0
    <3> QED BY <3>1, <3>2, <3>3, HeldChanged
  <2>7. v = [file |-> s.file, box |-> y, du |-> d, says |-> s.says, held |-> h]
    BY <1>6, <1>9, <1>12, <2>1, <2>3, <2>5
  <2>8. v \in InfoState
    BY <1>0, <2>2, <2>4, <2>6, <2>7 DEF InfoState
  <2>9. Same(s, v)
    BY <1>0, <2>2, <2>4, <2>6, <2>7 DEF Same, OtherSources, OtherFds, OtherWindows, Bit
  <2> QED BY <1>8, <2>2, <2>4, <2>7, <2>8, <2>9
<1> QED BY <1>10, <1>11, <1>12

(* make_file_says: the box reads from file(1), if it could be started. *)
LEMMA MakeFileSaysIs ==
    ASSUME NEW s \in InfoState, ~s.says.fd, NEW works \in BOOLEAN, NEW n \in Nat, NEW v, v = MakeFileSays(s, works, n)
    PROVE  /\ v \in InfoState /\ Same(s, v)
           /\ (v.box.label = "reading" => v.says.fd) /\ (v.says.fd => v.box.label = "reading")
           /\ v.box.label # "whole" /\ v.box.read = 0 /\ v.says.sent = 0
           /\ v.says.child # "ended"
           /\ v.du = s.du /\ v.file = s.file /\ v.box.cell = s.box.cell
           /\ v.box.open = s.box.open /\ v.box.pending = s.box.pending
<1>0. /\ s.file \in FileRecord /\ s.box \in BoxRecord /\ s.du \in DuRecord /\ s.says \in SaysRecord /\ s.held \in HeldRecord
      /\ s.held.sources \in Int /\ s.held.fds \in Int /\ s.held.windows \in Int
  BY Parts
<1>1. v = MakeFileSays(s, works, n)
  OBVIOUS
<1>2. NoSays \in SaysRecord /\ ~NoSays.fd /\ NoSays.sent = 0 /\ NoSays.output = 0 /\ NoSays.child = "none"
  BY DEF NoSays, SaysRecord
<1>3. PICK x : x = [s.box EXCEPT !.label = "none", !.read = 0]
  OBVIOUS
<1>4. x \in BoxRecord /\ x.open = s.box.open /\ x.pending = s.box.pending /\ x.cell = s.box.cell /\ x.label = "none" /\ x.read = 0
  BY <1>0, <1>3 DEF BoxRecord
<1>5. PICK t : t = [file |-> s.file, box |-> x, du |-> s.du, says |-> NoSays, held |-> s.held]
  OBVIOUS
<1>6. t = [s EXCEPT !.box.label = "none", !.box.read = 0, !.says = NoSays]
  <2>1. [s EXCEPT !.box = x, !.says = NoSays] = [s EXCEPT !.box.label = "none", !.box.read = 0, !.says = NoSays]
    BY <1>0, <1>3
  <2>2. t = [s EXCEPT !.box = x, !.says = NoSays]
    <3>1. PICK q : q = [file |-> s.file, box |-> x, du |-> s.du, says |-> s.says, held |-> s.held]
      OBVIOUS
    <3>2. q = [s EXCEPT !.box = x]
      BY <3>1 DEF InfoState
    <3>3. t = [q EXCEPT !.says = NoSays]
      BY <1>5, <3>1
    <3>4. [[s EXCEPT !.box = x] EXCEPT !.says = NoSays] = [s EXCEPT !.box = x, !.says = NoSays]
      OBVIOUS
    <3> QED BY <3>2, <3>3, <3>4
  <2> QED BY <2>1, <2>2
<1>7. v = IF s.file.kind # "file" THEN t
          ELSE IF works
            THEN [t EXCEPT !.box.label = "reading", !.held.sources = @ + 1, !.held.fds = @ + 1,
                           !.says = [fd |-> TRUE, child |-> "running", sent |-> 0, output |-> n]]
            ELSE [t EXCEPT !.box.label = "failed"]
  BY <1>1, <1>6 DEF MakeFileSays
<1>8. CASE s.file.kind # "file"
  <2>1. v = t /\ t \in InfoState
    BY <1>0, <1>2, <1>4, <1>5, <1>7, <1>8 DEF InfoState
  <2>2. Same(s, t)
    BY <1>0, <1>2, <1>4, <1>5 DEF Same, OtherSources, OtherFds, OtherWindows, Bit
  <2> QED BY <1>1, <1>2, <1>4, <1>5, <2>1, <2>2
<1>9. CASE s.file.kind = "file" /\ ~works
  <2>1. PICK y : y = [x EXCEPT !.label = "failed"]
    OBVIOUS
  <2>2. y \in BoxRecord /\ y.open = x.open /\ y.pending = x.pending /\ y.cell = x.cell /\ y.label = "failed" /\ y.read = 0
    BY <1>4, <2>1 DEF BoxRecord
  <2>3. v = [file |-> s.file, box |-> y, du |-> s.du, says |-> NoSays, held |-> s.held]
    BY <1>5, <1>7, <1>9, <2>1
  <2>4. v \in InfoState
    BY <1>0, <1>2, <2>2, <2>3 DEF InfoState
  <2>5. Same(s, v)
    BY <1>0, <1>2, <1>4, <2>2, <2>3 DEF Same, OtherSources, OtherFds, OtherWindows, Bit
  <2> QED BY <1>1, <1>2, <1>4, <2>2, <2>3, <2>4, <2>5
<1>10. CASE s.file.kind = "file" /\ works
  <2>1. PICK y : y = [x EXCEPT !.label = "reading"]
    OBVIOUS
  <2>2. y \in BoxRecord /\ y.open = x.open /\ y.pending = x.pending /\ y.cell = x.cell /\ y.label = "reading" /\ y.read = 0
    BY <1>4, <2>1 DEF BoxRecord
  <2>3. PICK d : d = [fd |-> TRUE, child |-> "running", sent |-> 0, output |-> n]
    OBVIOUS
  <2>4. d \in SaysRecord /\ d.fd /\ d.sent = 0 /\ d.output = n /\ d.child = "running"
    BY <2>3 DEF SaysRecord
  <2>5. PICK h : h = [s.held EXCEPT !.sources = @ + 1, !.fds = @ + 1]
    OBVIOUS
  <2>6. h \in HeldRecord /\ h.sources = s.held.sources + 1 /\ h.fds = s.held.fds + 1 /\ h.windows = s.held.windows
    <3>1. PICK m \in Int, k \in Int : m = s.held.sources + 1 /\ k = s.held.fds + 1
      BY <1>0
    <3>2. h = Holding(s.held, m, k)
      BY <2>5, <3>1 DEF Holding
    <3>3. s.held \in HeldRecord
      BY <1>0
    <3> QED BY <3>1, <3>2, <3>3, HeldChanged
  <2>7. v = [file |-> s.file, box |-> y, du |-> s.du, says |-> d, held |-> h]
    BY <1>5, <1>7, <1>10, <2>1, <2>3, <2>5
  <2>8. v \in InfoState
    BY <1>0, <2>2, <2>4, <2>6, <2>7 DEF InfoState
  <2>9. OtherSources(v) = OtherSources(s)
    BY <1>0, <2>4, <2>6, <2>7 DEF OtherSources, Bit
  <2>10. OtherFds(v) = OtherFds(s)
    BY <1>0, <2>4, <2>6, <2>7 DEF OtherFds, Bit
  <2>11. OtherWindows(v) = OtherWindows(s)
    BY <1>4, <2>2, <2>6, <2>7 DEF OtherWindows, Bit
  <2> QED BY <1>0, <1>1, <1>4, <2>2, <2>4, <2>7, <2>8, <2>9, <2>10, <2>11 DEF Same
<1> QED BY <1>8, <1>9, <1>10

(* The box is made where nothing is left of an earlier one. *)
LEMMA MakeBoxIs ==
    ASSUME NEW s \in InfoState, ~s.du.watched, ~s.du.chan, ~s.says.fd, s.box.open, NEW works \in BOOLEAN, NEW n \in Nat
    PROVE  /\ MakeBox(s, works, n) \in InfoState /\ Same(s, MakeBox(s, works, n))
           /\ BoxSound(MakeBox(s, works, n).box, MakeBox(s, works, n).du, MakeBox(s, works, n).says)
<1>1. PICK t : t = MakeDetails(s, works)
  OBVIOUS
<1>2. /\ t \in InfoState /\ Same(s, t) /\ t.says = s.says /\ t.file = s.file /\ t.box.open = s.box.open
      /\ (t.box.cell = "scanning" => t.du.watched) /\ (t.du.watched => t.box.cell = "scanning" /\ t.du.chan)
  BY <1>1, MakeDetailsIs
<1>3. PICK u : u = MakeFileSays(t, works, n)
  OBVIOUS
<1>4. /\ u \in InfoState /\ Same(t, u)
      /\ (u.box.label = "reading" => u.says.fd) /\ (u.says.fd => u.box.label = "reading")
      /\ u.box.label # "whole" /\ u.box.read = 0 /\ u.says.sent = 0
      /\ u.says.child # "ended"
      /\ u.du = t.du /\ u.file = t.file /\ u.box.cell = t.box.cell /\ u.box.open = t.box.open
  <2>1. ~t.says.fd
    BY <1>2
  <2>2. t \in InfoState
    BY <1>2
  <2> QED BY <1>3, <2>1, <2>2, MakeFileSaysIs
<1>5. PICK m : m = IF u.file.link = NoLink THEN u.file.mode ELSE {}
  OBVIOUS
<1>6. m \in SUBSET PermBit
  BY <1>4, <1>5, Parts DEF FileRecord
<1>7. PICK x : x = [u.box EXCEPT !.ticks = m]
  OBVIOUS
<1>8. x \in BoxRecord /\ x.open = u.box.open /\ x.cell = u.box.cell /\ x.label = u.box.label /\ x.read = u.box.read
  BY <1>4, <1>6, <1>7, Parts DEF BoxRecord
<1>9. PICK v : v = [file |-> u.file, box |-> x, du |-> u.du, says |-> u.says, held |-> u.held]
  OBVIOUS
<1>10. v = MakeBox(s, works, n)
  <2>1. [u EXCEPT !.box = x] = [u EXCEPT !.box.ticks = IF u.file.link = NoLink THEN u.file.mode ELSE {}]
    BY <1>5, <1>7
  <2>2. u = [file |-> u.file, box |-> u.box, du |-> u.du, says |-> u.says, held |-> u.held]
    BY <1>4, Parts
  <2>3. v = [u EXCEPT !.box = x]
    BY <1>9, <2>2
  <2> QED BY <1>1, <1>3, <2>1, <2>3 DEF MakeBox, MakePermissions
<1>11. v \in InfoState
  BY <1>4, <1>8, <1>9, Parts DEF InfoState
<1>12. Same(s, v)
  <2>1. Same(u, v)
    BY <1>8, <1>9 DEF Same, OtherSources, OtherFds, OtherWindows
  <2> QED BY <1>2, <1>4, <2>1 DEF Same
<1>13. BoxSound(v.box, v.du, v.says)
  <2>1. v.box = x /\ v.du = t.du /\ v.says = u.says /\ u.says.output \in Nat
    BY <1>4, <1>9, Parts DEF SaysRecord
  <2>2. (x.cell = "scanning" => t.du.watched) /\ (t.du.watched => x.cell = "scanning" /\ t.du.chan)
    BY <1>2, <1>4, <1>8
  <2>3. (x.label = "reading" => u.says.fd) /\ (u.says.fd => x.label = "reading") /\ x.label # "whole"
    BY <1>4, <1>8
  <2>4. x.read = 0 /\ u.says.sent = 0 /\ u.says.child # "ended"
    BY <1>4, <1>8
  <2>5. x.open
    BY <1>2, <1>4, <1>8
  <2> QED BY <2>1, <2>2, <2>3, <2>4, <2>5 DEF BoxSound
<1> QED BY <1>10, <1>11, <1>12, <1>13

(* refresh_info, from a sound box to a sound box. *)
LEMMA RefreshInfoIs ==
    ASSUME NEW s \in InfoState, BoxSound(s.box, s.du, s.says), s.box.open, NEW works \in BOOLEAN, NEW n \in Nat
    PROVE  /\ RefreshInfo(s, works, n) \in InfoState /\ Same(s, RefreshInfo(s, works, n))
           /\ BoxSound(RefreshInfo(s, works, n).box, RefreshInfo(s, works, n).du, RefreshInfo(s, works, n).says)
<1>1. PICK t : t = DestroyDetails(s)
  OBVIOUS
<1>2. /\ t \in InfoState /\ Same(s, t) /\ ~t.du.watched /\ ~t.du.chan /\ ~t.says.fd /\ t.box = s.box
  BY <1>1, DestroyDetailsIs
<1>3. RefreshInfo(s, works, n) = MakeBox(t, works, n)
  BY <1>1 DEF RefreshInfo
<1>4. PICK u : u = MakeBox(t, works, n)
  OBVIOUS
<1>5. u \in InfoState /\ Same(t, u) /\ BoxSound(u.box, u.du, u.says)
  BY <1>2, <1>4, MakeBoxIs
<1> QED BY <1>2, <1>3, <1>4, <1>5 DEF Same

LEMMA SameTwice ==
    ASSUME NEW r, NEW s, NEW t, Same(r, s), Same(s, t) PROVE Same(r, t)
BY DEF Same

(* At the start nothing is open or held. *)
LEMMA InfoStart == InfoInit => InfoInv
<1> SUFFICES ASSUME InfoInit PROVE InfoInv
  OBVIOUS
<1>1. subject \in FileRecord
  <2>1. CASE subject \in {[kind |-> k, mode |-> {}, link |-> NoLink, steps |-> 0] : k \in {"file", "dir", "mounted"}}
    BY <2>1 DEF FileRecord
  <2>2. CASE subject \in {[kind |-> TargetKind[t], mode |-> {}, link |-> t, steps |-> 0] : t \in LinkTo}
    BY <2>2, InfoAssumption DEF FileRecord
  <2> QED BY <2>1, <2>2 DEF InfoInit
<1>2. Undrawn \in BoxRecord /\ NoDu \in DuRecord /\ NoSays \in SaysRecord /\ held \in HeldRecord
  BY DEF Undrawn, NoDu, NoSays, BoxRecord, DuRecord, SaysRecord, HeldRecord, InfoInit
<1>3. InfoTypes
  BY <1>1, <1>2 DEF InfoInit, InfoTypes
<1>4. Watched = {} /\ Read = {} /\ Channels = {} /\ Open = {}
  BY DEF InfoInit, Watched, Read, Channels, Open, Undrawn, NoDu, NoSays
<1>5. Counts
  BY <1>4, FS_EmptySet DEF InfoInit, Counts
<1>6. \A b \in Box : BoxSound(ibox[b], du[b], says[b])
  BY DEF InfoInit, BoxSound, Undrawn, NoDu, NoSays
<1> QED BY <1>3, <1>5, <1>6 DEF InfoInv

(* The file is replaced under the open boxes. *)
LEMMA ReplaceFileStep == ASSUME InfoInv, ReplaceFile PROVE InfoInv'
<1>1. subject' \in FileRecord /\ UNCHANGED <<ibox, du, says, held>>
  BY DEF ReplaceFile, Seen, FileRecord, InfoInv, InfoTypes
<1> QED BY <1>1 DEF InfoInv, InfoTypes, Counts, Watched, Read, Channels, Open

(* infobox_new: one more box, and one more window. *)
LEMMA NewInfoboxStep == ASSUME InfoInv, NEW b \in Box, NewInfobox(b) PROVE InfoInv'
<1>1. PICK r : r = InfoNow(b)
  OBVIOUS
<1>2. r \in InfoState /\ BoxSound(r.box, r.du, r.says) /\ ~r.box.open
  BY <1>1, NowIsState DEF NewInfobox
<1>3. ~r.du.watched /\ ~r.du.chan /\ ~r.says.fd
  BY <1>2 DEF BoxSound
<1>4. PICK x : x = [r.box EXCEPT !.open = TRUE]
  OBVIOUS
<1>5. x \in BoxRecord /\ x.open
  BY <1>2, <1>4, Parts DEF BoxRecord
<1>6. PICK h : h = [r.held EXCEPT !.windows = @ + 1]
  OBVIOUS
<1>7. h \in HeldRecord /\ h.windows = r.held.windows + 1 /\ h.sources = r.held.sources /\ h.fds = r.held.fds
  <2>1. r.held \in HeldRecord /\ r.held.windows \in Int
    BY <1>2, Parts
  <2>2. PICK n \in Int : n = r.held.windows + 1
    BY <2>1
  <2>3. h = [r.held EXCEPT !.windows = n]
    BY <1>6, <2>2
  <2> QED BY <2>1, <2>2, <2>3 DEF HeldRecord
<1>8. PICK s : s = [r EXCEPT !.box.open = TRUE, !.held.windows = @ + 1]
  OBVIOUS
<1>9. s = [r EXCEPT !.box = x, !.held = h]
  BY <1>4, <1>6, <1>8
<1>10. s \in InfoState /\ s.box = x /\ s.held = h /\ s.du = r.du /\ s.says = r.says
  BY <1>2, <1>5, <1>7, <1>9 DEF InfoState
<1>11. Same(r, s)
  <2>1. r.held.windows \in Int
    BY <1>2, Parts
  <2> QED BY <1>2, <1>5, <1>7, <1>10, <2>1 DEF Same, OtherSources, OtherFds, OtherWindows, Bit
<1>12. PICK works \in BOOLEAN, n \in 0..MaxOutput : InfoBecomes(b, MakeBox(s, works, n))
  BY <1>1, <1>8 DEF NewInfobox
<1>13. n \in Nat
  BY InfoAssumption
<1>14. PICK t : t = MakeBox(s, works, n)
  OBVIOUS
<1>15. ~s.du.watched /\ ~s.du.chan /\ ~s.says.fd /\ s.box.open
  BY <1>3, <1>5, <1>10
<1>16. t \in InfoState /\ Same(s, t) /\ BoxSound(t.box, t.du, t.says)
  BY <1>10, <1>13, <1>14, <1>15, MakeBoxIs
<1>17. Same(r, t)
  BY <1>11, <1>16, SameTwice
<1> QED BY <1>1, <1>12, <1>14, <1>16, <1>17, HandlerKeeps

(* A click on Refresh. *)
LEMMA RefreshStep == ASSUME InfoInv, NEW b \in Box, Refresh(b) PROVE InfoInv'
<1>1. PICK r : r = InfoNow(b)
  OBVIOUS
<1>2. r \in InfoState /\ BoxSound(r.box, r.du, r.says) /\ r.box.open
  BY <1>1, NowIsState DEF Refresh
<1>3. PICK works \in BOOLEAN, n \in 0..MaxOutput : InfoBecomes(b, RefreshInfo(r, works, n))
  BY <1>1 DEF Refresh
<1>4. n \in Nat
  BY InfoAssumption
<1>5. PICK t : t = RefreshInfo(r, works, n)
  OBVIOUS
<1>6. t \in InfoState /\ Same(r, t) /\ BoxSound(t.box, t.du, t.says)
  BY <1>2, <1>4, <1>5, RefreshInfoIs
<1> QED BY <1>1, <1>3, <1>5, <1>6, HandlerKeeps

(* A box is closed with its children still running. *)
LEMMA CloseInfoboxStep == ASSUME InfoInv, NEW b \in Box, CloseInfobox(b) PROVE InfoInv'
<1>1. PICK r : r = InfoNow(b)
  OBVIOUS
<1>2. r \in InfoState /\ BoxSound(r.box, r.du, r.says) /\ r.box.open
  BY <1>1, NowIsState DEF CloseInfobox
<1>3. PICK s : s = DestroyDetails(r)
  OBVIOUS
<1>4. /\ s \in InfoState /\ Same(r, s) /\ ~s.du.watched /\ ~s.du.chan /\ ~s.says.fd /\ s.box = r.box
  BY <1>2, <1>3, DestroyDetailsIs
<1>5. PICK x : x = [Undrawn EXCEPT !.pending = s.box.pending]
  OBVIOUS
<1>6. x \in BoxRecord /\ ~x.open /\ x.cell = "none" /\ x.label = "none" /\ x.read = 0
  BY <1>4, <1>5, Parts DEF Undrawn, BoxRecord
<1>7. PICK h : h = [s.held EXCEPT !.windows = @ - 1]
  OBVIOUS
<1>8. h \in HeldRecord /\ h.windows = s.held.windows - 1 /\ h.sources = s.held.sources /\ h.fds = s.held.fds
  <2>1. s.held \in HeldRecord /\ s.held.windows \in Int
    BY <1>4, Parts
  <2>2. PICK n \in Int : n = s.held.windows - 1
    BY <2>1
  <2>3. h = [s.held EXCEPT !.windows = n]
    BY <1>7, <2>2
  <2> QED BY <2>1, <2>2, <2>3 DEF HeldRecord
<1>9. PICK t : t = [s EXCEPT !.box = x, !.held = h]
  OBVIOUS
<1>10. t = [s EXCEPT !.box = [Undrawn EXCEPT !.pending = s.box.pending], !.held.windows = @ - 1]
  BY <1>5, <1>7, <1>9
<1>11. t \in InfoState /\ t.box = x /\ t.held = h /\ t.du = s.du /\ t.says = s.says
  BY <1>4, <1>6, <1>8, <1>9 DEF InfoState
<1>12. Same(s, t)
  <2>1. s.held.windows \in Int
    BY <1>4, Parts
  <2> QED BY <1>2, <1>4, <1>6, <1>8, <1>11, <2>1 DEF Same, OtherSources, OtherFds, OtherWindows, Bit
<1>13. Same(r, t)
  BY <1>4, <1>12, SameTwice
<1>14. t.says \in SaysRecord
  BY <1>11, Parts
<1>15. r.says = s.says \/ s.says = NoSays
  <2>1. PICK k : k = KillDu(r)
    OBVIOUS
  <2>2. k \in InfoState /\ k.says = r.says
    BY <1>2, <2>1, KillDuIs DEF BoxSound
  <2>3. s = FileInfoDestroyed(k)
    BY <1>3, <2>1 DEF DestroyDetails
  <2>4. s.says = NoSays
    BY <2>2, <2>3 DEF FileInfoDestroyed, InfoState
  <2> QED BY <2>4
<1>16. BoxSound(t.box, t.du, t.says)
  <2>1. t.says.sent <= t.says.output /\ (t.says.child = "ended" => t.says.sent = t.says.output)
    BY <1>2, <1>11, <1>15 DEF BoxSound, NoSays
  <2>2. 0 <= t.says.sent
    BY <1>14 DEF SaysRecord
  <2> QED BY <1>4, <1>6, <1>11, <2>1, <2>2 DEF BoxSound
<1>17. InfoBecomes(b, t)
  BY <1>1, <1>3, <1>10 DEF CloseInfobox
<1> QED BY <1>1, <1>11, <1>13, <1>16, <1>17, HandlerKeeps

(* du ends, with a line or without one. *)
LEMMA DuEndsStep == ASSUME InfoInv, NEW b \in Box, DuEnds(b) PROVE InfoInv'
<1>1. PICK how \in {"said", "silent"} : du' = [du EXCEPT ![b].child = how]
  BY DEF DuEnds
<1>2. du' \in [Box -> DuRecord] /\ \A c \in Box : du'[c].watched = du[c].watched /\ du'[c].chan = du[c].chan
  BY <1>1 DEF InfoInv, InfoTypes, DuRecord
<1>3. UNCHANGED <<subject, ibox, says, held>>
  BY DEF DuEnds
<1>4. Watched' = Watched /\ Read' = Read /\ Channels' = Channels /\ Open' = Open
  BY <1>2, <1>3 DEF Watched, Read, Channels, Open
<1>5. InfoTypes' /\ Counts'
  BY <1>2, <1>3, <1>4 DEF InfoInv, InfoTypes, Counts
<1>6. \A c \in Box : BoxSound(ibox'[c], du'[c], says'[c])
  BY <1>2, <1>3 DEF InfoInv, BoxSound
<1> QED BY <1>5, <1>6 DEF InfoInv

(* file(1) writes one more piece, or ends when it has written all. *)
LEMMA FileWritesStep == ASSUME InfoInv, NEW b \in Box, FileWrites(b) PROVE InfoInv'
<1>1. PICK y : y = says[b]
  OBVIOUS
<1>2. y \in SaysRecord /\ BoxSound(ibox[b], du[b], y) /\ y.child = "running"
  BY <1>1 DEF InfoInv, InfoTypes, FileWrites
<1>3. y.sent \in Nat /\ y.output \in Nat /\ y.sent <= y.output
  BY <1>2 DEF SaysRecord, BoxSound
<1>4. PICK z : /\ \/ z = [y EXCEPT !.sent = y.sent + 1] /\ y.sent < y.output
                  \/ z = [y EXCEPT !.child = "ended"] /\ y.sent >= y.output
               /\ says' = [says EXCEPT ![b] = z]
  <2>1. CASE y.sent < y.output
    <3>1. PICK z : z = [y EXCEPT !.sent = y.sent + 1]
      OBVIOUS
    <3>2. says' = [says EXCEPT ![b].sent = says[b].sent + 1]
      BY <1>1, <1>3, <2>1 DEF FileWrites
    <3>3. says' = [says EXCEPT ![b] = z]
      BY <1>1, <3>1, <3>2
    <3> QED BY <2>1, <3>1, <3>3
  <2>2. CASE ~(y.sent < y.output)
    <3>1. PICK z : z = [y EXCEPT !.child = "ended"]
      OBVIOUS
    <3>2. says' = [says EXCEPT ![b].child = "ended"]
      BY <1>1, <1>3, <2>2 DEF FileWrites
    <3>3. says' = [says EXCEPT ![b] = z]
      BY <1>1, <3>1, <3>2
    <3>4. y.sent >= y.output
      BY <1>3, <2>2
    <3> QED BY <3>1, <3>3, <3>4
  <2> QED BY <2>1, <2>2
<1>5. z \in SaysRecord /\ z.fd = y.fd /\ z.output = y.output /\ z.sent <= z.output /\ y.sent <= z.sent
      /\ (z.child = "ended" => z.sent = z.output)
  <2>1. CASE z = [y EXCEPT !.sent = y.sent + 1] /\ y.sent < y.output
    <3>1. PICK n \in Nat : n = y.sent + 1
      BY <1>3
    <3>2. z = [y EXCEPT !.sent = n]
      BY <2>1, <3>1
    <3> QED BY <1>2, <1>3, <2>1, <3>1, <3>2 DEF SaysRecord
  <2>2. CASE z = [y EXCEPT !.child = "ended"] /\ y.sent >= y.output
    BY <1>2, <1>3, <2>2 DEF SaysRecord
  <2> QED BY <1>4, <2>1, <2>2
<1>6. UNCHANGED <<subject, ibox, du, held>>
  BY DEF FileWrites
<1>7. says' \in [Box -> SaysRecord] /\ says'[b] = z /\ \A c \in Box : c # b => says'[c] = says[c]
  BY <1>4, <1>5 DEF InfoInv, InfoTypes
<1>8. Watched' = Watched /\ Read' = Read /\ Channels' = Channels /\ Open' = Open
  BY <1>1, <1>5, <1>6, <1>7 DEF Watched, Read, Channels, Open
<1>9. InfoTypes' /\ Counts'
  BY <1>6, <1>7, <1>8 DEF InfoInv, InfoTypes, Counts
<1>10. BoxSound(ibox[b], du[b], z)
  <2>1. ibox[b].read \in Nat /\ y.sent \in Nat /\ z.sent \in Nat /\ z.output \in Nat
    BY <1>2, <1>5 DEF InfoInv, InfoTypes, BoxRecord, SaysRecord
  <2> QED BY <1>2, <1>5, <2>1 DEF BoxSound
<1>11. \A c \in Box : BoxSound(ibox'[c], du'[c], says'[c])
  BY <1>6, <1>7, <1>10 DEF InfoInv
<1> QED BY <1>9, <1>11 DEF InfoInv

(* One source less, with its descriptor or not. *)
LEMMA OneLess ==
    ASSUME NEW g \in HeldRecord
    PROVE  /\ \A h : h = [g EXCEPT !.sources = @ - 1] =>
                 h \in HeldRecord /\ h.sources = g.sources - 1 /\ h.windows = g.windows /\ h.fds = g.fds
           /\ \A h : h = [g EXCEPT !.sources = @ - 1, !.fds = @ - 1] =>
                 h \in HeldRecord /\ h.sources = g.sources - 1 /\ h.windows = g.windows /\ h.fds = g.fds - 1
<1>1. g.sources \in Int /\ g.fds \in Int
  BY DEF HeldRecord
<1>2. PICK m \in Int, n \in Int : m = g.sources - 1 /\ n = g.fds - 1
  BY <1>1
<1>3. ASSUME NEW h, h = [g EXCEPT !.sources = @ - 1]
      PROVE  h \in HeldRecord /\ h.sources = g.sources - 1 /\ h.windows = g.windows /\ h.fds = g.fds
  <2>1. h = [g EXCEPT !.sources = m]
    BY <1>2, <1>3
  <2> QED BY <1>2, <2>1 DEF HeldRecord
<1>4. ASSUME NEW h, h = [g EXCEPT !.sources = @ - 1, !.fds = @ - 1]
      PROVE  h \in HeldRecord /\ h.sources = g.sources - 1 /\ h.windows = g.windows /\ h.fds = g.fds - 1
  <2>1. h = Holding(g, m, n)
    BY <1>2, <1>4 DEF Holding
  <2> QED BY <1>2, <2>1, HeldChanged
<1> QED BY <1>3, <1>4

(* The line of du is read: the watch is gone, the pipe is left to kill_du_output. *)
LEMMA ReadDuOutputStep == ASSUME InfoInv, NEW b \in Box, ReadDuOutput(b) PROVE InfoInv'
<1>1. PICK r : r = InfoNow(b)
  OBVIOUS
<1>2. r \in InfoState /\ BoxSound(r.box, r.du, r.says) /\ r.du.watched
  BY <1>1, NowIsState DEF ReadDuOutput
<1>3. PICK c \in {"known", "failed"} :
         InfoBecomes(b, [r EXCEPT !.box.cell = c, !.du.watched = FALSE, !.held.sources = @ - 1])
  <2>1. PICK fails \in BOOLEAN :
          InfoBecomes(b, [r EXCEPT !.box.cell = IF du[b].child = "said" /\ ~fails THEN "known" ELSE "failed",
                                   !.du.watched = FALSE, !.held.sources = @ - 1])
    BY <1>1 DEF ReadDuOutput
  <2> QED BY <2>1
<1>4. PICK x : x = [r.box EXCEPT !.cell = c]
  OBVIOUS
<1>5. /\ x \in BoxRecord /\ x.cell = c /\ x.label = r.box.label /\ x.open = r.box.open /\ x.read = r.box.read
  BY <1>2, <1>4, Parts DEF BoxRecord
<1>6. PICK d : d = [r.du EXCEPT !.watched = FALSE]
  OBVIOUS
<1>7. d \in DuRecord /\ ~d.watched /\ d.chan = r.du.chan
  BY <1>2, <1>6, Parts DEF DuRecord
<1>8. PICK h : h = [r.held EXCEPT !.sources = @ - 1]
  OBVIOUS
<1>9. h \in HeldRecord /\ h.sources = r.held.sources - 1 /\ h.windows = r.held.windows /\ h.fds = r.held.fds
  <2>1. PICK g \in HeldRecord : g = r.held
    BY <1>2, Parts
  <2>2. h = [g EXCEPT !.sources = @ - 1]
    BY <1>8, <2>1
  <2> QED BY <2>1, <2>2, OneLess
<1>10. PICK s : s = [r EXCEPT !.box = x, !.du = d, !.held = h]
  OBVIOUS
<1>11. s = [r EXCEPT !.box.cell = c, !.du.watched = FALSE, !.held.sources = @ - 1]
  BY <1>4, <1>6, <1>8, <1>10
<1>12. s \in InfoState /\ s.box = x /\ s.du = d /\ s.held = h /\ s.says = r.says
  BY <1>2, <1>5, <1>7, <1>9, <1>10 DEF InfoState
<1>13. Same(r, s)
  <2>1. r.held.sources \in Int /\ r.held.fds \in Int /\ r.held.windows \in Int
    BY <1>2, Parts
  <2> QED BY <1>2, <1>5, <1>7, <1>9, <1>12, <2>1 DEF Same, OtherSources, OtherFds, OtherWindows, Bit
<1>14. BoxSound(s.box, s.du, s.says)
  BY <1>2, <1>3, <1>5, <1>7, <1>12 DEF BoxSound
<1> QED BY <1>1, <1>3, <1>11, <1>12, <1>13, <1>14, HandlerKeeps

(* A piece, the end or an error is read from file(1). *)
LEMMA AddFileOutputStep == ASSUME InfoInv, NEW b \in Box, AddFileOutput(b) PROVE InfoInv'
<1>1. PICK r : r = InfoNow(b)
  OBVIOUS
<1>2. r \in InfoState /\ BoxSound(r.box, r.du, r.says) /\ r.says.fd /\ r.box = ibox[b] /\ r.says = says[b]
  BY <1>1, NowIsState DEF AddFileOutput
<1>3. r.box.read \in Nat /\ r.says.sent \in Nat /\ r.says.output \in Nat /\ r.box.label = "reading" /\ r.box.open
  BY <1>2, Parts DEF BoxRecord, SaysRecord, BoxSound
<1>4. CASE ibox[b].read < says[b].sent /\ InfoBecomes(b, [r EXCEPT !.box.read = @ + 1])
  <2>1. PICK n \in Nat : n = r.box.read + 1
    BY <1>3
  <2>2. PICK x : x = [r.box EXCEPT !.read = n]
    OBVIOUS
  <2>3. x \in BoxRecord /\ x.read = n /\ x.cell = r.box.cell /\ x.label = r.box.label /\ x.open = r.box.open
    BY <1>2, <2>1, <2>2, Parts DEF BoxRecord
  <2>4. PICK s : s = [r EXCEPT !.box = x]
    OBVIOUS
  <2>5. s = [r EXCEPT !.box.read = @ + 1]
    BY <2>1, <2>2, <2>4
  <2>6. s \in InfoState /\ s.box = x /\ s.du = r.du /\ s.says = r.says /\ s.held = r.held
    BY <1>2, <2>3, <2>4 DEF InfoState
  <2>7. Same(r, s)
    BY <2>3, <2>6 DEF Same, OtherSources, OtherFds, OtherWindows
  <2>8. BoxSound(s.box, s.du, s.says)
    <3>1. n <= r.says.sent /\ x.label # "whole"
      BY <1>2, <1>3, <1>4, <2>1, <2>3
    <3> QED BY <1>2, <1>3, <2>3, <2>6, <3>1 DEF BoxSound
  <2> QED BY <1>1, <1>4, <2>5, <2>6, <2>7, <2>8, HandlerKeeps
<1>5. ASSUME NEW l \in {"whole", "failed"}, l = "whole" => r.box.read = r.says.sent /\ r.says.child = "ended",
             InfoBecomes(b, [r EXCEPT !.box.label = l, !.says.fd = FALSE, !.held.sources = @ - 1, !.held.fds = @ - 1])
      PROVE  InfoInv'
  <2>1. PICK x : x = [r.box EXCEPT !.label = l]
    OBVIOUS
  <2>2. x \in BoxRecord /\ x.label = l /\ x.cell = r.box.cell /\ x.open = r.box.open /\ x.read = r.box.read
    BY <1>2, <2>1, Parts DEF BoxRecord
  <2>3. PICK y : y = [r.says EXCEPT !.fd = FALSE]
    OBVIOUS
  <2>4. y \in SaysRecord /\ ~y.fd /\ y.sent = r.says.sent /\ y.output = r.says.output /\ y.child = r.says.child
    BY <1>2, <2>3, Parts DEF SaysRecord
  <2>5. PICK h : h = [r.held EXCEPT !.sources = @ - 1, !.fds = @ - 1]
    OBVIOUS
  <2>6. h \in HeldRecord /\ h.sources = r.held.sources - 1 /\ h.windows = r.held.windows /\ h.fds = r.held.fds - 1
    <3>1. PICK g \in HeldRecord : g = r.held
      BY <1>2, Parts
    <3>2. h = [g EXCEPT !.sources = @ - 1, !.fds = @ - 1]
      BY <2>5, <3>1
    <3> QED BY <3>1, <3>2, OneLess
  <2>7. PICK s : s = [r EXCEPT !.box = x, !.says = y, !.held = h]
    OBVIOUS
  <2>8. s = [r EXCEPT !.box.label = l, !.says.fd = FALSE, !.held.sources = @ - 1, !.held.fds = @ - 1]
    BY <2>1, <2>3, <2>5, <2>7
  <2>9. s \in InfoState /\ s.box = x /\ s.says = y /\ s.held = h /\ s.du = r.du
    BY <1>2, <2>2, <2>4, <2>6, <2>7 DEF InfoState
  <2>10. Same(r, s)
    <3>1. r.held.sources \in Int /\ r.held.fds \in Int /\ r.held.windows \in Int
      BY <1>2, Parts
    <3> QED BY <1>2, <2>2, <2>4, <2>6, <2>9, <3>1 DEF Same, OtherSources, OtherFds, OtherWindows, Bit
  <2>11. BoxSound(s.box, s.du, s.says)
    BY <1>2, <1>3, <1>5, <2>2, <2>4, <2>9 DEF BoxSound
  <2> QED BY <1>1, <1>5, <2>8, <2>9, <2>10, <2>11, HandlerKeeps
<1> QED BY <1>1, <1>2, <1>4, <1>5 DEF AddFileOutput

(* The file changes, or what the box says of it besides its cell and its text. *)
LEMMA FileChanged ==
    ASSUME InfoInv, NEW b \in Box, NEW s \in InfoState, s.du = du[b], s.says = says[b], s.held = held,
           s.box.open = ibox[b].open, s.box.cell = ibox[b].cell, s.box.label = ibox[b].label, s.box.read = ibox[b].read,
           InfoBecomes(b, s)
    PROVE  InfoInv'
<1>1. BoxSound(s.box, s.du, s.says)
  BY DEF InfoInv, BoxSound
<1>2. Same(InfoNow(b), s)
  BY NowIsState DEF Same, OtherSources, OtherFds, OtherWindows
<1> QED BY <1>1, <1>2, HandlerKeeps

(* A tick of the permissions. *)
LEMMA PermissionsApplyStep == ASSUME InfoInv, NEW b \in Box, NEW t \in PermBit, PermissionsApply(b, t) PROVE InfoInv'
<1>1. PICK r : r = InfoNow(b)
  OBVIOUS
<1>2. r \in InfoState /\ r.box = ibox[b] /\ r.du = du[b] /\ r.says = says[b] /\ r.held = held /\ r.file = subject
  BY <1>1, NowIsState
<1>3. PICK ticks : ticks = IF t \in ibox[b].ticks THEN ibox[b].ticks \ {t} ELSE ibox[b].ticks \cup {t}
  OBVIOUS
<1>4. ticks \in SUBSET PermBit
  BY <1>2, <1>3, Parts DEF BoxRecord
<1>5. PICK x : x = [r.box EXCEPT !.ticks = ticks]
  OBVIOUS
<1>6. x \in BoxRecord /\ x.open = r.box.open /\ x.cell = r.box.cell /\ x.label = r.box.label /\ x.read = r.box.read
  BY <1>2, <1>4, <1>5, Parts DEF BoxRecord
<1>7. PICK s : s = [r EXCEPT !.box.ticks = ticks]
  OBVIOUS
<1>8. s = [r EXCEPT !.box = x]
  BY <1>5, <1>7
<1>9. s \in InfoState /\ s.box = x /\ s.du = r.du /\ s.says = r.says /\ s.held = r.held /\ s.file = r.file
  BY <1>2, <1>6, <1>8 DEF InfoState
<1>10. CASE InfoBecomes(b, s)
  BY <1>2, <1>6, <1>9, <1>10, FileChanged
<1>11. CASE InfoBecomes(b, [s EXCEPT !.file.mode = ticks])
  <2>1. PICK f : f = [s.file EXCEPT !.mode = ticks]
    OBVIOUS
  <2>2. f \in FileRecord
    BY <1>4, <1>9, <2>1, Parts DEF FileRecord
  <2>3. PICK u : u = [s EXCEPT !.file = f]
    OBVIOUS
  <2>4. u \in InfoState /\ u.box = s.box /\ u.du = s.du /\ u.says = s.says /\ u.held = s.held
    BY <1>9, <2>2, <2>3 DEF InfoState
  <2>5. InfoBecomes(b, u)
    BY <1>11, <2>1, <2>3
  <2> QED BY <1>2, <1>6, <1>9, <2>4, <2>5, FileChanged
<1>12. InfoBecomes(b, s) \/ InfoBecomes(b, [s EXCEPT !.file.mode = ticks])
  <2>1. InfoBecomes(b, s) \/ InfoBecomes(b, IF subject.link = NoLink THEN [s EXCEPT !.file.mode = ticks] ELSE s)
    BY <1>1, <1>3, <1>7 DEF PermissionsApply
  <2> QED BY <2>1
<1> QED BY <1>10, <1>11, <1>12

(* An edit of where the link points to. *)
LEMMA LinkCellEditedStep == ASSUME InfoInv, NEW b \in Box, NEW to \in LinkTo, LinkCellEdited(b, to) PROVE InfoInv'
<1>1. PICK r : r = InfoNow(b)
  OBVIOUS
<1>2. /\ r \in InfoState /\ r.box = ibox[b] /\ r.du = du[b] /\ r.says = says[b] /\ r.held = held /\ r.file = subject
      /\ r.file \in FileRecord /\ r.box \in BoxRecord
  BY <1>1, NowIsState, Parts
<1>3. CASE InfoBecomes(b, r)
  BY <1>2, <1>3, FileChanged
<1>4. CASE InfoBecomes(b, [r EXCEPT !.file.link = NoLink, !.file.kind = "gone"])
  <2>1. PICK f : f = [r.file EXCEPT !.link = NoLink, !.kind = "gone"]
    OBVIOUS
  <2>2. f \in FileRecord
    BY <1>2, <2>1 DEF FileRecord
  <2>3. PICK u : u = [r EXCEPT !.file = f]
    OBVIOUS
  <2>4. u \in InfoState /\ u.box = r.box /\ u.du = r.du /\ u.says = r.says /\ u.held = r.held
    BY <1>2, <2>2, <2>3 DEF InfoState
  <2>5. InfoBecomes(b, u)
    BY <1>4, <2>1, <2>3
  <2> QED BY <1>2, <2>4, <2>5, FileChanged
<1>5. CASE InfoBecomes(b, [r EXCEPT !.file.link = to, !.file.kind = TargetKind[to], !.box.pending = @ + 1])
  <2>1. PICK f : f = [r.file EXCEPT !.link = to, !.kind = TargetKind[to]]
    OBVIOUS
  <2>2. f \in FileRecord
    <3>1. TargetKind[to] \in {"file", "dir", "mounted", "gone"}
      BY InfoAssumption
    <3> QED BY <1>2, <2>1, <3>1 DEF FileRecord
  <2>3. PICK n \in Nat : n = r.box.pending + 1
    BY <1>2 DEF BoxRecord
  <2>4. PICK x : x = [r.box EXCEPT !.pending = n]
    OBVIOUS
  <2>5. x \in BoxRecord /\ x.open = r.box.open /\ x.cell = r.box.cell /\ x.label = r.box.label /\ x.read = r.box.read
    BY <1>2, <2>4 DEF BoxRecord
  <2>6. PICK u : u = [r EXCEPT !.file = f, !.box = x]
    OBVIOUS
  <2>7. u \in InfoState /\ u.box = x /\ u.du = r.du /\ u.says = r.says /\ u.held = r.held
    BY <1>2, <2>2, <2>5, <2>6 DEF InfoState
  <2>8. InfoBecomes(b, u)
    BY <1>5, <2>1, <2>3, <2>4, <2>6
  <2> QED BY <1>2, <2>5, <2>7, <2>8, FileChanged
<1> QED BY <1>1, <1>3, <1>4, <1>5 DEF LinkCellEdited

(* The idle callback an edit leaves behind. *)
LEMMA RefreshInfoIdleStep == ASSUME InfoInv, NEW b \in Box, RefreshInfoIdle(b) PROVE InfoInv'
<1>1. PICK r : r = InfoNow(b)
  OBVIOUS
<1>2. /\ r \in InfoState /\ BoxSound(r.box, r.du, r.says) /\ r.box = ibox[b] /\ r.du = du[b] /\ r.says = says[b]
      /\ r.held = held /\ r.box \in BoxRecord /\ r.box.pending > 0
  BY <1>1, NowIsState, Parts DEF RefreshInfoIdle
<1>3. PICK k \in Nat : k = r.box.pending - 1
  BY <1>2 DEF BoxRecord
<1>4. PICK x : x = [r.box EXCEPT !.pending = k]
  OBVIOUS
<1>5. x \in BoxRecord /\ x.open = r.box.open /\ x.cell = r.box.cell /\ x.label = r.box.label /\ x.read = r.box.read
  BY <1>2, <1>4 DEF BoxRecord
<1>6. PICK s : s = [r EXCEPT !.box = x]
  OBVIOUS
<1>7. s = [r EXCEPT !.box.pending = @ - 1]
  BY <1>3, <1>4, <1>6
<1>8. s \in InfoState /\ s.box = x /\ s.du = r.du /\ s.says = r.says /\ s.held = r.held
  BY <1>2, <1>5, <1>6 DEF InfoState
<1>9. CASE InfoBecomes(b, s)
  BY <1>2, <1>5, <1>8, <1>9, FileChanged
<1>10. ASSUME ibox[b].open, NEW works \in BOOLEAN, NEW n \in 0..MaxOutput, InfoBecomes(b, RefreshInfo(s, works, n))
       PROVE  InfoInv'
  <2>1. n \in Nat
    BY InfoAssumption
  <2>2. BoxSound(s.box, s.du, s.says) /\ s.box.open
    BY <1>2, <1>5, <1>8, <1>10 DEF BoxSound
  <2>3. PICK t : t = RefreshInfo(s, works, n)
    OBVIOUS
  <2>4. t \in InfoState /\ Same(s, t) /\ BoxSound(t.box, t.du, t.says)
    BY <1>8, <2>1, <2>2, <2>3, RefreshInfoIs
  <2>5. Same(r, s)
    BY <1>5, <1>8 DEF Same, OtherSources, OtherFds, OtherWindows
  <2>6. Same(r, t)
    BY <2>4, <2>5, SameTwice
  <2> QED BY <1>1, <1>10, <2>3, <2>4, <2>6, HandlerKeeps
<1> QED BY <1>1, <1>7, <1>9, <1>10 DEF RefreshInfoIdle

(* Each step of the boxes, of their children and of the file. *)
LEMMA InfoStep == InfoInv /\ [InfoNext]_infoVars => InfoInv'
<1> SUFFICES ASSUME InfoInv, [InfoNext]_infoVars PROVE InfoInv'
  OBVIOUS
<1>1. CASE ReplaceFile
  BY <1>1, ReplaceFileStep
<1>2. ASSUME NEW b \in Box, NewInfobox(b) \/ Refresh(b) \/ CloseInfobox(b) PROVE InfoInv'
  BY <1>2, NewInfoboxStep, RefreshStep, CloseInfoboxStep
<1>3. ASSUME NEW b \in Box, DuEnds(b) \/ ReadDuOutput(b) \/ FileWrites(b) \/ AddFileOutput(b) PROVE InfoInv'
  BY <1>3, DuEndsStep, ReadDuOutputStep, FileWritesStep, AddFileOutputStep
<1>4. ASSUME NEW b \in Box, \/ \E t \in PermBit : PermissionsApply(b, t)
                            \/ \E to \in LinkTo : LinkCellEdited(b, to)
                            \/ RefreshInfoIdle(b)
      PROVE InfoInv'
  BY <1>4, PermissionsApplyStep, LinkCellEditedStep, RefreshInfoIdleStep
<1>5. CASE UNCHANGED infoVars
  BY <1>5 DEF infoVars, InfoInv, InfoTypes, Counts, Watched, Read, Channels, Open
<1> QED BY <1>1, <1>2, <1>3, <1>4, <1>5 DEF InfoNext

(* Every source and descriptor belongs to something on the screen that waits *)
(* for it, every open Info box counts as a window, and a text that is whole is *)
(* all that file(1) wrote: for any number of boxes, edits and changes. *)
THEOREM InfoAlwaysRight == InfoSpec => []InfoRight
<1>1. ASSUME InfoInv PROVE InfoRight
  <2>1. Watched = {b \in Box : ibox[b].cell = "scanning"} /\ Read = {b \in Box : ibox[b].label = "reading"}
    BY <1>1 DEF InfoInv, BoxSound, Watched, Read
  <2>2. \A b \in Box : ibox[b].label = "whole" => ibox[b].read = says[b].output
    BY <1>1 DEF InfoInv, BoxSound
  <2>3. Counts
    BY <1>1 DEF InfoInv
  <2>4. /\ held.sources = Cardinality({b \in Box : ibox[b].cell = "scanning"}) + Cardinality({b \in Box : ibox[b].label = "reading"})
        /\ held.fds = Cardinality({b \in Box : du[b].chan}) + Cardinality({b \in Box : says[b].fd})
        /\ held.windows = Cardinality({b \in Box : ibox[b].open})
    <3>1. held.sources = Cardinality(Watched) + Cardinality(Read)
      BY <2>3 DEF Counts
    <3>2. held.fds = Cardinality(Channels) + Cardinality(Read) /\ held.windows = Cardinality(Open)
      BY <2>3 DEF Counts
    <3>3. held.fds = Cardinality({b \in Box : du[b].chan}) + Cardinality({b \in Box : says[b].fd})
      BY <3>2 DEF Channels, Read
    <3>4. held.windows = Cardinality({b \in Box : ibox[b].open})
      BY <3>2 DEF Open
    <3> QED BY <2>1, <3>1, <3>3, <3>4
  <2> QED BY <2>2, <2>4 DEF InfoRight, HeldForShown
<1>2. InfoInv => InfoRight
  BY <1>1
<1> QED BY <1>2, InfoStart, InfoStep, PTL DEF InfoSpec

--------------------
(* The icons of the pinboard and the panels (Icons). *)
(* *)
(* BoardsRight says nothing once an Icon was freed while it was selected, *)
(* and nothing of the Icons a handler has half changed.  Good is what holds*)
(* of the Icons and the globals at any point of any handler, freed Icons *)
(* included: they stay in the tables.  Each function of the model is shown *)
(* to keep it, and to change no icon but its own; the loops over icons by *)
(* induction on the finite set they go through. *)
--------------------
(* A handler's way through a set of icons, in the order that is chosen. *)
Pick(T) == CHOOSE i \in T : TRUE

LEMMA Picked == ASSUME NEW T, T # {} PROVE Pick(T) \in T
BY DEF Pick

(* What holds of no icon, and of a set when it holds of the set without *)
(* the icon that is picked, holds of all of a finite set. *)
LEMMA EachOf ==
    ASSUME NEW S, IsFiniteSet(S), NEW Q \in SUBSET (SUBSET S), {} \in Q,
           \A T \in SUBSET S : T # {} /\ T \ {Pick(T)} \in Q => T \in Q
    PROVE  S \in Q
<1>1. PICK R : R = StrictSubsetOrdering(S)
  OBVIOUS
<1>2. IsWellFoundedOn(R, SUBSET S)
  BY <1>1, FS_StrictSubsetOrderingWellFounded, FS_FiniteSubsetsOfFinite
<1>3. PICK Bad \in SUBSET (SUBSET S) : Bad = (SUBSET S) \ Q
  <2>1. (SUBSET S) \ Q \in SUBSET (SUBSET S)
    BY Zenon
  <2> QED BY <2>1, Zenon
<1>5. ASSUME Bad # {} PROVE FALSE
  <2>1. PICK T \in Bad : \A U \in Bad : ~(<<U, T>> \in R)
    BY <1>2, <1>5, WFMin
  <2>2. T \in SUBSET S /\ T \notin Q
    <3>1. T \in (SUBSET S) \ Q
      BY <1>3, <2>1, Zenon
    <3> QED BY <3>1, Zenon
  <2>3. T # {}
    BY <2>2, Zenon
  <2>4. PICK U : U = T \ {Pick(T)}
    OBVIOUS
  <2>5. U \in SUBSET S /\ U \subseteq T /\ U # T
    <3>1. Pick(T) \in T
      BY <2>3, Picked
    <3>2. U \subseteq T /\ U # T
      BY <2>4, <3>1
    <3> QED BY <2>2, <3>2
  <2>6. <<U, T>> \in R
    BY <1>1, <2>2, <2>5 DEF StrictSubsetOrdering
  <2>7. U \in Q
    <3>1. U \notin Bad
      BY <2>1, <2>6
    <3> QED BY <1>3, <2>5, <3>1, Zenon
  <2> QED BY <2>2, <2>3, <2>4, <2>7
<1>6. S \in SUBSET S
  OBVIOUS
<1> QED BY <1>3, <1>5, <1>6

(* The function that a handler's recursion defines exists. *)
Way(S, start, next, g) ==
    g = [T \in SUBSET S |-> IF T = {} THEN start ELSE next[Pick(T)][g[T \ {Pick(T)}]]]

LEMMA WayExists ==
    ASSUME NEW S, IsFiniteSet(S), NEW V, NEW start \in V, NEW next \in [S -> [V -> V]]
    PROVE  \E g \in [SUBSET S -> V] : Way(S, start, next, g)
<1> DEFINE Good(g, T) == g[T] = IF T = {} THEN start ELSE next[Pick(T)][g[T \ {Pick(T)}]]
           Some(n) == \E g \in [SUBSET S -> V] : \A T \in SUBSET S : Cardinality(T) <= n => Good(g, T)
           Bad == {n \in Nat : ~Some(n)}
<1>1. \A T \in SUBSET S : IsFiniteSet(T) /\ Cardinality(T) \in Nat
  BY FS_Subset, FS_CardinalityType
<1>2. ASSUME NEW T \in SUBSET S, T # {}
      PROVE  /\ Pick(T) \in S /\ T \ {Pick(T)} \in SUBSET S
             /\ Cardinality(T \ {Pick(T)}) = Cardinality(T) - 1 /\ Cardinality(T) # 0
  <2>1. Pick(T) \in T
    BY <1>2, Picked
  <2>2. Cardinality(T \ {Pick(T)}) = Cardinality(T) - 1
    BY <1>1, <2>1, FS_RemoveElement
  <2>3. Cardinality(T) # 0
    BY <1>1, <1>2, FS_EmptySet
  <2> QED BY <2>1, <2>2, <2>3
<1>3. Some(0)
  <2>1. PICK g : g = [T \in SUBSET S |-> start]
    OBVIOUS
  <2>2. g \in [SUBSET S -> V] /\ g[{}] = start
    BY <2>1
  <2>3. \A T \in SUBSET S : Cardinality(T) <= 0 => T = {}
    <3>1. \A T \in SUBSET S : Cardinality(T) <= 0 => Cardinality(T) = 0
      BY <1>1
    <3> QED BY <1>1, <3>1, FS_EmptySet
  <2> QED BY <2>2, <2>3
<1>4. ASSUME NEW n \in Nat, Some(n) PROVE Some(n + 1)
  <2>1. PICK g \in [SUBSET S -> V] : \A T \in SUBSET S : Cardinality(T) <= n => Good(g, T)
    BY <1>4
  <2>2. PICK h : h = [T \in SUBSET S |-> IF T = {} THEN start ELSE next[Pick(T)][g[T \ {Pick(T)}]]]
    OBVIOUS
  <2>3. h \in [SUBSET S -> V]
    <3>1. ASSUME NEW T \in SUBSET S, T # {} PROVE next[Pick(T)][g[T \ {Pick(T)}]] \in V
      BY <1>2, <2>1, <3>1
    <3> QED BY <2>2, <3>1
  <2>4. ASSUME NEW T \in SUBSET S, Cardinality(T) <= n PROVE h[T] = g[T]
    BY <2>1, <2>2, <2>4
  <2>5. ASSUME NEW T \in SUBSET S, Cardinality(T) <= n + 1 PROVE Good(h, T)
    <3>1. CASE T = {}
      BY <2>2, <3>1
    <3>2. CASE T # {}
      <4>1. PICK U \in SUBSET S : U = T \ {Pick(T)} /\ Cardinality(U) = Cardinality(T) - 1
        BY <1>2, <3>2
      <4>2. Cardinality(U) <= n
        BY <1>1, <2>5, <4>1
      <4>3. h[U] = g[U]
        BY <2>4, <4>2
      <4> QED BY <2>2, <3>2, <4>1, <4>3
    <3> QED BY <3>1, <3>2
  <2> QED BY <2>3, <2>5
<1>5. Bad = {}
  <2> HIDE DEF Some
  <2>1. ASSUME Bad # {} PROVE FALSE
    <3>1. Bad \in SUBSET Nat
      OBVIOUS
    <3>2. PICK n \in Bad : \A m \in Bad : ~(<<m, n>> \in OpToRel(<, Nat))
      BY <2>1, <3>1, NatLessThanWellFounded, WFMin
    <3>3. n \in Nat /\ n # 0 /\ ~Some(n)
      BY <1>3
    <3>4. PICK m \in Nat : n = m + 1
      BY <3>3
    <3>5. m < n
      BY <3>3, <3>4
    <3>6. <<m, n>> \in OpToRel(<, Nat)
      BY <3>3, <3>4, <3>5 DEF OpToRel
    <3>7. Some(m)
      BY <3>2, <3>6
    <3> QED BY <1>4, <3>3, <3>4, <3>7
  <2> QED BY <2>1
<1>6. Some(Cardinality(S))
  <2> HIDE DEF Some
  <2>1. Cardinality(S) \in Nat
    BY <1>1
  <2> QED BY <1>5, <2>1
<1>7. PICK g \in [SUBSET S -> V] : \A T \in SUBSET S : Cardinality(T) <= Cardinality(S) => Good(g, T)
  BY <1>6
<1>8. \A T \in SUBSET S : Good(g, T)
  BY <1>7, FS_Subset
<1>9. Way(S, start, next, g)
  BY <1>7, <1>8 DEF Way
<1> QED BY <1>7, <1>9

--------------------
(* A state of the icons, and what is true of it at any point of a handler. *)
Labels == Shortcut \cup {NoShortcut}
IconRecord == [state : {"none", "live", "freed"}, path : Path \cup {"none"}, shortcut : Labels,
               locked : BOOLEAN, selected : BOOLEAN, dialog : BOOLEAN]
GlobalRecord == [selection : SUBSET Icon, primary : BOOLEAN, refused : BOOLEAN, popup : {"none", "drag", "menu"},
                 at : Icon \cup {NoIcon}, tmp : BOOLEAN, hash : [Path -> SUBSET Icon], shortcuts : SUBSET Icon,
                 count : [Key -> Int], grabbed : SUBSET Key]
IconState == [icon : [Icon -> IconRecord], global : GlobalRecord]

(* Who has a key, whether the icon is there or freed. *)
HaveKey(s, k) == {i \in Icon : KeyOfIcon(s.icon, i) = k}

Chosen(s) == /\ s.global.selection = {i \in Icon : s.icon[i].selected}
             /\ s.global.primary => s.global.selection # {}
Grouped(s) == \A i, j \in s.global.selection : BoardOf[i] = BoardOf[j]
Indexed(s) == \A p \in Path : s.global.hash[p] = {i \in Icon : s.icon[i].state # "none" /\ s.icon[i].path = p}
Keyed(s) == /\ s.global.shortcuts = {i \in Icon : KeyOfIcon(s.icon, i) # NoKey}
            /\ \A k \in Key : s.global.count[k] = Cardinality(HaveKey(s, k)) /\ (k \in s.global.grabbed => HaveKey(s, k) # {})
Pointed(s) == s.global.at # NoIcon => s.icon[s.global.at].state # "none"
Empty(s) == \A i \in Icon : /\ s.icon[i].state = "none" => s.icon[i] = Absent
                            /\ s.icon[i].state # "none" => s.icon[i].path \in Path
Good(s) == s \in IconState /\ Chosen(s) /\ Grouped(s) /\ Indexed(s) /\ Keyed(s) /\ Pointed(s) /\ Empty(s)

(* What a file says of an icon is the same. *)
SavedAlike(e, f) == e.state = f.state /\ e.path = f.path /\ e.shortcut = f.shortcut /\ e.locked = f.locked
AllAlike(s, u) == \A i \in Icon : SavedAlike(u.icon[i], s.icon[i])

LEMMA PartsOf ==
    ASSUME NEW s \in IconState
    PROVE  /\ s.icon \in [Icon -> IconRecord] /\ s.global \in GlobalRecord
           /\ s.global.selection \in SUBSET Icon /\ s.global.primary \in BOOLEAN /\ s.global.refused \in BOOLEAN
           /\ s.global.popup \in {"none", "drag", "menu"} /\ s.global.at \in Icon \cup {NoIcon} /\ s.global.tmp \in BOOLEAN
           /\ s.global.hash \in [Path -> SUBSET Icon] /\ s.global.shortcuts \in SUBSET Icon
           /\ s.global.count \in [Key -> Int] /\ s.global.grabbed \in SUBSET Key
BY DEF IconState, GlobalRecord

LEMMA IconIs ==
    ASSUME NEW s \in IconState, NEW i \in Icon
    PROVE  /\ s.icon[i] \in IconRecord /\ s.icon[i].state \in {"none", "live", "freed"}
           /\ s.icon[i].path \in Path \cup {"none"} /\ s.icon[i].shortcut \in Labels
           /\ s.icon[i].locked \in BOOLEAN /\ s.icon[i].selected \in BOOLEAN /\ s.icon[i].dialog \in BOOLEAN
BY PartsOf DEF IconRecord

LEMMA AbsentIs == /\ Absent \in IconRecord /\ Absent.state = "none" /\ Absent.shortcut = NoShortcut
                  /\ ~Absent.selected /\ ~Absent.locked /\ ~Absent.dialog
BY DEF Absent, IconRecord, Labels

(* An icon that differs in what is selected, or in its box, alone. *)
LEMMA SelectedOnly ==
    ASSUME NEW s, Good(s), NEW u \in IconState, AllAlike(s, u), Chosen(u), Grouped(u),
           \A i \in Icon : u.icon[i].state = "none" => ~u.icon[i].selected /\ ~u.icon[i].dialog,
           u.global.hash = s.global.hash, u.global.shortcuts = s.global.shortcuts, u.global.count = s.global.count,
           u.global.grabbed = s.global.grabbed, u.global.at = s.global.at \/ u.global.at = NoIcon \/ u.icon[u.global.at].state # "none"
    PROVE  Good(u)
<1>1. Indexed(u)
  BY DEF Good, Indexed, AllAlike, SavedAlike
<1>2. \A i \in Icon : KeyOfIcon(u.icon, i) = KeyOfIcon(s.icon, i)
  BY DEF KeyOfIcon, AllAlike, SavedAlike
<1>3. \A k : HaveKey(u, k) = HaveKey(s, k)
  BY <1>2 DEF HaveKey
<1>4. Keyed(u)
  BY <1>2, <1>3 DEF Good, Keyed
<1>5. Pointed(u)
  <2>1. s.global.at \in Icon \cup {NoIcon}
    BY PartsOf DEF Good
  <2> QED BY <2>1 DEF Good, Pointed, AllAlike, SavedAlike
<1>6. Empty(u)
  <2>1. ASSUME NEW i \in Icon PROVE /\ u.icon[i].state = "none" => u.icon[i] = Absent
                                    /\ u.icon[i].state # "none" => u.icon[i].path \in Path
    <3>1. SavedAlike(u.icon[i], s.icon[i]) /\ u.icon[i] \in IconRecord /\ s.icon[i] \in IconRecord
      BY IconIs DEF AllAlike, Good
    <3>2. /\ s.icon[i].state = "none" => s.icon[i] = Absent
          /\ s.icon[i].state # "none" => s.icon[i].path \in Path
      BY DEF Good, Empty
    <3>3. CASE u.icon[i].state = "none"
      <4>1. ~u.icon[i].selected /\ ~u.icon[i].dialog
        BY <3>3
      <4>2. /\ u.icon[i].path = "none" /\ u.icon[i].shortcut = NoShortcut /\ ~u.icon[i].locked
        BY <3>1, <3>2, <3>3 DEF SavedAlike, Absent
      <4>3. PICK e \in IconRecord : e = u.icon[i]
        BY <3>1
      <4>4. e = [state |-> e.state, path |-> e.path, shortcut |-> e.shortcut, locked |-> e.locked,
                 selected |-> e.selected, dialog |-> e.dialog]
        BY DEF IconRecord
      <4>5. e.locked = FALSE /\ e.selected = FALSE /\ e.dialog = FALSE
        BY <4>1, <4>2, <4>3 DEF IconRecord
      <4> QED BY <3>3, <4>2, <4>3, <4>4, <4>5 DEF Absent
    <3> QED BY <3>1, <3>2, <3>3 DEF SavedAlike
  <2> QED BY <2>1 DEF Empty
<1> QED BY <1>1, <1>4, <1>5, <1>6 DEF Good

(* What icon_set_selected_int does: it does not see to the group. *)
SelectedIs(s, i, selected, u) ==
    /\ u \in IconState /\ Chosen(u)
    /\ u.icon[i] = [s.icon[i] EXCEPT !.selected = selected] /\ \A j \in Icon \ {i} : u.icon[j] = s.icon[j]
    /\ u.global.selection = IF selected THEN s.global.selection \cup {i} ELSE s.global.selection \ {i}
    /\ u.global.hash = s.global.hash /\ u.global.shortcuts = s.global.shortcuts /\ u.global.count = s.global.count
    /\ u.global.grabbed = s.global.grabbed /\ u.global.at = s.global.at

LEMMA SetSelectedIntIs ==
    ASSUME NEW s \in IconState, Chosen(s), NEW i \in Icon, NEW selected \in BOOLEAN, NEW u, u = SetSelectedInt(s, i, selected)
    PROVE  SelectedIs(s, i, selected, u)
<1>1. s.icon \in [Icon -> IconRecord] /\ s.icon[i] \in IconRecord /\ s.global \in GlobalRecord
  BY PartsOf
<1>2. CASE s.icon[i].selected = selected
  <2>1. u = s
    BY <1>2 DEF SetSelectedInt
  <2>2. [s.icon[i] EXCEPT !.selected = selected] = s.icon[i]
    BY <1>1, <1>2 DEF IconRecord
  <2>3. s.global.selection = IF selected THEN s.global.selection \cup {i} ELSE s.global.selection \ {i}
    <3>1. CASE selected
      BY <1>2, <3>1 DEF Chosen
    <3>2. CASE ~selected
      BY <1>2, <3>2 DEF Chosen
    <3> QED BY <3>1, <3>2
  <2> QED BY <2>1, <2>2, <2>3 DEF SelectedIs
<1>3. CASE s.icon[i].selected # selected
  <2>1. PICK sel : sel = IF selected THEN s.global.selection \cup {i} ELSE s.global.selection \ {i}
    OBVIOUS
  <2>2. sel \in SUBSET Icon
    BY <2>1, PartsOf
  <2>3. PICK e : e = [s.icon[i] EXCEPT !.selected = selected]
    OBVIOUS
  <2>4. e \in IconRecord /\ e.selected = selected
    BY <1>1, <2>3 DEF IconRecord
  <2>5. PICK ic : ic = [s.icon EXCEPT ![i] = e]
    OBVIOUS
  <2>6. ic \in [Icon -> IconRecord] /\ ic[i] = e /\ \A j \in Icon \ {i} : ic[j] = s.icon[j]
    BY <1>1, <2>4, <2>5
  <2>7. PICK primary \in BOOLEAN : primary = IF selected THEN s.global.primary \/ ~s.global.refused
                                              ELSE s.global.primary /\ sel # {}
    <3>1. (s.global.primary \/ ~s.global.refused) \in BOOLEAN /\ (s.global.primary /\ sel # {}) \in BOOLEAN
      BY Zenon
    <3> QED BY <3>1, Zenon
  <2>8. PICK g : g = [s.global EXCEPT !.selection = sel, !.primary = primary]
    OBVIOUS
  <2>9. /\ g \in GlobalRecord /\ g.selection = sel /\ g.primary = primary
        /\ g.hash = s.global.hash /\ g.shortcuts = s.global.shortcuts /\ g.count = s.global.count
        /\ g.grabbed = s.global.grabbed /\ g.at = s.global.at
    BY <1>1, <2>2, <2>8 DEF GlobalRecord
  <2>10. u = [icon |-> ic, global |-> g]
    <3>1. u = [icon |-> [s.icon EXCEPT ![i].selected = selected],
               global |-> [s.global EXCEPT !.selection = sel,
                  !.primary = IF selected THEN @ \/ ~s.global.refused ELSE @ /\ sel # {}]]
      BY <1>3, <2>1 DEF SetSelectedInt
    <3> QED BY <2>3, <2>5, <2>7, <2>8, <3>1
  <2>11. u.icon = ic /\ u.global = g /\ u \in IconState
    BY <2>6, <2>9, <2>10 DEF IconState
  <2>12. sel = {j \in Icon : ic[j].selected}
    <3>1. CASE selected
      BY <2>1, <2>4, <2>6, <3>1 DEF Chosen
    <3>2. CASE ~selected
      BY <2>1, <2>4, <2>6, <3>2 DEF Chosen
    <3> QED BY <3>1, <3>2
  <2>13. primary => sel # {}
    <3>1. CASE selected
      BY <2>1, <3>1
    <3>2. CASE ~selected
      BY <2>7, <3>2
    <3> QED BY <3>1, <3>2
  <2>14. Chosen(u)
    BY <2>9, <2>11, <2>12, <2>13 DEF Chosen
  <2> QED BY <2>1, <2>3, <2>6, <2>9, <2>11, <2>14 DEF SelectedIs
<1> QED BY <1>2, <1>3

LEMMA UnselectAllIs ==
    ASSUME NEW s \in IconState, Chosen(s), NEW S \in SUBSET Icon, NEW u, u = UnselectAll(s, S)
    PROVE  /\ u \in IconState /\ Chosen(u) /\ AllAlike(s, u)
           /\ u.global.selection = s.global.selection \ S
           /\ \A i \in Icon : u.icon[i].dialog = s.icon[i].dialog /\ (u.icon[i].selected => s.icon[i].selected)
           /\ u.global.hash = s.global.hash /\ u.global.shortcuts = s.global.shortcuts /\ u.global.count = s.global.count
           /\ u.global.grabbed = s.global.grabbed /\ u.global.at = s.global.at
<1>1. PICK ic : ic = [i \in Icon |-> IF i \in S THEN [s.icon[i] EXCEPT !.selected = FALSE] ELSE s.icon[i]]
  OBVIOUS
<1>2. ASSUME NEW i \in Icon
      PROVE  /\ ic[i] \in IconRecord /\ SavedAlike(ic[i], s.icon[i]) /\ ic[i].dialog = s.icon[i].dialog
             /\ ic[i].selected = (s.icon[i].selected /\ i \notin S)
  <2>1. s.icon[i] \in IconRecord /\ s.icon[i].selected \in BOOLEAN
    BY IconIs
  <2>2. CASE i \in S
    <3>1. ic[i] = [s.icon[i] EXCEPT !.selected = FALSE]
      BY <1>1, <2>2
    <3>2. ic[i] \in IconRecord /\ SavedAlike(ic[i], s.icon[i]) /\ ic[i].dialog = s.icon[i].dialog /\ ic[i].selected = FALSE
      BY <2>1, <3>1 DEF IconRecord, SavedAlike
    <3> QED BY <2>2, <3>2
  <2>3. CASE i \notin S
    <3>1. ic[i] = s.icon[i]
      BY <1>1, <2>3
    <3> QED BY <2>1, <2>3, <3>1 DEF SavedAlike
  <2> QED BY <2>2, <2>3
<1>3. PICK sel \in SUBSET Icon : sel = s.global.selection \ S
  BY PartsOf
<1>4. PICK primary \in BOOLEAN : primary = (s.global.primary /\ sel # {})
  <2>1. (s.global.primary /\ sel # {}) \in BOOLEAN
    BY Zenon
  <2> QED BY <2>1, Zenon
<1>5. PICK g : g = [s.global EXCEPT !.selection = sel, !.primary = primary]
  OBVIOUS
<1>6. /\ g \in GlobalRecord /\ g.selection = sel /\ g.primary = primary
      /\ g.hash = s.global.hash /\ g.shortcuts = s.global.shortcuts /\ g.count = s.global.count
      /\ g.grabbed = s.global.grabbed /\ g.at = s.global.at
  <2>1. s.global \in GlobalRecord
    BY PartsOf
  <2> QED BY <1>5, <2>1 DEF GlobalRecord
<1>7. u = [icon |-> ic, global |-> g]
  <2>1. u = [icon |-> ic, global |-> [s.global EXCEPT !.selection = @ \ S, !.primary = @ /\ s.global.selection \ S # {}]]
    BY <1>1 DEF UnselectAll
  <2> QED BY <1>3, <1>4, <1>5, <2>1
<1>8. ic \in [Icon -> IconRecord]
  BY <1>1, <1>2
<1>9. u.icon = ic /\ u.global = g /\ u \in IconState
  BY <1>6, <1>7, <1>8 DEF IconState
<1>10. sel = {i \in Icon : ic[i].selected}
  BY <1>2, <1>3 DEF Chosen
<1>11. Chosen(u)
  <2>1. primary => sel # {}
    BY <1>4
  <2> QED BY <1>6, <1>9, <1>10, <2>1 DEF Chosen
<1>12. AllAlike(s, u)
  BY <1>2, <1>9 DEF AllAlike
<1> QED BY <1>2, <1>3, <1>6, <1>9, <1>11, <1>12

LEMMA UnselectGood ==
    ASSUME NEW s, Good(s), NEW S \in SUBSET Icon, NEW u, u = UnselectAll(s, S)
    PROVE  /\ Good(u) /\ AllAlike(s, u) /\ u.global.at = s.global.at
           /\ u.global.selection = s.global.selection \ S
<1>1. s \in IconState /\ Chosen(s) /\ Grouped(s)
  BY DEF Good
<1>2. /\ u \in IconState /\ Chosen(u) /\ AllAlike(s, u)
      /\ u.global.selection = s.global.selection \ S
      /\ \A i \in Icon : u.icon[i].dialog = s.icon[i].dialog /\ (u.icon[i].selected => s.icon[i].selected)
      /\ u.global.hash = s.global.hash /\ u.global.shortcuts = s.global.shortcuts /\ u.global.count = s.global.count
      /\ u.global.grabbed = s.global.grabbed /\ u.global.at = s.global.at
  BY <1>1, UnselectAllIs
<1>3. Grouped(u)
  BY <1>1, <1>2 DEF Grouped
<1>4. \A i \in Icon : u.icon[i].state = "none" => ~u.icon[i].selected /\ ~u.icon[i].dialog
  BY <1>2, AbsentIs DEF Good, Empty, AllAlike, SavedAlike
<1>5. Good(u)
  BY <1>2, <1>3, <1>4, SelectedOnly
<1> QED BY <1>2, <1>5

(* icon_select_only leaves one icon selected, whatever was. *)
LEMMA SelectOnlyGood ==
    ASSUME NEW s, Good(s), NEW i \in Icon, s.icon[i].state # "none", NEW u, u = SelectOnlyIcon(s, i)
    PROVE  Good(u) /\ AllAlike(s, u) /\ u.global.at = s.global.at
<1>1. s \in IconState /\ Chosen(s)
  BY DEF Good
<1>2. PICK selected \in BOOLEAN : selected = TRUE
  OBVIOUS
<1>3. PICK d : d = SetSelectedInt(s, i, selected)
  OBVIOUS
<1>14. SelectedIs(s, i, selected, d)
  BY <1>1, <1>3, SetSelectedIntIs
<1>4. /\ d \in IconState /\ Chosen(d)
      /\ d.icon[i] = [s.icon[i] EXCEPT !.selected = TRUE] /\ \A j \in Icon \ {i} : d.icon[j] = s.icon[j]
      /\ d.global.selection = s.global.selection \cup {i}
      /\ d.global.hash = s.global.hash /\ d.global.shortcuts = s.global.shortcuts /\ d.global.count = s.global.count
      /\ d.global.grabbed = s.global.grabbed /\ d.global.at = s.global.at
  BY <1>2, <1>14 DEF SelectedIs
<1>5. PICK S \in SUBSET Icon : S = d.global.selection \ {i}
  BY <1>4, PartsOf
<1>6. u = UnselectAll(d, S)
  BY <1>2, <1>3, <1>5 DEF SelectOnlyIcon
<1>7. /\ u \in IconState /\ Chosen(u) /\ AllAlike(d, u)
      /\ u.global.selection = d.global.selection \ S
      /\ \A j \in Icon : u.icon[j].dialog = d.icon[j].dialog /\ (u.icon[j].selected => d.icon[j].selected)
      /\ u.global.hash = d.global.hash /\ u.global.shortcuts = d.global.shortcuts /\ u.global.count = d.global.count
      /\ u.global.grabbed = d.global.grabbed /\ u.global.at = d.global.at
  BY <1>4, <1>6, UnselectAllIs
<1>8. u.global.selection \subseteq {i}
  BY <1>5, <1>7
<1>9. Grouped(u)
  BY <1>8 DEF Grouped
<1>10. AllAlike(s, d)
  <2>1. SavedAlike(d.icon[i], s.icon[i])
    <3>1. s.icon[i] \in IconRecord
      BY <1>1, IconIs
    <3> QED BY <1>4, <3>1 DEF SavedAlike, IconRecord
  <2> QED BY <1>4, <2>1 DEF AllAlike, SavedAlike
<1>11. AllAlike(s, u)
  BY <1>7, <1>10 DEF AllAlike, SavedAlike
<1>12. \A j \in Icon : u.icon[j].state = "none" => ~u.icon[j].selected /\ ~u.icon[j].dialog
  <2>1. ASSUME NEW j \in Icon, u.icon[j].state = "none" PROVE ~u.icon[j].selected /\ ~u.icon[j].dialog
    <3>1. s.icon[j].state = "none" /\ j # i
      BY <1>11, <2>1 DEF AllAlike, SavedAlike
    <3>2. s.icon[j] = Absent
      BY <3>1 DEF Good, Empty
    <3> QED BY <1>4, <1>7, <3>1, <3>2, AbsentIs
  <2> QED BY <2>1
<1>13. Good(u)
  BY <1>4, <1>7, <1>9, <1>11, <1>12, SelectedOnly
<1> QED BY <1>4, <1>7, <1>11, <1>13

(* icon_set_selected keeps the selection on one board. *)
LEMMA SetIconSelectedGood ==
    ASSUME NEW s, Good(s), NEW i \in Icon, s.icon[i].state # "none", NEW selected \in BOOLEAN,
           NEW u, u = SetIconSelected(s, i, selected)
    PROVE  Good(u) /\ AllAlike(s, u) /\ u.global.at = s.global.at
<1>1. s \in IconState /\ Chosen(s) /\ Grouped(s)
  BY DEF Good
<1>2. CASE selected /\ \E j \in s.global.selection : BoardOf[j] # BoardOf[i]
  <2>1. u = SelectOnlyIcon(s, i)
    BY <1>2 DEF SetIconSelected
  <2> QED BY <2>1, SelectOnlyGood
<1>3. CASE ~(selected /\ \E j \in s.global.selection : BoardOf[j] # BoardOf[i])
  <2>1. u = SetSelectedInt(s, i, selected)
    BY <1>3 DEF SetIconSelected
  <2>8. SelectedIs(s, i, selected, u)
    BY <1>1, <2>1, SetSelectedIntIs
  <2>2. /\ u \in IconState /\ Chosen(u)
        /\ u.icon[i] = [s.icon[i] EXCEPT !.selected = selected] /\ \A j \in Icon \ {i} : u.icon[j] = s.icon[j]
        /\ u.global.selection = IF selected THEN s.global.selection \cup {i} ELSE s.global.selection \ {i}
        /\ u.global.hash = s.global.hash /\ u.global.shortcuts = s.global.shortcuts /\ u.global.count = s.global.count
        /\ u.global.grabbed = s.global.grabbed /\ u.global.at = s.global.at
    BY <2>8 DEF SelectedIs
  <2>3. Grouped(u)
    BY <1>1, <1>3, <2>2 DEF Grouped
  <2>4. SavedAlike(u.icon[i], s.icon[i])
    <3>1. s.icon[i] \in IconRecord
      BY <1>1, IconIs
    <3> QED BY <2>2, <3>1 DEF SavedAlike, IconRecord
  <2>5. AllAlike(s, u)
    BY <2>2, <2>4 DEF AllAlike, SavedAlike
  <2>6. \A j \in Icon : u.icon[j].state = "none" => ~u.icon[j].selected /\ ~u.icon[j].dialog
    <3>1. ASSUME NEW j \in Icon, u.icon[j].state = "none" PROVE ~u.icon[j].selected /\ ~u.icon[j].dialog
      <4>1. s.icon[j].state = "none" /\ j # i
        BY <2>5, <3>1 DEF AllAlike, SavedAlike
      <4>2. s.icon[j] = Absent
        BY <4>1 DEF Good, Empty
      <4> QED BY <2>2, <4>1, <4>2, AbsentIs
    <3> QED BY <3>1
  <2>7. Good(u)
    BY <2>2, <2>3, <2>5, <2>6, SelectedOnly
  <2> QED BY <2>2, <2>5, <2>7
<1> QED BY <1>2, <1>3

--------------------
(* Shortcut keys: everyone but the icon whose key is being changed. *)
KeyedBut(s, i) ==
    /\ s.global.shortcuts = {j \in Icon \ {i} : KeyOfIcon(s.icon, j) # NoKey}
    /\ \A k \in Key : /\ s.global.count[k] = Cardinality(HaveKey(s, k) \ {i})
                      /\ k \in s.global.grabbed => HaveKey(s, k) \ {i} # {}

RestAlike(s, u) ==
    /\ u.global.selection = s.global.selection /\ u.global.primary = s.global.primary
    /\ u.global.hash = s.global.hash /\ u.global.at = s.global.at

LEMMA KeyIs ==
    ASSUME NEW s \in IconState, NEW i \in Icon
    PROVE  KeyOfIcon(s.icon, i) \in Key \cup {NoKey}
<1>1. s.icon[i].shortcut \in Labels
  BY IconIs
<1>2. CASE s.icon[i].shortcut = NoShortcut
  BY <1>2 DEF KeyOfIcon
<1>3. CASE s.icon[i].shortcut # NoShortcut
  BY <1>1, <1>3 DEF KeyOfIcon, Key, Labels
<1> QED BY <1>2, <1>3

LEMMA HaveKeyIs ==
    ASSUME NEW s, NEW k, NEW i \in Icon
    PROVE  /\ IsFiniteSet(HaveKey(s, k)) /\ Cardinality(HaveKey(s, k)) \in Nat
           /\ i \in HaveKey(s, k) => Cardinality(HaveKey(s, k)) = Cardinality(HaveKey(s, k) \ {i}) + 1
           /\ IsFiniteSet(HaveKey(s, k) \ {i}) /\ Cardinality(HaveKey(s, k) \ {i}) \in Nat
           /\ Cardinality(HaveKey(s, k) \ {i}) > 0 => HaveKey(s, k) \ {i} # {}
           /\ i \in HaveKey(s, k) <=> KeyOfIcon(s.icon, i) = k
<1>1. IsFiniteSet(Icon)
  BY IconAssumption, Zenon
<1>2. HaveKey(s, k) \subseteq Icon /\ HaveKey(s, k) \ {i} \subseteq Icon
  BY DEF HaveKey
<1>3. IsFiniteSet(HaveKey(s, k)) /\ IsFiniteSet(HaveKey(s, k) \ {i})
  BY <1>1, <1>2, FS_Subset
<1>4. Cardinality(HaveKey(s, k)) \in Nat /\ Cardinality(HaveKey(s, k) \ {i}) \in Nat
  BY <1>3, FS_CardinalityType
<1>5. ASSUME i \in HaveKey(s, k) PROVE Cardinality(HaveKey(s, k)) = Cardinality(HaveKey(s, k) \ {i}) + 1
  <2>1. Cardinality(HaveKey(s, k) \ {i}) = Cardinality(HaveKey(s, k)) - 1
    BY <1>3, <1>5, FS_RemoveElement
  <2> QED BY <1>4, <2>1
<1>6. Cardinality(HaveKey(s, k) \ {i}) > 0 => HaveKey(s, k) \ {i} # {}
  BY FS_EmptySet
<1>7. i \in HaveKey(s, k) <=> KeyOfIcon(s.icon, i) = k
  BY DEF HaveKey
<1> QED BY <1>3, <1>4, <1>5, <1>6, <1>7

KeysAre(s, names, count, grabbed, u) ==
    /\ u \in IconState /\ u.icon = s.icon /\ RestAlike(s, u)
    /\ u.global.shortcuts = names /\ u.global.count = count /\ u.global.grabbed = grabbed

(* Changing the keys alone. *)
LEMMA KeysChange ==
    ASSUME NEW s \in IconState, NEW names \in SUBSET Icon, NEW count \in [Key -> Int], NEW grabbed \in SUBSET Key,
           NEW u, u = [icon |-> s.icon, global |-> [s.global EXCEPT !.shortcuts = names, !.count = count, !.grabbed = grabbed]]
    PROVE  KeysAre(s, names, count, grabbed, u)
<1>1. s.icon \in [Icon -> IconRecord] /\ s.global \in GlobalRecord
  BY PartsOf
<1>2. PICK g : g = [s.global EXCEPT !.shortcuts = names, !.count = count, !.grabbed = grabbed]
  OBVIOUS
<1>3. /\ g \in GlobalRecord /\ g.shortcuts = names /\ g.count = count /\ g.grabbed = grabbed
      /\ g.selection = s.global.selection /\ g.primary = s.global.primary /\ g.hash = s.global.hash /\ g.at = s.global.at
  BY <1>1, <1>2 DEF GlobalRecord
<1>4. u = [icon |-> s.icon, global |-> g]
  BY <1>2
<1>5. u.icon = s.icon /\ u.global = g
  BY <1>4
<1>6. u \in IconState
  BY <1>1, <1>3, <1>4 DEF IconState
<1> QED BY <1>3, <1>5, <1>6 DEF RestAlike, KeysAre

LEMMA WholeState ==
    ASSUME NEW s \in IconState
    PROVE  s = [icon |-> s.icon, global |-> s.global]
BY DEF IconState

LEMMA GlobalsBecome ==
    ASSUME NEW s \in IconState, NEW g
    PROVE  [s EXCEPT !.global = g] = [icon |-> s.icon, global |-> g]
<1>1. PICK a, h : s = [icon |-> a, global |-> h]
  BY WholeState
<1> QED BY <1>1

(* ungrab_key: the icon is out of the tables. *)
LEMMA UngrabIs ==
    ASSUME NEW s \in IconState, Keyed(s), NEW i \in Icon, NEW u, u = UngrabKey(s, i)
    PROVE  u \in IconState /\ u.icon = s.icon /\ RestAlike(s, u) /\ KeyedBut(u, i)
<1>1. PICK k \in Key \cup {NoKey} : k = KeyOfIcon(s.icon, i)
  BY KeyIs
<1>2. NoKey \notin Key
  BY DEF Key
<1>3. CASE k = NoKey
  <2>1. u = s
    BY <1>1, <1>3 DEF UngrabKey
  <2>2. s.global.shortcuts = {j \in Icon \ {i} : KeyOfIcon(s.icon, j) # NoKey}
    BY <1>1, <1>3 DEF Keyed
  <2>3. ASSUME NEW h \in Key
        PROVE  s.global.count[h] = Cardinality(HaveKey(s, h) \ {i}) /\ (h \in s.global.grabbed => HaveKey(s, h) \ {i} # {})
    <3>1. i \notin HaveKey(s, h)
      BY <1>1, <1>2, <1>3, HaveKeyIs
    <3>2. HaveKey(s, h) \ {i} = HaveKey(s, h)
      BY <3>1
    <3> QED BY <3>2 DEF Keyed
  <2> QED BY <2>1, <2>2, <2>3 DEF KeyedBut, RestAlike
<1>4. CASE k # NoKey
  <2>1. k \in Key /\ s.global.count \in [Key -> Int] /\ s.global.grabbed \in SUBSET Key /\ s.global.shortcuts \in SUBSET Icon
    BY <1>4, PartsOf
  <2>2. PICK n \in Int : n = s.global.count[k] - 1
    BY <2>1
  <2>3. PICK count : count = [s.global.count EXCEPT ![k] = n]
    OBVIOUS
  <2>4. count \in [Key -> Int] /\ count[k] = n /\ \A h \in Key \ {k} : count[h] = s.global.count[h]
    BY <2>1, <2>2, <2>3
  <2>5. PICK grabbed \in SUBSET Key : grabbed = IF n > 0 THEN s.global.grabbed ELSE s.global.grabbed \ {k}
    BY <2>1
  <2>6. PICK names \in SUBSET Icon : names = s.global.shortcuts \ {i}
    BY <2>1
  <2>7. u = [icon |-> s.icon, global |-> [s.global EXCEPT !.shortcuts = names, !.count = count, !.grabbed = grabbed]]
    <3>1. u = [s EXCEPT !.global.shortcuts = @ \ {i}, !.global.count[k] = n,
                        !.global.grabbed = IF n > 0 THEN @ ELSE @ \ {k}]
      BY <1>1, <1>4, <2>2 DEF UngrabKey
    <3>2. PICK g : g = [s.global EXCEPT !.shortcuts = names, !.count = count, !.grabbed = grabbed]
      OBVIOUS
    <3>3. PICK h : h = [s.global EXCEPT !.shortcuts = @ \ {i}, !.count[k] = n,
                        !.grabbed = IF n > 0 THEN @ ELSE @ \ {k}]
      OBVIOUS
    <3>4. [s EXCEPT !.global.shortcuts = @ \ {i}, !.global.count[k] = n,
                        !.global.grabbed = IF n > 0 THEN @ ELSE @ \ {k}] = [s EXCEPT !.global = h]
      BY <3>3
    <3>5. h = g
      <4>1. s.global \in GlobalRecord
        BY PartsOf
      <4> QED BY <2>2, <2>3, <2>5, <2>6, <3>2, <3>3, <4>1 DEF GlobalRecord
    <3> QED BY <3>1, <3>2, <3>4, <3>5, GlobalsBecome
  <2>8. /\ u \in IconState /\ u.icon = s.icon /\ RestAlike(s, u)
        /\ u.global.shortcuts = names /\ u.global.count = count /\ u.global.grabbed = grabbed
    <3>1. KeysAre(s, names, count, grabbed, u)
      BY <2>4, <2>7, KeysChange
    <3> QED BY <3>1 DEF KeysAre
  <2>9. \A h : HaveKey(u, h) = HaveKey(s, h)
    BY <2>8 DEF HaveKey
  <2>10. ASSUME NEW h \in Key
         PROVE  count[h] = Cardinality(HaveKey(s, h) \ {i}) /\ (h \in grabbed => HaveKey(s, h) \ {i} # {})
    <3>1. CASE h = k
      <4>1. s.global.count[k] = Cardinality(HaveKey(s, k) \ {i}) + 1
        <5>1. s.global.count[k] = Cardinality(HaveKey(s, k))
          BY <2>1 DEF Keyed
        <5>2. i \in HaveKey(s, k)
          BY <1>1, HaveKeyIs
        <5>3. Cardinality(HaveKey(s, k) \ {i}) = Cardinality(HaveKey(s, k)) - 1 /\ Cardinality(HaveKey(s, k)) \in Nat
          BY <5>2, HaveKeyIs
        <5> QED BY <5>1, <5>3
      <4>2. n = Cardinality(HaveKey(s, k) \ {i})
        BY <2>2, <4>1, HaveKeyIs
      <4>3. n > 0 => HaveKey(s, k) \ {i} # {}
        BY <4>2, HaveKeyIs
      <4>4. k \in grabbed => n > 0
        BY <2>5
      <4> QED BY <2>4, <3>1, <4>2, <4>3, <4>4
    <3>2. CASE h # k
      <4>1. i \notin HaveKey(s, h)
        BY <1>1, <3>2, HaveKeyIs
      <4>2. HaveKey(s, h) \ {i} = HaveKey(s, h)
        BY <4>1
      <4>3. h \in grabbed => h \in s.global.grabbed
        BY <2>5
      <4> QED BY <2>4, <3>2, <4>2, <4>3 DEF Keyed
    <3> QED BY <3>1, <3>2
  <2>11. names = {j \in Icon \ {i} : KeyOfIcon(s.icon, j) # NoKey}
    BY <2>6 DEF Keyed
  <2>12. KeyedBut(u, i)
    BY <2>8, <2>9, <2>10, <2>11 DEF KeyedBut
  <2> QED BY <2>8, <2>12
<1> QED BY <1>3, <1>4

(* grab_key: it is in them, under the key it has now. *)
LEMMA GrabIs ==
    ASSUME NEW s \in IconState, NEW i \in Icon, KeyedBut(s, i), NEW u, u = GrabKey(s, i)
    PROVE  u \in IconState /\ u.icon = s.icon /\ RestAlike(s, u) /\ Keyed(u)
<1>1. PICK k \in Key \cup {NoKey} : k = KeyOfIcon(s.icon, i)
  BY KeyIs
<1>2. NoKey \notin Key
  BY DEF Key
<1>3. CASE k = NoKey
  <2>1. u = s
    BY <1>1, <1>3 DEF GrabKey
  <2>2. s.global.shortcuts = {j \in Icon : KeyOfIcon(s.icon, j) # NoKey}
    BY <1>1, <1>3 DEF KeyedBut
  <2>3. ASSUME NEW h \in Key
        PROVE  s.global.count[h] = Cardinality(HaveKey(s, h)) /\ (h \in s.global.grabbed => HaveKey(s, h) # {})
    <3>1. i \notin HaveKey(s, h)
      BY <1>1, <1>2, <1>3, HaveKeyIs
    <3>2. HaveKey(s, h) \ {i} = HaveKey(s, h)
      BY <3>1
    <3> QED BY <3>2 DEF KeyedBut
  <2> QED BY <2>1, <2>2, <2>3 DEF Keyed, RestAlike
<1>4. CASE k # NoKey
  <2>1. k \in Key /\ s.global.count \in [Key -> Int] /\ s.global.grabbed \in SUBSET Key /\ s.global.shortcuts \in SUBSET Icon
    BY <1>4, PartsOf
  <2>2. PICK n \in Int : n = s.global.count[k] + 1
    BY <2>1
  <2>3. PICK count : count = [s.global.count EXCEPT ![k] = n]
    OBVIOUS
  <2>4. count \in [Key -> Int] /\ count[k] = n /\ \A h \in Key \ {k} : count[h] = s.global.count[h]
    BY <2>1, <2>2, <2>3
  <2>5. PICK grabbed \in SUBSET Key : grabbed = IF s.global.count[k] > 0 \/ s.global.refused THEN s.global.grabbed
                                                ELSE s.global.grabbed \cup {k}
    BY <2>1
  <2>6. PICK names \in SUBSET Icon : names = s.global.shortcuts \cup {i}
    BY <2>1
  <2>7. u = [icon |-> s.icon, global |-> [s.global EXCEPT !.shortcuts = names, !.count = count, !.grabbed = grabbed]]
    <3>1. u = [s EXCEPT !.global.shortcuts = @ \cup {i}, !.global.count[k] = @ + 1,
                        !.global.grabbed = IF s.global.count[k] > 0 \/ s.global.refused THEN @ ELSE @ \cup {k}]
      BY <1>1, <1>4 DEF GrabKey
    <3>2. PICK g : g = [s.global EXCEPT !.shortcuts = names, !.count = count, !.grabbed = grabbed]
      OBVIOUS
    <3>3. PICK h : h = [s.global EXCEPT !.shortcuts = @ \cup {i}, !.count[k] = @ + 1,
                        !.grabbed = IF s.global.count[k] > 0 \/ s.global.refused THEN @ ELSE @ \cup {k}]
      OBVIOUS
    <3>4. [s EXCEPT !.global.shortcuts = @ \cup {i}, !.global.count[k] = @ + 1,
                        !.global.grabbed = IF s.global.count[k] > 0 \/ s.global.refused THEN @ ELSE @ \cup {k}] = [s EXCEPT !.global = h]
      BY <3>3
    <3>5. h = g
      <4>1. s.global \in GlobalRecord
        BY PartsOf
      <4> QED BY <2>2, <2>3, <2>5, <2>6, <3>2, <3>3, <4>1 DEF GlobalRecord
    <3> QED BY <3>1, <3>2, <3>4, <3>5, GlobalsBecome
  <2>8. /\ u \in IconState /\ u.icon = s.icon /\ RestAlike(s, u)
        /\ u.global.shortcuts = names /\ u.global.count = count /\ u.global.grabbed = grabbed
    <3>1. KeysAre(s, names, count, grabbed, u)
      BY <2>4, <2>7, KeysChange
    <3> QED BY <3>1 DEF KeysAre
  <2>9. \A h : HaveKey(u, h) = HaveKey(s, h)
    BY <2>8 DEF HaveKey
  <2>10. ASSUME NEW h \in Key
         PROVE  count[h] = Cardinality(HaveKey(s, h)) /\ (h \in grabbed => HaveKey(s, h) # {})
    <3>1. CASE h = k
      <4>1. i \in HaveKey(s, k)
        BY <1>1, HaveKeyIs
      <4>2. Cardinality(HaveKey(s, k)) = Cardinality(HaveKey(s, k) \ {i}) + 1
        BY <4>1, HaveKeyIs
      <4>3. n = Cardinality(HaveKey(s, k))
        BY <2>1, <2>2, <4>2 DEF KeyedBut
      <4> QED BY <2>4, <3>1, <4>1, <4>3
    <3>2. CASE h # k
      <4>1. i \notin HaveKey(s, h)
        BY <1>1, <3>2, HaveKeyIs
      <4>2. HaveKey(s, h) \ {i} = HaveKey(s, h)
        BY <4>1
      <4>3. h \in grabbed => h \in s.global.grabbed
        BY <2>5, <3>2
      <4> QED BY <2>4, <3>2, <4>2, <4>3 DEF KeyedBut
    <3> QED BY <3>1, <3>2
  <2>11. names = {j \in Icon : KeyOfIcon(s.icon, j) # NoKey}
    BY <1>1, <1>4, <2>6 DEF KeyedBut
  <2>12. Keyed(u)
    BY <2>8, <2>9, <2>10, <2>11 DEF Keyed
  <2> QED BY <2>8, <2>12
<1> QED BY <1>3, <1>4

--------------------
(* One icon changes. *)
OneChanged(s, i, e, u) ==
    u \in IconState /\ u.icon[i] = e /\ \A j \in Icon \ {i} : u.icon[j] = s.icon[j]

LEMMA IconBecomes ==
    ASSUME NEW s \in IconState, NEW i \in Icon, NEW e \in IconRecord, NEW u, u = [s EXCEPT !.icon[i] = e]
    PROVE  OneChanged(s, i, e, u) /\ u.global = s.global
<1>1. PICK a, g : s = [icon |-> a, global |-> g]
  BY WholeState
<1>2. a \in [Icon -> IconRecord] /\ g \in GlobalRecord
  BY <1>1, PartsOf
<1>3. PICK b : b = [s.icon EXCEPT ![i] = e]
  OBVIOUS
<1>4. u = [s EXCEPT !.icon = b]
  BY <1>3
<1>5. u = [icon |-> b, global |-> g]
  BY <1>1, <1>4
<1>6. b \in [Icon -> IconRecord] /\ b[i] = e /\ \A j \in Icon \ {i} : b[j] = s.icon[j]
  BY <1>1, <1>2, <1>3
<1>7. u \in IconState
  BY <1>2, <1>5, <1>6 DEF IconState
<1> QED BY <1>1, <1>5, <1>6, <1>7 DEF OneChanged

ShortcutIs(s, i, label, u) ==
    OneChanged(s, i, [s.icon[i] EXCEPT !.shortcut = label], u) /\ RestAlike(s, u) /\ Keyed(u)

(* icon_set_shortcut *)
LEMMA SetShortcutIs ==
    ASSUME NEW s \in IconState, Keyed(s), NEW i \in Icon, NEW label \in Labels, NEW u, u = SetShortcut(s, i, label)
    PROVE  ShortcutIs(s, i, label, u)
<1>1. s.icon[i] \in IconRecord
  BY IconIs
<1>2. CASE s.icon[i].shortcut = label
  <2>1. u = s
    BY <1>2 DEF SetShortcut
  <2>2. [s.icon[i] EXCEPT !.shortcut = label] = s.icon[i]
    BY <1>1, <1>2 DEF IconRecord
  <2> QED BY <2>1, <2>2 DEF ShortcutIs, OneChanged, RestAlike
<1>3. CASE s.icon[i].shortcut # label
  <2>1. PICK v : v = UngrabKey(s, i)
    OBVIOUS
  <2>2. v \in IconState /\ v.icon = s.icon /\ RestAlike(s, v) /\ KeyedBut(v, i)
    BY <2>1, UngrabIs
  <2>3. PICK e : e = [s.icon[i] EXCEPT !.shortcut = label]
    OBVIOUS
  <2>4. e \in IconRecord
    BY <1>1, <2>3 DEF IconRecord
  <2>5. PICK w : w = [v EXCEPT !.icon[i] = e]
    OBVIOUS
  <2>6. OneChanged(v, i, e, w) /\ w.global = v.global
    BY <2>2, <2>4, <2>5, IconBecomes
  <2>7. u = GrabKey(w, i)
    <3>1. [v EXCEPT !.icon[i].shortcut = label] = w
      BY <2>2, <2>3, <2>5
    <3> QED BY <1>3, <2>1, <3>1 DEF SetShortcut
  <2>8. w \in IconState /\ RestAlike(s, w) /\ w.icon[i] = e /\ \A j \in Icon \ {i} : w.icon[j] = s.icon[j]
    BY <2>2, <2>6 DEF OneChanged, RestAlike
  <2>9. KeyedBut(w, i)
    <3>1. \A j \in Icon \ {i} : KeyOfIcon(w.icon, j) = KeyOfIcon(v.icon, j)
      BY <2>2, <2>8 DEF KeyOfIcon
    <3>2. \A k : HaveKey(w, k) \ {i} = HaveKey(v, k) \ {i}
      BY <3>1 DEF HaveKey
    <3> QED BY <2>2, <2>6, <3>1, <3>2 DEF KeyedBut
  <2>10. u \in IconState /\ u.icon = w.icon /\ RestAlike(w, u) /\ Keyed(u)
    BY <2>7, <2>8, <2>9, GrabIs
  <2> QED BY <2>3, <2>8, <2>10 DEF ShortcutIs, OneChanged, RestAlike
<1> QED BY <1>2, <1>3

IndexedBut(s, i) ==
    \A p \in Path : s.global.hash[p] \ {i} = {j \in Icon \ {i} : s.icon[j].state # "none" /\ s.icon[j].path = p}

KeysAlike(s, u) ==
    /\ u.global.shortcuts = s.global.shortcuts /\ u.global.count = s.global.count /\ u.global.grabbed = s.global.grabbed

PathIs(s, i, p, u) ==
    /\ OneChanged(s, i, [s.icon[i] EXCEPT !.path = p], u) /\ KeysAlike(s, u) /\ Indexed(u)
    /\ u.global.selection = s.global.selection /\ u.global.primary = s.global.primary /\ u.global.at = s.global.at

(* icon_set_path *)
LEMMA SetPathIs ==
    ASSUME NEW s \in IconState, NEW i \in Icon, s.icon[i].state # "none", IndexedBut(s, i), NEW p \in Path,
           NEW u, u = SetPath(s, i, p)
    PROVE  PathIs(s, i, p, u)
<1>1. s.icon \in [Icon -> IconRecord] /\ s.icon[i] \in IconRecord /\ s.global \in GlobalRecord /\ s.global.hash \in [Path -> SUBSET Icon]
  BY PartsOf
<1>2. PICK e : e = [s.icon[i] EXCEPT !.path = p]
  OBVIOUS
<1>3. e \in IconRecord /\ e.state # "none" /\ e.path = p
  BY <1>1, <1>2 DEF IconRecord
<1>4. PICK a : a = [s.icon EXCEPT ![i] = e]
  OBVIOUS
<1>5. a \in [Icon -> IconRecord] /\ a[i] = e /\ \A j \in Icon \ {i} : a[j] = s.icon[j]
  BY <1>1, <1>3, <1>4
<1>6. PICK hash : hash = [q \in Path |-> IF q = p THEN s.global.hash[q] \cup {i} ELSE s.global.hash[q] \ {i}]
  OBVIOUS
<1>7. hash \in [Path -> SUBSET Icon]
  BY <1>1, <1>6
<1>8. PICK g : g = [s.global EXCEPT !.hash = hash]
  OBVIOUS
<1>9. /\ g \in GlobalRecord /\ g.hash = hash /\ g.selection = s.global.selection /\ g.primary = s.global.primary
      /\ g.at = s.global.at /\ g.shortcuts = s.global.shortcuts /\ g.count = s.global.count /\ g.grabbed = s.global.grabbed
  BY <1>1, <1>7, <1>8 DEF GlobalRecord
<1>10. u = [icon |-> a, global |-> g]
  <2>1. u = [icon |-> [s.icon EXCEPT ![i].path = p],
             global |-> [s.global EXCEPT !.hash = [q \in Path |-> IF q = p THEN @[q] \cup {i} ELSE @[q] \ {i}]]]
    BY DEF SetPath
  <2>2. [s.icon EXCEPT ![i].path = p] = a
    BY <1>2, <1>4
  <2>3. [s.global EXCEPT !.hash = [q \in Path |-> IF q = p THEN @[q] \cup {i} ELSE @[q] \ {i}]] = g
    BY <1>6, <1>8
  <2> QED BY <2>1, <2>2, <2>3
<1>11. u.icon = a /\ u.global = g
  BY <1>10
<1>12. u \in IconState
  BY <1>5, <1>9, <1>10 DEF IconState
<1>13. ASSUME NEW q \in Path PROVE hash[q] = {j \in Icon : a[j].state # "none" /\ a[j].path = q}
  <2>1. s.global.hash[q] \ {i} = {j \in Icon \ {i} : a[j].state # "none" /\ a[j].path = q}
    BY <1>5 DEF IndexedBut
  <2>2. hash[q] = IF q = p THEN s.global.hash[q] \cup {i} ELSE s.global.hash[q] \ {i}
    BY <1>6
  <2>3. CASE q = p
    BY <1>3, <1>5, <2>1, <2>2, <2>3
  <2>4. CASE q # p
    BY <1>3, <1>5, <2>1, <2>2, <2>4
  <2> QED BY <2>3, <2>4
<1>14. Indexed(u)
  BY <1>9, <1>11, <1>13 DEF Indexed
<1> QED BY <1>2, <1>5, <1>9, <1>11, <1>12, <1>14 DEF PathIs, OneChanged, KeysAlike

(* An icon that is there after one icon of a good state changed. *)
LEMMA ChangedGood ==
    ASSUME NEW s, Good(s), NEW i \in Icon, NEW e, NEW u, OneChanged(s, i, e, u),
           e.state # "none", e.path \in Path, e.selected = s.icon[i].selected,
           u.global.selection = s.global.selection, u.global.primary = s.global.primary, u.global.at = s.global.at,
           Indexed(u), Keyed(u)
    PROVE  Good(u)
<1>1. u \in IconState /\ u.icon[i] = e /\ \A j \in Icon \ {i} : u.icon[j] = s.icon[j]
  BY DEF OneChanged
<1>2. s \in IconState /\ Chosen(s) /\ Grouped(s) /\ Pointed(s) /\ Empty(s)
  BY DEF Good
<1>3. Chosen(u)
  BY <1>1, <1>2 DEF Chosen
<1>4. Grouped(u)
  BY <1>2 DEF Grouped
<1>5. Pointed(u)
  <2>1. s.global.at \in Icon \cup {NoIcon}
    BY <1>2, PartsOf
  <2> QED BY <1>1, <1>2, <2>1 DEF Pointed
<1>6. Empty(u)
  BY <1>1, <1>2 DEF Empty
<1> QED BY <1>1, <1>3, <1>4, <1>5, <1>6 DEF Good

LEMMA SetPathGood ==
    ASSUME NEW s, Good(s), NEW i \in Icon, s.icon[i].state # "none", NEW p \in Path, NEW u, u = SetPath(s, i, p)
    PROVE  Good(u) /\ OneChanged(s, i, [s.icon[i] EXCEPT !.path = p], u)
<1>1. s \in IconState /\ Indexed(s) /\ Keyed(s)
  BY DEF Good
<1>2. IndexedBut(s, i)
  BY <1>1 DEF Indexed, IndexedBut
<1>3. PathIs(s, i, p, u)
  BY <1>1, <1>2, SetPathIs
<1>4. PICK e : e = [s.icon[i] EXCEPT !.path = p]
  OBVIOUS
<1>5. s.icon[i] \in IconRecord
  BY <1>1, IconIs
<1>6. e.state = s.icon[i].state /\ e.path = p /\ e.selected = s.icon[i].selected /\ e.shortcut = s.icon[i].shortcut
  BY <1>4, <1>5 DEF IconRecord
<1>7. /\ OneChanged(s, i, e, u) /\ Indexed(u) /\ KeysAlike(s, u)
      /\ u.global.selection = s.global.selection /\ u.global.primary = s.global.primary /\ u.global.at = s.global.at
  BY <1>3, <1>4 DEF PathIs
<1>8. Keyed(u)
  <2>1. \A j \in Icon : KeyOfIcon(u.icon, j) = KeyOfIcon(s.icon, j)
    BY <1>6, <1>7 DEF KeyOfIcon, OneChanged
  <2>2. \A k : HaveKey(u, k) = HaveKey(s, k)
    BY <2>1 DEF HaveKey
  <2> QED BY <1>1, <1>7, <2>1, <2>2 DEF Keyed, KeysAlike
<1>9. Good(u)
  BY <1>6, <1>7, <1>8, ChangedGood
<1> QED BY <1>4, <1>7, <1>9

LEMMA SetShortcutGood ==
    ASSUME NEW s, Good(s), NEW i \in Icon, s.icon[i].state # "none", NEW label \in Labels, NEW u, u = SetShortcut(s, i, label)
    PROVE  Good(u) /\ OneChanged(s, i, [s.icon[i] EXCEPT !.shortcut = label], u)
<1>1. s \in IconState /\ Indexed(s) /\ Keyed(s) /\ Empty(s)
  BY DEF Good
<1>2. ShortcutIs(s, i, label, u)
  BY <1>1, SetShortcutIs
<1>3. PICK e : e = [s.icon[i] EXCEPT !.shortcut = label]
  OBVIOUS
<1>4. s.icon[i] \in IconRecord
  BY <1>1, IconIs
<1>5. e.state = s.icon[i].state /\ e.path = s.icon[i].path /\ e.selected = s.icon[i].selected
  BY <1>3, <1>4 DEF IconRecord
<1>6. OneChanged(s, i, e, u) /\ RestAlike(s, u) /\ Keyed(u)
  BY <1>2, <1>3 DEF ShortcutIs
<1>7. Indexed(u)
  <2>1. \A j \in Icon : u.icon[j].state = s.icon[j].state /\ u.icon[j].path = s.icon[j].path
    BY <1>5, <1>6 DEF OneChanged
  <2> QED BY <1>1, <1>6, <2>1 DEF Indexed, RestAlike
<1>8. e.path \in Path
  BY <1>1, <1>5 DEF Empty
<1>9. u.global.selection = s.global.selection /\ u.global.primary = s.global.primary /\ u.global.at = s.global.at
  BY <1>6 DEF RestAlike
<1>10. Good(u)
  BY <1>5, <1>6, <1>7, <1>8, <1>9, ChangedGood
<1> QED BY <1>3, <1>6, <1>10

(* The edit box, the lock, and an Icon whose memory is freed. *)
LEMMA EditGood ==
    ASSUME NEW s, Good(s), NEW i \in Icon, s.icon[i].state # "none", NEW e \in IconRecord, e.state # "none",
           e.path = s.icon[i].path, e.shortcut = s.icon[i].shortcut, e.selected = s.icon[i].selected,
           NEW u, u = [s EXCEPT !.icon[i] = e]
    PROVE  Good(u) /\ OneChanged(s, i, e, u) /\ u.global = s.global
<1>1. s \in IconState /\ Indexed(s) /\ Keyed(s) /\ Empty(s)
  BY DEF Good
<1>2. OneChanged(s, i, e, u) /\ u.global = s.global
  BY <1>1, IconBecomes
<1>3. Indexed(u)
  BY <1>1, <1>2 DEF Indexed, OneChanged
<1>4. Keyed(u)
  <2>1. \A j \in Icon : KeyOfIcon(u.icon, j) = KeyOfIcon(s.icon, j)
    BY <1>2 DEF KeyOfIcon, OneChanged
  <2>2. \A k : HaveKey(u, k) = HaveKey(s, k)
    BY <2>1 DEF HaveKey
  <2> QED BY <1>1, <1>2, <2>1, <2>2 DEF Keyed
<1>5. e.path \in Path
  BY <1>1 DEF Empty
<1>6. Good(u)
  BY <1>2, <1>3, <1>4, <1>5, ChangedGood
<1> QED BY <1>2, <1>6

(* icon_finialize: an icon is gone, or freed with all that refers to it. *)
FinalizeIs(s, i, u) ==
    /\ Good(u) /\ \A j \in Icon \ {i} : u.icon[j] = s.icon[j]
    /\ u.icon[i] = Absent \/ u.icon[i].state = "freed"

LEMMA FinalizeGood ==
    ASSUME NEW s, Good(s), NEW i \in Icon, NEW u, u = Finalize(s, i)
    PROVE  FinalizeIs(s, i, u)
<1>1. s \in IconState /\ Chosen(s) /\ Grouped(s) /\ Indexed(s) /\ Keyed(s) /\ Pointed(s) /\ Empty(s)
  BY DEF Good
<1>2. s.icon[i] \in IconRecord /\ s.global \in GlobalRecord /\ s.icon \in [Icon -> IconRecord]
  BY <1>1, PartsOf
<1>3. CASE s.icon[i].selected
  <2>1. s.icon[i].state # "none"
    BY <1>1, <1>3, AbsentIs DEF Empty
  <2>2. PICK e : e = [s.icon[i] EXCEPT !.state = "freed"]
    OBVIOUS
  <2>3. /\ e \in IconRecord /\ e.state = "freed" /\ e.path = s.icon[i].path /\ e.shortcut = s.icon[i].shortcut
        /\ e.selected = s.icon[i].selected
    BY <1>2, <2>2 DEF IconRecord
  <2>4. u = [s EXCEPT !.icon[i] = e]
    <3>1. u = [s EXCEPT !.icon[i].state = "freed"]
      BY <1>3 DEF Finalize
    <3> QED BY <2>2, <3>1
  <2>5. Good(u) /\ OneChanged(s, i, e, u) /\ u.global = s.global
    BY <2>1, <2>3, <2>4, EditGood
  <2> QED BY <2>3, <2>5 DEF FinalizeIs, OneChanged
<1>4. CASE ~s.icon[i].selected
  <2>1. PICK at \in Icon \cup {NoIcon} : at = IF s.global.at = i THEN NoIcon ELSE s.global.at
    BY <1>1, PartsOf
  <2>2. PICK hash : hash = [q \in Path |-> s.global.hash[q] \ {i}]
    OBVIOUS
  <2>3. hash \in [Path -> SUBSET Icon]
    BY <1>1, <2>2, PartsOf
  <2>4. PICK g : g = [s.global EXCEPT !.at = at, !.hash = hash]
    OBVIOUS
  <2>5. /\ g \in GlobalRecord /\ g.at = at /\ g.hash = hash /\ g.selection = s.global.selection /\ g.primary = s.global.primary
        /\ g.shortcuts = s.global.shortcuts /\ g.count = s.global.count /\ g.grabbed = s.global.grabbed
    BY <1>2, <2>1, <2>3, <2>4 DEF GlobalRecord
  <2>6. PICK d : d = [s EXCEPT !.global = g]
    OBVIOUS
  <2>7. d = [icon |-> s.icon, global |-> g]
    BY <1>1, <2>6, GlobalsBecome
  <2>8. d \in IconState /\ d.icon = s.icon /\ d.global = g
    BY <1>2, <2>5, <2>7 DEF IconState
  <2>9. Keyed(d)
    <3>1. \A k : HaveKey(d, k) = HaveKey(s, k)
      BY <2>8 DEF HaveKey
    <3> QED BY <1>1, <2>5, <2>8, <3>1 DEF Keyed
  <2>10. PICK e : e = SetShortcut(d, i, NoShortcut)
    OBVIOUS
  <2>11. ShortcutIs(d, i, NoShortcut, e)
    <3>1. NoShortcut \in Labels
      BY DEF Labels
    <3> QED BY <2>8, <2>9, <2>10, <3>1, SetShortcutIs
  <2>12. /\ e \in IconState /\ e.icon[i] = [s.icon[i] EXCEPT !.shortcut = NoShortcut]
         /\ \A j \in Icon \ {i} : e.icon[j] = s.icon[j]
    BY <2>8, <2>11 DEF ShortcutIs, OneChanged
  <2>13. /\ Keyed(e) /\ e.global.selection = s.global.selection /\ e.global.primary = s.global.primary
         /\ e.global.hash = hash /\ e.global.at = at
    BY <2>5, <2>8, <2>11 DEF ShortcutIs, RestAlike
  <2>14. e.icon[i].shortcut = NoShortcut
    BY <1>2, <2>12 DEF IconRecord
  <2>15. u = [e EXCEPT !.icon[i] = Absent]
    <3>1. [s EXCEPT !.global.at = IF @ = i THEN NoIcon ELSE @, !.global.hash = [q \in Path |-> @[q] \ {i}]] = d
      <4>1. PICK h : h = [s.global EXCEPT !.at = IF @ = i THEN NoIcon ELSE @, !.hash = [q \in Path |-> @[q] \ {i}]]
        OBVIOUS
      <4>2. [s EXCEPT !.global.at = IF @ = i THEN NoIcon ELSE @, !.global.hash = [q \in Path |-> @[q] \ {i}]]
              = [s EXCEPT !.global = h]
        BY <4>1
      <4>3. h = g
        BY <2>1, <2>2, <2>4, <4>1
      <4> QED BY <2>6, <4>2, <4>3
    <3> QED BY <1>4, <2>10, <3>1 DEF Finalize
  <2>16. OneChanged(e, i, Absent, u) /\ u.global = e.global
    BY <2>12, <2>15, AbsentIs, IconBecomes
  <2>17. u \in IconState /\ u.icon[i] = Absent /\ \A j \in Icon \ {i} : u.icon[j] = s.icon[j]
    BY <2>12, <2>16 DEF OneChanged
  <2>18. Chosen(u)
    BY <1>1, <1>4, <2>13, <2>16, <2>17, AbsentIs DEF Chosen
  <2>19. Grouped(u)
    BY <1>1, <2>13, <2>16 DEF Grouped
  <2>20. Indexed(u)
    <3>1. ASSUME NEW p \in Path
          PROVE  u.global.hash[p] = {j \in Icon : u.icon[j].state # "none" /\ u.icon[j].path = p}
      <4>1. u.global.hash[p] = s.global.hash[p] \ {i}
        BY <2>2, <2>13, <2>16
      <4>2. s.global.hash[p] = {j \in Icon : s.icon[j].state # "none" /\ s.icon[j].path = p}
        BY <1>1 DEF Indexed
      <4> QED BY <2>17, <4>1, <4>2, AbsentIs
    <3> QED BY <3>1 DEF Indexed
  <2>21. Keyed(u)
    <3>1. \A j \in Icon : KeyOfIcon(u.icon, j) = KeyOfIcon(e.icon, j)
      BY <2>14, <2>16, AbsentIs DEF KeyOfIcon, OneChanged
    <3>2. \A k : HaveKey(u, k) = HaveKey(e, k)
      BY <3>1 DEF HaveKey
    <3> QED BY <2>13, <2>16, <3>1, <3>2 DEF Keyed
  <2>22. Pointed(u)
    BY <1>1, <2>1, <2>13, <2>16, <2>17 DEF Pointed
  <2>23. Empty(u)
    BY <1>1, <2>17, AbsentIs DEF Empty
  <2> QED BY <2>17, <2>18, <2>19, <2>20, <2>21, <2>22, <2>23 DEF FinalizeIs, Good
<1> QED BY <1>2, <1>3, <1>4 DEF IconRecord

(* What a file says of an icon. *)
Said == [path : Path, shortcut : Labels, locked : BOOLEAN]
ShownAs(e, d) == e.state = "live" /\ e.path = d.path /\ e.shortcut = d.shortcut /\ e.locked = d.locked

NewIconIs(s, i, d, u) ==
    Good(u) /\ (\A j \in Icon \ {i} : u.icon[j] = s.icon[j]) /\ ShownAs(u.icon[i], d)

LEMMA NewIconGood ==
    ASSUME NEW s, Good(s), NEW i \in Icon, s.icon[i].state = "none", NEW d \in Said, NEW u, u = NewIcon(s, i, d)
    PROVE  NewIconIs(s, i, d, u)
<1>1. s \in IconState /\ Chosen(s) /\ Grouped(s) /\ Indexed(s) /\ Keyed(s) /\ Pointed(s) /\ Empty(s)
  BY DEF Good
<1>2. s.icon[i] = Absent
  BY <1>1 DEF Empty
<1>3. d.path \in Path /\ d.shortcut \in Labels /\ d.locked \in BOOLEAN
  BY DEF Said
<1>4. PICK a : a = [Absent EXCEPT !.state = "live"]
  OBVIOUS
<1>5. a \in IconRecord /\ a.state = "live" /\ a.shortcut = NoShortcut /\ ~a.selected /\ ~a.locked
  BY <1>4, AbsentIs DEF IconRecord
<1>6. PICK t : t = [s EXCEPT !.icon[i] = a]
  OBVIOUS
<1>7. OneChanged(s, i, a, t) /\ t.global = s.global
  BY <1>1, <1>5, <1>6, IconBecomes
<1>8. t \in IconState /\ t.icon[i] = a /\ \A j \in Icon \ {i} : t.icon[j] = s.icon[j]
  BY <1>7 DEF OneChanged
<1>9. IndexedBut(t, i)
  BY <1>1, <1>7, <1>8 DEF Indexed, IndexedBut
<1>10. PICK v : v = SetPath(t, i, d.path)
  OBVIOUS
<1>11. PathIs(t, i, d.path, v)
  BY <1>3, <1>5, <1>8, <1>9, <1>10, SetPathIs
<1>12. PICK b : b = [a EXCEPT !.path = d.path]
  OBVIOUS
<1>13. /\ b \in IconRecord /\ b.state = "live" /\ b.path = d.path /\ b.shortcut = NoShortcut /\ ~b.selected
  BY <1>3, <1>5, <1>12 DEF IconRecord
<1>14. OneChanged(s, i, b, v)
  BY <1>8, <1>11, <1>12 DEF PathIs, OneChanged
<1>15. /\ Indexed(v) /\ KeysAlike(s, v) /\ v.global.selection = s.global.selection
       /\ v.global.primary = s.global.primary /\ v.global.at = s.global.at
  BY <1>7, <1>11 DEF PathIs, KeysAlike
<1>16. Keyed(v)
  <2>1. \A j \in Icon : KeyOfIcon(v.icon, j) = KeyOfIcon(s.icon, j)
    BY <1>2, <1>13, <1>14, AbsentIs DEF KeyOfIcon, OneChanged
  <2>2. \A k : HaveKey(v, k) = HaveKey(s, k)
    BY <2>1 DEF HaveKey
  <2> QED BY <1>1, <1>15, <2>1, <2>2 DEF Keyed, KeysAlike
<1>17. b.selected = s.icon[i].selected
  <2>1. b.selected \in BOOLEAN /\ s.icon[i].selected \in BOOLEAN /\ ~s.icon[i].selected
    BY <1>1, <1>2, <1>13, AbsentIs, IconIs DEF IconRecord
  <2> QED BY <1>13, <2>1
<1>18. Good(v)
  <2>1. b.state # "none" /\ b.path \in Path
    BY <1>3, <1>13
  <2> QED BY <1>14, <1>15, <1>16, <1>17, <2>1, ChangedGood
<1>19. v.icon[i] = b /\ \A j \in Icon \ {i} : v.icon[j] = s.icon[j]
  BY <1>14 DEF OneChanged
<1>20. PICK w : w = SetShortcut(v, i, d.shortcut)
  OBVIOUS
<1>21. Good(w) /\ OneChanged(v, i, [v.icon[i] EXCEPT !.shortcut = d.shortcut], w)
  BY <1>3, <1>13, <1>18, <1>19, <1>20, SetShortcutGood
<1>22. PICK c : c = [b EXCEPT !.shortcut = d.shortcut]
  OBVIOUS
<1>23. c \in IconRecord /\ c.state = "live" /\ c.path = d.path /\ c.shortcut = d.shortcut
  BY <1>3, <1>13, <1>22 DEF IconRecord
<1>24. w.icon[i] = c /\ \A j \in Icon \ {i} : w.icon[j] = s.icon[j]
  BY <1>19, <1>21, <1>22 DEF OneChanged
<1>25. PICK f : f = [c EXCEPT !.locked = d.locked]
  OBVIOUS
<1>26. /\ f \in IconRecord /\ f.state = "live" /\ f.path = d.path /\ f.shortcut = d.shortcut /\ f.locked = d.locked
       /\ f.selected = c.selected
  BY <1>3, <1>23, <1>25 DEF IconRecord
<1>27. u = [w EXCEPT !.icon[i] = f]
  <2>1. u = [w EXCEPT !.icon[i].locked = d.locked]
    BY <1>4, <1>6, <1>10, <1>20 DEF NewIcon
  <2> QED BY <1>24, <1>25, <2>1
<1>28. Good(u) /\ OneChanged(w, i, f, u)
  BY <1>21, <1>23, <1>24, <1>26, <1>27, EditGood
<1> QED BY <1>24, <1>26, <1>28 DEF NewIconIs, ShownAs, OneChanged

--------------------
(* A handler that goes through icons: each step is a function of states. *)
GoodStates == {v \in IconState : Good(v)}

FinalizeWay(s, S, each) ==
    each = [T \in SUBSET S |-> IF T = {} THEN s ELSE Finalize(each[T \ {Pick(T)}], Pick(T))]

LEMMA FinalizeAllEach ==
    ASSUME NEW s, Good(s), NEW S \in SUBSET Icon
    PROVE  \E each : FinalizeWay(s, S, each) /\ FinalizeAll(s, S) = each[S]
<1>1. IsFiniteSet(S)
  <2>1. IsFiniteSet(Icon)
    BY IconAssumption, Zenon
  <2> QED BY <2>1, FS_Subset
<1>2. s \in GoodStates
  BY DEF GoodStates, Good
<1>3. PICK next : next = [i \in S |-> [v \in GoodStates |-> Finalize(v, i)]]
  OBVIOUS
<1>4. next \in [S -> [GoodStates -> GoodStates]]
  <2>1. ASSUME NEW i \in S, NEW v \in GoodStates PROVE Finalize(v, i) \in GoodStates
    <3>1. Good(v)
      BY DEF GoodStates
    <3>2. FinalizeIs(v, i, Finalize(v, i))
      BY <3>1, FinalizeGood
    <3> QED BY <3>2 DEF FinalizeIs, GoodStates, Good
  <2> QED BY <1>3, <2>1
<1>5. PICK g \in [SUBSET S -> GoodStates] : Way(S, s, next, g)
  BY <1>1, <1>2, <1>4, WayExists
<1>6. FinalizeWay(s, S, g)
  <2>1. ASSUME NEW T \in SUBSET S, T # {}
        PROVE  next[Pick(T)][g[T \ {Pick(T)}]] = Finalize(g[T \ {Pick(T)}], Pick(T))
    <3>1. Pick(T) \in S
      BY <2>1, Picked
    <3>2. g[T \ {Pick(T)}] \in GoodStates
      BY <1>5
    <3> QED BY <1>3, <3>1, <3>2
  <2>2. g = [T \in SUBSET S |-> IF T = {} THEN s ELSE Finalize(g[T \ {Pick(T)}], Pick(T))]
    BY <1>5, <2>1 DEF Way
  <2> QED BY <2>2 DEF FinalizeWay
<1>7. PICK each : each = CHOOSE f : FinalizeWay(s, S, f)
  OBVIOUS
<1>8. FinalizeWay(s, S, each)
  BY <1>6, <1>7
<1>9. FinalizeAll(s, S) = each[S]
  BY <1>7, Zenon DEF FinalizeAll, FinalizeWay, Pick
<1> QED BY <1>8, <1>9

FinalizedAll(s, T, u) ==
    /\ Good(u) /\ \A j \in Icon \ T : u.icon[j] = s.icon[j]
    /\ \A j \in T : u.icon[j] = Absent \/ u.icon[j].state = "freed"

(* The icons of a board that is taken down, or that are removed. *)
LEMMA FinalizeAllGood ==
    ASSUME NEW s, Good(s), NEW S \in SUBSET Icon, NEW u, u = FinalizeAll(s, S)
    PROVE  FinalizedAll(s, S, u)
<1>1. PICK each : FinalizeWay(s, S, each) /\ FinalizeAll(s, S) = each[S]
  BY FinalizeAllEach
<1>2. \A T \in SUBSET S : each[T] = IF T = {} THEN s ELSE Finalize(each[T \ {Pick(T)}], Pick(T))
  BY <1>1 DEF FinalizeWay
<1>3. PICK Q \in SUBSET (SUBSET S) : Q = {T \in SUBSET S : FinalizedAll(s, T, each[T])}
  OBVIOUS
<1>4. {} \in Q
  <2>1. each[{}] = s
    BY <1>2
  <2>2. FinalizedAll(s, {}, s)
    BY DEF FinalizedAll
  <2> QED BY <1>3, <2>1, <2>2
<1>5. ASSUME NEW T \in SUBSET S, T # {}, T \ {Pick(T)} \in Q PROVE T \in Q
  <2>1. PICK i \in T : i = Pick(T)
    BY <1>5, Picked
  <2>2. PICK v : v = each[T \ {i}]
    OBVIOUS
  <2>3. FinalizedAll(s, T \ {i}, v)
    BY <1>3, <1>5, <2>1, <2>2
  <2>4. each[T] = Finalize(v, i)
    BY <1>2, <1>5, <2>1, <2>2
  <2>5. FinalizeIs(v, i, each[T])
    BY <2>3, <2>4, FinalizeGood DEF FinalizedAll
  <2>6. FinalizedAll(s, T, each[T])
    BY <2>3, <2>5 DEF FinalizedAll, FinalizeIs
  <2> QED BY <1>3, <2>6
<1>6. IsFiniteSet(S)
  <2>1. IsFiniteSet(Icon)
    BY IconAssumption, Zenon
  <2> QED BY <2>1, FS_Subset
<1>7. S \in Q
  BY <1>4, <1>5, <1>6, EachOf
<1> QED BY <1>1, <1>3, <1>7

Load(v, i, file) == IF v.icon[i].state = "none" THEN NewIcon(v, i, file[i]) ELSE v
LoadWay(s, file, each) ==
    each = [T \in SUBSET DOMAIN file |-> IF T = {} THEN s ELSE Load(each[T \ {Pick(T)}], Pick(T), file)]

LEMMA LoadAllEach ==
    ASSUME NEW s, Good(s), NEW S \in SUBSET Icon, NEW file \in [S -> Said]
    PROVE  \E each : LoadWay(s, file, each) /\ LoadAll(s, file) = each[S]
<1>1. IsFiniteSet(S)
  <2>1. IsFiniteSet(Icon)
    BY IconAssumption, Zenon
  <2> QED BY <2>1, FS_Subset
<1>2. s \in GoodStates
  BY DEF GoodStates, Good
<1>3. PICK next : next = [i \in S |-> [v \in GoodStates |-> Load(v, i, file)]]
  OBVIOUS
<1>4. next \in [S -> [GoodStates -> GoodStates]]
  <2>1. ASSUME NEW i \in S, NEW v \in GoodStates PROVE Load(v, i, file) \in GoodStates
    <3>1. Good(v) /\ file[i] \in Said /\ i \in Icon
      BY DEF GoodStates
    <3>2. CASE v.icon[i].state = "none"
      <4>1. NewIconIs(v, i, file[i], NewIcon(v, i, file[i]))
        BY <3>1, <3>2, NewIconGood
      <4> QED BY <3>2, <4>1 DEF Load, NewIconIs, GoodStates, Good
    <3>3. CASE v.icon[i].state # "none"
      BY <3>3 DEF Load
    <3> QED BY <3>2, <3>3
  <2> QED BY <1>3, <2>1
<1>5. PICK g \in [SUBSET S -> GoodStates] : Way(S, s, next, g)
  BY <1>1, <1>2, <1>4, WayExists
<1>6. LoadWay(s, file, g)
  <2>1. ASSUME NEW T \in SUBSET S, T # {}
        PROVE  next[Pick(T)][g[T \ {Pick(T)}]] = Load(g[T \ {Pick(T)}], Pick(T), file)
    <3>1. Pick(T) \in S
      BY <2>1, Picked
    <3>2. g[T \ {Pick(T)}] \in GoodStates
      BY <1>5
    <3> QED BY <1>3, <3>1, <3>2
  <2>2. g = [T \in SUBSET S |-> IF T = {} THEN s ELSE Load(g[T \ {Pick(T)}], Pick(T), file)]
    BY <1>5, <2>1 DEF Way
  <2> QED BY <2>2 DEF LoadWay
<1>7. PICK each : each = CHOOSE f : LoadWay(s, file, f)
  OBVIOUS
<1>8. LoadWay(s, file, each)
  BY <1>6, <1>7
<1>9. LoadAll(s, file) = each[DOMAIN file]
  BY <1>7, Zenon DEF LoadAll, LoadWay, Load, Pick
<1> QED BY <1>8, <1>9

LoadedAll(s, file, T, u) ==
    /\ Good(u)
    /\ \A j \in Icon : IF j \in T /\ s.icon[j].state = "none" THEN ShownAs(u.icon[j], file[j]) ELSE u.icon[j] = s.icon[j]

(* The icons of a file, when none of them is there yet. *)
LEMMA LoadAllGood ==
    ASSUME NEW s, Good(s), NEW S \in SUBSET Icon, NEW file \in [S -> Said], NEW u, u = LoadAll(s, file)
    PROVE  LoadedAll(s, file, S, u)
<1>1. PICK each : LoadWay(s, file, each) /\ LoadAll(s, file) = each[S]
  BY LoadAllEach
<1>2. \A T \in SUBSET S : each[T] = IF T = {} THEN s ELSE Load(each[T \ {Pick(T)}], Pick(T), file)
  BY <1>1 DEF LoadWay
<1>3. PICK Q \in SUBSET (SUBSET S) : Q = {T \in SUBSET S : LoadedAll(s, file, T, each[T])}
  OBVIOUS
<1>4. {} \in Q
  <2>1. each[{}] = s
    BY <1>2
  <2>2. LoadedAll(s, file, {}, s)
    BY DEF LoadedAll
  <2> QED BY <1>3, <2>1, <2>2
<1>5. ASSUME NEW T \in SUBSET S, T # {}, T \ {Pick(T)} \in Q PROVE T \in Q
  <2>1. PICK i \in T : i = Pick(T)
    BY <1>5, Picked
  <2>2. PICK v : v = each[T \ {i}]
    OBVIOUS
  <2>3. LoadedAll(s, file, T \ {i}, v)
    BY <1>3, <1>5, <2>1, <2>2
  <2>4. each[T] = Load(v, i, file)
    BY <1>2, <1>5, <2>1, <2>2
  <2>5. i \in Icon /\ file[i] \in Said /\ v.icon[i] = s.icon[i] /\ Good(v)
    BY <2>1, <2>3 DEF LoadedAll
  <2>6. LoadedAll(s, file, T, each[T])
    <3>1. CASE s.icon[i].state = "none"
      <4>1. NewIconIs(v, i, file[i], each[T])
        BY <2>4, <2>5, <3>1, NewIconGood DEF Load
      <4> QED BY <2>3, <3>1, <4>1 DEF LoadedAll, NewIconIs
    <3>2. CASE s.icon[i].state # "none"
      <4>1. each[T] = v
        BY <2>4, <2>5, <3>2 DEF Load
      <4> QED BY <2>3, <3>2, <4>1 DEF LoadedAll
    <3> QED BY <3>1, <3>2
  <2> QED BY <1>3, <2>6
<1>6. IsFiniteSet(S)
  <2>1. IsFiniteSet(Icon)
    BY IconAssumption, Zenon
  <2> QED BY <2>1, FS_Subset
<1>7. S \in Q
  BY <1>4, <1>5, <1>6, EachOf
<1> QED BY <1>1, <1>3, <1>7

(* select_lasso's loop. *)
Lasso(s, S) ==
    LET each[T \in SUBSET S] ==
          IF T = {} THEN s
          ELSE LET i == CHOOSE j \in T : TRUE IN SetIconSelected(each[T \ {i}], i, TRUE)
    IN each[S]
LassoWay(s, S, each) ==
    each = [T \in SUBSET S |-> IF T = {} THEN s ELSE SetIconSelected(each[T \ {Pick(T)}], Pick(T), TRUE)]
AlikeStates(s) == {v \in IconState : Good(v) /\ AllAlike(s, v)}

LEMMA LassoStep ==
    ASSUME NEW s, NEW i \in Icon, s.icon[i].state # "none", NEW v \in AlikeStates(s)
    PROVE  SetIconSelected(v, i, TRUE) \in AlikeStates(s)
<1>1. Good(v) /\ AllAlike(s, v)
  BY DEF AlikeStates
<1>2. v.icon[i].state # "none"
  BY <1>1 DEF AllAlike, SavedAlike
<1>3. PICK selected \in BOOLEAN : selected = TRUE
  OBVIOUS
<1>4. PICK u : u = SetIconSelected(v, i, selected)
  OBVIOUS
<1>5. Good(u) /\ AllAlike(v, u) /\ u.global.at = v.global.at
  BY <1>1, <1>2, <1>4, SetIconSelectedGood
<1>6. u \in AlikeStates(s)
  BY <1>1, <1>5 DEF AlikeStates, AllAlike, SavedAlike, Good
<1> QED BY <1>3, <1>4, <1>6

LEMMA LassoGood ==
    ASSUME NEW s, Good(s), NEW S \in SUBSET Icon, \A i \in S : s.icon[i].state # "none", NEW u, u = Lasso(s, S)
    PROVE  Good(u) /\ AllAlike(s, u)
<1>1. IsFiniteSet(S)
  <2>1. IsFiniteSet(Icon)
    BY IconAssumption, Zenon
  <2> QED BY <2>1, FS_Subset
<1>2. s \in AlikeStates(s)
  BY DEF AlikeStates, Good, AllAlike, SavedAlike
<1>3. PICK next : next = [i \in S |-> [v \in AlikeStates(s) |-> SetIconSelected(v, i, TRUE)]]
  OBVIOUS
<1>4. next \in [S -> [AlikeStates(s) -> AlikeStates(s)]]
  <2>1. ASSUME NEW i \in S, NEW v \in AlikeStates(s) PROVE SetIconSelected(v, i, TRUE) \in AlikeStates(s)
    BY LassoStep
  <2> QED BY <1>3, <2>1
<1>5. PICK g \in [SUBSET S -> AlikeStates(s)] : Way(S, s, next, g)
  BY <1>1, <1>2, <1>4, WayExists
<1>6. LassoWay(s, S, g)
  <2>1. ASSUME NEW T \in SUBSET S, T # {}
        PROVE  next[Pick(T)][g[T \ {Pick(T)}]] = SetIconSelected(g[T \ {Pick(T)}], Pick(T), TRUE)
    <3>1. Pick(T) \in S
      BY <2>1, Picked
    <3>2. g[T \ {Pick(T)}] \in AlikeStates(s)
      BY <1>5
    <3> QED BY <1>3, <3>1, <3>2
  <2>2. g = [T \in SUBSET S |-> IF T = {} THEN s ELSE SetIconSelected(g[T \ {Pick(T)}], Pick(T), TRUE)]
    BY <1>5, <2>1 DEF Way
  <2> QED BY <2>2 DEF LassoWay
<1>7. PICK each : each = CHOOSE f : LassoWay(s, S, f)
  OBVIOUS
<1>8. LassoWay(s, S, each)
  BY <1>6, <1>7
<1>9. Lasso(s, S) = each[S]
  BY <1>7, Zenon DEF Lasso, LassoWay, Pick
<1>10. \A T \in SUBSET S : each[T] = IF T = {} THEN s ELSE SetIconSelected(each[T \ {Pick(T)}], Pick(T), TRUE)
  BY <1>8 DEF LassoWay
<1>11. PICK Q \in SUBSET (SUBSET S) : Q = {T \in SUBSET S : each[T] \in AlikeStates(s)}
  OBVIOUS
<1>12. {} \in Q
  <2>1. each[{}] = s
    BY <1>10
  <2> QED BY <1>2, <1>11, <2>1
<1>13. ASSUME NEW T \in SUBSET S, T # {}, T \ {Pick(T)} \in Q PROVE T \in Q
  <2>1. PICK i \in T : i = Pick(T)
    BY <1>13, Picked
  <2>2. each[T \ {i}] \in AlikeStates(s)
    BY <1>11, <1>13, <2>1
  <2>3. each[T] = SetIconSelected(each[T \ {i}], i, TRUE)
    BY <1>10, <1>13, <2>1
  <2>4. each[T] \in AlikeStates(s)
    <3>1. i \in Icon /\ s.icon[i].state # "none"
      BY <2>1
    <3>2. PICK v \in AlikeStates(s) : v = each[T \ {i}]
      BY <2>2
    <3>3. SetIconSelected(v, i, TRUE) \in AlikeStates(s)
      BY <3>1, LassoStep
    <3> QED BY <2>3, <3>2, <3>3
  <2> QED BY <1>11, <2>4
<1>14. S \in Q
  BY <1>1, <1>12, <1>13, EachOf
<1> QED BY <1>9, <1>11, <1>14 DEF AlikeStates

--------------------
(* The globals change, and what they say of the icons does not. *)
LEMMA GlobalGood ==
    ASSUME NEW s, Good(s), NEW g \in GlobalRecord, KeysAlike(s, [s EXCEPT !.global = g]),
           g.selection = s.global.selection, g.primary => s.global.primary, g.hash = s.global.hash,
           g.at # NoIcon => s.icon[g.at].state # "none", NEW u, u = [s EXCEPT !.global = g]
    PROVE  Good(u) /\ u.icon = s.icon /\ u.global = g /\ AllAlike(s, u)
<1>1. s \in IconState /\ Chosen(s) /\ Grouped(s) /\ Indexed(s) /\ Keyed(s) /\ Pointed(s) /\ Empty(s)
  BY DEF Good
<1>2. u = [icon |-> s.icon, global |-> g]
  BY <1>1, GlobalsBecome
<1>3. u.icon = s.icon /\ u.global = g
  BY <1>2
<1>4. u \in IconState
  BY <1>1, <1>2, PartsOf DEF IconState
<1>5. Chosen(u)
  BY <1>1, <1>3 DEF Chosen
<1>6. Grouped(u)
  BY <1>1, <1>3 DEF Grouped
<1>7. Indexed(u)
  BY <1>1, <1>3 DEF Indexed
<1>8. Keyed(u)
  <2>1. \A k : HaveKey(u, k) = HaveKey(s, k)
    BY <1>3 DEF HaveKey
  <2> QED BY <1>1, <1>3, <2>1 DEF Keyed, KeysAlike
<1>9. Pointed(u)
  BY <1>3 DEF Pointed
<1>10. Empty(u)
  BY <1>1, <1>3 DEF Empty
<1> QED BY <1>3, <1>4, <1>5, <1>6, <1>7, <1>8, <1>9, <1>10 DEF Good, AllAlike, SavedAlike

SameIcons(s, u) == Good(u) /\ u.icon = s.icon /\ AllAlike(s, u)

(* ... the popup, what it is at, and whether its icon is to be unselected. *)
LEMMA PopupGood ==
    ASSUME NEW s, Good(s), NEW popup \in {"none", "drag", "menu"}, NEW at \in Icon \cup {NoIcon},
           at # NoIcon => s.icon[at].state # "none", NEW tmp \in BOOLEAN,
           NEW u, u = [s EXCEPT !.global = [s.global EXCEPT !.popup = popup, !.at = at, !.tmp = tmp]]
    PROVE  SameIcons(s, u)
<1>1. s.global \in GlobalRecord /\ s \in IconState
  BY PartsOf DEF Good
<1>2. PICK g : g = [s.global EXCEPT !.popup = popup, !.at = at, !.tmp = tmp]
  OBVIOUS
<1>3. /\ g \in GlobalRecord /\ g.selection = s.global.selection /\ g.primary = s.global.primary /\ g.hash = s.global.hash
      /\ g.at = at /\ g.shortcuts = s.global.shortcuts /\ g.count = s.global.count /\ g.grabbed = s.global.grabbed
  BY <1>1, <1>2 DEF GlobalRecord
<1>4. u = [s EXCEPT !.global = g]
  BY <1>2
<1>5. KeysAlike(s, [s EXCEPT !.global = g])
  BY <1>1, <1>3, GlobalsBecome DEF KeysAlike
<1>6. Good(u) /\ u.icon = s.icon /\ u.global = g /\ AllAlike(s, u)
  <2>1. /\ g.selection = s.global.selection /\ (g.primary => s.global.primary) /\ g.hash = s.global.hash
        /\ g.at # NoIcon => s.icon[g.at].state # "none"
    BY <1>3, Zenon
  <2> QED BY <1>3, <1>4, <1>5, <2>1, GlobalGood, Zenon
<1> QED BY <1>6 DEF SameIcons

(* ... and what the X server does: it takes PRIMARY, or refuses. *)
ServerIs(s, primary, refused, u) ==
    /\ Good(u) /\ u.icon = s.icon /\ AllAlike(s, u) /\ u.global.at = s.global.at
    /\ u.global = [s.global EXCEPT !.primary = primary, !.refused = refused]

LEMMA ServerGood ==
    ASSUME NEW s, Good(s), NEW primary \in BOOLEAN, primary => s.global.primary, NEW refused \in BOOLEAN,
           NEW u, u = [s EXCEPT !.global = [s.global EXCEPT !.primary = primary, !.refused = refused]]
    PROVE  ServerIs(s, primary, refused, u)
<1>1. s.global \in GlobalRecord /\ s \in IconState /\ Pointed(s)
  BY PartsOf DEF Good
<1>2. PICK g : g = [s.global EXCEPT !.primary = primary, !.refused = refused]
  OBVIOUS
<1>3. /\ g \in GlobalRecord /\ g.selection = s.global.selection /\ g.primary = primary /\ g.hash = s.global.hash
      /\ g.at = s.global.at /\ g.shortcuts = s.global.shortcuts /\ g.count = s.global.count /\ g.grabbed = s.global.grabbed
  BY <1>1, <1>2 DEF GlobalRecord
<1>4. u = [s EXCEPT !.global = g]
  BY <1>2
<1>5. KeysAlike(s, [s EXCEPT !.global = g])
  BY <1>1, <1>3, GlobalsBecome DEF KeysAlike
<1>6. g.at # NoIcon => s.icon[g.at].state # "none"
  BY <1>1, <1>3 DEF Pointed
<1>7. Good(u) /\ u.icon = s.icon /\ u.global = g /\ AllAlike(s, u)
  BY <1>3, <1>4, <1>5, <1>6, GlobalGood
<1> QED BY <1>2, <1>3, <1>7 DEF ServerIs

(* icon_destroy of an icon that is unlocked first. *)
LEMMA DestroyGood ==
    ASSUME NEW s, Good(s), NEW i \in Icon, s.icon[i].state # "none", NEW u, u = DestroyIcon([s EXCEPT !.icon[i].locked = FALSE], i)
    PROVE  Good(u) /\ \A j \in Icon \ {i} : SavedAlike(u.icon[j], s.icon[j])
<1>1. s \in IconState
  BY DEF Good
<1>2. s.icon[i] \in IconRecord
  BY <1>1, IconIs
<1>3. PICK e : e = [s.icon[i] EXCEPT !.locked = FALSE]
  OBVIOUS
<1>4. /\ e \in IconRecord /\ e.state = s.icon[i].state /\ e.path = s.icon[i].path /\ e.shortcut = s.icon[i].shortcut
      /\ e.selected = s.icon[i].selected
  BY <1>2, <1>3 DEF IconRecord
<1>5. PICK t : t = [s EXCEPT !.icon[i] = e]
  OBVIOUS
<1>6. Good(t) /\ OneChanged(s, i, e, t) /\ t.global = s.global
  BY <1>4, <1>5, EditGood
<1>7. t.icon[i].state # "none" /\ \A j \in Icon \ {i} : t.icon[j] = s.icon[j]
  BY <1>4, <1>6 DEF OneChanged
<1>8. PICK selected \in BOOLEAN : selected = FALSE
  OBVIOUS
<1>9. PICK d : d = SetIconSelected(t, i, selected)
  OBVIOUS
<1>10. Good(d) /\ AllAlike(t, d) /\ d.global.at = t.global.at
  BY <1>6, <1>7, <1>9, SetIconSelectedGood
<1>11. d = SetSelectedInt(t, i, FALSE)
  BY <1>8, <1>9 DEF SetIconSelected
<1>12. \A j \in Icon \ {i} : SavedAlike(d.icon[j], s.icon[j])
  BY <1>7, <1>10 DEF AllAlike
<1>13. u = IF d.icon[i].locked THEN d ELSE Finalize(d, i)
  <2>1. [s EXCEPT !.icon[i].locked = FALSE] = t
    BY <1>3, <1>5
  <2> QED BY <1>11, <2>1 DEF DestroyIcon
<1>14. CASE u = d
  BY <1>10, <1>12, <1>14
<1>15. CASE u = Finalize(d, i)
  <2>1. FinalizeIs(d, i, u)
    BY <1>10, <1>15, FinalizeGood
  <2> QED BY <1>12, <2>1 DEF FinalizeIs
<1> QED BY <1>13, <1>14, <1>15

--------------------
(* The files of the boards. *)
FileOf(b, f) == \E S \in SUBSET Icon : (\A i \in S : BoardOf[i] = b) /\ f \in [S -> Said]
AnyFile == UNION {[S -> Said] : S \in SUBSET Icon}
FilesRight ==
    /\ board \in [up : SUBSET Board, file : [Board -> SUBSET AnyFile]]
    /\ \A b \in Board : \A f \in board.file[b] : FileOf(b, f) /\ \A h \in board.file[b] : h = f

BoardsInductive == Good(State) /\ FilesRight /\ SavedAsShown

LEMMA SavedIs ==
    ASSUME NEW s, Good(s), NEW b
    PROVE  FileOf(b, Saved(s.icon, b)) /\ Saved(s.icon, b) \in AnyFile
<1>1. PICK S \in SUBSET Icon : S = OnBoard(s.icon, b)
  BY DEF OnBoard
<1>2. \A i \in S : BoardOf[i] = b /\ s.icon[i].state = "live" /\ i \in Icon
  BY <1>1 DEF OnBoard
<1>3. s \in IconState /\ Empty(s)
  BY DEF Good
<1>4. ASSUME NEW i \in S PROVE Description(s.icon[i].path, s.icon[i].shortcut, s.icon[i].locked) \in Said
  <2>1. s.icon[i].path \in Path
    BY <1>2, <1>3 DEF Empty
  <2>2. s.icon[i].shortcut \in Labels /\ s.icon[i].locked \in BOOLEAN
    BY <1>3, IconIs
  <2> QED BY <2>1, <2>2 DEF Said, Description
<1>5. Saved(s.icon, b) = [i \in S |-> Description(s.icon[i].path, s.icon[i].shortcut, s.icon[i].locked)]
  BY <1>1 DEF Saved
<1>6. Saved(s.icon, b) \in [S -> Said]
  BY <1>4, <1>5
<1> QED BY <1>2, <1>6 DEF FileOf, AnyFile

LEMMA SavedSame ==
    ASSUME NEW s, NEW u, NEW b, \A i \in Icon : BoardOf[i] = b => SavedAlike(u.icon[i], s.icon[i])
    PROVE  Saved(u.icon, b) = Saved(s.icon, b)
<1>1. OnBoard(u.icon, b) = OnBoard(s.icon, b)
  BY DEF OnBoard, SavedAlike
<1>2. \A i \in OnBoard(s.icon, b) : Description(u.icon[i].path, u.icon[i].shortcut, u.icon[i].locked)
                                    = Description(s.icon[i].path, s.icon[i].shortcut, s.icon[i].locked)
  BY DEF OnBoard, SavedAlike, Description
<1> QED BY <1>1, <1>2 DEF Saved

FreedIn(s) == {i \in Icon : s.icon[i].state = "freed"}

(* A handler that ends in a good state, having saved what it changed. *)
LEMMA DoneRight ==
    ASSUME BoardsInductive, NEW u, Good(u), NEW B,
           FreedIn(u) = {} => \A i \in Icon : BoardOf[i] \notin B => SavedAlike(u.icon[i], icon[i]),
           FreedSelected = {}, Done(u, B)
    PROVE  BoardsInductive'
<1>1. /\ icon' = u.icon /\ global' = [u.global EXCEPT !.refused = FALSE]
      /\ board' = [board EXCEPT !.file = [b \in Board |-> IF b \in B THEN {Saved(u.icon, b)} ELSE @[b]]]
  BY DEF Done
<1>2. u \in IconState
  BY DEF Good
<1>3. Good(State')
  <2>1. PICK refused \in BOOLEAN : refused = FALSE
    OBVIOUS
  <2>2. PICK primary \in BOOLEAN : primary = u.global.primary
    BY <1>2, PartsOf
  <2>3. PICK v : v = [u EXCEPT !.global = [u.global EXCEPT !.primary = primary, !.refused = refused]]
    OBVIOUS
  <2>4. /\ Good(v) /\ v.icon = u.icon /\ AllAlike(u, v) /\ v.global.at = u.global.at
        /\ v.global = [u.global EXCEPT !.primary = primary, !.refused = refused]
    <3>1. ServerIs(u, primary, refused, v)
      BY <2>2, <2>3, ServerGood
    <3> QED BY <3>1 DEF ServerIs
  <2>5. v.global = [u.global EXCEPT !.refused = FALSE]
    <3>1. u.global \in GlobalRecord
      BY <1>2, PartsOf
    <3> QED BY <2>1, <2>2, <2>4, <3>1 DEF GlobalRecord
  <2>6. v = [icon |-> v.icon, global |-> v.global]
    BY <2>4, WholeState DEF Good
  <2>7. State' = v
    BY <1>1, <2>4, <2>5, <2>6 DEF State
  <2> QED BY <2>4, <2>7
<1>4. board \in [up : SUBSET Board, file : [Board -> SUBSET AnyFile]]
  BY DEF BoardsInductive, FilesRight
<1>5. PICK file : file = [b \in Board |-> IF b \in B THEN {Saved(u.icon, b)} ELSE board.file[b]]
  OBVIOUS
<1>6. file \in [Board -> SUBSET AnyFile]
  BY <1>4, <1>5, SavedIs
<1>7. board' = [board EXCEPT !.file = file]
  BY <1>1, <1>5
<1>8. board'.up = board.up /\ board'.file = file /\ board' \in [up : SUBSET Board, file : [Board -> SUBSET AnyFile]]
  BY <1>4, <1>6, <1>7
<1>9. ASSUME NEW b \in Board, NEW f \in file[b] PROVE FileOf(b, f) /\ \A h \in file[b] : h = f
  <2>1. CASE b \in B
    BY <1>5, <1>9, <2>1, SavedIs
  <2>2. CASE b \notin B
    BY <1>5, <1>9, <2>2 DEF BoardsInductive, FilesRight
  <2> QED BY <2>1, <2>2
<1>10. FilesRight'
  BY <1>8, <1>9 DEF FilesRight, FileOf
<1>11. ASSUME NEW b \in board.up, FreedSelected' = {} PROVE file[b] \subseteq {Saved(u.icon, b)}
  <2>1. b \in Board
    BY <1>4
  <2>2. CASE b \in B
    BY <1>5, <2>1, <2>2
  <2>3. CASE b \notin B
    <3>1. FreedIn(u) = {}
      BY <1>1, <1>11 DEF FreedIn, FreedSelected
    <3>2. PICK s : s = State
      OBVIOUS
    <3>3. s.icon = icon
      BY <3>2 DEF State
    <3>4. \A i \in Icon : BoardOf[i] = b => SavedAlike(u.icon[i], s.icon[i])
      BY <2>3, <3>1, <3>3
    <3>5. Saved(u.icon, b) = Saved(s.icon, b)
      BY <3>4, SavedSame
    <3>6. board.file[b] \subseteq {Saved(icon, b)}
      BY DEF BoardsInductive, SavedAsShown
    <3> QED BY <1>5, <2>1, <2>3, <3>3, <3>5, <3>6
  <2> QED BY <2>2, <2>3
<1>12. SavedAsShown'
  <2>1. \A b \in board'.up : FreedSelected' = {} => board'.file[b] \subseteq {Saved(icon', b)}
    BY <1>1, <1>8, <1>11
  <2>2. \A b : Saved(icon', b) = Saved(icon, b)'
    BY DEF Saved, OnBoard, Description
  <2> QED BY <2>1, <2>2 DEF SavedAsShown
<1> QED BY <1>3, <1>10, <1>12 DEF BoardsInductive

--------------------
(* What a handler starts from: the X server will, or will not, do its will.*)
Begun(refused) == [State EXCEPT !.global.refused = refused]

LEMMA BegunIs ==
    ASSUME Good(State), NEW refused \in BOOLEAN, NEW s, s = Begun(refused)
    PROVE  Good(s) /\ s.icon = icon /\ s.global = [global EXCEPT !.refused = refused]
<1>1. PICK t : t = State
  OBVIOUS
<1>2. t \in IconState /\ Good(t) /\ t.icon = icon /\ t.global = global
  BY <1>1 DEF Good, State
<1>3. PICK primary \in BOOLEAN : primary = t.global.primary
  BY <1>2, PartsOf
<1>4. PICK v : v = [t EXCEPT !.global = [t.global EXCEPT !.primary = primary, !.refused = refused]]
  OBVIOUS
<1>5. ServerIs(t, primary, refused, v)
  BY <1>2, <1>3, <1>4, ServerGood
<1>6. s = v
  <2>1. PICK g : g = [t.global EXCEPT !.refused = refused]
    OBVIOUS
  <2>2. s = [t EXCEPT !.global = g]
    BY <1>1, <2>1 DEF Begun
  <2>3. g = [t.global EXCEPT !.primary = primary, !.refused = refused]
    <3>1. t.global \in GlobalRecord
      BY <1>2, PartsOf
    <3> QED BY <1>3, <2>1, <3>1 DEF GlobalRecord
  <2> QED BY <1>4, <2>2, <2>3
<1>7. t.global \in GlobalRecord
  BY <1>2, PartsOf
<1>8. [t.global EXCEPT !.primary = primary, !.refused = refused] = [t.global EXCEPT !.refused = refused]
  BY <1>3, <1>7 DEF GlobalRecord
<1> QED BY <1>2, <1>5, <1>6, <1>8 DEF ServerIs

(* A handler that saves nothing because there is nothing to save. *)
LEMMA QuietRight ==
    ASSUME BoardsInductive, FreedSelected = {}, NEW s, s.icon = icon, NEW u, Good(u), AllAlike(s, u), Done(u, {})
    PROVE  BoardsInductive'
<1>1. \A i \in Icon : SavedAlike(u.icon[i], icon[i])
  BY DEF AllAlike
<1>2. PICK B : B = {}
  OBVIOUS
<1>3. Done(u, B)
  BY <1>2
<1> QED BY <1>1, <1>3, DoneRight

LEMMA LiveIs ==
    ASSUME NEW s, s.icon = icon
    PROVE  \A i \in LiveIcons : i \in Icon /\ s.icon[i].state # "none"
BY DEF LiveIcons

LEMMA ToggleRight ==
    ASSUME BoardsInductive, FreedSelected = {}, NEW i \in Icon, ToggleIcon(i)
    PROVE  BoardsInductive'
<1>1. PICK refused \in BOOLEAN : Done(SetIconSelected(Begun(refused), i, ~Begun(refused).icon[i].selected), {})
  BY DEF ToggleIcon, Handler, Begun
<1>2. PICK s : s = Begun(refused)
  OBVIOUS
<1>3. Good(s) /\ s.icon = icon
  BY <1>2, BegunIs DEF BoardsInductive
<1>4. s.icon[i].state # "none"
  BY <1>3, LiveIs DEF ToggleIcon
<1>5. s \in IconState
  BY <1>3 DEF Good
<1>6. PICK selected \in BOOLEAN : selected = ~s.icon[i].selected
  <2>1. (~s.icon[i].selected) \in BOOLEAN
    BY Zenon
  <2> QED BY <2>1, Zenon
<1>7. PICK u : u = SetIconSelected(s, i, selected)
  OBVIOUS
<1>8. Good(u) /\ AllAlike(s, u) /\ u.global.at = s.global.at
  BY <1>3, <1>4, <1>7, SetIconSelectedGood
<1>9. Done(u, {})
  BY <1>1, <1>2, <1>6, <1>7
<1> QED BY <1>3, <1>8, <1>9, QuietRight

LEMMA ExclRight ==
    ASSUME BoardsInductive, FreedSelected = {}, NEW i \in Icon, SelectExcl(i)
    PROVE  BoardsInductive'
<1>1. PICK refused \in BOOLEAN :
        Done(IF BoardOf[i] = Pinboard THEN SelectOnlyIcon(Begun(refused), i) ELSE SetIconSelected(Begun(refused), i, TRUE), {})
  BY DEF SelectExcl, Handler, Begun
<1>2. PICK s : s = Begun(refused)
  OBVIOUS
<1>3. Good(s) /\ s.icon = icon
  BY <1>2, BegunIs DEF BoardsInductive
<1>4. s.icon[i].state # "none"
  BY <1>3, LiveIs DEF SelectExcl
<1>5. CASE BoardOf[i] = Pinboard
  <2>1. PICK u : u = SelectOnlyIcon(s, i)
    OBVIOUS
  <2>2. Good(u) /\ AllAlike(s, u) /\ u.global.at = s.global.at
    BY <1>3, <1>4, <2>1, SelectOnlyGood
  <2>3. Done(u, {})
    BY <1>1, <1>2, <1>5, <2>1
  <2> QED BY <1>3, <2>2, <2>3, QuietRight
<1>6. CASE BoardOf[i] # Pinboard
  <2>1. PICK selected \in BOOLEAN : selected = TRUE
    OBVIOUS
  <2>2. PICK u : u = SetIconSelected(s, i, selected)
    OBVIOUS
  <2>3. Good(u) /\ AllAlike(s, u) /\ u.global.at = s.global.at
    BY <1>3, <1>4, <2>2, SetIconSelectedGood
  <2>4. Done(u, {})
    BY <1>1, <1>2, <1>6, <2>1, <2>2
  <2> QED BY <1>3, <2>3, <2>4, QuietRight
<1> QED BY <1>5, <1>6

LEMMA ClearRight ==
    ASSUME BoardsInductive, FreedSelected = {}, ClearIcons
    PROVE  BoardsInductive'
<1>1. PICK refused \in BOOLEAN : Done(UnselectAll(Begun(refused), Icon), {})
  BY DEF ClearIcons, Handler, Begun
<1>2. PICK s : s = Begun(refused)
  OBVIOUS
<1>3. Good(s) /\ s.icon = icon
  BY <1>2, BegunIs DEF BoardsInductive
<1>4. PICK u : u = UnselectAll(s, Icon)
  OBVIOUS
<1>5. Good(u) /\ AllAlike(s, u) /\ u.global.at = s.global.at /\ u.global.selection = s.global.selection \ Icon
  BY <1>3, <1>4, UnselectGood
<1>6. Done(u, {})
  BY <1>1, <1>2, <1>4
<1> QED BY <1>3, <1>5, <1>6, QuietRight

LEMMA LassoRight ==
    ASSUME BoardsInductive, FreedSelected = {}, NEW S \in SUBSET Icon, SelectLasso(S)
    PROVE  BoardsInductive'
<1>1. PICK refused \in BOOLEAN : Done(Lasso(Begun(refused), S), {})
  BY DEF SelectLasso, Handler, Begun, Lasso
<1>2. PICK s : s = Begun(refused)
  OBVIOUS
<1>3. Good(s) /\ s.icon = icon
  BY <1>2, BegunIs DEF BoardsInductive
<1>4. \A i \in S : s.icon[i].state # "none"
  BY <1>3 DEF SelectLasso, OnBoard
<1>5. PICK u : u = Lasso(s, S)
  OBVIOUS
<1>6. Good(u) /\ AllAlike(s, u)
  BY <1>3, <1>4, <1>5, LassoGood
<1>7. Done(u, {})
  BY <1>1, <1>2, <1>5
<1> QED BY <1>3, <1>6, <1>7, QuietRight

LEMMA LoseRight ==
    ASSUME BoardsInductive, FreedSelected = {}, LoseSelection
    PROVE  BoardsInductive'
<1>1. PICK refused \in BOOLEAN : Done(UnselectAll([Begun(refused) EXCEPT !.global.primary = FALSE], Icon), {})
  BY DEF LoseSelection, Handler, Begun
<1>2. PICK s : s = Begun(refused)
  OBVIOUS
<1>3. Good(s) /\ s.icon = icon /\ s.global = [global EXCEPT !.refused = refused]
  BY <1>2, BegunIs DEF BoardsInductive
<1>4. s.global \in GlobalRecord
  BY <1>3, PartsOf DEF Good
<1>5. PICK primary \in BOOLEAN : primary = FALSE
  OBVIOUS
<1>6. PICK r \in BOOLEAN : r = s.global.refused
  BY <1>4 DEF GlobalRecord
<1>7. PICK t : t = [s EXCEPT !.global = [s.global EXCEPT !.primary = primary, !.refused = r]]
  OBVIOUS
<1>8. ServerIs(s, primary, r, t)
  BY <1>3, <1>5, <1>7, ServerGood
<1>9. Good(t) /\ AllAlike(s, t) /\ t.icon = s.icon
  BY <1>8 DEF ServerIs
<1>10. [s EXCEPT !.global.primary = FALSE] = t
  <2>1. PICK g : g = [s.global EXCEPT !.primary = FALSE]
    OBVIOUS
  <2>2. [s EXCEPT !.global.primary = FALSE] = [s EXCEPT !.global = g]
    BY <2>1
  <2>3. g = [s.global EXCEPT !.primary = primary, !.refused = r]
    BY <1>4, <1>5, <1>6, <2>1 DEF GlobalRecord
  <2> QED BY <1>7, <2>2, <2>3
<1>11. PICK u : u = UnselectAll(t, Icon)
  OBVIOUS
<1>12. Good(u) /\ AllAlike(t, u) /\ u.global.at = t.global.at /\ u.global.selection = t.global.selection \ Icon
  BY <1>9, <1>11, UnselectGood
<1>13. Done(u, {})
  BY <1>1, <1>2, <1>10, <1>11
<1>14. t.icon = icon
  BY <1>3, <1>9
<1> QED BY <1>12, <1>13, <1>14, QuietRight

LEMMA PopupIs ==
    ASSUME NEW s, Good(s), NEW popup \in {"none", "drag", "menu"}, NEW at \in Icon \cup {NoIcon},
           at # NoIcon => s.icon[at].state # "none",
           NEW u, u = [s EXCEPT !.global.popup = popup, !.global.at = at]
    PROVE  SameIcons(s, u)
<1>1. s.global \in GlobalRecord
  BY PartsOf DEF Good
<1>2. PICK tmp \in BOOLEAN : tmp = s.global.tmp
  BY <1>1 DEF GlobalRecord
<1>3. PICK g : g = [s.global EXCEPT !.popup = popup, !.at = at]
  OBVIOUS
<1>4. u = [s EXCEPT !.global = g]
  BY <1>3
<1>5. g = [s.global EXCEPT !.popup = popup, !.at = at, !.tmp = tmp]
  BY <1>1, <1>2, <1>3 DEF GlobalRecord
<1>6. u = [s EXCEPT !.global = [s.global EXCEPT !.popup = popup, !.at = at, !.tmp = tmp]]
  BY <1>4, <1>5
<1> QED BY <1>2, <1>6, PopupGood

LEMMA TmpIs ==
    ASSUME NEW s, Good(s), NEW tmp \in BOOLEAN, NEW u, u = [s EXCEPT !.global.tmp = tmp]
    PROVE  SameIcons(s, u)
<1>1. s.global \in GlobalRecord /\ Pointed(s)
  BY PartsOf DEF Good
<1>2. PICK popup \in {"none", "drag", "menu"} : popup = s.global.popup
  BY <1>1 DEF GlobalRecord
<1>3. PICK at \in Icon \cup {NoIcon} : at = s.global.at
  BY <1>1 DEF GlobalRecord
<1>4. PICK g : g = [s.global EXCEPT !.tmp = tmp]
  OBVIOUS
<1>5. u = [s EXCEPT !.global = g]
  BY <1>4
<1>6. g = [s.global EXCEPT !.popup = popup, !.at = at, !.tmp = tmp]
  BY <1>1, <1>2, <1>3, <1>4 DEF GlobalRecord
<1>7. u = [s EXCEPT !.global = [s.global EXCEPT !.popup = popup, !.at = at, !.tmp = tmp]]
  BY <1>5, <1>6
<1>8. at # NoIcon => s.icon[at].state # "none"
  BY <1>1, <1>3 DEF Pointed
<1> QED BY <1>7, <1>8, PopupGood

LEMMA DragStartsRight ==
    ASSUME BoardsInductive, FreedSelected = {}, NEW i \in Icon, IconDragStarts(i)
    PROVE  BoardsInductive'
<1>1. PICK adjust \in BOOLEAN, refused \in BOOLEAN :
        Done(IF Begun(refused).icon[i].selected THEN [Begun(refused) EXCEPT !.global.popup = "drag", !.global.at = i]
             ELSE IF adjust /\ BoardOf[i] # Pinboard
                  THEN SetIconSelected([Begun(refused) EXCEPT !.global.popup = "drag", !.global.at = i], i, TRUE)
             ELSE [SelectOnlyIcon([Begun(refused) EXCEPT !.global.popup = "drag", !.global.at = i], i)
                     EXCEPT !.global.tmp = TRUE], {})
  BY DEF IconDragStarts, Handler, Begun
<1>2. PICK s : s = Begun(refused)
  OBVIOUS
<1>3. Good(s) /\ s.icon = icon
  BY <1>2, BegunIs DEF BoardsInductive
<1>4. s.icon[i].state # "none"
  BY <1>3, LiveIs DEF IconDragStarts
<1>5. PICK popup \in {"none", "drag", "menu"} : popup = "drag"
  OBVIOUS
<1>6. PICK d : d = [s EXCEPT !.global.popup = popup, !.global.at = i]
  OBVIOUS
<1>14. SameIcons(s, d)
  BY <1>3, <1>4, <1>6, PopupIs
<1>7. Good(d) /\ d.icon = s.icon /\ AllAlike(s, d)
  BY <1>14 DEF SameIcons
<1>8. d.icon = icon /\ d.icon[i].state # "none"
  BY <1>3, <1>4, <1>7
<1>9. \/ Done(d, {})
      \/ Done(SetIconSelected(d, i, TRUE), {})
      \/ Done([SelectOnlyIcon(d, i) EXCEPT !.global.tmp = TRUE], {})
  BY <1>1, <1>2, <1>5, <1>6
<1>10. CASE Done(d, {})
  BY <1>3, <1>7, <1>10, QuietRight
<1>11. CASE Done(SetIconSelected(d, i, TRUE), {})
  <2>1. PICK selected \in BOOLEAN : selected = TRUE
    OBVIOUS
  <2>2. PICK u : u = SetIconSelected(d, i, selected)
    OBVIOUS
  <2>3. Good(u) /\ AllAlike(d, u) /\ u.global.at = d.global.at
    BY <1>7, <1>8, <2>2, SetIconSelectedGood
  <2>4. Done(u, {})
    BY <1>11, <2>1, <2>2
  <2> QED BY <1>8, <2>3, <2>4, QuietRight
<1>12. CASE Done([SelectOnlyIcon(d, i) EXCEPT !.global.tmp = TRUE], {})
  <2>1. PICK t : t = SelectOnlyIcon(d, i)
    OBVIOUS
  <2>2. Good(t) /\ AllAlike(d, t) /\ t.global.at = d.global.at
    BY <1>7, <1>8, <2>1, SelectOnlyGood
  <2>3. PICK tmp \in BOOLEAN : tmp = TRUE
    OBVIOUS
  <2>4. PICK u : u = [t EXCEPT !.global.tmp = tmp]
    OBVIOUS
  <2>8. SameIcons(t, u)
    BY <2>2, <2>4, TmpIs
  <2>5. Good(u) /\ u.icon = t.icon /\ AllAlike(t, u)
    BY <2>8 DEF SameIcons
  <2>6. AllAlike(d, u)
    BY <2>2, <2>5 DEF AllAlike, SavedAlike
  <2>7. Done(u, {})
    BY <1>12, <2>1, <2>3, <2>4
  <2> QED BY <1>8, <2>5, <2>6, <2>7, QuietRight
<1> QED BY <1>9, <1>10, <1>11, <1>12

LEMMA DragEndsRight ==
    ASSUME BoardsInductive, FreedSelected = {}, IconDragEnds
    PROVE  BoardsInductive'
<1>1. PICK refused \in BOOLEAN :
        Done(IF Begun(refused).global.at = NoIcon \/ ~Begun(refused).global.tmp
             THEN [Begun(refused) EXCEPT !.global.popup = "none", !.global.at = NoIcon]
             ELSE [UnselectAll([Begun(refused) EXCEPT !.global.popup = "none", !.global.at = NoIcon], Icon)
                     EXCEPT !.global.tmp = FALSE], {})
  BY DEF IconDragEnds, Handler, Begun
<1>2. PICK s : s = Begun(refused)
  OBVIOUS
<1>3. Good(s) /\ s.icon = icon
  BY <1>2, BegunIs DEF BoardsInductive
<1>4. PICK popup \in {"none", "drag", "menu"} : popup = "none"
  OBVIOUS
<1>5. PICK at \in Icon \cup {NoIcon} : at = NoIcon
  OBVIOUS
<1>6. PICK d : d = [s EXCEPT !.global.popup = popup, !.global.at = at]
  OBVIOUS
<1>14. SameIcons(s, d)
  BY <1>3, <1>5, <1>6, PopupIs
<1>7. Good(d) /\ d.icon = s.icon /\ AllAlike(s, d)
  BY <1>14 DEF SameIcons
<1>8. d.icon = icon
  BY <1>3, <1>7
<1>9. Done(d, {}) \/ Done([UnselectAll(d, Icon) EXCEPT !.global.tmp = FALSE], {})
  BY <1>1, <1>2, <1>4, <1>5, <1>6
<1>10. CASE Done(d, {})
  BY <1>3, <1>7, <1>10, QuietRight
<1>11. CASE Done([UnselectAll(d, Icon) EXCEPT !.global.tmp = FALSE], {})
  <2>1. PICK t : t = UnselectAll(d, Icon)
    OBVIOUS
  <2>2. Good(t) /\ AllAlike(d, t) /\ t.global.at = d.global.at /\ t.global.selection = d.global.selection \ Icon
    BY <1>7, <2>1, UnselectGood
  <2>3. PICK tmp \in BOOLEAN : tmp = FALSE
    OBVIOUS
  <2>4. PICK u : u = [t EXCEPT !.global.tmp = tmp]
    OBVIOUS
  <2>8. SameIcons(t, u)
    BY <2>2, <2>4, TmpIs
  <2>5. Good(u) /\ u.icon = t.icon /\ AllAlike(t, u)
    BY <2>8 DEF SameIcons
  <2>6. AllAlike(d, u)
    BY <2>2, <2>5 DEF AllAlike, SavedAlike
  <2>7. Done(u, {})
    BY <1>11, <2>1, <2>3, <2>4
  <2> QED BY <1>8, <2>5, <2>6, <2>7, QuietRight
<1> QED BY <1>9, <1>10, <1>11

LEMMA MenuRight ==
    ASSUME BoardsInductive, FreedSelected = {}, IconMenuCloses \/ \E i \in Icon \cup {NoIcon} : IconMenuOpens(i)
    PROVE  BoardsInductive'
<1>1. PICK refused \in BOOLEAN, popup \in {"none", "drag", "menu"}, i \in LiveIcons \cup {NoIcon} :
        Done([Begun(refused) EXCEPT !.global.popup = popup, !.global.at = i], {})
  <2>1. CASE IconMenuCloses
    <3>1. PICK refused \in BOOLEAN : Done([Begun(refused) EXCEPT !.global.popup = "none", !.global.at = NoIcon], {})
      BY <2>1 DEF IconMenuCloses, Handler, Begun
    <3> QED BY <3>1
  <2>2. CASE \E i \in Icon \cup {NoIcon} : IconMenuOpens(i)
    <3>1. PICK i \in Icon \cup {NoIcon} : IconMenuOpens(i)
      BY <2>2
    <3>2. PICK refused \in BOOLEAN : Done([Begun(refused) EXCEPT !.global.popup = "menu", !.global.at = i], {})
      BY <3>1 DEF IconMenuOpens, Handler, Begun
    <3>3. i \in LiveIcons \cup {NoIcon}
      BY <3>1 DEF IconMenuOpens
    <3> QED BY <3>2, <3>3
  <2> QED BY <2>1, <2>2
<1>2. PICK s : s = Begun(refused)
  OBVIOUS
<1>3. Good(s) /\ s.icon = icon
  BY <1>2, BegunIs DEF BoardsInductive
<1>4. i \in Icon \cup {NoIcon} /\ (i # NoIcon => s.icon[i].state # "none")
  BY <1>3, LiveIs
<1>5. PICK u : u = [s EXCEPT !.global.popup = popup, !.global.at = i]
  OBVIOUS
<1>14. SameIcons(s, u)
  BY <1>3, <1>4, <1>5, PopupIs
<1>6. Good(u) /\ u.icon = s.icon /\ AllAlike(s, u)
  BY <1>14 DEF SameIcons
<1>7. Done(u, {})
  BY <1>1, <1>2, <1>5
<1> QED BY <1>3, <1>6, <1>7, QuietRight

(* The edit box comes and goes. *)
LEMMA BoxIs ==
    ASSUME NEW s, Good(s), NEW i \in Icon, s.icon[i].state # "none", NEW shown \in BOOLEAN,
           NEW u, u = [s EXCEPT !.icon[i].dialog = shown]
    PROVE  Good(u) /\ AllAlike(s, u)
<1>1. s.icon[i] \in IconRecord
  BY IconIs DEF Good
<1>2. PICK e : e = [s.icon[i] EXCEPT !.dialog = shown]
  OBVIOUS
<1>3. /\ e \in IconRecord /\ e.state = s.icon[i].state /\ e.path = s.icon[i].path /\ e.shortcut = s.icon[i].shortcut
      /\ e.locked = s.icon[i].locked /\ e.selected = s.icon[i].selected
  BY <1>1, <1>2 DEF IconRecord
<1>4. u = [s EXCEPT !.icon[i] = e]
  BY <1>2
<1>5. Good(u) /\ OneChanged(s, i, e, u) /\ u.global = s.global
  BY <1>3, <1>4, EditGood
<1> QED BY <1>3, <1>5 DEF AllAlike, SavedAlike, OneChanged

LEMMA BoxRight ==
    ASSUME BoardsInductive, FreedSelected = {}, ShowRenameBox \/ \E i \in Icon : CancelRename(i)
    PROVE  BoardsInductive'
<1>1. PICK refused \in BOOLEAN, shown \in BOOLEAN, i \in Icon :
        Done([Begun(refused) EXCEPT !.icon[i].dialog = shown], {}) /\ icon[i].state # "none"
  <2>1. CASE ShowRenameBox
    <3>1. PICK refused \in BOOLEAN : Done([Begun(refused) EXCEPT !.icon[Begun(refused).global.at].dialog = TRUE], {})
      BY <2>1 DEF ShowRenameBox, Handler, Begun
    <3>2. PICK s : s = Begun(refused)
      OBVIOUS
    <3>3. Good(s) /\ s.icon = icon /\ s.global = [global EXCEPT !.refused = refused]
      BY <3>2, BegunIs DEF BoardsInductive
    <3>4. global \in GlobalRecord
      <4>1. State.global \in GlobalRecord
        BY PartsOf DEF BoardsInductive, Good
      <4> QED BY <4>1 DEF State
    <3>5. s.global.at = global.at
      BY <3>3, <3>4 DEF GlobalRecord
    <3>6. s.global.at \in Icon /\ s.icon[s.global.at].state # "none"
      <4>1. s.global.at \in Icon \cup {NoIcon} /\ Pointed(s)
        BY <3>3, PartsOf DEF Good
      <4>2. s.global.at # NoIcon
        BY <2>1, <3>5 DEF ShowRenameBox
      <4> QED BY <4>1, <4>2 DEF Pointed
    <3> QED BY <3>1, <3>2, <3>3, <3>6
  <2>2. CASE \E i \in Icon : CancelRename(i)
    <3>1. PICK i \in Icon : CancelRename(i)
      BY <2>2
    <3>2. PICK refused \in BOOLEAN : Done([Begun(refused) EXCEPT !.icon[i].dialog = FALSE], {})
      BY <3>1 DEF CancelRename, Handler, Begun
    <3>3. icon[i].state # "none"
      BY <3>1 DEF CancelRename, LiveIcons
    <3> QED BY <3>2, <3>3
  <2> QED BY <2>1, <2>2
<1>2. PICK s : s = Begun(refused)
  OBVIOUS
<1>3. Good(s) /\ s.icon = icon
  BY <1>2, BegunIs DEF BoardsInductive
<1>4. PICK u : u = [s EXCEPT !.icon[i].dialog = shown]
  OBVIOUS
<1>5. s.icon[i].state # "none"
  BY <1>1, <1>3
<1>6. Good(u) /\ AllAlike(s, u)
  BY <1>3, <1>4, <1>5, BoxIs
<1>7. Done(u, {})
  BY <1>1, <1>2, <1>4
<1> QED BY <1>3, <1>6, <1>7, QuietRight

--------------------
(* Icons that are described anew, come and go. *)
LEMMA DescribedIs ==
    ASSUME NEW d \in Descriptions
    PROVE  d \in Said /\ d.path \in Path /\ d.shortcut \in Labels /\ d.locked \in BOOLEAN
<1>1. Entries \subseteq Path \X (Shortcut \cup {NoShortcut}) \X BOOLEAN
  BY IconAssumption, Zenon
<1>2. PICK e \in Entries : d = Description(e[1], e[2], e[3])
  BY DEF Descriptions
<1>3. e[1] \in Path /\ e[2] \in Labels /\ e[3] \in BOOLEAN
  BY <1>1, <1>2 DEF Labels
<1> QED BY <1>2, <1>3 DEF Description, Said

LEMMA DescribedGood ==
    ASSUME NEW s, Good(s), NEW i \in Icon, s.icon[i].state # "none", NEW d \in Said,
           NEW w, w = SetShortcut(SetPath(s, i, d.path), i, d.shortcut)
    PROVE  Good(w) /\ w.icon[i].state # "none" /\ \A j \in Icon \ {i} : w.icon[j] = s.icon[j]
<1>1. d.path \in Path /\ d.shortcut \in Labels
  BY DEF Said
<1>2. PICK t : t = SetPath(s, i, d.path)
  OBVIOUS
<1>3. Good(t) /\ OneChanged(s, i, [s.icon[i] EXCEPT !.path = d.path], t)
  BY <1>1, <1>2, SetPathGood
<1>4. s.icon[i] \in IconRecord
  BY IconIs DEF Good
<1>5. t.icon[i].state # "none" /\ \A j \in Icon \ {i} : t.icon[j] = s.icon[j]
  BY <1>3, <1>4 DEF OneChanged, IconRecord
<1>6. t.icon[i] \in IconRecord
  BY <1>3, IconIs DEF Good
<1>7. Good(w) /\ OneChanged(t, i, [t.icon[i] EXCEPT !.shortcut = d.shortcut], w)
  BY <1>1, <1>2, <1>3, <1>5, SetShortcutGood
<1>8. w.icon[i].state # "none" /\ \A j \in Icon \ {i} : w.icon[j] = s.icon[j]
  BY <1>5, <1>6, <1>7 DEF OneChanged, IconRecord
<1> QED BY <1>7, <1>8

GoodBeside(s, i, u) == Good(u) /\ \A j \in Icon \ {i} : u.icon[j] = s.icon[j]

LEMMA EditedGood ==
    ASSUME NEW w, Good(w), NEW i \in Icon, w.icon[i].state # "none", NEW locked \in BOOLEAN, NEW shown \in BOOLEAN,
           NEW u, u = [w EXCEPT !.icon[i] = [w.icon[i] EXCEPT !.locked = locked, !.dialog = shown]]
    PROVE  GoodBeside(w, i, u)
<1>1. w.icon[i] \in IconRecord
  BY IconIs DEF Good
<1>2. PICK e : e = [w.icon[i] EXCEPT !.locked = locked, !.dialog = shown]
  OBVIOUS
<1>3. /\ e \in IconRecord /\ e.state = w.icon[i].state /\ e.path = w.icon[i].path /\ e.shortcut = w.icon[i].shortcut
      /\ e.selected = w.icon[i].selected
  BY <1>1, <1>2 DEF IconRecord
<1>4. u = [w EXCEPT !.icon[i] = e]
  BY <1>2
<1>5. Good(u) /\ OneChanged(w, i, e, u) /\ u.global = w.global
  BY <1>3, <1>4, EditGood
<1> QED BY <1>5 DEF OneChanged, GoodBeside

LEMMA DescribedRight ==
    ASSUME BoardsInductive, FreedSelected = {}, NEW i \in Icon, NEW d \in Descriptions, RenameActivate(i, d) \/ PinUpdate(i, d)
    PROVE  BoardsInductive'
<1>1. d \in Said /\ d.path \in Path /\ d.shortcut \in Labels /\ d.locked \in BOOLEAN
  BY DescribedIs
<1>2. PICK refused \in BOOLEAN :
        \/ Done([SetShortcut(SetPath(Begun(refused), i, d.path), i, d.shortcut) EXCEPT
                   !.icon[i].locked = d.locked, !.icon[i].dialog = FALSE], {BoardOf[i]})
        \/ Done([SetShortcut(SetPath(Begun(refused), i, d.path), i, d.shortcut) EXCEPT !.icon[i].locked = d.locked], {BoardOf[i]})
  <2>1. CASE RenameActivate(i, d)
    BY <2>1 DEF RenameActivate, Handler, Begun
  <2>2. CASE PinUpdate(i, d)
    <3>1. BoardOf[i] = Pinboard
      BY <2>2 DEF PinUpdate, OnBoard
    <3> QED BY <2>2, <3>1 DEF PinUpdate, Handler, Begun
  <2> QED BY <2>1, <2>2
<1>3. PICK s : s = Begun(refused)
  OBVIOUS
<1>4. Good(s) /\ s.icon = icon
  BY <1>3, BegunIs DEF BoardsInductive
<1>5. s.icon[i].state # "none"
  BY <1>4 DEF RenameActivate, PinUpdate, LiveIcons, OnBoard
<1>6. PICK w : w = SetShortcut(SetPath(s, i, d.path), i, d.shortcut)
  OBVIOUS
<1>7. Good(w) /\ w.icon[i].state # "none" /\ \A j \in Icon \ {i} : w.icon[j] = s.icon[j]
  BY <1>1, <1>4, <1>5, <1>6, DescribedGood
<1>8. w.icon[i] \in IconRecord
  BY <1>7, IconIs DEF Good
<1>9. PICK locked \in BOOLEAN, shown \in BOOLEAN :
        Done([w EXCEPT !.icon[i] = [w.icon[i] EXCEPT !.locked = locked, !.dialog = shown]], {BoardOf[i]})
  <2>1. CASE Done([w EXCEPT !.icon[i].locked = d.locked, !.icon[i].dialog = FALSE], {BoardOf[i]})
    <3>1. PICK locked \in BOOLEAN : locked = d.locked
      BY <1>1
    <3>2. PICK e : e = [w.icon[i] EXCEPT !.locked = locked, !.dialog = FALSE]
      OBVIOUS
    <3>3. [w EXCEPT !.icon[i].locked = d.locked, !.icon[i].dialog = FALSE] = [w EXCEPT !.icon[i] = e]
      <4>1. w.icon \in [Icon -> IconRecord]
        BY <1>7, PartsOf DEF Good
      <4>2. PICK b : b = [w.icon EXCEPT ![i].locked = d.locked, ![i].dialog = FALSE]
        OBVIOUS
      <4>3. [w EXCEPT !.icon[i].locked = d.locked, !.icon[i].dialog = FALSE] = [w EXCEPT !.icon = b]
        BY <4>2
      <4>4. b = [w.icon EXCEPT ![i] = e]
        BY <3>1, <3>2, <4>1, <4>2 DEF IconRecord
      <4>5. [w EXCEPT !.icon[i] = e] = [w EXCEPT !.icon = [w.icon EXCEPT ![i] = e]]
        OBVIOUS
      <4> QED BY <4>3, <4>4, <4>5
    <3> QED BY <2>1, <3>2, <3>3
  <2>2. CASE Done([w EXCEPT !.icon[i].locked = d.locked], {BoardOf[i]})
    <3>1. PICK locked \in BOOLEAN : locked = d.locked
      BY <1>1
    <3>2. PICK shown \in BOOLEAN : shown = w.icon[i].dialog
      BY <1>8 DEF IconRecord
    <3>3. [w.icon[i] EXCEPT !.locked = d.locked] = [w.icon[i] EXCEPT !.locked = locked, !.dialog = shown]
      BY <1>8, <3>1, <3>2 DEF IconRecord
    <3>4. [w EXCEPT !.icon[i].locked = d.locked] = [w EXCEPT !.icon[i] = [w.icon[i] EXCEPT !.locked = d.locked]]
      OBVIOUS
    <3> QED BY <2>2, <3>3, <3>4
  <2> QED BY <1>2, <1>3, <1>6, <2>1, <2>2
<1>10. PICK u : u = [w EXCEPT !.icon[i] = [w.icon[i] EXCEPT !.locked = locked, !.dialog = shown]]
  OBVIOUS
<1>11. Good(u) /\ \A j \in Icon \ {i} : u.icon[j] = w.icon[j]
  <2>1. GoodBeside(w, i, u)
    BY <1>7, <1>10, EditedGood
  <2> QED BY <2>1 DEF GoodBeside
<1>12. PICK B : B = {BoardOf[i]}
  OBVIOUS
<1>13. Done(u, B)
  BY <1>9, <1>10, <1>12
<1>14. \A j \in Icon : BoardOf[j] \notin B => SavedAlike(u.icon[j], icon[j])
  BY <1>4, <1>7, <1>11, <1>12 DEF SavedAlike
<1> QED BY <1>11, <1>13, <1>14, DoneRight

LEMMA PinRight ==
    ASSUME BoardsInductive, FreedSelected = {}, NEW i \in Icon, NEW d \in Descriptions, Pin(i, d)
    PROVE  BoardsInductive'
<1>1. d \in Said
  BY DescribedIs
<1>2. PICK refused \in BOOLEAN : Done(NewIcon(Begun(refused), i, d), {BoardOf[i]})
  BY DEF Pin, Handler, Begun
<1>3. PICK s : s = Begun(refused)
  OBVIOUS
<1>4. Good(s) /\ s.icon = icon
  BY <1>3, BegunIs DEF BoardsInductive
<1>5. s.icon[i].state = "none"
  BY <1>4 DEF Pin
<1>6. PICK u : u = NewIcon(s, i, d)
  OBVIOUS
<1>7. NewIconIs(s, i, d, u)
  BY <1>1, <1>4, <1>5, <1>6, NewIconGood
<1>8. Good(u) /\ \A j \in Icon \ {i} : u.icon[j] = icon[j]
  BY <1>4, <1>7 DEF NewIconIs
<1>9. PICK B : B = {BoardOf[i]}
  OBVIOUS
<1>10. Done(u, B)
  BY <1>2, <1>3, <1>6, <1>9
<1>11. \A j \in Icon : BoardOf[j] \notin B => SavedAlike(u.icon[j], icon[j])
  BY <1>8, <1>9 DEF SavedAlike
<1> QED BY <1>8, <1>10, <1>11, DoneRight

LEMMA RemoveIconRight ==
    ASSUME BoardsInductive, FreedSelected = {}, NEW i \in Icon, RemoveIcon(i)
    PROVE  BoardsInductive'
<1>1. PICK refused \in BOOLEAN : Done(DestroyIcon([Begun(refused) EXCEPT !.icon[i].locked = FALSE], i), {BoardOf[i]})
  BY DEF RemoveIcon, Handler, Begun
<1>2. PICK s : s = Begun(refused)
  OBVIOUS
<1>3. Good(s) /\ s.icon = icon
  BY <1>2, BegunIs DEF BoardsInductive
<1>4. s.icon[i].state # "none"
  BY <1>3 DEF RemoveIcon, LiveIcons
<1>5. PICK u : u = DestroyIcon([s EXCEPT !.icon[i].locked = FALSE], i)
  OBVIOUS
<1>6. Good(u) /\ \A j \in Icon \ {i} : SavedAlike(u.icon[j], s.icon[j])
  BY <1>3, <1>4, <1>5, DestroyGood
<1>7. PICK B : B = {BoardOf[i]}
  OBVIOUS
<1>8. Done(u, B)
  BY <1>1, <1>2, <1>5, <1>7
<1>9. \A j \in Icon : BoardOf[j] \notin B => SavedAlike(u.icon[j], icon[j])
  BY <1>3, <1>6, <1>7
<1> QED BY <1>6, <1>8, <1>9, DoneRight

LEMMA RemoveItemsRight ==
    ASSUME BoardsInductive, FreedSelected = {}, RemoveItems
    PROVE  BoardsInductive'
<1>1. PICK s : s = State
  OBVIOUS
<1>2. Good(s) /\ s.icon = icon /\ s.global = global
  BY <1>1 DEF BoardsInductive, State
<1>3. PICK d : d = IF global.at = NoIcon THEN s ELSE SetIconSelected(s, global.at, TRUE)
  OBVIOUS
<1>4. Good(d) /\ AllAlike(s, d)
  <2>1. CASE global.at = NoIcon
    BY <1>2, <1>3, <2>1 DEF AllAlike, SavedAlike
  <2>2. CASE global.at # NoIcon
    <3>1. PICK i \in Icon : i = global.at
      BY <1>2, <2>2, PartsOf DEF Good
    <3>2. s.icon[i].state # "none"
      BY <1>2, <2>2, <3>1 DEF Good, Pointed
    <3>3. PICK selected \in BOOLEAN : selected = TRUE
      OBVIOUS
    <3>4. d = SetIconSelected(s, i, selected)
      BY <1>3, <2>2, <3>1, <3>3
    <3>5. Good(d) /\ AllAlike(s, d) /\ d.global.at = s.global.at
      BY <1>2, <3>2, <3>4, SetIconSelectedGood
    <3> QED BY <3>5
  <2> QED BY <2>1, <2>2
<1>5. PICK S \in SUBSET Icon : S = d.global.selection
  BY <1>4, PartsOf DEF Good
<1>6. Done(d, {}) \/ Done(FinalizeAll(UnselectAll(d, S), S), {BoardOf[j] : j \in S})
  BY <1>1, <1>3, <1>5 DEF RemoveItems
<1>7. CASE Done(d, {})
  BY <1>2, <1>4, <1>7, QuietRight
<1>8. CASE Done(FinalizeAll(UnselectAll(d, S), S), {BoardOf[j] : j \in S})
  <2>1. PICK t : t = UnselectAll(d, S)
    OBVIOUS
  <2>2. Good(t) /\ AllAlike(d, t) /\ t.global.at = d.global.at /\ t.global.selection = d.global.selection \ S
    BY <1>4, <2>1, UnselectGood
  <2>3. PICK u : u = FinalizeAll(t, S)
    OBVIOUS
  <2>4. FinalizedAll(t, S, u)
    BY <2>2, <2>3, FinalizeAllGood
  <2>5. PICK B : B = {BoardOf[j] : j \in S}
    OBVIOUS
  <2>6. Done(u, B)
    BY <1>8, <2>1, <2>3, <2>5
  <2>7. ASSUME NEW j \in Icon, BoardOf[j] \notin B PROVE SavedAlike(u.icon[j], icon[j])
    <3>1. j \notin S
      BY <2>5, <2>7
    <3>2. u.icon[j] = t.icon[j]
      BY <2>4, <3>1 DEF FinalizedAll
    <3> QED BY <1>2, <1>4, <2>2, <3>2 DEF AllAlike, SavedAlike
  <2>8. Good(u)
    BY <2>4 DEF FinalizedAll
  <2> QED BY <2>6, <2>7, <2>8, DoneRight
<1> QED BY <1>6, <1>7, <1>8

--------------------
(* Boards that come and go. *)
LEMMA UpRight ==
    ASSUME BoardsInductive, NEW u, Good(u), NEW X \in SUBSET Board,
           icon' = u.icon, global' = u.global, board' = [board EXCEPT !.up = X],
           \A b \in X : FreedIn(u) = {} => board.file[b] \subseteq {Saved(u.icon, b)}
    PROVE  BoardsInductive'
<1>1. State' = u
  <2>1. u = [icon |-> u.icon, global |-> u.global]
    BY WholeState DEF Good
  <2> QED BY <2>1 DEF State
<1>2. Good(State')
  BY <1>1
<1>3. board \in [up : SUBSET Board, file : [Board -> SUBSET AnyFile]]
  BY DEF BoardsInductive, FilesRight
<1>4. board'.up = X /\ board'.file = board.file /\ board' \in [up : SUBSET Board, file : [Board -> SUBSET AnyFile]]
  BY <1>3
<1>5. FilesRight'
  <2>1. \A b \in Board : \A f \in board.file[b] : FileOf(b, f) /\ \A h \in board.file[b] : h = f
    BY DEF BoardsInductive, FilesRight
  <2> QED BY <1>4, <2>1 DEF FilesRight, FileOf
<1>6. SavedAsShown'
  <2>1. FreedSelected' = FreedIn(u)
    BY DEF FreedSelected, FreedIn
  <2>2. \A b : Saved(u.icon, b) = Saved(icon, b)'
    BY DEF Saved, OnBoard, Description
  <2>3. \A b \in board'.up : FreedSelected' = {} => board'.file[b] \subseteq {Saved(icon, b)'}
    BY <1>4, <2>1, <2>2
  <2> QED BY <2>3 DEF SavedAsShown
<1> QED BY <1>2, <1>5, <1>6 DEF BoardsInductive

(* What is left when a board was taken down: nothing of it, unless memory *)
(* was freed; and the other boards. *)
LEMMA TakenDown ==
    ASSUME BoardsInductive, FreedSelected = {}, NEW b, NEW d, d = FinalizeAll(State, OnBoard(icon, b))
    PROVE  /\ Good(d)
           /\ \A i \in Icon : BoardOf[i] # b => d.icon[i] = icon[i]
           /\ \A i \in Icon : BoardOf[i] = b => d.icon[i].state \in {"none", "freed"}
<1>1. PICK s : s = State
  OBVIOUS
<1>2. Good(s) /\ s.icon = icon
  BY <1>1 DEF BoardsInductive, State
<1>3. PICK S \in SUBSET Icon : S = OnBoard(icon, b)
  BY DEF OnBoard
<1>4. FinalizedAll(s, S, d)
  BY <1>1, <1>2, <1>3, FinalizeAllGood
<1>5. ASSUME NEW i \in Icon, BoardOf[i] # b PROVE d.icon[i] = icon[i]
  BY <1>2, <1>3, <1>4, <1>5 DEF FinalizedAll, OnBoard
<1>6. ASSUME NEW i \in Icon, BoardOf[i] = b PROVE d.icon[i].state \in {"none", "freed"}
  <2>1. CASE i \in S
    BY <1>4, <2>1, AbsentIs DEF FinalizedAll
  <2>2. CASE i \notin S
    <3>1. d.icon[i] = icon[i]
      BY <1>2, <1>4, <2>2 DEF FinalizedAll
    <3>2. icon[i].state # "live" /\ icon[i].state # "freed"
      BY <1>3, <1>6, <2>2 DEF OnBoard, FreedSelected
    <3>3. icon[i].state \in {"none", "live", "freed"}
      BY <1>2, IconIs DEF Good
    <3> QED BY <3>1, <3>2, <3>3
  <2> QED BY <2>1, <2>2
<1> QED BY <1>4, <1>5, <1>6 DEF FinalizedAll

(* A board whose file is not there shows the home directory. *)
HomeOnly(j, p) == [i \in {j} |-> Description(p, NoShortcut, FALSE)]

LEMMA LoadsIs ==
    ASSUME FilesRight, NEW b \in Board, NEW file \in Loads(b)
    PROVE  FileOf(b, file) /\ board.file[b] \subseteq {file}
<1>1. CASE board.file[b] # {}
  <2>1. file \in board.file[b]
    BY <1>1 DEF Loads
  <2> QED BY <2>1 DEF FilesRight
<1>2. CASE board.file[b] = {}
  <2>1. PICK j \in Icon, p \in Path : BoardOf[j] = b /\ file = HomeOnly(j, p)
    <3>1. Loads(b) = IF board.file[b] # {} THEN board.file[b]
                     ELSE {HomeOnly(j, p) : j \in {j \in Icon : BoardOf[j] = b}, p \in Path}
      BY DEF Loads, HomeOnly
    <3>2. file \in {HomeOnly(j, p) : j \in {j \in Icon : BoardOf[j] = b}, p \in Path}
      BY <1>2, <3>1
    <3> QED BY <3>2
  <2>2. Description(p, NoShortcut, FALSE) \in Said
    BY DEF Description, Said, Labels
  <2>3. PICK S \in SUBSET Icon : S = {j}
    OBVIOUS
  <2>4. file \in [S -> Said]
    BY <2>1, <2>2, <2>3 DEF HomeOnly
  <2>5. \A i \in S : BoardOf[i] = b
    BY <2>1, <2>3
  <2> QED BY <1>2, <2>4, <2>5 DEF FileOf
<1> QED BY <1>1, <1>2

LEMMA ActivateRight ==
    ASSUME BoardsInductive, FreedSelected = {}, NEW b \in Board, Activate(b)
    PROVE  BoardsInductive'
<1>1. PICK file \in Loads(b) :
        /\ icon' = LoadAll(FinalizeAll(State, OnBoard(icon, b)), file).icon
        /\ global' = LoadAll(FinalizeAll(State, OnBoard(icon, b)), file).global
        /\ board' = [board EXCEPT !.up = @ \cup {b}]
  BY DEF Activate
<1>2. PICK d : d = FinalizeAll(State, OnBoard(icon, b))
  OBVIOUS
<1>3. /\ Good(d) /\ \A i \in Icon : BoardOf[i] # b => d.icon[i] = icon[i]
      /\ \A i \in Icon : BoardOf[i] = b => d.icon[i].state \in {"none", "freed"}
  BY <1>2, TakenDown
<1>4. FileOf(b, file) /\ board.file[b] \subseteq {file}
  BY LoadsIs DEF BoardsInductive
<1>5. PICK S \in SUBSET Icon : (\A i \in S : BoardOf[i] = b) /\ file \in [S -> Said]
  BY <1>4 DEF FileOf
<1>6. PICK u : u = LoadAll(d, file)
  OBVIOUS
<1>7. LoadedAll(d, file, S, u)
  BY <1>3, <1>5, <1>6, LoadAllGood
<1>8. icon' = u.icon /\ global' = u.global
  BY <1>1, <1>2, <1>6
<1>9. ASSUME NEW c \in board.up \cup {b}, FreedIn(u) = {} PROVE board.file[c] \subseteq {Saved(u.icon, c)}
  <2>1. CASE c = b
    <3>1. ASSUME NEW i \in Icon, BoardOf[i] = b PROVE d.icon[i].state = "none"
      <4>1. d.icon[i].state = "freed" => u.icon[i] = d.icon[i]
        BY <1>7 DEF LoadedAll
      <4>2. u.icon[i].state # "freed"
        BY <1>9 DEF FreedIn
      <4> QED BY <1>3, <3>1, <4>1, <4>2
    <3>2. \A i \in S : ShownAs(u.icon[i], file[i])
      BY <1>5, <1>7, <3>1 DEF LoadedAll
    <3>3. OnBoard(u.icon, b) = S
      <4>1. ASSUME NEW i \in Icon PROVE BoardOf[i] = b /\ u.icon[i].state = "live" <=> i \in S
        BY <1>5, <1>7, <3>1, <3>2 DEF LoadedAll, ShownAs
      <4> QED BY <4>1 DEF OnBoard
    <3>4. ASSUME NEW i \in S
          PROVE  Description(u.icon[i].path, u.icon[i].shortcut, u.icon[i].locked) = file[i]
      <4>1. file[i] \in Said
        BY <1>5
      <4>2. ShownAs(u.icon[i], file[i])
        BY <3>2
      <4>3. PICK f \in Said : f = file[i]
        BY <4>1
      <4>4. f = [path |-> f.path, shortcut |-> f.shortcut, locked |-> f.locked]
        BY DEF Said
      <4> QED BY <4>2, <4>3, <4>4 DEF Description, ShownAs
    <3>5. Saved(u.icon, b) = [i \in S |-> file[i]]
      BY <3>3, <3>4 DEF Saved
    <3>6. Saved(u.icon, b) = file
      BY <1>5, <3>5
    <3> QED BY <1>4, <2>1, <3>6
  <2>2. CASE c # b
    <3>1. PICK s : s = State
      OBVIOUS
    <3>2. s.icon = icon
      BY <3>1 DEF State
    <3>3. ASSUME NEW i \in Icon, BoardOf[i] = c PROVE SavedAlike(u.icon[i], s.icon[i])
      <4>1. i \notin S
        BY <1>5, <2>2, <3>3
      <4>2. u.icon[i] = d.icon[i]
        BY <1>7, <4>1 DEF LoadedAll
      <4> QED BY <1>3, <2>2, <3>2, <3>3, <4>2 DEF SavedAlike
    <3>4. Saved(u.icon, c) = Saved(s.icon, c)
      BY <3>3, SavedSame
    <3>5. c \in board.up
      BY <2>2
    <3>6. board.file[c] \subseteq {Saved(icon, c)}
      BY <3>5 DEF BoardsInductive, SavedAsShown
    <3> QED BY <3>2, <3>4, <3>6
  <2> QED BY <2>1, <2>2
<1>10. PICK X \in SUBSET Board : X = board.up \cup {b}
  BY DEF BoardsInductive, FilesRight
<1>11. board' = [board EXCEPT !.up = X]
  BY <1>1, <1>10
<1>12. Good(u)
  BY <1>7 DEF LoadedAll
<1>13. \A c \in X : FreedIn(u) = {} => board.file[c] \subseteq {Saved(u.icon, c)}
  BY <1>9, <1>10
<1> QED BY <1>8, <1>11, <1>12, <1>13, UpRight

LEMMA TurnOffRight ==
    ASSUME BoardsInductive, FreedSelected = {}, NEW b \in Board, TurnOff(b)
    PROVE  BoardsInductive'
<1>1. PICK u : u = FinalizeAll(State, OnBoard(icon, b))
  OBVIOUS
<1>2. icon' = u.icon /\ global' = u.global /\ board' = [board EXCEPT !.up = @ \ {b}]
  BY <1>1 DEF TurnOff
<1>3. /\ Good(u) /\ \A i \in Icon : BoardOf[i] # b => u.icon[i] = icon[i]
      /\ \A i \in Icon : BoardOf[i] = b => u.icon[i].state \in {"none", "freed"}
  BY <1>1, TakenDown
<1>4. PICK X \in SUBSET Board : X = board.up \ {b}
  BY DEF BoardsInductive, FilesRight
<1>5. ASSUME NEW c \in X PROVE board.file[c] \subseteq {Saved(u.icon, c)}
  <2>1. PICK s : s = State
    OBVIOUS
  <2>2. s.icon = icon
    BY <2>1 DEF State
  <2>3. \A i \in Icon : BoardOf[i] = c => SavedAlike(u.icon[i], s.icon[i])
    BY <1>3, <1>4, <2>2 DEF SavedAlike
  <2>4. Saved(u.icon, c) = Saved(s.icon, c)
    BY <2>3, SavedSame
  <2>5. board.file[c] \subseteq {Saved(icon, c)}
    BY <1>4 DEF BoardsInductive, SavedAsShown
  <2> QED BY <2>2, <2>4, <2>5
<1>6. board' = [board EXCEPT !.up = X]
  BY <1>2, <1>4
<1> QED BY <1>2, <1>3, <1>5, <1>6, UpRight

--------------------
LEMMA BoardsStart == IconInit => BoardsInductive
<1> SUFFICES ASSUME IconInit PROVE BoardsInductive
  OBVIOUS
<1>1. PICK s : s = State
  OBVIOUS
<1>2. PICK g : g = [selection |-> {}, primary |-> FALSE, refused |-> FALSE, popup |-> "none",
                    at |-> NoIcon, tmp |-> FALSE, hash |-> [p \in Path |-> {}], shortcuts |-> {},
                    count |-> [k \in Key |-> 0], grabbed |-> {}]
  OBVIOUS
<1>3. s.icon = [i \in Icon |-> Absent] /\ s.global = g /\ s = [icon |-> s.icon, global |-> s.global]
  BY <1>1, <1>2 DEF IconInit, State
<1>4. g \in GlobalRecord
  BY <1>2 DEF GlobalRecord
<1>5. s \in IconState
  BY <1>3, <1>4, AbsentIs DEF IconState
<1>6. \A i \in Icon : s.icon[i] = Absent
  BY <1>3
<1>7. Chosen(s) /\ Grouped(s) /\ Pointed(s)
  BY <1>2, <1>3, <1>6, AbsentIs DEF Chosen, Grouped, Pointed
<1>8. Indexed(s)
  BY <1>2, <1>3, <1>6, AbsentIs DEF Indexed
<1>9. Keyed(s)
  <2>1. \A i \in Icon : KeyOfIcon(s.icon, i) = NoKey
    BY <1>6, AbsentIs DEF KeyOfIcon
  <2>2. ASSUME NEW k \in Key PROVE HaveKey(s, k) = {}
    BY <2>1 DEF HaveKey, Key
  <2>3. Cardinality({}) = 0
    BY FS_EmptySet
  <2>4. ASSUME NEW k \in Key
        PROVE  s.global.count[k] = Cardinality(HaveKey(s, k)) /\ (k \in s.global.grabbed => HaveKey(s, k) # {})
    <3>1. s.global.count[k] = 0
      BY <1>2, <1>3
    <3>2. s.global.grabbed = {}
      BY <1>2, <1>3
    <3> QED BY <2>2, <2>3, <3>1, <3>2
  <2> QED BY <1>2, <1>3, <2>1, <2>4 DEF Keyed
<1>10. Empty(s)
  BY <1>6, AbsentIs DEF Empty
<1>11. FilesRight
  <2>1. board = [up |-> {}, file |-> [b \in Board |-> {}]]
    BY DEF IconInit
  <2> QED BY <2>1 DEF FilesRight
<1>12. SavedAsShown
  BY DEF IconInit, SavedAsShown
<1> QED BY <1>1, <1>5, <1>7, <1>8, <1>9, <1>10, <1>11, <1>12 DEF BoardsInductive, Good

LEMMA BoardsNext == BoardsInductive /\ [SoundNext]_iconVars => BoardsInductive'
<1> SUFFICES ASSUME BoardsInductive, [SoundNext]_iconVars PROVE BoardsInductive'
  OBVIOUS
<1>1. CASE UNCHANGED iconVars
  <2>1. icon' = icon /\ global' = global /\ board' = board
    BY <1>1 DEF iconVars
  <2>2. PICK u : u = State
    OBVIOUS
  <2>3. Good(u) /\ u.icon = icon /\ u.global = global
    BY <2>2 DEF BoardsInductive, State
  <2>4. PICK X \in SUBSET Board : X = board.up
    BY DEF BoardsInductive, FilesRight
  <2>5. board' = [board EXCEPT !.up = X]
    BY <2>1, <2>4 DEF BoardsInductive, FilesRight
  <2>6. \A b \in X : FreedIn(u) = {} => board.file[b] \subseteq {Saved(u.icon, b)}
    BY <2>3, <2>4 DEF BoardsInductive, SavedAsShown, FreedIn, FreedSelected
  <2> QED BY <2>1, <2>3, <2>5, <2>6, UpRight
<1>2. CASE SoundNext
  <2>1. FreedSelected = {} /\ IconNext
    BY <1>2 DEF SoundNext
  <2>2. CASE \E i \in Icon : ToggleIcon(i) \/ SelectExcl(i) \/ IconDragStarts(i) \/ RemoveIcon(i)
    BY <2>1, <2>2, ToggleRight, ExclRight, DragStartsRight, RemoveIconRight
  <2>3. CASE ClearIcons
    BY <2>1, <2>3, ClearRight
  <2>4. CASE \E S \in SUBSET Icon : SelectLasso(S)
    BY <2>1, <2>4, LassoRight
  <2>5. CASE IconDragEnds
    BY <2>1, <2>5, DragEndsRight
  <2>6. CASE IconMenuCloses \/ \E i \in Icon \cup {NoIcon} : IconMenuOpens(i)
    BY <2>1, <2>6, MenuRight
  <2>7. CASE RemoveItems
    BY <2>1, <2>7, RemoveItemsRight
  <2>8. CASE ShowRenameBox \/ \E i \in Icon : CancelRename(i)
    BY <2>1, <2>8, BoxRight
  <2>9. CASE \E i \in Icon, d \in Descriptions : RenameActivate(i, d) \/ Pin(i, d) \/ PinUpdate(i, d)
    BY <2>1, <2>9, DescribedRight, PinRight
  <2>10. CASE LoseSelection
    BY <2>1, <2>10, LoseRight
  <2>11. CASE \E b \in Board : Activate(b) \/ TurnOff(b)
    BY <2>1, <2>11, ActivateRight, TurnOffRight
  <2> QED BY <2>1, <2>2, <2>3, <2>4, <2>5, <2>6, <2>7, <2>8, <2>9, <2>10, <2>11 DEF IconNext
<1> QED BY <1>1, <1>2

LEMMA BoardsFollow == BoardsInductive => BoardsRight
<1> SUFFICES ASSUME BoardsInductive PROVE BoardsRight
  OBVIOUS
<1>1. PICK s : s = State
  OBVIOUS
<1>2. Good(s) /\ s.icon = icon /\ s.global = global
  BY <1>1 DEF BoardsInductive, State
<1>3. s \in IconState /\ Chosen(s) /\ Grouped(s) /\ Indexed(s) /\ Keyed(s) /\ Pointed(s) /\ Empty(s)
  BY <1>2 DEF Good
<1>4. ASSUME FreedSelected = {} PROVE \A i \in Icon : i \in LiveIcons <=> icon[i].state # "none"
  <2>1. \A i \in Icon : icon[i].state \in {"none", "live", "freed"}
    BY <1>2, <1>3, IconIs
  <2> QED BY <1>4, <2>1 DEF LiveIcons, FreedSelected
<1>5. \A i \in Icon : icon[i].state = "none" => icon[i] = Absent
  BY <1>2, <1>3 DEF Empty
<1>6. OneGroup
  <2> SUFFICES ASSUME FreedSelected = {}
               PROVE  /\ global.selection = {i \in LiveIcons : icon[i].selected}
                      /\ \A i, j \in global.selection : BoardOf[i] = BoardOf[j]
                      /\ global.primary => global.selection # {}
    BY DEF OneGroup
  <2>1. global.selection = {i \in LiveIcons : icon[i].selected}
    <3>1. LiveIcons \subseteq Icon
      BY DEF LiveIcons
    <3> QED BY <1>2, <1>3, <1>4, <1>5, <3>1, AbsentIs DEF Chosen
  <2> QED BY <1>2, <1>3, <2>1 DEF Chosen, Grouped
<1>7. TablesExact
  <2> SUFFICES ASSUME FreedSelected = {}
               PROVE  /\ \A p \in Path : global.hash[p] = {i \in LiveIcons : icon[i].path = p}
                      /\ global.shortcuts = {i \in LiveIcons : KeyOfIcon(icon, i) # NoKey}
                      /\ \A k \in Key : LET S == {i \in LiveIcons : KeyOfIcon(icon, i) = k}
                                        IN global.count[k] = Cardinality(S) /\ (k \in global.grabbed => S # {})
                      /\ global.at \in LiveIcons \cup {NoIcon}
    BY DEF TablesExact
  <2>1. LiveIcons \subseteq Icon /\ \A i \in Icon : i \in LiveIcons <=> icon[i].state # "none"
    BY <1>4 DEF LiveIcons
  <2>2. \A p \in Path : global.hash[p] = {i \in LiveIcons : icon[i].path = p}
    BY <1>2, <1>3, <2>1 DEF Indexed
  <2>3. \A i \in Icon : i \notin LiveIcons => KeyOfIcon(icon, i) = NoKey
    BY <1>5, <2>1, AbsentIs DEF KeyOfIcon
  <2>4. global.shortcuts = {i \in LiveIcons : KeyOfIcon(icon, i) # NoKey}
    BY <1>2, <1>3, <2>1, <2>3 DEF Keyed
  <2>5. ASSUME NEW k \in Key PROVE {i \in LiveIcons : KeyOfIcon(icon, i) = k} = HaveKey(s, k)
    <3>1. k # NoKey
      BY DEF Key
    <3> QED BY <1>2, <2>1, <2>3, <3>1 DEF HaveKey
  <2>6. \A k \in Key : LET S == {i \in LiveIcons : KeyOfIcon(icon, i) = k}
                       IN global.count[k] = Cardinality(S) /\ (k \in global.grabbed => S # {})
    BY <1>2, <1>3, <2>5 DEF Keyed
  <2>7. global.at \in LiveIcons \cup {NoIcon}
    <3>1. global.at \in Icon \cup {NoIcon}
      BY <1>2, <1>3, PartsOf
    <3> QED BY <1>2, <1>3, <2>1, <3>1 DEF Pointed
  <2> QED BY <2>2, <2>4, <2>6, <2>7
<1> QED BY <1>6, <1>7 DEF BoardsInductive, BoardsRight

(* BoardsRight, whatever icons, boards, paths and keys there are: the *)
(* selection, PRIMARY, the tables of paths and shortcut keys and the files *)
(* of the boards agree with the icons there are, through edits, removals *)
(* and boards that are taken down and read back, as long as no Icon was *)
(* freed while it was selected (icon.c, pinboard.c, panel.c). *)
THEOREM BoardsAlwaysRight == BoardsSpec => []BoardsRight
<1>1. IconInit => BoardsInductive
  BY BoardsStart
<1>2. BoardsInductive /\ [SoundNext]_iconVars => BoardsInductive'
  BY BoardsNext
<1>3. BoardsInductive => BoardsRight
  BY BoardsFollow
<1> QED BY <1>1, <1>2, <1>3, PTL DEF BoardsSpec
=============================================================================

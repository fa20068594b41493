---------------------------- MODULE ActionProofs ----------------------------
(***************************************************************************)
(* Proofs about the action window and its child, for every set of paths,   *)
(* every tree of directories, every selection and any number of clicks:    *)
(* the two sides always mean the same by the bytes on the two pipes, and   *)
(* what follows from it for the user.  Then the same about the actions that*)
(* have an entry box, whose text goes down the pipe with the answers.      *)
(***************************************************************************)
EXTENDS Action, EntryAction, Functions, SequenceTheorems, FiniteSetTheorems, TLAPS

--------------------
(* The inductive invariant. *)

Byte   == Flag \cup {"Y", "N", "X"}
Packet == [type : {"?", "s", "M", "X", "!"}, path : Path \cup {NoPath}]
Task   == [op : {"do", "enter", "end"}, path : Path]

(* How many elements of the sequence s are in the set P. *)
Hits(s, P) == Cardinality({i \in DOMAIN s : s[i] \in P})

Of(type) == {m \in Packet : m.type = type}

(* Every message but an error is about a path. *)
Addressed ==
    /\ \A m \in Range(toParent) : m.type # "!" => m.path \in Path
    /\ gui.question => gui.asked \in Path
    /\ child.pc \in {"ask", "act", "handshake", "run", "tell"} => child.path \in Path

(* The filer only lets go of a child that has ended, after its last *)
(* message; a window closes after that, and only a signal kills a child. *)
Lifetimes ==
    /\ ~gui.alive => Dead /\ toParent = <<>> /\ ~gui.question
    /\ ~gui.open => ~gui.alive
    /\ child.signalled => gui.aborts > 0
    /\ child.pc = "killed" => child.signalled
    /\ child.pc = "exited" => child.todo = <<>>

(* What the child has yet to do: a directory is entered right after copy *)
(* made it, and only delete, copy and move look into one. *)
Agenda ==
    /\ child.todo # <<>> => \A t \in Range(Tail(child.todo)) : t.op # "enter"
    /\ \A t \in Range(child.todo) :
          /\ t.op = "enter" =>
                /\ kind = "copy" /\ t.path = child.path
                /\ child.pc \in {"next", "tell", "killed"}
          /\ t.op = "end" => kind \in {"delete", "copy", "move"}

(* OneAnswer, as a count, and where the question on its way comes from. *)
OneQuestion ==
    ~Dead =>
        /\ Hits(toParent, Of("?")) + Count(toChild, "Y") + Count(toChild, "N")
              + (IF gui.question THEN 1 ELSE 0)
             = IF child.pc = "ask" THEN 1 ELSE 0
        /\ gui.question => gui.asked = child.path
        /\ \A m \in Range(toParent) : m.type = "?" => m.path = child.path

(* The child's request to close windows, or the filer's X for it, is on *)
(* its way while the child waits for it and at no other time, and by the *)
(* time the X is read the windows are closed. *)
ClosingAsked ==
    ~Dead /\ ~child.confused =>
        /\ Count(toChild, "X") + Hits(toParent, Of("X"))
             = IF child.pc = "handshake" THEN 1 ELSE 0
        /\ \A m \in Range(toParent) : m.type = "X" => m.path = child.path
        /\ Count(toChild, "X") = 1 => child.path \in done.closed
        /\ child.pc = "run" => child.path \in done.closed

(* What the child is doing, or has yet to do without asking again, has *)
(* been agreed to. *)
Permitted == done.clicked \cup done.excused

AgreedTo ==
    ~child.confused =>
        /\ child.pc \in {"act", "handshake", "run", "tell"} => child.path \in Permitted
        /\ \A t \in Range(child.todo) : t.op # "do" => t.path \in Permitted
        /\ child.pc = "ask" /\ "Y" \in Range(toChild) => child.path \in done.clicked
        /\ done.performed \subseteq Permitted

(* As long as nothing was reported to have gone wrong, a path that was *)
(* agreed to is being worked on, or waits for its directory to be empty, *)
(* or is done and the filer told, or about to be. *)
Told(p) ==
    \/ p \in done.reported
    \/ \E m \in Range(toParent) : m.type \in {"s", "M"} /\ m.path = p
    \/ child.pc = "tell" /\ child.path = p

InHand(p) ==
    \/ p \in done.performed /\ Told(p)
    \/ child.pc \in {"act", "handshake", "run"} /\ child.path = p
    \/ /\ kind \in {"delete", "move"}
       /\ \E t \in Range(child.todo) : t.op = "end" /\ t.path = p

NothingWrong ==
    /\ gui.aborts = 0 /\ ~gui.errors /\ ~child.confused
    /\ \A m \in Range(toParent) : m.type # "!"

NoneForgotten == NothingWrong => \A p \in done.agreed : InHand(p)

(* FlagsAgree and ClosedFirst are inductive with these. *)
ActionInv ==
    /\ TypeOK /\ Addressed /\ Lifetimes /\ Agenda
    /\ FlagsAgree /\ OneQuestion
    /\ ClosingAsked /\ ClosedFirst
    /\ AgreedTo
    /\ NoneForgotten

--------------------
(* Counting on sequences. *)

LEMMA HitsNat ==
    ASSUME NEW S, NEW s \in Seq(S), NEW P
    PROVE  IsFiniteSet({i \in DOMAIN s : s[i] \in P}) /\ Hits(s, P) \in Nat
<1>1. DOMAIN s = 1..Len(s) /\ Len(s) \in Nat
  OBVIOUS
<1>2. IsFiniteSet(1..Len(s))
  BY <1>1, FS_Interval
<1>3. {i \in DOMAIN s : s[i] \in P} \in SUBSET (1..Len(s))
  BY <1>1
<1>4. IsFiniteSet({i \in DOMAIN s : s[i] \in P})
  BY <1>2, <1>3, FS_Subset
<1> QED BY <1>4, FS_CardinalityType DEF Hits

LEMMA HitsEmpty ==
    ASSUME NEW P PROVE Hits(<<>>, P) = 0
<1>1. {i \in DOMAIN <<>> : <<>>[i] \in P} = {}
  OBVIOUS
<1> QED BY <1>1, FS_EmptySet DEF Hits

LEMMA HitsOne ==
    ASSUME NEW x, NEW P PROVE Hits(<<x>>, P) = IF x \in P THEN 1 ELSE 0
<1>1. {i \in DOMAIN <<x>> : <<x>>[i] \in P} = IF x \in P THEN {1} ELSE {}
  OBVIOUS
<1> QED BY <1>1, FS_EmptySet, FS_Singleton DEF Hits

(* Nothing is counted exactly if no element is in P. *)
LEMMA HitsNone ==
    ASSUME NEW S, NEW s \in Seq(S), NEW P
    PROVE  Hits(s, P) = 0 <=> \A x \in Range(s) : x \notin P
<1>1. PICK A : A = {i \in DOMAIN s : s[i] \in P}
  OBVIOUS
<1>2. IsFiniteSet(A) /\ Hits(s, P) = Cardinality(A)
  BY <1>1, HitsNat DEF Hits
<1>3. Hits(s, P) = 0 <=> A = {}
  BY <1>2, FS_EmptySet
<1> QED BY <1>1, <1>3 DEF Range

LEMMA HitsConcat ==
    ASSUME NEW S, NEW s \in Seq(S), NEW t \in Seq(S), NEW P
    PROVE  Hits(s \o t, P) = Hits(s, P) + Hits(t, P)
<1> DEFINE I == {i \in DOMAIN s : s[i] \in P}
           J == {i \in DOMAIN t : t[i] \in P}
           K == {i \in DOMAIN (s \o t) : (s \o t)[i] \in P}
           L == {i \in K : i > Len(s)}
           shift == [j \in J |-> j + Len(s)]
<1>1. /\ DOMAIN s = 1..Len(s) /\ DOMAIN t = 1..Len(t) /\ Len(s) \in Nat /\ Len(t) \in Nat
      /\ DOMAIN (s \o t) = 1..(Len(s) + Len(t))
  OBVIOUS
<1>2. \A i \in 1..(Len(s) + Len(t)) : (s \o t)[i] = IF i <= Len(s) THEN s[i] ELSE t[i - Len(s)]
  BY ConcatProperties
<1>3. K = I \cup L /\ I \cap L = {}
  BY <1>1, <1>2
<1>4. shift \in [J -> L]
  BY <1>1, <1>2
<1>5. \A a, b \in J : shift[a] = shift[b] => a = b
  BY <1>1
<1>6. \A l \in L : l - Len(s) \in J /\ shift[l - Len(s)] = l
  BY <1>1, <1>2
<1>7. shift \in Bijection(J, L)
  BY <1>4, <1>5, <1>6 DEF Bijection, Injection, Surjection, IsInjective
<1>8. IsFiniteSet(I) /\ IsFiniteSet(J)
  BY HitsNat
<1>9. IsFiniteSet(L) /\ Cardinality(L) = Cardinality(J)
  BY <1>7, <1>8, FS_Bijection DEF ExistsBijection
<1> HIDE DEF I, J, K, L
<1>10. Cardinality(K) = Cardinality(I) + Cardinality(L) - Cardinality(I \cap L)
  BY <1>3, <1>8, <1>9, FS_Union
<1>11. Cardinality(I \cap L) = 0 /\ Cardinality(I) \in Nat /\ Cardinality(J) \in Nat
  BY <1>3, <1>8, FS_EmptySet, FS_CardinalityType
<1>12. Cardinality(K) = Cardinality(I) + Cardinality(J)
  BY <1>9, <1>10, <1>11
<1> QED BY <1>12 DEF Hits, I, J, K

LEMMA HeadAndTail ==
    ASSUME NEW S, NEW s \in Seq(S), s # <<>>
    PROVE  /\ Head(s) \in S /\ Tail(s) \in Seq(S)
           /\ s = <<Head(s)>> \o Tail(s)
           /\ Range(s) = {Head(s)} \cup Range(Tail(s))
           /\ \A P : Hits(s, P) = (IF Head(s) \in P THEN 1 ELSE 0) + Hits(Tail(s), P)
<1>1. Head(s) \in S /\ Tail(s) \in Seq(S) /\ <<Head(s)>> \in Seq(S)
  OBVIOUS
<1>2. s = <<Head(s)>> \o Tail(s)
  BY <1>1
<1>3. Range(<<Head(s)>>) = {Head(s)}
  BY DEF Range
<1> DEFINE h == Head(s)
           t == Tail(s)
<1> HIDE DEF h, t
<1>4. h \in S /\ t \in Seq(S) /\ <<h>> \in Seq(S) /\ s = <<h>> \o t /\ Range(<<h>>) = {h}
  BY <1>1, <1>2, <1>3 DEF h, t
<1>5. Range(<<h>> \o t) = Range(<<h>>) \cup Range(t)
  <2> DEFINE first == <<h>>
  <2>1. first \in Seq(S)
    BY <1>4
  <2> HIDE DEF first
  <2>2. Range(first \o t) = Range(first) \cup Range(t)
    BY <1>4, <2>1, RangeConcatenation
  <2> QED BY <2>2 DEF first
<1>6. ASSUME NEW P PROVE Hits(s, P) = (IF h \in P THEN 1 ELSE 0) + Hits(t, P)
  <2>1. Hits(<<h>> \o t, P) = Hits(<<h>>, P) + Hits(t, P)
    BY <1>4, HitsConcat
  <2> QED BY <1>4, <2>1, HitsOne
<1> QED BY <1>1, <1>2, <1>4, <1>5, <1>6 DEF h, t

LEMMA InRange ==
    ASSUME NEW S, NEW s \in Seq(S), s # <<>>
    PROVE  /\ Head(s) \in S /\ Tail(s) \in Seq(S)
           /\ Head(s) \in Range(s) /\ Range(Tail(s)) \subseteq Range(s)
BY HeadAndTail

LEMMA RangeOne ==
    /\ \A x : Range(<<x>>) = {x}
    /\ Range(<<>>) = {}
BY DEF Range

LEMMA CountIsHits ==
    ASSUME NEW s, NEW x PROVE Count(s, x) = Hits(s, {x})
<1>1. {i \in DOMAIN s : s[i] = x} = {i \in DOMAIN s : s[i] \in {x}}
  OBVIOUS
<1> QED BY <1>1 DEF Count, Hits

LEMMA OddFlips ==
    ASSUME NEW n \in Nat PROVE (n + 1) % 2 = 1 <=> ~(n % 2 = 1)
OBVIOUS

(* A sequence that grows at its end, and one that is read from its start. *)
LEMMA CountGrows ==
    ASSUME NEW s \in Seq(Byte), NEW b \in Byte, NEW x
    PROVE  /\ Count(s, x) \in Nat
           /\ Count(s \o <<b>>, x) = Count(s, x) + (IF b = x THEN 1 ELSE 0)
           /\ b = x => Odd(s \o <<b>>, x) = ~Odd(s, x)
           /\ b # x => Odd(s \o <<b>>, x) = Odd(s, x)
<1>1. Count(s, x) \in Nat
  BY HitsNat, CountIsHits
<1>2. Count(s \o <<b>>, x) = Count(s, x) + (IF b = x THEN 1 ELSE 0)
  <2> DEFINE t == <<b>>
  <2>1. t \in Seq(Byte)
    OBVIOUS
  <2> HIDE DEF t
  <2>2. Hits(s \o t, {x}) = Hits(s, {x}) + Hits(t, {x})
    BY <2>1, HitsConcat
  <2>3. Hits(<<b>>, {x}) = IF b = x THEN 1 ELSE 0
    BY HitsOne
  <2> QED BY <2>2, <2>3, CountIsHits DEF t
<1> QED BY <1>1, <1>2, OddFlips DEF Odd

LEMMA CountShrinks ==
    ASSUME NEW s \in Seq(Byte), s # <<>>, NEW x
    PROVE  /\ Count(Tail(s), x) \in Nat
           /\ Count(s, x) = Count(Tail(s), x) + (IF Head(s) = x THEN 1 ELSE 0)
           /\ Head(s) = x => Odd(s, x) = ~Odd(Tail(s), x)
           /\ Head(s) # x => Odd(s, x) = Odd(Tail(s), x)
           /\ Odd(<<Head(s)>>, x) = (Head(s) = x)
<1>1. Count(Tail(s), x) \in Nat
  BY HitsNat, CountIsHits, HeadAndTail
<1>2. Count(s, x) = Count(Tail(s), x) + (IF Head(s) = x THEN 1 ELSE 0)
  <2>1. Hits(s, {x}) = (IF Head(s) \in {x} THEN 1 ELSE 0) + Hits(Tail(s), {x})
    BY HeadAndTail
  <2>2. Hits(Tail(s), {x}) \in Nat
    BY <1>1, CountIsHits
  <2> QED BY <2>1, <2>2, CountIsHits
<1>3. Odd(<<Head(s)>>, x) = (Head(s) = x)
  <2>1. Count(<<Head(s)>>, x) = IF Head(s) = x THEN 1 ELSE 0
    BY HitsOne, CountIsHits
  <2> QED BY <2>1 DEF Odd
<1> QED BY <1>1, <1>2, <1>3, OddFlips DEF Odd

LEMMA OddIsBoolean ==
    ASSUME NEW s, NEW x PROVE Odd(s, x) \in BOOLEAN
BY DEF Odd

LEMMA CountNothing ==
    ASSUME NEW x PROVE Count(<<>>, x) = 0 /\ ~Odd(<<>>, x)
<1>1. Count(<<>>, x) = 0
  BY HitsEmpty, CountIsHits
<1> QED BY <1>1 DEF Odd

LEMMA CountNone ==
    ASSUME NEW s \in Seq(Byte), NEW x PROVE Count(s, x) = 0 <=> x \notin Range(s)
BY HitsNone, CountIsHits

LEMMA BytesGrow ==
    ASSUME NEW s \in Seq(Byte), NEW b \in Byte
    PROVE  s \o <<b>> \in Seq(Byte) /\ Range(s \o <<b>>) = Range(s) \cup {b}
<1> DEFINE t == <<b>>
<1>1. t \in Seq(Byte) /\ Range(t) = {b}
  BY RangeOne
<1> HIDE DEF t
<1>2. s \o t \in Seq(Byte) /\ Range(s \o t) = Range(s) \cup {b}
  BY <1>1, ConcatProperties, RangeConcatenation
<1> QED BY <1>2, Zenon DEF t

--------------------
(* The messages. *)

LEMMA MessagesGrow ==
    ASSUME toParent \in Seq(Packet), NEW ms \in Seq(Packet), Send(ms)
    PROVE  /\ toParent' \in Seq(Packet)
           /\ Range(toParent') = Range(toParent) \cup Range(ms)
           /\ \A P : Hits(toParent', P) = Hits(toParent, P) + Hits(ms, P)
<1>1. toParent' = toParent \o ms
  BY DEF Send
<1>2. \A P : Hits(toParent \o ms, P) = Hits(toParent, P) + Hits(ms, P)
  BY HitsConcat
<1>3. Range(toParent \o ms) = Range(toParent) \cup Range(ms)
  BY RangeConcatenation
<1>4. toParent \o ms \in Seq(Packet)
  BY ConcatProperties
<1> QED BY <1>1, <1>2, <1>3, <1>4

LEMMA ErrorMessages ==
    ASSUME NEW n \in Nat
    PROVE  /\ Errors(n) \in Seq(Packet)
           /\ Range(Errors(n)) = IF n = 0 THEN {} ELSE {Message("!", NoPath)}
           /\ n = 0 => Errors(n) = <<>>
           /\ \A t : t # "!" => Hits(Errors(n), Of(t)) = 0
<1>1. Errors(n) \in Seq(Packet)
  BY DEF Errors, Packet, Message
<1>2. Range(Errors(n)) = IF n = 0 THEN {} ELSE {Message("!", NoPath)}
  BY DEF Errors, Range
<1>3. n = 0 => Errors(n) = <<>>
  BY DEF Errors
<1>4. ASSUME NEW t, t # "!" PROVE Hits(Errors(n), Of(t)) = 0
  BY <1>1, <1>2, <1>4, HitsNone DEF Of, Message
<1> QED BY <1>1, <1>2, <1>3, <1>4

(* Errors are all that the child sends: the filer still owes the same. *)
LEMMA OnlyErrors ==
    ASSUME toParent \in Seq(Packet), NEW n \in Nat, Send(Errors(n))
    PROVE  /\ toParent' \in Seq(Packet)
           /\ Range(toParent') = Range(toParent) \cup
                                 (IF n = 0 THEN {} ELSE {Message("!", NoPath)})
           /\ Hits(toParent', Of("?")) = Hits(toParent, Of("?"))
           /\ Hits(toParent', Of("X")) = Hits(toParent, Of("X"))
<1> DEFINE ms == Errors(n)
<1>1. /\ ms \in Seq(Packet)
      /\ Range(ms) = IF n = 0 THEN {} ELSE {Message("!", NoPath)}
      /\ Hits(ms, Of("?")) = 0 /\ Hits(ms, Of("X")) = 0
  BY ErrorMessages
<1> HIDE DEF ms
<1>2. Send(ms)
  BY DEF ms
<1>3. /\ toParent' \in Seq(Packet)
      /\ Range(toParent') = Range(toParent) \cup Range(ms)
      /\ Hits(toParent', Of("?")) = Hits(toParent, Of("?")) + Hits(ms, Of("?"))
      /\ Hits(toParent', Of("X")) = Hits(toParent, Of("X")) + Hits(ms, Of("X"))
  BY <1>1, <1>2, MessagesGrow
<1>4. Hits(toParent, Of("?")) \in Nat /\ Hits(toParent, Of("X")) \in Nat
  BY HitsNat
<1> QED BY <1>1, <1>3, <1>4

LEMMA OneMessage ==
    ASSUME toParent \in Seq(Packet), NEW m \in Packet, Send(<<m>>)
    PROVE  /\ toParent' \in Seq(Packet)
           /\ Range(toParent') = Range(toParent) \cup {m}
           /\ \A t : Hits(toParent', Of(t))
                       = Hits(toParent, Of(t)) + (IF m.type = t THEN 1 ELSE 0)
<1> DEFINE ms == <<m>>
<1>1. ms \in Seq(Packet) /\ Range(ms) = {m}
  BY RangeOne
<1>2. \A t : Hits(ms, Of(t)) = IF m.type = t THEN 1 ELSE 0
  BY HitsOne DEF Of
<1>3. Send(ms)
  OBVIOUS
<1> HIDE DEF ms
<1>4. /\ toParent' \in Seq(Packet) /\ Range(toParent') = Range(toParent) \cup Range(ms)
      /\ \A P : Hits(toParent', P) = Hits(toParent, P) + Hits(ms, P)
  BY <1>1, <1>3, MessagesGrow
<1> QED BY <1>1, <1>2, <1>4

--------------------
(* Every step keeps the invariant. *)

LEMMA Types ==
    ASSUME TypeOK
    PROVE  /\ toChild \in Seq(Byte) /\ toParent \in Seq(Packet) /\ child.todo \in Seq(Task)
           /\ \A P : Hits(toParent, P) \in Nat
           /\ \A x : Count(toChild, x) \in Nat
<1>1. toChild \in Seq(Byte) /\ toParent \in Seq(Packet) /\ child.todo \in Seq(Task)
  BY DEF TypeOK, Byte, Packet, Task
<1> QED BY <1>1, HitsNat, CountIsHits

LEMMA NewGroupKeeps ==
    ASSUME ActionInv, NewGroup PROVE ActionInv'
<1>1. /\ child.pc = "forked" /\ child' = [child EXCEPT !.pc = "next"]
      /\ UNCHANGED <<kind, gui, toChild, toParent, done>>
  BY DEF NewGroup
<1>2. TypeOK'
  BY <1>1 DEF ActionInv, TypeOK
<1>3. Addressed' /\ Lifetimes' /\ Agenda'
  BY <1>1 DEF ActionInv, TypeOK, Addressed, Lifetimes, Agenda, Dead
<1>4. FlagsAgree' /\ OneQuestion'
  BY <1>1 DEF ActionInv, TypeOK, FlagsAgree, OneQuestion, Dead
<1>5. ClosingAsked' /\ ClosedFirst' /\ AgreedTo'
  BY <1>1 DEF ActionInv, TypeOK, ClosingAsked, ClosedFirst, AgreedTo, Permitted, Dead
<1>6. NoneForgotten'
  BY <1>1 DEF ActionInv, TypeOK, NoneForgotten, NothingWrong, InHand, Told
<1> QED BY <1>2, <1>3, <1>4, <1>5, <1>6 DEF ActionInv

LEMMA ExitKeeps ==
    ASSUME ActionInv, Exit PROVE ActionInv'
<1>1. /\ child.pc = "next" /\ child.todo = <<>> /\ child' = [child EXCEPT !.pc = "exited"]
      /\ UNCHANGED <<kind, gui, toChild, toParent, done>>
  BY DEF Exit
<1>2. TypeOK'
  BY <1>1 DEF ActionInv, TypeOK
<1>3. Addressed' /\ Lifetimes' /\ Agenda'
  BY <1>1, RangeOne DEF ActionInv, TypeOK, Addressed, Lifetimes, Agenda, Dead
<1>4. FlagsAgree' /\ OneQuestion'
  BY <1>1 DEF ActionInv, TypeOK, FlagsAgree, OneQuestion, Dead
<1>5. ClosingAsked' /\ ClosedFirst' /\ AgreedTo'
  BY <1>1 DEF ActionInv, TypeOK, ClosingAsked, ClosedFirst, AgreedTo, Permitted, Dead
<1>6. NoneForgotten'
  BY <1>1 DEF ActionInv, TypeOK, NoneForgotten, NothingWrong, InHand, Told
<1> QED BY <1>2, <1>3, <1>4, <1>5, <1>6 DEF ActionInv

(* A killed child may have been in the middle of anything. *)
LEMMA KilledKeeps ==
    ASSUME ActionInv, Killed PROVE ActionInv'
<1>1. /\ child.signalled /\ ~Dead /\ child' = [child EXCEPT !.pc = "killed"]
      /\ UNCHANGED <<kind, gui, toChild, toParent, done>>
  BY DEF Killed
<1>2. TypeOK'
  BY <1>1 DEF ActionInv, TypeOK
<1>3. Addressed' /\ Lifetimes'
  BY <1>1 DEF ActionInv, TypeOK, Addressed, Lifetimes, Dead
<1>4. Agenda'
  BY <1>1 DEF ActionInv, TypeOK, Agenda
<1>5. FlagsAgree' /\ OneQuestion'
  BY <1>1 DEF ActionInv, TypeOK, FlagsAgree, OneQuestion, Dead
<1>6. ClosingAsked' /\ ClosedFirst' /\ AgreedTo'
  BY <1>1 DEF ActionInv, TypeOK, ClosingAsked, ClosedFirst, AgreedTo, Permitted, Dead
<1>7. gui.aborts # 0
  BY <1>1 DEF ActionInv, Lifetimes
<1>8. NoneForgotten'
  BY <1>1, <1>7 DEF NoneForgotten, NothingWrong
<1> QED BY <1>2, <1>3, <1>4, <1>5, <1>6, <1>8 DEF ActionInv

LEMMA CancelKeeps ==
    ASSUME ActionInv, Cancel PROVE ActionInv'
<1>1. CASE gui.alive
  <2>1. /\ gui.aborts < MaxAborts /\ gui' = [gui EXCEPT !.aborts = @ + 1]
        /\ child' = [child EXCEPT !.signalled = @ \/ child.pc # "forked"]
        /\ UNCHANGED <<kind, toChild, toParent, done>>
    BY <1>1 DEF Cancel
  <2>2. gui.aborts + 1 \in 0..MaxAborts /\ gui.aborts + 1 > 0
    BY <2>1, ActionAssumption DEF ActionInv, TypeOK
  <2>3. (child.signalled \/ child.pc # "forked") \in BOOLEAN
    BY DEF ActionInv, TypeOK
  <2>4. TypeOK'
    BY <2>1, <2>2, <2>3 DEF ActionInv, TypeOK
  <2>5. Addressed' /\ Lifetimes'
    BY <1>1, <2>1, <2>2 DEF ActionInv, TypeOK, Addressed, Lifetimes, Dead
  <2>6. Agenda'
    BY <2>1 DEF ActionInv, TypeOK, Agenda
  <2>7. FlagsAgree' /\ OneQuestion'
    BY <2>1 DEF ActionInv, TypeOK, FlagsAgree, OneQuestion, Dead
  <2>8. ClosingAsked' /\ ClosedFirst'
    BY <2>1 DEF ActionInv, TypeOK, ClosingAsked, ClosedFirst, Dead
  <2>9. AgreedTo'
    BY <2>1 DEF ActionInv, TypeOK, AgreedTo, Permitted
  <2>10. NoneForgotten'
    BY <2>1, <2>2 DEF ActionInv, TypeOK, NoneForgotten, NothingWrong
  <2> QED BY <2>4, <2>5, <2>6, <2>7, <2>8, <2>9, <2>10 DEF ActionInv
<1>2. CASE ~gui.alive
  <2>1. /\ gui' = [gui EXCEPT !.open = FALSE]
        /\ UNCHANGED <<kind, child, toChild, toParent, done>>
    BY <1>2 DEF Cancel
  <2>2. TypeOK'
    BY <2>1 DEF ActionInv, TypeOK
  <2>3. Addressed' /\ Lifetimes' /\ Agenda'
    BY <1>2, <2>1 DEF ActionInv, TypeOK, Addressed, Lifetimes, Agenda, Dead
  <2>4. FlagsAgree' /\ OneQuestion'
    BY <2>1 DEF ActionInv, TypeOK, FlagsAgree, OneQuestion, Dead
  <2>5. ClosingAsked' /\ ClosedFirst' /\ AgreedTo'
    BY <2>1 DEF ActionInv, TypeOK, ClosingAsked, ClosedFirst, AgreedTo, Permitted, Dead
  <2>6. NoneForgotten'
    BY <2>1 DEF ActionInv, TypeOK, NoneForgotten, NothingWrong, InHand, Told
  <2> QED BY <2>2, <2>3, <2>4, <2>5, <2>6 DEF ActionInv
<1> QED BY <1>1, <1>2

(* A step that leaves the filer and the bytes to the child alone, sends at *)
(* most errors and neither asks nor waits for windows to close. *)
LEMMA WorkStep ==
    ASSUME ActionInv, UNCHANGED <<kind, gui, toChild>>, TypeOK', Agenda',
           NEW n \in Nat, Send(Errors(n)),
           ~Dead, child.pc \notin {"ask", "handshake"},
           child'.pc \in {"next", "tell"}, child'.path \in Path,
           child'.flag = child.flag, child'.signalled = child.signalled,
           child'.confused = child.confused,
           done'.closed = done.closed, done'.clicked = done.clicked,
           done'.excused = done.excused, done'.reported = done.reported
    PROVE  /\ Addressed' /\ Lifetimes' /\ FlagsAgree' /\ OneQuestion' /\ ClosingAsked'
           /\ Range(toParent) \subseteq Range(toParent')
           /\ NothingWrong' => n = 0 /\ NothingWrong /\ toParent' = toParent
<1>1. /\ Range(toParent') = Range(toParent) \cup (IF n = 0 THEN {} ELSE {Message("!", NoPath)})
      /\ Hits(toParent', Of("?")) = Hits(toParent, Of("?"))
      /\ Hits(toParent', Of("X")) = Hits(toParent, Of("X"))
      /\ toParent \in Seq(Packet)
  BY Types, OnlyErrors DEF ActionInv
<1>2. gui.alive
  BY DEF ActionInv, Lifetimes
<1>3. Addressed'
  BY <1>1 DEF ActionInv, Addressed, Message
<1>4. Lifetimes'
  BY <1>2 DEF ActionInv, Lifetimes, Dead
<1>5. FlagsAgree'
  BY DEF ActionInv, FlagsAgree
<1>6. /\ \A x : Count(toChild, x) \in Nat
      /\ \A P : Hits(toParent, P) \in Nat
  BY Types DEF ActionInv
<1>7. Hits(toParent, Of("?")) = 0 /\ ~gui.question
  BY <1>6 DEF ActionInv, OneQuestion
<1>8. \A m \in Range(toParent) : m.type # "?"
  <2>1. \A m \in Range(toParent) : m \in Packet
    BY <1>1, RangeOfSeq
  <2> QED BY <1>1, <1>7, <2>1, HitsNone DEF Of
<1>9. OneQuestion'
  BY <1>1, <1>7, <1>8 DEF ActionInv, OneQuestion, Dead, Message
<1>10. ASSUME ~child.confused PROVE \A m \in Range(toParent) : m.type # "X"
  <2>1. Hits(toParent, Of("X")) = 0
    BY <1>6, <1>10 DEF ActionInv, ClosingAsked
  <2>2. \A m \in Range(toParent) : m \in Packet
    BY <1>1, RangeOfSeq
  <2> QED BY <1>1, <2>1, <2>2, HitsNone DEF Of
<1>11. ASSUME ~child.confused
       PROVE  Hits(toParent, Of("X")) = 0 /\ Count(toChild, "X") = 0
  BY <1>6, <1>11 DEF ActionInv, ClosingAsked
<1>12. ClosingAsked'
  BY <1>1, <1>10, <1>11 DEF ClosingAsked, Dead, Message
<1>13. ASSUME NothingWrong' PROVE n = 0 /\ NothingWrong
  <2>1. \A m \in Range(toParent') : m.type # "!"
    BY <1>13 DEF NothingWrong
  <2>2. Message("!", NoPath).type = "!"
    BY DEF Message
  <2>3. n = 0
    BY <1>1, <2>1, <2>2
  <2> QED BY <1>1, <1>13, <2>1, <2>3 DEF NothingWrong
<1>14. n = 0 => toParent' = toParent
  BY <1>1, ErrorMessages, ConcatEmptySeq DEF Send
<1> QED BY <1>1, <1>3, <1>4, <1>5, <1>9, <1>12, <1>13, <1>14

LEMMA JobsAreTasks ==
    ASSUME NEW s \in Seq(Path)
    PROVE  Jobs(s) \in Seq(Task) /\ \A t \in Range(Jobs(s)) : t.op = "do"
<1>1. Jobs(s) \in Seq(Task)
  <2>1. /\ Len(s) \in Nat /\ DOMAIN s = 1..Len(s)
        /\ \A i \in 1..Len(s) : [op |-> "do", path |-> s[i]] \in Task
    BY DEF Task
  <2> QED BY <2>1 DEF Jobs, Job
<1> QED BY <1>1 DEF Jobs, Job, Range

LEMMA FailsKeeps ==
    ASSUME ActionInv, Fails \/ FailsMounted PROVE ActionInv'
<1>1. PICK pc \in {"tell", "next"} : child' = [child EXCEPT !.pc = pc]
  BY DEF Fails, FailsMounted
<1>2. /\ child.pc \in {"run", "act"} /\ Send(Errors(1))
      /\ UNCHANGED <<kind, gui, toChild, done>>
  BY DEF Fails, FailsMounted
<1>3. /\ child'.pc = pc
      /\ child'.path = child.path /\ child'.flag = child.flag /\ child'.todo = child.todo
      /\ child'.signalled = child.signalled /\ child'.confused = child.confused
  BY <1>1 DEF ActionInv, TypeOK
<1>4. toParent' \in Seq(Packet)
  BY <1>2, Types, OnlyErrors DEF ActionInv
<1>5. TypeOK'
  BY <1>1, <1>2, <1>4 DEF ActionInv, TypeOK, Packet
<1>6. Agenda'
  BY <1>2, <1>3 DEF ActionInv, Agenda
<1>7. child.path \in Path
  BY <1>2 DEF ActionInv, Addressed
<1>8. /\ Addressed' /\ Lifetimes' /\ FlagsAgree' /\ OneQuestion' /\ ClosingAsked'
      /\ ~NothingWrong'
  BY <1>2, <1>3, <1>5, <1>6, <1>7, WorkStep DEF Dead
<1>9. ClosedFirst' /\ AgreedTo'
  BY <1>2, <1>3 DEF ActionInv, ClosedFirst, AgreedTo, Permitted
<1> QED BY <1>5, <1>6, <1>8, <1>9 DEF ActionInv, NoneForgotten

LEMMA WorksKeeps ==
    ASSUME ActionInv, Works PROVE ActionInv'
<1> DEFINE more == IF kind = "copy" /\ IsDir(child.path)
                   THEN <<Job("enter", child.path)>> ELSE <<>>
<1>1. PICK failed \in 0..1 : Send(Errors(failed))
  BY DEF Works
<1>2. /\ \/ child.pc = "run"
         \/ child.pc = "act" /\ kind \notin {"umount", "eject"}
      /\ child' = [child EXCEPT !.pc = "tell", !.todo = more \o @]
      /\ done' = [done EXCEPT !.performed = @ \cup {child.path}]
      /\ UNCHANGED <<kind, gui, toChild>>
  BY DEF Works
<1>3. child.path \in Path /\ ~Dead
  BY <1>2 DEF ActionInv, Addressed, Dead
<1>4. /\ more \in Seq(Task)
      /\ Range(more) \subseteq {Job("enter", child.path)}
      /\ more = <<>> \/ (kind = "copy" /\ more = <<Job("enter", child.path)>>)
  <2>1. Job("enter", child.path) \in Task
    BY <1>3 DEF Job, Task
  <2>2. CASE kind = "copy" /\ IsDir(child.path)
    BY <2>1, <2>2, RangeOne
  <2>3. CASE ~(kind = "copy" /\ IsDir(child.path))
    BY <2>3, RangeOne
  <2> QED BY <2>2, <2>3
<1> HIDE DEF more
<1>5. child.todo \in Seq(Task) /\ more \o child.todo \in Seq(Task)
      /\ Range(more \o child.todo) = Range(more) \cup Range(child.todo)
  BY <1>4, Types, ConcatProperties, RangeConcatenation DEF ActionInv
<1>6. /\ child'.pc = "tell" /\ child'.todo = more \o child.todo
      /\ child'.path = child.path /\ child'.flag = child.flag
      /\ child'.signalled = child.signalled /\ child'.confused = child.confused
  BY <1>2 DEF ActionInv, TypeOK
<1>7. toParent' \in Seq(Packet)
  BY <1>1, Types, OnlyErrors DEF ActionInv
<1>8. TypeOK'
  BY <1>2, <1>3, <1>5, <1>7 DEF ActionInv, TypeOK, Packet, Task
<1>9. \A t \in Range(child.todo) : t.op # "enter"
  BY <1>2 DEF ActionInv, Agenda
<1>10. child'.todo # <<>> => \A t \in Range(Tail(child'.todo)) : t.op # "enter"
  <2>1. CASE more = <<>>
    <3>1. child'.todo = child.todo
      BY <1>5, <1>6, <2>1, ConcatEmptySeq
    <3> QED BY <3>1 DEF ActionInv, Agenda
  <2>2. CASE more = <<Job("enter", child.path)>>
    <3>1. Tail(child'.todo) = child.todo
      BY <1>5, <1>6, <2>2
    <3> QED BY <1>9, <3>1
  <2> QED BY <1>4, <2>1, <2>2
<1>11. Agenda'
  <2>1. ASSUME NEW t \in Range(child'.todo)
        PROVE  /\ t.op = "enter" => kind = "copy" /\ t.path = child.path
               /\ t.op = "end" => kind \in {"delete", "copy", "move"}
    <3>1. CASE t \in Range(child.todo)
      BY <1>9, <3>1 DEF ActionInv, Agenda
    <3>2. CASE t \in Range(more)
      BY <1>4, <3>2, RangeOne DEF Job
    <3> QED BY <1>5, <1>6, <2>1, <3>1, <3>2
  <2> QED BY <1>2, <1>6, <1>10, <2>1 DEF Agenda
<1>12. /\ done'.performed = done.performed \cup {child.path} /\ done'.closed = done.closed
       /\ done'.clicked = done.clicked /\ done'.excused = done.excused
       /\ done'.reported = done.reported /\ done'.agreed = done.agreed
  BY <1>2 DEF ActionInv, TypeOK
<1>13. /\ Addressed' /\ Lifetimes' /\ FlagsAgree' /\ OneQuestion' /\ ClosingAsked'
       /\ NothingWrong' => failed = 0 /\ NothingWrong /\ toParent' = toParent
  BY <1>1, <1>2, <1>3, <1>6, <1>8, <1>11, <1>12, WorkStep
<1>14. ClosedFirst'
  BY <1>2, <1>3, <1>6, <1>12 DEF ActionInv, ClosedFirst, ClosingAsked
<1>15. AgreedTo'
  BY <1>2, <1>4, <1>5, <1>6, <1>12 DEF ActionInv, AgreedTo, Permitted, Job
<1>16. NoneForgotten'
  BY <1>2, <1>5, <1>6, <1>12, <1>13 DEF ActionInv, NoneForgotten, InHand, Told
<1> QED BY <1>8, <1>11, <1>13, <1>14, <1>15, <1>16 DEF ActionInv

LEMMA EndDirectoryKeeps ==
    ASSUME ActionInv, EndDirectory PROVE ActionInv'
<1> DEFINE job == Head(child.todo)
           rest == Tail(child.todo)
<1>1. PICK failed \in 0..1 :
          /\ child' = [child EXCEPT !.path = job.path, !.todo = rest,
                !.pc = IF kind = "move" \/ (kind = "delete" /\ failed = 0) THEN "tell" ELSE "next"]
          /\ Send(IF kind = "move" THEN <<>> ELSE Errors(failed))
          /\ done' = [done EXCEPT !.performed =
                IF kind = "move" \/ (kind = "delete" /\ failed = 0) THEN @ \cup {job.path} ELSE @]
  BY DEF EndDirectory
<1>2. /\ child.pc = "next" /\ child.todo # <<>> /\ job.op = "end"
      /\ UNCHANGED <<kind, gui, toChild>>
  BY DEF EndDirectory
<1> DEFINE success == kind = "move" \/ (kind = "delete" /\ failed = 0)
           n == IF kind = "move" THEN 0 ELSE failed
<1>3. job \in Task /\ rest \in Seq(Task) /\ Range(child.todo) = {job} \cup Range(rest)
  BY <1>2, Types, HeadAndTail DEF ActionInv
<1>4. n \in Nat /\ Send(Errors(n))
  BY <1>1, ErrorMessages
<1> HIDE DEF rest
<1>5. /\ child'.pc = (IF success THEN "tell" ELSE "next") /\ child'.todo = rest
      /\ child'.path = job.path /\ child'.flag = child.flag
      /\ child'.signalled = child.signalled /\ child'.confused = child.confused
  BY <1>1 DEF ActionInv, TypeOK
<1>6. toParent' \in Seq(Packet)
  BY <1>4, Types, OnlyErrors DEF ActionInv
<1>7. job.path \in Path
  BY <1>3 DEF Task
<1>8. /\ done'.performed = IF success THEN done.performed \cup {job.path} ELSE done.performed
      /\ done'.closed = done.closed
      /\ done'.clicked = done.clicked /\ done'.excused = done.excused
      /\ done'.reported = done.reported /\ done'.agreed = done.agreed
  BY <1>1 DEF ActionInv, TypeOK
<1> HIDE DEF job
<1>9. TypeOK'
  BY <1>1, <1>2, <1>3, <1>6, <1>7 DEF ActionInv, TypeOK, Packet, Task
<1>10. \A t \in Range(rest) : t.op # "enter"
  BY <1>2 DEF ActionInv, Agenda, rest
<1>11. rest # <<>> => Range(Tail(rest)) \subseteq Range(rest)
  BY <1>3, HeadAndTail
<1>12. Agenda'
  BY <1>2, <1>3, <1>5, <1>10, <1>11 DEF ActionInv, Agenda
<1>13. /\ Addressed' /\ Lifetimes' /\ FlagsAgree' /\ OneQuestion' /\ ClosingAsked'
       /\ NothingWrong' => n = 0 /\ NothingWrong /\ toParent' = toParent
  BY <1>2, <1>4, <1>5, <1>7, <1>8, <1>9, <1>12, WorkStep DEF Dead
<1>14. ClosedFirst'
  BY <1>2, <1>3, <1>5, <1>8 DEF ActionInv, ClosedFirst
<1>15. AgreedTo'
  BY <1>2, <1>3, <1>5, <1>8 DEF ActionInv, AgreedTo, Permitted
<1>16. NoneForgotten'
  <2> SUFFICES ASSUME NothingWrong', NEW p \in done.agreed PROVE InHand(p)'
    BY <1>8 DEF NoneForgotten
  <2>1. n = 0 /\ toParent' = toParent /\ InHand(p)
    BY <1>13 DEF ActionInv, NoneForgotten
  <2> HIDE DEF n
  <2>2. CASE p \in done.performed /\ Told(p)
    BY <1>2, <1>5, <1>8, <2>1, <2>2 DEF InHand, Told
  <2>3. CASE /\ kind \in {"delete", "move"}
             /\ \E t \in Range(child.todo) : t.op = "end" /\ t.path = p
    <3>1. PICK t \in Range(child.todo) : t.op = "end" /\ t.path = p
      BY <2>3
    <3>2. success
      BY <2>1, <2>3 DEF n
    <3> QED BY <1>2, <1>3, <1>5, <1>8, <2>3, <3>1, <3>2 DEF InHand, Told
  <2> QED BY <1>2, <2>1, <2>2, <2>3 DEF InHand
<1> QED BY <1>9, <1>12, <1>13, <1>14, <1>15, <1>16 DEF ActionInv

LEMMA EnterDirectoryKeeps ==
    ASSUME ActionInv, EnterDirectory PROVE ActionInv'
<1> DEFINE path == child.path
           rest == IF child.pc = "act" THEN child.todo ELSE Tail(child.todo)
           ending == IF child.pc = "act" /\ kind = "copy" THEN <<>> ELSE <<Job("end", path)>>
<1>1. PICK readable \in BOOLEAN :
          /\ child' = [child EXCEPT !.pc = "next",
               !.todo = (IF readable THEN Jobs(Contents[path]) ELSE <<>>) \o ending \o rest]
          /\ Send(IF readable THEN <<>> ELSE Errors(1))
  BY DEF EnterDirectory
<1> DEFINE jobs == IF readable THEN Jobs(Contents[path]) ELSE <<>>
           todo == jobs \o ending \o rest
           n == IF readable THEN 0 ELSE 1
<1>2. /\ \/ child.pc = "act" /\ (kind = "delete" \/ MergeInto)
         \/ child.pc = "next" /\ child.todo # <<>> /\ Head(child.todo).op = "enter"
      /\ done' = IF child.pc = "act" /\ kind = "copy"
                 THEN [done EXCEPT !.agreed = @ \ {path}] ELSE done
      /\ UNCHANGED <<kind, gui, toChild>>
  BY DEF EnterDirectory
<1>3. child.todo \in Seq(Task)
  BY Types DEF ActionInv
<1>4. child.pc = "next" => /\ kind = "copy" /\ Head(child.todo).path = path
                           /\ Head(child.todo) \in Range(child.todo)
                           /\ Head(child.todo) \in Task
  <2> SUFFICES ASSUME child.pc = "next"
               PROVE  /\ kind = "copy" /\ Head(child.todo).path = path
                      /\ Head(child.todo) \in Range(child.todo)
                      /\ Head(child.todo) \in Task
    OBVIOUS
  <2>1. Head(child.todo) \in Range(child.todo) /\ Head(child.todo) \in Task
    BY <1>2, <1>3, InRange
  <2> QED BY <1>2, <2>1 DEF ActionInv, Agenda
<1>5. path \in Path
  BY <1>2, <1>4 DEF ActionInv, Addressed, Task
<1>6. n \in Nat /\ Send(Errors(n))
  BY <1>1, ErrorMessages
<1>7. jobs \in Seq(Task) /\ \A t \in Range(jobs) : t.op = "do"
  <2>1. CASE readable
    <3>1. Contents[path] \in Seq(Path)
      BY <1>5, ActionAssumption
    <3> QED BY <2>1, <3>1, JobsAreTasks
  <2>2. CASE ~readable
    BY <2>2, RangeOne
  <2> QED BY <2>1, <2>2
<1>8. /\ ending \in Seq(Task)
      /\ \A t \in Range(ending) : t = Job("end", path)
      /\ ~(child.pc = "act" /\ kind = "copy") => Job("end", path) \in Range(ending)
  <2>1. Job("end", path) \in Task
    BY <1>5 DEF Job, Task
  <2>2. CASE child.pc = "act" /\ kind = "copy"
    BY <2>2, RangeOne
  <2>3. CASE ~(child.pc = "act" /\ kind = "copy")
    BY <2>1, <2>3, RangeOne
  <2> QED BY <2>2, <2>3
<1>9. /\ rest \in Seq(Task) /\ Range(rest) \subseteq Range(child.todo)
      /\ child.pc = "act" => Range(rest) = Range(child.todo)
  BY <1>2, <1>3, HeadAndTail
<1>10. \A t \in Range(rest) : t.op # "enter"
  BY <1>2 DEF ActionInv, Agenda
<1>11. kind \in {"delete", "copy", "move"}
  BY <1>2, <1>4 DEF MergeInto
<1> HIDE DEF jobs, ending, rest
<1>12. /\ todo \in Seq(Task)
       /\ Range(todo) = Range(jobs) \cup Range(ending) \cup Range(rest)
  <2> DEFINE first == jobs \o ending
  <2>1. first \in Seq(Task) /\ Range(first) = Range(jobs) \cup Range(ending)
    BY <1>7, <1>8, ConcatProperties, RangeConcatenation
  <2> HIDE DEF first
  <2>2. first \o rest \in Seq(Task) /\ Range(first \o rest) = Range(first) \cup Range(rest)
    BY <1>9, <2>1, ConcatProperties, RangeConcatenation
  <2> QED BY <2>1, <2>2 DEF first
<1>13. child' = [child EXCEPT !.pc = "next", !.todo = todo]
  BY <1>1 DEF jobs, ending, rest
<1> HIDE DEF todo, n, path
<1>14. /\ child'.pc = "next" /\ child'.todo = todo
       /\ child'.path = path /\ child'.flag = child.flag
       /\ child'.signalled = child.signalled /\ child'.confused = child.confused
  BY <1>13 DEF ActionInv, TypeOK, path
<1>15. toParent' \in Seq(Packet)
  BY <1>6, Types, OnlyErrors DEF ActionInv
<1>16. /\ done'.performed = done.performed /\ done'.closed = done.closed
       /\ done'.clicked = done.clicked /\ done'.excused = done.excused
       /\ done'.reported = done.reported /\ done'.agreed \subseteq done.agreed
       /\ child.pc = "act" /\ kind = "copy" => path \notin done'.agreed
       /\ done' \in [clicked : SUBSET Path, excused : SUBSET Path, agreed : SUBSET Path,
                     performed : SUBSET Path, reported : SUBSET Path, closed : SUBSET Path]
  BY <1>2 DEF ActionInv, TypeOK
<1>17. TypeOK'
  BY <1>2, <1>5, <1>12, <1>13, <1>15, <1>16 DEF ActionInv, TypeOK, Packet, Task
<1>18. \A t \in Range(todo) : t.op # "enter"
  BY <1>7, <1>8, <1>10, <1>12 DEF Job
<1>19. todo # <<>> => Range(Tail(todo)) \subseteq Range(todo)
  BY <1>12, InRange
<1>20. Agenda'
  BY <1>2, <1>11, <1>14, <1>18, <1>19 DEF Agenda
<1>21. /\ Addressed' /\ Lifetimes' /\ FlagsAgree' /\ OneQuestion' /\ ClosingAsked'
       /\ NothingWrong' => n = 0 /\ NothingWrong /\ toParent' = toParent
  BY <1>2, <1>5, <1>6, <1>14, <1>16, <1>17, <1>20, WorkStep DEF Dead
<1>22. ClosedFirst'
  BY <1>2, <1>14, <1>16 DEF ActionInv, ClosedFirst
<1>23. AgreedTo'
  <2> SUFFICES ASSUME ~child.confused PROVE AgreedTo'
    BY <1>14 DEF AgreedTo
  <2>1. path \in Permitted
    BY <1>2, <1>4 DEF ActionInv, AgreedTo, path
  <2>2. \A t \in Range(todo) : t.op # "do" => t.path \in Permitted
    BY <1>7, <1>8, <1>9, <1>12, <2>1 DEF ActionInv, AgreedTo, Job
  <2> QED BY <1>2, <1>14, <1>16, <2>2 DEF ActionInv, AgreedTo, Permitted
<1>24. NoneForgotten'
  <2> SUFFICES ASSUME NothingWrong', NEW p \in done'.agreed PROVE InHand(p)'
    BY DEF NoneForgotten
  <2>1. toParent' = toParent /\ InHand(p)
    BY <1>16, <1>21 DEF ActionInv, NoneForgotten
  <2>2. CASE p \in done.performed /\ Told(p)
    BY <1>2, <1>14, <1>16, <2>1, <2>2 DEF InHand, Told
  <2>3. CASE child.pc = "act" /\ path = p
    <3>1. kind # "copy"
      BY <1>16, <2>3
    <3>2. Job("end", path) \in Range(todo)
      BY <1>8, <1>12, <3>1
    <3> QED BY <1>2, <1>11, <1>14, <2>3, <3>1, <3>2 DEF InHand, Job
  <2>4. CASE /\ kind \in {"delete", "move"}
             /\ \E t \in Range(child.todo) : t.op = "end" /\ t.path = p
    <3>1. child.pc = "act"
      BY <1>2, <1>4, <2>4
    <3>2. Range(child.todo) \subseteq Range(todo)
      BY <1>9, <1>12, <3>1
    <3> QED BY <1>2, <1>14, <2>4, <3>2 DEF InHand
  <2> QED BY <1>2, <2>1, <2>2, <2>3, <2>4 DEF InHand, path
<1> QED BY <1>17, <1>20, <1>21, <1>22, <1>23, <1>24 DEF ActionInv

LEMMA TellKeeps ==
    ASSUME ActionInv, Tell PROVE ActionInv'
<1> DEFINE m == Message(IF kind \in {"mount", "umount", "eject"} THEN "M" ELSE "s", child.path)
<1>1. /\ child.pc = "tell" /\ child' = [child EXCEPT !.pc = "next"] /\ Send(<<m>>)
      /\ UNCHANGED <<kind, gui, toChild, done>>
  BY DEF Tell
<1>2. m \in Packet /\ m.type \in {"s", "M"} /\ m.path = child.path /\ child.path \in Path
  BY <1>1 DEF ActionInv, Addressed, Message, Packet
<1> HIDE DEF m
<1>3. /\ child'.pc = "next" /\ child'.todo = child.todo
      /\ child'.path = child.path /\ child'.flag = child.flag
      /\ child'.signalled = child.signalled /\ child'.confused = child.confused
  BY <1>1 DEF ActionInv, TypeOK
<1>4. /\ toParent' \in Seq(Packet)
      /\ Range(toParent') = Range(toParent) \cup {m}
      /\ \A t : Hits(toParent', Of(t)) = Hits(toParent, Of(t)) + (IF m.type = t THEN 1 ELSE 0)
      /\ \A P : Hits(toParent, P) \in Nat
  BY <1>1, <1>2, Types, OneMessage DEF ActionInv
<1>5. /\ Hits(toParent', Of("?")) = Hits(toParent, Of("?"))
      /\ Hits(toParent', Of("X")) = Hits(toParent, Of("X"))
  BY <1>2, <1>4
<1>6. TypeOK'
  BY <1>1, <1>4 DEF ActionInv, TypeOK, Packet
<1>7. Addressed'
  BY <1>1, <1>2, <1>3, <1>4 DEF ActionInv, Addressed
<1>8. Lifetimes' /\ Agenda' /\ FlagsAgree'
  BY <1>1, <1>3 DEF ActionInv, Lifetimes, Agenda, FlagsAgree, Dead
<1>9. OneQuestion'
  BY <1>1, <1>2, <1>3, <1>4, <1>5 DEF ActionInv, OneQuestion, Dead
<1>10. ClosingAsked' /\ ClosedFirst'
  BY <1>1, <1>2, <1>3, <1>4, <1>5 DEF ActionInv, ClosingAsked, ClosedFirst, Dead
<1>11. AgreedTo'
  BY <1>1, <1>3 DEF ActionInv, AgreedTo, Permitted
<1>12. NoneForgotten'
  <2> SUFFICES ASSUME NothingWrong', NEW p \in done.agreed PROVE InHand(p)'
    BY <1>1 DEF NoneForgotten
  <2>1. InHand(p)
    BY <1>1, <1>3, <1>4 DEF ActionInv, NoneForgotten, NothingWrong
  <2>2. Told(p) => Told(p)'
    BY <1>1, <1>2, <1>3, <1>4 DEF Told
  <2> QED BY <1>1, <1>3, <2>1, <2>2 DEF InHand
<1> QED BY <1>6, <1>7, <1>8, <1>9, <1>10, <1>11, <1>12 DEF ActionInv

LEMMA AskToCloseKeeps ==
    ASSUME ActionInv, AskToClose PROVE ActionInv'
<1> DEFINE m == Message("X", child.path)
<1>1. /\ child.pc = "act" /\ child' = [child EXCEPT !.pc = "handshake"] /\ Send(<<m>>)
      /\ UNCHANGED <<kind, gui, toChild, done>>
  BY DEF AskToClose
<1>2. m \in Packet /\ m.type = "X" /\ m.path = child.path /\ child.path \in Path
  BY <1>1 DEF ActionInv, Addressed, Message, Packet
<1> HIDE DEF m
<1>3. /\ child'.pc = "handshake" /\ child'.todo = child.todo
      /\ child'.path = child.path /\ child'.flag = child.flag
      /\ child'.signalled = child.signalled /\ child'.confused = child.confused
  BY <1>1 DEF ActionInv, TypeOK
<1>4. /\ toParent' \in Seq(Packet)
      /\ Range(toParent') = Range(toParent) \cup {m}
      /\ Hits(toParent', Of("?")) = Hits(toParent, Of("?")) + (IF m.type = "?" THEN 1 ELSE 0)
      /\ Hits(toParent', Of("X")) = Hits(toParent, Of("X")) + (IF m.type = "X" THEN 1 ELSE 0)
      /\ Hits(toParent, Of("?")) \in Nat /\ Hits(toParent, Of("X")) \in Nat
      /\ Count(toChild, "X") \in Nat
  BY <1>1, <1>2, Types, OneMessage DEF ActionInv
<1>5. TypeOK'
  BY <1>1, <1>4 DEF ActionInv, TypeOK, Packet
<1>6. Addressed'
  BY <1>1, <1>2, <1>3, <1>4 DEF ActionInv, Addressed
<1>7. Lifetimes' /\ Agenda' /\ FlagsAgree'
  BY <1>1, <1>3 DEF ActionInv, Lifetimes, Agenda, FlagsAgree, Dead
<1>8. OneQuestion'
  BY <1>1, <1>2, <1>3, <1>4 DEF ActionInv, OneQuestion, Dead
<1>9. ClosingAsked' /\ ClosedFirst'
  BY <1>1, <1>2, <1>3, <1>4 DEF ActionInv, ClosingAsked, ClosedFirst, Dead
<1>10. AgreedTo'
  BY <1>1, <1>3 DEF ActionInv, AgreedTo, Permitted
<1>11. NoneForgotten'
  BY <1>1, <1>3, <1>4 DEF ActionInv, NoneForgotten, NothingWrong, InHand, Told
<1> QED BY <1>5, <1>6, <1>7, <1>8, <1>9, <1>10, <1>11 DEF ActionInv

(* Before the filer's X comes, only a box that was clicked in the meantime *)
(* can be read instead, and then the child is confused. *)
LEMMA HandshakeKeeps ==
    ASSUME ActionInv, Handshake PROVE ActionInv'
<1> DEFINE b == Head(toChild)
<1>1. /\ child.pc = "handshake" /\ toChild # <<>> /\ toChild' = Tail(toChild)
      /\ child' = [child EXCEPT !.pc = IF b = "X" THEN "run" ELSE "next",
                                !.confused = @ \/ b # "X"]
      /\ UNCHANGED <<kind, gui, toParent, done>>
  BY DEF Handshake
<1>2. toChild \in Seq(Byte) /\ toParent \in Seq(Packet)
  BY Types DEF ActionInv
<1>3. b \in Byte /\ toChild' \in Seq(Byte)
  BY <1>1, <1>2, InRange
<1>4. ASSUME NEW x
      PROVE  /\ Count(toChild', x) \in Nat
             /\ Count(toChild, x) = Count(toChild', x) + (IF b = x THEN 1 ELSE 0)
             /\ b # x => Odd(toChild, x) = Odd(toChild', x)
  BY <1>1, <1>2, CountShrinks
<1> HIDE DEF b
<1>5. /\ Hits(toParent, Of("?")) \in Nat /\ Hits(toParent, Of("X")) \in Nat
      /\ \A x \in Flag : x # "X"
  BY <1>2, HitsNat DEF Flag
<1>6. /\ child'.pc = (IF b = "X" THEN "run" ELSE "next") /\ child'.todo = child.todo
      /\ child'.path = child.path /\ child'.flag = child.flag
      /\ child'.signalled = child.signalled /\ child'.confused = (child.confused \/ b # "X")
  BY <1>1 DEF ActionInv, TypeOK
<1>7. TypeOK'
  <2>1. (child.confused \/ b # "X") \in BOOLEAN
    OBVIOUS
  <2> QED BY <1>1, <1>3, <2>1 DEF ActionInv, TypeOK, Byte
<1>8. Addressed' /\ Lifetimes' /\ Agenda'
  BY <1>1, <1>6 DEF ActionInv, Addressed, Lifetimes, Agenda, Dead
<1>9. FlagsAgree'
  <2> SUFFICES ASSUME gui.alive, b = "X", ~child.confused, NEW x \in Flag
               PROVE  gui.flag[x] = (child.flag[x] # Odd(toChild', x))
    BY <1>1, <1>6 DEF FlagsAgree
  <2>1. Odd(toChild, x) = Odd(toChild', x)
    BY <1>4, <1>5
  <2> QED BY <2>1 DEF ActionInv, FlagsAgree
<1>10. Count(toChild', "Y") = 0 /\ Count(toChild', "N") = 0
       /\ Hits(toParent, Of("?")) = 0 /\ ~gui.question
  BY <1>1, <1>4, <1>5 DEF ActionInv, OneQuestion, Dead
<1>11. OneQuestion'
  BY <1>1, <1>6, <1>10 DEF ActionInv, OneQuestion, Dead
<1>12. ASSUME ~child'.confused
       PROVE  /\ Count(toChild', "X") = 0 /\ Hits(toParent, Of("X")) = 0
              /\ child.path \in done.closed
  <2>1. b = "X" /\ ~child.confused
    BY <1>6, <1>12
  <2>2. Count(toChild', "X") \in Nat /\ Count(toChild, "X") = Count(toChild', "X") + 1
    BY <1>4, <2>1
  <2>3. Count(toChild, "X") + Hits(toParent, Of("X")) = 1
    BY <1>1, <2>1 DEF ActionInv, ClosingAsked, Dead
  <2>4. Count(toChild, "X") = 1 => child.path \in done.closed
    BY <1>1, <2>1 DEF ActionInv, ClosingAsked, Dead
  <2> QED BY <1>5, <2>2, <2>3, <2>4
<1>13. ClosingAsked' /\ ClosedFirst'
  <2>1. ASSUME ~child'.confused PROVE \A m \in Range(toParent) : m.type # "X"
    <3>1. \A m \in Range(toParent) : m \notin Of("X") /\ m \in Packet
      BY <1>2, <1>12, <2>1, HitsNone, RangeOfSeq
    <3> QED BY <3>1 DEF Of
  <2>2. ClosingAsked'
    BY <1>1, <1>6, <1>12, <2>1 DEF ClosingAsked
  <2>3. ClosedFirst'
    BY <1>1, <1>6 DEF ActionInv, ClosedFirst
  <2> QED BY <2>2, <2>3
<1>14. AgreedTo'
  <2> SUFFICES ASSUME ~child.confused, b = "X" PROVE AgreedTo'
    BY <1>6 DEF AgreedTo
  <2> QED BY <1>1, <1>6 DEF ActionInv, AgreedTo, Permitted
<1>15. NoneForgotten'
  BY <1>1, <1>6 DEF ActionInv, NoneForgotten, NothingWrong, InHand, Told
<1> QED BY <1>7, <1>8, <1>9, <1>11, <1>13, <1>14, <1>15 DEF ActionInv

LEMMA BadAreErrors ==
    ASSUME NEW s \in Seq(Byte)
    PROVE  \E n \in Nat : BadMessages(s) = Errors(n)
<1> DEFINE n == Len(SelectSeq(s, LAMBDA b : b \notin Flag))
<1>1. n \in Nat
  OBVIOUS
<1>2. BadMessages(s) = Errors(n)
  BY DEF BadMessages
<1> HIDE DEF n
<1> QED BY <1>1, <1>2

LEMMA ReadReplyKeeps ==
    ASSUME ActionInv, ReadReply PROVE ActionInv'
<1> DEFINE b == Head(toChild)
           pc == CASE b = "Y" -> "act" [] b = "N" -> "next" [] OTHER -> "ask"
<1>1. /\ child.pc = "ask" /\ toChild # <<>> /\ toChild' = Tail(toChild)
      /\ child' = [child EXCEPT !.pc = pc, !.flag = ProcessFlags(@, <<b>>)]
      /\ Send(IF b \in {"Y", "N"} THEN <<>> ELSE BadMessages(<<b>>))
      /\ done' = [done EXCEPT !.agreed = IF b = "Y" THEN @ \cup {child.path} ELSE @]
      /\ UNCHANGED <<kind, gui>>
  BY DEF ReadReply
<1>2. toChild \in Seq(Byte) /\ toParent \in Seq(Packet)
  BY Types DEF ActionInv
<1>3. b \in Byte /\ toChild' \in Seq(Byte) /\ Range(toChild) = {b} \cup Range(toChild')
  BY <1>1, <1>2, HeadAndTail
<1>4. ASSUME NEW x
      PROVE  /\ Count(toChild', x) \in Nat
             /\ Count(toChild, x) = Count(toChild', x) + (IF b = x THEN 1 ELSE 0)
             /\ b = x => Odd(toChild, x) = ~Odd(toChild', x)
             /\ b # x => Odd(toChild, x) = Odd(toChild', x)
             /\ Odd(<<b>>, x) = (b = x)
  BY <1>1, <1>2, CountShrinks
<1>5. PICK n \in Nat : Send(Errors(n))
  <2>1. <<b>> \in Seq(Byte)
    BY <1>3
  <2>2. CASE b \in {"Y", "N"}
    BY <1>1, <2>2, ErrorMessages
  <2>3. CASE b \notin {"Y", "N"}
    BY <1>1, <2>1, <2>3, BadAreErrors
  <2> QED BY <2>2, <2>3
<1> HIDE DEF b
<1>6. /\ toParent' \in Seq(Packet)
      /\ Range(toParent') = Range(toParent) \cup (IF n = 0 THEN {} ELSE {Message("!", NoPath)})
      /\ Hits(toParent', Of("?")) = Hits(toParent, Of("?"))
      /\ Hits(toParent', Of("X")) = Hits(toParent, Of("X"))
      /\ Hits(toParent, Of("?")) \in Nat /\ Hits(toParent, Of("X")) \in Nat
  BY <1>2, <1>5, OnlyErrors, HitsNat
<1>7. /\ child'.pc = pc /\ child'.todo = child.todo
      /\ child'.path = child.path /\ child'.flag = ProcessFlags(child.flag, <<b>>)
      /\ child'.signalled = child.signalled /\ child'.confused = child.confused
  BY <1>1 DEF ActionInv, TypeOK
<1>8. /\ done'.agreed = IF b = "Y" THEN done.agreed \cup {child.path} ELSE done.agreed
      /\ done'.performed = done.performed /\ done'.closed = done.closed
      /\ done'.clicked = done.clicked /\ done'.excused = done.excused
      /\ done'.reported = done.reported
  BY <1>1 DEF ActionInv, TypeOK
<1>9. child.path \in Path
  BY <1>1 DEF ActionInv, Addressed
<1>10. TypeOK'
  <2>1. ProcessFlags(child.flag, <<b>>) \in [Flag -> BOOLEAN]
    BY DEF ProcessFlags
  <2> QED BY <1>1, <1>3, <1>6, <1>9, <2>1 DEF ActionInv, TypeOK, Byte, Packet
<1>11. Addressed'
  BY <1>1, <1>6, <1>7 DEF ActionInv, Addressed, Message
<1>12. Lifetimes'
  BY <1>1, <1>7 DEF ActionInv, Lifetimes, Dead
<1>13. Agenda'
  BY <1>1, <1>7 DEF ActionInv, Agenda
<1>14. FlagsAgree'
  <2> SUFFICES ASSUME gui.alive, ~child.confused, NEW x \in Flag
               PROVE  gui.flag[x] = (child'.flag[x] # Odd(toChild', x))
    BY <1>1, <1>7 DEF FlagsAgree
  <2>1. child'.flag[x] = (child.flag[x] # Odd(<<b>>, x))
    BY <1>7 DEF ProcessFlags
  <2>2. gui.flag[x] = (child.flag[x] # Odd(toChild, x))
    BY DEF ActionInv, FlagsAgree
  <2>3. /\ child.flag[x] \in BOOLEAN
        /\ Odd(toChild, x) \in BOOLEAN /\ Odd(toChild', x) \in BOOLEAN
    BY OddIsBoolean DEF ActionInv, TypeOK
  <2>4. CASE b = x
    BY <1>4, <2>1, <2>2, <2>3, <2>4
  <2>5. CASE b # x
    BY <1>4, <2>1, <2>2, <2>3, <2>5
  <2> QED BY <2>4, <2>5
<1>15. OneQuestion'
  <2>1. \A m \in Range(toParent') : m.type = "?" => m.path = child.path
    BY <1>1, <1>6 DEF ActionInv, OneQuestion, Dead, Message
  <2>2. Count(toChild, "Y") = Count(toChild', "Y") + (IF b = "Y" THEN 1 ELSE 0)
        /\ Count(toChild, "N") = Count(toChild', "N") + (IF b = "N" THEN 1 ELSE 0)
        /\ Count(toChild', "Y") \in Nat /\ Count(toChild', "N") \in Nat
    BY <1>4
  <2>3. ASSUME ~Dead' PROVE ~Dead
    BY <1>1, <1>7, <2>3 DEF Dead
  <2>4. ASSUME ~Dead' PROVE gui.question => gui.asked = child'.path
    BY <1>7, <2>3, <2>4 DEF ActionInv, OneQuestion
  <2>5. ASSUME ~Dead'
        PROVE  Hits(toParent', Of("?")) + Count(toChild', "Y") + Count(toChild', "N") + (IF gui.question THEN 1 ELSE 0)
                 = IF child'.pc = "ask" THEN 1 ELSE 0
    <3>1. Hits(toParent, Of("?")) + Count(toChild, "Y") + Count(toChild, "N") + (IF gui.question THEN 1 ELSE 0)
            = IF child.pc = "ask" THEN 1 ELSE 0
      BY <2>3, <2>5 DEF ActionInv, OneQuestion
    <3>2. Hits(toParent', Of("?")) = Hits(toParent, Of("?")) /\ Hits(toParent, Of("?")) \in Nat
      BY <1>6
    <3> QED BY <1>1, <1>7, <2>2, <3>1, <3>2
  <2> QED BY <1>1, <1>7, <2>1, <2>4, <2>5, Zenon DEF OneQuestion
<1>16. ClosingAsked' /\ ClosedFirst'
  <2>1. ASSUME ~child.confused
        PROVE  /\ Count(toChild', "X") = 0 /\ Hits(toParent', Of("X")) = 0
               /\ \A m \in Range(toParent') : m.type = "X" => m.path = child.path
    <3>1. /\ Count(toChild', "X") \in Nat
          /\ Count(toChild, "X") = Count(toChild', "X") + (IF b = "X" THEN 1 ELSE 0)
      BY <1>4
    <3>2. /\ Count(toChild, "X") + Hits(toParent, Of("X")) = 0
          /\ \A m \in Range(toParent) : m.type = "X" => m.path = child.path
      BY <1>1, <2>1 DEF ActionInv, ClosingAsked, Dead
    <3>3. Count(toChild', "X") = 0 /\ Hits(toParent', Of("X")) = 0
      BY <1>6, <3>1, <3>2
    <3>4. \A m \in Range(toParent') : m.type = "X" => m.path = child.path
      BY <1>6, <3>2 DEF Message
    <3> QED BY <3>3, <3>4
  <2>2. child'.pc \notin {"handshake", "run"}
    BY <1>7
  <2> QED BY <1>1, <1>7, <1>8, <2>1, <2>2 DEF ActionInv, ClosingAsked, ClosedFirst
<1>17. AgreedTo'
  BY <1>1, <1>3, <1>7, <1>8 DEF ActionInv, AgreedTo, Permitted
<1>18. NoneForgotten'
  <2> SUFFICES ASSUME NothingWrong', NEW p \in done'.agreed PROVE InHand(p)'
    BY DEF NoneForgotten
  <2>1. CASE p \in done.agreed
    <3>1. NothingWrong
      BY <1>1, <1>6, <1>7 DEF NothingWrong
    <3>2. InHand(p)
      BY <2>1, <3>1 DEF ActionInv, NoneForgotten
    <3> QED BY <1>1, <1>6, <1>7, <1>8, <3>2 DEF InHand, Told
  <2>2. CASE b = "Y" /\ p = child.path
    BY <1>7, <2>2 DEF InHand
  <2> QED BY <1>8, <2>1, <2>2
<1> QED BY <1>10, <1>11, <1>12, <1>13, <1>14, <1>15, <1>16, <1>17, <1>18 DEF ActionInv

LEMMA InfosAreInfo == \A p : Infos(p) \subseteq Info
<1> SUFFICES ASSUME NEW p, NEW i \in Infos(p) PROVE i \in Info
  OBVIOUS
<1>1. Plain \in Info /\ Missing \in Info
  BY DEF Plain, Missing, Info
<1>2. \A b \in BOOLEAN : [Plain EXCEPT !.prot = b] \in Info
  BY DEF Plain, Info
<1>3. CASE kind = "delete"
  BY <1>1, <1>2, <1>3 DEF Infos
<1>4. CASE kind # "delete" /\ kind \in {"copy", "move"}
  <2> DEFINE merges == IF IsDir(p) THEN BOOLEAN ELSE {FALSE}
             ages   == IF IsDir(p) THEN {"same"} ELSE {"older", "same", "newer"}
             InTheWay == [found : {TRUE}, prot : {FALSE}, exists : {TRUE},
                          merge : merges, age : ages]
  <2>1. merges \subseteq BOOLEAN /\ ages \subseteq {"older", "same", "newer"}
    OBVIOUS
  <2>2. Infos(p) = {Missing, Plain} \cup InTheWay
    BY <1>4 DEF Infos
  <2> HIDE DEF merges, ages
  <2>3. InTheWay \subseteq Info
    BY <2>1 DEF Info
  <2> HIDE DEF InTheWay
  <2> QED BY <1>1, <2>2, <2>3
<1>5. CASE kind # "delete" /\ kind \notin {"copy", "move"}
  <2>1. kind # "copy" /\ kind # "move"
    BY <1>5
  <2>2. Infos(p) = {Plain}
    BY <1>5, <2>1, SMT DEF Infos
  <2> QED BY <1>1, <2>2
<1> QED BY <1>3, <1>4, <1>5

(* Coming to the next path, the child has read every click up to now, and *)
(* decides as the boxes in the window are. *)
LEMMA ConsiderKeeps ==
    ASSUME ActionInv, Consider PROVE ActionInv'
<1> DEFINE job  == Head(child.todo)
           rest == Tail(child.todo)
           p    == job.path
           flag == ProcessFlags(child.flag, toChild)
<1>1. PICK info \in Infos(p) :
          LET v == Verdict(p, info, flag)
          IN  /\ child' = [child EXCEPT
                   !.flag = flag, !.info = info, !.path = p, !.todo = rest,
                   !.pc = CASE v = "ask" -> "ask" [] v = "go" -> "act" [] OTHER -> "next"]
              /\ Send(BadMessages(toChild) \o
                      CASE v = "ask" -> <<Message("?", p)>>
                        [] v = "missing" -> Errors(1)
                        [] OTHER -> <<>>)
              /\ done' = [done EXCEPT
                   !.agreed = IF v = "go" THEN @ \cup {p} ELSE @,
                   !.excused = IF Verdict(p, info, gui.flag) = "go" THEN @ \cup {p} ELSE @]
  BY DEF Consider
<1> DEFINE v == Verdict(p, info, flag)
           last == CASE v = "ask" -> <<Message("?", p)>>
                     [] v = "missing" -> Errors(1)
                     [] OTHER -> <<>>
           pc == CASE v = "ask" -> "ask" [] v = "go" -> "act" [] OTHER -> "next"
<1>2. /\ child.pc = "next" /\ child.todo # <<>> /\ job.op = "do"
      /\ toChild' = <<>> /\ UNCHANGED <<kind, gui>>
  BY DEF Consider
<1>3. toChild \in Seq(Byte) /\ toParent \in Seq(Packet) /\ child.todo \in Seq(Task)
  BY Types DEF ActionInv
<1>4. job \in Task /\ rest \in Seq(Task) /\ Range(child.todo) = {job} \cup Range(rest)
  BY <1>2, <1>3, HeadAndTail
<1>5. p \in Path
  BY <1>4 DEF Task
<1>6. info \in Info
  BY InfosAreInfo
<1>7. flag \in [Flag -> BOOLEAN]
  BY DEF ProcessFlags
<1>8. /\ last \in Seq(Packet)
      /\ \A m \in Range(last) : m.type = "!" \/ (m.type = "?" /\ m.path = p)
      /\ Hits(last, Of("?")) = (IF v = "ask" THEN 1 ELSE 0) /\ Hits(last, Of("X")) = 0
  <2>1. CASE v = "ask"
    <3>1. Message("?", p) \in Packet
      BY <1>5 DEF Message, Packet
    <3>2. last = <<Message("?", p)>>
      BY <2>1
    <3>3. Message("?", p) \in Of("?") /\ Message("?", p) \notin Of("X")
      BY <3>1 DEF Of, Message
    <3> QED BY <2>1, <3>1, <3>2, <3>3, RangeOne, HitsOne DEF Message
  <2>2. CASE v = "missing"
    BY <2>2, ErrorMessages DEF Message
  <2>3. CASE v \notin {"ask", "missing"}
    BY <2>3, RangeOne, HitsEmpty
  <2> QED BY <2>1, <2>2, <2>3
<1>9. PICK n \in Nat : BadMessages(toChild) = Errors(n)
  BY <1>3, BadAreErrors
<1> DEFINE first == Errors(n)
<1>10. /\ first \in Seq(Packet)
       /\ \A m \in Range(first) : m.type = "!"
       /\ Hits(first, Of("?")) = 0 /\ Hits(first, Of("X")) = 0
  BY ErrorMessages DEF Message
<1>11. /\ child' = [child EXCEPT !.flag = flag, !.info = info, !.path = p, !.todo = rest,
                                 !.pc = pc]
       /\ Send(first \o last)
       /\ done' = [done EXCEPT
              !.agreed = IF v = "go" THEN @ \cup {p} ELSE @,
              !.excused = IF Verdict(p, info, gui.flag) = "go" THEN @ \cup {p} ELSE @]
  BY <1>1, <1>9
<1> HIDE DEF job, rest, p, flag, v, last, first
<1>12. /\ first \o last \in Seq(Packet)
       /\ \A m \in Range(first \o last) : m.type = "!" \/ (m.type = "?" /\ m.path = p)
       /\ Hits(first \o last, Of("?")) = IF v = "ask" THEN 1 ELSE 0
       /\ Hits(first \o last, Of("X")) = 0
  <2>1. first \o last \in Seq(Packet) /\ Range(first \o last) = Range(first) \cup Range(last)
    BY <1>8, <1>10, ConcatProperties, RangeConcatenation
  <2>2. \A P : Hits(first \o last, P) = Hits(first, P) + Hits(last, P)
    BY <1>8, <1>10, HitsConcat
  <2> QED BY <1>8, <1>10, <2>1, <2>2
<1> DEFINE ms == first \o last
<1> HIDE DEF ms
<1>13. /\ toParent' \in Seq(Packet)
       /\ Range(toParent') = Range(toParent) \cup Range(ms)
       /\ Hits(toParent', Of("?")) = Hits(toParent, Of("?")) + (IF v = "ask" THEN 1 ELSE 0)
       /\ Hits(toParent', Of("X")) = Hits(toParent, Of("X"))
  <2>1. Send(ms) /\ ms \in Seq(Packet)
    BY <1>11, <1>12 DEF ms
  <2>2. /\ toParent' \in Seq(Packet)
        /\ Range(toParent') = Range(toParent) \cup Range(ms)
        /\ Hits(toParent', Of("?")) = Hits(toParent, Of("?")) + Hits(ms, Of("?"))
        /\ Hits(toParent', Of("X")) = Hits(toParent, Of("X")) + Hits(ms, Of("X"))
    BY <1>3, <2>1, MessagesGrow
  <2>3. Hits(toParent, Of("X")) \in Nat
    BY <1>3, HitsNat
  <2> QED BY <1>12, <2>2, <2>3 DEF ms
<1>14. \A m \in Range(ms) : m.type = "!" \/ (m.type = "?" /\ m.path = p)
  BY <1>12 DEF ms
<1>15. /\ child'.pc = pc /\ child'.todo = rest /\ child'.path = p /\ child'.flag = flag
       /\ child'.signalled = child.signalled /\ child'.confused = child.confused
  BY <1>11 DEF ActionInv, TypeOK
<1>16. /\ done'.agreed = IF v = "go" THEN done.agreed \cup {p} ELSE done.agreed
       /\ done'.excused = IF Verdict(p, info, gui.flag) = "go" THEN done.excused \cup {p}
                          ELSE done.excused
       /\ done'.performed = done.performed /\ done'.closed = done.closed
       /\ done'.clicked = done.clicked /\ done'.reported = done.reported
  BY <1>11 DEF ActionInv, TypeOK
<1>17. pc \in {"ask", "act", "next"} /\ (pc = "ask" <=> v = "ask") /\ (pc = "act" <=> v = "go")
  OBVIOUS
<1> HIDE DEF pc
<1>18. TypeOK'
  <2>1. toChild' \in Seq(Byte)
    BY <1>2
  <2>2. child' \in [pc : {"forked", "next", "ask", "act", "handshake", "run", "tell",
                           "exited", "killed"},
                    flag : [Flag -> BOOLEAN],
                    todo : Seq([op : {"do", "enter", "end"}, path : Path]),
                    path : Path \cup {NoPath}, info : Info,
                    signalled : BOOLEAN, confused : BOOLEAN]
    BY <1>4, <1>5, <1>6, <1>7, <1>11, <1>17 DEF ActionInv, TypeOK, Task
  <2>3. done' \in [clicked : SUBSET Path, excused : SUBSET Path, agreed : SUBSET Path,
                   performed : SUBSET Path, reported : SUBSET Path, closed : SUBSET Path]
    BY <1>5, <1>11 DEF ActionInv, TypeOK
  <2> QED BY <1>2, <1>13, <2>1, <2>2, <2>3 DEF ActionInv, TypeOK, Byte, Packet
<1>19. Addressed'
  BY <1>2, <1>5, <1>13, <1>14, <1>15 DEF ActionInv, Addressed
<1>20. Lifetimes'
  BY <1>2, <1>15, <1>17 DEF ActionInv, Lifetimes, Dead
<1>21. \A t \in Range(rest) : t.op # "enter"
  BY <1>2 DEF ActionInv, Agenda, rest
<1>22. Agenda'
  <2>1. rest # <<>> => Range(Tail(rest)) \subseteq Range(rest)
    BY <1>4, InRange
  <2> QED BY <1>2, <1>4, <1>15, <1>21, <2>1 DEF ActionInv, Agenda
<1>23. ASSUME gui.alive, ~child.confused PROVE gui.flag = flag
  <2>1. \A x \in Flag : gui.flag[x] = flag[x]
    BY <1>23 DEF ActionInv, FlagsAgree, flag, ProcessFlags
  <2> QED BY <1>7, <2>1 DEF ActionInv, TypeOK
<1>24. FlagsAgree'
  <2> SUFFICES ASSUME gui.alive, ~child.confused, NEW x \in Flag
               PROVE  gui.flag[x] = (child'.flag[x] # Odd(toChild', x))
    BY <1>2, <1>15 DEF FlagsAgree
  <2>1. Odd(toChild', x) = FALSE
    BY <1>2, CountNothing, OddIsBoolean
  <2>2. child'.flag[x] \in BOOLEAN /\ gui.flag[x] = child'.flag[x]
    BY <1>7, <1>15, <1>23
  <2> QED BY <2>1, <2>2
<1>25. /\ Hits(toParent, Of("?")) = 0 /\ ~gui.question
       /\ \A m \in Range(toParent) : m.type # "?"
  <2>1. Hits(toParent, Of("?")) = 0 /\ ~gui.question
    BY <1>2, <1>3, Types, HitsNat DEF ActionInv, OneQuestion, Dead
  <2>2. \A m \in Range(toParent) : m \notin Of("?") /\ m \in Packet
    BY <1>3, <2>1, HitsNone, RangeOfSeq
  <2> QED BY <2>1, <2>2 DEF Of
<1>26. OneQuestion'
  <2>1. Count(toChild', "Y") = 0 /\ Count(toChild', "N") = 0
    BY <1>2, CountNothing
  <2>2. \A m \in Range(toParent') : m.type = "?" => m.path = child'.path
    BY <1>13, <1>14, <1>15, <1>25
  <2>3. Hits(toParent', Of("?")) = IF v = "ask" THEN 1 ELSE 0
    BY <1>13, <1>25
  <2> QED BY <1>2, <1>15, <1>17, <1>25, <2>1, <2>2, <2>3 DEF OneQuestion
<1>27. ClosingAsked' /\ ClosedFirst'
  <2>1. Count(toChild', "X") = 0
    BY <1>2, CountNothing
  <2>2. ASSUME ~child.confused
        PROVE  Hits(toParent, Of("X")) = 0 /\ \A m \in Range(toParent) : m.type # "X"
    <3>1. Hits(toParent, Of("X")) = 0
      BY <1>2, <1>3, <2>2, Types, HitsNat DEF ActionInv, ClosingAsked, Dead
    <3>2. \A m \in Range(toParent) : m \notin Of("X") /\ m \in Packet
      BY <1>3, <3>1, HitsNone, RangeOfSeq
    <3> QED BY <3>1, <3>2 DEF Of
  <2>3. ClosingAsked'
    BY <1>13, <1>14, <1>15, <1>17, <2>1, <2>2 DEF ClosingAsked
  <2>4. ClosedFirst'
    BY <1>2, <1>15, <1>16 DEF ActionInv, ClosedFirst
  <2> QED BY <2>3, <2>4
<1>28. AgreedTo'
  <2> SUFFICES ASSUME ~child.confused PROVE AgreedTo'
    BY <1>15 DEF AgreedTo
  <2>1. gui.alive
    BY <1>2 DEF ActionInv, Lifetimes, Dead
  <2>2. v = "go" => p \in done'.excused
    BY <1>16, <1>23, <2>1 DEF v
  <2>3. "Y" \notin Range(toChild')
    BY <1>2, RangeOne
  <2>4. \A t \in Range(rest) : t.op # "do" => t.path \in Permitted
    BY <1>4 DEF ActionInv, AgreedTo
  <2>5. Permitted \subseteq Permitted'
    BY <1>16 DEF Permitted
  <2> QED BY <1>15, <1>16, <1>17, <2>2, <2>3, <2>4, <2>5 DEF ActionInv, AgreedTo, Permitted
<1>29. NoneForgotten'
  <2> SUFFICES ASSUME NothingWrong', NEW a \in done'.agreed PROVE InHand(a)'
    BY DEF NoneForgotten
  <2>1. CASE a \in done.agreed
    <3>1. InHand(a)
      BY <1>2, <1>13, <1>15, <2>1 DEF ActionInv, NoneForgotten, NothingWrong
    <3>2. CASE a \in done.performed /\ Told(a)
      BY <1>2, <1>13, <1>15, <1>16, <3>2 DEF InHand, Told
    <3>3. CASE /\ kind \in {"delete", "move"}
               /\ \E t \in Range(child.todo) : t.op = "end" /\ t.path = a
      BY <1>2, <1>4, <1>15, <3>3 DEF InHand
    <3> QED BY <1>2, <3>1, <3>2, <3>3 DEF InHand
  <2>2. CASE v = "go" /\ a = p
    BY <1>15, <1>17, <2>2 DEF InHand
  <2> QED BY <1>16, <2>1, <2>2
<1> QED BY <1>18, <1>19, <1>20, <1>22, <1>24, <1>26, <1>27, <1>28, <1>29 DEF ActionInv

(* The user clicks Yes or No while the window shows a question: it leaves *)
(* the window as its answer enters the pipe. *)
LEMMA AnswerKeeps ==
    ASSUME ActionInv, NEW yes \in BOOLEAN, Answer(yes) PROVE ActionInv'
<1> DEFINE b == IF yes THEN "Y" ELSE "N"
<1>1. /\ gui.open /\ gui.question /\ Write(<<b>>)
      /\ gui' = [gui EXCEPT !.question = FALSE]
      /\ done' = [done EXCEPT !.clicked = IF yes THEN @ \cup {gui.asked} ELSE @]
      /\ UNCHANGED <<kind, child, toParent>>
  BY DEF Answer
<1>2. gui.alive /\ toChild' = toChild \o <<b>>
  BY <1>1 DEF ActionInv, Lifetimes, Write
<1>3. toChild \in Seq(Byte) /\ b \in Byte /\ b \in {"Y", "N"} /\ b \notin Flag
  BY Types DEF ActionInv, Byte, Flag
<1>4. /\ toChild' \in Seq(Byte) /\ Range(toChild') = Range(toChild) \cup {b}
      /\ \A x : /\ Count(toChild, x) \in Nat
                /\ Count(toChild', x) = Count(toChild, x) + (IF b = x THEN 1 ELSE 0)
                /\ b # x => Odd(toChild', x) = Odd(toChild, x)
  BY <1>2, <1>3, BytesGrow, CountGrows
<1>5. gui.asked \in Path
  BY <1>1 DEF ActionInv, Addressed
<1>6. /\ gui'.open = gui.open /\ gui'.alive = gui.alive /\ gui'.question = FALSE
      /\ gui'.asked = gui.asked /\ gui'.flag = gui.flag /\ gui'.errors = gui.errors
      /\ gui'.aborts = gui.aborts
  BY <1>1 DEF ActionInv, TypeOK
<1>7. /\ done'.clicked = IF yes THEN done.clicked \cup {gui.asked} ELSE done.clicked
      /\ done'.agreed = done.agreed /\ done'.excused = done.excused
      /\ done'.performed = done.performed /\ done'.closed = done.closed
      /\ done'.reported = done.reported
  BY <1>1 DEF ActionInv, TypeOK
<1>8. TypeOK'
  BY <1>1, <1>4, <1>5 DEF ActionInv, TypeOK, Byte
<1>9. Addressed' /\ Lifetimes' /\ Agenda'
  BY <1>1, <1>6 DEF ActionInv, Addressed, Lifetimes, Agenda, Dead
<1>10. FlagsAgree'
  BY <1>1, <1>3, <1>4, <1>6 DEF ActionInv, FlagsAgree
<1>11. OneQuestion'
  <2>1. /\ Count(toChild', "Y") = Count(toChild, "Y") + (IF b = "Y" THEN 1 ELSE 0)
        /\ Count(toChild', "N") = Count(toChild, "N") + (IF b = "N" THEN 1 ELSE 0)
        /\ Count(toChild, "Y") \in Nat /\ Count(toChild, "N") \in Nat
        /\ Hits(toParent, Of("?")) \in Nat
    BY <1>4, Types DEF ActionInv
  <2> QED BY <1>1, <1>3, <1>6, <2>1 DEF ActionInv, OneQuestion, Dead
<1>12. ClosingAsked' /\ ClosedFirst'
  <2>1. Count(toChild', "X") = Count(toChild, "X")
    BY <1>3, <1>4
  <2> QED BY <1>1, <1>7, <2>1 DEF ActionInv, ClosingAsked, ClosedFirst, Dead
<1>13. AgreedTo'
  <2> SUFFICES ASSUME ~child.confused PROVE AgreedTo'
    BY <1>1 DEF AgreedTo
  <2>1. Permitted \subseteq Permitted' /\ done.clicked \subseteq done'.clicked
    BY <1>7 DEF Permitted
  <2>2. child.pc = "ask" => gui.asked = child.path
    BY <1>1 DEF ActionInv, OneQuestion, Dead
  <2>3. child.pc = "ask" /\ "Y" \in Range(toChild') => child.path \in done'.clicked
    BY <1>4, <1>7, <2>1, <2>2 DEF ActionInv, AgreedTo
  <2> QED BY <1>1, <1>7, <2>1, <2>3 DEF ActionInv, AgreedTo
<1>14. NoneForgotten'
  BY <1>1, <1>6, <1>7 DEF ActionInv, NoneForgotten, NothingWrong, InHand, Told
<1> QED BY <1>8, <1>9, <1>10, <1>11, <1>12, <1>13, <1>14 DEF ActionInv

(* A toggle changes the box and is on its way, which comes to the same. *)
LEMMA ToggleKeeps ==
    ASSUME ActionInv, NEW x \in Flag, Toggle(x) PROVE ActionInv'
<1>1. /\ gui.open /\ gui.toggles < MaxToggles /\ Write(<<x>>)
      /\ gui' = [gui EXCEPT !.flag[x] = ~@, !.toggles = @ + 1]
      /\ UNCHANGED <<kind, child, toParent, done>>
  BY DEF Toggle
<1>2. toChild \in Seq(Byte) /\ x \in Byte /\ x \notin {"Y", "N", "X"}
  BY Types DEF ActionInv, Byte, Flag
<1>3. /\ toChild' \in Seq(Byte)
      /\ Range(toChild') \subseteq Range(toChild) \cup {x}
      /\ Count(toChild', "Y") = Count(toChild, "Y")
      /\ Count(toChild', "N") = Count(toChild, "N")
      /\ Count(toChild', "X") = Count(toChild, "X")
  <2>1. CASE gui.alive
    <3>1. toChild' = toChild \o <<x>>
      BY <1>1, <2>1 DEF Write
    <3>2. /\ toChild' \in Seq(Byte) /\ Range(toChild') = Range(toChild) \cup {x}
          /\ \A y : /\ Count(toChild, y) \in Nat
                    /\ Count(toChild', y) = Count(toChild, y) + (IF x = y THEN 1 ELSE 0)
      BY <1>2, <3>1, BytesGrow, CountGrows
    <3> QED BY <1>2, <3>2
  <2>2. CASE ~gui.alive
    BY <1>1, <1>2, <2>2 DEF Write
  <2> QED BY <2>1, <2>2
<1>4. gui.toggles + 1 \in 0..MaxToggles
  BY <1>1, ActionAssumption DEF ActionInv, TypeOK
<1>5. /\ gui'.open = gui.open /\ gui'.alive = gui.alive /\ gui'.question = gui.question
      /\ gui'.asked = gui.asked /\ gui'.errors = gui.errors /\ gui'.aborts = gui.aborts
      /\ gui'.flag = [gui.flag EXCEPT ![x] = ~@]
  BY <1>1 DEF ActionInv, TypeOK
<1>6. TypeOK'
  BY <1>1, <1>3, <1>4 DEF ActionInv, TypeOK, Byte
<1>7. Addressed' /\ Lifetimes' /\ Agenda'
  BY <1>1, <1>5 DEF ActionInv, Addressed, Lifetimes, Agenda, Dead
<1>8. FlagsAgree'
  <2> SUFFICES ASSUME gui.alive, ~child.confused, NEW y \in Flag
               PROVE  gui'.flag[y] = (child.flag[y] # Odd(toChild', y))
    BY <1>1, <1>5 DEF FlagsAgree
  <2>1. toChild' = toChild \o <<x>>
    BY <1>1 DEF Write
  <2>2. /\ x = y => Odd(toChild', y) = ~Odd(toChild, y)
        /\ x # y => Odd(toChild', y) = Odd(toChild, y)
    BY <1>2, <2>1, CountGrows
  <2>3. gui.flag[y] = (child.flag[y] # Odd(toChild, y))
    BY DEF ActionInv, FlagsAgree
  <2>4. /\ child.flag[y] \in BOOLEAN /\ gui.flag[y] \in BOOLEAN
        /\ Odd(toChild, y) \in BOOLEAN /\ Odd(toChild', y) \in BOOLEAN
    BY OddIsBoolean DEF ActionInv, TypeOK
  <2>5. gui'.flag[y] = IF x = y THEN ~gui.flag[y] ELSE gui.flag[y]
    BY <1>5 DEF ActionInv, TypeOK
  <2> QED BY <2>2, <2>3, <2>4, <2>5
<1>9. OneQuestion'
  BY <1>1, <1>3, <1>5 DEF ActionInv, OneQuestion, Dead
<1>10. ClosingAsked' /\ ClosedFirst'
  BY <1>1, <1>3 DEF ActionInv, ClosingAsked, ClosedFirst, Dead
<1>11. AgreedTo'
  BY <1>1, <1>2, <1>3 DEF ActionInv, AgreedTo, Permitted
<1>12. NoneForgotten'
  BY <1>1, <1>5 DEF ActionInv, NoneForgotten, NothingWrong, InHand, Told
<1> QED BY <1>6, <1>7, <1>8, <1>9, <1>10, <1>11, <1>12 DEF ActionInv

LEMMA TwoMore ==
    ASSUME NEW T, NEW s \in Seq(T), "Q" \in T, "Y" \in T
    PROVE  s \o <<"Q", "Y">> = (s \o <<"Q">>) \o <<"Y">>
OBVIOUS

LEMMA QuietButtonKeeps ==
    ASSUME ActionInv, QuietButton PROVE ActionInv'
<1>1. /\ gui.open /\ gui.question /\ Write(<<"Q", "Y">>)
      /\ gui' = [gui EXCEPT !.flag["Q"] = TRUE, !.question = FALSE]
      /\ done' = [done EXCEPT !.clicked = @ \cup {gui.asked}]
      /\ ~gui.flag["Q"] /\ UNCHANGED <<kind, child, toParent>>
  BY DEF QuietButton
<1>2. toChild \in Seq(Byte) /\ "Q" \in Byte /\ "Y" \in Byte /\ "Q" \in Flag
      /\ \A x \in Flag : x \notin {"Y", "N", "X"}
  BY Types DEF ActionInv, Byte, Flag
<1> DEFINE ticked == toChild \o <<"Q">>
<1>3. gui.alive /\ toChild' = ticked \o <<"Y">>
  <2>1. gui.alive /\ toChild' = toChild \o <<"Q", "Y">>
    BY <1>1 DEF ActionInv, Lifetimes, Write
  <2> QED BY <1>2, <2>1, TwoMore
<1>4. /\ ticked \in Seq(Byte) /\ Range(ticked) = Range(toChild) \cup {"Q"}
      /\ \A x : /\ Count(toChild, x) \in Nat
                /\ Count(ticked, x) = Count(toChild, x) + (IF "Q" = x THEN 1 ELSE 0)
                /\ "Q" # x => Odd(ticked, x) = Odd(toChild, x)
  BY <1>2, BytesGrow, CountGrows
<1>5. Odd(ticked, "Q") = ~Odd(toChild, "Q")
  BY <1>2, CountGrows
<1> HIDE DEF ticked
<1>6. /\ toChild' \in Seq(Byte) /\ Range(toChild') = Range(ticked) \cup {"Y"}
      /\ \A x : /\ Count(toChild', x) = Count(ticked, x) + (IF "Y" = x THEN 1 ELSE 0)
                /\ "Y" # x => Odd(toChild', x) = Odd(ticked, x)
  BY <1>2, <1>3, <1>4, BytesGrow, CountGrows
<1>7. /\ Count(toChild', "Y") = Count(toChild, "Y") + 1
      /\ Count(toChild', "N") = Count(toChild, "N")
      /\ Count(toChild', "X") = Count(toChild, "X")
      /\ Count(toChild, "Y") \in Nat
  BY <1>4, <1>6
<1>8. gui.asked \in Path
  BY <1>1 DEF ActionInv, Addressed
<1>9. /\ gui'.open = gui.open /\ gui'.alive = gui.alive /\ gui'.question = FALSE
      /\ gui'.asked = gui.asked /\ gui'.errors = gui.errors /\ gui'.aborts = gui.aborts
      /\ gui'.flag = [gui.flag EXCEPT !["Q"] = TRUE]
  BY <1>1 DEF ActionInv, TypeOK
<1>10. /\ done'.clicked = done.clicked \cup {gui.asked}
       /\ done'.agreed = done.agreed /\ done'.excused = done.excused
       /\ done'.performed = done.performed /\ done'.closed = done.closed
       /\ done'.reported = done.reported
  BY <1>1 DEF ActionInv, TypeOK
<1>11. TypeOK'
  BY <1>1, <1>6, <1>8 DEF ActionInv, TypeOK, Byte
<1>12. Addressed' /\ Lifetimes' /\ Agenda'
  BY <1>1, <1>9 DEF ActionInv, Addressed, Lifetimes, Agenda, Dead
<1>13. FlagsAgree'
  <2> SUFFICES ASSUME ~child.confused, NEW y \in Flag
               PROVE  gui'.flag[y] = (child.flag[y] # Odd(toChild', y))
    BY <1>1, <1>9 DEF FlagsAgree
  <2>1. /\ y = "Q" => Odd(toChild', y) = ~Odd(toChild, y)
        /\ y # "Q" => Odd(toChild', y) = Odd(toChild, y)
    BY <1>2, <1>4, <1>5, <1>6
  <2>2. gui.flag[y] = (child.flag[y] # Odd(toChild, y))
    BY <1>3 DEF ActionInv, FlagsAgree
  <2>3. /\ child.flag[y] \in BOOLEAN /\ gui.flag[y] \in BOOLEAN
        /\ Odd(toChild, y) \in BOOLEAN /\ Odd(toChild', y) \in BOOLEAN
    BY OddIsBoolean DEF ActionInv, TypeOK
  <2>4. gui'.flag[y] = IF y = "Q" THEN TRUE ELSE gui.flag[y]
    BY <1>9 DEF ActionInv, TypeOK
  <2>5. y = "Q" => gui.flag[y] = FALSE
    BY <1>1, <2>3
  <2> QED BY <2>1, <2>2, <2>3, <2>4, <2>5
<1>14. OneQuestion'
  <2>1. Hits(toParent, Of("?")) \in Nat /\ Count(toChild, "N") \in Nat
    BY Types DEF ActionInv
  <2> QED BY <1>1, <1>7, <1>9, <2>1 DEF ActionInv, OneQuestion, Dead
<1>15. ClosingAsked' /\ ClosedFirst'
  BY <1>1, <1>7, <1>10 DEF ActionInv, ClosingAsked, ClosedFirst, Dead
<1>16. AgreedTo'
  <2> SUFFICES ASSUME ~child.confused PROVE AgreedTo'
    BY <1>1 DEF AgreedTo
  <2>1. Permitted \subseteq Permitted' /\ done.clicked \subseteq done'.clicked
    BY <1>10 DEF Permitted
  <2>2. child.pc = "ask" => child.path \in done'.clicked
    BY <1>1, <1>10 DEF ActionInv, OneQuestion, Dead
  <2> QED BY <1>1, <1>10, <2>1, <2>2 DEF ActionInv, AgreedTo
<1>17. NoneForgotten'
  BY <1>1, <1>9, <1>10 DEF ActionInv, NoneForgotten, NothingWrong, InHand, Told
<1> QED BY <1>11, <1>12, <1>13, <1>14, <1>15, <1>16, <1>17 DEF ActionInv

(* The filer reads a message; a request to close windows is answered with *)
(* X in the same handler. *)
LEMMA ReceiveKeeps ==
    ASSUME ActionInv, Receive PROVE ActionInv'
<1> DEFINE m == Head(toParent)
<1>1. /\ gui.open /\ gui.alive /\ toParent # <<>> /\ toParent' = Tail(toParent)
      /\ gui' = [gui EXCEPT !.question = @ \/ m.type = "?",
                            !.asked = IF m.type = "?" THEN m.path ELSE @,
                            !.errors = @ \/ m.type = "!"]
      /\ done' = [done EXCEPT
            !.reported = IF m.type \in {"s", "M"} THEN @ \cup {m.path} ELSE @,
            !.closed = IF m.type = "X" THEN @ \cup {m.path} ELSE @]
      /\ toChild' = toChild \o (IF m.type = "X" THEN <<"X">> ELSE <<>>)
      /\ UNCHANGED <<kind, child>>
  BY DEF Receive, Write
<1>2. toChild \in Seq(Byte) /\ toParent \in Seq(Packet)
  BY Types DEF ActionInv
<1>3. /\ m \in Packet /\ toParent' \in Seq(Packet)
      /\ Range(toParent) = {m} \cup Range(toParent')
      /\ \A P : Hits(toParent, P) = (IF m \in P THEN 1 ELSE 0) + Hits(toParent', P)
  BY <1>1, <1>2, HeadAndTail
<1>4. \A P : Hits(toParent', P) \in Nat
  BY <1>3, HitsNat
<1> HIDE DEF m
<1>5. /\ Hits(toParent, Of("?")) = (IF m.type = "?" THEN 1 ELSE 0) + Hits(toParent', Of("?"))
      /\ Hits(toParent, Of("X")) = (IF m.type = "X" THEN 1 ELSE 0) + Hits(toParent', Of("X"))
  <2>1. \A t : m \in Of(t) <=> m.type = t
    BY <1>3 DEF Of
  <2> QED BY <1>3, <2>1
<1>6. /\ toChild' \in Seq(Byte)
      /\ Range(toChild') \subseteq Range(toChild) \cup {"X"}
      /\ Count(toChild', "Y") = Count(toChild, "Y")
      /\ Count(toChild', "N") = Count(toChild, "N")
      /\ Count(toChild', "X") = Count(toChild, "X") + (IF m.type = "X" THEN 1 ELSE 0)
      /\ Count(toChild, "X") \in Nat /\ Count(toChild, "Y") \in Nat /\ Count(toChild, "N") \in Nat
      /\ \A x \in Flag : Odd(toChild', x) = Odd(toChild, x)
  <2>1. "X" \in Byte /\ "X" \notin Flag
    BY DEF Byte, Flag
  <2>2. CASE m.type = "X"
    <3>1. toChild' = toChild \o <<"X">>
      BY <1>1, <2>2
    <3>2. /\ toChild' \in Seq(Byte) /\ Range(toChild') = Range(toChild) \cup {"X"}
          /\ \A x : /\ Count(toChild, x) \in Nat
                    /\ Count(toChild', x) = Count(toChild, x) + (IF "X" = x THEN 1 ELSE 0)
                    /\ "X" # x => Odd(toChild', x) = Odd(toChild, x)
      BY <1>2, <2>1, <3>1, BytesGrow, CountGrows
    <3> QED BY <2>1, <2>2, <3>2
  <2>3. CASE m.type # "X"
    <3>1. toChild' = toChild
      BY <1>1, <1>2, <2>3, ConcatEmptySeq
    <3> QED BY <1>2, <2>3, <3>1, Types DEF ActionInv
  <2> QED BY <2>2, <2>3
<1>7. m.type # "!" => m.path \in Path
  BY <1>3 DEF ActionInv, Addressed
<1>8. /\ gui'.open = gui.open /\ gui'.alive = gui.alive /\ gui'.flag = gui.flag
      /\ gui'.question = (gui.question \/ m.type = "?")
      /\ gui'.asked = (IF m.type = "?" THEN m.path ELSE gui.asked)
      /\ gui'.errors = (gui.errors \/ m.type = "!") /\ gui'.aborts = gui.aborts
  BY <1>1 DEF ActionInv, TypeOK
<1>9. /\ done'.clicked = done.clicked /\ done'.agreed = done.agreed
      /\ done'.excused = done.excused /\ done'.performed = done.performed
      /\ done'.closed = (IF m.type = "X" THEN done.closed \cup {m.path} ELSE done.closed)
      /\ done'.reported = (IF m.type \in {"s", "M"} THEN done.reported \cup {m.path}
                           ELSE done.reported)
  BY <1>1 DEF ActionInv, TypeOK
<1>10. TypeOK'
  <2>1. gui' \in [open : BOOLEAN, alive : BOOLEAN, question : BOOLEAN, asked : Path \cup {NoPath},
                  flag : [Flag -> BOOLEAN], errors : BOOLEAN,
                  aborts : 0..MaxAborts, toggles : 0..MaxToggles]
    <3>1. (gui.question \/ m.type = "?") \in BOOLEAN /\ (gui.errors \/ m.type = "!") \in BOOLEAN
      OBVIOUS
    <3>2. (IF m.type = "?" THEN m.path ELSE gui.asked) \in Path \cup {NoPath}
      BY <1>7 DEF ActionInv, TypeOK
    <3> QED BY <1>1, <3>1, <3>2 DEF ActionInv, TypeOK
  <2>2. done' \in [clicked : SUBSET Path, excused : SUBSET Path, agreed : SUBSET Path,
                   performed : SUBSET Path, reported : SUBSET Path, closed : SUBSET Path]
    BY <1>1, <1>7 DEF ActionInv, TypeOK
  <2> QED BY <1>1, <1>3, <1>6, <2>1, <2>2 DEF ActionInv, TypeOK, Byte, Packet
<1>11. Addressed'
  BY <1>1, <1>3, <1>7, <1>8 DEF ActionInv, Addressed
<1>12. Lifetimes' /\ Agenda'
  BY <1>1, <1>8 DEF ActionInv, Lifetimes, Agenda, Dead
<1>13. FlagsAgree'
  BY <1>1, <1>6, <1>8 DEF ActionInv, FlagsAgree
<1>14. OneQuestion'
  <2> SUFFICES ASSUME ~Dead PROVE OneQuestion'
    BY <1>1 DEF OneQuestion, Dead
  <2>1. /\ Hits(toParent, Of("?")) + Count(toChild, "Y") + Count(toChild, "N")
             + (IF gui.question THEN 1 ELSE 0)
            = IF child.pc = "ask" THEN 1 ELSE 0
        /\ gui.question => gui.asked = child.path
        /\ \A x \in Range(toParent) : x.type = "?" => x.path = child.path
    BY DEF ActionInv, OneQuestion
  <2>2. CASE m.type = "?"
    <3>1. Hits(toParent, Of("?")) = 1 + Hits(toParent', Of("?"))
          /\ Hits(toParent', Of("?")) \in Nat
      BY <1>4, <1>5, <2>2
    <3>2. ~gui.question
      BY <1>6, <2>1, <3>1
    <3>3. gui'.question = TRUE /\ gui'.asked = m.path
      BY <1>8, <2>2
    <3>4. m.path = child.path
      BY <1>3, <2>1, <2>2
    <3> QED BY <1>1, <1>3, <1>6, <2>1, <3>1, <3>2, <3>3, <3>4 DEF OneQuestion
  <2>3. CASE m.type # "?"
    <3>1. gui'.question = gui.question /\ gui'.asked = gui.asked
      BY <1>8, <2>3 DEF ActionInv, TypeOK
    <3>2. Hits(toParent', Of("?")) = Hits(toParent, Of("?"))
      BY <1>4, <1>5, <2>3
    <3> QED BY <1>1, <1>3, <1>6, <2>1, <3>1, <3>2 DEF OneQuestion
  <2> QED BY <2>2, <2>3
<1>15. ClosingAsked'
  <2> SUFFICES ASSUME ~Dead, ~child.confused PROVE ClosingAsked'
    BY <1>1 DEF ClosingAsked, Dead
  <2>1. /\ Count(toChild, "X") + Hits(toParent, Of("X")) = IF child.pc = "handshake" THEN 1 ELSE 0
        /\ \A x \in Range(toParent) : x.type = "X" => x.path = child.path
        /\ Count(toChild, "X") = 1 => child.path \in done.closed
        /\ child.pc = "run" => child.path \in done.closed
    BY DEF ActionInv, ClosingAsked
  <2>2. Count(toChild', "X") + Hits(toParent', Of("X")) = IF child.pc = "handshake" THEN 1 ELSE 0
    BY <1>4, <1>5, <1>6, <2>1
  <2>3. done.closed \subseteq done'.closed
    BY <1>9
  <2>4. Count(toChild', "X") = 1 => child.path \in done'.closed
    <3>1. CASE m.type = "X"
      BY <1>3, <1>9, <2>1, <3>1
    <3>2. CASE m.type # "X"
      BY <1>6, <2>1, <2>3, <3>2
    <3> QED BY <3>1, <3>2
  <2> QED BY <1>1, <1>3, <2>1, <2>2, <2>3, <2>4 DEF ClosingAsked
<1>16. ClosedFirst'
  BY <1>1, <1>9 DEF ActionInv, ClosedFirst
<1>17. AgreedTo'
  BY <1>1, <1>6, <1>9 DEF ActionInv, AgreedTo, Permitted
<1>18. NoneForgotten'
  <2> SUFFICES ASSUME NothingWrong', NEW p \in done.agreed PROVE InHand(p)'
    BY <1>9 DEF NoneForgotten
  <2>1. NothingWrong
    BY <1>1, <1>3, <1>8 DEF NothingWrong
  <2>2. InHand(p)
    BY <2>1 DEF ActionInv, NoneForgotten
  <2>3. Told(p) => Told(p)'
    BY <1>1, <1>3, <1>9 DEF Told
  <2> QED BY <1>1, <1>9, <2>2, <2>3 DEF InHand
<1> QED BY <1>10, <1>11, <1>12, <1>13, <1>14, <1>15, <1>16, <1>17, <1>18 DEF ActionInv

LEMMA EndOfFileKeeps ==
    ASSUME ActionInv, EndOfFile PROVE ActionInv'
<1>1. /\ toParent = <<>> /\ Dead /\ toChild' = <<>>
      /\ gui' = [gui EXCEPT !.alive = FALSE, !.question = FALSE, !.open = gui.errors]
      /\ UNCHANGED <<kind, child, toParent, done>>
  BY DEF EndOfFile
<1>2. /\ gui'.alive = FALSE /\ gui'.question = FALSE
      /\ gui'.errors = gui.errors /\ gui'.aborts = gui.aborts
  BY <1>1 DEF ActionInv, TypeOK
<1>3. TypeOK'
  <2>1. gui' \in [open : BOOLEAN, alive : BOOLEAN, question : BOOLEAN, asked : Path \cup {NoPath},
                  flag : [Flag -> BOOLEAN], errors : BOOLEAN,
                  aborts : 0..MaxAborts, toggles : 0..MaxToggles]
    BY <1>1 DEF ActionInv, TypeOK
  <2>2. toChild' \in Seq(Flag \cup {"Y", "N", "X"})
    BY <1>1
  <2> QED BY <1>1, <2>1, <2>2 DEF ActionInv, TypeOK
<1>4. Addressed' /\ Lifetimes' /\ Agenda' /\ FlagsAgree'
  BY <1>1, <1>2 DEF ActionInv, Addressed, Lifetimes, Agenda, FlagsAgree, Dead
<1>5. OneQuestion' /\ ClosingAsked' /\ ClosedFirst'
  BY <1>1 DEF ActionInv, OneQuestion, ClosingAsked, ClosedFirst, Dead
<1>6. AgreedTo'
  BY <1>1 DEF ActionInv, AgreedTo, Permitted, Dead
<1>7. NoneForgotten'
  BY <1>1, <1>2 DEF ActionInv, NoneForgotten, NothingWrong, InHand, Told
<1> QED BY <1>3, <1>4, <1>5, <1>6, <1>7 DEF ActionInv


--------------------
(* The invariant holds at the start and every step keeps it. *)

LEMMA InitActionInv == Init => ActionInv
<1> SUFFICES ASSUME Init PROVE ActionInv
  OBVIOUS
<1>1. PICK on \in SUBSET FlagsOf(kind) :
          /\ gui = [open |-> TRUE, alive |-> TRUE, question |-> FALSE, asked |-> NoPath,
                    flag |-> [x \in Flag |-> x \in on], errors |-> FALSE,
                    aborts |-> 0, toggles |-> 0]
          /\ child = [pc |-> "forked", flag |-> [x \in Flag |-> x \in on],
                      todo |-> Jobs(Selected), path |-> NoPath, info |-> Plain,
                      signalled |-> FALSE, confused |-> FALSE]
  BY DEF Init
<1>2. /\ kind \in Kinds /\ toChild = <<>> /\ toParent = <<>>
      /\ done = [clicked |-> {}, excused |-> {}, agreed |-> {},
                 performed |-> {}, reported |-> {}, closed |-> {}]
  BY DEF Init
<1>3. Plain \in Info
  BY DEF Plain, Info
<1>4. Jobs(Selected) \in Seq(Task) /\ \A t \in Range(Jobs(Selected)) : t.op = "do"
  BY ActionAssumption, JobsAreTasks
<1>5. [x \in Flag |-> x \in on] \in [Flag -> BOOLEAN]
  OBVIOUS
<1>6. 0 \in 0..MaxAborts /\ 0 \in 0..MaxToggles
  BY ActionAssumption
<1>7. TypeOK
  <2>1. gui \in [open : BOOLEAN, alive : BOOLEAN, question : BOOLEAN, asked : Path \cup {NoPath},
                 flag : [Flag -> BOOLEAN], errors : BOOLEAN,
                 aborts : 0..MaxAborts, toggles : 0..MaxToggles]
    BY <1>1, <1>5, <1>6
  <2>2. child \in [pc : {"forked", "next", "ask", "act", "handshake", "run", "tell",
                         "exited", "killed"},
                   flag : [Flag -> BOOLEAN],
                   todo : Seq([op : {"do", "enter", "end"}, path : Path]),
                   path : Path \cup {NoPath}, info : Info,
                   signalled : BOOLEAN, confused : BOOLEAN]
    BY <1>1, <1>3, <1>4, <1>5 DEF Task
  <2> QED BY <1>2, <2>1, <2>2 DEF TypeOK
<1>8. Range(toParent) = {} /\ Range(toChild) = {}
  BY <1>2, RangeOne
<1>9. /\ Hits(toParent, Of("?")) = 0 /\ Hits(toParent, Of("X")) = 0
      /\ \A x : Count(toChild, x) = 0 /\ Odd(toChild, x) = FALSE
  BY <1>2, HitsEmpty, CountNothing
<1>10. /\ gui.open /\ gui.alive /\ ~gui.question /\ gui.aborts = 0
       /\ child.pc = "forked" /\ child.todo = Jobs(Selected)
       /\ ~child.signalled /\ ~child.confused /\ gui.flag = child.flag
  BY <1>1
<1>11. Addressed /\ Lifetimes
  BY <1>8, <1>10 DEF Addressed, Lifetimes
<1>12. Agenda
  <2>1. child.todo # <<>> => Range(Tail(child.todo)) \subseteq Range(child.todo)
    BY <1>4, <1>10, InRange
  <2> QED BY <1>4, <1>10, <2>1 DEF Agenda
<1>13. FlagsAgree
  BY <1>5, <1>7, <1>9, <1>10 DEF FlagsAgree, TypeOK
<1>14. OneQuestion /\ ClosingAsked
  <2>1. Count(toChild, "Y") = 0 /\ Count(toChild, "N") = 0 /\ Count(toChild, "X") = 0
    BY <1>9
  <2> QED BY <1>8, <1>9, <1>10, <2>1 DEF OneQuestion, ClosingAsked
<1>15. ClosedFirst /\ AgreedTo /\ NoneForgotten
  BY <1>2, <1>4, <1>10 DEF ClosedFirst, AgreedTo, NoneForgotten
<1> QED BY <1>7, <1>11, <1>12, <1>13, <1>14, <1>15 DEF ActionInv

LEMMA ActionStep == ActionInv /\ [Next]_vars => ActionInv'
<1> SUFFICES ASSUME ActionInv, [Next]_vars PROVE ActionInv'
  OBVIOUS
<1>1. CASE ChildStep
  BY <1>1, NewGroupKeeps, ConsiderKeeps, ReadReplyKeeps, EnterDirectoryKeeps, WorksKeeps,
     FailsKeeps, EndDirectoryKeeps, TellKeeps, AskToCloseKeeps, HandshakeKeeps, ExitKeeps
     DEF ChildStep
<1>2. CASE Killed
  BY <1>2, KilledKeeps
<1>3. CASE Receive
  BY <1>3, ReceiveKeeps
<1>4. CASE EndOfFile
  BY <1>4, EndOfFileKeeps
<1>5. CASE User
  BY <1>5, AnswerKeeps, QuietButtonKeeps, CancelKeeps, ToggleKeeps DEF User
<1>6. CASE UNCHANGED vars
  <2>1. UNCHANGED <<kind, gui, child, toChild, toParent, done>>
    BY <1>6 DEF vars
  <2>2. TypeOK' /\ Addressed' /\ Lifetimes' /\ Agenda'
    BY <2>1 DEF ActionInv, TypeOK, Addressed, Lifetimes, Agenda, Dead
  <2>3. FlagsAgree' /\ OneQuestion' /\ ClosingAsked' /\ ClosedFirst'
    BY <2>1 DEF ActionInv, FlagsAgree, OneQuestion, ClosingAsked, ClosedFirst, Dead
  <2>4. AgreedTo' /\ NoneForgotten'
    BY <2>1 DEF ActionInv, AgreedTo, Permitted, NoneForgotten, NothingWrong, InHand, Told
  <2> QED BY <2>2, <2>3, <2>4 DEF ActionInv
<1> QED BY <1>1, <1>2, <1>3, <1>4, <1>5, <1>6 DEF Next

(* The inductive invariant of the action window: what is on the two pipes *)
(* and in the window accounts for what the child waits for, what it does *)
(* has been agreed to, and nothing that was agreed to is forgotten. *)
THEOREM ActionInductive == Spec => []ActionInv
BY InitActionInv, ActionStep, PTL DEF Spec

--------------------
(* What the user relies on. *)

(* Every variable has its type, the numbers of toggles and signals and the *)
(* paths in the messages included. *)
THEOREM ActionTypes == Spec => []TypeOK
<1>1. ActionInv => TypeOK
  BY DEF ActionInv
<1> QED BY ActionInductive, <1>1, PTL

(* The bytes on the pipes always mean the same to the filer and the child: *)
(* the boxes agree once the toggles on their way are counted, and a reply *)
(* is on its way, or a question in the window, exactly while the child *)
(* waits for it.  So no click is taken for the answer to another question *)
(* (printf_reply, check_flags, process_message, button_yes). *)
THEOREM AnswersMatchQuestions == Spec => []BytesMeanTheSame
<1>1. ActionInv => BytesMeanTheSame
  <2> SUFFICES ASSUME ActionInv PROVE BytesMeanTheSame
    OBVIOUS
  <2>1. Questions = Hits(toParent, Of("?"))
    <3>1. toParent \in Seq(Packet)
      BY Types DEF ActionInv
    <3>2. \A i \in DOMAIN toParent : toParent[i] \in Packet
      BY <3>1
    <3>3. {i \in DOMAIN toParent : toParent[i].type = "?"}
            = {i \in DOMAIN toParent : toParent[i] \in Of("?")}
      BY <3>2 DEF Of
    <3> QED BY <3>3 DEF Questions, Hits
  <2>2. /\ Count(toChild, "Y") \in Nat /\ Count(toChild, "N") \in Nat
        /\ Hits(toParent, Of("?")) \in Nat
    BY Types DEF ActionInv
  <2>3. OneAnswer
    BY <2>1, <2>2 DEF ActionInv, OneQuestion, OneAnswer, Answers
  <2> QED BY <2>3 DEF ActionInv, BytesMeanTheSame
<1> QED BY ActionInductive, <1>1, PTL

(* The child does nothing the user has not clicked Yes for or excused with *)
(* the boxes, and a window that closes by itself has done and reported all *)
(* that was agreed to, whatever the order in which clicks, boxes, replies *)
(* and messages are read (printf_reply, do_delete, do_copy2, do_move2, *)
(* message_from_child, destroy_action_window). *)
THEOREM DoneAsAgreed == Spec => []AgreedIsDone
<1>1. ActionInv => Consent
  BY DEF ActionInv, AgreedTo, Permitted, Consent
<1>2. ActionInv => SilentSuccess
  <2> SUFFICES ASSUME ActionInv, ~gui.open, ~gui.errors, gui.aborts = 0, ~child.confused,
                      NEW p \in done.agreed
               PROVE  p \in done.performed \cap done.reported
    BY DEF SilentSuccess
  <2>1. ~gui.alive /\ Dead /\ toParent = <<>>
    BY DEF ActionInv, Lifetimes
  <2>2. ~child.signalled
    BY DEF ActionInv, Lifetimes
  <2>3. child.pc = "exited" /\ child.todo = <<>>
    BY <2>1, <2>2 DEF ActionInv, Lifetimes, Dead
  <2>4. Range(toParent) = {} /\ Range(child.todo) = {}
    BY <2>1, <2>3, RangeOne
  <2>5. NothingWrong
    BY <2>4 DEF NothingWrong
  <2>6. InHand(p)
    BY <2>5 DEF ActionInv, NoneForgotten
  <2>7. ~Told(p) \/ p \in done.reported
    BY <2>3, <2>4 DEF Told
  <2> QED BY <2>3, <2>4, <2>6, <2>7 DEF InHand
<1>3. ActionInv => AgreedIsDone
  BY <1>1, <1>2 DEF AgreedIsDone
<1> QED BY ActionInductive, <1>3, PTL

(* Nothing is unmounted or ejected before the filer has closed every window*)
(* below it, as long as the one byte the child waits for is the filer's X *)
(* (do_mount, do_eject, process_message). *)
THEOREM WindowsClosedFirst == Spec => []ClosedFirst
<1>1. ActionInv => ClosedFirst
  BY DEF ActionInv
<1> QED BY ActionInductive, <1>1, PTL

--------------------
(* The actions with an entry box.  What is typed is on its way, or the *)
(* child holds it as a text or compiled; the Y in the pipe stands where the *)
(* text is that was agreed to; and what was done to a file before is *)
(* forgotten when the child comes to it again. *)
EByte    == {b \in [type : {"Y", "N", "Q", "R", "E"}, text : Text \cup {NoText}] : b.type = "E" <=> b.text \in Text}
EMessage == [type : {"?", "!", "=", "#"}, item : EFile \cup {NoItem}]
Typed    == Text \cup {NoText}
EChildType ==
    [pc : {"next", "ask", "act", "over"}, quiet : BOOLEAN, recurse : BOOLEAN, new : Typed,
     compiled : Valid \cup {NoText}, todo : Seq(EFile), item : EFile \cup {NoItem}, replied : BOOLEAN,
     searches : Nat]

WindowTyped(w) ==
    w \in [open : BOOLEAN, alive : BOOLEAN, text : Text, quiet : BOOLEAN, recurse : BOOLEAN,
           question : BOOLEAN, asked : EFile \cup {NoItem}, results : {w.results},
           errors : BOOLEAN, typing : Nat, clicks : Nat]

USE DEF WindowTyped

EntryTypes ==
    /\ ekind \in {"find", "chmod", "settype", "usage"}
    /\ WindowTyped(ewin)
    /\ echild \in EChildType
    /\ eDown \in Seq(EByte) /\ eUp \in Seq(EMessage)
    /\ eDone \in [acted : SUBSET [item : EFile, text : Typed, asked : BOOLEAN], yes : [EFile -> Typed], came : [EFile -> Typed]]

(* The child has the text t, read or compiled; or it will when it has read *)
(* what is before the place k in its pipe. *)
Means(t)  == IF t \in Valid THEN t ELSE NoText
Has(c, t) == IF c.new # NoText THEN c.new = t ELSE c.compiled = Means(t)
HasAt(s, c, k, t) ==
    \/ \E j \in 1..(k - 1) : /\ s[j].type = "E" /\ s[j].text = t
                             /\ \A l \in 1..(k - 1) : l > j => s[l].type # "E"
    \/ (\A l \in 1..(k - 1) : s[l].type # "E") /\ Has(c, t)

(* A window that is closed, or whose child has ended, asks nothing; what it *)
(* asks is about the file that the child is at. *)
Lives ==
    /\ ~ewin.open => ~ewin.alive
    /\ ~ewin.alive => echild.pc = "over" /\ ~ewin.question
    /\ ewin.question => ewin.asked = echild.item
    /\ \A m \in Range(eUp) : m.type = "?" => m.item = echild.item

TextKept == ewin.alive => HasAt(eDown, echild, Len(eDown) + 1, ewin.text)

AskedFirst == echild.pc = "ask" /\ echild.item # NoItem =>
    /\ echild.replied
    /\ \A a \in eDone.acted : a.item # echild.item
    /\ \A k \in DOMAIN eDown : eDown[k].type = "Y" => HasAt(eDown, echild, k, eDone.yes[echild.item])

MayAct == echild.pc = "act" =>
    /\ echild.item \in EFile
    /\ HasEntry => /\ echild.compiled \in Valid
                   /\ echild.compiled = IF echild.replied THEN eDone.yes[echild.item] ELSE eDone.came[echild.item]

EntryInv == EntryTypes /\ Lives /\ InStep /\ TextKept /\ AskedFirst /\ MayAct /\ DoneAsTyped

OfTypes(S, T) == {x \in S : x.type \in T}

LEMMA NumberIs ==
    ASSUME NEW S, NEW s \in Seq(S), NEW T
    PROVE  Number(s, T) = Hits(s, OfTypes(S, T)) /\ Number(s, T) \in Nat
<1>1. Places(s, T) = {i \in DOMAIN s : s[i] \in OfTypes(S, T)}
  BY DEF Places, OfTypes
<1> QED BY <1>1, HitsNat DEF Number, Hits

LEMMA NumberNone ==
    ASSUME NEW S, NEW s \in Seq(S), NEW T
    PROVE  /\ Number(s, T) = 0 <=> \A k \in DOMAIN s : s[k].type \notin T
           /\ Number(<<>>, T) = 0
<1>1. Number(s, T) = 0 <=> \A x \in Range(s) : x \notin OfTypes(S, T)
  <2>1. Hits(s, OfTypes(S, T)) = 0 <=> \A x \in Range(s) : x \notin OfTypes(S, T)
    BY HitsNone
  <2> QED BY <2>1, NumberIs
<1>2. \A k \in DOMAIN s : s[k] \in S
  BY ElementOfSeq
<1>3. Number(<<>>, T) = 0
  <2>1. <<>> \in Seq(S)
    OBVIOUS
  <2> QED BY <2>1, NumberIs, HitsEmpty
<1> QED BY <1>1, <1>2, <1>3 DEF Range, OfTypes

LEMMA NumberGrows ==
    ASSUME NEW S, NEW s \in Seq(S), NEW t \in Seq(S), NEW T
    PROVE  s \o t \in Seq(S) /\ Number(s \o t, T) = Number(s, T) + Number(t, T)
<1>1. s \o t \in Seq(S)
  OBVIOUS
<1>2. Hits(s \o t, OfTypes(S, T)) = Hits(s, OfTypes(S, T)) + Hits(t, OfTypes(S, T))
  BY HitsConcat
<1>3. Number(s \o t, T) = Hits(s \o t, OfTypes(S, T))
  BY <1>1, NumberIs
<1> QED BY <1>1, <1>2, <1>3, NumberIs

LEMMA NumberOfOne ==
    ASSUME NEW S, NEW b \in S, NEW T
    PROVE  <<b>> \in Seq(S) /\ Number(<<b>>, T) = IF b.type \in T THEN 1 ELSE 0
<1>1. <<b>> \in Seq(S)
  OBVIOUS
<1>2. Hits(<<b>>, OfTypes(S, T)) = IF b \in OfTypes(S, T) THEN 1 ELSE 0
  BY HitsOne
<1>3. Number(<<b>>, T) = Hits(<<b>>, OfTypes(S, T))
  BY <1>1, NumberIs
<1> QED BY <1>1, <1>2, <1>3 DEF OfTypes

LEMMA NumberShrinks ==
    ASSUME NEW S, NEW s \in Seq(S), s # <<>>, NEW T
    PROVE  /\ Head(s) \in S /\ Tail(s) \in Seq(S)
           /\ Number(s, T) = (IF Head(s).type \in T THEN 1 ELSE 0) + Number(Tail(s), T)
<1>1. Head(s) \in S /\ Tail(s) \in Seq(S)
  OBVIOUS
<1>2. Hits(s, OfTypes(S, T)) = (IF Head(s) \in OfTypes(S, T) THEN 1 ELSE 0) + Hits(Tail(s), OfTypes(S, T))
  BY HeadAndTail
<1>3. Number(Tail(s), T) = Hits(Tail(s), OfTypes(S, T))
  BY <1>1, NumberIs
<1> QED BY <1>1, <1>2, <1>3, NumberIs DEF OfTypes

(* A pipe that grows at its end, one that is read, and all of it. *)
LEMMA HasWhenSent ==
    ASSUME NEW s \in Seq(EByte), NEW b \in EByte, NEW c, NEW t
    PROVE  /\ Len(s \o <<b>>) = Len(s) + 1
           /\ \A k \in 1..(Len(s) + 1) : HasAt(s, c, k, t) => HasAt(s \o <<b>>, c, k, t)
           /\ b.type = "E" /\ b.text = t => HasAt(s \o <<b>>, c, Len(s) + 2, t)
           /\ b.type # "E" /\ HasAt(s, c, Len(s) + 1, t) => HasAt(s \o <<b>>, c, Len(s) + 2, t)
           /\ \A k \in DOMAIN (s \o <<b>>) : (s \o <<b>>)[k] = IF k = Len(s) + 1 THEN b ELSE s[k]
           /\ DOMAIN (s \o <<b>>) = 1..(Len(s) + 1)
<1>1. /\ Len(s) \in Nat /\ Len(s \o <<b>>) = Len(s) + 1 /\ DOMAIN (s \o <<b>>) = 1..(Len(s) + 1)
      /\ \A k \in 1..(Len(s) + 1) : (s \o <<b>>)[k] = IF k = Len(s) + 1 THEN b ELSE s[k]
  OBVIOUS
<1>2. PICK r : r = s \o <<b>>
  OBVIOUS
<1>3. /\ Len(s) \in Nat
      /\ \A k \in 1..(Len(s) + 1) : r[k] = IF k = Len(s) + 1 THEN b ELSE s[k]
  BY <1>1, <1>2
<1>4. \A k \in 1..(Len(s) + 1) : HasAt(s, c, k, t) => HasAt(r, c, k, t)
  BY <1>3 DEF HasAt
<1>5. b.type = "E" /\ b.text = t => HasAt(r, c, Len(s) + 2, t)
  BY <1>3 DEF HasAt
<1>6. b.type # "E" /\ HasAt(s, c, Len(s) + 1, t) => HasAt(r, c, Len(s) + 2, t)
  BY <1>3 DEF HasAt
<1> QED BY <1>1, <1>2, <1>4, <1>5, <1>6

LEMMA ProcessedIs ==
    ASSUME NEW c \in EChildType, NEW b \in EByte
    PROVE  /\ Processed(c, b) \in EChildType
           /\ Processed(c, b).quiet   = IF b.type = "Q" THEN ~c.quiet ELSE c.quiet
           /\ Processed(c, b).recurse = IF b.type = "R" THEN ~c.recurse ELSE c.recurse
           /\ Processed(c, b).new     = IF b.type = "E" THEN b.text ELSE c.new
           /\ Processed(c, b).compiled = c.compiled /\ Processed(c, b).pc = c.pc
           /\ Processed(c, b).item = c.item /\ Processed(c, b).replied = c.replied
<1>1. b.type \in {"Y", "N", "Q", "R", "E"} /\ b.text \in Typed /\ (b.type = "E" => b.text \in Text)
  BY DEF EByte, Typed
<1> QED BY <1>1 DEF Processed, EChildType

LEMMA HasWhenRead ==
    ASSUME NEW s \in Seq(EByte), s # <<>>, NEW c \in EChildType, NEW t, NEW k \in 2..(Len(s) + 1),
           HasAt(s, c, k, t)
    PROVE  HasAt(Tail(s), Processed(c, Head(s)), k - 1, t)
<1>1. PICK r : r = Tail(s)
  OBVIOUS
<1>2. Head(s) = s[1] /\ Len(s) \in Nat /\ \A l \in 1..(Len(s) - 1) : r[l] = s[l + 1]
  BY <1>1
<1>3. s[1] \in EByte
  BY <1>2
<1>4. PICK d : d = Processed(c, s[1])
  OBVIOUS
<1>5. IF s[1].type = "E" THEN d.new = s[1].text ELSE d.new = c.new /\ d.compiled = c.compiled
  BY <1>3, <1>4, ProcessedIs
<1>6. s[1].type = "E" => s[1].text # NoText
  BY <1>3, EntryAssumption DEF EByte
<1>7. CASE \E j \in 1..(k - 1) : s[j].type = "E" /\ s[j].text = t /\ \A l \in 1..(k - 1) : l > j => s[l].type # "E"
  <2>1. PICK j \in 1..(k - 1) : s[j].type = "E" /\ s[j].text = t /\ \A l \in 1..(k - 1) : l > j => s[l].type # "E"
    BY <1>7
  <2>2. CASE j = 1
    <3>1. \A l \in 1..(k - 2) : r[l].type # "E"
      BY <1>2, <2>1, <2>2
    <3>2. Has(d, t)
      BY <1>5, <1>6, <2>1, <2>2 DEF Has
    <3> QED BY <1>1, <1>2, <1>4, <3>1, <3>2 DEF HasAt
  <2>3. CASE j # 1
    <3>1. PICK i : i = j - 1
      OBVIOUS
    <3>2. i \in 1..(k - 1 - 1) /\ i \in 1..(Len(s) - 1) /\ i + 1 = j
      BY <1>2, <2>1, <2>3, <3>1
    <3>3. r[i] = s[j]
      BY <1>2, <3>2
    <3>4. ASSUME NEW l \in 1..(k - 1 - 1), l > i PROVE r[l].type # "E"
      <4>1. l + 1 \in 1..(k - 1) /\ l + 1 > j /\ l \in 1..(Len(s) - 1)
        BY <1>2, <3>2, <3>4
      <4> QED BY <1>2, <2>1, <4>1
    <3> QED BY <1>1, <2>1, <3>2, <3>3, <3>4 DEF HasAt
  <2> QED BY <2>2, <2>3
<1>8. CASE (\A l \in 1..(k - 1) : s[l].type # "E") /\ Has(c, t)
  <2>1. \A l \in 1..(k - 2) : r[l].type # "E"
    BY <1>2, <1>8
  <2>2. Has(d, t)
    BY <1>5, <1>8 DEF Has
  <2> QED BY <1>1, <1>2, <1>4, <2>1, <2>2 DEF HasAt
<1> QED BY <1>7, <1>8 DEF HasAt

LEMMA CheckFlagsIs ==
    ASSUME EntryTypes, NEW t \in Text, HasAt(eDown, echild, Len(eDown) + 1, t)
    PROVE  /\ CheckFlags \in EChildType
           /\ CheckFlags.quiet = (echild.quiet # OddlyMany("Q"))
           /\ CheckFlags.recurse = (echild.recurse # OddlyMany("R"))
           /\ CheckFlags.compiled = echild.compiled /\ CheckFlags.pc = echild.pc
           /\ CheckFlags.todo = echild.todo /\ CheckFlags.item = echild.item
           /\ CheckFlags.searches = echild.searches
           /\ Has(CheckFlags, t)
<1> DEFINE texts == Places(eDown, {"E"})
           last  == Max(texts)
           new   == IF texts = {} THEN echild.new ELSE eDown[last].text
<1>1. DOMAIN eDown = 1..Len(eDown) /\ Len(eDown) \in Nat /\ \A k \in DOMAIN eDown : eDown[k] \in EByte
  BY DEF EntryTypes
<1>2. texts = {k \in 1..Len(eDown) : eDown[k].type = "E"}
  BY <1>1 DEF Places
<1>3. IF texts = {} THEN Has(echild, t) ELSE last \in texts /\ eDown[last].text = t
  <2>1. ASSUME NEW j \in 1..Len(eDown), eDown[j].type = "E", eDown[j].text = t,
               \A l \in 1..Len(eDown) : l > j => eDown[l].type # "E"
        PROVE  texts # {} /\ last \in texts /\ eDown[last].text = t
    <3>1. j \in texts /\ \A y \in texts : j >= y
      BY <1>1, <1>2, <2>1
    <3>2. last \in texts /\ \A y \in texts : last >= y
      BY <3>1 DEF Max
    <3>3. last = j
      BY <1>1, <1>2, <3>1, <3>2
    <3> QED BY <2>1, <3>1, <3>3
  <2>2. ASSUME \A l \in 1..Len(eDown) : eDown[l].type # "E", Has(echild, t)
        PROVE  texts = {}
    BY <1>2, <2>2
  <2>3. 1..(Len(eDown) + 1 - 1) = 1..Len(eDown)
    BY <1>1
  <2> QED BY <2>1, <2>2, <2>3 DEF HasAt
<1> HIDE DEF last
<1>4. new \in Typed /\ (texts # {} => new = t /\ new # NoText)
  BY <1>3, EntryAssumption DEF EntryTypes, EChildType, Typed
<1> HIDE DEF texts, new
<1>5. CheckFlags = [echild EXCEPT !.quiet = (@ # OddlyMany("Q")), !.recurse = (@ # OddlyMany("R")), !.new = new]
  BY DEF CheckFlags, new, texts, last, EntryTypes, EChildType
<1>6. OddlyMany("Q") \in BOOLEAN /\ OddlyMany("R") \in BOOLEAN
  BY DEF OddlyMany
<1>7. /\ CheckFlags \in EChildType /\ CheckFlags.new = new
      /\ CheckFlags.quiet = (echild.quiet # OddlyMany("Q"))
      /\ CheckFlags.recurse = (echild.recurse # OddlyMany("R"))
      /\ CheckFlags.compiled = echild.compiled /\ CheckFlags.pc = echild.pc
      /\ CheckFlags.todo = echild.todo /\ CheckFlags.item = echild.item
      /\ CheckFlags.searches = echild.searches
  <2>1. PICK q \in BOOLEAN, r \in BOOLEAN : q = (echild.quiet # OddlyMany("Q")) /\ r = (echild.recurse # OddlyMany("R"))
    OBVIOUS
  <2>2. CheckFlags = [echild EXCEPT !.quiet = q, !.recurse = r, !.new = new]
    BY <1>5, <2>1, Zenon
  <2>3. /\ CheckFlags \in EChildType /\ CheckFlags.new = new /\ CheckFlags.quiet = q /\ CheckFlags.recurse = r
        /\ CheckFlags.compiled = echild.compiled /\ CheckFlags.pc = echild.pc
        /\ CheckFlags.todo = echild.todo /\ CheckFlags.item = echild.item
        /\ CheckFlags.searches = echild.searches
    BY <1>4, <2>2 DEF EntryTypes, EChildType
  <2> QED BY <2>1, <2>3, Zenon
<1>8. Has(CheckFlags, t)
  BY <1>3, <1>4, <1>7 DEF Has, new
<1> QED BY <1>7, <1>8

(* The condition is compiled, and the child acts or asks. *)
LEMMA LoopIs ==
    ASSUME NEW c \in EChildType, NEW t \in Typed, Has(c, t)
    PROVE  LET d == Loop(c).child IN
           /\ d \in EChildType /\ Has(d, t)
           /\ d.quiet = c.quiet /\ d.recurse = c.recurse /\ d.item = c.item /\ d.todo = c.todo
           /\ d.pc \in {"act", "ask"}
           /\ d.pc = "act" => /\ d.replied = c.replied /\ Loop(c).says = <<>>
                              /\ HasEntry => d.compiled = t /\ t \in Valid
           /\ d.pc = "ask" => d.replied = TRUE /\ Loop(c).says = Errs(1) \o <<AskAbout(c.item)>>
<1>1. PICK f : f = Compile(c)
  OBVIOUS
<1>2. Means(t) \in Valid \cup {NoText} /\ NoText \notin Valid
  BY EntryAssumption DEF Means
<1>3. /\ f \in EChildType /\ Has(f, t) /\ f.compiled = Means(t)
      /\ f.quiet = c.quiet /\ f.recurse = c.recurse /\ f.item = c.item /\ f.todo = c.todo /\ f.replied = c.replied
  <2>1. CASE c.new = NoText
    BY <1>1, <2>1 DEF Compile, Has
  <2>2. CASE c.new # NoText
    <3>1. c.new = t
      BY <2>2 DEF Has
    <3>2. f = [c EXCEPT !.compiled = Means(t), !.new = NoText]
      BY <1>1, <2>2, <3>1 DEF Compile, Means, EChildType
    <3> QED BY <1>2, <3>2 DEF Has, EChildType, Typed
  <2> QED BY <2>1, <2>2
<1>4. CASE Ready(f)
  <2>1. Loop(c) = [child |-> [f EXCEPT !.pc = "act"], says |-> << >>]
    BY <1>1, <1>4 DEF Loop
  <2>2. HasEntry => Means(t) # NoText
    BY <1>3, <1>4 DEF Ready
  <2>3. PICK d : d = [f EXCEPT !.pc = "act"]
    OBVIOUS
  <2>4. /\ d \in EChildType /\ d.pc = "act" /\ d.new = f.new /\ d.compiled = f.compiled /\ d.quiet = f.quiet
        /\ d.recurse = f.recurse /\ d.item = f.item /\ d.todo = f.todo /\ d.replied = f.replied
    BY <1>3, <2>3 DEF EChildType
  <2>5. Has(d, t)
    BY <1>3, <2>4 DEF Has
  <2>6. HasEntry => d.compiled = t /\ t \in Valid
    BY <1>3, <2>2, <2>4 DEF Means
  <2>7. Loop(c).child = d /\ Loop(c).says = <<>>
    BY <2>1, <2>3
  <2> QED BY <1>3, <2>4, <2>5, <2>6, <2>7
<1>5. CASE ~Ready(f)
  <2>1. Loop(c) = [child |-> [f EXCEPT !.pc = "ask", !.replied = TRUE], says |-> Errs(1) \o <<AskAbout(f.item)>>]
    BY <1>1, <1>5 DEF Loop
  <2>3. PICK d : d = [f EXCEPT !.pc = "ask", !.replied = TRUE]
    OBVIOUS
  <2>4. /\ d \in EChildType /\ d.pc = "ask" /\ d.new = f.new /\ d.compiled = f.compiled /\ d.quiet = f.quiet
        /\ d.recurse = f.recurse /\ d.item = f.item /\ d.todo = f.todo /\ d.replied = TRUE
    BY <1>3, <2>3 DEF EChildType
  <2>5. Has(d, t)
    BY <1>3, <2>4 DEF Has
  <2>6. Loop(c).child = d /\ Loop(c).says = Errs(1) \o <<AskAbout(c.item)>>
    BY <1>3, <2>1, <2>3
  <2> QED BY <1>3, <2>4, <2>5, <2>6
<1> QED BY <1>4, <1>5

(* What the child says. *)
LEMMA ErrorSaid ==
    /\ Errs(1) \in Seq(EMessage)
    /\ \A k \in DOMAIN Errs(1) : Errs(1)[k].type = "!"
    /\ Number(Errs(1), {"?"}) = 0
<1>1. Errs(1) = [k \in 1..1 |-> [type |-> "!", item |-> NoItem]]
  BY DEF Errs
<1>2. Errs(1) \in Seq(EMessage)
  <2>1. Errs(1) \in [1..1 -> EMessage]
    BY <1>1 DEF EMessage
  <2> QED BY <2>1, SeqDef
<1>3. \A k \in DOMAIN Errs(1) : Errs(1)[k].type = "!"
  BY <1>1
<1> QED BY <1>2, <1>3, NumberNone

LEMMA QuestionAsked ==
    ASSUME NEW i \in EFile \cup {NoItem}
    PROVE  /\ <<AskAbout(i)>> \in Seq(EMessage) /\ Number(<<AskAbout(i)>>, {"?"}) = 1
           /\ \A m \in Range(<<AskAbout(i)>>) : m.item = i
<1>1. AskAbout(i) \in EMessage /\ AskAbout(i).type = "?" /\ AskAbout(i).item = i
  BY DEF AskAbout, EMessage
<1>2. Range(<<AskAbout(i)>>) = {AskAbout(i)}
  BY RangeOne
<1> QED BY <1>1, <1>2, NumberOfOne

LEMMA HasAtStill ==
    ASSUME NEW s, NEW c, NEW d, NEW k, NEW t, HasAt(s, c, k, t), Has(c, t) => Has(d, t)
    PROVE  HasAt(s, d, k, t)
BY DEF HasAt

LEMMA NothingSent ==
    ASSUME NEW c, NEW t, Has(c, t)
    PROVE  HasAt(<<>>, c, Len(<<>>) + 1, t)
BY DEF HasAt

(* What is in the pipes while the child does not ask. *)
LEMMA CountsAre ==
    ASSUME EntryTypes, InStep, ewin.alive
    PROVE  /\ Number(eUp, {"?"}) \in Nat /\ Number(eDown, {"Y", "N"}) \in Nat
           /\ Number(eDown, {"Q"}) \in Nat /\ Number(eDown, {"R"}) \in Nat
           /\ echild.pc # "ask" => /\ Number(eUp, {"?"}) = 0 /\ Number(eDown, {"Y", "N"}) = 0 /\ ~ewin.question
                                   /\ \A m \in Range(eUp) : m.type # "?"
           /\ echild.pc = "ask" => Number(eUp, {"?"}) + Number(eDown, {"Y", "N"})
                                     + (IF ewin.question THEN 1 ELSE 0) = 1
<1>1. /\ Number(eUp, {"?"}) \in Nat /\ Number(eDown, {"Y", "N"}) \in Nat
      /\ Number(eDown, {"Q"}) \in Nat /\ Number(eDown, {"R"}) \in Nat
  BY NumberIs DEF EntryTypes
<1>2. Number(eUp, {"?"}) + Number(eDown, {"Y", "N"}) + (IF ewin.question THEN 1 ELSE 0)
         = IF echild.pc = "ask" THEN 1 ELSE 0
  BY DEF InStep
<1>3. ewin.question \in BOOLEAN
  BY DEF EntryTypes
<1>4. Number(eUp, {"?"}) = 0 => \A m \in Range(eUp) : m.type # "?"
  <2>1. Number(eUp, {"?"}) = 0 => \A k \in DOMAIN eUp : eUp[k].type \notin {"?"}
    BY NumberNone DEF EntryTypes
  <2> QED BY <2>1 DEF Range
<1> QED BY <1>1, <1>2, <1>3, <1>4

LEMMA RangeOfMore ==
    ASSUME NEW S, NEW s \in Seq(S), NEW t \in Seq(S)
    PROVE  Range(s \o t) = Range(s) \cup Range(t)
BY RangeConcatenation

LEMMA EmptyPipe ==
    /\ Number(<<>>, {"Q"}) % 2 # 1 /\ Number(<<>>, {"R"}) % 2 # 1 /\ Number(<<>>, {"Y", "N"}) = 0
    /\ DOMAIN <<>> = {}
<1>1. <<>> \in Seq({}) /\ DOMAIN <<>> = {}
  OBVIOUS
<1>2. Number(<<>>, {"Q"}) = 0 /\ Number(<<>>, {"R"}) = 0 /\ Number(<<>>, {"Y", "N"}) = 0
  BY <1>1, NumberNone
<1> QED BY <1>1, <1>2

LEMMA LoopSays ==
    ASSUME NEW c \in EChildType, NEW t \in Typed, Has(c, t)
    PROVE  /\ Loop(c).says \in Seq(EMessage)
           /\ Number(Loop(c).says, {"?"}) = IF Loop(c).child.pc = "ask" THEN 1 ELSE 0
           /\ \A m \in Range(Loop(c).says) : m.type = "?" => m.item = c.item
<1>1. c.item \in EFile \cup {NoItem}
  BY DEF EChildType
<1>2. \/ Loop(c).child.pc = "act" /\ Loop(c).says = <<>>
      \/ Loop(c).child.pc = "ask" /\ Loop(c).says = Errs(1) \o <<AskAbout(c.item)>>
  BY LoopIs
<1>3. CASE Loop(c).child.pc = "act" /\ Loop(c).says = <<>>
  <2>1. <<>> \in Seq(EMessage)
    OBVIOUS
  <2>2. Number(<<>>, {"?"}) = 0
    BY <2>1, NumberNone
  <2> QED BY <1>3, <2>1, <2>2, RangeOne
<1>4. CASE Loop(c).child.pc = "ask" /\ Loop(c).says = Errs(1) \o <<AskAbout(c.item)>>
  <2>1. PICK q : q = <<AskAbout(c.item)>>
    OBVIOUS
  <2>2. q \in Seq(EMessage) /\ Number(q, {"?"}) = 1 /\ \A m \in Range(q) : m.item = c.item
    BY <1>1, <2>1, QuestionAsked
  <2>3. /\ Errs(1) \o q \in Seq(EMessage) /\ Number(Errs(1) \o q, {"?"}) = 1
        /\ Range(Errs(1) \o q) = Range(Errs(1)) \cup Range(q)
    BY <2>2, ErrorSaid, NumberGrows, RangeOfMore
  <2>4. \A m \in Range(Errs(1)) : m.type # "?"
    BY ErrorSaid DEF Range
  <2> QED BY <1>4, <2>1, <2>2, <2>3, <2>4
<1> QED BY <1>2, <1>3, <1>4

(* What the child says, when nothing was being asked. *)
LEMMA Said ==
    ASSUME EntryTypes, NEW says \in Seq(EMessage), Number(eUp, {"?"}) = 0, NEW i,
           \A m \in Range(says) : m.type = "?" => m.item = i
    PROVE  /\ eUp \o says \in Seq(EMessage)
           /\ Number(eUp \o says, {"?"}) = Number(says, {"?"})
           /\ \A m \in Range(eUp \o says) : m.type = "?" => m.item = i
<1>1. eUp \in Seq(EMessage)
  BY DEF EntryTypes
<1>2. /\ eUp \o says \in Seq(EMessage) /\ Number(eUp \o says, {"?"}) = Number(eUp, {"?"}) + Number(says, {"?"})
      /\ Range(eUp \o says) = Range(eUp) \cup Range(says)
  BY <1>1, NumberGrows, RangeOfMore
<1>3. Number(says, {"?"}) \in Nat
  BY NumberIs
<1>4. \A m \in Range(eUp) : m.type # "?"
  <2>1. \A k \in DOMAIN eUp : eUp[k].type \notin {"?"}
    BY <1>1, NumberNone
  <2> QED BY <2>1 DEF Range
<1> QED BY <1>2, <1>3, <1>4

LEMMA SilentSays ==
    ASSUME NEW says \in Seq(EMessage), \A m \in Range(says) : m.type # "?"
    PROVE  Number(says, {"?"}) = 0
<1>1. \A k \in DOMAIN says : says[k].type \notin {"?"}
  BY DEF Range
<1> QED BY <1>1, NumberNone

LEMMA OddWhenRead ==
    ASSUME NEW s \in Seq(EByte), s # <<>>, NEW x
    PROVE  /\ Head(s).type = x => ((Number(s, {x}) % 2 = 1) <=> ~(Number(Tail(s), {x}) % 2 = 1))
           /\ Head(s).type # x => ((Number(s, {x}) % 2 = 1) <=> (Number(Tail(s), {x}) % 2 = 1))
<1>1. /\ Tail(s) \in Seq(EByte)
      /\ Number(s, {x}) = (IF Head(s).type \in {x} THEN 1 ELSE 0) + Number(Tail(s), {x})
  BY NumberShrinks
<1>2. PICK n : n = Number(Tail(s), {x})
  OBVIOUS
<1>3. n \in Nat
  BY <1>1, <1>2, NumberIs
<1>4. CASE Head(s).type = x
  <2>1. Number(s, {x}) = n + 1
    BY <1>1, <1>2, <1>3, <1>4
  <2> QED BY <1>2, <1>3, <1>4, <2>1, OddFlips
<1>5. CASE Head(s).type # x
  <2>1. Number(s, {x}) = n
    BY <1>1, <1>2, <1>3, <1>5
  <2> QED BY <1>2, <1>5, <2>1
<1> QED BY <1>4, <1>5

LEMMA OddWhenSent ==
    ASSUME NEW s \in Seq(EByte), NEW b \in EByte, NEW x
    PROVE  /\ b.type = x => ((Number(s \o <<b>>, {x}) % 2 = 1) <=> ~(Number(s, {x}) % 2 = 1))
           /\ b.type # x => ((Number(s \o <<b>>, {x}) % 2 = 1) <=> (Number(s, {x}) % 2 = 1))
<1>1. PICK n : n = Number(s, {x})
  OBVIOUS
<1>2. n \in Nat
  BY <1>1, NumberIs
<1>3. PICK q : q = <<b>>
  OBVIOUS
<1>4. q \in Seq(EByte) /\ Number(q, {x}) = IF b.type \in {x} THEN 1 ELSE 0
  BY <1>3, NumberOfOne
<1>5. Number(s \o q, {x}) = n + Number(q, {x})
  BY <1>1, <1>4, NumberGrows
<1>6. CASE b.type = x
  <2>1. Number(s \o q, {x}) = n + 1
    BY <1>4, <1>5, <1>6
  <2> QED BY <1>1, <1>2, <1>3, <1>6, <2>1, OddFlips
<1>7. CASE b.type # x
  <2>1. Number(s \o q, {x}) = n
    BY <1>2, <1>4, <1>5, <1>7
  <2> QED BY <1>1, <1>3, <1>7, <2>1
<1> QED BY <1>6, <1>7

LEMMA NextItemKeeps ==
    ASSUME EntryInv, NextItem PROVE EntryInv'
<1>1. /\ echild.pc = "next" /\ echild.todo # <<>> /\ eDown' = <<>>
      /\ ekind' = ekind /\ ewin' = ewin /\ ewin.alive /\ EntryTypes
  BY DEF NextItem, EntryInv, Lives
<1>2. PICK i : i = Head(echild.todo)
  OBVIOUS
<1>3. /\ i \in EFile /\ i # NoItem /\ Tail(echild.todo) \in Seq(EFile) /\ ewin.text \in Text /\ ewin.text \in Typed
  BY <1>1, <1>2, EntryAssumption DEF EntryTypes, EChildType, Typed
<1>4. /\ CheckFlags \in EChildType /\ Has(CheckFlags, ewin.text) /\ CheckFlags.pc = "next"
      /\ CheckFlags.quiet = (echild.quiet # OddlyMany("Q"))
      /\ CheckFlags.recurse = (echild.recurse # OddlyMany("R"))
  BY <1>1, <1>3, CheckFlagsIs DEF EntryInv, TextKept
<1>5. PICK c : c = [CheckFlags EXCEPT !.item = i, !.todo = Tail(@), !.replied = FALSE]
  OBVIOUS
<1>6. /\ c \in EChildType /\ Has(c, ewin.text) /\ c.pc = "next" /\ c.item = i /\ c.replied = FALSE
      /\ c.quiet = ewin.quiet /\ c.recurse = ewin.recurse
  <2>1. CheckFlags.todo = echild.todo
    BY <1>1, <1>3, CheckFlagsIs DEF EntryInv, TextKept
  <2>2. /\ c \in EChildType /\ c.pc = "next" /\ c.item = i /\ c.replied = FALSE
        /\ c.new = CheckFlags.new /\ c.compiled = CheckFlags.compiled
        /\ c.quiet = CheckFlags.quiet /\ c.recurse = CheckFlags.recurse
    BY <1>3, <1>4, <1>5, <2>1 DEF EChildType
  <2>3. Has(c, ewin.text)
    BY <1>4, <2>2 DEF Has
  <2>4. ewin.quiet = (echild.quiet # OddlyMany("Q")) /\ ewin.recurse = (echild.recurse # OddlyMany("R"))
    BY <1>1 DEF EntryInv, InStep
  <2> QED BY <1>4, <2>2, <2>3, <2>4
<1>7. PICK says :
        /\ eUp' = eUp \o says /\ says \in Seq(EMessage)
        /\ Number(says, {"?"}) = IF echild'.pc = "ask" THEN 1 ELSE 0
        /\ \A m \in Range(says) : m.type = "?" => m.item = i
        /\ echild' \in EChildType /\ echild'.pc \in {"next", "ask", "act"} /\ Has(echild', ewin.text)
        /\ echild'.quiet = ewin.quiet /\ echild'.recurse = ewin.recurse /\ echild'.item = i
        /\ echild'.pc = "ask" => echild'.replied
        /\ echild'.pc = "act" => ~echild'.replied /\ (HasEntry => echild'.compiled = ewin.text /\ ewin.text \in Valid)
  <2>1. \/ echild' = c /\ ESend(Errs(1))
        \/ echild' = [c EXCEPT !.pc = "ask", !.replied = TRUE] /\ ESend(<<AskAbout(i)>>)
        \/ echild' = Loop(c).child /\ ESend(Loop(c).says)
    BY <1>2, <1>5 DEF NextItem
  <2>2. CASE echild' = c /\ ESend(Errs(1))
    <3>1. \A m \in Range(Errs(1)) : m.type # "?"
      BY ErrorSaid DEF Range
    <3> QED BY <1>6, <2>2, <3>1, ErrorSaid DEF ESend
  <2>3. CASE echild' = [c EXCEPT !.pc = "ask", !.replied = TRUE] /\ ESend(<<AskAbout(i)>>)
    <3>1. /\ echild' \in EChildType /\ echild'.pc = "ask" /\ echild'.replied /\ echild'.item = i
          /\ echild'.quiet = ewin.quiet /\ echild'.recurse = ewin.recurse
          /\ echild'.new = c.new /\ echild'.compiled = c.compiled
      BY <1>6, <2>3 DEF EChildType
    <3>2. Has(echild', ewin.text)
      BY <1>6, <3>1 DEF Has
    <3>3. PICK q : q = <<AskAbout(i)>>
      OBVIOUS
    <3>4. q \in Seq(EMessage) /\ Number(q, {"?"}) = 1 /\ \A m \in Range(q) : m.item = i
      BY <1>3, <3>3, QuestionAsked
    <3>5. eUp' = eUp \o q
      BY <2>3, <3>3 DEF ESend
    <3> QED BY <3>1, <3>2, <3>4, <3>5
  <2>4. CASE echild' = Loop(c).child /\ ESend(Loop(c).says)
    <3>1. PICK d : d = Loop(c).child
      OBVIOUS
    <3>2. /\ d \in EChildType /\ Has(d, ewin.text)
          /\ d.quiet = c.quiet /\ d.recurse = c.recurse /\ d.item = c.item
          /\ d.pc \in {"act", "ask"}
          /\ d.pc = "act" => /\ d.replied = c.replied /\ Loop(c).says = <<>>
                             /\ HasEntry => d.compiled = ewin.text /\ ewin.text \in Valid
          /\ d.pc = "ask" => d.replied = TRUE /\ Loop(c).says = Errs(1) \o <<AskAbout(c.item)>>
      BY <1>3, <1>6, <3>1, LoopIs
    <3>3. PICK q : q = Loop(c).says
      OBVIOUS
    <3>4. /\ q \in Seq(EMessage) /\ Number(q, {"?"}) = IF d.pc = "ask" THEN 1 ELSE 0
          /\ \A m \in Range(q) : m.type = "?" => m.item = i
      BY <1>3, <1>6, <3>1, <3>3, LoopSays
    <3>5. eUp' = eUp \o q /\ echild' = d
      BY <2>4, <3>1, <3>3 DEF ESend
    <3> QED BY <1>6, <3>2, <3>4, <3>5
  <2> QED BY <2>1, <2>2, <2>3, <2>4
<1>8. /\ eDone' = [eDone EXCEPT !.came[i] = ewin.text, !.acted = {a \in @ : a.item # i}]
  BY <1>2 DEF NextItem
<1>9. /\ eDone'.acted = {a \in eDone.acted : a.item # i} /\ eDone'.yes = eDone.yes
      /\ eDone'.came \in [EFile -> Typed] /\ eDone'.came[i] = ewin.text
      /\ \A j \in EFile : j # i => eDone'.came[j] = eDone.came[j]
      /\ eDone' \in [acted : SUBSET [item : EFile, text : Typed, asked : BOOLEAN], yes : [EFile -> Typed],
                     came : [EFile -> Typed]]
  BY <1>1, <1>3, <1>8 DEF EntryTypes
<1>10. /\ Number(eUp, {"?"}) = 0 /\ ~ewin.question /\ \A m \in Range(eUp) : m.type # "?"
       /\ eUp \in Seq(EMessage)
  BY <1>1, CountsAre DEF EntryInv, EntryTypes
<1>11. /\ eUp' \in Seq(EMessage) /\ Number(eUp', {"?"}) = IF echild'.pc = "ask" THEN 1 ELSE 0
       /\ \A m \in Range(eUp') : m.type = "?" => m.item = i
  BY <1>1, <1>7, <1>10, Said
<1>12. EntryTypes'
  BY <1>1, <1>7, <1>9, <1>11 DEF EntryTypes
<1>13. Lives'
  BY <1>1, <1>7, <1>10, <1>11 DEF Lives, EntryInv
<1>14. InStep'
  <2>1. ~OddlyMany("Q")' /\ ~OddlyMany("R")' /\ Number(eDown', {"Y", "N"}) = 0
    BY <1>1, EmptyPipe DEF OddlyMany
  <2>2. ewin.quiet \in BOOLEAN /\ ewin.recurse \in BOOLEAN /\ echild' \in EChildType
    BY <1>1, <1>7 DEF EntryTypes
  <2>3. /\ ewin'.quiet = (echild'.quiet # OddlyMany("Q")') /\ ewin'.recurse = (echild'.recurse # OddlyMany("R")')
    <3>1. echild'.quiet = ewin.quiet /\ echild'.recurse = ewin.recurse /\ ewin' = ewin
      BY <1>1, <1>7
    <3>2. OddlyMany("Q")' = FALSE /\ OddlyMany("R")' = FALSE
      BY <2>1 DEF OddlyMany
    <3> QED BY <2>2, <3>1, <3>2
  <2>4. Number(eUp', {"?"}) + Number(eDown', {"Y", "N"}) + (IF ewin'.question THEN 1 ELSE 0)
           = IF echild'.pc = "ask" THEN 1 ELSE 0
    BY <1>1, <1>10, <1>11, <2>1
  <2> QED BY <2>3, <2>4 DEF InStep
<1>15. TextKept'
  BY <1>1, <1>7, NothingSent DEF TextKept
<1>16. AskedFirst'
  BY <1>1, <1>7, <1>9, EmptyPipe DEF AskedFirst
<1>17. MayAct'
  BY <1>1, <1>3, <1>7, <1>9 DEF MayAct, HasEntry
<1>18. DoneAsTyped'
  <2> SUFFICES ASSUME HasEntry, NEW a \in eDone'.acted
               PROVE  /\ a.text \in Valid
                      /\ a.text = IF a.asked THEN eDone'.yes[a.item] ELSE eDone'.came[a.item]
    BY <1>1 DEF DoneAsTyped, HasEntry
  <2>1. a \in eDone.acted /\ a.item # i /\ a.item \in EFile
    BY <1>1, <1>9 DEF EntryTypes
  <2> QED BY <1>9, <2>1 DEF EntryInv, DoneAsTyped
<1> QED BY <1>12, <1>13, <1>14, <1>15, <1>16, <1>17, <1>18 DEF EntryInv

(* An answer, a box or a text is read by the child that asks. *)
LEMMA ReplyKeeps ==
    ASSUME EntryInv, Reply PROVE EntryInv'
<1>1. /\ echild.pc = "ask" /\ eDown # <<>> /\ eDown' = Tail(eDown)
      /\ ekind' = ekind /\ ewin' = ewin /\ eDone' = eDone /\ EntryTypes
      /\ echild \in EChildType /\ eDown \in Seq(EByte) /\ eUp \in Seq(EMessage)
  BY DEF Reply, EntryInv, EntryTypes
<1>2. CASE ~ewin.alive
  BY <1>1, <1>2 DEF EntryInv, Lives
<1>3. CASE ewin.alive
  <2>1. PICK b : b = Head(eDown)
    OBVIOUS
  <2>2. /\ b \in EByte /\ Tail(eDown) \in Seq(EByte)
        /\ Number(eDown, {"Y", "N"}) = (IF b.type \in {"Y", "N"} THEN 1 ELSE 0) + Number(Tail(eDown), {"Y", "N"})
        /\ Number(Tail(eDown), {"Y", "N"}) \in Nat
        /\ b.type \in {"Y", "N", "Q", "R", "E"}
    <3>1. /\ Head(eDown) \in EByte /\ Tail(eDown) \in Seq(EByte)
          /\ Number(eDown, {"Y", "N"}) = (IF Head(eDown).type \in {"Y", "N"} THEN 1 ELSE 0) + Number(Tail(eDown), {"Y", "N"})
      BY <1>1, NumberShrinks
    <3>2. Number(Tail(eDown), {"Y", "N"}) \in Nat
      BY <3>1, NumberIs
    <3>3. b \in EByte => b.type \in {"Y", "N", "Q", "R", "E"}
      BY DEF EByte
    <3> QED BY <2>1, <3>1, <3>2, <3>3
  <2>3. /\ (Number(eDown, {"Q"}) % 2 = 1) <=> ((Number(Tail(eDown), {"Q"}) % 2 = 1) # (b.type = "Q"))
        /\ (Number(eDown, {"R"}) % 2 = 1) <=> ((Number(Tail(eDown), {"R"}) % 2 = 1) # (b.type = "R"))
    <3>1. ASSUME NEW x
          PROVE  /\ b.type = x => ((Number(eDown, {x}) % 2 = 1) <=> ~(Number(Tail(eDown), {x}) % 2 = 1))
                 /\ b.type # x => ((Number(eDown, {x}) % 2 = 1) <=> (Number(Tail(eDown), {x}) % 2 = 1))
      BY <1>1, <2>1, OddWhenRead
    <3> QED BY <3>1
  <2>4. PICK p : p = Processed(echild, b)
    OBVIOUS
  <2>5. /\ p \in EChildType
        /\ p.quiet   = IF b.type = "Q" THEN ~echild.quiet ELSE echild.quiet
        /\ p.recurse = IF b.type = "R" THEN ~echild.recurse ELSE echild.recurse
        /\ p.pc = "ask" /\ p.item = echild.item /\ p.replied = echild.replied
        /\ b.type \in {"Y", "N"} => p.new = echild.new /\ p.compiled = echild.compiled
    BY <1>1, <2>2, <2>4, ProcessedIs
  <2>6. Len(eDown) \in Nat /\ Len(eDown) > 0 /\ Len(Tail(eDown)) = Len(eDown) - 1
        /\ DOMAIN Tail(eDown) = 1..(Len(eDown) - 1) /\ DOMAIN eDown = 1..Len(eDown)
        /\ \A k \in 1..(Len(eDown) - 1) : Tail(eDown)[k] = eDown[k + 1]
    BY <1>1
  <2>7. \A k \in 2..(Len(eDown) + 1) : \A t : HasAt(eDown, echild, k, t) => HasAt(Tail(eDown), p, k - 1, t)
    BY <1>1, <2>1, <2>4, HasWhenRead
  <2>8. HasAt(Tail(eDown), p, Len(Tail(eDown)) + 1, ewin.text)
    <3>1. HasAt(eDown, echild, Len(eDown) + 1, ewin.text)
      BY <1>3 DEF EntryInv, TextKept
    <3>2. Len(eDown) + 1 \in 2..(Len(eDown) + 1) /\ Len(eDown) + 1 - 1 = Len(Tail(eDown)) + 1
      BY <2>6
    <3> QED BY <2>7, <3>1, <3>2
  <2>9. /\ Number(eUp, {"?"}) \in Nat
        /\ Number(eUp, {"?"}) + Number(eDown, {"Y", "N"}) + (IF ewin.question THEN 1 ELSE 0) = 1
    BY <1>1, <1>3, CountsAre DEF EntryInv
  <2>10. ewin.quiet = (echild.quiet # OddlyMany("Q")) /\ ewin.recurse = (echild.recurse # OddlyMany("R"))
    BY <1>3 DEF EntryInv, InStep
  <2>11. /\ echild.quiet \in BOOLEAN /\ echild.recurse \in BOOLEAN
         /\ ewin.quiet \in BOOLEAN /\ ewin.recurse \in BOOLEAN /\ ewin.question \in BOOLEAN
    BY <1>1 DEF EntryTypes, EChildType
  <2>12. /\ ewin'.quiet = (p.quiet # OddlyMany("Q")') /\ ewin'.recurse = (p.recurse # OddlyMany("R")')
    BY <1>1, <2>3, <2>5, <2>10, <2>11 DEF OddlyMany
  <2>13. CASE b.type \notin {"Y", "N"}
    <3>1. echild' = p /\ eUp' = eUp
      BY <1>1, <2>1, <2>4, <2>13 DEF Reply, ESend
    <3>2. EntryTypes'
      BY <1>1, <2>2, <2>5, <3>1 DEF EntryTypes
    <3>3. Lives'
      BY <1>1, <1>3, <2>5, <3>1 DEF EntryInv, Lives
    <3>4. InStep'
      <4>1. Number(eDown', {"Y", "N"}) = Number(eDown, {"Y", "N"})
        BY <1>1, <2>2, <2>13
      <4> QED BY <1>1, <2>5, <2>9, <2>12, <3>1, <4>1 DEF InStep
    <3>5. TextKept'
      BY <1>1, <2>8, <3>1 DEF TextKept
    <3>6. AskedFirst'
      <4> SUFFICES ASSUME echild.item # NoItem
                   PROVE  /\ echild.replied
                          /\ \A a \in eDone.acted : a.item # echild.item
                          /\ \A k \in DOMAIN Tail(eDown) : Tail(eDown)[k].type = "Y"
                                => HasAt(Tail(eDown), p, k, eDone.yes[echild.item])
        BY <1>1, <2>5, <3>1 DEF AskedFirst
      <4>1. /\ echild.replied
            /\ \A a \in eDone.acted : a.item # echild.item
            /\ \A k \in DOMAIN eDown : eDown[k].type = "Y" => HasAt(eDown, echild, k, eDone.yes[echild.item])
        BY <1>1 DEF EntryInv, AskedFirst
      <4>2. ASSUME NEW k \in DOMAIN Tail(eDown), Tail(eDown)[k].type = "Y"
            PROVE  HasAt(Tail(eDown), p, k, eDone.yes[echild.item])
        <5>1. k + 1 \in 2..(Len(eDown) + 1) /\ k + 1 \in DOMAIN eDown /\ eDown[k + 1].type = "Y" /\ k + 1 - 1 = k
          BY <2>6, <4>2
        <5> QED BY <2>7, <4>1, <5>1
      <4> QED BY <4>1, <4>2
    <3>7. MayAct'
      BY <2>5, <3>1 DEF MayAct
    <3>8. DoneAsTyped'
      BY <1>1 DEF EntryInv, DoneAsTyped, HasEntry
    <3> QED BY <3>2, <3>3, <3>4, <3>5, <3>6, <3>7, <3>8 DEF EntryInv
  <2>14. CASE b.type \in {"Y", "N"}
    <3>1. Number(Tail(eDown), {"Y", "N"}) = 0 /\ Number(eUp, {"?"}) = 0 /\ ~ewin.question
      BY <2>2, <2>9, <2>11, <2>14
    <3>2. p = echild
      BY <2>4, <2>14 DEF Processed
    <3>3. PICK d, says :
            /\ echild' = d /\ eUp' = eUp \o says /\ says \in Seq(EMessage) /\ d \in EChildType
            /\ d.quiet = echild.quiet /\ d.recurse = echild.recurse
            /\ Has(echild, ewin.text) => Has(d, ewin.text)
            /\ d.pc \in {"next", "over", "ask", "act"}
            /\ Number(says, {"?"}) = IF d.pc = "ask" THEN 1 ELSE 0
            /\ \A m \in Range(says) : m.type = "?" => m.item = d.item
            /\ d.pc \in {"ask", "act"} =>
                 /\ d.item = echild.item /\ d.item # NoItem /\ d.replied
            /\ d.pc = "act" => (HasEntry => d.compiled \in Valid /\ d.compiled = eDone.yes[echild.item])
      <4>1. CASE b.type = "Y" /\ echild.item = NoItem
        <5>1. PICK d : d = [echild EXCEPT !.pc = "next", !.todo = Chosen, !.searches = @ + 1]
          OBVIOUS
        <5>2. PICK m : m = [type |-> "#", item |-> NoItem]
          OBVIOUS
        <5>3. PICK q : q = <<m>>
          OBVIOUS
        <5>4. echild' = d /\ eUp' = eUp \o q
          BY <1>1, <2>1, <4>1, <5>1, <5>2, <5>3 DEF Reply, ESend
        <5>5. m \in EMessage /\ m.type = "#"
          BY <5>2 DEF EMessage
        <5>6. q \in Seq(EMessage) /\ Number(q, {"?"}) = 0 /\ \A n \in Range(q) : n.type # "?"
          <6>1. q \in Seq(EMessage) /\ Range(q) = {m}
            BY <5>3, <5>5, RangeOne
          <6> QED BY <5>5, <6>1, SilentSays
        <5>7. /\ d \in EChildType /\ d.pc = "next" /\ d.quiet = echild.quiet /\ d.recurse = echild.recurse
              /\ d.new = echild.new /\ d.compiled = echild.compiled
          <6>1. PICK n \in Nat : n = echild.searches + 1
            BY <1>1 DEF EChildType
          <6>2. d = [echild EXCEPT !.pc = "next", !.todo = Chosen, !.searches = n]
            BY <1>1, <5>1, <6>1 DEF EChildType
          <6> QED BY <1>1, <6>2, EntryAssumption DEF EChildType
        <5>8. Has(echild, ewin.text) => Has(d, ewin.text)
          BY <5>7 DEF Has
        <5> QED BY <5>4, <5>6, <5>7, <5>8
      <4>2. CASE b.type = "Y" /\ echild.item # NoItem
        <5>1. PICK t : t = eDone.yes[echild.item]
          OBVIOUS
        <5>2. t \in Typed /\ ewin.text \in Typed /\ echild.item \in EFile
          BY <1>1, <4>2, <5>1 DEF EntryTypes, EChildType, Typed
        <5>3. Has(echild, t)
          <6>1. HasAt(eDown, echild, 1, t)
            BY <1>1, <2>1, <2>6, <4>2, <5>1 DEF EntryInv, AskedFirst
          <6> QED BY <6>1 DEF HasAt
        <5>4. PICK d : d = Loop(echild).child
          OBVIOUS
        <5>5. PICK q : q = Loop(echild).says
          OBVIOUS
        <5>6. echild' = d /\ eUp' = eUp \o q
          BY <1>1, <2>1, <4>2, <5>4, <5>5 DEF Reply, ESend
        <5>7. /\ d \in EChildType
              /\ d.quiet = echild.quiet /\ d.recurse = echild.recurse /\ d.item = echild.item
              /\ d.pc \in {"act", "ask"}
              /\ d.pc = "act" => /\ d.replied = echild.replied
                                 /\ HasEntry => d.compiled = t /\ t \in Valid
              /\ d.pc = "ask" => d.replied = TRUE
          BY <1>1, <5>2, <5>3, <5>4, LoopIs
        <5>8. Has(echild, ewin.text) => Has(d, ewin.text)
          BY <1>1, <5>2, <5>4, LoopIs
        <5>9. /\ q \in Seq(EMessage) /\ Number(q, {"?"}) = IF d.pc = "ask" THEN 1 ELSE 0
              /\ \A m \in Range(q) : m.type = "?" => m.item = d.item
          BY <1>1, <5>2, <5>3, <5>4, <5>5, <5>7, LoopSays
        <5>10. echild.replied
          BY <1>1, <4>2 DEF EntryInv, AskedFirst
        <5> QED BY <4>2, <5>1, <5>6, <5>7, <5>8, <5>9, <5>10
      <4>3. CASE b.type = "N"
        <5>1. PICK d : d = [echild EXCEPT !.pc = IF echild.item = NoItem THEN "over" ELSE "next"]
          OBVIOUS
        <5>2. echild' = d /\ eUp' = eUp \o <<>>
          BY <1>1, <2>1, <4>3, <5>1 DEF Reply, ESend
        <5>3. <<>> \in Seq(EMessage)
          OBVIOUS
        <5>4. Number(<<>>, {"?"}) = 0
          BY <5>3, NumberNone
        <5>5. /\ d \in EChildType /\ d.pc \in {"next", "over"} /\ d.quiet = echild.quiet /\ d.recurse = echild.recurse
              /\ d.new = echild.new /\ d.compiled = echild.compiled
          BY <1>1, <5>1 DEF EChildType
        <5>6. Has(echild, ewin.text) => Has(d, ewin.text)
          BY <5>5 DEF Has
        <5> QED BY <5>2, <5>3, <5>4, <5>5, <5>6, RangeOne
      <4> QED BY <2>14, <4>1, <4>2, <4>3
    <3>4. /\ eUp' \in Seq(EMessage) /\ Number(eUp', {"?"}) = IF d.pc = "ask" THEN 1 ELSE 0
          /\ \A m \in Range(eUp') : m.type = "?" => m.item = d.item
      BY <1>1, <3>1, <3>3, Said
    <3>5. EntryTypes'
      BY <1>1, <2>2, <3>3, <3>4 DEF EntryTypes
    <3>6. Lives'
      BY <1>1, <1>3, <3>1, <3>3, <3>4 DEF EntryInv, Lives
    <3>7. InStep'
      <4>1. ewin'.quiet = (echild'.quiet # OddlyMany("Q")') /\ ewin'.recurse = (echild'.recurse # OddlyMany("R")')
        BY <2>5, <2>12, <2>14, <3>2, <3>3
      <4>2. Number(eUp', {"?"}) + Number(eDown', {"Y", "N"}) + (IF ewin'.question THEN 1 ELSE 0)
              = IF echild'.pc = "ask" THEN 1 ELSE 0
        BY <1>1, <3>1, <3>3, <3>4
      <4> QED BY <4>1, <4>2 DEF InStep
    <3>8. TextKept'
      <4>1. HasAt(Tail(eDown), d, Len(Tail(eDown)) + 1, ewin.text)
        BY <2>8, <3>2, <3>3, HasAtStill
      <4> QED BY <1>1, <3>3, <4>1 DEF TextKept
    <3>9. AskedFirst'
      <4>1. \A k \in DOMAIN Tail(eDown) : Tail(eDown)[k].type # "Y"
        <5>1. \A k \in DOMAIN Tail(eDown) : Tail(eDown)[k].type \notin {"Y", "N"}
          BY <2>2, <3>1, NumberNone
        <5> QED BY <5>1
      <4>2. echild.item # NoItem => \A a \in eDone.acted : a.item # echild.item
        BY <1>1 DEF EntryInv, AskedFirst
      <4> QED BY <1>1, <3>3, <4>1, <4>2 DEF AskedFirst
    <3>10. MayAct'
      <4>1. d.pc = "act" => d.item \in EFile
        BY <3>3 DEF EChildType
      <4> QED BY <1>1, <3>3, <4>1 DEF MayAct, HasEntry
    <3>11. DoneAsTyped'
      BY <1>1 DEF EntryInv, DoneAsTyped, HasEntry
    <3> QED BY <3>5, <3>6, <3>7, <3>8, <3>9, <3>10, <3>11 DEF EntryInv
  <2> QED BY <2>13, <2>14
<1> QED BY <1>2, <1>3

(* The child does it, and goes on. *)
LEMMA ActKeeps ==
    ASSUME EntryInv, Act PROVE EntryInv'
<1>1. /\ echild.pc = "act" /\ eDown' = eDown /\ ekind' = ekind /\ ewin' = ewin /\ EntryTypes /\ ewin.alive
      /\ echild \in EChildType /\ eDown \in Seq(EByte) /\ eUp \in Seq(EMessage)
  BY DEF Act, EntryInv, EntryTypes, Lives
<1> DEFINE i == echild.item
           does == [item |-> i, text |-> IF HasEntry THEN echild.compiled ELSE NoText, asked |-> echild.replied]
           Acts(ok, enters, readable) ==
             /\ ~ok => ~enters \/ ekind = "find"
             /\ enters => IsFolder(i) /\ (ekind \in {"chmod", "settype"} => echild.recurse)
             /\ readable => enters
             /\ ekind \in {"chmod", "settype"} /\ ok /\ IsFolder(i) /\ echild.recurse => enters
             /\ ekind = "usage" => ok /\ (IsFolder(i) => enters)
             /\ echild' = [echild EXCEPT !.pc = "next", !.todo = (IF readable THEN (IF IsFolder(i) THEN FilesIn[i] ELSE <<>>) ELSE <<>>) \o @]
             /\ eDone' = IF ok /\ (ekind = "settype" => ~IsFolder(i)) THEN [eDone EXCEPT !.acted = @ \cup {does}] ELSE eDone
             /\ ESend((IF ekind = "find" /\ ok THEN <<[type |-> "=", item |-> i]>>
                       ELSE IF ekind # "find" /\ ~ok THEN Errs(1) ELSE <<>>)
                      \o (IF enters /\ ~readable THEN Errs(1) ELSE <<>>))
<1>2. i = echild.item
  OBVIOUS
<1>20. \E ok, enters, readable \in BOOLEAN : Acts(ok, enters, readable)
  BY Zenon DEF Act
<1>4. does = [item |-> i, text |-> IF HasEntry THEN echild.compiled ELSE NoText, asked |-> echild.replied]
  OBVIOUS
<1> HIDE DEF i, does, Acts
<1>3. /\ i \in EFile
      /\ HasEntry => /\ echild.compiled \in Valid
                     /\ echild.compiled = IF echild.replied THEN eDone.yes[i] ELSE eDone.came[i]
  BY <1>1, <1>2 DEF EntryInv, MayAct
<1>5. PICK ok, enters, readable \in BOOLEAN : Acts(ok, enters, readable)
  BY <1>20, Zenon
<1>6. PICK more : more = IF readable THEN (IF IsFolder(i) THEN FilesIn[i] ELSE <<>>) ELSE <<>>
  OBVIOUS
<1>7. more \in Seq(EFile)
  BY <1>3, <1>6, EntryAssumption
<1>8. /\ echild' \in EChildType /\ echild'.pc = "next" /\ echild'.quiet = echild.quiet /\ echild'.recurse = echild.recurse
      /\ echild'.new = echild.new /\ echild'.compiled = echild.compiled
  <2>1. echild.todo \in Seq(EFile)
    BY <1>1 DEF EChildType
  <2>2. PICK list : list = more \o echild.todo /\ list \in Seq(EFile)
    <3>1. more \o echild.todo \in Seq(EFile)
      BY <1>7, <2>1
    <3> QED BY <3>1
  <2>3. echild' = [echild EXCEPT !.pc = "next", !.todo = list]
    BY <1>1, <1>5, <1>6, <2>2 DEF EChildType, Acts
  <2> QED BY <1>1, <2>2, <2>3 DEF EChildType
<1>9. PICK says : /\ eUp' = eUp \o says /\ says \in Seq(EMessage)
                  /\ \A m \in Range(says) : m.type # "?"
  <2>1. PICK r : r = [type |-> "=", item |-> i]
    OBVIOUS
  <2>2. PICK q : q = <<r>>
    OBVIOUS
  <2>3. q \in Seq(EMessage) /\ \A m \in Range(q) : m.type # "?"
    <3>1. r \in EMessage /\ r.type # "?"
      BY <1>3, <2>1 DEF EMessage
    <3> QED BY <2>2, <3>1, RangeOne
  <2>4. PICK e : e = Errs(1)
    OBVIOUS
  <2>5. e \in Seq(EMessage) /\ \A m \in Range(e) : m.type # "?"
    BY <2>4, ErrorSaid DEF Range
  <2>6. <<>> \in Seq(EMessage) /\ Range(<<>>) = {}
    BY RangeOne
  <2>7. PICK x, y : /\ eUp' = eUp \o (x \o y)
                    /\ x \in {q, e, <<>>} /\ y \in {e, <<>>}
    BY <1>5, <2>1, <2>2, <2>4 DEF ESend, Acts
  <2>8. /\ x \in Seq(EMessage) /\ \A m \in Range(x) : m.type # "?"
        /\ y \in Seq(EMessage) /\ \A m \in Range(y) : m.type # "?"
    BY <2>3, <2>5, <2>6, <2>7
  <2>9. x \o y \in Seq(EMessage) /\ Range(x \o y) = Range(x) \cup Range(y)
    BY <2>8, RangeOfMore
  <2> QED BY <2>7, <2>8, <2>9
<1>10. /\ Number(eUp, {"?"}) = 0 /\ Number(eDown, {"Y", "N"}) = 0 /\ ~ewin.question
  BY <1>1, CountsAre DEF EntryInv
<1>11. /\ eUp' \in Seq(EMessage) /\ Number(eUp', {"?"}) = 0
       /\ \A m \in Range(eUp') : m.type = "?" => m.item = echild'.item
  BY <1>1, <1>9, <1>10, Said, SilentSays
<1>12. /\ eDone' \in [acted : SUBSET [item : EFile, text : Typed, asked : BOOLEAN], yes : [EFile -> Typed],
                      came : [EFile -> Typed]]
       /\ eDone'.yes = eDone.yes /\ eDone'.came = eDone.came
       /\ eDone'.acted \subseteq eDone.acted \cup {does}
  <2>1. does \in [item : EFile, text : Typed, asked : BOOLEAN]
    BY <1>1, <1>3, <1>4, EntryAssumption DEF EChildType, Typed
  <2> QED BY <1>1, <1>5, <2>1 DEF EntryTypes, Acts
<1>13. EntryTypes'
  BY <1>1, <1>8, <1>11, <1>12 DEF EntryTypes
<1>14. Lives'
  BY <1>1, <1>10, <1>11 DEF EntryInv, Lives
<1>15. InStep'
  BY <1>1, <1>8, <1>10, <1>11 DEF EntryInv, InStep, OddlyMany
<1>16. TextKept'
  <2>1. Has(echild, ewin.text) => Has(echild', ewin.text)
    BY <1>8 DEF Has
  <2> QED BY <1>1, <2>1, HasAtStill DEF EntryInv, TextKept
<1>17. AskedFirst' /\ MayAct'
  BY <1>8 DEF AskedFirst, MayAct
<1>18. DoneAsTyped'
  BY <1>1, <1>3, <1>4, <1>12 DEF EntryInv, DoneAsTyped, HasEntry
<1> QED BY <1>13, <1>14, <1>15, <1>16, <1>17, <1>18 DEF EntryInv

LEMMA ListDoneKeeps ==
    ASSUME EntryInv, ListDone PROVE EntryInv'
<1>1. /\ echild.pc = "next" /\ eDown' = eDown /\ ekind' = ekind /\ ewin' = ewin /\ eDone' = eDone
      /\ EntryTypes /\ ewin.alive
      /\ echild \in EChildType /\ eDown \in Seq(EByte) /\ eUp \in Seq(EMessage)
  BY DEF ListDone, EntryInv, EntryTypes, Lives
<1>2. PICK says : /\ eUp' = eUp \o says /\ says \in Seq(EMessage)
                  /\ Number(says, {"?"}) = IF echild'.pc = "ask" THEN 1 ELSE 0
                  /\ \A m \in Range(says) : m.type = "?" => m.item = NoItem
                  /\ echild' \in EChildType /\ echild'.pc \in {"ask", "over"}
                  /\ echild'.pc = "ask" => echild'.item = NoItem
                  /\ echild'.quiet = echild.quiet /\ echild'.recurse = echild.recurse
                  /\ echild'.new = echild.new /\ echild'.compiled = echild.compiled
  <2>1. CASE echild' = [echild EXCEPT !.pc = "ask", !.item = NoItem] /\ ESend(<<AskAbout(NoItem)>>)
    <3>1. PICK q : q = <<AskAbout(NoItem)>>
      OBVIOUS
    <3>2. q \in Seq(EMessage) /\ Number(q, {"?"}) = 1 /\ \A m \in Range(q) : m.item = NoItem
      BY <3>1, QuestionAsked
    <3>3. eUp' = eUp \o q
      BY <2>1, <3>1 DEF ESend
    <3>4. /\ echild' \in EChildType /\ echild'.pc = "ask" /\ echild'.item = NoItem
          /\ echild'.quiet = echild.quiet /\ echild'.recurse = echild.recurse
          /\ echild'.new = echild.new /\ echild'.compiled = echild.compiled
      BY <1>1, <2>1 DEF EChildType
    <3> QED BY <3>2, <3>3, <3>4
  <2>2. CASE echild' = [echild EXCEPT !.pc = "over"] /\ ESend(<<>>)
    <3>1. <<>> \in Seq(EMessage)
      OBVIOUS
    <3>2. Number(<<>>, {"?"}) = 0
      BY <3>1, NumberNone
    <3>3. /\ echild' \in EChildType /\ echild'.pc = "over"
          /\ echild'.quiet = echild.quiet /\ echild'.recurse = echild.recurse
          /\ echild'.new = echild.new /\ echild'.compiled = echild.compiled
      BY <1>1, <2>2 DEF EChildType
    <3> QED BY <2>2, <3>1, <3>2, <3>3, RangeOne DEF ESend
  <2> QED BY <2>1, <2>2 DEF ListDone
<1>3. /\ Number(eUp, {"?"}) = 0 /\ Number(eDown, {"Y", "N"}) = 0 /\ ~ewin.question
      /\ \A m \in Range(eUp) : m.type # "?"
  BY <1>1, CountsAre DEF EntryInv
<1>4. /\ eUp' \in Seq(EMessage) /\ Number(eUp', {"?"}) = IF echild'.pc = "ask" THEN 1 ELSE 0
      /\ \A m \in Range(eUp') : m.type = "?" => m.item = NoItem
  BY <1>1, <1>2, <1>3, Said
<1>5. echild'.pc = "over" => \A m \in Range(eUp') : m.type # "?"
  <2>1. echild'.pc = "over" => \A k \in DOMAIN eUp' : eUp'[k].type \notin {"?"}
    BY <1>4, NumberNone
  <2> QED BY <2>1 DEF Range
<1>6. EntryTypes'
  BY <1>1, <1>2, <1>4 DEF EntryTypes
<1>7. Lives'
  BY <1>1, <1>2, <1>3, <1>4, <1>5 DEF EntryInv, Lives
<1>8. InStep'
  BY <1>1, <1>2, <1>3, <1>4 DEF EntryInv, InStep, OddlyMany
<1>9. TextKept'
  <2>1. Has(echild, ewin.text) => Has(echild', ewin.text)
    BY <1>2 DEF Has
  <2> QED BY <1>1, <2>1, HasAtStill DEF EntryInv, TextKept
<1>10. AskedFirst' /\ MayAct'
  BY <1>2 DEF AskedFirst, MayAct
<1>11. DoneAsTyped'
  BY <1>1 DEF EntryInv, DoneAsTyped, HasEntry
<1> QED BY <1>6, <1>7, <1>8, <1>9, <1>10, <1>11 DEF EntryInv

(* A byte is sent while there is a child. *)
LEMMA SentDown ==
    ASSUME EntryInv, NEW b \in EByte, SendDown(<<b>>), ewin.alive,
           b.type # "E" \/ b.text = ewin'.text, b.type # "E" => ewin'.text = ewin.text,
           echild' = echild
    PROVE  /\ eDown' \in Seq(EByte) /\ TextKept'
           /\ OddlyMany("Q")' = (OddlyMany("Q") # (b.type = "Q"))
           /\ OddlyMany("R")' = (OddlyMany("R") # (b.type = "R"))
           /\ Number(eDown', {"Y", "N"}) = Number(eDown, {"Y", "N"}) + (IF b.type \in {"Y", "N"} THEN 1 ELSE 0)
           /\ \A k \in DOMAIN eDown' : IF k = Len(eDown) + 1 THEN eDown'[k] = b ELSE k \in DOMAIN eDown /\ eDown'[k] = eDown[k]
           /\ \A k \in 1..(Len(eDown) + 1) : \A t : HasAt(eDown, echild, k, t) => HasAt(eDown', echild', k, t)
           /\ HasAt(eDown, echild, Len(eDown) + 1, ewin.text)
<1>1. PICK q : q = <<b>>
  OBVIOUS
<1>2. /\ q \in Seq(EByte) /\ Number(q, {"Y", "N"}) = IF b.type \in {"Y", "N"} THEN 1 ELSE 0
  BY <1>1, NumberOfOne
<1>3. eDown \in Seq(EByte) /\ eDown' = eDown \o q /\ eDown' = eDown \o <<b>>
  BY <1>1 DEF SendDown, EntryInv, EntryTypes
<1>4. /\ eDown' \in Seq(EByte)
      /\ Number(eDown', {"Y", "N"}) = Number(eDown, {"Y", "N"}) + (IF b.type \in {"Y", "N"} THEN 1 ELSE 0)
  <2>1. eDown \o q \in Seq(EByte) /\ Number(eDown \o q, {"Y", "N"}) = Number(eDown, {"Y", "N"}) + Number(q, {"Y", "N"})
    <3>1. eDown \in Seq(EByte)
      BY <1>3
    <3> QED BY <1>2, <3>1, NumberGrows
  <2> QED BY <1>2, <1>3, <2>1
<1>5. /\ (Number(eDown', {"Q"}) % 2 = 1) <=> ((Number(eDown, {"Q"}) % 2 = 1) # (b.type = "Q"))
      /\ (Number(eDown', {"R"}) % 2 = 1) <=> ((Number(eDown, {"R"}) % 2 = 1) # (b.type = "R"))
  <2>1. eDown \in Seq(EByte)
    BY <1>3
  <2>2. ASSUME NEW x
        PROVE  /\ b.type = x => ((Number(eDown \o <<b>>, {x}) % 2 = 1) <=> ~(Number(eDown, {x}) % 2 = 1))
               /\ b.type # x => ((Number(eDown \o <<b>>, {x}) % 2 = 1) <=> (Number(eDown, {x}) % 2 = 1))
    BY <2>1, OddWhenSent
  <2>3. eDown' = eDown \o <<b>>
    BY <1>3
  <2> QED BY <2>2, <2>3
<1>6. /\ OddlyMany("Q")' = (OddlyMany("Q") # (b.type = "Q"))
      /\ OddlyMany("R")' = (OddlyMany("R") # (b.type = "R"))
  BY <1>5 DEF OddlyMany
<1>7. \A t :
         /\ Len(eDown') = Len(eDown) + 1 /\ Len(eDown) \in Nat
         /\ \A k \in 1..(Len(eDown) + 1) : HasAt(eDown, echild, k, t) => HasAt(eDown', echild, k, t)
         /\ b.type = "E" /\ b.text = t => HasAt(eDown', echild, Len(eDown) + 2, t)
         /\ b.type # "E" /\ HasAt(eDown, echild, Len(eDown) + 1, t) => HasAt(eDown', echild, Len(eDown) + 2, t)
         /\ \A k \in DOMAIN eDown' : eDown'[k] = IF k = Len(eDown) + 1 THEN b ELSE eDown[k]
         /\ DOMAIN eDown' = 1..(Len(eDown) + 1) /\ DOMAIN eDown = 1..Len(eDown)
  BY <1>3, HasWhenSent
<1>8. HasAt(eDown, echild, Len(eDown) + 1, ewin.text)
  BY DEF EntryInv, TextKept
<1>9. HasAt(eDown', echild, Len(eDown') + 1, ewin'.text)
  <2>1. Len(eDown') + 1 = Len(eDown) + 2
    BY <1>7
  <2> QED BY <1>7, <1>8, <2>1
<1>10. \A k \in DOMAIN eDown' : IF k = Len(eDown) + 1 THEN eDown'[k] = b ELSE k \in DOMAIN eDown /\ eDown'[k] = eDown[k]
  BY <1>7
<1> QED BY <1>4, <1>6, <1>7, <1>8, <1>9, <1>10 DEF TextKept

LEMMA SentNowhere ==
    ASSUME EntryInv, NEW b, SendDown(<<b>>), ~ewin.alive
    PROVE  eDown' = eDown /\ echild.pc = "over" /\ ~ewin.question
BY DEF SendDown, EntryInv, Lives

LEMMA EntryChangedKeeps ==
    ASSUME EntryInv, NEW t \in Text, EntryChanged(t) PROVE EntryInv'
<1>1. /\ ekind' = ekind /\ echild' = echild /\ eUp' = eUp /\ eDone' = eDone /\ EntryTypes
      /\ ewin' = [ewin EXCEPT !.text = t, !.typing = @ + 1]
  BY DEF EntryChanged, EntryInv
<1>2. PICK b : b = TextByte(t)
  OBVIOUS
<1>3. b \in EByte /\ b.type = "E" /\ b.text = t
  BY <1>2 DEF TextByte, EByte
<1>4. SendDown(<<b>>)
  BY <1>2 DEF EntryChanged
<1>5. /\ ewin'.open = ewin.open /\ ewin'.alive = ewin.alive /\ ewin'.text = t /\ ewin'.quiet = ewin.quiet
      /\ ewin'.recurse = ewin.recurse /\ ewin'.question = ewin.question /\ ewin'.asked = ewin.asked
      /\ WindowTyped(ewin')
  <2>1. PICK n \in Nat : n = ewin.typing + 1
    BY <1>1 DEF EntryTypes
  <2>2. ewin' = [ewin EXCEPT !.text = t, !.typing = n]
    BY <1>1, <2>1 DEF EntryTypes
  <2> QED BY <1>1, <2>2 DEF EntryTypes
<1>6. Lives'
  BY <1>1, <1>5 DEF EntryInv, Lives
<1>7. MayAct' /\ DoneAsTyped'
  BY <1>1 DEF EntryInv, MayAct, DoneAsTyped, HasEntry
<1>8. CASE ~ewin.alive
  BY <1>1, <1>4, <1>5, <1>6, <1>7, <1>8, SentNowhere DEF EntryInv, EntryTypes, InStep, TextKept, AskedFirst
<1>9. CASE ewin.alive
  <2>1. /\ eDown' \in Seq(EByte) /\ TextKept'
        /\ OddlyMany("Q")' = (OddlyMany("Q") # (b.type = "Q"))
        /\ OddlyMany("R")' = (OddlyMany("R") # (b.type = "R"))
        /\ Number(eDown', {"Y", "N"}) = Number(eDown, {"Y", "N"}) + (IF b.type \in {"Y", "N"} THEN 1 ELSE 0)
        /\ \A k \in DOMAIN eDown' : IF k = Len(eDown) + 1 THEN eDown'[k] = b ELSE k \in DOMAIN eDown /\ eDown'[k] = eDown[k]
        /\ \A k \in 1..(Len(eDown) + 1) : \A s : HasAt(eDown, echild, k, s) => HasAt(eDown', echild', k, s)
    BY <1>1, <1>3, <1>4, <1>5, <1>9, SentDown
  <2>2. EntryTypes'
    BY <1>1, <1>5, <2>1 DEF EntryTypes
  <2>3. InStep'
    <3>1. Number(eDown', {"Y", "N"}) = Number(eDown, {"Y", "N"})
      BY <1>1, <1>3, <1>9, <2>1, CountsAre DEF EntryInv
    <3>2. OddlyMany("Q")' = OddlyMany("Q") /\ OddlyMany("R")' = OddlyMany("R")
      BY <1>3, <2>1 DEF OddlyMany
    <3> QED BY <1>1, <1>5, <1>9, <3>1, <3>2 DEF EntryInv, InStep
  <2>4. AskedFirst'
    <3>1. DOMAIN eDown = 1..Len(eDown) /\ Len(eDown) \in Nat
      BY <1>1 DEF EntryTypes
    <3> QED BY <1>1, <1>3, <2>1, <3>1 DEF EntryInv, AskedFirst
  <2> QED BY <1>6, <1>7, <2>1, <2>2, <2>3, <2>4 DEF EntryInv
<1> QED BY <1>8, <1>9

LEMMA BoxClickedKeeps ==
    ASSUME EntryInv, NEW x \in {"Q", "R"}, BoxClicked(x) PROVE EntryInv'
<1>1. /\ ekind' = ekind /\ echild' = echild /\ eUp' = eUp /\ eDone' = eDone /\ EntryTypes
      /\ ewin' = [ewin EXCEPT !.quiet = IF x = "Q" THEN ~@ ELSE @, !.recurse = IF x = "R" THEN ~@ ELSE @,
                              !.clicks = @ + 1]
  BY DEF BoxClicked, EntryInv
<1>2. PICK b : b = Sign(x)
  OBVIOUS
<1>3. b \in EByte /\ b.type = x
  BY <1>2, EntryAssumption DEF Sign, EByte
<1>4. SendDown(<<b>>)
  BY <1>2 DEF BoxClicked
<1>5. /\ ewin'.open = ewin.open /\ ewin'.alive = ewin.alive /\ ewin'.text = ewin.text
      /\ ewin'.quiet = (IF x = "Q" THEN ~ewin.quiet ELSE ewin.quiet)
      /\ ewin'.recurse = (IF x = "R" THEN ~ewin.recurse ELSE ewin.recurse)
      /\ ewin'.question = ewin.question /\ ewin'.asked = ewin.asked
      /\ WindowTyped(ewin')
  <2>1. PICK n \in Nat : n = ewin.clicks + 1
    BY <1>1 DEF EntryTypes
  <2>2. ewin' = [ewin EXCEPT !.quiet = IF x = "Q" THEN ~@ ELSE @, !.recurse = IF x = "R" THEN ~@ ELSE @,
                             !.clicks = n]
    BY <1>1, <2>1 DEF EntryTypes
  <2> QED BY <1>1, <2>2 DEF EntryTypes
<1>6. Lives'
  BY <1>1, <1>5 DEF EntryInv, Lives
<1>7. MayAct' /\ DoneAsTyped'
  BY <1>1 DEF EntryInv, MayAct, DoneAsTyped, HasEntry
<1>8. CASE ~ewin.alive
  BY <1>1, <1>4, <1>5, <1>6, <1>7, <1>8, SentNowhere DEF EntryInv, EntryTypes, InStep, TextKept, AskedFirst
<1>9. CASE ewin.alive
  <2>1. /\ eDown' \in Seq(EByte) /\ TextKept'
        /\ OddlyMany("Q")' = (OddlyMany("Q") # (b.type = "Q"))
        /\ OddlyMany("R")' = (OddlyMany("R") # (b.type = "R"))
        /\ Number(eDown', {"Y", "N"}) = Number(eDown, {"Y", "N"}) + (IF b.type \in {"Y", "N"} THEN 1 ELSE 0)
        /\ \A k \in DOMAIN eDown' : IF k = Len(eDown) + 1 THEN eDown'[k] = b ELSE k \in DOMAIN eDown /\ eDown'[k] = eDown[k]
        /\ \A k \in 1..(Len(eDown) + 1) : \A s : HasAt(eDown, echild, k, s) => HasAt(eDown', echild', k, s)
    BY <1>1, <1>3, <1>4, <1>5, <1>9, SentDown
  <2>2. EntryTypes'
    BY <1>1, <1>5, <2>1 DEF EntryTypes
  <2>3. InStep'
    <3>1. Number(eDown', {"Y", "N"}) = Number(eDown, {"Y", "N"})
      BY <1>1, <1>3, <1>9, <2>1, CountsAre DEF EntryInv
    <3>2. OddlyMany("Q")' = (OddlyMany("Q") # (x = "Q")) /\ OddlyMany("R")' = (OddlyMany("R") # (x = "R"))
      BY <1>3, <2>1
    <3>3. /\ ewin.quiet = (echild.quiet # OddlyMany("Q")) /\ ewin.recurse = (echild.recurse # OddlyMany("R"))
          /\ Number(eUp, {"?"}) + Number(eDown, {"Y", "N"})
               + (IF ewin.question THEN 1 ELSE 0) = IF echild.pc = "ask" THEN 1 ELSE 0
      BY <1>9 DEF EntryInv, InStep
    <3>4. /\ echild.quiet \in BOOLEAN /\ echild.recurse \in BOOLEAN
          /\ OddlyMany("Q") \in BOOLEAN /\ OddlyMany("R") \in BOOLEAN
      BY <1>1 DEF EntryTypes, EChildType, OddlyMany
    <3>5. /\ ewin'.quiet = (echild'.quiet # OddlyMany("Q")') /\ ewin'.recurse = (echild'.recurse # OddlyMany("R")')
      <4>1. CASE x = "Q"
        <5>1. OddlyMany("Q")' = ~OddlyMany("Q") /\ OddlyMany("R")' = OddlyMany("R")
          BY <3>2, <3>4, <4>1
        <5>2. ewin'.quiet = ~ewin.quiet /\ ewin'.recurse = ewin.recurse
          BY <1>5, <4>1
        <5>3. \A p, q \in BOOLEAN : (p # ~q) = ~(p # q)
          OBVIOUS
        <5>4. echild' = echild
          BY <1>1
        <5> QED BY <3>3, <3>4, <5>1, <5>2, <5>3, <5>4
      <4>2. CASE x = "R"
        <5>1. OddlyMany("Q")' = OddlyMany("Q") /\ OddlyMany("R")' = ~OddlyMany("R")
          BY <3>2, <3>4, <4>2
        <5>2. ewin'.quiet = ewin.quiet /\ ewin'.recurse = ~ewin.recurse
          BY <1>5, <4>2
        <5>3. \A p, q \in BOOLEAN : (p # ~q) = ~(p # q)
          OBVIOUS
        <5>4. echild' = echild
          BY <1>1
        <5> QED BY <3>3, <3>4, <5>1, <5>2, <5>3, <5>4
      <4> QED BY <4>1, <4>2
    <3> QED BY <1>1, <1>5, <3>1, <3>3, <3>5 DEF InStep
  <2>4. AskedFirst'
    <3>1. DOMAIN eDown = 1..Len(eDown) /\ Len(eDown) \in Nat
      BY <1>1 DEF EntryTypes
    <3> QED BY <1>1, <1>3, <2>1, <3>1 DEF EntryInv, AskedFirst
  <2> QED BY <1>6, <1>7, <2>1, <2>2, <2>3, <2>4 DEF EntryInv
<1> QED BY <1>8, <1>9

(* Yes is for the file that the child is at, and for the text in the entry. *)
LEMMA EntryAnswerKeeps ==
    ASSUME EntryInv, NEW yes \in BOOLEAN, EntryAnswer(yes) PROVE EntryInv'
<1>1. /\ ekind' = ekind /\ echild' = echild /\ eUp' = eUp /\ EntryTypes
      /\ ewin' = [ewin EXCEPT !.question = FALSE] /\ ewin.question /\ ewin.alive
      /\ ewin.asked = echild.item /\ ewin.text \in Text
  BY DEF EntryAnswer, EntryInv, Lives, EntryTypes
<1>2. PICK b : b = Sign(IF yes THEN "Y" ELSE "N")
  OBVIOUS
<1>3. b \in EByte /\ b.type = IF yes THEN "Y" ELSE "N"
  BY <1>2, EntryAssumption DEF Sign, EByte
<1>4. SendDown(<<b>>)
  BY <1>2 DEF EntryAnswer
<1>5. /\ ewin'.open = ewin.open /\ ewin'.alive = ewin.alive /\ ewin'.text = ewin.text /\ ewin'.quiet = ewin.quiet
      /\ ewin'.recurse = ewin.recurse /\ ewin'.question = FALSE
      /\ WindowTyped(ewin')
  BY <1>1 DEF EntryTypes
<1>6. /\ eDown' \in Seq(EByte) /\ TextKept'
      /\ OddlyMany("Q")' = (OddlyMany("Q") # (b.type = "Q"))
      /\ OddlyMany("R")' = (OddlyMany("R") # (b.type = "R"))
      /\ Number(eDown', {"Y", "N"}) = Number(eDown, {"Y", "N"}) + (IF b.type \in {"Y", "N"} THEN 1 ELSE 0)
      /\ \A k \in DOMAIN eDown' : IF k = Len(eDown) + 1 THEN eDown'[k] = b ELSE k \in DOMAIN eDown /\ eDown'[k] = eDown[k]
      /\ \A k \in 1..(Len(eDown) + 1) : \A s : HasAt(eDown, echild, k, s) => HasAt(eDown', echild', k, s)
      /\ HasAt(eDown, echild, Len(eDown) + 1, ewin.text)
  BY <1>1, <1>3, <1>4, <1>5, SentDown
<1>7. echild.pc = "ask" /\ Number(eUp, {"?"}) = 0 /\ Number(eDown, {"Y", "N"}) = 0
  BY <1>1, CountsAre DEF EntryInv
<1>8. \A k \in DOMAIN eDown : eDown[k].type # "Y"
  <2>1. \A k \in DOMAIN eDown : eDown[k].type \notin {"Y", "N"}
    BY <1>1, <1>7, NumberNone DEF EntryTypes
  <2> QED BY <2>1
<1>9. eDone' = IF yes /\ echild.item # NoItem THEN [eDone EXCEPT !.yes[echild.item] = ewin.text] ELSE eDone
  BY <1>1 DEF EntryAnswer
<1>10. /\ eDone' \in [acted : SUBSET [item : EFile, text : Typed, asked : BOOLEAN], yes : [EFile -> Typed],
                      came : [EFile -> Typed]]
       /\ eDone'.acted = eDone.acted /\ eDone'.came = eDone.came
       /\ \A i \in EFile : i # echild.item => eDone'.yes[i] = eDone.yes[i]
       /\ yes /\ echild.item # NoItem => eDone'.yes[echild.item] = ewin.text
  <2>1. ewin.text \in Typed /\ echild.item \in EFile \cup {NoItem}
    BY <1>1 DEF EntryTypes, EChildType, Typed
  <2> QED BY <1>1, <1>9, <2>1 DEF EntryTypes
<1>11. EntryTypes'
  BY <1>1, <1>5, <1>6, <1>10 DEF EntryTypes
<1>12. Lives'
  BY <1>1, <1>5 DEF EntryInv, Lives
<1>13. InStep'
  <2>1. OddlyMany("Q")' = OddlyMany("Q") /\ OddlyMany("R")' = OddlyMany("R")
    BY <1>3, <1>6 DEF OddlyMany
  <2>2. Number(eDown', {"Y", "N"}) = 1
    BY <1>3, <1>6, <1>7
  <2> QED BY <1>1, <1>5, <1>7, <2>1, <2>2 DEF EntryInv, InStep
<1>14. AskedFirst'
  <2> SUFFICES ASSUME echild.item # NoItem
               PROVE  /\ echild.replied
                      /\ \A a \in eDone.acted : a.item # echild.item
                      /\ \A k \in DOMAIN eDown' : eDown'[k].type = "Y" => HasAt(eDown', echild', k, eDone'.yes[echild.item])
    BY <1>1, <1>10 DEF AskedFirst
  <2>1. echild.replied /\ \A a \in eDone.acted : a.item # echild.item
    BY <1>7 DEF EntryInv, AskedFirst
  <2>2. ASSUME NEW k \in DOMAIN eDown', eDown'[k].type = "Y"
        PROVE  HasAt(eDown', echild', k, eDone'.yes[echild.item])
    <3>1. k = Len(eDown) + 1 /\ b.type = "Y"
      BY <1>6, <1>8, <2>2
    <3>2. yes
      BY <1>3, <3>1
    <3>3. eDone'.yes[echild.item] = ewin.text
      BY <1>10, <3>2
    <3>4. Len(eDown) + 1 \in 1..(Len(eDown) + 1)
      BY <1>1 DEF EntryTypes
    <3> QED BY <1>6, <3>1, <3>3, <3>4
  <2> QED BY <2>1, <2>2
<1>15. MayAct'
  BY <1>1, <1>7 DEF MayAct
<1>16. DoneAsTyped'
  <2> SUFFICES ASSUME HasEntry, NEW a \in eDone.acted
               PROVE  /\ a.text \in Valid
                      /\ a.text = IF a.asked THEN eDone'.yes[a.item] ELSE eDone'.came[a.item]
    BY <1>1, <1>10 DEF DoneAsTyped, HasEntry
  <2>1. a.item \in EFile
    BY <1>1 DEF EntryTypes
  <2>2. a.item # echild.item
    <3>1. CASE echild.item = NoItem
      BY <2>1, <3>1, EntryAssumption
    <3>2. CASE echild.item # NoItem
      BY <1>7, <3>2 DEF EntryInv, AskedFirst
    <3> QED BY <3>1, <3>2
  <2> QED BY <1>10, <2>1, <2>2 DEF EntryInv, DoneAsTyped
<1> QED BY <1>6, <1>11, <1>12, <1>13, <1>14, <1>15, <1>16 DEF EntryInv

LEMMA MessageComesKeeps ==
    ASSUME EntryInv, MessageComes PROVE EntryInv'
<1>1. /\ ekind' = ekind /\ echild' = echild /\ eDown' = eDown /\ eDone' = eDone /\ EntryTypes
      /\ eUp # <<>> /\ eUp \in Seq(EMessage) /\ eUp' = Tail(eUp) /\ ewin.alive /\ ewin.open
  BY DEF MessageComes, EntryInv, EntryTypes
<1>2. PICK m : m = Head(eUp)
  OBVIOUS
<1>3. /\ m \in EMessage /\ Tail(eUp) \in Seq(EMessage) /\ m \in Range(eUp) /\ Range(Tail(eUp)) \subseteq Range(eUp)
      /\ Number(eUp, {"?"}) = (IF m.type \in {"?"} THEN 1 ELSE 0) + Number(Tail(eUp), {"?"})
      /\ Number(Tail(eUp), {"?"}) \in Nat
  <2>1. /\ Tail(eUp) \in Seq(EMessage) /\ Head(eUp) \in EMessage
        /\ Number(eUp, {"?"}) = (IF Head(eUp).type \in {"?"} THEN 1 ELSE 0) + Number(Tail(eUp), {"?"})
    BY <1>1, NumberShrinks
  <2>2. Number(Tail(eUp), {"?"}) \in Nat
    BY <2>1, NumberIs
  <2>3. Head(eUp) \in Range(eUp) /\ Range(Tail(eUp)) \subseteq Range(eUp)
    BY <1>1, InRange
  <2> QED BY <1>2, <2>1, <2>2, <2>3
<1>4. PICK results : ewin' = [ewin EXCEPT !.question = @ \/ m.type = "?", !.asked = IF m.type = "?" THEN m.item ELSE @,
                                          !.errors = @ \/ m.type = "!", !.results = results]
  <2>1. PICK results : results = IF m.type = "=" THEN ewin.results \cup {m.item} ELSE IF m.type = "#" THEN {} ELSE ewin.results
    OBVIOUS
  <2> QED BY <1>1, <1>2, <2>1 DEF MessageComes, EntryTypes
<1>5. /\ ewin'.open /\ ewin'.alive /\ ewin'.text = ewin.text /\ ewin'.quiet = ewin.quiet
      /\ ewin'.recurse = ewin.recurse /\ ewin'.question = (ewin.question \/ m.type = "?")
      /\ ewin'.asked = (IF m.type = "?" THEN m.item ELSE ewin.asked)
      /\ WindowTyped(ewin')
  <2>1. PICK q \in BOOLEAN, r \in BOOLEAN : q = (ewin.question \/ m.type = "?") /\ r = (ewin.errors \/ m.type = "!")
    OBVIOUS
  <2>2. PICK a : a = IF m.type = "?" THEN m.item ELSE ewin.asked
    OBVIOUS
  <2>3. ewin' = [ewin EXCEPT !.question = q, !.asked = a, !.errors = r, !.results = results]
    BY <1>4, <2>1, <2>2, Zenon
  <2>4. a \in EFile \cup {NoItem}
    BY <1>1, <1>3, <2>2 DEF EntryTypes, EMessage
  <2>5. /\ ewin'.open = ewin.open /\ ewin'.alive = ewin.alive /\ ewin'.text = ewin.text /\ ewin'.quiet = ewin.quiet
        /\ ewin'.recurse = ewin.recurse /\ ewin'.question = q /\ ewin'.asked = a
        /\ WindowTyped(ewin')
    BY <1>1, <2>3, <2>4 DEF EntryTypes
  <2> QED BY <1>1, <2>1, <2>2, <2>5, Zenon
<1>6. EntryTypes'
  BY <1>1, <1>3, <1>5 DEF EntryTypes
<1>7. Lives'
  <2>1. \A n \in Range(eUp) : n.type = "?" => n.item = echild.item
    BY DEF EntryInv, Lives
  <2>2. ewin.question => ewin.asked = echild.item
    BY DEF EntryInv, Lives
  <2> QED BY <1>1, <1>3, <1>5, <2>1, <2>2 DEF Lives
<1>8. InStep'
  <2>1. /\ ewin.quiet = (echild.quiet # OddlyMany("Q")) /\ ewin.recurse = (echild.recurse # OddlyMany("R"))
        /\ Number(eUp, {"?"}) + Number(eDown, {"Y", "N"})
             + (IF ewin.question THEN 1 ELSE 0) = IF echild.pc = "ask" THEN 1 ELSE 0
        /\ Number(eDown, {"Y", "N"}) \in Nat
    BY <1>1, CountsAre DEF EntryInv, InStep
  <2>2. Number(eUp', {"?"}) + Number(eDown', {"Y", "N"}) + (IF ewin'.question THEN 1 ELSE 0)
           = IF echild'.pc = "ask" THEN 1 ELSE 0
    <3>1. ewin.question \in BOOLEAN
      BY <1>1 DEF EntryTypes
    <3>2. CASE m.type = "?"
      BY <1>1, <1>3, <1>5, <2>1, <3>1, <3>2
    <3>3. CASE m.type # "?"
      BY <1>1, <1>3, <1>5, <2>1, <3>1, <3>3
    <3> QED BY <3>2, <3>3
  <2> QED BY <1>1, <1>5, <2>1, <2>2 DEF InStep, OddlyMany
<1>9. TextKept'
  BY <1>1, <1>5 DEF EntryInv, TextKept
<1>10. AskedFirst' /\ MayAct' /\ DoneAsTyped'
  BY <1>1 DEF EntryInv, AskedFirst, MayAct, DoneAsTyped, HasEntry
<1> QED BY <1>6, <1>7, <1>8, <1>9, <1>10 DEF EntryInv

LEMMA ChildOverKeeps ==
    ASSUME EntryInv, ChildOver PROVE EntryInv'
<1>1. /\ ekind' = ekind /\ echild' = echild /\ eDown' = <<>> /\ eUp' = eUp /\ eDone' = eDone /\ EntryTypes
      /\ eUp = <<>> /\ echild.pc = "over"
  BY DEF ChildOver, EntryInv
<1>2. PICK open \in BOOLEAN : ewin' = [ewin EXCEPT !.alive = FALSE, !.question = FALSE, !.open = open]
  <2>1. (ewin.errors \/ ekind \in {"find", "usage"}) \in BOOLEAN
    BY <1>1 DEF EntryTypes
  <2> QED BY <2>1 DEF ChildOver
<1>3. /\ ewin'.alive = FALSE /\ ewin'.question = FALSE
      /\ WindowTyped(ewin')
  BY <1>1, <1>2 DEF EntryTypes
<1>4. <<>> \in Seq(EByte)
  OBVIOUS
<1>5. EntryTypes'
  BY <1>1, <1>3, <1>4 DEF EntryTypes
<1>6. Lives'
  BY <1>1, <1>3, RangeOne DEF Lives
<1>7. InStep' /\ TextKept'
  BY <1>3 DEF InStep, TextKept
<1>8. AskedFirst' /\ MayAct' /\ DoneAsTyped'
  BY <1>1 DEF EntryInv, AskedFirst, MayAct, DoneAsTyped, HasEntry
<1> QED BY <1>5, <1>6, <1>7, <1>8 DEF EntryInv

LEMMA EntryInvInitially ==
    EntryInit => EntryInv
<1> SUFFICES ASSUME EntryInit PROVE EntryInv
  OBVIOUS
<1>1. PICK t \in Text, recurse \in BOOLEAN :
        LET quiet == ekind = "usage" IN
        /\ ewin = [open |-> TRUE, alive |-> TRUE, text |-> t, quiet |-> quiet, recurse |-> recurse,
                   question |-> FALSE, asked |-> NoItem, results |-> {}, errors |-> FALSE,
                   typing |-> 0, clicks |-> 0]
        /\ echild = [pc |-> "next", quiet |-> quiet, recurse |-> recurse, new |-> t, compiled |-> NoText,
                     todo |-> Chosen, item |-> NoItem, replied |-> FALSE, searches |-> 1]
  BY DEF EntryInit
<1>2. /\ ekind \in {"find", "chmod", "settype", "usage"} /\ eDown = <<>> /\ eUp = <<>>
      /\ eDone = [acted |-> {}, yes |-> [i \in EFile |-> NoText], came |-> [i \in EFile |-> NoText]]
  BY DEF EntryInit
<1>3. <<>> \in Seq(EByte) /\ <<>> \in Seq(EMessage)
  OBVIOUS
<1>4. EntryTypes
  <2>1. echild \in EChildType
    BY <1>1, EntryAssumption DEF EChildType, Typed
  <2>2. eDone \in [acted : SUBSET [item : EFile, text : Typed, asked : BOOLEAN], yes : [EFile -> Typed], came : [EFile -> Typed]]
    BY <1>2 DEF Typed
  <2> QED BY <1>1, <1>2, <1>3, <2>1, <2>2 DEF EntryTypes
<1>5. Lives
  BY <1>1, <1>2, RangeOne DEF Lives
<1>6. InStep
  <2>1. Number(eUp, {"?"}) = 0
    BY <1>2, <1>3, NumberNone
  <2> QED BY <1>1, <1>2, <2>1, EmptyPipe DEF InStep, OddlyMany
<1>7. TextKept
  <2>1. Has(echild, t)
    BY <1>1, EntryAssumption DEF Has
  <2> QED BY <1>1, <1>2, <2>1, NothingSent DEF TextKept
<1>8. AskedFirst /\ MayAct /\ DoneAsTyped
  BY <1>1, <1>2 DEF AskedFirst, MayAct, DoneAsTyped
<1> QED BY <1>4, <1>5, <1>6, <1>7, <1>8 DEF EntryInv

(* For any files and contents, any list that the action is started on and *)
(* any texts, and however often the user types, clicks and answers and in *)
(* whatever order the pipes are read: what is done to a file is what the *)
(* entry said when the user agreed to it, or when the child came to it if *)
(* it did not ask; one question is asked at a time, and the option boxes *)
(* mean the same on both sides (read_new_entry_text, check_flags and *)
(* printf_reply of action.c). *)
THEOREM EntryAlwaysRight ==
    EntrySpec => []EntryRight
<1>1. EntryInit => EntryInv
  BY EntryInvInitially
<1>2. EntryInv /\ [EntryNext]_entryVars => EntryInv'
  <2> SUFFICES ASSUME EntryInv, [EntryNext]_entryVars PROVE EntryInv'
    OBVIOUS
  <2>1. CASE NextItem
    BY <2>1, NextItemKeeps
  <2>2. CASE Reply
    BY <2>2, ReplyKeeps
  <2>3. CASE Act
    BY <2>3, ActKeeps
  <2>4. CASE ListDone
    BY <2>4, ListDoneKeeps
  <2>5. CASE \E t \in Text : EntryChanged(t)
    BY <2>5, EntryChangedKeeps
  <2>6. CASE \E yes \in BOOLEAN : EntryAnswer(yes)
    BY <2>6, EntryAnswerKeeps
  <2>7. CASE \E x \in {"Q", "R"} : BoxClicked(x)
    BY <2>7, BoxClickedKeeps
  <2>8. CASE MessageComes
    BY <2>8, MessageComesKeeps
  <2>9. CASE ChildOver
    BY <2>9, ChildOverKeeps
  <2>10. CASE UNCHANGED entryVars
    BY <2>10 DEF entryVars, EntryInv, EntryTypes, Lives, InStep, TextKept, AskedFirst, MayAct, DoneAsTyped,
                 OddlyMany, HasEntry
  <2> QED BY <2>1, <2>2, <2>3, <2>4, <2>5, <2>6, <2>7, <2>8, <2>9, <2>10 DEF EntryNext
<1>3. EntryInv => EntryRight
  BY DEF EntryInv, EntryRight
<1> QED BY <1>1, <1>2, <1>3, PTL DEF EntrySpec
=============================================================================

-------------------------------- MODULE Find --------------------------------
(* The conditions of Find and of the select-by-condition box (find.c): the *)
(* parser, and the tests that it builds.  A text is a sequence of words and*)
(* signs here; a blank is one of them, as where blanks are matters.  A     *)
(* condition is what it says of each file, and whether a directory is not  *)
(* to be entered (prune), as a tree of tests would, in that order.         *)
EXTENDS Integers, SequencesExt, FiniteSets

CONSTANTS IsWord,    \* IsReg and the like
          Quoted,    \* 'pattern', label 'text', system(command)
          DashFlags, \* -fl: the tests a word of flags stands for
          Number, Unit, Variable,
          UnitValue, \* what a number is multiplied by
          FindFile,  \* the files: [is, value, now]
          Sign,      \* what the texts that are not made from trees are made of
          Short      \* bound: the length of these

VARIABLE query \* the text, the tree it was made from and how far it is parsed

Dash == DOMAIN DashFlags
Compare == {"<", "<=", "=", "!=", ">", ">=", "After", "Before"}
Word == IsWord \cup Unit \cup Variable \cup {"Not", "And", "prune", "Ago", "Hence", "Now", "After", "Before"}

--------------------
(* The tests: what && and || do not reach prunes nothing. *)
Test(is) == [f \in FindFile |-> [yes |-> is[f], prune |-> FALSE]]
TestIs(t) == Test([f \in FindFile |-> t \in f.is])
TestPrune == [f \in FindFile |-> [yes |-> FALSE, prune |-> TRUE]]
TestNeg(c) == [f \in FindFile |-> [c[f] EXCEPT !.yes = ~@]]
TestThen(a, b, f) == [yes |-> b[f].yes, prune |-> a[f].prune \/ b[f].prune]
TestOr(a, b)  == [f \in FindFile |-> IF a[f].yes THEN a[f] ELSE TestThen(a, b, f)]
TestAnd(a, b) == [f \in FindFile |-> IF a[f].yes THEN TestThen(a, b, f) ELSE a[f]]
TestComp(op, a, b) ==
    Test([f \in FindFile |-> CASE op \in {"<", "Before"} -> a[f] < b[f] [] op = "<=" -> a[f] <= b[f]
                               [] op = "=" -> a[f] = b[f] [] op = "!=" -> a[f] # b[f]
                               [] op = ">=" -> a[f] >= b[f] [] op \in {">", "After"} -> a[f] > b[f]])

--------------------
(* Each parser takes what it can and leaves the rest. *)
Fail == [ok |-> FALSE]
Good(result, rest) == [ok |-> TRUE, is |-> result, rest |-> rest]

Skip(s) == LET k == SelectInSeq(s, LAMBDA t : t # " ") IN IF k = 0 THEN <<>> ELSE SubSeq(s, k, Len(s))
NextIs(s, t) == s # <<>> /\ Head(s) = t

(* match: the whole word, and no letter after it. *)
Match(s, words) == s # <<>> /\ Head(s) \in words /\ (Head(s) \in Word /\ Len(s) > 1 => s[2] \notin Word)

(* parse_eval: a number may have a unit, and ago or hence; now is in no     *)
(* time.  Then parse_variable.                                              *)
WithTime(value, now, s) ==
    LET r == Skip(s) IN
    IF Match(r, {"Ago"}) THEN Good([f \in FindFile |-> f.now - value], Tail(r))
    ELSE IF now \/ Match(r, {"Hence"})
    THEN Good([f \in FindFile |-> f.now + value], IF Match(r, {"Hence"}) THEN Tail(r) ELSE r)
    ELSE Good([f \in FindFile |-> value], r)

WithUnit(value, now, s) ==
    IF Match(s, Unit) THEN WithTime(value * UnitValue[Head(s)], now, Tail(s)) ELSE WithTime(value, now, s)

ParseVariable(s) ==
    IF Match(s, Variable) THEN Good([f \in FindFile |-> f.value[Head(s)]], Tail(s)) ELSE Fail

ParseEval(t) ==
    LET s == Skip(t) IN
    IF s # <<>> /\ Head(s) \in DOMAIN Number THEN WithUnit(Number[Head(s)], FALSE, Skip(Tail(s)))
    ELSE IF Match(s, {"Now"}) THEN WithUnit(0, TRUE, Skip(Tail(s)))
    ELSE ParseVariable(s)

(* parse_dash: everything up to the next blank is a flag. *)
ParseDash(s) ==
    IF s # <<>> /\ Head(s) \in Dash /\ (Len(s) > 1 => s[2] = " ")
    THEN LET tests == [k \in DOMAIN DashFlags[Head(s)] |-> TestIs(DashFlags[Head(s)][k])]
         IN  Good(FoldLeft(TestAnd, Head(tests), Tail(tests)), Tail(s))
    ELSE Fail

ParseIs(s) == IF Match(s, IsWord) THEN Good(TestIs(Head(s)), Tail(s)) ELSE Fail

ParseQuoted(s) == IF s # <<>> /\ Head(s) \in Quoted THEN Good(TestIs(Head(s)), Tail(s)) ELSE Fail

ParseLeaf(s) ==
    IF Match(s, {"prune"}) THEN Good(TestPrune, Tail(s))
    ELSE IF s # <<>> /\ Head(s) \in Dash THEN ParseDash(s)
    ELSE IF s # <<>> /\ Head(s) \in IsWord THEN ParseIs(s)
    ELSE ParseQuoted(s)

(* What is being parsed, and inside what: each call that waits for one      *)
(* further in is on the stack, with the result it has to join.              *)
Waiting(op) == query.stack # <<>> /\ Last(query.stack).op = op
Await(frame, rest) ==
    query' = [query EXCEPT !.at = "condition", !.stack = Append(@, frame), !.left = rest]
Return(at, result, rest) == query' = [query EXCEPT !.at = at, !.is = result, !.left = rest]
Pop(at, result, rest) ==
    query' = [query EXCEPT !.at = at, !.is = result, !.left = rest, !.stack = Front(@)]
Refuse == query' = [query EXCEPT !.at = "refused"]

ParseComparison(s) ==
    \E first \in {ParseEval(s)} :
        IF ~first.ok \/ ~Match(Skip(first.rest), Compare) THEN Refuse
        ELSE \E r \in {Skip(first.rest)} : \E second \in {ParseEval(Tail(r))} :
             IF second.ok THEN Return("parsed", TestComp(Head(r), first.is, second.is), second.rest) ELSE Refuse

(* parse_condition.  After ! or Not one more character is passed over: the  *)
(* ! itself, or what follows the word.  (After a Not at the end that is the *)
(* end of the string.)                                                      *)
ParseCondition ==
    LET s == Skip(query.left) IN
    /\ query.at = "condition"
    /\ IF NextIs(s, "!") THEN Await([op |-> "!"], Tail(s))
       ELSE IF Match(s, {"Not"}) THEN Await([op |-> "!"], SubSeq(s, 3, Len(s)))
       ELSE IF NextIs(s, "(") THEN Await([op |-> "("], Tail(s))
       ELSE \E leaf \in {ParseLeaf(s)} :
            IF leaf.ok THEN Return("parsed", leaf.is, leaf.rest) ELSE ParseComparison(s)

Negated == query.at = "parsed" /\ Waiting("!") /\ Pop("parsed", TestNeg(query.is), query.left)

(* Mutant: a bracket does not end a case. *)
CaseOverAtComma(r) == r = <<>> \/ Head(r) = ","

CaseOver(r) == r = <<>> \/ Head(r) \in {",", ")"}

(* parse_case: another condition, with And before it or not. *)
ParseCase ==
    LET r == Skip(query.left) IN
    /\ query.at = "parsed" /\ ~Waiting("!")
    /\ IF CaseOver(r) THEN Return("case", query.is, r)
       ELSE Await([op |-> "and", is |-> query.is], IF Match(r, {"And"}) THEN Tail(r) ELSE r)

CaseParsed ==
    query.at = "case" /\ Waiting("and") /\ Pop("case", TestAnd(Last(query.stack).is, query.is), query.left)

(* parse_expression: another case after a comma. *)
ParseExpression ==
    LET r == Skip(query.left) IN
    /\ query.at = "case" /\ ~Waiting("and")
    /\ IF NextIs(r, ",") THEN Await([op |-> "or", is |-> query.is], Tail(r))
       ELSE Return("expression", query.is, r)

ExpressionParsed ==
    query.at = "expression" /\ Waiting("or")
    /\ Pop("expression", TestOr(Last(query.stack).is, query.is), query.left)

(* The bracket of parse_condition is closed; find_compile wants all read. *)
Closed ==
    LET r == Skip(query.left) IN
    /\ query.at = "expression" /\ Waiting("(")
    /\ IF NextIs(r, ")") THEN Pop("parsed", query.is, Tail(r)) ELSE Refuse

FindCompile ==
    /\ query.at = "expression" /\ query.stack = <<>>
    /\ IF Skip(query.left) = <<>> THEN Return("compiled", query.is, <<>>) ELSE Refuse

--------------------
(* What the help of Find promises (action.c:205): commas between cases,     *)
(* conditions of a case side by side or with And, ! or Not before a         *)
(* condition, brackets where they are needed.  A tree is its text, how      *)
(* tightly that binds, and the files it means.                              *)
Leaves == {[text |-> <<w>>, binds |-> 3, means |-> {f \in FindFile : w \in f.is}] : w \in IsWord \cup Quoted}
          \cup {[text |-> <<d, " ">>, binds |-> 3, means |-> {f \in FindFile : ToSet(DashFlags[d]) \subseteq f.is}] : d \in Dash}
          \cup {[text |-> <<"prune">>, binds |-> 3, means |-> {}]}
          \cup {[text |-> <<v, "<", n>>, binds |-> 3, means |-> {f \in FindFile : f.value[v] < Number[n]}]
                  : v \in Variable, n \in DOMAIN Number}
          \cup {[text |-> <<v, " ", "After", n, u, " ", "Ago">>, binds |-> 3,
                 means |-> {f \in FindFile : f.value[v] > f.now - Number[n] * UnitValue[u]}]
                  : v \in Variable, n \in DOMAIN Number, u \in Unit}

Within(t, binds) == IF t.binds < binds THEN <<"(">> \o t.text \o <<")">> ELSE t.text
NoneOf(ts, signs) == {[text |-> no \o Within(t, 3), binds |-> 3, means |-> FindFile \ t.means] : t \in ts, no \in signs}
AnyOf(ps)  == {[text |-> Within(p[1], 2) \o <<",">> \o p[2].text, binds |-> 1, means |-> p[1].means \cup p[2].means] : p \in ps}
AllOf(ps, signs) == {[text |-> Within(p[1], 3) \o and \o Within(p[2], 2), binds |-> 2, means |-> p[1].means \cap p[2].means]
                       : p \in ps, and \in signs}

TreesOver(leaves, n, nots, ands) ==
    LET trees[k \in 1..n] ==
            LET pairs == UNION {trees[j] \X trees[k - j] : j \in 1..(k - 1)}
                ts == IF k = 1 THEN leaves ELSE AnyOf(pairs) \cup AllOf(pairs, ands)
            IN  ts \cup NoneOf(ts, nots)
    IN trees[n]

(* A text of tests and signs, whatever the tree: what it may be cut into. *)
Derives[x \in (1..3) \X Seq(Sign)] ==
    LET level == x[1]
        s == x[2]
        n == Len(s)
        is(l, k, m) == Derives[<<l, SubSeq(s, k, m)>>]
    IN \/ n > 1 /\ s[1] = " " /\ is(level, 2, n)
       \/ n > 1 /\ s[n] = " " /\ is(level, 1, n - 1)
       \/ level = 1 /\ \E k \in 2..(n - 1) : s[k] = "," /\ is(2, 1, k - 1) /\ is(1, k + 1, n)
       \/ level <= 2 /\ \E k \in 1..(n - 1) :
             /\ s[k] \notin Word \/ s[k + 1] \notin Word
             /\ is(3, 1, k)
             /\ \/ is(2, k + 1, n)
                \/ LET a == Skip(SubSeq(s, k + 1, n))
                   IN  Match(a, {"And"}) /\ Len(a) > 1 /\ Derives[<<2, Tail(a)>>]
       \/ n = 1 /\ s[1] \in IsWord \cup Quoted \cup {"prune"}
       \/ n > 1 /\ s[1] = "!" /\ is(3, 2, n)
       \/ n > 2 /\ s[1] = "Not" /\ s[2] = " " /\ is(3, 2, n)
       \/ n > 2 /\ s[1] = "(" /\ s[n] = ")" /\ is(1, 2, n - 1)

--------------------
(* The user types a text. *)
NoTree == [text |-> <<>>, binds |-> 0, means |-> {}]

AsTyped(s, tree) == [text |-> s, tree |-> tree, at |-> "condition", stack |-> <<>>, left |-> s, is |-> {}]

FindInit == query = AsTyped(<<>>, NoTree)

TypeTree(leaves, n, nots, ands) == \E t \in TreesOver(leaves, n, nots, ands) : query' = AsTyped(t.text, t)
TypeText == \E n \in 1..Short : \E s \in [1..n -> Sign] : query' = AsTyped(s, NoTree)

FindSteps ==
    \/ /\ query.text = <<>>
       /\ \/ TypeText
          \/ \E n \in 1..2 : TypeTree(Leaves, n, {<<"Not", " ">>}, {<<" ", "And", " ">>})
          \/ TypeTree({l \in Leaves : l.text[1] \in Sign}, 3, {<<"!">>}, {<<" ">>})
    \/ /\ query.text # <<>>
       /\ ParseCondition \/ Negated \/ ParseCase \/ CaseParsed \/ ParseExpression
          \/ ExpressionParsed \/ Closed \/ FindCompile

(* What is typed is understood as the help says, whatever the order and the *)
(* brackets, and a text of tests and signs is refused exactly if it cannot  *)
(* be cut into conditions; as long as each Not is followed by a blank       *)
(* (find.c:491-633).                                                        *)
FindRight ==
    LET blanks == \A k \in DOMAIN query.text : query.text[k] = "Not" =>
                     k < Len(query.text) /\ query.text[k + 1] = " "
    IN query.at \in {"compiled", "refused"} =>
         IF query.tree = NoTree THEN blanks => (query.at = "compiled" <=> Derives[<<1, query.text>>])
         ELSE query.at = "compiled" /\ {f \in FindFile : query.is[f].yes} = query.tree.means
=============================================================================

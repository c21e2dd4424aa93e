---------------------------- MODULE MCCompilation ----------------------------
(* Sample programs written out, the same with one character replaced, left *)
(* out or put in, and every short text of the characters that the scanner  *)
(* has to look at twice.                                                   *)
EXTENDS Compilation, SamplePrograms

Operators == UNION {Strengths[i] : i \in DOMAIN Strengths}
Left(o1, o2)  == BinaryTree(o1, BinaryTree(o2, Var("a"), Digit(1)), Var("t"))
Right(o1, o2) == BinaryTree(o1, Var("a"), BinaryTree(o2, Digit(1), Var("t")))
OperatorPairs == {Left(o1, o2) : o1, o2 \in Operators} \cup {Right(o1, o2) : o1, o2 \in Operators}

WrittenSources ==
  {Unit(<<Do(e)>>) : e \in OperatorPairs \cup Deep}
    \cup {Unit(b) : b \in UNION {BusyPlaces(e) : e \in Simple}}
    \cup {Unit(<<s>>) : s \in Nested}

(* Several lines, each of another kind. *)
Samples ==
  {Unit(<<Declare("a", Digit(1)), Tell(TableTree(<<<<"k", Var("a")>>>>)), Assign("a", Var("b"))>>),
   Unit(<<WhileTree(BinaryTree("shift_signed", Var("a"), Digit(1)),
                    BlockTree(<<ContinueTree, Do(MethodCallTree(Var("a"), "k", <<Var("b")>>))>>)),
          ReturnTree(NullTree)>>),
   Unit(<<Declare("g", Function1(<<ReturnTree(StringTree("k"))>>)),
          IfTree(Var("g"), BlockTree(<<BreakTree>>), <<BlockTree(<<Do(Var("a"))>>)>>)>>)}

Damage == {"@", "\"", "{", "}", "(", ")", "[", "\n", ";", "=", "1", "a", ">", "+", ",", "null"}
DamagedVersions(t) ==
  {SubSeq(t, 1, i - 1) \o middle \o SubSeq(t, i + 1, Len(t)) :
     i \in DOMAIN t, middle \in {<<>>} \cup {<<c>> : c \in Damage}}
    \cup {SubSeq(t, 1, i) \o <<c>> \o SubSeq(t, i + 1, Len(t)) : i \in DOMAIN t, c \in Damage}

Delicate == {"<", ">", "=", "!", "&", "1", "a", " ", ";", "\n", "\"", "\\", "@"}
ShortTexts ==
  UNION {[1 .. n -> Delicate] : n \in 0 .. 3} \cup [1 .. 5 -> {">", "=", "a"}]

AllTexts == UNION {DamagedVersions(Spell(s.body)) : s \in Samples} \cup ShortTexts
=============================================================================

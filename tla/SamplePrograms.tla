--------------------------- MODULE SamplePrograms ---------------------------
(* Bounded sets of programs: expressions of depth two in all the places    *)
(* where a value is wanted, stored or discarded, small control flow, and   *)
(* functions within functions.                                             *)
EXTENDS Trees

Var(name) == NameTree(name)
Digit(n)  == IntegerTree(<<n>>)
Do(e)     == ExpressionStatementTree(e)
Declare(name, e) == DeclarationTree(name, e)
Assign(name, e)  == AssignmentTree(Var(name), e)
Tell(e)   == Do(CallTree(Var("f"), <<e>>))
Block1(s) == BlockTree(<<s>>)
Unit(body) == FunctionTree(<<>>, BlockTree(body))
Function1(body) == FunctionTree(<<"x">>, BlockTree(body))

(* f is a native object, a an integer, t a table. *)
Prelude == <<Declare("f", ImportTree(StringTree("m"))), Declare("a", Digit(2)),
             Declare("t", TableTree(<<<<"k", Digit(1)>>>>))>>
Program(body) == Unit(Prelude \o body)

Leaves == {Var("a"), Digit(0), Digit(1)}

(* One operation on an operand e. *)
Around(e) ==
  {UnaryTree("not", e), UnaryTree("negate", e),
   BinaryTree("add", e, Var("a")), BinaryTree("sub", Var("a"), e),
   BinaryTree("less", Digit(1), e),
   BinaryTree("logical_and", e, Var("a")), BinaryTree("logical_and", Var("a"), e),
   CallTree(Var("f"), <<e, Var("a")>>), CallTree(Var("f"), <<Var("a"), e>>), CallTree(e, <<>>),
   DotTree(e, "k"), SubscriptTree(Var("t"), e), SubscriptTree(e, Digit(0)),
   BinaryTree("logical_or", e, Var("a")), SubscriptTree(StringTree("k"), e),
   TableTree(<<<<"k", Digit(1)>>, <<"l", e>>>>),
   MethodCallTree(Var("f"), "k", <<Digit(1), e>>), MethodCallTree(e, "k", <<>>),
   ImportTree(e), CallTree(Function1(<<ReturnTree(e)>>), <<Digit(1)>>)}

Simple == Leaves \cup {Var("f"), Var("t"), Var("z"), NullTree, StringTree("k")}
Shallow == Simple \cup Around(Var("a")) \cup {DotTree(Var("t"), "k"), BinaryTree("less", Digit(1), Var("t"))}
Deep == UNION {Around(e) : e \in Shallow}

(* The places an expression can have in a program. *)
Places(e) ==
  {<<ReturnTree(e)>>,
   <<Do(e)>>,
   <<Assign("a", e), Tell(Var("a")), ReturnTree(Var("a"))>>,
   <<Declare("b", e), Tell(Var("a")), ReturnTree(Var("b"))>>}

(* Places for smaller expressions: around which more is going on. *)
BusyPlaces(e) ==
  {<<AssignmentTree(DotTree(Var("t"), "k"), e), ReturnTree(DotTree(Var("t"), "k"))>>,
   <<IfTree(e, Block1(Tell(Digit(1))), <<Block1(Tell(Digit(0)))>>), ReturnTree(Var("a"))>>,
   <<AssignmentTree(SubscriptTree(Var("t"), e), CallTree(Var("f"), <<>>)),
     ReturnTree(SubscriptTree(Var("t"), e))>>,
   <<WhileTree(e, Block1(BreakTree)), ReturnTree(Var("a"))>>,
   <<WhileTree(CallTree(Var("f"), <<e>>),
               BlockTree(<<Declare("b", e), IfTree(Var("b"), Block1(ContinueTree), <<>>), Tell(e)>>)),
     ReturnTree(Var("a"))>>,
   \* a closure has the values of its moment, through two functions
   <<Declare("g", Function1(<<Tell(Var("x")), ReturnTree(e)>>)), Assign("a", Digit(0)),
     ReturnTree(CallTree(Var("g"), <<Var("a")>>))>>,
   <<Declare("g", Function1(<<Declare("b", e), ReturnTree(Function1(<<Tell(Var("b")), ReturnTree(e)>>))>>)),
     Assign("a", Digit(0)),
     ReturnTree(CallTree(CallTree(Var("g"), <<Digit(3)>>), <<>>))>>}

ExpressionPrograms ==
  {Program(body) : body \in UNION {Places(e) : e \in Deep} \cup UNION {BusyPlaces(e) : e \in Shallow}}

(* Control flow: what follows what, in loops, blocks, branches, functions. *)
Plain ==
  {Tell(Var("a")), Assign("a", BinaryTree("sub", Var("a"), Digit(1))), BreakTree, ContinueTree,
   ReturnTree(Var("a")), Declare("a", Digit(0)), Assign("z", Digit(1))}
Sequences2 == {<<s1, s2>> : s1 \in Plain, s2 \in Plain}
Nested ==
  {IfTree(Var("a"), BlockTree(s), <<>>) : s \in Sequences2}
    \cup {WhileTree(Var("a"), BlockTree(s)) : s \in Sequences2}
    \cup {BlockTree(s) : s \in Sequences2}
    \cup {Do(CallTree(FunctionTree(p, BlockTree(s)), <<Var("a")>>)) :
            s \in Sequences2, p \in {<<>>, <<"a">>, <<"a", "a">>}}
    \cup {IfTree(Var("a"), Block1(s1), <<Block1(s2)>>) : s1 \in Plain, s2 \in Plain}
Loops ==
  {WhileTree(Var("a"), BlockTree(<<Assign("a", BinaryTree("sub", Var("a"), Digit(1))), s>>)) :
     s \in Nested}

ControlPrograms ==
  {Program(<<s, ReturnTree(Var("a"))>>) : s \in Nested \cup Loops}

(* A function that calls the one it is given: activations on activations. *)
Recursive ==
  Program(<<Declare("g", FunctionTree(<<"self", "n">>, BlockTree(
              <<IfTree(Var("n"), Block1(ReturnTree(BinaryTree("add", Var("n"),
                  CallTree(Var("self"), <<Var("self"), BinaryTree("sub", Var("n"), Digit(1))>>)))),
                       <<>>),
                Tell(Var("a")), ReturnTree(Digit(0))>>))),
            ReturnTree(CallTree(Var("g"), <<Var("g"), Digit(3)>>))>>)

SmallLiterals == {<<1, 5>>, <<1, 6>>, <<2, 5>>, <<0, 0, 7>>}
Literals(S) == {Program(<<Tell(IntegerTree(digits))>>) : digits \in S}
=============================================================================

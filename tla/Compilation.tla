---------------------------- MODULE Compilation ----------------------------
(***************************************************************************)
(* compile_unit: the text is parsed one statement of the outmost block     *)
(* after the other, an error is reported and the parser goes on at the     *)
(* next line; code is generated from whatever tree that gives; there is a  *)
(* unit if nobody has reported an error.                                   *)
(***************************************************************************)
EXTENDS Parsing, CodeGenerator

CONSTANTS
  Texts,       \* what is compiled
  Sources,     \* trees that are written out and compiled
  CodeOf(_)    \* the code generator: GenerateUnit

VARIABLES
  source,   \* the tree that was written, or NullTree
  unit

vars == <<text, source, stage, parser, body, unit>>

-----------------------------------------------------------------------------
(* The grammar, written down from the side of the trees: how a tree is     *)
(* spelled with no more parentheses than needed.                           *)
Strengths == << {"mul", "div", "mod"}, {"add", "sub"}, {"shift_left", "shift_right", "shift_signed"},
                {"less", "less_equal", "greater", "greater_equal"}, {"equal", "not_equal"},
                {"and"}, {"xor"}, {"or"}, {"logical_and"}, {"logical_or"} >>
Strength(operation) == CHOOSE i \in DOMAIN Strengths : operation \in Strengths[i]
Joined(texts, separator) ==
  FoldLeft(LAMBDA all, t : IF all = <<>> THEN t ELSE all \o separator \o t, <<>>, texts)
Enclosed(left, t, right) == <<left>> \o t \o <<right>>

(* How tightly a tree holds together: 0 a primary with what follows it, 1  *)
(* with a prefix, 2 and more an operator, 12 an import takes all there is. *)
Looseness(tree) ==
  CASE tree.kind = "unary"  -> 1
    [] tree.kind = "binary" -> 1 + Strength(tree.type)
    [] tree.kind = "import" -> 12
    [] OTHER                -> 0

RECURSIVE Spell(_)
SpellWithin(tree, looseness) ==
  IF Looseness(tree) <= looseness THEN Spell(tree) ELSE Enclosed("(", Spell(tree), ")")
SpellArguments(trees) == Enclosed("(", Joined([i \in DOMAIN trees |-> Spell(trees[i])], <<",">>), ")")
SpellBlock(tree) == Enclosed("{", <<"\n">> \o Spell(tree), "}")

Spell(tree) ==
  CASE tree.kind = "name"    -> <<tree.name>>
    [] tree.kind = "integer" -> [i \in DOMAIN tree.value |-> ToString(tree.value[i])]
    [] tree.kind = "string"  -> <<"\"", tree.content, "\"">>
    [] tree.kind = "null"    -> <<"null">>
    [] tree.kind = "call"    -> SpellWithin(tree.function, 0) \o SpellArguments(tree.arguments)
    [] tree.kind = "method_call" ->
         SpellWithin(tree.instance, 0) \o <<":", tree.methodName>> \o SpellArguments(tree.arguments)
    [] tree.kind = "dot"       -> SpellWithin(tree.table, 0) \o <<".", tree.elementName>>
    [] tree.kind = "subscript" -> SpellWithin(tree.table, 0) \o Enclosed("[", Spell(tree.key), "]")
    [] tree.kind = "function" ->
         <<"function">>
           \o Enclosed("(", Joined([i \in DOMAIN tree.parameters |-> <<tree.parameters[i]>>], <<",">>), ")")
           \o SpellBlock(tree.body)
    [] tree.kind = "table" ->
         Enclosed("[", Joined([i \in DOMAIN tree.elements |->
                                 <<tree.elements[i][1], "=">> \o Spell(tree.elements[i][2])], <<",">>), "]")
    [] tree.kind = "unary"  -> Symbol[tree.type] \o SpellWithin(tree.input, 1)
    [] tree.kind = "binary" ->
         SpellWithin(tree.left, 1 + Strength(tree.type)) \o Symbol[tree.type]
           \o SpellWithin(tree.right, Strength(tree.type))
    [] tree.kind = "import" -> <<"import", " ">> \o Spell(tree.module)
    [] tree.kind = "declaration" -> <<"var", " ", tree.name, "=">> \o Spell(tree.value)
    [] tree.kind = "return"      -> <<"return", " ">> \o Spell(tree.value)
    [] tree.kind = "block" -> FoldLeft(LAMBDA all, s :
                                all \o (IF s.kind = "block" THEN SpellBlock(s) ELSE Spell(s)) \o <<"\n">>,
                                <<>>, tree.body)
    [] tree.kind = "expression" -> Spell(tree.expression)
    [] tree.kind = "assignment" -> Spell(tree.destination) \o <<"=">> \o Spell(tree.source)
    [] tree.kind = "if" ->
         <<"if", " ">> \o Spell(tree.condition) \o SpellBlock(tree.onTrue)
           \o (IF tree.onFalse = <<>> THEN <<>> ELSE <<"else">> \o SpellBlock(tree.onFalse[1]))
    [] tree.kind = "while" -> <<"while", " ">> \o Spell(tree.condition) \o SpellBlock(tree.body)
    [] OTHER -> <<tree.kind>>

-----------------------------------------------------------------------------
NoUnit == [functions |-> <<>>, strings |-> <<>>, errors |-> <<>>]

Init ==
  /\ \/ source \in Sources /\ text = Spell(source.body)
     \/ source = NullTree /\ text \in Texts
  /\ StartParsing
  /\ unit = NoUnit

(* A tree with holes is generated like any other, for its errors. *)
Generate ==
  LET generated == CodeOf(Tree) IN
  /\ stage = "parsed"
  /\ unit' = generated
  /\ stage' = IF generated.errors = <<>> /\ parser.errors = <<>> THEN "compiled" ELSE "rejected"
  /\ UNCHANGED <<text, source, parser, body>>

Next == (ParseTurn /\ UNCHANGED <<source, unit>>) \/ Generate

Spec == Init /\ [][Next]_vars

-----------------------------------------------------------------------------
RECURSIVE TokensFrom(_)
(* All tokens of a text up to its first error. *)
TokensFrom(scanner) ==
  LET result == NextToken(scanner) IN
  IF result.error # "" \/ result.token.type = "end_of_file" THEN <<>>
  ELSE <<result.token>> \o TokensFrom(result.scanner)
Tokens(t) == TokensFrom(NewScanner(t))

(* A program that is written out is read as what it is, with any operator  *)
(* next to any other.  Nothing ends a statement, though: a line that can   *)
(* go on the one before does.                                              *)
GoesOn(t) ==
  \E i \in 2 .. Len(t) - 1 : /\ t[i] = "\n" /\ t[i - 1] # "{"
                             /\ t[i + 1] \in {"(", "[", "-"}
WhatIsWrittenIsRead ==
  stage \in {"compiled", "rejected"} /\ source # NullTree /\ ~GoesOn(text) =>
    parser.errors = <<>> /\ Tree = source

(* A text that compiles has nothing that is not in the tree: no token is   *)
(* passed over but those that only separate.                               *)
Substance(t) ==
  LET tokens == SelectSeq(Tokens(t), LAMBDA token : token.type \notin {"(", ")", ",", "+"}) IN
  FoldLeft(LAMBDA all, token : FoldLeft(LAMBDA s, c : s \o c, all, Content(NewScanner(t), token)),
           "", tokens)
NothingIsDropped == stage = "compiled" => Substance(text) = Substance(Spell(Tree.body))
=============================================================================

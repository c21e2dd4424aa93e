------------------------------- MODULE Parser -------------------------------
(***************************************************************************)
(* p0compile's parser: a function per rule of the grammar, on a scanner    *)
(* with one token of look-ahead.  A parser p is what the C++ object and    *)
(* the call in progress hold: `next' is the token that was looked at,      *)
(* `token' the last one taken, `value' the tree a rule returns, `thrown'   *)
(* the compiler_error on its way to the next parse_block.                  *)
(***************************************************************************)
EXTENDS Scanner, Trees

NoToken == Token("none", 0, 0)

SomeToken == [type : TokenTypes \cup {"none"}, from : Nat, to : Nat]

EndOfFileInBlock == "end_of_file_in_block"
Errors ==
  ScanErrors \cup {EndOfFileInBlock, "unexpected_brace", "expression_expected", "bracket_expected",
                  "argument_list_expected", "assignment_expected", "closing_bracket_expected",
                  "comma_or_parenthesis_expected", "element_name_expected", "method_name_expected",
                  "end_of_parameters_expected", "function_body_expected", "if_block_expected",
                  "else_block_expected", "while_block_expected", "key_expected",
                  "parenthesis_expected", "variable_name_expected"}

Reports == [error : Errors, at : Nat]

NewParser(text) ==
  [scanner |-> NewScanner(text), next |-> NoToken, token |-> NoToken, value |-> NullTree,
   thrown |-> "", at |-> 0, errors |-> <<>>]

Throws(p) == p.thrown # ""
RaiseAt(p, error, at) == IF Throws(p) THEN p ELSE [p EXCEPT !.thrown = error, !.at = at]
Yields(p, tree) == IF Throws(p) THEN p ELSE [p EXCEPT !.value = tree]

(* A result of the scanner's next_token is the look-ahead, or is thrown.   *)
Scanned(p, result) ==
  LET q == [p EXCEPT !.scanner = result.scanner] IN
  IF result.error # "" THEN RaiseAt(q, result.error, result.at) ELSE [q EXCEPT !.next = result.token]
PeekToken(p) ==
  IF Throws(p) \/ p.next # NoToken THEN p ELSE Scanned(p, NextToken(p.scanner))

(* The look-ahead is taken. *)
Pop(q) == IF Throws(q) THEN q ELSE [q EXCEPT !.token = q.next, !.next = NoToken]
PopToken(p) == Pop(PeekToken(p))

(* What try_skip_token and the switches ask of a parser that has peeked. *)
Sees(p, type) == ~Throws(p) /\ p.next.type = type

SkipSeen(q, type, error) == IF Sees(q, type) THEN Pop(q) ELSE RaiseAt(q, error, q.next.from)
SkipToken(p, type, error) == SkipSeen(PeekToken(p), type, error)

(* pop_token and expect_token_type *)
ExpectTaken(q, type, error) == IF q.token.type = type THEN q ELSE RaiseAt(q, error, q.token.from)
ExpectToken(p, type, error) == ExpectTaken(PopToken(p), type, error)

(* Mutant: the look-ahead survives the line it comes from. *)
SkipScannerLine(p) == [p EXCEPT !.scanner = SkipLine(@)]

SkipParserLine(p) == [p EXCEPT !.scanner = SkipLine(@), !.next = NoToken]

Spelling(p, token) ==
  LET content == Content(p.scanner, token)
      joined[i \in 0 .. Len(content)] == IF i = 0 THEN "" ELSE joined[i - 1] \o content[i]
  IN  joined[Len(content)]
DigitValue(c) == CHOOSE n \in 0 .. 9 : ToString(n) = c
DigitsOf(p, token) ==
  [i \in 1 .. token.to - token.from |-> DigitValue(Content(p.scanner, token)[i])]

-----------------------------------------------------------------------------
InfixOperators == {"||", "&&", "|", "^", "&", "==", "!=", "<", "<=", ">", ">=", "<<", ">>", ">>>",
                   "+", "-", "*", "/", "%"}
Precedence(token) ==
  CASE token = "||" -> 14
    [] token = "&&" -> 13
    [] token = "|" -> 12
    [] token = "^" -> 11
    [] token = "&" -> 10
    [] token \in {"==", "!="} -> 9
    [] token \in {"<", "<=", ">", ">="} -> 8
    [] token \in {"<<", ">>", ">>>"} -> 7
    [] token \in {"+", "-"} -> 6
    [] token \in {"*", "/", "%"} -> 5
InfixName(token) ==
  CASE token = "||" -> "logical_or"  [] token = "&&" -> "logical_and"
    [] token = "|"  -> "or"          [] token = "^"  -> "xor"
    [] token = "&"  -> "and"         [] token = "==" -> "equal"
    [] token = "!=" -> "not_equal"   [] token = "<"  -> "less"
    [] token = "<=" -> "less_equal"  [] token = ">"  -> "greater"
    [] token = ">=" -> "greater_equal" [] token = "<<" -> "shift_left"
    [] token = ">>" -> "shift_right" [] token = ">>>" -> "shift_signed"
    [] token = "+"  -> "add"         [] token = "-"  -> "sub"
    [] token = "*"  -> "mul"         [] token = "/"  -> "div"
    [] token = "%"  -> "mod"
WeakestPrecedence == 14

PrefixOperators == {"-", "!", "~"}
PrefixName(token) == CASE token = "-" -> "negate" [] token = "!" -> "not" [] token = "~" -> "invert"

-----------------------------------------------------------------------------
(* The parser's functions call one another.  What a rule may call is a     *)
(* function of the rule, the weakest operator that it accepts and the      *)
(* parser; the trees that were read before stay with the caller.           *)
Rules == {"expression", "infix_tail", "operand", "primary_tail", "arguments", "elements", "strings",
          "parameters", "block"}
Precedences == 0 .. WeakestPrecedence
Parsers == [scanner : [text : Seq(STRING), pos : Nat, wasInteger : BOOLEAN],
            next : SomeToken, token : SomeToken, value : {NullTree},
            thrown : Errors \cup {""}, at : Nat, errors : Seq(Reports)]

CallWithin(calls, rule, weakest, p) ==
  IF Throws(p) THEN p ELSE calls[rule][weakest][[p EXCEPT !.value = NullTree]]
Call(calls, rule, p) == CallWithin(calls, rule, WeakestPrecedence, p)

(* A loop is its first turn and the rule that does the others: p.value is  *)
(* a list.                                                                 *)
YieldsFirst(first, p) == Yields(p, <<first>> \o p.value)

-----------------------------------------------------------------------------
(* Mutant: operators of the same strength associate to the right. *)
InfixTailToTheRight(calls, p, weakest) ==
  LET q == PeekToken(p)
      operator == q.next.type
      right == CallWithin(calls, "expression", Precedence(operator), PopToken(q))
  IN  IF Throws(q) \/ operator \notin InfixOperators \/ Precedence(operator) > weakest
        THEN Yields(q, <<>>)
      ELSE YieldsFirst(<<InfixName(operator), right.value>>,
                       CallWithin(calls, "infix_tail", weakest, right))

(* The operators after an operand, each with its right one. *)
InfixTail(calls, p, weakest) ==
  LET q == PeekToken(p)
      operator == q.next.type
      right == CallWithin(calls, "expression", Precedence(operator) - 1, PopToken(q))
  IN  IF Throws(q) \/ operator \notin InfixOperators \/ Precedence(operator) > weakest
        THEN Yields(q, <<>>)
      ELSE YieldsFirst(<<InfixName(operator), right.value>>,
                       CallWithin(calls, "infix_tail", weakest, right))

(* The arguments up to the closing parenthesis. *)
ArgumentsFrom(calls, argument) ==
  LET q == PeekToken(argument)
  IN  IF Sees(q, ",") THEN YieldsFirst(argument.value, Call(calls, "arguments", PopToken(q)))
      ELSE Yields(SkipToken(q, ")", "comma_or_parenthesis_expected"), <<argument.value>>)

ParseArgumentList(calls, p) ==
  LET q == PeekToken(p)
  IN  IF Sees(q, ")") THEN Yields(PopToken(q), <<>>)
      ELSE ArgumentsFrom(calls, Call(calls, "expression", q))

(* What follows a primary expression, around a hole for what it follows. *)
PrimaryTail(calls, p) ==
  LET q == PeekToken(p)
      rest == PopToken(q)
      arguments == ParseArgumentList(calls, rest)
      key == Call(calls, "expression", rest)
      closed == SkipToken(key, "]", "bracket_expected")
      element == ExpectToken(rest, "identifier", "element_name_expected")
      method == ExpectToken(rest, "identifier", "method_name_expected")
      passed == ParseArgumentList(calls, SkipToken(method, "(", "argument_list_expected"))
      GoOn(r, suffix) == YieldsFirst(suffix, Call(calls, "primary_tail", r))
  IN  CASE Sees(q, "(") -> GoOn(arguments, CallTree(NullTree, arguments.value))
        [] Sees(q, "[") -> GoOn(closed, SubscriptTree(NullTree, closed.value))
        [] Sees(q, ".") -> GoOn(element, DotTree(NullTree, Spelling(element, element.token)))
        [] Sees(q, ":") ->
             GoOn(passed, MethodCallTree(NullTree, Spelling(method, method.token), passed.value))
        [] OTHER -> Yields(q, <<>>)

(* The hole is filled. *)
Followed(tree, suffix) ==
  CASE suffix.kind = "call"        -> [suffix EXCEPT !.function = tree]
    [] suffix.kind = "method_call" -> [suffix EXCEPT !.instance = tree]
    [] OTHER                       -> [suffix EXCEPT !.table = tree]

(* The elements up to the closing bracket. *)
ParseTable(calls, p) ==
  LET q == PeekToken(p)
      key == ExpectToken(q, "identifier", "key_expected")
      value == Call(calls, "expression", SkipToken(key, "=", "assignment_expected"))
      after == PeekToken(value)
      element == <<Spelling(key, key.token), value.value>>
  IN  IF Sees(q, "]") THEN Yields(PopToken(q), <<>>)
      ELSE IF Sees(after, ",") THEN YieldsFirst(element, Call(calls, "elements", PopToken(after)))
      ELSE Yields(SkipToken(after, "]", "closing_bracket_expected"), <<element>>)

(* The literals that follow a string: they are one. *)
ParseString(calls, p) ==
  LET q == PeekToken(p)
      part == PopToken(q)
  IN  IF Sees(q, "string")
        THEN YieldsFirst(Spelling(part, part.token), Call(calls, "strings", part))
      ELSE Yields(q, <<>>)

(* A comma may end the parameters; the parentheses may be left out. *)
ParseParameters(calls, p) ==
  LET q == PeekToken(p)
      parameter == PopToken(q)
      name == Spelling(parameter, parameter.token)
      after == PeekToken(parameter)
  IN  IF ~Sees(q, "identifier") THEN Yields(q, <<>>)
      ELSE IF Sees(after, ",") THEN YieldsFirst(name, Call(calls, "parameters", PopToken(after)))
      ELSE Yields(after, <<name>>)

ParseBlock(calls, p, error) == Call(calls, "block", SkipToken(p, "{", error))

ParseFunction(calls, p) ==
  LET q == PeekToken(p)
      list == Call(calls, "parameters", PopToken(q))
      closed == IF Sees(q, "(") THEN SkipToken(list, ")", "end_of_parameters_expected") ELSE q
      body == ParseBlock(calls, closed, "function_body_expected")
  IN  Yields(body, FunctionTree(IF Sees(q, "(") THEN list.value ELSE <<>>, BlockTree(body.value)))

(* The expression that begins with the token just taken. *)
PrimaryFrom(calls, q) ==
  LET type == q.token.type
      inner == Call(calls, "expression", q)
      operand == Call(calls, "operand", q)
      table == Call(calls, "elements", q)
      strings == Call(calls, "strings", q)
      Joined(parts) == FoldLeft(LAMBDA all, part : all \o part, Spelling(q, q.token), parts)
  IN  CASE Throws(q) -> q
        [] ~Throws(q) /\ type = "identifier" -> Yields(q, NameTree(Spelling(q, q.token)))
        [] ~Throws(q) /\ type = "integer" -> Yields(q, IntegerTree(DigitsOf(q, q.token)))
        [] ~Throws(q) /\ type = "(" -> ExpectToken(inner, ")", "parenthesis_expected")
        [] ~Throws(q) /\ type = "function" -> ParseFunction(calls, q)
        [] ~Throws(q) /\ type = "null" -> Yields(q, NullTree)
        [] ~Throws(q) /\ type = "[" -> Yields(table, TableTree(table.value))
        [] ~Throws(q) /\ type \in PrefixOperators ->
             Yields(operand, UnaryTree(PrefixName(type), operand.value))
        [] ~Throws(q) /\ type = "+" -> operand
        [] ~Throws(q) /\ type = "string" -> Yields(strings, StringTree(Joined(strings.value)))
        [] ~Throws(q) /\ type = "import" -> Yields(inner, ImportTree(inner.value))
        [] OTHER -> RaiseAt(q, "expression_expected", q.token.from)

ParsePrimary(calls, p) == PrimaryFrom(calls, PopToken(p))

Extended(calls, primary) ==
  LET tail == Call(calls, "primary_tail", primary)
  IN  Yields(tail, FoldLeft(Followed, primary.value, tail.value))
ParseExtendedPrimary(calls, p) == Extended(calls, ParsePrimary(calls, p))

Combined(calls, first, weakest) ==
  LET tail == CallWithin(calls, "infix_tail", weakest, first)
  IN  Yields(tail, FoldLeft(LAMBDA left, step : BinaryTree(step[1], left, step[2]),
                            first.value, tail.value))
ParseInfix(calls, p, weakest) == Combined(calls, ParseExtendedPrimary(calls, p), weakest)

ParseExpression(calls, p) == ParseInfix(calls, p, WeakestPrecedence)

-----------------------------------------------------------------------------
ParseDeclaration(calls, p) ==
  LET name == ExpectToken(PopToken(p), "identifier", "variable_name_expected")
      value == Call(calls, "expression", SkipToken(name, "=", "assignment_expected"))
  IN  Yields(value, DeclarationTree(Spelling(name, name.token), value.value))

ParseReturn(calls, p) ==
  LET value == Call(calls, "expression", PopToken(p)) IN Yields(value, ReturnTree(value.value))

ParseIf(calls, p) ==
  LET condition == Call(calls, "expression", PopToken(p))
      onTrue == ParseBlock(calls, condition, "if_block_expected")
      q == PeekToken(onTrue)
      onFalse == ParseBlock(calls, PopToken(q), "else_block_expected")
      If(branches) == IfTree(condition.value, BlockTree(onTrue.value), branches)
  IN  IF Sees(q, "else") THEN Yields(onFalse, If(<<BlockTree(onFalse.value)>>))
      ELSE Yields(q, If(<<>>))

ParseWhile(calls, p) ==
  LET condition == Call(calls, "expression", PopToken(p))
      body == ParseBlock(calls, condition, "while_block_expected")
  IN  Yields(body, WhileTree(condition.value, BlockTree(body.value)))

ParseInnerBlock(calls, p) ==
  LET body == Call(calls, "block", PopToken(p)) IN Yields(body, BlockTree(body.value))

StatementAfter(calls, left) ==
  LET right == Call(calls, "expression", PopToken(left))
  IN  IF Sees(left, "=") THEN Yields(right, AssignmentTree(left.value, right.value))
      ELSE Yields(left, ExpressionStatementTree(left.value))
ParseAssignmentOrExpression(calls, p) ==
  StatementAfter(calls, PeekToken(ParseExpression(calls, p)))

ParseStatement(calls, p) ==
  LET q == PeekToken(p) IN
  CASE Throws(q)           -> q
    [] Sees(q, "var")      -> ParseDeclaration(calls, q)
    [] Sees(q, "return")   -> ParseReturn(calls, q)
    [] Sees(q, "{")        -> ParseInnerBlock(calls, q)
    [] Sees(q, "if")       -> ParseIf(calls, q)
    [] Sees(q, "while")    -> ParseWhile(calls, q)
    [] Sees(q, "break")    -> Yields(PopToken(q), BreakTree)
    [] Sees(q, "continue") -> Yields(PopToken(q), ContinueTree)
    [] OTHER -> ParseAssignmentOrExpression(calls, q)

(* Mutant: the handler does not report what it has caught. *)
RecoverSilently(p) == [SkipParserLine(p) EXCEPT !.thrown = "", !.at = 0, !.value = NullTree]

(* The handler in parse_block: the error is reported, the rest of the line *)
(* is skipped.                                                             *)
Recover(p) ==
  [SkipParserLine(p) EXCEPT !.errors = Append(@, [error |-> p.thrown, at |-> p.at]),
                            !.thrown = "", !.at = 0, !.value = NullTree]

(* The statement is one, or an error to recover from, or one that leaves   *)
(* all blocks.                                                             *)
TurnWith(statement) ==
  IF statement.thrown = EndOfFileInBlock THEN [outcome |-> "leave", parser |-> statement]
  ELSE IF Throws(statement) THEN [outcome |-> "error", parser |-> Recover(statement)]
  ELSE [outcome |-> "statement", parser |-> statement]

(* One turn of parse_block's loop, or the end of the block. *)
BlockTurn(calls, p, isGlobal) ==
  LET q == PeekToken(p)
  IN  IF Sees(q, "end_of_file")
        THEN IF isGlobal THEN [outcome |-> "end", parser |-> q]
             ELSE [outcome |-> "leave", parser |-> RaiseAt(q, EndOfFileInBlock, q.scanner.pos)]
      ELSE IF Sees(q, "}")
        THEN IF isGlobal
               THEN [outcome |-> "error", parser |-> Recover(RaiseAt(q, "unexpected_brace", q.next.from))]
               ELSE [outcome |-> "end", parser |-> PopToken(q)]
      ELSE TurnWith(ParseStatement(calls, q))

(* The statements of a block. *)
BlockAfter(calls, turn) ==
  LET rest == Call(calls, "block", turn.parser)
  IN  CASE turn.outcome = "statement" -> YieldsFirst(turn.parser.value, rest)
        [] turn.outcome = "error"     -> rest
        [] turn.outcome = "end"       -> Yields(turn.parser, <<>>)
        [] turn.outcome = "leave"     -> turn.parser
BlockFrom(calls, p) == BlockAfter(calls, BlockTurn(calls, p, FALSE))

-----------------------------------------------------------------------------
Rule(calls, rule, weakest, p) ==
  CASE rule = "expression"   -> ParseInfix(calls, p, weakest)
    [] rule = "infix_tail"   -> InfixTail(calls, p, weakest)
    [] rule = "operand"      -> ParseExtendedPrimary(calls, p)
    [] rule = "primary_tail" -> PrimaryTail(calls, p)
    [] rule = "arguments"    -> ArgumentsFrom(calls, ParseExpression(calls, p))
    [] rule = "elements"     -> ParseTable(calls, p)
    [] rule = "strings"      -> ParseString(calls, p)
    [] rule = "parameters"   -> ParseParameters(calls, p)
    [] rule = "block"        -> BlockFrom(calls, p)

(* What can be called at a depth calls what can be called one deeper.  A   *)
(* call takes something from the text before it makes another one: there   *)
(* is nothing left to be called at a depth of 0.                           *)
OneLess(calls) ==
  [rule \in Rules |-> [weakest \in Precedences |-> [p \in Parsers |-> Rule(calls, rule, weakest, p)]]]
Parse[depth \in Nat] == OneLess(IF depth = 0 THEN <<>> ELSE Parse[depth - 1])
=============================================================================

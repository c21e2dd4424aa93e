------------------------------- MODULE Parsing -------------------------------
(***************************************************************************)
(* parse_unit: the text is parsed one statement of the outmost block after *)
(* the other; an error is reported and the parser goes on at the next      *)
(* line.                                                                   *)
(***************************************************************************)
EXTENDS Tokens, Parser

VARIABLES
  stage,    \* "parsing", "parsed" or "rejected"
  body      \* the statements found in the outmost block

StartParsing ==
  /\ stage = "parsing"
  /\ parser = NewParser(text)
  /\ body = <<>>

(* The outmost parse_block has made a turn. *)
Proceed(turn) ==
  /\ stage = "parsing"
  /\ parser' = turn.parser
  /\ \/ turn.outcome = "statement" /\ body' = Append(body, turn.parser.value) /\ UNCHANGED stage
     \/ turn.outcome = "error" /\ UNCHANGED <<body, stage>>
     \/ turn.outcome = "end" /\ stage' = "parsed" /\ UNCHANGED body
     \/ turn.outcome = "leave" /\ stage' = "rejected" /\ UNCHANGED body
  /\ UNCHANGED text

ParseTurn == Proceed(BlockTurn(Parse[Len(text)], parser, TRUE))

Tree == FunctionTree(<<>>, BlockTree(body))

parsing == <<text, stage, parser, body>>

(* Any text at all. *)
ParsingSpec == (text \in Seq(STRING) /\ StartParsing) /\ [][ParseTurn]_parsing

-----------------------------------------------------------------------------
(* What the parser has not taken yet begins here. *)
Unread(p) == IF p.next = NoToken THEN p.scanner.pos ELSE p.next.from

(* No error keeps the parser where it is: every turn of the loop in        *)
(* parse_block takes something from the text, so that the loop ends.       *)
ParsingAdvances ==
  [][stage = "parsing" /\ stage' = "parsing" => Unread(parser') > Unread(parser)]_parsing

(* A line is reported once at most: what follows an error on its line is   *)
(* not looked at (parse_block's handler, parser::skip_line).               *)
LineOf(at) == Cardinality({i \in 1 .. at : text[i] = "\n"})
OneErrorPerLine ==
  \A i, j \in DOMAIN parser.errors :
    i < j => LineOf(parser.errors[i].at) < LineOf(parser.errors[j].at)
=============================================================================

------------------------------ MODULE Scanner ------------------------------
(***************************************************************************)
(* p0compile's scanner: from a text to one token after the other.  A text  *)
(* is a sequence of characters; a string of letters stands for the         *)
(* characters of a word.  A token's type is its spelling, or what kind of  *)
(* word or literal it is; its range is from .. to, counted from 0.         *)
(***************************************************************************)
EXTENDS Integers, FiniteSetsExt, SequencesExt

Whitespace == {" ", "\t", "\n", "\r"}
Digits     == {"0", "1", "2", "3", "4", "5", "6", "7", "8", "9"}
SingleCharTokens == {"(", ")", "{", "}", "[", "]", ",", "+", "-", "*", "/", "%", ".", "~", "^", ":"}
Unreadable == {"@", "?", "$"}    \* characters of no token
Letters(c) ==
  c \notin Whitespace \cup Digits \cup SingleCharTokens \cup Unreadable
           \cup {"=", "&", "|", "<", ">", "!", ";", "\"", "\\"}

Keywords == {"var", "function", "return", "null", "if", "else", "while", "break", "continue",
             "import"}

TokenTypes ==
  SingleCharTokens \cup Keywords
    \cup {"=", "&", "|", "<", ">", "!", "==", "&&", "||", "<<", ">>", ">>>", "<=", ">=", "!=",
          "identifier", "integer", "string", "end_of_file"}

ScanErrors == {"unexpected_end_of_file", "hex_encoding_required", "identifier_after_integer",
               "unexpected_character"}

(* The longer tokens a character can begin: what has to follow, in the     *)
(* order it is looked for.                                                 *)
Continuations(c) ==
  CASE c = "=" -> <<<<<<"=">>, "==">>>>
    [] c = "&" -> <<<<<<"&">>, "&&">>>>
    [] c = "|" -> <<<<<<"|">>, "||">>>>
    [] c = "!" -> <<<<<<"=">>, "!=">>>>
    [] c = "<" -> <<<<<<"<">>, "<<">>, <<<<"=">>, "<=">>>>
    [] c = ">" -> <<<<<<">", ">">>, ">>>">>, <<<<">">>, ">>">>, <<<<"=">>, ">=">>>>
    [] OTHER   -> <<>>

NewScanner(text) == [text |-> text, pos |-> 0, wasInteger |-> FALSE]

AtEnd(s) == s.pos = Len(s.text)
Character(s, i) == s.text[i + 1]
FirstCharacter(s) == Character(s, s.pos)
Content(s, token) == SubSeq(s.text, token.from + 1, token.to)

(* The end of the longest run of characters from pos on that In accepts. *)
RunEnd(s, In(_)) ==
  Max({n \in s.pos .. Len(s.text) : \A i \in s.pos .. n - 1 : In(i)})

(* skip_whitespace: a comment goes from a semicolon to the end of its line. *)
SkipWhitespace(s) ==
  LET InComment(i) ==
        \E j \in s.pos .. i : /\ Character(s, j) = ";"
                              /\ \A k \in j .. i : Character(s, k) # "\n"
      end == RunEnd(s, LAMBDA i : Character(s, i) \in Whitespace \/ InComment(i))
  IN  [s EXCEPT !.pos = end, !.wasInteger = @ /\ end = s.pos]

(* Mutant: the character itself is left for the next line. *)
SkipNothing(s) == s

SkipLine(s) == [s EXCEPT !.pos = RunEnd(s, LAMBDA i : Character(s, i) # "\n")]

Token(type, from, to) == [type |-> type, from |-> from, to |-> to]
Found(s, token, pos) == [scanner |-> [s EXCEPT !.pos = pos], token |-> token, error |-> "", at |-> 0]
(* What remains of a call that throws: the scanner has got as far as pos. *)
ScanError(s, error, pos) ==
  [scanner |-> [s EXCEPT !.pos = pos], token |-> Token("none", 0, 0), error |-> error, at |-> pos]

EatSingleCharToken(s) ==
  Found(s, Token(FirstCharacter(s), s.pos, s.pos + 1), s.pos + 1)

Follows(s, tail) == IsPrefix(tail, SubSeq(s.text, s.pos + 2, Len(s.text)))

(* Mutant: the short alternatives are looked for first. *)
EatShortToken(s) ==
  LET all == Continuations(FirstCharacter(s))
      found == {i \in DOMAIN all : Follows(s, all[i][1])}
  IN  IF found = {} THEN EatSingleCharToken(s)
      ELSE LET chosen == all[Max(found)]
               end == s.pos + 1 + Len(chosen[1])
           IN  Found(s, Token(chosen[2], s.pos, end), end)

(* eat_single_or_double_token and eat_triple_token; the range of the token *)
(* with three characters begins at its second one.                         *)
EatLongToken(s) ==
  LET all == Continuations(FirstCharacter(s))
      found == {i \in DOMAIN all : Follows(s, all[i][1])}
  IN  IF found = {} THEN EatSingleCharToken(s)
      ELSE LET chosen == all[Min(found)]
               end == s.pos + 1 + Len(chosen[1])
               begin == IF Len(chosen[1]) = 2 THEN s.pos + 1 ELSE s.pos
           IN  Found(s, Token(chosen[2], begin, end), end)

(* A backslash takes the next character along, whichever it is. *)
EatString(s) ==
  LET size == Len(s.text)
      from == s.pos + 1
      end[i \in from .. size] ==
        IF i = size THEN ScanError(s, "unexpected_end_of_file", size)
        ELSE IF Character(s, i) \in {"\n", "\r"} THEN ScanError(s, "hex_encoding_required", i)
        ELSE IF Character(s, i) = "\\"
          THEN IF i + 1 = size THEN ScanError(s, "unexpected_end_of_file", size) ELSE end[i + 2]
        ELSE IF Character(s, i) = "\"" THEN Found(s, Token("string", from, i), i + 1)
        ELSE end[i + 1]
  IN  end[from]

EatWord(s, wasInteger) ==
  LET end == RunEnd(s, LAMBDA i : Letters(Character(s, i)) \/ (i > s.pos /\ Character(s, i) \in Digits))
      isKeyword == end = s.pos + 1 /\ FirstCharacter(s) \in Keywords
  IN  IF wasInteger THEN ScanError(s, "identifier_after_integer", s.pos)
      ELSE Found(s, Token(IF isKeyword THEN FirstCharacter(s) ELSE "identifier", s.pos, end), end)

EatInteger(s) ==
  LET end == RunEnd(s, LAMBDA i : Character(s, i) \in Digits) IN
  Found([s EXCEPT !.wasInteger = TRUE], Token("integer", s.pos, end), end)

(* The token that begins here. *)
TokenAt(s) ==
  LET t == [s EXCEPT !.wasInteger = FALSE]
      c == FirstCharacter(s)
  IN  CASE AtEnd(s)                     -> Found(s, Token("end_of_file", s.pos, s.pos), s.pos)
        [] ~AtEnd(s) /\ c \in SingleCharTokens -> EatSingleCharToken(t)
        [] ~AtEnd(s) /\ Continuations(c) # <<>> -> EatLongToken(t)
        [] ~AtEnd(s) /\ c = "\""        -> EatString(t)
        [] ~AtEnd(s) /\ Letters(c)      -> EatWord(t, s.wasInteger)
        [] ~AtEnd(s) /\ c \in Digits    -> EatInteger(t)
        [] OTHER                        -> ScanError(t, "unexpected_character", t.pos)
NextToken(scanner) == TokenAt(SkipWhitespace(scanner))
=============================================================================

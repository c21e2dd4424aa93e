------------------------------- MODULE Tokens -------------------------------
(***************************************************************************)
(* What the scanner promises: wherever in a text it is asked, its token is *)
(* the next thing in the text and all of it.                               *)
(***************************************************************************)
EXTENDS Scanner

VARIABLES
  text,
  parser    \* reads the text through its scanner

(* How operators are written. *)
Symbol == [mul |-> <<"*">>, div |-> <<"/">>, mod |-> <<"%">>, add |-> <<"+">>, sub |-> <<"-">>,
           shift_left |-> <<"<", "<">>, shift_right |-> <<">", ">">>,
           shift_signed |-> <<">", ">", ">">>, less |-> <<"<">>, less_equal |-> <<"<", "=">>,
           greater |-> <<">">>, greater_equal |-> <<">", "=">>, equal |-> <<"=", "=">>,
           not_equal |-> <<"!", "=">>, and |-> <<"&">>, xor |-> <<"^">>, or |-> <<"|">>,
           logical_and |-> <<"&", "&">>, logical_or |-> <<"|", "|">>,
           negate |-> <<"-">>, not |-> <<"!">>, invert |-> <<"~">>]

LongOperators == {Symbol[o] : o \in {o \in DOMAIN Symbol : Len(Symbol[o]) > 1}}

(* What a token covers: a string its quotes, a >>> the character that its  *)
(* range leaves out.                                                       *)
Begin(token) == IF token.type \in {"string", ">>>"} THEN token.from - 1 ELSE token.from
End(token)   == IF token.type = "string" THEN token.to + 1 ELSE token.to

(* White space, and comments up to the end of their line. *)
IsSeparation(gap) ==
  \A i \in DOMAIN gap :
    gap[i] \in Whitespace \/ \E j \in 1 .. i : gap[j] = ";" /\ \A k \in j .. i : gap[k] # "\n"

(* Neither an operator nor a word nor a number goes on where a token ends. *)
IsWhole(token) ==
  /\ LET rest == SubSeq(text, Begin(token) + 1, Len(text)) IN
     \A longer \in LongOperators :
       IsPrefix(longer, rest) => Len(longer) <= End(token) - Begin(token)
  /\ End(token) < Len(text) =>
       LET next == text[End(token) + 1] IN
       /\ token.type \in Keywords \cup {"identifier"} => ~Letters(next) /\ next \notin Digits
       /\ token.type = "integer" => next \notin Digits

(* From wherever the scanner is, what lies before its token is white space *)
(* and comments, the token could not have been longer, and the scanner is  *)
(* at its end then.  The end of the file is found at the end and nowhere   *)
(* else; a call that fails does not go back either.                        *)
TokensCover ==
  \A position \in 0 .. Len(text) : \A wasInteger \in BOOLEAN :
    (wasInteger => position > 0 /\ text[position] \in Digits) =>
      LET result == NextToken([text |-> text, pos |-> position, wasInteger |-> wasInteger])
          token == result.token
      IN  /\ result.scanner.pos \in position .. Len(text)
          /\ result.error = "" =>
               /\ position <= Begin(token) /\ End(token) = result.scanner.pos
               /\ IF token.type = "end_of_file" THEN End(token) = Len(text)
                                                ELSE Begin(token) < End(token)
               /\ IsSeparation(SubSeq(text, position + 1, Begin(token)))
               /\ IsWhole(token)

(* The tokens are all there is in a text (scanner::next_token): nothing is *)
(* passed over, nothing is read twice.  It is a fact about the text: it is *)
(* enough to look at it when the parser begins.                            *)
TokensCoverTheText == parser.scanner = NewScanner(text) => TokensCover
=============================================================================

--------------------------- MODULE ParsingProofs ---------------------------
(***************************************************************************)
(* For any text, however long: the scanner's tokens cover it, and the      *)
(* parser gets on and reports a line once at most.                         *)
(*                                                                         *)
(* A rule of the grammar is called at a place in the text that is not      *)
(* reached again: by induction on what is left of the text, every call     *)
(* keeps the parser Sound (what comes next is on a later line than what    *)
(* was reported) and does not go back.                                     *)
(***************************************************************************)
EXTENDS Parsing, NaturalInduction, FiniteSetTheorems

-----------------------------------------------------------------------------
(* The longest run of positions in a set. *)
LEMMA MaxIs ==
  ASSUME NEW N \in Nat, NEW T, T \subseteq 0 .. N, T # {}
  PROVE  Max(T) \in T /\ \A x \in T : x <= Max(T)
<1> DEFINE D == {N - x : x \in T}
<1>0. \A x \in T : N - x \in Nat
  OBVIOUS
<1>1. D \subseteq Nat /\ D # {}
  BY <1>0
<1>2. PICK d \in D : \A y \in D : d <= y
  BY <1>1, LeastNatural
<1>3. PICK m \in T : d = N - m
  BY <1>2
<1>4. \A x \in T : m >= x
  <2> SUFFICES ASSUME NEW x \in T PROVE m >= x
    OBVIOUS
  <2>1. N - x \in D
    OBVIOUS
  <2>2. d <= N - x
    BY <1>2, <2>1
  <2>3. m \in Nat /\ x \in Nat
    OBVIOUS
  <2> HIDE DEF D
  <2> QED BY <1>3, <2>2, <2>3
<1> HIDE DEF D
<1>5. Max(T) \in T /\ \A x \in T : Max(T) >= x
  BY <1>3, <1>4 DEF Max
<1> QED BY <1>5

LongestRun(from, to, A) == Max({n \in from .. to : \A i \in from .. n - 1 : i \in A})

LEMMA RunIs ==
  ASSUME NEW from \in Nat, NEW to \in Nat, from <= to, NEW A
  PROVE  /\ LongestRun(from, to, A) \in from .. to
         /\ \A i \in from .. LongestRun(from, to, A) - 1 : i \in A
         /\ LongestRun(from, to, A) < to => LongestRun(from, to, A) \notin A
         /\ from < to /\ from \in A => from < LongestRun(from, to, A)
<1> DEFINE T == {n \in from .. to : \A i \in from .. n - 1 : i \in A}
           end == LongestRun(from, to, A)
<1>1. T \subseteq 0 .. to /\ from \in T
  OBVIOUS
<1>2. end \in T /\ \A x \in T : x <= end
  BY <1>1, MaxIs DEF LongestRun
<1> HIDE DEF end
<1>3. end < to => end \notin A
  <2> SUFFICES ASSUME end < to, end \in A PROVE FALSE
    OBVIOUS
  <2>1. end + 1 \in T
    BY <1>2
  <2> QED BY <1>2, <2>1
<1> USE DEF end
<1> QED BY <1>2, <1>3

-----------------------------------------------------------------------------
(* A scanner somewhere in a text. *)
Scanners(t) == [text : {t}, pos : 0 .. Len(t), wasInteger : BOOLEAN]

LEMMA GapIs ==
  ASSUME NEW S, NEW t \in Seq(S), NEW from \in 0 .. Len(t), NEW to \in from .. Len(t)
  PROVE  /\ DOMAIN SubSeq(t, from + 1, to) = 1 .. to - from
         /\ \A i \in 1 .. to - from : SubSeq(t, from + 1, to)[i] = t[from + i]
OBVIOUS

LEMMA SkipIs ==
  ASSUME NEW S, NEW t \in Seq(S), NEW s \in Scanners(t), NEW r, r = SkipWhitespace(s)
  PROVE  /\ r \in Scanners(t)
         /\ s.pos <= r.pos
         /\ IsSeparation(SubSeq(t, s.pos + 1, r.pos))
         /\ r.pos < Len(t) => Character(s, r.pos) \notin Whitespace
         /\ s.pos < Len(t) /\ Character(s, s.pos) \in Whitespace => s.pos < r.pos
<1> DEFINE InComment(i) ==
             \E j \in s.pos .. i : /\ Character(s, j) = ";"
                                   /\ \A k \in j .. i : Character(s, k) # "\n"
           A == {i \in Int : Character(s, i) \in Whitespace \/ InComment(i)}
           end == LongestRun(s.pos, Len(t), A)
<1>1. s.text = t /\ s.pos \in 0 .. Len(t) /\ Len(t) \in Nat
  BY DEF Scanners
<1>2. \A n \in s.pos .. Len(t) : \A i \in s.pos .. n - 1 :
        i \in A <=> Character(s, i) \in Whitespace \/ InComment(i)
  BY <1>1
<1>3. {n \in s.pos .. Len(t) : \A i \in s.pos .. n - 1 : i \in A}
        = {n \in s.pos .. Len(s.text) :
             \A i \in s.pos .. n - 1 : Character(s, i) \in Whitespace \/ InComment(i)}
  BY <1>1, <1>2
<1>4. r = [s EXCEPT !.pos = end, !.wasInteger = @ /\ end = s.pos]
  BY <1>3 DEF SkipWhitespace, RunEnd, LongestRun
<1> HIDE DEF A
<1>5. /\ end \in s.pos .. Len(t)
      /\ \A i \in s.pos .. end - 1 : i \in A
      /\ end < Len(t) => end \notin A
      /\ s.pos < Len(t) /\ s.pos \in A => s.pos < end
  <2>1. s.pos \in Nat /\ Len(t) \in Nat /\ s.pos <= Len(t)
    BY <1>1
  <2> QED BY <2>1, RunIs
<1> HIDE DEF end
<1>6. r \in Scanners(t) /\ r.pos = end
  <2>1. end \in 0 .. Len(t)
    BY <1>1, <1>5
  <2>2. (s.wasInteger /\ end = s.pos) \in BOOLEAN
    OBVIOUS
  <2>3. r = [text |-> s.text, pos |-> end, wasInteger |-> s.wasInteger /\ end = s.pos]
    BY <1>4 DEF Scanners
  <2> QED BY <1>1, <2>1, <2>2, <2>3 DEF Scanners
<1>7. IsSeparation(SubSeq(t, s.pos + 1, end))
  <2> DEFINE gap == SubSeq(t, s.pos + 1, end)
  <2>1. /\ DOMAIN gap = 1 .. end - s.pos
        /\ \A i \in 1 .. end - s.pos : gap[i] = t[s.pos + i]
    BY <1>1, <1>5, GapIs
  <2> SUFFICES ASSUME NEW i \in DOMAIN gap
               PROVE  \/ gap[i] \in Whitespace
                      \/ \E j \in 1 .. i : gap[j] = ";" /\ \A k \in j .. i : gap[k] # "\n"
    BY DEF IsSeparation
  <2> HIDE DEF gap
  <2>2. \A k \in 1 .. i : gap[k] = Character(s, s.pos + k - 1)
    BY <1>1, <1>5, <2>1 DEF Character
  <2>3. s.pos + i - 1 \in A /\ i \in Nat /\ i >= 1
    BY <1>1, <1>5, <2>1
  <2>4. CASE Character(s, s.pos + i - 1) \in Whitespace
    <3>1. i \in 1 .. i
      BY <2>3
    <3> QED BY <2>2, <2>4, <3>1
  <2>5. CASE InComment(s.pos + i - 1)
    <3>1. PICK j \in s.pos .. s.pos + i - 1 :
            /\ Character(s, j) = ";"
            /\ \A k \in j .. s.pos + i - 1 : Character(s, k) # "\n"
      BY <2>5
    <3>2. j - s.pos + 1 \in 1 .. i /\ s.pos + (j - s.pos + 1) - 1 = j
      BY <1>1, <2>3
    <3>3. gap[j - s.pos + 1] = ";"
      BY <2>2, <3>1, <3>2
    <3>4. ASSUME NEW k \in j - s.pos + 1 .. i PROVE gap[k] # "\n"
      <4>1. k \in 1 .. i /\ s.pos + k - 1 \in j .. s.pos + i - 1
        BY <1>1, <2>3, <3>2
      <4>2. gap[k] = Character(s, s.pos + k - 1)
        BY <2>2, <4>1
      <4>3. Character(s, s.pos + k - 1) # "\n"
        BY <3>1, <4>1, Zenon
      <4> QED BY <4>2, <4>3, Zenon
    <3> QED BY <3>2, <3>3, <3>4
  <2> QED BY <2>3, <2>4, <2>5 DEF A
<1>8. end < Len(t) => Character(s, end) \notin Whitespace
  <2>1. end \in Int
    BY <1>1, <1>5
  <2> QED BY <1>5, <2>1 DEF A
<1>9. s.pos < Len(t) /\ Character(s, s.pos) \in Whitespace => s.pos < end
  <2>1. s.pos \in Int
    BY <1>1
  <2> QED BY <1>5, <2>1 DEF A
<1> QED BY <1>5, <1>6, <1>7, <1>8, <1>9

-----------------------------------------------------------------------------
(* Operators. *)
(* A sequence, of whatever elements. *)
IsSequence(word) == Len(word) \in Nat /\ word = [k \in 1 .. Len(word) |-> word[k]]

LEMMA PrefixIs ==
  ASSUME NEW S, NEW t \in Seq(S), NEW from \in 0 .. Len(t), NEW word, IsSequence(word)
  PROVE  IsPrefix(word, SubSeq(t, from + 1, Len(t))) <=>
           /\ from + Len(word) <= Len(t)
           /\ \A k \in 1 .. Len(word) : t[from + k] = word[k]
<1> DEFINE rest == SubSeq(t, from + 1, Len(t))
           head == SubSeq(rest, 1, Len(word))
<1>1. Len(t) \in Nat /\ Len(word) \in Nat /\ from \in Nat
  BY DEF IsSequence
<1>2. rest \in Seq(S) /\ Len(rest) = Len(t) - from
  OBVIOUS
<1>3. \A k \in 1 .. Len(t) - from : rest[k] = t[from + k]
  OBVIOUS
<1>4. SubSeq(word, 1, Len(word)) = word
  BY DEF IsSequence
<1> HIDE DEF rest
<1>5. ASSUME Len(word) <= Len(rest)
      PROVE  head = word <=> \A k \in 1 .. Len(word) : t[from + k] = word[k]
  <2>1. /\ head = [k \in 1 .. Len(word) |-> rest[k]]
    BY <1>1, <1>2, <1>5
  <2>2. word = [k \in 1 .. Len(word) |-> word[k]]
    BY DEF IsSequence
  <2>3. \A k \in 1 .. Len(word) : rest[k] = t[from + k]
    BY <1>1, <1>2, <1>3, <1>5
  <2> HIDE DEF head
  <2> QED BY <2>1, <2>2, <2>3
<1> HIDE DEF head
<1>6. IsPrefix(word, rest) <=> Len(word) <= Len(rest) /\ word = head
  BY <1>4 DEF IsPrefix, head
<1>7. Len(word) <= Len(rest) <=> from + Len(word) <= Len(t)
  BY <1>1, <1>2
<1> QED BY <1>5, <1>6, <1>7 DEF rest

LEMMA LongOperatorsAre ==
  LongOperators \subseteq
    {<<"<", "<">>, <<">", ">">>, <<">", ">", ">">>, <<"<", "=">>, <<">", "=">>, <<"=", "=">>,
     <<"!", "=">>, <<"&", "&">>, <<"|", "|">>}
<1> SUFFICES ASSUME NEW o \in DOMAIN Symbol, Len(Symbol[o]) > 1
             PROVE  Symbol[o] \in
                      {<<"<", "<">>, <<">", ">">>, <<">", ">", ">">>, <<"<", "=">>, <<">", "=">>,
                       <<"=", "=">>, <<"!", "=">>, <<"&", "&">>, <<"|", "|">>}
  BY DEF LongOperators
<1>1. DOMAIN Symbol = {"mul", "div", "mod", "add", "sub", "shift_left", "shift_right", "shift_signed",
        "less", "less_equal", "greater", "greater_equal", "equal", "not_equal", "and", "xor", "or",
        "logical_and", "logical_or", "negate", "not", "invert"}
  BY DEF Symbol
<1> QED BY <1>1 DEF Symbol

LEMMA MinIs ==
  ASSUME NEW T, T \subseteq Nat, T # {}
  PROVE  Min(T) \in T /\ \A x \in T : Min(T) <= x
<1>1. PICK m \in T : \A x \in T : m <= x
  BY LeastNatural
<1> QED BY <1>1 DEF Min

LEMMA PairIs ==
  ASSUME NEW x, NEW y
  PROVE  IsSequence(<<x, y>>) /\ Len(<<x, y>>) = 2
BY DEF IsSequence

LEMMA TripleIs ==
  ASSUME NEW x, NEW y, NEW z
  PROVE  IsSequence(<<x, y, z>>) /\ Len(<<x, y, z>>) = 3
BY DEF IsSequence

(* How a text goes on where an operator of several characters is. *)
LEMMA OperatorIs ==
  ASSUME NEW S, text \in Seq(S), NEW from \in 0 .. Len(text), NEW longer \in LongOperators,
         IsPrefix(longer, SubSeq(text, from + 1, Len(text)))
  PROVE  \/ /\ Len(longer) = 2 /\ from + 2 <= Len(text)
            /\ <<text[from + 1], text[from + 2]>> \in
                 {<<"<", "<">>, <<">", ">">>, <<"<", "=">>, <<">", "=">>, <<"=", "=">>,
                  <<"!", "=">>, <<"&", "&">>, <<"|", "|">>}
         \/ /\ Len(longer) = 3 /\ from + 3 <= Len(text)
            /\ text[from + 1] = ">" /\ text[from + 2] = ">" /\ text[from + 3] = ">"
<1>1. IsSequence(longer)
  <2>1. CASE longer = <<">", ">", ">">>
    BY <2>1, TripleIs
  <2>2. CASE longer # <<">", ">", ">">>
    <3>1. \E x, y : longer = <<x, y>>
      BY <2>2, LongOperatorsAre, Zenon
    <3> QED BY <3>1, PairIs, Zenon
  <2> QED BY <2>1, <2>2
<1>2. /\ from + Len(longer) <= Len(text)
      /\ \A k \in 1 .. Len(longer) : text[from + k] = longer[k]
  BY <1>1, PrefixIs
<1>3. CASE longer = <<">", ">", ">">>
  <2>1. Len(longer) = 3 /\ longer[1] = ">" /\ longer[2] = ">" /\ longer[3] = ">"
    BY <1>3
  <2>2. text[from + 1] = longer[1] /\ text[from + 2] = longer[2] /\ text[from + 3] = longer[3]
    BY <1>2, <2>1
  <2> QED BY <1>2, <2>1, <2>2
<1>4. CASE longer # <<">", ">", ">">>
  <2> DEFINE pairs == {<<"<", "<">>, <<">", ">">>, <<"<", "=">>, <<">", "=">>, <<"=", "=">>,
                       <<"!", "=">>, <<"&", "&">>, <<"|", "|">>}
  <2>1. longer \in pairs
    BY <1>4, LongOperatorsAre
  <2>2. Len(longer) = 2 /\ longer = <<longer[1], longer[2]>>
    BY <2>1
  <2> HIDE DEF pairs
  <2>3. text[from + 1] = longer[1] /\ text[from + 2] = longer[2]
    BY <1>2, <2>2
  <2>4. <<text[from + 1], text[from + 2]>> \in pairs
    BY <2>1, <2>2, <2>3
  <2> QED BY <1>2, <2>2, <2>4 DEF pairs
<1> QED BY <1>3, <1>4

-----------------------------------------------------------------------------
(* The result of reading one token from its first character on. *)
LEMMA FoundIs ==
  ASSUME NEW u \in Scanners(text), NEW token, NEW pos
  PROVE  Found(u, token, pos).scanner.pos = pos /\ Found(u, token, pos).token = token
BY DEF Found, Scanners

LEMMA ScanErrorIs ==
  ASSUME NEW u \in Scanners(text), NEW error, NEW pos
  PROVE  ScanError(u, error, pos).scanner.pos = pos /\ ScanError(u, error, pos).error = error
BY DEF ScanError, Scanners

IsGood(u, result) ==
  /\ result.scanner.pos \in u.pos .. Len(text)
  /\ result.error = "" =>
       /\ Begin(result.token) = u.pos /\ End(result.token) = result.scanner.pos
       /\ u.pos < result.scanner.pos /\ result.token.type # "end_of_file"
       /\ IsWhole(result.token)

LEMMA SingleIsGood ==
  ASSUME NEW S, text \in Seq(S), NEW u \in Scanners(text), u.pos < Len(text),
         FirstCharacter(u) \in SingleCharTokens \cup {"<", ">", "=", "!", "&", "|"},
         ~ /\ u.pos + 2 <= Len(text)
           /\ <<text[u.pos + 1], text[u.pos + 2]>> \in
                 {<<"<", "<">>, <<">", ">">>, <<"<", "=">>, <<">", "=">>, <<"=", "=">>,
                  <<"!", "=">>, <<"&", "&">>, <<"|", "|">>}
  PROVE  IsGood(u, EatSingleCharToken(u))
<1> DEFINE c == FirstCharacter(u)
           next == u.pos + 1
           token == Token(c, u.pos, next)
<1>1. u.pos \in Nat /\ u.text = text /\ Len(text) \in Nat
  BY DEF Scanners
<1>2. c \notin {"string", ">>>", "identifier", "integer", "end_of_file"} \cup Keywords
  BY DEF SingleCharTokens, Keywords
<1>3. EatSingleCharToken(u) = Found(u, token, next)
  BY DEF EatSingleCharToken
<1>10. next = u.pos + 1
  OBVIOUS
<1> HIDE DEF c, next
<1>4. token.type = c /\ token.from = u.pos /\ token.to = next
  BY DEF Token
<1> HIDE DEF token
<1>5. /\ EatSingleCharToken(u).scanner.pos = next
      /\ EatSingleCharToken(u).token = token
  BY <1>3, FoundIs
<1>6. Begin(token) = u.pos /\ End(token) = next
  BY <1>2, <1>4 DEF Begin, End
<1>7. IsWhole(token)
  <2>1. ASSUME NEW longer \in LongOperators,
               IsPrefix(longer, SubSeq(text, u.pos + 1, Len(text)))
        PROVE  FALSE
    BY <1>1, <2>1, OperatorIs
  <2> QED BY <1>2, <1>4, <1>6, <2>1 DEF IsWhole
<1>8. next \in u.pos .. Len(text) /\ u.pos < next
  BY <1>1, <1>10
<1>9. token.type # "end_of_file"
  BY <1>2, <1>4
<1> QED BY <1>5, <1>6, <1>7, <1>8, <1>9, Zenon DEF IsGood

LEMMA ContinuationsAre ==
  ASSUME NEW c
  PROVE  /\ c = "=" => Continuations(c) = <<<<<<"=">>, "==">>>>
         /\ c = "&" => Continuations(c) = <<<<<<"&">>, "&&">>>>
         /\ c = "|" => Continuations(c) = <<<<<<"|">>, "||">>>>
         /\ c = "!" => Continuations(c) = <<<<<<"=">>, "!=">>>>
         /\ c = "<" => Continuations(c) = <<<<<<"<">>, "<<">>, <<<<"=">>, "<=">>>>
         /\ c = ">" => Continuations(c) = <<<<<<">", ">">>, ">>>">>, <<<<">">>, ">>">>, <<<<"=">>, ">=">>>>
         /\ c \notin {"=", "&", "|", "!", "<", ">"} => Continuations(c) = <<>>
BY DEF Continuations

(* What follows a character. *)
LEMMA FollowsIs ==
  ASSUME NEW S, text \in Seq(S), NEW u \in Scanners(text), u.pos < Len(text)
  PROVE  /\ \A c : Follows(u, <<c>>) <=> u.pos + 2 <= Len(text) /\ text[u.pos + 2] = c
         /\ \A c, d : Follows(u, <<c, d>>) <=>
              u.pos + 3 <= Len(text) /\ text[u.pos + 2] = c /\ text[u.pos + 3] = d
<1>1. u.text = text /\ u.pos \in Nat /\ Len(text) \in Nat /\ u.pos + 1 \in 0 .. Len(text)
  BY DEF Scanners
<1>2. \A word : IsSequence(word) =>
        (Follows(u, word) <=> /\ u.pos + 1 + Len(word) <= Len(text)
                              /\ \A k \in 1 .. Len(word) : text[u.pos + 1 + k] = word[k])
  <2> TAKE word
  <2> HAVE IsSequence(word)
  <2> DEFINE from == u.pos + 1
  <2>1. Follows(u, word) <=> IsPrefix(word, SubSeq(text, from + 1, Len(text)))
    <3>1. u.pos + 2 = from + 1
      BY <1>1
    <3> QED BY <1>1, <3>1 DEF Follows
  <2>2. from \in 0 .. Len(text)
    BY <1>1
  <2> HIDE DEF from
  <2>3. IsPrefix(word, SubSeq(text, from + 1, Len(text))) <=>
           /\ from + Len(word) <= Len(text)
           /\ \A k \in 1 .. Len(word) : text[from + k] = word[k]
    BY <2>2, PrefixIs
  <2> QED BY <2>1, <2>3 DEF from
<1>3. ASSUME NEW c
      PROVE  Follows(u, <<c>>) <=> u.pos + 2 <= Len(text) /\ text[u.pos + 2] = c
  <2> DEFINE word == <<c>>
  <2>1. IsSequence(word) /\ Len(word) = 1 /\ word[1] = c
    BY DEF IsSequence
  <2> HIDE DEF word
  <2>2. Follows(u, word) <=> /\ u.pos + 1 + 1 <= Len(text)
                             /\ \A k \in 1 .. 1 : text[u.pos + 1 + k] = word[k]
    BY <1>2, <2>1
  <2>3. u.pos + 1 + 1 = u.pos + 2
    BY <1>1
  <2>4. (\A k \in 1 .. 1 : text[u.pos + 1 + k] = word[k]) <=> text[u.pos + 2] = word[1]
    BY <2>3
  <2> QED BY <2>1, <2>2, <2>3, <2>4 DEF word
<1>4. ASSUME NEW c, NEW d
      PROVE  Follows(u, <<c, d>>) <=>
               u.pos + 3 <= Len(text) /\ text[u.pos + 2] = c /\ text[u.pos + 3] = d
  <2> DEFINE word == <<c, d>>
  <2>1. IsSequence(word) /\ Len(word) = 2 /\ word[1] = c /\ word[2] = d
    BY DEF IsSequence
  <2> HIDE DEF word
  <2>2. Follows(u, word) <=> /\ u.pos + 1 + 2 <= Len(text)
                             /\ \A k \in 1 .. 2 : text[u.pos + 1 + k] = word[k]
    BY <1>2, <2>1
  <2>3. u.pos + 1 + 1 = u.pos + 2 /\ u.pos + 1 + 2 = u.pos + 3
    BY <1>1
  <2>4. (\A k \in 1 .. 2 : text[u.pos + 1 + k] = word[k]) <=>
          text[u.pos + 2] = word[1] /\ text[u.pos + 3] = word[2]
    BY <2>3
  <2> QED BY <2>1, <2>2, <2>3, <2>4 DEF word
<1> QED BY <1>3, <1>4

(* The first alternative that follows is taken. *)
Taken(u, alternative) ==
  Found(u, Token(alternative[2],
                 IF Len(alternative[1]) = 2 THEN u.pos + 1 ELSE u.pos,
                 u.pos + 1 + Len(alternative[1])),
        u.pos + 1 + Len(alternative[1]))

All(u) == Continuations(FirstCharacter(u))

LEMMA LongTokenIs ==
  ASSUME NEW u, DOMAIN All(u) \subseteq Nat
  PROVE  \/ /\ \A i \in DOMAIN All(u) : ~Follows(u, All(u)[i][1])
            /\ EatLongToken(u) = EatSingleCharToken(u)
         \/ \E i \in DOMAIN All(u) :
              /\ Follows(u, All(u)[i][1])
              /\ \A j \in DOMAIN All(u) : j < i => ~Follows(u, All(u)[j][1])
              /\ EatLongToken(u) = Taken(u, All(u)[i])
<1> DEFINE found == {i \in DOMAIN All(u) : Follows(u, All(u)[i][1])}
           m == Min(found)
<1>1. CASE found = {}
  <2>1. EatLongToken(u) = EatSingleCharToken(u)
    BY <1>1 DEF EatLongToken, All
  <2> QED BY <1>1, <2>1
<1>2. CASE found # {}
  <2>1. EatLongToken(u) = Taken(u, All(u)[m])
    BY <1>2 DEF EatLongToken, Taken, All
  <2>2. found \subseteq Nat
    OBVIOUS
  <2>3. m \in found /\ \A x \in found : m <= x
    BY <1>2, <2>2, MinIs
  <2> HIDE DEF m
  <2>4. ASSUME NEW j \in DOMAIN All(u), j < m PROVE ~Follows(u, All(u)[j][1])
    BY <2>3, <2>4
  <2>5. m \in DOMAIN All(u) /\ Follows(u, All(u)[m][1])
    BY <2>3
  <2> HIDE DEF found
  <2> QED BY <2>1, <2>4, <2>5
<1> QED BY <1>1, <1>2

LEMMA OneContinuation ==
  ASSUME NEW u, NEW a, All(u) = <<a>>
  PROVE  \/ ~Follows(u, a[1]) /\ EatLongToken(u) = EatSingleCharToken(u)
         \/ Follows(u, a[1]) /\ EatLongToken(u) = Taken(u, a)
<1>1. DOMAIN All(u) = 1 .. 1 /\ All(u)[1] = a
  OBVIOUS
<1>2. DOMAIN All(u) \subseteq Nat /\ \A i : i \in DOMAIN All(u) <=> i = 1
  BY <1>1
<1>3. \/ /\ \A i \in DOMAIN All(u) : ~Follows(u, All(u)[i][1])
         /\ EatLongToken(u) = EatSingleCharToken(u)
      \/ \E i \in DOMAIN All(u) :
           /\ Follows(u, All(u)[i][1])
           /\ \A j \in DOMAIN All(u) : j < i => ~Follows(u, All(u)[j][1])
           /\ EatLongToken(u) = Taken(u, All(u)[i])
  BY <1>2, LongTokenIs
<1> QED BY <1>1, <1>2, <1>3, Zenon

LEMMA TwoContinuations ==
  ASSUME NEW u, NEW a, NEW b, All(u) = <<a, b>>
  PROVE  \/ ~Follows(u, a[1]) /\ ~Follows(u, b[1]) /\ EatLongToken(u) = EatSingleCharToken(u)
         \/ Follows(u, a[1]) /\ EatLongToken(u) = Taken(u, a)
         \/ ~Follows(u, a[1]) /\ Follows(u, b[1]) /\ EatLongToken(u) = Taken(u, b)
<1>1. DOMAIN All(u) = 1 .. 2 /\ All(u)[1] = a /\ All(u)[2] = b
  OBVIOUS
<1>2. DOMAIN All(u) \subseteq Nat /\ \A i : i \in DOMAIN All(u) <=> i = 1 \/ i = 2
  BY <1>1
<1>3. 1 < 2
  OBVIOUS
<1>4. \/ /\ \A i \in DOMAIN All(u) : ~Follows(u, All(u)[i][1])
         /\ EatLongToken(u) = EatSingleCharToken(u)
      \/ \E i \in DOMAIN All(u) :
           /\ Follows(u, All(u)[i][1])
           /\ \A j \in DOMAIN All(u) : j < i => ~Follows(u, All(u)[j][1])
           /\ EatLongToken(u) = Taken(u, All(u)[i])
  BY <1>2, LongTokenIs
<1>5. CASE \A i \in DOMAIN All(u) : ~Follows(u, All(u)[i][1])
  <2>1. ~Follows(u, a[1]) /\ ~Follows(u, b[1])
    BY <1>1, <1>2, <1>5, Zenon
  <2> QED BY <1>4, <1>5, <2>1, Zenon
<1>6. ASSUME NEW i \in DOMAIN All(u), Follows(u, All(u)[i][1]),
             \A j \in DOMAIN All(u) : j < i => ~Follows(u, All(u)[j][1]),
             EatLongToken(u) = Taken(u, All(u)[i])
      PROVE  \/ Follows(u, a[1]) /\ EatLongToken(u) = Taken(u, a)
             \/ ~Follows(u, a[1]) /\ Follows(u, b[1]) /\ EatLongToken(u) = Taken(u, b)
  <2>1. CASE i = 1
    BY <1>1, <1>2, <1>3, <1>6, <2>1, Zenon
  <2>2. CASE i = 2
    BY <1>1, <1>2, <1>3, <1>6, <2>2, Zenon
  <2> QED BY <1>2, <2>1, <2>2, Zenon
<1> QED BY <1>4, <1>5, <1>6, Zenon

LEMMA ThreeContinuations ==
  ASSUME NEW u, NEW a, NEW b, NEW d, All(u) = <<a, b, d>>
  PROVE  \/ /\ ~Follows(u, a[1]) /\ ~Follows(u, b[1]) /\ ~Follows(u, d[1])
            /\ EatLongToken(u) = EatSingleCharToken(u)
         \/ Follows(u, a[1]) /\ EatLongToken(u) = Taken(u, a)
         \/ ~Follows(u, a[1]) /\ Follows(u, b[1]) /\ EatLongToken(u) = Taken(u, b)
         \/ ~Follows(u, a[1]) /\ ~Follows(u, b[1]) /\ Follows(u, d[1]) /\ EatLongToken(u) = Taken(u, d)
<1>1. DOMAIN All(u) = 1 .. 3 /\ All(u)[1] = a /\ All(u)[2] = b /\ All(u)[3] = d
  OBVIOUS
<1>2. DOMAIN All(u) \subseteq Nat /\ \A i : i \in DOMAIN All(u) <=> i = 1 \/ i = 2 \/ i = 3
  BY <1>1
<1>3. 1 < 2 /\ 1 < 3 /\ 2 < 3
  OBVIOUS
<1>4. \/ /\ \A i \in DOMAIN All(u) : ~Follows(u, All(u)[i][1])
         /\ EatLongToken(u) = EatSingleCharToken(u)
      \/ \E i \in DOMAIN All(u) :
           /\ Follows(u, All(u)[i][1])
           /\ \A j \in DOMAIN All(u) : j < i => ~Follows(u, All(u)[j][1])
           /\ EatLongToken(u) = Taken(u, All(u)[i])
  BY <1>2, LongTokenIs
<1>5. CASE \A i \in DOMAIN All(u) : ~Follows(u, All(u)[i][1])
  <2>1. ~Follows(u, a[1]) /\ ~Follows(u, b[1]) /\ ~Follows(u, d[1])
    BY <1>1, <1>2, <1>5, Zenon
  <2> QED BY <1>4, <1>5, <2>1, Zenon
<1>6. ASSUME NEW i \in DOMAIN All(u), Follows(u, All(u)[i][1]),
             \A j \in DOMAIN All(u) : j < i => ~Follows(u, All(u)[j][1]),
             EatLongToken(u) = Taken(u, All(u)[i])
      PROVE  \/ Follows(u, a[1]) /\ EatLongToken(u) = Taken(u, a)
             \/ ~Follows(u, a[1]) /\ Follows(u, b[1]) /\ EatLongToken(u) = Taken(u, b)
             \/ ~Follows(u, a[1]) /\ ~Follows(u, b[1]) /\ Follows(u, d[1]) /\ EatLongToken(u) = Taken(u, d)
  <2>1. CASE i = 1
    BY <1>1, <1>2, <1>3, <1>6, <2>1, Zenon
  <2>2. CASE i = 2
    BY <1>1, <1>2, <1>3, <1>6, <2>2, Zenon
  <2>3. CASE i = 3
    BY <1>1, <1>2, <1>3, <1>6, <2>3, Zenon
  <2> QED BY <1>2, <2>1, <2>2, <2>3, Zenon
<1> QED BY <1>4, <1>5, <1>6, Zenon

LEMMA TwoIsGood ==
  ASSUME NEW S, text \in Seq(S), NEW u \in Scanners(text), u.pos + 2 <= Len(text), NEW type,
         type \notin {"string", ">>>", "identifier", "integer", "end_of_file"} \cup Keywords,
         ~ /\ u.pos + 3 <= Len(text)
           /\ text[u.pos + 1] = ">" /\ text[u.pos + 2] = ">" /\ text[u.pos + 3] = ">"
  PROVE  IsGood(u, Found(u, Token(type, u.pos, u.pos + 2), u.pos + 2))
<1> DEFINE next == u.pos + 2
           token == Token(type, u.pos, next)
           result == Found(u, token, next)
<1>1. u.pos \in Nat /\ u.text = text /\ Len(text) \in Nat /\ u.pos \in 0 .. Len(text)
  BY DEF Scanners
<1>2. next = u.pos + 2
  OBVIOUS
<1> HIDE DEF next
<1>3. token.type = type /\ token.from = u.pos /\ token.to = next
  BY DEF Token
<1> HIDE DEF token
<1>4. result.scanner.pos = next /\ result.token = token
  BY FoundIs
<1> HIDE DEF result
<1>5. Begin(token) = u.pos /\ End(token) = next
  BY <1>3 DEF Begin, End
<1>6. IsWhole(token)
  <2>1. ASSUME NEW longer \in LongOperators,
               IsPrefix(longer, SubSeq(text, u.pos + 1, Len(text)))
        PROVE  Len(longer) <= next - u.pos
    <3>1. Len(longer) = 2
      BY <1>1, <2>1, OperatorIs
    <3> QED BY <1>1, <1>2, <3>1
  <2> QED BY <1>3, <1>5, <2>1 DEF IsWhole
<1>7. next \in u.pos .. Len(text) /\ u.pos < next
  BY <1>1, <1>2
<1>8. token.type # "end_of_file"
  BY <1>3
<1>9. IsGood(u, result)
  BY <1>4, <1>5, <1>6, <1>7, <1>8, Zenon DEF IsGood
<1> QED BY <1>9 DEF result, token, next

LEMMA ThreeIsGood ==
  ASSUME NEW S, text \in Seq(S), NEW u \in Scanners(text), u.pos + 3 <= Len(text)
  PROVE  IsGood(u, Found(u, Token(">>>", u.pos + 1, u.pos + 3), u.pos + 3))
<1> DEFINE next == u.pos + 3
           token == Token(">>>", u.pos + 1, next)
           result == Found(u, token, next)
<1>1. u.pos \in Nat /\ u.text = text /\ Len(text) \in Nat /\ u.pos \in 0 .. Len(text)
  BY DEF Scanners
<1>2. next = u.pos + 3
  OBVIOUS
<1> HIDE DEF next
<1>3. token.type = ">>>" /\ token.from = u.pos + 1 /\ token.to = next
  BY DEF Token
<1> HIDE DEF token
<1>4. result.scanner.pos = next /\ result.token = token
  BY FoundIs
<1> HIDE DEF result
<1>5. Begin(token) = u.pos /\ End(token) = next
  BY <1>1, <1>3 DEF Begin, End
<1>6. IsWhole(token)
  <2>1. ASSUME NEW longer \in LongOperators,
               IsPrefix(longer, SubSeq(text, u.pos + 1, Len(text)))
        PROVE  Len(longer) <= next - u.pos
    <3>1. Len(longer) = 2 \/ Len(longer) = 3
      BY <1>1, <2>1, OperatorIs
    <3>2. next - u.pos = 3
      BY <1>1, <1>2
    <3>3. CASE Len(longer) = 2
      BY <3>2, <3>3
    <3>4. CASE Len(longer) = 3
      BY <3>2, <3>4
    <3> QED BY <3>1, <3>3, <3>4
  <2>2. token.type \notin Keywords \cup {"identifier", "integer"}
    BY <1>3 DEF Keywords
  <2> QED BY <1>5, <2>1, <2>2 DEF IsWhole
<1>7. next \in u.pos .. Len(text) /\ u.pos < next
  BY <1>1, <1>2
<1>8. token.type # "end_of_file"
  BY <1>3
<1>9. IsGood(u, result)
  BY <1>4, <1>5, <1>6, <1>7, <1>8, Zenon DEF IsGood
<1> QED BY <1>9 DEF result, token, next

(* The operators of several characters. *)
LEMMA LongIsGood ==
  ASSUME NEW S, text \in Seq(S), NEW u \in Scanners(text), u.pos < Len(text),
         FirstCharacter(u) \in {"=", "&", "|", "!", "<", ">"}
  PROVE  IsGood(u, EatLongToken(u))
<1> DEFINE c == FirstCharacter(u)
           IsPair == /\ u.pos + 2 <= Len(text)
                     /\ <<text[u.pos + 1], text[u.pos + 2]>> \in
                          {<<"<", "<">>, <<">", ">">>, <<"<", "=">>, <<">", "=">>, <<"=", "=">>,
                           <<"!", "=">>, <<"&", "&">>, <<"|", "|">>}
           IsTriple == /\ u.pos + 3 <= Len(text)
                       /\ text[u.pos + 1] = ">" /\ text[u.pos + 2] = ">" /\ text[u.pos + 3] = ">"
           Short(d, type) == <<<<d>>, type>>
           Long == <<<<">", ">">>, ">>>">>
           Types == {"==", "&&", "||", "!=", "<<", "<=", ">>", ">="}
<1>1. /\ u.pos \in Nat /\ u.text = text /\ Len(text) \in Nat
      /\ c = text[u.pos + 1]
  BY DEF Scanners, FirstCharacter, Character
<1>2. ~IsPair => IsGood(u, EatSingleCharToken(u))
  BY SingleIsGood
<1>3. ASSUME NEW d, NEW type \in Types, Follows(u, Short(d, type)[1]), ~IsTriple
      PROVE  IsGood(u, Taken(u, Short(d, type)))
  <2>1. Follows(u, <<d>>)
    BY <1>3
  <2>2. u.pos + 2 <= Len(text)
    BY <2>1, FollowsIs, Zenon
  <2>3. Len(Short(d, type)[1]) = 1 /\ Short(d, type)[2] = type
    OBVIOUS
  <2>4. u.pos + 1 + 1 = u.pos + 2
    BY <1>1
  <2> HIDE DEF Short
  <2>5. Taken(u, Short(d, type)) = Found(u, Token(type, u.pos, u.pos + 2), u.pos + 2)
    BY <2>3, <2>4 DEF Taken
  <2>6. type \notin {"string", ">>>", "identifier", "integer", "end_of_file"} \cup Keywords
    BY DEF Keywords
  <2> QED BY <1>3, <2>2, <2>5, <2>6, TwoIsGood
<1>4. ASSUME Follows(u, Long[1])
      PROVE  IsGood(u, Taken(u, Long))
  <2>1. Follows(u, <<">", ">">>)
    BY <1>4
  <2>2. u.pos + 3 <= Len(text)
    BY <2>1, FollowsIs, Zenon
  <2>3. Len(Long[1]) = 2 /\ Long[2] = ">>>"
    OBVIOUS
  <2>4. u.pos + 1 + 2 = u.pos + 3
    BY <1>1
  <2> HIDE DEF Long
  <2>5. Taken(u, Long) = Found(u, Token(">>>", u.pos + 1, u.pos + 3), u.pos + 3)
    BY <2>3, <2>4 DEF Taken
  <2> QED BY <2>2, <2>5, ThreeIsGood
<1>5. \A d, type :
        Follows(u, Short(d, type)[1]) <=> u.pos + 2 <= Len(text) /\ text[u.pos + 2] = d
  <2> TAKE d, type
  <2>1. Short(d, type)[1] = <<d>>
    OBVIOUS
  <2> QED BY <2>1, FollowsIs, Zenon
<1>6. Follows(u, Long[1]) <=>
        u.pos + 3 <= Len(text) /\ text[u.pos + 2] = ">" /\ text[u.pos + 3] = ">"
  <2>1. Long[1] = <<">", ">">>
    OBVIOUS
  <2> QED BY <2>1, FollowsIs, Zenon
<1>7. CASE c = "="
  <2>1. Continuations(c) = <<Short("=", "==")>>
    BY <1>7, ContinuationsAre
  <2>2. ~IsTriple
    BY <1>1, <1>7
  <2>3. IsPair => Follows(u, Short("=", "==")[1])
    BY <1>1, <1>5, <1>7
  <2> HIDE DEF Short, IsPair, IsTriple
  <2> QED BY <1>2, <1>3, <2>1, <2>2, <2>3, OneContinuation DEF All
<1>8. CASE c = "&"
  <2>1. Continuations(c) = <<Short("&", "&&")>>
    BY <1>8, ContinuationsAre
  <2>2. ~IsTriple
    BY <1>1, <1>8
  <2>3. IsPair => Follows(u, Short("&", "&&")[1])
    BY <1>1, <1>5, <1>8
  <2> HIDE DEF Short, IsPair, IsTriple
  <2> QED BY <1>2, <1>3, <2>1, <2>2, <2>3, OneContinuation DEF All
<1>9. CASE c = "|"
  <2>1. Continuations(c) = <<Short("|", "||")>>
    BY <1>9, ContinuationsAre
  <2>2. ~IsTriple
    BY <1>1, <1>9
  <2>3. IsPair => Follows(u, Short("|", "||")[1])
    BY <1>1, <1>5, <1>9
  <2> HIDE DEF Short, IsPair, IsTriple
  <2> QED BY <1>2, <1>3, <2>1, <2>2, <2>3, OneContinuation DEF All
<1>10. CASE c = "!"
  <2>1. Continuations(c) = <<Short("=", "!=")>>
    BY <1>10, ContinuationsAre
  <2>2. ~IsTriple
    BY <1>1, <1>10
  <2>3. IsPair => Follows(u, Short("=", "!=")[1])
    BY <1>1, <1>5, <1>10
  <2> HIDE DEF Short, IsPair, IsTriple
  <2> QED BY <1>2, <1>3, <2>1, <2>2, <2>3, OneContinuation DEF All
<1>11. CASE c = "<"
  <2>1. Continuations(c) = <<Short("<", "<<"), Short("=", "<=")>>
    BY <1>11, ContinuationsAre
  <2>2. ~IsTriple
    BY <1>1, <1>11
  <2>3. IsPair => Follows(u, Short("<", "<<")[1]) \/ Follows(u, Short("=", "<=")[1])
    BY <1>1, <1>5, <1>11
  <2> HIDE DEF Short, IsPair, IsTriple
  <2> QED BY <1>2, <1>3, <2>1, <2>2, <2>3, TwoContinuations DEF All
<1>12. CASE c = ">"
  <2>1. Continuations(c) = <<Long, Short(">", ">>"), Short("=", ">=")>>
    BY <1>12, ContinuationsAre
  <2>2. IsTriple => Follows(u, Long[1])
    BY <1>1, <1>6
  <2>3. IsPair => Follows(u, Short(">", ">>")[1]) \/ Follows(u, Short("=", ">=")[1])
    BY <1>1, <1>5, <1>12
  <2> HIDE DEF Long, Short, IsPair, IsTriple
  <2> QED BY <1>2, <1>3, <1>4, <2>1, <2>2, <2>3, ThreeContinuations DEF All
<1> QED BY <1>7, <1>8, <1>9, <1>10, <1>11, <1>12

-----------------------------------------------------------------------------
(* Words and numbers. *)
LEMMA NoOperatorAt ==
  ASSUME NEW S, text \in Seq(S), NEW u \in Scanners(text),
         FirstCharacter(u) \notin {"=", "&", "|", "!", "<", ">"},
         NEW longer \in LongOperators
  PROVE  ~IsPrefix(longer, SubSeq(text, u.pos + 1, Len(text)))
<1>1. u.pos \in 0 .. Len(text) /\ FirstCharacter(u) = text[u.pos + 1]
  BY DEF Scanners, FirstCharacter, Character
<1> QED BY <1>1, OperatorIs

LEMMA WordIsGood ==
  ASSUME NEW S, text \in Seq(S), NEW u \in Scanners(text), u.pos < Len(text),
         Letters(FirstCharacter(u)), NEW wasInteger
  PROVE  IsGood(u, EatWord(u, wasInteger))
<1> DEFINE A == {i \in Int : Letters(Character(u, i)) \/ (i > u.pos /\ Character(u, i) \in Digits)}
           end == LongestRun(u.pos, Len(text), A)
           isKeyword == end = u.pos + 1 /\ FirstCharacter(u) \in Keywords
           token == Token(IF isKeyword THEN FirstCharacter(u) ELSE "identifier", u.pos, end)
           result == Found(u, token, end)
<1>1. u.text = text /\ u.pos \in Nat /\ Len(text) \in Nat /\ u.pos <= Len(text)
  BY DEF Scanners
<1>2. \A n \in u.pos .. Len(text) : \A i \in u.pos .. n - 1 :
        i \in A <=> Letters(Character(u, i)) \/ (i > u.pos /\ Character(u, i) \in Digits)
  BY <1>1
<1>3. {n \in u.pos .. Len(text) : \A i \in u.pos .. n - 1 : i \in A}
        = {n \in u.pos .. Len(u.text) : \A i \in u.pos .. n - 1 :
             Letters(Character(u, i)) \/ (i > u.pos /\ Character(u, i) \in Digits)}
  BY <1>1, <1>2
<1>4. EatWord(u, wasInteger) =
        IF wasInteger THEN ScanError(u, "identifier_after_integer", u.pos) ELSE result
  BY <1>3 DEF EatWord, RunEnd, LongestRun
<1>5. u.pos \in A
  BY <1>1 DEF FirstCharacter
<1>6. /\ end \in u.pos .. Len(text) /\ u.pos < end
      /\ end < Len(text) => end \notin A
  BY <1>1, <1>5, RunIs
<1>7. end < Len(text) => ~Letters(text[end + 1]) /\ text[end + 1] \notin Digits
  <2> HIDE DEF end
  <2>1. end \in Int /\ Character(u, end) = text[end + 1]
    BY <1>1, <1>6 DEF Character
  <2> QED BY <1>1, <1>6, <2>1
<1> HIDE DEF A, end, isKeyword
<1>8. token.type \in Keywords \cup {"identifier"} /\ token.from = u.pos /\ token.to = end
  BY DEF Token, isKeyword
<1> HIDE DEF token
<1>9. token.type \notin {"string", ">>>", "integer", "end_of_file"}
  BY <1>8 DEF Keywords
<1>10. Begin(token) = u.pos /\ End(token) = end
  BY <1>8, <1>9 DEF Begin, End
<1>11. IsWhole(token)
  <2>1. \A longer \in LongOperators : ~IsPrefix(longer, SubSeq(text, u.pos + 1, Len(text)))
    <3>1. FirstCharacter(u) \notin {"=", "&", "|", "!", "<", ">"}
      BY DEF Letters
    <3> QED BY <3>1, NoOperatorAt
  <2> QED BY <1>7, <1>9, <1>10, <2>1 DEF IsWhole
<1>12. result.scanner.pos = end /\ result.token = token
  BY FoundIs
<1>13. IsGood(u, result)
  <2> HIDE DEF result
  <2> QED BY <1>6, <1>9, <1>10, <1>11, <1>12 DEF IsGood
<1> HIDE DEF result
<1>14. CASE wasInteger
  <2> DEFINE failed == ScanError(u, "identifier_after_integer", u.pos)
  <2>1. failed.scanner.pos = u.pos /\ failed.error = "identifier_after_integer"
    BY ScanErrorIs
  <2>2. u.pos \in u.pos .. Len(text)
    BY <1>1
  <2> HIDE DEF failed
  <2>3. IsGood(u, failed)
    BY <2>1, <2>2 DEF IsGood
  <2> QED BY <1>4, <1>14, <2>3 DEF failed
<1> QED BY <1>4, <1>13, <1>14

LEMMA IntegerIsGood ==
  ASSUME NEW S, text \in Seq(S), NEW u \in Scanners(text), u.pos < Len(text),
         FirstCharacter(u) \in Digits
  PROVE  IsGood(u, EatInteger(u))
<1> DEFINE A == {i \in Int : Character(u, i) \in Digits}
           end == LongestRun(u.pos, Len(text), A)
           token == Token("integer", u.pos, end)
           v == [u EXCEPT !.wasInteger = TRUE]
           result == Found(v, token, end)
<1>1. u.text = text /\ u.pos \in Nat /\ Len(text) \in Nat /\ u.pos <= Len(text)
  BY DEF Scanners
<1>2. \A n \in u.pos .. Len(text) : \A i \in u.pos .. n - 1 :
        i \in A <=> Character(u, i) \in Digits
  BY <1>1
<1>3. {n \in u.pos .. Len(text) : \A i \in u.pos .. n - 1 : i \in A}
        = {n \in u.pos .. Len(u.text) : \A i \in u.pos .. n - 1 : Character(u, i) \in Digits}
  BY <1>1, <1>2
<1>4. EatInteger(u) = result
  BY <1>3 DEF EatInteger, RunEnd, LongestRun
<1>5. u.pos \in A
  BY <1>1 DEF FirstCharacter
<1>6. /\ end \in u.pos .. Len(text) /\ u.pos < end
      /\ end < Len(text) => end \notin A
  BY <1>1, <1>5, RunIs
<1>7. end < Len(text) => text[end + 1] \notin Digits
  <2> HIDE DEF end
  <2>1. end \in Int /\ Character(u, end) = text[end + 1]
    BY <1>1, <1>6 DEF Character
  <2> QED BY <1>6, <2>1
<1> HIDE DEF A, end
<1>8. token.type = "integer" /\ token.from = u.pos /\ token.to = end
  BY DEF Token
<1> HIDE DEF token
<1>9. token.type \notin {"string", ">>>", "identifier", "end_of_file"} \cup Keywords
  BY <1>8 DEF Keywords
<1>10. Begin(token) = u.pos /\ End(token) = end
  BY <1>8, <1>9 DEF Begin, End
<1>11. IsWhole(token)
  <2>1. \A longer \in LongOperators : ~IsPrefix(longer, SubSeq(text, u.pos + 1, Len(text)))
    <3>1. FirstCharacter(u) \notin {"=", "&", "|", "!", "<", ">"}
      BY DEF Digits
    <3> QED BY <3>1, NoOperatorAt
  <2> QED BY <1>7, <1>9, <1>10, <2>1 DEF IsWhole
<1>12. v \in Scanners(text)
  BY DEF Scanners
<1> HIDE DEF v
<1>13. result.scanner.pos = end /\ result.token = token
  BY <1>12, FoundIs
<1> HIDE DEF result
<1> QED BY <1>4, <1>6, <1>9, <1>10, <1>11, <1>13 DEF IsGood

-----------------------------------------------------------------------------
(* Strings: what the search for the closing quote says of one position. *)
StringStep(u, i, next, after) ==
  IF i = Len(u.text) THEN ScanError(u, "unexpected_end_of_file", Len(u.text))
  ELSE IF Character(u, i) \in {"\n", "\r"} THEN ScanError(u, "hex_encoding_required", i)
  ELSE IF Character(u, i) = "\\"
    THEN IF i + 1 = Len(u.text) THEN ScanError(u, "unexpected_end_of_file", Len(u.text)) ELSE after
  ELSE IF Character(u, i) = "\"" THEN Found(u, Token("string", u.pos + 1, i), i + 1)
  ELSE next

ReadsString(u, f) ==
  f = [i \in u.pos + 1 .. Len(u.text) |-> StringStep(u, i, f[i + 1], f[i + 2])]

LEMMA EatStringIs ==
  ASSUME NEW u
  PROVE  EatString(u) = (CHOOSE f : ReadsString(u, f))[u.pos + 1]
BY DEF EatString, ReadsString, StringStep

(* All that can be found. *)
StringResults(u) ==
  {ScanError(u, x[1], x[2]) :
     x \in {"unexpected_end_of_file", "hex_encoding_required"} \X (u.pos .. Len(u.text))} \cup
  {Found(u, Token("string", u.pos + 1, i), i + 1) : i \in u.pos + 1 .. Len(u.text) - 1}

LEMMA StringResultsAre ==
  ASSUME NEW S, text \in Seq(S), NEW u \in Scanners(text), u.pos < Len(text)
  PROVE  /\ \A p \in u.pos .. Len(text) :
              /\ ScanError(u, "unexpected_end_of_file", p) \in StringResults(u)
              /\ ScanError(u, "hex_encoding_required", p) \in StringResults(u)
         /\ \A i \in u.pos + 1 .. Len(text) - 1 :
              Found(u, Token("string", u.pos + 1, i), i + 1) \in StringResults(u)
<1>1. u.text = text
  BY DEF Scanners
<1>2. ASSUME NEW e \in {"unexpected_end_of_file", "hex_encoding_required"},
             NEW p \in u.pos .. Len(text)
      PROVE  ScanError(u, e, p) \in StringResults(u)
  <2> DEFINE x == <<e, p>>
  <2>1. /\ x \in {"unexpected_end_of_file", "hex_encoding_required"} \X (u.pos .. Len(u.text))
        /\ x[1] = e /\ x[2] = p
    BY <1>1
  <2> HIDE DEF x
  <2> QED BY <2>1 DEF StringResults
<1> QED BY <1>1, <1>2 DEF StringResults

LEMMA StringStepIs ==
  ASSUME NEW S, text \in Seq(S), NEW u \in Scanners(text), u.pos < Len(text),
         NEW i \in u.pos + 1 .. Len(text), NEW next, NEW after,
         i < Len(text) => next \in StringResults(u),
         i + 1 < Len(text) => after \in StringResults(u)
  PROVE  StringStep(u, i, next, after) \in StringResults(u)
<1>1. u.text = text /\ u.pos \in Nat /\ Len(text) \in Nat
  BY DEF Scanners
<1>2. Len(text) \in u.pos .. Len(text) /\ i \in u.pos .. Len(text) /\ i \in Nat
  BY <1>1
<1>3. i # Len(text) => i < Len(text) /\ i \in u.pos + 1 .. Len(text) - 1
  BY <1>1
<1>4. i # Len(text) /\ i + 1 # Len(text) => i + 1 < Len(text)
  BY <1>1, <1>2
<1> QED BY <1>1, <1>2, <1>3, <1>4, StringResultsAre DEF StringStep

LEMMA StringStepLooks ==
  ASSUME NEW S, text \in Seq(S), NEW u \in Scanners(text), NEW i \in Nat, NEW next, NEW x, NEW y
  PROVE  /\ i = Len(text) => StringStep(u, i, next, x) = ScanError(u, "unexpected_end_of_file", Len(text))
         /\ i + 1 = Len(text) => StringStep(u, i, next, x) = StringStep(u, i, next, y)
<1>1. u.text = text
  BY DEF Scanners
<1> QED BY <1>1 DEF StringStep

(* The search is defined: from the end of the text backwards. *)
LEMMA StringIsRead ==
  ASSUME NEW S, text \in Seq(S), NEW u \in Scanners(text), u.pos < Len(text)
  PROVE  \E f : ReadsString(u, f)
<1> DEFINE R == StringResults(u)
           size == Len(text)
           from == u.pos + 1
           N == size - from
           eof == ScanError(u, "unexpected_end_of_file", size)
           step == [x \in (1 .. N) \X (R \X R) |->
                      <<StringStep(u, size - x[1], x[2][1], x[2][2]), x[2][1]>>]
<1>1. u.text = text /\ u.pos \in Nat /\ size \in Nat /\ N \in Nat /\ from \in Nat /\ from <= size
  BY DEF Scanners
<1>2. eof \in R
  BY <1>1, StringResultsAre
<1>3. \A n \in 1 .. N, next, after \in R : StringStep(u, size - n, next, after) \in R
  <2> TAKE n \in 1 .. N, next, after \in R
  <2>1. size - n \in u.pos + 1 .. size
    BY <1>1
  <2> QED BY <2>1, StringStepIs
<1> HIDE DEF R, eof
<1>4. step \in StepFunctions(N, R \X R)
  <2>1. ASSUME NEW x \in (1 .. N) \X (R \X R)
        PROVE  <<StringStep(u, size - x[1], x[2][1], x[2][2]), x[2][1]>> \in R \X R
    <3>1. x[1] \in 1 .. N /\ x[2][1] \in R /\ x[2][2] \in R
      OBVIOUS
    <3>2. StringStep(u, size - x[1], x[2][1], x[2][2]) \in R
      BY <1>3, <3>1
    <3> QED BY <3>1, <3>2
  <2> HIDE DEF N, size
  <2> QED BY <2>1 DEF StepFunctions
<1>5. \A n \in 1 .. N, p \in R \X R :
        step[<<n, p>>] = <<StringStep(u, size - n, p[1], p[2]), p[1]>>
  OBVIOUS
<1> HIDE DEF N, step
<1>6. PICK g \in [0 .. N -> R \X R] :
        /\ g[0] = <<eof, eof>>
        /\ \A n \in 1 .. N : g[n] = step[<<n, g[n - 1]>>]
  <2>1. Sequences(N, R \X R, <<eof, eof>>, step) # {}
    BY <1>1, <1>2, <1>4, RecursionExists
  <2> QED BY <2>1 DEF Sequences
<1>7. \A n \in 1 .. N : /\ g[n][1] = StringStep(u, size - n, g[n - 1][1], g[n - 1][2])
                        /\ g[n][2] = g[n - 1][1]
  <2> TAKE n \in 1 .. N
  <2>1. g[n - 1] \in R \X R
    BY <1>1, <1>6
  <2>2. g[n] = <<StringStep(u, size - n, g[n - 1][1], g[n - 1][2]), g[n - 1][1]>>
    BY <1>5, <1>6, <2>1
  <2> QED BY <2>2
<1> DEFINE f == [i \in from .. size |-> g[size - i][1]]
<1>8. ASSUME NEW i \in from .. size
      PROVE  f[i] = StringStep(u, i, f[i + 1], f[i + 2])
  <2>1. i \in Nat /\ f[i] = g[size - i][1]
    BY <1>1
  <2>2. CASE i = size
    <3>1. size - i = 0 /\ g[0][1] = eof
      BY <1>1, <1>6, <2>2
    <3>2. StringStep(u, i, f[i + 1], f[i + 2]) = eof
      BY <2>1, <2>2, StringStepLooks DEF eof
    <3> QED BY <2>1, <3>1, <3>2
  <2>3. CASE i # size
    <3> DEFINE n == size - i
    <3>1. n \in 1 .. N /\ size - n = i /\ i + 1 \in from .. size /\ size - (i + 1) = n - 1
      BY <1>1, <2>3 DEF N
    <3>2. f[i + 1] = g[n - 1][1]
      BY <3>1
    <3>3. f[i] = StringStep(u, i, f[i + 1], g[n - 1][2])
      <4> HIDE DEF n
      <4> QED BY <1>7, <2>1, <3>1, <3>2 DEF n
    <3>4. CASE i + 1 = size
      BY <2>1, <3>3, <3>4, StringStepLooks
    <3>5. CASE i + 1 # size
      <4>1. i + 2 \in from .. size /\ n - 1 \in 1 .. N /\ size - (i + 2) = (n - 1) - 1
        BY <1>1, <2>3, <3>5 DEF N
      <4>2. f[i + 2] = g[(n - 1) - 1][1]
        BY <4>1
      <4>3. g[n - 1][2] = g[(n - 1) - 1][1]
        BY <1>7, <4>1
      <4> HIDE DEF f
      <4> QED BY <3>3, <4>2, <4>3
    <3> QED BY <3>4, <3>5
  <2> QED BY <2>2, <2>3
<1>9. f = [i \in from .. size |-> StringStep(u, i, f[i + 1], f[i + 2])]
  <2>1. f = [i \in from .. size |-> f[i]]
    OBVIOUS
  <2> HIDE DEF f
  <2> QED BY <1>8, <2>1
<1> HIDE DEF f
<1> QED BY <1>1, <1>9 DEF ReadsString

LEMMA StringFound ==
  ASSUME NEW S, text \in Seq(S), NEW u \in Scanners(text), u.pos < Len(text)
  PROVE  EatString(u) \in StringResults(u)
<1> DEFINE R == StringResults(u)
           size == Len(text)
           from == u.pos + 1
           N == size - from
           F == CHOOSE f : ReadsString(u, f)
           K == {n \in Nat : n <= N => /\ F[size - n] \in R
                                       /\ n > 0 => F[size - n + 1] \in R}
<1>1. u.text = text /\ u.pos \in Nat /\ size \in Nat /\ N \in Nat /\ from \in Nat /\ from <= size
  BY DEF Scanners
<1>2. ReadsString(u, F)
  <2> HIDE DEF F
  <2> QED BY StringIsRead DEF F
<1> HIDE DEF F
<1>3. \A i \in from .. size : F[i] = StringStep(u, i, F[i + 1], F[i + 2])
  BY <1>1, <1>2 DEF ReadsString
<1>4. \A i \in from .. size :
        (i < size => F[i + 1] \in R) /\ (i + 1 < size => F[i + 2] \in R) => F[i] \in R
  BY <1>3, StringStepIs
<1> HIDE DEF R
<1>5. 0 \in K
  <2>1. size \in from .. size
    BY <1>1
  <2>2. F[size] \in R
    BY <1>1, <1>4, <2>1
  <2> QED BY <1>1, <2>2
<1>6. ASSUME NEW n \in Nat, n \in K PROVE n + 1 \in K
  <2> SUFFICES ASSUME n + 1 <= N
               PROVE  F[size - (n + 1)] \in R /\ F[size - (n + 1) + 1] \in R
    OBVIOUS
  <2> DEFINE i == size - (n + 1)
  <2>1. /\ i \in from .. size /\ i + 1 = size - n /\ i \in Nat
        /\ i + 1 < size => n > 0 /\ i + 2 = size - n + 1
    BY <1>1
  <2>2. F[i + 1] \in R /\ (i + 1 < size => F[i + 2] \in R)
    BY <1>1, <1>6, <2>1
  <2> HIDE DEF i
  <2>3. F[i] \in R
    BY <1>4, <2>1, <2>2
  <2> QED BY <2>2, <2>3 DEF i
<1>7. N \in K
  <2> HIDE DEF K
  <2> QED BY <1>1, <1>5, <1>6, InductionOnNat
<1>8. F[from] \in R
  <2>1. size - N = from
    BY <1>1
  <2> HIDE DEF N
  <2> QED BY <1>1, <1>7, <2>1
<1> QED BY <1>8, EatStringIs DEF F, R

LEMMA StringIsGood ==
  ASSUME NEW S, text \in Seq(S), NEW u \in Scanners(text), u.pos < Len(text),
         FirstCharacter(u) \notin {"=", "&", "|", "!", "<", ">"}
  PROVE  IsGood(u, EatString(u))
<1>1. u.text = text /\ u.pos \in Nat /\ Len(text) \in Nat
  BY DEF Scanners
<1>2. ASSUME NEW e \in {"unexpected_end_of_file", "hex_encoding_required"},
             NEW p \in u.pos .. Len(text)
      PROVE  IsGood(u, ScanError(u, e, p))
  <2> DEFINE failed == ScanError(u, e, p)
  <2>1. failed.scanner.pos = p /\ failed.error = e
    BY ScanErrorIs
  <2> HIDE DEF failed
  <2>2. failed.error # ""
    BY <2>1
  <2>3. IsGood(u, failed)
    BY <2>1, <2>2 DEF IsGood
  <2> QED BY <2>3 DEF failed
<1>3. ASSUME NEW i \in u.pos + 1 .. Len(text) - 1
      PROVE  IsGood(u, Found(u, Token("string", u.pos + 1, i), i + 1))
  <2> DEFINE next == i + 1
             token == Token("string", u.pos + 1, i)
             result == Found(u, token, next)
  <2>1. next \in u.pos .. Len(text) /\ u.pos < next
    BY <1>1
  <2>2. token.type = "string" /\ token.from = u.pos + 1 /\ token.to = i
    BY DEF Token
  <2> HIDE DEF token
  <2>3. Begin(token) = u.pos /\ End(token) = next
    BY <1>1, <2>2 DEF Begin, End
  <2> HIDE DEF next
  <2>4. result.scanner.pos = next /\ result.token = token
    BY FoundIs
  <2> HIDE DEF result
  <2>5. token.type \notin Keywords \cup {"identifier", "integer", "end_of_file"}
    BY <2>2 DEF Keywords
  <2>6. IsWhole(token)
    <3>1. \A longer \in LongOperators : ~IsPrefix(longer, SubSeq(text, u.pos + 1, Len(text)))
      BY NoOperatorAt
    <3> QED BY <2>3, <2>5, <3>1 DEF IsWhole
  <2>7. IsGood(u, result)
    BY <2>1, <2>3, <2>4, <2>5, <2>6 DEF IsGood
  <2> QED BY <2>7 DEF result, token, next
<1>4. PICK r \in StringResults(u) : EatString(u) = r
  BY StringFound
<1>5. \/ \E e \in {"unexpected_end_of_file", "hex_encoding_required"}, p \in u.pos .. Len(text) :
           r = ScanError(u, e, p)
      \/ \E i \in u.pos + 1 .. Len(text) - 1 : r = Found(u, Token("string", u.pos + 1, i), i + 1)
  BY <1>1, <1>4 DEF StringResults
<1> QED BY <1>2, <1>3, <1>4, <1>5

-----------------------------------------------------------------------------
(* What the scanner does with one character. *)
LEMMA ContinuesIs ==
  ASSUME NEW c, Continuations(c) # <<>>
  PROVE  c \in {"=", "&", "|", "!", "<", ">"}
BY ContinuationsAre

NextWith(scanner, quote) ==
  LET s == SkipWhitespace(scanner)
      t == [s EXCEPT !.wasInteger = FALSE]
      c == FirstCharacter(s)
  IN  CASE AtEnd(s)                     -> Found(s, Token("end_of_file", s.pos, s.pos), s.pos)
        [] ~AtEnd(s) /\ c \in SingleCharTokens -> EatSingleCharToken(t)
        [] ~AtEnd(s) /\ Continuations(c) # <<>> -> EatLongToken(t)
        [] ~AtEnd(s) /\ c = quote       -> EatString(t)
        [] ~AtEnd(s) /\ Letters(c)      -> EatWord(t, s.wasInteger)
        [] ~AtEnd(s) /\ c \in Digits    -> EatInteger(t)
        [] OTHER                        -> ScanError(t, "unexpected_character", t.pos)

LEMMA NextIs ==
  ASSUME NEW scanner
  PROVE  \E quote :
           /\ NextToken(scanner) = NextWith(scanner, quote)
           /\ quote \notin SingleCharTokens \cup Digits \cup {"=", "&", "|", "!", "<", ">"}
           /\ ~Letters(quote)
<1>1. NextToken(scanner) = NextWith(scanner, "\"")
  BY Zenon DEF NextToken, TokenAt, NextWith
<1>2. "\"" \notin SingleCharTokens \cup Digits \cup {"=", "&", "|", "!", "<", ">"}
  BY Zenon DEF SingleCharTokens, Digits
<1>3. ~Letters("\"")
  BY Zenon DEF Letters
<1> QED BY <1>1, <1>2, <1>3, Zenon

LEMMA NextIsGood ==
  ASSUME NEW S, text \in Seq(S), NEW scanner \in Scanners(text),
         NEW s, s = SkipWhitespace(scanner), ~AtEnd(s),
         NEW u, u = [s EXCEPT !.wasInteger = FALSE]
  PROVE  IsGood(u, NextToken(scanner))
<1> DEFINE c == FirstCharacter(s)
           unexpected == ScanError(u, "unexpected_character", u.pos)
<1>1. s \in Scanners(text)
  BY SkipIs
<1>2. u \in Scanners(text) /\ u.pos = s.pos /\ u.text = s.text /\ s.text = text
  BY <1>1 DEF Scanners
<1>3. u.pos \in Nat /\ Len(text) \in Nat /\ u.pos < Len(text)
  BY <1>1, <1>2 DEF Scanners, AtEnd
<1>4. FirstCharacter(u) = c
  BY <1>2 DEF FirstCharacter, Character
<1>5. c \in SingleCharTokens => IsGood(u, EatSingleCharToken(u))
  <2>1. c \in SingleCharTokens => c \notin {"=", "&", "|", "!", "<", ">"}
    BY DEF SingleCharTokens
  <2>2. c = text[u.pos + 1]
    BY <1>2 DEF FirstCharacter, Character
  <2>3. c \in SingleCharTokens =>
          ~ /\ u.pos + 2 <= Len(text)
            /\ <<text[u.pos + 1], text[u.pos + 2]>> \in
                 {<<"<", "<">>, <<">", ">">>, <<"<", "=">>, <<">", "=">>, <<"=", "=">>,
                  <<"!", "=">>, <<"&", "&">>, <<"|", "|">>}
    BY <2>1, <2>2
  <2> QED BY <1>2, <1>3, <1>4, <2>3, SingleIsGood
<1>6. Continuations(c) # <<>> => IsGood(u, EatLongToken(u))
  BY <1>2, <1>3, <1>4, ContinuesIs, LongIsGood
<1>7. Continuations(c) = <<>> => IsGood(u, EatString(u))
  <2>1. Continuations(c) = <<>> => c \notin {"=", "&", "|", "!", "<", ">"}
    BY ContinuationsAre
  <2> QED BY <1>2, <1>3, <1>4, <2>1, StringIsGood
<1>8. Letters(c) => IsGood(u, EatWord(u, s.wasInteger))
  BY <1>2, <1>3, <1>4, WordIsGood
<1>9. c \in Digits => IsGood(u, EatInteger(u))
  BY <1>2, <1>3, <1>4, IntegerIsGood
<1>10. IsGood(u, unexpected)
  <2>1. unexpected.scanner.pos = u.pos /\ unexpected.error = "unexpected_character"
    BY <1>2, ScanErrorIs
  <2>2. u.pos \in u.pos .. Len(text)
    BY <1>3
  <2> HIDE DEF unexpected
  <2> QED BY <2>1, <2>2 DEF IsGood
<1>11. PICK quote : /\ NextToken(scanner) = NextWith(scanner, quote)
                    /\ quote \notin SingleCharTokens \cup Digits \cup {"=", "&", "|", "!", "<", ">"}
                    /\ ~Letters(quote)
  BY NextIs
<1>12. /\ Continuations(c) # <<>> => c \in {"=", "&", "|", "!", "<", ">"}
       /\ c = quote => Continuations(c) = <<>>
       /\ c \in SingleCharTokens => c \notin Digits \cup {"=", "&", "|", "!", "<", ">"}
       /\ c \in Digits => c \notin SingleCharTokens \cup {"=", "&", "|", "!", "<", ">"}
       /\ Letters(c) => c \notin SingleCharTokens \cup Digits \cup {"=", "&", "|", "!", "<", ">"}
  <2>1. c = quote => Continuations(c) = <<>>
    BY <1>11, ContinuationsAre
  <2> QED BY <2>1, ContinuesIs DEF SingleCharTokens, Digits, Letters
<1>13. \/ c \in SingleCharTokens /\ NextToken(scanner) = EatSingleCharToken(u)
       \/ Continuations(c) # <<>> /\ NextToken(scanner) = EatLongToken(u)
       \/ Continuations(c) = <<>> /\ NextToken(scanner) = EatString(u)
       \/ Letters(c) /\ NextToken(scanner) = EatWord(u, s.wasInteger)
       \/ c \in Digits /\ NextToken(scanner) = EatInteger(u)
       \/ NextToken(scanner) = unexpected
  BY <1>11, <1>12 DEF NextWith
<1> QED BY <1>5, <1>6, <1>7, <1>8, <1>9, <1>10, <1>13

(* Whatever the text, its tokens cover it. *)
THEOREM TokensAreAll ==
  ASSUME NEW S, text \in Seq(S)
  PROVE  TokensCoverTheText
<1> SUFFICES TokensCover
  BY DEF TokensCoverTheText
<1> SUFFICES ASSUME NEW position \in 0 .. Len(text), NEW wasInteger \in BOOLEAN,
                    NEW scanner,
                    scanner = [text |-> text, pos |-> position, wasInteger |-> wasInteger],
                    NEW result, result = NextToken(scanner)
             PROVE  /\ result.scanner.pos \in position .. Len(text)
                    /\ result.error = "" =>
                         /\ position <= Begin(result.token) /\ End(result.token) = result.scanner.pos
                         /\ IF result.token.type = "end_of_file"
                              THEN End(result.token) = Len(text)
                              ELSE Begin(result.token) < End(result.token)
                         /\ IsSeparation(SubSeq(text, position + 1, Begin(result.token)))
                         /\ IsWhole(result.token)
  BY DEF TokensCover
<1> DEFINE s == SkipWhitespace(scanner)
           u == [s EXCEPT !.wasInteger = FALSE]
<1>1. scanner \in Scanners(text) /\ scanner.pos = position
  BY DEF Scanners
<1>2. s \in Scanners(text) /\ position <= s.pos /\ IsSeparation(SubSeq(text, position + 1, s.pos))
  BY <1>1, SkipIs
<1>3. s.pos \in Nat /\ Len(text) \in Nat /\ s.pos <= Len(text) /\ s.text = text
  BY <1>2 DEF Scanners
<1>4. CASE ~AtEnd(s)
  <2>1. u.pos = s.pos
    BY <1>2 DEF Scanners
  <2>2. IsGood(u, result)
    BY <1>1, <1>4, NextIsGood
  <2> HIDE DEF u, s
  <2>3. result.scanner.pos \in position .. Len(text)
    <3>1. result.scanner.pos \in s.pos .. Len(text)
      BY <2>1, <2>2, Zenon DEF IsGood
    <3> QED BY <1>2, <1>3, <3>1
  <2>4. result.error = "" =>
          /\ Begin(result.token) = s.pos /\ End(result.token) = result.scanner.pos
          /\ Begin(result.token) < End(result.token)
          /\ result.token.type # "end_of_file" /\ IsWhole(result.token)
    BY <2>1, <2>2 DEF IsGood
  <2> QED BY <1>2, <2>3, <2>4
<1>5. CASE AtEnd(s)
  <2> DEFINE token == Token("end_of_file", s.pos, s.pos)
  <2>1. result = Found(s, token, s.pos)
    BY <1>5, NextIs DEF NextWith
  <2>2. s.pos = Len(text)
    BY <1>3, <1>5 DEF AtEnd
  <2>3. token.type = "end_of_file" /\ token.from = s.pos /\ token.to = s.pos
    BY DEF Token
  <2> HIDE DEF token
  <2>4. Begin(token) = s.pos /\ End(token) = s.pos
    BY <2>3 DEF Begin, End
  <2>5. token.type \notin Keywords \cup {"identifier", "integer"}
    BY <2>3 DEF Keywords
  <2> HIDE DEF s
  <2>6. result.scanner.pos = s.pos /\ result.token = token
    BY <1>2, <2>1, FoundIs
  <2>7. IsWhole(token)
    <3>1. ASSUME NEW longer \in LongOperators,
                 IsPrefix(longer, SubSeq(text, s.pos + 1, Len(text)))
          PROVE  FALSE
      <4>1. s.pos \in 0 .. Len(text)
        BY <1>3
      <4>2. s.pos + 2 <= Len(text) \/ s.pos + 3 <= Len(text)
        BY <3>1, <4>1, OperatorIs
      <4> QED BY <1>3, <2>2, <4>2
    <3> QED BY <1>3, <2>2, <2>4, <2>5, <3>1 DEF IsWhole
  <2>8. result.scanner.pos \in position .. Len(text)
    BY <1>2, <1>3, <2>6
  <2>9. /\ Begin(result.token) = s.pos /\ End(result.token) = result.scanner.pos
        /\ result.token.type = "end_of_file" /\ IsWhole(result.token)
    BY <2>3, <2>4, <2>6, <2>7, Zenon
  <2> QED BY <1>2, <2>2, <2>6, <2>8, <2>9
<1> QED BY <1>4, <1>5
-----------------------------------------------------------------------------
(* Lines. *)
LinesBefore(at, break) == Cardinality({i \in 1 .. at : text[i] = break})

LEMMA LinesGrow ==
  ASSUME NEW a \in Nat, NEW b \in Nat, a <= b, NEW break
  PROVE  /\ LinesBefore(a, break) \in Nat
         /\ LinesBefore(a, break) <= LinesBefore(b, break)
         /\ \A i \in a + 1 .. b : text[i] = break => LinesBefore(a, break) < LinesBefore(b, break)
<1> DEFINE A == {i \in 1 .. a : text[i] = break}
           B == {i \in 1 .. b : text[i] = break}
<1>1. IsFiniteSet(1 .. b)
  BY FS_Interval
<1>2. A \subseteq B /\ B \subseteq 1 .. b
  OBVIOUS
<1>3. IsFiniteSet(B) /\ IsFiniteSet(A)
  BY <1>1, <1>2, FS_Subset
<1>4. Cardinality(A) \in Nat /\ Cardinality(B) \in Nat
  BY <1>3, FS_CardinalityType
<1>5. Cardinality(A) <= Cardinality(B)
  BY <1>2, <1>3, FS_Subset
<1>6. ASSUME NEW i \in a + 1 .. b, text[i] = break
      PROVE  Cardinality(A) < Cardinality(B)
  <2>1. i \in B /\ i \notin A
    BY <1>6
  <2>2. A # B
    BY <2>1
  <2> HIDE DEF A, B
  <2>3. Cardinality(A) # Cardinality(B)
    BY <1>2, <1>3, <2>2, FS_Subset
  <2> QED BY <1>4, <1>5, <2>3
<1> QED BY <1>4, <1>5, <1>6 DEF LinesBefore

AfterLine(s, break) ==
  [s EXCEPT !.pos = Max({n \in s.pos .. Len(s.text) : \A i \in s.pos .. n - 1 : Character(s, i) # break})]

(* A line ends with a character; which one does not matter here. *)
LEMMA LineIs ==
  \E break : /\ break \in Whitespace
             /\ \A at : LineOf(at) = LinesBefore(at, break)
             /\ \A s : SkipLine(s) = AfterLine(s, break)
<1>1. "\n" \in Whitespace
  BY Zenon DEF Whitespace
<1>2. \A at : LineOf(at) = LinesBefore(at, "\n")
  BY Zenon DEF LineOf, LinesBefore
<1>3. \A s : SkipLine(s) = AfterLine(s, "\n")
  BY Zenon DEF SkipLine, RunEnd, AfterLine
<1> QED BY <1>1, <1>2, <1>3, Zenon

LEMMA LineOfIs ==
  ASSUME NEW a \in Nat, NEW b \in Nat, a <= b
  PROVE  LineOf(a) \in Nat /\ LineOf(b) \in Nat /\ LineOf(a) <= LineOf(b)
<1>1. PICK break : \A at : LineOf(at) = LinesBefore(at, break)
  BY LineIs
<1> QED BY <1>1, LinesGrow

(* The rest of a line is skipped: what comes then is on another line.  A   *)
(* character that is no white space is skipped.                            *)
LEMMA SkipLineIs ==
  ASSUME NEW S, text \in Seq(S), NEW s \in Scanners(text), NEW r, r = SkipLine(s)
  PROVE  /\ r \in Scanners(text) /\ s.pos <= r.pos
         /\ s.pos < Len(text) /\ Character(s, s.pos) \notin Whitespace => s.pos < r.pos
         /\ \/ SkipWhitespace(r).pos = Len(text)
            \/ \A at \in 0 .. s.pos : LineOf(at) < LineOf(SkipWhitespace(r).pos)
<1>1. PICK break : /\ break \in Whitespace
                   /\ \A at : LineOf(at) = LinesBefore(at, break)
                   /\ r = AfterLine(s, break)
  BY LineIs
<1> DEFINE A == {i \in Int : Character(s, i) # break}
           end == LongestRun(s.pos, Len(text), A)
<1>2. s.text = text /\ s.pos \in Nat /\ Len(text) \in Nat /\ s.pos <= Len(text)
  BY DEF Scanners
<1>3. \A n \in s.pos .. Len(text) : \A i \in s.pos .. n - 1 : i \in A <=> Character(s, i) # break
  BY <1>2
<1>4. {n \in s.pos .. Len(text) : \A i \in s.pos .. n - 1 : i \in A}
        = {n \in s.pos .. Len(s.text) : \A i \in s.pos .. n - 1 : Character(s, i) # break}
  BY <1>2, <1>3
<1>5. r = [s EXCEPT !.pos = end]
  BY <1>1, <1>4 DEF AfterLine, LongestRun
<1> HIDE DEF A
<1>6. /\ end \in s.pos .. Len(text)
      /\ end < Len(text) => end \notin A
      /\ s.pos < Len(text) /\ s.pos \in A => s.pos < end
  BY <1>2, RunIs
<1> HIDE DEF end
<1>7. r \in Scanners(text) /\ r.pos = end /\ r.text = text
  <2>1. end \in 0 .. Len(text)
    BY <1>2, <1>6
  <2> QED BY <1>5, <2>1 DEF Scanners
<1>8. s.pos < Len(text) /\ Character(s, s.pos) \notin Whitespace => s.pos < end
  <2>1. Character(s, s.pos) \notin Whitespace => s.pos \in A
    BY <1>1, <1>2 DEF A
  <2> QED BY <1>6, <2>1
<1> DEFINE w == SkipWhitespace(r)
<1>9. w.pos \in end .. Len(text) /\ (end < Len(text) /\ Character(r, end) \in Whitespace => end < w.pos)
  <2>1. w \in Scanners(text) /\ r.pos <= w.pos
    BY <1>7, SkipIs
  <2>2. w.pos \in 0 .. Len(text)
    BY <2>1 DEF Scanners
  <2>3. r.pos < Len(text) /\ Character(r, r.pos) \in Whitespace => r.pos < w.pos
    BY <1>7, SkipIs
  <2> HIDE DEF w
  <2> QED BY <1>2, <1>6, <1>7, <2>1, <2>2, <2>3
<1> HIDE DEF w
<1>10. CASE end = Len(text)
  BY <1>2, <1>6, <1>7, <1>8, <1>9, <1>10 DEF w
<1>11. CASE end < Len(text)
  <2>1. Character(s, end) = break /\ Character(r, end) = text[end + 1] /\ Character(s, end) = text[end + 1]
    <3>1. end \in Int
      BY <1>2, <1>6
    <3> QED BY <1>2, <1>6, <1>7, <1>11, <3>1 DEF A, Character
  <2>2. end < w.pos
    BY <1>1, <1>9, <1>11, <2>1
  <2>3. ASSUME NEW at \in 0 .. s.pos PROVE LineOf(at) < LineOf(w.pos)
    <3>1. at \in Nat /\ w.pos \in Nat /\ at <= w.pos /\ end + 1 \in at + 1 .. w.pos
      BY <1>2, <1>6, <1>9, <2>2
    <3>2. text[end + 1] = break
      BY <2>1
    <3>3. LinesBefore(at, break) < LinesBefore(w.pos, break)
      BY <3>1, <3>2, LinesGrow
    <3> QED BY <1>1, <3>3
  <2> QED BY <1>6, <1>7, <1>8, <2>3 DEF w
<1>12. end <= Len(text)
  BY <1>2, <1>6
<1> QED BY <1>2, <1>6, <1>10, <1>11, <1>12
-----------------------------------------------------------------------------
(* A token that the scanner has found, and where it is then. *)
IsToken(token, s) ==
  /\ token \in SomeToken /\ token.type \in TokenTypes
  /\ IF token.type = "end_of_file" THEN token.from = Len(text) /\ s.pos = Len(text)
     ELSE token.from < s.pos

(* What a call of the scanner comes back with that has begun at `from'. *)
IsReading(from, result) ==
  /\ result.scanner \in Scanners(text) /\ from <= result.scanner.pos
  /\ result.error \in ScanErrors \cup {""} /\ result.at \in Nat
  /\ result.error = "" => IsToken(result.token, result.scanner) /\ from <= result.token.from
  /\ result.error # "" => from <= result.at /\ result.at <= result.scanner.pos

LEMMA FoundReads ==
  ASSUME NEW v \in Scanners(text), NEW start \in Nat, NEW pos \in 0 .. Len(text),
         NEW type \in TokenTypes, type # "end_of_file",
         NEW from \in Nat, NEW to \in Nat, start <= from, from < pos, start <= pos
  PROVE  IsReading(start, Found(v, Token(type, from, to), pos))
<1> DEFINE token == Token(type, from, to)
           result == Found(v, token, pos)
<1>1. token \in SomeToken /\ token.type = type /\ token.from = from
  BY DEF Token, SomeToken
<1> HIDE DEF token
<1>2. result.scanner = [v EXCEPT !.pos = pos] /\ result.token = token /\ result.error = "" /\ result.at = 0
  BY DEF Found
<1> HIDE DEF result
<1>3. result.scanner \in Scanners(text) /\ result.scanner.pos = pos
  BY <1>2 DEF Scanners
<1>4. IsToken(token, result.scanner)
  BY <1>1, <1>3 DEF IsToken
<1>6. result.at \in Nat /\ start <= result.scanner.pos /\ start <= result.token.from
  <2>1. result.token.from = from /\ result.at = 0
    BY <1>1, <1>2, Zenon
  <2>2. 0 \in Nat
    OBVIOUS
  <2> QED BY <1>3, <2>1, <2>2, Zenon
<1>7. result.error = ""
  BY <1>2
<1>8. IsToken(result.token, result.scanner)
  BY <1>2, <1>4
<1>5. IsReading(start, result)
  BY <1>3, <1>6, <1>7, <1>8, Zenon DEF IsReading
<1> QED BY <1>5 DEF result, token

LEMMA FoundHasNoError ==
  ASSUME NEW u, NEW token, NEW pos
  PROVE  Found(u, token, pos).error = ""
BY DEF Found

LEMMA ErrorReads ==
  ASSUME NEW u \in Scanners(text), NEW start \in Nat, NEW pos \in 0 .. Len(text),
         NEW error \in ScanErrors, start <= pos
  PROVE  IsReading(start, ScanError(u, error, pos))
<1> DEFINE result == ScanError(u, error, pos)
<1>1. result.scanner = [u EXCEPT !.pos = pos] /\ result.error = error /\ result.at = pos
  BY DEF ScanError
<1> HIDE DEF result
<1>2. result.scanner \in Scanners(text) /\ result.scanner.pos = pos
  BY <1>1 DEF Scanners
<1>3. result.at \in Nat /\ start <= result.at /\ result.at <= result.scanner.pos
      /\ start <= result.scanner.pos
  BY <1>1, <1>2
<1>5. result.error \in ScanErrors /\ result.error # ""
  <2>1. "" \notin ScanErrors
    BY DEF ScanErrors
  <2>2. result.error = error
    BY <1>1
  <2> QED BY <2>1, <2>2, Zenon
<1>4. IsReading(start, result)
  BY <1>2, <1>3, <1>5, Zenon DEF IsReading
<1> QED BY <1>4 DEF result

LEMMA SingleReads ==
  ASSUME text \in Seq(STRING), NEW u \in Scanners(text), u.pos < Len(text),
         FirstCharacter(u) \in SingleCharTokens \cup {"<", ">", "=", "!", "&", "|"}
  PROVE  IsReading(u.pos, EatSingleCharToken(u))
<1> DEFINE c == FirstCharacter(u)
<1>1. u.pos \in Nat /\ Len(text) \in Nat /\ u.pos + 1 \in 0 .. Len(text) /\ u.pos < u.pos + 1
      /\ u.pos <= u.pos /\ u.pos <= u.pos + 1 /\ u.pos + 1 \in Nat
  BY DEF Scanners
<1>2. c \in TokenTypes /\ c # "end_of_file"
  BY DEF SingleCharTokens, TokenTypes
<1>3. EatSingleCharToken(u) = Found(u, Token(c, u.pos, u.pos + 1), u.pos + 1)
  BY DEF EatSingleCharToken
<1> HIDE DEF c
<1> DEFINE next == u.pos + 1
<1> HIDE DEF next
<1>4. IsReading(u.pos, Found(u, Token(c, u.pos, next), next))
  BY <1>1, <1>2, FoundReads DEF next
<1> QED BY <1>3, <1>4 DEF next

(* The alternatives after a first character. *)
IsAlternative(a) ==
  \/ \E d, type : /\ type \in {"==", "&&", "||", "!=", "<<", "<=", ">>", ">="}
                  /\ a = <<<<d>>, type>>
  \/ a = <<<<">", ">">>, ">>>">>

LEMMA AlternativesAre ==
  ASSUME NEW c
  PROVE  /\ DOMAIN Continuations(c) \subseteq Nat
         /\ \A i \in DOMAIN Continuations(c) : IsAlternative(Continuations(c)[i])
<1> DEFINE Short(d, type) == <<<<d>>, type>>
           Long == <<<<">", ">">>, ">>>">>
           Types == {"==", "&&", "||", "!=", "<<", "<=", ">>", ">="}
<1>1. \A d : \A type \in Types : IsAlternative(Short(d, type))
  BY Zenon DEF IsAlternative
<1>2. IsAlternative(Long)
  BY Zenon DEF IsAlternative
<1> DEFINE Fits(s) == DOMAIN s \subseteq Nat /\ \A i \in DOMAIN s : IsAlternative(s[i])
<1>3. \A a : IsAlternative(a) => Fits(<<a>>)
  OBVIOUS
<1>4. \A a, b : IsAlternative(a) /\ IsAlternative(b) => Fits(<<a, b>>)
  OBVIOUS
<1>5. \A a, b, d : IsAlternative(a) /\ IsAlternative(b) /\ IsAlternative(d) => Fits(<<a, b, d>>)
  OBVIOUS
<1>6. Fits(<<>>)
  OBVIOUS
<1> HIDE DEF Fits
<1>7. \/ \E d : \E type \in Types : Continuations(c) = <<Short(d, type)>>
      \/ Continuations(c) = <<Short("<", "<<"), Short("=", "<=")>>
      \/ Continuations(c) = <<Long, Short(">", ">>"), Short("=", ">=")>>
      \/ Continuations(c) = <<>>
  <2>1. CASE c = "="
    BY <2>1, ContinuationsAre
  <2>2. CASE c = "&"
    BY <2>2, ContinuationsAre
  <2>3. CASE c = "|"
    BY <2>3, ContinuationsAre
  <2>4. CASE c = "!"
    BY <2>4, ContinuationsAre
  <2>5. CASE c \in {"<", ">"} \/ c \notin {"=", "&", "|", "!", "<", ">"}
    BY <2>5, ContinuationsAre
  <2> QED BY <2>1, <2>2, <2>3, <2>4, <2>5
<1>8. "<<" \in Types /\ "<=" \in Types /\ ">>" \in Types /\ ">=" \in Types
  OBVIOUS
<1> HIDE DEF Short, Long, Types
<1>9. Fits(Continuations(c))
  BY <1>1, <1>2, <1>3, <1>4, <1>5, <1>6, <1>7, <1>8
<1> QED BY <1>9 DEF Fits

LEMMA LongReads ==
  ASSUME text \in Seq(STRING), NEW u \in Scanners(text), u.pos < Len(text),
         FirstCharacter(u) \in {"=", "&", "|", "!", "<", ">"}
  PROVE  IsReading(u.pos, EatLongToken(u))
<1>1. u.pos \in Nat /\ u.text = text /\ Len(text) \in Nat
  BY DEF Scanners
<1>2. DOMAIN All(u) \subseteq Nat /\ \A i \in DOMAIN All(u) : IsAlternative(All(u)[i])
  BY AlternativesAre DEF All
<1>3. CASE EatLongToken(u) = EatSingleCharToken(u)
  BY <1>3, SingleReads
<1>4. ASSUME NEW a, IsAlternative(a), Follows(u, a[1]), EatLongToken(u) = Taken(u, a)
      PROVE  IsReading(u.pos, EatLongToken(u))
  <2>1. ASSUME NEW d, NEW type \in {"==", "&&", "||", "!=", "<<", "<=", ">>", ">="},
               a = <<<<d>>, type>>
        PROVE  IsReading(u.pos, EatLongToken(u))
    <3>1. a[1] = <<d>> /\ a[2] = type /\ Len(a[1]) = 1
      BY <2>1
    <3>2. u.pos + 2 <= Len(text)
      <4>1. Follows(u, <<d>>)
        BY <1>4, <3>1
      <4> QED BY <4>1, FollowsIs, Zenon
    <3>3. u.pos + 1 + 1 = u.pos + 2
      BY <1>1
    <3> DEFINE next == u.pos + 2
    <3>4. next \in 0 .. Len(text) /\ u.pos < next /\ next \in Nat /\ u.pos <= u.pos /\ u.pos <= next
      BY <1>1, <3>2
    <3>5. Taken(u, a) = Found(u, Token(type, u.pos, next), next)
      BY <3>1, <3>3 DEF Taken
    <3>6. type \in TokenTypes /\ type # "end_of_file"
      BY DEF TokenTypes
    <3> HIDE DEF next
    <3> QED BY <1>1, <1>4, <3>4, <3>5, <3>6, FoundReads
  <2>2. ASSUME a = <<<<">", ">">>, ">>>">>
        PROVE  IsReading(u.pos, EatLongToken(u))
    <3>1. a[1] = <<">", ">">> /\ a[2] = ">>>" /\ Len(a[1]) = 2
      BY <2>2
    <3>2. u.pos + 3 <= Len(text)
      <4>1. Follows(u, <<">", ">">>)
        BY <1>4, <3>1
      <4> QED BY <4>1, FollowsIs, Zenon
    <3>3. u.pos + 1 + 2 = u.pos + 3
      BY <1>1
    <3> DEFINE next == u.pos + 3
               from == u.pos + 1
    <3>4. /\ next \in 0 .. Len(text) /\ from < next /\ next \in Nat /\ from \in Nat /\ u.pos <= from
          /\ u.pos <= next
      BY <1>1, <3>2
    <3>5. Taken(u, a) = Found(u, Token(">>>", from, next), next)
      BY <3>1, <3>3 DEF Taken
    <3>6. ">>>" \in TokenTypes
      BY DEF TokenTypes
    <3> HIDE DEF next, from
    <3> QED BY <1>1, <1>4, <3>4, <3>5, <3>6, FoundReads
  <2> QED BY <1>4, <2>1, <2>2 DEF IsAlternative
<1> QED BY <1>2, <1>3, <1>4, LongTokenIs

LEMMA WordReads ==
  ASSUME text \in Seq(STRING), NEW u \in Scanners(text), u.pos < Len(text),
         Letters(FirstCharacter(u)), NEW wasInteger \in BOOLEAN
  PROVE  IsReading(u.pos, EatWord(u, wasInteger))
<1>1. u.pos \in Nat /\ u.text = text /\ Len(text) \in Nat /\ u.pos \in 0 .. Len(text)
      /\ u.pos <= u.pos
  BY DEF Scanners
<1>2. CASE wasInteger
  <2>1. EatWord(u, wasInteger) = ScanError(u, "identifier_after_integer", u.pos)
    BY <1>2 DEF EatWord
  <2>2. "identifier_after_integer" \in ScanErrors
    BY DEF ScanErrors
  <2> QED BY <1>1, <2>1, <2>2, ErrorReads
<1>3. CASE ~wasInteger
  <2> DEFINE end == RunEnd(u, LAMBDA i : Letters(Character(u, i)) \/ (i > u.pos /\ Character(u, i) \in Digits))
             isKeyword == end = u.pos + 1 /\ FirstCharacter(u) \in Keywords
             type == IF isKeyword THEN FirstCharacter(u) ELSE "identifier"
  <2>2. EatWord(u, wasInteger) = Found(u, Token(type, u.pos, end), end)
    BY <1>3 DEF EatWord
  <2>1. type \in Keywords \cup {"identifier"}
    OBVIOUS
  <2> HIDE DEF end, type
  <2>3. type \in TokenTypes /\ type # "end_of_file"
    BY <2>1 DEF Keywords, TokenTypes
  <2>4. IsGood(u, EatWord(u, wasInteger))
    BY WordIsGood
  <2>5. EatWord(u, wasInteger).scanner.pos = end
    BY <2>2, FoundIs
  <2>8. EatWord(u, wasInteger).error = ""
    BY <2>2, FoundHasNoError
  <2>6. end \in u.pos .. Len(text) /\ u.pos < end
    BY <2>4, <2>5, <2>8, Zenon DEF IsGood
  <2>7. end \in 0 .. Len(text) /\ end \in Nat /\ u.pos <= end
    BY <1>1, <2>6
  <2> QED BY <1>1, <2>2, <2>3, <2>6, <2>7, FoundReads
<1> QED BY <1>2, <1>3

LEMMA IntegerReads ==
  ASSUME text \in Seq(STRING), NEW u \in Scanners(text), u.pos < Len(text),
         FirstCharacter(u) \in Digits
  PROVE  IsReading(u.pos, EatInteger(u))
<1> DEFINE v == [u EXCEPT !.wasInteger = TRUE]
<1>1. u.pos \in Nat /\ u.text = text /\ Len(text) \in Nat /\ u.pos \in 0 .. Len(text)
      /\ u.pos <= u.pos
  BY DEF Scanners
<1>2. v \in Scanners(text)
  BY DEF Scanners
<1>3. PICK end : EatInteger(u) = Found(v, Token("integer", u.pos, end), end)
  BY DEF EatInteger
<1>4. IsGood(u, EatInteger(u))
  BY IntegerIsGood
<1> HIDE DEF v
<1>5. EatInteger(u).scanner.pos = end
  BY <1>2, <1>3, FoundIs
<1>9. EatInteger(u).error = ""
  BY <1>3, FoundHasNoError
<1>6. end \in u.pos .. Len(text) /\ u.pos < end
  BY <1>4, <1>5, <1>9, Zenon DEF IsGood
<1>7. end \in 0 .. Len(text) /\ end \in Nat /\ u.pos <= end
  BY <1>1, <1>6
<1>8. "integer" \in TokenTypes
  BY DEF TokenTypes
<1> QED BY <1>1, <1>2, <1>3, <1>6, <1>7, <1>8, FoundReads

LEMMA StringReads ==
  ASSUME text \in Seq(STRING), NEW u \in Scanners(text), u.pos < Len(text)
  PROVE  IsReading(u.pos, EatString(u))
<1>1. u.pos \in Nat /\ u.text = text /\ Len(text) \in Nat
  BY DEF Scanners
<1>2. PICK r \in StringResults(u) : EatString(u) = r
  BY StringFound
<1>3. \/ \E e \in {"unexpected_end_of_file", "hex_encoding_required"}, p \in u.pos .. Len(text) :
           r = ScanError(u, e, p)
      \/ \E i \in u.pos + 1 .. Len(text) - 1 : r = Found(u, Token("string", u.pos + 1, i), i + 1)
  BY <1>1, <1>2 DEF StringResults
<1>4. ASSUME NEW e \in {"unexpected_end_of_file", "hex_encoding_required"}, NEW p \in u.pos .. Len(text)
      PROVE  IsReading(u.pos, ScanError(u, e, p))
  <2>1. p \in 0 .. Len(text) /\ u.pos <= p /\ e \in ScanErrors
    BY <1>1 DEF ScanErrors
  <2> QED BY <1>1, <2>1, ErrorReads
<1>5. ASSUME NEW i \in u.pos + 1 .. Len(text) - 1
      PROVE  IsReading(u.pos, Found(u, Token("string", u.pos + 1, i), i + 1))
  <2> DEFINE from == u.pos + 1
             next == i + 1
  <2>1. /\ next \in 0 .. Len(text) /\ from < next /\ i \in Nat /\ from \in Nat /\ u.pos <= from
        /\ u.pos <= next
    BY <1>1
  <2> HIDE DEF from, next
  <2>3. "string" \in TokenTypes
    BY DEF TokenTypes
  <2>2. IsReading(u.pos, Found(u, Token("string", from, i), next))
    BY <1>1, <2>1, <2>3, FoundReads
  <2> QED BY <2>2 DEF from, next
<1> QED BY <1>2, <1>3, <1>4, <1>5

(* Where the scanner stops to read a token. *)
LEMMA NextReads ==
  ASSUME text \in Seq(STRING), NEW scanner \in Scanners(text), NEW from,
         from = SkipWhitespace(scanner).pos
  PROVE  /\ IsReading(from, NextToken(scanner))
         /\ from \in scanner.pos .. Len(text)
         /\ NextToken(scanner).error # "" =>
              from < Len(text) /\ Character(scanner, from) \notin Whitespace
<1> DEFINE s == SkipWhitespace(scanner)
           u == [s EXCEPT !.wasInteger = FALSE]
           c == FirstCharacter(s)
<1>1. s \in Scanners(text) /\ scanner.pos <= s.pos
      /\ (s.pos < Len(text) => Character(scanner, s.pos) \notin Whitespace)
  BY SkipIs
<1>2. u \in Scanners(text) /\ u.pos = s.pos /\ u.text = s.text /\ s.text = text
  BY <1>1 DEF Scanners
<1>7. s.pos \in Nat /\ Len(text) \in Nat /\ s.pos <= Len(text) /\ scanner.pos \in Nat
  BY <1>1 DEF Scanners
<1>8. s.wasInteger \in BOOLEAN
  BY <1>1 DEF Scanners
<1>3. from = s.pos
  BY Zenon
<1>4. PICK quote : /\ NextToken(scanner) = NextWith(scanner, quote)
                   /\ quote \notin SingleCharTokens \cup Digits \cup {"=", "&", "|", "!", "<", ">"}
                   /\ ~Letters(quote)
  BY NextIs
<1>5. CASE AtEnd(s)
  <2> DEFINE token == Token("end_of_file", s.pos, s.pos)
             result == Found(s, token, s.pos)
  <2>1. NextToken(scanner) = result
    BY <1>4, <1>5 DEF NextWith
  <2>2. s.pos = Len(text)
    BY <1>2, <1>7, <1>5 DEF AtEnd
  <2>3. token \in SomeToken /\ token.type = "end_of_file" /\ token.from = s.pos
    BY <1>7 DEF Token, SomeToken, TokenTypes
  <2> HIDE DEF token
  <2>4. result.scanner = [s EXCEPT !.pos = s.pos] /\ result.token = token /\ result.error = "" /\ result.at = 0
    BY DEF Found
  <2> HIDE DEF result
  <2>5. result.scanner \in Scanners(text) /\ result.scanner.pos = s.pos
    BY <1>1, <1>7, <2>4 DEF Scanners
  <2>6. IsToken(token, result.scanner)
    <3>1. "end_of_file" \in TokenTypes
      BY DEF TokenTypes
    <3> HIDE DEF s
    <3> QED BY <2>2, <2>3, <2>5, <3>1 DEF IsToken
  <2> HIDE DEF s
  <2>7. result.at \in Nat /\ from <= result.scanner.pos /\ from <= result.token.from
    <3>1. result.token.from = s.pos /\ result.at = 0
      BY <2>3, <2>4, Zenon
    <3>2. s.pos <= s.pos /\ 0 \in Nat
      BY <1>7
    <3> QED BY <1>3, <2>5, <3>1, <3>2, Zenon
  <2>8. result.error = ""
    BY <2>4
  <2>9. IsToken(result.token, result.scanner)
    BY <2>4, <2>6
  <2>10. IsReading(from, result)
    BY <2>5, <2>7, <2>8, <2>9, Zenon DEF IsReading
  <2>11. from \in scanner.pos .. Len(text)
    BY <1>1, <1>3, <1>7
  <2> QED BY <2>1, <2>8, <2>10, <2>11, Zenon
<1>6. CASE ~AtEnd(s)
  <2>1. s.pos < Len(text)
    BY <1>2, <1>7, <1>6 DEF AtEnd
  <2>2. FirstCharacter(u) = c
    BY <1>2 DEF FirstCharacter, Character
  <2>3. /\ Continuations(c) # <<>> => c \in {"=", "&", "|", "!", "<", ">"}
        /\ c = quote => Continuations(c) = <<>>
        /\ c \in SingleCharTokens => c \notin Digits \cup {"=", "&", "|", "!", "<", ">"}
        /\ c \in Digits => c \notin SingleCharTokens \cup {"=", "&", "|", "!", "<", ">"}
        /\ Letters(c) => c \notin SingleCharTokens \cup Digits \cup {"=", "&", "|", "!", "<", ">"}
    <3>1. c = quote => Continuations(c) = <<>>
      BY <1>4, ContinuationsAre
    <3> QED BY <3>1, ContinuesIs DEF SingleCharTokens, Digits, Letters
  <2>4. \/ c \in SingleCharTokens /\ NextToken(scanner) = EatSingleCharToken(u)
        \/ Continuations(c) # <<>> /\ NextToken(scanner) = EatLongToken(u)
        \/ Continuations(c) = <<>> /\ NextToken(scanner) = EatString(u)
        \/ Letters(c) /\ NextToken(scanner) = EatWord(u, s.wasInteger)
        \/ c \in Digits /\ NextToken(scanner) = EatInteger(u)
        \/ NextToken(scanner) = ScanError(u, "unexpected_character", u.pos)
    BY <1>4, <1>6, <2>3 DEF NextWith
  <2> HIDE DEF s, u, c
  <2>5. c \in SingleCharTokens => IsReading(u.pos, EatSingleCharToken(u))
    BY <1>2, <2>1, <2>2, SingleReads
  <2>6. Continuations(c) # <<>> => IsReading(u.pos, EatLongToken(u))
    BY <1>2, <2>1, <2>2, <2>3, LongReads
  <2>7. IsReading(u.pos, EatString(u))
    BY <1>2, <2>1, StringReads
  <2>8. Letters(c) => IsReading(u.pos, EatWord(u, s.wasInteger))
    BY <1>2, <1>8, <2>1, <2>2, WordReads
  <2>9. c \in Digits => IsReading(u.pos, EatInteger(u))
    BY <1>2, <2>1, <2>2, IntegerReads
  <2>10. IsReading(u.pos, ScanError(u, "unexpected_character", u.pos))
    <3>1. /\ u.pos \in 0 .. Len(text) /\ u.pos \in Nat /\ u.pos <= u.pos
          /\ "unexpected_character" \in ScanErrors
      BY <1>2, <1>7 DEF ScanErrors
    <3> QED BY <1>2, <3>1, ErrorReads
  <2>11. IsReading(u.pos, NextToken(scanner))
    BY <2>4, <2>5, <2>6, <2>7, <2>8, <2>9, <2>10, Zenon
  <2>12. from \in scanner.pos .. Len(text) /\ from < Len(text)
    BY <1>1, <1>3, <1>7, <2>1
  <2>13. IsReading(from, NextToken(scanner)) /\ Character(scanner, from) \notin Whitespace
    BY <1>1, <1>2, <1>3, <2>1, <2>11, Zenon
  <2> QED BY <2>12, <2>13, Zenon
<1> QED BY <1>5, <1>6
-----------------------------------------------------------------------------
(* A parser and what it has reported. *)
IsRecord(p) ==
  p = [scanner |-> p.scanner, next |-> p.next, token |-> p.token, value |-> p.value,
       thrown |-> p.thrown, at |-> p.at, errors |-> p.errors]

IsParser(p) ==
  /\ IsRecord(p)
  /\ p.scanner \in Scanners(text)
  /\ p.next \in SomeToken /\ (p.next # NoToken => IsToken(p.next, p.scanner))
  /\ p.token \in SomeToken
  /\ p.thrown \in Errors \cup {""} /\ p.at \in Nat
  /\ p.errors \in Seq(Reports)

(* Where the next token is, or will be found. *)
Ahead(p) == IF p.next = NoToken THEN SkipWhitespace(p.scanner).pos ELSE p.next.from

Reported(errors, line) == \A i \in DOMAIN errors : LineOf(errors[i].at) < line
InOrder(errors) ==
  \A i, j \in DOMAIN errors : i < j => LineOf(errors[i].at) < LineOf(errors[j].at)

(* The next error will be on a later line than the errors reported so far. *)
Sound(p) ==
  /\ IsParser(p) /\ InOrder(p.errors)
  /\ ~Throws(p) => Reported(p.errors, LineOf(Ahead(p)))
  /\ Throws(p) /\ p.thrown # EndOfFileInBlock =>
       p.at <= p.scanner.pos /\ Reported(p.errors, LineOf(p.at))

(* After an error there may be nothing left. *)
Resumed(p) ==
  /\ IsParser(p) /\ InOrder(p.errors) /\ ~Throws(p)
  /\ Reported(p.errors, LineOf(Ahead(p))) \/ Ahead(p) = Len(text)

From(p, k) == Sound(p) /\ k <= Unread(p)

LEMMA NoTokenIs == NoToken \in SomeToken /\ NoToken.type = "none" /\ NoToken.type \notin TokenTypes
BY DEF NoToken, Token, SomeToken, TokenTypes, SingleCharTokens, Keywords

LEMMA NewIs ==
  ASSUME text \in Seq(STRING)
  PROVE  Resumed(NewParser(text))
<1> DEFINE p == NewParser(text)
<1>1. /\ p.scanner = NewScanner(text) /\ p.next = NoToken /\ p.token = NoToken /\ p.thrown = ""
      /\ p.at = 0 /\ p.errors = <<>> /\ IsRecord(p)
  BY DEF NewParser, IsRecord
<1> HIDE DEF p
<1>2. NewScanner(text) \in Scanners(text)
  BY DEF NewScanner, Scanners
<1>3. p.thrown \in Errors \cup {""} /\ ~Throws(p)
  BY <1>1 DEF Throws
<1>4. p.at \in Nat /\ p.errors \in Seq(Reports) /\ DOMAIN p.errors = {}
  <2>1. <<>> \in Seq(Reports) /\ DOMAIN <<>> = {} /\ 0 \in Nat
    OBVIOUS
  <2> QED BY <1>1, <2>1, Zenon
<1>5. IsParser(p)
  BY <1>1, <1>2, <1>3, <1>4, NoTokenIs, Zenon DEF IsParser
<1>6. InOrder(p.errors) /\ Reported(p.errors, LineOf(Ahead(p)))
  BY <1>4, Zenon DEF InOrder, Reported
<1>7. Resumed(p)
  BY <1>3, <1>5, <1>6, Zenon DEF Resumed
<1> QED BY <1>7 DEF p

LEMMA AheadIs ==
  ASSUME text \in Seq(STRING), NEW p, IsParser(p)
  PROVE  /\ Unread(p) \in Nat /\ Unread(p) <= p.scanner.pos
         /\ Ahead(p) \in Nat /\ Unread(p) <= Ahead(p) /\ Ahead(p) <= Len(text)
         /\ p.scanner.pos \in Nat /\ p.scanner.pos <= Len(text) /\ Len(text) \in Nat
<1>1. p.scanner \in Scanners(text)
  BY DEF IsParser
<1>2. p.scanner.pos \in Nat /\ p.scanner.pos <= Len(text) /\ Len(text) \in Nat
  BY <1>1 DEF Scanners
<1>3. CASE p.next = NoToken
  <2> DEFINE from == SkipWhitespace(p.scanner).pos
  <2>1. from \in p.scanner.pos .. Len(text)
    BY <1>1, NextReads
  <2>2. Unread(p) = p.scanner.pos /\ Ahead(p) = from
    BY <1>3 DEF Unread, Ahead
  <2> HIDE DEF from
  <2> QED BY <1>2, <2>1, <2>2
<1>4. CASE p.next # NoToken
  <2> DEFINE from == p.next.from
  <2>1. Unread(p) = from /\ Ahead(p) = from
    BY <1>4 DEF Unread, Ahead
  <2>2. p.next \in SomeToken /\ IsToken(p.next, p.scanner)
    BY <1>4 DEF IsParser
  <2>3. from \in Nat
    BY <2>2 DEF SomeToken
  <2>4. from = p.scanner.pos \/ from < p.scanner.pos
    BY <2>2 DEF IsToken
  <2> HIDE DEF from
  <2> QED BY <1>2, <2>1, <2>3, <2>4
<1> QED BY <1>3, <1>4

LEMMA ReportedIs ==
  ASSUME NEW errors \in Seq(Reports), NEW a \in Nat, NEW b \in Nat, a <= b,
         Reported(errors, LineOf(a))
  PROVE  Reported(errors, LineOf(b))
<1> SUFFICES ASSUME NEW i \in DOMAIN errors PROVE LineOf(errors[i].at) < LineOf(b)
  BY DEF Reported
<1>1. errors[i].at \in Nat
  <2>1. errors[i] \in Reports
    OBVIOUS
  <2> QED BY <2>1 DEF Reports
<1>2. LineOf(errors[i].at) \in Nat
  <2> DEFINE at == errors[i].at
  <2>1. at \in Nat /\ at <= at
    BY <1>1
  <2> HIDE DEF at
  <2>2. LineOf(at) \in Nat
    BY <2>1, LineOfIs
  <2> QED BY <2>2 DEF at
<1>3. LineOf(errors[i].at) < LineOf(a)
  BY DEF Reported
<1>4. LineOf(a) \in Nat /\ LineOf(b) \in Nat /\ LineOf(a) <= LineOf(b)
  BY LineOfIs
<1> QED BY <1>2, <1>3, <1>4

(* Trees and taken tokens do not matter. *)
LEMMA SameSound ==
  ASSUME NEW p, NEW q, IsRecord(q), q.token \in SomeToken, Sound(p),
         q.scanner = p.scanner, q.next = p.next, q.thrown = p.thrown, q.at = p.at, q.errors = p.errors
  PROVE  Sound(q) /\ Unread(q) = Unread(p) /\ (Throws(q) <=> Throws(p))
<1>1. IsParser(q)
  BY DEF Sound, IsParser
<1>2. Ahead(q) = Ahead(p) /\ Unread(q) = Unread(p) /\ (Throws(q) <=> Throws(p))
  BY Zenon DEF Ahead, Unread, Throws
<1> QED BY <1>1, <1>2, Zenon DEF Sound

LEMMA YieldsFrom ==
  ASSUME NEW p, NEW tree, NEW k, From(p, k)
  PROVE  From(Yields(p, tree), k) /\ (Throws(Yields(p, tree)) <=> Throws(p))
<1> DEFINE q == Yields(p, tree)
<1>1. CASE Throws(p)
  BY <1>1 DEF Yields
<1>2. CASE ~Throws(p)
  <2>1. IsRecord(p) /\ p.token \in SomeToken /\ Sound(p)
    BY DEF From, Sound, IsParser
  <2>2. q = [p EXCEPT !.value = tree]
    BY <1>2 DEF Yields
  <2> HIDE DEF q
  <2>3. /\ IsRecord(q) /\ q.scanner = p.scanner /\ q.next = p.next /\ q.token = p.token
        /\ q.thrown = p.thrown /\ q.at = p.at /\ q.errors = p.errors
    BY <2>1, <2>2 DEF IsRecord
  <2>4. Sound(q) /\ Unread(q) = Unread(p) /\ (Throws(q) <=> Throws(p))
    BY <2>1, <2>3, SameSound, Zenon
  <2> QED BY <2>4, Zenon DEF From, q
<1> QED BY <1>1, <1>2

LEMMA FirstFrom ==
  ASSUME NEW p, NEW first, NEW k, From(p, k)
  PROVE  From(YieldsFirst(first, p), k) /\ (Throws(YieldsFirst(first, p)) <=> Throws(p))
BY YieldsFrom, Zenon DEF YieldsFirst

LEMMA RaiseFrom ==
  ASSUME NEW p, NEW k, From(p, k), ~Throws(p), NEW error \in Errors, NEW at \in Nat,
         at <= p.scanner.pos, error # EndOfFileInBlock => Reported(p.errors, LineOf(at)),
         NEW q, q = RaiseAt(p, error, at)
  PROVE  From(q, k) /\ Throws(q) /\ q.thrown = error /\ q.scanner = p.scanner /\ q.at = at
<1>1. IsRecord(p) /\ IsParser(p) /\ InOrder(p.errors)
  BY DEF From, Sound, IsParser
<1>2. q = [p EXCEPT !.thrown = error, !.at = at]
  BY DEF RaiseAt
<1>3. /\ IsRecord(q) /\ q.scanner = p.scanner /\ q.next = p.next /\ q.token = p.token
      /\ q.thrown = error /\ q.at = at /\ q.errors = p.errors
  BY <1>1, <1>2 DEF IsRecord
<1>4. IsParser(q)
  BY <1>1, <1>3, Zenon DEF IsParser
<1>5. Throws(q)
  <2>1. "" \notin Errors
    BY DEF Errors, ScanErrors, EndOfFileInBlock
  <2> QED BY <1>3, <2>1, Zenon DEF Throws
<1>6. Sound(q)
  BY <1>1, <1>3, <1>4, <1>5, Zenon DEF Sound
<1>7. Unread(q) = Unread(p)
  BY <1>3, Zenon DEF Unread
<1>8. From(q, k)
  BY <1>6, <1>7, Zenon DEF From
<1> QED BY <1>3, <1>5, <1>8
-----------------------------------------------------------------------------
LEMMA FromLess ==
  ASSUME text \in Seq(STRING), NEW p, NEW k \in Nat, From(p, k + 1)
  PROVE  From(p, k)
<1>1. Unread(p) \in Nat /\ k + 1 <= Unread(p)
  BY AheadIs, Zenon DEF From, Sound
<1>2. k <= Unread(p)
  BY <1>1
<1> QED BY <1>2, Zenon DEF From

(* The parser looks at the next token. *)
LEMMA PeekIs ==
  ASSUME text \in Seq(STRING), NEW p, IsParser(p), ~Throws(p), p.next = NoToken,
         NEW q, q = PeekToken(p)
  PROVE  /\ IsParser(q) /\ q.errors = p.errors
         /\ Ahead(p) <= q.scanner.pos
         /\ ~Throws(q) => /\ q.next # NoToken /\ Ahead(p) <= q.next.from
                          /\ Unread(q) = q.next.from
         /\ Throws(q) => /\ q.next = NoToken /\ Unread(q) = q.scanner.pos
                         /\ Ahead(p) <= q.at /\ q.at <= q.scanner.pos
                         /\ Ahead(p) < Len(text) /\ Character(p.scanner, Ahead(p)) \notin Whitespace
<1> DEFINE result == NextToken(p.scanner)
           from == SkipWhitespace(p.scanner).pos
           scanner == result.scanner
           r == [p EXCEPT !.scanner = scanner]
<1>1. /\ IsRecord(p) /\ p.scanner \in Scanners(text) /\ p.next \in SomeToken /\ p.token \in SomeToken
      /\ p.thrown = "" /\ p.at \in Nat /\ p.errors \in Seq(Reports)
  BY Zenon DEF IsParser, Throws
<1>2. Ahead(p) = from
  BY Zenon DEF Ahead
<1>3. /\ IsReading(from, result)
      /\ result.error # "" => from < Len(text) /\ Character(p.scanner, from) \notin Whitespace
  BY <1>1, NextReads, Zenon
<1>4. q = IF result.error # "" THEN RaiseAt(r, result.error, result.at)
          ELSE [r EXCEPT !.next = result.token]
  BY Zenon DEF PeekToken, Scanned
<1> HIDE DEF result, from, scanner
<1>b. r = [p EXCEPT !.scanner = scanner] /\ IsRecord(p)
  BY <1>1, Zenon
<1>c. scanner = result.scanner
  BY Zenon DEF scanner
<1> HIDE DEF r
<1>5. /\ IsRecord(r) /\ r.scanner = scanner /\ r.next = p.next /\ r.token = p.token
      /\ r.value = p.value /\ r.thrown = p.thrown /\ r.at = p.at /\ r.errors = p.errors
  BY <1>b DEF IsRecord
<1>6. ~Throws(r)
  BY <1>1, <1>5, Zenon DEF Throws
<1>7. CASE result.error # ""
  <2>1. q = [r EXCEPT !.thrown = result.error, !.at = result.at]
    BY <1>4, <1>6, <1>7, Zenon DEF RaiseAt
  <2>2. /\ IsRecord(q) /\ q.scanner = r.scanner /\ q.next = r.next /\ q.token = r.token
        /\ q.thrown = result.error /\ q.at = result.at /\ q.errors = r.errors
    BY <1>5, <2>1 DEF IsRecord
  <2>3. /\ result.error \in ScanErrors /\ result.at \in Nat /\ result.scanner \in Scanners(text)
        /\ from <= result.at /\ result.at <= result.scanner.pos /\ from <= result.scanner.pos
    BY <1>3, <1>7, Zenon DEF IsReading
  <2>4. q.thrown \in Errors \cup {""} /\ Throws(q)
    <3>1. ScanErrors \subseteq Errors
      BY DEF Errors
    <3> QED BY <1>7, <2>2, <2>3, <3>1, Zenon DEF Throws
  <2>5. IsParser(q)
    BY <1>1, <1>5, <1>c, <2>2, <2>3, <2>4, Zenon DEF IsParser
  <2>6. q.next = NoToken /\ Unread(q) = q.scanner.pos
    BY <1>5, <2>2, Zenon DEF Unread
  <2> QED BY <1>2, <1>c, <1>3, <1>5, <1>7, <2>2, <2>3, <2>4, <2>5, <2>6, Zenon
<1>8. CASE result.error = ""
  <2>1. q = [r EXCEPT !.next = result.token]
    BY <1>4, <1>8, Zenon
  <2>2. /\ IsRecord(q) /\ q.scanner = r.scanner /\ q.next = result.token /\ q.token = r.token
        /\ q.thrown = r.thrown /\ q.at = r.at /\ q.errors = r.errors
    BY <1>5, <2>1 DEF IsRecord
  <2>3. /\ IsToken(result.token, result.scanner) /\ result.scanner \in Scanners(text)
        /\ from <= result.token.from /\ from <= result.scanner.pos
    BY <1>3, <1>8, Zenon DEF IsReading
  <2>4. ~Throws(q)
    BY <1>1, <1>5, <2>2, Zenon DEF Throws
  <2>5. q.next \in SomeToken /\ q.next.type \in TokenTypes
    BY <2>2, <2>3, Zenon DEF IsToken
  <2>6. IsParser(q)
    BY <1>1, <1>5, <1>c, <2>2, <2>3, <2>5, Zenon DEF IsParser
  <2>7. q.next # NoToken /\ Unread(q) = q.next.from
    BY <2>5, NoTokenIs, Zenon DEF Unread
  <2> QED BY <1>2, <1>c, <1>5, <2>2, <2>3, <2>4, <2>6, <2>7, Zenon
<1> QED BY <1>7, <1>8

(* A parser that has looked does not look again. *)
LEMMA PeekedIs ==
  ASSUME NEW p, Throws(p) \/ p.next # NoToken
  PROVE  PeekToken(p) = p
BY Zenon DEF PeekToken, Scanned

LEMMA PeekFrom ==
  ASSUME text \in Seq(STRING), NEW p, NEW k \in Nat, From(p, k), NEW q, q = PeekToken(p)
  PROVE  /\ From(q, k)
         /\ ~Throws(q) => ~Throws(p) /\ q.next # NoToken /\ q.next.type \in TokenTypes
         /\ PeekToken(q) = q
<1>1. CASE Throws(p) \/ p.next # NoToken
  <2>1. q = p
    BY <1>1, PeekedIs, Zenon
  <2>2. ~Throws(p) => p.next.type \in TokenTypes
    BY <1>1, Zenon DEF From, Sound, IsParser, IsToken
  <2> QED BY <1>1, <2>1, <2>2, Zenon
<1>2. CASE ~Throws(p) /\ p.next = NoToken
  <2>1. /\ IsParser(p) /\ InOrder(p.errors) /\ Reported(p.errors, LineOf(Ahead(p))) /\ k <= Unread(p)
    BY <1>2, Zenon DEF From, Sound
  <2>2. /\ IsParser(q) /\ q.errors = p.errors /\ Ahead(p) <= q.scanner.pos
        /\ ~Throws(q) => /\ q.next # NoToken /\ Ahead(p) <= q.next.from /\ Unread(q) = q.next.from
        /\ Throws(q) => /\ q.next = NoToken /\ Unread(q) = q.scanner.pos
                        /\ Ahead(p) <= q.at /\ q.at <= q.scanner.pos
    BY <1>2, <2>1, PeekIs, Zenon
  <2>3. /\ Unread(p) \in Nat /\ Ahead(p) \in Nat /\ Unread(p) <= Ahead(p)
        /\ q.scanner.pos \in Nat /\ Unread(q) \in Nat /\ p.errors \in Seq(Reports) /\ q.at \in Nat
    BY <2>1, <2>2, AheadIs, Zenon DEF IsParser
  <2>4. CASE ~Throws(q)
    <3>1. Ahead(q) = q.next.from
      BY <2>2, <2>4, Zenon DEF Ahead
    <3>2. Reported(q.errors, LineOf(Ahead(q)))
      BY <2>1, <2>2, <2>3, <2>4, <3>1, ReportedIs, Zenon
    <3>3. Sound(q)
      BY <2>1, <2>2, <2>4, <3>2, Zenon DEF Sound
    <3>4. k <= Unread(q)
      <4>1. Ahead(p) <= Unread(q)
        BY <2>2, <2>4, Zenon
      <4> QED BY <2>1, <2>3, <4>1
    <3>5. q.next.type \in TokenTypes
      BY <2>2, <2>4, Zenon DEF IsParser, IsToken
    <3> QED BY <1>2, <2>2, <2>4, <3>3, <3>4, <3>5, PeekedIs, Zenon DEF From
  <2>5. CASE Throws(q)
    <3>1. Reported(q.errors, LineOf(q.at))
      BY <2>1, <2>2, <2>3, <2>5, ReportedIs, Zenon
    <3>2. Sound(q)
      BY <2>1, <2>2, <2>5, <3>1, Zenon DEF Sound
    <3>3. k <= Unread(q)
      <4>1. Ahead(p) <= Unread(q)
        BY <2>2, <2>5, Zenon
      <4> QED BY <2>1, <2>3, <4>1
    <3> QED BY <2>5, <3>2, <3>3, PeekedIs, Zenon DEF From
  <2> QED BY <2>4, <2>5
<1> QED BY <1>1, <1>2

(* The parser takes the token that it sees. *)
LEMMA TakeFrom ==
  ASSUME text \in Seq(STRING), NEW p, NEW k \in Nat, From(p, k), ~Throws(p), p.next # NoToken,
         NEW r, r = PopToken(p)
  PROVE  /\ From(r, k) /\ ~Throws(r)
         /\ p.next.type # "end_of_file" => From(r, k + 1)
         /\ r.token = p.next /\ r.token.from \in Nat /\ r.token.from <= r.scanner.pos
         /\ Reported(r.errors, LineOf(r.token.from))
<1>1. r = [p EXCEPT !.token = p.next, !.next = NoToken]
  BY PeekedIs, Zenon DEF PopToken, Pop
<1>2. /\ IsRecord(p) /\ IsParser(p) /\ InOrder(p.errors) /\ Reported(p.errors, LineOf(Ahead(p)))
      /\ k <= Unread(p)
  BY Zenon DEF From, Sound, IsParser
<1>3. /\ IsRecord(r) /\ r.scanner = p.scanner /\ r.next = NoToken /\ r.token = p.next
      /\ r.thrown = p.thrown /\ r.at = p.at /\ r.errors = p.errors
  BY <1>1, <1>2 DEF IsRecord
<1>4. IsParser(r) /\ ~Throws(r)
  BY <1>2, <1>3, NoTokenIs, Zenon DEF IsParser, Throws
<1>5. /\ Unread(p) = p.next.from /\ Ahead(p) = p.next.from /\ Unread(r) = r.scanner.pos
  BY <1>3, Zenon DEF Unread, Ahead
<1>6. /\ Unread(p) \in Nat /\ Unread(p) <= p.scanner.pos /\ p.scanner.pos \in Nat
      /\ Ahead(r) \in Nat /\ Unread(r) \in Nat /\ Unread(r) <= Ahead(r)
  BY <1>2, <1>4, AheadIs, Zenon
<1>7. p.next.type # "end_of_file" => p.next.from < p.scanner.pos
  BY <1>2, Zenon DEF IsParser, IsToken
<1>8. Ahead(p) <= Ahead(r) /\ Ahead(p) \in Nat /\ k <= Unread(r)
  BY <1>2, <1>3, <1>5, <1>6
<1>9. Reported(r.errors, LineOf(Ahead(r)))
  <2>1. p.errors \in Seq(Reports)
    BY <1>2, Zenon DEF IsParser
  <2> QED BY <1>2, <1>3, <1>6, <1>8, <2>1, ReportedIs, Zenon
<1>10. Sound(r)
  BY <1>2, <1>3, <1>4, <1>9, Zenon DEF Sound
<1>11. p.next.type # "end_of_file" => k + 1 <= Unread(r)
  <2>1. p.next.type # "end_of_file" => Unread(p) < Unread(r)
    BY <1>3, <1>5, <1>7, Zenon
  <2> QED BY <1>2, <1>6, <2>1
<1>12. r.token.from \in Nat /\ r.token.from <= r.scanner.pos
  BY <1>3, <1>5, <1>6, Zenon
<1>13. Reported(r.errors, LineOf(r.token.from))
  BY <1>2, <1>3, <1>5, Zenon
<1> QED BY <1>3, <1>4, <1>8, <1>10, <1>11, <1>12, <1>13, Zenon DEF From

(* pop_token, whatever it finds. *)
LEMMA PopFrom ==
  ASSUME text \in Seq(STRING), NEW p, NEW k \in Nat, From(p, k), NEW r, r = PopToken(p)
  PROVE  /\ From(r, k)
         /\ ~Throws(r) => /\ r.token.type \in TokenTypes
                          /\ r.token.type # "end_of_file" => From(r, k + 1)
                          /\ r.token.from \in Nat /\ r.token.from <= r.scanner.pos
                          /\ Reported(r.errors, LineOf(r.token.from))
<1> DEFINE q == PeekToken(p)
<1>1. /\ From(q, k) /\ PeekToken(q) = q
      /\ ~Throws(q) => ~Throws(p) /\ q.next # NoToken /\ q.next.type \in TokenTypes
  BY PeekFrom, Zenon
<1>2. r = PopToken(q)
  BY <1>1, Zenon DEF PopToken, Pop
<1> HIDE DEF q
<1>3. CASE Throws(q)
  <2>1. r = q
    BY <1>1, <1>2, <1>3, Zenon DEF PopToken, Pop
  <2> QED BY <1>1, <1>3, <2>1
<1>4. CASE ~Throws(q)
  <2>1. /\ From(r, k) /\ ~Throws(r)
        /\ q.next.type # "end_of_file" => From(r, k + 1)
        /\ r.token = q.next /\ r.token.from \in Nat /\ r.token.from <= r.scanner.pos
        /\ Reported(r.errors, LineOf(r.token.from))
    BY <1>1, <1>2, <1>4, TakeFrom, Zenon
  <2> QED BY <1>1, <1>4, <2>1, Zenon
<1> QED BY <1>3, <1>4

(* A token that is seen is taken. *)
LEMMA SeenFrom ==
  ASSUME text \in Seq(STRING), NEW p, NEW k \in Nat, From(p, k), NEW q, q = PeekToken(p),
         NEW type \in TokenTypes, type # "end_of_file", Sees(q, type)
  PROVE  From(PopToken(q), k + 1) /\ ~Throws(PopToken(q))
<1>1. From(q, k) /\ ~Throws(q) /\ q.next # NoToken /\ q.next.type = type
  BY PeekFrom, Zenon DEF Sees
<1> QED BY <1>1, TakeFrom, Zenon

LEMMA SkipTokenFrom ==
  ASSUME text \in Seq(STRING), NEW p, NEW k \in Nat, From(p, k),
         NEW type \in TokenTypes, type # "end_of_file", NEW error \in Errors,
         NEW r, r = SkipToken(p, type, error)
  PROVE  From(r, k) /\ (~Throws(r) => From(r, k + 1))
<1> DEFINE q == PeekToken(p)
<1>1. /\ From(q, k) /\ PeekToken(q) = q
      /\ ~Throws(q) => ~Throws(p) /\ q.next # NoToken /\ q.next.type \in TokenTypes
  BY PeekFrom, Zenon
<1>2. r = IF Sees(q, type) THEN PopToken(q) ELSE RaiseAt(q, error, q.next.from)
  <2>1. Pop(q) = PopToken(q)
    BY <1>1, Zenon DEF PopToken
  <2> QED BY <2>1, Zenon DEF SkipToken, SkipSeen
<1> HIDE DEF q
<1>3. CASE Sees(q, type)
  <2>1. From(r, k + 1) /\ From(r, k)
    <3>1. ~Throws(q) /\ q.next.type = type
      BY <1>3, Zenon DEF Sees
    <3>2. From(r, k + 1)
      BY <1>1, <1>2, <1>3, <3>1, TakeFrom, Zenon
    <3> QED BY <3>2, FromLess, Zenon
  <2> QED BY <2>1
<1>4. CASE ~Sees(q, type)
  <2>1. r = RaiseAt(q, error, q.next.from)
    BY <1>2, <1>4, Zenon
  <2>2. CASE Throws(q)
    <3>1. r = q
      BY <2>1, <2>2, Zenon DEF RaiseAt
    <3> QED BY <1>1, <2>2, <3>1, Zenon
  <2>3. CASE ~Throws(q)
    <3> DEFINE at == q.next.from
    <3>1. IsParser(q) /\ Reported(q.errors, LineOf(Ahead(q))) /\ q.next # NoToken
      BY <1>1, <2>3, Zenon DEF From, Sound
    <3>2. Ahead(q) = at /\ Unread(q) = at
      BY <3>1, Zenon DEF Ahead, Unread
    <3>3. r = RaiseAt(q, error, at) /\ at \in Nat /\ at <= q.scanner.pos /\ Reported(q.errors, LineOf(at))
      BY <2>1, <3>1, <3>2, AheadIs, Zenon
    <3> HIDE DEF at
    <3>4. From(q, k)
      BY <1>1
    <3>5. From(r, k) /\ Throws(r)
      BY <2>3, <3>3, <3>4, RaiseFrom, SMT
    <3> QED BY <3>5
  <2> QED BY <2>2, <2>3
<1> QED BY <1>3, <1>4

LEMMA ExpectTokenFrom ==
  ASSUME text \in Seq(STRING), NEW p, NEW k \in Nat, From(p, k),
         NEW type \in TokenTypes, type # "end_of_file", NEW error \in Errors,
         NEW r, r = ExpectToken(p, type, error)
  PROVE  From(r, k) /\ (~Throws(r) => From(r, k + 1))
<1> DEFINE q == PopToken(p)
<1>1. /\ From(q, k)
      /\ ~Throws(q) => /\ q.token.type # "end_of_file" => From(q, k + 1)
                       /\ q.token.from <= q.scanner.pos
                       /\ Reported(q.errors, LineOf(q.token.from))
  BY PopFrom, Zenon
<1>2. r = IF q.token.type = type THEN q ELSE RaiseAt(q, error, q.token.from)
  BY Zenon DEF ExpectToken, ExpectTaken
<1>3. q.token.from \in Nat
  <2>1. q.token \in SomeToken
    BY <1>1, Zenon DEF From, Sound, IsParser
  <2> QED BY <2>1 DEF SomeToken
<1> HIDE DEF q
<1>4. CASE q.token.type = type
  BY <1>1, <1>2, <1>4, Zenon
<1>5. CASE q.token.type # type
  <2>1. r = RaiseAt(q, error, q.token.from)
    BY <1>2, <1>5, Zenon
  <2>2. CASE Throws(q)
    <3>1. r = q
      BY <2>1, <2>2, Zenon DEF RaiseAt
    <3> QED BY <1>1, <2>2, <3>1, Zenon
  <2>3. CASE ~Throws(q)
    <3> DEFINE at == q.token.from
    <3>1. r = RaiseAt(q, error, at) /\ at \in Nat /\ at <= q.scanner.pos /\ Reported(q.errors, LineOf(at))
      BY <1>1, <1>3, <2>1, <2>3, Zenon
    <3> HIDE DEF at
    <3>2. From(q, k)
      BY <1>1
    <3>3. From(r, k) /\ Throws(r)
      BY <2>3, <3>1, <3>2, RaiseFrom, SMT
    <3> QED BY <3>3
  <2> QED BY <2>2, <2>3
<1> QED BY <1>4, <1>5
-----------------------------------------------------------------------------
(* What a rule leaves when it has taken something, unless it throws. *)
Took(p, j, m) == From(p, j) /\ (~Throws(p) => From(p, m))

(* What the rules take. *)
ProperTypes == TokenTypes \ {"end_of_file"}

(* What the rules at hand do with a parser that is at m or further on. *)
CallsFrom(calls, m) ==
  \A rule \in Rules, weakest \in Precedences, p \in Parsers :
    /\ ~Throws(p) /\ m <= Unread(p)
    /\ Sound(p) \/ (rule = "block" /\ Resumed(p))
    => From(calls[rule][weakest][p], Unread(p))

LEMMA TypesAre ==
  {"(", ")", "[", "]", "{", "}", ",", ":", ".", "=", "string", "identifier", "var", "return", "if",
   "else", "while", "break", "continue", "integer", "function", "null", "+", "import"}
    \subseteq ProperTypes
BY DEF ProperTypes, TokenTypes, SingleCharTokens, Keywords

LEMMA ErrorsAre ==
  /\ EndOfFileInBlock \in Errors /\ "unexpected_brace" \in Errors
  /\ "expression_expected" \in Errors /\ "bracket_expected" \in Errors
  /\ "argument_list_expected" \in Errors /\ "assignment_expected" \in Errors
  /\ "closing_bracket_expected" \in Errors /\ "comma_or_parenthesis_expected" \in Errors
  /\ "element_name_expected" \in Errors /\ "method_name_expected" \in Errors
  /\ "end_of_parameters_expected" \in Errors /\ "function_body_expected" \in Errors
  /\ "if_block_expected" \in Errors /\ "else_block_expected" \in Errors
  /\ "while_block_expected" \in Errors /\ "key_expected" \in Errors
  /\ "parenthesis_expected" \in Errors /\ "variable_name_expected" \in Errors
BY Zenon DEF Errors

LEMMA FromFewer ==
  ASSUME text \in Seq(STRING), NEW p, NEW j \in Nat, NEW m \in Nat, j <= m, From(p, m)
  PROVE  From(p, j)
<1>1. Unread(p) \in Nat /\ m <= Unread(p)
  BY AheadIs, Zenon DEF From, Sound
<1>2. j <= Unread(p)
  BY <1>1
<1> QED BY <1>2, Zenon DEF From

LEMMA TookYields ==
  ASSUME NEW p, NEW j, NEW m, Took(p, j, m), NEW tree
  PROVE  Took(Yields(p, tree), j, m) /\ (Throws(Yields(p, tree)) <=> Throws(p))
BY YieldsFrom, Zenon DEF Took

LEMMA TookFirst ==
  ASSUME NEW p, NEW j, NEW m, Took(p, j, m), NEW first
  PROVE  Took(YieldsFirst(first, p), j, m)
BY TookYields, Zenon DEF YieldsFirst

LEMMA TookPeek ==
  ASSUME text \in Seq(STRING), NEW p, NEW j \in Nat, NEW m \in Nat, Took(p, j, m)
  PROVE  Took(PeekToken(p), j, m)
<1> DEFINE q == PeekToken(p)
<1>1. From(q, j) /\ (~Throws(q) => ~Throws(p))
  BY PeekFrom, Zenon DEF Took
<1>2. CASE Throws(q)
  BY <1>1, <1>2, Zenon DEF Took
<1>3. CASE ~Throws(q)
  <2>1. From(p, m)
    BY <1>1, <1>3, Zenon DEF Took
  <2>2. From(q, m)
    BY <2>1, PeekFrom, Zenon
  <2> QED BY <1>1, <2>2, Zenon DEF Took
<1> QED BY <1>2, <1>3

(* A token that is seen is taken. *)
LEMMA TookSeen ==
  ASSUME text \in Seq(STRING), NEW p, NEW j \in Nat, NEW m \in Nat, j <= m, Took(p, j, m),
         NEW type \in ProperTypes, Sees(PeekToken(p), type)
  PROVE  From(PopToken(PeekToken(p)), m) /\ Took(PopToken(PeekToken(p)), j, m)
<1> DEFINE q == PeekToken(p)
<1>1. ~Throws(q) /\ q.next.type = type
  BY Zenon DEF Sees
<1>2. Took(q, j, m)
  BY TookPeek, Zenon
<1>3. From(q, m)
  BY <1>1, <1>2, Zenon DEF Took
<1>4. q.next # NoToken
  BY <1>1, PeekFrom, Zenon DEF Took
<1> HIDE DEF q
<1>5. From(PopToken(q), m)
  BY <1>1, <1>3, <1>4, TakeFrom, Zenon
<1>6. From(PopToken(q), j)
  BY <1>5, FromFewer, Zenon
<1> QED BY <1>5, <1>6, Zenon DEF q, Took

LEMMA TookSkip ==
  ASSUME text \in Seq(STRING), NEW p, NEW j \in Nat, NEW m \in Nat, Took(p, j, m),
         NEW type \in ProperTypes, NEW error \in Errors
  PROVE  Took(SkipToken(p, type, error), j, m)
<1> DEFINE r == SkipToken(p, type, error)
<1>0. type \in TokenTypes /\ type # "end_of_file"
  BY Zenon DEF ProperTypes
<1>1. From(r, j)
  BY <1>0, SkipTokenFrom, Zenon DEF Took
<1>2. ASSUME ~Throws(r) PROVE From(r, m)
  <2>1. ~Throws(p)
    <3>1. SUFFICES ASSUME Throws(p) PROVE FALSE
      OBVIOUS
    <3>2. PeekToken(p) = p
      BY <3>1, PeekedIs, Zenon
    <3>3. r = p
      BY <3>1, <3>2, Zenon DEF SkipToken, SkipSeen, Sees, RaiseAt
    <3> QED BY <1>2, <3>1, <3>3, Zenon
  <2>2. From(p, m)
    BY <2>1, Zenon DEF Took
  <2> QED BY <1>0, <2>2, SkipTokenFrom, Zenon
<1> QED BY <1>1, <1>2, Zenon DEF Took

LEMMA TookExpect ==
  ASSUME text \in Seq(STRING), NEW p, NEW j \in Nat, NEW m \in Nat, Took(p, j, m),
         NEW type \in ProperTypes, NEW error \in Errors
  PROVE  Took(ExpectToken(p, type, error), j, m)
<1> DEFINE r == ExpectToken(p, type, error)
<1>0. type \in TokenTypes /\ type # "end_of_file"
  BY Zenon DEF ProperTypes
<1>1. From(r, j)
  BY <1>0, ExpectTokenFrom, Zenon DEF Took
<1>2. ASSUME ~Throws(r) PROVE From(r, m)
  <2>1. ~Throws(p)
    <3>1. SUFFICES ASSUME Throws(p) PROVE FALSE
      OBVIOUS
    <3>2. PeekToken(p) = p
      BY <3>1, PeekedIs, Zenon
    <3>3. PopToken(p) = p
      BY <3>1, <3>2, Zenon DEF PopToken, Pop
    <3>4. r = p
      BY <3>1, <3>3, Zenon DEF ExpectToken, ExpectTaken, RaiseAt
    <3> QED BY <1>2, <3>1, <3>4, Zenon
  <2>2. From(p, m)
    BY <2>1, Zenon DEF Took
  <2> QED BY <1>0, <2>2, ExpectTokenFrom, Zenon
<1> QED BY <1>1, <1>2, Zenon DEF Took

LEMMA SamePlace ==
  ASSUME NEW p, NEW q, q.scanner = p.scanner, q.next = p.next, q.thrown = p.thrown
  PROVE  Unread(q) = Unread(p) /\ Ahead(q) = Ahead(p) /\ (Throws(q) <=> Throws(p))
BY Zenon DEF Unread, Ahead, Throws

LEMMA EmptiedIs ==
  ASSUME text \in Seq(STRING), NEW p, IsParser(p), NEW q, q = [p EXCEPT !.value = NullTree]
  PROVE  /\ q \in Parsers /\ IsParser(q) /\ q.scanner = p.scanner /\ q.next = p.next
         /\ q.token = p.token /\ q.thrown = p.thrown /\ q.at = p.at /\ q.errors = p.errors
         /\ Unread(q) = Unread(p) /\ Ahead(q) = Ahead(p) /\ (Throws(q) <=> Throws(p))
<1>1. IsRecord(p)
  BY Zenon DEF IsParser
<1>2. /\ IsRecord(q) /\ q.scanner = p.scanner /\ q.next = p.next /\ q.token = p.token
      /\ q.value = NullTree
      /\ q.thrown = p.thrown /\ q.at = p.at /\ q.errors = p.errors
  BY <1>1 DEF IsRecord
<1>3. IsParser(q)
  BY <1>2, Zenon DEF IsParser
<1>4. Unread(q) = Unread(p) /\ Ahead(q) = Ahead(p) /\ (Throws(q) <=> Throws(p))
  BY <1>2, SamePlace, Zenon
<1>5. q \in Parsers
  <2>1. q.scanner \in [text : Seq(STRING), pos : Nat, wasInteger : BOOLEAN]
    <3>1. q.scanner \in Scanners(text)
      BY <1>3, Zenon DEF IsParser
    <3> DEFINE s == q.scanner
    <3>2. s \in Scanners(text)
      BY <3>1
    <3> HIDE DEF s
    <3>3. s \in [text : Seq(STRING), pos : Nat, wasInteger : BOOLEAN]
      BY <3>2 DEF Scanners
    <3> QED BY <3>3 DEF s
  <2>2. /\ q.next \in SomeToken /\ q.token \in SomeToken /\ q.thrown \in Errors \cup {""}
        /\ q.at \in Nat /\ q.errors \in Seq(Reports) /\ q.value \in {NullTree}
    BY <1>2, <1>3, Zenon DEF IsParser
  <2>3. q = [scanner |-> q.scanner, next |-> q.next, token |-> q.token, value |-> q.value,
             thrown |-> q.thrown, at |-> q.at, errors |-> q.errors]
    BY <1>2, Zenon DEF IsRecord
  <2> QED BY <2>1, <2>2, <2>3, Zenon DEF Parsers
<1> QED BY <1>2, <1>3, <1>4, <1>5

LEMMA CallFrom ==
  ASSUME text \in Seq(STRING), NEW calls, NEW m \in Nat, CallsFrom(calls, m),
         NEW rule \in Rules, NEW weakest \in Precedences, NEW p, IsParser(p), ~Throws(p),
         m <= Unread(p), Sound(p) \/ (rule = "block" /\ Resumed(p))
  PROVE  From(CallWithin(calls, rule, weakest, p), m)
<1> DEFINE q == [p EXCEPT !.value = NullTree]
<1>1. CallWithin(calls, rule, weakest, p) = calls[rule][weakest][q]
  BY Zenon DEF CallWithin
<1>2. q = [p EXCEPT !.value = NullTree]
  OBVIOUS
<1> HIDE DEF q
<1>3. /\ q \in Parsers /\ IsParser(q) /\ q.scanner = p.scanner /\ q.next = p.next
      /\ q.token = p.token /\ q.thrown = p.thrown /\ q.at = p.at /\ q.errors = p.errors
      /\ Unread(q) = Unread(p) /\ Ahead(q) = Ahead(p) /\ (Throws(q) <=> Throws(p))
  BY <1>2, EmptiedIs, Zenon
<1>4. (Sound(p) => Sound(q)) /\ (Resumed(p) => Resumed(q))
  BY <1>3, Zenon DEF Sound, Resumed
<1>5. From(calls[rule][weakest][q], Unread(q))
  BY <1>3, <1>4, Zenon DEF CallsFrom
<1>6. Unread(p) \in Nat
  BY AheadIs, Zenon
<1>7. From(calls[rule][weakest][q], m)
  BY <1>3, <1>5, <1>6, FromFewer, Zenon
<1> QED BY <1>1, <1>7, Zenon

LEMMA TookCall ==
  ASSUME text \in Seq(STRING), NEW calls, NEW j \in Nat, NEW m \in Nat, j <= m,
         CallsFrom(calls, m), NEW rule \in Rules, NEW p, Took(p, j, m)
  PROVE  /\ \A weakest \in Precedences : Took(CallWithin(calls, rule, weakest, p), j, m)
         /\ Took(Call(calls, rule, p), j, m)
<1>1. ASSUME NEW weakest \in Precedences
      PROVE  Took(CallWithin(calls, rule, weakest, p), j, m)
  <2>1. CASE Throws(p)
    BY <2>1, Zenon DEF CallWithin
  <2>2. CASE ~Throws(p)
    <3>1. Sound(p) /\ IsParser(p) /\ m <= Unread(p)
      BY <2>2, Zenon DEF Took, From, Sound
    <3>2. From(CallWithin(calls, rule, weakest, p), m)
      BY <2>2, <3>1, CallFrom, Zenon
    <3> QED BY <3>2, FromFewer, Zenon DEF Took
  <2> QED BY <2>1, <2>2
<1>2. WeakestPrecedence \in Precedences
  BY DEF WeakestPrecedence, Precedences
<1> QED BY <1>1, <1>2, Zenon DEF Call
-----------------------------------------------------------------------------
LEMMA TookCalls ==
  ASSUME text \in Seq(STRING), NEW calls, NEW j \in Nat, NEW m \in Nat, j <= m,
         CallsFrom(calls, m), NEW p, Took(p, j, m)
  PROVE  /\ Took(Call(calls, "expression", p), j, m) /\ Took(Call(calls, "operand", p), j, m)
         /\ Took(Call(calls, "primary_tail", p), j, m) /\ Took(Call(calls, "arguments", p), j, m)
         /\ Took(Call(calls, "elements", p), j, m) /\ Took(Call(calls, "strings", p), j, m)
         /\ Took(Call(calls, "parameters", p), j, m) /\ Took(Call(calls, "block", p), j, m)
         /\ \A weakest \in Precedences :
              /\ Took(CallWithin(calls, "expression", weakest, p), j, m)
              /\ Took(CallWithin(calls, "infix_tail", weakest, p), j, m)
<1>1. /\ "expression" \in Rules /\ "infix_tail" \in Rules /\ "operand" \in Rules
      /\ "primary_tail" \in Rules /\ "arguments" \in Rules /\ "elements" \in Rules
      /\ "strings" \in Rules /\ "parameters" \in Rules /\ "block" \in Rules
  BY DEF Rules
<1>2. \A rule \in Rules :
        /\ Took(Call(calls, rule, p), j, m)
        /\ \A weakest \in Precedences : Took(CallWithin(calls, rule, weakest, p), j, m)
  BY TookCall, Zenon
<1> QED BY <1>1, <1>2, Zenon

LEMMA FirstTook ==
  ASSUME text \in Seq(STRING), NEW p, NEW k \in Nat, From(p, k),
         NEW type \in ProperTypes, Sees(PeekToken(p), type)
  PROVE  Took(PopToken(PeekToken(p)), k, k + 1)
<1>1. type \in TokenTypes /\ type # "end_of_file"
  BY Zenon DEF ProperTypes
<1>2. From(PopToken(PeekToken(p)), k + 1)
  BY <1>1, SeenFrom, Zenon
<1> QED BY <1>2, FromLess, Zenon DEF Took

LEMMA FirstSkip ==
  ASSUME text \in Seq(STRING), NEW p, NEW k \in Nat, From(p, k),
         NEW type \in ProperTypes, NEW error \in Errors
  PROVE  Took(SkipToken(p, type, error), k, k + 1)
<1>1. type \in TokenTypes /\ type # "end_of_file"
  BY Zenon DEF ProperTypes
<1> QED BY <1>1, SkipTokenFrom, Zenon DEF Took

LEMMA FirstExpect ==
  ASSUME text \in Seq(STRING), NEW p, NEW k \in Nat, From(p, k),
         NEW type \in ProperTypes, NEW error \in Errors
  PROVE  Took(ExpectToken(p, type, error), k, k + 1)
<1>1. type \in TokenTypes /\ type # "end_of_file"
  BY Zenon DEF ProperTypes
<1> QED BY <1>1, ExpectTokenFrom, Zenon DEF Took

LEMMA OperatorsAre ==
  ASSUME NEW token \in InfixOperators
  PROVE  token \in ProperTypes /\ Precedence(token) - 1 \in Precedences
<1>1. token \in ProperTypes
  BY DEF InfixOperators, ProperTypes, TokenTypes, SingleCharTokens, Keywords
<1>2. Precedence(token) \in 1 .. 14
  BY DEF InfixOperators, Precedence
<1> QED BY <1>1, <1>2 DEF Precedences, WeakestPrecedence

LEMMA PrefixOperatorsAre == PrefixOperators \subseteq ProperTypes
BY DEF PrefixOperators, ProperTypes, TokenTypes, SingleCharTokens

(* The token that is seen is taken. *)
LEMMA NextTook ==
  ASSUME text \in Seq(STRING), NEW p, NEW k \in Nat, From(p, k), ~Throws(PeekToken(p)),
         PeekToken(p).next.type \in ProperTypes
  PROVE  Took(PopToken(PeekToken(p)), k, k + 1)
<1> DEFINE type == PeekToken(p).next.type
<1>1. Sees(PeekToken(p), type) /\ type \in ProperTypes
  BY Zenon DEF Sees
<1> HIDE DEF type
<1> QED BY <1>1, FirstTook, Zenon

LEMMA InfixTailFrom ==
  ASSUME text \in Seq(STRING), NEW calls, NEW k \in Nat, CallsFrom(calls, k + 1),
         NEW p, From(p, k), NEW weakest \in Precedences
  PROVE  From(InfixTail(calls, p, weakest), k)
<1> DEFINE q == PeekToken(p)
           operator == q.next.type
           r == PopToken(q)
           right == CallWithin(calls, "expression", Precedence(operator) - 1, r)
           rest == CallWithin(calls, "infix_tail", weakest, right)
<1>1. InfixTail(calls, p, weakest) =
        IF Throws(q) \/ operator \notin InfixOperators \/ Precedence(operator) > weakest
        THEN Yields(q, <<>>)
        ELSE YieldsFirst(<<InfixName(operator), right.value>>, rest)
  BY Zenon DEF InfixTail
<1>2. From(q, k)
  BY PeekFrom, Zenon
<1>3. From(Yields(q, <<>>), k)
  BY <1>2, YieldsFrom, Zenon
<1>4. k + 1 \in Nat /\ k <= k + 1
  OBVIOUS
<1>5. ASSUME ~Throws(q), operator \in InfixOperators
      PROVE  From(YieldsFirst(<<InfixName(operator), right.value>>, rest), k)
  <2>1. operator \in ProperTypes /\ Precedence(operator) - 1 \in Precedences
    BY <1>5, OperatorsAre, Zenon
  <2>2. Took(r, k, k + 1)
    BY <1>5, <2>1, NextTook, Zenon
  <2> HIDE DEF r, operator
  <2>3. Took(right, k, k + 1)
    BY <1>4, <2>1, <2>2, TookCalls, Zenon
  <2> HIDE DEF right
  <2>4. Took(rest, k, k + 1)
    BY <1>4, <2>3, TookCalls, Zenon
  <2> HIDE DEF rest
  <2> QED BY <2>4, TookFirst, Zenon DEF Took
<1> QED BY <1>1, <1>3, <1>5, Zenon
LEMMA ArgumentsFromFrom ==
  ASSUME text \in Seq(STRING), NEW calls, NEW j \in Nat, NEW m \in Nat, j <= m,
         CallsFrom(calls, m), NEW argument, Took(argument, j, m)
  PROVE  Took(ArgumentsFrom(calls, argument), j, m)
<1> DEFINE q == PeekToken(argument)
           rest == Call(calls, "arguments", PopToken(q))
           closed == SkipToken(q, ")", "comma_or_parenthesis_expected")
<1>1. ArgumentsFrom(calls, argument) =
        IF Sees(q, ",") THEN YieldsFirst(argument.value, rest)
        ELSE Yields(closed, <<argument.value>>)
  BY Zenon DEF ArgumentsFrom
<1>2. Took(closed, j, m)
  BY TookPeek, TookSkip, TypesAre, ErrorsAre, Zenon
<1>3. ASSUME Sees(q, ",") PROVE Took(rest, j, m)
  <2>1. Took(PopToken(q), j, m)
    BY <1>3, TookSeen, TypesAre, Zenon
  <2> QED BY <2>1, TookCalls, Zenon
<1> HIDE DEF q, rest, closed
<1>4. Took(Yields(closed, <<argument.value>>), j, m)
  BY <1>2, TookYields, Zenon
<1>5. ASSUME Sees(q, ",") PROVE Took(YieldsFirst(argument.value, rest), j, m)
  BY <1>3, <1>5, TookFirst, Zenon
<1> QED BY <1>1, <1>4, <1>5, Zenon

LEMMA ArgumentListFrom ==
  ASSUME text \in Seq(STRING), NEW calls, NEW j \in Nat, NEW m \in Nat, j <= m,
         CallsFrom(calls, m), NEW p, Took(p, j, m)
  PROVE  Took(ParseArgumentList(calls, p), j, m)
<1> DEFINE q == PeekToken(p)
           first == Call(calls, "expression", q)
<1>1. ParseArgumentList(calls, p) =
        IF Sees(q, ")") THEN Yields(PopToken(q), <<>>) ELSE ArgumentsFrom(calls, first)
  BY Zenon DEF ParseArgumentList
<1>2. ASSUME Sees(q, ")") PROVE Took(Yields(PopToken(q), <<>>), j, m)
  BY <1>2, TookSeen, TookYields, TypesAre, Zenon
<1>3. Took(q, j, m)
  BY TookPeek, Zenon
<1> HIDE DEF q
<1>4. Took(first, j, m)
  BY <1>3, TookCalls, Zenon
<1> HIDE DEF first
<1>5. Took(ArgumentsFrom(calls, first), j, m)
  BY <1>4, ArgumentsFromFrom, Zenon
<1> QED BY <1>1, <1>2, <1>5, Zenon

LEMMA PrimaryTailFrom ==
  ASSUME text \in Seq(STRING), NEW calls, NEW k \in Nat, CallsFrom(calls, k + 1),
         NEW p, From(p, k)
  PROVE  From(PrimaryTail(calls, p), k)
<1> DEFINE q == PeekToken(p)
           rest == PopToken(q)
           arguments == ParseArgumentList(calls, rest)
           key == Call(calls, "expression", rest)
           closed == SkipToken(key, "]", "bracket_expected")
           element == ExpectToken(rest, "identifier", "element_name_expected")
           method == ExpectToken(rest, "identifier", "method_name_expected")
           called == SkipToken(method, "(", "argument_list_expected")
           passed == ParseArgumentList(calls, called)
           GoOn(r, suffix) == YieldsFirst(suffix, Call(calls, "primary_tail", r))
<1>1. PrimaryTail(calls, p) =
        CASE Sees(q, "(") -> GoOn(arguments, CallTree(NullTree, arguments.value))
          [] Sees(q, "[") -> GoOn(closed, SubscriptTree(NullTree, closed.value))
          [] Sees(q, ".") ->
               GoOn(element, DotTree(NullTree, Spelling(element, element.token)))
          [] Sees(q, ":") ->
               GoOn(passed, MethodCallTree(NullTree, Spelling(method, method.token), passed.value))
          [] OTHER -> Yields(q, <<>>)
  BY Zenon DEF PrimaryTail
<1>2. From(Yields(q, <<>>), k)
  BY PeekFrom, YieldsFrom, Zenon
<1>3. k + 1 \in Nat /\ k <= k + 1
  OBVIOUS
<1>4. ASSUME NEW r, NEW suffix, Took(r, k, k + 1)
      PROVE  From(GoOn(r, suffix), k)
  <2>1. Took(Call(calls, "primary_tail", r), k, k + 1)
    BY <1>3, <1>4, TookCalls, Zenon
  <2> QED BY <2>1, TookFirst, Zenon DEF Took
<1>5. Sees(q, "(") \/ Sees(q, "[") \/ Sees(q, ".") \/ Sees(q, ":") => Took(rest, k, k + 1)
  BY FirstTook, TypesAre, Zenon
<1> HIDE DEF q, GoOn, rest
<1>6. Took(rest, k, k + 1) =>
        /\ Took(arguments, k, k + 1) /\ Took(closed, k, k + 1)
        /\ Took(element, k, k + 1) /\ Took(passed, k, k + 1)
  <2> SUFFICES ASSUME Took(rest, k, k + 1)
               PROVE  /\ Took(arguments, k, k + 1) /\ Took(closed, k, k + 1)
                      /\ Took(element, k, k + 1) /\ Took(passed, k, k + 1)
    OBVIOUS
  <2>1. Took(arguments, k, k + 1)
    BY <1>3, ArgumentListFrom, Zenon
  <2>2. Took(key, k, k + 1)
    BY <1>3, TookCalls, Zenon
  <2>3. Took(element, k, k + 1) /\ Took(method, k, k + 1)
    BY <1>3, TookExpect, TypesAre, ErrorsAre, Zenon
  <2> HIDE DEF key, method
  <2>4. Took(closed, k, k + 1) /\ Took(called, k, k + 1)
    BY <1>3, <2>2, <2>3, TookSkip, TypesAre, ErrorsAre, Zenon
  <2> HIDE DEF called
  <2>5. Took(passed, k, k + 1)
    BY <1>3, <2>4, ArgumentListFrom, Zenon
  <2> QED BY <2>1, <2>3, <2>4, <2>5
<1> HIDE DEF arguments, closed, element, method, passed
<1>7. Sees(q, "(") \/ Sees(q, "[") \/ Sees(q, ".") \/ Sees(q, ":") =>
        \A suffix : /\ From(GoOn(arguments, suffix), k) /\ From(GoOn(closed, suffix), k)
                    /\ From(GoOn(element, suffix), k) /\ From(GoOn(passed, suffix), k)
  BY <1>4, <1>5, <1>6, Zenon
<1> QED BY <1>1, <1>2, <1>7, Zenon

LEMMA TableFrom ==
  ASSUME text \in Seq(STRING), NEW calls, NEW k \in Nat, CallsFrom(calls, k + 1),
         NEW p, From(p, k)
  PROVE  From(ParseTable(calls, p), k)
<1> DEFINE q == PeekToken(p)
           key == ExpectToken(q, "identifier", "key_expected")
           sign == SkipToken(key, "=", "assignment_expected")
           value == Call(calls, "expression", sign)
           after == PeekToken(value)
           element == <<Spelling(key, key.token), value.value>>
           rest == Call(calls, "elements", PopToken(after))
           closed == SkipToken(after, "]", "closing_bracket_expected")
<1>1. ParseTable(calls, p) =
        IF Sees(q, "]") THEN Yields(PopToken(q), <<>>)
        ELSE IF Sees(after, ",") THEN YieldsFirst(element, rest)
        ELSE Yields(closed, <<element>>)
  BY Zenon DEF ParseTable
<1>2. From(q, k)
  BY PeekFrom, Zenon
<1>3. k + 1 \in Nat /\ k <= k + 1
  OBVIOUS
<1>4. ASSUME Sees(q, "]") PROVE From(Yields(PopToken(q), <<>>), k)
  BY <1>4, FirstTook, TypesAre, YieldsFrom, Zenon DEF Took
<1> HIDE DEF q
<1>5. Took(key, k, k + 1)
  BY <1>2, FirstExpect, TypesAre, ErrorsAre, Zenon
<1> HIDE DEF key, element
<1>6. Took(sign, k, k + 1)
  BY <1>3, <1>5, TookSkip, TypesAre, ErrorsAre, Zenon
<1> HIDE DEF sign
<1>7. Took(value, k, k + 1)
  BY <1>3, <1>6, TookCalls, Zenon
<1> HIDE DEF value
<1>8. Took(after, k, k + 1)
  BY <1>3, <1>7, TookPeek, Zenon
<1>9. ASSUME Sees(after, ",") PROVE From(YieldsFirst(element, rest), k)
  <2>1. Took(PopToken(after), k, k + 1)
    BY <1>3, <1>7, <1>9, TookSeen, TypesAre, Zenon
  <2>2. Took(rest, k, k + 1)
    BY <1>3, <2>1, TookCalls, Zenon
  <2> QED BY <2>2, TookFirst, Zenon DEF Took
<1> HIDE DEF after, rest
<1>10. Took(closed, k, k + 1)
  BY <1>3, <1>8, TookSkip, TypesAre, ErrorsAre, Zenon
<1> HIDE DEF closed
<1>11. From(Yields(closed, <<element>>), k)
  BY <1>10, TookYields, Zenon DEF Took
<1> QED BY <1>1, <1>4, <1>9, <1>11, Zenon

LEMMA StringsFrom ==
  ASSUME text \in Seq(STRING), NEW calls, NEW k \in Nat, CallsFrom(calls, k + 1),
         NEW p, From(p, k)
  PROVE  From(ParseString(calls, p), k)
<1> DEFINE q == PeekToken(p)
           part == PopToken(q)
           rest == Call(calls, "strings", part)
<1>1. ParseString(calls, p) =
        IF Sees(q, "string") THEN YieldsFirst(Spelling(part, part.token), rest)
        ELSE Yields(q, <<>>)
  BY Zenon DEF ParseString
<1>2. From(Yields(q, <<>>), k)
  BY PeekFrom, YieldsFrom, Zenon
<1>3. k + 1 \in Nat /\ k <= k + 1
  OBVIOUS
<1>4. ASSUME Sees(q, "string") PROVE From(YieldsFirst(Spelling(part, part.token), rest), k)
  <2>1. Took(part, k, k + 1)
    BY <1>4, FirstTook, TypesAre, Zenon
  <2> HIDE DEF part
  <2>2. Took(rest, k, k + 1)
    BY <1>3, <2>1, TookCalls, Zenon
  <2> HIDE DEF rest
  <2> QED BY <2>2, TookFirst, Zenon DEF Took
<1> QED BY <1>1, <1>2, <1>4, Zenon

LEMMA ParametersFrom ==
  ASSUME text \in Seq(STRING), NEW calls, NEW k \in Nat, CallsFrom(calls, k + 1),
         NEW p, From(p, k)
  PROVE  From(ParseParameters(calls, p), k)
<1> DEFINE q == PeekToken(p)
           parameter == PopToken(q)
           name == Spelling(parameter, parameter.token)
           after == PeekToken(parameter)
           rest == Call(calls, "parameters", PopToken(after))
<1>1. ParseParameters(calls, p) =
        IF ~Sees(q, "identifier") THEN Yields(q, <<>>)
        ELSE IF Sees(after, ",") THEN YieldsFirst(name, rest)
        ELSE Yields(after, <<name>>)
  BY Zenon DEF ParseParameters
<1>2. From(Yields(q, <<>>), k)
  BY PeekFrom, YieldsFrom, Zenon
<1>3. k + 1 \in Nat /\ k <= k + 1
  OBVIOUS
<1>4. ASSUME Sees(q, "identifier")
      PROVE  /\ Sees(after, ",") => From(YieldsFirst(name, rest), k)
             /\ From(Yields(after, <<name>>), k)
  <2>1. Took(parameter, k, k + 1)
    BY <1>4, FirstTook, TypesAre, Zenon
  <2> HIDE DEF parameter, name
  <2>2. Took(after, k, k + 1)
    BY <1>3, <2>1, TookPeek, Zenon
  <2>3. ASSUME Sees(after, ",") PROVE From(YieldsFirst(name, rest), k)
    <3>1. Took(PopToken(after), k, k + 1)
      BY <1>3, <2>1, <2>3, TookSeen, TypesAre, Zenon
    <3>2. Took(rest, k, k + 1)
      BY <1>3, <3>1, TookCalls, Zenon
    <3> QED BY <3>2, TookFirst, Zenon DEF Took
  <2> HIDE DEF after, rest
  <2>4. From(Yields(after, <<name>>), k)
    BY <2>2, TookYields, Zenon DEF Took
  <2> QED BY <2>3, <2>4
<1> QED BY <1>1, <1>2, <1>4, Zenon

LEMMA BlockTook ==
  ASSUME text \in Seq(STRING), NEW calls, NEW j \in Nat, NEW m \in Nat, j <= m,
         CallsFrom(calls, m), NEW p, Took(p, j, m), NEW error \in Errors
  PROVE  Took(ParseBlock(calls, p, error), j, m)
<1> DEFINE q == SkipToken(p, "{", error)
<1>1. Took(q, j, m)
  BY TookSkip, TypesAre, Zenon
<1>2. ParseBlock(calls, p, error) = Call(calls, "block", q)
  BY Zenon DEF ParseBlock
<1> HIDE DEF q
<1> QED BY <1>1, <1>2, TookCalls, Zenon

LEMMA FunctionTook ==
  ASSUME text \in Seq(STRING), NEW calls, NEW j \in Nat, NEW m \in Nat, j <= m,
         CallsFrom(calls, m), NEW p, Took(p, j, m)
  PROVE  Took(ParseFunction(calls, p), j, m)
<1> DEFINE q == PeekToken(p)
           list == Call(calls, "parameters", PopToken(q))
           skipped == SkipToken(list, ")", "end_of_parameters_expected")
           closed == IF Sees(q, "(") THEN skipped ELSE q
           inside == ParseBlock(calls, closed, "function_body_expected")
<1>1. \E tree : ParseFunction(calls, p) = Yields(inside, tree)
  BY Zenon DEF ParseFunction
<1>2. Took(q, j, m)
  BY TookPeek, Zenon
<1>3. ASSUME Sees(q, "(") PROVE Took(skipped, j, m)
  <2>1. Took(PopToken(q), j, m)
    BY <1>3, TookSeen, TypesAre, Zenon
  <2>2. Took(list, j, m)
    BY <2>1, TookCalls, Zenon
  <2> HIDE DEF list
  <2> QED BY <2>2, TookSkip, TypesAre, ErrorsAre, Zenon
<1>4. Took(closed, j, m)
  BY <1>2, <1>3, Zenon
<1> HIDE DEF closed
<1>5. Took(inside, j, m)
  BY <1>4, BlockTook, ErrorsAre, Zenon
<1> HIDE DEF inside
<1> QED BY <1>1, <1>5, TookYields, Zenon
-----------------------------------------------------------------------------
(* A parser that is about to take a token: it is then at m, or nothing was *)
(* taken and it is at j.                                                   *)
Opened(p, j, m) ==
  LET q == PopToken(p) IN
  /\ From(q, j)
  /\ ~Throws(q) => /\ q.token.type \in ProperTypes => From(q, m)
                   /\ q.token.from \in Nat /\ q.token.from <= q.scanner.pos
                   /\ Reported(q.errors, LineOf(q.token.from))

LEMMA OpenedIs ==
  ASSUME text \in Seq(STRING), NEW p, NEW k \in Nat, From(p, k)
  PROVE  Opened(p, k, k + 1)
<1> DEFINE q == PopToken(p)
<1>1. /\ From(q, k)
      /\ ~Throws(q) => /\ q.token.type # "end_of_file" => From(q, k + 1)
                       /\ q.token.from \in Nat /\ q.token.from <= q.scanner.pos
                       /\ Reported(q.errors, LineOf(q.token.from))
  BY PopFrom, Zenon
<1> QED BY <1>1, Zenon DEF Opened, ProperTypes

LEMMA SeenOpened ==
  ASSUME text \in Seq(STRING), NEW p, NEW k \in Nat, From(p, k), ~Throws(p), p.next # NoToken,
         p.next.type \in ProperTypes
  PROVE  From(PopToken(p), k + 1) /\ Opened(p, k + 1, k + 1)
<1> DEFINE q == PopToken(p)
<1>1. p.next.type # "end_of_file"
  BY Zenon DEF ProperTypes
<1>2. /\ From(q, k + 1) /\ ~Throws(q) /\ q.token.from \in Nat /\ q.token.from <= q.scanner.pos
      /\ Reported(q.errors, LineOf(q.token.from))
  BY <1>1, TakeFrom, Zenon
<1> QED BY <1>2, Zenon DEF Opened

LEMMA PrimaryTook ==
  ASSUME text \in Seq(STRING), NEW calls, NEW j \in Nat, NEW m \in Nat, j <= m,
         CallsFrom(calls, m), NEW p, Opened(p, j, m)
  PROVE  Took(ParsePrimary(calls, p), j, m)
<1> DEFINE q == PopToken(p)
           type == q.token.type
           inner == Call(calls, "expression", q)
           operand == Call(calls, "operand", q)
           table == Call(calls, "elements", q)
           strings == Call(calls, "strings", q)
           closed == ExpectToken(inner, ")", "parenthesis_expected")
           function == ParseFunction(calls, q)
           raised == RaiseAt(q, "expression_expected", q.token.from)
           Joined(parts) == FoldLeft(LAMBDA all, part : all \o part, Spelling(q, q.token), parts)
<1>1. ParsePrimary(calls, p) =
        CASE Throws(q) -> q
          [] ~Throws(q) /\ type = "identifier" -> Yields(q, NameTree(Spelling(q, q.token)))
          [] ~Throws(q) /\ type = "integer" -> Yields(q, IntegerTree(DigitsOf(q, q.token)))
          [] ~Throws(q) /\ type = "(" -> closed
          [] ~Throws(q) /\ type = "function" -> function
          [] ~Throws(q) /\ type = "null" -> Yields(q, NullTree)
          [] ~Throws(q) /\ type = "[" -> Yields(table, TableTree(table.value))
          [] ~Throws(q) /\ type \in PrefixOperators ->
               Yields(operand, UnaryTree(PrefixName(type), operand.value))
          [] ~Throws(q) /\ type = "+" -> operand
          [] ~Throws(q) /\ type = "string" -> Yields(strings, StringTree(Joined(strings.value)))
          [] ~Throws(q) /\ type = "import" -> Yields(inner, ImportTree(inner.value))
          [] OTHER -> raised
  BY Zenon DEF ParsePrimary, PrimaryFrom
<1>2. /\ From(q, j)
      /\ ~Throws(q) => /\ q.token.type \in ProperTypes => From(q, m)
                       /\ q.token.from \in Nat /\ q.token.from <= q.scanner.pos
                       /\ Reported(q.errors, LineOf(q.token.from))
  BY Zenon DEF Opened
<1> HIDE DEF q, Joined
<1>3. CASE Throws(q)
  <2>1. ParsePrimary(calls, p) = q
    BY <1>1, <1>3, Zenon
  <2> QED BY <1>2, <1>3, <2>1, Zenon DEF Took
<1>4. ASSUME ~Throws(q) PROVE Took(raised, j, m)
  <2> DEFINE at == q.token.from
  <2>1. at \in Nat /\ at <= q.scanner.pos /\ Reported(q.errors, LineOf(at)) /\ raised = RaiseAt(q, "expression_expected", at)
    BY <1>2, <1>4, Zenon
  <2> HIDE DEF at, raised
  <2>2. From(q, j) /\ "expression_expected" \in Errors
    BY <1>2, ErrorsAre, Zenon
  <2>3. From(raised, j) /\ Throws(raised)
    BY <1>4, <2>1, <2>2, RaiseFrom, SMT
  <2> QED BY <2>3, Zenon DEF Took
<1>5. CASE ~Throws(q) /\ type \notin ProperTypes
  <2>1. /\ type # "identifier" /\ type # "integer" /\ type # "(" /\ type # "function"
        /\ type # "null" /\ type # "[" /\ type \notin PrefixOperators /\ type # "+"
        /\ type # "string" /\ type # "import"
    BY <1>5, TypesAre, PrefixOperatorsAre, Zenon
  <2> HIDE DEF type, inner, operand, table, strings, closed, function, raised
  <2>2. ParsePrimary(calls, p) = raised
    BY <1>1, <1>5, <2>1, Zenon
  <2> QED BY <1>4, <1>5, <2>2, Zenon
<1>6. CASE ~Throws(q) /\ type \in ProperTypes
  <2>1. Took(q, j, m)
    BY <1>2, <1>6, Zenon DEF Took
  <2>2. Took(inner, j, m) /\ Took(operand, j, m) /\ Took(table, j, m) /\ Took(strings, j, m)
    BY <2>1, TookCalls, Zenon
  <2>3. Took(function, j, m)
    BY <2>1, FunctionTook, Zenon
  <2> HIDE DEF type, inner, operand, table, strings, function
  <2>4. Took(closed, j, m)
    BY <2>2, TookExpect, TypesAre, ErrorsAre, Zenon
  <2> HIDE DEF closed, raised
  <2>5. \A tree : /\ Took(Yields(q, tree), j, m) /\ Took(Yields(inner, tree), j, m)
                  /\ Took(Yields(operand, tree), j, m) /\ Took(Yields(table, tree), j, m)
                  /\ Took(Yields(strings, tree), j, m)
    BY <2>1, <2>2, TookYields, Zenon
  <2>6. Took(raised, j, m)
    BY <1>4, <1>6
  <2> QED BY <1>1, <1>6, <2>2, <2>3, <2>4, <2>5, <2>6, Zenon
<1> QED BY <1>3, <1>5, <1>6

LEMMA ExtendedPrimaryTook ==
  ASSUME text \in Seq(STRING), NEW calls, NEW j \in Nat, NEW m \in Nat, j <= m,
         CallsFrom(calls, m), NEW p, Opened(p, j, m)
  PROVE  Took(ParseExtendedPrimary(calls, p), j, m)
<1> DEFINE primary == ParsePrimary(calls, p)
           tail == Call(calls, "primary_tail", primary)
<1>1. \E tree : ParseExtendedPrimary(calls, p) = Yields(tail, tree)
  BY Zenon DEF ParseExtendedPrimary, Extended
<1>2. Took(primary, j, m)
  BY PrimaryTook, Zenon
<1> HIDE DEF primary
<1>3. Took(tail, j, m)
  BY <1>2, TookCalls, Zenon
<1> HIDE DEF tail
<1> QED BY <1>1, <1>3, TookYields, Zenon

LEMMA InfixTook ==
  ASSUME text \in Seq(STRING), NEW calls, NEW j \in Nat, NEW m \in Nat, j <= m,
         CallsFrom(calls, m), NEW p, Opened(p, j, m), NEW weakest \in Precedences
  PROVE  Took(ParseInfix(calls, p, weakest), j, m)
<1> DEFINE first == ParseExtendedPrimary(calls, p)
           tail == CallWithin(calls, "infix_tail", weakest, first)
<1>1. \E tree : ParseInfix(calls, p, weakest) = Yields(tail, tree)
  BY Zenon DEF ParseInfix, Combined
<1>2. Took(first, j, m)
  BY ExtendedPrimaryTook, Zenon
<1> HIDE DEF first
<1>3. Took(tail, j, m)
  BY <1>2, TookCalls, Zenon
<1> HIDE DEF tail
<1> QED BY <1>1, <1>3, TookYields, Zenon

LEMMA ExpressionTook ==
  ASSUME text \in Seq(STRING), NEW calls, NEW j \in Nat, NEW m \in Nat, j <= m,
         CallsFrom(calls, m), NEW p, Opened(p, j, m)
  PROVE  Took(ParseExpression(calls, p), j, m)
<1>1. WeakestPrecedence \in Precedences
  BY DEF WeakestPrecedence, Precedences
<1> QED BY <1>1, InfixTook, Zenon DEF ParseExpression
-----------------------------------------------------------------------------
LEMMA DeclarationFrom ==
  ASSUME text \in Seq(STRING), NEW calls, NEW m \in Nat, CallsFrom(calls, m),
         NEW p, Took(PopToken(p), m, m)
  PROVE  Took(ParseDeclaration(calls, p), m, m)
<1> DEFINE name == ExpectToken(PopToken(p), "identifier", "variable_name_expected")
           sign == SkipToken(name, "=", "assignment_expected")
           value == Call(calls, "expression", sign)
<1>1. ParseDeclaration(calls, p) =
        Yields(value, DeclarationTree(Spelling(name, name.token), value.value))
  BY Zenon DEF ParseDeclaration
<1>2. Took(name, m, m)
  BY TookExpect, TypesAre, ErrorsAre, Zenon
<1> HIDE DEF name
<1>3. Took(sign, m, m)
  BY <1>2, TookSkip, TypesAre, ErrorsAre, Zenon
<1> HIDE DEF sign
<1>4. m <= m
  OBVIOUS
<1>5. Took(value, m, m)
  BY <1>3, <1>4, TookCalls, Zenon
<1> HIDE DEF value
<1> QED BY <1>1, <1>5, TookYields, Zenon

LEMMA ReturnFrom ==
  ASSUME text \in Seq(STRING), NEW calls, NEW m \in Nat, CallsFrom(calls, m),
         NEW p, Took(PopToken(p), m, m)
  PROVE  Took(ParseReturn(calls, p), m, m)
<1> DEFINE value == Call(calls, "expression", PopToken(p))
<1>1. ParseReturn(calls, p) = Yields(value, ReturnTree(value.value))
  BY Zenon DEF ParseReturn
<1>2. m <= m
  OBVIOUS
<1>3. Took(value, m, m)
  BY <1>2, TookCalls, Zenon
<1> HIDE DEF value
<1> QED BY <1>1, <1>3, TookYields, Zenon

LEMMA IfFrom ==
  ASSUME text \in Seq(STRING), NEW calls, NEW m \in Nat, CallsFrom(calls, m),
         NEW p, Took(PopToken(p), m, m)
  PROVE  Took(ParseIf(calls, p), m, m)
<1> DEFINE condition == Call(calls, "expression", PopToken(p))
           onTrue == ParseBlock(calls, condition, "if_block_expected")
           q == PeekToken(onTrue)
           onFalse == ParseBlock(calls, PopToken(q), "else_block_expected")
           If(branches) == IfTree(condition.value, BlockTree(onTrue.value), branches)
<1>1. ParseIf(calls, p) =
        IF Sees(q, "else") THEN Yields(onFalse, If(<<BlockTree(onFalse.value)>>))
        ELSE Yields(q, If(<<>>))
  BY Zenon DEF ParseIf
<1>2. m <= m
  OBVIOUS
<1>3. Took(condition, m, m)
  BY <1>2, TookCalls, Zenon
<1> HIDE DEF condition
<1>4. Took(onTrue, m, m)
  BY <1>2, <1>3, BlockTook, ErrorsAre, Zenon
<1> HIDE DEF onTrue, If
<1>5. Took(q, m, m)
  BY <1>4, TookPeek, Zenon
<1>6. ASSUME Sees(q, "else") PROVE Took(onFalse, m, m)
  <2>1. Took(PopToken(q), m, m)
    BY <1>2, <1>4, <1>6, TookSeen, TypesAre, Zenon
  <2> QED BY <1>2, <2>1, BlockTook, ErrorsAre, Zenon
<1> HIDE DEF q, onFalse
<1>7. Took(Yields(q, If(<<>>)), m, m)
  BY <1>5, TookYields, Zenon
<1>8. ASSUME Sees(q, "else") PROVE Took(Yields(onFalse, If(<<BlockTree(onFalse.value)>>)), m, m)
  BY <1>6, <1>8, TookYields, Zenon
<1> QED BY <1>1, <1>7, <1>8, Zenon

LEMMA WhileFrom ==
  ASSUME text \in Seq(STRING), NEW calls, NEW m \in Nat, CallsFrom(calls, m),
         NEW p, Took(PopToken(p), m, m)
  PROVE  Took(ParseWhile(calls, p), m, m)
<1> DEFINE condition == Call(calls, "expression", PopToken(p))
           inside == ParseBlock(calls, condition, "while_block_expected")
<1>1. ParseWhile(calls, p) = Yields(inside, WhileTree(condition.value, BlockTree(inside.value)))
  BY Zenon DEF ParseWhile
<1>2. m <= m
  OBVIOUS
<1>3. Took(condition, m, m)
  BY <1>2, TookCalls, Zenon
<1> HIDE DEF condition
<1>4. Took(inside, m, m)
  BY <1>2, <1>3, BlockTook, ErrorsAre, Zenon
<1> HIDE DEF inside
<1> QED BY <1>1, <1>4, TookYields, Zenon

LEMMA InnerBlockFrom ==
  ASSUME text \in Seq(STRING), NEW calls, NEW m \in Nat, CallsFrom(calls, m),
         NEW p, Took(PopToken(p), m, m)
  PROVE  Took(ParseInnerBlock(calls, p), m, m)
<1> DEFINE inside == Call(calls, "block", PopToken(p))
<1>1. ParseInnerBlock(calls, p) = Yields(inside, BlockTree(inside.value))
  BY Zenon DEF ParseInnerBlock
<1>2. m <= m
  OBVIOUS
<1>3. Took(inside, m, m)
  BY <1>2, TookCalls, Zenon
<1> HIDE DEF inside
<1> QED BY <1>1, <1>3, TookYields, Zenon

LEMMA AssignmentFrom ==
  ASSUME text \in Seq(STRING), NEW calls, NEW m \in Nat, CallsFrom(calls, m),
         NEW p, Opened(p, m, m)
  PROVE  Took(ParseAssignmentOrExpression(calls, p), m, m)
<1> DEFINE first == ParseExpression(calls, p)
           left == PeekToken(first)
           right == Call(calls, "expression", PopToken(left))
<1>1. ParseAssignmentOrExpression(calls, p) =
        IF Sees(left, "=") THEN Yields(right, AssignmentTree(left.value, right.value))
        ELSE Yields(left, ExpressionStatementTree(left.value))
  BY Zenon DEF ParseAssignmentOrExpression, StatementAfter
<1>2. m <= m
  OBVIOUS
<1>3. Took(first, m, m)
  BY <1>2, ExpressionTook, Zenon
<1> HIDE DEF first
<1>4. Took(left, m, m)
  BY <1>3, TookPeek, Zenon
<1>5. ASSUME Sees(left, "=") PROVE Took(right, m, m)
  <2>1. Took(PopToken(left), m, m)
    BY <1>2, <1>3, <1>5, TookSeen, TypesAre, Zenon
  <2> QED BY <1>2, <2>1, TookCalls, Zenon
<1> HIDE DEF left, right
<1> QED BY <1>1, <1>4, <1>5, TookYields, Zenon

(* A statement takes the token that it begins with. *)
LEMMA StatementFrom ==
  ASSUME text \in Seq(STRING), NEW calls, NEW k \in Nat, CallsFrom(calls, k + 1),
         NEW p, From(p, k), ~Throws(p), p.next # NoToken, p.next.type \in ProperTypes
  PROVE  From(ParseStatement(calls, p), k + 1)
<1> DEFINE m == k + 1
           r == PopToken(p)
<1>1. m \in Nat
  OBVIOUS
<1>2. From(r, m) /\ Opened(p, m, m)
  BY SeenOpened, Zenon
<1>3. PeekToken(p) = p
  BY PeekedIs, Zenon
<1>4. CallsFrom(calls, m)
  OBVIOUS
<1> HIDE DEF m
<1>5. Took(r, m, m)
  BY <1>2, Zenon DEF Took
<1>6. /\ Took(ParseDeclaration(calls, p), m, m) /\ Took(ParseReturn(calls, p), m, m)
      /\ Took(ParseInnerBlock(calls, p), m, m) /\ Took(ParseIf(calls, p), m, m)
      /\ Took(ParseWhile(calls, p), m, m)
  BY <1>1, <1>4, <1>5, DeclarationFrom, ReturnFrom, InnerBlockFrom, IfFrom, WhileFrom, Zenon
<1>7. Took(Yields(r, BreakTree), m, m) /\ Took(Yields(r, ContinueTree), m, m)
  BY <1>5, TookYields, Zenon
<1>8. Took(ParseAssignmentOrExpression(calls, p), m, m)
  BY <1>1, <1>2, <1>4, AssignmentFrom, Zenon
<1>9. ParseStatement(calls, p) =
        CASE Throws(p)           -> p
          [] Sees(p, "var")      -> ParseDeclaration(calls, p)
          [] Sees(p, "return")   -> ParseReturn(calls, p)
          [] Sees(p, "{")        -> ParseInnerBlock(calls, p)
          [] Sees(p, "if")       -> ParseIf(calls, p)
          [] Sees(p, "while")    -> ParseWhile(calls, p)
          [] Sees(p, "break")    -> Yields(r, BreakTree)
          [] Sees(p, "continue") -> Yields(r, ContinueTree)
          [] OTHER -> ParseAssignmentOrExpression(calls, p)
  BY <1>3, Zenon DEF ParseStatement
<1> HIDE DEF r
<1>10. Took(ParseStatement(calls, p), m, m)
  BY <1>6, <1>7, <1>8, <1>9, Zenon
<1> QED BY <1>10, Zenon DEF Took, m
-----------------------------------------------------------------------------
LEMMA AppendOrdered ==
  ASSUME NEW errors \in Seq(Reports), NEW error \in Reports, InOrder(errors),
         Reported(errors, LineOf(error.at)), NEW all, all = Append(errors, error)
  PROVE  /\ all \in Seq(Reports) /\ InOrder(all)
         /\ \A line : Reported(errors, line) /\ LineOf(error.at) < line => Reported(all, line)
<1>1. /\ all \in Seq(Reports) /\ Len(errors) \in Nat /\ DOMAIN errors = 1 .. Len(errors)
      /\ DOMAIN all = 1 .. Len(errors) + 1
      /\ \A i \in DOMAIN errors : i \in DOMAIN all /\ all[i] = errors[i]
      /\ all[Len(errors) + 1] = error
  OBVIOUS
<1>2. \A i \in DOMAIN all : i \in DOMAIN errors \/ i = Len(errors) + 1
  BY <1>1
<1>3. ASSUME NEW line, Reported(errors, line), LineOf(error.at) < line
      PROVE  Reported(all, line)
  BY <1>1, <1>2, <1>3, Zenon DEF Reported
<1>4. ASSUME NEW i \in DOMAIN all, NEW j \in DOMAIN all, i < j
      PROVE  LineOf(all[i].at) < LineOf(all[j].at)
  <2>1. i \in DOMAIN errors
    BY <1>1, <1>4
  <2>2. CASE j \in DOMAIN errors
    BY <1>1, <1>4, <2>1, <2>2, Zenon DEF InOrder
  <2>3. CASE j = Len(errors) + 1
    BY <1>1, <2>1, <2>3, Zenon DEF Reported
  <2> QED BY <1>2, <2>2, <2>3, Zenon
<1>5. InOrder(all)
  BY <1>4, Zenon DEF InOrder
<1> QED BY <1>1, <1>3, <1>5, Zenon

LEMMA ReportedLater ==
  ASSUME NEW errors \in Seq(Reports), NEW at \in Nat, NEW pos \in Nat, at <= pos,
         NEW ahead \in Nat, Reported(errors, LineOf(at)),
         \A a \in 0 .. pos : LineOf(a) < LineOf(ahead)
  PROVE  LineOf(at) < LineOf(ahead) /\ Reported(errors, LineOf(ahead))
<1>1. LineOf(at) < LineOf(ahead)
  <2>1. at \in 0 .. pos
    OBVIOUS
  <2> QED BY <2>1, Zenon
<1>2. LineOf(at) \in Nat /\ LineOf(ahead) \in Nat
  <2>1. at <= at /\ ahead <= ahead
    OBVIOUS
  <2> QED BY <2>1, LineOfIs, Zenon
<1>3. ASSUME NEW i \in DOMAIN errors PROVE LineOf(errors[i].at) < LineOf(ahead)
  <2> DEFINE a == errors[i].at
  <2>1. a \in Nat /\ a <= a
    <3>1. errors[i] \in Reports
      OBVIOUS
    <3> QED BY <3>1 DEF Reports
  <2>2. LineOf(a) < LineOf(at)
    BY Zenon DEF Reported
  <2> HIDE DEF a
  <2>3. LineOf(a) \in Nat
    BY <2>1, LineOfIs, Zenon
  <2>4. LineOf(a) < LineOf(ahead)
    BY <1>1, <1>2, <2>2, <2>3
  <2> QED BY <2>4 DEF a
<1> QED BY <1>1, <1>3, Zenon DEF Reported

LEMMA RecoverIs ==
  ASSUME text \in Seq(STRING), NEW p, Sound(p), Throws(p), p.thrown # EndOfFileInBlock,
         NEW q, q = Recover(p)
  PROVE  /\ Resumed(q) /\ p.scanner.pos \in Nat /\ Unread(q) \in Nat /\ p.scanner.pos <= Unread(q)
         /\ p.scanner.pos < Len(text) /\ Character(p.scanner, p.scanner.pos) \notin Whitespace =>
              p.scanner.pos < Unread(q)
<1> DEFINE s == SkipLine(p.scanner)
           r == [p EXCEPT !.scanner = s, !.next = NoToken]
           error == [error |-> p.thrown, at |-> p.at]
           all == Append(r.errors, error)
<1>1. q = [r EXCEPT !.errors = all, !.thrown = "", !.at = 0, !.value = NullTree]
  BY Zenon DEF Recover, SkipParserLine
<1>2. /\ IsRecord(p) /\ IsParser(p) /\ p.scanner \in Scanners(text) /\ p.errors \in Seq(Reports)
      /\ InOrder(p.errors) /\ p.at \in Nat /\ p.at <= p.scanner.pos /\ p.token \in SomeToken
      /\ Reported(p.errors, LineOf(p.at)) /\ p.thrown \in Errors \cup {""} /\ p.thrown # ""
  BY Zenon DEF Sound, IsParser, Throws
<1>3. /\ s \in Scanners(text) /\ p.scanner.pos <= s.pos
      /\ p.scanner.pos < Len(text) /\ Character(p.scanner, p.scanner.pos) \notin Whitespace =>
           p.scanner.pos < s.pos
      /\ \/ SkipWhitespace(s).pos = Len(text)
         \/ \A at \in 0 .. p.scanner.pos : LineOf(at) < LineOf(SkipWhitespace(s).pos)
  BY <1>2, SkipLineIs, Zenon
<1> HIDE DEF s
<1>a. IsRecord(p) /\ r = [p EXCEPT !.scanner = s, !.next = NoToken]
  BY <1>2, Zenon
<1> HIDE DEF r
<1>4. IsRecord(r) /\ r.scanner = s /\ r.next = NoToken /\ r.token = p.token /\ r.errors = p.errors
  BY <1>a DEF IsRecord
<1>5. error \in Reports /\ error.at = p.at
  <2>1. p.thrown \in Errors
    BY <1>2, Zenon
  <2> QED BY <1>2, <2>1, Zenon DEF Reports
<1>6. all = Append(p.errors, error)
  BY <1>4, Zenon
<1> HIDE DEF error, all
<1>7. /\ IsRecord(q) /\ q.scanner = s /\ q.next = NoToken /\ q.token = p.token /\ q.errors = all
      /\ q.thrown = "" /\ q.at = 0
  BY <1>1, <1>4 DEF IsRecord
<1>8. Reported(p.errors, LineOf(error.at))
  BY <1>2, <1>5, Zenon
<1>9. /\ all \in Seq(Reports) /\ InOrder(all)
      /\ \A line : Reported(p.errors, line) /\ LineOf(error.at) < line => Reported(all, line)
  BY <1>2, <1>5, <1>6, <1>8, AppendOrdered, Zenon
<1>10. IsParser(q)
  <2>1. q.at \in Nat
    <3>1. 0 \in Nat
      OBVIOUS
    <3> QED BY <1>7, <3>1, Zenon
  <2>2. q.thrown \in Errors \cup {""}
    BY <1>7, Zenon
  <2> QED BY <1>2, <1>3, <1>7, <1>9, <2>1, <2>2, NoTokenIs, Zenon DEF IsParser
<1>11. Unread(q) = s.pos /\ Ahead(q) = SkipWhitespace(s).pos /\ ~Throws(q)
  BY <1>7, Zenon DEF Unread, Ahead, Throws
<1>12. Reported(q.errors, LineOf(Ahead(q))) \/ Ahead(q) = Len(text)
  <2> SUFFICES ASSUME Ahead(q) # Len(text) PROVE Reported(q.errors, LineOf(Ahead(q)))
    OBVIOUS
  <2>1. \A at \in 0 .. p.scanner.pos : LineOf(at) < LineOf(Ahead(q))
    BY <1>3, <1>11, Zenon
  <2>2. p.scanner.pos \in Nat /\ Ahead(q) \in Nat
    BY <1>2, <1>10, AheadIs, Zenon
  <2>3. LineOf(p.at) < LineOf(Ahead(q)) /\ Reported(p.errors, LineOf(Ahead(q)))
    BY <1>2, <2>1, <2>2, ReportedLater, Zenon
  <2> QED BY <1>5, <1>7, <1>9, <2>3, Zenon
<1>13. Resumed(q)
  BY <1>7, <1>9, <1>10, <1>11, <1>12, Zenon DEF Resumed
<1>14. p.scanner.pos \in Nat /\ Unread(q) \in Nat
  BY <1>2, <1>10, AheadIs, Zenon
<1> QED BY <1>3, <1>11, <1>13, <1>14, Zenon
(* After an error, the parser looks at the next line, or at the end. *)
LEMMA PeekResumed ==
  ASSUME text \in Seq(STRING), NEW p, NEW k \in Nat, Resumed(p), k <= Unread(p),
         NEW q, q = PeekToken(p)
  PROVE  /\ IsParser(q) /\ InOrder(q.errors) /\ k <= Unread(q) /\ PeekToken(q) = q
         /\ From(q, k) \/ Sees(q, "end_of_file")
         /\ ~Throws(q) => q.next # NoToken /\ q.next.type \in TokenTypes
         /\ Throws(q) => /\ Sound(q)
                         /\ \/ k < q.scanner.pos
                            \/ /\ k = q.scanner.pos /\ q.scanner.pos < Len(text)
                               /\ Character(q.scanner, q.scanner.pos) \notin Whitespace
<1>1. /\ IsParser(p) /\ InOrder(p.errors) /\ ~Throws(p)
      /\ Reported(p.errors, LineOf(Ahead(p))) \/ Ahead(p) = Len(text)
  BY Zenon DEF Resumed
<1>2. p.next = NoToken =>
        /\ IsParser(q) /\ q.errors = p.errors /\ Ahead(p) <= q.scanner.pos
        /\ ~Throws(q) => /\ q.next # NoToken /\ Ahead(p) <= q.next.from /\ Unread(q) = q.next.from
        /\ Throws(q) => /\ q.next = NoToken /\ Unread(q) = q.scanner.pos
                        /\ Ahead(p) < Len(text) /\ Character(p.scanner, Ahead(p)) \notin Whitespace
  BY <1>1, PeekIs, Zenon
<1>3. p.next # NoToken => q = p
  BY PeekedIs, Zenon
<1>4. IsParser(q) /\ q.errors = p.errors /\ InOrder(q.errors)
  BY <1>1, <1>2, <1>3, Zenon
<1>5. /\ Unread(p) \in Nat /\ Unread(p) <= Ahead(p) /\ Ahead(p) \in Nat
      /\ Unread(q) \in Nat /\ q.scanner.pos \in Nat /\ q.scanner.pos <= Len(text) /\ Len(text) \in Nat
  BY <1>1, <1>4, AheadIs, Zenon
<1>6. k <= Unread(q)
  <2>1. CASE p.next = NoToken
    <3>1. Ahead(p) <= Unread(q)
      BY <1>2, <2>1, Zenon
    <3> QED BY <1>5, <3>1
  <2>2. CASE p.next # NoToken
    BY <1>3, <2>2
  <2> QED BY <2>1, <2>2
<1>7. /\ ~Throws(q) => q.next # NoToken /\ q.next.type \in TokenTypes
      /\ PeekToken(q) = q
  <2>1. ~Throws(q) => q.next # NoToken
    BY <1>2, <1>3, Zenon
  <2> QED BY <1>4, <2>1, PeekedIs, Zenon DEF IsParser, IsToken
<1>8. ASSUME Reported(p.errors, LineOf(Ahead(p))) PROVE From(q, k)
  BY <1>1, <1>8, PeekFrom, Zenon DEF From, Sound
<1>9. ASSUME Ahead(p) = Len(text) PROVE Sees(q, "end_of_file")
  <2>1. ~Throws(q)
    <3>1. CASE p.next = NoToken
      <4>1. Throws(q) => Ahead(p) < Len(text)
        BY <1>2, <3>1, Zenon
      <4> QED BY <1>5, <1>9, <4>1
    <3>2. CASE p.next # NoToken
      BY <1>1, <1>3, <3>2, Zenon
    <3> QED BY <3>1, <3>2
  <2> DEFINE from == q.next.from
  <2>2. from \in Nat /\ Len(text) <= from
    <3>1. CASE p.next = NoToken
      <4>1. Ahead(p) <= from /\ Unread(q) = from
        BY <1>2, <2>1, <3>1, Zenon
      <4> HIDE DEF from
      <4> QED BY <1>5, <1>9, <4>1
    <3>2. CASE p.next # NoToken
      <4>1. Ahead(p) = from
        BY <1>3, <3>2, Zenon DEF Ahead
      <4> HIDE DEF from
      <4> QED BY <1>5, <1>9, <4>1
    <3> QED BY <3>1, <3>2
  <2>3. q.next.type # "end_of_file" => from < q.scanner.pos
    BY <1>4, <1>7, <2>1, Zenon DEF IsParser, IsToken
  <2> HIDE DEF from
  <2>4. q.next.type = "end_of_file"
    BY <1>5, <2>2, <2>3
  <2> QED BY <2>1, <2>4, Zenon DEF Sees
<1>10. ASSUME Throws(q)
       PROVE  /\ Sound(q)
              /\ \/ k < q.scanner.pos
                 \/ /\ k = q.scanner.pos /\ q.scanner.pos < Len(text)
                    /\ Character(q.scanner, q.scanner.pos) \notin Whitespace
  <2>1. p.next = NoToken
    BY <1>1, <1>3, <1>10, Zenon
  <2>2. Sound(q)
    BY <1>1, <1>8, <1>9, <1>10, Zenon DEF From, Sees
  <2>3. /\ Unread(q) = q.scanner.pos /\ Ahead(p) <= q.scanner.pos
        /\ Ahead(p) < Len(text) /\ Character(p.scanner, Ahead(p)) \notin Whitespace
    BY <1>2, <1>10, <2>1, Zenon
  <2>4. p.scanner.text = text /\ q.scanner.text = text
    <3>1. \A s \in Scanners(text) : s.text = text
      BY DEF Scanners
    <3>2. p.scanner \in Scanners(text) /\ q.scanner \in Scanners(text)
      BY <1>1, <1>4, Zenon DEF IsParser
    <3> QED BY <3>1, <3>2, Zenon
  <2>5. k < q.scanner.pos \/ (k = q.scanner.pos /\ Ahead(p) = q.scanner.pos)
    BY <1>5, <2>3
  <2>6. ASSUME Ahead(p) = q.scanner.pos
        PROVE  /\ q.scanner.pos < Len(text)
               /\ Character(q.scanner, q.scanner.pos) \notin Whitespace
    BY <2>3, <2>4, <2>6, Zenon DEF Character
  <2> QED BY <2>2, <2>5, <2>6, Zenon
<1> QED BY <1>1, <1>4, <1>6, <1>7, <1>8, <1>9, <1>10, Zenon

LEMMA RecoverFrom ==
  ASSUME text \in Seq(STRING), NEW p, NEW k \in Nat, From(p, k), Throws(p),
         p.thrown # EndOfFileInBlock, NEW q, q = Recover(p)
  PROVE  Resumed(q) /\ k <= Unread(q)
<1>1. /\ Resumed(q) /\ p.scanner.pos \in Nat /\ Unread(q) \in Nat /\ p.scanner.pos <= Unread(q)
  BY RecoverIs, Zenon DEF From
<1>2. Unread(p) \in Nat /\ Unread(p) <= p.scanner.pos /\ k <= Unread(p)
  BY AheadIs, Zenon DEF From, Sound
<1>3. k <= Unread(q)
  BY <1>1, <1>2
<1> QED BY <1>1, <1>3

LEMMA FirstRecovered ==
  ASSUME text \in Seq(STRING), NEW p, NEW k \in Nat, Sound(p), Throws(p),
         p.thrown # EndOfFileInBlock, NEW q, q = Recover(p),
         \/ k < p.scanner.pos
         \/ /\ k = p.scanner.pos /\ p.scanner.pos < Len(text)
            /\ Character(p.scanner, p.scanner.pos) \notin Whitespace
  PROVE  Resumed(q) /\ k + 1 <= Unread(q)
<1>1. /\ Resumed(q) /\ p.scanner.pos \in Nat /\ Unread(q) \in Nat /\ p.scanner.pos <= Unread(q)
      /\ p.scanner.pos < Len(text) /\ Character(p.scanner, p.scanner.pos) \notin Whitespace =>
           p.scanner.pos < Unread(q)
  BY RecoverIs, Zenon
<1>2. k < p.scanner.pos \/ (k = p.scanner.pos /\ p.scanner.pos < Unread(q))
  BY <1>1, Zenon
<1>3. k + 1 <= Unread(q)
  BY <1>1, <1>2
<1> QED BY <1>1, <1>3
(* A turn of the loop in parse_block. *)
Turned(turn, k, isGlobal) ==
  /\ turn.outcome \in {"statement", "error", "end", "leave"}
  /\ turn.outcome = "statement" => From(turn.parser, k + 1) /\ ~Throws(turn.parser)
  /\ turn.outcome = "error" => Resumed(turn.parser) /\ k + 1 <= Unread(turn.parser)
  /\ turn.outcome = "end" \/ turn.outcome = "leave" =>
       InOrder(turn.parser.errors) /\ (isGlobal \/ From(turn.parser, k))

LEMMA TurnsAre ==
  ASSUME NEW k, NEW isGlobal, NEW p
  PROVE  /\ From(p, k + 1) /\ ~Throws(p) =>
              Turned([outcome |-> "statement", parser |-> p], k, isGlobal)
         /\ Resumed(p) /\ k + 1 <= Unread(p) =>
              Turned([outcome |-> "error", parser |-> p], k, isGlobal)
         /\ InOrder(p.errors) /\ (isGlobal \/ From(p, k)) =>
              /\ Turned([outcome |-> "end", parser |-> p], k, isGlobal)
              /\ Turned([outcome |-> "leave", parser |-> p], k, isGlobal)
<1>1. ASSUME NEW outcome, NEW turn, turn = [outcome |-> outcome, parser |-> p]
      PROVE  turn.outcome = outcome /\ turn.parser = p
  BY <1>1
<1>2. "statement" # "error" /\ "statement" # "end" /\ "statement" # "leave" /\ "error" # "end"
      /\ "error" # "leave"
  OBVIOUS
<1>3. ASSUME From(p, k + 1), ~Throws(p), NEW turn, turn = [outcome |-> "statement", parser |-> p]
      PROVE  Turned(turn, k, isGlobal)
  BY <1>1, <1>2, <1>3, Zenon DEF Turned
<1>4. ASSUME Resumed(p), k + 1 <= Unread(p), NEW turn, turn = [outcome |-> "error", parser |-> p]
      PROVE  Turned(turn, k, isGlobal)
  BY <1>1, <1>2, <1>4, Zenon DEF Turned
<1>5. ASSUME InOrder(p.errors), isGlobal \/ From(p, k), NEW turn,
             \/ turn = [outcome |-> "end", parser |-> p]
             \/ turn = [outcome |-> "leave", parser |-> p]
      PROVE  Turned(turn, k, isGlobal)
  BY <1>1, <1>2, <1>5, Zenon DEF Turned
<1> QED BY <1>3, <1>4, <1>5, Zenon

LEMMA LeaveIs ==
  ASSUME NEW p, NEW k, IsParser(p), InOrder(p.errors), ~Throws(p), k <= Unread(p),
         p.scanner.pos \in Nat,
         NEW q, q = RaiseAt(p, EndOfFileInBlock, p.scanner.pos)
  PROVE  From(q, k) /\ InOrder(q.errors)
<1> DEFINE at == p.scanner.pos
<1>1. q = [p EXCEPT !.thrown = EndOfFileInBlock, !.at = at] /\ IsRecord(p) /\ at \in Nat
  BY Zenon DEF RaiseAt, IsParser
<1> HIDE DEF at
<1>2. /\ IsRecord(q) /\ q.scanner = p.scanner /\ q.next = p.next /\ q.token = p.token
      /\ q.thrown = EndOfFileInBlock /\ q.at = at /\ q.errors = p.errors
  BY <1>1 DEF IsRecord
<1>3. q.thrown \in Errors \cup {""}
  BY <1>2, ErrorsAre, Zenon
<1>4. IsParser(q)
  BY <1>1, <1>2, <1>3, Zenon DEF IsParser
<1>5. Throws(q)
  <2>1. EndOfFileInBlock # ""
    BY DEF EndOfFileInBlock
  <2> QED BY <1>2, <2>1, Zenon DEF Throws
<1>6. Sound(q) /\ InOrder(q.errors)
  BY <1>2, <1>4, <1>5, Zenon DEF Sound
<1>7. Unread(q) = Unread(p)
  BY <1>2, Zenon DEF Unread
<1> QED BY <1>6, <1>7, Zenon DEF From

LEMMA ThrownStatement ==
  ASSUME NEW calls, NEW p, PeekToken(p) = p, Throws(p)
  PROVE  ParseStatement(calls, p) = p
<1>1. ParseStatement(calls, p) =
        CASE Throws(p)           -> p
          [] Sees(p, "var")      -> ParseDeclaration(calls, p)
          [] Sees(p, "return")   -> ParseReturn(calls, p)
          [] Sees(p, "{")        -> ParseInnerBlock(calls, p)
          [] Sees(p, "if")       -> ParseIf(calls, p)
          [] Sees(p, "while")    -> ParseWhile(calls, p)
          [] Sees(p, "break")    -> Yields(PopToken(p), BreakTree)
          [] Sees(p, "continue") -> Yields(PopToken(p), ContinueTree)
          [] OTHER -> ParseAssignmentOrExpression(calls, p)
  BY Zenon DEF ParseStatement
<1>2. \A type : ~Sees(p, type)
  BY Zenon DEF Sees
<1> QED BY <1>1, <1>2, Zenon

LEMMA TurnIs ==
  ASSUME text \in Seq(STRING), NEW calls, NEW k \in Nat, CallsFrom(calls, k + 1),
         NEW p, Resumed(p), k <= Unread(p), NEW isGlobal
  PROVE  Turned(BlockTurn(calls, p, isGlobal), k, isGlobal)
<1> DEFINE q == PeekToken(p)
           statement == ParseStatement(calls, q)
           leaving == RaiseAt(q, EndOfFileInBlock, q.scanner.pos)
           brace == RaiseAt(q, "unexpected_brace", q.next.from)
<1>1. BlockTurn(calls, p, isGlobal) =
        IF Sees(q, "end_of_file")
        THEN IF isGlobal THEN [outcome |-> "end", parser |-> q]
             ELSE [outcome |-> "leave", parser |-> leaving]
        ELSE IF Sees(q, "}")
        THEN IF isGlobal THEN [outcome |-> "error", parser |-> Recover(brace)]
             ELSE [outcome |-> "end", parser |-> PopToken(q)]
        ELSE IF statement.thrown = EndOfFileInBlock THEN [outcome |-> "leave", parser |-> statement]
        ELSE IF Throws(statement) THEN [outcome |-> "error", parser |-> Recover(statement)]
        ELSE [outcome |-> "statement", parser |-> statement]
  BY Zenon DEF BlockTurn, TurnWith
<1>2. /\ IsParser(q) /\ InOrder(q.errors) /\ k <= Unread(q) /\ PeekToken(q) = q
      /\ From(q, k) \/ Sees(q, "end_of_file")
      /\ ~Throws(q) => q.next # NoToken /\ q.next.type \in TokenTypes
      /\ Throws(q) => /\ Sound(q)
                      /\ \/ k < q.scanner.pos
                         \/ /\ k = q.scanner.pos /\ q.scanner.pos < Len(text)
                            /\ Character(q.scanner, q.scanner.pos) \notin Whitespace
  BY PeekResumed, Zenon
<1> HIDE DEF q
<1>3. CASE Sees(q, "end_of_file")
  <2>1. ~Throws(q)
    BY <1>3, Zenon DEF Sees
  <2>2. q.scanner.pos \in Nat
    BY <1>2, AheadIs, Zenon
  <2>3. From(leaving, k) /\ InOrder(leaving.errors)
    BY <1>2, <2>1, <2>2, LeaveIs, Zenon
  <2> HIDE DEF leaving, brace, statement
  <2>4. CASE isGlobal
    BY <1>1, <1>2, <1>3, <2>4, TurnsAre, Zenon
  <2>5. CASE ~isGlobal
    BY <1>1, <1>3, <2>3, <2>5, TurnsAre, Zenon
  <2> QED BY <2>4, <2>5
<1>4. CASE ~Sees(q, "end_of_file") /\ Throws(q)
  <2>1. statement = q
    BY <1>2, <1>4, ThrownStatement, Zenon
  <2>2. ~Sees(q, "}")
    BY <1>4, Zenon DEF Sees
  <2> HIDE DEF leaving, brace, statement
  <2>3. CASE q.thrown = EndOfFileInBlock
    <3>1. BlockTurn(calls, p, isGlobal) = [outcome |-> "leave", parser |-> q]
      BY <1>1, <1>4, <2>1, <2>2, <2>3, Zenon
    <3> QED BY <1>2, <1>4, <3>1, TurnsAre, Zenon
  <2>4. CASE q.thrown # EndOfFileInBlock
    <3>1. BlockTurn(calls, p, isGlobal) = [outcome |-> "error", parser |-> Recover(q)]
      BY <1>1, <1>4, <2>1, <2>2, <2>4, Zenon
    <3>2. Resumed(Recover(q)) /\ k + 1 <= Unread(Recover(q))
      BY <1>2, <1>4, <2>4, FirstRecovered, Zenon
    <3> QED BY <3>1, <3>2, TurnsAre, Zenon
  <2> QED BY <2>3, <2>4
<1>5. CASE ~Sees(q, "end_of_file") /\ ~Throws(q)
  <2>1. From(q, k) /\ q.next # NoToken /\ q.next.type \in ProperTypes /\ q.next.type # "end_of_file"
    BY <1>2, <1>5, Zenon DEF Sees, ProperTypes
  <2>2. CASE Sees(q, "}") /\ isGlobal
    <3> DEFINE at == q.next.from
    <3>1. Reported(q.errors, LineOf(at)) /\ Unread(q) = at /\ at < q.scanner.pos
      BY <1>5, <2>1, Zenon DEF From, Sound, Ahead, Unread, IsParser, IsToken
    <3>2. Unread(q) \in Nat /\ q.scanner.pos \in Nat
      BY <1>2, AheadIs, Zenon
    <3>3. brace = RaiseAt(q, "unexpected_brace", at)
      OBVIOUS
    <3> HIDE DEF at, brace
    <3>4. at \in Nat /\ at <= q.scanner.pos /\ k < q.scanner.pos
      BY <1>2, <3>1, <3>2
    <3>5. From(q, k) /\ "unexpected_brace" \in Errors
      BY <2>1, ErrorsAre, Zenon
    <3>6. /\ From(brace, k) /\ Throws(brace) /\ brace.thrown = "unexpected_brace"
          /\ brace.scanner = q.scanner
      BY <1>5, <3>1, <3>3, <3>4, <3>5, RaiseFrom, SMT
    <3>7. "unexpected_brace" # EndOfFileInBlock
      BY DEF EndOfFileInBlock
    <3>8. Sound(brace) /\ k < brace.scanner.pos /\ brace.thrown # EndOfFileInBlock
      BY <3>4, <3>6, <3>7, Zenon DEF From
    <3>9. Resumed(Recover(brace)) /\ k + 1 <= Unread(Recover(brace))
      BY <3>6, <3>8, FirstRecovered, Zenon
    <3>10. BlockTurn(calls, p, isGlobal) = [outcome |-> "error", parser |-> Recover(brace)]
      BY <1>1, <1>5, <2>2, Zenon
    <3> QED BY <3>9, <3>10, TurnsAre, Zenon
  <2>3. CASE Sees(q, "}") /\ ~isGlobal
    <3>1. From(PopToken(q), k)
      BY <1>5, <2>1, TakeFrom, Zenon
    <3>2. InOrder(PopToken(q).errors)
      BY <3>1, Zenon DEF From, Sound
    <3>3. BlockTurn(calls, p, isGlobal) = [outcome |-> "end", parser |-> PopToken(q)]
      BY <1>1, <1>5, <2>3, Zenon
    <3> QED BY <3>1, <3>2, <3>3, TurnsAre, Zenon
  <2>4. CASE ~Sees(q, "}")
    <3>1. From(statement, k + 1)
      BY <1>5, <2>1, StatementFrom, Zenon
    <3>2. From(statement, k)
      BY <3>1, FromLess, Zenon
    <3>3. InOrder(statement.errors)
      BY <3>1, Zenon DEF From, Sound
    <3> HIDE DEF statement, leaving, brace
    <3>4. CASE statement.thrown = EndOfFileInBlock
      <4>1. BlockTurn(calls, p, isGlobal) = [outcome |-> "leave", parser |-> statement]
        BY <1>1, <1>5, <2>4, <3>4, Zenon
      <4> QED BY <3>2, <3>3, <4>1, TurnsAre, Zenon
    <3>5. CASE statement.thrown # EndOfFileInBlock /\ Throws(statement)
      <4>1. BlockTurn(calls, p, isGlobal) = [outcome |-> "error", parser |-> Recover(statement)]
        BY <1>1, <1>5, <2>4, <3>5, Zenon
      <4>2. k + 1 \in Nat
        OBVIOUS
      <4>3. Resumed(Recover(statement)) /\ k + 1 <= Unread(Recover(statement))
        BY <3>1, <3>5, <4>2, RecoverFrom, Zenon
      <4> QED BY <4>1, <4>3, TurnsAre, Zenon
    <3>6. CASE statement.thrown # EndOfFileInBlock /\ ~Throws(statement)
      <4>1. BlockTurn(calls, p, isGlobal) = [outcome |-> "statement", parser |-> statement]
        BY <1>1, <1>5, <2>4, <3>6, Zenon
      <4> QED BY <3>1, <3>6, <4>1, TurnsAre, Zenon
    <3> QED BY <3>4, <3>5, <3>6
  <2> QED BY <2>2, <2>3, <2>4
<1> QED BY <1>3, <1>4, <1>5
-----------------------------------------------------------------------------
LEMMA BlockIs ==
  ASSUME text \in Seq(STRING), NEW calls, NEW k \in Nat, CallsFrom(calls, k + 1),
         NEW p, Resumed(p), k <= Unread(p)
  PROVE  From(BlockFrom(calls, p), k)
<1> DEFINE turn == BlockTurn(calls, p, FALSE)
           q == turn.parser
           rest == Call(calls, "block", q)
<1>1. BlockFrom(calls, p) =
        CASE turn.outcome = "statement" -> YieldsFirst(q.value, rest)
          [] turn.outcome = "error"     -> rest
          [] turn.outcome = "end"       -> Yields(q, <<>>)
          [] turn.outcome = "leave"     -> q
  BY Zenon DEF BlockFrom, BlockAfter
<1>2. Turned(turn, k, FALSE)
  BY TurnIs, Zenon
<1> HIDE DEF turn
<1>3. /\ turn.outcome \in {"statement", "error", "end", "leave"}
      /\ turn.outcome = "statement" => From(q, k + 1) /\ ~Throws(q)
      /\ turn.outcome = "error" => Resumed(q) /\ k + 1 <= Unread(q)
      /\ turn.outcome = "end" \/ turn.outcome = "leave" => From(q, k)
  BY <1>2, Zenon DEF Turned
<1> HIDE DEF q
<1>4. ASSUME turn.outcome = "statement" \/ turn.outcome = "error"
      PROVE  From(rest, k + 1)
  <2>1. /\ IsParser(q) /\ ~Throws(q) /\ k + 1 <= Unread(q)
        /\ Sound(q) \/ Resumed(q)
    BY <1>3, <1>4, Zenon DEF From, Sound, Resumed
  <2>2. "block" \in Rules /\ k + 1 \in Nat
    BY DEF Rules
  <2>3. WeakestPrecedence \in Precedences
    BY DEF WeakestPrecedence, Precedences
  <2> DEFINE m == k + 1
  <2>4. m \in Nat /\ CallsFrom(calls, m) /\ IsParser(q) /\ ~Throws(q) /\ m <= Unread(q)
    BY <2>1, <2>2, Zenon
  <2> HIDE DEF m
  <2>5. ASSUME NEW rule \in Rules, Sound(q) \/ (rule = "block" /\ Resumed(q))
        PROVE  From(CallWithin(calls, rule, WeakestPrecedence, q), m)
    BY <2>3, <2>4, <2>5, CallFrom, Zenon
  <2> QED BY <2>1, <2>2, <2>5, Zenon DEF Call, m
<1>5. ASSUME turn.outcome = "statement" \/ turn.outcome = "error"
      PROVE  From(rest, k) /\ From(YieldsFirst(q.value, rest), k)
  <2>1. From(rest, k)
    BY <1>4, <1>5, FromLess, Zenon
  <2> QED BY <2>1, FirstFrom, Zenon
<1>6. ASSUME turn.outcome = "end" \/ turn.outcome = "leave"
      PROVE  From(q, k) /\ From(Yields(q, <<>>), k)
  BY <1>3, <1>6, YieldsFrom, Zenon
<1> HIDE DEF rest
<1>7. "statement" # "error" /\ "statement" # "end" /\ "statement" # "leave" /\ "error" # "end"
      /\ "error" # "leave" /\ "end" # "leave"
  OBVIOUS
<1> QED BY <1>1, <1>3, <1>5, <1>6, <1>7, Zenon

(* A rule that is called keeps what holds of its parser. *)
LEMMA RuleFrom ==
  ASSUME text \in Seq(STRING), NEW calls, NEW k \in Nat, CallsFrom(calls, k + 1),
         NEW rule \in Rules, NEW weakest \in Precedences, NEW p, ~Throws(p), k <= Unread(p),
         Sound(p) \/ (rule = "block" /\ Resumed(p))
  PROVE  From(Rule(calls, rule, weakest, p), k)
<1>1. k + 1 \in Nat /\ k <= k + 1
  OBVIOUS
<1>2. ASSUME Sound(p)
      PROVE  /\ From(ParseInfix(calls, p, weakest), k) /\ From(InfixTail(calls, p, weakest), k)
             /\ From(ParseExtendedPrimary(calls, p), k) /\ From(PrimaryTail(calls, p), k)
             /\ From(ArgumentsFrom(calls, ParseExpression(calls, p)), k)
             /\ From(ParseTable(calls, p), k) /\ From(ParseString(calls, p), k)
             /\ From(ParseParameters(calls, p), k)
  <2>1. From(p, k)
    BY <1>2, Zenon DEF From
  <2>2. Opened(p, k, k + 1)
    BY <2>1, OpenedIs, Zenon
  <2>3. From(ParseInfix(calls, p, weakest), k) /\ From(ParseExtendedPrimary(calls, p), k)
    BY <1>1, <2>2, InfixTook, ExtendedPrimaryTook, Zenon DEF Took
  <2>4. From(InfixTail(calls, p, weakest), k)
    BY <2>1, InfixTailFrom, Zenon
  <2>5. /\ From(PrimaryTail(calls, p), k) /\ From(ParseTable(calls, p), k)
        /\ From(ParseString(calls, p), k) /\ From(ParseParameters(calls, p), k)
    BY <2>1, PrimaryTailFrom, TableFrom, StringsFrom, ParametersFrom, Zenon
  <2>6. From(ArgumentsFrom(calls, ParseExpression(calls, p)), k)
    <3>1. Took(ParseExpression(calls, p), k, k + 1)
      BY <1>1, <2>2, ExpressionTook, Zenon
    <3> QED BY <1>1, <3>1, ArgumentsFromFrom, Zenon DEF Took
  <2> QED BY <2>3, <2>4, <2>5, <2>6
<1>3. From(BlockFrom(calls, p), k)
  <2>1. Resumed(p)
    BY Zenon DEF Sound, Resumed
  <2> QED BY <2>1, BlockIs, Zenon
<1>4. CASE rule = "block"
  <2>1. Rule(calls, rule, weakest, p) = BlockFrom(calls, p)
    BY <1>4 DEF Rule
  <2> QED BY <1>3, <2>1
<1>5. CASE rule # "block"
  <2>1. \/ Rule(calls, rule, weakest, p) = ParseInfix(calls, p, weakest)
        \/ Rule(calls, rule, weakest, p) = InfixTail(calls, p, weakest)
        \/ Rule(calls, rule, weakest, p) = ParseExtendedPrimary(calls, p)
        \/ Rule(calls, rule, weakest, p) = PrimaryTail(calls, p)
        \/ Rule(calls, rule, weakest, p) = ArgumentsFrom(calls, ParseExpression(calls, p))
        \/ Rule(calls, rule, weakest, p) = ParseTable(calls, p)
        \/ Rule(calls, rule, weakest, p) = ParseString(calls, p)
        \/ Rule(calls, rule, weakest, p) = ParseParameters(calls, p)
    BY <1>5 DEF Rule, Rules
  <2> QED BY <1>2, <1>5, <2>1, Zenon
<1> QED BY <1>4, <1>5

LEMMA CallsFromMore ==
  ASSUME text \in Seq(STRING), NEW calls, NEW m \in Nat, NEW n \in Nat, m <= n,
         CallsFrom(calls, m)
  PROVE  CallsFrom(calls, n)
<1> SUFFICES ASSUME NEW rule \in Rules, NEW weakest \in Precedences, NEW p \in Parsers,
                    ~Throws(p), n <= Unread(p), Sound(p) \/ (rule = "block" /\ Resumed(p))
             PROVE  From(calls[rule][weakest][p], Unread(p))
  BY Zenon DEF CallsFrom
<1>1. Unread(p) \in Nat
  BY AheadIs, Zenon DEF Sound, Resumed
<1>2. m <= Unread(p)
  BY <1>1
<1> QED BY <1>2, Zenon DEF CallsFrom

LEMMA OneLessFrom ==
  ASSUME text \in Seq(STRING), NEW calls, NEW k \in Nat, CallsFrom(calls, k + 1)
  PROVE  CallsFrom(OneLess(calls), k)
<1> SUFFICES ASSUME NEW rule \in Rules, NEW weakest \in Precedences, NEW p \in Parsers,
                    ~Throws(p), k <= Unread(p), Sound(p) \/ (rule = "block" /\ Resumed(p))
             PROVE  From(OneLess(calls)[rule][weakest][p], Unread(p))
  BY Zenon DEF CallsFrom
<1> DEFINE u == Unread(p)
<1>1. u \in Nat /\ k <= u /\ u <= u
  <2>1. u \in Nat
    BY AheadIs, Zenon DEF Sound, Resumed
  <2> HIDE DEF u
  <2>2. u <= u
    BY <2>1
  <2> QED BY <2>1, <2>2, Zenon DEF u
<1> HIDE DEF u
<1>2. u + 1 \in Nat /\ k + 1 \in Nat /\ k + 1 <= u + 1
  BY <1>1
<1>3. CallsFrom(calls, u + 1)
  BY <1>2, CallsFromMore, Zenon
<1>4. u <= Unread(p)
  BY <1>1, Zenon DEF u
<1>5. From(Rule(calls, rule, weakest, p), u)
  BY <1>1, <1>3, <1>4, RuleFrom, Zenon
<1>6. OneLess(calls)[rule][weakest][p] = Rule(calls, rule, weakest, p)
  BY Zenon DEF OneLess
<1> QED BY <1>5, <1>6, Zenon DEF u

LEMMA NothingLeft ==
  ASSUME text \in Seq(STRING), NEW calls
  PROVE  CallsFrom(calls, Len(text) + 1)
<1> SUFFICES ASSUME NEW rule \in Rules, NEW weakest \in Precedences, NEW p \in Parsers,
                    ~Throws(p), Len(text) + 1 <= Unread(p),
                    Sound(p) \/ (rule = "block" /\ Resumed(p))
             PROVE  FALSE
  BY Zenon DEF CallsFrom
<1>1. Unread(p) \in Nat /\ Unread(p) <= Ahead(p) /\ Ahead(p) \in Nat /\ Ahead(p) <= Len(text)
      /\ Len(text) \in Nat
  BY AheadIs, Zenon DEF Sound, Resumed
<1> QED BY <1>1
-----------------------------------------------------------------------------
(* Parse is what its definition says: there is such a function, the one    *)
(* that a sequence of calls of OneLess ends in.                            *)
Below(parse, depth) == IF depth = 0 THEN <<>> ELSE parse[depth - 1]

LEMMA ParseIs == \A depth \in Nat : Parse[depth] = OneLess(Below(Parse, depth))
<1> DEFINE Upto(n, f) == f = [d \in 0 .. n |-> f[d]] /\ \A d \in 0 .. n : f[d] = OneLess(Below(f, d))
           Some(n) == CHOOSE f : Upto(n, f)
           K == {n \in Nat : \E f : Upto(n, f)}
<1>1. 0 \in K
  <2> DEFINE f == [d \in 0 .. 0 |-> OneLess(<<>>)]
  <2>1. f = [d \in 0 .. 0 |-> f[d]]
    OBVIOUS
  <2>2. ASSUME NEW d \in 0 .. 0 PROVE f[d] = OneLess(Below(f, d))
    <3>1. d = 0
      OBVIOUS
    <3>2. f[0] = OneLess(<<>>)
      <4> DEFINE o == OneLess(<<>>)
      <4> HIDE DEF o
      <4>1. [x \in 0 .. 0 |-> o][0] = o
        OBVIOUS
      <4> QED BY <4>1, Zenon DEF o
    <3>3. Below(f, 0) = <<>>
      BY Zenon DEF Below
    <3> QED BY <3>1, <3>2, <3>3, Zenon
  <2>3. Upto(0, f)
    BY <2>1, <2>2, Zenon
  <2> HIDE DEF f
  <2> QED BY <2>3
<1>2. ASSUME NEW n \in Nat, n \in K PROVE n + 1 \in K
  <2>1. PICK f : Upto(n, f)
    BY <1>2
  <2> DEFINE last == OneLess(f[n])
  <2> HIDE DEF last
  <2> DEFINE g == [d \in 0 .. n + 1 |-> IF d = n + 1 THEN last ELSE f[d]]
  <2>2. g = [d \in 0 .. n + 1 |-> g[d]]
    OBVIOUS
  <2>3. g[n + 1] = last /\ \A d \in 0 .. n : g[d] = f[d]
    OBVIOUS
  <2> HIDE DEF g
  <2>4. ASSUME NEW d \in 0 .. n + 1 PROVE g[d] = OneLess(Below(g, d))
    <3>1. CASE d = n + 1
      <4>1. Below(g, d) = f[n]
        <5>1. d # 0 /\ d - 1 = n /\ n \in 0 .. n
          BY <3>1
        <5>2. Below(g, d) = g[n]
          BY <5>1, Zenon DEF Below
        <5> QED BY <2>3, <5>1, <5>2, Zenon
      <4> QED BY <2>3, <3>1, <4>1, Zenon DEF last
    <3>2. CASE d # n + 1
      <4>1. d \in 0 .. n /\ (d # 0 => d - 1 \in 0 .. n)
        BY <3>2
      <4>2. Below(g, d) = Below(f, d)
        BY <2>3, <4>1, Zenon DEF Below
      <4>3. f[d] = OneLess(Below(f, d))
        BY <2>1, <4>1, Zenon
      <4> QED BY <2>3, <4>1, <4>2, <4>3, Zenon
    <3> QED BY <3>1, <3>2
  <2>5. Upto(n + 1, g)
    BY <2>2, <2>4, Zenon
  <2> QED BY <2>5
<1>3. \A n \in Nat : n \in K
  <2> HIDE DEF K
  <2> QED BY <1>1, <1>2, InductionOnNat, Zenon
<1>4. \A n \in Nat : Upto(n, Some(n))
  BY <1>3, Zenon
<1> HIDE DEF Some, K
<1> DEFINE all == [n \in Nat |-> Some(n)[n]]
<1>5. ASSUME NEW n \in Nat, n # 0 PROVE Some(n)[n - 1] = Some(n - 1)[n - 1]
  <2> DEFINE k == n - 1
             f == [d \in 0 .. k |-> Some(n)[d]]
             g == Some(k)
  <2>1. k \in Nat /\ k \in 0 .. k /\ \A d \in 0 .. k : d \in 0 .. n /\ (d # 0 => d - 1 \in 0 .. k)
    BY <1>5
  <2> HIDE DEF k
  <2>2. \A d \in 0 .. k : f[d] = Some(n)[d]
    OBVIOUS
  <2>3. IsFunctionOn(k, f)
    BY DEF IsFunctionOn
  <2> HIDE DEF f
  <2>4. \A d \in 0 .. k : f[d] = OneLess(Below(f, d))
    <3> SUFFICES ASSUME NEW d \in 0 .. k PROVE f[d] = OneLess(Below(f, d))
      OBVIOUS
    <3>1. Below(f, d) = Below(Some(n), d)
      BY <2>1, <2>2, Zenon DEF Below
    <3>2. Some(n)[d] = OneLess(Below(Some(n), d))
      BY <1>4, <2>1, Zenon
    <3> QED BY <2>2, <3>1, <3>2, Zenon
  <2>5. Upto(k, g)
    BY <1>4, <2>1, Zenon
  <2>6. IsFunctionOn(k, g)
    BY <2>5, Zenon DEF IsFunctionOn
  <2>7. \A d \in 0 .. k : g[d] = OneLess(Below(g, d))
    BY <2>5, Zenon
  <2> HIDE DEF g, Upto
  <2>8. Alike(k, f, g)
    <3>1. f[0] = g[0]
      <4>1. 0 \in 0 .. k
        BY <2>1
      <4>2. Below(f, 0) = Below(g, 0)
        BY Zenon DEF Below
      <4> QED BY <2>4, <2>7, <4>1, <4>2, Zenon
    <3>2. ASSUME NEW d \in 1 .. k, f[d - 1] = g[d - 1] PROVE f[d] = g[d]
      <4>1. d \in 0 .. k /\ d # 0
        OBVIOUS
      <4>2. Below(f, d) = Below(g, d)
        BY <3>2, <4>1, Zenon DEF Below
      <4> QED BY <2>4, <2>7, <4>1, <4>2, Zenon
    <3> QED BY <3>1, <3>2, Zenon DEF Alike
  <2>9. f = g
    BY <2>1, <2>3, <2>6, <2>8, RecursionIsUnique, Zenon
  <2>10. Some(n)[k] = Some(k)[k]
    BY <2>1, <2>2, <2>9, Zenon DEF g
  <2> QED BY <2>10, Zenon DEF k
<1>6. all = [n \in Nat |-> OneLess(IF n = 0 THEN <<>> ELSE all[n - 1])]
  <2>1. ASSUME NEW n \in Nat PROVE all[n] = OneLess(IF n = 0 THEN <<>> ELSE all[n - 1])
    <3>1. Some(n)[n] = OneLess(Below(Some(n), n))
      <4>1. n \in 0 .. n
        OBVIOUS
      <4> QED BY <1>4, <4>1, Zenon
    <3>2. CASE n = 0
      BY <3>1, <3>2, Zenon DEF Below
    <3>3. CASE n # 0
      <4>1. n - 1 \in Nat
        BY <3>3
      <4>2. all[n - 1] = Some(n)[n - 1]
        BY <1>5, <3>3, <4>1, Zenon
      <4>3. Below(Some(n), n) = Some(n)[n - 1]
        BY <3>3, Zenon DEF Below
      <4> QED BY <3>1, <3>3, <4>2, <4>3, Zenon
    <3> QED BY <3>2, <3>3
  <2>2. DOMAIN all = Nat /\ all = [n \in Nat |-> all[n]]
    BY Zenon
  <2> HIDE DEF all
  <2> QED BY <2>1, <2>2, Zenon
<1> HIDE DEF all
<1>7. Parse = [n \in Nat |-> OneLess(IF n = 0 THEN <<>> ELSE Parse[n - 1])]
  BY <1>6, Zenon DEF Parse
<1> QED BY <1>7, Zenon DEF Below

(* What can be called at a depth is all that a text of that length needs. *)
LEMMA ParseFrom ==
  ASSUME text \in Seq(STRING)
  PROVE  CallsFrom(Parse[Len(text)], 0)
<1> DEFINE K == {d \in Nat : d <= Len(text) => CallsFrom(Parse[d], Len(text) - d)}
<1>1. Len(text) \in Nat
  OBVIOUS
<1>2. ASSUME NEW d \in Nat, d <= Len(text), CallsFrom(Below(Parse, d), Len(text) - d + 1)
      PROVE  CallsFrom(Parse[d], Len(text) - d)
  <2>1. Len(text) - d \in Nat
    BY <1>1, <1>2
  <2> DEFINE k == Len(text) - d
  <2>2. CallsFrom(Below(Parse, d), k + 1) /\ k \in Nat
    BY <1>2, <2>1
  <2> HIDE DEF k
  <2>3. CallsFrom(OneLess(Below(Parse, d)), k)
    BY <2>2, OneLessFrom, Zenon
  <2> QED BY <2>3, ParseIs, Zenon DEF k
<1>3. 0 \in K
  <2>1. Len(text) - 0 + 1 = Len(text) + 1
    BY <1>1
  <2>2. CallsFrom(Below(Parse, 0), Len(text) - 0 + 1)
    BY <2>1, NothingLeft, Zenon
  <2>3. 0 \in Nat /\ 0 <= Len(text)
    BY <1>1
  <2> QED BY <1>2, <2>2, <2>3, Zenon
<1>4. ASSUME NEW d \in Nat, d \in K PROVE d + 1 \in K
  <2> SUFFICES ASSUME d + 1 <= Len(text)
               PROVE  CallsFrom(Parse[d + 1], Len(text) - (d + 1))
    OBVIOUS
  <2>1. d <= Len(text) /\ d + 1 \in Nat /\ d + 1 # 0 /\ (d + 1) - 1 = d
        /\ Len(text) - (d + 1) + 1 = Len(text) - d
    BY <1>1
  <2>2. CallsFrom(Parse[d], Len(text) - d)
    BY <1>4, <2>1, Zenon
  <2>3. Below(Parse, d + 1) = Parse[d]
    BY <2>1, Zenon DEF Below
  <2>4. CallsFrom(Below(Parse, d + 1), Len(text) - (d + 1) + 1)
    BY <2>1, <2>2, <2>3, Zenon
  <2> QED BY <1>2, <2>1, <2>4, Zenon
<1>5. \A d \in Nat : d \in K
  <2> HIDE DEF K
  <2> QED BY <1>3, <1>4, InductionOnNat, Zenon
<1>6. Len(text) <= Len(text) /\ Len(text) - Len(text) = 0
  BY <1>1
<1> QED BY <1>1, <1>5, <1>6, Zenon
-----------------------------------------------------------------------------
(* The parser between two statements of the outmost block, and what it has *)
(* reported when it has stopped.                                           *)
ParsingInvariant ==
  /\ text \in Seq(STRING) /\ InOrder(parser.errors)
  /\ stage = "parsing" => Resumed(parser)

(* The text stays. *)
LEMMA SameText ==
  ASSUME text' = text
  PROVE  /\ \A at : LineOf(at)' = LineOf(at)
         /\ \A errors : InOrder(errors)' <=> InOrder(errors)
         /\ \A p : Resumed(p)' <=> Resumed(p)
<1>1. ASSUME NEW at PROVE LineOf(at)' = LineOf(at)
  <2>1. {i \in 1 .. at : text'[i] = "\n"} = {i \in 1 .. at : text[i] = "\n"}
    BY Zenon
  <2> QED BY <2>1, Zenon DEF LineOf
<1>2. ASSUME NEW errors PROVE InOrder(errors)' <=> InOrder(errors)
  BY <1>1, Zenon DEF InOrder
<1>3. ASSUME NEW errors, NEW line PROVE Reported(errors, line)' <=> Reported(errors, line)
  BY <1>1, Zenon DEF Reported
<1>4. ASSUME NEW token, NEW s PROVE IsToken(token, s)' <=> IsToken(token, s)
  BY Zenon DEF IsToken
<1>5. ASSUME NEW p PROVE IsParser(p)' <=> IsParser(p)
  BY <1>4, Zenon DEF IsParser
<1>6. ASSUME NEW p PROVE Resumed(p)' <=> Resumed(p)
  BY <1>1, <1>2, <1>3, <1>5, Zenon DEF Resumed
<1> QED BY <1>1, <1>2, <1>6

LEMMA StartIsSound ==
  ASSUME text \in Seq(STRING), StartParsing
  PROVE  ParsingInvariant
<1>1. Resumed(parser)
  BY NewIs, Zenon DEF StartParsing
<1> QED BY <1>1, Zenon DEF ParsingInvariant, Resumed

LEMMA TurnIsSound ==
  ASSUME ParsingInvariant, ParseTurn
  PROVE  /\ ParsingInvariant'
         /\ stage = "parsing" /\ stage' = "parsing" => Unread(parser') > Unread(parser)
<1> DEFINE turn == BlockTurn(Parse[Len(text)], parser, TRUE)
           k == Unread(parser)
<1>1. /\ stage = "parsing" /\ parser' = turn.parser /\ text' = text
      /\ \/ turn.outcome = "statement" /\ stage' = stage
         \/ turn.outcome = "error" /\ stage' = stage
         \/ turn.outcome = "end" /\ stage' = "parsed"
         \/ turn.outcome = "leave" /\ stage' = "rejected"
  BY Zenon DEF ParseTurn, Proceed
<1>2. text \in Seq(STRING) /\ Resumed(parser)
  BY <1>1, Zenon DEF ParsingInvariant
<1>3. k \in Nat /\ k <= k
  <2>1. k \in Nat
    BY <1>2, AheadIs, Zenon DEF Resumed
  <2> HIDE DEF k
  <2> QED BY <2>1
<1>4. CallsFrom(Parse[Len(text)], k + 1)
  <2>1. 0 \in Nat /\ k + 1 \in Nat /\ 0 <= k + 1
    BY <1>3
  <2> QED BY <1>2, <2>1, ParseFrom, CallsFromMore, Zenon
<1>5. Turned(turn, k, TRUE)
  BY <1>2, <1>3, <1>4, TurnIs, Zenon
<1> HIDE DEF turn
<1>6. /\ turn.outcome = "statement" => From(parser', k + 1) /\ ~Throws(parser')
      /\ turn.outcome = "error" => Resumed(parser') /\ k + 1 <= Unread(parser')
      /\ turn.outcome = "end" \/ turn.outcome = "leave" => InOrder(parser'.errors)
  BY <1>1, <1>5, Zenon DEF Turned
<1>7. CASE turn.outcome = "statement" \/ turn.outcome = "error"
  <2>1. Resumed(parser') /\ k + 1 <= Unread(parser')
    BY <1>6, <1>7, Zenon DEF From, Sound, Resumed
  <2>2. Unread(parser') \in Nat
    BY <1>2, <2>1, AheadIs, Zenon DEF Resumed
  <2>3. k < Unread(parser')
    <3> DEFINE l == Unread(parser')
    <3>1. l \in Nat /\ k + 1 <= l
      BY <2>1, <2>2
    <3> HIDE DEF k, l
    <3>2. k < l
      BY <1>3, <3>1
    <3> QED BY <3>2 DEF l
  <2>4. Resumed(parser)' /\ InOrder(parser.errors)'
    BY <1>1, <2>1, SameText, Zenon DEF Resumed
  <2>5. ParsingInvariant'
    BY <1>1, <1>2, <2>4, Zenon DEF ParsingInvariant
  <2> QED BY <2>3, <2>5
<1>8. CASE turn.outcome = "end" \/ turn.outcome = "leave"
  <2>1. InOrder(parser.errors)'
    BY <1>1, <1>6, <1>8, SameText, Zenon
  <2>2. stage' # "parsing"
    <3>1. "parsing" # "parsed" /\ "parsing" # "rejected" /\ "statement" # "end"
          /\ "statement" # "leave" /\ "error" # "end" /\ "error" # "leave"
      OBVIOUS
    <3> QED BY <1>1, <1>8, <3>1, Zenon
  <2> QED BY <1>1, <1>2, <2>1, <2>2, Zenon DEF ParsingInvariant
<1> QED BY <1>1, <1>7, <1>8

LEMMA StutterIsSound ==
  ASSUME ParsingInvariant, UNCHANGED parsing
  PROVE  ParsingInvariant'
<1>1. text' = text /\ stage' = stage /\ parser' = parser
  BY DEF parsing
<1> QED BY <1>1, SameText, Zenon DEF ParsingInvariant

LEMMA ParsingIsSound == ParsingSpec => []ParsingInvariant
<1>1. text \in Seq(STRING) /\ StartParsing => ParsingInvariant
  BY StartIsSound
<1>2. ParsingInvariant /\ [ParseTurn]_parsing => ParsingInvariant'
  BY TurnIsSound, StutterIsSound
<1> QED BY <1>1, <1>2, PTL DEF ParsingSpec

(* Whatever the text, a line is reported once at most. *)
THEOREM OneErrorPerLineAlways == ParsingSpec => []OneErrorPerLine
<1>1. ParsingInvariant => OneErrorPerLine
  BY Zenon DEF ParsingInvariant, OneErrorPerLine, InOrder
<1> QED BY <1>1, ParsingIsSound, PTL

(* Whatever the text, every turn of the loop takes something from it. *)
THEOREM ParsingAlwaysAdvances == ParsingSpec => ParsingAdvances
<1>1. ParsingInvariant /\ [ParseTurn]_parsing =>
        [stage = "parsing" /\ stage' = "parsing" => Unread(parser') > Unread(parser)]_parsing
  BY TurnIsSound
<1> QED BY <1>1, ParsingIsSound, PTL DEF ParsingSpec, ParsingAdvances
=============================================================================

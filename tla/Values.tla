------------------------------- MODULE Values -------------------------------
(***************************************************************************)
(* The values of p0run and the operations the instructions have for them.  *)
(* A value is a pair of its type and what it refers to: an integer, the    *)
(* content of a string, the index of an object or of a function.  Integers *)
(* have the operations of Arithmetic.                                      *)
(***************************************************************************)
EXTENDS Integers, Sequences

CONSTANTS
  Width,       \* bits of run::integer
  Half,        \* 2^(Width-1)
  Contents     \* the strings there are, in their order

A == INSTANCE Arithmetic WITH left <- <<>>, right <- <<>>, error <- ""

NullValue         == <<"null", 0>>
IntegerValue(n)   == <<"integer", n>>
StringValue(s)    == <<"string", s>>
Type(value)       == value[1]
IsInteger(value)  == Type(value) = "integer"

Truth(value) == Type(value) # "null" /\ (IsInteger(value) => value[2] # 0)

ContentRank(s) == CHOOSE i \in DOMAIN Contents : Contents[i] = s

(* Objects of different kinds are ordered by their addresses, which are    *)
(* whatever the allocator chose: here, all strings lie below the native    *)
(* objects, and these below the other ones.                                *)
TypeRank(type) == CASE type = "null" -> 0 [] type = "function" -> 1 [] type = "string" -> 2
                    [] type = "native" -> 3 [] type \in {"object", "table"} -> 4
                    [] type = "integer" -> 5

(* Strings and native objects by their content or name, what else there is *)
(* of a type by number or address.  Integers whose difference overflows    *)
(* compare as in a build that compares the operands (Arithmetic has both). *)
Compare(left, right) ==
  IF Type(left) # Type(right) THEN A!Sign(TypeRank(Type(left)) - TypeRank(Type(right)))
  ELSE IF Type(left) \in {"string", "native"} THEN A!Sign(ContentRank(left[2]) - ContentRank(right[2]))
  ELSE A!Sign(left[2] - right[2])

Result(value) == [error |-> "", value |-> value]
Failure(error) == [error |-> error, value |-> NullValue]

ApplyBinary(operation, left, right) ==
  IF operation \in A!Comparisons
    THEN Result(IntegerValue(
           IF Compare(left, right) \in A!ExpectedStatus(operation) THEN 1 ELSE 0))
  ELSE IF ~IsInteger(left) \/ ~IsInteger(right) THEN Result(left)
  ELSE LET outcome == A!Outcome(operation, left[2], right[2]) IN
       IF outcome.error = "none" THEN Result(IntegerValue(outcome.n)) ELSE Failure(outcome.error)

ApplyUnary(operation, operand) ==
  IF operation = "not" THEN Result(IntegerValue(IF Truth(operand) THEN 0 ELSE 1))
  ELSE IF ~IsInteger(operand) THEN Result(operand)
  ELSE IF operation = "invert" THEN Result(IntegerValue(- operand[2] - 1))
  ELSE IF operand[2] = - Half THEN Failure("integer_overflow")
  ELSE Result(IntegerValue(- operand[2]))

-----------------------------------------------------------------------------
(* table: a map whose elements are never null. *)
NoElements == [key \in {} |-> NullValue]
GetElement(table, key) == IF key \in DOMAIN table THEN table[key] ELSE NullValue

(* string::get_element: the number of the character at an index. *)
Character(content, key) ==
  IF IsInteger(key) /\ key[2] \in 0 .. Len(content) - 1
    THEN Result(IntegerValue(ContentRank(SubSeq(content, key[2] + 1, key[2] + 1))))
    ELSE Failure("get_not_supported")

SetElement(table, key, value) ==
  IF value = NullValue THEN [k \in DOMAIN table \ {key} |-> table[k]]
  ELSE [k \in DOMAIN table \cup {key} |-> IF k = key THEN value ELSE table[k]]
=============================================================================

----------------------------- MODULE Arithmetic -----------------------------
(***************************************************************************)
(* The integer instructions of p0run/interpreter.cpp and the comparison of *)
(* p0run/value.{hpp,cpp} they use, with the width of run::integer as a     *)
(* parameter (64 in the code).  A step executes one instruction on two     *)
(* local variables; an error ends the program and another one starts.      *)
(***************************************************************************)
EXTENDS Integers

CONSTANTS
  Width,     \* bits of run::integer
  Half       \* 2^(Width-1), the first integer that is too large

(* A truth value, which is 0 or 1, has to fit. *)
ASSUME WordAssumption ==
  /\ Width \in Nat \ {0, 1}
  /\ Half \in Nat \ {0}

(* The powers of two a word has room for. *)
TwoTo[k \in 0 .. Width] == IF k = 0 THEN 1 ELSE 2 * TwoTo[k - 1]

ASSUME HalfAssumption == Half = TwoTo[Width - 1]

VARIABLES
  left,      \* the destination operand
  right,     \* the source operand
  error      \* "none" or the runtime_error_code that was raised

vars == <<left, right, error>>

MinInteger == - Half
MaxInteger == Half - 1
Word   == MinInteger .. MaxInteger

(* A value; i stands for the address of an object or a function. *)
Value == [type : {"integer"}, i : Word] \cup [type : {"null"}, i : {0}]
           \cup [type : {"function_ptr", "object"}, i : {0, 1}]
Integer(n) == [type |-> "integer", i |-> n]

ToBoolean(value) == value.type # "null" /\ (value.type = "integer" => value.i # 0)

(* Two's complement: what the processor leaves of a result. *)
Wrap(n) == ((n + Half) % (2 * Half)) - Half

-----------------------------------------------------------------------------
(* Binary operations: the value that is stored, or the error. *)
Done(n)  == [error |-> "none", n |-> n]
Raise(e) == [error |-> e, n |-> 0]

(* Mutant: only positive sums are checked. *)
AddCheckedAbove(l, r) ==
  IF l > 0 /\ MaxInteger - l < r THEN Raise("integer_overflow") ELSE Done(Wrap(l + r))

CheckedAdd(l, r) ==
  IF \/ l > 0 /\ MaxInteger - l < r
     \/ l < 0 /\ MinInteger - l > r
    THEN Raise("integer_overflow")
    ELSE Done(Wrap(l + r))

(* The negation of the smallest integer overflows, which C++ leaves        *)
(* undefined; the build produces the same integer again.                   *)
Sub(l, r) == CheckedAdd(l, Wrap(- r))

(* C++ division truncates towards zero, \div rounds down. *)
Magnitude(n) == IF n < 0 THEN - n ELSE n
Quotient(l, r) ==
  IF (l < 0) = (r < 0) THEN Magnitude(l) \div Magnitude(r)
                       ELSE - (Magnitude(l) \div Magnitude(r))
Remainder(l, r) == l - r * Quotient(l, r)

(* Mutant: the one quotient that overflows is not looked for. *)
CheckZeroOnly(l, r, result) ==
  IF r = 0 THEN Raise("division_by_zero") ELSE Done(result)

CheckDivisor(l, r, result) ==
  IF r = 0 THEN Raise("division_by_zero")
  ELSE IF l = MinInteger /\ r = -1 THEN Raise("integer_overflow")
  ELSE Done(result)

Div(l, r) == CheckDivisor(l, r, IF r = 0 THEN 0 ELSE Quotient(l, r))
Mod(l, r) == CheckDivisor(l, r, IF r = 0 THEN 0 ELSE Remainder(l, r))

Bit(n, k) == ((n % (2 * Half)) \div TwoTo[k]) % 2
FromBits(bits) == CHOOSE n \in Word : \A k \in 0 .. Width - 1 : Bit(n, k) = bits[k]
BitwiseWith(operation(_, _), l, r) ==
  FromBits([k \in 0 .. Width - 1 |-> operation(Bit(l, k), Bit(r, k))])
And(l, r) == BitwiseWith(LAMBDA a, b : a * b, l, r)
Or(l, r)  == BitwiseWith(LAMBDA a, b : a + b - a * b, l, r)
Xor(l, r) == BitwiseWith(LAMBDA a, b : (a + b) % 2, l, r)

CheckShift(r, result) ==
  IF r < 0 THEN Raise("negative_shift")
  ELSE IF r >= Width THEN Raise("shift_out_of_range")
  ELSE Done(result)

ShiftLeft(l, r)   == CheckShift(r, Wrap(l * TwoTo[r]))
ShiftRight(l, r)  == CheckShift(r, Wrap((l % (2 * Half)) \div TwoTo[r]))
ShiftSigned(l, r) == CheckShift(r, l \div TwoTo[r])

BinaryOperations ==
  {"add", "sub", "mul", "div", "mod", "and", "or", "xor",
   "shift_left", "shift_right", "shift_signed"}

Outcome(op, l, r) ==
  CASE op = "add" -> CheckedAdd(l, r)
    [] op = "sub" -> Sub(l, r)
    [] op = "mul" -> Done(Wrap(l * r))
    [] op = "div" -> Div(l, r)
    [] op = "mod" -> Mod(l, r)
    [] op = "and" -> Done(And(l, r))
    [] op = "or"  -> Done(Or(l, r))
    [] op = "xor" -> Done(Xor(l, r))
    [] op = "shift_left"   -> ShiftLeft(l, r)
    [] op = "shift_right"  -> ShiftRight(l, r)
    [] op = "shift_signed" -> ShiftSigned(l, r)

-----------------------------------------------------------------------------
(* Comparison *)
Sign(n) == IF n < 0 THEN "less" ELSE IF n > 0 THEN "greater" ELSE "equal"

(* Mutant: the difference is taken to the size of an int, one bit less. *)
CompareNarrow(l, r) == {Sign((l - r) % Half)}

(* compare<integer> looks at the sign of the difference.  Where that       *)
(* overflows, a build either wraps it or compares the operands.            *)
CompareIntegers(l, r) == {Sign(Wrap(l - r)), Sign(l - r)}

(* null < functions < objects < integers; objects by address. *)
Rank(type) == CASE type = "null" -> 0 [] type = "function_ptr" -> 1
                [] type = "object" -> 2 [] type = "integer" -> 3
Compare(a, b) ==
  IF a.type = "integer" /\ b.type = "integer" THEN CompareIntegers(a.i, b.i)
  ELSE IF a.type = b.type THEN {Sign(a.i - b.i)}
  ELSE {Sign(Rank(a.type) - Rank(b.type))}

Comparisons == {"equal", "not_equal", "less", "less_equal", "greater", "greater_equal"}
ExpectedStatus(op) ==
  CASE op = "equal"         -> {"equal"}
    [] op = "not_equal"     -> {"less", "greater"}
    [] op = "less"          -> {"less"}
    [] op = "less_equal"    -> {"less", "equal"}
    [] op = "greater"       -> {"greater"}
    [] op = "greater_equal" -> {"greater", "equal"}

-----------------------------------------------------------------------------
(* Instructions *)
Init ==
  /\ left \in Value /\ right \in Value
  /\ error = "none"

Running == error = "none"

(* The operands are integers, or the instruction does nothing. *)
Binary(op) ==
  /\ Running
  /\ IF left.type = "integer" /\ right.type = "integer"
       THEN LET outcome == Outcome(op, left.i, right.i) IN
            /\ error' = outcome.error
            /\ left' = IF outcome.error = "none" THEN Integer(outcome.n) ELSE left
       ELSE UNCHANGED <<left, error>>
  /\ UNCHANGED right

Not ==
  /\ Running
  /\ left' = Integer(IF ToBoolean(left) THEN 0 ELSE 1)
  /\ UNCHANGED <<right, error>>

Invert ==
  /\ Running
  /\ left' = IF left.type = "integer" THEN Integer(- left.i - 1) ELSE left
  /\ UNCHANGED <<right, error>>

(* Mutant: the smallest integer is negated like any other. *)
NegateUnchecked ==
  /\ Running
  /\ left' = IF left.type = "integer" THEN Integer(- left.i) ELSE left
  /\ UNCHANGED <<right, error>>

Negate ==
  /\ Running
  /\ IF left.type = "integer" /\ left.i = MinInteger
       THEN error' = "integer_overflow" /\ UNCHANGED left
       ELSE /\ left' = IF left.type = "integer" THEN Integer(- left.i) ELSE left
            /\ UNCHANGED error
  /\ UNCHANGED right

Comparison(op) ==
  /\ Running
  /\ \E status \in Compare(left, right) :
       left' = Integer(IF status \in ExpectedStatus(op) THEN 1 ELSE 0)
  /\ UNCHANGED <<right, error>>

(* set_from_constant, copy and whatever else gives the operands new values, *)
(* in this program or, after an error, in the next.                        *)
SetOperands == left' \in Value /\ right' \in Value /\ error' = "none"

Next ==
  \/ \E op \in BinaryOperations : Binary(op)
  \/ \E op \in Comparisons : Comparison(op)
  \/ Not \/ Invert \/ Negate
  \/ SetOperands

Spec == Init /\ [][Next]_vars

-----------------------------------------------------------------------------
Errors == {"none", "integer_overflow", "division_by_zero", "negative_shift",
           "shift_out_of_range"}

(* Every result fits in the operand it is stored in. *)
TypeOK == left \in Value /\ right \in Value /\ error \in Errors

IntegerOperands == {left, right} \subseteq [type : {"integer"}, i : Word]

(* What the instruction should do, given the integer it is meant to compute. *)
Exactly(n) ==
  IF n \in Word THEN error' = "none" /\ left' = Integer(n)
                ELSE error' = "integer_overflow" /\ UNCHANGED left

(* An addition raises integer_overflow if and only if the sum does not fit, *)
(* and is otherwise the sum, in all four cases of signs.  So does a        *)
(* subtraction, for every subtrahend that can be negated: taking away the  *)
(* smallest integer gives wrong sums and wrong errors.                     *)
AdditionIsExact == Binary("add") => Exactly(left.i + right.i)
SubtractionIsExactUnlessMin ==
  Binary("sub") /\ right.i # MinInteger => Exactly(left.i - right.i)
SumsAreExact ==
  [][IntegerOperands => AdditionIsExact /\ SubtractionIsExactUnlessMin]_vars

(* Quotient and remainder belong together, one of them raises an error     *)
(* exactly when the other one does, and the quotient never overflows.      *)
DivisionAgreesWithModulo ==
  IntegerOperands =>
    LET q == Div(left.i, right.i)
        m == Mod(left.i, right.i)
    IN  /\ q.error = m.error
        /\ q.error = "none" => /\ q.n \in Word
                               /\ left.i = right.i * q.n + m.n
                               /\ Magnitude(m.n) < Magnitude(right.i)
                               /\ m.n # 0 => (m.n < 0) = (left.i < 0)

(* Two values compare equal only if they are the same, also when their     *)
(* difference overflows: what not_equal and the keys of tables rely on.    *)
EqualityIsExact == "equal" \in Compare(left, right) <=> left = right

(* Of two integers, compare finds the smaller one. *)
ComparisonIsOrder ==
  IntegerOperands => Compare(left, right) = {Sign(left.i - right.i)}
=============================================================================

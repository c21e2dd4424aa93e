-------------------------- MODULE ArithmeticProofs --------------------------
(***************************************************************************)
(* Theorems about Arithmetic for every width of run::integer.  That every  *)
(* result fits rests on what the powers of two are and on every pattern of *)
(* bits being that of a word; the other theorems are about single          *)
(* instructions, or follow from the type of the operands.                  *)
(***************************************************************************)
EXTENDS Arithmetic, NaturalInduction

USE WordAssumption DEF Word, MinInteger, MaxInteger

-----------------------------------------------------------------------------
(* Powers of two *)

(* The recursion that defines the powers of two is well-defined. *)
LEMMA TwoToIs ==
  /\ TwoTo \in [0 .. Width -> Nat]
  /\ TwoTo[0] = 1
  /\ \A k \in 1 .. Width : TwoTo[k] = 2 * TwoTo[k - 1]
<1> DEFINE Twice(n) == 2 * n
           Equation(f) == f = [k \in 0 .. Width |-> IF k = 0 THEN 1 ELSE Twice(f[k - 1])]
           step == [p \in (1 .. Width) \X Nat |-> Twice(p[2])]
           F == TwoTo
<1>1. step \in StepFunctions(Width, Nat)
  BY DEF StepFunctions
<1>2. \A k \in 1 .. Width, n \in Nat : step[<<k, n>>] = Twice(n)
  OBVIOUS
<1> HIDE DEF step, Twice
<1>3. PICK g \in [0 .. Width -> Nat] : /\ g[0] = 1
                                       /\ \A k \in 1 .. Width : g[k] = step[<<k, g[k - 1]>>]
  <2>1. Sequences(Width, Nat, 1, step) # {}
    BY <1>1, RecursionExists
  <2> QED BY <2>1 DEF Sequences
<1>4. \A k \in 1 .. Width : g[k] = Twice(g[k - 1])
  <2> TAKE k \in 1 .. Width
  <2>1. k - 1 \in 0 .. Width
    OBVIOUS
  <2>2. g[k - 1] \in Nat
    BY <2>1
  <2> QED BY <1>2, <1>3, <2>2
<1>5. Equation(g)
  <2>1. \A k \in 0 .. Width : k # 0 => k \in 1 .. Width
    OBVIOUS
  <2> QED BY <1>3, <1>4, <2>1
<1>6. F = CHOOSE f : Equation(f)
  BY DEF TwoTo, Twice
<1>7. Equation(F)
  <2> HIDE DEF F, Equation
  <2> QED BY <1>5, <1>6
<1>8. F[0] = 1 /\ \A k \in 1 .. Width : F[k] = Twice(F[k - 1])
  <2> HIDE DEF F
  <2>1. 0 \in 0 .. Width /\ \A k \in 1 .. Width : k \in 0 .. Width /\ k # 0
    OBVIOUS
  <2>2. F[0] = 1
    BY <1>7, <2>1
  <2>3. ASSUME NEW k \in 1 .. Width PROVE F[k] = Twice(F[k - 1])
    <3>1. \A j \in 0 .. Width : F[j] = IF j = 0 THEN 1 ELSE Twice(F[j - 1])
      <4> DEFINE G == [j \in 0 .. Width |-> IF j = 0 THEN 1 ELSE Twice(F[j - 1])]
      <4>1. F = G
        BY <1>7
      <4>2. \A j \in 0 .. Width : G[j] = IF j = 0 THEN 1 ELSE Twice(F[j - 1])
        OBVIOUS
      <4> HIDE DEF G
      <4> QED BY <4>1, <4>2
    <3> QED BY <2>1, <3>1
  <2> QED BY <2>2, <2>3
<1>9. F = g
  <2> HIDE DEF F
  <2>1. IsFunctionOn(Width, F) /\ IsFunctionOn(Width, g)
    BY <1>7 DEF IsFunctionOn
  <2>2. Alike(Width, F, g)
    BY <1>3, <1>4, <1>8 DEF Alike
  <2> QED BY <2>1, <2>2, RecursionIsUnique
<1> HIDE DEF F
<1>10. F \in [0 .. Width -> Nat]
  BY <1>3, <1>9
<1> QED BY <1>8, <1>10 DEF F, Twice

(* The last of them is the number of words. *)
LEMMA WordCount == TwoTo[Width] = 2 * Half
BY TwoToIs, HalfAssumption

LEMMA TwoToPositive == \A k \in 0 .. Width : TwoTo[k] \in Nat \ {0}
<1> DEFINE K == {k \in Nat : k <= Width => TwoTo[k] \in Nat \ {0}}
<1>1. 0 \in K
  BY TwoToIs
<1>2. ASSUME NEW k \in Nat, k \in K PROVE k + 1 \in K
  <2> SUFFICES ASSUME k + 1 <= Width PROVE TwoTo[k + 1] \in Nat \ {0}
    OBVIOUS
  <2>1. k + 1 \in 1 .. Width /\ (k + 1) - 1 = k /\ TwoTo[k] \in Nat \ {0}
    BY <1>2
  <2>2. TwoTo[k + 1] = 2 * TwoTo[k]
    BY <2>1, TwoToIs
  <2> QED BY <2>1, <2>2
<1>3. \A k \in Nat : k \in K
  <2> HIDE DEF K
  <2> QED BY <1>1, <1>2, InductionOnNat
<1> QED BY <1>3

(* A smaller power of two divides a larger one, an even number of times. *)
LEMMA TwoToDivides ==
  ASSUME NEW k \in Nat
  PROVE  \A w \in k + 1 .. Width : \E c \in Nat : TwoTo[w] = TwoTo[k] * (2 * c)
<1> DEFINE W == {w \in Nat : w \in k + 1 .. Width
                               => \E c \in Nat : TwoTo[w] = TwoTo[k] * (2 * c)}
<1>1. 0 \in W
  OBVIOUS
<1>2. ASSUME NEW w \in Nat, w \in W PROVE w + 1 \in W
  <2> SUFFICES ASSUME w + 1 \in k + 1 .. Width
               PROVE  \E c \in Nat : TwoTo[w + 1] = TwoTo[k] * (2 * c)
    OBVIOUS
  <2>1. w + 1 \in 1 .. Width /\ (w + 1) - 1 = w
    OBVIOUS
  <2>2. TwoTo[w + 1] = 2 * TwoTo[w]
    BY <2>1, TwoToIs
  <2>3. TwoTo[k] \in Nat
    <3>1. k \in 0 .. Width
      OBVIOUS
    <3> QED BY <3>1, TwoToIs
  <2>4. CASE w = k
    <3>1. TwoTo[w + 1] = TwoTo[k] * (2 * 1)
      BY <2>2, <2>3, <2>4
    <3> QED BY <3>1
  <2>5. CASE w # k
    <3>1. PICK c \in Nat : TwoTo[w] = TwoTo[k] * (2 * c)
      BY <1>2, <2>5
    <3>2. 2 * c \in Nat /\ 2 * (TwoTo[k] * (2 * c)) = TwoTo[k] * (2 * (2 * c))
      BY <2>3
    <3> QED BY <2>2, <3>1, <3>2
  <2> QED BY <2>4, <2>5
<1>3. \A w \in Nat : w \in W
  <2> HIDE DEF W
  <2> QED BY <1>1, <1>2, InductionOnNat
<1> QED BY <1>3

-----------------------------------------------------------------------------
(* Bits *)

(* A word has room for a truth value. *)
LEMMA HalfIsEven == Half \in Nat /\ Half >= 2
<1>1. Half = 2 * TwoTo[Width - 2]
  <2>1. Width - 1 \in 1 .. Width /\ (Width - 1) - 1 = Width - 2
    OBVIOUS
  <2> QED BY <2>1, TwoToIs, HalfAssumption
<1>2. TwoTo[Width - 2] \in Nat \ {0}
  BY TwoToPositive
<1> QED BY <1>1, <1>2

(* A quotient and a remainder are known by their equation. *)
LEMMA DivisionIs ==
  ASSUME NEW a \in Int, NEW b \in Nat \ {0}, NEW q \in Int, NEW m \in 0 .. b - 1,
         a = b * q + m
  PROVE  a \div b = q /\ a % b = m
OBVIOUS

LEMMA TurnIs == 2 * Half \in Nat \ {0}
OBVIOUS

(* Whatever the processor computes, what it leaves is a word. *)
LEMMA WrapIsWord == ASSUME NEW n \in Int PROVE Wrap(n) \in Word
<1>1. n + Half \in Int /\ (n + Half) % (2 * Half) \in 0 .. 2 * Half - 1
  BY TurnIs
<1> QED BY <1>1 DEF Wrap

(* A word and its pattern, read as a natural number. *)
LEMMA WordOfPattern ==
  ASSUME NEW m \in 0 .. 2 * Half - 1
  PROVE  \E n \in Word : n % (2 * Half) = m
<1>1. CASE m < Half
  <2>1. m \in Word /\ m % (2 * Half) = m
    BY <1>1, TurnIs
  <2> QED BY <2>1
<1>2. CASE m >= Half
  <2> DEFINE n == m - 2 * Half
             d == 2 * Half
  <2>1. n \in Word
    BY <1>2
  <2>2. n = d * (-1) + m /\ n \in Int /\ d \in Nat \ {0} /\ m \in 0 .. d - 1
    BY TurnIs
  <2>3. n % d = m
    <3> HIDE DEF n, d
    <3> QED BY <2>2
  <2> QED BY <2>1, <2>3
<1> QED BY <1>1, <1>2

(* Every pattern of bits is that of a number below the next power of two.  *)
LEMMA BitsExist ==
  ASSUME NEW bits \in [0 .. Width - 1 -> {0, 1}]
  PROVE  \E m \in 0 .. TwoTo[Width] - 1 :
           \A k \in 0 .. Width - 1 : (m \div TwoTo[k]) % 2 = bits[k]
<1> DEFINE Fits(w, m) == \A k \in 0 .. w - 1 : (m \div TwoTo[k]) % 2 = bits[k]
           W == {w \in Nat : w <= Width => \E m \in 0 .. TwoTo[w] - 1 : Fits(w, m)}
<1>1. 0 \in W
  <2>1. 0 \in 0 .. TwoTo[0] - 1
    BY TwoToIs
  <2>2. Fits(0, 0)
    OBVIOUS
  <2> QED BY <2>1, <2>2
<1>2. ASSUME NEW w \in Nat, w \in W PROVE w + 1 \in W
  <2> SUFFICES ASSUME w + 1 <= Width
               PROVE  \E m \in 0 .. TwoTo[w + 1] - 1 : Fits(w + 1, m)
    OBVIOUS
  <2>1. w \in 0 .. Width - 1 /\ w + 1 \in 1 .. Width /\ (w + 1) - 1 = w /\ w \in 0 .. Width
    OBVIOUS
  <2>2. PICK m \in 0 .. TwoTo[w] - 1 : Fits(w, m)
    BY <1>2, <2>1
  <2> DEFINE t == TwoTo[w]
             b == bits[w]
             high == m + t * b
  <2>3. t \in Nat \ {0} /\ b \in {0, 1} /\ TwoTo[w + 1] = 2 * t
    BY <2>1, TwoToIs, TwoToPositive
  <2>4. m \in Nat /\ m < t
    BY <2>3
  <2> HIDE DEF t, b
  <2>5. high \in 0 .. TwoTo[w + 1] - 1
    <3>1. CASE b = 0
      BY <2>3, <2>4, <3>1
    <3>2. CASE b = 1
      BY <2>3, <2>4, <3>2
    <3> QED BY <2>3, <3>1, <3>2
  <2>6. high \div t = b
    BY <2>3, <2>4
  <2>7. ASSUME NEW k \in 0 .. w - 1 PROVE (high \div TwoTo[k]) % 2 = bits[k]
    <3> DEFINE s == TwoTo[k]
               q == m \div s
    <3>1. PICK c \in Nat : t = s * (2 * c)
      <4>1. k \in Nat /\ w \in k + 1 .. Width
        BY <2>1
      <4> QED BY <4>1, TwoToDivides DEF t
    <3>2. s \in Nat \ {0}
      <4>1. k \in 0 .. Width
        BY <2>1
      <4> QED BY <4>1, TwoToPositive
    <3> HIDE DEF s
    <3>3. q \in Nat /\ m % s \in 0 .. s - 1 /\ m = s * q + (m % s)
      BY <2>4, <3>2
    <3>4. q % 2 = bits[k]
      BY <2>2 DEF s
    <3> HIDE DEF q
    <3>5. c * b \in Nat /\ t * b = s * (2 * (c * b))
      BY <2>3, <3>1, <3>2
    <3>6. high = s * (q + 2 * (c * b)) + (m % s)
      <4> DEFINE x == c * b
                 rest == m % s
      <4>1. x \in Nat /\ rest \in Int
        BY <3>3, <3>5
      <4>2. high = (s * q + rest) + s * (2 * x)
        BY <3>3, <3>5
      <4> HIDE DEF x, rest, high
      <4>3. s * (q + 2 * x) = s * q + s * (2 * x) /\ s * q \in Int /\ s * (2 * x) \in Int
        BY <3>2, <3>3, <4>1
      <4>4. high = s * (q + 2 * x) + rest
        BY <4>1, <4>2, <4>3
      <4> QED BY <4>4 DEF x, rest
    <3>7. high \div s = q + 2 * (c * b)
      <4> DEFINE p == q + 2 * (c * b)
                 rest == m % s
      <4>1. p \in Int /\ high \in Int /\ rest \in 0 .. s - 1
        BY <2>3, <2>4, <2>5, <3>3, <3>5
      <4>2. high = s * p + rest
        BY <3>6
      <4> HIDE DEF high, p, rest
      <4>3. high \div s = p
        BY <3>2, <4>1, <4>2, DivisionIs
      <4> QED BY <4>3 DEF p
    <3>8. (q + 2 * (c * b)) % 2 = q % 2
      BY <3>3, <3>5
    <3> QED BY <3>4, <3>7, <3>8 DEF s
  <2>8. b % 2 = b
    BY <2>3
  <2>9. Fits(w + 1, high)
    <3> SUFFICES ASSUME NEW k \in 0 .. w PROVE (high \div TwoTo[k]) % 2 = bits[k]
      BY <2>1
    <3>1. CASE k = w
      BY <2>6, <2>8, <3>1 DEF t, b
    <3>2. CASE k # w
      <4>1. k \in 0 .. w - 1
        BY <3>2
      <4> QED BY <2>7, <4>1
    <3> QED BY <3>1, <3>2
  <2> HIDE DEF high, Fits
  <2> QED BY <2>5, <2>9
<1>3. \A w \in Nat : w \in W
  <2> HIDE DEF W
  <2> QED BY <1>1, <1>2, InductionOnNat
<1>4. \E m \in 0 .. TwoTo[Width] - 1 : Fits(Width, m)
  <2> HIDE DEF Fits
  <2> QED BY <1>3
<1> QED BY <1>4

(* So the bitwise instructions, which put a word together from its bits,   *)
(* find it.                                                                *)
LEMMA FromBitsIsWord ==
  ASSUME NEW bits \in [0 .. Width - 1 -> {0, 1}]
  PROVE  /\ FromBits(bits) \in Word
         /\ \A k \in 0 .. Width - 1 : Bit(FromBits(bits), k) = bits[k]
<1>1. PICK m \in 0 .. TwoTo[Width] - 1 :
             \A k \in 0 .. Width - 1 : (m \div TwoTo[k]) % 2 = bits[k]
  BY BitsExist
<1>2. PICK n \in Word : n % (2 * Half) = m
  <2>1. m \in 0 .. 2 * Half - 1
    BY WordCount
  <2> QED BY <2>1, WordOfPattern
<1>3. \A k \in 0 .. Width - 1 : Bit(n, k) = bits[k]
  BY <1>1, <1>2 DEF Bit
<1> HIDE DEF Word
<1> QED BY <1>3 DEF FromBits

LEMMA BitIs ==
  ASSUME NEW n \in Word, NEW k \in 0 .. Width - 1
  PROVE  Bit(n, k) \in {0, 1}
<1> DEFINE p == n % (2 * Half)
           t == TwoTo[k]
<1>1. p \in Nat
  BY TurnIs
<1>2. t \in Nat \ {0}
  BY TwoToPositive
<1> HIDE DEF p, t
<1>3. p \div t \in Nat
  BY <1>1, <1>2
<1>4. (p \div t) % 2 \in {0, 1}
  BY <1>3
<1> QED BY <1>4 DEF Bit, p, t

LEMMA BitwiseIsWord ==
  ASSUME NEW l \in Word, NEW r \in Word
  PROVE  And(l, r) \in Word /\ Or(l, r) \in Word /\ Xor(l, r) \in Word
<1> USE BitIs
<1> HIDE DEF Word
<1>1. [k \in 0 .. Width - 1 |-> Bit(l, k) * Bit(r, k)] \in [0 .. Width - 1 -> {0, 1}]
  OBVIOUS
<1>2. [k \in 0 .. Width - 1 |-> Bit(l, k) + Bit(r, k) - Bit(l, k) * Bit(r, k)]
        \in [0 .. Width - 1 -> {0, 1}]
  OBVIOUS
<1>3. [k \in 0 .. Width - 1 |-> (Bit(l, k) + Bit(r, k)) % 2] \in [0 .. Width - 1 -> {0, 1}]
  OBVIOUS
<1> QED BY <1>1, <1>2, <1>3, FromBitsIsWord DEF And, Or, Xor, BitwiseWith

-----------------------------------------------------------------------------
(* Sums and differences *)

(* A sum or difference of two words is off by at most one full turn. *)
LEMMA WrapOnce ==
  ASSUME NEW n \in Int, - 2 * Half <= n, n < 2 * Half
  PROVE  Wrap(n) = IF n >= Half THEN n - 2 * Half
                   ELSE IF n < - Half THEN n + 2 * Half ELSE n
<1> DEFINE d == 2 * Half
<1>1. d \in Nat \ {0}
  OBVIOUS
<1>2. CASE n >= Half
  <2>1. (n + Half) % d = n + Half - d
    BY <1>1, <1>2
  <2> QED BY <1>2, <2>1 DEF Wrap
<1>3. CASE n < - Half
  <2>1. (n + Half) % d = n + Half + d
    BY <1>1, <1>3
  <2> QED BY <1>3, <2>1 DEF Wrap
<1>4. CASE - Half <= n /\ n < Half
  <2>1. (n + Half) % d = n + Half
    BY <1>1, <1>4
  <2> QED BY <1>4, <2>1 DEF Wrap
<1> QED BY <1>2, <1>3, <1>4

(* checked_add finds exactly the sums that do not fit. *)
LEMMA CheckedAddExact ==
  ASSUME NEW l \in Word, NEW r \in Word
  PROVE  CheckedAdd(l, r) = IF l + r \in Word THEN Done(l + r)
                                              ELSE Raise("integer_overflow")
<1>1. /\ l \in Int /\ r \in Int
      /\ - Half <= l /\ l < Half /\ - Half <= r /\ r < Half
  OBVIOUS
<1>2. ((l > 0 /\ MaxInteger - l < r) \/ (l < 0 /\ MinInteger - l > r)) <=> l + r \notin Word
  BY <1>1
<1>3. l + r \in Word => Wrap(l + r) = l + r
  BY <1>1, WrapOnce
<1> QED BY <1>2, <1>3 DEF CheckedAdd

(* What an instruction leaves in the destination, given its outcome. *)
LEMMA BinaryStep ==
  ASSUME NEW op \in BinaryOperations, NEW n \in Int, IntegerOperands, Binary(op),
         Outcome(op, left.i, right.i) = IF n \in Word THEN Done(n)
                                                      ELSE Raise("integer_overflow")
  PROVE  Exactly(n)
BY DEF IntegerOperands, Binary, Exactly, Done, Raise

LEMMA OperandTypes ==
  ASSUME IntegerOperands
  PROVE  left.i \in Word /\ right.i \in Word
BY DEF IntegerOperands

-----------------------------------------------------------------------------
(* Division and shifts *)

(* Truncated division: the remainder is smaller than the divisor and has   *)
(* the sign of the dividend, and only one quotient is not a word.          *)
LEMMA TruncatedDivision ==
  ASSUME NEW l \in Word, NEW r \in Word, r # 0, ~ (l = MinInteger /\ r = -1)
  PROVE  /\ Quotient(l, r) \in Word
         /\ Remainder(l, r) \in Word
         /\ l = r * Quotient(l, r) + Remainder(l, r)
         /\ Magnitude(Remainder(l, r)) < Magnitude(r)
         /\ Remainder(l, r) # 0 => (Remainder(l, r) < 0) = (l < 0)
<1> DEFINE a == Magnitude(l)
           b == Magnitude(r)
           t == a \div b
           u == a % b
           q == Quotient(l, r)
           m == Remainder(l, r)
<1>1. /\ l \in Int /\ - Half <= l /\ l < Half
      /\ r \in Int /\ - Half <= r /\ r < Half
  OBVIOUS
<1>2. /\ a \in Nat /\ a <= Half /\ (l >= 0 => a = l) /\ (l < 0 => a = - l)
      /\ b \in Nat \ {0} /\ b <= Half /\ (r >= 0 => b = r) /\ (r < 0 => b = - r)
  BY <1>1 DEF Magnitude
<1>3. /\ q = IF (l < 0) = (r < 0) THEN t ELSE - t
      /\ m = l - r * q
  BY DEF Quotient, Remainder
<1> HIDE DEF a, b, q, m
<1>4. t \in Nat /\ u \in 0 .. b - 1 /\ a = b * t + u
  BY <1>2
<1> HIDE DEF t, u
<1>5. t <= a
  BY <1>2, <1>4
<1>6. q \in Word
  <2>1. CASE l < 0 /\ r < 0
    <3>1. t < Half
      <4>1. CASE l = - Half
        <5>1. b >= 2
          BY <1>1, <1>2, <2>1, <4>1
        <5>2. b * t >= 2 * t
          BY <1>2, <1>4, <5>1
        <5> QED BY <1>2, <1>4, <5>2
      <4>2. CASE l # - Half
        BY <1>1, <1>2, <1>4, <1>5, <2>1, <4>2
      <4> QED BY <4>1, <4>2
    <3> QED BY <1>3, <1>4, <2>1, <3>1
  <2>2. CASE ~ (l < 0 /\ r < 0)
    BY <1>1, <1>2, <1>3, <1>4, <1>5, <2>2
  <2> QED BY <2>1, <2>2
<1>7. m = IF l < 0 THEN - u ELSE u
  <2>1. b * t \in Int
    BY <1>2, <1>4
  <2>2. r * q = IF l < 0 THEN - (b * t) ELSE b * t
    <3>1. CASE l < 0 /\ r < 0
      BY <1>1, <1>2, <1>3, <1>4, <3>1
    <3>2. CASE l < 0 /\ ~ (r < 0)
      BY <1>1, <1>2, <1>3, <1>4, <3>2
    <3>3. CASE ~ (l < 0) /\ r < 0
      BY <1>1, <1>2, <1>3, <1>4, <3>3
    <3>4. CASE ~ (l < 0) /\ ~ (r < 0)
      BY <1>1, <1>2, <1>3, <1>4, <3>4
    <3> QED BY <3>1, <3>2, <3>3, <3>4
  <2> QED BY <1>1, <1>2, <1>3, <1>4, <2>1, <2>2
<1>8. m \in Word /\ Magnitude(m) < b /\ (m # 0 => (m < 0) = (l < 0))
  BY <1>1, <1>2, <1>4, <1>7 DEF Magnitude
<1>9. l = r * q + m
  <2>1. r * q \in Int
    BY <1>1, <1>6
  <2> QED BY <1>1, <1>3, <2>1
<1> QED BY <1>6, <1>8, <1>9 DEF b, q, m

(* An arithmetic shift brings a word closer to zero. *)
LEMMA ShiftedIsWord ==
  ASSUME NEW l \in Word, NEW t \in Nat \ {0}
  PROVE  l \div t \in Word
<1> DEFINE q == l \div t
           u == l % t
<1>1. l \in Int /\ - Half <= l /\ l < Half
  OBVIOUS
<1>2. q \in Int /\ u \in 0 .. t - 1 /\ l = t * q + u
  BY <1>1
<1> HIDE DEF q, u
<1>3. q < Half
  <2> SUFFICES ASSUME q >= Half PROVE FALSE
    BY <1>2
  <2>1. t * q >= q
    BY <1>2
  <2> QED BY <1>1, <1>2, <2>1
<1>4. - Half <= q
  <2> SUFFICES ASSUME q + 1 <= - Half PROVE FALSE
    BY <1>2
  <2>1. t * (q + 1) <= q + 1
    BY <1>2
  <2>2. t * (q + 1) = t * q + t
    BY <1>2
  <2> QED BY <1>1, <1>2, <2>1, <2>2
<1> QED BY <1>2, <1>3, <1>4 DEF q

(* A binary instruction stores a word or raises one of the four errors. *)
LEMMA OutcomeIs ==
  ASSUME NEW op \in BinaryOperations, NEW l \in Word, NEW r \in Word
  PROVE  Outcome(op, l, r) \in [error : Errors, n : Word]
<1> DEFINE Outcomes == [error : Errors, n : Word]
<1>1. /\ \A n \in Word : Done(n) \in Outcomes
      /\ \A e \in Errors : Raise(e) \in Outcomes
  BY DEF Done, Raise, Errors
<1>2. l \in Int /\ r \in Int
  OBVIOUS
<1>3. \A n \in Int : Wrap(n) \in Word
  BY WrapIsWord
<1>4. {"integer_overflow", "division_by_zero", "negative_shift", "shift_out_of_range"}
        \subseteq Errors
  BY DEF Errors
<1>5. ASSUME NEW k \in Word PROVE CheckedAdd(l, k) \in Outcomes
  <2>1. l + k \in Int
    OBVIOUS
  <2> HIDE DEF Outcomes, Word
  <2> QED BY <1>1, <1>3, <1>4, <2>1 DEF CheckedAdd
<1>6. CASE op = "add"
  BY <1>5, <1>6 DEF Outcome
<1>7. CASE op = "sub"
  <2>1. Wrap(- r) \in Word
    BY <1>2, <1>3
  <2> QED BY <1>5, <1>7, <2>1 DEF Outcome, Sub
<1>8. CASE op = "mul"
  <2>1. Wrap(l * r) \in Word
    BY <1>2, <1>3
  <2>2. Outcome(op, l, r) = Done(Wrap(l * r))
    BY <1>8 DEF Outcome
  <2> QED BY <1>1, <2>1, <2>2
<1>9. CASE op \in {"div", "mod"}
  <2>1. Outcome(op, l, r) = IF op = "div" THEN Div(l, r) ELSE Mod(l, r)
    BY <1>9 DEF Outcome
  <2>2. CASE r = 0 \/ (l = MinInteger /\ r = -1)
    <3>1. Outcome(op, l, r) \in {Raise("division_by_zero"), Raise("integer_overflow")}
      BY <2>1, <2>2 DEF Div, Mod, CheckDivisor
    <3> QED BY <1>1, <1>4, <3>1
  <2>3. CASE ~ (r = 0 \/ (l = MinInteger /\ r = -1))
    <3>1. Quotient(l, r) \in Word /\ Remainder(l, r) \in Word
      BY <2>3, TruncatedDivision
    <3>2. Outcome(op, l, r) \in {Done(Quotient(l, r)), Done(Remainder(l, r))}
      BY <2>1, <2>3 DEF Div, Mod, CheckDivisor
    <3> QED BY <1>1, <3>1, <3>2
  <2> QED BY <2>2, <2>3
<1>10. CASE op \in {"and", "or", "xor"}
  <2>1. Outcome(op, l, r) \in {Done(And(l, r)), Done(Or(l, r)), Done(Xor(l, r))}
    BY <1>10 DEF Outcome
  <2>2. And(l, r) \in Word /\ Or(l, r) \in Word /\ Xor(l, r) \in Word
    BY BitwiseIsWord
  <2> QED BY <1>1, <2>1, <2>2
<1>11. CASE op \in {"shift_left", "shift_right", "shift_signed"}
  <2> DEFINE t == TwoTo[r]
             p == l % (2 * Half)
             results == {Wrap(l * t), Wrap(p \div t), l \div t}
  <2>1. CASE r < 0 \/ r >= Width
    <3>1. Outcome(op, l, r) \in {Raise("negative_shift"), Raise("shift_out_of_range")}
      <4>1. CASE r < 0
        BY <1>2, <1>11, <4>1 DEF Outcome, ShiftLeft, ShiftRight, ShiftSigned, CheckShift
      <4>2. CASE ~ (r < 0) /\ r >= Width
        BY <1>2, <1>11, <4>2 DEF Outcome, ShiftLeft, ShiftRight, ShiftSigned, CheckShift
      <4> QED BY <1>2, <2>1, <4>1, <4>2
    <3> QED BY <1>1, <1>4, <3>1
  <2>2. CASE ~ (r < 0) /\ ~ (r >= Width)
    <3>1. Outcome(op, l, r) \in {Done(n) : n \in results}
      BY <1>2, <1>11, <2>2 DEF Outcome, ShiftLeft, ShiftRight, ShiftSigned, CheckShift
    <3>2. t \in Nat \ {0}
      BY <1>2, <2>2, TwoToPositive
    <3>3. p \in Nat
      BY <1>2, TurnIs
    <3> HIDE DEF t, p
    <3>4. l * t \in Int /\ p \div t \in Int
      BY <1>2, <3>2, <3>3
    <3>5. l \div t \in Word
      BY <3>2, ShiftedIsWord
    <3>6. results \subseteq Word
      <4> HIDE DEF Word
      <4> QED BY <1>3, <3>4, <3>5
    <3> QED BY <1>1, <3>1, <3>6
  <2> QED BY <2>1, <2>2
<1> HIDE DEF Outcomes, Word
<1> QED BY <1>6, <1>7, <1>8, <1>9, <1>10, <1>11 DEF BinaryOperations, Outcomes

-----------------------------------------------------------------------------
(* Theorems *)

(* Every instruction leaves values in its operands: the bitwise ones find  *)
(* a word for their bits, no quotient, remainder or shifted integer is     *)
(* outside of a word, and negation looks for the one word it cannot take.  *)
THEOREM TypeCorrect == Spec => []TypeOK
<1>1. /\ \A n \in Word : Integer(n) \in Value
      /\ \A v \in Value : v.type = "integer" => v.i \in Word
      /\ 0 \in Word /\ 1 \in Word
  BY HalfIsEven DEF Integer, Value
<1>2. Init => TypeOK
  BY DEF Init, TypeOK, Errors
<1>3. TypeOK /\ [Next]_vars => TypeOK'
  <2> SUFFICES ASSUME TypeOK, [Next]_vars PROVE TypeOK'
    OBVIOUS
  <2> HIDE DEF Word
  <2>1. ASSUME NEW op \in BinaryOperations, Binary(op) PROVE TypeOK'
    <3>1. CASE left.type = "integer" /\ right.type = "integer"
      <4> DEFINE o == Outcome(op, left.i, right.i)
      <4>1. o \in [error : Errors, n : Word]
        <5>1. left.i \in Word /\ right.i \in Word
          BY <1>1, <3>1 DEF TypeOK
        <5> QED BY <5>1, OutcomeIs
      <4>2. /\ error' = o.error
            /\ left' = IF o.error = "none" THEN Integer(o.n) ELSE left
            /\ right' = right
        BY <2>1, <3>1 DEF Binary
      <4> HIDE DEF o
      <4> QED BY <1>1, <4>1, <4>2 DEF TypeOK
    <3>2. CASE ~ (left.type = "integer" /\ right.type = "integer")
      BY <2>1, <3>2 DEF Binary, TypeOK
    <3> QED BY <3>1, <3>2
  <2>2. ASSUME NEW op \in Comparisons, Comparison(op) PROVE TypeOK'
    <3>1. left' \in {Integer(0), Integer(1)} /\ UNCHANGED <<right, error>>
      BY <2>2 DEF Comparison
    <3> QED BY <1>1, <3>1 DEF TypeOK
  <2>3. ASSUME Not PROVE TypeOK'
    <3>1. left' \in {Integer(0), Integer(1)} /\ UNCHANGED <<right, error>>
      BY <2>3 DEF Not
    <3> QED BY <1>1, <3>1 DEF TypeOK
  <2>4. ASSUME Invert PROVE TypeOK'
    <3>1. CASE left.type = "integer"
      <4>1. left.i \in Word
        BY <1>1, <3>1 DEF TypeOK
      <4>2. - left.i - 1 \in Word
        BY <4>1 DEF Word
      <4> QED BY <1>1, <2>4, <3>1, <4>2 DEF Invert, TypeOK
    <3>2. CASE left.type # "integer"
      BY <2>4, <3>2 DEF Invert, TypeOK
    <3> QED BY <3>1, <3>2
  <2>5. ASSUME Negate PROVE TypeOK'
    <3>1. CASE left.type = "integer" /\ left.i # MinInteger
      <4>1. left.i \in Word
        BY <1>1, <3>1 DEF TypeOK
      <4>2. - left.i \in Word
        BY <3>1, <4>1 DEF Word
      <4> QED BY <1>1, <2>5, <3>1, <4>2 DEF Negate, TypeOK
    <3>2. CASE left.type = "integer" /\ left.i = MinInteger
      BY <2>5, <3>2 DEF Negate, TypeOK, Errors
    <3>3. CASE left.type # "integer"
      BY <2>5, <3>3 DEF Negate, TypeOK
    <3> QED BY <3>1, <3>2, <3>3
  <2>6. CASE SetOperands
    BY <2>6 DEF SetOperands, TypeOK, Errors
  <2>7. CASE UNCHANGED vars
    BY <2>7 DEF vars, TypeOK
  <2> QED BY <2>1, <2>2, <2>3, <2>4, <2>5, <2>6, <2>7 DEF Next
<1> QED BY <1>2, <1>3, PTL DEF Spec

LEMMA Addition ==
  ASSUME IntegerOperands, Binary("add") PROVE Exactly(left.i + right.i)
<1>1. Outcome("add", left.i, right.i) = CheckedAdd(left.i, right.i)
  BY DEF Outcome
<1>2. "add" \in BinaryOperations /\ left.i + right.i \in Int
  BY OperandTypes DEF BinaryOperations
<1> QED BY <1>1, <1>2, OperandTypes, CheckedAddExact, BinaryStep

LEMMA Subtraction ==
  ASSUME IntegerOperands, Binary("sub"), right.i # MinInteger
  PROVE  Exactly(left.i - right.i)
<1>1. - right.i \in Word /\ Wrap(- right.i) = - right.i
  BY OperandTypes, WrapOnce
<1>2. left.i + (- right.i) = left.i - right.i /\ left.i - right.i \in Int
  BY OperandTypes
<1>3. Outcome("sub", left.i, right.i) = CheckedAdd(left.i, - right.i)
  BY <1>1 DEF Outcome, Sub
<1>4. "sub" \in BinaryOperations
  BY DEF BinaryOperations
<1> QED BY <1>1, <1>2, <1>3, <1>4, OperandTypes, CheckedAddExact, BinaryStep

(* Additions, and subtractions of all but the one integer whose negation   *)
(* does not fit, raise integer_overflow if and only if they have to.       *)
THEOREM SumsExact == Spec => SumsAreExact
<1>1. IntegerOperands => AdditionIsExact /\ SubtractionIsExactUnlessMin
  BY Addition, Subtraction DEF AdditionIsExact, SubtractionIsExactUnlessMin
<1> QED BY <1>1, PTL DEF SumsAreExact

(* The sign of a wrapped difference is zero only for equal operands. *)
LEMMA EqualityOfValues == TypeOK => EqualityIsExact
<1> SUFFICES ASSUME TypeOK PROVE "equal" \in Compare(left, right) <=> left = right
  BY DEF EqualityIsExact
<1>1. left.i \in Int /\ right.i \in Int /\ left.type \in {"integer", "null", "function_ptr", "object"}
      /\ right.type \in {"integer", "null", "function_ptr", "object"}
      /\ (left = right <=> left.type = right.type /\ left.i = right.i)
  BY DEF TypeOK, Value
<1>2. CASE left.type = "integer" /\ right.type = "integer"
  <2>1. left.i \in Word /\ right.i \in Word
    BY <1>2 DEF TypeOK, Value
  <2>2. Wrap(left.i - right.i) = 0 <=> left.i = right.i
    BY <2>1, WrapOnce
  <2>3. Compare(left, right) = {Sign(Wrap(left.i - right.i)), Sign(left.i - right.i)}
    BY <1>2 DEF Compare, CompareIntegers
  <2>4. Wrap(left.i - right.i) \in Int
    BY <2>1, WrapOnce
  <2> QED BY <1>1, <1>2, <2>2, <2>3, <2>4 DEF Sign
<1>3. CASE left.type = right.type /\ left.type # "integer"
  BY <1>1, <1>3 DEF Compare, Sign
<1>4. CASE left.type # right.type
  BY <1>1, <1>4 DEF Compare, Sign, Rank
<1> QED BY <1>2, <1>3, <1>4

(* Whatever the program computes, equal is never wrong about its operands. *)
THEOREM EqualityExact == Spec => []EqualityIsExact
BY TypeCorrect, EqualityOfValues, PTL

(* Of two integers, quotient and remainder belong together, they raise the *)
(* same errors, and the only quotient that is not a word is one of these.  *)
THEOREM DivisionAgrees == Spec => []DivisionAgreesWithModulo
<1>1. TypeOK => DivisionAgreesWithModulo
  <2> SUFFICES ASSUME TypeOK, IntegerOperands
               PROVE  LET q == Div(left.i, right.i)
                          m == Mod(left.i, right.i)
                      IN  /\ q.error = m.error
                          /\ q.error = "none" => /\ q.n \in Word
                                                 /\ left.i = right.i * q.n + m.n
                                                 /\ Magnitude(m.n) < Magnitude(right.i)
                                                 /\ m.n # 0 => (m.n < 0) = (left.i < 0)
    BY DEF DivisionAgreesWithModulo
  <2> DEFINE l == left.i
             r == right.i
  <2>1. l \in Word /\ r \in Word
    BY OperandTypes
  <2> HIDE DEF l, r
  <2>2. CASE r = 0 \/ (l = MinInteger /\ r = -1)
    <3>1. Div(l, r).error = Mod(l, r).error /\ Div(l, r).error # "none"
      BY <2>2 DEF Div, Mod, CheckDivisor, Raise
    <3> QED BY <3>1 DEF l, r
  <2>3. CASE ~ (r = 0 \/ (l = MinInteger /\ r = -1))
    <3>1. Div(l, r) = Done(Quotient(l, r)) /\ Mod(l, r) = Done(Remainder(l, r))
      BY <2>3 DEF Div, Mod, CheckDivisor
    <3>2. /\ Div(l, r).error = "none" /\ Div(l, r).n = Quotient(l, r)
          /\ Mod(l, r).error = "none" /\ Mod(l, r).n = Remainder(l, r)
      BY <3>1 DEF Done
    <3>3. /\ Quotient(l, r) \in Word
          /\ l = r * Quotient(l, r) + Remainder(l, r)
          /\ Magnitude(Remainder(l, r)) < Magnitude(r)
          /\ Remainder(l, r) # 0 => (Remainder(l, r) < 0) = (l < 0)
      BY <2>1, <2>3, TruncatedDivision
    <3> HIDE DEF Word
    <3> QED BY <3>2, <3>3 DEF l, r
  <2> QED BY <2>2, <2>3
<1> QED BY <1>1, TypeCorrect, PTL
=============================================================================

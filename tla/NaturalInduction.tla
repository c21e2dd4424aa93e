-------------------------- MODULE NaturalInduction --------------------------
(***************************************************************************)
(* Induction over the natural numbers and functions defined by recursion,  *)
(* with sets and functions in place of predicates and operators.           *)
(***************************************************************************)
EXTENDS Integers, WellFoundedInduction, TLAPS

(* Some relation that contains "less than" is well-founded. *)
LEMMA LessThanIsWellFounded ==
  \E R : IsWellFoundedOn(R, Nat) /\ \A x, y \in Nat : y < x => <<y, x>> \in R
<1>1. IsWellFoundedOn(OpToRel(<, Nat), Nat)
  BY NatLessThanWellFounded
<1>2. \A x, y \in Nat : y < x => <<y, x>> \in OpToRel(<, Nat)
  BY DEF OpToRel
<1> WITNESS OpToRel(<, Nat)
<1> QED BY <1>1, <1>2, Zenon

(* A set of natural numbers that is not empty has a least element. *)
LEMMA LeastNatural ==
  ASSUME NEW T \in SUBSET Nat, T # {}
  PROVE  \E x \in T : \A y \in T : x <= y
<1>1. PICK R : IsWellFoundedOn(R, Nat) /\ \A x, y \in Nat : y < x => <<y, x>> \in R
  BY LessThanIsWellFounded
<1>2. PICK x \in T : \A y \in T : ~(<<y, x>> \in R)
  BY <1>1, WFMin
<1>3. \A y \in T : ~(y < x)
  BY <1>1, <1>2
<1>4. \A y \in T : x <= y
  BY <1>3
<1> QED BY <1>4

(* A set that holds 0 and every successor of its elements holds them all. *)
LEMMA InductionOnNat ==
  ASSUME NEW S, 0 \in S, \A n \in Nat : n \in S => n + 1 \in S
  PROVE  \A n \in Nat : n \in S
<1> SUFFICES ASSUME {n \in Nat : n \notin S} # {} PROVE FALSE
  OBVIOUS
<1>1. PICK x \in {n \in Nat : n \notin S} : \A y \in {n \in Nat : n \notin S} : x <= y
  BY LeastNatural
<1>2. x # 0
  OBVIOUS
<1>3. x - 1 \in S
  BY <1>1, <1>2
<1> QED BY <1>1, <1>2, <1>3

(* The functions on 0 .. N that start with a and go on by a step function. *)
StepFunctions(N, S) == [(1 .. N) \X S -> S]
Sequences(N, S, a, step) ==
  {f \in [0 .. N -> S] : /\ f[0] = a
                         /\ \A n \in 1 .. N : f[n] = step[<<n, f[n - 1]>>]}

(* There is one. *)
LEMMA RecursionExists ==
  ASSUME NEW N \in Nat, NEW S, NEW a \in S, NEW step \in StepFunctions(N, S)
  PROVE  Sequences(N, S, a, step) # {}
<1> DEFINE UpTo(k) == \E f \in [0 .. k -> S] :
                        /\ f[0] = a
                        /\ \A n \in 1 .. k : f[n] = step[<<n, f[n - 1]>>]
           K == {k \in Nat : k <= N => UpTo(k)}
<1>1. 0 \in K
  <2> SUFFICES UpTo(0)
    OBVIOUS
  <2> WITNESS [n \in 0 .. 0 |-> a] \in [0 .. 0 -> S]
  <2> QED OBVIOUS
<1>2. ASSUME NEW k \in Nat, k \in K PROVE k + 1 \in K
  <2> SUFFICES ASSUME k + 1 <= N PROVE UpTo(k + 1)
    OBVIOUS
  <2>1. PICK f \in [0 .. k -> S] : /\ f[0] = a
                                   /\ \A n \in 1 .. k : f[n] = step[<<n, f[n - 1]>>]
    BY <1>2
  <2> DEFINE last == step[<<k + 1, f[k]>>]
             g == [n \in 0 .. k + 1 |-> IF n = k + 1 THEN last ELSE f[n]]
  <2>2. last \in S
    <3>1. k + 1 \in 1 .. N /\ f[k] \in S
      BY <2>1
    <3> QED BY <3>1 DEF StepFunctions
  <2>3. g \in [0 .. k + 1 -> S]
    <3> HIDE DEF last
    <3> QED BY <2>1, <2>2
  <2>4. g[0] = a
    BY <2>1
  <2>5. ASSUME NEW n \in 1 .. k + 1 PROVE g[n] = step[<<n, g[n - 1]>>]
    <3>1. g[n - 1] = f[n - 1]
      <4> HIDE DEF last
      <4> QED OBVIOUS
    <3>2. CASE n = k + 1
      <4>1. g[n] = last
        <5> HIDE DEF last
        <5> QED BY <3>2
      <4>2. n - 1 = k
        BY <3>2
      <4> QED BY <3>1, <3>2, <4>1, <4>2
    <3>3. CASE n # k + 1
      <4>1. n \in 1 .. k /\ g[n] = f[n]
        <5> HIDE DEF last
        <5> QED BY <3>3
      <4> QED BY <4>1, <3>1, <2>1
    <3> QED BY <3>2, <3>3
  <2> HIDE DEF g
  <2> WITNESS g \in [0 .. k + 1 -> S]
  <2> QED BY <2>4, <2>5
<1>3. N \in K
  <2> HIDE DEF K
  <2> QED BY <1>1, <1>2, InductionOnNat
<1>4. UpTo(N)
  BY <1>3
<1> QED BY <1>4 DEF Sequences

(* Two functions on 0 .. N that start and go on in the same way. *)
IsFunctionOn(N, f) == f = [n \in 0 .. N |-> f[n]]
Alike(N, f, g) ==
  f[0] = g[0] /\ \A n \in 1 .. N : f[n - 1] = g[n - 1] => f[n] = g[n]

(* They are the same. *)
LEMMA RecursionIsUnique ==
  ASSUME NEW N \in Nat, NEW f, NEW g,
         IsFunctionOn(N, f), IsFunctionOn(N, g), Alike(N, f, g)
  PROVE  f = g
<1> DEFINE K == {k \in Nat : k <= N => f[k] = g[k]}
<1> USE DEF IsFunctionOn, Alike
<1>1. 0 \in K
  OBVIOUS
<1>2. ASSUME NEW k \in Nat, k \in K PROVE k + 1 \in K
  <2> SUFFICES ASSUME k + 1 <= N PROVE f[k + 1] = g[k + 1]
    OBVIOUS
  <2>1. k + 1 \in 1 .. N
    OBVIOUS
  <2>2. f[k] = g[k]
    BY <1>2
  <2>3. (k + 1) - 1 = k
    OBVIOUS
  <2>4. f[(k + 1) - 1] = g[(k + 1) - 1]
    BY <2>2, <2>3
  <2> QED BY <2>1, <2>4
<1>3. \A k \in Nat : k \in K
  <2> HIDE DEF K
  <2> QED BY <1>1, <1>2, InductionOnNat
<1>4. \A k \in 0 .. N : f[k] = g[k]
  BY <1>3
<1> QED BY <1>4
=============================================================================

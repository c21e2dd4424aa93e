-------------------------- MODULE OptimizerProofs --------------------------
(***************************************************************************)
(* What the optimizer's passes do to programs of any size: proofs.         *)
(***************************************************************************)
EXTENDS Optimizer, NaturalInduction, FiniteSetTheorems, FunctionTheorems

-----------------------------------------------------------------------------
(* The position table of remove_instructions_at_positions.                 *)

(* An entry counts instructions. *)
LEMMA NewPositionType ==
  ASSUME NEW c, NEW removed, NEW i \in Nat
  PROVE  /\ IsFiniteSet((0 .. i - 1) \ removed)
         /\ NewPosition(c, removed, i) \in Nat
<1> DEFINE S == 0 .. i - 1
           T == S \ removed
<1>1. IsFiniteSet(S) /\ T \in SUBSET S
  BY FS_Interval
<1>2. IsFiniteSet(T)
  <2> HIDE DEF S, T
  <2> QED BY <1>1, FS_Subset
<1>3. Cardinality(T) \in Nat
  <2> HIDE DEF T
  <2> QED BY <1>2, FS_CardinalityType
<1> QED BY <1>2, <1>3 DEF NewPosition

(* The table grows, and does so after every instruction that stays. *)
LEMMA NewPositionGrows ==
  ASSUME NEW c, NEW removed, NEW i \in Nat, NEW j \in Nat, i <= j
  PROVE  /\ NewPosition(c, removed, i) <= NewPosition(c, removed, j)
         /\ (i < j /\ i \notin removed)
              => NewPosition(c, removed, i) < NewPosition(c, removed, j)
<1> DEFINE below(k) == (0 .. k - 1) \ removed
<1>1. IsFiniteSet(below(j)) /\ below(i) \in SUBSET below(j)
  <2>1. IsFiniteSet(below(j))
    BY NewPositionType
  <2>2. below(i) \in SUBSET below(j)
    OBVIOUS
  <2> QED BY <2>1, <2>2
<1>2. Cardinality(below(i)) <= Cardinality(below(j))
  BY <1>1, FS_Subset
<1>3. ASSUME i < j, i \notin removed
      PROVE  Cardinality(below(i)) < Cardinality(below(j))
  <2>1. i \in below(j) /\ i \notin below(i)
    BY <1>3
  <2>2. Cardinality(below(i)) # Cardinality(below(j))
    BY <1>1, <2>1, FS_Subset
  <2>3. Cardinality(below(i)) \in Nat /\ Cardinality(below(j)) \in Nat
    BY NewPositionType DEF NewPosition
  <2> QED BY <1>2, <2>2, <2>3
<1> QED BY <1>2, <1>3 DEF NewPosition

(* It grows by one there. *)
LEMMA NextPosition ==
  ASSUME NEW c, NEW removed, NEW i \in Nat
  PROVE  NewPosition(c, removed, i + 1) =
           IF i \in removed THEN NewPosition(c, removed, i)
                            ELSE NewPosition(c, removed, i) + 1
<1> DEFINE S == (0 .. i - 1) \ removed
<1>1. IsFiniteSet(S) /\ i \notin S
  <2>1. IsFiniteSet(S)
    BY NewPositionType
  <2>2. i \notin S
    OBVIOUS
  <2> QED BY <2>1, <2>2
<1>2. CASE i \in removed
  <2>1. (0 .. (i + 1) - 1) \ removed = S
    BY <1>2
  <2> QED BY <1>2, <2>1 DEF NewPosition
<1>3. CASE i \notin removed
  <2>1. (0 .. (i + 1) - 1) \ removed = S \cup {i}
    BY <1>3
  <2>2. Cardinality(S \cup {i}) = Cardinality(S) + 1
    <3> HIDE DEF S
    <3> QED BY <1>1, FS_AddElement
  <2> QED BY <1>3, <2>1, <2>2 DEF NewPosition
<1> QED BY <1>2, <1>3

(* Every position of the new code comes from an instruction that stays. *)
LEMMA OldPositionExists ==
  ASSUME NEW c, NEW removed, NEW n \in Nat, NEW k \in 0 .. NewPosition(c, removed, n) - 1
  PROVE  \E i \in (0 .. n - 1) \ removed : NewPosition(c, removed, i) = k
<1> DEFINE kept == (0 .. n - 1) \ removed
           m == NewPosition(c, removed, n)
           f == [i \in kept |-> NewPosition(c, removed, i)]
<1>1. m \in Nat /\ m = Cardinality(kept) /\ IsFiniteSet(0 .. m - 1)
      /\ Cardinality(0 .. m - 1) = m
  <2>1. m \in Nat
    BY NewPositionType
  <2> HIDE DEF m
  <2>2. IsFiniteSet(0 .. m - 1) /\ Cardinality(0 .. m - 1) = m
    BY <2>1, FS_Interval
  <2>3. m = Cardinality(kept)
    BY DEF m, NewPosition
  <2> QED BY <2>1, <2>2, <2>3
<1>2. \A i \in kept : f[i] \in 0 .. m - 1
  <2> TAKE i \in kept
  <2>1. i \in Nat /\ i < n /\ i \notin removed
    OBVIOUS
  <2>2. NewPosition(c, removed, i) \in Nat /\ m \in Nat
    BY <2>1, NewPositionType
  <2>3. NewPosition(c, removed, i) < m
    BY <2>1, NewPositionGrows
  <2> HIDE DEF m
  <2> QED BY <2>2, <2>3
<1>3. \A i, j \in kept : f[i] = f[j] => i = j
  <2> SUFFICES ASSUME NEW i \in kept, NEW j \in kept, i < j PROVE f[i] # f[j]
    OBVIOUS
  <2>1. i \in Nat /\ j \in Nat /\ i \notin removed
    OBVIOUS
  <2>2. NewPosition(c, removed, i) < NewPosition(c, removed, j)
    BY <2>1, NewPositionGrows
  <2>3. NewPosition(c, removed, i) \in Nat /\ NewPosition(c, removed, j) \in Nat
    BY <2>1, NewPositionType
  <2> QED BY <2>2, <2>3
<1>4. f \in Injection(kept, 0 .. m - 1)
  <2> HIDE DEF m
  <2> QED BY <1>2, <1>3 DEF Injection, IsInjective
<1>5. f \in Surjection(kept, 0 .. m - 1)
  <2> HIDE DEF m, f, kept
  <2> QED BY <1>1, <1>4, FS_Injection
<1>6. \E i \in kept : f[i] = k
  <2> HIDE DEF f, kept
  <2> QED BY <1>5 DEF Surjection
<1> QED BY <1>6

-----------------------------------------------------------------------------
(* Instructions and code. *)
AllInstructions == [type : InstructionTypes, args : Seq(Int)]

(* The instruction has the arguments its type says. *)
Fits(instruction) ==
  /\ instruction \in AllInstructions
  /\ Len(instruction.args) = Len(ArgumentTypes(instruction.type))
  /\ LocalsOf(instruction, {"read", "read_write"}) \cup Reads(instruction) \subseteq Slot

IsCode(c) == WellFormed(c) /\ JumpsStayIn(c)

(* Code is a sequence of such instructions whose jumps stay in it.         *)
LEMMA CodeIs ==
  ASSUME NEW c
  PROVE  IsCode(c) <=> /\ c \in Seq(AllInstructions)
                       /\ \A i \in Positions(c) :
                            /\ Fits(At(c, i))
                            /\ IsAnyJump(At(c, i)) => Destination(At(c, i)) \in 0 .. Len(c)
<1>1. ASSUME c \in Seq(AllInstructions), NEW i \in Positions(c)
      PROVE  At(c, i) \in AllInstructions
  BY <1>1 DEF Positions, At
<1>2. WellFormed(c) <=> c \in Seq(AllInstructions) /\ \A i \in Positions(c) : Fits(At(c, i))
  BY <1>1 DEF WellFormed, Fits, AllInstructions
<1>3. JumpsStayIn(c) <=> \A i \in Positions(c) :
                           IsAnyJump(At(c, i)) => Destination(At(c, i)) \in 0 .. Len(c)
  BY DEF JumpsStayIn, JumpDestinations
<1> QED BY <1>2, <1>3 DEF IsCode

(* A jump has a destination. *)
LEMMA JumpArguments ==
  ASSUME NEW instruction, Fits(instruction), IsAnyJump(instruction)
  PROVE  /\ instruction.args \in Seq(Int)
         /\ Len(instruction.args) \in {1, 2}
         /\ ArgumentTypes(instruction.type)[1] = "constant"
         /\ DOMAIN ArgumentTypes(instruction.type) = 1 .. Len(instruction.args)
         /\ Len(ArgumentTypes(instruction.type)) = Len(instruction.args)
         /\ Destination(instruction) \in Int
<1>1. ArgumentTypes(instruction.type) \in {<<"constant">>, <<"constant", "read">>}
  BY DEF IsAnyJump, JumpTypes, ArgumentTypes, ReadWriteOne, WithConstant, BinaryTypes
<1>2. instruction.args \in Seq(Int)
      /\ Len(instruction.args) = Len(ArgumentTypes(instruction.type))
  BY DEF Fits, AllInstructions
<1> DEFINE types == ArgumentTypes(instruction.type)
<1>3. types[1] = "constant" /\ DOMAIN types = 1 .. Len(types) /\ Len(types) \in {1, 2}
  <2> HIDE DEF types
  <2>1. types \in {<<"constant">>, <<"constant", "read">>}
    BY <1>1 DEF types
  <2>2. CASE types = <<"constant">>
    BY <2>2
  <2>3. CASE types = <<"constant", "read">>
    BY <2>3
  <2> QED BY <2>1, <2>2, <2>3
<1> HIDE DEF types
<1>4. instruction.args[1] \in Int
  BY <1>2, <1>3 DEF types
<1> QED BY <1>2, <1>3, <1>4 DEF Destination, types

(* Fixing up a jump changes its destination and nothing else. *)
LEMMA FixUpJumpKeeps ==
  ASSUME NEW c, NEW removed, NEW instruction, Fits(instruction),
         IsAnyJump(instruction) => Destination(instruction) \in Nat
  PROVE  LET fixed == FixUpJump(c, removed, instruction) IN
         /\ Fits(fixed)
         /\ fixed.type = instruction.type /\ Reads(fixed) = Reads(instruction)
         /\ ~IsAnyJump(instruction) => fixed = instruction
         /\ IsAnyJump(instruction) =>
              /\ Destination(fixed) = NewPosition(c, removed, Destination(instruction))
              /\ \A k \in 2 .. Len(instruction.args) : fixed.args[k] = instruction.args[k]
<1> DEFINE fixed == FixUpJump(c, removed, instruction)
<1>1. CASE ~IsAnyJump(instruction)
  BY <1>1 DEF FixUpJump
<1>2. CASE IsAnyJump(instruction)
  <2> DEFINE args == instruction.args
             types == ArgumentTypes(instruction.type)
             new == [args EXCEPT ![1] = NewPosition(c, removed, args[1])]
  <2>1. /\ args \in Seq(Int) /\ Len(args) \in {1, 2} /\ types[1] = "constant"
        /\ DOMAIN types = 1 .. Len(args) /\ Len(types) = Len(args)
    BY <1>2, JumpArguments
  <2>2. NewPosition(c, removed, args[1]) \in Int
    <3>1. args[1] \in Nat
      BY <1>2 DEF Destination
    <3> HIDE DEF args
    <3>2. NewPosition(c, removed, args[1]) \in Nat
      BY <3>1, NewPositionType, Zenon
    <3> QED BY <3>2
  <2>3. new \in Seq(Int) /\ Len(new) = Len(args)
        /\ new[1] = NewPosition(c, removed, args[1])
        /\ \A k \in 2 .. Len(args) : new[k] = args[k]
    <3> HIDE DEF args
    <3> QED BY <2>1, <2>2
  <2>4. fixed = [instruction EXCEPT !.args = new]
    BY <1>2 DEF FixUpJump
  <2>5. fixed \in AllInstructions /\ fixed.type = instruction.type /\ fixed.args = new
    <3>1. instruction \in AllInstructions
      BY DEF Fits
    <3> HIDE DEF new, fixed
    <3> QED BY <3>1, <2>3, <2>4 DEF AllInstructions
  <2>6. LocalsOf(fixed, {"read", "read_write"}) = LocalsOf(instruction, {"read", "read_write"})
    <3> DEFINE roles == {"read", "read_write"}
               local == {n \in DOMAIN types : types[n] \in roles}
    <3>1. \A n \in local : n \in 2 .. Len(args)
      <4> HIDE DEF args, types
      <4> QED BY <2>1
    <3>2. \A n \in local : new[n] = args[n]
      <4> HIDE DEF new, args, local
      <4> QED BY <3>1, <2>3
    <3>3. {new[n] : n \in local} = {args[n] : n \in local}
      <4> HIDE DEF new, args, local
      <4> QED BY <3>2
    <3>4. LocalsOf(fixed, roles) = {new[n] : n \in local}
      <4> HIDE DEF new, fixed
      <4> QED BY <2>5 DEF LocalsOf
    <3>5. LocalsOf(instruction, roles) = {args[n] : n \in local}
      BY DEF LocalsOf
    <3> QED BY <3>3, <3>4, <3>5
  <2>7. Reads(fixed) = Reads(instruction)
    BY <2>5, <2>6, <1>2 DEF Reads, IsAnyJump, JumpTypes
  <2>8. Fits(fixed)
    <3> HIDE DEF new, fixed
    <3> QED BY <2>1, <2>3, <2>5, <2>6, <2>7 DEF Fits
  <2> QED BY <1>2, <2>3, <2>5, <2>7, <2>8 DEF Destination
<1> QED BY <1>1, <1>2

(* What is left is the instructions that stay, in their order, with jumps  *)
(* that lead to what they led to.                                          *)
LEMMA RemovalMoves ==
  ASSUME NEW c, IsCode(c), NEW removed
  PROVE  LET new == RemoveInstructions(c, removed) IN
         /\ Len(new) = NewPosition(c, removed, Len(c)) /\ Len(new) \in Nat
         /\ new = [n \in 1 .. Len(new) |-> new[n]]
         /\ \A i \in Positions(c) \ removed :
              /\ NewPosition(c, removed, i) \in Positions(new)
              /\ At(new, NewPosition(c, removed, i)) = FixUpJump(c, removed, At(c, i))
         /\ \A k \in Positions(new) :
              \E i \in Positions(c) \ removed : NewPosition(c, removed, i) = k
<1> DEFINE new == RemoveInstructions(c, removed)
           kept == Positions(c) \ removed
           m == NewPosition(c, removed, Len(c))
           Old(k) == CHOOSE i \in kept : NewPosition(c, removed, i) = k
           moved == [n \in 1 .. m |-> FixUpJump(c, removed, At(c, Old(n - 1)))]
<1>1. Len(c) \in Nat /\ \A i \in kept : i \in Nat /\ i < Len(c) /\ i \notin removed
  BY CodeIs DEF Positions
<1>2. m \in Nat /\ m = Cardinality(kept)
  BY <1>1, NewPositionType DEF NewPosition, Positions
<1>3. new = moved
  <2> HIDE DEF m
  <2> QED BY <1>2 DEF RemoveInstructions
<1>4. Len(new) = m /\ new = [n \in 1 .. Len(new) |-> new[n]]
  <2> HIDE DEF m, new, Old
  <2> QED BY <1>2, <1>3
<1>5. \A k \in 0 .. m - 1 : Old(k) \in kept /\ NewPosition(c, removed, Old(k)) = k
  <2> TAKE k \in 0 .. m - 1
  <2>1. \E i \in kept : NewPosition(c, removed, i) = k
    BY <1>1, OldPositionExists DEF Positions
  <2> QED BY <2>1
<1>6. ASSUME NEW i \in kept
      PROVE  /\ NewPosition(c, removed, i) \in 0 .. m - 1
             /\ Old(NewPosition(c, removed, i)) = i
  <2>1. NewPosition(c, removed, i) \in 0 .. m - 1
    <3>1. NewPosition(c, removed, i) \in Nat
      BY <1>1, NewPositionType, Zenon
    <3>2. NewPosition(c, removed, i) < m
      BY <1>1, NewPositionGrows
    <3> HIDE DEF m
    <3> QED BY <1>2, <3>1, <3>2
  <2> DEFINE j == Old(NewPosition(c, removed, i))
  <2>2. j \in kept /\ NewPosition(c, removed, j) = NewPosition(c, removed, i)
    BY <2>1, <1>5
  <2> HIDE DEF j
  <2>3. ~(i < j) /\ ~(j < i)
    <3>1. i \in Nat /\ i \notin removed /\ j \in Nat /\ j \notin removed
      BY <1>1, <2>2
    <3>2. NewPosition(c, removed, i) \in Nat
      BY <3>1, NewPositionType, Zenon
    <3>3. /\ i < j => NewPosition(c, removed, i) < NewPosition(c, removed, j)
          /\ j < i => NewPosition(c, removed, j) < NewPosition(c, removed, i)
      BY <3>1, NewPositionGrows
    <3> QED BY <2>2, <3>2, <3>3
  <2> QED BY <1>1, <2>1, <2>2, <2>3 DEF j
<1>7. Positions(new) = 0 .. m - 1
  BY <1>4 DEF Positions
<1>8. ASSUME NEW i \in kept
      PROVE  At(new, NewPosition(c, removed, i)) = FixUpJump(c, removed, At(c, i))
  <2> DEFINE k == NewPosition(c, removed, i)
  <2>1. k \in 0 .. m - 1 /\ Old(k) = i
    BY <1>6
  <2> HIDE DEF k, m
  <2>2. k + 1 \in 1 .. m /\ (k + 1) - 1 = k
    BY <1>2, <2>1
  <2>3. moved[k + 1] = FixUpJump(c, removed, At(c, i))
    <3> HIDE DEF Old
    <3> QED BY <2>1, <2>2
  <2> HIDE DEF new, moved
  <2> QED BY <1>3, <2>3 DEF At, k
<1> HIDE DEF new, m, moved
<1>9. \A k \in Positions(new) : \E i \in kept : NewPosition(c, removed, i) = k
  <2> HIDE DEF Old
  <2> QED BY <1>5, <1>7
<1>10. \A i \in kept : NewPosition(c, removed, i) \in Positions(new)
  BY <1>6, <1>7
<1> QED BY <1>2, <1>4, <1>8, <1>9, <1>10 DEF m, new

(* The result is code again. *)
LEMMA RemovalKeepsCode ==
  ASSUME NEW c, IsCode(c), NEW removed
  PROVE  IsCode(RemoveInstructions(c, removed))
<1> DEFINE new == RemoveInstructions(c, removed)
           kept == Positions(c) \ removed
<1>1. ASSUME NEW k \in Positions(new)
      PROVE  /\ Fits(At(new, k))
             /\ IsAnyJump(At(new, k)) => Destination(At(new, k)) \in 0 .. Len(new)
  <2>1. PICK i \in kept : NewPosition(c, removed, i) = k
    BY RemovalMoves
  <2> DEFINE x == At(c, i)
             y == FixUpJump(c, removed, x)
  <2>2. At(new, k) = y
    BY <2>1, RemovalMoves
  <2>3. Fits(x) /\ (IsAnyJump(x) => Destination(x) \in 0 .. Len(c)) /\ Len(c) \in Nat
    BY CodeIs
  <2>4. /\ Fits(y) /\ y.type = x.type
        /\ IsAnyJump(x) => Destination(y) = NewPosition(c, removed, Destination(x))
    <3> HIDE DEF x
    <3> QED BY <2>3, FixUpJumpKeeps
  <2>5. ASSUME IsAnyJump(x) PROVE NewPosition(c, removed, Destination(x)) \in 0 .. Len(new)
    <3>1. PICK d \in 0 .. Len(c) : d = Destination(x)
      BY <2>3, <2>5
    <3>9. d \in Nat /\ d <= Len(c)
      BY <2>3
    <3>2. NewPosition(c, removed, d) \in Nat
      BY <3>9, NewPositionType, Zenon
    <3>3. NewPosition(c, removed, d) <= NewPosition(c, removed, Len(c))
      BY <2>3, <3>9, NewPositionGrows
    <3>4. Len(new) = NewPosition(c, removed, Len(c)) /\ Len(new) \in Nat
      BY RemovalMoves
    <3> QED BY <3>1, <3>2, <3>3, <3>4
  <2> HIDE DEF new, x, y
  <2> QED BY <2>2, <2>4, <2>5 DEF IsAnyJump
<1>2. new \in Seq(AllInstructions)
  <2>1. \A n \in 1 .. Len(new) : n - 1 \in Positions(new) /\ At(new, n - 1) = new[n]
    BY RemovalMoves DEF Positions, At
  <2>2. \A n \in 1 .. Len(new) : new[n] \in AllInstructions
    BY <1>1, <2>1 DEF Fits
  <2>3. Len(new) \in Nat /\ new = [n \in 1 .. Len(new) |-> new[n]]
    BY RemovalMoves
  <2> HIDE DEF new
  <2> QED BY <2>2, <2>3
<1> QED BY <1>1, <1>2, CodeIs

-----------------------------------------------------------------------------
(* What fold_constants knows. *)
Knowledge == UNION {[D -> Int] : D \in SUBSET Int}

(* Nothing to know, one thing more and some less. *)
LEMMA KnowledgeIs ==
  /\ Empty \in Knowledge
  /\ \A known \in Knowledge : \A s \in DOMAIN known : s \in Int /\ known[s] \in Int
  /\ \A known \in Knowledge, slot \in Int, value \in Int :
       Update(known, slot, value) \in Knowledge
  /\ \A known \in Knowledge : \A slots : Forget(known, slots) \in Knowledge
<1>1. \A D \in SUBSET Int : \A f \in [D -> Int] : f \in Knowledge
  BY DEF Knowledge
<1>2. ASSUME NEW known \in Knowledge PROVE known \in [DOMAIN known -> Int] /\ DOMAIN known \in SUBSET Int
  BY DEF Knowledge
<1>3. Empty \in Knowledge
  <2>1. Empty \in [{} -> Int]
    BY DEF Empty
  <2> QED BY <1>1, <2>1
<1>4. \A known \in Knowledge : \A s \in DOMAIN known : s \in Int /\ known[s] \in Int
  BY <1>2
<1>5. ASSUME NEW known \in Knowledge, NEW slot \in Int, NEW value \in Int
      PROVE  Update(known, slot, value) \in Knowledge
  <2> DEFINE D == DOMAIN known \cup {slot}
  <2>1. D \in SUBSET Int /\ Update(known, slot, value) \in [D -> Int]
    BY <1>2 DEF Update
  <2> QED BY <1>1, <2>1
<1>6. ASSUME NEW known \in Knowledge, NEW slots
      PROVE  Forget(known, slots) \in Knowledge
  <2> DEFINE D == DOMAIN known \ slots
  <2>1. D \in SUBSET Int /\ Forget(known, slots) \in [D -> Int]
    BY <1>2 DEF Forget
  <2> QED BY <1>1, <2>1
<1> QED BY <1>3, <1>4, <1>5, <1>6

(* The arguments of the instructions the tracker looks at. *)
LEMMA Arguments ==
  ASSUME NEW x, Fits(x),
         x.type \in {"set_from_constant", "copy", "add", "jump_if", "jump_if_not"}
  PROVE  /\ Len(x.args) = 2 /\ x.args \in Seq(Int)
         /\ x.args[1] \in Int /\ x.args[2] \in Int
<1>1. ArgumentTypes(x.type) \in {<<"read_write", "constant">>, <<"read_write", "read">>,
                                 <<"constant", "read">>}
  BY DEF ArgumentTypes, ReadWriteOne, WithConstant, BinaryTypes
<1>2. Len(x.args) = 2
  BY <1>1 DEF Fits
<1>3. x.args \in Seq(Int)
  BY DEF Fits, AllInstructions
<1> QED BY <1>2, <1>3

(* Wrapping gives a word and leaves words alone. *)
LEMMA WrapType ==
  ASSUME NEW n \in Int
  PROVE  /\ Wrap(n) \in Int
         /\ n \in Word => Wrap(n) = n
<1>1. MaxInt \in Nat /\ MinInt \in Int /\ MaxInt - MinInt + 1 \in Nat \ {0}
  BY InstructionsAssumption DEF MinInt
<1> DEFINE w == MaxInt - MinInt + 1
           k == n - MinInt
<1>2. k \in Int /\ w \in Nat \ {0} /\ MinInt \in Int
  BY <1>1
<1>3. n \in Word => k \in 0 .. w - 1
  BY <1>1 DEF Word
<1>4. n = k + MinInt
  BY <1>1
<1> HIDE DEF w, k
<1>5. k % w \in Int /\ (k \in 0 .. w - 1 => k % w = k)
  BY <1>2
<1> QED BY <1>2, <1>3, <1>4, <1>5 DEF Wrap, w, k

(* The tracker maps slots to integers. *)
LEMMA TrackKeepsType ==
  ASSUME NEW x, Fits(x), NEW known \in Knowledge
  PROVE  TrackInstruction(x, known) \in Knowledge
<1>1. CASE x.type = "set_from_constant"
  <2>1. x.args[1] \in Int /\ x.args[2] \in Int
    BY <1>1, Arguments
  <2> QED BY <1>1, <2>1, KnowledgeIs DEF TrackInstruction
<1>2. CASE x.type = "copy"
  <2>1. x.args[1] \in Int /\ x.args[2] \in Int
    BY <1>2, Arguments
  <2> QED BY <1>2, <2>1, KnowledgeIs DEF TrackInstruction
<1>3. CASE x.type = "add"
  <2>1. x.args[1] \in Int /\ x.args[2] \in Int
    BY <1>3, Arguments
  <2>2. {x.args[1], x.args[2]} \subseteq DOMAIN known
           => Wrap(known[x.args[1]] + known[x.args[2]]) \in Int
    BY KnowledgeIs, WrapType
  <2> QED BY <1>3, <2>1, <2>2, KnowledgeIs DEF TrackInstruction
<1>4. CASE x.type \notin {"set_from_constant", "copy", "add"}
  BY <1>4, KnowledgeIs DEF TrackInstruction
<1> QED BY <1>1, <1>2, <1>3, <1>4

(* Before an instruction: nothing at a jump destination. *)
KnownBefore(c, n) ==
  IF n - 1 \in JumpDestinations(c) THEN Empty ELSE KnownAfter(c)[n - 1]

(* The tracker's recursion is well-defined. *)
LEMMA KnownAfterIs ==
  ASSUME NEW c, IsCode(c)
  PROVE  /\ KnownAfter(c) \in [0 .. Len(c) -> Knowledge]
         /\ KnownAfter(c)[0] = Empty
         /\ \A n \in 1 .. Len(c) : KnownAfter(c)[n] = TrackInstruction(c[n], KnownBefore(c, n))
<1> DEFINE N == Len(c)
           Before(n, k) == IF n - 1 \in JumpDestinations(c) THEN Empty ELSE k
           Equation(f) == f = [n \in 0 .. N |-> IF n = 0 THEN Empty
                                                ELSE TrackInstruction(c[n], Before(n, f[n - 1]))]
           step == [p \in (1 .. N) \X Knowledge |->
                      TrackInstruction(c[p[1]], Before(p[1], p[2]))]
           F == KnownAfter(c)
<1>1. N \in Nat /\ \A n \in 1 .. N : Fits(c[n])
  <2>1. N \in Nat /\ \A n \in 1 .. N : n - 1 \in Positions(c) /\ At(c, n - 1) = c[n]
    BY CodeIs DEF Positions, At
  <2> QED BY <2>1, CodeIs
<1>2. \A n \in 1 .. N, k \in Knowledge : TrackInstruction(c[n], Before(n, k)) \in Knowledge
  BY <1>1, TrackKeepsType, KnowledgeIs
<1>3. step \in [(1 .. N) \X Knowledge -> Knowledge]
  BY <1>2
<1>4. \A n \in 1 .. N, k \in Knowledge : step[<<n, k>>] = TrackInstruction(c[n], Before(n, k))
  OBVIOUS
<1>5. PICK g \in [0 .. N -> Knowledge] : /\ g[0] = Empty
                                         /\ \A n \in 1 .. N : g[n] = step[<<n, g[n - 1]>>]
  <2>1. N \in Nat /\ Empty \in Knowledge /\ step \in StepFunctions(N, Knowledge)
    BY <1>1, <1>3, KnowledgeIs DEF StepFunctions
  <2> HIDE DEF step, N
  <2>2. Sequences(N, Knowledge, Empty, step) # {}
    BY <2>1, RecursionExists
  <2> QED BY <2>2 DEF Sequences
<1>6. \A n \in 1 .. N : g[n] = TrackInstruction(c[n], Before(n, g[n - 1]))
  <2> HIDE DEF step, Before
  <2> TAKE n \in 1 .. N
  <2>1. g[n - 1] \in Knowledge
    BY <1>1, <1>5
  <2> QED BY <1>4, <1>5, <2>1
<1>7. Equation(g)
  <2> HIDE DEF step, Before
  <2> QED BY <1>1, <1>5, <1>6
<1>8. F = CHOOSE f : Equation(f)
  BY DEF KnownAfter
<1>9. Equation(F)
  <2> HIDE DEF F, Equation
  <2> QED BY <1>7, <1>8
<1>10. F[0] = Empty /\ \A n \in 1 .. N : F[n] = TrackInstruction(c[n], Before(n, F[n - 1]))
  <2> HIDE DEF F, Before
  <2> QED BY <1>1, <1>9
<1>11. F = g
  <2>1. IsFunctionOn(N, F) /\ IsFunctionOn(N, g)
    <3> HIDE DEF F, Before
    <3> QED BY <1>9 DEF IsFunctionOn
  <2>2. Alike(N, F, g)
    <3> HIDE DEF F, Before
    <3> QED BY <1>5, <1>6, <1>10 DEF Alike
  <2> HIDE DEF F, N
  <2> QED BY <1>1, <2>1, <2>2, RecursionIsUnique
<1> QED BY <1>5, <1>10, <1>11 DEF KnownBefore

-----------------------------------------------------------------------------
(* The instructions fold_constants generates. *)
LEMMA FoldedFits ==
  /\ \A a \in Slot, b \in Int : Fits(Make("set_from_constant", <<a, b>>))
  /\ \A d \in Int : Fits(Make("jump", <<d>>))
  /\ Fits(Make("nothing", <<>>))
<1> USE DEF Make
<1>1. ASSUME NEW a \in Slot, NEW b \in Int PROVE Fits(Make("set_from_constant", <<a, b>>))
  <2> DEFINE y == Make("set_from_constant", <<a, b>>)
  <2>1. ArgumentTypes(y.type) = <<"read_write", "constant">>
    BY DEF ArgumentTypes, ReadWriteOne, WithConstant, BinaryTypes
  <2>2. y \in AllInstructions
    BY RunsAssumption DEF AllInstructions, InstructionTypes, WithConstant, Slot
  <2>3. LocalsOf(y, {"read", "read_write"}) \subseteq {a}
    BY <2>1 DEF LocalsOf
  <2>4. Reads(y) = {}
    BY DEF Reads
  <2> QED BY <2>1, <2>2, <2>3, <2>4 DEF Fits
<1>2. ASSUME NEW d \in Int PROVE Fits(Make("jump", <<d>>))
  <2> DEFINE y == Make("jump", <<d>>)
  <2>1. ArgumentTypes(y.type) = <<"constant">>
    BY DEF ArgumentTypes, ReadWriteOne, WithConstant, BinaryTypes
  <2>2. y \in AllInstructions
    BY DEF AllInstructions, InstructionTypes, JumpTypes
  <2>3. LocalsOf(y, {"read", "read_write"}) = {}
    BY <2>1 DEF LocalsOf
  <2>4. Reads(y) = {}
    BY DEF Reads
  <2> QED BY <2>1, <2>2, <2>3, <2>4 DEF Fits
<1>3. Fits(Make("nothing", <<>>))
  <2> DEFINE y == Make("nothing", <<>>)
  <2>1. ArgumentTypes(y.type) = <<>>
    BY DEF ArgumentTypes, ReadWriteOne, WithConstant, BinaryTypes
  <2>2. y \in AllInstructions
    BY DEF AllInstructions, InstructionTypes
  <2>3. LocalsOf(y, {"read", "read_write"}) = {}
    BY <2>1 DEF LocalsOf
  <2>4. Reads(y) = {}
    BY DEF Reads
  <2> QED BY <2>1, <2>2, <2>3, <2>4 DEF Fits
<1> QED BY <1>1, <1>2, <1>3

(* The slots of the instructions it looks at. *)
LEMMA Operands ==
  ASSUME NEW x, Fits(x)
  PROVE  /\ x.type \in {"copy", "add"} => x.args[1] \in Slot /\ x.args[2] \in Slot
         /\ x.type = "set_from_constant" => x.args[1] \in Slot
         /\ x.type \in {"jump_if", "jump_if_not"} => x.args[2] \in Slot
<1> DEFINE types == ArgumentTypes(x.type)
           roles == {"read", "read_write"}
<1>1. \A k \in DOMAIN types : types[k] \in roles => x.args[k] \in Slot
  <2> HIDE DEF types
  <2> QED BY DEF LocalsOf, Fits, types
<1>2. CASE x.type \in {"copy", "add"}
  <2>1. types = <<"read_write", "read">>
    BY <1>2 DEF ArgumentTypes, ReadWriteOne, WithConstant, BinaryTypes
  <2> QED BY <1>1, <1>2, <2>1
<1>3. CASE x.type = "set_from_constant"
  <2>1. types = <<"read_write", "constant">>
    BY <1>3 DEF ArgumentTypes, ReadWriteOne, WithConstant, BinaryTypes
  <2> QED BY <1>1, <1>3, <2>1
<1>4. CASE x.type \in {"jump_if", "jump_if_not"}
  <2>1. types = <<"constant", "read">>
    BY <1>4 DEF ArgumentTypes, ReadWriteOne, WithConstant, BinaryTypes
  <2> QED BY <1>1, <1>4, <2>1
<1> QED BY <1>2, <1>3, <1>4

(* A folded instruction fits, and leads nowhere it did not lead before. *)
LEMMA FoldInstructionFits ==
  ASSUME NEW x, Fits(x), NEW known \in Knowledge
  PROVE  LET y == FoldInstruction(x, known) IN
         /\ Fits(y)
         /\ IsAnyJump(y) => IsAnyJump(x) /\ Destination(y) = Destination(x)
<1> DEFINE y == FoldInstruction(x, known)
<1>1. CASE x.type \in {"copy", "add"} /\ x.args[1] \in DOMAIN known
  <2>1. y = Make("set_from_constant", <<x.args[1], known[x.args[1]]>>)
    BY <1>1 DEF FoldInstruction
  <2>2. x.args[1] \in Slot /\ known[x.args[1]] \in Int
    BY <1>1, Operands, KnowledgeIs
  <2> QED BY <2>1, <2>2, FoldedFits DEF IsAnyJump, JumpTypes, Make
<1>2. CASE x.type \in {"jump_if", "jump_if_not"} /\ x.args[2] \in DOMAIN known
  <2>1. y \in {Make("jump", <<x.args[1]>>), Make("nothing", <<>>)}
    BY <1>2 DEF FoldInstruction
  <2>2. IsAnyJump(x) /\ x.args[1] \in Int
    BY <1>2, Arguments DEF IsAnyJump, JumpTypes
  <2> QED BY <2>1, <2>2, FoldedFits DEF IsAnyJump, JumpTypes, Make, Destination
<1>3. CASE ~(x.type \in {"copy", "add"} /\ x.args[1] \in DOMAIN known)
           /\ ~(x.type \in {"jump_if", "jump_if_not"} /\ x.args[2] \in DOMAIN known)
  <2>1. y = x
    BY <1>3 DEF FoldInstruction
  <2> QED BY <2>1
<1> QED BY <1>1, <1>2, <1>3

(* Folding replaces instructions where they are. *)
LEMMA FoldingIs ==
  ASSUME NEW c, IsCode(c)
  PROVE  LET new == FoldConstants(c) IN
         /\ Len(new) = Len(c) /\ IsCode(new)
         /\ \A i \in Positions(c) : At(new, i) = FoldInstruction(At(c, i), KnownAfter(c)[i + 1])
<1> DEFINE new == FoldConstants(c)
           known == KnownAfter(c)
<1>1. Len(c) \in Nat /\ Positions(c) = 0 .. Len(c) - 1
  BY CodeIs DEF Positions
<1>2. new = [n \in 1 .. Len(c) |-> FoldInstruction(c[n], known[n])]
  BY DEF FoldConstants
<1>3. Len(new) = Len(c)
  <2> HIDE DEF new, known
  <2> QED BY <1>1, <1>2
<1>4. ASSUME NEW i \in Positions(c)
      PROVE  At(new, i) = FoldInstruction(At(c, i), known[i + 1])
  <2>1. i + 1 \in 1 .. Len(c)
    BY <1>1
  <2> HIDE DEF new, known
  <2> QED BY <1>2, <2>1 DEF At
<1>5. ASSUME NEW i \in Positions(c)
      PROVE  /\ Fits(At(new, i))
             /\ IsAnyJump(At(new, i)) => Destination(At(new, i)) \in 0 .. Len(c)
  <2>1. i + 1 \in 0 .. Len(c)
    BY <1>1
  <2>2. known[i + 1] \in Knowledge
    BY <2>1, KnownAfterIs
  <2>3. Fits(At(c, i)) /\ (IsAnyJump(At(c, i)) => Destination(At(c, i)) \in 0 .. Len(c))
    BY CodeIs
  <2> HIDE DEF new, known
  <2> QED BY <1>4, <2>2, <2>3, FoldInstructionFits
<1>6. new \in Seq(AllInstructions)
  <2>1. \A n \in 1 .. Len(c) : n - 1 \in Positions(c) /\ new[n] = At(new, n - 1)
    BY <1>1 DEF At
  <2>2. \A n \in 1 .. Len(c) : new[n] \in AllInstructions
    <3> HIDE DEF new
    <3> QED BY <2>1, <1>5 DEF Fits
  <2>3. new = [n \in 1 .. Len(c) |-> new[n]]
    BY <1>2
  <2> HIDE DEF new
  <2> QED BY <1>1, <2>2, <2>3
<1>7. IsCode(new)
  <2>1. Positions(new) = Positions(c)
    BY <1>3 DEF Positions
  <2> HIDE DEF new
  <2> QED BY <1>3, <1>5, <1>6, <2>1, CodeIs
<1> QED BY <1>3, <1>4, <1>7

-----------------------------------------------------------------------------
(* No sequence of passes makes an instruction or a jump that is not right. *)
THEOREM CodeStaysCode == Spec => []IsCode(code)
<1>1. Init => IsCode(code)
  BY ProgramsAssumption DEF Init, IsCode
<1>2. IsCode(code) /\ [Next]_code => IsCode(code)'
  <2> SUFFICES ASSUME IsCode(code), [Next]_code PROVE IsCode(code')
    BY DEF IsCode, WellFormed, JumpsStayIn, JumpDestinations, At, Positions
  <2>1. CASE Fold
    BY <2>1, FoldingIs DEF Fold
  <2>2. CASE RemoveNoOps
    BY <2>2, RemovalKeepsCode DEF RemoveNoOps
  <2>3. CASE RemoveDeadCode
    BY <2>3, RemovalKeepsCode DEF RemoveDeadCode
  <2>4. CASE UNCHANGED code
    BY <2>4
  <2> QED BY <2>1, <2>2, <2>3, <2>4 DEF Next
<1> QED BY <1>1, <1>2, PTL DEF Spec

(* Instructions keep the shape their type asks for. *)
THEOREM TypeCorrect == Spec => []TypeOK
<1>1. IsCode(code) => TypeOK
  BY DEF IsCode, TypeOK
<1> QED BY <1>1, CodeStaysCode, PTL

(* No pass makes a jump leave the function. *)
THEOREM Jumps == Spec => []JumpsInRange
<1>1. IsCode(code) => JumpsInRange
  BY DEF IsCode, JumpsInRange
<1> QED BY <1>1, CodeStaysCode, PTL

-----------------------------------------------------------------------------
(* Runs. *)
Event == AllInstructions \X UNION {[D -> Value] : D \in SUBSET Slot}
Errors == {"none", "junk", "integer_overflow", "failed", "bind_to_non_function",
           "call_non_object", "no_bound_value", "set_on_non_object", "get_from_non_object",
           "invalid_module_name"}
Machine(n) == [pc : 0 .. n, error : Errors, events : Seq(Event), world : Worlds,
               locals : [Slot -> Value]]

(* The values instructions make. *)
LEMMA Values ==
  /\ \A n \in Int : Integer(n) \in Value /\ Object(n) \in Value
                    /\ [type |-> "function_ptr", i |-> n] \in Value
  /\ Null \in Value /\ Self \in Value /\ Junk \in Value
BY DEF Value, Integer, Object, Null, Self, Junk

(* The elementary steps of a machine before the end of n instructions. *)
LEMMA ElementarySteps ==
  ASSUME NEW n \in Nat, NEW m \in Machine(n), m.pc < n
  PROVE  /\ Continue(m) \in Machine(n)
         /\ \A s : \A v \in Value : Write(m, s, v) \in Machine(n)
         /\ \A e \in Errors : Raise(m, e) \in Machine(n)
         /\ \A p \in 0 .. n : JumpTo(m, p) \in Machine(n)
<1>1. m.pc + 1 \in 0 .. n
  BY DEF Machine
<1>2. Continue(m) \in Machine(n)
  BY <1>1 DEF Machine, Continue
<1>3. ASSUME NEW s, NEW v \in Value PROVE Write(m, s, v) \in Machine(n)
  <2>1. Continue(m) \in Machine(n)
    BY <1>2
  <2> QED BY <2>1 DEF Machine, Write
<1>4. \A e \in Errors : Raise(m, e) \in Machine(n)
  BY DEF Machine, Raise
<1>5. \A p \in 0 .. n : JumpTo(m, p) \in Machine(n)
  BY DEF Machine, JumpTo
<1> QED BY <1>2, <1>3, <1>4, <1>5

(* An event: what happened by then, what the world answers to it, and what *)
(* becomes of the locals.                                                  *)
EventsAfter(m, x) == Append(m.events, <<x, [s \in Reads(x) |-> m.locals[s]]>>)
AnswerTo(m, x) == Answer(m.world, EventsAfter(m, x))
Refused(m, x) == AnswerTo(m, x) \notin Value /\ x.type \notin NeverFails
LocalsAfter(m, x, results) ==
  [s \in Slot |-> IF s \in results THEN Result(x.type, AnswerTo(m, x))
                  ELSE IF x.type \in {"call", "call_method"} /\ x.args[1] < s
                    THEN Junk ELSE m.locals[s]]

LEMMA ExternalIs ==
  ASSUME NEW n \in Nat, NEW m \in Machine(n), NEW x, NEW results
  PROVE  /\ m = [pc |-> m.pc, error |-> m.error, events |-> m.events, world |-> m.world,
                 locals |-> m.locals]
         /\ External(m, x, results) =
              IF Refused(m, x)
                THEN [pc |-> m.pc, error |-> "failed", events |-> EventsAfter(m, x),
                      world |-> m.world, locals |-> m.locals]
                ELSE [pc |-> m.pc + 1, error |-> m.error, events |-> EventsAfter(m, x),
                      world |-> m.world, locals |-> LocalsAfter(m, x, results)]
<1>1. m = [pc |-> m.pc, error |-> m.error, events |-> m.events, world |-> m.world,
           locals |-> m.locals]
  BY DEF Machine
<1>2. External(m, x, results) =
        IF Refused(m, x)
          THEN [m EXCEPT !.events = EventsAfter(m, x), !.error = "failed"]
          ELSE [m EXCEPT !.pc = m.pc + 1, !.events = EventsAfter(m, x),
                         !.locals = LocalsAfter(m, x, results)]
  BY DEF External, Refused, AnswerTo, EventsAfter, LocalsAfter
<1>3. ASSUME NEW r, r = [m EXCEPT !.events = EventsAfter(m, x), !.error = "failed"]
      PROVE  r = [pc |-> m.pc, error |-> "failed", events |-> EventsAfter(m, x),
                  world |-> m.world, locals |-> m.locals]
  <2>1. /\ r = [pc |-> r.pc, error |-> r.error, events |-> r.events, world |-> r.world,
                locals |-> r.locals]
        /\ r.pc = m.pc /\ r.error = "failed" /\ r.events = EventsAfter(m, x)
        /\ r.world = m.world /\ r.locals = m.locals
    BY <1>1, <1>3
  <2> QED BY ONLY <2>1
<1>4. ASSUME NEW r, r = [m EXCEPT !.pc = m.pc + 1, !.events = EventsAfter(m, x),
                                  !.locals = LocalsAfter(m, x, results)]
      PROVE  r = [pc |-> m.pc + 1, error |-> m.error, events |-> EventsAfter(m, x),
                  world |-> m.world, locals |-> LocalsAfter(m, x, results)]
  <2>1. /\ r = [pc |-> r.pc, error |-> r.error, events |-> r.events, world |-> r.world,
                locals |-> r.locals]
        /\ r.pc = m.pc + 1 /\ r.error = m.error /\ r.events = EventsAfter(m, x)
        /\ r.world = m.world /\ r.locals = LocalsAfter(m, x, results)
    BY <1>1, <1>4
  <2> QED BY ONLY <2>1
<1> QED BY <1>1, <1>2, <1>3, <1>4

(* The result of an event is a value. *)
LEMMA ResultType ==
  ASSUME NEW type, NEW answer
  PROVE  Result(type, answer) \in Value
<1> DEFINE value == IF answer \in Value THEN answer ELSE Null
<1>1. value \in Value
  BY Values
<1>2. value.i \in Int
  <2> HIDE DEF value
  <2> QED BY <1>1 DEF Value
<1>3. /\ Integer(1) \in Value /\ Integer(0) \in Value
      /\ Integer(value.i) \in Value /\ Object(value.i) \in Value
  <2> HIDE DEF value
  <2>1. \A k \in Int : Integer(k) \in Value /\ Object(k) \in Value
    BY Values, Zenon
  <2> QED BY <1>2, <2>1
<1>4. Result(type, answer) =
        CASE type \in ComparisonTypes -> Integer(IF ToBoolean(value) THEN 1 ELSE 0)
          [] type \in ArithmeticTypes -> Integer(value.i)
          [] type = "bind"            -> Object(value.i)
          [] OTHER                    -> value
  BY DEF Result
<1> HIDE DEF value
<1> QED BY <1>1, <1>3, <1>4

(* An event leaves a machine. *)
LEMMA ExternalType ==
  ASSUME NEW n \in Nat, NEW m \in Machine(n), m.pc < n, NEW x, Fits(x), NEW results
  PROVE  External(m, x, results) \in Machine(n)
<1> DEFINE values == [s \in Reads(x) |-> m.locals[s]]
<1>1. m.pc \in 0 .. n /\ m.pc + 1 \in 0 .. n /\ m.events \in Seq(Event)
      /\ m.locals \in [Slot -> Value] /\ m.world \in Worlds /\ m.error \in Errors
  BY DEF Machine
<1>2. <<x, values>> \in Event
  <2>1. Reads(x) \in SUBSET Slot /\ x \in AllInstructions
    BY DEF Fits
  <2>2. values \in [Reads(x) -> Value]
    BY <1>1, <2>1
  <2> HIDE DEF values
  <2> QED BY <2>1, <2>2 DEF Event
<1>3. EventsAfter(m, x) \in Seq(Event)
  <2>1. EventsAfter(m, x) = Append(m.events, <<x, values>>)
    BY DEF EventsAfter
  <2> HIDE DEF values
  <2> QED BY <1>1, <1>2, <2>1
<1>4. LocalsAfter(m, x, results) \in [Slot -> Value]
  <2>1. Result(x.type, AnswerTo(m, x)) \in Value /\ Junk \in Value
    BY ResultType, Values
  <2> QED BY <1>1, <2>1 DEF LocalsAfter
<1>5. "failed" \in Errors
  BY DEF Errors
<1>6. CASE Refused(m, x)
  <2>1. External(m, x, results)
          = [pc |-> m.pc, error |-> "failed", events |-> EventsAfter(m, x),
             world |-> m.world, locals |-> m.locals]
    BY <1>6, ExternalIs
  <2> QED BY <1>1, <1>3, <1>5, <2>1 DEF Machine
<1>7. CASE ~Refused(m, x)
  <2>1. External(m, x, results)
          = [pc |-> m.pc + 1, error |-> m.error, events |-> EventsAfter(m, x),
             world |-> m.world, locals |-> LocalsAfter(m, x, results)]
    BY <1>7, ExternalIs
  <2> QED BY <1>1, <1>3, <1>4, <2>1 DEF Machine
<1> QED BY <1>6, <1>7

(* The instructions that write to their first argument and do no more. *)
Writers == {"set_from_constant", "set_null", "set_function", "set_string", "current_function",
            "copy", "new_table", "add", "not", "negate", "invert"}

(* They have the slot to write to, and the operand they need. *)
LEMMA WritersArguments ==
  ASSUME NEW x, Fits(x), x.type \in Writers
  PROVE  /\ x.args[1] \in LocalsOf(x, {"read_write"}) /\ x.args[1] \in Slot
         /\ ~IsAnyJump(x)
         /\ x.type \in {"set_from_constant", "set_function", "set_string"} => x.args[2] \in Int
         /\ x.type \in {"copy", "add"} => x.args[2] \in Slot
<1> DEFINE types == ArgumentTypes(x.type)
<1>1. types \in {<<"read_write">>, <<"read_write", "constant">>, <<"read_write", "read">>}
      /\ (x.type \in {"set_from_constant", "set_function", "set_string"}
            => types = <<"read_write", "constant">>)
  BY DEF Writers, ArgumentTypes, ReadWriteOne, WithConstant, BinaryTypes
<1>2. 1 \in DOMAIN types /\ types[1] = "read_write"
  <2>1. CASE types = <<"read_write">>
    <3> HIDE DEF types
    <3> QED BY <2>1
  <2>2. CASE types = <<"read_write", "constant">>
    <3> HIDE DEF types
    <3> QED BY <2>2
  <2>3. CASE types = <<"read_write", "read">>
    <3> HIDE DEF types
    <3> QED BY <2>3
  <2> HIDE DEF types
  <2> QED BY <1>1, <2>1, <2>2, <2>3
<1>3. x.args[1] \in LocalsOf(x, {"read_write"})
  <2> HIDE DEF types
  <2> QED BY <1>2 DEF LocalsOf, types
<1>4. x.args[1] \in Slot
  <2> HIDE DEF types
  <2> QED BY <1>2 DEF LocalsOf, Fits, types
<1>5. ASSUME x.type \in {"set_from_constant", "set_function", "set_string"}
      PROVE  x.args[2] \in Int
  <2>1. Len(types) = 2
    <3> HIDE DEF types
    <3> QED BY <1>1, <1>5
  <2>2. x.args \in Seq(Int) /\ Len(x.args) = 2
    BY <2>1 DEF Fits, AllInstructions
  <2> QED BY <2>2
<1>6. ~IsAnyJump(x)
  BY DEF Writers, IsAnyJump, JumpTypes
<1> QED BY <1>3, <1>4, <1>5, <1>6, Operands

(* What the instructions do whose effect lies outside. *)
AccessTypes == {"call", "call_method", "get_bound", "set_element", "get_element", "load_module"}

LEMMA OperandErrors ==
  ASSUME NEW type \in AccessTypes
  PROVE  OperandError(type) \in Errors \ {"none"}
BY DEF AccessTypes, OperandError, Errors

LEMMA Outside ==
  ASSUME NEW x, Fits(x),
         x.type \notin Writers \cup {"nothing", "jump", "jump_if", "jump_if_not", "bind"}
  PROVE  \/ /\ x.type \in ComparisonTypes
            /\ \A m : Execute(m, x) = External(m, x, LocalsOf(x, {"read_write"}))
         \/ /\ x.type \in ArithmeticTypes /\ LocalsOf(x, {"read_write"}) = {x.args[1]}
            /\ \A m : Execute(m, x) = ComputeLocals(m, x)
         \/ x.type \in AccessTypes /\ \A m : Execute(m, x) = Access(m, x)
<1>1. x.type \in InstructionTypes
  BY DEF Fits, AllInstructions
<1>2. x.type \in ComparisonTypes \cup ArithmeticTypes \cup AccessTypes
  <2>1. x.type \in {"bind", "nothing", "jump", "jump_if", "jump_if_not"} \cup Writers
                   \cup ComparisonTypes \cup ArithmeticTypes \cup AccessTypes
    BY <1>1 DEF InstructionTypes, JumpTypes, ReadWriteOne, WithConstant, BinaryTypes,
                Writers, ComparisonTypes, ArithmeticTypes, AccessTypes
  <2> HIDE DEF InstructionTypes
  <2> QED BY <2>1
<1>3. CASE x.type \in ComparisonTypes
  <2>1. \A m : Execute(m, x) = External(m, x, LocalsOf(x, {"read_write"}))
    BY <1>3 DEF Execute, ComparisonTypes, ArithmeticTypes
  <2> QED BY <1>3, <2>1
<1>4. CASE x.type \in ArithmeticTypes
  <2>1. \A m : Execute(m, x) = ComputeLocals(m, x)
    BY <1>4 DEF Execute, ComparisonTypes, ArithmeticTypes
  <2> DEFINE types == ArgumentTypes(x.type)
             local == {k \in DOMAIN types : types[k] \in {"read_write"}}
  <2>2. types = <<"read_write", "read">>
    BY <1>4 DEF ArithmeticTypes, ArgumentTypes, ReadWriteOne, WithConstant, BinaryTypes
  <2>3. local = {1}
    <3> HIDE DEF types
    <3> QED BY <2>2
  <2>4. LocalsOf(x, {"read_write"}) = {x.args[k] : k \in local}
    BY DEF LocalsOf
  <2> HIDE DEF local
  <2>5. LocalsOf(x, {"read_write"}) = {x.args[1]}
    BY <2>3, <2>4
  <2> QED BY <1>4, <2>1, <2>5
<1>5. CASE x.type \in AccessTypes
  <2>1. \A m : Execute(m, x) = Access(m, x)
    BY <1>5 DEF Execute, ComparisonTypes, ArithmeticTypes, AccessTypes
  <2> QED BY <1>5, <2>1
<1> QED BY <1>2, <1>3, <1>4, <1>5

(* What an instruction can do to a machine. *)
LEMMA ExecuteCases ==
  ASSUME NEW n \in Nat, NEW m \in Machine(n), NEW x, Fits(x)
  PROVE  \/ \E v \in Value : x.type \in Writers /\ Execute(m, x) = Write(m, x.args[1], v)
         \/ x.type # "jump" /\ Execute(m, x) = Continue(m)
         \/ \E e \in Errors \ {"none"} : Execute(m, x) = Raise(m, e)
         \/ IsAnyJump(x) /\ Execute(m, x) = JumpTo(m, Destination(x))
         \/ ~IsAnyJump(x) /\ Execute(m, x) = External(m, x, LocalsOf(x, {"read_write"}))
         \/ x.type = "bind" /\ Execute(m, x) = External(m, x, {})
         \/ /\ x.type = "bind" /\ Execute(m, x) = External(m, x, {x.args[1]})
            /\ m.locals[x.args[1]].type = "function_ptr"
<1> DEFINE args == x.args
<1>1. m.locals \in [Slot -> Value]
  BY DEF Machine
<1>2. CASE x.type \in {"set_from_constant", "set_null", "set_function", "set_string",
                       "current_function", "new_table"}
  <2>1. x.type \in Writers
    BY <1>2 DEF Writers
  <2>2. x.type \in {"set_from_constant", "set_function", "set_string"}
          => args[2] \in Int /\ args[2] + 1 \in Int /\ - args[2] - 1 \in Int
    BY <2>1, WritersArguments
  <2>3. CASE x.type = "set_from_constant"
    <3>1. Execute(m, x) = Write(m, args[1], Integer(args[2]))
      BY <2>3 DEF Execute, ComparisonTypes, ArithmeticTypes
    <3>2. Integer(args[2]) \in Value
      BY <2>2, <2>3, Values
    <3> QED BY <2>1, <3>1, <3>2
  <2>4. CASE x.type = "set_null"
    <3>1. Execute(m, x) = Write(m, args[1], Null)
      BY <2>4 DEF Execute, ComparisonTypes, ArithmeticTypes
    <3> QED BY <2>1, <3>1, Values
  <2>5. CASE x.type = "set_function"
    <3> DEFINE v == [type |-> "function_ptr", i |-> args[2] + 1]
    <3>1. Execute(m, x) = Write(m, args[1], v)
      BY <2>5 DEF Execute, ComparisonTypes, ArithmeticTypes
    <3>2. v \in Value
      BY <2>2, <2>5, Values
    <3> QED BY <2>1, <3>1, <3>2
  <2>6. CASE x.type = "set_string"
    <3>1. Execute(m, x) = Write(m, args[1], Object(- args[2] - 1))
      BY <2>6 DEF Execute, ComparisonTypes, ArithmeticTypes
    <3>2. Object(- args[2] - 1) \in Value
      BY <2>2, <2>6, Values
    <3> QED BY <2>1, <3>1, <3>2
  <2>7. CASE x.type = "current_function"
    <3>1. Execute(m, x) = Write(m, args[1], Self)
      BY <2>7 DEF Execute, ComparisonTypes, ArithmeticTypes
    <3> QED BY <2>1, <3>1, Values
  <2>8. CASE x.type = "new_table"
    <3>1. Execute(m, x) = Write(m, args[1], Object(0))
      BY <2>8 DEF Execute, ComparisonTypes, ArithmeticTypes
    <3>2. Object(0) \in Value
      BY DEF Value, Object
    <3> QED BY <2>1, <3>1, <3>2
  <2> QED BY <1>2, <2>3, <2>4, <2>5, <2>6, <2>7, <2>8
<1>3. CASE x.type = "copy"
  <2>1. x.type \in Writers
    BY <1>3 DEF Writers
  <2>2. m.locals[args[2]] \in Value
    BY <1>1, <1>3, <2>1, WritersArguments
  <2>3. Execute(m, x) = Write(m, args[1], m.locals[args[2]])
    BY <1>3 DEF Execute, ComparisonTypes, ArithmeticTypes
  <2> QED BY <2>1, <2>2, <2>3
<1>4. CASE x.type = "add"
  <2>1. x.type \in Writers /\ x.type # "jump"
    BY <1>4 DEF Writers
  <2>2. Execute(m, x) = AddLocals(m, args[1], args[2])
    BY <1>4 DEF Execute, ComparisonTypes, ArithmeticTypes
  <2>3. m.locals[args[1]] \in Value /\ m.locals[args[2]] \in Value
    BY <1>1, <1>4, <2>1, WritersArguments
  <2>4. Integer(m.locals[args[1]].i + m.locals[args[2]].i) \in Value
    BY <2>3 DEF Value, Integer
  <2> QED BY <2>1, <2>2, <2>4 DEF AddLocals, Errors
<1>5. CASE x.type = "not"
  <2>1. x.type \in Writers
    BY <1>5 DEF Writers
  <2> DEFINE v == Integer(IF ToBoolean(m.locals[args[1]]) THEN 0 ELSE 1)
  <2>2. Execute(m, x) = Write(m, args[1], v)
    BY <1>5 DEF Execute, ComparisonTypes, ArithmeticTypes
  <2>3. v \in Value
    BY DEF Value, Integer
  <2> QED BY <2>1, <2>2, <2>3
<1>6. CASE x.type \in {"negate", "invert"}
  <2>1. x.type \in Writers /\ x.type # "jump"
    BY <1>6 DEF Writers
  <2>2. m.locals[args[1]] \in Value
    BY <1>1, <2>1, WritersArguments
  <2>3. Integer(- m.locals[args[1]].i) \in Value /\ Integer(- m.locals[args[1]].i - 1) \in Value
    BY <2>2 DEF Value, Integer
  <2>4. CASE x.type = "negate"
    <3>1. Execute(m, x) = NegateLocal(m, args[1])
      BY <2>4 DEF Execute, ComparisonTypes, ArithmeticTypes
    <3> QED BY <2>1, <2>3, <3>1 DEF NegateLocal, Errors
  <2>5. CASE x.type = "invert"
    <3>1. Execute(m, x) = InvertLocal(m, args[1])
      BY <2>5 DEF Execute, ComparisonTypes, ArithmeticTypes
    <3> QED BY <2>1, <2>3, <3>1 DEF InvertLocal
  <2> QED BY <1>6, <2>4, <2>5
<1>7. CASE x.type \in {"nothing", "jump", "jump_if", "jump_if_not"}
  <2>1. x.type # "nothing" => IsAnyJump(x)
    BY <1>7 DEF IsAnyJump, JumpTypes
  <2>2. \/ x.type # "jump" /\ Execute(m, x) = Continue(m)
        \/ x.type # "nothing" /\ Execute(m, x) = JumpTo(m, Destination(x))
    BY <1>7 DEF Execute, Destination, ComparisonTypes, ArithmeticTypes
  <2> QED BY <2>1, <2>2
<1>8. CASE x.type = "bind"
  <2>1. Execute(m, x) = Bind(m, x)
    BY <1>8 DEF Execute, ComparisonTypes, ArithmeticTypes
  <2> QED BY <1>8, <2>1 DEF Bind, Errors
<1>9. CASE x.type \notin Writers \cup {"nothing", "jump", "jump_if", "jump_if_not", "bind"}
  <2>1. ~IsAnyJump(x) /\ x.type # "jump"
    BY <1>9 DEF IsAnyJump, JumpTypes
  <2> DEFINE there == External(m, x, LocalsOf(x, {"read_write"}))
  <2>2. \/ Execute(m, x) = there
        \/ Execute(m, x) = ComputeLocals(m, x) /\ LocalsOf(x, {"read_write"}) = {args[1]}
        \/ x.type \in AccessTypes /\ Execute(m, x) = Access(m, x)
    BY <1>9, Outside
  <2>3. LocalsOf(x, {"read_write"}) = {args[1]} => ComputeLocals(m, x) \in {there, Continue(m)}
    BY DEF ComputeLocals
  <2>4. ASSUME x.type \in AccessTypes
        PROVE  Access(m, x) = there \/ \E e \in Errors \ {"none"} : Access(m, x) = Raise(m, e)
    <3>1. OperandError(x.type) \in Errors \ {"none"}
      BY <2>4, OperandErrors
    <3>2. Access(m, x) \in {there, Raise(m, OperandError(x.type))}
      BY DEF Access
    <3> QED BY <3>1, <3>2
  <2> HIDE DEF there
  <2>5. \/ Execute(m, x) = there
        \/ Execute(m, x) = Continue(m)
        \/ \E e \in Errors \ {"none"} : Execute(m, x) = Raise(m, e)
    BY <2>2, <2>3, <2>4
  <2> QED BY <2>1, <2>5 DEF there
<1> QED BY <1>2, <1>3, <1>4, <1>5, <1>6, <1>7, <1>8, <1>9 DEF Writers

(* An instruction goes on or jumps, and writes only where it says, or to   *)
(* the function that bind makes a closure of.                              *)
LEMMA ExecuteIs ==
  ASSUME NEW n \in Nat, NEW m \in Machine(n), m.pc < n, m.error = "none",
         NEW x, Fits(x), IsAnyJump(x) => Destination(x) \in 0 .. n
  PROVE  LET r == Execute(m, x) IN
         /\ r \in Machine(n)
         /\ r.error = "none" =>
              \/ x.type # "jump" /\ r.pc = m.pc + 1
              \/ IsAnyJump(x) /\ r.pc = Destination(x)
         /\ r.error = "none" => \A s \in Slot \ LocalsOf(x, {"read_write"}) :
              r.locals[s] \in {m.locals[s], Junk} \/ m.locals[s].type = "function_ptr"
<1> DEFINE r == Execute(m, x)
           Goal == /\ r \in Machine(n)
                   /\ r.error = "none" =>
                        \/ x.type # "jump" /\ r.pc = m.pc + 1
                        \/ IsAnyJump(x) /\ r.pc = Destination(x)
                   /\ r.error = "none" => \A s \in Slot \ LocalsOf(x, {"read_write"}) :
                        r.locals[s] \in {m.locals[s], Junk} \/ m.locals[s].type = "function_ptr"
<1> HIDE DEF r
<1>1. /\ m.locals \in [Slot -> Value] /\ m.pc \in 0 .. n
      /\ m = [pc |-> m.pc, error |-> m.error, events |-> m.events, world |-> m.world,
              locals |-> m.locals]
  BY DEF Machine
<1>2. ASSUME NEW v \in Value, x.type \in Writers, r = Write(m, x.args[1], v) PROVE Goal
  <2>1. r \in Machine(n)
    BY <1>2, ElementarySteps
  <2>2. x.type # "jump" /\ r.pc = m.pc + 1
    BY <1>1, <1>2 DEF Writers, Write, Continue
  <2>3. \A s \in Slot \ {x.args[1]} : r.locals[s] = m.locals[s]
    BY <1>1, <1>2 DEF Write, Continue
  <2>4. x.args[1] \in LocalsOf(x, {"read_write"})
    BY <1>2, WritersArguments
  <2> QED BY <2>1, <2>2, <2>3, <2>4
<1>3. ASSUME x.type # "jump", r = Continue(m) PROVE Goal
  <2>1. r \in Machine(n) /\ r.pc = m.pc + 1 /\ r.locals = m.locals
    <3>1. r \in Machine(n)
      BY <1>3, ElementarySteps
    <3> QED BY <1>1, <1>3, <3>1 DEF Continue
  <2> QED BY <1>3, <2>1
<1>4. ASSUME NEW e \in Errors \ {"none"}, r = Raise(m, e) PROVE Goal
  <2>1. r \in Machine(n)
    BY <1>4, ElementarySteps
  <2>2. r.error = e
    BY <1>1, <1>4 DEF Raise
  <2> QED BY <2>1, <2>2
<1>5. ASSUME IsAnyJump(x), r = JumpTo(m, Destination(x)) PROVE Goal
  <2>1. r \in Machine(n)
    BY <1>5, ElementarySteps
  <2>2. r.pc = Destination(x) /\ r.locals = m.locals
    BY <1>1, <1>5 DEF JumpTo
  <2> QED BY <1>5, <2>1, <2>2
<1>6. ASSUME NEW results, x.type # "jump", r = External(m, x, results),
             \A s \in results : \/ s \in LocalsOf(x, {"read_write"})
                                \/ m.locals[s].type = "function_ptr"
      PROVE  Goal
  <2>1. r \in Machine(n)
    BY <1>6, ExternalType
  <2>2. r.error = "none" => r.pc = m.pc + 1 /\ r.locals = LocalsAfter(m, x, results)
    BY <1>6, ExternalIs
  <2>3. \A s \in Slot : s \notin results
          => LocalsAfter(m, x, results)[s] \in {m.locals[s], Junk}
    BY DEF LocalsAfter
  <2> QED BY <1>6, <2>1, <2>2, <2>3
<1>7. IsAnyJump(x) <=> x.type \in JumpTypes
  BY DEF IsAnyJump
<1>8. ~IsAnyJump(x) => x.type # "jump"
  BY <1>7 DEF JumpTypes
<1>9. Goal
  <2>1. \/ \E v \in Value : x.type \in Writers /\ r = Write(m, x.args[1], v)
        \/ x.type # "jump" /\ r = Continue(m)
        \/ \E e \in Errors \ {"none"} : r = Raise(m, e)
        \/ IsAnyJump(x) /\ r = JumpTo(m, Destination(x))
        \/ ~IsAnyJump(x) /\ r = External(m, x, LocalsOf(x, {"read_write"}))
        \/ x.type = "bind" /\ r = External(m, x, {})
        \/ /\ x.type = "bind" /\ r = External(m, x, {x.args[1]})
           /\ m.locals[x.args[1]].type = "function_ptr"
    BY ExecuteCases DEF r
  <2> HIDE DEF Goal
  <2>2. CASE ~IsAnyJump(x) /\ r = External(m, x, LocalsOf(x, {"read_write"}))
    BY <1>6, <1>8, <2>2
  <2>3. CASE x.type = "bind" /\ r = External(m, x, {})
    BY <1>6, <2>3
  <2>4. CASE /\ x.type = "bind" /\ r = External(m, x, {x.args[1]})
             /\ m.locals[x.args[1]].type = "function_ptr"
    BY <1>6, <2>4
  <2> QED BY <1>2, <1>3, <1>4, <1>5, <2>1, <2>2, <2>3, <2>4
<1> QED BY <1>9 DEF r

(* A step: nothing at the end, an error if what is read is not defined,    *)
(* or what the instruction does.                                           *)
LEMMA StepIs ==
  ASSUME NEW c, IsCode(c), NEW m \in Machine(Len(c))
  PROVE  /\ Halted(c, m) => Step(c, m) = m
         /\ ~Halted(c, m) => m.pc \in Positions(c) /\ m.error = "none"
         /\ (~Halted(c, m) /\ \E s \in Reads(At(c, m.pc)) : m.locals[s] = Junk)
              => Step(c, m) = Raise(m, "junk")
         /\ (~Halted(c, m) /\ ~\E s \in Reads(At(c, m.pc)) : m.locals[s] = Junk)
              => Step(c, m) = Execute(m, At(c, m.pc))
         /\ Step(c, m) \in Machine(Len(c))
<1>1. Len(c) \in Nat /\ m.pc \in 0 .. Len(c)
  BY CodeIs DEF Machine
<1>2. Halted(c, m) => Step(c, m) = m
  BY DEF Step
<1>3. ~Halted(c, m) => m.pc \in Positions(c) /\ m.error = "none" /\ m.pc < Len(c)
  BY <1>1 DEF Halted, Positions
<1>4. (~Halted(c, m) /\ \E s \in Reads(At(c, m.pc)) : m.locals[s] = Junk)
         => Step(c, m) = Raise(m, "junk")
  BY DEF Step
<1>5. (~Halted(c, m) /\ ~\E s \in Reads(At(c, m.pc)) : m.locals[s] = Junk)
         => Step(c, m) = Execute(m, At(c, m.pc))
  BY DEF Step
<1>6. Step(c, m) \in Machine(Len(c))
  <2>1. ~Halted(c, m) => Raise(m, "junk") \in Machine(Len(c))
    BY <1>1, <1>3, ElementarySteps DEF Errors
  <2>2. ~Halted(c, m) => Execute(m, At(c, m.pc)) \in Machine(Len(c))
    BY <1>1, <1>3, CodeIs, ExecuteIs
  <2> QED BY <1>2, <1>4, <1>5, <2>1, <2>2
<1> QED BY <1>2, <1>3, <1>4, <1>5, <1>6

(* Where a run starts. *)
LEMMA StartIs ==
  ASSUME NEW n \in Nat, NEW parameter \in Parameters, NEW world \in Worlds
  PROVE  /\ Start(parameter, world) \in Machine(n) /\ Start(parameter, world).pc = 0
         /\ Start(parameter, world).error = "none"
<1>1. parameter \in Value
  BY ParametersAssumption
<1>2. [s \in Slot |-> CASE s = 0 -> Self [] s = 1 -> parameter [] OTHER -> Junk]
        \in [Slot -> Value]
  BY <1>1, Values
<1> QED BY <1>2 DEF Start, Machine, Errors

(* A run is steps of the machine. *)
LEMMA RunIs ==
  ASSUME NEW c, IsCode(c), NEW parameter \in Parameters, NEW world \in Worlds
  PROVE  /\ Run(c, parameter, world) \in [0 .. Fuel -> Machine(Len(c))]
         /\ Run(c, parameter, world)[0] = Start(parameter, world)
         /\ \A n \in 1 .. Fuel :
              Run(c, parameter, world)[n] = Step(c, Run(c, parameter, world)[n - 1])
<1> DEFINE M == Machine(Len(c))
           Equation(f) == f = [n \in 0 .. Fuel |-> IF n = 0 THEN Start(parameter, world)
                                                   ELSE Step(c, f[n - 1])]
           step == [p \in (1 .. Fuel) \X M |-> Step(c, p[2])]
           F == Run(c, parameter, world)
<1>1. Fuel \in Nat /\ Len(c) \in Nat /\ Start(parameter, world) \in M
  <2>1. Fuel \in Nat /\ Len(c) \in Nat
    BY RunsAssumption, CodeIs
  <2> QED BY <2>1, StartIs
<1>2. \A m \in M : Step(c, m) \in M
  BY StepIs
<1>3. step \in StepFunctions(Fuel, M)
  <2> HIDE DEF M
  <2> QED BY <1>2 DEF StepFunctions
<1>4. \A n \in 1 .. Fuel, m \in M : step[<<n, m>>] = Step(c, m)
  <2> HIDE DEF M
  <2> QED OBVIOUS
<1> HIDE DEF M, step
<1>5. PICK g \in [0 .. Fuel -> M] : /\ g[0] = Start(parameter, world)
                                    /\ \A n \in 1 .. Fuel : g[n] = step[<<n, g[n - 1]>>]
  <2>1. Sequences(Fuel, M, Start(parameter, world), step) # {}
    BY <1>1, <1>3, RecursionExists
  <2> QED BY <2>1 DEF Sequences
<1>6. \A n \in 1 .. Fuel : g[n] = Step(c, g[n - 1])
  <2> TAKE n \in 1 .. Fuel
  <2>1. g[n - 1] \in M
    BY <1>1, <1>5
  <2> QED BY <1>4, <1>5, <2>1
<1>7. Equation(g)
  BY <1>1, <1>5, <1>6
<1>8. F = CHOOSE f : Equation(f)
  BY DEF Run
<1>9. Equation(F)
  <2> HIDE DEF F, Equation
  <2> QED BY <1>7, <1>8
<1>10. F[0] = Start(parameter, world) /\ \A n \in 1 .. Fuel : F[n] = Step(c, F[n - 1])
  <2> HIDE DEF F
  <2> QED BY <1>1, <1>9
<1>11. F = g
  <2>1. IsFunctionOn(Fuel, F) /\ IsFunctionOn(Fuel, g)
    <3> HIDE DEF F
    <3> QED BY <1>9 DEF IsFunctionOn
  <2>2. Alike(Fuel, F, g)
    <3> HIDE DEF F
    <3> QED BY <1>5, <1>6, <1>10 DEF Alike
  <2> HIDE DEF F
  <2> QED BY <1>1, <2>1, <2>2, RecursionIsUnique
<1> QED BY <1>5, <1>10, <1>11 DEF M

-----------------------------------------------------------------------------
(* What is known of a machine is true, but for slots nobody may read.      *)
Agrees(known, m) ==
  \A s \in DOMAIN known : s \in Slot => m.locals[s] \in {Integer(known[s]), Junk}

(* Forgetting keeps agreement, knowing one slot more needs it there only.  *)
LEMMA AgreementChanges ==
  ASSUME NEW known \in Knowledge, NEW m, NEW r, NEW S,
         \A s \in Slot \ S : r.locals[s] \in {m.locals[s], Junk},
         Agrees(known, m)
  PROVE  /\ Agrees(Forget(known, S), r)
         /\ \A slot, value : (S = {slot} /\ r.locals[slot] \in {Integer(value), Junk})
                               => Agrees(Update(known, slot, value), r)
<1>1. \A s \in DOMAIN known : (s \in Slot /\ s \notin S)
                                => r.locals[s] \in {Integer(known[s]), Junk}
  BY DEF Agrees
<1>2. Agrees(Forget(known, S), r)
  BY <1>1 DEF Agrees, Forget
<1>3. ASSUME NEW slot, NEW value, S = {slot}, r.locals[slot] \in {Integer(value), Junk}
      PROVE  Agrees(Update(known, slot, value), r)
  <2> DEFINE new == Update(known, slot, value)
  <2>1. DOMAIN new = DOMAIN known \cup {slot}
        /\ new[slot] = value /\ \A s \in DOMAIN known : s # slot => new[s] = known[s]
    BY DEF Update
  <2> HIDE DEF new
  <2>2. \A s \in DOMAIN new : s \in Slot => r.locals[s] \in {Integer(new[s]), Junk}
    BY <1>1, <1>3, <2>1
  <2> QED BY <2>2 DEF Agrees, new
<1> QED BY <1>2, <1>3

(* What copy and add do to the machine and to the tracker. *)
LEMMA CopyIs ==
  ASSUME NEW n \in Nat, NEW m \in Machine(n), NEW x, Fits(x), x.type = "copy"
  PROVE  /\ Reads(x) = {x.args[2]}
         /\ Execute(m, x) = Write(m, x.args[1], m.locals[x.args[2]])
BY DEF Reads, Execute, ComparisonTypes, ArithmeticTypes

(* add reads both its operands, the destination too. *)
LEMMA AddIs ==
  ASSUME NEW n \in Nat, NEW m \in Machine(n), NEW x, Fits(x), x.type = "add"
  PROVE  /\ Reads(x) = {x.args[1], x.args[2]}
         /\ Execute(m, x) = AddLocals(m, x.args[1], x.args[2])
<1>1. ArgumentTypes(x.type) = <<"read_write", "read">>
  BY DEF ArgumentTypes, ReadWriteOne, WithConstant, BinaryTypes
<1>2. Reads(x) = LocalsOf(x, {"read", "read_write"})
  BY DEF Reads
<1>3. LocalsOf(x, {"read", "read_write"}) = {x.args[1], x.args[2]}
  <2> DEFINE types == <<"read_write", "read">>
             local == {k \in DOMAIN types : types[k] \in {"read", "read_write"}}
  <2>1. local = {1, 2}
    OBVIOUS
  <2>2. LocalsOf(x, {"read", "read_write"}) = {x.args[k] : k \in local}
    BY <1>1 DEF LocalsOf
  <2> HIDE DEF local
  <2> QED BY <2>1, <2>2
<1>4. Execute(m, x) = AddLocals(m, x.args[1], x.args[2])
  BY DEF Execute, ComparisonTypes, ArithmeticTypes
<1> QED BY <1>2, <1>3, <1>4

(* A sum of what is known is the sum the machine computes, or it overflows. *)
LEMMA SumIsKnown ==
  ASSUME NEW n \in Nat, NEW m \in Machine(n), m.error = "none", NEW x, Fits(x), x.type = "add",
         NEW known \in Knowledge, Agrees(known, m),
         x.args[1] \in DOMAIN known, x.args[2] \in DOMAIN known,
         \A s \in Reads(x) : m.locals[s] # Junk,
         Execute(m, x).error # "integer_overflow"
  PROVE  Execute(m, x) =
           Write(m, x.args[1], Integer(Wrap(known[x.args[1]] + known[x.args[2]])))
<1> DEFINE a == x.args[1]
           b == x.args[2]
           sum == known[a] + known[b]
<1>1. a \in Slot /\ b \in Slot
  BY Operands
<1>2. m.locals[a] = Integer(known[a]) /\ m.locals[b] = Integer(known[b])
  BY <1>1, AddIs DEF Agrees
<1>3. sum \in Int
  BY KnowledgeIs
<1>4. Execute(m, x) = IF sum \notin Word THEN Raise(m, "integer_overflow")
                                         ELSE Write(m, a, Integer(sum))
  <2>1. m.locals[a].type = "integer" /\ m.locals[a].i = known[a]
        /\ m.locals[b].type = "integer" /\ m.locals[b].i = known[b]
    BY <1>2 DEF Integer
  <2>2. Execute(m, x) = AddLocals(m, a, b)
    BY AddIs
  <2> HIDE DEF a, b
  <2> QED BY <2>1, <2>2 DEF AddLocals
<1>5. Raise(m, "integer_overflow").error = "integer_overflow"
  BY DEF Raise, Machine
<1>6. sum \in Word
  BY <1>4, <1>5
<1>7. Wrap(sum) = sum
  <2> HIDE DEF sum
  <2> QED BY <1>3, <1>6, WrapType
<1> QED BY <1>4, <1>6, <1>7

(* Writing a value. *)
LEMMA WriteIs ==
  ASSUME NEW n \in Nat, NEW m \in Machine(n), NEW slot \in Slot, NEW v
  PROVE  /\ Write(m, slot, v).locals[slot] = v
         /\ \A s \in Slot \ {slot} : Write(m, slot, v).locals[s] = m.locals[s]
BY DEF Machine, Write, Continue

(* What the tracker knows after an instruction is true. *)
LEMMA TrackIsSound ==
  ASSUME NEW n \in Nat, NEW m \in Machine(n), m.pc < n, m.error = "none",
         NEW x, Fits(x), IsAnyJump(x) => Destination(x) \in 0 .. n,
         NEW known \in Knowledge, Agrees(known, m),
         \A s \in Reads(x) : m.locals[s] # Junk,
         Execute(m, x).error = "none"
  PROVE  Agrees(TrackInstruction(x, known), Execute(m, x))
<1> DEFINE r == Execute(m, x)
           a == x.args[1]
           b == x.args[2]
<1>1. CASE x.type = "set_from_constant"
  <2>1. r = Write(m, a, Integer(b)) /\ a \in Slot
    BY <1>1, Operands DEF Execute, ComparisonTypes, ArithmeticTypes
  <2>2. TrackInstruction(x, known) = Update(known, a, b)
    BY <1>1 DEF TrackInstruction
  <2>3. r.locals[a] = Integer(b) /\ \A s \in Slot \ {a} : r.locals[s] = m.locals[s]
    BY <2>1, WriteIs
  <2>4. Agrees(Update(known, a, b), r)
    <3> HIDE DEF r
    <3> QED BY <2>3, AgreementChanges
  <2> QED BY <2>2, <2>4
<1>2. CASE x.type = "copy"
  <2>1. r = Write(m, a, m.locals[b]) /\ a \in Slot /\ b \in Slot
    BY <1>2, Operands, CopyIs
  <2>2. r.locals[a] = m.locals[b] /\ \A s \in Slot \ {a} : r.locals[s] = m.locals[s]
    BY <2>1, WriteIs
  <2>3. TrackInstruction(x, known) = IF b \in DOMAIN known THEN Update(known, a, known[b])
                                                          ELSE Forget(known, {a})
    BY <1>2 DEF TrackInstruction
  <2>4. b \in DOMAIN known => r.locals[a] \in {Integer(known[b]), Junk}
    BY <2>1, <2>2 DEF Agrees
  <2>5. Agrees(Forget(known, {a}), r)
        /\ (b \in DOMAIN known => Agrees(Update(known, a, known[b]), r))
    <3> HIDE DEF r
    <3> QED BY <2>2, <2>4, AgreementChanges
  <2> QED BY <2>3, <2>5
<1>3. CASE x.type = "add"
  <2>1. a \in Slot /\ b \in Slot
    BY <1>3, Operands
  <2>2. TrackInstruction(x, known) =
          IF {a, b} \subseteq DOMAIN known THEN Update(known, a, Wrap(known[a] + known[b]))
                                          ELSE Forget(known, {a})
    BY <1>3 DEF TrackInstruction
  <2>3. \A s \in Slot \ {a} : r.locals[s] = m.locals[s]
    <3>1. r = AddLocals(m, a, b)
      BY <1>3, AddIs
    <3>2. \/ r.locals = m.locals
          \/ r = Write(m, a, Integer(m.locals[a].i + m.locals[b].i))
      BY <3>1 DEF AddLocals, Continue, Raise, Machine
    <3> HIDE DEF r
    <3> QED BY <2>1, <3>2, WriteIs
  <2>4. CASE {a, b} \subseteq DOMAIN known
    <3>1. r = Write(m, a, Integer(Wrap(known[a] + known[b])))
      BY <1>3, <2>4, SumIsKnown
    <3>2. r.locals[a] = Integer(Wrap(known[a] + known[b]))
      BY <2>1, <3>1, WriteIs
    <3>3. Agrees(Update(known, a, Wrap(known[a] + known[b])), r)
      <4> HIDE DEF r
      <4> QED BY <2>3, <3>2, AgreementChanges
    <3> QED BY <2>2, <2>4, <3>3
  <2>5. CASE ~({a, b} \subseteq DOMAIN known)
    <3>1. Agrees(Forget(known, {a}), r)
      <4> HIDE DEF r
      <4> QED BY <2>3, AgreementChanges
    <3> QED BY <2>2, <2>5, <3>1
  <2> QED BY <2>4, <2>5
<1>4. CASE x.type \notin {"set_from_constant", "copy", "add"}
  <2> DEFINE S == LocalsOf(x, {"read_write"})
  <2>1. TrackInstruction(x, known) = Forget(known, S)
    BY <1>4 DEF TrackInstruction
  <2>2. \A s \in Slot \ S : \/ r.locals[s] \in {m.locals[s], Junk}
                            \/ m.locals[s].type = "function_ptr"
    BY ExecuteIs
  <2>3. \A s \in DOMAIN known : s \in Slot => m.locals[s].type # "function_ptr"
    BY DEF Agrees, Integer, Junk
  <2>4. \A s \in DOMAIN known : (s \in Slot /\ s \notin S)
                                => r.locals[s] \in {Integer(known[s]), Junk}
    <3> HIDE DEF r, S
    <3> QED BY <2>2, <2>3 DEF Agrees
  <2> HIDE DEF r, S
  <2> QED BY <2>1, <2>4 DEF Agrees, Forget, r
<1> QED BY <1>1, <1>2, <1>3, <1>4

(* The folded instruction does what the original does, and reads no more. *)
LEMMA FoldIsSound ==
  ASSUME NEW n \in Nat, NEW m \in Machine(n), m.pc < n, m.error = "none",
         NEW x, Fits(x),
         NEW known \in Knowledge, Agrees(known, m),
         \A s \in Reads(x) : m.locals[s] # Junk,
         Execute(m, x).error # "integer_overflow"
  PROVE  LET y == FoldInstruction(x, TrackInstruction(x, known)) IN
         Execute(m, y) = Execute(m, x) /\ Reads(y) \subseteq Reads(x)
<1> DEFINE after == TrackInstruction(x, known)
           y == FoldInstruction(x, after)
           a == x.args[1]
           b == x.args[2]
<1>1. CASE x.type = "copy" /\ a \in DOMAIN after
  <2>1. after = IF b \in DOMAIN known THEN Update(known, a, known[b]) ELSE Forget(known, {a})
    BY <1>1 DEF TrackInstruction
  <2>2. b \in DOMAIN known /\ after[a] = known[b]
    BY <1>1, <2>1 DEF Update, Forget
  <2>3. m.locals[b] = Integer(known[b])
    BY <1>1, <2>2, Operands, CopyIs DEF Agrees
  <2>4. y = Make("set_from_constant", <<a, known[b]>>)
    BY <1>1, <2>2 DEF FoldInstruction
  <2>5. Execute(m, y) = Write(m, a, Integer(known[b])) /\ Reads(y) = {}
    <3> HIDE DEF y, a
    <3> QED BY <2>4 DEF Execute, Reads, Make, ComparisonTypes, ArithmeticTypes
  <2> QED BY <1>1, <2>3, <2>5, CopyIs
<1>2. CASE x.type = "add" /\ a \in DOMAIN after
  <2>1. after = IF {a, b} \subseteq DOMAIN known THEN Update(known, a, Wrap(known[a] + known[b]))
                                                ELSE Forget(known, {a})
    BY <1>2 DEF TrackInstruction
  <2>2. a \in DOMAIN known /\ b \in DOMAIN known /\ after[a] = Wrap(known[a] + known[b])
    BY <1>2, <2>1 DEF Update, Forget
  <2>3. Execute(m, x) = Write(m, a, Integer(after[a]))
    BY <1>2, <2>2, SumIsKnown
  <2>4. y = Make("set_from_constant", <<a, after[a]>>)
    BY <1>2 DEF FoldInstruction
  <2>5. Execute(m, y) = Write(m, a, Integer(after[a])) /\ Reads(y) = {}
    <3> HIDE DEF y, a, after
    <3> QED BY <2>4 DEF Execute, Reads, Make, ComparisonTypes, ArithmeticTypes
  <2> QED BY <2>3, <2>5
<1>3. CASE x.type \in {"jump_if", "jump_if_not"} /\ b \in DOMAIN after
  <2>1. after = Forget(known, LocalsOf(x, {"read_write"}))
    BY <1>3 DEF TrackInstruction
  <2>2. b \in DOMAIN known /\ after[b] = known[b]
    BY <1>3, <2>1 DEF Forget
  <2>3. b \in Reads(x) /\ b \in Slot
    <3>1. ArgumentTypes(x.type) = <<"constant", "read">>
      BY <1>3 DEF ArgumentTypes, ReadWriteOne, WithConstant, BinaryTypes
    <3>2. 2 \in DOMAIN <<"constant", "read">> /\ <<"constant", "read">>[2] = "read"
      OBVIOUS
    <3>3. b \in LocalsOf(x, {"read", "read_write"})
      BY <3>1, <3>2 DEF LocalsOf
    <3>4. Reads(x) = LocalsOf(x, {"read", "read_write"})
      BY <1>3 DEF Reads
    <3> QED BY <1>3, <3>3, <3>4, Operands
  <2>4. m.locals[b] = Integer(known[b])
    BY <2>2, <2>3 DEF Agrees
  <2>5. ToBoolean(m.locals[b]) = (known[b] # 0)
    BY <2>4 DEF ToBoolean, Integer
  <2>6. Execute(m, x) = IF (known[b] # 0) = (x.type = "jump_if") THEN JumpTo(m, a)
                                                               ELSE Continue(m)
    BY <1>3, <2>5 DEF Execute, ComparisonTypes, ArithmeticTypes
  <2>7. y = IF (known[b] # 0) = (x.type = "jump_if") THEN Make("jump", <<a>>)
                                                     ELSE Make("nothing", <<>>)
    BY <1>3, <2>2 DEF FoldInstruction
  <2>8. Execute(m, Make("jump", <<a>>)) = JumpTo(m, a) /\ Reads(Make("jump", <<a>>)) = {}
    BY DEF Execute, Reads, Make, ComparisonTypes, ArithmeticTypes
  <2>9. Execute(m, Make("nothing", <<>>)) = Continue(m) /\ Reads(Make("nothing", <<>>)) = {}
    BY DEF Execute, Reads, Make, ComparisonTypes, ArithmeticTypes
  <2> HIDE DEF y
  <2> QED BY <2>6, <2>7, <2>8, <2>9 DEF y
<1>4. CASE ~(x.type \in {"copy", "add"} /\ a \in DOMAIN after)
           /\ ~(x.type \in {"jump_if", "jump_if_not"} /\ b \in DOMAIN after)
  <2>1. y = x
    <3> HIDE DEF after
    <3> QED BY <1>4 DEF FoldInstruction
  <2> QED BY <2>1
<1> QED BY <1>1, <1>2, <1>3, <1>4
-----------------------------------------------------------------------------
(* Folding. *)

(* What is known before the instruction the machine is at holds. *)
Known(c, m) ==
  (m.error = "none" /\ m.pc < Len(c)) => Agrees(KnownBefore(c, m.pc + 1), m)

(* KnownBefore and KnownAfter by position. *)
LEMMA KnownBeforeIs ==
  ASSUME NEW c, IsCode(c), NEW i \in Positions(c)
  PROVE  /\ KnownBefore(c, i + 1) \in Knowledge
         /\ KnownBefore(c, 1) = Empty
         /\ i \in JumpDestinations(c) => KnownBefore(c, i + 1) = Empty
         /\ i \notin JumpDestinations(c) => KnownBefore(c, i + 1) = KnownAfter(c)[i]
         /\ KnownAfter(c)[i + 1] = TrackInstruction(At(c, i), KnownBefore(c, i + 1))
<1>1. i \in 0 .. Len(c) /\ i + 1 \in 1 .. Len(c) /\ (i + 1) - 1 = i /\ 1 - 1 = 0
  BY CodeIs DEF Positions
<1>2. KnownAfter(c)[i] \in Knowledge /\ Empty \in Knowledge
  BY <1>1, KnownAfterIs, KnowledgeIs
<1>3. KnownAfter(c)[i + 1] = TrackInstruction(At(c, i), KnownBefore(c, i + 1))
  BY <1>1, KnownAfterIs DEF At
<1>4. KnownBefore(c, 1) = Empty
  BY <1>1, KnownAfterIs DEF KnownBefore
<1> QED BY <1>1, <1>2, <1>3, <1>4 DEF KnownBefore

(* A step of the folded code is a step of the code, and knowledge stays    *)
(* true, unless the step reads what is undefined or overflows.             *)
LEMMA FoldStep ==
  ASSUME NEW c, IsCode(c), NEW m \in Machine(Len(c)), Known(c, m),
         Step(c, m).error \notin {"junk", "integer_overflow"}
  PROVE  Step(FoldConstants(c), m) = Step(c, m) /\ Known(c, Step(c, m))
<1> DEFINE new == FoldConstants(c)
           r == Step(c, m)
           i == m.pc
           x == At(c, i)
           y == At(new, i)
           known == KnownBefore(c, i + 1)
<1>1. Len(new) = Len(c) /\ IsCode(new) /\ Len(c) \in Nat /\ Positions(new) = Positions(c)
  BY FoldingIs, CodeIs DEF Positions
<1>2. Halted(new, m) <=> Halted(c, m)
  BY <1>1 DEF Halted
<1>3. CASE Halted(c, m)
  <2>1. r = m
    BY <1>3, StepIs
  <2>2. Step(new, m) = m
    BY <1>2, <1>3 DEF Step
  <2> QED BY <2>1, <2>2
<1>4. CASE ~Halted(c, m)
  <2>1. i \in Positions(c) /\ i < Len(c) /\ m.error = "none" /\ i \in Nat
    BY <1>4, StepIs, <1>1 DEF Positions
  <2>2. Fits(x) /\ (IsAnyJump(x) => Destination(x) \in 0 .. Len(c))
    BY <2>1, CodeIs
  <2>3. known \in Knowledge /\ Agrees(known, m)
    BY <2>1, KnownBeforeIs DEF Known
  <2>4. y = FoldInstruction(x, TrackInstruction(x, known))
    BY <2>1, FoldingIs, KnownBeforeIs
  <2>5. (\A s \in Reads(x) : m.locals[s] # Junk) /\ r = Execute(m, x)
    <3>1. Raise(m, "junk").error = "junk"
      BY DEF Raise, Machine
    <3> QED BY <1>4, <3>1, StepIs
  <2>6. Execute(m, y) = Execute(m, x) /\ Reads(y) \subseteq Reads(x)
    <3>1. Execute(m, x).error # "integer_overflow"
      BY <2>5
    <3> DEFINE z == FoldInstruction(x, TrackInstruction(x, known))
    <3>2. Execute(m, z) = Execute(m, x) /\ Reads(z) \subseteq Reads(x)
      <4> HIDE DEF x, known
      <4> QED BY <1>1, <2>1, <2>2, <2>3, <2>5, <3>1, FoldIsSound
    <3> HIDE DEF x, y, known
    <3> QED BY <2>4, <3>2
  <2>7. Step(new, m) = r
    <3>1. \A s \in Reads(y) : m.locals[s] # Junk
      BY <2>5, <2>6
    <3>2. Step(new, m) = Execute(m, y)
      BY <1>1, <1>2, <1>4, <3>1, StepIs
    <3> QED BY <2>5, <2>6, <3>2
  <2>8. ASSUME r.error = "none", r.pc < Len(c) PROVE Agrees(KnownBefore(c, r.pc + 1), r)
    <3>1. Agrees(KnownAfter(c)[i + 1], r)
      <4>1. Agrees(TrackInstruction(x, known), r)
        <5> HIDE DEF x, known
        <5> QED BY <1>1, <2>1, <2>2, <2>3, <2>5, <2>8, TrackIsSound
      <4> QED BY <2>1, <4>1, KnownBeforeIs
    <3>2. r.pc = i + 1 \/ r.pc \in JumpDestinations(c)
      <4>1. r.pc = i + 1 \/ (IsAnyJump(x) /\ r.pc = Destination(x))
        <5> HIDE DEF x
        <5> QED BY <1>1, <2>1, <2>2, <2>5, <2>8, ExecuteIs
      <4> QED BY <2>1, <4>1 DEF JumpDestinations
    <3>3. r.pc \in Positions(c)
      <4>1. r \in Machine(Len(c))
        BY StepIs
      <4>2. r.pc \in 0 .. Len(c)
        BY <4>1 DEF Machine
      <4> HIDE DEF r
      <4> QED BY <1>1, <2>8, <4>2 DEF Positions
    <3>4. CASE r.pc \in JumpDestinations(c)
      <4>1. KnownBefore(c, r.pc + 1) = Empty
        BY <3>3, <3>4, KnownBeforeIs
      <4> QED BY <4>1 DEF Agrees, Empty
    <3>5. CASE r.pc \notin JumpDestinations(c)
      <4>1. KnownBefore(c, r.pc + 1) = KnownAfter(c)[i + 1]
        BY <3>2, <3>3, <3>5, KnownBeforeIs
      <4> QED BY <3>1, <4>1
    <3> QED BY <3>4, <3>5
  <2> QED BY <2>7, <2>8 DEF Known
<1> QED BY <1>3, <1>4

(* Once a run has failed it stays as it is. *)
LEMMA ErrorsStay ==
  ASSUME NEW c, IsCode(c), NEW parameter \in Parameters, NEW world \in Worlds, NEW n \in Nat,
         n + 1 \in 1 .. Fuel,
         Run(c, parameter, world)[n].error # "none"
  PROVE  Run(c, parameter, world)[n + 1] = Run(c, parameter, world)[n]
<1>1. Run(c, parameter, world)[n + 1] = Step(c, Run(c, parameter, world)[n])
  BY RunIs
<1> QED BY <1>1 DEF Step, Halted

(* The runs are the same as long as the original reads only what is        *)
(* defined and does not overflow.                                          *)
LEMMA FoldedRun ==
  ASSUME NEW c, IsCode(c), NEW parameter \in Parameters, NEW world \in Worlds,
         NEW k \in 0 .. Fuel,
         Run(c, parameter, world)[k].error \notin {"junk", "integer_overflow"}
  PROVE  Run(FoldConstants(c), parameter, world)[k] = Run(c, parameter, world)[k]
<1> DEFINE new == FoldConstants(c)
           old(n) == Run(c, parameter, world)[n]
           folded(n) == Run(new, parameter, world)[n]
           bad == {"junk", "integer_overflow"}
           Same(n) == old(n).error \notin bad => folded(n) = old(n) /\ Known(c, old(n))
           S == {n \in Nat : n <= Fuel => Same(n)}
<1>1. IsCode(new) /\ Len(new) = Len(c) /\ Len(c) \in Nat
  BY FoldingIs, CodeIs
<1>2. Fuel \in Nat
  BY RunsAssumption
<1>3. 0 \in S
  <2>1. old(0) = Start(parameter, world) /\ folded(0) = Start(parameter, world)
    BY <1>1, RunIs
  <2>2. Start(parameter, world).pc = 0
    BY StartIs
  <2>3. ASSUME 0 < Len(c) PROVE Agrees(KnownBefore(c, 0 + 1), Start(parameter, world))
    <3>1. KnownBefore(c, 0 + 1) = Empty
      <4>1. 0 \in Positions(c)
        BY <1>1, <2>3 DEF Positions
      <4> QED BY <4>1, KnownBeforeIs
    <3> QED BY <3>1 DEF Agrees, Empty
  <2>4. Known(c, Start(parameter, world))
    BY <2>2, <2>3 DEF Known
  <2>5. Same(0)
    BY <2>1, <2>4
  <2> QED BY <2>5
<1>4. ASSUME NEW n \in Nat, n \in S PROVE n + 1 \in S
  <2> SUFFICES ASSUME n + 1 <= Fuel, old(n + 1).error \notin bad
               PROVE  folded(n + 1) = old(n + 1) /\ Known(c, old(n + 1))
    OBVIOUS
  <2>1. n \in 0 .. Fuel /\ n + 1 \in 1 .. Fuel /\ (n + 1) - 1 = n
    BY <1>2
  <2>2. old(n) \in Machine(Len(c))
    <3>1. Run(c, parameter, world) \in [0 .. Fuel -> Machine(Len(c))]
      BY RunIs
    <3> QED BY <2>1, <3>1
  <2>3. old(n + 1) = Step(c, old(n)) /\ folded(n + 1) = Step(new, folded(n))
    <3>1. Run(c, parameter, world)[n + 1] = Step(c, Run(c, parameter, world)[(n + 1) - 1])
      BY <2>1, RunIs
    <3>2. Run(new, parameter, world)[n + 1] = Step(new, Run(new, parameter, world)[(n + 1) - 1])
      BY <1>1, <2>1, RunIs
    <3> QED BY <2>1, <3>1, <3>2
  <2>4. old(n).error \notin bad
    <3>1. old(n).error # "none" => old(n + 1) = old(n)
      BY <2>1, ErrorsStay
    <3> QED BY <3>1
  <2>5. folded(n) = old(n) /\ Known(c, old(n))
    <3>1. n <= Fuel
      BY <1>2, <2>1
    <3> QED BY <1>4, <2>4, <3>1
  <2> HIDE DEF old, folded, new
  <2>6. Step(new, old(n)) = Step(c, old(n)) /\ Known(c, Step(c, old(n)))
    BY <2>2, <2>3, <2>5, FoldStep DEF new
  <2> QED BY <2>3, <2>5, <2>6
<1>5. \A n \in Nat : n \in S
  <2> HIDE DEF S
  <2> QED BY <1>3, <1>4, InductionOnNat
<1>6. k \in Nat /\ k <= Fuel
  BY <1>2
<1>7. Same(k)
  <2> HIDE DEF Same
  <2> QED BY <1>5, <1>6
<1> QED BY <1>7

(* Constants are folded only where control flow, along whatever path it    *)
(* comes, has made them what they are taken for: a run that ends without   *)
(* reading a local before it is set, or overflowing, ends in the same way. *)
THEOREM FoldingIsCorrect == Spec => FoldingKeepsMeaning
<1>1. ASSUME IsCode(code), Fold PROVE KeepsMeaning(code, code', {"integer_overflow"})
  <2> DEFINE new == FoldConstants(code)
             bad == {"junk"} \cup {"integer_overflow"}
  <2>1. Len(new) = Len(code) /\ Fuel \in 0 .. Fuel
    BY <1>1, FoldingIs, RunsAssumption
  <2>2. ASSUME NEW parameter \in Parameters, NEW world \in Worlds,
               Behaviour(code, parameter, world).halted,
               Behaviour(code, parameter, world).error \notin bad
        PROVE  Behaviour(new, parameter, world) = Behaviour(code, parameter, world)
    <3> DEFINE m == Run(code, parameter, world)[Fuel]
    <3>1. Halted(code, m) /\ m.error \notin {"junk", "integer_overflow"}
      BY <2>2 DEF Behaviour
    <3>2. Run(new, parameter, world)[Fuel] = m
      BY <1>1, <2>1, <3>1, FoldedRun
    <3>3. Halted(new, m) <=> Halted(code, m)
      BY <2>1 DEF Halted
    <3> HIDE DEF new
    <3> QED BY <3>2, <3>3 DEF Behaviour
  <2> HIDE DEF new
  <2>3. KeepsMeaning(code, new, {"integer_overflow"})
    BY <2>2 DEF KeepsMeaning
  <2> QED BY <1>1, <2>3 DEF Fold, new
<1>2. IsCode(code) /\ [Next]_code
        => [Fold => KeepsMeaning(code, code', {"integer_overflow"})]_code
  BY <1>1
<1> QED BY <1>2, CodeStaysCode, PTL DEF Spec, FoldingKeepsMeaning
-----------------------------------------------------------------------------
(* The same machine elsewhere. *)
AtPosition(m, q) == [m EXCEPT !.pc = q]

(* The elementary steps depend on the position only in where they go on. *)
LEMMA ElementaryMoves ==
  ASSUME NEW n \in Nat, NEW m \in Machine(n), NEW k \in Nat, NEW q \in 0 .. k
  PROVE  LET moved == AtPosition(m, q) IN
         /\ moved \in Machine(k) /\ moved.pc = q /\ moved.error = m.error
         /\ moved.events = m.events /\ moved.locals = m.locals
         /\ Continue(moved) = AtPosition(Continue(m), q + 1) /\ Continue(m).error = m.error
         /\ \A s, v : /\ Write(moved, s, v) = AtPosition(Write(m, s, v), q + 1)
                      /\ Write(m, s, v).error = m.error
         /\ \A e : /\ Raise(moved, e) = AtPosition(Raise(m, e), q)
                   /\ Raise(m, e).error = e /\ Raise(m, e).pc = m.pc
         /\ \A p, d : JumpTo(moved, p) = AtPosition(JumpTo(m, d), p)
         /\ \A p : JumpTo(m, p).error = m.error /\ JumpTo(m, p).pc = p
         /\ \A x, results : m.error = "none" =>
              LET e == External(m, x, results) IN
              /\ External(moved, x, results)
                   = AtPosition(e, IF e.error = "none" THEN q + 1 ELSE q)
              /\ e.error # "none" => e.pc = m.pc
<1> DEFINE moved == AtPosition(m, q)
<1>1. m = [pc |-> m.pc, error |-> m.error, events |-> m.events, world |-> m.world,
           locals |-> m.locals]
  BY DEF Machine
<1>2. moved = [pc |-> q, error |-> m.error, events |-> m.events, world |-> m.world,
               locals |-> m.locals]
  BY <1>1 DEF AtPosition
<1>3. moved \in Machine(k)
  BY <1>2 DEF Machine
<1>4. Continue(moved) = AtPosition(Continue(m), q + 1) /\ Continue(m).error = m.error
  BY <1>1, <1>2 DEF AtPosition, Continue
<1>5. ASSUME NEW s, NEW v
      PROVE  Write(moved, s, v) = AtPosition(Write(m, s, v), q + 1) /\ Write(m, s, v).error = m.error
  <2> DEFINE locals == [m.locals EXCEPT ![s] = v]
  <2>1. Continue(m) = [pc |-> m.pc + 1, error |-> m.error, events |-> m.events,
                       world |-> m.world, locals |-> m.locals]
    BY <1>1 DEF Continue
  <2>2. Continue(moved) = [pc |-> q + 1, error |-> m.error, events |-> m.events,
                           world |-> m.world, locals |-> m.locals]
    BY <1>2 DEF Continue
  <2> HIDE DEF moved
  <2>3. Write(m, s, v) = [Continue(m) EXCEPT !.locals = [Continue(m).locals EXCEPT ![s] = v]]
    BY DEF Write
  <2>4. Write(moved, s, v)
          = [Continue(moved) EXCEPT !.locals = [Continue(moved).locals EXCEPT ![s] = v]]
    BY DEF Write
  <2>5. Write(m, s, v) = [Continue(m) EXCEPT !.locals = locals]
        /\ Write(moved, s, v) = [Continue(moved) EXCEPT !.locals = locals]
    BY <2>1, <2>2, <2>3, <2>4
  <2> HIDE DEF locals
  <2>6. Write(m, s, v)
          = [pc |-> m.pc + 1, error |-> m.error, events |-> m.events, world |-> m.world,
             locals |-> locals]
    BY <2>1, <2>5
  <2>7. Write(moved, s, v)
          = [pc |-> q + 1, error |-> m.error, events |-> m.events, world |-> m.world,
             locals |-> locals]
    BY <2>2, <2>5
  <2> QED BY <2>6, <2>7 DEF AtPosition
<1>6. ASSUME NEW e
      PROVE  /\ Raise(moved, e) = AtPosition(Raise(m, e), q)
             /\ Raise(m, e).error = e /\ Raise(m, e).pc = m.pc
  BY <1>1, <1>2 DEF AtPosition, Raise
<1>7. ASSUME NEW p, NEW d PROVE JumpTo(moved, p) = AtPosition(JumpTo(m, d), p)
  BY <1>1, <1>2 DEF AtPosition, JumpTo
<1>8. ASSUME NEW p PROVE JumpTo(m, p).error = m.error /\ JumpTo(m, p).pc = p
  BY <1>1 DEF JumpTo
<1>9. ASSUME NEW x, NEW results, m.error = "none"
      PROVE  LET e == External(m, x, results) IN
             /\ External(moved, x, results)
                  = AtPosition(e, IF e.error = "none" THEN q + 1 ELSE q)
             /\ e.error # "none" => e.pc = m.pc
  <2> DEFINE e == External(m, x, results)
             there == External(moved, x, results)
             all == EventsAfter(m, x)
             after == LocalsAfter(m, x, results)
  <2>1. moved.events = m.events /\ moved.locals = m.locals /\ moved.pc = q
        /\ moved.error = m.error /\ moved.world = m.world
    BY <1>2
  <2>2. moved \in Machine(k)
    BY <1>3
  <2> HIDE DEF moved
  <2>3. /\ EventsAfter(moved, x) = all /\ LocalsAfter(moved, x, results) = after
        /\ Refused(moved, x) <=> Refused(m, x)
    BY <2>1 DEF EventsAfter, LocalsAfter, AnswerTo, Refused
  <2> HIDE DEF e, there, all, after
  <2>4. CASE Refused(m, x)
    <3>1. e = [pc |-> m.pc, error |-> "failed", events |-> all, world |-> m.world,
               locals |-> m.locals]
      BY <2>4, ExternalIs DEF e, all
    <3>2. there = [pc |-> q, error |-> "failed", events |-> all, world |-> m.world,
                   locals |-> m.locals]
      BY <2>1, <2>2, <2>3, <2>4, ExternalIs DEF there
    <3>3. e.error = "failed" /\ e.pc = m.pc
      BY <3>1
    <3>4. there = AtPosition(e, q)
      BY <3>1, <3>2 DEF AtPosition
    <3> QED BY <3>3, <3>4 DEF e, there
  <2>5. CASE ~Refused(m, x)
    <3>1. e = [pc |-> m.pc + 1, error |-> m.error, events |-> all, world |-> m.world,
               locals |-> after]
      BY <2>5, ExternalIs DEF e, all, after
    <3>2. there = [pc |-> q + 1, error |-> m.error, events |-> all, world |-> m.world,
                   locals |-> after]
      BY <2>1, <2>2, <2>3, <2>5, ExternalIs DEF there
    <3>3. e.error = "none"
      BY <1>9, <3>1
    <3>4. there = AtPosition(e, q + 1)
      BY <3>1, <3>2 DEF AtPosition
    <3> QED BY <3>3, <3>4 DEF e, there
  <2> QED BY <2>4, <2>5
<1> HIDE DEF moved
<1>10. moved.pc = q /\ moved.error = m.error /\ moved.events = m.events /\ moved.locals = m.locals
  BY <1>2
<1> QED BY <1>3, <1>4, <1>5, <1>6, <1>7, <1>8, <1>9, <1>10 DEF moved

(* So do all instructions but jumps. *)
LEMMA ExecuteMoves ==
  ASSUME NEW n \in Nat, NEW m \in Machine(n), m.error = "none", NEW x, Fits(x), ~IsAnyJump(x),
         NEW k \in Nat, NEW q \in 0 .. k
  PROVE  LET r == Execute(m, x) IN
         Execute(AtPosition(m, q), x) = AtPosition(r, IF r.error = "none" THEN q + 1 ELSE q)
<1> DEFINE moved == AtPosition(m, q)
           Elsewhere(r) == AtPosition(r, IF r.error = "none" THEN q + 1 ELSE q)
           args == x.args
<1>1. moved.locals = m.locals
  BY ElementaryMoves
<1>2. Continue(moved) = Elsewhere(Continue(m))
  BY ElementaryMoves
<1>3. \A s, v : Write(moved, s, v) = Elsewhere(Write(m, s, v))
  BY ElementaryMoves
<1>4. \A e \in Errors \ {"none"} : Raise(moved, e) = Elsewhere(Raise(m, e))
  BY ElementaryMoves
<1>5. \A results : External(moved, x, results) = Elsewhere(External(m, x, results))
  BY ElementaryMoves
<1>6. x.type \notin {"jump", "jump_if", "jump_if_not"}
  BY DEF IsAnyJump, JumpTypes
<1> HIDE DEF moved, Elsewhere
<1>7. AddLocals(moved, args[1], args[2]) = Elsewhere(AddLocals(m, args[1], args[2]))
  BY <1>1, <1>2, <1>3, <1>4 DEF AddLocals, Errors
<1>8. NegateLocal(moved, args[1]) = Elsewhere(NegateLocal(m, args[1]))
  BY <1>1, <1>2, <1>3, <1>4 DEF NegateLocal, Errors
<1>9. InvertLocal(moved, args[1]) = Elsewhere(InvertLocal(m, args[1]))
  BY <1>1, <1>2, <1>3 DEF InvertLocal
<1>10. Bind(moved, x) = Elsewhere(Bind(m, x))
  BY <1>1, <1>4, <1>5 DEF Bind, Errors
<1>11. CASE x.type \in {"set_from_constant", "set_null", "set_function", "set_string",
                        "current_function", "copy", "new_table", "not"}
  <2>1. \E v : Execute(moved, x) = Write(moved, args[1], v) /\ Execute(m, x) = Write(m, args[1], v)
    BY <1>1, <1>11 DEF Execute, ComparisonTypes, ArithmeticTypes
  <2> QED BY <1>3, <2>1 DEF moved, Elsewhere
<1>12. CASE x.type = "add"
  <2>1. Execute(moved, x) = AddLocals(moved, args[1], args[2])
        /\ Execute(m, x) = AddLocals(m, args[1], args[2])
    BY <1>12 DEF Execute, ComparisonTypes, ArithmeticTypes
  <2> QED BY <1>7, <2>1 DEF moved, Elsewhere
<1>13. CASE x.type = "negate"
  <2>1. Execute(moved, x) = NegateLocal(moved, args[1]) /\ Execute(m, x) = NegateLocal(m, args[1])
    BY <1>13 DEF Execute, ComparisonTypes, ArithmeticTypes
  <2> QED BY <1>8, <2>1 DEF moved, Elsewhere
<1>14. CASE x.type = "invert"
  <2>1. Execute(moved, x) = InvertLocal(moved, args[1]) /\ Execute(m, x) = InvertLocal(m, args[1])
    BY <1>14 DEF Execute, ComparisonTypes, ArithmeticTypes
  <2> QED BY <1>9, <2>1 DEF moved, Elsewhere
<1>15. CASE x.type = "bind"
  <2>1. Execute(moved, x) = Bind(moved, x) /\ Execute(m, x) = Bind(m, x)
    BY <1>15 DEF Execute, ComparisonTypes, ArithmeticTypes
  <2> QED BY <1>10, <2>1 DEF moved, Elsewhere
<1>16. CASE x.type = "nothing"
  <2>1. Execute(moved, x) = Continue(moved) /\ Execute(m, x) = Continue(m)
    BY <1>16 DEF Execute, ComparisonTypes, ArithmeticTypes
  <2> QED BY <1>2, <2>1 DEF moved, Elsewhere
<1>17. CASE x.type \notin Writers \cup {"nothing", "bind"}
  <2> DEFINE results == LocalsOf(x, {"read_write"})
  <2>1. External(moved, x, results) = Elsewhere(External(m, x, results))
    BY <1>5
  <2>2. ComputeLocals(moved, x) = Elsewhere(ComputeLocals(m, x))
    BY <1>1, <1>2, <1>5 DEF ComputeLocals
  <2>3. ASSUME x.type \in AccessTypes PROVE Access(moved, x) = Elsewhere(Access(m, x))
    <3>1. OperandError(x.type) \in Errors \ {"none"}
      BY <2>3, OperandErrors
    <3> QED BY <1>1, <1>4, <2>1, <3>1 DEF Access
  <2> HIDE DEF results
  <2>4. \/ Execute(moved, x) = External(moved, x, results)
           /\ Execute(m, x) = External(m, x, results)
        \/ Execute(moved, x) = ComputeLocals(moved, x) /\ Execute(m, x) = ComputeLocals(m, x)
        \/ /\ x.type \in AccessTypes
           /\ Execute(moved, x) = Access(moved, x) /\ Execute(m, x) = Access(m, x)
    BY <1>6, <1>17, Outside DEF results
  <2> QED BY <2>1, <2>2, <2>3, <2>4 DEF moved, Elsewhere
<1> QED BY <1>11, <1>12, <1>13, <1>14, <1>15, <1>16, <1>17 DEF Writers
-----------------------------------------------------------------------------
(* Dead code. *)
Removed(c) == Positions(c) \ ReachableInstructions(c)
Moved(c, m) == AtPosition(m, NewPosition(c, Removed(c), m.pc))
Reached(c, m) == m.pc \in ReachableInstructions(c) \cup {Len(c)}

(* Control flow does not leave the reachable instructions. *)
LEMMA ReachableIsClosed ==
  ASSUME NEW c
  PROVE  /\ ReachableInstructions(c) \subseteq Positions(c)
         /\ ClosedUnderFlow(c, ReachableInstructions(c))
         /\ \A S \in SUBSET Positions(c) :
              ClosedUnderFlow(c, S) => ReachableInstructions(c) \subseteq S
<1> DEFINE R == ReachableInstructions(c)
<1>1. R \subseteq Positions(c)
      /\ \A S \in SUBSET Positions(c) : ClosedUnderFlow(c, S) => R \subseteq S
  BY DEF ReachableInstructions
<1>2. ASSUME Positions(c) # {} PROVE 0 \in R
  <2>1. 0 \in Positions(c)
    BY <1>2 DEF Positions
  <2>2. \A S \in SUBSET Positions(c) : ClosedUnderFlow(c, S) => 0 \in S
    BY <1>2 DEF ClosedUnderFlow
  <2> QED BY <2>1, <2>2 DEF ReachableInstructions
<1>3. ASSUME NEW i \in R, NEW j \in Successors(c, i) \cap Positions(c) PROVE j \in R
  <2>1. \A S \in SUBSET Positions(c) : ClosedUnderFlow(c, S) => j \in S
    BY <1>1 DEF ClosedUnderFlow
  <2> QED BY <2>1 DEF ReachableInstructions
<1> QED BY <1>1, <1>2, <1>3 DEF ClosedUnderFlow

(* Where the reachable instructions and the end of the code come to be. *)
LEMMA DeadCodeMoves ==
  ASSUME NEW c, IsCode(c)
  PROVE  LET new == RemoveInstructions(c, Removed(c))
             P(i) == NewPosition(c, Removed(c), i)
         IN
         /\ IsCode(new) /\ Len(c) \in Nat /\ Len(new) \in Nat /\ P(0) = 0 /\ P(Len(c)) = Len(new)
         /\ \A i \in ReachableInstructions(c) :
              /\ i \in Nat /\ i < Len(c) /\ P(i) \in Nat /\ P(i) < Len(new) /\ P(i + 1) = P(i) + 1
              /\ P(i) \in Positions(new)
              /\ At(new, P(i)) = FixUpJump(c, Removed(c), At(c, i))
         /\ \A k \in Positions(new) : \E i \in ReachableInstructions(c) : P(i) = k
<1> DEFINE new == RemoveInstructions(c, Removed(c))
           P(i) == NewPosition(c, Removed(c), i)
           R == ReachableInstructions(c)
<1>1. R = Positions(c) \ Removed(c)
  BY ReachableIsClosed DEF Removed
<1>2. IsCode(new) /\ Len(c) \in Nat /\ Len(new) \in Nat /\ P(Len(c)) = Len(new)
  BY RemovalKeepsCode, RemovalMoves, CodeIs
<1>3. P(0) = 0
  <2>1. (0 .. 0 - 1) \ Removed(c) = {}
    OBVIOUS
  <2> QED BY <2>1, FS_EmptySet DEF NewPosition
<1>4. ASSUME NEW i \in R
      PROVE  /\ i \in Nat /\ i < Len(c) /\ P(i) \in Nat /\ P(i) < Len(new) /\ P(i + 1) = P(i) + 1
             /\ P(i) \in Positions(new)
             /\ At(new, P(i)) = FixUpJump(c, Removed(c), At(c, i))
  <2>1. i \in Nat /\ i < Len(c) /\ i \notin Removed(c)
    BY <1>1, <1>2 DEF Positions
  <2>2. P(i) \in Positions(new) /\ At(new, P(i)) = FixUpJump(c, Removed(c), At(c, i))
    BY <1>1, RemovalMoves
  <2>3. P(i) \in Nat /\ P(i) < Len(new)
    <3> HIDE DEF P, new
    <3> QED BY <1>2, <2>2 DEF Positions
  <2>4. P(i + 1) = P(i) + 1
    BY <2>1, NextPosition
  <2> QED BY <2>1, <2>2, <2>3, <2>4
<1>5. \A k \in Positions(new) : \E i \in R : P(i) = k
  BY <1>1, RemovalMoves
<1> QED BY <1>2, <1>3, <1>4, <1>5

(* A jump that leads elsewhere goes there, or on. *)
LEMMA JumpMoves ==
  ASSUME NEW n \in Nat, NEW m \in Machine(n), m.error = "none",
         NEW x, Fits(x), IsAnyJump(x), NEW y, y.type = x.type,
         \A a \in 2 .. Len(x.args) : y.args[a] = x.args[a],
         NEW k \in Nat, NEW q \in 0 .. k
  PROVE  LET r == Execute(m, x)
             there == Execute(AtPosition(m, q), y)
         IN /\ r.error = "none"
            /\ \/ r.pc = Destination(x) /\ there = AtPosition(r, Destination(y))
               \/ x.type # "jump" /\ r.pc = m.pc + 1 /\ there = AtPosition(r, q + 1)
<1> DEFINE moved == AtPosition(m, q)
<1>1. moved.locals = m.locals
  BY ElementaryMoves
<1>2. JumpTo(moved, Destination(y)) = AtPosition(JumpTo(m, Destination(x)), Destination(y))
      /\ JumpTo(m, Destination(x)).pc = Destination(x)
      /\ JumpTo(m, Destination(x)).error = "none"
  BY ElementaryMoves
<1>3. Continue(moved) = AtPosition(Continue(m), q + 1) /\ Continue(m).error = "none"
      /\ Continue(m).pc = m.pc + 1
  <2>1. Continue(m).pc = m.pc + 1
    BY DEF Continue, Machine
  <2> QED BY <2>1, ElementaryMoves
<1> HIDE DEF moved
<1>4. CASE x.type = "jump"
  <2>1. Execute(m, x) = JumpTo(m, Destination(x)) /\ Execute(moved, y) = JumpTo(moved, Destination(y))
    BY <1>4 DEF Execute, Destination, ComparisonTypes, ArithmeticTypes
  <2> QED BY <1>2, <2>1 DEF moved
<1>5. CASE x.type \in {"jump_if", "jump_if_not"}
  <2>1. y.args[2] = x.args[2]
    <3>1. ArgumentTypes(x.type) = <<"constant", "read">>
      BY <1>5 DEF ArgumentTypes, ReadWriteOne, WithConstant, BinaryTypes
    <3>2. Len(x.args) = 2
      BY <3>1 DEF Fits
    <3> QED BY <3>2
  <2> DEFINE taken == ToBoolean(m.locals[x.args[2]]) = (x.type = "jump_if")
  <2>2. Execute(m, x) = IF taken THEN JumpTo(m, Destination(x)) ELSE Continue(m)
    BY <1>5 DEF Execute, Destination, ComparisonTypes, ArithmeticTypes
  <2>3. Execute(moved, y) = IF taken THEN JumpTo(moved, Destination(y)) ELSE Continue(moved)
    BY <1>1, <1>5, <2>1 DEF Execute, Destination, ComparisonTypes, ArithmeticTypes
  <2> HIDE DEF taken
  <2>4. CASE taken
    BY <1>2, <2>2, <2>3, <2>4 DEF moved
  <2>5. CASE ~taken
    BY <1>3, <1>5, <2>2, <2>3, <2>5 DEF moved
  <2> QED BY <2>4, <2>5
<1> QED BY <1>4, <1>5 DEF IsAnyJump, JumpTypes

(* An error leaves the machine where it is. *)
LEMMA ErrorsStopTheMachine ==
  ASSUME NEW n \in Nat, NEW m \in Machine(n), m.error = "none", NEW x, Fits(x),
         Execute(m, x).error # "none"
  PROVE  Execute(m, x).pc = m.pc
<1> DEFINE r == Execute(m, x)
<1>1. /\ Continue(m).error = "none" /\ \A s, v : Write(m, s, v).error = "none"
      /\ \A p : JumpTo(m, p).error = "none"
      /\ \A s : External(m, x, s).error # "none" => External(m, x, s).pc = m.pc
      /\ \A e : Raise(m, e).pc = m.pc
  <2>1. 0 \in 0 .. 0 /\ 0 \in Nat
    OBVIOUS
  <2> QED BY <2>1, ElementaryMoves
<1>2. (\E e : r = Raise(m, e)) \/ r.pc = m.pc
  <2>1. r.error # "none"
    OBVIOUS
  <2> HIDE DEF r
  <2>2. \/ \E v \in Value : x.type \in Writers /\ r = Write(m, x.args[1], v)
        \/ x.type # "jump" /\ r = Continue(m)
        \/ \E e \in Errors \ {"none"} : r = Raise(m, e)
        \/ IsAnyJump(x) /\ r = JumpTo(m, Destination(x))
        \/ ~IsAnyJump(x) /\ r = External(m, x, LocalsOf(x, {"read_write"}))
        \/ x.type = "bind" /\ r = External(m, x, {})
        \/ /\ x.type = "bind" /\ r = External(m, x, {x.args[1]})
           /\ m.locals[x.args[1]].type = "function_ptr"
    BY ExecuteCases DEF r
  <2> QED BY <1>1, <2>1, <2>2
<1> QED BY <1>1, <1>2

(* A step moves with the code it runs. *)
LEMMA DeadCodeStep ==
  ASSUME NEW c, IsCode(c), NEW m \in Machine(Len(c)), Reached(c, m)
  PROVE  /\ Step(RemoveInstructions(c, Removed(c)), Moved(c, m)) = Moved(c, Step(c, m))
         /\ Reached(c, Step(c, m))
         /\ Halted(RemoveInstructions(c, Removed(c)), Moved(c, m)) <=> Halted(c, m)
<1> DEFINE new == RemoveInstructions(c, Removed(c))
           P(i) == NewPosition(c, Removed(c), i)
           R == ReachableInstructions(c)
           moved == Moved(c, m)
           r == Step(c, m)
           i == m.pc
           x == At(c, i)
           y == At(new, P(i))
<1>1. /\ IsCode(new) /\ Len(c) \in Nat /\ Len(new) \in Nat /\ P(Len(c)) = Len(new)
      /\ i \in R \cup {Len(c)} /\ P(i) \in 0 .. Len(new)
      /\ i # Len(c) => i \in R /\ P(i) < Len(new)
  BY DeadCodeMoves DEF Reached
<1>2. /\ moved = AtPosition(m, P(i)) /\ moved \in Machine(Len(new))
      /\ moved.pc = P(i) /\ moved.error = m.error /\ moved.locals = m.locals
  <2>1. moved = AtPosition(m, P(i))
    BY DEF Moved
  <2> DEFINE k == Len(new)
             q == P(i)
  <2>2. k \in Nat /\ Len(c) \in Nat /\ q \in 0 .. k
    BY <1>1
  <2> HIDE DEF k, q
  <2>3. /\ AtPosition(m, q) \in Machine(k) /\ AtPosition(m, q).pc = q
        /\ AtPosition(m, q).error = m.error /\ AtPosition(m, q).locals = m.locals
    BY <2>2, ElementaryMoves
  <2> QED BY <2>1, <2>3 DEF k, q
<1>3. Halted(new, moved) <=> Halted(c, m)
  <2> HIDE DEF new, P, moved, i
  <2> QED BY <1>1, <1>2 DEF Halted, i
<1>4. CASE Halted(c, m)
  <2>1. r = m /\ Step(new, moved) = moved
    BY <1>3, <1>4 DEF Step
  <2> QED BY <1>3, <2>1
<1>5. CASE ~Halted(c, m)
  <2>1. i \in R /\ i \in Nat /\ i < Len(c) /\ i \in Positions(c) /\ m.error = "none"
    BY <1>1, <1>5, DeadCodeMoves, StepIs DEF Halted
  <2>2. Fits(x) /\ (IsAnyJump(x) => Destination(x) \in 0 .. Len(c))
    BY <2>1, CodeIs
  <2>3. y = FixUpJump(c, Removed(c), x) /\ P(i + 1) = P(i) + 1
    BY <2>1, DeadCodeMoves
  <2>4. Reads(y) = Reads(x) /\ y.type = x.type /\ (~IsAnyJump(x) => y = x)
        /\ (IsAnyJump(x) => Destination(y) = P(Destination(x)))
    <3> HIDE DEF x, y, P
    <3> QED BY <1>1, <2>2, <2>3, FixUpJumpKeeps DEF P
  <2>5. CASE \E s \in Reads(x) : m.locals[s] = Junk
    <3>1. r = Raise(m, "junk")
      BY <1>5, <2>5, StepIs
    <3>2. Step(new, moved) = Raise(moved, "junk")
      <4> HIDE DEF new, moved
      <4> QED BY <1>1, <1>2, <1>3, <1>5, <2>4, <2>5, StepIs
    <3>3. Raise(moved, "junk") = AtPosition(Raise(m, "junk"), P(i)) /\ Raise(m, "junk").pc = i
      <4> DEFINE k == Len(new)
                 q == P(i)
      <4>1. k \in Nat /\ Len(c) \in Nat /\ q \in 0 .. k
        BY <1>1
      <4> HIDE DEF k, q
      <4>2. Raise(AtPosition(m, q), "junk") = AtPosition(Raise(m, "junk"), q)
            /\ Raise(m, "junk").pc = m.pc
        BY <4>1, ElementaryMoves
      <4> QED BY <1>2, <4>2 DEF k, q
    <3>4. Moved(c, r) = AtPosition(r, P(i)) /\ Reached(c, r)
      BY <3>1, <3>3 DEF Moved, Reached
    <3> QED BY <1>3, <3>1, <3>2, <3>3, <3>4
  <2>6. CASE ~\E s \in Reads(x) : m.locals[s] = Junk
    <3>1. r = Execute(m, x)
      BY <1>5, <2>6, StepIs
    <3>2. Step(new, moved) = Execute(moved, y)
      <4> HIDE DEF new, moved
      <4> QED BY <1>1, <1>2, <1>3, <1>5, <2>4, <2>6, StepIs
    <3>3. Execute(moved, y) = Moved(c, r) /\ Reached(c, r)
      <4> DEFINE k == Len(new)
                 q == P(i)
      <4>1. k \in Nat /\ q \in 0 .. k
        BY <1>1
      <4>2. \A j \in 0 .. Len(c) : j \in Successors(c, i) => j \in R \cup {Len(c)}
        <5>1. \A j \in 0 .. Len(c) : j # Len(c) => j \in Positions(c)
          BY <1>1 DEF Positions
        <5> QED BY <2>1, <5>1, ReachableIsClosed DEF ClosedUnderFlow
      <4>3. CASE IsAnyJump(x)
        <5>1. \A a \in 2 .. Len(x.args) : y.args[a] = x.args[a]
          <6> HIDE DEF x, y, P
          <6> QED BY <2>2, <2>3, <4>3, FixUpJumpKeeps
        <5>2. \/ r.pc = Destination(x) /\ Execute(AtPosition(m, q), y) = AtPosition(r, Destination(y))
              \/ /\ x.type # "jump" /\ r.pc = i + 1
                 /\ Execute(AtPosition(m, q), y) = AtPosition(r, q + 1)
          <6> HIDE DEF x, y, k, q
          <6> QED BY <1>1, <2>1, <2>2, <2>4, <3>1, <4>1, <4>3, <5>1, JumpMoves
        <5>3. CASE r.pc = Destination(x) /\ Execute(AtPosition(m, q), y) = AtPosition(r, Destination(y))
          <6>1. Destination(x) \in Successors(c, i)
            BY <4>3 DEF Successors, IsAnyJump, JumpTypes
          <6> QED BY <1>2, <2>2, <2>4, <4>2, <4>3, <5>3, <6>1 DEF Moved, Reached
        <5>4. CASE /\ x.type # "jump" /\ r.pc = i + 1
                   /\ Execute(AtPosition(m, q), y) = AtPosition(r, q + 1)
          <6>1. i + 1 \in Successors(c, i)
            BY <4>3, <5>4 DEF Successors, IsAnyJump, JumpTypes
          <6>2. i + 1 \in 0 .. Len(c)
            BY <2>1, <1>1
          <6> QED BY <1>2, <2>3, <4>2, <5>4, <6>1, <6>2 DEF Moved, Reached
        <5> QED BY <5>2, <5>3, <5>4
      <4>4. CASE ~IsAnyJump(x)
        <5>1. Execute(moved, y) = AtPosition(r, IF r.error = "none" THEN q + 1 ELSE q)
          <6>1. Execute(AtPosition(m, q), x) = AtPosition(r, IF r.error = "none" THEN q + 1 ELSE q)
            <7> HIDE DEF x, k, q
            <7> QED BY <1>1, <2>1, <2>2, <3>1, <4>1, <4>4, ExecuteMoves
          <6> QED BY <1>2, <2>4, <4>4, <6>1
        <5>2. CASE r.error = "none"
          <6>1. r.pc = i + 1
            <7> HIDE DEF x
            <7> QED BY <1>1, <2>1, <2>2, <3>1, <4>4, <5>2, ExecuteIs
          <6>2. i + 1 \in Successors(c, i) /\ i + 1 \in 0 .. Len(c)
            <7>1. i + 1 \in Successors(c, i)
              BY <4>4 DEF Successors, IsAnyJump, JumpTypes
            <7> QED BY <7>1, <1>1, <2>1
          <6> QED BY <2>3, <4>2, <5>1, <5>2, <6>1, <6>2 DEF Moved, Reached
        <5>3. CASE r.error # "none"
          <6>1. r.pc = i
            <7> HIDE DEF x
            <7> QED BY <1>1, <2>1, <2>2, <3>1, <5>3, ErrorsStopTheMachine
          <6> QED BY <5>1, <5>3, <6>1 DEF Moved, Reached
        <5> QED BY <5>2, <5>3
      <4> QED BY <4>3, <4>4
    <3> QED BY <1>3, <3>2, <3>3
  <2> QED BY <2>5, <2>6
<1> QED BY <1>4, <1>5
(* The whole run moves with the code. *)
LEMMA DeadCodeRun ==
  ASSUME NEW c, IsCode(c), NEW parameter \in Parameters, NEW world \in Worlds, NEW k \in 0 .. Fuel
  PROVE  /\ Run(RemoveInstructions(c, Removed(c)), parameter, world)[k]
              = Moved(c, Run(c, parameter, world)[k])
         /\ Run(c, parameter, world)[k] \in Machine(Len(c))
         /\ Reached(c, Run(c, parameter, world)[k])
<1> DEFINE new == RemoveInstructions(c, Removed(c))
           old(n) == Run(c, parameter, world)[n]
           less(n) == Run(new, parameter, world)[n]
           Same(n) == less(n) = Moved(c, old(n)) /\ Reached(c, old(n))
           S == {n \in Nat : n <= Fuel => Same(n)}
<1>1. IsCode(new) /\ Len(c) \in Nat /\ Fuel \in Nat
  BY DeadCodeMoves, RunsAssumption
<1>2. 0 \in S
  <2>1. old(0) = Start(parameter, world) /\ less(0) = Start(parameter, world)
    BY <1>1, RunIs
  <2>2. Start(parameter, world).pc = 0 /\ Start(parameter, world) \in Machine(Len(c))
    BY <1>1, StartIs
  <2>3. Moved(c, Start(parameter, world)) = Start(parameter, world)
    <3>1. NewPosition(c, Removed(c), 0) = 0
      BY DeadCodeMoves
    <3> QED BY <2>2, <3>1 DEF Moved, AtPosition, Machine
  <2>4. Reached(c, Start(parameter, world))
    <3>1. 0 # Len(c) => 0 \in Positions(c)
      BY <1>1 DEF Positions
    <3> QED BY <2>2, <3>1, ReachableIsClosed DEF Reached, ClosedUnderFlow
  <2> QED BY <2>1, <2>3, <2>4
<1>3. ASSUME NEW n \in Nat, n \in S PROVE n + 1 \in S
  <2> SUFFICES ASSUME n + 1 <= Fuel PROVE Same(n + 1)
    OBVIOUS
  <2>1. n \in 0 .. Fuel /\ n + 1 \in 1 .. Fuel /\ (n + 1) - 1 = n
    BY <1>1
  <2>2. old(n) \in Machine(Len(c))
    <3>1. Run(c, parameter, world) \in [0 .. Fuel -> Machine(Len(c))]
      BY RunIs
    <3> QED BY <2>1, <3>1
  <2>3. old(n + 1) = Step(c, old(n)) /\ less(n + 1) = Step(new, less(n))
    <3>1. Run(c, parameter, world)[n + 1] = Step(c, Run(c, parameter, world)[(n + 1) - 1])
      BY <2>1, RunIs
    <3>2. Run(new, parameter, world)[n + 1] = Step(new, Run(new, parameter, world)[(n + 1) - 1])
      BY <1>1, <2>1, RunIs
    <3> QED BY <2>1, <3>1, <3>2
  <2>4. Same(n)
    <3>1. n <= Fuel
      BY <2>1
    <3> QED BY <1>3, <3>1
  <2> HIDE DEF old, less
  <2> QED BY <2>2, <2>3, <2>4, DeadCodeStep
<1>4. \A n \in Nat : n \in S
  <2> HIDE DEF S
  <2> QED BY <1>2, <1>3, InductionOnNat
<1>5. k \in Nat /\ k <= Fuel
  BY <1>1
<1>6. Same(k)
  <2> HIDE DEF Same
  <2> QED BY <1>4, <1>5
<1> QED BY <1>6, RunIs

(* Removing what control flow cannot reach leaves no trace: not in the     *)
(* result, not in an error, not in what the run does to the world.         *)
THEOREM DeadCodeRemovalIsCorrect == Spec => DeadCodeRemovalKeepsMeaning
<1>1. ASSUME IsCode(code), RemoveDeadCode PROVE KeepsMeaning(code, code', {})
  <2> DEFINE new == RemoveInstructions(code, Removed(code))
  <2>1. ASSUME NEW parameter \in Parameters, NEW world \in Worlds
        PROVE  Behaviour(new, parameter, world) = Behaviour(code, parameter, world)
    <3> DEFINE m == Run(code, parameter, world)[Fuel]
    <3>1. Fuel \in 0 .. Fuel
      BY RunsAssumption
    <3>2. Run(new, parameter, world)[Fuel] = Moved(code, m) /\ m \in Machine(Len(code))
          /\ Reached(code, m)
      BY <1>1, <3>1, DeadCodeRun
    <3>3. Halted(new, Moved(code, m)) <=> Halted(code, m)
      <4> HIDE DEF m
      <4> QED BY <1>1, <3>2, DeadCodeStep
    <3>4. Moved(code, m).error = m.error /\ Moved(code, m).events = m.events
          /\ Moved(code, m).locals = m.locals
      <4> HIDE DEF m
      <4> QED BY <3>2 DEF Moved, AtPosition, Machine
    <3> HIDE DEF new
    <3> QED BY <3>2, <3>3, <3>4 DEF Behaviour
  <2>2. code' = new
    BY <1>1 DEF RemoveDeadCode, Removed
  <2> HIDE DEF new
  <2>3. KeepsMeaning(code, new, {})
    BY <2>1 DEF KeepsMeaning
  <2> QED BY <2>2, <2>3
<1>2. IsCode(code) /\ [Next]_code => [RemoveDeadCode => KeepsMeaning(code, code', {})]_code
  BY <1>1
<1> QED BY <1>2, CodeStaysCode, PTL DEF Spec, DeadCodeRemovalKeepsMeaning

(* What follows an instruction in the code follows it in the new code. *)
LEMMA SuccessorsMove ==
  ASSUME NEW c, IsCode(c), NEW i \in ReachableInstructions(c), NEW j \in Successors(c, i),
         j \in ReachableInstructions(c)
  PROVE  LET new == RemoveInstructions(c, Removed(c))
             P(n) == NewPosition(c, Removed(c), n)
         IN  P(j) \in Successors(new, P(i))
<1> DEFINE new == RemoveInstructions(c, Removed(c))
           P(n) == NewPosition(c, Removed(c), n)
           x == At(c, i)
           y == At(new, P(i))
<1>1. i \in Positions(c)
  BY ReachableIsClosed
<1>2. Fits(x) /\ (IsAnyJump(x) => Destination(x) \in 0 .. Len(c)) /\ Len(c) \in Nat
  BY <1>1, CodeIs
<1>3. y = FixUpJump(c, Removed(c), x) /\ P(i + 1) = P(i) + 1
  BY DeadCodeMoves
<1>4. y.type = x.type /\ (IsAnyJump(x) => Destination(y) = P(Destination(x)))
  <2> HIDE DEF x, y
  <2> QED BY <1>2, <1>3, FixUpJumpKeeps
<1>5. \/ x.type = "jump" /\ j = Destination(x) /\ IsAnyJump(x)
      \/ /\ x.type \in {"jump_if", "jump_if_not"} /\ IsAnyJump(x)
         /\ j \in {Destination(x), i + 1}
      \/ x.type \notin {"jump", "jump_if", "jump_if_not"} /\ j = i + 1
  BY DEF Successors, IsAnyJump, JumpTypes
<1>6. P(j) \in Successors(new, P(i))
  <2> HIDE DEF P, x, new
  <2> QED BY <1>3, <1>4, <1>5 DEF Successors
<1> QED BY <1>6

(* What is left is all reachable. *)
THEOREM AllDeadCodeGoes == Spec => DeadCodeIsGone
<1>1. ASSUME NEW c, IsCode(c)
      PROVE  LET new == RemoveInstructions(c, Removed(c)) IN
             ReachableInstructions(new) = Positions(new)
  <2> DEFINE new == RemoveInstructions(c, Removed(c))
             P(i) == NewPosition(c, Removed(c), i)
             R == ReachableInstructions(c)
  <2>1. ReachableInstructions(new) \subseteq Positions(new)
    BY ReachableIsClosed
  <2>2. ASSUME NEW S \in SUBSET Positions(new), ClosedUnderFlow(new, S)
        PROVE  Positions(new) \subseteq S
    <3> DEFINE T == {i \in R : P(i) \in S}
    <3>1. T \in SUBSET Positions(c)
      BY ReachableIsClosed
    <3>2. ASSUME Positions(c) # {} PROVE 0 \in T
      <4>1. 0 \in R
        BY <3>2, ReachableIsClosed DEF ClosedUnderFlow
      <4>2. P(0) = 0 /\ P(0) \in Positions(new)
        BY <4>1, DeadCodeMoves, <1>1
      <4>3. 0 \in S
        <5> HIDE DEF new, P
        <5> QED BY <2>2, <4>2 DEF ClosedUnderFlow
      <4> QED BY <4>1, <4>2, <4>3
    <3>3. ASSUME NEW i \in T, NEW j \in Successors(c, i) \cap Positions(c) PROVE j \in T
      <4>1. i \in R /\ j \in R
        BY ReachableIsClosed DEF ClosedUnderFlow
      <4>2. P(j) \in Successors(new, P(i)) /\ P(j) \in Positions(new)
        BY <4>1, <1>1, SuccessorsMove, DeadCodeMoves
      <4>3. P(i) \in S
        OBVIOUS
      <4>4. P(j) \in S
        <5> HIDE DEF new, P, R
        <5> QED BY <2>2, <4>2, <4>3 DEF ClosedUnderFlow
      <4> QED BY <4>1, <4>4
    <3>4. R \subseteq T
      <4>1. ClosedUnderFlow(c, T)
        <5> HIDE DEF T
        <5> QED BY <3>2, <3>3 DEF ClosedUnderFlow
      <4> HIDE DEF T
      <4> QED BY <3>1, <4>1, ReachableIsClosed
    <3>5. \A n \in Positions(new) : \E i \in R : P(i) = n
      BY <1>1, DeadCodeMoves
    <3> QED BY <3>4, <3>5
  <2> HIDE DEF new
  <2>3. Positions(new) \subseteq ReachableInstructions(new)
    BY <2>2 DEF ReachableInstructions
  <2> QED BY <2>1, <2>3 DEF new
<1>2. ASSUME IsCode(code), RemoveDeadCode
      PROVE  ReachableInstructions(code') = Positions(code')
  <2>1. code' = RemoveInstructions(code, Removed(code))
    BY <1>2 DEF RemoveDeadCode, Removed
  <2> QED BY <1>1, <1>2, <2>1
<1>3. IsCode(code) /\ [Next]_code
        => [RemoveDeadCode => ReachableInstructions(code') = Positions(code')]_code
  <2> SUFFICES ASSUME IsCode(code), [Next]_code, RemoveDeadCode
               PROVE  ReachableInstructions(code') = Positions(code')
    OBVIOUS
  <2> QED BY <1>2
<1> QED BY <1>3, CodeStaysCode, PTL DEF Spec, DeadCodeIsGone

-----------------------------------------------------------------------------
(* Sections. *)

(* A section ends, at the first position that can end it. *)
LEMMA SectionEndIs ==
  ASSUME NEW c, Len(c) \in Nat, NEW begin \in 0 .. Len(c) - 1
  PROVE  /\ SectionEnd(c, begin) \in begin + 1 .. Len(c)
         /\ \A i \in begin + 1 .. SectionEnd(c, begin) - 1 :
              ~IsAnyJump(At(c, i - 1)) /\ i \notin JumpDestinations(c)
         /\ \/ SectionEnd(c, begin) = Len(c)
            \/ IsAnyJump(At(c, SectionEnd(c, begin) - 1))
            \/ SectionEnd(c, begin) \in JumpDestinations(c)
<1> DEFINE ends(e) == \/ e = Len(c)
                      \/ IsAnyJump(At(c, e - 1))
                      \/ e \in JumpDestinations(c)
           First(e) == ends(e) /\ \A i \in begin + 1 .. e - 1 : ~ends(i)
           T == {e \in begin + 1 .. Len(c) : ends(e)}
<1>1. begin \in Nat /\ Len(c) \in T /\ T \in SUBSET Nat
  OBVIOUS
<1>2. PICK e \in T : \A f \in T : e <= f
  <2> HIDE DEF T
  <2> QED BY <1>1, LeastNatural
<1>3. e \in begin + 1 .. Len(c) /\ First(e)
  <2>1. \A i \in begin + 1 .. e - 1 : i \in begin + 1 .. Len(c) /\ ~(e <= i)
    BY <1>1
  <2> HIDE DEF ends
  <2> QED BY <1>2, <2>1
<1>4. SectionEnd(c, begin) = CHOOSE f \in begin + 1 .. Len(c) : First(f)
  BY DEF SectionEnd
<1>5. SectionEnd(c, begin) \in begin + 1 .. Len(c) /\ First(SectionEnd(c, begin))
  <2> HIDE DEF First
  <2> QED BY <1>3, <1>4
<1> QED BY <1>5

(* Sections begin at instructions: the first one at the first of them, and *)
(* each other one where one ends, up to the end of the code.               *)
LEMMA SectionBeginsAre ==
  ASSUME NEW c, Len(c) \in Nat
  PROVE  /\ SectionBegins(c) \subseteq 0 .. Len(c) - 1
         /\ Len(c) > 0 => 0 \in SectionBegins(c)
         /\ \A s \in SectionBegins(c) : SectionEnd(c, s) \in SectionBegins(c) \cup {Len(c)}
         /\ \A s \in SectionBegins(c) \ {0} : \E t \in SectionBegins(c) : s = SectionEnd(c, t)
<1> DEFINE N == Len(c)
           M == 0 .. N
           next(b) == IF b = N THEN N ELSE SectionEnd(c, b)
           Equation(f) == f = [n \in 0 .. N |-> IF n = 0 THEN 0
                                                ELSE IF f[n - 1] = Len(c) THEN Len(c)
                                                ELSE SectionEnd(c, f[n - 1])]
           step == [p \in (1 .. N) \X M |-> next(p[2])]
           F == CHOOSE f : Equation(f)
<1>1. \A b \in M : next(b) \in M
  BY SectionEndIs
<1>2. step \in StepFunctions(N, M) /\ 0 \in M /\ N \in Nat
  <2> HIDE DEF next
  <2> QED BY <1>1 DEF StepFunctions
<1>3. \A n \in 1 .. N, b \in M : step[<<n, b>>] = next(b)
  <2> HIDE DEF next, M
  <2> QED OBVIOUS
<1> HIDE DEF step
<1>4. PICK g \in [0 .. N -> M] : g[0] = 0 /\ \A n \in 1 .. N : g[n] = step[<<n, g[n - 1]>>]
  <2>1. Sequences(N, M, 0, step) # {}
    <3> HIDE DEF M
    <3> QED BY <1>2, RecursionExists
  <2> QED BY <2>1 DEF Sequences
<1>5. \A n \in 1 .. N : g[n] = next(g[n - 1])
  <2> TAKE n \in 1 .. N
  <2>1. g[n - 1] \in M
    BY <1>4
  <2> HIDE DEF M, next
  <2> QED BY <1>3, <1>4, <2>1
<1>6. Equation(g)
  BY <1>4, <1>5
<1>7. Equation(F)
  <2> HIDE DEF Equation
  <2> QED BY <1>6
<1>8. F[0] = 0 /\ \A n \in 1 .. N : F[n] = next(F[n - 1])
  <2> HIDE DEF F
  <2> QED BY <1>7
<1>9. F = g
  <2>1. IsFunctionOn(N, F) /\ IsFunctionOn(N, g)
    <3> HIDE DEF F
    <3> QED BY <1>7 DEF IsFunctionOn
  <2>2. Alike(N, F, g)
    <3> HIDE DEF F, next
    <3> QED BY <1>4, <1>5, <1>8 DEF Alike
  <2> HIDE DEF F
  <2> QED BY <2>1, <2>2, RecursionIsUnique
<1>10. SectionBegins(c) = {F[n] : n \in 0 .. Len(c)} \ {Len(c)}
  BY DEF SectionBegins
<1> HIDE DEF F
<1>11. SectionBegins(c) = {g[n] : n \in 0 .. N} \ {N}
  BY <1>9, <1>10
<1>12. ASSUME NEW b \in M, b # N PROVE next(b) = SectionEnd(c, b) /\ next(b) > b
  <2>1. b \in 0 .. Len(c) - 1
    BY <1>2, <1>12
  <2> QED BY <1>12, <2>1, SectionEndIs
<1>13. \A n \in Nat : n \in 0 .. N => g[n] >= n
  <2> DEFINE S == {n \in Nat : n \in 0 .. N => g[n] >= n}
  <2>1. 0 \in S
    BY <1>4
  <2>2. ASSUME NEW n \in Nat, n \in S PROVE n + 1 \in S
    <3> SUFFICES ASSUME n + 1 \in 0 .. N PROVE g[n + 1] >= n + 1
      OBVIOUS
    <3>1. n \in 0 .. N /\ n + 1 \in 1 .. N /\ (n + 1) - 1 = n /\ g[n] \in M /\ g[n] >= n
      BY <1>2, <1>4, <2>2
    <3>2. g[n + 1] = next(g[n])
      BY <1>5, <3>1
    <3>3. CASE g[n] = N
      BY <1>2, <3>1, <3>2, <3>3
    <3>4. CASE g[n] # N
      <4>1. next(g[n]) > g[n] /\ next(g[n]) \in M
        BY <1>1, <1>12, <3>1, <3>4
      <4> HIDE DEF next
      <4> QED BY <1>2, <3>1, <3>2, <4>1
    <3> QED BY <3>3, <3>4
  <2> HIDE DEF S
  <2>3. \A n \in Nat : n \in S
    BY <2>1, <2>2, InductionOnNat
  <2> QED BY <2>3 DEF S
<1>14. g[N] = N
  <2>1. N \in 0 .. N /\ g[N] \in M
    BY <1>2, <1>4
  <2>2. g[N] >= N
    BY <1>2, <1>13, <2>1
  <2> QED BY <1>2, <2>1, <2>2
<1>15. SectionBegins(c) \subseteq 0 .. N - 1
  BY <1>2, <1>4, <1>11
<1>16. N > 0 => 0 \in SectionBegins(c)
  BY <1>2, <1>4, <1>11
<1>17. ASSUME NEW s \in SectionBegins(c) PROVE SectionEnd(c, s) \in SectionBegins(c) \cup {N}
  <2>1. PICK n \in 0 .. N : s = g[n] /\ s # N /\ s \in M
    BY <1>4, <1>11
  <2>2. n + 1 \in 1 .. N /\ n + 1 \in 0 .. N /\ (n + 1) - 1 = n
    BY <1>2, <1>14, <2>1
  <2>3. g[n + 1] = SectionEnd(c, s)
    BY <1>5, <1>12, <2>1, <2>2
  <2> QED BY <1>11, <2>2, <2>3
<1>18. ASSUME NEW s \in SectionBegins(c) \ {0}
       PROVE  \E t \in SectionBegins(c) : s = SectionEnd(c, t)
  <2>1. PICK n \in 0 .. N : s = g[n] /\ s # N
    BY <1>11
  <2>2. n \in 1 .. N /\ n - 1 \in 0 .. N
    BY <1>2, <1>4, <2>1
  <2>3. s = next(g[n - 1])
    BY <1>5, <2>1, <2>2
  <2>4. g[n - 1] # N
    BY <2>1, <2>3
  <2>5. g[n - 1] \in SectionBegins(c)
    BY <1>11, <2>2, <2>4
  <2> QED BY <2>3, <2>4, <2>5
<1> QED BY <1>15, <1>16, <1>17, <1>18

Within(c, s, i) == s <= i /\ i < SectionEnd(c, s)

(* Every position is in a section. *)
LEMMA SectionsCover ==
  ASSUME NEW c, Len(c) \in Nat, NEW i \in 0 .. Len(c) - 1
  PROVE  \E s \in SectionBegins(c) : Within(c, s, i)
<1> DEFINE N == Len(c)
           Covered(n) == \E s \in SectionBegins(c) : Within(c, s, n)
           S == {n \in Nat : n < N => Covered(n)}
<1>1. ASSUME NEW s \in SectionBegins(c)
      PROVE  s \in Nat /\ SectionEnd(c, s) \in Nat /\ s < SectionEnd(c, s) /\ Within(c, s, s)
  <2>1. s \in 0 .. N - 1
    BY SectionBeginsAre
  <2>2. SectionEnd(c, s) \in s + 1 .. N
    BY <2>1, SectionEndIs
  <2> QED BY <2>1, <2>2 DEF Within
<1>2. 0 \in S
  BY <1>1, SectionBeginsAre
<1>3. ASSUME NEW n \in Nat, n \in S PROVE n + 1 \in S
  <2> SUFFICES ASSUME n + 1 < N PROVE Covered(n + 1)
    OBVIOUS
  <2>1. PICK s \in SectionBegins(c) : Within(c, s, n)
    BY <1>3
  <2>2. CASE n + 1 < SectionEnd(c, s)
    BY <1>1, <2>1, <2>2 DEF Within
  <2>3. CASE ~(n + 1 < SectionEnd(c, s))
    <3>1. SectionEnd(c, s) = n + 1
      BY <1>1, <2>1, <2>3 DEF Within
    <3>2. n + 1 \in SectionBegins(c)
      BY <3>1, SectionBeginsAre
    <3> QED BY <1>1, <3>2
  <2> QED BY <2>2, <2>3
<1>4. \A n \in Nat : n \in S
  <2> HIDE DEF S
  <2> QED BY <1>2, <1>3, InductionOnNat
<1>5. i \in Nat /\ i < N
  OBVIOUS
<1> QED BY <1>4, <1>5

(* A jump destination, and what comes after a jump, does not lie inside of *)
(* a section, and nothing else is where a section begins.                  *)
LEMMA SectionInside ==
  ASSUME NEW c, Len(c) \in Nat, NEW s \in SectionBegins(c), NEW i \in Int, Within(c, s, i)
  PROVE  /\ i \in SectionBegins(c) => i = s
         /\ i \in JumpDestinations(c) => i = s
<1>1. s \in 0 .. Len(c) - 1 /\ SectionEnd(c, s) \in s + 1 .. Len(c)
  <2>1. s \in 0 .. Len(c) - 1
    BY SectionBeginsAre
  <2> QED BY <2>1, SectionEndIs
<1>2. ASSUME i # s
      PROVE  i \notin JumpDestinations(c) /\ ~IsAnyJump(At(c, i - 1)) /\ i # Len(c) /\ i # 0
  <2>1. i \in s + 1 .. SectionEnd(c, s) - 1
    BY <1>1, <1>2 DEF Within
  <2> QED BY <1>1, <2>1, SectionEndIs
<1>3. ASSUME i \in SectionBegins(c), i # s PROVE FALSE
  <2>2. i # 0 /\ i # Len(c) /\ ~IsAnyJump(At(c, i - 1)) /\ i \notin JumpDestinations(c)
    BY <1>2, <1>3
  <2>3. PICK t \in SectionBegins(c) : i = SectionEnd(c, t)
    BY <1>3, <2>2, SectionBeginsAre
  <2>4. t \in 0 .. Len(c) - 1
    BY SectionBeginsAre
  <2> QED BY <2>2, <2>3, <2>4, SectionEndIs
<1>4. i \in JumpDestinations(c) => i = s
  BY <1>2
<1> QED BY <1>1, <1>3, <1>4

(* Where control flow may enter: where a section begins, or at the end. *)
Entries(c) == SectionBegins(c) \cup {Len(c)}

LEMMA EntriesAre ==
  ASSUME NEW c, Len(c) \in Nat
  PROVE  /\ Entries(c) \subseteq 0 .. Len(c)
         /\ JumpDestinations(c) \cap (0 .. Len(c)) \subseteq Entries(c)
         /\ \A d \in Entries(c) : SectionOf(c, d) = d
<1>1. SectionBegins(c) \subseteq 0 .. Len(c) - 1
  BY SectionBeginsAre
<1>2. ASSUME NEW d \in JumpDestinations(c), d \in 0 .. Len(c) PROVE d \in Entries(c)
  <2>1. CASE d = Len(c)
    BY <2>1 DEF Entries
  <2>2. CASE d # Len(c)
    <3>1. d \in 0 .. Len(c) - 1 /\ d \in Int
      BY <1>2, <2>2
    <3>2. PICK s \in SectionBegins(c) : Within(c, s, d)
      BY <3>1, SectionsCover
    <3> QED BY <3>1, <3>2, SectionInside DEF Entries
  <2> QED BY <2>1, <2>2
<1>3. ASSUME NEW d \in SectionBegins(c) PROVE SectionOf(c, d) = d
  <2> DEFINE Here(s) == s <= d /\ d < SectionEnd(c, s)
             t == CHOOSE s \in SectionBegins(c) : Here(s)
  <2>1. d \in 0 .. Len(c) - 1 /\ d \in Int /\ d # Len(c)
    BY <1>1
  <2>2. \E s \in SectionBegins(c) : Here(s)
    BY <2>1, SectionsCover DEF Within
  <2>3. t \in SectionBegins(c) /\ Here(t)
    <3> HIDE DEF Here
    <3> QED BY <2>2
  <2>4. SectionOf(c, d) = t
    BY <2>1 DEF SectionOf
  <2> HIDE DEF t
  <2> QED BY <2>1, <2>3, <2>4, SectionInside DEF Within
<1>4. SectionOf(c, Len(c)) = Len(c)
  BY DEF SectionOf
<1>5. Entries(c) \subseteq 0 .. Len(c)
  BY <1>1 DEF Entries
<1> QED BY <1>2, <1>3, <1>4, <1>5 DEF Entries

(* What a section leads to is what its last instruction leads to, but for  *)
(* a jump destination right after one that is no jump.                     *)
LEMMA LeadsToIs ==
  ASSUME NEW c, IsCode(c), NEW s \in SectionBegins(c)
  PROVE  LET end == SectionEnd(c, s)
             last == end - 1
         IN
         /\ last \in Positions(c) /\ s \in 0 .. last /\ end \in 1 .. Len(c) /\ end = last + 1
         /\ LeadsTo(c, end) \subseteq Entries(c)
         /\ LeadsTo(c, end) \subseteq Successors(c, last)
         /\ \/ Successors(c, last) \subseteq LeadsTo(c, end)
            \/ ~IsAnyJump(At(c, last)) /\ end \in JumpDestinations(c) \ {Len(c)}
<1> DEFINE end == SectionEnd(c, s)
           last == end - 1
           x == At(c, last)
<1>1. Len(c) \in Nat
  BY CodeIs
<1>2. s \in 0 .. Len(c) - 1 /\ s \in Nat
  BY <1>1, SectionBeginsAre
<1>3. /\ end \in s + 1 .. Len(c)
      /\ end = Len(c) \/ IsAnyJump(x) \/ end \in JumpDestinations(c)
  BY <1>1, <1>2, SectionEndIs
<1>4. last \in Positions(c) /\ s \in 0 .. last /\ end \in 1 .. Len(c) /\ end = last + 1
  <2> HIDE DEF end
  <2> QED BY <1>1, <1>2, <1>3 DEF Positions
<1>5. end \in Entries(c)
  BY <1>1, SectionBeginsAre DEF Entries
<1>6. IsAnyJump(x) => Destination(x) \in Entries(c)
  <2>1. IsAnyJump(x) => Destination(x) \in 0 .. Len(c)
    BY <1>4, CodeIs
  <2>2. IsAnyJump(x) => Destination(x) \in JumpDestinations(c)
    BY <1>4 DEF JumpDestinations
  <2> QED BY <1>1, <2>1, <2>2, EntriesAre
<1> HIDE DEF end
<1>7. CASE x.type = "jump"
  <2>1. LeadsTo(c, end) = {Destination(x)} /\ Successors(c, last) = {Destination(x)}
    BY <1>7 DEF LeadsTo, Successors
  <2>2. IsAnyJump(x)
    BY <1>7 DEF IsAnyJump, JumpTypes
  <2> QED BY <1>4, <1>6, <2>1, <2>2 DEF end
<1>8. CASE x.type \in {"jump_if", "jump_if_not"}
  <2>1. LeadsTo(c, end) = {Destination(x), end} /\ Successors(c, last) = {Destination(x), last + 1}
    BY <1>8 DEF LeadsTo, Successors
  <2>2. IsAnyJump(x)
    BY <1>8 DEF IsAnyJump, JumpTypes
  <2> QED BY <1>4, <1>5, <1>6, <2>1, <2>2 DEF end
<1>9. CASE x.type \notin {"jump", "jump_if", "jump_if_not"}
  <2>1. LeadsTo(c, end) = (IF end = Len(c) THEN {end} ELSE {}) /\ Successors(c, last) = {last + 1}
    BY <1>9 DEF LeadsTo, Successors
  <2>2. ~IsAnyJump(x)
    BY <1>9 DEF IsAnyJump, JumpTypes
  <2> QED BY <1>3, <1>4, <1>5, <2>1, <2>2 DEF end
<1> QED BY <1>7, <1>8, <1>9

(* The graph has these links, and those that are made in any case. *)
LEMMA GraphIs ==
  ASSUME NEW c, IsCode(c)
  PROVE  LET graph == DissectFunction(c)
             To(s) == LeadsTo(c, SectionEnd(c, s))
         IN
         /\ DOMAIN graph = SectionBegins(c)
         /\ \A s \in SectionBegins(c) :
              /\ graph[s].end = SectionEnd(c, s)
              /\ graph[s].destinations =
                   To(s) \cup (IF SectionEnd(c, s) = Len(c) THEN {Len(c)} ELSE {})
              /\ graph[s].origins =
                   {o \in SectionBegins(c) : s \in To(o)} \cup (IF s = 0 THEN {CallingSection} ELSE {})
<1> DEFINE sections == SectionBegins(c)
           ends == [s \in sections |-> SectionEnd(c, s)]
           To(s) == LeadsTo(c, SectionEnd(c, s))
           links == [s \in sections |-> {SectionOf(c, i) : i \in LeadsTo(c, ends[s])}]
<1>1. \A s \in sections : ends[s] = SectionEnd(c, s)
  OBVIOUS
<1>2. ASSUME NEW s \in sections PROVE links[s] = To(s)
  <2>1. \A i \in To(s) : SectionOf(c, i) = i
    BY LeadsToIs, EntriesAre, CodeIs
  <2>2. links[s] = {SectionOf(c, i) : i \in To(s)}
    BY <1>1
  <2> HIDE DEF links, To
  <2> QED BY <2>1, <2>2
<1>3. DissectFunction(c) =
        [s \in sections |->
           [end          |-> ends[s],
            destinations |-> links[s] \cup (IF ends[s] = Len(c) THEN {Len(c)} ELSE {}),
            origins      |-> {o \in sections : s \in links[o]}
                               \cup (IF s = 0 THEN {CallingSection} ELSE {})]]
  BY DEF DissectFunction
<1> HIDE DEF ends, links, To, sections
<1>4. ASSUME NEW s \in sections
      PROVE  {o \in sections : s \in links[o]} = {o \in sections : s \in To(o)}
  BY <1>2
<1> QED BY <1>1, <1>2, <1>3, <1>4 DEF To, sections

(* The sections and their links are the control flow of the instructions,  *)
(* whatever passes came before, but for the two exceptions stated.         *)
THEOREM Sections == Spec => []SectionGraphIsTheFlow
<1>1. ASSUME IsCode(code) PROVE SectionGraphIsTheFlow
  <2> DEFINE graph == DissectFunction(code)
             sections == SectionBegins(code)
             end == Len(code)
             End(s) == SectionEnd(code, s)
             To(s) == LeadsTo(code, End(s))
  <2>1. end \in Nat /\ sections \subseteq 0 .. end - 1 /\ Entries(code) = sections \cup {end}
    BY <1>1, CodeIs, SectionBeginsAre DEF Entries
  <2>2. /\ DOMAIN graph = sections
        /\ \A s \in sections :
             /\ graph[s].end = End(s)
             /\ graph[s].destinations = To(s) \cup (IF End(s) = end THEN {end} ELSE {})
             /\ graph[s].origins =
                  {o \in sections : s \in To(o)} \cup (IF s = 0 THEN {CallingSection} ELSE {})
    BY <1>1, GraphIs
  <2>3. \A s \in sections : s \in Nat /\ End(s) \in Nat /\ s < End(s) /\ End(s) <= end
    BY <1>1, <2>1, LeadsToIs
  <2>4. ASSUME NEW i \in Positions(code)
        PROVE  \E s \in sections : \A t \in sections : i \in t .. End(t) - 1 <=> t = s
    <3>1. i \in 0 .. end - 1 /\ i \in Int
      BY <2>1, <2>4 DEF Positions
    <3>2. PICK s \in sections : Within(code, s, i)
      BY <2>1, <3>1, SectionsCover
    <3>3. ASSUME NEW t \in sections, Within(code, t, i) PROVE t = s
      <4>1. s \in Int /\ t \in Int
        BY <2>3
      <4>2. Within(code, s, t) \/ Within(code, t, s)
        BY <2>3, <3>1, <3>2, <3>3 DEF Within
      <4> QED BY <2>1, <4>1, <4>2, SectionInside
    <3>4. \A t \in sections : Within(code, t, i) <=> i \in t .. End(t) - 1
      BY <2>3, <3>1 DEF Within
    <3> HIDE DEF sections, End
    <3> QED BY <3>2, <3>3, <3>4
  <2>5. ASSUME NEW s \in sections, NEW i \in s .. End(s) - 1, i # End(s) - 1
        PROVE  Successors(code, i) = {i + 1}
    <3>1. i + 1 \in s + 1 .. End(s) - 1 /\ (i + 1) - 1 = i
      BY <2>3, <2>5
    <3>2. ~IsAnyJump(At(code, i))
      BY <2>1, <3>1, SectionEndIs
    <3> QED BY <3>2 DEF Successors, IsAnyJump, JumpTypes
  <2>6. ASSUME NEW s \in sections, NEW t \in To(s)
        PROVE  /\ t \in graph[s].destinations /\ t \in Successors(code, End(s) - 1)
               /\ t # end => t \in sections /\ s \in graph[t].origins
    <3>1. t \in Successors(code, End(s) - 1) /\ t \in Entries(code)
      BY <1>1, LeadsToIs
    <3> HIDE DEF sections, To, End, graph
    <3> QED BY <2>1, <2>2, <3>1
  <2>7. ASSUME NEW s \in sections
        PROVE  \/ ~IsAnyJump(At(code, End(s) - 1)) /\ (End(s) - 1) + 1 \in JumpDestinations(code) \ {end}
               \/ Successors(code, End(s) - 1) \subseteq To(s)
    BY <1>1, <2>3, LeadsToIs
  <2>8. ASSUME NEW s \in sections, NEW t \in graph[s].destinations
        PROVE  t \in To(s) \/ (t = end /\ End(s) = end)
    BY <2>2, <2>8
  <2>9. ASSUME NEW s \in sections
        PROVE  /\ \A o \in graph[s].origins \ {CallingSection} :
                    o \in sections /\ s \in graph[o].destinations
               /\ CallingSection \in graph[s].origins <=> s = 0
    <3>1. CallingSection \notin sections
      BY <2>1 DEF CallingSection
    <3> HIDE DEF sections, To, End, graph
    <3> QED BY <2>2, <2>9, <3>1
  <2> HIDE DEF graph, sections, End, To
  <2>10. /\ \A i \in Positions(code) :
              \E s \in DOMAIN graph : \A t \in DOMAIN graph : i \in t .. graph[t].end - 1 <=> t = s
         /\ \A s \in DOMAIN graph : graph[s].end = End(s)
    <3>1. \A t \in DOMAIN graph : graph[t].end = End(t)
      BY <2>2
    <3> QED BY <2>2, <2>4, <3>1
  <2> QED BY <2>2, <2>5, <2>6, <2>7, <2>8, <2>9, <2>10
          DEF SectionGraphIsTheFlow, graph
<1> QED BY <1>1, CodeStaysCode, PTL

-----------------------------------------------------------------------------
(* Straight code: instructions whose arguments say all they read and      *)
(* write.                                                                  *)
AnyRole == {"read", "read_write"}
ConstantWrites == {"set_from_constant", "set_function", "set_null", "set_string", "new_table"}
IsStraightInstruction(x) ==
  /\ x.type \notin JumpTypes \cup {"not", "negate", "invert"}
  /\ x.type \in {"call", "call_method"} => x.args[2] = 0

(* The writes remove_no_ops looks at read nothing and write what does not  *)
(* depend on the machine.                                                  *)
LEMMA ConstantWriteIs ==
  ASSUME NEW x, Fits(x), IsStraightInstruction(x), x.type \in WriteTypes
  PROVE  /\ x.type \in ConstantWrites /\ x.args[1] \in Slot /\ Reads(x) = {}
         /\ \E v : \A m : Execute(m, x) = Write(m, x.args[1], v)
<1>1. x.type \in ConstantWrites
  BY DEF IsStraightInstruction, WriteTypes, ConstantWrites
<1>2. x.args[1] \in Slot
  BY <1>1, WritersArguments DEF ConstantWrites, Writers
<1>3. Reads(x) = {}
  BY <1>1 DEF ConstantWrites, Reads
<1>4. \E v : \A m : Execute(m, x) = Write(m, x.args[1], v)
  <2>1. CASE x.type = "set_from_constant"
    BY <2>1 DEF Execute, ComparisonTypes, ArithmeticTypes
  <2>2. CASE x.type = "set_function"
    BY <2>2 DEF Execute, ComparisonTypes, ArithmeticTypes
  <2>3. CASE x.type = "set_null"
    BY <2>3 DEF Execute, ComparisonTypes, ArithmeticTypes
  <2>4. CASE x.type = "set_string"
    BY <2>4 DEF Execute, ComparisonTypes, ArithmeticTypes
  <2>5. CASE x.type = "new_table"
    BY <2>5 DEF Execute, ComparisonTypes, ArithmeticTypes
  <2> QED BY <1>1, <2>1, <2>2, <2>3, <2>4, <2>5 DEF ConstantWrites
<1> QED BY <1>1, <1>2, <1>3, <1>4

(* Of the others it sees all they read, and all they write is among it.    *)
LEMMA ReadsAreSeen ==
  ASSUME NEW x, Fits(x), IsStraightInstruction(x), x.type \notin WriteTypes
  PROVE  /\ Reads(x) \subseteq LocalsOf(x, AnyRole)
         /\ LocalsOf(x, {"read_write"}) \subseteq LocalsOf(x, AnyRole)
         /\ LocalsOf(x, AnyRole) \subseteq Slot
         /\ x.type \in Writers => x.args[1] \in LocalsOf(x, AnyRole)
         /\ x.type = "bind" => x.args[1] \in LocalsOf(x, AnyRole)
<1> DEFINE types == ArgumentTypes(x.type)
<1>1. LocalsOf(x, {"read_write"}) \subseteq LocalsOf(x, AnyRole)
      /\ LocalsOf(x, AnyRole) \subseteq Slot
  BY DEF LocalsOf, AnyRole, Fits
<1>2. ASSUME NEW k \in DOMAIN types, types[k] \in AnyRole
      PROVE  x.args[k] \in LocalsOf(x, AnyRole)
  BY <1>2 DEF LocalsOf
<1>3. x.type \in Writers => x.args[1] \in LocalsOf(x, AnyRole)
  BY <1>1, WritersArguments
<1>4. CASE x.type \in {"nothing", "jump", "set_from_constant", "set_null", "set_function",
                       "set_string", "current_function", "new_table"}
  BY <1>1, <1>3, <1>4 DEF Reads
<1>5. CASE x.type = "copy"
  <2>1. types = <<"read_write", "read">>
    BY <1>5 DEF ArgumentTypes, ReadWriteOne, WithConstant, BinaryTypes
  <2>2. x.args[2] \in LocalsOf(x, AnyRole)
    <3> HIDE DEF types
    <3> QED BY <1>2, <2>1 DEF AnyRole
  <2> QED BY <1>1, <1>3, <1>5, <2>2 DEF Reads
<1>6. CASE x.type = "call"
  <2>1. types = <<"read_write", "constant">>
    BY <1>6 DEF ArgumentTypes, ReadWriteOne, WithConstant, BinaryTypes
  <2>2. x.args[1] \in LocalsOf(x, AnyRole)
    <3> HIDE DEF types
    <3> QED BY <1>2, <2>1 DEF AnyRole
  <2>3. x.args[1] \in Int /\ x.args[2] = 0
    BY <1>1, <1>6, <2>2, RunsAssumption DEF Slot, IsStraightInstruction
  <2>4. Reads(x) = x.args[1] .. x.args[1]
    BY <1>6, <2>3 DEF Reads
  <2> QED BY <1>1, <1>3, <1>6, <2>2, <2>3, <2>4
<1>7. CASE x.type = "call_method"
  <2>1. types = <<"read_write", "constant", "read">>
    BY <1>7 DEF ArgumentTypes, ReadWriteOne, WithConstant, BinaryTypes, JumpTypes
  <2>2. x.args[1] \in LocalsOf(x, AnyRole) /\ x.args[3] \in LocalsOf(x, AnyRole)
    <3> HIDE DEF types
    <3> QED BY <1>2, <2>1 DEF AnyRole
  <2>3. x.args[1] \in Int /\ x.args[2] = 0
    BY <1>1, <1>7, <2>2, RunsAssumption DEF Slot, IsStraightInstruction
  <2>4. Reads(x) = (x.args[1] .. x.args[1]) \cup {x.args[3]}
    BY <1>7, <2>3 DEF Reads
  <2> QED BY <1>1, <1>3, <1>7, <2>2, <2>3, <2>4
<1>8. CASE x.type = "get_bound"
  <2>1. types = <<"read", "constant", "read_write">>
    BY <1>8 DEF ArgumentTypes, ReadWriteOne, WithConstant, BinaryTypes
  <2>2. x.args[1] \in LocalsOf(x, AnyRole)
    <3> HIDE DEF types
    <3> QED BY <1>2, <2>1 DEF AnyRole
  <2> QED BY <1>1, <1>3, <1>8, <2>2 DEF Reads
<1>9. CASE x.type = "get_element"
  <2>1. types = <<"read", "read", "read_write">>
    BY <1>9 DEF ArgumentTypes, ReadWriteOne, WithConstant, BinaryTypes
  <2>2. x.args[1] \in LocalsOf(x, AnyRole) /\ x.args[2] \in LocalsOf(x, AnyRole)
    <3> HIDE DEF types
    <3> QED BY <1>2, <2>1 DEF AnyRole
  <2> QED BY <1>1, <1>3, <1>9, <2>2 DEF Reads
<1>10. CASE x.type \notin {"nothing", "jump", "set_from_constant", "set_null", "set_function",
                           "set_string", "current_function", "new_table", "copy", "call",
                           "call_method", "get_bound", "get_element"}
  <2>1. Reads(x) = LocalsOf(x, AnyRole)
    BY <1>10 DEF Reads, AnyRole
  <2>2. ASSUME x.type = "bind" PROVE x.args[1] \in LocalsOf(x, AnyRole)
    <3>1. types = <<"read", "constant", "read">>
      BY <2>2 DEF ArgumentTypes, ReadWriteOne, WithConstant, BinaryTypes
    <3> HIDE DEF types
    <3> QED BY <1>2, <3>1 DEF AnyRole
  <2> QED BY <1>1, <1>3, <2>1, <2>2
<1> QED BY <1>4, <1>5, <1>6, <1>7, <1>8, <1>9, <1>10

(* Two machines that differ in the content of some slots, and perhaps in   *)
(* where they are.                                                         *)
SameBut(S, m, r) ==
  /\ m.error = r.error /\ m.events = r.events /\ m.world = r.world
  /\ \A s \in Slot \ S : m.locals[s] = r.locals[s]

(* Two outcomes of one instruction. *)
GoOnAlike(S, m, r, a, b) ==
  /\ SameBut(S, a, b)
  /\ a.pc = (IF a.error = "none" THEN m.pc + 1 ELSE m.pc)
  /\ b.pc = (IF a.error = "none" THEN r.pc + 1 ELSE r.pc)

LEMMA ElementaryAgreement ==
  ASSUME NEW n \in Nat, NEW m \in Machine(n), NEW k \in Nat, NEW r \in Machine(k),
         NEW S, m.error = "none", SameBut(S, m, r)
  PROVE  /\ GoOnAlike(S, m, r, Continue(m), Continue(r))
         /\ \A s \in Slot : \A v : GoOnAlike(S, m, r, Write(m, s, v), Write(r, s, v))
         /\ \A s \in Slot : \A v : GoOnAlike(S \ {s}, m, r, Write(m, s, v), Write(r, s, v))
         /\ \A e \in Errors \ {"none"} : GoOnAlike(S, m, r, Raise(m, e), Raise(r, e))
         /\ \A x, results : (Fits(x) /\ Reads(x) \cap S = {})
              => GoOnAlike(S, m, r, External(m, x, results), External(r, x, results))
<1>1. /\ m = [pc |-> m.pc, error |-> m.error, events |-> m.events, world |-> m.world,
              locals |-> m.locals]
      /\ r = [pc |-> r.pc, error |-> r.error, events |-> r.events, world |-> r.world,
              locals |-> r.locals]
      /\ m.locals \in [Slot -> Value] /\ r.locals \in [Slot -> Value]
  BY DEF Machine
<1>2. m.error = "none" /\ r.error = "none" /\ m.events = r.events /\ m.world = r.world
      /\ \A s \in Slot \ S : m.locals[s] = r.locals[s]
  BY DEF SameBut
<1>3. GoOnAlike(S, m, r, Continue(m), Continue(r))
  BY <1>1, <1>2 DEF GoOnAlike, SameBut, Continue
<1>4. ASSUME NEW s \in Slot, NEW v
      PROVE  /\ GoOnAlike(S, m, r, Write(m, s, v), Write(r, s, v))
             /\ GoOnAlike(S \ {s}, m, r, Write(m, s, v), Write(r, s, v))
  <2>1. /\ Write(m, s, v).pc = m.pc + 1 /\ Write(m, s, v).error = "none"
        /\ Write(m, s, v).events = m.events /\ Write(m, s, v).world = m.world
        /\ Write(r, s, v).pc = r.pc + 1 /\ Write(r, s, v).error = "none"
        /\ Write(r, s, v).events = r.events /\ Write(r, s, v).world = r.world
    BY <1>1, <1>2 DEF Write, Continue
  <2>2. /\ Write(m, s, v).locals[s] = v /\ Write(r, s, v).locals[s] = v
        /\ \A t \in Slot \ {s} : /\ Write(m, s, v).locals[t] = m.locals[t]
                                 /\ Write(r, s, v).locals[t] = r.locals[t]
    BY WriteIs
  <2> QED BY <1>2, <2>1, <2>2 DEF GoOnAlike, SameBut
<1>5. \A e \in Errors \ {"none"} : GoOnAlike(S, m, r, Raise(m, e), Raise(r, e))
  BY <1>1, <1>2 DEF GoOnAlike, SameBut, Raise
<1>6. ASSUME NEW x, NEW results, Fits(x), Reads(x) \cap S = {}
      PROVE  GoOnAlike(S, m, r, External(m, x, results), External(r, x, results))
  <2> DEFINE a == External(m, x, results)
             b == External(r, x, results)
             all == EventsAfter(m, x)
             here == LocalsAfter(m, x, results)
             there == LocalsAfter(r, x, results)
  <2>1. EventsAfter(r, x) = all
    <3>1. \A s \in Reads(x) : m.locals[s] = r.locals[s]
      BY <1>2, <1>6 DEF Fits
    <3> QED BY <1>2, <3>1 DEF EventsAfter
  <2>2. AnswerTo(m, x) = AnswerTo(r, x) /\ (Refused(m, x) <=> Refused(r, x))
    BY <1>2, <2>1 DEF AnswerTo, Refused
  <2>3. \A s \in Slot \ S : here[s] = there[s]
    BY <1>2, <2>2 DEF LocalsAfter
  <2> HIDE DEF a, b, all, here, there
  <2>4. CASE Refused(m, x)
    <3>1. a = [pc |-> m.pc, error |-> "failed", events |-> all, world |-> m.world,
               locals |-> m.locals]
      BY <2>4, ExternalIs DEF a, all
    <3>2. b = [pc |-> r.pc, error |-> "failed", events |-> all, world |-> r.world,
               locals |-> r.locals]
      BY <2>1, <2>2, <2>4, ExternalIs DEF b
    <3> QED BY <1>2, <3>1, <3>2 DEF GoOnAlike, SameBut, a, b
  <2>5. CASE ~Refused(m, x)
    <3>1. a = [pc |-> m.pc + 1, error |-> m.error, events |-> all, world |-> m.world,
               locals |-> here]
      BY <2>5, ExternalIs DEF a, all, here
    <3>2. b = [pc |-> r.pc + 1, error |-> r.error, events |-> all, world |-> r.world,
               locals |-> there]
      BY <2>1, <2>2, <2>5, ExternalIs DEF b, there
    <3>3. /\ a.pc = m.pc + 1 /\ a.error = "none" /\ a.events = all /\ a.world = m.world
          /\ a.locals = here
          /\ b.pc = r.pc + 1 /\ b.error = "none" /\ b.events = all /\ b.world = r.world
          /\ b.locals = there
      BY <1>2, <3>1, <3>2
    <3>4. GoOnAlike(S, m, r, a, b)
      BY <1>2, <2>3, <3>3 DEF GoOnAlike, SameBut
    <3> QED BY <3>4 DEF a, b
  <2> QED BY <2>4, <2>5
<1> QED BY <1>3, <1>4, <1>5, <1>6

(* The operands that decide what an instruction does are among those it    *)
(* reads.                                                                  *)
LEMMA OutsideReads ==
  ASSUME NEW x, Fits(x), IsStraightInstruction(x)
  PROVE  /\ x.type \in AccessTypes => x.args[1] \in Reads(x) /\ x.args[1] \in Slot
         /\ x.type \in ArithmeticTypes => /\ x.args[1] \in Reads(x) /\ x.args[1] \in Slot
                                          /\ x.args[2] \in Reads(x) /\ x.args[2] \in Slot
<1> DEFINE types == ArgumentTypes(x.type)
           roles == {"read", "read_write"}
<1>1. Reads(x) \subseteq Slot
  BY DEF Fits
<1>2. CASE x.type \in ArithmeticTypes \cup {"load_module", "set_element"}
  <2>1. Reads(x) = LocalsOf(x, roles)
    BY <1>2 DEF Reads, ArithmeticTypes
  <2>2. types[1] \in roles /\ 1 \in DOMAIN types
        /\ (x.type \in ArithmeticTypes => types[2] \in roles /\ 2 \in DOMAIN types)
    <3>1. types \in {<<"read_write">>, <<"read", "read", "read">>, <<"read_write", "read">>}
          /\ (x.type \in ArithmeticTypes => types = <<"read_write", "read">>)
      BY <1>2 DEF ArgumentTypes, ArithmeticTypes, ReadWriteOne, WithConstant, BinaryTypes
    <3> HIDE DEF types
    <3> QED BY <3>1
  <2>3. /\ x.args[1] \in LocalsOf(x, roles)
        /\ x.type \in ArithmeticTypes => x.args[2] \in LocalsOf(x, roles)
    <3> HIDE DEF types, roles
    <3> QED BY <2>2 DEF LocalsOf, types
  <2> QED BY <1>1, <1>2, <2>1, <2>3 DEF ArithmeticTypes, AccessTypes
<1>3. CASE x.type \in {"get_bound", "get_element"}
  <2>1. x.args[1] \in Reads(x)
    BY <1>3 DEF Reads
  <2> QED BY <1>1, <1>3, <2>1 DEF ArithmeticTypes
<1>4. CASE x.type \in {"call", "call_method"}
  <2>1. x.args \in Seq(Int) /\ Len(x.args) = Len(types)
    BY DEF Fits, AllInstructions
  <2>2. Len(types) \in {2, 3}
    BY <1>4 DEF ArgumentTypes, ReadWriteOne, WithConstant, BinaryTypes
  <2>3. x.args[1] \in Int /\ x.args[2] \in Int
    <3> HIDE DEF types
    <3> QED BY <2>1, <2>2
  <2>4. x.args[1] .. x.args[1] + x.args[2] \subseteq Reads(x)
    BY <1>4 DEF Reads
  <2> QED BY <1>1, <1>4, <2>3, <2>4 DEF ArithmeticTypes, IsStraightInstruction
<1> QED BY <1>2, <1>3, <1>4 DEF AccessTypes

(* An instruction that reads none of these slots does the same in both.    *)
LEMMA ExecuteAgrees ==
  ASSUME NEW n \in Nat, NEW m \in Machine(n), NEW k \in Nat, NEW r \in Machine(k),
         NEW S, m.error = "none", SameBut(S, m, r),
         NEW x, Fits(x), IsStraightInstruction(x), x.type \notin WriteTypes,
         LocalsOf(x, AnyRole) \cap S = {}
  PROVE  GoOnAlike(S, m, r, Execute(m, x), Execute(r, x))
<1> DEFINE args == x.args
           Same(a, b) == GoOnAlike(S, m, r, a, b)
<1>1. Reads(x) \cap S = {}
  BY ReadsAreSeen
<1>2. \A s \in Slot \ S : m.locals[s] = r.locals[s]
  BY DEF SameBut
<1>3. /\ Same(Continue(m), Continue(r))
      /\ \A s \in Slot : \A v : Same(Write(m, s, v), Write(r, s, v))
      /\ \A e \in Errors \ {"none"} : Same(Raise(m, e), Raise(r, e))
      /\ \A results : Same(External(m, x, results), External(r, x, results))
  BY <1>1, ElementaryAgreement
<1> HIDE DEF Same
<1>4. CASE x.type = "current_function"
  <2>1. args[1] \in Slot
    BY <1>4, WritersArguments DEF Writers
  <2>2. Execute(m, x) = Write(m, args[1], Self) /\ Execute(r, x) = Write(r, args[1], Self)
    BY <1>4 DEF Execute, ComparisonTypes, ArithmeticTypes
  <2> QED BY <1>3, <2>1, <2>2 DEF Same
<1>5. CASE x.type = "copy"
  <2>1. args[1] \in Slot /\ args[2] \in Slot
    BY <1>5, WritersArguments DEF Writers
  <2>2. m.locals[args[2]] = r.locals[args[2]]
    <3>1. args[2] \in Reads(x)
      BY <1>5, CopyIs
    <3> QED BY <1>1, <1>2, <2>1, <3>1
  <2>3. Execute(m, x) = Write(m, args[1], m.locals[args[2]])
        /\ Execute(r, x) = Write(r, args[1], m.locals[args[2]])
    BY <1>5, <2>2, CopyIs
  <2> QED BY <1>3, <2>1, <2>3 DEF Same
<1>6. CASE x.type = "add"
  <2>1. args[1] \in Slot /\ args[2] \in Slot
    BY <1>6, WritersArguments DEF Writers
  <2>2. m.locals[args[1]] = r.locals[args[1]] /\ m.locals[args[2]] = r.locals[args[2]]
    <3>1. args[1] \in Reads(x) /\ args[2] \in Reads(x)
      BY <1>6, AddIs
    <3> QED BY <1>1, <1>2, <2>1, <3>1
  <2>3. Execute(m, x) = AddLocals(m, args[1], args[2])
        /\ Execute(r, x) = AddLocals(r, args[1], args[2])
    BY <1>6, AddIs
  <2>4. Same(AddLocals(m, args[1], args[2]), AddLocals(r, args[1], args[2]))
    BY <1>3, <2>1, <2>2 DEF AddLocals, Errors
  <2> QED BY <2>3, <2>4 DEF Same
<1>7. CASE x.type = "bind"
  <2>1. m.locals[args[1]] = r.locals[args[1]]
    BY <1>2, <1>7, ReadsAreSeen
  <2>2. Execute(m, x) = Bind(m, x) /\ Execute(r, x) = Bind(r, x)
    BY <1>7 DEF Execute, ComparisonTypes, ArithmeticTypes
  <2>3. Same(Bind(m, x), Bind(r, x))
    BY <1>3, <2>1 DEF Bind, Errors
  <2> QED BY <2>2, <2>3 DEF Same
<1>8. CASE x.type = "nothing"
  <2>1. Execute(m, x) = Continue(m) /\ Execute(r, x) = Continue(r)
    BY <1>8 DEF Execute, ComparisonTypes, ArithmeticTypes
  <2> QED BY <1>3, <2>1 DEF Same
<1>9. CASE x.type \notin {"current_function", "copy", "add", "bind", "nothing"}
  <2> DEFINE results == LocalsOf(x, {"read_write"})
  <2>1. x.type \notin Writers \cup {"nothing", "jump", "jump_if", "jump_if_not", "bind"}
    BY <1>9 DEF IsStraightInstruction, JumpTypes, WriteTypes, Writers
  <2>2. Same(External(m, x, results), External(r, x, results))
    BY <1>3
  <2> HIDE DEF results
  <2>3. ASSUME x.type \in ArithmeticTypes
        PROVE  Same(ComputeLocals(m, x), ComputeLocals(r, x))
    <3>1. m.locals[args[1]] = r.locals[args[1]] /\ m.locals[args[2]] = r.locals[args[2]]
      BY <1>1, <1>2, <2>3, OutsideReads
    <3> QED BY <1>3, <2>2, <3>1 DEF ComputeLocals, results
  <2>4. ASSUME x.type \in AccessTypes PROVE Same(Access(m, x), Access(r, x))
    <3>1. m.locals[args[1]] = r.locals[args[1]]
      BY <1>1, <1>2, <2>4, OutsideReads
    <3>2. OperandError(x.type) \in Errors \ {"none"}
      BY <2>4, OperandErrors
    <3> QED BY <1>3, <2>2, <3>1, <3>2 DEF Access, results
  <2>5. \/ Execute(m, x) = External(m, x, results) /\ Execute(r, x) = External(r, x, results)
        \/ /\ x.type \in ArithmeticTypes
           /\ Execute(m, x) = ComputeLocals(m, x) /\ Execute(r, x) = ComputeLocals(r, x)
        \/ /\ x.type \in AccessTypes
           /\ Execute(m, x) = Access(m, x) /\ Execute(r, x) = Access(r, x)
    BY <2>1, Outside DEF results
  <2> QED BY <2>2, <2>3, <2>4, <2>5 DEF Same
<1> QED BY <1>4, <1>5, <1>6, <1>7, <1>8, <1>9

-----------------------------------------------------------------------------
(* What remove_no_ops takes for unread. *)

LEMMA TrackUnreadKeepsType ==
  ASSUME NEW x, Fits(x), NEW i \in Int, NEW unread \in Knowledge
  PROVE  TrackUnread(x, i, unread) \in Knowledge
<1>1. CASE x.type \in WriteTypes
  <2>1. x.args[1] \in Int
    <3>1. x.type \in Writers
      BY <1>1 DEF WriteTypes, Writers
    <3> QED BY <3>1, WritersArguments, RunsAssumption DEF Slot
  <2> QED BY <1>1, <2>1, KnowledgeIs DEF TrackUnread
<1>2. CASE x.type \notin WriteTypes
  BY <1>2, KnowledgeIs DEF TrackUnread
<1> QED BY <1>1, <1>2

(* The recursion is well-defined. *)
LEMMA UnreadBeforeIs ==
  ASSUME NEW c, IsCode(c)
  PROVE  /\ UnreadBefore(c) \in [0 .. Len(c) -> Knowledge]
         /\ \A n \in 0 .. Len(c) :
              UnreadBefore(c)[n] = IF n = 0 \/ (n \in JumpDestinations(c) /\ n < Len(c)) THEN Empty
                                   ELSE TrackUnread(At(c, n - 1), n - 1, UnreadBefore(c)[n - 1])
<1> DEFINE N == Len(c)
           First(n) == n = 0 \/ (n \in JumpDestinations(c) /\ n < N)
           Next1(n, u) == IF First(n) THEN Empty ELSE TrackUnread(At(c, n - 1), n - 1, u)
           Equation(f) == f = [n \in 0 .. N |-> IF First(n) THEN Empty
                                                ELSE TrackUnread(At(c, n - 1), n - 1, f[n - 1])]
           step == [p \in (1 .. N) \X Knowledge |-> Next1(p[1], p[2])]
           F == UnreadBefore(c)
<1>1. N \in Nat /\ \A n \in 1 .. N : Fits(At(c, n - 1)) /\ n - 1 \in Int
  <2>1. N \in Nat /\ \A n \in 1 .. N : n - 1 \in Positions(c) /\ n - 1 \in Int
    BY CodeIs DEF Positions
  <2> QED BY <2>1, CodeIs
<1>2. \A n \in 1 .. N, u \in Knowledge : Next1(n, u) \in Knowledge
  BY <1>1, TrackUnreadKeepsType, KnowledgeIs
<1>3. step \in [(1 .. N) \X Knowledge -> Knowledge]
  BY <1>2
<1>4. \A n \in 1 .. N, u \in Knowledge : step[<<n, u>>] = Next1(n, u)
  OBVIOUS
<1>5. PICK g \in [0 .. N -> Knowledge] : /\ g[0] = Empty
                                         /\ \A n \in 1 .. N : g[n] = step[<<n, g[n - 1]>>]
  <2>1. N \in Nat /\ Empty \in Knowledge /\ step \in StepFunctions(N, Knowledge)
    BY <1>1, <1>3, KnowledgeIs DEF StepFunctions
  <2> HIDE DEF step, N
  <2>2. Sequences(N, Knowledge, Empty, step) # {}
    BY <2>1, RecursionExists
  <2> QED BY <2>2 DEF Sequences
<1>6. \A n \in 1 .. N : g[n] = Next1(n, g[n - 1])
  <2> HIDE DEF step, Next1
  <2> TAKE n \in 1 .. N
  <2>1. g[n - 1] \in Knowledge
    BY <1>1, <1>5
  <2> QED BY <1>4, <1>5, <2>1
<1>7. Equation(g)
  <2>1. \A n \in 0 .. N : n # 0 => n \in 1 .. N
    BY <1>1
  <2>2. g = [n \in 0 .. N |-> IF First(n) THEN Empty
                              ELSE TrackUnread(At(c, n - 1), n - 1, g[n - 1])]
    <3> HIDE DEF step, N
    <3> QED BY <1>5, <1>6, <2>1
  <2> QED BY <2>2
<1>8. F = CHOOSE f : Equation(f)
  BY DEF UnreadBefore
<1>9. Equation(F)
  <2> HIDE DEF F, Equation
  <2> QED BY <1>7, <1>8
<1>10. \A n \in 0 .. N : F[n] = IF First(n) THEN Empty
                                ELSE TrackUnread(At(c, n - 1), n - 1, F[n - 1])
  <2> HIDE DEF F, First
  <2> QED BY <1>9
<1>11. F[0] = Empty /\ \A n \in 1 .. N : F[n] = Next1(n, F[n - 1])
  <2> HIDE DEF F
  <2> QED BY <1>1, <1>10
<1>12. F = g
  <2>1. IsFunctionOn(N, F) /\ IsFunctionOn(N, g)
    <3> HIDE DEF F, First
    <3> QED BY <1>9 DEF IsFunctionOn
  <2>2. Alike(N, F, g)
    <3> HIDE DEF F, Next1
    <3> QED BY <1>5, <1>6, <1>11 DEF Alike
  <2> HIDE DEF F, N
  <2> QED BY <1>1, <2>1, <2>2, RecursionIsUnique
<1> HIDE DEF F, N, First
<1> QED BY <1>5, <1>10, <1>12 DEF F, N, First

(* Code without jumps, as IsStraight has it. *)
StraightCode(c) == IsCode(c) /\ IsStraight(c)

LEMMA StraightIs ==
  ASSUME NEW c, StraightCode(c)
  PROVE  /\ Len(c) \in Nat
         /\ \A i \in Positions(c) : Fits(At(c, i)) /\ IsStraightInstruction(At(c, i))
                                    /\ ~IsAnyJump(At(c, i))
         /\ UnreadBefore(c) \in [0 .. Len(c) -> Knowledge] /\ UnreadBefore(c)[0] = Empty
         /\ \A i \in Positions(c) :
              UnreadBefore(c)[i + 1] = TrackUnread(At(c, i), i, UnreadBefore(c)[i])
<1>1. IsCode(c) /\ Len(c) \in Nat
  BY CodeIs DEF StraightCode
<1>2. ASSUME NEW i \in Positions(c)
      PROVE  Fits(At(c, i)) /\ IsStraightInstruction(At(c, i)) /\ ~IsAnyJump(At(c, i))
  BY <1>1, CodeIs DEF StraightCode, IsStraight, IsStraightInstruction, IsAnyJump
<1>3. JumpDestinations(c) = {}
  BY <1>2 DEF JumpDestinations
<1>4. UnreadBefore(c)[0] = Empty
  BY <1>1, UnreadBeforeIs
<1>5. ASSUME NEW i \in Positions(c)
      PROVE  UnreadBefore(c)[i + 1] = TrackUnread(At(c, i), i, UnreadBefore(c)[i])
  <2>1. i + 1 \in 0 .. Len(c) /\ i + 1 # 0 /\ (i + 1) - 1 = i
    BY <1>1 DEF Positions
  <2>2. UnreadBefore(c)[i + 1]
          = TrackUnread(At(c, (i + 1) - 1), (i + 1) - 1, UnreadBefore(c)[(i + 1) - 1])
    BY <1>1, <1>3, <2>1, UnreadBeforeIs
  <2> QED BY <2>1, <2>2
<1> QED BY <1>1, <1>2, <1>4, <1>5, UnreadBeforeIs

(* What the tracker does to one slot. *)
LEMMA UnreadAfterWrite ==
  ASSUME NEW c, StraightCode(c), NEW i \in Positions(c), At(c, i).type \in WriteTypes
  PROVE  /\ DOMAIN UnreadBefore(c)[i + 1] = DOMAIN UnreadBefore(c)[i] \cup {At(c, i).args[1]}
         /\ UnreadBefore(c)[i + 1][At(c, i).args[1]] = i
         /\ \A s \in DOMAIN UnreadBefore(c)[i] \ {At(c, i).args[1]} :
              UnreadBefore(c)[i + 1][s] = UnreadBefore(c)[i][s]
<1> DEFINE before == UnreadBefore(c)[i]
           after == UnreadBefore(c)[i + 1]
           s == At(c, i).args[1]
<1>1. after = Update(before, s, i)
  <2>1. TrackUnread(At(c, i), i, before) = Update(before, s, i)
    BY DEF TrackUnread, WriteTypes, JumpTypes
  <2> QED BY <2>1, StraightIs
<1> HIDE DEF before, after, s
<1>2. /\ DOMAIN after = DOMAIN before \cup {s} /\ after[s] = i
      /\ \A t \in DOMAIN before \ {s} : after[t] = before[t]
  BY <1>1 DEF Update
<1> QED BY <1>2 DEF before, after, s

LEMMA UnreadAfterNothing ==
  ASSUME NEW c, StraightCode(c), NEW i \in Positions(c), At(c, i).type = "nothing"
  PROVE  UnreadBefore(c)[i + 1] = UnreadBefore(c)[i]
<1>1. TrackUnread(At(c, i), i, UnreadBefore(c)[i]) = UnreadBefore(c)[i]
  BY DEF TrackUnread, WriteTypes
<1> QED BY <1>1, StraightIs

LEMMA UnreadAfterOther ==
  ASSUME NEW c, StraightCode(c), NEW i \in Positions(c),
         At(c, i).type \notin WriteTypes \cup {"nothing"}
  PROVE  /\ DOMAIN UnreadBefore(c)[i + 1]
              = DOMAIN UnreadBefore(c)[i] \ LocalsOf(At(c, i), AnyRole)
         /\ \A s \in DOMAIN UnreadBefore(c)[i + 1] :
              UnreadBefore(c)[i + 1][s] = UnreadBefore(c)[i][s]
<1> DEFINE before == UnreadBefore(c)[i]
           after == UnreadBefore(c)[i + 1]
           seen == LocalsOf(At(c, i), AnyRole)
<1>1. after = Forget(before, seen)
  <2>1. IsStraightInstruction(At(c, i)) /\ after = TrackUnread(At(c, i), i, before)
    BY StraightIs
  <2>2. TrackUnread(At(c, i), i, before) = Forget(before, seen)
    BY <2>1 DEF TrackUnread, AnyRole, IsStraightInstruction
  <2> QED BY <2>1, <2>2
<1> HIDE DEF before, after, seen
<1>2. DOMAIN after = DOMAIN before \ seen /\ \A s \in DOMAIN after : after[s] = before[s]
  BY <1>1 DEF Forget
<1> QED BY <1>2 DEF before, after, seen

(* A write that is unread before an instruction was unread ever since.     *)
LEMMA UnreadSince ==
  ASSUME NEW c, StraightCode(c), NEW j \in 0 .. Len(c), NEW s \in DOMAIN UnreadBefore(c)[j]
  PROVE  LET p == UnreadBefore(c)[j][s] IN
         /\ p \in 0 .. j - 1 /\ At(c, p).type \in WriteTypes /\ At(c, p).args[1] = s
         /\ \A k \in p + 1 .. j : s \in DOMAIN UnreadBefore(c)[k] /\ UnreadBefore(c)[k][s] = p
<1> DEFINE U == UnreadBefore(c)
           Since(n, t, p) == /\ p \in 0 .. n - 1
                             /\ At(c, p).type \in WriteTypes /\ At(c, p).args[1] = t
                             /\ \A k \in p + 1 .. n : t \in DOMAIN U[k] /\ U[k][t] = p
           Good(n) == \A t \in DOMAIN U[n] : Since(n, t, U[n][t])
           S == {n \in Nat : n <= Len(c) => Good(n)}
<1>1. Len(c) \in Nat
  BY StraightIs
<1>2. 0 \in S
  <2>1. DOMAIN U[0] = {}
    BY StraightIs DEF Empty
  <2> QED BY <2>1
<1>3. ASSUME NEW n \in Nat, n \in S PROVE n + 1 \in S
  <2> SUFFICES ASSUME n + 1 <= Len(c), NEW t \in DOMAIN U[n + 1]
               PROVE  Since(n + 1, t, U[n + 1][t])
    OBVIOUS
  <2> DEFINE x == At(c, n)
             p == U[n + 1][t]
  <2>1. n \in Positions(c) /\ Good(n)
    BY <1>1, <1>3 DEF Positions
  <2>2. U[n + 1] = TrackUnread(x, n, U[n]) /\ IsStraightInstruction(x)
    BY <2>1, StraightIs
  <2>3. CASE x.type \in WriteTypes /\ t = x.args[1]
    <3>1. p = n
      BY <2>1, <2>3, UnreadAfterWrite
    <3>2. \A k \in n + 1 .. n + 1 : k = n + 1
      OBVIOUS
    <3>3. p \in 0 .. (n + 1) - 1
      BY <3>1
    <3> QED BY <2>3, <3>1, <3>2, <3>3
  <2>4. CASE ~ (x.type \in WriteTypes /\ t = x.args[1])
    <3>1. t \in DOMAIN U[n] /\ p = U[n][t]
      <4>1. CASE x.type \in WriteTypes
        BY <2>1, <2>4, <4>1, UnreadAfterWrite
      <4>2. CASE x.type = "nothing"
        BY <2>1, <4>2, UnreadAfterNothing
      <4>3. CASE x.type \notin WriteTypes \cup {"nothing"}
        BY <2>1, <4>3, UnreadAfterOther
      <4> QED BY <4>1, <4>2, <4>3
    <3>2. Since(n, t, p)
      BY <2>1, <3>1
    <3>3. p \in 0 .. (n + 1) - 1
      BY <3>2
    <3>4. \A k \in p + 1 .. n + 1 : k = n + 1 \/ k \in p + 1 .. n
      BY <3>2
    <3>5. \A k \in p + 1 .. n + 1 : t \in DOMAIN U[k] /\ U[k][t] = p
      <4> HIDE DEF U
      <4> QED BY <3>2, <3>4
    <3> QED BY <3>2, <3>3, <3>5
  <2> QED BY <2>3, <2>4
<1>4. \A n \in Nat : n \in S
  <2> HIDE DEF S
  <2> QED BY <1>2, <1>3, InductionOnNat
<1>5. j \in Nat /\ j <= Len(c)
  BY <1>1
<1>6. Good(j)
  <2> HIDE DEF Good
  <2> QED BY <1>4, <1>5
<1> QED BY <1>6

(* The slots that hold something else once the obsolete writes are gone.   *)
Stale(c, i) ==
  {s \in DOMAIN UnreadBefore(c)[i] : UnreadBefore(c)[i][s] \in FindObsoleteInstructions(c)}

(* What goes of straight code: instructions that do nothing, and writes    *)
(* that are unread when the next one comes, or at the end if it is not the *)
(* result.                                                                 *)
LEMMA ObsoleteIs ==
  ASSUME NEW c, StraightCode(c), NEW p \in FindObsoleteInstructions(c)
  PROVE  /\ p \in Positions(c) /\ At(c, p).type \in WriteTypes \cup {"nothing"}
         /\ At(c, p).type \in WriteTypes =>
              LET s == At(c, p).args[1] IN
              \/ \E j \in Positions(c) :
                   /\ s \in DOMAIN UnreadBefore(c)[j] /\ UnreadBefore(c)[j][s] = p
                   /\ At(c, j).type \in WriteTypes /\ At(c, j).args[1] = s
              \/ /\ s # 0 /\ s \in DOMAIN UnreadBefore(c)[Len(c)]
                 /\ UnreadBefore(c)[Len(c)][s] = p
<1> DEFINE U == UnreadBefore(c)
           overwritten ==
             {U[i][At(c, i).args[1]] :
                i \in {j \in Positions(c) : /\ At(c, j).type \in WriteTypes
                                            /\ At(c, j).args[1] \in DOMAIN U[j]}}
           neverRead == {U[Len(c)][s] : s \in DOMAIN U[Len(c)] \ {0}}
           nothings == {i \in Positions(c) : At(c, i).type = "nothing"}
           jumpsToNext == {i \in Positions(c) : IsAnyJump(At(c, i)) /\ Destination(At(c, i)) = i + 1}
<1>1. p \in overwritten \cup neverRead \cup nothings \cup jumpsToNext
  BY DEF FindObsoleteInstructions
<1>2. jumpsToNext = {}
  BY StraightIs
<1>3. Len(c) \in Nat /\ \A j \in Positions(c) : j \in 0 .. Len(c)
  BY StraightIs DEF Positions
<1>4. CASE p \in overwritten
  <2>1. PICK j \in Positions(c) : /\ At(c, j).type \in WriteTypes
                                  /\ At(c, j).args[1] \in DOMAIN U[j]
                                  /\ p = U[j][At(c, j).args[1]]
    BY <1>4
  <2> HIDE DEF overwritten
  <2>2. /\ p \in 0 .. j - 1 /\ At(c, p).type \in WriteTypes
        /\ At(c, p).args[1] = At(c, j).args[1]
    BY <1>3, <2>1, UnreadSince
  <2>3. p \in Positions(c)
    BY <1>3, <2>2 DEF Positions
  <2> QED BY <2>1, <2>2, <2>3
<1>5. CASE p \in neverRead
  <2>1. PICK s \in DOMAIN U[Len(c)] \ {0} : p = U[Len(c)][s]
    BY <1>5
  <2>2. p \in 0 .. Len(c) - 1 /\ At(c, p).type \in WriteTypes /\ At(c, p).args[1] = s
    BY <1>3, <2>1, UnreadSince
  <2> QED BY <2>1, <2>2 DEF Positions
<1>6. CASE p \in nothings
  BY <1>6 DEF WriteTypes
<1> QED BY <1>1, <1>2, <1>4, <1>5, <1>6

(* No instruction reads or keeps such a slot, and the result is not one.   *)
LEMMA StaleIsUnread ==
  ASSUME NEW c, StraightCode(c)
  PROVE  /\ \A i \in Positions(c) :
              At(c, i).type \notin WriteTypes \cup {"nothing"} =>
                /\ i \notin FindObsoleteInstructions(c)
                /\ LocalsOf(At(c, i), AnyRole) \cap Stale(c, i) = {}
         /\ 0 \notin Stale(c, Len(c))
<1> DEFINE U == UnreadBefore(c)
<1>1. Len(c) \in Nat /\ \A j \in Positions(c) : j \in 0 .. Len(c) /\ j + 1 \in 0 .. Len(c)
                                                /\ j \in Nat /\ j < Len(c)
  BY StraightIs DEF Positions
(* An obsolete write to s, unread before i, is not unread before a later   *)
(* end: that end is the next write to s, or the end of the code.           *)
<1>2. ASSUME NEW i \in 0 .. Len(c), NEW s \in Stale(c, i),
             i < Len(c) => s \notin DOMAIN U[i + 1], i = Len(c) => s = 0,
             i < Len(c) => At(c, i).type \notin WriteTypes
      PROVE  FALSE
  <2> DEFINE p == U[i][s]
  <2>1. s \in DOMAIN U[i] /\ p \in FindObsoleteInstructions(c)
    BY DEF Stale
  <2>2. /\ p \in 0 .. i - 1 /\ At(c, p).type \in WriteTypes /\ At(c, p).args[1] = s
        /\ \A k \in p + 1 .. i : s \in DOMAIN U[k] /\ U[k][s] = p
    BY <2>1, UnreadSince
  <2> HIDE DEF U, p
  <2>3. CASE \E j \in Positions(c) : /\ s \in DOMAIN U[j] /\ U[j][s] = p
                                     /\ At(c, j).type \in WriteTypes /\ At(c, j).args[1] = s
    <3>1. PICK j \in Positions(c) : /\ s \in DOMAIN U[j] /\ U[j][s] = p
                                    /\ At(c, j).type \in WriteTypes /\ At(c, j).args[1] = s
      BY <2>3
    <3>2. j \in Nat /\ j < Len(c) /\ p \in 0 .. j - 1
          /\ \A k \in p + 1 .. j : s \in DOMAIN U[k]
      BY <1>1, <3>1, UnreadSince DEF U
    <3>3. CASE i < j
      <4>1. i + 1 \in p + 1 .. j /\ i < Len(c)
        BY <1>1, <2>2, <3>2, <3>3
      <4> QED BY <1>2, <3>2, <4>1
    <3>4. CASE j < i
      <4>1. U[j + 1][s] = j
        BY <3>1, UnreadAfterWrite DEF U
      <4>2. j + 1 \in p + 1 .. i /\ p # j
        BY <2>2, <3>2, <3>4
      <4> QED BY <2>2, <4>1, <4>2
    <3>5. CASE j = i
      BY <1>2, <3>1, <3>2, <3>5
    <3> QED BY <3>2, <3>3, <3>4, <3>5
  <2>4. CASE s # 0 /\ s \in DOMAIN U[Len(c)] /\ U[Len(c)][s] = p
    <3>1. i < Len(c)
      BY <1>1, <1>2, <2>4
    <3>2. i + 1 \in p + 1 .. Len(c)
      BY <1>1, <2>2, <3>1
    <3>3. Len(c) \in 0 .. Len(c)
      BY <1>1
    <3>4. \A k \in p + 1 .. Len(c) : s \in DOMAIN U[k]
      BY <2>4, <3>3, UnreadSince DEF U
    <3> QED BY <1>2, <3>1, <3>2, <3>4
  <2> QED BY <2>1, <2>2, <2>3, <2>4, ObsoleteIs DEF U
<1>3. ASSUME NEW i \in Positions(c), At(c, i).type \notin WriteTypes \cup {"nothing"}
      PROVE  /\ i \notin FindObsoleteInstructions(c)
             /\ LocalsOf(At(c, i), AnyRole) \cap Stale(c, i) = {}
  <2>1. i \notin FindObsoleteInstructions(c)
    BY <1>3, ObsoleteIs
  <2>2. ASSUME NEW s \in LocalsOf(At(c, i), AnyRole) \cap Stale(c, i) PROVE FALSE
    <3>1. s \notin DOMAIN U[i + 1]
      BY <1>3, UnreadAfterOther
    <3> QED BY <1>1, <1>2, <1>3, <3>1
  <2> QED BY <2>1, <2>2
<1>4. ASSUME 0 \in Stale(c, Len(c)) PROVE FALSE
  BY <1>1, <1>2, <1>4
<1> QED BY <1>3, <1>4

(* How these slots change.                                                 *)
LEMMA StaleChanges ==
  ASSUME NEW c, StraightCode(c), NEW i \in Positions(c)
  PROVE  LET x == At(c, i) IN
         /\ x.type \in WriteTypes =>
              Stale(c, i + 1) = IF i \in FindObsoleteInstructions(c)
                                  THEN Stale(c, i) \cup {x.args[1]}
                                  ELSE Stale(c, i) \ {x.args[1]}
         /\ x.type \notin WriteTypes => Stale(c, i + 1) = Stale(c, i)
<1> DEFINE U == UnreadBefore(c)
           x == At(c, i)
<1> HIDE DEF U, x
<1>2. ASSUME x.type \in WriteTypes
      PROVE  Stale(c, i + 1) = IF i \in FindObsoleteInstructions(c)
                                 THEN Stale(c, i) \cup {x.args[1]}
                                 ELSE Stale(c, i) \ {x.args[1]}
  <2>1. /\ DOMAIN U[i + 1] = DOMAIN U[i] \cup {x.args[1]} /\ U[i + 1][x.args[1]] = i
        /\ \A s \in DOMAIN U[i] \ {x.args[1]} : U[i + 1][s] = U[i][s]
    BY <1>2, UnreadAfterWrite DEF U, x
  <2> QED BY <2>1 DEF Stale, U
<1>3. CASE x.type = "nothing"
  <2>1. U[i + 1] = U[i]
    BY <1>3, UnreadAfterNothing DEF U, x
  <2> QED BY <1>3, <2>1 DEF Stale, U, x, WriteTypes
<1>4. CASE x.type \notin WriteTypes \cup {"nothing"}
  <2>1. /\ DOMAIN U[i + 1] = DOMAIN U[i] \ LocalsOf(x, AnyRole)
        /\ \A s \in DOMAIN U[i + 1] : U[i + 1][s] = U[i][s]
    BY <1>4, UnreadAfterOther DEF U, x
  <2>2. LocalsOf(x, AnyRole) \cap Stale(c, i) = {}
    BY <1>4, StaleIsUnread DEF x
  <2>3. Stale(c, i + 1) = Stale(c, i)
    BY <2>1, <2>2 DEF Stale, U
  <2> QED BY <1>4, <2>3 DEF x
<1> QED BY <1>2, <1>3, <1>4 DEF x

-----------------------------------------------------------------------------
(* What goes. *)
Gone(c) == FindObsoleteInstructions(c)

(* Where the instructions that stay and the end of the code come to be.    *)
LEMMA StraightMoves ==
  ASSUME NEW c, StraightCode(c)
  PROVE  LET new == RemoveInstructions(c, Gone(c))
             P(i) == NewPosition(c, Gone(c), i)
         IN
         /\ IsCode(new) /\ Len(c) \in Nat /\ Len(new) \in Nat /\ P(0) = 0 /\ P(Len(c)) = Len(new)
         /\ \A i \in Gone(c) : i \in Nat /\ i < Len(c) /\ P(i + 1) = P(i)
         /\ \A i \in Positions(c) \ Gone(c) :
              /\ P(i) \in Positions(new) /\ P(i) \in Nat /\ P(i) < Len(new)
              /\ P(i + 1) = P(i) + 1 /\ At(new, P(i)) = At(c, i)
<1> DEFINE new == RemoveInstructions(c, Gone(c))
           P(i) == NewPosition(c, Gone(c), i)
<1>1. IsCode(c)
  BY DEF StraightCode
<1>2. IsCode(new) /\ Len(c) \in Nat /\ Len(new) \in Nat /\ P(Len(c)) = Len(new)
  BY <1>1, RemovalKeepsCode, RemovalMoves, CodeIs
<1>3. P(0) = 0
  <2>1. (0 .. 0 - 1) \ Gone(c) = {}
    OBVIOUS
  <2> QED BY <2>1, FS_EmptySet DEF NewPosition
<1>4. ASSUME NEW i \in Gone(c) PROVE i \in Nat /\ i < Len(c) /\ P(i + 1) = P(i)
  <2>1. i \in Positions(c)
    BY ObsoleteIs DEF Gone
  <2>2. i \in Nat /\ i < Len(c)
    BY <1>2, <2>1 DEF Positions
  <2> QED BY <2>2, NextPosition
<1>5. ASSUME NEW i \in Positions(c) \ Gone(c)
      PROVE  /\ P(i) \in Positions(new) /\ P(i) \in Nat /\ P(i) < Len(new)
             /\ P(i + 1) = P(i) + 1 /\ At(new, P(i)) = At(c, i)
  <2>1. i \in Nat /\ i \notin Gone(c)
    BY <1>2 DEF Positions
  <2>2. P(i + 1) = P(i) + 1
    BY <2>1, NextPosition
  <2>3. P(i) \in Positions(new) /\ At(new, P(i)) = FixUpJump(c, Gone(c), At(c, i))
    BY <1>1, RemovalMoves
  <2>4. P(i) \in Nat /\ P(i) < Len(new)
    <3> HIDE DEF P, new
    <3> QED BY <1>2, <2>3 DEF Positions
  <2>5. ~IsAnyJump(At(c, i))
    BY StraightIs
  <2> QED BY <2>2, <2>3, <2>4, <2>5 DEF FixUpJump
<1> QED BY <1>2, <1>3, <1>4, <1>5

(* A machine and one with the code that is left: the same but for what     *)
(* nobody reads.                                                           *)
Similar(c, m, r) ==
  /\ r.pc = NewPosition(c, Gone(c), m.pc)
  /\ SameBut(Stale(c, m.pc), m, r)

LEMMA AlikeIsSimilar ==
  ASSUME NEW c, StraightCode(c), NEW i \in Positions(c) \ Gone(c),
         NEW m, m.pc = i, NEW r, r.pc = NewPosition(c, Gone(c), i),
         NEW a, NEW b, NEW S, GoOnAlike(S, m, r, a, b),
         S = Stale(c, IF a.error = "none" THEN i + 1 ELSE i)
  PROVE  Similar(c, a, b)
<1>1. NewPosition(c, Gone(c), i + 1) = NewPosition(c, Gone(c), i) + 1
  BY StraightMoves
<1> QED BY <1>1 DEF GoOnAlike, Similar

(* A step that does not depend on what is not defined is a step of the     *)
(* code that is left, or was not worth one.                                *)
LEMMA StraightStep ==
  ASSUME NEW c, StraightCode(c), NEW m \in Machine(Len(c)),
         NEW r \in Machine(Len(RemoveInstructions(c, Gone(c)))),
         Similar(c, m, r), Step(c, m).error # "junk"
  PROVE  \/ Similar(c, Step(c, m), r)
         \/ Similar(c, Step(c, m), Step(RemoveInstructions(c, Gone(c)), r))
<1> DEFINE new == RemoveInstructions(c, Gone(c))
           P(j) == NewPosition(c, Gone(c), j)
           i == m.pc
           x == At(c, i)
           S == Stale(c, i)
<1>1. IsCode(c) /\ IsCode(new) /\ Len(c) \in Nat /\ Len(new) \in Nat /\ r \in Machine(Len(new))
  BY StraightMoves DEF StraightCode
<1>2. CASE Halted(c, m)
  BY <1>2 DEF Step
<1>3. CASE ~Halted(c, m)
  <2>1. i \in Positions(c) /\ m.error = "none" /\ Fits(x) /\ IsStraightInstruction(x)
    BY <1>1, <1>3, StepIs, StraightIs
  <2>2. Step(c, m) = Execute(m, x) /\ ~\E s \in Reads(x) : m.locals[s] = Junk
    <3>1. Raise(m, "junk").error = "junk"
      BY DEF Raise, Machine
    <3> QED BY <1>1, <1>3, <3>1, StepIs
  <2>3. SameBut(S, m, r) /\ r.pc = P(i)
    BY DEF Similar
  <2>4. CASE i \in Gone(c)
    <3>1. P(i + 1) = P(i) /\ x.type \in WriteTypes \cup {"nothing"}
      BY <2>4, StraightMoves, ObsoleteIs DEF Gone
    <3>2. CASE x.type = "nothing"
      <4>1. Step(c, m) = Continue(m) /\ Continue(m).pc = i + 1
            /\ Continue(m).error = m.error /\ Continue(m).events = m.events
            /\ Continue(m).locals = m.locals /\ Continue(m).world = m.world
        BY <2>2, <3>2 DEF Execute, Continue, Machine, ComparisonTypes, ArithmeticTypes
      <4>2. Stale(c, i + 1) = S
        BY <2>1, <3>2, StaleChanges DEF WriteTypes
      <4> HIDE DEF i
      <4> QED BY <2>3, <3>1, <4>1, <4>2 DEF Similar, SameBut
    <3>3. CASE x.type \in WriteTypes
      <4> DEFINE s == x.args[1]
      <4>1. PICK v : s \in Slot /\ Execute(m, x) = Write(m, s, v)
        BY <2>1, <3>3, ConstantWriteIs
      <4>2. /\ Write(m, s, v).pc = i + 1 /\ Write(m, s, v).error = m.error
            /\ Write(m, s, v).events = m.events /\ Write(m, s, v).world = m.world
            /\ \A t \in Slot \ {s} : Write(m, s, v).locals[t] = m.locals[t]
        <5>1. \A t \in Slot \ {s} : Write(m, s, v).locals[t] = m.locals[t]
          BY <1>1, <4>1, WriteIs
        <5> HIDE DEF s
        <5> QED BY <5>1 DEF Write, Continue, Machine
      <4>3. Stale(c, i + 1) = S \cup {s}
        BY <2>1, <2>4, <3>3, StaleChanges DEF Gone
      <4>4. Step(c, m) = Write(m, s, v)
        BY <2>2, <4>1
      <4> HIDE DEF i, s, S
      <4> QED BY <2>3, <3>1, <4>2, <4>3, <4>4 DEF Similar, SameBut
    <3> QED BY <3>1, <3>2, <3>3
  <2>5. CASE i \notin Gone(c)
    <3>1. /\ P(i) \in Positions(new) /\ P(i) < Len(new) /\ P(i) \in Nat /\ At(new, P(i)) = x
      BY <2>1, <2>5, StraightMoves
    <3>2. x.type # "nothing"
      BY <2>1, <2>5 DEF Gone, FindObsoleteInstructions
    <3>3. ~Halted(new, r) /\ r.pc = P(i)
      BY <1>1, <2>1, <2>3, <3>1 DEF Halted, SameBut
    <3>4. Reads(x) \cap S = {}
      <4>1. CASE x.type \in WriteTypes
        BY <2>1, <4>1, ConstantWriteIs
      <4>2. CASE x.type \notin WriteTypes
        BY <2>1, <3>2, <4>2, StaleIsUnread, ReadsAreSeen
      <4> QED BY <4>1, <4>2
    <3>5. Step(new, r) = Execute(r, x)
      <4>1. ~\E s \in Reads(x) : r.locals[s] = Junk
        <5>1. \A s \in Reads(x) : s \in Slot \ S
          BY <2>1, <3>4 DEF Fits
        <5> QED BY <2>2, <2>3, <5>1 DEF SameBut
      <4> HIDE DEF new, P, x
      <4> QED BY <1>1, <3>1, <3>3, <4>1, StepIs
    <3>6. CASE x.type \in WriteTypes
      <4> DEFINE s == x.args[1]
      <4>1. PICK v : s \in Slot /\ Execute(m, x) = Write(m, s, v) /\ Execute(r, x) = Write(r, s, v)
        BY <2>1, <3>6, ConstantWriteIs
      <4>2. GoOnAlike(S \ {s}, m, r, Write(m, s, v), Write(r, s, v))
        BY <1>1, <2>1, <2>3, <4>1, ElementaryAgreement
      <4>3. Stale(c, i + 1) = S \ {s}
        BY <2>1, <2>5, <3>6, StaleChanges DEF Gone
      <4>4. Write(m, s, v).error = "none"
        BY <2>1 DEF Write, Continue, Machine
      <4>5. Similar(c, Write(m, s, v), Write(r, s, v))
        <5> HIDE DEF s, S
        <5> QED BY <2>1, <2>3, <2>5, <4>2, <4>3, <4>4, AlikeIsSimilar
      <4> QED BY <2>2, <3>5, <4>1, <4>5
    <3>7. CASE x.type \notin WriteTypes
      <4>1. LocalsOf(x, AnyRole) \cap S = {}
        BY <2>1, <3>2, <3>7, StaleIsUnread
      <4>2. GoOnAlike(S, m, r, Execute(m, x), Execute(r, x))
        <5> HIDE DEF new, x, S
        <5> QED BY <1>1, <2>1, <2>3, <3>7, <4>1, ExecuteAgrees
      <4>3. Stale(c, i + 1) = S
        BY <2>1, <3>7, StaleChanges
      <4>4. Similar(c, Execute(m, x), Execute(r, x))
        <5> HIDE DEF x
        <5> QED BY <2>1, <2>3, <2>5, <4>2, <4>3, AlikeIsSimilar
      <4> QED BY <2>2, <3>5, <4>4
    <3> QED BY <3>6, <3>7
  <2> QED BY <2>4, <2>5
<1> QED BY <1>2, <1>3

(* What the run with the code that is left has come to when the run of the *)
(* original has made n steps.                                              *)
LEMMA StraightRun ==
  ASSUME NEW c, StraightCode(c), NEW parameter \in Parameters, NEW world \in Worlds,
         NEW n \in 0 .. Fuel,
         Run(c, parameter, world)[n].error # "junk"
  PROVE  \E k \in 0 .. n : Similar(c, Run(c, parameter, world)[n],
                                     Run(RemoveInstructions(c, Gone(c)), parameter, world)[k])
<1> DEFINE new == RemoveInstructions(c, Gone(c))
           old(j) == Run(c, parameter, world)[j]
           less(j) == Run(new, parameter, world)[j]
           Follows(j) == old(j).error # "junk" => \E k \in 0 .. j : Similar(c, old(j), less(k))
           S == {j \in Nat : j <= Fuel => Follows(j)}
<1>1. IsCode(c) /\ IsCode(new) /\ Len(c) \in Nat /\ Len(new) \in Nat /\ Fuel \in Nat
  BY StraightMoves, RunsAssumption DEF StraightCode
<1>2. 0 \in S
  <2>1. old(0) = Start(parameter, world) /\ less(0) = Start(parameter, world)
    BY <1>1, RunIs
  <2>2. Start(parameter, world).pc = 0
    BY <1>1, StartIs
  <2>3. NewPosition(c, Gone(c), 0) = 0
    BY StraightMoves
  <2>4. Similar(c, Start(parameter, world), Start(parameter, world))
    BY <2>2, <2>3 DEF Similar, SameBut
  <2>5. 0 \in 0 .. 0
    OBVIOUS
  <2> QED BY <2>1, <2>4, <2>5
<1>3. ASSUME NEW j \in Nat, j \in S PROVE j + 1 \in S
  <2> SUFFICES ASSUME j + 1 <= Fuel, old(j + 1).error # "junk"
               PROVE  \E k \in 0 .. j + 1 : Similar(c, old(j + 1), less(k))
    OBVIOUS
  <2>1. j \in 0 .. Fuel /\ j + 1 \in 1 .. Fuel /\ (j + 1) - 1 = j /\ j <= Fuel
    BY <1>1
  <2>2. old(j) \in Machine(Len(c)) /\ old(j + 1) = Step(c, old(j))
    BY <1>1, <2>1, RunIs
  <2>3. old(j).error # "junk"
    <3>1. old(j).error # "none" => old(j + 1) = old(j)
      BY <1>1, <2>1, ErrorsStay
    <3> HIDE DEF old
    <3> QED BY <3>1
  <2>4. PICK k \in 0 .. j : Similar(c, old(j), less(k))
    BY <1>3, <2>1, <2>3
  <2>5. k \in 0 .. Fuel /\ k + 1 \in 1 .. Fuel /\ (k + 1) - 1 = k
        /\ k \in 0 .. j + 1 /\ k + 1 \in 0 .. j + 1
    BY <1>1, <2>1
  <2>6. less(k) \in Machine(Len(new)) /\ less(k + 1) = Step(new, less(k))
    BY <1>1, <2>5, RunIs
  <2>7. Similar(c, old(j + 1), less(k)) \/ Similar(c, old(j + 1), less(k + 1))
    <3>1. Step(c, old(j)).error # "junk"
      BY <2>2
    <3>2. \/ Similar(c, Step(c, old(j)), less(k))
          \/ Similar(c, Step(c, old(j)), Step(new, less(k)))
      <4> HIDE DEF old, less
      <4> QED BY <2>2, <2>4, <2>6, <3>1, StraightStep
    <3> QED BY <2>2, <2>6, <3>2
  <2> HIDE DEF old, less
  <2> QED BY <2>5, <2>7
<1>4. \A j \in Nat : j \in S
  <2> HIDE DEF S
  <2> QED BY <1>2, <1>3, InductionOnNat
<1>5. n \in Nat /\ n <= Fuel
  BY <1>1
<1>6. Follows(n)
  <2> HIDE DEF Follows
  <2> QED BY <1>4, <1>5
<1> QED BY <1>6

(* A run that has halted stays as it is. *)
LEMMA HaltedStays ==
  ASSUME NEW c, IsCode(c), NEW parameter \in Parameters, NEW world \in Worlds,
         NEW k \in 0 .. Fuel,
         Halted(c, Run(c, parameter, world)[k])
  PROVE  Run(c, parameter, world)[Fuel] = Run(c, parameter, world)[k]
<1> DEFINE run(j) == Run(c, parameter, world)[j]
           S == {j \in Nat : k + j <= Fuel => run(k + j) = run(k)}
<1>1. k \in Nat /\ Fuel \in Nat
  BY RunsAssumption
<1>2. 0 \in S
  BY <1>1
<1>3. ASSUME NEW j \in Nat, j \in S PROVE j + 1 \in S
  <2> SUFFICES ASSUME k + (j + 1) <= Fuel PROVE run(k + (j + 1)) = run(k)
    OBVIOUS
  <2>1. k + (j + 1) \in 1 .. Fuel /\ (k + (j + 1)) - 1 = k + j /\ k + j <= Fuel
    BY <1>1
  <2>2. run(k + (j + 1)) = Step(c, run(k + j))
    BY <2>1, RunIs
  <2>3. run(k + j) = run(k)
    BY <1>3, <2>1
  <2>4. Step(c, run(k)) = run(k)
    BY DEF Step
  <2> QED BY <2>2, <2>3, <2>4
<1>4. \A j \in Nat : j \in S
  <2> HIDE DEF S
  <2> QED BY <1>2, <1>3, InductionOnNat
<1>5. Fuel - k \in Nat /\ k + (Fuel - k) = Fuel
  BY <1>1
<1>6. run(k + (Fuel - k)) = run(k)
  <2> HIDE DEF run
  <2> QED BY <1>1, <1>4, <1>5
<1> QED BY <1>5, <1>6

(* Both end in the same way. *)
LEMMA StraightBehaviour ==
  ASSUME NEW c, StraightCode(c), NEW parameter \in Parameters, NEW world \in Worlds,
         Behaviour(c, parameter, world).halted, Behaviour(c, parameter, world).error # "junk"
  PROVE  Behaviour(RemoveInstructions(c, Gone(c)), parameter, world)
           = Behaviour(c, parameter, world)
<1> DEFINE new == RemoveInstructions(c, Gone(c))
           m == Run(c, parameter, world)[Fuel]
<1>1. IsCode(c) /\ IsCode(new) /\ Len(c) \in Nat /\ Len(new) \in Nat /\ Fuel \in 0 .. Fuel
  BY StraightMoves, RunsAssumption DEF StraightCode
<1>2. Halted(c, m) /\ m.error # "junk"
  BY DEF Behaviour
<1>3. PICK k \in 0 .. Fuel : Similar(c, m, Run(new, parameter, world)[k])
  BY <1>1, <1>2, StraightRun
<1> DEFINE r == Run(new, parameter, world)[k]
<1>4. /\ r.pc = NewPosition(c, Gone(c), m.pc) /\ r.error = m.error /\ r.events = m.events
      /\ \A s \in Slot \ Stale(c, m.pc) : r.locals[s] = m.locals[s]
  BY <1>3 DEF Similar, SameBut
<1>5. m.error = "none" => m.pc = Len(c)
  BY <1>2 DEF Halted
<1>6. Halted(new, r)
  <2>1. NewPosition(c, Gone(c), Len(c)) = Len(new)
    BY StraightMoves
  <2> HIDE DEF r, m, new
  <2> QED BY <1>4, <1>5, <2>1 DEF Halted
<1>7. Run(new, parameter, world)[Fuel] = r
  <2> HIDE DEF new
  <2> QED BY <1>1, <1>6, HaltedStays
<1>8. m.error = "none" => r.locals[0] = m.locals[0]
  <2>1. 0 \in Slot /\ 0 \notin Stale(c, Len(c))
    BY StaleIsUnread, RunsAssumption DEF Slot
  <2> HIDE DEF r, m
  <2> QED BY <1>4, <1>5, <2>1
<1>9. Behaviour(c, parameter, world) = [halted |-> TRUE, error |-> m.error, events |-> m.events,
                                 result |-> IF m.error = "none" THEN m.locals[0] ELSE Null]
  BY <1>2 DEF Behaviour
<1>10. Behaviour(new, parameter, world) = [halted |-> TRUE, error |-> r.error, events |-> r.events,
                                    result |-> IF r.error = "none" THEN r.locals[0] ELSE Null]
  <2> HIDE DEF r, new
  <2> QED BY <1>6, <1>7 DEF Behaviour
<1> HIDE DEF r, m
<1> QED BY <1>4, <1>8, <1>9, <1>10

(* In straight code, what remove_no_ops takes away is what nobody could    *)
(* have noticed: not in the result, not in an error, not in an event.      *)
THEOREM NoOpRemovalIsCorrectOnStraightCode == Spec => NoOpRemovalKeepsMeaningOfStraightCode
<1>1. ASSUME IsCode(code), RemoveNoOps, IsStraight(code) PROVE KeepsMeaning(code, code', {})
  <2> DEFINE new == RemoveInstructions(code, Gone(code))
  <2>1. code' = new /\ StraightCode(code)
    BY <1>1 DEF RemoveNoOps, Gone, StraightCode
  <2>2. KeepsMeaning(code, new, {})
    BY <2>1, StraightBehaviour DEF KeepsMeaning
  <2> QED BY <2>1, <2>2
<1>2. IsCode(code) /\ [Next]_code
        => [RemoveNoOps /\ IsStraight(code) => KeepsMeaning(code, code', {})]_code
  BY <1>1
<1> QED BY <1>2, CodeStaysCode, PTL DEF Spec, NoOpRemovalKeepsMeaningOfStraightCode
=============================================================================

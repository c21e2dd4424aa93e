------------------------- MODULE InterpreterProofs -------------------------
(***************************************************************************)
(* The machine stays sound and leaves the slots of callers alone, whatever *)
(* complete unit it runs.                                                  *)
(***************************************************************************)
EXTENDS Interpreter, TLAPS

-----------------------------------------------------------------------------
(* Arrays of slots. *)
LEMMA PaddedIs ==
  ASSUME NEW slots, IsSequence(slots), NEW size \in Nat
  PROVE  /\ IsSequence(Padded(slots, size))
         /\ Len(Padded(slots, size)) = IF Len(slots) < size THEN size ELSE Len(slots)
         /\ \A i \in DOMAIN Padded(slots, size) :
              Padded(slots, size)[i] = IF i <= Len(slots) THEN slots[i] ELSE NullValue
<1> DEFINE n == IF Len(slots) < size THEN size ELSE Len(slots)
<1>1. n \in Nat
  BY DEF IsSequence
<1>2. Padded(slots, size) = [i \in 1 .. n |-> IF i <= Len(slots) THEN slots[i] ELSE NullValue]
  BY DEF Padded
<1>3. DOMAIN Padded(slots, size) = 1 .. n
  BY <1>2
<1>4. Len(Padded(slots, size)) = n
  BY <1>1, <1>2, <1>3
<1> QED BY <1>1, <1>2, <1>3, <1>4 DEF IsSequence

LEMMA SlotsIs ==
  ASSUME NEW slots, IsSequence(slots), NEW index \in Nat, NEW value
  PROVE  /\ IsSequence(Slots(slots, index, value))
         /\ Len(slots) <= Len(Slots(slots, index, value))
         /\ index < Len(Slots(slots, index, value))
         /\ \A i \in DOMAIN Slots(slots, index, value) :
              Slots(slots, index, value)[i] =
                IF i = index + 1 THEN value ELSE IF i <= Len(slots) THEN slots[i] ELSE NullValue
<1> DEFINE p == Padded(slots, index + 1)
           s == Slots(slots, index, value)
<1>1. /\ IsSequence(p)
      /\ Len(p) = IF Len(slots) < index + 1 THEN index + 1 ELSE Len(slots)
      /\ \A i \in DOMAIN p : p[i] = IF i <= Len(slots) THEN slots[i] ELSE NullValue
  BY PaddedIs
<1>2. s = [p EXCEPT ![index + 1] = value]
  BY DEF Slots
<1> HIDE DEF p
<1>3. DOMAIN s = DOMAIN p /\ DOMAIN p = 1 .. Len(p) /\ Len(p) \in Nat
  BY <1>1, <1>2 DEF IsSequence
<1>4. s = [i \in 1 .. Len(p) |-> IF i = index + 1 THEN value ELSE p[i]]
  BY <1>2, <1>3
<1> HIDE DEF s
<1>5. Len(s) = Len(p)
  BY <1>3, <1>4
<1>6. Len(slots) \in Nat
  BY DEF IsSequence
<1>7. IsSequence(s)
  BY <1>3, <1>4, <1>5 DEF IsSequence
<1>8. \A i \in DOMAIN s :
        s[i] = IF i = index + 1 THEN value ELSE IF i <= Len(slots) THEN slots[i] ELSE NullValue
  BY <1>1, <1>3, <1>4
<1>9. Len(slots) <= Len(s) /\ index < Len(s)
  BY <1>1, <1>5, <1>6
<1> USE DEF s
<1> QED BY <1>7, <1>8, <1>9

LEMMA InSeqIsSequence ==
  ASSUME NEW S, NEW t \in Seq(S)
  PROVE  IsSequence(t)
BY DEF IsSequence

LEMMA AppendIs ==
  ASSUME NEW s, IsSequence(s), NEW e
  PROVE  /\ IsSequence(Append(s, e))
         /\ Len(Append(s, e)) = Len(s) + 1
         /\ Append(s, e)[Len(s) + 1] = e
         /\ \A i \in DOMAIN s : Append(s, e)[i] = s[i]
<1> DEFINE S == {s[i] : i \in 1 .. Len(s)} \cup {e}
<1>1. s \in Seq(S)
  BY DEF IsSequence
<1>2. e \in S
  OBVIOUS
<1> HIDE DEF S
<1>3. Append(s, e) \in Seq(S)
  BY <1>1, <1>2
<1>4. IsSequence(Append(s, e))
  BY <1>3, InSeqIsSequence
<1>5. /\ Len(Append(s, e)) = Len(s) + 1
      /\ Append(s, e)[Len(s) + 1] = e
  BY <1>1, <1>2
<1>6. \A i \in 1 .. Len(s) : Append(s, e)[i] = s[i]
  BY <1>1, <1>2
<1>7. DOMAIN s = 1 .. Len(s)
  BY DEF IsSequence
<1> QED BY <1>4, <1>5, <1>6, <1>7

-----------------------------------------------------------------------------
(* What the invariant says of the instruction that comes next. *)
MachineInv ==
  /\ stage \in {"running", "finished", "failed"}
  /\ (stage = "failed") = (error # "")
  /\ IsComplete
  /\ SlotsAreSound
  /\ ObjectsAreSound
  /\ FramesAreNested

LEMMA TopFacts ==
  ASSUME FramesAreNested
  PROVE  /\ Len(frames) \in Nat \ {0}
         /\ DOMAIN frames = 1 .. Len(frames)
         /\ Len(frames) \in DOMAIN frames
         /\ IsSoundFrame(Top)
         /\ Top.base \in Nat /\ Top.base < Len(locals)
         /\ Top.pc \in 0 .. Len(BodyOf(Top))
<1>1. Len(frames) \in Nat /\ frames = [i \in 1 .. Len(frames) |-> frames[i]] /\ frames # <<>>
  BY DEF FramesAreNested, IsSequence
<1>2. Len(frames) # 0
  <2> SUFFICES ASSUME Len(frames) = 0 PROVE FALSE
    OBVIOUS
  <2>1. frames = [i \in 1 .. 0 |-> frames[i]]
    BY <1>1
  <2>2. frames \in Seq({})
    BY <1>1, <2>1
  <2> QED BY <1>1, <2>2
<1>3. DOMAIN frames = 1 .. Len(frames)
  BY <1>1
<1>4. Len(frames) \in DOMAIN frames
  BY <1>1, <1>2, <1>3
<1>5. IsSoundFrame(Top)
  BY <1>4 DEF FramesAreNested, Top
<1> QED BY <1>1, <1>2, <1>3, <1>4, <1>5 DEF FramesAreNested, IsSoundFrame

LEMMA UnitStays == IsComplete /\ UNCHANGED unit => IsComplete'
<1> SUFFICES ASSUME IsComplete, UNCHANGED unit PROVE IsComplete'
  OBVIOUS
<1>1. ASSUME NEW f \in DOMAIN unit.functions PROVE IsCompleteFunction(unit.functions[f])'
  <2>1. IsCompleteFunction(unit.functions[f])
    BY <1>1 DEF IsComplete
  <2> QED BY <2>1, Zenon DEF IsCompleteFunction
<1> QED BY <1>1, Zenon DEF IsComplete

LEMMA FunctionFacts ==
  ASSUME IsComplete, NEW f \in Positions(unit.functions)
  PROVE  /\ unit.functions[f + 1] \in Function
         /\ IsCompleteFunction(unit.functions[f + 1])
BY DEF IsComplete, Positions

LEMMA InstructionFacts ==
  ASSUME IsComplete, FramesAreNested, ~AtEnd
  PROVE  /\ FunctionOf(Top) \in Function
         /\ Top.pc \in 0 .. Len(BodyOf(Top)) - 1
         /\ Instruction.type \in InstructionTypes
         /\ Instruction.args \in Seq(Int)
         /\ Len(Instruction.args) = Len(ArgumentTypes(Instruction.type))
         /\ \A slot \in LocalsOf(Instruction, {"read", "read_write"}) : slot >= 0
         /\ Instruction.type \in {"call", "call_method"} => Argument(2) >= 0
<1>1. Top.function \in Positions(unit.functions) /\ Top.pc \in 0 .. Len(BodyOf(Top))
  BY TopFacts DEF IsSoundFrame
<1>2. FunctionOf(Top) \in Function /\ IsCompleteFunction(FunctionOf(Top))
  BY <1>1, FunctionFacts DEF FunctionOf
<1>3. BodyOf(Top) \in Code /\ Len(BodyOf(Top)) \in Nat /\ BodyOf(Top) = FunctionOf(Top).body
  BY <1>2 DEF BodyOf, Function, Code
<1>4. Top.pc \in 0 .. Len(BodyOf(Top)) - 1
  BY <1>1, <1>3 DEF AtEnd
<1>5. Top.pc + 1 \in DOMAIN BodyOf(Top)
  BY <1>3, <1>4 DEF Code
<1>6. Instruction = BodyOf(Top)[Top.pc + 1]
  BY DEF Instruction, At
<1>7. Instruction \in [type : InstructionTypes, args : Seq(Int)]
  <2> DEFINE Instructions == [type : InstructionTypes, args : Seq(Int)]
  <2>1. BodyOf(Top) \in Seq(Instructions)
    BY <1>3 DEF Code
  <2> HIDE DEF Instructions
  <2>2. Instruction \in Instructions
    BY <1>5, <1>6, <2>1
  <2> QED BY <2>2 DEF Instructions
<1>8. /\ Len(Instruction.args) = Len(ArgumentTypes(Instruction.type))
      /\ \A slot \in LocalsOf(Instruction, {"read", "read_write"}) : slot >= 0
      /\ Instruction.type \in {"call", "call_method"} => Instruction.args[2] >= 0
  BY <1>2, <1>3, <1>5, <1>6 DEF IsCompleteFunction
<1> QED BY <1>2, <1>4, <1>7, <1>8 DEF Argument

(* The arguments that name slots, and the counts of arguments. *)
FirstIsSlot == ReadWriteOne \cup WithConstant \cup BinaryTypes
                 \cup {"bind", "get_bound", "call_method", "set_element", "get_element"}

LEMMA ArgumentFacts ==
  ASSUME IsComplete, FramesAreNested, ~AtEnd
  PROVE  /\ Instruction.type \in FirstIsSlot => Argument(1) \in Nat
         /\ Instruction.type \in BinaryTypes => Argument(2) \in Nat
         /\ Instruction.type \in WithConstant \cup {"bind", "get_bound"} => Argument(2) \in Int
         /\ Instruction.type \in {"set_element", "get_element"} => Argument(2) \in Nat
         /\ Instruction.type \in {"bind", "get_bound", "set_element", "get_element"}
              => Argument(3) \in Nat
         /\ Instruction.type \in {"call", "call_method"} => Argument(2) \in Nat
<1> DEFINE type == Instruction.type
           args == Instruction.args
           types == ArgumentTypes(type)
<1>1. /\ type \in InstructionTypes /\ args \in Seq(Int) /\ Len(args) = Len(types)
      /\ \A slot \in LocalsOf(Instruction, {"read", "read_write"}) : slot >= 0
      /\ type \in {"call", "call_method"} => args[2] >= 0
  BY InstructionFacts DEF Argument
<1>2. ASSUME NEW k \in DOMAIN types, types[k] \in {"read", "read_write"} PROVE args[k] >= 0
  BY <1>1, <1>2 DEF LocalsOf
<1>3. ASSUME NEW n \in Nat, Len(types) = n, NEW k \in 1 .. n PROVE args[k] \in Int
  BY <1>1, <1>3
<1>4. CASE type \in ReadWriteOne
  <2>1. types = <<"read_write">>
    BY <1>4 DEF ArgumentTypes, ReadWriteOne, WithConstant, BinaryTypes
  <2>2. args[1] \in Int /\ args[1] >= 0
    BY <1>2, <1>3, <2>1
  <2> QED BY <1>4, <2>2 DEF Argument, ReadWriteOne, WithConstant, BinaryTypes
<1>5. CASE type \in WithConstant
  <2>1. types = <<"read_write", "constant">>
    BY <1>5 DEF ArgumentTypes, ReadWriteOne, WithConstant, BinaryTypes
  <2>2. args[1] \in Int /\ args[1] >= 0 /\ args[2] \in Int
    BY <1>2, <1>3, <2>1
  <2> QED BY <1>1, <1>5, <2>2 DEF Argument, WithConstant, BinaryTypes
<1>6. CASE type \in BinaryTypes
  <2>1. types = <<"read_write", "read">>
    BY <1>6 DEF ArgumentTypes, ReadWriteOne, WithConstant, BinaryTypes
  <2>2. args[1] \in Int /\ args[1] >= 0 /\ args[2] \in Int /\ args[2] >= 0
    BY <1>2, <1>3, <2>1
  <2> QED BY <1>6, <2>2 DEF Argument, WithConstant, BinaryTypes
<1>7. CASE type \in {"bind", "get_bound"}
  <2>1. types \in {<<"read", "constant", "read">>, <<"read", "constant", "read_write">>}
    BY <1>7 DEF ArgumentTypes, ReadWriteOne, WithConstant, BinaryTypes
  <2>2. /\ Len(types) = 3 /\ {1, 3} \subseteq DOMAIN types
        /\ types[1] \in {"read", "read_write"} /\ types[3] \in {"read", "read_write"}
    BY <2>1
  <2>3. args[1] \in Int /\ args[1] >= 0 /\ args[2] \in Int /\ args[3] \in Int /\ args[3] >= 0
    BY <1>2, <1>3, <2>2
  <2> QED BY <1>7, <2>3 DEF Argument, WithConstant, BinaryTypes
<1>8. CASE type \in {"set_element", "get_element"}
  <2>1. types \in {<<"read", "read", "read">>, <<"read", "read", "read_write">>}
    BY <1>8 DEF ArgumentTypes, ReadWriteOne, WithConstant, BinaryTypes
  <2>2. /\ Len(types) = 3
        /\ \A k \in 1 .. 3 : k \in DOMAIN types /\ types[k] \in {"read", "read_write"}
    BY <2>1
  <2>3. \A k \in 1 .. 3 : args[k] \in Int /\ args[k] >= 0
    BY <1>2, <1>3, <2>2
  <2> QED BY <1>8, <2>3 DEF Argument, WithConstant, BinaryTypes
<1>9. CASE type = "call_method"
  <2>1. types = <<"read_write", "constant", "read">>
    BY <1>9 DEF ArgumentTypes, ReadWriteOne, WithConstant, BinaryTypes
  <2>2. args[1] \in Int /\ args[1] >= 0 /\ args[2] \in Int
    BY <1>2, <1>3, <2>1
  <2> QED BY <1>1, <1>9, <2>2 DEF Argument, WithConstant, BinaryTypes
<1>10. CASE type \in JumpTypes \cup {"nothing"}
  BY <1>10 DEF FirstIsSlot, JumpTypes, ReadWriteOne, WithConstant, BinaryTypes
<1> QED
  BY <1>1, <1>4, <1>5, <1>6, <1>7, <1>8, <1>9, <1>10 DEF InstructionTypes

-----------------------------------------------------------------------------
(* What a step that only adds objects, or changes what is in them, keeps.  *)
HeapGrows ==
  /\ unit' = unit
  /\ IsSequence(heap')
  /\ Len(heap) <= Len(heap')
  /\ \A a \in DOMAIN heap : heap'[a].kind = heap[a].kind /\ heap'[a].function = heap[a].function

CallersKept ==
  /\ Top.base <= Len(locals')
  /\ \A i \in 1 .. Top.base : locals'[i] = locals[i]

LEMMA HeapDomain ==
  ASSUME ObjectsAreSound, HeapGrows
  PROVE  DOMAIN heap \subseteq DOMAIN heap'
<1>1. /\ Len(heap) \in Nat /\ DOMAIN heap = 1 .. Len(heap)
      /\ Len(heap') \in Nat /\ DOMAIN heap' = 1 .. Len(heap')
      /\ Len(heap) <= Len(heap')
  BY DEF ObjectsAreSound, HeapGrows, IsSequence
<1> QED BY <1>1

LEMMA ValuesStaySound ==
  ASSUME ObjectsAreSound, HeapGrows
  PROVE  \A v : IsSound(v) => IsSound(v)'
BY HeapDomain DEF HeapGrows, IsSound

LEMMA FramesStaySound ==
  ASSUME ObjectsAreSound, HeapGrows
  PROVE  \A frame : IsSoundFrame(frame) => IsSoundFrame(frame)'
<1> SUFFICES ASSUME NEW frame, IsSoundFrame(frame) PROVE IsSoundFrame(frame)'
  OBVIOUS
<1>1. unit' = unit /\ IsSound(frame.current)'
  BY ValuesStaySound DEF HeapGrows, IsSoundFrame
<1>2. ASSUME Type(frame.current) # "function"
      PROVE  /\ IsClosure(frame.current)'
             /\ Callee(frame.current)' = Callee(frame.current)
  <2>1. IsClosure(frame.current) /\ frame.current[2] \in DOMAIN heap
    BY <1>2 DEF IsSoundFrame, IsSound, IsClosure
  <2>2. /\ heap'[frame.current[2]].kind = heap[frame.current[2]].kind
        /\ heap'[frame.current[2]].function = heap[frame.current[2]].function
    BY <2>1 DEF HeapGrows
  <2> QED BY <1>2, <2>1, <2>2 DEF IsClosure, Callee
<1>3. Callee(frame.current)' = frame.function
  BY <1>2 DEF Callee, IsSoundFrame
<1>4. Type(frame.current) = "function" \/ IsClosure(frame.current)'
  BY <1>2
<1>5. /\ DOMAIN frame = {"function", "base", "pc", "current"}
      /\ frame.base \in Nat
      /\ frame.function \in Positions(unit'.functions)
      /\ frame.pc \in 0 .. Len(BodyOf(frame)')
  BY <1>1 DEF IsSoundFrame, BodyOf, FunctionOf
<1> QED BY <1>1, <1>3, <1>4, <1>5 DEF IsSoundFrame

LEMMA NoStore ==
  ASSUME MachineInv, HeapGrows, UNCHANGED locals
  PROVE  SlotsAreSound' /\ Len(locals) <= Len(locals') /\ CallersKept
<1>1. SlotsAreSound'
  BY ValuesStaySound DEF MachineInv, SlotsAreSound
<1>2. Len(locals) \in Nat
  BY DEF MachineInv, SlotsAreSound, IsSequence
<1>3. Top.base \in Nat /\ Top.base < Len(locals)
  BY TopFacts DEF MachineInv
<1> QED BY <1>1, <1>2, <1>3 DEF CallersKept

LEMMA AfterStore ==
  ASSUME MachineInv, HeapGrows, NEW slot \in Nat, NEW v, IsSound(v)', Store(slot, v)
  PROVE  SlotsAreSound' /\ Len(locals) <= Len(locals') /\ CallersKept
<1>1. Top.base \in Nat /\ Top.base < Len(locals)
  BY TopFacts DEF MachineInv
<1>2. IsSequence(locals) /\ \A i \in DOMAIN locals : IsSound(locals[i])
  BY DEF MachineInv, SlotsAreSound
<1>3. Len(locals) \in Nat /\ DOMAIN locals = 1 .. Len(locals)
  BY <1>2 DEF IsSequence
<1>4. /\ IsSequence(locals')
      /\ Len(locals) <= Len(locals')
      /\ \A i \in DOMAIN locals' :
           locals'[i] = IF i = Top.base + slot + 1 THEN v
                        ELSE IF i <= Len(locals) THEN locals[i] ELSE NullValue
  BY <1>1, <1>2, SlotsIs DEF Store
<1>5. Len(locals') \in Nat /\ DOMAIN locals' = 1 .. Len(locals')
  BY <1>4 DEF IsSequence
<1>6. IsSound(NullValue)'
  BY DEF IsSound, NullValue, Type
<1>7. \A i \in DOMAIN locals : \A w : w = locals[i] => IsSound(w)'
  BY <1>2, ValuesStaySound DEF MachineInv
<1>8. ASSUME NEW i \in DOMAIN locals' PROVE IsSound(locals[i])'
  <2> DEFINE w == locals'[i]
  <2>1. w = v \/ w = NullValue \/ (i \in DOMAIN locals /\ w = locals[i])
    BY <1>3, <1>4, <1>5
  <2>2. \A u : (u = v \/ u = NullValue \/ (i \in DOMAIN locals /\ u = locals[i])) => IsSound(u)'
    BY <1>6, <1>7
  <2> QED BY <2>1, <2>2 DEF IsSound
<1>9. SlotsAreSound'
  BY <1>4, <1>8 DEF SlotsAreSound
<1>10. CallersKept
  BY <1>1, <1>3, <1>4, <1>5 DEF CallersKept
<1> QED BY <1>4, <1>9, <1>10

-----------------------------------------------------------------------------
(* The program counter of the innermost activation moves within its code.  *)
LEMMA FramesAfterGoTo ==
  ASSUME MachineInv, HeapGrows, Len(locals) <= Len(locals'), IsSequence(locals'),
         NEW position \in 0 .. Len(BodyOf(Top)), GoTo(position)
  PROVE  FramesAreNested'
<1> DEFINE n == Len(frames)
<1>1. /\ n \in Nat \ {0} /\ DOMAIN frames = 1 .. n /\ IsSoundFrame(Top)
      /\ Top.base < Len(locals) /\ Top.base \in Nat
  BY TopFacts DEF MachineInv
<1>2. /\ frames = [i \in 1 .. n |-> frames[i]]
      /\ \A k \in DOMAIN frames : IsSoundFrame(frames[k])
      /\ frames[1].base = 0
      /\ \A k \in 1 .. n - 1 : IsCallOf(frames[k], frames[k + 1])
  BY DEF MachineInv, FramesAreNested, IsSequence
<1>3. frames' = [frames EXCEPT ![n].pc = position]
  BY DEF GoTo
<1>4. frames' = [i \in 1 .. n |-> IF i = n THEN [Top EXCEPT !.pc = position] ELSE frames[i]]
  BY <1>1, <1>2, <1>3 DEF Top
<1>5. Len(frames') = n /\ IsSequence(frames') /\ DOMAIN frames' = 1 .. n
  BY <1>1, <1>4 DEF IsSequence
<1> DEFINE top == [Top EXCEPT !.pc = position]
<1>6. /\ DOMAIN top = {"function", "base", "pc", "current"}
      /\ top.function = Top.function /\ top.base = Top.base
      /\ top.current = Top.current /\ top.pc = position
  BY <1>1 DEF IsSoundFrame
<1>7. BodyOf(top) = BodyOf(Top)
  BY <1>6 DEF BodyOf, FunctionOf
<1>8. IsSoundFrame(top)
  BY <1>1, <1>6, <1>7 DEF IsSoundFrame
<1> HIDE DEF top
<1>9. top.base = Top.base /\ frames[n] = Top /\ frames'[n] = top
      /\ \A k \in 1 .. n - 1 : frames'[k] = frames[k]
  <2>1. frames' = [i \in 1 .. n |-> IF i = n THEN top ELSE frames[i]]
    BY <1>4 DEF top
  <2>2. n \in Nat \ {0}
    BY <1>1
  <2> HIDE DEF n
  <2>5. n \in 1 .. n /\ \A k \in 1 .. n - 1 : k \in 1 .. n /\ k # n
    BY <2>2
  <2>3. frames'[n] = top /\ \A k \in 1 .. n - 1 : frames'[k] = frames[k]
    BY <2>1, <2>5
  <2>4. frames[n] = Top
    BY DEF Top, n
  <2> QED BY <1>6, <2>3, <2>4
<1>10. \A k \in DOMAIN frames' : IsSoundFrame(frames'[k])
  BY <1>1, <1>2, <1>5, <1>8, <1>9
<1>11. \A k \in 1 .. n - 1 : IsCallOf(frames'[k], frames'[k + 1])
  <2> SUFFICES ASSUME NEW k \in 1 .. n - 1 PROVE IsCallOf(frames'[k], frames'[k + 1])
    OBVIOUS
  <2>1. IsCallOf(frames[k], frames[k + 1]) /\ frames'[k] = frames[k]
    BY <1>2, <1>9
  <2>2. frames'[k + 1].base = frames[k + 1].base
    BY <1>1, <1>9
  <2> QED BY <2>1, <2>2 DEF IsCallOf
<1>12. ASSUME NEW k \in DOMAIN frames' PROVE IsSoundFrame(frames[k])'
  <2>1. \A frame : frame = frames'[k] => IsSoundFrame(frame)'
    BY <1>10, FramesStaySound DEF MachineInv
  <2> QED BY <2>1 DEF IsSoundFrame, BodyOf, FunctionOf, IsSound, IsClosure, Callee
<1>13. \A k \in 1 .. Len(frames') - 1 : IsCallOf(frames[k], frames[k + 1])'
  BY <1>5, <1>11 DEF IsCallOf, BodyOf, FunctionOf, HeapGrows
<1>14. frames'[1].base = 0
  BY <1>1, <1>2, <1>9
<1>15. Top' = top
  BY <1>5, <1>9 DEF Top
<1>16. Top'.base < Len(locals')
  <2>1. Len(locals) \in Nat /\ Len(locals') \in Nat
    BY DEF MachineInv, SlotsAreSound, IsSequence
  <2> QED BY <1>1, <1>9, <1>15, <2>1
<1>17. frames' # <<>>
  BY <1>1, <1>5
<1> QED BY <1>5, <1>12, <1>13, <1>14, <1>16, <1>17 DEF FramesAreNested

(* What an instruction that goes on to the next one has to show. *)
LEMMA NextPosition ==
  ASSUME MachineInv, ~AtEnd
  PROVE  Top.pc + 1 \in 0 .. Len(BodyOf(Top))
<1>1. FunctionOf(Top) \in Function /\ Top.pc \in 0 .. Len(BodyOf(Top)) - 1
  BY InstructionFacts DEF MachineInv
<1>2. Len(BodyOf(Top)) \in Nat
  BY <1>1 DEF BodyOf, Function, Code
<1> QED BY <1>1, <1>2

LEMMA StillRunning ==
  ASSUME MachineInv, HeapGrows, stage = "running", UNCHANGED <<stage, error>>,
         SlotsAreSound', ObjectsAreSound', FramesAreNested'
  PROVE  MachineInv'
<1>1. IsComplete'
  BY UnitStays DEF HeapGrows, MachineInv
<1> QED BY <1>1 DEF MachineInv

LEMMA ProceedStep ==
  ASSUME MachineInv, HeapGrows, Executes(InstructionTypes), Proceed,
         SlotsAreSound', Len(locals) <= Len(locals'), ObjectsAreSound'
  PROVE  MachineInv'
<1>1. stage = "running" /\ ~AtEnd /\ GoTo(Top.pc + 1) /\ UNCHANGED <<stage, unit, error>>
  BY DEF Executes, Proceed
<1>2. Top.pc + 1 \in 0 .. Len(BodyOf(Top))
  BY <1>1, NextPosition
<1>3. FramesAreNested'
  BY <1>1, <1>2, FramesAfterGoTo DEF SlotsAreSound
<1> QED BY <1>1, <1>3, StillRunning

LEMMA SameHeap ==
  ASSUME MachineInv, UNCHANGED <<unit, heap>>
  PROVE  HeapGrows /\ ObjectsAreSound'
<1>1. IsSequence(heap) /\ Len(heap) \in Nat
  BY DEF MachineInv, ObjectsAreSound, IsSequence
<1>2. HeapGrows
  BY <1>1 DEF HeapGrows
<1>3. ObjectsAreSound'
  BY DEF MachineInv, ObjectsAreSound, IsSoundObject, IsSound
<1> QED BY <1>2, <1>3

(* A result is stored and nothing happens in the heap. *)
LEMMA StoreStep ==
  ASSUME MachineInv, Executes(InstructionTypes), Proceed, UNCHANGED heap,
         NEW slot \in Nat, NEW v, IsSound(v), Store(slot, v)
  PROVE  MachineInv' /\ CallersKept
<1>1. HeapGrows /\ ObjectsAreSound'
  BY SameHeap DEF Proceed
<1>2. IsSound(v)'
  BY <1>1, ValuesStaySound DEF MachineInv
<1>3. SlotsAreSound' /\ Len(locals) <= Len(locals') /\ CallersKept
  BY <1>1, <1>2, AfterStore
<1> QED BY <1>1, <1>3, ProceedStep

LEMMA ErrorStep ==
  ASSUME MachineInv, NEW code, code # "", RaiseError(code)
  PROVE  MachineInv' /\ CallersKept
<1>1. HeapGrows /\ ObjectsAreSound'
  BY SameHeap DEF RaiseError
<1>2. SlotsAreSound' /\ CallersKept
  BY <1>1, NoStore DEF RaiseError
<1>3. FramesAreNested'
  BY DEF RaiseError, MachineInv, FramesAreNested, IsSoundFrame, IsCallOf, BodyOf, FunctionOf,
         IsSound, IsClosure, Callee, Top
<1>4. IsComplete'
  BY UnitStays DEF RaiseError, MachineInv
<1> QED BY <1>1, <1>2, <1>3, <1>4 DEF RaiseError, MachineInv

-----------------------------------------------------------------------------
(* Values and objects. *)
LEMMA LocalIsSound ==
  ASSUME MachineInv, NEW slot \in Nat
  PROVE  IsSound(Local(slot))
<1>1. Top.base \in Nat
  BY TopFacts DEF MachineInv
<1>2. Len(locals) \in Nat /\ DOMAIN locals = 1 .. Len(locals)
  BY DEF MachineInv, SlotsAreSound, IsSequence
<1>3. IsSound(NullValue)
  BY DEF IsSound, NullValue, Type
<1>4. \A i \in DOMAIN locals : IsSound(locals[i])
  BY DEF MachineInv, SlotsAreSound
<1>5. CASE Top.base + slot + 1 <= Len(locals)
  <2>1. Top.base + slot + 1 \in DOMAIN locals
    BY <1>1, <1>2, <1>5
  <2>2. Local(slot) = locals[Top.base + slot + 1]
    BY <1>5 DEF Local
  <2> QED BY <1>4, <2>1, <2>2
<1>6. CASE ~(Top.base + slot + 1 <= Len(locals))
  BY <1>3, <1>6 DEF Local
<1> QED BY <1>5, <1>6

LEMMA PlainValuesAreSound ==
  ASSUME NEW n
  PROVE  IsSound(NullValue) /\ IsSound(IntegerValue(n)) /\ IsSound(StringValue(n))
         /\ IsSound(<<"native", n>>)
BY DEF IsSound, NullValue, IntegerValue, StringValue, Type

(* An operator's result is an integer or the left operand. *)
LEMMA BinaryResult ==
  ASSUME NEW operation, NEW left, NEW right, IsSound(left)
  PROVE  IsSound(ApplyBinary(operation, left, right).value)
<1> DEFINE outcome == A!Outcome(operation, left[2], right[2])
           compared == IF Compare(left, right) \in A!ExpectedStatus(operation) THEN 1 ELSE 0
<1>1. ApplyBinary(operation, left, right) =
        IF operation \in A!Comparisons THEN Result(IntegerValue(compared))
        ELSE IF ~IsInteger(left) \/ ~IsInteger(right) THEN Result(left)
        ELSE IF outcome.error = "none" THEN Result(IntegerValue(outcome.n))
                                       ELSE Failure(outcome.error)
  BY DEF ApplyBinary
<1> HIDE DEF outcome, compared
<1>2. \A v, e : Result(v).value = v /\ Failure(e).value = NullValue
  BY DEF Result, Failure
<1>3. \/ ApplyBinary(operation, left, right).value = left
      \/ ApplyBinary(operation, left, right).value = NullValue
      \/ ApplyBinary(operation, left, right).value = IntegerValue(compared)
      \/ ApplyBinary(operation, left, right).value = IntegerValue(outcome.n)
  BY <1>1, <1>2
<1> QED BY <1>3, PlainValuesAreSound

LEMMA UnaryResult ==
  ASSUME NEW operation \in OperateUnary, NEW operand, IsSound(operand)
  PROVE  IsSound(ApplyUnary(operation, operand).value)
<1>1. \A v, e : Result(v).value = v /\ Failure(e).value = NullValue
  BY DEF Result, Failure
<1> DEFINE n == IF Truth(operand) THEN 0 ELSE 1
<1>2. CASE operation = "not"
  <2>1. ApplyUnary(operation, operand) = Result(IntegerValue(n))
    BY <1>2 DEF ApplyUnary
  <2> HIDE DEF n
  <2>2. ApplyUnary(operation, operand).value = IntegerValue(n)
    BY <1>1, <2>1
  <2> QED BY <2>2, PlainValuesAreSound
<1>3. CASE operation # "not" /\ ~IsInteger(operand)
  <2>1. ApplyUnary(operation, operand) = Result(operand)
    BY <1>3 DEF ApplyUnary, OperateUnary
  <2> QED BY <1>1, <2>1
<1>4. CASE operation # "not" /\ IsInteger(operand)
  <2> DEFINE a == - operand[2] - 1
             b == - operand[2]
  <2>1. \/ ApplyUnary(operation, operand) = Result(IntegerValue(a))
        \/ ApplyUnary(operation, operand) = Result(IntegerValue(b))
        \/ ApplyUnary(operation, operand) = Failure("integer_overflow")
    BY <1>4 DEF ApplyUnary, OperateUnary
  <2> HIDE DEF a, b
  <2>2. \/ ApplyUnary(operation, operand).value = IntegerValue(a)
        \/ ApplyUnary(operation, operand).value = IntegerValue(b)
        \/ ApplyUnary(operation, operand).value = NullValue
    BY <1>1, <2>1
  <2> QED BY <2>2, PlainValuesAreSound
<1> QED BY <1>2, <1>3, <1>4

LEMMA ObjectsStaySound ==
  ASSUME ObjectsAreSound, HeapGrows
  PROVE  \A o : IsSoundObject(o) => IsSoundObject(o)'
<1> SUFFICES ASSUME NEW o, IsSoundObject(o) PROVE IsSoundObject(o)'
  OBVIOUS
<1>1. \A v : IsSound(v) => IsSound(v)'
  BY ValuesStaySound
<1> QED BY <1>1 DEF IsSoundObject, HeapGrows

LEMMA HeapWrite ==
  ASSUME MachineInv, unit' = unit, NEW a \in DOMAIN heap, NEW o, IsSoundObject(o),
         o.kind = heap[a].kind, o.function = heap[a].function,
         heap' = [heap EXCEPT ![a] = o]
  PROVE  HeapGrows /\ ObjectsAreSound'
<1>1. /\ Len(heap) \in Nat /\ heap = [i \in 1 .. Len(heap) |-> heap[i]]
      /\ \A i \in DOMAIN heap : IsSoundObject(heap[i])
  BY DEF MachineInv, ObjectsAreSound, IsSequence
<1>2. heap' = [i \in 1 .. Len(heap) |-> IF i = a THEN o ELSE heap[i]]
  BY <1>1
<1>3. Len(heap') = Len(heap) /\ IsSequence(heap') /\ DOMAIN heap' = DOMAIN heap
  <2>1. DOMAIN heap' = 1 .. Len(heap) /\ DOMAIN heap = 1 .. Len(heap)
    BY <1>1, <1>2
  <2>2. Len(heap') = Len(heap)
    BY <1>1, <1>2, <2>1
  <2>3. heap' = [i \in 1 .. Len(heap') |-> heap'[i]]
    BY <1>2, <2>2
  <2> QED BY <1>1, <2>1, <2>2, <2>3 DEF IsSequence
<1>4. HeapGrows
  BY <1>1, <1>2, <1>3 DEF HeapGrows
<1>5. \A i \in DOMAIN heap' : IsSoundObject(heap'[i])
  BY <1>1, <1>2, <1>3
<1>6. ASSUME NEW i \in DOMAIN heap' PROVE IsSoundObject(heap[i])'
  <2>1. \A x : x = heap'[i] => IsSoundObject(x)'
    BY <1>4, <1>5, ObjectsStaySound DEF MachineInv
  <2> QED BY <2>1 DEF IsSoundObject, IsSound
<1> QED BY <1>3, <1>4, <1>6 DEF ObjectsAreSound

LEMMA HeapAppend ==
  ASSUME MachineInv, unit' = unit, NEW o, IsSoundObject(o), heap' = Append(heap, o)
  PROVE  /\ HeapGrows /\ ObjectsAreSound'
         /\ \A n : n = Len(heap) + 1 => IsSound(ObjectValue(n))'
<1>1. /\ IsSequence(heap) /\ Len(heap) \in Nat /\ DOMAIN heap = 1 .. Len(heap)
      /\ \A i \in DOMAIN heap : IsSoundObject(heap[i])
  BY DEF MachineInv, ObjectsAreSound, IsSequence
<1>2. /\ IsSequence(heap') /\ Len(heap') = Len(heap) + 1
      /\ heap'[Len(heap) + 1] = o
      /\ \A i \in DOMAIN heap : heap'[i] = heap[i]
  BY <1>1, AppendIs
<1>3. DOMAIN heap' = 1 .. Len(heap) + 1
  BY <1>2 DEF IsSequence
<1>4. HeapGrows
  BY <1>1, <1>2 DEF HeapGrows
<1>5. \A i \in DOMAIN heap' : IsSoundObject(heap'[i])
  BY <1>1, <1>2, <1>3
<1>6. ASSUME NEW i \in DOMAIN heap' PROVE IsSoundObject(heap[i])'
  <2>1. \A x : x = heap'[i] => IsSoundObject(x)'
    BY <1>4, <1>5, ObjectsStaySound DEF MachineInv
  <2> QED BY <2>1 DEF IsSoundObject, IsSound
<1>7. Len(heap) + 1 \in DOMAIN heap'
  BY <1>1, <1>3
<1>8. \A n : n = Len(heap) + 1 => IsSound(ObjectValue(n))'
  BY <1>2, <1>3, <1>7 DEF IsSound, ObjectValue, Type
<1> QED BY <1>2, <1>4, <1>6, <1>8 DEF ObjectsAreSound

-----------------------------------------------------------------------------
(* The instructions within a function. *)
LEMMA ExecutesFacts ==
  ASSUME MachineInv, NEW types \in SUBSET InstructionTypes, Executes(types)
  PROVE  /\ Executes(InstructionTypes)
         /\ stage = "running" /\ ~AtEnd /\ Instruction.type \in types
         /\ IsComplete /\ FramesAreNested /\ unit = unit
BY DEF Executes, MachineInv

LEMMA LoadConstantStep ==
  ASSUME MachineInv, LoadConstant PROVE MachineInv' /\ CallersKept
<1>1. Executes({"set_from_constant", "set_null"}) /\ Proceed /\ UNCHANGED heap
  BY DEF LoadConstant
<1>2. {"set_from_constant", "set_null"} \in SUBSET InstructionTypes
  BY DEF InstructionTypes, ReadWriteOne, WithConstant
<1>3. Argument(1) \in Nat /\ Executes(InstructionTypes)
  BY <1>1, <1>2, ExecutesFacts, ArgumentFacts DEF FirstIsSlot, ReadWriteOne, WithConstant
<1>4. PICK v : /\ v = (IF Instruction.type = "set_null" THEN NullValue
                       ELSE IntegerValue(Argument(2)))
               /\ Store(Argument(1), v)
  BY DEF LoadConstant
<1>5. IsSound(v)
  BY <1>4, PlainValuesAreSound
<1> QED BY <1>1, <1>3, <1>4, <1>5, StoreStep

LEMMA LoadFromUnitStep ==
  ASSUME MachineInv, LoadFromUnit PROVE MachineInv' /\ CallersKept
<1>1. Executes({"set_function", "set_string"})
  BY DEF LoadFromUnit
<1>2. {"set_function", "set_string"} \in SUBSET InstructionTypes
  BY DEF InstructionTypes, WithConstant
<1>3. Argument(1) \in Nat /\ Executes(InstructionTypes)
  BY <1>1, <1>2, ExecutesFacts, ArgumentFacts DEF FirstIsSlot, WithConstant
<1>4. CASE RaiseError("invalid_function_id") \/ RaiseError("invalid_string_id")
  BY <1>4, ErrorStep
<1>5. CASE /\ Argument(2) \in Positions(unit.functions)
           /\ Store(Argument(1), FunctionValue(Argument(2))) /\ Proceed /\ UNCHANGED heap
  <2>1. IsSound(FunctionValue(Argument(2)))
    BY <1>5 DEF IsSound, FunctionValue, Type
  <2> QED BY <1>3, <1>5, <2>1, StoreStep
<1>6. CASE /\ Store(Argument(1), StringValue(At(unit.strings, Argument(2))))
           /\ Proceed /\ UNCHANGED heap
  BY <1>3, <1>6, PlainValuesAreSound, StoreStep
<1> QED BY <1>4, <1>5, <1>6 DEF LoadFromUnit

LEMMA CopyLocalStep ==
  ASSUME MachineInv, CopyLocal PROVE MachineInv' /\ CallersKept
<1>1. Executes({"copy", "current_function"}) /\ Proceed /\ UNCHANGED heap
  BY DEF CopyLocal
<1>2. {"copy", "current_function"} \in SUBSET InstructionTypes
  BY DEF InstructionTypes, ReadWriteOne, BinaryTypes
<1>3. /\ Argument(1) \in Nat /\ Executes(InstructionTypes)
      /\ Instruction.type = "copy" => Argument(2) \in Nat
  BY <1>1, <1>2, ExecutesFacts, ArgumentFacts DEF FirstIsSlot, ReadWriteOne, BinaryTypes
<1>4. IsSound(Top.current)
  BY TopFacts DEF MachineInv, IsSoundFrame
<1>5. IsSound(IF Instruction.type = "copy" THEN Local(Argument(2)) ELSE Top.current)
  BY <1>3, <1>4, LocalIsSound
<1>6. Store(Argument(1), IF Instruction.type = "copy" THEN Local(Argument(2)) ELSE Top.current)
  BY DEF CopyLocal
<1> QED BY <1>1, <1>3, <1>5, <1>6, StoreStep

LEMMA OperateStep ==
  ASSUME MachineInv, Operate PROVE MachineInv' /\ CallersKept
<1> DEFINE result == IF Instruction.type \in OperateUnary
                       THEN ApplyUnary(Instruction.type, Local(Argument(1)))
                       ELSE ApplyBinary(Instruction.type, Local(Argument(1)), Local(Argument(2)))
<1>1. /\ Executes(OperateUnary \cup OperateBinary)
      /\ IF result.error # "" THEN RaiseError(result.error)
         ELSE Store(Argument(1), result.value) /\ Proceed /\ UNCHANGED <<heap, events>>
  BY DEF Operate
<1>2. OperateUnary \cup OperateBinary \in SUBSET InstructionTypes
  BY DEF InstructionTypes, ReadWriteOne, OperateUnary, OperateBinary
<1>3. /\ Argument(1) \in Nat /\ Executes(InstructionTypes)
  BY <1>1, <1>2, ExecutesFacts, ArgumentFacts
     DEF FirstIsSlot, ReadWriteOne, OperateUnary, OperateBinary
<1>4. IsSound(result.value)
  BY <1>3, LocalIsSound, UnaryResult, BinaryResult
<1> HIDE DEF result
<1>5. CASE result.error # ""
  BY <1>1, <1>5, ErrorStep
<1>6. CASE result.error = ""
  BY <1>1, <1>3, <1>4, <1>6, StoreStep
<1> QED BY <1>5, <1>6

LEMMA JumpStep ==
  ASSUME MachineInv, Jump PROVE MachineInv' /\ CallersKept
<1>1. Executes(JumpTypes \cup {"nothing"})
  BY DEF Jump
<1>2. JumpTypes \cup {"nothing"} \in SUBSET InstructionTypes
  BY DEF InstructionTypes
<1>3. stage = "running" /\ ~AtEnd /\ Instruction.type \in JumpTypes \cup {"nothing"}
  BY <1>1, <1>2, ExecutesFacts
<1>4. CASE RaiseError("jump_out_of_range")
  BY <1>4, ErrorStep
<1>5. CASE /\ ~(IsAnyJump(Instruction) /\ Destination(Instruction) \notin 0 .. Len(BodyOf(Top)))
           /\ GoTo(IF Taken THEN Destination(Instruction) ELSE Top.pc + 1)
           /\ UNCHANGED <<stage, unit, locals, heap, events, error>>
  <2>1. Taken => IsAnyJump(Instruction)
    BY DEF Taken, IsAnyJump, JumpTypes
  <2>2. Top.pc + 1 \in 0 .. Len(BodyOf(Top))
    BY <1>3, NextPosition
  <2>3. PICK position \in 0 .. Len(BodyOf(Top)) : GoTo(position)
    BY <1>5, <2>1, <2>2
  <2>4. HeapGrows /\ ObjectsAreSound'
    BY <1>5, SameHeap
  <2>5. SlotsAreSound' /\ Len(locals) <= Len(locals') /\ CallersKept
    BY <1>5, <2>4, NoStore
  <2>6. FramesAreNested'
    BY <2>3, <2>4, <2>5, FramesAfterGoTo DEF SlotsAreSound
  <2> QED BY <1>3, <1>5, <2>4, <2>5, <2>6, StillRunning
<1> QED BY <1>4, <1>5 DEF Jump

LEMMA MakeTableStep ==
  ASSUME MachineInv, MakeTable PROVE MachineInv' /\ CallersKept
<1>1. Executes({"new_table"}) /\ Proceed /\ unit' = unit
  BY DEF MakeTable, Proceed
<1>2. {"new_table"} \in SUBSET InstructionTypes
  BY DEF InstructionTypes, ReadWriteOne
<1>3. Argument(1) \in Nat /\ Executes(InstructionTypes)
  BY <1>1, <1>2, ExecutesFacts, ArgumentFacts DEF FirstIsSlot, ReadWriteOne
<1>4. IsSoundObject(NewTable)
  BY DEF IsSoundObject, NewTable, NoElements, IsSequence
<1>5. PICK n : n = Len(heap) + 1 /\ Store(Argument(1), ObjectValue(n))
  BY DEF MakeTable
<1>6. HeapGrows /\ ObjectsAreSound' /\ IsSound(ObjectValue(n))'
  BY <1>1, <1>4, <1>5, HeapAppend DEF MakeTable
<1>7. SlotsAreSound' /\ Len(locals) <= Len(locals') /\ CallersKept
  BY <1>3, <1>5, <1>6, AfterStore
<1> QED BY <1>1, <1>3, <1>6, <1>7, ProceedStep

LEMMA SetTableElementStep ==
  ASSUME MachineInv, SetTableElement PROVE MachineInv' /\ CallersKept
<1> DEFINE table == Local(Argument(1))
           a == table[2]
           key == Local(Argument(2))
           value == Local(Argument(3))
           o == [heap[a] EXCEPT !.elements = SetElement(@, key, value)]
<1>1. Executes({"set_element"})
  BY DEF SetTableElement
<1>2. {"set_element"} \in SUBSET InstructionTypes
  BY DEF InstructionTypes
<1>3. /\ Executes(InstructionTypes)
      /\ Argument(1) \in Nat /\ Argument(2) \in Nat /\ Argument(3) \in Nat
  BY <1>1, <1>2, ExecutesFacts, ArgumentFacts DEF FirstIsSlot
<1>4. CASE RaiseError("set_on_non_object") \/ RaiseError("set_not_supported")
  BY <1>4, ErrorStep
<1>5. CASE /\ IsTable(table) /\ heap' = [heap EXCEPT ![a].elements = SetElement(@, key, value)]
           /\ Proceed /\ UNCHANGED locals
  <2>1. IsSound(table) /\ IsSound(key) /\ IsSound(value)
    BY <1>3, LocalIsSound
  <2> HIDE DEF table, key, value
  <2>2. a \in DOMAIN heap /\ IsSoundObject(heap[a])
    BY <1>5, <2>1 DEF IsTable, IsSound, MachineInv, ObjectsAreSound
  <2>3. /\ DOMAIN o = {"kind", "elements", "function", "bound"}
        /\ o.elements = SetElement(heap[a].elements, key, value)
        /\ o.kind = heap[a].kind /\ o.function = heap[a].function /\ o.bound = heap[a].bound
    BY <2>2 DEF IsSoundObject
  <2>4. \A k \in DOMAIN o.elements : IsSound(k) /\ IsSound(o.elements[k])
    BY <2>1, <2>2, <2>3 DEF IsSoundObject, SetElement
  <2>5. heap' = [heap EXCEPT ![a] = o]
    BY <1>5
  <2> HIDE DEF o
  <2>6. IsSoundObject(o)
    BY <2>2, <2>3, <2>4 DEF IsSoundObject
  <2>7. unit' = unit
    BY <1>5 DEF Proceed
  <2> HIDE DEF a
  <2>8. HeapGrows /\ ObjectsAreSound'
    BY <2>2, <2>3, <2>5, <2>6, <2>7, HeapWrite
  <2>9. SlotsAreSound' /\ Len(locals) <= Len(locals') /\ CallersKept
    BY <1>5, <2>8, NoStore
  <2> QED BY <1>3, <1>5, <2>8, <2>9, ProceedStep
<1> QED BY <1>4, <1>5 DEF SetTableElement

LEMMA GetTableElementStep ==
  ASSUME MachineInv, GetTableElement PROVE MachineInv' /\ CallersKept
<1> DEFINE table == Local(Argument(1))
           key == Local(Argument(2))
           found == CASE IsTable(table) -> Result(GetElement(heap[table[2]].elements, key))
                      [] Type(table) = "string" -> Character(table[2], key)
                      [] OTHER -> Failure("get_not_supported")
<1>1. Executes({"get_element"})
  BY DEF GetTableElement
<1>2. {"get_element"} \in SUBSET InstructionTypes
  BY DEF InstructionTypes
<1>3. /\ Executes(InstructionTypes)
      /\ Argument(1) \in Nat /\ Argument(2) \in Nat /\ Argument(3) \in Nat
  BY <1>1, <1>2, ExecutesFacts, ArgumentFacts DEF FirstIsSlot
<1>4. IsSound(table) /\ IsSound(key)
  BY <1>3, LocalIsSound
<1>5. \/ RaiseError("get_from_non_object")
      \/ found.error # "" /\ RaiseError(found.error)
      \/ Store(Argument(3), found.value) /\ Proceed /\ UNCHANGED heap
  BY DEF GetTableElement
<1> HIDE DEF table, key
<1>6. IsSound(found.value)
  <2>1. \A v, e : Result(v).value = v /\ Failure(e).value = NullValue
    BY DEF Result, Failure
  <2>2. CASE IsTable(table)
    <3>1. table[2] \in DOMAIN heap /\ IsSoundObject(heap[table[2]])
      BY <1>4, <2>2 DEF IsTable, IsSound, MachineInv, ObjectsAreSound
    <3>2. IsSound(GetElement(heap[table[2]].elements, key))
      BY <3>1, PlainValuesAreSound DEF GetElement, IsSoundObject
    <3>3. found = Result(GetElement(heap[table[2]].elements, key))
      BY <2>2 DEF IsTable
    <3> QED BY <2>1, <3>2, <3>3
  <2>3. CASE Type(table) = "string"
    <3> DEFINE n == ContentRank(SubSeq(table[2], key[2] + 1, key[2] + 1))
    <3>1. found = Character(table[2], key)
      BY <2>3 DEF IsTable
    <3>2. \/ Character(table[2], key) = Result(IntegerValue(n))
          \/ Character(table[2], key) = Failure("get_not_supported")
      BY DEF Character
    <3> HIDE DEF n, found
    <3>3. CASE Character(table[2], key) = Result(IntegerValue(n))
      BY <2>1, <3>1, <3>3, PlainValuesAreSound
    <3>4. CASE Character(table[2], key) = Failure("get_not_supported")
      BY <2>1, <3>1, <3>4, PlainValuesAreSound
    <3> QED BY <3>2, <3>3, <3>4
  <2>4. CASE ~IsTable(table) /\ Type(table) # "string"
    <3>1. found = Failure("get_not_supported")
      BY <2>4
    <3> QED BY <2>1, <3>1, PlainValuesAreSound
  <2> QED BY <2>2, <2>3, <2>4
<1> HIDE DEF found
<1> QED BY <1>3, <1>5, <1>6, ErrorStep, StoreStep

LEMMA BoundIs ==
  ASSUME NEW o, IsSoundObject(o), NEW index \in Positions(o.bound), NEW value, IsSound(value)
  PROVE  /\ IsSoundObject(Bound(o, index, value))
         /\ Bound(o, index, value).kind = o.kind
         /\ Bound(o, index, value).function = o.function
<1> DEFINE bound == [o.bound EXCEPT ![index + 1] = value]
           b == Bound(o, index, value)
<1>1. /\ DOMAIN o = {"kind", "elements", "function", "bound"}
      /\ IsSequence(o.bound) /\ Len(o.bound) \in Nat
      /\ \A i \in DOMAIN o.bound : IsSound(o.bound[i])
  BY DEF IsSoundObject, IsSequence
<1>2. /\ DOMAIN b = {"kind", "elements", "function", "bound"}
      /\ b.kind = o.kind /\ b.function = o.function /\ b.elements = o.elements
      /\ b.bound = bound
  BY <1>1 DEF Bound
<1>3. bound = [i \in 1 .. Len(o.bound) |-> IF i = index + 1 THEN value ELSE o.bound[i]]
  BY <1>1 DEF IsSequence
<1> HIDE DEF bound, b
<1>4. DOMAIN bound = 1 .. Len(o.bound) /\ DOMAIN o.bound = 1 .. Len(o.bound)
  BY <1>1, <1>3 DEF IsSequence
<1>5. Len(bound) = Len(o.bound)
  BY <1>1, <1>3, <1>4
<1>6. bound = [i \in 1 .. Len(bound) |-> bound[i]]
  BY <1>3, <1>4, <1>5
<1>7. IsSequence(bound)
  BY <1>1, <1>5, <1>6 DEF IsSequence
<1>8. \A i \in DOMAIN bound : IsSound(bound[i])
  BY <1>1, <1>3, <1>4
<1>9. IsSoundObject(b)
  BY <1>2, <1>5, <1>7, <1>8 DEF IsSoundObject
<1> USE DEF b
<1> QED BY <1>2, <1>9

LEMMA NewClosureIsSound ==
  ASSUME MachineInv, NEW f \in Positions(unit.functions)
  PROVE  IsSoundObject(NewClosure(f))
<1>1. unit.functions[f + 1].bound \in Nat
  BY FunctionFacts DEF MachineInv, Function
<1> DEFINE n == unit.functions[f + 1].bound
           bound == [i \in 1 .. n |-> NullValue]
           c == NewClosure(f)
<1>2. /\ DOMAIN c = {"kind", "elements", "function", "bound"}
      /\ c.elements = NoElements /\ c.function = f /\ c.bound = bound
  BY DEF NewClosure
<1>3. Len(bound) = n
  BY <1>1
<1>4. IsSequence(bound)
  BY <1>1, <1>3 DEF IsSequence
<1>5. \A i \in DOMAIN bound : IsSound(bound[i])
  BY PlainValuesAreSound
<1>6. DOMAIN c.elements = {}
  BY <1>2 DEF NoElements
<1> HIDE DEF bound, c
<1>7. IsSoundObject(c)
  BY <1>2, <1>3, <1>4, <1>5, <1>6 DEF IsSoundObject
<1> QED BY <1>7 DEF c

LEMMA BindValueStep ==
  ASSUME MachineInv, BindValue PROVE MachineInv' /\ CallersKept
<1> DEFINE closure == Local(Argument(1))
           index == Argument(2)
           value == Local(Argument(3))
<1>1. Executes({"bind"})
  BY DEF BindValue
<1>2. {"bind"} \in SUBSET InstructionTypes
  BY DEF InstructionTypes
<1>3. Executes(InstructionTypes) /\ Argument(1) \in Nat /\ Argument(3) \in Nat
  BY <1>1, <1>2, ExecutesFacts, ArgumentFacts DEF FirstIsSlot
<1>4. IsSound(closure) /\ IsSound(value)
  BY <1>3, LocalIsSound
<1>5. CASE RaiseError("bind_to_non_function")
  BY <1>5, ErrorStep
<1>6. CASE /\ Type(closure) = "function" /\ IsBound(NewClosure(closure[2]), index)
           /\ BindNew(closure[2], index) /\ Proceed
  <2> DEFINE c == NewClosure(closure[2])
             o == Bound(c, index, value)
  <2>1. heap' = Append(heap, o) /\ unit' = unit
    BY <1>6 DEF BindNew, Proceed
  <2>2. IsSoundObject(c) /\ index \in Positions(c.bound)
    BY <1>4, <1>6, NewClosureIsSound DEF IsSound, IsBound
  <2> HIDE DEF c
  <2>3. IsSoundObject(o)
    BY <1>4, <2>2, BoundIs
  <2>4. PICK n : n = Len(heap) + 1 /\ Store(Argument(1), ObjectValue(n))
    BY <1>6 DEF BindNew
  <2> HIDE DEF o
  <2>5. HeapGrows /\ ObjectsAreSound' /\ IsSound(ObjectValue(n))'
    BY <2>1, <2>3, <2>4, HeapAppend
  <2>6. SlotsAreSound' /\ Len(locals) <= Len(locals') /\ CallersKept
    BY <1>3, <2>4, <2>5, AfterStore
  <2> QED BY <1>3, <1>6, <2>5, <2>6, ProceedStep
<1>7. CASE /\ IsClosure(closure) /\ IsBound(heap[closure[2]], index)
           /\ BindAgain(closure[2], index) /\ Proceed
  <2> DEFINE a == closure[2]
             o == Bound(heap[a], index, value)
  <2>1. a \in DOMAIN heap /\ IsSoundObject(heap[a]) /\ index \in Positions(heap[a].bound)
    BY <1>4, <1>7 DEF IsClosure, IsSound, IsBound, MachineInv, ObjectsAreSound
  <2>2. heap' = [heap EXCEPT ![a] = o] /\ unit' = unit /\ UNCHANGED locals
    BY <1>7 DEF BindAgain, Proceed
  <2> HIDE DEF closure, value, index
  <2>3. IsSoundObject(o) /\ o.kind = heap[a].kind /\ o.function = heap[a].function
    BY <1>4, <2>1, BoundIs
  <2> HIDE DEF a, o
  <2>4. HeapGrows /\ ObjectsAreSound'
    BY <2>1, <2>2, <2>3, HeapWrite
  <2>5. SlotsAreSound' /\ Len(locals) <= Len(locals') /\ CallersKept
    BY <2>2, <2>4, NoStore
  <2> QED BY <1>3, <1>7, <2>4, <2>5, ProceedStep
<1> QED BY <1>5, <1>6, <1>7 DEF BindValue

LEMMA GetBoundValueStep ==
  ASSUME MachineInv, GetBoundValue PROVE MachineInv' /\ CallersKept
<1> DEFINE closure == Local(Argument(1))
           a == closure[2]
<1>1. Executes({"get_bound"})
  BY DEF GetBoundValue
<1>2. {"get_bound"} \in SUBSET InstructionTypes
  BY DEF InstructionTypes
<1>3. Executes(InstructionTypes) /\ Argument(1) \in Nat /\ Argument(3) \in Nat
  BY <1>1, <1>2, ExecutesFacts, ArgumentFacts DEF FirstIsSlot
<1>4. CASE RaiseError("no_bound_value")
  BY <1>4, ErrorStep
<1>5. CASE /\ IsClosure(closure) /\ IsBound(heap[a], Argument(2))
           /\ Store(Argument(3), At(heap[a].bound, Argument(2))) /\ Proceed /\ UNCHANGED heap
  <2>1. IsSound(closure)
    BY <1>3, LocalIsSound
  <2>2. IsSoundObject(heap[a])
    BY <1>5, <2>1 DEF IsClosure, IsSound, MachineInv, ObjectsAreSound
  <2>3. Argument(2) + 1 \in DOMAIN heap[a].bound
    BY <1>5, <2>2 DEF IsSoundObject, IsSequence, IsBound, Positions
  <2>4. IsSound(At(heap[a].bound, Argument(2)))
    BY <2>2, <2>3 DEF IsSoundObject, At
  <2> QED BY <1>3, <1>5, <2>4, StoreStep
<1> QED BY <1>4, <1>5 DEF GetBoundValue

(* What is answered by others. *)
LEMMA AnswerCallStep ==
  ASSUME MachineInv, Executes(InstructionTypes), NEW name, NEW slot \in Nat, NEW count,
         AnswerCall(name, slot, count)
  PROVE  MachineInv' /\ CallersKept
<1>1. PICK n : n = (Len(events) + 1) % 2 /\ Store(slot, IntegerValue(n))
  BY DEF AnswerCall
<1> QED BY <1>1, PlainValuesAreSound, StoreStep DEF AnswerCall

LEMMA CallObjectStep ==
  ASSUME MachineInv, CallObject \/ CallObjectMethod PROVE MachineInv' /\ CallersKept
<1>1. Executes({"call", "call_method"})
  BY DEF CallObject, CallObjectMethod, Executes
<1>2. {"call", "call_method"} \in SUBSET InstructionTypes
  BY DEF InstructionTypes, WithConstant
<1>3. Executes(InstructionTypes) /\ Argument(1) \in Nat
  BY <1>1, <1>2, ExecutesFacts, ArgumentFacts DEF FirstIsSlot, WithConstant
<1>4. \/ \E name : AnswerCall(name, Argument(1), Argument(2))
      \/ RaiseError("call_not_supported") \/ RaiseError("call_non_object")
  BY DEF CallObject, CallObjectMethod
<1> QED BY <1>3, <1>4, AnswerCallStep, ErrorStep

LEMMA LoadModuleStep ==
  ASSUME MachineInv, LoadModule PROVE MachineInv' /\ CallersKept
<1>1. Executes({"load_module"})
  BY DEF LoadModule
<1>2. {"load_module"} \in SUBSET InstructionTypes
  BY DEF InstructionTypes, ReadWriteOne
<1>3. Executes(InstructionTypes) /\ Argument(1) \in Nat
  BY <1>1, <1>2, ExecutesFacts, ArgumentFacts DEF FirstIsSlot, ReadWriteOne
<1>4. CASE RaiseError("invalid_module_name")
  BY <1>4, ErrorStep
<1>5. CASE \E n : Store(Argument(1), <<"native", n>>) /\ Proceed /\ UNCHANGED heap
  BY <1>3, <1>5, PlainValuesAreSound, StoreStep
<1> QED BY <1>4, <1>5 DEF LoadModule

-----------------------------------------------------------------------------
(* Calls and returns. *)
LEMMA EnterLocalsIs ==
  ASSUME NEW slots, IsSequence(slots), NEW base \in Nat, NEW count \in Nat,
         NEW parameters \in Nat
  PROVE  LET entered == EnterLocals(slots, base, count, parameters)
         IN  /\ IsSequence(entered)
             /\ Len(slots) <= Len(entered) /\ base < Len(entered)
             /\ \A i \in DOMAIN entered :
                  \/ i <= Len(slots) /\ entered[i] = slots[i]
                  \/ base + 1 < i /\ entered[i] = NullValue
                  \/ Len(slots) < i /\ entered[i] = NullValue
<1> DEFINE p == Padded(slots, base + 1 + parameters)
           entered == EnterLocals(slots, base, count, parameters)
<1>1. /\ IsSequence(p)
      /\ Len(p) = IF Len(slots) < base + 1 + parameters THEN base + 1 + parameters ELSE Len(slots)
      /\ \A i \in DOMAIN p : p[i] = IF i <= Len(slots) THEN slots[i] ELSE NullValue
  BY PaddedIs
<1>2. entered = [i \in DOMAIN p |->
                   IF base + 1 + count < i /\ i <= base + 1 + parameters THEN NullValue ELSE p[i]]
  BY DEF EnterLocals
<1> HIDE DEF p, entered
<1>3. Len(slots) \in Nat /\ Len(p) \in Nat /\ DOMAIN p = 1 .. Len(p)
  BY <1>1 DEF IsSequence
<1>4. DOMAIN entered = 1 .. Len(p)
  BY <1>2, <1>3
<1>5. Len(entered) = Len(p)
  BY <1>2, <1>3, <1>4
<1>6. entered = [i \in 1 .. Len(entered) |-> entered[i]]
  BY <1>2, <1>3, <1>5
<1>7. IsSequence(entered)
  BY <1>3, <1>5, <1>6 DEF IsSequence
<1>8. Len(slots) <= Len(entered) /\ base < Len(entered)
  BY <1>1, <1>3, <1>5
<1>9. \A i \in DOMAIN entered :
         \/ i <= Len(slots) /\ entered[i] = slots[i]
         \/ base + 1 < i /\ entered[i] = NullValue
         \/ Len(slots) < i /\ entered[i] = NullValue
  BY <1>1, <1>2, <1>3, <1>4
<1> QED BY <1>7, <1>8, <1>9 DEF entered

LEMMA CallP0Step ==
  ASSUME MachineInv, CallP0 PROVE MachineInv' /\ CallersKept
<1> DEFINE callee == Local(Argument(1))
           base == Top.base + Argument(1)
           count == Argument(2)
           entered == Activation(Callee(callee), base, callee)
           slots == Padded(locals, base + 1 + count)
           parameters == FunctionOf(entered).parameters
           n == Len(frames)
<1>1. Executes({"call"}) /\ UNCHANGED <<stage, unit, heap, error>>
  BY DEF CallP0
<1>2. {"call"} \in SUBSET InstructionTypes
  BY DEF InstructionTypes, WithConstant
<1>3. /\ stage = "running" /\ ~AtEnd /\ Instruction.type = "call"
      /\ Argument(1) \in Nat /\ count \in Nat
  BY <1>1, <1>2, ExecutesFacts, ArgumentFacts DEF FirstIsSlot, WithConstant
<1>4. /\ Type(callee) = "function" \/ IsClosure(callee)
      /\ locals' = EnterLocals(slots, base, count, parameters)
      /\ frames' = Append(frames, entered)
  BY DEF CallP0
<1>5. /\ n \in Nat \ {0} /\ DOMAIN frames = 1 .. n /\ IsSoundFrame(Top)
      /\ Top.base \in Nat /\ Top.base < Len(locals) /\ frames[n] = Top
      /\ IsSequence(frames) /\ \A k \in DOMAIN frames : IsSoundFrame(frames[k])
      /\ frames[1].base = 0 /\ \A k \in 1 .. n - 1 : IsCallOf(frames[k], frames[k + 1])
  BY TopFacts DEF MachineInv, FramesAreNested, Top
<1>6. base \in Nat /\ Top.base <= base
  BY <1>3, <1>5
<1>7. /\ IsSequence(locals) /\ Len(locals) \in Nat /\ DOMAIN locals = 1 .. Len(locals)
      /\ \A i \in DOMAIN locals : IsSound(locals[i])
  BY DEF MachineInv, SlotsAreSound, IsSequence
<1>8. IsSound(callee)
  BY <1>3, LocalIsSound
<1>9. Callee(callee) \in Positions(unit.functions)
  BY <1>4, <1>8 DEF Callee, IsSound, IsClosure, MachineInv, ObjectsAreSound, IsSoundObject
<1>10. /\ entered.function = Callee(callee) /\ entered.base = base /\ entered.pc = 0
       /\ entered.current = callee
       /\ DOMAIN entered = {"function", "base", "pc", "current"}
  BY DEF Activation
<1> HIDE DEF callee, base, count, entered
<1>11. FunctionOf(entered) \in Function
  BY <1>9, <1>10, FunctionFacts DEF FunctionOf, MachineInv
<1>12. parameters \in Nat /\ Len(BodyOf(entered)) \in Nat
  BY <1>11 DEF Function, BodyOf, Code
<1>13. IsSoundFrame(entered)
  BY <1>4, <1>6, <1>8, <1>9, <1>10, <1>12 DEF IsSoundFrame
<1>14. /\ IsSequence(slots) /\ Len(slots) \in Nat /\ DOMAIN slots = 1 .. Len(slots)
       /\ Len(locals) <= Len(slots)
       /\ \A i \in DOMAIN slots : slots[i] = IF i <= Len(locals) THEN locals[i] ELSE NullValue
  <2>1. base + 1 + count \in Nat
    BY <1>3, <1>6
  <2> HIDE DEF slots
  <2> USE DEF slots
  <2>2. /\ IsSequence(slots)
        /\ Len(slots) = IF Len(locals) < base + 1 + count THEN base + 1 + count ELSE Len(locals)
        /\ \A i \in DOMAIN slots : slots[i] = IF i <= Len(locals) THEN locals[i] ELSE NullValue
    BY <1>7, <2>1, PaddedIs
  <2> HIDE DEF slots
  <2> QED BY <1>7, <2>1, <2>2 DEF IsSequence
<1> HIDE DEF slots, parameters
<1>15. /\ IsSequence(locals') /\ Len(slots) <= Len(locals') /\ base < Len(locals')
       /\ \A i \in DOMAIN locals' :
            \/ i <= Len(slots) /\ locals'[i] = slots[i]
            \/ base + 1 < i /\ locals'[i] = NullValue
            \/ Len(slots) < i /\ locals'[i] = NullValue
  BY <1>3, <1>4, <1>6, <1>12, <1>14, EnterLocalsIs
<1>16. Len(locals') \in Nat /\ DOMAIN locals' = 1 .. Len(locals')
  BY <1>15 DEF IsSequence
<1>17. HeapGrows /\ ObjectsAreSound'
  BY <1>1, SameHeap
<1>18. SlotsAreSound'
  <2>1. ASSUME NEW i \in DOMAIN locals' PROVE IsSound(locals[i])'
    <3>1. locals'[i] = NullValue \/ (i \in DOMAIN locals /\ locals'[i] = locals[i])
      BY <1>7, <1>14, <1>15, <1>16
    <3>2. \A v : v = NullValue \/ (i \in DOMAIN locals /\ v = locals[i]) => IsSound(v)
      BY <1>7, PlainValuesAreSound
    <3> QED BY <1>1, <3>1, <3>2 DEF IsSound
  <2> QED BY <1>15, <2>1 DEF SlotsAreSound
<1>19. CallersKept
  <2>1. \A i \in 1 .. Top.base : locals'[i] = locals[i]
    BY <1>5, <1>6, <1>7, <1>14, <1>15, <1>16
  <2> QED BY <1>5, <1>6, <1>15, <1>16, <2>1 DEF CallersKept
<1>20. /\ IsSequence(frames') /\ Len(frames') = n + 1 /\ DOMAIN frames' = 1 .. n + 1
       /\ frames'[n + 1] = entered
       /\ \A k \in 1 .. n : frames'[k] = frames[k]
  <2>1. /\ IsSequence(frames') /\ Len(frames') = n + 1 /\ frames'[n + 1] = entered
        /\ \A k \in DOMAIN frames : frames'[k] = frames[k]
    BY <1>4, <1>5, AppendIs
  <2>2. DOMAIN frames' = 1 .. Len(frames')
    BY <2>1 DEF IsSequence
  <2> QED BY <1>5, <2>1, <2>2
<1>21. FramesAreNested'
  <2>1. ASSUME NEW k \in DOMAIN frames' PROVE IsSoundFrame(frames[k])'
    <3>1. \A frame : frame = frames'[k] => IsSoundFrame(frame)
      BY <1>5, <1>13, <1>20
    <3>2. \A frame : frame = frames'[k] => IsSoundFrame(frame)'
      BY <1>17, <3>1, FramesStaySound DEF MachineInv
    <3> QED BY <3>2 DEF IsSoundFrame, BodyOf, FunctionOf, IsSound, IsClosure, Callee
  <2>2. IsCallOf(Top, entered)
    <3>1. Top.pc < Len(BodyOf(Top))
      <4>1. /\ FunctionOf(Top) \in Function /\ Top.pc \in 0 .. Len(BodyOf(Top)) - 1
        BY <1>3, InstructionFacts DEF MachineInv
      <4>2. Len(BodyOf(Top)) \in Nat
        BY <4>1 DEF BodyOf, Function, Code
      <4> QED BY <4>1, <4>2
    <3>2. Instruction = At(BodyOf(Top), Top.pc) /\ base = Top.base + Instruction.args[1]
      BY DEF Instruction, Argument, base
    <3> QED BY <1>3, <1>10, <3>1, <3>2 DEF IsCallOf
  <2>3. \A k \in 1 .. n : IsCallOf(frames'[k], frames'[k + 1])
    <3> SUFFICES ASSUME NEW k \in 1 .. n PROVE IsCallOf(frames'[k], frames'[k + 1])
      OBVIOUS
    <3>1. CASE k = n
      BY <1>5, <1>20, <2>2, <3>1
    <3>2. CASE k # n
      <4>1. n \in Nat
        BY <1>5
      <4> HIDE DEF n
      <4>2. k \in 1 .. n - 1 /\ k + 1 \in 1 .. n
        BY <3>2, <4>1
      <4> QED BY <1>5, <1>20, <4>2
    <3> QED BY <3>1, <3>2
  <2>4. \A k \in 1 .. Len(frames') - 1 : IsCallOf(frames[k], frames[k + 1])'
    <3>1. Len(frames') - 1 = n
      BY <1>5, <1>20
    <3> QED BY <1>1, <2>3, <3>1 DEF IsCallOf, BodyOf, FunctionOf
  <2>5. frames'[1].base = 0
    BY <1>5, <1>20
  <2>6. Top'.base < Len(locals') /\ frames' # <<>>
    <3>1. Top' = entered
      BY <1>20 DEF Top
    <3>2. Len(frames') # 0
      BY <1>5, <1>20
    <3> QED BY <1>10, <1>15, <3>1, <3>2
  <2> QED BY <1>20, <2>1, <2>4, <2>5, <2>6 DEF FramesAreNested
<1> QED BY <1>1, <1>3, <1>17, <1>18, <1>19, <1>21, StillRunning

LEMMA SubSeqIs ==
  ASSUME NEW s, IsSequence(s), NEW n \in 0 .. Len(s)
  PROVE  /\ IsSequence(SubSeq(s, 1, n))
         /\ Len(SubSeq(s, 1, n)) = n
         /\ DOMAIN SubSeq(s, 1, n) = 1 .. n
         /\ \A i \in 1 .. n : SubSeq(s, 1, n)[i] = s[i]
<1> DEFINE S == {s[i] : i \in 1 .. Len(s)}
<1>1. s \in Seq(S) /\ Len(s) \in Nat
  BY DEF IsSequence
<1> HIDE DEF S
<1>2. SubSeq(s, 1, n) \in Seq(S) /\ Len(SubSeq(s, 1, n)) = n
      /\ \A i \in 1 .. n : SubSeq(s, 1, n)[i] = s[i]
  BY <1>1
<1>3. IsSequence(SubSeq(s, 1, n))
  BY <1>2, InSeqIsSequence
<1> QED BY <1>2, <1>3 DEF IsSequence

(* The slot of a call, wherever it stands. *)
LEMMA CallArgument ==
  ASSUME IsComplete, NEW f \in Positions(unit.functions),
         NEW pc \in 0 .. Len(unit.functions[f + 1].body) - 1,
         At(unit.functions[f + 1].body, pc).type = "call"
  PROVE  At(unit.functions[f + 1].body, pc).args[1] \in Nat
<1> DEFINE body == unit.functions[f + 1].body
           call == body[pc + 1]
           R == [type : InstructionTypes, args : Seq(Int)]
<1>1. unit.functions[f + 1] \in Function /\ IsCompleteFunction(unit.functions[f + 1])
  BY FunctionFacts
<1>2. body \in Seq(R) /\ Len(body) \in Nat
  BY <1>1 DEF Function, Code
<1>3. pc + 1 \in DOMAIN body
  BY <1>2
<1>4. /\ Len(call.args) = Len(ArgumentTypes(call.type))
      /\ \A slot \in LocalsOf(call, {"read", "read_write"}) : slot >= 0
  BY <1>1, <1>3 DEF IsCompleteFunction
<1>5. call \in R
  <2> HIDE DEF R, body
  <2> QED BY <1>2, <1>3
<1>6. call.type = "call" /\ call.args \in Seq(Int)
  BY <1>5 DEF At
<1>7. ArgumentTypes(call.type) = <<"read_write", "constant">>
  BY <1>6 DEF ArgumentTypes, ReadWriteOne, WithConstant, BinaryTypes
<1>8. call.args[1] \in LocalsOf(call, {"read", "read_write"})
  <2> HIDE DEF call
  <2> DEFINE types == ArgumentTypes(call.type)
  <2>1. 1 \in DOMAIN types /\ types[1] \in {"read", "read_write"}
    BY <1>7
  <2> HIDE DEF types
  <2>2. 1 \in {k \in DOMAIN types : types[k] \in {"read", "read_write"}}
    BY <2>1
  <2>3. LocalsOf(call, {"read", "read_write"})
          = {call.args[k] : k \in {k \in DOMAIN types : types[k] \in {"read", "read_write"}}}
    BY DEF LocalsOf, types
  <2> QED BY <2>2, <2>3
<1> HIDE DEF call
<1>9. call.args[1] \in Int /\ call.args[1] >= 0
  BY <1>4, <1>6, <1>7, <1>8
<1> QED BY <1>9 DEF At, call

LEMMA LeaveFunctionStep ==
  ASSUME MachineInv, LeaveFunction PROVE MachineInv' /\ CallersKept
<1> DEFINE n == Len(frames)
<1>1. /\ stage = "running" /\ UNCHANGED <<unit, heap, error>>
      /\ locals' = SubSeq(locals, 1, Top.base + 1)
  BY DEF LeaveFunction
<1>2. /\ n \in Nat \ {0} /\ DOMAIN frames = 1 .. n /\ IsSequence(frames)
      /\ Top.base \in Nat /\ Top.base < Len(locals) /\ frames[n] = Top
  BY TopFacts DEF MachineInv, FramesAreNested, Top
<1>3. /\ \A k \in DOMAIN frames : IsSoundFrame(frames[k])
      /\ frames[1].base = 0 /\ \A k \in 1 .. n - 1 : IsCallOf(frames[k], frames[k + 1])
  BY DEF MachineInv, FramesAreNested
<1>4. /\ IsSequence(locals) /\ Len(locals) \in Nat /\ DOMAIN locals = 1 .. Len(locals)
      /\ \A i \in DOMAIN locals : IsSound(locals[i])
  BY DEF MachineInv, SlotsAreSound, IsSequence
<1>5. /\ IsSequence(locals') /\ Len(locals') = Top.base + 1
      /\ DOMAIN locals' = 1 .. Top.base + 1
      /\ \A i \in 1 .. Top.base + 1 : locals'[i] = locals[i]
  <2>1. Top.base + 1 \in 0 .. Len(locals)
    BY <1>2, <1>4
  <2> QED BY <1>1, <1>4, <2>1, SubSeqIs
<1>6. HeapGrows /\ ObjectsAreSound'
  BY <1>1, SameHeap
<1>7. SlotsAreSound'
  <2>1. ASSUME NEW i \in DOMAIN locals' PROVE IsSound(locals[i])'
    <3>1. i \in DOMAIN locals /\ locals'[i] = locals[i]
      BY <1>2, <1>4, <1>5
    <3> QED BY <1>1, <1>4, <3>1 DEF IsSound
  <2> QED BY <1>5, <2>1 DEF SlotsAreSound
<1>8. CallersKept
  BY <1>2, <1>5 DEF CallersKept
<1>9. IsComplete'
  BY <1>1, UnitStays DEF MachineInv
<1>10. CASE n = 1
  <2>1. stage' = "finished" /\ frames' = frames
    BY <1>10 DEF LeaveFunction
  <2>2. FramesAreNested'
    <3>1. Top' = Top /\ Top.base < Len(locals')
      BY <1>2, <1>5, <2>1 DEF Top
    <3> QED BY <1>1, <2>1, <3>1 DEF MachineInv, FramesAreNested, IsSoundFrame, IsCallOf, BodyOf,
              FunctionOf, IsSound, IsClosure, Callee
  <2> QED BY <1>1, <1>6, <1>7, <1>8, <1>9, <2>1, <2>2 DEF MachineInv
<1>11. CASE n # 1
  <2> DEFINE m == n - 1
             caller == frames[m]
             below == SubSeq(frames, 1, m)
             next == [caller EXCEPT !.pc = @ + 1]
  <2>1. stage' = stage /\ frames' = [below EXCEPT ![m].pc = @ + 1]
    BY <1>11 DEF LeaveFunction
  <2>2. m \in Nat \ {0} /\ m \in 0 .. n /\ n = m + 1 /\ m \in 1 .. n - 1
    BY <1>2, <1>11
  <2>3. /\ IsSequence(below) /\ Len(below) = m /\ DOMAIN below = 1 .. m
        /\ \A i \in 1 .. m : below[i] = frames[i]
    BY <1>2, <2>2, SubSeqIs
  <2> HIDE DEF n, m, below
  <2>4. /\ IsSoundFrame(caller) /\ IsCallOf(caller, Top)
    BY <1>2, <1>3, <2>2
  <2>5. /\ DOMAIN next = {"function", "base", "pc", "current"}
        /\ next.function = caller.function /\ next.base = caller.base
        /\ next.current = caller.current /\ next.pc = caller.pc + 1
    BY <2>4 DEF IsSoundFrame
  <2>6. frames' = [i \in 1 .. m |-> IF i = m THEN next ELSE frames[i]]
    BY <2>1, <2>2, <2>3 DEF IsSequence
  <2> HIDE DEF next
  <2>7. /\ DOMAIN frames' = 1 .. m /\ frames'[m] = next
        /\ \A i \in 1 .. m - 1 : frames'[i] = frames[i]
    BY <2>2, <2>6
  <2>8. Len(frames') = m /\ IsSequence(frames')
    BY <2>2, <2>6, <2>7 DEF IsSequence
  <2>9. BodyOf(next) = BodyOf(caller) /\ Len(BodyOf(caller)) \in Nat
    <3>1. FunctionOf(caller) \in Function
      BY <2>4, FunctionFacts DEF IsSoundFrame, FunctionOf, MachineInv
    <3> QED BY <2>5, <3>1 DEF BodyOf, FunctionOf, Function, Code
  <2>10. next.pc \in 0 .. Len(BodyOf(next))
    BY <2>4, <2>5, <2>9 DEF IsSoundFrame, IsCallOf
  <2>11. IsSoundFrame(next)
    BY <2>4, <2>5, <2>10 DEF IsSoundFrame
  <2>12. caller.base <= Top.base /\ caller.base \in Nat
    <3> DEFINE call == At(BodyOf(caller), caller.pc)
    <3>1. /\ caller.pc \in 0 .. Len(BodyOf(caller)) - 1
          /\ call.type = "call" /\ Top.base = caller.base + call.args[1]
          /\ caller.base \in Nat /\ caller.function \in Positions(unit.functions)
      BY <2>4, <2>9 DEF IsSoundFrame, IsCallOf
    <3>2. call.args[1] \in Nat
      BY <3>1, CallArgument DEF MachineInv, BodyOf, FunctionOf
    <3> HIDE DEF call
    <3> QED BY <3>1, <3>2
  <2>13. ASSUME NEW k \in DOMAIN frames' PROVE IsSoundFrame(frames[k])'
    <3>1. \A frame : frame = frames'[k] => IsSoundFrame(frame)
      BY <1>2, <1>3, <2>2, <2>7, <2>11
    <3>2. \A frame : frame = frames'[k] => IsSoundFrame(frame)'
      BY <1>6, <3>1, FramesStaySound DEF MachineInv
    <3> QED BY <3>2 DEF IsSoundFrame, BodyOf, FunctionOf, IsSound, IsClosure, Callee
  <2>14. \A k \in 1 .. m - 1 : IsCallOf(frames'[k], frames'[k + 1])
    <3> SUFFICES ASSUME NEW k \in 1 .. m - 1 PROVE IsCallOf(frames'[k], frames'[k + 1])
      OBVIOUS
    <3>1. IsCallOf(frames[k], frames[k + 1]) /\ frames'[k] = frames[k]
      BY <1>3, <2>2, <2>7 DEF n
    <3>2. frames'[k + 1].base = frames[k + 1].base
      BY <2>2, <2>5, <2>7
    <3> QED BY <3>1, <3>2 DEF IsCallOf
  <2>15. \A k \in 1 .. Len(frames') - 1 : IsCallOf(frames[k], frames[k + 1])'
    BY <1>1, <2>8, <2>14 DEF IsCallOf, BodyOf, FunctionOf
  <2>16. frames'[1].base = 0
    BY <1>3, <2>2, <2>5, <2>7
  <2>17. Top'.base < Len(locals') /\ frames' # <<>>
    <3>1. Top' = next
      BY <2>7, <2>8 DEF Top
    <3>2. Len(frames') # 0
      BY <2>2, <2>8
    <3> QED BY <1>2, <1>5, <2>5, <2>12, <3>1, <3>2
  <2>18. FramesAreNested'
    BY <2>8, <2>13, <2>15, <2>16, <2>17 DEF FramesAreNested
  <2> QED BY <1>1, <1>6, <1>7, <1>8, <2>1, <2>18, StillRunning
<1> QED BY <1>10, <1>11

-----------------------------------------------------------------------------
LEMMA TurnStep ==
  ASSUME MachineInv, Turn PROVE MachineInv' /\ CallersKept
BY LoadConstantStep, LoadFromUnitStep, CopyLocalStep, OperateStep, JumpStep, MakeTableStep,
   SetTableElementStep, GetTableElementStep, BindValueStep, GetBoundValueStep, CallP0Step,
   LeaveFunctionStep, CallObjectStep, LoadModuleStep DEF Turn

LEMMA SingletonIs ==
  ASSUME NEW x
  PROVE  /\ IsSequence(<<x>>) /\ Len(<<x>>) = 1 /\ DOMAIN <<x>> = {1} /\ <<x>>[1] = x
         /\ <<x>> # <<>>
<1>1. <<x>> \in Seq({x})
  OBVIOUS
<1>2. IsSequence(<<x>>)
  BY <1>1, InSeqIsSequence
<1>3. Len(<<x>>) = 1 /\ <<x>>[1] = x /\ DOMAIN <<x>> = {1}
  OBVIOUS
<1>4. Len(<<>>) = 0
  OBVIOUS
<1> QED BY <1>2, <1>3, <1>4

LEMMA BootIsSound == Boot /\ IsComplete => MachineInv
<1> SUFFICES ASSUME Boot, IsComplete PROVE MachineInv
  OBVIOUS
<1> DEFINE main == FunctionValue(0)
           first == Activation(0, 0, main)
<1>1. /\ stage = "running" /\ locals = <<main>> /\ frames = <<first>> /\ heap = <<>> /\ error = ""
  BY DEF Boot, FirstLocals, FirstFrames
<1>2. 0 \in Positions(unit.functions)
  <2>1. unit.functions \in Seq(Function) /\ unit.functions # <<>>
    BY DEF IsComplete
  <2>2. Len(unit.functions) \in Nat \ {0}
    BY <2>1
  <2> QED BY <2>2 DEF Positions
<1>3. IsSound(main) /\ Type(main) = "function" /\ Callee(main) = 0
  BY <1>2 DEF IsSound, FunctionValue, Type, Callee
<1>4. /\ first.function = 0 /\ first.base = 0 /\ first.pc = 0 /\ first.current = main
      /\ DOMAIN first = {"function", "base", "pc", "current"}
  BY DEF Activation
<1> HIDE DEF main, first
<1>5. Len(BodyOf(first)) \in Nat
  <2>1. FunctionOf(first) \in Function
    BY <1>2, <1>4, FunctionFacts DEF FunctionOf
  <2> QED BY <2>1 DEF BodyOf, Function, Code
<1>6. IsSoundFrame(first)
  BY <1>2, <1>3, <1>4, <1>5 DEF IsSoundFrame
<1>7. /\ Len(frames) = 1 /\ frames[1] = first /\ DOMAIN frames = {1}
      /\ IsSequence(frames) /\ frames # <<>>
  BY <1>1, SingletonIs
<1>8. Top = first
  BY <1>7 DEF Top
<1>9. Len(locals) = 1 /\ locals[1] = main /\ DOMAIN locals = {1} /\ IsSequence(locals)
  BY <1>1, SingletonIs
<1>10. SlotsAreSound
  BY <1>3, <1>9 DEF SlotsAreSound
<1>11. ObjectsAreSound
  <2>1. IsSequence(<<>>)
    BY DEF IsSequence
  <2>2. DOMAIN <<>> = {}
    OBVIOUS
  <2>3. heap = <<>>
    BY <1>1
  <2> QED BY <2>1, <2>2, <2>3 DEF ObjectsAreSound
<1>12. FramesAreNested
  BY <1>4, <1>6, <1>7, <1>8, <1>9 DEF FramesAreNested
<1> QED BY <1>1, <1>10, <1>11, <1>12 DEF MachineInv

LEMMA InvariantStep == MachineInv /\ [Turn]_machine => MachineInv'
<1> SUFFICES ASSUME MachineInv, [Turn]_machine PROVE MachineInv'
  OBVIOUS
<1>1. CASE Turn
  BY <1>1, TurnStep
<1>2. CASE UNCHANGED machine
  <2>1. UNCHANGED <<stage, unit, locals, frames, heap, error>>
    BY <1>2 DEF machine
  <2>2. IsComplete'
    BY <2>1, UnitStays DEF MachineInv
  <2>3. SlotsAreSound' /\ ObjectsAreSound'
    BY <2>1 DEF MachineInv, SlotsAreSound, ObjectsAreSound, IsSoundObject, IsSound
  <2>4. FramesAreNested'
    BY <2>1 DEF MachineInv, FramesAreNested, IsSoundFrame, IsCallOf, BodyOf, FunctionOf, IsSound,
                IsClosure, Callee, Top
  <2> QED BY <2>1, <2>2, <2>3, <2>4 DEF MachineInv
<1> QED BY <1>1, <1>2

(* Whatever complete unit is run, every value refers to a function or an   *)
(* object that exists and every activation is within its code, on top of   *)
(* the caller that waits for it.                                           *)
THEOREM Soundness == MachineSpec => []MachineIsSound
<1>1. MachineInv => MachineIsSound
  BY DEF MachineInv, MachineIsSound
<1> QED BY <1>1, BootIsSound, InvariantStep, PTL DEF MachineSpec

(* No instruction, call or return touches a slot of a caller.              *)
THEOREM CallersAreSafe == MachineSpec => CallersAreLeftAlone
<1>1. MachineInv /\ [Turn]_machine =>
        [stage = "running" =>
           /\ Top.base <= Len(locals')
           /\ \A i \in 1 .. Top.base : locals'[i] = locals[i]]_machine
  BY TurnStep DEF CallersKept
<1> QED BY <1>1, BootIsSound, InvariantStep, PTL DEF MachineSpec, CallersAreLeftAlone
=============================================================================

---------------------------- MODULE Interpreter ----------------------------
(***************************************************************************)
(* p0run's interpreter running one unit, an instruction at a time, on one  *)
(* array of slots that all activations share.  A module is a native object *)
(* that answers every call; what it is told are the program's events.      *)
(***************************************************************************)
EXTENDS Instructions, Values

CONSTANT
  MaxEvents     \* bound: calls of native objects that are followed

ASSUME InterpreterAssumption == MaxEvents \in Nat

VARIABLES
  stage,    \* "running", "finished" or "failed"
  unit,     \* the unit that runs
  locals,   \* m_locals
  frames,   \* the activations of native_call, innermost last
  heap,     \* the tables and closures
  events,   \* what the world has been told
  error     \* the runtime error that ended the program

machine == <<stage, unit, locals, frames, heap, events, error>>

Padded(slots, size) ==
  [i \in 1 .. IF Len(slots) < size THEN size ELSE Len(slots) |->
     IF i <= Len(slots) THEN slots[i] ELSE NullValue]

(* get: the array grows to the slot that is asked for. *)
Slots(slots, index, value) ==
  [Padded(slots, index + 1) EXCEPT ![index + 1] = value]

FunctionValue(index) == <<"function", index>>
ObjectValue(address) == <<"object", address>>

(* native_call: the missing arguments are null. *)
Activation(function, base, current) ==
  [function |-> function, base |-> base, pc |-> 0, current |-> current]
EnterLocals(slots, base, count, parameters) ==
  LET padded == Padded(slots, base + 1 + parameters) IN
  [i \in DOMAIN padded |->
     IF base + 1 + count < i /\ i <= base + 1 + parameters THEN NullValue ELSE padded[i]]

(* The unit's first function is called. *)
FirstLocals == <<FunctionValue(0)>>
FirstFrames == <<Activation(0, 0, FunctionValue(0))>>
Boot ==
  /\ stage = "running"
  /\ locals = FirstLocals /\ frames = FirstFrames
  /\ heap = <<>> /\ events = <<>> /\ error = ""

Top == frames[Len(frames)]
FunctionOf(frame) == unit.functions[frame.function + 1]
BodyOf(frame) == FunctionOf(frame).body
AtEnd == Top.pc = Len(BodyOf(Top))
Instruction == At(BodyOf(Top), Top.pc)
Argument(k) == Instruction.args[k]
Local(slot) ==
  LET i == Top.base + slot + 1 IN IF i <= Len(locals) THEN locals[i] ELSE NullValue

Executes(types) == stage = "running" /\ ~AtEnd /\ Instruction.type \in types

(* What comes next, and what is left alone. *)
GoTo(position) == frames' = [frames EXCEPT ![Len(frames)].pc = position]
Proceed == GoTo(Top.pc + 1) /\ UNCHANGED <<stage, unit, error>>

(* Mutant: the frame's offset is forgotten. *)
StoreFromZero(slot, value) == locals' = Slots(locals, slot, value)

Store(slot, value) == locals' = Slots(locals, Top.base + slot, value)
RaiseError(code) ==
  /\ stage' = "failed" /\ error' = code
  /\ UNCHANGED <<unit, locals, frames, heap, events>>

IsObject(value) == Type(value) \in {"object", "string", "native"}
IsTable(value) == Type(value) = "object" /\ heap[value[2]].kind = "table"
IsClosure(value) == Type(value) = "object" /\ heap[value[2]].kind = "closure"
NewTable == [kind |-> "table", elements |-> NoElements, function |-> 0, bound |-> <<>>]
NewClosure(function) ==
  [kind |-> "closure", elements |-> NoElements, function |-> function,
   bound |-> [i \in 1 .. unit.functions[function + 1].bound |-> NullValue]]

LoadConstant ==
  /\ Executes({"set_from_constant", "set_null"})
  /\ Store(Argument(1), IF Instruction.type = "set_null" THEN NullValue
                        ELSE IntegerValue(Argument(2)))
  /\ Proceed
  /\ UNCHANGED <<heap, events>>

LoadFromUnit ==
  /\ Executes({"set_function", "set_string"})
  /\ IF Instruction.type = "set_function"
       THEN IF Argument(2) \notin Positions(unit.functions) THEN RaiseError("invalid_function_id")
            ELSE Store(Argument(1), FunctionValue(Argument(2)))
                 /\ Proceed /\ UNCHANGED <<heap, events>>
       ELSE IF Argument(2) \notin Positions(unit.strings) THEN RaiseError("invalid_string_id")
            ELSE Store(Argument(1), StringValue(At(unit.strings, Argument(2))))
                 /\ Proceed /\ UNCHANGED <<heap, events>>

CopyLocal ==
  /\ Executes({"copy", "current_function"})
  /\ Store(Argument(1), IF Instruction.type = "copy" THEN Local(Argument(2)) ELSE Top.current)
  /\ Proceed
  /\ UNCHANGED <<heap, events>>

OperateUnary == {"not", "invert", "negate"}
OperateBinary == BinaryTypes \ {"copy"}
Operate ==
  /\ Executes(OperateUnary \cup OperateBinary)
  /\ LET result == IF Instruction.type \in OperateUnary
                     THEN ApplyUnary(Instruction.type, Local(Argument(1)))
                     ELSE ApplyBinary(Instruction.type, Local(Argument(1)), Local(Argument(2)))
     IN IF result.error # "" THEN RaiseError(result.error)
        ELSE Store(Argument(1), result.value) /\ Proceed /\ UNCHANGED <<heap, events>>

(* Jumps; the instruction that does nothing is one that is never taken. *)
Taken ==
  \/ Instruction.type = "jump"
  \/ /\ Instruction.type \in {"jump_if", "jump_if_not"}
     /\ Truth(Local(Argument(2))) = (Instruction.type = "jump_if")
Jump ==
  /\ Executes(JumpTypes \cup {"nothing"})
  /\ IF IsAnyJump(Instruction) /\ Destination(Instruction) \notin 0 .. Len(BodyOf(Top))
       THEN RaiseError("jump_out_of_range")
       ELSE /\ GoTo(IF Taken THEN Destination(Instruction) ELSE Top.pc + 1)
            /\ UNCHANGED <<stage, unit, locals, heap, events, error>>

MakeTable ==
  /\ Executes({"new_table"})
  /\ heap' = Append(heap, NewTable)
  /\ Store(Argument(1), ObjectValue(Len(heap) + 1))
  /\ Proceed
  /\ UNCHANGED events

SetTableElement ==
  /\ Executes({"set_element"})
  /\ LET table == Local(Argument(1)) IN
     IF ~IsObject(table) THEN RaiseError("set_on_non_object")
     ELSE IF ~IsTable(table) THEN RaiseError("set_not_supported")
     ELSE /\ heap' = [heap EXCEPT ![table[2]].elements =
                        SetElement(@, Local(Argument(2)), Local(Argument(3)))]
          /\ Proceed
          /\ UNCHANGED <<locals, events>>

GetTableElement ==
  /\ Executes({"get_element"})
  /\ LET table == Local(Argument(1)) IN
     IF ~IsObject(table) THEN RaiseError("get_from_non_object")
     ELSE LET found == CASE IsTable(table) ->
                              Result(GetElement(heap[table[2]].elements, Local(Argument(2))))
                         [] Type(table) = "string" -> Character(table[2], Local(Argument(2)))
                         [] OTHER -> Failure("get_not_supported")
          IN IF found.error # "" THEN RaiseError(found.error)
             ELSE Store(Argument(3), found.value) /\ Proceed /\ UNCHANGED <<heap, events>>

(* function::bind and get_bound: numbers of bound variables from 0. *)
IsBound(object, index) == index \in Positions(object.bound)
Bound(object, index, value) == [object EXCEPT !.bound[index + 1] = value]

(* A function becomes a closure when the first variable is bound to it. *)
BindNew(function, index) ==
  /\ heap' = Append(heap, Bound(NewClosure(function), index, Local(Argument(3))))
  /\ Store(Argument(1), ObjectValue(Len(heap) + 1))
BindAgain(address, index) ==
  /\ heap' = [heap EXCEPT ![address] = Bound(@, index, Local(Argument(3)))]
  /\ UNCHANGED locals
BindValue ==
  /\ Executes({"bind"})
  /\ LET closure == Local(Argument(1))
         index == Argument(2)
     IN IF Type(closure) = "function"
        THEN IF ~IsBound(NewClosure(closure[2]), index) THEN RaiseError("bind_to_non_function")
             ELSE BindNew(closure[2], index) /\ Proceed /\ UNCHANGED events
        ELSE IF ~IsClosure(closure) THEN RaiseError("bind_to_non_function")
        ELSE IF ~IsBound(heap[closure[2]], index) THEN RaiseError("bind_to_non_function")
        ELSE BindAgain(closure[2], index) /\ Proceed /\ UNCHANGED events

GetBoundValue ==
  /\ Executes({"get_bound"})
  /\ LET closure == Local(Argument(1)) IN
     IF ~IsClosure(closure) THEN RaiseError("no_bound_value")
     ELSE IF ~IsBound(heap[closure[2]], Argument(2)) THEN RaiseError("no_bound_value")
     ELSE /\ Store(Argument(3), At(heap[closure[2]].bound, Argument(2)))
          /\ Proceed
          /\ UNCHANGED <<heap, events>>

(* A function is entered where its arguments are. *)
Callee(value) == IF Type(value) = "function" THEN value[2] ELSE heap[value[2]].function
CallP0 ==
  /\ Executes({"call"})
  /\ LET callee == Local(Argument(1))
         base == Top.base + Argument(1)
         entered == Activation(Callee(callee), base, callee)
     IN /\ Type(callee) = "function" \/ IsClosure(callee)
        /\ locals' = EnterLocals(Padded(locals, base + 1 + Argument(2)), base, Argument(2),
                                 FunctionOf(entered).parameters)
        /\ frames' = Append(frames, entered)
  /\ UNCHANGED <<stage, unit, heap, events, error>>

(* Mutant: the frame is truncated with its result. *)
LeaveNothing ==
  /\ stage = "running" /\ AtEnd
  /\ locals' = SubSeq(locals, 1, Top.base)
  /\ IF Len(frames) = 1 THEN stage' = "finished" /\ UNCHANGED frames
     ELSE /\ frames' = [SubSeq(frames, 1, Len(frames) - 1) EXCEPT ![Len(frames) - 1].pc = @ + 1]
          /\ UNCHANGED stage
  /\ UNCHANGED <<unit, heap, events, error>>

(* The next instruction of the caller; only the result stays of the frame. *)
LeaveFunction ==
  /\ stage = "running" /\ AtEnd
  /\ locals' = SubSeq(locals, 1, Top.base + 1)
  /\ IF Len(frames) = 1 THEN stage' = "finished" /\ UNCHANGED frames
     ELSE /\ frames' = [SubSeq(frames, 1, Len(frames) - 1) EXCEPT ![Len(frames) - 1].pc = @ + 1]
          /\ UNCHANGED stage
  /\ UNCHANGED <<unit, heap, events, error>>

SeenBy(value) == IF Type(value) \in {"object", "function"} THEN <<"something", 0>> ELSE value

(* A native object has seen the arguments and has answered. *)
AnswerCall(name, slot, count) ==
  /\ Len(events) < MaxEvents
  /\ events' = Append(events, <<name, [i \in 1 .. count |-> SeenBy(Local(slot + i))]>>)
  /\ Store(slot, IntegerValue((Len(events) + 1) % 2))
  /\ Proceed
  /\ UNCHANGED heap

CallObject ==
  /\ Executes({"call"})
  /\ LET callee == Local(Argument(1)) IN
     /\ Type(callee) # "function" /\ ~IsClosure(callee)
     /\ IF Type(callee) = "native" THEN AnswerCall("call", Argument(1), Argument(2))
        ELSE RaiseError(IF IsObject(callee) THEN "call_not_supported" ELSE "call_non_object")

CallObjectMethod ==
  /\ Executes({"call_method"})
  /\ LET instance == Local(Argument(1)) IN
     IF Type(instance) = "native"
       THEN AnswerCall(Local(Argument(3))[2], Argument(1), Argument(2))
       ELSE RaiseError(IF IsObject(instance) THEN "call_not_supported" ELSE "call_non_object")

LoadModule ==
  /\ Executes({"load_module"})
  /\ LET name == Local(Argument(1)) IN
     IF Type(name) # "string" THEN RaiseError("invalid_module_name")
     ELSE /\ events' = Append(events, <<"import", name>>)
          /\ Store(Argument(1), <<"native", name[2]>>)
          /\ Proceed
          /\ UNCHANGED heap

Turn ==
  \/ LoadConstant \/ LoadFromUnit \/ CopyLocal \/ Operate \/ Jump
  \/ MakeTable \/ SetTableElement \/ GetTableElement
  \/ BindValue \/ GetBoundValue
  \/ CallP0 \/ LeaveFunction \/ CallObject \/ CallObjectMethod \/ LoadModule

-----------------------------------------------------------------------------
(* What the generators leave in a unit is code the interpreter can run:    *)
(* no jump, break or return is left without a destination; functions,      *)
(* strings and bound variables exist where code refers to them; no         *)
(* instruction has an invalid reference for a slot.                        *)
Code == Seq([type : InstructionTypes, args : Seq(Int)])
Function == [parameters : Nat, bound : Nat, body : Code]

IsCompleteFunction(function) ==
  \A i \in DOMAIN function.body :
    LET instruction == function.body[i]
        args == instruction.args
    IN  /\ Len(args) = Len(ArgumentTypes(instruction.type))
        /\ \A slot \in LocalsOf(instruction, {"read", "read_write"}) : slot >= 0
        /\ IsAnyJump(instruction) => Destination(instruction) \in 0 .. Len(function.body)
        /\ instruction.type \in {"call", "call_method"} => args[2] >= 0
        /\ instruction.type = "set_function" => args[2] \in Positions(unit.functions)
        /\ instruction.type = "set_string" => args[2] \in Positions(unit.strings)
        /\ instruction.type = "get_bound" => args[2] \in 0 .. function.bound - 1

IsComplete ==
  /\ unit.functions \in Seq(Function) /\ unit.functions # <<>>
  /\ \A f \in DOMAIN unit.functions : IsCompleteFunction(unit.functions[f])

MachineSpec == (Boot /\ IsComplete) /\ [][Turn]_machine

-----------------------------------------------------------------------------
IsSequence(s) == Len(s) \in Nat /\ s = [i \in 1 .. Len(s) |-> s[i]]

(* A value refers to something that exists. *)
IsSound(value) ==
  /\ Type(value) = "function" => value[2] \in Positions(unit.functions)
  /\ Type(value) = "object" => value[2] \in DOMAIN heap

SlotsAreSound ==
  IsSequence(locals) /\ \A i \in DOMAIN locals : IsSound(locals[i])

(* An object's content does too, and a closure has the bound variables     *)
(* that its function has.                                                  *)
IsSoundObject(object) ==
  /\ DOMAIN object = {"kind", "elements", "function", "bound"}
  /\ \A key \in DOMAIN object.elements : IsSound(key) /\ IsSound(object.elements[key])
  /\ IsSequence(object.bound)
  /\ \A i \in DOMAIN object.bound : IsSound(object.bound[i])
  /\ object.kind = "closure" =>
       /\ object.function \in Positions(unit.functions)
       /\ Len(object.bound) = unit.functions[object.function + 1].bound

ObjectsAreSound ==
  IsSequence(heap) /\ \A address \in DOMAIN heap : IsSoundObject(heap[address])

(* An activation runs the function it was called as, somewhere in its code. *)
IsSoundFrame(frame) ==
  /\ DOMAIN frame = {"function", "base", "pc", "current"}
  /\ frame.function \in Positions(unit.functions)
  /\ frame.base \in Nat
  /\ frame.pc \in 0 .. Len(BodyOf(frame))
  /\ IsSound(frame.current)
  /\ Type(frame.current) = "function" \/ IsClosure(frame.current)
  /\ Callee(frame.current) = frame.function

(* The caller stands at the call and the frame of its callee begins with   *)
(* the slot that the call names.                                           *)
IsCallOf(caller, callee) ==
  /\ caller.pc < Len(BodyOf(caller))
  /\ LET call == At(BodyOf(caller), caller.pc) IN
     call.type = "call" /\ callee.base = caller.base + call.args[1]

FramesAreNested ==
  /\ IsSequence(frames) /\ frames # <<>>
  /\ \A k \in DOMAIN frames : IsSoundFrame(frames[k])
  /\ frames[1].base = 0
  /\ \A k \in 1 .. Len(frames) - 1 : IsCallOf(frames[k], frames[k + 1])
  /\ Top.base < Len(locals)

(* Whatever the program does, the machine stays one that can run: every    *)
(* value in a slot, a table, a closure or an activation refers to a        *)
(* function or an object that exists, every activation is within its code  *)
(* and runs what it was called as, and its frame begins where its caller   *)
(* put its arguments and its caller expects the result.                    *)
MachineIsSound ==
  stage \in {"running", "finished", "failed"} =>
    /\ SlotsAreSound /\ ObjectsAreSound /\ FramesAreNested
    /\ (stage = "failed") = (error # "")

(* An instruction writes no slot of a caller, below the frame of the       *)
(* activation that executes it, and no return truncates the slots there.   *)
CallersAreLeftAlone ==
  [][stage = "running" =>
       /\ Top.base <= Len(locals')
       /\ \A i \in 1 .. Top.base : locals'[i] = locals[i]]_machine
=============================================================================

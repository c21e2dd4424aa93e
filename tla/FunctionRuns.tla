----------------------------- MODULE FunctionRuns -----------------------------
(***************************************************************************)
(* What p0run/interpreter.cpp makes of the instructions of one function,   *)
(* native_call, seen from inside.  What an instruction does of which the   *)
(* optimizer knows nothing (calls, tables, closures, modules, comparisons, *)
(* arithmetic but for add) is an event: what it is and which values it     *)
(* read.  Its result is what the world answers.                            *)
(***************************************************************************)
EXTENDS Instructions

CONSTANTS
  LastSlot,       \* bound: the slots of a function
  Fuel,           \* bound: the steps of a run that are followed
  Worlds,         \* the surroundings a function may run in
  Answer(_, _)    \* what a world answers to the last of the events so far:
                  \* a value, or that the instruction raises an error

ASSUME RunsAssumption == LastSlot \in Nat /\ Fuel \in Nat

Slot == 0 .. LastSlot

-----------------------------------------------------------------------------
(* Values.  Junk is what no program may depend on: a local that was not    *)
(* set yet, or a slot above a call, which native_call has truncated.       *)
Value == [type : {"integer", "object", "null", "function_ptr", "junk"}, i : Int]
Integer(n) == [type |-> "integer", i |-> n]
Object(n)  == [type |-> "object", i |-> n]
Null == [type |-> "null", i |-> 0]
Self == [type |-> "function_ptr", i |-> 0]
Junk == [type |-> "junk", i |-> 0]

ToBoolean(value) == value.type # "null" /\ (value.type = "integer" => value.i # 0)

Start(parameter, world) ==
  [pc |-> 0, error |-> "none", events |-> <<>>, world |-> world,
   locals |-> [s \in Slot |-> CASE s = 0 -> Self [] s = 1 -> parameter [] OTHER -> Junk]]

(* The slots whose content matters to the instruction. *)
Reads(instruction) ==
  LET type == instruction.type
      args == instruction.args
  IN CASE type \in {"nothing", "jump", "set_from_constant", "set_null", "set_function",
                    "set_string", "current_function", "new_table"} -> {}
       [] type = "copy" -> {args[2]}
       [] type = "call" -> args[1] .. args[1] + args[2]
       [] type = "call_method" -> (args[1] .. args[1] + args[2]) \cup {args[3]}
       [] type = "get_bound" -> {args[1]}
       [] type = "get_element" -> {args[1], args[2]}
       [] OTHER -> LocalsOf(instruction, {"read", "read_write"})

Continue(m) == [m EXCEPT !.pc = @ + 1]
Write(m, slot, value) == [Continue(m) EXCEPT !.locals[slot] = value]
Raise(m, error) == [m EXCEPT !.error = error]
JumpTo(m, position) == [m EXCEPT !.pc = position]

AddLocals(m, slot, source) ==
  LET l == m.locals[slot]
      r == m.locals[source]
  IN  IF l.type # "integer" \/ r.type # "integer" THEN Continue(m)
      ELSE IF l.i + r.i \notin Word THEN Raise(m, "integer_overflow")
      ELSE Write(m, slot, Integer(l.i + r.i))

NegateLocal(m, slot) ==
  LET operand == m.locals[slot]
  IN  IF operand.type # "integer" THEN Continue(m)
      ELSE IF operand.i = MinInt THEN Raise(m, "integer_overflow")
      ELSE Write(m, slot, Integer(- operand.i))

InvertLocal(m, slot) ==
  LET operand == m.locals[slot]
  IN  IF operand.type # "integer" THEN Continue(m) ELSE Write(m, slot, Integer(- operand.i - 1))

-----------------------------------------------------------------------------
(* Instructions whose effect lies outside. *)
ComparisonTypes == {"equal", "not_equal", "less", "less_equal", "greater", "greater_equal"}
ArithmeticTypes == {"sub", "mul", "div", "mod", "and", "or", "xor", "shift_left",
                    "shift_right", "shift_signed"}
NeverFails == ComparisonTypes \cup {"mul", "and", "or", "xor"}

(* What the answer is as a result of the instruction. *)
Result(type, answer) ==
  LET value == IF answer \in Value THEN answer ELSE Null
  IN CASE type \in ComparisonTypes -> Integer(IF ToBoolean(value) THEN 1 ELSE 0)
       [] type \in ArithmeticTypes -> Integer(value.i)
       [] type = "bind"            -> Object(value.i)
       [] OTHER                    -> value

(* What happens outside: an error, or a result in some of the slots.  The  *)
(* world answers as it likes, by all that happened and the values read.    *)
External(m, instruction, results) ==
  LET type == instruction.type
      event == <<instruction, [s \in Reads(instruction) |-> m.locals[s]]>>
      answer == Answer(m.world, Append(m.events, event))
      truncated(s) == type \in {"call", "call_method"} /\ instruction.args[1] < s
  IN IF answer \notin Value /\ type \notin NeverFails
       THEN [m EXCEPT !.events = Append(@, event), !.error = "failed"]
       ELSE [m EXCEPT !.pc = @ + 1,
                      !.events = Append(@, event),
                      !.locals = [s \in Slot |-> IF s \in results THEN Result(type, answer)
                                                ELSE IF truncated(s) THEN Junk ELSE @[s]]]

(* ArithmeticTypes leaves operands alone that are not integers. *)
ComputeLocals(m, instruction) ==
  LET slot == instruction.args[1] IN
  IF m.locals[slot].type = "integer" /\ m.locals[instruction.args[2]].type = "integer"
    THEN External(m, instruction, {slot})
    ELSE Continue(m)

(* A closure is made of a function; one that exists is bound in place. *)
Bind(m, instruction) ==
  LET slot == instruction.args[1] IN
  CASE m.locals[slot].type = "function_ptr" -> External(m, instruction, {slot})
    [] m.locals[slot].type = "object"       -> External(m, instruction, {})
    [] OTHER                                -> Raise(m, "bind_to_non_function")

(* The operand of the others has to be an object, or a function to call.   *)
OperandError(type) ==
  CASE type \in {"call", "call_method"} -> "call_non_object"
    [] type = "get_bound"   -> "no_bound_value"
    [] type = "set_element" -> "set_on_non_object"
    [] type = "get_element" -> "get_from_non_object"
    [] type = "load_module" -> "invalid_module_name"

Access(m, instruction) ==
  LET type == instruction.type
      accepted == {"object"} \cup (IF type = "call" THEN {"function_ptr"} ELSE {})
  IN IF m.locals[instruction.args[1]].type \in accepted
       THEN External(m, instruction, LocalsOf(instruction, {"read_write"}))
       ELSE Raise(m, OperandError(type))

Execute(m, instruction) ==
  LET args == instruction.args
      type == instruction.type
  IN CASE type = "nothing" -> Continue(m)
       [] type = "set_from_constant" -> Write(m, args[1], Integer(args[2]))
       [] type = "set_null" -> Write(m, args[1], Null)
       [] type = "set_function" -> Write(m, args[1], [type |-> "function_ptr", i |-> args[2] + 1])
       [] type = "set_string" -> Write(m, args[1], Object(- args[2] - 1))
       [] type = "current_function" -> Write(m, args[1], Self)
       [] type = "copy" -> Write(m, args[1], m.locals[args[2]])
       [] type = "new_table" -> Write(m, args[1], Object(0))
       [] type = "add" -> AddLocals(m, args[1], args[2])
       [] type = "not" -> Write(m, args[1], Integer(IF ToBoolean(m.locals[args[1]]) THEN 0 ELSE 1))
       [] type = "negate" -> NegateLocal(m, args[1])
       [] type = "invert" -> InvertLocal(m, args[1])
       [] type = "jump" -> JumpTo(m, args[1])
       [] type \in {"jump_if", "jump_if_not"} ->
            IF ToBoolean(m.locals[args[2]]) = (type = "jump_if") THEN JumpTo(m, args[1])
                                                                 ELSE Continue(m)
       [] type = "bind" -> Bind(m, instruction)
       [] type \in ComparisonTypes ->
            External(m, instruction, LocalsOf(instruction, {"read_write"}))
       [] type \in ArithmeticTypes -> ComputeLocals(m, instruction)
       [] OTHER -> Access(m, instruction)

Halted(code, m) == m.error # "none" \/ m.pc = Len(code)

(* One turn of native_call's loop. *)
Step(code, m) ==
  IF Halted(code, m) THEN m
  ELSE LET instruction == At(code, m.pc) IN
       IF \E s \in Reads(instruction) : m.locals[s] = Junk THEN Raise(m, "junk")
       ELSE Execute(m, instruction)

(* A call of the function. *)
Run(code, parameter, world) ==
  LET run[n \in 0 .. Fuel] == IF n = 0 THEN Start(parameter, world) ELSE Step(code, run[n - 1])
  IN  run

(* What the caller of a function and the rest of the world see of a run. *)
Behaviour(code, parameter, world) ==
  LET m == Run(code, parameter, world)[Fuel] IN
  IF Halted(code, m)
    THEN [halted |-> TRUE, error |-> m.error, events |-> m.events,
          result |-> IF m.error = "none" THEN m.locals[0] ELSE Null]
    ELSE [halted |-> FALSE, error |-> "none", events |-> <<>>, result |-> Null]
=============================================================================

---------------------------- MODULE Instructions ----------------------------
(***************************************************************************)
(* The intermediate code of p0i: instructions and the roles of their       *)
(* arguments.  Positions and slots count from 0, as in the code.           *)
(***************************************************************************)
EXTENDS Integers, Sequences

CONSTANT MaxInt   \* the largest run::integer

ASSUME InstructionsAssumption == MaxInt \in Nat

MinInt == - MaxInt - 1
Word == MinInt .. MaxInt

Make(type, arguments) == [type |-> type, args |-> arguments]
At(code, i) == code[i + 1]
Positions(code) == 0 .. Len(code) - 1

JumpTypes == {"jump", "jump_if", "jump_if_not"}
IsAnyJump(instruction) == instruction.type \in JumpTypes
Destination(instruction) == instruction.args[1]

ReadWriteOne == {"set_null", "current_function", "not", "invert", "negate", "new_table",
                 "load_module"}
WithConstant == {"set_from_constant", "set_function", "set_string", "call"}
BinaryTypes  == {"copy", "add", "sub", "mul", "div", "mod", "and", "or", "xor", "shift_left",
                 "shift_right", "shift_signed", "equal", "not_equal", "less", "less_equal",
                 "greater", "greater_equal"}

InstructionTypes ==
  {"nothing", "bind", "get_bound", "call_method", "set_element", "get_element"}
    \cup JumpTypes \cup ReadWriteOne \cup WithConstant \cup BinaryTypes

(* The roles of an instruction's arguments as get_instruction_info has     *)
(* them; the arguments of a call are not among them.                       *)
ArgumentTypes(type) ==
  CASE type = "nothing"                      -> <<>>
    [] type \in ReadWriteOne                 -> <<"read_write">>
    [] type \in WithConstant                 -> <<"read_write", "constant">>
    [] type \in BinaryTypes                  -> <<"read_write", "read">>
    [] type = "jump"                         -> <<"constant">>
    [] type \in {"jump_if", "jump_if_not"}   -> <<"constant", "read">>
    [] type = "bind"                         -> <<"read", "constant", "read">>
    [] type = "get_bound"                    -> <<"read", "constant", "read_write">>
    [] type = "call_method"                  -> <<"read_write", "constant", "read">>
    [] type = "set_element"                  -> <<"read", "read", "read">>
    [] type = "get_element"                  -> <<"read", "read", "read_write">>

LocalsOf(instruction, roles) ==
  LET types == ArgumentTypes(instruction.type)
  IN  {instruction.args[k] : k \in {n \in DOMAIN types : types[n] \in roles}}

=============================================================================

---------------------------- MODULE CallProtocol ----------------------------
(***************************************************************************)
(* The call discipline of p0run/interpreter.cpp: how activations of p0     *)
(* code, of native objects and of module loaders share the one array       *)
(* m_locals, the stack m_current_function_stack and the frame offset       *)
(* m_next_call_frame.                                                      *)
(*                                                                         *)
(* The program is left open: any instruction may come next, and those that *)
(* call nothing may grow the array and write one slot of their frame.      *)
(* Addresses are 0-based, as in the code.                                  *)
(***************************************************************************)
EXTENDS Naturals, Sequences

CONSTANTS
  Value,           \* what a slot can hold
  Null,            \* a default-constructed value
  MaxSlots,        \* bound: slots of m_locals
  MaxDepth,        \* bound: nested activations
  MaxArguments,    \* bound: arguments of a call and parameters of a function
  LoadersRunCode   \* does a module loader call interpreter::call?

ASSUME ConstantsAssumption ==
  /\ Null \in Value
  /\ MaxSlots \in Nat /\ MaxDepth \in Nat /\ MaxArguments \in Nat
  /\ LoadersRunCode \in BOOLEAN

VARIABLES
  size,         \* m_locals.size()
  locals,       \* the elements of m_locals; Null from size on
  functions,    \* m_current_function_stack
  nextFrame,    \* m_next_call_frame
  stack,        \* the C++ activations, innermost last
  throwing      \* an exception is propagating

vars == <<size, locals, functions, nextFrame, stack, throwing>>

Slot == 0 .. MaxSlots - 1

(* An activation: the first slot that is its own and what m_next_call_frame*)
(* was when it was entered (the auto_swapper of a native call puts that    *)
(* back).  For the properties: the callee, the function stack's height,    *)
(* how many slots below are not its own and what they held at the time.    *)
Activation ==
  [kind : {"p0", "native", "loader"}, base : Slot, saved : Nat, callee : Value,
   height : Nat, keep : Nat, snapshot : [Slot -> Value]]

Top == stack[Len(stack)]
Outermost == stack = <<>>
Pop(s) == [i \in 1 .. Len(s) - 1 |-> s[i]]

(* Is C++ code of the host, a native object or a loader running? *)
NativeRunning(kinds) ==
  /\ ~throwing
  /\ ~Outermost => Top.kind \in kinds

CodeRunning == ~throwing /\ ~Outermost /\ Top.kind = "p0"

NewActivation(kind, base, callee, height, keep, held) ==
  [kind |-> kind, base |-> base, saved |-> nextFrame, callee |-> callee,
   height |-> height, keep |-> keep,
   snapshot |-> [i \in Slot |-> IF i < keep THEN held[i] ELSE Null]]

Init ==
  /\ size = 0
  /\ locals = [i \in Slot |-> Null]
  /\ functions = <<>>
  /\ nextFrame = 0
  /\ stack = <<>>
  /\ throwing = FALSE

Larger(m, n) == IF m < n THEN n ELSE m

(* The arguments that a call leaves out are set to null. *)
NullMissing(held, base, count, parameters) ==
  [i \in Slot |-> IF base + count < i /\ i <= base + parameters THEN Null ELSE held[i]]

(* native_call: the callee is remembered for current_function and the      *)
(* frame starts at the slot that holds it.                                 *)
EnterFunction(base, callee, count, parameters, held, heldSize) ==
  /\ Len(stack) < MaxDepth
  /\ base + Larger(count, parameters) < MaxSlots
  /\ locals' = NullMissing(held, base, count, parameters)
  /\ size' = IF count < parameters THEN Larger(heldSize, base + 1 + parameters) ELSE heldSize
  /\ functions' = Append(functions, callee)
  /\ stack' = Append(stack, NewActivation("p0", base, callee, Len(functions) + 1, base, held))
  /\ UNCHANGED <<nextFrame, throwing>>

(* interpreter::call from the host or from a native object: the callee and *)
(* the arguments are written to the frame that starts at m_next_call_frame.*)
CallFromNative(callee, arguments, parameters) ==
  /\ NativeRunning(IF LoadersRunCode THEN {"native", "loader"} ELSE {"native"})
  /\ nextFrame + Len(arguments) < MaxSlots
  /\ LET written == [i \in Slot |->
           IF i = nextFrame THEN callee
           ELSE IF nextFrame < i /\ i <= nextFrame + Len(arguments)
             THEN arguments[i - nextFrame]
             ELSE locals[i]]
     IN EnterFunction(nextFrame, callee, Len(arguments), parameters, written,
                      Larger(size, nextFrame + 1 + Len(arguments)))

(* Instruction call on a function_ptr: the arguments are in place already. *)
CallFunctionPtr(address, count, parameters) ==
  /\ CodeRunning
  /\ Top.base + address \in Slot
  /\ EnterFunction(Top.base + address, locals[Top.base + address], count, parameters,
                   locals, Larger(size, Top.base + address + 1))

(* Mutant: m_next_call_frame stays where it was during the native call. *)
CallObjectInOldFrame(address, count) ==
  LET slot == Top.base + address IN
  /\ CodeRunning
  /\ Len(stack) < MaxDepth
  /\ slot + count < MaxSlots
  /\ size' = Larger(size, slot + 1 + count)
  /\ stack' = Append(stack, NewActivation("native", slot, locals[slot], Len(functions),
                                          slot, locals))
  /\ UNCHANGED <<locals, functions, nextFrame, throwing>>

(* Instruction call or call_method on an object: the arguments are copied  *)
(* to a vector, the next frame is put where the call is, C++ code runs.    *)
CallObject(address, count) ==
  LET slot == Top.base + address IN
  /\ CodeRunning
  /\ Len(stack) < MaxDepth
  /\ slot + count < MaxSlots
  /\ size' = Larger(size, slot + 1 + count)
  /\ nextFrame' = slot
  /\ stack' = Append(stack, NewActivation("native", slot, locals[slot], Len(functions),
                                          slot, locals))
  /\ UNCHANGED <<locals, functions, throwing>>

(* Instruction load_module: the loader runs, m_next_call_frame stays.  The *)
(* caller's whole frame is still its own, but for the slot of the result.  *)
LoadModule(address) ==
  LET slot == Top.base + address IN
  /\ CodeRunning
  /\ Len(stack) < MaxDepth
  /\ slot < MaxSlots
  /\ size' = Larger(size, slot + 1)
  /\ stack' = Append(stack, NewActivation("loader", slot, locals[slot], Len(functions),
                                          Larger(size, slot + 1), locals))
  /\ UNCHANGED <<locals, functions, nextFrame, throwing>>

(* Any other instruction: get() may grow m_locals, one slot may change. *)
Instruction(newSize, address, value) ==
  LET slot == Top.base + address IN
  /\ CodeRunning
  /\ newSize \in size .. MaxSlots
  /\ slot < newSize
  /\ size' = newSize
  /\ locals' = [locals EXCEPT ![slot] = value]
  /\ UNCHANGED <<functions, nextFrame, stack, throwing>>

(* Mutant: one slot too many is kept on return. *)
ReturnKeepingArgument ==
  /\ CodeRunning
  /\ size' = Top.base + 2
  /\ locals' = [i \in Slot |-> IF i < Top.base + 2 THEN locals[i] ELSE Null]
  /\ functions' = Pop(functions)
  /\ stack' = Pop(stack)
  /\ UNCHANGED <<nextFrame, throwing>>

(* native_call gets to the end: everything but the return value is popped. *)
ReturnFromFunction ==
  /\ CodeRunning
  /\ size' = Top.base + 1
  /\ locals' = [i \in Slot |-> IF i < Top.base + 1 THEN locals[i] ELSE Null]
  /\ functions' = Pop(functions)
  /\ stack' = Pop(stack)
  /\ UNCHANGED <<nextFrame, throwing>>

(* Mutant: the offset is put back only if the call was not supported. *)
ReturnInCallFrame(value, supported) ==
  /\ ~throwing /\ ~Outermost /\ Top.kind = "native"
  /\ stack' = Pop(stack)
  /\ size' = Larger(size, Top.base + 1)
  /\ IF supported
       THEN /\ locals' = [locals EXCEPT ![Top.base] = value]
            /\ UNCHANGED <<nextFrame, throwing>>
       ELSE /\ throwing' = TRUE
            /\ nextFrame' = Top.saved
            /\ UNCHANGED locals
  /\ UNCHANGED functions

(* The native object or the loader returns: the frame offset is put back   *)
(* and the result written to where the callee (or the name) was.  An empty *)
(* result makes the caller raise call_not_supported.                       *)
ReturnFromNative(value, supported) ==
  /\ ~throwing /\ ~Outermost /\ Top.kind = "native"
  /\ nextFrame' = Top.saved
  /\ stack' = Pop(stack)
  /\ IF supported
       THEN /\ size' = Larger(size, Top.base + 1)
            /\ locals' = [locals EXCEPT ![Top.base] = value]
            /\ UNCHANGED throwing
       ELSE /\ throwing' = TRUE
            /\ UNCHANGED <<size, locals>>
  /\ UNCHANGED functions

ReturnFromLoader(value) ==
  /\ ~throwing /\ ~Outermost /\ Top.kind = "loader"
  /\ stack' = Pop(stack)
  /\ size' = Larger(size, Top.base + 1)
  /\ locals' = [locals EXCEPT ![Top.base] = value]
  /\ UNCHANGED <<functions, nextFrame, throwing>>

(* raise_error of the running function, or an exception from C++ code; the *)
(* instruction may have grown m_locals before.                             *)
Throw(newSize) ==
  /\ ~throwing /\ ~Outermost
  /\ newSize \in size .. MaxSlots
  /\ size' = newSize
  /\ throwing' = TRUE
  /\ UNCHANGED <<locals, functions, nextFrame, stack>>

(* Mutant: no pop_guard, the entry is popped by a normal return only. *)
UnwindKeepingFunction ==
  /\ throwing /\ ~Outermost
  /\ nextFrame' = IF Top.kind = "native" THEN Top.saved ELSE nextFrame
  /\ stack' = Pop(stack)
  /\ UNCHANGED <<size, locals, functions, throwing>>

(* Mutant: no auto_swapper, the offset is put back by a normal return only. *)
UnwindKeepingFrame ==
  /\ throwing /\ ~Outermost
  /\ functions' = IF Top.kind = "p0" THEN Pop(functions) ELSE functions
  /\ stack' = Pop(stack)
  /\ UNCHANGED <<size, locals, nextFrame, throwing>>

(* Unwinding destroys the guards of the innermost activation: pop_guard    *)
(* the function stack's entry, auto_swapper the frame offset.  m_locals is *)
(* not truncated.                                                          *)
Unwind ==
  /\ throwing /\ ~Outermost
  /\ functions' = IF Top.kind = "p0" THEN Pop(functions) ELSE functions
  /\ nextFrame' = IF Top.kind = "native" THEN Top.saved ELSE nextFrame
  /\ stack' = Pop(stack)
  /\ UNCHANGED <<size, locals, throwing>>

(* C++ code around interpreter::call catches; the host must in the end. *)
Catch ==
  /\ throwing
  /\ ~Outermost => Top.kind \in {"native", "loader"}
  /\ throwing' = FALSE
  /\ UNCHANGED <<size, locals, functions, nextFrame, stack>>

ArgumentLists == UNION {[1 .. n -> Value] : n \in 0 .. MaxArguments}

Next ==
  \/ \E callee \in Value, arguments \in ArgumentLists, parameters \in 0 .. MaxArguments :
       CallFromNative(callee, arguments, parameters)
  \/ \E address \in Slot, count, parameters \in 0 .. MaxArguments :
       CallFunctionPtr(address, count, parameters)
  \/ \E address \in Slot, count \in 0 .. MaxArguments : CallObject(address, count)
  \/ \E address \in Slot : LoadModule(address)
  \/ \E newSize \in 0 .. MaxSlots, address \in Slot, value \in Value :
       Instruction(newSize, address, value)
  \/ ReturnFromFunction
  \/ \E value \in Value, supported \in BOOLEAN : ReturnFromNative(value, supported)
  \/ \E value \in Value : ReturnFromLoader(value)
  \/ \E newSize \in 0 .. MaxSlots : Throw(newSize)
  \/ Unwind \/ Catch

Spec == Init /\ [][Next]_vars

-----------------------------------------------------------------------------
TypeOK ==
  /\ size \in 0 .. MaxSlots
  /\ locals \in [Slot -> Value]
  /\ functions \in Seq(Value)
  /\ nextFrame \in Nat
  /\ stack \in Seq(Activation)
  /\ throwing \in BOOLEAN

(* Nothing an activation does, directly or through what it calls, changes  *)
(* or removes a slot of its callers: m_locals still holds what it held     *)
(* below the frame when the activation was entered.                        *)
CallersUntouched ==
  \A k \in DOMAIN stack :
    /\ stack[k].keep <= size
    /\ \A i \in Slot : i < stack[k].keep => locals[i] = stack[k].snapshot[i]

(* current_function reads the back of m_current_function_stack: at any     *)
(* depth, with exceptions and callbacks, the entries are the callees of    *)
(* the p0 activations that still run, in order.                            *)
Height(k) == IF k = 0 THEN 0 ELSE stack[k].height

FunctionStackBalanced ==
  /\ Len(functions) = Height(Len(stack))
  /\ \A k \in DOMAIN stack :
       /\ stack[k].height = Height(k - 1) + (IF stack[k].kind = "p0" THEN 1 ELSE 0)
       /\ stack[k].kind = "p0" => functions[stack[k].height] = stack[k].callee

(* interpreter::call writes at m_next_call_frame, expecting the slot of    *)
(* the innermost native call there (0 if there is none): every activation  *)
(* that ends, by return or by exception, leaves the offset as it found it. *)
FrameAfter(k) ==
  IF k = 0 THEN 0 ELSE IF stack[k].kind = "native" THEN stack[k].base ELSE stack[k].saved

CallFrameRestored ==
  /\ nextFrame = FrameAfter(Len(stack))
  /\ \A k \in DOMAIN stack : stack[k].saved = FrameAfter(k - 1)

(* Both, on every path of returns and exceptions.                          *)
CallsAreBalanced == FunctionStackBalanced /\ CallFrameRestored

(* What the caller of interpreter::call finds: the frame that returns to   *)
(* C++ code is the one at m_next_call_frame, and its slot 0 exists.        *)
ResultIsInPlace ==
  [][ /\ ReturnFromFunction
      /\ Len(stack) = 1 \/ stack[Len(stack) - 1].kind # "p0"
      => Top.base = nextFrame /\ size' > nextFrame ]_vars
=============================================================================

------------------------- MODULE CallProtocolProofs -------------------------
(***************************************************************************)
(* Theorems about CallProtocol for every number of slots, nested calls,    *)
(* arguments and values.                                                   *)
(***************************************************************************)
EXTENDS CallProtocol, TLAPS

USE ConstantsAssumption DEF Slot

(* The step relation with its parameters named, to state lemmas per group. *)
Calls ==
  \/ \E callee \in Value, arguments \in ArgumentLists, parameters \in 0 .. MaxArguments :
       CallFromNative(callee, arguments, parameters)
  \/ \E address \in Slot, count, parameters \in 0 .. MaxArguments :
       CallFunctionPtr(address, count, parameters)

(* What Pop does to a sequence. *)
LEMMA PopFacts ==
  ASSUME NEW S, NEW s \in Seq(S), s # <<>>
  PROVE  /\ Len(s) \in Nat \ {0}
         /\ Pop(s) \in Seq(S)
         /\ Len(Pop(s)) = Len(s) - 1
         /\ DOMAIN Pop(s) = 1 .. Len(s) - 1
         /\ \A i \in 1 .. Len(s) - 1 : Pop(s)[i] = s[i]
BY DEF Pop

LEMMA PopType == ASSUME NEW S, NEW s \in Seq(S) PROVE Pop(s) \in Seq(S)
BY DEF Pop

(* What Append does to a sequence. *)
LEMMA AppendFacts ==
  ASSUME NEW S, NEW s \in Seq(S), NEW e \in S
  PROVE  /\ Append(s, e) \in Seq(S)
         /\ Len(Append(s, e)) = Len(s) + 1
         /\ DOMAIN Append(s, e) = 1 .. Len(s) + 1
         /\ \A i \in 1 .. Len(s) : Append(s, e)[i] = s[i]
         /\ Append(s, e)[Len(s) + 1] = e
OBVIOUS

LEMMA TopFacts ==
  ASSUME TypeOK, ~Outermost
  PROVE  /\ Len(stack) \in DOMAIN stack
         /\ Top = stack[Len(stack)]
         /\ Top \in Activation
BY DEF TypeOK, Outermost, Top

LEMMA NewActivationType ==
  ASSUME NEW kind \in {"p0", "native", "loader"}, NEW base \in Slot,
         NEW callee \in Value, NEW height \in Nat, NEW keep \in Nat,
         NEW held \in [Slot -> Value], nextFrame \in Nat
  PROVE  NewActivation(kind, base, callee, height, keep, held) \in Activation
BY DEF NewActivation, Activation

(* A call pushes one entry on each of the two stacks and writes no slot    *)
(* below the new frame.                                                    *)
Entered(base, callee, held) ==
  /\ ~throwing
  /\ \/ CodeRunning /\ base >= Top.base
     \/ /\ NativeRunning({"native", "loader"})
        /\ ~LoadersRunCode => NativeRunning({"native"})
        /\ base = nextFrame
  /\ base < MaxSlots
  /\ stack' = Append(stack, NewActivation("p0", base, callee, Len(functions) + 1, base, held))
  /\ functions' = Append(functions, callee)
  /\ size' \in size .. MaxSlots /\ base < size'
  /\ locals' \in [Slot -> Value]
  /\ \A i \in Slot : i < base => locals'[i] = locals[i] /\ held[i] = locals[i]
  /\ UNCHANGED <<nextFrame, throwing>>

LEMMA CallFromNativeEnters ==
  ASSUME TypeOK, NEW callee \in Value, NEW arguments \in ArgumentLists,
         NEW parameters \in 0 .. MaxArguments,
         CallFromNative(callee, arguments, parameters)
  PROVE  \E held \in [Slot -> Value] : Entered(nextFrame, callee, held)
<1> DEFINE held == [i \in Slot |->
         IF i = nextFrame THEN callee
         ELSE IF nextFrame < i /\ i <= nextFrame + Len(arguments)
           THEN arguments[i - nextFrame]
           ELSE locals[i]]
<1>1. PICK n \in 0 .. MaxArguments : arguments \in [1 .. n -> Value]
  BY DEF ArgumentLists
<1>2. Len(arguments) = n /\ n \in Nat
  BY <1>1
<1>3. held \in [Slot -> Value]
  <2> SUFFICES ASSUME NEW i \in Slot PROVE held[i] \in Value
    OBVIOUS
  <2>1. CASE nextFrame < i /\ i <= nextFrame + n
    <3>1. i - nextFrame \in 1 .. n
      BY <2>1 DEF TypeOK
    <3> QED BY <2>1, <3>1, <1>1, <1>2 DEF TypeOK
  <2>2. CASE ~(nextFrame < i /\ i <= nextFrame + n)
    BY <2>2, <1>2 DEF TypeOK
  <2> QED BY <2>1, <2>2
<1>4. EnterFunction(nextFrame, callee, n, parameters, held, Larger(size, nextFrame + 1 + n))
  BY <1>2 DEF CallFromNative
<1>5. nextFrame \in Nat /\ nextFrame + n < MaxSlots /\ nextFrame + parameters < MaxSlots
  BY <1>2, <1>4 DEF CallFromNative, EnterFunction, Larger, TypeOK
<1>6. locals' \in [Slot -> Value]
  BY <1>3, <1>4 DEF EnterFunction, NullMissing
<1>7. size' \in size .. MaxSlots /\ nextFrame < size'
  BY <1>2, <1>4, <1>5 DEF EnterFunction, Larger, TypeOK
<1>8. \A i \in Slot : i < nextFrame => locals'[i] = locals[i] /\ held[i] = locals[i]
  BY <1>2, <1>4, <1>5 DEF EnterFunction, NullMissing, TypeOK
<1>9. /\ ~throwing /\ NativeRunning({"native", "loader"})
      /\ (~LoadersRunCode => NativeRunning({"native"}))
  BY DEF CallFromNative, NativeRunning
<1> HIDE DEF held
<1>10. Entered(nextFrame, callee, held)
  BY <1>4, <1>5, <1>6, <1>7, <1>8, <1>9 DEF EnterFunction, Entered
<1> QED BY <1>3, <1>10

LEMMA CallFunctionPtrEnters ==
  ASSUME TypeOK, NEW address \in Slot, NEW count \in 0 .. MaxArguments,
         NEW parameters \in 0 .. MaxArguments,
         CallFunctionPtr(address, count, parameters)
  PROVE  \E base \in Nat, callee \in Value : Entered(base, callee, locals)
<1> DEFINE b == Top.base + address
<1>1. CodeRunning /\ ~throwing /\ ~Outermost
  BY DEF CallFunctionPtr, CodeRunning
<1>2. Top.base \in Nat
  BY <1>1, TopFacts DEF Activation
<1>3. b \in Slot /\ b \in Nat /\ b >= Top.base /\ locals[b] \in Value
  BY <1>2 DEF CallFunctionPtr, TypeOK
<1>4. EnterFunction(b, locals[b], count, parameters, locals, Larger(size, b + 1))
  BY DEF CallFunctionPtr
<1> HIDE DEF b
<1>5. b + parameters < MaxSlots
  BY <1>3, <1>4 DEF EnterFunction, Larger
<1>6. locals' \in [Slot -> Value]
  BY <1>4 DEF EnterFunction, NullMissing, TypeOK
<1>7. size' \in size .. MaxSlots /\ b < size'
  BY <1>3, <1>4, <1>5 DEF EnterFunction, Larger, TypeOK
<1>8. \A i \in Slot : i < b => locals'[i] = locals[i]
  BY <1>3, <1>4 DEF EnterFunction, NullMissing, TypeOK
<1>9. Entered(b, locals[b], locals)
  BY <1>1, <1>3, <1>4, <1>6, <1>7, <1>8 DEF EnterFunction, Entered
<1> QED BY <1>3, <1>9

LEMMA CallStep ==
  ASSUME TypeOK, Calls
  PROVE  \E base \in Nat, callee \in Value, held \in [Slot -> Value] :
           Entered(base, callee, held)
<1>1. nextFrame \in Nat /\ locals \in [Slot -> Value]
  BY DEF TypeOK
<1> QED BY <1>1, CallFromNativeEnters, CallFunctionPtrEnters DEF Calls

(* The activation that is pushed for a native object or a loader. *)
CppCall ==
  \/ \E address \in Slot, count \in 0 .. MaxArguments : CallObject(address, count)
  \/ \E address \in Slot : LoadModule(address)

PushedCpp(kind, base, callee, keep) ==
  /\ CodeRunning
  /\ base >= Top.base /\ base < MaxSlots
  /\ kind = "native" => keep = base /\ nextFrame' = base
  /\ kind = "loader" => nextFrame' = nextFrame
  /\ size' \in size .. MaxSlots /\ keep <= size'
  /\ stack' = Append(stack, NewActivation(kind, base, callee, Len(functions), keep, locals))
  /\ UNCHANGED <<locals, functions, throwing>>

LEMMA CppCallStep ==
  ASSUME TypeOK, CppCall
  PROVE  \E kind \in {"native", "loader"}, base \in Nat, callee \in Value, keep \in Nat :
           PushedCpp(kind, base, callee, keep)
<1>1. ASSUME NEW address \in Slot, NEW count \in 0 .. MaxArguments,
             CallObject(address, count)
      PROVE  \E base \in Nat, callee \in Value : PushedCpp("native", base, callee, base)
  <2> DEFINE b == Top.base + address
  <2>1. CodeRunning /\ Top.base \in Nat
    BY <1>1, TopFacts DEF CallObject, CodeRunning, Activation
  <2>2. b + count < MaxSlots /\ size' = Larger(size, b + 1 + count)
    BY <1>1 DEF CallObject
  <2>a. b \in Nat /\ b \in Slot /\ b >= Top.base /\ count \in Nat
    BY <2>1, <2>2
  <2>3. locals[b] \in Value
    BY <2>a DEF TypeOK
  <2>4. size' \in size .. MaxSlots /\ b <= size'
    <3> HIDE DEF b
    <3> QED BY <2>2, <2>a DEF Larger, TypeOK
  <2>5. PushedCpp("native", b, locals[b], b)
    BY <1>1, <2>1, <2>2, <2>a, <2>4 DEF CallObject, PushedCpp
  <2> QED BY <2>a, <2>3, <2>5
<1>2. ASSUME NEW address \in Slot, LoadModule(address)
      PROVE  \E base \in Nat, callee \in Value, keep \in Nat :
               PushedCpp("loader", base, callee, keep)
  <2> DEFINE b == Top.base + address
             n == Larger(size, b + 1)
  <2>1. CodeRunning /\ Top.base \in Nat
    BY <1>2, TopFacts DEF LoadModule, CodeRunning, Activation
  <2>2. b \in Nat /\ b < MaxSlots /\ b \in Slot /\ b >= Top.base
    BY <1>2, <2>1 DEF LoadModule
  <2>3. locals[b] \in Value
    BY <2>2 DEF TypeOK
  <2>4. n \in Nat /\ size' = n /\ n \in size .. MaxSlots
    BY <1>2, <2>1, <2>2 DEF LoadModule, Larger, TypeOK
  <2>5. PushedCpp("loader", b, locals[b], n)
    BY <1>2, <2>1, <2>2, <2>4 DEF LoadModule, PushedCpp
  <2> QED BY <2>2, <2>3, <2>4, <2>5
<1>3. \A base \in Nat : base \in Nat
  OBVIOUS
<1> QED BY <1>1, <1>2 DEF CppCall

(* Steps that push and pop nothing and write at most one slot of the       *)
(* running frame.                                                          *)
Local ==
  \/ \E newSize \in 0 .. MaxSlots, address \in Slot, value \in Value :
       Instruction(newSize, address, value)
  \/ \E newSize \in 0 .. MaxSlots : Throw(newSize)
  \/ Catch

LEMMA LocalStep ==
  ASSUME TypeOK, Local
  PROVE  /\ size' \in size .. MaxSlots
         /\ locals' \in [Slot -> Value]
         /\ throwing' \in BOOLEAN
         /\ UNCHANGED <<functions, nextFrame, stack>>
         /\ \A i \in Slot : (~Outermost /\ Top.kind = "p0" => i < Top.base)
                             => locals'[i] = locals[i]
<1>1. ASSUME NEW newSize \in 0 .. MaxSlots, NEW address \in Slot, NEW value \in Value,
             Instruction(newSize, address, value)
      PROVE  /\ size' \in size .. MaxSlots
             /\ locals' \in [Slot -> Value]
             /\ \A i \in Slot : i < Top.base => locals'[i] = locals[i]
             /\ ~Outermost /\ Top.kind = "p0"
  <2>1. CodeRunning /\ Top.base \in Nat
    BY <1>1, TopFacts DEF Instruction, CodeRunning, Activation
  <2> QED BY <1>1, <2>1 DEF Instruction, CodeRunning, TypeOK
<1>2. ASSUME NEW newSize \in 0 .. MaxSlots, Throw(newSize)
      PROVE  size' \in size .. MaxSlots /\ locals' = locals
  BY <1>2 DEF Throw
<1>3. UNCHANGED <<functions, nextFrame, stack>> /\ throwing' \in BOOLEAN
  BY DEF Local, Instruction, Throw, Catch, TypeOK
<1>4. CASE Catch
  BY <1>4, <1>3 DEF Catch, TypeOK
<1> QED BY <1>1, <1>2, <1>3, <1>4 DEF Local, TypeOK

(* Steps that end the innermost activation. *)
Ends ==
  \/ ReturnFromFunction
  \/ \E value \in Value, supported \in BOOLEAN : ReturnFromNative(value, supported)
  \/ \E value \in Value : ReturnFromLoader(value)
  \/ Unwind

LEMMA EndStep ==
  ASSUME TypeOK, Ends
  PROVE  /\ ~Outermost
         /\ stack' = Pop(stack)
         /\ functions' = IF Top.kind = "p0" THEN Pop(functions) ELSE functions
         /\ nextFrame' = IF Top.kind = "native" THEN Top.saved ELSE nextFrame
         /\ throwing' \in BOOLEAN
         /\ size' \in 0 .. MaxSlots
         /\ size <= size' \/ (Top.kind = "p0" /\ Top.base < size')
         /\ locals' \in [Slot -> Value]
         /\ \A i \in Slot : i < Top.base => locals'[i] = locals[i]
<1>1. ~Outermost
  BY DEF Ends, ReturnFromFunction, CodeRunning, ReturnFromNative, ReturnFromLoader, Unwind
<1>2. Top \in Activation /\ Top.base \in Slot
  BY <1>1, TopFacts DEF Activation
<1>3. CASE ReturnFromFunction
  <2>1. size' \in 0 .. MaxSlots /\ Top.base < size'
    BY <1>2, <1>3 DEF ReturnFromFunction
  <2>2. locals' \in [Slot -> Value] /\ \A i \in Slot : i < Top.base => locals'[i] = locals[i]
    BY <1>2, <1>3 DEF ReturnFromFunction, TypeOK
  <2> QED BY <1>1, <1>3, <2>1, <2>2 DEF ReturnFromFunction, CodeRunning, TypeOK
<1>4. ASSUME NEW value \in Value, NEW supported \in BOOLEAN, ReturnFromNative(value, supported)
      PROVE  /\ size' = size \/ size' = Larger(size, Top.base + 1)
             /\ locals' = locals \/ locals' = [locals EXCEPT ![Top.base] = value]
             /\ Top.kind = "native" /\ throwing' \in BOOLEAN
             /\ stack' = Pop(stack) /\ functions' = functions /\ nextFrame' = Top.saved
  BY <1>4 DEF ReturnFromNative, TypeOK
<1>5. ASSUME NEW value \in Value, ReturnFromLoader(value)
      PROVE  /\ size' = Larger(size, Top.base + 1)
             /\ locals' = [locals EXCEPT ![Top.base] = value]
             /\ Top.kind = "loader" /\ throwing' \in BOOLEAN
             /\ stack' = Pop(stack) /\ functions' = functions /\ nextFrame' = nextFrame
  BY <1>5 DEF ReturnFromLoader, TypeOK
<1>6. CASE Unwind
  BY <1>1, <1>2, <1>6 DEF Unwind, TypeOK
<1>7. Larger(size, Top.base + 1) \in 0 .. MaxSlots /\ size <= Larger(size, Top.base + 1)
  BY <1>2 DEF Larger, TypeOK
<1>8. ASSUME NEW value \in Value, NEW supported \in BOOLEAN, ReturnFromNative(value, supported)
      PROVE  /\ size' \in 0 .. MaxSlots /\ size <= size' /\ locals' \in [Slot -> Value]
             /\ \A i \in Slot : i < Top.base => locals'[i] = locals[i]
  <2>1. size' \in 0 .. MaxSlots /\ size <= size'
    BY <1>4, <1>7, <1>8 DEF TypeOK
  <2>2. CASE locals' = locals
    BY <2>1, <2>2 DEF TypeOK
  <2>3. CASE locals' = [locals EXCEPT ![Top.base] = value]
    BY <1>2, <2>1, <2>3 DEF TypeOK
  <2> QED BY <1>4, <1>8, <2>2, <2>3
<1>9. ASSUME NEW value \in Value, ReturnFromLoader(value)
      PROVE  /\ size' \in 0 .. MaxSlots /\ size <= size' /\ locals' \in [Slot -> Value]
             /\ \A i \in Slot : i < Top.base => locals'[i] = locals[i]
  BY <1>2, <1>5, <1>7, <1>9 DEF TypeOK
<1> QED BY <1>1, <1>3, <1>4, <1>5, <1>6, <1>8, <1>9 DEF Ends

LEMMA NextCases ==
  ASSUME [Next]_vars
  PROVE  Calls \/ CppCall \/ Local \/ Ends \/ UNCHANGED vars
BY DEF Next, Calls, CppCall, Local, Ends

-----------------------------------------------------------------------------
(* Types *)

LEMMA InitTypeOK == Init => TypeOK
<1> SUFFICES ASSUME Init PROVE TypeOK
  OBVIOUS
<1>1. locals \in [Slot -> Value] /\ size \in 0 .. MaxSlots
  BY DEF Init
<1>2. functions \in Seq(Value) /\ stack \in Seq(Activation)
  BY DEF Init
<1> QED BY <1>1, <1>2 DEF Init, TypeOK

LEMMA NextTypeOK == TypeOK /\ [Next]_vars => TypeOK'
<1> SUFFICES ASSUME TypeOK, [Next]_vars PROVE TypeOK'
  OBVIOUS
<1>1. CASE Calls
  <2>1. PICK base \in Nat, callee \in Value, held \in [Slot -> Value] :
          Entered(base, callee, held)
    BY <1>1, CallStep
  <2>2. NewActivation("p0", base, callee, Len(functions) + 1, base, held) \in Activation
    BY <2>1, NewActivationType DEF Entered, TypeOK
  <2>3. stack' \in Seq(Activation)
    BY <2>1, <2>2 DEF Entered, TypeOK
  <2> QED BY <2>1, <2>3 DEF Entered, TypeOK
<1>2. CASE CppCall
  <2>1. PICK kind \in {"native", "loader"}, base \in Nat, callee \in Value, keep \in Nat :
          PushedCpp(kind, base, callee, keep)
    BY <1>2, CppCallStep
  <2>2. NewActivation(kind, base, callee, Len(functions), keep, locals) \in Activation
    BY <2>1, NewActivationType DEF PushedCpp, TypeOK
  <2>3. stack' \in Seq(Activation)
    BY <2>1, <2>2 DEF PushedCpp, TypeOK
  <2> QED BY <2>1, <2>3 DEF PushedCpp, TypeOK
<1>3. CASE Local
  BY <1>3, LocalStep DEF TypeOK
<1>4. CASE Ends
  <2>1. stack' \in Seq(Activation) /\ functions' \in Seq(Value)
    BY <1>4, EndStep, PopType DEF TypeOK
  <2>2. nextFrame' \in Nat
    BY <1>4, EndStep, TopFacts DEF TypeOK, Activation
  <2> QED BY <1>4, <2>1, <2>2, EndStep DEF TypeOK
<1>5. CASE UNCHANGED vars
  BY <1>5 DEF vars, TypeOK
<1> QED BY <1>1, <1>2, <1>3, <1>4, <1>5, NextCases

(* The interpreter's state is always of the shape the code declares. *)
THEOREM TypeCorrect == Spec => []TypeOK
BY InitTypeOK, NextTypeOK, PTL DEF Spec

-----------------------------------------------------------------------------
(* m_next_call_frame *)

(* What a push does to the frame offsets recorded on the stack. *)
LEMMA PushedFrames ==
  ASSUME TypeOK, CallFrameRestored, NEW new \in Activation,
         stack' = Append(stack, new), new.saved = nextFrame,
         nextFrame' = IF new.kind = "native" THEN new.base ELSE nextFrame
  PROVE  CallFrameRestored'
BY AppendFacts DEF TypeOK, CallFrameRestored, FrameAfter

LEMMA NextFrameInv == TypeOK /\ CallFrameRestored /\ [Next]_vars => CallFrameRestored'
<1> SUFFICES ASSUME TypeOK, CallFrameRestored, [Next]_vars PROVE CallFrameRestored'
  OBVIOUS
<1>1. CASE Calls
  <2>1. PICK base \in Nat, callee \in Value, held \in [Slot -> Value] :
          Entered(base, callee, held)
    BY <1>1, CallStep
  <2> DEFINE new == NewActivation("p0", base, callee, Len(functions) + 1, base, held)
  <2>2. new \in Activation
    BY <2>1, NewActivationType DEF Entered, TypeOK
  <2>3. new.saved = nextFrame /\ new.kind = "p0"
    BY DEF NewActivation
  <2> HIDE DEF new
  <2> QED BY <2>1, <2>2, <2>3, PushedFrames DEF Entered, new
<1>2. CASE CppCall
  <2>1. PICK kind \in {"native", "loader"}, base \in Nat, callee \in Value, keep \in Nat :
          PushedCpp(kind, base, callee, keep)
    BY <1>2, CppCallStep
  <2> DEFINE new == NewActivation(kind, base, callee, Len(functions), keep, locals)
  <2>2. new \in Activation
    BY <2>1, NewActivationType DEF PushedCpp, TypeOK
  <2>3. new.saved = nextFrame /\ new.kind = kind /\ new.base = base
    BY DEF NewActivation
  <2>4. stack' = Append(stack, new) /\ nextFrame' = IF kind = "native" THEN base ELSE nextFrame
    BY <2>1 DEF PushedCpp
  <2> HIDE DEF new
  <2> QED BY <2>2, <2>3, <2>4, PushedFrames
<1>3. CASE Local
  BY <1>3, LocalStep DEF CallFrameRestored, FrameAfter
<1>4. CASE Ends
  <2>1. stack' = Pop(stack) /\ stack # <<>>
    BY <1>4, EndStep DEF Outermost
  <2>2. Len(stack') = Len(stack) - 1 /\ DOMAIN stack' = 1 .. Len(stack) - 1
        /\ \A i \in 1 .. Len(stack) - 1 : stack'[i] = stack[i]
    BY <2>1, PopFacts DEF TypeOK
  <2>3. nextFrame' = Top.saved
    BY <1>4, EndStep, TopFacts DEF CallFrameRestored, FrameAfter, TypeOK
  <2>4. Len(stack) \in Nat \ {0} /\ Len(stack) \in DOMAIN stack /\ DOMAIN stack = 1 .. Len(stack)
    BY <2>1, PopFacts DEF TypeOK
  <2>5. nextFrame' = FrameAfter(Len(stack) - 1)
    BY <2>3, <2>4 DEF CallFrameRestored, Top
  <2>6. \A k \in 0 .. Len(stack) - 1 : FrameAfter(k)' = FrameAfter(k)
    BY <2>2, <2>4 DEF FrameAfter
  <2>7. nextFrame' = FrameAfter(Len(stack))'
    BY <2>2, <2>4, <2>5, <2>6
  <2>8. \A k \in 1 .. Len(stack) - 1 : stack'[k].saved = FrameAfter(k - 1)'
    BY <2>2, <2>4, <2>6 DEF CallFrameRestored
  <2> QED BY <2>2, <2>7, <2>8 DEF CallFrameRestored
<1>5. CASE UNCHANGED vars
  BY <1>5 DEF vars, CallFrameRestored, FrameAfter
<1> QED BY <1>1, <1>2, <1>3, <1>4, <1>5, NextCases

(* Whatever is called, returns or throws, m_next_call_frame is the slot of *)
(* the innermost native call.                                              *)
THEOREM CallFrame == Spec => []CallFrameRestored
<1>1. Init => CallFrameRestored
  BY DEF Init, CallFrameRestored, FrameAfter
<1> QED BY <1>1, NextFrameInv, TypeCorrect, PTL DEF Spec

-----------------------------------------------------------------------------
(* m_current_function_stack *)

(* Heights grow along the stack, and with every activation of p0 code. *)
HeightsGrow ==
  \A j, k \in DOMAIN stack : j < k =>
    IF stack[k].kind = "p0" THEN stack[j].height < stack[k].height
                            ELSE stack[j].height <= stack[k].height

FunctionInv == FunctionStackBalanced /\ HeightsGrow

LEMMA HeightBound ==
  ASSUME TypeOK, FunctionInv
  PROVE  /\ \A k \in DOMAIN stack : stack[k].height \in 0 .. Len(functions)
         /\ \A k \in DOMAIN stack : stack[k].kind = "p0" => stack[k].height > 0
         /\ Len(stack) \in Nat /\ DOMAIN stack = 1 .. Len(stack)
<1>1. Len(stack) \in Nat /\ DOMAIN stack = 1 .. Len(stack) /\ Len(functions) \in Nat
  BY DEF TypeOK
<1>2. \A k \in DOMAIN stack : stack[k].height \in Nat
  <2> SUFFICES ASSUME NEW k \in DOMAIN stack PROVE stack[k].height \in Nat
    OBVIOUS
  <2>1. stack[k] \in Activation
    BY <1>1 DEF TypeOK
  <2> QED BY <2>1 DEF Activation
<1>3. \A k \in DOMAIN stack : stack[k].height <= Len(functions)
  <2> SUFFICES ASSUME NEW k \in DOMAIN stack PROVE stack[k].height <= Len(functions)
    OBVIOUS
  <2>1. CASE k = Len(stack)
    BY <1>1, <1>2, <2>1 DEF FunctionInv, FunctionStackBalanced, Height
  <2>2. CASE k < Len(stack)
    <3>1. Len(stack) \in DOMAIN stack /\ Len(functions) = stack[Len(stack)].height
      BY <1>1, <2>2 DEF FunctionInv, FunctionStackBalanced, Height
    <3> QED BY <1>1, <1>2, <2>2, <3>1 DEF FunctionInv, HeightsGrow
  <2> QED BY <1>1, <2>1, <2>2
<1>4. \A k \in DOMAIN stack : Height(k - 1) \in Nat
  BY <1>1, <1>2 DEF Height
<1>5. \A k \in DOMAIN stack : stack[k].kind = "p0" => stack[k].height > 0
  BY <1>4 DEF FunctionInv, FunctionStackBalanced
<1> QED BY <1>1, <1>2, <1>3, <1>5

(* A push of an activation with the right height. *)
LEMMA PushedHeights ==
  ASSUME TypeOK, FunctionInv, NEW new \in Activation, stack' = Append(stack, new),
         \/ /\ new.kind = "p0" /\ new.height = Len(functions) + 1
            /\ functions' = Append(functions, new.callee)
         \/ /\ new.kind # "p0" /\ new.height = Len(functions)
            /\ functions' = functions
  PROVE  FunctionInv'
<1>0. PICK n \in Nat : n = Len(stack)
  BY DEF TypeOK
<1>1. /\ n \in Nat /\ DOMAIN stack = 1 .. n /\ Len(functions) \in Nat
      /\ \A k \in 1 .. n : stack[k].height \in 0 .. Len(functions)
      /\ \A k \in 1 .. n : stack[k].kind = "p0" => stack[k].height > 0
  <2>1. DOMAIN stack = 1 .. n /\ Len(functions) \in Nat
    BY <1>0 DEF TypeOK
  <2> QED BY <2>1, HeightBound
<1>2. /\ Len(stack') = n + 1 /\ DOMAIN stack' = 1 .. n + 1 /\ stack'[n + 1] = new
      /\ \A k \in 1 .. n : stack'[k] = stack[k]
  BY <1>0, AppendFacts DEF TypeOK
<1>3. /\ Len(functions') = new.height
      /\ \A i \in 1 .. Len(functions) : functions'[i] = functions[i]
      /\ new.kind = "p0" => functions'[new.height] = new.callee
  <2>1. new.callee \in Value /\ new.height \in Nat
    BY DEF Activation
  <2>2. CASE new.kind = "p0"
    <3>1. functions' = Append(functions, new.callee) /\ new.height = Len(functions) + 1
      BY <2>2
    <3>2. functions \in Seq(Value)
      BY DEF TypeOK
    <3> QED BY <2>1, <2>2, <3>1, <3>2, AppendFacts
  <2>3. CASE new.kind # "p0"
    BY <2>3
  <2> QED BY <2>2, <2>3
<1>4. Len(functions) = IF n = 0 THEN 0 ELSE stack[n].height
  BY <1>0 DEF FunctionInv, FunctionStackBalanced, Height
<1>5. ASSUME NEW k \in 1 .. n
      PROVE  /\ stack[k].height = (IF k - 1 = 0 THEN 0 ELSE stack[k - 1].height)
                                   + (IF stack[k].kind = "p0" THEN 1 ELSE 0)
             /\ stack[k].kind = "p0" => functions'[stack[k].height] = stack[k].callee
  <2>1. stack[k].kind = "p0" => stack[k].height \in 1 .. Len(functions)
    BY <1>1
  <2>2. /\ stack[k].height = (IF k - 1 = 0 THEN 0 ELSE stack[k - 1].height)
                              + (IF stack[k].kind = "p0" THEN 1 ELSE 0)
        /\ stack[k].kind = "p0" => functions[stack[k].height] = stack[k].callee
    BY <1>1 DEF FunctionInv, FunctionStackBalanced, Height
  <2> QED BY <1>3, <2>1, <2>2
<1>6. FunctionStackBalanced'
  <2>1. Len(functions') = IF Len(stack') = 0 THEN 0 ELSE stack'[Len(stack')].height
    BY <1>1, <1>2, <1>3
  <2>2. ASSUME NEW k \in 1 .. n + 1
        PROVE  /\ stack'[k].height = (IF k - 1 = 0 THEN 0 ELSE stack'[k - 1].height)
                                     + (IF stack'[k].kind = "p0" THEN 1 ELSE 0)
               /\ stack'[k].kind = "p0" => functions'[stack'[k].height] = stack'[k].callee
    <3>1. CASE k \in 1 .. n
      <4>1. stack'[k] = stack[k] /\ (k - 1 # 0 => stack'[k - 1] = stack[k - 1])
        BY <1>1, <1>2, <3>1
      <4> QED BY <1>5, <3>1, <4>1
    <3>2. CASE k = n + 1
      <4>1. k - 1 = n /\ stack'[k] = new /\ (n # 0 => stack'[k - 1] = stack[n])
        BY <1>1, <1>2, <3>2
      <4>2. new.height = (IF n = 0 THEN 0 ELSE stack[n].height)
                         + (IF new.kind = "p0" THEN 1 ELSE 0)
        BY <1>1, <1>4
      <4> QED BY <1>3, <4>1, <4>2
    <3> QED BY <1>1, <3>1, <3>2
  <2> QED BY <1>2, <2>1, <2>2 DEF FunctionStackBalanced, Height
<1>7. HeightsGrow'
  <2> SUFFICES ASSUME NEW j \in 1 .. n + 1, NEW k \in 1 .. n + 1, j < k
               PROVE  IF stack'[k].kind = "p0" THEN stack'[j].height < stack'[k].height
                                               ELSE stack'[j].height <= stack'[k].height
    BY <1>2 DEF HeightsGrow
  <2>1. j \in 1 .. n /\ stack'[j] = stack[j]
    BY <1>1, <1>2
  <2>2. CASE k = n + 1
    <3>1. stack'[k] = new
      BY <1>2, <2>2
    <3>2. stack[j].height \in 0 .. Len(functions)
      BY <1>1, <2>1
    <3>3. IF new.kind = "p0" THEN new.height = Len(functions) + 1 ELSE new.height = Len(functions)
      OBVIOUS
    <3> QED BY <1>1, <2>1, <3>1, <3>2, <3>3
  <2>3. CASE k # n + 1
    <3>1. k \in 1 .. n /\ stack'[k] = stack[k]
      BY <1>1, <1>2, <2>3
    <3>2. IF stack[k].kind = "p0" THEN stack[j].height < stack[k].height
                                  ELSE stack[j].height <= stack[k].height
      BY <1>1, <2>1, <3>1, Zenon DEF FunctionInv, HeightsGrow
    <3> QED BY <2>1, <3>1, <3>2
  <2> QED BY <2>2, <2>3
<1> QED BY <1>6, <1>7 DEF FunctionInv

(* The innermost activation ends. *)
LEMMA PoppedHeights ==
  ASSUME TypeOK, FunctionInv, Ends
  PROVE  FunctionInv'
<1>0. PICK n \in Nat : n = Len(stack)
  BY DEF TypeOK
<1>1. /\ n \in Nat /\ DOMAIN stack = 1 .. n /\ Len(functions) \in Nat
      /\ \A k \in 1 .. n : stack[k].height \in 0 .. Len(functions)
      /\ \A k \in 1 .. n : stack[k].kind = "p0" => stack[k].height > 0
  <2>1. DOMAIN stack = 1 .. n /\ Len(functions) \in Nat
    BY <1>0 DEF TypeOK
  <2> QED BY <2>1, HeightBound
<1>2. stack # <<>> /\ stack' = Pop(stack) /\ Top = stack[n]
      /\ functions' = IF Top.kind = "p0" THEN Pop(functions) ELSE functions
  BY <1>0, EndStep DEF Outermost, Top
<1>3. /\ n > 0 /\ Len(stack') = n - 1 /\ DOMAIN stack' = 1 .. n - 1
      /\ \A k \in 1 .. n - 1 : stack'[k] = stack[k]
  BY <1>0, <1>2, PopFacts DEF TypeOK
<1>4. ASSUME NEW k \in 1 .. n
      PROVE  /\ stack[k].height = (IF k - 1 = 0 THEN 0 ELSE stack[k - 1].height)
                                   + (IF stack[k].kind = "p0" THEN 1 ELSE 0)
             /\ stack[k].kind = "p0" => functions[stack[k].height] = stack[k].callee
  BY <1>1 DEF FunctionInv, FunctionStackBalanced, Height
<1>5. Len(functions) = stack[n].height
  BY <1>0, <1>3 DEF FunctionInv, FunctionStackBalanced, Height
<1>6. PICK below \in Nat : below = IF n = 1 THEN 0 ELSE stack[n - 1].height
  <2>1. n # 1 => n - 1 \in 1 .. n
    BY <1>1, <1>3
  <2> QED BY <1>1, <2>1
<1>7. /\ Len(functions') = below
      /\ \A i \in 1 .. below : functions'[i] = functions[i]
  <2>1. stack[n].height = below + (IF stack[n].kind = "p0" THEN 1 ELSE 0)
    BY <1>1, <1>3, <1>4, <1>6
  <2>2. CASE Top.kind = "p0"
    <3>1. Len(functions) = below + 1 /\ functions \in Seq(Value)
      BY <1>2, <1>5, <2>1, <2>2 DEF TypeOK
    <3>2. functions # <<>>
      <4>1. Len(functions) # 0
        BY <1>6, <3>1
      <4>2. Len(<<>>) = 0
        OBVIOUS
      <4> QED BY <4>1, <4>2
    <3>3. functions' = Pop(functions)
      BY <1>2, <2>2
    <3>4. Len(Pop(functions)) = below /\ \A i \in 1 .. below : Pop(functions)[i] = functions[i]
      <4>1. /\ Len(Pop(functions)) = Len(functions) - 1
            /\ \A i \in 1 .. Len(functions) - 1 : Pop(functions)[i] = functions[i]
        BY <3>1, <3>2, PopFacts
      <4>2. Len(functions) - 1 = below
        BY <1>6, <3>1
      <4> QED BY <4>1, <4>2
    <3> QED BY <3>3, <3>4
  <2>3. CASE Top.kind # "p0"
    BY <1>2, <1>5, <1>6, <2>1, <2>3
  <2> QED BY <2>2, <2>3
<1>8. \A k \in 1 .. n - 1 : stack[k].height <= below
  <2> SUFFICES ASSUME NEW k \in 1 .. n - 1 PROVE stack[k].height <= below
    OBVIOUS
  <2>1. n - 1 \in 1 .. n /\ k \in 1 .. n /\ n # 1 /\ k <= n - 1
    BY <1>1, <1>3
  <2>2. stack[k].height \in Nat /\ stack[n - 1].height \in Nat
    BY <1>1, <2>1
  <2>3. below = stack[n - 1].height
    BY <1>6, <2>1
  <2>4. CASE k = n - 1
    BY <2>2, <2>3, <2>4
  <2>5. CASE k < n - 1
    <3>1. IF stack[n - 1].kind = "p0" THEN stack[k].height < stack[n - 1].height
                                      ELSE stack[k].height <= stack[n - 1].height
      BY <1>1, <2>1, <2>5, Zenon DEF FunctionInv, HeightsGrow
    <3>2. stack[k].height <= stack[n - 1].height
      BY <2>2, <3>1
    <3> QED BY <2>3, <3>2
  <2> QED BY <1>1, <2>1, <2>4, <2>5
<1>9. FunctionStackBalanced'
  <2>1. Len(functions') = IF Len(stack') = 0 THEN 0 ELSE stack'[Len(stack')].height
    BY <1>1, <1>3, <1>6, <1>7
  <2>2. ASSUME NEW k \in 1 .. n - 1
        PROVE  /\ stack'[k].height = (IF k - 1 = 0 THEN 0 ELSE stack'[k - 1].height)
                                     + (IF stack'[k].kind = "p0" THEN 1 ELSE 0)
               /\ stack'[k].kind = "p0" => functions'[stack'[k].height] = stack'[k].callee
    <3>1. /\ k \in 1 .. n /\ stack'[k] = stack[k]
          /\ k - 1 # 0 => stack'[k - 1] = stack[k - 1]
      BY <1>1, <1>3
    <3>2. stack[k].kind = "p0" => functions'[stack[k].height] = functions[stack[k].height]
      <4>1. stack[k].kind = "p0" => stack[k].height \in 1 .. below
        BY <1>1, <1>6, <1>8, <3>1
      <4> QED BY <1>7, <4>1
    <3> QED BY <1>4, <3>1, <3>2
  <2> QED BY <1>3, <2>1, <2>2 DEF FunctionStackBalanced, Height
<1>10. HeightsGrow'
  <2> SUFFICES ASSUME NEW j \in 1 .. n - 1, NEW k \in 1 .. n - 1, j < k
               PROVE  IF stack'[k].kind = "p0" THEN stack'[j].height < stack'[k].height
                                               ELSE stack'[j].height <= stack'[k].height
    BY <1>3 DEF HeightsGrow
  <2>1. j \in 1 .. n /\ k \in 1 .. n /\ stack'[j] = stack[j] /\ stack'[k] = stack[k]
    BY <1>1, <1>3
  <2> QED BY <1>1, <2>1, Zenon DEF FunctionInv, HeightsGrow
<1> QED BY <1>9, <1>10 DEF FunctionInv

LEMMA NextFunctionInv == TypeOK /\ FunctionInv /\ [Next]_vars => FunctionInv'
<1> SUFFICES ASSUME TypeOK, FunctionInv, [Next]_vars PROVE FunctionInv'
  OBVIOUS
<1>1. CASE Calls
  <2>1. PICK base \in Nat, callee \in Value, held \in [Slot -> Value] :
          Entered(base, callee, held)
    BY <1>1, CallStep
  <2> DEFINE new == NewActivation("p0", base, callee, Len(functions) + 1, base, held)
  <2>2. new \in Activation
    BY <2>1, NewActivationType DEF Entered, TypeOK
  <2>3. new.kind = "p0" /\ new.height = Len(functions) + 1 /\ new.callee = callee
    BY DEF NewActivation
  <2>4. stack' = Append(stack, new) /\ functions' = Append(functions, new.callee)
    BY <2>1, <2>3 DEF Entered
  <2> HIDE DEF new
  <2> QED BY <2>2, <2>3, <2>4, PushedHeights
<1>2. CASE CppCall
  <2>1. PICK kind \in {"native", "loader"}, base \in Nat, callee \in Value, keep \in Nat :
          PushedCpp(kind, base, callee, keep)
    BY <1>2, CppCallStep
  <2> DEFINE new == NewActivation(kind, base, callee, Len(functions), keep, locals)
  <2>2. new \in Activation
    BY <2>1, NewActivationType DEF PushedCpp, TypeOK
  <2>3. new.kind # "p0" /\ new.height = Len(functions)
    BY DEF NewActivation
  <2>4. stack' = Append(stack, new) /\ functions' = functions
    BY <2>1 DEF PushedCpp
  <2> HIDE DEF new
  <2> QED BY <2>2, <2>3, <2>4, PushedHeights
<1>3. CASE Local
  BY <1>3, LocalStep DEF FunctionInv, FunctionStackBalanced, HeightsGrow, Height
<1>4. CASE Ends
  BY <1>4, PoppedHeights
<1>5. CASE UNCHANGED vars
  BY <1>5 DEF vars, FunctionInv, FunctionStackBalanced, HeightsGrow, Height
<1> QED BY <1>1, <1>2, <1>3, <1>4, <1>5, NextCases

(* Through any nesting of calls, callbacks and exceptions the function     *)
(* stack holds the callees of the p0 activations that still run.           *)
THEOREM FunctionStack == Spec => []FunctionStackBalanced
<1>1. Init => FunctionInv
  BY DEF Init, FunctionInv, FunctionStackBalanced, HeightsGrow, Height
<1>2. FunctionInv => FunctionStackBalanced
  BY DEF FunctionInv
<1> QED BY <1>1, <1>2, NextFunctionInv, TypeCorrect, PTL DEF Spec

(* Each guard restores its part of what a call has changed: the frame      *)
(* offset and the function stack match the activations that are left.      *)
THEOREM Balance == Spec => []CallsAreBalanced
BY CallFrame, FunctionStack, PTL DEF CallsAreBalanced

-----------------------------------------------------------------------------
(* The frames of the callers *)

(* Frames are nested: an activation keeps off what is below its base, a    *)
(* loader off its caller's whole frame, and only a loader that runs no     *)
(* code may do so, for it is the innermost activation.                     *)
Nested ==
  /\ \A k \in DOMAIN stack : stack[k].kind # "loader" => stack[k].keep = stack[k].base
  /\ \A j, k \in DOMAIN stack :
       j < k => stack[j].kind # "loader" /\ stack[j].keep <= stack[k].base

CallersInv == Nested /\ CallersUntouched

LEMMA ActivationFacts ==
  ASSUME TypeOK, NEW k \in DOMAIN stack
  PROVE  /\ stack[k].base \in Nat /\ stack[k].base < MaxSlots /\ stack[k].keep \in Nat
         /\ stack[k].kind \in {"p0", "native", "loader"}
<1>1. stack[k] \in Activation
  BY DEF TypeOK
<1> QED BY <1>1 DEF Activation

(* A new innermost activation that starts in or above the running frame.   *)
LEMMA PushedCallers ==
  ASSUME TypeOK, CallersInv, NEW new \in Activation, stack' = Append(stack, new),
         new.kind # "loader" => new.keep = new.base,
         ~Outermost => Top.kind # "loader" /\ Top.base <= new.base,
         size' \in Nat, size <= size', new.keep <= size',
         \A i \in Slot : i < new.base => locals'[i] = locals[i],
         \A i \in Slot : i < new.keep => locals'[i] = new.snapshot[i]
  PROVE  CallersInv'
<1>0. PICK n \in Nat : n = Len(stack)
  BY DEF TypeOK
<1>1. DOMAIN stack = 1 .. n /\ size \in Nat
  BY <1>0 DEF TypeOK
<1>2. /\ DOMAIN stack' = 1 .. n + 1 /\ stack'[n + 1] = new
      /\ \A k \in 1 .. n : stack'[k] = stack[k]
  BY <1>0, AppendFacts DEF TypeOK
<1>3. new.base \in Nat /\ new.keep \in Nat
  BY DEF Activation
<1>4. ASSUME NEW k \in 1 .. n
      PROVE  stack[k].kind # "loader" /\ stack[k].keep <= new.base
  <2>1. /\ stack[k].base \in Nat /\ stack[k].keep \in Nat
        /\ n \in DOMAIN stack /\ stack[n].base \in Nat
    BY <1>1, ActivationFacts
  <2>2. ~Outermost /\ Top = stack[n]
    BY <1>0, <1>1, TopFacts DEF Outermost, Top
  <2>3. CASE k = n
    BY <1>1, <1>3, <2>1, <2>2, <2>3 DEF CallersInv, Nested
  <2>4. CASE k < n
    <3>1. stack[k].kind # "loader" /\ stack[k].keep <= stack[n].base
      BY <1>1, <2>1, <2>4 DEF CallersInv, Nested
    <3> QED BY <1>3, <2>1, <2>2, <3>1
  <2> QED BY <1>1, <2>3, <2>4
<1>5. Nested'
  BY <1>1, <1>2, <1>4 DEF CallersInv, Nested
<1>6. CallersUntouched'
  <2> SUFFICES ASSUME NEW k \in 1 .. n + 1
               PROVE  /\ stack'[k].keep <= size'
                      /\ \A i \in Slot : i < stack'[k].keep =>
                           locals'[i] = stack'[k].snapshot[i]
    BY <1>2 DEF CallersUntouched
  <2>1. CASE k = n + 1
    BY <1>2, <2>1
  <2>2. CASE k \in 1 .. n
    <3>1. stack'[k] = stack[k] /\ stack[k].keep \in Nat /\ stack[k].keep <= new.base
      BY <1>1, <1>2, <1>4, <2>2, ActivationFacts
    <3>2. stack[k].keep <= size
      BY <1>1, <2>2 DEF CallersInv, CallersUntouched
    <3>3. ASSUME NEW i \in Slot, i < stack[k].keep
          PROVE  locals'[i] = stack[k].snapshot[i]
      <4>1. i < new.base
        BY <1>3, <3>1, <3>3
      <4>2. locals[i] = stack[k].snapshot[i]
        BY <1>1, <2>2, <3>3 DEF CallersInv, CallersUntouched
      <4> QED BY <4>1, <4>2
    <3>4. stack[k].keep <= size'
      BY <1>1, <3>1, <3>2
    <3> QED BY <3>1, <3>3, <3>4
  <2> QED BY <1>0, <2>1, <2>2
<1> QED BY <1>5, <1>6 DEF CallersInv

(* The innermost activation ends. *)
LEMMA PoppedCallers ==
  ASSUME TypeOK, CallersInv, Ends
  PROVE  CallersInv'
<1>0. PICK n \in Nat : n = Len(stack)
  BY DEF TypeOK
<1>1. stack # <<>> /\ stack' = Pop(stack) /\ Top = stack[n] /\ DOMAIN stack = 1 .. n
  BY <1>0, EndStep DEF Outermost, Top, TypeOK
<1>2. /\ n > 0 /\ DOMAIN stack' = 1 .. n - 1
      /\ \A k \in 1 .. n - 1 : stack'[k] = stack[k]
  BY <1>0, <1>1, PopFacts DEF TypeOK
<1>3. /\ n \in DOMAIN stack /\ Top.base \in Nat /\ size' \in Nat /\ size \in Nat
      /\ size <= size' \/ Top.base < size'
      /\ \A i \in Slot : i < Top.base => locals'[i] = locals[i]
  <2>1. n \in DOMAIN stack
    BY <1>0, <1>1, <1>2
  <2>2. Top.base \in Nat
    BY <1>1, <2>1, ActivationFacts
  <2>3. size' \in Nat /\ size \in Nat
    BY EndStep DEF TypeOK
  <2> QED BY <2>1, <2>2, <2>3, EndStep
<1>4. Nested'
  BY <1>1, <1>2 DEF CallersInv, Nested
<1>5. CallersUntouched'
  <2> SUFFICES ASSUME NEW k \in 1 .. n - 1
               PROVE  /\ stack[k].keep <= size'
                      /\ \A i \in Slot : i < stack[k].keep =>
                           locals'[i] = stack[k].snapshot[i]
    BY <1>2 DEF CallersUntouched
  <2>1. k \in DOMAIN stack /\ k < n /\ stack[k].keep \in Nat
    BY <1>1, <1>2, ActivationFacts
  <2>2. stack[k].keep <= Top.base
    BY <1>1, <1>3, <2>1 DEF CallersInv, Nested
  <2>3. stack[k].keep <= size /\ \A i \in Slot : i < stack[k].keep =>
                                   locals[i] = stack[k].snapshot[i]
    BY <2>1 DEF CallersInv, CallersUntouched
  <2>4. stack[k].keep <= size'
    BY <1>3, <2>1, <2>2, <2>3
  <2>5. ASSUME NEW i \in Slot, i < stack[k].keep
        PROVE  locals'[i] = stack[k].snapshot[i]
    <3>1. i < Top.base
      BY <1>3, <2>1, <2>2, <2>5
    <3> QED BY <1>3, <2>3, <2>5, <3>1
  <2> QED BY <2>4, <2>5
<1> QED BY <1>4, <1>5 DEF CallersInv

LEMMA NextCallersInv ==
  ASSUME ~LoadersRunCode, TypeOK, CallFrameRestored, CallersInv, [Next]_vars
  PROVE  CallersInv'
<1>1. CASE Calls
  <2>1. PICK base \in Nat, callee \in Value, held \in [Slot -> Value] :
          Entered(base, callee, held)
    BY <1>1, CallStep
  <2> DEFINE new == NewActivation("p0", base, callee, Len(functions) + 1, base, held)
  <2>2. new \in Activation
    BY <2>1, NewActivationType DEF Entered, TypeOK
  <2>3. /\ new.kind = "p0" /\ new.base = base /\ new.keep = base
        /\ \A i \in Slot : i < base => new.snapshot[i] = held[i]
    BY DEF NewActivation
  <2>4. ~Outermost => Top.kind # "loader" /\ Top.base <= base
    <3> SUFFICES ASSUME ~Outermost PROVE Top.kind # "loader" /\ Top.base <= base
      OBVIOUS
    <3>1. CASE CodeRunning /\ base >= Top.base
      BY <3>1, TopFacts DEF CodeRunning, Activation
    <3>2. CASE NativeRunning({"native"}) /\ base = nextFrame
      <4>1. Top.kind = "native" /\ Top = stack[Len(stack)] /\ Len(stack) # 0
        BY <3>2, TopFacts, PopFacts DEF NativeRunning, Top, Outermost, TypeOK
      <4>2. nextFrame = Top.base
        BY <4>1 DEF CallFrameRestored, FrameAfter
      <4> QED BY <3>2, <4>1, <4>2, TopFacts DEF Activation
    <3> QED BY <2>1, <3>1, <3>2 DEF Entered
  <2>5. /\ stack' = Append(stack, new) /\ size' \in Nat /\ size <= size' /\ base <= size'
        /\ \A i \in Slot : i < base => locals'[i] = locals[i] /\ held[i] = locals[i]
    BY <2>1 DEF Entered, TypeOK
  <2> HIDE DEF new
  <2>6. \A i \in Slot : i < new.keep => locals'[i] = new.snapshot[i]
    BY <2>3, <2>5
  <2>7. ~Outermost => Top.kind # "loader" /\ Top.base <= new.base
    BY <2>3, <2>4
  <2>8. /\ new.kind # "loader" => new.keep = new.base
        /\ new.keep <= size'
        /\ \A i \in Slot : i < new.base => locals'[i] = locals[i]
    BY <2>3, <2>5
  <2> QED BY <2>2, <2>5, <2>6, <2>7, <2>8, PushedCallers
<1>2. CASE CppCall
  <2>1. PICK kind \in {"native", "loader"}, base \in Nat, callee \in Value, keep \in Nat :
          PushedCpp(kind, base, callee, keep)
    BY <1>2, CppCallStep
  <2> DEFINE new == NewActivation(kind, base, callee, Len(functions), keep, locals)
  <2>2. new \in Activation
    BY <2>1, NewActivationType DEF PushedCpp, TypeOK
  <2>3. /\ new.kind = kind /\ new.base = base /\ new.keep = keep
        /\ \A i \in Slot : i < keep => new.snapshot[i] = locals[i]
    BY DEF NewActivation
  <2>4. /\ stack' = Append(stack, new) /\ size' \in Nat /\ size <= size' /\ keep <= size'
        /\ locals' = locals /\ (kind # "loader" => keep = base)
        /\ Top.kind # "loader" /\ Top.base <= base
    <3>1. CodeRunning /\ base >= Top.base /\ Top.base \in Nat
      BY <2>1, TopFacts DEF PushedCpp, CodeRunning, Activation
    <3> QED BY <2>1, <3>1 DEF PushedCpp, CodeRunning, TypeOK
  <2> HIDE DEF new
  <2>5. /\ \A i \in Slot : i < new.keep => locals'[i] = new.snapshot[i]
        /\ \A i \in Slot : i < new.base => locals'[i] = locals[i]
        /\ new.kind # "loader" => new.keep = new.base
        /\ new.keep <= size' /\ Top.base <= new.base
    BY <2>3, <2>4
  <2> QED BY <2>2, <2>4, <2>5, PushedCallers
<1>3. CASE Local
  <2>1. Nested'
    BY <1>3, LocalStep DEF CallersInv, Nested
  <2>2. CallersUntouched'
    <3> SUFFICES ASSUME NEW k \in DOMAIN stack
                 PROVE  /\ stack[k].keep <= size'
                        /\ \A i \in Slot : i < stack[k].keep =>
                             locals'[i] = stack[k].snapshot[i]
      BY <1>3, LocalStep DEF CallersUntouched
    <3>1. /\ stack[k].keep \in Nat /\ stack[k].keep <= size
          /\ \A i \in Slot : i < stack[k].keep => locals[i] = stack[k].snapshot[i]
      BY ActivationFacts DEF CallersInv, CallersUntouched
    <3>2. size \in Nat /\ size' \in Nat /\ size <= size'
      BY <1>3, LocalStep DEF TypeOK
    <3>3. ASSUME ~Outermost, Top.kind = "p0"
          PROVE  stack[k].keep <= Top.base
      <4>1. Len(stack) \in DOMAIN stack /\ Top = stack[Len(stack)] /\ Top.base \in Nat
            /\ Len(stack) \in Nat /\ DOMAIN stack = 1 .. Len(stack)
        BY <3>3, TopFacts, ActivationFacts DEF TypeOK
      <4>2. CASE k = Len(stack)
        BY <3>3, <4>1, <4>2 DEF CallersInv, Nested
      <4>3. CASE k < Len(stack)
        BY <4>1, <4>3 DEF CallersInv, Nested
      <4> QED BY <4>1, <4>2, <4>3
    <3>4. ASSUME NEW i \in Slot, i < stack[k].keep
          PROVE  locals'[i] = stack[k].snapshot[i]
      <4>1. ~Outermost /\ Top.kind = "p0" => i < Top.base
        BY <3>1, <3>3, <3>4, TopFacts DEF Activation
      <4> QED BY <1>3, <3>1, <3>4, <4>1, LocalStep
    <3> QED BY <3>1, <3>2, <3>4
  <2> QED BY <2>1, <2>2 DEF CallersInv
<1>4. CASE Ends
  BY <1>4, PoppedCallers
<1>5. CASE UNCHANGED vars
  BY <1>5 DEF vars, CallersInv, Nested, CallersUntouched
<1> QED BY <1>1, <1>2, <1>3, <1>4, <1>5, NextCases

(* As long as module loaders run no p0 code, no call, callback or          *)
(* exception changes or removes a slot of a function that still runs.      *)
THEOREM CallersKeepTheirSlots ==
  ASSUME ~LoadersRunCode
  PROVE  Spec => []CallersUntouched
<1>1. Init => CallersInv
  BY DEF Init, CallersInv, Nested, CallersUntouched
<1>2. TypeOK /\ CallFrameRestored /\ CallersInv /\ [Next]_vars => CallersInv'
  BY NextCallersInv
<1>3. CallersInv => CallersUntouched
  BY DEF CallersInv
<1> QED BY <1>1, <1>2, <1>3, TypeCorrect, CallFrame, PTL DEF Spec

-----------------------------------------------------------------------------
(* The result of interpreter::call *)

(* A function that C++ code called has its frame where m_next_call_frame   *)
(* was, which was recorded then.                                           *)
CalledInPlace ==
  \A k \in DOMAIN stack :
    stack[k].kind = "p0" /\ (k = 1 \/ stack[k - 1].kind # "p0")
      => stack[k].base = stack[k].saved

LEMMA NextCalledInPlace == TypeOK /\ CalledInPlace /\ [Next]_vars => CalledInPlace'
<1> SUFFICES ASSUME TypeOK, CalledInPlace, [Next]_vars PROVE CalledInPlace'
  OBVIOUS
<1>0. PICK n \in Nat : n = Len(stack) /\ DOMAIN stack = 1 .. n
  BY DEF TypeOK
<1>a. ASSUME NEW new \in Activation, stack' = Append(stack, new),
             new.kind = "p0" /\ (n = 0 \/ stack[n].kind # "p0") => new.base = new.saved
      PROVE  CalledInPlace'
  <2>1. /\ DOMAIN stack' = 1 .. n + 1 /\ stack'[n + 1] = new
        /\ \A k \in 1 .. n : stack'[k] = stack[k]
    BY <1>0, <1>a, AppendFacts DEF TypeOK
  <2> SUFFICES ASSUME NEW k \in 1 .. n + 1, stack'[k].kind = "p0",
                      k = 1 \/ stack'[k - 1].kind # "p0"
               PROVE  stack'[k].base = stack'[k].saved
    BY <2>1 DEF CalledInPlace
  <2>2. CASE k = n + 1
    <3>1. k - 1 = n /\ (n # 0 => stack'[k - 1] = stack[n])
      BY <2>1, <2>2
    <3> QED BY <1>a, <2>1, <2>2, <3>1
  <2>3. CASE k \in 1 .. n
    <3>1. stack'[k] = stack[k] /\ (k # 1 => stack'[k - 1] = stack[k - 1])
      BY <2>1, <2>3
    <3> QED BY <1>0, <2>3, <3>1 DEF CalledInPlace
  <2> QED BY <2>2, <2>3
<1>1. CASE Calls
  <2>1. PICK base \in Nat, callee \in Value, held \in [Slot -> Value] :
          Entered(base, callee, held)
    BY <1>1, CallStep
  <2> DEFINE new == NewActivation("p0", base, callee, Len(functions) + 1, base, held)
  <2>2. new \in Activation
    BY <2>1, NewActivationType DEF Entered, TypeOK
  <2>3. new.base = base /\ new.saved = nextFrame
    BY DEF NewActivation
  <2>4. (n = 0 \/ stack[n].kind # "p0") => base = nextFrame
    BY <1>0, <2>1 DEF Entered, CodeRunning, Outermost, Top, TypeOK
  <2>5. stack' = Append(stack, new)
    BY <2>1 DEF Entered
  <2> HIDE DEF new
  <2> QED BY <1>a, <2>2, <2>3, <2>4, <2>5
<1>2. CASE CppCall
  <2>1. PICK kind \in {"native", "loader"}, base \in Nat, callee \in Value, keep \in Nat :
          PushedCpp(kind, base, callee, keep)
    BY <1>2, CppCallStep
  <2> DEFINE new == NewActivation(kind, base, callee, Len(functions), keep, locals)
  <2>2. new \in Activation
    BY <2>1, NewActivationType DEF PushedCpp, TypeOK
  <2>3. new.kind # "p0"
    BY DEF NewActivation
  <2>4. stack' = Append(stack, new)
    BY <2>1 DEF PushedCpp
  <2> HIDE DEF new
  <2> QED BY <1>a, <2>2, <2>3, <2>4
<1>3. CASE Local
  BY <1>3, LocalStep DEF CalledInPlace
<1>4. CASE Ends
  <2>1. stack # <<>> /\ stack' = Pop(stack)
    BY <1>4, EndStep DEF Outermost
  <2>2. DOMAIN stack' = 1 .. n - 1 /\ \A k \in 1 .. n - 1 : stack'[k] = stack[k]
    BY <1>0, <2>1, PopFacts DEF TypeOK
  <2> SUFFICES ASSUME NEW k \in 1 .. n - 1, stack'[k].kind = "p0",
                      k = 1 \/ stack'[k - 1].kind # "p0"
               PROVE  stack'[k].base = stack'[k].saved
    BY <2>2 DEF CalledInPlace
  <2>3. k \in 1 .. n /\ stack'[k] = stack[k] /\ (k # 1 => stack'[k - 1] = stack[k - 1])
    BY <2>2
  <2> QED BY <1>0, <2>3 DEF CalledInPlace
<1>5. CASE UNCHANGED vars
  BY <1>5 DEF vars, CalledInPlace
<1> QED BY <1>1, <1>2, <1>3, <1>4, <1>5, NextCases

(* Where interpreter::call looks for the result, at m_next_call_frame, the *)
(* function it called has left it, however the calls in between ended.     *)
THEOREM Result == Spec => ResultIsInPlace
<1>1. Init => CalledInPlace
  BY DEF Init, CalledInPlace
<1> DEFINE Step ==
      ReturnFromFunction /\ (Len(stack) = 1 \/ stack[Len(stack) - 1].kind # "p0")
        => Top.base = nextFrame /\ size' > nextFrame
<1>2. TypeOK /\ CallFrameRestored /\ CalledInPlace /\ [Next]_vars => [Step]_vars
  <2> SUFFICES ASSUME TypeOK, CallFrameRestored, CalledInPlace, ReturnFromFunction,
                      Len(stack) = 1 \/ stack[Len(stack) - 1].kind # "p0"
               PROVE  Top.base = nextFrame /\ size' > nextFrame
    OBVIOUS
  <2>1. ~Outermost /\ Top.kind = "p0" /\ size' = Top.base + 1
    BY DEF ReturnFromFunction, CodeRunning
  <2>2. Len(stack) \in DOMAIN stack /\ Top = stack[Len(stack)] /\ Top.base \in Nat
    BY <2>1, TopFacts, ActivationFacts
  <2>3. nextFrame = Top.saved
    <3>1. Len(stack) # 0
      BY <2>2 DEF TypeOK
    <3> QED BY <2>1, <2>2, <3>1 DEF CallFrameRestored, FrameAfter
  <2>4. Top.base = Top.saved
    BY <2>1, <2>2 DEF CalledInPlace
  <2> QED BY <2>1, <2>2, <2>3, <2>4
<1> QED BY <1>1, <1>2, NextCalledInPlace, TypeCorrect, CallFrame, PTL
        DEF Spec, ResultIsInPlace
=============================================================================

---------------------------- MODULE CodeGenerator ----------------------------
(***************************************************************************)
(* p0compile: from the tree of a unit to its intermediate code.  A         *)
(* generator g stands for all the generators on the C++ stack: `active'    *)
(* holds the functions being generated, the innermost last, each with its  *)
(* local frames, the innermost block last.  A compiler_error on its way to *)
(* a handler is g.thrown; everything but what destructors do is skipped    *)
(* until a handler takes it.                                               *)
(***************************************************************************)
EXTENDS Trees, Instructions, FiniteSetsExt, SequencesExt

(* reference(): where the result of a discarded expression goes. *)
Invalid == -1

NewFrame(next) == [symbols |-> <<>>, next |-> next]

(* Mutant: the handler goes on without a word. *)
CatchSilently(g) == [g EXCEPT !.thrown = ""]

Catch(g) ==
  IF g.thrown = "" THEN g ELSE [g EXCEPT !.errors = Append(@, g.thrown), !.thrown = ""]
Throw(g, error) == IF g.thrown = "" THEN [g EXCEPT !.thrown = error] ELSE g

Current(g) == Last(g.active)
InnerFrame(g) == Last(Current(g).frames)
Update(g, context) == [g EXCEPT !.active = Append(Front(@), context)]
UpdateFrame(g, frame) ==
  Update(g, [Current(g) EXCEPT !.frames = Append(Front(@), frame)])

-----------------------------------------------------------------------------
(* emitter *)
Here(g) == Len(Current(g).code)

Emit(g, type, arguments) ==
  IF g.thrown # "" THEN g
  ELSE Update(g, [Current(g) EXCEPT !.code = Append(@, Make(type, arguments))])

EmitCopy(g, destination, source) == Emit(g, "copy", <<destination, source>>)
EmitElement(g, type, table, key, value) == Emit(g, type, <<table, key, value>>)
EmitBinary(g, operation, destination, source) == Emit(g, operation, <<destination, source>>)
EmitJump(g, destination) == Emit(g, "jump", <<destination>>)
EmitJumpIfNot(g, destination, condition) == Emit(g, "jump_if_not", <<destination, condition>>)

(* update_jump_destination, for some jumps at once. *)
JumpHere(g, jumps) ==
  IF g.thrown # "" THEN g
  ELSE Update(g, [Current(g) EXCEPT !.code =
         [i \in DOMAIN @ |-> IF i - 1 \in jumps THEN [@[i] EXCEPT !.args[1] = Here(g)]
                                                ELSE @[i]]])

-----------------------------------------------------------------------------
(* local_frame and temporary: the slots above the variables are taken and  *)
(* given back by moving a counter.                                         *)
NextSlot(g) == InnerFrame(g).next
Allocate(g, count) == UpdateFrame(g, [InnerFrame(g) EXCEPT !.next = @ + count])

Free(g, count) == UpdateFrame(g, [InnerFrame(g) EXCEPT !.next = @ - count])

DeclareVariable(g, name) ==
  LET frame == InnerFrame(g) IN
  IF g.thrown # "" THEN g
  ELSE IF name \in DOMAIN frame.symbols THEN Throw(g, "name_in_use")
  ELSE UpdateFrame(g, [symbols |-> [n \in DOMAIN frame.symbols \cup {name} |->
                                      IF n = name THEN frame.next ELSE frame.symbols[n]],
                       next |-> frame.next + 1])

(* find_function_local_variable *)
FindLocal(frames, name) ==
  LET holders == {i \in DOMAIN frames : name \in DOMAIN frames[i].symbols} IN
  IF holders = {} THEN Invalid ELSE frames[Max(holders)].symbols[name]

(* function_generator::bind: a bound variable is a slot of the enclosing   *)
(* function or a bound variable of it.                                     *)
BindVariable(context, variable) ==
  IF Contains(context.bound, variable) THEN context
  ELSE [context EXCEPT !.bound = Append(@, variable)]
BoundIndex(context, variable) ==
  (CHOOSE i \in DOMAIN context.bound : context.bound[i] = variable) - 1

(* The function at `level' has the variable in its own frames: the next    *)
(* function binds it, the functions further in get it from one another.    *)
BindThrough(active, level, slot) ==
  LET bind[k \in level .. Len(active)] ==
        IF k = level THEN [active |-> active, index |-> slot]
        ELSE LET outer == bind[k - 1]
                 variable == <<IF k = level + 1 THEN "local" ELSE "parent", outer.index>>
                 bound == BindVariable(active[k], variable)
             IN  [active |-> [outer.active EXCEPT ![k] = bound],
                  index |-> BoundIndex(bound, variable)]
  IN  bind[Len(active)]

(* emit_read_only, and the copy by the visitor of a name. *)
ReadName(g, name, destination) ==
  LET own == FindLocal(Current(g).frames, name)
      levels == {k \in 1 .. Len(g.active) - 1 : FindLocal(g.active[k].frames, name) # Invalid}
  IN  IF own # Invalid
        THEN IF destination \in {Invalid, own} THEN g ELSE EmitCopy(g, destination, own)
      ELSE IF levels = {} THEN Throw(g, "unknown_identifier")
      ELSE LET level == Max(levels)
               bound == BindThrough(g.active, level, FindLocal(g.active[level].frames, name))
               h == [g EXCEPT !.active = bound.active]
               function == NextSlot(h)
           IN IF destination = Invalid THEN h
              ELSE Emit(Emit(h, "current_function", <<function>>),
                        "get_bound", <<function, bound.index, destination>>)

-----------------------------------------------------------------------------
(* unit_generator *)
EmitString(g, slot, content) ==
  IF g.thrown # "" THEN g
  ELSE LET strings == IF Contains(g.strings, content) THEN g.strings
                      ELSE Append(g.strings, content)
           id == (CHOOSE i \in DOMAIN strings : strings[i] = content) - 1
       IN  Emit([g EXCEPT !.strings = strings], "set_string", <<slot, id>>)

(* The literal's digits, one after the other, in a word without its sign:  *)
(* a value that becomes smaller is too large.                              *)
LiteralValue(digits) ==
  LET value[i \in 0 .. Len(digits)] ==
        IF i = 0 THEN 0 ELSE (value[i - 1] * 10 + digits[i]) % (MaxInt + 1)
  IN  [value |-> value[Len(digits)],
       tooLarge |-> \E i \in 1 .. Len(digits) : value[i] < value[i - 1]]

-----------------------------------------------------------------------------
RECURSIVE Rvalue(_, _, _), Statement(_, _)

Arguments(g, arguments) ==
  LET first == NextSlot(g)
      generate[i \in 0 .. Len(arguments)] ==
        IF i = 0 THEN Allocate(g, Len(arguments))
        ELSE IF g.thrown # "" THEN generate[i - 1]
        ELSE Catch(Rvalue(generate[i - 1], arguments[i], first + i - 1))
  IN  generate[Len(arguments)]

(* What a call leaves in its slot goes to the destination. *)
StoreResult(g, destination, slot) ==
  IF destination = Invalid THEN g ELSE EmitCopy(g, destination, slot)

CallFunction(g, tree, destination) ==
  LET result == NextSlot(g)
      callee == Catch(Rvalue(Allocate(g, 1), tree.function, result))
      call == Emit(Arguments(callee, tree.arguments), "call", <<result, Len(tree.arguments)>>)
  IN  Free(StoreResult(call, destination, result), 1 + Len(tree.arguments))

CallMethod(g, tree, destination) ==
  LET method == NextSlot(g)
      result == method + 1
      instance == Rvalue(Allocate(g, 2), tree.instance, result)
      prepared == EmitString(instance, method, tree.methodName)
      call == Emit(Arguments(prepared, tree.arguments),
                   "call_method", <<result, Len(tree.arguments), method>>)
  IN  Free(StoreResult(call, destination, result), 2 + Len(tree.arguments))

Table(g, tree, destination) ==
  LET slot == NextSlot(g)
      Element(h, element) ==
        IF destination = Invalid THEN Catch(Rvalue(h, element[2], Invalid))
        ELSE LET key == EmitString(Allocate(h, 1), slot, element[1])
                 value == Rvalue(Allocate(key, 1), element[2], slot + 1)
             IN  Catch(Free(EmitElement(value, "set_element", destination, slot, slot + 1), 2))
      generate[i \in 0 .. Len(tree.elements)] ==
        IF i = 0 THEN IF destination = Invalid THEN g ELSE Emit(g, "new_table", <<destination>>)
        ELSE Element(generate[i - 1], tree.elements[i])
  IN  generate[Len(tree.elements)]

(* Mutant: the right operand goes to the slot of the left one. *)
BinaryInPlace(g, tree, destination) ==
  LET left == Rvalue(g, tree.left, destination)
      right == Rvalue(Allocate(left, 1), tree.right, NextSlot(g))
  IN  IF destination = Invalid THEN Rvalue(left, tree.right, Invalid)
      ELSE Free(EmitBinary(right, tree.type, destination, NextSlot(g)), 1)

Binary(g, tree, destination) ==
  IF destination = Invalid
    THEN Rvalue(Rvalue(g, tree.left, Invalid), tree.right, Invalid)
    ELSE LET slot == NextSlot(g)
             left == Rvalue(Allocate(g, 1), tree.left, slot)
             right == Rvalue(Allocate(left, 1), tree.right, slot + 1)
         IN  Free(EmitCopy(EmitBinary(right, tree.type, slot, slot + 1), destination, slot), 2)

LogicalAnd(g, tree, destination) ==
  LET size == IF destination = Invalid THEN 1 ELSE 0
      slot == IF destination = Invalid THEN NextSlot(g) ELSE destination
      left == Rvalue(Allocate(g, size), tree.left, slot)
      right == Rvalue(EmitJumpIfNot(left, -1, slot), tree.right, destination)
  IN  Free(JumpHere(right, {Here(left)}), size)

(* A table expression goes to the destination of the element; the key of a *)
(* dot is its element's name.                                              *)
Subscript(g, table, key, destination) ==
  LET read == Rvalue(g, table, destination)
      slot == NextSlot(g)
      both == Rvalue(Allocate(read, 1), key, slot)
  IN  Free(IF destination = Invalid THEN both
           ELSE EmitElement(both, "get_element", destination, slot, destination), 1)

Import(g, tree, destination) ==
  LET size == IF destination = Invalid THEN 1 ELSE 0
      slot == IF destination = Invalid THEN NextSlot(g) ELSE destination
      name == Rvalue(Allocate(g, size), tree.module, slot)
  IN  Free(Emit(name, "load_module", <<slot>>), size)

(* emit_bindings: the slots that hold the bound variables' values when the *)
(* closure is made.                                                        *)
EmitBindings(g, closure, bound) ==
  LET forwarded == {i \in DOMAIN bound : bound[i][1] = "parent"}
      function == NextSlot(g)
      One(h, i) ==
        IF bound[i][1] = "local" THEN Emit(h, "bind", <<closure, i - 1, bound[i][2]>>)
        ELSE LET known == IF i = Min(forwarded) THEN Emit(h, "current_function", <<function>>)
                                                ELSE h
                 got == Emit(known, "get_bound", <<function, bound[i][2], function + 1>>)
             IN  Emit(got, "bind", <<closure, i - 1, function + 1>>)
      emit[i \in 0 .. Len(bound)] == IF i = 0 THEN g ELSE One(emit[i - 1], i)
  IN  emit[Len(bound)]

(* generate_function: slot 0 is for the result, then come the parameters.  *)
GenerateFunction(g, tree) ==
  LET context == [code |-> <<>>, returns |-> {}, bound |-> <<>>, loops |-> <<>>,
                  frames |-> <<NewFrame(1)>>]
      start == [g EXCEPT !.functions = Append(@, [body |-> <<>>, parameters |-> 0, bound |-> 0]),
                         !.active = Append(@, context)]
      declare[i \in 0 .. Len(tree.parameters)] ==
        IF i = 0 THEN start ELSE Catch(DeclareVariable(declare[i - 1], tree.parameters[i]))
      body == Statement(declare[Len(tree.parameters)], tree.body)
      done == JumpHere(body, Current(body).returns)
  IN  [done EXCEPT !.functions[Len(g.functions) + 1] =
                      [body |-> Current(done).code, parameters |-> Len(tree.parameters),
                       bound |-> Len(Current(done).bound)]]

FunctionLiteral(g, tree, destination) ==
  LET generated == GenerateFunction(g, tree)
      outside == [generated EXCEPT !.active = Front(@)]
  IN  IF destination = Invalid THEN outside
      ELSE EmitBindings(Emit(outside, "set_function", <<destination, Len(g.functions)>>),
                        destination, Current(generated).bound)

Integer10(g, tree, destination) ==
  LET literal == LiteralValue(tree.value) IN
  IF literal.tooLarge THEN Throw(g, "integer_too_large")
  ELSE IF destination = Invalid THEN g
  ELSE Emit(g, "set_from_constant", <<destination, literal.value>>)

(* A direct operator; || leaves nothing behind, not even its operands.     *)
BinaryExpression(g, tree, destination) ==
  CASE tree.type = "logical_and" -> LogicalAnd(g, tree, destination)
    [] tree.type = "logical_or"  -> g
    [] OTHER                     -> Binary(g, tree, destination)

Unary(g, tree, destination) ==
  LET input == Rvalue(g, tree.input, destination) IN
  IF destination = Invalid THEN input ELSE Emit(input, tree.type, <<destination>>)

(* rvalue_generator *)
Rvalue(g, tree, destination) ==
  IF g.thrown # "" THEN g
  ELSE CASE tree.kind = "name" -> ReadName(g, tree.name, destination)
         [] tree.kind = "integer" -> Integer10(g, tree, destination)
         [] tree.kind = "string" ->
              IF destination = Invalid THEN g ELSE EmitString(g, destination, tree.content)
         [] tree.kind = "call" -> CallFunction(g, tree, destination)
         [] tree.kind = "function" -> FunctionLiteral(g, tree, destination)
         [] tree.kind = "null" ->
              IF destination = Invalid THEN g ELSE Emit(g, "set_null", <<destination>>)
         [] tree.kind = "table" -> Table(g, tree, destination)
         [] tree.kind = "unary" -> Unary(g, tree, destination)
         [] tree.kind = "binary" -> BinaryExpression(g, tree, destination)
         [] tree.kind = "dot" ->
              Subscript(g, tree.table, StringTree(tree.elementName), destination)
         [] tree.kind = "subscript" -> Subscript(g, tree.table, tree.key, destination)
         [] tree.kind = "import" -> Import(g, tree, destination)
         [] tree.kind = "method_call" -> CallMethod(g, tree, destination)

-----------------------------------------------------------------------------
(* statement_code_generator and lvalue_generator *)
Declaration(g, tree) ==
  LET declared == DeclareVariable(g, tree.name) IN Rvalue(declared, tree.value, NextSlot(g))

Return(g, tree) ==
  LET value == Rvalue(g, tree.value, 0)
      jump == EmitJump(value, -1)
  IN  IF value.thrown # "" THEN value
      ELSE Update(jump, [Current(jump) EXCEPT !.returns = @ \cup {Here(value)}])

(* A block's frame starts where the frame around it stands. *)
Block(g, tree) ==
  LET generate[i \in 0 .. Len(tree.body)] ==
        IF i = 0 THEN Update(g, [Current(g) EXCEPT !.frames = Append(@, NewFrame(NextSlot(g)))])
        ELSE Catch(Statement(generate[i - 1], tree.body[i]))
      done == generate[Len(tree.body)]
  IN  Update(done, [Current(done) EXCEPT !.frames = Front(@)])

AssignName(g, name, source) ==
  LET slot == FindLocal(Current(g).frames, name) IN
  IF slot = Invalid THEN Throw(g, "unknown_identifier") ELSE Rvalue(g, source, slot)

(* An element's value is computed first, then table and key. *)
AssignElement(g, table, key, source) ==
  LET slot == NextSlot(g)
      value == Rvalue(Allocate(g, 1), source, slot)
      target == Rvalue(Allocate(value, 1), table, slot + 1)
      both == Rvalue(Allocate(target, 1), key, slot + 2)
  IN  Free(EmitElement(both, "set_element", slot + 1, slot + 2, slot), 3)

Assignment(g, destination, source) ==
  CASE destination.kind = "name" -> AssignName(g, destination.name, source)
    [] destination.kind = "dot" ->
         AssignElement(g, destination.table, StringTree(destination.elementName), source)
    [] destination.kind = "subscript" ->
         AssignElement(g, destination.table, destination.key, source)
    [] OTHER -> Throw(g, "not_an_lvalue")

If(g, tree) ==
  LET slot == NextSlot(g)
      condition == Rvalue(Allocate(g, 1), tree.condition, slot)
      onTrue == Statement(EmitJumpIfNot(condition, -1, slot), tree.onTrue)
      skip == JumpHere(EmitJump(onTrue, -1), {Here(condition)})
      onFalse == JumpHere(Statement(skip, tree.onFalse[1]), {Here(onTrue)})
  IN  Free(IF condition.thrown # "" THEN condition
           ELSE IF tree.onFalse = <<>> THEN JumpHere(onTrue, {Here(condition)})
           ELSE onFalse, 1)

While(g, tree) ==
  LET slot == NextSlot(g)
      start == Here(g)
      entered == LET h == Allocate(g, 1) IN
                 Update(h, [Current(h) EXCEPT !.loops = Append(@, [continue |-> start, breaks |-> {}])])
      condition == Rvalue(entered, tree.condition, slot)
      body == EmitJump(Statement(EmitJumpIfNot(condition, -1, slot), tree.body), start)
      done == JumpHere(body, {Here(condition)} \cup Last(Current(body).loops).breaks)
  IN  Free(Update(done, [Current(done) EXCEPT !.loops = Front(@)]), 1)

(* Mutant: nobody remembers the jump, so that it gets no destination. *)
BreakUnregistered(g) ==
  IF Current(g).loops = <<>> THEN Throw(g, "break_outside_of_a_loop") ELSE EmitJump(g, -1)

(* Mutant: a break leads to where a continue does. *)
BreakToStart(g) ==
  IF Current(g).loops = <<>> THEN Throw(g, "break_outside_of_a_loop")
  ELSE EmitJump(g, Last(Current(g).loops).continue)

BreakLoop(g) ==
  LET loops == Current(g).loops
      jump == EmitJump(g, -1)
  IN  IF loops = <<>> THEN Throw(g, "break_outside_of_a_loop")
      ELSE Update(jump, [Current(jump) EXCEPT !.loops[Len(loops)].breaks = @ \cup {Here(g)}])

ContinueLoop(g) ==
  LET loops == Current(g).loops IN
  IF loops = <<>> THEN Throw(g, "continue_outside_of_a_loop")
  ELSE EmitJump(g, Last(loops).continue)

Statement(g, tree) ==
  IF g.thrown # "" THEN g
  ELSE CASE tree.kind = "declaration" -> Declaration(g, tree)
         [] tree.kind = "return" -> Return(g, tree)
         [] tree.kind = "block" -> Block(g, tree)
         [] tree.kind = "expression" -> Rvalue(g, tree.expression, Invalid)
         [] tree.kind = "assignment" -> Assignment(g, tree.destination, tree.source)
         [] tree.kind = "if" -> If(g, tree)
         [] tree.kind = "while" -> While(g, tree)
         [] tree.kind = "break" -> BreakLoop(g)
         [] tree.kind = "continue" -> ContinueLoop(g)

(* compiler::compile after parsing *)
GenerateUnit(tree) ==
  LET g == GenerateFunction([functions |-> <<>>, strings |-> <<>>, active |-> <<>>,
                             errors |-> <<>>, thrown |-> ""], tree)
  IN  [functions |-> g.functions, strings |-> g.strings, errors |-> g.errors]
=============================================================================

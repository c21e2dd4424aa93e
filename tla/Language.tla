------------------------------ MODULE Language ------------------------------
(***************************************************************************)
(* What the trees of a program mean, without code, slots or closures'      *)
(* lists: the specification the code generator is measured by.  A variable *)
(* is a name in a scope; a function literal keeps a copy of all variables  *)
(* it can see; && looks at its right side if the left one is true; of an   *)
(* expression whose value nobody wants only the parts with effects count.  *)
(*                                                                         *)
(* A meaning m is the state between two steps of the program: `scopes' are *)
(* those of the function being run, `captured' what it was made with,      *)
(* `flow' how the last statement was left, `fuel' how many more calls and  *)
(* loop turns are followed.                                                *)
(***************************************************************************)
EXTENDS Trees, Values

CONSTANT MaxTurns   \* bound: calls and loop turns of a program

Unset == <<"unset", 0>>

NoNames == [name \in {} |-> NullValue]
Define(names, name, value) ==
  [n \in DOMAIN names \cup {name} |-> IF n = name THEN value ELSE names[n]]

Fails(m) == m.error # ""
Yield(m, value) == [m EXCEPT !.value = value]
Fail(m, error) == IF Fails(m) THEN m ELSE [m EXCEPT !.error = error]
Conclude(m, result) ==
  IF Fails(m) THEN m ELSE IF result.error = "" THEN Yield(m, result.value) ELSE Fail(m, result.error)

ScopesWith(m, name) == {i \in DOMAIN m.scopes : name \in DOMAIN m.scopes[i]}
Innermost(indexes) == CHOOSE i \in indexes : \A j \in indexes : j <= i

Lookup(m, name) ==
  LET own == ScopesWith(m, name) IN
  IF own # {} THEN m.scopes[Innermost(own)][name] ELSE m.captured[name]

(* Everything a function literal sees. *)
Visible(m) ==
  LET names == DOMAIN m.captured \cup UNION {DOMAIN m.scopes[i] : i \in DOMAIN m.scopes}
  IN  [name \in names |-> Lookup(m, name)]

(* What the world sees of a value. *)
Shown(value) == IF Type(value) \in {"object", "function", "table"} THEN <<"something", 0>> ELSE value

(* A native function: it tells the world, and answers 1 and 0 in turn. *)
CallNative(m, event) ==
  [m EXCEPT !.events = Append(@, event), !.value = IntegerValue((Len(m.events) + 1) % 2)]

RECURSIVE Evaluate(_, _, _), Perform(_, _), DigitsMean(_)

DigitsMean(digits) ==
  IF digits = <<>> THEN 0
  ELSE DigitsMean(SubSeq(digits, 1, Len(digits) - 1)) * 10 + digits[Len(digits)]

(* The values of some trees, in their order. *)
EvaluateAll(m, trees) ==
  LET step[i \in 0 .. Len(trees)] ==
        IF i = 0 THEN [m |-> m, values |-> <<>>]
        ELSE LET before == step[i - 1]
                 after == Evaluate(before.m, trees[i], TRUE)
             IN  [m |-> after, values |-> Append(before.values, after.value)]
  IN  step[Len(trees)]

(* A function sees what it was made with, and its parameters; those that   *)
(* get no argument are null.  Without a return it returns itself.          *)
CallFunctionValue(m, callee, arguments) ==
  LET function == m.heap[callee[2]]
      parameters == function.tree.parameters
      own == [name \in {parameters[i] : i \in DOMAIN parameters} |->
                LET i == CHOOSE k \in DOMAIN parameters : parameters[k] = name IN
                IF i <= Len(arguments) THEN arguments[i] ELSE NullValue]
      inside == [m EXCEPT !.scopes = <<own>>, !.captured = function.captured, !.flow = "next",
                          !.fuel = @ - 1, !.result = callee]
      done == Perform(inside, function.tree.body)
  IN  IF m.fuel = 0 THEN Fail(m, "endless")
      ELSE [done EXCEPT !.scopes = m.scopes, !.captured = m.captured, !.flow = m.flow,
                        !.result = m.result, !.value = done.result]

CallValue(m, callee, arguments) ==
  IF Fails(m) THEN m
  ELSE CASE Type(callee) = "function" -> CallFunctionValue(m, callee, arguments)
         [] Type(callee) = "native" ->
              CallNative(m, <<"call", [i \in DOMAIN arguments |-> Shown(arguments[i])]>>)
         [] Type(callee) \in {"table", "string"} -> Fail(m, "call_not_supported")
         [] OTHER -> Fail(m, "call_non_object")

CallMethodOf(m, instance, name, arguments) ==
  IF Fails(m) THEN m
  ELSE CASE Type(instance) = "native" ->
              CallNative(m, <<name, [i \in DOMAIN arguments |-> Shown(arguments[i])]>>)
         [] Type(instance) \in {"table", "string"} -> Fail(m, "call_not_supported")
         [] OTHER -> Fail(m, "call_non_object")

ReadElement(m, table, key) ==
  IF Fails(m) THEN m
  ELSE CASE Type(table) = "table" -> Yield(m, GetElement(m.heap[table[2]], key))
         [] Type(table) = "string" -> Conclude(m, Character(table[2], key))
         [] Type(table) = "native" -> Fail(m, "get_not_supported")
         [] OTHER -> Fail(m, "get_from_non_object")

WriteElement(m, table, key, value) ==
  IF Fails(m) THEN m
  ELSE CASE Type(table) = "table" ->
              [m EXCEPT !.heap[table[2]] = SetElement(@, key, value)]
         [] Type(table) \in {"string", "native"} -> Fail(m, "set_not_supported")
         [] OTHER -> Fail(m, "set_on_non_object")

EvaluateTable(m, tree, wanted) ==
  LET table == <<"table", Len(m.heap) + 1>>
      step[i \in 0 .. Len(tree.elements)] ==
        IF i = 0 THEN IF wanted THEN [m EXCEPT !.heap = Append(@, NoElements)] ELSE m
        ELSE LET after == Evaluate(step[i - 1], tree.elements[i][2], wanted)
             IN  IF wanted THEN WriteElement(after, table, StringValue(tree.elements[i][1]), after.value)
                 ELSE after
  IN  Yield(step[Len(tree.elements)], table)

EvaluateBinary(m, tree, wanted) ==
  LET left == Evaluate(m, tree.left, wanted \/ tree.type = "logical_and")
      right == Evaluate(left, tree.right, wanted)
  IN  IF tree.type = "logical_and" THEN IF Fails(left) \/ ~Truth(left.value) THEN left ELSE right
      ELSE IF Fails(right) \/ ~wanted THEN right
      ELSE Conclude(right, ApplyBinary(tree.type, left.value, right.value))

EvaluateElement(m, tree, key, wanted) ==
  LET table == Evaluate(m, tree, wanted)
      at == Evaluate(table, key, TRUE)
  IN  IF wanted THEN ReadElement(at, table.value, at.value) ELSE at

Evaluate(m, tree, wanted) ==
  IF Fails(m) THEN m
  ELSE CASE tree.kind = "name" ->
              LET value == Lookup(m, tree.name) IN
              IF value = Unset THEN Fail(m, "unset") ELSE Yield(m, value)
         [] tree.kind = "integer" -> Yield(m, IntegerValue(DigitsMean(tree.value)))
         [] tree.kind = "string" -> Yield(m, StringValue(tree.content))
         [] tree.kind = "null" -> Yield(m, NullValue)
         [] tree.kind = "call" ->
              LET all == EvaluateAll(m, <<tree.function>> \o tree.arguments)
              IN  CallValue(all.m, Head(all.values), Tail(all.values))
         [] tree.kind = "method_call" ->
              LET all == EvaluateAll(m, <<tree.instance>> \o tree.arguments)
              IN  CallMethodOf(all.m, Head(all.values), tree.methodName, Tail(all.values))
         [] tree.kind = "function" ->
              Yield([m EXCEPT !.heap = Append(@, [tree |-> tree, captured |-> Visible(m)])],
                    <<"function", Len(m.heap) + 1>>)
         [] tree.kind = "table" -> EvaluateTable(m, tree, wanted)
         [] tree.kind = "unary" ->
              LET input == Evaluate(m, tree.input, wanted)
              IN  IF wanted THEN Conclude(input, ApplyUnary(tree.type, input.value)) ELSE input
         [] tree.kind = "binary" -> EvaluateBinary(m, tree, wanted)
         [] tree.kind = "dot" -> EvaluateElement(m, tree.table, StringTree(tree.elementName), wanted)
         [] tree.kind = "subscript" -> EvaluateElement(m, tree.table, tree.key, wanted)
         [] tree.kind = "import" ->
              LET name == Evaluate(m, tree.module, TRUE) IN
              IF Fails(name) THEN name
              ELSE IF Type(name.value) # "string" THEN Fail(name, "invalid_module_name")
              ELSE [name EXCEPT !.events = Append(@, <<"import", name.value>>),
                                !.value = <<"native", name.value[2]>>]

-----------------------------------------------------------------------------
DeclareIn(m, name, value) ==
  [m EXCEPT !.scopes[Len(m.scopes)] = Define(@, name, value)]

AssignTo(m, name, value) == [m EXCEPT !.scopes[Innermost(ScopesWith(m, name))][name] = value]

PerformBlock(m, body) ==
  LET step[i \in 0 .. Len(body)] ==
        IF i = 0 THEN [m EXCEPT !.scopes = Append(@, NoNames)]
        ELSE IF Fails(step[i - 1]) \/ step[i - 1].flow # "next" THEN step[i - 1]
        ELSE Perform(step[i - 1], body[i])
  IN  [step[Len(body)] EXCEPT !.scopes = SubSeq(@, 1, Len(m.scopes))]

(* The value, then the table and the key. *)
PerformAssignment(m, destination, source) ==
  LET value == Evaluate(m, source, TRUE)
      table == Evaluate(value, destination.table, TRUE)
      key == Evaluate(table, IF destination.kind = "dot" THEN StringTree(destination.elementName)
                             ELSE destination.key, TRUE)
  IN  IF destination.kind # "name" THEN WriteElement(key, table.value, key.value, value.value)
      ELSE IF Fails(value) THEN value
      ELSE AssignTo(value, destination.name, value.value)

RECURSIVE PerformWhile(_, _)
PerformWhile(m, tree) ==
  LET condition == Evaluate(m, tree.condition, TRUE)
      body == Perform(condition, tree.body)
  IN  IF Fails(condition) \/ ~Truth(condition.value) THEN condition
      ELSE IF m.fuel = 0 THEN Fail(m, "endless")
      ELSE IF Fails(body) \/ body.flow = "return" THEN body
      ELSE IF body.flow = "break" THEN [body EXCEPT !.flow = "next"]
      ELSE PerformWhile([body EXCEPT !.flow = "next", !.fuel = @ - 1], tree)

Perform(m, tree) ==
  IF Fails(m) THEN m
  ELSE CASE tree.kind = "declaration" ->
              LET value == Evaluate(DeclareIn(m, tree.name, Unset), tree.value, TRUE)
              IN  IF Fails(value) THEN value ELSE DeclareIn(value, tree.name, value.value)
         [] tree.kind = "return" ->
              LET value == Evaluate(m, tree.value, TRUE)
              IN  [value EXCEPT !.flow = "return", !.result = value.value]
         [] tree.kind = "block" -> PerformBlock(m, tree.body)
         [] tree.kind = "expression" -> Evaluate(m, tree.expression, FALSE)
         [] tree.kind = "assignment" -> PerformAssignment(m, tree.destination, tree.source)
         [] tree.kind = "if" ->
              LET condition == Evaluate(m, tree.condition, TRUE) IN
              IF Fails(condition) THEN condition
              ELSE IF Truth(condition.value) THEN Perform(condition, tree.onTrue)
              ELSE IF tree.onFalse = <<>> THEN condition
              ELSE Perform(condition, tree.onFalse[1])
         [] tree.kind = "while" -> PerformWhile(m, tree)
         [] tree.kind = "break" -> [m EXCEPT !.flow = "break"]
         [] tree.kind = "continue" -> [m EXCEPT !.flow = "continue"]

(* The whole program: what it tells the world, how it ends, its result. *)
Meaning(unit) ==
  LET start == [scopes |-> <<>>, captured |-> NoNames, events |-> <<>>, error |-> "",
                heap |-> <<[tree |-> unit, captured |-> NoNames]>>, value |-> NullValue,
                result |-> NullValue, flow |-> "next", fuel |-> MaxTurns]
      done == CallFunctionValue(start, <<"function", 1>>, <<>>)
  IN  [events |-> done.events, error |-> done.error,
       result |-> IF Fails(done) THEN NullValue ELSE Shown(done.value)]

-----------------------------------------------------------------------------
(* Which programs there are: every name is declared where it is used, and  *)
(* nothing but variables of the function itself and elements of tables is  *)
(* assigned to.  `own' are the names declared in the innermost block,      *)
(* `function' those of the function around it, `outer' those further out.  *)
Scope(own, function, outer, loop) ==
  [own |-> own, function |-> function, outer |-> outer, loop |-> loop]
Known(scope) == scope.own \cup scope.function \cup scope.outer
Enter(scope) == [scope EXCEPT !.function = @ \cup scope.own, !.own = {}]

RECURSIVE ValidExpression(_, _), ValidStatement(_, _)

ValidAll(trees, scope) == \A i \in DOMAIN trees : ValidExpression(trees[i], scope)

(* Literals are limited by the width of an integer. *)
ValidExpression(tree, scope) ==
  CASE tree.kind = "name" -> tree.name \in Known(scope)
    [] tree.kind = "integer" -> DigitsMean(tree.value) < Half
    [] tree.kind \in {"string", "null"} -> TRUE
    [] tree.kind = "call" -> ValidAll(<<tree.function>> \o tree.arguments, scope)
    [] tree.kind = "method_call" -> ValidAll(<<tree.instance>> \o tree.arguments, scope)
    [] tree.kind = "function" ->
         LET parameters == {tree.parameters[i] : i \in DOMAIN tree.parameters} IN
         /\ \A i, j \in DOMAIN tree.parameters :
              tree.parameters[i] = tree.parameters[j] => i = j
         /\ ValidStatement(tree.body, Scope(parameters, {}, Known(scope), FALSE))
    [] tree.kind = "table" ->
         \A i \in DOMAIN tree.elements : ValidExpression(tree.elements[i][2], scope)
    [] tree.kind = "unary" -> ValidExpression(tree.input, scope)
    [] tree.kind = "binary" -> ValidAll(<<tree.left, tree.right>>, scope)
    [] tree.kind = "dot" -> ValidExpression(tree.table, scope)
    [] tree.kind = "subscript" -> ValidAll(<<tree.table, tree.key>>, scope)
    [] tree.kind = "import" -> ValidExpression(tree.module, scope)

ValidDestination(tree, scope) ==
  CASE tree.kind = "name" -> tree.name \in scope.own \cup scope.function
    [] tree.kind \in {"dot", "subscript"} -> ValidExpression(tree, scope)
    [] OTHER -> FALSE

(* A block's statements; a declaration holds from its own value on.        *)
ValidBlock(body, scope) ==
  LET before(i) == [Enter(scope) EXCEPT !.own =
                      {body[k].name : k \in {j \in 1 .. i - 1 : body[j].kind = "declaration"}}]
  IN  \A i \in DOMAIN body : ValidStatement(body[i], before(i))

ValidStatement(tree, scope) ==
  CASE tree.kind = "declaration" ->
         /\ tree.name \notin scope.own
         /\ ValidExpression(tree.value, [scope EXCEPT !.own = @ \cup {tree.name}])
    [] tree.kind = "return" -> ValidExpression(tree.value, scope)
    [] tree.kind = "block" -> ValidBlock(tree.body, scope)
    [] tree.kind = "expression" -> ValidExpression(tree.expression, scope)
    [] tree.kind = "assignment" ->
         ValidDestination(tree.destination, scope) /\ ValidExpression(tree.source, scope)
    [] tree.kind = "if" ->
         /\ ValidExpression(tree.condition, scope)
         /\ ValidStatement(tree.onTrue, scope)
         /\ \A i \in DOMAIN tree.onFalse : ValidStatement(tree.onFalse[i], scope)
    [] tree.kind = "while" ->
         /\ ValidExpression(tree.condition, [scope EXCEPT !.loop = TRUE])
         /\ ValidStatement(tree.body, [scope EXCEPT !.loop = TRUE])
    [] tree.kind \in {"break", "continue"} -> scope.loop

Valid(unit) == ValidExpression(unit, Scope({}, {}, {}, FALSE))

-----------------------------------------------------------------------------
(* The trees in which the generated code is known to go another way: || is *)
(* not implemented, and an assignment to a variable computes its value in  *)
(* the variable itself, which goes wrong when what comes after the first   *)
(* write reads the variable.                                               *)
RECURSIVE Mentions(_, _), Overwrites(_, _), IsUnchecked(_), HasGap(_)

Parts(tree) ==
  CASE tree.kind \in {"name", "integer", "string", "null", "break", "continue"} -> {}
    [] tree.kind = "call" -> {tree.function} \cup {tree.arguments[i] : i \in DOMAIN tree.arguments}
    [] tree.kind = "method_call" ->
         {tree.instance} \cup {tree.arguments[i] : i \in DOMAIN tree.arguments}
    [] tree.kind = "function" -> {tree.body}
    [] tree.kind = "table" -> {tree.elements[i][2] : i \in DOMAIN tree.elements}
    [] tree.kind = "unary" -> {tree.input}
    [] tree.kind = "binary" -> {tree.left, tree.right}
    [] tree.kind = "dot" -> {tree.table}
    [] tree.kind = "subscript" -> {tree.table, tree.key}
    [] tree.kind = "import" -> {tree.module}
    [] tree.kind = "declaration" -> {tree.value}
    [] tree.kind = "return" -> {tree.value}
    [] tree.kind = "block" -> {tree.body[i] : i \in DOMAIN tree.body}
    [] tree.kind = "expression" -> {tree.expression}
    [] tree.kind = "assignment" -> {tree.destination, tree.source}
    [] tree.kind = "if" -> {tree.condition, tree.onTrue} \cup {tree.onFalse[i] : i \in DOMAIN tree.onFalse}
    [] tree.kind = "while" -> {tree.condition, tree.body}

Mentions(tree, name) ==
  \/ tree.kind = "name" /\ tree.name = name
  \/ \E part \in Parts(tree) : Mentions(part, name)

Overwrites(tree, name) ==
  CASE tree.kind = "subscript" -> Overwrites(tree.table, name) \/ Mentions(tree.key, name)
    [] tree.kind \in {"table", "function"} -> Mentions(tree, name)
    [] tree.kind = "binary" /\ tree.type = "logical_and" ->
         Overwrites(tree.left, name) \/ Overwrites(tree.right, name) \/ Mentions(tree.right, name)
    [] tree.kind = "dot" -> Overwrites(tree.table, name)
    [] tree.kind = "unary" -> Overwrites(tree.input, name)
    [] tree.kind = "import" -> Overwrites(tree.module, name)
    [] OTHER -> FALSE

(* Of what the compiler checks, some is not looked at: the operands of ||, *)
(* and a literal that is too large without a digit that makes the word     *)
(* smaller.                                                                *)
GrowsInTheWord(digits) ==
  \A i \in DOMAIN digits :
    DigitsMean(SubSeq(digits, 1, i)) % Half >= DigitsMean(SubSeq(digits, 1, i - 1)) % Half

IsUnchecked(tree) ==
  \/ tree.kind = "binary" /\ tree.type = "logical_or"
  \/ tree.kind = "integer" /\ DigitsMean(tree.value) >= Half /\ GrowsInTheWord(tree.value)
  \/ \E part \in Parts(tree) : IsUnchecked(part)

HasGap(tree) ==
  \/ tree.kind = "binary" /\ tree.type = "logical_or"
  \/ tree.kind = "assignment" /\ tree.destination.kind = "name"
       /\ Overwrites(tree.source, tree.destination.name)
  \/ \E part \in Parts(tree) : HasGap(part)
=============================================================================

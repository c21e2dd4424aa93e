------------------------------- MODULE Trees -------------------------------
(***************************************************************************)
(* The syntax trees of p0compile: one record per class of                  *)
(* expression_tree.hpp and statement_tree.hpp.  `kind' is what a visitor   *)
(* tells apart; a source range is the name or the literal it covers.       *)
(***************************************************************************)
EXTENDS Integers, Sequences

NameTree(name)                    == [kind |-> "name", name |-> name]
IntegerTree(digits)               == [kind |-> "integer", value |-> digits]
StringTree(content)               == [kind |-> "string", content |-> content]
CallTree(function, arguments)     == [kind |-> "call", function |-> function,
                                      arguments |-> arguments]
FunctionTree(parameters, body)    == [kind |-> "function", parameters |-> parameters,
                                      body |-> body]
NullTree                          == [kind |-> "null"]
(* elements: a sequence of pairs of a name and the tree of a value. *)
TableTree(elements)               == [kind |-> "table", elements |-> elements]
UnaryTree(type, input)            == [kind |-> "unary", type |-> type, input |-> input]
BinaryTree(type, left, right)     == [kind |-> "binary", type |-> type,
                                      left |-> left, right |-> right]
DotTree(table, name)              == [kind |-> "dot", table |-> table, elementName |-> name]
SubscriptTree(table, key)         == [kind |-> "subscript", table |-> table, key |-> key]
ImportTree(name)                  == [kind |-> "import", module |-> name]
MethodCallTree(instance, method, arguments) ==
  [kind |-> "method_call", instance |-> instance, methodName |-> method,
   arguments |-> arguments]

DeclarationTree(name, value)      == [kind |-> "declaration", name |-> name, value |-> value]
ReturnTree(value)                 == [kind |-> "return", value |-> value]
BlockTree(body)                   == [kind |-> "block", body |-> body]
ExpressionStatementTree(expression) == [kind |-> "expression", expression |-> expression]
AssignmentTree(destination, source) == [kind |-> "assignment", destination |-> destination,
                                        source |-> source]
(* onFalse: empty, or the one statement of the else branch. *)
IfTree(condition, onTrue, onFalse) == [kind |-> "if", condition |-> condition,
                                       onTrue |-> onTrue, onFalse |-> onFalse]
WhileTree(condition, body)        == [kind |-> "while", condition |-> condition, body |-> body]
BreakTree                         == [kind |-> "break"]
ContinueTree                      == [kind |-> "continue"]

UnaryOperators == {"not", "invert", "negate"}

(* The operators that have an instruction of the same name, and the two    *)
(* that have none.                                                         *)
DirectOperators == {"add", "sub", "mul", "div", "mod", "and", "or", "xor", "shift_left",
                    "shift_right", "shift_signed", "equal", "not_equal", "less",
                    "less_equal", "greater", "greater_equal"}
LogicalOperators == {"logical_and", "logical_or"}
=============================================================================

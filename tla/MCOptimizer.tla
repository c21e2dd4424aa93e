---------------------------- MODULE MCOptimizer ----------------------------
(* Bounded sets of programs over small alphabets of instructions. *)
EXTENDS Optimizer

Sets(slots, constants) ==
  {Make("set_from_constant", <<s, n>>) : s \in slots, n \in constants}
Jumps(length) == {Make("jump", <<d>>) : d \in 0 .. length}
ConditionalJumps(types, length) == {Make(t, <<d, 1>>) : t \in types, d \in 0 .. length}
Plain == {Make("copy", <<0, 1>>), Make("copy", <<1, 0>>), Make("add", <<0, 1>>),
          Make("set_null", <<0>>)}
Effects == {Make("set_element", <<0, 1, 0>>), Make("get_element", <<1, 1, 0>>),
            Make("bind", <<0, 0, 1>>), Make("less", <<1, 0>>), Make("sub", <<1, 0>>)}
Unary == {Make("not", <<1>>)}
Calls == {Make("call", <<0, 1>>), Make("call", <<1, 0>>)}

FullAlphabet(length) ==
  Sets({0, 1}, {0, 1}) \cup Plain \cup Effects \cup Unary \cup Calls
    \cup Jumps(length) \cup ConditionalJumps({"jump_if", "jump_if_not"}, length)
(* Enough for a loop that counts while a comparison is true.               *)
LoopAlphabet(length) ==
  Sets({0}, {1}) \cup {Make("add", <<0, 1>>), Make("less", <<1, 0>>)}
    \cup Jumps(length) \cup ConditionalJumps({"jump_if"}, length)

Code(alphabet, length) ==
  {c \in UNION {[1 .. n -> alphabet] : n \in 0 .. length} : JumpsStayIn(c)}

(* All programs of three instructions, and of four that may loop. *)
AllPrograms == Code(FullAlphabet(3), 3) \cup Code(LoopAlphabet(4), 4)
ReturnPrograms == Code(Sets({0}, {0, 1}) \cup Jumps(3), 3)

SmallParameters == {Null, Integer(0), Integer(1)}

(* The answers to the first event and to all later ones. *)
Failure == [type |-> "failure", i |-> 0]
SmallWorlds == {<<Integer(1), Integer(0)>>, <<Null, Object(1)>>, <<Integer(0), Failure>>}
FirstAndLater(world, events) == IF Len(events) = 1 THEN world[1] ELSE world[2]
=============================================================================

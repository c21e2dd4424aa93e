------------------------------ MODULE Optimizer ------------------------------
(***************************************************************************)
(* p0optimize: the passes p0c/main.cpp runs on every function, each a      *)
(* function from code to code, and the division of a function into         *)
(* sections.  A step applies one pass; p0c takes fold_constants,           *)
(* remove_no_ops and remove_dead_code in this order, but each stands for   *)
(* itself and has to be right wherever it comes.                           *)
(***************************************************************************)
EXTENDS FunctionRuns, FiniteSets

CONSTANTS
  Programs,    \* the code to start with
  Parameters   \* values of the function's parameter

VARIABLE code

(* Every instruction has its arguments and works on the function's slots.  *)
WellFormed(c) ==
  /\ c \in Seq([type : InstructionTypes, args : Seq(Int)])
  /\ \A i \in Positions(c) :
       /\ Len(At(c, i).args) = Len(ArgumentTypes(At(c, i).type))
       /\ LocalsOf(At(c, i), {"read", "read_write"}) \cup Reads(At(c, i)) \subseteq Slot

JumpDestinations(c) ==
  {Destination(At(c, i)) : i \in {j \in Positions(c) : IsAnyJump(At(c, j))}}

(* Every jump stays in the function or leads to its end. *)
JumpsStayIn(c) == JumpDestinations(c) \subseteq 0 .. Len(c)

ASSUME ProgramsAssumption == \A c \in Programs : WellFormed(c) /\ JumpsStayIn(c)
ASSUME ParametersAssumption == Parameters \subseteq Value

(* A map from slots, as an unordered_map: present keys are its domain. *)
Empty == [s \in {} |-> 0]
Update(map, slot, value) ==
  [s \in DOMAIN map \cup {slot} |-> IF s = slot THEN value ELSE map[s]]
Forget(map, slots) == [s \in DOMAIN map \ slots |-> map[s]]

-----------------------------------------------------------------------------
(* fold_constants *)
Wrap(n) == ((n - MinInt) % (MaxInt - MinInt + 1)) + MinInt

(* local_constant_tracker: what is known after an instruction. *)
TrackInstruction(instruction, known) ==
  LET type == instruction.type
      args == instruction.args
  IN CASE type = "set_from_constant" -> Update(known, args[1], args[2])
       [] type = "copy" ->
            IF args[2] \in DOMAIN known THEN Update(known, args[1], known[args[2]])
                                        ELSE Forget(known, {args[1]})
       [] type = "add" ->
            IF {args[1], args[2]} \subseteq DOMAIN known
              THEN Update(known, args[1], Wrap(known[args[1]] + known[args[2]]))
              ELSE Forget(known, {args[1]})
       [] OTHER -> Forget(known, LocalsOf(instruction, {"read_write"}))

(* Mutant: the operands of a folded jump are not dropped. *)
FoldTypeOnly(instruction, known) ==
  IF instruction.type \in {"jump_if", "jump_if_not"} /\ instruction.args[2] \in DOMAIN known
    THEN [instruction EXCEPT !.type = "jump"]
    ELSE instruction

FoldInstruction(instruction, known) ==
  LET type == instruction.type
      args == instruction.args
  IN CASE type \in {"copy", "add"} /\ args[1] \in DOMAIN known ->
            Make("set_from_constant", <<args[1], known[args[1]]>>)
       [] type \in {"jump_if", "jump_if_not"} /\ args[2] \in DOMAIN known ->
            IF (known[args[2]] # 0) = (type = "jump_if") THEN Make("jump", <<args[1]>>)
                                                         ELSE Make("nothing", <<>>)
       [] OTHER -> instruction

(* Mutant: what is known at a jump destination is kept. *)
KnownAcrossDestinations(c) ==
  LET known[n \in 0 .. Len(c)] ==
        IF n = 0 THEN Empty ELSE TrackInstruction(c[n], known[n - 1])
  IN  known

(* What the tracker knows after n instructions; it forgets everything      *)
(* before an instruction that is a jump destination.                       *)
KnownAfter(c) ==
  LET known[n \in 0 .. Len(c)] ==
        IF n = 0 THEN Empty
        ELSE TrackInstruction(c[n], IF n - 1 \in JumpDestinations(c) THEN Empty ELSE known[n - 1])
  IN  known

FoldConstants(c) ==
  LET known == KnownAfter(c) IN [n \in 1 .. Len(c) |-> FoldInstruction(c[n], known[n])]

-----------------------------------------------------------------------------
(* remove_instructions_at_positions *)

(* original_to_optimized_position: how many instructions before stay. *)
NewPosition(c, removed, i) == Cardinality((0 .. i - 1) \ removed)

(* Mutant: jumps still lead where they led before. *)
LeaveJump(c, removed, instruction) == instruction

FixUpJump(c, removed, instruction) ==
  IF IsAnyJump(instruction)
    THEN [instruction EXCEPT !.args[1] = NewPosition(c, removed, @)]
    ELSE instruction

RemoveInstructions(c, removed) ==
  LET kept == Positions(c) \ removed
      OldPosition(k) == CHOOSE i \in kept : NewPosition(c, removed, i) = k
  IN [n \in 1 .. Cardinality(kept) |-> FixUpJump(c, removed, At(c, OldPosition(n - 1)))]

-----------------------------------------------------------------------------
(* remove_no_ops *)
WriteTypes == {"set_from_constant", "set_function", "set_null", "set_string", "new_table",
               "not", "negate", "invert"}

(* Mutant: only the arguments that are read and not written are looked at. *)
ForgetSources(instruction, i, unread) ==
  CASE instruction.type \in WriteTypes -> Update(unread, instruction.args[1], i)
    [] instruction.type \in JumpTypes \cup {"nothing"} -> unread
    [] OTHER -> Forget(unread, LocalsOf(instruction, {"read_write"}))

(* Which local was written where and not read since: after an instruction, *)
(* and before each of them.                                                *)
TrackUnread(instruction, i, unread) ==
  CASE instruction.type \in WriteTypes -> Update(unread, instruction.args[1], i)
    [] instruction.type \in JumpTypes \cup {"nothing"} -> unread
    [] OTHER -> Forget(unread, LocalsOf(instruction, {"read", "read_write"}))

UnreadBefore(c) ==
  LET unread[i \in 0 .. Len(c)] ==
        IF i = 0 \/ (i \in JumpDestinations(c) /\ i < Len(c)) THEN Empty
        ELSE TrackUnread(At(c, i - 1), i - 1, unread[i - 1])
  IN  unread

FindObsoleteInstructions(c) ==
  LET unread == UnreadBefore(c)
      overwritten ==
        {unread[i][At(c, i).args[1]] :
           i \in {j \in Positions(c) : /\ At(c, j).type \in WriteTypes
                                       /\ At(c, j).args[1] \in DOMAIN unread[j]}}
      neverRead == {unread[Len(c)][s] : s \in DOMAIN unread[Len(c)] \ {0}}
      nothings == {i \in Positions(c) : At(c, i).type = "nothing"}
      jumpsToNext == {i \in Positions(c) : IsAnyJump(At(c, i)) /\ Destination(At(c, i)) = i + 1}
  IN  overwritten \cup neverRead \cup nothings \cup jumpsToNext

-----------------------------------------------------------------------------
(* remove_dead_code *)

(* Mutant: a conditional jump is thought to be taken always. *)
SuccessorsIfTaken(c, i) ==
  IF IsAnyJump(At(c, i)) THEN {Destination(At(c, i))} ELSE {i + 1}

Successors(c, i) ==
  CASE At(c, i).type = "jump" -> {Destination(At(c, i))}
    [] At(c, i).type \in {"jump_if", "jump_if_not"} -> {Destination(At(c, i)), i + 1}
    [] OTHER -> {i + 1}

ClosedUnderFlow(c, S) ==
  /\ Positions(c) # {} => 0 \in S
  /\ \A i \in S : Successors(c, i) \cap Positions(c) \subseteq S

(* The pass marks position 0 and what marked instructions lead to until    *)
(* nothing changes: the least such set.                                    *)
ReachableInstructions(c) ==
  {i \in Positions(c) : \A S \in SUBSET Positions(c) : ClosedUnderFlow(c, S) => i \in S}

-----------------------------------------------------------------------------
Init == code \in Programs

Fold == code' = FoldConstants(code)

RemoveNoOps == code' = RemoveInstructions(code, FindObsoleteInstructions(code))

RemoveDeadCode ==
  code' = RemoveInstructions(code, Positions(code) \ ReachableInstructions(code))

Next == Fold \/ RemoveNoOps \/ RemoveDeadCode

Spec == Init /\ [][Next]_code

-----------------------------------------------------------------------------
(* analyzation.cpp: dissect_function makes sections of the code, and links *)
(* between them.  A section is named by the position where it begins, the  *)
(* end of the code by its length.                                          *)
CallingSection == -1

(* find_section_end: the first position that ends the section. *)
SectionEnd(c, begin) ==
  LET ends(e) == \/ e = Len(c)
                 \/ IsAnyJump(At(c, e - 1))
                 \/ e \in JumpDestinations(c)
  IN CHOOSE e \in begin + 1 .. Len(c) : ends(e) /\ \A i \in begin + 1 .. e - 1 : ~ends(i)

(* Mutant: the way a conditional jump goes when it is not taken is lost. *)
WhereJumpsLead(c, end) ==
  IF IsAnyJump(At(c, end - 1)) THEN {Destination(At(c, end - 1))}
  ELSE IF end = Len(c) THEN {end} ELSE {}

(* Where it leads.  It leads nowhere if it ends before a jump destination. *)
LeadsTo(c, end) ==
  LET last == At(c, end - 1) IN
  CASE last.type = "jump" -> {Destination(last)}
    [] last.type \in {"jump_if", "jump_if_not"} -> {Destination(last), end}
    [] OTHER -> IF end = Len(c) THEN {end} ELSE {}

(* Where the sections begin. *)
SectionBegins(c) ==
  LET begins[n \in 0 .. Len(c)] ==
        IF n = 0 THEN 0
        ELSE IF begins[n - 1] = Len(c) THEN Len(c) ELSE SectionEnd(c, begins[n - 1])
  IN  {begins[n] : n \in 0 .. Len(c)} \ {Len(c)}

(* instruction_to_section *)
SectionOf(c, i) ==
  IF i = Len(c) THEN i
  ELSE CHOOSE s \in SectionBegins(c) : s <= i /\ i < SectionEnd(c, s)

(* The links that were found; after them the first section is entered from *)
(* the caller and the last one, whatever it ends with, leads to the end.   *)
DissectFunction(c) ==
  LET sections == SectionBegins(c)
      ends == [s \in sections |-> SectionEnd(c, s)]
      links == [s \in sections |-> {SectionOf(c, i) : i \in LeadsTo(c, ends[s])}]
  IN [s \in sections |->
        [end          |-> ends[s],
         destinations |-> links[s] \cup (IF ends[s] = Len(c) THEN {Len(c)} ELSE {}),
         origins      |-> {o \in sections : s \in links[o]}
                            \cup (IF s = 0 THEN {CallingSection} ELSE {})]]

-----------------------------------------------------------------------------
(* The passes produce instructions that are what they say they are: as     *)
(* many arguments as the type takes, slots where slots belong.             *)
TypeOK == WellFormed(code)

(* No pass makes a jump leave the function: the position table of          *)
(* remove_instructions_at_positions and the interpreter's program counter  *)
(* are indexed by destinations.                                            *)
JumpsInRange == JumpsStayIn(code)

(* A run that depends on nothing but what it is given and ends ends in the *)
(* same way afterwards, whatever the world answers: same events, same      *)
(* error, same result.                                                     *)
KeepsMeaning(old, new, exceptions) ==
  \A parameter \in Parameters, world \in Worlds :
    LET before == Behaviour(old, parameter, world) IN
    before.halted /\ before.error \notin {"junk"} \cup exceptions
      => Behaviour(new, parameter, world) = before

(* Constants are propagated along every path of control flow only as far   *)
(* as they hold on all of them (runs that overflow aside: a folded sum     *)
(* wraps and raises no error).                                             *)
FoldingKeepsMeaning == [][Fold => KeepsMeaning(code, code', {"integer_overflow"})]_code

(* Removing what control flow cannot reach, and moving the rest together,  *)
(* leaves no trace.                                                        *)
DeadCodeRemovalKeepsMeaning == [][RemoveDeadCode => KeepsMeaning(code, code', {})]_code

(* It removes all of it. *)
DeadCodeIsGone ==
  [][RemoveDeadCode => ReachableInstructions(code') = Positions(code')]_code

(* Writes that are overwritten or never read can go.                       *)
NoOpRemovalKeepsMeaning == [][RemoveNoOps => KeepsMeaning(code, code', {})]_code

(* Code in which the order of writes and reads is that of the text, and in *)
(* which remove_no_ops sees all reads: no jump, no unary operator, no call *)
(* with arguments.                                                         *)
IsStraight(c) ==
  \A i \in Positions(c) :
    /\ At(c, i).type \notin JumpTypes \cup {"not", "negate", "invert"}
    /\ At(c, i).type \in {"call", "call_method"} => At(c, i).args[2] = 0

(* There, what goes is what nobody could have noticed.                     *)
NoOpRemovalKeepsMeaningOfStraightCode ==
  [][RemoveNoOps /\ IsStraight(code) => KeepsMeaning(code, code', {})]_code

(* The sections and their links are the control flow of the instructions:  *)
(* each position is in one section; what follows an instruction is next to *)
(* it in its section, or the instruction is the last one and the section   *)
(* is linked, both ways, to the one that begins there; and no link stands  *)
(* for less.  Two exceptions are what the code does: no link joins a       *)
(* section to a jump destination right after it, and the last section is   *)
(* always linked to the end.                                               *)
SectionGraphIsTheFlow ==
  LET graph == DissectFunction(code)
      end == Len(code)
      Within(s) == s .. graph[s].end - 1
      Last(s) == graph[s].end - 1
      Linked(s, t) == /\ t \in graph[s].destinations
                      /\ t # end => t \in DOMAIN graph /\ s \in graph[t].origins
      FallsThrough(s) == /\ ~IsAnyJump(At(code, Last(s)))
                         /\ Last(s) + 1 \in JumpDestinations(code) \ {end}
  IN /\ \A i \in Positions(code) :
          \E s \in DOMAIN graph : \A t \in DOMAIN graph : i \in Within(t) <=> t = s
     /\ \A s \in DOMAIN graph :
          /\ \A i \in Within(s) \ {Last(s)} : Successors(code, i) = {i + 1}
          /\ FallsThrough(s) \/ \A t \in Successors(code, Last(s)) : Linked(s, t)
          /\ \A t \in graph[s].destinations :
               t \in Successors(code, Last(s)) \/ (t = end /\ graph[s].end = end)
          /\ \A o \in graph[s].origins \ {CallingSection} :
               o \in DOMAIN graph /\ s \in graph[o].destinations
          /\ CallingSection \in graph[s].origins <=> s = 0
=============================================================================

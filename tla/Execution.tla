----------------------------- MODULE Execution -----------------------------
(***************************************************************************)
(* A program from its tree to its end: p0compile makes a unit of it, and   *)
(* p0run's interpreter runs the unit.                                      *)
(***************************************************************************)
EXTENDS CodeGenerator, Language, Interpreter

CONSTANTS
  Programs,     \* the trees to start with
  CodeOf(_),    \* the compiler: GenerateUnit
  MeaningOf(_)  \* the language: Meaning

VARIABLES
  tree,     \* the unit's tree
  meaning   \* what the language says of it: no more than a note of MeaningOf(tree)

(* The stages before those of the machine are "source" and "rejected". *)
vars == <<tree, meaning, machine>>

NoUnit == [functions |-> <<>>, strings |-> <<>>, errors |-> <<>>]

NoMeaning == [events |-> <<>>, error |-> "unknown", result |-> NullValue]

Init ==
  /\ tree \in Programs
  /\ meaning = IF Valid(tree) /\ ~HasGap(tree) THEN MeaningOf(tree) ELSE NoMeaning
  /\ stage = "source"
  /\ unit = NoUnit
  /\ locals = <<>> /\ frames = <<>> /\ heap = <<>> /\ events = <<>>
  /\ error = ""

(* compile_unit: no unit when an error was reported; another one runs. *)
Compile ==
  /\ stage = "source"
  /\ unit' = CodeOf(tree)
  /\ IF unit'.errors # <<>>
       THEN stage' = "rejected" /\ UNCHANGED <<locals, frames>>
       ELSE stage' = "running" /\ locals' = FirstLocals /\ frames' = FirstFrames
  /\ UNCHANGED <<tree, meaning, heap, events, error>>

RunUnit == Turn /\ UNCHANGED <<tree, meaning>>

Next == Compile \/ RunUnit

(* The interpreter does not stop before the program does. *)
Spec == Init /\ [][Next]_vars /\ WF_vars(RunUnit)

-----------------------------------------------------------------------------
(* The compiler accepts the programs that follow the rules of scopes,      *)
(* loops, assignments and literals, and no others: an error inside an      *)
(* argument, an element or a nested function is not forgotten by the       *)
(* handlers that let the generation go on.  (What is known not to be       *)
(* looked at is excepted, one tree at a time.)                             *)
RejectsWhatIsInvalid ==
  /\ stage = "rejected" => ~Valid(tree)
  /\ stage \notin {"source", "rejected"} => Valid(tree) \/ IsUnchecked(tree)

(* What the generators leave in a unit is code the interpreter can run. *)
UnitIsComplete == stage = "running" => IsComplete

(* A program that has ended has told the world what its tree means, in     *)
(* this order, and ended with the result or the error that it means:       *)
(* temporaries are not handed out twice, closures got the values of their  *)
(* moment, every path of control flow leads where it should.               *)
IsDefinite == meaning.error \notin {"unknown", "unset", "endless"}
GeneratedCodeKeepsTheMeaning ==
  stage \in {"finished", "failed"} /\ IsDefinite =>
    /\ meaning.events = events
    /\ meaning.error = error
    /\ stage = "finished" => meaning.result = SeenBy(locals[1])

(* A program that the language lets end does end: no loop, call or jump is *)
(* generated that keeps the interpreter busy.                              *)
EveryProgramEnds == stage = "running" /\ IsDefinite ~> stage \in {"finished", "failed"}
=============================================================================

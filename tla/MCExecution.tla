----------------------------- MODULE MCExecution -----------------------------
(* The sample programs, run from their trees to their ends. *)
EXTENDS Execution, SamplePrograms

AllPrograms ==
  ExpressionPrograms \cup ControlPrograms \cup {Recursive} \cup Literals(SmallLiterals)
StringOrder == <<"", "k", "l", "m">>
=============================================================================

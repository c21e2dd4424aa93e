----------------------------- MODULE ModuleTable -----------------------------
(***************************************************************************)
(* What the module cache promises to the code that imports modules, however *)
(* imports nest, fail and are repeated: a module is initialised by one     *)
(* loader call at a time, and once it has a value that value stays.        *)
(* ModuleCache implements this specification.                              *)
(***************************************************************************)
CONSTANTS
  Name,     \* module names
  Value,    \* run::value
  Null      \* the null value: not there yet

VARIABLES
  present,      \* the registered names
  content,      \* what each module evaluates to; Null until it is known
  initialising  \* the modules whose initialisation has begun

vars == <<present, content, initialising>>

Init ==
  /\ present = {}
  /\ content = [name \in Name |-> Null]
  /\ initialising = {}

Register(name, value) ==
  /\ name \notin present
  /\ present' = present \cup {name}
  /\ content' = [content EXCEPT ![name] = value]
  /\ UNCHANGED initialising

Begin(name) ==
  /\ name \in present \ initialising
  /\ content[name] = Null
  /\ initialising' = initialising \cup {name}
  /\ UNCHANGED <<present, content>>

(* A loader that yields null leaves the module to be tried again. *)
Complete(name, value) ==
  /\ name \in initialising
  /\ content[name] = Null
  /\ initialising' = initialising \ {name}
  /\ content' = [content EXCEPT ![name] = value]
  /\ UNCHANGED present

(* The same after an exception. *)
Abort(name) ==
  /\ name \in initialising
  /\ initialising' = initialising \ {name}
  /\ UNCHANGED <<present, content>>

Next ==
  \/ \E name \in Name, value \in Value : Register(name, value) \/ Complete(name, value)
  \/ \E name \in Name : Begin(name) \/ Abort(name)

Spec == Init /\ [][Next]_vars
=============================================================================

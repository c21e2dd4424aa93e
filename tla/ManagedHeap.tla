---------------------------- MODULE ManagedHeap ----------------------------
(***************************************************************************)
(* What p0's object memory promises to the program, independent of how the *)
(* collector works: objects are created, referenced and forgotten by the   *)
(* program, and a collection may only ever take away objects the program   *)
(* can no longer name.  GarbageCollector implements this specification.    *)
(* Abstract: it has no counterpart line in the source besides the contract *)
(* written in p0run/garbage_collector.hpp.                                 *)
(***************************************************************************)
CONSTANTS
  Address          \* places an object can live at

VARIABLES
  heap,            \* the objects that exist
  edges,           \* edges[a]: the objects that a refers to
  roots            \* the objects the running program holds in its variables

vars == <<heap, edges, roots>>

Init ==
  /\ heap = {}
  /\ edges = [a \in Address |-> {}]
  /\ roots = {}

(* A set of objects no member of which refers to an object outside it. *)
Closed(S, e) == \A a \in S : e[a] \subseteq S

(* An object is born referring to objects its creator holds. *)
Create(a, children) ==
  /\ a \notin heap
  /\ children \subseteq roots
  /\ heap' = heap \cup {a}
  /\ edges' = [edges EXCEPT ![a] = children]
  /\ roots' = roots \cup {a}

(* The program changes what an object it holds refers to. *)
Rewire(a, targets) ==
  /\ a \in roots
  /\ targets \subseteq edges[a] \cup roots
  /\ edges' = [edges EXCEPT ![a] = targets]
  /\ UNCHANGED <<heap, roots>>

(* The program follows a reference, or forgets objects. *)
Load(a, b) ==
  /\ a \in roots
  /\ b \in edges[a]
  /\ roots' = roots \cup {b}
  /\ UNCHANGED <<heap, edges>>

Forget(S) ==
  /\ roots' = roots \ S
  /\ UNCHANGED <<heap, edges>>

(* A collection keeps the roots and everything the survivors refer to. *)
Collect(S) ==
  /\ S \subseteq heap
  /\ roots \subseteq S
  /\ Closed(S, edges)
  /\ heap' = S
  /\ edges' = [a \in Address |-> IF a \in S THEN edges[a] ELSE {}]
  /\ UNCHANGED roots

Next ==
  \/ \E a \in Address, children \in SUBSET Address : Create(a, children)
  \/ \E a \in Address, targets \in SUBSET Address : Rewire(a, targets)
  \/ \E a, b \in Address : Load(a, b)
  \/ \E S \in SUBSET Address : Forget(S)
  \/ \E S \in SUBSET Address : Collect(S)

Spec == Init /\ [][Next]_vars
=============================================================================

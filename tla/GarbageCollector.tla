-------------------------- MODULE GarbageCollector --------------------------
(***************************************************************************)
(* The mark-and-sweep collector of p0run (default_garbage_collector), the  *)
(* construction protocol around it (raw_storage, construct) and the object *)
(* graph it works on (object::mark and the mark_recursively overrides).    *)
(*                                                                         *)
(* The host collects in the order garbage_collector.hpp asks for: unmark,  *)
(* mark everything still required, sweep.  Marking is a worklist here and  *)
(* a recursion in the code; which object is marked next is left open,      *)
(* since the containers are walked in an order the program cannot rely on. *)
(***************************************************************************)
CONSTANTS
  Address,             \* addresses operator new[] can return
  WithInstances,       \* does the program use std.class / std.new?
  AllocationFailures   \* may std::vector::push_back throw std::bad_alloc?

ASSUME BooleanAssumption ==
  /\ WithInstances \in BOOLEAN
  /\ AllocationFailures \in BOOLEAN

VARIABLES
  storage,        \* m_storage: memory handed out and not yet committed
  handles,        \* m_memory of the raw_storage objects that still own some
  objects,        \* m_objects: committed objects
  instances,      \* those that are class_instance objects of std_module.cpp
  refs,           \* refs[a]: what mark_recursively of a passes on directly
  fields,         \* fields[a]: contents of the m_fields table inside instance a
  marked,         \* objects whose m_is_marked is set
  fieldsMarked,   \* instances whose *embedded* m_fields has m_is_marked set
  roots,          \* what m_locals and m_current_function_stack refer to
  pending,        \* mark() calls still to be made in this collection
  phase,          \* where the host is in the collection protocol
  stale           \* history: fieldsMarked when the last unmark() returned

heapVars == <<objects, instances, refs, fields, roots>>
markVars == <<marked, fieldsMarked, pending, phase, stale>>
rawVars  == <<storage, handles>>
vars     == <<heapVars, markVars, rawVars>>

Init ==
  /\ storage = {} /\ handles = {}
  /\ objects = {} /\ instances = {} /\ roots = {}
  /\ refs = [a \in Address |-> {}]
  /\ fields = [a \in Address |-> {}]
  /\ marked = {} /\ fieldsMarked = {} /\ pending = {} /\ stale = {}
  /\ phase = "mutate"

-----------------------------------------------------------------------------
(* Construction of an object: raw_storage allocates, the constructor runs  *)
(* in the raw memory, commit_object hands the result to the collector.     *)

Allocate(a) ==
  /\ phase = "mutate"
  /\ a \notin storage \cup objects \cup handles
  /\ storage' = storage \cup {a}
  /\ handles' = handles \cup {a}
  /\ UNCHANGED <<heapVars, markVars>>

(* The constructor throws: ~raw_storage gives the memory back. *)
Deallocate(a) ==
  /\ phase = "mutate"
  /\ a \in handles
  /\ a \in storage
  /\ storage' = storage \ {a}
  /\ handles' = handles \ {a}
  /\ UNCHANGED <<heapVars, markVars>>

(* object::object() starts unmarked.  The new object refers to values the  *)
(* creator holds (elements of an array, the definition of an instance) and *)
(* the creator stores the result in one of its variables.                  *)
CommitObject(a, children, isInstance) ==
  /\ phase = "mutate"
  /\ a \in handles \cap storage
  /\ storage' = storage \ {a}
  /\ handles' = handles \ {a}
  /\ objects' = objects \cup {a}
  /\ instances' = IF isInstance THEN instances \cup {a} ELSE instances
  /\ refs' = [refs EXCEPT ![a] = children]
  /\ fields' = [fields EXCEPT ![a] = {}]
  /\ marked' = marked \ {a}
  /\ fieldsMarked' = fieldsMarked \ {a}
  /\ roots' = roots \cup {a}
  /\ UNCHANGED <<pending, phase, stale>>

CommitPlain(a) == \E children \in SUBSET roots : CommitObject(a, children, FALSE)

CommitInstance(a) ==
  /\ WithInstances
  /\ \E definition \in roots : CommitObject(a, {definition}, TRUE)

(* m_objects.push_back throws after remove_storage has taken the memory    *)
(* out of m_storage: the local handle destroys and frees the object, while *)
(* raw_storage::m_memory was not reset yet.  ~raw_storage is the next      *)
(* thing to run, and the program does not get past it.                     *)
CommitOutOfMemory(a) ==
  /\ AllocationFailures
  /\ phase = "mutate"
  /\ a \in handles \cap storage
  /\ storage' = storage \ {a}
  /\ phase' = "unwinding"
  /\ UNCHANGED <<handles, heapVars, marked, fieldsMarked, pending, stale>>

-----------------------------------------------------------------------------
(* The running program.  It names objects through its variables only.      *)

(* set_element, bind, array::set_element: an element is stored or erased. *)
Store(a, b) ==
  /\ phase = "mutate"
  /\ {a, b} \subseteq roots
  /\ IF a \in instances
       THEN fields' = [fields EXCEPT ![a] = @ \cup {b}] /\ UNCHANGED refs
       ELSE refs' = [refs EXCEPT ![a] = @ \cup {b}] /\ UNCHANGED fields
  /\ UNCHANGED <<objects, instances, roots, markVars, rawVars>>

Erase(a, b) ==
  /\ phase = "mutate"
  /\ a \in roots
  /\ IF a \in instances
       THEN fields' = [fields EXCEPT ![a] = @ \ {b}] /\ UNCHANGED refs
       ELSE refs' = [refs EXCEPT ![a] = @ \ {b}] /\ UNCHANGED fields
  /\ UNCHANGED <<objects, instances, roots, markVars, rawVars>>

(* get_element, get_bound.  Following a reference to a destroyed object is *)
(* undefined behaviour: no step is given for it (NoDangling catches it).   *)
Load(a, b) ==
  /\ phase = "mutate"
  /\ a \in roots
  /\ b \in (refs[a] \cup fields[a]) \cap objects
  /\ roots' = roots \cup {b}
  /\ UNCHANGED <<objects, instances, refs, fields, markVars, rawVars>>

(* A variable is overwritten, or native_call truncates m_locals. *)
Forget(S) ==
  /\ phase = "mutate"
  /\ S # {} /\ S \subseteq roots
  /\ roots' = roots \ S
  /\ UNCHANGED <<objects, instances, refs, fields, markVars, rawVars>>

-----------------------------------------------------------------------------
(* A collection: gc.unmark(), mark_required_objects(), gc.sweep(full).     *)

(* Mutation: unmark() leaves the marks of the last collection in place. *)
UnmarkNothing ==
  /\ phase = "mutate"
  /\ phase' = "unmarked"
  /\ stale' = fieldsMarked
  /\ UNCHANGED <<marked, fieldsMarked, pending, heapVars, rawVars>>

Unmark ==
  /\ phase = "mutate"
  /\ phase' = "unmarked"
  /\ marked' = {}                  \* the members of m_objects, nothing else
  /\ stale' = fieldsMarked
  /\ UNCHANGED <<fieldsMarked, pending, heapVars, rawVars>>

(* Mutation: one of the values is not reached, as if only one of m_locals  *)
(* and m_current_function_stack were marked.                               *)
MarkSomeObjects ==
  /\ phase = "unmarked"
  /\ phase' = "marking"
  /\ \E a \in Address : pending' = roots \ {a}
  /\ UNCHANGED <<marked, fieldsMarked, stale, heapVars, rawVars>>

MarkRequiredObjects ==
  /\ phase = "unmarked"
  /\ phase' = "marking"
  /\ pending' = roots
  /\ UNCHANGED <<marked, fieldsMarked, stale, heapVars, rawVars>>

(* Mutation: class_instance does not mark its fields. *)
MarkDefinitionOnly(a) == refs[a]

(* What mark_recursively of a calls mark() on: the elements, bound values  *)
(* or definition, and for an instance the elements of its m_fields unless  *)
(* that table counts as marked already.                                    *)
MarkRecursively(a) ==
  refs[a] \cup IF a \in instances \ fieldsMarked THEN fields[a] ELSE {}

(* Mutation: no early return for marked objects. *)
MarkAlways(a) ==
  /\ phase = "marking"
  /\ a \in pending \cap marked
  /\ pending' = (pending \ {a}) \cup MarkRecursively(a)
  /\ UNCHANGED <<marked, fieldsMarked, phase, stale, heapVars, rawVars>>

(* object::mark on an object that is marked already returns at once. *)
MarkAgain(a) ==
  /\ phase = "marking"
  /\ a \in pending \cap marked
  /\ pending' = pending \ {a}
  /\ UNCHANGED <<marked, fieldsMarked, phase, stale, heapVars, rawVars>>

(* object::mark sets the flag before it turns to the children. *)
MarkFirst(a) ==
  /\ phase = "marking"
  /\ a \in pending \ marked
  /\ marked' = marked \cup {a}
  /\ fieldsMarked' = IF a \in instances THEN fieldsMarked \cup {a} ELSE fieldsMarked
  /\ pending' = (pending \ {a}) \cup MarkRecursively(a)
  /\ UNCHANGED <<phase, stale, heapVars, rawVars>>

Mark == \E a \in Address : MarkAgain(a) \/ MarkFirst(a)

(* Mutation: the unmarked objects are destroyed but stay listed. *)
SweepWithoutErase ==
  /\ phase = "marking"
  /\ pending = {}
  /\ phase' = "mutate"
  /\ objects' = objects \cap marked
  /\ refs' = [a \in Address |-> IF a \in objects \cap marked THEN refs[a] ELSE {}]
  /\ UNCHANGED <<instances, fields, marked, fieldsMarked, stale, pending, roots, rawVars>>

Sweep ==
  /\ phase = "marking"
  /\ pending = {}
  /\ phase' = "mutate"
  /\ objects' = objects \cap marked
  /\ instances' = instances \cap marked
  /\ refs' = [a \in Address |-> IF a \in objects \cap marked THEN refs[a] ELSE {}]
  /\ fields' = [a \in Address |-> IF a \in objects \cap marked THEN fields[a] ELSE {}]
  /\ fieldsMarked' = fieldsMarked \cap marked
  /\ stale' = stale \cap marked
  /\ UNCHANGED <<marked, pending, roots, rawVars>>

Next ==
  \/ \E a \in Address : Allocate(a) \/ Deallocate(a)
  \/ \E a \in Address : CommitPlain(a) \/ CommitInstance(a) \/ CommitOutOfMemory(a)
  \/ \E a, b \in Address : Store(a, b) \/ Erase(a, b) \/ Load(a, b)
  \/ \E S \in SUBSET Address : Forget(S)
  \/ Unmark \/ MarkRequiredObjects \/ Mark \/ Sweep

Spec == Init /\ [][Next]_vars

(* mark_required_objects and sweep run to completion once they are called: *)
(* they are plain loops and recursions on the host's thread.               *)
Fairness == WF_vars(MarkRequiredObjects) /\ WF_vars(Mark) /\ WF_vars(Sweep)

FairSpec == Spec /\ Fairness

-----------------------------------------------------------------------------
TypeOK ==
  /\ storage \subseteq Address /\ handles \subseteq Address
  /\ objects \subseteq Address /\ instances \subseteq objects
  /\ refs \in [Address -> SUBSET Address]
  /\ fields \in [Address -> SUBSET Address]
  /\ marked \subseteq Address /\ fieldsMarked \subseteq instances
  /\ roots \subseteq Address /\ pending \subseteq Address
  /\ stale \subseteq fieldsMarked
  /\ phase \in {"mutate", "unmarked", "marking", "unwinding"}

Edges(a) == refs[a] \cup fields[a]

(* S holds every variable's object and everything its members refer to. *)
Holds(S) == roots \subseteq S /\ \A a \in S : Edges(a) \subseteq S

(* The objects the program can still reach. *)
Reachable == {a \in objects : \A S \in SUBSET objects : Holds(S) => a \in S}

(* No variable and no element of an object refers to a destroyed object,   *)
(* which the interpreter would dereference (sweep destroys only what the   *)
(* host did not have to mark).                                             *)
NoDangling ==
  /\ roots \subseteq objects
  /\ \A a \in objects : Edges(a) \subseteq objects

(* The same with class instances in the program: everything is alive but   *)
(* possibly the fields of an instance that went through an earlier         *)
(* collection, whose embedded m_fields still counts as marked.             *)
DanglingOnlyInStaleFields ==
  /\ roots \subseteq objects
  /\ \A a \in objects : refs[a] \subseteq objects
  /\ \A a \in objects \ stale : fields[a] \subseteq objects

(* A full sweep leaves nothing behind that the program cannot reach: no    *)
(* object survives by a mark left over from an earlier collection.         *)
SweepIsPrecise == [][Sweep => objects' \subseteq Reachable]_vars

(* Marking ends although objects refer to each other in cycles.            *)
CollectionTerminates == (phase = "unmarked") ~> (phase = "mutate")

(* The collector implements the abstract heap. *)
Heap == INSTANCE ManagedHeap WITH
          heap <- objects, edges <- [a \in Address |-> Edges(a)]

ImplementsManagedHeap == Heap!Spec
=============================================================================

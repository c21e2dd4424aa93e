----------------------- MODULE GarbageCollectorProofs -----------------------
(***************************************************************************)
(* Theorems about GarbageCollector for every set of addresses.             *)
(*                                                                         *)
(* The inductive invariant Inv adds to the safety property what makes      *)
(* marking work: in every state of a collection a marked object's          *)
(* references are marked or still waiting to be (Tricolor), no mark is     *)
(* ever given to an object outside a closed set that holds the roots       *)
(* (Tight), and the embedded table of an instance that was not marked      *)
(* before this collection is scanned when its instance is (FreshFields).   *)
(***************************************************************************)
EXTENDS GarbageCollector, TLAPS

Separate == storage \cap objects = {}

ProtocolOrder ==
  /\ phase # "marking" => pending = {}
  /\ phase = "unmarked" => marked = {}
  /\ marked \subseteq objects
  /\ pending \subseteq objects
  /\ \A a \in Address \ instances : fields[a] = {}

FreshFields ==
  phase \in {"unmarked", "marking"} => fieldsMarked \subseteq stale \cup marked

Tricolor ==
  phase = "marking" =>
    /\ roots \subseteq marked \cup pending
    /\ \A a \in marked : refs[a] \subseteq marked \cup pending
    /\ \A a \in marked \ stale : fields[a] \subseteq marked \cup pending

Tight ==
  phase = "marking" =>
    \A S \in SUBSET objects : Holds(S) => marked \cup pending \subseteq S

Inv == /\ TypeOK /\ Separate /\ ProtocolOrder /\ FreshFields
       /\ Tricolor /\ Tight /\ DanglingOnlyInStaleFields

MutatorSteps(a, b) == Store(a, b) \/ Erase(a, b) \/ Load(a, b)

LEMMA InitInv == Init => Inv
BY DEF Init, Inv, TypeOK, Separate, ProtocolOrder, FreshFields, Tricolor,
       Tight, DanglingOnlyInStaleFields

(* Construction of objects keeps the invariant. *)
LEMMA ConstructionInv ==
  ASSUME Inv, NEW a \in Address,
         \/ Allocate(a) \/ Deallocate(a) \/ CommitOutOfMemory(a)
         \/ CommitPlain(a) \/ CommitInstance(a)
  PROVE  Inv'
<1> USE DEF Inv, TypeOK, Separate, ProtocolOrder, FreshFields, Tricolor,
            Tight, DanglingOnlyInStaleFields, heapVars, markVars, rawVars
<1>1. CASE Allocate(a)
  BY <1>1 DEF Allocate, Holds, Edges
<1>2. CASE Deallocate(a)
  BY <1>2 DEF Deallocate, Holds, Edges
<1>3. CASE CommitOutOfMemory(a)
  BY <1>3 DEF CommitOutOfMemory, Holds, Edges
<1>4. ASSUME NEW children \in SUBSET roots, NEW isInstance \in BOOLEAN,
             CommitObject(a, children, isInstance)
      PROVE  Inv'
  <2>1. a \notin objects /\ a \notin stale
    BY <1>4 DEF CommitObject
  <2>2. TypeOK'
    BY <1>4, <2>1 DEF CommitObject
  <2>3. (Separate /\ ProtocolOrder /\ FreshFields /\ Tricolor /\ Tight)'
    BY <1>4, <2>1 DEF CommitObject
  <2>4. DanglingOnlyInStaleFields'
    BY <1>4, <2>1 DEF CommitObject
  <2> QED BY <2>2, <2>3, <2>4
<1>5. CASE CommitPlain(a)
  BY <1>4, <1>5 DEF CommitPlain
<1>6. CASE CommitInstance(a)
  BY <1>4, <1>6 DEF CommitInstance
<1> QED BY <1>1, <1>2, <1>3, <1>5, <1>6

(* What the program does between collections keeps the invariant. *)
LEMMA ProgramInv ==
  ASSUME Inv,
         \/ \E a, b \in Address : MutatorSteps(a, b)
         \/ \E S \in SUBSET Address : Forget(S)
  PROVE  Inv'
<1> USE DEF Inv, TypeOK, Separate, ProtocolOrder, FreshFields, Tricolor,
            Tight, DanglingOnlyInStaleFields, heapVars, markVars, rawVars
<1>1. ASSUME NEW a \in Address, NEW b \in Address, Store(a, b) PROVE Inv'
  BY <1>1 DEF Store
<1>2. ASSUME NEW a \in Address, NEW b \in Address, Erase(a, b) PROVE Inv'
  BY <1>2 DEF Erase
<1>3. ASSUME NEW a \in Address, NEW b \in Address, Load(a, b) PROVE Inv'
  BY <1>3 DEF Load
<1>4. ASSUME NEW S \in SUBSET Address, Forget(S) PROVE Inv'
  BY <1>4 DEF Forget
<1> QED BY <1>1, <1>2, <1>3, <1>4 DEF MutatorSteps

(* A collection keeps the invariant. *)
LEMMA CollectionInv ==
  ASSUME Inv, Unmark \/ MarkRequiredObjects \/ Mark \/ Sweep
  PROVE  Inv'
<1> USE DEF Inv, TypeOK, Separate, ProtocolOrder, FreshFields, Tricolor,
            Tight, DanglingOnlyInStaleFields, heapVars, markVars, rawVars
<1>1. CASE Unmark
  BY <1>1 DEF Unmark
<1>2. CASE MarkRequiredObjects
  BY <1>2 DEF MarkRequiredObjects, Holds
<1>3. ASSUME NEW a \in Address, MarkAgain(a) PROVE Inv'
  <2>1. (TypeOK /\ Separate /\ ProtocolOrder /\ FreshFields
           /\ DanglingOnlyInStaleFields)'
    BY <1>3 DEF MarkAgain
  <2>2. Tricolor'
    BY <1>3 DEF MarkAgain
  <2>3. Tight'
    BY <1>3 DEF MarkAgain, Holds, Edges
  <2> QED BY <2>1, <2>2, <2>3
<1>4. ASSUME NEW a \in Address, MarkFirst(a) PROVE Inv'
  <2>1. (TypeOK /\ Separate /\ ProtocolOrder /\ FreshFields
           /\ DanglingOnlyInStaleFields)'
    BY <1>4 DEF MarkFirst, MarkRecursively
  <2>2. a \in stale \/ fields[a] \subseteq MarkRecursively(a)
    BY <1>4 DEF MarkFirst, MarkRecursively
  <2>3. Tricolor'
    BY <1>4, <2>2 DEF MarkFirst, MarkRecursively
  <2>4. Tight'
    BY <1>4 DEF MarkFirst, MarkRecursively, Holds, Edges
  <2> QED BY <2>1, <2>3, <2>4
<1>5. CASE Sweep
  <2>1. (TypeOK /\ Separate /\ ProtocolOrder /\ FreshFields
           /\ Tricolor /\ Tight)'
    BY <1>5 DEF Sweep
  <2>2. DanglingOnlyInStaleFields'
    BY <1>5 DEF Sweep
  <2> QED BY <2>1, <2>2
<1> QED BY <1>1, <1>2, <1>3, <1>4, <1>5 DEF Mark

LEMMA NextInv == Inv /\ [Next]_vars => Inv'
<1> SUFFICES ASSUME Inv, [Next]_vars PROVE Inv'
  OBVIOUS
<1>1. CASE UNCHANGED vars
  BY <1>1 DEF vars, heapVars, markVars, rawVars, Inv, TypeOK, Separate,
     ProtocolOrder, FreshFields, Tricolor, Tight, DanglingOnlyInStaleFields,
     Holds, Edges
<1> QED BY <1>1, ConstructionInv, ProgramInv, CollectionInv DEF Next, MutatorSteps

(* Every state of the collector satisfies the invariant. *)
LEMMA Invariance == Spec => []Inv
BY InitInv, NextInv, PTL DEF Spec

(* The collector's state has the types the code declares: instances are    *)
(* objects, an embedded table belongs to an instance, and so on.           *)
THEOREM TypeCorrect == Spec => []TypeOK
<1>1. Inv => TypeOK
  BY DEF Inv
<1> QED BY <1>1, Invariance, PTL

(* Whatever the program builds, no variable and no table, array, closure   *)
(* or instance definition ever refers to a destroyed object; only fields   *)
(* of an instance that an earlier collection marked may.                   *)
THEOREM OnlyStaleFieldsDangle == Spec => []DanglingOnlyInStaleFields
<1>1. Inv => DanglingOnlyInStaleFields
  BY DEF Inv
<1> QED BY <1>1, Invariance, PTL

(* Without class instances there is nothing stale. *)
NoInstances == instances = {}

LEMMA InstancesStayEmpty ==
  ASSUME ~WithInstances
  PROVE  Spec => []NoInstances
<1>1. Init => NoInstances
  BY DEF Init, NoInstances
<1>2. NoInstances /\ [Next]_vars => NoInstances'
  <2> SUFFICES ASSUME NoInstances, [Next]_vars
               PROVE  NoInstances'
    OBVIOUS
  <2> USE DEF NoInstances, vars, heapVars
  <2>1. ASSUME NEW a \in Address, \/ Allocate(a) \/ Deallocate(a)
                                  \/ CommitPlain(a) \/ CommitInstance(a)
                                  \/ CommitOutOfMemory(a)
        PROVE  NoInstances'
    BY <2>1 DEF Allocate, Deallocate, CommitPlain, CommitInstance, CommitObject,
                CommitOutOfMemory
  <2>2. ASSUME NEW a \in Address, NEW b \in Address, MutatorSteps(a, b)
        PROVE  NoInstances'
    BY <2>2 DEF MutatorSteps, Store, Erase, Load
  <2>3. ASSUME NEW S \in SUBSET Address, Forget(S) PROVE NoInstances'
    BY <2>3 DEF Forget
  <2>4. CASE Unmark \/ MarkRequiredObjects \/ Mark \/ Sweep
    BY <2>4 DEF Unmark, MarkRequiredObjects, Mark, MarkAgain, MarkFirst, Sweep
  <2> QED BY <2>1, <2>2, <2>3, <2>4 DEF Next, MutatorSteps
<1> QED BY <1>1, <1>2, PTL DEF Spec

LEMMA InvWithoutInstances == Inv /\ NoInstances => NoDangling
BY DEF Inv, TypeOK, ProtocolOrder, NoInstances, DanglingOnlyInStaleFields,
       NoDangling, Edges

(* In a program without std.new no reference ever dangles. *)
THEOREM NothingDangles ==
  ASSUME ~WithInstances
  PROVE  Spec => []NoDangling
BY Invariance, InstancesStayEmpty, InvWithoutInstances, PTL

(* A sweep destroys every object the program cannot reach. *)
THEOREM Precision == Spec => SweepIsPrecise
<1>1. Inv /\ Sweep => objects' \subseteq Reachable
  BY DEF Inv, TypeOK, Tight, Sweep, Reachable
<1> QED BY <1>1, Invariance, PTL DEF SweepIsPrecise

-----------------------------------------------------------------------------
(* Without class instances the collector implements ManagedHeap: steps of  *)
(* the construction protocol and of marking stutter, a sweep is a Collect  *)
(* of the marked objects.                                                  *)

LEMMA InitImplements == Init => Heap!Init
BY DEF Init, Heap!Init, Edges

LEMMA CommitImplements ==
  ASSUME Inv, NoInstances, NEW a \in Address, CommitPlain(a)
  PROVE  \E children \in SUBSET Address : Heap!Create(a, children)
<1>1. PICK children \in SUBSET roots : CommitObject(a, children, FALSE)
  BY DEF CommitPlain
<1>2. children \in SUBSET Address /\ a \notin objects
  BY <1>1 DEF CommitObject, Inv, TypeOK, Separate
<1>3. [b \in Address |-> Edges(b)]' = [[b \in Address |-> Edges(b)] EXCEPT ![a] = children]
  BY <1>1, <1>2 DEF CommitObject, Inv, TypeOK, Edges
<1>4. Heap!Create(a, children)
  BY <1>1, <1>2, <1>3 DEF CommitObject, Heap!Create
<1> QED BY <1>2, <1>4

LEMMA ProgramImplements ==
  ASSUME Inv, NoInstances, NEW a \in Address, NEW b \in Address,
         MutatorSteps(a, b)
  PROVE  \/ \E targets \in SUBSET Address : Heap!Rewire(a, targets)
         \/ Heap!Load(a, b)
<1> USE DEF Inv, TypeOK, ProtocolOrder, NoInstances
<1>1. CASE Store(a, b)
  <2>1. [c \in Address |-> Edges(c)]' =
          [[c \in Address |-> Edges(c)] EXCEPT ![a] = Edges(a) \cup {b}]
    BY <1>1 DEF Store, Edges
  <2>2. Heap!Rewire(a, Edges(a) \cup {b})
    BY <1>1, <2>1 DEF Store, Heap!Rewire
  <2>3. Edges(a) \cup {b} \in SUBSET Address
    BY DEF Edges
  <2> QED BY <2>2, <2>3
<1>2. CASE Erase(a, b)
  <2>1. [c \in Address |-> Edges(c)]' =
          [[c \in Address |-> Edges(c)] EXCEPT ![a] = Edges(a) \ {b}]
    BY <1>2 DEF Erase, Edges
  <2>2. Heap!Rewire(a, Edges(a) \ {b})
    BY <1>2, <2>1 DEF Erase, Heap!Rewire
  <2>3. Edges(a) \ {b} \in SUBSET Address
    BY DEF Edges
  <2> QED BY <2>2, <2>3
<1>3. CASE Load(a, b)
  BY <1>3 DEF Load, Heap!Load, Edges
<1> QED BY <1>1, <1>2, <1>3 DEF MutatorSteps

LEMMA SweepImplements ==
  ASSUME Inv, NoInstances, Sweep
  PROVE  \E S \in SUBSET Address : Heap!Collect(S)
<1> DEFINE S == objects \cap marked
<1> USE DEF Inv, TypeOK, ProtocolOrder, NoInstances
<1>1. stale = {} /\ \A a \in Address : fields[a] = {}
  OBVIOUS
<1>2. S \subseteq objects /\ roots \subseteq S /\ S \in SUBSET Address
  BY DEF Sweep, Tricolor
<1>3. Heap!Closed(S, [a \in Address |-> Edges(a)])
  BY <1>1, <1>2 DEF Sweep, Tricolor, Heap!Closed, Edges
<1>4. [a \in Address |-> Edges(a)]' =
        [a \in Address |-> IF a \in S THEN [b \in Address |-> Edges(b)][a] ELSE {}]
  BY <1>1 DEF Sweep, Edges
<1>5. Heap!Collect(S)
  BY <1>2, <1>3, <1>4 DEF Sweep, Heap!Collect
<1> QED BY <1>2, <1>5

LEMMA StepImplements ==
  ASSUME ~WithInstances
  PROVE  Inv /\ NoInstances /\ [Next]_vars => [Heap!Next]_(Heap!vars)
<1> SUFFICES ASSUME Inv, NoInstances, [Next]_vars
             PROVE  [Heap!Next]_(Heap!vars)
  OBVIOUS
<1> USE DEF vars, heapVars, markVars, rawVars, Heap!vars, Edges
<1>1. ASSUME NEW a \in Address, Allocate(a) \/ Deallocate(a) \/ CommitOutOfMemory(a)
      PROVE  UNCHANGED Heap!vars
  BY <1>1 DEF Allocate, Deallocate, CommitOutOfMemory
<1>2. ASSUME NEW a \in Address, CommitPlain(a) PROVE Heap!Next
  BY <1>2, CommitImplements DEF Heap!Next
<1>3. ASSUME NEW a \in Address, CommitInstance(a) PROVE FALSE
  BY <1>3 DEF CommitInstance
<1>4. ASSUME NEW a \in Address, NEW b \in Address, MutatorSteps(a, b)
      PROVE  Heap!Next
  BY <1>4, ProgramImplements DEF Heap!Next
<1>5. ASSUME NEW S \in SUBSET Address, Forget(S) PROVE Heap!Next
  BY <1>5 DEF Forget, Heap!Next, Heap!Forget
<1>6. CASE Unmark \/ MarkRequiredObjects \/ Mark
  BY <1>6 DEF Unmark, MarkRequiredObjects, Mark, MarkAgain, MarkFirst
<1>7. CASE Sweep
  BY <1>7, SweepImplements DEF Heap!Next
<1>8. CASE UNCHANGED vars
  BY <1>8
<1> QED BY <1>1, <1>2, <1>3, <1>4, <1>5, <1>6, <1>7, <1>8 DEF Next, MutatorSteps

(* The program cannot tell the collector from a heap that only ever loses  *)
(* unreachable objects.                                                    *)
THEOREM Implementation ==
  ASSUME ~WithInstances
  PROVE  Spec => ImplementsManagedHeap
BY InitImplements, StepImplements, Invariance, InstancesStayEmpty, PTL
   DEF Spec, Heap!Spec, ImplementsManagedHeap
=============================================================================

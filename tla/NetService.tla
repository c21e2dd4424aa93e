----------------------------- MODULE NetService -----------------------------
(***************************************************************************)
(* p0rt's net module: an io_service object with a queue of posted          *)
(* callbacks.  The objects among them are kept alive by m_callback_owner-  *)
(* ships, which has an entry for every pending handler's object_handle;    *)
(* when a handler is destroyed, its handle removes the entries of its      *)
(* object, those of other handlers too.  Running a handler is not          *)
(* implemented: it throws, which leaves run, and the handler is gone.      *)
(***************************************************************************)
EXTENDS Integers, Sequences

CONSTANTS
  Callbacks,    \* the objects that are posted
  NoObject,     \* any other value that is posted
  MaxPending    \* bound: posted callbacks

ASSUME NetAssumption == NoObject \notin Callbacks

VARIABLES
  owned,      \* ownerships::m_owned: how many entries an object has
  pending,    \* the callbacks of the pending handlers, the next one first
  finished    \* objects of which a handler has been destroyed (history)

netVars == <<owned, pending, finished>>

NetInit == owned = [object \in Callbacks |-> 0] /\ pending = <<>> /\ finished = {}

AddOwner(object) == [owned EXCEPT ![object] = @ + 1]

(* Mutant: everything before the partition's end is erased. *)
RemoveOthers(object) == [other \in Callbacks |-> IF other = object THEN owned[other] ELSE 0]

RemoveOwner(object) == [owned EXCEPT ![object] = 0]

(* post *)
Post(callback) ==
  /\ Len(pending) < MaxPending
  /\ pending' = Append(pending, callback)
  /\ owned' = IF callback = NoObject THEN owned ELSE AddOwner(callback)
  /\ UNCHANGED finished

(* run: the first handler throws. *)
RunOne ==
  /\ pending # <<>>
  /\ pending' = Tail(pending)
  /\ IF Head(pending) = NoObject THEN UNCHANGED <<owned, finished>>
     ELSE /\ owned' = RemoveOwner(Head(pending))
          /\ finished' = finished \cup {Head(pending)}

NetNext == (\E callback \in Callbacks \cup {NoObject} : Post(callback)) \/ RunOne

NetSpec == NetInit /\ [][NetNext]_netVars

(* The collector finds the object of every pending handler; only another   *)
(* handler's end can take it away from one that is still waiting.  And no  *)
(* object is kept alive for a handler that is gone.                        *)
CallbacksAreOwned ==
  /\ \A i \in DOMAIN pending :
       pending[i] # NoObject /\ pending[i] \notin finished => owned[pending[i]] > 0
  /\ \A object \in Callbacks :
       owned[object] > 0 => \E i \in DOMAIN pending : pending[i] = object
=============================================================================

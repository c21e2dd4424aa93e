---------------------------- MODULE NativesProofs ----------------------------
(***************************************************************************)
(* What the native side of the system keeps to: the web server for any     *)
(* number of sessions, any nesting of loops and handlers and responses of  *)
(* any length; the net module's queue for any number of callbacks; the     *)
(* module cache for any number of modules, loaders and values.             *)
(***************************************************************************)
EXTENDS ModuleCache, WebServer, NetService, TLAPS


Pointers == {"accept", "coroutine", "write"}
Content  == Responses \cup {Empty}

WebTypes ==
  /\ accepting \in 0 .. MaxSessions
  /\ coroutine \in [Sessions -> {"none", "reading", "handling", "over"}]
  /\ holders   \in [Sessions -> SUBSET Pointers]
  /\ sending   \in [Sessions -> Content]
  /\ offered   \in [Sessions -> Content]
  /\ writing   \in [Sessions -> {"no", "pending", "over", "broken"}]
  /\ received  \in [Sessions -> Seq(Content \X Nat)]
  /\ stack     \in Seq(Int)

(* Each kind of operation has its own pointer. *)
Holds ==
  \A s \in Sessions :
    /\ accepting = s => "accept" \in holders[s]
    /\ coroutine[s] \in {"reading", "handling"} => "coroutine" \in holders[s]
    /\ writing[s] = "pending" => "write" \in holders[s]

(* A session writes only after its coroutine has begun, and that begins    *)
(* after the session has been waiting for its client.                      *)
Order ==
  \A s \in Sessions :
    /\ coroutine[s] = "none" => writing[s] = "no"
    /\ accepting # 0 /\ s >= accepting => coroutine[s] = "none"
    /\ \A i \in DOMAIN stack : stack[i] = s => coroutine[s] # "none"

(* What is being sent is what was offered first. *)
Sends ==
  \A s \in Sessions :
    /\ sending[s] = offered[s]
    /\ writing[s] = "no" <=> offered[s] = Empty
    /\ \A i \in 1 .. Len(received[s]) : received[s][i] = <<offered[s], i>>
    /\ writing[s] = "no" => received[s] = <<>>
    /\ writing[s] = "over" => Len(received[s]) = Pieces

WebInvariant == WebTypes /\ Holds /\ Order /\ Sends

-----------------------------------------------------------------------------
LEMMA InvariantInitially == WebInit => WebInvariant
<1> SUFFICES ASSUME WebInit PROVE WebInvariant
  OBVIOUS
<1> USE DEF WebInit, Sessions
<1>1. WebTypes
  BY ServerAssumption DEF WebTypes, Pointers, Content
<1>2. Holds
  BY ServerAssumption DEF Holds
<1>3. Order
  BY DEF Order
<1>4. Sends
  BY DEF Sends
<1> QED BY <1>1, <1>2, <1>3, <1>4 DEF WebInvariant

LEMMA LeaveLoopStep ==
  ASSUME WebInvariant, LeaveLoop
  PROVE  WebInvariant'
<1> USE DEF LeaveLoop, InLoop, Popped
<1>1. WebTypes' /\ DOMAIN stack' \subseteq DOMAIN stack
      /\ \A i \in DOMAIN stack' : stack'[i] = stack[i]
  BY DEF WebInvariant, WebTypes
<1>2. Holds' /\ Sends'
  BY DEF WebInvariant, Holds, Sends
<1>3. Order'
  BY <1>1 DEF WebInvariant, Order
<1> QED BY <1>1, <1>2, <1>3 DEF WebInvariant

LEMMA CallLoopStep ==
  ASSUME WebInvariant, NEW loop \in {Run, Poll}, CallLoop(loop)
  PROVE  WebInvariant'
<1> USE DEF CallLoop, Run, Poll
<1>1. WebTypes' /\ DOMAIN stack' = DOMAIN stack \cup {Len(stack) + 1}
      /\ stack'[Len(stack) + 1] = loop /\ \A i \in DOMAIN stack : stack'[i] = stack[i]
  BY DEF WebInvariant, WebTypes
<1>2. Holds' /\ Sends'
  BY DEF WebInvariant, Holds, Sends
<1>3. Order'
  BY <1>1 DEF WebInvariant, Order, Sessions
<1> QED BY <1>1, <1>2, <1>3 DEF WebInvariant

LEMMA OnClientStep ==
  ASSUME WebInvariant, OnClient
  PROVE  WebInvariant'
<1> USE DEF OnClient, Sessions
<1>1. WebTypes'
  BY ServerAssumption DEF WebInvariant, WebTypes, Pointers
<1>2. Holds'
  BY DEF WebInvariant, WebTypes, Holds, Order
<1>3. Order'
  BY DEF WebInvariant, WebTypes, Order
<1>4. Sends'
  BY DEF WebInvariant, Sends
<1> QED BY <1>1, <1>2, <1>3, <1>4 DEF WebInvariant

LEMMA OnClientErrorStep ==
  ASSUME WebInvariant, OnClientError
  PROVE  WebInvariant'
<1> USE DEF OnClientError, Sessions
<1>1. WebTypes'
  BY ServerAssumption DEF WebInvariant, WebTypes, Pointers
<1>2. Holds'
  BY DEF WebInvariant, WebTypes, Holds, Order
<1>3. Order' /\ Sends'
  BY DEF WebInvariant, Order, Sends
<1> QED BY <1>1, <1>2, <1>3 DEF WebInvariant

LEMMA OnRequestStep ==
  ASSUME WebInvariant, NEW s \in Sessions, OnRequest(s)
  PROVE  WebInvariant'
<1> USE DEF OnRequest
<1>1. WebTypes' /\ DOMAIN stack' = DOMAIN stack \cup {Len(stack) + 1}
      /\ stack'[Len(stack) + 1] = s /\ \A i \in DOMAIN stack : stack'[i] = stack[i]
  BY DEF WebInvariant, WebTypes, Sessions
<1>2. Holds'
  BY DEF WebInvariant, WebTypes, Holds
<1>3. Order'
  BY <1>1 DEF WebInvariant, WebTypes, Order
<1>4. Sends'
  BY DEF WebInvariant, Sends
<1> QED BY <1>1, <1>2, <1>3, <1>4 DEF WebInvariant

LEMMA RespondStep ==
  ASSUME WebInvariant, NEW s \in Sessions, NEW response \in Responses, Respond(s, response)
  PROVE  WebInvariant'
<1> USE DEF Respond
<1>1. WebTypes'
  BY DEF WebInvariant, WebTypes, Pointers, Content
<1>2. Holds'
  BY DEF WebInvariant, WebTypes, Holds
<1>3. Order'
  BY DEF WebInvariant, WebTypes, Order
<1>4. Sends'
  <2>1. response # Empty
    BY ServerAssumption
  <2>2. received[s] = <<>> /\ offered[s] = Empty
    BY DEF WebInvariant, Sends
  <2> QED BY <2>1, <2>2 DEF WebInvariant, WebTypes, Sends
<1> QED BY <1>1, <1>2, <1>3, <1>4 DEF WebInvariant

LEMMA LeaveHandlerStep ==
  ASSUME WebInvariant, NEW s \in Sessions, LeaveHandler(s)
  PROVE  WebInvariant'
<1> USE DEF LeaveHandler
<1>1. WebTypes' /\ DOMAIN stack' \subseteq DOMAIN stack
      /\ \A i \in DOMAIN stack' : stack'[i] = stack[i]
  BY DEF WebInvariant, WebTypes, InHandler, Popped
<1>2. coroutine[s] # "none"
  BY DEF WebInvariant, WebTypes, Order, InHandler, Top
<1>3. Holds'
  BY DEF WebInvariant, WebTypes, Holds
<1>4. Order'
  BY <1>1, <1>2 DEF WebInvariant, WebTypes, Order
<1>5. Sends'
  BY DEF WebInvariant, Sends
<1> QED BY <1>1, <1>3, <1>4, <1>5 DEF WebInvariant

LEMMA WriteSomeStep ==
  ASSUME WebInvariant, NEW s \in Sessions, WriteSome(s)
  PROVE  WebInvariant'
<1> USE DEF WriteSome
<1>1. sending[s] = offered[s] /\ received[s] \in Seq(Content \X Nat) /\ sending[s] \in Content
  BY DEF WebInvariant, WebTypes, Sends
<1>2. received'[s] = Append(received[s], <<sending[s], Len(received[s]) + 1>>)
      /\ \A other \in Sessions \ {s} : received'[other] = received[other]
  BY DEF WebInvariant, WebTypes
<1>3. received'[s] \in Seq(Content \X Nat)
  BY <1>1, <1>2
<1>4. WebTypes'
  BY <1>1, <1>3 DEF WebInvariant, WebTypes
<1>5. Holds' /\ Order'
  BY DEF WebInvariant, Holds, Order
<1>6. \A i \in 1 .. Len(received'[s]) : received'[s][i] = <<offered[s], i>>
  <2>1. \A i \in 1 .. Len(received[s]) : received[s][i] = <<offered[s], i>>
    BY DEF WebInvariant, Sends
  <2> QED BY <1>1, <1>2, <2>1
<1>7. Sends'
  BY <1>2, <1>6 DEF WebInvariant, Sends
<1> QED BY <1>4, <1>5, <1>7 DEF WebInvariant

LEMMA WriteEndsStep ==
  ASSUME WebInvariant, NEW s \in Sessions, WriteEnds(s)
  PROVE  WebInvariant'
<1> USE DEF WriteEnds
<1>1. WebTypes'
  BY DEF WebInvariant, WebTypes
<1>2. Holds'
  BY DEF WebInvariant, WebTypes, Holds
<1>3. Order'
  BY DEF WebInvariant, WebTypes, Order
<1>4. Sends'
  BY DEF WebInvariant, WebTypes, Sends
<1> QED BY <1>1, <1>2, <1>3, <1>4 DEF WebInvariant

LEMMA EndStep ==
  ASSUME WebInvariant, End
  PROVE  WebInvariant'
<1> USE DEF End
<1>1. WebTypes'
  BY ServerAssumption DEF WebInvariant, WebTypes, Pointers
<1>2. Holds'
  BY DEF WebInvariant, WebTypes, Holds, Sessions
<1>3. Order'
  BY DEF WebInvariant, WebTypes, Order
<1>4. Sends'
  BY DEF WebInvariant, WebTypes, Sends
<1> QED BY <1>1, <1>2, <1>3, <1>4 DEF WebInvariant

LEMMA InvariantKept == WebInvariant /\ [WebNext]_webVars => WebInvariant'
<1> SUFFICES ASSUME WebInvariant, [WebNext]_webVars PROVE WebInvariant'
  OBVIOUS
<1>1. CASE UNCHANGED webVars
  BY <1>1 DEF webVars, WebInvariant, WebTypes, Holds, Order, Sends
<1>2. CASE WebNext
  BY <1>2, CallLoopStep, LeaveLoopStep, OnClientStep, OnClientErrorStep, OnRequestStep,
     RespondStep, LeaveHandlerStep, WriteSomeStep, WriteEndsStep, EndStep DEF WebNext
<1> QED BY <1>1, <1>2

LEMMA InvariantHolds == WebSpec => []WebInvariant
BY InvariantInitially, InvariantKept, PTL DEF WebSpec

(* No session is destroyed while the acceptor, its coroutine or a write of *)
(* it refers to it: async_accept, handle_read and async_write each hold    *)
(* their own pointer.                                                      *)
THEOREM SessionsLive == WebSpec => []SessionOutlivesItsOperations
<1>1. WebInvariant => SessionOutlivesItsOperations
  BY DEF WebInvariant, Holds, SessionOutlivesItsOperations
<1> QED BY <1>1, InvariantHolds, PTL

(* However respond is called, a client gets pieces of its handler's first  *)
(* answer only, each once and in order, and all of them when the write     *)
(* succeeds.                                                               *)
THEOREM OneAnswerOnly == WebSpec => []ClientGetsTheFirstResponse
<1>1. WebInvariant => ClientGetsTheFirstResponse
  BY DEF WebInvariant, Sends, ClientGetsTheFirstResponse
<1> QED BY <1>1, InvariantHolds, PTL

-----------------------------------------------------------------------------
(* The queue of posted callbacks. *)

NetTypes ==
  /\ owned \in [Callbacks -> Nat]
  /\ pending \in Seq(Callbacks \cup {NoObject})

NetInvariant == NetTypes /\ CallbacksAreOwned

LEMMA PostStep ==
  ASSUME NetInvariant, NEW callback \in Callbacks \cup {NoObject}, Post(callback)
  PROVE  NetInvariant'
<1> USE NetAssumption DEF Post, AddOwner
<1>1. NetTypes'
  BY DEF NetInvariant, NetTypes
<1>2. DOMAIN pending' = DOMAIN pending \cup {Len(pending) + 1}
      /\ pending'[Len(pending) + 1] = callback
      /\ \A i \in DOMAIN pending : pending'[i] = pending[i]
  BY DEF NetInvariant, NetTypes
<1>3. \A object \in Callbacks : owned'[object] >= owned[object]
                                /\ (object = callback <=> owned'[object] # owned[object])
  BY DEF NetInvariant, NetTypes
<1>4. \A i \in DOMAIN pending : pending[i] \in Callbacks \cup {NoObject}
  BY DEF NetInvariant, NetTypes
<1>5. \A i \in DOMAIN pending' :
        pending'[i] # NoObject /\ pending'[i] \notin finished' => owned'[pending'[i]] > 0
  <2> SUFFICES ASSUME NEW i \in DOMAIN pending', pending'[i] # NoObject,
                      pending'[i] \notin finished'
               PROVE  owned'[pending'[i]] > 0
    OBVIOUS
  <2>1. CASE i \in DOMAIN pending
    <3>1. pending[i] \in Callbacks /\ owned[pending[i]] > 0
      BY <2>1, <1>2, <1>4 DEF NetInvariant, CallbacksAreOwned
    <3> QED BY <3>1, <2>1, <1>1, <1>2, <1>3 DEF NetInvariant, NetTypes
  <2>2. CASE i = Len(pending) + 1
    BY <2>2, <1>1, <1>2, <1>3 DEF NetInvariant, NetTypes
  <2> QED BY <2>1, <2>2, <1>2
<1>6. \A object \in Callbacks : owned'[object] > 0 =>
        \E i \in DOMAIN pending' : pending'[i] = object
  <2> SUFFICES ASSUME NEW object \in Callbacks, owned'[object] > 0
               PROVE  \E i \in DOMAIN pending' : pending'[i] = object
    OBVIOUS
  <2>1. CASE object = callback
    BY <2>1, <1>2
  <2>2. CASE object # callback
    BY <2>2, <1>2, <1>3 DEF NetInvariant, CallbacksAreOwned
  <2> QED BY <2>1, <2>2
<1> QED BY <1>1, <1>5, <1>6 DEF NetInvariant, CallbacksAreOwned

LEMMA RunStep ==
  ASSUME NetInvariant, RunOne
  PROVE  NetInvariant'
<1> USE NetAssumption DEF RunOne, RemoveOwner
<1>1. NetTypes'
  BY DEF NetInvariant, NetTypes
<1>2. /\ Len(pending) >= 1 /\ DOMAIN pending = 1 .. Len(pending)
      /\ DOMAIN pending' = 1 .. Len(pending) - 1
      /\ \A i \in 1 .. Len(pending) - 1 : pending'[i] = pending[i + 1]
      /\ Head(pending) = pending[1]
      /\ \A i \in DOMAIN pending : pending[i] \in Callbacks \cup {NoObject}
  BY DEF NetInvariant, NetTypes
<1>3. /\ \A object \in Callbacks : object = pending[1] => owned'[object] = 0
      /\ \A object \in Callbacks : object # pending[1] => owned'[object] = owned[object]
      /\ pending[1] \in Callbacks => pending[1] \in finished'
      /\ finished \subseteq finished'
  BY <1>2 DEF NetInvariant, NetTypes
<1>4. \A i \in DOMAIN pending' :
        pending'[i] # NoObject /\ pending'[i] \notin finished' => owned'[pending'[i]] > 0
  <2> SUFFICES ASSUME NEW i \in DOMAIN pending', pending'[i] # NoObject,
                      pending'[i] \notin finished'
               PROVE  owned'[pending'[i]] > 0
    OBVIOUS
  <2>1. i + 1 \in DOMAIN pending /\ pending'[i] = pending[i + 1] /\ pending[i + 1] \in Callbacks
    BY <1>2
  <2>2. pending[i + 1] # pending[1] /\ pending[i + 1] \notin finished
    BY <2>1, <1>3
  <2> QED BY <2>1, <2>2, <1>3 DEF NetInvariant, CallbacksAreOwned
<1>5. \A object \in Callbacks : owned'[object] > 0 =>
        \E i \in DOMAIN pending' : pending'[i] = object
  <2> SUFFICES ASSUME NEW object \in Callbacks, owned'[object] > 0
               PROVE  \E i \in DOMAIN pending' : pending'[i] = object
    OBVIOUS
  <2>1. object # pending[1] /\ owned[object] > 0
    BY <1>3
  <2>2. PICK k \in DOMAIN pending : pending[k] = object
    BY <2>1 DEF NetInvariant, CallbacksAreOwned
  <2>3. k - 1 \in DOMAIN pending' /\ pending'[k - 1] = object
    BY <2>1, <2>2, <1>2
  <2> QED BY <2>3
<1> QED BY <1>1, <1>4, <1>5 DEF NetInvariant, CallbacksAreOwned

(* Every pending handler's object is found by the collector, unless the    *)
(* end of another handler of the same object has removed its entries; no   *)
(* entry outlives its handlers.                                            *)
THEOREM Ownership == NetSpec => []CallbacksAreOwned
<1>1. NetInit => NetInvariant
  BY DEF NetInit, NetInvariant, NetTypes, CallbacksAreOwned
<1>2. NetInvariant /\ [NetNext]_netVars => NetInvariant'
  <2> SUFFICES ASSUME NetInvariant, [NetNext]_netVars PROVE NetInvariant'
    OBVIOUS
  <2>1. CASE UNCHANGED netVars
    BY <2>1 DEF netVars, NetInvariant, NetTypes, CallbacksAreOwned
  <2>2. CASE NetNext
    BY <2>2, PostStep, RunStep DEF NetNext
  <2> QED BY <2>1, <2>2
<1>3. NetInvariant => CallbacksAreOwned
  BY DEF NetInvariant
<1> QED BY <1>1, <1>2, <1>3, PTL DEF NetSpec

-----------------------------------------------------------------------------
(* The module cache. *)
USE NullAssumption

(* What Pop and Append do to the stack of loaders. *)
LEMMA PopFacts ==
  ASSUME NEW S, NEW s \in Seq(S), s # <<>>
  PROVE  /\ Len(s) \in Nat \ {0}
         /\ DOMAIN s = 1 .. Len(s)
         /\ Pop(s) \in Seq(S)
         /\ DOMAIN Pop(s) = 1 .. Len(s) - 1
         /\ \A i \in 1 .. Len(s) - 1 : Pop(s)[i] = s[i]
BY DEF Pop

LEMMA AppendFacts ==
  ASSUME NEW S, NEW s \in Seq(S), NEW e \in S
  PROVE  /\ Len(s) \in Nat /\ DOMAIN s = 1 .. Len(s)
         /\ Append(s, e) \in Seq(S)
         /\ DOMAIN Append(s, e) = 1 .. Len(s) + 1
         /\ \A i \in 1 .. Len(s) : Append(s, e)[i] = s[i]
         /\ Append(s, e)[Len(s) + 1] = e
OBVIOUS

(* The steps by what they do to the stack of loaders. *)
Push == \E name \in Name : StartLoading(name)

Ends(name) == Unwind(name) \/ \E value \in Value : FinishLoading(name, value)

Keep ==
  \/ \E name \in Name, value \in Value, withLoader \in BOOLEAN :
       AddModule(name, value, withLoader)
  \/ \E name \in Name :
       GetUnknown(name) \/ GetCyclic(name) \/ GetCached(name) \/ GetWithoutLoader(name)
  \/ LoaderThrows \/ Catch

LEMMA NextCases ==
  ASSUME [Next]_vars
  PROVE  Push \/ (\E name \in Name : Ends(name)) \/ Keep \/ UNCHANGED vars
BY DEF Next, Push, Ends, Keep

LEMMA KeepFacts ==
  ASSUME TypeOK, Keep
  PROVE  /\ UNCHANGED <<loading, running>>
         /\ registered \subseteq registered' /\ registered' \subseteq Name
         /\ loaders' \subseteq registered'
         /\ cached' \in [Name -> Value]
         /\ \A name \in registered : cached'[name] = cached[name]
         /\ throwing' \in BOOLEAN
<1>1. ASSUME NEW name \in Name, NEW value \in Value, NEW withLoader \in BOOLEAN,
             AddModule(name, value, withLoader)
      PROVE  /\ UNCHANGED <<loading, running>>
             /\ registered \subseteq registered' /\ registered' \subseteq Name
             /\ loaders' \subseteq registered'
             /\ cached' \in [Name -> Value]
             /\ \A n \in registered : cached'[n] = cached[n]
             /\ throwing' \in BOOLEAN
  BY <1>1 DEF AddModule, TypeOK
<1>2. CASE UNCHANGED <<registered, loaders, cached, loading, running>> /\ throwing' \in BOOLEAN
  BY <1>2 DEF TypeOK
<1> QED BY <1>1, <1>2 DEF Keep, GetUnknown, GetCyclic, GetCached, GetWithoutLoader,
           LoaderThrows, Catch, TypeOK

-----------------------------------------------------------------------------
LEMMA NextTypeOK == TypeOK /\ [Next]_vars => TypeOK'
<1> SUFFICES ASSUME TypeOK, [Next]_vars PROVE TypeOK'
  OBVIOUS
<1>1. CASE Push
  <2>1. PICK name \in Name : StartLoading(name)
    BY <1>1 DEF Push
  <2>2. running' \in Seq(registered)
    BY <2>1, AppendFacts DEF StartLoading, TypeOK
  <2> QED BY <2>1, <2>2 DEF StartLoading, TypeOK
<1>2. ASSUME NEW name \in Name, Ends(name) PROVE TypeOK'
  <2>1. running # <<>> /\ running' = Pop(running)
    BY <1>2 DEF Ends, Unwind, FinishLoading
  <2>2. running' \in Seq(registered)
    BY <2>1, PopFacts DEF TypeOK
  <2>3. CASE Unwind(name)
    BY <2>2, <2>3 DEF Unwind, TypeOK
  <2>4. ASSUME NEW value \in Value, FinishLoading(name, value) PROVE TypeOK'
    BY <2>2, <2>4 DEF FinishLoading, TypeOK
  <2> QED BY <1>2, <2>3, <2>4 DEF Ends
<1>3. CASE Keep
  <2>1. running' \in Seq(registered')
    BY <1>3, KeepFacts DEF TypeOK
  <2>2. imported' \subseteq Name \X Value
    BY <1>3 DEF Keep, AddModule, GetUnknown, GetCyclic, GetCached, GetWithoutLoader,
                LoaderThrows, Catch, TypeOK
  <2> QED BY <1>3, <2>1, <2>2, KeepFacts DEF TypeOK
<1>4. CASE UNCHANGED vars
  BY <1>4 DEF vars, TypeOK
<1> QED BY <1>1, <1>2, <1>3, <1>4, NextCases

(* The cache's state is always of the shape the code declares.             *)
THEOREM TypeCorrect == Spec => []TypeOK
<1>1. Init => TypeOK
  <2> SUFFICES ASSUME Init PROVE TypeOK
    OBVIOUS
  <2>1. running \in Seq(registered)
    BY DEF Init
  <2> QED BY <2>1 DEF Init, TypeOK
<1> QED BY <1>1, NextTypeOK, PTL DEF Spec

-----------------------------------------------------------------------------
LEMMA NextFlags == TypeOK /\ FlagsMatchStack /\ [Next]_vars => FlagsMatchStack'
<1> SUFFICES ASSUME TypeOK, FlagsMatchStack, [Next]_vars PROVE FlagsMatchStack'
  OBVIOUS
<1>1. CASE Push
  <2>1. PICK name \in Name : StartLoading(name)
    BY <1>1 DEF Push
  <2>2. /\ name \in registered /\ name \notin loading
        /\ loading' = loading \cup {name} /\ running' = Append(running, name)
    BY <2>1 DEF StartLoading
  <2> DEFINE n == Len(running)
  <2>3. /\ n \in Nat /\ DOMAIN running = 1 .. n /\ DOMAIN running' = 1 .. n + 1
        /\ \A i \in 1 .. n : running'[i] = running[i]
        /\ running'[n + 1] = name
    BY <2>2, AppendFacts DEF TypeOK
  <2>4. \A i \in 1 .. n : running[i] \in loading
    BY <2>3 DEF FlagsMatchStack
  <2> HIDE DEF n
  <2>5. loading' = {running'[i] : i \in DOMAIN running'}
    BY <2>2, <2>3 DEF FlagsMatchStack
  <2>6. \A i, j \in DOMAIN running' : running'[i] = running'[j] => i = j
    BY <2>2, <2>3, <2>4 DEF FlagsMatchStack
  <2> QED BY <2>5, <2>6 DEF FlagsMatchStack
<1>2. ASSUME NEW name \in Name, Ends(name) PROVE FlagsMatchStack'
  <2>1. /\ running # <<>> /\ running' = Pop(running)
        /\ loading' = loading \ {name} /\ running[Len(running)] = name
    BY <1>2 DEF Ends, Unwind, FinishLoading, Importing
  <2> DEFINE n == Len(running)
  <2>2. /\ n \in Nat \ {0} /\ DOMAIN running = 1 .. n /\ DOMAIN running' = 1 .. n - 1
        /\ \A i \in 1 .. n - 1 : running'[i] = running[i]
        /\ running[n] = name
    BY <2>1, PopFacts DEF TypeOK
  <2> HIDE DEF n
  <2>3. \A i \in 1 .. n - 1 : running[i] # name
    BY <2>2 DEF FlagsMatchStack
  <2>4. loading' = {running'[i] : i \in DOMAIN running'}
    <3>1. \A x \in loading : x # name => \E i \in 1 .. n - 1 : running[i] = x
      BY <2>2 DEF FlagsMatchStack
    <3>2. \A i \in 1 .. n - 1 : running[i] \in loading
      BY <2>2 DEF FlagsMatchStack
    <3> QED BY <2>1, <2>2, <2>3, <3>1, <3>2
  <2>5. \A i, j \in DOMAIN running' : running'[i] = running'[j] => i = j
    BY <2>2 DEF FlagsMatchStack
  <2> QED BY <2>4, <2>5 DEF FlagsMatchStack
<1>3. CASE Keep
  BY <1>3, KeepFacts DEF FlagsMatchStack
<1>4. CASE UNCHANGED vars
  BY <1>4 DEF vars, FlagsMatchStack
<1> QED BY <1>1, <1>2, <1>3, <1>4, NextCases

(* No module is loaded inside its own loader, and none stays locked.       *)
THEOREM Flags == Spec => []FlagsMatchStack
<1>1. Init => FlagsMatchStack
  BY DEF Init, FlagsMatchStack
<1> QED BY <1>1, NextFlags, TypeCorrect, PTL DEF Spec

-----------------------------------------------------------------------------
(* While a module is being loaded nothing is cached for it, and what was   *)
(* imported belongs to a registered module.                                *)
ImportInv ==
  /\ ImportsAgree
  /\ \A name \in loading : cached[name] = Null
  /\ \A import \in imported : import[2] # Null => import[1] \in registered

LEMMA LoaderRuns ==
  ASSUME TypeOK, FlagsMatchStack, NEW name \in Name, Ends(name)
  PROVE  name \in loading /\ name \in registered
<1>1. running # <<>> /\ running[Len(running)] = name
  BY DEF Ends, Unwind, FinishLoading, Importing
<1>2. Len(running) \in DOMAIN running
  BY <1>1, PopFacts DEF TypeOK
<1> QED BY <1>1, <1>2 DEF FlagsMatchStack, TypeOK

LEMMA NextImportInv ==
  TypeOK /\ FlagsMatchStack /\ ImportInv /\ [Next]_vars => ImportInv'
<1> SUFFICES ASSUME TypeOK, FlagsMatchStack, ImportInv, [Next]_vars PROVE ImportInv'
  OBVIOUS
<1>1. CASE Push
  BY <1>1 DEF Push, StartLoading, ImportInv, ImportsAgree
<1>2. ASSUME NEW name \in Name, Ends(name) PROVE ImportInv'
  <2>1. CASE Unwind(name)
    BY <2>1 DEF Unwind, ImportInv, ImportsAgree
  <2>2. ASSUME NEW value \in Value, FinishLoading(name, value) PROVE ImportInv'
    <3>1. name \in loading /\ name \in registered /\ cached[name] = Null
      BY <1>2, LoaderRuns DEF ImportInv
    <3>2. /\ cached' = [cached EXCEPT ![name] = value] /\ loading' = loading \ {name}
          /\ imported' = imported \cup {<<name, value>>} /\ registered' = registered
          /\ cached \in [Name -> Value] /\ imported \subseteq Name \X Value
          /\ loading \subseteq Name
      BY <2>2 DEF FinishLoading, TypeOK
    <3>3. ImportsAgree'
      <4> SUFFICES ASSUME NEW import \in imported', import[2] # Null
                   PROVE  import[2] = cached'[import[1]]
        BY DEF ImportsAgree
      <4>1. CASE import \in imported
        <5>1. import[2] = cached[import[1]] /\ import[1] \in Name
          BY <3>2, <4>1 DEF ImportInv, ImportsAgree
        <5>2. import[1] # name
          BY <3>1, <5>1
        <5> QED BY <3>2, <5>1, <5>2
      <4>2. CASE import = <<name, value>>
        BY <3>2, <4>2
      <4> QED BY <3>2, <4>1, <4>2
    <3>4. \A n \in loading' : cached'[n] = Null
      BY <3>2 DEF ImportInv
    <3>5. \A import \in imported' : import[2] # Null => import[1] \in registered'
      BY <3>1, <3>2 DEF ImportInv
    <3> QED BY <3>3, <3>4, <3>5 DEF ImportInv
  <2> QED BY <1>2, <2>1, <2>2 DEF Ends
<1>3. CASE Keep
  <2>1. /\ registered \subseteq registered' /\ loading' = loading
        /\ \A name \in registered : cached'[name] = cached[name]
        /\ loading \subseteq registered
    BY <1>3, KeepFacts DEF TypeOK
  <2>2. \A import \in imported' :
          import \in imported \/ import[2] = Null
            \/ (import[1] \in registered /\ import[2] = cached[import[1]])
    <3>1. CASE imported' = imported
      BY <3>1
    <3>2. ASSUME NEW name \in Name, GetUnknown(name)
          PROVE  imported' = imported \cup {<<name, Null>>}
      BY <3>2 DEF GetUnknown
    <3>3. ASSUME NEW name \in Name, GetCached(name)
          PROVE  name \in registered /\ imported' = imported \cup {<<name, cached[name]>>}
      BY <3>3 DEF GetCached
    <3>4. imported' = imported \/ \E name \in Name : GetUnknown(name) \/ GetCached(name)
      BY <1>3 DEF Keep, AddModule, GetCyclic, GetWithoutLoader, LoaderThrows, Catch
    <3> QED BY <3>1, <3>2, <3>3, <3>4
  <2> QED BY <2>1, <2>2 DEF ImportInv, ImportsAgree
<1>4. CASE UNCHANGED vars
  BY <1>4 DEF vars, ImportInv, ImportsAgree
<1> QED BY <1>1, <1>2, <1>3, <1>4, NextCases

(* All importers of a module get the same value, whatever order the        *)
(* imports, failures and repetitions come in.                              *)
THEOREM Imports == Spec => []ImportsAgree
<1>1. Init => ImportInv
  BY DEF Init, ImportInv, ImportsAgree
<1>2. ImportInv => ImportsAgree
  BY DEF ImportInv
<1> QED BY <1>1, <1>2, NextImportInv, TypeCorrect, Flags, PTL DEF Spec

-----------------------------------------------------------------------------
LEMMA StepImplements ==
  TypeOK /\ FlagsMatchStack /\ ImportInv /\ [Next]_vars => [Table!Next]_(Table!vars)
<1> SUFFICES ASSUME TypeOK, FlagsMatchStack, ImportInv, [Next]_vars
             PROVE  Table!Next \/ UNCHANGED <<registered, cached, loading>>
  BY DEF Table!vars
<1>1. CASE Push
  BY <1>1 DEF Push, StartLoading, Table!Next, Table!Begin
<1>2. ASSUME NEW name \in Name, Ends(name) PROVE Table!Next
  <2>1. name \in loading /\ cached[name] = Null
    BY <1>2, LoaderRuns DEF ImportInv
  <2>2. CASE Unwind(name)
    BY <2>1, <2>2 DEF Unwind, Table!Next, Table!Abort
  <2>3. ASSUME NEW value \in Value, FinishLoading(name, value) PROVE Table!Next
    BY <2>1, <2>3 DEF FinishLoading, Table!Next, Table!Complete
  <2> QED BY <1>2, <2>2, <2>3 DEF Ends
<1>3. CASE Keep
  <2>1. ASSUME NEW name \in Name, NEW value \in Value, NEW withLoader \in BOOLEAN,
               AddModule(name, value, withLoader)
        PROVE  Table!Next \/ UNCHANGED <<registered, cached, loading>>
    BY <2>1 DEF AddModule, Table!Next, Table!Register
  <2> QED BY <1>3, <2>1 DEF Keep, GetUnknown, GetCyclic, GetCached, GetWithoutLoader,
             LoaderThrows, Catch
<1>4. CASE UNCHANGED vars
  BY <1>4 DEF vars
<1> QED BY <1>1, <1>2, <1>3, <1>4, NextCases

(* The cache implements the module table. *)
THEOREM Implementation == Spec => ImplementsModuleTable
<1>1. Init => Table!Init
  BY DEF Init, Table!Init
<1>2. Init => ImportInv
  BY DEF Init, ImportInv, ImportsAgree
<1> QED BY <1>1, <1>2, StepImplements, NextImportInv, TypeCorrect, Flags, PTL
        DEF Spec, ImplementsModuleTable, Table!Spec
=============================================================================

------------------------------ MODULE WebServer ------------------------------
(***************************************************************************)
(* p0tempest: the HTTP server object.  One session per client: its         *)
(* coroutine reads the request and calls the p0 handler, which may answer  *)
(* through a respond function; the answer is written asynchronously.  All  *)
(* of it happens inside run or poll, which p0 code calls, handlers too, so *)
(* that loops and handlers are nested on one C++ stack.  A session lives   *)
(* as long as a shared pointer holds it: the one bound to the pending      *)
(* accept, keep_alive on the coroutine's stack, or this_ in the pending    *)
(* write.                                                                  *)
(*                                                                         *)
(* The respond function must not be called when the handler has returned:  *)
(* it refers to a variable that is gone then (tempest_module.cpp:306).     *)
(* The model has p0 code that keeps to that.                               *)
(***************************************************************************)
EXTENDS Integers, Sequences

CONSTANTS
  MaxSessions,   \* bound: sessions that are made
  MaxDepth,      \* bound: loops and handlers on the stack
  Responses,     \* what handlers answer; never empty, there is a status line
  Empty,         \* the empty string
  Pieces         \* how often a socket has to be written to for a response

ASSUME ServerAssumption ==
  MaxSessions \in Nat \ {0} /\ MaxDepth \in Nat /\ Pieces \in Nat /\ Empty \notin Responses

VARIABLES
  accepting,   \* the session the acceptor waits with, or 0
  coroutine,   \* of each session: "none", "reading", "handling" or "over"
  holders,     \* which shared pointers to a session there are
  sending,     \* session::sending
  offered,     \* the first response a session's handler gave (history)
  writing,     \* async_write: "no", "pending", "over" or "broken"
  received,    \* what the client has got: pairs of a response and a piece's number
  stack,       \* loops and sessions whose handlers run, the innermost last
  ended        \* the program is over and the server destroyed

webVars == <<accepting, coroutine, holders, sending, offered, writing, received, stack, ended>>

Sessions == 1 .. MaxSessions
Run  == 0
Poll == -1

Top == stack[Len(stack)]
InLoop    == stack # <<>> /\ Top \in {Run, Poll}
InHandler == stack # <<>> /\ Top \in Sessions
Popped == SubSeq(stack, 1, Len(stack) - 1)

WebInit ==
  /\ accepting = 1
  /\ coroutine = [s \in Sessions |-> "none"]
  /\ holders   = [s \in Sessions |-> IF s = 1 THEN {"accept"} ELSE {}]
  /\ sending   = [s \in Sessions |-> Empty]
  /\ offered   = [s \in Sessions |-> Empty]
  /\ writing   = [s \in Sessions |-> "no"]
  /\ received  = [s \in Sessions |-> <<>>]
  /\ stack     = <<>>
  /\ ended     = FALSE

(* server.run() or server.poll(), from the program or from a handler. *)
CallLoop(loop) ==
  /\ ~ended
  /\ Len(stack) < MaxDepth
  /\ stack = <<>> \/ InHandler
  /\ stack' = Append(stack, loop)
  /\ UNCHANGED <<accepting, coroutine, holders, sending, offered, writing, received, ended>>

(* poll may return at any time; run when no operation is pending, which    *)
(* the handlers around a nested run are.                                   *)
LeaveLoop ==
  /\ InLoop
  /\ \/ Top = Poll
     \/ /\ Top = Run /\ Len(stack) = 1 /\ accepting = 0
        /\ \A s \in Sessions : coroutine[s] # "reading" /\ writing[s] # "pending"
  /\ stack' = Popped
  /\ UNCHANGED <<accepting, coroutine, holders, sending, offered, writing, received, ended>>

(* on_client: the coroutine runs until its first read, the next session    *)
(* waits for a client.                                                     *)
OnClient ==
  /\ InLoop
  /\ accepting # 0 /\ accepting < MaxSessions
  /\ coroutine' = [coroutine EXCEPT ![accepting] = "reading"]
  /\ holders' = [holders EXCEPT ![accepting] = {"coroutine"}, ![accepting + 1] = {"accept"}]
  /\ accepting' = accepting + 1
  /\ UNCHANGED <<sending, offered, writing, received, stack, ended>>

(* on_client with an error: nobody accepts any more. *)
OnClientError ==
  /\ InLoop
  /\ accepting # 0
  /\ holders' = [holders EXCEPT ![accepting] = {}]
  /\ accepting' = 0
  /\ UNCHANGED <<coroutine, sending, offered, writing, received, stack, ended>>

(* The rest of the request, or the end of the stream, has been read: the   *)
(* coroutine goes on to the p0 handler.                                    *)
OnRequest(s) ==
  /\ InLoop
  /\ Len(stack) < MaxDepth
  /\ coroutine[s] = "reading"
  /\ coroutine' = [coroutine EXCEPT ![s] = "handling"]
  /\ stack' = Append(stack, s)
  /\ UNCHANGED <<accepting, holders, sending, offered, writing, received, ended>>

(* Mutant: any answer is sent. *)
RespondAgain(s, response) ==
  /\ InHandler
  /\ coroutine[s] = "handling"
  /\ sending' = [sending EXCEPT ![s] = response]
  /\ offered' = [offered EXCEPT ![s] = IF @ = Empty THEN response ELSE @]
  /\ writing' = [writing EXCEPT ![s] = "pending"]
  /\ holders' = [holders EXCEPT ![s] = @ \cup {"write"}]
  /\ UNCHANGED <<accepting, coroutine, received, stack, ended>>

(* Mutant: the operation does not keep the session. *)
RespondUnheld(s, response) ==
  /\ InHandler
  /\ coroutine[s] = "handling" /\ sending[s] = Empty
  /\ sending' = [sending EXCEPT ![s] = response]
  /\ offered' = [offered EXCEPT ![s] = IF @ = Empty THEN response ELSE @]
  /\ writing' = [writing EXCEPT ![s] = "pending"]
  /\ UNCHANGED <<accepting, coroutine, holders, received, stack, ended>>

(* Mutant: a write that is asked for during another one is forgotten. *)
RespondOneByOne(s, response) ==
  /\ InHandler
  /\ coroutine[s] = "handling" /\ sending[s] = Empty
  /\ sending' = [sending EXCEPT ![s] = response]
  /\ offered' = [offered EXCEPT ![s] = IF @ = Empty THEN response ELSE @]
  /\ IF \E other \in Sessions : writing[other] = "pending" THEN UNCHANGED <<writing, holders>>
     ELSE /\ writing' = [writing EXCEPT ![s] = "pending"]
          /\ holders' = [holders EXCEPT ![s] = @ \cup {"write"}]
  /\ UNCHANGED <<accepting, coroutine, received, stack, ended>>

(* respond, called by the session's handler or by one that it called in    *)
(* turn; at most once.                                                     *)
Respond(s, response) ==
  /\ InHandler
  /\ coroutine[s] = "handling"
  /\ sending[s] = Empty
  /\ sending' = [sending EXCEPT ![s] = response]
  /\ offered' = [offered EXCEPT ![s] = IF @ = Empty THEN response ELSE @]
  /\ writing' = [writing EXCEPT ![s] = "pending"]
  /\ holders' = [holders EXCEPT ![s] = @ \cup {"write"}]
  /\ UNCHANGED <<accepting, coroutine, received, stack, ended>>

(* handle_read returns when the handler does. *)
LeaveHandler(s) ==
  /\ InHandler /\ Top = s
  /\ coroutine' = [coroutine EXCEPT ![s] = "over"]
  /\ holders' = [holders EXCEPT ![s] = @ \ {"coroutine"}]
  /\ stack' = Popped
  /\ UNCHANGED <<accepting, sending, offered, writing, received, ended>>

(* The socket takes a piece of what its session is sending. *)
WriteSome(s) ==
  /\ InLoop
  /\ writing[s] = "pending"
  /\ Len(received[s]) < Pieces
  /\ received' = [received EXCEPT ![s] = Append(@, <<sending[s], Len(@) + 1>>)]
  /\ UNCHANGED <<accepting, coroutine, holders, sending, offered, writing, stack, ended>>

(* The operation is over, with success or because the client has gone; its *)
(* callback ignores which, and goes away with its pointer.                 *)
WriteEnds(s) ==
  /\ InLoop
  /\ writing[s] = "pending"
  /\ \/ Len(received[s]) = Pieces /\ writing' = [writing EXCEPT ![s] = "over"]
     \/ writing' = [writing EXCEPT ![s] = "broken"]
  /\ holders' = [holders EXCEPT ![s] = @ \ {"write"}]
  /\ UNCHANGED <<accepting, coroutine, sending, offered, received, stack, ended>>

(* The program ends, by itself or because a handler failed, which unwinds  *)
(* all loops and handlers.  Pending operations are dropped; coroutines     *)
(* that wait for a client keep their sessions for ever.                    *)
End ==
  /\ ~ended
  /\ stack = <<>> \/ InHandler
  /\ ended' = TRUE
  /\ stack' = <<>>
  /\ accepting' = 0
  /\ coroutine' = [s \in Sessions |-> IF coroutine[s] = "handling" THEN "over" ELSE coroutine[s]]
  /\ writing' = [s \in Sessions |-> IF writing[s] = "pending" THEN "broken" ELSE writing[s]]
  /\ holders' = [s \in Sessions |-> IF coroutine[s] = "reading" THEN {"coroutine"} ELSE {}]
  /\ UNCHANGED <<sending, offered, received>>

WebNext ==
  \/ \E loop \in {Run, Poll} : CallLoop(loop)
  \/ LeaveLoop
  \/ OnClient
  \/ OnClientError
  \/ \E s \in Sessions : OnRequest(s)
  \/ \E s \in Sessions, response \in Responses : Respond(s, response)
  \/ \E s \in Sessions : LeaveHandler(s)
  \/ \E s \in Sessions : WriteSome(s)
  \/ \E s \in Sessions : WriteEnds(s)
  \/ End

(* The program runs its server again or ends; handlers return; what is     *)
(* ready is not passed over by every loop.                                 *)
WebFairness ==
  /\ WF_webVars(stack = <<>> /\ (CallLoop(Run) \/ CallLoop(Poll) \/ End))
  /\ WF_webVars(\E s \in Sessions : LeaveHandler(s))
  /\ \A s \in Sessions : SF_webVars(WriteSome(s) \/ WriteEnds(s))

WebSpec == WebInit /\ [][WebNext]_webVars

-----------------------------------------------------------------------------
(* What waits for a client, runs, or is written refers to its session by a *)
(* plain pointer or a reference to its members: in no order of handlers,   *)
(* answers and completions is the session destroyed before.                *)
SessionOutlivesItsOperations ==
  \A s \in Sessions :
    accepting = s \/ coroutine[s] \in {"reading", "handling"} \/ writing[s] = "pending"
      => holders[s] # {}

(* A client gets the pieces of its handler's first answer, in order, and   *)
(* nothing else, however often and from wherever respond is called, before *)
(* or after the write is over; all pieces if the connection holds.         *)
ClientGetsTheFirstResponse ==
  \A s \in Sessions :
    /\ \A i \in 1 .. Len(received[s]) : received[s][i] = <<offered[s], i>>
    /\ writing[s] = "over" => offered[s] # Empty /\ Len(received[s]) = Pieces

(* Every answer is written to its end, whatever else the loops have to do, *)
(* unless the program ends or the client goes.                             *)
EveryResponseIsWritten ==
  \A s \in Sessions : offered[s] # Empty ~> writing[s] \in {"over", "broken"} \/ ended
=============================================================================

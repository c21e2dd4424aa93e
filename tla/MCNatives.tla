------------------------------ MODULE MCNatives ------------------------------
(* The two native services have their own io_services and share nothing:   *)
(* they are checked side by side, one of them still in its first state.    *)
EXTENDS WebServer, NetService

Init == WebInit /\ NetInit
WebTurn == pending = <<>> /\ finished = {} /\ WebNext /\ UNCHANGED netVars
NetTurn == accepting = 1 /\ stack = <<>> /\ NetNext /\ UNCHANGED webVars
Next == WebTurn \/ NetTurn
Spec == Init /\ [][Next]_<<webVars, netVars>> /\ WebFairness
=============================================================================

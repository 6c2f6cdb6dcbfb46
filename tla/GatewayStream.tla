------------------------------- MODULE GatewayStream -------------------------------
(***************************************************************************)
(* What the handlers are promised about the events of the gateway: those   *)
(* of one Discord session arrive in order, each once, none left out, and a *)
(* new session starts over with its READY, its first event.  Sessions are  *)
(* numbered in the order Discord made them; a session left never returns.  *)
(***************************************************************************)
EXTENDS Naturals

VARIABLES
    session,  \* the session the events come from, 0 before the first READY
    seq       \* how many of its events have been handled

vars == <<session, seq>>

Init == session = 0 /\ seq = 0

NextEvent ==
    /\ session # 0
    /\ seq' = seq + 1
    /\ UNCHANGED session

NewSession ==
    /\ session' > session
    /\ seq' = 1

Next == NextEvent \/ NewSession

Spec == Init /\ [][Next]_vars
====================================================================================

-------------------------------- MODULE MCWsClient --------------------------------
(***************************************************************************)
(* WsClient for TLC: a broadcast, a heartbeat and the lifecycle messages   *)
(* over up to three connections, with channels that hold one message: two  *)
(* messages that generation 0 could not write compete for its channel.     *)
(***************************************************************************)
EXTENDS WsClient

CONSTANTS b1, h1
==================================================================================

---------------------------- MODULE MCHeartbeat -----------------------------
(* An instance of Heartbeat for TLC. *)
EXTENDS Heartbeat

CONSTANTS v1, v2, put, ping, job
=============================================================================

-------------------------------- MODULE Live --------------------------------
(***************************************************************************)
(* The live updates end to end: the daemon (LiveServer) and the page       *)
(* (LiveClient) over the websockets between them (LiveSockets).            *)
(***************************************************************************)
EXTENDS LiveServer, LiveClient

vars == <<sockets, server, client>>

Init == SocketsInit /\ ServerInit /\ ClientInit

NetStep ==
  /\ NetGoes \/ NetReturns \/ \E s \in Socks : DialFails(s)
  /\ UNCHANGED <<server, client>>

ServerStep ==
  /\ \/ \E s \in Socks : Accepts(s) \/ Registers(s) \/ Notices(s)
     \/ LoopChange \/ ThreadChange \/ CheckTick \/ ServerRestarts
     \/ \E t \in tasks : Sends(t)
  /\ UNCHANGED client

ClientStep ==
  /\ \/ \E s \in Socks : Dispatches(s)
     \/ Start \/ RetryFires \/ Watchdog \/ Resume \/ Stop
  /\ UNCHANGED server

Next == NetStep \/ ServerStep \/ ClientStep

Spec == Init /\ [][Next]_vars

(* The network returns and a connection attempt ends one way or the other; *)
(* the loop runs its tasks and the check ticks; the browser fires events   *)
(* and timers.  A send goes on once its socket takes it.                   *)
Fairness ==
  /\ WF_vars(NetReturns /\ UNCHANGED <<server, client>>)
  /\ \A s \in Socks :
       /\ WF_vars(DialFails(s) /\ UNCHANGED <<server, client>>)
       /\ WF_vars((Accepts(s) \/ Registers(s) \/ Notices(s)) /\ UNCHANGED client)
       /\ WF_vars(Dispatches(s) /\ UNCHANGED server)
  /\ WF_vars(CheckTick /\ UNCHANGED client)
  /\ WF_vars((\E t \in tasks : Sends(t)) /\ UNCHANGED client)
  /\ WF_vars(RetryFires /\ UNCHANGED server)
  /\ WF_vars(Silent /\ Watchdog /\ UNCHANGED server)

FairSpec == Spec /\ Fairness

-----------------------------------------------------------------------------
(* Properties *)

TypeOK == SocketsTypeOK /\ ServerTypeOK /\ ClientTypeOK

(* Until it is stopped the page holds a socket or has a reconnection       *)
(* scheduled, also when a resume and a drop of an earlier socket cross     *)
(* (liveConnection.ts:154-169, 222-234).                                   *)
NeverGivesUp == ~stopped => socket # None \/ retryTimer

(* A page that says it is open is watched: if the connection dies without  *)
(* a word the watchdog finds out (liveConnection.ts:134-141, 190-195, 215-219).     *)
OpenIsWatched == status = "open" /\ ~stopped => timers

(* The daemon sends a broadcast to a socket after its first snapshot only, *)
(* and to each socket once (api.py:537-540, ws.py:23-30).                  *)
RegisteredOnce ==
  /\ IsInjective(conns)
  /\ \A s \in Range(conns) : endpoint[s] = "registered"

(* A page that is not left shows the daemon's state in the end: after      *)
(* losses of the network, restarts, connections that die silently,         *)
(* changes nobody broadcast and broadcasts that overtook each other.       *)
ShowsCurrent == <>[]~stopped => <>[](shown = version)

(* An event of a socket that is not the current one schedules no work: no  *)
(* reconnection, no ping, no watchdog (liveConnection.ts:177).             *)
OldSocketSchedulesNothing ==
  [][\A s \in Socks : s # socket /\ Dispatches(s) => UNCHANGED <<retryTimer, timers>>]_vars
=============================================================================

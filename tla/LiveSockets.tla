---------------------------- MODULE LiveSockets -----------------------------
(***************************************************************************)
(* The websockets between the page and the daemon: what the browser and    *)
(* the server of tether_ddns share.  The daemon's state is a version       *)
(* number: a message carries the version of the snapshot in it.            *)
(***************************************************************************)
EXTENDS Naturals, Sequences, FiniteSets, SequencesExt

CONSTANTS
  Socks,       \* the sockets; one that is over is taken again
  None,
  MaxVersion,  \* bound: changes of the state
  MaxQueue,    \* bound: events on their way, beyond which a send waits
  MaxCuts      \* bound: losses of the network

ASSUME SocketsAssumption ==
  /\ IsFiniteSet(Socks) /\ None \notin Socks
  /\ {MaxVersion, MaxQueue, MaxCuts} \subseteq Nat

VARIABLES
  path,  \* free, dialling, up, cut (silently lost), shut (over for the page)
  chan,  \* the events on their way to the page
  net,   \* whether the daemon can be reached
  cuts   \* losses counted against their bound

sockets == <<path, chan, net, cuts>>

Versions == 0 .. MaxVersion
Event == [kind : {"open", "error", "close"}, ver : {0}]
         \cup [kind : {"state"}, ver : Versions]
Plain(kind) == [kind |-> kind, ver |-> 0]
State(v) == [kind |-> "state", ver |-> v]

SocketsInit ==
  /\ path = [s \in Socks |-> "free"]
  /\ chan = [s \in Socks |-> <<>>]
  /\ net = TRUE /\ cuts = 0

SocketsTypeOK ==
  /\ path \in [Socks -> {"free", "dialling", "up", "cut", "shut"}]
  /\ chan \in [Socks -> Seq(Event)]
  /\ net \in BOOLEAN /\ cuts \in Nat

(* What a connection fires that fails before it is open.                   *)
Failure == <<Plain("error"), Plain("close")>>
Opening(s) == chan[s] # <<>> /\ Head(chan[s]).kind = "open"

(* The network goes: some of the connections are lost without a word, but  *)
(* the browser gives up on the ones that are not open yet.                 *)
NetGoes ==
  /\ net /\ cuts < MaxCuts
  /\ net' = FALSE /\ cuts' = cuts + 1
  /\ \E lost \in SUBSET {s \in Socks : path[s] = "up"} :
       /\ path' = [s \in Socks |-> IF s \notin lost THEN path[s]
                                  ELSE IF Opening(s) THEN "shut" ELSE "cut"]
       /\ chan' = [s \in Socks |-> IF s \notin lost THEN chan[s]
                                  ELSE IF Opening(s) THEN Failure ELSE <<>>]

NetReturns ==
  /\ ~net
  /\ net' = TRUE
  /\ UNCHANGED <<path, chan, cuts>>

DialFails(s) ==
  /\ path[s] = "dialling" /\ ~net
  /\ path' = [path EXCEPT ![s] = "free"]
  /\ chan' = [chan EXCEPT ![s] = Failure]
  /\ UNCHANGED <<net, cuts>>
=============================================================================

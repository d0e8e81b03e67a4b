----------------------------- MODULE LiveServer -----------------------------
(***************************************************************************)
(* The daemon's side of the live updates: the websocket endpoint, the      *)
(* connection manager and the tasks that broadcast a snapshot.             *)
(***************************************************************************)
EXTENDS LiveSockets

CONSTANTS
  MaxTasks,    \* bound: broadcasts in progress
  MaxRestarts  \* bound: restarts of the daemon

ASSUME ServerAssumption == {MaxTasks, MaxRestarts} \subseteq Nat

VARIABLES
  version,   \* the state of the daemon
  conns,     \* ConnectionManager.connections
  endpoint,  \* the endpoint of a socket: none, greeted or registered
  tasks,     \* the broadcasts in progress
  restarts   \* restarts counted against their bound

server == <<version, conns, endpoint, tasks, restarts>>

Task == [to : Seq(Socks) \ {<<>>}, ver : Versions]

ServerInit ==
  /\ version = 0 /\ conns = <<>> /\ tasks = {} /\ restarts = 0
  /\ endpoint = [s \in Socks |-> "none"]

ServerTypeOK ==
  /\ version \in Versions /\ restarts \in Nat
  /\ conns \in Seq(Socks)
  /\ endpoint \in [Socks -> {"none", "greeted", "registered"}]
  /\ tasks \subseteq Task

(* Mutant: disconnect leaves the socket in the connections. *)
WithoutNone(seq, s) == seq
Without(seq, s) == RemoveFirst(seq, s)

(* accept, then the first snapshot; the log lines follow. *)
Accepts(s) ==
  /\ path[s] = "dialling" /\ net
  /\ path' = [path EXCEPT ![s] = "up"]
  /\ chan' = [chan EXCEPT ![s] = <<Plain("open"), State(version)>>]
  /\ endpoint' = [endpoint EXCEPT ![s] = "greeted"]
  /\ UNCHANGED <<net, cuts, version, conns, tasks, restarts>>

(* Mutant: the socket is never added to the connections. *)
NotRegistered(s) == conns
Registered(s) == Append(conns, s)

(* After the last log line: what changed since the snapshot is not sent.   *)
Registers(s) ==
  /\ endpoint[s] = "greeted"
  /\ conns' = Registered(s)
  /\ endpoint' = [endpoint EXCEPT ![s] = "registered"]
  /\ UNCHANGED <<sockets, version, tasks, restarts>>

(* A send or a receive of the endpoint meets a connection that is over.    *)
Notices(s) ==
  /\ path[s] = "shut" \/ (path[s] = "cut" /\ endpoint[s] # "none")
  /\ conns' = Without(conns, s)
  /\ endpoint' = [endpoint EXCEPT ![s] = "none"]
  /\ path' = IF path[s] = "shut" THEN [path EXCEPT ![s] = "free"] ELSE path
  /\ UNCHANGED <<chan, net, cuts, version, tasks, restarts>>

-----------------------------------------------------------------------------
(* sync_broadcast: to the sockets that are registered now. *)
Broadcasts(v) ==
  /\ Cardinality(tasks) < MaxTasks
  /\ tasks' = IF conns = <<>> THEN tasks ELSE tasks \cup {[to |-> conns, ver |-> v]}

LoopChange ==
  /\ version < MaxVersion
  /\ version' = version + 1
  /\ Broadcasts(version + 1)
  /\ UNCHANGED <<sockets, conns, endpoint, restarts>>

(* In a thread there is no running loop, and nothing is broadcast. *)
ThreadChange ==
  /\ version < MaxVersion
  /\ version' = version + 1
  /\ UNCHANGED <<sockets, conns, endpoint, tasks, restarts>>

(* The check every 30 s ends in a broadcast, whatever it finds. *)
CheckTick ==
  /\ Broadcasts(version)
  /\ UNCHANGED <<sockets, version, conns, endpoint, restarts>>

(* Mutant: a task goes on past its last recipient. *)
OneMore(t) == {[t EXCEPT !.to = Tail(@)]}
Rest(t) == IF Len(t.to) = 1 THEN {} ELSE {[t EXCEPT !.to = Tail(@)]}

(* One send of a task; tasks wait on slow sockets and overtake each other. *)
Sends(t) ==
  /\ t \in tasks
  /\ tasks' = (tasks \ {t}) \cup Rest(t)
  /\ LET s == Head(t.to) IN
     \/ /\ path[s] = "up" /\ Len(chan[s]) < MaxQueue
        /\ chan' = [chan EXCEPT ![s] = Append(@, State(t.ver))]
        /\ UNCHANGED conns
     \/ path[s] # "up" /\ conns' \in {conns, Without(conns, s)} /\ UNCHANGED chan
  /\ UNCHANGED <<path, net, cuts, version, endpoint, restarts>>

(* The daemon goes and comes back: its sockets are closed. *)
ServerRestarts ==
  /\ restarts < MaxRestarts
  /\ restarts' = restarts + 1
  /\ chan' = [s \in Socks |-> IF path[s] = "up" THEN Append(chan[s], Plain("close"))
                              ELSE chan[s]]
  /\ path' = [s \in Socks |-> IF path[s] \in {"up", "shut"} THEN "free" ELSE path[s]]
  /\ conns' = <<>> /\ tasks' = {}
  /\ endpoint' = [s \in Socks |-> "none"]
  /\ UNCHANGED <<net, cuts, version>>
=============================================================================

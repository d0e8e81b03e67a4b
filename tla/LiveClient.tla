----------------------------- MODULE LiveClient -----------------------------
(***************************************************************************)
(* The page's side of the live updates: LiveConnection, with its retry     *)
(* timer, watchdog and resume, and the snapshot that useLiveState keeps.   *)
(***************************************************************************)
EXTENDS LiveSockets

CONSTANTS
  MaxStarts,   \* bound: starts of the connection
  MaxWakes     \* bound: visibilitychange, pageshow and online events, and
               \* watchdogs that bite a connection which is only slow

ASSUME ClientAssumption == {MaxStarts, MaxWakes} \subseteq Nat

VARIABLES
  socket,        \* this.socket
  attached,      \* the sockets whose handlers are set
  opened,        \* the sockets whose readyState is OPEN
  status,
  hasConnected,
  stopped,
  retryTimer,    \* whether a reconnection is scheduled
  timers,        \* whether the ping timer and the watchdog run
  shown,         \* the version of the snapshot shown, or None
  starts, wakes  \* counted against their bounds

client == <<socket, attached, opened, status, hasConnected, stopped, retryTimer,
            timers, shown, starts, wakes>>

ClientTypeOK ==
  /\ socket \in Socks \cup {None}
  /\ attached \subseteq Socks /\ opened \subseteq Socks
  /\ status \in {"connecting", "open", "reconnecting"}
  /\ {hasConnected, stopped, retryTimer, timers} \subseteq BOOLEAN
  /\ shown \in {None} \cup Versions
  /\ {starts, wakes} \subseteq Nat

ClientInit ==
  /\ socket = None /\ attached = {} /\ opened = {}
  /\ status = "connecting" /\ hasConnected = FALSE /\ stopped = TRUE
  /\ retryTimer = FALSE /\ timers = FALSE /\ shown = None
  /\ starts = 0 /\ wakes = 0

(* A socket that is over and has no event left to fire. *)
Unused == {s \in Socks : path[s] = "free" /\ chan[s] = <<>>}

(* connect: a new socket becomes the current one; the last one, if there   *)
(* still is one, keeps its handlers.                                       *)
Connects ==
  /\ Unused # {}
  /\ socket' = CHOOSE s \in Unused : TRUE
  /\ attached' = attached \cup {socket'}
  /\ opened' = opened \ {socket'}
  /\ path' = [path EXCEPT ![socket'] = "dialling"]
  /\ UNCHANGED chan

-----------------------------------------------------------------------------
(* What the page closes the daemon has still to notice, if it is there.    *)
Shut(p) == IF p \in {"free", "dialling"} THEN "free" ELSE "shut"

(* Mutant: a socket that is torn down keeps its handlers. *)
HandlersKept == attached
Detached == attached \ {socket}

(* teardownSocket, on the sockets and their channels *)
TearsDown(paths, chans) ==
  /\ timers' = FALSE
  /\ socket' = None
  /\ attached' = Detached
  /\ opened' = opened \ {socket}
  /\ path' = IF socket = None THEN paths ELSE [paths EXCEPT ![socket] = Shut(@)]
  /\ chan' = IF socket = None THEN chans ELSE [chans EXCEPT ![socket] = <<>>]

(* Mutant: only a connection that was once open is tried again. *)
RetriesIfOpened == retryTimer \/ hasConnected
Retries == TRUE

(* handleDrop, when not stopped *)
Drops(paths, chans) ==
  /\ TearsDown(paths, chans)
  /\ status' = IF hasConnected THEN "reconnecting" ELSE "connecting"
  /\ retryTimer' = Retries

(* Mutant: the watchdog is started by the first connection alone. *)
WatchesFirst == timers \/ ~hasConnected
Watches == TRUE

HandleOpen(s) ==
  /\ Head(chan[s]).kind = "open"
  /\ opened' = opened \cup {s}
  /\ hasConnected' = TRUE /\ status' = "open" /\ timers' = Watches
  /\ chan' = [chan EXCEPT ![s] = Tail(@)]
  /\ UNCHANGED <<path, socket, attached, stopped, retryTimer, shown, starts, wakes>>

HandleMessage(s) ==
  /\ Head(chan[s]).kind = "state"
  /\ shown' = Head(chan[s]).ver
  /\ chan' = [chan EXCEPT ![s] = Tail(@)]
  /\ UNCHANGED <<path, socket, attached, opened, status, hasConnected, stopped,
                 retryTimer, timers, starts, wakes>>

(* An error or a close of any socket with handlers, current or not. *)
HandleDrop(s) ==
  /\ Head(chan[s]).kind \in {"error", "close"}
  /\ LET chans == [chan EXCEPT ![s] = Tail(@)] IN
     IF stopped
     THEN /\ chan' = chans
          /\ UNCHANGED <<path, socket, attached, opened, status, retryTimer, timers>>
     ELSE Drops(path, chans)
  /\ UNCHANGED <<hasConnected, stopped, shown, starts, wakes>>

Dispatches(s) ==
  /\ s \in attached /\ chan[s] # <<>>
  /\ HandleOpen(s) \/ HandleMessage(s) \/ HandleDrop(s)
  /\ UNCHANGED <<net, cuts>>

-----------------------------------------------------------------------------
Start ==
  /\ stopped /\ starts < MaxStarts
  /\ starts' = starts + 1
  /\ stopped' = FALSE
  /\ Connects
  /\ UNCHANGED <<net, cuts, status, hasConnected, retryTimer, timers, shown, wakes>>

RetryFires ==
  /\ retryTimer /\ ~stopped
  /\ Connects
  /\ retryTimer' = FALSE
  /\ UNCHANGED <<net, cuts, status, hasConnected, stopped, timers, shown, starts, wakes>>

(* Nothing that is listened to can bring a message any more. *)
Silent == \A s \in attached : path[s] \notin {"up", "dialling"} /\ chan[s] = <<>>

(* checkStale finds the last message older than staleAfterMs: when all is  *)
(* silent, or after a pause of the page or of the daemon.                  *)
Stale ==
  /\ socket # None
  /\ \/ Silent /\ UNCHANGED wakes
     \/ /\ wakes < MaxWakes
        /\ wakes' = wakes + 1

Watchdog ==
  /\ timers /\ ~stopped /\ Stale
  /\ Drops(path, chan)
  /\ UNCHANGED <<net, cuts, hasConnected, stopped, shown, starts>>

(* A socket whose closing handshake has begun may read CLOSING already. *)
MayReadClosing == chan[socket] # <<>> /\ Head(chan[socket]).kind = "close"

(* resume: an open socket is left alone if it is not stale; any other one, *)
(* also one that is still connecting, is replaced.                         *)
Resume ==
  /\ ~stopped /\ wakes < MaxWakes
  /\ wakes' = wakes + 1
  /\ \/ /\ socket \in opened
        /\ IF Silent THEN Drops(path, chan)
           ELSE UNCHANGED <<path, chan, socket, attached, opened, status, retryTimer,
                            timers>>
     \/ /\ socket \in opened => MayReadClosing
        /\ Connects /\ retryTimer' = FALSE
        /\ UNCHANGED <<status, timers>>
  /\ UNCHANGED <<net, cuts, hasConnected, stopped, shown, starts>>

(* stop, when the view is left *)
Stop ==
  /\ ~stopped
  /\ stopped' = TRUE /\ retryTimer' = FALSE
  /\ TearsDown(path, chan)
  /\ UNCHANGED <<net, cuts, status, hasConnected, shown, starts, wakes>>
=============================================================================

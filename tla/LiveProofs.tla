----------------------------- MODULE LiveProofs -----------------------------
(***************************************************************************)
(* Proofs about Live: the page neither gives up nor trusts a connection    *)
(* that nothing watches, and the daemon registers each socket it greeted   *)
(* once, whatever the sockets, the page and the broadcasts do.             *)
(***************************************************************************)
EXTENDS Live, SequenceTheorems, WellFoundedInduction, TLAPS

(* Every new socket is one. *)
LEMMA ConnectsToOne == ASSUME Connects PROVE socket' \in Socks /\ socket' # None
<1>1. Unused # {} /\ socket' = CHOOSE s \in Unused : TRUE BY DEF Connects
<1>2. socket' \in Unused BY <1>1
<1>3. None \notin Socks BY SocketsAssumption
<1> QED BY <1>2, <1>3 DEF Unused

(* What a drop leaves behind: a scheduled reconnection and a status other  *)
(* than open.                                                              *)
LEMMA DropsRetries ==
  ASSUME NEW paths, NEW chans, Drops(paths, chans)
  PROVE  retryTimer' = TRUE /\ status' # "open"
BY DEF Drops, Retries

(* The page alone changes what the two invariants speak of. *)
Page == <<socket, attached, status, stopped, retryTimer, timers, starts>>

LEMMA OthersLeavePage == ASSUME NetStep \/ ServerStep PROVE UNCHANGED Page
BY DEF NetStep, ServerStep, client, Page

-----------------------------------------------------------------------------
LEMMA ClientKeepsTrying == ASSUME NeverGivesUp, ClientStep PROVE NeverGivesUp'
<1>1. ASSUME NEW s \in Socks, Dispatches(s) PROVE NeverGivesUp'
  <2>1. CASE HandleOpen(s) BY <2>1 DEF HandleOpen, NeverGivesUp
  <2>2. CASE HandleMessage(s) BY <2>2 DEF HandleMessage, NeverGivesUp
  <2>3. CASE HandleDrop(s)
    <3>1. CASE stopped BY <2>3, <3>1 DEF HandleDrop, NeverGivesUp
    <3>2. CASE ~stopped
      BY <2>3, <3>2, DropsRetries DEF HandleDrop, NeverGivesUp
    <3> QED BY <3>1, <3>2
  <2> QED BY <1>1, <2>1, <2>2, <2>3 DEF Dispatches
<1>2. CASE Start BY <1>2, ConnectsToOne DEF Start, NeverGivesUp
<1>3. CASE RetryFires BY <1>3, ConnectsToOne DEF RetryFires, NeverGivesUp
<1>4. CASE Watchdog BY <1>4, DropsRetries DEF Watchdog, NeverGivesUp
<1>5. CASE Resume
  BY <1>5, ConnectsToOne, DropsRetries DEF Resume, NeverGivesUp
<1>6. CASE Stop BY <1>6 DEF Stop, NeverGivesUp
<1> QED BY <1>1, <1>2, <1>3, <1>4, <1>5, <1>6 DEF ClientStep

(* For every number of sockets, queue, task and restart: a page that is    *)
(* not stopped holds a socket or has a reconnection scheduled.             *)
THEOREM TriesForEver == Spec => []NeverGivesUp
<1>1. Init => NeverGivesUp BY DEF Init, ClientInit, NeverGivesUp
<1>2. NeverGivesUp /\ [Next]_vars => NeverGivesUp'
  <2> SUFFICES ASSUME NeverGivesUp, [Next]_vars PROVE NeverGivesUp' OBVIOUS
  <2>1. CASE NetStep \/ ServerStep
    BY <2>1, OthersLeavePage DEF NeverGivesUp, Page
  <2>2. CASE ClientStep BY <2>2, ClientKeepsTrying
  <2>3. CASE UNCHANGED vars BY <2>3 DEF vars, client, NeverGivesUp
  <2> QED BY <2>1, <2>2, <2>3 DEF Next
<1> QED BY <1>1, <1>2, PTL DEF Spec

-----------------------------------------------------------------------------
(* useLiveState makes a connection for each mount of the page and starts   *)
(* it once: before that it is stopped and listens to no socket.            *)
OneStart == MaxStarts <= 1

Fresh == starts = 0 => stopped /\ attached = {} /\ status = "connecting"

WatchedInv == OpenIsWatched /\ Fresh /\ starts \in Nat

LEMMA ClientKeepsWatch ==
  ASSUME OneStart, WatchedInv, ClientStep
  PROVE  WatchedInv'
<1> USE DEF WatchedInv
<1>1. ASSUME NEW s \in Socks, Dispatches(s) PROVE WatchedInv'
  <2>1. CASE HandleOpen(s)
    <3>1. starts # 0 BY <1>1 DEF Dispatches, Fresh
    <3> QED BY <2>1, <3>1 DEF HandleOpen, Watches, OpenIsWatched, Fresh
  <2>2. CASE HandleMessage(s)
    BY <2>2 DEF HandleMessage, OpenIsWatched, Fresh
  <2>3. CASE HandleDrop(s)
    <3>1. CASE stopped BY <2>3, <3>1 DEF HandleDrop, OpenIsWatched, Fresh
    <3>2. CASE ~stopped
      BY <2>3, <3>2, DropsRetries DEF HandleDrop, OpenIsWatched, Fresh
    <3> QED BY <3>1, <3>2
  <2> QED BY <1>1, <2>1, <2>2, <2>3 DEF Dispatches
<1>2. CASE Start
  <2>1. starts = 0 BY <1>2, ClientAssumption DEF Start, OneStart
  <2> QED BY <1>2, <2>1 DEF Start, OpenIsWatched, Fresh
<1>3. CASE RetryFires BY <1>3 DEF RetryFires, OpenIsWatched, Fresh
<1>4. CASE Watchdog
  BY <1>4, DropsRetries DEF Watchdog, OpenIsWatched, Fresh
<1>5. CASE Resume
  <2>1. UNCHANGED <<status, timers>> \/ status' # "open"
    BY <1>5, DropsRetries DEF Resume
  <2> QED BY <1>5, <2>1 DEF Resume, OpenIsWatched, Fresh
<1>6. CASE Stop BY <1>6 DEF Stop, TearsDown, OpenIsWatched, Fresh
<1> QED BY <1>1, <1>2, <1>3, <1>4, <1>5, <1>6 DEF ClientStep

(* For every number of sockets, queue, task and restart: a page that says  *)
(* it is open has its watchdog running.                                    *)
THEOREM OpenPageIsWatched == ASSUME OneStart PROVE Spec => []OpenIsWatched
<1>1. Init => WatchedInv
  BY DEF Init, ClientInit, WatchedInv, OpenIsWatched, Fresh
<1>2. WatchedInv /\ [Next]_vars => WatchedInv'
  <2> SUFFICES ASSUME WatchedInv, [Next]_vars PROVE WatchedInv' OBVIOUS
  <2>1. CASE NetStep \/ ServerStep
    BY <2>1, OthersLeavePage DEF WatchedInv, OpenIsWatched, Fresh, Page
  <2>2. CASE ClientStep BY <2>2, ClientKeepsWatch
  <2>3. CASE UNCHANGED vars
    BY <2>3 DEF vars, client, WatchedInv, OpenIsWatched, Fresh
  <2> QED BY <2>1, <2>2, <2>3 DEF Next
<1>3. WatchedInv => OpenIsWatched BY DEF WatchedInv
<1> QED BY <1>1, <1>2, <1>3, PTL DEF Spec

-----------------------------------------------------------------------------
(* Taking a socket out of the connections *)

(* A set of numbers that is not empty has a least one. *)
LEMMA Least ==
  ASSUME NEW S \in SUBSET Nat, S # {}
  PROVE  \E n \in S : \A m \in S : n <= m
<1>1. PICK n \in S : \A m \in S : ~ (<<m, n>> \in OpToRel(<, Nat))
  BY WFMin, NatLessThanWellFounded, Zenon
<1>2. \A m \in S : ~ (m < n)
  BY <1>1 DEF OpToRel
<1> QED BY <1>2

(* list.remove takes out one occurrence of what it is given. *)
LEMMA FirstRemoved ==
  ASSUME NEW S, NEW seq \in Seq(S), NEW s, \E i \in 1 .. Len(seq) : seq[i] = s
  PROVE  \E i \in 1 .. Len(seq) : seq[i] = s /\ RemoveFirst(seq, s) = RemoveAt(seq, i)
<1> DEFINE I == {i \in 1 .. Len(seq) : seq[i] = s}
<1>1. I \in SUBSET Nat /\ I # {}
  OBVIOUS
<1>2. PICK n \in I : \A m \in I : n <= m
  BY <1>1, Least
<1>3. Min(I) = n
  BY <1>2 DEF Min
<1>4. RemoveFirst(seq, s) = RemoveAt(seq, n)
  BY <1>2, <1>3 DEF RemoveFirst, SelectInSeq
<1> QED BY <1>2, <1>4

(* What lies behind the place taken out moves down by one. *)
LEMMA RemovedAt ==
  ASSUME NEW S, NEW seq \in Seq(S), NEW i \in 1 .. Len(seq)
  PROVE  /\ RemoveAt(seq, i) \in Seq(S)
         /\ Len(RemoveAt(seq, i)) = Len(seq) - 1
         /\ \A j \in 1 .. Len(seq) - 1 :
              RemoveAt(seq, i)[j] = IF j < i THEN seq[j] ELSE seq[j + 1]
<1> DEFINE a == SubSeq(seq, 1, i - 1)
           b == SubSeq(seq, i + 1, Len(seq))
<1>0. i \in Nat /\ i >= 1 /\ i <= Len(seq) /\ Len(seq) \in Nat
  OBVIOUS
<1>1. a \in Seq(S) /\ Len(a) = i - 1 /\ \A j \in 1 .. Len(a) : a[j] = seq[j]
  BY <1>0
<1>2. b \in Seq(S) /\ Len(b) = Len(seq) - i /\ \A j \in 1 .. Len(b) : b[j] = seq[i + j]
  BY <1>0
<1>3. RemoveAt(seq, i) = a \o b
  BY DEF RemoveAt
<1> HIDE DEF a, b
<1>4. /\ a \o b \in Seq(S) /\ Len(a \o b) = Len(a) + Len(b)
      /\ \A j \in 1 .. Len(a) + Len(b) :
           (a \o b)[j] = IF j <= Len(a) THEN a[j] ELSE b[j - Len(a)]
  BY <1>1, <1>2, ConcatProperties
<1>5. ASSUME NEW j \in 1 .. Len(seq) - 1
      PROVE  (a \o b)[j] = IF j < i THEN seq[j] ELSE seq[j + 1]
  <2>1. CASE j < i
    BY <1>0, <1>1, <1>2, <1>4, <2>1
  <2>2. CASE ~(j < i)
    <3>1. j - Len(a) \in 1 .. Len(b) /\ i + (j - Len(a)) = j + 1
      BY <1>0, <1>1, <1>2, <2>2
    <3>2. (a \o b)[j] = b[j - Len(a)]
      BY <1>0, <1>1, <1>2, <1>4, <2>2
    <3> QED BY <1>2, <2>2, <3>1, <3>2
  <2> QED BY <2>1, <2>2
<1>6. Len(a \o b) = Len(seq) - 1
  BY <1>0, <1>1, <1>2, <1>4
<1> QED BY <1>3, <1>4, <1>5, <1>6

(* Without a socket the connections are the others, each as often as       *)
(* before.                                                                 *)
LEMMA WithoutKeeps ==
  ASSUME NEW seq \in Seq(Socks), NEW s
  PROVE  /\ Without(seq, s) \in Seq(Socks)
         /\ Range(Without(seq, s)) \subseteq Range(seq)
         /\ IsInjective(seq) => /\ IsInjective(Without(seq, s))
                                /\ s \notin Range(Without(seq, s))
<1>1. CASE ~ \E i \in 1 .. Len(seq) : seq[i] = s
  BY <1>1 DEF Without, RemoveFirst, Range
<1>2. CASE \E i \in 1 .. Len(seq) : seq[i] = s
  <2>1. PICK i \in 1 .. Len(seq) : seq[i] = s /\ Without(seq, s) = RemoveAt(seq, i)
    BY <1>2, FirstRemoved DEF Without
  <2> DEFINE w == Without(seq, s)
             from(j) == IF j < i THEN j ELSE j + 1
  <2>2. /\ w \in Seq(Socks) /\ DOMAIN w = 1 .. Len(seq) - 1
        /\ \A j \in DOMAIN w : w[j] = seq[from(j)]
    <3>1. i \in Nat /\ i >= 1 /\ i <= Len(seq) /\ Len(seq) \in Nat
      OBVIOUS
    <3>2. /\ w \in Seq(Socks) /\ Len(w) = Len(seq) - 1
          /\ \A j \in 1 .. Len(seq) - 1 :
               w[j] = IF j < i THEN seq[j] ELSE seq[j + 1]
      BY <2>1, RemovedAt
    <3>3. DOMAIN w = 1 .. Len(seq) - 1
      BY <3>1, <3>2
    <3> QED BY <3>2, <3>3
  <2>3. /\ \A j \in DOMAIN w : from(j) \in DOMAIN seq /\ from(j) # i
        /\ \A j, k \in DOMAIN w : from(j) = from(k) => j = k
    BY <2>2
  <2> HIDE DEF w, from
  <2>4. w \in Seq(Socks) /\ Range(w) \subseteq Range(seq)
    BY <2>2, <2>3 DEF Range
  <2>5. ASSUME IsInjective(seq) PROVE IsInjective(w) /\ s \notin Range(w)
    BY <2>1, <2>2, <2>3, <2>5 DEF IsInjective, Range
  <2> QED BY <2>4, <2>5 DEF w
<1> QED BY <1>1, <1>2

-----------------------------------------------------------------------------
(* Registrations *)

(* A socket that is free or dialled has no endpoint: a connection is       *)
(* greeted once, and registered once after that.                           *)
Unanswered ==
  \A s \in Socks : path[s] \in {"free", "dialling"} => endpoint[s] = "none"

RegisteredInv ==
  /\ path \in [Socks -> {"free", "dialling", "up", "cut", "shut"}]
  /\ conns \in Seq(Socks)
  /\ endpoint \in [Socks -> {"none", "greeted", "registered"}]
  /\ Unanswered
  /\ RegisteredOnce

(* The network answers nobody. *)
LEMMA NetRegisters ==
  ASSUME RegisteredInv, NetStep
  PROVE  RegisteredInv'
<1> USE DEF RegisteredInv, RegisteredOnce, Unanswered, NetStep, server
<1>1. CASE NetGoes
  BY <1>1 DEF NetGoes
<1>2. CASE NetReturns
  BY <1>2 DEF NetReturns
<1>3. ASSUME NEW s \in Socks, DialFails(s) PROVE RegisteredInv'
  BY <1>3 DEF DialFails
<1> QED BY <1>1, <1>2, <1>3

(* A new connection takes a free socket, and one that is torn down is free *)
(* only if it was not answered.                                            *)
LEMMA TornDown ==
  ASSUME RegisteredInv, NEW chans, TearsDown(path, chans)
  PROVE  /\ path' \in [Socks -> {"free", "dialling", "up", "cut", "shut"}]
         /\ \A s \in Socks : path'[s] \in {"free", "dialling"} => endpoint[s] = "none"
BY DEF RegisteredInv, Unanswered, TearsDown, Shut

LEMMA DialledFree ==
  ASSUME RegisteredInv, Connects
  PROVE  /\ path' \in [Socks -> {"free", "dialling", "up", "cut", "shut"}]
         /\ \A s \in Socks : path'[s] \in {"free", "dialling"} => endpoint[s] = "none"
<1>1. socket' \in Unused
  BY DEF Connects
<1>2. path[socket'] = "free" /\ path' = [path EXCEPT ![socket'] = "dialling"]
  BY <1>1 DEF Unused, Connects
<1> QED BY <1>1, <1>2 DEF RegisteredInv, Unanswered

LEMMA PageRegisters ==
  ASSUME RegisteredInv, ClientStep
  PROVE  RegisteredInv'
<1>1. UNCHANGED <<conns, endpoint>>
  BY DEF ClientStep, server
<1>2. /\ path' \in [Socks -> {"free", "dialling", "up", "cut", "shut"}]
      /\ \A s \in Socks : path'[s] \in {"free", "dialling"} => endpoint[s] = "none"
  <2>1. CASE UNCHANGED path
    BY <2>1 DEF RegisteredInv, Unanswered
  <2>2. CASE Connects
    BY <2>2, DialledFree
  <2>3. CASE \E chans : TearsDown(path, chans)
    BY <2>3, TornDown
  <2>4. ASSUME NEW s \in Socks, Dispatches(s)
        PROVE  UNCHANGED path \/ \E chans : TearsDown(path, chans)
    BY <2>4 DEF Dispatches, HandleOpen, HandleMessage, HandleDrop, Drops
  <2>5. CASE Start \/ RetryFires
    BY <2>5, <2>2 DEF Start, RetryFires
  <2>6. CASE Watchdog \/ Stop
    BY <2>6, <2>3 DEF Watchdog, Drops, Stop
  <2>7. CASE Resume
    BY <2>7, <2>1, <2>2, <2>3 DEF Resume, Drops
  <2> QED BY <2>1, <2>3, <2>4, <2>5, <2>6, <2>7 DEF ClientStep
<1> QED BY <1>1, <1>2 DEF RegisteredInv, RegisteredOnce, Unanswered

LEMMA ServerRegisters ==
  ASSUME RegisteredInv, ServerStep
  PROVE  RegisteredInv'
<1> USE DEF RegisteredInv, RegisteredOnce, Unanswered
<1>1. ASSUME NEW s \in Socks, Accepts(s) PROVE RegisteredInv'
  <2>1. s \notin Range(conns)
    BY <1>1 DEF Accepts
  <2> QED BY <1>1, <2>1 DEF Accepts
<1>2. ASSUME NEW s \in Socks, Registers(s) PROVE RegisteredInv'
  <2>1. conns' = Append(conns, s) /\ s \notin Range(conns)
    BY <1>2 DEF Registers, Registered
  <2>2. conns' \in Seq(Socks) /\ Range(conns') = Range(conns) \cup {s}
    BY <2>1 DEF Range
  <2>3. IsInjective(conns')
    BY <2>1 DEF IsInjective, Range
  <2>4. endpoint' = [endpoint EXCEPT ![s] = "registered"] /\ path' = path
    BY <1>2 DEF Registers, sockets
  <2> QED BY <1>2, <2>2, <2>3, <2>4 DEF Registers
<1>3. ASSUME NEW s \in Socks, Notices(s) PROVE RegisteredInv'
  <2>1. conns' = Without(conns, s) /\ endpoint' = [endpoint EXCEPT ![s] = "none"]
    BY <1>3 DEF Notices
  <2>2. path' = path \/ path' = [path EXCEPT ![s] = "free"]
    BY <1>3 DEF Notices
  <2> QED BY <2>1, <2>2, WithoutKeeps
<1>4. ASSUME NEW t \in tasks, Sends(t) PROVE RegisteredInv'
  <2>1. conns' = conns \/ conns' = Without(conns, Head(t.to))
    BY <1>4 DEF Sends
  <2>2. endpoint' = endpoint /\ path' = path
    BY <1>4 DEF Sends
  <2> QED BY <2>1, <2>2, WithoutKeeps
<1>5. CASE LoopChange \/ ThreadChange \/ CheckTick
  BY <1>5 DEF LoopChange, ThreadChange, CheckTick, sockets
<1>6. CASE ServerRestarts
  BY <1>6 DEF ServerRestarts, Range, IsInjective
<1> QED BY <1>1, <1>2, <1>3, <1>4, <1>5, <1>6 DEF ServerStep

(* For every number of sockets, broadcasts and restarts: the daemon has    *)
(* each greeted socket in its connections at most once, and no other.      *)
THEOREM GreetedAreRegisteredOnce == Spec => []RegisteredOnce
<1>1. Init => RegisteredInv
  BY DEF Init, SocketsInit, ServerInit, RegisteredInv, RegisteredOnce, Unanswered,
         Range, IsInjective
<1>2. RegisteredInv /\ [Next]_vars => RegisteredInv'
  <2> SUFFICES ASSUME RegisteredInv, [Next]_vars PROVE RegisteredInv' OBVIOUS
  <2>1. CASE UNCHANGED vars
    BY <2>1 DEF vars, server, sockets, RegisteredInv, RegisteredOnce, Unanswered
  <2>2. CASE NetStep BY <2>2, NetRegisters
  <2>3. CASE ServerStep BY <2>3, ServerRegisters
  <2>4. CASE ClientStep BY <2>4, PageRegisters
  <2> QED BY <2>1, <2>2, <2>3, <2>4 DEF Next
<1>3. RegisteredInv => RegisteredOnce BY DEF RegisteredInv
<1> QED BY <1>1, <1>2, <1>3, PTL DEF Spec

-----------------------------------------------------------------------------
(* Types *)

(* A sequence that is not empty, without its head. *)
LEMMA Rests ==
  ASSUME NEW S, NEW seq \in Seq(S), seq # <<>>
  PROVE  /\ Head(seq) \in S /\ Tail(seq) \in Seq(S)
         /\ Len(seq) # 1 => Tail(seq) # <<>>
<1>1. /\ Head(seq) \in S /\ Tail(seq) \in Seq(S)
      /\ Len(Tail(seq)) = Len(seq) - 1
  BY HeadTailProperties
<1>2. ASSUME Tail(seq) = <<>> PROVE Len(seq) = 1
  <2>1. Len(Tail(seq)) = 0 BY <1>1, <1>2, EmptySeq
  <2>2. Len(seq) \in Nat BY LenProperties
  <2>3. \A n \in Nat : 0 = n - 1 => n = 1 OBVIOUS
  <2> QED BY <1>1, <2>1, <2>2, <2>3, Zenon
<1> QED BY <1>1, <1>2

(* A task has somebody to send to until its last send. *)
LEMMA RestOfTask == ASSUME NEW t \in Task PROVE Rest(t) \subseteq Task
<1>1. t.to \in Seq(Socks) /\ t.to # <<>> /\ t.ver \in Versions
  BY DEF Task
<1>2. CASE Len(t.to) # 1
  <2>1. Tail(t.to) \in Seq(Socks) /\ Tail(t.to) # <<>>
    BY <1>1, <1>2, Rests
  <2> QED BY <1>2, <2>1 DEF Rest, Task
<1>3. CASE Len(t.to) = 1
  BY <1>3 DEF Rest
<1> QED BY <1>2, <1>3

LEMMA BroadcastTypes ==
  ASSUME ServerTypeOK, NEW v \in Versions, Broadcasts(v)
  PROVE  tasks' \subseteq Task
BY DEF Broadcasts, ServerTypeOK, Task

(* The messages are events. *)
LEMMA EventTypes ==
  /\ \A kind \in {"open", "error", "close"} : Plain(kind) \in Event
  /\ \A v \in Versions : State(v) \in Event
  /\ Failure \in Seq(Event) /\ <<>> \in Seq(Event)
<1>1. \A kind \in {"open", "error", "close"} : Plain(kind) \in Event
  BY DEF Plain, Event
<1>2. \A v \in Versions : State(v) \in Event
  BY DEF State, Event
<1>3. Plain("error") \in Event /\ Plain("close") \in Event
  BY <1>1
<1> HIDE DEF Plain
<1>4. Failure \in Seq(Event)
  BY <1>3 DEF Failure
<1> QED BY <1>1, <1>2, <1>4

LEMMA NetTypes == ASSUME SocketsTypeOK, NetStep PROVE SocketsTypeOK'
<1>1. CASE NetGoes
  <2>1. PICK lost \in SUBSET Socks :
          /\ path' = [s \in Socks |-> IF s \notin lost THEN path[s]
                                  ELSE IF Opening(s) THEN "shut" ELSE "cut"]
          /\ chan' = [s \in Socks |-> IF s \notin lost THEN chan[s]
                                  ELSE IF Opening(s) THEN Failure ELSE <<>>]
    BY <1>1 DEF NetGoes
  <2>2. net' = FALSE /\ cuts' = cuts + 1
    BY <1>1 DEF NetGoes
  <2>3. path' \in [Socks -> {"free", "dialling", "up", "cut", "shut"}]
    BY <2>1 DEF SocketsTypeOK
  <2>4. chan' \in [Socks -> Seq(Event)]
    BY <2>1, EventTypes DEF SocketsTypeOK
  <2>5. cuts' \in Nat
    BY <2>2 DEF SocketsTypeOK
  <2>6. net' \in BOOLEAN
    BY <2>2
  <2> QED BY <2>3, <2>4, <2>5, <2>6 DEF SocketsTypeOK
<1>2. CASE NetReturns
  BY <1>2 DEF NetReturns, SocketsTypeOK
<1>3. ASSUME NEW s \in Socks, DialFails(s) PROVE SocketsTypeOK'
  BY <1>3, EventTypes DEF DialFails, SocketsTypeOK
<1> QED BY <1>1, <1>2, <1>3 DEF NetStep

(* An event that is not the last of its socket leaves events behind. *)
LEMMA EventTaken ==
  ASSUME SocketsTypeOK, NEW s \in Socks, chan[s] # <<>>
  PROVE  /\ Head(chan[s]) \in Event
         /\ [chan EXCEPT ![s] = Tail(@)] \in [Socks -> Seq(Event)]
BY Rests DEF SocketsTypeOK

LEMMA EventAdded ==
  ASSUME SocketsTypeOK, NEW s \in Socks, NEW e \in Event
  PROVE  Append(chan[s], e) \in Seq(Event)
BY DEF SocketsTypeOK

LEMMA ServerTypes ==
  ASSUME SocketsTypeOK, ServerTypeOK, ServerStep
  PROVE  SocketsTypeOK' /\ ServerTypeOK'
<1> USE DEF SocketsTypeOK, ServerTypeOK
<1>0. version \in Versions /\ (version < MaxVersion => version + 1 \in Versions)
  BY SocketsAssumption DEF Versions
<1>1. ASSUME NEW s \in Socks, Accepts(s) PROVE SocketsTypeOK' /\ ServerTypeOK'
  <2>1. Plain("open") \in Event /\ State(version) \in Event
    BY EventTypes, <1>0
  <2>2. <<Plain("open"), State(version)>> \in Seq(Event)
    BY <2>1
  <2> QED BY <1>1, <2>2 DEF Accepts
<1>2. ASSUME NEW s \in Socks, Registers(s) PROVE SocketsTypeOK' /\ ServerTypeOK'
  BY <1>2 DEF Registers, Registered, sockets
<1>3. ASSUME NEW s \in Socks, Notices(s) PROVE SocketsTypeOK' /\ ServerTypeOK'
  BY <1>3, WithoutKeeps DEF Notices
<1>4. ASSUME NEW t \in tasks, Sends(t) PROVE SocketsTypeOK' /\ ServerTypeOK'
  <2>1. t \in Task /\ tasks' \subseteq Task
    BY <1>4, RestOfTask DEF Sends
  <2>2. Head(t.to) \in Socks /\ t.ver \in Versions
    BY <2>1, Rests DEF Task
  <2>3. Append(chan[Head(t.to)], State(t.ver)) \in Seq(Event)
    BY <2>2, EventTypes, EventAdded
  <2>4. /\ conns' = conns \/ conns' = Without(conns, Head(t.to))
        /\ \/ chan' = chan
           \/ chan' = [chan EXCEPT ![Head(t.to)] = Append(@, State(t.ver))]
    BY <1>4 DEF Sends
  <2>5. conns' \in Seq(Socks)
    BY <2>4, WithoutKeeps
  <2>6. chan' \in [Socks -> Seq(Event)]
    BY <2>2, <2>3, <2>4
  <2>7. UNCHANGED <<path, net, cuts, version, endpoint, restarts>>
    BY <1>4 DEF Sends
  <2> QED BY <2>1, <2>5, <2>6, <2>7
<1>5. CASE LoopChange
  BY <1>0, <1>5, BroadcastTypes DEF LoopChange, sockets
<1>6. CASE ThreadChange
  BY <1>0, <1>6 DEF ThreadChange, sockets
<1>7. CASE CheckTick
  BY <1>0, <1>7, BroadcastTypes DEF CheckTick, sockets
<1>8. CASE ServerRestarts
  <2>1. \A s \in Socks : Append(chan[s], Plain("close")) \in Seq(Event)
    BY EventTypes, EventAdded
  <2> QED BY <1>8, <2>1 DEF ServerRestarts
<1> QED BY <1>1, <1>2, <1>3, <1>4, <1>5, <1>6, <1>7, <1>8 DEF ServerStep

-----------------------------------------------------------------------------
PathTypes == path' \in [Socks -> {"free", "dialling", "up", "cut", "shut"}]
ChanTypes == chan' \in [Socks -> Seq(Event)]

LEMMA ConnectTypes ==
  ASSUME SocketsTypeOK, ClientTypeOK, Connects
  PROVE  /\ PathTypes /\ ChanTypes /\ socket' \in Socks
         /\ attached' \subseteq Socks /\ opened' \subseteq Socks
BY ConnectsToOne DEF Connects, SocketsTypeOK, ClientTypeOK, PathTypes, ChanTypes

LEMMA TearDownTypes ==
  ASSUME SocketsTypeOK, ClientTypeOK, NEW chans \in [Socks -> Seq(Event)],
         TearsDown(path, chans)
  PROVE  /\ PathTypes /\ ChanTypes /\ socket' = None /\ timers' \in BOOLEAN
         /\ attached' \subseteq Socks /\ opened' \subseteq Socks
<1>1. /\ path' = IF socket = None THEN path ELSE [path EXCEPT ![socket] = Shut(@)]
      /\ chan' = IF socket = None THEN chans ELSE [chans EXCEPT ![socket] = <<>>]
  BY DEF TearsDown
<1>2. \A p \in {"free", "dialling", "up", "cut", "shut"} : Shut(p) \in {"free", "shut"}
  BY DEF Shut
<1>3. PathTypes
  BY <1>1, <1>2 DEF PathTypes, SocketsTypeOK, ClientTypeOK
<1>4. ChanTypes
  BY <1>1, EventTypes DEF ChanTypes, ClientTypeOK
<1> QED BY <1>3, <1>4 DEF TearsDown, Detached, ClientTypeOK

LEMMA DropTypes ==
  ASSUME SocketsTypeOK, ClientTypeOK, NEW chans \in [Socks -> Seq(Event)],
         Drops(path, chans)
  PROVE  /\ PathTypes /\ ChanTypes /\ socket' = None /\ timers' \in BOOLEAN
         /\ attached' \subseteq Socks /\ opened' \subseteq Socks
         /\ status' \in {"connecting", "reconnecting"} /\ retryTimer' \in BOOLEAN
<1>1. TearsDown(path, chans)
  BY DEF Drops
<1> QED BY <1>1, TearDownTypes DEF Drops, Retries

LEMMA ClientTypes ==
  ASSUME SocketsTypeOK, ClientTypeOK, ClientStep
  PROVE  SocketsTypeOK' /\ ClientTypeOK'
<1> DEFINE Typed == SocketsTypeOK' /\ ClientTypeOK'
<1>0. chan \in [Socks -> Seq(Event)]
  BY DEF SocketsTypeOK
<1>1. ASSUME NEW s \in Socks, Dispatches(s) PROVE Typed
  <2>1. /\ chan[s] # <<>> /\ UNCHANGED <<net, cuts>>
        /\ Head(chan[s]) \in Event
        /\ [chan EXCEPT ![s] = Tail(@)] \in [Socks -> Seq(Event)]
    BY <1>1, EventTaken DEF Dispatches
  <2>2. CASE HandleOpen(s)
    BY <2>1, <2>2 DEF HandleOpen, Watches, SocketsTypeOK, ClientTypeOK
  <2>3. CASE HandleMessage(s)
    <3>1. Head(chan[s]).ver \in Versions
      BY <2>1, <2>3 DEF HandleMessage, Event
    <3> QED BY <2>1, <2>3, <3>1 DEF HandleMessage, SocketsTypeOK, ClientTypeOK
  <2>4. CASE HandleDrop(s)
    <3> DEFINE chans == [chan EXCEPT ![s] = Tail(@)]
    <3>1. CASE stopped
      BY <2>1, <2>4, <3>1 DEF HandleDrop, SocketsTypeOK, ClientTypeOK
    <3>2. CASE ~stopped
      <4>1. Drops(path, chans) /\ UNCHANGED <<hasConnected, stopped, shown, starts, wakes>>
        BY <2>4, <3>2 DEF HandleDrop
      <4>2. chans \in [Socks -> Seq(Event)]
        BY <2>1
      <4> HIDE DEF chans
      <4> QED BY <2>1, <4>1, <4>2, DropTypes
              DEF PathTypes, ChanTypes, SocketsTypeOK, ClientTypeOK
    <3> QED BY <3>1, <3>2
  <2> QED BY <1>1, <2>2, <2>3, <2>4 DEF Dispatches
<1>2. CASE Start
  <2>1. starts' \in Nat /\ wakes' \in Nat
    BY <1>2 DEF Start, ClientTypeOK
  <2> QED BY <1>2, <2>1, ConnectTypes
          DEF Start, PathTypes, ChanTypes, SocketsTypeOK, ClientTypeOK
<1>3. CASE RetryFires
  BY <1>3, ConnectTypes DEF RetryFires, PathTypes, ChanTypes, SocketsTypeOK, ClientTypeOK
<1>4. CASE Watchdog
  <2>1. wakes' \in Nat
    BY <1>4 DEF Watchdog, Stale, ClientTypeOK
  <2> QED BY <1>0, <1>4, <2>1, DropTypes
          DEF Watchdog, PathTypes, ChanTypes, SocketsTypeOK, ClientTypeOK
<1>5. CASE Resume
  <2>1. wakes' \in Nat /\ UNCHANGED <<net, cuts, hasConnected, stopped, shown, starts>>
    BY <1>5 DEF Resume, ClientTypeOK
  <2>2. CASE Drops(path, chan)
    BY <1>0, <2>1, <2>2, DropTypes
       DEF PathTypes, ChanTypes, SocketsTypeOK, ClientTypeOK
  <2>3. CASE Connects /\ retryTimer' = FALSE /\ UNCHANGED <<status, timers>>
    BY <2>1, <2>3, ConnectTypes
       DEF PathTypes, ChanTypes, SocketsTypeOK, ClientTypeOK
  <2>4. CASE UNCHANGED <<path, chan, socket, attached, opened, status, retryTimer, timers>>
    BY <2>1, <2>4 DEF SocketsTypeOK, ClientTypeOK
  <2> QED BY <1>5, <2>2, <2>3, <2>4 DEF Resume
<1>6. CASE Stop
  BY <1>0, <1>6, TearDownTypes DEF Stop, PathTypes, ChanTypes, SocketsTypeOK, ClientTypeOK
<1> QED BY <1>1, <1>2, <1>3, <1>4, <1>5, <1>6 DEF ClientStep

(* For every number of sockets, queue, task and restart: each variable of  *)
(* the daemon, the page and the network between them keeps its type.       *)
THEOREM TypeCorrect == Spec => []TypeOK
<1>1. Init => TypeOK
  <2> SUFFICES ASSUME Init PROVE TypeOK OBVIOUS
  <2>1. 0 \in Versions
    BY SocketsAssumption DEF Versions
  <2>2. SocketsTypeOK
    BY EventTypes DEF Init, SocketsInit, SocketsTypeOK
  <2>3. ServerTypeOK
    BY <2>1 DEF Init, ServerInit, ServerTypeOK
  <2>4. ClientTypeOK
    <3>1. starts \in Nat /\ wakes \in Nat
      BY DEF Init, ClientInit
    <3> QED BY <3>1 DEF Init, ClientInit, ClientTypeOK
  <2> QED BY <2>2, <2>3, <2>4 DEF TypeOK
<1>2. TypeOK /\ [Next]_vars => TypeOK'
  <2> SUFFICES ASSUME TypeOK, [Next]_vars PROVE TypeOK' OBVIOUS
  <2>1. CASE NetStep
    <3>1. ServerTypeOK' /\ ClientTypeOK'
      BY <2>1 DEF NetStep, server, client, TypeOK, ServerTypeOK, ClientTypeOK
    <3> QED BY <2>1, <3>1, NetTypes DEF TypeOK
  <2>2. CASE ServerStep
    <3>1. ClientTypeOK'
      BY <2>2 DEF ServerStep, client, TypeOK, ClientTypeOK
    <3> QED BY <2>2, <3>1, ServerTypes DEF TypeOK
  <2>3. CASE ClientStep
    <3>1. ServerTypeOK'
      BY <2>3 DEF ClientStep, server, TypeOK, ServerTypeOK
    <3> QED BY <2>3, <3>1, ClientTypes DEF TypeOK
  <2>4. CASE UNCHANGED vars
    BY <2>4 DEF vars, sockets, server, client, TypeOK, SocketsTypeOK, ServerTypeOK,
            ClientTypeOK
  <2> QED BY <2>1, <2>2, <2>3, <2>4 DEF Next
<1> QED BY <1>1, <1>2, PTL DEF Spec
=============================================================================

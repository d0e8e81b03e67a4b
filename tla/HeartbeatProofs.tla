--------------------------- MODULE HeartbeatProofs --------------------------
(***************************************************************************)
(* Proofs about Heartbeat: type correctness, and what a settings request   *)
(* and the pings around it keep when one such request is served at a time. *)
(***************************************************************************)
EXTENDS Heartbeat, TLAPS

SetterState == [pc : {"idle", "read", "assigned", "dumped", "saved"},
                seen : Settings, new : Settings, dump : Settings]

(* A step of a settings request leaves the others alone and keeps shape.   *)
LEMMA GoesTypes ==
  ASSUME NEW s \in Setters, NEW pc \in {"idle", "read", "assigned", "dumped", "saved"},
         NEW rest \in SetterState, setter \in [Setters -> SetterState],
         Goes(s, pc, rest)
  PROVE  /\ setter' \in [Setters -> SetterState]
         /\ setter'[s] = [rest EXCEPT !.pc = pc]
         /\ \A t \in Setters : t # s => setter'[t] = setter[t]
<1>1. [rest EXCEPT !.pc = pc] \in SetterState
  BY DEF SetterState
<1> QED BY <1>1 DEF Goes

LEMMA RestTypes == ASSUME NEW cur \in Settings PROVE AtRest(cur) \in SetterState
BY DEF AtRest, SetterState

(* A request sets fields of a settings record, so that the merge is one.   *)
LEMMA MergedTypes ==
  ASSUME NEW fields \in Requested, settings \in Settings
  PROVE  Merged(fields) \in Settings
<1>1. \A f \in DOMAIN fields : f = "url" => fields[f] \in Urls \cup {None}
  BY DEF Requested, Settings
<1>2. \A f \in DOMAIN fields : f = "every" => fields[f] \in Intervals
  BY DEF Requested, Settings
<1>3. settings.url \in Urls \cup {None} /\ settings.every \in Intervals
  BY DEF Settings
<1>4. /\ (IF "url" \in DOMAIN fields THEN fields["url"] ELSE settings["url"])
           \in Urls \cup {None}
      /\ (IF "every" \in DOMAIN fields THEN fields["every"] ELSE settings["every"])
           \in Intervals
  BY <1>1, <1>2, <1>3
<1> QED BY <1>4 DEF Merged, Settings

-----------------------------------------------------------------------------
(* Every step keeps the types. *)
LEMMA BeginsTypes ==
  ASSUME TypeOK, NEW r \in Runs, NEW force \in BOOLEAN, Begins(r, force)
  PROVE  /\ status' \in Status \cup {None} /\ late' \in BOOLEAN
         /\ pinging' \in [Runs -> Urls \cup {None}]
<1>1. settings.url \in Urls /\ status \in Status \cup {None} /\ late \in BOOLEAN
      /\ pinging \in [Runs -> Urls \cup {None}]
  BY DEF Begins, TypeOK, Settings
<1>2. CASE Pings(force)
  BY <1>1, <1>2 DEF Begins
<1>3. CASE ~Pings(force)
  <2>1. status' = Skipped(settings.url) /\ late' = FALSE /\ pinging' = pinging
    BY <1>3 DEF Begins
  <2>2. Skipped(settings.url) \in Status
    BY <1>1 DEF Skipped, Status
  <2> QED BY <1>1, <2>1, <2>2
<1> QED BY <1>2, <1>3

LEMMA SetTypes ==
  ASSUME TypeOK, NEW s \in Setters, Set(s)
  PROVE  /\ settings' \in Settings /\ file' \in Settings
         /\ status' \in Status \cup {None} /\ late' \in BOOLEAN
         /\ setter' \in [Setters -> SetterState]
         /\ spent' \in [requests : Nat, crashes : Nat]
         /\ UNCHANGED <<online, pinging>>
<1> DEFINE l == setter[s]
<1>1. /\ setter \in [Setters -> SetterState] /\ l \in SetterState
      /\ settings \in Settings /\ file \in Settings
      /\ status \in Status \cup {None} /\ late \in BOOLEAN
      /\ spent \in [requests : Nat, crashes : Nat]
  BY DEF TypeOK, SetterState
<1>2. ASSUME NEW fields \in Requested, Reads(s, fields) PROVE
        /\ setter' \in [Setters -> SetterState]
        /\ spent' \in [requests : Nat, crashes : Nat]
        /\ UNCHANGED <<settings, file, status, late, online, pinging>>
  <2>1. Merged(fields) \in Settings BY <1>1, MergedTypes
  <2>2. [AtRest(settings) EXCEPT !.new = Merged(fields)] \in SetterState
    BY <1>1, <2>1, RestTypes DEF SetterState
  <2>3. setter' \in [Setters -> SetterState]
    BY <1>1, <1>2, <2>2, GoesTypes DEF Reads
  <2> QED BY <1>1, <1>2, <2>3 DEF Reads
<1>3. ASSUME Assigns(s) PROVE settings' \in Settings /\ setter' \in [Setters -> SetterState]
                              /\ UNCHANGED <<file, status, late, spent, online, pinging>>
  <2>1. setter' \in [Setters -> SetterState] BY <1>1, <1>3, GoesTypes DEF Assigns
  <2> QED BY <1>1, <1>3, <2>1 DEF Assigns, SetterState
<1>4. ASSUME Dumps(s) PROVE setter' \in [Setters -> SetterState]
                     /\ UNCHANGED <<settings, file, status, late, spent, online, pinging>>
  <2>1. [l EXCEPT !.dump = Dumped(s)] \in SetterState
    BY <1>1 DEF Dumped, SetterState
  <2>2. setter' \in [Setters -> SetterState]
    BY <1>1, <1>4, <2>1, GoesTypes DEF Dumps
  <2> QED BY <1>4, <2>2 DEF Dumps
<1>5. ASSUME Replaces(s) PROVE file' \in Settings /\ setter' \in [Setters -> SetterState]
                     /\ UNCHANGED <<settings, status, late, spent, online, pinging>>
  <2>1. setter' \in [Setters -> SetterState] BY <1>1, <1>5, GoesTypes DEF Replaces
  <2> QED BY <1>1, <1>5, <2>1 DEF Replaces, SetterState
<1>6. ASSUME Finishes(s) PROVE
        /\ setter' \in [Setters -> SetterState]
        /\ status' \in Status \cup {None} /\ late' \in BOOLEAN
        /\ UNCHANGED <<settings, file, spent, online, pinging>>
  <2>1. AtRest(l.new) \in SetterState BY <1>1, RestTypes DEF SetterState
  <2>2. setter' \in [Setters -> SetterState]
    BY <1>1, <1>6, <2>1, GoesTypes DEF Finishes
  <2> QED BY <1>1, <1>6, <2>2 DEF Finishes
<1> QED BY <1>1, <1>2, <1>3, <1>4, <1>5, <1>6 DEF Set

LEMMA NextTypes == ASSUME TypeOK, [Next]_vars PROVE TypeOK'
<1>1. CASE Tick
  <2>1. Job \in Runs /\ Begins(Job, FALSE) BY <1>1 DEF Tick, Runs
  <2> QED BY <1>1, <2>1, BeginsTypes DEF TypeOK, Tick, Begins
<1>2. ASSUME NEW p \in Pingers, PingNow(p) PROVE TypeOK'
  <2>1. p \in Runs /\ Begins(p, TRUE) BY <1>2 DEF PingNow, Runs
  <2>2. spent' \in [requests : Nat, crashes : Nat] BY <1>2 DEF PingNow, TypeOK
  <2> QED BY <1>2, <2>1, <2>2, BeginsTypes DEF TypeOK, PingNow, Begins
<1>3. ASSUME NEW r \in Runs, Ended(r) PROVE TypeOK'
  <2>1. pinging[r] \in Urls BY <1>3 DEF Ended, TypeOK
  <2>2. status' \in Status BY <1>3, <2>1 DEF Ended, Status
  <2>3. late' \in BOOLEAN /\ pinging' \in [Runs -> Urls \cup {None}]
    BY <1>3 DEF Ended, TypeOK
  <2> QED BY <1>3, <2>2, <2>3 DEF TypeOK, Ended
<1>4. ASSUME NEW s \in Setters, Set(s) PROVE TypeOK'
  BY <1>4, SetTypes DEF TypeOK, SetterState
<1>5. CASE LinkTurns
  BY <1>5 DEF TypeOK, LinkTurns
<1>6. CASE CrashAndRestart
  <2>1. setter' \in [Setters -> SetterState]
    <3>1. AtRest(file) \in SetterState BY RestTypes DEF TypeOK
    <3> QED BY <1>6, <3>1 DEF CrashAndRestart
  <2>2. spent' \in [requests : Nat, crashes : Nat] BY <1>6 DEF CrashAndRestart, TypeOK
  <2> QED BY <1>6, <2>1, <2>2 DEF TypeOK, CrashAndRestart, SetterState
<1>7. CASE UNCHANGED vars
  BY <1>7 DEF TypeOK, vars
<1> QED BY <1>1, <1>2, <1>3, <1>4, <1>5, <1>6, <1>7 DEF Next

LEMMA InitTypes == ASSUME Init PROVE TypeOK
<1>1. setter \in [Setters -> SetterState] BY RestTypes DEF Init
<1> QED BY <1>1 DEF Init, TypeOK, SetterState

(* For every number of URLs, requests and manual pings, every variable     *)
(* keeps its type.                                                         *)
THEOREM TypeCorrect == Spec => []TypeOK
<1>1. Init => TypeOK BY InitTypes
<1>2. TypeOK /\ [Next]_vars => TypeOK'
  BY NextTypes
<1> QED BY <1>1, <1>2, PTL DEF Spec

-----------------------------------------------------------------------------
(* One settings request at a time: what its progress says of the settings, *)
(* of the file and of the status.                                          *)
OneSetter == \A s, t \in Setters : s = t

Written == {"assigned", "dumped", "saved"}

(* What the request holds agrees with memory and, but for the time between *)
(* the assignment and the replacement, memory agrees with the file.        *)
RequestInv ==
  \A s \in Setters :
    /\ setter[s].pc \in {"idle", "read", "saved"} => file = settings
    /\ setter[s].pc = "read" => setter[s].seen = settings
    /\ setter[s].pc \in Written => setter[s].new = settings
    /\ setter[s].pc = "dumped" => setter[s].dump = settings

(* A status of another URL is late or waits for the request to clear it.   *)
StatusInv ==
  \/ status = None \/ late \/ status.of = settings.url
  \/ \E s \in Setters : setter[s].pc \in Written /\ UrlChanged(s)

(* With no request at all the settings never leave the file. *)
Unset == Setters = {} => file = settings

IInv == TypeOK /\ RequestInv /\ StatusInv /\ Unset

(* A ping, a link change and a stutter leave the request where it is.      *)
LEMMA QuietKeeps ==
  ASSUME IInv, UNCHANGED <<settings, file, setter>>,
         \/ status' = status /\ late' = late
         \/ status'.of = settings.url \/ late'
  PROVE  (RequestInv /\ StatusInv /\ Unset)'
<1>1. RequestInv' BY DEF IInv, RequestInv
<1>2. Unset' BY DEF IInv, Unset
<1>3. StatusInv' BY DEF IInv, StatusInv, UrlChanged
<1> QED BY <1>1, <1>2, <1>3

LEMMA BeginsInv ==
  ASSUME IInv, NEW r \in Runs, NEW force \in BOOLEAN, Begins(r, force)
  PROVE  (RequestInv /\ StatusInv /\ Unset)'
<1>1. UNCHANGED <<settings, file, setter>> BY DEF Begins
<1>2. \/ status' = status /\ late' = late
      \/ status'.of = settings.url \/ late'
  BY DEF Begins, Skipped
<1> QED BY <1>1, <1>2, QuietKeeps

LEMMA ReadsInv ==
  ASSUME IInv, OneSetter, NEW s \in Setters, NEW fields \in Requested, Reads(s, fields)
  PROVE  (RequestInv /\ StatusInv /\ Unset)'
<1> DEFINE r == [AtRest(settings) EXCEPT !.new = Merged(fields)]
<1>1. r \in SetterState /\ r.seen = settings
  <2>1. settings \in Settings /\ Merged(fields) \in Settings
    BY MergedTypes DEF IInv, TypeOK
  <2>2. AtRest(settings) \in SetterState /\ AtRest(settings).seen = settings
    BY <2>1, RestTypes DEF AtRest
  <2> QED BY <2>1, <2>2 DEF SetterState
<1>2. setter'[s] = [r EXCEPT !.pc = "read"]
  BY <1>1, GoesTypes DEF Reads, IInv, TypeOK, SetterState
<1>3. setter'[s].pc = "read" /\ setter'[s].seen = settings
  BY <1>1, <1>2 DEF SetterState
<1>4. setter[s].pc = "idle" /\ UNCHANGED <<settings, file, status, late>> BY DEF Reads
<1>5. RequestInv'
  BY <1>3, <1>4 DEF IInv, RequestInv, OneSetter, Written
<1>6. StatusInv'
  BY <1>4 DEF IInv, StatusInv, OneSetter, Written
<1> QED BY <1>5, <1>6 DEF Unset

LEMMA AssignsInv ==
  ASSUME IInv, OneSetter, NEW s \in Setters, Assigns(s)
  PROVE  (RequestInv /\ StatusInv /\ Unset)'
<1>1. setter[s] \in SetterState /\ setter \in [Setters -> SetterState]
  BY DEF IInv, TypeOK, SetterState
<1>2. setter'[s] = [setter[s] EXCEPT !.pc = "assigned"]
  BY <1>1, GoesTypes DEF Assigns
<1>3. /\ setter'[s].pc = "assigned" /\ setter'[s].new = settings'
      /\ setter'[s].new = setter[s].new /\ setter'[s].seen = setter[s].seen
  BY <1>1, <1>2 DEF SetterState, Assigns
<1>4. setter[s].seen = settings BY DEF IInv, RequestInv, Assigns
<1>5. RequestInv' BY <1>3 DEF RequestInv, OneSetter, Written
<1>6. UNCHANGED <<status, late>> /\ setter[s].pc = "read" BY DEF Assigns
<1>7. status = None \/ late \/ status.of = settings.url
  BY <1>6 DEF IInv, StatusInv, OneSetter, Written
<1>8. StatusInv'
  <2>1. CASE UrlChanged(s)
    BY <1>3, <2>1 DEF StatusInv, UrlChanged, Written
  <2>2. CASE ~UrlChanged(s)
    <3>1. settings'.url = settings.url BY <1>3, <1>4, <2>2 DEF UrlChanged
    <3> QED BY <1>6, <1>7, <3>1 DEF StatusInv
  <2> QED BY <2>1, <2>2
<1> QED BY <1>5, <1>8 DEF Unset

LEMMA SavesInv ==
  ASSUME IInv, OneSetter, NEW s \in Setters, Dumps(s) \/ Replaces(s)
  PROVE  (RequestInv /\ StatusInv /\ Unset)'
<1>1. setter[s] \in SetterState /\ setter \in [Setters -> SetterState] /\ settings \in Settings
  BY DEF IInv, TypeOK, SetterState
<1>2. UNCHANGED <<settings, status, late>> BY DEF Dumps, Replaces
<1>3. setter[s].pc \in Written /\ setter[s].new = settings
  BY DEF IInv, RequestInv, Dumps, Replaces, Written
<1>4. /\ setter'[s].new = setter[s].new /\ setter'[s].seen = setter[s].seen
      /\ \/ setter'[s].pc = "dumped" /\ setter'[s].dump = settings
         \/ setter'[s].pc = "saved" /\ file' = settings
  <2>1. CASE Dumps(s)
    <3>1. [setter[s] EXCEPT !.dump = settings] \in SetterState
      BY <1>1 DEF SetterState
    <3>2. setter'[s] = [[setter[s] EXCEPT !.dump = settings] EXCEPT !.pc = "dumped"]
      BY <1>1, <2>1, <3>1, GoesTypes DEF Dumps, Dumped
    <3> QED BY <1>1, <3>1, <3>2 DEF SetterState
  <2>2. CASE Replaces(s)
    <3>1. setter'[s] = [setter[s] EXCEPT !.pc = "saved"]
      BY <1>1, <2>2, GoesTypes DEF Replaces
    <3>2. file' = settings BY <2>2 DEF IInv, RequestInv, Replaces
    <3> QED BY <1>1, <3>1, <3>2 DEF SetterState
  <2> QED BY <2>1, <2>2
<1>5. setter'[s].pc \in Written BY <1>4 DEF Written
<1>6. RequestInv' BY <1>2, <1>3, <1>4 DEF RequestInv, OneSetter, Written
<1>7. StatusInv'
  BY <1>2, <1>4, <1>5 DEF IInv, StatusInv, OneSetter, UrlChanged
<1> QED BY <1>6, <1>7 DEF Unset

LEMMA FinishesInv ==
  ASSUME IInv, OneSetter, NEW s \in Setters, Finishes(s)
  PROVE  (RequestInv /\ StatusInv /\ Unset)'
<1>1. setter[s] \in SetterState /\ setter \in [Setters -> SetterState]
  BY DEF IInv, TypeOK, SetterState
<1>2. AtRest(setter[s].new) \in SetterState
  BY <1>1, RestTypes DEF SetterState
<1>3. setter'[s] = [AtRest(setter[s].new) EXCEPT !.pc = "idle"]
  BY <1>1, <1>2, GoesTypes DEF Finishes
<1>4. setter'[s].pc = "idle" BY <1>2, <1>3 DEF SetterState
<1>5. UNCHANGED <<settings, file>> /\ file = settings
  BY DEF IInv, RequestInv, Finishes
<1>6. RequestInv' BY <1>4, <1>5 DEF RequestInv, OneSetter, Written
<1>7. StatusInv'
  <2>1. CASE UrlChanged(s) BY <2>1 DEF Finishes, StatusInv
  <2>2. CASE ~UrlChanged(s)
    <3>1. UNCHANGED <<status, late>> BY <2>2 DEF Finishes
    <3>2. status = None \/ late \/ status.of = settings.url
      BY <2>2 DEF IInv, StatusInv, OneSetter
    <3> QED BY <1>5, <3>1, <3>2 DEF StatusInv
  <2> QED BY <2>1, <2>2
<1> QED BY <1>6, <1>7 DEF Unset

LEMMA CrashInv ==
  ASSUME IInv, CrashAndRestart PROVE (RequestInv /\ StatusInv /\ Unset)'
<1>1. settings' = file /\ file' = file /\ status' = None BY DEF CrashAndRestart
<1>2. \A s \in Setters : setter'[s] = AtRest(file) BY DEF CrashAndRestart
<1>3. \A s \in Setters : setter'[s].pc = "idle" BY <1>2 DEF AtRest
<1>4. RequestInv' BY <1>1, <1>3 DEF RequestInv, Written
<1> QED BY <1>1, <1>4 DEF StatusInv, Unset

LEMMA Inductive ==
  ASSUME OneSetter PROVE (Init => IInv) /\ (IInv /\ [Next]_vars => IInv')
<1>1. Init => IInv
  <2> SUFFICES ASSUME Init PROVE IInv OBVIOUS
  <2>1. TypeOK BY InitTypes
  <2>2. \A s \in Setters : setter[s].pc = "idle" BY DEF Init, AtRest
  <2>3. RequestInv /\ StatusInv /\ Unset
    BY <2>2 DEF Init, RequestInv, StatusInv, Unset, Written
  <2> QED BY <2>1, <2>3 DEF IInv
<1>2. ASSUME IInv, [Next]_vars PROVE IInv'
  <2>1. TypeOK' BY <1>2, NextTypes DEF IInv
  <2>2. (RequestInv /\ StatusInv /\ Unset)'
    <3>1. CASE Tick
      BY <1>2, <3>1, BeginsInv DEF Tick, Runs
    <3>2. ASSUME NEW p \in Pingers, PingNow(p) PROVE (RequestInv /\ StatusInv /\ Unset)'
      BY <1>2, <3>2, BeginsInv DEF PingNow, Runs
    <3>3. ASSUME NEW r \in Runs, Ended(r) PROVE (RequestInv /\ StatusInv /\ Unset)'
      <4>1. UNCHANGED <<settings, file, setter>> BY <3>3 DEF Ended
      <4>2. status'.of = pinging[r] BY <3>3 DEF Ended
      <4>3. pinging[r] # settings.url => late' BY <3>3, Zenon DEF Ended
      <4> QED BY <1>2, <4>1, <4>2, <4>3, QuietKeeps
    <3>4. ASSUME NEW s \in Setters, Set(s) PROVE (RequestInv /\ StatusInv /\ Unset)'
      BY <1>2, <3>4, ReadsInv, AssignsInv, SavesInv, FinishesInv DEF Set
    <3>5. CASE LinkTurns
      BY <1>2, <3>5, QuietKeeps DEF LinkTurns
    <3>6. CASE CrashAndRestart BY <1>2, <3>6, CrashInv
    <3>7. CASE UNCHANGED vars
      BY <1>2, <3>7, QuietKeeps DEF vars
    <3> QED BY <1>2, <3>1, <3>2, <3>3, <3>4, <3>5, <3>6, <3>7 DEF Next
  <2> QED BY <2>1, <2>2 DEF IInv
<1> QED BY <1>1, <1>2

(* With one settings request served at a time, however often it is killed, *)
(* the file holds the settings whenever none is in progress.               *)
THEOREM AnsweredIsDurable == ASSUME OneSetter PROVE Spec => []QuietIsDurable
<1>1. IInv => QuietIsDurable
  BY DEF IInv, QuietIsDurable, RequestInv, Unset
<1>2. Init => IInv BY Inductive
<1>3. IInv /\ [Next]_vars => IInv' BY Inductive
<1> QED BY <1>1, <1>2, <1>3, PTL DEF Spec

(* With one settings request served at a time the status is that of the    *)
(* configured URL, except for a ping on its way when the URL changed.      *)
THEOREM StatusFollowsUrl == ASSUME OneSetter PROVE Spec => []StatusIsOfUrl
<1>1. IInv => StatusIsOfUrl
  BY DEF IInv, StatusIsOfUrl, StatusInv, Written
<1>2. Init => IInv BY Inductive
<1>3. IInv /\ [Next]_vars => IInv' BY Inductive
<1> QED BY <1>1, <1>2, <1>3, PTL DEF Spec
=============================================================================

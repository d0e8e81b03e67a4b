----------------------------- MODULE Heartbeat ------------------------------
(***************************************************************************)
(* The heartbeat of tether_ddns and the settings it runs by: the job that  *)
(* pings the configured URL, the manual ping, the settings route with its  *)
(* save of the configuration, a crash anywhere and the restart after it.   *)
(*                                                                         *)
(* The settings route runs in a worker thread, so its statements           *)
(* interleave with the pings, which run on the loop between their awaits.  *)
(***************************************************************************)
EXTENDS Naturals

CONSTANTS
  Urls,         \* the heartbeat URLs
  Intervals,
  Setters,      \* the settings requests that may be in progress
  Pingers,      \* the manual pings that may be in progress
  Job,          \* the heartbeat job
  None,         \* no URL, no status
  MaxRequests,  \* bound: requests of either route
  MaxCrashes    \* bound: crashes

Runs == Pingers \cup {Job}
Settings == [url : Urls \cup {None}, every : Intervals]
(* of is a ghost: the URL that was pinged, or skipped. *)
Status == [of : Urls, ok : BOOLEAN, skipped : BOOLEAN]
(* The fields a request sets: one of the two, or both. *)
Requested == [{"url"} -> Urls \cup {None}] \cup [{"every"} -> Intervals] \cup Settings

ASSUME HeartbeatAssumption ==
  /\ Job \notin Pingers /\ None \notin Urls \cup Status
  /\ {MaxRequests, MaxCrashes} \subseteq Nat

VARIABLES
  settings,  \* AppConfig.settings
  file,      \* the settings in the configuration file
  status,    \* RuntimeState.heartbeat
  online,    \* RuntimeState.online
  pinging,   \* the URL that a run of HeartbeatService.run awaits, or None
  setter,    \* the progress of a settings request
  late,      \* ghost: the status was written by a ping of an earlier URL
  spent      \* requests and crashes counted against their bounds

vars == <<settings, file, status, online, pinging, setter, late, spent>>

AtRest(cur) == [pc |-> "idle", seen |-> cur, new |-> cur, dump |-> cur]

-----------------------------------------------------------------------------
(* HeartbeatService.run *)

(* Mutant: no ping is ever skipped. *)
PingsRegardless(force) == TRUE
Pings(force) == online \/ force

Skipped(url) == [of |-> url, ok |-> FALSE, skipped |-> TRUE]

Begins(r, force) ==
  /\ pinging[r] = None /\ settings.url # None
  /\ IF Pings(force)
     THEN pinging' = [pinging EXCEPT ![r] = settings.url] /\ UNCHANGED <<status, late>>
     ELSE status' = Skipped(settings.url) /\ late' = FALSE /\ UNCHANGED pinging
  /\ UNCHANGED <<settings, file, online, setter>>

(* A tick of the job; APScheduler skips it while the last run goes on.     *)
(* It may come at any time: a run-now tick is only an early one.           *)
Tick == Begins(Job, FALSE) /\ UNCHANGED spent

PingNow(p) ==
  /\ spent.requests < MaxRequests
  /\ Begins(p, TRUE)
  /\ spent' = [spent EXCEPT !.requests = @ + 1]

(* The ping is answered, fails or times out: either is recorded. *)
Ended(r) ==
  /\ pinging[r] # None
  /\ \E ok \in BOOLEAN :
       status' = [of |-> pinging[r], ok |-> ok, skipped |-> FALSE]
  /\ late' = (pinging[r] # settings.url)
  /\ pinging' = [pinging EXCEPT ![r] = None]
  /\ UNCHANGED <<settings, file, online, setter, spent>>

-----------------------------------------------------------------------------
(* put_settings *)

Goes(s, pc, rest) == setter' = [setter EXCEPT ![s] = [rest EXCEPT !.pc = pc]]

(* Mutant: the fields of the request replace the settings. *)
FieldsAlone(fields) == fields
Merged(fields) == [f \in {"url", "every"} |->
                    IF f \in DOMAIN fields THEN fields[f] ELSE settings[f]]

(* The stored settings are read and the fields of the request laid over.   *)
Reads(s, fields) ==
  /\ setter[s].pc = "idle" /\ spent.requests < MaxRequests
  /\ Goes(s, "read", [AtRest(settings) EXCEPT !.new = Merged(fields)])
  /\ spent' = [spent EXCEPT !.requests = @ + 1]
  /\ UNCHANGED <<settings, file, status, online, pinging, late>>

Assigns(s) ==
  /\ setter[s].pc = "read"
  /\ settings' = setter[s].new
  /\ Goes(s, "assigned", setter[s])
  /\ UNCHANGED <<file, status, online, pinging, late, spent>>

(* Mutant: what is saved is what the request had read. *)
DumpedAsSeen(s) == setter[s].seen
Dumped(s) == settings

(* ConfigStore.save dumps the settings to a temporary file... *)
Dumps(s) ==
  /\ setter[s].pc = "assigned"
  /\ Goes(s, "dumped", [setter[s] EXCEPT !.dump = Dumped(s)])
  /\ UNCHANGED <<settings, file, status, online, pinging, late, spent>>

(* ... which then replaces the real one. *)
Replaces(s) ==
  /\ setter[s].pc = "dumped"
  /\ file' = setter[s].dump
  /\ Goes(s, "saved", setter[s])
  /\ UNCHANGED <<settings, status, online, pinging, late, spent>>

(* Mutant: the comparison misses a URL that is cleared or set anew. *)
ChangedBetweenUrls(s) ==
  setter[s].new.url # setter[s].seen.url /\ setter[s].new.url # None
UrlChanged(s) == setter[s].new.url # setter[s].seen.url

(* The stale status is cleared and the job replaced; a run goes on. *)
Finishes(s) ==
  /\ setter[s].pc = "saved"
  /\ IF UrlChanged(s) THEN status' = None /\ late' = FALSE
     ELSE UNCHANGED <<status, late>>
  /\ Goes(s, "idle", AtRest(setter[s].new))
  /\ UNCHANGED <<settings, file, online, pinging, spent>>

-----------------------------------------------------------------------------
(* The link, and a crash *)

LinkTurns ==
  /\ online' = ~online
  /\ UNCHANGED <<settings, file, status, pinging, setter, late, spent>>

(* Heartbeat outcomes are not persisted; the link is, and may be old.      *)
CrashAndRestart ==
  /\ spent.crashes < MaxCrashes
  /\ settings' = file /\ status' = None /\ late' = FALSE
  /\ online' \in BOOLEAN
  /\ pinging' = [r \in Runs |-> None]
  /\ setter' = [s \in Setters |-> AtRest(file)]
  /\ spent' = [spent EXCEPT !.crashes = @ + 1]
  /\ UNCHANGED file

-----------------------------------------------------------------------------
Init ==
  /\ settings \in Settings /\ file = settings
  /\ status = None /\ late = FALSE
  /\ online \in BOOLEAN
  /\ pinging = [r \in Runs |-> None]
  /\ setter = [s \in Setters |-> AtRest(settings)]
  /\ spent = [requests |-> 0, crashes |-> 0]

Set(s) == \/ \E fields \in Requested : Reads(s, fields)
          \/ Assigns(s) \/ Dumps(s) \/ Replaces(s) \/ Finishes(s)

Next == \/ Tick \/ LinkTurns \/ CrashAndRestart
        \/ \E p \in Pingers : PingNow(p)
        \/ \E r \in Runs : Ended(r)
        \/ \E s \in Setters : Set(s)

Spec == Init /\ [][Next]_vars

(* The job ticks for ever, a ping times out after 10 s, a thread goes on.  *)
Fairness ==
  /\ WF_vars(Tick)
  /\ \A r \in Runs : WF_vars(Ended(r))
  /\ \A s \in Setters : WF_vars(Assigns(s)) /\ WF_vars(Dumps(s))
                        /\ WF_vars(Replaces(s)) /\ WF_vars(Finishes(s))

FairSpec == Spec /\ Fairness

-----------------------------------------------------------------------------
(* Properties *)

TypeOK ==
  /\ settings \in Settings /\ file \in Settings
  /\ status \in Status \cup {None}
  /\ online \in BOOLEAN /\ late \in BOOLEAN
  /\ pinging \in [Runs -> Urls \cup {None}]
  /\ setter \in [Setters -> [pc : {"idle", "read", "assigned", "dumped", "saved"},
                             seen : Settings, new : Settings, dump : Settings]]
  /\ spent \in [requests : Nat, crashes : Nat]

(* Once a settings request is answered its change survives a crash: what   *)
(* memory holds is what the file holds (api.py:420-421).                   *)
QuietIsDurable == (\A s \in Setters : setter[s].pc = "idle") => file = settings

(* The outcome shown is that of the configured URL, or a request is about  *)
(* to clear it; the one exception is a ping that was already on its way    *)
(* when the URL changed (api.py:419, 424-425).                             *)
StatusIsOfUrl ==
  \/ status = None \/ late \/ status.of = settings.url
  \/ \E s \in Setters : setter[s].pc \in {"assigned", "dumped", "saved"}

(* A URL that stays is pinged or skipped in the end, whatever pings of an  *)
(* earlier URL were still on their way: an outcome of it is shown for good *)
(* and, once the link stays as it is, the right one of the two             *)
(* (services/heartbeat.py:23-41).                                          *)
StatusSettles ==
  \A url \in Urls, up \in BOOLEAN :
    <>[](settings.url = url /\ online = up) =>
      <>[](status # None /\ status.of = url /\ status.skipped = ~up)
=============================================================================

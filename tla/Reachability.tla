---------------------------- MODULE Reachability ----------------------------
(***************************************************************************)
(* Reachability monitoring: Scheduler.check_reachability over the DNS      *)
(* probe (reachability.py), the IncidentRecorder and its file              *)
(* (services/incidents.py, incidents.py, incident_store.py), the runtime   *)
(* state it publishes to (runtime.py) and the restart that brings both     *)
(* back.  Several checks may be in flight: the interval job, the startup   *)
(* job and every /refresh request run the same coroutine.                  *)
(*                                                                         *)
(* The flags a transition sets on healthchecks projects (mark_offline,     *)
(* nudge_healthchecks) are the state of another component.                 *)
(***************************************************************************)
EXTENDS Naturals, FiniteSets

CONSTANTS
  Resolvers,      (* the DNS resolvers the probe queries                     *)
  Quorum,         (* successes that make the link online                     *)
  HealthyQuorum,  (* HEALTHY_QUORUM: successes that make it fully healthy    *)
  Retention,      (* WINDOW_SECONDS, in clock ticks                          *)
  None,           (* Python's None                                           *)
  Missing,        (* no incident file                                        *)
  Corrupt,        (* an incident file that does not parse                    *)
  Checks,         (* concurrent runs of check_reachability                   *)
  MaxNow,         (* bound: the clock                                        *)
  MaxChecks,      (* bound: checks started                                   *)
  MaxStops,       (* bound: crashes and shutdowns                            *)
  MaxFaults       (* bound: failed saves, and damage to the file             *)

Severities == {"degraded", "outage"}
Detail == [start : Nat, severity : Severities, minok : Nat,
           failed : SUBSET Resolvers]
Incident == [start : Nat, end : Nat, severity : Severities, minok : Nat,
             failed : SUBSET Resolvers]
Window == [since : Nat, rev : Nat, filed : SUBSET Incident,
           ongoing : Detail \cup {None}]

ASSUME ReachabilityAssumption ==
  /\ IsFiniteSet(Resolvers)
  /\ {Quorum, HealthyQuorum, Retention, MaxNow, MaxChecks, MaxStops,
      MaxFaults} \subseteq Nat
  /\ Quorum <= HealthyQuorum
  /\ None \notin Severities /\ None \notin Detail
  /\ None \notin [start : Nat, severity : Severities]
  /\ Missing \notin Window /\ Corrupt \notin Window /\ Missing # Corrupt

VARIABLES
  now,       (* the clock                                                    *)
  up,        (* whether the process runs                                     *)
  online,    (* RuntimeState.online                                          *)
  published, (* RuntimeState.incident_ongoing and incident_rev               *)
  window,    (* the recorder's IncidentWindow                                *)
  dirty,     (* the recorder's _dirty: widening not on disk yet              *)
  disk,      (* incidents.json                                               *)
  stateDisk, (* `online' in state.json                                       *)
  proc,      (* each check: where it awaits, what it captured, what it saw   *)
  told,      (* history: the last reachability_changed event                 *)
  seen,      (* history: time and severity of every recorded check           *)
  checked,   (* history: a check was recorded since the start                *)
  spent      (* how much of each bound is used                               *)

vars == <<now, up, online, published, window, dirty, disk, stateDisk, proc,
          told, seen, checked, spent>>

IdleCheck == [pc |-> "idle", was |-> FALSE, ok |-> {}]
CheckState == [pc : {"idle", "probing", "answered", "hooks"},
               was : BOOLEAN, ok : SUBSET Resolvers]

FreshWindow(ts) == [since |-> ts, rev |-> 0, filed |-> {}, ongoing |-> None]
View(w) == [ongoing |-> w.ongoing, rev |-> w.rev]

-----------------------------------------------------------------------------
(* incidents.py and ReachabilityProbe.check: what a result means *)

IsOnline(ok) == Cardinality(ok) >= Quorum

(* Mutant: the healthy quorum is tested before the link. *)
ClassifyHealthFirst(ok) ==
  IF Cardinality(ok) < HealthyQuorum THEN "degraded"
  ELSE IF ~IsOnline(ok) THEN "outage"
  ELSE None
Classify(ok) ==
  IF ~IsOnline(ok) THEN "outage"
  ELSE IF Cardinality(ok) < HealthyQuorum THEN "degraded"
  ELSE None

SeverityOf(ongoing) == IF ongoing = None THEN None ELSE ongoing.severity

(* Mutant: incidents expire by their start. *)
KeptByStart(filed, ts) == {i \in filed : i.start + Retention >= ts}
(* prune: incidents that ended before the retention period go. *)
Kept(filed, ts) == {i \in filed : i.end + Retention >= ts}

-----------------------------------------------------------------------------
(* IncidentRecorder.record *)

(* Mutant: an incident begins one tick before the check that sees it. *)
OpenedSinceLastTick(ok, ts) ==
  IF Classify(ok) = None THEN None
  ELSE [start |-> IF ts > 0 THEN ts - 1 ELSE ts, severity |-> Classify(ok),
        minok |-> Cardinality(ok), failed |-> Resolvers \ ok]
Opened(ok, ts) ==
  IF Classify(ok) = None THEN None
  ELSE [start |-> ts, severity |-> Classify(ok), minok |-> Cardinality(ok),
        failed |-> Resolvers \ ok]

(* Mutant: an incident is filed without its end. *)
ClosedWithoutEnd(ongoing, ts) ==
  IF ongoing = None THEN {}
  ELSE {[start |-> ongoing.start, end |-> None, severity |-> ongoing.severity,
         minok |-> ongoing.minok, failed |-> ongoing.failed]}
Closed(ongoing, ts) ==
  IF ongoing = None THEN {}
  ELSE {[start |-> ongoing.start, end |-> ts, severity |-> ongoing.severity,
         minok |-> ongoing.minok, failed |-> ongoing.failed]}

Widened(ongoing, ok) ==
  IF ongoing = None THEN None
  ELSE [ongoing EXCEPT
         !.minok = IF Cardinality(ok) < @ THEN Cardinality(ok) ELSE @,
         !.failed = @ \cup (Resolvers \ ok)]

Turns(w, ok) == Classify(ok) # SeverityOf(w.ongoing)
Changes(w, ok, ts) == Turns(w, ok) \/ Kept(w.filed, ts) # w.filed

Folded(w, ok, ts) ==
  [since   |-> w.since,
   rev     |-> IF Changes(w, ok, ts) THEN w.rev + 1 ELSE w.rev,
   filed   |-> Kept(w.filed, ts) \cup
                 (IF Turns(w, ok) THEN Closed(w.ongoing, ts) ELSE {}),
   ongoing |-> IF Turns(w, ok) THEN Opened(ok, ts) ELSE Widened(w.ongoing, ok)]

(* Mutant: a prune alone is not written. *)
SavedOnTurn(w, ok, ts) == Turns(w, ok)
(* The file is written on a real change... *)
Saved(w, ok, ts) == Changes(w, ok, ts)

(* Mutant: only the last check decides. *)
DirtyByLast(w, ok) == w.ongoing # None /\ Widened(w.ongoing, ok) # w.ongoing
(* ... and widening only marks it dirty. *)
Dirty(w, ok) == dirty \/ Widened(w.ongoing, ok) # w.ongoing

Record(ok) ==
  /\ window' = Folded(window, ok, now)
  /\ IF Saved(window, ok, now)
     THEN disk' = window' /\ dirty' = FALSE
     ELSE dirty' = Dirty(window, ok) /\ UNCHANGED disk

-----------------------------------------------------------------------------
(* Scheduler.check_reachability *)

(* was_online is read before the await of the probe. *)
StartCheck(c) ==
  /\ up /\ proc[c].pc = "idle" /\ spent.checks < MaxChecks
  /\ proc' = [proc EXCEPT ![c] = [pc |-> "probing", was |-> online, ok |-> {}]]
  /\ spent' = [spent EXCEPT !.checks = @ + 1]
  /\ UNCHANGED <<now, up, online, published, window, dirty, disk, stateDisk,
                 told, seen, checked>>

ProbesAnswer(c) ==
  /\ up /\ proc[c].pc = "probing"
  /\ \E ok \in SUBSET Resolvers :
       proc' = [proc EXCEPT ![c].pc = "answered", ![c].ok = ok]
  /\ UNCHANGED <<now, up, online, published, window, dirty, disk, stateDisk,
                 told, seen, checked, spent>>

(* Mutant: every offline check is a transition. *)
TransitionWhileOffline(result) == result # online \/ ~result
(* record_reachability: whether the check is a transition. *)
Transition(result) == result # online

(* From the probe's answer to the dispatch there is no await: the recorder,*)
(* record_reachability and the event's payload belong to one step.         *)
RecordResult(c) ==
  /\ up /\ proc[c].pc = "answered"
  /\ LET ok == proc[c].ok IN
     /\ Record(ok)
     /\ published' = View(window')
     /\ online' = IsOnline(ok)
     /\ IF Transition(IsOnline(ok))
        THEN /\ told' = [online |-> IsOnline(ok), was |-> proc[c].was]
             /\ proc' = [proc EXCEPT ![c].pc = "hooks"]
        ELSE /\ proc' = [proc EXCEPT ![c] = IdleCheck]
             /\ UNCHANGED told
     /\ seen' = seen \cup {<<now, Classify(ok)>>}
     /\ checked' = TRUE
  /\ UNCHANGED <<now, up, stateDisk, spent>>

(* The save raises: the check ends there, its window folded in memory but  *)
(* neither written nor published; it is dirty only if widening made it so. *)
RecordFails(c) ==
  /\ up /\ proc[c].pc = "answered" /\ spent.faults < MaxFaults
  /\ LET ok == proc[c].ok IN
     /\ Saved(window, ok, now)
     /\ window' = Folded(window, ok, now)
     /\ dirty' = IF Turns(window, ok) THEN dirty ELSE Dirty(window, ok)
     /\ seen' = seen \cup {<<now, Classify(ok)>>}
  /\ proc' = [proc EXCEPT ![c] = IdleCheck]
  /\ spent' = [spent EXCEPT !.faults = @ + 1]
  /\ UNCHANGED <<now, up, online, published, disk, stateDisk, told, checked>>

HooksReturn(c) ==
  /\ up /\ proc[c].pc = "hooks"
  /\ proc' = [proc EXCEPT ![c] = IdleCheck]
  /\ UNCHANGED <<now, up, online, published, window, dirty, disk, stateDisk,
                 told, seen, checked, spent>>

-----------------------------------------------------------------------------
(* Flush, shutdown, crash and start *)

(* flush_state: the runtime state file, every 30 seconds. *)
FlushState ==
  /\ up
  /\ stateDisk' = online
  /\ UNCHANGED <<now, up, online, published, window, dirty, disk, proc, told,
                 seen, checked, spent>>

Stops ==
  /\ up /\ spent.stops < MaxStops
  /\ up' = FALSE
  /\ spent' = [spent EXCEPT !.stops = @ + 1]
  /\ proc' = [c \in Checks |-> IdleCheck]
  /\ checked' = FALSE
  /\ UNCHANGED <<now, online, published, window, told, seen>>

(* Scheduler.shutdown: flush_state, then IncidentRecorder.flush. *)
Shutdown ==
  /\ Stops
  /\ stateDisk' = online
  /\ disk' = IF dirty THEN window ELSE disk
  /\ dirty' = FALSE

Crash == Stops /\ UNCHANGED <<stateDisk, disk, dirty>>

(* Mutant: the ongoing incident is forgotten by a restart. *)
LoadedClosed == IF disk \in {Missing, Corrupt} THEN FreshWindow(now)
                ELSE [disk EXCEPT !.ongoing = None]
(* IncidentStore.load. *)
Loaded == IF disk \in {Missing, Corrupt} THEN FreshWindow(now) ELSE disk

(* Mutant: a prune on start leaves the revision alone. *)
PrunedQuietly(w) == [w EXCEPT !.filed = Kept(@, now)]
(* prune on start, with a new revision if it dropped anything. *)
Pruned(w) ==
  [since |-> w.since, filed |-> Kept(w.filed, now), ongoing |-> w.ongoing,
   rev |-> IF Kept(w.filed, now) = w.filed THEN w.rev ELSE w.rev + 1]

(* app.py lifespan: restore the runtime, build the recorder, seed the view.*)
Start ==
  /\ ~up
  /\ up' = TRUE
  /\ window' = Pruned(Loaded)
  /\ disk' = IF window' # Loaded \/ disk = Missing THEN window' ELSE disk
  /\ dirty' = FALSE
  /\ published' = View(window')
  /\ online' = stateDisk
  /\ UNCHANGED <<now, stateDisk, proc, told, seen, checked, spent>>

(* Saves replace the file atomically, so only something else damages it.   *)
FileDamaged ==
  /\ disk # Missing /\ spent.faults < MaxFaults
  /\ disk' = Corrupt
  /\ spent' = [spent EXCEPT !.faults = @ + 1]
  /\ UNCHANGED <<now, up, online, published, window, dirty, stateDisk, proc,
                 told, seen, checked>>

Tick ==
  /\ now < MaxNow
  /\ now' = now + 1
  /\ UNCHANGED <<up, online, published, window, dirty, disk, stateDisk, proc,
                 told, seen, checked, spent>>

-----------------------------------------------------------------------------
Init ==
  /\ now = 0
  /\ up = FALSE
  /\ online = FALSE
  /\ window = FreshWindow(0)
  /\ published = View(window)
  /\ dirty = FALSE
  /\ disk = Missing
  /\ stateDisk = FALSE
  /\ proc = [c \in Checks |-> IdleCheck]
  /\ told = [online |-> FALSE, was |-> TRUE]
  /\ seen = {}
  /\ checked = FALSE
  /\ spent = [checks |-> 0, stops |-> 0, faults |-> 0]

Next ==
  \/ \E c \in Checks : \/ StartCheck(c) \/ ProbesAnswer(c)
                       \/ RecordResult(c) \/ RecordFails(c) \/ HooksReturn(c)
  \/ FlushState \/ Shutdown \/ Crash \/ Start \/ FileDamaged \/ Tick

Spec == Init /\ [][Next]_vars

-----------------------------------------------------------------------------
(* Properties *)

(* Every variable keeps its shape. *)
TypeOK ==
  /\ now \in Nat
  /\ up \in BOOLEAN
  /\ online \in BOOLEAN
  /\ published \in [ongoing : Detail \cup {None}, rev : Nat]
  /\ window \in Window
  /\ dirty \in BOOLEAN
  /\ disk \in Window \cup {Missing, Corrupt}
  /\ stateDisk \in BOOLEAN
  /\ proc \in [Checks -> CheckState]
  /\ told \in [online : BOOLEAN, was : BOOLEAN]
  /\ seen \subseteq Nat \X (Severities \cup {None})
  /\ checked \in BOOLEAN
  /\ spent \in [checks : Nat, stops : Nat, faults : Nat]

(* The parts of a window that must survive a crash. *)
Core(w) == [since |-> w.since, rev |-> w.rev, filed |-> w.filed,
            start |-> IF w.ongoing = None THEN None ELSE w.ongoing.start,
            severity |-> SeverityOf(w.ongoing)]

(* While the process runs, a crash would lose nothing of the history but   *)
(* the widened detail of the ongoing incident: openings, closings, prunes  *)
(* and revisions are on disk before the check goes on.                     *)
DurableUpToWidening ==
  up => disk \notin {Missing, Corrupt} /\ Core(disk) = Core(window)

(* A recorder that is not dirty has nothing left to save, so that shutdown *)
(* may skip the write: its window is the file, from the first start on.    *)
CleanIsSaved == up /\ ~dirty => disk = window

(* Incidents lie within the monitored time and do not overlap: two filed   *)
(* ones are apart, and the ongoing one begins after all of them, across    *)
(* crashes, downtime and failed saves.                                     *)
Disjoint(i, j) == i.end <= j.start \/ j.end <= i.start
Ordered(w, t) ==
  /\ w.since <= t
  /\ \A i \in w.filed : w.since <= i.start /\ i.start <= i.end /\ i.end <= t
  /\ \A i, j \in w.filed : i # j => Disjoint(i, j)
  /\ w.ongoing # None =>
       /\ w.since <= w.ongoing.start /\ w.ongoing.start <= t
       /\ \A i \in w.filed : i.end <= w.ongoing.start
Chronological == Ordered(window, now)

(* The history is the checks: every check that is still within retention   *)
(* falls in an incident of the severity it had, and a healthy one falls    *)
(* inside no incident, however the process stopped and started between.    *)
CoveredBy(w, t, severity) ==
  \/ \E i \in w.filed : i.severity = severity /\ i.start <= t /\ t <= i.end
  \/ /\ severity # None /\ SeverityOf(w.ongoing) = severity
     /\ w.ongoing.start <= t
InsideIncident(w, t) ==
  \/ \E i \in w.filed : i.start < t /\ t < i.end
  \/ w.ongoing # None /\ w.ongoing.start < t
Tells(w, t, severity) ==
  IF severity = None THEN ~InsideIncident(w, t) ELSE CoveredBy(w, t, severity)
HistoryIsChecks ==
  \A c \in seen : c[1] + Retention >= now => Tells(window, c[1], c[2])

(* The UI refetches the incidents when the revision moves: it never goes   *)
(* back, and moves whenever an incident is opened, closed or dropped, also *)
(* by a restart.                                                           *)
Listed(w) == [filed |-> w.filed, start |-> Core(w).start,
              severity |-> SeverityOf(w.ongoing)]
RevMoves ==
  /\ window'.rev >= window.rev
  /\ Listed(window') # Listed(window) => window'.rev > window.rev
RevTellsChange == [][RevMoves]_vars

(* Once a check was recorded, three components agree on the link: the      *)
(* runtime is offline exactly when the recorder has an outage open, and    *)
(* the view published to clients is the recorder's.                        *)
ViewsAgree ==
  up => /\ published = View(window)
        /\ checked => (online <=> SeverityOf(window.ongoing) # "outage")

(* reachability_changed reports a transition: its two states differ.       *)
EventIsTransition ==
  [][\A c \in Checks : RecordResult(c) /\ proc'[c].pc = "hooks"
       => told'.online # told'.was]_vars

(* The incident history behaves as the crash-free ledger: stopping and     *)
(* starting the process, however it happens, is invisible in it.           *)
Summary(i) == [start |-> i.start, end |-> i.end, severity |-> i.severity]
FiledIn(w) == {Summary(i) : i \in w.filed}
OpenIn(w) ==
  IF w.ongoing = None THEN None
  ELSE [start |-> w.ongoing.start, severity |-> w.ongoing.severity]
Ledger == INSTANCE IncidentLedger WITH
  filed <- FiledIn(window), open <- OpenIn(window), rev <- window.rev
ImplementsLedger == Ledger!Spec
=============================================================================

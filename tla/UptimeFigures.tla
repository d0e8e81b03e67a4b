--------------------------- MODULE UptimeFigures ----------------------------
(***************************************************************************)
(* The figures the page computes from the incident history: the seconds    *)
(* of outage and degradation of each day, and of the last Days days        *)
(* (frontend/src/utils.ts), over the windows that Reachability reaches.    *)
(* A tick of the clock is a second.                                        *)
(***************************************************************************)
EXTENDS Reachability, FiniteSetsExt

CONSTANTS DayLength, Days

ASSUME FiguresAssumption ==
  DayLength \in Nat \ {0} /\ Days \in Nat \ {0} /\ None \notin Nat

Least(a, b) == IF a < b THEN a ELSE b
Greatest(a, b) == IF a > b THEN a ELSE b
(* A difference that is cut off at zero. *)
Beyond(a, b) == IF a > b THEN a - b ELSE 0

(* The ongoing incident joins the filed ones with no end. *)
All(w) ==
  {[start |-> i.start, end |-> i.end, severity |-> i.severity] : i \in w.filed}
  \cup (IF w.ongoing = None THEN {}
        ELSE {[start |-> w.ongoing.start, end |-> None, severity |-> w.ongoing.severity]})

(* Mutant: an incident without an end lasts as long as it is looked at. *)
EndToRange(inc, to) == IF inc.end = None THEN to ELSE inc.end
EndOf(inc, to) == IF inc.end = None THEN now ELSE inc.end

Overlap(inc, from, to) == Beyond(Least(EndOf(inc, to), to), Greatest(inc.start, from))

SecondsOf(w, severity, from, to) ==
  MapThenSumSet(LAMBDA inc : Overlap(inc, from, to),
                {inc \in All(w) : inc.severity = severity})

(* bucketByDay: the day that began back days ago, its end and its seconds. *)
Bucket(w, back) ==
  LET midnight == now - (now % DayLength)
      start == midnight - back * DayLength
      end == start + DayLength
      offline == SecondsOf(w, "outage", start, end)
      degraded == SecondsOf(w, "degraded", start, end)
  IN  [start |-> start, observedEnd |-> Least(now, end),
       offline |-> offline, degraded |-> degraded,
       worst |-> IF offline > 0 THEN "outage"
                 ELSE IF degraded > 0 THEN "degraded" ELSE "healthy"]

(* uptimeStats, over the monitored part of the last Days days. *)
Stats(w) ==
  LET from == Greatest(w.since, Beyond(now, Days * DayLength)) IN
  [from |-> from, observed |-> Beyond(now, from),
   offline |-> SecondsOf(w, "outage", from, now),
   degraded |-> SecondsOf(w, "degraded", from, now)]

-----------------------------------------------------------------------------
(* The reference: the seconds, one by one, that the history says were so.  *)
Was(w, severity, t) ==
  \E inc \in All(w) : /\ inc.severity = severity /\ inc.start <= t
                      /\ t < now /\ (inc.end = None \/ t < inc.end)
Counted(w, severity, from, to) ==
  Cardinality({t \in from .. (to - 1) : Was(w, severity, t)})

(* Every figure counts seconds that the history says were so, none of them *)
(* twice or in the future, in a day cut by now and in a window cut by the  *)
(* start of monitoring: the uptime lies between 0 and 100 %                *)
(* (utils.ts:41-45, 71-79, 96-110).                                        *)
FiguresAreCounted ==
  up => LET s == Stats(window) IN
    /\ s.offline = Counted(window, "outage", s.from, now)
    /\ s.degraded = Counted(window, "degraded", s.from, now)
    /\ s.offline + s.degraded <= s.observed
    /\ \A back \in 0 .. now : back * DayLength <= now - (now % DayLength) =>
         LET b == Bucket(window, back) IN
         /\ b.offline = Counted(window, "outage", b.start, b.observedEnd)
         /\ b.degraded = Counted(window, "degraded", b.start, b.observedEnd)
         /\ b.worst = "healthy" <=>
              \A t \in b.start .. (b.observedEnd - 1) :
                ~Was(window, "outage", t) /\ ~Was(window, "degraded", t)
=============================================================================

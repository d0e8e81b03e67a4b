--------------------------- MODULE IncidentLedger ---------------------------
(***************************************************************************)
(* What the reachability incident history promises, with no files,         *)
(* processes or crashes: a ledger into which every check of the link is    *)
(* folded, so that filed incidents and the open one are exactly the        *)
(* unhealthy stretches, and whose revision moves with its contents.        *)
(***************************************************************************)
EXTENDS Naturals

CONSTANTS
  Retention, (* how long a closed incident is kept                           *)
  None       (* no open incident; the severity of a healthy check            *)

Severities == {"degraded", "outage"}

VARIABLES
  now,    (* the clock                                                       *)
  filed,  (* closed incidents: start, end and severity                       *)
  open,   (* start and severity of the ongoing incident, or None             *)
  rev     (* revision of the ledger                                          *)

vars == <<now, filed, open, rev>>

SeverityOf(o) == IF o = None THEN None ELSE o.severity
Unexpired == {i \in filed : i.end + Retention >= now}

Init == now \in Nat /\ filed = {} /\ open = None /\ rev = 0

Tick == now' = now + 1 /\ UNCHANGED <<filed, open, rev>>

(* A check that agrees with the ledger only lets expired incidents go. *)
Agree(severity) ==
  /\ SeverityOf(open) = severity
  /\ filed' = Unexpired
  /\ rev' = IF Unexpired = filed THEN rev ELSE rev + 1
  /\ UNCHANGED <<now, open>>

(* One that does not closes what was open and opens what is seen now. *)
Turn(severity) ==
  /\ SeverityOf(open) # severity
  /\ filed' = Unexpired \cup
       (IF open = None THEN {}
        ELSE {[start |-> open.start, end |-> now, severity |-> open.severity]})
  /\ open' = IF severity = None THEN None
             ELSE [start |-> now, severity |-> severity]
  /\ rev' = rev + 1
  /\ UNCHANGED now

(* Expired incidents may also go without a check. *)
Expire ==
  /\ Unexpired # filed
  /\ filed' = Unexpired
  /\ rev' = rev + 1
  /\ UNCHANGED <<now, open>>

Next ==
  \/ Tick \/ Expire
  \/ \E severity \in Severities \cup {None} : Agree(severity) \/ Turn(severity)

Spec == Init /\ [][Next]_vars
=============================================================================

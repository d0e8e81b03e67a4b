--------------------------- MODULE MCSyncService ---------------------------
(* Instances of SyncService for TLC: two IPv4 records, one IPv6 record and *)
(* one record whose provider is not registered.                            *)
EXTENDS SyncService

CONSTANTS d1, d2, d3, t1, t2, t3, t4, a1, a2

MCFamilyOf == [t \in Targets |-> IF t = t3 THEN "ipv6" ELSE "ipv4"]
MCRegistered == Targets \ {t4}

Domain(id, target, enabled) == [id |-> id, target |-> target, enabled |-> enabled]

(* Two domains of one family. *)
TwoV4 == <<Domain(d1, t1, TRUE), Domain(d2, t2, TRUE)>>
(* One domain per family. *)
TwoMixed == <<Domain(d1, t1, TRUE), Domain(d2, t3, TRUE)>>
(* One domain, and one whose provider plugin is missing. *)
WithUnknown == <<Domain(d1, t4, TRUE), Domain(d2, t1, TRUE)>>
OneV4 == <<Domain(d1, t1, TRUE)>>

DualWan == [f \in Families |-> IF f = "ipv4" THEN a1 ELSE a2]
V4Wan == [f \in Families |-> IF f = "ipv4" THEN a1 ELSE None]

(* Passes are told apart by nothing; sound where only invariants are checked. *)
PassSymmetry == Permutations(Passes)
=============================================================================

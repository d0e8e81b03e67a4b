--------------------------- MODULE MCHealthchecks ---------------------------
(* An instance of Healthchecks for TLC: one project at a first site, one   *)
(* that may be created, and a second site that takes the same key.         *)
EXTENDS Healthchecks

CONSTANTS p1, p2, k1, u1, u2, a1, fetch, update, create

MCFirst == <<u1, a1>>
MCFieldSets == {{"url"}}
MCValid == {<<u1, a1>>, <<u2, a1>>}
=============================================================================

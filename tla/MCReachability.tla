--------------------------- MODULE MCReachability ---------------------------
(* Instances of Reachability for TLC: two resolvers, of which one makes    *)
(* the link online and both make it healthy.                               *)
EXTENDS UptimeFigures

CONSTANTS r1, r2, job, refresh
=============================================================================

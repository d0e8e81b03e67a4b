------------------------------- MODULE MCLive -------------------------------
(* An instance of Live for TLC. *)
EXTENDS Live

CONSTANTS s1, s2, s3
=============================================================================

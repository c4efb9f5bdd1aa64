-------------------------- MODULE MCSessionManager --------------------------
(* Small instances of SessionManager for TLC. *)
EXTENDS SessionManager
CONSTANTS s1, q1, q2, d1, d2, x1, r1
=============================================================================

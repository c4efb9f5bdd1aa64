------------------------------ MODULE MCClient ------------------------------
(* Small instances of Client for TLC. *)
EXTENDS Client
CONSTANTS p1, p2, s1
=============================================================================

-------------------------- MODULE MCCommandJournal --------------------------
(* A small instance of CommandJournal for TLC. *)
EXTENDS CommandJournal, TLC

CONSTANTS k1, h1, h2, c1, c2, c3, c4

\* A request, two retries of it, and another request under the same key.
MCCallKey == c1 :> k1 @@ c2 :> k1 @@ c3 :> k1 @@ c4 :> k1
MCCallHash == c1 :> h1 @@ c2 :> h1 @@ c3 :> h1 @@ c4 :> h2
=============================================================================

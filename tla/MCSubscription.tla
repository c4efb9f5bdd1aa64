--------------------------- MODULE MCSubscription ---------------------------
(* The instances of Subscription that TLC checks are given in the cfg files. *)
EXTENDS Subscription

=============================================================================

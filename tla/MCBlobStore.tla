----------------------------- MODULE MCBlobStore -----------------------------
(* A small instance of BlobStore for TLC. *)
EXTENDS BlobStore, TLC

CONSTANTS s1, u1, u2

\* Two uploads of the same two chunks.
MCSessionOf == [u \in Uploads |-> s1]
MCContent == [u \in Uploads |-> <<"a", "b">>]
MCMaxWaiting == [u \in Uploads |-> 2]
MCSymmetry == Permutations({u1, u2})
=============================================================================

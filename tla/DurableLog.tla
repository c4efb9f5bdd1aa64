----------------------------- MODULE DurableLog -----------------------------
(***************************************************************************)
(* What a session log promises its callers (the contract that              *)
(* packages/kernel/src/jsonl-event-log.ts keeps): a sequence of events     *)
(* that only grows at its end; an append that resolved is in it, one that  *)
(* rejected is not, and one cut off by a crash may be either.              *)
(***************************************************************************)
EXTENDS Sequences

CONSTANT Events
VARIABLES log,      \* the events a reader finds
          told,     \* what the append of each event was told
          reliable  \* every failed append could be rolled back
vars == <<log, told>>

Init == log = <<>> /\ told = [e \in Events |-> "none"]

Commit(e) == /\ told[e] = "none"
             /\ log' = Append(log, e)
             /\ told' = [told EXCEPT ![e] = "stored"]

Reject(e) == /\ told[e] = "none"
             /\ told' = [told EXCEPT ![e] = "failed"]
             /\ UNCHANGED log

\* A crash: the callers S hear nothing, and at most one of their events is stored.
Lose(S) == /\ \A e \in S : told[e] = "none"
           /\ told' = [e \in Events |-> IF e \in S THEN "lost" ELSE told[e]]
           /\ log' = log \/ \E e \in S : log' = Append(log, e)

Next == \/ \E e \in Events : Commit(e) \/ Reject(e)
        \/ \E S \in SUBSET Events : Lose(S)
Spec == Init /\ [][reliable' => Next]_vars
=============================================================================

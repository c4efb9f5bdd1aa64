------------------------- MODULE IdempotentCommands -------------------------
(***************************************************************************)
(* What the daemon promises a client that retries a mutation               *)
(* (docs/architecture/web-delivery.md, "Request behavior"): a key is bound *)
(* to one request for good, it gets one outcome for good, and every answer *)
(* is that outcome, a conflict with the bound request, or an error that    *)
(* claims nothing.  CommandJournal implements it.                          *)
(***************************************************************************)
CONSTANTS Keys, Hashes, Calls, CallKey, CallHash, NoHash, Results

VARIABLES bound,    \* the request each key stands for, or NoHash
          outcome,  \* the outcome of each key, or "none"
          told,     \* what each call was answered, or "none"
          reliable  \* the disk has taken every append so far

Init == /\ bound = [k \in Keys |-> NoHash]
        /\ outcome = [k \in Keys |-> "none"]
        /\ told = [c \in Calls |-> "none"]

Bind(k, h) == /\ bound[k] = NoHash
              /\ bound' = [bound EXCEPT ![k] = h]
              /\ UNCHANGED <<outcome, told>>

Decide(k, r) == /\ bound[k] # NoHash /\ outcome[k] = "none"
                /\ outcome' = [outcome EXCEPT ![k] = r]
                /\ UNCHANGED <<bound, told>>

\* What call c may be answered.
MayTell(c) == {"io_error"}
              \cup {r \in Results : outcome[CallKey[c]] = r /\ bound[CallKey[c]] = CallHash[c]}
              \cup {a \in {"conflict"} : bound[CallKey[c]] \notin {NoHash, CallHash[c]}}

\* A request and the retries that joined it are answered together.
Answer(cs) == /\ \A c \in cs : told[c] = "none" /\ told'[c] \in MayTell(c)
              /\ told' = [c \in Calls |-> IF c \in cs THEN told'[c] ELSE told[c]]
              /\ UNCHANGED <<bound, outcome>>

Next == \/ \E k \in Keys, h \in Hashes : Bind(k, h)
        \/ \E k \in Keys, r \in Results : Decide(k, r)
        \/ \E cs \in SUBSET Calls : Answer(cs)

\* The promise is kept as long as the disk keeps its own.
Spec == Init /\ [][reliable' => Next]_<<bound, outcome, told>>
=============================================================================

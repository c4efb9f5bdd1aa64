---------------------------- MODULE Interactions ----------------------------
(***************************************************************************)
(* Questions a tool asks the user in the middle of a turn                  *)
(* (packages/daemon/src/session-manager.ts, interact and                   *)
(* respondToInteraction): the question is recorded in the session log,     *)
(* several clients may answer, and a timer, an interrupt or disposal may   *)
(* reject it while an answer is being recorded.                            *)
(*                                                                         *)
(* The appends of a session are stored one after the other, in the order   *)
(* in which they were asked for.  The log is kept per question: what is    *)
(* recorded about one does not depend on events of another.                *)
(***************************************************************************)
EXTENDS Naturals, Sequences

CONSTANTS Asks,       \* interactions
          Responses,  \* session.interaction.respond requests, with their content
          AskOf,      \* the interaction a request answers
          None

ASSUME AsksAssumption == /\ AskOf \in [Responses -> Asks]
                         /\ None \notin Asks \cup Responses
                         /\ {"rejected", "cancel", "requested"} \cap Responses = {}

VARIABLES
    tail,        \* appends in flight, oldest first: [op, of, by]
    asked,       \* where interact() stands: "no", "requesting", "waiting", "over", "lost"
    recorded,    \* the log: "requested", then who resolved it
    pending,     \* keys of managed.interactions
    resolution,  \* pending.resolution: the response that is being appended
    outcome,     \* what interact() got: a response, "rejected" or None
    reply        \* where each respond request stands

interactionVars == <<asked, recorded, pending, resolution, outcome, reply>>

Outstanding == {a \in Asks : asked[a] \in {"requesting", "waiting"}}
Entry(op, of, by) == [op |-> op, of |-> of, by |-> by]
Queued(op, of, by) == \E n \in DOMAIN tail : tail[n] = Entry(op, of, by)
Resolutions == Responses \cup {"cancel"}
Resolved(a) == \E n \in DOMAIN recorded[a] : recorded[a][n] \in Resolutions
Record(a, e) == recorded' = [recorded EXCEPT ![a] = Append(@, e)]

InteractionsInit ==
    /\ asked = [a \in Asks |-> "no"] /\ recorded = [a \in Asks |-> <<>>]
    /\ pending = {} /\ resolution = [a \in Asks |-> None] /\ outcome = [a \in Asks |-> None]
    /\ reply = [c \in Responses |-> "idle"]

\* interact(): register, then append interaction.requested.
Ask(a) ==
    /\ asked[a] = "no"
    /\ asked' = [asked EXCEPT ![a] = "requesting"]
    /\ pending' = pending \cup {a}
    /\ tail' = Append(tail, Entry("request", a, None))
    /\ UNCHANGED <<recorded, resolution, outcome, reply>>

RequestStored(a) ==
    /\ Record(a, "requested")
    /\ asked' = [asked EXCEPT ![a] = "waiting"]
    /\ UNCHANGED <<pending, resolution, outcome, reply>>

RequestFails(a) ==
    /\ asked' = [asked EXCEPT ![a] = "over"]
    /\ pending' = pending \ {a}
    /\ outcome' = [outcome EXCEPT ![a] = "rejected"]
    /\ UNCHANGED <<recorded, resolution, reply>>

\* The timer, an abort and dispose() take questions out of the map and reject them.  A
\* question whose request is still being appended has nobody awaiting `response`: the
\* rejection is unhandled, and that ends the process.
Unhandled(as) == \E a \in as : asked[a] = "requesting"

Reject(as) ==
    /\ ~Unhandled(as)
    /\ asked' = [a \in Asks |-> IF a \in as THEN "over" ELSE asked[a]]
    /\ outcome' = [a \in Asks |-> IF a \in as THEN "rejected" ELSE outcome[a]]
    /\ pending' = pending \ as
    /\ UNCHANGED <<recorded, resolution, reply>>

(***************************************************************************)
(* respondToInteraction.  A client knows the questions that are recorded.  *)
(***************************************************************************)
Told(cs, r) == reply' = [c \in Responses |-> IF c \in cs THEN r ELSE reply[c]]

Unclaimed(a) == TRUE                         \* mutant: pending.resolution is not looked at
Claimable(a) == resolution[a] = None

Respond(c) ==
    LET a == AskOf[c] IN
    /\ reply[c] \in {"idle", "lost"} /\ recorded[a] # <<>>
    /\ \/ /\ \E n \in DOMAIN recorded[a] : recorded[a][n] = c
          /\ Told({c}, "won") /\ UNCHANGED <<tail, resolution>>
       \/ /\ \A n \in DOMAIN recorded[a] : recorded[a][n] # c
          /\ \/ a \notin pending /\ Told({c}, "refused") /\ UNCHANGED <<tail, resolution>>
             \/ /\ a \in pending /\ ~Claimable(a)
                /\ Told({c}, "joined") /\ UNCHANGED <<tail, resolution>>
             \/ /\ a \in pending /\ Claimable(a)
                /\ Told({c}, "storing")
                /\ resolution' = [resolution EXCEPT ![a] = c]
                /\ tail' = Append(tail, Entry("resolve", a, c))
    /\ UNCHANGED <<asked, recorded, pending, outcome>>

Joined(a) == {c \in Responses : AskOf[c] = a /\ reply[c] = "joined"}

\* The outcome reaches interact(), unless the question was rejected meanwhile.
Deliver(a, o) ==
    /\ pending' = pending \ {a}
    /\ IF a \in pending
       THEN asked' = [asked EXCEPT ![a] = "over"] /\ outcome' = [outcome EXCEPT ![a] = o]
       ELSE UNCHANGED <<asked, outcome>>

ResolutionStored(a, c) ==
    /\ Record(a, c)
    /\ Deliver(a, c)
    /\ reply' = [d \in Responses |-> CASE d = c -> "won" [] d \in Joined(a) -> "refused"
                                       [] OTHER -> reply[d]]
    /\ UNCHANGED resolution

ResolutionDropped(a, c) ==    \* mutant: the question is forgotten but not rejected
    /\ pending' = pending \ {a}
    /\ Told({c} \cup Joined(a), "failed")
    /\ UNCHANGED <<asked, outcome, recorded, resolution>>

ResolutionFails(a, c) ==
    /\ Deliver(a, "rejected")
    /\ Told({c} \cup Joined(a), "failed")
    /\ UNCHANGED <<recorded, resolution>>

(***************************************************************************)
(* The process dies, and the session is opened again.                      *)
(***************************************************************************)
ForgetInteractions ==
    /\ asked' = [a \in Asks |-> IF a \in Outstanding THEN "lost" ELSE asked[a]]
    /\ pending' = {}
    /\ resolution' = [a \in Asks |-> None]
    /\ reply' = [c \in Responses |-> IF reply[c] \in {"storing", "joined"} THEN "lost" ELSE reply[c]]
    /\ UNCHANGED outcome

Unanswered == {a \in Asks : recorded[a] # <<>> /\ ~Resolved(a)}

\* AgentSession.open cancels what nobody answered.
CancelRecovered(a) ==
    /\ a \in Unanswered
    /\ Record(a, "cancel")
    /\ UNCHANGED <<tail, asked, pending, resolution, outcome, reply>>

-----------------------------------------------------------------------------
\* "The first accepted interaction response wins ... Simultaneous TUI and web decisions
\* cannot both succeed" (web-delivery.md:99): a question is resolved once in the log,
\* whatever timers, failures and restarts come between; the requests told that they
\* won are the one that is recorded; and the tool goes on with no other answer.
FirstAnswerWins ==
    \A a \in Asks :
        /\ \A m, n \in DOMAIN recorded[a] :
             recorded[a][m] \in Resolutions /\ recorded[a][n] \in Resolutions => m = n
        /\ \A c \in Responses : AskOf[c] = a /\ (reply[c] = "won" \/ outcome[a] = c) =>
             \E n \in DOMAIN recorded[a] : recorded[a][n] = c

\* Every interact() settles: with an answer, by the timer, or with the process.
AsksEnd == \A a \in Asks : a \in Outstanding ~> a \notin Outstanding

=============================================================================

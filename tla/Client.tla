------------------------------- MODULE Client -------------------------------
(***************************************************************************)
(* The SDK's client (packages/sdk/src/client.ts) and deliverPrompt         *)
(* (delivery.ts) against a daemon that keeps the promise of                *)
(* IdempotentCommands: requests over a connection that breaks, one retry   *)
(* with the same key after a reconnect, reconnects shared by everyone who  *)
(* asks for one, and the outcome the user is shown.                        *)
(*                                                                         *)
(* A delivery is one call of deliverPrompt.  Prompts stands for its modes  *)
(* that are one retryable mutation, Steers for "steer" and "follow_up": a  *)
(* request without a key and, when no operation is active, an enqueue.     *)
(* Attempt 0 of a delivery is the request without a key, 1 and 2 are the   *)
(* mutation and its retry.  Promise reactions run before the next event,   *)
(* so a rejection and the catch block of request() are one step.           *)
(***************************************************************************)
EXTENDS Naturals, FiniteSets

CONSTANTS Prompts, Steers,
          MaxCloses,     \* bound on connections the peer closes
          MaxFailures,   \* bound on failures of opening, of a view and of the protocol
          MayClose,      \* the application may close the client
          NoHash

Deliveries == Prompts \cup Steers
ASSUME DeliveryAssumption == Prompts \cap Steers = {} /\ MayClose \in BOOLEAN
ASSUME ClientBounds == MaxCloses \in Nat /\ MaxFailures \in Nat

VARIABLES
    transport,    \* this.transport: the number of a connection, or 0
    live,         \* its peer has not closed it
    initialized,  \* this.initialized is set
    reconnecting, \* reconnectPromise: "none" or what reconnect() awaits
    shutdown,     \* this.shutdownError is set
    closed,       \* deliberatelyClosed
    stage,        \* of each delivery
    attempt,      \* its request
    via,          \* the connection its request was written to
    result,       \* what deliverPrompt returned or threw
    wire,         \* requests on their way to the daemon, as <<delivery, attempt, connection>>
    arrived,      \* requests the daemon has and did not answer
    bound, verdict, told,    \* the daemon, see IdempotentCommands
    taken,        \* how often the content of each delivery was accepted
    made, closes, failures

connection == <<transport, live, initialized, reconnecting, shutdown>>
delivery == <<stage, attempt, via, result>>
daemon == <<arrived, bound, verdict, told, taken>>
counters == <<made, closes, failures>>
clientVars == <<connection, closed, delivery, wire, daemon, counters>>

Journal == INSTANCE IdempotentCommands WITH
               Keys <- Deliveries, Hashes <- {"request"}, Calls <- Deliveries \X {1, 2},
               CallKey <- [c \in Deliveries \X {1, 2} |-> c[1]],
               CallHash <- [c \in Deliveries \X {1, 2} |-> "request"],
               Results <- {"ok", "refused"}, reliable <- TRUE, outcome <- verdict

ClientInit ==
    /\ transport = 1 /\ live = TRUE /\ initialized = TRUE /\ reconnecting = "none"
    /\ shutdown = FALSE /\ closed = FALSE
    /\ stage = [d \in Deliveries |-> "idle"] /\ attempt = [d \in Deliveries |-> 0]
    /\ via = [d \in Deliveries |-> 0] /\ result = [d \in Deliveries |-> "none"]
    /\ wire = {} /\ arrived = {} /\ taken = [d \in Deliveries |-> 0]
    /\ Journal!Init
    /\ made = 1 /\ closes = 0 /\ failures = 0

-----------------------------------------------------------------------------
\* delivery.ts: the errors that say nothing about the request.
Ambiguous == {"disconnected", "connection_error", "reconnect_failed", "write_failed"}
Shown(code) == IF code \in Ambiguous THEN "uncertain" ELSE "failed"

TransportLoss == {"disconnected", "write_failed"}

RetryAlways(n, code) == code \in TransportLoss /\ ~closed'    \* mutant: with or without a key
\* Whether the catch block of request() asks for a reconnect and a second attempt.
Retries(n, code) == n = 1 /\ code \in TransportLoss /\ ~closed'

Waiting == {d \in Deliveries : stage[d] = "waiting"}
Rejoining == {d \in Deliveries : stage[d] = "rejoining"}
Awaits(s) == reconnecting = s

Settle(ds, r) ==
    /\ stage' = [d \in Deliveries |-> IF d \in ds THEN "settled" ELSE stage[d]]
    /\ result' = [d \in Deliveries |-> IF d \in ds THEN r ELSE result[d]]
    /\ UNCHANGED <<attempt, via>>

\* reconnect(): the connection there is is detached; its pending requests stay pending.
Reconnect ==
    /\ transport' = 0 /\ live' = FALSE /\ initialized' = FALSE /\ shutdown' = FALSE
    /\ reconnecting' = "connecting"

\* fail(): every pending request is rejected, and retried or settled.  The deliveries over
\* learn that their reconnect failed; ended says that reconnect() is over.
Fail(code, over, ended) ==
    LET again == {d \in Waiting \ over : Retries(attempt[d], code)}
        settled == (Waiting \cup over) \ again
    IN  /\ stage' = [d \in Deliveries |-> CASE d \in again -> "rejoining"
                                            [] d \in settled -> "settled"
                                            [] OTHER -> stage[d]]
        /\ result' = [d \in Deliveries |-> IF d \in settled THEN Shown(code) ELSE result[d]]
        /\ UNCHANGED <<attempt, via>>
        /\ IF again # {} /\ (ended \/ Awaits("none"))
           THEN Reconnect
           ELSE /\ transport' = 0 /\ live' = FALSE
                /\ shutdown' = (shutdown \/ code = "daemon_stopping")
                /\ initialized' = (initialized /\ ~ended)
                /\ reconnecting' = IF ended THEN "none" ELSE reconnecting

(***************************************************************************)
(* request() and deliverPrompt()                                           *)
(***************************************************************************)
\* sendRequest() of attempt n of the deliveries ds; without a peer the bytes are lost.
Send(ds, n) ==
    /\ attempt' = [d \in Deliveries |-> IF d \in ds THEN n ELSE attempt[d]]
    /\ via' = [d \in Deliveries |-> IF d \in ds THEN transport ELSE via[d]]
    /\ stage' = [d \in Deliveries |-> IF d \in ds THEN "waiting" ELSE stage[d]]
    /\ wire' = wire \cup {<<d, n, transport>> : d \in IF live THEN ds ELSE {}}
    /\ UNCHANGED result

\* The request is not written: no connection, or the write fails before the close of the
\* peer is reported.
NotSent(d, n, code) ==
    \/ /\ Retries(n, code)
       /\ stage' = [stage EXCEPT ![d] = "rejoining"] /\ attempt' = [attempt EXCEPT ![d] = n]
       /\ IF Awaits("none") THEN Reconnect ELSE UNCHANGED connection
       /\ UNCHANGED <<via, result, wire>>
    \/ ~Retries(n, code) /\ Settle({d}, Shown(code)) /\ UNCHANGED <<connection, wire>>

Request(d, n) ==
    \/ /\ shutdown \/ ~initialized
       /\ Settle({d}, "failed") /\ UNCHANGED <<connection, wire>>
    \/ /\ ~shutdown /\ initialized
       /\ \/ transport = 0 /\ NotSent(d, n, "disconnected")
          \/ transport # 0 /\ ~live /\ NotSent(d, n, "write_failed")
          \/ transport # 0 /\ Send({d}, n) /\ UNCHANGED connection

DeliverPrompt(d) ==
    /\ stage[d] = "idle"
    /\ closed' = closed
    /\ Request(d, IF d \in Prompts THEN 1 ELSE 0)
    /\ UNCHANGED <<daemon, counters>>

(***************************************************************************)
(* The daemon                                                              *)
(***************************************************************************)
\* A request that is not refused on arrival (Turned): a mutation is bound to its key, a
\* steering message accepted or answered operation_inactive.  Bytes of a closed connection
\* may still arrive.
Arrive(w) ==
    /\ w \in wire
    /\ wire' = wire \ {w} /\ arrived' = arrived \cup {w}
    /\ LET d == w[1]
       IN  \/ w[2] = 0 /\ \E n \in {0, 1} : taken' = [taken EXCEPT ![d] = @ + n]
              /\ UNCHANGED <<bound, verdict, told>>
           \/ w[2] # 0 /\ bound[d] = NoHash /\ Journal!Bind(d, "request") /\ UNCHANGED taken
           \/ w[2] # 0 /\ bound[d] # NoHash /\ UNCHANGED <<bound, verdict, told, taken>>
    /\ UNCHANGED <<connection, closed, delivery, counters>>

\* The journal records what became of the mutation.  A failure says nothing: send() also
\* throws after the user message was stored, and even after the turn.
Decide(d, r) ==
    /\ Journal!Decide(d, r)
    /\ \E n \in IF r = "ok" THEN {1} ELSE {0, 1} : taken' = [taken EXCEPT ![d] = @ + n]
    /\ UNCHANGED <<connection, closed, delivery, wire, arrived, counters>>

AnsweredBlindly(d, n, r) ==    \* mutant: no fallback when no operation is active
    /\ Settle({d}, IF r = "refused" THEN "refused" ELSE "confirmed")
    /\ UNCHANGED <<connection, wire>>

\* What the client makes of an answer; a steering message that found no operation is
\* queued instead.
Answered(d, n, r) ==
    \/ r = "ok" /\ Settle({d}, "confirmed") /\ UNCHANGED <<connection, wire>>
    \/ r = "refused" /\ Settle({d}, "refused") /\ UNCHANGED <<connection, wire>>
    \/ r = "operation_inactive" /\ Request(d, 1)

DaemonResponds(d) ==
    LET call == <<d, attempt[d]>>
        w == <<d, attempt[d], transport>>
    IN  /\ stage[d] = "waiting" /\ via[d] = transport /\ w \in arrived
        /\ arrived' = arrived \ {w} /\ closed' = closed
        /\ \/ /\ attempt[d] = 0 /\ UNCHANGED told
              /\ Answered(d, 0, IF taken[d] = 1 THEN "ok" ELSE "operation_inactive")
           \/ /\ attempt[d] # 0 /\ verdict[d] # "none"
              /\ \E r \in Journal!MayTell(call) \ {"io_error"} :
                    told' = [told EXCEPT ![call] = r] /\ Answered(d, attempt[d], r)
        /\ UNCHANGED <<bound, verdict, taken, counters>>

(***************************************************************************)
(* The connection                                                          *)
(***************************************************************************)
PeerCloses ==
    /\ live /\ closes < MaxCloses
    /\ live' = FALSE /\ closes' = closes + 1
    /\ UNCHANGED <<transport, initialized, reconnecting, shutdown, closed, delivery, wire, daemon, made, failures>>

\* The deliveries whose reconnect fails with the handshake.
ReconnectCallers == IF Awaits("negotiating") THEN Waiting \cup Rejoining ELSE {}

Stays == UNCHANGED <<wire, daemon, made>>
Strikes == failures < MaxFailures /\ failures' = failures + 1 /\ closed' = closed /\ closes' = closes

CloseReported ==
    /\ transport # 0 /\ ~live
    /\ closed' = closed
    /\ Fail("disconnected", ReconnectCallers, Awaits("negotiating"))
    /\ Stays /\ UNCHANGED <<closes, failures>>

\* The daemon says that it has stopped, or what it sends cannot be parsed.
Breaks ==
    /\ transport # 0 /\ initialized /\ Strikes
    /\ \E code \in {"daemon_stopping", "protocol_error"} : Fail(code, {}, FALSE)
    /\ Stays

\* What a request can be refused for before the daemon looks at its key: by rejectOverloadedLine,
\* by handleLine, or because another delivery has reserved the interrupt of the session.
EarlyRefusals == {"rate_limited", "daemon_stopping", "unsupported_capability", "unknown_session",
                  "operation_active"}
Turned(d) ==
    /\ stage[d] = "waiting" /\ via[d] = transport /\ <<d, attempt[d], transport>> \in wire /\ Strikes
    /\ wire' = wire \ {<<d, attempt[d], transport>>}
    /\ \E code \in EarlyRefusals : Settle({d}, Shown(code))
    /\ UNCHANGED <<connection, daemon, made>>

Connected ==
    /\ Awaits("connecting")
    /\ made' = made + 1 /\ transport' = made + 1 /\ live' = TRUE /\ reconnecting' = "negotiating"
    /\ UNCHANGED <<initialized, shutdown, closed, delivery, wire, daemon, closes, failures>>

ConnectFails ==
    /\ Awaits("connecting") /\ Strikes
    /\ reconnecting' = "none"
    /\ Settle(Rejoining, Shown("connection_error"))
    /\ Stays /\ UNCHANGED <<transport, live, initialized, shutdown>>

Negotiated ==
    /\ Awaits("negotiating") /\ live
    /\ initialized' = TRUE /\ reconnecting' = "restoring"
    /\ UNCHANGED <<transport, live, shutdown, closed, delivery, wire, daemon, counters>>

\* A timeout, another version, or a capability that is gone.
HandshakeFails ==
    /\ Awaits("negotiating") /\ Strikes
    /\ Fail("handshake_timeout", ReconnectCallers, TRUE)
    /\ Stays

RestoredFirst ==    \* mutant: one of the callers that share the reconnect goes on
    /\ Awaits("restoring") /\ reconnecting' = "none"
    /\ IF Rejoining = {} THEN UNCHANGED <<delivery, wire>> ELSE \E d \in Rejoining : Send({d}, 2)
    /\ UNCHANGED <<transport, live, initialized, shutdown, closed, daemon, counters>>

\* The views are restored: everyone who waited tries again.
Restored ==
    /\ Awaits("restoring") /\ reconnecting' = "none"
    /\ \/ transport # 0 /\ Send(Rejoining, 2)
       \/ ~live /\ Settle(Rejoining, "uncertain") /\ UNCHANGED wire
    /\ UNCHANGED <<transport, live, initialized, shutdown, closed, daemon, counters>>

\* A view cannot be restored, for want of a connection or otherwise.
RestoreFails ==
    /\ Awaits("restoring")
    /\ closed' = closed
    /\ \/ ~live /\ Fail("disconnected", Rejoining, TRUE) /\ UNCHANGED <<closes, failures>>
       \/ Strikes /\ \E code \in {"reconnect_failed", "resync_required"} : Fail(code, Rejoining, TRUE)
    /\ Stays

\* The application reconnects a client that is disconnected.
AppReconnects ==
    /\ ~closed /\ Awaits("none") /\ transport = 0
    /\ Reconnect
    /\ UNCHANGED <<closed, delivery, wire, daemon, counters>>

Close ==
    /\ MayClose /\ ~closed /\ closed' = TRUE
    /\ Fail("disconnected", ReconnectCallers, Awaits("negotiating"))
    /\ Stays /\ UNCHANGED <<closes, failures>>

-----------------------------------------------------------------------------
Opening == Connected \/ ConnectFails \/ Negotiated \/ HandshakeFails \/ Restored \/ RestoreFails

Serving(d) == \/ \E n \in 0..2 : Arrive(<<d, n, transport>>)
              \/ \E r \in {"ok", "refused"} : Decide(d, r)
              \/ DaemonResponds(d)

ClientNext ==
    \/ \E d \in Deliveries : DeliverPrompt(d) \/ Serving(d) \/ Turned(d)
    \/ \E w \in wire : w[3] # transport /\ Arrive(w)
    \/ PeerCloses \/ CloseReported \/ Breaks \/ Opening \/ AppReconnects \/ Close

ClientSpec == ClientInit /\ [][ClientNext]_clientVars

\* The daemon answers what it was asked, the transport reports a close, and an attempt to
\* connect, to negotiate (it has a timeout) or to restore the views comes to an end.
ClientFairSpec ==
    /\ ClientSpec
    /\ WF_clientVars(CloseReported) /\ WF_clientVars(Opening)
    /\ \A d \in Deliveries : WF_clientVars(Serving(d))

-----------------------------------------------------------------------------
\* The content of a delivery is accepted at most once, whatever connections it takes: by
\* the request, its retry, or the enqueue that follows a steering message (request,
\* deliverPrompt, CommandJournal.execute).
TakenOnce == \A d \in Deliveries : taken[d] <= 1

\* A delivery that is shown as confirmed was accepted, and after an answer to its key the
\* daemon accepts nothing more of it, although an earlier attempt may still be on its way:
\* the user who tries again after a refusal does not meet the first try later.
AnswersHold ==
    /\ [](\A d \in Deliveries : result[d] = "confirmed" => taken[d] = 1)
    /\ [][\A d \in Deliveries :
             result[d] \in {"confirmed", "refused"} => taken'[d] = taken[d]]_clientVars

\* A request of an earlier connection that is still pending.
Stranded(d) == stage[d] = "waiting" /\ via[d] # transport

\* Every delivery is settled, unless a reconnect took its connection away under it.
SettledOrStranded == \A d \in Deliveries : stage[d] # "idle" ~> stage[d] = "settled" \/ Stranded(d)

\* packages/sdk/README.md: "If a response is lost, the SDK reconnects and repeats the
\* identical request with the same key."
EveryDeliverySettles == \A d \in Deliveries : stage[d] # "idle" ~> stage[d] = "settled"

\* packages/sdk/README.md: deliverPrompt's result "distinguishes completed, accepted,
\* queued, and uncertain delivery", so an error means that nothing was delivered.
FailedIsDefinite == \A d \in Deliveries : result[d] \in {"failed", "refused"} => taken[d] = 0

=============================================================================

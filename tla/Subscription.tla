---------------------------- MODULE Subscription ----------------------------
(***************************************************************************)
(* The SDK's resumable view of a session (packages/sdk/src/subscription.ts *)
(* over client.ts and projector.ts) composed with the daemon's             *)
(* subscriptions.                                                          *)
(*                                                                         *)
(* Three activities share the view's fields: establish() run by a          *)
(* reconnect ("main"), establish() run by a recovery ("recovery"), and the *)
(* chain of live deliveries ("delivery").  Each awaits responses or the    *)
(* application's onEvent; code between two awaits is one step, except that *)
(* the events of one snapshot page are reduced together.                   *)
(*                                                                         *)
(* No client of the repository configures a cursor store, so none is       *)
(* modelled.  The initial state is a view whose start() has completed.     *)
(***************************************************************************)
EXTENDS DaemonSubscriptions

CONSTANT MayClose       \* whether the application may close the view
ASSUME CloseAssumption == MayClose \in BOOLEAN

VARIABLES
    proj,      \* positions of the events in the projector
    gen,       \* this.generation
    bound,     \* whose listener is bound to the client: an establish() or "nobody"
    curSub,    \* currentSubscriptionId, 0 for the empty string
    acked,     \* acknowledgedCursor
    lineage,   \* daemonInstanceId of the view
    seqNo,     \* this.sequence
    hook,      \* the view's reconnect listener is registered
    closed,
    est,       \* the two activities that run establish(), and close()
    chain, stage,      \* live deliveries, and where the first one stands
    hello,     \* client.connection.daemonInstanceId
    reported,  \* since the last establish() began, onResyncRequired ran or a reconnect was rejected
    overrun    \* a superseded run has moved this.sequence

view == <<proj, gen, bound, curSub, acked, lineage, seqNo, hook, closed>>
history == <<reported, overrun>>
vars == <<daemon, channel, faults, view, est, chain, stage, hello, history>>

Runs == {"main", "recovery", "close"}
At(pc) == [pc |-> pc, gen |-> 0, how |-> "resume", cursor |-> None, pending |-> <<>>, code |-> ""]
Idle == At("idle")

Loading == {"subscribing", "paging", "bounding"}    \* the loading flag of establish()

\* Every continuation that waits for nothing has run: what comes from outside, a frame,
\* a disconnect or a handshake, finds the activities at an await.
Settled == /\ \A t \in Runs : est[t].pc # "draining"
           /\ chain = <<>> \/ stage # "next"

(***************************************************************************)
(* The client: requests, rejections and connections                        *)
(***************************************************************************)
\* The requests left once the one of activity t was answered and taken.
Taken(t) == [u \in Activities |-> IF u = t THEN NoCall ELSE [calls[u] EXCEPT !.ahead = @ \ {t}]]

Rejection(call) == [call EXCEPT !.state = "done", !.kind = "error", !.code = "disconnected"]

\* sendRequest for activity t, by activity u after what it awaited.
Request(u, t, kind, s, start, c) ==
    LET left == Taken(u)
        call == [NoCall EXCEPT !.state = "sent", !.kind = kind, !.sub = s, !.start = start,
                               !.cursor = c, !.ahead = {v \in Activities : left[v].state # "none"}]
    IN  calls' = [left EXCEPT ![t] = IF up THEN call ELSE Rejection(call)]

\* fail(): the transport is detached and every pending request but t's is rejected.
Fail(t) ==
    /\ up' = FALSE
    /\ calls' = [u \in Activities |-> IF Taken(t)[u].state = "none" THEN NoCall ELSE Rejection(Taken(t)[u])]
    /\ events' = [s \in Subs |-> <<>>]

Drop ==
    /\ faults < MaxFaults /\ up /\ Settled
    /\ Fail("nobody")
    /\ faults' = faults + 1
    /\ UNCHANGED <<daemon, conn, view, est, chain, stage, hello, history>>

\* The daemon dies with its cursors and subscriptions and starts again.
DaemonRestarts ==
    /\ faults < MaxFaults /\ up /\ Settled
    /\ Fail("nobody")
    /\ instance' = instance + 1
    /\ cursors' = {}
    /\ subs' = [s \in Subs |-> Removed(subs[s])]
    /\ faults' = faults + 1
    /\ UNCHANGED <<log, made, conn, view, est, chain, stage, hello, history>>

Connect ==
    /\ ~up /\ Settled /\ (\A t \in Activities : calls[t] = NoCall) /\ est["main"].pc = "idle" /\ ~closed
    /\ up' = TRUE /\ conn' = conn + 1 /\ hello' = instance
    /\ UNCHANGED <<daemon, calls, events, faults, view, chain, stage, history>>

\* client.reconnect(): the registered view is restored before it succeeds.
ReconnectOnly == Connect /\ UNCHANGED est   \* mutant: the view is not restored
Reconnect == Connect /\ est' = IF hook THEN [est EXCEPT !["main"] = At("joining")] ELSE est

\* subscription.reconnect(candidate) by the application, with a new client.
Rebind == Connect /\ est' = [est EXCEPT !["main"] = At("joining")]

(***************************************************************************)
(* establish()                                                             *)
(***************************************************************************)
Fresh(g) == ~closed /\ g = gen

\* From the call to the subscription request, by activity u, with g as the generation
\* and the projector and the cursor as p and a.  The cursor is offered only to the
\* daemon that made it.
Establish(u, t, g, how, p, a) ==
    LET same == lineage = hello
        cursor == IF how = "resume" /\ same /\ p # {} THEN a ELSE None
    IN  /\ gen' = g
        /\ bound' = t
        /\ hook' = FALSE
        /\ seqNo' = 0
        /\ proj' = IF same THEN p ELSE {}
        /\ acked' = IF same THEN a ELSE None
        /\ est' = [est EXCEPT ![t] = [At("subscribing") EXCEPT !.gen = g, !.how = how,
                                                               !.cursor = cursor]]
        /\ Request(u, t, "subscribe", 0, 0, cursor)
        /\ reported' = FALSE
        /\ UNCHANGED <<curSub, lineage, closed>>

\* reconnect() after the deliveries and the recovery it awaits.
Join ==
    /\ est["main"].pc = "joining" /\ chain = <<>> /\ est["recovery"].pc = "idle"
    /\ ~closed
    /\ Establish("main", "main", gen + 1, "resume", proj, acked)
    /\ UNCHANGED <<daemon, conn, up, events, faults, chain, stage, hello, overrun>>

\* establish() threw: a recovery reports it; a reconnect is rejected and its client
\* fails (AxlClient.reconnect) or is closed (the application's retry loop).
SilentThrow(t) ==                            \* mutant: the application is not told
    /\ est' = [est EXCEPT ![t] = Idle]
    /\ IF t = "main" THEN Fail(t) ELSE calls' = Taken(t) /\ UNCHANGED <<up, events>>
    /\ UNCHANGED reported
Throw(t) ==
    /\ reported' = TRUE
    /\ est' = [est EXCEPT ![t] = Idle]
    /\ IF t = "main" THEN Fail(t) ELSE calls' = Taken(t) /\ UNCHANGED <<up, events>>

JoinClosed ==
    /\ est["main"].pc = "joining" /\ chain = <<>> /\ est["recovery"].pc = "idle"
    /\ closed
    /\ Throw("main")
    /\ UNCHANGED <<daemon, conn, faults, view, chain, stage, hello, overrun>>

\* The catch of establish(): unbind, forget the subscription, unsubscribe it.
Cleanup(t, code) ==
    /\ bound' = "nobody"
    /\ curSub' = 0
    /\ est' = [est EXCEPT ![t] = [At("cleaning") EXCEPT !.how = est[t].how, !.code = code]]
    /\ Request(t, t, "unsubscribe", curSub, 0, None)
    /\ UNCHANGED <<up, events, reported>>

\* The response to t's request, the first of those under way, arrives.
Answered(t, kind) == calls[t].state = "done" /\ calls[t].kind = kind /\ calls[t].ahead = {}
Received(t, kind, pc) == t \in Runs /\ est[t].pc = pc /\ Answered(t, kind)

\* What follows the last page: the boundary is acknowledged unless the view moved on.
Loaded(t) ==
    LET boundary == <<calls[t].sub, calls[t].count - 1>> IN
    IF Fresh(est[t].gen)
    THEN /\ est' = [est EXCEPT ![t].pc = "bounding", ![t].cursor = boundary]
         /\ Request(t, t, "ack", calls[t].sub, 0, boundary)
    ELSE est' = [est EXCEPT ![t] = Idle] /\ calls' = Taken(t)

PageLimit(t) == PageEnd(calls[t].start, calls[t].count)
NextPage(t) ==
    /\ est' = [est EXCEPT ![t].pc = "paging"]
    /\ Request(t, t, "history", calls[t].sub, PageLimit(t), None)

PageEvents(t) == calls[t].start..(PageLimit(t) - 1)
LoadPage(t) == IF PageLimit(t) = calls[t].count THEN Loaded(t) ELSE NextPage(t)

OnSnapshot(t) ==
    /\ Received(t, "snapshot", "subscribing")
    /\ curSub' = calls[t].sub
    /\ lineage' = hello
    /\ proj' = PageEvents(t)
    /\ LoadPage(t)
    /\ UNCHANGED <<daemon, conn, up, events, faults, gen, bound, acked, seqNo, hook, closed,
                   chain, stage, hello, history>>

\* applyEvent of the projector throws missing_parent.
Orphan(position) == position \notin proj /\ position > 0 /\ position - 1 \notin proj

OnPage(t) ==
    /\ Received(t, "page", "paging")
    /\ IF Orphan(calls[t].start)
       THEN Cleanup(t, "missing_parent") /\ UNCHANGED proj
       ELSE /\ proj' = proj \cup PageEvents(t)
            /\ LoadPage(t)
            /\ UNCHANGED <<up, events, bound, curSub, reported>>
    /\ UNCHANGED <<daemon, conn, faults, gen, acked, lineage, seqNo, hook, closed,
                   chain, stage, hello, overrun>>

OnResumed(t) ==
    /\ Received(t, "resumed", "subscribing")
    /\ curSub' = calls[t].sub
    /\ lineage' = hello
    /\ est' = IF Fresh(est[t].gen) THEN [est EXCEPT ![t].pc = "draining"]
                                   ELSE [est EXCEPT ![t] = Idle]
    /\ calls' = Taken(t)
    /\ UNCHANGED <<daemon, conn, up, events, faults, proj, gen, bound, acked, seqNo, hook,
                   closed, chain, stage, hello, history>>

OnBoundary(t) ==
    /\ Received(t, "acked", "bounding")
    /\ IF Fresh(est[t].gen)
       THEN /\ acked' = est[t].cursor
            /\ est' = [est EXCEPT ![t].pc = "draining"]
       ELSE est' = [est EXCEPT ![t] = Idle] /\ UNCHANGED acked
    /\ calls' = Taken(t)
    /\ UNCHANGED <<daemon, conn, up, events, faults, proj, gen, bound, curSub, lineage, seqNo,
                   hook, closed, chain, stage, hello, history>>

\* The request was refused or rejected.  After snapshot_required the second refusal throws
\* without unbind(): the listener that stays behind only holds events back, for an
\* establish() that is over, until the next one unbinds it, so it counts as nobody's.
OnRefused(t) ==
    /\ Received(t, "error", "subscribing")
    /\ IF est[t].cursor # None /\ calls[t].code = "snapshot_required"
       THEN /\ proj' = {} /\ acked' = None
            /\ est' = [est EXCEPT ![t].cursor = None]
            /\ Request(t, t, "subscribe", 0, 0, None)
            /\ UNCHANGED <<up, events, bound, reported>>
       ELSE /\ bound' = "nobody"
            /\ Throw(t)
            /\ UNCHANGED <<proj, acked>>
    /\ UNCHANGED <<daemon, conn, faults, gen, curSub, lineage, seqNo, hook, closed, chain, stage, hello,
                   overrun>>

OnLoadError(t) ==
    /\ \E pc \in {"paging", "bounding", "acking"} : Received(t, "error", pc)
    /\ Cleanup(t, calls[t].code)
    /\ UNCHANGED <<daemon, conn, faults, proj, gen, acked, lineage, seqNo, hook, closed, chain, stage,
                   hello, overrun>>

CursorErrors == {"unknown_cursor", "snapshot_required"}

OnCleaned(t) ==
    /\ Received(t, "unsubscribed", "cleaning")
    /\ IF est[t].how = "resume" /\ est[t].code \in CursorErrors /\ ~closed
       THEN Establish(t, t, gen + 1, "snapshot", {}, None) /\ UNCHANGED <<up, events>>
       ELSE Throw(t) /\ UNCHANGED view
    /\ UNCHANGED <<daemon, conn, faults, chain, stage, hello, overrun>>

OnCleanupFailed(t) ==
    /\ Received(t, "error", "cleaning")
    /\ Throw(t)
    /\ UNCHANGED <<daemon, conn, faults, view, chain, stage, hello, overrun>>

(***************************************************************************)
(* applyEvent, for the events held back while loading                      *)
(***************************************************************************)
Stale(m, g) == ~Fresh(g) \/ m.sub # curSub
Gap(m) == m.seq # seqNo + 1
Rejected(m) == IF Gap(m) THEN "event_sequence_gap" ELSE IF Orphan(m.pos) THEN "missing_parent" ELSE ""

Held(t) == Head(est[t].pending)
Drains(t) == est[t].pc = "draining"

DrainSkip(t) ==
    /\ Drains(t) /\ est[t].pending # <<>> /\ Stale(Held(t), est[t].gen)
    /\ est' = [est EXCEPT ![t].pending = Tail(@)]
    /\ UNCHANGED <<daemon, channel, faults, view, chain, stage, hello, history>>

DrainReduce(t) ==
    /\ Drains(t) /\ est[t].pending # <<>> /\ ~Stale(Held(t), est[t].gen)
    /\ IF Rejected(Held(t)) = ""
       THEN /\ proj' = proj \cup {Held(t).pos}
            /\ est' = [est EXCEPT ![t].pc = "reduced"]
            /\ UNCHANGED <<up, calls, events, bound, curSub, reported>>
       ELSE Cleanup(t, Rejected(Held(t))) /\ UNCHANGED proj
    /\ UNCHANGED <<daemon, conn, faults, gen, acked, lineage, seqNo, hook, closed, chain, stage, hello,
                   overrun>>

\* The event was reduced: the sequence advances, whatever became of the view meanwhile.
DrainAck(t) ==
    /\ est[t].pc = "reduced"
    /\ seqNo' = Held(t).seq
    /\ overrun' = (overrun \/ est[t].gen # gen)
    /\ IF Fresh(est[t].gen)
       THEN /\ est' = [est EXCEPT ![t].pc = "acking"]
            /\ Request(t, t, "ack", Held(t).sub, 0, <<Held(t).sub, Held(t).pos>>)
       ELSE /\ est' = [est EXCEPT ![t].pc = "draining", ![t].pending = Tail(@)]
            /\ UNCHANGED calls
    /\ UNCHANGED <<daemon, conn, up, events, faults, proj, gen, bound, curSub, acked, lineage, hook,
                   closed, chain, stage, hello, reported>>

OnDrainAcked(t) ==
    /\ Received(t, "acked", "acking")
    /\ acked' = IF Fresh(est[t].gen) THEN <<Held(t).sub, Held(t).pos>> ELSE acked
    /\ est' = [est EXCEPT ![t].pc = "draining", ![t].pending = Tail(@)]
    /\ calls' = Taken(t)
    /\ UNCHANGED <<daemon, conn, up, events, faults, proj, gen, bound, curSub, lineage, seqNo,
                   hook, closed, chain, stage, hello, history>>

\* The end of establish(): the view is restored and offers itself to the next reconnect.
Established(t) ==
    /\ Drains(t) /\ est[t].pending = <<>>
    /\ hook' = (hook \/ Fresh(est[t].gen))
    /\ est' = [est EXCEPT ![t] = Idle]
    /\ UNCHANGED <<daemon, channel, faults, proj, gen, bound, curSub, acked, lineage, seqNo, closed,
                   chain, stage, hello, history>>

(***************************************************************************)
(* Live deliveries                                                         *)
(***************************************************************************)
\* The listener of establish() takes a frame: held back while loading, else chained.
OnEvent(s) ==
    LET mine == bound # "nobody" /\ ~closed
        holds == mine /\ est[bound].pc \in Loading
        takes == mine /\ ~holds /\ s = curSub
        m == Head(events[s])
    IN  /\ Settled /\ events[s] # <<>>
        /\ est' = IF holds THEN [est EXCEPT ![bound].pending = Append(@, m)] ELSE est
        /\ chain' = IF takes THEN Append(chain, [frame |-> m, gen |-> gen]) ELSE chain
        /\ events' = [events EXCEPT ![s] = Tail(@)]
        /\ UNCHANGED <<daemon, conn, up, calls, faults, view, stage, hello, history>>

First == Head(chain).frame
FirstFresh == Fresh(Head(chain).gen)
Apply(t) == chain # <<>> /\ stage = t

DeliverSkip ==
    /\ Apply("next") /\ Stale(First, Head(chain).gen)
    /\ chain' = Tail(chain)
    /\ UNCHANGED <<daemon, channel, faults, view, est, stage, hello, history>>

DeliverUnprojected ==     \* mutant: the event is acknowledged and not reduced
    /\ Apply("next") /\ ~Stale(First, Head(chain).gen) /\ Rejected(First) = ""
    /\ stage' = "reduced"
    /\ UNCHANGED <<daemon, channel, faults, view, est, chain, hello, history>>
DeliverReduce ==
    /\ Apply("next") /\ ~Stale(First, Head(chain).gen) /\ Rejected(First) = ""
    /\ proj' = proj \cup {First.pos}
    /\ stage' = "reduced"
    /\ UNCHANGED <<daemon, channel, faults, gen, bound, curSub, acked, lineage, seqNo, hook, closed,
                   est, chain, hello, history>>

\* scheduleRecovery, after onResyncRequired: a new generation; the old subscription, if
\* there is one, is released before establish().
Recover(how) ==
    IF closed \/ est["recovery"].pc # "idle"
    THEN reported' = TRUE /\ calls' = Taken("delivery") /\ UNCHANGED <<view, est>>
    ELSE IF curSub # 0
    THEN /\ reported' = TRUE
         /\ gen' = gen + 1
         /\ bound' = "nobody"
         /\ est' = [est EXCEPT !["recovery"] = [At("unsubscribing") EXCEPT !.how = how]]
         /\ Request("delivery", "recovery", "unsubscribe", curSub, 0, None)
         /\ UNCHANGED <<proj, curSub, acked, lineage, seqNo, hook, closed>>
    ELSE Establish("delivery", "recovery", gen + 2, how, proj, acked)

\* handleDeliveryFailure
Failed(code) ==
    IF code \in CursorErrors \cup {"event_sequence_gap", "missing_parent"}
    THEN Recover(IF code = "event_sequence_gap" THEN "resume" ELSE "snapshot")
    ELSE /\ reported' = TRUE
         /\ bound' = "nobody"
         /\ calls' = Taken("delivery")
         /\ UNCHANGED <<proj, gen, curSub, acked, lineage, seqNo, hook, closed, est>>

DeliverFails ==
    /\ Apply("next") /\ ~Stale(First, Head(chain).gen) /\ Rejected(First) # ""
    /\ Failed(Rejected(First))
    /\ chain' = Tail(chain)
    /\ UNCHANGED <<daemon, conn, up, events, faults, stage, hello, overrun>>

DeliverAck ==
    /\ Apply("reduced")
    /\ seqNo' = First.seq
    /\ overrun' = (overrun \/ Head(chain).gen # gen)
    /\ IF FirstFresh
       THEN /\ stage' = "acking"
            /\ Request("delivery", "delivery", "ack", First.sub, 0, <<First.sub, First.pos>>)
            /\ UNCHANGED chain
       ELSE stage' = "next" /\ chain' = Tail(chain) /\ UNCHANGED calls
    /\ UNCHANGED <<daemon, conn, up, events, faults, proj, gen, bound, curSub, acked, lineage, hook,
                   closed, est, hello, reported>>

OnAcked ==
    /\ Apply("acking") /\ Answered("delivery", "acked")
    /\ acked' = IF FirstFresh THEN <<First.sub, First.pos>> ELSE acked
    /\ chain' = Tail(chain) /\ stage' = "next"
    /\ calls' = Taken("delivery")
    /\ UNCHANGED <<daemon, conn, up, events, faults, proj, gen, bound, curSub, lineage, seqNo,
                   hook, closed, est, hello, history>>

OnAckError ==
    /\ Apply("acking") /\ Answered("delivery", "error")
    /\ IF Head(chain).gen = gen THEN Failed(calls["delivery"].code)
       ELSE calls' = Taken("delivery") /\ UNCHANGED <<view, est, reported>>
    /\ chain' = Tail(chain) /\ stage' = "next"
    /\ UNCHANGED <<daemon, conn, up, events, faults, hello, overrun>>

\* A recovery goes on once the old subscription was released, or could not be.
OnReleased ==
    /\ \E kind \in {"unsubscribed", "error"} : Received("recovery", kind, "unsubscribing")
    /\ Establish("recovery", "recovery", gen + 1, est["recovery"].how, proj, acked)
    /\ UNCHANGED <<daemon, conn, up, events, faults, chain, stage, hello, overrun>>

(***************************************************************************)
(* close() and detach()                                                    *)
(***************************************************************************)
Close ==
    /\ MayClose /\ ~closed
    /\ closed' = TRUE
    /\ gen' = gen + 1
    /\ bound' = "nobody"
    /\ hook' = FALSE
    /\ est' = [est EXCEPT !["close"] = At("joining")]
    /\ UNCHANGED <<daemon, channel, faults, proj, curSub, acked, lineage, seqNo, chain, stage, hello, history>>

CloseUnsubscribes ==
    /\ est["close"].pc = "joining" /\ chain = <<>> /\ est["recovery"].pc = "idle"
    /\ bound' = "nobody"
    /\ curSub' = 0
    /\ IF curSub = 0 THEN est' = [est EXCEPT !["close"] = Idle] /\ UNCHANGED calls
       ELSE /\ est' = [est EXCEPT !["close"] = At("closing")]
            /\ Request("close", "close", "unsubscribe", curSub, 0, None)
    /\ UNCHANGED <<daemon, conn, up, events, faults, proj, gen, acked, lineage, seqNo, hook, closed,
                   chain, stage, hello, history>>

OnClosed ==
    /\ \E kind \in {"unsubscribed", "error"} : Received("close", kind, "closing")
    /\ est' = [est EXCEPT !["close"] = Idle]
    /\ calls' = Taken("close")
    /\ UNCHANGED <<daemon, conn, up, events, faults, view, chain, stage, hello, history>>

-----------------------------------------------------------------------------
Init ==
    /\ log = FirstEvents
    /\ cursors = {[NewCursor(1, log - 1, 1) EXCEPT !.state = "acked"]} /\ made = 1
    /\ subs = <<[conn |-> 1, phase |-> "active", snap |-> log, buffered |-> 0, seq |-> 0,
                 acked |-> <<1, log - 1>>]>>
    /\ instance = 1 /\ hello = 1
    /\ conn = 1 /\ up = TRUE /\ calls = [t \in Activities |-> NoCall] /\ events = <<<<>>>> /\ faults = 0
    /\ proj = 0..(log - 1) /\ gen = 1 /\ bound = "main" /\ curSub = 1 /\ acked = <<1, log - 1>>
    /\ lineage = 1 /\ seqNo = 0 /\ hook = TRUE /\ closed = FALSE
    /\ est = [t \in Runs |-> Idle] /\ chain = <<>> /\ stage = "next"
    /\ reported = FALSE /\ overrun = FALSE

EstablishNext(t) ==
    \/ OnSnapshot(t) \/ OnPage(t) \/ OnResumed(t) \/ OnBoundary(t) \/ OnRefused(t) \/ OnLoadError(t)
    \/ OnCleaned(t) \/ OnCleanupFailed(t)
    \/ DrainSkip(t) \/ DrainReduce(t) \/ DrainAck(t) \/ OnDrainAcked(t) \/ Established(t)

ViewNext ==
    \/ Join \/ JoinClosed
    \/ \E t \in {"main", "recovery"} : EstablishNext(t)
    \/ \E s \in Subs : OnEvent(s)
    \/ DeliverSkip \/ DeliverReduce \/ DeliverFails \/ DeliverAck \/ OnAcked \/ OnAckError
    \/ OnReleased
    \/ CloseUnsubscribes \/ OnClosed

DaemonStep == DaemonNext /\ UNCHANGED <<view, est, chain, stage, hello, history>>

Next == DaemonStep \/ ViewNext \/ Drop \/ DaemonRestarts \/ Reconnect \/ Rebind \/ Close

Spec == Init /\ [][Next]_vars

\* The daemon answers, the client's activities run, and the application reconnects when
\* it is told of a disconnect.  Events, faults, Rebind and Close need not happen.
Fairness ==
    /\ WF_vars(DaemonStep /\ calls' # calls)
    /\ WF_vars(ViewNext)
    /\ WF_vars(Reconnect)
FairSpec == Spec /\ Fairness

-----------------------------------------------------------------------------
\* No event is skipped: what the daemon delivers with the next sequence number always
\* extends the projection (applyEvent never throws missing_parent), across resumption,
\* snapshots and recoveries; and the events held back while loading arrive in order.
NoHoles == ~overrun =>
    /\ stage = "next" /\ chain # <<>> /\ ~Stale(First, Head(chain).gen) /\ ~Gap(First)
         => ~Orphan(First.pos)
    /\ \A t \in {"main", "recovery"} :
         Drains(t) /\ est[t].pending # <<>> /\ ~Stale(Held(t), est[t].gen) => Rejected(Held(t)) = ""

Quiet == /\ up /\ chain = <<>>
         /\ \A s \in Subs : events[s] = <<>>
         /\ \A t \in Runs : est[t].pc = "idle"

\* Once nothing is under way, a view that still listens shows every event of the
\* session: no buffered tail, invalidated snapshot or race of a recovery with a
\* reconnect leaves it silently behind (deliverEvent, bufferSnapshotEvent, establish).
QuietIsCurrent == Quiet /\ bound # "nobody" /\ ~reported /\ ~overrun => proj = 0..(log - 1)

\* The cursor the view would resume from is never ahead of what it has projected, also
\* after a snapshot replaced the projection and was loaded only in part: resuming from
\* it (subscribe with "after") cannot skip an event.
ResumeIsSafe ==
    ~closed /\ ~overrun /\ acked # None /\ lineage = instance /\ Resumable(acked) /\ proj # {}
        => Position(acked) \in proj

\* A view that lost its listener on a live connection has told the application, through
\* onResyncRequired or a rejected reconnect, since it was last established.
LossReported == Quiet /\ ~closed => bound # "nobody" \/ reported

\* Every view ends up showing every event, unless it was closed or the application was
\* told of the loss: a reconnect, a recovery and their races always come to an end.
CatchesUp == <>[](closed \/ reported \/ proj = 0..(log - 1))

\* What client.ts says of onReconnect, "Registers view restoration that must complete
\* before reconnect succeeds": after a reconnect the view listens again.
ReconnectRestores == Quiet /\ ~closed => bound # "nobody"

\* QuietIsCurrent for a view that was told of a loss and listens again: onResyncRequired is
\* followed by a resynchronisation.
ResyncFollows == Quiet /\ bound # "nobody" /\ ~overrun => proj = 0..(log - 1)

\* this.sequence counts the deliveries of the present generation only.
SequenceIsOwn == ~overrun

=============================================================================

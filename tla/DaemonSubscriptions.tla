------------------------ MODULE DaemonSubscriptions ------------------------
(***************************************************************************)
(* The daemon's side of event subscriptions                                *)
(* (packages/daemon/src/daemon.ts): frozen paged snapshots, the live tail  *)
(* buffered while a client pages, acknowledged cursors with their limit    *)
(* and lifetime, and the activation of a subscription after a response.    *)
(*                                                                         *)
(* One session with a linear history: an event is its position.  A cursor  *)
(* is named by the subscription it was made for and its position.  The     *)
(* byte limits of pages and tails are event counts here, and transient     *)
(* activity frames, which only share those limits, are left out.           *)
(*                                                                         *)
(* Each activity of the client awaits at most one request.  A request of   *)
(* this module runs from its frame to its response in microtasks only, so  *)
(* it is one step; requests are executed, and their responses received, in *)
(* the order in which they were sent.  The events of each subscription     *)
(* travel in a queue of their own: a tail may be sent before or after the  *)
(* response that activates it, and the listener sees the events of a chunk *)
(* before the code that awaits a response in it runs.                      *)
(***************************************************************************)
EXTENDS Integers, Sequences, FiniteSets

CONSTANTS FirstEvents,  \* events in the session when the view is opened
          MaxEvents,    \* bound on the session's events
          PageSize,     \* MAX_SNAPSHOT_PAGE_EVENTS
          TailLimit,    \* MAX_SNAPSHOT_TAIL_EVENTS
          CursorLimit,  \* MAX_EVENT_CURSORS
          MaxFaults,    \* bound on dropped connections, restarts, expiries and evictions
          None

ASSUME SubscriptionBounds ==
    /\ FirstEvents \in Nat \ {0} /\ MaxEvents \in Nat /\ FirstEvents <= MaxEvents
    /\ PageSize \in Nat \ {0} /\ TailLimit \in Nat /\ CursorLimit \in Nat \ {0}
    /\ MaxFaults \in Nat
    /\ None \notin Nat \X Int

VARIABLES
    log,       \* number of events of the session
    cursors,   \* this.cursors: each with the time at which it was made
    made,      \* the time of the last cursor
    subs,      \* the subscriptions ever made, in order; one is in state.subscriptions of the
               \* connection conn, 0 once it was removed
    instance,  \* daemonInstanceId
    conn, up,  \* the client's connection, and whether its transport is attached
    calls,     \* this.pending of the client: for each activity the request it awaits, sent or
               \* answered, and the activities whose requests are ahead of it
    events,    \* for each subscription, the events on their way to the client
    faults

daemon == <<log, cursors, made, subs, instance>>
channel == <<conn, up, calls, events>>

Activities == {"main", "recovery", "close", "delivery"}
NoCall == [state |-> "none", kind |-> "", sub |-> 0, start |-> 0, count |-> 0,
           cursor |-> None, code |-> "", ahead |-> {}]

Subs == 1..Len(subs)
Position(c) == c[2]
Boundary(s) == <<s, subs[s].snap - 1>>

\* Until it streams, a subscription is "paging", or "served" once its final page was sent;
\* its snapshot may become "invalid" instead.
Live(s) == subs[s].conn # 0 /\ subs[s].phase # "invalid"

\* createCursor for each of a run of new cursors: the oldest are evicted at the limit.
WithCursors(cs, new) ==
    LET all == cs \cup new IN
    {c \in all : Cardinality({d \in all : d.at >= c.at}) <= CursorLimit}

NewCursor(s, position, at) == [id |-> <<s, position>>, owner |-> s, state |-> "sent", at |-> at]

\* releaseSubscriptionCursors
WithoutCursors(cs, s) == {c \in cs : c.owner # s}

(***************************************************************************)
(* Delivery of events to subscriptions                                     *)
(***************************************************************************)
\* deliverEvent for the positions from..to-1 of subscription s, after sequence seq: the
\* frames sent, and the cursors created for them.
Frames(s, seq, from, to) ==
    [i \in 1..(to - from) |-> [sub |-> s, seq |-> seq + i, pos |-> from + i - 1]]
FrameCursors(s, from, to) == {NewCursor(s, from + i - 1, made + i) : i \in 1..(to - from)}

\* A frame reaches the client only over the connection it still has.
Reaches(s) == up /\ subs[s].conn = conn

\* invalidateSnapshot, with its cursors released beside it.
Invalidated(sub) == [sub EXCEPT !.phase = "invalid", !.buffered = 0]

\* A subscription is removed from its connection.
Removed(sub) == [sub EXCEPT !.conn = 0, !.buffered = 0]

Streams(s) == Live(s) /\ subs[s].phase = "active"
NeverBuffers(s) == FALSE             \* mutant: an event during paging is dropped
Buffers(s) == Live(s) /\ subs[s].phase # "active" /\ subs[s].buffered < TailLimit
Overflows(s) == Live(s) /\ subs[s].phase # "active" /\ subs[s].buffered >= TailLimit

\* The session stored an event: the listener of every live subscription runs.  An
\* active one sends it; another buffers it, or is invalidated when its tail is full.
EventStored ==
    /\ log < MaxEvents
    /\ log' = log + 1
    /\ cursors' = WithCursors({c \in cursors : ~\E s \in Subs : Overflows(s) /\ c.owner = s},
                              {NewCursor(s, log, made + s) : s \in {r \in Subs : Streams(r)}})
    /\ made' = made + Len(subs)
    /\ events' = [s \in Subs |-> IF Streams(s) /\ Reaches(s)
                                 THEN events[s] \o Frames(s, subs[s].seq, log, log + 1)
                                 ELSE events[s]]
    /\ subs' = [s \in Subs |-> CASE Streams(s) -> [subs[s] EXCEPT !.seq = @ + 1]
                                 [] Buffers(s) -> [subs[s] EXCEPT !.buffered = @ + 1]
                                 [] Overflows(s) -> Invalidated(subs[s])
                                 [] OTHER -> subs[s]]
    /\ UNCHANGED <<instance, conn, up, calls, faults>>

(***************************************************************************)
(* Requests                                                                *)
(***************************************************************************)
\* The request of activity t is the next for the daemon to execute.
Executes(t, kind) == /\ calls[t].state = "sent" /\ calls[t].kind = kind
                     /\ \A u \in calls[t].ahead : calls[u].state = "done"

\* handleLine: the response to it.
Respond(t, kind, s, start, count, code) ==
    /\ calls' = [calls EXCEPT ![t] = [@ EXCEPT !.state = "done", !.kind = kind, !.sub = s,
                                               !.start = start, !.count = count, !.code = code]]
    /\ UNCHANGED <<log, instance, conn, up, faults>>

Success(t, kind) == Respond(t, kind, calls[t].sub, 0, 0, "")
Failure(t, code) == Respond(t, "error", calls[t].sub, 0, 0, code)

\* buildSnapshotPage: the events from start up to PageEnd - 1 of a snapshot of n.
PageEnd(start, n) == IF start + PageSize < n THEN start + PageSize ELSE n

NewSub == [conn |-> conn, phase |-> "paging", snap |-> 0, buffered |-> 0, seq |-> 0, acked |-> None]
Served(start, n) == IF PageEnd(start, n) = n THEN "served" ELSE "paging"

\* subscribe without a cursor: a snapshot frozen at the events there are, its boundary
\* cursor and its first page.
SubscribeSnapshot(t) ==
    LET s == Len(subs) + 1 IN
    /\ Executes(t, "subscribe") /\ calls[t].cursor = None
    /\ cursors' = WithCursors(cursors, {NewCursor(s, log - 1, made + 1)})
    /\ made' = made + 1
    /\ subs' = Append(subs, [NewSub EXCEPT !.snap = log, !.phase = Served(0, log)])
    /\ events' = Append(events, <<>>)
    /\ Respond(t, "snapshot", s, 0, log, "")

\* subscribe after a cursor: known, acknowledged, and with a tail within the limit.
Resumable(c) == \E r \in cursors : r.id = c /\ r.state = "acked"
TailFromNext(c) == Position(c) + 2   \* mutant: resumes one event too far
TailFrom(c) == Position(c) + 1
TailOf(c) == log - TailFrom(c)

SubscribeResumed(t) ==
    LET s == Len(subs) + 1
        after == calls[t].cursor
    IN  /\ Executes(t, "subscribe") /\ after # None
        /\ Resumable(after) /\ TailOf(after) <= TailLimit
        /\ cursors' = WithCursors({[r EXCEPT !.owner = IF r.id = after THEN s ELSE @] : r \in cursors},
                                  FrameCursors(s, TailFrom(after), log))
        /\ made' = made + TailOf(after)
        /\ subs' = Append(subs, [NewSub EXCEPT !.phase = "active", !.snap = TailFrom(after),
                                               !.seq = TailOf(after), !.acked = after])
        /\ events' = Append(events, Frames(s, 0, TailFrom(after), log))
        /\ Respond(t, "resumed", s, 0, 0, "")

SubscribeRefused(t) ==
    LET after == calls[t].cursor IN
    /\ Executes(t, "subscribe") /\ after # None
    /\ ~(Resumable(after) /\ TailOf(after) <= TailLimit)
    /\ cursors' = {r \in cursors : ~(r.id = after /\ r.state = "acked")}
    /\ Failure(t, "snapshot_required")
    /\ UNCHANGED <<made, subs, events>>

\* state.subscriptions of the connection that asks, and assertSnapshotAvailable.
Attached(s) == s \in Subs /\ subs[s].conn = conn

SnapshotPage(t) ==
    LET s == calls[t].sub IN
    /\ Executes(t, "history")
    /\ IF Attached(s) /\ subs[s].phase # "invalid"
       THEN /\ Respond(t, "page", s, calls[t].start, subs[s].snap, "")
            /\ subs' = [subs EXCEPT ![s].phase = IF @ = "paging" THEN Served(calls[t].start, subs[s].snap)
                                                              ELSE @]
       ELSE Failure(t, "snapshot_required") /\ UNCHANGED subs
    /\ UNCHANGED <<cursors, made, events>>

\* acknowledge, in the order of its checks.
AckRefusal(s, c) ==
    CASE ~Attached(s) -> "unknown_subscription"
      [] Attached(s) /\ subs[s].phase = "invalid" -> "snapshot_required"
      [] Attached(s) /\ subs[s].phase # "invalid" /\ ~\E r \in cursors : r.id = c /\ r.owner = s -> "unknown_cursor"
      [] Attached(s) /\ subs[s].phase = "paging" /\ c = Boundary(s) /\ (\E r \in cursors : r.id = c /\ r.owner = s)
           -> "snapshot_required"
      [] OTHER -> ""

AcknowledgedPosition(s) == IF subs[s].acked = None THEN -2 ELSE Position(subs[s].acked)

\* The records of an acknowledged cursor, of the ones it supersedes, and of the others.
Acked(c, s, advances) ==
    {[r EXCEPT !.state = IF r.id = c THEN "acked" ELSE @] :
        r \in {q \in cursors : q.id = c \/ ~advances \/ q.owner # s \/ Position(q.id) > Position(c)}}

Acknowledge(t) ==
    LET s == calls[t].sub
        c == calls[t].cursor
        advances == Position(c) >= AcknowledgedPosition(s)
        activates == c = Boundary(s) /\ subs[s].phase # "active"
        from == IF activates THEN log - subs[s].buffered ELSE log
    IN  /\ Executes(t, "ack")
        /\ AckRefusal(s, c) = ""
        /\ cursors' = WithCursors(Acked(c, s, advances), FrameCursors(s, from, log))
        /\ made' = made + (log - from)
        /\ subs' = [subs EXCEPT ![s].phase = IF activates THEN "active" ELSE @,
                                ![s].seq = @ + (log - from),
                                ![s].buffered = IF activates THEN 0 ELSE @,
                                ![s].acked = IF advances THEN c ELSE @]
        /\ events' = [events EXCEPT ![s] = @ \o Frames(s, subs[s].seq, from, log)]
        /\ Success(t, "acked")

AcknowledgeRefused(t) ==
    /\ Executes(t, "ack")
    /\ AckRefusal(calls[t].sub, calls[t].cursor) # ""
    /\ Failure(t, AckRefusal(calls[t].sub, calls[t].cursor))
    /\ UNCHANGED <<cursors, made, subs, events>>

Unsubscribe(t) ==
    LET s == calls[t].sub IN
    /\ Executes(t, "unsubscribe")
    /\ IF Attached(s)
       THEN /\ cursors' = WithoutCursors(cursors, s)
            /\ subs' = [subs EXCEPT ![s] = Removed(@)]
            /\ Success(t, "unsubscribed")
       ELSE /\ Failure(t, "unknown_subscription")
            /\ UNCHANGED <<cursors, subs>>
    /\ UNCHANGED <<made, events>>

(***************************************************************************)
(* The daemon notices a closed socket: cleanup keeps what can be resumed.  *)
(***************************************************************************)
Gone(s, c) == s \in Subs /\ subs[s].conn = c
Releases(r, c) == Gone(r.owner, c) /\ r.id # subs[r.owner].acked

ConnectionClosed(c) ==
    /\ ~(up /\ c = conn)
    /\ \E s \in Subs : Gone(s, c)
    /\ cursors' = {r \in cursors : ~Releases(r, c)}
    /\ subs' = [s \in Subs |-> IF Gone(s, c) THEN Removed(subs[s]) ELSE subs[s]]
    /\ UNCHANGED <<log, made, instance, channel, faults>>

(***************************************************************************)
(* Time, and other clients                                                 *)
(***************************************************************************)
\* pruneCursors: lifetimes are equal, so the oldest cursor expires first.
CursorExpires ==
    /\ faults < MaxFaults
    /\ \E r \in cursors : /\ \A q \in cursors : r.at <= q.at
                          /\ cursors' = cursors \ {r}
    /\ faults' = faults + 1
    /\ UNCHANGED <<log, made, subs, instance, channel>>

\* The presence timer, or the next use: a snapshot that is not yet active has outlived
\* its idle or absolute lifetime.
SnapshotExpires(s) ==
    /\ faults < MaxFaults /\ Live(s) /\ subs[s].phase # "active"
    /\ subs' = [subs EXCEPT ![s] = Invalidated(@)]
    /\ cursors' = WithoutCursors(cursors, s)
    /\ faults' = faults + 1
    /\ UNCHANGED <<log, made, instance, channel>>

\* Another client's subscription (0) is sent an event.
OtherCursor ==
    /\ faults < MaxFaults
    /\ cursors' = WithCursors(cursors, {NewCursor(0, log - 1, made + 1)})
    /\ made' = made + 1
    /\ faults' = faults + 1
    /\ UNCHANGED <<log, subs, instance, channel>>

DaemonNext ==
    \/ EventStored
    \/ \E t \in Activities :
         \/ SubscribeSnapshot(t) \/ SubscribeResumed(t) \/ SubscribeRefused(t)
         \/ SnapshotPage(t) \/ Acknowledge(t) \/ AcknowledgeRefused(t) \/ Unsubscribe(t)
    \/ \E c \in 1..conn : ConnectionClosed(c)
    \/ CursorExpires \/ OtherCursor
    \/ \E s \in Subs : SnapshotExpires(s)

=============================================================================

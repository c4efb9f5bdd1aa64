------------------------ MODULE SubscriptionProofs ------------------------
(***************************************************************************)
(* Machine-checked proofs about Subscription and DaemonSubscriptions, for  *)
(* any number of events, any page and tail size and cursor limit, and any  *)
(* number of faults.                                                       *)
(*                                                                         *)
(* The steps are described twice. The lemmas named ...Facts turn each      *)
(* action into its effect on the calls, the subscriptions and the runs,    *)
(* and show that it keeps the types; the invariants are then proved from   *)
(* the effects, in groups of steps (RunActions, DeliveryActions,           *)
(* DaemonActions, OtherActions and ConnectionActions for the frames; the   *)
(* lemmas named Loss..., Prefix... and Requests... for the others).        *)
(***************************************************************************)
EXTENDS Subscription, FiniteSetTheorems, SequenceTheorems, TLAPS

(***************************************************************************)
(* Types                                                                   *)
(***************************************************************************)
Cursor == Nat \X Int
Kinds == {"", "subscribe", "history", "ack", "unsubscribe",
          "snapshot", "resumed", "page", "acked", "unsubscribed", "error"}
Codes == {"", "disconnected", "snapshot_required", "unknown_subscription", "unknown_cursor",
          "missing_parent", "event_sequence_gap"}
Stages == {"idle", "joining", "unsubscribing", "subscribing", "paging", "bounding",
           "draining", "reduced", "acking", "cleaning", "closing"}
CursorOrNone == Cursor \cup {None}
Frame == [sub : Nat, seq : Nat, pos : Int]
Record == [id : Cursor, owner : Nat, state : {"sent", "acked"}, at : Nat]
Sub == [conn : Nat, phase : {"paging", "served", "active", "invalid"}, snap : Nat, buffered : Nat,
        seq : Nat, acked : CursorOrNone]
Call == [state : {"none", "sent", "done"}, kind : Kinds, sub : Nat, start : Nat, count : Nat,
         cursor : CursorOrNone, code : Codes, ahead : SUBSET Activities]
Run == [pc : Stages, gen : Nat, how : {"resume", "snapshot"}, cursor : CursorOrNone, pending : Seq(Frame),
        code : Codes]

\* What a subscription x has sent and buffered, after its snapshot of x.snap events, when the
\* session has n: while it is live that is every event since, in one place or the other.
SubOK(x, n) == /\ x.snap >= 1 /\ x.snap + x.seq + x.buffered <= n
               /\ x.conn # 0 /\ x.phase # "invalid" => x.snap + x.seq + x.buffered = n
               /\ x.phase = "active" => x.buffered = 0
               /\ x.phase # "active" => x.seq = 0
               /\ x.conn = 0 \/ x.phase = "invalid" => x.buffered = 0

DaemonTypeOK ==
    /\ log \in Nat /\ log >= 1 /\ made \in Nat /\ instance \in Nat
    /\ IsFiniteSet(cursors) /\ cursors \subseteq Record
    /\ \A r \in cursors : r.id[2] \in 0..(log - 1)
    /\ subs \in Seq(Sub)
    /\ \A s \in Subs : SubOK(subs[s], log)

ChannelTypeOK ==
    /\ conn \in Nat /\ conn >= 1 /\ up \in BOOLEAN /\ faults \in Nat
    /\ calls \in [Activities -> Call] /\ \A v \in Activities : calls[v].sub \in 0..Len(subs)
    /\ events \in Seq(Seq(Frame)) /\ Len(events) = Len(subs)
    /\ \A s \in Subs : subs[s].conn <= conn

ViewTypeOK ==
    /\ proj \subseteq Nat /\ gen \in Nat /\ bound \in {"nobody", "main", "recovery"}
    /\ curSub \in 0..Len(subs) /\ acked \in CursorOrNone /\ lineage \in Nat /\ hello \in Nat
    /\ seqNo \in Nat /\ hook \in BOOLEAN /\ closed \in BOOLEAN
    /\ est \in [Runs -> Run]
    /\ \A t \in Runs : est[t].pc \in {"reduced", "acking"} => est[t].pending # <<>>
    /\ stage # "next" => chain # <<>>
    /\ chain \in Seq([frame : Frame, gen : Nat]) /\ stage \in {"next", "reduced", "acking"}
    /\ reported \in BOOLEAN /\ overrun \in BOOLEAN

TypeOK == DaemonTypeOK /\ ChannelTypeOK /\ ViewTypeOK

(***************************************************************************)
(* Requests: what Taken, Request, Fail and Respond make of the calls under *)
(* way.                                                                    *)
(***************************************************************************)
\* Two calls that differ in what is ahead of them at most.
Same(c, d) == /\ c.state = d.state /\ c.kind = d.kind /\ c.sub = d.sub /\ c.start = d.start
              /\ c.count = d.count /\ c.cursor = d.cursor /\ c.code = d.code

LEMMA NoCallType == NoCall \in Call
BY DEF NoCall, Call, CursorOrNone, Kinds, Codes

LEMMA NoCallFields == /\ NoCall.state = "none" /\ NoCall.sub = 0 /\ NoCall.kind = "" /\ NoCall.start = 0
                      /\ NoCall.ahead = {} /\ NoCall.cursor = None /\ NoCall.code = ""
BY DEF NoCall

LEMMA Literals == /\ "disconnected" \in Codes /\ "" \in Codes /\ "error" \in Kinds
BY DEF Codes, Kinds

LEMMA RejectionFacts ==
    ASSUME NEW c \in Call
    PROVE  /\ Rejection(c) \in Call /\ Rejection(c).state = "done" /\ Rejection(c).kind = "error"
           /\ Rejection(c).code = "disconnected" /\ Rejection(c).sub = c.sub /\ Rejection(c).start = c.start
           /\ Rejection(c).count = c.count /\ Rejection(c).cursor = c.cursor /\ Rejection(c).ahead = c.ahead
BY Literals DEF Rejection, Call

IsTaken(t) ==
    /\ calls' \in [Activities -> Call]
    /\ t \in Activities => calls'[t] = NoCall
    /\ \A v \in Activities : v # t => Same(calls'[v], calls[v]) /\ calls'[v].ahead = calls[v].ahead \ {t}

LEMMA TakenCalls ==
    ASSUME calls \in [Activities -> Call], NEW t, calls' = Taken(t)
    PROVE  IsTaken(t)
BY NoCallType DEF IsTaken, Taken, Call, Same

Requested(u, t, kind, s, start, c) ==
    /\ calls' \in [Activities -> Call]
    /\ u # t => calls'[u] = NoCall
    /\ \A v \in Activities \ {u, t} : Same(calls'[v], calls[v]) /\ calls'[v].ahead = calls[v].ahead \ {u}
    /\ calls'[t].sub = s /\ calls'[t].start = start /\ calls'[t].cursor = c /\ calls'[t].count = 0
    /\ calls'[t].ahead = {v \in Activities \ {u} : calls[v].state # "none"}
    /\ up => calls'[t].state = "sent" /\ calls'[t].kind = kind /\ calls'[t].code = ""
    /\ ~up => calls'[t].state = "done" /\ calls'[t].kind = "error" /\ calls'[t].code = "disconnected"

LEMMA RequestCalls ==
    ASSUME calls \in [Activities -> Call], up \in BOOLEAN, NEW u \in Activities, NEW t \in Activities,
           NEW kind \in Kinds, NEW s \in Nat, NEW start \in Nat, NEW c \in CursorOrNone,
           Request(u, t, kind, s, start, c)
    PROVE  Requested(u, t, kind, s, start, c)
<1> DEFINE left == Taken(u)
<1> DEFINE new == [NoCall EXCEPT !.state = "sent", !.kind = kind, !.sub = s, !.start = start,
                               !.cursor = c, !.ahead = {v \in Activities : left[v].state # "none"}]
<1>1. /\ left \in [Activities -> Call] /\ left[u] = NoCall
      /\ \A v \in Activities : v # u => Same(left[v], calls[v]) /\ left[v].ahead = calls[v].ahead \ {u}
  BY NoCallType DEF Taken, Call, Same
<1>2. {v \in Activities : left[v].state # "none"} = {v \in Activities \ {u} : calls[v].state # "none"}
  <2> HIDE DEF left
  <2>1. \A v \in Activities : left[v].state # "none" <=> v # u /\ calls[v].state # "none"
    <3>1. NoCall.state = "none"
      BY DEF NoCall
    <3> QED BY <1>1, <3>1 DEF Same
  <2> QED BY <2>1, Zenon
<1>3. calls' = [left EXCEPT ![t] = IF up THEN new ELSE Rejection(new)]
  BY DEF Request
<1>4. /\ new \in Call /\ new.state = "sent" /\ new.kind = kind /\ new.sub = s /\ new.start = start /\ new.cursor = c
      /\ new.code = "" /\ new.count = 0 /\ new.ahead = {v \in Activities \ {u} : calls[v].state # "none"}
  <2> HIDE DEF left
  <2> QED BY <1>2, Literals DEF NoCall, Call
<1> HIDE DEF left, new
<1>5. /\ Rejection(new) \in Call
      /\ Rejection(new).state = "done" /\ Rejection(new).kind = "error" /\ Rejection(new).code = "disconnected"
      /\ Rejection(new).sub = s /\ Rejection(new).start = start /\ Rejection(new).cursor = c /\ Rejection(new).count = 0
      /\ Rejection(new).ahead = new.ahead
  BY <1>4, RejectionFacts
<1> DEFINE last == IF up THEN new ELSE Rejection(new)
<1>6. /\ last \in Call /\ last.sub = s /\ last.start = start /\ last.cursor = c /\ last.count = 0 /\ last.ahead = new.ahead
      /\ up => last.state = "sent" /\ last.kind = kind /\ last.code = ""
      /\ ~up => last.state = "done" /\ last.kind = "error" /\ last.code = "disconnected"
  BY <1>4, <1>5
<1>7. calls' = [left EXCEPT ![t] = last]
  BY <1>3
<1> HIDE DEF last
<1>8. calls'[t] = last /\ calls' \in [Activities -> Call] /\ \A v \in Activities : v # t => calls'[v] = left[v]
  BY <1>1, <1>6, <1>7
<1> QED
  BY <1>1, <1>4, <1>6, <1>8 DEF Requested

IsFailed(t) ==
    /\ calls' \in [Activities -> Call] /\ up' = FALSE
    /\ \A v \in Activities : v = t \/ calls[v].state = "none" => calls'[v] = NoCall
    /\ \A v \in Activities : v # t /\ calls[v].state # "none" =>
         /\ calls'[v].state = "done" /\ calls'[v].kind = "error" /\ calls'[v].code = "disconnected"
         /\ calls'[v].sub = calls[v].sub /\ calls'[v].start = calls[v].start /\ calls'[v].count = calls[v].count
         /\ calls'[v].cursor = calls[v].cursor /\ calls'[v].ahead = calls[v].ahead \ {t}
    /\ events' = [s \in Subs |-> <<>>]

LEMMA FailCalls ==
    ASSUME calls \in [Activities -> Call], NEW t, Fail(t)
    PROVE  IsFailed(t)
<1> DEFINE left == Taken(t)
<1>1. /\ left \in [Activities -> Call] /\ (t \in Activities => left[t] = NoCall)
      /\ \A v \in Activities : v # t => Same(left[v], calls[v]) /\ left[v].ahead = calls[v].ahead \ {t}
  BY NoCallType DEF Taken, Call, Same
<1>2. calls' = [u \in Activities |-> IF left[u].state = "none" THEN NoCall ELSE Rejection(left[u])]
  BY DEF Fail
<1>3. up' = FALSE /\ events' = [s \in Subs |-> <<>>]
  BY DEF Fail
<1> HIDE DEF left
<1>4. \A v \in Activities : /\ Rejection(left[v]) \in Call
      /\ Rejection(left[v]).state = "done" /\ Rejection(left[v]).kind = "error" /\ Rejection(left[v]).code = "disconnected"
      /\ Rejection(left[v]).sub = left[v].sub /\ Rejection(left[v]).start = left[v].start
      /\ Rejection(left[v]).cursor = left[v].cursor /\ Rejection(left[v]).count = left[v].count
      /\ Rejection(left[v]).ahead = left[v].ahead
  BY <1>1, RejectionFacts
<1>5. NoCall.state = "none"
  BY DEF NoCall
<1> QED
  BY <1>1, <1>2, <1>3, <1>4, <1>5, NoCallType DEF Same, IsFailed

Response(d, kind, s, start, count, code) ==
    [d EXCEPT !.state = "done", !.kind = kind, !.sub = s, !.start = start, !.count = count, !.code = code]

LEMMA ResponseFacts ==
    ASSUME NEW d \in Call, NEW kind \in Kinds, NEW s \in Nat,
           NEW start \in Nat, NEW count \in Nat, NEW code \in Codes,
           NEW new, new = Response(d, kind, s, start, count, code)
    PROVE  /\ new \in Call /\ new.state = "done" /\ new.kind = kind /\ new.sub = s /\ new.start = start
           /\ new.count = count /\ new.code = code /\ new.cursor = d.cursor /\ new.ahead = d.ahead
BY DEF Call, Response

Responded(t, kind, s, start, count, code) ==
    /\ calls' \in [Activities -> Call]
    /\ \A v \in Activities : v # t => calls'[v] = calls[v]
    /\ calls'[t].state = "done" /\ calls'[t].kind = kind /\ calls'[t].sub = s /\ calls'[t].start = start
    /\ calls'[t].count = count /\ calls'[t].code = code
    /\ calls'[t].cursor = calls[t].cursor /\ calls'[t].ahead = calls[t].ahead
    /\ UNCHANGED <<log, instance, conn, up, faults>>

LEMMA RespondCalls ==
    ASSUME calls \in [Activities -> Call], NEW t \in Activities, NEW kind \in Kinds, NEW s \in Nat,
           NEW start \in Nat, NEW count \in Nat, NEW code \in Codes, Respond(t, kind, s, start, count, code)
    PROVE  Responded(t, kind, s, start, count, code)
<1>1. calls' = [calls EXCEPT ![t] = Response(calls[t], kind, s, start, count, code)]
  BY DEF Respond, Response
<1>2. calls[t] \in Call /\ calls'[t] = Response(calls[t], kind, s, start, count, code)
  BY <1>1
<1>3. /\ calls'[t] \in Call
      /\ calls'[t].state = "done" /\ calls'[t].kind = kind /\ calls'[t].sub = s /\ calls'[t].start = start
      /\ calls'[t].count = count /\ calls'[t].code = code
      /\ calls'[t].cursor = calls[t].cursor /\ calls'[t].ahead = calls[t].ahead
  BY <1>2, ResponseFacts
<1>4. UNCHANGED <<log, instance, conn, up, faults>>
  BY DEF Respond
<1> QED
  BY <1>1, <1>2, <1>3, <1>4 DEF Responded

(***************************************************************************)
(* Cursors and subscriptions: the operators of the daemon.                 *)
(***************************************************************************)
LEMMA FramesFacts ==
    ASSUME NEW s \in Nat, NEW seq \in Nat, NEW from \in Int, NEW to \in Int, to - from \in Nat
    PROVE  /\ Frames(s, seq, from, to) \in Seq(Frame) /\ Len(Frames(s, seq, from, to)) = to - from
           /\ \A i \in 1..(to - from) : Frames(s, seq, from, to)[i] = [sub |-> s, seq |-> seq + i, pos |-> from + i - 1]
BY DEF Frames, Frame

LEMMA WithCursorsFacts ==
    ASSUME NEW cs, NEW new, IsFiniteSet(cs), IsFiniteSet(new), cs \subseteq Record, new \subseteq Record
    PROVE  /\ IsFiniteSet(WithCursors(cs, new)) /\ WithCursors(cs, new) \subseteq cs \cup new
           /\ \A r \in WithCursors(cs, new) : \A q \in cs \cup new : q.at >= r.at => q \in WithCursors(cs, new)
<1> DEFINE all == cs \cup new
           Later(r) == {d \in all : d.at >= r.at}
<1>1. WithCursors(cs, new) = {r \in all : Cardinality(Later(r)) <= CursorLimit}
  BY DEF WithCursors
<1>2. IsFiniteSet(all) /\ all \subseteq Record
  BY FS_Union
<1>3. IsFiniteSet(WithCursors(cs, new))
  BY <1>1, <1>2, FS_Subset
<1>4. ASSUME NEW r \in WithCursors(cs, new), NEW q \in all, q.at >= r.at
      PROVE  q \in WithCursors(cs, new)
  <2>1. Later(q) \subseteq Later(r)
    BY <1>1, <1>2, <1>4 DEF Record
  <2>2. IsFiniteSet(Later(r)) /\ IsFiniteSet(Later(q))
    BY <1>2, FS_Subset
  <2>3. /\ Cardinality(Later(q)) <= Cardinality(Later(r))
        /\ Cardinality(Later(q)) \in Nat /\ Cardinality(Later(r)) \in Nat
    BY <2>1, <2>2, FS_Subset, FS_CardinalityType
  <2>4. Cardinality(Later(r)) <= CursorLimit
    BY <1>1
  <2> HIDE DEF Later
  <2>5. Cardinality(Later(q)) <= CursorLimit
    BY <2>3, <2>4, SubscriptionBounds DEF SubscriptionBounds
  <2> QED
    BY <1>1, <2>5
<1> QED
  BY <1>1, <1>3, <1>4

LEMMA ImageFinite ==
    ASSUME NEW n \in Nat, NEW f, f = [i \in 1..n |-> f[i]]
    PROVE  IsFiniteSet({f[i] : i \in 1..n})
<1> DEFINE T == {f[i] : i \in 1..n}
<1>1. f \in Surjection(1..n, T)
  BY DEF Surjection
<1>2. ExistsSurjection(1..n, T)
  BY <1>1 DEF ExistsSurjection
<1> HIDE DEF T
<1> QED
  BY <1>2, FS_NatSurjection DEF T

LEMMA NewCursorFacts ==
    ASSUME NEW s \in Nat, NEW position \in Int, NEW at \in Nat
    PROVE  /\ NewCursor(s, position, at) \in Record
           /\ NewCursor(s, position, at).id = <<s, position>> /\ NewCursor(s, position, at).owner = s
           /\ NewCursor(s, position, at).state = "sent" /\ NewCursor(s, position, at).at = at
BY DEF NewCursor, Record, Cursor

IsFrameCursor(r, s, from, i) == r.id = <<s, from + i - 1>> /\ r.owner = s /\ r.at = made + i /\ r.state = "sent"

LEMMA FrameCursorsFacts ==
    ASSUME NEW s \in Nat, NEW from \in Int, NEW to \in Int, to - from \in Nat, made \in Nat
    PROVE  /\ IsFiniteSet(FrameCursors(s, from, to)) /\ FrameCursors(s, from, to) \subseteq Record
           /\ \A r \in FrameCursors(s, from, to) : \E i \in 1..(to - from) : IsFrameCursor(r, s, from, i)
           /\ \A i \in 1..(to - from) : \E r \in FrameCursors(s, from, to) : IsFrameCursor(r, s, from, i)
<1> DEFINE N(i) == NewCursor(s, from + i - 1, made + i)
           I == 1..(to - from)
<1>1. FrameCursors(s, from, to) = {N(i) : i \in I}
  BY DEF FrameCursors
<1>3. IsFiniteSet({N(i) : i \in I})
  <2> DEFINE f == [i \in I |-> N(i)]
  <2>1. f = [i \in 1..(to - from) |-> f[i]] /\ {f[i] : i \in 1..(to - from)} = {N(i) : i \in I}
    <3> HIDE DEF N
    <3> QED OBVIOUS
  <2> HIDE DEF f
  <2>2. IsFiniteSet({f[i] : i \in 1..(to - from)})
    BY <2>1, ImageFinite
  <2> QED BY <2>1, <2>2
<1>4. \A i \in I : N(i) \in Record /\ IsFrameCursor(N(i), s, from, i)
  <2> TAKE i \in I
  <2>1. from + i - 1 \in Int /\ made + i \in Nat
    OBVIOUS
  <2> QED BY <2>1 DEF NewCursor, Record, Cursor, IsFrameCursor
<1> HIDE DEF N
<1> QED
  BY <1>1, <1>3, <1>4

SameSub(y, x) == y.conn = x.conn /\ y.snap = x.snap /\ y.acked = x.acked

LEMMA StreamedSub ==
    ASSUME NEW x \in Sub, NEW n \in Nat, SubOK(x, n), x.conn # 0, x.phase = "active",
           NEW y, y = [x EXCEPT !.seq = @ + 1]
    PROVE  y \in Sub /\ SubOK(y, n + 1) /\ SameSub(y, x) /\ y.seq = x.seq + 1 /\ y.phase = x.phase
BY DEF Sub, SubOK, SameSub

LEMMA BufferedSub ==
    ASSUME NEW x \in Sub, NEW n \in Nat, SubOK(x, n), x.conn # 0, x.phase \notin {"active", "invalid"},
           NEW y, y = [x EXCEPT !.buffered = @ + 1]
    PROVE  y \in Sub /\ SubOK(y, n + 1) /\ SameSub(y, x) /\ y.seq = x.seq /\ y.phase = x.phase
BY DEF Sub, SubOK, SameSub

LEMMA InvalidatedSub ==
    ASSUME NEW x \in Sub, NEW n \in Nat, SubOK(x, n), x.phase # "active", NEW y, y = Invalidated(x)
    PROVE  y \in Sub /\ SubOK(y, n) /\ SubOK(y, n + 1) /\ SameSub(y, x) /\ y.seq = x.seq /\ y.phase = "invalid"
<1>1. /\ y \in Sub /\ y.conn = x.conn /\ y.snap = x.snap /\ y.acked = x.acked /\ y.seq = x.seq
      /\ y.phase = "invalid" /\ y.buffered = 0
  BY DEF Sub, Invalidated
<1> QED BY <1>1 DEF Sub, SubOK, SameSub

LEMMA RemovedSub ==
    ASSUME NEW x \in Sub, NEW n \in Nat, SubOK(x, n), NEW y, y = Removed(x)
    PROVE  /\ y \in Sub /\ SubOK(y, n) /\ y.conn = 0 /\ y.snap = x.snap /\ y.seq = x.seq
           /\ y.phase = x.phase /\ y.acked = x.acked
<1>1. /\ y \in Sub /\ y.conn = 0 /\ y.snap = x.snap /\ y.acked = x.acked /\ y.seq = x.seq
      /\ y.phase = x.phase /\ y.buffered = 0
  BY DEF Sub, Removed
<1> QED BY <1>1 DEF Sub, SubOK

(***************************************************************************)
(* The steps of the daemon, one lemma each: what the step does, in the     *)
(* terms the later proofs need, and that it keeps the types.               *)
(***************************************************************************)
LEMMA EventStoredSubs ==
    ASSUME TypeOK, EventStored
    PROVE  /\ subs' \in Seq(Sub) /\ Len(subs') = Len(subs)
           /\ \A s \in Subs : /\ SubOK(subs'[s], log') /\ SameSub(subs'[s], subs[s])
                              /\ Streams(s) => subs'[s].seq = subs[s].seq + 1
                              /\ ~Streams(s) => subs'[s].seq = subs[s].seq
                              /\ Overflows(s) => subs'[s].phase = "invalid"
                              /\ ~Overflows(s) => subs'[s].phase = subs[s].phase
<1>1. subs' = [s \in Subs |-> CASE Streams(s) -> [subs[s] EXCEPT !.seq = @ + 1]
                               [] Buffers(s) -> [subs[s] EXCEPT !.buffered = @ + 1]
                               [] Overflows(s) -> Invalidated(subs[s])
                               [] OTHER -> subs[s]]
  BY DEF EventStored
<1>3. log \in Nat /\ log' = log + 1 /\ \A s \in Subs : subs[s] \in Sub /\ SubOK(subs[s], log)
  BY DEF TypeOK, DaemonTypeOK, Subs, EventStored
<1>0. ASSUME NEW s \in Subs
      PROVE  /\ subs[s] \in Sub /\ SubOK(subs[s], log) /\ subs[s].buffered \in Nat /\ TailLimit \in Nat
             /\ ~(Streams(s) /\ Buffers(s)) /\ ~(Streams(s) /\ Overflows(s)) /\ ~(Buffers(s) /\ Overflows(s))
  <2>1. subs[s] \in Sub /\ SubOK(subs[s], log) /\ subs[s].buffered \in Nat /\ TailLimit \in Nat
    BY <1>3, SubscriptionBounds DEF Sub, SubscriptionBounds
  <2> QED BY <2>1 DEF Streams, Buffers, Overflows
<1>2. \A s \in Subs : /\ Streams(s) => subs'[s] = [subs[s] EXCEPT !.seq = @ + 1]
                      /\ Buffers(s) => subs'[s] = [subs[s] EXCEPT !.buffered = @ + 1]
                      /\ Overflows(s) => subs'[s] = Invalidated(subs[s])
                      /\ ~Overflows(s) /\ ~Streams(s) /\ ~Buffers(s) => subs'[s] = subs[s]
  <2> TAKE s \in Subs
  <2>1. subs'[s] = CASE Streams(s) -> [subs[s] EXCEPT !.seq = @ + 1]
                     [] Buffers(s) -> [subs[s] EXCEPT !.buffered = @ + 1]
                     [] Overflows(s) -> Invalidated(subs[s])
                     [] OTHER -> subs[s]
    BY <1>1
  <2> QED BY <1>0, <2>1
<1>4. ASSUME NEW s \in Subs
      PROVE  /\ subs'[s] \in Sub /\ SubOK(subs'[s], log') /\ SameSub(subs'[s], subs[s])
             /\ Streams(s) => subs'[s].seq = subs[s].seq + 1
             /\ ~Streams(s) => subs'[s].seq = subs[s].seq
             /\ Overflows(s) => subs'[s].phase = "invalid"
             /\ ~Overflows(s) => subs'[s].phase = subs[s].phase
  <2>1. CASE Streams(s)
    <3>1. subs[s].conn # 0 /\ subs[s].phase = "active" /\ ~Overflows(s)
      BY <2>1 DEF Streams, Live, Overflows
    <3> QED BY <1>2, <1>3, <1>0, <2>1, <3>1, StreamedSub
  <2>2. CASE Buffers(s)
    <3>1. subs[s].conn # 0 /\ subs[s].phase \notin {"active", "invalid"} /\ ~Overflows(s) /\ ~Streams(s)
      BY <2>2, <1>0 DEF Streams, Buffers, Overflows, Live
    <3> QED BY <1>2, <1>3, <1>0, <2>2, <3>1, BufferedSub
  <2>3. CASE Overflows(s)
    <3>1. subs[s].phase # "active" /\ ~Buffers(s) /\ ~Streams(s)
      BY <2>3, <1>0 DEF Streams, Buffers, Overflows, Live
    <3>2. subs'[s] = Invalidated(subs[s])
      BY <1>2, <2>3
    <3>3. /\ subs'[s] \in Sub /\ SubOK(subs'[s], log + 1) /\ SameSub(subs'[s], subs[s])
          /\ subs'[s].seq = subs[s].seq /\ subs'[s].phase = "invalid"
      BY <1>3, <1>0, <3>1, <3>2, InvalidatedSub
    <3> QED BY <1>3, <2>3, <3>1, <3>3
  <2>4. CASE ~Streams(s) /\ ~Buffers(s) /\ ~Overflows(s)
    <3>0. subs[s].buffered < TailLimit \/ subs[s].buffered >= TailLimit
      BY <1>0
    <3>1. subs'[s] = subs[s] /\ (subs[s].conn = 0 \/ subs[s].phase = "invalid")
      BY <1>2, <2>4, <3>0 DEF Streams, Buffers, Overflows, Live
    <3> QED BY <1>3, <1>0, <2>4, <3>1 DEF SameSub, SubOK, Sub
  <2> QED BY <2>1, <2>2, <2>3, <2>4
<1>5. subs' \in Seq(Sub) /\ Len(subs') = Len(subs)
  <2>1. subs' = [s \in 1..Len(subs) |-> subs'[s]] /\ Len(subs) \in Nat
    BY <1>1 DEF Subs, TypeOK, DaemonTypeOK
  <2> QED BY <2>1, <1>4 DEF Subs
<1> QED BY <1>4, <1>5


LEMMA EventStoredFacts ==
    ASSUME TypeOK, EventStored
    PROVE  /\ DaemonTypeOK' /\ ChannelTypeOK'
           /\ \A s \in Subs : /\ Streams(s) /\ Reaches(s) =>
                                   events'[s] = Append(events[s], [sub |-> s, seq |-> subs[s].seq + 1, pos |-> log])
                              /\ ~(Streams(s) /\ Reaches(s)) => events'[s] = events[s]
<1> DEFINE dead == {c \in cursors : ~\E s \in Subs : Overflows(s) /\ c.owner = s}
           new == {NewCursor(s, log, made + s) : s \in {r \in Subs : Streams(r)}}
<1>1. IsFiniteSet(dead) /\ dead \subseteq Record
  BY FS_Subset DEF TypeOK, DaemonTypeOK
<1>2. new \subseteq Record /\ \A r \in new : r.id[2] = log
  <2> SUFFICES ASSUME NEW s \in Subs, NEW r, r = NewCursor(s, log, made + s) PROVE r \in Record /\ r.id[2] = log
    BY Zenon
  <2>1. s \in Nat /\ log \in Int /\ made + s \in Nat
    BY DEF TypeOK, DaemonTypeOK, Subs
  <2> QED BY <2>1 DEF NewCursor, Record, Cursor
<1>3. IsFiniteSet(new)
  <2> DEFINE f == [s \in 1..Len(subs) |-> NewCursor(s, log, made + s)]
  <2>1. f = [s \in 1..Len(subs) |-> f[s]] /\ new \subseteq {f[s] : s \in 1..Len(subs)}
    BY DEF Subs
  <2>2. Len(subs) \in Nat
    BY DEF TypeOK, DaemonTypeOK
  <2> HIDE DEF f
  <2>3. IsFiniteSet({f[s] : s \in 1..Len(subs)})
    BY <2>1, <2>2, ImageFinite
  <2> QED BY <2>1, <2>3, FS_Subset
<1>4. cursors' = WithCursors(dead, new)
  BY DEF EventStored
<1> HIDE DEF dead, new
<1>5. IsFiniteSet(cursors') /\ cursors' \subseteq dead \cup new
  BY <1>1, <1>2, <1>3, <1>4, WithCursorsFacts
<1>6. log' = log + 1 /\ made' = made + Len(subs) /\ log' \in Nat /\ made' \in Nat /\ log' >= 1 /\ instance' \in Nat
  BY DEF EventStored, TypeOK, DaemonTypeOK
<1>7. dead \subseteq cursors
  BY DEF dead
<1>8. cursors' \subseteq Record /\ \A r \in cursors' : r.id[2] \in 0..(log' - 1)
  BY <1>1, <1>2, <1>5, <1>6, <1>7 DEF TypeOK, DaemonTypeOK
<1>9. DaemonTypeOK' /\ Len(subs') = Len(subs)
  BY <1>5, <1>6, <1>8, EventStoredSubs DEF DaemonTypeOK, Subs
<1>10. \A s \in Subs : /\ events[s] \in Seq(Frame) /\ s \in Nat /\ subs[s].seq \in Nat
                       /\ [sub |-> s, seq |-> subs[s].seq + 1, pos |-> log] \in Frame
  <2> TAKE s \in Subs
  <2>1. subs \in Seq(Sub) /\ events \in Seq(Seq(Frame)) /\ Len(events) = Len(subs) /\ log \in Nat
    BY DEF TypeOK, DaemonTypeOK, ChannelTypeOK
  <2>2. s \in Nat /\ subs[s] \in Sub /\ events[s] \in Seq(Frame)
    BY <2>1 DEF Subs
  <2>3. subs[s].seq \in Nat
    BY <2>2 DEF Sub
  <2> QED BY <2>1, <2>2, <2>3 DEF Frame
<1>11. \A s \in Subs : /\ Streams(s) /\ Reaches(s) =>
                            events'[s] = Append(events[s], [sub |-> s, seq |-> subs[s].seq + 1, pos |-> log])
                       /\ ~(Streams(s) /\ Reaches(s)) => events'[s] = events[s]
  <2> TAKE s \in Subs
  <2>1. events'[s] = IF Streams(s) /\ Reaches(s) THEN events[s] \o Frames(s, subs[s].seq, log, log + 1)
                                                ELSE events[s]
    BY DEF EventStored
  <2> DEFINE m == [sub |-> s, seq |-> subs[s].seq + 1, pos |-> log]
  <2>2. log \in Nat /\ s \in Nat /\ subs[s].seq \in Nat
    BY <1>10 DEF TypeOK, DaemonTypeOK
  <2>3. Frames(s, subs[s].seq, log, log + 1) = <<m>>
    BY <2>2 DEF Frames
  <2>4. events[s] \o <<m>> = Append(events[s], m)
    <3>1. events[s] \in Seq(Frame) /\ m \in Frame
      BY <1>10
    <3> HIDE DEF m
    <3> QED BY <3>1
  <2> HIDE DEF m
  <2> QED BY <2>1, <2>3, <2>4 DEF m
<1>12. events' \in Seq(Seq(Frame)) /\ Len(events') = Len(subs)
  <2>1. events' = [s \in 1..Len(subs) |-> events'[s]] /\ Len(subs) \in Nat
    BY DEF EventStored, Subs, TypeOK, DaemonTypeOK
  <2>2. ASSUME NEW s \in 1..Len(subs)
        PROVE  events'[s] \in Seq(Frame)
    <3> DEFINE m == [sub |-> s, seq |-> subs[s].seq + 1, pos |-> log]
    <3>1. s \in Subs /\ events[s] \in Seq(Frame) /\ m \in Frame
      BY <1>10 DEF Subs
    <3>2. events'[s] = events[s] \/ events'[s] = Append(events[s], m)
      BY <3>1, <1>11
    <3> HIDE DEF m
    <3> QED BY SMTT(40), <3>1, <3>2
  <2> QED BY <2>1, <2>2
<1>13. UNCHANGED <<instance, conn, up, calls, faults>>
  BY DEF EventStored
<1>15. \A s \in Subs : subs'[s].conn = subs[s].conn
  BY EventStoredSubs DEF SameSub
<1>14. ChannelTypeOK'
  BY <1>9, <1>12, <1>13, <1>15 DEF TypeOK, ChannelTypeOK, Subs
<1> QED
  BY <1>9, <1>11, <1>14

\* What no step of the daemon takes back.
SubsKept == /\ Len(subs) <= Len(subs')
            /\ \A s \in Subs : /\ subs'[s].snap = subs[s].snap /\ subs'[s].seq >= subs[s].seq
                               /\ subs[s].phase = "active" => subs'[s].phase = "active"
                               /\ subs'[s].conn \in {subs[s].conn, 0}

LEMMA AppendFacts ==
    ASSUME NEW T, NEW q \in Seq(T), NEW x \in T
    PROVE  /\ Append(q, x) \in Seq(T) /\ Len(Append(q, x)) = Len(q) + 1
           /\ Append(q, x)[Len(q) + 1] = x /\ \A s \in 1..Len(q) : Append(q, x)[s] = q[s]
OBVIOUS

LEMMA SentCall ==
    ASSUME TypeOK, NEW t \in Activities
    PROVE  /\ calls[t] \in Call /\ calls[t].sub \in Nat /\ calls[t].sub \in 0..Len(subs) /\ calls[t].start \in Nat /\ calls[t].count \in Nat
           /\ calls[t].cursor \in CursorOrNone /\ (calls[t].cursor # None => calls[t].cursor \in Cursor)
           /\ calls[t].code \in Codes /\ calls[t].kind \in Kinds /\ calls[t].ahead \subseteq Activities
           /\ calls[t].state \in {"none", "sent", "done"}
BY DEF TypeOK, ChannelTypeOK, Call, CursorOrNone

LEMMA SubFacts ==
    ASSUME TypeOK, NEW s \in Subs
    PROVE  /\ subs[s] \in Sub /\ SubOK(subs[s], log) /\ subs[s].conn <= conn /\ s \in Nat /\ s >= 1
           /\ subs[s].conn \in Nat /\ subs[s].snap \in Nat /\ subs[s].buffered \in Nat /\ subs[s].seq \in Nat
           /\ subs[s].phase \in {"paging", "served", "active", "invalid"} /\ subs[s].acked \in CursorOrNone
           /\ events[s] \in Seq(Frame) /\ (subs[s].acked # None => subs[s].acked \in Cursor)
<1>1. subs \in Seq(Sub) /\ events \in Seq(Seq(Frame)) /\ Len(events) = Len(subs) /\ s \in 1..Len(subs)
  BY DEF TypeOK, DaemonTypeOK, ChannelTypeOK, Subs
<1>2. subs[s] \in Sub /\ events[s] \in Seq(Frame) /\ s \in Nat /\ s >= 1
  BY <1>1
<1>3. SubOK(subs[s], log) /\ subs[s].conn <= conn
  BY DEF TypeOK, DaemonTypeOK, ChannelTypeOK
<1> QED BY <1>2, <1>3 DEF Sub, CursorOrNone

LEMMA NewSubs ==
    ASSUME TypeOK, NEW x \in Sub, SubOK(x, log), x.conn <= conn, subs' = Append(subs, x)
    PROVE  /\ subs' \in Seq(Sub) /\ Len(subs') = Len(subs) + 1 /\ subs'[Len(subs) + 1] = x
           /\ Subs' = Subs \cup {Len(subs) + 1} /\ \A s \in Subs : subs'[s] = subs[s]
           /\ SubsKept /\ \A s \in Subs' : SubOK(subs'[s], log) /\ subs'[s].conn <= conn
<1>1. subs \in Seq(Sub) /\ Len(subs) \in Nat
  BY DEF TypeOK, DaemonTypeOK
<1>2. /\ subs' \in Seq(Sub) /\ Len(subs') = Len(subs) + 1 /\ subs'[Len(subs) + 1] = x
      /\ \A s \in 1..Len(subs) : subs'[s] = subs[s]
  BY <1>1, AppendFacts
<1>3. Subs' = Subs \cup {Len(subs) + 1} /\ \A s \in Subs : subs'[s] = subs[s]
  BY <1>1, <1>2 DEF Subs
<1>4. \A s \in Subs : subs'[s].seq >= subs[s].seq
  <2> TAKE s \in Subs
  <2>1. subs[s].seq \in Nat
    BY SubFacts
  <2>2. subs'[s] = subs[s]
    BY <1>3
  <2> QED BY <2>1, <2>2
<1>5. SubsKept
  <2>1. Len(subs) <= Len(subs')
    BY <1>1, <1>2
  <2>2. ASSUME NEW s \in Subs
        PROVE  /\ subs'[s].snap = subs[s].snap
               /\ subs[s].phase = "active" => subs'[s].phase = "active"
               /\ subs'[s].conn \in {subs[s].conn, 0}
    BY <1>3
  <2> QED BY <1>4, <2>1, <2>2 DEF SubsKept

<1>6. \A s \in Subs' : SubOK(subs'[s], log) /\ subs'[s].conn <= conn
  BY <1>2, <1>3 DEF TypeOK, DaemonTypeOK, ChannelTypeOK
<1> QED BY <1>2, <1>3, <1>5, <1>6

\* A step that only changes the subscriptions one by one.
LEMMA EachSub ==
    ASSUME TypeOK, subs' = [s \in Subs |-> subs'[s]],
           \A s \in Subs : subs'[s] \in Sub /\ SubOK(subs'[s], log) /\ subs'[s].conn \in {subs[s].conn, 0}
    PROVE  /\ subs' \in Seq(Sub) /\ Len(subs') = Len(subs) /\ Subs' = Subs
           /\ \A s \in Subs' : SubOK(subs'[s], log) /\ subs'[s].conn <= conn
<1>1. subs \in Seq(Sub) /\ Len(subs) \in Nat /\ conn \in Nat /\ \A s \in Subs : subs[s].conn <= conn
  BY DEF TypeOK, DaemonTypeOK, ChannelTypeOK
<1>2. subs' \in Seq(Sub) /\ Len(subs') = Len(subs)
  BY <1>1 DEF Subs
<1> QED BY <1>1, <1>2 DEF Subs

LEMMA DaemonTypeIntro ==
    ASSUME TypeOK, log' = log, instance' = instance, made' \in Nat, IsFiniteSet(cursors'),
           \A r \in cursors' : r \in Record /\ r.id[2] \in 0..(log - 1),
           subs' \in Seq(Sub), \A s \in Subs' : SubOK(subs'[s], log)
    PROVE  DaemonTypeOK'
<1>1. log' \in Nat /\ log' >= 1 /\ instance' \in Nat /\ cursors' \subseteq Record
  BY DEF TypeOK, DaemonTypeOK
<1>2. \A s \in Subs' : SubOK(subs'[s], log')
  OBVIOUS
<1>3. \A r \in cursors' : r.id[2] \in 0..(log' - 1)
  OBVIOUS
<1> QED BY <1>1, <1>2, <1>3 DEF DaemonTypeOK

LEMMA ChannelTypeIntro ==
    ASSUME TypeOK, UNCHANGED <<conn, up, faults>>, calls' \in [Activities -> Call],
           \A v \in Activities : calls'[v].sub \in 0..Len(subs'),
           events' \in Seq(Seq(Frame)), Len(events') = Len(subs'),
           \A s \in Subs' : subs'[s].conn <= conn
    PROVE  ChannelTypeOK'
<1>1. \A s \in Subs' : subs'[s].conn <= conn'
  OBVIOUS
<1>2. conn' \in Nat /\ conn' >= 1 /\ up' \in BOOLEAN /\ faults' \in Nat
  BY DEF TypeOK, ChannelTypeOK
<1> QED BY <1>1, <1>2 DEF ChannelTypeOK

LEMMA SubscribeSnapshotFacts ==
    ASSUME TypeOK, NEW t \in Activities, SubscribeSnapshot(t)
    PROVE  /\ DaemonTypeOK' /\ ChannelTypeOK'
           /\ \A s \in Subs : subs'[s] = subs[s] /\ events'[s] = events[s]
           /\ Len(subs') = Len(subs) + 1 /\ Subs' = Subs \cup {Len(subs) + 1} /\ SubsKept
           /\ events'[Len(subs) + 1] = <<>>
           /\ subs'[Len(subs) + 1].conn = conn /\ subs'[Len(subs) + 1].snap = log
           /\ subs'[Len(subs) + 1].seq = 0 /\ subs'[Len(subs) + 1].phase \in {"paging", "served"}
           /\ subs'[Len(subs) + 1].acked = None
           /\ calls'[t].state = "done" /\ calls'[t].kind = "snapshot" /\ calls'[t].sub = Len(subs) + 1
           /\ calls'[t].start = 0 /\ calls'[t].count = log
           /\ calls'[t].cursor = calls[t].cursor /\ calls'[t].ahead = calls[t].ahead
           /\ \A v \in Activities : v # t => calls'[v] = calls[v]
           /\ UNCHANGED <<log, instance, conn, up, faults>>
<1> DEFINE x == [NewSub EXCEPT !.snap = log, !.phase = Served(0, log)]
           n == NewCursor(Len(subs) + 1, log - 1, made + 1)
<1>0. /\ log \in Nat /\ log >= 1 /\ made \in Nat /\ conn \in Nat /\ conn >= 1 /\ Len(subs) \in Nat
      /\ calls \in [Activities -> Call] /\ IsFiniteSet(cursors) /\ cursors \subseteq Record /\ instance \in Nat
      /\ \A r \in cursors : r.id[2] \in 0..(log - 1)
  BY DEF TypeOK, DaemonTypeOK, ChannelTypeOK
<1>1. Served(0, log) \in {"paging", "served"}
  BY DEF Served
<1>2. /\ x \in Sub /\ x.conn = conn /\ x.snap = log /\ x.seq = 0 /\ x.buffered = 0 /\ x.phase \in {"paging", "served"}
      /\ x.acked = None
  BY <1>0, <1>1 DEF NewSub, Sub, CursorOrNone
<1>3. n \in Record /\ n.id = <<Len(subs) + 1, log - 1>>
  <2>1. Len(subs) + 1 \in Nat /\ log - 1 \in Int /\ made + 1 \in Nat
    BY <1>0
  <2> QED BY ZenonT(60), <2>1, NewCursorFacts
<1>4. subs' = Append(subs, x) /\ cursors' = WithCursors(cursors, {n}) /\ made' = made + 1 /\ events' = Append(events, <<>>)
  BY DEF SubscribeSnapshot
<1>5. Respond(t, "snapshot", Len(subs) + 1, 0, log, "")
  BY DEF SubscribeSnapshot
<1> HIDE DEF x, n
<1>6. SubOK(x, log) /\ x.conn <= conn
  BY <1>0, <1>2 DEF SubOK
<1>7. /\ subs' \in Seq(Sub) /\ Len(subs') = Len(subs) + 1 /\ subs'[Len(subs) + 1] = x
      /\ Subs' = Subs \cup {Len(subs) + 1} /\ \A s \in Subs : subs'[s] = subs[s]
      /\ SubsKept /\ \A s \in Subs' : SubOK(subs'[s], log) /\ subs'[s].conn <= conn
  BY <1>2, <1>4, <1>6, NewSubs
<1>8. /\ calls' \in [Activities -> Call] /\ calls'[t].state = "done" /\ calls'[t].kind = "snapshot"
      /\ calls'[t].sub = Len(subs) + 1 /\ calls'[t].start = 0 /\ calls'[t].count = log
      /\ calls'[t].cursor = calls[t].cursor /\ calls'[t].ahead = calls[t].ahead
      /\ \A v \in Activities : v # t => calls'[v] = calls[v]
      /\ UNCHANGED <<log, instance, conn, up, faults>>
  <2> DEFINE k == Len(subs) + 1
  <2>1. "snapshot" \in Kinds /\ "" \in Codes /\ k \in Nat /\ 0 \in Nat /\ log \in Nat
    BY <1>0 DEF Kinds, Codes
  <2>2. Respond(t, "snapshot", k, 0, log, "")
    BY <1>5
  <2> HIDE DEF k
  <2>3. Responded(t, "snapshot", k, 0, log, "")
    BY <1>0, <2>1, <2>2, RespondCalls
  <2> QED BY <2>3 DEF k, Responded
<1>9. IsFiniteSet(cursors') /\ cursors' \subseteq cursors \cup {n}
  <2> DEFINE new == {n}
  <2>1. IsFiniteSet(new) /\ new \subseteq Record
    BY <1>3, FS_Singleton
  <2>2. cursors' = WithCursors(cursors, new)
    BY <1>4
  <2> HIDE DEF new
  <2>3. IsFiniteSet(cursors') /\ cursors' \subseteq cursors \cup new
    BY <1>0, <2>1, <2>2, WithCursorsFacts
  <2> QED BY <2>3 DEF new
<1>10. DaemonTypeOK'
  <2>1. \A r \in cursors' : r \in Record /\ r.id[2] \in 0..(log - 1)
    BY <1>0, <1>3, <1>9
  <2>2. made' \in Nat
    BY <1>0, <1>4
  <2> QED BY <1>7, <1>8, <1>9, <2>1, <2>2, DaemonTypeIntro
<1>11. /\ events' \in Seq(Seq(Frame)) /\ Len(events') = Len(subs) + 1 /\ events'[Len(subs) + 1] = <<>>
       /\ \A s \in Subs : events'[s] = events[s]
  <2>1. events \in Seq(Seq(Frame)) /\ Len(events) = Len(subs) /\ <<>> \in Seq(Frame)
    BY DEF TypeOK, ChannelTypeOK
  <2> DEFINE none == <<>>
  <2>2. none \in Seq(Frame) /\ events' = Append(events, none)
    BY <1>4, <2>1
  <2> HIDE DEF none
  <2>3. /\ events' \in Seq(Seq(Frame)) /\ Len(events') = Len(events) + 1 /\ events'[Len(events) + 1] = none
        /\ \A s \in 1..Len(events) : events'[s] = events[s]
    BY <2>1, <2>2, AppendFacts
  <2> QED BY <2>1, <2>3 DEF Subs, none
<1>12. \A v \in Activities : calls'[v].sub \in 0..Len(subs')
  BY <1>0, <1>7, <1>8 DEF TypeOK, ChannelTypeOK
<1>13. ChannelTypeOK'
  BY <1>7, <1>8, <1>11, <1>12, ChannelTypeIntro
<1> QED
  BY <1>2, <1>7, <1>8, <1>10, <1>11, <1>13

LEMMA CallsSub ==
    ASSUME TypeOK, NEW t \in Activities, Len(subs) <= Len(subs'), Len(subs') \in Nat, calls'[t].sub \in 0..Len(subs'),
           \A v \in Activities : v # t => calls'[v] = calls[v]
    PROVE  \A v \in Activities : calls'[v].sub \in 0..Len(subs')
<1> TAKE v \in Activities
<1>1. calls[v].sub \in 0..Len(subs) /\ Len(subs) \in Nat
  BY DEF TypeOK, ChannelTypeOK, DaemonTypeOK
<1>2. CASE v = t
  BY <1>2
<1>3. CASE v # t
  <2>1. calls'[v].sub = calls[v].sub
    BY <1>3
  <2> QED BY <1>1, <2>1
<1> QED BY <1>2, <1>3

\* The records of the cursors of a resumed subscription change hands.
Handed(after, k) == {[r EXCEPT !.owner = IF r.id = after THEN k ELSE @] : r \in cursors}

LEMMA HandedFacts ==
    ASSUME TypeOK, NEW after, NEW k \in Nat
    PROVE  /\ IsFiniteSet(Handed(after, k)) /\ Handed(after, k) \subseteq Record
           /\ \A q \in Handed(after, k) : \E r \in cursors : /\ q.id = r.id /\ q.state = r.state /\ q.at = r.at
                                                             /\ q.owner = IF r.id = after THEN k ELSE r.owner
           /\ \A r \in cursors : \E q \in Handed(after, k) : /\ q.id = r.id /\ q.state = r.state /\ q.at = r.at
                                                             /\ q.owner = IF r.id = after THEN k ELSE r.owner
<1> DEFINE h(r) == [r EXCEPT !.owner = IF r.id = after THEN k ELSE @]
           f == [r \in cursors |-> h(r)]
           T == Handed(after, k)
<1>1. \A r \in cursors : /\ h(r) \in Record /\ h(r).id = r.id /\ h(r).state = r.state /\ h(r).at = r.at
                         /\ h(r).owner = IF r.id = after THEN k ELSE r.owner
  BY DEF TypeOK, DaemonTypeOK, Record
<1>2. T = {h(r) : r \in cursors}
  BY DEF Handed
<1> HIDE DEF h
<1>3. f \in Surjection(cursors, T)
  BY <1>2 DEF Surjection
<1>4. IsFiniteSet(T)
  <2>1. IsFiniteSet(cursors)
    BY DEF TypeOK, DaemonTypeOK
  <2> HIDE DEF f, T
  <2> QED BY <1>3, <2>1, FS_Surjection
<1> QED BY <1>1, <1>2, <1>4

LEMMA ResumableFacts ==
    ASSUME TypeOK, NEW c \in Cursor, Resumable(c)
    PROVE  /\ TailFrom(c) \in 1..log /\ TailFrom(c) - 1 = c[2]
           /\ TailOf(c) = log - TailFrom(c) /\ TailOf(c) \in Nat
<1>1. log \in Nat /\ \A r \in cursors : r.id[2] \in 0..(log - 1)
  BY DEF TypeOK, DaemonTypeOK
<1>2. c[2] \in 0..(log - 1)
  BY <1>1 DEF Resumable
<1>3. TailFrom(c) = c[2] + 1 /\ TailOf(c) = log - TailFrom(c)
  BY DEF TailFrom, TailOf, Position
<1> QED BY <1>1, <1>2, <1>3

Resumption(p, n, c) == [NewSub EXCEPT !.phase = "active", !.snap = p, !.seq = n, !.acked = c]

IsResumption(x, p, n, c) == /\ x \in Sub /\ SubOK(x, log) /\ x.conn = conn /\ x.phase = "active" /\ x.snap = p
                            /\ x.seq = n /\ x.acked = c

LEMMA ResumedSub ==
    ASSUME TypeOK, NEW c \in CursorOrNone, NEW p \in Nat, NEW n \in Nat, p >= 1, p + n = log
    PROVE  IsResumption(Resumption(p, n, c), p, n, c)
<1> DEFINE x == Resumption(p, n, c)
<1>1. conn \in Nat
  BY DEF TypeOK, ChannelTypeOK
<1>6. /\ x \in Sub /\ x.conn = conn /\ x.phase = "active" /\ x.snap = p
      /\ x.seq = n /\ x.acked = c /\ x.buffered = 0
  BY <1>1 DEF NewSub, Sub, Resumption
<1> HIDE DEF x
<1>7. SubOK(x, log)
  BY <1>6 DEF SubOK
<1>8. IsResumption(x, p, n, c)
  BY <1>6, <1>7 DEF IsResumption
<1> QED BY <1>8 DEF x

\* Subscription k resumes after cursor c, with the n events from position p on.
ResumedEffect(t, k, c, p, n) ==
    /\ c \in Cursor /\ c # None /\ p \in 1..log /\ n = log - p /\ n \in Nat /\ c[2] = p - 1
    /\ \A s \in Subs : subs'[s] = subs[s] /\ events'[s] = events[s]
    /\ Len(subs') = k /\ Subs' = Subs \cup {k}
    /\ events'[k] = Frames(k, 0, p, log)
    /\ subs'[k].conn = conn /\ subs'[k].snap = p /\ subs'[k].seq = n
    /\ subs'[k].phase = "active" /\ subs'[k].acked = c
    /\ Responded(t, "resumed", k, 0, 0, "")

LEMMA SubscribeResumedFacts ==
    ASSUME TypeOK, NEW t \in Activities, SubscribeResumed(t), NEW k, k = Len(subs) + 1,
           NEW c, c = calls[t].cursor, NEW p, p = TailFrom(c), NEW n, n = TailOf(c)
    PROVE  DaemonTypeOK' /\ ChannelTypeOK' /\ SubsKept /\ ResumedEffect(t, k, c, p, n)
<1> DEFINE x == Resumption(p, n, c)
           e == Frames(k, 0, p, log)
           old == Handed(c, k)
           new == FrameCursors(k, p, log)
<1>0. /\ log \in Nat /\ log >= 1 /\ made \in Nat /\ conn \in Nat /\ Len(subs) \in Nat /\ k \in Nat
      /\ calls \in [Activities -> Call]
      /\ \A r \in cursors : r.id[2] \in 0..(log - 1)
  BY DEF TypeOK, DaemonTypeOK, ChannelTypeOK
<1>1. c # None /\ c \in Cursor /\ Resumable(c) /\ c \in CursorOrNone
  BY SentCall DEF SubscribeResumed
<1>2. /\ subs' = Append(subs, x) /\ cursors' = WithCursors(old, new) /\ made' = made + n
      /\ events' = Append(events, e) /\ Respond(t, "resumed", k, 0, 0, "")
  BY DEF SubscribeResumed, Handed, Resumption
<1>a. p \in 1..log /\ p - 1 = c[2] /\ n = log - p /\ n \in Nat
  BY <1>1, ResumableFacts
<1>b. p \in Nat /\ p >= 1 /\ p + n = log /\ p \in Int /\ log \in Int /\ log - p \in Nat /\ made + n \in Nat
  <2>1. log \in Nat /\ made \in Nat
    BY <1>0
  <2> QED BY SMTT(40), <2>1, <1>a
<1>c. IsResumption(x, p, n, c)
  BY <1>1, <1>a, <1>b, ResumedSub
<1> HIDE DEF x
<1>3. /\ x \in Sub /\ SubOK(x, log) /\ x.conn = conn /\ x.phase = "active" /\ x.snap = p
      /\ x.seq = n /\ x.acked = c
  BY <1>c DEF IsResumption
<1>4. x.conn <= conn
  BY <1>0, <1>3
<1>5. /\ subs' \in Seq(Sub) /\ Len(subs') = k /\ subs'[k] = x
      /\ Subs' = Subs \cup {k} /\ \A s \in Subs : subs'[s] = subs[s]
      /\ SubsKept /\ \A s \in Subs' : SubOK(subs'[s], log) /\ subs'[s].conn <= conn
  BY <1>2, <1>3, <1>4, NewSubs
<1>6. Responded(t, "resumed", k, 0, 0, "")
  <2>1. "resumed" \in Kinds /\ "" \in Codes /\ 0 \in Nat
    BY DEF Kinds, Codes
  <2> QED BY <1>0, <1>2, <2>1, RespondCalls
<1>8. /\ IsFiniteSet(new) /\ new \subseteq Record /\ \A r \in new : r.id[2] \in 0..(log - 1)
  <2>0. made \in Nat /\ k \in Nat
    BY <1>0
  <2>1. /\ IsFiniteSet(new) /\ new \subseteq Record
        /\ \A r \in new : \E i \in 1..(log - p) : IsFrameCursor(r, k, p, i)
    BY ZenonT(60), <2>0, <1>b, FrameCursorsFacts
  <2> HIDE DEF new
  <2>2. ASSUME NEW r \in new PROVE r.id[2] \in 0..(log - 1)
    <3>1. PICK i \in 1..(log - p) : IsFrameCursor(r, k, p, i)
      BY <2>1
    <3>2. r.id[2] = p + i - 1
      BY <3>1 DEF IsFrameCursor
    <3>3. p + i - 1 \in 0..(log - 1)
      BY SMTT(40), <1>b, <1>0
    <3> QED BY <3>2, <3>3
  <2> QED BY <2>1, <2>2
<1>9. IsFiniteSet(old) /\ old \subseteq Record /\ \A r \in old : r.id[2] \in 0..(log - 1)
  <2> HIDE DEF old
  <2>1. /\ IsFiniteSet(old) /\ old \subseteq Record /\ \A q \in old : \E r \in cursors : q.id = r.id
    BY <1>0, HandedFacts DEF old
  <2> QED BY <1>0, <2>1
<1>10. IsFiniteSet(cursors') /\ cursors' \subseteq old \cup new
  <2> HIDE DEF old, new
  <2> QED BY <1>2, <1>8, <1>9, WithCursorsFacts
<1>11. DaemonTypeOK'
  <2> HIDE DEF old, new
  <2>1. \A r \in cursors' : r \in Record /\ r.id[2] \in 0..(log - 1)
    BY <1>8, <1>9, <1>10
  <2>2. made' \in Nat
    BY <1>2, <1>b
  <2>3. log' = log /\ instance' = instance
    BY <1>6 DEF Responded
  <2> QED BY <1>5, <1>10, <2>1, <2>2, <2>3, DaemonTypeIntro
<1>12. /\ events' \in Seq(Seq(Frame)) /\ Len(events') = k /\ events'[k] = e
       /\ \A s \in Subs : events'[s] = events[s]
  <2>1. events \in Seq(Seq(Frame)) /\ Len(events) = Len(subs)
    BY DEF TypeOK, ChannelTypeOK
  <2>2. e \in Seq(Frame)
    <3>1. 0 \in Nat
      OBVIOUS
    <3> QED BY <1>0, <1>b, <3>1, FramesFacts
  <2>0. events' = Append(events, e)
    BY <1>2
  <2> HIDE DEF e
  <2>3. /\ events' \in Seq(Seq(Frame)) /\ Len(events') = Len(events) + 1 /\ events'[Len(events) + 1] = e
        /\ \A s \in 1..Len(events) : events'[s] = events[s]
    BY <2>0, <2>1, <2>2, AppendFacts
  <2> QED BY <2>1, <2>3 DEF Subs
<1>13. ChannelTypeOK'
  <2>1. /\ calls' \in [Activities -> Call] /\ calls'[t].sub = k /\ UNCHANGED <<conn, up, faults>>
        /\ \A v \in Activities : v # t => calls'[v] = calls[v]
    BY <1>6 DEF Responded
  <2>2. Len(subs) <= Len(subs') /\ Len(subs') \in Nat /\ k \in 0..Len(subs')
    BY <1>0, <1>5
  <2>3. \A v \in Activities : calls'[v].sub \in 0..Len(subs')
    BY <2>1, <2>2, CallsSub
  <2> QED BY <1>5, <1>12, <2>1, <2>3, ChannelTypeIntro
<1> QED
  BY <1>1, <1>3, <1>a, <1>5, <1>6, <1>11, <1>12, <1>13 DEF ResumedEffect

\* A step that keeps some of the cursors and changes nothing else of the daemon's types.
LEMMA FewerCursors ==
    ASSUME TypeOK, cursors' \subseteq cursors
    PROVE  IsFiniteSet(cursors') /\ \A r \in cursors' : r \in Record /\ r.id[2] \in 0..(log - 1)
<1>1. IsFiniteSet(cursors) /\ \A r \in cursors : r \in Record /\ r.id[2] \in 0..(log - 1)
  BY DEF TypeOK, DaemonTypeOK
<1>2. IsFiniteSet(cursors')
  BY <1>1, FS_Subset
<1> QED BY <1>1, <1>2

LEMMA SameSubs ==
    ASSUME TypeOK, subs' = subs
    PROVE  /\ subs' \in Seq(Sub) /\ Subs' = Subs /\ \A s \in Subs' : SubOK(subs'[s], log) /\ subs'[s].conn <= conn
           /\ SubsKept
<1>1. Subs' = Subs /\ subs' \in Seq(Sub) /\ \A s \in Subs : SubOK(subs[s], log) /\ subs[s].conn <= conn
  BY DEF TypeOK, DaemonTypeOK, ChannelTypeOK, Subs
<1>2. ASSUME NEW s \in Subs
      PROVE  subs'[s].seq >= subs[s].seq
  <2>1. subs[s].seq \in Nat
    BY SubFacts
  <2> QED BY <2>1
<1>3. SubsKept
  <2>1. Len(subs) <= Len(subs')
    BY DEF TypeOK, DaemonTypeOK
  <2> QED BY <1>2, <2>1 DEF SubsKept
<1> QED BY <1>1, <1>3

\* Subscription s becomes y.
Becomes(s, y) == subs' = [subs EXCEPT ![s] = y]

LEMMA OneSub ==
    ASSUME TypeOK, NEW s \in Subs, NEW y \in Sub, SubOK(y, log), y.conn \in {subs[s].conn, 0}, Becomes(s, y)
    PROVE  /\ subs' \in Seq(Sub) /\ Len(subs') = Len(subs) /\ Subs' = Subs
           /\ \A r \in Subs' : SubOK(subs'[r], log) /\ subs'[r].conn <= conn
           /\ subs'[s] = y /\ \A r \in Subs : r # s => subs'[r] = subs[r]
<1>1. subs \in Seq(Sub) /\ s \in 1..Len(subs)
  BY DEF TypeOK, DaemonTypeOK, Subs
<1>2. /\ subs' = [r \in 1..Len(subs) |-> subs'[r]] /\ subs'[s] = y
      /\ \A r \in 1..Len(subs) : r # s => subs'[r] = subs[r]
  <2>1. DOMAIN subs = 1..Len(subs) /\ subs = [r \in 1..Len(subs) |-> subs[r]]
    BY <1>1
  <2>2. subs' = [r \in 1..Len(subs) |-> IF r = s THEN y ELSE subs[r]]
    BY <1>1, <2>1 DEF Becomes
  <2> HIDE DEF Becomes
  <2> QED BY <1>1, <2>2
<1>3. ASSUME NEW r \in Subs
      PROVE  subs'[r] \in Sub /\ SubOK(subs'[r], log) /\ subs'[r].conn \in {subs[r].conn, 0}
  <2>1. subs[r] \in Sub /\ SubOK(subs[r], log)
    BY SubFacts
  <2>2. CASE r = s
    BY <1>2, <2>2
  <2>3. CASE r # s
    <3>1. subs'[r] = subs[r]
      BY <1>2, <2>3 DEF Subs
    <3> QED BY <2>1, <3>1
  <2> QED BY <2>2, <2>3
<1>4. subs' = [r \in Subs |-> subs'[r]]
  BY <1>2 DEF Subs
<1>5. /\ subs' \in Seq(Sub) /\ Len(subs') = Len(subs) /\ Subs' = Subs
      /\ \A r \in Subs' : SubOK(subs'[r], log) /\ subs'[r].conn <= conn
  BY <1>3, <1>4, EachSub
<1> QED BY <1>2, <1>5 DEF Subs

LEMMA OneSubKept ==
    ASSUME TypeOK, NEW s \in Subs, Len(subs') = Len(subs), \A r \in Subs : r # s => subs'[r] = subs[r],
           subs'[s].snap = subs[s].snap, subs'[s].seq >= subs[s].seq,
           subs[s].phase = "active" => subs'[s].phase = "active", subs'[s].conn \in {subs[s].conn, 0}
    PROVE  SubsKept
<1>1. ASSUME NEW r \in Subs
      PROVE  /\ subs'[r].snap = subs[r].snap /\ subs'[r].seq >= subs[r].seq
             /\ subs[r].phase = "active" => subs'[r].phase = "active"
             /\ subs'[r].conn \in {subs[r].conn, 0}
  <2>1. CASE r = s
    BY <2>1
  <2>2. CASE r # s
    <3>1. subs'[r] = subs[r] /\ subs[r].seq \in Nat
      BY <2>2, SubFacts
    <3>2. subs'[r].seq >= subs[r].seq
      BY <3>1
    <3> QED BY <3>1, <3>2
  <2> QED BY <2>1, <2>2
<1>2. Len(subs) <= Len(subs')
  BY DEF TypeOK, DaemonTypeOK
<1> QED BY <1>1, <1>2 DEF SubsKept

LEMMA SameEvents ==
    ASSUME TypeOK, events' = events, Len(subs') = Len(subs)
    PROVE  events' \in Seq(Seq(Frame)) /\ Len(events') = Len(subs')
BY DEF TypeOK, ChannelTypeOK

\* A response about the subscription it was asked for, to a request that changed at most
\* that one.
LEMMA ResponseTypes ==
    ASSUME TypeOK, NEW t \in Activities, NEW kind, NEW start, NEW count, NEW code,
           Responded(t, kind, calls[t].sub, start, count, code),
           cursors' \subseteq cursors, made' = made, events' = events,
           subs' \in Seq(Sub), Len(subs') = Len(subs),
           \A r \in Subs' : SubOK(subs'[r], log) /\ subs'[r].conn <= conn
    PROVE  DaemonTypeOK' /\ ChannelTypeOK'
<1>5. IsFiniteSet(cursors') /\ \A r \in cursors' : r \in Record /\ r.id[2] \in 0..(log - 1)
  BY FewerCursors
<1>7. DaemonTypeOK'
  <2>1. made' \in Nat /\ log' = log /\ instance' = instance
    BY DEF Responded, TypeOK, DaemonTypeOK
  <2> QED BY <1>5, <2>1, DaemonTypeIntro
<1>8. ChannelTypeOK'
  <2>1. /\ calls' \in [Activities -> Call] /\ calls'[t].sub = calls[t].sub /\ UNCHANGED <<conn, up, faults>>
        /\ \A v \in Activities : v # t => calls'[v] = calls[v]
    BY DEF Responded
  <2>2. Len(subs) <= Len(subs') /\ Len(subs') \in Nat /\ calls[t].sub \in 0..Len(subs')
    BY SentCall DEF TypeOK, DaemonTypeOK
  <2>3. \A v \in Activities : calls'[v].sub \in 0..Len(subs')
    BY <2>1, <2>2, CallsSub
  <2>4. events' \in Seq(Seq(Frame)) /\ Len(events') = Len(subs')
    BY SameEvents
  <2> QED BY <2>1, <2>3, <2>4, ChannelTypeIntro
<1> QED BY <1>7, <1>8

LEMMA SubscribeRefusedFacts ==
    ASSUME TypeOK, NEW t \in Activities, SubscribeRefused(t)
    PROVE  /\ DaemonTypeOK' /\ ChannelTypeOK' /\ SubsKept
           /\ UNCHANGED <<made, subs, events>> /\ cursors' \subseteq cursors
           /\ ~\E r \in cursors' : r.id = calls[t].cursor /\ r.state = "acked"
           /\ Responded(t, "error", calls[t].sub, 0, 0, "snapshot_required") /\ calls[t].cursor # None
<1> DEFINE s == calls[t].sub
<1>1. /\ UNCHANGED <<made, subs, events>> /\ Respond(t, "error", s, 0, 0, "snapshot_required")
      /\ cursors' = {r \in cursors : ~(r.id = calls[t].cursor /\ r.state = "acked")} /\ calls[t].cursor # None
  BY DEF SubscribeRefused, Failure
<1>2. s \in Nat /\ "error" \in Kinds /\ "snapshot_required" \in Codes /\ calls \in [Activities -> Call] /\ 0 \in Nat
      /\ s \in 0..Len(subs)
  BY SentCall DEF Kinds, Codes, TypeOK, ChannelTypeOK
<1> HIDE DEF s
<1>3. Responded(t, "error", s, 0, 0, "snapshot_required")
  BY <1>1, <1>2, RespondCalls
<1>4. cursors' \subseteq cursors /\ ~\E r \in cursors' : r.id = calls[t].cursor /\ r.state = "acked"
  BY <1>1
<1>6. /\ subs' \in Seq(Sub) /\ Subs' = Subs /\ \A r \in Subs' : SubOK(subs'[r], log) /\ subs'[r].conn <= conn
      /\ SubsKept /\ Len(subs') = Len(subs)
  BY <1>1, SameSubs
<1>7. DaemonTypeOK' /\ ChannelTypeOK'
  BY <1>1, <1>3, <1>4, <1>6, ResponseTypes DEF s
<1> QED BY <1>1, <1>3, <1>4, <1>6, <1>7 DEF s

LEMMA Refusal ==
    ASSUME TypeOK, NEW t \in Activities, NEW code \in Codes, Failure(t, code)
    PROVE  Responded(t, "error", calls[t].sub, 0, 0, code)
<1> DEFINE s == calls[t].sub
<1>1. Respond(t, "error", s, 0, 0, code) /\ s \in Nat /\ "error" \in Kinds /\ 0 \in Nat /\ calls \in [Activities -> Call]
  BY SentCall DEF Failure, Kinds, TypeOK, ChannelTypeOK
<1> HIDE DEF s
<1>2. Responded(t, "error", s, 0, 0, code)
  BY <1>1, RespondCalls
<1> QED BY <1>2 DEF s

LEMMA Acceptance ==
    ASSUME TypeOK, NEW t \in Activities, NEW kind \in Kinds, Success(t, kind)
    PROVE  Responded(t, kind, calls[t].sub, 0, 0, "")
<1> DEFINE s == calls[t].sub
<1>1. Respond(t, kind, s, 0, 0, "") /\ s \in Nat /\ "" \in Codes /\ 0 \in Nat /\ calls \in [Activities -> Call]
  BY SentCall DEF Success, Codes, TypeOK, ChannelTypeOK
<1> HIDE DEF s
<1>2. Responded(t, kind, s, 0, 0, "")
  BY <1>1, RespondCalls
<1> QED BY <1>2 DEF s

\* A refused request changes nothing.
LEMMA RefusedTypes ==
    ASSUME TypeOK, NEW t \in Activities, NEW code, Responded(t, "error", calls[t].sub, 0, 0, code),
           UNCHANGED <<cursors, made, subs, events>>
    PROVE  DaemonTypeOK' /\ ChannelTypeOK' /\ SubsKept
<1>1. /\ subs' \in Seq(Sub) /\ \A r \in Subs' : SubOK(subs'[r], log) /\ subs'[r].conn <= conn
      /\ SubsKept /\ Len(subs') = Len(subs)
  BY SameSubs
<1>2. cursors' \subseteq cursors /\ made' = made /\ events' = events
  OBVIOUS
<1> QED BY <1>1, <1>2, ResponseTypes

PagedSub(x, start) == [x EXCEPT !.phase = IF @ = "paging" THEN Served(start, x.snap) ELSE @]

LEMMA PagedSubFacts ==
    ASSUME NEW x \in Sub, NEW n \in Nat, SubOK(x, n), x.phase # "invalid", NEW start, NEW y, y = PagedSub(x, start)
    PROVE  /\ y \in Sub /\ SubOK(y, n) /\ SameSub(y, x) /\ y.seq = x.seq /\ y.buffered = x.buffered
           /\ y.phase = "active" <=> x.phase = "active"
           /\ y.phase # "invalid"
<1>0. Served(start, x.snap) \in {"paging", "served"}
  BY DEF Served
<1>1. /\ y \in Sub /\ y.conn = x.conn /\ y.snap = x.snap /\ y.acked = x.acked /\ y.seq = x.seq
      /\ y.phase = (IF x.phase = "paging" THEN Served(start, x.snap) ELSE x.phase) /\ y.buffered = x.buffered
  BY <1>0 DEF Sub, PagedSub
<1> QED BY <1>0, <1>1 DEF Sub, SubOK, SameSub

LEMMA SnapshotPageFacts ==
    ASSUME TypeOK, NEW t \in Activities, SnapshotPage(t), NEW s, s = calls[t].sub
    PROVE  /\ DaemonTypeOK' /\ ChannelTypeOK' /\ SubsKept /\ UNCHANGED <<cursors, made, events>>
           /\ Len(subs') = Len(subs) /\ Subs' = Subs
           /\ \A r \in Subs : /\ subs'[r].conn = subs[r].conn /\ subs'[r].snap = subs[r].snap
                              /\ subs'[r].acked = subs[r].acked
                              /\ subs'[r].seq = subs[r].seq /\ (subs'[r].phase = "active" <=> subs[r].phase = "active")
                              /\ (subs'[r].phase = "invalid" <=> subs[r].phase = "invalid")
           /\ \/ Responded(t, "error", s, 0, 0, "snapshot_required")
              \/ /\ Attached(s) /\ subs[s].phase # "invalid"
                 /\ Responded(t, "page", s, calls[t].start, subs[s].snap, "")
<1>0. UNCHANGED <<cursors, made, events>> /\ s \in Nat /\ calls[t].start \in Nat /\ calls \in [Activities -> Call]
  BY SentCall DEF SnapshotPage, TypeOK, ChannelTypeOK
<1>1. CASE Attached(s) /\ subs[s].phase # "invalid"
  <2> DEFINE y == PagedSub(subs[s], calls[t].start)
             n == subs[s].snap
             f == calls[t].start
  <2>1. s \in Subs /\ subs[s] \in Sub /\ SubOK(subs[s], log) /\ log \in Nat /\ n \in Nat
    BY <1>1, SubFacts DEF Attached, TypeOK, DaemonTypeOK
  <2>2. Respond(t, "page", s, f, n, "")
    BY <1>1 DEF SnapshotPage
  <2>3. Becomes(s, y)
    BY <1>1 DEF SnapshotPage, Becomes, PagedSub
  <2>4. /\ y \in Sub /\ SubOK(y, log) /\ SameSub(y, subs[s]) /\ y.seq = subs[s].seq
        /\ y.phase = "active" <=> subs[s].phase = "active"
        /\ y.phase # "invalid"
    BY <1>1, <2>1, PagedSubFacts
  <2>5. "page" \in Kinds /\ "" \in Codes /\ f \in Nat
    BY <1>0 DEF Kinds, Codes
  <2> HIDE DEF y, n, f
  <2>6. Responded(t, "page", s, f, n, "")
    BY <1>0, <2>1, <2>2, <2>5, RespondCalls
  <2>7. y.conn \in {subs[s].conn, 0}
    BY <2>4 DEF SameSub
  <2>8. /\ subs' \in Seq(Sub) /\ Len(subs') = Len(subs) /\ Subs' = Subs
        /\ \A r \in Subs' : SubOK(subs'[r], log) /\ subs'[r].conn <= conn
        /\ subs'[s] = y /\ \A r \in Subs : r # s => subs'[r] = subs[r]
    BY <2>1, <2>3, <2>4, <2>7, OneSub
  <2>9. cursors' \subseteq cursors /\ made' = made /\ events' = events
    BY <1>0
  <2>10. DaemonTypeOK' /\ ChannelTypeOK'
    BY <2>6, <2>8, <2>9, ResponseTypes
  <2>11. \A r \in Subs : /\ subs'[r].conn = subs[r].conn /\ subs'[r].snap = subs[r].snap
                         /\ subs'[r].acked = subs[r].acked
                         /\ subs'[r].seq = subs[r].seq /\ (subs'[r].phase = "active" <=> subs[r].phase = "active")
                         /\ (subs'[r].phase = "invalid" <=> subs[r].phase = "invalid")
    BY <1>1, <2>4, <2>8 DEF SameSub
  <2>12. SubsKept
    <3>1. subs'[s].snap = subs[s].snap /\ subs'[s].conn \in {subs[s].conn, 0} /\ (subs[s].phase = "active" => subs'[s].phase = "active")
      BY <2>1, <2>11
    <3>2. subs'[s].seq >= subs[s].seq
      <4>1. subs'[s].seq = subs[s].seq /\ subs[s].seq \in Nat
        BY <2>1, <2>11, SubFacts
      <4> QED BY <4>1
    <3> QED BY <2>1, <2>8, <3>1, <3>2, OneSubKept
  <2> QED BY <1>0, <1>1, <2>6, <2>8, <2>10, <2>11, <2>12 DEF n, f
<1>2. CASE ~(Attached(s) /\ subs[s].phase # "invalid")
  <2>1. Failure(t, "snapshot_required") /\ UNCHANGED subs
    BY <1>2 DEF SnapshotPage
  <2>2. "snapshot_required" \in Codes
    BY DEF Codes
  <2>3. Responded(t, "error", s, 0, 0, "snapshot_required")
    BY <2>1, <2>2, Refusal
  <2>4. DaemonTypeOK' /\ ChannelTypeOK' /\ SubsKept
    BY <1>0, <2>1, <2>3, RefusedTypes
  <2>5. Subs' = Subs
    BY <2>1, SameSubs
  <2> QED BY <1>0, <2>1, <2>3, <2>4, <2>5
<1> QED BY <1>1, <1>2

LEMMA AckRefusalFacts ==
    ASSUME NEW s, NEW c
    PROVE  /\ AckRefusal(s, c) \in Codes
           /\ AckRefusal(s, c) = "" => /\ Attached(s) /\ subs[s].phase # "invalid"
                                       /\ \E r \in cursors : r.id = c /\ r.owner = s
                                       /\ ~(subs[s].phase = "paging" /\ c = Boundary(s))
           /\ AckRefusal(s, c) \in CursorErrors => Attached(s)
           /\ AckRefusal(s, c) = "unknown_subscription" <=> ~Attached(s)
           /\ AckRefusal(s, c) = "unknown_cursor" => ~\E r \in cursors : r.id = c /\ r.owner = s
           /\ AckRefusal(s, c) = "snapshot_required" =>
                Attached(s) /\ (subs[s].phase = "invalid" \/ (subs[s].phase = "paging" /\ c = Boundary(s)))
<1> DEFINE a == Attached(s)
           i == subs[s].phase = "invalid"
           g == subs[s].phase = "paging"
           e == \E r \in cursors : r.id = c /\ r.owner = s
           b == c = Boundary(s)
<1>1. AckRefusal(s, c) = CASE ~a -> "unknown_subscription"
                           [] a /\ i -> "snapshot_required"
                           [] a /\ ~i /\ ~e -> "unknown_cursor"
                           [] a /\ g /\ b /\ e -> "snapshot_required"
                           [] OTHER -> ""
  BY DEF AckRefusal
<1>2. ~(i /\ g)
  OBVIOUS
<1> HIDE DEF a, i, g, e, b
<1>3. /\ ~a => AckRefusal(s, c) = "unknown_subscription"
      /\ a /\ i => AckRefusal(s, c) = "snapshot_required"
      /\ a /\ ~i /\ ~e => AckRefusal(s, c) = "unknown_cursor"
      /\ a /\ ~i /\ e /\ g /\ b => AckRefusal(s, c) = "snapshot_required"
      /\ a /\ ~i /\ e /\ ~(g /\ b) => AckRefusal(s, c) = ""
  BY <1>1, <1>2
<1>4. AckRefusal(s, c) \in Codes
  BY <1>3 DEF Codes
<1>5. /\ AckRefusal(s, c) = "" => a /\ ~i /\ e /\ ~(g /\ b)
      /\ AckRefusal(s, c) \in CursorErrors => a
      /\ AckRefusal(s, c) = "unknown_subscription" <=> ~a
      /\ AckRefusal(s, c) = "unknown_cursor" => ~e
      /\ AckRefusal(s, c) = "snapshot_required" => a /\ (i \/ (g /\ b))
  BY <1>3 DEF CursorErrors
<1> QED BY <1>4, <1>5 DEF a, i, g, e, b

\* The state of a subscription after an acknowledgement: p its phase, k the events sent,
\* b the events still buffered, c the cursor.
AckedSub(x, p, k, b, c) == [x EXCEPT !.phase = p, !.seq = @ + k, !.buffered = b, !.acked = c]

LEMMA AckAccepted ==
    ASSUME NEW s, NEW c, AckRefusal(s, c) = ""
    PROVE  Attached(s) /\ subs[s].phase # "invalid" /\ \E r \in cursors : r.id = c /\ r.owner = s
BY AckRefusalFacts

LEMMA AckedSubFacts ==
    ASSUME NEW x \in Sub, NEW n \in Nat, SubOK(x, n), x.phase # "invalid", x.conn # 0, NEW p, NEW k \in Nat, NEW b \in Nat,
           NEW c \in CursorOrNone,
           \/ p = "active" /\ k = x.buffered /\ b = 0
           \/ p = x.phase /\ k = 0 /\ b = x.buffered,
           NEW y, y = AckedSub(x, p, k, b, c)
    PROVE  /\ y \in Sub /\ SubOK(y, n) /\ y.conn = x.conn /\ y.snap = x.snap /\ y.seq = x.seq + k /\ y.phase = p /\ y.acked = c
           /\ y.buffered = b
<1>1. p \in {"paging", "served", "active"} /\ x.buffered \in Nat /\ x.seq \in Nat /\ x.snap \in Nat
  BY DEF Sub
<1>2. /\ y \in Sub /\ y.conn = x.conn /\ y.snap = x.snap /\ y.seq = x.seq + k
      /\ y.phase = p /\ y.buffered = b /\ y.acked = c
  <2> DEFINE n1 == x.seq + k
  <2>1. n1 \in Nat /\ y = [x EXCEPT !.phase = p, !.seq = n1, !.buffered = b, !.acked = c]
    BY <1>1 DEF AckedSub, Sub
  <2> HIDE DEF n1
  <2>2. /\ y.conn = x.conn /\ y.snap = x.snap
        /\ y.seq = n1 /\ y.phase = p /\ y.buffered = b /\ y.acked = c
    BY <2>1 DEF Sub
  <2>3. y \in Sub
    BY ZenonT(60), <1>1, <2>1 DEF Sub
  <2> QED BY <2>2, <2>3 DEF n1
<1> QED BY <1>1, <1>2 DEF SubOK

\* What an acknowledgement of cursor c of subscription s sends and changes.
Activates(s, c) == c = Boundary(s) /\ subs[s].phase # "active"
Sends(s, c) == IF Activates(s, c) THEN subs[s].buffered ELSE 0
Advances(s, c) == Position(c) >= AcknowledgedPosition(s)

LEMMA AckedFacts ==
    ASSUME TypeOK, NEW c, NEW s, NEW advances
    PROVE  /\ IsFiniteSet(Acked(c, s, advances)) /\ Acked(c, s, advances) \subseteq Record
           /\ \A q \in Acked(c, s, advances) : \E r \in cursors :
                /\ q.id = r.id /\ q.owner = r.owner /\ q.at = r.at /\ q.state = (IF r.id = c THEN "acked" ELSE r.state)
                /\ r.id = c \/ ~advances \/ r.owner # s \/ r.id[2] > c[2]
           /\ \A r \in cursors : r.id = c \/ ~advances \/ r.owner # s \/ r.id[2] > c[2] =>
                \E q \in Acked(c, s, advances) :
                  /\ q.id = r.id /\ q.owner = r.owner /\ q.at = r.at
                  /\ q.state = (IF r.id = c THEN "acked" ELSE r.state)
<1> DEFINE h(r) == [r EXCEPT !.state = IF r.id = c THEN "acked" ELSE @]
           K == {q \in cursors : q.id = c \/ ~advances \/ q.owner # s \/ q.id[2] > c[2]}
           f == [r \in K |-> h(r)]
           T == Acked(c, s, advances)
<1>1. \A r \in cursors : /\ h(r) \in Record /\ h(r).id = r.id /\ h(r).owner = r.owner /\ h(r).at = r.at
                         /\ h(r).state = (IF r.id = c THEN "acked" ELSE r.state)
  BY DEF TypeOK, DaemonTypeOK, Record
<1>2. T = {h(r) : r \in K}
  BY DEF Acked, Position
<1> HIDE DEF h
<1>3. f \in Surjection(K, T)
  BY <1>2 DEF Surjection
<1>4. IsFiniteSet(T)
  <2>1. IsFiniteSet(cursors) /\ K \subseteq cursors
    BY DEF TypeOK, DaemonTypeOK
  <2>2. IsFiniteSet(K)
    BY SMTT(40), <2>1, FS_Subset
  <2> HIDE DEF f, T, K
  <2> QED BY <1>3, <2>2, FS_Surjection
<1> QED BY <1>1, <1>2, <1>4

\* Cursor c of subscription s is acknowledged, and k buffered events are sent.
AcknowledgeEffect(t, s, c, k) ==
    /\ Attached(s) /\ s \in Subs /\ subs[s].phase # "invalid" /\ c \in Cursor
    /\ k \in Nat /\ (subs[s].phase = "active" => k = 0)
    /\ (Activates(s, c) => log - k = subs[s].snap)
    /\ \E r \in cursors : r.id = c /\ r.owner = s
    /\ Len(subs') = Len(subs) /\ Subs' = Subs
    /\ \A r \in Subs : r # s => subs'[r] = subs[r] /\ events'[r] = events[r]
    /\ subs'[s].conn = subs[s].conn /\ subs'[s].snap = subs[s].snap /\ subs'[s].seq = subs[s].seq + k
    /\ subs'[s].acked = (IF Advances(s, c) THEN c ELSE subs[s].acked)
    /\ subs'[s].phase = (IF Activates(s, c) THEN "active" ELSE subs[s].phase)
    /\ events'[s] = events[s] \o Frames(s, subs[s].seq, log - k, log)
    /\ cursors' = WithCursors(Acked(c, s, Advances(s, c)), FrameCursors(s, log - k, log))
    /\ made' = made + k
    /\ Responded(t, "acked", s, 0, 0, "")

LEMMA AcknowledgeFacts ==
    ASSUME TypeOK, NEW t \in Activities, Acknowledge(t), NEW s, s = calls[t].sub, NEW c, c = calls[t].cursor,
           NEW k, k = Sends(s, c)
    PROVE  DaemonTypeOK' /\ ChannelTypeOK' /\ SubsKept /\ AcknowledgeEffect(t, s, c, k)
<1> DEFINE p == IF Activates(s, c) THEN "active" ELSE subs[s].phase
           b == IF Activates(s, c) THEN 0 ELSE subs[s].buffered
           a == IF Advances(s, c) THEN c ELSE subs[s].acked
           y == AckedSub(subs[s], p, k, b, a)
           from == log - k
           F == Frames(s, subs[s].seq, from, log)
           old == Acked(c, s, Advances(s, c))
           new == FrameCursors(s, from, log)
<1>1. AckRefusal(s, c) = "" /\ Executes(t, "ack")
  BY Zenon DEF Acknowledge
<1>2. Attached(s) /\ subs[s].phase # "invalid" /\ \E r \in cursors : r.id = c /\ r.owner = s
  BY ZenonT(60), <1>1, AckAccepted
<1>3. /\ s \in Subs /\ subs[s].conn # 0 /\ c \in Cursor /\ log \in Nat /\ made \in Nat
      /\ calls \in [Activities -> Call]
  <2>1. s \in Subs /\ subs[s].conn = conn /\ conn >= 1
    BY <1>2 DEF Attached, TypeOK, ChannelTypeOK
  <2>2. c \in Cursor
    BY <1>2 DEF TypeOK, DaemonTypeOK, Record
  <2> QED BY <2>1, <2>2 DEF TypeOK, DaemonTypeOK, ChannelTypeOK
<1>4. /\ subs[s] \in Sub /\ SubOK(subs[s], log) /\ subs[s].buffered \in Nat /\ subs[s].seq \in Nat /\ subs[s].snap \in Nat
      /\ s \in Nat /\ subs[s].acked \in CursorOrNone /\ events[s] \in Seq(Frame)
  BY <1>3, SubFacts
<1>5. /\ k \in Nat /\ (subs[s].phase = "active" => k = 0) /\ k <= log
      /\ (Activates(s, c) => log - k = subs[s].snap) /\ (~Activates(s, c) => k = 0)
  <2>1. CASE Activates(s, c)
    <3>1. k = subs[s].buffered /\ subs[s].phase # "active"
      BY <2>1 DEF Sends, Activates
    <3>2. subs[s].snap + subs[s].seq + subs[s].buffered = log /\ subs[s].seq = 0
      BY <1>2, <1>3, <1>4, <3>1 DEF SubOK
    <3> QED BY SMTT(40), <1>3, <1>4, <2>1, <3>1, <3>2
  <2>2. CASE ~Activates(s, c)
    <3>1. k = 0
      BY SMTT(40), <2>2 DEF Sends
    <3> QED BY <1>3, <2>2, <3>1
  <2> QED BY <2>1, <2>2
<1>6. /\ cursors' = WithCursors(old, new) /\ made' = made + (log - from) /\ Success(t, "acked")
      /\ events' = [events EXCEPT ![s] = @ \o F]
      /\ subs' = [subs EXCEPT ![s].phase = IF Activates(s, c) THEN "active" ELSE @,
                              ![s].seq = @ + (log - from),
                              ![s].buffered = IF Activates(s, c) THEN 0 ELSE @,
                              ![s].acked = IF Advances(s, c) THEN c ELSE @]
  <2>1. (IF Activates(s, c) THEN log - subs[s].buffered ELSE log) = from
    BY SMTT(40), <1>3, <1>4 DEF Sends
  <2> HIDE DEF from
  <2>2. /\ cursors' = WithCursors(Acked(c, s, Position(c) >= AcknowledgedPosition(s)), FrameCursors(s, from, log))
        /\ made' = made + (log - from)
        /\ subs' = [subs EXCEPT ![s].phase = IF Activates(s, c) THEN "active" ELSE @,
                                ![s].seq = @ + (log - from),
                                ![s].buffered = IF Activates(s, c) THEN 0 ELSE @,
                                ![s].acked = IF Position(c) >= AcknowledgedPosition(s) THEN c ELSE @]
        /\ events' = [events EXCEPT ![s] = @ \o Frames(s, subs[s].seq, from, log)]
        /\ Success(t, "acked")
    BY Zenon, <2>1 DEF Acknowledge, Activates
  <2> QED BY Zenon, <2>2 DEF Advances
<1>7. log - from = k
  BY <1>3, <1>5
<1>8. Becomes(s, y)
  <2>1. subs' = [subs EXCEPT ![s].phase = p, ![s].seq = @ + k, ![s].buffered = b, ![s].acked = a]
    BY Zenon, <1>6, <1>7
  <2> HIDE DEF p, b, a
  <2> QED BY Zenon, <2>1 DEF Becomes, AckedSub
<1>9. /\ b \in Nat /\ a \in CursorOrNone
      /\ (p = "active" /\ k = subs[s].buffered /\ b = 0) \/ (p = subs[s].phase /\ k = 0 /\ b = subs[s].buffered)
  BY <1>3, <1>4, <1>5 DEF Sends, CursorOrNone
<1>10. /\ y \in Sub /\ SubOK(y, log) /\ y.conn = subs[s].conn /\ y.snap = subs[s].snap /\ y.seq = subs[s].seq + k
       /\ y.phase = p /\ y.acked = a
  <2> DEFINE x == subs[s]
  <2>1. /\ x \in Sub /\ SubOK(x, log) /\ x.phase # "invalid" /\ x.conn # 0 /\ y = AckedSub(x, p, k, b, a)
        /\ (p = "active" /\ k = x.buffered /\ b = 0) \/ (p = x.phase /\ k = 0 /\ b = x.buffered)
    BY <1>2, <1>3, <1>4, <1>9
  <2> HIDE DEF x, y, p, b, a
  <2>2. /\ y \in Sub /\ SubOK(y, log) /\ y.conn = x.conn /\ y.snap = x.snap /\ y.seq = x.seq + k
        /\ y.phase = p /\ y.acked = a
    BY <1>3, <1>5, <1>9, <2>1, AckedSubFacts
  <2> QED BY <2>2 DEF x
<1> HIDE DEF y
<1>11. /\ subs' \in Seq(Sub) /\ Len(subs') = Len(subs) /\ Subs' = Subs
       /\ \A r \in Subs' : SubOK(subs'[r], log) /\ subs'[r].conn <= conn
       /\ subs'[s] = y /\ \A r \in Subs : r # s => subs'[r] = subs[r]
  <2>1. y.conn \in {subs[s].conn, 0}
    BY SMTT(40), <1>10
  <2> QED BY SMTT(40), <1>3, <1>8, <1>10, <2>1, OneSub
<1>12. Responded(t, "acked", s, 0, 0, "")
  <2>1. "acked" \in Kinds
    BY DEF Kinds
  <2> QED BY Zenon, <1>6, <2>1, Acceptance
<1>13. from \in Int /\ log \in Int /\ log - from \in Nat /\ from >= 0
  BY <1>3, <1>5
<1> HIDE DEF from
<1>14. F \in Seq(Frame)
  BY <1>4, <1>13, FramesFacts
<1>15. /\ events' \in Seq(Seq(Frame)) /\ Len(events') = Len(subs') /\ events'[s] = events[s] \o F
       /\ \A r \in Subs : r # s => events'[r] = events[r]
  <2> HIDE DEF F
  <2>1. events \in Seq(Seq(Frame)) /\ s \in 1..Len(events) /\ Len(events) = Len(subs) /\ Subs = 1..Len(events)
    BY SMTT(40), <1>3 DEF TypeOK, ChannelTypeOK, Subs
  <2>2. events[s] \o F \in Seq(Frame)
    BY SMTT(40), <1>4, <1>14
  <2> DEFINE g == events[s] \o F
  <2>3. events' = [events EXCEPT ![s] = g] /\ g \in Seq(Frame)
    BY <1>6, <2>2
  <2> HIDE DEF g
  <2>4. /\ events' \in Seq(Seq(Frame)) /\ Len(events') = Len(events) /\ events'[s] = g
        /\ \A r \in 1..Len(events) : r # s => events'[r] = events[r]
    BY <2>1, <2>3
  <2> QED BY <1>11, <2>1, <2>4 DEF g
<1>16. /\ IsFiniteSet(old) /\ old \subseteq Record /\ \A r \in old : r.id[2] \in 0..(log - 1)
  <2> DEFINE adv == Advances(s, c)
  <2> HIDE DEF adv
  <2>0. old = Acked(c, s, adv)
    BY DEF adv
  <2> HIDE DEF old
  <2>1. /\ IsFiniteSet(old) /\ old \subseteq Record /\ \A q \in old : \E r \in cursors : q.id = r.id
    BY <2>0, AckedFacts
  <2> QED BY <2>1 DEF TypeOK, DaemonTypeOK
<1>17. /\ IsFiniteSet(new) /\ new \subseteq Record /\ \A r \in new : r.id[2] \in 0..(log - 1)
  <2>1. /\ IsFiniteSet(new) /\ new \subseteq Record
        /\ \A r \in new : \E i \in 1..(log - from) : IsFrameCursor(r, s, from, i)
    BY <1>3, <1>4, <1>13, FrameCursorsFacts
  <2> HIDE DEF new
  <2>2. ASSUME NEW r \in new PROVE r.id[2] \in 0..(log - 1)
    <3>1. PICK i \in 1..(log - from) : IsFrameCursor(r, s, from, i)
      BY <2>1
    <3>2. r.id[2] = from + i - 1
      BY <3>1 DEF IsFrameCursor
    <3>3. from + i - 1 \in 0..(log - 1)
      BY SMTT(40), <1>13
    <3> QED BY <3>2, <3>3
  <2> QED BY <2>1, <2>2
<1>18. IsFiniteSet(cursors') /\ \A r \in cursors' : r \in Record /\ r.id[2] \in 0..(log - 1)
  <2> HIDE DEF old, new
  <2>1. cursors' = WithCursors(old, new)
    BY <1>6
  <2>2. IsFiniteSet(cursors') /\ cursors' \subseteq old \cup new
    BY <2>1, <1>16, <1>17, WithCursorsFacts
  <2> QED BY SMTT(40), <1>16, <1>17, <2>2
<1>19. DaemonTypeOK'
  <2>1. made' \in Nat /\ log' = log /\ instance' = instance
    <3>1. log' = log /\ instance' = instance
      BY ZenonT(60), <1>12 DEF Responded
    <3>2. made' = made + k
      BY <1>6, <1>7
    <3> QED BY SMTT(40), <1>3, <1>5, <3>1, <3>2
  <2> QED BY <1>11, <1>18, <2>1, DaemonTypeIntro
<1>20. ChannelTypeOK'
  <2>1. /\ calls' \in [Activities -> Call] /\ calls'[t].sub = s /\ UNCHANGED <<conn, up, faults>>
        /\ \A v \in Activities : v # t => calls'[v] = calls[v]
    BY <1>12 DEF Responded
  <2>2. Len(subs) <= Len(subs') /\ Len(subs') \in Nat /\ s \in 0..Len(subs')
    BY <1>11, SentCall DEF TypeOK, DaemonTypeOK
  <2>3. \A v \in Activities : calls'[v].sub \in 0..Len(subs')
    BY <2>1, <2>2, CallsSub
  <2> QED BY <1>11, <1>15, <2>1, <2>3, ChannelTypeIntro
<1>21. SubsKept
  <2>1. subs'[s].snap = subs[s].snap /\ subs'[s].conn \in {subs[s].conn, 0} /\ (subs[s].phase = "active" => subs'[s].phase = "active")
    BY <1>10, <1>11
  <2>2. subs'[s].seq >= subs[s].seq
    BY SMTT(40), <1>4, <1>5, <1>10, <1>11
  <2> QED BY <1>3, <1>11, <2>1, <2>2, OneSubKept
<1>22. /\ events'[s] = events[s] \o Frames(s, subs[s].seq, log - k, log)
       /\ cursors' = WithCursors(Acked(c, s, Advances(s, c)), FrameCursors(s, log - k, log)) /\ made' = made + k
  BY Zenon, <1>6, <1>7, <1>15 DEF from
<1> QED
  BY ZenonT(60), <1>2, <1>3, <1>5, <1>10, <1>11, <1>12, <1>15, <1>19, <1>20, <1>21, <1>22
     DEF
     AcknowledgeEffect

LEMMA AcknowledgeRefusedFacts ==
    ASSUME TypeOK, NEW t \in Activities, AcknowledgeRefused(t)
    PROVE  /\ DaemonTypeOK' /\ ChannelTypeOK' /\ SubsKept /\ UNCHANGED <<cursors, made, subs, events>>
           /\ Responded(t, "error", calls[t].sub, 0, 0, AckRefusal(calls[t].sub, calls[t].cursor))
<1> DEFINE code == AckRefusal(calls[t].sub, calls[t].cursor)
<1>1. Failure(t, code) /\ UNCHANGED <<cursors, made, subs, events>> /\ code \in Codes
  BY AckRefusalFacts DEF AcknowledgeRefused
<1> HIDE DEF code
<1>2. Responded(t, "error", calls[t].sub, 0, 0, code)
  BY <1>1, Refusal
<1>3. DaemonTypeOK' /\ ChannelTypeOK' /\ SubsKept
  BY <1>1, <1>2, RefusedTypes
<1> QED BY <1>1, <1>2, <1>3 DEF code

LEMMA UnsubscribeFacts ==
    ASSUME TypeOK, NEW t \in Activities, Unsubscribe(t), NEW s, s = calls[t].sub
    PROVE  /\ DaemonTypeOK' /\ ChannelTypeOK' /\ SubsKept /\ cursors' \subseteq cursors
           /\ UNCHANGED <<made, events>> /\ Subs' = Subs /\ Len(subs') = Len(subs)
           /\ \A r \in Subs : r # s => subs'[r] = subs[r]
           /\ \/ /\ Attached(s) /\ cursors' = WithoutCursors(cursors, s) /\ Responded(t, "unsubscribed", s, 0, 0, "")
                 /\ subs'[s].conn = 0 /\ subs'[s].snap = subs[s].snap /\ subs'[s].seq = subs[s].seq
                 /\ subs'[s].phase = subs[s].phase /\ subs'[s].acked = subs[s].acked
              \/ /\ ~Attached(s) /\ UNCHANGED <<cursors, subs>> /\ Responded(t, "error", s, 0, 0, "unknown_subscription")
<1>0. UNCHANGED <<made, events>>
  BY DEF Unsubscribe
<1>1. CASE Attached(s)
  <2>1. cursors' = WithoutCursors(cursors, s) /\ Success(t, "unsubscribed") /\ Becomes(s, Removed(subs[s]))
    BY <1>1 DEF Unsubscribe, Becomes
  <2> DEFINE y == Removed(subs[s])
  <2>2. s \in Subs /\ subs[s] \in Sub /\ SubOK(subs[s], log) /\ log \in Nat /\ subs[s].seq \in Nat
    BY <1>1, SubFacts DEF Attached, TypeOK, DaemonTypeOK
  <2>3. /\ y \in Sub /\ SubOK(y, log) /\ y.conn = 0 /\ y.snap = subs[s].snap /\ y.seq = subs[s].seq
        /\ y.phase = subs[s].phase /\ y.acked = subs[s].acked
    BY <2>2, RemovedSub
  <2>4. Becomes(s, y)
    BY <2>1
  <2> HIDE DEF y
  <2>5. /\ subs' \in Seq(Sub) /\ Len(subs') = Len(subs) /\ Subs' = Subs
        /\ \A r \in Subs' : SubOK(subs'[r], log) /\ subs'[r].conn <= conn
        /\ subs'[s] = y /\ \A r \in Subs : r # s => subs'[r] = subs[r]
    <3>1. y.conn \in {subs[s].conn, 0}
      BY <2>3
    <3> QED BY <2>2, <2>3, <2>4, <3>1, OneSub
  <2>6. cursors' \subseteq cursors /\ made' = made /\ events' = events
    BY <1>0, <2>1 DEF WithoutCursors
  <2>7. Responded(t, "unsubscribed", s, 0, 0, "")
    <3>1. "unsubscribed" \in Kinds
      BY DEF Kinds
    <3> QED BY <2>1, <3>1, Acceptance
  <2>8. DaemonTypeOK' /\ ChannelTypeOK'
    BY <2>5, <2>6, <2>7, ResponseTypes
  <2>9. SubsKept
    <3>1. subs'[s].seq >= subs[s].seq
      BY <2>2, <2>3, <2>5
    <3>2. subs'[s].snap = subs[s].snap /\ subs'[s].conn \in {subs[s].conn, 0} /\ (subs[s].phase = "active" => subs'[s].phase = "active")
      BY <2>3, <2>5
    <3> QED BY <2>2, <2>5, <3>1, <3>2, OneSubKept
  <2> QED BY <1>0, <1>1, <2>1, <2>3, <2>5, <2>6, <2>7, <2>8, <2>9
<1>2. CASE ~Attached(s)
  <2>1. Failure(t, "unknown_subscription") /\ UNCHANGED <<cursors, subs>> /\ "unknown_subscription" \in Codes
    BY <1>2 DEF Unsubscribe, Codes
  <2>2. Responded(t, "error", s, 0, 0, "unknown_subscription")
    BY <2>1, Refusal
  <2>3. DaemonTypeOK' /\ ChannelTypeOK' /\ SubsKept
    BY <1>0, <2>1, <2>2, RefusedTypes
  <2>4. Subs' = Subs
    BY <2>1, SameSubs
  <2> QED BY <1>0, <1>2, <2>1, <2>2, <2>3, <2>4
<1> QED BY <1>1, <1>2

\* The daemon changes on its own: the client's side is as it was.
LEMMA QuietTypes ==
    ASSUME TypeOK, log' = log, instance' = instance, UNCHANGED channel, faults' \in Nat, made' \in Nat, IsFiniteSet(cursors'),
           \A r \in cursors' : r \in Record /\ r.id[2] \in 0..(log - 1),
           subs' \in Seq(Sub), Len(subs') = Len(subs),
           \A r \in Subs' : SubOK(subs'[r], log) /\ subs'[r].conn <= conn
    PROVE  DaemonTypeOK' /\ ChannelTypeOK'
<1>1. DaemonTypeOK'
  BY DaemonTypeIntro
<1>2. UNCHANGED <<conn, up, calls, events>>
  BY DEF channel
<1>3. ChannelTypeOK'
  BY <1>2 DEF TypeOK, ChannelTypeOK
<1> QED BY <1>1, <1>3

\* The subscriptions in G are removed.
RemovedAll(G) == subs' = [s \in Subs |-> IF s \in G THEN Removed(subs[s]) ELSE subs[s]]

LEMMA RemovedFacts ==
    ASSUME TypeOK, NEW G, RemovedAll(G)
    PROVE  /\ subs' \in Seq(Sub) /\ Len(subs') = Len(subs) /\ Subs' = Subs
           /\ \A r \in Subs' : SubOK(subs'[r], log) /\ subs'[r].conn <= conn
           /\ SubsKept
           /\ \A s \in Subs : /\ subs'[s].conn = (IF s \in G THEN 0 ELSE subs[s].conn)
                              /\ subs'[s].snap = subs[s].snap /\ subs'[s].seq = subs[s].seq
                              /\ subs'[s].phase = subs[s].phase /\ subs'[s].acked = subs[s].acked
<1>1. ASSUME NEW s \in Subs
      PROVE  /\ subs'[s] \in Sub /\ SubOK(subs'[s], log) /\ subs'[s].conn = (IF s \in G THEN 0 ELSE subs[s].conn)
             /\ subs'[s].snap = subs[s].snap /\ subs'[s].seq = subs[s].seq
             /\ subs'[s].phase = subs[s].phase /\ subs'[s].acked = subs[s].acked
             /\ subs'[s].seq >= subs[s].seq
  <2>1. subs[s] \in Sub /\ SubOK(subs[s], log) /\ log \in Nat /\ subs[s].seq \in Nat
    BY SubFacts DEF TypeOK, DaemonTypeOK
  <2>2. CASE s \in G
    <3>1. subs'[s] = Removed(subs[s])
      BY <2>2 DEF RemovedAll
    <3>2. /\ subs'[s] \in Sub /\ SubOK(subs'[s], log) /\ subs'[s].conn = 0
          /\ subs'[s].snap = subs[s].snap /\ subs'[s].seq = subs[s].seq
          /\ subs'[s].phase = subs[s].phase /\ subs'[s].acked = subs[s].acked
      BY <2>1, <3>1, RemovedSub
    <3> QED BY <2>1, <2>2, <3>2
  <2>3. CASE s \notin G
    <3>1. subs'[s] = subs[s]
      BY <2>3 DEF RemovedAll
    <3> QED BY <2>1, <2>3, <3>1
  <2> QED BY <2>2, <2>3
<1>2. subs' = [s \in Subs |-> subs'[s]]
  BY DEF RemovedAll
<1>3. \A s \in Subs : subs'[s] \in Sub /\ SubOK(subs'[s], log) /\ subs'[s].conn \in {subs[s].conn, 0}
  BY <1>1
<1>4. /\ subs' \in Seq(Sub) /\ Len(subs') = Len(subs) /\ Subs' = Subs
      /\ \A r \in Subs' : SubOK(subs'[r], log) /\ subs'[r].conn <= conn
  BY <1>2, <1>3, EachSub
<1>5. SubsKept
  <2>1. Len(subs) <= Len(subs')
    <3>1. Len(subs) \in Nat
      BY DEF TypeOK, DaemonTypeOK
    <3> QED BY <1>4, <3>1
  <2> QED BY <1>1, <1>3, <2>1 DEF SubsKept
<1> QED BY <1>1, <1>4, <1>5

LEMMA ConnectionClosedFacts ==
    ASSUME TypeOK, NEW c \in 1..conn, ConnectionClosed(c)
    PROVE  /\ DaemonTypeOK' /\ ChannelTypeOK' /\ SubsKept /\ ~(up /\ c = conn)
           /\ cursors' = {r \in cursors : ~Releases(r, c)} /\ UNCHANGED <<log, made, instance, channel, faults>>
           /\ Len(subs') = Len(subs) /\ Subs' = Subs
           /\ \A s \in Subs : /\ subs'[s].conn = (IF Gone(s, c) THEN 0 ELSE subs[s].conn)
                              /\ subs'[s].snap = subs[s].snap /\ subs'[s].seq = subs[s].seq
                              /\ subs'[s].phase = subs[s].phase /\ subs'[s].acked = subs[s].acked
<1> DEFINE G == {s \in Subs : Gone(s, c)}
<1>1. /\ cursors' = {r \in cursors : ~Releases(r, c)} /\ UNCHANGED <<log, made, instance, channel, faults>>
      /\ ~(up /\ c = conn)
  BY DEF ConnectionClosed
<1>2. RemovedAll(G)
  BY DEF ConnectionClosed, RemovedAll
<1> HIDE DEF G
<1>3. /\ subs' \in Seq(Sub) /\ Len(subs') = Len(subs) /\ Subs' = Subs
      /\ \A r \in Subs' : SubOK(subs'[r], log) /\ subs'[r].conn <= conn
      /\ SubsKept
      /\ \A s \in Subs : /\ subs'[s].conn = (IF s \in G THEN 0 ELSE subs[s].conn)
                         /\ subs'[s].snap = subs[s].snap /\ subs'[s].seq = subs[s].seq
                         /\ subs'[s].phase = subs[s].phase /\ subs'[s].acked = subs[s].acked
  BY <1>2, RemovedFacts
<1>4. cursors' \subseteq cursors
  BY <1>1
<1>5. IsFiniteSet(cursors') /\ \A r \in cursors' : r \in Record /\ r.id[2] \in 0..(log - 1)
  BY <1>4, FewerCursors
<1>6. log' = log /\ instance' = instance /\ UNCHANGED channel /\ faults' \in Nat /\ made' \in Nat
  BY <1>1 DEF TypeOK, DaemonTypeOK, ChannelTypeOK
<1>7. DaemonTypeOK' /\ ChannelTypeOK'
  BY <1>3, <1>5, <1>6, QuietTypes
<1> QED BY <1>1, <1>3, <1>7 DEF G

LEMMA CursorExpiresFacts ==
    ASSUME TypeOK, CursorExpires
    PROVE  /\ DaemonTypeOK' /\ ChannelTypeOK' /\ SubsKept /\ UNCHANGED <<log, made, subs, instance, channel>>
           /\ \E r \in cursors : cursors' = cursors \ {r} /\ \A q \in cursors : r.at <= q.at
           /\ Subs' = Subs
<1>1. /\ UNCHANGED <<log, made, subs, instance, channel>> /\ faults' = faults + 1
      /\ \E r \in cursors : cursors' = cursors \ {r} /\ \A q \in cursors : r.at <= q.at
  BY DEF CursorExpires
<1>2. cursors' \subseteq cursors
  BY <1>1
<1>3. IsFiniteSet(cursors') /\ \A r \in cursors' : r \in Record /\ r.id[2] \in 0..(log - 1)
  BY <1>2, FewerCursors
<1>4. /\ subs' \in Seq(Sub) /\ Subs' = Subs /\ \A r \in Subs' : SubOK(subs'[r], log) /\ subs'[r].conn <= conn
      /\ SubsKept /\ Len(subs') = Len(subs)
  BY <1>1, SameSubs
<1>5. log' = log /\ instance' = instance /\ UNCHANGED channel /\ faults' \in Nat /\ made' \in Nat
  BY <1>1 DEF TypeOK, DaemonTypeOK, ChannelTypeOK
<1>6. DaemonTypeOK' /\ ChannelTypeOK'
  BY <1>3, <1>4, <1>5, QuietTypes
<1> QED BY <1>1, <1>4, <1>6

LEMMA SnapshotExpiresFacts ==
    ASSUME TypeOK, NEW s \in Subs, SnapshotExpires(s)
    PROVE  /\ DaemonTypeOK' /\ ChannelTypeOK' /\ SubsKept /\ UNCHANGED <<log, made, instance, channel>>
           /\ cursors' = WithoutCursors(cursors, s) /\ Len(subs') = Len(subs) /\ Subs' = Subs
           /\ Live(s) /\ subs[s].phase # "active"
           /\ \A r \in Subs : r # s => subs'[r] = subs[r]
           /\ subs'[s].conn = subs[s].conn /\ subs'[s].snap = subs[s].snap /\ subs'[s].seq = subs[s].seq
           /\ subs'[s].phase = "invalid" /\ subs'[s].acked = subs[s].acked
<1>1. /\ UNCHANGED <<log, made, instance, channel>> /\ faults' = faults + 1 /\ Live(s) /\ subs[s].phase # "active"
      /\ cursors' = WithoutCursors(cursors, s) /\ Becomes(s, Invalidated(subs[s]))
  BY DEF SnapshotExpires, Becomes
<1> DEFINE y == Invalidated(subs[s])
<1>2. subs[s] \in Sub /\ SubOK(subs[s], log) /\ log \in Nat /\ subs[s].seq \in Nat
  BY SubFacts DEF TypeOK, DaemonTypeOK
<1>3. y \in Sub /\ SubOK(y, log) /\ SameSub(y, subs[s]) /\ y.seq = subs[s].seq /\ y.phase = "invalid"
  BY <1>1, <1>2, InvalidatedSub
<1>4. Becomes(s, y)
  BY <1>1
<1> HIDE DEF y
<1>5. /\ subs' \in Seq(Sub) /\ Len(subs') = Len(subs) /\ Subs' = Subs
      /\ \A r \in Subs' : SubOK(subs'[r], log) /\ subs'[r].conn <= conn
      /\ subs'[s] = y /\ \A r \in Subs : r # s => subs'[r] = subs[r]
  <2>1. y.conn \in {subs[s].conn, 0}
    BY <1>3 DEF SameSub
  <2> QED BY <1>3, <1>4, <2>1, OneSub
<1>6. cursors' \subseteq cursors
  BY <1>1 DEF WithoutCursors
<1>7. IsFiniteSet(cursors') /\ \A r \in cursors' : r \in Record /\ r.id[2] \in 0..(log - 1)
  BY <1>6, FewerCursors
<1>8. log' = log /\ instance' = instance /\ UNCHANGED channel /\ faults' \in Nat /\ made' \in Nat
  BY <1>1 DEF TypeOK, DaemonTypeOK, ChannelTypeOK
<1>9. DaemonTypeOK' /\ ChannelTypeOK'
  BY <1>5, <1>7, <1>8, QuietTypes
<1>10. SubsKept
  <2>1. subs'[s].seq >= subs[s].seq
    BY <1>2, <1>3, <1>5
  <2>2. subs'[s].snap = subs[s].snap /\ subs'[s].conn \in {subs[s].conn, 0} /\ (subs[s].phase = "active" => subs'[s].phase = "active")
    BY <1>1, <1>3, <1>5 DEF SameSub
  <2> QED BY <1>5, <2>1, <2>2, OneSubKept
<1> QED BY <1>1, <1>3, <1>5, <1>9, <1>10 DEF SameSub

LEMMA OtherCursorFacts ==
    ASSUME TypeOK, OtherCursor
    PROVE  /\ DaemonTypeOK' /\ ChannelTypeOK' /\ SubsKept /\ UNCHANGED <<log, subs, instance, channel>>
           /\ Subs' = Subs /\ made' = made + 1 /\ log - 1 \in Int
           /\ cursors' = WithCursors(cursors, {NewCursor(0, log - 1, made + 1)})
<1> DEFINE n == NewCursor(0, log - 1, made + 1)
           new == {n}
<1>1. /\ UNCHANGED <<log, subs, instance, channel>> /\ faults' = faults + 1 /\ made' = made + 1
      /\ cursors' = WithCursors(cursors, new)
  BY DEF OtherCursor
<1>2. log \in Nat /\ log >= 1 /\ made \in Nat /\ log - 1 \in Int /\ made + 1 \in Nat /\ 0 \in Nat
  BY DEF TypeOK, DaemonTypeOK
<1>3. n \in Record /\ n.id[2] = log - 1
  <2>1. n \in Record /\ n.id = <<0, log - 1>>
    BY ZenonT(60), <1>2, NewCursorFacts
  <2> QED BY <2>1
<1> HIDE DEF n
<1>4. IsFiniteSet(new) /\ new \subseteq Record /\ \A r \in new : r.id[2] \in 0..(log - 1)
  <2>1. log - 1 \in 0..(log - 1)
    BY <1>2
  <2>2. IsFiniteSet(new)
    BY FS_Singleton
  <2> QED BY <1>3, <2>1, <2>2
<1> HIDE DEF new
<1>5. IsFiniteSet(cursors) /\ cursors \subseteq Record /\ \A r \in cursors : r.id[2] \in 0..(log - 1)
  BY DEF TypeOK, DaemonTypeOK
<1>6. IsFiniteSet(cursors') /\ cursors' \subseteq cursors \cup new
  BY <1>1, <1>4, <1>5, WithCursorsFacts
<1>7. \A r \in cursors' : r \in Record /\ r.id[2] \in 0..(log - 1)
  BY <1>4, <1>5, <1>6
<1>8. /\ subs' \in Seq(Sub) /\ Subs' = Subs /\ \A r \in Subs' : SubOK(subs'[r], log) /\ subs'[r].conn <= conn
      /\ SubsKept /\ Len(subs') = Len(subs)
  BY <1>1, SameSubs
<1>9. log' = log /\ instance' = instance /\ UNCHANGED channel /\ faults' \in Nat /\ made' \in Nat
  BY <1>1, <1>2 DEF TypeOK, DaemonTypeOK, ChannelTypeOK
<1>10. DaemonTypeOK' /\ ChannelTypeOK'
  BY <1>6, <1>7, <1>8, <1>9, QuietTypes
<1> QED BY <1>1, <1>2, <1>8, <1>10 DEF n, new

(***************************************************************************)
(* The runs of establish() and close().                                    *)
(***************************************************************************)
\* Run t of the view moves on to these fields, the others stay.
Moves(t, pc, g, how, c, pending, code) ==
    /\ est' \in [Runs -> Run] /\ \A v \in Runs : v # t => est'[v] = est[v]
    /\ est'[t].pc = pc /\ est'[t].gen = g /\ est'[t].how = how /\ est'[t].cursor = c
    /\ est'[t].pending = pending /\ est'[t].code = code

RunOf(pc, g, how, c, pending, code) ==
    [pc |-> pc, gen |-> g, how |-> how, cursor |-> c, pending |-> pending, code |-> code]

LEMMA RunType ==
    ASSUME NEW pc \in Stages, NEW g \in Nat, NEW how \in {"resume", "snapshot"}, NEW c \in CursorOrNone,
           NEW pending \in Seq(Frame), NEW code \in Codes
    PROVE  RunOf(pc, g, how, c, pending, code) \in Run
BY DEF RunOf, Run

LEMMA RunMoves ==
    ASSUME TypeOK, NEW t \in Runs, NEW pc \in Stages, NEW g \in Nat, NEW how \in {"resume", "snapshot"}, NEW c \in CursorOrNone,
           NEW pending \in Seq(Frame), NEW code \in Codes,
           est' = [est EXCEPT ![t] = RunOf(pc, g, how, c, pending, code)]
    PROVE  Moves(t, pc, g, how, c, pending, code)
<1> DEFINE x == RunOf(pc, g, how, c, pending, code)
<1>1. x \in Run
  BY RunType
<1>2. x.pc = pc /\ x.gen = g /\ x.how = how /\ x.cursor = c /\ x.pending = pending /\ x.code = code
  BY DEF RunOf
<1>3. est \in [Runs -> Run] /\ est' = [est EXCEPT ![t] = x]
  BY DEF TypeOK, ViewTypeOK
<1> HIDE DEF x
<1>4. est' \in [Runs -> Run] /\ est'[t] = x /\ \A v \in Runs : v # t => est'[v] = est[v]
  BY <1>1, <1>3
<1> QED BY <1>2, <1>4 DEF Moves

LEMMA MovesIntro ==
    ASSUME TypeOK, NEW t \in Runs, NEW y \in Run, est' = [est EXCEPT ![t] = y]
    PROVE  Moves(t, y.pc, y.gen, y.how, y.cursor, y.pending, y.code)
<1>1. est \in [Runs -> Run]
  BY DEF TypeOK, ViewTypeOK
<1>2. est'[t] = y /\ est' \in [Runs -> Run] /\ \A v \in Runs : v # t => est'[v] = est[v]
  BY <1>1
<1> QED BY <1>2 DEF Moves

LEMMA RunFacts ==
    ASSUME TypeOK, NEW t \in Runs
    PROVE  /\ est[t] \in Run /\ est[t].pc \in Stages /\ est[t].gen \in Nat /\ est[t].how \in {"resume", "snapshot"}
           /\ est[t].cursor \in CursorOrNone /\ est[t].pending \in Seq(Frame) /\ est[t].code \in Codes
           /\ est[t] = RunOf(est[t].pc, est[t].gen, est[t].how, est[t].cursor, est[t].pending, est[t].code)
<1>1. est[t] \in Run
  BY DEF TypeOK, ViewTypeOK
<1> QED BY <1>1 DEF Run, RunOf

LEMMA AtFacts ==
    ASSUME NEW pc
    PROVE  At(pc) = RunOf(pc, 0, "resume", None, <<>>, "")
BY DEF At, RunOf

LEMMA AtTypes == /\ 0 \in Nat /\ "resume" \in {"resume", "snapshot"} /\ None \in CursorOrNone /\ <<>> \in Seq(Frame) /\ "" \in Codes
BY DEF CursorOrNone, Codes

\* A run starts afresh at pc.
LEMMA MovesAt ==
    ASSUME TypeOK, NEW t \in Runs, NEW pc \in Stages, est' = [est EXCEPT ![t] = At(pc)]
    PROVE  Moves(t, pc, 0, "resume", None, <<>>, "")
<1>1. est' = [est EXCEPT ![t] = RunOf(pc, 0, "resume", None, <<>>, "")]
  BY AtFacts
<1> QED BY <1>1, AtTypes, RunMoves

LEMMA MovesIdle ==
    ASSUME TypeOK, NEW t \in Runs, est' = [est EXCEPT ![t] = Idle]
    PROVE  Moves(t, "idle", 0, "resume", None, <<>>, "")
<1>1. "idle" \in Stages /\ est' = [est EXCEPT ![t] = At("idle")]
  BY DEF Stages, Idle
<1> QED BY <1>1, MovesAt

\* A run moves on to pc.
LEMMA MovesPc ==
    ASSUME TypeOK, NEW t \in Runs, NEW pc \in Stages, est' = [est EXCEPT ![t].pc = pc]
    PROVE  Moves(t, pc, est[t].gen, est[t].how, est[t].cursor, est[t].pending, est[t].code)
<1> DEFINE x == est[t]
           y == RunOf(pc, x.gen, x.how, x.cursor, x.pending, x.code)
<1>1. x \in Run /\ x.gen \in Nat /\ x.how \in {"resume", "snapshot"}
      /\ x.cursor \in CursorOrNone /\ x.pending \in Seq(Frame) /\ x.code \in Codes
  BY RunFacts
<1>2. est' = [est EXCEPT ![t] = [x EXCEPT !.pc = pc]]
  OBVIOUS
<1> HIDE DEF x
<1>3. [x EXCEPT !.pc = pc] = y
  BY <1>1 DEF Run, RunOf
<1>4. est' = [est EXCEPT ![t] = RunOf(pc, x.gen, x.how, x.cursor, x.pending, x.code)]
  BY <1>2, <1>3
<1>5. Moves(t, pc, x.gen, x.how, x.cursor, x.pending, x.code)
  BY ZenonT(60), <1>1, <1>4, RunMoves
<1> QED BY <1>5 DEF x

LEMMA MovesPcCursor ==
    ASSUME TypeOK, NEW t \in Runs, NEW pc \in Stages, NEW c \in CursorOrNone,
           est' = [est EXCEPT ![t].pc = pc, ![t].cursor = c]
    PROVE  Moves(t, pc, est[t].gen, est[t].how, c, est[t].pending, est[t].code)
<1> DEFINE x == est[t]
           y == [x EXCEPT !.pc = pc, !.cursor = c]
<1>1. x \in Run
  BY RunFacts
<1>2. est' = [est EXCEPT ![t] = y]
  BY DEF TypeOK, ViewTypeOK
<1> HIDE DEF x
<1>3. y.pc = pc /\ y.gen = x.gen /\ y.how = x.how /\ y.cursor = c /\ y.pending = x.pending /\ y.code = x.code
  BY <1>1 DEF Run
<1>4. y \in Run
  BY <1>1 DEF Run
<1> HIDE DEF y
<1>5. Moves(t, y.pc, y.gen, y.how, y.cursor, y.pending, y.code)
  BY <1>2, <1>4, MovesIntro
<1> QED BY <1>3, <1>5 DEF x

LEMMA MovesPcTail ==
    ASSUME TypeOK, NEW t \in Runs, NEW pc \in Stages, est[t].pending # <<>>,
           est' = [est EXCEPT ![t].pc = pc, ![t].pending = Tail(@)]
    PROVE  Moves(t, pc, est[t].gen, est[t].how, est[t].cursor, Tail(est[t].pending), est[t].code)
<1> DEFINE x == est[t]
           q == Tail(x.pending)
           y == [x EXCEPT !.pc = pc, !.pending = q]
<1>1. x \in Run /\ x.pending \in Seq(Frame)
  BY RunFacts
<1>2. est' = [est EXCEPT ![t] = y]
  BY DEF TypeOK, ViewTypeOK
<1>6. q \in Seq(Frame)
  BY <1>1
<1> HIDE DEF x, q
<1>3. y.pc = pc /\ y.gen = x.gen /\ y.how = x.how /\ y.cursor = x.cursor /\ y.pending = q /\ y.code = x.code
  BY <1>1 DEF Run
<1>4. y \in Run
  BY <1>1, <1>6 DEF Run
<1> HIDE DEF y
<1>5. Moves(t, y.pc, y.gen, y.how, y.cursor, y.pending, y.code)
  BY <1>2, <1>4, MovesIntro
<1> QED BY <1>3, <1>5 DEF x, q

LEMMA MovesTail ==
    ASSUME TypeOK, NEW t \in Runs, est[t].pending # <<>>, est' = [est EXCEPT ![t].pending = Tail(@)]
    PROVE  Moves(t, est[t].pc, est[t].gen, est[t].how, est[t].cursor, Tail(est[t].pending), est[t].code)
<1> DEFINE x == est[t]
           q == Tail(x.pending)
           y == [x EXCEPT !.pending = q]
<1>1. x \in Run /\ x.pending \in Seq(Frame)
  BY RunFacts
<1>2. est' = [est EXCEPT ![t] = y]
  BY DEF TypeOK, ViewTypeOK
<1>6. q \in Seq(Frame)
  BY <1>1
<1> HIDE DEF x, q
<1>3. y.pc = x.pc /\ y.gen = x.gen /\ y.how = x.how /\ y.cursor = x.cursor /\ y.pending = q /\ y.code = x.code
  BY <1>1 DEF Run
<1>4. y \in Run
  BY <1>1, <1>6 DEF Run
<1> HIDE DEF y
<1>5. Moves(t, y.pc, y.gen, y.how, y.cursor, y.pending, y.code)
  BY <1>2, <1>4, MovesIntro
<1> QED BY <1>3, <1>5 DEF x, q

LEMMA MovesAppend ==
    ASSUME TypeOK, NEW t \in Runs, NEW m \in Frame, est' = [est EXCEPT ![t].pending = Append(@, m)]
    PROVE  Moves(t, est[t].pc, est[t].gen, est[t].how, est[t].cursor, Append(est[t].pending, m), est[t].code)
<1> DEFINE x == est[t]
           q == Append(x.pending, m)
           y == [x EXCEPT !.pending = q]
<1>1. x \in Run /\ x.pending \in Seq(Frame)
  BY RunFacts
<1>2. est' = [est EXCEPT ![t] = y]
  BY DEF TypeOK, ViewTypeOK
<1>6. q \in Seq(Frame)
  BY <1>1
<1> HIDE DEF x, q
<1>3. y.pc = x.pc /\ y.gen = x.gen /\ y.how = x.how /\ y.cursor = x.cursor /\ y.pending = q /\ y.code = x.code
  BY <1>1 DEF Run
<1>4. y \in Run
  BY <1>1, <1>6 DEF Run
<1> HIDE DEF y
<1>5. Moves(t, y.pc, y.gen, y.how, y.cursor, y.pending, y.code)
  BY <1>2, <1>4, MovesIntro
<1> QED BY <1>3, <1>5 DEF x, q

LEMMA MovesCursor ==
    ASSUME TypeOK, NEW t \in Runs, NEW c \in CursorOrNone, est' = [est EXCEPT ![t].cursor = c]
    PROVE  Moves(t, est[t].pc, est[t].gen, est[t].how, c, est[t].pending, est[t].code)
<1> DEFINE x == est[t]
           y == [x EXCEPT !.cursor = c]
<1>1. x \in Run
  BY RunFacts
<1>2. est' = [est EXCEPT ![t] = y]
  BY DEF TypeOK, ViewTypeOK
<1> HIDE DEF x
<1>3. y.pc = x.pc /\ y.gen = x.gen /\ y.how = x.how /\ y.cursor = c /\ y.pending = x.pending /\ y.code = x.code
  BY <1>1 DEF Run
<1>4. y \in Run
  BY <1>1 DEF Run
<1> HIDE DEF y
<1>5. Moves(t, y.pc, y.gen, y.how, y.cursor, y.pending, y.code)
  BY <1>2, <1>4, MovesIntro
<1> QED BY <1>3, <1>5 DEF x

LEMMA DaemonSame ==
    ASSUME TypeOK, UNCHANGED daemon
    PROVE  /\ DaemonTypeOK' /\ Subs' = Subs /\ subs' = subs /\ log' = log /\ cursors' = cursors /\ instance' = instance
           /\ made' = made /\ \A s \in Subs' : subs'[s].conn <= conn
<1>1. subs' = subs /\ log' = log /\ cursors' = cursors /\ instance' = instance /\ made' = made
  BY DEF daemon
<1>2. Subs' = Subs
  BY <1>1 DEF Subs
<1>3. DaemonTypeOK'
  BY <1>1, <1>2 DEF TypeOK, DaemonTypeOK
<1>4. \A s \in Subs : subs[s].conn <= conn
  BY DEF TypeOK, ChannelTypeOK
<1> QED BY <1>1, <1>2, <1>3, <1>4

LEMMA ChannelTaken ==
    ASSUME TypeOK, UNCHANGED daemon, NEW t \in Activities, IsTaken(t), UNCHANGED <<conn, up, events, faults>>
    PROVE  ChannelTypeOK'
<1>1. /\ subs' = subs /\ \A s \in Subs' : subs'[s].conn <= conn
  BY DaemonSame
<1>2. ASSUME NEW v \in Activities PROVE calls'[v].sub \in 0..Len(subs')
  <2>1. calls[v].sub \in 0..Len(subs) /\ 0 \in 0..Len(subs)
    BY SentCall DEF TypeOK, DaemonTypeOK
  <2>2. calls'[v].sub = calls[v].sub \/ calls'[v].sub = 0
    BY NoCallFields DEF IsTaken, Same
  <2> QED BY <1>1, <2>1, <2>2
<1>3. calls' \in [Activities -> Call]
  BY DEF IsTaken
<1>4. events' \in Seq(Seq(Frame)) /\ Len(events') = Len(subs')
  BY <1>1 DEF TypeOK, ChannelTypeOK
<1> QED BY <1>1, <1>2, <1>3, <1>4, ChannelTypeIntro

LEMMA ChannelRequested ==
    ASSUME TypeOK, UNCHANGED daemon, NEW u \in Activities, NEW t \in Activities, NEW kind, NEW s \in 0..Len(subs),
           NEW start, NEW c, Requested(u, t, kind, s, start, c), UNCHANGED <<conn, up, events, faults>>
    PROVE  ChannelTypeOK'
<1>1. /\ subs' = subs /\ \A r \in Subs' : subs'[r].conn <= conn
  BY DaemonSame
<1>2. ASSUME NEW v \in Activities PROVE calls'[v].sub \in 0..Len(subs')
  <2>1. calls[v].sub \in 0..Len(subs) /\ 0 \in 0..Len(subs)
    BY SentCall DEF TypeOK, DaemonTypeOK
  <2>2. calls'[v].sub = calls[v].sub \/ calls'[v].sub = 0 \/ calls'[v].sub = s
    BY NoCallFields DEF Requested, Same
  <2> QED BY <1>1, <2>1, <2>2
<1>3. calls' \in [Activities -> Call]
  BY DEF Requested
<1>4. events' \in Seq(Seq(Frame)) /\ Len(events') = Len(subs')
  BY <1>1 DEF TypeOK, ChannelTypeOK
<1> QED BY <1>1, <1>2, <1>3, <1>4, ChannelTypeIntro

LEMMA ChannelFailed ==
    ASSUME TypeOK, NEW t, IsFailed(t), subs' \in Seq(Sub), Len(subs') = Len(subs), conn' = conn, faults' \in Nat,
           \A r \in Subs' : subs'[r].conn <= conn
    PROVE  ChannelTypeOK' /\ \A s \in Subs : events'[s] = <<>>
<1>2. ASSUME NEW v \in Activities PROVE calls'[v].sub \in 0..Len(subs')
  <2>1. calls[v].sub \in 0..Len(subs) /\ 0 \in 0..Len(subs)
    BY SentCall DEF TypeOK, DaemonTypeOK
  <2>2. calls'[v].sub = calls[v].sub \/ calls'[v].sub = 0
    BY NoCallFields DEF IsFailed
  <2> QED BY <2>1, <2>2
<1>3. calls' \in [Activities -> Call] /\ up' \in BOOLEAN
  BY DEF IsFailed
<1>4. events' \in Seq(Seq(Frame)) /\ Len(events') = Len(subs') /\ \A s \in Subs : events'[s] = <<>>
  <2> DEFINE e == <<>>
  <2>1. e \in Seq(Frame) /\ events' = [s \in 1..Len(subs) |-> e] /\ Len(subs) \in Nat
    BY DEF IsFailed, Subs, TypeOK, DaemonTypeOK
  <2> HIDE DEF e
  <2>2. events' \in Seq(Seq(Frame)) /\ Len(events') = Len(subs) /\ \A s \in 1..Len(subs) : events'[s] = e
    BY <2>1
  <2> QED BY <2>2 DEF Subs, e
<1>5. conn' \in Nat /\ conn' >= 1 /\ \A r \in Subs' : subs'[r].conn <= conn'
  BY DEF TypeOK, ChannelTypeOK
<1> QED BY <1>2, <1>3, <1>4, <1>5 DEF ChannelTypeOK

LEMMA ChannelSame ==
    ASSUME TypeOK, UNCHANGED daemon, UNCHANGED <<conn, up, calls, events, faults>>
    PROVE  ChannelTypeOK'
<1>1. subs' = subs /\ Subs' = Subs
  BY DaemonSame
<1> QED BY <1>1 DEF TypeOK, ChannelTypeOK

\* The parts of the view's type that a step of a run leaves to prove.
LEMMA ViewTypeIntro ==
    ASSUME TypeOK, Len(subs') = Len(subs), NEW t \in Runs, NEW pc, NEW g, NEW how, NEW c, NEW pending, NEW code,
           Moves(t, pc, g, how, c, pending, code), pc \in {"reduced", "acking"} => pending # <<>>,
           proj' \subseteq Nat, gen' \in Nat, bound' \in {"nobody", "main", "recovery"},
           curSub' \in 0..Len(subs), acked' \in CursorOrNone, lineage' \in Nat, hello' \in Nat, seqNo' \in Nat,
           hook' \in BOOLEAN, closed' \in BOOLEAN, reported' \in BOOLEAN, overrun' \in BOOLEAN,
           chain' \in Seq([frame : Frame, gen : Nat]), stage' \in {"next", "reduced", "acking"},
           stage' # "next" => chain' # <<>>
    PROVE  ViewTypeOK'
<1>1. est' \in [Runs -> Run]
  BY DEF Moves
<1>2. ASSUME NEW v \in Runs, est'[v].pc \in {"reduced", "acking"} PROVE est'[v].pending # <<>>
  <2>1. CASE v = t
    BY <1>2, <2>1 DEF Moves
  <2>2. CASE v # t
    BY <1>2, <2>2 DEF Moves, TypeOK, ViewTypeOK
  <2> QED BY <2>1, <2>2
<1> QED BY <1>1, <1>2 DEF ViewTypeOK

LEMMA ViewTypeSameRuns ==
    ASSUME TypeOK, Len(subs') = Len(subs), est' = est,
           proj' \subseteq Nat, gen' \in Nat, bound' \in {"nobody", "main", "recovery"},
           curSub' \in 0..Len(subs), acked' \in CursorOrNone, lineage' \in Nat, hello' \in Nat, seqNo' \in Nat,
           hook' \in BOOLEAN, closed' \in BOOLEAN, reported' \in BOOLEAN, overrun' \in BOOLEAN,
           chain' \in Seq([frame : Frame, gen : Nat]), stage' \in {"next", "reduced", "acking"},
           stage' # "next" => chain' # <<>>
    PROVE  ViewTypeOK'
BY DEF TypeOK, ViewTypeOK

\* The fields of the view, typed.
LEMMA ViewFacts ==
    ASSUME TypeOK
    PROVE  /\ proj \subseteq Nat /\ gen \in Nat /\ bound \in {"nobody", "main", "recovery"}
           /\ curSub \in 0..Len(subs) /\ curSub \in Nat /\ acked \in CursorOrNone /\ lineage \in Nat /\ hello \in Nat
           /\ seqNo \in Nat /\ hook \in BOOLEAN /\ closed \in BOOLEAN
           /\ chain \in Seq([frame : Frame, gen : Nat]) /\ stage \in {"next", "reduced", "acking"}
           /\ (stage # "next" => chain # <<>>) /\ reported \in BOOLEAN /\ overrun \in BOOLEAN
           /\ log \in Nat /\ log >= 1 /\ instance \in Nat /\ calls \in [Activities -> Call] /\ up \in BOOLEAN
           /\ conn \in Nat /\ faults \in Nat /\ Len(subs) \in Nat
BY DEF TypeOK, ViewTypeOK, DaemonTypeOK, ChannelTypeOK

LEMMA ChainFacts ==
    ASSUME TypeOK, chain # <<>>
    PROVE  /\ Head(chain) = chain[1] /\ Len(chain) >= 1 /\ Len(chain) \in Nat /\ First = chain[1].frame /\ First \in Frame
           /\ Head(chain).gen \in Nat /\ First.sub \in Nat /\ First.seq \in Nat /\ First.pos \in Int
           /\ Tail(chain) \in Seq([frame : Frame, gen : Nat])
           /\ Len(Tail(chain)) = Len(chain) - 1 /\ \A i \in 1..(Len(chain) - 1) : Tail(chain)[i] = chain[i + 1]
<1> DEFINE E == [frame : Frame, gen : Nat]
<1>1. chain \in Seq(E)
  BY ViewFacts
<1> HIDE DEF E
<1>2. /\ Head(chain) = chain[1] /\ Len(chain) >= 1 /\ Len(chain) \in Nat /\ Tail(chain) \in Seq(E) /\ chain[1] \in E
      /\ Len(Tail(chain)) = Len(chain) - 1 /\ \A i \in 1..(Len(chain) - 1) : Tail(chain)[i] = chain[i + 1]
  BY <1>1
<1>3. chain[1].frame \in Frame /\ chain[1].gen \in Nat
  BY <1>2 DEF E
<1>4. First = chain[1].frame
  BY <1>2 DEF First
<1>5. First.sub \in Nat /\ First.seq \in Nat /\ First.pos \in Int
  BY <1>3, <1>4 DEF Frame
<1> QED BY <1>2, <1>3, <1>4, <1>5 DEF E

LEMMA HeldFacts ==
    ASSUME TypeOK, NEW t \in Runs, est[t].pending # <<>>
    PROVE  /\ Held(t) = est[t].pending[1] /\ Len(est[t].pending) >= 1 /\ Len(est[t].pending) \in Nat /\ Held(t) \in Frame
           /\ Held(t).sub \in Nat /\ Held(t).seq \in Nat /\ Held(t).pos \in Int
           /\ Tail(est[t].pending) \in Seq(Frame)
           /\ Len(Tail(est[t].pending)) = Len(est[t].pending) - 1
           /\ \A i \in 1..(Len(est[t].pending) - 1) : Tail(est[t].pending)[i] = est[t].pending[i + 1]
<1> DEFINE q == est[t].pending
<1>1. q \in Seq(Frame)
  BY RunFacts
<1>2. Held(t) = Head(q)
  BY DEF Held
<1>0. q # <<>>
  OBVIOUS
<1> HIDE DEF q
<1>3. /\ Head(q) = q[1] /\ Len(q) >= 1 /\ Len(q) \in Nat /\ Tail(q) \in Seq(Frame) /\ q[1] \in Frame
      /\ Len(Tail(q)) = Len(q) - 1 /\ \A i \in 1..(Len(q) - 1) : Tail(q)[i] = q[i + 1]
  BY <1>0, <1>1
<1>4. Held(t).sub \in Nat /\ Held(t).seq \in Nat /\ Held(t).pos \in Int
  BY <1>2, <1>3 DEF Frame
<1> QED BY <1>2, <1>3, <1>4 DEF q

LEMMA StageNames == /\ "idle" \in Stages /\ "joining" \in Stages /\ "unsubscribing" \in Stages /\ "subscribing" \in Stages
                    /\ "paging" \in Stages /\ "bounding" \in Stages /\ "draining" \in Stages /\ "reduced" \in Stages
                    /\ "acking" \in Stages /\ "cleaning" \in Stages /\ "closing" \in Stages
BY DEF Stages
LEMMA KindNames == /\ "subscribe" \in Kinds /\ "history" \in Kinds /\ "ack" \in Kinds /\ "unsubscribe" \in Kinds
BY DEF Kinds
LEMMA RunNames == /\ "main" \in Runs /\ "recovery" \in Runs /\ "close" \in Runs
                  /\ Runs \subseteq Activities /\ "delivery" \in Activities
                  /\ "main" \in Activities /\ "recovery" \in Activities /\ "close" \in Activities
BY DEF Runs, Activities

\* The cursor establish() offers.
Offer(how, p, a) == IF how = "resume" /\ lineage = hello /\ p # {} THEN a ELSE None

EstablishEffect(u, t, g, how, p, a) ==
    /\ gen' = g /\ bound' = t /\ hook' = FALSE /\ seqNo' = 0 /\ reported' = FALSE
    /\ UNCHANGED <<curSub, lineage, closed>>
    /\ proj' = (IF lineage = hello THEN p ELSE {}) /\ acked' = (IF lineage = hello THEN a ELSE None)
    /\ Moves(t, "subscribing", g, how, Offer(how, p, a), <<>>, "")
    /\ Requested(u, t, "subscribe", 0, 0, Offer(how, p, a))

LEMMA EstablishFacts ==
    ASSUME TypeOK, NEW u \in Activities, NEW t \in {"main", "recovery"}, NEW g \in Nat, NEW how \in {"resume", "snapshot"},
           NEW p \in SUBSET Nat, NEW a \in CursorOrNone, Establish(u, t, g, how, p, a)
    PROVE  EstablishEffect(u, t, g, how, p, a) /\ Offer(how, p, a) \in CursorOrNone
<1> DEFINE c == Offer(how, p, a)
           x == [At("subscribing") EXCEPT !.gen = g, !.how = how, !.cursor = c]
<1>1. c \in CursorOrNone
  BY DEF Offer, CursorOrNone
<1>2. /\ est' = [est EXCEPT ![t] = x] /\ Request(u, t, "subscribe", 0, 0, c)
      /\ gen' = g /\ bound' = t /\ hook' = FALSE /\ seqNo' = 0 /\ reported' = FALSE
      /\ UNCHANGED <<curSub, lineage, closed>>
      /\ proj' = (IF lineage = hello THEN p ELSE {}) /\ acked' = (IF lineage = hello THEN a ELSE None)
  BY DEF Establish, Offer
<1> HIDE DEF c
<1>3. x.pc = "subscribing" /\ x.gen = g /\ x.how = how /\ x.cursor = c /\ x.pending = <<>> /\ x.code = ""
  BY DEF At
<1>4. x \in Run
  <2>1. "subscribing" \in Stages /\ "" \in Codes /\ <<>> \in Seq(Frame)
    BY AtTypes, StageNames
  <2> QED BY <1>1, <2>1 DEF At, Run
<1> HIDE DEF x
<1>5. Moves(t, "subscribing", g, how, c, <<>>, "")
  BY <1>2, <1>3, <1>4, MovesIntro, RunNames
<1>6. Requested(u, t, "subscribe", 0, 0, c)
  <2>1. t \in Activities /\ 0 \in Nat /\ calls \in [Activities -> Call] /\ up \in BOOLEAN
    BY RunNames, ViewFacts
  <2> QED BY <1>1, <1>2, <2>1, KindNames, RequestCalls
<1> QED BY <1>1, <1>2, <1>5, <1>6 DEF EstablishEffect, c

LEMMA EstablishTypes ==
    ASSUME TypeOK, NEW u \in Activities, NEW t \in {"main", "recovery"}, NEW g \in Nat, NEW how \in {"resume", "snapshot"},
           NEW p \in SUBSET Nat, NEW a \in CursorOrNone, EstablishEffect(u, t, g, how, p, a),
           UNCHANGED <<daemon, conn, up, events, faults, hello, overrun>>,
           chain' \in Seq([frame : Frame, gen : Nat]), stage' \in {"next", "reduced", "acking"},
           stage' # "next" => chain' # <<>>
    PROVE  TypeOK'
<1>1. DaemonTypeOK' /\ subs' = subs
  BY DaemonSame
<1>2. ChannelTypeOK'
  <2>1. 0 \in 0..Len(subs)
    BY ViewFacts
  <2> DEFINE z == 0
  <2>2. Requested(u, t, "subscribe", z, 0, Offer(how, p, a)) /\ t \in Activities /\ z \in 0..Len(subs)
    BY <2>1, RunNames DEF EstablishEffect
  <2> HIDE DEF z
  <2> QED BY <2>2, ChannelRequested
<1>3. ViewTypeOK'
  <2>1. /\ proj' \subseteq Nat /\ gen' \in Nat /\ bound' \in {"nobody", "main", "recovery"}
        /\ curSub' \in 0..Len(subs) /\ acked' \in CursorOrNone /\ lineage' \in Nat /\ hello' \in Nat /\ seqNo' \in Nat
        /\ hook' \in BOOLEAN /\ closed' \in BOOLEAN /\ reported' \in BOOLEAN /\ overrun' \in BOOLEAN
    BY ViewFacts, AtTypes DEF EstablishEffect
  <2>2. Moves(t, "subscribing", g, how, Offer(how, p, a), <<>>, "") /\ t \in Runs
    BY RunNames DEF EstablishEffect
  <2>3. "subscribing" \notin {"reduced", "acking"} /\ Len(subs') = Len(subs)
    BY <1>1
  <2> QED BY <2>1, <2>2, <2>3, ViewTypeIntro
<1> QED BY <1>1, <1>2, <1>3 DEF TypeOK

ThrowEffect(t) ==
    /\ reported' = TRUE
    /\ Moves(t, "idle", 0, "resume", None, <<>>, "")
    /\ t = "main" => IsFailed(t)
    /\ t # "main" => IsTaken(t) /\ UNCHANGED <<up, events>>

LEMMA ThrowFacts ==
    ASSUME TypeOK, NEW t \in {"main", "recovery"}, Throw(t)
    PROVE  ThrowEffect(t)
<1>1. /\ reported' = TRUE /\ est' = [est EXCEPT ![t] = Idle]
      /\ t = "main" => Fail(t)
      /\ t # "main" => calls' = Taken(t) /\ UNCHANGED <<up, events>>
  BY DEF Throw
<1>2. Moves(t, "idle", 0, "resume", None, <<>>, "")
  BY <1>1, RunNames, MovesIdle
<1>3. t = "main" => IsFailed(t)
  BY <1>1, ViewFacts, FailCalls
<1>4. t # "main" => IsTaken(t)
  BY <1>1, ViewFacts, TakenCalls
<1> QED BY <1>1, <1>2, <1>3, <1>4 DEF ThrowEffect

LEMMA ThrowTypes ==
    ASSUME TypeOK, NEW t \in {"main", "recovery"}, ThrowEffect(t),
           UNCHANGED <<daemon, conn, faults, proj, gen, curSub, acked, lineage, seqNo, hook, closed, chain, stage, hello, overrun>>,
           bound' \in {"nobody", "main", "recovery"}
    PROVE  TypeOK'
<1>1. DaemonTypeOK' /\ subs' = subs /\ \A s \in Subs' : subs'[s].conn <= conn
  BY DaemonSame
<1>2. ChannelTypeOK'
  <2>1. CASE t = "main"
    <3>1. IsFailed(t) /\ subs' \in Seq(Sub) /\ Len(subs') = Len(subs) /\ conn' = conn /\ faults' \in Nat
      BY <1>1, <2>1, ViewFacts DEF ThrowEffect, TypeOK, DaemonTypeOK
    <3> QED BY <1>1, <3>1, ChannelFailed
  <2>2. CASE t # "main"
    <3>1. IsTaken(t) /\ t \in Activities /\ UNCHANGED <<conn, up, events, faults>> /\ UNCHANGED daemon
      BY <2>2, RunNames DEF ThrowEffect
    <3> QED BY <3>1, ChannelTaken
  <2> QED BY <2>1, <2>2
<1>3. ViewTypeOK'
  <2>1. /\ proj' \subseteq Nat /\ gen' \in Nat
        /\ curSub' \in 0..Len(subs) /\ acked' \in CursorOrNone /\ lineage' \in Nat /\ hello' \in Nat /\ seqNo' \in Nat
        /\ hook' \in BOOLEAN /\ closed' \in BOOLEAN /\ reported' \in BOOLEAN /\ overrun' \in BOOLEAN
        /\ chain' \in Seq([frame : Frame, gen : Nat]) /\ stage' \in {"next", "reduced", "acking"}
        /\ (stage' # "next" => chain' # <<>>)
    BY ViewFacts DEF ThrowEffect
  <2>2. Moves(t, "idle", 0, "resume", None, <<>>, "") /\ t \in Runs
    BY RunNames DEF ThrowEffect
  <2>3. "idle" \notin {"reduced", "acking"} /\ Len(subs') = Len(subs)
    BY <1>1
  <2> QED BY <2>1, <2>2, <2>3, ViewTypeIntro
<1> QED BY <1>1, <1>2, <1>3 DEF TypeOK

CleanupEffect(t, code) ==
    /\ bound' = "nobody" /\ curSub' = 0
    /\ Moves(t, "cleaning", 0, est[t].how, None, <<>>, code)
    /\ Requested(t, t, "unsubscribe", curSub, 0, None)
    /\ UNCHANGED <<up, events, reported>>

LEMMA CleanupFacts ==
    ASSUME TypeOK, NEW t \in {"main", "recovery"}, NEW code \in Codes, Cleanup(t, code)
    PROVE  CleanupEffect(t, code)
<1> DEFINE h == est[t].how
           x == [At("cleaning") EXCEPT !.how = h, !.code = code]
<1>1. est' = [est EXCEPT ![t] = x] /\ Request(t, t, "unsubscribe", curSub, 0, None)
      /\ bound' = "nobody" /\ curSub' = 0 /\ UNCHANGED <<up, events, reported>>
  BY DEF Cleanup
<1>2. h \in {"resume", "snapshot"} /\ t \in Runs /\ t \in Activities
  BY RunFacts, RunNames
<1> HIDE DEF h
<1>3. x.pc = "cleaning" /\ x.gen = 0 /\ x.how = h /\ x.cursor = None /\ x.pending = <<>> /\ x.code = code
  BY DEF At
<1>4. x \in Run
  <2>1. "cleaning" \in Stages /\ None \in CursorOrNone /\ <<>> \in Seq(Frame)
    BY AtTypes, StageNames
  <2> QED BY <1>2, <2>1 DEF At, Run
<1> HIDE DEF x
<1>5. Moves(t, "cleaning", 0, h, None, <<>>, code)
  BY <1>1, <1>2, <1>3, <1>4, MovesIntro
<1>6. Requested(t, t, "unsubscribe", curSub, 0, None)
  <2>1. 0 \in Nat /\ calls \in [Activities -> Call] /\ up \in BOOLEAN /\ curSub \in Nat /\ None \in CursorOrNone
    BY AtTypes, ViewFacts
  <2> QED BY <1>1, <1>2, <2>1, KindNames, RequestCalls
<1> QED BY <1>1, <1>5, <1>6 DEF CleanupEffect, h

LEMMA CleanupTypes ==
    ASSUME TypeOK, NEW t \in {"main", "recovery"}, NEW code \in Codes, CleanupEffect(t, code),
           UNCHANGED <<daemon, conn, faults, proj, gen, acked, lineage, seqNo, hook, closed, chain, stage, hello, overrun>>
    PROVE  TypeOK'
<1>1. DaemonTypeOK' /\ subs' = subs
  BY DaemonSame
<1>2. ChannelTypeOK'
  <2>1. Requested(t, t, "unsubscribe", curSub, 0, None) /\ curSub \in 0..Len(subs) /\ t \in Activities
        /\ UNCHANGED <<conn, up, events, faults>> /\ UNCHANGED daemon
    BY ViewFacts, RunNames DEF CleanupEffect
  <2> QED BY <2>1, ChannelRequested
<1>3. ViewTypeOK'
  <2>0. 0 \in 0..Len(subs)
    BY ViewFacts
  <2>1. /\ proj' \subseteq Nat /\ gen' \in Nat /\ bound' \in {"nobody", "main", "recovery"}
        /\ curSub' \in 0..Len(subs) /\ acked' \in CursorOrNone /\ lineage' \in Nat /\ hello' \in Nat /\ seqNo' \in Nat
        /\ hook' \in BOOLEAN /\ closed' \in BOOLEAN /\ reported' \in BOOLEAN /\ overrun' \in BOOLEAN
        /\ chain' \in Seq([frame : Frame, gen : Nat]) /\ stage' \in {"next", "reduced", "acking"}
        /\ (stage' # "next" => chain' # <<>>)
    BY <2>0, ViewFacts DEF CleanupEffect
  <2>2. Moves(t, "cleaning", 0, est[t].how, None, <<>>, code) /\ t \in Runs
    BY RunNames DEF CleanupEffect
  <2>3. "cleaning" \notin {"reduced", "acking"} /\ Len(subs') = Len(subs)
    BY <1>1
  <2> QED BY <2>1, <2>2, <2>3, ViewTypeIntro
<1> QED BY <1>1, <1>2, <1>3 DEF TypeOK

LastCursor(t) == <<calls[t].sub, calls[t].count - 1>>
Keeps(t, pc) == Moves(t, pc, est[t].gen, est[t].how, est[t].cursor, est[t].pending, est[t].code)
Stops(t) == Moves(t, "idle", 0, "resume", None, <<>>, "") /\ IsTaken(t)

LoadEffect(t) ==
    \/ /\ PageLimit(t) = calls[t].count /\ Fresh(est[t].gen)
       /\ Moves(t, "bounding", est[t].gen, est[t].how, LastCursor(t), est[t].pending, est[t].code)
       /\ Requested(t, t, "ack", calls[t].sub, 0, LastCursor(t))
    \/ PageLimit(t) = calls[t].count /\ ~Fresh(est[t].gen) /\ Stops(t)
    \/ /\ PageLimit(t) # calls[t].count /\ Keeps(t, "paging")
       /\ Requested(t, t, "history", calls[t].sub, PageLimit(t), None)

LEMMA CursorsAre ==
    ASSUME NEW s \in Nat, NEW p \in Int
    PROVE  <<s, p>> \in CursorOrNone /\ <<s, p>> \in Cursor /\ <<s, p>> # None
BY SubscriptionBounds DEF SubscriptionBounds, Cursor, CursorOrNone

LEMMA PageLimitType ==
    ASSUME TypeOK, NEW t \in Activities
    PROVE  /\ PageLimit(t) \in Nat /\ PageLimit(t) <= calls[t].count
           /\ calls[t].start < calls[t].count => PageLimit(t) > calls[t].start
BY SentCall, SubscriptionBounds DEF PageLimit, PageEnd, SubscriptionBounds

LEMMA LoadFacts ==
    ASSUME TypeOK, NEW t \in {"main", "recovery"}, LoadPage(t)
    PROVE  LoadEffect(t)
<1>0. /\ t \in Runs /\ t \in Activities /\ calls[t].sub \in Nat /\ calls[t].count \in Nat /\ calls[t].count - 1 \in Int
      /\ calls \in [Activities -> Call] /\ up \in BOOLEAN /\ 0 \in Nat
  BY SMTT(40), RunNames, SentCall, ViewFacts
<1>1. LastCursor(t) \in CursorOrNone
  BY <1>0, CursorsAre DEF LastCursor
<1>2. CASE PageLimit(t) = calls[t].count /\ Fresh(est[t].gen)
  <2>1. /\ est' = [est EXCEPT ![t].pc = "bounding", ![t].cursor = LastCursor(t)]
        /\ Request(t, t, "ack", calls[t].sub, 0, LastCursor(t))
    BY <1>2 DEF LoadPage, Loaded, LastCursor
  <2>2. Moves(t, "bounding", est[t].gen, est[t].how, LastCursor(t), est[t].pending, est[t].code)
    BY <1>0, <1>1, <2>1, StageNames, MovesPcCursor
  <2>3. Requested(t, t, "ack", calls[t].sub, 0, LastCursor(t))
    BY <1>0, <1>1, <2>1, KindNames, RequestCalls
  <2> QED BY <1>2, <2>2, <2>3 DEF LoadEffect
<1>3. CASE PageLimit(t) = calls[t].count /\ ~Fresh(est[t].gen)
  <2>1. est' = [est EXCEPT ![t] = Idle] /\ calls' = Taken(t)
    BY <1>3 DEF LoadPage, Loaded
  <2>2. Stops(t)
    BY <1>0, <2>1, MovesIdle, TakenCalls DEF Stops
  <2> QED BY <1>3, <2>2 DEF LoadEffect
<1>4. CASE PageLimit(t) # calls[t].count
  <2>1. est' = [est EXCEPT ![t].pc = "paging"] /\ Request(t, t, "history", calls[t].sub, PageLimit(t), None)
    BY <1>4 DEF LoadPage, NextPage
  <2>2. Keeps(t, "paging")
    BY <1>0, <2>1, StageNames, MovesPc DEF Keeps
  <2>3. PageLimit(t) \in Nat /\ None \in CursorOrNone
    BY <1>0, PageLimitType, AtTypes
  <2>4. Requested(t, t, "history", calls[t].sub, PageLimit(t), None)
    BY <1>0, <2>1, <2>3, KindNames, RequestCalls
  <2> QED BY <1>4, <2>2, <2>4 DEF LoadEffect
<1> QED BY <1>2, <1>3, <1>4

\* A step of a run that leaves the connection and the chain of deliveries alone.
LEMMA RunStepTypes ==
    ASSUME TypeOK, ChannelTypeOK', NEW t \in Runs, NEW pc, NEW g, NEW how, NEW c, NEW pending, NEW code,
           Moves(t, pc, g, how, c, pending, code), pc \in {"reduced", "acking"} => pending # <<>>,
           UNCHANGED <<daemon, chain, stage, hello>>,
           proj' \subseteq Nat, gen' \in Nat, bound' \in {"nobody", "main", "recovery"},
           curSub' \in 0..Len(subs), acked' \in CursorOrNone, lineage' \in Nat, seqNo' \in Nat,
           hook' \in BOOLEAN, closed' \in BOOLEAN, reported' \in BOOLEAN, overrun' \in BOOLEAN
    PROVE  TypeOK'
<1>1. DaemonTypeOK' /\ subs' = subs
  BY DaemonSame
<1>2. /\ hello' \in Nat /\ chain' \in Seq([frame : Frame, gen : Nat]) /\ stage' \in {"next", "reduced", "acking"}
      /\ (stage' # "next" => chain' # <<>>) /\ Len(subs') = Len(subs)
  BY <1>1, ViewFacts
<1>3. ViewTypeOK'
  BY <1>2, ViewTypeIntro
<1> QED BY <1>1, <1>3 DEF TypeOK

LEMMA LoadTypes ==
    ASSUME TypeOK, NEW t \in {"main", "recovery"}, LoadEffect(t),
           UNCHANGED <<daemon, conn, up, events, faults, gen, bound, acked, seqNo, hook, closed, chain, stage, hello, reported, overrun>>,
           proj' \subseteq Nat, curSub' \in 0..Len(subs), lineage' \in Nat
    PROVE  TypeOK'
<1>0. /\ t \in Runs /\ t \in Activities /\ calls[t].sub \in 0..Len(subs)
      /\ UNCHANGED <<conn, up, events, faults>> /\ UNCHANGED <<daemon, chain, stage, hello>> /\ UNCHANGED daemon
  BY RunNames, SentCall
<1>1. /\ gen' \in Nat /\ bound' \in {"nobody", "main", "recovery"} /\ acked' \in CursorOrNone /\ seqNo' \in Nat
      /\ hook' \in BOOLEAN /\ closed' \in BOOLEAN /\ reported' \in BOOLEAN /\ overrun' \in BOOLEAN
  BY ViewFacts
<1>2. CASE /\ Moves(t, "bounding", est[t].gen, est[t].how, LastCursor(t), est[t].pending, est[t].code)
           /\ Requested(t, t, "ack", calls[t].sub, 0, LastCursor(t))
  <2>1. ChannelTypeOK'
    BY <1>0, <1>2, ChannelRequested
  <2>2. "bounding" \notin {"reduced", "acking"}
    OBVIOUS
  <2> QED BY <1>0, <1>1, <1>2, <2>1, <2>2, RunStepTypes
<1>3. CASE Stops(t)
  <2>1. ChannelTypeOK'
    BY <1>0, <1>3, ChannelTaken DEF Stops
  <2>2. "idle" \notin {"reduced", "acking"}
    OBVIOUS
  <2>3. Moves(t, "idle", 0, "resume", None, <<>>, "")
    BY <1>3 DEF Stops
  <2> QED BY <1>0, <1>1, <2>3, <2>1, <2>2, RunStepTypes
<1>4. CASE Keeps(t, "paging") /\ Requested(t, t, "history", calls[t].sub, PageLimit(t), None)
  <2>1. ChannelTypeOK'
    BY <1>0, <1>4, ChannelRequested
  <2>2. "paging" \notin {"reduced", "acking"}
    OBVIOUS
  <2>3. Moves(t, "paging", est[t].gen, est[t].how, est[t].cursor, est[t].pending, est[t].code)
    BY <1>4 DEF Keeps
  <2> QED BY <1>0, <1>1, <2>3, <2>1, <2>2, RunStepTypes
<1> QED BY <1>2, <1>3, <1>4 DEF LoadEffect

LEMMA PageEventsType ==
    ASSUME TypeOK, NEW t \in Activities
    PROVE  PageEvents(t) \subseteq Nat
BY SentCall, PageLimitType DEF PageEvents

(***************************************************************************)
(* The steps of establish(), one lemma each.                               *)
(***************************************************************************)
LEMMA OnSnapshotFacts ==
    ASSUME TypeOK, NEW t \in {"main", "recovery"}, OnSnapshot(t)
    PROVE  TypeOK' /\ LoadEffect(t) /\ Received(t, "snapshot", "subscribing")
           /\ curSub' = calls[t].sub /\ lineage' = hello /\ proj' = PageEvents(t)
           /\ UNCHANGED <<daemon, conn, up, events, faults, gen, bound, acked, seqNo, hook, closed, chain, stage, hello, history>>
<1>1. /\ LoadPage(t) /\ Received(t, "snapshot", "subscribing")
      /\ curSub' = calls[t].sub /\ lineage' = hello /\ proj' = PageEvents(t)
      /\ UNCHANGED <<daemon, conn, up, events, faults, gen, bound, acked, seqNo, hook, closed, chain, stage, hello, history>>
  BY DEF OnSnapshot
<1>2. LoadEffect(t)
  BY <1>1, LoadFacts
<1>3. proj' \subseteq Nat /\ curSub' \in 0..Len(subs) /\ lineage' \in Nat
  BY <1>1, RunNames, PageEventsType, SentCall, ViewFacts
<1>4. UNCHANGED <<daemon, conn, up, events, faults, gen, bound, acked, seqNo, hook, closed, chain, stage, hello, reported, overrun>>
  BY <1>1 DEF history
<1>5. TypeOK'
  BY <1>2, <1>3, <1>4, LoadTypes
<1> QED BY <1>1, <1>2, <1>5

LEMMA OnPageFacts ==
    ASSUME TypeOK, NEW t \in {"main", "recovery"}, OnPage(t)
    PROVE  /\ TypeOK' /\ Received(t, "page", "paging")
           /\ UNCHANGED <<daemon, conn, up, events, faults, gen, acked, lineage, seqNo, hook, closed, chain, stage, hello, reported, overrun>>
           /\ \/ CleanupEffect(t, "missing_parent") /\ UNCHANGED proj
              \/ LoadEffect(t) /\ proj' = proj \cup PageEvents(t) /\ UNCHANGED <<bound, curSub>>
<1>1. /\ Received(t, "page", "paging")
      /\ UNCHANGED <<daemon, conn, faults, gen, acked, lineage, seqNo, hook, closed, chain, stage, hello, overrun>>
      /\ \/ Cleanup(t, "missing_parent") /\ UNCHANGED proj
         \/ LoadPage(t) /\ proj' = proj \cup PageEvents(t) /\ UNCHANGED <<up, events, bound, curSub, reported>>
  BY DEF OnPage
<1>2. CASE Cleanup(t, "missing_parent") /\ UNCHANGED proj
  <2>1. "missing_parent" \in Codes
    BY DEF Codes
  <2>2. CleanupEffect(t, "missing_parent")
    BY <1>2, <2>1, CleanupFacts
  <2>3. UNCHANGED <<daemon, conn, faults, proj, gen, acked, lineage, seqNo, hook, closed, chain, stage, hello, overrun>>
    BY <1>1, <1>2
  <2>4. TypeOK'
    BY <2>1, <2>2, <2>3, CleanupTypes
  <2>5. UNCHANGED <<up, events, reported>>
    BY <2>2 DEF CleanupEffect
  <2> QED BY <1>1, <1>2, <2>2, <2>4, <2>5
<1>3. CASE LoadPage(t) /\ proj' = proj \cup PageEvents(t) /\ UNCHANGED <<up, events, bound, curSub, reported>>
  <2>1. LoadEffect(t)
    BY <1>3, LoadFacts
  <2>2. proj' \subseteq Nat /\ curSub' \in 0..Len(subs) /\ lineage' \in Nat
    BY <1>1, <1>3, RunNames, PageEventsType, ViewFacts
  <2>3. UNCHANGED <<daemon, conn, up, events, faults, gen, bound, acked, seqNo, hook, closed, chain, stage, hello, reported, overrun>>
    BY <1>1, <1>3
  <2>4. TypeOK'
    BY <2>1, <2>2, <2>3, LoadTypes
  <2> QED BY <1>1, <1>3, <2>1, <2>4
<1> QED BY <1>1, <1>2, <1>3

LEMMA OnResumedFacts ==
    ASSUME TypeOK, NEW t \in {"main", "recovery"}, OnResumed(t)
    PROVE  /\ TypeOK' /\ Received(t, "resumed", "subscribing") /\ curSub' = calls[t].sub /\ lineage' = hello
           /\ UNCHANGED <<daemon, conn, up, events, faults, proj, gen, bound, acked, seqNo, hook,
                          closed, chain, stage, hello, history>>
           /\ IsTaken(t)
           /\ \/ Fresh(est[t].gen) /\ Keeps(t, "draining")
              \/ ~Fresh(est[t].gen) /\ Stops(t)
<1>0. t \in Runs /\ t \in Activities /\ calls[t].sub \in 0..Len(subs)
  BY RunNames, SentCall
<1>1. /\ Received(t, "resumed", "subscribing") /\ curSub' = calls[t].sub /\ lineage' = hello /\ calls' = Taken(t)
      /\ UNCHANGED <<daemon, conn, up, events, faults, proj, gen, bound, acked, seqNo, hook,
                     closed, chain, stage, hello, history>>
      /\ (Fresh(est[t].gen) => est' = [est EXCEPT ![t].pc = "draining"])
      /\ (~Fresh(est[t].gen) => est' = [est EXCEPT ![t] = Idle])
  BY DEF OnResumed
<1>2. IsTaken(t)
  BY <1>0, <1>1, ViewFacts, TakenCalls
<1>3. /\ UNCHANGED <<conn, up, events, faults>> /\ UNCHANGED <<daemon, chain, stage, hello>> /\ UNCHANGED daemon
      /\ proj' \subseteq Nat /\ gen' \in Nat /\ bound' \in {"nobody", "main", "recovery"}
      /\ curSub' \in 0..Len(subs) /\ acked' \in CursorOrNone /\ lineage' \in Nat /\ seqNo' \in Nat
      /\ hook' \in BOOLEAN /\ closed' \in BOOLEAN /\ reported' \in BOOLEAN /\ overrun' \in BOOLEAN
  BY <1>0, <1>1, ViewFacts DEF history
<1>4. ChannelTypeOK'
  BY <1>0, <1>2, <1>3, ChannelTaken
<1>5. CASE Fresh(est[t].gen)
  <2>1. Keeps(t, "draining")
    BY <1>0, <1>1, <1>5, StageNames, MovesPc DEF Keeps
  <2>2. "draining" \notin {"reduced", "acking"}
    OBVIOUS
  <2>3. TypeOK'
    BY <1>0, <1>3, <1>4, <2>1, <2>2, RunStepTypes DEF Keeps
  <2> QED BY <1>1, <1>2, <1>5, <2>1, <2>3
<1>6. CASE ~Fresh(est[t].gen)
  <2>1. Moves(t, "idle", 0, "resume", None, <<>>, "")
    BY <1>0, <1>1, <1>6, MovesIdle
  <2>2. "idle" \notin {"reduced", "acking"}
    OBVIOUS
  <2>3. TypeOK'
    BY <1>0, <1>3, <1>4, <2>1, <2>2, RunStepTypes
  <2> QED BY <1>1, <1>2, <1>6, <2>1, <2>3 DEF Stops
<1> QED BY <1>5, <1>6

LEMMA OnBoundaryFacts ==
    ASSUME TypeOK, NEW t \in {"main", "recovery"}, OnBoundary(t)
    PROVE  /\ TypeOK' /\ Received(t, "acked", "bounding")
           /\ UNCHANGED <<daemon, conn, up, events, faults, proj, gen, bound, curSub, lineage, seqNo,
                          hook, closed, chain, stage, hello, history>>
           /\ IsTaken(t)
           /\ \/ Fresh(est[t].gen) /\ Keeps(t, "draining") /\ acked' = est[t].cursor
              \/ ~Fresh(est[t].gen) /\ Stops(t) /\ acked' = acked
<1>0. t \in Runs /\ t \in Activities
  BY RunNames
<1>1. /\ Received(t, "acked", "bounding") /\ calls' = Taken(t)
      /\ UNCHANGED <<daemon, conn, up, events, faults, proj, gen, bound, curSub, lineage, seqNo,
                     hook, closed, chain, stage, hello, history>>
      /\ (Fresh(est[t].gen) => est' = [est EXCEPT ![t].pc = "draining"] /\ acked' = est[t].cursor)
      /\ (~Fresh(est[t].gen) => est' = [est EXCEPT ![t] = Idle] /\ acked' = acked)
  BY DEF OnBoundary
<1>2. IsTaken(t)
  BY <1>0, <1>1, ViewFacts, TakenCalls
<1>3. /\ UNCHANGED <<conn, up, events, faults>> /\ UNCHANGED <<daemon, chain, stage, hello>> /\ UNCHANGED daemon
      /\ proj' \subseteq Nat /\ gen' \in Nat /\ bound' \in {"nobody", "main", "recovery"}
      /\ curSub' \in 0..Len(subs) /\ acked' \in CursorOrNone /\ lineage' \in Nat /\ seqNo' \in Nat
      /\ hook' \in BOOLEAN /\ closed' \in BOOLEAN /\ reported' \in BOOLEAN /\ overrun' \in BOOLEAN
  <2>1. est[t].cursor \in CursorOrNone /\ acked \in CursorOrNone
    BY <1>0, RunFacts, ViewFacts
  <2>2. acked' \in CursorOrNone
    BY <1>1, <2>1
  <2> QED BY <1>1, <2>2, ViewFacts DEF history
<1>4. ChannelTypeOK'
  BY <1>0, <1>2, <1>3, ChannelTaken
<1>5. CASE Fresh(est[t].gen)
  <2>1. Keeps(t, "draining")
    BY <1>0, <1>1, <1>5, StageNames, MovesPc DEF Keeps
  <2>2. "draining" \notin {"reduced", "acking"}
    OBVIOUS
  <2>3. TypeOK'
    BY <1>0, <1>3, <1>4, <2>1, <2>2, RunStepTypes DEF Keeps
  <2> QED BY <1>1, <1>2, <1>5, <2>1, <2>3
<1>6. CASE ~Fresh(est[t].gen)
  <2>1. Moves(t, "idle", 0, "resume", None, <<>>, "")
    BY <1>0, <1>1, <1>6, MovesIdle
  <2>2. "idle" \notin {"reduced", "acking"}
    OBVIOUS
  <2>3. TypeOK'
    BY <1>0, <1>3, <1>4, <2>1, <2>2, RunStepTypes
  <2> QED BY <1>1, <1>2, <1>6, <2>1, <2>3 DEF Stops
<1> QED BY <1>5, <1>6

LEMMA OnRefusedFacts ==
    ASSUME TypeOK, NEW t \in {"main", "recovery"}, OnRefused(t)
    PROVE  /\ TypeOK' /\ Received(t, "error", "subscribing")
           /\ UNCHANGED <<daemon, conn, faults, gen, curSub, lineage, seqNo, hook, closed, chain, stage, hello, overrun>>
           /\ \/ /\ est[t].cursor # None /\ calls[t].code = "snapshot_required" /\ proj' = {} /\ acked' = None
                 /\ Moves(t, "subscribing", est[t].gen, est[t].how, None, est[t].pending, est[t].code)
                 /\ Requested(t, t, "subscribe", 0, 0, None) /\ UNCHANGED <<up, events, bound, reported>>
              \/ bound' = "nobody" /\ ThrowEffect(t) /\ UNCHANGED <<proj, acked>>
<1>00. 0 \in 0..Len(subs)
  BY ViewFacts
<1>0. t \in Runs /\ t \in Activities /\ None \in CursorOrNone /\ 0 \in Nat /\ 0 \in 0..Len(subs)
  BY <1>00, RunNames, AtTypes
<1>1. /\ Received(t, "error", "subscribing")
      /\ UNCHANGED <<daemon, conn, faults, gen, curSub, lineage, seqNo, hook, closed, chain, stage, hello, overrun>>
      /\ \/ /\ est[t].cursor # None /\ calls[t].code = "snapshot_required" /\ proj' = {} /\ acked' = None
            /\ est' = [est EXCEPT ![t].cursor = None]
            /\ Request(t, t, "subscribe", 0, 0, None) /\ UNCHANGED <<up, events, bound, reported>>
         \/ bound' = "nobody" /\ Throw(t) /\ UNCHANGED <<proj, acked>>
  BY DEF OnRefused
<1>2. CASE bound' = "nobody" /\ Throw(t) /\ UNCHANGED <<proj, acked>>
  <2>1. ThrowEffect(t)
    BY <1>2, ThrowFacts
  <2>2. UNCHANGED <<daemon, conn, faults, proj, gen, curSub, acked, lineage, seqNo, hook, closed, chain, stage, hello, overrun>>
    BY <1>1, <1>2
  <2>3. TypeOK'
    BY <1>2, <2>1, <2>2, ThrowTypes
  <2> QED BY <1>1, <1>2, <2>1, <2>3
<1>3. CASE /\ est[t].cursor # None /\ calls[t].code = "snapshot_required" /\ proj' = {} /\ acked' = None
           /\ est' = [est EXCEPT ![t].cursor = None]
           /\ Request(t, t, "subscribe", 0, 0, None) /\ UNCHANGED <<up, events, bound, reported>>
  <2>1. est[t].pc = "subscribing"
    BY <1>1 DEF Received
  <2>2. Moves(t, "subscribing", est[t].gen, est[t].how, None, est[t].pending, est[t].code)
    BY <1>0, <1>3, <2>1, MovesCursor
  <2>3. Requested(t, t, "subscribe", 0, 0, None)
    BY <1>0, <1>3, ViewFacts, KindNames, RequestCalls
  <2>4. /\ UNCHANGED <<conn, up, events, faults>> /\ UNCHANGED <<daemon, chain, stage, hello>> /\ UNCHANGED daemon
        /\ proj' \subseteq Nat /\ gen' \in Nat /\ bound' \in {"nobody", "main", "recovery"}
        /\ curSub' \in 0..Len(subs) /\ acked' \in CursorOrNone /\ lineage' \in Nat /\ seqNo' \in Nat
        /\ hook' \in BOOLEAN /\ closed' \in BOOLEAN /\ reported' \in BOOLEAN /\ overrun' \in BOOLEAN
    BY <1>0, <1>1, <1>3, ViewFacts
  <2>5. ChannelTypeOK'
    <3> DEFINE z == 0
    <3>1. Requested(t, t, "subscribe", z, 0, None) /\ z \in 0..Len(subs)
      BY <1>0, <2>3
    <3> HIDE DEF z
    <3> QED BY <1>0, <2>4, <3>1, ChannelRequested
  <2>6. "subscribing" \notin {"reduced", "acking"}
    OBVIOUS
  <2>7. TypeOK'
    BY <1>0, <2>2, <2>4, <2>5, <2>6, RunStepTypes
  <2> QED BY <1>1, <1>3, <2>2, <2>3, <2>7
<1> QED BY <1>1, <1>2, <1>3

LEMMA OnLoadErrorFacts ==
    ASSUME TypeOK, NEW t \in {"main", "recovery"}, OnLoadError(t)
    PROVE  /\ TypeOK' /\ \E pc \in {"paging", "bounding", "acking"} : Received(t, "error", pc)
           /\ CleanupEffect(t, calls[t].code)
           /\ UNCHANGED <<daemon, conn, faults, proj, gen, acked, lineage, seqNo, hook, closed, chain, stage, hello, overrun>>
<1>1. /\ \E pc \in {"paging", "bounding", "acking"} : Received(t, "error", pc)
      /\ Cleanup(t, calls[t].code)
      /\ UNCHANGED <<daemon, conn, faults, proj, gen, acked, lineage, seqNo, hook, closed, chain, stage, hello, overrun>>
  BY DEF OnLoadError
<1>2. calls[t].code \in Codes
  BY RunNames, SentCall
<1>3. CleanupEffect(t, calls[t].code)
  BY <1>1, <1>2, CleanupFacts
<1>4. TypeOK'
  BY <1>1, <1>2, <1>3, CleanupTypes
<1> QED BY <1>1, <1>3, <1>4

LEMMA OnCleanedFacts ==
    ASSUME TypeOK, NEW t \in {"main", "recovery"}, OnCleaned(t)
    PROVE  /\ TypeOK' /\ Received(t, "unsubscribed", "cleaning")
           /\ UNCHANGED <<daemon, conn, faults, chain, stage, hello, overrun>>
           /\ \/ /\ est[t].how = "resume" /\ est[t].code \in CursorErrors /\ ~closed
                 /\ EstablishEffect(t, t, gen + 1, "snapshot", {}, None) /\ UNCHANGED <<up, events>>
              \/ ~(est[t].how = "resume" /\ est[t].code \in CursorErrors /\ ~closed) /\ ThrowEffect(t) /\ UNCHANGED view
<1>1. /\ Received(t, "unsubscribed", "cleaning")
      /\ UNCHANGED <<daemon, conn, faults, chain, stage, hello, overrun>>
      /\ \/ /\ est[t].how = "resume" /\ est[t].code \in CursorErrors /\ ~closed
            /\ Establish(t, t, gen + 1, "snapshot", {}, None) /\ UNCHANGED <<up, events>>
         \/ ~(est[t].how = "resume" /\ est[t].code \in CursorErrors /\ ~closed) /\ Throw(t) /\ UNCHANGED view
  BY DEF OnCleaned
<1>2. CASE /\ est[t].how = "resume" /\ est[t].code \in CursorErrors /\ ~closed
           /\ Establish(t, t, gen + 1, "snapshot", {}, None) /\ UNCHANGED <<up, events>>
  <2> DEFINE g == gen + 1
             p == {}
  <2>a. g \in Nat
    BY SMTT(40), ViewFacts
  <2>b. p \in SUBSET Nat /\ Establish(t, t, g, "snapshot", p, None)
    BY <1>2
  <2>1. g \in Nat /\ p \in SUBSET Nat /\ None \in CursorOrNone /\ t \in Activities /\ "snapshot" \in {"resume", "snapshot"}
        /\ Establish(t, t, g, "snapshot", p, None)
    BY <2>a, <2>b, AtTypes, RunNames
  <2> HIDE DEF g, p
  <2>2. EstablishEffect(t, t, g, "snapshot", p, None)
    BY <2>1, EstablishFacts
  <2>3. /\ UNCHANGED <<daemon, conn, up, events, faults, hello, overrun>>
        /\ chain' \in Seq([frame : Frame, gen : Nat]) /\ stage' \in {"next", "reduced", "acking"}
        /\ (stage' # "next" => chain' # <<>>)
    BY <1>1, <1>2, ViewFacts
  <2>4. TypeOK'
    BY <2>1, <2>2, <2>3, EstablishTypes
  <2> QED BY <1>1, <1>2, <2>2, <2>4 DEF g, p
<1>3. CASE ~(est[t].how = "resume" /\ est[t].code \in CursorErrors /\ ~closed) /\ Throw(t) /\ UNCHANGED view
  <2>1. ThrowEffect(t)
    BY <1>3, ThrowFacts
  <2>2. /\ UNCHANGED <<daemon, conn, faults, proj, gen, curSub, acked, lineage, seqNo, hook, closed, chain, stage, hello, overrun>>
        /\ bound' \in {"nobody", "main", "recovery"}
    BY <1>1, <1>3, ViewFacts DEF view
  <2>3. TypeOK'
    BY <2>1, <2>2, ThrowTypes
  <2> QED BY <1>1, <1>3, <2>1, <2>3
<1> QED BY <1>1, <1>2, <1>3

LEMMA OnCleanupFailedFacts ==
    ASSUME TypeOK, NEW t \in {"main", "recovery"}, OnCleanupFailed(t)
    PROVE  /\ TypeOK' /\ Received(t, "error", "cleaning") /\ ThrowEffect(t) /\ UNCHANGED view
           /\ UNCHANGED <<daemon, conn, faults, chain, stage, hello, overrun>>
<1>1. /\ Received(t, "error", "cleaning") /\ Throw(t) /\ UNCHANGED view
      /\ UNCHANGED <<daemon, conn, faults, chain, stage, hello, overrun>>
  BY DEF OnCleanupFailed
<1>2. ThrowEffect(t)
  BY <1>1, ThrowFacts
<1>3. /\ UNCHANGED <<daemon, conn, faults, proj, gen, curSub, acked, lineage, seqNo, hook, closed, chain, stage, hello, overrun>>
      /\ bound' \in {"nobody", "main", "recovery"}
  BY <1>1, ViewFacts DEF view
<1>4. TypeOK'
  BY <1>2, <1>3, ThrowTypes
<1> QED BY <1>1, <1>2, <1>4

(***************************************************************************)
(* Frames: their invariant, and the steps that take them.                  *)
(***************************************************************************)
\* A frame carries the event its sequence number stands for, and was sent by an active
\* subscription.
GoodFrame(m) == /\ m.sub \in Subs /\ m.seq \in 1..subs[m.sub].seq
                /\ m.pos = subs[m.sub].snap + m.seq - 1 /\ subs[m.sub].phase = "active"

\* The frames of a subscription on their way are its last ones, in order.
SubEvents(s, q) == \A i \in 1..Len(q) : GoodFrame(q[i]) /\ q[i].sub = s /\ q[i].seq = subs[s].seq - Len(q) + i
EventsOf(s) == SubEvents(s, events[s]) /\ (events[s] # <<>> => up /\ subs[s].conn \in {0, conn})
EventsOK == \A s \in Subs : EventsOf(s)
HeldOK == \A t \in Runs : \A i \in 1..Len(est[t].pending) : GoodFrame(est[t].pending[i])
ChainOK == \A i \in 1..Len(chain) : GoodFrame(chain[i].frame)
SentUp == \A t \in Activities : calls[t].state = "sent" => up
FramesOK == EventsOK /\ HeldOK /\ ChainOK /\ SentUp

LEMMA GoodFrameFacts ==
    ASSUME TypeOK, NEW m \in Frame, GoodFrame(m)
    PROVE  /\ m.sub \in Nat /\ m.sub \in 0..Len(subs) /\ m.sub \in Subs /\ m.sub # 0 /\ m.seq \in Nat /\ m.seq >= 1
           /\ m.pos \in Nat /\ m.pos >= 1 /\ m.pos < log
<1>1. /\ m.sub \in Subs /\ m.seq \in 1..subs[m.sub].seq
      /\ m.pos = subs[m.sub].snap + m.seq - 1
  BY DEF GoodFrame
<1>2. /\ subs[m.sub].snap \in Nat /\ subs[m.sub].seq \in Nat /\ subs[m.sub].buffered \in Nat /\ log \in Nat
      /\ subs[m.sub].snap >= 1 /\ subs[m.sub].snap + subs[m.sub].seq + subs[m.sub].buffered <= log
  <2>1. SubOK(subs[m.sub], log) /\ subs[m.sub].snap \in Nat /\ subs[m.sub].seq \in Nat /\ subs[m.sub].buffered \in Nat
    BY <1>1, SubFacts
  <2> QED BY <2>1, ViewFacts DEF SubOK
<1>3. m.pos \in Nat /\ m.pos >= 1 /\ m.pos < log /\ m.seq \in Nat /\ m.seq >= 1
  BY <1>1, <1>2
<1>4. m.sub \in Nat /\ m.sub \in 0..Len(subs) /\ m.sub # 0
  BY <1>1 DEF Subs, TypeOK, DaemonTypeOK
<1> QED BY <1>1, <1>3, <1>4

LEMMA GoodHeld ==
    ASSUME TypeOK, FramesOK, NEW t \in Runs, est[t].pending # <<>>
    PROVE  GoodFrame(Held(t)) /\ Held(t) \in Frame
<1>1. Held(t) = est[t].pending[1] /\ 1 \in 1..Len(est[t].pending) /\ Held(t) \in Frame
  BY HeldFacts
<1> QED BY <1>1 DEF FramesOK, HeldOK

LEMMA GoodFirst ==
    ASSUME TypeOK, FramesOK, chain # <<>>
    PROVE  GoodFrame(First) /\ First \in Frame
<1>1. First = chain[1].frame /\ 1 \in 1..Len(chain) /\ First \in Frame
  BY ChainFacts
<1> QED BY <1>1 DEF FramesOK, ChainOK

LEMMA RejectedCodes ==
    ASSUME NEW m
    PROVE  Rejected(m) \in Codes /\ Rejected(m) \in {"", "event_sequence_gap", "missing_parent"}
BY DEF Rejected, Codes

\* An event in the log: reducing a frame keeps the projection a set of positions.
LEMMA ReducedType ==
    ASSUME TypeOK, NEW p \in Nat
    PROVE  proj \cup {p} \subseteq Nat
BY ViewFacts

LEMMA DrainSkipFacts ==
    ASSUME TypeOK, NEW t \in {"main", "recovery"}, DrainSkip(t)
    PROVE  /\ TypeOK' /\ Drains(t) /\ est[t].pending # <<>> /\ Stale(Held(t), est[t].gen)
           /\ Moves(t, "draining", est[t].gen, est[t].how, est[t].cursor, Tail(est[t].pending), est[t].code)
           /\ UNCHANGED <<daemon, channel, faults, view, chain, stage, hello, history>>
<1>0. t \in Runs
  BY RunNames
<1>1. /\ Drains(t) /\ est[t].pending # <<>> /\ Stale(Held(t), est[t].gen)
      /\ est' = [est EXCEPT ![t].pending = Tail(@)]
      /\ UNCHANGED <<daemon, channel, faults, view, chain, stage, hello, history>>
  BY DEF DrainSkip
<1>2. Moves(t, "draining", est[t].gen, est[t].how, est[t].cursor, Tail(est[t].pending), est[t].code)
  BY <1>0, <1>1, MovesTail DEF Drains
<1>3. ChannelTypeOK'
  BY <1>1, ChannelSame DEF channel
<1>4. /\ UNCHANGED <<daemon, chain, stage, hello>>
      /\ proj' \subseteq Nat /\ gen' \in Nat /\ bound' \in {"nobody", "main", "recovery"}
      /\ curSub' \in 0..Len(subs) /\ acked' \in CursorOrNone /\ lineage' \in Nat /\ seqNo' \in Nat
      /\ hook' \in BOOLEAN /\ closed' \in BOOLEAN /\ reported' \in BOOLEAN /\ overrun' \in BOOLEAN
  BY <1>1, ViewFacts DEF view, history
<1>5. "draining" \notin {"reduced", "acking"}
  OBVIOUS
<1>6. TypeOK'
  BY <1>0, <1>2, <1>3, <1>4, <1>5, RunStepTypes
<1> QED BY <1>1, <1>2, <1>6

LEMMA EstablishedFacts ==
    ASSUME TypeOK, NEW t \in {"main", "recovery"}, Established(t)
    PROVE  /\ TypeOK' /\ Drains(t) /\ est[t].pending = <<>> /\ hook' = (hook \/ Fresh(est[t].gen))
           /\ Moves(t, "idle", 0, "resume", None, <<>>, "")
           /\ UNCHANGED <<daemon, channel, faults, proj, gen, bound, curSub, acked, lineage, seqNo, closed,
                          chain, stage, hello, history>>
<1>0. t \in Runs
  BY RunNames
<1>1. /\ Drains(t) /\ est[t].pending = <<>> /\ hook' = (hook \/ Fresh(est[t].gen))
      /\ est' = [est EXCEPT ![t] = Idle]
      /\ UNCHANGED <<daemon, channel, faults, proj, gen, bound, curSub, acked, lineage, seqNo, closed,
                     chain, stage, hello, history>>
  BY DEF Established
<1>2. Moves(t, "idle", 0, "resume", None, <<>>, "")
  BY <1>0, <1>1, MovesIdle
<1>3. ChannelTypeOK'
  BY <1>1, ChannelSame DEF channel
<1>4. /\ UNCHANGED <<daemon, chain, stage, hello>>
      /\ proj' \subseteq Nat /\ gen' \in Nat /\ bound' \in {"nobody", "main", "recovery"}
      /\ curSub' \in 0..Len(subs) /\ acked' \in CursorOrNone /\ lineage' \in Nat /\ seqNo' \in Nat
      /\ hook' \in BOOLEAN /\ closed' \in BOOLEAN /\ reported' \in BOOLEAN /\ overrun' \in BOOLEAN
  <2>1. hook' \in BOOLEAN
    BY <1>1, ViewFacts, Zenon
  <2> QED BY <1>1, <2>1, ViewFacts DEF history
<1>5. "idle" \notin {"reduced", "acking"}
  OBVIOUS
<1>6. TypeOK'
  BY <1>0, <1>2, <1>3, <1>4, <1>5, RunStepTypes
<1> QED BY <1>1, <1>2, <1>6

HeldCursor(t) == <<Held(t).sub, Held(t).pos>>

LEMMA DrainAckFacts ==
    ASSUME TypeOK, FramesOK, NEW t \in {"main", "recovery"}, DrainAck(t)
    PROVE  /\ TypeOK' /\ est[t].pc = "reduced" /\ est[t].pending # <<>> /\ seqNo' = Held(t).seq
           /\ overrun' = (overrun \/ est[t].gen # gen)
           /\ UNCHANGED <<daemon, conn, up, events, faults, proj, gen, bound, curSub, acked, lineage, hook,
                          closed, chain, stage, hello, reported>>
           /\ \/ Fresh(est[t].gen) /\ Keeps(t, "acking") /\ Requested(t, t, "ack", Held(t).sub, 0, HeldCursor(t))
              \/ /\ ~Fresh(est[t].gen) /\ UNCHANGED calls
                 /\ Moves(t, "draining", est[t].gen, est[t].how, est[t].cursor, Tail(est[t].pending), est[t].code)
<1>0. t \in Runs /\ t \in Activities
  BY RunNames
<1>1. /\ est[t].pc = "reduced" /\ seqNo' = Held(t).seq
      /\ overrun' = (overrun \/ est[t].gen # gen)
      /\ UNCHANGED <<daemon, conn, up, events, faults, proj, gen, bound, curSub, acked, lineage, hook,
                     closed, chain, stage, hello, reported>>
      /\ \/ /\ Fresh(est[t].gen) /\ est' = [est EXCEPT ![t].pc = "acking"]
            /\ Request(t, t, "ack", Held(t).sub, 0, HeldCursor(t))
         \/ ~Fresh(est[t].gen) /\ est' = [est EXCEPT ![t].pc = "draining", ![t].pending = Tail(@)] /\ UNCHANGED calls
  BY DEF DrainAck, HeldCursor
<1>2. est[t].pending # <<>>
  BY <1>0, <1>1 DEF TypeOK, ViewTypeOK
<1>3. Held(t).sub \in Nat /\ Held(t).seq \in Nat /\ Held(t).pos \in Int
  BY <1>0, <1>2, HeldFacts
<1>4. HeldCursor(t) \in CursorOrNone
  BY <1>3, CursorsAre DEF HeldCursor
<1>5. /\ UNCHANGED <<conn, up, events, faults>> /\ UNCHANGED <<daemon, chain, stage, hello>> /\ UNCHANGED daemon
      /\ proj' \subseteq Nat /\ gen' \in Nat /\ bound' \in {"nobody", "main", "recovery"}
      /\ curSub' \in 0..Len(subs) /\ acked' \in CursorOrNone /\ lineage' \in Nat /\ seqNo' \in Nat
      /\ hook' \in BOOLEAN /\ closed' \in BOOLEAN /\ reported' \in BOOLEAN /\ overrun' \in BOOLEAN
  <2>1. overrun' \in BOOLEAN
    BY <1>1, ViewFacts, Zenon
  <2> QED BY <1>1, <1>3, <2>1, ViewFacts
<1>6. CASE /\ Fresh(est[t].gen) /\ est' = [est EXCEPT ![t].pc = "acking"]
           /\ Request(t, t, "ack", Held(t).sub, 0, HeldCursor(t))
  <2>1. Keeps(t, "acking")
    BY <1>0, <1>6, StageNames, MovesPc DEF Keeps
  <2>2. 0 \in Nat /\ calls \in [Activities -> Call] /\ up \in BOOLEAN
    BY ViewFacts
  <2>3. Requested(t, t, "ack", Held(t).sub, 0, HeldCursor(t))
    BY <1>0, <1>3, <1>4, <1>6, <2>2, KindNames, RequestCalls
  <2>4. ChannelTypeOK'
    <3>1. Held(t).sub \in 0..Len(subs)
      BY <1>0, <1>2, GoodHeld, GoodFrameFacts
    <3> QED BY <1>0, <1>5, <2>3, <3>1, ChannelRequested
  <2>5. TypeOK'
    BY <1>0, <1>2, <1>5, <2>1, <2>4, RunStepTypes DEF Keeps
  <2> QED BY <1>1, <1>2, <1>6, <2>1, <2>3, <2>5
<1>7. CASE ~Fresh(est[t].gen) /\ est' = [est EXCEPT ![t].pc = "draining", ![t].pending = Tail(@)] /\ UNCHANGED calls
  <2>1. Moves(t, "draining", est[t].gen, est[t].how, est[t].cursor, Tail(est[t].pending), est[t].code)
    BY <1>0, <1>2, <1>7, StageNames, MovesPcTail
  <2>2. ChannelTypeOK'
    BY <1>5, <1>7, ChannelSame
  <2>3. "draining" \notin {"reduced", "acking"}
    OBVIOUS
  <2>4. TypeOK'
    BY <1>0, <1>5, <2>1, <2>2, <2>3, RunStepTypes
  <2> QED BY <1>1, <1>2, <1>7, <2>1, <2>4
<1> QED BY <1>1, <1>6, <1>7

LEMMA DrainReduceFacts ==
    ASSUME TypeOK, FramesOK, NEW t \in {"main", "recovery"}, DrainReduce(t)
    PROVE  /\ TypeOK' /\ Drains(t) /\ est[t].pending # <<>> /\ ~Stale(Held(t), est[t].gen)
           /\ UNCHANGED <<daemon, conn, up, events, faults, gen, acked, lineage, seqNo, hook, closed, chain, stage, hello, reported, overrun>>
           /\ \/ /\ Rejected(Held(t)) = "" /\ proj' = proj \cup {Held(t).pos} /\ Keeps(t, "reduced")
                 /\ UNCHANGED <<calls, bound, curSub>>
              \/ Rejected(Held(t)) # "" /\ CleanupEffect(t, Rejected(Held(t))) /\ UNCHANGED proj
<1>0. t \in Runs /\ t \in Activities
  BY RunNames
<1>1. /\ Drains(t) /\ est[t].pending # <<>> /\ ~Stale(Held(t), est[t].gen)
      /\ UNCHANGED <<daemon, conn, faults, gen, acked, lineage, seqNo, hook, closed, chain, stage, hello, overrun>>
      /\ \/ /\ Rejected(Held(t)) = "" /\ proj' = proj \cup {Held(t).pos} /\ est' = [est EXCEPT ![t].pc = "reduced"]
            /\ UNCHANGED <<up, calls, events, bound, curSub, reported>>
         \/ Rejected(Held(t)) # "" /\ Cleanup(t, Rejected(Held(t))) /\ UNCHANGED proj
  BY DEF DrainReduce
<1>2. CASE /\ Rejected(Held(t)) = "" /\ proj' = proj \cup {Held(t).pos} /\ est' = [est EXCEPT ![t].pc = "reduced"]
           /\ UNCHANGED <<up, calls, events, bound, curSub, reported>>
  <2>1. Keeps(t, "reduced")
    BY <1>0, <1>2, StageNames, MovesPc DEF Keeps
  <2>2. Held(t).pos \in Nat
    BY <1>0, <1>1, GoodHeld, GoodFrameFacts
  <2>3. proj' \subseteq Nat
    BY <1>2, <2>2, ReducedType
  <2>4. /\ UNCHANGED <<conn, up, calls, events, faults>> /\ UNCHANGED <<daemon, chain, stage, hello>> /\ UNCHANGED daemon
        /\ gen' \in Nat /\ bound' \in {"nobody", "main", "recovery"}
        /\ curSub' \in 0..Len(subs) /\ acked' \in CursorOrNone /\ lineage' \in Nat /\ seqNo' \in Nat
        /\ hook' \in BOOLEAN /\ closed' \in BOOLEAN /\ reported' \in BOOLEAN /\ overrun' \in BOOLEAN
    BY <1>1, <1>2, ViewFacts
  <2>5. ChannelTypeOK'
    BY <2>4, ChannelSame
  <2>7. est[t].pending # <<>> /\ Moves(t, "reduced", est[t].gen, est[t].how, est[t].cursor, est[t].pending, est[t].code)
    BY <1>1, <2>1 DEF Keeps
  <2>6. TypeOK'
    BY <1>0, <2>3, <2>4, <2>5, <2>7, RunStepTypes
  <2> QED BY <1>1, <1>2, <2>1, <2>6
<1>3. CASE Rejected(Held(t)) # "" /\ Cleanup(t, Rejected(Held(t))) /\ UNCHANGED proj
  <2>1. Rejected(Held(t)) \in Codes
    BY RejectedCodes
  <2>2. CleanupEffect(t, Rejected(Held(t)))
    BY <1>3, <2>1, CleanupFacts
  <2>3. UNCHANGED <<daemon, conn, faults, proj, gen, acked, lineage, seqNo, hook, closed, chain, stage, hello, overrun>>
    BY <1>1, <1>3
  <2>4. TypeOK'
    BY <2>1, <2>2, <2>3, CleanupTypes
  <2>5. UNCHANGED <<up, events, reported>>
    BY <2>2 DEF CleanupEffect
  <2> QED BY <1>1, <1>3, <2>2, <2>4, <2>5
<1> QED BY <1>1, <1>2, <1>3

LEMMA OnDrainAckedFacts ==
    ASSUME TypeOK, NEW t \in {"main", "recovery"}, OnDrainAcked(t)
    PROVE  /\ TypeOK' /\ Received(t, "acked", "acking") /\ est[t].pending # <<>>
           /\ acked' = (IF Fresh(est[t].gen) THEN HeldCursor(t) ELSE acked)
           /\ Moves(t, "draining", est[t].gen, est[t].how, est[t].cursor, Tail(est[t].pending), est[t].code)
           /\ IsTaken(t)
           /\ UNCHANGED <<daemon, conn, up, events, faults, proj, gen, bound, curSub, lineage, seqNo,
                          hook, closed, chain, stage, hello, history>>
<1>0. t \in Runs /\ t \in Activities
  BY RunNames
<1>1. /\ Received(t, "acked", "acking")
      /\ acked' = (IF Fresh(est[t].gen) THEN HeldCursor(t) ELSE acked)
      /\ est' = [est EXCEPT ![t].pc = "draining", ![t].pending = Tail(@)] /\ calls' = Taken(t)
      /\ UNCHANGED <<daemon, conn, up, events, faults, proj, gen, bound, curSub, lineage, seqNo,
                     hook, closed, chain, stage, hello, history>>
  BY DEF OnDrainAcked, HeldCursor
<1>2. est[t].pc = "acking" /\ est[t].pending # <<>>
  BY <1>0, <1>1 DEF Received, TypeOK, ViewTypeOK
<1>3. IsTaken(t)
  BY <1>0, <1>1, ViewFacts, TakenCalls
<1>4. Moves(t, "draining", est[t].gen, est[t].how, est[t].cursor, Tail(est[t].pending), est[t].code)
  BY <1>0, <1>1, <1>2, StageNames, MovesPcTail
<1>5. HeldCursor(t) \in CursorOrNone
  BY <1>0, <1>2, HeldFacts, CursorsAre DEF HeldCursor
<1>6. acked' \in CursorOrNone
  BY <1>1, <1>5, ViewFacts
<1>7. /\ UNCHANGED <<conn, up, events, faults>> /\ UNCHANGED <<daemon, chain, stage, hello>> /\ UNCHANGED daemon
      /\ proj' \subseteq Nat /\ gen' \in Nat /\ bound' \in {"nobody", "main", "recovery"}
      /\ curSub' \in 0..Len(subs) /\ lineage' \in Nat /\ seqNo' \in Nat
      /\ hook' \in BOOLEAN /\ closed' \in BOOLEAN /\ reported' \in BOOLEAN /\ overrun' \in BOOLEAN
  BY <1>1, ViewFacts DEF history
<1>8. ChannelTypeOK'
  BY <1>0, <1>3, <1>7, ChannelTaken
<1>9. "draining" \notin {"reduced", "acking"}
  OBVIOUS
<1>10. TypeOK'
  BY <1>0, <1>4, <1>6, <1>7, <1>8, <1>9, RunStepTypes
<1> QED BY <1>1, <1>2, <1>3, <1>4, <1>10

ChainType == chain' \in Seq([frame : Frame, gen : Nat]) /\ stage' \in {"next", "reduced", "acking"}
             /\ (stage' # "next" => chain' # <<>>)

LEMMA TailChain ==
    ASSUME TypeOK, chain # <<>>, chain' = Tail(chain), stage' = "next"
    PROVE  ChainType
BY ChainFacts DEF ChainType

LEMMA SameChain ==
    ASSUME TypeOK, chain' = chain, stage' \in {"next", "reduced", "acking"}, chain # <<>> \/ stage' = stage
    PROVE  ChainType
BY ViewFacts DEF ChainType

\* A step of the deliveries that leaves the runs alone.
LEMMA DeliveryStepTypes ==
    ASSUME TypeOK, ChannelTypeOK', UNCHANGED <<daemon, hello, est>>, ChainType,
           proj' \subseteq Nat, gen' \in Nat, bound' \in {"nobody", "main", "recovery"},
           curSub' \in 0..Len(subs), acked' \in CursorOrNone, lineage' \in Nat, seqNo' \in Nat,
           hook' \in BOOLEAN, closed' \in BOOLEAN, reported' \in BOOLEAN, overrun' \in BOOLEAN
    PROVE  TypeOK'
<1>1. DaemonTypeOK' /\ subs' = subs
  BY DaemonSame
<1>2. hello' \in Nat /\ Len(subs') = Len(subs) /\ est' = est
  BY <1>1, ViewFacts
<1>3. ViewTypeOK'
  BY <1>2, ViewTypeSameRuns DEF ChainType
<1> QED BY <1>1, <1>3 DEF TypeOK

LEMMA DeliverSkipFacts ==
    ASSUME TypeOK, DeliverSkip
    PROVE  /\ TypeOK' /\ chain # <<>> /\ stage = "next" /\ Stale(First, Head(chain).gen) /\ chain' = Tail(chain)
           /\ UNCHANGED <<daemon, channel, faults, view, est, stage, hello, history>>
<1>1. /\ chain # <<>> /\ stage = "next" /\ Stale(First, Head(chain).gen) /\ chain' = Tail(chain)
      /\ UNCHANGED <<daemon, channel, faults, view, est, stage, hello, history>>
  BY DEF DeliverSkip, Apply
<1>2. ChainType
  BY <1>1, TailChain
<1>3. ChannelTypeOK'
  BY <1>1, ChannelSame DEF channel
<1>4. /\ UNCHANGED <<daemon, hello, est>>
      /\ proj' \subseteq Nat /\ gen' \in Nat /\ bound' \in {"nobody", "main", "recovery"}
      /\ curSub' \in 0..Len(subs) /\ acked' \in CursorOrNone /\ lineage' \in Nat /\ seqNo' \in Nat
      /\ hook' \in BOOLEAN /\ closed' \in BOOLEAN /\ reported' \in BOOLEAN /\ overrun' \in BOOLEAN
  BY <1>1, ViewFacts DEF view, history
<1>5. TypeOK'
  BY <1>2, <1>3, <1>4, DeliveryStepTypes
<1> QED BY <1>1, <1>5

LEMMA DeliverReduceFacts ==
    ASSUME TypeOK, FramesOK, DeliverReduce
    PROVE  /\ TypeOK' /\ chain # <<>> /\ stage = "next" /\ ~Stale(First, Head(chain).gen) /\ Rejected(First) = ""
           /\ proj' = proj \cup {First.pos} /\ stage' = "reduced"
           /\ UNCHANGED <<daemon, channel, faults, gen, bound, curSub, acked, lineage, seqNo, hook, closed,
                          est, chain, hello, history>>
<1>1. /\ chain # <<>> /\ stage = "next" /\ ~Stale(First, Head(chain).gen) /\ Rejected(First) = ""
      /\ proj' = proj \cup {First.pos} /\ stage' = "reduced"
      /\ UNCHANGED <<daemon, channel, faults, gen, bound, curSub, acked, lineage, seqNo, hook, closed,
                     est, chain, hello, history>>
  BY DEF DeliverReduce, Apply
<1>2. ChainType
  BY <1>1, SameChain
<1>3. ChannelTypeOK'
  BY <1>1, ChannelSame DEF channel
<1>6. First.pos \in Nat
  BY <1>1, GoodFirst, GoodFrameFacts
<1>7. proj' \subseteq Nat
  BY <1>1, <1>6, ReducedType
<1>4. /\ UNCHANGED <<daemon, hello, est>>
      /\ gen' \in Nat /\ bound' \in {"nobody", "main", "recovery"}
      /\ curSub' \in 0..Len(subs) /\ acked' \in CursorOrNone /\ lineage' \in Nat /\ seqNo' \in Nat
      /\ hook' \in BOOLEAN /\ closed' \in BOOLEAN /\ reported' \in BOOLEAN /\ overrun' \in BOOLEAN
  BY <1>1, ViewFacts DEF history
<1>5. TypeOK'
  BY <1>2, <1>3, <1>4, <1>7, DeliveryStepTypes
<1> QED BY <1>1, <1>5

FirstCursor == <<First.sub, First.pos>>

LEMMA DeliverAckFacts ==
    ASSUME TypeOK, FramesOK, DeliverAck
    PROVE  /\ TypeOK' /\ chain # <<>> /\ stage = "reduced" /\ seqNo' = First.seq
           /\ overrun' = (overrun \/ Head(chain).gen # gen)
           /\ UNCHANGED <<daemon, conn, up, events, faults, proj, gen, bound, curSub, acked, lineage, hook,
                          closed, est, hello, reported>>
           /\ \/ /\ FirstFresh /\ stage' = "acking" /\ Requested("delivery", "delivery", "ack", First.sub, 0, FirstCursor)
                 /\ UNCHANGED chain
              \/ ~FirstFresh /\ stage' = "next" /\ chain' = Tail(chain) /\ UNCHANGED calls
<1>1. /\ chain # <<>> /\ stage = "reduced" /\ seqNo' = First.seq
      /\ overrun' = (overrun \/ Head(chain).gen # gen)
      /\ UNCHANGED <<daemon, conn, up, events, faults, proj, gen, bound, curSub, acked, lineage, hook,
                     closed, est, hello, reported>>
      /\ \/ /\ FirstFresh /\ stage' = "acking" /\ Request("delivery", "delivery", "ack", First.sub, 0, FirstCursor)
            /\ UNCHANGED chain
         \/ ~FirstFresh /\ stage' = "next" /\ chain' = Tail(chain) /\ UNCHANGED calls
  BY DEF DeliverAck, Apply, FirstCursor
<1>2. First.sub \in Nat /\ First.seq \in Nat /\ First.pos \in Int /\ First.sub \in 0..Len(subs)
  BY <1>1, ChainFacts, GoodFirst, GoodFrameFacts
<1>3. FirstCursor \in CursorOrNone
  BY <1>2, CursorsAre DEF FirstCursor
<1>4. /\ UNCHANGED <<conn, up, events, faults>> /\ UNCHANGED <<daemon, hello, est>> /\ UNCHANGED daemon
      /\ proj' \subseteq Nat /\ gen' \in Nat /\ bound' \in {"nobody", "main", "recovery"}
      /\ curSub' \in 0..Len(subs) /\ acked' \in CursorOrNone /\ lineage' \in Nat /\ seqNo' \in Nat
      /\ hook' \in BOOLEAN /\ closed' \in BOOLEAN /\ reported' \in BOOLEAN /\ overrun' \in BOOLEAN
  <2>1. overrun' \in BOOLEAN
    BY <1>1, ViewFacts, Zenon
  <2> QED BY <1>1, <1>2, <2>1, ViewFacts
<1>5. CASE /\ FirstFresh /\ stage' = "acking" /\ Request("delivery", "delivery", "ack", First.sub, 0, FirstCursor)
           /\ UNCHANGED chain
  <2>1. 0 \in Nat /\ calls \in [Activities -> Call] /\ up \in BOOLEAN /\ "delivery" \in Activities
    BY ViewFacts, RunNames
  <2>2. Requested("delivery", "delivery", "ack", First.sub, 0, FirstCursor)
    BY <1>2, <1>3, <1>5, <2>1, KindNames, RequestCalls
  <2>3. ChannelTypeOK'
    BY <1>2, <1>4, <2>1, <2>2, ChannelRequested
  <2>4. ChainType
    BY <1>1, <1>5, SameChain
  <2>5. TypeOK'
    BY <1>4, <2>3, <2>4, DeliveryStepTypes
  <2> QED BY <1>1, <1>5, <2>2, <2>5
<1>6. CASE ~FirstFresh /\ stage' = "next" /\ chain' = Tail(chain) /\ UNCHANGED calls
  <2>3. ChannelTypeOK'
    BY <1>4, <1>6, ChannelSame
  <2>4. ChainType
    BY <1>1, <1>6, TailChain
  <2>5. TypeOK'
    BY <1>4, <2>3, <2>4, DeliveryStepTypes
  <2> QED BY <1>1, <1>6, <2>5
<1> QED BY <1>1, <1>5, <1>6

LEMMA OnAckedFacts ==
    ASSUME TypeOK, OnAcked
    PROVE  /\ TypeOK' /\ chain # <<>> /\ stage = "acking" /\ Answered("delivery", "acked")
           /\ acked' = (IF FirstFresh THEN FirstCursor ELSE acked) /\ chain' = Tail(chain) /\ stage' = "next"
           /\ IsTaken("delivery")
           /\ UNCHANGED <<daemon, conn, up, events, faults, proj, gen, bound, curSub, lineage, seqNo,
                          hook, closed, est, hello, history>>
<1>1. /\ chain # <<>> /\ stage = "acking" /\ Answered("delivery", "acked")
      /\ acked' = (IF FirstFresh THEN FirstCursor ELSE acked) /\ chain' = Tail(chain) /\ stage' = "next"
      /\ calls' = Taken("delivery")
      /\ UNCHANGED <<daemon, conn, up, events, faults, proj, gen, bound, curSub, lineage, seqNo,
                     hook, closed, est, hello, history>>
  BY DEF OnAcked, Apply, FirstCursor
<1>2. IsTaken("delivery")
  BY <1>1, ViewFacts, TakenCalls
<1>3. FirstCursor \in CursorOrNone
  BY <1>1, ChainFacts, CursorsAre DEF FirstCursor
<1>4. acked' \in CursorOrNone
  BY <1>1, <1>3, ViewFacts
<1>5. /\ UNCHANGED <<conn, up, events, faults>> /\ UNCHANGED <<daemon, hello, est>> /\ UNCHANGED daemon
      /\ proj' \subseteq Nat /\ gen' \in Nat /\ bound' \in {"nobody", "main", "recovery"}
      /\ curSub' \in 0..Len(subs) /\ lineage' \in Nat /\ seqNo' \in Nat
      /\ hook' \in BOOLEAN /\ closed' \in BOOLEAN /\ reported' \in BOOLEAN /\ overrun' \in BOOLEAN
  BY <1>1, ViewFacts DEF history
<1>6. ChannelTypeOK'
  BY <1>2, <1>5, RunNames, ChannelTaken
<1>7. ChainType
  BY <1>1, TailChain
<1>8. TypeOK'
  BY <1>4, <1>5, <1>6, <1>7, DeliveryStepTypes
<1> QED BY <1>1, <1>2, <1>8

RecoverEffect(how) ==
    \/ (closed \/ est["recovery"].pc # "idle") /\ reported' = TRUE /\ IsTaken("delivery") /\ UNCHANGED <<view, est>>
    \/ /\ ~closed /\ est["recovery"].pc = "idle" /\ curSub # 0 /\ reported' = TRUE /\ gen' = gen + 1 /\ bound' = "nobody"
       /\ Moves("recovery", "unsubscribing", 0, how, None, <<>>, "")
       /\ Requested("delivery", "recovery", "unsubscribe", curSub, 0, None)
       /\ UNCHANGED <<proj, curSub, acked, lineage, seqNo, hook, closed>>
    \/ /\ ~closed /\ est["recovery"].pc = "idle" /\ curSub = 0
       /\ EstablishEffect("delivery", "recovery", gen + 2, how, proj, acked)

LEMMA RecoverFacts ==
    ASSUME TypeOK, NEW how \in {"resume", "snapshot"}, Recover(how)
    PROVE  RecoverEffect(how)
<1>1. \/ (closed \/ est["recovery"].pc # "idle") /\ reported' = TRUE /\ calls' = Taken("delivery") /\ UNCHANGED <<view, est>>
      \/ /\ ~closed /\ est["recovery"].pc = "idle" /\ curSub # 0 /\ reported' = TRUE /\ gen' = gen + 1 /\ bound' = "nobody"
         /\ est' = [est EXCEPT !["recovery"] = [At("unsubscribing") EXCEPT !.how = how]]
         /\ Request("delivery", "recovery", "unsubscribe", curSub, 0, None)
         /\ UNCHANGED <<proj, curSub, acked, lineage, seqNo, hook, closed>>
      \/ /\ ~closed /\ est["recovery"].pc = "idle" /\ curSub = 0
         /\ Establish("delivery", "recovery", gen + 2, how, proj, acked)
  BY DEF Recover
<1>2. CASE (closed \/ est["recovery"].pc # "idle") /\ reported' = TRUE /\ calls' = Taken("delivery") /\ UNCHANGED <<view, est>>
  <2>1. IsTaken("delivery")
    BY <1>2, ViewFacts, TakenCalls
  <2> QED BY <1>2, <2>1 DEF RecoverEffect
<1>3. CASE /\ ~closed /\ est["recovery"].pc = "idle" /\ curSub # 0 /\ reported' = TRUE /\ gen' = gen + 1 /\ bound' = "nobody"
           /\ est' = [est EXCEPT !["recovery"] = [At("unsubscribing") EXCEPT !.how = how]]
           /\ Request("delivery", "recovery", "unsubscribe", curSub, 0, None)
           /\ UNCHANGED <<proj, curSub, acked, lineage, seqNo, hook, closed>>
  <2> DEFINE x == [At("unsubscribing") EXCEPT !.how = how]
  <2>1. x.pc = "unsubscribing" /\ x.gen = 0 /\ x.how = how /\ x.cursor = None /\ x.pending = <<>> /\ x.code = ""
    BY DEF At
  <2>2. x \in Run
    <3>1. "unsubscribing" \in Stages /\ None \in CursorOrNone /\ <<>> \in Seq(Frame) /\ "" \in Codes
      BY AtTypes, StageNames
    <3> QED BY <3>1 DEF At, Run
  <2>3. est' = [est EXCEPT !["recovery"] = x]
    BY <1>3
  <2> HIDE DEF x
  <2>4. Moves("recovery", "unsubscribing", 0, how, None, <<>>, "")
    BY <2>1, <2>2, <2>3, RunNames, MovesIntro
  <2>5. 0 \in Nat /\ calls \in [Activities -> Call] /\ up \in BOOLEAN /\ curSub \in Nat /\ None \in CursorOrNone
        /\ "delivery" \in Activities /\ "recovery" \in Activities
    BY AtTypes, ViewFacts, RunNames
  <2>6. Requested("delivery", "recovery", "unsubscribe", curSub, 0, None)
    BY <1>3, <2>5, KindNames, RequestCalls
  <2> QED BY <1>3, <2>4, <2>6 DEF RecoverEffect
<1>4. CASE /\ ~closed /\ est["recovery"].pc = "idle" /\ curSub = 0
           /\ Establish("delivery", "recovery", gen + 2, how, proj, acked)
  <2> DEFINE g == gen + 2
  <2>1. g \in Nat
    BY SMTT(40), ViewFacts
  <2>2. Establish("delivery", "recovery", g, how, proj, acked)
    BY <1>4
  <2> HIDE DEF g
  <2>3. EstablishEffect("delivery", "recovery", g, how, proj, acked)
    BY <2>1, <2>2, ViewFacts, RunNames, EstablishFacts
  <2> QED BY <1>4, <2>3 DEF RecoverEffect, g
<1> QED BY <1>1, <1>2, <1>3, <1>4

LEMMA RecoverTypes ==
    ASSUME TypeOK, NEW how \in {"resume", "snapshot"}, RecoverEffect(how), ChainType,
           UNCHANGED <<daemon, conn, up, events, faults, hello, overrun>>
    PROVE  TypeOK'
<1>0. UNCHANGED <<conn, up, events, faults>> /\ UNCHANGED daemon /\ overrun' = overrun /\ hello' = hello
      /\ "delivery" \in Activities /\ "recovery" \in Activities
  BY RunNames
<1>1. CASE reported' = TRUE /\ IsTaken("delivery") /\ UNCHANGED <<view, est>>
  <2>1. ChannelTypeOK'
    BY <1>0, <1>1, ChannelTaken
  <2>2. /\ UNCHANGED <<daemon, hello, est>>
        /\ proj' \subseteq Nat /\ gen' \in Nat /\ bound' \in {"nobody", "main", "recovery"}
        /\ curSub' \in 0..Len(subs) /\ acked' \in CursorOrNone /\ lineage' \in Nat /\ seqNo' \in Nat
        /\ hook' \in BOOLEAN /\ closed' \in BOOLEAN /\ reported' \in BOOLEAN /\ overrun' \in BOOLEAN
    BY <1>0, <1>1, ViewFacts DEF view
  <2> QED BY <2>1, <2>2, DeliveryStepTypes
<1>2. CASE /\ reported' = TRUE /\ gen' = gen + 1 /\ bound' = "nobody"
           /\ Moves("recovery", "unsubscribing", 0, how, None, <<>>, "")
           /\ Requested("delivery", "recovery", "unsubscribe", curSub, 0, None)
           /\ UNCHANGED <<proj, curSub, acked, lineage, seqNo, hook, closed>>
  <2>1. ChannelTypeOK'
    <3>1. curSub \in 0..Len(subs)
      BY ViewFacts
    <3> QED BY <1>0, <1>2, <3>1, ChannelRequested
  <2>2. gen' \in Nat
    <3>1. gen \in Nat /\ gen' = gen + 1
      BY <1>2, ViewFacts
    <3> QED BY <3>1
  <2>3. /\ proj' \subseteq Nat /\ bound' \in {"nobody", "main", "recovery"}
        /\ curSub' \in 0..Len(subs) /\ acked' \in CursorOrNone /\ lineage' \in Nat /\ seqNo' \in Nat /\ hello' \in Nat
        /\ hook' \in BOOLEAN /\ closed' \in BOOLEAN /\ reported' \in BOOLEAN /\ overrun' \in BOOLEAN
    BY <1>0, <1>2, ViewFacts
  <2>4. DaemonTypeOK' /\ Len(subs') = Len(subs)
    BY DaemonSame
  <2>5. "unsubscribing" \notin {"reduced", "acking"}
    OBVIOUS
  <2>6. ViewTypeOK'
    BY <1>2, <2>2, <2>3, <2>4, <2>5, RunNames, ViewTypeIntro DEF ChainType
  <2> QED BY <2>1, <2>4, <2>6 DEF TypeOK
<1>3. CASE EstablishEffect("delivery", "recovery", gen + 2, how, proj, acked)
  <2> DEFINE g == gen + 2
  <2>1. g \in Nat
    BY SMTT(40), ViewFacts
  <2>2. EstablishEffect("delivery", "recovery", g, how, proj, acked)
    BY <1>3
  <2> HIDE DEF g
  <2>3. UNCHANGED <<daemon, conn, up, events, faults, hello, overrun>>
        /\ chain' \in Seq([frame : Frame, gen : Nat]) /\ stage' \in {"next", "reduced", "acking"}
        /\ (stage' # "next" => chain' # <<>>)
    BY DEF ChainType
  <2>4. proj \in SUBSET Nat /\ acked \in CursorOrNone
    BY ViewFacts
  <2> QED BY <1>0, <2>1, <2>2, <2>3, <2>4, EstablishTypes
<1> QED BY <1>1, <1>2, <1>3 DEF RecoverEffect

RecoverCodes == CursorErrors \cup {"event_sequence_gap", "missing_parent"}
RecoverHow(code) == IF code = "event_sequence_gap" THEN "resume" ELSE "snapshot"
FailedEffect(code) ==
    \/ code \in RecoverCodes /\ RecoverEffect(RecoverHow(code))
    \/ /\ code \notin RecoverCodes /\ reported' = TRUE /\ bound' = "nobody" /\ IsTaken("delivery")
       /\ UNCHANGED <<proj, gen, curSub, acked, lineage, seqNo, hook, closed, est>>

LEMMA FailedFacts ==
    ASSUME TypeOK, NEW code, Failed(code)
    PROVE  FailedEffect(code)
<1>1. \/ code \in RecoverCodes /\ Recover(RecoverHow(code))
      \/ /\ code \notin RecoverCodes /\ reported' = TRUE /\ bound' = "nobody" /\ calls' = Taken("delivery")
         /\ UNCHANGED <<proj, gen, curSub, acked, lineage, seqNo, hook, closed, est>>
  BY DEF Failed, RecoverCodes, RecoverHow
<1>2. RecoverHow(code) \in {"resume", "snapshot"}
  BY DEF RecoverHow
<1>3. Recover(RecoverHow(code)) => RecoverEffect(RecoverHow(code))
  BY <1>2, RecoverFacts
<1>4. calls' = Taken("delivery") => IsTaken("delivery")
  BY ViewFacts, TakenCalls
<1> QED BY <1>1, <1>3, <1>4 DEF FailedEffect

LEMMA FailedTypes ==
    ASSUME TypeOK, NEW code, FailedEffect(code), ChainType,
           UNCHANGED <<daemon, conn, up, events, faults, hello, overrun>>
    PROVE  TypeOK'
<1>1. CASE RecoverEffect(RecoverHow(code))
  <2>1. RecoverHow(code) \in {"resume", "snapshot"}
    BY DEF RecoverHow
  <2> QED BY <1>1, <2>1, RecoverTypes
<1>2. CASE /\ reported' = TRUE /\ bound' = "nobody" /\ IsTaken("delivery")
           /\ UNCHANGED <<proj, gen, curSub, acked, lineage, seqNo, hook, closed, est>>
  <2>1. ChannelTypeOK'
    BY <1>2, RunNames, ChannelTaken
  <2>2. /\ UNCHANGED <<daemon, hello, est>>
        /\ proj' \subseteq Nat /\ gen' \in Nat /\ bound' \in {"nobody", "main", "recovery"}
        /\ curSub' \in 0..Len(subs) /\ acked' \in CursorOrNone /\ lineage' \in Nat /\ seqNo' \in Nat
        /\ hook' \in BOOLEAN /\ closed' \in BOOLEAN /\ reported' \in BOOLEAN /\ overrun' \in BOOLEAN
    BY <1>2, ViewFacts
  <2> QED BY <2>1, <2>2, DeliveryStepTypes
<1> QED BY <1>1, <1>2 DEF FailedEffect

LEMMA DeliverFailsFacts ==
    ASSUME TypeOK, DeliverFails
    PROVE  /\ TypeOK' /\ chain # <<>> /\ stage = "next" /\ ~Stale(First, Head(chain).gen) /\ Rejected(First) # ""
           /\ FailedEffect(Rejected(First)) /\ chain' = Tail(chain)
           /\ UNCHANGED <<daemon, conn, up, events, faults, stage, hello, overrun>>
<1>1. /\ chain # <<>> /\ stage = "next" /\ ~Stale(First, Head(chain).gen) /\ Rejected(First) # ""
      /\ Failed(Rejected(First)) /\ chain' = Tail(chain)
      /\ UNCHANGED <<daemon, conn, up, events, faults, stage, hello, overrun>>
  BY DEF DeliverFails, Apply
<1>2. FailedEffect(Rejected(First))
  BY <1>1, FailedFacts
<1>3. ChainType
  BY <1>1, TailChain
<1>4. TypeOK'
  BY <1>1, <1>2, <1>3, FailedTypes
<1> QED BY <1>1, <1>2, <1>4

LEMMA OnAckErrorFacts ==
    ASSUME TypeOK, OnAckError
    PROVE  /\ TypeOK' /\ chain # <<>> /\ stage = "acking" /\ Answered("delivery", "error")
           /\ chain' = Tail(chain) /\ stage' = "next"
           /\ \/ Head(chain).gen = gen /\ FailedEffect(calls["delivery"].code)
              \/ Head(chain).gen # gen /\ IsTaken("delivery") /\ UNCHANGED <<view, est, reported>>
           /\ UNCHANGED <<daemon, conn, up, events, faults, hello, overrun>>
<1>1. /\ chain # <<>> /\ stage = "acking" /\ Answered("delivery", "error")
      /\ chain' = Tail(chain) /\ stage' = "next"
      /\ \/ Head(chain).gen = gen /\ Failed(calls["delivery"].code)
         \/ Head(chain).gen # gen /\ calls' = Taken("delivery") /\ UNCHANGED <<view, est, reported>>
      /\ UNCHANGED <<daemon, conn, up, events, faults, hello, overrun>>
  BY DEF OnAckError, Apply
<1>2. ChainType
  BY <1>1, TailChain
<1>3. CASE Head(chain).gen = gen /\ Failed(calls["delivery"].code)
  <2>1. FailedEffect(calls["delivery"].code)
    BY <1>3, FailedFacts
  <2>2. TypeOK'
    BY <1>1, <1>2, <2>1, FailedTypes
  <2> QED BY <1>1, <1>3, <2>1, <2>2
<1>4. CASE Head(chain).gen # gen /\ calls' = Taken("delivery") /\ UNCHANGED <<view, est, reported>>
  <2>1. IsTaken("delivery")
    BY <1>4, ViewFacts, TakenCalls
  <2>2. ChannelTypeOK'
    BY <1>1, <2>1, RunNames, ChannelTaken
  <2>3. /\ UNCHANGED <<daemon, hello, est>>
        /\ proj' \subseteq Nat /\ gen' \in Nat /\ bound' \in {"nobody", "main", "recovery"}
        /\ curSub' \in 0..Len(subs) /\ acked' \in CursorOrNone /\ lineage' \in Nat /\ seqNo' \in Nat
        /\ hook' \in BOOLEAN /\ closed' \in BOOLEAN /\ reported' \in BOOLEAN /\ overrun' \in BOOLEAN
    BY <1>1, <1>4, ViewFacts DEF view
  <2>4. TypeOK'
    BY <1>2, <2>2, <2>3, DeliveryStepTypes
  <2> QED BY <1>1, <1>4, <2>1, <2>4
<1> QED BY <1>1, <1>3, <1>4

LEMMA OnReleasedFacts ==
    ASSUME TypeOK, OnReleased
    PROVE  /\ TypeOK' /\ \E kind \in {"unsubscribed", "error"} : Received("recovery", kind, "unsubscribing")
           /\ EstablishEffect("recovery", "recovery", gen + 1, est["recovery"].how, proj, acked)
           /\ UNCHANGED <<daemon, conn, up, events, faults, chain, stage, hello, overrun>>
<1>1. /\ \E kind \in {"unsubscribed", "error"} : Received("recovery", kind, "unsubscribing")
      /\ Establish("recovery", "recovery", gen + 1, est["recovery"].how, proj, acked)
      /\ UNCHANGED <<daemon, conn, up, events, faults, chain, stage, hello, overrun>>
  BY DEF OnReleased
<1> DEFINE g == gen + 1
           h == est["recovery"].how
<1>2. g \in Nat
  BY ViewFacts
<1>3. h \in {"resume", "snapshot"} /\ proj \in SUBSET Nat /\ acked \in CursorOrNone /\ "recovery" \in Activities
  BY ViewFacts, RunFacts, RunNames
<1>4. Establish("recovery", "recovery", g, h, proj, acked)
  BY <1>1
<1>7. /\ chain' \in Seq([frame : Frame, gen : Nat]) /\ stage' \in {"next", "reduced", "acking"}
      /\ (stage' # "next" => chain' # <<>>)
  BY <1>1, ViewFacts
<1> HIDE DEF g, h
<1>5. EstablishEffect("recovery", "recovery", g, h, proj, acked)
  BY <1>2, <1>3, <1>4, EstablishFacts
<1>6. TypeOK'
  BY <1>1, <1>2, <1>3, <1>5, <1>7, EstablishTypes
<1> QED BY <1>1, <1>5, <1>6 DEF g, h

LEMMA JoinFacts ==
    ASSUME TypeOK, Join
    PROVE  /\ TypeOK' /\ est["main"].pc = "joining" /\ chain = <<>> /\ est["recovery"].pc = "idle" /\ ~closed
           /\ EstablishEffect("main", "main", gen + 1, "resume", proj, acked)
           /\ UNCHANGED <<daemon, conn, up, events, faults, chain, stage, hello, overrun>>
<1>1. /\ est["main"].pc = "joining" /\ chain = <<>> /\ est["recovery"].pc = "idle" /\ ~closed
      /\ Establish("main", "main", gen + 1, "resume", proj, acked)
      /\ UNCHANGED <<daemon, conn, up, events, faults, chain, stage, hello, overrun>>
  BY DEF Join
<1> DEFINE g == gen + 1
<1>2. g \in Nat
  BY ViewFacts
<1>3. proj \in SUBSET Nat /\ acked \in CursorOrNone /\ "main" \in Activities /\ "resume" \in {"resume", "snapshot"}
  BY ViewFacts, RunNames
<1>4. Establish("main", "main", g, "resume", proj, acked)
  BY <1>1
<1>7. /\ chain' \in Seq([frame : Frame, gen : Nat]) /\ stage' \in {"next", "reduced", "acking"}
      /\ (stage' # "next" => chain' # <<>>)
  BY <1>1, ViewFacts
<1> HIDE DEF g
<1>5. EstablishEffect("main", "main", g, "resume", proj, acked)
  BY <1>2, <1>3, <1>4, EstablishFacts
<1>6. TypeOK'
  BY <1>1, <1>2, <1>3, <1>5, <1>7, EstablishTypes
<1> QED BY <1>1, <1>5, <1>6 DEF g

LEMMA JoinClosedFacts ==
    ASSUME TypeOK, JoinClosed
    PROVE  /\ TypeOK' /\ est["main"].pc = "joining" /\ chain = <<>> /\ est["recovery"].pc = "idle" /\ closed
           /\ ThrowEffect("main") /\ UNCHANGED <<daemon, conn, faults, view, chain, stage, hello, overrun>>
<1>1. /\ est["main"].pc = "joining" /\ chain = <<>> /\ est["recovery"].pc = "idle" /\ closed
      /\ Throw("main") /\ UNCHANGED <<daemon, conn, faults, view, chain, stage, hello, overrun>>
  BY DEF JoinClosed
<1>2. ThrowEffect("main")
  BY <1>1, ThrowFacts
<1>3. /\ UNCHANGED <<daemon, conn, faults, proj, gen, curSub, acked, lineage, seqNo, hook, closed, chain, stage, hello, overrun>>
      /\ bound' \in {"nobody", "main", "recovery"}
  BY <1>1, ViewFacts DEF view
<1>4. TypeOK'
  BY <1>2, <1>3, ThrowTypes
<1> QED BY <1>1, <1>2, <1>4

LEMMA EventFacts ==
    ASSUME TypeOK, NEW s \in Subs, events[s] # <<>>, events' = [events EXCEPT ![s] = Tail(@)]
    PROVE  /\ Head(events[s]) = events[s][1] /\ Head(events[s]) \in Frame /\ Len(events[s]) >= 1 /\ Len(events[s]) \in Nat
           /\ events' \in Seq(Seq(Frame)) /\ Len(events') = Len(events) /\ events'[s] = Tail(events[s])
           /\ Len(events'[s]) = Len(events[s]) - 1 /\ \A i \in 1..(Len(events[s]) - 1) : events'[s][i] = events[s][i + 1]
           /\ \A r \in Subs : r # s => events'[r] = events[r]
<1> DEFINE q == events[s]
           T == Seq(Frame)
<1>1. q \in Seq(Frame) /\ q # <<>>
  BY SubFacts
<1>2. events \in Seq(T) /\ s \in 1..Len(events) /\ events' = [events EXCEPT ![s] = Tail(q)] /\ Subs = 1..Len(events)
  BY DEF TypeOK, ChannelTypeOK, Subs
<1>3. Head(q) = q[1] /\ Head(q) \in Frame /\ Len(q) >= 1 /\ Len(q) \in Nat /\ Tail(q) \in Seq(Frame)
      /\ Len(Tail(q)) = Len(q) - 1 /\ \A i \in 1..(Len(q) - 1) : Tail(q)[i] = q[i + 1]
  <2> HIDE DEF q
  <2> QED BY <1>1
<1>4. events' \in Seq(T) /\ Len(events') = Len(events) /\ events'[s] = Tail(q)
      /\ \A r \in 1..Len(events) : r # s => events'[r] = events[r]
  <2>1. Tail(q) \in T
    BY <1>3
  <2> DEFINE e == Tail(q)
  <2>2. e \in T /\ events' = [events EXCEPT ![s] = e]
    BY <1>2, <2>1
  <2> HIDE DEF q, T, e
  <2> DEFINE f == [events EXCEPT ![s] = e]
  <2>4. events \in Seq(T) /\ s \in 1..Len(events) /\ e \in T
    BY <1>2, <2>2
  <2>3. f \in Seq(T) /\ Len(f) = Len(events)
        /\ \A r \in 1..Len(events) : f[r] = IF r = s THEN e ELSE events[r]
    BY <2>4, ExceptSeq
  <2>5. events' = f
    BY <2>2
  <2> HIDE DEF f
  <2> QED BY <2>3, <2>4, <2>5 DEF e
<1> QED BY <1>2, <1>3, <1>4

\* The listener that takes a frame holds it back, chains it, or drops it.
Listens == bound # "nobody" /\ ~closed
Holds == Listens /\ est[bound].pc \in Loading
Takes(s) == Listens /\ ~Holds /\ s = curSub

EventEffect(s) ==
    /\ Settled /\ events[s] # <<>>
    /\ Holds => /\ bound \in {"main", "recovery"}
                /\ Moves(bound, est[bound].pc, est[bound].gen, est[bound].how, est[bound].cursor,
                         Append(est[bound].pending, events[s][1]), est[bound].code)
    /\ ~Holds => est' = est
    /\ Takes(s) => /\ chain' \in Seq([frame : Frame, gen : Nat]) /\ Len(chain') = Len(chain) + 1
                   /\ chain'[Len(chain) + 1].frame = events[s][1] /\ chain'[Len(chain) + 1].gen = gen
                   /\ \A i \in 1..Len(chain) : chain'[i] = chain[i]
    /\ ~Takes(s) => chain' = chain
    /\ Len(events'[s]) = Len(events[s]) - 1 /\ \A i \in 1..(Len(events[s]) - 1) : events'[s][i] = events[s][i + 1]
    /\ \A r \in Subs : r # s => events'[r] = events[r]
    /\ UNCHANGED <<daemon, conn, up, calls, faults, view, stage, hello, history>>

LEMMA OnEventFacts ==
    ASSUME TypeOK, NEW s \in Subs, OnEvent(s)
    PROVE  TypeOK' /\ EventEffect(s)
<1> DEFINE m == Head(events[s])
<1>1. /\ Settled /\ events[s] # <<>>
      /\ est' = (IF Holds THEN [est EXCEPT ![bound].pending = Append(@, m)] ELSE est)
      /\ chain' = (IF Takes(s) THEN Append(chain, [frame |-> m, gen |-> gen]) ELSE chain)
      /\ events' = [events EXCEPT ![s] = Tail(@)]
      /\ UNCHANGED <<daemon, conn, up, calls, faults, view, stage, hello, history>>
  BY DEF OnEvent, Holds, Takes, Listens
<1>2. /\ m = events[s][1] /\ m \in Frame
      /\ events' \in Seq(Seq(Frame)) /\ Len(events') = Len(events)
      /\ Len(events'[s]) = Len(events[s]) - 1 /\ \A i \in 1..(Len(events[s]) - 1) : events'[s][i] = events[s][i + 1]
      /\ \A r \in Subs : r # s => events'[r] = events[r]
  BY <1>1, EventFacts
<1> HIDE DEF m
<1>3. Holds => bound \in {"main", "recovery"} /\ bound \in Runs
  BY ViewFacts, RunNames DEF Holds, Listens
<1>4. Holds => Moves(bound, est[bound].pc, est[bound].gen, est[bound].how, est[bound].cursor,
                     Append(est[bound].pending, m), est[bound].code)
  BY <1>1, <1>2, <1>3, MovesAppend
<1>5. /\ Takes(s) => /\ chain' \in Seq([frame : Frame, gen : Nat]) /\ Len(chain') = Len(chain) + 1
                     /\ chain'[Len(chain) + 1].frame = m /\ chain'[Len(chain) + 1].gen = gen
                     /\ \A i \in 1..Len(chain) : chain'[i] = chain[i]
      /\ ~Takes(s) => chain' = chain
  <2> DEFINE T == [frame : Frame, gen : Nat]
             e == [frame |-> m, gen |-> gen]
  <2>1. chain \in Seq(T) /\ gen \in Nat
    BY ViewFacts
  <2>2. e \in T /\ e.frame = m /\ e.gen = gen
    BY <1>2, <2>1
  <2>3. Takes(s) => chain' = Append(chain, e)
    BY <1>1
  <2> HIDE DEF T, e
  <2>4. Takes(s) => /\ chain' \in Seq(T) /\ Len(chain') = Len(chain) + 1
                    /\ chain'[Len(chain) + 1] = e /\ \A i \in 1..Len(chain) : chain'[i] = chain[i]
    BY <2>1, <2>2, <2>3, AppendFacts
  <2>5. ~Takes(s) => chain' = chain
    BY <1>1
  <2> QED BY <2>2, <2>4, <2>5 DEF T
<1>6. EventEffect(s)
  BY <1>1, <1>2, <1>3, <1>4, <1>5 DEF EventEffect
<1>7. DaemonTypeOK' /\ subs' = subs /\ Subs' = Subs /\ \A r \in Subs' : subs'[r].conn <= conn
  BY <1>1, DaemonSame
<1>8. ChannelTypeOK'
  <2>1. conn' = conn /\ up' = up /\ calls' = calls /\ faults' = faults
    BY <1>1
  <2> QED BY <1>2, <1>7, <2>1 DEF TypeOK, ChannelTypeOK
<1>9. ChainType
  <2>1. stage' = stage
    BY <1>1
  <2>2. CASE Takes(s)
    <3>1. Len(chain') = Len(chain) + 1 /\ Len(chain) \in Nat /\ chain' \in Seq([frame : Frame, gen : Nat])
      BY <1>5, <2>2, ViewFacts
    <3>2. chain' # <<>>
      BY <3>1
    <3> QED BY <2>1, <3>1, <3>2, ViewFacts DEF ChainType
  <2>3. CASE ~Takes(s)
    BY <1>5, <2>1, <2>3, ViewFacts DEF ChainType
  <2> QED BY <2>2, <2>3
<1>10. /\ UNCHANGED <<daemon, hello>>
       /\ proj' \subseteq Nat /\ gen' \in Nat /\ bound' \in {"nobody", "main", "recovery"}
       /\ curSub' \in 0..Len(subs) /\ acked' \in CursorOrNone /\ lineage' \in Nat /\ seqNo' \in Nat /\ hello' \in Nat
       /\ hook' \in BOOLEAN /\ closed' \in BOOLEAN /\ reported' \in BOOLEAN /\ overrun' \in BOOLEAN /\ Len(subs') = Len(subs)
  BY <1>1, <1>7, ViewFacts DEF view, history
<1>11. ViewTypeOK'
  <2>1. CASE Holds
    <3>1. est[bound].pc \notin {"reduced", "acking"}
      BY <2>1 DEF Holds, Loading
    <3> QED BY <1>3, <1>4, <1>9, <1>10, <2>1, <3>1, ViewTypeIntro DEF ChainType
  <2>2. CASE ~Holds
    <3>1. est' = est
      BY <1>1, <2>2
    <3> QED BY <1>9, <1>10, <3>1, ViewTypeSameRuns DEF ChainType
  <2> QED BY <2>1, <2>2
<1> QED BY <1>6, <1>7, <1>8, <1>11 DEF TypeOK

\* The view is left alone.
LEMMA SameView ==
    ASSUME TypeOK, UNCHANGED <<view, est, chain, stage, history>>, hello' \in Nat, Len(subs') \in Nat, Len(subs) <= Len(subs')
    PROVE  ViewTypeOK'
<1>1. /\ proj' = proj /\ gen' = gen /\ bound' = bound /\ curSub' = curSub /\ acked' = acked /\ lineage' = lineage
      /\ seqNo' = seqNo /\ hook' = hook /\ closed' = closed /\ est' = est /\ chain' = chain /\ stage' = stage
      /\ reported' = reported /\ overrun' = overrun
  BY DEF view, history
<1>2. curSub' \in 0..Len(subs')
  <2>1. curSub \in 0..Len(subs) /\ Len(subs) \in Nat
    BY ViewFacts
  <2> QED BY <1>1, <2>1
<1> QED BY <1>1, <1>2 DEF TypeOK, ViewTypeOK

LEMMA DropFacts ==
    ASSUME TypeOK, Drop
    PROVE  /\ TypeOK' /\ up /\ Settled /\ IsFailed("nobody")
           /\ UNCHANGED <<daemon, conn, view, est, chain, stage, hello, history>>
<1>1. /\ up /\ Settled /\ Fail("nobody") /\ faults' = faults + 1
      /\ UNCHANGED <<daemon, conn, view, est, chain, stage, hello, history>>
  BY DEF Drop
<1>2. IsFailed("nobody")
  BY <1>1, ViewFacts, FailCalls
<1>3. DaemonTypeOK' /\ subs' = subs /\ \A s \in Subs' : subs'[s].conn <= conn
  BY <1>1, DaemonSame
<1>4. faults' \in Nat
  BY SMTT(40), <1>1, ViewFacts
<1>5. subs' \in Seq(Sub) /\ Len(subs') = Len(subs) /\ conn' = conn
  BY <1>1, <1>3 DEF TypeOK, DaemonTypeOK
<1>6. ChannelTypeOK'
  BY <1>2, <1>3, <1>4, <1>5, ChannelFailed
<1>7. hello' \in Nat /\ Len(subs') \in Nat /\ Len(subs) <= Len(subs')
  BY <1>1, <1>5, ViewFacts
<1>8. ViewTypeOK'
  BY <1>1, <1>7, SameView
<1> QED BY <1>1, <1>2, <1>3, <1>6, <1>8 DEF TypeOK

LEMMA DaemonRestartsFacts ==
    ASSUME TypeOK, DaemonRestarts
    PROVE  /\ TypeOK' /\ up /\ Settled /\ IsFailed("nobody") /\ instance' = instance + 1 /\ cursors' = {}
           /\ Len(subs') = Len(subs) /\ Subs' = Subs /\ SubsKept
           /\ \A s \in Subs : /\ subs'[s].conn = 0 /\ subs'[s].snap = subs[s].snap /\ subs'[s].seq = subs[s].seq
                              /\ subs'[s].phase = subs[s].phase /\ subs'[s].acked = subs[s].acked
           /\ UNCHANGED <<log, made, conn, view, est, chain, stage, hello, history>>
<1>1. /\ up /\ Settled /\ Fail("nobody") /\ faults' = faults + 1 /\ instance' = instance + 1 /\ cursors' = {}
      /\ UNCHANGED <<log, made, conn, view, est, chain, stage, hello, history>>
  BY DEF DaemonRestarts
<1> DEFINE G == Subs
<1>2. RemovedAll(G)
  BY DEF DaemonRestarts, RemovedAll
<1>3. IsFailed("nobody")
  BY <1>1, ViewFacts, FailCalls
<1> HIDE DEF G
<1>4. /\ subs' \in Seq(Sub) /\ Len(subs') = Len(subs) /\ Subs' = Subs
      /\ \A r \in Subs' : SubOK(subs'[r], log) /\ subs'[r].conn <= conn
      /\ SubsKept
      /\ \A s \in Subs : /\ subs'[s].conn = (IF s \in G THEN 0 ELSE subs[s].conn)
                         /\ subs'[s].snap = subs[s].snap /\ subs'[s].seq = subs[s].seq
                         /\ subs'[s].phase = subs[s].phase /\ subs'[s].acked = subs[s].acked
  BY <1>2, RemovedFacts
<1>5. faults' \in Nat
  BY SMTT(40), <1>1, ViewFacts
<1>6. ChannelTypeOK'
  <2>1. conn' = conn
    BY <1>1
  <2> QED BY <1>3, <1>4, <1>5, <2>1, ChannelFailed
<1>7. DaemonTypeOK'
  <2>1. log \in Nat /\ log >= 1 /\ made \in Nat /\ instance \in Nat
    BY DEF TypeOK, DaemonTypeOK
  <2>2. instance' \in Nat
    BY <1>1, <2>1
  <2>3. log' = log /\ made' = made /\ cursors' = {}
    BY <1>1
  <2>4. IsFiniteSet(cursors') /\ cursors' \subseteq Record /\ \A r \in cursors' : r.id[2] \in 0..(log' - 1)
    BY <2>3, FS_EmptySet
  <2>5. \A s \in Subs' : SubOK(subs'[s], log')
    BY <1>4, <2>3
  <2>6. log' \in Nat /\ log' >= 1 /\ made' \in Nat
    BY <2>1, <2>3
  <2> QED BY <1>4, <2>2, <2>4, <2>5, <2>6 DEF DaemonTypeOK
<1>8. hello' \in Nat /\ Len(subs') \in Nat /\ Len(subs) <= Len(subs')
  BY <1>1, <1>4, ViewFacts
<1>9. UNCHANGED <<view, est, chain, stage, history>>
  BY <1>1
<1>10. ViewTypeOK'
  BY <1>8, <1>9, SameView
<1>11. \A s \in Subs : subs'[s].conn = 0
  BY <1>4 DEF G
<1> QED BY <1>1, <1>3, <1>4, <1>6, <1>7, <1>10, <1>11 DEF TypeOK

ConnectEffect ==
    /\ ~up /\ Settled /\ (\A t \in Activities : calls[t].state = "none") /\ est["main"].pc = "idle" /\ ~closed
    /\ up' = TRUE /\ conn' = conn + 1 /\ hello' = instance
    /\ UNCHANGED <<daemon, calls, events, faults, view, chain, stage, history>>
    /\ \/ est' = est /\ ~hook
       \/ Moves("main", "joining", 0, "resume", None, <<>>, "")

LEMMA ConnectFacts ==
    ASSUME TypeOK, Reconnect \/ Rebind
    PROVE  TypeOK' /\ ConnectEffect
<1>1. /\ ~up /\ Settled /\ (\A t \in Activities : calls[t] = NoCall) /\ est["main"].pc = "idle" /\ ~closed
      /\ up' = TRUE /\ conn' = conn + 1 /\ hello' = instance
      /\ UNCHANGED <<daemon, calls, events, faults, view, chain, stage, history>>
      /\ (est' = est /\ ~hook) \/ est' = [est EXCEPT !["main"] = At("joining")]
  BY ViewFacts DEF Reconnect, Rebind, Connect
<1>2. (est' = est /\ ~hook) \/ Moves("main", "joining", 0, "resume", None, <<>>, "")
  BY <1>1, RunNames, StageNames, MovesAt
<1>3. \A t \in Activities : calls[t].state = "none"
  BY <1>1, NoCallFields
<1>4. ConnectEffect
  BY <1>1, <1>2, <1>3 DEF ConnectEffect
<1>5. DaemonTypeOK' /\ subs' = subs /\ Subs' = Subs /\ \A s \in Subs' : subs'[s].conn <= conn
  BY <1>1, DaemonSame
<1>6. ChannelTypeOK'
  <2>1. conn \in Nat /\ conn >= 1
    BY DEF TypeOK, ChannelTypeOK
  <2>2. conn' = conn + 1
    BY <1>1
  <2>3. conn' \in Nat /\ conn' >= 1
    BY <2>1, <2>2
  <2>4. \A s \in Subs' : subs'[s].conn <= conn'
    <3> TAKE s \in Subs'
    <3>1. subs'[s].conn <= conn /\ subs'[s].conn \in Nat
      BY <1>5, SubFacts
    <3> QED BY <2>1, <2>2, <3>1
  <2>5. up' \in BOOLEAN /\ calls' = calls /\ events' = events /\ faults' = faults
    BY <1>1
  <2> QED BY <1>5, <2>3, <2>4, <2>5 DEF TypeOK, ChannelTypeOK
<1>7. /\ proj' \subseteq Nat /\ gen' \in Nat /\ bound' \in {"nobody", "main", "recovery"}
      /\ curSub' \in 0..Len(subs) /\ acked' \in CursorOrNone /\ lineage' \in Nat /\ seqNo' \in Nat /\ hello' \in Nat
      /\ hook' \in BOOLEAN /\ closed' \in BOOLEAN /\ reported' \in BOOLEAN /\ overrun' \in BOOLEAN /\ Len(subs') = Len(subs)
      /\ chain' \in Seq([frame : Frame, gen : Nat]) /\ stage' \in {"next", "reduced", "acking"}
      /\ (stage' # "next" => chain' # <<>>)
  BY <1>1, <1>5, ViewFacts DEF view, history
<1>8. "joining" \notin {"reduced", "acking"}
  OBVIOUS
<1>9. ViewTypeOK'
  <2>1. CASE est' = est
    BY <1>7, <2>1, ViewTypeSameRuns
  <2>2. CASE Moves("main", "joining", 0, "resume", None, <<>>, "")
    BY <1>7, <1>8, <2>2, RunNames, ViewTypeIntro
  <2> QED BY <1>2, <2>1, <2>2
<1> QED BY <1>4, <1>5, <1>6, <1>9 DEF TypeOK

LEMMA CloseFacts ==
    ASSUME TypeOK, Close
    PROVE  /\ TypeOK' /\ ~closed /\ closed' = TRUE /\ gen' = gen + 1 /\ bound' = "nobody" /\ hook' = FALSE
           /\ Moves("close", "joining", 0, "resume", None, <<>>, "")
           /\ UNCHANGED <<daemon, channel, faults, proj, curSub, acked, lineage, seqNo, chain, stage, hello, history>>
<1>1. /\ ~closed /\ closed' = TRUE /\ gen' = gen + 1 /\ bound' = "nobody" /\ hook' = FALSE
      /\ est' = [est EXCEPT !["close"] = At("joining")]
      /\ UNCHANGED <<daemon, channel, faults, proj, curSub, acked, lineage, seqNo, chain, stage, hello, history>>
  BY DEF Close
<1>2. Moves("close", "joining", 0, "resume", None, <<>>, "")
  BY <1>1, RunNames, StageNames, MovesAt
<1>3. ChannelTypeOK'
  BY <1>1, ChannelSame DEF channel
<1>6. gen' \in Nat
  <2>1. gen \in Nat /\ gen' = gen + 1
    BY <1>1, ViewFacts
  <2> QED BY <2>1
<1>4. /\ UNCHANGED <<daemon, chain, stage, hello>>
      /\ proj' \subseteq Nat /\ bound' \in {"nobody", "main", "recovery"}
      /\ curSub' \in 0..Len(subs) /\ acked' \in CursorOrNone /\ lineage' \in Nat /\ seqNo' \in Nat
      /\ hook' \in BOOLEAN /\ closed' \in BOOLEAN /\ reported' \in BOOLEAN /\ overrun' \in BOOLEAN
  BY <1>1, ViewFacts DEF history
<1>5. "joining" \notin {"reduced", "acking"}
  OBVIOUS
<1>7. TypeOK'
  BY <1>2, <1>3, <1>4, <1>5, <1>6, RunNames, RunStepTypes
<1> QED BY <1>1, <1>2, <1>7

LEMMA CloseUnsubscribesFacts ==
    ASSUME TypeOK, CloseUnsubscribes
    PROVE  /\ TypeOK' /\ est["close"].pc = "joining" /\ chain = <<>> /\ est["recovery"].pc = "idle"
           /\ bound' = "nobody" /\ curSub' = 0
           /\ \/ curSub = 0 /\ Moves("close", "idle", 0, "resume", None, <<>>, "") /\ UNCHANGED calls
              \/ /\ curSub # 0 /\ Moves("close", "closing", 0, "resume", None, <<>>, "")
                 /\ Requested("close", "close", "unsubscribe", curSub, 0, None)
           /\ UNCHANGED <<daemon, conn, up, events, faults, proj, gen, acked, lineage, seqNo, hook, closed,
                          chain, stage, hello, history>>
<1>1. /\ est["close"].pc = "joining" /\ chain = <<>> /\ est["recovery"].pc = "idle"
      /\ bound' = "nobody" /\ curSub' = 0
      /\ \/ curSub = 0 /\ est' = [est EXCEPT !["close"] = Idle] /\ UNCHANGED calls
         \/ /\ curSub # 0 /\ est' = [est EXCEPT !["close"] = At("closing")]
            /\ Request("close", "close", "unsubscribe", curSub, 0, None)
      /\ UNCHANGED <<daemon, conn, up, events, faults, proj, gen, acked, lineage, seqNo, hook, closed,
                     chain, stage, hello, history>>
  BY DEF CloseUnsubscribes
<1>2. 0 \in 0..Len(subs) /\ curSub \in 0..Len(subs)
  BY ViewFacts
<1>3. /\ UNCHANGED <<conn, up, events, faults>> /\ UNCHANGED daemon /\ UNCHANGED <<daemon, chain, stage, hello>>
      /\ proj' \subseteq Nat /\ gen' \in Nat /\ bound' \in {"nobody", "main", "recovery"}
      /\ curSub' \in 0..Len(subs) /\ acked' \in CursorOrNone /\ lineage' \in Nat /\ seqNo' \in Nat
      /\ hook' \in BOOLEAN /\ closed' \in BOOLEAN /\ reported' \in BOOLEAN /\ overrun' \in BOOLEAN
  BY <1>1, <1>2, ViewFacts DEF history
<1>4. CASE curSub = 0 /\ est' = [est EXCEPT !["close"] = Idle] /\ UNCHANGED calls
  <2>1. Moves("close", "idle", 0, "resume", None, <<>>, "")
    BY <1>4, RunNames, MovesIdle
  <2>2. ChannelTypeOK'
    BY <1>3, <1>4, ChannelSame
  <2>3. "idle" \notin {"reduced", "acking"}
    OBVIOUS
  <2>4. TypeOK'
    BY <1>3, <2>1, <2>2, <2>3, RunNames, RunStepTypes
  <2> QED BY <1>1, <1>4, <2>1, <2>4
<1>5. CASE /\ curSub # 0 /\ est' = [est EXCEPT !["close"] = At("closing")]
           /\ Request("close", "close", "unsubscribe", curSub, 0, None)
  <2>1. Moves("close", "closing", 0, "resume", None, <<>>, "")
    BY <1>5, RunNames, StageNames, MovesAt
  <2>5. 0 \in Nat /\ calls \in [Activities -> Call] /\ up \in BOOLEAN /\ curSub \in Nat /\ None \in CursorOrNone
        /\ "close" \in Activities
    BY AtTypes, ViewFacts, RunNames
  <2>6. Requested("close", "close", "unsubscribe", curSub, 0, None)
    BY <1>5, <2>5, KindNames, RequestCalls
  <2>2. ChannelTypeOK'
    BY <1>2, <1>3, <2>5, <2>6, ChannelRequested
  <2>3. "closing" \notin {"reduced", "acking"}
    OBVIOUS
  <2>4. TypeOK'
    BY <1>3, <2>1, <2>2, <2>3, RunNames, RunStepTypes
  <2> QED BY <1>1, <1>5, <2>1, <2>4, <2>6
<1> QED BY <1>1, <1>4, <1>5

LEMMA OnClosedFacts ==
    ASSUME TypeOK, OnClosed
    PROVE  /\ TypeOK' /\ \E kind \in {"unsubscribed", "error"} : Received("close", kind, "closing")
           /\ Moves("close", "idle", 0, "resume", None, <<>>, "") /\ IsTaken("close")
           /\ UNCHANGED <<daemon, conn, up, events, faults, view, chain, stage, hello, history>>
<1>1. /\ \E kind \in {"unsubscribed", "error"} : Received("close", kind, "closing")
      /\ est' = [est EXCEPT !["close"] = Idle] /\ calls' = Taken("close")
      /\ UNCHANGED <<daemon, conn, up, events, faults, view, chain, stage, hello, history>>
  BY DEF OnClosed
<1>2. Moves("close", "idle", 0, "resume", None, <<>>, "") /\ IsTaken("close")
  BY <1>1, RunNames, MovesIdle, ViewFacts, TakenCalls
<1>3. /\ UNCHANGED <<conn, up, events, faults>> /\ UNCHANGED daemon /\ UNCHANGED <<daemon, chain, stage, hello>>
      /\ proj' \subseteq Nat /\ gen' \in Nat /\ bound' \in {"nobody", "main", "recovery"}
      /\ curSub' \in 0..Len(subs) /\ acked' \in CursorOrNone /\ lineage' \in Nat /\ seqNo' \in Nat
      /\ hook' \in BOOLEAN /\ closed' \in BOOLEAN /\ reported' \in BOOLEAN /\ overrun' \in BOOLEAN
  BY <1>1, ViewFacts DEF view, history
<1>4. ChannelTypeOK'
  BY <1>2, <1>3, RunNames, ChannelTaken
<1>5. "idle" \notin {"reduced", "acking"}
  OBVIOUS
<1>6. TypeOK'
  BY <1>2, <1>3, <1>4, <1>5, RunNames, RunStepTypes
<1> QED BY <1>1, <1>2, <1>6

(***************************************************************************)
(* The frames are kept by every step.                                      *)
(***************************************************************************)
\* A step keeps good frames good.
Kept == \A m \in Frame : GoodFrame(m) => GoodFrame(m)'

LEMMA KeptByDaemon ==
    ASSUME TypeOK, DaemonTypeOK', SubsKept
    PROVE  Kept
<1> SUFFICES ASSUME NEW m \in Frame, GoodFrame(m) PROVE GoodFrame(m)'
  BY DEF Kept
<1>1. m.sub \in Subs /\ m.seq \in 1..subs[m.sub].seq /\ m.pos = subs[m.sub].snap + m.seq - 1 /\ subs[m.sub].phase = "active"
  BY DEF GoodFrame
<1>2. Len(subs) \in Nat /\ Len(subs') \in Nat /\ Len(subs) <= Len(subs')
  BY DEF TypeOK, DaemonTypeOK, SubsKept
<1>3. m.sub \in Subs'
  BY <1>1, <1>2 DEF Subs
<1>4. /\ subs'[m.sub].snap = subs[m.sub].snap /\ subs'[m.sub].seq >= subs[m.sub].seq /\ subs'[m.sub].phase = "active"
  BY <1>1 DEF SubsKept
<1>5. subs[m.sub].seq \in Nat
  BY <1>1, SubFacts
<1>6. subs'[m.sub].seq \in Nat
  <2>1. subs' \in Seq(Sub) /\ m.sub \in 1..Len(subs')
    BY <1>3 DEF DaemonTypeOK, Subs
  <2>2. subs'[m.sub] \in Sub
    BY <2>1
  <2> QED BY <2>2 DEF Sub
<1>7. m.seq \in 1..subs'[m.sub].seq
  BY <1>1, <1>4, <1>5, <1>6
<1> QED BY <1>1, <1>3, <1>4, <1>7 DEF GoodFrame

LEMMA KeptSame ==
    ASSUME TypeOK, UNCHANGED daemon
    PROVE  Kept
<1>1. subs' = subs /\ Subs' = Subs
  BY DaemonSame
<1> QED BY <1>1 DEF Kept, GoodFrame

LEMMA EventsSame ==
    ASSUME TypeOK, FramesOK, UNCHANGED daemon, events' = events, up' = up, conn' = conn
    PROVE  EventsOK'
<1>1. subs' = subs /\ Subs' = Subs
  BY DaemonSame
<1> QED BY <1>1 DEF FramesOK, EventsOK, EventsOf, SubEvents, GoodFrame

LEMMA EventsNone ==
    ASSUME \A s \in Subs' : events'[s] = <<>>
    PROVE  EventsOK'
<1> SUFFICES ASSUME NEW s \in Subs' PROVE SubEvents(s, events[s])' /\ events'[s] = <<>>
  BY DEF EventsOK, EventsOf
<1>1. events'[s] = <<>>
  OBVIOUS
<1>2. Len(events'[s]) = 0
  BY <1>1
<1> QED BY <1>1, <1>2 DEF SubEvents

LEMMA HeldSame ==
    ASSUME TypeOK, FramesOK, Kept, est' = est
    PROVE  HeldOK'
<1> SUFFICES ASSUME NEW t \in Runs, NEW i \in 1..Len(est[t].pending) PROVE GoodFrame(est[t].pending[i])'
  BY DEF HeldOK
<1>1. est[t].pending \in Seq(Frame)
  BY RunFacts
<1>2. est[t].pending[i] \in Frame
  BY <1>1
<1>3. GoodFrame(est[t].pending[i])
  BY DEF FramesOK, HeldOK
<1> DEFINE m == est[t].pending[i]
<1>5. m \in Frame /\ GoodFrame(m) /\ est'[t].pending[i] = m
  BY <1>2, <1>3
<1> HIDE DEF m
<1>6. m' = m
  BY DEF m
<1> QED BY <1>5, <1>6 DEF Kept, GoodFrame

AllGood(q) == q \in Seq(Frame) /\ \A i \in 1..Len(q) : GoodFrame(q[i])

LEMMA HeldMoves ==
    ASSUME TypeOK, FramesOK, Kept, NEW t \in Runs, NEW pc, NEW g, NEW how, NEW c, NEW q, NEW code,
           Moves(t, pc, g, how, c, q, code), AllGood(q)
    PROVE  HeldOK'
<1> SUFFICES ASSUME NEW v \in Runs, NEW i \in 1..Len(est'[v].pending) PROVE GoodFrame(est[v].pending[i])'
  BY DEF HeldOK
<1>1. \E m \in Frame : m = est'[v].pending[i] /\ GoodFrame(m)
  <2>1. CASE v = t
    <3>1. est'[v].pending = q
      BY <2>1 DEF Moves
    <3>2. q[i] \in Frame /\ GoodFrame(q[i])
      BY <3>1 DEF AllGood
    <3> QED BY <3>1, <3>2
  <2>2. CASE v # t
    <3>1. est'[v].pending = est[v].pending
      BY <2>2 DEF Moves
    <3>2. est[v].pending[i] \in Frame
      BY <3>1, RunFacts
    <3>3. GoodFrame(est[v].pending[i])
      BY <3>1 DEF FramesOK, HeldOK
    <3> QED BY <3>1, <3>2, <3>3
  <2> QED BY <2>1, <2>2
<1>2. PICK m \in Frame : m = est'[v].pending[i] /\ GoodFrame(m)
  BY <1>1
<1>3. GoodFrame(m)'
  BY <1>2 DEF Kept
<1> QED BY <1>2, <1>3 DEF GoodFrame

LEMMA NoneGood == AllGood(<<>>)
<1>1. <<>> \in Seq(Frame) /\ Len(<<>>) = 0
  OBVIOUS
<1> QED BY <1>1 DEF AllGood

LEMMA SameGood ==
    ASSUME TypeOK, FramesOK, NEW t \in Runs
    PROVE  AllGood(est[t].pending)
BY RunFacts DEF AllGood, FramesOK, HeldOK

LEMMA TailGood ==
    ASSUME TypeOK, FramesOK, NEW t \in Runs, est[t].pending # <<>>
    PROVE  AllGood(Tail(est[t].pending))
<1> DEFINE q == est[t].pending
           p == Tail(q)
<1>1. p \in Seq(Frame) /\ Len(p) = Len(q) - 1 /\ Len(q) \in Nat /\ \A i \in 1..(Len(q) - 1) : p[i] = q[i + 1]
  BY HeldFacts
<1>2. \A i \in 1..Len(q) : GoodFrame(q[i])
  BY DEF FramesOK, HeldOK
<1> HIDE DEF q, p
<1>3. \A i \in 1..Len(p) : GoodFrame(p[i])
  <2> TAKE i \in 1..Len(p)
  <2>1. i \in 1..(Len(q) - 1) /\ i + 1 \in 1..Len(q)
    BY <1>1
  <2>2. p[i] = q[i + 1] /\ GoodFrame(q[i + 1])
    BY <1>1, <1>2, <2>1
  <2> QED BY <2>2
<1>4. AllGood(p)
  BY <1>1, <1>3 DEF AllGood
<1> QED BY <1>4 DEF p, q

LEMMA AppendGood ==
    ASSUME TypeOK, FramesOK, NEW t \in Runs, NEW m \in Frame, GoodFrame(m)
    PROVE  AllGood(Append(est[t].pending, m))
<1> DEFINE q == est[t].pending
           p == Append(q, m)
<1>1. q \in Seq(Frame) /\ \A i \in 1..Len(q) : GoodFrame(q[i])
  BY RunFacts DEF FramesOK, HeldOK
<1>2. p \in Seq(Frame) /\ Len(p) = Len(q) + 1 /\ p[Len(q) + 1] = m /\ \A i \in 1..Len(q) : p[i] = q[i]
  <2> HIDE DEF q
  <2> QED BY <1>1, AppendFacts
<1>0. Len(q) \in Nat
  <2> HIDE DEF q
  <2> QED BY <1>1
<1> HIDE DEF q, p
<1>3. \A i \in 1..Len(p) : GoodFrame(p[i])
  <2> TAKE i \in 1..Len(p)
  <2>1. i \in 1..Len(q) \/ i = Len(q) + 1
    BY <1>0, <1>2
  <2> QED BY <1>1, <1>2, <2>1
<1>4. AllGood(p)
  BY <1>2, <1>3 DEF AllGood
<1> QED BY <1>4 DEF p, q

\* Each frame of the chain was one before, or is a good one.
LEMMA ChainMoves ==
    ASSUME TypeOK, FramesOK, Kept, chain' \in Seq([frame : Frame, gen : Nat]),
           \A i \in 1..Len(chain') : GoodFrame(chain'[i].frame) \/ \E j \in 1..Len(chain) : chain'[i] = chain[j]
    PROVE  ChainOK'
<1> SUFFICES ASSUME NEW i \in 1..Len(chain') PROVE GoodFrame(chain[i].frame)'
  BY DEF ChainOK
<1> DEFINE E == [frame : Frame, gen : Nat]
<1>0. chain' \in Seq(E)
  OBVIOUS
<1>1. chain'[i] \in E
  <2> HIDE DEF E
  <2> QED BY <1>0
<1>2. chain'[i].frame \in Frame
  BY <1>1
<1>3. GoodFrame(chain'[i].frame)
  BY DEF FramesOK, ChainOK
<1>4. \E m \in Frame : m = chain'[i].frame /\ GoodFrame(m)
  BY <1>2, <1>3
<1>5. PICK m \in Frame : m = chain'[i].frame /\ GoodFrame(m)
  BY <1>4
<1>6. GoodFrame(m)'
  BY <1>5 DEF Kept
<1> QED BY <1>5, <1>6 DEF GoodFrame

LEMMA ChainSameOK ==
    ASSUME TypeOK, FramesOK, Kept, chain' = chain
    PROVE  ChainOK'
<1>1. chain' \in Seq([frame : Frame, gen : Nat])
  BY ViewFacts
<1>2. \A i \in 1..Len(chain') : \E j \in 1..Len(chain) : chain'[i] = chain[j]
  OBVIOUS
<1> QED BY <1>1, <1>2, ChainMoves

LEMMA ChainTailOK ==
    ASSUME TypeOK, FramesOK, Kept, chain # <<>>, chain' = Tail(chain)
    PROVE  ChainOK'
<1>1. /\ chain' \in Seq([frame : Frame, gen : Nat]) /\ Len(chain') = Len(chain) - 1 /\ Len(chain) \in Nat
      /\ \A i \in 1..(Len(chain) - 1) : chain'[i] = chain[i + 1]
  BY ChainFacts
<1>2. \A i \in 1..Len(chain') : \E j \in 1..Len(chain) : chain'[i] = chain[j]
  <2> TAKE i \in 1..Len(chain')
  <2>1. i + 1 \in 1..Len(chain) /\ i \in 1..(Len(chain) - 1)
    BY <1>1
  <2>2. chain'[i] = chain[i + 1]
    BY <1>1, <2>1
  <2> QED BY <2>1, <2>2
<1> QED BY <1>1, <1>2, ChainMoves

LEMMA SentTaken ==
    ASSUME TypeOK, FramesOK, NEW t, IsTaken(t), up' = up
    PROVE  SentUp'
BY NoCallFields DEF IsTaken, Same, FramesOK, SentUp

LEMMA SentRequested ==
    ASSUME TypeOK, FramesOK, NEW u \in Activities, NEW t \in Activities, NEW kind, NEW s, NEW start, NEW c,
           Requested(u, t, kind, s, start, c), up' = up
    PROVE  SentUp'
<1> SUFFICES ASSUME NEW v \in Activities, calls'[v].state = "sent", ~up PROVE FALSE
  BY ViewFacts DEF SentUp
<1>1. CASE v = t
  BY <1>1 DEF Requested
<1>2. CASE v # t /\ v = u
  BY <1>2, NoCallFields DEF Requested
<1>3. CASE v # t /\ v # u
  <2>1. calls[v].state = "sent"
    BY <1>3 DEF Requested, Same
  <2> QED BY <2>1 DEF FramesOK, SentUp
<1> QED BY <1>1, <1>2, <1>3

LEMMA SentFailed ==
    ASSUME TypeOK, NEW t, IsFailed(t)
    PROVE  SentUp'
<1> SUFFICES ASSUME NEW v \in Activities PROVE calls'[v].state # "sent"
  BY DEF SentUp
<1>1. CASE v = t \/ calls[v].state = "none"
  BY <1>1, NoCallFields DEF IsFailed
<1>2. CASE v # t /\ calls[v].state # "none"
  BY <1>2 DEF IsFailed
<1> QED BY <1>1, <1>2

LEMMA SentResponded ==
    ASSUME TypeOK, FramesOK, NEW t \in Activities, NEW kind, NEW s, NEW start, NEW count, NEW code,
           Responded(t, kind, s, start, count, code)
    PROVE  SentUp'
BY DEF Responded, FramesOK, SentUp

LEMMA SentSame ==
    ASSUME FramesOK, calls' = calls, up' = up
    PROVE  SentUp'
BY DEF FramesOK, SentUp

LEMMA RunFrames ==
    ASSUME TypeOK, FramesOK, UNCHANGED daemon, NEW t \in Runs, NEW pc, NEW g, NEW how, NEW c, NEW q, NEW code,
           Moves(t, pc, g, how, c, q, code), AllGood(q), ChainOK', SentUp', events' = events, up' = up, conn' = conn
    PROVE  FramesOK'
<1>1. Kept
  BY KeptSame
<1> QED BY <1>1, HeldMoves, EventsSame DEF FramesOK

LEMMA DeliveryFrames ==
    ASSUME TypeOK, FramesOK, UNCHANGED daemon, est' = est, ChainOK', SentUp', events' = events, up' = up, conn' = conn
    PROVE  FramesOK'
<1>1. Kept
  BY KeptSame
<1> QED BY <1>1, HeldSame, EventsSame DEF FramesOK

LEMMA EstablishFrames ==
    ASSUME TypeOK, FramesOK, UNCHANGED <<daemon, conn, up, events>>, ChainOK',
           NEW u \in Activities, NEW t \in {"main", "recovery"}, NEW g, NEW how, NEW p, NEW a,
           EstablishEffect(u, t, g, how, p, a)
    PROVE  FramesOK'
<1>1. /\ Moves(t, "subscribing", g, how, Offer(how, p, a), <<>>, "") /\ t \in Runs /\ t \in Activities
      /\ Requested(u, t, "subscribe", 0, 0, Offer(how, p, a)) /\ UNCHANGED daemon
      /\ events' = events /\ up' = up /\ conn' = conn
  BY RunNames DEF EstablishEffect
<1>2. SentUp'
  BY <1>1, SentRequested
<1> QED BY <1>1, <1>2, NoneGood, RunFrames

LEMMA ThrowFrames ==
    ASSUME TypeOK, FramesOK, UNCHANGED <<daemon, conn, chain>>, NEW t \in {"main", "recovery"}, ThrowEffect(t)
    PROVE  FramesOK'
<1>0. Kept /\ Subs' = Subs /\ UNCHANGED daemon /\ conn' = conn /\ chain' = chain /\ t \in Runs
  BY KeptSame, DaemonSame, RunNames
<1>1. ChainOK'
  BY <1>0, ChainSameOK
<1>2. Moves(t, "idle", 0, "resume", None, <<>>, "")
  BY DEF ThrowEffect
<1>3. CASE t = "main"
  <2>1. IsFailed(t)
    BY <1>3 DEF ThrowEffect
  <2>2. \A s \in Subs' : events'[s] = <<>>
    BY <1>0, <2>1 DEF IsFailed
  <2> QED BY <1>0, <1>1, <1>2, <2>1, <2>2, EventsNone, SentFailed, HeldMoves, NoneGood DEF FramesOK
<1>4. CASE t # "main"
  <2>1. IsTaken(t) /\ up' = up /\ events' = events
    BY <1>4 DEF ThrowEffect
  <2>2. SentUp'
    BY <2>1, SentTaken
  <2> QED BY <1>0, <1>1, <1>2, <2>1, <2>2, NoneGood, RunFrames
<1> QED BY <1>3, <1>4

LEMMA CleanupFrames ==
    ASSUME TypeOK, FramesOK, UNCHANGED <<daemon, conn, chain>>, NEW t \in {"main", "recovery"}, NEW code, CleanupEffect(t, code)
    PROVE  FramesOK'
<1>0. Kept /\ UNCHANGED daemon /\ conn' = conn /\ chain' = chain /\ t \in Runs /\ t \in Activities
  BY KeptSame, RunNames
<1>1. ChainOK'
  BY <1>0, ChainSameOK
<1>2. /\ Moves(t, "cleaning", 0, est[t].how, None, <<>>, code) /\ Requested(t, t, "unsubscribe", curSub, 0, None)
      /\ up' = up /\ events' = events
  BY DEF CleanupEffect
<1>3. SentUp'
  BY <1>0, <1>2, SentRequested
<1> QED BY <1>0, <1>1, <1>2, <1>3, NoneGood, RunFrames

LEMMA LoadFrames ==
    ASSUME TypeOK, FramesOK, UNCHANGED <<daemon, conn, up, events, chain>>, NEW t \in {"main", "recovery"}, LoadEffect(t)
    PROVE  FramesOK'
<1>0. Kept /\ UNCHANGED daemon /\ conn' = conn /\ up' = up /\ events' = events /\ chain' = chain /\ t \in Runs /\ t \in Activities
  BY KeptSame, RunNames
<1>1. ChainOK'
  BY <1>0, ChainSameOK
<1>5. AllGood(est[t].pending)
  BY <1>0, SameGood
<1>2. CASE /\ Moves(t, "bounding", est[t].gen, est[t].how, LastCursor(t), est[t].pending, est[t].code)
           /\ Requested(t, t, "ack", calls[t].sub, 0, LastCursor(t))
  <2>1. SentUp'
    BY <1>0, <1>2, SentRequested
  <2> QED BY <1>0, <1>1, <1>2, <1>5, <2>1, RunFrames
<1>3. CASE Stops(t)
  <2>1. SentUp'
    BY <1>0, <1>3, SentTaken DEF Stops
  <2>2. Moves(t, "idle", 0, "resume", None, <<>>, "")
    BY <1>3 DEF Stops
  <2> QED BY <1>0, <1>1, <2>1, <2>2, NoneGood, RunFrames
<1>4. CASE Keeps(t, "paging") /\ Requested(t, t, "history", calls[t].sub, PageLimit(t), None)
  <2>1. SentUp'
    BY <1>0, <1>4, SentRequested
  <2> QED BY <1>0, <1>1, <1>4, <1>5, <2>1, RunFrames DEF Keeps
<1> QED BY <1>2, <1>3, <1>4 DEF LoadEffect

LEMMA RecoverFrames ==
    ASSUME TypeOK, FramesOK, UNCHANGED <<daemon, conn, up, events>>, ChainOK', NEW how, RecoverEffect(how)
    PROVE  FramesOK'
<1>0. UNCHANGED daemon /\ conn' = conn /\ up' = up /\ events' = events
      /\ "delivery" \in Activities /\ "recovery" \in Activities /\ "recovery" \in Runs
  BY RunNames
<1>1. CASE IsTaken("delivery") /\ UNCHANGED <<view, est>>
  <2>1. SentUp' /\ est' = est
    BY <1>0, <1>1, SentTaken
  <2> QED BY <1>0, <2>1, DeliveryFrames
<1>2. CASE /\ Moves("recovery", "unsubscribing", 0, how, None, <<>>, "")
           /\ Requested("delivery", "recovery", "unsubscribe", curSub, 0, None)
  <2>1. SentUp'
    BY <1>0, <1>2, SentRequested
  <2> QED BY <1>0, <1>2, <2>1, NoneGood, RunFrames
<1>3. CASE EstablishEffect("delivery", "recovery", gen + 2, how, proj, acked)
  <2> DEFINE g == gen + 2
  <2>1. EstablishEffect("delivery", "recovery", g, how, proj, acked)
    BY <1>3
  <2> HIDE DEF g
  <2> QED BY <1>0, <2>1, EstablishFrames
<1> QED BY <1>1, <1>2, <1>3 DEF RecoverEffect

LEMMA FailedFrames ==
    ASSUME TypeOK, FramesOK, UNCHANGED <<daemon, conn, up, events>>, ChainOK', NEW code, FailedEffect(code)
    PROVE  FramesOK'
<1>1. CASE RecoverEffect(RecoverHow(code))
  BY <1>1, RecoverFrames
<1>2. CASE IsTaken("delivery") /\ est' = est
  <2>1. SentUp'
    BY <1>2, SentTaken
  <2> QED BY <1>2, <2>1, DeliveryFrames
<1> QED BY <1>1, <1>2 DEF FailedEffect

TypesKept == TypeOK' /\ FramesOK'

LEMMA RunActions ==
    ASSUME TypeOK, FramesOK, NEW t \in {"main", "recovery"}, EstablishNext(t)
    PROVE  TypesKept
<1>0. t \in Runs /\ t \in Activities
  BY RunNames
<1>1. CASE OnSnapshot(t)
  <2>1. TypeOK' /\ LoadEffect(t) /\ UNCHANGED <<daemon, conn, up, events, chain>>
    BY <1>1, OnSnapshotFacts
  <2> QED BY <2>1, LoadFrames DEF TypesKept
<1>2. CASE OnPage(t)
  <2>1. /\ TypeOK' /\ UNCHANGED <<daemon, conn, up, events, chain>> /\ UNCHANGED <<daemon, conn, chain>>
        /\ CleanupEffect(t, "missing_parent") \/ LoadEffect(t)
    BY <1>2, OnPageFacts
  <2> QED BY <2>1, LoadFrames, CleanupFrames DEF TypesKept
<1>3. CASE OnResumed(t)
  <2>1. /\ TypeOK' /\ UNCHANGED daemon /\ conn' = conn /\ up' = up /\ events' = events /\ chain' = chain /\ IsTaken(t)
        /\ Keeps(t, "draining") \/ Stops(t)
    BY <1>3, OnResumedFacts
  <2>2. ChainOK' /\ SentUp'
    BY <2>1, KeptSame, ChainSameOK, SentTaken
  <2>3. AllGood(est[t].pending) /\ AllGood(<<>>)
    BY <1>0, SameGood, NoneGood
  <2> QED BY <1>0, <2>1, <2>2, <2>3, RunFrames DEF TypesKept, Keeps, Stops
<1>4. CASE OnBoundary(t)
  <2>1. /\ TypeOK' /\ UNCHANGED daemon /\ conn' = conn /\ up' = up /\ events' = events /\ chain' = chain /\ IsTaken(t)
        /\ Keeps(t, "draining") \/ Stops(t)
    BY <1>4, OnBoundaryFacts
  <2>2. ChainOK' /\ SentUp'
    BY <2>1, KeptSame, ChainSameOK, SentTaken
  <2>3. AllGood(est[t].pending) /\ AllGood(<<>>)
    BY <1>0, SameGood, NoneGood
  <2> QED BY <1>0, <2>1, <2>2, <2>3, RunFrames DEF TypesKept, Keeps, Stops
<1>5. CASE OnRefused(t)
  <2>1. /\ TypeOK' /\ UNCHANGED <<daemon, conn, chain>>
        /\ \/ /\ Moves(t, "subscribing", est[t].gen, est[t].how, None, est[t].pending, est[t].code)
              /\ Requested(t, t, "subscribe", 0, 0, None) /\ UNCHANGED <<up, events>>
           \/ ThrowEffect(t)
    BY <1>5, OnRefusedFacts
  <2>2. CASE ThrowEffect(t)
    BY <2>1, <2>2, ThrowFrames DEF TypesKept
  <2>3. CASE /\ Moves(t, "subscribing", est[t].gen, est[t].how, None, est[t].pending, est[t].code)
             /\ Requested(t, t, "subscribe", 0, 0, None) /\ UNCHANGED <<up, events>>
    <3>1. ChainOK' /\ SentUp' /\ AllGood(est[t].pending)
      BY <1>0, <2>1, <2>3, KeptSame, ChainSameOK, SentRequested, SameGood
    <3> QED BY <1>0, <2>1, <2>3, <3>1, RunFrames DEF TypesKept
  <2> QED BY <2>1, <2>2, <2>3
<1>6. CASE OnLoadError(t)
  <2>1. TypeOK' /\ UNCHANGED <<daemon, conn, chain>> /\ CleanupEffect(t, calls[t].code)
    BY <1>6, OnLoadErrorFacts
  <2> QED BY <2>1, CleanupFrames DEF TypesKept
<1>7. CASE OnCleaned(t)
  <2>1. /\ TypeOK' /\ UNCHANGED <<daemon, conn, chain>>
        /\ \/ EstablishEffect(t, t, gen + 1, "snapshot", {}, None) /\ UNCHANGED <<up, events>>
           \/ ThrowEffect(t)
    BY <1>7, OnCleanedFacts
  <2>2. CASE ThrowEffect(t)
    BY <2>1, <2>2, ThrowFrames DEF TypesKept
  <2>3. CASE EstablishEffect(t, t, gen + 1, "snapshot", {}, None) /\ UNCHANGED <<up, events>>
    <3> DEFINE g == gen + 1
               p == {}
    <3>1. EstablishEffect(t, t, g, "snapshot", p, None) /\ UNCHANGED <<daemon, conn, up, events>> /\ UNCHANGED daemon /\ chain' = chain
      BY <2>1, <2>3
    <3> HIDE DEF g, p
    <3>2. ChainOK'
      BY <3>1, KeptSame, ChainSameOK
    <3> QED BY <1>0, <2>1, <3>1, <3>2, EstablishFrames DEF TypesKept
  <2> QED BY <2>1, <2>2, <2>3
<1>8. CASE OnCleanupFailed(t)
  <2>1. TypeOK' /\ UNCHANGED <<daemon, conn, chain>> /\ ThrowEffect(t)
    BY <1>8, OnCleanupFailedFacts
  <2> QED BY <2>1, ThrowFrames DEF TypesKept
<1>9. CASE DrainSkip(t)
  <2>1. /\ TypeOK' /\ UNCHANGED daemon /\ conn' = conn /\ up' = up /\ events' = events /\ calls' = calls /\ chain' = chain
        /\ est[t].pending # <<>>
        /\ Moves(t, "draining", est[t].gen, est[t].how, est[t].cursor, Tail(est[t].pending), est[t].code)
    BY <1>9, DrainSkipFacts DEF channel
  <2>2. ChainOK' /\ SentUp' /\ AllGood(Tail(est[t].pending))
    BY <1>0, <2>1, KeptSame, ChainSameOK, SentSame, TailGood
  <2> QED BY <1>0, <2>1, <2>2, RunFrames DEF TypesKept
<1>10. CASE DrainReduce(t)
  <2>1. /\ TypeOK' /\ UNCHANGED daemon /\ conn' = conn /\ up' = up /\ events' = events /\ chain' = chain
        /\ (Keeps(t, "reduced") /\ calls' = calls) \/ CleanupEffect(t, Rejected(Held(t)))
    BY <1>10, DrainReduceFacts
  <2>2. CASE Keeps(t, "reduced") /\ calls' = calls
    <3>1. ChainOK' /\ SentUp' /\ AllGood(est[t].pending)
      BY <1>0, <2>1, <2>2, KeptSame, ChainSameOK, SentSame, SameGood
    <3> QED BY <1>0, <2>1, <2>2, <3>1, RunFrames DEF TypesKept, Keeps
  <2>3. CASE CleanupEffect(t, Rejected(Held(t)))
    BY <2>1, <2>3, CleanupFrames DEF TypesKept
  <2> QED BY <2>1, <2>2, <2>3
<1>11. CASE DrainAck(t)
  <2>1. /\ TypeOK' /\ UNCHANGED daemon /\ conn' = conn /\ up' = up /\ events' = events /\ chain' = chain /\ est[t].pending # <<>>
        /\ \/ Keeps(t, "acking") /\ Requested(t, t, "ack", Held(t).sub, 0, HeldCursor(t))
           \/ /\ Moves(t, "draining", est[t].gen, est[t].how, est[t].cursor, Tail(est[t].pending), est[t].code)
              /\ calls' = calls
    BY <1>11, DrainAckFacts
  <2>2. ChainOK' /\ AllGood(Tail(est[t].pending)) /\ AllGood(est[t].pending)
    BY <1>0, <2>1, KeptSame, ChainSameOK, TailGood, SameGood
  <2>3. SentUp'
    BY <1>0, <2>1, SentSame, SentRequested
  <2> QED BY <1>0, <2>1, <2>2, <2>3, RunFrames DEF TypesKept, Keeps
<1>12. CASE OnDrainAcked(t)
  <2>1. /\ TypeOK' /\ UNCHANGED daemon /\ conn' = conn /\ up' = up /\ events' = events /\ IsTaken(t) /\ chain' = chain
        /\ est[t].pending # <<>>
        /\ Moves(t, "draining", est[t].gen, est[t].how, est[t].cursor, Tail(est[t].pending), est[t].code)
    BY <1>12, OnDrainAckedFacts
  <2>2. ChainOK' /\ SentUp' /\ AllGood(Tail(est[t].pending))
    BY <1>0, <2>1, KeptSame, ChainSameOK, SentTaken, TailGood
  <2> QED BY <1>0, <2>1, <2>2, RunFrames DEF TypesKept
<1>13. CASE Established(t)
  <2>1. /\ TypeOK' /\ UNCHANGED daemon /\ conn' = conn /\ up' = up /\ events' = events /\ calls' = calls /\ chain' = chain
        /\ Moves(t, "idle", 0, "resume", None, <<>>, "")
    BY <1>13, EstablishedFacts DEF channel
  <2>2. ChainOK' /\ SentUp'
    BY <2>1, KeptSame, ChainSameOK, SentSame
  <2> QED BY <1>0, <2>1, <2>2, NoneGood, RunFrames DEF TypesKept
<1> QED BY <1>1, <1>2, <1>3, <1>4, <1>5, <1>6, <1>7, <1>8, <1>9, <1>10, <1>11, <1>12, <1>13 DEF EstablishNext

LEMMA DeliveryActions ==
    ASSUME TypeOK, FramesOK, DeliverSkip \/ DeliverReduce \/ DeliverFails \/ DeliverAck \/ OnAcked \/ OnAckError
    PROVE  TypesKept
<1>1. CASE DeliverSkip
  <2>1. /\ TypeOK' /\ UNCHANGED daemon /\ conn' = conn /\ up' = up /\ events' = events /\ calls' = calls /\ est' = est
        /\ chain # <<>> /\ chain' = Tail(chain)
    BY <1>1, DeliverSkipFacts DEF channel
  <2>2. ChainOK' /\ SentUp'
    BY <2>1, KeptSame, ChainTailOK, SentSame
  <2> QED BY <2>1, <2>2, DeliveryFrames DEF TypesKept
<1>2. CASE DeliverReduce
  <2>1. /\ TypeOK' /\ UNCHANGED daemon /\ conn' = conn /\ up' = up /\ events' = events /\ calls' = calls /\ est' = est
        /\ chain' = chain
    BY <1>2, DeliverReduceFacts DEF channel
  <2>2. ChainOK' /\ SentUp'
    BY <2>1, KeptSame, ChainSameOK, SentSame
  <2> QED BY <2>1, <2>2, DeliveryFrames DEF TypesKept
<1>3. CASE DeliverFails
  <2>1. /\ TypeOK' /\ UNCHANGED <<daemon, conn, up, events>> /\ UNCHANGED daemon
        /\ chain # <<>> /\ chain' = Tail(chain) /\ FailedEffect(Rejected(First))
    BY <1>3, DeliverFailsFacts
  <2>2. ChainOK'
    BY <2>1, KeptSame, ChainTailOK
  <2> QED BY <2>1, <2>2, FailedFrames DEF TypesKept
<1>4. CASE DeliverAck
  <2>1. /\ TypeOK' /\ UNCHANGED daemon /\ conn' = conn /\ up' = up /\ events' = events /\ est' = est /\ chain # <<>>
        /\ \/ Requested("delivery", "delivery", "ack", First.sub, 0, FirstCursor) /\ chain' = chain
           \/ chain' = Tail(chain) /\ calls' = calls
    BY <1>4, DeliverAckFacts
  <2>2. ChainOK'
    BY <2>1, KeptSame, ChainTailOK, ChainSameOK
  <2>3. SentUp'
    BY <2>1, RunNames, SentRequested, SentSame
  <2> QED BY <2>1, <2>2, <2>3, DeliveryFrames DEF TypesKept
<1>5. CASE OnAcked
  <2>1. /\ TypeOK' /\ UNCHANGED daemon /\ conn' = conn /\ up' = up /\ events' = events /\ est' = est /\ chain # <<>>
        /\ IsTaken("delivery") /\ chain' = Tail(chain)
    BY <1>5, OnAckedFacts
  <2>2. ChainOK' /\ SentUp'
    BY <2>1, KeptSame, ChainTailOK, SentTaken
  <2> QED BY <2>1, <2>2, DeliveryFrames DEF TypesKept
<1>6. CASE OnAckError
  <2>1. /\ TypeOK' /\ UNCHANGED <<daemon, conn, up, events>> /\ UNCHANGED daemon
        /\ chain # <<>> /\ chain' = Tail(chain)
        /\ FailedEffect(calls["delivery"].code) \/ (IsTaken("delivery") /\ est' = est)
    BY <1>6, OnAckErrorFacts
  <2>2. ChainOK'
    BY <2>1, KeptSame, ChainTailOK
  <2>3. IsTaken("delivery") => SentUp'
    BY <2>1, SentTaken
  <2> QED BY <2>1, <2>2, <2>3, FailedFrames, DeliveryFrames DEF TypesKept
<1> QED BY <1>1, <1>2, <1>3, <1>4, <1>5, <1>6

LEMMA OtherActions ==
    ASSUME TypeOK, FramesOK, Join \/ JoinClosed \/ OnReleased \/ CloseUnsubscribes \/ OnClosed \/ Close
    PROVE  TypesKept
<1>1. CASE Join
  <2> DEFINE g == gen + 1
  <2>1. /\ TypeOK' /\ UNCHANGED <<daemon, conn, up, events>> /\ UNCHANGED daemon /\ chain' = chain
        /\ EstablishEffect("main", "main", g, "resume", proj, acked)
    BY <1>1, JoinFacts
  <2> HIDE DEF g
  <2>2. ChainOK'
    BY <2>1, KeptSame, ChainSameOK
  <2> QED BY <2>1, <2>2, RunNames, EstablishFrames DEF TypesKept
<1>2. CASE JoinClosed
  <2>1. TypeOK' /\ UNCHANGED <<daemon, conn, chain>> /\ ThrowEffect("main")
    BY <1>2, JoinClosedFacts
  <2> QED BY <2>1, ThrowFrames DEF TypesKept
<1>3. CASE OnReleased
  <2> DEFINE g == gen + 1
             h == est["recovery"].how
  <2>1. /\ TypeOK' /\ UNCHANGED <<daemon, conn, up, events>> /\ UNCHANGED daemon /\ chain' = chain
        /\ EstablishEffect("recovery", "recovery", g, h, proj, acked)
    BY <1>3, OnReleasedFacts
  <2> HIDE DEF g, h
  <2>2. ChainOK'
    BY <2>1, KeptSame, ChainSameOK
  <2> QED BY <2>1, <2>2, RunNames, EstablishFrames DEF TypesKept
<1>4. CASE CloseUnsubscribes
  <2>1. /\ TypeOK' /\ UNCHANGED daemon /\ conn' = conn /\ up' = up /\ events' = events /\ chain' = chain
        /\ \/ Moves("close", "idle", 0, "resume", None, <<>>, "") /\ calls' = calls
           \/ /\ Moves("close", "closing", 0, "resume", None, <<>>, "")
              /\ Requested("close", "close", "unsubscribe", curSub, 0, None)
    BY <1>4, CloseUnsubscribesFacts
  <2>2. ChainOK'
    BY <2>1, KeptSame, ChainSameOK
  <2>3. SentUp'
    BY <2>1, RunNames, SentRequested, SentSame
  <2> QED BY <2>1, <2>2, <2>3, NoneGood, RunNames, RunFrames DEF TypesKept
<1>5. CASE OnClosed
  <2>1. /\ TypeOK' /\ UNCHANGED daemon /\ conn' = conn /\ up' = up /\ events' = events /\ chain' = chain
        /\ Moves("close", "idle", 0, "resume", None, <<>>, "") /\ IsTaken("close")
    BY <1>5, OnClosedFacts
  <2>2. ChainOK' /\ SentUp'
    BY <2>1, KeptSame, ChainSameOK, SentTaken
  <2> QED BY <2>1, <2>2, NoneGood, RunNames, RunFrames DEF TypesKept
<1>6. CASE Close
  <2>1. /\ TypeOK' /\ UNCHANGED daemon /\ conn' = conn /\ up' = up /\ events' = events /\ chain' = chain /\ calls' = calls
        /\ Moves("close", "joining", 0, "resume", None, <<>>, "")
    BY <1>6, CloseFacts DEF channel
  <2>2. ChainOK' /\ SentUp'
    BY <2>1, KeptSame, ChainSameOK, SentSame
  <2> QED BY <2>1, <2>2, NoneGood, RunNames, RunFrames DEF TypesKept
<1> QED BY <1>1, <1>2, <1>3, <1>4, <1>5, <1>6

LEMMA ConnectionActions ==
    ASSUME TypeOK, FramesOK, Drop \/ DaemonRestarts \/ Reconnect \/ Rebind
    PROVE  TypesKept
<1>1. CASE Drop
  <2>1. TypeOK' /\ IsFailed("nobody") /\ UNCHANGED daemon /\ est' = est /\ chain' = chain
    BY <1>1, DropFacts
  <2>2. Kept /\ \A s \in Subs' : events'[s] = <<>>
    BY <2>1, KeptSame, DaemonSame DEF IsFailed
  <2> QED BY <2>1, <2>2, SentFailed, EventsNone, HeldSame, ChainSameOK DEF TypesKept, FramesOK
<1>2. CASE DaemonRestarts
  <2>1. TypeOK' /\ IsFailed("nobody") /\ SubsKept /\ Subs' = Subs /\ est' = est /\ chain' = chain
    BY <1>2, DaemonRestartsFacts
  <2>2. Kept /\ \A s \in Subs' : events'[s] = <<>>
    BY <2>1, KeptByDaemon DEF IsFailed, TypeOK
  <2> QED BY <2>1, <2>2, SentFailed, EventsNone, HeldSame, ChainSameOK DEF TypesKept, FramesOK
<1>3. CASE Reconnect \/ Rebind
  <2>1. TypeOK' /\ ConnectEffect
    BY <1>3, ConnectFacts
  <2>2. /\ ~up /\ up' = TRUE /\ UNCHANGED daemon /\ chain' = chain /\ events' = events
        /\ est' = est \/ Moves("main", "joining", 0, "resume", None, <<>>, "")
    BY <2>1 DEF ConnectEffect
  <2>3. SentUp'
    BY <2>2 DEF SentUp
  <2>4. Kept /\ Subs' = Subs
    BY <2>2, KeptSame, DaemonSame
  <2>5. \A s \in Subs' : events'[s] = <<>>
    BY <2>2, <2>4 DEF FramesOK, EventsOK, EventsOf
  <2>6. HeldOK'
    BY <2>2, <2>4, HeldSame, HeldMoves, NoneGood, RunNames
  <2> QED BY <2>1, <2>2, <2>3, <2>4, <2>5, <2>6, EventsNone, ChainSameOK DEF TypesKept, FramesOK
<1> QED BY <1>1, <1>2, <1>3

LEMMA EventsKept ==
    ASSUME TypeOK, FramesOK, Kept, NEW s \in Subs, subs'[s].seq = subs[s].seq, subs'[s].conn \in {subs[s].conn, 0},
           events'[s] = events[s], up' = up, conn' = conn
    PROVE  EventsOf(s)'
<1>1. EventsOf(s)
  BY DEF FramesOK, EventsOK
<1>2. SubEvents(s, events[s])'
  <2> SUFFICES ASSUME NEW i \in 1..Len(events[s])
               PROVE  GoodFrame(events[s][i])' /\ events'[s][i].sub = s /\ events'[s][i].seq = subs'[s].seq - Len(events'[s]) + i
    BY DEF SubEvents
  <2>1. events[s] \in Seq(Frame)
    BY SubFacts
  <2>2. events[s][i] \in Frame /\ GoodFrame(events[s][i]) /\ events[s][i].sub = s /\ events[s][i].seq = subs[s].seq - Len(events[s]) + i
    BY <1>1, <2>1 DEF EventsOf, SubEvents
  <2>3. \E m \in Frame : m = events[s][i] /\ GoodFrame(m)
    BY <2>2
  <2>4. PICK m \in Frame : m = events[s][i] /\ GoodFrame(m)
    BY <2>3
  <2>5. GoodFrame(m)' /\ m = events'[s][i]
    BY <2>4 DEF Kept
  <2>6. GoodFrame(events[s][i])'
    BY <2>5 DEF GoodFrame
  <2> QED BY <2>2, <2>6
<1>3. events'[s] # <<>> => up' /\ subs'[s].conn \in {0, conn'}
  BY <1>1 DEF EventsOf
<1> QED BY <1>2, <1>3 DEF EventsOf

\* Frames e, numbered from n + 1, follow the ones under way.
LEMMA MoreFrames ==
    ASSUME NEW s, NEW q \in Seq(Frame), NEW e \in Seq(Frame), NEW n \in Nat,
           \A i \in 1..Len(q) : GoodFrame(q[i])' /\ q[i].sub = s /\ q[i].seq = n - Len(q) + i,
           \A i \in 1..Len(e) : GoodFrame(e[i])' /\ e[i].sub = s /\ e[i].seq = n + i,
           subs'[s].seq = n + Len(e), events'[s] = q \o e
    PROVE  SubEvents(s, events[s])'
<1>1. /\ events'[s] \in Seq(Frame) /\ Len(events'[s]) = Len(q) + Len(e) /\ Len(q) \in Nat /\ Len(e) \in Nat
      /\ \A i \in 1..Len(q) : events'[s][i] = q[i] /\ \A j \in 1..Len(e) : events'[s][Len(q) + j] = e[j]
  OBVIOUS
<1> SUFFICES ASSUME NEW i \in 1..Len(events'[s])
             PROVE  GoodFrame(events[s][i])' /\ events'[s][i].sub = s /\ events'[s][i].seq = subs'[s].seq - Len(events'[s]) + i
  BY DEF SubEvents
<1>2. i \in Nat /\ (i \in 1..Len(q) \/ (i - Len(q) \in 1..Len(e)))
  BY <1>1
<1>3. CASE i \in 1..Len(q)
  <2>1. events'[s][i] = q[i]
    BY <1>1, <1>3
  <2>2. GoodFrame(q[i])' /\ q[i].sub = s /\ q[i].seq = n - Len(q) + i
    BY <1>3
  <2>3. n - Len(q) + i = subs'[s].seq - Len(events'[s]) + i
    BY <1>1
  <2> QED BY <2>1, <2>2, <2>3 DEF GoodFrame
<1>4. CASE i - Len(q) \in 1..Len(e)
  <2>0. PICK j \in 1..Len(e) : i = Len(q) + j
    <3>1. i = Len(q) + (i - Len(q))
      BY <1>1, <1>2
    <3> QED BY <1>4, <3>1
  <2>1. events'[s][i] = e[j]
    BY <1>1, <2>0
  <2>2. GoodFrame(e[j])' /\ e[j].sub = s /\ e[j].seq = n + j
    OBVIOUS
  <2>3. n + j = subs'[s].seq - Len(events'[s]) + i
    BY <1>1, <2>0
  <2> QED BY <2>1, <2>2, <2>3 DEF GoodFrame
<1> QED BY <1>2, <1>3, <1>4

\* The frames under way of a subscription stay good.
LEMMA OldFrames ==
    ASSUME TypeOK, FramesOK, Kept, NEW s \in Subs
    PROVE  /\ events[s] \in Seq(Frame)
           /\ \A i \in 1..Len(events[s]) : \E m \in Frame : /\ m = events[s][i] /\ GoodFrame(m)' /\ m.sub = s
                                                            /\ m.seq = subs[s].seq - Len(events[s]) + i
<1>1. events[s] \in Seq(Frame) /\ EventsOf(s)
  BY SubFacts DEF FramesOK, EventsOK
<1> SUFFICES ASSUME NEW i \in 1..Len(events[s])
             PROVE  \E m \in Frame : /\ m = events[s][i] /\ GoodFrame(m)' /\ m.sub = s
                                     /\ m.seq = subs[s].seq - Len(events[s]) + i
  BY <1>1
<1>2. events[s][i] \in Frame /\ GoodFrame(events[s][i]) /\ events[s][i].sub = s /\ events[s][i].seq = subs[s].seq - Len(events[s]) + i
  BY <1>1 DEF EventsOf, SubEvents
<1>3. \E m \in Frame : m = events[s][i] /\ GoodFrame(m)
  BY <1>2
<1>4. PICK m \in Frame : m = events[s][i] /\ GoodFrame(m)
  BY <1>3
<1>5. GoodFrame(m)'
  BY <1>4 DEF Kept
<1> QED BY <1>2, <1>4, <1>5

LEMMA EventsGrow ==
    ASSUME TypeOK, FramesOK, Kept, NEW s \in Subs, NEW e \in Seq(Frame),
           \A i \in 1..Len(e) : GoodFrame(e[i])' /\ e[i].sub = s /\ e[i].seq = subs[s].seq + i,
           subs'[s].seq = subs[s].seq + Len(e), events'[s] = events[s] \o e, up', subs'[s].conn = conn'
    PROVE  EventsOf(s)'
<1>1. events[s] \in Seq(Frame) /\ subs[s].seq \in Nat
  BY SubFacts
<1>2. \E q \in Seq(Frame), n \in Nat : q = events[s] /\ n = subs[s].seq
  BY <1>1
<1>3. PICK q \in Seq(Frame), n \in Nat : q = events[s] /\ n = subs[s].seq
  BY <1>2
<1>4. \A i \in 1..Len(q) : GoodFrame(q[i])' /\ q[i].sub = s /\ q[i].seq = n - Len(q) + i
  <2> TAKE i \in 1..Len(q)
  <2>1. PICK m \in Frame : m = events[s][i] /\ GoodFrame(m)' /\ m.sub = s /\ m.seq = subs[s].seq - Len(events[s]) + i
    BY <1>3, OldFrames
  <2>2. m = q[i]
    BY <1>3, <2>1
  <2> QED BY <1>3, <2>1, <2>2
<1>5. \A i \in 1..Len(e) : GoodFrame(e[i])' /\ e[i].sub = s /\ e[i].seq = n + i
  BY <1>3
<1>6. subs'[s].seq = n + Len(e) /\ events'[s] = q \o e
  BY <1>3
<1>7. SubEvents(s, events[s])'
  BY <1>4, <1>5, <1>6, MoreFrames
<1> QED BY <1>7 DEF EventsOf

AreFrames(e, s, seq, from, to) ==
    /\ e = Frames(s, seq, from, to) /\ Len(e) = to - from
    /\ \A i \in 1..(to - from) : e[i] = [sub |-> s, seq |-> seq + i, pos |-> from + i - 1]
LEMMA FramesExist ==
    ASSUME NEW s \in Nat, NEW seq \in Nat, NEW from \in Nat, NEW to \in Nat, to - from \in Nat
    PROVE  \E e \in Seq(Frame) : AreFrames(e, s, seq, from, to)
<1>1. from \in Int /\ to \in Int
  OBVIOUS
<1>2. /\ Frames(s, seq, from, to) \in Seq(Frame) /\ Len(Frames(s, seq, from, to)) = to - from
      /\ \A i \in 1..(to - from) : Frames(s, seq, from, to)[i] = [sub |-> s, seq |-> seq + i, pos |-> from + i - 1]
  BY DEF Frames, Frame
<1> QED BY <1>2 DEF AreFrames

LEMMA FrameArithmetic ==
    ASSUME NEW i \in Nat, NEW x \in Nat, NEW q \in Nat, NEW p \in Nat, NEW n \in Nat, i >= 1, i <= n, x + q = p
    PROVE  q + i \in 1..(q + n) /\ p + i - 1 = x + (q + i) - 1
OBVIOUS

GoodFrames(e, s, seq, from, to) ==
    /\ e = Frames(s, seq, from, to) /\ Len(e) = to - from
    /\ \A i \in 1..Len(e) : GoodFrame(e[i])' /\ e[i].sub = s /\ e[i].seq = seq + i

\* The frames of deliverEvent after seq are the ones they should be.
LEMMA FramesGood ==
    ASSUME NEW s \in Nat, NEW seq \in Nat, NEW from \in Nat, NEW to \in Nat, to - from \in Nat,
           s \in Subs', subs'[s].snap + seq = from, subs'[s].seq = seq + (to - from), subs'[s].phase = "active",
           subs'[s].snap \in Nat
    PROVE  \E e \in Seq(Frame) : GoodFrames(e, s, seq, from, to)
<1>0. PICK e \in Seq(Frame) : AreFrames(e, s, seq, from, to)
  BY FramesExist, Zenon
<1>2. /\ e = Frames(s, seq, from, to) /\ Len(e) = to - from
      /\ \A i \in 1..(to - from) : e[i] = [sub |-> s, seq |-> seq + i, pos |-> from + i - 1]
  BY <1>0 DEF AreFrames
<1>3. ASSUME NEW i \in 1..Len(e) PROVE GoodFrame(e[i])' /\ e[i].sub = s /\ e[i].seq = seq + i
  <2>0. i \in 1..(to - from)
    BY <1>2
  <2>1. e[i].sub = s /\ e[i].seq = seq + i /\ e[i].pos = from + i - 1
    <3>1. e[i] = [sub |-> s, seq |-> seq + i, pos |-> from + i - 1]
      BY <1>2, <2>0
    <3> QED BY <3>1
  <2>2. seq + i \in 1..subs'[s].seq /\ from + i - 1 = subs'[s].snap + (seq + i) - 1
    <3>0. PICK n \in Nat : n = to - from
      OBVIOUS
    <3>1. i \in Nat /\ i >= 1 /\ i <= n
      BY <2>0, <3>0
    <3>2. PICK x \in Nat : x = subs'[s].snap /\ x + seq = from
      OBVIOUS
    <3>3. seq + i \in 1..(seq + n) /\ from + i - 1 = x + (seq + i) - 1
      <4>1. seq + i \in 1..(seq + n)
        BY <3>1
      <4>0. from = x + seq
        BY <3>2
      <4>2. from + i - 1 = x + (seq + i) - 1
        BY <3>1, <4>0
      <4> QED BY <4>1, <4>2
    <3>4. subs'[s].seq = seq + n
      BY <3>0
    <3> QED BY <3>2, <3>3, <3>4, Zenon
  <2> QED BY <2>1, <2>2 DEF GoodFrame
<1> QED BY <1>2, <1>3 DEF GoodFrames

LEMMA OnEventFrames ==
    ASSUME TypeOK, FramesOK, NEW s \in Subs, OnEvent(s)
    PROVE  TypesKept
<1>1. TypeOK' /\ EventEffect(s)
  BY OnEventFacts
<1>2. /\ UNCHANGED daemon /\ conn' = conn /\ up' = up /\ calls' = calls /\ events[s] # <<>>
      /\ Len(events'[s]) = Len(events[s]) - 1 /\ \A i \in 1..(Len(events[s]) - 1) : events'[s][i] = events[s][i + 1]
      /\ \A r \in Subs : r # s => events'[r] = events[r]
  BY <1>1 DEF EventEffect
<1>3. Kept /\ Subs' = Subs /\ subs' = subs
  BY <1>2, KeptSame, DaemonSame
<1>4. events[s] \in Seq(Frame) /\ EventsOf(s)
  BY SubFacts DEF FramesOK, EventsOK
<1>5. Len(events[s]) \in Nat /\ 1 \in 1..Len(events[s]) /\ events[s][1] \in Frame
  BY <1>2, <1>4
<1>6. GoodFrame(events[s][1])
  BY <1>4, <1>5 DEF EventsOf, SubEvents
<1>7. EventsOK'
  <2> SUFFICES ASSUME NEW r \in Subs PROVE EventsOf(r)'
    BY <1>3 DEF EventsOK
  <2>1. CASE r # s
    BY <1>2, <1>3, <2>1, EventsKept
  <2>2. CASE r = s
    <3>1. SubEvents(s, events[s])'
      <4> SUFFICES ASSUME NEW i \in 1..Len(events'[s])
                   PROVE  /\ GoodFrame(events[s][i])' /\ events'[s][i].sub = s
                          /\ events'[s][i].seq = subs'[s].seq - Len(events'[s]) + i
        BY DEF SubEvents
      <4>1. i + 1 \in 1..Len(events[s]) /\ i \in 1..(Len(events[s]) - 1) /\ i \in Nat
        BY <1>2, <1>5
      <4>2. events'[s][i] = events[s][i + 1]
        BY <1>2, <4>1
      <4>3. PICK m \in Frame : m = events[s][i + 1] /\ GoodFrame(m)' /\ m.sub = s /\ m.seq = subs[s].seq - Len(events[s]) + (i + 1)
        BY <1>3, <4>1, OldFrames
      <4>4. m = events'[s][i]
        BY <4>2, <4>3
      <4>5. m.seq = subs'[s].seq - Len(events'[s]) + i
        <5>1. subs[s].seq \in Nat
          BY SubFacts
        <5>2. subs'[s].seq = subs[s].seq
          BY <1>3
        <5>3. PICK n \in Nat, k \in Nat : n = subs[s].seq /\ k = Len(events[s])
          BY <1>5, <5>1
        <5>4. m.seq = n - k + (i + 1) /\ Len(events'[s]) = k - 1
          BY <1>2, <4>3, <5>3
        <5>5. n - k + (i + 1) = n - (k - 1) + i
          BY <4>1
        <5> QED BY <5>2, <5>3, <5>4, <5>5
      <4> QED BY <4>3, <4>4, <4>5 DEF GoodFrame
    <3>2. up' /\ subs'[s].conn \in {0, conn'}
      BY <1>2, <1>3, <1>4 DEF EventsOf
    <3> QED BY <2>2, <3>1, <3>2 DEF EventsOf
  <2> QED BY <2>1, <2>2
<1>8. HeldOK'
  <2>1. CASE Holds
    <3>1. bound \in Runs /\ Moves(bound, est[bound].pc, est[bound].gen, est[bound].how, est[bound].cursor,
                                  Append(est[bound].pending, events[s][1]), est[bound].code)
      BY <1>1, <2>1, RunNames DEF EventEffect
    <3>2. AllGood(Append(est[bound].pending, events[s][1]))
      BY <1>5, <1>6, <3>1, AppendGood
    <3> QED BY <1>3, <3>1, <3>2, HeldMoves
  <2>2. CASE ~Holds
    <3>1. est' = est
      BY <1>1, <2>2 DEF EventEffect
    <3> QED BY <1>3, <3>1, HeldSame
  <2> QED BY <2>1, <2>2
<1>9. ChainOK'
  <2>1. CASE Takes(s)
    <3>1. /\ chain' \in Seq([frame : Frame, gen : Nat]) /\ Len(chain') = Len(chain) + 1
          /\ chain'[Len(chain) + 1].frame = events[s][1] /\ \A i \in 1..Len(chain) : chain'[i] = chain[i]
      BY <1>1, <2>1 DEF EventEffect
    <3>2. Len(chain) \in Nat
      BY ViewFacts
    <3>3. \A i \in 1..Len(chain') : GoodFrame(chain'[i].frame) \/ \E j \in 1..Len(chain) : chain'[i] = chain[j]
      <4> TAKE i \in 1..Len(chain')
      <4>1. i \in 1..Len(chain) \/ i = Len(chain) + 1
        BY <3>1, <3>2
      <4>2. CASE i \in 1..Len(chain)
        BY <3>1, <4>2
      <4>3. CASE i = Len(chain) + 1
        BY <1>6, <3>1, <4>3
      <4> QED BY <4>1, <4>2, <4>3
    <3> QED BY <1>3, <3>1, <3>3, ChainMoves
  <2>2. CASE ~Takes(s)
    <3>1. chain' = chain
      BY <1>1, <2>2 DEF EventEffect
    <3> QED BY <1>3, <3>1, ChainSameOK
  <2> QED BY <2>1, <2>2
<1>10. SentUp'
  BY <1>2, SentSame
<1> QED BY <1>1, <1>7, <1>8, <1>9, <1>10 DEF TypesKept, FramesOK

ViewKept == UNCHANGED <<view, est, chain, stage, hello, history>>

\* A step of the daemon leaves what the client holds as it is.
LEMMA DaemonFrames ==
    ASSUME TypeOK, FramesOK, DaemonTypeOK', ChannelTypeOK', SubsKept, ViewKept, EventsOK', SentUp'
    PROVE  TypesKept
<1>1. UNCHANGED <<view, est, chain, stage, history>> /\ hello' = hello /\ est' = est /\ chain' = chain
  BY DEF ViewKept
<1>2. hello' \in Nat
  BY <1>1, ViewFacts
<1>3. Len(subs') \in Nat /\ Len(subs) <= Len(subs')
  BY DEF DaemonTypeOK, SubsKept
<1>4. ViewTypeOK'
  BY <1>1, <1>2, <1>3, SameView
<1>5. Kept
  BY KeptByDaemon
<1>6. HeldOK' /\ ChainOK'
  BY <1>1, <1>5, HeldSame, ChainSameOK
<1> QED BY <1>4, <1>6 DEF TypesKept, FramesOK, TypeOK

\* No subscription sends anything.
LEMMA SilentFrames ==
    ASSUME TypeOK, FramesOK, DaemonTypeOK', ChannelTypeOK', SubsKept, ViewKept, Subs' = Subs, events' = events,
           up' = up, conn' = conn, SentUp', \A s \in Subs : subs'[s].seq = subs[s].seq
    PROVE  TypesKept
<1>1. Kept
  BY KeptByDaemon
<1>2. ASSUME NEW s \in Subs PROVE EventsOf(s)'
  <2>1. subs'[s].conn \in {subs[s].conn, 0}
    BY DEF SubsKept
  <2> QED BY <1>1, <2>1, EventsKept
<1>3. EventsOK'
  BY <1>2 DEF EventsOK
<1> QED BY <1>3, DaemonFrames

LEMMA SilentActions ==
    ASSUME TypeOK, FramesOK, ViewKept, NEW t \in Activities,
           SubscribeRefused(t) \/ SnapshotPage(t) \/ AcknowledgeRefused(t) \/ Unsubscribe(t)
    PROVE  TypesKept
<1>1. CASE SubscribeRefused(t)
  <2>1. /\ DaemonTypeOK' /\ ChannelTypeOK' /\ SubsKept /\ UNCHANGED <<subs, events>>
        /\ Responded(t, "error", calls[t].sub, 0, 0, "snapshot_required")
    BY <1>1, SubscribeRefusedFacts
  <2>2. SentUp' /\ up' = up /\ conn' = conn
    BY <2>1, SentResponded DEF Responded
  <2>3. Subs' = Subs /\ \A s \in Subs : subs'[s].seq = subs[s].seq
    BY <2>1 DEF Subs
  <2> QED BY <2>1, <2>2, <2>3, SilentFrames
<1>2. CASE SnapshotPage(t)
  <2>0. PICK s : s = calls[t].sub
    OBVIOUS
  <2>1. /\ DaemonTypeOK' /\ ChannelTypeOK' /\ SubsKept /\ events' = events /\ Subs' = Subs
        /\ \A r \in Subs : subs'[r].seq = subs[r].seq
        /\ Responded(t, "error", s, 0, 0, "snapshot_required") \/ Responded(t, "page", s, calls[t].start, subs[s].snap, "")
    BY <1>2, <2>0, SnapshotPageFacts
  <2>2. SentUp' /\ up' = up /\ conn' = conn
    BY <2>1, SentResponded DEF Responded
  <2> QED BY <2>1, <2>2, SilentFrames
<1>3. CASE AcknowledgeRefused(t)
  <2>1. /\ DaemonTypeOK' /\ ChannelTypeOK' /\ SubsKept /\ UNCHANGED <<subs, events>>
        /\ Responded(t, "error", calls[t].sub, 0, 0, AckRefusal(calls[t].sub, calls[t].cursor))
    BY <1>3, AcknowledgeRefusedFacts
  <2>2. SentUp' /\ up' = up /\ conn' = conn
    BY <2>1, SentResponded DEF Responded
  <2>3. Subs' = Subs /\ \A s \in Subs : subs'[s].seq = subs[s].seq
    BY <2>1 DEF Subs
  <2> QED BY <2>1, <2>2, <2>3, SilentFrames
<1>4. CASE Unsubscribe(t)
  <2>0. PICK s : s = calls[t].sub
    OBVIOUS
  <2>1. /\ DaemonTypeOK' /\ ChannelTypeOK' /\ SubsKept /\ events' = events /\ Subs' = Subs
        /\ \A r \in Subs : subs'[r].seq = subs[r].seq
        /\ Responded(t, "unsubscribed", s, 0, 0, "") \/ Responded(t, "error", s, 0, 0, "unknown_subscription")
    BY <1>4, <2>0, UnsubscribeFacts
  <2>2. SentUp' /\ up' = up /\ conn' = conn
    BY <2>1, SentResponded DEF Responded
  <2> QED BY <2>1, <2>2, SilentFrames
<1> QED BY <1>1, <1>2, <1>3, <1>4

LEMMA TimeActions ==
    ASSUME TypeOK, FramesOK, ViewKept,
           \/ \E c \in 1..conn : ConnectionClosed(c)
           \/ CursorExpires \/ OtherCursor
           \/ \E s \in Subs : SnapshotExpires(s)
    PROVE  TypesKept
<1>1. ASSUME NEW c \in 1..conn, ConnectionClosed(c) PROVE TypesKept
  <2>1. /\ DaemonTypeOK' /\ ChannelTypeOK' /\ SubsKept /\ UNCHANGED channel /\ Subs' = Subs
        /\ \A r \in Subs : subs'[r].seq = subs[r].seq
    BY <1>1, ConnectionClosedFacts
  <2>2. up' = up /\ conn' = conn /\ events' = events /\ calls' = calls
    BY <2>1 DEF channel
  <2> QED BY <2>1, <2>2, SentSame, SilentFrames
<1>2. CASE CursorExpires
  <2>1. DaemonTypeOK' /\ ChannelTypeOK' /\ SubsKept /\ UNCHANGED <<channel, subs>> /\ Subs' = Subs
    BY <1>2, CursorExpiresFacts
  <2>2. up' = up /\ conn' = conn /\ events' = events /\ calls' = calls
    BY <2>1 DEF channel
  <2> QED BY <2>1, <2>2, SentSame, SilentFrames
<1>3. CASE OtherCursor
  <2>1. DaemonTypeOK' /\ ChannelTypeOK' /\ SubsKept /\ UNCHANGED <<channel, subs>> /\ Subs' = Subs
    BY <1>3, OtherCursorFacts
  <2>2. up' = up /\ conn' = conn /\ events' = events /\ calls' = calls
    BY <2>1 DEF channel
  <2> QED BY <2>1, <2>2, SentSame, SilentFrames
<1>4. ASSUME NEW s \in Subs, SnapshotExpires(s) PROVE TypesKept
  <2>1. /\ DaemonTypeOK' /\ ChannelTypeOK' /\ SubsKept /\ UNCHANGED channel /\ Subs' = Subs
        /\ \A r \in Subs : subs'[r].seq = subs[r].seq
    BY <1>4, SnapshotExpiresFacts
  <2>2. up' = up /\ conn' = conn /\ events' = events /\ calls' = calls
    BY <2>1 DEF channel
  <2> QED BY <2>1, <2>2, SentSame, SilentFrames
<1> QED BY <1>1, <1>2, <1>3, <1>4

LEMMA SubscribeSnapshotFrames ==
    ASSUME TypeOK, FramesOK, ViewKept, NEW t \in Activities, SubscribeSnapshot(t)
    PROVE  TypesKept
<1>1. PICK k : k = Len(subs) + 1
  OBVIOUS
<1>2. /\ DaemonTypeOK' /\ ChannelTypeOK' /\ SubsKept /\ Subs' = Subs \cup {k}
      /\ \A s \in Subs : subs'[s] = subs[s] /\ events'[s] = events[s]
      /\ events'[k] = <<>> /\ calls'[t].state = "done" /\ (\A v \in Activities : v # t => calls'[v] = calls[v])
      /\ up' = up /\ conn' = conn
  BY <1>1, SubscribeSnapshotFacts
<1>3. SentUp'
  BY <1>2 DEF FramesOK, SentUp
<1>4. Kept
  BY <1>2, KeptByDaemon
<1>5. ASSUME NEW s \in Subs PROVE EventsOf(s)'
  BY <1>2, <1>4, EventsKept
<1>6. EventsOf(k)'
  BY <1>2 DEF EventsOf, SubEvents
<1>7. EventsOK'
  BY <1>2, <1>5, <1>6 DEF EventsOK
<1> QED BY <1>2, <1>3, <1>7, DaemonFrames

LEMMA SubscribeResumedFrames ==
    ASSUME TypeOK, FramesOK, ViewKept, NEW t \in Activities, SubscribeResumed(t)
    PROVE  TypesKept
<1>1. PICK k, c, p, n : k = Len(subs) + 1 /\ c = calls[t].cursor /\ p = TailFrom(c) /\ n = TailOf(c)
  OBVIOUS
<1>2. /\ DaemonTypeOK' /\ ChannelTypeOK' /\ SubsKept /\ Subs' = Subs \cup {k}
      /\ p \in 1..log /\ n = log - p /\ n \in Nat
      /\ \A s \in Subs : subs'[s] = subs[s] /\ events'[s] = events[s]
      /\ events'[k] = Frames(k, 0, p, log) /\ Responded(t, "resumed", k, 0, 0, "")
      /\ subs'[k].conn = conn /\ subs'[k].snap = p /\ subs'[k].seq = n /\ subs'[k].phase = "active"
  <2>1. DaemonTypeOK' /\ ChannelTypeOK' /\ SubsKept /\ ResumedEffect(t, k, c, p, n)
    BY <1>1, SubscribeResumedFacts
  <2> QED BY <2>1 DEF ResumedEffect
<1>3. SentUp' /\ up' = up /\ conn' = conn
  BY <1>2, SentResponded DEF Responded
<1>4. Kept
  BY <1>2, KeptByDaemon
<1>5. ASSUME NEW s \in Subs PROVE EventsOf(s)'
  BY <1>2, <1>3, <1>4, EventsKept
<1>6. up
  BY DEF SubscribeResumed, Executes, FramesOK, SentUp
<1>7. EventsOf(k)'
  <2>0. log \in Nat /\ k \in Nat
    BY <1>1 DEF TypeOK, DaemonTypeOK
  <2>1. PICK l \in Nat : l = log
    BY <2>0
  <2>a. p \in 1..l /\ n = l - p /\ n \in Nat
    BY <1>2, <2>1
  <2>b. k \in Subs'
    BY <1>2
  <2>2. p \in Nat /\ l - p \in Nat /\ k \in Nat /\ k \in Subs' /\ n = l - p
    BY <2>0, <2>a, <2>b
  <2>3. PICK e \in Seq(Frame) : /\ e = Frames(k, 0, p, l) /\ Len(e) = l - p
                                /\ \A i \in 1..Len(e) : GoodFrame(e[i])' /\ e[i].sub = k /\ e[i].seq = 0 + i
    <3>1. PICK z \in Nat : z = 0
      OBVIOUS
    <3>a. p + z = p /\ n = z + (l - p)
      BY <2>a, <3>1
    <3>2. subs'[k].snap + z = p /\ subs'[k].seq = z + (l - p) /\ subs'[k].snap \in Nat
      BY <1>2, <2>2, <3>a, Zenon
    <3>3. \E e \in Seq(Frame) : GoodFrames(e, k, z, p, l)
      BY <1>2, <2>0, <2>2, <3>2, FramesGood
    <3> QED BY <3>1, <3>3 DEF GoodFrames
  <2>4. events'[k] = e /\ subs'[k].seq = Len(e)
    BY <1>2, <2>1, <2>2, <2>3
  <2>5. SubEvents(k, events[k])'
    <3> SUFFICES ASSUME NEW i \in 1..Len(e)
                 PROVE  GoodFrame(events[k][i])' /\ events'[k][i].sub = k /\ events'[k][i].seq = subs'[k].seq - Len(events'[k]) + i
      BY <2>4 DEF SubEvents
    <3>1. events'[k][i] = e[i] /\ GoodFrame(e[i])' /\ e[i].sub = k /\ e[i].seq = 0 + i
      BY <2>3, <2>4
    <3>2. 0 + i = subs'[k].seq - Len(events'[k]) + i
      BY <2>4
    <3> QED BY <3>1, <3>2 DEF GoodFrame
  <2> QED BY <1>2, <1>3, <1>6, <2>5 DEF EventsOf
<1>8. EventsOK'
  BY <1>2, <1>5, <1>7 DEF EventsOK
<1> QED BY <1>2, <1>3, <1>8, DaemonFrames

LEMMA AcknowledgeFrames ==
    ASSUME TypeOK, FramesOK, ViewKept, NEW t \in Activities, Acknowledge(t)
    PROVE  TypesKept
<1>1. PICK s, c, k : s = calls[t].sub /\ c = calls[t].cursor /\ k = Sends(s, c)
  OBVIOUS
<1>0. DaemonTypeOK' /\ ChannelTypeOK' /\ SubsKept /\ AcknowledgeEffect(t, s, c, k)
  BY <1>1, AcknowledgeFacts
<1>2. /\ DaemonTypeOK' /\ ChannelTypeOK' /\ SubsKept /\ Subs' = Subs /\ s \in Subs /\ Attached(s)
      /\ k \in Nat /\ (subs[s].phase = "active" => k = 0) /\ (Activates(s, c) => log - k = subs[s].snap)
      /\ \A r \in Subs : r # s => subs'[r] = subs[r] /\ events'[r] = events[r]
      /\ subs'[s].conn = subs[s].conn /\ subs'[s].snap = subs[s].snap /\ subs'[s].seq = subs[s].seq + k
      /\ subs'[s].phase = (IF Activates(s, c) THEN "active" ELSE subs[s].phase)
      /\ events'[s] = events[s] \o Frames(s, subs[s].seq, log - k, log)
  BY <1>0 DEF AcknowledgeEffect
<1>3. Responded(t, "acked", s, 0, 0, "")
  BY ZenonT(60), <1>0 DEF AcknowledgeEffect
<1>4. SentUp' /\ up' = up /\ conn' = conn
  BY ZenonT(60), <1>3, SentResponded DEF Responded
<1>5. up /\ subs[s].conn = conn
  BY Zenon, <1>2 DEF Acknowledge, Executes, FramesOK, SentUp, Attached
<1>6. Kept
  BY <1>2, KeptByDaemon
<1>7. ASSUME NEW r \in Subs, r # s PROVE EventsOf(r)'
  BY <1>2, <1>4, <1>6, <1>7, EventsKept
<1>8. EventsOf(s)'
  <2>0. /\ log \in Nat /\ subs[s].seq \in Nat /\ subs[s].snap \in Nat /\ SubOK(subs[s], log) /\ subs[s].buffered \in Nat
        /\ events[s] \in Seq(Frame) /\ s \in Nat
    BY <1>2, SubFacts DEF TypeOK, DaemonTypeOK
  <2>1. CASE Activates(s, c)
    <3>1. subs[s].seq = 0 /\ log - k = subs[s].snap
      BY <1>2, <2>0, <2>1 DEF Activates, SubOK
    <3>2. PICK l \in Nat, p \in Nat, q \in Nat : l = log /\ p = subs[s].snap /\ q = subs[s].seq
      BY <2>0
    <3>3. l - k = p /\ q = 0
      BY <3>1, <3>2
    <3>4. l - p \in Nat /\ p + q = p /\ q + (l - p) = k /\ k = l - p
      BY <1>2, <3>3
    <3>5. subs'[s].snap + q = p /\ subs'[s].seq = q + (l - p) /\ subs'[s].phase = "active" /\ subs'[s].snap \in Nat /\ s \in Subs'
      BY <1>2, <2>1, <3>2, <3>4
    <3>6. PICK e \in Seq(Frame) : /\ e = Frames(s, q, p, l) /\ Len(e) = l - p
                                  /\ \A i \in 1..Len(e) : GoodFrame(e[i])' /\ e[i].sub = s /\ e[i].seq = q + i
      <4>1. \E e \in Seq(Frame) : GoodFrames(e, s, q, p, l)
        BY <2>0, <3>4, <3>5, FramesGood
      <4> QED BY <4>1 DEF GoodFrames
    <3>7. events'[s] = events[s] \o e
      BY <1>2, <3>1, <3>2, <3>6
    <3>8. /\ \A i \in 1..Len(e) : GoodFrame(e[i])' /\ e[i].sub = s /\ e[i].seq = subs[s].seq + i
          /\ subs'[s].seq = subs[s].seq + Len(e)
      BY <3>2, <3>5, <3>6
    <3> QED BY <1>2, <1>4, <1>5, <1>6, <3>7, <3>8, EventsGrow
  <2>2. CASE ~Activates(s, c)
    <3>1. k = 0
      BY <1>1, <2>2 DEF Sends
    <3>2. log - k = log /\ subs'[s].seq = subs[s].seq
      BY <1>2, <2>0, <3>1
    <3>3. Frames(s, subs[s].seq, log, log) = <<>>
      BY <2>0 DEF Frames
    <3>4. events'[s] = events[s]
      <4>1. events'[s] = events[s] \o <<>>
        BY <1>2, <3>2, <3>3
      <4> QED BY <2>0, <4>1
    <3> QED BY <1>2, <1>4, <1>6, <3>2, <3>4, EventsKept
  <2> QED BY <2>1, <2>2
<1>9. EventsOK'
  BY <1>2, <1>7, <1>8 DEF EventsOK
<1> QED BY <1>2, <1>4, <1>9, DaemonFrames

LEMMA EventStoredKept ==
    ASSUME TypeOK, EventStored
    PROVE  SubsKept /\ Subs' = Subs
<1>1. /\ Len(subs') = Len(subs)
      /\ \A s \in Subs : /\ SameSub(subs'[s], subs[s])
                         /\ Streams(s) => subs'[s].seq = subs[s].seq + 1
                         /\ ~Streams(s) => subs'[s].seq = subs[s].seq
                         /\ Overflows(s) => subs'[s].phase = "invalid"
                         /\ ~Overflows(s) => subs'[s].phase = subs[s].phase
  BY EventStoredSubs
<1>2. ASSUME NEW s \in Subs
      PROVE  /\ subs'[s].snap = subs[s].snap /\ subs'[s].seq >= subs[s].seq
             /\ subs[s].phase = "active" => subs'[s].phase = "active"
             /\ subs'[s].conn \in {subs[s].conn, 0}
  <2>1. subs[s].seq \in Nat
    BY SubFacts
  <2>2. subs'[s].seq >= subs[s].seq
    BY <1>1, <2>1
  <2> QED BY <1>1, <2>2 DEF SameSub, Overflows
<1>3. Len(subs) \in Nat
  BY DEF TypeOK, DaemonTypeOK
<1> QED BY <1>1, <1>2, <1>3 DEF SubsKept, Subs

LEMMA EventStoredFrames ==
    ASSUME TypeOK, FramesOK, ViewKept, EventStored
    PROVE  TypesKept
<1>1. DaemonTypeOK' /\ ChannelTypeOK' /\ SubsKept /\ Subs' = Subs /\ Kept
  BY EventStoredFacts, EventStoredKept, KeptByDaemon
<1>2. up' = up /\ conn' = conn /\ calls' = calls
  BY DEF EventStored
<1>3. SentUp'
  BY <1>2, SentSame
<1>4. ASSUME NEW s \in Subs PROVE EventsOf(s)'
  <2>1. /\ SameSub(subs'[s], subs[s])
        /\ Streams(s) => subs'[s].seq = subs[s].seq + 1
        /\ ~Streams(s) => subs'[s].seq = subs[s].seq
        /\ ~Overflows(s) => subs'[s].phase = subs[s].phase
    BY EventStoredSubs
  <2>2. /\ Streams(s) /\ Reaches(s) =>
             events'[s] = Append(events[s], [sub |-> s, seq |-> subs[s].seq + 1, pos |-> log])
        /\ ~(Streams(s) /\ Reaches(s)) => events'[s] = events[s]
    BY EventStoredFacts
  <2>3. CASE ~Streams(s)
    BY <1>1, <1>2, <2>1, <2>2, <2>3, EventsKept DEF SameSub
  <2>4. CASE Streams(s) /\ ~Reaches(s)
    <3>1. events[s] = <<>>
      <4>1. EventsOf(s)
        BY DEF FramesOK, EventsOK
      <4>2. subs[s].conn # 0 /\ ~(up /\ subs[s].conn = conn)
        BY <2>4 DEF Streams, Reaches, Live
      <4> QED BY <4>1, <4>2 DEF EventsOf
    <3>2. events'[s] = <<>>
      BY <2>2, <2>4, <3>1
    <3> QED BY <3>2 DEF EventsOf, SubEvents
  <2>5. CASE Streams(s) /\ Reaches(s)
    <3> DEFINE m == [sub |-> s, seq |-> subs[s].seq + 1, pos |-> log]
               e == <<m>>
    <3>1. /\ log \in Nat /\ subs[s].seq \in Nat /\ subs[s].snap \in Nat /\ subs[s].buffered \in Nat /\ s \in Nat
          /\ SubOK(subs[s], log) /\ events[s] \in Seq(Frame)
      BY SubFacts DEF TypeOK, DaemonTypeOK
    <3>2. subs[s].phase = "active" /\ subs[s].conn # 0
      BY <2>5 DEF Streams, Live
    <3>3. log = subs[s].snap + subs[s].seq
      <4>1. subs[s].buffered = 0 /\ subs[s].snap + subs[s].seq + subs[s].buffered = log
        BY <3>1, <3>2 DEF SubOK
      <4> QED BY <3>1, <4>1
    <3>4. m \in Frame /\ m.sub = s /\ m.seq = subs[s].seq + 1 /\ m.pos = log
      BY <3>1 DEF Frame
    <3>5. subs'[s].seq = subs[s].seq + 1 /\ subs'[s].snap = subs[s].snap /\ subs'[s].phase = "active"
          /\ subs'[s].conn = subs[s].conn
      BY <2>1, <2>5, <3>2 DEF SameSub, Overflows
    <3>6. \E x \in Frame : x = m /\ GoodFrame(x)'
      <4>1. PICK x \in Frame : x = m
        BY <3>4
      <4>2. x.sub = s /\ x.seq = subs[s].seq + 1 /\ x.pos = log
        BY <3>4, <4>1
      <4> HIDE DEF m
      <4>3. PICK q \in Nat, p \in Nat : q = subs[s].seq /\ p = subs[s].snap
        BY <3>1
      <4>4. x.seq \in 1..(q + 1) /\ x.pos = p + x.seq - 1
        <5>1. x.seq = q + 1 /\ x.pos = p + q
          BY <3>3, <4>2, <4>3
        <5> QED BY <5>1
      <4>5. GoodFrame(x)'
        <5>1. x.sub \in Subs' /\ subs'[x.sub].seq = q + 1 /\ subs'[x.sub].snap = p /\ subs'[x.sub].phase = "active"
          BY <1>1, <3>5, <4>2, <4>3
        <5> QED BY <4>4, <5>1 DEF GoodFrame
      <4> QED BY <4>1, <4>5
    <3> HIDE DEF m
    <3>7. PICK x \in Frame : x = m /\ GoodFrame(x)'
      BY <3>6
    <3>8. PICK y \in Seq(Frame) : y = <<x>> /\ Len(y) = 1 /\ y[1] = x
      <4>1. <<x>> \in Seq(Frame) /\ Len(<<x>>) = 1 /\ <<x>>[1] = x
        OBVIOUS
      <4> QED BY <4>1, Zenon
    <3>9. events'[s] = events[s] \o y
      <4>1. events'[s] = Append(events[s], x)
        BY <2>2, <2>5, <3>7 DEF m
      <4> QED BY SMTT(40), <3>1, <3>8, <4>1
    <3>10. \A i \in 1..Len(y) : GoodFrame(y[i])' /\ y[i].sub = s /\ y[i].seq = subs[s].seq + i
      <4> TAKE i \in 1..Len(y)
      <4>1. i = 1 /\ y[i] = x
        BY <3>8
      <4>2. x.sub = s /\ x.seq = subs[s].seq + 1
        BY <3>4, <3>7
      <4> QED BY <3>7, <4>1, <4>2
    <3>11. subs'[s].seq = subs[s].seq + Len(y) /\ up' /\ subs'[s].conn = conn'
      BY <1>2, <2>5, <3>5, <3>8 DEF Reaches
    <3> QED BY <1>1, <3>9, <3>10, <3>11, EventsGrow
  <2> QED BY <2>3, <2>4, <2>5
<1>5. EventsOK'
  BY <1>1, <1>4 DEF EventsOK
<1> QED BY <1>1, <1>3, <1>5, DaemonFrames

LEMMA DaemonActions ==
    ASSUME TypeOK, FramesOK, DaemonStep
    PROVE  TypesKept
<1>1. ViewKept /\ DaemonNext
  BY DEF DaemonStep, ViewKept
<1>2. CASE EventStored
  BY <1>1, <1>2, EventStoredFrames
<1>3. ASSUME NEW t \in Activities,
             \/ SubscribeSnapshot(t) \/ SubscribeResumed(t) \/ SubscribeRefused(t)
             \/ SnapshotPage(t) \/ Acknowledge(t) \/ AcknowledgeRefused(t) \/ Unsubscribe(t)
      PROVE  TypesKept
  BY <1>1, <1>3, SubscribeSnapshotFrames, SubscribeResumedFrames, SilentActions,
     AcknowledgeFrames
<1>4. CASE \/ \E c \in 1..conn : ConnectionClosed(c)
           \/ CursorExpires \/ OtherCursor
           \/ \E s \in Subs : SnapshotExpires(s)
  BY <1>1, <1>4, TimeActions
<1> QED BY <1>1, <1>2, <1>3, <1>4 DEF DaemonNext

LEMMA InitTypes == Init => TypeOK /\ FramesOK
<1> SUFFICES ASSUME Init PROVE TypeOK /\ FramesOK
  OBVIOUS
<1>0. FirstEvents \in Nat /\ FirstEvents >= 1 /\ log = FirstEvents
  BY SubscriptionBounds DEF SubscriptionBounds, Init
<1>1. log \in Nat /\ log >= 1 /\ made = 1 /\ instance = 1 /\ hello = 1 /\ conn = 1 /\ up = TRUE /\ faults = 0
  BY <1>0 DEF Init
<1> DEFINE x == [conn |-> 1, phase |-> "active", snap |-> log, buffered |-> 0, seq |-> 0, acked |-> <<1, log - 1>>]
           r == [NewCursor(1, log - 1, 1) EXCEPT !.state = "acked"]
<1>2. <<1, log - 1>> \in Cursor
  BY <1>1 DEF Cursor
<1>3. x \in Sub /\ SubOK(x, log) /\ x.conn = 1 /\ x.seq = 0
  BY <1>1, <1>2 DEF Sub, SubOK, CursorOrNone
<1>4. r \in Record /\ r.id = <<1, log - 1>>
  BY <1>1, <1>2 DEF NewCursor, Record
<1>5. subs = <<x>> /\ cursors = {r}
  BY DEF Init
<1> HIDE DEF x, r
<1>6. subs \in Seq(Sub) /\ Len(subs) = 1 /\ subs[1] = x /\ Subs = {1}
  BY <1>3, <1>5 DEF Subs
<1>7. DaemonTypeOK
  <2>1. IsFiniteSet(cursors) /\ cursors \subseteq Record
    BY <1>4, <1>5, FS_Singleton
  <2>2. ASSUME NEW q \in cursors PROVE q.id[2] \in 0..(log - 1)
    BY <1>1, <1>4, <1>5
  <2> QED BY <1>1, <1>3, <1>6, <2>1, <2>2 DEF DaemonTypeOK
<1>8. calls = [t \in Activities |-> NoCall] /\ events = << <<>> >> /\ est = [t \in Runs |-> Idle] /\ chain = <<>>
  BY DEF Init
<1>9. events \in Seq(Seq(Frame)) /\ Len(events) = 1 /\ events[1] = <<>>
  <2>1. <<>> \in Seq(Frame)
    OBVIOUS
  <2> QED BY <1>8, <2>1
<1>10. ChannelTypeOK
  <2>1. calls \in [Activities -> Call] /\ \A v \in Activities : calls[v].sub \in 0..Len(subs)
    <3>1. 0 \in 0..Len(subs)
      BY <1>6
    <3> QED BY <1>8, <3>1, NoCallType, NoCallFields
  <2> QED BY <1>1, <1>3, <1>6, <1>9, <2>1 DEF ChannelTypeOK
<1>11. Idle \in Run /\ Idle.pc = "idle" /\ Idle.pending = <<>>
  BY DEF Idle, At, Run, Stages, Codes, CursorOrNone
<1>12. /\ proj = 0..(log - 1) /\ gen = 1 /\ bound = "main" /\ curSub = 1 /\ acked = <<1, log - 1>> /\ lineage = 1
       /\ seqNo = 0 /\ hook = TRUE /\ closed = FALSE /\ stage = "next" /\ reported = FALSE /\ overrun = FALSE
  BY DEF Init
<1>13. est \in [Runs -> Run] /\ \A t \in Runs : est[t].pc = "idle" /\ est[t].pending = <<>>
  BY <1>8, <1>11
<1>14. proj \subseteq Nat /\ acked \in CursorOrNone /\ curSub \in 0..Len(subs)
  BY <1>1, <1>2, <1>6, <1>12 DEF CursorOrNone
<1>15. ViewTypeOK
  <2>1. chain \in Seq([frame : Frame, gen : Nat])
    BY <1>8
  <2>2. \A t \in Runs : est[t].pc \in {"reduced", "acking"} => est[t].pending # <<>>
    BY <1>13
  <2> QED BY <1>1, <1>12, <1>13, <1>14, <2>1, <2>2 DEF ViewTypeOK
<1>16. FramesOK
  <2>1. EventsOK
    BY <1>6, <1>9 DEF EventsOK, EventsOf, SubEvents
  <2>2. HeldOK /\ ChainOK
    BY <1>8, <1>13 DEF HeldOK, ChainOK
  <2>3. SentUp
    BY <1>1 DEF SentUp
  <2> QED BY <2>1, <2>2, <2>3 DEF FramesOK
<1> QED BY <1>7, <1>10, <1>15, <1>16 DEF TypeOK

LEMMA NextTypes == TypeOK /\ FramesOK /\ [Next]_vars => TypeOK' /\ FramesOK'
<1> SUFFICES ASSUME TypeOK, FramesOK, [Next]_vars PROVE TypesKept
  BY DEF TypesKept
<1>1. CASE DaemonStep
  BY <1>1, DaemonActions
<1>2. CASE ViewNext
  <2>1. CASE Join \/ JoinClosed \/ OnReleased \/ CloseUnsubscribes \/ OnClosed
    BY <2>1, OtherActions
  <2>2. CASE \E t \in {"main", "recovery"} : EstablishNext(t)
    BY <2>2, RunActions
  <2>3. CASE \E s \in Subs : OnEvent(s)
    BY <2>3, OnEventFrames
  <2>4. CASE DeliverSkip \/ DeliverReduce \/ DeliverFails \/ DeliverAck \/ OnAcked \/ OnAckError
    BY <2>4, DeliveryActions
  <2> QED BY <1>2, <2>1, <2>2, <2>3, <2>4 DEF ViewNext
<1>3. CASE Drop \/ DaemonRestarts \/ Reconnect \/ Rebind
  BY <1>3, ConnectionActions
<1>4. CASE Close
  BY <1>4, OtherActions
<1>5. CASE UNCHANGED vars
  <2>1. /\ UNCHANGED <<daemon, channel, faults, view, est, chain, stage, hello, history>>
    BY <1>5 DEF vars
  <2>2. UNCHANGED <<daemon, events, up, conn, calls, faults>> /\ est' = est /\ chain' = chain
    BY <2>1 DEF channel
  <2>3. ChannelTypeOK' /\ DaemonTypeOK' /\ subs' = subs /\ Kept
    BY <2>1, ChannelSame, DaemonSame, KeptSame DEF channel
  <2>4. ViewTypeOK'
    <3>1. hello' \in Nat /\ Len(subs') \in Nat /\ Len(subs) <= Len(subs')
      BY <2>1, <2>3, ViewFacts DEF TypeOK, DaemonTypeOK
    <3> QED BY <2>1, <3>1, SameView
  <2>5. EventsOK' /\ HeldOK' /\ ChainOK' /\ SentUp'
    BY <2>2, <2>3, EventsSame, HeldSame, ChainSameOK, SentSame
  <2> QED BY <2>3, <2>4, <2>5 DEF TypesKept, TypeOK, FramesOK
<1> QED BY <1>1, <1>2, <1>3, <1>4, <1>5 DEF Next

\* Every frame carries the event its sequence number stands for, wherever it is: sent by
\* deliverEvent and on its way, held back by establish() or chained by enqueueEvent; the frames
\* of a subscription on their way are its last ones, in order; and a live subscription has sent
\* or buffered every event since its snapshot (bufferSnapshotEvent, activateReadySubscriptions).
\* So the sequence check of applyEvent decides about events and not about numbers.
THEOREM FramesCorrect == Spec => [](TypeOK /\ FramesOK)
<1>1. Init => TypeOK /\ FramesOK
  BY InitTypes
<1>2. TypeOK /\ FramesOK /\ [Next]_vars => (TypeOK /\ FramesOK)'
  BY NextTypes
<1> QED BY <1>1, <1>2, PTL DEF Spec

(***************************************************************************)
(* LossReported                                                            *)
(***************************************************************************)
\* A view without its listener has told the application, or a run of establish() that
\* failed is still on its way to doing so.
Cleaning == \E t \in {"main", "recovery"} : est[t].pc = "cleaning"
ClosingOK == est["close"].pc # "idle" => closed
ToldOK == ~closed /\ bound = "nobody" => reported \/ Cleaning
LossInv == ClosingOK /\ ToldOK

\* Only run t moves.
Only(t) == \A v \in Runs : v # t => est'[v] = est[v]

\* Run t moves on, and the listener is not lost silently.
LEMMA LossMoves ==
    ASSUME LossInv, NEW t \in {"main", "recovery"}, Only(t), closed' = closed,
           \/ reported' \/ bound' # "nobody" \/ est'[t].pc = "cleaning"
           \/ bound' = bound /\ reported' = reported /\ est[t].pc # "cleaning"
    PROVE  LossInv'
<1>2. t \in Runs /\ "close" \in Runs /\ t # "close" /\ "main" \in Runs /\ "recovery" \in Runs
  BY DEF Runs
<1>3. ClosingOK'
  BY <1>2 DEF LossInv, ClosingOK, Only
<1>4. ToldOK'
  <2>1. CASE reported' \/ bound' # "nobody"
    BY <2>1 DEF ToldOK
  <2>2. CASE est'[t].pc = "cleaning"
    BY <2>2 DEF ToldOK, Cleaning
  <2>3. CASE bound' = bound /\ reported' = reported /\ est[t].pc # "cleaning"
    <3>1. Cleaning => Cleaning'
      BY <1>2, <2>3 DEF Cleaning, Only
    <3> QED BY <2>3, <3>1 DEF LossInv, ToldOK
  <2> QED BY <2>1, <2>2, <2>3
<1> QED BY <1>3, <1>4 DEF LossInv

LEMMA LossSame ==
    ASSUME LossInv, closed' = closed, est' = est, reported' \/ (bound' = bound /\ reported' = reported)
    PROVE  LossInv'
BY DEF LossInv, ClosingOK, ToldOK, Cleaning

LEMMA OnlyMoves ==
    ASSUME NEW t, NEW pc, NEW g, NEW how, NEW c, NEW q, NEW code, Moves(t, pc, g, how, c, q, code)
    PROVE  Only(t) /\ est'[t].pc = pc
BY DEF Moves, Only

LEMMA LossThrow ==
    ASSUME LossInv, NEW t \in {"main", "recovery"}, ThrowEffect(t), closed' = closed
    PROVE  LossInv'
<1>1. Only(t) /\ reported'
  BY OnlyMoves DEF ThrowEffect
<1> QED BY <1>1, LossMoves

LEMMA LossEstablish ==
    ASSUME LossInv, NEW u, NEW t \in {"main", "recovery"}, NEW g, NEW how, NEW p, NEW a,
           EstablishEffect(u, t, g, how, p, a)
    PROVE  LossInv'
<1>1. Only(t) /\ bound' = t /\ closed' = closed
  BY OnlyMoves DEF EstablishEffect
<1> QED BY <1>1, LossMoves

LEMMA LossCleanup ==
    ASSUME LossInv, NEW t \in {"main", "recovery"}, NEW code, CleanupEffect(t, code), closed' = closed
    PROVE  LossInv'
<1>1. Only(t) /\ est'[t].pc = "cleaning"
  BY OnlyMoves DEF CleanupEffect
<1> QED BY <1>1, LossMoves

LEMMA OnlyLoads ==
    ASSUME NEW t, LoadEffect(t)
    PROVE  Only(t)
BY OnlyMoves DEF LoadEffect, Keeps, Stops

LEMMA LossRuns ==
    ASSUME TypeOK, FramesOK, LossInv, NEW t \in {"main", "recovery"}, EstablishNext(t)
    PROVE  LossInv'
<1> DEFINE Quietly == Only(t) /\ UNCHANGED <<closed, bound, reported>> /\ est[t].pc # "cleaning"
<1>0. Quietly => LossInv'
  BY LossMoves
<1>1. CASE OnSnapshot(t)
  <2>1. Quietly
    BY <1>1, OnSnapshotFacts, OnlyLoads DEF history, Received
  <2> QED BY <1>0, <2>1
<1>2. CASE OnPage(t)
  <2>1. /\ Received(t, "page", "paging") /\ UNCHANGED <<closed, reported>>
        /\ CleanupEffect(t, "missing_parent") \/ (LoadEffect(t) /\ bound' = bound)
    BY <1>2, OnPageFacts
  <2>2. CASE CleanupEffect(t, "missing_parent")
    BY <2>1, <2>2, LossCleanup
  <2>3. CASE LoadEffect(t) /\ bound' = bound
    <3>1. Quietly
      BY <2>1, <2>3, OnlyLoads DEF Received
    <3> QED BY <1>0, <3>1
  <2> QED BY <2>1, <2>2, <2>3
<1>3. CASE OnResumed(t)
  <2>1. Quietly
    BY <1>3, OnResumedFacts, OnlyMoves DEF history, Received, Keeps, Stops
  <2> QED BY <1>0, <2>1
<1>4. CASE OnBoundary(t)
  <2>1. Quietly
    BY <1>4, OnBoundaryFacts, OnlyMoves DEF history, Received, Keeps, Stops
  <2> QED BY <1>0, <2>1
<1>5. CASE OnRefused(t)
  <2>1. /\ Received(t, "error", "subscribing") /\ closed' = closed
        /\ \/ /\ Moves(t, "subscribing", est[t].gen, est[t].how, None, est[t].pending, est[t].code)
              /\ UNCHANGED <<bound, reported>>
           \/ ThrowEffect(t)
    BY <1>5, OnRefusedFacts
  <2>2. CASE ThrowEffect(t)
    BY <2>1, <2>2, LossThrow
  <2>3. CASE /\ Moves(t, "subscribing", est[t].gen, est[t].how, None, est[t].pending, est[t].code)
             /\ UNCHANGED <<bound, reported>>
    <3>1. Quietly
      BY <2>1, <2>3, OnlyMoves DEF Received
    <3> QED BY <1>0, <3>1
  <2> QED BY <2>1, <2>2, <2>3
<1>6. CASE OnLoadError(t)
  <2>1. CleanupEffect(t, calls[t].code) /\ closed' = closed
    BY <1>6, OnLoadErrorFacts
  <2> QED BY <2>1, LossCleanup
<1>7. CASE OnCleaned(t)
  <2>1. \/ EstablishEffect(t, t, gen + 1, "snapshot", {}, None)
        \/ ThrowEffect(t) /\ UNCHANGED view
    BY <1>7, OnCleanedFacts
  <2> QED BY <2>1, LossEstablish, LossThrow DEF view
<1>8. CASE OnCleanupFailed(t)
  <2>1. ThrowEffect(t) /\ closed' = closed
    BY <1>8, OnCleanupFailedFacts DEF view
  <2> QED BY <2>1, LossThrow
<1>9. CASE DrainSkip(t)
  <2>1. Quietly
    BY <1>9, DrainSkipFacts, OnlyMoves DEF history, view, Drains
  <2> QED BY <1>0, <2>1
<1>10. CASE DrainReduce(t)
  <2>1. /\ Drains(t) /\ UNCHANGED <<closed, reported>>
        /\ \/ Keeps(t, "reduced") /\ bound' = bound
           \/ CleanupEffect(t, Rejected(Held(t)))
    BY <1>10, DrainReduceFacts
  <2>2. CASE CleanupEffect(t, Rejected(Held(t)))
    BY <2>1, <2>2, LossCleanup
  <2>3. CASE Keeps(t, "reduced") /\ bound' = bound
    <3>1. Quietly
      BY <2>1, <2>3, OnlyMoves DEF Drains, Keeps
    <3> QED BY <1>0, <3>1
  <2> QED BY <2>1, <2>2, <2>3
<1>11. CASE DrainAck(t)
  <2>1. Quietly
    BY <1>11, DrainAckFacts, OnlyMoves DEF Keeps
  <2> QED BY <1>0, <2>1
<1>12. CASE OnDrainAcked(t)
  <2>1. Quietly
    BY <1>12, OnDrainAckedFacts, OnlyMoves DEF history, Received
  <2> QED BY <1>0, <2>1
<1>13. CASE Established(t)
  <2>1. Quietly
    BY <1>13, EstablishedFacts, OnlyMoves DEF history, Drains
  <2> QED BY <1>0, <2>1
<1> QED BY <1>1, <1>2, <1>3, <1>4, <1>5, <1>6, <1>7, <1>8, <1>9, <1>10, <1>11, <1>12, <1>13 DEF EstablishNext

LEMMA LossFailed ==
    ASSUME LossInv, NEW code, FailedEffect(code)
    PROVE  LossInv'
<1>1. \/ RecoverEffect(RecoverHow(code))
      \/ reported' = TRUE /\ UNCHANGED <<closed, est>>
  BY DEF FailedEffect
<1>2. CASE reported' = TRUE /\ UNCHANGED <<closed, est>>
  BY <1>2, LossSame
<1>3. CASE RecoverEffect(RecoverHow(code))
  <2>1. PICK how : how = RecoverHow(code)
    OBVIOUS
  <2>2. \/ reported' = TRUE /\ UNCHANGED <<view, est>>
        \/ reported' = TRUE /\ closed' = closed /\ Moves("recovery", "unsubscribing", 0, how, None, <<>>, "")
        \/ EstablishEffect("delivery", "recovery", gen + 2, how, proj, acked)
    BY <1>3, <2>1 DEF RecoverEffect
  <2>3. CASE reported' = TRUE /\ UNCHANGED <<view, est>>
    BY <2>3, LossSame DEF view
  <2>4. CASE reported' = TRUE /\ closed' = closed /\ Moves("recovery", "unsubscribing", 0, how, None, <<>>, "")
    <3>1. Only("recovery")
      BY <2>4, OnlyMoves
    <3> QED BY <2>4, <3>1, LossMoves
  <2>5. CASE EstablishEffect("delivery", "recovery", gen + 2, how, proj, acked)
    BY <2>5, LossEstablish
  <2> QED BY <2>2, <2>3, <2>4, <2>5
<1> QED BY <1>1, <1>2, <1>3

LEMMA LossDeliveries ==
    ASSUME TypeOK, FramesOK, LossInv,
           DeliverSkip \/ DeliverReduce \/ DeliverFails \/ DeliverAck \/ OnAcked \/ OnAckError
    PROVE  LossInv'
<1>1. CASE DeliverSkip
  BY <1>1, DeliverSkipFacts, LossSame DEF view, history
<1>2. CASE DeliverReduce
  BY <1>2, DeliverReduceFacts, LossSame DEF history
<1>3. CASE DeliverFails
  BY <1>3, DeliverFailsFacts, LossFailed
<1>4. CASE DeliverAck
  BY <1>4, DeliverAckFacts, LossSame
<1>5. CASE OnAcked
  BY <1>5, OnAckedFacts, LossSame DEF history
<1>6. CASE OnAckError
  <2>1. FailedEffect(calls["delivery"].code) \/ UNCHANGED <<view, est, reported>>
    BY <1>6, OnAckErrorFacts
  <2> QED BY <2>1, LossFailed, LossSame DEF view
<1> QED BY <1>1, <1>2, <1>3, <1>4, <1>5, <1>6

LEMMA LossOthers ==
    ASSUME TypeOK, LossInv, Join \/ JoinClosed \/ OnReleased \/ CloseUnsubscribes \/ OnClosed \/ Close
    PROVE  LossInv'
<1>1. CASE Join
  BY <1>1, JoinFacts, LossEstablish
<1>2. CASE JoinClosed
  BY <1>2, JoinClosedFacts, LossThrow DEF view
<1>3. CASE OnReleased
  BY <1>3, OnReleasedFacts, LossEstablish
<1>4. CASE CloseUnsubscribes
  <2>1. closed /\ closed' = closed
    BY <1>4, CloseUnsubscribesFacts DEF LossInv, ClosingOK
  <2> QED BY <2>1 DEF LossInv, ClosingOK, ToldOK
<1>5. CASE OnClosed
  <2>1. /\ Only("close") /\ est'["close"].pc = "idle" /\ UNCHANGED <<closed, bound, reported>>
    BY <1>5, OnClosedFacts, OnlyMoves DEF view, history
  <2>2. Cleaning => Cleaning'
    BY <2>1 DEF Cleaning, Only, Runs
  <2> QED BY <2>1, <2>2 DEF LossInv, ClosingOK, ToldOK
<1>6. CASE Close
  <2>1. closed'
    BY <1>6, CloseFacts
  <2> QED BY <2>1 DEF LossInv, ClosingOK, ToldOK
<1> QED BY <1>1, <1>2, <1>3, <1>4, <1>5, <1>6

LEMMA LossConnections ==
    ASSUME TypeOK, LossInv, Drop \/ DaemonRestarts \/ Reconnect \/ Rebind
    PROVE  LossInv'
<1>1. CASE Drop
  BY <1>1, DropFacts, LossSame DEF view, history
<1>2. CASE DaemonRestarts
  BY <1>2, DaemonRestartsFacts, LossSame DEF view, history
<1>3. CASE Reconnect \/ Rebind
  <2>1. /\ est["main"].pc = "idle" /\ UNCHANGED <<closed, bound, reported>>
        /\ est' = est \/ Moves("main", "joining", 0, "resume", None, <<>>, "")
    BY <1>3, ConnectFacts DEF ConnectEffect, view, history
  <2>2. est' = est \/ Only("main")
    BY <2>1, OnlyMoves
  <2> QED BY <2>1, <2>2, LossSame, LossMoves
<1> QED BY <1>1, <1>2, <1>3

LEMMA NextLoss == TypeOK /\ FramesOK /\ LossInv /\ [Next]_vars => LossInv'
<1> SUFFICES ASSUME TypeOK, FramesOK, LossInv, [Next]_vars PROVE LossInv'
  OBVIOUS
<1>1. CASE DaemonStep \/ UNCHANGED vars
  BY <1>1, LossSame DEF DaemonStep, view, history, vars
<1>2. CASE ViewNext
  <2>1. CASE \E s \in Subs : OnEvent(s)
    <3>1. PICK s \in Subs : OnEvent(s)
      BY <2>1
    <3>2. EventEffect(s)
      BY <3>1, OnEventFacts
    <3>3. UNCHANGED <<closed, bound, reported>>
      BY <3>2 DEF EventEffect, view, history
    <3>4. CASE ~Holds
      BY <3>2, <3>3, <3>4, LossSame DEF EventEffect
    <3>5. CASE Holds
      <4>1. bound \in {"main", "recovery"} /\ bound # "nobody"
        BY <3>2, <3>5 DEF EventEffect
      <4>2. PICK t \in {"main", "recovery"} : t = bound
        BY <4>1
      <4>3. Only(t)
        BY <3>2, <3>5, <4>2, OnlyMoves DEF EventEffect
      <4> QED BY <3>3, <4>1, <4>2, <4>3, LossMoves
    <3> QED BY <3>4, <3>5
  <2> QED BY <1>2, <2>1, LossRuns, LossDeliveries, LossOthers DEF ViewNext
<1>3. CASE Drop \/ DaemonRestarts \/ Reconnect \/ Rebind \/ Close
  BY <1>3, LossConnections, LossOthers
<1> QED BY <1>1, <1>2, <1>3 DEF Next

LEMMA InitLoss == Init => LossInv
<1> SUFFICES ASSUME Init PROVE LossInv
  OBVIOUS
<1>1. est = [t \in Runs |-> Idle] /\ bound = "main" /\ "close" \in Runs
  BY DEF Init, Runs
<1>2. est["close"].pc = "idle"
  BY <1>1 DEF Idle, At
<1> QED BY <1>1, <1>2 DEF LossInv, ClosingOK, ToldOK

\* LossReported for every number of events, page and tail size, cursor limit and number of
\* faults: when nothing is under way, a view that is open and has lost its listener (the catch
\* of establish(), handleDeliveryFailure, scheduleRecovery) has told the application so.
THEOREM LossIsReported == Spec => []LossReported
<1>1. Init => LossInv
  BY InitLoss
<1>2. TypeOK /\ FramesOK /\ LossInv /\ [Next]_vars => LossInv'
  BY NextLoss
<1>3. LossInv => LossReported
  BY DEF LossInv, ToldOK, Cleaning, LossReported, Quiet, Runs
<1> QED BY <1>1, <1>2, <1>3, FramesCorrect, PTL DEF Spec

(***************************************************************************)
(* The projection                                                          *)
(***************************************************************************)
\* The projection is a prefix of the session.
Prefix(n) == proj = 0..(n - 1)
ProjectionOK == \E n \in 0..log : Prefix(n)

\* A page ends within the session, and the first page of a snapshot starts at its start.
PagesOK == \A t \in Activities : /\ calls[t].kind = "snapshot" => calls[t].start = 0 /\ calls[t].count <= log
                                 /\ calls[t].kind = "page" => calls[t].count <= log
PrefixInv == ProjectionOK /\ PagesOK

LEMMA PrefixSame ==
    ASSUME log \in Nat, log' \in Nat, log <= log', ProjectionOK, proj' = proj \/ proj' = {}
    PROVE  ProjectionOK'
<1>1. PICK n \in 0..log : Prefix(n)
  BY DEF ProjectionOK
<1>2. n \in 0..log' /\ 0 \in 0..log' /\ 0..(0 - 1) = {}
  OBVIOUS
<1>3. CASE proj' = proj
  <2>1. Prefix(n)'
    BY <1>1, <1>3 DEF Prefix
  <2> QED BY <1>2, <2>1 DEF ProjectionOK
<1>4. CASE proj' = {}
  <2>1. proj' = 0..(0 - 1)
    BY <1>2, <1>4
  <2> QED BY <1>2, <2>1 DEF ProjectionOK, Prefix
<1> QED BY <1>3, <1>4

\* A run of events from a is reduced after an event that is there.
LEMMA PrefixGrows ==
    ASSUME log \in Nat, ProjectionOK, NEW a \in Nat, NEW b \in Nat, b <= log,
           a \in proj \/ a = 0 \/ a - 1 \in proj
    PROVE  \E n \in 0..log : proj \cup a..(b - 1) = 0..(n - 1)
<1>1. PICK n \in 0..log : Prefix(n)
  BY DEF ProjectionOK
<1>2. n \in Nat /\ n <= log /\ proj = 0..(n - 1)
  BY <1>1 DEF Prefix
<1>3. a <= n
  BY <1>2
<1>4. CASE b <= n
  <2>1. 0..(n - 1) \cup a..(b - 1) = 0..(n - 1)
    BY <1>2, <1>4
  <2> QED BY <1>1, <1>2, <2>1
<1>5. CASE b > n
  <2>1. 0..(n - 1) \cup a..(b - 1) = 0..(b - 1)
    BY <1>2, <1>3, <1>5
  <2>2. b \in 0..log
    OBVIOUS
  <2> QED BY <1>2, <2>1, <2>2
<1> QED BY <1>2, <1>4, <1>5

LEMMA PagesTaken ==
    ASSUME TypeOK, PagesOK, NEW t, IsTaken(t), log' = log
    PROVE  PagesOK'
BY NoCallFields DEF PagesOK, IsTaken, Same

LEMMA PagesRequested ==
    ASSUME TypeOK, PagesOK, NEW u \in Activities, NEW t \in Activities, NEW kind \in {"subscribe", "history", "ack", "unsubscribe"},
           NEW s, NEW start, NEW c, Requested(u, t, kind, s, start, c), log' = log
    PROVE  PagesOK'
<1> SUFFICES ASSUME NEW v \in Activities
             PROVE  /\ calls'[v].kind = "snapshot" => calls'[v].start = 0 /\ calls'[v].count <= log'
                    /\ calls'[v].kind = "page" => calls'[v].count <= log'
  BY DEF PagesOK
<1>1. CASE v = t
  <2>1. calls'[v].kind \in {kind, "error"}
    BY <1>1 DEF Requested, TypeOK, ChannelTypeOK
  <2> QED BY <2>1
<1>2. CASE v # t /\ v = u
  BY <1>2, NoCallFields DEF Requested
<1>3. CASE v # t /\ v # u
  BY <1>3 DEF Requested, Same, PagesOK
<1> QED BY <1>1, <1>2, <1>3

LEMMA PagesFailed ==
    ASSUME TypeOK, PagesOK, NEW t, IsFailed(t), log' = log
    PROVE  PagesOK'
<1> SUFFICES ASSUME NEW v \in Activities PROVE calls'[v].kind \in {"", "error"}
  BY DEF PagesOK
<1> QED BY NoCallFields DEF IsFailed

LEMMA PagesSame ==
    ASSUME TypeOK, PagesOK, calls' = calls, log' \in Nat, log <= log'
    PROVE  PagesOK'
<1> SUFFICES ASSUME NEW v \in Activities
             PROVE  /\ calls[v].kind = "snapshot" => calls[v].start = 0 /\ calls[v].count <= log'
                    /\ calls[v].kind = "page" => calls[v].count <= log'
  BY DEF PagesOK
<1>1. calls[v].count \in Nat /\ log \in Nat
  BY SentCall DEF TypeOK, DaemonTypeOK
<1>2. calls[v].count <= log => calls[v].count <= log'
  BY <1>1
<1> QED BY <1>2 DEF PagesOK

\* A response that is not a page.
LEMMA PagesResponded ==
    ASSUME TypeOK, PagesOK, NEW t \in Activities, NEW kind, NEW s, NEW start, NEW count, NEW code,
           Responded(t, kind, s, start, count, code),
           kind = "page" => count <= log, kind # "snapshot"
    PROVE  PagesOK'
<1>1. log' = log
  BY DEF Responded
<1> SUFFICES ASSUME NEW v \in Activities
             PROVE  /\ calls'[v].kind = "snapshot" => calls'[v].start = 0 /\ calls'[v].count <= log'
                    /\ calls'[v].kind = "page" => calls'[v].count <= log'
  BY DEF PagesOK
<1> QED BY <1>1 DEF Responded, PagesOK

LEMMA LogFacts ==
    ASSUME TypeOK, UNCHANGED daemon
    PROVE  log \in Nat /\ log' \in Nat /\ log <= log' /\ log' = log
<1>1. log \in Nat /\ log' = log
  BY DaemonSame DEF TypeOK, DaemonTypeOK
<1> QED BY <1>1

LEMMA PrefixEstablish ==
    ASSUME TypeOK, PrefixInv, UNCHANGED daemon, NEW u \in Activities, NEW t \in Activities, NEW g, NEW how, NEW p, NEW a,
           p = proj \/ p = {}, EstablishEffect(u, t, g, how, p, a)
    PROVE  PrefixInv'
<1>1. PICK c : c = Offer(how, p, a)
  OBVIOUS
<1>2. (proj' = proj \/ proj' = {}) /\ Requested(u, t, "subscribe", 0, 0, c)
  BY <1>1 DEF EstablishEffect
<1>3. ProjectionOK'
  BY <1>2, LogFacts, PrefixSame DEF PrefixInv
<1>4. PagesOK'
  BY <1>2, LogFacts, PagesRequested DEF PrefixInv
<1> QED BY <1>3, <1>4 DEF PrefixInv

LEMMA PrefixThrow ==
    ASSUME TypeOK, PrefixInv, UNCHANGED daemon, NEW t, ThrowEffect(t), proj' = proj
    PROVE  PrefixInv'
<1>1. IsFailed(t) \/ IsTaken(t)
  BY DEF ThrowEffect
<1>2. PagesOK'
  BY <1>1, LogFacts, PagesFailed, PagesTaken DEF PrefixInv
<1>3. ProjectionOK'
  BY LogFacts, PrefixSame DEF PrefixInv
<1> QED BY <1>2, <1>3 DEF PrefixInv

LEMMA PrefixCleanup ==
    ASSUME TypeOK, PrefixInv, UNCHANGED daemon, NEW t \in Activities, NEW code, CleanupEffect(t, code), proj' = proj
    PROVE  PrefixInv'
<1>1. PICK s : s = curSub
  OBVIOUS
<1>2. Requested(t, t, "unsubscribe", s, 0, None)
  BY <1>1 DEF CleanupEffect
<1>3. PagesOK'
  BY <1>2, LogFacts, PagesRequested DEF PrefixInv
<1>4. ProjectionOK'
  BY LogFacts, PrefixSame DEF PrefixInv
<1> QED BY <1>3, <1>4 DEF PrefixInv

LEMMA PagesLoad ==
    ASSUME TypeOK, PagesOK, UNCHANGED daemon, NEW t \in Activities, LoadEffect(t)
    PROVE  PagesOK'
<1>1. PICK s, c, n : s = calls[t].sub /\ c = LastCursor(t) /\ n = PageLimit(t)
  OBVIOUS
<1>2. IsTaken(t) \/ Requested(t, t, "ack", s, 0, c) \/ Requested(t, t, "history", s, n, None)
  BY <1>1 DEF LoadEffect, Stops
<1> QED BY <1>2, LogFacts, PagesTaken, PagesRequested

\* The calls are taken or kept, and the projection stays.
LEMMA PrefixKept ==
    ASSUME TypeOK, PrefixInv, UNCHANGED daemon, proj' = proj, calls' = calls \/ \E t \in Activities : IsTaken(t)
    PROVE  PrefixInv'
<1>1. PagesOK'
  BY LogFacts, PagesTaken, PagesSame DEF PrefixInv
<1>2. ProjectionOK'
  BY LogFacts, PrefixSame DEF PrefixInv
<1> QED BY <1>1, <1>2 DEF PrefixInv

\* An event whose parent is there is reduced.
LEMMA OneMore ==
    ASSUME log \in Nat, ProjectionOK, NEW a \in Nat, a < log, ~Orphan(a)
    PROVE  \E n \in 0..log : proj \cup {a} = 0..(n - 1)
<1>1. a \in proj \/ a = 0 \/ a - 1 \in proj
  BY DEF Orphan
<1>2. PICK b \in Nat : b = a + 1
  OBVIOUS
<1>3. b <= log /\ {a} = a..(b - 1)
  BY <1>2
<1>4. \E n \in 0..log : proj \cup a..(b - 1) = 0..(n - 1)
  BY <1>1, <1>3, PrefixGrows
<1> QED BY <1>3, <1>4

\* A frame in order is reduced.
LEMMA PrefixReduced ==
    ASSUME TypeOK, PrefixInv, UNCHANGED daemon, NEW m \in Frame, GoodFrame(m), Rejected(m) = "", proj' = proj \cup {m.pos}
    PROVE  ProjectionOK'
<1>1. m.pos \in Nat /\ m.pos < log
  BY GoodFrameFacts
<1>2. log \in Nat /\ log' = log
  BY LogFacts
<1>3. ~Orphan(m.pos)
  BY DEF Rejected
<1>4. PICK a \in Nat : a = m.pos
  BY <1>1
<1>5. \E n \in 0..log : proj \cup {a} = 0..(n - 1)
  BY <1>1, <1>2, <1>3, <1>4, OneMore, Zenon DEF PrefixInv
<1>6. \E n \in 0..log : proj' = 0..(n - 1)
  BY <1>4, <1>5, Zenon
<1> QED BY <1>2, <1>6, Zenon DEF ProjectionOK, Prefix

LEMMA PageRange ==
    ASSUME TypeOK, NEW t \in Activities
    PROVE  \E a \in Nat, b \in Nat : /\ a = calls[t].start /\ b = PageLimit(t) /\ b <= calls[t].count
                                     /\ PageEvents(t) = a..(b - 1)
<1>1. calls[t].start \in Nat /\ PageLimit(t) \in Nat /\ PageLimit(t) <= calls[t].count
  BY SentCall, PageLimitType
<1> QED BY <1>1 DEF PageEvents

LEMMA PrefixRuns ==
    ASSUME TypeOK, FramesOK, PrefixInv, NEW t \in {"main", "recovery"}, EstablishNext(t)
    PROVE  PrefixInv'
<1>0. t \in Runs /\ t \in Activities
  BY RunNames
<1>00. log \in Nat /\ calls[t].count \in Nat
  BY <1>0, SentCall DEF TypeOK, DaemonTypeOK
<1>1. CASE OnSnapshot(t)
  <2>1. /\ LoadEffect(t) /\ Received(t, "snapshot", "subscribing") /\ proj' = PageEvents(t) /\ UNCHANGED daemon
    BY <1>1, OnSnapshotFacts
  <2>2. calls[t].start = 0 /\ calls[t].count <= log
    BY <1>0, <2>1 DEF Received, Answered, PrefixInv, PagesOK
  <2>3. PICK a \in Nat, b \in Nat : a = calls[t].start /\ b <= calls[t].count /\ PageEvents(t) = a..(b - 1)
    BY <1>0, PageRange
  <2>4. b \in 0..log /\ proj' = 0..(b - 1)
    BY <1>00, <2>1, <2>2, <2>3
  <2>5. ProjectionOK'
    BY <2>1, <2>4, LogFacts DEF ProjectionOK, Prefix
  <2>6. PagesOK'
    BY <1>0, <2>1, PagesLoad DEF PrefixInv
  <2> QED BY <2>5, <2>6 DEF PrefixInv
<1>2. CASE OnPage(t)
  <2>1. /\ Received(t, "page", "paging") /\ UNCHANGED daemon
        /\ \/ CleanupEffect(t, "missing_parent") /\ proj' = proj
           \/ LoadEffect(t) /\ proj' = proj \cup PageEvents(t)
    BY <1>2, OnPageFacts
  <2>2. CASE CleanupEffect(t, "missing_parent") /\ proj' = proj
    BY <1>0, <2>1, <2>2, PrefixCleanup
  <2>3. CASE ~(CleanupEffect(t, "missing_parent") /\ proj' = proj)
    <3>1. LoadEffect(t) /\ proj' = proj \cup PageEvents(t)
      BY <2>1, <2>3
    <3>2. ~Orphan(calls[t].start)
      <4> SUFFICES ASSUME Orphan(calls[t].start) PROVE FALSE
        OBVIOUS
      <4>1. Cleanup(t, "missing_parent") /\ proj' = proj
        BY <1>2 DEF OnPage
      <4> QED BY <2>3, <4>1, CleanupFacts DEF Codes
    <3>3. calls[t].count <= log
      BY <1>0, <2>1 DEF Received, Answered, PrefixInv, PagesOK
    <3>4. PICK a \in Nat, b \in Nat : a = calls[t].start /\ b <= calls[t].count /\ PageEvents(t) = a..(b - 1)
      BY <1>0, PageRange
    <3>5. b <= log
      BY <1>00, <3>3, <3>4
    <3>6. a \in proj \/ a = 0 \/ a - 1 \in proj
      BY <3>2, <3>4 DEF Orphan
    <3>7. \E n \in 0..log : proj \cup a..(b - 1) = 0..(n - 1)
      BY <1>00, <3>5, <3>6, PrefixGrows DEF PrefixInv
    <3>8. ProjectionOK'
      BY <2>1, <3>1, <3>4, <3>7, LogFacts DEF ProjectionOK, Prefix
    <3>9. PagesOK'
      BY <1>0, <2>1, <3>1, PagesLoad DEF PrefixInv
    <3> QED BY <3>8, <3>9 DEF PrefixInv
  <2> QED BY <2>2, <2>3
<1>3. CASE OnResumed(t)
  BY <1>0, <1>3, OnResumedFacts, PrefixKept
<1>4. CASE OnBoundary(t)
  BY <1>0, <1>4, OnBoundaryFacts, PrefixKept
<1>5. CASE OnRefused(t)
  <2>1. /\ UNCHANGED daemon
        /\ \/ Requested(t, t, "subscribe", 0, 0, None) /\ proj' = {}
           \/ ThrowEffect(t) /\ proj' = proj
    BY <1>5, OnRefusedFacts
  <2>2. CASE ThrowEffect(t) /\ proj' = proj
    BY <2>1, <2>2, PrefixThrow
  <2>3. CASE Requested(t, t, "subscribe", 0, 0, None) /\ proj' = {}
    <3>1. PagesOK'
      BY <1>0, <2>1, <2>3, LogFacts, PagesRequested DEF PrefixInv
    <3>2. ProjectionOK'
      BY <2>1, <2>3, LogFacts, PrefixSame DEF PrefixInv
    <3> QED BY <3>1, <3>2 DEF PrefixInv
  <2> QED BY <2>1, <2>2, <2>3
<1>6. CASE OnLoadError(t)
  BY <1>0, <1>6, OnLoadErrorFacts, PrefixCleanup
<1>7. CASE OnCleaned(t)
  <2>1. /\ UNCHANGED daemon
        /\ \/ EstablishEffect(t, t, gen + 1, "snapshot", {}, None)
           \/ ThrowEffect(t) /\ proj' = proj
    BY <1>7, OnCleanedFacts DEF view
  <2> QED BY <1>0, <2>1, PrefixEstablish, PrefixThrow
<1>8. CASE OnCleanupFailed(t)
  BY <1>8, OnCleanupFailedFacts, PrefixThrow DEF view
<1>9. CASE DrainSkip(t)
  BY <1>9, DrainSkipFacts, PrefixKept DEF view, channel
<1>10. CASE DrainReduce(t)
  <2>1. /\ est[t].pending # <<>> /\ UNCHANGED daemon
        /\ \/ Rejected(Held(t)) = "" /\ proj' = proj \cup {Held(t).pos} /\ calls' = calls
           \/ CleanupEffect(t, Rejected(Held(t))) /\ proj' = proj
    BY <1>10, DrainReduceFacts
  <2>2. CASE CleanupEffect(t, Rejected(Held(t))) /\ proj' = proj
    BY <1>0, <2>1, <2>2, PrefixCleanup
  <2>3. CASE Rejected(Held(t)) = "" /\ proj' = proj \cup {Held(t).pos} /\ calls' = calls
    <3>1. ProjectionOK'
      BY <1>0, <2>1, <2>3, GoodHeld, PrefixReduced
    <3>2. PagesOK'
      BY <2>1, <2>3, LogFacts, PagesSame DEF PrefixInv
    <3> QED BY <3>1, <3>2 DEF PrefixInv
  <2> QED BY <2>1, <2>2, <2>3
<1>11. CASE DrainAck(t)
  <2>1. PICK s, c : s = Held(t).sub /\ c = HeldCursor(t)
    OBVIOUS
  <2>2. /\ UNCHANGED daemon /\ proj' = proj
        /\ Requested(t, t, "ack", s, 0, c) \/ calls' = calls
    BY <1>11, <2>1, DrainAckFacts
  <2>3. PagesOK'
    BY <1>0, <2>2, LogFacts, PagesRequested, PagesSame DEF PrefixInv
  <2>4. ProjectionOK'
    BY <2>2, LogFacts, PrefixSame DEF PrefixInv
  <2> QED BY <2>3, <2>4 DEF PrefixInv
<1>12. CASE OnDrainAcked(t)
  BY <1>0, <1>12, OnDrainAckedFacts, PrefixKept
<1>13. CASE Established(t)
  BY <1>13, EstablishedFacts, PrefixKept DEF channel
<1> QED BY <1>1, <1>2, <1>3, <1>4, <1>5, <1>6, <1>7, <1>8, <1>9, <1>10, <1>11, <1>12, <1>13 DEF EstablishNext

LEMMA PrefixFailed ==
    ASSUME TypeOK, PrefixInv, UNCHANGED daemon, NEW code, FailedEffect(code)
    PROVE  PrefixInv'
<1>0. "delivery" \in Activities /\ "recovery" \in Activities
  BY DEF Activities
<1>1. PICK how, s : how = RecoverHow(code) /\ s = curSub
  OBVIOUS
<1>2. RecoverEffect(how) \/ (IsTaken("delivery") /\ proj' = proj)
  BY <1>1 DEF FailedEffect
<1>3. CASE RecoverEffect(how)
  <2>1. \/ IsTaken("delivery") /\ proj' = proj
        \/ Requested("delivery", "recovery", "unsubscribe", s, 0, None) /\ proj' = proj
        \/ EstablishEffect("delivery", "recovery", gen + 2, how, proj, acked)
    BY <1>1, <1>3 DEF RecoverEffect, view
  <2>2. CASE Requested("delivery", "recovery", "unsubscribe", s, 0, None) /\ proj' = proj
    <3>1. PagesOK'
      BY <1>0, <2>2, LogFacts, PagesRequested DEF PrefixInv
    <3>2. ProjectionOK'
      BY <2>2, LogFacts, PrefixSame DEF PrefixInv
    <3> QED BY <3>1, <3>2 DEF PrefixInv
  <2> QED BY <1>0, <2>1, <2>2, PrefixKept, PrefixEstablish
<1> QED BY <1>0, <1>2, <1>3, PrefixKept

LEMMA PrefixDeliveries ==
    ASSUME TypeOK, FramesOK, PrefixInv,
           DeliverSkip \/ DeliverReduce \/ DeliverFails \/ DeliverAck \/ OnAcked \/ OnAckError
    PROVE  PrefixInv'
<1>0. "delivery" \in Activities
  BY DEF Activities
<1>1. CASE DeliverSkip
  BY <1>1, DeliverSkipFacts, PrefixKept DEF view, channel
<1>2. CASE DeliverReduce
  <2>1. chain # <<>> /\ Rejected(First) = "" /\ proj' = proj \cup {First.pos} /\ UNCHANGED daemon /\ calls' = calls
    BY <1>2, DeliverReduceFacts DEF channel
  <2>2. ProjectionOK'
    BY <2>1, GoodFirst, PrefixReduced
  <2>3. PagesOK'
    BY <2>1, LogFacts, PagesSame DEF PrefixInv
  <2> QED BY <2>2, <2>3 DEF PrefixInv
<1>3. CASE DeliverFails
  BY <1>3, DeliverFailsFacts, PrefixFailed
<1>4. CASE DeliverAck
  <2>1. PICK s, c : s = First.sub /\ c = FirstCursor
    OBVIOUS
  <2>2. /\ UNCHANGED daemon /\ proj' = proj
        /\ Requested("delivery", "delivery", "ack", s, 0, c) \/ calls' = calls
    BY <1>4, <2>1, DeliverAckFacts
  <2>3. PagesOK'
    BY <1>0, <2>2, LogFacts, PagesRequested, PagesSame DEF PrefixInv
  <2>4. ProjectionOK'
    BY <2>2, LogFacts, PrefixSame DEF PrefixInv
  <2> QED BY <2>3, <2>4 DEF PrefixInv
<1>5. CASE OnAcked
  BY <1>0, <1>5, OnAckedFacts, PrefixKept
<1>6. CASE OnAckError
  <2>1. UNCHANGED daemon /\ (FailedEffect(calls["delivery"].code) \/ (IsTaken("delivery") /\ proj' = proj))
    BY <1>6, OnAckErrorFacts DEF view
  <2> QED BY <1>0, <2>1, PrefixFailed, PrefixKept
<1> QED BY <1>1, <1>2, <1>3, <1>4, <1>5, <1>6

LEMMA PrefixOthers ==
    ASSUME TypeOK, PrefixInv, Join \/ JoinClosed \/ OnReleased \/ CloseUnsubscribes \/ OnClosed \/ Close
    PROVE  PrefixInv'
<1>0. "main" \in Activities /\ "recovery" \in Activities /\ "close" \in Activities
  BY DEF Activities
<1>1. CASE Join
  <2>1. UNCHANGED daemon /\ EstablishEffect("main", "main", gen + 1, "resume", proj, acked)
    BY <1>1, JoinFacts
  <2> QED BY <1>0, <2>1, PrefixEstablish
<1>2. CASE JoinClosed
  BY <1>2, JoinClosedFacts, PrefixThrow DEF view
<1>3. CASE OnReleased
  <2>1. UNCHANGED daemon /\ EstablishEffect("recovery", "recovery", gen + 1, est["recovery"].how, proj, acked)
    BY <1>3, OnReleasedFacts
  <2> QED BY <1>0, <2>1, PrefixEstablish
<1>4. CASE CloseUnsubscribes
  <2>1. PICK s : s = curSub
    OBVIOUS
  <2>2. /\ UNCHANGED daemon /\ proj' = proj
        /\ Requested("close", "close", "unsubscribe", s, 0, None) \/ calls' = calls
    BY <1>4, <2>1, CloseUnsubscribesFacts
  <2>3. PagesOK'
    BY <1>0, <2>2, LogFacts, PagesRequested, PagesSame DEF PrefixInv
  <2>4. ProjectionOK'
    BY <2>2, LogFacts, PrefixSame DEF PrefixInv
  <2> QED BY <2>3, <2>4 DEF PrefixInv
<1>5. CASE OnClosed
  BY <1>0, <1>5, OnClosedFacts, PrefixKept DEF view
<1>6. CASE Close
  BY <1>6, CloseFacts, PrefixKept DEF channel
<1> QED BY <1>1, <1>2, <1>3, <1>4, <1>5, <1>6

LEMMA PrefixConnections ==
    ASSUME TypeOK, PrefixInv, Drop \/ DaemonRestarts \/ Reconnect \/ Rebind
    PROVE  PrefixInv'
<1>1. CASE Drop
  <2>1. UNCHANGED daemon /\ IsFailed("nobody") /\ proj' = proj
    BY <1>1, DropFacts DEF view
  <2>2. PagesOK' /\ ProjectionOK'
    BY <2>1, LogFacts, PagesFailed, PrefixSame DEF PrefixInv
  <2> QED BY <2>2 DEF PrefixInv
<1>2. CASE DaemonRestarts
  <2>1. log' = log /\ IsFailed("nobody") /\ proj' = proj
    BY <1>2, DaemonRestartsFacts DEF view
  <2>2. log \in Nat /\ log <= log'
    BY <2>1 DEF TypeOK, DaemonTypeOK
  <2>3. PagesOK' /\ ProjectionOK'
    BY <2>1, <2>2, PagesFailed, PrefixSame DEF PrefixInv
  <2> QED BY <2>3 DEF PrefixInv
<1>3. CASE Reconnect \/ Rebind
  <2>1. UNCHANGED daemon /\ calls' = calls /\ proj' = proj
    BY <1>3, ConnectFacts DEF ConnectEffect, view
  <2> QED BY <2>1, PrefixKept
<1> QED BY <1>1, <1>2, <1>3

LEMMA PrefixDaemon ==
    ASSUME TypeOK, PrefixInv, DaemonStep
    PROVE  PrefixInv'
<1>0. proj' = proj
  BY DEF DaemonStep, view
<1>1. log \in Nat
  BY DEF TypeOK, DaemonTypeOK
<1> DEFINE Fine == log' \in Nat /\ log <= log' /\ PagesOK'
<1>2. Fine => PrefixInv'
  BY <1>0, <1>1, PrefixSame DEF PrefixInv
<1>3. PagesOK
  BY DEF PrefixInv
<1> HIDE DEF Fine
<1>4. CASE EventStored
  <2>1. log' = log + 1 /\ calls' = calls
    BY <1>4 DEF EventStored
  <2>2. log' \in Nat /\ log <= log'
    BY <1>1, <2>1
  <2> QED BY <1>2, <1>3, <2>1, <2>2, PagesSame DEF Fine
<1>5. ASSUME NEW t \in Activities,
             \/ SubscribeSnapshot(t) \/ SubscribeResumed(t) \/ SubscribeRefused(t)
             \/ SnapshotPage(t) \/ Acknowledge(t) \/ AcknowledgeRefused(t) \/ Unsubscribe(t)
      PROVE  PrefixInv'
  <2>0. log' = log => log' \in Nat /\ log <= log'
    BY <1>1
  <2>1. CASE SubscribeSnapshot(t)
    <3>1. /\ calls'[t].kind = "snapshot" /\ calls'[t].start = 0 /\ calls'[t].count = log
          /\ (\A v \in Activities : v # t => calls'[v] = calls[v]) /\ log' = log
      BY <2>1, SubscribeSnapshotFacts
    <3>2. PagesOK'
      <4> SUFFICES ASSUME NEW v \in Activities
                   PROVE  /\ calls'[v].kind = "snapshot" => calls'[v].start = 0 /\ calls'[v].count <= log'
                          /\ calls'[v].kind = "page" => calls'[v].count <= log'
        BY DEF PagesOK
      <4>1. log <= log
        BY <1>1
      <4> QED BY <1>3, <3>1, <4>1 DEF PagesOK
    <3> QED BY <1>2, <2>0, <3>1, <3>2 DEF Fine
  <2>2. CASE ~SubscribeSnapshot(t)
    <3>3. PagesOK' /\ log' = log
      <4>1. CASE SubscribeResumed(t)
        <5>1. PICK k, c, p, n : k = Len(subs) + 1 /\ c = calls[t].cursor /\ p = TailFrom(c) /\ n = TailOf(c)
          OBVIOUS
        <5>2. ResumedEffect(t, k, c, p, n)
          BY <4>1, <5>1, SubscribeResumedFacts
        <5>3. Responded(t, "resumed", k, 0, 0, "")
          BY <5>2 DEF ResumedEffect
        <5> QED BY <1>3, <5>3, PagesResponded DEF Responded
      <4>2. CASE SubscribeRefused(t)
        <5>1. Responded(t, "error", calls[t].sub, 0, 0, "snapshot_required")
          BY <4>2, SubscribeRefusedFacts
        <5> QED BY <1>3, <5>1, PagesResponded DEF Responded
      <4>3. CASE SnapshotPage(t)
        <5>1. PICK s, n, k : s = calls[t].sub /\ n = calls[t].start /\ k = subs[s].snap
          OBVIOUS
        <5>2. \/ Responded(t, "error", s, 0, 0, "snapshot_required")
              \/ Attached(s) /\ Responded(t, "page", s, n, k, "")
          BY <4>3, <5>1, SnapshotPageFacts
        <5>3. Attached(s) => k <= log
          <6> SUFFICES ASSUME Attached(s) PROVE subs[s].snap <= log
            BY <5>1
          <6>1. /\ SubOK(subs[s], log) /\ subs[s].snap \in Nat /\ subs[s].seq \in Nat /\ subs[s].buffered \in Nat
            BY SubFacts DEF Attached
          <6>2. subs[s].snap + subs[s].seq + subs[s].buffered <= log
            BY <6>1 DEF SubOK
          <6> QED BY <1>1, <6>1, <6>2
        <5> QED BY <1>3, <5>2, <5>3, PagesResponded DEF Responded
      <4>4. CASE Acknowledge(t)
        <5>1. PICK s, c, k : s = calls[t].sub /\ c = calls[t].cursor /\ k = Sends(s, c)
          OBVIOUS
        <5>2. AcknowledgeEffect(t, s, c, k)
          BY <4>4, <5>1, AcknowledgeFacts
        <5>3. Responded(t, "acked", s, 0, 0, "")
          BY <5>2 DEF AcknowledgeEffect
        <5> QED BY <1>3, <5>3, PagesResponded DEF Responded
      <4>5. CASE AcknowledgeRefused(t)
        <5>1. Responded(t, "error", calls[t].sub, 0, 0, AckRefusal(calls[t].sub, calls[t].cursor))
          BY <4>5, AcknowledgeRefusedFacts
        <5> QED BY <1>3, <5>1, PagesResponded DEF Responded
      <4>6. CASE Unsubscribe(t)
        <5>1. PICK s : s = calls[t].sub
          OBVIOUS
        <5>2. Responded(t, "unsubscribed", s, 0, 0, "") \/ Responded(t, "error", s, 0, 0, "unknown_subscription")
          BY <4>6, <5>1, UnsubscribeFacts
        <5> QED BY <1>3, <5>2, PagesResponded DEF Responded
      <4> QED BY <1>5, <2>2, <4>1, <4>2, <4>3, <4>4, <4>5, <4>6
    <3> QED BY <1>2, <2>0, <3>3 DEF Fine
  <2> QED BY <2>1, <2>2
<1>6. ASSUME \/ \E c \in 1..conn : ConnectionClosed(c)
             \/ CursorExpires \/ OtherCursor
             \/ \E s \in Subs : SnapshotExpires(s)
      PROVE  PrefixInv'
  <2>1. log' = log /\ calls' = calls
    BY <1>6 DEF ConnectionClosed, CursorExpires, OtherCursor, SnapshotExpires, channel
  <2> QED BY <1>1, <1>2, <1>3, <2>1, PagesSame DEF Fine
<1> QED BY <1>4, <1>5, <1>6 DEF DaemonStep, DaemonNext

LEMMA NextPrefix == TypeOK /\ FramesOK /\ PrefixInv /\ [Next]_vars => PrefixInv'
<1> SUFFICES ASSUME TypeOK, FramesOK, PrefixInv, [Next]_vars PROVE PrefixInv'
  OBVIOUS
<1>1. CASE UNCHANGED vars
  BY <1>1, PrefixKept DEF vars, view, channel
<1>2. CASE ViewNext
  <2>1. CASE \E s \in Subs : OnEvent(s)
    <3>1. UNCHANGED daemon /\ calls' = calls /\ proj' = proj
      BY <2>1 DEF OnEvent, view
    <3> QED BY <3>1, PrefixKept
  <2> QED BY <1>2, <2>1, PrefixRuns, PrefixDeliveries, PrefixOthers DEF ViewNext
<1>3. CASE Drop \/ DaemonRestarts \/ Reconnect \/ Rebind \/ Close
  BY <1>3, PrefixConnections, PrefixOthers
<1>4. CASE DaemonStep
  BY <1>4, PrefixDaemon
<1> QED BY <1>1, <1>2, <1>3, <1>4 DEF Next

\* What the view shows is at every moment a prefix of the session: snapshots loaded in part,
\* abandoned by a newer generation or replaced by a recovery, and the pages and deliveries of a
\* superseded establish() that still arrive (applyEvent of the projector, establish()), may
\* make it shorter and never leave a hole in it.
THEOREM ProjectionIsPrefix == Spec => []ProjectionOK
<1>1. Init => PrefixInv
  <2> SUFFICES ASSUME Init PROVE PrefixInv
    OBVIOUS
  <2>1. proj = 0..(log - 1) /\ log \in Nat /\ calls = [t \in Activities |-> NoCall]
    BY SubscriptionBounds DEF Init, SubscriptionBounds
  <2>2. log \in 0..log
    BY <2>1
  <2>3. ProjectionOK
    BY <2>1, <2>2 DEF ProjectionOK, Prefix
  <2>4. PagesOK
    BY <2>1, NoCallFields DEF PagesOK
  <2> QED BY <2>3, <2>4 DEF PrefixInv
<1>2. TypeOK /\ FramesOK /\ PrefixInv /\ [Next]_vars => PrefixInv'
  BY NextPrefix
<1>3. PrefixInv => ProjectionOK
  BY DEF PrefixInv
<1> QED BY <1>1, <1>2, <1>3, FramesCorrect, PTL DEF Spec

(***************************************************************************)
(* Requests and responses                                                  *)
(***************************************************************************)
\* Where an activity stands, and whether it awaits no response there.
Where(t) == IF t = "delivery" THEN stage ELSE est[t].pc
Resting == {"idle", "joining", "draining", "reduced", "next"}

\* The request an activity makes before it waits, and the responses to it.
Asks(pc, kind) ==
    \/ pc = "subscribing" /\ kind = "subscribe"
    \/ pc = "paging" /\ kind = "history"
    \/ pc \in {"bounding", "acking"} /\ kind = "ack"
    \/ pc \in {"unsubscribing", "cleaning", "closing"} /\ kind = "unsubscribe"
Answers(kind, answer) ==
    \/ kind = "subscribe" /\ answer \in {"snapshot", "resumed", "error"}
    \/ kind = "history" /\ answer \in {"page", "error"}
    \/ kind = "ack" /\ answer \in {"acked", "error"}
    \/ kind = "unsubscribe" /\ answer \in {"unsubscribed", "error"}

Awaited(pc, c) ==
    /\ pc \in Resting <=> c.state = "none"
    /\ c.state = "sent" => Asks(pc, c.kind)
    /\ c.state = "done" => \E kind \in Kinds : Asks(pc, kind) /\ Answers(kind, c.kind)
AwaitedOK == \A t \in Activities : Awaited(Where(t), calls[t])

\* Requests wait for each other in the order in which they were sent, and for no request
\* that was taken.
AheadOK == \A t \in Activities : \A u \in calls[t].ahead :
    /\ u # t /\ calls[u].state # "none"
    /\ calls[t].state = "done" => calls[u].state = "done"
    /\ calls[u].ahead \subseteq calls[t].ahead
RequestsOK == AwaitedOK /\ AheadOK

LEMMA CallTypes ==
    ASSUME TypeOK, NEW t \in Activities
    PROVE  /\ calls[t] \in Call /\ calls[t].state \in {"none", "sent", "done"} /\ calls[t].kind \in Kinds
           /\ calls[t].ahead \in SUBSET Activities
BY DEF TypeOK, ChannelTypeOK, Call

LEMMA RequestNames == "subscribe" \in Kinds /\ "history" \in Kinds /\ "ack" \in Kinds /\ "unsubscribe" \in Kinds
BY DEF Kinds

\* Activity u took a response and t, the same or one at rest, asks.
LEMMA ReqRequested ==
    ASSUME TypeOK, SentUp, RequestsOK, NEW u \in Activities, NEW t \in Activities, NEW kind, NEW s, NEW start, NEW c,
           Requested(u, t, kind, s, start, c), kind \in Kinds, Asks(Where(t)', kind),
           u # t => calls[t].state = "none" /\ Where(u)' \in Resting,
           \A v \in Activities : v # t /\ v # u => Where(v)' = Where(v)
    PROVE  RequestsOK'
<1>1. AwaitedOK'
  <2> SUFFICES ASSUME NEW v \in Activities PROVE Awaited(Where(v)', calls'[v])
    BY DEF AwaitedOK
  <2>1. CASE v = t
    <3>1. Where(t)' \notin Resting
      BY DEF Asks, Resting
    <3>2. up \in BOOLEAN
      BY DEF TypeOK, ChannelTypeOK
    <3>3. Answers(kind, "error")
      BY DEF Asks, Answers
    <3> QED BY <2>1, <3>1, <3>2, <3>3 DEF Awaited, Requested
  <2>2. CASE v # t /\ v = u
    <3>1. calls'[v] = NoCall
      BY <2>2 DEF Requested
    <3> QED BY <2>2, <3>1, NoCallFields DEF Awaited
  <2>3. CASE v # t /\ v # u
    <3>1. Same(calls'[v], calls[v]) /\ Where(v)' = Where(v) /\ Awaited(Where(v), calls[v])
      BY <2>3 DEF Requested, RequestsOK, AwaitedOK
    <3> QED BY <3>1 DEF Same, Awaited
  <2> QED BY <2>1, <2>2, <2>3
<1>2. AheadOK'
  <2> SUFFICES ASSUME NEW w \in Activities, NEW v \in calls'[w].ahead
               PROVE  /\ v # w /\ calls'[v].state # "none"
                      /\ calls'[w].state = "done" => calls'[v].state = "done"
                      /\ calls'[v].ahead \subseteq calls'[w].ahead
    BY DEF AheadOK
  <2>0. \A x \in Activities : calls[x].state \in {"none", "sent", "done"} /\ calls[x].ahead \in SUBSET Activities
    BY CallTypes
  <2>1. CASE w = t
    <3>1. v \in Activities /\ v # u /\ calls[v].state # "none"
      BY <2>1 DEF Requested
    <3>2. v # t
      BY <3>1
    <3>3. Same(calls'[v], calls[v]) /\ calls'[v].ahead = calls[v].ahead \ {u}
      BY <3>1, <3>2 DEF Requested
    <3>4. calls'[w].state = "done" => calls[v].state = "done"
      <4>1. calls'[w].state = "done" => ~up
        BY <2>1 DEF Requested
      <4> QED BY <4>1, <3>1, <2>0 DEF SentUp
    <3>5. \A x \in calls[v].ahead : x \in Activities /\ calls[x].state # "none"
      BY <3>1, <2>0 DEF RequestsOK, AheadOK
    <3> QED BY <2>1, <3>1, <3>2, <3>3, <3>4, <3>5 DEF Same, Requested
  <2>2. CASE w # t /\ w = u
    <3>1. calls'[w] = NoCall
      BY <2>2 DEF Requested
    <3> QED BY <3>1, NoCallFields
  <2>3. CASE w # t /\ w # u
    <3>1. Same(calls'[w], calls[w]) /\ calls'[w].ahead = calls[w].ahead \ {u}
      BY <2>3 DEF Requested
    <3>2. /\ v \in Activities /\ v # u /\ v # w /\ calls[v].state # "none" /\ calls[v].ahead \subseteq calls[w].ahead
          /\ calls[w].state = "done" => calls[v].state = "done"
      BY <3>1, <2>0 DEF RequestsOK, AheadOK
    <3>3. v # t
      BY <3>2
    <3>4. Same(calls'[v], calls[v]) /\ calls'[v].ahead = calls[v].ahead \ {u}
      BY <3>2, <3>3 DEF Requested
    <3> QED BY <3>1, <3>2, <3>4 DEF Same
  <2> QED BY <2>1, <2>2, <2>3
<1> QED BY <1>1, <1>2 DEF RequestsOK

\* Activity t took a response and rests.
LEMMA ReqTaken ==
    ASSUME TypeOK, RequestsOK, NEW t \in Activities, IsTaken(t), Where(t)' \in Resting,
           \A v \in Activities : v # t => Where(v)' = Where(v)
    PROVE  RequestsOK'
<1>1. AwaitedOK'
  <2> SUFFICES ASSUME NEW v \in Activities PROVE Awaited(Where(v)', calls'[v])
    BY DEF AwaitedOK
  <2>1. CASE v = t
    <3>1. calls'[v] = NoCall
      BY <2>1 DEF IsTaken
    <3> QED BY <2>1, <3>1, NoCallFields DEF Awaited
  <2>2. CASE v # t
    <3>1. Same(calls'[v], calls[v]) /\ Where(v)' = Where(v) /\ Awaited(Where(v), calls[v])
      BY <2>2 DEF IsTaken, RequestsOK, AwaitedOK
    <3> QED BY <3>1 DEF Same, Awaited
  <2> QED BY <2>1, <2>2
<1>2. AheadOK'
  <2> SUFFICES ASSUME NEW w \in Activities, NEW v \in calls'[w].ahead
               PROVE  /\ v # w /\ calls'[v].state # "none"
                      /\ calls'[w].state = "done" => calls'[v].state = "done"
                      /\ calls'[v].ahead \subseteq calls'[w].ahead
    BY DEF AheadOK
  <2>1. CASE w = t
    <3>1. calls'[w] = NoCall
      BY <2>1 DEF IsTaken
    <3> QED BY <3>1, NoCallFields
  <2>2. CASE w # t
    <3>1. Same(calls'[w], calls[w]) /\ calls'[w].ahead = calls[w].ahead \ {t}
      BY <2>2 DEF IsTaken
    <3>2. /\ v \in Activities /\ v # t /\ v # w /\ calls[v].state # "none" /\ calls[v].ahead \subseteq calls[w].ahead
          /\ calls[w].state = "done" => calls[v].state = "done"
      BY <3>1, CallTypes DEF RequestsOK, AheadOK
    <3>3. Same(calls'[v], calls[v]) /\ calls'[v].ahead = calls[v].ahead \ {t}
      BY <3>2 DEF IsTaken
    <3> QED BY <3>1, <3>2, <3>3 DEF Same
  <2> QED BY <2>1, <2>2
<1> QED BY <1>1, <1>2 DEF RequestsOK

\* The connection failed: every request but t's is rejected.
LEMMA ReqFailed ==
    ASSUME TypeOK, RequestsOK, NEW t, IsFailed(t), t \in Activities => Where(t)' \in Resting,
           \A v \in Activities : v # t => Where(v)' = Where(v)
    PROVE  RequestsOK'
<1>1. AwaitedOK'
  <2> SUFFICES ASSUME NEW v \in Activities PROVE Awaited(Where(v)', calls'[v])
    BY DEF AwaitedOK
  <2>1. CASE v = t
    <3>1. calls'[v] = NoCall
      BY <2>1 DEF IsFailed
    <3> QED BY <2>1, <3>1, NoCallFields DEF Awaited
  <2>2. CASE v # t /\ calls[v].state = "none"
    <3>1. calls'[v] = NoCall /\ Where(v)' = Where(v) /\ Awaited(Where(v), calls[v])
      BY <2>2 DEF IsFailed, RequestsOK, AwaitedOK
    <3> QED BY <2>2, <3>1, NoCallFields DEF Awaited
  <2>3. CASE v # t /\ calls[v].state # "none"
    <3>1. calls'[v].state = "done" /\ calls'[v].kind = "error" /\ Where(v)' = Where(v) /\ Awaited(Where(v), calls[v])
      BY <2>3 DEF IsFailed, RequestsOK, AwaitedOK
    <3>2. \E kind \in Kinds : Asks(Where(v), kind)
      BY <2>3, <3>1, CallTypes DEF Awaited
    <3>3. \A kind : Asks(Where(v), kind) => Answers(kind, "error")
      BY DEF Asks, Answers
    <3> QED BY <2>3, <3>1, <3>2, <3>3 DEF Awaited
  <2> QED BY <2>1, <2>2, <2>3
<1>2. AheadOK'
  <2> SUFFICES ASSUME NEW w \in Activities, NEW v \in calls'[w].ahead
               PROVE  /\ v # w /\ calls'[v].state # "none"
                      /\ calls'[w].state = "done" => calls'[v].state = "done"
                      /\ calls'[v].ahead \subseteq calls'[w].ahead
    BY DEF AheadOK
  <2>1. w # t /\ calls[w].state # "none"
    <3>1. w = t \/ calls[w].state = "none" => calls'[w] = NoCall
      BY DEF IsFailed
    <3> QED BY <3>1, NoCallFields
  <2>2. calls'[w].ahead = calls[w].ahead \ {t}
    BY <2>1 DEF IsFailed
  <2>3. v \in Activities /\ v # t /\ v # w /\ calls[v].state # "none" /\ calls[v].ahead \subseteq calls[w].ahead
    BY <2>2, CallTypes DEF RequestsOK, AheadOK
  <2>4. calls'[v].state = "done" /\ calls'[v].ahead = calls[v].ahead \ {t}
    BY <2>3 DEF IsFailed
  <2> QED BY <2>2, <2>3, <2>4
<1> QED BY <1>1, <1>2 DEF RequestsOK

\* The daemon answered the request of t.
LEMMA ReqAnswered ==
    ASSUME TypeOK, RequestsOK, NEW t \in Activities, NEW kind, NEW answer, NEW s, NEW start, NEW count, NEW code,
           Executes(t, kind), Respond(t, answer, s, start, count, code), kind \in Kinds, Answers(kind, answer),
           UNCHANGED <<est, stage>>
    PROVE  RequestsOK'
<1>a. /\ \A v \in Activities : v # t => calls'[v] = calls[v]
      /\ calls'[t].state = "done" /\ calls'[t].kind = answer /\ calls'[t].ahead = calls[t].ahead
  <2>1. calls \in [Activities -> Call] /\ calls[t] \in Call
    BY DEF TypeOK, ChannelTypeOK
  <2>2. calls' = [calls EXCEPT ![t] = Response(calls[t], answer, s, start, count, code)]
    BY DEF Respond, Response
  <2> QED BY <2>1, <2>2 DEF Response, Call
<1>0. \A v : Where(v)' = Where(v)
  BY DEF Where
<1>1. AwaitedOK'
  <2> SUFFICES ASSUME NEW v \in Activities PROVE Awaited(Where(v), calls'[v])
    BY <1>0 DEF AwaitedOK
  <2>1. Awaited(Where(v), calls[v])
    BY DEF RequestsOK, AwaitedOK
  <2>2. CASE v = t
    <3>1. calls'[v].state = "done" /\ calls'[v].kind = answer
      BY <2>2, <1>a
    <3>2. Asks(Where(v), kind) /\ Where(v) \notin Resting
      BY <2>1, <2>2 DEF Executes, Awaited
    <3> QED BY <3>1, <3>2 DEF Awaited
  <2>3. CASE v # t
    BY <2>1, <2>3, <1>a
  <2> QED BY <2>2, <2>3
<1>2. AheadOK'
  <2> SUFFICES ASSUME NEW w \in Activities, NEW v \in calls'[w].ahead
               PROVE  /\ v # w /\ calls'[v].state # "none"
                      /\ calls'[w].state = "done" => calls'[v].state = "done"
                      /\ calls'[v].ahead \subseteq calls'[w].ahead
    BY DEF AheadOK
  <2>1. \A x \in Activities : /\ calls'[x].ahead = calls[x].ahead
                              /\ x = t => calls'[x].state = "done"
                              /\ x # t => calls'[x].state = calls[x].state
    BY <1>a
  <2>2. /\ v \in Activities /\ v # w /\ calls[v].state # "none" /\ calls[v].ahead \subseteq calls[w].ahead
        /\ calls[w].state = "done" => calls[v].state = "done"
    BY <2>1, CallTypes DEF RequestsOK, AheadOK
  <2>3. w = t => calls[v].state = "done"
    BY <2>1 DEF Executes
  <2> QED BY <2>1, <2>2, <2>3
<1> QED BY <1>1, <1>2 DEF RequestsOK

\* Nobody asks or takes a response; who moves goes from rest to rest.
LEMMA ReqSame ==
    ASSUME RequestsOK, calls' = calls,
           \A v \in Activities : Where(v)' = Where(v) \/ (Where(v) \in Resting /\ Where(v)' \in Resting)
    PROVE  RequestsOK'
<1>1. AwaitedOK'
  <2> SUFFICES ASSUME NEW v \in Activities PROVE Awaited(Where(v)', calls[v])
    BY DEF AwaitedOK
  <2>1. Awaited(Where(v), calls[v])
    BY DEF RequestsOK, AwaitedOK
  <2> QED BY <2>1 DEF Awaited
<1> QED BY <1>1 DEF RequestsOK, AheadOK

LEMMA WhereMoves ==
    ASSUME NEW t \in Runs, Only(t)
    PROVE  /\ t \in Activities /\ Where(t)' = est'[t].pc /\ Where(t) = est[t].pc
           /\ \A v \in Activities : v # t /\ v # "delivery" => Where(v)' = Where(v)
           /\ stage' = stage => \A v \in Activities : v # t => Where(v)' = Where(v)
BY DEF Where, Only, Runs, Activities

LEMMA WhereDelivers ==
    ASSUME est' = est
    PROVE  /\ "delivery" \in Activities /\ Where("delivery")' = stage' /\ Where("delivery") = stage
           /\ \A v \in Activities : v # "delivery" => Where(v)' = Where(v)
BY DEF Where, Activities

\* Run t asks, after what it awaited.
LEMMA ReqRunAsks ==
    ASSUME TypeOK, FramesOK, RequestsOK, NEW t \in Runs, NEW kind, NEW s, NEW start, NEW c,
           Requested(t, t, kind, s, start, c), Only(t), stage' = stage, Asks(est'[t].pc, kind), kind \in Kinds
    PROVE  RequestsOK'
<1>1. SentUp
  BY DEF FramesOK
<1>2. /\ t \in Activities /\ Where(t)' = est'[t].pc
      /\ \A v \in Activities : v # t => Where(v)' = Where(v)
  BY WhereMoves
<1> QED BY <1>1, <1>2, ReqRequested

\* Run t took a response and goes on without a request.
LEMMA ReqRunRests ==
    ASSUME TypeOK, RequestsOK, NEW t \in Runs, IsTaken(t), Only(t), stage' = stage, est'[t].pc \in Resting
    PROVE  RequestsOK'
<1>2. /\ t \in Activities /\ Where(t)' = est'[t].pc
      /\ \A v \in Activities : v # t => Where(v)' = Where(v)
  BY WhereMoves
<1> QED BY <1>2, ReqTaken

\* Run t goes from one step that awaits nothing to another.
LEMMA ReqRunGoes ==
    ASSUME RequestsOK, NEW t \in Runs, Only(t), stage' = stage, calls' = calls,
           est'[t].pc = est[t].pc \/ (est[t].pc \in Resting /\ est'[t].pc \in Resting)
    PROVE  RequestsOK'
<1>2. /\ t \in Activities /\ Where(t)' = est'[t].pc /\ Where(t) = est[t].pc
      /\ \A v \in Activities : v # t => Where(v)' = Where(v)
  BY WhereMoves
<1> QED BY <1>2, ReqSame

LEMMA ReqThrow ==
    ASSUME TypeOK, RequestsOK, NEW t \in {"main", "recovery"}, ThrowEffect(t), stage' = stage
    PROVE  RequestsOK'
<1>1. Only(t) /\ est'[t].pc = "idle" /\ t \in Runs
  BY OnlyMoves DEF ThrowEffect, Runs
<1>2. "idle" \in Resting
  BY DEF Resting
<1>3. CASE t = "main"
  <2>1. /\ t \in Activities /\ Where(t)' = est'[t].pc
        /\ \A v \in Activities : v # t => Where(v)' = Where(v)
    BY <1>1, WhereMoves
  <2>2. IsFailed(t)
    BY <1>3 DEF ThrowEffect
  <2> QED BY <1>1, <1>2, <2>1, <2>2, ReqFailed
<1>4. CASE t # "main"
  <2>1. IsTaken(t)
    BY <1>4 DEF ThrowEffect
  <2> QED BY <1>1, <1>2, <2>1, ReqRunRests
<1> QED BY <1>3, <1>4

LEMMA ReqEstablish ==
    ASSUME TypeOK, FramesOK, RequestsOK, NEW t \in {"main", "recovery"}, NEW g, NEW how, NEW p, NEW a,
           EstablishEffect(t, t, g, how, p, a), stage' = stage
    PROVE  RequestsOK'
<1>1. Only(t) /\ est'[t].pc = "subscribing" /\ t \in Runs
  BY OnlyMoves DEF EstablishEffect, Runs
<1>2. PICK c : Requested(t, t, "subscribe", 0, 0, c)
  BY DEF EstablishEffect
<1>3. Asks("subscribing", "subscribe")
  BY DEF Asks
<1> QED BY <1>1, <1>2, <1>3, ReqRunAsks, RequestNames

LEMMA ReqCleanup ==
    ASSUME TypeOK, FramesOK, RequestsOK, NEW t \in {"main", "recovery"}, NEW code, CleanupEffect(t, code), stage' = stage
    PROVE  RequestsOK'
<1>1. Only(t) /\ est'[t].pc = "cleaning" /\ t \in Runs /\ Requested(t, t, "unsubscribe", curSub, 0, None)
  BY OnlyMoves DEF CleanupEffect, Runs
<1>2. Asks("cleaning", "unsubscribe")
  BY DEF Asks
<1> QED BY <1>1, <1>2, ReqRunAsks, RequestNames

LEMMA ReqLoad ==
    ASSUME TypeOK, FramesOK, RequestsOK, NEW t \in {"main", "recovery"}, LoadEffect(t), stage' = stage
    PROVE  RequestsOK'
<1>0. t \in Runs /\ Only(t)
  BY OnlyLoads DEF Runs
<1>1. \/ est'[t].pc = "bounding" /\ \E c : Requested(t, t, "ack", calls[t].sub, 0, c)
      \/ est'[t].pc = "paging" /\ \E n : Requested(t, t, "history", calls[t].sub, n, None)
      \/ est'[t].pc = "idle" /\ IsTaken(t)
  BY OnlyMoves DEF LoadEffect, Keeps, Stops
<1>2. Asks("bounding", "ack") /\ Asks("paging", "history") /\ "idle" \in Resting
  BY DEF Asks, Resting
<1>3. CASE est'[t].pc = "bounding" /\ \E c : Requested(t, t, "ack", calls[t].sub, 0, c)
  BY <1>0, <1>2, <1>3, ReqRunAsks, RequestNames
<1>4. CASE est'[t].pc = "paging" /\ \E n : Requested(t, t, "history", calls[t].sub, n, None)
  BY <1>0, <1>2, <1>4, ReqRunAsks, RequestNames
<1>5. CASE est'[t].pc = "idle" /\ IsTaken(t)
  BY <1>0, <1>2, <1>5, ReqRunRests
<1> QED BY <1>1, <1>3, <1>4, <1>5

LEMMA ReqRuns ==
    ASSUME TypeOK, FramesOK, RequestsOK, NEW t \in {"main", "recovery"}, EstablishNext(t)
    PROVE  RequestsOK'
<1>0. t \in Runs
  BY DEF Runs
<1> DEFINE Rests == Only(t) /\ stage' = stage /\ IsTaken(t) /\ est'[t].pc \in {"idle", "draining"}
           Goes == Only(t) /\ stage' = stage /\ calls' = calls /\ est[t].pc \in {"draining", "reduced"}
                     /\ est'[t].pc \in {"idle", "draining", "reduced"}
<1>a. Rests => RequestsOK'
  <2>1. est'[t].pc \in {"idle", "draining"} => est'[t].pc \in Resting
    BY DEF Resting
  <2> QED BY <1>0, <2>1, ReqRunRests
<1>b. Goes => RequestsOK'
  <2>1. est[t].pc \in {"draining", "reduced"} /\ est'[t].pc \in {"idle", "draining", "reduced"}
          => est[t].pc \in Resting /\ est'[t].pc \in Resting
    BY DEF Resting
  <2> QED BY <1>0, <2>1, ReqRunGoes
<1> HIDE DEF Rests, Goes
<1>1. CASE OnSnapshot(t)
  BY <1>1, OnSnapshotFacts, ReqLoad
<1>2. CASE OnPage(t)
  BY <1>2, OnPageFacts, ReqLoad, ReqCleanup
<1>3. CASE OnResumed(t)
  <2>1. Rests
    BY ZenonT(60), <1>3, OnResumedFacts, OnlyMoves DEF Keeps, Stops, Rests
  <2> QED BY <1>a, <2>1
<1>4. CASE OnBoundary(t)
  <2>0. stage' = stage /\ IsTaken(t) /\ (Keeps(t, "draining") \/ Stops(t))
    BY <1>4, OnBoundaryFacts
  <2>1. Rests
    BY <2>0, OnlyMoves DEF Keeps, Stops, Rests
  <2> QED BY <1>a, <2>1
<1>5. CASE OnRefused(t)
  <2>1. /\ stage' = stage
        /\ \/ /\ Moves(t, "subscribing", est[t].gen, est[t].how, None, est[t].pending, est[t].code)
              /\ Requested(t, t, "subscribe", 0, 0, None)
           \/ ThrowEffect(t)
    BY <1>5, OnRefusedFacts
  <2>2. CASE ThrowEffect(t)
    BY <2>1, <2>2, ReqThrow
  <2>3. CASE /\ Moves(t, "subscribing", est[t].gen, est[t].how, None, est[t].pending, est[t].code)
             /\ Requested(t, t, "subscribe", 0, 0, None)
    <3>1. Only(t) /\ est'[t].pc = "subscribing"
      BY <2>3, OnlyMoves
    <3>2. Asks("subscribing", "subscribe")
      BY DEF Asks
    <3> QED BY <1>0, <2>1, <2>3, <3>1, <3>2, ReqRunAsks, RequestNames
  <2> QED BY <2>1, <2>2, <2>3
<1>6. CASE OnLoadError(t)
  BY <1>6, OnLoadErrorFacts, ReqCleanup
<1>7. CASE OnCleaned(t)
  <2>1. /\ stage' = stage
        /\ EstablishEffect(t, t, gen + 1, "snapshot", {}, None) \/ ThrowEffect(t)
    BY <1>7, OnCleanedFacts
  <2> QED BY <2>1, ReqEstablish, ReqThrow
<1>8. CASE OnCleanupFailed(t)
  BY <1>8, OnCleanupFailedFacts, ReqThrow
<1>9. CASE DrainSkip(t)
  <2>1. Goes
    BY <1>9, DrainSkipFacts, OnlyMoves DEF channel, Drains, Goes
  <2> QED BY <1>b, <2>1
<1>10. CASE DrainReduce(t)
  <2>1. /\ Drains(t) /\ stage' = stage
        /\ \/ Keeps(t, "reduced") /\ calls' = calls
           \/ CleanupEffect(t, Rejected(Held(t)))
    BY <1>10, DrainReduceFacts
  <2>2. CASE CleanupEffect(t, Rejected(Held(t)))
    BY <2>1, <2>2, ReqCleanup
  <2>3. CASE Keeps(t, "reduced") /\ calls' = calls
    <3>1. Goes
      BY <2>1, <2>3, OnlyMoves DEF Drains, Keeps, Goes
    <3> QED BY <1>b, <3>1
  <2> QED BY <2>1, <2>2, <2>3
<1>11. CASE DrainAck(t)
  <2>1. /\ est[t].pc = "reduced" /\ stage' = stage
        /\ \/ Keeps(t, "acking") /\ Requested(t, t, "ack", Held(t).sub, 0, HeldCursor(t))
           \/ /\ calls' = calls
              /\ Moves(t, "draining", est[t].gen, est[t].how, est[t].cursor, Tail(est[t].pending), est[t].code)
    BY <1>11, DrainAckFacts
  <2>2. CASE Keeps(t, "acking") /\ Requested(t, t, "ack", Held(t).sub, 0, HeldCursor(t))
    <3>1. Only(t) /\ est'[t].pc = "acking"
      BY <2>2, OnlyMoves DEF Keeps
    <3>2. Asks("acking", "ack")
      BY DEF Asks
    <3> QED BY <1>0, <2>1, <2>2, <3>1, <3>2, ReqRunAsks, RequestNames
  <2>3. CASE /\ calls' = calls
             /\ Moves(t, "draining", est[t].gen, est[t].how, est[t].cursor, Tail(est[t].pending), est[t].code)
    <3>1. Goes
      BY <2>1, <2>3, OnlyMoves DEF Goes
    <3> QED BY <1>b, <3>1
  <2> QED BY <2>1, <2>2, <2>3
<1>12. CASE OnDrainAcked(t)
  <2>1. Rests
    BY <1>12, OnDrainAckedFacts, OnlyMoves DEF Rests
  <2> QED BY <1>a, <2>1
<1>13. CASE Established(t)
  <2>1. Goes
    BY <1>13, EstablishedFacts, OnlyMoves DEF channel, Drains, Goes
  <2> QED BY <1>b, <2>1
<1> QED BY <1>1, <1>2, <1>3, <1>4, <1>5, <1>6, <1>7, <1>8, <1>9, <1>10, <1>11, <1>12, <1>13 DEF EstablishNext

\* The chain took a response, or none, and its first delivery is over.
LEMMA ReqDelivered ==
    ASSUME TypeOK, RequestsOK, est' = est, stage' = "next", IsTaken("delivery")
    PROVE  RequestsOK'
<1>1. /\ "delivery" \in Activities /\ Where("delivery")' = "next"
      /\ \A v \in Activities : v # "delivery" => Where(v)' = Where(v)
  BY WhereDelivers
<1>2. "next" \in Resting
  BY DEF Resting
<1> QED BY <1>1, <1>2, ReqTaken

LEMMA ReqFailing ==
    ASSUME TypeOK, FramesOK, RequestsOK, NEW code, FailedEffect(code), stage' = "next"
    PROVE  RequestsOK'
<1>1. \/ RecoverEffect(RecoverHow(code))
      \/ IsTaken("delivery") /\ est' = est
  BY DEF FailedEffect
<1>2. CASE IsTaken("delivery") /\ est' = est
  BY <1>2, ReqDelivered
<1>3. CASE RecoverEffect(RecoverHow(code))
  <2>1. PICK how : how = RecoverHow(code)
    OBVIOUS
  <2>2. \/ IsTaken("delivery") /\ est' = est
        \/ /\ est["recovery"].pc = "idle" /\ Moves("recovery", "unsubscribing", 0, how, None, <<>>, "")
           /\ Requested("delivery", "recovery", "unsubscribe", curSub, 0, None)
        \/ est["recovery"].pc = "idle" /\ EstablishEffect("delivery", "recovery", gen + 2, how, proj, acked)
    BY <1>3, <2>1 DEF RecoverEffect
  <2>3. CASE IsTaken("delivery") /\ est' = est
    BY <2>3, ReqDelivered
  <2>4. ASSUME NEW kind, NEW c, NEW s, est["recovery"].pc = "idle", Only("recovery"), kind \in Kinds,
               Requested("delivery", "recovery", kind, s, 0, c), Asks(est'["recovery"].pc, kind)
        PROVE  RequestsOK'
    <3>1. /\ "delivery" \in Activities /\ "recovery" \in Activities /\ "recovery" \in Runs
          /\ Where("delivery")' = "next" /\ "next" \in Resting /\ "idle" \in Resting
      BY DEF Activities, Runs, Resting, Where
    <3>2. /\ Where("recovery")' = est'["recovery"].pc /\ Where("recovery") = "idle"
          /\ \A v \in Activities : v # "recovery" /\ v # "delivery" => Where(v)' = Where(v)
      BY <2>4, <3>1, WhereMoves
    <3>3. calls["recovery"].state = "none"
      BY <3>1, <3>2 DEF RequestsOK, AwaitedOK, Awaited
    <3>4. SentUp
      BY DEF FramesOK
    <3> QED BY <2>4, <3>1, <3>2, <3>3, <3>4, ReqRequested
  <2>5. CASE /\ est["recovery"].pc = "idle" /\ Moves("recovery", "unsubscribing", 0, how, None, <<>>, "")
             /\ Requested("delivery", "recovery", "unsubscribe", curSub, 0, None)
    <3>1. Only("recovery") /\ est'["recovery"].pc = "unsubscribing"
      BY <2>5, OnlyMoves
    <3>2. Asks("unsubscribing", "unsubscribe")
      BY DEF Asks
    <3> QED BY <2>4, <2>5, <3>1, <3>2, RequestNames
  <2>6. CASE est["recovery"].pc = "idle" /\ EstablishEffect("delivery", "recovery", gen + 2, how, proj, acked)
    <3>1. Only("recovery") /\ est'["recovery"].pc = "subscribing"
      BY <2>6, OnlyMoves DEF EstablishEffect
    <3>2. PICK c : Requested("delivery", "recovery", "subscribe", 0, 0, c)
      BY <2>6 DEF EstablishEffect
    <3>3. Asks("subscribing", "subscribe")
      BY DEF Asks
    <3> QED BY <2>4, <2>6, <3>1, <3>2, <3>3, RequestNames
  <2> QED BY <2>2, <2>3, <2>5, <2>6
<1> QED BY <1>1, <1>2, <1>3

LEMMA ReqDeliveries ==
    ASSUME TypeOK, FramesOK, RequestsOK,
           DeliverSkip \/ DeliverReduce \/ DeliverFails \/ DeliverAck \/ OnAcked \/ OnAckError
    PROVE  RequestsOK'
<1> DEFINE Goes == est' = est /\ calls' = calls /\ stage \in {"next", "reduced"} /\ stage' \in {"next", "reduced"}
<1>0. Goes => RequestsOK'
  <2> SUFFICES ASSUME Goes PROVE RequestsOK'
    OBVIOUS
  <2>1. /\ "delivery" \in Activities /\ Where("delivery")' = stage' /\ Where("delivery") = stage
        /\ \A v \in Activities : v # "delivery" => Where(v)' = Where(v)
    BY WhereDelivers
  <2>2. stage \in Resting /\ stage' \in Resting
    BY DEF Resting
  <2> QED BY <2>1, <2>2, ReqSame
<1> HIDE DEF Goes
<1>1. CASE DeliverSkip
  <2>1. Goes
    BY <1>1, DeliverSkipFacts DEF channel, Goes
  <2> QED BY <1>0, <2>1
<1>2. CASE DeliverReduce
  <2>1. Goes
    BY <1>2, DeliverReduceFacts DEF channel, Goes
  <2> QED BY <1>0, <2>1
<1>3. CASE DeliverFails
  BY <1>3, DeliverFailsFacts, ReqFailing
<1>4. CASE DeliverAck
  <2>1. /\ stage = "reduced" /\ est' = est
        /\ \/ stage' = "acking" /\ Requested("delivery", "delivery", "ack", First.sub, 0, FirstCursor)
           \/ stage' = "next" /\ calls' = calls
    BY <1>4, DeliverAckFacts
  <2>2. CASE stage' = "next" /\ calls' = calls
    <3>1. Goes
      BY <2>1, <2>2 DEF Goes
    <3> QED BY <1>0, <3>1
  <2>3. CASE stage' = "acking" /\ Requested("delivery", "delivery", "ack", First.sub, 0, FirstCursor)
    <3>1. /\ "delivery" \in Activities /\ Where("delivery")' = "acking"
          /\ \A v \in Activities : v # "delivery" => Where(v)' = Where(v)
      BY <2>1, <2>3, WhereDelivers
    <3>2. Asks("acking", "ack") /\ SentUp
      BY DEF Asks, FramesOK
    <3> QED BY <2>3, <3>1, <3>2, ReqRequested, RequestNames
  <2> QED BY <2>1, <2>2, <2>3
<1>5. CASE OnAcked
  BY <1>5, OnAckedFacts, ReqDelivered
<1>6. CASE OnAckError
  <2>1. /\ stage' = "next"
        /\ FailedEffect(calls["delivery"].code) \/ (IsTaken("delivery") /\ est' = est)
    BY <1>6, OnAckErrorFacts
  <2> QED BY <2>1, ReqFailing, ReqDelivered
<1> QED BY <1>1, <1>2, <1>3, <1>4, <1>5, <1>6

LEMMA ReqOthers ==
    ASSUME TypeOK, FramesOK, LossInv, RequestsOK, Join \/ JoinClosed \/ OnReleased \/ CloseUnsubscribes \/ OnClosed \/ Close
    PROVE  RequestsOK'
<1>0. "close" \in Runs /\ "idle" \in Resting /\ "joining" \in Resting
  BY DEF Runs, Resting
<1>1. CASE Join
  BY <1>1, JoinFacts, ReqEstablish
<1>2. CASE JoinClosed
  BY <1>2, JoinClosedFacts, ReqThrow
<1>3. CASE OnReleased
  BY <1>3, OnReleasedFacts, ReqEstablish
<1>4. CASE CloseUnsubscribes
  <2>1. /\ est["close"].pc = "joining" /\ stage' = stage
        /\ \/ Moves("close", "idle", 0, "resume", None, <<>>, "") /\ calls' = calls
           \/ /\ Moves("close", "closing", 0, "resume", None, <<>>, "")
              /\ Requested("close", "close", "unsubscribe", curSub, 0, None)
    BY <1>4, CloseUnsubscribesFacts
  <2>2. CASE Moves("close", "idle", 0, "resume", None, <<>>, "") /\ calls' = calls
    <3>1. Only("close") /\ est'["close"].pc = "idle"
      BY <2>2, OnlyMoves
    <3> QED BY <1>0, <2>1, <2>2, <3>1, ReqRunGoes
  <2>3. CASE /\ Moves("close", "closing", 0, "resume", None, <<>>, "")
             /\ Requested("close", "close", "unsubscribe", curSub, 0, None)
    <3>1. Only("close") /\ est'["close"].pc = "closing"
      BY <2>3, OnlyMoves
    <3>2. Asks("closing", "unsubscribe")
      BY DEF Asks
    <3> QED BY <1>0, <2>1, <2>3, <3>1, <3>2, ReqRunAsks, RequestNames
  <2> QED BY <2>1, <2>2, <2>3
<1>5. CASE OnClosed
  <2>1. Only("close") /\ est'["close"].pc = "idle" /\ stage' = stage /\ IsTaken("close")
    BY <1>5, OnClosedFacts, OnlyMoves
  <2> QED BY <1>0, <2>1, ReqRunRests
<1>6. CASE Close
  <2>1. Only("close") /\ est'["close"].pc = "joining" /\ stage' = stage /\ calls' = calls /\ ~closed
    BY <1>6, CloseFacts, OnlyMoves DEF channel
  <2>2. est["close"].pc = "idle"
    BY <2>1 DEF LossInv, ClosingOK
  <2> QED BY <1>0, <2>1, <2>2, ReqRunGoes
<1> QED BY <1>1, <1>2, <1>3, <1>4, <1>5, <1>6

LEMMA ReqConnections ==
    ASSUME TypeOK, RequestsOK, Drop \/ DaemonRestarts \/ Reconnect \/ Rebind
    PROVE  RequestsOK'
<1>1. CASE Drop \/ DaemonRestarts
  <2>1. IsFailed("nobody") /\ UNCHANGED <<est, stage>>
    BY <1>1, DropFacts, DaemonRestartsFacts
  <2>2. "nobody" \notin Activities /\ \A v \in Activities : Where(v)' = Where(v)
    BY <2>1 DEF Activities, Where
  <2> QED BY <2>1, <2>2, ReqFailed
<1>3. CASE Reconnect \/ Rebind
  <2>1. /\ est["main"].pc = "idle" /\ calls' = calls /\ stage' = stage
        /\ est' = est \/ Moves("main", "joining", 0, "resume", None, <<>>, "")
    BY <1>3, ConnectFacts DEF ConnectEffect
  <2>2. CASE est' = est
    BY <2>1, <2>2, ReqSame DEF Where
  <2>3. CASE Moves("main", "joining", 0, "resume", None, <<>>, "")
    <3>1. Only("main") /\ est'["main"].pc = "joining"
      BY <2>3, OnlyMoves
    <3>2. "main" \in Runs /\ "idle" \in Resting /\ "joining" \in Resting
      BY DEF Runs, Resting
    <3> QED BY <2>1, <3>1, <3>2, ReqRunGoes
  <2> QED BY <2>1, <2>2, <2>3
<1> QED BY <1>1, <1>3

LEMMA ReqDaemon ==
    ASSUME TypeOK, RequestsOK, DaemonStep
    PROVE  RequestsOK'
<1>0. UNCHANGED <<est, stage>>
  BY DEF DaemonStep
<1>1. CASE calls' = calls
  BY <1>0, <1>1, ReqSame DEF Where
<1>2. ASSUME NEW t \in Activities,
             \/ SubscribeSnapshot(t) \/ SubscribeResumed(t) \/ SubscribeRefused(t)
             \/ SnapshotPage(t) \/ Acknowledge(t) \/ AcknowledgeRefused(t) \/ Unsubscribe(t)
      PROVE  RequestsOK'
  <2>1. \E kind \in {"subscribe", "history", "ack", "unsubscribe"} : \E answer, s, start, count, code :
           Executes(t, kind) /\ Answers(kind, answer) /\ Respond(t, answer, s, start, count, code)
    <3>1. CASE SubscribeSnapshot(t) \/ SubscribeResumed(t) \/ SubscribeRefused(t)
      <4>1. Executes(t, "subscribe") /\ \E answer \in {"snapshot", "resumed", "error"} : \E s, start, count, code :
               Respond(t, answer, s, start, count, code)
        BY <3>1, Zenon DEF SubscribeSnapshot, SubscribeResumed, SubscribeRefused, Failure
      <4>2. \A answer \in {"snapshot", "resumed", "error"} : Answers("subscribe", answer)
        BY DEF Answers
      <4> QED BY <4>1, <4>2
    <3>2. CASE SnapshotPage(t)
      <4>1. Executes(t, "history") /\ \E answer \in {"page", "error"} : \E s, start, count, code :
               Respond(t, answer, s, start, count, code)
        BY <3>2, Zenon DEF SnapshotPage, Failure
      <4>2. \A answer \in {"page", "error"} : Answers("history", answer)
        BY DEF Answers
      <4> QED BY <4>1, <4>2
    <3>3. CASE Acknowledge(t) \/ AcknowledgeRefused(t)
      <4>1. Executes(t, "ack") /\ \E answer \in {"acked", "error"} : \E s, start, count, code :
               Respond(t, answer, s, start, count, code)
        BY <3>3, Zenon DEF Acknowledge, AcknowledgeRefused, Failure, Success
      <4>2. \A answer \in {"acked", "error"} : Answers("ack", answer)
        BY DEF Answers
      <4> QED BY <4>1, <4>2
    <3>4. CASE Unsubscribe(t)
      <4>1. Executes(t, "unsubscribe") /\ \E answer \in {"unsubscribed", "error"} : \E s, start, count, code :
               Respond(t, answer, s, start, count, code)
        BY <3>4, Zenon DEF Unsubscribe, Failure, Success
      <4>2. \A answer \in {"unsubscribed", "error"} : Answers("unsubscribe", answer)
        BY DEF Answers
      <4> QED BY <4>1, <4>2
    <3> QED BY <1>2, <3>1, <3>2, <3>3, <3>4
  <2>2. PICK kind \in {"subscribe", "history", "ack", "unsubscribe"} : \E answer, s, start, count, code :
           Executes(t, kind) /\ Answers(kind, answer) /\ Respond(t, answer, s, start, count, code)
    BY <2>1
  <2>5. PICK answer, s, start, count, code :
           Executes(t, kind) /\ Answers(kind, answer) /\ Respond(t, answer, s, start, count, code)
    BY <2>2
  <2>3. calls \in [Activities -> Call] /\ calls[t] \in Call
    BY DEF TypeOK, ChannelTypeOK
  <2>4. kind \in Kinds
    BY RequestNames
  <2> QED BY <1>0, <2>5, <2>3, <2>4, ReqAnswered
<1>3. DaemonNext
  BY DEF DaemonStep
<1>4. EventStored \/ CursorExpires \/ OtherCursor \/ (\E c \in 1..conn : ConnectionClosed(c)) \/ (\E s \in Subs : SnapshotExpires(s))
        => calls' = calls
  BY DEF EventStored, ConnectionClosed, CursorExpires, OtherCursor, SnapshotExpires, channel
<1> QED BY <1>1, <1>2, <1>3, <1>4 DEF DaemonNext

LEMMA NextRequests == TypeOK /\ FramesOK /\ LossInv /\ RequestsOK /\ [Next]_vars => RequestsOK'
<1> SUFFICES ASSUME TypeOK, FramesOK, LossInv, RequestsOK, [Next]_vars PROVE RequestsOK'
  OBVIOUS
<1>1. CASE UNCHANGED vars
  BY <1>1, ReqSame DEF vars, channel, Where
<1>2. CASE ViewNext
  <2>1. CASE \E s \in Subs : OnEvent(s)
    <3>1. PICK s \in Subs : OnEvent(s)
      BY <2>1
    <3>2. EventEffect(s)
      BY <3>1, OnEventFacts
    <3>3. UNCHANGED <<calls, stage>>
      BY <3>2 DEF EventEffect
    <3>4. CASE ~Holds
      BY <3>2, <3>3, <3>4, ReqSame DEF EventEffect, Where
    <3>5. CASE Holds
      <4>1. PICK t \in {"main", "recovery"} : t = bound
        BY <3>2, <3>5 DEF EventEffect
      <4>2. Only(t) /\ est'[t].pc = est[t].pc /\ t \in Runs
        BY <3>2, <3>5, <4>1, OnlyMoves DEF EventEffect, Runs
      <4> QED BY <3>3, <4>2, ReqRunGoes
    <3> QED BY <3>4, <3>5
  <2> QED BY <1>2, <2>1, ReqRuns, ReqDeliveries, ReqOthers DEF ViewNext
<1>3. CASE Drop \/ DaemonRestarts \/ Reconnect \/ Rebind \/ Close
  BY <1>3, ReqConnections, ReqOthers
<1>4. CASE DaemonStep
  BY <1>4, ReqDaemon
<1> QED BY <1>1, <1>2, <1>3, <1>4 DEF Next

LEMMA InitRequests == Init => RequestsOK
<1> SUFFICES ASSUME Init PROVE RequestsOK
  OBVIOUS
<1>1. /\ est = [t \in Runs |-> Idle] /\ stage = "next" /\ calls = [t \in Activities |-> NoCall]
  BY DEF Init
<1>2. \A t \in Activities : Where(t) \in Resting
  BY <1>1 DEF Where, Activities, Runs, Idle, At, Resting
<1>3. \A t \in Activities : calls[t].state = "none" /\ calls[t].ahead = {}
  BY <1>1, NoCallFields
<1> QED BY <1>2, <1>3 DEF RequestsOK, AwaitedOK, Awaited, AheadOK

\* Every response a client holds is one to the request its activity awaits: no activity asks
\* before its last response was taken (establish(), handleDeliveryFailure, close() and the chain
\* of deliveries), whatever fails, and requests on the connection (sendRequest, dispatch) wait
\* for each other in the order in which they were sent, so never for one another.
THEOREM RequestsAnswered == Spec => []RequestsOK
<1>1. Init => LossInv
  BY InitLoss
<1>2. TypeOK /\ FramesOK /\ LossInv /\ [Next]_vars => LossInv'
  BY NextLoss
<1> QED BY <1>1, <1>2, InitRequests, NextRequests, FramesCorrect, PTL DEF Spec

=============================================================================

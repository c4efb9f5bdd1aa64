----------------------- MODULE PromptDeliveryProofs -----------------------
(***************************************************************************)
(* Machine-checked proofs about the way of a prompt: PromptQueue and the   *)
(* Interactions it extends, in the daemon, for any items, requeues,        *)
(* questions and responses, and any number of crashes and failed appends;  *)
(* and Client, in the SDK, for any deliveries and any number of lost       *)
(* connections, failures and reconnects.                                   *)
(***************************************************************************)
EXTENDS PromptQueue, Client, SequenceTheorems, WellFoundedInduction, TLAPS

(***************************************************************************)
(* The prompt queue and the interactions.                                  *)
(***************************************************************************)
Events == {"enqueued", "started", "paused", "user", "terminal"} \cup Requeues
DrainOps == {"start", "user", "terminal", "error"}
Entries ==
    [op : {"enqueue"}, of : Items, by : Priorities]
    \cup [op : {"requeue"}, of : Requeues, by : Priorities]
    \cup [op : DrainOps \cup {"pause"}, of : Items, by : {None}]
    \cup [op : {"request"}, of : Asks, by : {None}]
    \cup [op : {"resolve"}, of : Asks, by : Responses]

\* The elements of a sequence.
Els(s) == {s[n] : n \in DOMAIN s}

QueueTypeOK ==
    /\ tail \in Seq(Entries) /\ life \in [Items -> Seq(Events)]
    /\ mode \in {"up", "down", "opening"} /\ stopped \in {"no", "disposing", "broken"}
    /\ queue \in Seq(Items) /\ cur \in Items \cup {None}
    /\ drain \in {"no", "starting", "claimed", "recording", "running", "ending"}
    /\ todo \subseteq Items /\ stranded \subseteq Items

AskTypeOK ==
    /\ asked \in [Asks -> {"no", "requesting", "waiting", "over", "lost"}]
    /\ recorded \in [Asks -> Seq({"requested"} \cup Resolutions)]
    /\ pending \subseteq Asks
    /\ resolution \in [Asks -> Responses \cup {None}]
    /\ outcome \in [Asks -> Responses \cup {None, "rejected"}]
    /\ reply \in [Responses -> {"idle", "storing", "joined", "won", "refused", "failed", "lost"}]

\* Two appends that are never in flight together: of the drain, of pauseRecoveredQueue(),
\* of one enqueue, and of the answers to one question.
Clash(e, f) ==
    \/ e.op \in DrainOps /\ f.op \in DrainOps
    \/ e.op = "pause" /\ f.op = "pause"
    \/ e.op = f.op /\ e.op \in {"enqueue", "resolve"} /\ e.of = f.of
Slots(t) == \A m, n \in DOMAIN t : m # n => ~Clash(t[m], t[n])

\* An append of the drain is the one that the drain waits for.
OfDrain(e) ==
    e.op \in DrainOps => /\ e.of = cur /\ cur \in Items
                         /\ drain = CASE e.op = "start" -> "starting" [] e.op = "user" -> "recording"
                                      [] OTHER -> "ending"

\* What was checked before a request or a pause was appended holds when it is stored.
OfLog(e) ==
    /\ e.op = "enqueue" => life[e.of] = <<>>
    /\ e.op = "requeue" => Latest(ItemOf[e.of]) # None /\ ItemOf[e.of] \notin todo
    /\ e.op = "pause" => e.of \in todo

\* An answer in flight is the one that claimed the question, which has no other.
OfAsk(e) ==
    /\ e.op \in {"request", "resolve"} => asked[e.of] # "no"
    /\ e.op = "resolve" => resolution[e.of] = e.by /\ AskOf[e.by] = e.of /\ ~Resolved(e.of)

\* Nothing is in memory while the session is closed.
Closed ==
    mode # "up" => /\ tail = <<>> /\ pending = {} /\ queue = <<>> /\ drain = "no" /\ cur = None
                   /\ todo = {} /\ stranded = {}

\* Items that the queue or the drain has yet to start.
Holding(i) == i \in Els(queue) \/ (drain = "starting" /\ cur = i)

\* An item that is held is allowed to run and is not one that awaits its pause; one that
\* the drain works on was enqueued.
Allowed(i) ==
    /\ Holding(i) => Latest(i) \notin {"paused", None} /\ i \notin todo
    /\ i \in todo => i \in ShownQueued
    /\ drain # "no" /\ cur = i => Latest(i) # None

\* A turn that may still record its user message has not done so.
Unsent(i) == drain \in {"claimed", "recording"} /\ cur = i => ~Has(i, "user")

TailInv == Slots(tail) /\ (\A e \in Els(tail) : OfDrain(e)) /\ (drain # "no" => cur \in Items)

LogInv ==
    /\ \A e \in Els(tail) : OfLog(e)
    /\ \A i \in Items : Allowed(i) /\ Unsent(i)
    /\ stranded # {} => todo = {}

Written(a, x) == \E n \in DOMAIN recorded[a] : recorded[a][n] = x
Single(a) ==
    \A m, n \in DOMAIN recorded[a] :
        recorded[a][m] \in Resolutions /\ recorded[a][n] \in Resolutions => m = n

\* A question that was never asked left no trace, and one that has its answer cannot be
\* claimed again.
Answerable(a) ==
    /\ asked[a] = "no" => recorded[a] = <<>> /\ a \notin pending
    /\ Resolved(a) => a \notin pending \/ resolution[a] # None

AskInv ==
    /\ \A e \in Els(tail) : OfAsk(e)
    /\ \A a \in Asks : Answerable(a)
    /\ FirstAnswerWins

QueuePart == QueueTypeOK /\ TailInv /\ LogInv /\ RunsOnce /\ NeverImplicit /\ QueuedIsHeld
AskPart == AskTypeOK /\ AskInv
QueueInv == QueuePart /\ AskPart /\ Closed

-----------------------------------------------------------------------------
\* What an entry of each kind holds.
LEMMA EntryFacts ==
    ASSUME NEW e \in Entries
    PROVE  /\ e = Entry(e.op, e.of, e.by)
           /\ e.op \in {"enqueue", "requeue", "pause", "request", "resolve"} \cup DrainOps
           /\ e.op \in {"enqueue", "pause"} \cup DrainOps => e.of \in Items
           /\ e.op = "requeue" => e.of \in Requeues
           /\ e.op \in {"request", "resolve"} => e.of \in Asks
           /\ e.op = "resolve" => e.by \in Responses
BY DEF Entries, Entry, DrainOps

\* The entries that are appended are entries.
LEMMA EntryTypes ==
    /\ \A i \in Items, p \in Priorities : Entry("enqueue", i, p) \in Entries
    /\ \A r \in Requeues, p \in Priorities : Entry("requeue", r, p) \in Entries
    /\ \A i \in Items : \A op \in DrainOps \cup {"pause"} : Entry(op, i, None) \in Entries
    /\ \A a \in Asks : Entry("request", a, None) \in Entries
    /\ \A a \in Asks, c \in Responses : Entry("resolve", a, c) \in Entries
<1>1. \A i \in Items : \A op \in DrainOps \cup {"pause"} : Entry(op, i, None) \in Entries
  BY DEF Entry, Entries
<1>2. /\ \A i \in Items, p \in Priorities : Entry("enqueue", i, p) \in Entries
      /\ \A r \in Requeues, p \in Priorities : Entry("requeue", r, p) \in Entries
  BY DEF Entry, Entries
<1>3. /\ \A a \in Asks : Entry("request", a, None) \in Entries
      /\ \A a \in Asks, c \in Responses : Entry("resolve", a, c) \in Entries
  BY DEF Entry, Entries
<1> QED
  BY <1>1, <1>2, <1>3

\* The fields of an entry.
LEMMA Fields ==
    ASSUME NEW op, NEW of, NEW by
    PROVE  /\ Entry(op, of, by).op = op /\ Entry(op, of, by).of = of /\ Entry(op, of, by).by = by
BY DEF Entry

\* The first append is settled: the rest has nothing that clashes with it.
LEMMA PopFacts ==
    ASSUME NEW t \in Seq(Entries), t # <<>>, Slots(t)
    PROVE  /\ Head(t) \in Els(t) /\ Head(t) \in Entries
           /\ Tail(t) \in Seq(Entries) /\ Slots(Tail(t)) /\ Els(Tail(t)) \subseteq Els(t)
           /\ \A e \in Els(Tail(t)) : ~Clash(Head(t), e)
<1>1. /\ Len(t) \in Nat \ {0} /\ DOMAIN t = 1..Len(t) /\ 1 \in DOMAIN t /\ Head(t) = t[1]
      /\ Tail(t) \in Seq(Entries) /\ DOMAIN Tail(t) = 1..Len(t) - 1
      /\ \A n \in 1..Len(t) - 1 : Tail(t)[n] = t[n + 1]
  OBVIOUS
<1>2. t[1] \in Entries
  BY <1>1
<1>3. \A n \in DOMAIN Tail(t) : n + 1 \in DOMAIN t /\ n + 1 # 1 /\ Tail(t)[n] = t[n + 1]
  BY <1>1
<1>4. Slots(Tail(t))
  <2> SUFFICES ASSUME NEW m \in DOMAIN Tail(t), NEW n \in DOMAIN Tail(t), m # n
               PROVE  ~Clash(Tail(t)[m], Tail(t)[n])
    BY DEF Slots
  <2>1. m + 1 # n + 1
    BY <1>1
  <2> QED
    BY <1>3, <2>1 DEF Slots
<1>5. Els(Tail(t)) \subseteq Els(t)
  BY <1>3 DEF Els
<1>6. \A e \in Els(Tail(t)) : ~Clash(Head(t), e)
  BY <1>1, <1>3 DEF Els, Slots
<1> QED
  BY <1>1, <1>2, <1>4, <1>5, <1>6 DEF Els

\* An append that clashes with nothing in flight.
LEMMA PushFacts ==
    ASSUME NEW t \in Seq(Entries), NEW e \in Entries, Slots(t), \A f \in Els(t) : ~Clash(e, f)
    PROVE  /\ Append(t, e) \in Seq(Entries) /\ Slots(Append(t, e))
           /\ Els(Append(t, e)) = Els(t) \cup {e}
<1> DEFINE u == Append(t, e)
<1>1. /\ u \in Seq(Entries) /\ Len(t) \in Nat /\ DOMAIN t = 1..Len(t) /\ DOMAIN u = 1..Len(t) + 1
      /\ \A n \in 1..Len(t) : u[n] = t[n]
      /\ u[Len(t) + 1] = e
  OBVIOUS
<1> HIDE DEF u
<1>2. Els(u) = Els(t) \cup {e}
  <2>1. \A n \in DOMAIN u : n \in DOMAIN t \/ n = Len(t) + 1
    BY <1>1
  <2>2. DOMAIN t \subseteq DOMAIN u /\ Len(t) + 1 \in DOMAIN u
    BY <1>1
  <2> QED
    BY <1>1, <2>1, <2>2 DEF Els
<1>3. \A x, y \in Entries : Clash(x, y) => Clash(y, x)
  BY DEF Clash
<1>4. \A n \in DOMAIN t : t[n] \in Els(t) /\ t[n] \in Entries
  BY <1>1 DEF Els
<1>5. Slots(u)
  <2> SUFFICES ASSUME NEW m \in DOMAIN u, NEW n \in DOMAIN u, m # n
               PROVE  ~Clash(u[m], u[n])
    BY DEF Slots
  <2>1. CASE m \in DOMAIN t /\ n \in DOMAIN t
    BY <1>1, <2>1 DEF Slots
  <2>2. CASE m \in DOMAIN t /\ n = Len(t) + 1
    BY <1>1, <1>3, <1>4, <2>2
  <2>3. CASE m = Len(t) + 1 /\ n \in DOMAIN t
    BY <1>1, <1>4, <2>3
  <2> QED
    BY <1>1, <2>1, <2>2, <2>3
<1> QED
  BY <1>1, <1>2, <1>5 DEF u

\* The same for the queue of items.
LEMMA QueueFacts ==
    ASSUME NEW q \in Seq(Items)
    PROVE  /\ q # <<>> => /\ Head(q) \in Items /\ Tail(q) \in Seq(Items)
                          /\ Els(q) = {Head(q)} \cup Els(Tail(q))
           /\ \A i \in Items : /\ Append(q, i) \in Seq(Items) /\ Els(Append(q, i)) = Els(q) \cup {i}
                               /\ <<i>> \o q \in Seq(Items) /\ Els(<<i>> \o q) = Els(q) \cup {i}
<1>1. ASSUME q # <<>>
      PROVE  /\ Head(q) \in Items /\ Tail(q) \in Seq(Items)
             /\ Els(q) = {Head(q)} \cup Els(Tail(q))
  <2>1. /\ Len(q) \in Nat \ {0} /\ DOMAIN q = 1..Len(q) /\ Head(q) = q[1]
        /\ Tail(q) \in Seq(Items) /\ DOMAIN Tail(q) = 1..Len(q) - 1
        /\ \A n \in 1..Len(q) - 1 : Tail(q)[n] = q[n + 1]
    BY <1>1
  <2>2. \A n \in DOMAIN q : n = 1 \/ (n - 1 \in DOMAIN Tail(q) /\ Tail(q)[n - 1] = q[n])
    BY <2>1
  <2>3. \A n \in DOMAIN Tail(q) : n + 1 \in DOMAIN q /\ Tail(q)[n] = q[n + 1]
    BY <2>1
  <2>4. 1 \in DOMAIN q /\ q[1] \in Items
    BY <2>1
  <2>5. Els(q) \subseteq {Head(q)} \cup Els(Tail(q))
    <3> SUFFICES ASSUME NEW n \in DOMAIN q
                 PROVE  q[n] = Head(q) \/ \E m \in DOMAIN Tail(q) : q[n] = Tail(q)[m]
      BY DEF Els
    <3> QED
      BY <2>1, <2>2
  <2>6. {Head(q)} \cup Els(Tail(q)) \subseteq Els(q)
    BY <2>1, <2>3, <2>4 DEF Els
  <2> QED
    BY <2>1, <2>4, <2>5, <2>6
<1>2. ASSUME NEW i \in Items
      PROVE  Append(q, i) \in Seq(Items) /\ Els(Append(q, i)) = Els(q) \cup {i}
  <2>1. /\ Append(q, i) \in Seq(Items) /\ DOMAIN q = 1..Len(q) /\ DOMAIN Append(q, i) = 1..Len(q) + 1
        /\ \A n \in 1..Len(q) : Append(q, i)[n] = q[n]
        /\ Append(q, i)[Len(q) + 1] = i /\ Len(q) \in Nat
    OBVIOUS
  <2>2. DOMAIN Append(q, i) = DOMAIN q \cup {Len(q) + 1}
    BY <2>1
  <2> QED
    BY <2>1, <2>2 DEF Els
<1>3. ASSUME NEW i \in Items
      PROVE  <<i>> \o q \in Seq(Items) /\ Els(<<i>> \o q) = Els(q) \cup {i}
  <2> DEFINE r == <<i>> \o q
  <2>1. <<i>> \in Seq(Items) /\ Len(<<i>>) = 1 /\ <<i>>[1] = i
    OBVIOUS
  <2>2. /\ r \in Seq(Items) /\ DOMAIN q = 1..Len(q) /\ Len(q) \in Nat /\ Len(r) = Len(q) + 1
        /\ r[1] = i /\ \A n \in 1..Len(q) : r[n + 1] = q[n]
    BY <2>1, ConcatProperties
  <2>3. DOMAIN r = 1..Len(q) + 1
    BY <2>2
  <2> HIDE DEF r
  <2>4. \A n \in DOMAIN r : n = 1 \/ (n - 1 \in DOMAIN q /\ r[n] = q[n - 1])
    BY <2>2, <2>3
  <2>5. 1 \in DOMAIN r /\ \A n \in DOMAIN q : n + 1 \in DOMAIN r
    BY <2>2, <2>3
  <2>6. Els(r) = Els(q) \cup {i}
    BY <2>2, <2>4, <2>5 DEF Els
  <2> QED
    BY <2>2, <2>6 DEF r
<1> QED
  BY <1>1, <1>2, <1>3

-----------------------------------------------------------------------------
\* A set of natural numbers that is not empty has a least element.
LEMMA LeastNat ==
    ASSUME NEW T \in SUBSET Nat, T # {}
    PROVE  \E x \in T : \A y \in T : x <= y
<1> DEFINE R == OpToRel(<, Nat)
<1>1. \A x, y \in Nat : x < y => <<x, y>> \in R
  BY DEF OpToRel
<1>2. IsWellFoundedOn(R, Nat)
  BY NatLessThanWellFounded
<1> HIDE DEF R
<1>3. PICK x \in T : \A y \in T : ~(<<y, x>> \in R)
  BY <1>2, WFMin
<1>4. \A y \in T : ~(y < x)
  BY <1>1, <1>3
<1>5. \A y \in T : x <= y
  BY <1>4
<1> QED
  BY <1>5

\* And a greatest one, if it is bounded.
LEMMA MaxFacts ==
    ASSUME NEW n \in Nat, NEW T \in SUBSET (1..n), T # {}
    PROVE  Max(T) \in T /\ \A y \in T : Max(T) >= y
<1> DEFINE D == {n - x : x \in T}
<1>1. D \in SUBSET Nat /\ D # {}
  <2>1. \A x \in T : n - x \in Nat
    OBVIOUS
  <2>2. PICK x \in T : TRUE
    OBVIOUS
  <2>3. n - x \in D
    BY <2>2
  <2> QED
    BY <2>1, <2>3
<1>2. PICK d \in D : \A e \in D : d <= e
  BY <1>1, LeastNat
<1>3. PICK x \in T : d = n - x
  BY <1>2
<1>4. \A y \in T : n - x <= n - y
  BY <1>2, <1>3
<1>5. \A y \in T : x >= y
  BY <1>4
<1> QED
  BY <1>5 DEF Max

\* The log of an item grows by one event.
LEMMA LogShape ==
    ASSUME QueueTypeOK, NEW i \in Items, NEW e \in Events, Log(i, e)
    PROVE  /\ life[i] \in Seq(Events) /\ Len(life[i]) \in Nat /\ DOMAIN life[i] = 1..Len(life[i])
           /\ life' \in [Items -> Seq(Events)] /\ life'[i] = Append(life[i], e) /\ life'[i] # <<>>
           /\ DOMAIN life'[i] = 1..Len(life[i]) + 1 /\ Len(life'[i]) = Len(life[i]) + 1
           /\ life'[i][Len(life[i]) + 1] = e
           /\ \A k \in 1..Len(life[i]) : life'[i][k] = life[i][k]
           /\ \A j \in Items : j # i => life'[j] = life[j]
<1>1. /\ life[i] \in Seq(Events) /\ Len(life[i]) \in Nat /\ DOMAIN life[i] = 1..Len(life[i])
      /\ life' \in [Items -> Seq(Events)] /\ life'[i] = Append(life[i], e)
      /\ \A j \in Items : j # i => life'[j] = life[j]
  BY DEF QueueTypeOK, Log
<1> QED
  BY <1>1

\* What one more event does to the log of an item.
LEMMA LogFacts ==
    ASSUME QueueTypeOK, NEW i \in Items, NEW e \in Events, Log(i, e)
    PROVE  /\ life' \in [Items -> Seq(Events)]
           /\ life'[i] = Append(life[i], e) /\ life'[i] # <<>>
           /\ \A j \in Items : j # i => life'[j] = life[j]
           /\ Latest(i)' = IF Lifecycle(e) THEN e ELSE Latest(i)
           /\ \A j \in Items : j # i => Latest(j)' = Latest(j)
           /\ \A x : Has(i, x)' <=> Has(i, x) \/ x = e
           /\ \A j \in Items : j # i => \A x : Has(j, x)' <=> Has(j, x)
<1> DEFINE n == Len(life[i])
<1>1. /\ life[i] \in Seq(Events) /\ n \in Nat /\ DOMAIN life[i] = 1..n
      /\ life' \in [Items -> Seq(Events)] /\ life'[i] = Append(life[i], e)
      /\ \A j \in Items : j # i => life'[j] = life[j]
  BY LogShape
<1>2. /\ DOMAIN life'[i] = 1..n + 1 /\ Len(life'[i]) = n + 1 /\ life'[i][n + 1] = e
      /\ \A m \in 1..n : life'[i][m] = life[i][m]
      /\ life'[i] # <<>>
  BY LogShape
<1>3. \A j \in Items : j # i => Latest(j)' = Latest(j)
  BY <1>1 DEF Latest, LatestBefore, Lifecycles
<1>4. \A x : Has(i, x)' <=> Has(i, x) \/ x = e
  <2>1. \A m \in DOMAIN life'[i] : m \in DOMAIN life[i] \/ m = n + 1
    BY <1>1, <1>2
  <2>2. DOMAIN life[i] \subseteq DOMAIN life'[i] /\ n + 1 \in DOMAIN life'[i]
    BY <1>1, <1>2
  <2> QED
    BY <1>1, <1>2, <2>1, <2>2 DEF Has
<1>5. \A j \in Items : j # i => \A x : Has(j, x)' <=> Has(j, x)
  BY <1>1 DEF Has
<1> DEFINE before == Lifecycles(i, n + 1)
           after == {m \in DOMAIN life'[i] : m < n + 2 /\ Lifecycle(life'[i][m])}
<1>6. /\ Latest(i) = IF before = {} THEN None ELSE life[i][Max(before)]
      /\ Latest(i)' = IF after = {} THEN None ELSE life'[i][Max(after)]
  <2>1. n + 1 + 1 = n + 2
    BY <1>1
  <2> QED
    BY <1>2, <2>1 DEF Latest, LatestBefore, Lifecycles, Lifecycle
<1>7. /\ before \subseteq 1..n
      /\ \A m \in 1..n : m \in before <=> Lifecycle(life[i][m])
  BY <1>1 DEF Lifecycles
<1>8. /\ after \subseteq 1..n + 1
      /\ \A m \in 1..n + 1 : m \in after <=> Lifecycle(life'[i][m])
  BY <1>1, <1>2
<1>9. CASE Lifecycle(e)
  <2>1. n + 1 \in after /\ \A m \in after : n + 1 >= m
    BY <1>1, <1>2, <1>8, <1>9
  <2>0. after \in SUBSET (1..n + 1) /\ n + 1 \in Nat /\ after # {}
    BY <1>1, <1>8, <2>1
  <2> HIDE DEF after
  <2>2. Max(after) \in after /\ \A m \in after : Max(after) >= m
    BY <2>0, MaxFacts
  <2>3. Max(after) = n + 1
    <3>1. Max(after) >= n + 1 /\ n + 1 >= Max(after) /\ Max(after) \in 1..n + 1
      BY <2>0, <2>1, <2>2
    <3> QED
      BY <1>1, <3>1
  <2>4. Latest(i)' = e
    BY <1>2, <1>6, <2>1, <2>3
  <2> QED
    BY <1>1, <1>2, <1>3, <1>4, <1>5, <1>9, <2>4
<1>10. CASE ~Lifecycle(e)
  <2>1. after = before
    BY <1>1, <1>2, <1>7, <1>8, <1>10
  <2>2. before # {} => Max(before) \in before
    BY <1>1, <1>7, MaxFacts
  <2> HIDE DEF after, before
  <2>3. Latest(i)' = Latest(i)
    <3>1. CASE before = {}
      BY <1>6, <2>1, <3>1
    <3>2. CASE before # {}
      <4>1. Max(before) \in 1..n
        BY <1>7, <2>2, <3>2
      <4> QED
        BY <1>2, <1>6, <2>1, <3>2, <4>1
    <3> QED
      BY <3>1, <3>2
  <2> QED
    BY <1>1, <1>2, <1>3, <1>4, <1>5, <1>10, <2>3
<1> QED
  BY <1>9, <1>10

\* The log is only appended to, so what preceded a position does not change.
LEMMA PastFacts ==
    ASSUME QueueTypeOK, NEW i \in Items, NEW e \in Events, Log(i, e),
           NEW m \in 1..Len(life[i]) + 1
    PROVE  LatestBefore(i, m)' = LatestBefore(i, m)
<1> DEFINE n == Len(life[i])
           before == Lifecycles(i, m)
           after == {k \in DOMAIN life'[i] : k < m /\ Lifecycle(life'[i][k])}
<1>1. /\ life[i] \in Seq(Events) /\ n \in Nat /\ DOMAIN life[i] = 1..n
      /\ DOMAIN life'[i] = 1..n + 1 /\ \A k \in 1..n : life'[i][k] = life[i][k]
  BY LogShape
<1>2. before \in SUBSET (1..n) /\ \A k \in 1..n : k \in before <=> k < m /\ Lifecycle(life[i][k])
  BY <1>1 DEF Lifecycles
<1>3. after \in SUBSET (1..n) /\ \A k \in 1..n : k \in after <=> k < m /\ Lifecycle(life'[i][k])
  BY <1>1
<1>4. after = before
  BY <1>1, <1>2, <1>3
<1>5. /\ LatestBefore(i, m) = IF before = {} THEN None ELSE life[i][Max(before)]
      /\ LatestBefore(i, m)' = IF after = {} THEN None ELSE life'[i][Max(after)]
  BY DEF LatestBefore, Lifecycles, Lifecycle
<1> HIDE DEF before, after
<1>6. before # {} => Max(before) \in 1..n
  BY <1>1, <1>2, MaxFacts
<1> QED
  BY <1>1, <1>4, <1>5, <1>6

\* A user message that is the first of its item, or another event, keeps RunsOnce.
LEMMA LogRunsOnce ==
    ASSUME QueueTypeOK, RunsOnce, NEW i \in Items, NEW e \in Events, Log(i, e),
           e = "user" => ~Has(i, "user")
    PROVE  RunsOnce'
<1> DEFINE n == Len(life[i])
<1>1. /\ n \in Nat /\ DOMAIN life[i] = 1..n /\ DOMAIN life'[i] = 1..n + 1 /\ life'[i][n + 1] = e
      /\ \A k \in 1..n : life'[i][k] = life[i][k]
      /\ \A j \in Items : j # i => life'[j] = life[j]
  BY LogShape
<1> SUFFICES ASSUME NEW j \in Items, NEW k \in DOMAIN life'[j], NEW m \in DOMAIN life'[j],
                    life'[j][k] = "user", life'[j][m] = "user"
             PROVE  k = m
  BY DEF RunsOnce
<1>2. CASE j # i
  BY <1>1, <1>2 DEF RunsOnce
<1>3. CASE j = i /\ k \in 1..n /\ m \in 1..n
  BY <1>1, <1>3 DEF RunsOnce
<1>4. CASE j = i /\ ~(k \in 1..n /\ m \in 1..n)
  <2>1. e = "user" /\ ~Has(i, "user")
    BY <1>1, <1>4
  <2>2. \A x \in 1..n : life[i][x] # "user"
    BY <1>1, <2>1 DEF Has
  <2>3. k \notin 1..n /\ m \notin 1..n
    BY <1>1, <1>4, <2>2
  <2>4. k = n + 1 /\ m = n + 1
    BY <1>1, <1>4, <2>3
  <2> QED
    BY <2>4
<1> QED
  BY <1>2, <1>3, <1>4

\* A start of an item that may run, or another event, keeps NeverImplicit.
LEMMA LogNeverImplicit ==
    ASSUME QueueTypeOK, NeverImplicit, NEW i \in Items, NEW e \in Events, Log(i, e),
           e = "started" => Latest(i) \notin {"paused", None}
    PROVE  NeverImplicit'
<1> DEFINE n == Len(life[i])
<1>1. /\ n \in Nat /\ DOMAIN life[i] = 1..n /\ DOMAIN life'[i] = 1..n + 1 /\ life'[i][n + 1] = e
      /\ \A k \in 1..n : life'[i][k] = life[i][k]
      /\ \A j \in Items : j # i => life'[j] = life[j]
  BY LogShape
<1> SUFFICES ASSUME NEW j \in Items, NEW k \in DOMAIN life'[j], life'[j][k] = "started"
             PROVE  LatestBefore(j, k)' \notin {"paused", None}
  BY DEF NeverImplicit
<1>2. CASE j # i
  <2>1. LatestBefore(j, k)' = LatestBefore(j, k)
    BY <1>1, <1>2 DEF LatestBefore, Lifecycles, Lifecycle
  <2> QED
    BY <1>1, <1>2, <2>1 DEF NeverImplicit
<1>3. CASE j = i
  <2>1. k \in 1..n + 1 /\ LatestBefore(i, k)' = LatestBefore(i, k)
    BY <1>1, <1>3, PastFacts
  <2>2. CASE k \in 1..n
    BY <1>1, <1>3, <2>1, <2>2 DEF NeverImplicit
  <2>3. CASE k = n + 1
    BY <1>1, <1>3, <2>1, <2>3 DEF Latest
  <2> QED
    BY <1>1, <2>1, <2>2, <2>3
<1> QED
  BY <1>2, <1>3

-----------------------------------------------------------------------------
\* The drain goes to its next item, or stops.
LEMMA ContinueFacts ==
    ASSUME NEW q \in Seq(Items), NEW rest \in Seq(Entries), Slots(rest), Continue(q, rest),
           \A e \in Els(rest) : e.op \notin DrainOps
    PROVE  /\ drain' \in {"no", "starting"} /\ cur' \in Items \cup {None} /\ queue' \in Seq(Items)
           /\ tail' \in Seq(Entries) /\ Slots(tail')
           /\ \A e \in Els(tail') : e \in Els(rest) \/ e.op \in DrainOps
           /\ \A e \in Els(tail') : OfDrain(e)'
           /\ \A i : Holding(i)' <=> i \in Els(q)
           /\ drain' # "no" => cur' \in Items
<1>1. CASE q # <<>> /\ stopped = "no"
  <2> DEFINE e == Entry("start", Head(q), None)
  <2>1. /\ drain' = "starting" /\ cur' = Head(q) /\ queue' = Tail(q) /\ tail' = Append(rest, e)
    BY <1>1 DEF Continue
  <2>2. /\ Head(q) \in Items /\ Tail(q) \in Seq(Items) /\ Els(q) = {Head(q)} \cup Els(Tail(q))
    BY <1>1, QueueFacts
  <2>3. e \in Entries /\ e.op = "start" /\ e.of = Head(q) /\ e.op \in DrainOps
    BY <2>2, EntryTypes, Fields DEF DrainOps
  <2> HIDE DEF e
  <2>4. \A f \in Els(rest) : ~Clash(e, f)
    BY <2>3 DEF Clash
  <2>5. tail' \in Seq(Entries) /\ Slots(tail') /\ Els(tail') = Els(rest) \cup {e}
    BY <2>1, <2>3, <2>4, PushFacts
  <2>6. \A f \in Els(tail') : OfDrain(f)'
    BY <2>1, <2>2, <2>3, <2>5 DEF OfDrain
  <2> QED
    BY <2>1, <2>2, <2>3, <2>5, <2>6 DEF Holding
<1>2. CASE ~(q # <<>> /\ stopped = "no")
  <2>1. drain' = "no" /\ cur' = None /\ queue' = q /\ tail' = rest
    BY <1>2 DEF Continue
  <2> QED
    BY <2>1 DEF Holding, OfDrain
<1> QED
  BY <1>1, <1>2

\* startQueueDrain(), when the rest of the appends is what the drain waits for.
LEMMA StartDrainFacts ==
    ASSUME QueueTypeOK, NEW q \in Seq(Items), NEW rest \in Seq(Entries), Slots(rest),
           StartDrain(q, rest), \A e \in Els(rest) : OfDrain(e), Els(queue) \subseteq Els(q)
    PROVE  /\ drain' \in {"no", "starting", "claimed", "recording", "running", "ending"}
           /\ cur' \in Items \cup {None} /\ queue' \in Seq(Items)
           /\ tail' \in Seq(Entries) /\ Slots(tail')
           /\ \A e \in Els(tail') : e \in Els(rest) \/ e.op \in DrainOps
           /\ \A e \in Els(tail') : OfDrain(e)'
           /\ \A i : Holding(i)' <=> i \in Els(q) \/ Holding(i)
           /\ drain' \in {"claimed", "recording"} => drain' = drain /\ cur' = cur
           /\ (drain # "no" => cur \in Items) => (drain' # "no" => cur' \in Items)
           /\ drain' # "no" => drain' = "starting" \/ (drain # "no" /\ cur' = cur)
<1>1. CASE drain = "no"
  <2>1. \A e \in Els(rest) : e.op \notin DrainOps
    BY <1>1 DEF OfDrain, DrainOps
  <2>2. Continue(q, rest)
    BY <1>1 DEF StartDrain
  <2>3. \A i : Holding(i) => i \in Els(q)
    BY <1>1 DEF Holding
  <2> QED
    BY <2>1, <2>2, <2>3, ContinueFacts
<1>2. CASE drain # "no"
  <2>1. queue' = q /\ tail' = rest /\ drain' = drain /\ cur' = cur
    BY <1>2 DEF StartDrain
  <2>2. \A e \in Els(rest) : OfDrain(e)'
    BY <2>1 DEF OfDrain
  <2> QED
    BY <2>1, <2>2 DEF QueueTypeOK, Holding
<1> QED
  BY <1>1, <1>2

\* A step that leaves the questions alone, and adds none to the appends.
LEMMA AskUntouched ==
    ASSUME AskPart, UNCHANGED interactionVars,
           \A e \in Els(tail') : e.op \in {"request", "resolve"} => e \in Els(tail)
    PROVE  AskPart'
<1>1. AskTypeOK'
  BY DEF AskPart, AskTypeOK, interactionVars
<1>2. \A e \in Els(tail') : OfAsk(e)'
  BY DEF AskPart, AskInv, OfAsk, interactionVars, Resolved
<1>3. \A a \in Asks : Answerable(a)'
  BY DEF AskPart, AskInv, Answerable, interactionVars, Resolved
<1>4. FirstAnswerWins'
  BY DEF AskPart, AskInv, FirstAnswerWins, interactionVars
<1> QED
  BY <1>1, <1>2, <1>3, <1>4 DEF AskPart, AskInv

\* What the clients see as queued, in terms of the latest event.
LEMMA ShownFacts == \A i \in Items : i \in ShownQueued <=> Latest(i) \in {"enqueued"} \cup Requeues
BY DEF ShownQueued

\* And what it takes to hold them.
LEMMA HeldFacts ==
    QueuedIsHeld <=> (mode = "up" /\ stopped # "broken" =>
                        \A i \in ShownQueued : Holding(i) \/ i \in todo \cup stranded)
BY DEF QueuedIsHeld, Holding, Els

\* The names of the events.
LEMMA EventFacts ==
    /\ \A e \in Events : Lifecycle(e) <=> e \in {"enqueued", "started", "paused"} \cup Requeues
    /\ \A e \in Events : Lifecycle(e) => e # None
    /\ \A r \in Requeues : r \notin {"enqueued", "started", "paused", "user", "terminal", None}
    /\ \A r \in Requeues : ItemOf[r] \in Items
BY QueueAssumption DEF Events, Lifecycle

\* What is in flight are entries.
LEMMA InFlightFacts ==
    ASSUME QueueTypeOK
    PROVE  \A e \in Els(tail) : e \in Entries
BY DEF QueueTypeOK, Els

\* An event of an item is stored: what the rest of the invariant needs of the step.
LEMMA StoreKeeps ==
    ASSUME QueuePart, NEW i \in Items, NEW ev \in Events, Log(i, ev),
           mode' = mode, stopped' = stopped, stranded' = stranded,
           todo' = IF ev = "paused" THEN todo \ {i} ELSE todo,
           drain' \in {"no", "starting", "claimed", "recording", "running", "ending"},
           cur' \in Items \cup {None}, queue' \in Seq(Items), tail' \in Seq(Entries), Slots(tail'),
           \A e \in Els(tail') : OfDrain(e)',
           \A e \in Els(tail') : \/ e.op \in DrainOps
                                 \/ /\ e \in Els(tail) /\ (e.op = "enqueue" => e.of # i)
                                    /\ e.op = "pause" => e.of \in todo',
           ev = "started" => Latest(i) \notin {"paused", None} /\ i \notin todo,
           ev = "user" => ~Has(i, "user"),
           ev = "paused" => ~Holding(i),
           ev \in {"enqueued"} \cup Requeues => Holding(i)' /\ i \notin todo,
           ev \in {"user", "terminal"} => (Holding(i) => Holding(i)'),
           \A j \in Items : Holding(j)' => Holding(j) \/ (j = i /\ ev \in {"enqueued"} \cup Requeues),
           \A j \in Items : j # i /\ Holding(j) => Holding(j)',
           drain' # "no" => cur' \in Items /\ (drain' = "starting" \/ (drain # "no" /\ cur' = cur)),
           \A j \in Items : Unsent(j)'
    PROVE  QueuePart'
<1>1. /\ QueueTypeOK /\ TailInv /\ LogInv /\ RunsOnce /\ NeverImplicit /\ QueuedIsHeld
  BY DEF QueuePart
<1>2. /\ life' \in [Items -> Seq(Events)]
      /\ \A j \in Items : j # i => life'[j] = life[j] /\ Latest(j)' = Latest(j)
      /\ Latest(i)' = IF Lifecycle(ev) THEN ev ELSE Latest(i)
  BY <1>1, LogFacts
<1>3. QueueTypeOK' /\ TailInv'
  BY <1>1, <1>2 DEF QueueTypeOK, TailInv
<1>4. RunsOnce' /\ NeverImplicit'
  BY <1>1, LogRunsOnce, LogNeverImplicit
<1>5. todo' \subseteq todo /\ (i \in todo' => ev \in {"user", "terminal"})
  BY EventFacts DEF Events
<1>6. \A e \in Els(tail') : OfLog(e)'
  <2> SUFFICES ASSUME NEW e \in Els(tail')
               PROVE  OfLog(e)'
    OBVIOUS
  <2>1. CASE e.op \in DrainOps
    BY <2>1 DEF OfLog, DrainOps
  <2>2. CASE e.op \notin DrainOps
    <3>1. e \in Els(tail) /\ e \in Entries /\ OfLog(e)
      BY <1>1, <2>2, InFlightFacts DEF LogInv
    <3>2. CASE e.op = "enqueue"
      <4>1. e.of \in Items /\ e.of # i
        BY <2>2, <3>1, <3>2, EntryFacts
      <4> QED
        BY <1>2, <3>1, <3>2, <4>1 DEF OfLog
    <3>3. CASE e.op = "requeue"
      <4>1. ItemOf[e.of] \in Items /\ ItemOf[e.of] \notin todo /\ Latest(ItemOf[e.of]) # None
        BY <3>1, <3>3, EntryFacts, EventFacts DEF OfLog
      <4>2. Latest(ItemOf[e.of])' # None
        BY <1>2, <4>1, EventFacts
      <4> QED
        BY <1>5, <3>3, <4>1, <4>2 DEF OfLog
    <3>4. CASE e.op \notin {"enqueue", "requeue"}
      BY <2>2, <3>4 DEF OfLog
    <3> QED
      BY <3>2, <3>3, <3>4
  <2> QED
    BY <2>1, <2>2
<1>7. ASSUME NEW j \in Items
      PROVE  Allowed(j)' /\ Unsent(j)'
  <2>1. Allowed(j)
    BY <1>1 DEF LogInv
  <2>2. Unsent(j)'
    OBVIOUS
  <2>3. Holding(j)' => Latest(j)' \notin {"paused", None} /\ j \notin todo'
    <3>1. CASE j # i
      BY <1>2, <1>5, <2>1, <3>1 DEF Allowed
    <3>2. CASE j = i
      BY <1>2, <1>5, <2>1, <3>2, EventFacts DEF Allowed
    <3> QED
      BY <3>1, <3>2
  <2>4. j \in todo' => j \in ShownQueued'
    <3>1. j \in todo' => Latest(j)' = Latest(j)
      BY <1>2, <1>5, EventFacts
    <3>2. j \in ShownQueued' <=> Latest(j)' \in {"enqueued"} \cup Requeues
      BY DEF ShownQueued
    <3> QED
      BY <1>5, <2>1, <3>1, <3>2, ShownFacts DEF Allowed
  <2>5. drain' # "no" /\ cur' = j => Latest(j)' # None
    BY <1>2, <2>1, <2>3, EventFacts DEF Allowed, Holding
  <2> QED
    BY <2>2, <2>3, <2>4, <2>5 DEF Allowed
<1>8. LogInv'
  BY <1>1, <1>5, <1>6, <1>7 DEF LogInv
<1>9. QueuedIsHeld'
  <2> SUFFICES ASSUME mode = "up", stopped # "broken", NEW j \in Items,
                      Latest(j)' \in {"enqueued"} \cup Requeues
               PROVE  (Holding(j) \/ j \in todo \cup stranded)'
    BY DEF QueuedIsHeld, Holding, Els, ShownQueued
  <2>1. Latest(j) \in {"enqueued"} \cup Requeues => Holding(j) \/ j \in todo \cup stranded
    BY <1>1, HeldFacts, ShownFacts
  <2>2. CASE j # i
    BY <1>2, <2>1, <2>2
  <2>3. CASE j = i
    BY <1>2, <2>1, <2>3, EventFacts DEF Events
  <2> QED
    BY <2>2, <2>3
<1> QED
  BY <1>3, <1>4, <1>8, <1>9 DEF QueuePart

\* A log that is left alone.
LEMMA PastKept ==
    ASSUME life' = life
    PROVE  /\ RunsOnce' <=> RunsOnce
           /\ NeverImplicit' <=> NeverImplicit
           /\ \A i \in Items : Latest(i)' = Latest(i) /\ \A x : Has(i, x)' <=> Has(i, x)
<1>1. \A i, n : LatestBefore(i, n)' = LatestBefore(i, n)
  BY DEF LatestBefore, Lifecycles
<1>2. RunsOnce' <=> RunsOnce
  BY DEF RunsOnce
<1>3. NeverImplicit' <=> NeverImplicit
  BY <1>1 DEF NeverImplicit
<1>4. \A i \in Items : Latest(i)' = Latest(i)
  BY <1>1 DEF Latest
<1>5. \A i \in Items : \A x : Has(i, x)' <=> Has(i, x)
  BY DEF Has
<1> QED
  BY <1>2, <1>3, <1>4, <1>5

\* A step that stores nothing about an item.
LEMMA MoveKeeps ==
    ASSUME QueuePart, life' = life,
           mode' \in {"up", "down", "opening"}, stopped' \in {"no", "disposing", "broken"},
           drain' \in {"no", "starting", "claimed", "recording", "running", "ending"},
           cur' \in Items \cup {None}, queue' \in Seq(Items), tail' \in Seq(Entries), Slots(tail'),
           todo' \subseteq todo, stranded' \subseteq Items, stranded' # {} => todo' = {},
           \A e \in Els(tail') : OfDrain(e)',
           \A e \in Els(tail') : e.op \in {"enqueue", "requeue", "pause"} => OfLog(e)',
           \A j \in Items : Holding(j)' => Holding(j),
           mode' = "up" /\ stopped' # "broken" =>
              /\ mode = "up" /\ stopped # "broken"
              /\ \A j \in Items : Holding(j) => Holding(j)'
              /\ todo \cup stranded \subseteq todo' \cup stranded',
           drain' # "no" => cur' \in Items /\ (drain' = "starting" \/ (drain # "no" /\ cur' = cur)),
           \A j \in Items : Unsent(j)'
    PROVE  QueuePart'
<1>1. /\ QueueTypeOK /\ TailInv /\ LogInv /\ RunsOnce /\ NeverImplicit /\ QueuedIsHeld
  BY DEF QueuePart
<1>2. QueueTypeOK' /\ TailInv'
  BY <1>1 DEF QueueTypeOK, TailInv
<1>3. RunsOnce' /\ NeverImplicit'
  BY <1>1, PastKept
<1>4. \A j \in Items : Latest(j)' = Latest(j)
  BY PastKept
<1>5. \A e \in Els(tail') : OfLog(e)'
  BY DEF OfLog
<1>6. \A j \in Items : Allowed(j)' /\ Unsent(j)'
  <2> SUFFICES ASSUME NEW j \in Items
               PROVE  Allowed(j)' /\ Unsent(j)'
    OBVIOUS
  <2>1. Unsent(j)'
    OBVIOUS
  <2>2. j \in ShownQueued' <=> j \in ShownQueued
    BY <1>4 DEF ShownQueued
  <2>3. Holding(j)' => Latest(j)' # None
    BY <1>1, <1>4 DEF LogInv, Allowed
  <2>4. drain' # "no" /\ cur' = j => Latest(j)' # None
    BY <1>1, <1>4, <2>3 DEF LogInv, Allowed, Holding
  <2> QED
    BY <1>1, <1>4, <2>1, <2>2, <2>4 DEF LogInv, Allowed
<1>7. QueuedIsHeld'
  <2> SUFFICES ASSUME mode' = "up", stopped' # "broken", NEW j \in Items,
                      Latest(j)' \in {"enqueued"} \cup Requeues
               PROVE  (Holding(j) \/ j \in todo \cup stranded)'
    BY DEF QueuedIsHeld, Holding, Els, ShownQueued
  <2> QED
    BY <1>1, <1>4, HeldFacts, ShownFacts
<1> QED
  BY <1>1, <1>2, <1>3, <1>5, <1>6, <1>7 DEF QueuePart, LogInv

-----------------------------------------------------------------------------
\* The append at the head of the line is settled.
LEMMA HeadFacts ==
    ASSUME QueuePart, tail # <<>>
    PROVE  /\ Head(tail) \in Entries /\ Head(tail) \in Els(tail)
           /\ OfDrain(Head(tail)) /\ OfLog(Head(tail))
           /\ Rest \in Seq(Entries) /\ Slots(Rest) /\ Els(Rest) \subseteq Els(tail)
           /\ \A e \in Els(Rest) : ~Clash(Head(tail), e)
           /\ \A e \in Els(Rest) : e \in Entries /\ OfDrain(e) /\ OfLog(e)
<1>1. tail \in Seq(Entries) /\ Slots(tail)
  BY DEF QueuePart, QueueTypeOK, TailInv
<1>2. /\ Head(tail) \in Entries /\ Head(tail) \in Els(tail)
      /\ Rest \in Seq(Entries) /\ Slots(Rest) /\ Els(Rest) \subseteq Els(tail)
      /\ \A e \in Els(Rest) : ~Clash(Head(tail), e)
  BY <1>1, PopFacts DEF Rest
<1> QED
  BY <1>2, InFlightFacts DEF QueuePart, TailInv, LogInv

\* When it is an append of the drain, it is the one the drain waits for, and the only one.
LEMMA DrainHead ==
    ASSUME QueuePart, NEW op \in DrainOps, NEW i \in Items, Head_(op, i, None)
    PROVE  /\ cur = i /\ (op = "start" => drain = "starting") /\ (op = "user" => drain = "recording")
           /\ (op \in {"terminal", "error"} => drain = "ending")
           /\ \A e \in Els(Rest) : e.op \notin DrainOps
<1>1. tail # <<>> /\ Head(tail) = Entry(op, i, None) /\ Head(tail).op = op /\ Head(tail).of = i
  BY Fields DEF Head_
<1>2. OfDrain(Head(tail)) /\ \A e \in Els(Rest) : ~Clash(Head(tail), e)
  BY <1>1, HeadFacts
<1> QED
  BY <1>1, <1>2 DEF OfDrain, Clash, DrainOps

\* A queue with an item placed in it.
LEMMA PlacedFacts ==
    ASSUME QueueTypeOK, NEW i \in Items, NEW p
    PROVE  Placed(i, p) \in Seq(Items) /\ Els(Placed(i, p)) = Els(queue) \cup {i}
BY QueueFacts DEF QueueTypeOK, Placed

\* A turn that has yet to record its user message, while another event is stored.
LEMMA UnsentKeeps ==
    ASSUME QueuePart, NEW i \in Items, NEW ev \in Events, Log(i, ev), ev # "user",
           drain' \in {"claimed", "recording"} => drain' = drain /\ cur' = cur
    PROVE  \A j \in Items : Unsent(j)'
<1> SUFFICES ASSUME NEW j \in Items, drain' \in {"claimed", "recording"}, cur' = j
             PROVE  ~Has(j, "user")'
  BY DEF Unsent
<1>1. ~Has(j, "user")
  BY DEF QueuePart, LogInv, Unsent
<1> QED
  BY <1>1, LogFacts DEF QueuePart

\* An item is placed in the queue and the drain is woken.
LEMMA PlacedKeeps ==
    ASSUME QueuePart, AskPart, tail # <<>>, NEW i \in Items, NEW p,
           NEW ev \in {"enqueued"} \cup Requeues, Log(i, ev), StartDrain(Placed(i, p), Rest),
           mode' = mode, stopped' = stopped, todo' = todo, stranded' = stranded,
           UNCHANGED interactionVars, i \notin todo,
           \A e \in Els(Rest) : e.op = "enqueue" => e.of # i
    PROVE  QueuePart' /\ AskPart'
<1>1. ev \in Events /\ ev \notin {"user", "terminal", "started", "paused"}
  BY EventFacts DEF Events
<1>2. QueueTypeOK /\ Els(queue) \subseteq Els(Placed(i, p)) /\ Placed(i, p) \in Seq(Items)
  BY PlacedFacts DEF QueuePart
<1>3. /\ drain' \in {"no", "starting", "claimed", "recording", "running", "ending"}
      /\ cur' \in Items \cup {None} /\ queue' \in Seq(Items)
      /\ tail' \in Seq(Entries) /\ Slots(tail')
      /\ \A e \in Els(tail') : e \in Els(Rest) \/ e.op \in DrainOps
      /\ \A e \in Els(tail') : OfDrain(e)'
      /\ \A j : Holding(j)' <=> j \in Els(Placed(i, p)) \/ Holding(j)
      /\ drain' \in {"claimed", "recording"} => drain' = drain /\ cur' = cur
      /\ drain' # "no" => cur' \in Items
      /\ drain' # "no" => drain' = "starting" \/ (drain # "no" /\ cur' = cur)
  BY <1>2, HeadFacts, StartDrainFacts DEF QueuePart, TailInv
<1>4. \A j \in Items : Holding(j)' <=> j = i \/ Holding(j)
  BY <1>2, <1>3, PlacedFacts DEF Holding
<1>5. \A e \in Els(Rest) : e \in Els(tail) /\ (e.op = "pause" => e.of \in todo')
  BY HeadFacts DEF OfLog
<1>6. \A j \in Items : Unsent(j)'
  BY <1>1, <1>3, UnsentKeeps
<1>7. QueuePart'
  BY <1>1, <1>3, <1>4, <1>5, <1>6, StoreKeeps
<1>8. AskPart'
  BY <1>3, <1>5, AskUntouched DEF DrainOps
<1> QED
  BY <1>7, <1>8

\* queue.enqueued is stored.
LEMMA EnqueueStoredKeeps ==
    ASSUME QueuePart, AskPart, NEW i \in Items, NEW p \in Priorities, EnqueueStored(i, p)
    PROVE  QueuePart' /\ AskPart'
<1>1. /\ tail # <<>> /\ Head(tail) = Entry("enqueue", i, p) /\ Log(i, "enqueued")
      /\ StartDrain(Placed(i, p), Rest)
      /\ mode' = mode /\ stopped' = stopped /\ todo' = todo /\ stranded' = stranded
      /\ UNCHANGED interactionVars
  BY DEF EnqueueStored, Head_, recovery
<1>2. Head(tail).op = "enqueue" /\ Head(tail).of = i
  BY <1>1, Fields
<1>3. i \notin todo
  <2>1. Latest(i) = None
    BY <1>1, <1>2, HeadFacts DEF OfLog, Latest, LatestBefore, Lifecycles
  <2> QED
    BY <2>1, EventFacts, ShownFacts, QueueAssumption DEF QueuePart, LogInv, Allowed
<1>4. \A e \in Els(Rest) : e.op = "enqueue" => e.of # i
  BY <1>1, <1>2, HeadFacts DEF Clash
<1> QED
  BY <1>1, <1>3, <1>4, PlacedKeeps

\* queue.requeued is stored.
LEMMA RequeueStoredKeeps ==
    ASSUME QueuePart, AskPart, NEW r \in Requeues, NEW p \in Priorities, RequeueStored(r, p)
    PROVE  QueuePart' /\ AskPart'
<1>1. /\ tail # <<>> /\ Head(tail) = Entry("requeue", r, p) /\ Log(ItemOf[r], r)
      /\ StartDrain(Placed(ItemOf[r], p), Rest)
      /\ mode' = mode /\ stopped' = stopped /\ todo' = todo /\ stranded' = stranded
      /\ UNCHANGED interactionVars
  BY DEF RequeueStored, Head_, recovery
<1>2. Head(tail).op = "requeue" /\ Head(tail).of = r /\ ItemOf[r] \in Items
  BY <1>1, Fields, EventFacts
<1>3. ItemOf[r] \notin todo /\ Latest(ItemOf[r]) # None
  BY <1>1, <1>2, HeadFacts DEF OfLog
<1>4. \A e \in Els(Rest) : e.op = "enqueue" => e.of # ItemOf[r]
  <2>1. life[ItemOf[r]] # <<>>
    BY <1>3 DEF Latest, LatestBefore, Lifecycles
  <2> QED
    BY <1>1, <2>1, HeadFacts DEF OfLog
<1> QED
  BY <1>1, <1>2, <1>3, <1>4, PlacedKeeps

-----------------------------------------------------------------------------
\* The append that the drain waits for next.
LEMMA DrainAppend ==
    ASSUME NEW rest \in Seq(Entries), Slots(rest), \A e \in Els(rest) : e.op \notin DrainOps,
           NEW i \in Items, NEW op \in DrainOps, tail' = Append(rest, Entry(op, i, None)), cur' = i,
           drain' = CASE op = "start" -> "starting" [] op = "user" -> "recording" [] OTHER -> "ending"
    PROVE  /\ tail' \in Seq(Entries) /\ Slots(tail')
           /\ \A e \in Els(tail') : e \in Els(rest) \/ e.op \in DrainOps
           /\ \A e \in Els(tail') : OfDrain(e)'
<1> DEFINE e == Entry(op, i, None)
<1>1. e \in Entries /\ e.op = op /\ e.of = i
  BY EntryTypes, Fields
<1> HIDE DEF e
<1>2. \A f \in Els(rest) : ~Clash(e, f)
  BY <1>1 DEF Clash, DrainOps
<1>3. tail' \in Seq(Entries) /\ Slots(tail') /\ Els(tail') = Els(rest) \cup {e}
  BY <1>1, <1>2, PushFacts DEF e
<1>4. \A f \in Els(tail') : OfDrain(f)'
  BY <1>1, <1>3 DEF OfDrain
<1> QED
  BY <1>1, <1>3, <1>4

\* What Rest needs once the event of the drain is stored, or its append has failed.
LEMMA RestFacts ==
    ASSUME QueuePart, tail # <<>>
    PROVE  /\ \A e \in Els(Rest) : e \in Els(tail) /\ (e.op = "pause" => e.of \in todo)
           /\ \A e \in Els(Rest), i \in Items :
                Latest(i) # None => (e.op = "enqueue" => e.of # i)
<1>1. \A i \in Items : Latest(i) # None => life[i] # <<>>
  BY DEF Latest, LatestBefore, Lifecycles
<1> QED
  BY <1>1, HeadFacts DEF OfLog

\* queue.started is stored: send() answers from the log, finishes a turn that was cut off,
\* or claims the branch.
LEMMA StartedKeeps ==
    ASSUME QueuePart, AskPart, NEW i \in Items, Started(i)
    PROVE  QueuePart' /\ AskPart'
<1>1. /\ tail # <<>> /\ Head_("start", i, None) /\ Log(i, "started")
      /\ mode' = mode /\ stopped' = stopped /\ todo' = todo /\ stranded' = stranded
      /\ UNCHANGED interactionVars
  BY DEF Started, Head_, recovery
<1>2. cur = i /\ drain = "starting" /\ \A e \in Els(Rest) : e.op \notin DrainOps
  BY <1>1, DrainHead DEF DrainOps
<1>3. Latest(i) \notin {"paused", None} /\ i \notin todo
  BY <1>2 DEF QueuePart, LogInv, Allowed, Holding
<1>4. /\ QueueTypeOK /\ queue \in Seq(Items) /\ Rest \in Seq(Entries) /\ Slots(Rest)
  BY <1>1, HeadFacts DEF QueuePart, QueueTypeOK
<1>5. /\ drain' \in {"no", "starting", "claimed", "ending"} /\ cur' \in Items \cup {None}
      /\ queue' \in Seq(Items) /\ tail' \in Seq(Entries) /\ Slots(tail')
      /\ \A e \in Els(tail') : e \in Els(Rest) \/ e.op \in DrainOps
      /\ \A e \in Els(tail') : OfDrain(e)'
      /\ \A j : Holding(j)' <=> j \in Els(queue)
      /\ drain' # "no" => cur' \in Items /\ (drain' = "starting" \/ cur' = i)
      /\ drain' = "claimed" => cur' = i /\ ~Has(i, "user")
  <2>1. CASE "terminal" \in Evidence(i)
    <3>1. Continue(queue, Rest)
      BY <2>1 DEF Started
    <3> QED
      BY <1>2, <1>4, <3>1, ContinueFacts
  <2>2. ASSUME NEW op \in {"terminal", "error"}, Proceed("ending", op)
        PROVE  /\ drain' \in {"no", "starting", "claimed", "ending"} /\ cur' \in Items \cup {None}
               /\ queue' \in Seq(Items) /\ tail' \in Seq(Entries) /\ Slots(tail')
               /\ \A e \in Els(tail') : e \in Els(Rest) \/ e.op \in DrainOps
               /\ \A e \in Els(tail') : OfDrain(e)'
               /\ \A j : Holding(j)' <=> j \in Els(queue)
               /\ drain' # "no" => cur' \in Items /\ (drain' = "starting" \/ cur' = i)
               /\ drain' = "claimed" => cur' = i /\ ~Has(i, "user")
    <3>1. /\ drain' = "ending" /\ tail' = Append(Rest, Entry(op, i, None)) /\ queue' = queue /\ cur' = i
          /\ op \in DrainOps
      BY <1>2, <2>2 DEF Proceed, DrainOps
    <3>2. /\ tail' \in Seq(Entries) /\ Slots(tail')
          /\ \A e \in Els(tail') : e \in Els(Rest) \/ e.op \in DrainOps
          /\ \A e \in Els(tail') : OfDrain(e)'
      BY <1>2, <1>4, <2>2, <3>1, DrainAppend
    <3> QED
      BY <1>4, <3>1, <3>2 DEF Holding
  <2>3. CASE "terminal" \notin Evidence(i) /\ Evidence(i) = {"user"}
    <3>1. Proceed("ending", "terminal")
      BY <2>3 DEF Started
    <3> QED
      BY <2>2, <3>1
  <2>4. CASE Evidence(i) = {} /\ stopped # "no"
    <3>1. Proceed("ending", "error")
      BY <2>4 DEF Started
    <3> QED
      BY <2>2, <3>1
  <2>5. CASE /\ "terminal" \notin Evidence(i) /\ Evidence(i) # {"user"}
             /\ ~(Evidence(i) = {} /\ stopped # "no")
    <3>1. drain' = "claimed" /\ tail' = Rest /\ queue' = queue /\ cur' = i
      BY <1>2, <2>5 DEF Started
    <3>2. ~Has(i, "user")
      <4>1. Evidence(i) \subseteq {"user", "terminal"} /\ (Has(i, "user") => "user" \in Evidence(i))
        BY DEF Evidence
      <4> QED
        BY <2>5, <4>1
    <3>3. \A e \in Els(Rest) : OfDrain(e)'
      BY <1>2 DEF OfDrain
    <3> QED
      BY <1>4, <3>1, <3>2, <3>3 DEF Holding
  <2> QED
    BY <2>1, <2>3, <2>4, <2>5
<1>6. \A j \in Items : Unsent(j)'
  <2>1. Has(i, "user")' <=> Has(i, "user")
    BY <1>1, <1>4, LogFacts DEF Events
  <2> QED
    BY <1>5, <2>1 DEF Unsent
<1>7. \A j \in Items : (j # i /\ Holding(j) => Holding(j)') /\ (Holding(j)' => Holding(j))
  BY <1>2, <1>5 DEF Holding
<1>8. "started" \in Events /\ "started" \notin {"enqueued"} \cup Requeues
  BY EventFacts DEF Events
<1>9. QueuePart'
  BY <1>1, <1>2, <1>3, <1>5, <1>6, <1>7, <1>8, RestFacts, StoreKeeps
<1>10. AskPart'
  BY <1>1, <1>5, RestFacts, AskUntouched DEF DrainOps
<1> QED
  BY <1>9, <1>10

\* The user message is stored; the turn runs.
LEMMA UserStoredKeeps ==
    ASSUME QueuePart, AskPart, NEW i \in Items, UserStored(i)
    PROVE  QueuePart' /\ AskPart'
<1>1. /\ tail # <<>> /\ Head_("user", i, None) /\ Log(i, "user") /\ drain' = "running" /\ tail' = Rest
      /\ mode' = mode /\ stopped' = stopped /\ todo' = todo /\ stranded' = stranded
      /\ queue' = queue /\ cur' = cur /\ UNCHANGED interactionVars
  BY DEF UserStored, Head_, recovery
<1>2. cur = i /\ drain = "recording" /\ \A e \in Els(Rest) : e.op \notin DrainOps
  BY <1>1, DrainHead DEF DrainOps
<1>3. ~Has(i, "user")
  BY <1>2 DEF QueuePart, LogInv, Unsent
<1>4. /\ queue \in Seq(Items) /\ Rest \in Seq(Entries) /\ Slots(Rest)
  BY <1>1, HeadFacts DEF QueuePart, QueueTypeOK
<1>5. \A j \in Items : Holding(j)' <=> Holding(j)
  BY <1>1, <1>2 DEF Holding
<1>6. \A e \in Els(tail') : OfDrain(e)'
  BY <1>1, <1>2 DEF OfDrain
<1>7. \A e \in Els(Rest) : e.op = "enqueue" => e.of # i
  <2>1. Latest(i) # None
    BY <1>2 DEF QueuePart, LogInv, Allowed
  <2> QED
    BY <1>1, <2>1, RestFacts
<1>8. \A j \in Items : Unsent(j)'
  BY <1>1 DEF Unsent
<1>9. "user" \in Events /\ "user" \notin {"enqueued"} \cup Requeues
  BY EventFacts DEF Events
<1>10. QueuePart'
  BY <1>1, <1>2, <1>3, <1>4, <1>5, <1>6, <1>7, <1>8, <1>9, RestFacts, StoreKeeps
<1>11. AskPart'
  BY <1>1, RestFacts, AskUntouched
<1> QED
  BY <1>10, <1>11

\* The end of the turn is stored; the drain goes on.
LEMMA TerminalStoredKeeps ==
    ASSUME QueuePart, AskPart, NEW i \in Items, TerminalStored(i)
    PROVE  QueuePart' /\ AskPart'
<1>1. /\ tail # <<>> /\ Log(i, "terminal") /\ Continue(queue, Rest)
      /\ mode' = mode /\ stopped' = stopped /\ todo' = todo /\ stranded' = stranded
      /\ UNCHANGED interactionVars
      /\ \E op \in {"terminal", "error"} : Head_(op, i, None)
  BY DEF TerminalStored, Head_, recovery
<1>2. cur = i /\ drain = "ending" /\ \A e \in Els(Rest) : e.op \notin DrainOps
  BY <1>1, DrainHead DEF DrainOps
<1>3. /\ queue \in Seq(Items) /\ Rest \in Seq(Entries) /\ Slots(Rest)
  BY <1>1, HeadFacts DEF QueuePart, QueueTypeOK
<1>4. /\ drain' \in {"no", "starting"} /\ cur' \in Items \cup {None} /\ queue' \in Seq(Items)
      /\ tail' \in Seq(Entries) /\ Slots(tail')
      /\ \A e \in Els(tail') : e \in Els(Rest) \/ e.op \in DrainOps
      /\ \A e \in Els(tail') : OfDrain(e)'
      /\ \A j : Holding(j)' <=> j \in Els(queue)
      /\ drain' # "no" => cur' \in Items
  BY <1>1, <1>2, <1>3, ContinueFacts
<1>5. \A j \in Items : Holding(j)' <=> Holding(j)
  BY <1>2, <1>4 DEF Holding
<1>6. \A e \in Els(Rest) : e.op = "enqueue" => e.of # i
  <2>1. Latest(i) # None
    BY <1>2 DEF QueuePart, LogInv, Allowed
  <2> QED
    BY <1>1, <2>1, RestFacts
<1>7. \A j \in Items : Unsent(j)'
  BY <1>4 DEF Unsent
<1>8. "terminal" \in Events /\ "terminal" \notin {"enqueued"} \cup Requeues
  BY EventFacts DEF Events
<1>9. QueuePart'
  BY <1>1, <1>4, <1>5, <1>6, <1>7, <1>8, RestFacts, StoreKeeps
<1>10. AskPart'
  BY <1>1, <1>4, RestFacts, AskUntouched DEF DrainOps
<1> QED
  BY <1>9, <1>10

\* queue.paused of a recovered item is stored: the item is not in the queue, and the log
\* shows it as queued, so it was enqueued.
LEMMA PauseStoredKeeps ==
    ASSUME QueuePart, AskPart, NEW i \in Items, PauseStored(i)
    PROVE  QueuePart' /\ AskPart'
<1>1. /\ tail # <<>> /\ Head(tail) = Entry("pause", i, None) /\ Log(i, "paused") /\ tail' = Rest
      /\ mode' = mode /\ stopped' = stopped /\ todo' = todo \ {i} /\ stranded' = stranded
      /\ queue' = queue /\ drain' = drain /\ cur' = cur /\ UNCHANGED interactionVars
  BY DEF PauseStored, Head_, queueVars
<1>2. Head(tail).op = "pause" /\ Head(tail).of = i
  BY <1>1, Fields
<1>3. i \in todo /\ \A e \in Els(Rest) : e.op # "pause"
  BY <1>1, <1>2, HeadFacts DEF OfLog, Clash
<1>4. ~Holding(i) /\ Latest(i) # None
  BY <1>3, ShownFacts, QueueAssumption DEF QueuePart, LogInv, Allowed
<1>5. \A j \in Items : Holding(j)' <=> Holding(j)
  BY <1>1 DEF Holding
<1>6. \A e \in Els(Rest) : e \in Els(tail) /\ (e.op = "enqueue" => e.of # i)
  BY <1>1, <1>4, RestFacts
<1>7. tail' \in Seq(Entries) /\ Slots(tail') /\ \A e \in Els(tail') : OfDrain(e)'
  BY <1>1, HeadFacts DEF OfDrain
<1>8. "paused" \in Events /\ "paused" \notin {"enqueued", "user", "terminal", "started"} \cup Requeues
  BY EventFacts DEF Events
<1>9. \A j \in Items : Unsent(j)'
  BY <1>1, <1>8, UnsentKeeps
<1>10. /\ queue \in Seq(Items) /\ cur \in Items \cup {None} /\ (drain # "no" => cur \in Items)
       /\ drain \in {"no", "starting", "claimed", "recording", "running", "ending"}
  BY DEF QueuePart, QueueTypeOK, TailInv
<1>11. QueuePart'
  BY <1>1, <1>3, <1>4, <1>5, <1>6, <1>7, <1>8, <1>9, <1>10, StoreKeeps
<1>12. AskPart'
  BY <1>1, <1>6, AskUntouched
<1> QED
  BY <1>11, <1>12

-----------------------------------------------------------------------------
\* A step that leaves the queue, the drain and the log alone, and puts into the line only
\* what is allowed there.
LEMMA LineKeeps ==
    ASSUME QueuePart, UNCHANGED <<mode, life, queueVars, recovery>>,
           stopped' \in {stopped, "disposing"}, stopped = "broken" => stopped' = "broken",
           tail' \in Seq(Entries), Slots(tail'),
           \A e \in Els(tail') : e \in Els(tail) \/ (e.op \notin DrainOps /\ OfLog(e))
    PROVE  QueuePart'
<1>1. /\ mode' = mode /\ life' = life /\ queue' = queue /\ drain' = drain /\ cur' = cur
      /\ todo' = todo /\ stranded' = stranded
  BY DEF queueVars, recovery
<1>2. /\ QueueTypeOK /\ TailInv /\ LogInv
  BY DEF QueuePart
<1>3. \A j \in Items : Holding(j)' <=> Holding(j)
  BY <1>1 DEF Holding
<1>4. \A e \in Els(tail') : OfDrain(e)'
  BY <1>1, <1>2 DEF OfDrain, TailInv
<1>5. \A j \in Items : Unsent(j)'
  BY <1>1, <1>2, PastKept DEF LogInv, Unsent
<1>6. \A e \in Els(tail') : e.op \in {"enqueue", "requeue", "pause"} => OfLog(e)'
  <2>1. \A e \in Els(tail') : e.op \in {"enqueue", "requeue", "pause"} => e \in Entries /\ OfLog(e)
    BY <1>2, InFlightFacts DEF LogInv, Els
  <2>2. \A e \in Entries : e.op = "requeue" => ItemOf[e.of] \in Items
    BY EntryFacts, EventFacts
  <2> QED
    BY <1>1, <2>1, <2>2, PastKept DEF OfLog
<1> QED
  BY <1>1, <1>2, <1>3, <1>4, <1>5, <1>6, MoveKeeps DEF QueueTypeOK, TailInv, LogInv

\* A request or a pause joins the line.
LEMMA JoinKeeps ==
    ASSUME QueuePart, UNCHANGED <<mode, life, queueVars, stopped, recovery>>,
           NEW e \in Entries, e.op \notin DrainOps, OfLog(e), \A f \in Els(tail) : ~Clash(e, f),
           tail' = Append(tail, e)
    PROVE  QueuePart' /\ Els(tail') = Els(tail) \cup {e}
<1>1. tail' \in Seq(Entries) /\ Slots(tail') /\ Els(tail') = Els(tail) \cup {e}
  BY PushFacts DEF QueuePart, QueueTypeOK, TailInv
<1> QED
  BY <1>1, LineKeeps

\* session.enqueue asks for its append.
LEMMA EnqueueKeeps ==
    ASSUME QueuePart, AskPart, NEW i \in Items, NEW p \in Priorities, Enqueue(i, p)
    PROVE  QueuePart' /\ AskPart'
<1> DEFINE e == Entry("enqueue", i, p)
<1>1. /\ tail' = Append(tail, e) /\ life[i] = <<>> /\ ~InFlight("enqueue", i)
      /\ UNCHANGED <<mode, life, queueVars, stopped, recovery>> /\ UNCHANGED interactionVars
  BY DEF Enqueue
<1>2. e \in Entries /\ e.op = "enqueue" /\ e.of = i
  BY EntryTypes, Fields
<1> HIDE DEF e
<1>3. OfLog(e) /\ e.op \notin DrainOps
  BY <1>1, <1>2 DEF OfLog, DrainOps
<1>4. \A f \in Els(tail) : ~Clash(e, f)
  BY <1>1, <1>2 DEF Clash, DrainOps, InFlight, Els
<1>5. QueuePart' /\ Els(tail') = Els(tail) \cup {e}
  BY <1>1, <1>2, <1>3, <1>4, JoinKeeps
<1>6. AskPart'
  BY <1>1, <1>2, <1>5, AskUntouched
<1> QED
  BY <1>5, <1>6

\* session.queue.requeue asks for its append: the item is paused, so it was enqueued, and
\* nobody will pause it.
LEMMA RequeueKeeps ==
    ASSUME QueuePart, AskPart, NEW r \in Requeues, NEW p \in Priorities, Requeue(r, p)
    PROVE  QueuePart' /\ AskPart'
<1> DEFINE e == Entry("requeue", r, p)
<1>1. /\ tail' = Append(tail, e) /\ Latest(ItemOf[r]) = "paused"
      /\ UNCHANGED <<mode, life, queueVars, stopped, recovery>> /\ UNCHANGED interactionVars
  BY DEF Requeue, Paused
<1>2. e \in Entries /\ e.op = "requeue" /\ e.of = r
  BY EntryTypes, Fields
<1> HIDE DEF e
<1>3. ItemOf[r] \in Items /\ "paused" # None /\ "paused" \notin {"enqueued"} \cup Requeues
  BY EventFacts, QueueAssumption
<1>4. ItemOf[r] \notin todo
  BY <1>1, <1>3, ShownFacts DEF QueuePart, LogInv, Allowed
<1>5. OfLog(e) /\ e.op \notin DrainOps
  BY <1>1, <1>2, <1>3, <1>4 DEF OfLog, DrainOps
<1>6. \A f \in Els(tail) : ~Clash(e, f)
  BY <1>2 DEF Clash, DrainOps
<1>7. QueuePart' /\ Els(tail') = Els(tail) \cup {e}
  BY <1>1, <1>2, <1>5, <1>6, JoinKeeps
<1>8. AskPart'
  BY <1>1, <1>2, <1>7, AskUntouched
<1> QED
  BY <1>7, <1>8

\* pauseRecoveredQueue() asks for its next append.
LEMMA PauseKeeps ==
    ASSUME QueuePart, AskPart, NEW i \in Items, Pause(i)
    PROVE  QueuePart' /\ AskPart'
<1> DEFINE e == Entry("pause", i, None)
<1>1. /\ tail' = Append(tail, e) /\ i \in todo /\ \A j \in Items : ~InFlight("pause", j)
      /\ UNCHANGED <<mode, life, queueVars, stopped, recovery>> /\ UNCHANGED interactionVars
  BY DEF Pause, others
<1>2. e \in Entries /\ e.op = "pause" /\ e.of = i
  BY EntryTypes, Fields
<1> HIDE DEF e
<1>3. OfLog(e) /\ e.op \notin DrainOps
  BY <1>1, <1>2 DEF OfLog, DrainOps
<1>4. \A f \in Els(tail) : f.op # "pause"
  <2>1. \A f \in Els(tail) : f.op = "pause" => f.of \in Items
    BY InFlightFacts, EntryFacts DEF QueuePart
  <2> QED
    BY <1>1, <2>1 DEF InFlight, Els
<1>5. \A f \in Els(tail) : ~Clash(e, f)
  BY <1>2, <1>4 DEF Clash, DrainOps
<1>6. QueuePart' /\ Els(tail') = Els(tail) \cup {e}
  BY <1>1, <1>2, <1>3, <1>5, JoinKeeps
<1>7. AskPart'
  BY <1>1, <1>2, <1>6, AskUntouched
<1> QED
  BY <1>6, <1>7

-----------------------------------------------------------------------------
\* The drain, or the turn that it runs, asks for its next append.
LEMMA DrainMoveKeeps ==
    ASSUME QueuePart, AskPart, UNCHANGED <<mode, life, queue, cur, stopped, recovery>>,
           UNCHANGED interactionVars, drain \notin {"no", "starting"},
           NEW rest \in Seq(Entries), Slots(rest), Els(rest) \subseteq Els(tail),
           \A e \in Els(rest) : e.op \notin DrainOps,
           NEW op \in {"user", "terminal", "error"}, op = "user" => drain = "claimed",
           drain' = IF op = "user" THEN "recording" ELSE "ending",
           tail' = Append(rest, Entry(op, cur, None))
    PROVE  QueuePart' /\ AskPart'
<1>1. /\ mode' = mode /\ life' = life /\ queue' = queue /\ cur' = cur /\ stopped' = stopped
      /\ todo' = todo /\ stranded' = stranded /\ cur \in Items
      /\ op \in DrainOps /\ drain' \in {"recording", "ending"}
  BY DEF recovery, QueuePart, TailInv, DrainOps
<1>2. /\ QueueTypeOK /\ TailInv /\ LogInv
  BY DEF QueuePart
<1>3. /\ tail' \in Seq(Entries) /\ Slots(tail')
      /\ \A e \in Els(tail') : e \in Els(rest) \/ e.op \in DrainOps
      /\ \A e \in Els(tail') : OfDrain(e)'
  BY <1>1, DrainAppend
<1>4. \A j \in Items : Holding(j)' <=> Holding(j)
  BY <1>1 DEF Holding
<1>5. \A j \in Items : Unsent(j)'
  BY <1>1, <1>2, PastKept DEF LogInv, Unsent
<1>6. \A e \in Els(tail') : e.op \in {"enqueue", "requeue", "pause"} => OfLog(e)'
  <2>1. \A e \in Els(tail') : e.op \in {"enqueue", "requeue", "pause"} => e \in Entries /\ OfLog(e)
    BY <1>2, <1>3, InFlightFacts DEF LogInv, DrainOps
  <2>2. \A e \in Entries : e.op = "requeue" => ItemOf[e.of] \in Items
    BY EntryFacts, EventFacts
  <2> QED
    BY <1>1, <2>1, <2>2, PastKept DEF OfLog
<1>7. QueuePart'
  BY <1>1, <1>2, <1>3, <1>4, <1>5, <1>6, MoveKeeps DEF QueueTypeOK, LogInv
<1>8. AskPart'
  BY <1>3, AskUntouched DEF DrainOps
<1> QED
  BY <1>7, <1>8

\* The steps of a turn: it records its user message, send() throws, it ends, an append of
\* it fails.
LEMMA TurnKeeps ==
    ASSUME QueuePart, AskPart, BeginTurn \/ SendThrows \/ TurnEnds \/ TurnAppendFails
    PROVE  QueuePart' /\ AskPart'
<1>1. tail \in Seq(Entries) /\ Slots(tail) /\ \A e \in Els(tail) : OfDrain(e)
  BY DEF QueuePart, QueueTypeOK, TailInv
<1>2. drain \in {"claimed", "running"} => \A e \in Els(tail) : e.op \notin DrainOps
  BY <1>1 DEF OfDrain, DrainOps
<1>3. CASE BeginTurn
  <2>1. /\ UNCHANGED <<mode, life, queue, cur, stopped, recovery>> /\ UNCHANGED interactionVars
        /\ drain = "claimed" /\ drain' = "recording" /\ tail' = Append(tail, Entry("user", cur, None))
    BY <1>3 DEF BeginTurn
  <2> QED
    BY <1>1, <1>2, <2>1, DrainMoveKeeps
<1>4. CASE SendThrows
  <2>1. /\ UNCHANGED <<mode, life, queue, cur, stopped, recovery>> /\ UNCHANGED interactionVars
        /\ drain = "claimed" /\ drain' = "ending" /\ tail' = Append(tail, Entry("error", cur, None))
    BY <1>4 DEF SendThrows
  <2> QED
    BY <1>1, <1>2, <2>1, DrainMoveKeeps
<1>5. CASE TurnEnds
  <2>1. PICK op \in {"terminal", "error"} : tail' = Append(tail, Entry(op, cur, None))
    BY <1>5 DEF TurnEnds
  <2>2. /\ UNCHANGED <<mode, life, queue, cur, stopped, recovery>> /\ UNCHANGED interactionVars
        /\ drain = "running" /\ drain' = "ending"
    BY <1>5 DEF TurnEnds
  <2> QED
    BY <1>1, <1>2, <2>1, <2>2, DrainMoveKeeps
<1>6. CASE TurnAppendFails
  <2>1. /\ UNCHANGED <<mode, life, queue, cur, stopped, recovery>> /\ UNCHANGED interactionVars
        /\ drain' = "ending" /\ tail' = Append(Rest, Entry("error", cur, None))
        /\ tail # <<>> /\ Head(tail).op \in {"user", "terminal"}
    BY <1>6 DEF TurnAppendFails, Fails, Proceed
  <2>2. drain \in {"recording", "ending"} /\ \A e \in Els(Rest) : e.op \notin DrainOps
    BY <2>1, HeadFacts DEF OfDrain, Clash, DrainOps
  <2>3. Rest \in Seq(Entries) /\ Slots(Rest) /\ Els(Rest) \subseteq Els(tail)
    BY <2>1, HeadFacts
  <2> QED
    BY <2>1, <2>2, <2>3, DrainMoveKeeps
<1> QED
  BY <1>3, <1>4, <1>5, <1>6

\* The append of a request fails.
LEMMA RequestAppendFailsKeeps ==
    ASSUME QueuePart, AskPart, RequestAppendFails
    PROVE  QueuePart' /\ AskPart'
<1>1. /\ UNCHANGED <<mode, life, queueVars, recovery>> /\ stopped' = stopped
      /\ UNCHANGED interactionVars /\ tail # <<>> /\ tail' = Rest
  BY DEF RequestAppendFails, Fails
<1>2. Rest \in Seq(Entries) /\ Slots(Rest) /\ Els(Rest) \subseteq Els(tail)
  BY <1>1, HeadFacts
<1> QED
  BY <1>1, <1>2, LineKeeps, AskUntouched

\* The drain rejects: the session is broken, and what it holds is not queued for long.
LEMMA DrainFailsKeeps ==
    ASSUME QueuePart, AskPart, DrainFails
    PROVE  QueuePart' /\ AskPart'
<1>1. /\ mode' = mode /\ life' = life /\ queue' = queue /\ cur' = None /\ stopped' = "broken"
      /\ todo' = todo /\ stranded' = stranded /\ drain' = "no" /\ tail' = Rest
      /\ UNCHANGED interactionVars /\ tail # <<>> /\ Head(tail).op \in {"start", "error"}
  BY DEF DrainFails, Fails, recovery
<1>2. /\ Rest \in Seq(Entries) /\ Slots(Rest) /\ Els(Rest) \subseteq Els(tail)
      /\ \A e \in Els(Rest) : e.op \notin DrainOps /\ e \in Entries /\ OfLog(e)
  BY <1>1, HeadFacts DEF Clash, DrainOps
<1>3. \A j \in Items : Holding(j)' => Holding(j)
  BY <1>1 DEF Holding
<1>4. \A e \in Els(tail') : OfDrain(e)' /\ OfLog(e)'
  <2>1. \A e \in Entries : e.op = "requeue" => ItemOf[e.of] \in Items
    BY EntryFacts, EventFacts
  <2> QED
    BY <1>1, <1>2, <2>1, PastKept DEF OfLog, OfDrain
<1>5. \A j \in Items : Unsent(j)'
  BY <1>1 DEF Unsent
<1>6. QueuePart'
  BY <1>1, <1>2, <1>3, <1>4, <1>5, MoveKeeps DEF QueuePart, QueueTypeOK, LogInv
<1> QED
  BY <1>1, <1>2, <1>6, AskUntouched

\* pauseRecoveredQueue() gives up: what it had left is stranded.
LEMMA PauseFailsKeeps ==
    ASSUME QueuePart, AskPart, PauseFails
    PROVE  QueuePart' /\ AskPart'
<1>1. /\ mode' = mode /\ life' = life /\ queue' = queue /\ cur' = cur /\ stopped' = stopped
      /\ drain' = drain /\ todo' = {} /\ stranded' = todo /\ tail' = Rest
      /\ UNCHANGED interactionVars /\ tail # <<>> /\ Head(tail).op = "pause"
  BY DEF PauseFails, Fails, queueVars
<1>2. /\ QueueTypeOK /\ TailInv /\ LogInv
  BY DEF QueuePart
<1>3. stranded = {}
  BY <1>1, <1>2, HeadFacts DEF OfLog, LogInv
<1>4. /\ Rest \in Seq(Entries) /\ Slots(Rest) /\ Els(Rest) \subseteq Els(tail)
      /\ \A e \in Els(Rest) : e.op # "pause" /\ e \in Entries /\ OfLog(e) /\ OfDrain(e)
  BY <1>1, HeadFacts DEF Clash
<1>5. \A j \in Items : Holding(j)' <=> Holding(j)
  BY <1>1 DEF Holding
<1>6. \A e \in Els(tail') : OfDrain(e)'
  BY <1>1, <1>4 DEF OfDrain
<1>7. \A e \in Els(tail') : OfLog(e)'
  <2>1. \A e \in Entries : e.op = "requeue" => ItemOf[e.of] \in Items
    BY EntryFacts, EventFacts
  <2> QED
    BY <1>1, <1>4, <2>1, PastKept DEF OfLog
<1>8. \A j \in Items : Unsent(j)'
  BY <1>1, <1>2, PastKept DEF LogInv, Unsent
<1>9. QueuePart'
  BY <1>1, <1>2, <1>3, <1>4, <1>5, <1>6, <1>7, <1>8, MoveKeeps DEF QueueTypeOK, TailInv
<1> QED
  BY <1>1, <1>4, <1>9, AskUntouched

\* The session is opened again, and its pending items are to be paused.
LEMMA OpeningKeeps ==
    ASSUME QueuePart, AskPart, Closed, Resume \/ Opened
    PROVE  QueuePart' /\ AskPart'
<1>1. /\ tail = <<>> /\ queue = <<>> /\ drain = "no" /\ todo = {} /\ stranded = {}
      /\ tail' = tail /\ queue' = queue /\ drain' = drain /\ cur' = cur /\ life' = life
      /\ stranded' = stranded /\ stopped' = stopped /\ UNCHANGED interactionVars
      /\ mode' \in {"up", "opening"} /\ (mode' = "up" => todo' = ShownQueued)
      /\ todo' \in {todo, ShownQueued}
  BY DEF Closed, Resume, Opened, Recovered, queueVars, recovery
<1>2. /\ QueueTypeOK /\ TailInv /\ LogInv /\ RunsOnce /\ NeverImplicit
  BY DEF QueuePart
<1>3. Els(<<>>) = {}
  BY DEF Els
<1>4. ShownQueued' = ShownQueued
  BY <1>1, PastKept DEF ShownQueued
<1>5. QueueTypeOK'
  <2>1. ShownQueued \subseteq Items
    BY DEF ShownQueued
  <2> QED
    BY <1>1, <1>2, <2>1 DEF QueueTypeOK
<1>6. TailInv'
  BY <1>1, <1>2, <1>3 DEF TailInv
<1>7. LogInv'
  <2>1. \A j \in Items : Allowed(j)'
    BY <1>1, <1>3, <1>4 DEF Allowed, Holding
  <2>2. \A j \in Items : Unsent(j)'
    BY <1>1 DEF Unsent
  <2> QED
    BY <1>1, <1>3, <2>1, <2>2 DEF LogInv
<1>8. QueuedIsHeld'
  BY <1>1, <1>4 DEF QueuedIsHeld
<1>9. QueuePart'
  BY <1>1, <1>2, <1>5, <1>6, <1>7, <1>8, PastKept DEF QueuePart
<1> QED
  BY <1>1, <1>9, AskUntouched

-----------------------------------------------------------------------------
\* FirstAnswerWins, question by question.
LEMMA WinsFacts ==
    /\ FirstAnswerWins <=>
         /\ \A a \in Asks : Single(a)
         /\ \A c \in Responses : reply[c] = "won" \/ outcome[AskOf[c]] = c => Written(AskOf[c], c)
    /\ \A a : Resolved(a) <=> \E x \in Resolutions : Written(a, x)
<1>1. \A c \in Responses : AskOf[c] \in Asks
  BY AsksAssumption
<1>2. FirstAnswerWins <=>
         /\ \A a \in Asks : Single(a)
         /\ \A a \in Asks : \A c \in Responses :
              AskOf[c] = a /\ (reply[c] = "won" \/ outcome[a] = c) => Written(a, c)
  BY DEF FirstAnswerWins, Single, Written
<1>3. \A a : Resolved(a) <=> \E x \in Resolutions : Written(a, x)
  BY DEF Resolved, Written
<1> QED
  BY <1>1, <1>2, <1>3

\* What one more record does to a question.
LEMMA RecordFacts ==
    ASSUME AskTypeOK, NEW a \in Asks, NEW x \in {"requested"} \cup Resolutions, Record(a, x)
    PROVE  /\ recorded' \in [Asks -> Seq({"requested"} \cup Resolutions)]
           /\ \A b \in Asks : b # a => recorded'[b] = recorded[b]
           /\ \A b \in Asks : \A y : Written(b, y)' <=> Written(b, y) \/ (b = a /\ y = x)
           /\ (x \in Resolutions => ~Resolved(a)) /\ Single(a) => Single(a)'
<1> DEFINE n == Len(recorded[a])
<1>1. /\ recorded[a] \in Seq({"requested"} \cup Resolutions) /\ n \in Nat
      /\ DOMAIN recorded[a] = 1..n
      /\ recorded' \in [Asks -> Seq({"requested"} \cup Resolutions)]
      /\ recorded'[a] = Append(recorded[a], x)
      /\ \A b \in Asks : b # a => recorded'[b] = recorded[b]
  BY DEF AskTypeOK, Record
<1>2. /\ DOMAIN recorded'[a] = 1..n + 1 /\ recorded'[a][n + 1] = x
      /\ \A m \in 1..n : recorded'[a][m] = recorded[a][m]
  BY <1>1
<1>3. \A m \in DOMAIN recorded'[a] : m \in DOMAIN recorded[a] \/ m = n + 1
  BY <1>1, <1>2
<1>4. DOMAIN recorded[a] \subseteq DOMAIN recorded'[a] /\ n + 1 \in DOMAIN recorded'[a]
  BY <1>1, <1>2
<1>5. \A b \in Asks : \A y : Written(b, y)' <=> Written(b, y) \/ (b = a /\ y = x)
  BY <1>1, <1>2, <1>3, <1>4 DEF Written
<1>6. (x \in Resolutions => ~Resolved(a)) /\ Single(a) => Single(a)'
  <2> SUFFICES ASSUME x \in Resolutions => ~Resolved(a), Single(a),
                      NEW k \in DOMAIN recorded'[a], NEW m \in DOMAIN recorded'[a],
                      recorded'[a][k] \in Resolutions, recorded'[a][m] \in Resolutions
               PROVE  k = m
    BY DEF Single, Resolutions
  <2>1. CASE k \in DOMAIN recorded[a] /\ m \in DOMAIN recorded[a]
    BY <1>1, <1>2, <2>1 DEF Single
  <2>2. CASE ~(k \in DOMAIN recorded[a] /\ m \in DOMAIN recorded[a])
    <3>1. x \in Resolutions /\ ~Resolved(a)
      BY <1>2, <1>3, <2>2
    <3>2. k = n + 1 /\ m = n + 1
      BY <1>1, <1>2, <1>3, <3>1 DEF Resolved
    <3> QED
      BY <3>2
  <2> QED
    BY <2>1, <2>2
<1> QED
  BY <1>1, <1>5, <1>6

\* A step that records nothing about a question.
LEMMA AskMoves ==
    ASSUME AskPart, AskTypeOK', recorded' = recorded, \A e \in Els(tail') : OfAsk(e)',
           \A a \in Asks : asked'[a] = "no" => asked[a] = "no" /\ a \notin pending',
           \A a \in pending' : Resolved(a) => resolution'[a] # None,
           \A c \in Responses : reply'[c] = "won" => reply[c] = "won" \/ Written(AskOf[c], c),
           \A a \in Asks : outcome'[a] \in Responses => outcome'[a] = outcome[a]
    PROVE  AskPart'
<1>1. \A a, x : Written(a, x)' <=> Written(a, x)
  BY DEF Written
<1>2. \A a : (Resolved(a)' <=> Resolved(a)) /\ (Single(a)' <=> Single(a))
  BY DEF Resolved, Single, Resolutions
<1>3. \A a \in Asks : Answerable(a)'
  BY <1>2 DEF AskPart, AskInv, Answerable
<1>4. FirstAnswerWins'
  <2>1. /\ \A a \in Asks : Single(a)
        /\ \A c \in Responses : reply[c] = "won" \/ outcome[AskOf[c]] = c => Written(AskOf[c], c)
    BY WinsFacts DEF AskPart, AskInv
  <2>2. /\ \A a \in Asks : Single(a)'
        /\ \A c \in Responses : reply'[c] = "won" \/ outcome'[AskOf[c]] = c => Written(AskOf[c], c)'
    BY <1>1, <1>2, <2>1, AsksAssumption
  <2> QED
    BY <2>2, AsksAssumption DEF FirstAnswerWins, Single, Written
<1> QED
  BY <1>3, <1>4 DEF AskPart, AskInv

\* A step that records that a question was asked, or its first answer.
LEMMA AskRecords ==
    ASSUME AskPart, NEW a \in Asks, NEW x \in {"requested"} \cup Resolutions, Record(a, x),
           x \in Resolutions => ~Resolved(a), x \in Responses => AskOf[x] = a, asked[a] # "no",
           asked' \in [Asks -> {"no", "requesting", "waiting", "over", "lost"}],
           pending' \subseteq Asks, resolution' \in [Asks -> Responses \cup {None}],
           outcome' \in [Asks -> Responses \cup {None, "rejected"}],
           reply' \in [Responses -> {"idle", "storing", "joined", "won", "refused", "failed", "lost"}],
           \A e \in Els(tail') : OfAsk(e)',
           \A b \in Asks : asked'[b] = "no" => asked[b] = "no" /\ b \notin pending',
           \A b \in pending' : Resolved(b)' => resolution'[b] # None,
           \A c \in Responses : reply'[c] = "won" => reply[c] = "won" \/ c = x,
           \A b \in Asks : outcome'[b] \in Responses => outcome'[b] = outcome[b] \/ outcome'[b] = x
    PROVE  AskPart'
<1>1. AskTypeOK /\ AskInv
  BY DEF AskPart
<1>2. /\ recorded' \in [Asks -> Seq({"requested"} \cup Resolutions)]
      /\ \A b \in Asks : b # a => recorded'[b] = recorded[b]
      /\ \A b \in Asks : \A y : Written(b, y)' <=> Written(b, y) \/ (b = a /\ y = x)
      /\ Single(a) => Single(a)'
  BY <1>1, RecordFacts
<1>3. AskTypeOK'
  BY <1>2 DEF AskTypeOK, Resolutions
<1>4. \A b \in Asks : Answerable(b)'
  BY <1>1, <1>2 DEF AskInv, Answerable
<1>5. FirstAnswerWins'
  <2>1. /\ \A b \in Asks : Single(b)
        /\ \A c \in Responses : reply[c] = "won" \/ outcome[AskOf[c]] = c => Written(AskOf[c], c)
    BY <1>1, WinsFacts DEF AskInv
  <2>2. \A b \in Asks : Single(b)'
    BY <1>2, <2>1 DEF Single
  <2>3. ASSUME NEW c \in Responses, reply'[c] = "won" \/ outcome'[AskOf[c]] = c
        PROVE  Written(AskOf[c], c)'
    <3>1. AskOf[c] \in Asks
      BY AsksAssumption
    <3>2. Written(AskOf[c], c) \/ (AskOf[c] = a /\ c = x)
      BY <2>1, <2>3, <3>1
    <3> QED
      BY <1>2, <3>1, <3>2
  <2> QED
    BY <2>2, <2>3, AsksAssumption DEF FirstAnswerWins, Single, Written
<1> QED
  BY <1>3, <1>4, <1>5 DEF AskPart, AskInv

\* What holds of an answer in flight stays true until its question gets an answer.
LEMMA InLineKeeps ==
    ASSUME QueuePart, AskPart, \A a \in Asks : asked'[a] = "no" => asked[a] = "no",
           \A a \in Asks : resolution[a] # None => resolution'[a] = resolution[a],
           NEW e \in Els(tail), e.op = "resolve" => (Resolved(e.of)' => Resolved(e.of))
    PROVE  OfAsk(e)'
<1>1. e \in Entries /\ OfAsk(e)
  BY InFlightFacts DEF QueuePart, AskPart, AskInv
<1>2. CASE e.op = "request"
  BY <1>1, <1>2, EntryFacts DEF OfAsk
<1>3. CASE e.op = "resolve"
  <2>1. e.of \in Asks /\ e.by \in Responses /\ e.by # None
    BY <1>1, <1>3, EntryFacts, AsksAssumption
  <2> QED
    BY <1>1, <1>3, <2>1 DEF OfAsk
<1> QED
  BY <1>2, <1>3 DEF OfAsk

\* The log of the questions is left alone.
LEMMA RecordedKept ==
    ASSUME recorded' = recorded
    PROVE  \A a : Resolved(a)' <=> Resolved(a)
BY DEF Resolved, Resolutions

\* interact() registers a question and asks for its append.
LEMMA TurnAsksKeeps ==
    ASSUME QueuePart, AskPart, NEW a \in Asks, TurnAsks(a)
    PROVE  QueuePart' /\ AskPart'
<1> DEFINE e == Entry("request", a, None)
<1>1. /\ UNCHANGED <<mode, life, queueVars, stopped, recovery>> /\ asked[a] = "no"
      /\ asked' = [asked EXCEPT ![a] = "requesting"] /\ pending' = pending \cup {a}
      /\ tail' = Append(tail, e)
      /\ recorded' = recorded /\ resolution' = resolution /\ outcome' = outcome /\ reply' = reply
  BY DEF TurnAsks, Ask, others
<1>2. e \in Entries /\ e.op = "request" /\ e.of = a
  BY EntryTypes, Fields
<1> HIDE DEF e
<1>3. OfLog(e) /\ e.op \notin DrainOps /\ \A f \in Els(tail) : ~Clash(e, f)
  BY <1>2 DEF OfLog, DrainOps, Clash
<1>4. QueuePart' /\ Els(tail') = Els(tail) \cup {e}
  BY <1>1, <1>2, <1>3, JoinKeeps
<1>5. AskTypeOK /\ \A b \in Asks : Answerable(b)
  BY DEF AskPart, AskInv
<1>6. /\ asked' \in [Asks -> {"no", "requesting", "waiting", "over", "lost"}]
      /\ asked'[a] = "requesting" /\ \A b \in Asks : b # a => asked'[b] = asked[b]
  BY <1>1, <1>5 DEF AskTypeOK
<1>7. AskTypeOK'
  BY <1>1, <1>5, <1>6 DEF AskTypeOK, Resolutions
<1>8. \A f \in Els(tail') : OfAsk(f)'
  <2>1. \A f \in Els(tail) : OfAsk(f)'
    BY <1>1, <1>6, InLineKeeps, RecordedKept
  <2>2. OfAsk(e)'
    BY <1>2, <1>6 DEF OfAsk
  <2> QED
    BY <1>4, <2>1, <2>2
<1>9. \A b \in Asks : asked'[b] = "no" => asked[b] = "no" /\ b \notin pending'
  BY <1>1, <1>5, <1>6 DEF Answerable
<1>10. \A b \in pending' : Resolved(b) => resolution'[b] # None
  <2>1. ~Resolved(a)
    BY <1>1, <1>5 DEF Answerable, Resolved
  <2> QED
    BY <1>1, <1>5, <2>1 DEF Answerable, AskTypeOK
<1> QED
  BY <1>1, <1>4, <1>7, <1>8, <1>9, <1>10, AskMoves

\* respondToInteraction() answers at once, joins the answer in flight, or claims the
\* question.
LEMMA RespondsKeeps ==
    ASSUME QueuePart, AskPart, NEW c \in Responses, Responds(c)
    PROVE  QueuePart' /\ AskPart'
<1> DEFINE a == AskOf[c]
           e == Entry("resolve", a, c)
<1>1. /\ UNCHANGED <<mode, life, queueVars, stopped, recovery>> /\ recorded[a] # <<>>
      /\ asked' = asked /\ recorded' = recorded /\ pending' = pending /\ outcome' = outcome
  BY DEF Responds, Respond, others
<1>2. \/ /\ tail' = tail /\ resolution' = resolution
         /\ \/ Told({c}, "won") /\ Written(a, c)
            \/ \E r \in {"refused", "joined"} : Told({c}, r)
      \/ /\ a \in pending /\ resolution[a] = None /\ Told({c}, "storing")
         /\ resolution' = [resolution EXCEPT ![a] = c] /\ tail' = Append(tail, e)
  BY DEF Responds, Respond, Claimable, Written
<1>3. a \in Asks /\ c # None
  BY AsksAssumption
<1> HIDE DEF a
<1>4. AskTypeOK /\ (\A b \in Asks : Answerable(b)) /\ (\A f \in Els(tail) : OfAsk(f))
  BY DEF AskPart, AskInv
<1>5. /\ reply' \in [Responses -> {"idle", "storing", "joined", "won", "refused", "failed", "lost"}]
      /\ \A d \in Responses : reply'[d] = "won" => reply[d] = "won" \/ (d = c /\ Written(a, c))
  BY <1>2, <1>4 DEF Told, AskTypeOK
<1>6. \A d \in Responses : reply'[d] = "won" => reply[d] = "won" \/ Written(AskOf[d], d)
  BY <1>5 DEF a
<1>7. CASE tail' = tail /\ resolution' = resolution
  <2>1. AskTypeOK'
    BY <1>1, <1>4, <1>5, <1>7 DEF AskTypeOK, Resolutions
  <2>2. \A f \in Els(tail') : OfAsk(f)'
    BY <1>1, <1>7, InLineKeeps, RecordedKept
  <2>3. /\ \A b \in Asks : asked'[b] = "no" => asked[b] = "no" /\ b \notin pending'
        /\ \A b \in pending' : Resolved(b) => resolution'[b] # None
    BY <1>1, <1>4, <1>7 DEF Answerable, AskTypeOK
  <2>4. AskPart'
    BY <1>1, <1>6, <2>1, <2>2, <2>3, AskMoves
  <2>5. QueuePart'
    BY <1>1, <1>7, LineKeeps DEF QueuePart, QueueTypeOK, TailInv
  <2> QED
    BY <2>4, <2>5
<1>8. CASE /\ a \in pending /\ resolution[a] = None
           /\ resolution' = [resolution EXCEPT ![a] = c] /\ tail' = Append(tail, e)
  <2>1. e \in Entries /\ e.op = "resolve" /\ e.of = a /\ e.by = c
    BY <1>3, EntryTypes, Fields
  <2> HIDE DEF e
  <2>2. /\ resolution' \in [Asks -> Responses \cup {None}] /\ resolution'[a] = c
        /\ \A b \in Asks : b # a => resolution'[b] = resolution[b]
    BY <1>3, <1>4, <1>8 DEF AskTypeOK
  <2>3. \A f \in Els(tail) : f.op = "resolve" => f.of # a
    <3>1. \A f \in Els(tail) : f.op = "resolve" => f.by # None
      BY InFlightFacts, EntryFacts, AsksAssumption DEF QueuePart
    <3> QED
      BY <1>4, <1>8, <3>1 DEF OfAsk
  <2>4. \A f \in Els(tail) : ~Clash(e, f)
    BY <2>1, <2>3 DEF Clash, DrainOps
  <2>5. OfLog(e) /\ e.op \notin DrainOps
    BY <2>1 DEF OfLog, DrainOps
  <2>6. QueuePart' /\ Els(tail') = Els(tail) \cup {e}
    BY <1>1, <1>8, <2>1, <2>4, <2>5, JoinKeeps
  <2>7. AskTypeOK'
    BY <1>1, <1>4, <1>5, <2>2 DEF AskTypeOK, Resolutions
  <2>8. asked[a] # "no" /\ ~Resolved(a)
    BY <1>1, <1>3, <1>4, <1>8 DEF Answerable
  <2>9. OfAsk(e)'
    <3>1. e.by = c /\ AskOf[e.by] = e.of
      BY <2>1 DEF a
    <3> QED
      BY <1>1, <2>1, <2>2, <2>8, <3>1, RecordedKept DEF OfAsk
  <2>10. \A f \in Els(tail) : OfAsk(f)'
    BY <1>1, <1>8, <2>2, InLineKeeps, RecordedKept
  <2>11. /\ \A b \in Asks : asked'[b] = "no" => asked[b] = "no" /\ b \notin pending'
         /\ \A b \in pending' : Resolved(b) => resolution'[b] # None
    BY <1>1, <1>3, <1>4, <2>2 DEF Answerable, AskTypeOK
  <2>12. \A f \in Els(tail') : OfAsk(f)'
    BY <2>6, <2>9, <2>10
  <2>13. AskPart'
    BY <1>1, <1>6, <2>7, <2>11, <2>12, AskMoves
  <2> QED
    BY <2>6, <2>13
<1> QED
  BY <1>2, <1>7, <1>8

\* The timer, an abort or dispose() rejects questions.
LEMMA RejectKeeps ==
    ASSUME QueuePart, AskPart, NEW as, Reject(as), UNCHANGED <<tail, mode, life, queueVars, recovery>>,
           stopped' \in {stopped, "disposing"}, stopped = "broken" => stopped' = "broken"
    PROVE  QueuePart' /\ AskPart'
<1>1. QueuePart'
  BY LineKeeps DEF QueuePart, QueueTypeOK, TailInv
<1>2. /\ asked' = [a \in Asks |-> IF a \in as THEN "over" ELSE asked[a]]
      /\ outcome' = [a \in Asks |-> IF a \in as THEN "rejected" ELSE outcome[a]]
      /\ pending' = pending \ as
      /\ recorded' = recorded /\ resolution' = resolution /\ reply' = reply
  BY DEF Reject
<1>3. AskTypeOK /\ \A b \in Asks : Answerable(b)
  BY DEF AskPart, AskInv
<1>4. AskTypeOK'
  BY <1>2, <1>3 DEF AskTypeOK, Resolutions
<1>5. \A e \in Els(tail') : OfAsk(e)'
  BY <1>2, InLineKeeps, RecordedKept
<1>6. /\ \A b \in Asks : asked'[b] = "no" => asked[b] = "no" /\ b \notin pending'
      /\ \A b \in pending' : Resolved(b) => resolution'[b] # None
  BY <1>2, <1>3 DEF Answerable, AskTypeOK
<1>7. \A b \in Asks : outcome'[b] \in Responses => outcome'[b] = outcome[b]
  BY <1>2, AsksAssumption
<1> QED
  BY <1>1, <1>2, <1>4, <1>5, <1>6, <1>7, AskMoves

\* The append of a question or of its answer is settled.
LEMMA QuestionHead ==
    ASSUME QueuePart, AskPart, tail # <<>>, Head(tail).op \in {"request", "resolve"}
    PROVE  /\ Head(tail).of \in Asks /\ asked[Head(tail).of] # "no"
           /\ Head(tail).op = "resolve" =>
                /\ Head(tail).by \in Responses /\ AskOf[Head(tail).by] = Head(tail).of
                /\ ~Resolved(Head(tail).of)
                /\ \A e \in Els(Rest) : e.op = "resolve" => e.of # Head(tail).of
<1>1. Head(tail) \in Entries /\ Head(tail) \in Els(tail) /\ \A e \in Els(Rest) : ~Clash(Head(tail), e)
  BY HeadFacts
<1>2. OfAsk(Head(tail))
  BY <1>1 DEF AskPart, AskInv
<1> QED
  BY <1>1, <1>2, EntryFacts DEF OfAsk, Clash

\* interaction.requested, or the answer, is stored.
LEMMA InteractionStoredKeeps ==
    ASSUME QueuePart, AskPart, InteractionStored
    PROVE  QueuePart' /\ AskPart'
<1> DEFINE e == Head(tail)
           a == e.of
<1>1. /\ tail # <<>> /\ e.op \in {"request", "resolve"} /\ tail' = Rest
      /\ UNCHANGED <<mode, life, queueVars, stopped, recovery>>
      /\ e.op = "request" => RequestStored(a)
      /\ e.op = "resolve" => ResolutionStored(a, e.by)
  BY DEF InteractionStored, others
<1>2. Rest \in Seq(Entries) /\ Slots(Rest) /\ Els(Rest) \subseteq Els(tail)
  BY <1>1, HeadFacts
<1>3. QueuePart'
  BY <1>1, <1>2, LineKeeps
<1>4. /\ a \in Asks /\ asked[a] # "no"
      /\ e.op = "resolve" => /\ e.by \in Responses /\ AskOf[e.by] = a /\ ~Resolved(a)
                             /\ \A f \in Els(Rest) : f.op = "resolve" => f.of # a
  BY <1>1, QuestionHead
<1> HIDE DEF a
<1>5. AskTypeOK /\ \A b \in Asks : Answerable(b)
  BY DEF AskPart, AskInv
<1>6. CASE e.op = "request"
  <2>1. /\ Record(a, "requested") /\ asked' = [asked EXCEPT ![a] = "waiting"]
        /\ pending' = pending /\ resolution' = resolution /\ outcome' = outcome /\ reply' = reply
    BY <1>1, <1>6 DEF RequestStored
  <2>2. "requested" \notin Resolutions
    BY AsksAssumption DEF Resolutions
  <2>3. \A b \in Asks : Resolved(b)' <=> Resolved(b)
    <3>1. \A b \in Asks : \A y : Written(b, y)' <=> Written(b, y) \/ (b = a /\ y = "requested")
      BY <1>4, <1>5, <2>1, RecordFacts
    <3>2. \A b : Resolved(b) <=> \E x \in Resolutions : Written(b, x)
      BY DEF Resolved, Written
    <3>3. \A b : Resolved(b)' <=> \E x \in Resolutions : Written(b, x)'
      BY DEF Resolved, Written, Resolutions
    <3> QED
      BY <2>2, <3>1, <3>2, <3>3
  <2>4. /\ asked' \in [Asks -> {"no", "requesting", "waiting", "over", "lost"}]
        /\ asked'[a] = "waiting" /\ \A b \in Asks : b # a => asked'[b] = asked[b]
    BY <1>4, <1>5, <2>1 DEF AskTypeOK
  <2>5. \A f \in Els(tail') : OfAsk(f)'
    <3>1. \A f \in Els(tail) : f.op = "resolve" => f.of \in Asks
      BY InFlightFacts, EntryFacts DEF QueuePart
    <3>2. \A f \in Els(tail) : f.op = "resolve" => (Resolved(f.of)' => Resolved(f.of))
      BY <2>3, <3>1
    <3> QED
      BY <1>1, <1>2, <2>1, <2>4, <3>2, InLineKeeps
  <2>6. /\ \A b \in Asks : asked'[b] = "no" => asked[b] = "no" /\ b \notin pending'
        /\ \A b \in pending' : Resolved(b)' => resolution'[b] # None
    BY <1>5, <2>1, <2>3, <2>4 DEF Answerable, AskTypeOK
  <2>7. AskPart'
    BY <1>4, <1>5, <2>1, <2>2, <2>4, <2>5, <2>6, AskRecords, AsksAssumption DEF AskTypeOK
  <2> QED
    BY <1>3, <2>7
<1>7. CASE e.op = "resolve"
  <2> DEFINE c == e.by
  <2>1. /\ Record(a, c) /\ pending' = pending \ {a} /\ resolution' = resolution
        /\ IF a \in pending
           THEN asked' = [asked EXCEPT ![a] = "over"] /\ outcome' = [outcome EXCEPT ![a] = c]
           ELSE asked' = asked /\ outcome' = outcome
        /\ reply' = [d \in Responses |-> CASE d = c -> "won" [] d \in Joined(a) -> "refused"
                                           [] OTHER -> reply[d]]
    BY <1>1, <1>7 DEF ResolutionStored, Deliver
  <2>2. c \in Responses /\ AskOf[c] = a /\ ~Resolved(a) /\ c \in Resolutions
    BY <1>4, <1>7 DEF Resolutions
  <2> HIDE DEF c, e
  <2>3. /\ asked' \in [Asks -> {"no", "requesting", "waiting", "over", "lost"}]
        /\ \A b \in Asks : asked'[b] = "no" => asked[b] = "no"
        /\ outcome' \in [Asks -> Responses \cup {None, "rejected"}]
        /\ \A b \in Asks : outcome'[b] \in Responses => outcome'[b] = outcome[b] \/ outcome'[b] = c
    BY <1>4, <1>5, <2>1, <2>2 DEF AskTypeOK
  <2>4. /\ reply' \in [Responses -> {"idle", "storing", "joined", "won", "refused", "failed", "lost"}]
        /\ \A d \in Responses : reply'[d] = "won" => reply[d] = "won" \/ d = c
    BY <1>5, <2>1, <2>2 DEF AskTypeOK
  <2>5. \A b \in Asks : b # a => (Resolved(b)' <=> Resolved(b))
    <3>1. \A b \in Asks : b # a => recorded'[b] = recorded[b]
      BY <1>4, <1>5, <2>1, <2>2, RecordFacts
    <3> QED
      BY <3>1 DEF Resolved, Resolutions
  <2>6. \A f \in Els(tail') : OfAsk(f)'
    <3>1. \A f \in Els(Rest) : f.op = "resolve" => f.of \in Asks /\ f.of # a
      BY <1>1, <1>2, <1>4, <1>7, InFlightFacts, EntryFacts DEF QueuePart
    <3>2. \A f \in Els(Rest) : f.op = "resolve" => (Resolved(f.of)' => Resolved(f.of))
      BY <2>5, <3>1
    <3> QED
      BY <1>1, <1>2, <2>1, <2>3, <3>2, InLineKeeps
  <2>7. /\ \A b \in Asks : asked'[b] = "no" => asked[b] = "no" /\ b \notin pending'
        /\ \A b \in pending' : Resolved(b)' => resolution'[b] # None
    BY <1>5, <2>1, <2>3, <2>5 DEF Answerable, AskTypeOK
  <2>8. pending' \subseteq Asks /\ resolution' \in [Asks -> Responses \cup {None}]
    BY <1>5, <2>1 DEF AskTypeOK
  <2>9. AskPart'
    BY <1>4, <2>1, <2>2, <2>3, <2>4, <2>6, <2>7, <2>8, AskRecords
  <2> QED
    BY <1>3, <2>9
<1> QED
  BY <1>1, <1>6, <1>7

\* Or the append fails, and interact() is rejected.
LEMMA InteractionAppendFailsKeeps ==
    ASSUME QueuePart, AskPart, InteractionAppendFails
    PROVE  QueuePart' /\ AskPart'
<1> DEFINE e == Head(tail)
           a == e.of
<1>1. /\ tail # <<>> /\ e.op \in {"request", "resolve"} /\ tail' = Rest
      /\ UNCHANGED <<mode, life, queueVars, recovery>> /\ stopped' = stopped
      /\ e.op = "request" => RequestFails(a)
      /\ e.op = "resolve" => ResolutionFails(a, e.by)
  BY DEF InteractionAppendFails, Fails
<1>2. Rest \in Seq(Entries) /\ Slots(Rest) /\ Els(Rest) \subseteq Els(tail)
  BY <1>1, HeadFacts
<1>3. QueuePart'
  BY <1>1, <1>2, LineKeeps
<1>4. a \in Asks
  BY <1>1, QuestionHead
<1>5. AskTypeOK /\ \A b \in Asks : Answerable(b)
  BY DEF AskPart, AskInv
<1>6. /\ recorded' = recorded /\ resolution' = resolution /\ pending' = pending \ {a}
      /\ \/ /\ asked' = [asked EXCEPT ![a] = "over"]
            /\ outcome' = [outcome EXCEPT ![a] = "rejected"]
         \/ asked' = asked /\ outcome' = outcome
      /\ reply' = reply \/ \E cs : Told(cs, "failed")
  BY <1>1 DEF RequestFails, ResolutionFails, Deliver
<1> HIDE DEF e, a
<1>7. /\ reply' \in [Responses -> {"idle", "storing", "joined", "won", "refused", "failed", "lost"}]
      /\ \A d \in Responses : reply'[d] = "won" => reply[d] = "won"
  BY <1>5, <1>6 DEF AskTypeOK, Told
<1>8. /\ asked' \in [Asks -> {"no", "requesting", "waiting", "over", "lost"}]
      /\ \A b \in Asks : asked'[b] = "no" => asked[b] = "no"
      /\ outcome' \in [Asks -> Responses \cup {None, "rejected"}]
      /\ \A b \in Asks : outcome'[b] \in Responses => outcome'[b] = outcome[b]
  BY <1>4, <1>5, <1>6, AsksAssumption DEF AskTypeOK
<1>9. AskTypeOK'
  BY <1>5, <1>6, <1>7, <1>8 DEF AskTypeOK, Resolutions
<1>10. \A f \in Els(tail') : OfAsk(f)'
  BY <1>1, <1>2, <1>6, <1>8, InLineKeeps, RecordedKept
<1>11. /\ \A b \in Asks : asked'[b] = "no" => asked[b] = "no" /\ b \notin pending'
       /\ \A b \in pending' : Resolved(b) => resolution'[b] # None
  BY <1>5, <1>6, <1>8 DEF Answerable, AskTypeOK
<1> QED
  BY <1>3, <1>6, <1>7, <1>8, <1>9, <1>10, <1>11, AskMoves

\* AgentSession.open cancels a question that nobody answered.
LEMMA CancelKeeps ==
    ASSUME QueuePart, AskPart, Closed, NEW a \in Asks, Cancel(a)
    PROVE  QueuePart' /\ AskPart'
<1>1. /\ tail = <<>> /\ pending = {} /\ tail' = tail
      /\ UNCHANGED <<mode, life, queueVars, recovery>> /\ stopped' = stopped
      /\ recorded[a] # <<>> /\ ~Resolved(a) /\ Record(a, "cancel")
      /\ asked' = asked /\ pending' = pending /\ resolution' = resolution
      /\ outcome' = outcome /\ reply' = reply
  BY DEF Cancel, CancelRecovered, Unanswered, Closed, others
<1>2. QueuePart'
  BY <1>1, LineKeeps DEF QueuePart, QueueTypeOK, TailInv
<1>3. AskTypeOK /\ \A b \in Asks : Answerable(b)
  BY DEF AskPart, AskInv
<1>4. asked[a] # "no" /\ "cancel" \in Resolutions /\ "cancel" \notin Responses
  BY <1>1, <1>3, AsksAssumption DEF Answerable, Resolutions
<1>5. Els(tail') = {}
  BY <1>1 DEF Els
<1>6. AskPart'
  BY <1>1, <1>3, <1>4, <1>5, AskRecords DEF AskTypeOK
<1> QED
  BY <1>2, <1>6

-----------------------------------------------------------------------------
\* The process dies while an event of an item is being stored.
LEMMA UnheardLog ==
    ASSUME QueuePart, StoredUnheard
    PROVE  life' \in [Items -> Seq(Events)] /\ RunsOnce' /\ NeverImplicit'
<1> DEFINE e == Head(tail)
<1>1. tail # <<>>
  BY DEF StoredUnheard
<1>2. e \in Entries /\ e \in Els(tail) /\ OfDrain(e) /\ OfLog(e)
  BY <1>1, HeadFacts
<1>3. QueueTypeOK /\ RunsOnce /\ NeverImplicit /\ LogInv
  BY DEF QueuePart
<1>4. CASE e.op \in {"request", "resolve"}
  <2>1. life' = life
    BY <1>4 DEF StoredUnheard
  <2> QED
    BY <1>3, <2>1, PastKept DEF QueueTypeOK
<1>5. ASSUME NEW i \in Items, NEW ev \in Events, Log(i, ev), ev = "user" => ~Has(i, "user"),
             ev = "started" => Latest(i) \notin {"paused", None}
      PROVE  life' \in [Items -> Seq(Events)] /\ RunsOnce' /\ NeverImplicit'
  BY <1>3, <1>5, LogShape, LogRunsOnce, LogNeverImplicit
<1>6. CASE e.op = "requeue"
  <2>1. e.of \in Requeues /\ ItemOf[e.of] \in Items /\ e.of \in Events /\ e.of \notin {"user", "started"}
    BY <1>2, <1>6, EntryFacts, EventFacts DEF Events
  <2>2. Log(ItemOf[e.of], e.of)
    BY <1>6 DEF StoredUnheard
  <2> QED
    BY <1>5, <2>1, <2>2
<1>7. CASE e.op \in {"enqueue", "pause", "terminal", "error"}
  <2>1. e.of \in Items
    BY <1>2, <1>7, EntryFacts DEF DrainOps
  <2>2. \E ev \in {"enqueued", "paused", "terminal"} : Log(e.of, ev)
    BY <1>7 DEF StoredUnheard
  <2> QED
    BY <1>5, <2>1, <2>2 DEF Events
<1>8. CASE e.op = "start"
  <2>1. e.of \in Items /\ drain = "starting" /\ cur = e.of
    BY <1>2, <1>8, EntryFacts DEF DrainOps, OfDrain
  <2>2. Log(e.of, "started") /\ Latest(e.of) \notin {"paused", None}
    BY <1>3, <1>8, <2>1 DEF StoredUnheard, LogInv, Allowed, Holding
  <2> QED
    BY <1>5, <2>1, <2>2 DEF Events
<1>9. CASE e.op = "user"
  <2>1. e.of \in Items /\ drain = "recording" /\ cur = e.of
    BY <1>2, <1>9, EntryFacts DEF DrainOps, OfDrain
  <2>2. Log(e.of, "user") /\ ~Has(e.of, "user")
    BY <1>3, <1>9, <2>1 DEF StoredUnheard, LogInv, Unsent
  <2> QED
    BY <1>5, <2>1, <2>2 DEF Events
<1> QED
  BY <1>2, <1>4, <1>6, <1>7, <1>8, <1>9, EntryFacts DEF DrainOps

\* Whatever the log of the items is then, the memory of the session is gone.
LEMMA ForgottenQueue ==
    ASSUME ForgetMemory, life' \in [Items -> Seq(Events)], RunsOnce', NeverImplicit'
    PROVE  QueuePart'
<1>1. /\ mode' = "down" /\ tail' = <<>> /\ queue' = <<>> /\ drain' = "no" /\ cur' = None
      /\ stopped' = "no" /\ todo' = {} /\ stranded' = {}
  BY DEF ForgetMemory
<1>2. Els(<<>>) = {}
  BY DEF Els
<1>3. QueueTypeOK'
  BY <1>1 DEF QueueTypeOK
<1>4. TailInv'
  BY <1>1, <1>2 DEF TailInv, Slots
<1>5. LogInv'
  <2>1. \A j \in Items : Allowed(j)' /\ Unsent(j)'
    BY <1>1, <1>2 DEF Allowed, Unsent, Holding
  <2> QED
    BY <1>1, <1>2, <2>1 DEF LogInv
<1>6. QueuedIsHeld'
  BY <1>1 DEF QueuedIsHeld
<1> QED
  BY <1>3, <1>4, <1>5, <1>6 DEF QueuePart

\* The same for the questions: nothing is recorded, or what was being appended.
LEMMA ForgottenAsks ==
    ASSUME QueuePart, AskPart, ForgetMemory, StoredUnheard \/ recorded' = recorded
    PROVE  AskPart'
<1>1. /\ tail' = <<>> /\ pending' = {} /\ outcome' = outcome
      /\ asked' = [a \in Asks |-> IF a \in Outstanding THEN "lost" ELSE asked[a]]
      /\ resolution' = [a \in Asks |-> None]
      /\ reply' = [c \in Responses |-> IF reply[c] \in {"storing", "joined"} THEN "lost" ELSE reply[c]]
  BY DEF ForgetMemory, ForgetInteractions
<1>2. Els(tail') = {}
  BY <1>1 DEF Els
<1>3. AskTypeOK
  BY DEF AskPart
<1>4. /\ asked' \in [Asks -> {"no", "requesting", "waiting", "over", "lost"}]
      /\ \A a \in Asks : asked'[a] = "no" => asked[a] = "no"
      /\ resolution' \in [Asks -> Responses \cup {None}]
      /\ reply' \in [Responses -> {"idle", "storing", "joined", "won", "refused", "failed", "lost"}]
      /\ \A c \in Responses : reply'[c] = "won" => reply[c] = "won"
      /\ pending' \subseteq Asks /\ outcome' \in [Asks -> Responses \cup {None, "rejected"}]
  BY <1>1, <1>3 DEF AskTypeOK
<1>5. CASE recorded' = recorded
  <2>1. AskTypeOK'
    BY <1>3, <1>4, <1>5 DEF AskTypeOK, Resolutions
  <2> QED
    BY <1>1, <1>2, <1>4, <1>5, <2>1, AskMoves
<1>6. CASE StoredUnheard
  <2> DEFINE e == Head(tail)
             a == e.of
  <2>1. tail # <<>>
    BY <1>6 DEF StoredUnheard
  <2>2. CASE e.op \notin {"request", "resolve"}
    <3>1. recorded' = recorded
      BY <1>6, <2>2 DEF StoredUnheard
    <3> QED
      BY <1>5, <3>1
  <2>3. CASE e.op \in {"request", "resolve"}
    <3>1. /\ a \in Asks /\ asked[a] # "no"
          /\ e.op = "resolve" => e.by \in Responses /\ AskOf[e.by] = a /\ ~Resolved(a)
      BY <2>1, <2>3, QuestionHead
    <3>2. CASE e.op = "request"
      <4>1. Record(a, "requested") /\ "requested" \notin Resolutions /\ "requested" \notin Responses
        BY <1>6, <3>2, AsksAssumption DEF StoredUnheard, Resolutions
      <4> QED
        BY <1>1, <1>2, <1>4, <3>1, <4>1, AskRecords
    <3>3. CASE e.op = "resolve"
      <4>1. Record(a, e.by) /\ e.by \in Resolutions
        BY <1>6, <3>1, <3>3 DEF StoredUnheard, Resolutions
      <4> QED
        BY <1>1, <1>2, <1>4, <3>1, <3>3, <4>1, AskRecords
    <3> QED
      BY <2>3, <3>2, <3>3
  <2> QED
    BY <2>2, <2>3
<1> QED
  BY <1>5, <1>6

\* The process dies, or the session is disposed.
LEMMA ForgetKeeps ==
    ASSUME QueuePart, AskPart, Crash \/ Disposed
    PROVE  QueuePart' /\ AskPart' /\ Closed'
<1>1. ForgetMemory /\ (StoredUnheard \/ (life' = life /\ recorded' = recorded))
  BY DEF Crash, Disposed
<1>2. life' \in [Items -> Seq(Events)] /\ RunsOnce' /\ NeverImplicit'
  BY <1>1, UnheardLog, PastKept DEF QueuePart, QueueTypeOK
<1>3. Closed'
  BY <1>1 DEF ForgetMemory, ForgetInteractions, Closed
<1> QED
  BY <1>1, <1>2, <1>3, ForgottenQueue, ForgottenAsks

-----------------------------------------------------------------------------
\* Initially nothing is queued, in flight or recorded.
LEMMA QueueInvInit == Init => QueueInv
<1> SUFFICES ASSUME Init
             PROVE  QueueInv
  OBVIOUS
<1>1. /\ tail = <<>> /\ mode = "up" /\ life = [i \in Items |-> <<>>] /\ queue = <<>> /\ drain = "no"
      /\ cur = None /\ stopped = "no" /\ todo = {} /\ stranded = {}
      /\ asked = [a \in Asks |-> "no"] /\ recorded = [a \in Asks |-> <<>>]
      /\ pending = {} /\ resolution = [a \in Asks |-> None] /\ outcome = [a \in Asks |-> None]
      /\ reply = [c \in Responses |-> "idle"]
  BY DEF Init, InteractionsInit
<1>2. Els(<<>>) = {}
  BY DEF Els
<1>3. QueueTypeOK /\ TailInv /\ RunsOnce /\ NeverImplicit
  BY <1>1, <1>2 DEF QueueTypeOK, TailInv, Slots, RunsOnce, NeverImplicit
<1>4. \A i \in Items : Latest(i) = None
  BY <1>1 DEF Latest, LatestBefore, Lifecycles
<1>5. ShownQueued = {}
  BY <1>4, QueueAssumption DEF ShownQueued
<1>6. LogInv /\ QueuedIsHeld
  BY <1>1, <1>2, <1>5 DEF LogInv, QueuedIsHeld, Allowed, Unsent, Holding
<1>7. AskTypeOK
  BY <1>1 DEF AskTypeOK
<1>8. \A c \in Responses : AskOf[c] \in Asks /\ c # None
  BY AsksAssumption
<1>9. AskInv
  BY <1>1, <1>2, <1>8 DEF AskInv, Answerable, Resolved, FirstAnswerWins
<1> QED
  BY <1>1, <1>3, <1>6, <1>7, <1>9 DEF QueueInv, QueuePart, AskPart, Closed

\* Every step that is neither a crash nor a disposal, nor an opening, is one of a session
\* that is up and stays so.
LEMMA QueueInvNext ==
    ASSUME QueueInv, Next
    PROVE  QueueInv'
<1>1. QueuePart /\ AskPart /\ Closed
  BY DEF QueueInv
<1>2. ASSUME mode = "up", mode' = mode, QueuePart' /\ AskPart'
      PROVE  QueueInv'
  BY <1>2 DEF QueueInv, Closed
<1>3. CASE \/ \E i \in Items, p \in Priorities : Enqueue(i, p)
           \/ \E r \in Requeues, p \in Priorities : Requeue(r, p)
           \/ \E c \in Responses : Responds(c)
  <2>1. mode = "up" /\ mode' = mode
    BY <1>3 DEF Enqueue, Requeue, Responds, others
  <2> QED
    BY <1>1, <1>2, <1>3, <2>1, EnqueueKeeps, RequeueKeeps, RespondsKeeps
<1>4. CASE Stores
  <2>1. mode = "up" /\ mode' = mode
    BY <1>4 DEF Stores, EnqueueStored, RequeueStored, Started, UserStored, TerminalStored,
       PauseStored, InteractionStored, Head_, others
  <2>2. QueuePart' /\ AskPart'
    BY <1>1, <1>4, EnqueueStoredKeeps, RequeueStoredKeeps, StartedKeeps, UserStoredKeeps,
       TerminalStoredKeeps, PauseStoredKeeps, InteractionStoredKeeps DEF Stores
  <2> QED
    BY <1>2, <2>1, <2>2
<1>5. CASE BeginTurn \/ TurnEnds \/ SendThrows \/ TurnAppendFails
  <2>1. mode = "up" /\ mode' = mode
    BY <1>5 DEF BeginTurn, TurnEnds, SendThrows, TurnAppendFails, Fails
  <2> QED
    BY <1>1, <1>2, <1>5, <2>1, TurnKeeps
<1>6. CASE RequestAppendFails \/ DrainFails \/ PauseFails \/ InteractionAppendFails
  <2>1. mode = "up" /\ mode' = mode
    BY <1>6 DEF RequestAppendFails, DrainFails, PauseFails, InteractionAppendFails, Fails
  <2> QED
    BY <1>1, <1>2, <1>6, <2>1, RequestAppendFailsKeeps, DrainFailsKeeps, PauseFailsKeeps,
       InteractionAppendFailsKeeps
<1>7. CASE \/ \E i \in Items : Pause(i)
           \/ \E a \in Asks : TurnAsks(a)
  <2>1. mode = "up" /\ mode' = mode
    BY <1>7 DEF Pause, TurnAsks, others
  <2> QED
    BY <1>1, <1>2, <1>7, <2>1, PauseKeeps, TurnAsksKeeps
<1>8. CASE Crash \/ Disposed
  BY <1>1, <1>8, ForgetKeeps DEF QueueInv
<1>9. CASE Interrupt \/ Dispose \/ \E a \in Asks : TimesOut(a)
  <2>1. \/ Crash
        \/ /\ mode = "up" /\ mode' = mode /\ UNCHANGED <<tail, mode, life, queueVars, recovery>>
           /\ stopped' \in {stopped, "disposing"} /\ (stopped = "broken" => stopped' = "broken")
           /\ \E as : Reject(as)
    BY <1>9 DEF Interrupt, Dispose, TimesOut, RejectOrDie, others
  <2> QED
    BY <1>1, <1>2, <1>8, <2>1, RejectKeeps
<1>10. CASE Resume \/ Opened
  <2>1. Closed'
    BY <1>1, <1>10 DEF Closed, Resume, Opened, queueVars, recovery, interactionVars
  <2> QED
    BY <1>1, <1>10, <2>1, OpeningKeeps DEF QueueInv
<1>11. CASE \E a \in Asks : Cancel(a)
  <2>1. Closed'
    BY <1>1, <1>11 DEF Closed, Cancel, CancelRecovered, others, queueVars, recovery
  <2> QED
    BY <1>1, <1>11, <2>1, CancelKeeps DEF QueueInv
<1> QED
  BY <1>3, <1>4, <1>5, <1>6, <1>7, <1>8, <1>9, <1>10, <1>11 DEF Next, Step, Requests,
     Failures

\* A step that changes nothing.
LEMMA QueueInvStutter ==
    ASSUME QueueInv, UNCHANGED vars
    PROVE  QueueInv'
<1>1. /\ tail' = tail /\ UNCHANGED <<mode, life, queueVars, recovery>> /\ stopped' = stopped
      /\ UNCHANGED interactionVars
  BY DEF vars
<1>2. QueuePart /\ AskPart /\ Closed
  BY DEF QueueInv
<1>3. QueuePart'
  BY <1>1, <1>2, LineKeeps DEF QueuePart, QueueTypeOK, TailInv
<1>4. AskPart'
  BY <1>1, <1>2, AskUntouched
<1>5. Closed'
  BY <1>1, <1>2 DEF Closed, queueVars, recovery, interactionVars
<1> QED
  BY <1>3, <1>4, <1>5 DEF QueueInv

\* The invariant holds in every behaviour of the queue and the questions.
LEMMA QueueInvariance == Spec => []QueueInv
<1>1. QueueInv /\ [Next]_vars => QueueInv'
  BY QueueInvNext, QueueInvStutter
<1> QED
  BY <1>1, QueueInvInit, PTL DEF Spec

\* drainQueue() and send(): a prompt reaches the model at most once, over any number of
\* requeues, crashes and failed appends.
THEOREM PromptsRunOnce == Spec => []RunsOnce
<1>1. QueueInv => RunsOnce
  BY DEF QueueInv, QueuePart
<1> QED
  BY <1>1, QueueInvariance, PTL

\* pauseRecoveredQueue() and requeue(): nothing is started that was paused and not requeued
\* since, however the pauses race with the drain and with restarts.
THEOREM NothingRunsImplicitly == Spec => []NeverImplicit
<1>1. QueueInv => NeverImplicit
  BY DEF QueueInv, QueuePart
<1> QED
  BY <1>1, QueueInvariance, PTL

\* What the log shows as queued is in the queue of the daemon, or has its pause coming.
THEOREM ShownItemsHeld == Spec => []QueuedIsHeld
<1>1. QueueInv => QueuedIsHeld
  BY DEF QueueInv, QueuePart
<1> QED
  BY <1>1, QueueInvariance, PTL

\* respondToInteraction(): of any number of answers to a question one is recorded, the
\* client told that it won is its author, and the tool goes on with no other.
THEOREM OneAnswerWins == Spec => []FirstAnswerWins
<1>1. QueueInv => FirstAnswerWins
  BY DEF QueueInv, AskPart, AskInv
<1> QED
  BY <1>1, QueueInvariance, PTL

(***************************************************************************)
(* The client.                                                             *)
(***************************************************************************)
ClientTypeOK ==
    /\ transport \in Nat /\ made \in Nat
    /\ stage \in [Deliveries -> {"idle", "waiting", "rejoining", "settled"}]
    /\ attempt \in [Deliveries -> {0, 1, 2}]
    /\ result \in [Deliveries -> {"none", "confirmed", "refused", "uncertain", "failed"}]
    /\ wire \subseteq Deliveries \X {0, 1, 2} \X Nat
    /\ arrived \subseteq Deliveries \X {0, 1, 2} \X Nat
    /\ bound \in [Deliveries -> {NoHash, "request"}]
    /\ verdict \in [Deliveries -> {"none", "ok", "refused"}]
    /\ taken \in [Deliveries -> {0, 1}]

\* The steering message of a delivery, sent without a key.
Unkeyed(w, d) == w[1] = d /\ w[2] = 0

\* Nothing was sent for a delivery that has not begun.
NotBegun(d) ==
    stage[d] = "idle" => /\ attempt[d] = 0 /\ taken[d] = 0
                         /\ \A w \in wire \cup arrived : w[1] # d

\* The key is used from the first attempt with a key on, and not before.
KeyUnused(d) ==
    attempt[d] = 0 => /\ bound[d] = NoHash /\ verdict[d] = "none"
                      /\ \A w \in wire \cup arrived : w[1] = d => w[2] = 0

\* A steering message under way is the only one, it was not accepted, and the enqueue that
\* may follow its answer has not been tried.
Alone(d) ==
    \A w \in wire : Unkeyed(w, d) =>
        /\ taken[d] = 0 /\ attempt[d] = 0
        /\ \A x \in wire : Unkeyed(x, d) => x = w
        /\ \A x \in arrived : ~Unkeyed(x, d)

\* Once there is a key nothing is accepted before the daemon decides, and the content is
\* when it decides that it was.
Decided(d) ==
    /\ attempt[d] # 0 => /\ verdict[d] = "none" => taken[d] = 0
                         /\ verdict[d] = "ok" => taken[d] = 1
    /\ stage[d] = "rejoining" => attempt[d] # 0

\* What the user was shown has a reason that no later step takes away.
Grounded(d) ==
    /\ result[d] = "confirmed" => taken[d] = 1
    /\ result[d] = "refused" => attempt[d] # 0 /\ verdict[d] = "refused"

DeliveryInv == \A d \in Deliveries : NotBegun(d) /\ KeyUnused(d) /\ Alone(d) /\ Decided(d) /\ Grounded(d)

ClientInv == ClientTypeOK /\ DeliveryInv

-----------------------------------------------------------------------------
\* A step that rejects requests, or none: nothing is sent, accepted or answered, and the
\* user is shown nothing definite.
Rejects ==
    /\ attempt' = attempt /\ wire' \subseteq wire /\ arrived' \subseteq arrived
    /\ bound' = bound /\ verdict' = verdict /\ taken' = taken
    /\ transport' \in Nat /\ made' \in Nat
    /\ stage' \in [Deliveries -> {"idle", "waiting", "rejoining", "settled"}]
    /\ result' \in [Deliveries -> {"none", "confirmed", "refused", "uncertain", "failed"}]
    /\ \A d \in Deliveries :
        /\ result'[d] \in {result[d], "uncertain", "failed"}
        /\ stage'[d] = "idle" => stage[d] = "idle"
        /\ stage'[d] = "rejoining" => stage[d] = "rejoining" \/ attempt[d] # 0

\* Such a step keeps the invariant.
LEMMA RejectsKeep ==
    ASSUME ClientInv, Rejects
    PROVE  ClientInv'
<1>1. ClientTypeOK'
  BY DEF ClientInv, ClientTypeOK, Rejects
<1>2. ASSUME NEW d \in Deliveries
      PROVE  (NotBegun(d) /\ KeyUnused(d) /\ Alone(d) /\ Decided(d) /\ Grounded(d))'
  <2>1. NotBegun(d) /\ KeyUnused(d) /\ Alone(d) /\ Decided(d) /\ Grounded(d)
    BY DEF ClientInv, DeliveryInv
  <2>2. NotBegun(d)' /\ KeyUnused(d)'
    BY <2>1 DEF Rejects, NotBegun, KeyUnused
  <2>3. Alone(d)'
    BY <2>1 DEF Rejects, Alone, Unkeyed
  <2>4. Decided(d)' /\ Grounded(d)'
    BY <2>1 DEF Rejects, Decided, Grounded
  <2> QED
    BY <2>2, <2>3, <2>4
<1> QED
  BY <1>1, <1>2 DEF ClientInv, DeliveryInv

\* The deliveries that wait are deliveries.
LEMMA WaitingFacts == Waiting \subseteq Deliveries /\ Rejoining \subseteq Deliveries /\ ReconnectCallers \subseteq Deliveries
BY DEF Waiting, Rejoining, ReconnectCallers

\* fail() shows nothing definite, and only a request with a key is tried again.
LEMMA FailRejects ==
    ASSUME ClientTypeOK, NEW code, NEW over \in SUBSET Deliveries, NEW ended, Fail(code, over, ended),
           UNCHANGED <<wire, daemon, made>>
    PROVE  Rejects
<1> DEFINE again == {d \in Waiting \ over : Retries(attempt[d], code)}
           settled == (Waiting \cup over) \ again
<1>1. /\ stage' = [d \in Deliveries |-> CASE d \in again -> "rejoining"
                                          [] d \in settled -> "settled"
                                          [] OTHER -> stage[d]]
      /\ result' = [d \in Deliveries |-> IF d \in settled THEN Shown(code) ELSE result[d]]
      /\ attempt' = attempt
  BY DEF Fail
<1>2. transport' = 0
  BY DEF Fail, Reconnect
<1>3. Shown(code) \in {"uncertain", "failed"}
  BY DEF Shown
<1>4. \A d \in again : attempt[d] # 0 /\ d \in Deliveries
  BY DEF Retries, Waiting
<1>5. \A d \in Deliveries : stage'[d] = CASE d \in again -> "rejoining"
                                          [] d \in settled -> "settled"
                                          [] OTHER -> stage[d]
  BY <1>1
<1>6. \A d \in Deliveries : /\ d \in again => stage'[d] = "rejoining"
                            /\ d \notin again => stage'[d] \in {"settled", stage[d]}
  <2> HIDE DEF again
  <2>1. TAKE d \in Deliveries
  <2>2. CASE d \in again
    BY <1>5, <2>2
  <2>3. CASE d \notin again /\ d \in settled
    BY <1>5, <2>3
  <2>4. CASE d \notin again /\ d \notin settled
    <3> HIDE DEF settled
    <3> QED
      BY <1>5, <2>4
  <2> QED
    BY <2>2, <2>3, <2>4
<1>7. stage' \in [Deliveries -> {"idle", "waiting", "rejoining", "settled"}]
  <2>1. \A d \in Deliveries : stage'[d] \in {"idle", "waiting", "rejoining", "settled"}
    BY <1>6 DEF ClientTypeOK
  <2>2. stage' = [d \in Deliveries |-> stage'[d]]
    BY <1>1
  <2> QED
    BY <2>1, <2>2
<1> HIDE DEF again, settled
<1>8. /\ result' \in [Deliveries -> {"none", "confirmed", "refused", "uncertain", "failed"}]
      /\ \A d \in Deliveries : result'[d] \in {result[d], "uncertain", "failed"}
  BY <1>1, <1>3 DEF ClientTypeOK
<1>9. \A d \in Deliveries : /\ stage'[d] = "idle" => stage[d] = "idle"
                            /\ stage'[d] = "rejoining" => stage[d] = "rejoining" \/ attempt[d] # 0
  BY <1>4, <1>6
<1> QED
  BY <1>1, <1>2, <1>7, <1>8, <1>9 DEF Rejects, ClientTypeOK, daemon

\* Nor does settling a request for want of an answer.
LEMMA SettleRejects ==
    ASSUME ClientTypeOK, NEW ds \in SUBSET Deliveries, NEW r \in {"uncertain", "failed"}, Settle(ds, r),
           wire' \subseteq wire, arrived' \subseteq arrived, transport' \in Nat, made' \in Nat,
           bound' = bound, verdict' = verdict, taken' = taken
    PROVE  Rejects
BY DEF Settle, Rejects, ClientTypeOK

-----------------------------------------------------------------------------
\* A delivery that may use its key now: it has done so before, or nothing was accepted and
\* nothing without a key is under way.
Keyable(d) == attempt[d] # 0 \/ (taken[d] = 0 /\ \A w \in wire : ~Unkeyed(w, d))

\* A request that is sent with a key that may be used, or for the first time.
LEMMA SendKeeps ==
    ASSUME ClientInv, NEW ds \in SUBSET Deliveries, NEW n \in {0, 1, 2}, Send(ds, n),
           \A d \in ds : IF n = 0 THEN stage[d] = "idle" ELSE Keyable(d),
           arrived' \subseteq arrived, transport' \in Nat, made' \in Nat,
           bound' = bound, verdict' = verdict, taken' = taken
    PROVE  ClientInv'
<1> USE DEF ClientInv, DeliveryInv
<1>1. \A w \in wire' : w \in wire \/ (w[1] \in ds /\ w[2] = n /\ w[3] = transport /\ w = <<w[1], n, transport>>)
  BY DEF Send
<1>2. ClientTypeOK'
  <2>1. wire' \subseteq Deliveries \X {0, 1, 2} \X Nat
    BY DEF Send, ClientTypeOK
  <2> QED
    BY <2>1 DEF Send, ClientTypeOK
<1>3. ASSUME NEW d \in Deliveries
      PROVE  (NotBegun(d) /\ KeyUnused(d) /\ Alone(d) /\ Decided(d) /\ Grounded(d))'
  <2>1. NotBegun(d) /\ KeyUnused(d) /\ Alone(d) /\ Decided(d) /\ Grounded(d)
    OBVIOUS
  <2>2. CASE d \notin ds
    <3>1. stage'[d] = stage[d] /\ attempt'[d] = attempt[d] /\ result'[d] = result[d]
      BY <2>2 DEF Send, ClientTypeOK
    <3>2. \A w \in wire' : w[1] = d => w \in wire
      BY <1>1, <2>2
    <3>3. NotBegun(d)' /\ KeyUnused(d)'
      BY <2>1, <3>1, <3>2 DEF NotBegun, KeyUnused
    <3>4. Alone(d)'
      BY <2>1, <3>1, <3>2 DEF Alone, Unkeyed
    <3> QED
      BY <2>1, <3>1, <3>3, <3>4 DEF Decided, Grounded
  <2>3. CASE d \in ds /\ n = 0
    <3>1. /\ stage'[d] = "waiting" /\ attempt'[d] = 0 /\ result'[d] = result[d]
          /\ stage[d] = "idle" /\ attempt[d] = 0
      BY <2>1, <2>3 DEF Send, ClientTypeOK, NotBegun
    <3>2. \A w \in wire' : w[1] = d => w = <<d, 0, transport>>
      BY <1>1, <2>1, <2>3, <3>1 DEF NotBegun
    <3>3. \A w \in arrived' : w[1] # d
      BY <2>1, <3>1 DEF NotBegun
    <3>4. NotBegun(d)' /\ KeyUnused(d)'
      BY <2>1, <3>1, <3>2, <3>3 DEF NotBegun, KeyUnused
    <3>5. Alone(d)'
      BY <2>1, <3>1, <3>2, <3>3 DEF Alone, Unkeyed, NotBegun
    <3> QED
      BY <2>1, <3>1, <3>4, <3>5 DEF Decided, Grounded
  <2>4. CASE d \in ds /\ n # 0
    <3>1. /\ stage'[d] = "waiting" /\ attempt'[d] = n /\ result'[d] = result[d] /\ Keyable(d)
      BY <2>4 DEF Send, ClientTypeOK
    <3>2. \A w \in wire : ~Unkeyed(w, d)
      BY <2>1, <3>1 DEF Keyable, Alone
    <3>3. \A w \in wire' : ~Unkeyed(w, d)
      BY <1>1, <2>4, <3>2 DEF Unkeyed
    <3>4. (verdict[d] = "none" => taken[d] = 0) /\ (verdict[d] = "ok" => taken[d] = 1)
      BY <2>1, <3>1 DEF Keyable, Decided, KeyUnused
    <3> QED
      BY <2>1, <2>4, <3>1, <3>3, <3>4 DEF NotBegun, KeyUnused, Alone, Decided, Grounded,
         Unkeyed
  <2> QED
    BY <2>2, <2>3, <2>4
<1> QED
  BY <1>2, <1>3

\* A request that is not written and will be tried again after the reconnect.
LEMMA RejoinKeeps ==
    ASSUME ClientInv, NEW d \in Deliveries, Keyable(d),
           stage' = [stage EXCEPT ![d] = "rejoining"], attempt' = [attempt EXCEPT ![d] = 1],
           UNCHANGED <<result, wire, bound, verdict, taken, made>>,
           arrived' \subseteq arrived, transport' \in Nat
    PROVE  ClientInv'
<1> USE DEF ClientInv, DeliveryInv
<1>1. ClientTypeOK'
  BY DEF ClientTypeOK
<1>2. ASSUME NEW e \in Deliveries
      PROVE  (NotBegun(e) /\ KeyUnused(e) /\ Alone(e) /\ Decided(e) /\ Grounded(e))'
  <2>1. NotBegun(e) /\ KeyUnused(e) /\ Alone(e) /\ Decided(e) /\ Grounded(e)
    OBVIOUS
  <2>2. CASE e # d
    BY <2>1, <2>2 DEF NotBegun, KeyUnused, Alone, Decided, Grounded, Unkeyed, ClientTypeOK
  <2>3. CASE e = d
    BY <2>1, <2>3 DEF Keyable, NotBegun, KeyUnused, Alone, Decided, Grounded, Unkeyed,
       ClientTypeOK
  <2> QED
    BY <2>2, <2>3
<1> QED
  BY <1>1, <1>2

\* request(): whatever becomes of it.
LEMMA RequestKeeps ==
    ASSUME ClientInv, NEW d \in Deliveries, NEW n \in {0, 1}, Request(d, n),
           IF n = 0 THEN stage[d] = "idle" ELSE Keyable(d),
           UNCHANGED <<bound, verdict, taken, made>>, arrived' \subseteq arrived
    PROVE  ClientInv'
<1>1. ClientTypeOK /\ {d} \in SUBSET Deliveries /\ transport \in Nat /\ made \in Nat
  BY DEF ClientInv, ClientTypeOK
<1>2. ASSUME NEW r \in {"uncertain", "failed"}, Settle({d}, r), UNCHANGED <<connection, wire>>
      PROVE  ClientInv'
  BY <1>1, <1>2, SettleRejects, RejectsKeep DEF connection
<1>3. ASSUME NEW code, NotSent(d, n, code)
      PROVE  ClientInv'
  <2>1. CASE ~Retries(n, code) /\ Settle({d}, Shown(code)) /\ UNCHANGED <<connection, wire>>
    <3>1. Shown(code) \in {"uncertain", "failed"}
      BY DEF Shown
    <3> QED
      BY <1>2, <2>1, <3>1
  <2>2. CASE /\ Retries(n, code)
             /\ stage' = [stage EXCEPT ![d] = "rejoining"] /\ attempt' = [attempt EXCEPT ![d] = n]
             /\ IF Awaits("none") THEN Reconnect ELSE UNCHANGED connection
             /\ UNCHANGED <<via, result, wire>>
    <3>1. n = 1 /\ Keyable(d)
      BY <2>2 DEF Retries
    <3>2. transport' \in Nat
      BY <1>1, <2>2 DEF Reconnect, connection
    <3> QED
      BY <2>2, <3>1, <3>2, RejoinKeeps
  <2> QED
    BY <1>3, <2>1, <2>2 DEF NotSent
<1>4. ASSUME Send({d}, n), UNCHANGED connection
      PROVE  ClientInv'
  BY <1>1, <1>4, SendKeeps DEF connection
<1> QED
  BY <1>2, <1>3, <1>4 DEF Request

\* deliverPrompt(): a prompt has its key from the start, a steering message has none.
LEMMA DeliverKeeps ==
    ASSUME ClientInv, NEW d \in Deliveries, DeliverPrompt(d)
    PROVE  ClientInv'
<1>1. /\ stage[d] = "idle" /\ Request(d, IF d \in Prompts THEN 1 ELSE 0)
      /\ UNCHANGED <<bound, verdict, taken, made>> /\ arrived' = arrived
  BY DEF DeliverPrompt, daemon, counters
<1>2. Keyable(d)
  BY <1>1 DEF ClientInv, DeliveryInv, NotBegun, Keyable, Unkeyed
<1>3. CASE d \in Prompts
  BY <1>1, <1>2, <1>3, RequestKeeps
<1>4. CASE d \notin Prompts
  BY <1>1, <1>4, RequestKeeps
<1> QED
  BY <1>3, <1>4

-----------------------------------------------------------------------------
\* A request that the daemon takes off the connection.
LEMMA ArriveKeeps ==
    ASSUME ClientInv, NEW w \in wire, Arrive(w)
    PROVE  ClientInv'
<1> USE DEF ClientInv, DeliveryInv
<1> DEFINE d == w[1]
<1>1. /\ d \in Deliveries /\ w[2] \in {0, 1, 2} /\ w \in Deliveries \X {0, 1, 2} \X Nat
      /\ wire' = wire \ {w} /\ arrived' = arrived \cup {w}
      /\ stage' = stage /\ attempt' = attempt /\ result' = result
      /\ transport' = transport /\ made' = made
  BY DEF Arrive, ClientTypeOK, connection, delivery, counters
<1>2. NotBegun(d) /\ KeyUnused(d) /\ Alone(d) /\ Decided(d) /\ Grounded(d)
  BY <1>1
<1>3. stage[d] # "idle"
  BY <1>2 DEF NotBegun
<1>4. ASSUME w[2] = 0, NEW n \in {0, 1}, taken' = [taken EXCEPT ![d] = @ + n],
             UNCHANGED <<bound, verdict, told>>
      PROVE  ClientInv'
  <2>1. taken[d] = 0 /\ attempt[d] = 0
    BY <1>2, <1>4 DEF Alone, Unkeyed
  <2>2. taken'[d] = n /\ \A e \in Deliveries : e # d => taken'[e] = taken[e]
    BY <1>1, <1>4, <2>1 DEF ClientTypeOK
  <2>3. taken' \in [Deliveries -> {0, 1}]
    BY <1>1, <1>4, <2>1 DEF ClientTypeOK
  <2>4. ClientTypeOK'
    BY <1>1, <1>4, <2>3 DEF ClientTypeOK
  <2>5. ASSUME NEW e \in Deliveries
        PROVE  (NotBegun(e) /\ KeyUnused(e) /\ Alone(e) /\ Decided(e) /\ Grounded(e))'
    <3>1. NotBegun(e) /\ KeyUnused(e) /\ Alone(e) /\ Decided(e) /\ Grounded(e)
      OBVIOUS
    <3>2. CASE e # d
      BY <1>1, <1>4, <2>2, <3>1, <3>2 DEF NotBegun, KeyUnused, Alone, Decided, Grounded,
         Unkeyed
    <3>3. CASE e = d
      <4>1. NotBegun(e)' /\ KeyUnused(e)'
        BY <1>1, <1>3, <1>4, <3>1, <3>3 DEF NotBegun, KeyUnused
      <4>2. Alone(e)'
        BY <1>1, <1>4, <3>1, <3>3 DEF Alone, Unkeyed
      <4>3. Decided(e)' /\ Grounded(e)'
        BY <1>1, <1>4, <2>1, <2>2, <3>1, <3>3 DEF Decided, Grounded
      <4> QED
        BY <4>1, <4>2, <4>3
    <3> QED
      BY <3>2, <3>3
  <2> QED
    BY <2>4, <2>5
<1>5. ASSUME w[2] # 0, bound' \in [Deliveries -> {NoHash, "request"}],
             \A e \in Deliveries : e # d => bound'[e] = bound[e],
             UNCHANGED <<verdict, taken>>
      PROVE  ClientInv'
  <2>1. attempt[d] # 0
    BY <1>2, <1>5 DEF KeyUnused
  <2>2. ClientTypeOK'
    BY <1>1, <1>5 DEF ClientTypeOK
  <2>3. ASSUME NEW e \in Deliveries
        PROVE  (NotBegun(e) /\ KeyUnused(e) /\ Alone(e) /\ Decided(e) /\ Grounded(e))'
    <3>1. NotBegun(e) /\ KeyUnused(e) /\ Alone(e) /\ Decided(e) /\ Grounded(e)
      OBVIOUS
    <3>2. NotBegun(e)'
      BY <1>1, <1>3, <1>5, <3>1 DEF NotBegun
    <3>3. KeyUnused(e)'
      BY <1>1, <1>5, <2>1, <3>1 DEF KeyUnused
    <3>4. Alone(e)' /\ Decided(e)' /\ Grounded(e)'
      BY <1>1, <1>5, <3>1 DEF Alone, Decided, Grounded, Unkeyed
    <3> QED
      BY <3>2, <3>3, <3>4
  <2> QED
    BY <2>2, <2>3
<1>6. ASSUME w[2] # 0, Journal!Bind(d, "request"), UNCHANGED taken
      PROVE  ClientInv'
  BY <1>1, <1>5, <1>6 DEF Journal!Bind, ClientTypeOK
<1>7. ASSUME w[2] # 0, UNCHANGED <<bound, verdict, told, taken>>
      PROVE  ClientInv'
  BY <1>5, <1>7 DEF ClientTypeOK
<1> QED
  BY <1>4, <1>6, <1>7 DEF Arrive

\* The daemon decides a key once, and accepts the content only then.
LEMMA DecideKeeps ==
    ASSUME ClientInv, NEW d \in Deliveries, NEW r \in {"ok", "refused"}, Decide(d, r)
    PROVE  ClientInv'
<1> USE DEF ClientInv, DeliveryInv
<1>1. /\ bound[d] # NoHash /\ verdict[d] = "none" /\ verdict' = [verdict EXCEPT ![d] = r]
      /\ bound' = bound /\ wire' = wire /\ arrived' = arrived
      /\ stage' = stage /\ attempt' = attempt /\ result' = result
      /\ transport' = transport /\ made' = made
  BY DEF Decide, Journal!Decide, connection, delivery, counters
<1>2. attempt[d] # 0 /\ taken[d] = 0 /\ stage[d] # "idle" /\ result[d] \notin {"confirmed", "refused"}
  BY <1>1 DEF KeyUnused, Decided, NotBegun, Grounded
<1>3. PICK n \in {0, 1} : taken' = [taken EXCEPT ![d] = @ + n] /\ (r = "ok" => n = 1)
  BY DEF Decide
<1>4. taken'[d] = n /\ \A e \in Deliveries : e # d => taken'[e] = taken[e]
  BY <1>2, <1>3 DEF ClientTypeOK
<1>5. taken' \in [Deliveries -> {0, 1}]
  BY <1>2, <1>3 DEF ClientTypeOK
<1>6. ClientTypeOK'
  BY <1>1, <1>5 DEF ClientTypeOK
<1>7. ASSUME NEW e \in Deliveries
      PROVE  (NotBegun(e) /\ KeyUnused(e) /\ Alone(e) /\ Decided(e) /\ Grounded(e))'
  <2>1. NotBegun(e) /\ KeyUnused(e) /\ Alone(e) /\ Decided(e) /\ Grounded(e)
    OBVIOUS
  <2>2. CASE e = d
    <3>1. verdict'[e] = r /\ taken'[e] = n
      BY <1>1, <1>4, <2>2 DEF ClientTypeOK
    <3>2. NotBegun(e)' /\ KeyUnused(e)'
      BY <1>1, <1>2, <2>1, <2>2 DEF NotBegun, KeyUnused
    <3>3. Alone(e)'
      BY <1>1, <1>2, <2>1, <2>2 DEF Alone
    <3>4. Decided(e)' /\ Grounded(e)'
      BY <1>1, <1>2, <1>3, <2>1, <2>2, <3>1 DEF Decided, Grounded
    <3> QED
      BY <3>2, <3>3, <3>4
  <2>3. CASE e # d
    <3>1. verdict'[e] = verdict[e] /\ taken'[e] = taken[e]
      BY <1>1, <1>4, <2>3 DEF ClientTypeOK
    <3> QED
      BY <1>1, <2>1, <3>1 DEF NotBegun, KeyUnused, Alone, Decided, Grounded, Unkeyed
  <2> QED
    BY <2>2, <2>3
<1> QED
  BY <1>6, <1>7

\* An answer that was accepted or refused is shown as such.
LEMMA AnswerKeeps ==
    ASSUME ClientInv, NEW d \in Deliveries, NEW r \in {"confirmed", "refused"}, Settle({d}, r),
           IF r = "confirmed" THEN taken[d] = 1 ELSE attempt[d] # 0 /\ verdict[d] = "refused",
           UNCHANGED <<connection, wire, bound, verdict, taken, made>>, arrived' \subseteq arrived
    PROVE  ClientInv'
<1> USE DEF ClientInv, DeliveryInv
<1>1. /\ stage' = [e \in Deliveries |-> IF e \in {d} THEN "settled" ELSE stage[e]]
      /\ result' = [e \in Deliveries |-> IF e \in {d} THEN r ELSE result[e]]
      /\ attempt' = attempt /\ transport' = transport
  BY DEF Settle, connection
<1>2. ClientTypeOK'
  BY <1>1 DEF ClientTypeOK
<1>3. ASSUME NEW e \in Deliveries
      PROVE  (NotBegun(e) /\ KeyUnused(e) /\ Alone(e) /\ Decided(e) /\ Grounded(e))'
  <2>1. NotBegun(e) /\ KeyUnused(e) /\ Alone(e) /\ Decided(e) /\ Grounded(e)
    OBVIOUS
  <2> QED
    BY <1>1, <2>1 DEF NotBegun, KeyUnused, Alone, Decided, Grounded, Unkeyed
<1> QED
  BY <1>2, <1>3

\* The answer to a request, and the enqueue that follows a steering message that found no
\* operation: the message has arrived and was not accepted.
LEMMA RespondKeeps ==
    ASSUME ClientInv, NEW d \in Deliveries, DaemonResponds(d)
    PROVE  ClientInv'
<1> DEFINE w == <<d, attempt[d], transport>>
           call == <<d, attempt[d]>>
<1>1. /\ w \in arrived /\ arrived' \subseteq arrived
      /\ UNCHANGED <<bound, verdict, taken, made>>
  BY DEF DaemonResponds, counters
<1>2. CASE attempt[d] = 0 /\ Answered(d, 0, IF taken[d] = 1 THEN "ok" ELSE "operation_inactive")
  <2>1. CASE taken[d] = 1
    <3>1. Settle({d}, "confirmed") /\ UNCHANGED <<connection, wire>>
      BY <1>2, <2>1 DEF Answered
    <3> QED
      BY <1>1, <2>1, <3>1, AnswerKeeps
  <2>2. CASE taken[d] # 1
    <3>1. Request(d, 1)
      BY <1>2, <2>2 DEF Answered
    <3>2. taken[d] = 0
      BY <2>2 DEF ClientInv, ClientTypeOK
    <3>3. \A x \in wire : ~Unkeyed(x, d)
      <4>1. Unkeyed(w, d)
        BY <1>2 DEF Unkeyed
      <4> QED
        BY <1>1, <4>1 DEF ClientInv, DeliveryInv, Alone
    <3> QED
      BY <1>1, <3>1, <3>2, <3>3, RequestKeeps DEF Keyable
  <2> QED
    BY <2>1, <2>2
<1>3. ASSUME attempt[d] # 0, NEW r \in Journal!MayTell(call) \ {"io_error"}, Answered(d, attempt[d], r)
      PROVE  ClientInv'
  <2>1. call \in Deliveries \X {1, 2} /\ call[1] = d
    BY <1>3 DEF ClientInv, ClientTypeOK
  <2>2. (r \in {"ok", "refused"} /\ verdict[d] = r) \/ r = "conflict"
    BY <1>3, <2>1 DEF Journal!MayTell
  <2>3. CASE r = "ok" /\ verdict[d] = r
    <3>1. taken[d] = 1
      BY <1>3, <2>3 DEF ClientInv, DeliveryInv, Decided
    <3> QED
      BY <1>1, <1>3, <2>3, <3>1, AnswerKeeps DEF Answered
  <2>4. CASE r = "refused" /\ verdict[d] = r
    BY <1>1, <1>3, <2>4, AnswerKeeps DEF Answered
  <2>5. CASE r = "conflict"
    BY <1>3, <2>5 DEF Answered
  <2> QED
    BY <2>2, <2>3, <2>4, <2>5
<1> QED
  BY <1>2, <1>3 DEF DaemonResponds

-----------------------------------------------------------------------------
\* The invariant holds of every state: one step per action.
LEMMA ClientInvariance == ClientSpec => []ClientInv
<1>1. ClientInit => ClientInv
  <2> SUFFICES ASSUME ClientInit PROVE ClientInv
    OBVIOUS
  <2>1. /\ bound = [d \in Deliveries |-> NoHash] /\ verdict = [d \in Deliveries |-> "none"]
    BY DEF ClientInit, Journal!Init
  <2>2. ClientTypeOK
    BY <2>1 DEF ClientInit, ClientTypeOK
  <2>3. DeliveryInv
    BY <2>1 DEF ClientInit, DeliveryInv, NotBegun, KeyUnused, Alone, Decided, Grounded,
       Unkeyed
  <2> QED
    BY <2>2, <2>3 DEF ClientInv
<1>2. ClientInv /\ [ClientNext]_clientVars => ClientInv'
  <2> SUFFICES ASSUME ClientInv, [ClientNext]_clientVars PROVE ClientInv'
    OBVIOUS
  <2>0. ClientTypeOK /\ transport \in Nat /\ made \in Nat
    BY DEF ClientInv, ClientTypeOK
  <2>1. ASSUME NEW d \in Deliveries, DeliverPrompt(d) PROVE ClientInv'
    BY <2>1, DeliverKeeps
  <2>2. ASSUME NEW w, Arrive(w) PROVE ClientInv'
    BY <2>2, ArriveKeeps DEF Arrive
  <2>3. ASSUME NEW d \in Deliveries, NEW r \in {"ok", "refused"}, Decide(d, r) PROVE ClientInv'
    BY <2>3, DecideKeeps
  <2>4. ASSUME NEW d \in Deliveries, DaemonResponds(d) PROVE ClientInv'
    BY <2>4, RespondKeeps
  <2>5. ASSUME NEW d \in Deliveries, Turned(d) PROVE ClientInv'
    <3>1. \A code : Shown(code) \in {"uncertain", "failed"} /\ {d} \in SUBSET Deliveries
      BY DEF Shown
    <3> QED
      BY <2>0, <2>5, <3>1, SettleRejects, RejectsKeep DEF Turned, connection, daemon
  <2>6. CASE PeerCloses \/ Connected \/ Negotiated \/ AppReconnects \/ UNCHANGED clientVars
    <3>1. Rejects
      BY <2>0, <2>6 DEF PeerCloses, Connected, Negotiated, AppReconnects, Reconnect,
         Rejects,
         ClientTypeOK, clientVars, connection, delivery, daemon, counters
    <3> QED
      BY <3>1, RejectsKeep
  <2>7. CASE CloseReported \/ HandshakeFails \/ Close \/ Breaks \/ RestoreFails
    <3>1. ASSUME NEW code, NEW over \in SUBSET Deliveries, NEW ended, Fail(code, over, ended), Stays
          PROVE  ClientInv'
      BY <2>0, <3>1, FailRejects, RejectsKeep DEF Stays
    <3>2. ReconnectCallers \in SUBSET Deliveries /\ Rejoining \in SUBSET Deliveries /\ {} \in SUBSET Deliveries
      BY WaitingFacts
    <3>3. CASE CloseReported
      BY <3>1, <3>2, <3>3 DEF CloseReported
    <3>4. CASE HandshakeFails
      BY <3>1, <3>2, <3>4 DEF HandshakeFails
    <3>5. CASE Close
      BY <3>1, <3>2, <3>5 DEF Close
    <3>6. CASE Breaks
      BY <3>1, <3>2, <3>6 DEF Breaks
    <3>7. CASE RestoreFails
      BY <3>1, <3>2, <3>7 DEF RestoreFails
    <3> QED
      BY <2>7, <3>3, <3>4, <3>5, <3>6, <3>7
  <2>8. CASE ConnectFails
    <3>1. Shown("connection_error") \in {"uncertain", "failed"}
      BY DEF Shown
    <3> QED
      BY <2>0, <2>8, <3>1, WaitingFacts, SettleRejects, RejectsKeep DEF ConnectFails, Stays,
         daemon
  <2>9. CASE Restored
    <3>1. UNCHANGED <<transport, arrived, bound, verdict, taken, made>>
      BY <2>9 DEF Restored, daemon, counters
    <3>2. CASE Send(Rejoining, 2)
      <4>1. \A d \in Rejoining : Keyable(d)
        BY DEF ClientInv, DeliveryInv, Decided, Rejoining, Keyable
      <4> QED
        BY <2>0, <3>1, <3>2, <4>1, WaitingFacts, SendKeeps
    <3>3. CASE Settle(Rejoining, "uncertain") /\ UNCHANGED wire
      BY <2>0, <3>1, <3>3, WaitingFacts, SettleRejects, RejectsKeep
    <3> QED
      BY <2>9, <3>2, <3>3 DEF Restored
  <2> QED
    BY <2>1, <2>2, <2>3, <2>4, <2>5, <2>6, <2>7, <2>8, <2>9 DEF ClientNext, Serving, Opening
<1> QED
  BY <1>1, <1>2, PTL DEF ClientSpec

\* deliverPrompt() and request(): however often the connection breaks between an attempt,
\* its answer and the retry, the daemon accepts the content of a delivery at most once.
THEOREM DeliveriesTakenOnce == ClientSpec => []TakenOnce
<1>1. ClientInv => TakenOnce
  BY DEF ClientInv, ClientTypeOK, TakenOnce
<1> QED
  BY <1>1, ClientInvariance, PTL

\* After an answer to its key nothing more is accepted of a delivery: the key is decided, and
\* no steering message is under way.
LEMMA AnswerIsFinal ==
    ASSUME ClientInv, [ClientNext]_clientVars,
           NEW d \in Deliveries, result[d] \in {"confirmed", "refused"}
    PROVE  taken'[d] = taken[d]
<1>1. taken \in [Deliveries -> {0, 1}] /\ Grounded(d) /\ Alone(d) /\ Decided(d) /\ KeyUnused(d)
  BY DEF ClientInv, ClientTypeOK, DeliveryInv
<1>2. ASSUME NEW w, Arrive(w) PROVE taken'[d] = taken[d]
  <2>1. CASE w[1] = d /\ w[2] = 0
    <3>1. w \in wire /\ taken[d] = 0 /\ attempt[d] = 0
      BY <1>1, <1>2, <2>1 DEF Arrive, Alone, Unkeyed
    <3> QED
      BY <1>1, <3>1 DEF Grounded
  <2>2. CASE ~(w[1] = d /\ w[2] = 0)
    BY <1>1, <1>2, <2>2 DEF Arrive
  <2> QED
    BY <2>1, <2>2
<1>3. ASSUME NEW e \in Deliveries, NEW r \in {"ok", "refused"}, Decide(e, r)
      PROVE  taken'[d] = taken[d]
  <2>1. verdict[e] = "none" /\ bound[e] # NoHash
    BY <1>3 DEF Decide, Journal!Decide
  <2>2. e # d
    BY <1>1, <2>1 DEF KeyUnused, Decided, Grounded
  <2> QED
    BY <1>1, <1>3, <2>2 DEF Decide
<1>4. CASE \/ \E e \in Deliveries : DeliverPrompt(e) \/ DaemonResponds(e) \/ Turned(e)
           \/ PeerCloses \/ CloseReported \/ Breaks \/ Opening \/ AppReconnects \/ Close
           \/ UNCHANGED clientVars
  <2>1. taken' = taken
    BY <1>4 DEF DeliverPrompt, DaemonResponds, Turned, PeerCloses, CloseReported, Breaks,
       Opening, Connected, ConnectFails, Negotiated, HandshakeFails, Restored, RestoreFails,
       AppReconnects, Close, Stays, daemon, clientVars
  <2> QED
    BY <2>1
<1> QED
  BY <1>2, <1>3, <1>4 DEF ClientNext, Serving

\* deliverPrompt(): what it reports as confirmed was accepted, and after a confirmation or a
\* refusal nothing more is, whatever earlier attempt is still on its way.
THEOREM ShownAnswersHold == ClientSpec => AnswersHold
<1>1. ClientInv => \A d \in Deliveries : result[d] = "confirmed" => taken[d] = 1
  BY DEF ClientInv, DeliveryInv, Grounded
<1>2. ClientInv /\ [ClientNext]_clientVars =>
        [\A d \in Deliveries :
           result[d] \in {"confirmed", "refused"} => taken'[d] = taken[d]]_clientVars
  BY AnswerIsFinal
<1> QED
  BY <1>1, <1>2, ClientInvariance, PTL DEF ClientSpec, AnswersHold
=============================================================================

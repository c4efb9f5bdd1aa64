----------------------- MODULE SubscriptionTurnProofs -----------------------
(***************************************************************************)
(* Machine-checked proofs about the two runs of establish(), the chain of  *)
(* deliveries and the recovery of a subscription: who is current, and in   *)
(* which order the superseded ones await the daemon, for any number of     *)
(* events, any limits and any number of faults.                            *)
(*                                                                         *)
(* They rest on the frames and requests of SubscriptionProofs, and use its *)
(* lemmas on the effect of each step.                                      *)
(***************************************************************************)
EXTENDS SubscriptionProofs

(***************************************************************************)
(* Generations: whose the runs, the deliveries, the listener and the       *)
(* requests are.                                                           *)
(***************************************************************************)
Pair == {"main", "recovery"}
Draining == {"draining", "reduced", "acking"}
Running == Loading \cup Draining

\* Run t belongs to the present generation, and so does delivery i.
Current(t) == est[t].pc \in Running /\ est[t].gen = gen
Now(i) == chain[i].gen = gen

StagesOK == /\ est["main"].pc \notin {"unsubscribing", "closing"}
            /\ est["recovery"].pc \notin {"joining", "closing"}
            /\ est["close"].pc \in {"idle", "joining", "closing"}
GensOK == /\ \A t \in Pair : est[t].pc \in Running => est[t].gen <= gen
          /\ est["main"].pc \in Running /\ est["recovery"].pc \in Running => est["main"].gen # est["recovery"].gen
          /\ \A i \in 1..Len(chain) : chain[i].gen <= gen
\* The listener is that of the current run, or of the last one that ended.
BoundOK == /\ bound # "nobody" => /\ est[bound].pc \in Running => est[bound].gen = gen
                                  /\ est[bound].pc \notin {"cleaning", "unsubscribing"}
           /\ \A t \in Pair : Current(t) /\ bound # "nobody" => bound = t
\* What a request was made with.
SentRun(t) ==
    /\ est[t].pc = "subscribing" => /\ calls[t].cursor = est[t].cursor
                                    /\ calls[t].kind = "snapshot" => est[t].cursor = None
                                    /\ calls[t].kind = "resumed" => est[t].cursor # None
                                    /\ est[t].how = "snapshot" => est[t].cursor = None
    /\ est[t].pc = "bounding" => calls[t].cursor = est[t].cursor
    /\ est[t].pc = "acking" => calls[t].sub = Held(t).sub /\ calls[t].cursor = HeldCursor(t)
SentChain == stage = "acking" => calls["delivery"].sub = First.sub /\ calls["delivery"].cursor = FirstCursor
SentOK == (\A t \in Pair : SentRun(t)) /\ SentChain
ShapeInv == StagesOK /\ GensOK /\ BoundOK /\ SentOK

LEMMA PairRuns == /\ "main" \in Pair /\ "recovery" \in Pair /\ "main" \in Runs /\ "recovery" \in Runs /\ "close" \in Runs
                  /\ \A t \in Pair : t \in Runs /\ t \in Activities /\ t # "close" /\ t # "delivery" /\ t # "nobody"
                  /\ "close" \in Activities /\ "delivery" \in Activities /\ "nobody" \notin Activities
BY DEF Pair, Runs, Activities

\* The request of v, if there is one, is the same, or was rejected.
CallKept(v) == calls[v].state # "none" =>
                 /\ calls'[v].cursor = calls[v].cursor /\ calls'[v].sub = calls[v].sub
                 /\ calls'[v].kind = calls[v].kind \/ calls'[v].kind = "error"

LEMMA CallsKept ==
    /\ calls' = calls => \A v \in Activities : CallKept(v)
    /\ \A t : IsTaken(t) => \A v \in Activities : v # t => CallKept(v)
    /\ \A t : IsFailed(t) => \A v \in Activities : v # t => CallKept(v)
    /\ \A u, t, kind, s, start, c : Requested(u, t, kind, s, start, c) => \A v \in Activities : v # t /\ v # u => CallKept(v)
BY ZenonT(60) DEF CallKept, IsTaken, IsFailed, Requested, Same

LEMMA SentKept ==
    ASSUME RequestsOK, NEW v \in Pair, SentRun(v), CallKept(v), est'[v] = est[v]
    PROVE  SentRun(v)'
<1>1. Held(v)' = Held(v) /\ HeldCursor(v)' = HeldCursor(v)
  BY DEF Held, HeldCursor
<1>2. est[v].pc \in {"subscribing", "bounding", "acking"} => calls[v].state # "none"
  BY PairRuns DEF RequestsOK, AwaitedOK, Awaited, Where, Resting
<1> QED BY <1>1, <1>2 DEF SentRun, CallKept

LEMMA SentChainKept ==
    ASSUME RequestsOK, SentChain, CallKept("delivery"), stage' = "acking" => stage = "acking" /\ First' = First
    PROVE  SentChain'
<1>2. stage = "acking" => calls["delivery"].state # "none"
  BY PairRuns DEF RequestsOK, AwaitedOK, Awaited, Where, Resting
<1> QED BY <1>2 DEF SentChain, CallKept, FirstCursor

\* The generations of the deliveries after a step that keeps or shortens the chain.
LEMMA ChainGens ==
    ASSUME TypeOK, GensOK, chain' = chain \/ (chain # <<>> /\ chain' = Tail(chain)), gen' \in Nat, gen <= gen'
    PROVE  /\ \A i \in 1..Len(chain') : chain'[i].gen <= gen'
           /\ gen < gen' => \A i \in 1..Len(chain') : chain'[i].gen # gen'
<1>0. gen \in Nat
  BY DEF TypeOK, ViewTypeOK
<1>1. \A i \in 1..Len(chain) : chain[i].gen \in Nat /\ chain[i].gen <= gen
  <2> DEFINE E == [frame : Frame, gen : Nat]
  <2>1. chain \in Seq(E)
    BY ViewFacts
  <2> HIDE DEF E
  <2>2. \A i \in 1..Len(chain) : chain[i] \in E
    BY <2>1
  <2>3. \A i \in 1..Len(chain) : chain[i].gen \in Nat
    BY <2>2 DEF E
  <2> QED BY <2>3 DEF GensOK
<1>2. \A i \in 1..Len(chain') : chain'[i].gen \in Nat /\ chain'[i].gen <= gen
  <2>1. CASE chain' = chain
    BY SMTT(40), <1>1, <2>1
  <2>2. CASE chain # <<>> /\ chain' = Tail(chain)
    <3>1. Len(chain') = Len(chain) - 1 /\ (\A i \in 1..(Len(chain) - 1) : chain'[i] = chain[i + 1]) /\ Len(chain) \in Nat
      BY <2>2, ChainFacts
    <3> QED BY SMTT(40), <1>1, <3>1
  <2> QED BY <2>1, <2>2
<1> QED BY <1>0, <1>2

LEMMA GenTypes ==
    ASSUME TypeOK
    PROVE  /\ gen \in Nat /\ \A t \in Runs : est[t] \in Run /\ est[t].gen \in Nat /\ est[t].pc \in Stages
           /\ bound \in {"nobody", "main", "recovery"}
BY DEF TypeOK, ViewTypeOK, Run

Plain == {"idle", "draining", "reduced", "acking", "paging", "bounding", "cleaning", "subscribing"}

\* Run t moves on within its generation.
LEMMA ShapeRun ==
    ASSUME TypeOK, RequestsOK, ShapeInv, NEW t \in Pair, Only(t), gen' = gen, chain' = chain, stage' = stage,
           est'[t].pc \in Plain, est'[t].pc \in Running => est[t].pc \in Running /\ est'[t].gen = est[t].gen,
           bound' = "nobody" \/ (bound' = bound /\ est'[t].pc # "cleaning"),
           SentRun(t)', \A v \in Activities : v # t => CallKept(v)
    PROVE  ShapeInv'
<1>0. t \in Runs /\ t # "close" /\ \A v \in Pair : v \in Runs /\ v \in Activities
  BY PairRuns
<1>1. StagesOK'
  BY <1>0, PairRuns DEF ShapeInv, StagesOK, Only, Plain
<1>2. GensOK'
  BY <1>0, PairRuns DEF ShapeInv, GensOK, Only, Pair
<1>3. BoundOK'
  <2>1. CASE bound' = "nobody"
    BY <2>1 DEF BoundOK
  <2>2. CASE bound' = bound /\ bound # "nobody" /\ est'[t].pc # "cleaning"
    <3>1. bound \in Pair
      BY <2>2, GenTypes DEF Pair
    <3>2. \A v \in Pair : Current(v)' => Current(v)
      BY <1>0 DEF Current, Only
    <3>3. est'[t].pc # "unsubscribing"
      BY DEF Plain
    <3> QED BY <1>0, <2>2, <3>1, <3>2, <3>3 DEF ShapeInv, BoundOK, Only
  <2> QED BY <2>1, <2>2 DEF BoundOK
<1>4. SentOK'
  <2>1. \A v \in Pair : SentRun(v)'
    <3> SUFFICES ASSUME NEW v \in Pair, v # t PROVE SentRun(v)'
      OBVIOUS
    <3>1. est'[v] = est[v] /\ CallKept(v) /\ SentRun(v)
      BY <1>0 DEF Only, ShapeInv, SentOK
    <3> QED BY <3>1, SentKept
  <2>2. First' = First
    BY DEF First
  <2>3. SentChain'
    <3>1. CallKept("delivery") /\ SentChain
      BY PairRuns DEF ShapeInv, SentOK
    <3> QED BY <2>2, <3>1, SentChainKept
  <2> QED BY <2>1, <2>3 DEF SentOK
<1> QED BY <1>1, <1>2, <1>3, <1>4 DEF ShapeInv

\* A run starts.
LEMMA ShapeEstablish ==
    ASSUME TypeOK, RequestsOK, ShapeInv, NEW u \in Activities, NEW t \in Pair, NEW g, NEW how, NEW p, NEW a,
           EstablishEffect(u, t, g, how, p, a), g \in Nat, gen < g, u = t \/ u = "delivery",
           u = t => chain' = chain /\ stage' = stage,
           u # t => chain # <<>> /\ chain' = Tail(chain) /\ stage' = "next"
    PROVE  ShapeInv'
<1>0. t \in Runs /\ t # "close" /\ \A v \in Pair : v \in Runs /\ v \in Activities
  BY PairRuns
<1>1. /\ gen' = g /\ bound' = t /\ Moves(t, "subscribing", g, how, Offer(how, p, a), <<>>, "")
      /\ Requested(u, t, "subscribe", 0, 0, Offer(how, p, a))
  BY DEF EstablishEffect
<1>2. Only(t) /\ est'[t].pc = "subscribing" /\ est'[t].gen = g /\ est'[t].how = how /\ est'[t].cursor = Offer(how, p, a)
  BY <1>1 DEF Moves, Only
<1>a. StagesOK'
  BY <1>0, <1>2, PairRuns DEF ShapeInv, StagesOK, Only
<1>3. gen' \in Nat /\ gen \in Nat /\ gen <= gen' /\ gen' = g /\ gen < g
  <2>1. gen \in Nat
    BY GenTypes
  <2>2. gen' = g /\ g \in Nat /\ gen < g
    BY <1>1
  <2> QED BY <2>1, <2>2
<1>4. \A v \in Pair : v # t /\ est'[v].pc \in Running => est'[v].gen \in Nat /\ est'[v].gen < g
  <2>1. \A v \in Pair : v # t => est'[v] = est[v]
    BY <1>0, <1>2 DEF Only
  <2>2. \A v \in Pair : v # t /\ est[v].pc \in Running => est[v].gen \in Nat /\ est[v].gen <= gen
    BY <1>0, GenTypes DEF ShapeInv, GensOK
  <2> QED BY <1>3, <2>1, <2>2
<1>b. GensOK'
  <2>1. \A i \in 1..Len(chain') : chain'[i].gen <= gen'
    BY <1>3, ChainGens DEF ShapeInv
  <2>2. \A v \in Pair : est'[v].pc \in Running => est'[v].gen <= g
    BY <1>2, <1>3, <1>4
  <2>3. est'["main"].pc \in Running /\ est'["recovery"].pc \in Running => est'["main"].gen # est'["recovery"].gen
    BY <1>2, <1>3, <1>4 DEF Pair
  <2> QED BY <1>1, <2>1, <2>2, <2>3 DEF GensOK
<1>c. BoundOK'
  <2>1. \A v \in Pair : Current(v)' => v = t
    <3> SUFFICES ASSUME NEW v \in Pair, v # t, est'[v].pc \in Running, est'[v].gen = g PROVE FALSE
      BY <1>3 DEF Current
    <3> QED BY <1>3, <1>4
  <2> QED BY <1>0, <1>1, <1>2, <2>1 DEF BoundOK
<1>d. SentOK'
  <2>1. \A v \in Pair : SentRun(v)'
    <3> SUFFICES ASSUME NEW v \in Pair PROVE SentRun(v)'
      OBVIOUS
    <3>1. CASE v = t
      <4>1. calls'[t].cursor = Offer(how, p, a) /\ calls'[t].kind \in {"subscribe", "error"}
        BY <1>1, GenTypes DEF Requested, TypeOK, ChannelTypeOK
      <4>2. how = "snapshot" => Offer(how, p, a) = None
        BY DEF Offer
      <4> QED BY <1>2, <3>1, <4>1, <4>2 DEF SentRun
    <3>2. CASE v # t
      <4>0. v # u /\ v \in Activities /\ v \in Runs
        BY <3>2, PairRuns
      <4>1. CallKept(v)
        BY <1>1, <3>2, <4>0, CallsKept
      <4>2. est'[v] = est[v] /\ SentRun(v)
        BY <1>2, <3>2, <4>0 DEF Only, ShapeInv, SentOK
      <4> QED BY <4>1, <4>2, SentKept
    <3> QED BY <3>1, <3>2
  <2>2. SentChain'
    <3>1. CASE u = t
      <4>1. CallKept("delivery") /\ SentChain /\ stage' = stage /\ First' = First
        BY <1>0, <1>1, <3>1, CallsKept, PairRuns DEF ShapeInv, SentOK, First
      <4> QED BY <4>1, SentChainKept
    <3>2. CASE u # t
      BY <3>2 DEF SentChain
    <3> QED BY <3>1, <3>2
  <2> QED BY <2>1, <2>2 DEF SentOK
<1> QED BY <1>a, <1>b, <1>c, <1>d DEF ShapeInv

\* The chain moves on within the generation, its request asked or taken.
LEMMA ShapeChain ==
    ASSUME TypeOK, RequestsOK, ShapeInv, est' = est, gen' = gen, bound' \in {"nobody", bound},
           chain' = chain \/ (chain # <<>> /\ chain' = Tail(chain)),
           SentChain', \A v \in Activities : v # "delivery" => CallKept(v)
    PROVE  ShapeInv'
<1>1. StagesOK' /\ BoundOK'
  BY DEF ShapeInv, StagesOK, BoundOK, Current
<1>2. GensOK'
  <2>1. \A i \in 1..Len(chain') : chain'[i].gen <= gen'
    BY ChainGens, GenTypes DEF ShapeInv
  <2> QED BY <2>1 DEF ShapeInv, GensOK
<1>3. SentOK'
  <2>1. ASSUME NEW v \in Pair PROVE SentRun(v)'
    <3>1. est'[v] = est[v] /\ CallKept(v) /\ SentRun(v)
      BY PairRuns DEF ShapeInv, SentOK
    <3> QED BY <3>1, SentKept
  <2> QED BY <2>1 DEF SentOK
<1> QED BY <1>1, <1>2, <1>3 DEF ShapeInv

Within == UNCHANGED <<gen, chain, stage>>

LEMMA ShapeThrow ==
    ASSUME TypeOK, RequestsOK, ShapeInv, NEW t \in Pair, ThrowEffect(t), Within, bound' \in {"nobody", bound}
    PROVE  ShapeInv'
<1>1. Only(t) /\ est'[t].pc = "idle"
  BY OnlyMoves DEF ThrowEffect
<1>2. \A v \in Activities : v # t => CallKept(v)
  BY CallsKept DEF ThrowEffect
<1>3. SentRun(t)' /\ est'[t].pc \in Plain /\ est'[t].pc \notin Running
  BY <1>1 DEF SentRun, Plain, Running, Loading, Draining
<1> QED BY <1>1, <1>2, <1>3, ShapeRun DEF Within

LEMMA ShapeCleanup ==
    ASSUME TypeOK, RequestsOK, ShapeInv, NEW t \in Pair, NEW code, CleanupEffect(t, code), Within
    PROVE  ShapeInv'
<1>1. Only(t) /\ est'[t].pc = "cleaning" /\ bound' = "nobody"
  BY OnlyMoves DEF CleanupEffect
<1>2. \A v \in Activities : v # t => CallKept(v)
  BY CallsKept DEF CleanupEffect
<1>3. SentRun(t)' /\ est'[t].pc \in Plain /\ est'[t].pc \notin Running
  BY <1>1 DEF SentRun, Plain, Running, Loading, Draining
<1> QED BY <1>1, <1>2, <1>3, ShapeRun DEF Within

\* Run t of a stage in Running goes to pc, having asked or taken a response.
LEMMA ShapeGoes ==
    ASSUME TypeOK, RequestsOK, ShapeInv, NEW t \in Pair, Only(t), Within, bound' = bound, est[t].pc \in Running,
           \/ est'[t].pc = "idle"
           \/ est'[t].pc \in Running \ {"subscribing", "bounding", "acking"} /\ est'[t].gen = est[t].gen
           \/ est'[t].pc \in {"subscribing", "bounding", "acking"} /\ est'[t].gen = est[t].gen /\ SentRun(t)',
           \A v \in Activities : v # t => CallKept(v)
    PROVE  ShapeInv'
<1>1. est'[t].pc \in Plain /\ est'[t].pc # "cleaning" /\ (est'[t].pc \in Running => est'[t].gen = est[t].gen)
  BY DEF Plain, Running, Loading, Draining
<1>2. SentRun(t)'
  BY DEF SentRun, Running, Loading, Draining
<1> QED BY <1>1, <1>2, ShapeRun DEF Within

LEMMA ShapeLoad ==
    ASSUME TypeOK, RequestsOK, ShapeInv, NEW t \in Pair, LoadEffect(t), Within, bound' = bound,
           est[t].pc \in {"subscribing", "paging"}
    PROVE  ShapeInv'
<1>0. Only(t) /\ est[t].pc \in Running
  BY OnlyLoads DEF Running, Loading
<1>1. \/ /\ est'[t].pc = "bounding" /\ est'[t].gen = est[t].gen /\ est'[t].cursor = LastCursor(t)
         /\ Requested(t, t, "ack", calls[t].sub, 0, LastCursor(t))
      \/ /\ est'[t].pc = "paging" /\ est'[t].gen = est[t].gen
         /\ \E n : Requested(t, t, "history", calls[t].sub, n, None)
      \/ est'[t].pc = "idle" /\ IsTaken(t)
  BY DEF LoadEffect, Keeps, Stops, Moves
<1>2. \A v \in Activities : v # t => CallKept(v)
  BY <1>1, CallsKept
<1>3. CASE est'[t].pc = "bounding"
  <2>1. calls'[t].cursor = LastCursor(t) /\ est'[t].cursor = LastCursor(t) /\ est'[t].gen = est[t].gen
    BY <1>1, <1>3 DEF Requested
  <2>2. SentRun(t)'
    BY <1>3, <2>1 DEF SentRun
  <2> QED BY <1>0, <1>2, <1>3, <2>1, <2>2, ShapeGoes
<1>4. CASE est'[t].pc = "paging"
  <2>1. "paging" \in Running \ {"subscribing", "bounding", "acking"} /\ est'[t].gen = est[t].gen
    BY <1>1, <1>4 DEF Running, Loading
  <2> QED BY <1>0, <1>2, <1>4, <2>1, ShapeGoes
<1>5. CASE est'[t].pc = "idle"
  BY <1>0, <1>2, <1>5, ShapeGoes
<1> QED BY <1>1, <1>3, <1>4, <1>5

LEMMA ShapeRuns ==
    ASSUME TypeOK, FramesOK, RequestsOK, ShapeInv, NEW t \in Pair, EstablishNext(t)
    PROVE  ShapeInv'
<1>0. t \in {"main", "recovery"} /\ gen + 1 \in Nat /\ gen < gen + 1 /\ t \in Activities
  BY GenTypes, PairRuns DEF Pair
<1>c. {"draining", "reduced"} \subseteq Running \ {"subscribing", "bounding", "acking"}
      /\ {"subscribing", "paging", "bounding", "draining", "reduced", "acking"} \subseteq Running
  BY DEF Running, Loading, Draining
<1>1. CASE OnSnapshot(t)
  <2>1. LoadEffect(t) /\ Within /\ bound' = bound /\ est[t].pc = "subscribing"
    BY <1>0, <1>1, OnSnapshotFacts DEF Received, Within
  <2> QED BY <2>1, ShapeLoad
<1>2. CASE OnPage(t)
  <2>1. /\ Within /\ est[t].pc = "paging"
        /\ CleanupEffect(t, "missing_parent") \/ (LoadEffect(t) /\ bound' = bound)
    BY <1>0, <1>2, OnPageFacts DEF Received, Within
  <2> QED BY <2>1, ShapeLoad, ShapeCleanup
<1>3. CASE OnResumed(t)
  <2>1. /\ Within /\ bound' = bound /\ IsTaken(t) /\ est[t].pc = "subscribing"
        /\ Keeps(t, "draining") \/ Stops(t)
    BY <1>0, <1>3, OnResumedFacts DEF Received, Within
  <2>2. Only(t) /\ (est'[t].pc = "idle" \/ (est'[t].pc = "draining" /\ est'[t].gen = est[t].gen))
    BY <2>1 DEF Keeps, Stops, Moves, Only
  <2>3. \A v \in Activities : v # t => CallKept(v)
    BY <2>1, CallsKept
  <2> QED BY <1>c, <2>1, <2>2, <2>3, ShapeGoes
<1>4. CASE OnBoundary(t)
  <2>1. /\ Within /\ bound' = bound /\ IsTaken(t) /\ est[t].pc = "bounding"
        /\ Keeps(t, "draining") \/ Stops(t)
    BY <1>0, <1>4, OnBoundaryFacts DEF Received, Within
  <2>2. Only(t) /\ (est'[t].pc = "idle" \/ (est'[t].pc = "draining" /\ est'[t].gen = est[t].gen))
    BY <2>1 DEF Keeps, Stops, Moves, Only
  <2>3. \A v \in Activities : v # t => CallKept(v)
    BY <2>1, CallsKept
  <2> QED BY <1>c, <2>1, <2>2, <2>3, ShapeGoes
<1>5. CASE OnRefused(t)
  <2>1. /\ Within /\ est[t].pc = "subscribing"
        /\ \/ /\ Moves(t, "subscribing", est[t].gen, est[t].how, None, est[t].pending, est[t].code)
              /\ Requested(t, t, "subscribe", 0, 0, None) /\ bound' = bound
           \/ bound' = "nobody" /\ ThrowEffect(t)
    BY <1>0, <1>5, OnRefusedFacts DEF Received, Within
  <2>2. CASE bound' = "nobody" /\ ThrowEffect(t)
    BY <2>1, <2>2, ShapeThrow
  <2>3. CASE /\ Moves(t, "subscribing", est[t].gen, est[t].how, None, est[t].pending, est[t].code)
             /\ Requested(t, t, "subscribe", 0, 0, None) /\ bound' = bound
    <3>1. Only(t) /\ est'[t].pc = "subscribing" /\ est'[t].gen = est[t].gen /\ est'[t].cursor = None
      BY <2>3 DEF Moves, Only
    <3>2. calls'[t].cursor = None /\ calls'[t].kind \in {"subscribe", "error"}
      BY <2>3 DEF Requested, TypeOK, ChannelTypeOK
    <3>3. SentRun(t)'
      BY <3>1, <3>2 DEF SentRun
    <3>4. \A v \in Activities : v # t => CallKept(v)
      BY <2>3, CallsKept
    <3> QED BY <1>c, <2>1, <2>3, <3>1, <3>3, <3>4, ShapeGoes
  <2> QED BY <2>1, <2>2, <2>3
<1>6. CASE OnLoadError(t)
  <2>1. CleanupEffect(t, calls[t].code) /\ Within
    BY <1>0, <1>6, OnLoadErrorFacts DEF Within
  <2> QED BY <2>1, ShapeCleanup
<1>7. CASE OnCleaned(t)
  <2>1. /\ chain' = chain /\ stage' = stage
        /\ \/ EstablishEffect(t, t, gen + 1, "snapshot", {}, None)
           \/ ThrowEffect(t) /\ gen' = gen /\ bound' = bound
    BY <1>0, <1>7, OnCleanedFacts DEF view
  <2> QED BY <1>0, <2>1, ShapeEstablish, ShapeThrow DEF Within
<1>8. CASE OnCleanupFailed(t)
  <2>1. ThrowEffect(t) /\ Within /\ bound' = bound
    BY <1>0, <1>8, OnCleanupFailedFacts DEF view, Within
  <2> QED BY <2>1, ShapeThrow
<1>9. CASE DrainSkip(t)
  <2>1. /\ est[t].pc = "draining" /\ Within /\ bound' = bound /\ calls' = calls
        /\ Moves(t, "draining", est[t].gen, est[t].how, est[t].cursor, Tail(est[t].pending), est[t].code)
    BY <1>0, <1>9, DrainSkipFacts DEF view, channel, Within, Drains
  <2>2. Only(t) /\ est'[t].pc = "draining" /\ est'[t].gen = est[t].gen
    BY <2>1 DEF Moves, Only
  <2> QED BY <1>c, <2>1, <2>2, CallsKept, ShapeGoes
<1>10. CASE DrainReduce(t)
  <2>1. /\ est[t].pc = "draining" /\ Within
        /\ \/ Keeps(t, "reduced") /\ calls' = calls /\ bound' = bound
           \/ CleanupEffect(t, Rejected(Held(t)))
    BY <1>0, <1>10, DrainReduceFacts DEF Within, Drains
  <2>2. CASE CleanupEffect(t, Rejected(Held(t)))
    BY <2>1, <2>2, ShapeCleanup
  <2>3. CASE Keeps(t, "reduced") /\ calls' = calls /\ bound' = bound
    <3>2. Only(t) /\ est'[t].pc = "reduced" /\ est'[t].gen = est[t].gen
      BY <2>3 DEF Moves, Only, Keeps
    <3> QED BY <1>c, <2>1, <2>3, <3>2, CallsKept, ShapeGoes
  <2> QED BY <2>1, <2>2, <2>3
<1>11. CASE DrainAck(t)
  <2>1. /\ est[t].pc = "reduced" /\ Within /\ bound' = bound
        /\ \/ Keeps(t, "acking") /\ Requested(t, t, "ack", Held(t).sub, 0, HeldCursor(t))
           \/ /\ calls' = calls
              /\ Moves(t, "draining", est[t].gen, est[t].how, est[t].cursor, Tail(est[t].pending), est[t].code)
    BY <1>0, <1>11, DrainAckFacts DEF Within
  <2>2. CASE Keeps(t, "acking") /\ Requested(t, t, "ack", Held(t).sub, 0, HeldCursor(t))
    <3>1. Only(t) /\ est'[t].pc = "acking" /\ est'[t].gen = est[t].gen /\ est'[t].pending = est[t].pending
      BY <2>2 DEF Moves, Only, Keeps
    <3>2. Held(t)' = Held(t) /\ HeldCursor(t)' = HeldCursor(t)
      BY <3>1 DEF Held, HeldCursor
    <3>3. calls'[t].cursor = HeldCursor(t) /\ calls'[t].sub = Held(t).sub
      BY <2>2 DEF Requested
    <3>4. SentRun(t)'
      BY <3>1, <3>2, <3>3 DEF SentRun
    <3>5. \A v \in Activities : v # t => CallKept(v)
      BY <2>2, CallsKept
    <3> QED BY <1>c, <2>1, <3>1, <3>4, <3>5, ShapeGoes
  <2>3. CASE /\ calls' = calls
             /\ Moves(t, "draining", est[t].gen, est[t].how, est[t].cursor, Tail(est[t].pending), est[t].code)
    <3>1. Only(t) /\ est'[t].pc = "draining" /\ est'[t].gen = est[t].gen
      BY <2>3 DEF Moves, Only
    <3> QED BY <1>c, <2>1, <2>3, <3>1, CallsKept, ShapeGoes
  <2> QED BY <2>1, <2>2, <2>3
<1>12. CASE OnDrainAcked(t)
  <2>1. /\ est[t].pc = "acking" /\ Within /\ bound' = bound /\ IsTaken(t)
        /\ Moves(t, "draining", est[t].gen, est[t].how, est[t].cursor, Tail(est[t].pending), est[t].code)
    BY <1>0, <1>12, OnDrainAckedFacts DEF Within, Received
  <2>2. Only(t) /\ est'[t].pc = "draining" /\ est'[t].gen = est[t].gen
    BY <2>1 DEF Moves, Only
  <2>3. \A v \in Activities : v # t => CallKept(v)
    BY <2>1, CallsKept
  <2> QED BY <1>c, <2>1, <2>2, <2>3, ShapeGoes
<1>13. CASE Established(t)
  <2>1. /\ est[t].pc = "draining" /\ Within /\ bound' = bound /\ calls' = calls
        /\ Moves(t, "idle", 0, "resume", None, <<>>, "")
    BY <1>0, <1>13, EstablishedFacts DEF channel, Within, Drains
  <2>2. Only(t) /\ est'[t].pc = "idle"
    BY <2>1 DEF Moves, Only
  <2> QED BY <1>c, <2>1, <2>2, CallsKept, ShapeGoes
<1> QED BY <1>1, <1>2, <1>3, <1>4, <1>5, <1>6, <1>7, <1>8, <1>9, <1>10, <1>11, <1>12, <1>13 DEF EstablishNext

\* Nothing of the shape moves, or one run within its stage.
LEMMA ShapeSame ==
    ASSUME TypeOK, RequestsOK, ShapeInv, UNCHANGED <<gen, bound, chain, stage>>,
           \A v \in Runs : /\ est'[v].pc = est[v].pc /\ est'[v].gen = est[v].gen /\ est'[v].how = est[v].how
                           /\ est'[v].cursor = est[v].cursor
                           /\ est[v].pc = "acking" => est'[v].pending = est[v].pending,
           \A v \in Activities : CallKept(v)
    PROVE  ShapeInv'
<1>1. StagesOK'
  BY PairRuns DEF ShapeInv, StagesOK
<1>2. GensOK'
  BY PairRuns DEF ShapeInv, GensOK
<1>3. BoundOK'
  <2>1. bound # "nobody" => bound \in Runs
    BY GenTypes, PairRuns
  <2>2. \A v \in Pair : Current(v)' <=> Current(v)
    BY PairRuns DEF Current
  <2> QED BY <2>1, <2>2 DEF ShapeInv, BoundOK
<1>4. SentOK'
  <2>1. ASSUME NEW v \in Pair PROVE SentRun(v)'
    <3>1. est[v].pc \in {"subscribing", "bounding", "acking"} => calls[v].state # "none"
      BY PairRuns DEF RequestsOK, AwaitedOK, Awaited, Where, Resting
    <3>2. est[v].pc = "acking" => Held(v)' = Held(v) /\ HeldCursor(v)' = HeldCursor(v)
      BY PairRuns DEF Held, HeldCursor
    <3>3. CallKept(v) /\ SentRun(v)
      BY PairRuns DEF ShapeInv, SentOK
    <3> QED BY <3>1, <3>2, <3>3, PairRuns DEF SentRun, CallKept
  <2>2. SentChain'
    <3>1. CallKept("delivery") /\ SentChain /\ First' = First
      BY PairRuns DEF ShapeInv, SentOK, First
    <3> QED BY <3>1, SentChainKept
  <2> QED BY <2>1, <2>2 DEF SentOK
<1> QED BY <1>1, <1>2, <1>3, <1>4 DEF ShapeInv

\* The first delivery is over, its request taken.
LEMMA ShapeDelivered ==
    ASSUME TypeOK, RequestsOK, ShapeInv, est' = est, gen' = gen, bound' \in {"nobody", bound}, stage' = "next",
           chain # <<>>, chain' = Tail(chain), calls' = calls \/ IsTaken("delivery")
    PROVE  ShapeInv'
<1>1. SentChain'
  BY DEF SentChain
<1>2. \A v \in Activities : v # "delivery" => CallKept(v)
  BY CallsKept
<1> QED BY <1>1, <1>2, ShapeChain

LEMMA ShapeFailing ==
    ASSUME TypeOK, RequestsOK, ShapeInv, NEW code, FailedEffect(code), chain # <<>>, chain' = Tail(chain), stage' = "next"
    PROVE  ShapeInv'
<1>1. \/ RecoverEffect(RecoverHow(code))
      \/ IsTaken("delivery") /\ est' = est /\ gen' = gen /\ bound' = "nobody"
  BY DEF FailedEffect
<1>2. CASE IsTaken("delivery") /\ est' = est /\ gen' = gen /\ bound' = "nobody"
  BY <1>2, ShapeDelivered
<1>3. CASE RecoverEffect(RecoverHow(code))
  <2>1. PICK how : how = RecoverHow(code)
    OBVIOUS
  <2>2. \/ IsTaken("delivery") /\ est' = est /\ gen' = gen /\ bound' = bound
        \/ /\ gen' = gen + 1 /\ bound' = "nobody" /\ Moves("recovery", "unsubscribing", 0, how, None, <<>>, "")
           /\ Requested("delivery", "recovery", "unsubscribe", curSub, 0, None)
        \/ EstablishEffect("delivery", "recovery", gen + 2, how, proj, acked)
    BY <1>3, <2>1 DEF RecoverEffect, view
  <2>3. CASE IsTaken("delivery") /\ est' = est /\ gen' = gen /\ bound' = bound
    BY <2>3, ShapeDelivered
  <2>4. CASE /\ gen' = gen + 1 /\ bound' = "nobody" /\ Moves("recovery", "unsubscribing", 0, how, None, <<>>, "")
             /\ Requested("delivery", "recovery", "unsubscribe", curSub, 0, None)
    <3>0. gen \in Nat /\ gen' \in Nat /\ gen < gen' /\ gen <= gen'
      <4>1. gen \in Nat
        BY GenTypes
      <4>2. gen' = gen + 1
        BY <2>4
      <4> QED BY <4>1, <4>2
    <3>1. Only("recovery") /\ est'["recovery"].pc = "unsubscribing"
      BY <2>4, OnlyMoves
    <3>2. StagesOK'
      BY <3>1, PairRuns DEF ShapeInv, StagesOK, Only
    <3>3. GensOK'
      <4>1. \A i \in 1..Len(chain') : chain'[i].gen <= gen'
        BY <3>0, ChainGens DEF ShapeInv
      <4>2. est'["recovery"].pc \notin Running
        BY <3>1 DEF Running, Loading, Draining
      <4>3. est["main"].pc \in Running => est["main"].gen \in Nat /\ est["main"].gen <= gen
        BY GenTypes, PairRuns DEF ShapeInv, GensOK
      <4>4. est'["main"] = est["main"]
        BY <3>1, PairRuns DEF Only
      <4>5. est'["main"].pc \in Running => est'["main"].gen <= gen'
        BY <3>0, <4>3, <4>4
      <4> QED BY <4>1, <4>2, <4>5 DEF GensOK, Pair
    <3>4. BoundOK'
      BY <2>4 DEF BoundOK
    <3>5. SentOK'
      <4>1. SentRun("recovery")' /\ SentChain'
        BY <3>1 DEF SentRun, SentChain
      <4>a. \A v \in Activities : v # "recovery" /\ v # "delivery" => CallKept(v)
        BY <2>4, CallsKept
      <4>0. CallKept("main")
        BY <4>a, PairRuns
      <4>2. CallKept("main") /\ SentRun("main") /\ est'["main"] = est["main"]
        BY <3>1, <4>0, PairRuns DEF ShapeInv, SentOK, Only
      <4>3. SentRun("main")'
        BY <4>2, SentKept, PairRuns
      <4> QED BY <4>1, <4>3 DEF SentOK, Pair
    <3> QED BY <3>2, <3>3, <3>4, <3>5 DEF ShapeInv
  <2>5. CASE EstablishEffect("delivery", "recovery", gen + 2, how, proj, acked)
    <3>1. gen + 2 \in Nat /\ gen < gen + 2
      BY GenTypes
    <3>2. "delivery" \in Activities /\ "recovery" \in Pair /\ "delivery" # "recovery"
      BY PairRuns
    <3> QED BY <2>5, <3>1, <3>2, ShapeEstablish
  <2> QED BY <2>2, <2>3, <2>4, <2>5
<1> QED BY <1>1, <1>2, <1>3

LEMMA ShapeDeliveries ==
    ASSUME TypeOK, FramesOK, RequestsOK, ShapeInv,
           DeliverSkip \/ DeliverReduce \/ DeliverFails \/ DeliverAck \/ OnAcked \/ OnAckError
    PROVE  ShapeInv'
<1>1. CASE DeliverSkip
  BY <1>1, DeliverSkipFacts, ShapeDelivered DEF channel, view
<1>2. CASE DeliverReduce
  <2>1. est' = est /\ gen' = gen /\ bound' = bound /\ chain' = chain /\ stage' = "reduced" /\ calls' = calls
    BY <1>2, DeliverReduceFacts DEF channel
  <2>2. SentChain'
    BY <2>1 DEF SentChain
  <2> QED BY <2>1, <2>2, CallsKept, ShapeChain
<1>3. CASE DeliverFails
  BY <1>3, DeliverFailsFacts, ShapeFailing
<1>4. CASE DeliverAck
  <2>1. /\ chain # <<>> /\ est' = est /\ gen' = gen /\ bound' = bound
        /\ \/ /\ stage' = "acking" /\ Requested("delivery", "delivery", "ack", First.sub, 0, FirstCursor)
              /\ chain' = chain
           \/ stage' = "next" /\ calls' = calls /\ chain' = Tail(chain)
    BY <1>4, DeliverAckFacts
  <2>2. CASE stage' = "next" /\ calls' = calls /\ chain' = Tail(chain)
    BY <2>1, <2>2, ShapeDelivered
  <2>3. CASE /\ stage' = "acking" /\ Requested("delivery", "delivery", "ack", First.sub, 0, FirstCursor)
             /\ chain' = chain
    <3>1. \A v \in Activities : v # "delivery" => CallKept(v)
      BY <2>3, CallsKept
    <3>2. First' = First /\ FirstCursor' = FirstCursor
      BY <2>3 DEF First, FirstCursor
    <3>3. SentChain'
      BY <2>3, <3>2 DEF SentChain, Requested
    <3> QED BY <2>1, <2>3, <3>1, <3>3, ShapeChain
  <2> QED BY <2>1, <2>2, <2>3
<1>5. CASE OnAcked
  BY <1>5, OnAckedFacts, ShapeDelivered
<1>6. CASE OnAckError
  <2>1. /\ stage' = "next" /\ chain # <<>> /\ chain' = Tail(chain)
        /\ \/ FailedEffect(calls["delivery"].code)
           \/ IsTaken("delivery") /\ est' = est /\ gen' = gen /\ bound' = bound
    BY <1>6, OnAckErrorFacts DEF view
  <2> QED BY <2>1, ShapeFailing, ShapeDelivered
<1> QED BY <1>1, <1>2, <1>3, <1>4, <1>5, <1>6

\* The third run, which closes the view, moves.
LEMMA ShapeClosing ==
    ASSUME TypeOK, RequestsOK, ShapeInv, Only("close"), est'["close"].pc \in {"idle", "joining", "closing"},
           UNCHANGED <<chain, stage>>, bound' = bound \/ bound' = "nobody", gen' = gen \/ (gen' = gen + 1 /\ bound' = "nobody"),
           \A v \in Activities : v # "close" => CallKept(v)
    PROVE  ShapeInv'
<1>0. /\ \A v \in Pair : est'[v] = est[v] /\ v \in Activities /\ v # "close" /\ v \in Runs
      /\ "delivery" \in Activities /\ "delivery" # "close"
  BY PairRuns DEF Only
<1>g. gen \in Nat /\ gen' \in Nat /\ gen <= gen'
  <2>1. gen \in Nat /\ (gen' = gen \/ gen' = gen + 1)
    BY GenTypes
  <2> QED BY <2>1
<1>1. StagesOK'
  BY <1>0, PairRuns DEF ShapeInv, StagesOK
<1>2. GensOK'
  <2>1. \A i \in 1..Len(chain') : chain'[i].gen <= gen'
    BY <1>g, ChainGens DEF ShapeInv
  <2>2. \A v \in Pair : est[v].pc \in Running => est[v].gen \in Nat /\ est[v].gen <= gen
    BY <1>0, GenTypes DEF ShapeInv, GensOK
  <2>3. \A v \in Pair : est[v].pc \in Running => est[v].gen <= gen'
    BY <1>g, <2>2
  <2> QED BY <1>0, <2>1, <2>3, PairRuns DEF ShapeInv, GensOK
<1>3. BoundOK'
  <2>1. CASE bound' = "nobody"
    BY <2>1 DEF BoundOK
  <2>2. CASE bound' = bound /\ gen' = gen /\ bound # "nobody"
    <3>1. bound \in Pair
      BY <2>2, GenTypes DEF Pair
    <3>2. \A v \in Pair : Current(v)' <=> Current(v)
      BY <1>0, <2>2 DEF Current
    <3> QED BY <1>0, <2>2, <3>1, <3>2 DEF ShapeInv, BoundOK
  <2> QED BY <2>1, <2>2
<1>4. SentOK'
  <2>1. ASSUME NEW v \in Pair PROVE SentRun(v)'
    <3>1. est'[v] = est[v] /\ CallKept(v) /\ SentRun(v)
      BY <1>0 DEF ShapeInv, SentOK
    <3> QED BY <3>1, SentKept
  <2>2. SentChain'
    <3>1. CallKept("delivery") /\ SentChain /\ First' = First
      BY <1>0 DEF ShapeInv, SentOK, First
    <3> QED BY <3>1, SentChainKept
  <2> QED BY <2>1, <2>2 DEF SentOK
<1> QED BY <1>1, <1>2, <1>3, <1>4 DEF ShapeInv

LEMMA ShapeOthers ==
    ASSUME TypeOK, RequestsOK, ShapeInv, Join \/ JoinClosed \/ OnReleased \/ CloseUnsubscribes \/ OnClosed \/ Close
    PROVE  ShapeInv'
<1>0. gen + 1 \in Nat /\ gen < gen + 1 /\ "main" \in Pair /\ "recovery" \in Pair /\ "main" \in Activities /\ "recovery" \in Activities
  BY GenTypes, PairRuns
<1>1. CASE Join
  BY <1>0, <1>1, JoinFacts, ShapeEstablish
<1>2. CASE JoinClosed
  BY <1>0, <1>2, JoinClosedFacts, ShapeThrow DEF view, Within
<1>3. CASE OnReleased
  BY <1>0, <1>3, OnReleasedFacts, ShapeEstablish
<1>4. CASE CloseUnsubscribes
  <2>1. /\ bound' = "nobody" /\ UNCHANGED <<gen, chain, stage>>
        /\ \/ Moves("close", "idle", 0, "resume", None, <<>>, "") /\ calls' = calls
           \/ /\ Moves("close", "closing", 0, "resume", None, <<>>, "")
              /\ Requested("close", "close", "unsubscribe", curSub, 0, None)
    BY <1>4, CloseUnsubscribesFacts
  <2>2. Only("close") /\ est'["close"].pc \in {"idle", "closing"}
    BY <2>1, OnlyMoves
  <2>3. \A v \in Activities : v # "close" => CallKept(v)
    BY <2>1, CallsKept
  <2> QED BY <2>1, <2>2, <2>3, ShapeClosing
<1>5. CASE OnClosed
  <2>1. Only("close") /\ est'["close"].pc = "idle" /\ UNCHANGED <<bound, gen, chain, stage>> /\ IsTaken("close")
    BY <1>5, OnClosedFacts, OnlyMoves DEF view
  <2>3. \A v \in Activities : v # "close" => CallKept(v)
    BY <2>1, CallsKept
  <2> QED BY <2>1, <2>3, ShapeClosing
<1>6. CASE Close
  <2>1. /\ Only("close") /\ est'["close"].pc = "joining" /\ UNCHANGED <<chain, stage>> /\ calls' = calls
        /\ gen' = gen + 1 /\ bound' = "nobody"
    BY <1>6, CloseFacts, OnlyMoves DEF channel
  <2>3. \A v \in Activities : v # "close" => CallKept(v)
    BY <2>1, CallsKept
  <2> QED BY <2>1, <2>3, ShapeClosing
<1> QED BY <1>1, <1>2, <1>3, <1>4, <1>5, <1>6

LEMMA ShapeEvent ==
    ASSUME TypeOK, RequestsOK, ShapeInv, NEW s \in Subs, OnEvent(s)
    PROVE  ShapeInv'
<1>1. EventEffect(s)
  BY OnEventFacts
<1>2. UNCHANGED <<calls, stage, gen, bound>>
  BY <1>1 DEF EventEffect, view
<1>3. \A v \in Activities : CallKept(v)
  BY <1>2, CallsKept
<1>4. \A v \in Runs : /\ est'[v].pc = est[v].pc /\ est'[v].gen = est[v].gen /\ est'[v].how = est[v].how
                      /\ est'[v].cursor = est[v].cursor
                      /\ est[v].pc = "acking" => est'[v].pending = est[v].pending
  <2>1. CASE ~Holds
    BY <1>1, <2>1 DEF EventEffect
  <2>2. CASE Holds
    <3>1. est[bound].pc # "acking"
      BY <2>2 DEF Holds, Loading
    <3> QED BY <1>1, <2>2, <3>1 DEF EventEffect, Moves
  <2> QED BY <2>1, <2>2
<1>5. CASE chain' = chain
  BY <1>2, <1>3, <1>4, <1>5, ShapeSame
<1>6. CASE chain' # chain
  <2>1. /\ Len(chain') = Len(chain) + 1 /\ chain'[Len(chain) + 1].gen = gen /\ est' = est
        /\ \A i \in 1..Len(chain) : chain'[i] = chain[i]
    BY <1>1, <1>6 DEF EventEffect, Takes
  <2>2. StagesOK' /\ BoundOK'
    BY <1>2, <2>1 DEF ShapeInv, StagesOK, BoundOK, Current
  <2>3. GensOK'
    <3>1. \A i \in 1..Len(chain') : chain'[i].gen <= gen'
      <4>1. gen \in Nat /\ Len(chain) \in Nat
        BY GenTypes, ViewFacts
      <4>2. \A i \in 1..Len(chain) : chain'[i].gen <= gen
        BY <2>1 DEF ShapeInv, GensOK
      <4> QED BY <1>2, <2>1, <4>1, <4>2
    <3> QED BY <1>2, <2>1, <3>1 DEF ShapeInv, GensOK
  <2>4. SentOK'
    <3>1. ASSUME NEW v \in Pair PROVE SentRun(v)'
      <4>1. est'[v] = est[v] /\ CallKept(v) /\ SentRun(v)
        BY <1>3, <2>1, PairRuns DEF ShapeInv, SentOK
      <4> QED BY <4>1, SentKept
    <3>2. SentChain'
      <4>1. stage = "acking" => First' = First
        <5> SUFFICES ASSUME stage = "acking" PROVE First' = First
          OBVIOUS
        <5>1. chain # <<>>
          BY DEF TypeOK, ViewTypeOK
        <5>2. First = chain[1].frame /\ Len(chain) >= 1 /\ Len(chain) \in Nat
          BY <5>1, ChainFacts
        <5>3. First' = chain'[1].frame
          <6>1. TypeOK'
            BY OnEventFacts
          <6>2. chain' # <<>>
            BY <2>1, <5>2
          <6> QED BY <2>1, <5>2, <6>2 DEF First
        <5>4. 1 \in 1..Len(chain)
          BY <5>2
        <5> QED BY <2>1, <5>2, <5>3, <5>4
      <4>2. CallKept("delivery") /\ SentChain
        BY <1>3, PairRuns DEF ShapeInv, SentOK
      <4> QED BY <1>2, <4>1, <4>2, SentChainKept
    <3> QED BY <3>1, <3>2 DEF SentOK
  <2> QED BY <2>2, <2>3, <2>4 DEF ShapeInv
<1> QED BY <1>5, <1>6

LEMMA ShapeConnections ==
    ASSUME TypeOK, RequestsOK, ShapeInv, Drop \/ DaemonRestarts \/ Reconnect \/ Rebind
    PROVE  ShapeInv'
<1>1. CASE Drop \/ DaemonRestarts
  <2>1. IsFailed("nobody") /\ UNCHANGED <<est, stage, gen, bound, chain>>
    BY <1>1, DropFacts, DaemonRestartsFacts DEF view
  <2>2. \A v \in Activities : CallKept(v)
    BY <2>1, CallsKept, PairRuns
  <2> QED BY <2>1, <2>2, ShapeSame
<1>2. CASE Reconnect \/ Rebind
  <2>1. /\ est["main"].pc = "idle" /\ UNCHANGED <<calls, stage, gen, bound, chain>>
        /\ est' = est \/ Moves("main", "joining", 0, "resume", None, <<>>, "")
    BY <1>2, ConnectFacts DEF ConnectEffect, view
  <2>2. \A v \in Activities : CallKept(v)
    BY <2>1, CallsKept
  <2>3. CASE est' = est
    BY <2>1, <2>2, <2>3, ShapeSame
  <2>4. CASE Moves("main", "joining", 0, "resume", None, <<>>, "")
    <3>1. Only("main") /\ est'["main"].pc = "joining"
      BY <2>4, OnlyMoves
    <3>2. \A v \in Pair : est'[v].pc \in Running => est'[v] = est[v]
      BY <3>1, PairRuns DEF Only, Running, Loading, Draining, Pair
    <3>3. StagesOK'
      BY <3>1, PairRuns DEF ShapeInv, StagesOK, Only
    <3>4. GensOK'
      BY <2>1, <3>2, PairRuns DEF ShapeInv, GensOK
    <3>5. BoundOK'
      <4>1. bound # "nobody" => bound \in Pair
        BY GenTypes DEF Pair
      <4>2. \A v \in Pair : Current(v)' => Current(v)
        BY <2>1, <3>2 DEF Current
      <4>3. bound # "nobody" => est'[bound].pc \notin {"cleaning", "unsubscribing"}
        BY <3>1, <4>1, PairRuns DEF Only, ShapeInv, BoundOK, Pair
      <4>4. bound # "nobody" /\ est'[bound].pc \in Running => est'[bound].gen = gen
        BY <3>2, <4>1 DEF ShapeInv, BoundOK
      <4> QED BY <2>1, <4>1, <4>2, <4>3, <4>4 DEF ShapeInv, BoundOK
    <3>6. SentOK'
      <4>1. SentRun("main")'
        BY <3>1 DEF SentRun
      <4>2. SentRun("recovery")'
        <5>1. est'["recovery"] = est["recovery"] /\ CallKept("recovery") /\ SentRun("recovery") /\ "recovery" \in Pair
          BY <2>2, <3>1, PairRuns DEF Only, ShapeInv, SentOK
        <5> QED BY <5>1, SentKept
      <4>3. SentChain'
        <5>1. CallKept("delivery") /\ SentChain /\ First' = First
          BY <2>1, <2>2, PairRuns DEF ShapeInv, SentOK, First
        <5> QED BY <2>1, <5>1, SentChainKept
      <4> QED BY <4>1, <4>2, <4>3 DEF SentOK, Pair
    <3> QED BY <3>3, <3>4, <3>5, <3>6 DEF ShapeInv
  <2> QED BY <2>1, <2>3, <2>4
<1> QED BY <1>1, <1>2

\* The daemon answers t.
LEMMA ShapeAnswered ==
    ASSUME TypeOK, RequestsOK, ShapeInv, NEW t \in Activities, NEW kind, NEW s, NEW start, NEW count, NEW code,
           Responded(t, kind, s, start, count, code), UNCHANGED <<est, gen, bound, chain, stage>>, calls[t].state = "sent",
           calls[t].kind # "subscribe" => s = calls[t].sub, kind \notin {"snapshot", "resumed"} \/ calls[t].kind = "subscribe",
           kind = "snapshot" => calls[t].cursor = None, kind = "resumed" => calls[t].cursor # None
    PROVE  ShapeInv'
<1>1. StagesOK' /\ GensOK' /\ BoundOK'
  BY DEF ShapeInv, StagesOK, GensOK, BoundOK, Current
<1>2. \A v \in Activities : v # t => CallKept(v)
  BY DEF CallKept, Responded
<1>3. calls'[t].cursor = calls[t].cursor /\ calls'[t].kind = kind /\ calls'[t].sub = s
  BY DEF Responded
<1>4. Awaited(Where(t), calls[t])
  BY DEF RequestsOK, AwaitedOK
<1>5. ASSUME NEW v \in Pair PROVE SentRun(v)'
  <2>0. SentRun(v) /\ v \in Activities
    BY PairRuns DEF ShapeInv, SentOK
  <2>1. CASE v # t
    BY <1>2, <2>0, <2>1, SentKept
  <2>2. CASE v = t
    <3>1. Where(v) = est[v].pc
      BY PairRuns DEF Where
    <3>2. est[v].pc = "acking" => calls[t].kind # "subscribe"
      BY <1>4, <2>2, <3>1 DEF Awaited, Asks
    <3>3. est'[v] = est[v] /\ Held(v)' = Held(v) /\ HeldCursor(v)' = HeldCursor(v)
      BY DEF Held, HeldCursor
    <3> QED BY <1>3, <2>0, <2>2, <3>2, <3>3 DEF SentRun
  <2> QED BY <2>1, <2>2
<1>6. SentChain'
  <2>0. First' = First /\ FirstCursor' = FirstCursor /\ SentChain /\ "delivery" \in Activities
    BY PairRuns DEF First, FirstCursor, ShapeInv, SentOK
  <2>1. CASE t # "delivery"
    BY <1>2, <2>0, <2>1, SentChainKept
  <2>2. CASE t = "delivery"
    <3>1. stage = "acking" => calls[t].kind # "subscribe"
      BY <1>4, <2>2 DEF Awaited, Asks, Where
    <3> QED BY <1>3, <2>0, <2>2, <3>1 DEF SentChain
  <2> QED BY <2>1, <2>2
<1> QED BY <1>1, <1>5, <1>6 DEF ShapeInv, SentOK

LEMMA ShapeDaemon ==
    ASSUME TypeOK, RequestsOK, ShapeInv, DaemonStep
    PROVE  ShapeInv'
<1>0. UNCHANGED <<est, gen, bound, chain, stage>>
  BY DEF DaemonStep, view
<1>1. CASE calls' = calls
  <2>1. \A v \in Activities : CallKept(v)
    BY <1>1, CallsKept
  <2> QED BY <1>0, <2>1, ShapeSame
<1>2. ASSUME NEW t \in Activities,
             \/ SubscribeSnapshot(t) \/ SubscribeResumed(t) \/ SubscribeRefused(t)
             \/ SnapshotPage(t) \/ Acknowledge(t) \/ AcknowledgeRefused(t) \/ Unsubscribe(t)
      PROVE  ShapeInv'
  <2>1. CASE SubscribeSnapshot(t)
    <3>1. calls[t].state = "sent" /\ calls[t].kind = "subscribe" /\ calls[t].cursor = None
      BY <2>1 DEF SubscribeSnapshot, Executes
    <3>2. Responded(t, "snapshot", Len(subs) + 1, 0, log, "")
      <4>1. calls' \in [Activities -> Call]
        <5>1. ChannelTypeOK'
          BY <2>1, SubscribeSnapshotFacts
        <5> QED BY <5>1 DEF ChannelTypeOK
      <4>2. /\ calls'[t].state = "done" /\ calls'[t].kind = "snapshot" /\ calls'[t].sub = Len(subs) + 1
            /\ calls'[t].start = 0 /\ calls'[t].count = log /\ calls'[t].code = ""
        <5>1. calls[t] \in Call /\ calls \in [Activities -> Call]
          BY DEF TypeOK, ChannelTypeOK
        <5>2. Respond(t, "snapshot", Len(subs) + 1, 0, log, "")
          BY <2>1 DEF SubscribeSnapshot
        <5> QED BY <5>1, <5>2 DEF Respond, Call
      <4>3. /\ calls'[t].cursor = calls[t].cursor /\ calls'[t].ahead = calls[t].ahead
            /\ \A v \in Activities : v # t => calls'[v] = calls[v]
            /\ UNCHANGED <<log, instance, conn, up, faults>>
        BY <2>1, SubscribeSnapshotFacts
      <4> QED BY <4>1, <4>2, <4>3 DEF Responded
    <3> QED BY <1>0, <3>1, <3>2, ShapeAnswered
  <2>2. CASE SubscribeResumed(t)
    <3>1. calls[t].state = "sent" /\ calls[t].kind = "subscribe" /\ calls[t].cursor # None
      BY <2>2 DEF SubscribeResumed, Executes
    <3>2. Responded(t, "resumed", Len(subs) + 1, 0, 0, "")
      BY <2>2, SubscribeResumedFacts DEF ResumedEffect
    <3> QED BY <1>0, <3>1, <3>2, ShapeAnswered
  <2>3. CASE SubscribeRefused(t)
    <3>1. calls[t].state = "sent" /\ Responded(t, "error", calls[t].sub, 0, 0, "snapshot_required")
      BY <2>3, SubscribeRefusedFacts DEF SubscribeRefused, Executes
    <3> QED BY <1>0, <3>1, ShapeAnswered
  <2>4. CASE SnapshotPage(t)
    <3>1. calls[t].state = "sent"
      BY <2>4 DEF SnapshotPage, Executes
    <3>2. \/ Responded(t, "error", calls[t].sub, 0, 0, "snapshot_required")
          \/ \E n : Responded(t, "page", calls[t].sub, calls[t].start, n, "")
      BY <2>4, SnapshotPageFacts
    <3> QED BY <1>0, <3>1, <3>2, ShapeAnswered
  <2>5. CASE Acknowledge(t)
    <3>1. calls[t].state = "sent" /\ Responded(t, "acked", calls[t].sub, 0, 0, "")
      BY Zenon, <2>5, AcknowledgeFacts DEF Acknowledge, Executes, AcknowledgeEffect
    <3> QED BY ZenonT(60), <1>0, <3>1, ShapeAnswered
  <2>6. CASE AcknowledgeRefused(t)
    <3>1. calls[t].state = "sent" /\ \E code : Responded(t, "error", calls[t].sub, 0, 0, code)
      BY <2>6, AcknowledgeRefusedFacts DEF AcknowledgeRefused, Executes
    <3> QED BY <1>0, <3>1, ShapeAnswered
  <2>7. CASE Unsubscribe(t)
    <3>1. /\ calls[t].state = "sent"
          /\ \/ Responded(t, "unsubscribed", calls[t].sub, 0, 0, "")
             \/ Responded(t, "error", calls[t].sub, 0, 0, "unknown_subscription")
      BY <2>7, UnsubscribeFacts DEF Unsubscribe, Executes
    <3> QED BY <1>0, <3>1, ShapeAnswered
  <2> QED BY <1>2, <2>1, <2>2, <2>3, <2>4, <2>5, <2>6, <2>7
<1>3. DaemonNext
  BY DEF DaemonStep
<1>4. EventStored \/ CursorExpires \/ OtherCursor \/ (\E c \in 1..conn : ConnectionClosed(c)) \/ (\E s \in Subs : SnapshotExpires(s))
        => calls' = calls
  BY DEF EventStored, ConnectionClosed, CursorExpires, OtherCursor, SnapshotExpires, channel
<1> QED BY <1>1, <1>2, <1>3, <1>4 DEF DaemonNext

LEMMA NextShape == TypeOK /\ FramesOK /\ RequestsOK /\ ShapeInv /\ [Next]_vars => ShapeInv'
<1> SUFFICES ASSUME TypeOK, FramesOK, RequestsOK, ShapeInv, [Next]_vars PROVE ShapeInv'
  OBVIOUS
<1>1. CASE UNCHANGED vars
  <2>1. \A v \in Activities : CallKept(v)
    BY <1>1, CallsKept DEF vars, channel
  <2> QED BY <1>1, <2>1, ShapeSame DEF vars, view
<1>2. CASE ViewNext
  <2>1. ASSUME NEW t \in {"main", "recovery"}, EstablishNext(t) PROVE ShapeInv'
    BY <2>1, ShapeRuns DEF Pair
  <2> QED BY <1>2, <2>1, ShapeDeliveries, ShapeOthers, ShapeEvent DEF ViewNext
<1>3. CASE Drop \/ DaemonRestarts \/ Reconnect \/ Rebind \/ Close
  BY <1>3, ShapeConnections, ShapeOthers
<1>4. CASE DaemonStep
  BY <1>4, ShapeDaemon
<1> QED BY <1>1, <1>2, <1>3, <1>4 DEF Next

LEMMA InitShape == Init => ShapeInv
<1> SUFFICES ASSUME Init PROVE ShapeInv
  OBVIOUS
<1>1. /\ est = [t \in Runs |-> Idle] /\ chain = <<>> /\ stage = "next" /\ bound = "main"
  BY DEF Init
<1>2. \A t \in Runs : est[t].pc = "idle"
  BY <1>1 DEF Idle, At
<1>3. est["main"].pc = "idle" /\ est["recovery"].pc = "idle" /\ est["close"].pc = "idle"
  BY <1>2, PairRuns
<1>4. \A t \in Pair : est[t].pc \notin Running /\ SentRun(t)
  BY <1>2, PairRuns DEF SentRun, Running, Loading, Draining
<1>5. GensOK
  BY <1>1, <1>4, PairRuns DEF GensOK
<1>6. BoundOK
  BY <1>1, <1>3, <1>4, PairRuns DEF BoundOK, Current
<1> QED BY <1>1, <1>3, <1>4, <1>5, <1>6 DEF ShapeInv, StagesOK, SentOK, SentChain

(***************************************************************************)
(* Turns: in which order superseded and current work await the daemon.     *)
(***************************************************************************)
Other(t) == IF t = "main" THEN "recovery" ELSE "main"
Waiting == {"subscribing", "bounding", "acking"}

\* A delivery of the present generation waits: nobody is loading, no recovery is on its way.
LoadsAlone == \A i \in 1..Len(chain) : Now(i) =>
        /\ \A t \in Pair : Current(t) => est[t].pc \notin Loading
        /\ est["recovery"].pc # "unsubscribing"
\* A superseded run that waits is ahead of the subscribe request of the current one, or of the
\* request with which a recovery begins.
SupersededAhead(t) == est[t].pc \in Waiting /\ est[t].gen # gen =>
          /\ t \in calls[Other(t)].ahead
          /\ \/ est[Other(t)].pc = "subscribing" /\ est[Other(t)].gen = gen
             \/ Other(t) = "recovery" /\ est[Other(t)].pc = "unsubscribing" /\ est[t].pc = "acking"
\* So is a superseded delivery that waits for its acknowledgement.
DeliveryAhead == stage = "acking" /\ chain[1].gen # gen =>
        \E u \in Pair : est[u].pc = "subscribing" /\ est[u].gen = gen /\ "delivery" \in calls[u].ahead
\* While a recovery releases the old subscription, a listener or a run of the present generation
\* can only be a reconnect's that subscribed after it, and without a cursor.
ReleaseFirst == est["recovery"].pc = "unsubscribing" =>
        /\ bound # "nobody" => Current("main")
        /\ Current("main") => est["main"].pc = "subscribing" /\ est["main"].cursor = None /\ "recovery" \in calls["main"].ahead
\* A superseded subscribe request resumes nothing.
SupersededLoads(t) == est[t].pc = "subscribing" /\ est[t].gen # gen => est[t].cursor = None
\* A reconnect that resumes does so alone.
ResumesAlone == est["main"].pc \in Loading /\ est["main"].how = "resume" =>
        est["recovery"].pc = "idle" /\ est["main"].gen = gen /\ chain = <<>>
QueueOK == LoadsAlone /\ (\A t \in Pair : SupersededAhead(t) /\ SupersededLoads(t)) /\ DeliveryAhead /\ ReleaseFirst /\ ResumesAlone

\* What a step by t leaves of the request of v.
Waits(v, t) == calls[v].state # "none" =>
    /\ calls'[v].state # "none" /\ calls[v].ahead \ {t} \subseteq calls'[v].ahead
    /\ calls'[v].sub = calls[v].sub /\ (calls[v].code # "event_sequence_gap" => calls'[v].code # "event_sequence_gap")
    /\ \/ calls'[v].state = calls[v].state /\ calls'[v].kind = calls[v].kind
       \/ calls'[v].state = "done" /\ calls'[v].kind = "error"

LEMMA AllWait ==
    /\ calls' = calls => \A v \in Activities : \A t : Waits(v, t)
    /\ \A t : IsTaken(t) => \A v \in Activities : v # t => Waits(v, t)
    /\ \A t : IsFailed(t) => \A v \in Activities : v # t => Waits(v, t)
    /\ \A u, t, kind, s, start, c : Requested(u, t, kind, s, start, c) => \A v \in Activities : v # t /\ v # u => Waits(v, u)
<1>1. calls' = calls => \A v \in Activities : \A t : Waits(v, t)
  BY DEF Waits
<1>2. ASSUME NEW t, IsTaken(t), NEW v \in Activities, v # t PROVE Waits(v, t)
  BY <1>2 DEF Waits, IsTaken, Same
<1>3. ASSUME NEW t, IsFailed(t), NEW v \in Activities, v # t PROVE Waits(v, t)
  BY <1>3 DEF Waits, IsFailed
<1>4. ASSUME NEW u, NEW t, NEW kind, NEW s, NEW start, NEW c, Requested(u, t, kind, s, start, c),
             NEW v \in Activities, v # t, v # u
      PROVE  Waits(v, u)
  BY <1>4 DEF Waits, Requested, Same
<1> QED BY <1>1, <1>2, <1>3, <1>4

LEMMA Others ==
    /\ Other("main") = "recovery" /\ Other("recovery") = "main"
    /\ \A t \in Pair : Other(t) \in Pair /\ Other(t) # t /\ Other(Other(t)) = t /\ \A v \in Pair : v = t \/ v = Other(t)
BY DEF Other, Pair

\* Whoever awaits a response has a request.
LEMMA HasCall ==
    ASSUME TypeOK, RequestsOK
    PROVE  /\ \A t \in Pair : est[t].pc \in {"subscribing", "paging", "bounding", "acking", "unsubscribing", "cleaning"}
                                => calls[t].state # "none"
           /\ stage = "acking" <=> calls["delivery"].state # "none"
           /\ \A t \in Pair : est[t].pc \in {"idle", "joining", "draining", "reduced"} => calls[t].state = "none"
<1>1. ASSUME NEW t \in Pair
      PROVE  /\ est[t].pc \in {"subscribing", "paging", "bounding", "acking", "unsubscribing", "cleaning"} => calls[t].state # "none"
             /\ est[t].pc \in {"idle", "joining", "draining", "reduced"} => calls[t].state = "none"
  BY PairRuns DEF RequestsOK, AwaitedOK, Awaited, Where, Resting
<1>2. stage = "acking" <=> calls["delivery"].state # "none"
  <2>1. Awaited(stage, calls["delivery"]) /\ stage \in {"next", "reduced", "acking"}
    BY PairRuns, ViewFacts DEF RequestsOK, AwaitedOK, Where
  <2> QED BY <2>1 DEF Awaited, Resting
<1> QED BY <1>1, <1>2

\* Run t moves on within its generation; if it was subscribing, its request was the first.
LEMMA QueueWithin ==
    ASSUME TypeOK, RequestsOK, ShapeInv, QueueOK, NEW t \in Pair, Only(t), Within, bound' \in {"nobody", bound},
           \A v \in Activities : v # t => Waits(v, t),
           est[t].pc = "subscribing" => calls[t].ahead = {}, est[t].pc \notin {"unsubscribing", "idle"},
           est'[t].pc # "unsubscribing",
           est'[t].pc \in Running => est[t].pc \in Running /\ est'[t].gen = est[t].gen /\ est'[t].how = est[t].how,
           est'[t].pc \in Loading => est[t].pc \in Loading,
           est'[t].pc \in Waiting => est'[t].gen = gen
    PROVE  QueueOK'
<1> DEFINE u == Other(t)
<1>0. u \in Pair /\ u # t /\ Other(u) = t /\ (\A v \in Pair : v = t \/ v = u) /\ u \in Runs /\ u \in Activities
      /\ est'[u] = est[u] /\ gen' = gen /\ chain' = chain /\ stage' = stage
  BY Others, PairRuns DEF Only, Within
<1> HIDE DEF u
<1>1. LoadsAlone /\ SupersededAhead(u) /\ SupersededLoads(u) /\ DeliveryAhead /\ ReleaseFirst /\ ResumesAlone
  BY <1>0 DEF QueueOK
<1>2. \A v \in Pair : Current(v)' => Current(v)
  BY <1>0 DEF Current
<1>3. ~(est[u].pc \in Waiting /\ est[u].gen # gen)
  <2> SUFFICES ASSUME est[u].pc \in Waiting, est[u].gen # gen PROVE FALSE
    OBVIOUS
  <2>1. u \in calls[t].ahead /\ est[t].pc \in {"subscribing", "unsubscribing"}
    BY <1>0, <1>1 DEF SupersededAhead
  <2> QED BY <2>1
<1>a. LoadsAlone'
  <2> SUFFICES ASSUME NEW i \in 1..Len(chain), Now(i)
               PROVE  /\ \A v \in Pair : Current(v)' => est'[v].pc \notin Loading
                      /\ est'["recovery"].pc # "unsubscribing"
    BY <1>0 DEF LoadsAlone, Now
  <2>1. (\A v \in Pair : Current(v) => est[v].pc \notin Loading) /\ est["recovery"].pc # "unsubscribing"
    BY <1>1 DEF LoadsAlone
  <2>2. est'["recovery"].pc # "unsubscribing"
    BY <1>0, <2>1, PairRuns
  <2> QED BY <1>0, <1>2, <2>1, <2>2
<1>b. \A v \in Pair : SupersededAhead(v)'
  <2>1. SupersededAhead(t)'
    BY <1>0 DEF SupersededAhead
  <2>2. SupersededAhead(u)'
    BY <1>0, <1>3 DEF SupersededAhead
  <2> QED BY <1>0, <2>1, <2>2
<1>c. \A v \in Pair : SupersededLoads(v)'
  <2>1. SupersededLoads(t)'
    BY <1>0 DEF SupersededLoads, Waiting
  <2>2. SupersededLoads(u)'
    BY <1>0, <1>1 DEF SupersededLoads
  <2> QED BY <1>0, <2>1, <2>2
<1>d. DeliveryAhead'
  <2> SUFFICES ASSUME stage = "acking", chain[1].gen # gen
               PROVE  \E v \in Pair : est'[v].pc = "subscribing" /\ est'[v].gen = gen /\ "delivery" \in calls'[v].ahead
    BY <1>0 DEF DeliveryAhead
  <2>1. PICK v \in Pair : est[v].pc = "subscribing" /\ est[v].gen = gen /\ "delivery" \in calls[v].ahead
    BY <1>1 DEF DeliveryAhead
  <2>2. v = u
    BY <1>0, <2>1
  <2>3. calls[u].state # "none"
    BY <2>1, <2>2, HasCall
  <2>4. "delivery" \in calls'[u].ahead
    BY <1>0, <2>1, <2>2, <2>3, PairRuns DEF Waits
  <2> QED BY <1>0, <2>1, <2>2, <2>4
<1>e. ReleaseFirst'
  <2> SUFFICES ASSUME est'["recovery"].pc = "unsubscribing" PROVE bound' = "nobody" /\ ~Current("main")'
    BY DEF ReleaseFirst
  <2>1. t = "main" /\ u = "recovery" /\ est["recovery"].pc = "unsubscribing"
    BY <1>0, PairRuns
  <2>2. ~Current("main")
    BY <1>1, <2>1 DEF ReleaseFirst
  <2> QED BY <1>1, <1>2, <2>1, <2>2, PairRuns DEF ReleaseFirst
<1>f. ResumesAlone'
  <2> SUFFICES ASSUME est'["main"].pc \in Loading, est'["main"].how = "resume"
               PROVE  est'["recovery"].pc = "idle" /\ est'["main"].gen = gen /\ chain = <<>>
    BY <1>0 DEF ResumesAlone
  <2>1. CASE t = "main"
    <3>1. u = "recovery" /\ est'["main"].gen = est["main"].gen /\ est["main"].pc \in Loading /\ est["main"].how = "resume"
      BY <1>0, <2>1, PairRuns DEF Running
    <3> QED BY <1>0, <1>1, <3>1 DEF ResumesAlone
  <2>2. CASE t = "recovery"
    <3>1. est'["main"] = est["main"]
      BY <1>0, <2>2, PairRuns
    <3> QED BY <1>1, <2>2, <3>1 DEF ResumesAlone
  <2> QED BY <2>1, <2>2 DEF Pair
<1> QED BY <1>a, <1>b, <1>c, <1>d, <1>e, <1>f DEF QueueOK

\* A run of establish() begins and supersedes what is under way.
LEMMA QueueEstablish ==
    ASSUME TypeOK, RequestsOK, ShapeInv, QueueOK, NEW u \in Activities, NEW t \in Pair, NEW g, NEW how, NEW p, NEW a,
           EstablishEffect(u, t, g, how, p, a), g \in Nat, gen < g, u = t \/ u = "delivery",
           u = t => chain' = chain /\ stage' = stage,
           u # t => chain # <<>> /\ chain' = Tail(chain) /\ stage' = "next",
           est[Other(t)].pc = "subscribing" => est[Other(t)].cursor = None,
           t = "main" => (how = "snapshot" /\ Offer(how, p, a) = None) \/ (est["recovery"].pc = "idle" /\ chain = <<>>),
           t = "recovery" => ~(est["main"].pc \in Loading /\ est["main"].how = "resume")
    PROVE  QueueOK'
<1> DEFINE w == Other(t)
<1>1. /\ gen' = g /\ bound' = t /\ Only(t) /\ est'[t].pc = "subscribing" /\ est'[t].gen = g /\ est'[t].how = how
      /\ est'[t].cursor = Offer(how, p, a) /\ Requested(u, t, "subscribe", 0, 0, Offer(how, p, a))
  BY DEF EstablishEffect, Moves, Only
<1>2. w \in Pair /\ w # t /\ Other(w) = t /\ (\A v \in Pair : v = t \/ v = w) /\ est'[w] = est[w] /\ w # u /\ w \in Activities
  BY <1>1, Others, PairRuns DEF Only
<1> HIDE DEF w
<1>3. gen' \in Nat /\ gen \in Nat /\ gen <= gen' /\ gen < gen'
  <2>1. gen \in Nat
    BY GenTypes
  <2> QED BY <1>1, <2>1
<1>4. \A i \in 1..Len(chain') : chain'[i].gen # gen'
  BY <1>3, ChainGens DEF ShapeInv
<1>5. calls'[t].ahead = {v \in Activities \ {u} : calls[v].state # "none"}
  BY <1>1 DEF Requested
<1>6. calls[w].state # "none" => w \in calls'[t].ahead
  BY <1>2, <1>5
<1>a. LoadsAlone'
  BY <1>4 DEF LoadsAlone, Now
<1>b. \A v \in Pair : SupersededAhead(v)'
  <2>1. SupersededAhead(t)'
    BY <1>1 DEF SupersededAhead
  <2>2. SupersededAhead(w)'
    <3> SUFFICES ASSUME est[w].pc \in Waiting
                 PROVE  w \in calls'[t].ahead /\ est'[t].pc = "subscribing" /\ est'[t].gen = gen'
      BY <1>2 DEF SupersededAhead
    <3>1. calls[w].state # "none"
      BY <1>2, HasCall DEF Waiting
    <3> QED BY <1>1, <1>6, <3>1
  <2> QED BY <1>2, <2>1, <2>2
<1>c. \A v \in Pair : SupersededLoads(v)'
  <2>1. SupersededLoads(t)'
    BY <1>1 DEF SupersededLoads
  <2>2. SupersededLoads(w)'
    BY <1>2 DEF SupersededLoads, w
  <2> QED BY <1>2, <2>1, <2>2
<1>d. DeliveryAhead'
  <2> SUFFICES ASSUME stage' = "acking"
               PROVE  est'[t].pc = "subscribing" /\ est'[t].gen = gen' /\ "delivery" \in calls'[t].ahead
    BY DEF DeliveryAhead
  <2>1. u = t /\ stage = "acking"
    OBVIOUS
  <2>2. calls["delivery"].state # "none" /\ "delivery" \in Activities \ {u}
    BY <2>1, HasCall, PairRuns
  <2> QED BY <1>1, <1>5, <2>2
<1>e. ReleaseFirst'
  <2> SUFFICES ASSUME est'["recovery"].pc = "unsubscribing"
               PROVE  /\ Current("main")' /\ est'["main"].pc = "subscribing"
                      /\ est'["main"].cursor = None /\ "recovery" \in calls'["main"].ahead
    BY DEF ReleaseFirst
  <2>1. t = "main" /\ w = "recovery"
    BY <1>1, <1>2, PairRuns
  <2>2. est["recovery"].pc = "unsubscribing"
    BY <1>2, <2>1
  <2>3. calls["recovery"].state # "none" /\ Offer(how, p, a) = None
    BY <2>1, <2>2, HasCall, PairRuns
  <2>4. "subscribing" \in Running
    BY DEF Running, Loading
  <2> QED BY <1>1, <1>6, <2>1, <2>3, <2>4 DEF Current
<1>f. ResumesAlone'
  <2>1. CASE t = "main"
    <3>1. w = "recovery"
      BY <1>2, <2>1, PairRuns
    <3>2. CASE how = "snapshot"
      BY <1>1, <2>1, <3>2 DEF ResumesAlone
    <3>3. CASE est["recovery"].pc = "idle" /\ chain = <<>>
      BY <1>1, <1>2, <2>1, <3>1, <3>3 DEF ResumesAlone
    <3> QED BY <2>1, <3>2, <3>3
  <2>2. CASE t = "recovery"
    <3>1. est'["main"] = est["main"]
      BY <1>2, <2>2, PairRuns
    <3> QED BY <2>2, <3>1 DEF ResumesAlone
  <2> QED BY <2>1, <2>2 DEF Pair
<1> QED BY <1>a, <1>b, <1>c, <1>d, <1>e, <1>f DEF QueueOK

\* The listener of the view chains the events it is sent.
Open == bound # "nobody" /\ est[bound].pc \notin Loading

\* The runs stay where they are; the chain may lose its first delivery, or gain one of an open view.
LEMMA QueueSame ==
    ASSUME TypeOK, RequestsOK, ShapeInv, QueueOK, gen' = gen, bound' \in {"nobody", bound},
           \A v \in Runs : /\ est'[v].pc = est[v].pc /\ est'[v].gen = est[v].gen /\ est'[v].how = est[v].how
                           /\ est'[v].cursor = est[v].cursor,
           \A v \in Pair : Waits(v, "delivery"),
           \A i \in 1..Len(chain') : chain'[i].gen = gen => Open \/ \E j \in 1..Len(chain) : Now(j),
           chain = <<>> => chain' = <<>> \/ Open,
           stage' = "acking" => \/ chain'[1].gen = gen
                                \/ stage = "acking" /\ chain'[1].gen = chain[1].gen /\ \A v \in Pair : Waits(v, "nobody")
    PROVE  QueueOK'
<1>0. \A v \in Pair : /\ est'[v].pc = est[v].pc /\ est'[v].gen = est[v].gen /\ est'[v].how = est[v].how
                      /\ est'[v].cursor = est[v].cursor /\ (Current(v)' <=> Current(v))
  BY PairRuns DEF Current
<1>1. LoadsAlone /\ (\A v \in Pair : SupersededAhead(v) /\ SupersededLoads(v)) /\ DeliveryAhead /\ ReleaseFirst /\ ResumesAlone
  BY DEF QueueOK
<1>2. Open => /\ \A v \in Pair : Current(v) => est[v].pc \notin Loading
              /\ est["recovery"].pc # "unsubscribing"
  <2> SUFFICES ASSUME Open PROVE /\ \A v \in Pair : Current(v) => est[v].pc \notin Loading
                                 /\ est["recovery"].pc # "unsubscribing"
    OBVIOUS
  <2>1. \A v \in Pair : Current(v) => v = bound
    BY DEF Open, ShapeInv, BoundOK
  <2>2. \A v \in Pair : Current(v) => est[v].pc \notin Loading
    BY <2>1 DEF Open
  <2>3. est["recovery"].pc = "unsubscribing" => Current("main") /\ est["main"].pc = "subscribing"
    BY <1>1 DEF ReleaseFirst, Open
  <2> QED BY <2>2, <2>3, PairRuns DEF Loading
<1>a. LoadsAlone'
  <2> SUFFICES ASSUME NEW i \in 1..Len(chain'), chain'[i].gen = gen
               PROVE  /\ \A v \in Pair : Current(v)' => est'[v].pc \notin Loading
                      /\ est'["recovery"].pc # "unsubscribing"
    BY DEF LoadsAlone, Now
  <2>1. (\A v \in Pair : Current(v) => est[v].pc \notin Loading) /\ est["recovery"].pc # "unsubscribing"
    <3>1. CASE Open
      BY <1>2, <3>1
    <3>2. CASE \E j \in 1..Len(chain) : Now(j)
      BY <1>1, <3>2 DEF LoadsAlone
    <3> QED BY <3>1, <3>2
  <2> QED BY <1>0, <2>1, PairRuns
<1>b. \A v \in Pair : SupersededAhead(v)' /\ SupersededLoads(v)'
  <2> SUFFICES ASSUME NEW v \in Pair PROVE SupersededAhead(v)' /\ SupersededLoads(v)'
    OBVIOUS
  <2>1. SupersededLoads(v)'
    BY <1>0, <1>1 DEF SupersededLoads
  <2>2. ASSUME est[v].pc \in Waiting, est[v].gen # gen
        PROVE  /\ v \in calls'[Other(v)].ahead
               /\ \/ est'[Other(v)].pc = "subscribing" /\ est'[Other(v)].gen = gen
                  \/ Other(v) = "recovery" /\ est'[Other(v)].pc = "unsubscribing" /\ est'[v].pc = "acking"
    <3> DEFINE u == Other(v)
    <3>1. u \in Pair
      BY Others
    <3>2. /\ v \in calls[u].ahead
          /\ \/ est[u].pc = "subscribing" /\ est[u].gen = gen
             \/ u = "recovery" /\ est[u].pc = "unsubscribing" /\ est[v].pc = "acking"
      BY <1>1, <2>2 DEF SupersededAhead
    <3>3. calls[u].state # "none"
      BY <3>1, <3>2, HasCall
    <3>4. v \in calls'[u].ahead
      BY <3>1, <3>2, <3>3, PairRuns DEF Waits
    <3> QED BY <1>0, <3>1, <3>2, <3>4
  <2>3. SupersededAhead(v)'
    BY <1>0, <2>2 DEF SupersededAhead
  <2> QED BY <2>1, <2>3
<1>d. DeliveryAhead'
  <2> SUFFICES ASSUME stage' = "acking", chain'[1].gen # gen
               PROVE  \E v \in Pair : est'[v].pc = "subscribing" /\ est'[v].gen = gen /\ "delivery" \in calls'[v].ahead
    BY DEF DeliveryAhead
  <2>0. stage = "acking" /\ chain[1].gen # gen /\ \A v \in Pair : Waits(v, "nobody")
    OBVIOUS
  <2>1. PICK v \in Pair : est[v].pc = "subscribing" /\ est[v].gen = gen /\ "delivery" \in calls[v].ahead
    BY <1>1, <2>0 DEF DeliveryAhead
  <2>2. calls[v].state # "none" /\ Waits(v, "nobody")
    BY <2>0, <2>1, HasCall
  <2>3. "delivery" \in calls'[v].ahead
    BY <2>1, <2>2 DEF Waits
  <2> QED BY <1>0, <2>1, <2>3
<1>e. ReleaseFirst'
  <2> SUFFICES ASSUME est["recovery"].pc = "unsubscribing"
               PROVE  /\ bound # "nobody" => Current("main")
                      /\ Current("main") => /\ est["main"].pc = "subscribing" /\ est["main"].cursor = None
                                            /\ "recovery" \in calls'["main"].ahead
    BY <1>0, PairRuns DEF ReleaseFirst
  <2>1. /\ bound # "nobody" => Current("main")
        /\ Current("main") => est["main"].pc = "subscribing" /\ est["main"].cursor = None /\ "recovery" \in calls["main"].ahead
    BY <1>1 DEF ReleaseFirst
  <2>2. est["main"].pc = "subscribing" => calls["main"].state # "none"
    BY HasCall, PairRuns
  <2>3. Waits("main", "delivery")
    BY PairRuns
  <2> QED BY <2>1, <2>2, <2>3, PairRuns DEF Waits
<1>f. ResumesAlone'
  <2> SUFFICES ASSUME est["main"].pc \in Loading, est["main"].how = "resume"
               PROVE  est["recovery"].pc = "idle" /\ est["main"].gen = gen /\ chain' = <<>>
    BY <1>0, PairRuns DEF ResumesAlone
  <2>1. est["recovery"].pc = "idle" /\ est["main"].gen = gen /\ chain = <<>>
    BY <1>1 DEF ResumesAlone
  <2>2. Current("main")
    BY <2>1 DEF Current, Running
  <2> QED BY <1>2, <2>1, <2>2, PairRuns
<1> QED BY <1>a, <1>b, <1>d, <1>e, <1>f DEF QueueOK

\* A delivery of the present generation failed and a recovery begins by releasing the subscription.
LEMMA QueueRecover ==
    ASSUME TypeOK, RequestsOK, ShapeInv, QueueOK, NEW how, chain # <<>>, chain' = Tail(chain), stage' = "next", Now(1),
           gen' = gen + 1, bound' = "nobody", est["recovery"].pc = "idle", Only("recovery"),
           est'["recovery"].pc = "unsubscribing", Requested("delivery", "recovery", "unsubscribe", curSub, 0, None)
    PROVE  QueueOK'
<1>0. est'["main"] = est["main"] /\ "main" \in Activities /\ "main" # "delivery"
  BY PairRuns DEF Only
<1>1. LoadsAlone /\ SupersededAhead("main") /\ DeliveryAhead /\ ReleaseFirst /\ ResumesAlone
  BY PairRuns DEF QueueOK
<1>3. gen' \in Nat /\ gen \in Nat /\ gen <= gen' /\ gen < gen'
  <2>1. gen \in Nat
    BY GenTypes
  <2> QED BY <2>1
<1>4. \A i \in 1..Len(chain') : chain'[i].gen # gen'
  BY <1>3, ChainGens DEF ShapeInv
<1>5. 1 \in 1..Len(chain)
  BY ChainFacts
<1>6. Current("main") => est["main"].pc \notin Loading
  BY <1>1, <1>5, PairRuns DEF LoadsAlone
<1>7. ~(est["main"].pc \in Waiting /\ est["main"].gen # gen)
  BY <1>1, Others DEF SupersededAhead
<1>8. est["main"].pc \in Waiting => est["main"].pc = "acking"
  BY <1>6, <1>7 DEF Current, Running, Loading, Draining, Waiting
<1>9. est["main"].pc \in Running => est["main"].gen # gen'
  <2>1. est["main"].pc \in Running => est["main"].gen \in Nat /\ est["main"].gen <= gen
    BY GenTypes, PairRuns DEF ShapeInv, GensOK
  <2> QED BY <1>3, <2>1
<1>a. LoadsAlone'
  BY <1>4 DEF LoadsAlone, Now
<1>b. SupersededAhead("main")' /\ SupersededAhead("recovery")' /\ SupersededLoads("main")' /\ SupersededLoads("recovery")'
  <2>1. est["main"].pc \in Waiting => "main" \in calls'["recovery"].ahead
    <3>1. est["main"].pc \in Waiting => calls["main"].state # "none"
      BY HasCall, PairRuns DEF Waiting
    <3> QED BY <1>0, <3>1 DEF Requested
  <2>2. SupersededAhead("main")'
    BY <1>0, <1>8, <2>1, Others DEF SupersededAhead
  <2>3. SupersededLoads("main")'
    BY <1>0, <1>8 DEF SupersededLoads, Waiting
  <2> QED BY <2>2, <2>3 DEF SupersededAhead, SupersededLoads, Waiting
<1>d. DeliveryAhead'
  BY DEF DeliveryAhead
<1>e. ReleaseFirst'
  BY <1>0, <1>9 DEF ReleaseFirst, Current
<1>f. ResumesAlone'
  BY <1>0, <1>1 DEF ResumesAlone
<1> QED BY <1>a, <1>b, <1>d, <1>e, <1>f DEF QueueOK, Pair

Detached(s) == ~up \/ ~Attached(s)

\* The recovery releases the subscription of the view, if it has one.
ReleasesCurrent == est["recovery"].pc = "unsubscribing" => calls["recovery"].sub = curSub \/ curSub = 0
\* Whatever the answer was, the subscription is then not of this connection any more.
ReleasedGone == est["recovery"].pc = "unsubscribing" /\ calls["recovery"].state = "done" => Detached(calls["recovery"].sub)
\* Once it was released, a resumed run of a reconnect that is under way has nothing to go on with.
ResumeIsOver == est["recovery"].pc \in {"subscribing", "cleaning"} /\ est["main"].pc \in Running /\ est["main"].how = "resume"
        => Detached(curSub)
\* A recovery that would resume, now or after the release.
Soft == /\ est["recovery"].how = "resume"
        /\ \/ est["recovery"].pc = "unsubscribing"
           \/ est["recovery"].pc = "subscribing" /\ est["recovery"].cursor # None
\* The unsubscribe request of the reconnect has failed or will.
Doomed == \/ calls["main"].state = "done" /\ calls["main"].kind = "error"
          \/ calls["main"].state = "sent" /\ ~Attached(calls["main"].sub)
          \/ /\ calls["main"].state = "sent" /\ calls["recovery"].state = "sent" /\ est["recovery"].pc = "unsubscribing"
             /\ calls["recovery"].sub = calls["main"].sub /\ "recovery" \in calls["main"].ahead
NoReturn == est["main"].how = "snapshot" \/ est["main"].code \notin CursorErrors \/ Doomed
\* A reconnect that cleans up does not start over while the view has a subscription or a recovery
\* is on its way.
CleanupEnds == est["main"].pc = "cleaning" /\ (curSub # 0 \/ Soft \/ (est["recovery"].pc = "subscribing" /\ "main" \notin calls["recovery"].ahead))
        => NoReturn
\* An acknowledgement never fails with the error after which a delivery would resume.
AcksNeverGap == calls["delivery"].state # "none" => calls["delivery"].code # "event_sequence_gap"
ReleaseOK == ReleasesCurrent /\ ReleasedGone /\ ResumeIsOver /\ CleanupEnds /\ AcksNeverGap

LEMMA NotAttached == TypeOK => ~Attached(0)
BY DEF Attached, Subs, TypeOK, DaemonTypeOK

\* The reconnect moves on.
LEMMA ReleaseMain ==
    ASSUME TypeOK, RequestsOK, ReleaseOK, Only("main"), UNCHANGED <<subs, conn>>,
           Waits("recovery", "main"), Waits("delivery", "main"),
           ~up' \/ (up' = up /\ calls'["recovery"].state = calls["recovery"].state),
           calls["delivery"].state = "none" => calls'["delivery"].state = "none",
           est'["main"].pc \in Running => est["main"].pc \in Running /\ est'["main"].how = est["main"].how,
           \/ curSub' \in {0, curSub}
           \/ est["recovery"].pc # "unsubscribing" /\ (est["main"].how = "resume" => est["recovery"].pc = "idle"),
           est'["main"].pc = "cleaning" => curSub' = 0 /\ (Soft \/ est["recovery"].pc = "subscribing" => NoReturn')
    PROVE  ReleaseOK'
<1>0. est'["recovery"] = est["recovery"] /\ (\A s : Attached(s)' <=> Attached(s)) /\ ~Attached(0)
  BY PairRuns, NotAttached DEF Only, Attached, Subs
<1>1. ReleasesCurrent /\ ReleasedGone /\ ResumeIsOver /\ CleanupEnds /\ AcksNeverGap
  BY DEF ReleaseOK
<1>2. est["recovery"].pc = "unsubscribing" => calls["recovery"].state # "none"
  BY HasCall, PairRuns
<1>a. ReleasesCurrent'
  BY <1>0, <1>1, <1>2 DEF ReleasesCurrent, Waits
<1>b. ReleasedGone'
  BY <1>0, <1>1, <1>2 DEF ReleasedGone, Waits, Detached
<1>c. ResumeIsOver'
  <2> SUFFICES ASSUME est["recovery"].pc \in {"subscribing", "cleaning"}, est'["main"].pc \in Running, est'["main"].how = "resume"
               PROVE  ~up' \/ ~Attached(curSub')
    BY <1>0 DEF ResumeIsOver, Detached
  <2>1. Detached(curSub) /\ curSub' \in {0, curSub}
    BY <1>1 DEF ResumeIsOver
  <2> QED BY <1>0, <2>1 DEF Detached
<1>d. CleanupEnds'
  BY <1>0 DEF CleanupEnds, Soft
<1>e. AcksNeverGap'
  BY <1>1 DEF AcksNeverGap, Waits
<1> QED BY <1>a, <1>b, <1>c, <1>d, <1>e DEF ReleaseOK

\* The request of the reconnect stays doomed.
LEMMA NoReturnKept ==
    ASSUME TypeOK, RequestsOK, NoReturn, est["main"].pc = "cleaning", est'["main"] = est["main"], UNCHANGED <<subs, conn>>, NEW t,
           Waits("main", t), calls["recovery"].state # "sent" \/ est["recovery"].pc # "unsubscribing"
    PROVE  NoReturn'
<1>0. \A s : Attached(s)' <=> Attached(s)
  BY DEF Attached, Subs
<1>1. calls["main"].state # "none"
  BY HasCall, PairRuns
<1>2. Doomed => Doomed'
  BY <1>0, <1>1 DEF Doomed, Waits
<1> QED BY <1>2 DEF NoReturn

\* The recovery moves on.
LEMMA ReleaseRecovery ==
    ASSUME TypeOK, RequestsOK, ReleaseOK, Only("recovery"), UNCHANGED <<subs, conn, up>>,
           Waits("main", "recovery"), Waits("delivery", "recovery"),
           calls["delivery"].state = "none" => calls'["delivery"].state = "none",
           est["recovery"].pc # "unsubscribing", est'["recovery"].pc # "unsubscribing",
           est'["recovery"].pc = "subscribing" => est["recovery"].pc = "subscribing" /\ calls["recovery"].ahead = {} /\ curSub' = curSub,
           est'["recovery"].pc = "cleaning" => curSub' = 0,
           curSub' \in {0, curSub} \/ (est["recovery"].pc = "subscribing" /\ calls["recovery"].ahead = {})
    PROVE  ReleaseOK'
<1>0. est'["main"] = est["main"] /\ (\A s : Attached(s)' <=> Attached(s)) /\ ~Attached(0)
  BY PairRuns, NotAttached DEF Only, Attached, Subs
<1>1. ResumeIsOver /\ CleanupEnds /\ AcksNeverGap
  BY DEF ReleaseOK
<1>a. ReleasesCurrent' /\ ReleasedGone'
  BY DEF ReleasesCurrent, ReleasedGone
<1>c. ResumeIsOver'
  BY <1>0, <1>1 DEF ResumeIsOver, Detached
<1>d. CleanupEnds'
  <2> SUFFICES ASSUME est["main"].pc = "cleaning", curSub' # 0 \/ est'["recovery"].pc = "subscribing" PROVE NoReturn'
    BY <1>0 DEF CleanupEnds, Soft
  <2>1. curSub # 0 \/ (est["recovery"].pc = "subscribing" /\ "main" \notin calls["recovery"].ahead)
    OBVIOUS
  <2>2. NoReturn
    BY <1>1, <2>1 DEF CleanupEnds
  <2> QED BY <1>0, <2>2, NoReturnKept
<1>e. AcksNeverGap'
  BY <1>1 DEF AcksNeverGap, Waits
<1> QED BY <1>a, <1>c, <1>d, <1>e DEF ReleaseOK

LEMMA ReleaseEstablish ==
    ASSUME TypeOK, RequestsOK, ReleaseOK, NEW u \in Activities, NEW t \in Pair, NEW g, NEW how, NEW p, NEW a,
           EstablishEffect(u, t, g, how, p, a), UNCHANGED <<subs, conn, up>>, u = t \/ u = "delivery",
           t = "main" => how = "snapshot" \/ est["recovery"].pc = "idle",
           t = "recovery" => /\ est["main"].pc \in Running /\ est["main"].how = "resume" => Detached(curSub)
                             /\ est["main"].pc = "cleaning" /\ Offer(how, p, a) # None => NoReturn
                             /\ calls["recovery"].state # "sent"
    PROVE  ReleaseOK'
<1>1. /\ Only(t) /\ est'[t].pc = "subscribing" /\ est'[t].how = how /\ curSub' = curSub
      /\ est'[t].cursor = Offer(how, p, a) /\ Requested(u, t, "subscribe", 0, 0, Offer(how, p, a))
  BY DEF EstablishEffect, Moves, Only
<1>2. ReleasesCurrent /\ ReleasedGone /\ ResumeIsOver /\ CleanupEnds /\ AcksNeverGap
  BY DEF ReleaseOK
<1>3. (\A s : Attached(s)' <=> Attached(s)) /\ ~Attached(0)
  BY NotAttached DEF Attached, Subs
<1>e. AcksNeverGap'
  <2>1. CASE u = "delivery"
    <3>1. calls'["delivery"] = NoCall
      BY <1>1, <2>1, PairRuns DEF Requested
    <3> QED BY <3>1, NoCallFields DEF AcksNeverGap
  <2>2. CASE u = t
    <3>1. Same(calls'["delivery"], calls["delivery"])
      BY <1>1, <2>2, PairRuns DEF Requested
    <3> QED BY <1>2, <3>1 DEF AcksNeverGap, Same
  <2> QED BY <2>1, <2>2
<1>4. CASE t = "main"
  <2>1. est'["recovery"] = est["recovery"]
    BY <1>1, <1>4, PairRuns DEF Only
  <2>2. Same(calls'["recovery"], calls["recovery"])
    BY <1>1, <1>4, PairRuns DEF Requested
  <2>3. ReleasesCurrent' /\ ReleasedGone'
    BY <1>1, <1>2, <1>3, <2>1, <2>2 DEF ReleasesCurrent, ReleasedGone, Same, Detached
  <2>4. ResumeIsOver' /\ CleanupEnds'
    BY <1>1, <1>4, <2>1 DEF ResumeIsOver, CleanupEnds
  <2> QED BY <1>e, <2>3, <2>4 DEF ReleaseOK
<1>5. CASE t = "recovery"
  <2>1. est'["main"] = est["main"]
    BY <1>1, <1>5, PairRuns DEF Only
  <2>2. ReleasesCurrent' /\ ReleasedGone'
    BY <1>1, <1>5 DEF ReleasesCurrent, ReleasedGone
  <2>3. ResumeIsOver'
    BY <1>1, <1>3, <1>5, <2>1 DEF ResumeIsOver, Detached
  <2>4. CleanupEnds'
    <3> SUFFICES ASSUME est["main"].pc = "cleaning", curSub # 0 \/ Offer(how, p, a) # None \/ "main" \notin calls'["recovery"].ahead
                 PROVE  NoReturn'
      BY <1>1, <1>5, <2>1 DEF CleanupEnds, Soft
    <3>1. "main" \in calls'["recovery"].ahead
      <4>1. calls["main"].state # "none" /\ "main" \in Activities \ {u}
        BY <1>5, HasCall, PairRuns
      <4> QED BY <1>1, <1>5, <4>1 DEF Requested
    <3>2. NoReturn
      BY <1>2, <1>5, <3>1 DEF CleanupEnds
    <3>3. Waits("main", u)
      BY <1>1, <1>5, AllWait, PairRuns
    <3> QED BY <1>5, <2>1, <3>2, <3>3, NoReturnKept
  <2> QED BY <1>e, <2>2, <2>3, <2>4 DEF ReleaseOK
<1> QED BY <1>4, <1>5 DEF Pair

\* The runs stay where they are and only the chain took a response, asked, or moved on.
LEMMA ReleaseChain ==
    ASSUME TypeOK, RequestsOK, ReleaseOK, UNCHANGED <<subs, conn, up, curSub>>,
           \A v \in Runs : /\ est'[v].pc = est[v].pc /\ est'[v].how = est[v].how /\ est'[v].cursor = est[v].cursor
                           /\ est'[v].code = est[v].code,
           \A v \in Pair : Waits(v, "delivery") /\ calls'[v].state = calls[v].state /\ calls'[v].kind = calls[v].kind,
           AcksNeverGap'
    PROVE  ReleaseOK'
<1>0. /\ \A v \in Pair : /\ est'[v].pc = est[v].pc /\ est'[v].how = est[v].how /\ est'[v].cursor = est[v].cursor
                         /\ est'[v].code = est[v].code
      /\ (\A s : Attached(s)' <=> Attached(s))
      /\ "main" \in Pair /\ "recovery" \in Pair /\ "main" # "delivery" /\ "recovery" # "delivery"
  BY PairRuns DEF Attached, Subs
<1>1. ReleasesCurrent /\ ReleasedGone /\ ResumeIsOver /\ CleanupEnds
  BY DEF ReleaseOK
<1>2. /\ est["recovery"].pc \in {"unsubscribing", "subscribing"} => calls["recovery"].state # "none"
      /\ est["main"].pc = "cleaning" => calls["main"].state # "none"
  BY <1>0, HasCall
<1>3. ReleasesCurrent' /\ ReleasedGone' /\ ResumeIsOver'
  BY <1>0, <1>1, <1>2 DEF ReleasesCurrent, ReleasedGone, ResumeIsOver, Detached, Waits
<1>4. CleanupEnds'
  <2> SUFFICES ASSUME est["main"].pc = "cleaning",
                      curSub # 0 \/ Soft \/ (est["recovery"].pc = "subscribing" /\ "main" \notin calls'["recovery"].ahead)
               PROVE  NoReturn'
    BY <1>0 DEF CleanupEnds, Soft
  <2>1. NoReturn
    BY <1>0, <1>1, <1>2 DEF CleanupEnds, Waits
  <2>2. Doomed => Doomed'
    BY <1>0, <1>2 DEF Doomed, Waits
  <2> QED BY <1>0, <2>1, <2>2 DEF NoReturn
<1> QED BY <1>3, <1>4 DEF ReleaseOK

\* A recovery begins by releasing the subscription.
LEMMA ReleaseRecover ==
    ASSUME TypeOK, RequestsOK, ReleaseOK, UNCHANGED <<subs, conn, up, curSub>>, curSub # 0, est["recovery"].pc = "idle",
           Only("recovery"), est'["recovery"].pc = "unsubscribing",
           Requested("delivery", "recovery", "unsubscribe", curSub, 0, None)
    PROVE  ReleaseOK'
<1>0. est'["main"] = est["main"] /\ up \in BOOLEAN
  BY PairRuns, ViewFacts DEF Only
<1>1. ReleasesCurrent' /\ ReleasedGone'
  BY <1>0 DEF ReleasesCurrent, ReleasedGone, Detached, Requested
<1>2. ResumeIsOver'
  BY DEF ResumeIsOver
<1>3. CleanupEnds'
  <2> SUFFICES ASSUME est["main"].pc = "cleaning" PROVE NoReturn'
    BY <1>0 DEF CleanupEnds
  <2>1. NoReturn
    BY DEF ReleaseOK, CleanupEnds
  <2>2. Waits("main", "delivery")
    BY AllWait, PairRuns
  <2> QED BY <1>0, <2>1, <2>2, NoReturnKept
<1>4. AcksNeverGap'
  <2>1. calls'["delivery"] = NoCall
    BY PairRuns DEF Requested
  <2> QED BY <2>1, NoCallFields DEF AcksNeverGap
<1> QED BY <1>1, <1>2, <1>3, <1>4 DEF ReleaseOK

\* The connection fails under everybody.
LEMMA ReleaseFailed ==
    ASSUME TypeOK, RequestsOK, ReleaseOK, IsFailed("nobody"), UNCHANGED <<est, curSub>>
    PROVE  ReleaseOK'
<1>1. ReleasesCurrent /\ CleanupEnds /\ AcksNeverGap
  BY DEF ReleaseOK
<1>2. /\ est["recovery"].pc \in {"unsubscribing", "subscribing"} => calls["recovery"].state # "none"
      /\ est["main"].pc = "cleaning" => calls["main"].state # "none"
  BY HasCall, PairRuns
<1>3. ReleasesCurrent' /\ ReleasedGone' /\ ResumeIsOver'
  BY <1>1, <1>2, PairRuns DEF ReleasesCurrent, ReleasedGone, ResumeIsOver, Detached,
     IsFailed
<1>4. CleanupEnds'
  BY <1>2, PairRuns DEF CleanupEnds, NoReturn, Doomed, IsFailed
<1>5. AcksNeverGap'
  BY <1>1, PairRuns, NoCallFields DEF AcksNeverGap, IsFailed
<1> QED BY <1>3, <1>4, <1>5 DEF ReleaseOK

\* The client connects: nobody awaits a response.
LEMMA ReleaseConnect ==
    ASSUME TypeOK, RequestsOK, ConnectEffect
    PROVE  ReleaseOK'
<1>1. (\A t \in Activities : calls[t].state = "none") /\ est["main"].pc = "idle" /\ calls' = calls
      /\ est'["recovery"] = est["recovery"] /\ est'["main"].pc \in {"idle", "joining"}
  BY PairRuns DEF ConnectEffect, Moves
<1>2. est["recovery"].pc \notin {"unsubscribing", "subscribing", "cleaning"}
  BY <1>1, HasCall, PairRuns
<1>3. ReleasesCurrent' /\ ReleasedGone' /\ ResumeIsOver' /\ CleanupEnds'
  BY <1>1, <1>2 DEF ReleasesCurrent, ReleasedGone, ResumeIsOver, CleanupEnds
<1>4. AcksNeverGap'
  BY <1>1, PairRuns DEF AcksNeverGap
<1> QED BY <1>3, <1>4 DEF ReleaseOK

LEMMA QueueConnect ==
    ASSUME TypeOK, RequestsOK, ShapeInv, QueueOK, ConnectEffect
    PROVE  QueueOK'
<1>1. (\A t \in Activities : calls[t].state = "none") /\ est["main"].pc = "idle" /\ calls' = calls
      /\ est'["recovery"] = est["recovery"] /\ est'["main"].pc \in {"idle", "joining"}
      /\ UNCHANGED <<gen, bound, chain, stage>>
  BY PairRuns DEF ConnectEffect, Moves, view
<1>2. \A t \in Pair : est'[t].pc \notin Waiting /\ est'[t].pc \notin Loading /\ est'[t].pc # "unsubscribing"
  <2>1. est["recovery"].pc \notin {"unsubscribing", "subscribing", "paging", "bounding", "acking"}
    BY <1>1, HasCall, PairRuns
  <2> QED BY <1>1, <2>1 DEF Pair, Waiting, Loading
<1>3. stage # "acking"
  BY <1>1, HasCall, PairRuns
<1>4. LoadsAlone'
  BY <1>2, PairRuns DEF LoadsAlone
<1>5. \A t \in Pair : SupersededAhead(t)' /\ SupersededLoads(t)'
  BY <1>2 DEF SupersededAhead, SupersededLoads, Waiting
<1>6. DeliveryAhead' /\ ReleaseFirst' /\ ResumesAlone'
  BY <1>1, <1>2, <1>3, PairRuns DEF DeliveryAhead, ReleaseFirst, ResumesAlone
<1> QED BY <1>4, <1>5, <1>6 DEF QueueOK

\* The daemon answers the request of t.
Answer(t, kind, s, start, count, code) ==
    /\ calls[t].state = "sent" /\ (\A u \in calls[t].ahead : calls[u].state = "done")
    /\ Responded(t, kind, s, start, count, code) /\ code # "event_sequence_gap"
    /\ calls[t].kind # "subscribe" => s = calls[t].sub
    /\ calls[t].kind = "unsubscribe" => /\ ~Attached(calls[t].sub)'
                                        /\ ~Attached(calls[t].sub) => kind = "error"

LEMMA DaemonEffect ==
    ASSUME TypeOK, DaemonStep
    PROVE  /\ SubsKept /\ UNCHANGED <<conn, up, view, est, chain, stage, hello, history>>
           /\ calls' = calls \/ \E t \in Activities : \E kind, s, start, count, code : Answer(t, kind, s, start, count, code)
<1>0. DaemonNext /\ UNCHANGED <<view, est, chain, stage, hello, history>>
  BY DEF DaemonStep
<1> DEFINE Done == /\ SubsKept /\ UNCHANGED <<conn, up>>
                   /\ calls' = calls \/ \E t \in Activities : \E kind, s, start, count, code : Answer(t, kind, s, start, count, code)
<1>s. UNCHANGED subs => SubsKept
  BY SubFacts DEF SubsKept, TypeOK, DaemonTypeOK
<1>1. ASSUME SubsKept, UNCHANGED <<conn, up, calls>> PROVE Done
  BY <1>1
<1>2. ASSUME EventStored PROVE Done
  <2>1. SubsKept
    BY <1>2, EventStoredKept
  <2>2. UNCHANGED <<conn, up, calls>>
    BY <1>2 DEF EventStored
  <2> QED BY <1>1, <2>1, <2>2
<1>3. ASSUME NEW c \in 1..conn, ConnectionClosed(c) PROVE Done
  <2>1. SubsKept
    BY <1>3, ConnectionClosedFacts
  <2>2. UNCHANGED <<conn, up, calls>>
    BY <1>3 DEF ConnectionClosed, channel
  <2> QED BY <1>1, <2>1, <2>2
<1>4. ASSUME CursorExpires \/ OtherCursor PROVE Done
  <2>1. UNCHANGED <<subs, conn, up, calls>>
    BY <1>4 DEF CursorExpires, OtherCursor, channel
  <2> QED BY <1>1, <1>s, <2>1
<1>6. ASSUME NEW s \in Subs, SnapshotExpires(s) PROVE Done
  <2>1. SubsKept
    BY <1>6, SnapshotExpiresFacts
  <2>2. UNCHANGED <<conn, up, calls>>
    BY <1>6 DEF SnapshotExpires, channel
  <2> QED BY <1>1, <2>1, <2>2
<1>5. ASSUME NEW t \in Activities,
             \/ SubscribeSnapshot(t) \/ SubscribeResumed(t) \/ SubscribeRefused(t)
             \/ SnapshotPage(t) \/ Acknowledge(t) \/ AcknowledgeRefused(t) \/ Unsubscribe(t)
      PROVE  Done
  <2>0. ASSUME NEW kind, NEW s, NEW start, NEW count, NEW code, SubsKept, Answer(t, kind, s, start, count, code)
        PROVE  Done
    BY <2>0 DEF Answer, Responded
  <2> HIDE DEF Done
  <2>1. CASE SubscribeSnapshot(t)
    <3>1. calls[t].state = "sent" /\ calls[t].kind = "subscribe" /\ (\A u \in calls[t].ahead : calls[u].state = "done")
      BY <2>1 DEF SubscribeSnapshot, Executes
    <3>2. calls' \in [Activities -> Call]
      <4>1. ChannelTypeOK'
        BY <2>1, SubscribeSnapshotFacts
      <4> QED BY <4>1 DEF ChannelTypeOK
    <3>3. /\ calls'[t].state = "done" /\ calls'[t].kind = "snapshot" /\ calls'[t].sub = Len(subs) + 1
          /\ calls'[t].start = 0 /\ calls'[t].count = log /\ calls'[t].code = ""
      <4>1. calls[t] \in Call /\ calls \in [Activities -> Call]
        BY DEF TypeOK, ChannelTypeOK
      <4>2. Respond(t, "snapshot", Len(subs) + 1, 0, log, "")
        BY <2>1 DEF SubscribeSnapshot
      <4> QED BY <4>1, <4>2 DEF Respond, Call
    <3>4. /\ calls'[t].cursor = calls[t].cursor /\ calls'[t].ahead = calls[t].ahead /\ SubsKept
          /\ \A v \in Activities : v # t => calls'[v] = calls[v]
          /\ UNCHANGED <<log, instance, conn, up, faults>>
      BY <2>1, SubscribeSnapshotFacts
    <3>5. Responded(t, "snapshot", Len(subs) + 1, 0, log, "")
      BY <3>2, <3>3, <3>4 DEF Responded
    <3>6. Answer(t, "snapshot", Len(subs) + 1, 0, log, "")
      BY <3>1, <3>5 DEF Answer
    <3> QED BY <2>0, <3>4, <3>6
  <2>2. CASE SubscribeResumed(t)
    <3>1. calls[t].state = "sent" /\ calls[t].kind = "subscribe" /\ (\A u \in calls[t].ahead : calls[u].state = "done")
      BY <2>2 DEF SubscribeResumed, Executes
    <3>2. Responded(t, "resumed", Len(subs) + 1, 0, 0, "") /\ SubsKept
      BY <2>2, SubscribeResumedFacts DEF ResumedEffect
    <3>3. Answer(t, "resumed", Len(subs) + 1, 0, 0, "")
      BY <3>1, <3>2 DEF Answer
    <3> QED BY <2>0, <3>2, <3>3
  <2>3. CASE SubscribeRefused(t)
    <3>1. calls[t].state = "sent" /\ calls[t].kind = "subscribe" /\ (\A u \in calls[t].ahead : calls[u].state = "done")
      BY <2>3 DEF SubscribeRefused, Executes
    <3>2. Responded(t, "error", calls[t].sub, 0, 0, "snapshot_required") /\ SubsKept
      BY <2>3, SubscribeRefusedFacts
    <3>3. Answer(t, "error", calls[t].sub, 0, 0, "snapshot_required")
      BY <3>1, <3>2 DEF Answer
    <3> QED BY <2>0, <3>2, <3>3
  <2>4. CASE SnapshotPage(t)
    <3>1. calls[t].state = "sent" /\ calls[t].kind = "history" /\ (\A u \in calls[t].ahead : calls[u].state = "done")
      BY <2>4 DEF SnapshotPage, Executes
    <3>2. /\ SubsKept
          /\ \/ Responded(t, "error", calls[t].sub, 0, 0, "snapshot_required")
             \/ \E n : Responded(t, "page", calls[t].sub, calls[t].start, n, "")
      BY <2>4, SnapshotPageFacts
    <3>3. \/ Answer(t, "error", calls[t].sub, 0, 0, "snapshot_required")
          \/ \E n : Answer(t, "page", calls[t].sub, calls[t].start, n, "")
      BY ZenonT(60), <3>1, <3>2 DEF Answer
    <3> QED BY <2>0, <3>2, <3>3
  <2>5. CASE Acknowledge(t)
    <3>1. calls[t].state = "sent" /\ calls[t].kind = "ack" /\ (\A u \in calls[t].ahead : calls[u].state = "done")
      BY Zenon, <2>5 DEF Acknowledge, Executes
    <3>2. Responded(t, "acked", calls[t].sub, 0, 0, "") /\ SubsKept
      BY <2>5, AcknowledgeFacts DEF AcknowledgeEffect
    <3>3. Answer(t, "acked", calls[t].sub, 0, 0, "")
      BY <3>1, <3>2 DEF Answer
    <3> QED BY ZenonT(60), <2>0, <3>2, <3>3
  <2>6. CASE AcknowledgeRefused(t)
    <3>1. calls[t].state = "sent" /\ calls[t].kind = "ack" /\ (\A u \in calls[t].ahead : calls[u].state = "done")
      BY <2>6 DEF AcknowledgeRefused, Executes
    <3>2. Responded(t, "error", calls[t].sub, 0, 0, AckRefusal(calls[t].sub, calls[t].cursor)) /\ SubsKept
      BY <2>6, AcknowledgeRefusedFacts
    <3>3. AckRefusal(calls[t].sub, calls[t].cursor) # "event_sequence_gap"
      BY DEF AckRefusal
    <3>4. Answer(t, "error", calls[t].sub, 0, 0, AckRefusal(calls[t].sub, calls[t].cursor))
      BY <3>1, <3>2, <3>3 DEF Answer
    <3> QED BY <2>0, <3>2, <3>4
  <2>7. CASE Unsubscribe(t)
    <3>1. calls[t].state = "sent" /\ calls[t].kind = "unsubscribe" /\ (\A u \in calls[t].ahead : calls[u].state = "done")
      BY <2>7 DEF Unsubscribe, Executes
    <3>2. /\ SubsKept /\ Subs' = Subs
          /\ \/ Attached(calls[t].sub) /\ Responded(t, "unsubscribed", calls[t].sub, 0, 0, "") /\ subs'[calls[t].sub].conn = 0
             \/ /\ ~Attached(calls[t].sub) /\ Responded(t, "error", calls[t].sub, 0, 0, "unknown_subscription")
                /\ UNCHANGED subs
      BY <2>7, UnsubscribeFacts
    <3>3. conn' = conn /\ conn # 0
      <4>1. conn \in Nat \ {0}
        BY DEF TypeOK, ChannelTypeOK
      <4>2. conn' = conn
        BY <3>2 DEF Responded
      <4> QED BY <4>1, <4>2
    <3>4. ~Attached(calls[t].sub)'
      <4>1. CASE Attached(calls[t].sub)
        <5>1. subs'[calls[t].sub].conn = 0 /\ calls'[t].sub = calls[t].sub
          BY <3>2, <4>1 DEF Responded
        <5> QED BY <3>3, <5>1 DEF Attached
      <4>2. CASE ~Attached(calls[t].sub)
        <5>1. subs' = subs /\ calls'[t].sub = calls[t].sub
          BY <3>2, <4>2 DEF Responded
        <5> QED BY <3>3, <4>2, <5>1 DEF Attached, Subs
      <4> QED BY <4>1, <4>2
    <3>5. \/ Answer(t, "unsubscribed", calls[t].sub, 0, 0, "")
          \/ Answer(t, "error", calls[t].sub, 0, 0, "unknown_subscription")
      BY <3>1, <3>2, <3>4 DEF Answer
    <3> QED BY <2>0, <3>2, <3>5
  <2> QED BY <1>5, <2>1, <2>2, <2>3, <2>4, <2>5, <2>6, <2>7
<1>7. Done
  BY <1>0, <1>2, <1>3, <1>4, <1>5, <1>6 DEF DaemonNext
<1> QED BY <1>0, <1>7

\* Only the order of the requests matters to the queue.
LEMMA QueueKept ==
    ASSUME QueueOK, UNCHANGED <<est, gen, bound, chain, stage>>, \A v \in Activities : calls'[v].ahead = calls[v].ahead
    PROVE  QueueOK'
<1>1. LoadsAlone /\ (\A t \in Pair : SupersededAhead(t) /\ SupersededLoads(t)) /\ DeliveryAhead /\ ReleaseFirst /\ ResumesAlone
  BY DEF QueueOK
<1>2. \A t \in Pair : calls'[t].ahead = calls[t].ahead /\ calls'[Other(t)].ahead = calls[Other(t)].ahead
  BY Others, PairRuns
<1>3. LoadsAlone' /\ ResumesAlone' /\ \A t \in Pair : SupersededLoads(t)'
  BY <1>1 DEF LoadsAlone, ResumesAlone, SupersededLoads, Now, Current
<1>4. \A t \in Pair : SupersededAhead(t)'
  BY <1>1, <1>2 DEF SupersededAhead
<1>5. DeliveryAhead' /\ ReleaseFirst'
  BY <1>1, <1>2, PairRuns DEF DeliveryAhead, ReleaseFirst, Current
<1> QED BY <1>3, <1>4, <1>5 DEF QueueOK

\* A subscription the daemon has removed stays removed.
LEMMA AttachedKept ==
    ASSUME TypeOK, SubsKept, conn' = conn, NEW s \in 0..Len(subs)
    PROVE  Attached(s)' => Attached(s)
<1>1. Attached(s)' => s # 0
  BY DEF Attached, Subs
<1>2. conn # 0 /\ Len(subs) \in Nat
  BY DEF TypeOK, ChannelTypeOK, DaemonTypeOK
<1>3. s # 0 => s \in Subs
  BY <1>2 DEF Subs
<1>4. s \in Subs /\ subs'[s].conn = conn => subs[s].conn = conn
  BY <1>2 DEF SubsKept
<1> QED BY <1>1, <1>3, <1>4 DEF Attached

LEMMA AnswerDoomed ==
    ASSUME TypeOK, RequestsOK, SubsKept, UNCHANGED <<conn, up, est>>, NEW t \in Activities,
           NEW kind, NEW s, NEW start, NEW count, NEW code, Answer(t, kind, s, start, count, code),
           est["main"].pc = "cleaning", Doomed
    PROVE  Doomed'
<1>0. Awaited(Where("main"), calls["main"]) /\ Where("main") = "cleaning"
  BY PairRuns DEF RequestsOK, AwaitedOK, Where
<1>1. calls["main"].state = "sent" => calls["main"].kind = "unsubscribe"
  BY <1>0 DEF Awaited, Asks
<1>2. calls["main"].sub \in 0..Len(subs)
  BY PairRuns DEF TypeOK, ChannelTypeOK
<1>3. /\ calls[t].state = "sent" /\ (\A u \in calls[t].ahead : calls[u].state = "done")
      /\ Responded(t, kind, s, start, count, code)
      /\ calls[t].kind # "subscribe" => s = calls[t].sub
      /\ calls[t].kind = "unsubscribe" => ~Attached(calls[t].sub)' /\ (~Attached(calls[t].sub) => kind = "error")
  BY DEF Answer
<1>4. /\ \A v \in Activities : v # t => calls'[v] = calls[v]
      /\ calls'[t].state = "done" /\ calls'[t].kind = kind /\ calls'[t].sub = s /\ calls'[t].ahead = calls[t].ahead
  BY <1>3 DEF Responded
<1>5. CASE calls["main"].state = "done" /\ calls["main"].kind = "error"
  BY <1>3, <1>4, <1>5, PairRuns DEF Doomed
<1>6. CASE calls["main"].state = "sent" /\ ~Attached(calls["main"].sub)
  <2>1. CASE t = "main"
    BY <1>1, <1>3, <1>4, <1>6, <2>1 DEF Doomed
  <2>2. CASE t # "main"
    <3>1. calls'["main"] = calls["main"]
      BY <1>4, <2>2, PairRuns
    <3>2. ~Attached(calls["main"].sub)'
      <4>1. \A x \in 0..Len(subs) : Attached(x)' => Attached(x)
        BY AttachedKept
      <4>2. Attached(calls["main"].sub)' <=> calls["main"].sub \in Subs' /\ subs'[calls["main"].sub].conn = conn'
        BY <3>1 DEF Attached
      <4> QED BY <1>2, <1>6, <3>1, <4>1, <4>2 DEF Attached
    <3> QED BY <1>6, <3>1, <3>2 DEF Doomed
  <2> QED BY <2>1, <2>2
<1>7. CASE /\ calls["main"].state = "sent" /\ calls["recovery"].state = "sent" /\ est["recovery"].pc = "unsubscribing"
           /\ calls["recovery"].sub = calls["main"].sub /\ "recovery" \in calls["main"].ahead
  <2>1. t # "main"
    BY <1>3, <1>7
  <2>2. calls'["main"] = calls["main"]
    BY <1>4, <2>1, PairRuns
  <2>3. CASE t = "recovery"
    <3>1. Awaited(Where("recovery"), calls["recovery"]) /\ Where("recovery") = "unsubscribing"
      BY <1>7, PairRuns DEF RequestsOK, AwaitedOK, Where
    <3>2. calls["recovery"].kind = "unsubscribe"
      BY <1>7, <3>1 DEF Awaited, Asks
    <3>3. ~Attached(calls["recovery"].sub)' /\ s = calls["recovery"].sub
      BY <1>3, <2>3, <3>2
    <3>4. calls'["recovery"].sub = calls'["main"].sub
      BY <1>4, <1>7, <2>2, <2>3, <3>3
    <3>5. ~Attached(calls["main"].sub)'
      BY <3>3, <3>4 DEF Attached
    <3> QED BY <1>7, <2>2, <3>5 DEF Doomed
  <2>4. CASE t # "recovery"
    BY <1>4, <1>7, <2>2, <2>4, PairRuns DEF Doomed
  <2> QED BY <2>3, <2>4
<1> QED BY <1>5, <1>6, <1>7 DEF Doomed

LEMMA ReleaseAnswer ==
    ASSUME TypeOK, RequestsOK, ReleaseOK, SubsKept, UNCHANGED <<conn, up, est, curSub>>, NEW t \in Activities,
           NEW kind, NEW s, NEW start, NEW count, NEW code, Answer(t, kind, s, start, count, code)
    PROVE  ReleaseOK'
<1>1. ReleasesCurrent /\ ReleasedGone /\ ResumeIsOver /\ CleanupEnds /\ AcksNeverGap
  BY DEF ReleaseOK
<1>2. \A x \in 0..Len(subs) : Attached(x)' => Attached(x)
  BY AttachedKept
<1>3. /\ calls[t].state = "sent" /\ Responded(t, kind, s, start, count, code) /\ code # "event_sequence_gap"
      /\ calls[t].kind # "subscribe" => s = calls[t].sub
      /\ calls[t].kind = "unsubscribe" => ~Attached(calls[t].sub)'
  BY DEF Answer
<1>4. /\ \A v \in Activities : v # t => calls'[v] = calls[v]
      /\ calls'[t].state = "done" /\ calls'[t].sub = s /\ calls'[t].ahead = calls[t].ahead /\ calls'[t].code = code
  BY <1>3 DEF Responded
<1>5. est["recovery"].pc = "unsubscribing" /\ calls["recovery"].state = "sent" => calls["recovery"].kind = "unsubscribe"
  <2>1. Awaited(Where("recovery"), calls["recovery"]) /\ Where("recovery") = est["recovery"].pc
    BY PairRuns DEF RequestsOK, AwaitedOK, Where
  <2> QED BY <2>1 DEF Awaited, Asks
<1>6. est["recovery"].pc = "unsubscribing" => calls'["recovery"].sub = calls["recovery"].sub
  BY <1>3, <1>4, <1>5, PairRuns
<1>a. ReleasesCurrent'
  BY <1>1, <1>6 DEF ReleasesCurrent
<1>b. ReleasedGone'
  <2> SUFFICES ASSUME est["recovery"].pc = "unsubscribing", calls'["recovery"].state = "done", up
               PROVE  ~Attached(calls["recovery"].sub)'
    BY DEF ReleasedGone, Detached
  <2>1. CASE t = "recovery"
    BY <1>3, <1>5, <2>1
  <2>2. CASE t # "recovery"
    <3>1. calls'["recovery"] = calls["recovery"]
      BY <1>4, <2>2, PairRuns
    <3>2. ~Attached(calls["recovery"].sub)
      BY <1>1, <3>1 DEF ReleasedGone, Detached
    <3>3. calls["recovery"].sub \in 0..Len(subs)
      BY PairRuns DEF TypeOK, ChannelTypeOK
    <3> QED BY <1>2, <3>1, <3>2, <3>3 DEF Attached
  <2> QED BY <2>1, <2>2
<1>c. ResumeIsOver'
  <2>1. curSub \in 0..Len(subs)
    BY DEF TypeOK, ViewTypeOK
  <2>2. Detached(curSub) => Detached(curSub)'
    BY <1>2, <2>1 DEF Detached, Attached
  <2> QED BY <1>1, <2>2 DEF ResumeIsOver
<1>d. CleanupEnds'
  <2> SUFFICES ASSUME est["main"].pc = "cleaning",
                      curSub # 0 \/ Soft \/ (est["recovery"].pc = "subscribing" /\ "main" \notin calls'["recovery"].ahead)
               PROVE  NoReturn'
    BY DEF CleanupEnds, Soft
  <2>1. calls'["recovery"].ahead = calls["recovery"].ahead
    BY <1>4, PairRuns
  <2>2. NoReturn
    BY <1>1, <2>1 DEF CleanupEnds
  <2>3. Doomed => Doomed'
    BY AnswerDoomed
  <2> QED BY <2>2, <2>3 DEF NoReturn
<1>e. AcksNeverGap'
  BY <1>1, <1>3, <1>4, PairRuns DEF AcksNeverGap
<1> QED BY <1>a, <1>b, <1>c, <1>d, <1>e DEF ReleaseOK

LEMMA ReleaseKept ==
    ASSUME TypeOK, RequestsOK, ReleaseOK, SubsKept, UNCHANGED <<conn, up, est, curSub, calls>>
    PROVE  ReleaseOK'
<1>1. ReleasesCurrent /\ ReleasedGone /\ ResumeIsOver /\ CleanupEnds /\ AcksNeverGap
  BY DEF ReleaseOK
<1>2. \A x \in 0..Len(subs) : Attached(x)' => Attached(x)
  BY AttachedKept
<1>3. /\ calls["recovery"].sub \in 0..Len(subs) /\ calls["main"].sub \in 0..Len(subs) /\ curSub \in 0..Len(subs)
      /\ calls'["recovery"].sub = calls["recovery"].sub /\ calls'["main"].sub = calls["main"].sub
  BY PairRuns DEF TypeOK, ChannelTypeOK, ViewTypeOK
<1>4. /\ Attached(calls["recovery"].sub)' => Attached(calls["recovery"].sub)
      /\ Attached(calls["main"].sub)' => Attached(calls["main"].sub)
      /\ Attached(curSub)' => Attached(curSub)
  BY <1>2, <1>3 DEF Attached
<1>5. ReleasesCurrent' /\ ReleasedGone' /\ ResumeIsOver' /\ AcksNeverGap'
  BY <1>1, <1>4 DEF ReleasesCurrent, ReleasedGone, ResumeIsOver, AcksNeverGap, Detached
<1>6. CleanupEnds'
  BY <1>1, <1>4 DEF CleanupEnds, NoReturn, Doomed, Soft
<1> QED BY <1>5, <1>6 DEF ReleaseOK

OrderInv == ~closed => QueueOK /\ ReleaseOK

LEMMA OrderDaemon ==
    ASSUME TypeOK, RequestsOK, OrderInv, DaemonStep
    PROVE  OrderInv'
<1>0. /\ SubsKept /\ UNCHANGED <<conn, up, est, curSub, closed, gen, bound, chain, stage>>
      /\ calls' = calls \/ \E t \in Activities : \E kind, s, start, count, code : Answer(t, kind, s, start, count, code)
  BY DaemonEffect DEF view
<1> SUFFICES ASSUME ~closed PROVE QueueOK' /\ ReleaseOK'
  BY <1>0 DEF OrderInv
<1>1. QueueOK /\ ReleaseOK
  BY DEF OrderInv
<1>2. CASE calls' = calls
  <2>1. QueueOK'
    BY <1>0, <1>1, <1>2, QueueKept
  <2>2. ReleaseOK'
    BY <1>0, <1>1, <1>2, ReleaseKept
  <2> QED BY <2>1, <2>2
<1>3. ASSUME NEW t \in Activities, NEW kind, NEW s, NEW start, NEW count, NEW code, Answer(t, kind, s, start, count, code)
      PROVE  QueueOK' /\ ReleaseOK'
  <2>1. \A v \in Activities : calls'[v].ahead = calls[v].ahead
    BY <1>3 DEF Answer, Responded
  <2>2. QueueOK'
    BY <1>0, <1>1, <2>1, QueueKept
  <2>3. ReleaseOK'
    BY <1>0, <1>1, <1>3, ReleaseAnswer
  <2> QED BY <2>2, <2>3
<1> QED BY <1>0, <1>2, <1>3

\* The daemon and the connection stay, and so do the other requests.
Aside(t) == /\ UNCHANGED <<subs, conn, up>> /\ \A v \in Activities : v # t => Waits(v, t) /\ calls'[v].state = calls[v].state

LEMMA AsideCases ==
    ASSUME UNCHANGED <<subs, conn, up>>, NEW t,
           \/ calls' = calls \/ IsTaken(t)
           \/ \E kind, s, start, c : Requested(t, t, kind, s, start, c)
    PROVE  Aside(t)
<1>1. \A v \in Activities : v # t => Waits(v, t)
  BY AllWait
<1>2. \A v \in Activities : v # t => calls'[v].state = calls[v].state
  BY DEF IsTaken, Requested, Same
<1> QED BY <1>1, <1>2 DEF Aside

\* A run that is subscribing with its response first: what it installs disturbs nobody.
LEMMA FirstInstalls ==
    ASSUME TypeOK, ShapeInv, QueueOK, est["main"].pc = "subscribing", calls["main"].ahead = {}
    PROVE  est["recovery"].pc # "unsubscribing" /\ (est["main"].how = "resume" => est["recovery"].pc = "idle")
<1>1. SupersededAhead("main") /\ ReleaseFirst /\ ResumesAlone
  BY PairRuns DEF QueueOK
<1>2. est["main"].how = "resume" => est["recovery"].pc = "idle"
  BY <1>1 DEF ResumesAlone, Loading
<1>3. CASE est["main"].gen # gen
  BY <1>1, <1>2, <1>3, Others DEF SupersededAhead, Waiting
<1>4. CASE est["main"].gen = gen
  <2>1. Current("main")
    BY <1>4 DEF Current, Running, Loading
  <2> QED BY <1>1, <1>2, <2>1 DEF ReleaseFirst
<1> QED BY <1>3, <1>4

\* Run t moves on within its generation.
LEMMA OrderGoes ==
    ASSUME TypeOK, RequestsOK, ShapeInv, QueueOK, ReleaseOK, NEW t \in Pair, Only(t), Within, bound' \in {bound, "nobody"}, Aside(t),
           est[t].pc \in Running, est[t].pc = "subscribing" => calls[t].ahead = {},
           est'[t].pc \in Running \cup {"idle"},
           est'[t].pc \in Running => est'[t].gen = est[t].gen /\ est'[t].how = est[t].how,
           est'[t].pc \in Loading => est[t].pc \in Loading,
           est'[t].pc \in Waiting => est'[t].gen = gen,
           est'[t].pc = "subscribing" => est[t].pc = "subscribing" /\ curSub' = curSub,
           curSub' \in {0, curSub} \/ est[t].pc = "subscribing"
    PROVE  QueueOK' /\ ReleaseOK'
<1>0. /\ \A pc \in Running \cup {"idle"} : pc # "unsubscribing" /\ pc # "cleaning"
      /\ "idle" \notin Running
  BY DEF Running, Loading, Draining
<1>1. QueueOK'
  <2>1. \A v \in Activities : v # t => Waits(v, t)
    BY DEF Aside
  <2>2. est'[t].pc \in Running => est[t].pc \in Running /\ est'[t].gen = est[t].gen /\ est'[t].how = est[t].how
    OBVIOUS
  <2>3. est[t].pc \notin {"unsubscribing", "idle"} /\ est'[t].pc # "unsubscribing"
    BY <1>0
  <2> QED BY <2>1, <2>2, <2>3, QueueWithin
<1>2. CASE t = "main"
  <2>1. /\ UNCHANGED <<subs, conn>> /\ Waits("recovery", "main") /\ Waits("delivery", "main") /\ up' = up
        /\ calls'["recovery"].state = calls["recovery"].state /\ calls'["delivery"].state = calls["delivery"].state
    BY <1>2, PairRuns DEF Aside
  <2>2. \/ curSub' \in {0, curSub}
        \/ est["recovery"].pc # "unsubscribing" /\ (est["main"].how = "resume" => est["recovery"].pc = "idle")
    BY <1>2, FirstInstalls
  <2>3. est'["main"].pc # "cleaning"
    BY <1>0, <1>2
  <2> QED BY <1>1, <1>2, <2>1, <2>2, <2>3, ReleaseMain
<1>3. CASE t = "recovery"
  <2>1. /\ UNCHANGED <<subs, conn, up>> /\ Waits("main", "recovery") /\ Waits("delivery", "recovery")
        /\ calls'["delivery"].state = calls["delivery"].state
    BY <1>3, PairRuns DEF Aside
  <2>2. est["recovery"].pc # "unsubscribing" /\ est'["recovery"].pc # "unsubscribing" /\ est'["recovery"].pc # "cleaning"
    BY <1>0, <1>3
  <2>3. est'["recovery"].pc = "subscribing" => est["recovery"].pc = "subscribing" /\ calls["recovery"].ahead = {} /\ curSub' = curSub
    BY <1>3
  <2>4. curSub' \in {0, curSub} \/ (est["recovery"].pc = "subscribing" /\ calls["recovery"].ahead = {})
    BY <1>3
  <2>5. ReleaseOK'
    BY <1>3, <2>1, <2>2, <2>3, <2>4, ReleaseRecovery
  <2> QED BY <1>1, <2>5
<1> QED BY <1>2, <1>3 DEF Pair

\* establish() throws.
LEMMA OrderThrow ==
    ASSUME TypeOK, RequestsOK, ShapeInv, QueueOK, ReleaseOK, NEW t \in Pair, ThrowEffect(t), Within, bound' \in {bound, "nobody"},
           UNCHANGED <<subs, conn, curSub>>, est[t].pc \in {"subscribing", "cleaning"},
           est[t].pc = "subscribing" => calls[t].ahead = {}
    PROVE  QueueOK' /\ ReleaseOK'
<1>1. Only(t) /\ est'[t].pc = "idle"
  BY DEF ThrowEffect, Moves, Only
<1>2. \A v \in Activities : v # t => Waits(v, t)
  BY AllWait DEF ThrowEffect
<1>3. "idle" \notin Running /\ "idle" \notin Loading /\ "idle" \notin Waiting
  BY DEF Running, Loading, Draining, Waiting
<1>4. QueueOK'
  BY <1>1, <1>2, <1>3, QueueWithin
<1>5. CASE t = "main"
  <2>1. Waits("recovery", "main") /\ Waits("delivery", "main")
    BY <1>2, <1>5, PairRuns
  <2>2. ~up' /\ (calls["delivery"].state = "none" => calls'["delivery"].state = "none")
    BY <1>5, PairRuns, NoCallFields DEF ThrowEffect, IsFailed
  <2> QED BY <1>1, <1>3, <1>4, <1>5, <2>1, <2>2, ReleaseMain
<1>6. CASE t = "recovery"
  <2>1. Waits("main", "recovery") /\ Waits("delivery", "recovery")
    BY <1>2, <1>6, PairRuns
  <2>2. up' = up /\ (calls["delivery"].state = "none" => calls'["delivery"].state = "none")
    BY <1>6, PairRuns DEF ThrowEffect, IsTaken, Same
  <2> QED BY <1>1, <1>4, <1>6, <2>1, <2>2, ReleaseRecovery
<1> QED BY <1>5, <1>6 DEF Pair

\* What becomes of the unsubscribe request of a reconnect that may resume.
LEMMA CleanupDoomed ==
    ASSUME TypeOK, RequestsOK, ReleaseOK, UNCHANGED <<subs, conn>>, Only("main"), est["main"].pc \in Running, est["main"].how = "resume",
           Requested("main", "main", "unsubscribe", curSub, 0, None), Soft \/ est["recovery"].pc = "subscribing"
    PROVE  Doomed'
<1>0. est'["recovery"] = est["recovery"] /\ (\A s : Attached(s)' <=> Attached(s)) /\ ~Attached(0)
  BY PairRuns, NotAttached DEF Only, Attached, Subs
<1>1. ReleasesCurrent /\ ReleasedGone /\ ResumeIsOver
  BY DEF ReleaseOK
<1>2. /\ calls'["main"].sub = curSub /\ up => calls'["main"].state = "sent"
      /\ ~up => calls'["main"].state = "done" /\ calls'["main"].kind = "error"
  BY DEF Requested
<1>3. ASSUME Detached(curSub) PROVE Doomed'
  <2>1. calls'["main"].sub = curSub
    BY DEF Requested
  <2> QED BY <1>0, <1>2, <1>3, <2>1 DEF Detached, Doomed
<1>4. CASE est["recovery"].pc = "subscribing"
  <2>1. Detached(curSub)
    BY <1>1, <1>4 DEF ResumeIsOver
  <2> QED BY <1>3, <2>1
<1>5. CASE est["recovery"].pc = "unsubscribing"
  <2>1. calls["recovery"].state \in {"sent", "done"}
    <3>1. calls["recovery"].state # "none" /\ calls["recovery"].state \in {"none", "sent", "done"}
      BY <1>5, HasCall, CallTypes, PairRuns
    <3> QED BY <3>1
  <2>2. CASE curSub = 0
    BY <1>0, <1>3, <2>2 DEF Detached
  <2>3. CASE calls["recovery"].sub = curSub /\ calls["recovery"].state = "done"
    BY <1>1, <1>3, <1>5, <2>3 DEF ReleasedGone
  <2>4. CASE calls["recovery"].sub = curSub /\ calls["recovery"].state = "sent" /\ up
    <3>1. calls'["main"].state = "sent" /\ calls'["main"].sub = curSub
      BY <2>4 DEF Requested
    <3>2. "recovery" \in calls'["main"].ahead /\ calls'["recovery"].state = "sent" /\ calls'["recovery"].sub = curSub
      BY <2>4, PairRuns DEF Requested, Same
    <3> QED BY <1>0, <1>5, <3>1, <3>2 DEF Doomed
  <2>5. CASE ~up
    BY <1>3, <2>5 DEF Detached
  <2> QED BY <1>1, <1>5, <2>1, <2>2, <2>3, <2>4, <2>5 DEF ReleasesCurrent
<1> QED BY <1>4, <1>5 DEF Soft

LEMMA OrderCleanup ==
    ASSUME TypeOK, RequestsOK, ShapeInv, QueueOK, ReleaseOK, NEW t \in Pair, NEW code, CleanupEffect(t, code), Within,
           UNCHANGED <<subs, conn>>, est[t].pc \in Running \ {"subscribing"}
    PROVE  QueueOK' /\ ReleaseOK'
<1>1. Only(t) /\ est'[t].pc = "cleaning" /\ bound' = "nobody" /\ curSub' = 0 /\ est'[t].how = est[t].how
  BY DEF CleanupEffect, Moves, Only
<1>2. Aside(t)
  BY AsideCases DEF CleanupEffect
<1>3. "cleaning" \notin Running /\ "cleaning" \notin Loading /\ "cleaning" \notin Waiting /\ "unsubscribing" \notin Running /\ "idle" \notin Running
  BY DEF Running, Loading, Draining, Waiting
<1>4. QueueOK'
  BY <1>1, <1>2, <1>3, QueueWithin DEF Aside
<1>5. CASE t = "main"
  <2>1. /\ UNCHANGED <<subs, conn>> /\ Waits("recovery", "main") /\ Waits("delivery", "main") /\ up' = up
        /\ calls'["recovery"].state = calls["recovery"].state /\ calls'["delivery"].state = calls["delivery"].state
    BY <1>2, <1>5, PairRuns DEF Aside
  <2>2. Soft \/ est["recovery"].pc = "subscribing" => NoReturn'
    <3> SUFFICES ASSUME Soft \/ est["recovery"].pc = "subscribing", est["main"].how # "snapshot" PROVE NoReturn'
      BY <1>1, <1>5 DEF NoReturn
    <3>1. est["main"].how = "resume"
      BY PairRuns DEF TypeOK, ViewTypeOK, Run
    <3>2. Doomed'
      BY <1>1, <1>5, <2>1, <3>1, CleanupDoomed DEF CleanupEffect
    <3> QED BY <3>2 DEF NoReturn
  <2> QED BY <1>1, <1>3, <1>4, <1>5, <2>1, <2>2, ReleaseMain
<1>6. CASE t = "recovery"
  <2>1. /\ UNCHANGED <<subs, conn, up>> /\ Waits("main", "recovery") /\ Waits("delivery", "recovery")
        /\ calls'["delivery"].state = calls["delivery"].state
    BY <1>2, <1>6, PairRuns DEF Aside
  <2> QED BY <1>1, <1>3, <1>4, <1>6, <2>1, ReleaseRecovery
<1> QED BY <1>5, <1>6 DEF Pair

LEMMA OrderLoad ==
    ASSUME TypeOK, RequestsOK, ShapeInv, QueueOK, ReleaseOK, NEW t \in Pair, LoadEffect(t), Within, bound' = bound,
           UNCHANGED <<subs, conn, up>>, est[t].pc \in {"subscribing", "paging"}, calls[t].ahead = {},
           curSub' = curSub \/ est[t].pc = "subscribing"
    PROVE  QueueOK' /\ ReleaseOK'
<1>0. Only(t) /\ est[t].pc \in Running /\ est[t].pc \in Loading
  BY OnlyLoads DEF Running, Loading
<1>1. Aside(t)
  <2>1. IsTaken(t) \/ \E kind, s, start, c : Requested(t, t, kind, s, start, c)
    BY DEF LoadEffect, Stops
  <2> QED BY <2>1, AsideCases
<1>2. \/ est'[t].pc = "bounding" /\ est'[t].gen = est[t].gen /\ est'[t].how = est[t].how /\ est[t].gen = gen
      \/ est'[t].pc = "paging" /\ est'[t].gen = est[t].gen /\ est'[t].how = est[t].how
      \/ est'[t].pc = "idle"
  BY DEF LoadEffect, Keeps, Stops, Moves, Fresh
<1>3. /\ est'[t].pc \in Running \cup {"idle"}
      /\ est'[t].pc \in Running => est'[t].gen = est[t].gen /\ est'[t].how = est[t].how
      /\ est'[t].pc \in Waiting => est'[t].gen = gen
      /\ est'[t].pc # "subscribing"
  BY <1>2 DEF Running, Loading, Waiting, Draining
<1> QED BY <1>0, <1>1, <1>3, OrderGoes

\* OrderGoes for a step to a stage that awaits nothing, or out.
LEMMA OrderMoves ==
    ASSUME TypeOK, RequestsOK, ShapeInv, QueueOK, ReleaseOK, NEW t \in Pair, Only(t), Within, bound' = bound,
           UNCHANGED <<subs, conn, up>>, calls' = calls \/ IsTaken(t) \/ \E kind, s, start, c : Requested(t, t, kind, s, start, c),
           est[t].pc \in Running, est[t].pc = "subscribing" => calls[t].ahead = {},
           \/ est'[t].pc = "idle"
           \/ est'[t].pc \in {"draining", "reduced"} /\ est'[t].gen = est[t].gen /\ est'[t].how = est[t].how
           \/ est'[t].pc = "acking" /\ est'[t].gen = est[t].gen /\ est'[t].how = est[t].how /\ est[t].gen = gen,
           curSub' = curSub \/ est[t].pc = "subscribing"
    PROVE  QueueOK' /\ ReleaseOK'
<1>1. Aside(t)
  BY AsideCases
<1>2. /\ est'[t].pc \in Running \cup {"idle"} /\ est'[t].pc \notin Loading
      /\ est'[t].pc \in Running => est'[t].gen = est[t].gen /\ est'[t].how = est[t].how
      /\ est'[t].pc \in Waiting => est'[t].gen = gen
      /\ est'[t].pc # "subscribing"
  BY DEF Running, Loading, Waiting, Draining
<1> QED BY <1>1, <1>2, OrderGoes

\* A run begins anew after the cleanup.
LEMMA OrderRestart ==
    ASSUME TypeOK, RequestsOK, ShapeInv, QueueOK, ReleaseOK, NEW t \in Pair, est[t].pc = "cleaning", Answered(t, "unsubscribed"),
           est[t].how = "resume", est[t].code \in CursorErrors, EstablishEffect(t, t, gen + 1, "snapshot", {}, None),
           UNCHANGED <<subs, conn, up, chain, stage>>
    PROVE  QueueOK' /\ ReleaseOK'
<1>0. gen + 1 \in Nat /\ gen < gen + 1 /\ t \in Activities /\ Offer("snapshot", {}, None) = None
  BY GenTypes, PairRuns DEF Offer
<1>1. ResumesAlone /\ ResumeIsOver /\ CleanupEnds /\ SentRun("main") /\ SentRun("recovery")
  BY PairRuns DEF QueueOK, ReleaseOK, ShapeInv, SentOK
<1>2. \A v \in Pair : est[v].how \in {"resume", "snapshot"}
  BY PairRuns DEF TypeOK, ViewTypeOK, Run
<1>3. CASE t = "main"
  <2>1. ~NoReturn
    BY <1>3 DEF NoReturn, Doomed, Answered
  <2>2. est["recovery"].pc = "subscribing" => est["recovery"].cursor = None
    BY <1>1, <1>2, <1>3, <2>1, PairRuns DEF CleanupEnds, Soft, SentRun
  <2>3. QueueOK'
    BY <1>0, <1>3, <2>2, Others, QueueEstablish
  <2>4. ReleaseOK'
    BY <1>0, <1>3, ReleaseEstablish
  <2> QED BY <2>3, <2>4
<1>4. CASE t = "recovery"
  <2>1. ~(est["main"].pc \in Loading /\ est["main"].how = "resume")
    BY <1>1, <1>4 DEF ResumesAlone
  <2>2. est["main"].pc = "subscribing" => est["main"].cursor = None
    BY <1>1, <1>2, <2>1, PairRuns DEF SentRun, Loading
  <2>3. QueueOK'
    BY <1>0, <1>4, <2>1, <2>2, Others, QueueEstablish
  <2>4. est["main"].pc \in Running /\ est["main"].how = "resume" => Detached(curSub)
    BY <1>1, <1>4 DEF ResumeIsOver
  <2>5. calls["recovery"].state # "sent"
    BY <1>4 DEF Answered
  <2>6. ReleaseOK'
    BY <1>0, <1>4, <2>4, <2>5, ReleaseEstablish
  <2> QED BY <2>3, <2>6
<1> QED BY <1>3, <1>4 DEF Pair

LEMMA OrderRuns ==
    ASSUME TypeOK, FramesOK, RequestsOK, ShapeInv, QueueOK, ReleaseOK, ~closed, NEW t \in Pair, EstablishNext(t)
    PROVE  QueueOK' /\ ReleaseOK'
<1>0. t \in {"main", "recovery"} /\ t \in Activities
  BY PairRuns DEF Pair
<1>c. {"subscribing", "paging", "bounding", "draining", "reduced", "acking"} \subseteq Running
  BY DEF Running, Loading, Draining
<1>1. CASE OnSnapshot(t)
  <2>1. /\ LoadEffect(t) /\ Within /\ bound' = bound /\ est[t].pc = "subscribing" /\ calls[t].ahead = {}
        /\ UNCHANGED <<subs, conn, up>>
    BY <1>0, <1>1, OnSnapshotFacts DEF Received, Answered, Within, daemon
  <2> QED BY <2>1, OrderLoad
<1>2. CASE OnPage(t)
  <2>1. /\ Within /\ est[t].pc = "paging" /\ calls[t].ahead = {} /\ UNCHANGED <<subs, conn, up>>
        /\ CleanupEffect(t, "missing_parent") \/ (LoadEffect(t) /\ bound' = bound /\ curSub' = curSub)
    BY <1>0, <1>2, OnPageFacts DEF Received, Answered, Within, daemon
  <2> QED BY <1>c, <2>1, OrderLoad, OrderCleanup
<1>3. CASE OnResumed(t)
  <2>1. /\ Within /\ bound' = bound /\ IsTaken(t) /\ est[t].pc = "subscribing" /\ calls[t].ahead = {}
        /\ UNCHANGED <<subs, conn, up>> /\ (Keeps(t, "draining") \/ Stops(t))
    BY <1>0, <1>3, OnResumedFacts DEF Received, Answered, Within, daemon
  <2>2. /\ Only(t)
        /\ est'[t].pc = "idle" \/ (est'[t].pc = "draining" /\ est'[t].gen = est[t].gen /\ est'[t].how = est[t].how)
    BY <2>1 DEF Keeps, Stops, Moves, Only
  <2>3. IsTaken(t) /\ Within /\ bound' = bound /\ UNCHANGED <<subs, conn, up>>
    BY <1>0, <1>3, OnResumedFacts DEF Within, daemon
  <2> QED BY <1>c, <2>1, <2>2, <2>3, OrderMoves
<1>4. CASE OnBoundary(t)
  <2>1. /\ Within /\ bound' = bound /\ IsTaken(t) /\ est[t].pc = "bounding" /\ curSub' = curSub
        /\ UNCHANGED <<subs, conn, up>> /\ (Keeps(t, "draining") \/ Stops(t))
    BY <1>0, <1>4, OnBoundaryFacts DEF Received, Answered, Within, daemon
  <2>2. /\ Only(t)
        /\ est'[t].pc = "idle" \/ (est'[t].pc = "draining" /\ est'[t].gen = est[t].gen /\ est'[t].how = est[t].how)
    BY <2>1 DEF Keeps, Stops, Moves, Only
  <2> QED BY <1>c, <2>1, <2>2, OrderMoves
<1>5. CASE OnRefused(t)
  <2>1. /\ Within /\ est[t].pc = "subscribing" /\ calls[t].ahead = {} /\ UNCHANGED <<subs, conn, curSub>>
        /\ \/ /\ Moves(t, "subscribing", est[t].gen, est[t].how, None, est[t].pending, est[t].code)
              /\ est[t].cursor # None
              /\ Requested(t, t, "subscribe", 0, 0, None) /\ bound' = bound /\ up' = up
           \/ bound' = "nobody" /\ ThrowEffect(t)
    BY <1>0, <1>5, OnRefusedFacts DEF Received, Answered, Within, daemon
  <2>2. CASE bound' = "nobody" /\ ThrowEffect(t)
    BY <2>1, <2>2, OrderThrow
  <2>3. CASE /\ Moves(t, "subscribing", est[t].gen, est[t].how, None, est[t].pending, est[t].code)
             /\ est[t].cursor # None
             /\ Requested(t, t, "subscribe", 0, 0, None) /\ bound' = bound /\ up' = up
    <3>1. Only(t) /\ est'[t].pc = "subscribing" /\ est'[t].gen = est[t].gen /\ est'[t].how = est[t].how
      BY <2>3 DEF Moves, Only
    <3>2. est[t].gen = gen
      BY <2>1, <2>3 DEF QueueOK, SupersededLoads
    <3>3. Aside(t)
      BY <2>1, <2>3, AsideCases
    <3>4. est'[t].pc \in Running \cup {"idle"}
      BY <1>c, <3>1
    <3> QED BY <1>c, <2>1, <2>3, <3>1, <3>2, <3>3, <3>4, OrderGoes
  <2> QED BY <2>1, <2>2, <2>3
<1>6. CASE OnLoadError(t)
  <2>1. /\ CleanupEffect(t, calls[t].code) /\ Within /\ UNCHANGED <<subs, conn>> /\ est[t].pc \in {"paging", "bounding", "acking"}
    BY <1>0, <1>6, OnLoadErrorFacts DEF Within, daemon, Received
  <2> QED BY <1>c, <2>1, OrderCleanup
<1>7. CASE OnCleaned(t)
  <2>1. /\ UNCHANGED <<subs, conn, chain, stage>> /\ est[t].pc = "cleaning" /\ Answered(t, "unsubscribed")
        /\ \/ EstablishEffect(t, t, gen + 1, "snapshot", {}, None) /\ est[t].how = "resume" /\ est[t].code \in CursorErrors /\ up' = up
           \/ ThrowEffect(t) /\ UNCHANGED <<gen, bound, curSub>>
    BY <1>0, <1>7, OnCleanedFacts DEF view, daemon, Received
  <2> QED BY <2>1, OrderRestart, OrderThrow DEF Within
<1>8. CASE OnCleanupFailed(t)
  <2>1. ThrowEffect(t) /\ Within /\ bound' = bound /\ UNCHANGED <<subs, conn, curSub>> /\ est[t].pc = "cleaning"
    BY <1>0, <1>8, OnCleanupFailedFacts DEF view, Within, daemon, Received
  <2> QED BY <2>1, OrderThrow
<1>9. CASE DrainSkip(t)
  <2>1. /\ est[t].pc = "draining" /\ Within /\ bound' = bound /\ calls' = calls /\ UNCHANGED <<subs, conn, up, curSub>>
        /\ Moves(t, "draining", est[t].gen, est[t].how, est[t].cursor, Tail(est[t].pending), est[t].code)
    BY <1>0, <1>9, DrainSkipFacts DEF view, channel, Within, Drains, daemon
  <2>2. Only(t) /\ est'[t].pc = "draining" /\ est'[t].gen = est[t].gen /\ est'[t].how = est[t].how
    BY <2>1 DEF Moves, Only
  <2> QED BY <1>c, <2>1, <2>2, OrderMoves
<1>10. CASE DrainReduce(t)
  <2>1. /\ est[t].pc = "draining" /\ Within /\ UNCHANGED <<subs, conn, up>>
        /\ \/ Keeps(t, "reduced") /\ calls' = calls /\ bound' = bound /\ curSub' = curSub
           \/ CleanupEffect(t, Rejected(Held(t)))
    BY <1>0, <1>10, DrainReduceFacts DEF Within, Drains, daemon
  <2>2. CASE CleanupEffect(t, Rejected(Held(t)))
    BY <1>c, <2>1, <2>2, OrderCleanup
  <2>3. CASE Keeps(t, "reduced") /\ calls' = calls /\ bound' = bound /\ curSub' = curSub
    <3>2. Only(t) /\ est'[t].pc = "reduced" /\ est'[t].gen = est[t].gen /\ est'[t].how = est[t].how
      BY <2>3 DEF Moves, Only, Keeps
    <3> QED BY <1>c, <2>1, <2>3, <3>2, OrderMoves
  <2> QED BY <2>1, <2>2, <2>3
<1>11. CASE DrainAck(t)
  <2>1. /\ est[t].pc = "reduced" /\ Within /\ bound' = bound /\ UNCHANGED <<subs, conn, up, curSub>>
        /\ \/ Keeps(t, "acking") /\ Requested(t, t, "ack", Held(t).sub, 0, HeldCursor(t)) /\ est[t].gen = gen
           \/ /\ calls' = calls
              /\ Moves(t, "draining", est[t].gen, est[t].how, est[t].cursor, Tail(est[t].pending), est[t].code)
    BY <1>0, <1>11, DrainAckFacts DEF Within, daemon, Fresh
  <2>2. /\ Only(t) /\ est'[t].gen = est[t].gen /\ est'[t].how = est[t].how
        /\ est'[t].pc = "draining" \/ (est'[t].pc = "acking" /\ est[t].gen = gen)
    BY <2>1 DEF Moves, Only, Keeps
  <2>3. calls' = calls \/ \E kind, s, start, c : Requested(t, t, kind, s, start, c)
    BY <2>1
  <2> QED BY <1>c, <2>1, <2>2, <2>3, OrderMoves
<1>12. CASE OnDrainAcked(t)
  <2>1. /\ est[t].pc = "acking" /\ Within /\ bound' = bound /\ IsTaken(t) /\ UNCHANGED <<subs, conn, up, curSub>>
        /\ Moves(t, "draining", est[t].gen, est[t].how, est[t].cursor, Tail(est[t].pending), est[t].code)
    BY <1>0, <1>12, OnDrainAckedFacts DEF Within, Received, daemon
  <2>2. Only(t) /\ est'[t].pc = "draining" /\ est'[t].gen = est[t].gen /\ est'[t].how = est[t].how
    BY <2>1 DEF Moves, Only
  <2> QED BY <1>c, <2>1, <2>2, OrderMoves
<1>13. CASE Established(t)
  <2>1. /\ est[t].pc = "draining" /\ Within /\ bound' = bound /\ calls' = calls /\ UNCHANGED <<subs, conn, up, curSub>>
        /\ Moves(t, "idle", 0, "resume", None, <<>>, "")
    BY <1>0, <1>13, EstablishedFacts DEF channel, Within, Drains, daemon
  <2>2. Only(t) /\ est'[t].pc = "idle"
    BY <2>1 DEF Moves, Only
  <2> QED BY <1>c, <2>1, <2>2, OrderMoves
<1> QED BY <1>1, <1>2, <1>3, <1>4, <1>5, <1>6, <1>7, <1>8, <1>9, <1>10, <1>11, <1>12, <1>13 DEF EstablishNext

\* What a step of the chain leaves of the runs' requests.
LEMMA ChainWaits ==
    ASSUME calls' = calls \/ IsTaken("delivery") \/ \E kind, s, start, c : Requested("delivery", "delivery", kind, s, start, c)
    PROVE  \A v \in Pair : Waits(v, "delivery") /\ calls'[v].state = calls[v].state /\ calls'[v].kind = calls[v].kind
<1>1. \A v \in Activities : v # "delivery" => Waits(v, "delivery") /\ calls'[v].state = calls[v].state /\ calls'[v].kind = calls[v].kind
  <2>1. \A v \in Activities : v # "delivery" => Waits(v, "delivery")
    BY AllWait
  <2> QED BY <2>1 DEF IsTaken, Requested, Same
<1> QED BY <1>1, PairRuns

LEMMA CodeKept ==
    ASSUME AcksNeverGap, calls' = calls \/ IsTaken("delivery") \/ \E kind, s, start, c : Requested("delivery", "delivery", kind, s, start, c)
    PROVE  AcksNeverGap'
<1>1. CASE calls' = calls
  BY <1>1 DEF AcksNeverGap
<1>2. CASE IsTaken("delivery")
  BY <1>2, PairRuns, NoCallFields DEF AcksNeverGap, IsTaken
<1>3. CASE \E kind, s, start, c : Requested("delivery", "delivery", kind, s, start, c)
  BY <1>3 DEF AcksNeverGap, Requested
<1> QED BY <1>1, <1>2, <1>3

\* The chain moves on and the runs stay.
LEMMA OrderChain ==
    ASSUME TypeOK, RequestsOK, ShapeInv, QueueOK, ReleaseOK, UNCHANGED <<subs, conn, up, curSub, est, gen>>, bound' \in {"nobody", bound},
           calls' = calls \/ IsTaken("delivery") \/ \E kind, s, start, c : Requested("delivery", "delivery", kind, s, start, c),
           chain # <<>>, chain' = Tail(chain) \/ chain' = chain, stage' = "acking" => chain'[1].gen = gen
    PROVE  QueueOK' /\ ReleaseOK'
<1>1. \A v \in Pair : Waits(v, "delivery") /\ calls'[v].state = calls[v].state /\ calls'[v].kind = calls[v].kind
  BY ChainWaits
<1>2. \A i \in 1..Len(chain') : chain'[i].gen = gen => \E j \in 1..Len(chain) : Now(j)
  <2>1. CASE chain' = chain
    BY <2>1 DEF Now
  <2>2. CASE chain' = Tail(chain)
    <3>1. /\ Len(chain') = Len(chain) - 1 /\ Len(chain) \in Nat
          /\ \A i \in 1..(Len(chain) - 1) : chain'[i] = chain[i + 1]
      BY <2>2, ChainFacts
    <3> SUFFICES ASSUME NEW i \in 1..Len(chain'), chain'[i].gen = gen PROVE \E j \in 1..Len(chain) : Now(j)
      OBVIOUS
    <3>2. i + 1 \in 1..Len(chain) /\ chain'[i] = chain[i + 1]
      BY <3>1
    <3> QED BY <3>2 DEF Now
  <2> QED BY <2>1, <2>2
<1>3. QueueOK'
  BY <1>1, <1>2, QueueSame
<1>4. ReleaseOK'
  <2>1. AcksNeverGap'
    BY CodeKept DEF ReleaseOK
  <2> QED BY <1>1, <2>1, ReleaseChain
<1> QED BY <1>3, <1>4

LEMMA OrderFailing ==
    ASSUME TypeOK, RequestsOK, ShapeInv, QueueOK, ReleaseOK, ~closed, NEW code, FailedEffect(code), Now(1),
           UNCHANGED <<subs, conn, up>>, chain # <<>>, chain' = Tail(chain), stage' = "next",
           curSub = 0 => code # "event_sequence_gap"
    PROVE  QueueOK' /\ ReleaseOK'
<1>0. "delivery" \in Activities /\ "recovery" \in Pair /\ "main" \in Pair /\ "delivery" # "recovery" /\ 1 \in 1..Len(chain)
  BY PairRuns, ChainFacts
<1>1. PICK how : how = RecoverHow(code)
  OBVIOUS
<1>2. \/ IsTaken("delivery") /\ est' = est /\ gen' = gen /\ bound' \in {"nobody", bound} /\ curSub' = curSub
      \/ /\ gen' = gen + 1 /\ bound' = "nobody" /\ Moves("recovery", "unsubscribing", 0, how, None, <<>>, "")
         /\ Requested("delivery", "recovery", "unsubscribe", curSub, 0, None)
         /\ curSub # 0 /\ curSub' = curSub /\ est["recovery"].pc = "idle"
      \/ /\ EstablishEffect("delivery", "recovery", gen + 2, how, proj, acked)
         /\ curSub = 0 /\ est["recovery"].pc = "idle"
  BY <1>1 DEF FailedEffect, RecoverEffect, view
<1>3. CASE IsTaken("delivery") /\ est' = est /\ gen' = gen /\ bound' \in {"nobody", bound} /\ curSub' = curSub
  BY <1>3, OrderChain
<1>4. CASE /\ gen' = gen + 1 /\ bound' = "nobody" /\ Moves("recovery", "unsubscribing", 0, how, None, <<>>, "")
           /\ Requested("delivery", "recovery", "unsubscribe", curSub, 0, None)
           /\ curSub # 0 /\ curSub' = curSub /\ est["recovery"].pc = "idle"
  <2>1. Only("recovery") /\ est'["recovery"].pc = "unsubscribing"
    BY <1>4, OnlyMoves
  <2>2. QueueOK'
    BY <1>4, <2>1, QueueRecover
  <2>3. ReleaseOK'
    BY <1>4, <2>1, ReleaseRecover
  <2> QED BY <2>2, <2>3
<1>5. CASE /\ EstablishEffect("delivery", "recovery", gen + 2, how, proj, acked)
           /\ curSub = 0 /\ est["recovery"].pc = "idle"
  <2>0. gen + 2 \in Nat /\ gen < gen + 2
    BY GenTypes
  <2>1. how = "snapshot" /\ Offer(how, proj, acked) = None
    BY <1>1, <1>5 DEF RecoverHow, Offer
  <2>2. LoadsAlone /\ ResumesAlone /\ SupersededLoads("main")
    BY <1>0 DEF QueueOK
  <2>3. est["main"].pc = "subscribing" => est["main"].cursor = None
    <3>1. Current("main") => est["main"].pc \notin Loading
      BY <1>0, <2>2 DEF LoadsAlone
    <3> QED BY <2>2, <3>1 DEF SupersededLoads, Current, Running, Loading
  <2>4. ~(est["main"].pc \in Loading /\ est["main"].how = "resume")
    BY <2>2 DEF ResumesAlone
  <2>5. QueueOK'
    BY <1>0, <1>5, <2>0, <2>3, <2>4, Others, QueueEstablish
  <2>6. Detached(curSub) /\ calls["recovery"].state # "sent"
    BY <1>0, <1>5, NotAttached, HasCall DEF Detached
  <2>7. ReleaseOK'
    BY <1>0, <1>5, <2>1, <2>6, ReleaseEstablish
  <2> QED BY <2>5, <2>7
<1> QED BY <1>2, <1>3, <1>4, <1>5

LEMMA OrderDeliveries ==
    ASSUME TypeOK, FramesOK, RequestsOK, ShapeInv, QueueOK, ReleaseOK, ~closed,
           DeliverSkip \/ DeliverReduce \/ DeliverFails \/ DeliverAck \/ OnAcked \/ OnAckError
    PROVE  QueueOK' /\ ReleaseOK'
<1>1. CASE DeliverSkip
  <2>1. /\ UNCHANGED <<subs, conn, up, curSub, est, gen, bound, calls, stage>> /\ stage = "next" /\ chain # <<>> /\ chain' = Tail(chain)
    BY <1>1, DeliverSkipFacts DEF channel, view, daemon
  <2> QED BY <2>1, OrderChain
<1>2. CASE DeliverReduce
  <2>1. /\ UNCHANGED <<subs, conn, up, curSub, est, gen, bound, calls, chain>> /\ stage' = "reduced" /\ chain # <<>>
    BY <1>2, DeliverReduceFacts DEF channel, daemon
  <2> QED BY <2>1, OrderChain
<1>3. CASE DeliverFails
  <2>1. /\ chain # <<>> /\ stage = "next" /\ ~Stale(First, Head(chain).gen) /\ FailedEffect(Rejected(First)) /\ chain' = Tail(chain)
        /\ UNCHANGED <<subs, conn, up, stage>>
    BY <1>3, DeliverFailsFacts DEF daemon
  <2>2. First.sub = curSub /\ Now(1)
    BY <2>1, ChainFacts DEF Stale, Fresh, Now
  <2>3. First.sub # 0
    BY <2>1, GoodFirst, GoodFrameFacts
  <2> QED BY <2>1, <2>2, <2>3, OrderFailing
<1>4. CASE DeliverAck
  <2>1. /\ chain # <<>> /\ UNCHANGED <<subs, conn, up, curSub, est, gen, bound>>
        /\ \/ /\ FirstFresh /\ stage' = "acking" /\ Requested("delivery", "delivery", "ack", First.sub, 0, FirstCursor)
              /\ chain' = chain
           \/ stage' = "next" /\ calls' = calls /\ chain' = Tail(chain)
    BY <1>4, DeliverAckFacts DEF daemon
  <2>2. FirstFresh => chain[1].gen = gen
    BY <2>1, ChainFacts DEF FirstFresh, Fresh
  <2>3. calls' = calls \/ \E kind, s, start, c : Requested("delivery", "delivery", kind, s, start, c)
    BY <2>1
  <2> QED BY <2>1, <2>2, <2>3, OrderChain
<1>5. CASE OnAcked
  <2>1. /\ UNCHANGED <<subs, conn, up, curSub, est, gen, bound>> /\ IsTaken("delivery") /\ stage' = "next" /\ chain # <<>> /\ chain' = Tail(chain)
    BY <1>5, OnAckedFacts DEF daemon
  <2> QED BY <2>1, OrderChain
<1>6. CASE OnAckError
  <2>1. /\ stage' = "next" /\ stage = "acking" /\ chain # <<>> /\ chain' = Tail(chain) /\ UNCHANGED <<subs, conn, up>>
        /\ \/ FailedEffect(calls["delivery"].code) /\ Head(chain).gen = gen
           \/ IsTaken("delivery") /\ UNCHANGED <<curSub, est, gen, bound>>
    BY <1>6, OnAckErrorFacts DEF view, daemon
  <2>2. Head(chain).gen = gen => Now(1)
    BY <2>1, ChainFacts DEF Now
  <2>3. calls["delivery"].code # "event_sequence_gap"
    <3>1. calls["delivery"].state # "none"
      BY <2>1, HasCall
    <3> QED BY <3>1 DEF ReleaseOK, AcksNeverGap
  <2>4. CASE FailedEffect(calls["delivery"].code) /\ Head(chain).gen = gen
    BY <2>1, <2>2, <2>3, <2>4, OrderFailing
  <2>5. CASE IsTaken("delivery") /\ UNCHANGED <<curSub, est, gen, bound>>
    BY <2>1, <2>5, OrderChain
  <2> QED BY <2>1, <2>4, <2>5
<1> QED BY <1>1, <1>2, <1>3, <1>4, <1>5, <1>6

LEMMA OrderBegins ==
    ASSUME TypeOK, RequestsOK, ShapeInv, QueueOK, ReleaseOK, Join \/ OnReleased
    PROVE  QueueOK' /\ ReleaseOK'
<1>0. gen + 1 \in Nat /\ gen < gen + 1 /\ "main" \in Pair /\ "recovery" \in Pair /\ "main" \in Activities /\ "recovery" \in Activities
  BY GenTypes, PairRuns
<1>1. CASE Join
  <2>1. /\ chain = <<>> /\ est["recovery"].pc = "idle" /\ EstablishEffect("main", "main", gen + 1, "resume", proj, acked)
        /\ UNCHANGED <<subs, conn, up, chain, stage>>
    BY <1>1, JoinFacts DEF daemon
  <2>2. QueueOK'
    BY <1>0, <2>1, Others, QueueEstablish
  <2>3. ReleaseOK'
    BY <1>0, <2>1, ReleaseEstablish
  <2> QED BY <2>2, <2>3
<1>2. CASE OnReleased
  <2>0. PICK how : how = est["recovery"].how
    OBVIOUS
  <2>1. /\ est["recovery"].pc = "unsubscribing" /\ calls["recovery"].state = "done"
        /\ EstablishEffect("recovery", "recovery", gen + 1, how, proj, acked)
        /\ UNCHANGED <<subs, conn, up, chain, stage>>
    BY <1>2, <2>0, OnReleasedFacts DEF daemon, Received, Answered
  <2>2. ReleaseFirst /\ ResumesAlone /\ SupersededLoads("main") /\ ReleasesCurrent /\ ReleasedGone /\ CleanupEnds
    BY <1>0 DEF QueueOK, ReleaseOK
  <2>3. est["main"].pc = "subscribing" => est["main"].cursor = None
    <3>1. est["main"].pc = "subscribing" /\ est["main"].gen = gen => Current("main")
      BY DEF Current, Running, Loading
    <3> QED BY <2>1, <2>2, <3>1 DEF ReleaseFirst, SupersededLoads
  <2>4. ~(est["main"].pc \in Loading /\ est["main"].how = "resume")
    BY <2>1, <2>2 DEF ResumesAlone
  <2>5. QueueOK'
    BY <1>0, <2>1, <2>3, <2>4, Others, QueueEstablish
  <2>6. Detached(curSub)
    BY <2>1, <2>2, NotAttached DEF ReleasesCurrent, ReleasedGone, Detached
  <2>7. est["main"].pc = "cleaning" /\ Offer(how, proj, acked) # None => NoReturn
    BY <2>0, <2>1, <2>2 DEF Offer, CleanupEnds, Soft
  <2>8. ReleaseOK'
    BY <1>0, <2>1, <2>6, <2>7, ReleaseEstablish
  <2> QED BY <2>5, <2>8
<1> QED BY <1>1, <1>2

LEMMA OrderEvent ==
    ASSUME TypeOK, RequestsOK, ShapeInv, QueueOK, ReleaseOK, NEW s \in Subs, OnEvent(s)
    PROVE  QueueOK' /\ ReleaseOK'
<1>1. EventEffect(s) /\ TypeOK'
  BY OnEventFacts
<1>2. UNCHANGED <<calls, stage, gen, bound, subs, conn, up, curSub>>
  BY <1>1 DEF EventEffect, view, daemon
<1>3. \A v \in Pair : Waits(v, "delivery") /\ calls'[v].state = calls[v].state /\ calls'[v].kind = calls[v].kind /\ Waits(v, "nobody")
  BY <1>2, AllWait, PairRuns
<1>4. \A v \in Runs : /\ est'[v].pc = est[v].pc /\ est'[v].gen = est[v].gen /\ est'[v].how = est[v].how
                      /\ est'[v].cursor = est[v].cursor /\ est'[v].code = est[v].code
  BY <1>1 DEF EventEffect, Moves
<1>5. AcksNeverGap'
  BY <1>2 DEF ReleaseOK, AcksNeverGap
<1>6. ReleaseOK'
  BY <1>2, <1>3, <1>4, <1>5, ReleaseChain
<1>7. CASE ~Takes(s)
  <2>1. chain' = chain
    BY <1>1, <1>7 DEF EventEffect
  <2>2. \A i \in 1..Len(chain') : chain'[i].gen = gen => \E j \in 1..Len(chain) : Now(j)
    BY <2>1 DEF Now
  <2>3. QueueOK'
    BY <1>2, <1>3, <1>4, <2>1, <2>2, QueueSame
  <2> QED BY <1>6, <2>3
<1>8. CASE Takes(s)
  <2>1. Open
    BY <1>8 DEF Takes, Holds, Listens, Open
  <2>2. stage = "acking" => chain'[1] = chain[1]
    <3> SUFFICES ASSUME stage = "acking" PROVE chain'[1] = chain[1]
      OBVIOUS
    <3>1. chain # <<>>
      BY DEF TypeOK, ViewTypeOK
    <3>2. 1 \in 1..Len(chain)
      BY <3>1, ChainFacts
    <3> QED BY <1>1, <1>8, <3>2 DEF EventEffect
  <2>3. QueueOK'
    BY <1>2, <1>3, <1>4, <2>1, <2>2, QueueSame
  <2> QED BY <1>6, <2>3
<1> QED BY <1>7, <1>8

LEMMA OrderConnections ==
    ASSUME TypeOK, RequestsOK, ShapeInv, QueueOK, ReleaseOK, Drop \/ DaemonRestarts \/ Reconnect \/ Rebind
    PROVE  QueueOK' /\ ReleaseOK'
<1>1. CASE Drop \/ DaemonRestarts
  <2>1. IsFailed("nobody") /\ UNCHANGED <<est, stage, gen, bound, chain, curSub>>
    BY <1>1, DropFacts, DaemonRestartsFacts DEF view
  <2>2. \A v \in Activities : Waits(v, "nobody")
    BY <2>1, AllWait, PairRuns
  <2>3. \A v \in Pair : Waits(v, "nobody") /\ Waits(v, "delivery")
    <3> SUFFICES ASSUME NEW v \in Pair PROVE Waits(v, "nobody") /\ Waits(v, "delivery")
      OBVIOUS
    <3>1. Waits(v, "nobody") /\ calls[v].ahead \subseteq Activities /\ "nobody" \notin Activities
      BY <2>2, PairRuns, CallTypes
    <3> QED BY <3>1 DEF Waits
  <2>4. \A i \in 1..Len(chain') : chain'[i].gen = gen => \E j \in 1..Len(chain) : Now(j)
    BY <2>1 DEF Now
  <2>5. QueueOK'
    BY <2>1, <2>3, <2>4, QueueSame
  <2>6. ReleaseOK'
    BY <2>1, ReleaseFailed
  <2> QED BY <2>5, <2>6
<1>2. CASE Reconnect \/ Rebind
  BY <1>2, ConnectFacts, QueueConnect, ReleaseConnect
<1> QED BY <1>1, <1>2

LEMMA NextOrder == TypeOK /\ FramesOK /\ LossInv /\ RequestsOK /\ ShapeInv /\ OrderInv /\ [Next]_vars => OrderInv'
<1> SUFFICES ASSUME TypeOK, FramesOK, LossInv, RequestsOK, ShapeInv, OrderInv, [Next]_vars, ~closed' PROVE QueueOK' /\ ReleaseOK'
  BY DEF OrderInv
<1>1. CASE UNCHANGED vars
  <2>1. QueueOK /\ ReleaseOK /\ SubsKept /\ UNCHANGED <<est, gen, bound, chain, stage, calls, conn, up, curSub>>
    <3>1. UNCHANGED subs => SubsKept
      BY SubFacts DEF SubsKept, TypeOK, DaemonTypeOK
    <3> QED BY <1>1, <3>1 DEF vars, view, channel, daemon, OrderInv
  <2> QED BY <2>1, QueueKept, ReleaseKept
<1>2. CASE DaemonStep
  BY <1>2, OrderDaemon DEF OrderInv
<1>3. CASE Close
  BY <1>3 DEF Close
<1>4. CASE ~UNCHANGED vars /\ ~DaemonStep /\ ~Close
  <2>0. ViewNext \/ Drop \/ DaemonRestarts \/ Reconnect \/ Rebind
    BY <1>4 DEF Next
  <2>1. CASE JoinClosed
    BY <2>1, JoinClosedFacts DEF view
  <2>2. CASE CloseUnsubscribes
    BY <2>2, CloseUnsubscribesFacts DEF LossInv, ClosingOK
  <2>3. CASE OnClosed
    <3>1. est["close"].pc = "closing" /\ closed' = closed
      BY <2>3, OnClosedFacts DEF view, Received
    <3> QED BY <3>1 DEF LossInv, ClosingOK
  <2>4. CASE ~closed
    <3>1. QueueOK /\ ReleaseOK
      BY <2>4 DEF OrderInv
    <3>2. ASSUME NEW t \in {"main", "recovery"}, EstablishNext(t) PROVE QueueOK' /\ ReleaseOK'
      BY <2>4, <3>1, <3>2, OrderRuns DEF Pair
    <3>3. ASSUME NEW s \in Subs, OnEvent(s) PROVE QueueOK' /\ ReleaseOK'
      BY <3>1, <3>3, OrderEvent
    <3> QED BY <2>0, <2>1, <2>2, <2>3, <2>4, <3>1, <3>2, <3>3, OrderDeliveries, OrderBegins, OrderConnections DEF ViewNext
  <2>6. CASE closed
    <3>1. UNCHANGED closed
      <4>1. ASSUME NEW t \in {"main", "recovery"}, EstablishNext(t) PROVE closed' = closed
        BY <4>1 DEF EstablishNext, OnSnapshot, OnPage, OnResumed, OnBoundary, OnRefused,
           OnLoadError, OnCleaned, OnCleanupFailed,
                    DrainSkip, DrainReduce, DrainAck, OnDrainAcked, Established, Establish, view
      <4>2. ASSUME NEW s \in Subs, OnEvent(s) PROVE closed' = closed
        BY <4>2 DEF OnEvent, view
      <4>3. Join \/ JoinClosed \/ OnReleased \/ CloseUnsubscribes \/ OnClosed => closed' = closed
        BY DEF Join, JoinClosed, OnReleased, CloseUnsubscribes, OnClosed, Establish, view
      <4>4. DeliverSkip \/ DeliverReduce \/ DeliverFails \/ DeliverAck \/ OnAcked \/ OnAckError => closed' = closed
        BY DEF DeliverSkip, DeliverReduce, DeliverFails, DeliverAck, OnAcked, OnAckError,
           Failed, Recover, Establish, view
      <4>5. Drop \/ DaemonRestarts \/ Reconnect \/ Rebind => closed' = closed
        BY DEF Drop, DaemonRestarts, Reconnect, Rebind, Connect, view
      <4> QED BY <2>0, <4>1, <4>2, <4>3, <4>4, <4>5 DEF ViewNext
    <3> QED BY <2>6, <3>1
  <2> QED BY <2>4, <2>6, ViewFacts
<1> QED BY <1>1, <1>2, <1>3, <1>4

LEMMA InitOrder == Init => OrderInv
<1> SUFFICES ASSUME Init PROVE QueueOK /\ ReleaseOK
  BY DEF OrderInv
<1>1. est = [t \in Runs |-> Idle] /\ chain = <<>> /\ stage = "next" /\ bound = "main" /\ calls = [t \in Activities |-> NoCall]
  BY DEF Init
<1>2. \A t \in Runs : est[t].pc = "idle"
  BY <1>1 DEF Idle, At
<1>3. est["main"].pc = "idle" /\ est["recovery"].pc = "idle" /\ calls["delivery"].state = "none"
  BY <1>1, <1>2, PairRuns, NoCallFields
<1>4. \A t \in Pair : est[t].pc \notin Running /\ est[t].pc \notin Waiting
  BY <1>2, PairRuns DEF Running, Loading, Draining, Waiting
<1>5. \A t \in Pair : SupersededAhead(t) /\ SupersededLoads(t)
  BY <1>4 DEF SupersededAhead, SupersededLoads, Waiting
<1>6. LoadsAlone /\ DeliveryAhead /\ ReleaseFirst /\ ResumesAlone
  BY <1>1, <1>3 DEF LoadsAlone, DeliveryAhead, ReleaseFirst, ResumesAlone, Loading
<1>7. ReleasesCurrent /\ ReleasedGone /\ ResumeIsOver /\ CleanupEnds /\ AcksNeverGap
  BY <1>3 DEF ReleasesCurrent, ReleasedGone, ResumeIsOver, CleanupEnds, AcksNeverGap
<1> QED BY <1>5, <1>6, <1>7 DEF QueueOK, ReleaseOK

\* At most one of the two runs of establish() is of the present generation, and the listener is
\* its own or that of the last run that ended. Until close(), a run or a delivery that was
\* superseded while it awaited a response was sent before the subscribe request of the run that
\* superseded it, or before the unsubscribe request of the recovery that will: its answer comes
\* first, so it never touches a newer subscription, and it resumes nothing itself. A delivery of
\* the present generation never waits beside a current run that loads or a recovery that
\* releases (establish(), handleDeliveryFailure, scheduleRecovery, rebind).
THEOREM SupersededIsHarmless == Spec => [](ShapeInv /\ OrderInv)
<1>1. Init => LossInv /\ ShapeInv /\ OrderInv
  BY InitLoss, InitShape, InitOrder
<1>2. TypeOK /\ FramesOK /\ LossInv /\ [Next]_vars => LossInv'
  BY NextLoss
<1>3. TypeOK /\ FramesOK /\ RequestsOK /\ ShapeInv /\ [Next]_vars => ShapeInv'
  BY NextShape
<1>4. TypeOK /\ FramesOK /\ LossInv /\ RequestsOK /\ ShapeInv /\ OrderInv /\ [Next]_vars => OrderInv'
  BY NextOrder
<1> QED BY <1>1, <1>2, <1>3, <1>4, FramesCorrect, RequestsAnswered, PTL DEF Spec
=============================================================================

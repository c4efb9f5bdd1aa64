------------------------- MODULE AgentSessionProofs -------------------------
(***************************************************************************)
(* Machine-checked proofs about AgentSession, for any number of turns,     *)
(* tool calls, queued inputs, retries, recorders, crashes and failed       *)
(* appends.                                                                *)
(***************************************************************************)
EXTENDS AgentSession, SequenceTheorems, WellFoundedInduction, TLAPS

\* Events, and appends in flight.
EventTypes == {"session.created", "recorded", "user.message", "assistant.message", "tool.call",
               "tool.result", "sandbox.violation", "model.request_configured",
               "model.retry_scheduled", "session.error"}
TurnTypes == EventTypes \ {"session.created", "recorded"}
ToolTypes == {"tool.call", "tool.result", "sandbox.violation"}
Stops == {"none", "stop", "tool_use", "error", "aborted"}
Events == [parent : Nat, type : EventTypes, stop : Stops, call : Nat]
Appends == [by : Recorders \cup {"turn"}, event : Events]

SessionTypeOK ==
    /\ log \in Seq(Events) /\ tip \in Nat /\ inflight \in Seq(Appends)
    /\ mode \in {"open", "closed", "recovering", "reconciling", "broken"}
    /\ pc \in {"idle", "appending", "model", "streaming", "backoff", "executing"}
    /\ attempt \in Nat /\ calls \in Seq(Nat) /\ from \in {"none", "left", "steer", "follow"}
    /\ aborted \in BOOLEAN /\ steering \in Nat /\ followUps \in Nat
    /\ turns \in Nat /\ issued \in Nat /\ inputs \in Nat /\ delivered \in Nat /\ late \in Nat
    /\ crashes \in Nat /\ faults \in Nat

\* The appends of the turn among those in flight.
Mine(q) == {i \in DOMAIN q : q[i].by = "turn"}
TurnEvents(q) == {q[i].event : i \in Mine(q)}
Alone(q) == \A i, j \in Mine(q) : i = j

\* What the turn keeps in memory fits the event it is appending.
Fitting(e) ==
    /\ e.type \in TurnTypes
    /\ e.type \in ToolTypes => calls # <<>> /\ e.call = Head(calls)
    /\ e.type = "user.message" => /\ from = "steer" => steering > 0
                                  /\ from = "follow" => followUps > 0
    /\ e.type = "assistant.message" => e.stop # "none"

\* The turn awaits at most one append, and exactly when it says so.
TurnInv ==
    /\ Alone(inflight)
    /\ pc = "appending" <=> TurnEvents(inflight) # {}
    /\ \A e \in TurnEvents(inflight) : Fitting(e)
    /\ pc = "executing" => calls # <<>>
    /\ mode # "open" => pc = "idle" /\ inflight = <<>>

\* A tool that started after the abort is the last thing the turn does but end.
Ending(e) == e.type \in ToolTypes \/ (e.type = "assistant.message" /\ e.stop = "aborted")
LateInv ==
    /\ late \in {0, 1}
    /\ late = 1 /\ pc # "idle" => /\ aborted /\ pc \in {"model", "executing", "appending"}
                                  /\ \A e \in TurnEvents(inflight) : Ending(e)

SessionInv == SessionTypeOK /\ TurnInv /\ LateInv /\ QueuedInputConserved

-----------------------------------------------------------------------------
\* An event keeps what it was made of, and append() adds its parent.
LEMMA EventFacts ==
    ASSUME NEW type \in EventTypes, NEW stop \in Stops, NEW call \in Nat, NEW at \in Nat
    PROVE  /\ [Event(type, stop, call) EXCEPT !.parent = at] \in Events
           /\ [Event(type, stop, call) EXCEPT !.parent = at].parent = at
           /\ [Event(type, stop, call) EXCEPT !.parent = at].type = type
           /\ [Event(type, stop, call) EXCEPT !.parent = at].stop = stop
           /\ [Event(type, stop, call) EXCEPT !.parent = at].call = call
BY DEF Event, Events

\* One more append in flight.
LEMMA AppendFacts ==
    ASSUME NEW q \in Seq(Appends), NEW a \in Appends
    PROVE  /\ Append(q, a) \in Seq(Appends)
           /\ Len(Append(q, a)) = Len(q) + 1
           /\ a.by # "turn" => /\ TurnEvents(Append(q, a)) = TurnEvents(q)
                               /\ Alone(q) => Alone(Append(q, a))
           /\ a.by = "turn" /\ TurnEvents(q) = {} => /\ TurnEvents(Append(q, a)) = {a.event}
                                                     /\ Alone(Append(q, a))
<1> DEFINE r == Append(q, a)
<1>1. /\ r \in Seq(Appends) /\ Len(r) = Len(q) + 1 /\ Len(q) \in Nat
      /\ DOMAIN q = 1..Len(q) /\ DOMAIN r = 1..(Len(q) + 1)
      /\ r[Len(q) + 1] = a /\ \A i \in 1..Len(q) : r[i] = q[i]
  BY AppendProperties, LenProperties
<1> HIDE DEF r
<1>2. Mine(r) = Mine(q) \cup (IF a.by = "turn" THEN {Len(q) + 1} ELSE {})
  BY <1>1 DEF Mine
<1>3. \A i \in Mine(q) : r[i] = q[i]
  BY <1>1 DEF Mine
<1>4. a.by # "turn" => TurnEvents(r) = TurnEvents(q) /\ (Alone(q) => Alone(r))
  BY <1>2, <1>3 DEF TurnEvents, Alone
<1>5. ASSUME a.by = "turn", TurnEvents(q) = {}
      PROVE  TurnEvents(r) = {a.event} /\ Alone(r)
  <2>1. Mine(q) = {}
    BY <1>5 DEF TurnEvents
  <2>2. Mine(r) = {Len(q) + 1}
    BY <1>2, <1>5, <2>1
  <2> QED
    BY <1>1, <2>2 DEF TurnEvents, Alone
<1> QED
  BY <1>1, <1>4, <1>5 DEF r

\* The oldest append in flight leaves.
LEMMA HeadFacts ==
    ASSUME NEW q \in Seq(Appends), q # <<>>, Alone(q)
    PROVE  /\ Head(q) \in Appends /\ Tail(q) \in Seq(Appends) /\ Alone(Tail(q))
           /\ Len(Tail(q)) = Len(q) - 1 /\ Len(q) \in Nat
           /\ Head(q).by # "turn" => TurnEvents(Tail(q)) = TurnEvents(q)
           /\ Head(q).by = "turn" => TurnEvents(Tail(q)) = {} /\ TurnEvents(q) = {Head(q).event}
<1> DEFINE r == Tail(q)
<1>1. /\ r \in Seq(Appends) /\ Head(q) \in Appends /\ Len(q) \in Nat /\ Len(q) >= 1
      /\ DOMAIN q = 1..Len(q) /\ DOMAIN r = 1..(Len(q) - 1) /\ Len(r) = Len(q) - 1
      /\ Head(q) = q[1] /\ \A i \in 1..(Len(q) - 1) : r[i] = q[i + 1]
  BY HeadTailProperties, LenProperties, EmptySeq
<1> HIDE DEF r
<1>2. \A i \in 1..(Len(q) - 1) : i \in Mine(r) <=> i + 1 \in Mine(q)
  BY <1>1 DEF Mine
<1>3. \A i \in Mine(r) : i \in 1..(Len(q) - 1) /\ i + 1 \in Mine(q) /\ r[i] = q[i + 1]
  BY <1>1, <1>2 DEF Mine
<1>4. \A i \in Mine(q) : i = 1 \/ (i - 1 \in Mine(r) /\ r[i - 1] = q[i])
  BY <1>1, <1>2 DEF Mine
<1>5. Alone(r)
  BY <1>3 DEF Alone
<1>6. Head(q).by = "turn" <=> 1 \in Mine(q)
  BY <1>1 DEF Mine
<1>7. ASSUME Head(q).by # "turn"
      PROVE  TurnEvents(r) = TurnEvents(q)
  BY <1>3, <1>4, <1>6, <1>7 DEF TurnEvents
<1>8. ASSUME Head(q).by = "turn"
      PROVE  TurnEvents(r) = {} /\ TurnEvents(q) = {Head(q).event}
  <2>1. 1 \in Mine(q) /\ \A i \in Mine(q) : i = 1
    BY <1>6, <1>8 DEF Alone
  <2>2. Mine(r) = {}
    BY <1>3, <2>1
  <2> QED
    BY <1>1, <2>1, <2>2 DEF TurnEvents
<1> QED
  BY <1>1, <1>5, <1>7, <1>8 DEF r

\* No append in flight.
LEMMA NoneInFlight == /\ <<>> \in Seq(Appends) /\ TurnEvents(<<>>) = {} /\ Alone(<<>>) /\ Len(<<>>) = 0
                      /\ \A q \in Seq(Appends) : Len(q) = 0 => q = <<>>
BY EmptySeq DEF TurnEvents, Mine, Alone

\* The turn calls append(): its event is the one it has in flight.
LEMMA IssueFacts ==
    ASSUME NEW type \in EventTypes, NEW stop \in Stops, NEW call \in Nat, NEW at \in Nat,
           NEW after \in Seq(Appends), TurnEvents(after) = {},
           Issue(Event(type, stop, call), after, at)
    PROVE  /\ inflight' \in Seq(Appends) /\ Alone(inflight') /\ pc' = "appending"
           /\ Len(inflight') = Len(after) + 1
           /\ \E e \in Events : /\ TurnEvents(inflight') = {e}
                                /\ e.type = type /\ e.stop = stop /\ e.call = call /\ e.parent = at
<1> DEFINE e == [Event(type, stop, call) EXCEPT !.parent = at]
           a == [by |-> "turn", event |-> e]
<1>1. e \in Events /\ e.type = type /\ e.stop = stop /\ e.call = call /\ e.parent = at
  BY EventFacts
<1>2. inflight' = Append(after, a) /\ pc' = "appending"
  BY DEF Issue, Call
<1> HIDE DEF e
<1>3. a \in Appends /\ a.by = "turn" /\ a.event = e
  BY <1>1 DEF Appends
<1> HIDE DEF a
<1> QED
  BY <1>1, <1>2, <1>3, AppendFacts

-----------------------------------------------------------------------------
\* Queued input that the turn took off its queue and is appending.
Left == pc = "appending" /\ from = "left" /\ \E e \in TurnEvents(inflight) : e.type = "user.message"
Held == steering + followUps + delivered + (IF Left THEN 1 ELSE 0)
Conserved == Held <= inputs /\ inputs - Held <= faults

\* The count of QueuedInputConserved, in terms of the turn's own append.
LEMMA HeldFacts == (QueuedInputConserved <=> Conserved) /\ (QueuedInputConserved' <=> Conserved')
<1>1. Left <=> /\ pc = "appending" /\ from = "left"
               /\ \E i \in DOMAIN inflight : inflight[i].by = "turn" /\ inflight[i].event.type = "user.message"
  BY DEF Left, TurnEvents, Mine
<1>2. Left' <=> /\ pc' = "appending" /\ from' = "left"
                /\ \E i \in DOMAIN inflight' : inflight'[i].by = "turn" /\ inflight'[i].event.type = "user.message"
  BY DEF Left, TurnEvents, Mine
<1> HIDE DEF Left
<1> QED
  BY <1>1, <1>2 DEF QueuedInputConserved, Conserved, Held

\* The turn moves on from a state in which it awaits no append: it streams, or appends an
\* event other than a user message.
LEMMA TurnGoes ==
    ASSUME SessionInv, mode = "open", pc \in {"model", "streaming", "backoff", "executing"},
           UNCHANGED <<log, tip, mode, from, aborted, steering, followUps, turns, inputs,
                       delivered, late, crashes, faults>>,
           attempt' \in Nat, calls' \in Seq(Nat), issued' \in Nat,
           inflight' \in Seq(Appends), Alone(inflight'),
           \/ pc' = "streaming" /\ TurnEvents(inflight') = {} /\ late = 0
           \/ /\ pc' = "appending"
              /\ \E e \in Events : /\ TurnEvents(inflight') = {e}
                                   /\ e.type \in TurnTypes \ {"user.message"}
                                   /\ e.type \in ToolTypes => calls' # <<>> /\ e.call = Head(calls')
                                   /\ e.type = "assistant.message" => e.stop # "none"
                                   /\ late = 1 => Ending(e)
    PROVE  SessionInv'
<1>1. SessionTypeOK'
  BY DEF SessionInv, SessionTypeOK
<1>2. TurnInv'
  BY DEF TurnInv, Fitting
<1>3. LateInv'
  BY DEF SessionInv, LateInv, Ending
<1>4. ~Left /\ ~Left'
  BY DEF Left
<1>5. Conserved'
  BY <1>4, HeldFacts DEF SessionInv, Conserved, Held
<1> QED
  BY <1>1, <1>2, <1>3, <1>5, HeldFacts DEF SessionInv

\* While the turn awaits no append it has none in flight.
LEMMA NotAppending ==
    ASSUME SessionInv, pc # "appending"
    PROVE  TurnEvents(inflight) = {} /\ inflight \in Seq(Appends) /\ Alone(inflight) /\ tip \in Nat
BY DEF SessionInv, SessionTypeOK, TurnInv

\* The model is called.
LEMMA StreamGoes ==
    ASSUME SessionInv, pc # "appending", Stream
    PROVE  /\ inflight' \in Seq(Appends) /\ Alone(inflight')
           /\ \/ pc' = "streaming" /\ inflight' = inflight /\ TurnEvents(inflight') = {}
              \/ /\ pc' = "appending" /\ Len(inflight') = Len(inflight) + 1
                 /\ \E e \in Events : /\ TurnEvents(inflight') = {e} /\ e.parent = tip
                                      /\ e.type = "model.request_configured"
<1>1. TurnEvents(inflight) = {} /\ inflight \in Seq(Appends) /\ Alone(inflight) /\ tip \in Nat
  BY NotAppending
<1>2. CASE GoOn(inflight, "streaming")
  BY <1>1, <1>2 DEF GoOn
<1>3. CASE Issue(Event("model.request_configured", "none", 0), inflight, tip)
  <2>1. "model.request_configured" \in EventTypes /\ "none" \in Stops /\ 0 \in Nat
    BY DEF EventTypes, Stops
  <2> QED
    BY <1>1, <1>3, <2>1, IssueFacts
<1> QED
  BY <1>2, <1>3 DEF Stream

\* The turn appends an event.
LEMMA TurnIssues ==
    ASSUME SessionInv, pc # "appending", NEW type \in EventTypes, NEW stop \in Stops, NEW call \in Nat,
           Issue(Event(type, stop, call), inflight, tip)
    PROVE  /\ inflight' \in Seq(Appends) /\ Alone(inflight') /\ pc' = "appending"
           /\ Len(inflight') = Len(inflight) + 1
           /\ \E e \in Events : /\ TurnEvents(inflight') = {e}
                                /\ e.type = type /\ e.stop = stop /\ e.call = call /\ e.parent = tip
BY NotAppending, IssueFacts

\* The steps of the model and of tools keep the invariant.
LEMMA ModelStep ==
    ASSUME SessionInv, ModelTurn \/ Completes \/ Fails \/ BackoffEnds \/ ToolEnds
    PROVE  SessionInv'
<1> USE DEF counters, queues
<1>0. /\ attempt \in Nat /\ calls \in Seq(Nat) /\ issued \in Nat /\ 0 \in Nat /\ aborted \in BOOLEAN
      /\ late \in {0, 1} /\ <<>> \in Seq(Nat)
      /\ {"assistant.message", "model.request_configured", "model.retry_scheduled"} \subseteq EventTypes \cap TurnTypes
      /\ {"sandbox.violation", "tool.result"} \subseteq EventTypes \cap TurnTypes \cap ToolTypes
      /\ {"assistant.message", "model.request_configured", "model.retry_scheduled"} \cap ToolTypes = {}
      /\ {"aborted", "error", "stop", "tool_use", "none"} \subseteq Stops
      /\ "user.message" \notin ToolTypes
  BY EmptySeq DEF SessionInv, SessionTypeOK, LateInv, EventTypes, TurnTypes, ToolTypes,
     Stops
<1>1. CASE ModelTurn
  <2>1. /\ mode = "open" /\ pc = "model" /\ attempt' = 1 /\ calls' = <<>>
        /\ UNCHANGED <<log, tip, mode, from, aborted, steering, followUps, turns, issued, inputs,
                       delivered, late, crashes, faults>>
    BY <1>1 DEF ModelTurn
  <2>2. CASE aborted
    BY <1>0, <1>1, <2>1, <2>2, TurnIssues, TurnGoes DEF ModelTurn, Ending
  <2>3. CASE ~aborted
    <3>1. late = 0
      BY <1>0, <2>1, <2>3 DEF SessionInv, LateInv
    <3>2. Stream
      BY <1>1, <2>3 DEF ModelTurn
    <3> QED
      BY <1>0, <2>1, <3>1, <3>2, StreamGoes, TurnGoes
  <2> QED
    BY <2>2, <2>3
<1>2. CASE Completes
  <2>1. PICK n \in 0..(MaxCalls - issued), stop \in {"stop", "tool_use"} :
          /\ calls' = [i \in 1..n |-> issued + i] /\ issued' = issued + n
          /\ Issue(Event("assistant.message", stop, 0), inflight, tip)
    BY <1>2 DEF Completes
  <2>2. /\ mode = "open" /\ pc = "streaming"
        /\ UNCHANGED <<log, tip, mode, attempt, from, aborted, steering, followUps, turns, inputs,
                       delivered, late, crashes, faults>>
    BY <1>2 DEF Completes
  <2>3. n \in Nat /\ issued' \in Nat /\ late = 0
    BY <1>0, <2>1, <2>2, SessionBounds DEF SessionInv, LateInv
  <2>4. calls' \in Seq(Nat)
    <3>1. \A i \in 1..n : issued + i \in Nat
      BY <1>0, <2>3
    <3> QED
      BY <2>1, <2>3, <3>1, IsASeq
  <2>5. stop \in Stops /\ stop # "none"
    BY DEF Stops
  <2> QED
    BY <1>0, <2>1, <2>2, <2>3, <2>4, <2>5, TurnIssues, TurnGoes
<1>3. CASE Fails
  <2>1. /\ mode = "open" /\ pc = "streaming"
        /\ UNCHANGED <<log, tip, mode, calls, from, aborted, steering, followUps, turns, issued, inputs,
                       delivered, late, crashes, faults>>
    BY <1>3 DEF Fails
  <2>2. late = 0
    BY <1>0, <2>1 DEF SessionInv, LateInv
  <2>3. CASE attempt' = attempt + 1 /\ Issue(Event("model.retry_scheduled", "none", 0), inflight, tip)
    BY <1>0, <2>1, <2>2, <2>3, TurnIssues, TurnGoes
  <2>4. CASE attempt' = attempt /\ Issue(Event("assistant.message", "error", 0), inflight, tip)
    BY <1>0, <2>1, <2>2, <2>4, TurnIssues, TurnGoes
  <2>5. CASE attempt' = attempt /\ Issue(Event("assistant.message", "aborted", 0), inflight, tip)
    BY <1>0, <2>1, <2>2, <2>5, TurnIssues, TurnGoes
  <2> QED
    BY <1>3, <2>3, <2>4, <2>5 DEF Fails
<1>4. CASE BackoffEnds
  <2>1. /\ mode = "open" /\ pc = "backoff"
        /\ UNCHANGED <<log, tip, mode, attempt, calls, from, aborted, steering, followUps, turns, issued,
                       inputs, delivered, late, crashes, faults>>
    BY <1>4 DEF BackoffEnds, model
  <2>2. late = 0
    BY <1>0, <2>1 DEF SessionInv, LateInv
  <2>3. CASE Issue(Event("assistant.message", "aborted", 0), inflight, tip)
    BY <1>0, <2>1, <2>2, <2>3, TurnIssues, TurnGoes
  <2>4. CASE Stream
    BY <1>0, <2>1, <2>2, <2>4, StreamGoes, TurnGoes
  <2> QED
    BY <1>4, <2>3, <2>4 DEF BackoffEnds
<1>5. CASE ToolEnds
  <2>1. /\ mode = "open" /\ pc = "executing"
        /\ UNCHANGED <<log, tip, mode, attempt, calls, from, aborted, steering, followUps, turns, issued,
                       inputs, delivered, late, crashes, faults>>
    BY <1>5 DEF ToolEnds, model
  <2>2. calls # <<>> /\ Head(calls) \in Nat
    BY <1>0, <2>1, HeadTailProperties DEF SessionInv, TurnInv
  <2>3. PICK type \in {"sandbox.violation", "tool.result"} :
          Issue(Event(type, "none", Head(calls)), inflight, tip)
    BY <1>5 DEF ToolEnds
  <2>4. type \in EventTypes /\ type \in TurnTypes \ {"user.message"} /\ type \in ToolTypes /\ type # "assistant.message"
    BY <1>0
  <2> QED
    BY <1>0, <2>1, <2>2, <2>3, <2>4, TurnIssues, TurnGoes DEF Ending
<1> QED
  BY <1>1, <1>2, <1>3, <1>4, <1>5

-----------------------------------------------------------------------------
\* What Store takes and leaves.
LEMMA StoreFacts ==
    ASSUME SessionInv, Store
    PROVE  /\ mode = "open" /\ inflight # <<>> /\ Head(inflight) \in Appends
           /\ Head(inflight).event \in Events /\ Tail(inflight) \in Seq(Appends) /\ Alone(Tail(inflight))
           /\ Len(Tail(inflight)) = Len(inflight) - 1 /\ Len(inflight) \in Nat
           /\ log' = Append(log, Head(inflight).event) /\ tip' = Len(log) + 1
           /\ log' \in Seq(Events) /\ tip' \in Nat
           /\ UNCHANGED <<mode, attempt, aborted, recorded, turns, issued, inputs, crashes, faults>>
           /\ Head(inflight).by # "turn" => TurnEvents(Tail(inflight)) = TurnEvents(inflight)
           /\ Head(inflight).by = "turn" => /\ TurnEvents(Tail(inflight)) = {} /\ pc = "appending"
                                            /\ TurnEvents(inflight) = {Head(inflight).event}
                                            /\ Fitting(Head(inflight).event)
                                            /\ late = 1 => aborted /\ Ending(Head(inflight).event)
<1>1. mode = "open" /\ inflight # <<>> /\ inflight \in Seq(Appends) /\ Alone(inflight) /\ log \in Seq(Events)
  BY DEF SessionInv, SessionTypeOK, TurnInv, Store
<1>2. /\ log' = Append(log, Head(inflight).event) /\ tip' = Len(log) + 1
      /\ UNCHANGED <<mode, attempt, aborted, recorded, turns, issued, inputs, crashes, faults>>
  BY DEF Store, Moved
<1>3. Head(inflight).event \in Events
  BY <1>1, HeadFacts DEF Appends
<1>4. log' \in Seq(Events) /\ tip' \in Nat
  BY <1>1, <1>2, <1>3, AppendProperties, LenProperties
<1>5. ASSUME Head(inflight).by = "turn"
      PROVE  /\ pc = "appending" /\ Fitting(Head(inflight).event)
             /\ late = 1 => aborted /\ Ending(Head(inflight).event)
  <2>1. TurnEvents(inflight) = {Head(inflight).event}
    BY <1>1, <1>5, HeadFacts
  <2>2. pc = "appending" /\ Fitting(Head(inflight).event)
    BY <2>1 DEF SessionInv, TurnInv
  <2> QED
    BY <2>1, <2>2 DEF SessionInv, LateInv
<1> QED
  BY <1>1, <1>2, <1>3, <1>4, <1>5, HeadFacts

\* What a stored event of the turn leads to, apart from user messages: the turn returns,
\* goes on without an append, or appends the next event.
LEMMA StoreGoes ==
    ASSUME SessionInv, Store, Head(inflight).by = "turn", Head(inflight).event.type # "user.message",
           UNCHANGED <<steering, followUps, delivered>>,
           calls' \in Seq(Nat), late' \in {0, 1}, from' = from \/ from' \in {"steer", "follow"},
           inflight' \in Seq(Appends), Alone(inflight'),
           \/ pc' \in {"idle", "model", "streaming", "backoff", "executing"} /\ TurnEvents(inflight') = {}
              /\ (pc' = "executing" => calls' # <<>>)
              /\ (pc' # "idle" /\ late' = 1 => aborted /\ pc' \in {"model", "executing"})
           \/ /\ pc' = "appending"
              /\ \E e \in Events : /\ TurnEvents(inflight') = {e} /\ Fitting(e)'
                                   /\ e.type = "user.message" => from' \in {"steer", "follow"}
                                   /\ late' = 1 => aborted /\ Ending(e)
    PROVE  SessionInv'
<1>1. /\ mode = "open" /\ pc = "appending" /\ TurnEvents(inflight) = {Head(inflight).event}
      /\ UNCHANGED <<mode, attempt, aborted, recorded, turns, issued, inputs, crashes, faults>>
      /\ log' \in Seq(Events) /\ tip' \in Nat
  BY StoreFacts
<1>2. SessionTypeOK'
  BY <1>1 DEF SessionInv, SessionTypeOK
<1>3. TurnInv'
  BY <1>1 DEF TurnInv
<1>4. LateInv'
  BY <1>1 DEF LateInv, Ending
<1>5. ~Left
  BY <1>1 DEF Left
<1>6. ~Left'
  <2>1. CASE pc' # "appending"
    BY <2>1 DEF Left
  <2>2. CASE pc' = "appending"
    <3>1. PICK e \in Events : TurnEvents(inflight') = {e} /\ (e.type = "user.message" => from' \in {"steer", "follow"})
      BY <2>2
    <3> QED
      BY <3>1 DEF Left
  <2> QED
    BY <2>1, <2>2
<1>7. Conserved'
  BY <1>1, <1>5, <1>6, HeldFacts DEF SessionInv, Conserved, Held
<1> QED
  BY <1>2, <1>3, <1>4, <1>7, HeldFacts DEF SessionInv

\* A model boundary: the turn takes the next message, asks the model again, or returns.
LEMMA BoundaryGoes ==
    ASSUME SessionInv, Store, Head(inflight).by = "turn",
           NEW toolUse \in BOOLEAN, Boundary(toolUse, Tail(inflight), Len(log) + 1),
           UNCHANGED <<steering, followUps>>
    PROVE  /\ inflight' \in Seq(Appends) /\ Alone(inflight')
           /\ from' = from \/ from' \in {"steer", "follow"}
           /\ \/ /\ pc' \in {"idle", "model"} /\ inflight' = Tail(inflight) /\ TurnEvents(inflight') = {}
                 /\ toolUse => pc' = "model"
              \/ /\ pc' = "appending" /\ Len(inflight') = Len(inflight)
                 /\ \E e \in Events : /\ TurnEvents(inflight') = {e} /\ e.type = "user.message" /\ e.parent = Len(log) + 1
                                      /\ from' \in {"steer", "follow"} /\ Fitting(e)'
<1> DEFINE rest == Tail(inflight)  at == Len(log) + 1
<1>1. /\ rest \in Seq(Appends) /\ Alone(rest) /\ TurnEvents(rest) = {} /\ Len(rest) = Len(inflight) - 1
      /\ at \in Nat /\ Len(inflight) \in Nat /\ steering \in Nat /\ followUps \in Nat
  BY StoreFacts DEF SessionInv, SessionTypeOK
<1>2. "user.message" \in EventTypes /\ "none" \in Stops /\ 0 \in Nat /\ "user.message" \in TurnTypes /\ "user.message" \notin ToolTypes
  BY DEF EventTypes, Stops, TurnTypes, ToolTypes
<1> HIDE DEF rest, at
<1>3. CASE steering > 0
  <2>1. Issue(Event("user.message", "none", 0), rest, at) /\ from' = "steer"
    BY <1>3 DEF Boundary, rest, at
  <2> QED
    BY <1>1, <1>2, <1>3, <2>1, IssueFacts DEF Fitting, at
<1>4. CASE ~(steering > 0) /\ toolUse
  <2>1. GoOn(rest, "model") /\ from' = from
    BY <1>4 DEF Boundary, rest
  <2> QED
    BY <1>1, <2>1 DEF GoOn, rest
<1>5. CASE ~(steering > 0) /\ ~toolUse /\ followUps > 0
  <2>1. Issue(Event("user.message", "none", 0), rest, at) /\ from' = "follow"
    BY <1>5 DEF Boundary, rest, at
  <2> QED
    BY <1>1, <1>2, <1>5, <2>1, IssueFacts DEF Fitting, at
<1>6. CASE ~(steering > 0) /\ ~toolUse /\ ~(followUps > 0)
  <2>1. Return(rest) /\ from' = from
    BY <1>6 DEF Boundary, rest
  <2> QED
    BY <1>1, <1>6, <2>1 DEF Return, rest
<1> QED
  BY <1>3, <1>4, <1>5, <1>6

\* The turn appends the next event.
LEMMA StoreIssues ==
    ASSUME SessionInv, Store, Head(inflight).by = "turn",
           NEW type \in EventTypes, NEW stop \in Stops, NEW call \in Nat,
           Issue(Event(type, stop, call), Tail(inflight), Len(log) + 1)
    PROVE  /\ inflight' \in Seq(Appends) /\ Alone(inflight') /\ pc' = "appending"
           /\ Len(inflight') = Len(inflight)
           /\ \E e \in Events : /\ TurnEvents(inflight') = {e} /\ e.parent = Len(log) + 1
                                /\ e.type = type /\ e.stop = stop /\ e.call = call
<1> DEFINE rest == Tail(inflight)  at == Len(log) + 1
<1>1. /\ rest \in Seq(Appends) /\ TurnEvents(rest) = {} /\ at \in Nat
      /\ Len(rest) = Len(inflight) - 1 /\ Len(inflight) \in Nat
  BY StoreFacts
<1>2. Issue(Event(type, stop, call), rest, at)
  OBVIOUS
<1> HIDE DEF rest, at
<1>3. /\ inflight' \in Seq(Appends) /\ Alone(inflight') /\ pc' = "appending"
      /\ Len(inflight') = Len(rest) + 1
      /\ \E e \in Events : /\ TurnEvents(inflight') = {e}
                           /\ e.type = type /\ e.stop = stop /\ e.call = call /\ e.parent = at
  BY <1>1, <1>2, IssueFacts
<1> QED
  BY <1>1, <1>3 DEF at

\* What Store does for an event of the turn, by its type.
LEMMA StoreTurn ==
    ASSUME Store, Head(inflight).by = "turn", NEW e, e = Head(inflight).event
    PROVE  /\ e.type = "user.message" =>
                /\ AfterUser(Tail(inflight))
                /\ steering' = steering - Shift("steer") /\ followUps' = followUps - Shift("follow")
           /\ e.type # "user.message" => steering' = steering - 0 /\ followUps' = followUps - 0
           /\ e.type = "assistant.message" => AfterAssistant(e.stop, Tail(inflight), Len(log) + 1)
           /\ e.type = "tool.result" => AfterResult(Tail(inflight), Len(log) + 1)
           /\ e.type \notin {"user.message", "assistant.message", "tool.result"} =>
                AfterOther(e, Tail(inflight), Len(log) + 1)
<1> DEFINE rest == Tail(inflight)  at == Len(log) + 1
<1>1. /\ steering' = steering - (IF e.type = "user.message" THEN Shift("steer") ELSE 0)
      /\ followUps' = followUps - (IF e.type = "user.message" THEN Shift("follow") ELSE 0)
      /\ CASE e.type = "user.message" -> AfterUser(rest)
           [] e.type = "assistant.message" -> AfterAssistant(e.stop, rest, at)
           [] e.type = "tool.result" -> AfterResult(rest, at)
           [] OTHER -> AfterOther(e, rest, at)
  BY Zenon DEF Store, Moved
<1> HIDE DEF rest, at
<1>2. CASE e.type = "user.message"
  <2>1. e.type # "assistant.message" /\ e.type # "tool.result"
    BY <1>2
  <2>2. AfterUser(rest)
    BY <1>1, <1>2, <2>1, Zenon
  <2> QED
    BY <1>1, <1>2, <2>1, <2>2 DEF rest
<1>3. CASE e.type = "assistant.message"
  <2>1. e.type # "user.message" /\ e.type # "tool.result"
    BY <1>3
  <2>2. AfterAssistant(e.stop, rest, at)
    BY <1>1, <1>3, <2>1, Zenon
  <2> QED
    BY <1>1, <1>3, <2>1, <2>2 DEF rest, at
<1>4. CASE e.type = "tool.result"
  <2>1. e.type # "user.message" /\ e.type # "assistant.message"
    BY <1>4
  <2>2. AfterResult(rest, at)
    BY <1>1, <1>4, <2>1, Zenon
  <2> QED
    BY <1>1, <1>4, <2>1, <2>2 DEF rest, at
<1>5. CASE e.type \notin {"user.message", "assistant.message", "tool.result"}
  <2>1. e.type # "user.message" /\ e.type # "assistant.message" /\ e.type # "tool.result"
    BY <1>5
  <2>2. AfterOther(e, rest, at)
    BY <1>1, <2>1, Zenon
  <2> QED
    BY <1>1, <2>1, <2>2 DEF rest, at
<1> QED
  BY <1>2, <1>3, <1>4, <1>5

\* The events after which the turn only moves on, by their type.
LEMMA OtherTurn ==
    ASSUME NEW e, NEW rest, NEW at, AfterOther(e, rest, at)
    PROVE  /\ UNCHANGED <<calls, from, messages, late, delivered>>
           /\ e.type = "model.request_configured" => GoOn(rest, "streaming")
           /\ e.type = "model.retry_scheduled" => GoOn(rest, "backoff")
           /\ e.type = "tool.call" => GoOn(rest, "executing")
           /\ e.type = "sandbox.violation" => Issue(Event("tool.result", "none", e.call), rest, at)
           /\ e.type = "session.error" => Return(rest)
<1>1. /\ UNCHANGED <<calls, from, messages, late, delivered>>
      /\ CASE e.type = "model.request_configured" -> GoOn(rest, "streaming")
           [] e.type = "model.retry_scheduled" -> GoOn(rest, "backoff")
           [] e.type = "tool.call" -> GoOn(rest, "executing")
           [] e.type = "sandbox.violation" -> Issue(Event("tool.result", "none", e.call), rest, at)
           [] e.type = "session.error" -> Return(rest)
  BY Zenon DEF AfterOther
<1>2. /\ "model.request_configured" \notin {"model.retry_scheduled", "tool.call", "sandbox.violation", "session.error"}
      /\ "model.retry_scheduled" \notin {"tool.call", "sandbox.violation", "session.error"}
      /\ "tool.call" \notin {"sandbox.violation", "session.error"} /\ "sandbox.violation" # "session.error"
  OBVIOUS
<1> QED
  BY <1>1, <1>2, Zenon

\* A stored event and what the turn does next keep the invariant.
LEMMA StoreStep ==
    ASSUME SessionInv, Store
    PROVE  SessionInv'
<1> DEFINE e == Head(inflight).event  rest == Tail(inflight)  at == Len(log) + 1
<1>0. /\ mode = "open" /\ e \in Events /\ rest \in Seq(Appends) /\ Alone(rest)
      /\ log' \in Seq(Events) /\ tip' \in Nat /\ at \in Nat
      /\ UNCHANGED <<mode, attempt, aborted, recorded, turns, issued, inputs, crashes, faults>>
      /\ steering \in Nat /\ followUps \in Nat /\ delivered \in Nat /\ calls \in Seq(Nat) /\ late \in {0, 1}
      /\ aborted \in BOOLEAN
  BY StoreFacts DEF SessionInv, SessionTypeOK, LateInv
<1>1. CASE Head(inflight).by # "turn"
  <2>1. /\ inflight' = rest /\ UNCHANGED <<pc, calls, from, steering, followUps, late, delivered>>
        /\ TurnEvents(inflight') = TurnEvents(inflight)
    BY <1>1, StoreFacts DEF Store, queues
  <2>2. SessionTypeOK'
    BY <1>0, <2>1 DEF SessionInv, SessionTypeOK
  <2>3. TurnInv'
    BY <1>0, <2>1 DEF SessionInv, TurnInv, Fitting
  <2>4. LateInv'
    BY <1>0, <2>1 DEF SessionInv, LateInv, Ending
  <2>5. Conserved'
    <3>1. Left' <=> Left
      BY <2>1 DEF Left
    <3> QED
      BY <1>0, <2>1, <3>1, HeldFacts DEF SessionInv, Conserved, Held
  <2> QED
    BY <2>2, <2>3, <2>4, <2>5, HeldFacts DEF SessionInv
<1>2. CASE Head(inflight).by = "turn"
  <2>0. /\ TurnEvents(rest) = {} /\ pc = "appending" /\ TurnEvents(inflight) = {e} /\ Fitting(e)
        /\ late = 1 => aborted /\ Ending(e)
    BY <1>2, StoreFacts
  <2>1. CASE e.type = "user.message"
    <3>1. /\ inflight' = rest /\ pc' = "model" /\ UNCHANGED <<calls, from, late>>
          /\ delivered' = delivered + (IF from = "none" THEN 0 ELSE 1)
          /\ steering' = steering - (IF from = "steer" THEN 1 ELSE 0)
          /\ followUps' = followUps - (IF from = "follow" THEN 1 ELSE 0)
      BY <1>2, <2>1, StoreTurn DEF AfterUser, GoOn, Shift
    <3>2. from \in {"none", "left", "steer", "follow"}
      BY DEF SessionInv, SessionTypeOK
    <3>3. (from = "steer" => steering > 0) /\ (from = "follow" => followUps > 0)
      BY <2>0, <2>1 DEF Fitting
    <3>4. steering' \in Nat /\ followUps' \in Nat /\ delivered' \in Nat
      BY <1>0, <3>1, <3>2, <3>3
    <3>5. SessionTypeOK'
      BY <1>0, <3>1, <3>4 DEF SessionInv, SessionTypeOK
    <3>6. TurnInv'
      BY <1>0, <2>0, <3>1 DEF TurnInv
    <3>7. LateInv'
      BY <1>0, <2>0, <2>1, <3>1 DEF LateInv, Ending, ToolTypes
    <3>8. Left <=> from = "left"
      BY <2>0, <2>1 DEF Left
    <3>9. ~Left'
      BY <3>1 DEF Left
    <3>10. Conserved /\ inputs \in Nat /\ faults \in Nat
      BY HeldFacts DEF SessionInv, SessionTypeOK
    <3>11. Held' = Held
      BY <1>0, <3>1, <3>2, <3>3, <3>8, <3>9 DEF Held
    <3>12. Conserved'
      BY <1>0, <3>10, <3>11 DEF Conserved
    <3> QED
      BY <3>5, <3>6, <3>7, <3>12, HeldFacts DEF SessionInv
  <2>2. CASE e.type # "user.message"
    <3>0. UNCHANGED <<steering, followUps>>
      BY <1>0, <1>2, <2>2, StoreTurn
    <3>1. CASE e.type = "assistant.message"
      <4>1. /\ AfterAssistant(e.stop, rest, at) /\ UNCHANGED <<calls, delivered>>
            /\ late' = IF aborted /\ e.stop = "tool_use" /\ calls # <<>> THEN late + 1 ELSE late
        BY <1>2, <3>1, StoreTurn DEF AfterAssistant
      <4>2. late = 1 => e.stop = "aborted"
        BY <2>0, <3>1 DEF Ending, ToolTypes
      <4>3. late' \in {0, 1} /\ (late' = 1 => aborted /\ (e.stop = "aborted" \/ (e.stop = "tool_use" /\ calls # <<>>)))
        BY <1>0, <2>0, <4>1, <4>2
      <4>4. CASE e.stop \in {"error", "aborted"}
        <5>1. Return(rest) /\ from' = from
          BY <4>1, <4>4 DEF AfterAssistant
        <5> QED
          BY <1>0, <1>2, <2>0, <2>2, <3>0, <4>1, <4>3, <5>1, StoreGoes DEF Return
      <4>5. CASE e.stop = "stop"
        <5>1. Boundary(FALSE, rest, at) /\ late' = 0
          BY <1>0, <4>1, <4>3, <4>5 DEF AfterAssistant
        <5>2. /\ inflight' \in Seq(Appends) /\ Alone(inflight')
              /\ from' = from \/ from' \in {"steer", "follow"}
              /\ \/ pc' \in {"idle", "model"} /\ TurnEvents(inflight') = {}
                 \/ /\ pc' = "appending"
                    /\ \E f \in Events : /\ TurnEvents(inflight') = {f} /\ Fitting(f)'
                                         /\ from' \in {"steer", "follow"}
          BY <1>2, <3>0, <5>1, BoundaryGoes
        <5> QED
          BY <1>0, <1>2, <2>2, <3>0, <4>1, <5>1, <5>2, StoreGoes
      <4>6. CASE e.stop \notin {"error", "aborted", "stop"} /\ calls = <<>>
        <5>1. Issue(Event("session.error", "none", 0), rest, at) /\ from' = from /\ late' = 0
          BY <1>0, <4>1, <4>3, <4>6 DEF AfterAssistant, MissingCall
        <5>2. "session.error" \in EventTypes /\ "session.error" \in TurnTypes /\ "none" \in Stops
              /\ "session.error" \notin ToolTypes
          BY DEF EventTypes, TurnTypes, Stops, ToolTypes
        <5>3. PICK f \in Events : /\ inflight' \in Seq(Appends) /\ Alone(inflight') /\ pc' = "appending"
                                  /\ TurnEvents(inflight') = {f} /\ f.type = "session.error" /\ f.call = 0
          BY <1>2, <1>0, <5>1, <5>2, StoreIssues
        <5>4. Fitting(f)' /\ f.type # "user.message" 
          BY <5>2, <5>3 DEF Fitting
        <5> QED
          BY <1>0, <1>2, <2>2, <3>0, <4>1, <5>1, <5>3, <5>4, StoreGoes
      <4>7. CASE e.stop \notin {"error", "aborted", "stop"} /\ calls # <<>>
        <5>1. Issue(Event("tool.call", "none", Head(calls)), rest, at) /\ from' = from
          BY <4>1, <4>7 DEF AfterAssistant, NextCall
        <5>2. /\ "tool.call" \in EventTypes /\ "tool.call" \in TurnTypes /\ "none" \in Stops
              /\ "tool.call" \in ToolTypes /\ Head(calls) \in Nat
          BY <1>0, <4>7, HeadTailProperties DEF EventTypes, TurnTypes, Stops, ToolTypes
        <5>3. PICK f \in Events : /\ inflight' \in Seq(Appends) /\ Alone(inflight') /\ pc' = "appending"
                                  /\ TurnEvents(inflight') = {f} /\ f.type = "tool.call" /\ f.call = Head(calls)
          BY <1>2, <5>1, <5>2, StoreIssues
        <5>4. Fitting(f)' /\ f.type # "user.message" /\ Ending(f)
          BY <4>1, <4>7, <5>2, <5>3 DEF Fitting, Ending
        <5> QED
          BY <1>0, <1>2, <2>2, <3>0, <4>1, <4>3, <5>1, <5>3, <5>4, StoreGoes
      <4> QED
        BY <4>4, <4>5, <4>6, <4>7
    <3>2. CASE e.type = "tool.result"
      <4>1. AfterResult(rest, at) /\ calls' = Tail(calls) /\ delivered' = delivered
        BY <1>2, <3>2, StoreTurn DEF AfterResult
      <4>2. calls # <<>> /\ Tail(calls) \in Seq(Nat) /\ Len(calls) \in Nat
        BY <1>0, <2>0, <3>2, HeadTailProperties, LenProperties DEF Fitting, ToolTypes
      <4>3. CASE aborted
        <5>1. GoOn(rest, "model") /\ UNCHANGED <<from, late>>
          BY <4>1, <4>3 DEF AfterResult, StopBatch
        <5> QED
          BY <1>0, <1>2, <2>0, <2>2, <3>0, <4>1, <4>2, <4>3, <5>1, StoreGoes DEF GoOn
      <4>4. CASE ~aborted /\ Len(calls) > 1
        <5>1. Issue(Event("tool.call", "none", calls[2]), rest, at) /\ from' = from /\ late' = late
          BY <4>1, <4>4 DEF AfterResult, StopBatch
        <5>2. Tail(calls) # <<>> /\ Head(Tail(calls)) = calls[2] /\ calls[2] \in Nat
          <6>1. Len(Tail(calls)) = Len(calls) - 1 /\ \A i \in 1..(Len(calls) - 1) : Tail(calls)[i] = calls[i + 1]
            BY <1>0, <4>2, HeadTailProperties
          <6>2. 1 \in 1..(Len(calls) - 1) /\ Tail(calls) # <<>>
            <7>1. Len(calls) > 1 /\ Len(calls) \in Nat
              BY <4>2, <4>4, Zenon
            <7>2. 1 \in 1..(Len(calls) - 1)
              BY <7>1
            <7>3. Len(calls) - 1 # 0
              <8>1. \A n \in Nat : n > 1 => n - 1 # 0
                OBVIOUS
              <8> QED
                BY <7>1, <8>1, Zenon
            <7> QED
              BY <6>1, <7>2, <7>3, EmptySeq, Zenon
          <6>3. Tail(calls)[1] = calls[1 + 1]
            BY <6>1, <6>2
          <6>4. Head(Tail(calls)) = Tail(calls)[1] /\ Head(Tail(calls)) \in Nat
            BY <4>2, <6>2, HeadTailProperties
          <6> QED
            BY <6>2, <6>3, <6>4
        <5>3. /\ "tool.call" \in EventTypes /\ "tool.call" \in TurnTypes /\ "none" \in Stops
              /\ "tool.call" \in ToolTypes
          BY DEF EventTypes, TurnTypes, Stops, ToolTypes
        <5>4. late' = 0
          BY <1>0, <2>0, <4>4, <5>1
        <5>5. PICK f \in Events : /\ inflight' \in Seq(Appends) /\ Alone(inflight') /\ pc' = "appending"
                                  /\ TurnEvents(inflight') = {f} /\ f.type = "tool.call" /\ f.call = calls[2]
          BY <1>2, <5>1, <5>2, <5>3, StoreIssues
        <5>6. Fitting(f)' /\ f.type # "user.message" 
          BY <4>1, <5>2, <5>3, <5>5 DEF Fitting
        <5> QED
          BY <1>0, <1>2, <2>2, <3>0, <4>1, <4>2, <5>1, <5>4, <5>5, <5>6, StoreGoes
      <4>5. CASE ~aborted /\ ~(Len(calls) > 1)
        <5>1. Boundary(TRUE, rest, at) /\ late' = late
          BY <4>1, <4>5 DEF AfterResult, StopBatch
        <5>2. late' = 0
          BY <1>0, <2>0, <4>5, <5>1
        <5>3. /\ inflight' \in Seq(Appends) /\ Alone(inflight')
              /\ from' = from \/ from' \in {"steer", "follow"}
              /\ \/ pc' = "model" /\ TurnEvents(inflight') = {}
                 \/ /\ pc' = "appending"
                    /\ \E f \in Events : /\ TurnEvents(inflight') = {f} /\ Fitting(f)'
                                         /\ from' \in {"steer", "follow"}
          BY <1>2, <3>0, <5>1, BoundaryGoes
        <5> QED
          BY <1>0, <1>2, <2>2, <3>0, <4>1, <4>2, <5>2, <5>3, StoreGoes
      <4> QED
        BY <4>3, <4>4, <4>5
    <3>3. CASE e.type \notin {"assistant.message", "tool.result"}
      <4>1. AfterOther(e, rest, at)
        BY <1>2, <2>2, <3>3, StoreTurn
      <4>2. UNCHANGED <<calls, from, late, delivered>>
        BY <4>1, OtherTurn DEF AfterOther
      <4>3. e.type \in {"model.request_configured", "model.retry_scheduled", "tool.call", "sandbox.violation", "session.error"}
        BY <2>0, <2>2, <3>3 DEF Fitting, TurnTypes, EventTypes
      <4>4. CASE e.type \in {"model.request_configured", "model.retry_scheduled", "session.error"}
        <5>1. inflight' = rest /\ pc' \in {"streaming", "backoff", "idle"}
          BY <4>1, <4>4, OtherTurn DEF GoOn, Return
        <5>2. late = 0
          BY <1>0, <2>0, <4>4 DEF Ending, ToolTypes
        <5> QED
          BY <1>0, <1>2, <2>0, <2>2, <3>0, <4>2, <5>1, <5>2, StoreGoes
      <4>5. CASE e.type = "tool.call"
        <5>1. inflight' = rest /\ pc' = "executing" /\ calls # <<>>
          BY <2>0, <4>1, <4>5, OtherTurn DEF GoOn, Fitting, ToolTypes
        <5> QED
          BY <1>0, <1>2, <2>0, <2>2, <3>0, <4>2, <5>1, StoreGoes
      <4>6. CASE e.type = "sandbox.violation"
        <5>1. Issue(Event("tool.result", "none", e.call), rest, at) /\ calls # <<>> /\ e.call = Head(calls)
          BY <2>0, <4>1, <4>6, OtherTurn DEF Fitting, ToolTypes
        <5>2. /\ "tool.result" \in EventTypes /\ "tool.result" \in TurnTypes /\ "none" \in Stops
              /\ "tool.result" \in ToolTypes /\ e.call \in Nat
          BY <1>0 DEF EventTypes, TurnTypes, Stops, ToolTypes, Events
        <5>3. PICK f \in Events : /\ inflight' \in Seq(Appends) /\ Alone(inflight') /\ pc' = "appending"
                                  /\ TurnEvents(inflight') = {f} /\ f.type = "tool.result" /\ f.call = e.call
          BY <1>2, <5>1, <5>2, StoreIssues
        <5>4. Fitting(f)' /\ f.type # "user.message" /\ Ending(f)
          BY <4>2, <5>1, <5>2, <5>3 DEF Fitting, Ending
        <5> QED
          BY <1>0, <1>2, <2>0, <2>2, <3>0, <4>2, <5>3, <5>4, StoreGoes
      <4> QED
        BY <4>3, <4>4, <4>5, <4>6
    <3> QED
      BY <3>1, <3>2, <3>3
  <2> QED
    BY <2>1, <2>2
<1> QED
  BY <1>1, <1>2
-----------------------------------------------------------------------------
\* A request starts a turn with a user message.
LEMMA TurnStarts ==
    ASSUME SessionInv, mode = "open", pc = "idle",
           UNCHANGED <<log, tip, mode, issued, inputs, delivered, crashes, faults>>,
           aborted' = FALSE, attempt' = 1, calls' = <<>>, late' = 0, turns' \in Nat,
           NEW op \in Nat, Issue(Event("user.message", "none", op), inflight, tip),
           \/ from' = "none" /\ UNCHANGED <<steering, followUps>>
           \/ /\ from' = "left" /\ steering' \in Nat /\ followUps' \in Nat
              /\ steering' + followUps' = steering + followUps - 1
    PROVE  SessionInv'
<1>1. "user.message" \in EventTypes /\ "none" \in Stops /\ "user.message" \in TurnTypes \ ToolTypes
  BY DEF EventTypes, Stops, TurnTypes, ToolTypes
<1>2. PICK e \in Events : /\ inflight' \in Seq(Appends) /\ Alone(inflight') /\ pc' = "appending"
                          /\ TurnEvents(inflight') = {e} /\ e.type = "user.message"
  BY <1>1, TurnIssues
<1>3. SessionTypeOK'
  BY <1>2, EmptySeq DEF SessionInv, SessionTypeOK
<1>4. TurnInv'
  BY <1>1, <1>2 DEF TurnInv, Fitting
<1>5. LateInv'
  BY DEF LateInv
<1>6. ~Left /\ (Left' <=> from' = "left")
  BY <1>2 DEF Left
<1>7. /\ Conserved /\ inputs \in Nat /\ faults \in Nat /\ steering \in Nat /\ followUps \in Nat
      /\ delivered \in Nat
  BY HeldFacts DEF SessionInv, SessionTypeOK
<1>8. Held' = Held
  BY <1>6, <1>7 DEF Held
<1>9. Conserved'
  BY <1>7, <1>8 DEF Conserved
<1> QED
  BY <1>3, <1>4, <1>5, <1>9, HeldFacts DEF SessionInv

\* The requests of the daemon keep the invariant.
LEMMA RequestStep ==
    ASSUME SessionInv, Request
    PROVE  SessionInv'
<1> USE DEF queues, messages, counters, branch, model
<1>0. /\ log \in Seq(Events) /\ tip \in Nat /\ inflight \in Seq(Appends) /\ Alone(inflight)
      /\ steering \in Nat /\ followUps \in Nat /\ delivered \in Nat /\ inputs \in Nat /\ faults \in Nat
      /\ turns \in Nat /\ Conserved
  BY HeldFacts DEF SessionInv, SessionTypeOK, TurnInv
<1>1. CASE StartTurn
  <2>1. /\ mode = "open" /\ pc = "idle" /\ aborted' = FALSE /\ from' = "none" /\ attempt' = 1
        /\ calls' = <<>> /\ late' = 0 /\ turns' = turns + 1
        /\ UNCHANGED <<log, tip, mode, steering, followUps, issued, inputs, delivered, crashes, faults>>
    BY <1>1 DEF StartTurn
  <2>2. turns' \in Nat /\ Issue(Event("user.message", "none", turns'), inflight, tip)
    BY <1>0, <1>1, <2>1 DEF StartTurn
  <2> QED
    BY <2>1, <2>2, TurnStarts
<1>2. CASE ContinueQueued
  <2>1. /\ mode = "open" /\ pc = "idle" /\ aborted' = FALSE /\ from' = "left" /\ attempt' = 1
        /\ calls' = <<>> /\ late' = 0 /\ Issue(Event("user.message", "none", 0), inflight, tip)
        /\ UNCHANGED <<log, tip, mode, turns, issued, inputs, delivered, crashes, faults>>
    BY <1>2 DEF ContinueQueued
  <2>2. steering' \in Nat /\ followUps' \in Nat /\ steering' + followUps' = steering + followUps - 1
    BY <1>0, <1>2 DEF ContinueQueued
  <2> QED
    BY <1>0, <2>1, <2>2, TurnStarts
<1>3. ASSUME NEW queue \in {"steer", "follow"}, Queue(queue)
      PROVE  SessionInv'
  <2>1. /\ UNCHANGED <<log, tip, inflight, mode, pc, attempt, calls, from, aborted, turns, issued,
                       delivered, late, crashes, faults>>
        /\ inputs' = inputs + 1 /\ steering' \in Nat /\ followUps' \in Nat
        /\ steering' >= steering /\ followUps' >= followUps
        /\ steering' + followUps' = steering + followUps + 1
    BY <1>0, <1>3 DEF Queue
  <2>2. SessionTypeOK'
    BY <1>0, <2>1 DEF SessionInv, SessionTypeOK
  <2>3. TurnInv'
    <3>1. \A e : Fitting(e) => Fitting(e)'
      BY <1>0, <2>1 DEF Fitting
    <3> QED
      BY <2>1, <3>1 DEF SessionInv, TurnInv
  <2>4. LateInv'
    BY <2>1 DEF SessionInv, LateInv
  <2>5. Left' <=> Left
    BY <2>1 DEF Left
  <2>6. Held' = Held + 1 /\ Held \in Nat
    <3> DEFINE n == IF Left THEN 1 ELSE 0
    <3>1. n \in Nat /\ n' = n
      BY <2>5
    <3>2. Held = steering + followUps + delivered + n /\ Held' = steering' + followUps' + delivered' + n'
      BY DEF Held
    <3> HIDE DEF n
    <3>3. delivered' = delivered /\ steering' + followUps' = steering + followUps + 1
          /\ steering' \in Nat /\ followUps' \in Nat
      BY <2>1
    <3>4. Held \in Nat
      BY <1>0, <3>1, <3>2
    <3>5. Held' = steering' + followUps' + delivered + n
      BY <3>1, <3>2, <3>3, Zenon
    <3>6. steering + followUps + 1 + delivered + n = steering + followUps + delivered + n + 1
      BY <1>0, <3>1
    <3>7. steering' + followUps' + delivered + n = steering + followUps + delivered + n + 1
      BY <3>3, <3>6, Zenon
    <3> QED
      BY <3>2, <3>4, <3>5, <3>7, Zenon
  <2>7. Conserved'
    BY <1>0, <2>1, <2>6 DEF Conserved
  <2> QED
    BY <2>2, <2>3, <2>4, <2>7, HeldFacts DEF SessionInv
<1>4. CASE Abort
  <2>1. /\ UNCHANGED <<log, tip, inflight, mode, pc, attempt, calls, from, steering, followUps, turns,
                       issued, inputs, delivered, late, crashes, faults>>
        /\ aborted' = TRUE
    BY <1>4 DEF Abort
  <2>2. SessionTypeOK'
    BY <2>1 DEF SessionInv, SessionTypeOK
  <2>3. TurnInv'
    BY <2>1 DEF SessionInv, TurnInv, Fitting
  <2>4. LateInv'
    BY <2>1 DEF SessionInv, LateInv
  <2>5. Left' <=> Left
    BY <2>1 DEF Left
  <2>6. Conserved'
    BY <1>0, <2>1, <2>5 DEF Conserved, Held
  <2> QED
    BY <2>2, <2>3, <2>4, <2>6, HeldFacts DEF SessionInv
<1>5. ASSUME NEW r \in Recorders, Record(r)
      PROVE  SessionInv'
  <2> DEFINE a == [by |-> r, event |-> [Event("recorded", "none", 0) EXCEPT !.parent = tip]]
  <2>1. /\ UNCHANGED <<log, tip, mode, pc, attempt, calls, from, aborted, steering, followUps, turns,
                       issued, inputs, delivered, late, crashes, faults>>
        /\ inflight' = Append(inflight, a) /\ mode = "open"
    BY <1>5 DEF Record, Call
  <2>2. a \in Appends /\ a.by # "turn"
    <3>1. "recorded" \in EventTypes /\ "none" \in Stops /\ r # "turn"
      BY RecordersAssumption DEF EventTypes, Stops
    <3> QED
      BY <1>0, <3>1, EventFacts DEF Appends
  <2> HIDE DEF a
  <2>3. /\ inflight' \in Seq(Appends) /\ Alone(inflight')
        /\ TurnEvents(inflight') = TurnEvents(inflight)
    BY <1>0, <2>1, <2>2, AppendFacts
  <2>4. SessionTypeOK'
    BY <2>1, <2>3 DEF SessionInv, SessionTypeOK
  <2>5. TurnInv'
    BY <2>1, <2>3 DEF SessionInv, TurnInv, Fitting
  <2>6. LateInv'
    BY <2>1, <2>3 DEF SessionInv, LateInv
  <2>7. Left' <=> Left
    BY <2>1, <2>3 DEF Left
  <2>8. Conserved'
    BY <1>0, <2>1, <2>7 DEF Conserved, Held
  <2> QED
    BY <2>4, <2>5, <2>6, <2>8, HeldFacts DEF SessionInv
<1> QED
  BY <1>1, <1>2, <1>3, <1>4, <1>5 DEF Request

\* A failed append keeps the invariant: it costs at most one queued message.
LEMMA AppendFailsStep ==
    ASSUME SessionInv, AppendFails
    PROVE  SessionInv'
<1> DEFINE e == Head(inflight).event  rest == Tail(inflight)
<1> USE DEF queues, messages, model
<1>0. /\ mode = "open" /\ inflight # <<>> /\ inflight \in Seq(Appends) /\ Alone(inflight) /\ tip \in Nat
      /\ faults' = faults + 1
      /\ UNCHANGED <<log, tip, mode, attempt, calls, from, aborted, steering, followUps, turns, issued,
                     inputs, delivered, late, crashes>>
  BY DEF SessionInv, SessionTypeOK, TurnInv, AppendFails
<1>1. /\ rest \in Seq(Appends) /\ Alone(rest) /\ e \in Events
      /\ Head(inflight).by # "turn" => TurnEvents(rest) = TurnEvents(inflight)
      /\ Head(inflight).by = "turn" => TurnEvents(rest) = {} /\ TurnEvents(inflight) = {e}
  BY <1>0, HeadFacts DEF Appends
<1>2. /\ steering \in Nat /\ followUps \in Nat /\ delivered \in Nat /\ inputs \in Nat /\ faults \in Nat
      /\ Conserved
  BY HeldFacts DEF SessionInv, SessionTypeOK
<1>3. CASE Head(inflight).by # "turn"
  <2>1. inflight' = rest /\ pc' = pc
    BY <1>3 DEF AppendFails
  <2>2. SessionTypeOK'
    BY <1>0, <1>1, <1>2, <2>1 DEF SessionInv, SessionTypeOK
  <2>3. TurnInv'
    BY <1>0, <1>1, <1>3, <2>1 DEF SessionInv, TurnInv, Fitting
  <2>4. LateInv'
    BY <1>0, <1>1, <1>3, <2>1 DEF SessionInv, LateInv
  <2>5. Left' <=> Left
    BY <1>0, <1>1, <1>3, <2>1 DEF Left
  <2>6. Conserved'
    BY <1>0, <1>2, <2>5 DEF Conserved, Held
  <2> QED
    BY <2>2, <2>3, <2>4, <2>6, HeldFacts DEF SessionInv
<1>4. CASE Head(inflight).by = "turn"
  <2>1. /\ TurnEvents(rest) = {} /\ TurnEvents(inflight) = {e} /\ pc = "appending" /\ Fitting(e)
        /\ late \in {0, 1} /\ (late = 1 => aborted /\ Ending(e)) /\ aborted \in BOOLEAN
    BY <1>1, <1>4 DEF SessionInv, SessionTypeOK, TurnInv, LateInv
  <2>2. CASE e.type = "model.request_configured"
    <3> DEFINE stop == IF aborted THEN "aborted" ELSE "error"
    <3>1. /\ stop \in Stops /\ "assistant.message" \in EventTypes /\ stop # "none"
          /\ "assistant.message" \in TurnTypes \ ToolTypes
      BY DEF Stops, EventTypes, TurnTypes, ToolTypes
    <3>2. Issue(Event("assistant.message", stop, 0), rest, tip)
      BY <1>4, <2>2 DEF AppendFails
    <3> HIDE DEF stop, rest
    <3>3. PICK f \in Events : /\ inflight' \in Seq(Appends) /\ Alone(inflight') /\ pc' = "appending"
                              /\ TurnEvents(inflight') = {f} /\ f.type = "assistant.message" /\ f.stop = stop
      BY <1>0, <1>1, <2>1, <3>1, <3>2, IssueFacts
    <3>4. late = 0
      BY <2>1, <2>2 DEF Ending, ToolTypes
    <3>5. SessionTypeOK'
      BY <1>0, <1>2, <3>3 DEF SessionInv, SessionTypeOK
    <3>6. TurnInv'
      BY <1>0, <3>1, <3>3 DEF TurnInv, Fitting
    <3>7. LateInv'
      BY <1>0, <3>4 DEF LateInv
    <3>8. ~Left /\ ~Left'
      BY <2>1, <2>2, <3>3 DEF Left
    <3>9. Conserved'
      BY <1>0, <1>2, <3>8 DEF Conserved, Held
    <3> QED
      BY <3>5, <3>6, <3>7, <3>9, HeldFacts DEF SessionInv
  <2>3. CASE e.type # "model.request_configured"
    <3>1. inflight' = rest /\ pc' = "idle"
      BY <1>4, <2>3 DEF AppendFails, Throw, Return
    <3>2. SessionTypeOK'
      BY <1>0, <1>1, <1>2, <3>1 DEF SessionInv, SessionTypeOK
    <3>3. TurnInv'
      BY <1>0, <1>1, <2>1, <3>1 DEF TurnInv
    <3>4. LateInv'
      BY <1>0, <2>1, <3>1 DEF LateInv
    <3>5. ~Left'
      BY <3>1 DEF Left
    <3>6. Conserved'
      BY <1>0, <1>2, <3>5 DEF Conserved, Held
    <3> QED
      BY <3>2, <3>3, <3>4, <3>6, HeldFacts DEF SessionInv
  <2> QED
    BY <2>2, <2>3
<1> QED
  BY <1>3, <1>4

\* Steps with no turn and nothing in flight that keep the queues keep the invariant.
LEMMA IdleGoes ==
    ASSUME SessionInv, log' \in Seq(Events), tip' \in Nat, pc = "idle", inflight = <<>>,
           mode' \in {"open", "closed", "recovering", "reconciling", "broken"},
           UNCHANGED <<inflight, pc, attempt, calls, from, aborted, steering, followUps, turns, issued,
                       inputs, delivered, late, crashes, faults>>
    PROVE  SessionInv'
<1>1. SessionTypeOK'
  BY DEF SessionInv, SessionTypeOK
<1>2. TurnInv'
  BY NoneInFlight DEF TurnInv
<1>3. LateInv'
  BY DEF SessionInv, LateInv
<1>4. ~Left /\ ~Left'
  BY DEF Left
<1>5. Conserved'
  BY <1>4, HeldFacts DEF SessionInv, Conserved, Held
<1> QED
  BY <1>1, <1>2, <1>3, <1>5, HeldFacts DEF SessionInv

\* An event appended to the log.
LEMMA Logged ==
    ASSUME NEW l \in Seq(Events), NEW e \in Events
    PROVE  /\ Append(l, e) \in Seq(Events) /\ Len(Append(l, e)) = Len(l) + 1 /\ Len(l) \in Nat
           /\ Append(l, e)[Len(l) + 1] = e /\ \A i \in 1..Len(l) : Append(l, e)[i] = l[i]
BY AppendProperties, LenProperties

\* A crash and the steps of recovery keep the invariant.
LEMMA RecoveryStep ==
    ASSUME SessionInv, Crash \/ Recovery
    PROVE  SessionInv'
<1> USE DEF queues, messages, counters, branch, model
<1>0. /\ log \in Seq(Events) /\ tip \in Nat /\ Len(log) \in Nat /\ Len(log) + 1 \in Nat
      /\ inflight \in Seq(Appends) /\ Alone(inflight)
      /\ mode # "open" => pc = "idle" /\ inflight = <<>>
      /\ {"tool.result", "recorded", "assistant.message"} \subseteq EventTypes
      /\ {"none", "aborted"} \subseteq Stops
  BY LenProperties DEF SessionInv, SessionTypeOK, TurnInv, EventTypes, Stops
<1>1. CASE Crash
  <2>1. /\ mode' = "closed" /\ pc' = "idle" /\ inflight' = <<>> /\ aborted' = FALSE /\ steering' = 0
        /\ followUps' = 0 /\ inputs' = 0 /\ delivered' = 0 /\ late' = 0 /\ crashes' = crashes + 1
        /\ UNCHANGED <<tip, attempt, calls, from, turns, issued, faults>>
        /\ log' = log \/ (inflight # <<>> /\ log' = Append(log, Head(inflight).event))
    BY <1>1 DEF Crash
  <2>2. log' \in Seq(Events)
    <3>1. CASE log' = log
      BY <1>0, <3>1
    <3>2. CASE inflight # <<>> /\ log' = Append(log, Head(inflight).event)
      <4>1. Head(inflight).event \in Events
        BY <1>0, <3>2, HeadFacts DEF Appends
      <4> QED
        BY <1>0, <3>2, <4>1, Logged
    <3> QED
      BY <2>1, <3>1, <3>2
  <2>3. SessionTypeOK'
    <3>1. inflight' \in Seq(Appends)
      BY <2>1, NoneInFlight
    <3>2. aborted' \in BOOLEAN
      BY <2>1, Zenon
    <3>3. crashes' \in Nat
      BY <2>1 DEF SessionInv, SessionTypeOK
    <3> QED
      BY <2>1, <2>2, <3>1, <3>2, <3>3 DEF SessionInv, SessionTypeOK
  <2>4. TurnInv'
    BY <2>1, NoneInFlight DEF TurnInv
  <2>5. LateInv'
    BY <2>1 DEF LateInv
  <2>6. ~Left' /\ faults \in Nat
    BY <2>1 DEF Left, SessionInv, SessionTypeOK
  <2>7. Conserved'
    BY <2>1, <2>6 DEF Conserved, Held
  <2> QED
    BY <2>3, <2>4, <2>5, <2>7, HeldFacts DEF SessionInv
<1>2. CASE Open
  <2>1. /\ UNCHANGED <<log, inflight, pc, attempt, calls, from, aborted, steering, followUps, turns,
                       issued, inputs, delivered, late, crashes, faults>>
        /\ mode = "closed" /\ mode' \in {"recovering", "broken"} /\ tip' \in {tip, Len(log)}
    BY <1>2 DEF Open
  <2> QED
    BY <1>0, <2>1, IdleGoes
<1>3. CASE Opened
  <2>1. /\ UNCHANGED <<inflight, pc, attempt, calls, from, aborted, steering, followUps, turns,
                       issued, inputs, delivered, late, crashes, faults>>
        /\ mode = "recovering" /\ mode' = "reconciling" /\ tip' = Len(log) + 1
        /\ log' = Append(log, [Event("recorded", "none", 0) EXCEPT !.parent = tip])
    BY <1>3 DEF Opened
  <2>2. log' \in Seq(Events)
    BY <1>0, <2>1, EventFacts, Logged
  <2> QED
    BY <1>0, <2>1, <2>2, IdleGoes
<1>4. CASE Serve
  <2>1. /\ UNCHANGED <<log, tip, inflight, pc, attempt, calls, from, aborted, steering, followUps, turns,
                       issued, inputs, delivered, late, crashes, faults>>
        /\ mode = "reconciling" /\ mode' = "open"
    BY <1>4 DEF Serve
  <2> QED
    BY <1>0, <2>1, IdleGoes
<1>5. CASE AbortRecoveredTurn
  <2>1. /\ UNCHANGED <<inflight, mode, pc, attempt, calls, from, aborted, steering, followUps, turns,
                       issued, inputs, delivered, late, crashes, faults>>
        /\ mode = "reconciling" /\ tip' = Len(log) + 1
        /\ log' = Append(log, [Event("assistant.message", "aborted", 0) EXCEPT !.parent = tip])
    BY <1>5 DEF AbortRecoveredTurn
  <2>2. log' \in Seq(Events)
    BY <1>0, <2>1, EventFacts, Logged
  <2> QED
    BY <1>0, <2>1, <2>2, IdleGoes
<1>6. ASSUME NEW c \in 1..MaxCalls, RecoverCall(c)
      PROVE  SessionInv'
  <2>1. /\ UNCHANGED <<inflight, mode, pc, attempt, calls, from, aborted, steering, followUps, turns,
                       issued, inputs, delivered, late, crashes, faults>>
        /\ mode = "recovering" /\ tip' = Len(log) + 1
        /\ log' = Append(log, [Event("tool.result", "none", c) EXCEPT !.parent = tip])
    BY <1>6 DEF RecoverCall
  <2>2. c \in Nat
    BY SessionBounds
  <2>3. log' \in Seq(Events)
    BY <1>0, <2>1, <2>2, EventFacts, Logged
  <2> QED
    BY <1>0, <2>1, <2>3, IdleGoes
<1> QED
  BY <1>1, <1>2, <1>3, <1>4, <1>5, <1>6 DEF Recovery

\* The invariant holds at first.
LEMMA SessionInit == Init => SessionInv
<1> SUFFICES ASSUME Init PROVE SessionInv
  OBVIOUS
<1>1. Event("session.created", "none", 0) \in Events
  BY DEF Event, Events, EventTypes, Stops
<1>2. SessionTypeOK
  <2>1. log \in Seq(Events)
    <3> DEFINE e == Event("session.created", "none", 0)
    <3>1. log = <<e>> /\ e \in Events
      BY <1>1 DEF Init
    <3> HIDE DEF e
    <3> QED
      BY <3>1
  <2>2. inflight \in Seq(Appends) /\ calls \in Seq(Nat)
    BY NoneInFlight, EmptySeq DEF Init
  <2> QED
    BY <2>1, <2>2 DEF Init, SessionTypeOK
<1>3. TurnInv
  BY NoneInFlight DEF Init, TurnInv
<1>4. LateInv
  BY DEF Init, LateInv
<1>5. ~Left
  BY DEF Init, Left
<1>6. Conserved
  BY <1>5 DEF Init, Conserved, Held
<1> QED
  BY <1>2, <1>3, <1>4, <1>6, HeldFacts DEF SessionInv

\* Every step keeps the invariant.
LEMMA SessionStep == SessionInv /\ [Next]_vars => SessionInv'
<1> SUFFICES ASSUME SessionInv, [Next]_vars PROVE SessionInv'
  OBVIOUS
<1>1. CASE TurnStep
  BY <1>1, ModelStep, StoreStep DEF TurnStep
<1>2. CASE Recovery \/ Crash
  BY <1>2, RecoveryStep
<1>3. CASE Request
  BY <1>3, RequestStep
<1>4. CASE AppendFails
  BY <1>4, AppendFailsStep
<1>5. CASE UNCHANGED vars
  <2>1. UNCHANGED <<log, tip, inflight, mode, pc, attempt, calls, from, aborted, steering, followUps, turns,
                    issued, inputs, delivered, late, crashes, faults>>
    BY <1>5 DEF vars, branch, model, queues, messages, counters
  <2>2. SessionTypeOK'
    BY <2>1 DEF SessionInv, SessionTypeOK
  <2>3. TurnInv'
    BY <2>1 DEF SessionInv, TurnInv, Fitting
  <2>4. LateInv'
    BY <2>1 DEF SessionInv, LateInv
  <2>5. QueuedInputConserved'
    BY <2>1 DEF SessionInv, QueuedInputConserved
  <2> QED
    BY <2>2, <2>3, <2>4, <2>5 DEF SessionInv
<1> QED
  BY <1>1, <1>2, <1>3, <1>4, <1>5 DEF Next

\* What holds of every state of a session.
THEOREM SessionInvariance == Spec => []SessionInv
BY SessionInit, SessionStep, PTL DEF Spec

\* An aborted batch starts at most one more tool, however calls, results, steering and
\* appends of others interleave with the abort.
THEOREM OneToolAfterAbort == Spec => []AtMostOneToolAfterAbort
<1>1. SessionInv => AtMostOneToolAfterAbort
  BY DEF SessionInv, LateInv, AtMostOneToolAfterAbort
<1> QED
  BY <1>1, SessionInvariance, PTL

\* Queued steering and follow-ups are delivered once, and lost only to a failed append.
THEOREM InputConserved == Spec => []QueuedInputConserved
<1>1. SessionInv => QueuedInputConserved
  BY DEF SessionInv
<1> QED
  BY <1>1, SessionInvariance, PTL

\* The turn returns from Store only after its terminal event.
LEMMA StoreEnds ==
    ASSUME SessionInv, Store, pc # "idle", pc' = "idle"
    PROVE  Terminal(log'[Len(log')])
<1> DEFINE e == Head(inflight).event  rest == Tail(inflight)  at == Len(log) + 1
<1>1. log'[Len(log')] = e
  <2>1. log \in Seq(Events) /\ e \in Events /\ log' = Append(log, e)
    BY StoreFacts DEF SessionInv, SessionTypeOK
  <2> HIDE DEF e
  <2>2. Len(log') = Len(log) + 1 /\ log'[Len(log) + 1] = e
    BY <2>1, Logged
  <2> QED
    BY <2>2
<1>2. Head(inflight).by = "turn"
  BY DEF Store
<1>3. Fitting(e) /\ e \in Events
  BY <1>2, StoreFacts
<1> HIDE DEF e, rest, at
<1>4. /\ e.type = "user.message" => AfterUser(rest)
      /\ e.type = "assistant.message" => AfterAssistant(e.stop, rest, at)
      /\ e.type = "tool.result" => AfterResult(rest, at)
      /\ e.type \notin {"user.message", "assistant.message", "tool.result"} => AfterOther(e, rest, at)
  BY <1>2, StoreTurn DEF e, rest, at
<1>5. CASE e.type = "user.message"
  BY <1>4, <1>5 DEF AfterUser, GoOn
<1>6. CASE e.type = "assistant.message"
  <2>1. CASE e.stop \in {"error", "aborted", "stop"}
    BY <1>1, <1>6, <2>1 DEF Terminal
  <2>2. CASE e.stop \notin {"error", "aborted", "stop"}
    BY <1>4, <1>6, <2>2 DEF AfterAssistant, MissingCall, NextCall, Issue
  <2> QED
    BY <2>1, <2>2
<1>7. CASE e.type = "tool.result"
  <2>1. AfterResult(rest, at)
    BY <1>4, <1>7
  <2>2. CASE aborted
    BY <2>1, <2>2 DEF AfterResult, StopBatch, GoOn
  <2>3. CASE ~aborted /\ Len(calls) > 1
    BY <2>1, <2>3 DEF AfterResult, StopBatch, Issue
  <2>4. CASE ~aborted /\ ~(Len(calls) > 1)
    BY <2>1, <2>4 DEF AfterResult, StopBatch, Boundary, Issue, GoOn
  <2> QED
    BY <2>2, <2>3, <2>4
<1>8. CASE e.type \notin {"user.message", "assistant.message", "tool.result"}
  <2>1. AfterOther(e, rest, at)
    BY <1>4, <1>8
  <2>2. e.type \in {"model.request_configured", "model.retry_scheduled", "tool.call", "sandbox.violation", "session.error"}
    BY <1>3, <1>8 DEF Fitting, TurnTypes, EventTypes
  <2>3. CASE e.type = "session.error"
    BY <1>1, <2>3 DEF Terminal
  <2>4. CASE e.type \in {"model.request_configured", "model.retry_scheduled", "tool.call", "sandbox.violation"}
    BY <2>1, <2>4, OtherTurn DEF GoOn, Issue
  <2> QED
    BY <2>2, <2>3, <2>4
<1> QED
  BY <1>5, <1>6, <1>7, <1>8

\* No other step ends a turn of an open session without a failed append.
LEMMA OthersDoNotEnd ==
    ASSUME SessionInv, [Next]_vars, pc # "idle", pc' = "idle", mode' = "open", faults' = faults
    PROVE  Store
<1> USE DEF queues, messages, counters, branch, model
<1>0. mode = "open" /\ faults \in Nat
  BY DEF SessionInv, SessionTypeOK, TurnInv
<1>1. CASE ModelTurn \/ Completes \/ Fails \/ BackoffEnds \/ ToolEnds
  BY <1>1 DEF ModelTurn, Completes, Fails, BackoffEnds, ToolEnds, Stream, GoOn, Issue
<1>2. CASE Recovery
  BY <1>0, <1>2 DEF Recovery, Open, Opened, Serve, AbortRecoveredTurn, RecoverCall
<1>3. CASE Request
  BY <1>3 DEF Request, StartTurn, ContinueQueued, Queue, Abort, Record
<1>4. CASE AppendFails
  BY <1>0, <1>4 DEF AppendFails
<1>5. CASE Crash
  BY <1>5 DEF Crash
<1>6. CASE UNCHANGED vars
  BY <1>6 DEF vars
<1> QED
  BY <1>1, <1>2, <1>3, <1>4, <1>5, <1>6 DEF Next, TurnStep

\* A turn that returns without an I/O error has just stored the event send(), interrupt()
\* and reconciliation take for its end.
THEOREM TurnsEndTerminal == Spec => TurnEndsTerminal
<1>1. SessionInv /\ [Next]_vars =>
        [pc # "idle" /\ pc' = "idle" /\ mode' = "open" /\ faults' = faults
           => Terminal(log'[Len(log')])]_vars
  BY OthersDoNotEnd, StoreEnds
<1> QED
  BY <1>1, SessionInvariance, PTL DEF Spec, TurnEndsTerminal

-----------------------------------------------------------------------------
(***************************************************************************)
(* The log of a session nobody records beside: it is one line, and its     *)
(* tool calls and results match.                                           *)
(***************************************************************************)
Linear(l) == \A n \in DOMAIN l : l[n].parent = n - 1
AllCalls(l) == CallsIn(l, DOMAIN l)
AllResults(l) == ResultsIn(l, DOMAIN l)
Paired(l) ==
    /\ \A n \in DOMAIN l : l[n].type = "tool.result" =>
         \E m \in DOMAIN l : m < n /\ l[m].type = "tool.call" /\ l[m].call = l[n].call
    /\ \A m, n \in DOMAIN l : l[m].type = l[n].type /\ l[m].call = l[n].call
                              /\ l[n].type \in {"tool.call", "tool.result"} => m = n

\* The log is the line the tip ends, and the session has read all of it.
LineInv ==
    /\ Linear(log) /\ Paired(log) /\ mode # "broken" /\ Len(inflight) <= 1
    /\ \A e \in TurnEvents(inflight) : e.parent = tip
    /\ mode # "closed" => /\ tip = Len(log) /\ answered = AllResults(log)
                          /\ AllCalls(log) \subseteq offered

\* Where the turn stands in its batch: before the call it runs next is logged, after, or
\* with no batch at all.
Awaits(types) == \E e \in TurnEvents(inflight) : e.type \in types
ToCome == Awaits({"assistant.message", "tool.call"})
Begun == pc = "executing" \/ Awaits({"tool.result", "sandbox.violation"})
NoBatch == pc \in {"streaming", "backoff"} \/ Awaits({"model.request_configured", "model.retry_scheduled"})

\* Calls are numbered as they are issued; those to come are not in the log, and the one
\* that runs is there without a result.
Numbered ==
    /\ \A i \in DOMAIN calls : calls[i] <= issued
    /\ \A i, j \in DOMAIN calls : calls[i] = calls[j] => i = j
    /\ \A c \in AllCalls(log) : c <= issued
CallsInv ==
    /\ Numbered
    /\ ToCome => \A i \in DOMAIN calls : calls[i] \notin AllCalls(log)
    /\ Begun => /\ Head(calls) \in AllCalls(log) /\ Head(calls) \notin AllResults(log)
                /\ \A i \in DOMAIN calls : i # 1 => calls[i] \notin AllCalls(log)
    /\ Begun \/ Awaits({"tool.call"}) => \A i \in DOMAIN calls : calls[i] \in offered
    /\ NoBatch => calls = <<>>

LogInv == LineInv /\ CallsInv

\* The lineage of an event of a one-line log is everything up to it.
LEMMA LineageLinear ==
    ASSUME NEW l \in Seq(Events), Linear(l), NEW n \in 0..Len(l)
    PROVE  Lineage(l, n) = 1..n
<1> DEFINE Is(f) == f = [i \in 0..Len(l) |-> IF i = 0 THEN {} ELSE {i} \cup f[l[i].parent]]
           path == CHOOSE f : Is(f)
           g == [i \in 0..Len(l) |-> 1..i]
<1>0. Len(l) \in Nat /\ DOMAIN l = 1..Len(l)
  BY LenProperties
<1>1. \A i \in 0..Len(l) : i # 0 => l[i].parent = i - 1 /\ i - 1 \in 0..Len(l)
  BY <1>0 DEF Linear
<1>2. Is(g)
  <2>1. \A i \in 0..Len(l) : g[i] = IF i = 0 THEN {} ELSE {i} \cup g[l[i].parent]
    <3> SUFFICES ASSUME NEW i \in 0..Len(l) PROVE g[i] = IF i = 0 THEN {} ELSE {i} \cup g[l[i].parent]
      OBVIOUS
    <3>1. CASE i = 0
      BY <1>0, <3>1
    <3>2. CASE i # 0
      <4>1. g[l[i].parent] = 1..(i - 1)
        BY <1>1, <3>2
      <4>2. {i} \cup 1..(i - 1) = 1..i
        BY <1>0, <3>2
      <4> QED
        BY <3>2, <4>1, <4>2
    <3> QED
      BY <3>1, <3>2
  <2> QED
    BY <2>1
<1>3. Is(path)
  <2> HIDE DEF Is, g
  <2> QED
    BY <1>2, Zenon
<1>4. \A i \in 0..Len(l) : path[i] = IF i = 0 THEN {} ELSE {i} \cup path[l[i].parent]
  <2> HIDE DEF path
  <2> QED
    BY <1>3
<1>5. Lineage(l, n) = path[n]
  BY DEF Lineage
<1> HIDE DEF path, Is
<1>6. ASSUME NEW k \in 0..Len(l), path[k] # 1..k
      PROVE  FALSE
  <2> DEFINE T == {i \in Nat : i \in 0..Len(l) /\ path[i] # 1..i}
  <2>1. T \subseteq Nat /\ T # {}
    BY <1>0, <1>6
  <2>2. PICK m \in T : \A i \in T : ~(<<i, m>> \in OpToRel(<, Nat))
    BY <2>1, NatLessThanWellFounded, WFMin
  <2>3. m \in 0..Len(l) /\ path[m] # 1..m /\ m \in Nat
    BY DEF T
  <2>4. m # 0
    <3>0. 0 \in 0..Len(l)
      BY <1>0
    <3>1. path[0] = {}
      BY <1>4, <3>0, Zenon
    <3>2. 1..0 = {}
      OBVIOUS
    <3> QED
      BY <2>3, <3>1, <3>2, Zenon
  <2>5. path[m - 1] = 1..(m - 1)
    <3>1. m - 1 \in Nat /\ m - 1 \in 0..Len(l) /\ m - 1 < m
      BY <1>0, <2>3, <2>4
    <3>2. <<m - 1, m>> \in OpToRel(<, Nat)
      BY <2>3, <3>1 DEF OpToRel
    <3>3. m - 1 \notin T
      BY <2>2, <3>2
    <3> QED
      BY <3>1, <3>3
  <2>6. path[m] = {m} \cup 1..(m - 1)
    BY <1>1, <1>4, <2>3, <2>4, <2>5
  <2>7. {m} \cup 1..(m - 1) = 1..m
    BY <2>3, <2>4
  <2> QED
    BY <2>3, <2>6, <2>7
<1> QED
  BY <1>5, <1>6

\* Nothing of the log changes when an event is added to its end.
LEMMA Grown ==
    ASSUME NEW l \in Seq(Events), NEW e \in Events, NEW k, k = Append(l, e)
    PROVE  /\ AllCalls(k) = AllCalls(l) \cup (IF e.type = "tool.call" THEN {e.call} ELSE {})
           /\ AllResults(k) = AllResults(l) \cup (IF e.type = "tool.result" THEN {e.call} ELSE {})
           /\ Linear(l) /\ e.parent = Len(l) => Linear(k)
           /\ /\ Paired(l)
              /\ e.type = "tool.call" => e.call \notin AllCalls(l)
              /\ e.type = "tool.result" => e.call \in AllCalls(l) /\ e.call \notin AllResults(l)
              => Paired(k)
           /\ Len(k) = Len(l) + 1
<1>1. /\ k \in Seq(Events) /\ Len(l) \in Nat /\ Len(k) = Len(l) + 1
      /\ DOMAIN l = 1..Len(l) /\ DOMAIN k = 1..(Len(l) + 1)
      /\ k[Len(l) + 1] = e /\ \A i \in 1..Len(l) : k[i] = l[i]
  BY Logged, LenProperties
<1>2. DOMAIN k = DOMAIN l \cup {Len(l) + 1} /\ \A i \in DOMAIN l : k[i] = l[i] /\ i < Len(l) + 1
  BY <1>1
<1>3. AllCalls(k) = AllCalls(l) \cup (IF e.type = "tool.call" THEN {e.call} ELSE {})
  BY <1>1, <1>2 DEF AllCalls, CallsIn
<1>4. AllResults(k) = AllResults(l) \cup (IF e.type = "tool.result" THEN {e.call} ELSE {})
  BY <1>1, <1>2 DEF AllResults, ResultsIn
<1>5. ASSUME Linear(l), e.parent = Len(l)
      PROVE  Linear(k)
  BY <1>1, <1>2, <1>5 DEF Linear
<1>6. ASSUME Paired(l), e.type = "tool.call" => e.call \notin AllCalls(l),
             e.type = "tool.result" => e.call \in AllCalls(l) /\ e.call \notin AllResults(l)
      PROVE  Paired(k)
  <2>1. ASSUME NEW n \in DOMAIN k, k[n].type = "tool.result"
        PROVE  \E m \in DOMAIN k : m < n /\ k[m].type = "tool.call" /\ k[m].call = k[n].call
    <3>1. CASE n \in DOMAIN l
      BY <1>2, <1>6, <2>1, <3>1 DEF Paired
    <3>2. CASE n = Len(l) + 1
      BY <1>1, <1>2, <1>6, <2>1, <3>2 DEF AllCalls, CallsIn
    <3> QED
      BY <1>2, <3>1, <3>2
  <2>2. ASSUME NEW m \in DOMAIN k, NEW n \in DOMAIN k, k[m].type = k[n].type, k[m].call = k[n].call,
               k[n].type \in {"tool.call", "tool.result"}
        PROVE  m = n
    <3>1. \A i \in DOMAIN l : ~(l[i].type = e.type /\ l[i].call = e.call /\ e.type \in {"tool.call", "tool.result"})
      BY <1>6 DEF AllCalls, AllResults, CallsIn, ResultsIn
    <3>2. CASE m \in DOMAIN l /\ n \in DOMAIN l
      BY <1>2, <1>6, <2>2, <3>2 DEF Paired
    <3> QED
      BY <1>1, <1>2, <2>2, <3>1, <3>2
  <2> QED
    BY <2>1, <2>2 DEF Paired
<1> QED
  BY <1>1, <1>3, <1>4, <1>5, <1>6

\* Calls are numbers.
LEMMA CallNumbers ==
    ASSUME NEW l \in Seq(Events)
    PROVE  AllCalls(l) \subseteq Nat
<1>1. \A i \in DOMAIN l : l[i] \in Events
  BY ElementOfSeq, LenProperties
<1>2. \A i \in DOMAIN l : l[i].call \in Nat
  BY <1>1 DEF Events
<1> QED
  BY <1>2 DEF AllCalls, CallsIn

\* Only calls have results.
LEMMA ResultsHaveCalls ==
    ASSUME NEW l \in Seq(Events), Paired(l)
    PROVE  AllResults(l) \subseteq AllCalls(l)
BY DEF Paired, AllResults, AllCalls, CallsIn, ResultsIn

\* open() accepts a one-line log whose calls and results match.
LEMMA LineVerified ==
    ASSUME NEW l \in Seq(Events), Linear(l), Paired(l)
    PROVE  WellRooted(l) /\ Verified(l)
<1>0. Len(l) \in Nat /\ DOMAIN l = 1..Len(l)
  BY LenProperties
<1>1. WellRooted(l)
  BY <1>0 DEF WellRooted, Linear
<1>2. ASSUME NEW n \in DOMAIN l
      PROVE  LET before == Lineage(l, n) \ {n} IN
             /\ l[n].type = "tool.result" => /\ l[n].call \in CallsIn(l, before)
                                             /\ l[n].call \notin ResultsIn(l, before)
             /\ l[n].type = "tool.call" => l[n].call \notin CallsIn(l, before)
  <2> DEFINE before == Lineage(l, n) \ {n}
  <2>1. Lineage(l, n) = 1..n
    BY <1>0, LineageLinear
  <2>2. \A m : m \in before <=> m \in DOMAIN l /\ m < n
    BY <1>0, <2>1
  <2> HIDE DEF before
  <2>3. ASSUME l[n].type = "tool.result"
        PROVE  l[n].call \in CallsIn(l, before) /\ l[n].call \notin ResultsIn(l, before)
    <3>1. PICK m \in DOMAIN l : m < n /\ l[m].type = "tool.call" /\ l[m].call = l[n].call
      BY <2>3 DEF Paired
    <3>2. l[n].call \in CallsIn(l, before)
      BY <2>2, <3>1 DEF CallsIn
    <3>3. \A k \in before : k # n /\ k \in DOMAIN l
      BY <1>0, <2>2
    <3>4. \A k \in before : ~(l[k].type = "tool.result" /\ l[k].call = l[n].call)
      BY <2>3, <3>3 DEF Paired
    <3> QED
      BY <3>2, <3>4 DEF ResultsIn
  <2>4. ASSUME l[n].type = "tool.call"
        PROVE  l[n].call \notin CallsIn(l, before)
    <3>3. \A k \in before : k # n /\ k \in DOMAIN l
      BY <1>0, <2>2
    <3>4. \A k \in before : ~(l[k].type = "tool.call" /\ l[k].call = l[n].call)
      BY <2>4, <3>3 DEF Paired
    <3> QED
      BY <3>4 DEF CallsIn
  <2> QED
    BY <2>3, <2>4 DEF before
<1> QED
  BY <1>1, <1>2 DEF Verified

-----------------------------------------------------------------------------
\* With nobody recording beside the turn, what is in flight is the turn's one append.
LEMMA OneInFlight ==
    ASSUME Recorders = {}, SessionInv, LineInv, inflight # <<>>
    PROVE  /\ Head(inflight).by = "turn" /\ Tail(inflight) = <<>> /\ mode = "open"
           /\ pc = "appending" /\ TurnEvents(inflight) = {Head(inflight).event}
           /\ Head(inflight).event \in Events /\ Fitting(Head(inflight).event)
           /\ Head(inflight).event.parent = Len(log)
<1>1. inflight \in Seq(Appends) /\ Alone(inflight) /\ mode = "open" /\ Len(inflight) <= 1
  BY DEF SessionInv, SessionTypeOK, TurnInv, LineInv
<1>2. /\ Head(inflight) \in Appends /\ Tail(inflight) \in Seq(Appends)
      /\ Len(Tail(inflight)) = Len(inflight) - 1 /\ Len(inflight) \in Nat
  BY <1>1, HeadFacts
<1>3. Head(inflight).by = "turn" /\ Head(inflight).event \in Events
  BY <1>2 DEF Appends
<1>4. TurnEvents(inflight) = {Head(inflight).event}
  BY <1>1, <1>3, HeadFacts
<1>5. Len(inflight) # 0 /\ Len(inflight) >= 0
  BY <1>1, <1>2, NoneInFlight
<1>6. Len(inflight) - 1 = 0
  BY <1>1, <1>2, <1>5
<1>7. Tail(inflight) = <<>>
  BY <1>2, <1>6, NoneInFlight, Zenon
<1>8. pc = "appending" /\ Fitting(Head(inflight).event)
  BY <1>4 DEF SessionInv, TurnInv
<1>9. Head(inflight).event.parent = Len(log)
  BY <1>1, <1>4 DEF LineInv
<1> QED
  BY <1>1, <1>3, <1>4, <1>7, <1>8, <1>9

\* With nothing in flight the turn appends one event.
LEMMA NoneWhileIdle ==
    ASSUME Recorders = {}, SessionInv, LineInv, pc # "appending"
    PROVE  inflight = <<>> /\ TurnEvents(inflight) = {} /\ Len(inflight) = 0
BY OneInFlight, NoneInFlight

\* What the turn awaits, when it is one event.
LEMMA AwaitsFacts ==
    /\ \A types : TurnEvents(inflight) = {} => ~Awaits(types)
    /\ \A types : TurnEvents(inflight') = {} => ~Awaits(types)'
    /\ \A types, e : TurnEvents(inflight) = {e} => (Awaits(types) <=> e.type \in types)
    /\ \A types, e : TurnEvents(inflight') = {e} => (Awaits(types)' <=> e.type \in types)
BY DEF Awaits

\* A step of the turn that leaves the log as it is.
LEMMA LineStays ==
    ASSUME SessionInv, LogInv, mode = "open", mode' = "open",
           UNCHANGED <<log, tip, offered, answered>>,
           \/ inflight' = <<>>
           \/ /\ Len(inflight') <= 1
              /\ \E e \in Events : TurnEvents(inflight') = {e} /\ e.parent = tip
    PROVE  LineInv'
BY NoneInFlight DEF LogInv, LineInv

\* The steps of the model and of tools.
LEMMA ModelLine ==
    ASSUME Recorders = {}, SessionInv, LogInv, ModelTurn \/ Completes \/ Fails \/ BackoffEnds \/ ToolEnds
    PROVE  LogInv'
<1> USE DEF counters, queues, messages
<1>0. /\ mode = "open" /\ mode' = "open" /\ pc # "appending" /\ UNCHANGED <<log, tip, offered, answered>>
      /\ pc \in {"model", "streaming", "backoff", "executing"}
  BY DEF ModelTurn, Completes, Fails, BackoffEnds, ToolEnds
<1>1. /\ inflight = <<>> /\ Len(inflight) = 0 /\ TurnEvents(inflight) = {} /\ tip \in Nat
      /\ issued \in Nat /\ calls \in Seq(Nat) /\ Numbered /\ LineInv /\ CallsInv
  BY <1>0, NoneWhileIdle DEF LogInv, CallsInv, SessionInv, SessionTypeOK
<1>2. /\ {"assistant.message", "model.request_configured", "model.retry_scheduled"} \subseteq EventTypes
      /\ {"sandbox.violation", "tool.result"} \subseteq EventTypes
      /\ {"aborted", "error", "stop", "tool_use", "none"} \subseteq Stops
  BY DEF EventTypes, Stops
<1>3. \A type \in EventTypes, stop \in Stops, call \in Nat :
        Issue(Event(type, stop, call), inflight, tip) =>
          /\ pc' = "appending" /\ LineInv'
          /\ \E e \in Events : TurnEvents(inflight') = {e} /\ e.type = type
  <2> SUFFICES ASSUME NEW type \in EventTypes, NEW stop \in Stops, NEW call \in Nat,
                      Issue(Event(type, stop, call), inflight, tip)
               PROVE  /\ pc' = "appending" /\ LineInv'
                      /\ \E e \in Events : TurnEvents(inflight') = {e} /\ e.type = type
    OBVIOUS
  <2>1. PICK e \in Events : /\ pc' = "appending" /\ Len(inflight') = Len(inflight) + 1
                            /\ TurnEvents(inflight') = {e} /\ e.type = type /\ e.parent = tip
    BY <1>0, TurnIssues
  <2>2. Len(inflight') <= 1
    BY <1>1, <2>1
  <2> QED
    BY <1>0, <2>1, <2>2, LineStays
<1>4. ASSUME Stream
      PROVE  /\ LineInv'
             /\ \/ pc' = "streaming" /\ TurnEvents(inflight') = {}
                \/ /\ pc' = "appending"
                   /\ \E e \in Events : TurnEvents(inflight') = {e} /\ e.type = "model.request_configured"
  <2>1. CASE GoOn(inflight, "streaming")
    <3>1. pc' = "streaming" /\ inflight' = <<>> /\ TurnEvents(inflight') = {}
      BY <1>1, <2>1 DEF GoOn
    <3> QED
      BY <1>0, <3>1, LineStays
  <2>2. CASE Issue(Event("model.request_configured", "none", 0), inflight, tip)
    BY <1>2, <1>3, <2>2
  <2> QED
    BY <1>4, <2>1, <2>2 DEF Stream
<1>5. CASE ModelTurn
  <2>1. calls' = <<>> /\ issued' = issued
    BY <1>5 DEF ModelTurn
  <2>2. /\ LineInv'
        /\ \/ pc' = "streaming" /\ TurnEvents(inflight') = {}
           \/ /\ pc' = "appending"
              /\ \E e \in Events : /\ TurnEvents(inflight') = {e}
                                   /\ e.type \in {"model.request_configured", "assistant.message"}
    <3>1. CASE aborted
      BY <1>2, <1>3, <1>5, <3>1 DEF ModelTurn
    <3>2. CASE ~aborted
      BY <1>4, <1>5, <3>2 DEF ModelTurn
    <3> QED
      BY <3>1, <3>2
  <2>3. Numbered'
    BY <1>0, <1>1, <2>1 DEF Numbered
  <2>4. ~Begun'
    BY <2>2, AwaitsFacts DEF Begun
  <2>5. CallsInv'
    BY <2>1, <2>3, <2>4 DEF CallsInv
  <2> QED
    BY <2>2, <2>5 DEF LogInv
<1>6. CASE Completes
  <2>1. PICK n \in 0..(MaxCalls - issued), stop \in {"stop", "tool_use"} :
          /\ calls' = [i \in 1..n |-> issued + i] /\ issued' = issued + n
          /\ Issue(Event("assistant.message", stop, 0), inflight, tip)
    BY <1>6 DEF Completes
  <2>2. PICK e \in Events : pc' = "appending" /\ LineInv' /\ TurnEvents(inflight') = {e} /\ e.type = "assistant.message"
    BY <1>2, <1>3, <2>1
  <2>3. n \in Nat
    BY <1>1, SessionBounds
  <2>4. /\ DOMAIN calls' = 1..n /\ \A i \in 1..n : calls'[i] = issued + i /\ calls'[i] > issued /\ calls'[i] <= issued'
    BY <1>1, <2>1, <2>3
  <2>5. \A c \in AllCalls(log) : c <= issued /\ c \in Nat
    <3>1. AllCalls(log) \subseteq Nat
      BY CallNumbers DEF SessionInv, SessionTypeOK
    <3> QED
      BY <1>1, <3>1 DEF Numbered
  <2>6. \A c \in AllCalls(log) : c <= issued'
    BY <1>1, <2>1, <2>3, <2>5
  <2>7. \A i \in 1..n : calls'[i] \notin AllCalls(log)
    BY <1>1, <2>3, <2>4, <2>5
  <2>8. Numbered'
    <3>1. \A i, j \in 1..n : calls'[i] = calls'[j] => i = j
      BY <1>1, <2>3, <2>4
    <3> QED
      BY <1>0, <2>4, <2>6, <3>1 DEF Numbered
  <2>9. ~Begun' /\ ~Awaits({"tool.call"})' /\ ~NoBatch'
    BY <2>2, AwaitsFacts DEF Begun, NoBatch
  <2>10. CallsInv'
    BY <1>0, <2>4, <2>7, <2>8, <2>9 DEF CallsInv
  <2> QED
    BY <2>2, <2>10 DEF LogInv
<1>7. CASE Fails \/ BackoffEnds
  <2>1. calls' = calls /\ issued' = issued /\ pc \in {"streaming", "backoff"}
    BY <1>7 DEF Fails, BackoffEnds, model
  <2>2. calls = <<>>
    BY <1>1, <2>1 DEF CallsInv, NoBatch
  <2>3. /\ LineInv'
        /\ \/ pc' = "streaming" /\ TurnEvents(inflight') = {}
           \/ /\ pc' = "appending"
              /\ \E e \in Events : /\ TurnEvents(inflight') = {e}
                                   /\ e.type \in {"model.request_configured", "model.retry_scheduled", "assistant.message"}
    <3>1. CASE Issue(Event("model.retry_scheduled", "none", 0), inflight, tip)
      BY <1>2, <1>3, <3>1
    <3>2. CASE Issue(Event("assistant.message", "error", 0), inflight, tip)
      BY <1>2, <1>3, <3>2
    <3>3. CASE Issue(Event("assistant.message", "aborted", 0), inflight, tip)
      BY <1>2, <1>3, <3>3
    <3>4. CASE Stream
      BY <1>4, <3>4
    <3> QED
      BY <1>7, <3>1, <3>2, <3>3, <3>4 DEF Fails, BackoffEnds
  <2>4. Numbered'
    BY <1>0, <1>1, <2>1, <2>2 DEF Numbered
  <2>5. ~Begun' /\ ~Awaits({"tool.call"})'
    BY <2>3, AwaitsFacts DEF Begun
  <2>6. CallsInv'
    BY <2>1, <2>2, <2>4, <2>5 DEF CallsInv
  <2> QED
    BY <2>3, <2>6 DEF LogInv
<1>8. CASE ToolEnds
  <2>1. calls' = calls /\ issued' = issued /\ pc = "executing"
    BY <1>8 DEF ToolEnds, model
  <2>2. calls # <<>> /\ Head(calls) \in Nat
    BY <1>1, <2>1, HeadTailProperties DEF SessionInv, TurnInv
  <2>3. PICK type \in {"sandbox.violation", "tool.result"} :
          Issue(Event(type, "none", Head(calls)), inflight, tip)
    BY <1>8 DEF ToolEnds
  <2>4. PICK e \in Events : pc' = "appending" /\ LineInv' /\ TurnEvents(inflight') = {e} /\ e.type = type
    BY <1>2, <1>3, <2>2, <2>3
  <2>5. Begun /\ Begun' /\ ~ToCome' /\ ~NoBatch'
    BY <2>1, <2>4, AwaitsFacts DEF Begun, ToCome, NoBatch
  <2>6. Numbered'
    BY <1>0, <1>1, <2>1 DEF Numbered
  <2>7. CallsInv'
    BY <1>0, <1>1, <2>1, <2>5, <2>6 DEF CallsInv
  <2> QED
    BY <2>4, <2>7 DEF LogInv
<1> QED
  BY <1>5, <1>6, <1>7, <1>8

\* When its request configuration cannot be recorded the attempt ends with an answer.
LEMMA FailedRequest ==
    ASSUME SessionInv, AppendFails, Head(inflight).by = "turn",
           Head(inflight).event.type = "model.request_configured"
    PROVE  \E e \in Events : /\ pc' = "appending" /\ Len(inflight') = Len(inflight)
                             /\ TurnEvents(inflight') = {e} /\ e.type = "assistant.message" /\ e.parent = tip
<1> DEFINE stop == IF aborted THEN "aborted" ELSE "error"
           rest == Tail(inflight)
<1>1. stop \in Stops /\ "assistant.message" \in EventTypes /\ tip \in Nat
  BY DEF Stops, EventTypes, SessionInv, SessionTypeOK
<1>2. Issue(Event("assistant.message", stop, 0), rest, tip)
  BY DEF AppendFails
<1>3. /\ rest \in Seq(Appends) /\ TurnEvents(rest) = {} /\ Len(rest) = Len(inflight) - 1
      /\ Len(inflight) \in Nat
  BY HeadFacts DEF SessionInv, SessionTypeOK, TurnInv, AppendFails
<1> HIDE DEF stop, rest
<1>4. /\ pc' = "appending" /\ Len(inflight') = Len(rest) + 1
      /\ \E e \in Events : TurnEvents(inflight') = {e} /\ e.type = "assistant.message" /\ e.parent = tip
  BY <1>1, <1>2, <1>3, IssueFacts
<1> QED
  BY <1>3, <1>4

\* The requests of the daemon and a failed append.
LEMMA RequestLine ==
    ASSUME Recorders = {}, SessionInv, LogInv, Request \/ AppendFails
    PROVE  LogInv'
<1> USE DEF queues, messages, counters, branch, model
<1>0. /\ mode = "open" /\ mode' = "open" /\ UNCHANGED <<log, tip, offered, answered, issued>>
  BY DEF Request, StartTurn, ContinueQueued, Queue, Abort, Record, AppendFails
<1>1. /\ tip \in Nat /\ calls \in Seq(Nat) /\ Numbered /\ LineInv /\ CallsInv
      /\ "user.message" \in EventTypes /\ "assistant.message" \in EventTypes
      /\ {"none", "aborted", "error"} \subseteq Stops /\ turns \in Nat
  BY DEF LogInv, CallsInv, SessionInv, SessionTypeOK, EventTypes, Stops
<1>2. CASE StartTurn \/ ContinueQueued
  <2>1. calls' = <<>> /\ pc = "idle"
    BY <1>2 DEF StartTurn, ContinueQueued
  <2>2. PICK op \in Nat : Issue(Event("user.message", "none", op), inflight, tip)
    <3>1. CASE StartTurn
      <4>1. turns + 1 \in Nat /\ Issue(Event("user.message", "none", turns + 1), inflight, tip)
        BY <1>1, <3>1 DEF StartTurn
      <4> QED
        BY <4>1
    <3>2. CASE ContinueQueued
      BY <3>2 DEF ContinueQueued
    <3> QED
      BY <1>2, <3>1, <3>2
  <2>3. PICK e \in Events : /\ pc' = "appending" /\ Len(inflight') = Len(inflight) + 1
                            /\ TurnEvents(inflight') = {e} /\ e.type = "user.message" /\ e.parent = tip
    BY <1>1, <2>1, <2>2, TurnIssues
  <2>4. Len(inflight') <= 1
    BY <1>1, <2>1, <2>3, NoneWhileIdle
  <2>5. LineInv'
    BY <1>0, <2>3, <2>4, LineStays
  <2>6. Numbered'
    BY <1>0, <1>1, <2>1 DEF Numbered
  <2>7. ~Begun' /\ ~Awaits({"tool.call"})'
    BY <2>3, AwaitsFacts DEF Begun
  <2>8. CallsInv'
    BY <2>1, <2>6, <2>7 DEF CallsInv
  <2> QED
    BY <2>5, <2>8 DEF LogInv
<1>3. CASE Queue("steer") \/ Queue("follow") \/ Abort
  <2>1. UNCHANGED <<inflight, pc, calls>>
    BY <1>3 DEF Queue, Abort
  <2>2. LineInv'
    BY <1>0, <1>1, <2>1 DEF LineInv
  <2>3. CallsInv'
    BY <1>0, <1>1, <2>1 DEF CallsInv, Numbered, ToCome, Begun, NoBatch, Awaits
  <2> QED
    BY <2>2, <2>3 DEF LogInv
<1>4. CASE AppendFails
  <2>1. inflight # <<>> /\ calls' = calls
    BY <1>4 DEF AppendFails
  <2>2. /\ Head(inflight).by = "turn" /\ Tail(inflight) = <<>>
        /\ TurnEvents(inflight) = {Head(inflight).event}
    BY <1>1, <2>1, OneInFlight
  <2>3. Numbered'
    BY <1>0, <1>1, <2>1 DEF Numbered
  <2>4. CASE Head(inflight).event.type = "model.request_configured"
    <3>3. PICK e \in Events : /\ pc' = "appending" /\ Len(inflight') = Len(inflight)
                              /\ TurnEvents(inflight') = {e} /\ e.type = "assistant.message" /\ e.parent = tip
      BY <1>4, <2>2, <2>4, FailedRequest
    <3>4. Len(inflight') <= 1
      BY <1>1, <3>3 DEF LineInv
    <3>5. LineInv'
      BY <1>0, <3>3, <3>4, LineStays
    <3>6. calls = <<>>
      BY <1>1, <2>2, <2>4, AwaitsFacts DEF CallsInv, NoBatch
    <3>7. ~Begun' /\ ~Awaits({"tool.call"})'
      BY <3>3, AwaitsFacts DEF Begun
    <3>8. CallsInv'
      BY <2>1, <2>3, <3>6, <3>7 DEF CallsInv
    <3> QED
      BY <3>5, <3>8 DEF LogInv
  <2>5. CASE Head(inflight).event.type # "model.request_configured"
    <3>1. inflight' = <<>> /\ pc' = "idle"
      BY <1>4, <2>2, <2>5 DEF AppendFails, Throw, Return
    <3>2. LineInv'
      BY <1>0, <3>1, LineStays
    <3>3. ~Begun' /\ ~Awaits({"tool.call"})' /\ ~ToCome' /\ ~NoBatch'
      BY <3>1, NoneInFlight, AwaitsFacts DEF Begun, ToCome, NoBatch
    <3>4. CallsInv'
      BY <2>3, <3>3 DEF CallsInv
    <3> QED
      BY <3>2, <3>4 DEF LogInv
  <2> QED
    BY <2>4, <2>5
<1> QED
  BY <1>2, <1>3, <1>4 DEF Request

\* With no turn running, only the numbering of the calls matters.
LEMMA NoTurnCalls ==
    ASSUME pc = "idle", inflight = <<>>, Numbered
    PROVE  CallsInv
BY NoneInFlight DEF CallsInv, ToCome, Begun, NoBatch, Awaits

\* The same in the next state.
LEMMA NoTurnCallsNext ==
    ASSUME pc' = "idle", inflight' = <<>>, Numbered'
    PROVE  CallsInv'
BY NoneInFlight DEF CallsInv, ToCome, Begun, NoBatch, Awaits

\* A crash and the steps of recovery.
LEMMA RecoveryLine ==
    ASSUME Recorders = {}, SessionInv, LogInv, Crash \/ Recovery
    PROVE  LogInv'
<1> USE DEF queues, messages, counters, branch, model
<1>0. /\ log \in Seq(Events) /\ tip \in Nat /\ Len(log) \in Nat /\ DOMAIN log = 1..Len(log)
      /\ Linear(log) /\ Paired(log) /\ LineInv /\ CallsInv /\ Numbered
      /\ mode # "open" => pc = "idle" /\ inflight = <<>>
      /\ mode # "closed" => /\ tip = Len(log) /\ answered = AllResults(log)
                            /\ AllCalls(log) \subseteq offered
      /\ {"tool.result", "recorded", "assistant.message"} \subseteq EventTypes
      /\ {"none", "aborted"} \subseteq Stops
  BY LenProperties DEF SessionInv, SessionTypeOK, TurnInv, LogInv, LineInv, CallsInv,
     EventTypes, Stops
<1>1. CASE Crash
  <2>1. /\ mode' = "closed" /\ pc' = "idle" /\ inflight' = <<>> /\ UNCHANGED <<calls, issued>>
        /\ log' = log \/ (inflight # <<>> /\ log' = Append(log, Head(inflight).event))
    BY <1>1 DEF Crash
  <2>2. Linear(log') /\ Paired(log') /\ \A c \in AllCalls(log') : c <= issued
    <3>1. CASE log' = log
      BY <1>0, <3>1 DEF Numbered
    <3>2. CASE inflight # <<>> /\ log' = Append(log, Head(inflight).event)
      <4> DEFINE e == Head(inflight).event
      <4>1. e \in Events /\ Fitting(e) /\ e.parent = Len(log) /\ TurnEvents(inflight) = {e}
        BY <1>0, <3>2, OneInFlight
      <4>2. log' = Append(log, e)
        BY <3>2
      <4> HIDE DEF e
      <4>3. e.type \in {"tool.call", "tool.result"} => calls # <<>> /\ e.call = Head(calls)
        BY <4>1 DEF Fitting, ToolTypes
      <4>4. calls # <<>> => Head(calls) = calls[1] /\ 1 \in DOMAIN calls
        <5>1. calls \in Seq(Nat)
          BY DEF SessionInv, SessionTypeOK
        <5> QED
          BY <5>1, HeadTailProperties, LenProperties, EmptySeq
      <4>5. e.type = "tool.call" => e.call \notin AllCalls(log) /\ e.call <= issued
        BY <1>0, <4>1, <4>3, <4>4, AwaitsFacts DEF CallsInv, ToCome, Numbered
      <4>6. e.type = "tool.result" => e.call \in AllCalls(log) /\ e.call \notin AllResults(log)
        BY <1>0, <4>1, <4>3, AwaitsFacts DEF CallsInv, Begun
      <4>7. /\ Linear(log') /\ Paired(log')
            /\ AllCalls(log') = AllCalls(log) \cup (IF e.type = "tool.call" THEN {e.call} ELSE {})
        BY <1>0, <4>1, <4>2, <4>5, <4>6, Grown
      <4> QED
        BY <1>0, <4>5, <4>7 DEF Numbered
    <3> QED
      BY <2>1, <3>1, <3>2
  <2>3. LineInv'
    BY <2>1, <2>2, NoneInFlight DEF LineInv
  <2>4. Numbered'
    BY <1>0, <2>1, <2>2 DEF Numbered
  <2> QED
    BY <2>1, <2>3, <2>4, NoTurnCallsNext DEF LogInv
<1>2. CASE Open
  <2>1. WellRooted(log) /\ Verified(log) /\ Lineage(log, Len(log)) = DOMAIN log
    <3>1. Len(log) \in 0..Len(log)
      <4>1. \A n \in Nat : n \in 0..n
        OBVIOUS
      <4> QED
        BY <1>0, <4>1, Zenon
    <3> QED
      BY <1>0, <3>1, LineVerified, LineageLinear
  <2>2. /\ UNCHANGED <<log, inflight, pc, calls, issued>> /\ mode = "closed"
        /\ mode' = "recovering" /\ tip' = Len(log)
        /\ offered' = AllCalls(log) /\ answered' = AllResults(log)
    BY <1>2, <2>1 DEF Open, AllCalls, AllResults
  <2>3. LineInv'
    BY <1>0, <2>2, NoneInFlight DEF LineInv
  <2>4. Numbered'
    BY <1>0, <2>2 DEF Numbered
  <2> QED
    BY <1>0, <2>2, <2>3, <2>4, NoTurnCallsNext DEF LogInv
<1>3. ASSUME NEW e \in Events, mode \in {"recovering", "reconciling"}, mode' # "broken",
             log' = Append(log, e), tip' = Len(log) + 1, e.parent = tip, e.type # "tool.call",
             UNCHANGED <<inflight, pc, calls, issued, offered>>,
             \/ e.type # "tool.result" /\ answered' = answered
             \/ /\ e.type = "tool.result" /\ answered' = answered \cup {e.call}
                /\ e.call \in AllCalls(log) /\ e.call \notin AllResults(log)
      PROVE  LogInv'
  <2>1. /\ Linear(log') /\ Paired(log') /\ AllCalls(log') = AllCalls(log) /\ answered' = AllResults(log')
        /\ Len(log') = Len(log) + 1
    BY <1>0, <1>3, Grown
  <2>2. LineInv'
    BY <1>0, <1>3, <2>1, NoneInFlight DEF LineInv
  <2>3. Numbered'
    BY <1>0, <1>3, <2>1 DEF Numbered
  <2> QED
    BY <1>0, <1>3, <2>2, <2>3, NoTurnCallsNext DEF LogInv
<1>4. CASE Opened
  <2> DEFINE e == [Event("recorded", "none", 0) EXCEPT !.parent = tip]
  <2>1. e \in Events /\ e.type = "recorded" /\ e.parent = tip
    BY <1>0, EventFacts
  <2>2. /\ UNCHANGED <<inflight, pc, calls, issued, offered, answered>>
        /\ mode = "recovering" /\ mode' = "reconciling" /\ tip' = Len(log) + 1 /\ log' = Append(log, e)
    BY <1>4 DEF Opened
  <2> HIDE DEF e
  <2> QED
    BY <1>3, <2>1, <2>2
<1>5. CASE AbortRecoveredTurn
  <2> DEFINE e == [Event("assistant.message", "aborted", 0) EXCEPT !.parent = tip]
  <2>1. e \in Events /\ e.type = "assistant.message" /\ e.parent = tip
    BY <1>0, EventFacts
  <2>2. /\ UNCHANGED <<inflight, pc, calls, issued, offered, answered>>
        /\ mode = "reconciling" /\ mode' = "reconciling" /\ tip' = Len(log) + 1 /\ log' = Append(log, e)
    BY <1>5 DEF AbortRecoveredTurn
  <2> HIDE DEF e
  <2> QED
    BY <1>3, <2>1, <2>2
<1>6. ASSUME NEW c \in 1..MaxCalls, RecoverCall(c)
      PROVE  LogInv'
  <2> DEFINE e == [Event("tool.result", "none", c) EXCEPT !.parent = tip]
  <2>1. e \in Events /\ e.type = "tool.result" /\ e.parent = tip /\ e.call = c
    <3>1. c \in Nat
      BY SessionBounds
    <3> QED
      BY <1>0, <3>1, EventFacts
  <2>2. /\ UNCHANGED <<inflight, pc, calls, issued, offered>> /\ answered' = answered \cup {c}
        /\ mode = "recovering" /\ mode' = "recovering" /\ tip' = Len(log) + 1 /\ log' = Append(log, e)
        /\ c \in Unanswered
    BY <1>6 DEF RecoverCall
  <2> HIDE DEF e
  <2>3. Lineage(log, tip) = DOMAIN log
    BY <1>0, <2>2, LineageLinear
  <2>4. c \in AllCalls(log) /\ c \notin AllResults(log)
    BY <2>2, <2>3 DEF Unanswered, AllCalls, AllResults
  <2> QED
    BY <1>3, <2>1, <2>2, <2>4
<1>7. CASE Serve
  <2>1. /\ UNCHANGED <<log, tip, inflight, pc, calls, issued, offered, answered>>
        /\ mode = "reconciling" /\ mode' = "open"
    BY <1>7 DEF Serve
  <2>2. LineInv'
    BY <1>0, <2>1, NoneInFlight DEF LineInv
  <2>3. Numbered'
    BY <1>0, <2>1 DEF Numbered
  <2> QED
    BY <1>0, <2>1, <2>2, <2>3, NoTurnCallsNext DEF LogInv
<1> QED
  BY <1>1, <1>2, <1>4, <1>5, <1>6, <1>7 DEF Recovery

\* What a stored event adds to the log.
LEMMA StoreLogs ==
    ASSUME Recorders = {}, SessionInv, LogInv, Store, NEW e, e = Head(inflight).event
    PROVE  /\ Head(inflight).by = "turn" /\ Tail(inflight) = <<>> /\ mode = "open" /\ mode' = "open"
           /\ TurnEvents(inflight) = {e} /\ e \in Events /\ Fitting(e) /\ pc = "appending"
           /\ Len(inflight) <= 1 /\ issued' = issued /\ calls \in Seq(Nat)
           /\ Linear(log') /\ Paired(log') /\ tip' = Len(log') /\ tip' = Len(log) + 1
           /\ AllCalls(log') = AllCalls(log) \cup (IF e.type = "tool.call" THEN {e.call} ELSE {})
           /\ AllResults(log') = AllResults(log) \cup (IF e.type = "tool.result" THEN {e.call} ELSE {})
           /\ answered = AllResults(log) /\ AllCalls(log) \subseteq offered
           /\ \A c \in AllCalls(log') : c <= issued
           /\ e.type \in {"tool.call", "tool.result"} =>
                /\ calls # <<>> /\ e.call = Head(calls) /\ Head(calls) = calls[1] /\ 1 \in DOMAIN calls
<1>1. /\ inflight # <<>> /\ mode = "open" /\ mode' = "open" /\ issued' = issued /\ log \in Seq(Events)
      /\ log' = Append(log, e) /\ tip' = Len(log) + 1 /\ calls \in Seq(Nat)
  BY StoreFacts DEF SessionInv, SessionTypeOK
<1>2. /\ Linear(log) /\ Paired(log) /\ LineInv /\ CallsInv /\ Numbered
      /\ answered = AllResults(log) /\ AllCalls(log) \subseteq offered /\ Len(inflight) <= 1
  BY <1>1 DEF LogInv, LineInv, CallsInv
<1>3. /\ Head(inflight).by = "turn" /\ Tail(inflight) = <<>> /\ pc = "appending"
      /\ e \in Events /\ Fitting(e) /\ e.parent = Len(log) /\ TurnEvents(inflight) = {e}
  BY <1>1, <1>2, OneInFlight
<1>4. e.type \in {"tool.call", "tool.result"} => calls # <<>> /\ e.call = Head(calls)
  BY <1>3 DEF Fitting, ToolTypes
<1>5. calls # <<>> => Head(calls) = calls[1] /\ 1 \in DOMAIN calls
  BY <1>1, HeadTailProperties, LenProperties, EmptySeq
<1>6. e.type = "tool.call" => e.call \notin AllCalls(log) /\ e.call <= issued
  BY <1>2, <1>3, <1>4, <1>5, AwaitsFacts DEF CallsInv, ToCome, Numbered
<1>7. e.type = "tool.result" => e.call \in AllCalls(log) /\ e.call \notin AllResults(log)
  BY <1>2, <1>3, <1>4, AwaitsFacts DEF CallsInv, Begun
<1>8. /\ Linear(log') /\ Paired(log') /\ Len(log') = Len(log) + 1
      /\ AllCalls(log') = AllCalls(log) \cup (IF e.type = "tool.call" THEN {e.call} ELSE {})
      /\ AllResults(log') = AllResults(log) \cup (IF e.type = "tool.result" THEN {e.call} ELSE {})
  BY <1>1, <1>2, <1>3, <1>6, <1>7, Grown
<1>9. \A c \in AllCalls(log') : c <= issued
  BY <1>2, <1>6, <1>8 DEF Numbered
<1> QED
  BY <1>1, <1>2, <1>3, <1>4, <1>5, <1>8, <1>9

\* The log stays one line when the turn's reaction takes the new tip as its parent.
LEMMA LineGrows ==
    ASSUME Linear(log'), Paired(log'), mode' = "open", tip' = Len(log'),
           answered' = AllResults(log'), AllCalls(log') \subseteq offered',
           \/ inflight' = <<>>
           \/ /\ Len(inflight') <= 1
              /\ \E f \in Events : TurnEvents(inflight') = {f} /\ f.parent = tip'
    PROVE  LineInv'
BY NoneInFlight DEF LineInv

\* Stored events and what the turn does next keep calls and results matching.
LEMMA StoreLine ==
    ASSUME Recorders = {}, SessionInv, LogInv, Store
    PROVE  LogInv'
<1> DEFINE e == Head(inflight).event  rest == Tail(inflight)  at == Len(log) + 1
<1> USE DEF messages
<1>0. /\ Head(inflight).by = "turn" /\ rest = <<>> /\ mode' = "open"
      /\ TurnEvents(inflight) = {e} /\ e \in Events /\ Fitting(e) /\ pc = "appending"
      /\ Len(inflight) <= 1 /\ issued' = issued /\ calls \in Seq(Nat)
      /\ Linear(log') /\ Paired(log') /\ tip' = Len(log') /\ tip' = at
      /\ AllCalls(log') = AllCalls(log) \cup (IF e.type = "tool.call" THEN {e.call} ELSE {})
      /\ AllResults(log') = AllResults(log) \cup (IF e.type = "tool.result" THEN {e.call} ELSE {})
      /\ answered = AllResults(log) /\ AllCalls(log) \subseteq offered
      /\ \A c \in AllCalls(log') : c <= issued
      /\ e.type \in {"tool.call", "tool.result"} =>
           /\ calls # <<>> /\ e.call = Head(calls) /\ Head(calls) = calls[1] /\ 1 \in DOMAIN calls
  BY StoreLogs
<1>1. CallsInv /\ Numbered
  BY DEF LogInv, CallsInv
<1>2. ASSUME NEW type \in EventTypes, NEW stop \in Stops, NEW call \in Nat,
             Issue(Event(type, stop, call), rest, at)
      PROVE  /\ pc' = "appending" /\ Len(inflight') <= 1
             /\ \E f \in Events : TurnEvents(inflight') = {f} /\ f.parent = tip' /\ f.type = type
  <2>1. /\ pc' = "appending" /\ Len(inflight') = Len(inflight)
        /\ \E f \in Events : TurnEvents(inflight') = {f} /\ f.parent = Len(log) + 1 /\ f.type = type
    BY <1>0, <1>2, StoreIssues
  <2> QED
    BY <1>0, <2>1
<1>3. ASSUME calls' = calls
      PROVE  Numbered'
  BY <1>0, <1>1, <1>3 DEF Numbered
<1>4. ASSUME pc' \in {"idle", "model"}, inflight' = <<>>, Numbered'
      PROVE  CallsInv'
  BY <1>4, NoneInFlight DEF CallsInv, ToCome, Begun, NoBatch, Awaits
<1>5. ASSUME pc' = "appending", NEW f, TurnEvents(inflight') = {f}, f.type \in {"user.message", "session.error"},
             Numbered'
      PROVE  CallsInv'
  <2>1. ~ToCome' /\ ~Begun' /\ ~NoBatch' /\ ~Awaits({"tool.call"})'
    BY <1>5, AwaitsFacts DEF ToCome, Begun, NoBatch
  <2> QED
    BY <1>5, <2>1 DEF CallsInv
<1>6. ASSUME UNCHANGED <<steering, followUps>>, NEW toolUse \in BOOLEAN, Boundary(toolUse, rest, at), Numbered'
      PROVE  /\ CallsInv'
             /\ \/ inflight' = <<>>
                \/ /\ Len(inflight') <= 1
                   /\ \E f \in Events : TurnEvents(inflight') = {f} /\ f.parent = tip'
  <2>1. CASE pc' \in {"idle", "model"} /\ inflight' = rest
    BY <1>0, <1>4, <1>6, <2>1
  <2>2. CASE /\ pc' = "appending" /\ Len(inflight') = Len(inflight)
             /\ \E f \in Events : TurnEvents(inflight') = {f} /\ f.type = "user.message" /\ f.parent = Len(log) + 1
    BY <1>0, <1>5, <1>6, <2>2
  <2> QED
    BY <1>0, <1>6, <2>1, <2>2, BoundaryGoes
<1>7. CASE e.type = "user.message"
  <2>1. inflight' = <<>> /\ pc' = "model" /\ UNCHANGED <<calls, offered, answered>>
    BY <1>0, <1>7, StoreTurn DEF AfterUser, GoOn
  <2>2. LineInv'
    BY <1>0, <1>7, <2>1, LineGrows
  <2> QED
    BY <1>3, <1>4, <2>1, <2>2 DEF LogInv
<1>8. CASE e.type = "assistant.message"
  <2>1. /\ AfterAssistant(e.stop, rest, at) /\ UNCHANGED <<calls, answered, steering, followUps>>
        /\ offered' = offered \cup {calls[i] : i \in DOMAIN calls}
    <3>1. AfterAssistant(e.stop, rest, at) /\ steering' = steering - 0 /\ followUps' = followUps - 0
      BY <1>0, <1>8, StoreTurn
    <3>2. steering \in Nat /\ followUps \in Nat
      BY DEF SessionInv, SessionTypeOK
    <3>3. UNCHANGED <<steering, followUps>>
      BY <3>1, <3>2
    <3>4. UNCHANGED <<calls, answered>> /\ offered' = offered \cup {calls[i] : i \in DOMAIN calls}
      BY <3>1, Zenon DEF AfterAssistant
    <3> QED
      BY <3>1, <3>3, <3>4
  <2>2. answered' = AllResults(log') /\ AllCalls(log') = AllCalls(log) /\ AllCalls(log') \subseteq offered'
    BY <1>0, <1>8, <2>1
  <2>3. Numbered' /\ \A i \in DOMAIN calls : calls[i] \notin AllCalls(log)
    BY <1>0, <1>1, <1>3, <1>8, <2>1, AwaitsFacts DEF CallsInv, ToCome
  <2>4. CASE e.stop \in {"error", "aborted"}
    <3>1. inflight' = <<>> /\ pc' = "idle"
      BY <1>0, <2>1, <2>4 DEF AfterAssistant, Return
    <3>2. LineInv'
      BY <1>0, <2>2, <3>1, LineGrows
    <3> QED
      BY <1>4, <2>3, <3>1, <3>2 DEF LogInv
  <2>5. CASE e.stop = "stop"
    <3>1. Boundary(FALSE, rest, at)
      BY <2>1, <2>5 DEF AfterAssistant
    <3>2. /\ CallsInv'
          /\ \/ inflight' = <<>>
             \/ /\ Len(inflight') <= 1
                /\ \E f \in Events : TurnEvents(inflight') = {f} /\ f.parent = tip'
      BY <1>6, <2>1, <2>3, <3>1
    <3>3. LineInv'
      BY <1>0, <2>2, <3>2, LineGrows
    <3> QED
      BY <3>2, <3>3 DEF LogInv
  <2>6. CASE e.stop \notin {"error", "aborted", "stop"} /\ calls = <<>>
    <3>1. Issue(Event("session.error", "none", 0), rest, at)
      BY <2>1, <2>6 DEF AfterAssistant, MissingCall
    <3>2. "session.error" \in EventTypes /\ "none" \in Stops
      BY DEF EventTypes, Stops
    <3>3. PICK f \in Events : /\ pc' = "appending" /\ Len(inflight') <= 1
                              /\ TurnEvents(inflight') = {f} /\ f.parent = tip' /\ f.type = "session.error"
      BY <1>2, <3>1, <3>2
    <3>4. LineInv'
      BY <1>0, <2>2, <3>3, LineGrows
    <3> QED
      BY <1>5, <2>3, <3>3, <3>4 DEF LogInv
  <2>7. CASE e.stop \notin {"error", "aborted", "stop"} /\ calls # <<>>
    <3>1. Issue(Event("tool.call", "none", Head(calls)), rest, at)
      BY <2>1, <2>7 DEF AfterAssistant, NextCall
    <3>2. "tool.call" \in EventTypes /\ "none" \in Stops /\ Head(calls) \in Nat
      BY <1>0, <2>7, HeadTailProperties DEF EventTypes, Stops
    <3>3. PICK f \in Events : /\ pc' = "appending" /\ Len(inflight') <= 1
                              /\ TurnEvents(inflight') = {f} /\ f.parent = tip' /\ f.type = "tool.call"
      BY <1>2, <3>1, <3>2
    <3>4. LineInv'
      BY <1>0, <2>2, <3>3, LineGrows
    <3>5. ~Begun' /\ ~NoBatch'
      BY <3>3, AwaitsFacts DEF Begun, NoBatch
    <3>6. \A i \in DOMAIN calls' : calls'[i] \notin AllCalls(log') /\ calls'[i] \in offered'
      BY <2>1, <2>2, <2>3
    <3>7. CallsInv'
      BY <2>3, <3>5, <3>6 DEF CallsInv
    <3> QED
      BY <3>4, <3>7 DEF LogInv
  <2> QED
    BY <2>4, <2>5, <2>6, <2>7
<1>9. CASE e.type = "tool.result"
  <2>1. /\ AfterResult(rest, at) /\ calls' = Tail(calls) /\ UNCHANGED <<offered, steering, followUps>>
        /\ answered' = answered \cup {Head(calls)}
    <3>1. AfterResult(rest, at) /\ steering' = steering - 0 /\ followUps' = followUps - 0
      BY <1>0, <1>9, StoreTurn
    <3>2. steering \in Nat /\ followUps \in Nat
      BY DEF SessionInv, SessionTypeOK
    <3>3. UNCHANGED <<steering, followUps>>
      BY <3>1, <3>2
    <3>4. calls' = Tail(calls) /\ offered' = offered /\ answered' = answered \cup {Head(calls)}
      BY <3>1, Zenon DEF AfterResult
    <3> QED
      BY <3>1, <3>3, <3>4
  <2>2. answered' = AllResults(log') /\ AllCalls(log') = AllCalls(log) /\ AllCalls(log') \subseteq offered'
    BY <1>0, <1>9, <2>1
  <2>3. /\ \A i \in DOMAIN calls : i # 1 => calls[i] \notin AllCalls(log)
        /\ \A i \in DOMAIN calls : calls[i] \in offered
    BY <1>0, <1>1, <1>9, AwaitsFacts DEF CallsInv, Begun
  <2>4. /\ DOMAIN calls = 1..Len(calls) /\ Len(calls) \in Nat /\ Len(calls) >= 1
        /\ DOMAIN calls' = 1..(Len(calls) - 1)
        /\ \A i \in 1..(Len(calls) - 1) : calls'[i] = calls[i + 1]
    BY <1>0, <1>9, <2>1, HeadTailProperties, LenProperties
  <2>5. \A i \in DOMAIN calls' : i + 1 \in DOMAIN calls /\ i + 1 # 1 /\ calls'[i] = calls[i + 1]
    BY <2>4
  <2>6. \A i \in DOMAIN calls' : calls'[i] \notin AllCalls(log') /\ calls'[i] \in offered'
    BY <2>1, <2>2, <2>3, <2>5
  <2>7. Numbered'
    <3>1. \A i \in DOMAIN calls' : calls'[i] <= issued'
      BY <1>0, <1>1, <2>5 DEF Numbered
    <3>2. ASSUME NEW i \in DOMAIN calls', NEW j \in DOMAIN calls', calls'[i] = calls'[j]
          PROVE  i = j
      <4>1. i + 1 = j + 1
        BY <1>1, <2>5, <3>2 DEF Numbered
      <4> QED
        BY <2>4, <4>1
    <3> QED
      BY <1>0, <3>1, <3>2 DEF Numbered
  <2>8. CASE aborted
    <3>1. inflight' = <<>> /\ pc' = "model"
      BY <1>0, <2>1, <2>8 DEF AfterResult, StopBatch, GoOn
    <3>2. LineInv'
      BY <1>0, <2>2, <3>1, LineGrows
    <3> QED
      BY <1>4, <2>7, <3>1, <3>2 DEF LogInv
  <2>9. CASE ~aborted /\ Len(calls) > 1
    <3>1. Issue(Event("tool.call", "none", calls[2]), rest, at)
      BY <2>1, <2>9 DEF AfterResult, StopBatch
    <3>2. "tool.call" \in EventTypes /\ "none" \in Stops
      BY DEF EventTypes, Stops
    <3>3. calls[2] \in Nat
      <4>1. Len(calls) > 1
        BY <2>9, Zenon
      <4>2. 2 \in 1..Len(calls)
        BY <2>4, <4>1
      <4> QED
        BY <1>0, <4>2, ElementOfSeq
    <3>4. PICK f \in Events : /\ pc' = "appending" /\ Len(inflight') <= 1
                              /\ TurnEvents(inflight') = {f} /\ f.parent = tip' /\ f.type = "tool.call"
      BY <1>2, <3>1, <3>2, <3>3
    <3>5. LineInv'
      BY <1>0, <2>2, <3>4, LineGrows
    <3>6. ~Begun' /\ ~NoBatch'
      BY <3>4, AwaitsFacts DEF Begun, NoBatch
    <3>7. CallsInv'
      BY <2>6, <2>7, <3>6 DEF CallsInv
    <3> QED
      BY <3>5, <3>7 DEF LogInv
  <2>10. CASE ~aborted /\ ~(Len(calls) > 1)
    <3>1. Boundary(TRUE, rest, at)
      BY <2>1, <2>10 DEF AfterResult, StopBatch
    <3>2. /\ CallsInv'
          /\ \/ inflight' = <<>>
             \/ /\ Len(inflight') <= 1
                /\ \E f \in Events : TurnEvents(inflight') = {f} /\ f.parent = tip'
      BY <1>6, <2>1, <2>7, <3>1
    <3>3. LineInv'
      BY <1>0, <2>2, <3>2, LineGrows
    <3> QED
      BY <3>2, <3>3 DEF LogInv
  <2> QED
    BY <2>8, <2>9, <2>10
<1>10. CASE e.type \notin {"user.message", "assistant.message", "tool.result"}
  <2>1. AfterOther(e, rest, at) /\ UNCHANGED <<calls, offered, answered>>
    BY <1>0, <1>10, StoreTurn DEF AfterOther
  <2>2. e.type \in {"model.request_configured", "model.retry_scheduled", "tool.call", "sandbox.violation", "session.error"}
    BY <1>0, <1>10 DEF Fitting, TurnTypes, EventTypes
  <2>3. answered' = AllResults(log') /\ Numbered'
    BY <1>0, <1>3, <1>10, <2>1
  <2>4. CASE e.type = "session.error"
    <3>1. inflight' = <<>> /\ pc' = "idle" /\ AllCalls(log') \subseteq offered'
      BY <1>0, <2>1, <2>4, OtherTurn DEF Return
    <3>2. LineInv'
      BY <1>0, <2>3, <3>1, LineGrows
    <3> QED
      BY <1>4, <2>3, <3>1, <3>2 DEF LogInv
  <2>5. CASE e.type \in {"model.request_configured", "model.retry_scheduled"}
    <3>1. inflight' = <<>> /\ pc' \in {"streaming", "backoff"} /\ AllCalls(log') \subseteq offered'
      BY <1>0, <2>1, <2>5, OtherTurn DEF GoOn
    <3>2. LineInv'
      BY <1>0, <2>3, <3>1, LineGrows
    <3>3. calls = <<>>
      BY <1>0, <1>1, <2>5, AwaitsFacts DEF CallsInv, NoBatch
    <3>4. ~ToCome' /\ ~Begun' /\ ~Awaits({"tool.call"})'
      BY <3>1, NoneInFlight, AwaitsFacts DEF ToCome, Begun
    <3>5. CallsInv'
      BY <2>1, <2>3, <3>3, <3>4 DEF CallsInv
    <3> QED
      BY <3>2, <3>5 DEF LogInv
  <2>6. CASE e.type = "tool.call"
    <3>1. /\ inflight' = <<>> /\ pc' = "executing" /\ calls # <<>> /\ e.call = calls[1] /\ Head(calls) = calls[1]
          /\ 1 \in DOMAIN calls
      BY <1>0, <2>1, <2>6, OtherTurn DEF GoOn
    <3>2. /\ \A i \in DOMAIN calls : calls[i] \notin AllCalls(log)
          /\ \A i \in DOMAIN calls : calls[i] \in offered
      BY <1>0, <1>1, <2>6, AwaitsFacts DEF CallsInv, ToCome
    <3>3. AllCalls(log') = AllCalls(log) \cup {calls[1]} /\ AllResults(log') = AllResults(log)
      BY <1>0, <2>6, <3>1
    <3>4. AllCalls(log') \subseteq offered'
      BY <1>0, <2>1, <3>1, <3>2, <3>3
    <3>5. LineInv'
      BY <1>0, <2>3, <3>1, <3>4, LineGrows
    <3>6. AllResults(log) \subseteq AllCalls(log)
      BY ResultsHaveCalls DEF SessionInv, SessionTypeOK, LogInv, LineInv
    <3>7. /\ Head(calls) \in AllCalls(log') /\ Head(calls) \notin AllResults(log')
          /\ \A i \in DOMAIN calls : i # 1 => calls[i] \notin AllCalls(log')
      BY <1>1, <3>1, <3>2, <3>3, <3>6 DEF Numbered
    <3>8. ~ToCome' /\ ~NoBatch'
      BY <3>1, NoneInFlight, AwaitsFacts DEF ToCome, NoBatch
    <3>9. CallsInv'
      BY <2>1, <2>3, <3>2, <3>7, <3>8 DEF CallsInv
    <3> QED
      BY <3>5, <3>9 DEF LogInv
  <2>7. CASE e.type = "sandbox.violation"
    <3>1. Issue(Event("tool.result", "none", e.call), rest, at)
      BY <2>1, <2>7, OtherTurn
    <3>2. "tool.result" \in EventTypes /\ "none" \in Stops /\ e.call \in Nat
      BY <1>0 DEF EventTypes, Stops, Events
    <3>3. PICK f \in Events : /\ pc' = "appending" /\ Len(inflight') <= 1
                              /\ TurnEvents(inflight') = {f} /\ f.parent = tip' /\ f.type = "tool.result"
      BY <1>2, <3>1, <3>2
    <3>4. AllCalls(log') = AllCalls(log) /\ AllResults(log') = AllResults(log) /\ AllCalls(log') \subseteq offered'
      BY <1>0, <2>1, <2>7
    <3>5. LineInv'
      BY <1>0, <2>3, <3>3, <3>4, LineGrows
    <3>6. Begun /\ ~ToCome' /\ ~NoBatch'
      BY <1>0, <2>7, <3>3, AwaitsFacts DEF Begun, ToCome, NoBatch
    <3>7. CallsInv'
      BY <1>1, <2>1, <2>3, <3>4, <3>6 DEF CallsInv
    <3> QED
      BY <3>5, <3>7 DEF LogInv
  <2> QED
    BY <2>2, <2>4, <2>5, <2>6, <2>7
<1> QED
  BY <1>7, <1>8, <1>9, <1>10

\* A log of one event is one line.
LEMMA LogInit == Init => LogInv
<1> SUFFICES ASSUME Init PROVE LogInv
  OBVIOUS
<1> DEFINE e == Event("session.created", "none", 0)
<1>1. e \in Events /\ e.parent = 0 /\ e.type = "session.created" /\ log = <<e>>
  BY DEF Event, Events, EventTypes, Stops, Init
<1> HIDE DEF e
<1>2. Len(log) = 1 /\ DOMAIN log = {1} /\ log[1] = e
  BY <1>1
<1>3. Linear(log) /\ Paired(log) /\ AllCalls(log) = {} /\ AllResults(log) = {}
  BY <1>1, <1>2 DEF Linear, Paired, AllCalls, AllResults, CallsIn, ResultsIn
<1>4. LineInv
  BY <1>2, <1>3, NoneInFlight DEF Init, LineInv
<1>5. Numbered
  BY <1>3 DEF Init, Numbered
<1> QED
  BY <1>4, <1>5, NoTurnCalls DEF Init, LogInv

\* Every step keeps the log in one line.
LEMMA LogStep ==
    ASSUME Recorders = {}
    PROVE  SessionInv /\ LogInv /\ [Next]_vars => LogInv'
<1> SUFFICES ASSUME SessionInv, LogInv, [Next]_vars PROVE LogInv'
  OBVIOUS
<1>1. CASE TurnStep
  BY <1>1, ModelLine, StoreLine DEF TurnStep
<1>2. CASE Recovery \/ Crash
  BY <1>2, RecoveryLine
<1>3. CASE Request \/ AppendFails
  BY <1>3, RequestLine
<1>4. CASE UNCHANGED vars
  <2>1. UNCHANGED <<log, tip, inflight, mode, pc, calls, issued, offered, answered>>
    BY <1>4 DEF vars, branch, model, messages, counters
  <2>2. LineInv'
    BY <2>1 DEF LogInv, LineInv
  <2>3. CallsInv'
    BY <2>1 DEF LogInv, CallsInv, Numbered, ToCome, Begun, NoBatch, Awaits
  <2> QED
    BY <2>2, <2>3 DEF LogInv
<1> QED
  BY <1>1, <1>2, <1>3, <1>4 DEF Next

\* Whatever the turn, its retries, aborts, failed appends and crashes do, open() can load the
\* log again, as long as nobody records beside a turn (AgentSessionFork shows what happens then).
THEOREM LogReplays ==
    ASSUME Recorders = {}
    PROVE  Spec => []ReplayIntegrity
<1>1. SessionInv /\ LogInv => ReplayIntegrity
  BY LineVerified DEF SessionInv, SessionTypeOK, LogInv, LineInv, ReplayIntegrity
<1>2. SessionInv /\ LogInv /\ [Next]_vars => LogInv'
  BY LogStep
<1> QED
  BY <1>1, <1>2, LogInit, SessionInvariance, PTL DEF Spec

\* The tool calls and results a model request carries are those of the log.
THEOREM ContextReplays ==
    ASSUME Recorders = {}
    PROVE  Spec => []ContextMatchesLog
<1>1. SessionInv /\ LogInv => ContextMatchesLog
  <2> SUFFICES ASSUME SessionInv, LogInv, pc = "streaming"
               PROVE  LET path == Lineage(log, tip) IN
                      answered = ResultsIn(log, path) /\ CallsIn(log, path) \subseteq offered
    BY DEF ContextMatchesLog
  <2>1. /\ log \in Seq(Events) /\ Linear(log) /\ tip = Len(log)
        /\ answered = AllResults(log) /\ AllCalls(log) \subseteq offered
    BY DEF SessionInv, SessionTypeOK, TurnInv, LogInv, LineInv
  <2>2. Len(log) \in Nat /\ DOMAIN log = 1..Len(log)
    BY <2>1, LenProperties
  <2>3. \A n \in Nat : n \in 0..n
    OBVIOUS
  <2>4. Lineage(log, tip) = DOMAIN log
    BY <2>1, <2>2, <2>3, LineageLinear
  <2> QED
    BY <2>1, <2>4 DEF AllResults, AllCalls
<1>2. SessionInv /\ LogInv /\ [Next]_vars => LogInv'
  BY LogStep
<1> QED
  BY <1>1, <1>2, LogInit, SessionInvariance, PTL DEF Spec

=============================================================================

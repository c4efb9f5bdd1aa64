---------------------------- MODULE AgentSession ----------------------------
(***************************************************************************)
(* A live session over one event-log branch                                *)
(* (packages/kernel/src/agent-session.ts, session-tree.ts, replay.ts): the *)
(* turn loop with retries, tools, steering and follow-ups; the append that *)
(* links each event to the tip; events the daemon records beside a turn;   *)
(* abort, failed appends, crash, and recovery on open().                   *)
(*                                                                         *)
(* An event's id is its position in the log.  An append reads the tip when *)
(* it is called and moves the tip when its write is synced; writes happen  *)
(* in call order (JsonlEventLog's promise chain).  Code between two awaits *)
(* is one step, so a stored event and the turn's reaction to it, up to its *)
(* next append, are one action.                                            *)
(***************************************************************************)
EXTENDS Integers, Sequences, FiniteSets

CONSTANTS Recorders,    \* daemon requests that record an event without owning the branch
          MaxTurns,     \* bound on prompts
          MaxCalls,     \* bound on tool calls the model issues
          MaxInputs,    \* bound on steering and follow-up messages
          MaxAttempts,  \* ModelRetryPolicy.maxAttempts
          MaxCrashes, MaxFaults

ASSUME SessionBounds == /\ MaxTurns \in Nat /\ MaxCalls \in Nat /\ MaxInputs \in Nat
                        /\ MaxAttempts \in Nat \ {0}
                        /\ MaxCrashes \in Nat /\ MaxFaults \in Nat
ASSUME RecordersAssumption == "turn" \notin Recorders

VARIABLES
    log,        \* the stored events, in append order
    tip,        \* this.tip
    inflight,   \* appends called and not yet synced, oldest first
    mode,       \* "open", "closed" (daemon down), "recovering" (in open()), "reconciling"
                \* (open, daemon not serving yet), "broken" (open() threw)
    pc,         \* where runTurn stands
    attempt,    \* modelTurn's attempt
    calls,      \* tool calls of the current response still to execute
    from,       \* the queue the user message being appended came from
    aborted,    \* signal.aborted
    steering, followUps,   \* lengths of steeringMessages and followUpMessages
    offered, answered,     \* this.messages: tool calls of assistant messages, tool results
    recorded,   \* recorders that have made their request
    turns, issued, inputs, delivered, late, crashes, faults   \* counters

branch == <<log, tip, inflight>>
model == <<attempt, calls, from>>
queues == <<steering, followUps>>
messages == <<offered, answered>>
counters == <<turns, issued, inputs, delivered, late, crashes, faults>>
vars == <<branch, mode, pc, model, aborted, queues, messages, recorded, counters>>

\* The stop reason "length" ends a turn as "stop" does.  `call` is the tool call, or the
\* number of the journalled operation a prompt starts; queued input starts none.
Event(type, stop, call) == [parent |-> 0, type |-> type, stop |-> stop, call |-> call]

-----------------------------------------------------------------------------
(***************************************************************************)
(* SessionTree.lineage and verifyToolCallIntegrity, on log positions.      *)
(***************************************************************************)
Lineage(l, n) ==
    LET path[i \in 0..Len(l)] == IF i = 0 THEN {} ELSE {i} \cup path[l[i].parent]
    IN  path[n]
CallsIn(l, path) == {l[i].call : i \in {j \in path : l[j].type = "tool.call"}}
ResultsIn(l, path) == {l[i].call : i \in {j \in path : l[j].type = "tool.result"}}

\* SessionTree.fromEvents: one root, and parents precede their children.
WellRooted(l) == \A n \in DOMAIN l : l[n].parent < n /\ (l[n].parent = 0 <=> n = 1)

\* Every tool.result answers, for the first time, a call on its own branch.
Verified(l) ==
    \A n \in DOMAIN l :
        LET before == Lineage(l, n) \ {n} IN
        /\ l[n].type = "tool.result" => /\ l[n].call \in CallsIn(l, before)
                                        /\ l[n].call \notin ResultsIn(l, before)
        /\ l[n].type = "tool.call" => l[n].call \notin CallsIn(l, before)

-----------------------------------------------------------------------------
Init == /\ log = <<Event("session.created", "none", 0)>> /\ tip = 1 /\ inflight = <<>>
        /\ mode = "open" /\ pc = "idle"
        /\ attempt = 1 /\ calls = <<>> /\ from = "none" /\ aborted = FALSE
        /\ steering = 0 /\ followUps = 0
        /\ offered = {} /\ answered = {} /\ recorded = {}
        /\ turns = 0 /\ issued = 0 /\ inputs = 0 /\ delivered = 0 /\ late = 0
        /\ crashes = 0 /\ faults = 0

\* append(): the event takes the tip it finds as its parent and queues its write.
Call(by, event, after, at) ==
    inflight' = Append(after, [by |-> by, event |-> [event EXCEPT !.parent = at]])

\* The turn calls append() and awaits it.
Issue(event, after, at) == Call("turn", event, after, at) /\ pc' = "appending"
\* runTurn's finally block.
Return(after) == inflight' = after /\ pc' = "idle"
\* The turn goes on without an append.
GoOn(after, next) == inflight' = after /\ pc' = next

\* runTurn, called by send() for a prompt.
StartTurn ==
    /\ mode = "open" /\ pc = "idle" /\ turns < MaxTurns
    /\ turns' = turns + 1
    /\ aborted' = FALSE /\ from' = "none" /\ attempt' = 1 /\ calls' = <<>> /\ late' = 0
    /\ Issue(Event("user.message", "none", turns + 1), inflight, tip)
    /\ UNCHANGED <<log, tip, mode, queues, messages, recorded,
                   issued, inputs, delivered, crashes, faults>>

\* continueQueued: a fresh turn for input left over; it is shifted before the append.
ContinueQueued ==
    /\ mode = "open" /\ pc = "idle" /\ steering + followUps > 0
    /\ IF steering > 0 THEN steering' = steering - 1 /\ UNCHANGED followUps
                       ELSE followUps' = followUps - 1 /\ UNCHANGED steering
    /\ aborted' = FALSE /\ from' = "left" /\ attempt' = 1 /\ calls' = <<>> /\ late' = 0
    /\ Issue(Event("user.message", "none", 0), inflight, tip)
    /\ UNCHANGED <<log, tip, mode, messages, recorded,
                   turns, issued, inputs, delivered, crashes, faults>>

\* steer and followUp are accepted while a turn runs.
Queue(queue) ==
    /\ mode = "open" /\ pc # "idle" /\ inputs < MaxInputs
    /\ inputs' = inputs + 1
    /\ steering' = steering + (IF queue = "steer" THEN 1 ELSE 0)
    /\ followUps' = followUps + (IF queue = "follow" THEN 1 ELSE 0)
    /\ UNCHANGED <<branch, mode, pc, model, aborted, messages, recorded,
                   turns, issued, delivered, late, crashes, faults>>

Abort == /\ mode = "open" /\ pc # "idle" /\ ~aborted
         /\ aborted' = TRUE
         /\ UNCHANGED <<branch, mode, pc, model, queues, messages, recorded, counters>>

\* recordQueueEvent, recordInterruptEvent, recordSessionError, resolveInteraction:
\* the daemon appends beside whatever the turn is doing.
Record(r) == /\ mode = "open" /\ r \notin recorded
             /\ recorded' = recorded \cup {r}
             /\ Call(r, Event("recorded", "none", 0), inflight, tip)
             /\ UNCHANGED <<log, tip, mode, pc, model, aborted, queues, messages, counters>>

-----------------------------------------------------------------------------
(***************************************************************************)
(* modelTurn and modelAttempt.                                             *)
(***************************************************************************)
\* modelAttempt: the port may first have its request configuration recorded.
Stream == \/ GoOn(inflight, "streaming")
          \/ Issue(Event("model.request_configured", "none", 0), inflight, tip)

ModelTurn == /\ mode = "open" /\ pc = "model"
             /\ attempt' = 1
             /\ IF aborted THEN Issue(Event("assistant.message", "aborted", 0), inflight, tip)
                           ELSE Stream
             /\ calls' = <<>>
             /\ UNCHANGED <<log, tip, mode, from, aborted, queues, messages, recorded, counters>>

\* The stream completes, with any number of tool calls whatever its stop reason.
Completes ==
    /\ mode = "open" /\ pc = "streaming"
    /\ \E n \in 0..(MaxCalls - issued), stop \in {"stop", "tool_use"} :
         /\ calls' = [i \in 1..n |-> issued + i]
         /\ issued' = issued + n
         /\ Issue(Event("assistant.message", stop, 0), inflight, tip)
    /\ UNCHANGED <<log, tip, mode, attempt, from, aborted, queues, messages, recorded,
                   turns, inputs, delivered, late, crashes, faults>>

\* It fails: a retryable failure without output is retried while attempts remain.
MayRetry == attempt < MaxAttempts
Fails == /\ mode = "open" /\ pc = "streaming"
         /\ \/ /\ MayRetry
               /\ attempt' = attempt + 1
               /\ Issue(Event("model.retry_scheduled", "none", 0), inflight, tip)
            \/ Issue(Event("assistant.message", "error", 0), inflight, tip) /\ UNCHANGED attempt
            \/ /\ aborted /\ UNCHANGED attempt
               /\ Issue(Event("assistant.message", "aborted", 0), inflight, tip)
         /\ UNCHANGED <<log, tip, mode, calls, from, aborted, queues, messages, recorded, counters>>

\* The delay ends: by abort, or with the next attempt.
BackoffEnds == /\ mode = "open" /\ pc = "backoff"
               /\ IF aborted THEN Issue(Event("assistant.message", "aborted", 0), inflight, tip)
                             ELSE Stream
               /\ UNCHANGED <<log, tip, mode, model, aborted, queues, messages, recorded, counters>>

\* executeTool returns, with a sandbox violation recorded first if it raised one.
ToolEnds == /\ mode = "open" /\ pc = "executing"
            /\ \E type \in {"sandbox.violation", "tool.result"} :
                 Issue(Event(type, "none", Head(calls)), inflight, tip)
            /\ UNCHANGED <<log, tip, mode, model, aborted, queues, messages, recorded, counters>>

-----------------------------------------------------------------------------
(***************************************************************************)
(* What runTurn does once its event is stored, until it awaits again.      *)
(***************************************************************************)
NextCall(rest, at) == Issue(Event("tool.call", "none", Head(calls)), rest, at)
\* A model boundary: steering first, then more tool use, then follow-ups.
Boundary(toolUse, rest, at) ==
    IF steering > 0 THEN Issue(Event("user.message", "none", 0), rest, at) /\ from' = "steer"
    ELSE IF toolUse THEN GoOn(rest, "model") /\ UNCHANGED from
    ELSE IF followUps > 0 THEN Issue(Event("user.message", "none", 0), rest, at) /\ from' = "follow"
    ELSE Return(rest) /\ UNCHANGED from

AfterUser(rest) ==
    /\ GoOn(rest, "model")
    /\ delivered' = delivered + (IF from = "none" THEN 0 ELSE 1)
    /\ UNCHANGED <<calls, from, messages, late>>

NoShift(queue) == 0                   \* mutant: the delivered message stays queued
Shift(queue) == IF from = queue THEN 1 ELSE 0

\* Mutant of MissingCall: the turn returns and records nothing.
MissingCallIgnored(rest, at) == Return(rest)
MissingCall(rest, at) == Issue(Event("session.error", "none", 0), rest, at)

AfterAssistant(stop, rest, at) ==
    /\ offered' = offered \cup {calls[i] : i \in DOMAIN calls}
    /\ IF stop \in {"error", "aborted"} THEN Return(rest) /\ UNCHANGED from
       ELSE IF stop = "stop" THEN Boundary(FALSE, rest, at)
       ELSE /\ UNCHANGED from
            /\ IF calls = <<>> THEN MissingCall(rest, at) ELSE NextCall(rest, at)
    /\ late' = IF aborted /\ stop = "tool_use" /\ calls # <<>> THEN late + 1 ELSE late
    /\ UNCHANGED <<calls, answered, delivered>>

IgnoreAbort == FALSE                  \* mutant: the batch is finished after an abort
StopBatch == aborted
AfterResult(rest, at) ==
    /\ answered' = answered \cup {Head(calls)}
    /\ calls' = Tail(calls)
    /\ IF StopBatch THEN GoOn(rest, "model") /\ UNCHANGED <<from, late>>
       ELSE IF Len(calls) > 1
         THEN /\ Issue(Event("tool.call", "none", calls[2]), rest, at) /\ UNCHANGED from
              /\ late' = IF aborted THEN late + 1 ELSE late
         ELSE Boundary(TRUE, rest, at) /\ UNCHANGED late
    /\ UNCHANGED <<offered, delivered>>

\* Events after which the turn does nothing but move on.
AfterOther(event, rest, at) ==
    /\ CASE event.type = "model.request_configured" -> GoOn(rest, "streaming")
         [] event.type = "model.retry_scheduled" -> GoOn(rest, "backoff")
         [] event.type = "tool.call" -> GoOn(rest, "executing")
         [] event.type = "sandbox.violation" ->
              Issue(Event("tool.result", "none", event.call), rest, at)
         [] event.type = "session.error" -> Return(rest)
    /\ UNCHANGED <<calls, from, messages, late, delivered>>

Unmoved(at) == tip                    \* mutant: the tip is not moved
Moved(at) == at

\* The oldest append is synced: the tip moves and its caller goes on.
Store ==
    LET event == Head(inflight).event
        rest == Tail(inflight)
        at == Moved(Len(log) + 1)
    IN  /\ mode = "open" /\ inflight # <<>>
        /\ log' = Append(log, event) /\ tip' = at
        /\ IF Head(inflight).by # "turn"
             THEN inflight' = rest /\ UNCHANGED <<pc, calls, from, messages, queues, late, delivered>>
             ELSE /\ steering' = steering - (IF event.type = "user.message" THEN Shift("steer") ELSE 0)
                  /\ followUps' = followUps - (IF event.type = "user.message" THEN Shift("follow") ELSE 0)
                  /\ CASE event.type = "user.message" -> AfterUser(rest)
                       [] event.type = "assistant.message" -> AfterAssistant(event.stop, rest, at)
                       [] event.type = "tool.result" -> AfterResult(rest, at)
                       [] OTHER -> AfterOther(event, rest, at)
        /\ UNCHANGED <<mode, attempt, aborted, recorded, turns, issued, inputs, crashes, faults>>

\* The oldest append fails and is rolled back: it throws out of its caller, except
\* from within the model stream, where modelAttempt turns it into an outcome.
OwnershipKept(after) == inflight' = after /\ UNCHANGED pc   \* mutant: no finally block
Throw(after) == Return(after)
AppendFails ==
    LET rest == Tail(inflight) IN
    /\ mode = "open" /\ inflight # <<>> /\ faults < MaxFaults
    /\ faults' = faults + 1
    /\ IF Head(inflight).by # "turn" THEN inflight' = rest /\ UNCHANGED pc
       ELSE IF Head(inflight).event.type = "model.request_configured"
         THEN Issue(Event("assistant.message", IF aborted THEN "aborted" ELSE "error", 0), rest, tip)
         ELSE Throw(rest)
    /\ UNCHANGED <<log, tip, mode, model, aborted, queues, messages, recorded,
                   turns, issued, inputs, delivered, late, crashes>>

-----------------------------------------------------------------------------
(***************************************************************************)
(* The daemon dies; the write in progress may or may not have survived.    *)
(* open() verifies the whole tree, takes the last event as the tip and     *)
(* answers the calls of its lineage that have no result.                   *)
(***************************************************************************)
Crash ==
    /\ mode \in {"open", "recovering", "reconciling"} /\ crashes < MaxCrashes
    /\ crashes' = crashes + 1
    /\ log' = log \/ (inflight # <<>> /\ log' = Append(log, Head(inflight).event))
    /\ mode' = "closed" /\ pc' = "idle" /\ inflight' = <<>>
    /\ aborted' = FALSE /\ steering' = 0 /\ followUps' = 0
    /\ inputs' = 0 /\ delivered' = 0 /\ late' = 0
    /\ UNCHANGED <<tip, model, messages, recorded, turns, issued, faults>>

Open ==
    /\ mode = "closed"
    /\ IF WellRooted(log) /\ Verified(log)
         THEN LET path == Lineage(log, Len(log)) IN
              /\ mode' = "recovering" /\ tip' = Len(log)
              /\ offered' = CallsIn(log, path) /\ answered' = ResultsIn(log, path)
         ELSE mode' = "broken" /\ UNCHANGED <<tip, messages>>
    /\ UNCHANGED <<log, inflight, pc, model, aborted, queues, recorded, counters>>

\* Mutant of Unanswered: results do not take their call off the list.
EveryCall == CallsIn(log, Lineage(log, tip))
Unanswered == LET path == Lineage(log, tip) IN CallsIn(log, path) \ ResultsIn(log, path)

RecoverCall(c) ==
    /\ mode = "recovering" /\ c \in Unanswered /\ \A d \in Unanswered : c <= d
    /\ log' = Append(log, [Event("tool.result", "none", c) EXCEPT !.parent = tip])
    /\ tip' = Len(log) + 1
    /\ answered' = answered \cup {c}
    /\ UNCHANGED <<inflight, mode, pc, model, aborted, queues, offered, recorded, counters>>

\* The boundary is recorded: tool schemas, sandbox, configuration.
Opened == /\ mode = "recovering" /\ Unanswered = {}
          /\ log' = Append(log, [Event("recorded", "none", 0) EXCEPT !.parent = tip])
          /\ tip' = Len(log) + 1
          /\ mode' = "reconciling"
          /\ UNCHANGED <<inflight, pc, model, aborted, queues, messages, recorded, counters>>

Serve == /\ mode = "reconciling"
         /\ mode' = "open"
         /\ UNCHANGED <<branch, pc, model, aborted, queues, messages, recorded, counters>>

\* abortRecoveredTurn: the daemon reconciles a journalled prompt that did not end.
\* (One the queue drain had started is not journalled and is left as it is.)
Terminal(e) == \/ e.type = "assistant.message" /\ e.stop # "tool_use"
               \/ e.type = "session.error"
\* The evidence of the last prompt's operation has no terminal event: one that went on
\* with queued input has the terminal event of its first answer.
PromptCutOff == \E i \in DOMAIN log : /\ log[i].type = "user.message" /\ log[i].call > 0
                                      /\ \A j \in DOMAIN log : Terminal(log[j]) => j < i
AbortRecoveredTurn ==
    /\ mode = "reconciling"
    /\ PromptCutOff
    /\ log' = Append(log, [Event("assistant.message", "aborted", 0) EXCEPT !.parent = tip])
    /\ tip' = Len(log) + 1
    /\ UNCHANGED <<inflight, mode, pc, model, aborted, queues, messages, recorded, counters>>

-----------------------------------------------------------------------------
TurnStep == ModelTurn \/ Completes \/ Fails \/ BackoffEnds \/ ToolEnds \/ Store
Recovery == Open \/ Opened \/ Serve \/ AbortRecoveredTurn \/ \E c \in 1..MaxCalls : RecoverCall(c)
Request == StartTurn \/ ContinueQueued \/ Queue("steer") \/ Queue("follow") \/ Abort
           \/ \E r \in Recorders : Record(r)
Next == TurnStep \/ Recovery \/ Request \/ AppendFails \/ Crash

\* Providers answer or fail, tools return, writes settle, the loop runs on.
Spec == Init /\ [][Next]_vars /\ WF_vars(TurnStep)

-----------------------------------------------------------------------------
(***************************************************************************)
(* Properties                                                              *)
(***************************************************************************)

\* Whatever is appended beside a turn, fails or is cut off by a crash, the log is one
\* SessionTree.fromEvents and verifyToolCallIntegrity accept: open() can load it again.
ReplayIntegrity == WellRooted(log) /\ Verified(log)

\* After an abort the current batch starts at most one more tool (the first
\* call of a response that completed as the abort arrived).
AtMostOneToolAfterAbort == late <= 1

\* A turn that returns without an I/O error has just stored its terminal event:
\* the evidence send(), interrupt() and reconciliation look for.
TurnEndsTerminal ==
    [][pc # "idle" /\ pc' = "idle" /\ mode' = "open" /\ faults' = faults
         => Terminal(log'[Len(log')])]_vars

\* Accepted steering and follow-ups are queued, being appended or delivered: none is
\* delivered twice, and none is dropped but the one whose append failed.
QueuedInputConserved ==
    LET held == steering + followUps + delivered
                + (IF pc = "appending" /\ from = "left"
                      /\ \E i \in DOMAIN inflight : /\ inflight[i].by = "turn"
                                                    /\ inflight[i].event.type = "user.message"
                   THEN 1 ELSE 0)
    IN  held <= inputs /\ inputs - held <= faults

\* "Replay rebuilds behavior from canonical events" (DEVELOPMENT_GUIDE.md:629): the tool
\* results a model request carries are those of the log, each after its call.
ContextMatchesLog ==
    pc = "streaming" => LET path == Lineage(log, tip) IN
        answered = ResultsIn(log, path) /\ CallsIn(log, path) \subseteq offered

\* A turn comes to an end.
TurnEnds == pc # "idle" ~> pc = "idle"

=============================================================================

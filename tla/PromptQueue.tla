---------------------------- MODULE PromptQueue ----------------------------
(***************************************************************************)
(* The canonical prompt queue of a session over restarts                   *)
(* (packages/daemon/src/session-manager.ts: enqueue, requeue, drainQueue,  *)
(* pauseRecoveredQueue), with the turns it runs and the questions those    *)
(* turns ask.  The rivals of the queue for the branch are in               *)
(* SessionManager; here the queue has it to itself.                        *)
(*                                                                         *)
(* The log is kept per item: its lifecycle events, its user message and    *)
(* its terminal event, in order.  A requeue request stands for the         *)
(* queue.requeued event that it appends.                                   *)
(***************************************************************************)
EXTENDS Interactions, FiniteSetsExt

CONSTANTS Items,       \* queued prompts, each with its operation id
          Requeues,    \* session.queue.requeue requests
          ItemOf,      \* the item a requeue names
          MaxCrashes,  \* bound on crashes, unhandled rejections included
          MaxFaults    \* bound on failed appends

ASSUME QueueAssumption == /\ ItemOf \in [Requeues -> Items] /\ None \notin Items
                          /\ None \notin {"enqueued", "started", "paused"} \cup Requeues
                          /\ {"enqueued", "started", "paused", "user", "terminal"}
                                \cap Requeues = {}
ASSUME QueueBounds == MaxCrashes \in Nat /\ MaxFaults \in Nat

VARIABLES
    mode,      \* "up", "down", or "opening" (AgentSession.open recovers)
    life,      \* the log of each item
    queue,     \* managed.queue
    drain,     \* where drainQueue() and the send() it awaits stand
    cur,       \* the item it works on
    stopped,   \* "no", "disposing", or "broken": the drain failed and set disposing
    todo,      \* recovered items pauseRecoveredQueue() has yet to pause
    stranded,  \* recovered items it gave up
    crashes, faults

queueVars == <<queue, drain, cur>>
recovery == <<todo, stranded>>
budget == <<crashes, faults>>
vars == <<tail, interactionVars, mode, life, queueVars, stopped, recovery, budget>>

Has(i, e) == \E n \in DOMAIN life[i] : life[i][n] = e
Lifecycle(e) == e \in {"enqueued", "started", "paused"} \cup Requeues
\* The latest lifecycle event before position n.
Lifecycles(i, n) == {m \in DOMAIN life[i] : m < n /\ Lifecycle(life[i][m])}
LatestBefore(i, n) == IF Lifecycles(i, n) = {} THEN None ELSE life[i][Max(Lifecycles(i, n))]
Latest(i) == LatestBefore(i, Len(life[i]) + 1)
\* What every attachment takes for queued.
ShownQueued == {i \in Items : Latest(i) \in {"enqueued"} \cup Requeues}

Log(i, e) == life' = [life EXCEPT ![i] = Append(@, e)]

Init ==
    /\ InteractionsInit
    /\ tail = <<>> /\ mode = "up" /\ life = [i \in Items |-> <<>>]
    /\ queue = <<>> /\ drain = "no" /\ cur = None
    /\ stopped = "no" /\ todo = {} /\ stranded = {} /\ crashes = 0 /\ faults = 0

(***************************************************************************)
(* drainQueue.  Next item, or the end of the loop, with q as the queue and *)
(* rest as the appends in flight.                                          *)
(***************************************************************************)
Continue(q, rest) ==
    IF q # <<>> /\ stopped = "no"
    THEN /\ drain' = "starting" /\ cur' = Head(q) /\ queue' = Tail(q)
         /\ tail' = Append(rest, Entry("start", Head(q), None))
    ELSE drain' = "no" /\ cur' = None /\ queue' = q /\ tail' = rest

\* startQueueDrain after q became the queue.
StartDrain(q, rest) ==
    IF drain = "no" THEN Continue(q, rest)
    ELSE queue' = q /\ tail' = rest /\ UNCHANGED <<drain, cur>>

Placed(i, priority) == IF priority = "front" THEN <<i>> \o queue ELSE Append(queue, i)

Rest == Tail(tail)
Head_(op, of, by) == mode = "up" /\ tail # <<>> /\ Head(tail) = Entry(op, of, by)

\* The drain goes on to append e for the item it has, at stage s.
Proceed(s, op) ==
    /\ drain' = s /\ tail' = Append(Rest, Entry(op, cur, None))
    /\ UNCHANGED <<queue, cur>>

(***************************************************************************)
(* Requests                                                                *)
(***************************************************************************)
InFlight(op, of) == \E n \in DOMAIN tail : tail[n].op = op /\ tail[n].of = of

\* A retry of an enqueue that is in the log is answered from it.
Enqueue(i, priority) ==
    /\ mode = "up" /\ life[i] = <<>> /\ ~InFlight("enqueue", i)
    /\ tail' = Append(tail, Entry("enqueue", i, priority))
    /\ UNCHANGED <<interactionVars, mode, life, queueVars, stopped, recovery, budget>>

Paused(i) == Latest(i) = "paused"

Requeue(r, priority) ==
    /\ mode = "up" /\ ~Has(ItemOf[r], r) /\ ~InFlight("requeue", r)
    /\ Paused(ItemOf[r])
    /\ tail' = Append(tail, Entry("requeue", r, priority))
    /\ UNCHANGED <<interactionVars, mode, life, queueVars, stopped, recovery, budget>>

EnqueueStored(i, priority) ==
    /\ Head_("enqueue", i, priority)
    /\ Log(i, "enqueued")
    /\ StartDrain(Placed(i, priority), Rest)
    /\ UNCHANGED <<interactionVars, mode, stopped, recovery, budget>>

RequeueStored(r, priority) ==
    /\ Head_("requeue", r, priority)
    /\ Log(ItemOf[r], r)
    /\ StartDrain(Placed(ItemOf[r], priority), Rest)
    /\ UNCHANGED <<interactionVars, mode, stopped, recovery, budget>>

(***************************************************************************)
(* send() for an item whose queue.started is stored: answer from the log,  *)
(* finish a turn that was cut off, or claim the branch.                    *)
(***************************************************************************)
AlwaysFresh(i) == {}                  \* mutant: prior events are not looked at
Evidence(i) == {e \in {"user", "terminal"} : Has(i, e)}

Started(i) ==
    /\ Head_("start", i, None)
    /\ Log(i, "started")
    /\ CASE "terminal" \in Evidence(i) -> Continue(queue, Rest)
         [] Evidence(i) = {"user"} -> Proceed("ending", "terminal")
         [] Evidence(i) = {} /\ stopped # "no" -> Proceed("ending", "error")
         [] OTHER -> drain' = "claimed" /\ tail' = Rest /\ UNCHANGED <<queue, cur>>
    /\ UNCHANGED <<interactionVars, mode, stopped, recovery, budget>>

\* The checkpoint is captured and runTurn() appends the user message; or send() threw and
\* the drain appends session.error.
BeginTurn ==
    /\ mode = "up" /\ drain = "claimed"
    /\ drain' = "recording" /\ tail' = Append(tail, Entry("user", cur, None))
    /\ UNCHANGED <<interactionVars, mode, life, queue, cur, stopped, recovery, budget>>

SendThrows ==
    /\ mode = "up" /\ drain = "claimed"
    /\ drain' = "ending" /\ tail' = Append(tail, Entry("error", cur, None))
    /\ UNCHANGED <<interactionVars, mode, life, queue, cur, stopped, recovery, budget>>

UserStored(i) ==
    /\ Head_("user", i, None)
    /\ Log(i, "user")
    /\ drain' = "running" /\ tail' = Rest
    /\ UNCHANGED <<interactionVars, mode, queue, cur, stopped, recovery, budget>>

\* The turn ends with a terminal message, or throws and the drain appends session.error.
TurnEnds ==
    /\ mode = "up" /\ drain = "running" /\ Outstanding = {}
    /\ drain' = "ending"
    /\ \E op \in {"terminal", "error"} : tail' = Append(tail, Entry(op, cur, None))
    /\ UNCHANGED <<interactionVars, mode, life, queue, cur, stopped, recovery, budget>>

TerminalStored(i) ==
    /\ Head_("terminal", i, None) \/ Head_("error", i, None)
    /\ Log(i, "terminal")
    /\ Continue(queue, Rest)
    /\ UNCHANGED <<interactionVars, mode, stopped, recovery, budget>>

(***************************************************************************)
(* Appends that fail                                                       *)
(***************************************************************************)
Fails(ops) ==
    /\ mode = "up" /\ tail # <<>> /\ Head(tail).op \in ops
    /\ faults < MaxFaults /\ faults' = faults + 1 /\ UNCHANGED crashes

RequestAppendFails ==
    /\ Fails({"enqueue", "requeue"})
    /\ tail' = Rest
    /\ UNCHANGED <<interactionVars, mode, life, queueVars, stopped, recovery>>

\* The user message or the terminal message: send() throws.
TurnAppendFails ==
    /\ Fails({"user", "terminal"})
    /\ Proceed("ending", "error")
    /\ UNCHANGED <<interactionVars, mode, life, stopped, recovery>>

\* queue.started or session.error: the drain rejects, and the session is stopped.
DrainFails ==
    /\ Fails({"start", "error"})
    /\ stopped' = "broken" /\ drain' = "no" /\ cur' = None /\ tail' = Rest
    /\ UNCHANGED <<interactionVars, mode, life, queue, recovery>>

\* pauseRecoveredQueue() throws; the session stays open.
PauseFails ==
    /\ Fails({"pause"})
    /\ tail' = Rest
    /\ stranded' = todo /\ todo' = {}
    /\ UNCHANGED <<interactionVars, mode, life, queueVars, stopped>>

InteractionAppendFails ==
    /\ Fails({"request", "resolve"})
    /\ LET e == Head(tail) IN IF e.op = "request" THEN RequestFails(e.of)
                              ELSE ResolutionFails(e.of, e.by)
    /\ tail' = Rest
    /\ UNCHANGED <<mode, life, queueVars, stopped, recovery>>

(***************************************************************************)
(* Questions of the running turn                                           *)
(***************************************************************************)
others == <<mode, life, queueVars, stopped, recovery, budget>>

TurnAsks(a) == mode = "up" /\ drain = "running" /\ Ask(a) /\ UNCHANGED others

Responds(c) == mode = "up" /\ Respond(c) /\ UNCHANGED others

InteractionStored ==
    /\ mode = "up" /\ tail # <<>> /\ Head(tail).op \in {"request", "resolve"}
    /\ LET e == Head(tail) IN IF e.op = "request" THEN RequestStored(e.of)
                              ELSE ResolutionStored(e.of, e.by)
    /\ tail' = Rest
    /\ UNCHANGED others

\* What the head of `tail` leaves in the log when it is stored and nobody hears of it.
StoredUnheard ==
    LET e == Head(tail)
        event == CASE e.op = "enqueue" -> "enqueued" [] e.op = "requeue" -> e.of
                   [] e.op = "start" -> "started" [] e.op = "pause" -> "paused"
                   [] e.op = "user" -> "user" [] OTHER -> "terminal"
    IN  /\ tail # <<>>
        /\ CASE e.op = "request" -> Record(e.of, "requested") /\ UNCHANGED life
             [] e.op = "resolve" -> Record(e.of, e.by) /\ UNCHANGED life
             [] e.op = "requeue" -> Log(ItemOf[e.of], event) /\ UNCHANGED recorded
             [] OTHER -> Log(e.of, event) /\ UNCHANGED recorded

ForgetMemory ==
    /\ ForgetInteractions
    /\ mode' = "down" /\ tail' = <<>> /\ queue' = <<>> /\ drain' = "no" /\ cur' = None
    /\ stopped' = "no" /\ todo' = {} /\ stranded' = {}

\* The process dies: by itself, or of a rejection nobody handles.
Crash ==
    /\ mode # "down" /\ crashes < MaxCrashes /\ crashes' = crashes + 1
    /\ StoredUnheard \/ UNCHANGED <<life, recorded>>
    /\ ForgetMemory
    /\ UNCHANGED faults

RejectOrDie(as) == (Crash /\ Unhandled(as)) \/ (Reject(as) /\ UNCHANGED <<tail, others>>)

TimesOut(a) == mode = "up" /\ a \in pending /\ RejectOrDie({a})
Interrupt == mode = "up" /\ pending # {} /\ RejectOrDie(pending)

Dispose ==
    /\ mode = "up" /\ stopped = "no"
    /\ \/ Crash /\ Unhandled(pending)
       \/ /\ Reject(pending) /\ stopped' = "disposing"
          /\ UNCHANGED <<tail, mode, life, queueVars, recovery, budget>>

\* dispose() has seen the turn and the drain end and forgets the session.
Disposed ==
    /\ mode = "up" /\ stopped = "disposing" /\ drain = "no" /\ tail = <<>>
    /\ ForgetMemory
    /\ UNCHANGED <<life, recorded, budget>>

(***************************************************************************)
(* The session is opened again.                                            *)
(***************************************************************************)
Resume == /\ mode = "down" /\ mode' = "opening"
          /\ UNCHANGED <<tail, interactionVars, life, queueVars, stopped, recovery, budget>>

Cancel(a) == mode = "opening" /\ CancelRecovered(a) /\ UNCHANGED others

NeverRequeued == {i \in Items : Latest(i) = "enqueued"}    \* mutant: requeued items are not pending
Recovered == ShownQueued

\* The session is reachable, and its pending items are paused one by one.
Opened ==
    /\ mode = "opening" /\ Unanswered = {}
    /\ mode' = "up" /\ todo' = Recovered
    /\ UNCHANGED <<tail, interactionVars, life, queueVars, stopped, stranded, budget>>

Pause(i) ==
    /\ mode = "up" /\ i \in todo /\ \A j \in Items : ~InFlight("pause", j)
    /\ tail' = Append(tail, Entry("pause", i, None))
    /\ UNCHANGED <<interactionVars, others>>

PauseRuns(i) ==    \* mutant: a recovered item is queued again
    /\ Head_("pause", i, None)
    /\ Log(i, "paused") /\ todo' = todo \ {i}
    /\ StartDrain(Append(queue, i), Rest)
    /\ UNCHANGED <<interactionVars, mode, stopped, stranded, budget>>

PauseStored(i) ==
    /\ Head_("pause", i, None)
    /\ Log(i, "paused") /\ todo' = todo \ {i}
    /\ tail' = Rest
    /\ UNCHANGED <<interactionVars, mode, queueVars, stopped, stranded, budget>>

-----------------------------------------------------------------------------
Priorities == {"front", "back"}

Requests == \/ \E i \in Items, p \in Priorities : Enqueue(i, p)
            \/ \E r \in Requeues, p \in Priorities : Requeue(r, p)
            \/ \E c \in Responses : Responds(c)
            \/ Interrupt \/ Dispose \/ Resume

Stores == \/ \E i \in Items, p \in Priorities : EnqueueStored(i, p)
          \/ \E r \in Requeues, p \in Priorities : RequeueStored(r, p)
          \/ \E i \in Items : Started(i) \/ UserStored(i) \/ TerminalStored(i) \/ PauseStored(i)
          \/ InteractionStored

Step == \/ Stores \/ BeginTurn \/ TurnEnds \/ Opened \/ Disposed
        \/ \E i \in Items : Pause(i)
        \/ \E a \in Asks : Cancel(a)

Failures == \/ SendThrows \/ RequestAppendFails \/ TurnAppendFails \/ DrainFails \/ PauseFails
            \/ InteractionAppendFails \/ Crash

Next == Step \/ Requests \/ Failures \/ \E a \in Asks : TurnAsks(a) \/ TimesOut(a)

Spec == Init /\ [][Next]_vars

\* Appends settle, turns end, recovery goes on and timers fire.
FairSpec == Spec /\ WF_vars(Step) /\ \A a \in Asks : WF_vars(TimesOut(a))

-----------------------------------------------------------------------------
\* A prompt is sent to the model at most once, although requeue() checks that the item is
\* paused before it awaits its append, so that two requests can queue it twice, and
\* although restarts come between (drainQueue, send's look for prior evidence).
RunsOnce ==
    \A i \in Items : \A m, n \in DOMAIN life[i] : life[i][m] = "user" /\ life[i][n] = "user" => m = n

\* "A daemon restart never executes a previously pending item implicitly ... A user must
\* invoke session.queue.requeue" (web-delivery.md:111): nothing is started that was
\* paused and not requeued since.
NeverImplicit ==
    \A i \in Items : \A n \in DOMAIN life[i] :
        life[i][n] = "started" => LatestBefore(i, n) \notin {"paused", None}

\* What clients see as queued is in the daemon's queue, or about to be paused
\* (pauseRecoveredQueue); the exceptions are a session whose drain failed and recovered
\* items whose pause could not be recorded.
QueuedIsHeld ==
    mode = "up" /\ stopped # "broken" =>
        \A i \in ShownQueued :
            \/ \E n \in DOMAIN queue : queue[n] = i
            \/ drain = "starting" /\ cur = i
            \/ i \in todo \cup stranded

=============================================================================

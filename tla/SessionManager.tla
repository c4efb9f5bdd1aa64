--------------------------- MODULE SessionManager ---------------------------
(***************************************************************************)
(* One managed session of the daemon                                       *)
(* (packages/daemon/src/session-manager.ts): who owns the branch.  Client  *)
(* requests (send, shell and compaction, enqueue, interruptAndDeliver,     *)
(* reload and configure, steer, interrupt, dispose, shutdown) meet the     *)
(* queue drain over shared fields.                                         *)
(*                                                                         *)
(* Code between two awaits is one step.  Continuations that run as         *)
(* microtasks, before any other request is handled, are steps of their own *)
(* that every other step waits for (Quiet).                                *)
(***************************************************************************)
EXTENDS Integers, Sequences, FiniteSets

CONSTANTS Sends, Items, Deliveries, Shells, Rebuilds,  \* operations, by request
          Blobs,         \* operations whose content has blobs to check
          None,
          MaxInputs,     \* bound on steering messages
          MaxInterrupts, \* bound on session.interrupt requests
          MaxFaults,     \* bound on failures outside a turn's own error handling
          MayDispose,    \* whether a client may dispose the session
          MayStop        \* whether the daemon may be shut down

Turns == Sends \cup Items \cup Deliveries
Ops == Turns \cup Shells \cup Rebuilds
Families == <<Sends, Items, Deliveries, Shells, Rebuilds>>
ASSUME OpsAssumption == /\ None \notin Ops /\ Blobs \subseteq Turns
                        /\ \A m, n \in DOMAIN Families : m # n => Families[m] \cap Families[n] = {}
ASSUME ManagerBounds == /\ MaxInputs \in Nat /\ MaxInterrupts \in Nat /\ MaxFaults \in Nat
                        /\ MayDispose \in BOOLEAN /\ MayStop \in BOOLEAN

VARIABLES
    pc,          \* where each operation stands
    active,      \* managed.activeTurn
    aborted,     \* activeTurn.controller.signal.aborted
    rebuilding,  \* managed.rebuilding
    delivery,    \* managed.interruptDelivery
    target,      \* acceptedTargetOperationId of each delivery
    interruptedFor, pendingInterrupts,   \* interruptedForDelivery, pendingInterrupts
    queue,       \* managed.queue
    kick,        \* a call of startQueueDrain, or the drain loop's next turn, is due
    steered,     \* messages in the session's steering and follow-up queues
    message, terminal,    \* operations with a user.message, a terminal event in the log
    disposing, stopping,  \* managed.disposing, this.stopping
    disposal, disposeOn,  \* where dispose() stands, the turn it awaits
    wanted,      \* session.interrupt requests in the journal: the target each was given
    inputs, asked, faults

owner == <<active, aborted, rebuilding>>
interrupts == <<delivery, target, interruptedFor, pendingInterrupts>>
drain == <<queue, kick>>
events == <<message, terminal>>
ending == <<disposing, stopping, disposal, disposeOn>>
bounds == <<wanted, inputs, asked, faults>>
vars == <<pc, owner, interrupts, drain, steered, events, ending, bounds>>

\* Stages in which an operation holds activeTurn, and in which the drain holds an item.
InTurn == {"claimed", "running"}
Drained == {"starting", "checking", "claimed", "running", "failing"}
Stages == InTurn \cup Drained
          \cup {"idle", "admitted", "recording", "queued", "reserved", "waiting", "resuming",
                "building", "done", "refused", "failed", "broken"}
Draining == \E i \in Items : pc[i] \in Drained
Stage(o, s) == pc' = [pc EXCEPT ![o] = s]

\* What dispose() awaits has happened.
DisposeDue == \/ disposal = "rebuild" /\ rebuilding = None
              \/ disposal = "turn" /\ active # disposeOn
              \/ disposal = "drain" /\ ~Draining
\* No microtask is due.
Quiet == kick = "no" /\ ~DisposeDue /\ \A d \in Deliveries : pc[d] # "resuming"
\* dispatch() and managed(): the daemon runs and the session is in the map.
Known == ~stopping /\ disposal # "gone"

Init == /\ pc = [o \in Ops |-> "idle"]
        /\ active = None /\ aborted = FALSE /\ rebuilding = None
        /\ delivery = None /\ target = [d \in Deliveries |-> None]
        /\ interruptedFor = {} /\ pendingInterrupts = {}
        /\ queue = <<>> /\ kick = "no" /\ steered = 0
        /\ message = {} /\ terminal = {}
        /\ disposing = FALSE /\ stopping = FALSE /\ disposal = "off" /\ disposeOn = None
        /\ wanted = {} /\ inputs = 0 /\ asked = 0 /\ faults = 0

-----------------------------------------------------------------------------
(***************************************************************************)
(* send(): claim the branch or refuse, run the turn, let go.               *)
(***************************************************************************)
\* Mutant of Reserved: a reservation does not keep others out.
NotReserved(o) == FALSE
Reserved(o) == delivery # None /\ delivery # o /\ target[delivery] # o
\* Mutant of Occupied: a rebuild is not an owner.
OccupiedByTurn == active # None
Occupied == active # None \/ rebuilding # None

\* What becomes of an operation whose send() throws, by who called it.
Refusal(o) == IF o \in Sends \cup Shells THEN "refused" ELSE "failing"

Claim(o) == /\ active' = o /\ aborted' = (o \in pendingInterrupts)
            /\ pendingInterrupts' = pendingInterrupts \ {o}
            /\ Stage(o, "claimed")
            /\ UNCHANGED <<rebuilding, delivery, target>>
Refuse(o) == Stage(o, Refusal(o)) /\ UNCHANGED <<owner, delivery, target, pendingInterrupts>>

TryClaim(o) == IF stopping \/ disposing \/ Occupied \/ Reserved(o) THEN Refuse(o) ELSE Claim(o)

\* send() from its first line to its first await.
EnterSend(o) == IF ~stopping /\ disposal # "gone" /\ o \in Blobs
                THEN Stage(o, "checking") /\ UNCHANGED <<owner, delivery, target, pendingInterrupts>>
                ELSE TryClaim(o)

\* session.send is admitted, and runs once its acceptance is journalled.
Admit(o) == /\ Quiet /\ Known /\ o \in Sends /\ pc[o] = "idle"
            /\ Stage(o, "admitted")
            /\ UNCHANGED <<owner, interrupts, drain, steered, events, ending, bounds>>
Send(o) == /\ Quiet /\ pc[o] = "admitted"
           /\ EnterSend(o)
           /\ UNCHANGED <<interruptedFor, drain, steered, events, ending, bounds>>

\* The blobs turn out to be the session's, or not.
Checked(o) == /\ Quiet /\ pc[o] = "checking"
              /\ TryClaim(o) \/ Refuse(o)
              /\ UNCHANGED <<interruptedFor, drain, steered, events, ending, bounds>>

\* runTurn records the user message (runShell starts its command).
TurnStarts(o) == /\ Quiet /\ pc[o] = "claimed"
                 /\ Stage(o, "running")
                 /\ message' = message \cup {o}
                 /\ UNCHANGED <<owner, interrupts, drain, steered, terminal, ending, bounds>>

\* The finally block of send, shell and compact: the branch is free, whoever awaits
\* `done` resumes, then the caller of send() goes on.
LeftWaiting(o) == {}                  \* mutant: finish() is not called
Awaiting(o) == {d \in Deliveries : pc[d] = "waiting" /\ target[d] = o}
AfterSend(o, thrown) == IF thrown THEN Refusal(o)
                        ELSE IF o \in Deliveries THEN "recording" ELSE "done"
LetGo(o, thrown) ==
    /\ active' = None /\ aborted' = FALSE /\ UNCHANGED rebuilding
    /\ interruptedFor' = interruptedFor \ {o}
    /\ pc' = [p \in Ops |-> IF p = o THEN AfterSend(o, thrown)
                            ELSE IF p \in Awaiting(o) THEN "resuming" ELSE pc[p]]
    /\ kick' = IF o \notin Items THEN "start" ELSE IF thrown THEN "no" ELSE "loop"
    /\ UNCHANGED <<queue, delivery, target, pendingInterrupts>>

\* The turn ends; steering left over starts another under the same operation.
\* Mutant of Continues: the queues are not looked at.
Continues(o) == /\ o \in Turns /\ steered > 0
                /\ ~stopping /\ ~disposing /\ o \notin interruptedFor
TurnEnds(o) ==
    /\ Quiet /\ pc[o] = "running"
    /\ terminal' = terminal \cup {o}
    /\ \/ /\ Continues(o)
          /\ steered' = steered - 1 /\ aborted' = FALSE
          /\ UNCHANGED <<pc, active, rebuilding, interrupts, drain>>
       \/ ~Continues(o) /\ LetGo(o, FALSE) /\ UNCHANGED steered
    /\ UNCHANGED <<message, ending, bounds>>

\* The checkpoint or an append of the turn throws.
TurnThrows(o) == /\ Quiet /\ pc[o] \in InTurn /\ faults < MaxFaults
                 /\ faults' = faults + 1
                 /\ LetGo(o, TRUE)
                 /\ UNCHANGED <<steered, events, ending, wanted, inputs, asked>>

\* shell() and compact() look at everything but `disposing`.
Shell(o) == /\ Quiet /\ Known /\ o \in Shells /\ pc[o] = "idle"
            /\ IF Occupied \/ delivery # None THEN Refuse(o) ELSE Claim(o)
            /\ UNCHANGED <<interruptedFor, drain, steered, events, ending, bounds>>

\* queueInput(): only while a model turn is active.
Steer == /\ Quiet /\ Known /\ inputs < MaxInputs /\ rebuilding = None
         /\ active \in Turns /\ pc[active] = "running"
         /\ inputs' = inputs + 1 /\ steered' = steered + 1
         /\ UNCHANGED <<pc, owner, interrupts, drain, events, ending, wanted, asked, faults>>

-----------------------------------------------------------------------------
(***************************************************************************)
(* enqueue(), startQueueDrain() and drainQueue().                          *)
(***************************************************************************)
Enqueue(i) == /\ Quiet /\ Known /\ i \in Items /\ pc[i] = "idle"
              /\ Stage(i, "recording")
              /\ UNCHANGED <<owner, interrupts, drain, steered, events, ending, bounds>>

\* queue.enqueued is stored: the item is pushed at the front or the back.
NoKick == "no"                        \* mutant: enqueue does not start the drain
Kick == "start"
Enqueued(i) == /\ Quiet /\ i \in Items /\ pc[i] = "recording"
               /\ Stage(i, "queued")
               /\ queue' \in {<<i>> \o queue, Append(queue, i)}
               /\ kick' = Kick
               /\ UNCHANGED <<owner, interrupts, steered, events, ending, bounds>>

\* The loop's own condition, and what startQueueDrain checks besides.
LoopOn == ~stopping /\ ~disposing /\ ~Occupied /\ queue # <<>>
StartOn == LoopOn /\ ~Draining /\ delivery = None
DrainStep ==
    /\ kick # "no" /\ \A d \in Deliveries : pc[d] # "resuming"
    /\ kick' = "no"
    /\ IF (kick = "start" /\ StartOn) \/ (kick = "loop" /\ LoopOn)
         THEN Stage(Head(queue), "starting") /\ queue' = Tail(queue)
         ELSE UNCHANGED <<pc, queue>>
    /\ UNCHANGED <<owner, interrupts, steered, events, ending, bounds>>

\* queue.started is stored and the drain calls send() ...
Started(i) == /\ Quiet /\ i \in Items /\ pc[i] = "starting"
              /\ EnterSend(i)
              /\ UNCHANGED <<interruptedFor, drain, steered, events, ending, bounds>>

\* ... or an event of the drain cannot be stored: it rejects and the session is stopped.
DrainRejects(i) == /\ Quiet /\ i \in Items /\ pc[i] \in {"starting", "failing"}
                   /\ faults < MaxFaults /\ faults' = faults + 1
                   /\ Stage(i, "broken") /\ disposing' = TRUE
                   /\ UNCHANGED <<owner, interrupts, drain, steered, events,
                                  stopping, disposal, disposeOn, wanted, inputs, asked>>

\* send() threw: session.error "queued_prompt_failed", and on to the next item.
ItemFails(i) == /\ Quiet /\ i \in Items /\ pc[i] = "failing"
                /\ Stage(i, "failed")
                /\ terminal' = terminal \cup {i}
                /\ kick' = "loop"
                /\ UNCHANGED <<owner, interrupts, queue, steered, message, ending, bounds>>

-----------------------------------------------------------------------------
(***************************************************************************)
(* interruptAndDeliver(): the daemon reserves the branch when the request  *)
(* is admitted, naming the operation it interrupts.                        *)
(***************************************************************************)
Admitted == {o \in Sends : pc[o] \in {"admitted", "checking"}}
\* Requests that may still await their journal outcome or their answer.
Answering == {o \in Sends \cup Shells : pc[o] \in {"done", "refused"}}
Targets == IF active # None THEN {active}
           ELSE IF delivery # None THEN {delivery}
           ELSE Admitted \cup Answering \cup (IF Admitted = {} THEN {None} ELSE {})

Deliver(d) == /\ Quiet /\ Known /\ d \in Deliveries /\ pc[d] = "idle"
              /\ \/ delivery # None /\ Stage(d, "refused") /\ UNCHANGED <<delivery, target>>
                 \/ /\ delivery = None
                    /\ Stage(d, "reserved") /\ delivery' = d
                    /\ \E t \in Targets : target' = [target EXCEPT ![d] = t]
              /\ UNCHANGED <<owner, interruptedFor, pendingInterrupts, drain, steered,
                             events, ending, bounds>>

\* The request is journalled and recorded; now the target is stopped.
Interrupts(d) ==
    LET t == target[d] IN
    /\ Quiet /\ d \in Deliveries /\ pc[d] = "reserved"
    /\ \/ /\ stopping \/ disposal = "gone"
          /\ Stage(d, "failing") /\ UNCHANGED <<aborted, interruptedFor, terminal>>
       \/ /\ ~stopping /\ disposal # "gone" /\ t # None /\ active = t
          /\ aborted' = TRUE /\ interruptedFor' = interruptedFor \cup {t}
          /\ Stage(d, "waiting") /\ UNCHANGED terminal
       \/ /\ ~stopping /\ disposal # "gone" /\ (t = None \/ active # t)
          /\ interruptedFor' = interruptedFor \cup ({t} \ {None})
          /\ IF t \in message \ terminal
               THEN IF active = None   \* abortRecoveredTurn
                      THEN Stage(d, "resuming") /\ terminal' = terminal \cup {t}
                      ELSE Stage(d, "failing") /\ UNCHANGED terminal
               ELSE Stage(d, "resuming") /\ UNCHANGED terminal
          /\ UNCHANGED aborted
    /\ UNCHANGED <<active, rebuilding, delivery, target, pendingInterrupts, drain, steered,
                   message, ending, bounds>>

Resumes(d) == /\ d \in Deliveries /\ pc[d] = "resuming"
              /\ interruptedFor' = interruptedFor \ {target[d]}
              /\ EnterSend(d)
              /\ UNCHANGED <<drain, steered, events, ending, bounds>>

\* A blob is not the session's, or an interrupt event cannot be stored.
DeliveryFails(d) == /\ Quiet /\ d \in Deliveries /\ pc[d] \in {"reserved", "recording"}
                    /\ faults < MaxFaults /\ faults' = faults + 1
                    /\ Stage(d, "failing")
                    /\ UNCHANGED <<owner, interrupts, drain, steered, events, ending,
                                   wanted, inputs, asked>>

\* Its state "delivered" or "failed" is recorded and the reservation released.
Release(d) == delivery' = IF delivery = d THEN None ELSE delivery
Delivered(d) == /\ Quiet /\ d \in Deliveries /\ pc[d] \in {"recording", "failing"}
                /\ Stage(d, IF pc[d] = "recording" THEN "done" ELSE "failed")
                /\ Release(d)
                /\ pendingInterrupts' = pendingInterrupts \ {d}
                /\ interruptedFor' = interruptedFor \ {target[d]}
                /\ kick' = "start"
                /\ UNCHANGED <<owner, target, queue, steered, events, ending, bounds>>

\* session.interrupt: its target is chosen at admission and stopped once journalled,
\* unless the target's terminal event is already in the log.
InterruptAsked == /\ Quiet /\ Known /\ asked < MaxInterrupts /\ asked' = asked + 1
                  /\ \E t \in Targets : wanted' = wanted \cup {t}
                  /\ UNCHANGED <<pc, owner, interrupts, drain, steered, events, ending,
                                 inputs, faults>>
Interrupt(w) ==
    LET t == IF w = None THEN active ELSE w IN
    /\ Quiet /\ w \in wanted /\ wanted' = wanted \ {w}
    /\ \/ /\ t = None \/ t \in terminal \/ disposal = "gone"
          /\ UNCHANGED <<aborted, pendingInterrupts>>
       \/ /\ t # None /\ t \notin terminal /\ disposal # "gone"
          /\ IF active = t THEN aborted' = TRUE /\ UNCHANGED pendingInterrupts
             ELSE pendingInterrupts' = pendingInterrupts \cup {t} /\ UNCHANGED aborted
    /\ UNCHANGED <<pc, active, rebuilding, delivery, target, interruptedFor, drain,
                   steered, events, ending, inputs, asked, faults>>

-----------------------------------------------------------------------------
(***************************************************************************)
(* reload() and configure() rebuild the session; dispose(), disposeAll().  *)
(***************************************************************************)
Rebuild(r) == /\ Quiet /\ Known /\ r \in Rebuilds /\ pc[r] = "idle"
              /\ IF active # None \/ rebuilding # None \/ delivery # None
                   THEN Stage(r, "refused") /\ UNCHANGED rebuilding
                   ELSE Stage(r, "building") /\ rebuilding' = r
              /\ UNCHANGED <<active, aborted, interrupts, drain, steered, events, ending, bounds>>

RebuildEnds(r) == /\ Quiet /\ r \in Rebuilds /\ pc[r] = "building"
                  /\ Stage(r, "done") /\ rebuilding' = None
                  /\ UNCHANGED <<active, aborted, interrupts, drain, steered, events, ending, bounds>>

\* dispose() passes at once what it need not wait for: the rebuild, the turn it
\* aborts, the drain.  A drain that rejected makes it throw, and close() throws if an
\* operation got hold of the branch.
DrainRejected == \E i \in Items : pc[i] = "broken"
\* Mutant of Left: the drain is not awaited.
LeftButDrain(stage) == CASE stage = "rebuild" -> rebuilding # None
                         [] stage = "turn" -> active # None
                         [] stage = "drain" -> FALSE
Left(stage) == CASE stage = "rebuild" -> rebuilding # None
                 [] stage = "turn" -> active # None
                 [] stage = "drain" -> Draining
EnterDispose(stages) ==
    LET waits == {n \in DOMAIN stages : Left(stages[n])}
        first == CHOOSE n \in waits : \A m \in waits : n <= m
    IN  IF waits # {} THEN disposal' = stages[first]
        ELSE disposal' = IF active # None \/ DrainRejected THEN "failed" ELSE "closing"
AbortForDispose(stages) ==
    IF rebuilding = None /\ stages[1] \in {"rebuild", "turn"}
    THEN aborted' = (active # None) /\ disposeOn' = active
    ELSE UNCHANGED <<aborted, disposeOn>>

DisposeFrom(stages) ==
    /\ disposing' = TRUE
    /\ EnterDispose(stages) /\ AbortForDispose(stages)
    /\ UNCHANGED <<pc, active, rebuilding, interrupts, drain, steered, events, stopping, bounds>>

Dispose == /\ Quiet /\ Known /\ MayDispose /\ disposal = "off"
           /\ DisposeFrom(<<"rebuild", "turn", "drain">>)
RebuildAwaited == /\ kick = "no" /\ disposal = "rebuild" /\ rebuilding = None
                  /\ DisposeFrom(<<"turn", "drain">>)
TurnAwaited == /\ kick = "no" /\ disposal = "turn" /\ active # disposeOn
               /\ DisposeFrom(<<"drain">>)
DrainAwaited == /\ kick = "no" /\ disposal = "drain" /\ ~Draining
                /\ DisposeFrom(<<"drain">>)

\* session.closed, the extension host and the blobs are done: the session is forgotten.
Disposed == /\ Quiet /\ disposal = "closing"
            /\ disposal' = "gone"
            /\ UNCHANGED <<pc, owner, interrupts, drain, steered, events, disposing,
                           stopping, disposeOn, bounds>>

\* stop(): admission closes and what runs is aborted; once every admitted request
\* has its outcome, disposeAll().
Shutdown == /\ Quiet /\ MayStop /\ ~stopping
            /\ stopping' = TRUE
            /\ aborted' = (active # None)
            /\ UNCHANGED <<pc, active, rebuilding, interrupts, drain, steered, events,
                           disposing, disposal, disposeOn, bounds>>
\* Mutant of Answered: the queue is awaited as well.
AnsweredAndDrained(o) == pc[o] \in {"idle", "done", "refused", "failed"}
Answered(o) == IF o \in Items THEN pc[o] # "recording"
               ELSE pc[o] \in {"idle", "done", "refused", "failed"}
DisposeAll == /\ Quiet /\ stopping /\ disposal = "off"
              /\ wanted = {} /\ \A o \in Ops : Answered(o)
              /\ DisposeFrom(<<"rebuild", "turn", "drain">>)

-----------------------------------------------------------------------------
Request == \/ \E o \in Ops : \/ Admit(o) \/ Shell(o) \/ Enqueue(o) \/ Deliver(o) \/ Rebuild(o)
           \/ Steer \/ InterruptAsked \/ Dispose \/ Shutdown
Continuation ==
    \/ \E o \in Ops : \/ Send(o) \/ Checked(o) \/ TurnStarts(o) \/ TurnEnds(o)
                      \/ Enqueued(o) \/ Started(o) \/ ItemFails(o)
                      \/ Interrupts(o) \/ Resumes(o) \/ Delivered(o) \/ RebuildEnds(o)
    \/ \E w \in Ops \cup {None} : Interrupt(w)
    \/ DrainStep \/ RebuildAwaited \/ TurnAwaited \/ DrainAwaited \/ Disposed \/ DisposeAll
Failure == \E o \in Ops : TurnThrows(o) \/ DrainRejects(o) \/ DeliveryFails(o)
Next == Request \/ Continuation \/ Failure

\* The event loop runs on, appends settle and turns end.
Spec == Init /\ [][Next]_vars /\ WF_vars(Continuation)

-----------------------------------------------------------------------------
(***************************************************************************)
(* Properties                                                              *)
(***************************************************************************)

\* The types of the managed session's fields.
TypeOK ==
    /\ pc \in [Ops -> Stages]
    /\ active \in Ops \cup {None} /\ aborted \in BOOLEAN /\ rebuilding \in Rebuilds \cup {None}
    /\ delivery \in Deliveries \cup {None} /\ target \in [Deliveries -> Ops \cup {None}]
    /\ interruptedFor \subseteq Ops /\ pendingInterrupts \subseteq Ops
    /\ queue \in Seq(Items) /\ kick \in {"no", "start", "loop"} /\ steered \in Nat
    /\ message \subseteq Ops /\ terminal \subseteq Ops
    /\ disposing \in BOOLEAN /\ stopping \in BOOLEAN
    /\ disposal \in {"off", "rebuild", "turn", "drain", "closing", "gone", "failed"}
    /\ disposeOn \in Ops \cup {None}
    /\ wanted \subseteq Ops \cup {None} /\ inputs \in Nat /\ asked \in Nat /\ faults \in Nat

\* "Exactly one operation may mutate the branch at a time" (agent-session.ts:225):
\* turns, shells, queued prompts, deliveries and rebuilds exclude one another,
\* and activeTurn names the one that runs.
OneOwner == /\ \A o \in Ops : pc[o] \in InTurn => active = o
            /\ active # None => rebuilding = None
            /\ \A r \in Rebuilds : pc[r] = "building" => rebuilding = r

\* While a delivery holds its reservation nothing runs but the operation it
\* interrupts and the delivery itself.
ReservationHolds ==
    delivery # None /\ active # None => active \in {delivery, target[delivery]}

\* "Shutdown ... interrupts active operations, prevents queued continuation, waits
\* for accepted request outcomes" (client-boundaries.md:129): a session that
\* dispose() has forgotten has no operation left that would write to its log.
DisposedIsQuiet == disposal = "gone" => active = None /\ rebuilding = None /\ ~Draining

\* "interrupt aborts the active operation" (daemon.test.ts:2301): a session.interrupt
\* that is carried out while its target owns the branch aborts it.
InterruptHeeded ==
    [][\A o \in Ops : o \in wanted \ wanted' /\ active = o => aborted']_vars

\* A queued prompt that is started runs (web-delivery.md:107), unless the
\* session is being disposed.
QueuedPromptRuns ==
    \A i \in Items : pc[i] = "failed" => i \in message \/ disposing

\* "The daemon executes queued items in priority order after the active
\* operation finishes" (web-delivery.md:107).
QueueDrains == \A i \in Items : pc[i] = "queued" ~> (pc[i] # "queued" \/ disposing)

\* A reservation is released, whatever becomes of the delivery and its target.
DeliveryReleased == delivery # None ~> delivery = None

\* Shutdown and dispose() come to an end.
DisposeEnds == stopping \/ disposal # "off" ~> disposal \in {"gone", "failed"}

=============================================================================

------------------------ MODULE SessionManagerProofs ------------------------
(***************************************************************************)
(* Machine-checked proofs about SessionManager, for any number of sends,   *)
(* queued prompts, deliveries, shells, rebuilds, interrupts and faults.    *)
(***************************************************************************)
EXTENDS SessionManager, SequenceTheorems, TLAPS

\* A delivery, a send, a shell ... is an operation, and None is not.
LEMMA OpsFacts ==
    /\ Sends \subseteq Ops /\ Items \subseteq Ops /\ Deliveries \subseteq Ops
    /\ Shells \subseteq Ops /\ Rebuilds \subseteq Ops /\ Turns \subseteq Ops
    /\ None \notin Ops
BY OpsAssumption DEF Ops, Turns

\* Claiming the branch, or refusing, keeps the fields they assign well-formed.
LEMMA ClaimTypes ==
    ASSUME TypeOK, NEW o \in Ops, Claim(o) \/ Refuse(o)
    PROVE  /\ pc' \in [Ops -> Stages]
           /\ active' \in Ops \cup {None} /\ aborted' \in BOOLEAN
           /\ rebuilding' = rebuilding
           /\ delivery' = delivery /\ target' = target
           /\ pendingInterrupts' \subseteq Ops
<1>1. CASE Claim(o)
  <2>1. (o \in pendingInterrupts) \in BOOLEAN
    OBVIOUS
  <2> QED
    BY <1>1, <2>1 DEF TypeOK, Claim, Stage, Stages, InTurn
<1>2. CASE Refuse(o)
  BY <1>2 DEF TypeOK, Refuse, Refusal, Stage, Stages, InTurn, Drained, owner
<1> QED
  BY <1>1, <1>2

\* So does send() up to its first await.
LEMMA SendTypes ==
    ASSUME TypeOK, NEW o \in Ops, EnterSend(o) \/ TryClaim(o)
    PROVE  /\ pc' \in [Ops -> Stages]
           /\ active' \in Ops \cup {None} /\ aborted' \in BOOLEAN
           /\ rebuilding' = rebuilding
           /\ delivery' = delivery /\ target' = target
           /\ pendingInterrupts' \subseteq Ops
<1>1. CASE TryClaim(o)
  BY <1>1, ClaimTypes DEF TryClaim
<1>2. CASE EnterSend(o) /\ ~TryClaim(o)
  BY <1>2 DEF TypeOK, EnterSend, Stage, Stages, Drained, owner
<1> QED
  BY <1>1, <1>2

\* And the finally block that frees the branch.
LEMMA LetGoTypes ==
    ASSUME TypeOK, NEW o \in Ops, NEW thrown, LetGo(o, thrown)
    PROVE  /\ pc' \in [Ops -> Stages]
           /\ active' = None /\ aborted' = FALSE /\ rebuilding' = rebuilding
           /\ delivery' = delivery /\ target' = target /\ queue' = queue
           /\ interruptedFor' \subseteq Ops /\ pendingInterrupts' \subseteq Ops
           /\ kick' \in {"no", "start", "loop"}
<1>1. AfterSend(o, thrown) \in Stages
  BY DEF AfterSend, Refusal, Stages, Drained
<1>2. "resuming" \in Stages
  BY DEF Stages
<1> QED
  BY <1>1, <1>2 DEF TypeOK, LetGo

\* dispose() waits for one of the things it names, or is past them.
LEMMA DisposalTypes ==
    ASSUME NEW stages, EnterDispose(stages),
           stages \in {<<"rebuild", "turn", "drain">>, <<"turn", "drain">>, <<"drain">>}
    PROVE  disposal' \in {"rebuild", "turn", "drain", "closing", "failed"}
<1> DEFINE waits == {n \in DOMAIN stages : Left(stages[n])}
           Least(n) == n \in waits /\ \A m \in waits : n <= m
<1>1. \A n \in DOMAIN stages : stages[n] \in {"rebuild", "turn", "drain"}
  OBVIOUS
<1>2. CASE waits # {}
  <2>1. DOMAIN stages \subseteq {1, 2, 3}
    OBVIOUS
  <2>2. \E n : Least(n)
    BY <1>2, <2>1
  <2>3. (CHOOSE n \in waits : \A m \in waits : n <= m) \in waits
    BY <2>2
  <2> QED
    BY <1>1, <1>2, <2>3 DEF EnterDispose
<1>3. CASE waits = {}
  BY <1>3 DEF EnterDispose
<1> QED
  BY <1>2, <1>3

\* Every step of dispose() touches only the abort signal and its own state.
LEMMA DisposeTypes ==
    ASSUME TypeOK, NEW stages, DisposeFrom(stages),
           stages \in {<<"rebuild", "turn", "drain">>, <<"turn", "drain">>, <<"drain">>}
    PROVE  TypeOK'
<1>1. disposal' \in {"rebuild", "turn", "drain", "closing", "failed"}
  BY DisposalTypes DEF DisposeFrom
<1>2. aborted' \in BOOLEAN /\ disposeOn' \in Ops \cup {None}
  BY DEF DisposeFrom, AbortForDispose, TypeOK
<1> QED
  BY <1>1, <1>2 DEF TypeOK, DisposeFrom, interrupts, drain, events, bounds

-----------------------------------------------------------------------------
\* Every step preserves the types; a turn continues only while steering is queued.
LEMMA TypeStep ==
    ASSUME TypeOK, [Next]_vars
    PROVE  TypeOK'
<1> USE OpsFacts
<1>1. ASSUME NEW o \in Ops, Admit(o) PROVE TypeOK'
  BY <1>1 DEF Admit, Stage, Stages, TypeOK,
     owner, interrupts, drain, events, ending, bounds
<1>2. ASSUME NEW o \in Ops, Shell(o) PROVE TypeOK'
  BY <1>2, ClaimTypes DEF Shell, TypeOK,
     owner, interrupts, drain, events, ending, bounds
<1>3. ASSUME NEW o \in Ops, Enqueue(o) PROVE TypeOK'
  BY <1>3 DEF Enqueue, Stage, Stages, TypeOK,
     owner, interrupts, drain, events, ending, bounds
<1>4. ASSUME NEW o \in Ops, Deliver(o) PROVE TypeOK'
  BY <1>4 DEF Deliver, Stage, Stages, Targets, Admitted, Answering, Ops, Turns, TypeOK,
     owner, interrupts, drain, events, ending, bounds
<1>5. ASSUME NEW o \in Ops, Rebuild(o) PROVE TypeOK'
  BY <1>5 DEF Rebuild, Stage, Stages, TypeOK,
     owner, interrupts, drain, events, ending, bounds
<1>6. ASSUME Steer PROVE TypeOK'
  BY <1>6 DEF Steer, TypeOK,
     owner, interrupts, drain, events, ending, bounds
<1>7. ASSUME InterruptAsked PROVE TypeOK'
  BY <1>7 DEF InterruptAsked, Targets, Admitted, Answering, Ops, Turns, TypeOK,
     owner, interrupts, drain, events, ending, bounds
<1>8. ASSUME Dispose PROVE TypeOK'
  BY <1>8, DisposeTypes DEF Dispose
<1>9. ASSUME Shutdown PROVE TypeOK'
  BY <1>9 DEF Shutdown, TypeOK,
     owner, interrupts, drain, events, ending, bounds
<1>10. ASSUME NEW o \in Ops, Send(o) PROVE TypeOK'
  BY <1>10, OpsFacts, SendTypes DEF Send, TypeOK,
     owner, interrupts, drain, events, ending, bounds
<1>11. ASSUME NEW o \in Ops, Checked(o) PROVE TypeOK'
  BY <1>11, SendTypes, ClaimTypes DEF Checked, TypeOK,
     owner, interrupts, drain, events, ending, bounds
<1>12. ASSUME NEW o \in Ops, TurnStarts(o) PROVE TypeOK'
  BY <1>12 DEF TurnStarts, Stage, Stages, InTurn, TypeOK,
     owner, interrupts, drain, events, ending, bounds
<1>13. ASSUME NEW o \in Ops, TurnEnds(o) PROVE TypeOK'
  <2>1. CASE Continues(o)
    <3>1. /\ steered' = steered - 1 /\ aborted' = FALSE
          /\ terminal' = terminal \cup {o}
          /\ UNCHANGED <<pc, active, rebuilding, interrupts, drain, message, ending, bounds>>
      BY <1>13, <2>1 DEF TurnEnds
    <3>2. steered' \in Nat
      BY <2>1, <3>1 DEF Continues, TypeOK
    <3> QED
      BY <3>1, <3>2 DEF TypeOK, interrupts, drain, ending, bounds
  <2>2. CASE LetGo(o, FALSE) /\ UNCHANGED steered
    BY <1>13, <2>2, LetGoTypes DEF TurnEnds, TypeOK, ending, bounds
  <2> QED
    BY <1>13, <2>1, <2>2 DEF TurnEnds
<1>14. ASSUME NEW o \in Ops, Enqueued(o) PROVE TypeOK'
  <2>1. o \in Items /\ queue \in Seq(Items)
    BY <1>14 DEF Enqueued, TypeOK
  <2>2. <<o>> \in Seq(Items)
    BY <2>1
  <2>3. <<o>> \o queue \in Seq(Items) /\ Append(queue, o) \in Seq(Items)
    BY <2>1, <2>2, ConcatProperties, AppendProperties
  <2>4. queue' \in Seq(Items)
    BY <1>14, <2>3 DEF Enqueued
  <2> QED
    BY <1>14, <2>4 DEF Enqueued, Stage, Stages, Kick, TypeOK,
       owner, interrupts, events, ending, bounds
<1>15. ASSUME NEW o \in Ops, Started(o) PROVE TypeOK'
  BY <1>15, SendTypes DEF Started, TypeOK,
     owner, interrupts, drain, events, ending, bounds
<1>16. ASSUME NEW o \in Ops, ItemFails(o) PROVE TypeOK'
  BY <1>16 DEF ItemFails, Stage, Stages, TypeOK,
     owner, interrupts, drain, events, ending, bounds
<1>17. ASSUME NEW o \in Ops, Interrupts(o) PROVE TypeOK'
  <2>1. pc' \in [Ops -> Stages]
    BY <1>17 DEF Interrupts, Stage, Stages, Drained, TypeOK
  <2>2. interruptedFor' \subseteq Ops /\ terminal' \subseteq Ops
    BY <1>17 DEF Interrupts, TypeOK
  <2>3. aborted' \in BOOLEAN
    BY <1>17 DEF Interrupts, TypeOK
  <2> QED
    BY <1>17, <2>1, <2>2, <2>3 DEF Interrupts, TypeOK, drain, ending, bounds
<1>18. ASSUME NEW o \in Ops, Resumes(o) PROVE TypeOK'
  BY <1>18, SendTypes DEF Resumes, TypeOK,
     owner, interrupts, drain, events, ending, bounds
<1>19. ASSUME NEW o \in Ops, Delivered(o) PROVE TypeOK'
  BY <1>19 DEF Delivered, Release, Stage, Stages, TypeOK,
     owner, interrupts, drain, events, ending, bounds
<1>20. ASSUME NEW o \in Ops, RebuildEnds(o) PROVE TypeOK'
  BY <1>20 DEF RebuildEnds, Stage, Stages, TypeOK,
     owner, interrupts, drain, events, ending, bounds
<1>21. ASSUME NEW w \in Ops \cup {None}, Interrupt(w) PROVE TypeOK'
  <2>1. aborted' \in BOOLEAN
    BY <1>21 DEF Interrupt, TypeOK
  <2>2. pendingInterrupts' \subseteq Ops
    BY <1>21 DEF Interrupt, TypeOK
  <2> QED
    BY <1>21, <2>1, <2>2 DEF Interrupt, TypeOK, drain, events, ending
<1>22. ASSUME DrainStep PROVE TypeOK'
  <2>1. CASE UNCHANGED <<pc, queue>>
    BY <1>22, <2>1 DEF DrainStep, TypeOK, owner, interrupts, events, ending, bounds
  <2>2. CASE Stage(Head(queue), "starting") /\ queue' = Tail(queue) /\ queue # <<>>
    <3>1. Tail(queue) \in Seq(Items)
      BY <2>2, HeadTailProperties DEF TypeOK
    <3>2. pc' \in [Ops -> Stages]
      BY <2>2 DEF TypeOK, Stage, Stages, Drained
    <3> QED
      BY <1>22, <2>2, <3>1, <3>2 DEF DrainStep, TypeOK, owner, interrupts, events, ending,
         bounds
  <2> QED
    BY <1>22, <2>1, <2>2 DEF DrainStep, StartOn, LoopOn
<1>23. ASSUME RebuildAwaited PROVE TypeOK'
  BY <1>23, DisposeTypes DEF RebuildAwaited
<1>24. ASSUME TurnAwaited PROVE TypeOK'
  BY <1>24, DisposeTypes DEF TurnAwaited
<1>25. ASSUME DrainAwaited PROVE TypeOK'
  BY <1>25, DisposeTypes DEF DrainAwaited
<1>26. ASSUME Disposed PROVE TypeOK'
  BY <1>26 DEF Disposed, TypeOK,
     owner, interrupts, drain, events, ending, bounds
<1>27. ASSUME DisposeAll PROVE TypeOK'
  BY <1>27, DisposeTypes DEF DisposeAll
<1>28. ASSUME NEW o \in Ops, TurnThrows(o) PROVE TypeOK'
  <2>1. LetGo(o, TRUE)
    BY <1>28 DEF TurnThrows
  <2>2. /\ pc' \in [Ops -> Stages]
        /\ active' = None /\ aborted' = FALSE /\ rebuilding' = rebuilding
        /\ delivery' = delivery /\ target' = target /\ queue' = queue
        /\ interruptedFor' \subseteq Ops /\ pendingInterrupts' \subseteq Ops
        /\ kick' \in {"no", "start", "loop"}
    BY ONLY <2>1, TypeOK, o \in Ops, LetGoTypes, Zenon
  <2>3. UNCHANGED <<steered, message, terminal, disposing, stopping, disposal, disposeOn,
                    wanted, inputs, asked>> /\ faults' = faults + 1
    BY <1>28 DEF TurnThrows, events, ending
  <2>4. faults' \in Nat
    BY <2>3 DEF TypeOK
  <2> HIDE OpsFacts
  <2> QED
    BY <2>2, <2>3, <2>4 DEF TypeOK
<1>29. ASSUME NEW o \in Ops, DrainRejects(o) PROVE TypeOK'
  BY <1>29 DEF DrainRejects, Stage, Stages, TypeOK,
     owner, interrupts, drain, events, ending, bounds
<1>30. ASSUME NEW o \in Ops, DeliveryFails(o) PROVE TypeOK'
  BY <1>30 DEF DeliveryFails, Stage, Stages, Drained, TypeOK,
     owner, interrupts, drain, events, ending, bounds
<1>31. ASSUME UNCHANGED vars PROVE TypeOK'
  BY <1>31 DEF vars, TypeOK,
     owner, interrupts, drain, events, ending, bounds
<1> QED
  BY <1>1, <1>2, <1>3, <1>4, <1>5, <1>6, <1>7, <1>8, <1>9, <1>10, <1>11, <1>12,
     <1>13, <1>14, <1>15, <1>16, <1>17, <1>18, <1>19, <1>20, <1>21, <1>22,
     <1>23, <1>24, <1>25, <1>26, <1>27, <1>28, <1>29, <1>30, <1>31
     DEF Next, Request, Continuation, Failure

-----------------------------------------------------------------------------
(***************************************************************************)
(* Ownership of the branch.  OneOwner is inductive once the types are      *)
(* known: whoever claims does so in a step that finds the branch free, and *)
(* only the owner lets go.                                                 *)
(***************************************************************************)
\* An operation that moves without claiming, building or letting go disturbs nobody.
LEMMA MoveKeepsOwner ==
    ASSUME TypeOK, OneOwner, NEW o, NEW s, Stage(o, s), s \notin InTurn, s # "building",
           UNCHANGED <<active, rebuilding>>
    PROVE  OneOwner'
BY OpsFacts DEF TypeOK, OneOwner, Stage

\* send(), shell() and compact() claim a free branch or refuse.
LEMMA ClaimKeepsOwner ==
    ASSUME TypeOK, OneOwner, NEW o \in Ops, Refuse(o) \/ (~Occupied /\ Claim(o))
    PROVE  OneOwner'
<1>1. CASE Refuse(o)
  <2>1. Refusal(o) \notin InTurn /\ Refusal(o) # "building"
    BY DEF Refusal, InTurn
  <2> QED
    BY <1>1, <2>1, MoveKeepsOwner DEF Refuse, owner
<1>2. CASE ~Occupied /\ Claim(o)
  <2>1. active = None /\ rebuilding = None
    BY <1>2 DEF Occupied
  <2>2. \A p \in Ops : pc[p] \notin InTurn
    BY <2>1, OpsFacts DEF OneOwner
  <2> QED
    BY <1>2, <2>1, <2>2, OpsFacts DEF TypeOK, OneOwner, Claim, Stage, InTurn
<1> QED
  BY <1>1, <1>2

\* send() up to its first await, whoever calls it.
LEMMA SendKeepsOwner ==
    ASSUME TypeOK, OneOwner, NEW o \in Ops, EnterSend(o) \/ TryClaim(o)
    PROVE  OneOwner'
<1>1. CASE TryClaim(o)
  BY <1>1, ClaimKeepsOwner DEF TryClaim
<1>2. CASE EnterSend(o) /\ ~TryClaim(o)
  BY <1>2, MoveKeepsOwner DEF EnterSend, InTurn, owner
<1> QED
  BY <1>1, <1>2

\* The finally block of the owner.
LEMMA LetGoKeepsOwner ==
    ASSUME TypeOK, OneOwner, NEW o \in Ops, NEW thrown, pc[o] \in InTurn, LetGo(o, thrown)
    PROVE  OneOwner'
<1>1. AfterSend(o, thrown) \notin InTurn /\ AfterSend(o, thrown) # "building"
  BY DEF AfterSend, Refusal, InTurn
<1>2. active = o
  BY DEF OneOwner
<1>3. \A p \in Ops : pc'[p] \notin InTurn
  BY <1>1, <1>2, OpsFacts DEF LetGo, OneOwner, InTurn
<1>4. \A r \in Rebuilds : pc'[r] = "building" => pc[r] = "building"
  BY <1>1, OpsFacts DEF LetGo
<1>5. active' = None /\ rebuilding' = rebuilding
  BY DEF LetGo
<1> QED
  BY <1>3, <1>4, <1>5 DEF OneOwner

\* Every step preserves ownership.
LEMMA OwnerStep ==
    ASSUME TypeOK, OneOwner, [Next]_vars
    PROVE  OneOwner'
<1>1. ASSUME NEW o \in Ops, \/ Admit(o) \/ Enqueue(o) \/ Enqueued(o) \/ ItemFails(o)
                            \/ Delivered(o) \/ DrainRejects(o) \/ DeliveryFails(o)
      PROVE OneOwner'
  BY <1>1, MoveKeepsOwner DEF Admit, Enqueue, Enqueued, ItemFails, Delivered, DrainRejects,
     DeliveryFails, InTurn, owner
<1>2. ASSUME NEW o \in Ops, Deliver(o) \/ Interrupts(o) PROVE OneOwner'
  BY <1>2, MoveKeepsOwner DEF Deliver, Interrupts, InTurn, owner
<1>3. ASSUME NEW o \in Ops, Shell(o) PROVE OneOwner'
  BY <1>3, ClaimKeepsOwner DEF Shell, Occupied
<1>4. ASSUME NEW o \in Ops, Send(o) \/ Checked(o) \/ Started(o) \/ Resumes(o)
      PROVE OneOwner'
  BY <1>4, SendKeepsOwner, ClaimKeepsOwner DEF Send, Checked, Started, Resumes
<1>5. ASSUME NEW o \in Ops, TurnStarts(o) PROVE OneOwner'
  BY <1>5, OpsFacts DEF TurnStarts, Stage, TypeOK, OneOwner, InTurn, owner
<1>6. ASSUME NEW o \in Ops, TurnEnds(o) PROVE OneOwner'
  <2>1. pc[o] \in InTurn
    BY <1>6 DEF TurnEnds, InTurn
  <2>2. CASE LetGo(o, FALSE)
    BY <2>1, <2>2, LetGoKeepsOwner
  <2>3. CASE UNCHANGED <<pc, active, rebuilding>>
    BY <2>3 DEF OneOwner
  <2> QED
    BY <1>6, <2>2, <2>3 DEF TurnEnds
<1>7. ASSUME NEW o \in Ops, TurnThrows(o) PROVE OneOwner'
  BY <1>7, LetGoKeepsOwner DEF TurnThrows
<1>8. ASSUME NEW o \in Ops, Rebuild(o) PROVE OneOwner'
  <2>1. CASE Stage(o, "refused") /\ UNCHANGED rebuilding
    BY <1>8, <2>1, MoveKeepsOwner DEF Rebuild, InTurn
  <2>2. CASE active = None /\ rebuilding = None /\ Stage(o, "building") /\ rebuilding' = o
    <3>1. o \in Rebuilds /\ active' = None
      BY <1>8, <2>2 DEF Rebuild
    <3>2. \A p \in Ops : pc[p] \notin InTurn /\ (p \in Rebuilds => pc[p] # "building")
      BY <2>2, OpsFacts DEF OneOwner
    <3> QED
      BY <2>2, <3>1, <3>2, OpsFacts DEF OneOwner, TypeOK, Stage, InTurn
  <2> QED
    BY <1>8, <2>1, <2>2 DEF Rebuild
<1>9. ASSUME NEW o \in Ops, RebuildEnds(o) PROVE OneOwner'
  <2>1. o \in Rebuilds /\ rebuilding = o /\ active' = active /\ rebuilding' = None
    BY <1>9 DEF RebuildEnds, OneOwner
  <2>2. active = None
    BY <2>1, OpsFacts DEF OneOwner
  <2>3. \A r \in Rebuilds : pc'[r] # "building"
    BY <1>9, <2>1, OpsFacts DEF RebuildEnds, Stage, TypeOK, OneOwner
  <2>4. \A p \in Ops : pc'[p] \in InTurn => pc[p] \in InTurn
    BY <1>9 DEF RebuildEnds, Stage, TypeOK, InTurn
  <2> QED
    BY <2>1, <2>2, <2>3, <2>4 DEF OneOwner
<1>10. ASSUME DrainStep PROVE OneOwner'
  <2>1. CASE UNCHANGED pc
    BY <1>10, <2>1 DEF DrainStep, OneOwner, owner
  <2>2. CASE Stage(Head(queue), "starting")
    BY <1>10, <2>2, MoveKeepsOwner DEF DrainStep, InTurn, owner
  <2> QED
    BY <1>10, <2>1, <2>2 DEF DrainStep
<1>11. ASSUME UNCHANGED <<pc, active, rebuilding>> PROVE OneOwner'
  BY <1>11 DEF OneOwner
<1>12. ASSUME \/ Steer \/ InterruptAsked \/ Dispose \/ Shutdown \/ RebuildAwaited
              \/ TurnAwaited \/ DrainAwaited \/ Disposed \/ DisposeAll \/ UNCHANGED vars
              \/ \E w \in Ops \cup {None} : Interrupt(w)
       PROVE UNCHANGED <<pc, active, rebuilding>>
  BY <1>12 DEF Steer, InterruptAsked, Dispose, Shutdown, RebuildAwaited, TurnAwaited,
     DrainAwaited, Disposed, DisposeAll, Interrupt, DisposeFrom, owner, vars
<1> QED
  BY <1>1, <1>2, <1>3, <1>4, <1>5, <1>6, <1>7, <1>8, <1>9, <1>10, <1>11, <1>12
     DEF Next, Request, Continuation, Failure

-----------------------------------------------------------------------------
(***************************************************************************)
(* The reservation of an interrupt delivery.                               *)
(***************************************************************************)
\* Who claims the branch under a reservation holds it or is its target.
LEMMA SendKeepsReservation ==
    ASSUME TypeOK, ReservationHolds, NEW o \in Ops, EnterSend(o) \/ TryClaim(o) \/ Refuse(o)
    PROVE  ReservationHolds'
<1>1. CASE UNCHANGED <<active, delivery, target>>
  BY <1>1 DEF ReservationHolds
<1>2. CASE Claim(o) /\ ~Reserved(o)
  BY <1>2 DEF ReservationHolds, Claim, Reserved
<1>3. \/ UNCHANGED <<active, delivery, target>>
      \/ Claim(o) /\ ~Reserved(o)
  BY DEF EnterSend, TryClaim, Refuse, owner
<1> QED
  BY <1>1, <1>2, <1>3

\* Every step preserves the reservation.
LEMMA ReservationStep ==
    ASSUME TypeOK, ReservationHolds, [Next]_vars
    PROVE  ReservationHolds'
<1>1. ASSUME NEW o \in Ops, Send(o) \/ Checked(o) \/ Started(o) \/ Resumes(o)
      PROVE ReservationHolds'
  BY <1>1, SendKeepsReservation DEF Send, Checked, Started, Resumes
<1>2. ASSUME NEW o \in Ops, Shell(o) PROVE ReservationHolds'
  <2>1. CASE Refuse(o)
    BY <2>1, SendKeepsReservation
  <2>2. CASE delivery = None /\ Claim(o)
    BY <2>2 DEF ReservationHolds, Claim
  <2> QED
    BY <1>2, <2>1, <2>2 DEF Shell
<1>3. ASSUME NEW o \in Ops, Deliver(o) PROVE ReservationHolds'
  <2>1. CASE UNCHANGED <<delivery, target>>
    BY <1>3, <2>1 DEF ReservationHolds, Deliver, owner
  <2>2. CASE /\ delivery' = o /\ active' = active /\ o \in Deliveries
             /\ \E t \in Targets : target' = [target EXCEPT ![o] = t]
    BY <2>2 DEF ReservationHolds, Targets, TypeOK
  <2> QED
    BY <1>3, <2>1, <2>2 DEF Deliver, owner
<1>4. ASSUME NEW o \in Ops, Delivered(o) PROVE ReservationHolds'
  BY <1>4 DEF ReservationHolds, Delivered, Release, owner
<1>5. ASSUME NEW o \in Ops, TurnEnds(o) \/ TurnThrows(o) PROVE ReservationHolds'
  <2>1. active' = None \/ UNCHANGED <<active, delivery, target>>
    BY <1>5 DEF TurnEnds, TurnThrows, LetGo, interrupts
  <2> QED
    BY <2>1 DEF ReservationHolds
<1>6. ASSUME UNCHANGED <<active, delivery, target>> PROVE ReservationHolds'
  BY <1>6 DEF ReservationHolds
<1>7. ASSUME NEW o \in Ops,
             \/ Admit(o) \/ Enqueue(o) \/ Rebuild(o) \/ TurnStarts(o) \/ Enqueued(o)
             \/ ItemFails(o) \/ Interrupts(o) \/ RebuildEnds(o) \/ DrainRejects(o)
             \/ DeliveryFails(o)
      PROVE UNCHANGED <<active, delivery, target>>
  BY <1>7 DEF Admit, Enqueue, Rebuild, TurnStarts, Enqueued, ItemFails, Interrupts,
     RebuildEnds, DrainRejects, DeliveryFails, owner, interrupts
<1>8. ASSUME \/ Steer \/ InterruptAsked \/ Dispose \/ Shutdown \/ RebuildAwaited
             \/ TurnAwaited \/ DrainAwaited \/ Disposed \/ DisposeAll \/ DrainStep
             \/ UNCHANGED vars \/ \E w \in Ops \cup {None} : Interrupt(w)
      PROVE UNCHANGED <<active, delivery, target>>
  BY <1>8 DEF Steer, InterruptAsked, Dispose, Shutdown, RebuildAwaited, TurnAwaited,
     DrainAwaited, Disposed, DisposeAll, DrainStep, Interrupt, DisposeFrom,
     owner, interrupts, vars
<1> QED
  BY <1>1, <1>2, <1>3, <1>4, <1>5, <1>6, <1>7, <1>8
     DEF Next, Request, Continuation, Failure

-----------------------------------------------------------------------------
(***************************************************************************)
(* dispose().  Shell and rebuild do not look at `disposing`: they must be  *)
(* kept out by a daemon that stops, or there must be none.                 *)
(***************************************************************************)
KeptOut == stopping \/ (Shells = {} /\ Rebuilds = {})
QuietInv ==
    /\ disposal # "off" => disposing /\ KeptOut
    /\ disposal \in {"turn", "drain", "closing", "gone"} => rebuilding = None
    /\ disposal \in {"closing", "gone"} => active = None /\ ~Draining
    /\ \A o \in Ops : pc[o] = "admitted" => o \in Sends

\* Requests of different kinds are different operations.
LEMMA KindsDiffer ==
    /\ Items \cap Sends = {} /\ Items \cap Deliveries = {} /\ Items \cap Rebuilds = {}
    /\ Items \cap Shells = {}
<1>1. DOMAIN Families = 1..5 /\ Families[1] = Sends /\ Families[2] = Items
      /\ Families[3] = Deliveries /\ Families[4] = Shells /\ Families[5] = Rebuilds
  BY DEF Families
<1>2. 1 \in 1..5 /\ 2 \in 1..5 /\ 3 \in 1..5 /\ 4 \in 1..5 /\ 5 \in 1..5
  OBVIOUS
<1>3. \A m, n \in DOMAIN Families : m # n => Families[m] \cap Families[n] = {}
  BY OpsAssumption
<1>4. 2 # 1 /\ 2 # 3 /\ 2 # 4 /\ 2 # 5
  OBVIOUS
<1> QED
  BY <1>1, <1>2, <1>3, <1>4, Zenon

\* What the steps beside dispose() leave alone once it has begun.
Calm == /\ active = None => active' = None
        /\ rebuilding = None => rebuilding' = None
        /\ Draining' => Draining
        /\ \A o \in Ops : pc'[o] = "admitted" => pc[o] = "admitted" \/ o \in Sends

\* An operation moves, and an item comes into the drain's hands only from there.
LEMMA MoveIsCalm ==
    ASSUME TypeOK, NEW o, NEW s, Stage(o, s), s # "admitted" \/ o \in Sends,
           o \in Items /\ s \in Drained => pc[o] \in Drained,
           active = None => active' = None, rebuilding = None => rebuilding' = None
    PROVE  Calm
<1>1. \A p \in Ops : pc'[p] = IF p = o THEN s ELSE pc[p]
  BY DEF Stage, TypeOK
<1>2. Draining' => Draining
  BY <1>1, OpsFacts DEF Draining
<1> QED
  BY <1>1, <1>2 DEF Calm

\* send() refuses once the session is being disposed.
LEMMA SendIsCalm ==
    ASSUME TypeOK, disposing, NEW o \in Ops, EnterSend(o) \/ TryClaim(o) \/ Refuse(o),
           o \in Items => pc[o] \in Drained
    PROVE  Calm
<1>1. CASE Refuse(o)
  <2>1. Refusal(o) # "admitted"
    BY DEF Refusal
  <2> QED
    BY <1>1, <2>1, MoveIsCalm DEF Refuse, owner
<1>2. CASE Stage(o, "checking") /\ UNCHANGED owner
  BY <1>2, MoveIsCalm DEF owner
<1> QED
  BY <1>1, <1>2 DEF EnterSend, TryClaim

\* The finally block.
LEMMA LetGoIsCalm ==
    ASSUME TypeOK, NEW o \in Ops, NEW thrown, pc[o] \in InTurn, LetGo(o, thrown)
    PROVE  Calm
<1>1. \A p \in Ops : pc'[p] = IF p = o THEN AfterSend(o, thrown)
                              ELSE IF p \in Awaiting(o) THEN "resuming" ELSE pc[p]
  BY DEF LetGo
<1>2. AfterSend(o, thrown) # "admitted"
  BY DEF AfterSend, Refusal
<1>3. \A p \in Ops : pc'[p] = "admitted" => pc[p] = "admitted"
  BY <1>1, <1>2
<1>4. \A p \in Items : pc'[p] \in Drained => pc[p] \in Drained
  BY <1>1, OpsFacts DEF Drained, InTurn
<1>5. Draining' => Draining
  BY <1>4 DEF Draining
<1> QED
  BY <1>3, <1>5 DEF Calm, LetGo

\* Every step but those of dispose() itself.
LEMMA OthersAreCalm ==
    ASSUME TypeOK, QuietInv, disposal # "off", Next
    PROVE  Calm
<1>1. disposing /\ KeptOut
  BY DEF QuietInv
<1>2. ~Known \/ (Shells = {} /\ Rebuilds = {})
  BY <1>1 DEF KeptOut, Known
<1>3. ASSUME NEW o \in Ops, Admit(o) PROVE Calm
  BY <1>3, KindsDiffer, MoveIsCalm DEF Admit, owner
<1>4. ASSUME NEW o \in Ops, Shell(o) \/ Rebuild(o) PROVE Calm
  BY <1>2, <1>4 DEF Shell, Rebuild
<1>5. ASSUME NEW o \in Ops, Enqueue(o) \/ Enqueued(o) PROVE Calm
  <2>1. Stage(o, "recording") \/ Stage(o, "queued")
    BY <1>5 DEF Enqueue, Enqueued
  <2>2. UNCHANGED <<active, rebuilding>>
    BY <1>5 DEF Enqueue, Enqueued, owner
  <2> QED
    BY <2>1, <2>2, MoveIsCalm DEF Drained
<1>6. ASSUME NEW o \in Ops, Deliver(o) \/ Interrupts(o) \/ Delivered(o) \/ DeliveryFails(o)
      PROVE  Calm
  <2>1. \E s \in {"refused", "reserved", "failing", "waiting", "resuming", "done", "failed"} :
          Stage(o, s)
    BY <1>6 DEF Deliver, Interrupts, Delivered, DeliveryFails
  <2>2. UNCHANGED <<active, rebuilding>> /\ o \notin Items
    BY <1>6, KindsDiffer DEF Deliver, Interrupts, Delivered, DeliveryFails, owner
  <2> QED
    BY <2>1, <2>2, MoveIsCalm
<1>7. ASSUME NEW o \in Ops, Send(o) \/ Checked(o) \/ Started(o) \/ Resumes(o) PROVE Calm
  <2>1. EnterSend(o) \/ TryClaim(o) \/ Refuse(o)
    BY <1>7 DEF Send, Checked, Started, Resumes
  <2>2. o \in Items => pc[o] \in Drained
    BY <1>7, KindsDiffer DEF Send, Checked, Started, Resumes, QuietInv, Drained
  <2> QED
    BY <1>1, <2>1, <2>2, SendIsCalm
<1>8. ASSUME NEW o \in Ops, TurnStarts(o) PROVE Calm
  BY <1>8, MoveIsCalm DEF TurnStarts, Drained, owner
<1>9. ASSUME NEW o \in Ops, TurnEnds(o) PROVE Calm
  <2>1. CASE LetGo(o, FALSE)
    <3>1. pc[o] \in InTurn
      BY <1>9 DEF TurnEnds, InTurn
    <3> QED
      BY <2>1, <3>1, LetGoIsCalm
  <2>2. CASE UNCHANGED <<pc, active, rebuilding>>
    BY <2>2 DEF Calm, Draining
  <2> QED
    BY <1>9, <2>1, <2>2 DEF TurnEnds
<1>10. ASSUME NEW o \in Ops, TurnThrows(o) PROVE Calm
  BY <1>10, LetGoIsCalm DEF TurnThrows
<1>11. ASSUME NEW o \in Ops, ItemFails(o) \/ DrainRejects(o) PROVE Calm
  <2>1. Stage(o, "failed") \/ Stage(o, "broken")
    BY <1>11 DEF ItemFails, DrainRejects
  <2>2. UNCHANGED <<active, rebuilding>>
    BY <1>11 DEF ItemFails, DrainRejects, owner
  <2> QED
    BY <2>1, <2>2, MoveIsCalm DEF Drained
<1>12. ASSUME NEW o \in Ops, RebuildEnds(o) PROVE Calm
  <2>1. Stage(o, "done") /\ active' = active /\ rebuilding' = None
    BY <1>12 DEF RebuildEnds
  <2> QED
    BY <2>1, MoveIsCalm DEF Drained
<1>13. ASSUME DrainStep PROVE Calm
  <2>1. UNCHANGED <<pc, active, rebuilding>>
    BY <1>1, <1>13 DEF DrainStep, StartOn, LoopOn, owner
  <2> QED
    BY <2>1 DEF Calm, Draining
<1>14. ASSUME \/ Steer \/ InterruptAsked \/ Dispose \/ Shutdown \/ RebuildAwaited
              \/ TurnAwaited \/ DrainAwaited \/ Disposed \/ DisposeAll
              \/ \E w \in Ops \cup {None} : Interrupt(w)
       PROVE Calm
  <2>1. UNCHANGED <<pc, active, rebuilding>>
    BY <1>14 DEF Steer, InterruptAsked, Dispose, Shutdown, RebuildAwaited, TurnAwaited,
       DrainAwaited, Disposed, DisposeAll, Interrupt, DisposeFrom, owner
  <2> QED
    BY <2>1 DEF Calm, Draining
<1> QED
  BY <1>3, <1>4, <1>5, <1>6, <1>7, <1>8, <1>9, <1>10, <1>11, <1>12, <1>13, <1>14
     DEF Next, Request, Continuation, Failure

\* dispose() gets past what it awaits only when that is over.
LEMMA DisposeWaits ==
    ASSUME TypeOK, NEW stages, EnterDispose(stages),
           stages \in {<<"rebuild", "turn", "drain">>, <<"turn", "drain">>, <<"drain">>}
    PROVE  /\ disposal' \in {"rebuild", "turn", "drain", "closing", "failed"}
           /\ disposal' = "closing" => active = None /\ ~Draining
           /\ stages[1] = "rebuild" /\ rebuilding # None => disposal' = "rebuild"
           /\ disposal' = "rebuild" => stages[1] = "rebuild"
<1> DEFINE waits == {n \in DOMAIN stages : Left(stages[n])}
           first == CHOOSE n \in waits : \A m \in waits : n <= m
           Least(n) == n \in waits /\ \A m \in waits : n <= m
<1>1. disposal' \in {"rebuild", "turn", "drain", "closing", "failed"}
  BY DisposalTypes
<1>2. DOMAIN stages \subseteq {1, 2, 3} /\ 1 \in DOMAIN stages
  OBVIOUS
<1>3. \E n \in DOMAIN stages : stages[n] = "drain"
  <2>1. CASE stages = <<"rebuild", "turn", "drain">>
    BY <2>1
  <2>2. CASE stages = <<"turn", "drain">>
    BY <2>2
  <2>3. CASE stages = <<"drain">>
    BY <2>3
  <2> QED
    BY <2>1, <2>2, <2>3
<1>4. \A n \in DOMAIN stages : stages[n] = "rebuild" => n = 1
  OBVIOUS
<1>5. CASE waits = {}
  <2>1. disposal' = IF active # None \/ DrainRejected THEN "failed" ELSE "closing"
    BY <1>5 DEF EnterDispose
  <2>2. ~Left("drain") /\ ~Left(stages[1])
    BY <1>2, <1>3, <1>5
  <2>3. ~Draining /\ (stages[1] = "rebuild" => rebuilding = None)
    BY <2>2 DEF Left
  <2> QED
    BY <2>1, <2>3
<1>6. CASE waits # {}
  <2>1. disposal' = stages[first]
    BY <1>6 DEF EnterDispose
  <2>2. \E n : Least(n)
    BY <1>2, <1>6
  <2>3. first \in waits /\ \A m \in waits : first <= m
    BY <2>2
  <2>4. stages[first] \in {"rebuild", "turn", "drain"}
    BY <2>3
  <2>5. stages[1] = "rebuild" /\ rebuilding # None => 1 \in waits
    BY <1>2 DEF Left
  <2>6. 1 \in waits => first = 1
    <3>1. first \in {1, 2, 3}
      BY <1>2, <2>3
    <3> HIDE DEF first, waits
    <3> QED
      BY <2>3, <3>1
  <2>7. first \in DOMAIN stages
    BY <2>3
  <2> HIDE DEF first, waits
  <2> QED
    BY <1>4, <2>1, <2>4, <2>5, <2>6, <2>7
<1> QED
  BY <1>1, <1>5, <1>6

\* A step of dispose(): the daemon stops, or there is nothing to keep out.
LEMMA DisposeKeepsQuiet ==
    ASSUME TypeOK, QuietInv, NEW stages, DisposeFrom(stages), KeptOut,
           stages \in {<<"rebuild", "turn", "drain">>, <<"turn", "drain">>, <<"drain">>},
           stages[1] = "rebuild" \/ rebuilding = None
    PROVE  QuietInv'
<1>1. /\ disposing' = TRUE /\ pc' = pc /\ active' = active /\ rebuilding' = rebuilding
      /\ stopping' = stopping /\ EnterDispose(stages)
  BY DEF DisposeFrom
<1>2. /\ disposal' \in {"rebuild", "turn", "drain", "closing", "failed"}
      /\ disposal' = "closing" => active = None /\ ~Draining
      /\ stages[1] = "rebuild" /\ rebuilding # None => disposal' = "rebuild"
      /\ disposal' = "rebuild" => stages[1] = "rebuild"
  BY <1>1, DisposeWaits
<1>3. Draining' <=> Draining
  BY <1>1 DEF Draining
<1>4. KeptOut'
  BY <1>1 DEF KeptOut
<1>5. disposal' \in {"turn", "drain", "closing", "gone"} => rebuilding' = None
  BY <1>1, <1>2
<1>6. disposal' \in {"closing", "gone"} => active' = None /\ ~Draining'
  BY <1>1, <1>2, <1>3
<1>7. \A o \in Ops : pc'[o] = "admitted" => o \in Sends
  BY <1>1 DEF QuietInv
<1> QED
  BY <1>1, <1>4, <1>5, <1>6, <1>7 DEF QuietInv

\* Only a send is ever admitted.
LEMMA AdmittedIsSend ==
    ASSUME TypeOK, QuietInv, [Next]_vars
    PROVE  \A o \in Ops : pc'[o] = "admitted" => o \in Sends
<1>1. \A o \in Ops : pc[o] = "admitted" => o \in Sends
  BY DEF QuietInv
<1>2. ASSUME NEW o, NEW s, Stage(o, s), s # "admitted" \/ o \in Sends
      PROVE  \A p \in Ops : pc'[p] = "admitted" => p \in Sends
  BY <1>1, <1>2 DEF Stage, TypeOK
<1>3. ASSUME UNCHANGED pc PROVE \A p \in Ops : pc'[p] = "admitted" => p \in Sends
  BY <1>1, <1>3
<1>4. ASSUME NEW o \in Ops, NEW thrown, LetGo(o, thrown)
      PROVE  \A p \in Ops : pc'[p] = "admitted" => p \in Sends
  <2>1. AfterSend(o, thrown) # "admitted"
    BY DEF AfterSend, Refusal
  <2> QED
    BY <1>1, <1>4, <2>1 DEF LetGo
<1>5. ASSUME NEW o \in Ops, EnterSend(o) \/ TryClaim(o) \/ Refuse(o) \/ Claim(o)
      PROVE  \A p \in Ops : pc'[p] = "admitted" => p \in Sends
  <2>1. Refusal(o) # "admitted"
    BY DEF Refusal
  <2>2. Stage(o, Refusal(o)) \/ Stage(o, "checking") \/ Stage(o, "claimed")
    BY <1>5 DEF EnterSend, TryClaim, Refuse, Claim
  <2> QED
    BY <1>2, <2>1, <2>2
<1>6. ASSUME NEW o \in Ops, Admit(o) \/ Enqueue(o) \/ Deliver(o) \/ Rebuild(o)
      PROVE  \A p \in Ops : pc'[p] = "admitted" => p \in Sends
  BY <1>2, <1>6 DEF Admit, Enqueue, Deliver, Rebuild
<1>7. ASSUME NEW o \in Ops, \/ TurnStarts(o) \/ Enqueued(o) \/ ItemFails(o) \/ Interrupts(o)
                            \/ Delivered(o) \/ RebuildEnds(o) \/ DrainRejects(o) \/ DeliveryFails(o)
      PROVE  \A p \in Ops : pc'[p] = "admitted" => p \in Sends
  BY <1>2, <1>7 DEF TurnStarts, Enqueued, ItemFails, Interrupts, Delivered, RebuildEnds,
     DrainRejects, DeliveryFails
<1>8. ASSUME NEW o \in Ops, Shell(o) \/ Send(o) \/ Checked(o) \/ Started(o) \/ Resumes(o)
      PROVE  \A p \in Ops : pc'[p] = "admitted" => p \in Sends
  BY <1>5, <1>8 DEF Shell, Send, Checked, Started, Resumes
<1>9. ASSUME NEW o \in Ops, TurnEnds(o) \/ TurnThrows(o)
      PROVE  \A p \in Ops : pc'[p] = "admitted" => p \in Sends
  BY <1>3, <1>4, <1>9 DEF TurnEnds, TurnThrows
<1>10. ASSUME DrainStep PROVE \A p \in Ops : pc'[p] = "admitted" => p \in Sends
  BY <1>2, <1>3, <1>10 DEF DrainStep
<1>11. ASSUME \/ Steer \/ InterruptAsked \/ Dispose \/ Shutdown \/ RebuildAwaited
              \/ TurnAwaited \/ DrainAwaited \/ Disposed \/ DisposeAll \/ UNCHANGED vars
              \/ \E w \in Ops \cup {None} : Interrupt(w)
       PROVE UNCHANGED pc
  BY <1>11 DEF Steer, InterruptAsked, Dispose, Shutdown, RebuildAwaited, TurnAwaited,
     DrainAwaited, Disposed, DisposeAll, Interrupt, DisposeFrom, vars
<1> QED
  BY <1>3, <1>6, <1>7, <1>8, <1>9, <1>10, <1>11 DEF Next, Request, Continuation, Failure

\* disposal changes by dispose() alone, and what it rests on is not taken back.
LEMMA DisposalStep ==
    ASSUME TypeOK, [Next]_vars
    PROVE  /\ \/ disposal' = disposal
              \/ Dispose \/ RebuildAwaited \/ TurnAwaited \/ DrainAwaited \/ Disposed \/ DisposeAll
           /\ disposing => disposing'
           /\ stopping => stopping'
<1>1. ASSUME NEW o \in Ops, \/ Admit(o) \/ Shell(o) \/ Enqueue(o) \/ Deliver(o) \/ Rebuild(o)
                            \/ Send(o) \/ Checked(o) \/ TurnStarts(o) \/ TurnEnds(o)
                            \/ Enqueued(o) \/ Started(o) \/ ItemFails(o) \/ Interrupts(o)
                            \/ Resumes(o) \/ Delivered(o) \/ RebuildEnds(o) \/ TurnThrows(o)
                            \/ DeliveryFails(o)
      PROVE UNCHANGED ending
  BY <1>1 DEF Admit, Shell, Enqueue, Deliver, Rebuild, Send, Checked, TurnStarts, TurnEnds,
     Enqueued,
     Started, ItemFails, Interrupts, Resumes, Delivered, RebuildEnds, TurnThrows, DeliveryFails
<1>2. ASSUME \/ Steer \/ InterruptAsked \/ DrainStep \/ UNCHANGED vars
             \/ \E w \in Ops \cup {None} : Interrupt(w)
      PROVE UNCHANGED ending
  BY <1>2 DEF Steer, InterruptAsked, DrainStep, Interrupt, vars
<1> DEFINE Keeps == (disposing => disposing') /\ (stopping => stopping')
<1>3. ASSUME NEW o \in Ops, DrainRejects(o) PROVE Keeps /\ disposal' = disposal
  BY <1>3 DEF DrainRejects
<1>4. ASSUME Shutdown PROVE Keeps /\ disposal' = disposal
  BY <1>4 DEF Shutdown
<1>5. ASSUME Dispose \/ RebuildAwaited \/ TurnAwaited \/ DrainAwaited \/ DisposeAll PROVE Keeps
  BY <1>5 DEF Dispose, RebuildAwaited, TurnAwaited, DrainAwaited, DisposeAll, DisposeFrom
<1>6. ASSUME Disposed PROVE Keeps
  BY <1>6 DEF Disposed
<1>7. ASSUME UNCHANGED ending PROVE Keeps /\ disposal' = disposal
  BY <1>7 DEF ending
<1>8. \/ UNCHANGED ending \/ Shutdown \/ (\E o \in Ops : DrainRejects(o))
      \/ Dispose \/ RebuildAwaited \/ TurnAwaited \/ DrainAwaited \/ Disposed \/ DisposeAll
  BY <1>1, <1>2 DEF Next, Request, Continuation, Failure
<1>9. Keeps
  BY <1>3, <1>4, <1>5, <1>6, <1>7, <1>8
<1> QED
  BY <1>3, <1>4, <1>7, <1>8, <1>9

\* Every step preserves QuietInv.
LEMMA QuietStep ==
    ASSUME ~MayDispose \/ (Shells = {} /\ Rebuilds = {}), TypeOK, QuietInv, [Next]_vars
    PROVE  QuietInv'
<1>1. CASE Dispose
  <2>1. KeptOut /\ DisposeFrom(<<"rebuild", "turn", "drain">>)
    BY <1>1 DEF Dispose, KeptOut
  <2> QED
    BY <2>1, DisposeKeepsQuiet
<1>2. CASE DisposeAll
  <2>1. KeptOut /\ DisposeFrom(<<"rebuild", "turn", "drain">>)
    BY <1>2 DEF DisposeAll, KeptOut
  <2> QED
    BY <2>1, DisposeKeepsQuiet
<1>3. CASE RebuildAwaited
  <2>1. KeptOut /\ DisposeFrom(<<"turn", "drain">>) /\ rebuilding = None
    BY <1>3 DEF RebuildAwaited, QuietInv
  <2> QED
    BY <2>1, DisposeKeepsQuiet
<1>4. CASE TurnAwaited \/ DrainAwaited
  <2>1. KeptOut /\ DisposeFrom(<<"drain">>) /\ rebuilding = None
    BY <1>4 DEF TurnAwaited, DrainAwaited, QuietInv
  <2> QED
    BY <2>1, DisposeKeepsQuiet
<1>5. CASE Disposed
  <2>1. /\ disposal = "closing" /\ disposal' = "gone"
        /\ UNCHANGED <<pc, active, rebuilding, disposing, stopping>>
    BY <1>5 DEF Disposed, owner
  <2>2. (Draining' <=> Draining) /\ (KeptOut' <=> KeptOut)
    BY <2>1 DEF Draining, KeptOut
  <2>3. \A o \in Ops : pc'[o] = "admitted" => o \in Sends
    BY AdmittedIsSend
  <2>4. disposing /\ KeptOut /\ rebuilding = None /\ active = None /\ ~Draining
    BY <2>1 DEF QuietInv
  <2> QED
    BY <2>1, <2>2, <2>3, <2>4 DEF QuietInv
<1>6. CASE disposal' = disposal
  <2>1. \A o \in Ops : pc'[o] = "admitted" => o \in Sends
    BY AdmittedIsSend
  <2>2. CASE disposal = "off"
    BY <1>6, <2>1, <2>2 DEF QuietInv
  <2>3. CASE disposal # "off"
    <3>1. Calm
      <4>1. CASE Next
        BY <2>3, <4>1, OthersAreCalm
      <4>2. CASE UNCHANGED vars
        BY <4>2 DEF Calm, Draining, vars, owner
      <4> QED
        BY <4>1, <4>2
    <3>2. disposing' /\ KeptOut'
      BY <2>3, DisposalStep DEF QuietInv, KeptOut
    <3>3. disposal' \in {"turn", "drain", "closing", "gone"} => rebuilding' = None
      BY <1>6, <3>1 DEF QuietInv, Calm
    <3>4. disposal' \in {"closing", "gone"} => active' = None /\ ~Draining'
      BY <1>6, <3>1 DEF QuietInv, Calm
    <3> QED
      BY <2>1, <3>2, <3>3, <3>4 DEF QuietInv
  <2> QED
    BY <2>2, <2>3
<1> QED
  BY <1>1, <1>2, <1>3, <1>4, <1>5, <1>6, DisposalStep

-----------------------------------------------------------------------------
\* The managed session's fields keep their types.
THEOREM ManagerTypeOK == Spec => []TypeOK
<1>1. ASSUME Init PROVE TypeOK
  <2>1. pc \in [Ops -> Stages] /\ target \in [Deliveries -> Ops \cup {None}]
    BY <1>1 DEF Init, Stages
  <2>2. queue \in Seq(Items)
    BY <1>1 DEF Init
  <2> QED
    BY <1>1, <2>1, <2>2 DEF Init, TypeOK
<1>2. TypeOK /\ [Next]_vars => TypeOK'
  BY TypeStep
<1> QED
  BY <1>1, <1>2, PTL DEF Spec

\* Turns, shells, queued prompts, deliveries and rebuilds exclude one another, however
\* many there are and however they interleave (send, shell, compact, rebuild, drainQueue,
\* interruptAndDeliver).
THEOREM ManagerOneOwner == Spec => []OneOwner
<1>1. Init => OneOwner
  BY OpsFacts DEF Init, OneOwner, InTurn
<1>2. TypeOK /\ OneOwner /\ [Next]_vars => OneOwner'
  BY OwnerStep
<1> QED
  BY <1>1, <1>2, ManagerTypeOK, PTL DEF Spec

\* While a delivery holds its reservation, nothing owns the branch but the operation it
\* interrupts and the delivery itself (reserveInterruptDelivery and the guards of send,
\* shell, compact and rebuild).
THEOREM ManagerReservationHolds == Spec => []ReservationHolds
<1>1. Init => ReservationHolds
  BY DEF Init, ReservationHolds
<1>2. TypeOK /\ ReservationHolds /\ [Next]_vars => ReservationHolds'
  BY ReservationStep
<1> QED
  BY <1>1, <1>2, ManagerTypeOK, PTL DEF Spec

\* A session that dispose() has forgotten has no operation left, if it was disposed by a
\* daemon that stops, or nobody asks for shells and rebuilds: dispose() awaits the rebuild,
\* the turn and the drain one after another, and what it has awaited does not come back.
THEOREM ManagerDisposedIsQuiet ==
    ASSUME ~MayDispose \/ (Shells = {} /\ Rebuilds = {})
    PROVE  Spec => []DisposedIsQuiet
<1>1. Init => QuietInv
  BY DEF Init, QuietInv
<1>2. TypeOK /\ QuietInv /\ [Next]_vars => QuietInv'
  BY QuietStep
<1>3. QuietInv => DisposedIsQuiet
  BY DEF QuietInv, DisposedIsQuiet
<1> QED
  BY <1>1, <1>2, <1>3, ManagerTypeOK, PTL DEF Spec

=============================================================================

------------------------ MODULE CommandJournalProofs ------------------------
(***************************************************************************)
(* Machine-checked proofs about CommandJournal, for any number of keys,    *)
(* requests, calls, crashes and failed appends.                            *)
(***************************************************************************)
EXTENDS CommandJournal, SequenceTheorems, TLAPS

\* Both kinds of journal record are lines, garbled or not.
LEMMA RecordsAreLines ==
    ASSUME NEW rec \in Records
    PROVE  rec \in Lines /\ Garbled(rec) \in Lines
BY DEF Lines

\* A call's acceptance and a key's completion are well-formed records.
LEMMA RecordTypes ==
    /\ \A c \in Calls : Acceptance(c) \in Records
    /\ \A k \in Keys, r \in Results : Completion(k, r) \in Records
BY CallsAssumption DEF Acceptance, Completion, Records

\* appendSynced leaves a well-formed file, whether it succeeds or is cut short.
LEMMA AppendTypes ==
    ASSUME file \in Seq(Lines), torn \in BOOLEAN, NEW rec \in Records,
           AppendInterrupted(rec)
    PROVE  file' \in Seq(Lines) /\ torn' \in BOOLEAN
<1> DEFINE line == IF torn THEN Garbled(rec) ELSE rec
<1>1. line \in Lines
  BY RecordsAreLines
<1> HIDE DEF line
<1>2. Append(file, line) \in Seq(Lines)
  BY <1>1, AppendProperties
<1>3. CASE UNCHANGED disk
  BY <1>3 DEF disk
<1>4. CASE torn' = TRUE /\ UNCHANGED file
  BY <1>4
<1>5. CASE AppendWhole(rec)
  BY <1>2, <1>5 DEF AppendWhole, line
<1> QED
  BY <1>3, <1>4, <1>5 DEF AppendInterrupted

\* Telling calls an answer keeps the callers well-formed.
LEMMA TellTypes ==
    ASSUME TypeOK, NEW cs, NEW a \in Answers, Tell(cs, a)
    PROVE  /\ pc' \in [Calls -> InFlight \cup {"idle", "answered", "lost"}]
           /\ answer' \in [Calls -> Answers \cup {"none"}]
BY DEF TypeOK, Tell

\* Dropping the operation at the head of `tail` leaves a list of operations.
LEMMA TailTypes ==
    ASSUME tail \in Seq(Operations), tail # <<>>
    PROVE  /\ Tail(tail) \in Seq(Operations)
           /\ Head(tail) \in Operations
BY HeadTailProperties

\* The operation in progress is one of the queued ones.
LEMMA HeadIsElement ==
    ASSUME tail \in Seq(Operations), tail # <<>>
    PROVE  1 \in DOMAIN tail /\ Head(tail) = tail[1]
BY HeadTailProperties, LenProperties, EmptySeq

\* Queueing an operation, as enqueue() does, leaves a list of operations.
LEMMA EnqueueTypes ==
    ASSUME tail \in Seq(Operations), NEW c \in Calls, NEW o \in {"accept", "complete"}
    PROVE  Append(tail, [op |-> o, call |-> c]) \in Seq(Operations)
<1>1. [op |-> o, call |-> c] \in Operations
  BY DEF Operations
<1> QED
  BY <1>1, AppendProperties

\* Type correctness of the journal: open() only loads hashes and outcomes, no
\* matter which lines the failed appends of earlier runs left in the file.
LEMMA LoadedTypes ==
    ASSUME file \in Seq(Lines), NEW k \in Keys
    PROVE  /\ LoadedHash(file, k) \in Hashes \cup {NoHash}
           /\ LoadedResult(file, k) \in Results \cup {"none"}
           /\ AcceptedAt(file, k) # {} => LoadedHash(file, k) \in Hashes
           /\ CompletedAt(file, k) # {} => LoadedResult(file, k) \in Results
<1>1. \A i \in DOMAIN file : file[i] \in Lines
  BY ElementOfSeq, LenProperties
<1>2. \A l \in Lines : /\ l.type = "accepted" => l.value \in Hashes
                       /\ l.type = "completed" => l.value \in Results
  BY DEF Lines, Records, Garbled
<1>3. ASSUME AcceptedAt(file, k) # {}
      PROVE  LoadedHash(file, k) \in Hashes
  BY <1>1, <1>2, <1>3 DEF LoadedHash, AcceptedAt
<1>4. ASSUME CompletedAt(file, k) # {}
      PROVE  LoadedResult(file, k) \in Results
  BY <1>1, <1>2, <1>4 DEF LoadedResult, CompletedAt
<1> QED
  BY <1>3, <1>4 DEF LoadedHash, LoadedResult

-----------------------------------------------------------------------------
\* A daemon that dies keeps only its disk.
LEMMA ForgetTypes ==
    ASSUME TypeOK, ForgetMemory
    PROVE  /\ tail' \in Seq(Operations)
           /\ accepted' \in [Keys -> Hashes \cup {NoHash}]
           /\ completion' \in [Keys -> Results \cup {"none"}]
           /\ pc' \in [Calls -> InFlight \cup {"idle", "answered", "lost"}]
           /\ todo' \in SUBSET Keys
           /\ mode' = "down"
<1>1. <<>> \in Seq(Operations)
  BY EmptySeq
<1> QED
  BY <1>1 DEF TypeOK, ForgetMemory

(***************************************************************************)
(* TypeOK is not inductive: the append of a completion is well-formed only *)
(* because the effect's outcome is known by the time it is queued.         *)
(***************************************************************************)
ResultsKnown ==
    /\ \A i \in DOMAIN tail : tail[i].op = "complete" => result[tail[i].call] \in Results
    /\ \A c \in Calls : pc[c] = "settling" => result[c] \in Results

\* The types of the journal are kept by every step of every actor.
LEMMA TypeStep ==
    ASSUME TypeOK, ResultsKnown, [Next]_vars
    PROVE  TypeOK'
<1> USE CallsAssumption DEF disk, entries, session, budget
<1>1. ASSUME NEW c \in Calls, Submit(c) PROVE TypeOK'
  BY <1>1, EnqueueTypes DEF Submit, TypeOK, InFlight
<1>2. ASSUME NEW c \in Calls, AcceptExisting(c) PROVE TypeOK'
  <2>1. tail' \in Seq(Operations)
    BY <1>2, TailTypes DEF AcceptExisting, TypeOK
  <2>2. /\ pc' \in [Calls -> InFlight \cup {"idle", "answered", "lost"}]
        /\ answer' \in [Calls -> Answers \cup {"none"}]
    <3>1. CASE SameRequest(c)
      BY <1>2, <3>1 DEF AcceptExisting, TypeOK, InFlight
    <3>2. CASE ~SameRequest(c)
      BY <1>2, <3>2, TellTypes DEF AcceptExisting, Answers
    <3> QED
      BY <3>1, <3>2
  <2> QED
    BY <1>2, <2>1, <2>2 DEF AcceptExisting, TypeOK
<1>3. ASSUME NEW c \in Calls, AcceptFresh(c) PROVE TypeOK'
  <2>1. file' \in Seq(Lines) /\ torn' \in BOOLEAN
    BY <1>3, AppendTypes, RecordTypes DEF AcceptFresh, TypeOK, AppendInterrupted
  <2>2. tail' \in Seq(Operations)
    BY <1>3, TailTypes DEF AcceptFresh, TypeOK
  <2> QED
    BY <1>3, <2>1, <2>2 DEF AcceptFresh, TypeOK, InFlight
<1>4. ASSUME NEW c \in Calls, AcceptFails(c) PROVE TypeOK'
  <2>1. file' \in Seq(Lines) /\ torn' \in BOOLEAN
    BY <1>4, AppendTypes, RecordTypes DEF AcceptFails, TypeOK
  <2>2. tail' \in Seq(Operations)
    BY <1>4, TailTypes DEF AcceptFails, TypeOK
  <2>3. /\ pc' \in [Calls -> InFlight \cup {"idle", "answered", "lost"}]
        /\ answer' \in [Calls -> Answers \cup {"none"}]
    BY <1>4, TellTypes DEF AcceptFails, Answers
  <2> QED
    BY <1>4, <2>1, <2>2, <2>3 DEF AcceptFails, TypeOK
<1>5. ASSUME NEW c \in Calls, Dispatch(c) PROVE TypeOK'
  <2>1. CASE Replayed(CallKey[c]) /\ Tell({c}, completion[CallKey[c]])
    <3>1. completion[CallKey[c]] \in Answers
      BY <2>1 DEF Replayed, TypeOK, Answers
    <3>2. /\ pc' \in [Calls -> InFlight \cup {"idle", "answered", "lost"}]
          /\ answer' \in [Calls -> Answers \cup {"none"}]
      BY <2>1, <3>1, TellTypes
    <3> QED
      BY <1>5, <3>2 DEF Dispatch, TypeOK
  <2>2. CASE /\ UNCHANGED answer
             /\ pc' = [pc EXCEPT ![c] = IF Running(CallKey[c]) THEN "joined" ELSE "effect"]
    BY <1>5, <2>2 DEF Dispatch, TypeOK, InFlight, Owning
  <2> QED
    BY <1>5, <2>1, <2>2 DEF Dispatch
<1>6. ASSUME NEW c \in Calls, Effect(c) PROVE TypeOK'
  <2>1. CASE SendStarts(c)
    BY <2>1 DEF SendStarts, TypeOK, InFlight, Owning
  <2>2. CASE SendRefused(c)
    BY <2>2, EnqueueTypes DEF SendRefused, Finish, TypeOK, InFlight, Owning, Results
  <2>3. CASE SendEnds(c)
    <3>1. /\ evidence' \in [Keys -> {"none", "started", "done", "aborted"}]
          /\ UNCHANGED <<disk, entries, answer, mode, todo, sent, budget>>
      <4>1. UNCHANGED <<disk, entries, answer, mode, todo, sent, budget>>
        BY <2>3 DEF SendEnds
      <4>2. \/ UNCHANGED evidence
            \/ \E r \in {"done", "aborted"} : evidence' = [evidence EXCEPT ![CallKey[c]] = r]
        BY <2>3 DEF SendEnds
      <4>3. evidence' \in [Keys -> {"none", "started", "done", "aborted"}]
        BY <4>2 DEF TypeOK
      <4> QED
        BY <4>1, <4>3
    <3>2. PICK r \in Results : Finish(c, r)
      BY <2>3 DEF SendEnds, Results
    <3> QED
      BY <3>1, <3>2, EnqueueTypes DEF Finish, TypeOK, InFlight, Owning
  <2>4. CASE SendRecorded(c)
    <3>1. /\ evidence' \in [Keys -> {"none", "started", "done", "aborted"}]
          /\ evidence'[CallKey[c]] \in Results
      BY <2>4 DEF SendRecorded, Unsent, TypeOK, Results
    <3> QED
      BY <2>4, <3>1, EnqueueTypes DEF SendRecorded, Finish, TypeOK, InFlight, Owning
  <2>5. CASE SendPrepares(c)
    BY <2>5 DEF SendPrepares, TypeOK, InFlight, Owning
  <2> QED
    BY <1>6, <2>1, <2>2, <2>3, <2>4, <2>5 DEF Effect
<1>7. ASSUME NEW c \in Calls, CompletionSynced(c) \/ CompletionFails(c) PROVE TypeOK'
  <2>1. Head(tail).op = "complete" /\ Head(tail).call = c /\ tail # <<>>
    BY <1>7 DEF CompletionSynced, CompletionFails
  <2>2. result[c] \in Results
    BY <2>1, HeadIsElement DEF ResultsKnown, TypeOK
  <2>3. HeadRecord \in Records /\ AppendInterrupted(HeadRecord)
    BY <1>7, <2>1, <2>2, RecordTypes
       DEF HeadRecord, CompletionSynced, CompletionFails, AppendInterrupted
  <2>4. file' \in Seq(Lines) /\ torn' \in BOOLEAN
    BY <2>3, AppendTypes DEF TypeOK
  <2>5. tail' \in Seq(Operations)
    BY <1>7, TailTypes DEF CompletionSynced, CompletionFails, TypeOK
  <2>6. CASE CompletionSynced(c)
    BY <2>4, <2>5, <2>6 DEF CompletionSynced, TypeOK, InFlight, Owning
  <2>7. CASE CompletionFails(c)
    <3>1. /\ pc' \in [Calls -> InFlight \cup {"idle", "answered", "lost"}]
          /\ answer' \in [Calls -> Answers \cup {"none"}]
      BY <2>7, TellTypes DEF CompletionFails, Answers
    <3> QED
      BY <2>4, <2>5, <2>7, <3>1 DEF CompletionFails, TypeOK
  <2> QED
    BY <1>7, <2>6, <2>7
<1>8. ASSUME NEW c \in Calls, Settle(c) PROVE TypeOK'
  <2>1. result[c] \in Results /\ result[c] \in Answers
    BY <1>8 DEF Settle, ResultsKnown, Answers
  <2>2. /\ pc' \in [Calls -> InFlight \cup {"idle", "answered", "lost"}]
        /\ answer' \in [Calls -> Answers \cup {"none"}]
    BY <1>8, <2>1, TellTypes DEF Settle
  <2> QED
    BY <1>8, <2>1, <2>2 DEF Settle, TypeOK
<1>9. ASSUME Crash PROVE TypeOK'
  <2>1. file' \in Seq(Lines) /\ torn' \in BOOLEAN
    <3>1. CASE HeadWrites
      <4>1. Head(tail) \in Operations /\ tail # <<>>
        BY <3>1, TailTypes DEF HeadWrites, TypeOK
      <4>2. Head(tail).op = "complete" => result[Head(tail).call] \in Results
        BY <4>1, HeadIsElement DEF ResultsKnown, TypeOK
      <4>3. HeadRecord \in Records
        BY <4>1, <4>2, RecordTypes DEF HeadRecord, Operations
      <4> QED
        BY <1>9, <3>1, <4>3, AppendTypes DEF Crash, TypeOK
    <3>2. CASE ~HeadWrites
      BY <1>9, <3>2 DEF Crash, TypeOK
    <3> QED
      BY <3>1, <3>2
  <2> QED
    BY <1>9, <2>1, ForgetTypes DEF Crash, TypeOK
<1>10. ASSUME Startup PROVE TypeOK'
  <2>1. CASE Open
    <3>1. CASE Readable(file)
      <4>1. \A k \in Keys : /\ LoadedHash(file, k) \in Hashes \cup {NoHash}
                            /\ LoadedResult(file, k) \in Results \cup {"none"}
        BY LoadedTypes DEF TypeOK
      <4>2. /\ accepted' \in [Keys -> Hashes \cup {NoHash}]
            /\ completion' \in [Keys -> Results \cup {"none"}]
            /\ todo' \in SUBSET Keys
            /\ mode' = "reconciling"
        BY <2>1, <3>1, <4>1 DEF Open
      <4> QED
        BY <2>1, <4>2 DEF Open, TypeOK
    <3>2. CASE ~Readable(file)
      BY <2>1, <3>2 DEF Open, TypeOK
    <3> QED
      BY <3>1, <3>2
  <2>2. CASE Serve
    BY <2>2 DEF Serve, TypeOK
  <2>3. ASSUME NEW k \in Keys, ReconcileSkips(k) PROVE TypeOK'
    BY <2>3 DEF ReconcileSkips, TypeOK
  <2>4. ASSUME NEW k \in Keys, Reconcile(k) PROVE TypeOK'
    <3>1. Recovered(k) \in {"done", "aborted"}
      BY <2>4 DEF Reconcile, Unreconciled, Recovered, TypeOK
    <3>2. file' \in Seq(Lines) /\ torn' \in BOOLEAN
      BY <2>4, <3>1, AppendTypes, RecordTypes
         DEF Reconcile, AppendInterrupted, TypeOK, Results
    <3> QED
      BY <2>4, <3>1, <3>2 DEF Reconcile, TypeOK, Results
  <2> QED
    BY <1>10, <2>1, <2>2, <2>3, <2>4 DEF Startup
<1>11. ASSUME NEW k \in Keys, ReconcileDies(k) PROVE TypeOK'
  <2>1. Recovered(k) \in {"done", "aborted"}
    BY <1>11 DEF ReconcileDies, Unreconciled, Recovered, TypeOK
  <2>2. /\ file' \in Seq(Lines) /\ torn' \in BOOLEAN
        /\ evidence' \in [Keys -> {"none", "started", "done", "aborted"}]
    <3>1. CASE UNCHANGED <<disk, evidence>>
      BY <3>1 DEF TypeOK
    <3>2. CASE /\ evidence' = [evidence EXCEPT ![k] = Recovered(k)]
               /\ AppendInterrupted(Completion(k, Recovered(k)))
      BY <2>1, <3>2, AppendTypes, RecordTypes DEF TypeOK, Results
    <3> QED
      BY <1>11, <3>1, <3>2 DEF ReconcileDies
  <2> QED
    BY <1>11, <2>2, ForgetTypes DEF ReconcileDies, TypeOK
<1>12. CASE UNCHANGED vars
  BY <1>12 DEF vars, TypeOK
<1> QED
  BY <1>1, <1>2, <1>3, <1>4, <1>5, <1>6, <1>7, <1>8, <1>9, <1>10, <1>11, <1>12
     DEF Next, Step, Work, Failure

\* What is queued after a dequeue was queued before.
LEMMA TailElements ==
    ASSUME tail \in Seq(Operations), tail # <<>>
    PROVE  \A i \in DOMAIN Tail(tail) : \E j \in DOMAIN tail : Tail(tail)[i] = tail[j]
BY HeadTailProperties, LenProperties, EmptySeq

\* What is queued after an enqueue was queued before, or is the new operation.
LEMMA AppendElements ==
    ASSUME tail \in Seq(Operations), NEW o \in Operations
    PROVE  \A i \in DOMAIN Append(tail, o) :
              Append(tail, o)[i] = o \/ \E j \in DOMAIN tail : Append(tail, o)[i] = tail[j]
BY AppendProperties, LenProperties

\* Outcomes stay known: results are set when an effect ends and never cleared.
LEMMA ResultsKnownStep ==
    ASSUME TypeOK, ResultsKnown, [Next]_vars
    PROVE  ResultsKnown'
<1> USE CallsAssumption DEF disk, entries, session, budget
<1>1. ASSUME NEW c \in Calls, Submit(c) PROVE ResultsKnown'
  <2> DEFINE o == [op |-> "accept", call |-> c]
  <2>1. o \in Operations /\ o.op # "complete"
    BY DEF Operations
  <2> HIDE DEF o
  <2>2. tail' = Append(tail, o) /\ result' = result
    BY <1>1 DEF Submit, o
  <2>3. \A d \in Calls : pc'[d] = "settling" => pc[d] = "settling"
    BY <1>1 DEF Submit, TypeOK
  <2> QED
    BY <2>1, <2>2, <2>3, AppendElements DEF TypeOK, ResultsKnown
<1>2. ASSUME NEW c \in Calls, NEW r \in Results, Finish(c, r) PROVE ResultsKnown'
  <2> DEFINE o == [op |-> "complete", call |-> c]
  <2>1. o \in Operations /\ o.call = c
    BY DEF Operations
  <2> HIDE DEF o
  <2>2. tail' = Append(tail, o) /\ result' = [result EXCEPT ![c] = r]
    BY <1>2 DEF Finish, o
  <2>3. \A d \in Calls : pc'[d] = "settling" => pc[d] = "settling"
    BY <1>2 DEF Finish, TypeOK
  <2>4. \A d \in Calls : result[d] \in Results => result'[d] \in Results
    BY <2>2 DEF TypeOK
  <2>5. result'[c] \in Results
    BY <2>2 DEF TypeOK
  <2>6. \A i \in DOMAIN tail : tail[i].call \in Calls
    <3>1. \A i \in DOMAIN tail : tail[i] \in Operations
      BY ElementOfSeq, LenProperties DEF TypeOK
    <3> QED
      BY <3>1 DEF Operations
  <2> QED
    BY <2>1, <2>2, <2>3, <2>4, <2>5, <2>6, AppendElements DEF TypeOK, ResultsKnown
<1>3. ASSUME tail # <<>>, tail' = Tail(tail), result' = result,
             \A d \in Calls : pc'[d] = "settling" => pc[d] = "settling" \/ result[d] \in Results
      PROVE  ResultsKnown'
  BY <1>3, TailElements DEF TypeOK, ResultsKnown
<1>4. ASSUME tail' = tail, result' = result,
             \A d \in Calls : pc'[d] = "settling" => pc[d] = "settling"
      PROVE  ResultsKnown'
  BY <1>4 DEF ResultsKnown
<1>5. ASSUME ForgetMemory, UNCHANGED result PROVE ResultsKnown'
  BY <1>5 DEF ForgetMemory, ResultsKnown, TypeOK, InFlight, Owning
<1>6. ASSUME NEW c \in Calls, AcceptExisting(c) \/ AcceptFresh(c) \/ AcceptFails(c)
      PROVE  ResultsKnown'
  BY <1>3, <1>6 DEF AcceptExisting, AcceptFresh, AcceptFails, Tell, TypeOK
<1>7. ASSUME NEW c \in Calls, CompletionSynced(c) \/ CompletionFails(c)
      PROVE  ResultsKnown'
  <2>1. tail # <<>> /\ result[c] \in Results /\ tail' = Tail(tail) /\ result' = result
    BY <1>7, HeadIsElement DEF CompletionSynced, CompletionFails, ResultsKnown, TypeOK
  <2> QED
    BY <1>3, <1>7, <2>1 DEF CompletionSynced, CompletionFails, Tell, TypeOK
<1>8. ASSUME NEW c \in Calls, Dispatch(c) \/ SendPrepares(c) \/ SendStarts(c) \/ Settle(c)
      PROVE  ResultsKnown'
  BY <1>4, <1>8 DEF Dispatch, SendPrepares, SendStarts, Settle, Tell, TypeOK
<1>9. ASSUME NEW c \in Calls, SendRecorded(c) \/ SendRefused(c) \/ SendEnds(c)
      PROVE  ResultsKnown'
  <2>1. \E r \in Results : Finish(c, r)
    BY <1>9 DEF SendRecorded, Unsent, SendRefused, SendEnds, Results, TypeOK
  <2> QED
    BY <1>2, <2>1
<1>10. ASSUME Startup PROVE ResultsKnown'
  BY <1>4, <1>10 DEF Startup, Open, Serve, ReconcileSkips, Reconcile
<1>11. ASSUME Crash \/ \E k \in Keys : ReconcileDies(k) PROVE ResultsKnown'
  BY <1>5, <1>11 DEF Crash, ReconcileDies
<1>12. CASE UNCHANGED vars
  BY <1>4, <1>12 DEF vars
<1> QED
  BY <1>1, <1>6, <1>7, <1>8, <1>9, <1>10, <1>11, <1>12
     DEF Next, Step, Work, Effect, Failure

\* The journal starts empty, with nothing known and nothing queued.
LEMMA InitTypes == Init => TypeOK /\ ResultsKnown
<1>1. <<>> \in Seq(Lines) /\ <<>> \in Seq(Operations) /\ DOMAIN <<>> = {}
  BY EmptySeq
<1>2. ASSUME Init PROVE TypeOK
  <2>1. file \in Seq(Lines) /\ tail \in Seq(Operations)
    BY <1>1, <1>2 DEF Init
  <2>2. torn \in BOOLEAN
    BY <1>2 DEF Init
  <2> QED
    BY <1>2, <2>1, <2>2 DEF Init, TypeOK, InFlight
<1>3. Init => ResultsKnown
  BY <1>1 DEF Init, ResultsKnown
<1> QED
  BY <1>2, <1>3

\* The journal is type correct in every reachable state.
THEOREM JournalTypeOK == Spec => []TypeOK
<1>1. Init => TypeOK /\ ResultsKnown
  BY InitTypes
<1>2. TypeOK /\ ResultsKnown /\ [Next]_vars => (TypeOK /\ ResultsKnown)'
  BY TypeStep, ResultsKnownStep
<1> QED
  BY <1>1, <1>2, PTL DEF Spec

-----------------------------------------------------------------------------
(***************************************************************************)
(* One effect per key.  The queue and the callers agree: a call has at     *)
(* most one queued operation, and which one says where the call stands.    *)
(***************************************************************************)
Waiting(o) == IF o.op = "accept" THEN "accepting" ELSE "completing"
QueueMatches ==
    /\ \A i \in DOMAIN tail : pc[tail[i].call] = Waiting(tail[i])
    /\ \A i, j \in DOMAIN tail : tail[i].call = tail[j].call => i = j

\* Queued operations are operations of calls.
LEMMA QueuedCalls ==
    ASSUME TypeOK
    PROVE  \A i \in DOMAIN tail : tail[i] \in Operations /\ tail[i].call \in Calls
<1>1. \A i \in DOMAIN tail : tail[i] \in Operations
  BY ElementOfSeq, LenProperties DEF TypeOK
<1> QED
  BY <1>1 DEF Operations

\* Enqueueing an operation of a call that has none queued keeps the agreement.
LEMMA QueueMatchesAppend ==
    ASSUME TypeOK, QueueMatches, NEW c \in Calls, NEW o \in Operations, o.call = c,
           pc[c] \notin {"accepting", "completing"},
           tail' = Append(tail, o), pc' = [pc EXCEPT ![c] = Waiting(o)]
    PROVE  QueueMatches'
<1>1. \A i \in DOMAIN tail : tail[i].call \in Calls /\ tail[i].call # c
  BY QueuedCalls DEF QueueMatches, Waiting
<1>2. /\ DOMAIN tail' = 1..(Len(tail) + 1) /\ DOMAIN tail = 1..Len(tail) /\ Len(tail) \in Nat
      /\ tail'[Len(tail) + 1] = o
      /\ \A i \in DOMAIN tail : tail'[i] = tail[i]
  BY AppendProperties, LenProperties DEF TypeOK
<1>3. \A i \in DOMAIN tail' : i \in DOMAIN tail \/ i = Len(tail) + 1
  BY <1>2
<1>4. \A d \in Calls : d # c => pc'[d] = pc[d]
  BY DEF TypeOK
<1>5. pc'[c] = Waiting(o)
  BY DEF TypeOK
<1>6. \A i \in DOMAIN tail' : pc'[tail'[i].call] = Waiting(tail'[i])
  BY <1>1, <1>2, <1>3, <1>4, <1>5 DEF QueueMatches
<1>7. \A i, j \in DOMAIN tail' : tail'[i].call = tail'[j].call => i = j
  BY <1>1, <1>2, <1>3 DEF QueueMatches
<1> QED
  BY <1>6, <1>7 DEF QueueMatches, Waiting

\* So does dequeueing one, when only its call and calls that wait for nothing move.
LEMMA QueueMatchesTail ==
    ASSUME TypeOK, QueueMatches, tail # <<>>, tail' = Tail(tail),
           \A d \in Calls : \/ pc'[d] = pc[d] \/ d = Head(tail).call
                            \/ pc[d] \notin {"accepting", "completing"}
    PROVE  QueueMatches'
<1>1. /\ DOMAIN tail = 1..Len(tail) /\ DOMAIN tail' = 1..(Len(tail) - 1) /\ Len(tail) \in Nat
      /\ \A i \in DOMAIN tail' : i + 1 \in DOMAIN tail /\ tail'[i] = tail[i + 1]
      /\ Head(tail) = tail[1] /\ 1 \in DOMAIN tail
  BY HeadTailProperties, LenProperties, HeadIsElement, EmptySeq DEF TypeOK
<1>2. \A i \in DOMAIN tail' : tail'[i].call # Head(tail).call
  BY <1>1 DEF QueueMatches
<1>3. \A i \in DOMAIN tail' : pc[tail'[i].call] = Waiting(tail'[i]) /\ tail'[i].call \in Calls
  BY <1>1, QueuedCalls DEF QueueMatches
<1>4. \A i \in DOMAIN tail' : pc'[tail'[i].call] = Waiting(tail'[i])
  BY <1>2, <1>3 DEF Waiting
<1>5. \A i, j \in DOMAIN tail' : tail'[i].call = tail'[j].call => i = j
  BY <1>1 DEF QueueMatches
<1> QED
  BY <1>4, <1>5 DEF QueueMatches, Waiting

\* And so does a step that leaves the queue alone and moves no waiting call.
LEMMA QueueMatchesStutter ==
    ASSUME TypeOK, QueueMatches, tail' = tail,
           \A d \in Calls : pc'[d] = pc[d] \/ pc[d] \notin {"accepting", "completing"}
    PROVE  QueueMatches'
<1>1. \A i \in DOMAIN tail : pc'[tail[i].call] = Waiting(tail[i])
  BY QueuedCalls DEF QueueMatches, Waiting
<1> QED
  BY <1>1 DEF QueueMatches, Waiting

\* The queue and the callers agree after every step.
LEMMA QueueMatchesStep ==
    ASSUME TypeOK, QueueMatches, [Next]_vars
    PROVE  QueueMatches'
<1> USE CallsAssumption
<1>1. ASSUME NEW c \in Calls, Submit(c) PROVE QueueMatches'
  <2> DEFINE o == [op |-> "accept", call |-> c]
  <2>1. o \in Operations /\ o.call = c /\ Waiting(o) = "accepting"
    BY DEF Operations, Waiting
  <2> QED
    BY <1>1, <2>1, QueueMatchesAppend DEF Submit
<1>2. ASSUME NEW c \in Calls, SendRecorded(c) \/ SendRefused(c) \/ SendEnds(c)
      PROVE QueueMatches'
  <2> DEFINE o == [op |-> "complete", call |-> c]
  <2>1. o \in Operations /\ o.call = c /\ Waiting(o) = "completing"
    BY DEF Operations, Waiting
  <2>2. /\ pc' = [pc EXCEPT ![c] = "completing"] /\ tail' = Append(tail, o)
        /\ pc[c] \notin {"accepting", "completing"}
    BY <1>2 DEF SendRecorded, SendRefused, SendEnds, Finish
  <2> QED
    BY <2>1, <2>2, QueueMatchesAppend
<1>3. ASSUME NEW c \in Calls,
             \/ AcceptExisting(c) \/ AcceptFresh(c) \/ AcceptFails(c)
             \/ CompletionSynced(c) \/ CompletionFails(c)
      PROVE  QueueMatches'
  <2>1. tail # <<>> /\ tail' = Tail(tail) /\ Head(tail).call = c
    BY <1>3 DEF AcceptExisting, AcceptFresh, AcceptFails, CompletionSynced, CompletionFails
  <2>2. \A d \in Calls : \/ pc'[d] = pc[d] \/ d = c
                          \/ pc[d] \notin {"accepting", "completing"}
    BY <1>3 DEF AcceptExisting, AcceptFresh, AcceptFails, CompletionSynced, CompletionFails,
                Tell, Sharing, TypeOK
  <2> QED
    BY <2>1, <2>2, QueueMatchesTail
<1>4. ASSUME NEW c \in Calls, Dispatch(c) \/ SendPrepares(c) \/ SendStarts(c) \/ Settle(c)
      PROVE  QueueMatches'
  <2>1. /\ tail' = tail
        /\ \A d \in Calls : pc'[d] = pc[d] \/ pc[d] \notin {"accepting", "completing"}
    BY <1>4 DEF Dispatch, SendPrepares, SendStarts, Settle, Tell, Sharing, TypeOK
  <2> QED
    BY <2>1, QueueMatchesStutter
<1>5. ASSUME Startup \/ UNCHANGED vars PROVE QueueMatches'
  <2>1. tail' = tail /\ pc' = pc
    BY <1>5 DEF Startup, Open, Serve, ReconcileSkips, Reconcile, vars
  <2> QED
    BY <2>1, QueueMatchesStutter
<1>6. ASSUME Crash \/ \E k \in Keys : ReconcileDies(k) PROVE QueueMatches'
  BY <1>6, EmptySeq DEF Crash, ReconcileDies, ForgetMemory, QueueMatches
<1> QED
  BY <1>1, <1>2, <1>3, <1>4, <1>5, <1>6 DEF Next, Step, Work, Effect, Failure

\* The owners of effects after a step are the owners before it, except that
\* Dispatch makes one when the key has none.
LEMMA SingleFlightStep ==
    ASSUME TypeOK, SingleFlight, QueueMatches, [Next]_vars
    PROVE  SingleFlight'
<1> USE CallsAssumption
<1>1. ASSUME \A c \in Calls : pc'[c] \in Owning => pc[c] \in Owning
      PROVE  SingleFlight'
  BY <1>1 DEF SingleFlight
<1>2. ASSUME NEW c \in Calls, Dispatch(c) PROVE SingleFlight'
  <2>1. CASE Replayed(CallKey[c]) /\ Tell({c}, completion[CallKey[c]])
    BY <1>1, <2>1 DEF Tell, Owning, TypeOK
  <2>2. CASE Running(CallKey[c]) /\ pc' = [pc EXCEPT ![c] = "joined"]
    BY <1>1, <2>2 DEF Owning, TypeOK
  <2>3. CASE ~Running(CallKey[c]) /\ pc' = [pc EXCEPT ![c] = "effect"]
    BY <2>3 DEF Running, SingleFlight, Owning, TypeOK
  <2> QED
    BY <1>2, <2>1, <2>2, <2>3 DEF Dispatch
<1>3. ASSUME NEW c \in Calls,
             \/ SendRecorded(c) \/ SendPrepares(c) \/ SendStarts(c) \/ SendRefused(c) \/ SendEnds(c)
      PROVE  SingleFlight'
  BY <1>1, <1>3 DEF SendRecorded, SendPrepares, SendStarts, SendRefused, SendEnds, Finish,
     Owning, TypeOK
<1>4. ASSUME NEW c \in Calls, CompletionSynced(c) PROVE SingleFlight'
  <2>1. pc[c] = "completing"
    BY <1>4, HeadIsElement DEF CompletionSynced, QueueMatches, Waiting, TypeOK
  <2> QED
    BY <1>1, <1>4, <2>1 DEF CompletionSynced, Owning, TypeOK
<1>5. ASSUME NEW c \in Calls,
             \/ Submit(c) \/ AcceptExisting(c) \/ AcceptFresh(c) \/ AcceptFails(c)
             \/ CompletionFails(c) \/ Settle(c)
      PROVE  SingleFlight'
  <2>1. \/ pc' = [pc EXCEPT ![c] = "accepting"]
        \/ pc' = [pc EXCEPT ![c] = "accepted"]
        \/ \E cs, a : Tell(cs, a)
    BY <1>5 DEF Submit, AcceptExisting, AcceptFresh, AcceptFails, CompletionFails, Settle
  <2>2. \A d \in Calls : pc'[d] \in Owning => pc[d] \in Owning
    BY <2>1 DEF Tell, Owning, TypeOK
  <2> QED
    BY <1>1, <2>2
<1>6. ASSUME Startup \/ UNCHANGED vars PROVE SingleFlight'
  BY <1>1, <1>6 DEF Startup, Open, Serve, ReconcileSkips, Reconcile, vars
<1>7. ASSUME Crash \/ \E k \in Keys : ReconcileDies(k) PROVE SingleFlight'
  BY <1>1, <1>7 DEF Crash, ReconcileDies, ForgetMemory, Owning, TypeOK
<1> QED
  BY <1>2, <1>3, <1>4, <1>5, <1>6, <1>7 DEF Next, Step, Work, Effect, Failure

\* Concurrent retries of a key never run two effects side by side.
THEOREM JournalSingleFlight == Spec => []SingleFlight
<1>1. Init => SingleFlight /\ QueueMatches
  BY EmptySeq DEF Init, SingleFlight, QueueMatches, Owning
<1>2. TypeOK /\ SingleFlight /\ QueueMatches /\ [Next]_vars => (SingleFlight /\ QueueMatches)'
  BY SingleFlightStep, QueueMatchesStep
<1> QED
  BY <1>1, <1>2, JournalTypeOK, PTL DEF Spec

-----------------------------------------------------------------------------
(***************************************************************************)
(* At most one prompt per key.  The bound alone is not inductive: a second *)
(* send is ruled out because the session log shows the first, evidence is  *)
(* never withdrawn, and none can appear between the moment send() looks    *)
(* for it and the moment it stores the user message.                       *)
(***************************************************************************)
SentIsEvident ==
    /\ \A k \in Keys : sent[k] = IF evidence[k] = "none" THEN 0 ELSE 1
    /\ \A c \in Calls : pc[c] = "executing" => evidence[CallKey[c]] # "none"

\* A call that is about to start its turn has seen no evidence, and there still is none.
Prepared == \A c \in Calls : pc[c] = "preparing" => mode = "up" /\ evidence[CallKey[c]] = "none"

\* Evidence is added by the one call that owns the key, or while no call is in flight.
LEMMA PreparedStep ==
    ASSUME TypeOK, SingleFlight, Prepared, [Next]_vars
    PROVE  Prepared'
<1> USE CallsAssumption DEF session
<1>1. ASSUME mode' = mode, evidence' = evidence,
             \A d \in Calls : pc'[d] = "preparing" => pc[d] = "preparing"
      PROVE  Prepared'
  BY <1>1 DEF Prepared
<1>2. ASSUME NEW c \in Calls, SendPrepares(c) PROVE Prepared'
  <2>1. /\ mode = "up" /\ mode' = mode /\ evidence' = evidence /\ evidence[CallKey[c]] = "none"
        /\ \A d \in Calls : d # c => pc'[d] = pc[d]
    BY <1>2 DEF SendPrepares, Unsent, TypeOK
  <2> QED
    BY <2>1 DEF Prepared
<1>3. ASSUME NEW c \in Calls, SendRecorded(c) \/ SendStarts(c) \/ SendRefused(c) \/ SendEnds(c)
      PROVE  Prepared'
  <2>1. /\ mode' = mode /\ pc[c] \in Owning /\ pc'[c] \in {"completing", "executing"}
        /\ \A d \in Calls : d # c => pc'[d] = pc[d]
        /\ \A k \in Keys : k # CallKey[c] => evidence'[k] = evidence[k]
    BY <1>3 DEF SendRecorded, SendStarts, SendRefused, SendEnds, Finish, Owning, TypeOK
  <2>2. ASSUME NEW d \in Calls, pc'[d] = "preparing"
        PROVE  mode' = "up" /\ evidence'[CallKey[d]] = "none"
    <3>1. d # c /\ pc[d] = "preparing"
      BY <2>1, <2>2
    <3>2. CallKey[d] # CallKey[c]
      BY <2>1, <3>1 DEF SingleFlight, Owning
    <3> QED
      BY <2>1, <3>1, <3>2 DEF Prepared
  <2> QED
    BY <2>2 DEF Prepared
<1>4. ASSUME NEW c \in Calls,
             \/ Submit(c) \/ AcceptExisting(c) \/ AcceptFresh(c) \/ AcceptFails(c)
             \/ Dispatch(c) \/ CompletionSynced(c) \/ CompletionFails(c) \/ Settle(c)
      PROVE  Prepared'
  <2>1. mode' = mode /\ evidence' = evidence
    BY <1>4 DEF Submit, AcceptExisting, AcceptFresh, AcceptFails, Dispatch,
                CompletionSynced, CompletionFails, Settle
  <2>2. \A d \in Calls : pc'[d] = "preparing" => pc[d] = "preparing"
    BY <1>4 DEF Submit, AcceptExisting, AcceptFresh, AcceptFails, Dispatch,
                CompletionSynced, CompletionFails, Settle, Tell, TypeOK
  <2> QED
    BY <1>1, <2>1, <2>2
<1>5. ASSUME Startup PROVE Prepared'
  <2>1. mode # "up" /\ pc' = pc
    BY <1>5 DEF Startup, Open, Serve, ReconcileSkips, Reconcile
  <2> QED
    BY <2>1 DEF Prepared
<1>6. ASSUME Crash \/ \E k \in Keys : ReconcileDies(k) PROVE Prepared'
  BY <1>6 DEF Crash, ReconcileDies, ForgetMemory, InFlight, Owning, TypeOK, Prepared
<1>7. CASE UNCHANGED vars
  BY <1>1, <1>7 DEF vars
<1> QED
  BY <1>2, <1>3, <1>4, <1>5, <1>6, <1>7 DEF Next, Step, Work, Effect, Failure

\* Only send() starts a turn, and it does so only without evidence.
LEMMA SentIsEvidentStep ==
    ASSUME TypeOK, Prepared, SentIsEvident, [Next]_vars
    PROVE  SentIsEvident'
<1> USE CallsAssumption DEF session
<1>1. ASSUME UNCHANGED session,
             \A c \in Calls : pc'[c] = "executing" => pc[c] = "executing"
      PROVE  SentIsEvident'
  BY <1>1 DEF SentIsEvident
<1>2. ASSUME NEW k \in Keys, NEW e \in {"done", "aborted"}, evidence[k] # "none",
             evidence' = [evidence EXCEPT ![k] = e], sent' = sent,
             \A c \in Calls : pc'[c] = "executing" => pc[c] = "executing"
      PROVE  SentIsEvident'
  BY <1>2 DEF SentIsEvident, TypeOK
<1>3. ASSUME NEW c \in Calls, SendStarts(c) PROVE SentIsEvident'
  BY <1>3 DEF SendStarts, Prepared, SentIsEvident, TypeOK
<1>4. ASSUME NEW c \in Calls, SendRecorded(c) \/ SendEnds(c) \/ SendRefused(c)
      PROVE  SentIsEvident'
  <2>1. \A d \in Calls : pc'[d] = "executing" => pc[d] = "executing"
    BY <1>4 DEF SendRecorded, SendEnds, SendRefused, Finish, TypeOK
  <2>2. CASE SendRecorded(c)
    <3>1. /\ evidence' = [evidence EXCEPT ![CallKey[c]] = Recovered(CallKey[c])]
          /\ Recovered(CallKey[c]) \in {"done", "aborted"}
          /\ evidence[CallKey[c]] # "none" /\ sent' = sent
      BY <2>2 DEF SendRecorded, Recovered, Unsent, TypeOK
    <3> QED
      BY <1>2, <2>1, <3>1
  <2>3. CASE SendEnds(c)
    <3>1. evidence[CallKey[c]] # "none" /\ sent' = sent
      BY <2>3 DEF SendEnds, SentIsEvident
    <3> QED
      BY <1>1, <1>2, <2>1, <2>3, <3>1 DEF SendEnds
  <2>4. CASE SendRefused(c)
    BY <1>1, <2>1, <2>4 DEF SendRefused
  <2> QED
    BY <1>4, <2>2, <2>3, <2>4
<1>5. ASSUME NEW c \in Calls,
             \/ Submit(c) \/ AcceptExisting(c) \/ AcceptFresh(c) \/ AcceptFails(c)
             \/ Dispatch(c) \/ SendPrepares(c)
             \/ CompletionSynced(c) \/ CompletionFails(c) \/ Settle(c)
      PROVE  SentIsEvident'
  <2>1. UNCHANGED session
    BY <1>5 DEF Submit, AcceptExisting, AcceptFresh, AcceptFails, Dispatch, SendPrepares,
                CompletionSynced, CompletionFails, Settle
  <2>2. \A d \in Calls : pc'[d] = "executing" => pc[d] = "executing"
    BY <1>5 DEF Submit, AcceptExisting, AcceptFresh, AcceptFails, Dispatch, SendPrepares,
                CompletionSynced, CompletionFails, Settle, Tell, TypeOK
  <2> QED
    BY <1>1, <2>1, <2>2
<1>6. ASSUME NEW k \in Keys, Reconcile(k) \/ ReconcileDies(k) PROVE SentIsEvident'
  <2>1. /\ Recovered(k) \in {"done", "aborted"} /\ evidence[k] # "none"
        /\ sent' = sent
        /\ \A d \in Calls : pc'[d] = "executing" => pc[d] = "executing"
    BY <1>6 DEF Reconcile, ReconcileDies, ForgetMemory, Unreconciled, Recovered, TypeOK
  <2>2. evidence' = evidence \/ evidence' = [evidence EXCEPT ![k] = Recovered(k)]
    BY <1>6 DEF Reconcile, ReconcileDies
  <2> QED
    BY <1>1, <1>2, <2>1, <2>2
<1>7. ASSUME Crash \/ Open \/ Serve \/ (\E k \in Keys : ReconcileSkips(k))
             \/ UNCHANGED vars
      PROVE  SentIsEvident'
  <2>1. /\ UNCHANGED session
        /\ \A d \in Calls : pc'[d] = "executing" => pc[d] = "executing"
    BY <1>7 DEF Crash, ForgetMemory, Open, Serve, ReconcileSkips, vars, TypeOK
  <2> QED
    BY <1>1, <2>1
<1> QED
  BY <1>3, <1>4, <1>5, <1>6, <1>7 DEF Next, Step, Startup, Work, Effect, Failure

\* No retry, join, crash, failed append or reconciliation makes the daemon put
\* a prompt in the session log twice.
THEOREM JournalAtMostOnce == Spec => []AtMostOnce
<1>1. Init => Prepared /\ SentIsEvident
  BY CallsAssumption DEF Init, Prepared, SentIsEvident
<1>2. TypeOK /\ SingleFlight /\ Prepared /\ SentIsEvident /\ [Next]_vars
        => (Prepared /\ SentIsEvident)'
  BY PreparedStep, SentIsEvidentStep
<1>3. TypeOK /\ SentIsEvident => AtMostOnce
  <2> SUFFICES ASSUME TypeOK, SentIsEvident, NEW k \in Keys PROVE sent[k] <= 1
    BY DEF AtMostOnce
  <2>1. sent[k] = 0 \/ sent[k] = 1
    BY DEF SentIsEvident
  <2> QED
    BY <2>1
<1> QED
  BY <1>1, <1>2, <1>3, JournalTypeOK, JournalSingleFlight, PTL DEF Spec

-----------------------------------------------------------------------------
(***************************************************************************)
(* One outcome per key, on a disk that may fail.  Between restarts the     *)
(* entries carry it; over a restart only the file does, and open() reads   *)
(* it only if it is whole.  What counts is therefore what the file says as *)
(* long as open() can read it.                                             *)
(***************************************************************************)
BoundTo(f, k, h) == Readable(f) => \E i \in AcceptedAt(f, k) : f[i].value = h
DecidedAs(f, k, r) == Readable(f) => \E i \in CompletedAt(f, k) : f[i].value = r

\* What the entries say of the calls in flight.
CallMatches(c) ==
    /\ pc[c] \in Owning \cup {"accepted", "joined"} => accepted[CallKey[c]] = CallHash[c]
    /\ pc[c] \in Owning => completion[CallKey[c]] = "none"
    /\ pc[c] \in InFlight => mode = "up"
    /\ pc[c] \in InFlight \cup {"idle"} => answer[c] = "none"
KeyMatches(k) ==
    /\ mode \in {"down", "refused"} => accepted[k] = NoHash /\ completion[k] = "none"
    /\ k \in todo => accepted[k] # NoHash
MemoryMatches == (\A c \in Calls : CallMatches(c)) /\ (\A k \in Keys : KeyMatches(k))

\* What the disk says of the entries, of an outcome about to be published and of the
\* answers given.
DiskVouches ==
    /\ \A k \in Keys : /\ accepted[k] # NoHash => BoundTo(file, k, accepted[k])
                       /\ completion[k] # "none" => DecidedAs(file, k, completion[k])
    /\ \A c \in Calls : /\ pc[c] = "settling" => DecidedAs(file, CallKey[c], result[c])
                        /\ answer[c] \in Results => /\ DecidedAs(file, CallKey[c], answer[c])
                                                    /\ BoundTo(file, CallKey[c], CallHash[c])

\* While there are entries, every answer given so far is the one they hold.
AnswersMatch ==
    \A c \in Calls : mode \in {"up", "reconciling"} /\ answer[c] \in Results =>
        completion[CallKey[c]] = answer[c] /\ accepted[CallKey[c]] = CallHash[c]

\* As long as every append of the living process succeeds, the file is whole and holds
\* nothing that the entries, or a call about to publish, do not.
FileMatches ==
    faults = 0 =>
        /\ Readable(file)
        /\ torn => mode = "down"
        /\ \A k \in Keys : mode \in {"up", "reconciling"} =>
             /\ AcceptedAt(file, k) # {} => accepted[k] # NoHash
             /\ CompletedAt(file, k) # {} =>
                  completion[k] # "none" \/ \E c \in Calls : CallKey[c] = k /\ pc[c] = "settling"

JournalInv ==
    /\ TypeOK /\ ResultsKnown /\ SingleFlight /\ QueueMatches
    /\ MemoryMatches /\ DiskVouches /\ AnswersMatch /\ FileMatches /\ StableOutcome

-----------------------------------------------------------------------------
\* One more line in the file, position by position.
LEMMA LineFacts ==
    ASSUME NEW f \in Seq(Lines), NEW line \in Lines
    PROVE  /\ \A k : AcceptedAt(Append(f, line), k) =
                       AcceptedAt(f, k) \cup (IF line.type = "accepted" /\ line.key = k THEN {Len(f) + 1} ELSE {})
           /\ \A k : CompletedAt(Append(f, line), k) =
                       CompletedAt(f, k) \cup (IF line.type = "completed" /\ line.key = k THEN {Len(f) + 1} ELSE {})
           /\ Append(f, line)[Len(f) + 1] = line
           /\ \A i \in DOMAIN f : Append(f, line)[i] = f[i] /\ i < Len(f) + 1
           /\ DOMAIN Append(f, line) = DOMAIN f \cup {Len(f) + 1}
           /\ DOMAIN f \subseteq Nat /\ Len(f) + 1 \in Nat /\ Len(f) + 1 \notin DOMAIN f
<1> DEFINE g == Append(f, line)
<1>1. /\ DOMAIN f = 1..Len(f) /\ Len(f) \in Nat /\ DOMAIN g = 1..Len(f) + 1
      /\ g[Len(f) + 1] = line /\ \A i \in 1..Len(f) : g[i] = f[i]
  BY AppendProperties, LenProperties
<1> HIDE DEF g
<1>2. /\ DOMAIN g = DOMAIN f \cup {Len(f) + 1} /\ Len(f) + 1 \notin DOMAIN f
      /\ \A i \in DOMAIN f : i < Len(f) + 1
  BY <1>1
<1>3. \A k : AcceptedAt(g, k) =
               AcceptedAt(f, k) \cup (IF line.type = "accepted" /\ line.key = k THEN {Len(f) + 1} ELSE {})
  BY <1>1, <1>2 DEF AcceptedAt
<1>4. \A k : CompletedAt(g, k) =
               CompletedAt(f, k) \cup (IF line.type = "completed" /\ line.key = k THEN {Len(f) + 1} ELSE {})
  BY <1>1, <1>2 DEF CompletedAt
<1> QED
  BY <1>1, <1>2, <1>3, <1>4 DEF g

\* A file that open() refuses is refused for good.
LEMMA RefusedForGood ==
    ASSUME NEW f \in Seq(Lines), NEW line \in Lines, Readable(Append(f, line))
    PROVE  Readable(f) /\ line.type # "corrupt"
<1> DEFINE g == Append(f, line)
<1>1. /\ \A k : AcceptedAt(f, k) \subseteq AcceptedAt(g, k)
      /\ \A k : \A i \in AcceptedAt(g, k) : i \in AcceptedAt(f, k) \/ i = Len(f) + 1
      /\ \A k : CompletedAt(f, k) \subseteq CompletedAt(g, k) /\ CompletedAt(f, k) \subseteq DOMAIN f
      /\ DOMAIN f \subseteq DOMAIN g /\ Len(f) + 1 \in DOMAIN g /\ g[Len(f) + 1] = line
      /\ \A i \in DOMAIN f : g[i] = f[i] /\ i < Len(f) + 1
      /\ DOMAIN f \subseteq Nat /\ Len(f) + 1 \in Nat
  <2>1. \A k : CompletedAt(f, k) \subseteq DOMAIN f
    BY DEF CompletedAt
  <2> QED
    BY <2>1, LineFacts
<1> HIDE DEF g
<1>2. Readable(g)
  BY DEF g
<1>3. line.type # "corrupt" /\ \A i \in DOMAIN f : f[i].type # "corrupt"
  BY <1>1, <1>2 DEF Readable
<1>4. ASSUME NEW k \in Keys
      PROVE  /\ \A i, j \in AcceptedAt(f, k) : i = j
             /\ \A i, j \in CompletedAt(f, k) : i = j
             /\ \A i \in CompletedAt(f, k) : \E j \in AcceptedAt(f, k) : j < i
  <2>1. /\ \A i, j \in AcceptedAt(g, k) : i = j
        /\ \A i, j \in CompletedAt(g, k) : i = j
        /\ \A i \in CompletedAt(g, k) : \E j \in AcceptedAt(g, k) : j < i
    BY <1>2 DEF Readable
  <2>2. ASSUME NEW i \in CompletedAt(f, k)
        PROVE  \E j \in AcceptedAt(f, k) : j < i
    <3>1. PICK j \in AcceptedAt(g, k) : j < i
      BY <1>1, <2>1
    <3>2. i \in DOMAIN f /\ i < Len(f) + 1 /\ i \in Nat
      BY <1>1
    <3>3. j # Len(f) + 1
      BY <1>1, <3>1, <3>2
    <3> QED
      BY <1>1, <3>1, <3>3
  <2> QED
    BY <1>1, <2>1, <2>2
<1> QED
  BY <1>3, <1>4 DEF Readable

\* An acceptance of a fresh key, or a completion of a key that has an acceptance and no
\* completion, leaves the file readable.
LEMMA ReadableGrows ==
    ASSUME NEW f \in Seq(Lines), NEW rec \in Records, Readable(f), NEW k \in Keys, rec.key = k,
           rec.type = "accepted" => AcceptedAt(f, k) = {},
           rec.type = "completed" => CompletedAt(f, k) = {} /\ AcceptedAt(f, k) # {}
    PROVE  Readable(Append(f, rec))
<1> DEFINE g == Append(f, rec)
<1>1. rec \in Lines /\ rec.type \in {"accepted", "completed"}
  BY RecordsAreLines DEF Records
<1>2. /\ \A j : AcceptedAt(g, j) = AcceptedAt(f, j) \cup (IF rec.type = "accepted" /\ rec.key = j THEN {Len(f) + 1} ELSE {})
      /\ \A j : CompletedAt(g, j) = CompletedAt(f, j) \cup (IF rec.type = "completed" /\ rec.key = j THEN {Len(f) + 1} ELSE {})
      /\ g[Len(f) + 1] = rec /\ DOMAIN g = DOMAIN f \cup {Len(f) + 1}
      /\ \A i \in DOMAIN f : g[i] = f[i] /\ i < Len(f) + 1
  BY <1>1, LineFacts
<1> HIDE DEF g
<1>3. \A i \in DOMAIN g : g[i].type # "corrupt"
  BY <1>1, <1>2 DEF Readable
<1>4. ASSUME NEW j \in Keys
      PROVE  /\ \A m, n \in AcceptedAt(g, j) : m = n
             /\ \A m, n \in CompletedAt(g, j) : m = n
             /\ \A m \in CompletedAt(g, j) : \E n \in AcceptedAt(g, j) : n < m
  <2>1. /\ \A m, n \in AcceptedAt(f, j) : m = n
        /\ \A m, n \in CompletedAt(f, j) : m = n
        /\ \A m \in CompletedAt(f, j) : \E n \in AcceptedAt(f, j) : n < m
    BY DEF Readable
  <2>2. \A m \in AcceptedAt(f, j) : m < Len(f) + 1
    BY <1>2 DEF AcceptedAt
  <2> QED
    BY <1>2, <2>1, <2>2
<1> QED
  BY <1>3, <1>4 DEF Readable, g

\* What open() loads from a readable file.
LEMMA LoadedFacts ==
    ASSUME NEW f, NEW k \in Keys, Readable(f)
    PROVE  /\ \A i \in AcceptedAt(f, k) : LoadedHash(f, k) = f[i].value
           /\ \A i \in CompletedAt(f, k) : LoadedResult(f, k) = f[i].value
           /\ AcceptedAt(f, k) = {} => LoadedHash(f, k) = NoHash
           /\ CompletedAt(f, k) = {} => LoadedResult(f, k) = "none"
<1>1. /\ \A i, j \in AcceptedAt(f, k) : i = j
      /\ \A i, j \in CompletedAt(f, k) : i = j
  BY DEF Readable
<1>2. ASSUME NEW i \in AcceptedAt(f, k)
      PROVE  LoadedHash(f, k) = f[i].value
  <2>1. (CHOOSE n \in AcceptedAt(f, k) : TRUE) = i
    BY <1>1
  <2> QED
    BY <2>1 DEF LoadedHash
<1>3. ASSUME NEW i \in CompletedAt(f, k)
      PROVE  LoadedResult(f, k) = f[i].value
  <2>1. (CHOOSE n \in CompletedAt(f, k) : TRUE) = i
    BY <1>1
  <2> QED
    BY <2>1 DEF LoadedResult
<1> QED
  BY <1>2, <1>3 DEF LoadedHash, LoadedResult

\* The disk goes on vouching for what it vouched for, and vouches for what is appended.
LEMMA VouchesOn ==
    ASSUME file \in Seq(Lines), torn \in BOOLEAN, NEW rec \in Records,
           file' = file \/ AppendWhole(rec)
    PROVE  /\ \A k, h : BoundTo(file, k, h) => BoundTo(file', k, h)
           /\ \A k, r : DecidedAs(file, k, r) => DecidedAs(file', k, r)
           /\ AppendWhole(rec) => /\ rec.type = "accepted" => BoundTo(file', rec.key, rec.value)
                                  /\ rec.type = "completed" => DecidedAs(file', rec.key, rec.value)
<1>1. CASE file' = file /\ ~AppendWhole(rec)
  BY <1>1 DEF BoundTo, DecidedAs
<1>2. CASE AppendWhole(rec)
  <2> DEFINE line == IF torn THEN Garbled(rec) ELSE rec
  <2>1. file' = Append(file, line) /\ line \in Lines
    BY <1>2, RecordsAreLines DEF AppendWhole
  <2>2. line.type # "corrupt" => line = rec
    BY DEF Garbled, Records
  <2> HIDE DEF line
  <2>3. Readable(file') => Readable(file) /\ line = rec
    BY <2>1, <2>2, RefusedForGood
  <2>4. /\ \A k : AcceptedAt(file', k) = AcceptedAt(file, k) \cup (IF line.type = "accepted" /\ line.key = k THEN {Len(file) + 1} ELSE {})
        /\ \A k : CompletedAt(file', k) = CompletedAt(file, k) \cup (IF line.type = "completed" /\ line.key = k THEN {Len(file) + 1} ELSE {})
        /\ file'[Len(file) + 1] = line /\ \A i \in DOMAIN file : file'[i] = file[i]
    BY <2>1, LineFacts
  <2>5. \A k : AcceptedAt(file, k) \subseteq DOMAIN file /\ CompletedAt(file, k) \subseteq DOMAIN file
    BY DEF AcceptedAt, CompletedAt
  <2>6. \A k, h : BoundTo(file, k, h) => BoundTo(file', k, h)
    BY <2>3, <2>4, <2>5 DEF BoundTo
  <2>7. \A k, r : DecidedAs(file, k, r) => DecidedAs(file', k, r)
    BY <2>3, <2>4, <2>5 DEF DecidedAs
  <2>8. rec.type = "accepted" => BoundTo(file', rec.key, rec.value)
    BY <2>3, <2>4 DEF BoundTo
  <2>9. rec.type = "completed" => DecidedAs(file', rec.key, rec.value)
    BY <2>3, <2>4 DEF DecidedAs
  <2> QED
    BY <2>6, <2>7, <2>8, <2>9
<1> QED
  BY <1>1, <1>2

-----------------------------------------------------------------------------
\* The call whose operation is at the head of the chain waits for it.
LEMMA HeadWaits ==
    ASSUME TypeOK, QueueMatches, tail # <<>>
    PROVE  pc[Head(tail).call] = Waiting(Head(tail))
BY HeadIsElement DEF QueueMatches, TypeOK

\* A step that leaves the entries alone, and answers calls or moves one of them.
LEMMA CallsMove ==
    ASSUME TypeOK, MemoryMatches, UNCHANGED <<accepted, completion, mode, todo>>,
           \A d \in Calls : \/ pc'[d] = pc[d] /\ answer'[d] = answer[d]
                            \/ pc'[d] = "answered"
                            \/ CallMatches(d)'
    PROVE  MemoryMatches'
<1>1. \A k \in Keys : KeyMatches(k)'
  BY DEF MemoryMatches, KeyMatches
<1>2. ASSUME NEW d \in Calls
      PROVE  CallMatches(d)'
  BY DEF MemoryMatches, CallMatches, InFlight, Owning
<1> QED
  BY <1>1, <1>2 DEF MemoryMatches

\* The entries agree with the calls after every step.
LEMMA MemoryMatchesStep ==
    ASSUME TypeOK, MemoryMatches, SingleFlight, QueueMatches, [Next]_vars
    PROVE  MemoryMatches'
<1> USE CallsAssumption
<1>0. \A c \in Calls : CallKey[c] \in Keys /\ CallHash[c] \in Hashes /\ CallHash[c] # NoHash /\ CallMatches(c)
  BY DEF MemoryMatches
<1>1. ASSUME NEW c \in Calls, Submit(c) PROVE MemoryMatches'
  <2>1. CallMatches(c)'
    BY <1>0, <1>1 DEF Submit, CallMatches, entries, TypeOK, Owning
  <2>2. \A d \in Calls : d # c => pc'[d] = pc[d] /\ answer'[d] = answer[d]
    BY <1>1 DEF Submit, TypeOK
  <2> QED
    BY <1>1, <2>1, <2>2, CallsMove DEF Submit, entries
<1>2. ASSUME NEW c \in Calls, AcceptExisting(c) PROVE MemoryMatches'
  <2>1. CASE SameRequest(c)
    <3>1. pc[c] = "accepting"
      BY <1>2, HeadWaits DEF AcceptExisting, Waiting
    <3>2. CallMatches(c)'
      BY <1>0, <1>2, <2>1, <3>1 DEF AcceptExisting, SameRequest, CallMatches, entries,
         TypeOK, Owning, InFlight
    <3>3. \A d \in Calls : d # c => pc'[d] = pc[d] /\ answer'[d] = answer[d]
      BY <1>2, <2>1 DEF AcceptExisting, TypeOK
    <3> QED
      BY <1>2, <3>2, <3>3, CallsMove DEF AcceptExisting, entries
  <2>2. CASE ~SameRequest(c)
    BY <1>2, <2>2, CallsMove DEF AcceptExisting, Tell, entries, TypeOK
  <2> QED
    BY <2>1, <2>2
<1>3. ASSUME NEW c \in Calls, AcceptFresh(c) PROVE MemoryMatches'
  <2>1. /\ accepted[CallKey[c]] = NoHash /\ accepted' = [accepted EXCEPT ![CallKey[c]] = CallHash[c]]
        /\ pc' = [pc EXCEPT ![c] = "accepted"] /\ completion' = completion /\ mode = "up"
        /\ UNCHANGED <<answer, mode, todo>> /\ pc[c] = "accepting"
    BY <1>3, HeadWaits DEF AcceptFresh, Waiting
  <2>2. \A k \in Keys : KeyMatches(k)'
    BY <1>0, <2>1 DEF MemoryMatches, KeyMatches, TypeOK
  <2>3. CallMatches(c)'
    BY <1>0, <2>1 DEF CallMatches, TypeOK, Owning, InFlight
  <2>4. ASSUME NEW d \in Calls, d # c
        PROVE  CallMatches(d)'
    BY <1>0, <2>1, <2>4 DEF CallMatches, TypeOK
  <2> QED
    BY <2>2, <2>3, <2>4 DEF MemoryMatches
<1>4. ASSUME NEW c \in Calls, AcceptFails(c) \/ CompletionFails(c) PROVE MemoryMatches'
  BY <1>4, CallsMove DEF AcceptFails, CompletionFails, Tell, entries, TypeOK
<1>5. ASSUME NEW c \in Calls, Dispatch(c) PROVE MemoryMatches'
  <2>1. CASE Replayed(CallKey[c]) /\ Tell({c}, completion[CallKey[c]])
    BY <1>5, <2>1, CallsMove DEF Dispatch, Tell, entries, TypeOK
  <2>2. CASE /\ ~Replayed(CallKey[c]) /\ UNCHANGED answer
             /\ pc' = [pc EXCEPT ![c] = IF Running(CallKey[c]) THEN "joined" ELSE "effect"]
    <3>1. pc'[c] \in {"joined", "effect"} /\ \A d \in Calls : d # c => pc'[d] = pc[d] /\ answer'[d] = answer[d]
      BY <2>2 DEF TypeOK
    <3>2. CallMatches(c)'
      BY <1>0, <1>5, <2>2, <3>1 DEF Dispatch, Replayed, CallMatches, entries, Owning,
         InFlight
    <3> QED
      BY <1>5, <3>1, <3>2, CallsMove DEF Dispatch, entries
  <2> QED
    BY <1>5, <2>1, <2>2 DEF Dispatch
<1>6. ASSUME NEW c \in Calls,
             SendRecorded(c) \/ SendPrepares(c) \/ SendStarts(c) \/ SendRefused(c) \/ SendEnds(c) \/ CompletionSynced(c)
      PROVE  MemoryMatches'
  <2>1. pc[c] \in Owning
    <3>1. CASE CompletionSynced(c)
      BY <3>1, HeadWaits DEF CompletionSynced, Waiting, Owning
    <3> QED
      BY <1>6, <3>1 DEF SendRecorded, SendPrepares, SendStarts, SendRefused, SendEnds,
         Owning
  <2>2. /\ \E s \in Owning : pc' = [pc EXCEPT ![c] = s]
        /\ UNCHANGED <<accepted, completion, answer, mode, todo>>
    BY <1>6 DEF SendRecorded, SendPrepares, SendStarts, SendRefused, SendEnds,
       CompletionSynced, Finish,
       entries, Owning
  <2>3. pc'[c] \in Owning /\ \A d \in Calls : d # c => pc'[d] = pc[d] /\ answer'[d] = answer[d]
    BY <2>2 DEF TypeOK
  <2>4. CallMatches(c)'
    BY <1>0, <2>1, <2>2, <2>3 DEF CallMatches, InFlight
  <2> QED
    BY <2>2, <2>3, <2>4, CallsMove
<1>7. ASSUME NEW c \in Calls, Settle(c) PROVE MemoryMatches'
  <2>1. /\ completion' = [completion EXCEPT ![CallKey[c]] = result[c]] /\ pc[c] = "settling"
        /\ UNCHANGED <<accepted, mode, todo>> /\ mode = "up" /\ Tell(Sharing(c), result[c])
    BY <1>7 DEF Settle
  <2>2. \A k \in Keys : KeyMatches(k)'
    BY <2>1 DEF MemoryMatches, KeyMatches
  <2>3. ASSUME NEW d \in Calls, d \in Sharing(c)
        PROVE  CallMatches(d)'
    BY <2>1, <2>3 DEF Tell, CallMatches, Owning, InFlight
  <2>4. ASSUME NEW d \in Calls, d \notin Sharing(c)
        PROVE  CallMatches(d)'
    <3>1. pc'[d] = pc[d] /\ answer'[d] = answer[d] /\ d # c
      BY <2>1, <2>4 DEF Tell, Sharing
    <3>2. pc[d] \in Owning => CallKey[d] # CallKey[c]
      BY <2>1, <3>1 DEF SingleFlight, Owning
    <3> QED
      BY <1>0, <2>1, <3>1, <3>2 DEF CallMatches, TypeOK
  <2> QED
    BY <2>2, <2>3, <2>4 DEF MemoryMatches
<1>8. ASSUME ForgetMemory, UNCHANGED answer PROVE MemoryMatches'
  <2>1. \A k \in Keys : KeyMatches(k)'
    BY <1>8 DEF ForgetMemory, KeyMatches
  <2>2. ASSUME NEW d \in Calls
        PROVE  CallMatches(d)'
    BY <1>0, <1>8 DEF ForgetMemory, CallMatches, InFlight, Owning
  <2> QED
    BY <2>1, <2>2 DEF MemoryMatches
<1>9. ASSUME Startup PROVE MemoryMatches'
  <2>1. /\ pc' = pc /\ answer' = answer /\ mode # "up"
    BY <1>9 DEF Startup, Open, Serve, ReconcileSkips, Reconcile
  <2>2. \A d \in Calls : CallMatches(d)'
    BY <1>0, <2>1 DEF CallMatches, InFlight
  <2>3. ASSUME NEW j \in Keys
        PROVE  KeyMatches(j)'
    <3>1. KeyMatches(j)
      BY DEF MemoryMatches
    <3>2. CASE Open
      BY <3>1, <3>2 DEF Open, KeyMatches, entries
    <3>3. CASE Serve
      BY <3>1, <3>3 DEF Serve, KeyMatches, entries
    <3>4. ASSUME NEW k \in Keys, ReconcileSkips(k) \/ Reconcile(k)
          PROVE  KeyMatches(j)'
      BY <3>1, <3>4 DEF ReconcileSkips, Reconcile, KeyMatches, entries
    <3> QED
      BY <1>9, <3>2, <3>3, <3>4 DEF Startup
  <2> QED
    BY <2>2, <2>3 DEF MemoryMatches
<1>10. ASSUME Crash \/ \E k \in Keys : ReconcileDies(k) PROVE MemoryMatches'
  BY <1>8, <1>10 DEF Crash, ReconcileDies
<1>11. CASE UNCHANGED vars
  BY <1>11, CallsMove DEF vars
<1> QED
  BY <1>1, <1>2, <1>3, <1>4, <1>5, <1>6, <1>7, <1>9, <1>10, <1>11 DEF Next, Step, Work,
     Effect, Failure

-----------------------------------------------------------------------------
\* The record that is appended is well-formed.
LEMMA HeadRecordFacts ==
    ASSUME TypeOK, ResultsKnown, tail # <<>>
    PROVE  /\ HeadRecord \in Records /\ Head(tail).call \in Calls
           /\ Head(tail).op = "accept" => HeadRecord = Acceptance(Head(tail).call)
           /\ Head(tail).op = "complete" =>
                /\ HeadRecord = Completion(CallKey[Head(tail).call], result[Head(tail).call])
                /\ result[Head(tail).call] \in Results
           /\ Head(tail).op \in {"accept", "complete"}
<1>1. 1 \in DOMAIN tail /\ Head(tail) = tail[1] /\ Head(tail) \in Operations
  BY HeadIsElement, TailTypes DEF TypeOK
<1>2. Head(tail).call \in Calls /\ Head(tail).op \in {"accept", "complete"}
  BY <1>1 DEF Operations
<1>3. Head(tail).op = "complete" => result[Head(tail).call] \in Results
  BY <1>1 DEF ResultsKnown
<1> QED
  BY <1>2, <1>3, RecordTypes, CallsAssumption DEF HeadRecord

\* A step appends a record, or leaves the lines alone.
LEMMA DiskStep ==
    ASSUME TypeOK, ResultsKnown, [Next]_vars
    PROVE  file' = file \/ \E rec \in Records : AppendWhole(rec)
<1> USE DEF disk
<1>0. CallsAssumption!1
  BY CallsAssumption
<1>1. \A rec : AppendInterrupted(rec) => file' = file \/ AppendWhole(rec)
  BY DEF AppendInterrupted
<1>2. ASSUME NEW c \in Calls, AcceptFresh(c) \/ AcceptFails(c)
      PROVE  file' = file \/ \E rec \in Records : AppendWhole(rec)
  BY <1>1, <1>2, RecordTypes DEF AcceptFresh, AcceptFails
<1>3. ASSUME NEW c \in Calls, CompletionSynced(c) \/ CompletionFails(c)
      PROVE  file' = file \/ \E rec \in Records : AppendWhole(rec)
  BY <1>1, <1>3, HeadRecordFacts DEF CompletionSynced, CompletionFails
<1>4. ASSUME Crash
      PROVE  file' = file \/ \E rec \in Records : AppendWhole(rec)
  BY <1>1, <1>4, HeadRecordFacts DEF Crash, HeadWrites
<1>5. ASSUME NEW k \in Keys, Reconcile(k) \/ ReconcileDies(k)
      PROVE  file' = file \/ \E rec \in Records : AppendWhole(rec)
  <2>1. Recovered(k) \in Results
    BY <1>5 DEF Reconcile, ReconcileDies, Unreconciled, Recovered, Results, TypeOK
  <2> QED
    BY <1>1, <1>5, <2>1, RecordTypes DEF Reconcile, ReconcileDies
<1>6. ASSUME NEW c \in Calls,
             \/ Submit(c) \/ AcceptExisting(c) \/ Dispatch(c) \/ Effect(c) \/ Settle(c)
      PROVE  file' = file
  BY <1>6 DEF Submit, AcceptExisting, Dispatch, Effect, SendRecorded, SendPrepares,
     SendStarts,
     SendRefused, SendEnds, Settle
<1>7. ASSUME Open \/ Serve \/ (\E k \in Keys : ReconcileSkips(k)) \/ UNCHANGED vars
      PROVE  file' = file
  BY <1>7 DEF Open, Serve, ReconcileSkips, vars
<1> QED
  BY <1>2, <1>3, <1>4, <1>5, <1>6, <1>7 DEF Next, Step, Startup, Work, Failure

\* So it goes on vouching.
LEMMA Vouching ==
    ASSUME TypeOK, ResultsKnown, [Next]_vars
    PROVE  /\ \A k, h : BoundTo(file, k, h) => BoundTo(file', k, h)
           /\ \A k, r : DecidedAs(file, k, r) => DecidedAs(file', k, r)
<1>1. file \in Seq(Lines) /\ torn \in BOOLEAN
  BY DEF TypeOK
<1>2. CASE file' = file
  BY <1>2 DEF BoundTo, DecidedAs
<1>3. ASSUME NEW rec \in Records, AppendWhole(rec)
      PROVE  /\ \A k, h : BoundTo(file, k, h) => BoundTo(file', k, h)
             /\ \A k, r : DecidedAs(file, k, r) => DecidedAs(file', k, r)
  BY <1>1, <1>3, VouchesOn
<1> QED
  BY <1>2, <1>3, DiskStep

\* What a step needs to show of what it publishes.
LEMMA VouchedSoFar ==
    ASSUME TypeOK, ResultsKnown, DiskVouches, [Next]_vars,
           \A k \in Keys : accepted'[k] \in {accepted[k], NoHash} \/ BoundTo(file', k, accepted'[k]),
           \A k \in Keys : completion'[k] \in {completion[k], "none"} \/ DecidedAs(file', k, completion'[k]),
           \A c \in Calls : pc'[c] = "settling" =>
              (pc[c] = "settling" /\ result'[c] = result[c]) \/ DecidedAs(file', CallKey[c], result'[c]),
           \A c \in Calls : answer'[c] \in Results =>
              answer'[c] = answer[c] \/ (DecidedAs(file, CallKey[c], answer'[c]) /\ BoundTo(file, CallKey[c], CallHash[c]))
    PROVE  DiskVouches'
<1>1. /\ \A k, h : BoundTo(file, k, h) => BoundTo(file', k, h)
      /\ \A k, r : DecidedAs(file, k, r) => DecidedAs(file', k, r)
  BY Vouching
<1>2. ASSUME NEW k \in Keys
      PROVE  /\ accepted'[k] # NoHash => BoundTo(file', k, accepted'[k])
             /\ completion'[k] # "none" => DecidedAs(file', k, completion'[k])
  BY <1>1 DEF DiskVouches
<1>3. ASSUME NEW c \in Calls, pc'[c] = "settling"
      PROVE  DecidedAs(file', CallKey[c], result'[c])
  BY <1>1, <1>3 DEF DiskVouches
<1>4. ASSUME NEW c \in Calls, answer'[c] \in Results
      PROVE  DecidedAs(file', CallKey[c], answer'[c]) /\ BoundTo(file', CallKey[c], CallHash[c])
  BY <1>1, <1>4 DEF DiskVouches
<1> QED
  BY <1>2, <1>3, <1>4 DEF DiskVouches, BoundTo, DecidedAs

\* The disk vouches for what memory and callers know after every step.
LEMMA DiskVouchesStep ==
    ASSUME TypeOK, ResultsKnown, QueueMatches, MemoryMatches, DiskVouches, [Next]_vars
    PROVE  DiskVouches'
<1> USE CallsAssumption
<1>0. /\ \A c \in Calls : CallKey[c] \in Keys /\ CallHash[c] \in Hashes /\ CallHash[c] # NoHash /\ CallMatches(c)
      /\ file \in Seq(Lines) /\ torn \in BOOLEAN
      /\ "conflict" \notin Results /\ "io_error" \notin Results /\ "none" \notin Results
  BY DEF MemoryMatches, TypeOK, Results
<1>1. ASSUME NEW c \in Calls, Submit(c) \/ Effect(c) PROVE DiskVouches'
  <2>1. UNCHANGED <<accepted, completion, answer>>
    BY <1>1 DEF Submit, Effect, SendRecorded, SendPrepares, SendStarts, SendRefused,
       SendEnds, entries
  <2>2. \A d \in Calls : pc'[d] = "settling" => pc[d] = "settling" /\ result'[d] = result[d]
    BY <1>1 DEF Submit, Effect, SendRecorded, SendPrepares, SendStarts, SendRefused,
       SendEnds, Finish,
       TypeOK
  <2> QED
    BY <2>1, <2>2, VouchedSoFar
<1>2. ASSUME NEW c \in Calls, AcceptExisting(c) \/ AcceptFails(c) \/ CompletionFails(c) PROVE DiskVouches'
  <2>1. UNCHANGED <<accepted, completion, result>>
    BY <1>2 DEF AcceptExisting, AcceptFails, CompletionFails, entries
  <2>2. \A d \in Calls : pc'[d] = "settling" => pc[d] = "settling"
    BY <1>2 DEF AcceptExisting, AcceptFails, CompletionFails, Tell, TypeOK
  <2>3. \A d \in Calls : answer'[d] \in Results => answer'[d] = answer[d]
    BY <1>0, <1>2 DEF AcceptExisting, AcceptFails, CompletionFails, Tell, TypeOK
  <2> QED
    BY <2>1, <2>2, <2>3, VouchedSoFar
<1>3. ASSUME NEW c \in Calls, AcceptFresh(c) PROVE DiskVouches'
  <2>1. /\ UNCHANGED <<completion, result, answer>> /\ AppendWhole(Acceptance(c))
        /\ accepted' = [accepted EXCEPT ![CallKey[c]] = CallHash[c]]
        /\ pc' = [pc EXCEPT ![c] = "accepted"]
    BY <1>3 DEF AcceptFresh
  <2>2. BoundTo(file', CallKey[c], CallHash[c])
    <3>1. /\ Acceptance(c) \in Records /\ Acceptance(c).type = "accepted"
          /\ Acceptance(c).key = CallKey[c] /\ Acceptance(c).value = CallHash[c]
      BY RecordTypes DEF Acceptance
    <3> QED
      BY <1>0, <2>1, <3>1, VouchesOn
  <2>3. \A k \in Keys : accepted'[k] \in {accepted[k], NoHash} \/ BoundTo(file', k, accepted'[k])
    BY <1>0, <2>1, <2>2 DEF TypeOK
  <2>4. \A d \in Calls : pc'[d] = "settling" => pc[d] = "settling"
    BY <2>1 DEF TypeOK
  <2> QED
    BY <2>1, <2>3, <2>4, VouchedSoFar
<1>4. ASSUME NEW c \in Calls, Dispatch(c) PROVE DiskVouches'
  <2>1. UNCHANGED <<accepted, completion, result>> /\ pc[c] = "accepted"
    BY <1>4 DEF Dispatch, entries
  <2>2. \A d \in Calls : pc'[d] = "settling" => pc[d] = "settling"
    BY <1>4 DEF Dispatch, Tell, TypeOK
  <2>3. \A d \in Calls : answer'[d] \in Results =>
          answer'[d] = answer[d] \/ (DecidedAs(file, CallKey[d], answer'[d]) /\ BoundTo(file, CallKey[d], CallHash[d]))
    <3>1. accepted[CallKey[c]] = CallHash[c]
      BY <1>0, <2>1 DEF CallMatches
    <3>2. /\ BoundTo(file, CallKey[c], CallHash[c])
          /\ completion[CallKey[c]] \in Results => DecidedAs(file, CallKey[c], completion[CallKey[c]])
      BY <1>0, <3>1 DEF DiskVouches
    <3> QED
      BY <1>4, <3>2 DEF Dispatch, Tell, TypeOK
  <2> QED
    BY <2>1, <2>2, <2>3, VouchedSoFar
<1>5. ASSUME NEW c \in Calls, CompletionSynced(c) PROVE DiskVouches'
  <2>1. /\ UNCHANGED <<accepted, completion, result, answer>> /\ AppendWhole(HeadRecord)
        /\ pc' = [pc EXCEPT ![c] = "settling"]
        /\ tail # <<>> /\ Head(tail).op = "complete" /\ Head(tail).call = c
    BY <1>5 DEF CompletionSynced, entries
  <2>2. DecidedAs(file', CallKey[c], result[c])
    <3>1. /\ HeadRecord \in Records /\ HeadRecord = Completion(CallKey[c], result[c])
      BY <2>1, HeadRecordFacts
    <3>2. /\ HeadRecord.type = "completed" /\ HeadRecord.key = CallKey[c] /\ HeadRecord.value = result[c]
      BY <3>1 DEF Completion
    <3> QED
      BY <1>0, <2>1, <3>1, <3>2, VouchesOn
  <2>3. \A d \in Calls : pc'[d] = "settling" => pc[d] = "settling" \/ d = c
    BY <2>1 DEF TypeOK
  <2>4. DecidedAs(file', CallKey[c], result'[c])
    BY <2>1, <2>2 DEF DecidedAs
  <2> QED
    BY <2>1, <2>3, <2>4, VouchedSoFar
<1>6. ASSUME NEW c \in Calls, Settle(c) PROVE DiskVouches'
  <2>1. /\ completion' = [completion EXCEPT ![CallKey[c]] = result[c]] /\ pc[c] = "settling"
        /\ UNCHANGED <<accepted, result>> /\ Tell(Sharing(c), result[c])
    BY <1>6 DEF Settle
  <2>2. DecidedAs(file, CallKey[c], result[c])
    BY <2>1 DEF DiskVouches
  <2>3. \A k \in Keys : completion'[k] \in {completion[k], "none"} \/ DecidedAs(file', k, completion'[k])
    BY <1>0, <2>1, <2>2, Vouching DEF TypeOK
  <2>4. \A d \in Calls : pc'[d] = "settling" => pc[d] = "settling"
    BY <2>1 DEF Tell, TypeOK
  <2>5. ASSUME NEW d \in Calls
        PROVE  \/ answer'[d] = answer[d]
               \/ DecidedAs(file, CallKey[d], answer'[d]) /\ BoundTo(file, CallKey[d], CallHash[d])
    <3>1. CASE d \in Sharing(c)
      <4>1. answer'[d] = result[c] /\ CallKey[d] = CallKey[c] /\ pc[d] \in Owning \cup {"joined"}
        BY <2>1, <3>1 DEF Tell, Sharing, Owning
      <4>2. accepted[CallKey[d]] = CallHash[d]
        BY <1>0, <4>1 DEF CallMatches
      <4> QED
        BY <1>0, <2>2, <4>1, <4>2 DEF DiskVouches
    <3>2. CASE d \notin Sharing(c)
      BY <2>1, <3>2 DEF Tell
    <3> QED
      BY <3>1, <3>2
  <2> QED
    BY <2>1, <2>3, <2>4, <2>5, VouchedSoFar
<1>7. ASSUME Crash \/ \E k \in Keys : ReconcileDies(k) PROVE DiskVouches'
  <2>1. ForgetMemory /\ UNCHANGED <<answer, result>>
    BY <1>7 DEF Crash, ReconcileDies
  <2>2. /\ \A k \in Keys : accepted'[k] = NoHash /\ completion'[k] = "none"
        /\ \A d \in Calls : pc'[d] # "settling"
    BY <2>1 DEF ForgetMemory, InFlight, Owning
  <2> QED
    BY <2>1, <2>2, VouchedSoFar
<1>8. ASSUME Open PROVE DiskVouches'
  <2>1. UNCHANGED <<pc, answer, result>> /\ file' = file
    BY <1>8 DEF Open
  <2>2. CASE ~Readable(file)
    BY <1>8, <2>1, <2>2, VouchedSoFar DEF Open, entries
  <2>3. CASE Readable(file)
    <3>1. \A k \in Keys : accepted'[k] = LoadedHash(file, k) /\ completion'[k] = LoadedResult(file, k)
      BY <1>8, <2>3 DEF Open
    <3>2. ASSUME NEW k \in Keys
          PROVE  /\ accepted'[k] = NoHash \/ BoundTo(file', k, accepted'[k])
                 /\ completion'[k] = "none" \/ DecidedAs(file', k, completion'[k])
      <4>1. /\ accepted'[k] = NoHash \/ BoundTo(file, k, accepted'[k])
            /\ completion'[k] = "none" \/ DecidedAs(file, k, completion'[k])
        BY <2>3, <3>1, LoadedFacts DEF BoundTo, DecidedAs
      <4> QED
        BY <4>1, Vouching
    <3> QED
      BY <2>1, <3>2, VouchedSoFar
  <2> QED
    BY <2>2, <2>3
<1>9. ASSUME NEW k \in Keys, Reconcile(k) PROVE DiskVouches'
  <2>1. /\ UNCHANGED <<accepted, pc, answer, result>> /\ AppendWhole(Completion(k, Recovered(k)))
        /\ completion' = [completion EXCEPT ![k] = Recovered(k)]
    BY <1>9 DEF Reconcile
  <2>2. Recovered(k) \in Results
    BY <1>9 DEF Reconcile, Unreconciled, Recovered, Results, TypeOK
  <2>3. DecidedAs(file', k, Recovered(k))
    <3> DEFINE rec == Completion(k, Recovered(k))
    <3>1. rec \in Records /\ rec.type = "completed" /\ rec.key = k /\ rec.value = Recovered(k)
      BY <2>2, RecordTypes DEF Completion
    <3> HIDE DEF rec
    <3>2. DecidedAs(file', rec.key, rec.value)
      BY <1>0, <2>1, <3>1, VouchesOn DEF rec
    <3> QED
      BY <3>1, <3>2
  <2>4. \A j \in Keys : completion'[j] \in {completion[j], "none"} \/ DecidedAs(file', j, completion'[j])
    BY <2>1, <2>3 DEF TypeOK
  <2> QED
    BY <2>1, <2>4, VouchedSoFar
<1>10. ASSUME Serve \/ (\E k \in Keys : ReconcileSkips(k)) \/ UNCHANGED vars PROVE DiskVouches'
  BY <1>10, VouchedSoFar DEF Serve, ReconcileSkips, vars, entries
<1> QED
  BY <1>1, <1>2, <1>3, <1>4, <1>5, <1>6, <1>7, <1>8, <1>9, <1>10
     DEF Next, Step, Startup, Work, Failure

-----------------------------------------------------------------------------
\* A step changes what a call was told, or what the entries hold, only while the daemon
\* serves; answers given under a key stand in the entries of the key.
LEMMA AnswersMatchStep ==
    ASSUME TypeOK, ResultsKnown, QueueMatches, MemoryMatches, DiskVouches, AnswersMatch, [Next]_vars
    PROVE  AnswersMatch'
<1> USE CallsAssumption
<1>0. /\ \A c \in Calls : CallKey[c] \in Keys /\ CallHash[c] \in Hashes /\ CallHash[c] # NoHash /\ CallMatches(c)
      /\ "conflict" \notin Results /\ "io_error" \notin Results /\ "none" \notin Results
  BY DEF MemoryMatches, Results
<1>1. ASSUME UNCHANGED <<accepted, completion>>, mode \in {"up", "reconciling"},
             \A c \in Calls : answer'[c] \in Results =>
               answer'[c] = answer[c] \/ (completion[CallKey[c]] = answer'[c] /\ accepted[CallKey[c]] = CallHash[c])
      PROVE  AnswersMatch'
  BY <1>1 DEF AnswersMatch
<1>2. ASSUME NEW c \in Calls, Submit(c) \/ Effect(c) \/ CompletionSynced(c) PROVE AnswersMatch'
  <2>1. UNCHANGED <<accepted, completion, answer>> /\ mode = "up"
    BY <1>2 DEF Submit, Effect, SendRecorded, SendPrepares, SendStarts, SendRefused,
       SendEnds,
       CompletionSynced, entries
  <2> QED
    BY <1>1, <2>1
<1>3. ASSUME NEW c \in Calls, AcceptExisting(c) \/ AcceptFails(c) \/ CompletionFails(c) PROVE AnswersMatch'
  <2>1. UNCHANGED <<accepted, completion>> /\ mode = "up"
    BY <1>3 DEF AcceptExisting, AcceptFails, CompletionFails, entries
  <2>2. \A d \in Calls : answer'[d] \in Results => answer'[d] = answer[d]
    BY <1>0, <1>3 DEF AcceptExisting, AcceptFails, CompletionFails, Tell, TypeOK
  <2> QED
    BY <1>1, <2>1, <2>2
<1>4. ASSUME NEW c \in Calls, Dispatch(c) PROVE AnswersMatch'
  <2>1. UNCHANGED <<accepted, completion>> /\ mode = "up" /\ accepted[CallKey[c]] = CallHash[c]
    BY <1>0, <1>4 DEF Dispatch, entries, CallMatches
  <2>2. \A d \in Calls : answer'[d] = answer[d] \/ (d = c /\ answer'[d] = completion[CallKey[c]])
    BY <1>4 DEF Dispatch, Tell, TypeOK
  <2> QED
    BY <1>1, <2>1, <2>2
<1>5. ASSUME NEW c \in Calls, AcceptFresh(c) PROVE AnswersMatch'
  <2>1. /\ accepted[CallKey[c]] = NoHash /\ accepted' = [accepted EXCEPT ![CallKey[c]] = CallHash[c]]
        /\ UNCHANGED <<completion, answer>> /\ mode = "up"
    BY <1>5 DEF AcceptFresh
  <2> SUFFICES ASSUME NEW d \in Calls, answer'[d] \in Results
               PROVE  completion'[CallKey[d]] = answer'[d] /\ accepted'[CallKey[d]] = CallHash[d]
    BY DEF AnswersMatch
  <2>2. completion[CallKey[d]] = answer[d] /\ accepted[CallKey[d]] = CallHash[d]
    BY <2>1 DEF AnswersMatch
  <2> QED
    BY <1>0, <2>1, <2>2 DEF TypeOK
<1>6. ASSUME NEW c \in Calls, Settle(c) PROVE AnswersMatch'
  <2>1. /\ completion' = [completion EXCEPT ![CallKey[c]] = result[c]] /\ pc[c] = "settling"
        /\ accepted' = accepted /\ Tell(Sharing(c), result[c]) /\ mode = "up"
        /\ completion[CallKey[c]] = "none"
    BY <1>0, <1>6 DEF Settle, CallMatches, Owning
  <2> SUFFICES ASSUME NEW d \in Calls, answer'[d] \in Results
               PROVE  completion'[CallKey[d]] = answer'[d] /\ accepted'[CallKey[d]] = CallHash[d]
    BY DEF AnswersMatch
  <2>2. CASE d \in Sharing(c)
    <3>1. answer'[d] = result[c] /\ CallKey[d] = CallKey[c] /\ pc[d] \in Owning \cup {"joined"}
      BY <2>1, <2>2 DEF Tell, Sharing, Owning
    <3>2. accepted[CallKey[d]] = CallHash[d]
      BY <1>0, <3>1 DEF CallMatches
    <3> QED
      BY <1>0, <2>1, <3>1, <3>2 DEF TypeOK
  <2>3. CASE d \notin Sharing(c)
    <3>1. answer'[d] = answer[d]
      BY <2>1, <2>3 DEF Tell
    <3>2. completion[CallKey[d]] = answer[d] /\ accepted[CallKey[d]] = CallHash[d]
      BY <2>1, <3>1 DEF AnswersMatch
    <3> QED
      BY <1>0, <2>1, <3>1, <3>2 DEF TypeOK
  <2> QED
    BY <2>2, <2>3
<1>7. ASSUME Crash \/ \E k \in Keys : ReconcileDies(k) PROVE AnswersMatch'
  BY <1>7 DEF Crash, ReconcileDies, ForgetMemory, AnswersMatch
<1>8. ASSUME Open PROVE AnswersMatch'
  <2>1. CASE ~Readable(file)
    BY <1>8, <2>1 DEF Open, AnswersMatch
  <2>2. CASE Readable(file)
    <3>1. /\ \A k \in Keys : accepted'[k] = LoadedHash(file, k) /\ completion'[k] = LoadedResult(file, k)
          /\ answer' = answer
      BY <1>8, <2>2 DEF Open
    <3> SUFFICES ASSUME NEW d \in Calls, answer'[d] \in Results
                 PROVE  completion'[CallKey[d]] = answer'[d] /\ accepted'[CallKey[d]] = CallHash[d]
      BY DEF AnswersMatch
    <3>2. DecidedAs(file, CallKey[d], answer[d]) /\ BoundTo(file, CallKey[d], CallHash[d])
      BY <3>1 DEF DiskVouches
    <3>3. /\ \E i \in CompletedAt(file, CallKey[d]) : file[i].value = answer[d]
          /\ \E i \in AcceptedAt(file, CallKey[d]) : file[i].value = CallHash[d]
      BY <2>2, <3>2 DEF DecidedAs, BoundTo
    <3> QED
      BY <1>0, <2>2, <3>1, <3>3, LoadedFacts
  <2> QED
    BY <2>1, <2>2
<1>9. ASSUME NEW k \in Keys, Reconcile(k) PROVE AnswersMatch'
  <2>1. /\ UNCHANGED <<accepted, answer>> /\ completion' = [completion EXCEPT ![k] = Recovered(k)]
        /\ completion[k] = "none" /\ mode = "reconciling"
    BY <1>9 DEF Reconcile, Unreconciled
  <2> SUFFICES ASSUME NEW d \in Calls, answer'[d] \in Results
               PROVE  completion'[CallKey[d]] = answer'[d] /\ accepted'[CallKey[d]] = CallHash[d]
    BY DEF AnswersMatch
  <2>2. completion[CallKey[d]] = answer[d] /\ accepted[CallKey[d]] = CallHash[d]
    BY <2>1 DEF AnswersMatch
  <2> QED
    BY <1>0, <2>1, <2>2 DEF TypeOK
<1>10. ASSUME Serve \/ \E k \in Keys : ReconcileSkips(k) PROVE AnswersMatch'
  <2>1. UNCHANGED <<accepted, completion, answer>> /\ mode = "reconciling"
    BY <1>10 DEF Serve, ReconcileSkips, entries
  <2> QED
    BY <1>1, <2>1
<1>11. CASE UNCHANGED vars
  BY <1>11 DEF vars, AnswersMatch
<1> QED
  BY <1>2, <1>3, <1>4, <1>5, <1>6, <1>7, <1>8, <1>9, <1>10, <1>11 DEF Next, Step, Startup,
     Work, Failure

\* Only a daemon that serves answers.
LEMMA AnsweringIsServing ==
    ASSUME [Next]_vars, mode' \notin {"up", "reconciling"}
    PROVE  answer' = answer
<1>1. ASSUME NEW c \in Calls, Work(c) \/ Submit(c) \/ AcceptFails(c) \/ CompletionFails(c)
      PROVE  mode' = "up"
  BY <1>1 DEF Work, Effect, AcceptExisting, AcceptFresh, AcceptFails, CompletionFails,
     Dispatch, Submit,
              SendRecorded, SendPrepares, SendStarts, SendRefused, SendEnds, CompletionSynced, Settle
<1>2. ASSUME Startup \/ Crash \/ (\E k \in Keys : ReconcileDies(k)) \/ UNCHANGED vars
      PROVE  answer' = answer
  BY <1>2 DEF Startup, Open, Serve, ReconcileSkips, Reconcile, Crash, ReconcileDies, vars
<1> QED
  BY <1>1, <1>2 DEF Next, Step, Failure

\* One outcome per key, step by step.
LEMMA StableOutcomeStep ==
    ASSUME TypeOK, ResultsKnown, QueueMatches, MemoryMatches, DiskVouches, AnswersMatch, StableOutcome, [Next]_vars
    PROVE  StableOutcome'
<1>1. CASE mode' \in {"up", "reconciling"}
  <2>1. AnswersMatch'
    BY AnswersMatchStep
  <2> QED
    BY <1>1, <2>1 DEF AnswersMatch, StableOutcome
<1>2. CASE mode' \notin {"up", "reconciling"}
  BY <1>2, AnsweringIsServing DEF StableOutcome
<1> QED
  BY <1>1, <1>2

-----------------------------------------------------------------------------
(***************************************************************************)
(* The file stays whole.  A record fits the file when open() will take it: *)
(* the first acceptance of its key, or the first completion of a key that  *)
(* was accepted.                                                           *)
(***************************************************************************)
Fits(rec) ==
    /\ rec \in Records /\ rec.key \in Keys
    /\ rec.type = "accepted" => AcceptedAt(file, rec.key) = {}
    /\ rec.type = "completed" => CompletedAt(file, rec.key) = {} /\ AcceptedAt(file, rec.key) # {}

\* What the living process is about to append fits.
LEMMA HeadFits ==
    ASSUME TypeOK, ResultsKnown, SingleFlight, QueueMatches, MemoryMatches, DiskVouches, FileMatches,
           faults = 0, mode = "up", HeadWrites
    PROVE  Fits(HeadRecord)
<1> DEFINE c == Head(tail).call
<1> USE CallsAssumption
<1>1. /\ tail # <<>> /\ c \in Calls /\ CallKey[c] \in Keys /\ CallHash[c] # NoHash /\ CallMatches(c)
      /\ HeadRecord \in Records /\ Head(tail).op \in {"accept", "complete"}
      /\ Head(tail).op = "accept" => HeadRecord = Acceptance(c)
      /\ Head(tail).op = "complete" => HeadRecord = Completion(CallKey[c], result[c])
      /\ pc[c] = Waiting(Head(tail))
  BY HeadRecordFacts, HeadWaits DEF HeadWrites, MemoryMatches
<1> HIDE DEF c
<1>2. CASE Head(tail).op = "accept"
  <2>1. AcceptedAt(file, CallKey[c]) = {}
    BY <1>1, <1>2 DEF HeadWrites, FileMatches, c
  <2> QED
    BY <1>1, <1>2, <2>1 DEF Fits, Acceptance
<1>3. CASE Head(tail).op = "complete"
  <2>1. pc[c] = "completing" /\ accepted[CallKey[c]] = CallHash[c] /\ completion[CallKey[c]] = "none"
    BY <1>1, <1>3 DEF Waiting, CallMatches, Owning
  <2>2. AcceptedAt(file, CallKey[c]) # {}
    <3>1. BoundTo(file, CallKey[c], accepted[CallKey[c]])
      BY <1>1, <2>1 DEF DiskVouches
    <3> QED
      BY <3>1 DEF BoundTo, FileMatches
  <2>3. \A d \in Calls : CallKey[d] = CallKey[c] => pc[d] # "settling"
    BY <1>1, <2>1 DEF SingleFlight, Owning
  <2>4. CompletedAt(file, CallKey[c]) = {}
    BY <1>1, <2>1, <2>3 DEF FileMatches
  <2> QED
    BY <1>1, <1>3, <2>2, <2>4 DEF Fits, Completion
<1> QED
  BY <1>1, <1>2, <1>3

\* What startup appends fits too.
LEMMA RecoveredFits ==
    ASSUME TypeOK, MemoryMatches, DiskVouches, FileMatches, faults = 0,
           mode = "reconciling", NEW k \in Keys, NextUp(k), Unreconciled(k)
    PROVE  /\ Fits(Completion(k, Recovered(k))) /\ Recovered(k) \in Results
           /\ Completion(k, Recovered(k)).type = "completed" /\ Completion(k, Recovered(k)).key = k
<1>1. Recovered(k) \in Results
  BY DEF Unreconciled, Recovered, Results, TypeOK
<1>2. AcceptedAt(file, k) # {}
  <2>1. accepted[k] # NoHash
    BY DEF NextUp, MemoryMatches, KeyMatches
  <2> QED
    BY <2>1 DEF DiskVouches, BoundTo, FileMatches
<1>3. \A d \in Calls : pc[d] # "settling"
  BY DEF MemoryMatches, CallMatches, InFlight, Owning
<1>4. CompletedAt(file, k) = {}
  BY <1>3 DEF FileMatches, Unreconciled
<1> QED
  BY <1>1, <1>2, <1>4, RecordTypes DEF Fits, Completion

\* A record that fits leaves a file open() takes, however far the append gets.
LEMMA FittingAppend ==
    ASSUME TypeOK, Readable(file), ~torn, NEW rec, Fits(rec), AppendInterrupted(rec)
    PROVE  /\ Readable(file')
           /\ file' = file \/ file' = Append(file, rec)
<1>1. file' = file \/ file' = Append(file, rec)
  BY DEF AppendInterrupted, AppendWhole, disk
<1>2. Readable(Append(file, rec))
  BY ReadableGrows DEF Fits, TypeOK
<1> QED
  BY <1>1, <1>2

\* What one more record adds to the positions of each key.
LEMMA AppendedAt ==
    ASSUME TypeOK, NEW rec, Fits(rec), file' = Append(file, rec)
    PROVE  /\ \A k : AcceptedAt(file', k) # {} => AcceptedAt(file, k) # {} \/ (rec.type = "accepted" /\ rec.key = k)
           /\ \A k : CompletedAt(file', k) # {} => CompletedAt(file, k) # {} \/ (rec.type = "completed" /\ rec.key = k)
<1>1. file \in Seq(Lines) /\ rec \in Lines
  BY RecordsAreLines DEF TypeOK, Fits
<1> QED
  BY <1>1, LineFacts

\* The file is whole, and says no more than the entries, after every step.
LEMMA FileMatchesStep ==
    ASSUME TypeOK, ResultsKnown, SingleFlight, QueueMatches, MemoryMatches, DiskVouches, FileMatches, [Next]_vars
    PROVE  FileMatches'
<1> USE CallsAssumption
<1> SUFFICES ASSUME faults' = 0
             PROVE  /\ Readable(file')
                    /\ torn' => mode' = "down"
                    /\ \A k \in Keys : mode' \in {"up", "reconciling"} =>
                         /\ AcceptedAt(file', k) # {} => accepted'[k] # NoHash
                         /\ CompletedAt(file', k) # {} =>
                              completion'[k] # "none" \/ \E c \in Calls : CallKey[c] = k /\ pc'[c] = "settling"
  BY DEF FileMatches
<1> DEFINE Goal == /\ Readable(file')
                   /\ torn' => mode' = "down"
                   /\ \A k \in Keys : mode' \in {"up", "reconciling"} =>
                         /\ AcceptedAt(file', k) # {} => accepted'[k] # NoHash
                         /\ CompletedAt(file', k) # {} =>
                              completion'[k] # "none" \/ \E c \in Calls : CallKey[c] = k /\ pc'[c] = "settling"
<1>0. \A c \in Calls : CallKey[c] \in Keys /\ CallHash[c] \in Hashes /\ CallHash[c] # NoHash /\ CallMatches(c)
  BY DEF MemoryMatches
<1>1. ASSUME faults = 0, UNCHANGED <<file, accepted, completion>>, torn' => torn, mode \in {"up", "reconciling"},
             mode' \in {"up", "reconciling"},
             \A c \in Calls : pc[c] = "settling" => pc'[c] = "settling"
      PROVE  Goal
  BY <1>1 DEF FileMatches
<1>2. ASSUME NEW c \in Calls, Submit(c) \/ AcceptExisting(c) \/ Dispatch(c) \/ Effect(c) PROVE Goal
  <2>1. /\ faults = 0 /\ UNCHANGED <<file, torn, accepted, completion, mode>> /\ mode = "up"
    BY <1>2 DEF Submit, AcceptExisting, Dispatch, Effect, SendRecorded, SendPrepares,
       SendStarts,
       SendRefused, SendEnds,
                disk, entries, budget
  <2>2. pc[c] \in {"idle", "accepted", "effect", "preparing", "executing", "accepting"}
    <3>1. CASE AcceptExisting(c)
      BY <3>1, HeadWaits DEF AcceptExisting, Waiting
    <3> QED
      BY <1>2, <3>1 DEF Submit, Dispatch, Effect, SendRecorded, SendPrepares, SendStarts,
         SendRefused,
         SendEnds
  <2>3. \A d \in Calls : d # c => pc'[d] = pc[d]
    BY <1>2 DEF Submit, AcceptExisting, Dispatch, Effect, SendRecorded, SendPrepares,
       SendStarts,
       SendRefused, SendEnds,
                Finish, Tell, TypeOK
  <2>4. \A d \in Calls : pc[d] = "settling" => pc'[d] = "settling"
    BY <2>2, <2>3
  <2> QED
    BY <1>1, <2>1, <2>4
<1>3. ASSUME NEW c \in Calls, AcceptFails(c) \/ CompletionFails(c) PROVE Goal
  BY <1>3 DEF AcceptFails, CompletionFails, TypeOK
<1>4. ASSUME NEW c \in Calls, AcceptFresh(c) PROVE Goal
  <2>1. /\ faults = 0 /\ mode = "up" /\ mode' = "up" /\ tail # <<>> /\ Head(tail).op = "accept" /\ Head(tail).call = c
        /\ AppendWhole(Acceptance(c)) /\ accepted' = [accepted EXCEPT ![CallKey[c]] = CallHash[c]]
        /\ pc' = [pc EXCEPT ![c] = "accepted"] /\ completion' = completion /\ accepted[CallKey[c]] = NoHash
    BY <1>4 DEF AcceptFresh, budget
  <2>2. Fits(Acceptance(c)) /\ pc[c] = "accepting"
    BY <2>1, HeadFits, HeadWaits DEF HeadWrites, HeadRecord, Waiting
  <2>3. Readable(file) /\ ~torn
    BY <2>1 DEF FileMatches
  <2>4. Readable(file') /\ file' = Append(file, Acceptance(c)) /\ ~torn'
    BY <2>1, <2>2, <2>3, FittingAppend DEF AppendInterrupted, AppendWhole
  <2>5. /\ \A k : AcceptedAt(file', k) # {} => AcceptedAt(file, k) # {} \/ CallKey[c] = k
        /\ \A k : CompletedAt(file', k) # {} => CompletedAt(file, k) # {}
    BY <2>2, <2>4, AppendedAt DEF Acceptance
  <2>6. \A d \in Calls : pc[d] = "settling" => pc'[d] = "settling"
    BY <2>1, <2>2 DEF TypeOK
  <2>7. ASSUME NEW k \in Keys
        PROVE  /\ AcceptedAt(file', k) # {} => accepted'[k] # NoHash
               /\ CompletedAt(file', k) # {} =>
                    completion'[k] # "none" \/ \E d \in Calls : CallKey[d] = k /\ pc'[d] = "settling"
    <3>1. /\ AcceptedAt(file, k) # {} => accepted[k] # NoHash
          /\ CompletedAt(file, k) # {} =>
               completion[k] # "none" \/ \E d \in Calls : CallKey[d] = k /\ pc[d] = "settling"
      BY <2>1 DEF FileMatches
    <3>2. accepted'[k] = IF k = CallKey[c] THEN CallHash[c] ELSE accepted[k]
      BY <1>0, <2>1 DEF TypeOK
    <3>3. AcceptedAt(file', k) # {} => accepted'[k] # NoHash
      BY <1>0, <2>5, <3>1, <3>2
    <3>4. CompletedAt(file', k) # {} =>
            completion'[k] # "none" \/ \E d \in Calls : CallKey[d] = k /\ pc'[d] = "settling"
      BY <2>1, <2>5, <2>6, <3>1
    <3> QED
      BY <3>3, <3>4
  <2> QED
    BY <2>4, <2>7
<1>5. ASSUME NEW c \in Calls, CompletionSynced(c) PROVE Goal
  <2>1. /\ faults = 0 /\ mode = "up" /\ mode' = "up" /\ tail # <<>> /\ Head(tail).op = "complete"
        /\ Head(tail).call = c /\ AppendWhole(HeadRecord) /\ UNCHANGED <<accepted, completion>>
        /\ pc' = [pc EXCEPT ![c] = "settling"]
    BY <1>5 DEF CompletionSynced, budget, entries
  <2>2. Fits(HeadRecord) /\ HeadRecord = Completion(CallKey[c], result[c])
    BY <2>1, HeadFits DEF HeadWrites, HeadRecord
  <2>3. Readable(file) /\ ~torn
    BY <2>1 DEF FileMatches
  <2>4. Readable(file') /\ file' = Append(file, HeadRecord) /\ ~torn'
    BY <2>1, <2>2, <2>3, FittingAppend DEF AppendInterrupted, AppendWhole
  <2>5. HeadRecord.type = "completed" /\ HeadRecord.key = CallKey[c]
    BY <2>2 DEF Completion
  <2>6. /\ \A k : AcceptedAt(file', k) # {} => AcceptedAt(file, k) # {}
        /\ \A k : CompletedAt(file', k) # {} => CompletedAt(file, k) # {} \/ CallKey[c] = k
    BY <2>2, <2>4, <2>5, AppendedAt
  <2>7. pc'[c] = "settling" /\ \A d \in Calls : pc[d] = "settling" => pc'[d] = "settling"
    BY <2>1 DEF TypeOK
  <2>8. ASSUME NEW k \in Keys
        PROVE  /\ AcceptedAt(file', k) # {} => accepted'[k] # NoHash
               /\ CompletedAt(file', k) # {} =>
                    completion'[k] # "none" \/ \E d \in Calls : CallKey[d] = k /\ pc'[d] = "settling"
    <3>1. /\ AcceptedAt(file, k) # {} => accepted[k] # NoHash
          /\ CompletedAt(file, k) # {} =>
               completion[k] # "none" \/ \E d \in Calls : CallKey[d] = k /\ pc[d] = "settling"
      BY <2>1 DEF FileMatches
    <3> QED
      BY <2>1, <2>6, <2>7, <3>1
  <2> QED
    BY <2>4, <2>8
<1>6. ASSUME NEW c \in Calls, Settle(c) PROVE Goal
  <2>1. /\ completion' = [completion EXCEPT ![CallKey[c]] = result[c]] /\ pc[c] = "settling"
        /\ UNCHANGED <<file, torn, accepted, mode>> /\ Tell(Sharing(c), result[c]) /\ mode = "up" /\ faults = 0
        /\ result[c] # "none"
    BY <1>6 DEF Settle, ResultsKnown, Results, disk, budget
  <2>2. \A d \in Calls : pc[d] = "settling" /\ CallKey[d] # CallKey[c] => pc'[d] = "settling"
    BY <2>1 DEF Tell, Sharing
  <2>3. completion'[CallKey[c]] # "none" /\ \A k \in Keys : k # CallKey[c] => completion'[k] = completion[k]
    BY <1>0, <2>1 DEF TypeOK
  <2> QED
    BY <2>1, <2>2, <2>3 DEF FileMatches
<1>7. ASSUME Crash PROVE Goal
  <2>1. faults = 0 /\ mode = "up" /\ mode' = "down" /\ Readable(file) /\ ~torn
    BY <1>7 DEF Crash, ForgetMemory, FileMatches
  <2>2. Readable(file')
    <3>1. CASE HeadWrites
      BY <1>7, <2>1, <3>1, HeadFits, FittingAppend DEF Crash
    <3>2. CASE ~HeadWrites
      BY <1>7, <2>1, <3>2 DEF Crash, disk
    <3> QED
      BY <3>1, <3>2
  <2> QED
    BY <2>1, <2>2
<1>8. ASSUME NEW k \in Keys, ReconcileDies(k) PROVE Goal
  <2>1. faults = 0 /\ mode = "reconciling" /\ mode' = "down" /\ Readable(file) /\ ~torn
    BY <1>8 DEF ReconcileDies, ForgetMemory, FileMatches
  <2>2. Fits(Completion(k, Recovered(k)))
    BY <1>8, <2>1, RecoveredFits DEF ReconcileDies
  <2>3. Readable(file')
    BY <1>8, <2>1, <2>2, FittingAppend DEF ReconcileDies, disk
  <2> QED
    BY <2>1, <2>3
<1>9. ASSUME NEW k \in Keys, Reconcile(k) PROVE Goal
  <2> DEFINE rec == Completion(k, Recovered(k))
  <2>1. /\ faults = 0 /\ mode = "reconciling" /\ mode' = mode /\ AppendWhole(rec)
        /\ UNCHANGED <<accepted, pc>> /\ completion' = [completion EXCEPT ![k] = Recovered(k)]
    BY <1>9 DEF Reconcile, budget
  <2>2. Fits(rec) /\ Recovered(k) \in Results /\ rec.type = "completed" /\ rec.key = k
    BY <1>9, <2>1, RecoveredFits DEF Reconcile
  <2> HIDE DEF rec
  <2>3. Readable(file) /\ ~torn
    BY <2>1 DEF FileMatches
  <2>4. Readable(file') /\ file' = Append(file, rec) /\ ~torn'
    BY <2>1, <2>2, <2>3, FittingAppend DEF AppendInterrupted, AppendWhole
  <2>5. /\ \A j : AcceptedAt(file', j) # {} => AcceptedAt(file, j) # {}
        /\ \A j : CompletedAt(file', j) # {} => CompletedAt(file, j) # {} \/ k = j
    BY <2>2, <2>4, AppendedAt
  <2>6. completion'[k] # "none" /\ \A j \in Keys : j # k => completion'[j] = completion[j]
    BY <2>1, <2>2 DEF TypeOK, Results
  <2>7. ASSUME NEW j \in Keys
        PROVE  /\ AcceptedAt(file', j) # {} => accepted'[j] # NoHash
               /\ CompletedAt(file', j) # {} =>
                    completion'[j] # "none" \/ \E d \in Calls : CallKey[d] = j /\ pc'[d] = "settling"
    <3>1. /\ AcceptedAt(file, j) # {} => accepted[j] # NoHash
          /\ CompletedAt(file, j) # {} =>
               completion[j] # "none" \/ \E d \in Calls : CallKey[d] = j /\ pc[d] = "settling"
      BY <2>1 DEF FileMatches
    <3> QED
      BY <2>1, <2>5, <2>6, <3>1
  <2> QED
    BY <2>4, <2>7
<1>10. ASSUME Open PROVE Goal
  <2>1. faults = 0 /\ file' = file /\ ~torn' /\ Readable(file)
    BY <1>10 DEF Open, budget, FileMatches
  <2>2. \A k \in Keys : accepted'[k] = LoadedHash(file, k) /\ completion'[k] = LoadedResult(file, k)
    BY <1>10, <2>1 DEF Open
  <2>3. \A k \in Keys : /\ AcceptedAt(file, k) # {} => LoadedHash(file, k) \in Hashes
                        /\ CompletedAt(file, k) # {} => LoadedResult(file, k) \in Results
    BY LoadedTypes DEF TypeOK
  <2>4. \A k \in Keys : /\ AcceptedAt(file, k) # {} => accepted'[k] # NoHash
                        /\ CompletedAt(file, k) # {} => completion'[k] # "none"
    BY <2>2, <2>3 DEF Results
  <2> QED
    BY <2>1, <2>4
<1>11. ASSUME Serve \/ \E k \in Keys : ReconcileSkips(k) PROVE Goal
  BY <1>1, <1>11 DEF Serve, ReconcileSkips, disk, entries, budget
<1>12. ASSUME UNCHANGED vars PROVE Goal
  BY <1>12 DEF vars, FileMatches
<1> HIDE DEF Goal
<1>13. Goal
  BY <1>2, <1>3, <1>4, <1>5, <1>6, <1>7, <1>8, <1>9, <1>10, <1>11, <1>12
     DEF Next, Step, Startup, Work, Failure
<1> QED
  BY <1>13 DEF Goal

-----------------------------------------------------------------------------
\* The invariant holds initially and is kept by every step.
LEMMA JournalInvariance == Spec => []JournalInv
<1>1. Init => MemoryMatches /\ DiskVouches /\ AnswersMatch /\ FileMatches /\ StableOutcome
  <2> SUFFICES ASSUME Init
               PROVE  MemoryMatches /\ DiskVouches /\ AnswersMatch /\ FileMatches /\ StableOutcome
    OBVIOUS
  <2> USE CallsAssumption
  <2>1. file = <<>> /\ DOMAIN file = {} /\ "none" \notin Results
    BY EmptySeq DEF Init, Results
  <2>2. MemoryMatches
    BY DEF Init, MemoryMatches, CallMatches, KeyMatches, InFlight, Owning
  <2>3. DiskVouches
    BY <2>1 DEF Init, DiskVouches
  <2>4. AnswersMatch /\ StableOutcome
    BY <2>1 DEF Init, AnswersMatch, StableOutcome
  <2>5. FileMatches
    BY <2>1 DEF Init, FileMatches, Readable, AcceptedAt, CompletedAt
  <2> QED
    BY <2>2, <2>3, <2>4, <2>5
<1>2. Init => TypeOK /\ ResultsKnown
  BY InitTypes
<1>3. Init => SingleFlight /\ QueueMatches
  BY EmptySeq DEF Init, SingleFlight, QueueMatches, Owning
<1>4. Init => JournalInv
  BY <1>1, <1>2, <1>3 DEF JournalInv
<1>5. JournalInv /\ [Next]_vars => JournalInv'
  BY TypeStep, ResultsKnownStep, SingleFlightStep, QueueMatchesStep, MemoryMatchesStep,
     DiskVouchesStep,
     AnswersMatchStep, FileMatchesStep, StableOutcomeStep DEF JournalInv
<1> QED
  BY <1>4, <1>5, PTL DEF Spec

\* Whatever retries, crashes, failed appends and reconciliations come between, callers
\* told an outcome under one key were told the same outcome of the same request.
THEOREM JournalStableOutcome == Spec => []StableOutcome
<1>1. JournalInv => StableOutcome
  BY DEF JournalInv
<1> QED
  BY <1>1, JournalInvariance, PTL

\* As long as every append of the living process succeeds, open() takes the journal
\* after any crash: no key is accepted or completed twice, none completed unaccepted.
THEOREM JournalStaysReadable == Spec => []JournalReadable
<1>1. JournalInv => JournalReadable
  BY DEF JournalInv, FileMatches, JournalReadable
<1> QED
  BY <1>1, JournalInvariance, PTL

-----------------------------------------------------------------------------
(***************************************************************************)
(* The journal implements IdempotentCommands: what open() would load from  *)
(* the file is the promise's state.                                        *)
(***************************************************************************)
BoundOnDisk == [k \in Keys |-> LoadedHash(file, k)]
OutcomeOnDisk == [k \in Keys |-> LoadedResult(file, k)]

\* Reading a whole file gives what the entries hold and what a call is about to publish.
LEMMA DiskIsMemory ==
    ASSUME Readable(file), DiskVouches, CallKey \in [Calls -> Keys]
    PROVE  /\ \A k \in Keys : /\ accepted[k] # NoHash => BoundOnDisk[k] = accepted[k]
                              /\ completion[k] # "none" => OutcomeOnDisk[k] = completion[k]
           /\ \A c \in Calls : pc[c] = "settling" => OutcomeOnDisk[CallKey[c]] = result[c]
<1>1. /\ \A k \in Keys : \A h : BoundTo(file, k, h) => BoundOnDisk[k] = h
      /\ \A k \in Keys : \A r : DecidedAs(file, k, r) => OutcomeOnDisk[k] = r
  BY LoadedFacts DEF BoundTo, DecidedAs, BoundOnDisk, OutcomeOnDisk
<1> QED
  BY <1>1 DEF DiskVouches

\* A whole record that fits binds a free key or decides an undecided one.
LEMMA AppendKeepsPromise ==
    ASSUME TypeOK, Readable(file), Readable(file'), NEW rec, Fits(rec), file' = Append(file, rec),
           answer' = answer
    PROVE  Promise!Next
<1> DEFINE k == rec.key  v == rec.value
<1>1. /\ file \in Seq(Lines) /\ rec \in Lines /\ k \in Keys
      /\ (rec.type = "accepted" /\ v \in Hashes) \/ (rec.type = "completed" /\ v \in Results)
  <2>1. rec \in Records /\ file \in Seq(Lines) /\ k \in Keys
    BY DEF TypeOK, Fits
  <2>2. (rec.type = "accepted" /\ v \in Hashes) \/ (rec.type = "completed" /\ v \in Results)
    BY <2>1 DEF Records
  <2> QED
    BY <2>1, <2>2, RecordsAreLines
<1>loaded. ASSUME NEW f \in {file, file'}, NEW j \in Keys
      PROVE  /\ \A i \in AcceptedAt(f, j) : LoadedHash(f, j) = f[i].value
             /\ \A i \in CompletedAt(f, j) : LoadedResult(f, j) = f[i].value
  <2>1. Readable(f)
    OBVIOUS
  <2> QED
    BY <2>1, LoadedFacts
<1>2. /\ \A j : AcceptedAt(file', j) =
                  AcceptedAt(file, j) \cup (IF rec.type = "accepted" /\ k = j THEN {Len(file) + 1} ELSE {})
      /\ \A j : CompletedAt(file', j) =
                  CompletedAt(file, j) \cup (IF rec.type = "completed" /\ k = j THEN {Len(file) + 1} ELSE {})
      /\ file'[Len(file) + 1] = rec /\ \A i \in DOMAIN file : file'[i] = file[i]
  BY <1>1, LineFacts
<1>3. ASSUME NEW j \in Keys, ~(rec.type = "accepted" /\ k = j)
      PROVE  LoadedHash(file', j) = LoadedHash(file, j)
  <2>1. AcceptedAt(file', j) = AcceptedAt(file, j)
    BY <1>2, <1>3
  <2>2. CASE AcceptedAt(file, j) = {}
    BY <2>1, <2>2 DEF LoadedHash
  <2>3. ASSUME NEW i \in AcceptedAt(file, j)
        PROVE  LoadedHash(file', j) = LoadedHash(file, j)
    <3>1. i \in DOMAIN file /\ i \in AcceptedAt(file', j)
      BY <2>1 DEF AcceptedAt
    <3> QED
      BY <1>2, <1>loaded, <3>1
  <2> QED
    BY <2>2, <2>3
<1>4. ASSUME NEW j \in Keys, ~(rec.type = "completed" /\ k = j)
      PROVE  LoadedResult(file', j) = LoadedResult(file, j)
  <2>1. CompletedAt(file', j) = CompletedAt(file, j)
    BY <1>2, <1>4
  <2>2. CASE CompletedAt(file, j) = {}
    BY <2>1, <2>2 DEF LoadedResult
  <2>3. ASSUME NEW i \in CompletedAt(file, j)
        PROVE  LoadedResult(file', j) = LoadedResult(file, j)
    <3>1. i \in DOMAIN file /\ i \in CompletedAt(file', j)
      BY <2>1 DEF CompletedAt
    <3> QED
      BY <1>2, <1>loaded, <3>1
  <2> QED
    BY <2>2, <2>3
<1>5. CASE rec.type = "accepted" /\ v \in Hashes
  <2>1. LoadedHash(file, k) = NoHash
    BY <1>5 DEF Fits, LoadedHash
  <2>2. LoadedHash(file', k) = v
    <3>1. Len(file) + 1 \in AcceptedAt(file', k)
      BY <1>2, <1>5
    <3> QED
      BY <1>1, <1>2, <1>loaded, <3>1
  <2>3. BoundOnDisk' = [BoundOnDisk EXCEPT ![k] = v] /\ OutcomeOnDisk' = OutcomeOnDisk /\ BoundOnDisk[k] = NoHash
    BY <1>1, <1>3, <1>4, <1>5, <2>1, <2>2 DEF BoundOnDisk, OutcomeOnDisk
  <2>4. Promise!Bind(k, v)
    BY <2>3 DEF Promise!Bind, BoundOnDisk, OutcomeOnDisk
  <2> QED
    BY <1>1, <1>5, <2>4 DEF Promise!Next
<1>6. CASE rec.type = "completed" /\ v \in Results
  <2>1. LoadedResult(file, k) = "none" /\ AcceptedAt(file, k) # {}
    BY <1>6 DEF Fits, LoadedResult
  <2>2. LoadedHash(file, k) # NoHash
    BY <1>1, <2>1, LoadedTypes, CallsAssumption
  <2>3. LoadedResult(file', k) = v
    <3>1. Len(file) + 1 \in CompletedAt(file', k)
      BY <1>2, <1>6
    <3> QED
      BY <1>1, <1>2, <1>loaded, <3>1
  <2>4. /\ OutcomeOnDisk' = [OutcomeOnDisk EXCEPT ![k] = v] /\ BoundOnDisk' = BoundOnDisk
        /\ BoundOnDisk[k] # NoHash /\ OutcomeOnDisk[k] = "none"
    BY <1>1, <1>3, <1>4, <1>6, <2>1, <2>2, <2>3 DEF BoundOnDisk, OutcomeOnDisk
  <2>5. Promise!Decide(k, v)
    BY <2>4 DEF Promise!Decide, BoundOnDisk, OutcomeOnDisk
  <2> QED
    BY <1>1, <1>6, <2>5 DEF Promise!Next
<1> QED
  BY <1>1, <1>5, <1>6

\* Answers that agree with the file keep the promise.
LEMMA AnswerKeepsPromise ==
    ASSUME TypeOK, file' = file, NEW cs \in SUBSET Calls, NEW a, Tell(cs, a),
           \A c \in cs : /\ answer[c] = "none"
                         /\ \/ a = "io_error"
                            \/ a \in Results /\ OutcomeOnDisk[CallKey[c]] = a /\ BoundOnDisk[CallKey[c]] = CallHash[c]
                            \/ a = "conflict" /\ BoundOnDisk[CallKey[c]] \notin {NoHash, CallHash[c]}
    PROVE  Promise!Next
<1>1. /\ \A c \in cs : answer'[c] = a
      /\ answer' = [c \in Calls |-> IF c \in cs THEN answer'[c] ELSE answer[c]]
  BY DEF Tell
<1>2. \A c \in cs : answer'[c] \in Promise!MayTell(c)
  BY <1>1 DEF Promise!MayTell, BoundOnDisk, OutcomeOnDisk
<1>3. Promise!Answer(cs)
  BY <1>1, <1>2 DEF Promise!Answer
<1> QED
  BY <1>3 DEF Promise!Next

\* A step keeps the promise, or is none of the promise's business.
LEMMA PromiseStep ==
    ASSUME JournalInv, [Next]_vars, faults' = 0
    PROVE  \/ Promise!Next
           \/ UNCHANGED <<[k \in Keys |-> LoadedHash(file, k)], [k \in Keys |-> LoadedResult(file, k)], answer>>
<1> DEFINE Kept == Promise!Next
           Same == UNCHANGED <<[k \in Keys |-> LoadedHash(file, k)], [k \in Keys |-> LoadedResult(file, k)], answer>>
<1> USE CallsAssumption
<1>0. /\ TypeOK /\ ResultsKnown /\ SingleFlight /\ QueueMatches
      /\ MemoryMatches /\ DiskVouches /\ AnswersMatch /\ FileMatches
      /\ \A c \in Calls : CallMatches(c) /\ CallKey[c] \in Keys /\ CallHash[c] # NoHash
  BY DEF JournalInv, MemoryMatches
<1>1. file' = file /\ answer' = answer => Same
  OBVIOUS
<1>2. ASSUME faults = 0
      PROVE  Readable(file) /\ (torn => mode = "down")
  BY <1>0, <1>2 DEF FileMatches
<1>3. ASSUME faults = 0, ~torn, NEW rec, Fits(rec), AppendInterrupted(rec), answer' = answer
      PROVE  Kept \/ Same
  <2>1. Readable(file)
    BY <1>2, <1>3
  <2>2. Readable(file') /\ (file' = file \/ file' = Append(file, rec))
    BY <1>0, <1>3, <2>1, FittingAppend
  <2>3. CASE file' = file
    BY <1>1, <1>3, <2>3
  <2>4. CASE file' = Append(file, rec)
    BY <1>0, <1>3, <2>1, <2>2, <2>4, AppendKeepsPromise
  <2> QED
    BY <2>2, <2>3, <2>4
<1>4. ASSUME NEW c \in Calls, Submit(c) \/ Effect(c) PROVE Same
  <2>1. file' = file /\ answer' = answer
    BY <1>4 DEF Submit, Effect, SendRecorded, SendPrepares, SendStarts, SendRefused,
       SendEnds, disk
  <2> QED
    BY <1>1, <2>1
<1>5. ASSUME NEW c \in Calls, AcceptFails(c) \/ CompletionFails(c) PROVE Kept
  BY <1>0, <1>5 DEF AcceptFails, CompletionFails, TypeOK
<1>6. ASSUME NEW c \in Calls, AcceptFresh(c) \/ CompletionSynced(c) PROVE Kept \/ Same
  <2>1. faults = 0 /\ mode = "up" /\ answer' = answer /\ HeadWrites /\ AppendInterrupted(HeadRecord)
    BY <1>6 DEF AcceptFresh, CompletionSynced, budget, HeadWrites, HeadRecord,
       AppendInterrupted
  <2>2. Fits(HeadRecord) /\ ~torn
    BY <1>0, <1>2, <2>1, HeadFits
  <2> QED
    BY <1>3, <2>1, <2>2
<1>7. ASSUME NEW c \in Calls, AcceptExisting(c) PROVE Kept \/ Same
  <2>1. /\ faults = 0 /\ file' = file /\ accepted[CallKey[c]] # NoHash /\ pc[c] = "accepting"
        /\ answer' = answer \/ (Tell({c}, "conflict") /\ accepted[CallKey[c]] # CallHash[c])
    BY <1>0, <1>7, HeadWaits DEF AcceptExisting, budget, disk, Waiting, SameRequest
  <2>2. CASE answer' = answer
    BY <1>1, <2>1, <2>2
  <2>3. CASE Tell({c}, "conflict") /\ accepted[CallKey[c]] # CallHash[c]
    <3>1. answer[c] = "none"
      BY <1>0, <2>1 DEF CallMatches, InFlight
    <3>2. BoundOnDisk[CallKey[c]] = accepted[CallKey[c]]
      BY <1>0, <1>2, <2>1, DiskIsMemory
    <3>3. {c} \in SUBSET Calls
      OBVIOUS
    <3> QED
      BY <1>0, <2>1, <2>3, <3>1, <3>2, <3>3, AnswerKeepsPromise
  <2> QED
    BY <2>1, <2>2, <2>3
<1>8. ASSUME NEW c \in Calls, Dispatch(c) PROVE Kept \/ Same
  <2> DEFINE k == CallKey[c]
  <2>1. /\ faults = 0 /\ file' = file /\ pc[c] = "accepted" /\ k \in Keys
        /\ answer' = answer \/ (Tell({c}, completion[k]) /\ completion[k] # "none")
    BY <1>0, <1>8 DEF Dispatch, budget, disk, Replayed
  <2>2. CASE answer' = answer
    BY <1>1, <2>1, <2>2
  <2>3. CASE Tell({c}, completion[k]) /\ completion[k] # "none"
    <3>1. answer[c] = "none" /\ accepted[k] = CallHash[c] /\ completion[k] \in Results
      BY <1>0, <2>1, <2>3 DEF CallMatches, InFlight, TypeOK
    <3>2. BoundOnDisk[k] = CallHash[c] /\ OutcomeOnDisk[k] = completion[k]
      BY <1>0, <1>2, <2>1, <2>3, <3>1, DiskIsMemory
    <3>3. {c} \in SUBSET Calls
      OBVIOUS
    <3> QED
      BY <1>0, <2>1, <2>3, <3>1, <3>2, <3>3, AnswerKeepsPromise
  <2> QED
    BY <2>1, <2>2, <2>3
<1>9. ASSUME NEW c \in Calls, Settle(c) PROVE Kept
  <2>1. /\ faults = 0 /\ file' = file /\ pc[c] = "settling" /\ Tell(Sharing(c), result[c])
        /\ result[c] \in Results /\ Sharing(c) \in SUBSET Calls
    BY <1>0, <1>9 DEF Settle, budget, disk, ResultsKnown, Sharing
  <2>2. ASSUME NEW d \in Sharing(c)
        PROVE  /\ answer[d] = "none" /\ OutcomeOnDisk[CallKey[d]] = result[c]
               /\ BoundOnDisk[CallKey[d]] = CallHash[d]
    <3>1. d \in Calls /\ CallKey[d] = CallKey[c] /\ pc[d] \in {"settling", "joined"}
      BY <2>1 DEF Sharing
    <3>2. answer[d] = "none" /\ accepted[CallKey[d]] = CallHash[d]
      BY <1>0, <3>1 DEF CallMatches, InFlight, Owning
    <3> QED
      BY <1>0, <1>2, <2>1, <3>1, <3>2, DiskIsMemory
  <2> QED
    BY <1>0, <2>1, <2>2, AnswerKeepsPromise
<1>10. ASSUME Crash PROVE Kept \/ Same
  <2>1. faults = 0 /\ mode = "up" /\ answer' = answer
    BY <1>10 DEF Crash
  <2>2. CASE HeadWrites
    <3>1. Fits(HeadRecord) /\ ~torn /\ AppendInterrupted(HeadRecord)
      BY <1>0, <1>2, <1>10, <2>1, <2>2, HeadFits DEF Crash
    <3> QED
      BY <1>3, <2>1, <3>1
  <2>3. CASE ~HeadWrites
    BY <1>1, <1>10, <2>1, <2>3 DEF Crash, disk
  <2> QED
    BY <2>2, <2>3
<1>11. ASSUME NEW k \in Keys, Reconcile(k) \/ ReconcileDies(k) PROVE Kept \/ Same
  <2> DEFINE rec == Completion(k, Recovered(k))
  <2>1. /\ faults = 0 /\ mode = "reconciling" /\ answer' = answer
        /\ file' = file \/ AppendInterrupted(rec)
    BY <1>11 DEF Reconcile, ReconcileDies, budget, disk, AppendInterrupted
  <2>2. Fits(rec) /\ ~torn
    BY <1>0, <1>2, <1>11, <2>1, RecoveredFits DEF Reconcile, ReconcileDies
  <2> HIDE DEF rec
  <2> QED
    BY <1>1, <1>3, <2>1, <2>2
<1>12. ASSUME Open \/ Serve \/ (\E k \in Keys : ReconcileSkips(k)) \/ UNCHANGED vars PROVE Same
  <2>1. file' = file /\ answer' = answer
    BY <1>12 DEF Open, Serve, ReconcileSkips, vars, disk
  <2> QED
    BY <1>1, <2>1
<1> HIDE DEF Kept, Same
<1>13. Kept \/ Same
  BY <1>4, <1>5, <1>6, <1>7, <1>8, <1>9, <1>10, <1>11, <1>12
     DEF Next, Step, Startup, Work, Failure
<1> QED
  BY <1>13 DEF Kept, Same

\* The journal keeps the promise made to retrying clients: for any keys, requests,
\* calls and crashes, and until the first failed append, keys are bound once, decided
\* once, and every answer is the outcome, a conflict or an error.
THEOREM JournalImplements == Spec => ImplementsIdempotentCommands
<1>1. Init => Promise!Init
  <2> SUFFICES ASSUME Init PROVE Promise!Init
    OBVIOUS
  <2>1. file = <<>> /\ DOMAIN file = {}
    BY EmptySeq DEF Init
  <2>2. \A k \in Keys : LoadedHash(file, k) = NoHash /\ LoadedResult(file, k) = "none"
    BY <2>1 DEF LoadedHash, LoadedResult, AcceptedAt, CompletedAt
  <2> QED
    BY <2>2 DEF Init, Promise!Init
<1>2. JournalInv /\ [Next]_vars =>
        [(faults = 0)' => Promise!Next]_<<[k \in Keys |-> LoadedHash(file, k)],
                                          [k \in Keys |-> LoadedResult(file, k)], answer>>
  BY PromiseStep
<1> QED
  BY <1>1, <1>2, JournalInvariance, PTL DEF Spec, ImplementsIdempotentCommands, Promise!Spec

=============================================================================

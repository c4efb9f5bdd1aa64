--------------------------- MODULE CommandJournal ---------------------------
(***************************************************************************)
(* The daemon's durable command journal                                    *)
(* (packages/daemon/src/command-journal.ts): every retryable mutation is   *)
(* accepted on disk under its idempotency key, its effect is run at most   *)
(* once at a time, its outcome is recorded, and retries, restarts and      *)
(* reconciliation answer from the record.                                  *)
(*                                                                         *)
(* A call is one RPC that reaches execute(); retries of a request are      *)
(* further calls with the same key and hash.  The effect is session.send,  *)
(* the method with the richest canonical evidence: a user message starts   *)
(* it and a terminal assistant message ends it.                            *)
(***************************************************************************)
EXTENDS Integers, Sequences

CONSTANTS Keys,        \* idempotency keys
          Hashes,      \* digests of method and parameters
          Calls,       \* RPCs the clients issue, retries included
          CallKey,     \* the key a call carries
          CallHash,    \* the digest of the request a call carries
          NoHash,      \* "no acceptance for this key"
          MaxCrashes,  \* bound on daemon crashes
          MaxFaults    \* bound on failed appends

ASSUME CallsAssumption == /\ CallKey \in [Calls -> Keys]
                          /\ CallHash \in [Calls -> Hashes]
                          /\ NoHash \notin Hashes
ASSUME BoundsAssumption == MaxCrashes \in Nat /\ MaxFaults \in Nat

VARIABLES
    file,        \* the complete lines of commands.jsonl
    torn,        \* bytes follow the last newline
    accepted,    \* entries: request hash bound to each key, or NoHash
    completion,  \* entries: recorded outcome of each key, or "none"
    tail,        \* the promise chain `tail`: operations not yet settled, oldest first
    pc,          \* where each call stands
    result,      \* the outcome of the effect a call ran, or "none"
    answer,      \* what each call was told, or "none"
    mode,        \* "down", "reconciling", "up", or "refused" (open() threw)
    todo,        \* keys reconcile() has not passed yet
    evidence,    \* canonical session log: what is recorded under the operation
    sent,        \* how many user messages each key has put in the session log
    crashes, faults

vars == <<file, torn, accepted, completion, tail, pc, result, answer, mode,
          todo, evidence, sent, crashes, faults>>
disk == <<file, torn>>
entries == <<accepted, completion>>
session == <<evidence, sent>>
budget == <<crashes, faults>>

(***************************************************************************)
(* Outcomes.  "done" and "aborted" are stop reasons taken from terminal    *)
(* evidence, "rejected" is an error the effect raised.                     *)
(***************************************************************************)
Results == {"done", "aborted", "rejected"}
Answers == Results \cup {"conflict", "io_error"}
Owning == {"effect", "preparing", "executing", "completing", "settling"}
InFlight == Owning \cup {"accepting", "accepted", "joined"}

Records == [type : {"accepted"}, key : Keys, value : Hashes]
           \cup [type : {"completed"}, key : Keys, value : Results]
\* A record written behind the fragment of an earlier failed append shares its line.
Garbled(rec) == [rec EXCEPT !.type = "corrupt"]
Lines == Records \cup {Garbled(rec) : rec \in Records}
Operations == [op : {"accept", "complete"}, call : Calls]

Acceptance(c) == [type |-> "accepted", key |-> CallKey[c], value |-> CallHash[c]]
Completion(k, r) == [type |-> "completed", key |-> k, value |-> r]

\* Positions of a key's acceptances and completions in a list of lines.
AcceptedAt(lines, k) == {i \in DOMAIN lines : lines[i].type = "accepted" /\ lines[i].key = k}
CompletedAt(lines, k) == {i \in DOMAIN lines : lines[i].type = "completed" /\ lines[i].key = k}

\* What open() insists on while it replays the complete lines into `entries`.
Readable(lines) ==
    /\ \A i \in DOMAIN lines : lines[i].type # "corrupt"
    /\ \A k \in Keys :
         /\ \A i, j \in AcceptedAt(lines, k) : i = j
         /\ \A i, j \in CompletedAt(lines, k) : i = j
         /\ \A i \in CompletedAt(lines, k) : \E j \in AcceptedAt(lines, k) : j < i

LoadedHash(lines, k) ==
    IF AcceptedAt(lines, k) = {} THEN NoHash
    ELSE lines[CHOOSE i \in AcceptedAt(lines, k) : TRUE].value
LoadedResult(lines, k) ==
    IF CompletedAt(lines, k) = {} THEN "none"
    ELSE lines[CHOOSE i \in CompletedAt(lines, k) : TRUE].value

-----------------------------------------------------------------------------
(***************************************************************************)
(* appendSynced: open in append mode, write the line, fsync.  An append    *)
(* that fails or dies leaves nothing, a fragment or the whole line behind; *)
(* nothing rolls it back.                                                  *)
(***************************************************************************)
AppendWhole(rec) == /\ file' = Append(file, IF torn THEN Garbled(rec) ELSE rec)
                    /\ torn' = FALSE
AppendInterrupted(rec) == \/ UNCHANGED disk
                          \/ torn' = TRUE /\ UNCHANGED file
                          \/ AppendWhole(rec)

\* The line the operation at the head of `tail` writes, if it writes one.
HeadWrites == tail # <<>> /\ (Head(tail).op = "accept"
                                => accepted[CallKey[Head(tail).call]] = NoHash)
HeadRecord == IF Head(tail).op = "accept" THEN Acceptance(Head(tail).call)
              ELSE Completion(CallKey[Head(tail).call], result[Head(tail).call])

\* accept(): the key's entry is for the request this call carries.
AnyRequest(c) == TRUE                 \* mutant: the hash is not compared
SameRequest(c) == accepted[CallKey[c]] = CallHash[c]
\* execute(): the key's outcome is known.
NeverReplayed(k) == FALSE             \* mutant: a completion is ignored
Replayed(k) == completion[k] # "none"
\* entry.running: a call owns the key's effect until its promise settles.
NeverRunning(k) == FALSE              \* mutant: a retry does not join
Running(k) == \E c \in Calls : CallKey[c] = k /\ pc[c] \in Owning
\* The calls whose promise is the owner's promise.
OwnerOnly(c) == {c}                   \* mutant: joined calls are forgotten
Sharing(c) == {c} \cup {d \in Calls : CallKey[d] = CallKey[c] /\ pc[d] = "joined"}
Tell(cs, a) == /\ pc' = [d \in Calls |-> IF d \in cs THEN "answered" ELSE pc[d]]
               /\ answer' = [d \in Calls |-> IF d \in cs THEN a ELSE answer[d]]

Init == /\ file = <<>> /\ torn = FALSE
        /\ accepted = [k \in Keys |-> NoHash]
        /\ completion = [k \in Keys |-> "none"]
        /\ tail = <<>>
        /\ pc = [c \in Calls |-> "idle"]
        /\ result = [c \in Calls |-> "none"]
        /\ answer = [c \in Calls |-> "none"]
        /\ mode = "down"
        /\ todo = {}
        /\ evidence = [k \in Keys |-> "none"]
        /\ sent = [k \in Keys |-> 0]
        /\ crashes = 0 /\ faults = 0

(***************************************************************************)
(* execute(): accept() is queued behind every earlier journal operation.   *)
(***************************************************************************)
Submit(c) == /\ mode = "up" /\ pc[c] = "idle"
             /\ pc' = [pc EXCEPT ![c] = "accepting"]
             /\ tail' = Append(tail, [op |-> "accept", call |-> c])
             /\ UNCHANGED <<disk, entries, answer, mode, todo, result, session, budget>>

\* accept() for a key that has an entry: a conflict, or the entry itself.
AcceptExisting(c) ==
    /\ mode = "up" /\ tail # <<>> /\ Head(tail).op = "accept" /\ Head(tail).call = c
    /\ accepted[CallKey[c]] # NoHash
    /\ IF SameRequest(c)
         THEN pc' = [pc EXCEPT ![c] = "accepted"] /\ UNCHANGED answer
         ELSE Tell({c}, "conflict")
    /\ tail' = Tail(tail)
    /\ UNCHANGED <<disk, entries, mode, todo, result, session, budget>>

\* accept() for a fresh key: append and sync, then publish the entry.
AcceptFresh(c) ==
    /\ mode = "up" /\ tail # <<>> /\ Head(tail).op = "accept" /\ Head(tail).call = c
    /\ accepted[CallKey[c]] = NoHash
    /\ AppendWhole(Acceptance(c))
    /\ accepted' = [accepted EXCEPT ![CallKey[c]] = CallHash[c]]
    /\ pc' = [pc EXCEPT ![c] = "accepted"]
    /\ tail' = Tail(tail)
    /\ UNCHANGED <<completion, answer, mode, todo, result, session, budget>>

\* The append of an acceptance throws: no entry, and the caller gets the error.
AcceptFails(c) ==
    /\ mode = "up" /\ tail # <<>> /\ Head(tail).op = "accept" /\ Head(tail).call = c
    /\ accepted[CallKey[c]] = NoHash
    /\ faults < MaxFaults /\ faults' = faults + 1
    /\ AppendInterrupted(Acceptance(c))
    /\ Tell({c}, "io_error")
    /\ tail' = Tail(tail)
    /\ UNCHANGED <<entries, mode, todo, result, session, crashes>>

\* execute() once accept() resolves: replay the completion, join, or run the effect.
Dispatch(c) ==
    LET k == CallKey[c] IN
    /\ mode = "up" /\ pc[c] = "accepted"
    /\ \/ Replayed(k) /\ Tell({c}, completion[k])
       \/ /\ ~Replayed(k)
          /\ pc' = [pc EXCEPT ![c] = IF Running(k) THEN "joined" ELSE "effect"]
          /\ UNCHANGED answer
    /\ UNCHANGED <<disk, entries, tail, mode, todo, result, session, budget>>

-----------------------------------------------------------------------------
(***************************************************************************)
(* The effect, SessionManager.send().  It looks for evidence of the        *)
(* operation before it runs the turn.                                      *)
(***************************************************************************)
Finish(c, r) == /\ pc' = [pc EXCEPT ![c] = "completing"]
                /\ result' = [result EXCEPT ![c] = r]
                /\ tail' = Append(tail, [op |-> "complete", call |-> c])

HasNoEvidence(k) == TRUE              \* mutant: prior events are not looked up
Unsent(k) == evidence[k] = "none"

SendRecorded(c) ==
    LET k == CallKey[c] IN
    /\ mode = "up" /\ pc[c] = "effect" /\ ~Unsent(k)
    /\ evidence' = [evidence EXCEPT ![k] = IF @ = "started" THEN "aborted" ELSE @]
    /\ Finish(c, evidence'[k])
    /\ UNCHANGED <<disk, entries, answer, mode, todo, sent, budget>>

\* Without evidence send() goes on: it awaits the blobs of the content, claims the branch and
\* awaits the workspace checkpoint ...
SendPrepares(c) ==
    /\ mode = "up" /\ pc[c] = "effect" /\ Unsent(CallKey[c])
    /\ pc' = [pc EXCEPT ![c] = "preparing"]
    /\ UNCHANGED <<disk, entries, tail, answer, mode, result, todo, session, budget>>

\* ... and runs the turn, which begins with the user message.  The log is not looked at again.
SendStarts(c) ==
    LET k == CallKey[c] IN
    /\ mode = "up" /\ pc[c] = "preparing"
    /\ evidence' = [evidence EXCEPT ![k] = "started"]
    /\ sent' = [sent EXCEPT ![k] = @ + 1]
    /\ pc' = [pc EXCEPT ![c] = "executing"]
    /\ UNCHANGED <<disk, entries, tail, answer, mode, result, todo, budget>>

\* A guard of send() throws, before the evidence is looked at (unknown_session, ...) or after it
\* (operation_active, a missing blob, ...), or the append of the user message or of the abort
\* of a recovered turn does: nothing is recorded.
SendRefused(c) ==
    /\ mode = "up" /\ pc[c] \in {"effect", "preparing"}
    /\ Finish(c, "rejected")
    /\ UNCHANGED <<disk, entries, answer, mode, todo, session, budget>>

\* The turn ends: with its terminal message, or with an exception that leaves none.
SendEnds(c) ==
    /\ mode = "up" /\ pc[c] = "executing"
    /\ \/ \E r \in {"done", "aborted"} : /\ evidence' = [evidence EXCEPT ![CallKey[c]] = r]
                                        /\ Finish(c, r)
       \/ Finish(c, "rejected") /\ UNCHANGED evidence
    /\ UNCHANGED <<disk, entries, answer, mode, todo, sent, budget>>

-----------------------------------------------------------------------------
\* The completion record is appended and synced ...
CompletionSynced(c) ==
    /\ mode = "up" /\ tail # <<>> /\ Head(tail).op = "complete" /\ Head(tail).call = c
    /\ AppendWhole(HeadRecord)
    /\ pc' = [pc EXCEPT ![c] = "settling"]
    /\ tail' = Tail(tail)
    /\ UNCHANGED <<entries, answer, mode, todo, result, session, budget>>

\* ... and then published, and every caller of the running promise gets it.
Settle(c) ==
    /\ mode = "up" /\ pc[c] = "settling"
    /\ completion' = [completion EXCEPT ![CallKey[c]] = result[c]]
    /\ Tell(Sharing(c), result[c])
    /\ UNCHANGED <<disk, accepted, tail, mode, todo, result, session, budget>>

\* The completion's append throws: the running promise rejects and is forgotten.
CompletionFails(c) ==
    /\ mode = "up" /\ tail # <<>> /\ Head(tail).op = "complete" /\ Head(tail).call = c
    /\ faults < MaxFaults /\ faults' = faults + 1
    /\ AppendInterrupted(HeadRecord)
    /\ Tell(Sharing(c), "io_error")
    /\ tail' = Tail(tail)
    /\ UNCHANGED <<entries, mode, todo, result, session, crashes>>

-----------------------------------------------------------------------------
(***************************************************************************)
(* The daemon dies: memory is gone, callers lose their connection, and the *)
(* append in progress reached the disk in part, in full or not at all.     *)
(***************************************************************************)
ForgetMemory == /\ tail' = <<>>
                /\ accepted' = [k \in Keys |-> NoHash]
                /\ completion' = [k \in Keys |-> "none"]
                /\ pc' = [c \in Calls |-> IF pc[c] \in InFlight THEN "lost" ELSE pc[c]]
                /\ todo' = {}
                /\ mode' = "down"

Crash == /\ mode = "up"
         /\ crashes < MaxCrashes /\ crashes' = crashes + 1
         /\ IF HeadWrites THEN AppendInterrupted(HeadRecord) ELSE UNCHANGED disk
         /\ ForgetMemory
         /\ UNCHANGED <<answer, result, session, faults>>

\* open(): drop the torn tail, then load every line or refuse the journal.
Open ==
    /\ mode = "down"
    /\ torn' = FALSE
    /\ IF Readable(file)
         THEN /\ accepted' = [k \in Keys |-> LoadedHash(file, k)]
              /\ completion' = [k \in Keys |-> LoadedResult(file, k)]
              /\ todo' = {k \in Keys : accepted'[k] # NoHash}
              /\ mode' = "reconciling"
         ELSE mode' = "refused" /\ UNCHANGED <<entries, todo>>
    /\ UNCHANGED <<file, tail, pc, answer, result, session, budget>>

\* reconcileAcceptedMutation for session.send: the outcome the log proves, if any.
Recovered(k) == IF evidence[k] = "started" THEN "aborted" ELSE evidence[k]
Provable(k) == Recovered(k) # "none"  \* mutant: complete entries are not skipped
Unreconciled(k) == completion[k] = "none" /\ Recovered(k) # "none"
Reconciled == todo = {}
\* Entries are visited in the order of their acceptances.
NextUp(k) == k \in todo /\ \A j \in todo : \A m \in AcceptedAt(file, j) :
                             \E n \in AcceptedAt(file, k) : n <= m

ReconcileSkips(k) ==
    /\ mode = "reconciling" /\ NextUp(k)
    /\ ~Unreconciled(k)
    /\ todo' = todo \ {k}
    /\ UNCHANGED <<disk, entries, tail, pc, answer, mode, result, session, budget>>

Reconcile(k) ==
    /\ mode = "reconciling" /\ NextUp(k)
    /\ Unreconciled(k)
    /\ evidence' = [evidence EXCEPT ![k] = Recovered(k)]
    /\ AppendWhole(Completion(k, Recovered(k)))
    /\ completion' = [completion EXCEPT ![k] = Recovered(k)]
    /\ todo' = todo \ {k}
    /\ UNCHANGED <<accepted, tail, pc, answer, mode, result, sent, budget>>

\* Startup dies while it reconciles k: before or after the abort reached the session.
ReconcileDies(k) ==
    /\ mode = "reconciling" /\ NextUp(k)
    /\ Unreconciled(k)
    /\ crashes < MaxCrashes /\ crashes' = crashes + 1
    /\ \/ UNCHANGED <<disk, evidence>>
       \/ /\ evidence' = [evidence EXCEPT ![k] = Recovered(k)]
          /\ AppendInterrupted(Completion(k, Recovered(k)))
    /\ ForgetMemory
    /\ UNCHANGED <<answer, result, sent, faults>>

\* Reconciliation is over: the daemon listens.
Serve == /\ mode = "reconciling" /\ Reconciled
         /\ mode' = "up"
         /\ UNCHANGED <<disk, entries, tail, pc, answer, todo, result, session, budget>>

-----------------------------------------------------------------------------
Effect(c) == \/ SendRecorded(c) \/ SendPrepares(c) \/ SendStarts(c)
             \/ SendRefused(c) \/ SendEnds(c)
Work(c) == \/ AcceptExisting(c) \/ AcceptFresh(c) \/ Dispatch(c)
           \/ Effect(c) \/ CompletionSynced(c) \/ Settle(c)
Startup == Open \/ Serve \/ \E k \in Keys : ReconcileSkips(k) \/ Reconcile(k)
Step == Startup \/ \E c \in Calls : Work(c)
Failure == \/ Crash
           \/ \E c \in Calls : AcceptFails(c) \/ CompletionFails(c)
           \/ \E k \in Keys : ReconcileDies(k)

Next == Step \/ Failure \/ \E c \in Calls : Submit(c)

\* The event loop runs every ready callback, writes settle and a turn ends.
Spec == Init /\ [][Next]_vars /\ WF_vars(Step)

-----------------------------------------------------------------------------
(***************************************************************************)
(* Properties                                                              *)
(***************************************************************************)

\* The types of the journal's disk, memory and callers.
TypeOK ==
    /\ file \in Seq(Lines) /\ torn \in BOOLEAN
    /\ accepted \in [Keys -> Hashes \cup {NoHash}]
    /\ completion \in [Keys -> Results \cup {"none"}]
    /\ tail \in Seq(Operations)
    /\ pc \in [Calls -> InFlight \cup {"idle", "answered", "lost"}]
    /\ result \in [Calls -> Results \cup {"none"}]
    /\ answer \in [Calls -> Answers \cup {"none"}]
    /\ mode \in {"down", "reconciling", "up", "refused"}
    /\ todo \in SUBSET Keys
    /\ evidence \in [Keys -> {"none", "started", "done", "aborted"}]
    /\ sent \in [Keys -> Nat]
    /\ crashes \in Nat /\ faults \in Nat

\* A retry, a join or a reconciliation never sends a prompt a second time,
\* whatever crashes and failed appends come between (execute, send's check
\* for prior evidence, reconcile).
AtMostOnce == \A k \in Keys : sent[k] <= 1

\* One effect per key is in progress at any time: concurrent retries join it.
SingleFlight ==
    \A c, d \in Calls :
        CallKey[c] = CallKey[d] /\ pc[c] \in Owning /\ pc[d] \in Owning => c = d

\* "A completed retry returns the same validated result or error"
\* (web-delivery.md:63): calls told an outcome under one key were told the
\* same outcome and carried the same request, also across restarts.
StableOutcome ==
    \A c, d \in Calls :
        CallKey[c] = CallKey[d] /\ answer[c] \in Results /\ answer[d] \in Results
            => answer[c] = answer[d] /\ CallHash[c] = CallHash[d]

\* "Restart recovery reconstructs acceptance and completion before requests
\* are accepted" (web-delivery.md:65): open() can load the journal after any
\* crashes, as long as no append of the living process has failed.
JournalReadable == faults = 0 => Readable(file)

\* The journal keeps the promise of IdempotentCommands: what a key is bound to
\* and what became of it are what the disk says, until an append fails.
Promise == INSTANCE IdempotentCommands WITH
               bound <- [k \in Keys |-> LoadedHash(file, k)],
               outcome <- [k \in Keys |-> LoadedResult(file, k)],
               told <- answer,
               reliable <- faults = 0
ImplementsIdempotentCommands == Promise!Spec

\* Every call that reached the daemon is answered or loses its connection.
EveryCallSettles ==
    \A c \in Calls : pc[c] \in InFlight ~> pc[c] \in {"answered", "lost"}

=============================================================================

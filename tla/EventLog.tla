------------------------------ MODULE EventLog ------------------------------
(***************************************************************************)
(* The JSONL session log (packages/kernel/src/jsonl-event-log.ts) over the *)
(* bytes of its file: open and torn-tail recovery, the append that stats,  *)
(* writes at an offset, syncs and rolls back, the per-instance promise     *)
(* chain, I/O errors and crashes.                                          *)
(*                                                                         *)
(* The line of an event is two cells, so that it can be torn; the second   *)
(* carries the newline.  Each Writer is one JsonlEventLog instance over    *)
(* the same path.                                                          *)
(***************************************************************************)
EXTENDS Integers, Sequences

CONSTANTS Events,        \* events to append, each once
          NoEvent,       \* content of a hole in the file
          Writers,       \* JsonlEventLog instances over the file
          MaxReads,      \* bound on log.read() calls
          MaxFaults,     \* bound on I/O errors
          MaxBadRollbacks, \* bound on rollbacks that fail too
          MaxCrashes

ASSUME LogAssumption == NoEvent \notin Events
ASSUME LogBounds == /\ MaxReads \in Nat /\ MaxFaults \in Nat
                    /\ MaxBadRollbacks \in Nat /\ MaxCrashes \in Nat

VARIABLES
    bytes,    \* the file as processes see it
    disk,     \* the file as of its last sync
    instance, \* each instance: "closed", "opening", "open" or "refused" (open() threw)
    tail,     \* its promise chain: operations not yet settled, oldest first
    pc,       \* where the operation at the head of the chain stands
    at,       \* `before` of an append, cleanByteLength of a read
    put,      \* cells of the line written so far
    told,     \* what the append of each event was told
    stored,   \* the events whose append resolved, in that order
    reads, faults, badRollbacks, crashes

file == <<bytes, disk>>
work == <<tail, pc, at, put>>
callers == <<told, stored>>
bounds == <<reads, faults, badRollbacks, crashes>>
vars == <<file, instance, work, callers, bounds>>

Cell(e, part) == [event |-> e, part |-> part]
Hole == Cell(NoEvent, 0)
Operations == [op : {"append"}, event : Events] \cup {[op |-> "read", event |-> NoEvent]}

-----------------------------------------------------------------------------
(***************************************************************************)
(* decodeEventLogBytes.                                                    *)
(***************************************************************************)
\* cleanByteLength: everything up to the last newline.
CleanByteLength(f) ==
    CHOOSE n \in 0..Len(f) : /\ n = 0 \/ f[n].part = 2
                             /\ \A i \in (n + 1)..Len(f) : f[i].part # 2

\* Every committed line is one whole event.
Decodable(f) ==
    LET n == CleanByteLength(f) IN
    /\ n % 2 = 0
    /\ \A i \in 1..n : /\ f[i].part = (IF i % 2 = 1 THEN 1 ELSE 2)
                       /\ i % 2 = 1 => f[i].event = f[i + 1].event
\* What a reader gets: nothing from a file with a line it cannot decode
\* (EventLogCorruptionError).
Decoded(f) == IF Decodable(f)
              THEN [i \in 1..(CleanByteLength(f) \div 2) |-> f[2 * i].event]
              ELSE <<>>

Holes(n) == [i \in 1..n |-> Hole]
\* handle.truncate: a shorter file is extended.
Truncated(f, n) == IF n <= Len(f) THEN SubSeq(f, 1, n) ELSE f \o Holes(n - Len(f))
\* handle.write at a position.
WrittenAt(f, n, cell) ==
    IF n < Len(f) THEN [f EXCEPT ![n + 1] = cell] ELSE Truncated(f, n) \o <<cell>>

\* What a crash may leave: all that was synced, and any part of what was added since.
IsPrefixOf(s, t) == Len(s) <= Len(t) /\ SubSeq(t, 1, Len(s)) = s
CrashOutcomes == {disk, bytes} \cup {f \in {SubSeq(bytes, 1, n) : n \in 0..Len(bytes)} :
                                       IsPrefixOf(disk, f)}

-----------------------------------------------------------------------------
Init == /\ bytes = <<>> /\ disk = <<>>
        /\ instance = [w \in Writers |-> "closed"]
        /\ tail = [w \in Writers |-> <<>>]
        /\ pc = [w \in Writers |-> "ready"]
        /\ at = [w \in Writers |-> 0] /\ put = [w \in Writers |-> 0]
        /\ told = [e \in Events |-> "none"] /\ stored = <<>>
        /\ reads = 0 /\ faults = 0 /\ badRollbacks = 0 /\ crashes = 0

Enqueue(w, op) == tail' = [tail EXCEPT ![w] = Append(@, op)]
Current(w) == Head(tail[w])
Running(w, op) == tail[w] # <<>> /\ Current(w).op = op
Goto(w, next) == pc' = [pc EXCEPT ![w] = next]
\* The operation settles and the next one in the chain may start.
Settled(w) == tail' = [tail EXCEPT ![w] = Tail(@)] /\ Goto(w, "ready")
\* enqueue(): a rejection does not stop the chain.
Skipping(w) == tail' = [tail EXCEPT ![w] = SubSeq(@, 3, Len(@))] /\ Goto(w, "ready")  \* mutant
Rejected(w) == Settled(w)
Tell(e, answer) == told' = [told EXCEPT ![e] = answer]

\* JsonlEventLog.open
OpenLog(w) == /\ instance[w] = "closed"
              /\ instance' = [instance EXCEPT ![w] = "opening"]
              /\ Enqueue(w, [op |-> "read", event |-> NoEvent])
              /\ UNCHANGED <<file, pc, at, put, callers, bounds>>

Read(w) == /\ instance[w] = "open" /\ reads < MaxReads
           /\ reads' = reads + 1
           /\ Enqueue(w, [op |-> "read", event |-> NoEvent])
           /\ UNCHANGED <<file, instance, pc, at, put, callers, faults, badRollbacks, crashes>>

AppendEvent(w, e) ==
    /\ instance[w] = "open" /\ told[e] = "none"
    /\ \A v \in Writers : \A i \in DOMAIN tail[v] : tail[v][i].event # e
    /\ Enqueue(w, [op |-> "append", event |-> e])
    /\ UNCHANGED <<file, instance, pc, at, put, callers, bounds>>

-----------------------------------------------------------------------------
(***************************************************************************)
(* readAndRecover.                                                         *)
(***************************************************************************)
\* Mutant of Kept: recovery cuts the last committed line as well.
KeptTooLittle(f) == IF CleanByteLength(f) = 0 THEN 0 ELSE CleanByteLength(f) - 2
Kept(f) == CleanByteLength(f)

Loaded(w) == instance' = [instance EXCEPT ![w] = "open"]

ReadFile(w) ==
    /\ Running(w, "read") /\ pc[w] = "ready"
    /\ \/ /\ ~Decodable(bytes)
          /\ instance' = [instance EXCEPT ![w] = IF @ = "opening" THEN "refused" ELSE @]
          /\ Rejected(w) /\ UNCHANGED at
       \/ /\ Decodable(bytes) /\ CleanByteLength(bytes) = Len(bytes)
          /\ Loaded(w) /\ Settled(w) /\ UNCHANGED at
       \/ /\ Decodable(bytes) /\ CleanByteLength(bytes) < Len(bytes)
          /\ at' = [at EXCEPT ![w] = Kept(bytes)]
          /\ Goto(w, "truncating") /\ UNCHANGED <<instance, tail>>
    /\ UNCHANGED <<file, put, callers, bounds>>

\* truncateDurably
TruncateTail(w) ==
    /\ Running(w, "read") /\ pc[w] = "truncating"
    /\ bytes' = Truncated(bytes, at[w]) /\ disk' = bytes'
    /\ Loaded(w) /\ Settled(w)
    /\ UNCHANGED <<at, put, callers, bounds>>

ReadFails(w) ==
    /\ Running(w, "read") /\ faults < MaxFaults
    /\ faults' = faults + 1
    /\ instance' = [instance EXCEPT ![w] = IF @ = "opening" THEN "closed" ELSE @]
    /\ Rejected(w)
    /\ UNCHANGED <<file, at, put, callers, reads, badRollbacks, crashes>>

-----------------------------------------------------------------------------
(***************************************************************************)
(* appendDurably.                                                          *)
(***************************************************************************)
Stat(w) == /\ Running(w, "append") /\ pc[w] = "ready"
           /\ at' = [at EXCEPT ![w] = Len(bytes)] /\ put' = [put EXCEPT ![w] = 0]
           /\ Goto(w, "writing")
           /\ UNCHANGED <<file, instance, tail, callers, bounds>>

\* The line is rejected before the file is touched (prepareEvent, encoding, open, stat).
AppendRefused(w) ==
    /\ Running(w, "append") /\ pc[w] = "ready" /\ faults < MaxFaults
    /\ faults' = faults + 1
    /\ Tell(Current(w).event, "failed") /\ Rejected(w)
    /\ UNCHANGED <<file, instance, at, put, stored, reads, badRollbacks, crashes>>

Remains(w) == put[w] < 2
Write(w) == /\ Running(w, "append") /\ pc[w] = "writing" /\ Remains(w)
            /\ bytes' = WrittenAt(bytes, at[w] + put[w], Cell(Current(w).event, put[w] + 1))
            /\ put' = [put EXCEPT ![w] = @ + 1]
            /\ UNCHANGED <<disk, instance, tail, pc, at, callers, bounds>>

NotFlushed == UNCHANGED disk          \* mutant: the append does not sync
Flushed == disk' = bytes
Sync(w) == LET e == Current(w).event IN
           /\ Running(w, "append") /\ pc[w] = "writing" /\ ~Remains(w)
           /\ Flushed
           /\ Tell(e, "stored") /\ stored' = Append(stored, e)
           /\ Settled(w)
           /\ UNCHANGED <<bytes, instance, at, put, bounds>>

\* A write or the sync fails ...
WriteFails(w) == /\ Running(w, "append") /\ pc[w] = "writing" /\ faults < MaxFaults
                 /\ faults' = faults + 1
                 /\ Goto(w, "rollback")
                 /\ UNCHANGED <<file, instance, tail, at, put, callers, reads, badRollbacks, crashes>>

\* ... and the file is truncated to where it was, and synced ...
RolledBack(w) == Truncated(bytes, at[w])
Rollback(w) == /\ Running(w, "append") /\ pc[w] = "rollback"
               /\ bytes' = RolledBack(w) /\ disk' = bytes'
               /\ Tell(Current(w).event, "failed") /\ Rejected(w)
               /\ UNCHANGED <<instance, at, put, stored, bounds>>

\* ... or the rollback fails too: AggregateError, and the chain goes on.
RollbackFails(w) ==
    /\ Running(w, "append") /\ pc[w] = "rollback" /\ badRollbacks < MaxBadRollbacks
    /\ badRollbacks' = badRollbacks + 1
    /\ bytes' \in {bytes, Truncated(bytes, at[w])}
    /\ Tell(Current(w).event, "failed") /\ Rejected(w)
    /\ UNCHANGED <<disk, instance, at, put, stored, reads, faults, crashes>>

-----------------------------------------------------------------------------
Pending(e) == \E w \in Writers : \E i \in DOMAIN tail[w] : tail[w][i].event = e

\* The daemon dies with everything it had in memory.
Crash == /\ crashes < MaxCrashes /\ crashes' = crashes + 1
         /\ bytes' \in CrashOutcomes /\ disk' = bytes'
         /\ instance' = [w \in Writers |-> "closed"]
         /\ tail' = [w \in Writers |-> <<>>] /\ pc' = [w \in Writers |-> "ready"]
         /\ told' = [e \in Events |-> IF Pending(e) THEN "lost" ELSE told[e]]
         /\ UNCHANGED <<at, put, stored, reads, faults, badRollbacks>>

Step(w) == \/ ReadFile(w) \/ TruncateTail(w)
           \/ Stat(w) \/ Write(w) \/ Sync(w) \/ Rollback(w)
Failure(w) == ReadFails(w) \/ AppendRefused(w) \/ WriteFails(w) \/ RollbackFails(w)
Next == \/ Crash
        \/ \E w \in Writers : \/ Step(w) \/ Failure(w) \/ OpenLog(w) \/ Read(w)
                              \/ \E e \in Events : AppendEvent(w, e)

\* Every started file operation of an instance completes.
Spec == Init /\ [][Next]_vars /\ \A w \in Writers : WF_vars(Step(w))

-----------------------------------------------------------------------------
(***************************************************************************)
(* Properties                                                              *)
(***************************************************************************)

\* A reader takes the file, also after a crash (readAndRecover).  It does until a rollback fails.
Readable == \A f \in CrashOutcomes : Decodable(f)

\* After any crash a reader finds every append that resolved, once and in order ("The log
\* is append-only during normal operation", DEVELOPMENT_GUIDE.md:625), or, once a rollback
\* has failed, is refused: it never gets a log that lacks one or has them out of order
\* ("Corruption in committed lines fails loudly", DEVELOPMENT_GUIDE.md:627).
StoredSurvives ==
    /\ badRollbacks = 0 => Readable
    /\ \A f \in CrashOutcomes : Decodable(f) => LET events == Decoded(f) IN
        /\ \A i \in DOMAIN stored : \E n \in DOMAIN events :
             \A m \in DOMAIN events : events[m] = stored[i] <=> m = n
        /\ \A i, j \in DOMAIN stored : \A m, n \in DOMAIN events :
             i < j /\ events[m] = stored[i] /\ events[n] = stored[j] => m < n

\* The file refines the contract of DurableLog.
Contract == INSTANCE DurableLog WITH log <- Decoded(disk), reliable <- badRollbacks = 0
ImplementsDurableLog == Contract!Spec

\* A queued append settles, whatever became of the operations before it.
AppendsSettle == \A e \in Events : Pending(e) ~> told[e] # "none"

=============================================================================

------------------------- MODULE DataDirectoryLock -------------------------
(***************************************************************************)
(* The exclusive lock of a data directory                                  *)
(* (packages/daemon/src/data-directory-lock.ts): a lock file made by       *)
(* link(2), taken over from a process that has died, and unlinked on       *)
(* release.  Each file-system call is a step; a process may die between    *)
(* any two of them.  A process is one lifetime of a pid: pids are not      *)
(* reused.                                                                 *)
(***************************************************************************)
EXTENDS Naturals

CONSTANTS Procs,        \* processes
          Daemons,      \* the ones that release with allowMissing
          None

ASSUME LockAssumption == Daemons \subseteq Procs /\ None \notin Procs \X {0, 1}

VARIABLES
    lock,      \* the record in .axl-data.lock: <<pid, attempt>>, its token; or None
    at,        \* where each process stands in acquire() and release()
    attempt,   \* the loop counter of acquire()
    seen,      \* the stale record it found
    alive,     \* the processes that have not died
    clobbered  \* a process unlinked the lock of a live one

lockVars == <<lock, at, attempt, seen, alive, clobbered>>

Token(p) == <<p, attempt[p]>>
Pid(record) == record[1]

Holding == {"held", "releasing", "unlocking"}
Ended == {"released", "failed"}
Stages == Holding \cup Ended \cup {"idle", "linking", "reading", "rereading", "unlinking"}

LockInit ==
    /\ lock = None
    /\ at = [p \in Procs |-> "idle"] /\ attempt = [p \in Procs |-> 0]
    /\ seen = [p \in Procs |-> None]
    /\ alive = Procs /\ clobbered = FALSE

\* p goes on at stage s; the lock file and the rest stay.
Goto(p, s) == at' = [at EXCEPT ![p] = s]
Only(p, s) == Goto(p, s) /\ UNCHANGED <<lock, attempt, seen, alive, clobbered>>

At(p, s) == p \in alive /\ at[p] = s

Acquire(p) == At(p, "idle") /\ Only(p, "linking")

\* The candidate is complete and synced: link it.  EEXIST leads to the existing record.
Link(p) ==
    /\ At(p, "linking")
    /\ IF lock = None
       THEN lock' = Token(p) /\ Goto(p, "held")
       ELSE lock' = lock /\ Goto(p, "reading")
    /\ UNCHANGED <<attempt, seen, alive, clobbered>>

\* The loop makes two attempts.
Retry(p) ==
    /\ Goto(p, IF attempt[p] = 0 THEN "linking" ELSE "failed")
    /\ attempt' = [attempt EXCEPT ![p] = 1]

TakeAny(record) == TRUE                        \* mutant: nobody asks whether the owner lives
Stale(record) == Pid(record) \notin alive      \* ~isProcessAlive

ReadExisting(p) ==
    /\ At(p, "reading")
    /\ \/ /\ lock = None
          /\ Retry(p)
          /\ UNCHANGED seen
       \/ /\ lock # None /\ ~Stale(lock)
          /\ Goto(p, "failed")
          /\ UNCHANGED <<attempt, seen>>
       \/ /\ lock # None /\ Stale(lock)
          /\ Goto(p, "rereading")
          /\ seen' = [seen EXCEPT ![p] = lock]
          /\ UNCHANGED attempt
    /\ UNCHANGED <<lock, alive, clobbered>>

Reread(p) == At(p, "rereading") /\ Only(p, IF lock = seen[p] THEN "unlinking" ELSE "failed")

\* unlink(path) removes whatever record is there by now.
Removed == lock # None /\ Pid(lock) \in alive

Unlink(p) ==
    /\ At(p, "unlinking")
    /\ IF lock = None
       THEN Goto(p, "failed") /\ UNCHANGED <<lock, attempt, clobbered>>
       ELSE lock' = None /\ Retry(p) /\ clobbered' = (clobbered \/ Removed)
    /\ UNCHANGED <<seen, alive>>

\* release(): read the record, compare the token, unlink.
Release(p) == At(p, "held") /\ Only(p, "releasing")

ReadOwn(p) ==
    /\ At(p, "releasing")
    /\ Only(p, CASE lock = Token(p) -> "unlocking"
                 [] lock = None /\ p \in Daemons -> "released"
                 [] OTHER -> "failed")

Unlock(p) ==
    /\ At(p, "unlocking")
    /\ lock' = None
    /\ Goto(p, IF lock = None THEN "failed" ELSE "released")
    /\ clobbered' = (clobbered \/ (Removed /\ lock # Token(p)))
    /\ UNCHANGED <<attempt, seen, alive>>

Die(p) == p \in alive /\ alive' = alive \ {p} /\ UNCHANGED <<lock, at, attempt, seen, clobbered>>

LockStep(p) ==
    Acquire(p) \/ Link(p) \/ ReadExisting(p) \/ Reread(p) \/ Unlink(p) \/ ReadOwn(p) \/ Unlock(p)

-----------------------------------------------------------------------------
Holders == {p \in alive : at[p] \in Holding}
OneHolder == \A p, q \in Holders : p = q

\* Two live processes hold the data directory only when the lock of a live process was
\* unlinked, and while no process has died nobody unlinks a lock that is not its own:
\* the takeover of a dead process's lock is the only way to lose exclusion.
Exclusion == alive = Procs \/ ~clobbered => OneHolder

=============================================================================

--------------------------- MODULE EventMigration ---------------------------
(***************************************************************************)
(* The users of the data-directory lock: the offline migration of a        *)
(* session with oversized events (packages/daemon/src/event-migration.ts)  *)
(* and the daemon, which scans for incomplete migrations when it starts    *)
(* (scanLegacyEvents) and serves the sessions it found complete.           *)
(*                                                                         *)
(* One source session.  The target it migrates to, lossless or a confirmed *)
(* prefix, has an identity derived from the source's bytes, so every run   *)
(* works on the same files; one externalized blob stands for them all.  A  *)
(* file being written is torn until it is synced, and stays torn when its  *)
(* writer dies or fails there.                                             *)
(***************************************************************************)
EXTENDS DataDirectoryLock, FiniteSets

CONSTANTS MaxDeaths,    \* bound on processes that die
          MaxErrors     \* bound on failed writes

Migrators == Procs \ Daemons
ASSUME MigrationBounds == MaxDeaths \in Nat /\ MaxErrors \in Nat

VARIABLES
    run,       \* where each process stands in its work under the lock
    backup, blob, pending, manifest,    \* files: "none", "torn" or "whole"
    target,    \* the log of the target session, published by rename: "none" or "whole"
    staging,   \* migrations whose staging directory holds the target log
    hidden,    \* this.incompleteMigrations of each daemon holds the target
    used,      \* a daemon's client has worked in the target session
    errors

files == <<backup, blob, pending, manifest, target, staging>>
work == <<run, files, hidden, used, errors>>
vars == <<lockVars, work>>

File == {"none", "torn", "whole"}

Init ==
    /\ LockInit
    /\ run = [p \in Procs |-> IF p \in Daemons THEN "scan" ELSE "sweep"]
    /\ backup = "none" /\ blob = "none" /\ pending = "none" /\ manifest = "none"
    /\ target = "none" /\ staging = {}
    /\ hidden = [p \in Procs |-> FALSE] /\ used = FALSE /\ errors = 0

\* A step of p's work under the lock, from stage s to stage n.
Step(p, s, n) == At(p, "held") /\ run[p] = s /\ run' = [run EXCEPT ![p] = n] /\ UNCHANGED lockVars
\* An exception leads to the finally block.
Throw(p, s) == Step(p, s, "cleanup")

(***************************************************************************)
(* migrateSessionEvents                                                    *)
(***************************************************************************)
\* Staging directories of earlier runs are removed.
Sweep(p) ==
    /\ Step(p, "sweep", "recover")
    /\ staging' = {}
    /\ UNCHANGED <<backup, blob, pending, manifest, target, hidden, used, errors>>

RecoverAlways(p) ==    \* mutant: the target goes although its manifest exists
    /\ \/ pending # "whole" /\ Step(p, "recover", "backup") /\ UNCHANGED target
       \/ pending = "whole" /\ Step(p, "recover", "unmark") /\ target' = "none"
    /\ UNCHANGED <<backup, blob, pending, manifest, staging, hidden, used, errors>>

\* A pending marker: the target it names is removed unless its manifest exists, and
\* then the marker.
Recover(p) ==
    /\ \/ pending = "none" /\ Step(p, "recover", "backup") /\ UNCHANGED target
       \/ pending = "torn" /\ Throw(p, "recover") /\ UNCHANGED target
       \/ /\ pending = "whole" /\ Step(p, "recover", "unmark")
          /\ target' = IF manifest = "none" THEN "none" ELSE target
    /\ UNCHANGED <<backup, blob, pending, manifest, staging, hidden, used, errors>>

Unmark(p) ==
    /\ Step(p, "unmark", "backup")
    /\ pending' = "none"
    /\ UNCHANGED <<backup, blob, manifest, target, staging, hidden, used, errors>>

\* Exclusive creation of a file f and its sync; one that exists is compared.
Backup(p) ==
    /\ \/ backup = "none" /\ Step(p, "backup", "backupSync") /\ backup' = "torn"
       \/ backup = "whole" /\ Step(p, "backup", "select") /\ UNCHANGED backup
       \/ backup = "torn" /\ Throw(p, "backup") /\ UNCHANGED backup
       \/ Step(p, "backupSync", "select") /\ backup' = "whole"
    /\ UNCHANGED <<blob, pending, manifest, target, staging, hidden, used, errors>>

\* The events are built, or the session needs no migration or an unconfirmed prefix.
\* A manifest ends the run; without one a target log is removed.
Select(p) ==
    /\ \/ Throw(p, "select")
       \/ manifest = "whole" /\ Step(p, "select", "cleanup")
       \/ manifest = "torn" /\ Throw(p, "select")
       \/ manifest = "none" /\ Step(p, "select", "clear")
    /\ UNCHANGED <<files, hidden, used, errors>>

Clear(p) ==
    /\ Step(p, "clear", "stage")
    /\ target' = "none"
    /\ UNCHANGED <<backup, blob, pending, manifest, staging, hidden, used, errors>>

\* The staged log and blobs are written, synced and validated.
Stage(p) ==
    /\ Step(p, "stage", "blob")
    /\ staging' = staging \cup {p}
    /\ UNCHANGED <<backup, blob, pending, manifest, target, hidden, used, errors>>

PublishBlob(p) ==
    /\ \/ blob = "none" /\ Step(p, "blob", "blobSync") /\ blob' = "torn"
       \/ blob = "whole" /\ Step(p, "blob", "mark") /\ UNCHANGED blob
       \/ blob = "torn" /\ Throw(p, "blob") /\ UNCHANGED blob
       \/ Step(p, "blobSync", "mark") /\ blob' = "whole"
    /\ UNCHANGED <<backup, pending, manifest, target, staging, hidden, used, errors>>

Mark(p) ==
    /\ \/ pending = "none" /\ Step(p, "mark", "markSync") /\ pending' = "torn"
       \/ pending # "none" /\ Throw(p, "mark") /\ UNCHANGED pending
       \/ Step(p, "markSync", "publish") /\ pending' = "whole"
    /\ UNCHANGED <<backup, blob, manifest, target, staging, hidden, used, errors>>

\* rename() of the staged log, which is gone if another run swept it.
Publish(p) ==
    /\ \/ p \in staging /\ Step(p, "publish", "manifest") /\ target' = "whole"
       \/ p \notin staging /\ Throw(p, "publish") /\ UNCHANGED target
    /\ staging' = staging \ {p}
    /\ UNCHANGED <<backup, blob, pending, manifest, hidden, used, errors>>

WriteManifest(p) ==
    /\ \/ manifest = "none" /\ Step(p, "manifest", "manifestSync") /\ manifest' = "torn"
       \/ manifest # "none" /\ Throw(p, "manifest") /\ UNCHANGED manifest
       \/ Step(p, "manifestSync", "finish") /\ manifest' = "whole"
    /\ UNCHANGED <<backup, blob, pending, target, staging, hidden, used, errors>>

Finish(p) ==
    /\ Step(p, "finish", "cleanup")
    /\ pending' = "none"
    /\ UNCHANGED <<backup, blob, manifest, target, staging, hidden, used, errors>>

\* A write or a sync fails and leaves what it had written.
Writing == {"backupSync", "blobSync", "markSync", "manifestSync"}
WriteFails(p) ==
    /\ errors < MaxErrors
    /\ \E s \in Writing : Throw(p, s)
    /\ errors' = errors + 1
    /\ UNCHANGED <<files, hidden, used>>

\* The finally block of a migration, and the end of a daemon: staging is removed and
\* the lock released.
Cleanup(p) ==
    /\ run[p] = "cleanup" /\ Release(p)
    /\ run' = [run EXCEPT ![p] = "ended"]
    /\ staging' = staging \ {p}
    /\ UNCHANGED <<backup, blob, pending, manifest, target, hidden, used, errors>>

(***************************************************************************)
(* The daemon                                                              *)
(***************************************************************************)
ScanAll(p) ==     \* mutant: a pending marker hides nothing
    /\ Step(p, "scan", "serving")
    /\ UNCHANGED <<files, hidden, used, errors>>

\* scanLegacyEvents: a pending marker hides its target; a torn one cannot be parsed.
Scan(p) ==
    /\ \/ pending = "torn" /\ Throw(p, "scan") /\ UNCHANGED hidden
       \/ /\ pending # "torn" /\ Step(p, "scan", "serving")
          /\ hidden' = [hidden EXCEPT ![p] = pending = "whole"]
    /\ UNCHANGED <<files, used, errors>>

Serves(p) == p \in alive /\ at[p] \in Holding /\ run[p] = "serving" /\ target = "whole" /\ ~hidden[p]

\* A client works in the target session: its log is no longer what was migrated.
Use(p) ==
    /\ At(p, "held") /\ Serves(p)
    /\ used' = TRUE
    /\ UNCHANGED <<lockVars, run, files, hidden, errors>>

Stop(p) == Throw(p, "serving") /\ UNCHANGED <<files, hidden, used, errors>>

-----------------------------------------------------------------------------
Migrate(p) ==
    \/ Sweep(p) \/ Recover(p) \/ Unmark(p) \/ Backup(p) \/ Select(p) \/ Clear(p) \/ Stage(p)
    \/ PublishBlob(p) \/ Mark(p) \/ Publish(p) \/ WriteManifest(p) \/ Finish(p) \/ WriteFails(p)

Locks(p) == LockStep(p) /\ UNCHANGED work

Dies(p) == Cardinality(Procs \ alive) < MaxDeaths /\ Die(p) /\ UNCHANGED work

Next ==
    \E p \in Procs : \/ Locks(p) \/ Cleanup(p) \/ Dies(p)
                     \/ p \in Migrators /\ Migrate(p)
                     \/ p \in Daemons /\ (Scan(p) \/ Use(p) \/ Stop(p))

Spec == Init /\ [][Next]_vars

-----------------------------------------------------------------------------
\* The types of the state; a process makes at most two attempts at the lock
\* (DataDirectoryLock.acquire).
TypeOK ==
    /\ at \in [Procs -> Stages] /\ attempt \in [Procs -> {0, 1}] /\ alive \subseteq Procs
    /\ lock \in (Procs \X {0, 1}) \cup {None} /\ seen \in [Procs -> (Procs \X {0, 1}) \cup {None}]
    /\ {backup, blob, pending, manifest} \subseteq File /\ target \in {"none", "whole"}
    /\ staging \subseteq Procs /\ {clobbered, used} \subseteq BOOLEAN /\ hidden \in [Procs -> BOOLEAN]
    /\ errors \in 0..MaxErrors

\* A complete manifest is a completion marker: the target log, its blobs and the backup
\* of the source are all complete, whichever runs died or failed before.
ManifestMeansComplete ==
    ~clobbered /\ manifest = "whole" => target = "whole" /\ blob = "whole" /\ backup = "whole"

\* A published target without a manifest is named by a readable pending marker, so that
\* the daemon ignores it and the next run removes it (migrateSessionEvents,
\* scanLegacyEvents), at every point where a run can die.
IncompleteIsMarked ==
    ~clobbered /\ target = "whole" /\ manifest = "none" => pending = "whole"

\* Work done in a migrated session is never removed by a later run.
WorkSurvives == ~clobbered /\ used => target = "whole"

\* docs/architecture/web-delivery.md: "the manifest is published last as the completion
\* marker.  Incomplete targets are ignored and removed on the next recovery run."
ServedIsComplete == \A p \in Daemons : Serves(p) => manifest = "whole"

=============================================================================

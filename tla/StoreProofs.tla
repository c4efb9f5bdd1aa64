---------------------------- MODULE StoreProofs ----------------------------
(***************************************************************************)
(* Machine-checked proofs about what is kept in the data directory beside  *)
(* the logs: DataDirectoryLock and EventMigration, for any processes,      *)
(* deaths and failed writes, and BlobStore, for any sessions, uploads,     *)
(* contents and limits, and any number of faults and crashes.  The two     *)
(* parts share no state.                                                   *)
(*                                                                         *)
(* LockInv says who owns the record in the lock file and that a takeover   *)
(* takes a death; it gives Exclusion.  FilesInv says what the files of a   *)
(* migration hold at each stage of the process that has the lock; because  *)
(* of LockInv the steps of other processes cannot disturb it.              *)
(*                                                                         *)
(* BlobInv says where the file of an upload is while each operation stands *)
(* at an await, who will remove it, and what was synced before it is owned. *)
(***************************************************************************)
EXTENDS EventMigration, BlobStore, FiniteSetTheorems, SequenceTheorems, TLAPS

(***************************************************************************)
(* The data-directory lock and the event migration                         *)
(***************************************************************************)
Records == Procs \X {0, 1}

LockTypes ==
    /\ at \in [Procs -> Stages] /\ attempt \in [Procs -> {0, 1}] /\ alive \subseteq Procs
    /\ lock \in Records \cup {None} /\ seen \in [Procs -> Records \cup {None}]
    /\ clobbered \in BOOLEAN

\* While no live process's lock was unlinked, a holder's record is the one in the file.
HolderOwns == ~clobbered => \A p \in alive : at[p] \in Holding => lock = Token(p)

\* A process that means to unlink a stale lock has seen a dead process.
TakeoverNeedsDeath ==
    alive = Procs => ~clobbered /\ \A p \in Procs : at[p] \notin {"rereading", "unlinking"}

LockInv == LockTypes /\ HolderOwns /\ TakeoverNeedsDeath

\* Two records of different processes differ, and None is no record.
LEMMA TokenFacts ==
    ASSUME LockTypes, NEW p \in Procs
    PROVE  Token(p) \in Records /\ Token(p) # None /\ Pid(Token(p)) = p
BY LockAssumption DEF Token, Pid, Records, LockTypes

\* The lock's invariant gives exclusion.
LEMMA LockInvExcludes == LockInv => Exclusion
<1> SUFFICES ASSUME LockInv, alive = Procs \/ ~clobbered, NEW p \in Holders, NEW q \in Holders
             PROVE  p = q
  BY DEF Exclusion, OneHolder
<1>1. ~clobbered
  BY DEF LockInv, TakeoverNeedsDeath
<1>2. p \in Procs /\ q \in Procs /\ lock = Token(p) /\ lock = Token(q)
  BY <1>1 DEF LockInv, HolderOwns, LockTypes, Holders
<1> QED
  BY <1>2, TokenFacts DEF LockInv

\* release() moves on after it has read the record.
LEMMA ReadOwnMoves ==
    ASSUME NEW p, ReadOwn(p)
    PROVE  \E s \in {"unlocking", "released", "failed"} : Only(p, s)
BY DEF ReadOwn

\* Every step of acquire() and release() keeps the lock's types.
LEMMA LockTypesStep ==
    ASSUME LockTypes, NEW p \in Procs, LockStep(p) \/ Release(p) \/ Die(p)
    PROVE  LockTypes'
<1>1. CASE Acquire(p)
  BY <1>1 DEF LockTypes, Acquire, Only, Goto, Stages
<1>2. CASE Link(p)
  BY <1>2, TokenFacts DEF LockTypes, Link, Goto, Stages, Holding
<1>3. CASE ReadExisting(p)
  BY <1>3 DEF LockTypes, ReadExisting, Retry, Goto, Stages, Ended
<1>4. CASE Reread(p)
  BY <1>4 DEF LockTypes, Reread, Only, Goto, Stages, Ended
<1>5. CASE Unlink(p)
  BY <1>5 DEF LockTypes, Unlink, Retry, Removed, Goto, Stages, Ended
<1>6. CASE Release(p)
  BY <1>6 DEF LockTypes, Release, Only, Goto, Stages, Holding
<1>7. CASE ReadOwn(p)
  <2>1. PICK s \in {"unlocking", "released", "failed"} : Only(p, s)
    BY <1>7, ReadOwnMoves
  <2> QED
    BY <2>1 DEF LockTypes, Only, Goto, Stages, Holding, Ended
<1>8. CASE Unlock(p)
  BY <1>8 DEF LockTypes, Unlock, Removed, Goto, Stages, Holding, Ended
<1>9. CASE Die(p)
  BY <1>9 DEF LockTypes, Die
<1> QED
  BY <1>1, <1>2, <1>3, <1>4, <1>5, <1>6, <1>7, <1>8, <1>9 DEF LockStep

\* And the invariant.
LEMMA LockInvStep ==
    ASSUME LockInv, NEW p \in Procs, LockStep(p) \/ Release(p) \/ Die(p)
    PROVE  LockInv'
<1>0. LockTypes /\ LockTypes' /\ HolderOwns /\ TakeoverNeedsDeath
  BY LockTypesStep DEF LockInv
<1>1. CASE Acquire(p) \/ Reread(p) \/ Release(p)
  BY <1>0, <1>1 DEF LockInv, LockTypes, HolderOwns, TakeoverNeedsDeath, Acquire, Reread, Release,
     At, Only, Goto, Holding, Token
<1>2. CASE Link(p)
  <2>1. \A q \in Procs : Token(q)' = Token(q)
    BY <1>2 DEF Link, Token
  <2>2. CASE lock = None
    <3>1. lock' = Token(p) /\ at' = [at EXCEPT ![p] = "held"] /\ UNCHANGED <<alive, clobbered>>
      BY <1>2, <2>2 DEF Link, Goto
    <3>2. ~clobbered => \A q \in alive : at[q] \notin Holding
      BY <1>0, <2>2, TokenFacts DEF HolderOwns, LockTypes
    <3> QED
      BY <1>0, <2>1, <3>1, <3>2 DEF LockInv, HolderOwns, TakeoverNeedsDeath, LockTypes, Holding
  <2>3. CASE lock # None
    BY <1>0, <1>2, <2>1, <2>3 DEF LockInv, Link, Goto, HolderOwns, TakeoverNeedsDeath, LockTypes, Holding
  <2> QED
    BY <2>2, <2>3
<1>3. CASE ReadExisting(p)
  <2>1. UNCHANGED <<lock, alive, clobbered>> /\ at[p] = "reading"
    BY <1>3 DEF ReadExisting, At
  <2>2. \A q \in Procs \ {p} : at'[q] = at[q] /\ attempt'[q] = attempt[q]
    BY <1>0, <1>3 DEF ReadExisting, Retry, Goto, LockTypes
  <2>3. at'[p] \in {"linking", "failed", "rereading"}
    BY <1>0, <1>3 DEF ReadExisting, Retry, Goto, LockTypes
  <2>4. HolderOwns'
    BY <1>0, <2>1, <2>2, <2>3 DEF HolderOwns, Token, Holding, LockTypes
  <2>5. at'[p] = "rereading" => alive # Procs
    BY <1>0, <1>3 DEF ReadExisting, Retry, Goto, LockTypes, Stale, Pid, Records
  <2> QED
    BY <1>0, <2>1, <2>2, <2>3, <2>4, <2>5 DEF LockInv, TakeoverNeedsDeath
<1>4. CASE Unlink(p)
  <2>1. alive # Procs /\ alive' = alive
    BY <1>0, <1>4 DEF Unlink, At, TakeoverNeedsDeath, LockTypes
  <2>2. \A q \in Procs \ {p} : at'[q] = at[q] /\ attempt'[q] = attempt[q]
    BY <1>0, <1>4 DEF Unlink, Retry, Goto, LockTypes
  <2>3. at'[p] \in {"linking", "failed"}
    BY <1>0, <1>4 DEF Unlink, Retry, Goto, LockTypes
  <2>4. HolderOwns'
    <3> SUFFICES ASSUME ~clobbered', NEW q \in alive, q # p, at[q] \in Holding
                 PROVE  lock' = Token(q)
      BY <1>0, <2>1, <2>2, <2>3 DEF HolderOwns, Token, Holding, LockTypes
    <3>1. ~clobbered /\ (lock = None \/ ~Removed)
      BY <1>4 DEF Unlink
    <3>2. lock = Token(q) /\ q \in Procs
      BY <1>0, <3>1 DEF HolderOwns, LockTypes
    <3> QED
      BY <1>0, <3>1, <3>2, TokenFacts DEF Removed
  <2> QED
    BY <1>0, <2>1, <2>4 DEF LockInv, TakeoverNeedsDeath
<1>5. CASE ReadOwn(p)
  BY <1>0, <1>5 DEF LockInv, LockTypes, HolderOwns, TakeoverNeedsDeath, ReadOwn,
     At, Only, Goto, Holding, Token
<1>6. CASE Unlock(p)
  <2>1. /\ p \in alive /\ at[p] = "unlocking" /\ alive' = alive /\ attempt' = attempt
        /\ lock' = None /\ at'[p] \in Ended
        /\ \A q \in Procs \ {p} : at'[q] = at[q]
    BY <1>0, <1>6 DEF Unlock, At, Goto, Ended, LockTypes
  <2>2. ~clobbered => lock = Token(p) /\ ~clobbered'
    BY <1>0, <1>6, <2>1 DEF Unlock, HolderOwns, Holding
  <2>3. clobbered => clobbered'
    BY <1>6 DEF Unlock
  <2>4. HolderOwns'
    <3> SUFFICES ASSUME ~clobbered, NEW q \in alive, q # p, at[q] \in Holding
                 PROVE  FALSE
      BY <1>0, <2>1, <2>3 DEF HolderOwns, Token, Holding, Ended, LockTypes
    <3> QED
      BY <1>0, <2>1, <2>2, TokenFacts DEF HolderOwns, LockTypes
  <2>5. TakeoverNeedsDeath'
    BY <1>0, <2>1, <2>2 DEF TakeoverNeedsDeath, Ended
  <2> QED
    BY <1>0, <2>4, <2>5 DEF LockInv
<1>7. CASE Die(p)
  BY <1>0, <1>7 DEF LockInv, LockTypes, HolderOwns, TakeoverNeedsDeath, Die, Token
<1> QED
  BY <1>1, <1>2, <1>3, <1>4, <1>5, <1>6, <1>7 DEF LockStep

-----------------------------------------------------------------------------
Publishing == {"blob", "blobSync", "mark", "markSync", "publish"}
Completing == {"manifest", "manifestSync", "finish"}
AfterBackup == {"select", "clear", "stage"} \cup Publishing \cup Completing
RunStages ==
    {"sweep", "recover", "unmark", "backup", "backupSync", "scan", "serving", "cleanup", "ended"}
    \cup AfterBackup
Waiting == {"idle", "linking", "reading", "rereading", "unlinking"}

WorkTypes ==
    /\ {backup, blob, pending, manifest} \subseteq File /\ target \in {"none", "whole"}
    /\ staging \subseteq Procs /\ used \in BOOLEAN /\ hidden \in [Procs -> BOOLEAN]
    /\ errors \in 0..MaxErrors
    /\ run \in [Procs -> RunStages]

\* A process that waits for the lock has done nothing.
NotBegun == \A p \in Procs : at[p] \in Waiting => run[p] \in {"scan", "sweep"}

\* What the files hold at the stage of the process that has the lock.
StageFacts(p) ==
    /\ run[p] \in AfterBackup => backup = "whole"
    /\ run[p] \in {"mark", "markSync", "publish"} \cup Completing => blob = "whole"
    /\ run[p] \in {"clear", "stage", "manifest"} \cup Publishing => manifest = "none"
    /\ run[p] \in {"stage"} \cup Publishing => target = "none"
    /\ run[p] \in {"publish", "manifest", "manifestSync"} => pending = "whole"
    /\ run[p] \in Completing => target = "whole"
    /\ run[p] = "unmark" => target = "none" \/ manifest # "none"
    /\ run[p] = "finish" => manifest = "whole"
    /\ run[p] = "serving" => (hidden[p] <=> pending = "whole")

\* What they hold at any time.  A torn manifest counts as one.
FileFacts ==
    /\ manifest # "none" => target = "whole" /\ blob = "whole" /\ backup = "whole"
    /\ target = "whole" /\ manifest = "none" => pending = "whole"
    /\ used => manifest # "none"

FilesInv ==
    ~clobbered => FileFacts /\ \A p \in alive : at[p] = "held" => StageFacts(p)

IInv == LockInv /\ WorkTypes /\ NotBegun /\ FilesInv

\* What a step of the process that has the lock must show: the file facts, its own
\* stage facts, and nothing about the others, who do not have the lock.
LEMMA UnderLock ==
    ASSUME IInv, NEW p \in Procs, At(p, "held"), UNCHANGED lockVars, WorkTypes',
           \A q \in Procs \ {p} : run'[q] = run[q],
           FileFacts /\ StageFacts(p) => FileFacts' /\ StageFacts(p)'
    PROVE  IInv'
<1>1. LockInv'
  BY DEF IInv, LockInv, LockTypes, HolderOwns, TakeoverNeedsDeath, Token, lockVars
<1>2. NotBegun'
  BY DEF IInv, NotBegun, At, Waiting, lockVars
<1>3. FilesInv'
  <2> SUFFICES ASSUME ~clobbered PROVE FileFacts' /\ \A q \in alive : at[q] = "held" => StageFacts(q)'
    BY DEF FilesInv, lockVars
  <2>1. \A q \in alive : at[q] = "held" => q = p
    BY LockInvExcludes DEF IInv, Exclusion, OneHolder, Holders, Holding, At
  <2>2. FileFacts' /\ StageFacts(p)'
    BY DEF IInv, FilesInv, At
  <2> QED
    BY <2>1, <2>2
<1> QED
  BY <1>1, <1>2, <1>3 DEF IInv

\* A migration's steps keep the types, and move only its own stage.
LEMMA MigrateTypes ==
    ASSUME IInv, NEW p \in Procs, Migrate(p)
    PROVE  /\ At(p, "held") /\ UNCHANGED lockVars /\ WorkTypes'
           /\ \A q \in Procs \ {p} : run'[q] = run[q]
<1>0. WorkTypes
  BY DEF IInv
<1> USE DEF Step, Throw, WorkTypes, File, RunStages, AfterBackup, Publishing, Completing
<1>1. CASE Sweep(p) \/ Unmark(p)
  BY <1>0, <1>1 DEF Sweep, Unmark, files
<1>2. CASE Recover(p)
  BY <1>0, <1>2 DEF Recover, files
<1>3. CASE Backup(p)
  BY <1>0, <1>3 DEF Backup, files
<1>4. CASE Select(p) \/ Clear(p)
  BY <1>0, <1>4 DEF Select, Clear, files
<1>5. CASE Stage(p)
  BY <1>0, <1>5 DEF Stage, files
<1>6. CASE PublishBlob(p)
  BY <1>0, <1>6 DEF PublishBlob, files
<1>7. CASE Mark(p)
  BY <1>0, <1>7 DEF Mark, files
<1>8. CASE Publish(p)
  BY <1>0, <1>8 DEF Publish, files
<1>9. CASE WriteManifest(p)
  BY <1>0, <1>9 DEF WriteManifest, files
<1>10. CASE Finish(p)
  BY <1>0, <1>10 DEF Finish, files
<1>11. CASE WriteFails(p)
  BY <1>0, <1>11, MigrationBounds DEF WriteFails, files, Writing
<1> QED
  BY <1>1, <1>2, <1>3, <1>4, <1>5, <1>6, <1>7, <1>8, <1>9, <1>10, <1>11 DEF Migrate

\* A migration's steps keep what the files hold.
LEMMA MigrateFacts ==
    ASSUME IInv, NEW p \in Procs, Migrate(p), FileFacts, StageFacts(p)
    PROVE  FileFacts' /\ StageFacts(p)'
<1>0. WorkTypes
  BY DEF IInv
<1> USE DEF Step, Throw, WorkTypes, File, RunStages, AfterBackup, Publishing, Completing,
        FileFacts, StageFacts
<1>1. CASE Sweep(p) \/ Unmark(p)
  BY <1>0, <1>1 DEF Sweep, Unmark, files
<1>2. CASE Recover(p)
  BY <1>0, <1>2 DEF Recover, files
<1>3. CASE Backup(p)
  BY <1>0, <1>3 DEF Backup, files
<1>4. CASE Select(p) \/ Clear(p)
  BY <1>0, <1>4 DEF Select, Clear, files
<1>5. CASE Stage(p)
  BY <1>0, <1>5 DEF Stage, files
<1>6. CASE PublishBlob(p)
  BY <1>0, <1>6 DEF PublishBlob, files
<1>7. CASE Mark(p)
  BY <1>0, <1>7 DEF Mark, files
<1>8. CASE Publish(p)
  BY <1>0, <1>8 DEF Publish, files
<1>9. CASE WriteManifest(p)
  BY <1>0, <1>9 DEF WriteManifest, files
<1>10. CASE Finish(p)
  BY <1>0, <1>10 DEF Finish, files
<1>11. CASE WriteFails(p)
  BY <1>0, <1>11 DEF WriteFails, files, Writing
<1> QED
  BY <1>1, <1>2, <1>3, <1>4, <1>5, <1>6, <1>7, <1>8, <1>9, <1>10, <1>11 DEF Migrate

\* The daemon's steps too.
LEMMA DaemonStep ==
    ASSUME IInv, NEW p \in Procs, Scan(p) \/ Use(p) \/ Stop(p)
    PROVE  IInv'
<1>0. WorkTypes
  BY DEF IInv
<1>1. /\ At(p, "held") /\ UNCHANGED lockVars /\ WorkTypes'
      /\ \A q \in Procs \ {p} : run'[q] = run[q]
  BY <1>0 DEF Scan, Use, Stop, Step, Throw, WorkTypes, RunStages, files
<1>2. ASSUME FileFacts, StageFacts(p)
      PROVE  FileFacts' /\ StageFacts(p)'
  <2> USE DEF Step, Throw, WorkTypes, File, RunStages, AfterBackup, Publishing, Completing,
          FileFacts, StageFacts, files
  <2>1. CASE Scan(p)
    BY <1>0, <1>2, <2>1 DEF Scan
  <2>2. CASE Use(p)
    BY <1>0, <1>2, <2>2 DEF Use, Serves
  <2>3. CASE Stop(p)
    BY <1>0, <1>2, <2>3 DEF Stop
  <2> QED
    BY <2>1, <2>2, <2>3
<1> QED
  BY <1>1, <1>2, UnderLock

\* The lock's own steps leave the files alone, and whoever gets the lock has done nothing.
LEMMA LockingStep ==
    ASSUME IInv, NEW p \in Procs, Locks(p) \/ Dies(p) \/ Cleanup(p)
    PROVE  IInv'
<1>0. LockTypes /\ WorkTypes /\ NotBegun
  BY DEF IInv, LockInv
<1>1. LockInv' /\ LockTypes'
  BY LockInvStep DEF IInv, Locks, Dies, Cleanup, LockInv
<1>2. /\ WorkTypes' /\ UNCHANGED <<backup, blob, pending, manifest, target, hidden, used>>
      /\ \A q \in Procs \ {p} : run'[q] = run[q]
      /\ run'[p] # run[p] => at[p] = "held" /\ at'[p] = "releasing"
  BY <1>0 DEF Locks, Dies, Cleanup, Release, Only, Goto, At, WorkTypes, RunStages, work, files, LockTypes
<1>3. /\ alive' \subseteq alive /\ (clobbered => clobbered')
      /\ \A q \in Procs \ {p} : at'[q] = at[q]
      /\ at'[p] \in Waiting => at[p] \in Waiting
      /\ at'[p] = "held" => at[p] \in {"held", "linking"}
  <2> USE DEF Goto, Only, At, LockTypes, Waiting, Holding, Ended
  <2>1. CASE Dies(p)
    BY <1>0, <2>1 DEF Dies, Die
  <2>2. CASE Cleanup(p)
    BY <1>0, <2>2 DEF Cleanup, Release
  <2>3. CASE Acquire(p) \/ Link(p) \/ Reread(p)
    BY <1>0, <2>3 DEF Acquire, Link, Reread
  <2>4. CASE ReadExisting(p)
    BY <1>0, <2>4 DEF ReadExisting, Retry
  <2>5. CASE Unlink(p)
    BY <1>0, <2>5 DEF Unlink, Retry
  <2>6. CASE ReadOwn(p)
    <3>1. PICK s \in {"unlocking", "released", "failed"} : Only(p, s)
      BY <2>6, ReadOwnMoves
    <3> QED
      BY <1>0, <3>1
  <2>7. CASE Unlock(p)
    BY <1>0, <2>7 DEF Unlock
  <2> QED
    BY <2>1, <2>2, <2>3, <2>4, <2>5, <2>6, <2>7 DEF Locks, LockStep
<1>4. NotBegun'
  BY <1>0, <1>2, <1>3 DEF NotBegun, Waiting
<1>5. FilesInv'
  <2> SUFFICES ASSUME ~clobbered'
               PROVE  FileFacts' /\ \A q \in alive' : at'[q] = "held" => StageFacts(q)'
    BY DEF FilesInv
  <2>1. FileFacts /\ \A q \in alive : at[q] = "held" => StageFacts(q)
    BY <1>3 DEF IInv, FilesInv
  <2>2. FileFacts'
    BY <1>2, <2>1 DEF FileFacts
  <2>3. ASSUME NEW q \in alive', at'[q] = "held" PROVE StageFacts(q)'
    <3>1. q \in alive /\ q \in Procs
      BY <1>0, <1>3, <2>3 DEF LockTypes
    <3>2. run'[q] = run[q]
      BY <1>2, <2>3, <3>1
    <3>3. CASE at[q] = "held"
      BY <1>2, <2>1, <3>1, <3>2, <3>3 DEF StageFacts
    <3>4. CASE at[q] = "linking"
      <4>1. run'[q] \in {"scan", "sweep"}
        BY <1>0, <3>1, <3>2, <3>4 DEF NotBegun, Waiting
      <4> QED
        BY <4>1 DEF StageFacts, AfterBackup, Publishing, Completing
    <3> QED
      BY <1>3, <2>3, <3>1, <3>3, <3>4
  <2> QED
    BY <2>2, <2>3
<1> QED
  BY <1>1, <1>2, <1>4, <1>5 DEF IInv

\* IInv is inductive.
LEMMA IInvStep == IInv /\ [Next]_vars => IInv'
<1> SUFFICES ASSUME IInv, [Next]_vars PROVE IInv'
  OBVIOUS
<1>1. ASSUME NEW p \in Procs, Locks(p) \/ Cleanup(p) \/ Dies(p) PROVE IInv'
  BY <1>1, LockingStep
<1>2. ASSUME NEW p \in Procs, Migrate(p) PROVE IInv'
  BY <1>2, UnderLock, MigrateTypes, MigrateFacts
<1>3. ASSUME NEW p \in Procs, Scan(p) \/ Use(p) \/ Stop(p) PROVE IInv'
  BY <1>3, DaemonStep
<1>4. CASE UNCHANGED vars
  BY <1>4 DEF IInv, LockInv, LockTypes, HolderOwns, TakeoverNeedsDeath, Token, WorkTypes, NotBegun,
     FilesInv, FileFacts, StageFacts, vars, lockVars, work, files
<1> QED
  BY <1>1, <1>2, <1>3, <1>4 DEF Next

\* It holds of an empty data directory.
LEMMA IInvInit == Init => IInv
<1> SUFFICES ASSUME Init PROVE IInv
  OBVIOUS
<1>1. LockInv
  BY DEF Init, LockInit, LockInv, LockTypes, HolderOwns, TakeoverNeedsDeath, Stages, Holding
<1>2. run \in [Procs -> {"scan", "sweep"}]
  BY DEF Init
<1>3. WorkTypes
  <2>1. errors \in 0..MaxErrors
    BY MigrationBounds DEF Init
  <2>2. run \in [Procs -> RunStages]
    BY <1>2 DEF RunStages
  <2> QED
    BY <2>1, <2>2 DEF Init, WorkTypes, File
<1>4. NotBegun
  BY <1>2 DEF NotBegun
<1>5. FilesInv
  BY DEF Init, LockInit, FilesInv, FileFacts
<1> QED
  BY <1>1, <1>3, <1>4, <1>5 DEF IInv

\* So it is an invariant.
LEMMA IInvHolds == Spec => []IInv
BY IInvInit, IInvStep, PTL DEF Spec

-----------------------------------------------------------------------------
\* The types of the lock and of the migration's files.
THEOREM MigrationTypeOK == Spec => []TypeOK
<1>1. IInv => TypeOK
  BY DEF IInv, LockInv, LockTypes, WorkTypes, TypeOK, Records
<1> QED
  BY <1>1, IInvHolds, PTL

\* However many processes contend for the data directory, two hold it only after one has
\* died and a live process's lock was unlinked (DataDirectoryLock.acquire and release).
THEOREM LockExcludes == Spec => []Exclusion
<1>1. IInv => Exclusion
  BY LockInvExcludes DEF IInv
<1> QED
  BY <1>1, IInvHolds, PTL

\* A complete manifest vouches for the target, its blobs and the backup, whichever
\* processes died and whichever writes failed (migrateSessionEvents).
THEOREM ManifestVouches == Spec => []ManifestMeansComplete
<1>1. IInv => ManifestMeansComplete
  BY DEF IInv, FilesInv, FileFacts, ManifestMeansComplete
<1> QED
  BY <1>1, IInvHolds, PTL

\* A target without a manifest is named by a readable pending marker (migrateSessionEvents,
\* scanLegacyEvents).
THEOREM IncompleteMarked == Spec => []IncompleteIsMarked
<1>1. IInv => IncompleteIsMarked
  BY DEF IInv, FilesInv, FileFacts, IncompleteIsMarked
<1> QED
  BY <1>1, IInvHolds, PTL

\* No later run removes a session that a client has worked in (migrateSessionEvents, the
\* daemon's incompleteMigrations).
THEOREM MigratedWorkSurvives == Spec => []WorkSurvives
<1>1. IInv => WorkSurvives
  BY DEF IInv, FilesInv, FileFacts, WorkSurvives
<1> QED
  BY <1>1, IInvHolds, PTL

(***************************************************************************)
(* The blob store                                                          *)
(***************************************************************************)
Chunks == Seq(STRING)
Positions == {"ready", "writing", "reading", "moving", "syncing", "dropping", "removing"}
InCommit == {"reading", "moving", "syncing", "dropping"}

BlobTypeOK ==
    /\ opened \subseteq Sessions
    /\ stage \in [Uploads -> {"new", "waiting", "creating", "active", "gone"}]
    /\ offset \in [Uploads -> Nat]
    /\ file \in [Uploads -> Chunks \cup {Absent}]
    /\ chain \in [Uploads -> Seq([op : {"append", "commit", "abort"}, n : Nat])]
    /\ point \in [Uploads -> Positions]
    /\ bytes \in [Uploads -> Chunks \cup {Absent}]
    /\ stale \in [Sessions -> {Absent, Free} \cup [left : SUBSET Uploads, now : Uploads]]
    /\ owned \in [Sessions -> SUBSET Chunks] /\ referenced \in [Sessions -> SUBSET Chunks]
    /\ ready \in {"no", "clearing", "yes", "failed"}
    /\ unremoved \subseteq Uploads

\* An upload that was not registered yet has no file, no offset and no operations.
Fresh(u) ==
    stage[u] \in {"new", "waiting", "creating"} =>
        file[u] = Absent /\ offset[u] = 0 /\ chain[u] = <<>> /\ point[u] = "ready"

\* The running operation stands at one of its own awaits.
Placed(u) ==
    /\ point[u] # "ready" => chain[u] # <<>>
    /\ point[u] = "writing" => Head(chain[u]).op = "append"
    /\ point[u] \in InCommit => Head(chain[u]).op = "commit"
    /\ point[u] = "removing" => Head(chain[u]).op = "abort"

\* What is on disk is the declared content up to the offset, or, after a failed append,
\* one chunk more.
Prefix(u) ==
    /\ offset[u] <= Len(Content[u])
    /\ file[u] # Absent =>
        /\ offset[u] <= Len(file[u]) /\ Len(file[u]) <= Len(Content[u])
        /\ \A i \in 1..Len(file[u]) : file[u][i] = Content[u][i]
    /\ point[u] = "writing" => offset[u] < Len(Content[u]) /\ Head(chain[u]).n = offset[u] + 1

\* A commit that got past its check has all of the content, and the upload is gone.
Whole(u) ==
    /\ point[u] \in InCommit => stage[u] = "gone"
    /\ point[u] \in {"reading", "moving", "syncing"} => offset[u] = Len(Content[u])
    /\ point[u] \in {"moving", "syncing"} => bytes[u] = Content[u]
    /\ point[u] = "syncing" => Content[u] \in blobs /\ file[u] = Absent

\* Who will remove a file, or has failed to; an append or an abort that is under way will
\* not.
Held(u) ==
    ready = "yes" /\ file[u] # Absent =>
        \/ stage[u] = "active" \/ point[u] \in InCommit \/ u \in unremoved
        \/ \E s \in Sessions : stale[s] # Absent /\ stale[s].now = u

UploadInv == \A u \in Uploads : Fresh(u) /\ Placed(u) /\ Prefix(u) /\ Whole(u)

HeldInv == \A u \in Uploads : Held(u)

\* What is owned or referred to is synced, and what is synced is there.
StoredInv ==
    /\ synced \subseteq blobs
    /\ \A s \in Sessions : \A c \in owned[s] \cup referenced[s] :
        c \in synced /\ \E u \in Uploads : SessionOf[u] = s /\ Content[u] = c

LimitInv ==
    /\ IsFiniteSet(In("active") \cup In("creating"))
    /\ Cardinality(In("active") \cup In("creating")) <= MaxActive

BlobInv == BlobTypeOK /\ UploadInv /\ HeldInv /\ StoredInv /\ LimitInv

-----------------------------------------------------------------------------
\* The content of an upload is a sequence of chunks.
LEMMA ContentFacts ==
    ASSUME NEW u \in Uploads
    PROVE  /\ Content[u] \in Chunks /\ Len(Content[u]) \in Nat
           /\ \A i \in 1..Len(Content[u]) : Content[u][i] \in STRING
           /\ SessionOf[u] \in Sessions
BY UploadsAssumption DEF Chunks

\* append() leaves the declared content up to the chunk it writes.
LEMMA WrittenFacts ==
    ASSUME BlobTypeOK, UploadInv, NEW u \in Uploads, point[u] = "writing", file[u] # Absent
    PROVE  /\ Written(u) \in Chunks
           /\ Len(Written(u)) = offset[u] + 1
           /\ \A i \in 1..offset[u] + 1 : Written(u)[i] = Content[u][i]
<1> DEFINE kept == SubSeq(file[u], 1, offset[u])
           chunk == Content[u][Head(chain[u]).n]
<1>1. /\ file[u] \in Chunks /\ offset[u] \in Nat /\ offset[u] <= Len(file[u])
      /\ Head(chain[u]).n = offset[u] + 1 /\ offset[u] < Len(Content[u])
      /\ \A i \in 1..Len(file[u]) : file[u][i] = Content[u][i]
  BY DEF BlobTypeOK, UploadInv, Prefix
<1>2. chunk \in STRING /\ chunk = Content[u][offset[u] + 1]
  BY <1>1, ContentFacts
<1>3. kept \in Chunks /\ Len(kept) = offset[u] /\ \A i \in 1..offset[u] : kept[i] = file[u][i]
  BY <1>1 DEF Chunks
<1>4. Written(u) = Append(kept, chunk)
  BY DEF Written
<1> HIDE DEF kept, chunk
<1>5. Append(kept, chunk) \in Chunks /\ Len(Append(kept, chunk)) = offset[u] + 1
  BY <1>1, <1>2, <1>3 DEF Chunks
<1>6. \A i \in 1..offset[u] + 1 : Append(kept, chunk)[i] = Content[u][i]
  BY <1>1, <1>2, <1>3 DEF Chunks
<1> QED
  BY <1>4, <1>5, <1>6

\* disposeSession() takes an upload out of the map, or is done.
LEMMA TakeNextTypes ==
    ASSUME BlobTypeOK, NEW s \in Sessions, NEW us \in SUBSET Uploads, TakeNext(s, us)
    PROVE  /\ stage' \in [Uploads -> {"new", "waiting", "creating", "active", "gone"}]
           /\ stale' \in [Sessions -> {Absent, Free} \cup [left : SUBSET Uploads, now : Uploads]]
<1>1. CASE us = {} /\ stale' = [stale EXCEPT ![s] = Free] /\ UNCHANGED stage
  BY <1>1 DEF BlobTypeOK
<1>2. ASSUME NEW u \in us, Becomes(u, "gone"),
             stale' = [stale EXCEPT ![s] = [left |-> us \ {u}, now |-> u]]
      PROVE  /\ stage' \in [Uploads -> {"new", "waiting", "creating", "active", "gone"}]
             /\ stale' \in [Sessions -> {Absent, Free} \cup [left : SUBSET Uploads, now : Uploads]]
  <2>1. [left |-> us \ {u}, now |-> u] \in [left : SUBSET Uploads, now : Uploads]
    OBVIOUS
  <2> HIDE DEF Free
  <2> QED
    BY <1>2, <2>1 DEF BlobTypeOK, Becomes
<1> QED
  BY <1>1, <1>2 DEF TakeNext

\* The entry of a session that is removing files.
LEMMA StaleFacts ==
    ASSUME BlobTypeOK, NEW s \in Sessions, stale[s] \notin {Absent, Free}
    PROVE  stale[s].now \in Uploads /\ stale[s].left \in SUBSET Uploads
<1>1. stale[s] \in [left : SUBSET Uploads, now : Uploads]
  BY DEF BlobTypeOK
<1> QED
  BY <1>1

\* The types are kept by every step.
LEMMA BlobTypeStep ==
    ASSUME BlobTypeOK, UploadInv, [BlobNext]_blobVars
    PROVE  BlobTypeOK'
<1> USE ContentFacts
<1>1. ASSUME NEW u \in Uploads, Start(u) PROVE BlobTypeOK'
  BY <1>1 DEF Start, Becomes, Initializes, BlobTypeOK, Positions, InCommit, uploadVars,
     storeVars, history
<1>2. ASSUME NEW u \in Uploads, Admit(u) PROVE BlobTypeOK'
  BY <1>2 DEF Admit, Becomes, BlobTypeOK, Positions, InCommit, uploadVars, storeVars,
     history
<1>3. ASSUME NEW u \in Uploads, Created(u) PROVE BlobTypeOK'
  <2>1. <<>> \in Chunks
    BY DEF Chunks
  <2> QED
    BY <1>3, <2>1 DEF Created, Becomes, Writes, BlobTypeOK, Positions, InCommit, uploadVars,
       storeVars, history
<1>4. ASSUME NEW u \in Uploads, CreateFails(u) PROVE BlobTypeOK'
  <2>1. <<>> \in Chunks
    BY DEF Chunks
  <2>2. unremoved' \subseteq Uploads
    BY <1>4 DEF CreateFails, Fault, FaultLeaving, BlobTypeOK
  <2>3. file' = file \/ file' = [file EXCEPT ![u] = <<>>]
    BY <1>4 DEF CreateFails, Writes
  <2>4. file' \in [Uploads -> Chunks \cup {Absent}]
    BY <2>1, <2>3 DEF BlobTypeOK
  <2> QED
    BY <1>4, <2>2, <2>4 DEF CreateFails, Becomes, BlobTypeOK, storeVars
<1>5. ASSUME NEW u \in Uploads, Unknown(u) PROVE BlobTypeOK'
  BY <1>5 DEF Unknown, Settles, BlobTypeOK, Positions, InCommit, uploadVars, storeVars,
     history
<1>6. ASSUME NEW u \in Uploads, AppendRefused(u) PROVE BlobTypeOK'
  BY <1>6 DEF AppendRefused, Running, Settles, BlobTypeOK, Positions, InCommit, uploadVars,
     storeVars, history
<1>7. ASSUME NEW u \in Uploads, AppendBegins(u) PROVE BlobTypeOK'
  BY <1>7 DEF AppendBegins, Running, Reaches, NextChunk, BlobTypeOK, Positions, InCommit,
     uploadVars, storeVars, history
<1>8. ASSUME NEW u \in Uploads, Appended(u) PROVE BlobTypeOK'
  <2>1. Written(u) \in Chunks \cup {Absent}
    BY <1>8, WrittenFacts DEF Appended, Running, Written
  <2> QED
    BY <1>8, <2>1 DEF Appended, Running, Settles, Writes, BlobTypeOK, Positions, InCommit,
       uploadVars, storeVars, history
<1>9. ASSUME NEW u \in Uploads, AppendFails(u) PROVE BlobTypeOK'
  <2>1. Written(u) \in Chunks \cup {Absent}
    BY <1>9, WrittenFacts DEF AppendFails, Running, Written
  <2>2. file' \in [Uploads -> Chunks \cup {Absent}]
    BY <1>9, <2>1 DEF AppendFails, BlobTypeOK
  <2>3. /\ Settles(u) /\ chain[u] # <<>>
        /\ UNCHANGED <<opened, stage, offset, bytes, storeVars, stale, ready>>
        /\ unremoved' = unremoved
    BY <1>9 DEF AppendFails, Running, history, Fault, FaultLeaving
  <2> QED
    BY <2>2, <2>3 DEF Settles, BlobTypeOK, Positions, InCommit, uploadVars, storeVars,
       history
<1>10. ASSUME NEW u \in Uploads, CommitBegins(u) PROVE BlobTypeOK'
  BY <1>10 DEF CommitBegins, Running, Becomes, Reaches, BlobTypeOK, Positions, InCommit,
     uploadVars, storeVars, history
<1>11. ASSUME NEW u \in Uploads, CommitReads(u) PROVE BlobTypeOK'
  BY <1>11 DEF CommitReads, Running, Reaches, BlobTypeOK, Positions, InCommit, uploadVars,
     storeVars, history
<1>12. ASSUME NEW u \in Uploads, CommitMoves(u) PROVE BlobTypeOK'
  BY <1>12 DEF CommitMoves, Running, Reaches, Writes, BlobTypeOK, Positions, InCommit,
     uploadVars, storeVars, history
<1>13. ASSUME NEW u \in Uploads, Committed(u) PROVE BlobTypeOK'
  <2>1. bytes[u] \in Chunks
    BY <1>13 DEF Committed, Synced, Running, UploadInv, Whole
  <2> QED
    BY <1>13, <2>1 DEF Committed, Synced, Running, Settles, BlobTypeOK, Positions, InCommit,
       uploadVars, storeVars, history
<1>14. ASSUME NEW u \in Uploads, CommitFails(u) PROVE BlobTypeOK'
  BY <1>14 DEF CommitFails, Running, Reaches, Fault, FaultLeaving, BlobTypeOK, Positions,
     InCommit, uploadVars, storeVars, history
<1>15. ASSUME NEW u \in Uploads, Drop(u) PROVE BlobTypeOK'
  BY <1>15 DEF Drop, Running, Writes, Settles, BlobTypeOK, Positions, InCommit, uploadVars,
     storeVars, history
<1>16. ASSUME NEW u \in Uploads, AbortBegins(u) PROVE BlobTypeOK'
  BY <1>16 DEF AbortBegins, Running, Reaches, BlobTypeOK, Positions, InCommit, uploadVars,
     storeVars, history
<1>17. ASSUME NEW u \in Uploads, Aborted(u) PROVE BlobTypeOK'
  BY <1>17 DEF Aborted, Running, Becomes, Writes, Settles, BlobTypeOK, Positions, InCommit,
     uploadVars, storeVars, history
<1>18. ASSUME NEW u \in Uploads, NEW op \in Operations(u), Call(u, op) PROVE BlobTypeOK'
  BY <1>18 DEF Call, Operations, BlobTypeOK, Positions, InCommit, uploadVars, storeVars,
     history
<1>19. ASSUME NEW s \in Sessions, Dispose(s) PROVE BlobTypeOK'
  <2>1. {u \in In("active") : SessionOf[u] = s} \in SUBSET Uploads
    BY DEF In
  <2> QED
    BY <1>19, <2>1, TakeNextTypes DEF Dispose, BlobTypeOK, Positions, InCommit, uploadVars,
       storeVars, history
<1>20. ASSUME NEW s \in Sessions, FileRemoved(s) PROVE BlobTypeOK'
  BY <1>20, TakeNextTypes, StaleFacts DEF FileRemoved, Writes, BlobTypeOK, Positions,
     InCommit, uploadVars, storeVars, history
<1>21. ASSUME NEW s \in Sessions, Disposed(s) PROVE BlobTypeOK'
  BY <1>21 DEF Disposed, BlobTypeOK, Positions, InCommit, uploadVars, storeVars, history
<1>22. ASSUME NEW s \in Sessions, Resume(s) PROVE BlobTypeOK'
  BY <1>22 DEF Resume, BlobTypeOK, Positions, InCommit, uploadVars, storeVars, history
<1>23. ASSUME NEW s \in Sessions, NEW c \in blobs, Refer(s, c) PROVE BlobTypeOK'
  BY <1>23 DEF Refer, BlobTypeOK, Positions, InCommit, uploadVars, storeVars, history
<1>24. ASSUME Cleared PROVE BlobTypeOK'
  BY <1>24 DEF Cleared, BlobTypeOK, Positions, InCommit, uploadVars, storeVars, history
<1>25. ASSUME Crash PROVE BlobTypeOK'
  BY <1>25 DEF Crash, BlobTypeOK, Positions, InCommit, uploadVars, storeVars, history
<1>27. ASSUME NEW u \in Uploads, StartFails(u) PROVE BlobTypeOK'
  BY <1>27 DEF StartFails, Becomes, Positions, InCommit, BlobTypeOK, uploadVars, storeVars,
     history
<1>28. ASSUME NEW u \in Uploads, DropFails(u) PROVE BlobTypeOK'
  BY <1>28 DEF DropFails, Running, Settles, Fault, FaultLeaving, Positions, InCommit,
     BlobTypeOK, uploadVars, storeVars, history
<1>29. ASSUME NEW u \in Uploads, AbortFails(u) PROVE BlobTypeOK'
  BY <1>29 DEF AbortFails, Running, Settles, Fault, FaultLeaving, Positions, InCommit,
     BlobTypeOK, uploadVars, storeVars, history
<1>30. ASSUME NEW s \in Sessions, RemoveFails(s) PROVE BlobTypeOK'
  BY <1>30, StaleFacts DEF RemoveFails, Fault, FaultLeaving, Positions, InCommit,
     BlobTypeOK, uploadVars, storeVars, history
<1>31. ASSUME ClearFails PROVE BlobTypeOK'
  BY <1>31 DEF ClearFails, Fault, FaultLeaving, Positions, InCommit, BlobTypeOK, uploadVars,
     storeVars, history
<1>26. CASE UNCHANGED blobVars
  BY <1>26 DEF blobVars, BlobTypeOK, Positions, InCommit, uploadVars, storeVars, history
<1> QED
  BY <1>1, <1>2, <1>3, <1>4, <1>5, <1>6, <1>7, <1>8, <1>9, <1>10, <1>11, <1>12, <1>13,
     <1>14, <1>15, <1>16, <1>17, <1>18, <1>19, <1>20, <1>21, <1>22, <1>23, <1>24, <1>25,
     <1>26, <1>27, <1>28, <1>29, <1>30, <1>31 DEF BlobNext, UploadNext, Fails

\* All of the content at the offset means that the file is the content.
LEMMA WholeFile ==
    ASSUME BlobTypeOK, UploadInv, NEW u \in Uploads,
           file[u] # Absent, offset[u] = Len(Content[u])
    PROVE  file[u] = Content[u]
<1>1. file[u] \in Chunks /\ Len(file[u]) \in Nat
  BY DEF BlobTypeOK, Chunks
<1>2. Len(file[u]) = Len(Content[u]) /\ \A i \in 1..Len(file[u]) : file[u][i] = Content[u][i]
  BY <1>1, ContentFacts DEF UploadInv, Prefix, BlobTypeOK
<1> QED
  BY <1>1, <1>2, ContentFacts, SeqEqual DEF Chunks

\* What is known of each upload is kept by every step.
LEMMA UploadStep ==
    ASSUME BlobTypeOK, UploadInv, [BlobNext]_blobVars
    PROVE  UploadInv'
<1> SUFFICES ASSUME NEW v \in Uploads
             PROVE  (Fresh(v) /\ Placed(v) /\ Prefix(v) /\ Whole(v))'
  BY DEF UploadInv
<1>a. Fresh(v) /\ Placed(v) /\ Prefix(v) /\ Whole(v)
  BY DEF UploadInv
<1> USE ContentFacts
<1>1. ASSUME NEW u \in Uploads, Start(u) PROVE (Fresh(v) /\ Placed(v) /\ Prefix(v) /\ Whole(v))'
  BY <1>1, <1>a DEF Start, Becomes, Initializes, Fresh, Placed, Prefix, Whole, InCommit,
     BlobTypeOK, uploadVars, storeVars, history
<1>2. ASSUME NEW u \in Uploads, Admit(u) PROVE (Fresh(v) /\ Placed(v) /\ Prefix(v) /\ Whole(v))'
  BY <1>2, <1>a DEF Admit, Becomes, Fresh, Placed, Prefix, Whole, InCommit, BlobTypeOK,
     uploadVars, storeVars, history
<1>3. ASSUME NEW u \in Uploads, Created(u) PROVE (Fresh(v) /\ Placed(v) /\ Prefix(v) /\ Whole(v))'
  BY <1>3, <1>a DEF Created, Becomes, Writes, Fresh, Placed, Prefix, Whole, InCommit,
     BlobTypeOK, uploadVars, storeVars, history
<1>4. ASSUME NEW u \in Uploads, CreateFails(u) PROVE (Fresh(v) /\ Placed(v) /\ Prefix(v) /\ Whole(v))'
  BY <1>4, <1>a DEF CreateFails, Becomes, Writes, Fault, FaultLeaving, Fresh, Placed,
     Prefix, Whole, InCommit, BlobTypeOK, uploadVars, storeVars, history
<1>5. ASSUME NEW u \in Uploads, Unknown(u) PROVE (Fresh(v) /\ Placed(v) /\ Prefix(v) /\ Whole(v))'
  BY <1>5, <1>a DEF Unknown, Settles, Fresh, Placed, Prefix, Whole, InCommit, BlobTypeOK,
     uploadVars, storeVars, history
<1>6. ASSUME NEW u \in Uploads, AppendRefused(u) PROVE (Fresh(v) /\ Placed(v) /\ Prefix(v) /\ Whole(v))'
  BY <1>6, <1>a DEF AppendRefused, Running, Settles, Fresh, Placed, Prefix, Whole, InCommit,
     BlobTypeOK, uploadVars, storeVars, history
<1>7. ASSUME NEW u \in Uploads, AppendBegins(u) PROVE (Fresh(v) /\ Placed(v) /\ Prefix(v) /\ Whole(v))'
  BY <1>7, <1>a DEF AppendBegins, Running, Reaches, NextChunk, Fresh, Placed, Prefix, Whole,
     InCommit, BlobTypeOK, uploadVars, storeVars, history
<1>8. ASSUME NEW u \in Uploads, Appended(u) PROVE (Fresh(v) /\ Placed(v) /\ Prefix(v) /\ Whole(v))'
  <2>1. Running(u, "append", "writing") /\ Settles(u) /\ Writes(u, Written(u))
    BY <1>8 DEF Appended
  <2>2. CASE v = u
    <3>1. /\ point'[v] = "ready" /\ offset'[v] = offset[v] + 1 /\ file'[v] = Written(v)
          /\ stage'[v] = stage[v] /\ point[v] = "writing"
      BY <1>8, <2>1, <2>2 DEF Appended, Running, Settles, Writes, BlobTypeOK
    <3>2. Fresh(v)' /\ Placed(v)' /\ Whole(v)'
      BY <1>a, <3>1 DEF Fresh, Placed, Whole, InCommit
    <3>3. Prefix(v)'
      <4>1. offset[v] \in Nat /\ offset[v] < Len(Content[v])
        BY <1>a, <3>1 DEF Prefix, BlobTypeOK
      <4>2. CASE file[v] = Absent
        BY <3>1, <4>1, <4>2 DEF Prefix, Written
      <4>3. CASE file[v] # Absent
        BY <3>1, <4>1, <4>3, WrittenFacts DEF Prefix
      <4> QED
        BY <4>2, <4>3
    <3> QED
      BY <3>2, <3>3
  <2>3. CASE v # u
    BY <1>8, <1>a, <2>1, <2>3 DEF Appended, Settles, Writes, Fresh, Placed, Prefix, Whole,
       InCommit, BlobTypeOK, storeVars, history
  <2> QED
    BY <2>2, <2>3
<1>9. ASSUME NEW u \in Uploads, AppendFails(u) PROVE (Fresh(v) /\ Placed(v) /\ Prefix(v) /\ Whole(v))'
  <2>1. /\ Running(u, "append", "writing") /\ Settles(u)
        /\ file' \in {file, [file EXCEPT ![u] = Written(u)]}
        /\ stage' = stage /\ offset' = offset /\ bytes' = bytes /\ blobs' = blobs
    BY <1>9 DEF AppendFails, storeVars
  <2>2. CASE v = u
    <3>1. /\ point'[v] = "ready" /\ file'[v] \in {file[v], Written(v)} /\ point[v] = "writing"
      BY <2>1, <2>2 DEF Running, Settles, BlobTypeOK
    <3>2. Fresh(v)' /\ Placed(v)' /\ Whole(v)'
      BY <1>a, <2>1, <3>1 DEF Fresh, Placed, Whole, InCommit
    <3>3. Prefix(v)'
      <4>1. offset[v] \in Nat /\ offset[v] < Len(Content[v])
        BY <1>a, <3>1 DEF Prefix, BlobTypeOK
      <4>2. CASE file'[v] = file[v]
        BY <1>a, <2>1, <3>1, <4>2 DEF Prefix
      <4>3. CASE file'[v] = Written(v) /\ file[v] # Absent
        BY <2>1, <3>1, <4>1, <4>3, WrittenFacts DEF Prefix
      <4> QED
        BY <3>1, <4>2, <4>3 DEF Written
    <3> QED
      BY <3>2, <3>3
  <2>3. CASE v # u
    <3>1. file'[v] = file[v] /\ point'[v] = point[v] /\ chain'[v] = chain[v]
      BY <2>1, <2>3 DEF Settles, BlobTypeOK
    <3> QED
      BY <1>a, <2>1, <3>1 DEF Fresh, Placed, Prefix, Whole, InCommit, BlobTypeOK
  <2> QED
    BY <2>2, <2>3
<1>10. ASSUME NEW u \in Uploads, CommitBegins(u) PROVE (Fresh(v) /\ Placed(v) /\ Prefix(v) /\ Whole(v))'
  BY <1>10, <1>a DEF CommitBegins, Running, Becomes, Reaches, Fresh, Placed, Prefix, Whole,
     InCommit, BlobTypeOK, uploadVars, storeVars, history
<1>11. ASSUME NEW u \in Uploads, CommitReads(u) PROVE (Fresh(v) /\ Placed(v) /\ Prefix(v) /\ Whole(v))'
  <2>1. file[u] # Absent => file[u] = Content[u]
    BY <1>11, WholeFile DEF CommitReads, Running, UploadInv, Whole
  <2> QED
    BY <1>11, <1>a, <2>1 DEF CommitReads, Running, Reaches, Fresh, Placed, Prefix, Whole,
       InCommit, BlobTypeOK, storeVars, history
<1>12. ASSUME NEW u \in Uploads, CommitMoves(u) PROVE (Fresh(v) /\ Placed(v) /\ Prefix(v) /\ Whole(v))'
  <2>1. file[u] # Absent => file[u] = Content[u]
    BY <1>12, WholeFile DEF CommitMoves, Running, UploadInv, Whole
  <2> QED
    BY <1>12, <1>a, <2>1 DEF CommitMoves, Running, Reaches, Writes, Fresh, Placed, Prefix,
       Whole, InCommit, BlobTypeOK, storeVars, history
<1>13. ASSUME NEW u \in Uploads, Committed(u) PROVE (Fresh(v) /\ Placed(v) /\ Prefix(v) /\ Whole(v))'
  BY <1>13, <1>a DEF Committed, Synced, Running, Settles, Fresh, Placed, Prefix, Whole,
     InCommit, BlobTypeOK, uploadVars, storeVars, history
<1>14. ASSUME NEW u \in Uploads, CommitFails(u) PROVE (Fresh(v) /\ Placed(v) /\ Prefix(v) /\ Whole(v))'
  BY <1>14, <1>a DEF CommitFails, Running, Reaches, Fault, FaultLeaving, Fresh, Placed,
     Prefix, Whole, InCommit, BlobTypeOK, uploadVars, storeVars, history
<1>15. ASSUME NEW u \in Uploads, Drop(u) PROVE (Fresh(v) /\ Placed(v) /\ Prefix(v) /\ Whole(v))'
  BY <1>15, <1>a DEF Drop, Running, Writes, Settles, Fresh, Placed, Prefix, Whole, InCommit,
     BlobTypeOK, uploadVars, storeVars, history
<1>16. ASSUME NEW u \in Uploads, AbortBegins(u) PROVE (Fresh(v) /\ Placed(v) /\ Prefix(v) /\ Whole(v))'
  BY <1>16, <1>a DEF AbortBegins, Running, Reaches, Fresh, Placed, Prefix, Whole, InCommit,
     BlobTypeOK, uploadVars, storeVars, history
<1>17. ASSUME NEW u \in Uploads, Aborted(u) PROVE (Fresh(v) /\ Placed(v) /\ Prefix(v) /\ Whole(v))'
  BY <1>17, <1>a DEF Aborted, Running, Becomes, Writes, Settles, Fresh, Placed, Prefix,
     Whole, InCommit, BlobTypeOK, uploadVars, storeVars, history
<1>18. ASSUME NEW u \in Uploads, NEW op \in Operations(u), Call(u, op) PROVE (Fresh(v) /\ Placed(v) /\ Prefix(v) /\ Whole(v))'
  BY <1>18, <1>a DEF Call, Operations, Fresh, Placed, Prefix, Whole, InCommit, BlobTypeOK,
     uploadVars, storeVars, history
<1>19. ASSUME NEW s \in Sessions, Dispose(s) PROVE (Fresh(v) /\ Placed(v) /\ Prefix(v) /\ Whole(v))'
  BY <1>19, <1>a DEF Dispose, TakeNext, Becomes, In, Free, Fresh, Placed, Prefix, Whole,
     InCommit, BlobTypeOK, uploadVars, storeVars, history
<1>20. ASSUME NEW s \in Sessions, FileRemoved(s) PROVE (Fresh(v) /\ Placed(v) /\ Prefix(v) /\ Whole(v))'
  BY <1>20, <1>a DEF FileRemoved, TakeNext, Becomes, Writes, Free, Fresh, Placed, Prefix,
     Whole, InCommit, BlobTypeOK, uploadVars, storeVars, history
<1>21. ASSUME NEW s \in Sessions, Disposed(s) PROVE (Fresh(v) /\ Placed(v) /\ Prefix(v) /\ Whole(v))'
  BY <1>21, <1>a DEF Disposed, Fresh, Placed, Prefix, Whole, InCommit, BlobTypeOK,
     uploadVars, storeVars, history
<1>22. ASSUME NEW s \in Sessions, Resume(s) PROVE (Fresh(v) /\ Placed(v) /\ Prefix(v) /\ Whole(v))'
  BY <1>22, <1>a DEF Resume, Fresh, Placed, Prefix, Whole, InCommit, BlobTypeOK, uploadVars,
     storeVars, history
<1>23. ASSUME NEW s \in Sessions, NEW c \in blobs, Refer(s, c) PROVE (Fresh(v) /\ Placed(v) /\ Prefix(v) /\ Whole(v))'
  BY <1>23, <1>a DEF Refer, Fresh, Placed, Prefix, Whole, InCommit, BlobTypeOK, uploadVars,
     storeVars, history
<1>24. ASSUME Cleared PROVE (Fresh(v) /\ Placed(v) /\ Prefix(v) /\ Whole(v))'
  BY <1>24, <1>a DEF Cleared, Fresh, Placed, Prefix, Whole, InCommit, BlobTypeOK,
     uploadVars, storeVars, history
<1>25. ASSUME Crash PROVE (Fresh(v) /\ Placed(v) /\ Prefix(v) /\ Whole(v))'
  BY <1>25, <1>a DEF Crash, Fresh, Placed, Prefix, Whole, InCommit, BlobTypeOK, uploadVars,
     storeVars, history
<1>27. ASSUME NEW u \in Uploads, StartFails(u) PROVE (Fresh(v) /\ Placed(v) /\ Prefix(v) /\ Whole(v))'
  BY <1>27, <1>a DEF StartFails, Becomes, Fresh, Placed, Prefix, Whole, InCommit,
     BlobTypeOK, uploadVars, storeVars, history
<1>28. ASSUME NEW u \in Uploads, DropFails(u) PROVE (Fresh(v) /\ Placed(v) /\ Prefix(v) /\ Whole(v))'
  BY <1>28, <1>a DEF DropFails, Running, Settles, Fault, FaultLeaving, Fresh, Placed,
     Prefix, Whole, InCommit, BlobTypeOK, uploadVars, storeVars, history
<1>29. ASSUME NEW u \in Uploads, AbortFails(u) PROVE (Fresh(v) /\ Placed(v) /\ Prefix(v) /\ Whole(v))'
  BY <1>29, <1>a DEF AbortFails, Running, Settles, Fault, FaultLeaving, Fresh, Placed,
     Prefix, Whole, InCommit, BlobTypeOK, uploadVars, storeVars, history
<1>30. ASSUME NEW s \in Sessions, RemoveFails(s) PROVE (Fresh(v) /\ Placed(v) /\ Prefix(v) /\ Whole(v))'
  BY <1>30, <1>a, StaleFacts DEF RemoveFails, Fault, FaultLeaving, Fresh, Placed, Prefix,
     Whole, InCommit, BlobTypeOK, uploadVars, storeVars, history
<1>31. ASSUME ClearFails PROVE (Fresh(v) /\ Placed(v) /\ Prefix(v) /\ Whole(v))'
  BY <1>31, <1>a DEF ClearFails, Fault, FaultLeaving, Fresh, Placed, Prefix, Whole,
     InCommit, BlobTypeOK, uploadVars, storeVars, history
<1>26. CASE UNCHANGED blobVars
  BY <1>26, <1>a DEF blobVars, Fresh, Placed, Prefix, Whole, InCommit, BlobTypeOK,
     uploadVars, storeVars, history
<1> QED
  BY <1>1, <1>2, <1>3, <1>4, <1>5, <1>6, <1>7, <1>8, <1>9, <1>10, <1>11, <1>12, <1>13,
     <1>14, <1>15, <1>16, <1>17, <1>18, <1>19, <1>20, <1>21, <1>22, <1>23, <1>24, <1>25,
     <1>26, <1>27, <1>28, <1>29, <1>30, <1>31 DEF BlobNext, UploadNext, Fails

\* A session that removes a file has an entry for it.
LEMMA RemovalFacts ==
    ASSUME NEW u \in Uploads, NEW us \in SUBSET Uploads
    PROVE  [left |-> us, now |-> u] # Absent /\ Free.now # u
BY AbsentAssumption DEF Free

\* The witness that a file will be removed survives a step that leaves the removals alone.
LEMMA HeldStep ==
    ASSUME BlobTypeOK, UploadInv, HeldInv, [BlobNext]_blobVars
    PROVE  HeldInv'
<1> SUFFICES ASSUME NEW v \in Uploads
             PROVE  Held(v)'
  BY DEF HeldInv
<1>a. Held(v) /\ Fresh(v) /\ Placed(v) /\ Whole(v)
  BY DEF HeldInv, UploadInv
<1>1. ASSUME NEW u \in Uploads, Start(u) PROVE Held(v)'
  BY <1>1, <1>a DEF Start, Becomes, Initializes, Held, Fresh, Placed, Whole, InCommit,
     BlobTypeOK, uploadVars, storeVars, history
<1>2. ASSUME NEW u \in Uploads, Admit(u) PROVE Held(v)'
  BY <1>2, <1>a DEF Admit, Becomes, Held, Fresh, Placed, Whole, InCommit, BlobTypeOK,
     uploadVars, storeVars, history
<1>3. ASSUME NEW u \in Uploads, Created(u) PROVE Held(v)'
  BY <1>3, <1>a DEF Created, Becomes, Writes, Held, Fresh, Placed, Whole, InCommit,
     BlobTypeOK, uploadVars, storeVars, history
<1>4. ASSUME NEW u \in Uploads, CreateFails(u) PROVE Held(v)'
  BY <1>4, <1>a DEF CreateFails, Becomes, Writes, Fault, FaultLeaving, Held, Fresh, Placed,
     Whole, InCommit, BlobTypeOK, uploadVars, storeVars, history
<1>5. ASSUME NEW u \in Uploads, Unknown(u) PROVE Held(v)'
  BY <1>5, <1>a DEF Unknown, Settles, Held, Fresh, Placed, Whole, InCommit, BlobTypeOK,
     uploadVars, storeVars, history
<1>6. ASSUME NEW u \in Uploads, AppendRefused(u) PROVE Held(v)'
  BY <1>6, <1>a DEF AppendRefused, Running, Settles, Held, Fresh, Placed, Whole, InCommit,
     BlobTypeOK, uploadVars, storeVars, history
<1>7. ASSUME NEW u \in Uploads, AppendBegins(u) PROVE Held(v)'
  BY <1>7, <1>a DEF AppendBegins, Running, Reaches, NextChunk, Held, Fresh, Placed, Whole,
     InCommit, BlobTypeOK, uploadVars, storeVars, history
<1>8. ASSUME NEW u \in Uploads, Appended(u) PROVE Held(v)'
  <2>1. /\ Running(u, "append", "writing") /\ Settles(u) /\ Writes(u, Written(u))
        /\ stage' = stage /\ ready' = ready /\ stale' = stale /\ unremoved' = unremoved
    BY <1>8 DEF Appended, history
  <2>2. file'[v] # Absent => file[v] # Absent
    BY <2>1 DEF Writes, Written, BlobTypeOK
  <2>3. point'[v] = point[v] \/ point[v] = "writing"
    BY <2>1 DEF Running, Settles, BlobTypeOK
  <2> QED
    BY <1>a, <2>1, <2>2, <2>3 DEF Held, InCommit
<1>9. ASSUME NEW u \in Uploads, AppendFails(u) PROVE Held(v)'
  <2>1. /\ Running(u, "append", "writing") /\ Settles(u)
        /\ file' \in {file, [file EXCEPT ![u] = Written(u)]}
        /\ stage' = stage /\ ready' = ready /\ stale' = stale /\ unremoved' = unremoved
    BY <1>9 DEF AppendFails, history, Fault, FaultLeaving
  <2>2. file'[v] # Absent => file[v] # Absent
    BY <2>1 DEF Written, BlobTypeOK
  <2>3. point'[v] = point[v] \/ point[v] = "writing"
    BY <2>1 DEF Running, Settles, BlobTypeOK
  <2> QED
    BY <1>a, <2>1, <2>2, <2>3 DEF Held, InCommit
<1>10. ASSUME NEW u \in Uploads, CommitBegins(u) PROVE Held(v)'
  BY <1>10, <1>a DEF CommitBegins, Running, Becomes, Reaches, Held, Fresh, Placed, Whole,
     InCommit, BlobTypeOK, uploadVars, storeVars, history
<1>11. ASSUME NEW u \in Uploads, CommitReads(u) PROVE Held(v)'
  BY <1>11, <1>a DEF CommitReads, Running, Reaches, Held, Fresh, Placed, Whole, InCommit,
     BlobTypeOK, uploadVars, storeVars, history
<1>12. ASSUME NEW u \in Uploads, CommitMoves(u) PROVE Held(v)'
  BY <1>12, <1>a DEF CommitMoves, Running, Reaches, Writes, Held, Fresh, Placed, Whole,
     InCommit, BlobTypeOK, uploadVars, storeVars, history
<1>13. ASSUME NEW u \in Uploads, Committed(u) PROVE Held(v)'
  BY <1>13, <1>a DEF Committed, Synced, Running, Settles, Held, Fresh, Placed, Whole,
     InCommit, BlobTypeOK, uploadVars, storeVars, history
<1>14. ASSUME NEW u \in Uploads, CommitFails(u) PROVE Held(v)'
  BY <1>14, <1>a DEF CommitFails, Running, Reaches, Fault, FaultLeaving, Held, Fresh,
     Placed, Whole, InCommit, BlobTypeOK, uploadVars, storeVars, history
<1>15. ASSUME NEW u \in Uploads, Drop(u) PROVE Held(v)'
  BY <1>15, <1>a DEF Drop, Running, Writes, Settles, Held, Fresh, Placed, Whole, InCommit,
     BlobTypeOK, uploadVars, storeVars, history
<1>16. ASSUME NEW u \in Uploads, AbortBegins(u) PROVE Held(v)'
  BY <1>16, <1>a DEF AbortBegins, Running, Reaches, Held, Fresh, Placed, Whole, InCommit,
     BlobTypeOK, uploadVars, storeVars, history
<1>17. ASSUME NEW u \in Uploads, Aborted(u) PROVE Held(v)'
  BY <1>17, <1>a DEF Aborted, Running, Becomes, Writes, Settles, Held, Fresh, Placed, Whole,
     InCommit, BlobTypeOK, uploadVars, storeVars, history
<1>18. ASSUME NEW u \in Uploads, NEW op \in Operations(u), Call(u, op) PROVE Held(v)'
  BY <1>18, <1>a DEF Call, Operations, Held, Fresh, Placed, Whole, InCommit, BlobTypeOK,
     uploadVars, storeVars, history
<1>19. ASSUME NEW s \in Sessions, Dispose(s) PROVE Held(v)'
  <2> DEFINE us == {u \in In("active") : SessionOf[u] = s}
  <2>1. /\ stale[s] = Absent /\ TakeNext(s, us) /\ us \in SUBSET Uploads
        /\ file' = file /\ point' = point /\ ready' = ready /\ unremoved' = unremoved
    BY <1>19 DEF Dispose, In, history
  <2>2. \A t \in Sessions : stale[t] # Absent => stale'[t] = stale[t]
    BY <2>1 DEF TakeNext, BlobTypeOK
  <2>3. stage'[v] = stage[v] \/ (stale'[s] # Absent /\ stale'[s].now = v)
    <3>1. CASE UNCHANGED stage
      BY <3>1
    <3>2. ASSUME NEW u \in us, Becomes(u, "gone"),
                 stale' = [stale EXCEPT ![s] = [left |-> us \ {u}, now |-> u]]
          PROVE  stage'[v] = stage[v] \/ (stale'[s] # Absent /\ stale'[s].now = v)
      BY <2>1, <3>2, RemovalFacts DEF Becomes, BlobTypeOK
    <3> QED
      BY <2>1, <3>1, <3>2 DEF TakeNext
  <2> HIDE DEF us
  <2> QED
    BY <1>a, <2>1, <2>2, <2>3 DEF Held
<1>20. ASSUME NEW s \in Sessions, FileRemoved(s) PROVE Held(v)'
  <2> DEFINE us == stale[s].left
  <2>1. /\ TakeNext(s, us) /\ us \in SUBSET Uploads /\ stale[s].now \in Uploads
        /\ Writes(stale[s].now, Absent) /\ point' = point /\ ready' = ready
        /\ unremoved' = unremoved
    BY <1>20, StaleFacts DEF FileRemoved, history
  <2>2. \A t \in Sessions : t # s => stale'[t] = stale[t]
    BY <2>1 DEF TakeNext, BlobTypeOK
  <2>3. stage'[v] = stage[v] \/ (stale'[s] # Absent /\ stale'[s].now = v)
    <3>1. CASE UNCHANGED stage
      BY <3>1
    <3>2. ASSUME NEW u \in us, Becomes(u, "gone"),
                 stale' = [stale EXCEPT ![s] = [left |-> us \ {u}, now |-> u]]
          PROVE  stage'[v] = stage[v] \/ (stale'[s] # Absent /\ stale'[s].now = v)
      BY <2>1, <3>2, RemovalFacts DEF Becomes, BlobTypeOK
    <3> QED
      BY <2>1, <3>1, <3>2 DEF TakeNext
  <2>4. file'[v] # Absent => file[v] # Absent /\ stale[s].now # v
    BY <2>1 DEF Writes, BlobTypeOK
  <2> HIDE DEF us
  <2> QED
    BY <1>a, <2>1, <2>2, <2>3, <2>4 DEF Held
<1>21. ASSUME NEW s \in Sessions, Disposed(s) PROVE Held(v)'
  <2>1. /\ stale[s] = Free /\ stale' = [stale EXCEPT ![s] = Absent]
        /\ stage' = stage /\ file' = file /\ point' = point /\ ready' = ready
        /\ unremoved' = unremoved
    BY <1>21 DEF Disposed, uploadVars, history
  <2>2. \A t \in Sessions : stale[t] # Absent /\ stale[t].now = v => stale'[t] = stale[t]
    BY <2>1, RemovalFacts DEF BlobTypeOK
  <2> QED
    BY <1>a, <2>1, <2>2 DEF Held
<1>22. ASSUME NEW s \in Sessions, Resume(s) PROVE Held(v)'
  BY <1>22, <1>a DEF Resume, Held, Fresh, Placed, Whole, InCommit, BlobTypeOK, uploadVars,
     storeVars, history
<1>23. ASSUME NEW s \in Sessions, NEW c \in blobs, Refer(s, c) PROVE Held(v)'
  BY <1>23, <1>a DEF Refer, Held, Fresh, Placed, Whole, InCommit, BlobTypeOK, uploadVars,
     storeVars, history
<1>24. ASSUME Cleared PROVE Held(v)'
  BY <1>24, <1>a DEF Cleared, Held, Fresh, Placed, Whole, InCommit, BlobTypeOK, uploadVars,
     storeVars, history
<1>25. ASSUME Crash PROVE Held(v)'
  BY <1>25, <1>a DEF Crash, Held, Fresh, Placed, Whole, InCommit, BlobTypeOK, uploadVars,
     storeVars, history
<1>27. ASSUME NEW u \in Uploads, StartFails(u) PROVE Held(v)'
  BY <1>27, <1>a DEF StartFails, Becomes, Held, Fresh, Placed, Whole, InCommit, BlobTypeOK,
     uploadVars, storeVars, history
<1>28. ASSUME NEW u \in Uploads, DropFails(u) PROVE Held(v)'
  BY <1>28, <1>a DEF DropFails, Running, Settles, Fault, FaultLeaving, Held, Fresh, Placed,
     Whole, InCommit, BlobTypeOK, uploadVars, storeVars, history
<1>29. ASSUME NEW u \in Uploads, AbortFails(u) PROVE Held(v)'
  BY <1>29, <1>a DEF AbortFails, Running, Settles, Fault, FaultLeaving, Held, Fresh, Placed,
     Whole, InCommit, BlobTypeOK, uploadVars, storeVars, history
<1>30. ASSUME NEW s \in Sessions, RemoveFails(s) PROVE Held(v)'
  BY <1>30, <1>a, StaleFacts DEF RemoveFails, Fault, FaultLeaving, Held, Fresh, Placed,
     Whole, InCommit, BlobTypeOK, uploadVars, storeVars, history
<1>31. ASSUME ClearFails PROVE Held(v)'
  BY <1>31, <1>a DEF ClearFails, Fault, FaultLeaving, Held, Fresh, Placed, Whole, InCommit,
     BlobTypeOK, uploadVars, storeVars, history
<1>26. CASE UNCHANGED blobVars
  BY <1>26, <1>a DEF blobVars, Held, Fresh, Placed, Whole, InCommit, BlobTypeOK, uploadVars,
     storeVars, history
<1> QED
  BY <1>1, <1>2, <1>3, <1>4, <1>5, <1>6, <1>7, <1>8, <1>9, <1>10, <1>11, <1>12, <1>13,
     <1>14, <1>15, <1>16, <1>17, <1>18, <1>19, <1>20, <1>21, <1>22, <1>23, <1>24, <1>25,
     <1>26, <1>27, <1>28, <1>29, <1>30, <1>31 DEF BlobNext, UploadNext, Fails

\* What is owned or referred to stays stored.
LEMMA StoredStep ==
    ASSUME BlobTypeOK, UploadInv, StoredInv, [BlobNext]_blobVars
    PROVE  StoredInv'
<1> USE ContentFacts
<1>1. ASSUME NEW u \in Uploads, Start(u) PROVE StoredInv'
  BY <1>1 DEF Start, Becomes, Initializes, StoredInv, BlobTypeOK, uploadVars, storeVars,
     history
<1>2. ASSUME NEW u \in Uploads, Admit(u) PROVE StoredInv'
  BY <1>2 DEF Admit, Becomes, StoredInv, BlobTypeOK, uploadVars, storeVars, history
<1>3. ASSUME NEW u \in Uploads, Created(u) PROVE StoredInv'
  BY <1>3 DEF Created, Becomes, Writes, StoredInv, BlobTypeOK, uploadVars, storeVars,
     history
<1>4. ASSUME NEW u \in Uploads, CreateFails(u) PROVE StoredInv'
  BY <1>4 DEF CreateFails, Becomes, Writes, Fault, FaultLeaving, StoredInv, BlobTypeOK,
     uploadVars, storeVars, history
<1>5. ASSUME NEW u \in Uploads, Unknown(u) PROVE StoredInv'
  BY <1>5 DEF Unknown, Settles, StoredInv, BlobTypeOK, uploadVars, storeVars, history
<1>6. ASSUME NEW u \in Uploads, AppendRefused(u) PROVE StoredInv'
  BY <1>6 DEF AppendRefused, Running, Settles, StoredInv, BlobTypeOK, uploadVars, storeVars,
     history
<1>7. ASSUME NEW u \in Uploads, AppendBegins(u) PROVE StoredInv'
  BY <1>7 DEF AppendBegins, Running, Reaches, NextChunk, StoredInv, BlobTypeOK, uploadVars,
     storeVars, history
<1>8. ASSUME NEW u \in Uploads, Appended(u) PROVE StoredInv'
  BY <1>8 DEF Appended, Running, Settles, Writes, StoredInv, BlobTypeOK, uploadVars,
     storeVars, history
<1>9. ASSUME NEW u \in Uploads, AppendFails(u) PROVE StoredInv'
  BY <1>9 DEF AppendFails, Running, Settles, Fault, FaultLeaving, StoredInv, BlobTypeOK,
     uploadVars, storeVars, history
<1>10. ASSUME NEW u \in Uploads, CommitBegins(u) PROVE StoredInv'
  BY <1>10 DEF CommitBegins, Running, Becomes, Reaches, StoredInv, BlobTypeOK, uploadVars,
     storeVars, history
<1>11. ASSUME NEW u \in Uploads, CommitReads(u) PROVE StoredInv'
  BY <1>11 DEF CommitReads, Running, Reaches, StoredInv, BlobTypeOK, uploadVars, storeVars,
     history
<1>12. ASSUME NEW u \in Uploads, CommitMoves(u) PROVE StoredInv'
  BY <1>12 DEF CommitMoves, Running, Reaches, Writes, StoredInv, BlobTypeOK, uploadVars,
     storeVars, history
<1>13. ASSUME NEW u \in Uploads, Committed(u) PROVE StoredInv'
  <2>1. /\ bytes[u] = Content[u] /\ Content[u] \in blobs /\ SessionOf[u] \in Sessions
    BY <1>13 DEF Committed, Synced, Running, UploadInv, Whole
  <2>2. /\ synced' = synced \cup {Content[u]} /\ blobs' = blobs /\ referenced' = referenced
        /\ owned' = [owned EXCEPT ![SessionOf[u]] = @ \cup {Content[u]}]
    BY <1>13, <2>1 DEF Committed
  <2> QED
    BY <2>1, <2>2 DEF StoredInv, BlobTypeOK
<1>14. ASSUME NEW u \in Uploads, CommitFails(u) PROVE StoredInv'
  BY <1>14 DEF CommitFails, Running, Reaches, Fault, FaultLeaving, StoredInv, BlobTypeOK,
     uploadVars, storeVars, history
<1>15. ASSUME NEW u \in Uploads, Drop(u) PROVE StoredInv'
  BY <1>15 DEF Drop, Running, Writes, Settles, StoredInv, BlobTypeOK, uploadVars, storeVars,
     history
<1>16. ASSUME NEW u \in Uploads, AbortBegins(u) PROVE StoredInv'
  BY <1>16 DEF AbortBegins, Running, Reaches, StoredInv, BlobTypeOK, uploadVars, storeVars,
     history
<1>17. ASSUME NEW u \in Uploads, Aborted(u) PROVE StoredInv'
  BY <1>17 DEF Aborted, Running, Becomes, Writes, Settles, StoredInv, BlobTypeOK,
     uploadVars, storeVars, history
<1>18. ASSUME NEW u \in Uploads, NEW op \in Operations(u), Call(u, op) PROVE StoredInv'
  BY <1>18 DEF Call, Operations, StoredInv, BlobTypeOK, uploadVars, storeVars, history
<1>19. ASSUME NEW s \in Sessions, Dispose(s) PROVE StoredInv'
  BY <1>19 DEF Dispose, TakeNext, Becomes, In, Free, StoredInv, BlobTypeOK, uploadVars,
     storeVars, history
<1>20. ASSUME NEW s \in Sessions, FileRemoved(s) PROVE StoredInv'
  BY <1>20 DEF FileRemoved, TakeNext, Becomes, Writes, Free, StoredInv, BlobTypeOK,
     uploadVars, storeVars, history
<1>21. ASSUME NEW s \in Sessions, Disposed(s) PROVE StoredInv'
  BY <1>21 DEF Disposed, StoredInv, BlobTypeOK, uploadVars, storeVars, history
<1>22. ASSUME NEW s \in Sessions, Resume(s) PROVE StoredInv'
  BY <1>22 DEF Resume, StoredInv, BlobTypeOK, uploadVars, storeVars, history
<1>23. ASSUME NEW s \in Sessions, NEW c \in blobs, Refer(s, c) PROVE StoredInv'
  BY <1>23 DEF Refer, StoredInv, BlobTypeOK, uploadVars, storeVars, history
<1>24. ASSUME Cleared PROVE StoredInv'
  BY <1>24 DEF Cleared, StoredInv, BlobTypeOK, uploadVars, storeVars, history
<1>25. ASSUME Crash PROVE StoredInv'
  BY <1>25 DEF Crash, StoredInv, BlobTypeOK, uploadVars, storeVars, history
<1>27. ASSUME NEW u \in Uploads, StartFails(u) PROVE StoredInv'
  BY <1>27 DEF StartFails, Becomes, StoredInv, BlobTypeOK, uploadVars, storeVars, history
<1>28. ASSUME NEW u \in Uploads, DropFails(u) PROVE StoredInv'
  BY <1>28 DEF DropFails, Running, Settles, Fault, FaultLeaving, StoredInv, BlobTypeOK,
     uploadVars, storeVars, history
<1>29. ASSUME NEW u \in Uploads, AbortFails(u) PROVE StoredInv'
  BY <1>29 DEF AbortFails, Running, Settles, Fault, FaultLeaving, StoredInv, BlobTypeOK,
     uploadVars, storeVars, history
<1>30. ASSUME NEW s \in Sessions, RemoveFails(s) PROVE StoredInv'
  BY <1>30, StaleFacts DEF RemoveFails, Fault, FaultLeaving, StoredInv, BlobTypeOK,
     uploadVars, storeVars, history
<1>31. ASSUME ClearFails PROVE StoredInv'
  BY <1>31 DEF ClearFails, Fault, FaultLeaving, StoredInv, BlobTypeOK, uploadVars,
     storeVars, history
<1>26. CASE UNCHANGED blobVars
  BY <1>26 DEF blobVars, StoredInv, BlobTypeOK, uploadVars, storeVars, history
<1> QED
  BY <1>1, <1>2, <1>3, <1>4, <1>5, <1>6, <1>7, <1>8, <1>9, <1>10, <1>11, <1>12, <1>13,
     <1>14, <1>15, <1>16, <1>17, <1>18, <1>19, <1>20, <1>21, <1>22, <1>23, <1>24, <1>25,
     <1>26, <1>27, <1>28, <1>29, <1>30, <1>31 DEF BlobNext, UploadNext, Fails

Busy == In("active") \cup In("creating")

\* Fewer uploads under way stay below the limit.
LEMMA FewerBusy ==
    ASSUME LimitInv, Busy' \in SUBSET Busy
    PROVE  LimitInv'
<1>1. /\ IsFiniteSet(Busy) /\ Cardinality(Busy) <= MaxActive
      /\ MaxActive \in Nat /\ Cardinality(Busy) \in Nat
  BY BlobBounds, FS_CardinalityType DEF LimitInv, Busy
<1>2. IsFiniteSet(Busy') /\ Cardinality(Busy') <= Cardinality(Busy)
  BY <1>1, FS_Subset
<1>3. Cardinality(Busy') \in Nat
  BY <1>2, FS_CardinalityType
<1> QED
  BY <1>1, <1>2, <1>3 DEF LimitInv, Busy

\* start() counts the uploads under way and takes a place in one step.
LEMMA LimitStep ==
    ASSUME BlobTypeOK, LimitInv, [BlobNext]_blobVars
    PROVE  LimitInv'
<1>1. ASSUME NEW u \in Uploads, Start(u) PROVE LimitInv'
  BY <1>1, FewerBusy DEF Start, Becomes, Initializes, Busy, In, BlobTypeOK, uploadVars,
     storeVars, history
<1>2. ASSUME NEW u \in Uploads, Admit(u) PROVE LimitInv'
  <2>1. CASE Counted >= MaxActive
    BY <1>2, <2>1, FewerBusy DEF Admit, Becomes, Busy, In, BlobTypeOK
  <2>2. CASE ~(Counted >= MaxActive)
    <3>1. Busy' = Busy \cup {u} /\ u \notin Busy
      BY <1>2, <2>2 DEF Admit, Becomes, Busy, In, BlobTypeOK
    <3>2. IsFiniteSet(Busy) /\ Cardinality(Busy) \in Nat /\ Counted = Cardinality(Busy)
      BY FS_CardinalityType DEF LimitInv, Busy, Counted
    <3>3. IsFiniteSet(Busy') /\ Cardinality(Busy') = Cardinality(Busy) + 1
      BY <3>1, <3>2, FS_AddElement
    <3>4. Cardinality(Busy') <= MaxActive
      BY <2>2, <3>2, <3>3, BlobBounds
    <3> QED
      BY <3>3, <3>4 DEF LimitInv, Busy
  <2> QED
    BY <2>1, <2>2
<1>3. ASSUME NEW u \in Uploads, Created(u) PROVE LimitInv'
  BY <1>3, FewerBusy DEF Created, Becomes, Writes, Busy, In, BlobTypeOK, uploadVars,
     storeVars, history
<1>4. ASSUME NEW u \in Uploads, CreateFails(u) PROVE LimitInv'
  BY <1>4, FewerBusy DEF CreateFails, Becomes, Writes, Fault, FaultLeaving, Busy, In,
     BlobTypeOK, uploadVars, storeVars, history
<1>5. ASSUME NEW u \in Uploads, Unknown(u) PROVE LimitInv'
  BY <1>5, FewerBusy DEF Unknown, Settles, Busy, In, BlobTypeOK, uploadVars, storeVars,
     history
<1>6. ASSUME NEW u \in Uploads, AppendRefused(u) PROVE LimitInv'
  BY <1>6, FewerBusy DEF AppendRefused, Running, Settles, Busy, In, BlobTypeOK, uploadVars,
     storeVars, history
<1>7. ASSUME NEW u \in Uploads, AppendBegins(u) PROVE LimitInv'
  BY <1>7, FewerBusy DEF AppendBegins, Running, Reaches, NextChunk, Busy, In, BlobTypeOK,
     uploadVars, storeVars, history
<1>8. ASSUME NEW u \in Uploads, Appended(u) PROVE LimitInv'
  BY <1>8, FewerBusy DEF Appended, Running, Settles, Writes, Busy, In, BlobTypeOK,
     uploadVars, storeVars, history
<1>9. ASSUME NEW u \in Uploads, AppendFails(u) PROVE LimitInv'
  BY <1>9, FewerBusy DEF AppendFails, Running, Settles, Fault, FaultLeaving, Busy, In,
     BlobTypeOK, uploadVars, storeVars, history
<1>10. ASSUME NEW u \in Uploads, CommitBegins(u) PROVE LimitInv'
  BY <1>10, FewerBusy DEF CommitBegins, Running, Becomes, Reaches, Busy, In, BlobTypeOK,
     uploadVars, storeVars, history
<1>11. ASSUME NEW u \in Uploads, CommitReads(u) PROVE LimitInv'
  BY <1>11, FewerBusy DEF CommitReads, Running, Reaches, Busy, In, BlobTypeOK, uploadVars,
     storeVars, history
<1>12. ASSUME NEW u \in Uploads, CommitMoves(u) PROVE LimitInv'
  BY <1>12, FewerBusy DEF CommitMoves, Running, Reaches, Writes, Busy, In, BlobTypeOK,
     uploadVars, storeVars, history
<1>13. ASSUME NEW u \in Uploads, Committed(u) PROVE LimitInv'
  BY <1>13, FewerBusy DEF Committed, Synced, Running, Settles, Busy, In, BlobTypeOK,
     uploadVars, storeVars, history
<1>14. ASSUME NEW u \in Uploads, CommitFails(u) PROVE LimitInv'
  BY <1>14, FewerBusy DEF CommitFails, Running, Reaches, Fault, FaultLeaving, Busy, In,
     BlobTypeOK, uploadVars, storeVars, history
<1>15. ASSUME NEW u \in Uploads, Drop(u) PROVE LimitInv'
  BY <1>15, FewerBusy DEF Drop, Running, Writes, Settles, Busy, In, BlobTypeOK, uploadVars,
     storeVars, history
<1>16. ASSUME NEW u \in Uploads, AbortBegins(u) PROVE LimitInv'
  BY <1>16, FewerBusy DEF AbortBegins, Running, Reaches, Busy, In, BlobTypeOK, uploadVars,
     storeVars, history
<1>17. ASSUME NEW u \in Uploads, Aborted(u) PROVE LimitInv'
  BY <1>17, FewerBusy DEF Aborted, Running, Becomes, Writes, Settles, Busy, In, BlobTypeOK,
     uploadVars, storeVars, history
<1>18. ASSUME NEW u \in Uploads, NEW op \in Operations(u), Call(u, op) PROVE LimitInv'
  BY <1>18, FewerBusy DEF Call, Operations, Busy, In, BlobTypeOK, uploadVars, storeVars,
     history
<1>19. ASSUME NEW s \in Sessions, Dispose(s) PROVE LimitInv'
  BY <1>19, FewerBusy DEF Dispose, TakeNext, Becomes, In, Free, Busy, In, BlobTypeOK,
     uploadVars, storeVars, history
<1>20. ASSUME NEW s \in Sessions, FileRemoved(s) PROVE LimitInv'
  BY <1>20, FewerBusy DEF FileRemoved, TakeNext, Becomes, Writes, Free, Busy, In,
     BlobTypeOK, uploadVars, storeVars, history
<1>21. ASSUME NEW s \in Sessions, Disposed(s) PROVE LimitInv'
  BY <1>21, FewerBusy DEF Disposed, Busy, In, BlobTypeOK, uploadVars, storeVars, history
<1>22. ASSUME NEW s \in Sessions, Resume(s) PROVE LimitInv'
  BY <1>22, FewerBusy DEF Resume, Busy, In, BlobTypeOK, uploadVars, storeVars, history
<1>23. ASSUME NEW s \in Sessions, NEW c \in blobs, Refer(s, c) PROVE LimitInv'
  BY <1>23, FewerBusy DEF Refer, Busy, In, BlobTypeOK, uploadVars, storeVars, history
<1>24. ASSUME Cleared PROVE LimitInv'
  BY <1>24, FewerBusy DEF Cleared, Busy, In, BlobTypeOK, uploadVars, storeVars, history
<1>25. ASSUME Crash PROVE LimitInv'
  BY <1>25, FewerBusy DEF Crash, Busy, In, BlobTypeOK, uploadVars, storeVars, history
<1>27. ASSUME NEW u \in Uploads, StartFails(u) PROVE LimitInv'
  BY <1>27, FewerBusy DEF StartFails, Becomes, Busy, In, BlobTypeOK, uploadVars, storeVars,
     history
<1>28. ASSUME NEW u \in Uploads, DropFails(u) PROVE LimitInv'
  BY <1>28, FewerBusy DEF DropFails, Running, Settles, Fault, FaultLeaving, Busy, In,
     BlobTypeOK, uploadVars, storeVars, history
<1>29. ASSUME NEW u \in Uploads, AbortFails(u) PROVE LimitInv'
  BY <1>29, FewerBusy DEF AbortFails, Running, Settles, Fault, FaultLeaving, Busy, In,
     BlobTypeOK, uploadVars, storeVars, history
<1>30. ASSUME NEW s \in Sessions, RemoveFails(s) PROVE LimitInv'
  BY <1>30, FewerBusy, StaleFacts DEF RemoveFails, Fault, FaultLeaving, Busy, In,
     BlobTypeOK, uploadVars, storeVars, history
<1>31. ASSUME ClearFails PROVE LimitInv'
  BY <1>31, FewerBusy DEF ClearFails, Fault, FaultLeaving, Busy, In, BlobTypeOK, uploadVars,
     storeVars, history
<1>26. CASE UNCHANGED blobVars
  BY <1>26, FewerBusy DEF blobVars, Busy, In, BlobTypeOK, uploadVars, storeVars, history
<1> QED
  BY <1>1, <1>2, <1>3, <1>4, <1>5, <1>6, <1>7, <1>8, <1>9, <1>10, <1>11, <1>12, <1>13,
     <1>14, <1>15, <1>16, <1>17, <1>18, <1>19, <1>20, <1>21, <1>22, <1>23, <1>24, <1>25,
     <1>26, <1>27, <1>28, <1>29, <1>30, <1>31 DEF BlobNext, UploadNext, Fails

-----------------------------------------------------------------------------
\* The strengthening that the three theorems share.
LEMMA BlobInvariance == BlobSpec => []BlobInv
<1>1. BlobInit => BlobInv
  <2> SUFFICES ASSUME BlobInit PROVE BlobInv
    OBVIOUS
  <2>1. BlobTypeOK
    BY DEF BlobInit, BlobTypeOK, Positions
  <2>2. UploadInv
    BY ContentFacts DEF BlobInit, UploadInv, Fresh, Placed, Prefix, Whole, InCommit
  <2>3. HeldInv /\ StoredInv
    BY DEF BlobInit, HeldInv, Held, StoredInv
  <2>4. In("active") \cup In("creating") = {}
    BY DEF BlobInit, In
  <2>5. LimitInv
    BY <2>4, FS_EmptySet, BlobBounds DEF LimitInv
  <2> QED
    BY <2>1, <2>2, <2>3, <2>5 DEF BlobInv
<1>2. BlobInv /\ [BlobNext]_blobVars => BlobInv'
  BY BlobTypeStep, UploadStep, HeldStep, StoredStep, LimitStep DEF BlobInv
<1> QED
  BY <1>1, <1>2, PTL DEF BlobSpec

\* commit(), authorize() and assertOwned(): a content that a session owns or that its log
\* refers to is in the store and is what an upload of that session declared, whatever
\* faults, races and crashes came before.
THEOREM ReferencesStored == BlobSpec => []ReferencedIsStored
<1>1. BlobInv => ReferencedIsStored
  BY DEF BlobInv, StoredInv, ReferencedIsStored
<1> QED
  BY <1>1, BlobInvariance, PTL

\* start(): the limit on uploads holds although the check and the registration are
\* separated by an await.
THEOREM UploadsLimited == BlobSpec => []UploadLimit
<1>1. BlobInv => UploadLimit
  BY DEF BlobInv, LimitInv, UploadLimit
<1> QED
  BY <1>1, BlobInvariance, PTL

\* commit(), abort() and disposeSession(): whoever runs into whom, a file that is left in
\* the directory of uploads has someone who will remove it, unless its rm() failed.
THEOREM FilesHeld == BlobSpec => []NoLitter
<1>1. BlobInv => NoLitter
  BY DEF BlobInv, HeldInv, Held, InCommit, NoLitter
<1> QED
  BY <1>1, BlobInvariance, PTL

=============================================================================

----------------------------- MODULE BlobStore -----------------------------
(***************************************************************************)
(* Attachments of sessions (packages/daemon/src/blob-store.ts): chunked    *)
(* uploads into a temporary file each, committed by rename into a          *)
(* content-addressed directory, and owned by sessions.  The operations on  *)
(* one upload are serialized; start(), disposeSession() and the operations *)
(* on other uploads run between any two of their awaits.                   *)
(*                                                                         *)
(* A digest is the content it stands for.  A client sends the chunks of    *)
(* its content, each with the offset it has there, in any order and more   *)
(* than once.                                                              *)
(***************************************************************************)
EXTENDS Naturals, Sequences, FiniteSets

CONSTANTS Sessions, Uploads,
          SessionOf,   \* the session an upload belongs to
          Content,     \* the chunks of an upload, in order
          MaxActive,   \* MAX_ACTIVE_UPLOADS
          Absent,
          MaxWaiting,  \* bounds on operations queued on each upload
          MaxFaults,   \* bound on failed file operations
          MaxCrashes   \* bound on restarts of the daemon

ASSUME UploadsAssumption == /\ SessionOf \in [Uploads -> Sessions]
                            /\ \A u \in Uploads : Content[u] \in Seq(STRING) /\ Content[u] # <<>>
ASSUME AbsentAssumption == Absent \notin Uploads /\ Absent \notin [left : SUBSET Uploads, now : Uploads \cup {Absent}]
ASSUME BlobBounds == {MaxActive, MaxFaults, MaxCrashes} \subseteq Nat /\ MaxWaiting \in [Uploads -> Nat]

VARIABLES
    opened,       \* sessions of the manager
    stage,        \* of an upload: "new", "waiting", "creating", "active", "gone"
    offset,       \* upload.offset
    file,         \* the upload's file, or Absent
    chain,        \* operations queued on the upload, the running one first
    point,        \* where the running one stands
    bytes,        \* what commit() read
    blobs,        \* contents in the blob directory
    synced,       \* the ones whose entry survives a crash
    owned,        \* this.owned
    referenced,   \* contents the events of a session refer to
    stale,        \* what disposeSession() has yet to remove, the file in progress first
    ready,        \* uploadInitialization: "no", "clearing", "yes", "failed"
    unremoved,    \* history: uploads whose file an rm() failed to remove
    faults, crashes

uploadVars == <<stage, offset, file, chain, point, bytes>>
storeVars == <<blobs, synced, owned, referenced>>
history == <<unremoved, faults, crashes>>
blobVars == <<opened, uploadVars, storeVars, stale, ready, history>>

BlobInit ==
    /\ opened = Sessions
    /\ stage = [u \in Uploads |-> "new"] /\ offset = [u \in Uploads |-> 0]
    /\ file = [u \in Uploads |-> Absent] /\ chain = [u \in Uploads |-> <<>>]
    /\ point = [u \in Uploads |-> "ready"] /\ bytes = [u \in Uploads |-> Absent]
    /\ blobs = {} /\ synced = {} /\ owned = [s \in Sessions |-> {}] /\ referenced = [s \in Sessions |-> {}]
    /\ stale = [s \in Sessions |-> Absent] /\ ready = "no"
    /\ unremoved = {} /\ faults = 0 /\ crashes = 0

In(st) == {u \in Uploads : stage[u] = st}
Becomes(u, st) == stage' = [stage EXCEPT ![u] = st]
Writes(u, c) == file' = [file EXCEPT ![u] = c]

\* A file operation fails; the files of some uploads stay where they are.
FaultLeaving(us) ==
    /\ faults < MaxFaults /\ faults' = faults + 1
    /\ unremoved' = unremoved \cup us
    /\ UNCHANGED crashes

Fault == FaultLeaving({})

(***************************************************************************)
(* start()                                                                 *)
(***************************************************************************)
\* A first start since the daemon runs clears the directory of uploads.
Initializes(u) == IF ready = "no" THEN "clearing" ELSE ready

Start(u) ==
    /\ stage[u] = "new" /\ SessionOf[u] \in opened
    /\ Becomes(u, "waiting")
    /\ ready' = Initializes(u)
    /\ UNCHANGED <<opened, offset, file, chain, point, bytes, storeVars, stale, history>>

Cleared ==
    /\ ready = "clearing" /\ ready' = "yes"
    /\ file' = [u \in Uploads |-> Absent] /\ unremoved' = {}
    /\ UNCHANGED <<opened, stage, offset, chain, point, bytes, storeVars, stale, faults, crashes>>

\* rm() or mkdir() fails, and the rejected promise is the answer to every later start.
ClearFails ==
    /\ ready = "clearing" /\ ready' = "failed" /\ Fault
    /\ \E us \in SUBSET Uploads : file' = [u \in Uploads |-> IF u \in us THEN Absent ELSE file[u]]
    /\ UNCHANGED <<opened, stage, offset, chain, point, bytes, storeVars, stale>>

StartFails(u) ==
    /\ stage[u] = "waiting" /\ ready = "failed"
    /\ Becomes(u, "gone")
    /\ UNCHANGED <<opened, offset, file, chain, point, bytes, storeVars, stale, ready, history>>

ActiveOnly == Cardinality(In("active"))       \* mutant: starts in progress are not counted
Counted == Cardinality(In("active") \cup In("creating"))

Admit(u) ==
    /\ stage[u] = "waiting" /\ ready = "yes"
    /\ Becomes(u, IF Counted >= MaxActive THEN "gone" ELSE "creating")
    /\ UNCHANGED <<opened, offset, file, chain, point, bytes, storeVars, stale, ready, history>>

Created(u) ==
    /\ stage[u] = "creating"
    /\ Becomes(u, "active") /\ Writes(u, <<>>)
    /\ UNCHANGED <<opened, offset, chain, point, bytes, storeVars, stale, ready, history>>

\* open() or close() fails, and perhaps the rm() after it.
CreateFails(u) ==
    /\ stage[u] = "creating"
    /\ Becomes(u, "gone")
    /\ \/ Fault /\ UNCHANGED file
       \/ FaultLeaving({u}) /\ Writes(u, <<>>)
    /\ UNCHANGED <<opened, offset, chain, point, bytes, storeVars, stale, ready>>

(***************************************************************************)
(* serialized(): an operation runs when the ones before it have settled.   *)
(* Calls on an upload that is gone are refused and change nothing, so they *)
(* are made only while it is active; it may be gone when their turn comes. *)
(***************************************************************************)
Call(u, op) ==
    /\ stage[u] = "active" /\ SessionOf[u] \in opened
    /\ Len(chain[u]) < MaxWaiting[u]
    /\ chain' = [chain EXCEPT ![u] = Append(@, op)]
    /\ UNCHANGED <<opened, stage, offset, file, point, bytes, storeVars, stale, ready, history>>

Operations(u) == {[op |-> "append", n |-> n] : n \in DOMAIN Content[u]}
                 \cup {[op |-> op, n |-> 0] : op \in {"commit", "abort"}}

Running(u, op, st) == chain[u] # <<>> /\ Head(chain[u]).op = op /\ point[u] = st
Reaches(u, st) == point' = [point EXCEPT ![u] = st] /\ UNCHANGED chain
Settles(u) == chain' = [chain EXCEPT ![u] = Tail(@)] /\ point' = [point EXCEPT ![u] = "ready"]

\* upload(): the upload is not in the map any more.
Unknown(u) ==
    /\ chain[u] # <<>> /\ point[u] = "ready" /\ stage[u] # "active"
    /\ Settles(u)
    /\ UNCHANGED <<opened, stage, offset, file, bytes, storeVars, stale, ready, history>>

\* append(): a chunk that is not the next one is refused.
NextChunk(u) == Head(chain[u]).n = offset[u] + 1

AppendRefused(u) ==
    /\ Running(u, "append", "ready") /\ stage[u] = "active"
    /\ ~NextChunk(u) \/ offset[u] >= Len(Content[u])
    /\ Settles(u)
    /\ UNCHANGED <<opened, stage, offset, file, bytes, storeVars, stale, ready, history>>

AppendBegins(u) ==
    /\ Running(u, "append", "ready") /\ stage[u] = "active"
    /\ NextChunk(u) /\ offset[u] < Len(Content[u])
    /\ Reaches(u, "writing")
    /\ UNCHANGED <<opened, stage, offset, file, bytes, storeVars, stale, ready, history>>

\* The file with the chunk at the offset; one that was removed stays removed.
Written(u) ==
    IF file[u] = Absent THEN Absent
    ELSE Append(SubSeq(file[u], 1, offset[u]), Content[u][Head(chain[u]).n])

Appended(u) ==
    /\ Running(u, "append", "writing")
    /\ Writes(u, Written(u)) /\ offset' = [offset EXCEPT ![u] = @ + 1]
    /\ Settles(u)
    /\ UNCHANGED <<opened, stage, bytes, storeVars, stale, ready, history>>

\* The file could not be opened, or the write or the sync failed.
AppendFails(u) ==
    /\ Running(u, "append", "writing")
    /\ (file[u] = Absent /\ UNCHANGED history) \/ Fault
    /\ file' \in {file, [file EXCEPT ![u] = Written(u)]}
    /\ Settles(u)
    /\ UNCHANGED <<opened, stage, offset, bytes, storeVars, stale, ready>>

\* commit(): the upload leaves the map before anything else.
CommitBegins(u) ==
    /\ Running(u, "commit", "ready") /\ stage[u] = "active"
    /\ Becomes(u, "gone")
    /\ Reaches(u, IF offset[u] = Len(Content[u]) THEN "reading" ELSE "dropping")
    /\ UNCHANGED <<opened, offset, file, bytes, storeVars, stale, ready, history>>

CommitReads(u) ==
    /\ Running(u, "commit", "reading")
    /\ bytes' = [bytes EXCEPT ![u] = file[u]]
    /\ Reaches(u, IF file[u] = Absent THEN "dropping" ELSE "moving")
    /\ UNCHANGED <<opened, stage, offset, file, storeVars, stale, ready, history>>

\* rename() replaces a blob of the same digest.
CommitMoves(u) ==
    /\ Running(u, "commit", "moving")
    /\ IF file[u] = Absent
       THEN Reaches(u, "dropping") /\ UNCHANGED <<file, blobs>>
       ELSE Reaches(u, "syncing") /\ Writes(u, Absent) /\ blobs' = blobs \cup {file[u]}
    /\ UNCHANGED <<opened, stage, offset, bytes, synced, owned, referenced, stale, ready, history>>

\* The directory is synced, the blob read back, and the session owns it.
Hasty(u) == Running(u, "commit", "moving") \/ Running(u, "commit", "syncing")
                                       \* mutant: a commit is over before the rename or the sync
Synced(u) == Running(u, "commit", "syncing")

Committed(u) ==
    /\ Synced(u)
    /\ synced' = synced \cup {bytes[u]}
    /\ owned' = [owned EXCEPT ![SessionOf[u]] = @ \cup {bytes[u]}]
    /\ Settles(u)
    /\ UNCHANGED <<opened, stage, offset, file, bytes, blobs, referenced, stale, ready, history>>

CommitFails(u) ==
    /\ Fault
    /\ \E st \in {"reading", "moving", "syncing"} : Running(u, "commit", st)
    /\ Reaches(u, "dropping")
    /\ UNCHANGED <<opened, stage, offset, file, bytes, storeVars, stale, ready>>

Abandon(u) ==     \* mutant: a failed commit leaves the file
    /\ Running(u, "commit", "dropping")
    /\ Settles(u)
    /\ UNCHANGED <<opened, stage, offset, file, bytes, storeVars, stale, ready, history>>

Drop(u) ==
    /\ Running(u, "commit", "dropping")
    /\ Writes(u, Absent)
    /\ Settles(u)
    /\ UNCHANGED <<opened, stage, offset, bytes, storeVars, stale, ready, history>>

\* The rm() of the failed commit fails too.
DropFails(u) ==
    /\ Running(u, "commit", "dropping") /\ FaultLeaving({u})
    /\ Settles(u)
    /\ UNCHANGED <<opened, stage, offset, file, bytes, storeVars, stale, ready>>

\* abort(): the file is removed and then the upload; when rm() fails, neither.
AbortBegins(u) ==
    /\ Running(u, "abort", "ready") /\ stage[u] = "active"
    /\ Reaches(u, "removing")
    /\ UNCHANGED <<opened, stage, offset, file, bytes, storeVars, stale, ready, history>>

Aborted(u) ==
    /\ Running(u, "abort", "removing")
    /\ Becomes(u, "gone") /\ Writes(u, Absent)
    /\ Settles(u)
    /\ UNCHANGED <<opened, offset, bytes, storeVars, stale, ready, history>>

AbortFails(u) ==
    /\ Running(u, "abort", "removing") /\ Fault
    /\ Settles(u)
    /\ UNCHANGED <<opened, stage, offset, file, bytes, storeVars, stale, ready>>

(***************************************************************************)
(* The sessions that own blobs                                             *)
(***************************************************************************)
\* A prompt refers to a blob: assertOwned() lets it through and its event is stored.
Refer(s, c) ==
    /\ s \in opened /\ c \in owned[s] /\ c \in blobs
    /\ referenced' = [referenced EXCEPT ![s] = @ \cup {c}]
    /\ UNCHANGED <<opened, uploadVars, blobs, synced, owned, stale, ready, history>>

\* disposeSession(): the active uploads of the session leave the map one by one, each
\* before its file is removed.
Free == [left |-> {}, now |-> Absent]
TakeNext(s, us) ==
    \/ us = {} /\ stale' = [stale EXCEPT ![s] = Free] /\ UNCHANGED stage
    \/ \E u \in us : /\ stale' = [stale EXCEPT ![s] = [left |-> us \ {u}, now |-> u]]
                     /\ Becomes(u, "gone")

Dispose(s) ==
    /\ s \in opened /\ stale[s] = Absent
    /\ owned' = [owned EXCEPT ![s] = {}]
    /\ TakeNext(s, {u \in In("active") : SessionOf[u] = s})
    /\ UNCHANGED <<opened, offset, file, chain, point, bytes, blobs, synced, referenced, ready, history>>

FileRemoved(s) ==
    /\ stale[s] \notin {Absent, Free}
    /\ Writes(stale[s].now, Absent)
    /\ TakeNext(s, stale[s].left)
    /\ UNCHANGED <<opened, offset, chain, point, bytes, storeVars, ready, history>>

\* rm() fails: disposeSession() ends, the rest of its uploads stay in the map, and the
\* manager keeps the session, which may be disposed again.
RemoveFails(s) ==
    /\ stale[s] \notin {Absent, Free} /\ FaultLeaving({stale[s].now})
    /\ stale' = [stale EXCEPT ![s] = Absent]
    /\ UNCHANGED <<opened, uploadVars, storeVars, ready>>

Disposed(s) ==
    /\ s \in opened /\ stale[s] = Free
    /\ stale' = [stale EXCEPT ![s] = Absent] /\ opened' = opened \ {s}
    /\ UNCHANGED <<uploadVars, storeVars, ready, history>>

\* resume: the references in the log are authorized again.
Resume(s) ==
    /\ s \notin opened
    /\ opened' = opened \cup {s}
    /\ owned' = [owned EXCEPT ![s] = @ \cup referenced[s]]
    /\ UNCHANGED <<uploadVars, blobs, synced, referenced, stale, ready, history>>

\* The daemon dies.  A rename that was not synced may be undone.
Crash ==
    /\ crashes < MaxCrashes /\ crashes' = crashes + 1
    /\ blobs' \in {blobs, synced}
    /\ opened' = {} /\ owned' = [s \in Sessions |-> {}]
    /\ stage' = [u \in Uploads |-> IF stage[u] = "new" THEN "new" ELSE "gone"]
    /\ chain' = [u \in Uploads |-> <<>>] /\ point' = [u \in Uploads |-> "ready"]
    /\ bytes' = [u \in Uploads |-> Absent]
    /\ stale' = [s \in Sessions |-> Absent] /\ ready' = "no"
    /\ UNCHANGED <<offset, file, synced, referenced, unremoved, faults>>

-----------------------------------------------------------------------------
UploadNext(u) ==
    \/ Admit(u) \/ Created(u) \/ Unknown(u)
    \/ AppendRefused(u) \/ AppendBegins(u) \/ Appended(u)
    \/ CommitBegins(u) \/ CommitReads(u) \/ CommitMoves(u) \/ Committed(u) \/ Drop(u)
    \/ AbortBegins(u) \/ Aborted(u)

Fails(u) == \/ StartFails(u) \/ CreateFails(u) \/ AppendFails(u) \/ CommitFails(u)
            \/ DropFails(u) \/ AbortFails(u)

BlobNext ==
    \/ \E u \in Uploads : \/ Start(u) \/ UploadNext(u) \/ Fails(u)
                          \/ \E op \in Operations(u) : Call(u, op)
    \/ \E s \in Sessions : \/ Dispose(s) \/ FileRemoved(s) \/ RemoveFails(s) \/ Disposed(s) \/ Resume(s)
                           \/ \E c \in blobs : Refer(s, c)
    \/ Cleared \/ ClearFails \/ Crash

BlobSpec == BlobInit /\ [][BlobNext]_blobVars

-----------------------------------------------------------------------------
\* A reference that a session owns, or that its log holds, is to a stored blob with the
\* content that some upload of the session declared, also after a crash (commit,
\* authorize, assertOwned).
ReferencedIsStored ==
    \A s \in Sessions : \A c \in owned[s] \cup referenced[s] :
        c \in blobs /\ \E u \in Uploads : SessionOf[u] = s /\ Content[u] = c

\* "Too many attachment uploads are active": start() awaits between its check and the
\* registration of the upload, and the limit holds all the same.
UploadLimit == Cardinality(In("active") \cup In("creating")) <= MaxActive

\* A file in the directory of uploads belongs to an upload that is active, or is about to
\* be removed, or could not be removed: failures and races leave nothing else behind but
\* what a crash leaves to initializeUploads().
NoLitter ==
    ready = "yes" => \A u \in Uploads : file[u] # Absent =>
        \/ stage[u] = "active" \/ point[u] # "ready" \/ u \in unremoved
        \/ \E s \in Sessions : stale[s] # Absent /\ stale[s].now = u

=============================================================================

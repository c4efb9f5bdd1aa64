# Axl: a TLA+ model of the daemon, its sessions and its clients

Axl is a coding agent split into a long-running daemon and thin clients. Clients
send requests over a socket; the daemon journals the ones that change something,
runs model turns and tools over an append-only session log, and streams the
log back. This project models the part of it that has to be right when requests
race, connections break, disks fail and processes die: the command journal, the
session log, the turn loop, the manager that decides who owns a session's branch,
its prompt queue and questions, subscriptions from the daemon to the projection in
the client, the client's retries, attachments, and the data directory with its lock
and its offline migration.

## 1. The system and its parts

| Part | State | Operations | Talks to |
|---|---|---|---|
| Command journal, `packages/daemon/src/command-journal.ts` | `commands.jsonl`, `entries` (acceptance, completion, running promise), promise chain `tail` | `open`, `reconcile`, `execute`, `accept` | called by `Daemon.executeRequest`; runs the effect it is given |
| Session log, `packages/kernel/src/jsonl-event-log.ts` | the JSONL file, promise chain per instance | `open`, `read`, `append`, `drain` | called by `AgentSession.append` and `open` |
| Agent session, `packages/kernel/src/agent-session.ts` (with `session-tree.ts`, `replay.ts`) | `tip`, `messages`, `activeOperation`, steering and follow-up queues | `open`, `runTurn`, `continueQueued`, `steer`, `followUp`, `record*`, `runShell`, `compact`, `close` | model port, tools, session log |
| Session manager, `packages/daemon/src/session-manager.ts` | per session: `activeTurn`, `rebuilding`, `interruptDelivery`, `queue`, `queueDraining`, `disposing`, `interactions`, ... | `send`, `shell`, `compact`, `enqueue`, `requeue`, `interact`, `respondToInteraction`, `interruptAndDeliver`, `interrupt`, `reload`, `configure`, `dispose`, ... | called by the daemon's dispatch and by the queue drain |
| Daemon, `packages/daemon/src/daemon.ts` | connections, admitted requests, subscriptions, cursors, lifecycle | `start`, `stop`, `handleLine`, `executeRequest`, `subscribe`, `snapshotPage`, `acknowledge`, `unsubscribe` | everything above |
| SDK subscription, `packages/sdk/src/subscription.ts`, `projector.ts` | projection, generation, acknowledged cursor, sequence | `start`, `reconnect`, `establish`, `applyEvent`, recovery, `close` | the daemon's subscriptions, through the client |
| SDK client, `packages/sdk/src/client.ts`, `delivery.ts` | transport, pending requests, `reconnectPromise` | `request`, `reconnect`, `fail`, `close`, `deliverPrompt` | the daemon |
| Data-directory lock, `packages/daemon/src/data-directory-lock.ts` | the lock file | `acquire`, `release` | daemon and migration |
| Event migration, `packages/daemon/src/event-migration.ts` | backup, staging, blobs, pending marker, target log, manifest | `migrateSessionEvents`, `scanLegacyEvents` at startup | the lock |
| Blob store, `packages/daemon/src/blob-store.ts` | upload files, blobs, `owned` | `start`, `append`, `commit`, `abort`, `disposeSession` | session manager |
| Workspace service, artifacts, protocol, runtime, sandbox, providers, extensions, CLI, TUI, web | mostly stateless, or process and network I/O | | |

What is hard in it. Each process runs on one event loop, so code between two
`await`s is atomic and every `await` is a place where any other request may run.
Fields are checked before an `await` and used after it (the tip of the branch,
the queue, the owner, the generation of a view, the number of uploads). Several
actors share a session: a turn, the queue drain, requests of several clients, a
rebuild, disposal. Files are written by append and sync or published by rename, and
each writer has its own idea of recovery. A process may die anywhere, startup
included, and a connection may break with requests under way. PROJECT.json lists
the hazards line by line.

What makes each part correct:

* journal: an effect is accepted on disk first, runs once, and its outcome never
  changes for any retry, across crashes;
* log: what was acknowledged is there in order, what was rejected is not, a crash
  damages the last line only, and damage is never read as a shorter log;
* agent session: a log replay accepts, every tool result answers a call on its
  branch, turns end with a terminal event, queued input is neither lost nor doubled;
* manager: one owner of the branch, reservations are kept and released, queued
  prompts run once and never by themselves after a restart, the first answer to a
  question wins, disposal leaves nothing behind;
* subscriptions: a view has no holes, is never silently behind, and resumes only
  from what it has projected;
* client: content is accepted once, what the user is shown is true, every delivery
  comes to an end;
* data directory: one process at a time, a manifest vouches for its files, work is
  not removed;
* blobs: a reference is to stored content, limits hold, no file is left behind that
  could be removed.

## 2. Modules

| Module | Models | Kind |
|---|---|---|
| `CommandJournal` | the journal with its callers, `session.send` as the effect, startup | component |
| `IdempotentCommands` | what a retrying client is promised | abstract: implemented by `CommandJournal`, relied on by `Client` |
| `CommandJournalProofs` | TLAPS proofs | proofs |
| `EventLog` | the session log over the bytes of its file | component |
| `DurableLog` | the contract of the log | abstract, implemented by `EventLog` |
| `EventLogProofs` | TLAPS proofs | proofs |
| `AgentSession` | the turn loop over one branch, with recovery | component |
| `AgentSessionProofs` | TLAPS proofs | proofs |
| `SessionManager` | ownership, delivery, interrupt, rebuild, disposal of one session | component |
| `SessionManagerProofs` | TLAPS proofs | proofs |
| `Interactions` | questions of a turn: `interact`, `respondToInteraction` | component |
| `PromptQueue` | the canonical queue over restarts; extends `Interactions`, whose questions its turns ask | composition |
| `PromptDeliveryProofs` | TLAPS proofs about the way of a prompt: the two, and `Client` | proofs |
| `DaemonSubscriptions` | subscriptions and cursors of the daemon | component |
| `Subscription` | the SDK's view over the client; extends `DaemonSubscriptions` | composition |
| `SubscriptionProofs` | TLAPS proofs about the two: frames, projection, requests, reports | proofs |
| `SubscriptionTurnProofs` | the same: the order in which superseded and current work await the daemon | proofs |
| `Client` | the SDK's client and `deliverPrompt` against `IdempotentCommands` | composition |
| `DataDirectoryLock` | the lock file | component |
| `EventMigration` | the migration and the daemon as users of the lock; extends `DataDirectoryLock` | composition |
| `BlobStore` | attachments | component |
| `StoreProofs` | TLAPS proofs about the three: lock, migration and attachments | proofs |
| `MC*` | constants for TLC | instances |

Definitions a comment marks as a *mutant* are the wrong variant of the definition
that follows (a dropped guard, a missing reset); no specification uses them. They
document which mistake each property would catch.

### CommandJournal

A call is one RPC that reaches `execute()`. `Submit` queues `accept()` on the
promise chain `tail`; the head of the chain is settled by `AcceptExisting`,
`AcceptFresh` or `AcceptFails`. `Dispatch` is the code after `await accept()`:
replay the completion, join the running promise, or run the effect. The effect is
`SessionManager.send`: `SendRecorded` (evidence found: finish or abort the turn),
`SendPrepares` (none found: the awaits on blobs, the claim of the branch and the
checkpoint follow), `SendStarts` (the turn stores the user message, without another
look at the log), `SendRefused`, and `SendEnds`: done, aborted, or a rejection after
the message was stored. `Finish` queues the completion;
`CompletionSynced` is its append and `Settle` the assignment and the resolution of
every joined call, which are two steps because a retry may run in between.
`Crash`, `Open`, `Reconcile*` and `Serve` are process death and startup.

The file is a sequence of lines plus a flag for bytes behind the last newline. An
interrupted append leaves nothing, a fragment or the whole line. A line appended
behind a fragment is one that does not parse.

Abstraction: a request is its key and its hash; outcomes are done, aborted or
rejected. Reconciliation is modelled for `session.send`; the other methods differ
in the evidence they look for. A `SendRefused` stands for everything in `send()` that
throws and records nothing: its guards, the check of blobs, and the append of the
user message or of the abort of a recovered turn.

### EventLog

The line of an event is two cells, the second with the newline, so that a write
can stop in the middle of a line. `bytes` is what processes see and `disk` what
the last sync made durable; a crash leaves `disk` plus a prefix of what was
added after it. That a crash keeps a *prefix* of unsynced bytes is an assumption
about the file system. `Stat`, `Write`, `Sync`, `WriteFails`, `Rollback` and
`RollbackFails` are the awaits of `appendDurably`; `ReadFile` and `TruncateTail`
those of `readAndRecover`. Each writer is one instance with its own chain. A file with
a line that does not parse (`Decodable`) gives a reader nothing: `Decoded` is empty,
as `decodeEventLogBytes` throws.

### AgentSession

An event's id is its position. `Call` links an event to the tip it finds and
queues its write; `Store` is the completion of the oldest write, which moves the
tip, and the continuation of its caller up to the next append (`AfterUser`,
`AfterAssistant`, `AfterResult`, `AfterOther`, `Boundary`). `Completes` and
`Fails` are the model stream, with any number of tool calls and any stop reason;
"length" behaves as "stop". `Record` is an event the daemon appends beside the
turn. `Open`, `RecoverCall`, `Opened`, `AbortRecoveredTurn` and `Serve` are
recovery. Tool call ids are unique; a response that repeats an id is not modelled.
Recovery appends are one step each: nobody else has the session yet.

### SessionManager

One managed session. Operations are grouped by the request that makes them
(`Sends`, `Items` of the queue, `Deliveries`, `Shells`, which also stand for
compactions, `Rebuilds`), and `pc` says where each one stands. Shared fields have
the names of the code. Continuations that run as microtasks (the drain's next
turn, a delivery whose target ended, dispose() once what it awaits has happened)
run before any other callback: `Quiet` says that none is due, and every other
action waits for it. `session.send` is admitted first and enters `send()` once its
acceptance is journalled; a delivery reserves the branch at admission.
`Targets` is `interruptTargetOperationId`: the active operation, the delivery,
or a request still in the daemon's admitted map, which holds a request until
its outcome is journalled.

### PromptQueue and Interactions

Both share `tail`, the session's appends in flight in the order they were made; an
action `...Stored` is the completion of the first one and what its caller does next.
The log is kept per item (`life`) and per question (`recorded`), which is all that
`enqueue`, `requeue`, `send` and `respondToInteraction` look at. `Requeue` checks
that the item is paused when it is called and queues it when its append is
stored. `Started` is `queue.started` stored and the look of `send()` for prior
evidence of the operation. A question that is rejected while its request is still
being appended has no handler: that ends the process, and `RejectOrDie` takes it
as a crash. `Crash` may leave the first append stored although nobody heard of it.
`Resume`, `Cancel`, `Opened` and `Pause` are the opening of the session.

### DaemonSubscriptions and Subscription

One session with events numbered from 0, one client, any number of connections one
after the other. A cursor is the subscription it was made for and its position;
`cursors` holds the daemon's map, each with the time it was made (`at`), which is the
map's insertion order; at most `CursorLimit` of them. `subs` has every subscription
ever made. `EventStored` delivers to active subscriptions and buffers for the others,
up to `TailLimit`; `Acknowledge` of the boundary activates one and sends its tail.

An activity of the client (`establish()` run by a reconnect, "main", or by a recovery;
the chain of deliveries; `close()`) awaits at most one request, so `calls` has one
entry for each. `ahead` keeps the order of the connection: a request is executed when
those sent before it were, and its response taken when theirs were. `events` has the
frames under way of each subscription; they may arrive before or after a response that
was sent beside them, as the listener runs before the code that awaits. `Settled` says
that what waits for nothing has run, which is when the event loop reads the socket.

`Fresh` is the check of `closed` and `generation` that follows most awaits. `Throw` is a
rejected `establish()`. A view that lost its listener and was told so has `reported`
set; `overrun` records that a superseded run has moved `this.sequence` (§3).
`Reconnect` is `AxlClient.reconnect`, which restores registered views; `Rebind` is an
application that hands a new client to the view. After `snapshot_required` a second
`subscribe` that is refused throws without `unbind()` (`subscription.ts:226`). The
listener it leaves only holds back events, for an `establish()` that is over, and the
next `establish()` or `close()` removes it; `OnRefused` counts it as no listener, which
is what `LossReported` has to assume of it.

### Client

A delivery is one `deliverPrompt`; `attempt` 0 is a request without a key, 1 the
mutation and 2 its retry. `reconnecting` is where the shared `reconnectPromise`
stands. `Fail` rejects what is pending and runs the catch block of each request, which
may start a reconnect. The daemon is `IdempotentCommands` by `INSTANCE`: `Arrive`
binds a key, `Decide` fixes its outcome, `DaemonResponds` answers on the connection the
request came by, if that is still there. An outcome that is a failure may be of a
prompt whose content was stored: `send()` also throws after that
(`session-manager.ts:1774-1795`), so `Decide` counts it as taken or not. `Turned` is a
request refused before the daemon looks at its key, for any of `EarlyRefusals`: too
many requests pending, a daemon that stops, a capability that was not granted, a
session that is not open, an interrupt that another delivery has reserved.

### DataDirectoryLock and EventMigration

Each file-system call on the lock is a step, and a process may die between two. A
process is one lifetime of a pid; reuse of pids is not modelled. `clobbered` records
that the lock of a live process was unlinked. The users are migrations of one
source, whose target has an identity derived from the source, and the daemon. A file
is torn from its creation to its sync and stays so when the writer dies or fails.
`used` says that a client worked in the migrated session.

### BlobStore

A content is a sequence of chunks and stands for its digest. Operations on an upload
are serialized (`chain`), `point` is the await the running one stands at, and
`disposeSession()` and `start()` run between any two. `synced` is what a crash cannot
undo. Each `rm()` may fail: in `disposeSession()` that ends the disposal with the other
uploads still active and the session still there (`RemoveFails`), in `abort()` it keeps
the upload (`AbortFails`), after a failed commit or start the file stays (`DropFails`,
`CreateFails`), and at the first start every later one is rejected too (`ClearFails`,
`StartFails`: the rejected promise is kept). `unremoved` has the uploads whose file
was left like that.

## 3. Runs

Passing runs (distinct states in parentheses):

| Run | Bounds | Shows |
|---|---|---|
| `journal` (423 k) | 1 key, a request, 2 retries, a conflicting request, 2 failed appends, 2 crashes | `AtMostOnce`, `SingleFlight`, `StableOutcome`, `JournalReadable`, `EveryCallSettles`; refinement of `IdempotentCommands` |
| `turns` (3.6 M) | 1 prompt and any continuation, 2 tool calls, 1 steering or follow-up, 1 recorder beside the turn, 1 failed append | `AtMostOneToolAfterAbort`, `QueuedInputConserved`, `TurnEndsTerminal` |
| `recovery` (134 k) | 1 prompt, 2 calls, 2 attempts, 1 crash, 1 failed append | `ReplayIntegrity`, `ContextMatchesLog`, `TurnEnds` |
| `log` (87 k) | 3 events, 1 instance, 2 I/O errors, a failed rollback, 2 crashes, 1 read | `StoredSurvives`, `AppendsSettle`; refinement of `DurableLog` |
| `ownership` (804 k) | one of each operation, blobs on the queued one, 1 steering message, 1 interrupt, a client dispose | `OneOwner`, `ReservationHolds` |
| `progress` (62 k) | a send, 2 queued prompts, a delivery, 1 failure, shutdown | `DisposedIsQuiet`, `QueueDrains`, `DeliveryReleased`, `DisposeEnds` |
| `subscription` (267 k) | 2 to 4 events, pages of 1, a tail of 1, 3 cursors, 2 faults (lost connection, restart, expiry of a cursor or a snapshot, a cursor of another client), close | `NoHoles`, `QuietIsCurrent`, `ResumeIsSafe`, `LossReported`, `CatchesUp` |
| `data_directory` (383 k) | 2 migrations, a daemon, 2 deaths, 1 failed write | `Exclusion`, `ManifestMeansComplete`, `WorkSurvives` |
| `prompt_queue` (486 k) | 2 items, 2 requeues of one, a question with 2 answers, 2 crashes, 1 failed append, disposal | `RunsOnce`, `NeverImplicit`, `QueuedIsHeld`, `FirstAnswerWins`, `AsksEnd` |
| `blobs` (1.4 M, with symmetry) | 2 uploads of the same 2 chunks, 1 active at a time, 2 queued operations each, 2 failures, 1 crash | `ReferencedIsStored`, `UploadLimit`, `NoLitter` |
| `client` (682 k) | a prompt and a steering message, 2 closed connections, 1 other failure, close | `TakenOnce`, `AnswersHold`, `SettledOrStranded` |

Why these bounds. Every property relates at most two requests and one thing that
happens between them, so two requests of the kind in question and one of each
rival reach the cases; the second crash lets recovery itself be interrupted, and
the second tool call gives a batch a middle. In `subscription` pages and the tail are
at their smallest so that one event overflows the tail and a snapshot needs several
pages; two faults let the second hit the recovery from the first. In
`data_directory` two deaths leave a stale lock for the third process with a migration
cut off at any step. Deadlock is not checked: the requests are finite and the system
may then rest.

One run finds what the code does against what its comments say (PROJECT.json,
`findings`, has the quotes and lines):

* `fork`: an event recorded while a `tool.call` is being appended takes the same
  parent; the `tool.result` then has no call on its branch and the session does
  not open again.

### Known disagreements

These statements are in the modules and TLC refutes each of them in the small instance
named here (constants not named are empty, 0 or FALSE):

* `SessionManager.QueuedPromptRuns` (`Sends = {s1}`, `Items = {q1}`). The drain takes
  an item off the queue and awaits `queue.started` before it claims the branch
  (`session-manager.ts:1829`); a send that claims it in between makes the prompt fail
  with `queued_prompt_failed`. `docs/architecture/web-delivery.md:107`: "The daemon
  executes queued items in priority order after the active operation finishes".
* `SessionManager.InterruptHeeded` (as a PROPERTY, `Sends = {s1}`, `MaxInputs = 1`,
  `MaxInterrupts = 1`). `interrupt()` answers "not interrupted" as soon as a terminal
  message exists under the operation (`session-manager.ts:2132`), which a turn that
  goes on with queued input has. `packages/daemon/test/daemon.test.ts:2301`: "interrupt
  aborts the active operation from another connection".
* `EventLog.StoredSurvives` with two instances (`Events = {e1, e2}`,
  `Writers = {w1, w2}`). A rebuild opens a second log instance
  (`session-manager.ts:2291`) while `enqueue` appends through the first; both stat the
  same size (`jsonl-event-log.ts:195`) and one line overwrites the other, or the
  opening one takes the line being written for a torn tail and truncates it
  (`jsonl-event-log.ts:188`), so that what is written next cannot be decoded.
  `docs/DEVELOPMENT_GUIDE.md:625`: "The log is append-only during normal operation."
* `EventLog.Readable` (the cfg's bounds, `MaxBadRollbacks = 1`). When the truncation after
  a failed write fails too (`jsonl-event-log.ts:211`), the instance goes on, and the next
  append is written, synced and acknowledged behind the fragment. Both form one line
  that does not parse, and every later `open()` and `read()` throws
  `EventLogCorruptionError`: the events are in the file and no reader gets them.
  `docs/DEVELOPMENT_GUIDE.md:626`: "A torn final line may be recovered."
* `Subscription.ReconnectRestores` (the cfg's bounds, `Spec`, no close). A view whose
  `establish()` was rejected is unbound and not registered any more, and a later
  reconnect succeeds without it. `packages/sdk/src/client.ts:404`: "Registers view
  restoration that must complete before reconnect succeeds." The application was told
  (`LossReported`).
* `Subscription.SequenceIsOwn` (the same). `applyEvent` checks the generation, awaits the
  application's `onEvent` and then assigns `this.sequence` (`subscription.ts:352`)
  whatever happened meanwhile. When a new `establish()` has begun, its sequence is
  overwritten: its first deliveries look like gaps, or continue where they should not.
* `Subscription.ResyncFollows` (`MaxEvents = 5`, `TailLimit = 2`, `MaxFaults = 3`, no close).
  `scheduleRecovery` returns when a recovery is under way (`subscription.ts:421`). While
  that one applies the events it had held back, a live event is chained beside them
  (`subscription.ts:276`) and found out of order; its recovery is dropped, and the view
  stays behind until the next event. The application was told of the gap.
* `Client.EveryDeliverySettles` (`Prompts = {p1, p2}`, `MaxCloses = 1`, `ClientFairSpec`).
  `reconnect()` detaches the transport without rejecting what is pending on it
  (`client.ts:185`): when a write of one request fails before the close is reported,
  its reconnect strands the other request. `packages/sdk/README.md:150`: "If a response
  is lost, the SDK reconnects and repeats the identical request with the same key."
* `Client.FailedIsDefinite` (the same with `MaxFailures = 1`). A request in flight that
  is rejected with `handshake_timeout`, `protocol_error` or `resync_required` is shown
  as failed and not as uncertain (`delivery.ts:38`), and may have been accepted. So may a
  prompt that is shown as refused: the journal keeps "failed" also when `send()` threw
  after the user message was stored (`session-manager.ts:1774-1795`,
  `command-journal.ts:346-378`), and a retry of `session.interruptAndDeliver` can be
  refused with `operation_active` before its key is looked at (`daemon.ts:962-968`),
  whatever became of the first copy.
  `packages/sdk/README.md:87`: the result "distinguishes completed, accepted, queued,
  and uncertain delivery".
* `EventMigration.ServedIsComplete` (the cfg's bounds). A migration that dies while it
  writes the manifest leaves a torn one; the next run takes it for complete,
  removes the marker (`event-migration.ts:320`) and then fails on the manifest, and the
  daemon serves the target. `web-delivery.md:134`: "the manifest is published last as
  the completion marker. Incomplete targets are ignored and removed".

Properties of the passing runs that hold only within the constants of their cfg or
under a condition they state:

* `JournalReadable` speaks of a journal without failed appends: a failed one leaves a
  fragment (`command-journal.ts:212`) that the next append completes into a line
  `open()` refuses.
* `DurableLog`, and the first half of `StoredSurvives`, are about files whose rollbacks
  succeeded; a failed one (`jsonl-event-log.ts:211`) does not stop the instance. After
  it `StoredSurvives` only says that corruption is loud: a file that a reader takes has
  every acknowledged event, once and in order.
* `AnswersHold` does not say that a refused prompt was not accepted: the entry on
  `FailedIsDefinite` is why.
* `NoLitter` excepts the files whose `rm()` failed, and speaks of a daemon whose directory
  of uploads was cleared.
* `QueueDrains` fails with a rebuild: a prompt enqueued during it is not started at its
  end (`session-manager.ts:2310`).
* `DisposedIsQuiet` fails with `MayDispose = TRUE` and a shell or a rebuild: it may
  start behind `dispose()` (`session-manager.ts:1896`). A shutdown closes admission
  first.
* `ReplayIntegrity` fails with a recorder: `fork` above.
* `NoHoles`, `QuietIsCurrent` and `ResumeIsSafe` are about views whose sequence no
  superseded run has moved (`~overrun`), `QuietIsCurrent` also about views that report no
  loss: the two entries above are why. What holds without a condition is proved (§5):
  the projection is a prefix of the session, and a loss is reported.
* `Exclusion`, `ManifestMeansComplete` and `WorkSurvives` are about directories where no
  live process's lock was unlinked. Two processes that find the lock of a dead one can
  do that to each other (`data-directory-lock.ts:116`).
* `QueuedIsHeld` excepts a session whose drain failed and recovered items whose pause
  could not be appended (`session-manager.ts:575`): those are shown as queued and
  nobody holds them. A crash between `queue.started` and the user message leaves an
  item that is neither queued nor run.
* `ContextMatchesLog` compares tool results and the calls that were executed. Calls
  that a response offered and the turn did not execute (`agent-session.ts:911`) stay in
  the live context and are absent from the one rebuilt from the log.
* A torn pending marker makes the next migration and the start of the daemon fail
  (`event-migration.ts:316`, `session-manager.ts:336`); a torn backup or blob makes every
  later migration of the source fail (`event-migration.ts:340`, `:441`). The model has
  these outcomes; the properties hold through them.

## 4. Fairness

Specifications with liveness properties have weak fairness on the steps the event loop
takes by itself (callbacks that are ready, file operations that were started, model
streams and tools that end) and none on requests, failures, crashes or aborts.
The code justifies it where promises always settle: provider streams and tools
have timeouts or end by abort. `EventLog` has it per instance, because the chains
are independent. `PromptQueue` adds the timer of each question (five minutes, set
before the request is appended). `Subscription` assumes that the daemon answers a
request it has, that the client's activities run, and that the application reconnects
when it is told of a disconnect, as the TUI's loop and the web client do. `Client`
assumes that the transport reports a close, that an attempt to connect ends, that the
handshake ends (it has a timeout) and that the daemon answers. `BlobStore` and
`EventMigration` have only safety properties and no fairness.

## 5. Proofs

Checked by TLAPS for every value of the constants that satisfies the named
assumptions of the component's module. The assumptions are bounds being natural
numbers and distinct names being distinct: `CallsAssumption`, `BoundsAssumption`;
`LogAssumption`, `LogBounds`;
`OpsAssumption`, `ManagerBounds`; `LockAssumption`, `MigrationBounds`;
`QueueAssumption`, `AsksAssumption`, `QueueBounds`; `DeliveryAssumption`,
`ClientBounds`; `UploadsAssumption`, `AbsentAssumption`, `BlobBounds`; `SessionBounds`,
`RecordersAssumption`; `SubscriptionBounds`, `CloseAssumption`.

* `JournalTypeOK`. `TypeOK` alone is not inductive: the completion that is appended
  has an outcome only because the effect finished before it was queued.
  `ResultsKnown` states that.
* `JournalAtMostOnce`. Strengthened by `SentIsEvident`, a key was sent as often as its
  evidence says, and `Prepared`, a call that is about to start its turn finds no
  evidence under its key. Between the look at the log and the user message `send()`
  awaits; that no other call stores evidence meanwhile is `SingleFlight`, so the two are
  proved together with it. It holds with crashes and failed appends of any number.
* `JournalSingleFlight`. Strengthened by `QueueMatches`: a call has at most one queued
  operation and it agrees with where the call stands, so that no crash or
  settlement leaves an owner behind.
* `JournalStableOutcome` and `JournalStaysReadable`, from `JournalInv`. The outcome of a
  key lives in three places: the entries, the file and the answers given. Between
  restarts the entries carry it (`AnswersMatch`), over a restart only the file does
  (`DiskVouches`: the file, *as long as open() can read it*, says what the entries hold,
  what a call is about to publish and what callers were told; a file that is refused
  once is refused for good, `RefusedForGood`). `MemoryMatches` says where the calls in
  flight stand to the entries: an owner's key has no outcome yet. `FileMatches` holds
  until an append of the living process fails: the file is whole and holds nothing that
  the entries, or a call about to publish, do not, so that every record written next
  fits (`HeadFits`, `RecoveredFits`).
* `JournalImplements`: the refinement. The abstract state is what `open()` would load
  from the file. An append that fits binds a free key or decides an undecided one
  (`AppendKeepsPromise`), also when a crash lets it through unheard; an answer is one the
  promise allows (`AnswerKeepsPromise`); every other step stutters. The promise is
  stated up to the first failed append.
* `StoredEventsSurvive` and `LogImplements`, under the hypothesis `OneWriter`: one
  instance over the file. The hypothesis is needed, §3 shows two instances losing a
  line; only a rebuild has two. Both hold for any number of events, reads, I/O errors
  and crashes and follow from `LogInv`. After a failed rollback the first says what a
  file holds if it is one that readers take; that it is one needs every rollback to
  succeed (`LogReadable`, by `Paired`: the second half of a line follows its first).
  `ChainInv` says that the head of the promise chain is what `pc` says and that no
  queued append has been answered. `FileInv` is about the bytes: the synced part is
  their beginning, no line is there twice, and a line nobody was told of is the one
  being written, at the end. `StoredInv` puts the ends of resolved lines into the synced
  part, in order. Every truncation (recovery, rollback, crash) then cuts behind them,
  which is one lemma (`CutStep`), and a reader finds each event at the even cell of its
  line (`Position`). For the refinement, `CleanFile` adds that until a rollback fails
  the file is whole lines but for its end, and that an instance with appends to do has
  recovered that end: a sync adds one event (`Commit`), a rollback leaves what was
  synced (`Reject`), a crash keeps at most the line being written (`Lose`), and recovery
  changes nothing a reader finds.
* `ManagerTypeOK`.
* `ManagerOneOwner`. `OneOwner` is inductive given the types: every claim is made in
  a step that finds both `activeTurn` and `rebuilding` free, and only the owner lets
  go. One lemma per way of moving (`MoveKeepsOwner`, `ClaimKeepsOwner`,
  `SendKeepsOwner`, `LetGoKeepsOwner`).
* `ManagerReservationHolds`. Inductive given the types: a reservation names the active
  operation when there is one, and whoever claims under it is its holder or its
  target.
* `ManagerDisposedIsQuiet`, under the hypothesis that no client disposes the session, or
  that nobody asks for shells and rebuilds. The hypothesis is needed (§3): `shell()` and
  `rebuild()` do not look at `disposing`, only a daemon that stops keeps them out.
  `QuietInv` says how far `dispose()` has come: what it has awaited is over. It is
  inductive because nothing of it comes back once `disposing` is set: `send()` refuses,
  the drain takes no item, and an item that `send()` refuses was the drain's already
  (`OthersAreCalm`). The last needs that only a send is ever admitted.
* `PromptsRunOnce`, `NothingRunsImplicitly`, `ShownItemsHeld` and `OneAnswerWins`, for any
  items, requeues, questions and answers, from `QueueInv`. `TailInv` says that the drain
  has at most one append in flight and that it is the one its state asks for. `LogInv`
  relates the log of an item to the queue, the drain and the appends in flight: an item
  that is held is not paused, one that was never started left no user message.
  `AskInv` does the same for questions; `Closed` says that a daemon that is down holds
  nothing. `Latest` is a maximum over log positions; what it selects is proved from the
  least-number principle (`WFMin` on the naturals), not by induction over the log.
* `DeliveriesTakenOnce` and `ShownAnswersHold`, for any number of deliveries and broken
  connections, from `ClientInv`: a steering message under way is alone (`Alone`), the
  key is unused until the first attempt with a key (`KeyUnused`), what was accepted is
  what the daemon decided (`Decided`), and what was reported rests on that (`Grounded`).
  After an answer the key is decided and no attempt under way can be accepted
  (`AnswerIsFinal`). The daemon is `IdempotentCommands`, which `JournalImplements`
  justifies.
* `ReferencesStored`, `UploadsLimited` and `FilesHeld`, from `BlobInv`: at each await of
  an operation, its file holds the declared content up to the offset (`UploadInv`), its
  file has someone who will remove it or whose `rm()` failed (`HeldInv`), owned contents
  are synced (`StoredInv`), and the uploads that are active or being created are
  finitely many and within the limit (`LimitInv`).
* `OneToolAfterAbort`, `InputConserved` and `TurnsEndTerminal`, for any recorders, turns,
  calls, inputs, crashes and failed appends, from `SessionInv`. `TurnInv` says that the
  turn has at most one append in flight among those of the recorders, exactly while its
  `pc` says so, and that the batch and the queues in memory fit the event
  (`Fitting`). `LateInv` says what is left to a turn that started a tool after its abort:
  that tool and the aborted message. `QueuedInputConserved` is then inductive; its count
  is restated over the turn's own append (`HeldFacts`).
* `LogReplays` and `ContextReplays`, under the hypothesis `Recorders = {}`: nobody
  records beside a turn. The hypothesis is needed, `AgentSessionFork` shows the log that
  a recorder forks. `LogInv` adds to `SessionInv` that the log is one line whose last
  event is the tip and whose calls and results match (`LineInv`, `Paired`), and where
  the turn stands in its batch: calls to come are not in the log, the one that runs is
  there without a result (`CallsInv`). What the recursive `Lineage` computes for such a
  log is proved by taking a least counterexample (`LineageLinear`).
* `LockExcludes`, for any number of processes and deaths. `LockInv` has three parts:
  types; `HolderOwns`, the record in the file is the holder's while no live
  process's lock was unlinked; `TakeoverNeedsDeath`, nobody is on the way to unlink a
  lock before somebody died. Exclusion follows because records of different
  processes differ.
* `ManifestVouches`, `IncompleteMarked`, `MigratedWorkSurvives` and `MigrationTypeOK`, for
  any number of migrations, daemons, deaths and failed writes, from
  `IInv == LockInv /\ WorkTypes /\ NotBegun /\ FilesInv`. `NotBegun` says that a process
  that does not have the lock is at the start of its work. `FileFacts` relates the
  files to one another, `StageFacts` to the stage of the process that has the lock.
  The step of a process without the lock cannot disturb them (`LockingStep`), the step
  of the holder is taken action by action (`MigrateFacts`, `DaemonStep`).

* `FramesCorrect`, for any number of events, page and tail sizes, cursor limits and
  faults: the types, and `FramesOK`. `SubOK` says that a live subscription has sent or
  buffered every event since its snapshot; `GoodFrame` that a frame carries the event
  its sequence number stands for; `EventsOK` that the frames of a subscription under way
  are its last ones, in order, and came over a connection it has or had; `HeldOK` and
  `ChainOK` that this stays so for frames held back or chained, long after their
  subscription was removed. The types need it: a frame that is reduced must be an event
  of the session. Each action is first turned into its effect (the lemmas `...Facts`),
  from which the conjuncts are proved group by group (`RunActions`, `DeliveryActions`,
  `OtherActions`, `ConnectionActions`, `DaemonActions`).
* `LossIsReported`. `LossReported` speaks of a view at rest; `ToldOK` is what holds at every
  step: an open view without its listener has told the application, or a run of
  `establish()` that failed is waiting for its `session.unsubscribe` and will. It needs
  `ClosingOK`, that only `close()` puts the third run to work.
* `ProjectionIsPrefix`: the projection has no hole at any moment, although two runs of
  `establish()` and the chain of deliveries write to it, a superseded run goes on with its
  pages and deliveries, and `this.sequence` may be wrong. `PrefixInv` adds to
  `ProjectionOK` that the pages under way end within the session and the first one starts
  at its beginning (`PagesOK`); the parent check of the projector does the rest.
* `RequestsAnswered`: the four activities that share the connection (two runs of
  `establish()`, the deliveries, `close()`) never ask before their last response was taken,
  every response is one its activity awaits where it stands (`AwaitedOK`), and requests wait
  for each other in the order in which they were sent (`AheadOK`), so never in a circle, for
  any loss of the connection and any restart of the daemon.
* `SupersededIsHarmless`, from `ShapeInv` and `OrderInv`. `generation` tells a run of
  `establish()` or a delivery that it was superseded, but only once its response is there.
  `GensOK` and `BoundOK` say that one run at a time is current and that the listener is its
  own or that of the last run that ended. `SupersededAhead` and `DeliveryAhead` say that
  what was superseded while it waited was sent before the subscribe request of the run
  that superseded it, or before the unsubscribe request with which a recovery begins, so
  its answer comes first; `SupersededLoads` that it resumes nothing; `LoadsAlone` that no
  delivery of the present generation waits beside a current run that loads or a recovery
  that releases. They hold only until `close()`, and only with `ReleaseOK`: what a
  recovery has released is gone before anyone could resume it, and a reconnect that cleans
  up after a failed resume does not start over beside a recovery.

Only model-checked: everything else.

* The liveness properties, for good: the prover does not handle fairness and ENABLED.
* `NoHoles`, `QuietIsCurrent` and `ResumeIsSafe` of `Subscription`. They say where the
  projection stands relative to `this.sequence`, the frames under way and the acknowledged
  cursor. An inductive invariant was written and checked with TLC: about fifty
  conjuncts, because whether an acknowledged cursor may still be resumed depends on the
  order in which the two runs, the deliveries and `close()` have their requests under
  way, and on the order in which the daemon evicts cursors. The three properties hold only
  together. The five theorems above are the part of it that stands by itself and is
  proved; the conjuncts about cursors and sequence numbers are not.

## 6. What is not modelled

The map covers a small share of the repository's lines, and most of the rest cannot be
covered faithfully:

* user interfaces (TUI, web, CLI, about a third of the code): drawing, layout and
  input; their reconnect loops are actions of `Client` and `Subscription`;
* wire and protocol validation (`wire.ts` alone has 3500 lines): stateless checks of
  message shapes, field by field;
* model providers, their generated catalogs and request preparation: translation
  between formats; a provider is the nondeterminism of `Completes` and `Fails`;
* tools, sandbox, git, checkpoints, file browsing: process and file I/O whose outcome
  is a choice in the model; prompts, redaction and path policy: functions of text;
* artifacts (import, export): sequential parsing; create, fork, clone, rename and
  delete of sessions: sequential, and different in what they copy.

Within the modelled parts: a cursor store (no client configures one), activity frames
(never replayed), cancellation of requests, `exportSessionRaw`, reuse of pids,
failures of `initializeUploads()` (a rejected promise stays cached and every later upload
fails, `blob-store.ts:384`), and reconciliation evidence of methods other than
`session.send`.

## 7. Plan

1. The MCP connection manager and task store of the extensions.
2. Compaction's cut point against a reference definition.
3. Fork and delete of sessions with their reconciliation.
4. `NoHoles`, `QuietIsCurrent` and `ResumeIsSafe` of `Subscription` as theorems (§5).

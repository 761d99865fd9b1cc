# TLA+ models of FlowDrop

FlowDrop moves files and texts between phones (React Native with a Kotlin network
package) and a Windows Agent (Node, Fastify, SQLite). This directory models the parts
of it whose state lives through concurrency, failure and restarts, model-checks them
with TLC and proves the most important facts with TLAPS.

Contents: 1 inventory, 2 plan, 3 modules, 4 runs, 5 fairness, 6 proofs, 7 where the code
differs from what it says, 8 what is not modelled.

## 1. Inventory

`T/` is `src/apps/windows-agent/src/transfers/`, `A/` is `src/apps/windows-agent/src/`,
`M/` is `src/apps/mobile-rn/src/`, `K/` is the Kotlin package under
`src/packages/network/android/src/main/java/com/flowdrop/network/`.

### Receiving a file on the Agent

    HTTP routes -> V3TransferService -> V3TransferWriter (one queue per transfer)
                        |                    |        \-> .part files (write + fsync)
                        |                    v
                        |              V3TransferStore -- messages --> database worker (SQLite)
                        |-> V3ContentVerifier -- messages --> verification worker (reads .part)
                        \-> V3TransferSseDebouncer -> event bus -> admin page

| Component | State | Operations | What makes it correct |
| --- | --- | --- | --- |
| Database worker (`T/v3TransferDatabaseWorker.ts`) | `v3_transfers`, items, chunks, completion items, one SQLite file | one synchronous transaction per message: createOrGet, preflight, commitChunkBatch, beginCompletion, pause, resume, cancel, setVerificationProgress, markTransferCompleted, markTransferFailed | the status machine; byte counters equal to stored chunks; a revision per change; no result of a stale verification attempt applied |
| Store client (`T/v3TransferStore.ts`) | pending requests by id, worker handle | post a request, match its reply, fail all on worker exit, close | every request is answered once |
| Writer (`T/v3TransferWriter.ts`) | per transfer: jobs by chunk key, pending list, current flush, timer, flags paused / cancelled / stopping / completionBarrier, waiting requests; operation tails; running completions | enqueue, flush (preflight, write, fsync, commit, acknowledge), pause, resume, cancel, runCompletion, close | ACK only after commit; commit only after fsync; nothing durable is overwritten; every upload is answered; capacity is returned; a completion seals a drained queue |
| Service (`T/v3TransferService.ts`) | completion starts, verification plans and tasks, cancellation fences, cleanups | create, upload, pause, resume, cancel (+ staging removal), complete, verify, startup cleanup, close | one verification per attempt; cancel stops the verifier before the files go; cancelled staging stays gone |
| Content verifier and worker (`T/v3ContentVerifier.ts`, `T/v3ContentVerificationWorker.ts`) | one worker thread per verification, abort signal | read `.part`, hash, report progress and per-item result | monotone progress; an abort ends the worker |
| SSE debouncer (`T/v3TransferSseDebouncer.ts`) | per transfer: latest revision, timer, last emission | notify, timer, close | the latest revision is emitted in the end; emitted revisions grow |
| Routes (`T/v3TransportRoutes.ts`) | uploads in flight per phone | parse, authenticate, limit, map errors | the in-flight limit is released on every path |
| Authenticator (`T/v3TransferAuthenticator.ts`) | nonces with expiry | verify a signature, remember the nonce | a nonce is accepted once within its window |
| Trusted device access (`T/v3TrustedDeviceAccess*.ts`, `A/storage/trustedDeviceStore.ts`) | trusted devices and shared secrets in SQLite, a second worker for lookups | get, list, save, delete, change permissions | a device is trusted only with its secret |

### Sending from the Agent

| Component | State | Operations | What makes it correct |
| --- | --- | --- | --- |
| Outgoing transfers (`T/v3OutgoingTransferService.ts`) | transfers in memory and one JSON file | create, offers, mark delivered, read a chunk, acknowledge, pause, resume, cancel | acknowledged ranges are what the phone stored; controls win over late acknowledgements |
| Peer connections (`A/realtime/peerConnectionManager.ts`) | sockets of each phone, with the flags authenticated and liveEventsReady | register, hello, authenticate, catch up with the outstanding offers, send live offers, remove | what is outstanding is offered before live events; an offer not delivered is made again on the next connection |
| Text messages (`T/v3TextMessage*.ts`) | messages with delivery state in SQLite | create (idempotent), list, mark delivered | one message per id; delivered is final |
| Event bus (`A/realtime/agentEventBus.ts`), admin API (`A/admin/createAdminApp.ts`) | the last 256 events with their ids; a line of server-sent events per page | publish, replay what came after an id, subscribe | a page that reconnects misses nothing it needs |
| Local page (`src/apps/local-web/src/App.tsx`) | what it shows, an EventSource | load everything again for every event | it shows the newest state in the end |

### Pairing and discovery

| Component | State | Operations | What makes it correct |
| --- | --- | --- | --- |
| Agent pairing (`A/pairing/pairingService.ts`, `mobilePairingInitiator.ts`) | the session's code, pending requests bound to a connection, outcomes, all with an expiry | show a code, request, list, approve, reject, expire, ask for the status, rebind | a request is decided once and its answer reaches who asked; both sides hold the same secret |
| Phone pairing (`M/network/mobilePairingService.ts`, `pairingClient.ts`) | the call that waits for an answer and reconnects; the phone's own session, prompt and decision | call, reconnect, time out, save; show a code, accept, reject | the same; every call ends |
| Discovery (`A/network/discoveryBroadcaster.ts`, `M/network/discoveryService.ts`) | timers; devices seen and when | start, announce, hear, expire, stop | a device that speaks stays listed; neighbours find each other |

### The phone's side of a transfer

| Component | State | Operations | What makes it correct |
| --- | --- | --- | --- |
| Upload controller (`K/TransferController.kt`) | a record per transfer with an operation id, the command under way, the run | start, replace, upload, pause, resume, cancel, reconcile a cancel, report | an event of a replaced record is not taken for one of the new; a cancelled transfer is not sent again |
| Receive controller (`K/ReceiveController.kt`, `K/V3TransferProtocol.kt`) | a record and a coroutine per transfer; part and published files | start, fetch, write, acknowledge, publish, pause, resume, cancel, delete | the last acknowledgement follows the content root; a completed file stays |
| Projections (`M/storage/*Projection*`, `M/network/nativeTransferProjectionRuntime.ts`, `M/store/useV3TransferProjectionStore.ts`) | a task in memory and a row in SQLite, delayed and queued writes, the pending control, the operation whose events count | apply an event, begin, resolve and roll back a control, hydrate, recover, reconcile | an older event never overwrites a newer state; a control settles only on an answer; every control ends |
| Peer runtime (`M/network/v3PeerRealtimeRuntime.ts`) | socket per trusted device, reconnect timer, lookups under way | reconcile, connect, retry, handle offers and texts | the connection comes back after whatever broke it |

### What is hard in this system

Handlers of one Node process interleave at every `await`; the worker thread serves
requests after the handler has moved on; the phone retries what may have succeeded;
a crash can come between the `.part` write and the commit, or between the commit and
the acknowledgement; a pause, a cancel and a completion overlap a flush; a cancel
overlaps a verification. `PROJECT.json` lists each hazard at its line and names the
properties that would catch it.

## 2. Plan

Built, in this order (each module EXTENDS or INSTANCEs the ones it uses):

1. `V3TransferRow`: the transactions of the database worker as pure operators on one row.
2. `V3TransferStore`: those transactions in any order. It is the abstract specification
   of an incoming transfer; `V3TransferStoreProofs` proves its properties.
3. `V3TransferWriter` and its proofs: the upload queue over that row; implements
   `V3TransferStore`.
4. `V3TransferService` and its proofs: completion, verification and cancellation over that
   row.
5. `V3OutgoingTransfer`: a transfer of the Agent and its catalogue file.
6. `V3TransferSseDebouncer`; `V3AdminEvents` composes it with the event bus, the line to
   the page and the page's loads.
7. `V3OfferDelivery`: how a phone hears of outgoing transfers; `V3PeerRuntime` composes
   it with the phone's end of the connection and with texts from the Agent.
8. `V3ProjectionRow`, `V3TransferProjection` and its proofs: an upload as the phone keeps
   and controls it.
9. `V3IncomingTransfer` and its proofs: a download as the phone runs and shows it.
10. `DevicePairing` and its proofs: pairing, from either side.
11. `V3TextDelivery` and its proofs: a text from the phone, through authentication and
    permission.
12. `DeviceDiscovery`: announcements, expiry, the list on the screen.
13. `AgentPartsProofs`: the proofs about 5, 6, 7 and 12, a section for each.

Left, most important first:

- The run of an upload inside `K/TransferController.kt`: chunk window, retries and the
  poll of the verdict, composed with `V3TransferStore`.
- The composition of `V3IncomingTransfer` with `V3OutgoingTransfer` over restarts of both.
- Two Agent-initiated pairings at a time; the two deletions of a removed device.
- Pure algorithms: the arithmetic of chunk ranges on both ends.

## 3. Modules

Each definition's lines are in `PROJECT.json` under `map`. An action is a handler, or
the continuation of one, up to its next `await`; a request to a worker thread is one
step of the main thread that posts it, one of the worker, and one that takes the answer.
Operators marked `mutant:` are deliberate bugs: each stands in for the operator it is
named after to show that a property can fail. Sections headed "a property the code does
not have" hold the sentences of section 7.

**V3TransferRow.** A row is the record of one transfer's tables: `status`, `revision`,
the content `chunk[c]` of each durable chunk (`NoDigest` if none), `received` (the byte
counter, one byte per chunk), the requested and the read content root, the `attempt`
number, the failure code and the verification's bytes and phase. A root is the function
of all chunk contents it was derived from: two roots are equal exactly if the contents
are, which is what a collision-free hash promises. An operator such as
`BeginCompletion(row, dev, root)` returns the error that is answered and the row after
the transaction; a transaction that throws leaves the row alone (`Tx`).

**V3TransferStore.** One variable `row`; one action per message of
`v3TransferDatabaseWorker.ts` (`Transactions`). Nothing is assumed of its callers: any
device asks for anything, batches hold any chunks, verification reports name any attempt
there was. `MaxRevision` bounds the row after a step, whichever transaction it was.

**V3TransferWriter.** `queue`, `byKey`, `pending`, `flush` are the fields of
`TransferWriteQueue`; `job` its jobs, with the number of HTTP requests that wait for each
(`waiters`); `requests` the writer's own counter; `op` and `tail` the operation tail of
the transfer; `direct` a completion that goes to the store past the writer, as the
service does if the queue is closing. A flush goes idle -> preflight -> preflighted ->
writing -> commit -> committed; a range being written is `Torn` and stays so if the
write fails. `Close` and `Crash` end the process, `Restart` finds row and files as they are.
Two states from which the code does not get away by itself have names: an upload that lost
its registration (`Orphaned`), and a queue that a failed or refused control left stopped over
a row that is not paused (`StoppedByFailedPause`). `ChunksSettle` claims an answer for every
other upload; `OnlyFailuresStop` says how the second comes about, and by nothing else.

**V3TransferService.** `request[s]` is an HTTP handler at one of its awaits; `port` is
the message queue to the database worker, executed and answered in order; `task` are the
verification tasks by attempt; `fence`, `plan`, `cleanup`, `closed` are
`cancellationFences`, `verificationPlans`, `cancellationCleanups` and the closed writer
queue. Every call may fail once in its turn (`Fault`), the verification worker may find a
file unreadable or die, `rm` may fail, the process may crash at any step.

**V3OutgoingTransfer.** `record` is the transfer in memory, `file` the one in
`outgoing-transfers.json`, `writes` and `running` the chain of writes behind
`writeTail`: each persists what memory holds when it begins, not when it was queued.
`ack[s]` is an acknowledgement between its check and its update. `ready` is the promise
of `load()`, which may write, and which rejects all requests for good if that fails. A start
may be unable to read the file (`LoadEmpty`, noted in `unread`): it goes on with an empty
catalogue, and the next write, also one for another transfer (`OtherPersists`), puts that
over the file.

**V3TransferSseDebouncer.** Times are durations, not dates: `elapsed` is what the code
computes from `Date.now()`, which `WallClockSet` changes in either direction; `timer` and
`since` count real ticks, and `ahead` the ticks that a clock put forward has skipped. A
transfer without an entry is `~state`.

**V3OfferDelivery.** `conn[c]` is a connection of the phone, with the handler that
catches it up: which offers it has still to send, and whether it waits for the
catalogue write of `markOfferDelivered`. `due` and `sent` record what was outstanding
when it authenticated and what it was sent.

**V3PeerRuntime.** Extends `V3OfferDelivery` by the phone (`phone`: app state, trusted
Agent, current connection, timer; `dials`: `connect()` calls in their two lookups; `sock`:
sockets) and by texts of the Agent (`text`, `inbox`, `saved`). The Agent's actions are
taken over as they are; either end of a socket can end before the other notices. A lookup may
fail, which leaves no timer (`LookupFails`, `gaveUp`), and so may the save of a text, which
loses it (`SaveFails`, `unsaved`).

**V3AdminEvents.** Extends `V3TransferSseDebouncer`: `unheard` are changes whose handler has
yet to notify, `silent` those whose handler failed behind its commit and notifies only when
it is asked again (`CommitSilently`, `Repeated`), `events` the number published so far (the
bus keeps the last `MaxHistory`), `line` the page's EventSource with its last id, `loading`
and `loaded` the page's overlapping loads, `shown` and `best` the revision on the page and
the newest it had.

**V3ProjectionRow, V3TransferProjection.** `mem` is the task of the store, `disk` its row,
`upd` the update that waits up to 100 ms, `jobs` the one queue of transactions. The five
rules for what an update may change (store, row, coalescing, hydration, control) are
operators of `V3ProjectionRow` and differ as they do in the code. `flow` holds the handlers
under way: recovery at start, the transfer screen, a control, the one start that
`ensureNativeTransferStarted` shares, and the reconciliation of chunk digests. `native`
is the record of the uploader, with its operation number; `wire` its events on the way;
`reg` the operation the runtime listens to. A snapshot taken while a control is under way
(`cmd`) is optimistic. A control that is answered 404 is tried three times (`tries`); a
retry that is still refused settles the task and starts the transfer anew
(`ControlRestarts`), a cancel settles it as cancelled (`ControlMissing`). A crash of
JavaScript leaves the uploader or takes it along.

**V3IncomingTransfer.** `native` is the `IncomingRecord`, `job` its coroutine and those
that were cancelled and have not ended; `file` the part and the published file; `writes`
the changes that wait for the phone's database; `row` what the user sees; `control` the
press under way; `agent` the Agent's record. A pause cancels the coroutine of the record
(`JobCancelled`), which only matters at its next suspension: a request it is blocked in may
still fail, and that failure is caught as one of the transfer, deletes the files and marks
the record, whatever has become of it meanwhile. A cancel removes the record, and its
coroutines keep it, with the revision it had, for the event of their failure
(`RecordRemoved`). `past` notes that the content was proved, that the user deleted it, that a
cancelled coroutine overlapped a new one, and that a request of one failed (`late`).
`ShownIsReceived` waits for a control under way: while a cancel is at the Agent, a failed
event of the record can be older than a row that a repeated offer has raised, and the row
says transferring until the cancel's own event comes.

**DevicePairing.** `srv` is `PairingService` at the Agent (session, pending, outcomes),
`mob` the phone's, `call` and `init` the clients of phone and Agent, `net` the
connections with what is under way in both directions. Records count down the time they
have left, so `Tick` never exhausts a bound; a timer fires at or after its time. A secret
is the number of the request it was issued for. `given`, `taken` and `spoiled` are history.

**V3TextDelivery.** `row` and `call` on the phone; `handler` the Agent's handling of
each of the two copies a POST may have; `outstanding`, `pending`, `asked`, `answers` the
lookups of the trusted device with its worker thread; `usedNonces` the nonces, each with the
age of its POST at which it goes; `device` what the database says of the phone; `stored` the
messages. Time is the age of each POST by the Agent's clock, which can be set; a restart of
the Agent forgets the nonces. `unsure` are the messages accepted at the edge of the skew or
before the clock was set back, `adrift` those whose sender nothing will call back: the
network lost the call without a word, the app was killed, or the row could not be written.

**DeviceDiscovery.** `step` is how far each end has started, `announce` and `cleanup` its
timers, `known` and `age` what it has heard and when, `target` where the phone directs its
announcements, `screen` the list of the first screen. `missed` counts announcements lost
in a row.

## 4. Runs and bounds

| Run | Bounds | What it shows |
| --- | --- | --- |
| `store` | 2 chunks, 2 contents, 2 phones, 2 manifests, 9 revisions | the status machine, completeness and verification in every order of transactions |
| `writer_faults` | 2 chunks, 2 contents, 3 jobs, batches of 2, 2 requests at a time, 1 control, 1 error, 1 crash or shutdown | conflicting uploads, torn writes, acknowledgements, the drain; refinement of `V3TransferStore` |
| `writer_live` | 2 chunks, 2 jobs, batches of 1, 2 controls, 1 error, 1 crash or shutdown | two controls in a row: nothing ended is written; only a failed control leaves the queue stopped; uploads and shutdowns end |
| `service` | 1 chunk, 2 requests at a time, 1 error, 1 crash | cancellation against verification; verdicts and removals come |
| `outgoing` | 2 chunks, 2 acknowledgements at a time, 7 revisions, 1 error, 2 crashes, 1 write for another transfer | exact completion; the file is never behind for good nor goes back, but for a start that could not read it |
| `projection` | progress up to revision 2, 1 event on the wire, 1 press or screen, 1 trouble | the phone's upload in every interleaving of five handlers: nothing goes back, nothing is settled unanswered or sent after a cancel, every press ends |
| `pairing` | 2 requests, 3 connections, lifetimes of 1 and waits of 2 ticks, 1 trouble | answers reach who asked; both sides hold one secret; calls end |
| `incoming` | 2 chunks, 2 coroutines, 2 offers, 2 controls, 1 trouble | the phone's download under repeated offers and overlapping coroutines |
| `peers` | 1 transfer, 2 connections, 1 text, 1 failed write, 1 trouble | offers, texts and the connection itself come back |
| `events` | a period of 1 tick, revisions to 3, 1 event kept, the clock set once, 1 trouble | nothing is lost between a handler's notification and the page |
| `texts` | 2 messages, skew 1, nonces of 2 ticks, a window of 1, 2 lookups, ages to 2, steps of the clock by 1, 2 troubles | sent is stored, accepted once, permitted, answered |
| `discovery` | interval 3 and lifetime 10 ticks (3 s and 10 s), 3 troubles | who speaks stays listed; neighbours find each other |

A "trouble" is one fault or one act from outside, of any kind the module has: the bound is
shared, so every kind is met, at every step, and as many together as the number says.

Why these are enough. Two chunks give a partial transfer, a batch with two keys and a
last chunk; two contents of a chunk give a conflict, and more of either meet the same
guards. Three jobs are a full batch and one job behind it, or two generations of one key
and another chunk; the jobs are counted anew after a crash. Two controls are one that
waits for another, and a pause that is undone. In the service, the number of
chunks plays no part (chunks are what the writer runs are about), while two requests at a
time give any pair of completion and cancel, and each slot is reused for ever. One error
at any point, together with one crash, covers "a step fails, then the process dies".
The revisions of the outgoing transfer allow for delivery, a pause, a resume, two
acknowledgements and a cancel. On the phone, one press meets a start, a recovery and a
screen that are all under way, and one event on the wire is the one that is stale; each
trouble is a loss of JavaScript, a failed request or a failed transaction. Two pairing
requests are an overlap of both directions or a repetition. Two coroutines are one that was
cancelled and its successor. A window of one nonce is full with the first of two messages,
and one kept event is forgotten with the second. In discovery, three losses are one more
than the lifetime tolerates. What holds for every bound is proved where section 6 says so.

The writer has two runs because two controls multiply the states of the first under
liveness: `writer_live` has one content and batches of one, so that no job in it can lose its
registration; `writer_faults` meets those jobs. The bounds were also moved by hand:
`ChunksSettle` holds with two contents in batches of two and no control, where such jobs
occur and every other upload is answered (188,955 states); the safety properties of
`projection` hold with 2 troubles (2.0 million states), and with 2 presses or screens and 1
trouble (7.1 million); the properties of `peers` hold with 2 troubles and no failed write.

The first writer run is reduced by symmetry: no definition tells two chunks, or two
contents, from each other, and its properties are not about liveness.

`CHECK_DEADLOCK FALSE` is set where the environment may stop asking (uploads, controls,
offers, revisions at the bound): a quiescent system is not a deadlock. That handlers do not
wait on each other for ever is `ChunksSettle`, `CloseEnds`, `CompletingEnds`, `PressesEnd`,
`PairingEnds`, `SendEnds` and `DownloadsEnd`.

## 5. Fairness

- Writer: weak fairness of the timer once set, of the flush, of the control operation at
  the head and of the end of a shutdown. Node runs every ready callback, the disk and the
  worker thread answer every request, with a result or an error.
- Service: weak fairness of the database worker, the verification worker, each handler,
  the removal and the restart (the Agent is a resident process). Nothing is assumed of
  the phone except by a property that says so: `CompletingEnds` assumes that the phone
  repeats its completion with the root it computed, which is what the comment at
  `T/v3TransferService.ts:424` relies on; `CancelledIsRemoved` assumes a repeated cancel,
  or that nothing fails but the process. These are strong fairness, since the phone waits
  for an answer, or for a free slot, between two requests.
- Projection: each handler goes on, timers fire, transactions run, and a control or a
  reconciliation of the native uploader ends with an answer or an error. That an upload
  makes progress is not assumed.
- Incoming: the coroutine, the database and a control that was pressed go on, and a request
  ends with an answer or an error (OkHttp has timeouts).
- Pairing: time passes, a client reads what has come or times out, and a save ends. Nothing
  is assumed of the people on either side, of the network or of the Agent.
- Peers: a `connect()` goes on or fails, timers fire, each end notices in the end that a
  connection is gone, and the handlers of both ends go on.
- Events: time passes, a due timer is run in the end, a handler that will notify does so, the
  page's EventSource reconnects, and loads are answered. That a committed change is notified
  is not assumed: a handler may fail behind its commit.
- Texts: the Agent's threads and the phone's handler go on. Of the network it is assumed that
  a POST or its answer comes in the end unless it is lost, and a loss may go unreported:
  `SendEnds` excepts the sends that nothing calls back (`adrift`).
- Discovery: time passes, timers fire, a start goes on. Every loss counts as a trouble, so
  announcements come through in the end.
- Uploads, presses, errors, crashes, losses and clock changes are never fair.

## 6. Proofs

All theorems are about the specifications as they are, for every value of the constants
that satisfies the named assumptions (`RowAssumption`, `StoreAssumption`, `WriterAssumption`,
`ServiceAssumption`, `OutgoingAssumption`, `DebouncerAssumption`, `EventsAssumption`,
`DeliveryAssumption`, `RuntimeAssumption`, `ProjectionAssumption`, `IncomingAssumption`,
`PairingAssumption`, `TextAssumption`, `DiscoveryAssumption`: finite sets, naturals,
distinct model values). The bounds on requests, controls,
faults and crashes are constants too: a theorem holds for every number of them.

**V3TransferStoreProofs**: all eight properties of the store. A first group of lemmas
takes each transaction apart into the few things a step can do to a row: create it,
insert chunks, pause, resume, cancel, seal, refuse a root, note progress, complete,
refute, fail (`StepKinds`). The inductive invariant `IInv` is the type invariant, the
counter, completeness and verification, and `StatusMeans`: before a seal no bytes are
verified, and a completing transfer, or one that failed to be read, was asked for the
root it stores. Without it
`CompletedIsVerified` is not inductive: the step that completes compares what was read
with the roots noted at the seal, and only the invariant says that these are the content
stored now. The action properties follow from `IInv` and the kinds of steps.

**V3TransferWriterProofs**: `DurableIsOnDisk`, `AckedIsDurable`, `SealedQueueIsDrained`,
`EndedIsNotWritten`, and the refinement `ImplementsStore`. None of the four is inductive.
`FlushKnows` says what a flush knows of the row at each phase: between its preflight and
its commit the chunks it takes for new have no content, because `Commit` alone adds any;
at the commit the files hold what it will store, unless two of its jobs have one key. With
that, `Commit` keeps `DurableIsOnDisk` and the acknowledgement keeps `AckedIsDurable`.
`JobsHeld` says where every queued job is (in the batch that will settle it, or pending)
unless it is an orphan of section 7; `SealHolds`, that a completion past its drain has
neither; together they are `SealedQueueIsDrained`. `CancelWaits` names the only operation
that can find a flush running after the row was cancelled, the cancel that waits for it.
What the row is at all is not proved again: each step of the queue is a transaction of
the store or leaves the row (`V3TransferStoreProofs` by `INSTANCE`), so the invariant of
the store holds of the queue. The refinement needs a bound for the revision:
`Counted` gives each control operation asked for the one revision it has yet to take, and
each chunk one, so that the row stays within `MaxControls + TotalBytes`, which is the
`MaxRevision` of the store the queue implements.

**V3TransferServiceProofs**: `CancelledIsQuiet`, `FilesHaveOneUser` and `StagingKept`, from one
invariant `IInv`. The hard case is an answer on its way: the row was cancelled, or has a new
attempt, by the time the handler reads that it may start a verification. The argument is
about the port. `Leads` says what no call does to a row: it never takes back an attempt or a
cancellation, and ends a completing attempt only with that attempt's verdict. Hence
`Answered`: answers come in the order of the calls, a later one tells of a row no older than
an earlier one (`Follows`), and an answer that says completing names an attempt which is the
row's last, or whose verdict is behind it in the port (`Current`). What the process knows of,
its tasks and its plan, is `Known`: no later than any answer still to be handled. Two known
attempts are therefore one (`OneAttempt`), which is the second half of `FilesHaveOneUser`;
`Known` is kept when a verdict is taken because `Marking` says that each verdict is posted
once, by the task it ends. `Quiet` is about a cancel past the database: the row says
cancelled, every answer still to be handled says so too, so none starts a task; the tasks that
ran are those the cancel waits for, and there are none when the directory is removed.
`Starting` makes the startup cleanup such a cancel: its answer is the first of the new
process, before any task. Each way the port changes (a call posted, the head taken, a task's
reports released) is an instance of `Kept`, so that most steps of the service are one lemma,
`PlainInv`, `StartInv` or `EndInv`.

**AgentPartsProofs**, first section, the catalogue: type, `CompletionIsExact`,
`NothingUnsaved`, `FileNeverGoesBack`. Two versions of a record are the same or differ in
revision, and file, running write and memory are ordered by it (`Ordered`); each of the
three is exact (`AllExact`), for a crash turns the file into memory; and with no write
waiting the running write, or else the file, is what memory holds (`Saved`). A start that
could not read the file ends the order between the two, so the invariant is about a process
that has read it, and so is `FileNeverGoesBack`.

Second section, announcements: `LiveStaysListed`, for every interval and lifetime. The
invariant counts (`Listed`): a listed end was heard no longer ago than one interval for
each of its announcements lost since, and what has run of the current one. `Fits` says
that the losses which are tolerated, the last interval included, fit into the lifetime;
`Announcement` keeps the count over an announcement, heard or lost. The count rests on
timers that are in time (`Counted`): `Tick` waits for a due timer.

Third section, change notifications: type, `NewestIsOnItsWay`, `EmissionsAreSpaced`,
`EmittedGrows`. `EntryCoversPeriod` is why the period holds although the code compares
readings of a clock that can be set: a reading never runs ahead of real time by more than the
clock was put forward, and an entry is kept under a timer that cannot end before the period.
`EventsUseDebouncer` shows that `V3AdminEvents` implements the debouncer, step by step, so
that all four hold between the commit and the page as well.

Fourth section, the connections of a phone. `OffersInv`: what was due when a connection
authenticated has been sent or is still in its list, and one that accepts live events has
come to the end of it (`OffersSafe`: the safety half of `ReconnectOffers`). `SendOffersKept`
does the loop of `sendOutstandingOffers` for a list of any length, and `OffersListed` says
that the list is what was outstanding. `PhoneInv`: the phone's only socket is the one it
calls current (`SocketsSafe`), although several `connect()` are in their lookups at a time,
each of which looks again before it dials; and a text sent over a live connection has not
got lost between the two ends while the connection stands, unless its save failed
(`TextsSafe`, the safety half of `LiveTextIsSaved`). The runs check the two halves together.

**V3IncomingTransferProofs**: `CompletedIsKept` and `ShownIsReceived`, each with its own
invariant. `IInv` holds whatever is lost or killed: the record has at most one coroutine
(`OneLinked`), none while it is paused or a pause or resume is under way (`Stopping`); a
coroutine works on a chunk when the Agent has all before it (`Acks`); without a record there
are only coroutines of a cancelled one (`Orphans`); and once anything says, or will say,
completed, nothing runs for the record (`ToldIsOver`). `Finals` is what makes
`CompletedIsKept` inductive: one coroutine at most has anything to do with the published
file, the one that computes the content root. It is about a record whose files the user has
not deleted, no cancelled coroutine of which overlapped a new one at its content root
(`overlapped`) or failed late (`late`): in those cases the file does go, as section 7 tells.

`SInv` is about the row, as long as no request fails, no process ends and no file is deleted
(`Calm`), which is also what `ShownIsReceived` is about.
`Bounded` says that no revision on the phone is ahead of the Agent's, which holds always.
An event that waits is written unless the row, or a change before it, is newer (`Decides`); so
`CancelIsHeard` and `StopIsHeard` say that the row says, or some event in the queue will make
it say and none after it will unsay, that the transfer was cancelled, failed, completed or
paused. They are kept because the event that is added last is never older than what waits:
for a control its revision is the Agent's, and for a failure or a completion `Kept` says
that a record at its last chunk knows the Agent's revision. It learns it from the
acknowledgement before: the Agent's record changes under a running coroutine by its
acknowledgements alone, which is where `NewIsLast` and the last conjunct of `Kept` are used.
`Controlling` and `DirKept` exclude the refusals that would fail a download unheard.

**V3TextDeliveryProofs**: `SentIsStored`, `AcceptedOnce`, `StoredWasAllowed`. `Once` ties
the window of nonces to the age of a POST: the nonce of an accepted one is kept for as long
as its timestamp is fresh, for every offset of the clocks, but for the messages in `unsure`:
one accepted when its timestamp was exactly the skew ahead, and one accepted before the clock
of the Agent was set back. The count is that of one process of the Agent.
`Looking` says that each lookup on its way, in the worker's queue or answered, belongs to a
handler that asked for it, so that an answer of one that timed out is not another's.
`Allowing` carries the permission from the lookup that found it to the store.

**DevicePairingProofs**: `RequestIsBound` and `KeysAgree`, from one invariant. Most steps
only take something away: a connection is lost, a question or an answer is dropped, a record
expires, a client gives up. `LessNet`, `LessSrv`, `LessMob`, `LessCall` and `LessInit` say
so, one for each part of the state, and a conjunct is shown once to survive all of them; what
is left are the presses, the requests that are read, the approvals and the saves. `Connected`
and `Numbered` tie the clients to their connections and every number on the way to a request
that was asked. `OneRequest` says that a request is read once: it is still to be sent, or
unread on one connection, or known to the service, which binds it to a connection that has
been read. `OneEach` is what the code relies on when it rebinds and sweeps: no two pending
requests have one connection, or one id. Both are needed for `RequestIsBound`: the request a
status question rebinds must be the phone's own, and nobody else's may follow. `OneSecret` is
what makes `KeysAgree` inductive: an undisturbed last request is the only one under way, of
one side (`OnlyPhone`, `OnlyAgent`), and whoever has stored its secret holds it.

**V3TransferProjectionProofs**: `MemoryNeverGoesBack`. Each rule of `V3ProjectionRow` is a
lemma: what an update, an event, a row or an answer makes of a task `Follows` the task. One
of the rules does not keep it alone. An optimistic terminal status, which the uploader sends
when a cancel is pressed, would settle nothing and yet replace a settled one; the code takes
it only when a control is pending, and that a pending control is always shown as optimistic
is part of the type invariant (`Tasks`). The other part of `IInv` is `Possible`: no value on
the phone, in memory, in the row, in a queued update, a transaction, an event or a handler,
says completed before the Agent's record does (`CompletedSafe`). Every step either leaves the
Agent's record or moves it on (`GoesOn`), which only widens `Possible`.

Only model-checked: that nothing but a failed or refused control leaves the writer's queue
stopped (`OnlyFailuresStop`); when a cancelled upload is settled and that it is not sent again
(`SettledIsAnswered` for cancelled, `NoUploadAfterCancelIntent`), which depend on the order
of five handlers and the row (the invariant that suggests itself, that memory is never
behind the row's revision while the row waits for a cancel, does not follow from what the
handlers keep: when the recovery at start overlaps a control, the answer can be written to
the row and not taken by memory); and liveness under fairness, which is out of the prover's
reach: `ReconnectOffers`, `PhoneReconnects`, `LiveTextIsSaved`, `PageCatchesUp`,
`PressesEnd`, `PairingEnds`, `DownloadsEnd`, `SendEnds`, `NeighboursFindEachOther` and the
liveness of writer and service. Recursion does not occur in a module with a theorem.

## 7. Where the code differs from what it says

Each of these was met while modelling. The models behave as the code does; where a
sentence is named, it stands in its module under "a property the code does not have", and
TLC refutes it when it is added to the run's configuration, with the bounds given.

1. **A chunk is lost to a job settled twice** (`T/v3TransferWriter.ts:593`).
   `resolveJob` and `rejectJob` delete what is registered under the key, not the job. A
   conflicting job of a batch is rejected at once; if the batch then fails, it is rejected
   again, and an upload of that chunk queued in between loses its registration. Its request
   never ends, its capacity is never returned, and the completion is sealed over it,
   although the comment at `T/v3TransferWriter.ts:167` says that it runs "after all chunks
   accepted before the seal have either committed or failed". `SealedQueueIsDrained` and
   `ChunksSettle` except such jobs by name (`Orphaned`); without the exception `writer_faults`
   fails. The bounds of `writer_live` contain no such job.
2. **A cancelled outgoing transfer completes** (`T/v3OutgoingTransferService.ts:176`,
   `V3OutgoingTransfer!TerminalIsFinal`). An acknowledgement checks the status, awaits
   the chunk and updates without checking again; `src/CURRENT_IMPLEMENTATION_STATUS.md:138`
   calls cancelled and completed terminal.
3. **An offer is missed between snapshot and live events**
   (`A/realtime/peerConnectionManager.ts:257`, `V3OfferDelivery!LiveMeansOffered`, two
   transfers). The list of offers is taken once, each offer waits for a write, and the
   connection is live only afterwards; a transfer created in between is in neither, while
   `src/BIDIRECTIONAL_TRANSFER_PROTOCOL.md:70` says that a reconnect receives outstanding
   offers "before live events are accepted".
4. **A cancel is settled without an answer** (`M/app/transmission.tsx:346`,
   `V3TransferProjection!CancelledIsConfirmed`, two troubles). The comment at
   `M/network/nativeTransferProjectionRuntime.ts:303` says that "only a 404 or
   Agent response may clear the pending cancel intent". A cancel that is pressed while a start
   is under way waits for it; the start finds the pending cancel in the row, reconciles it
   and fails, the press fails with it, and its catch projects the snapshot of the local
   record, which says cancelled already: the phone shows cancelled, and the transfer at the
   Agent still runs. `SettledIsAnswered` excepts a record whose reconciliation is not over,
   and a cancel that was answered 404.
5. **Only the Agent trusts** (`A/realtime/peerConnectionManager.ts:197`,
   `DevicePairing!BothSave`). `src/CURRENT_IMPLEMENTATION_STATUS.md:50` says that the
   result is returned over the WebSocket and both sides save the trusted device. When the
   connection breaks between the acceptance and the answer, the phone reconnects, asks for
   the status and is told "approved" without the secret, which it takes for an expired
   request. `KeysAgree` is about requests both sides have stored.
6. **A verified file is deleted** (`K/ReceiveController.kt:149`,
   `V3IncomingTransfer!CompletedIsReceived`). The last chunk is acknowledged once, after
   the file was published (line 222), and any error deletes the files. If only the answer
   is lost, the Agent has completed the transfer and never offers it again. The comment at
   line 207 says "Keep the Agent transfer recoverable until the complete payload has passed
   its content-root check and has been atomically published."
7. **The Agent does not answer an announcement** (`A/network/discoveryBroadcaster.ts:184`).
   The comment above it promises "a unicast response" to an announcement that was heard.
   The condition is inverted (`src/CURRENT_IMPLEMENTATION_STATUS.md:226` says so too): the
   phone's announcements are never answered, and `DeviceDiscovery` has no answer:
   neighbours find each other by their periodic announcements alone.

Seen as well, without a sentence of the repository against it:

- A lookup of the secret or the device id that fails, or finds nothing, ends `connect` and
  sets no timer (`M/network/v3PeerRealtimeRuntime.ts:55`,
  `V3PeerRuntime!PhoneAlwaysReconnects`): the phone stays away until its trust, the app's
  state or a connection that closes makes it reconcile. `PhoneReconnects` excepts it by name
  (`gaveUp`).
- A cancel notifies after it has removed the staging files (`T/v3TransferService.ts:251`,
  `V3AdminEvents!PageShowsAll`): when the removal fails, the page does not hear of the committed
  cancel until it is repeated. `markOfferDelivered` of an outgoing transfer changes a revision
  and publishes nothing. `PageCatchesUp` is about the revisions that a handler notifies of.
- An outgoing catalogue that cannot be read or parsed at a start is taken for an empty one,
  and the next write, of any transfer, puts that over the file
  (`T/v3OutgoingTransferService.ts:257`; the `unread` exception of `FileNeverGoesBack`).
- A pause stops the queue before it asks the database (`T/v3TransferWriter.ts:119`). When the
  transaction fails or is refused, the queue stays stopped over a row that is transferring,
  and its uploads wait until the phone resumes or cancels (`StoppedByFailedPause`, an exception
  of `ChunksSettle`).
- A clock that is put forward shortens the period between two merged notifications
  (`T/v3TransferSseDebouncer.ts:67`), by what it skips; `EmissionsAreSpaced` counts that.
- A received text whose save fails is lost on the phone (`M/network/v3PeerRealtimeRuntime.ts:76`
  and `:157`): the error is reported, the connection stays, nothing asks for the text again.
- A request whose timestamp is exactly the permitted skew ahead is still fresh in the
  millisecond in which its nonce is dropped, since both comparisons are inclusive
  (`T/v3TransferAuthenticator.ts:107` and `:169`); and the nonces, kept in memory alone
  (`:48`), are gone after a restart and too early when the clock is set back. In these cases a
  second copy of a request is accepted; the store, which appends a message once by its id,
  still has it once.
- `fetch` of a text has no timeout (`M/network/v3TextMessageClient.ts:93`), and a failure to
  write that a text has failed is dropped (`M/app/transmission.tsx:175`): in both cases the text
  stays "sending".
- A paused or cancelled download may be blocked in a request. When that request fails after
  all, its own exception, not the cancellation, reaches the catch
  (`K/ReceiveController.kt:149`, and `:284` for the requests): part and published files are
  deleted and the record is marked failed, also if it was resumed meanwhile. `CompletedIsKept`
  and `ShownIsReceived` except it by name (`late`).
- If a cancel's transaction fails and the status read after it fails too, its fence stays
  until the process restarts (`T/v3TransferService.ts:455`).
- A revision of an outgoing transfer answered from memory before the catalogue is written is
  taken back by a crash (`T/v3OutgoingTransferService.ts:205`).
- A download that was paused while it computed the content root runs on beside the one a
  resume starts, and its failure deletes the files of a completed transfer
  (`K/ReceiveController.kt:142`; the `overlapped` exception of `CompletedIsKept`).
- After a killed process a download that the Agent has completed stays "transferring" on the
  phone; a pause or cancel of a download that only the row knows does nothing at the Agent.
- A failed lookup or catalogue write while a connection is caught up leaves the phone
  connected and deaf until something else closes the connection (`Deaf` in `V3PeerRuntime`).
- A status question from a connection the phone has left, read late, binds the pending
  request to that dead connection (`A/realtime/peerConnectionManager.ts:193`): the decision is
  sent into it, and the phone hears it only when it reconnects and asks again, or times out.
  `RequestIsBound` excepts this by name (`late`).
- A cancel that is answered 404 is settled as cancelled while the restored status of the
  uploader starts its run again (`K/TransferController.kt:1981`), which creates the transfer at the
  Agent.
- A trusted device's address is never updated by discovery, only by pairing again
  (`M/network/v3PeerRealtimeRuntime.ts:164`); a text published between authentication and
  live events is not sent later.
- A message whose answer was lost is shown as failed although it is stored, and its repeated
  copy is refused for its nonce; one that is under way when the app is killed stays "sending".
- Overlapping loads of the local page can put an older state back, and hide the failure of
  a newer one (`src/apps/local-web/src/App.tsx:155`): the page catches up with the next event.
- A search for devices that fails to start is not tried again
  (`M/app/(tabs)/index.tsx:314`, `A/plugins/discovery.ts:26`), and the directed broadcast
  address is read once (`M/app/(tabs)/index.tsx:274`).

## 8. What is not modelled

- Components with status `not_modelled` in `PROJECT.json` (content roots, migrations):
  pure functions of their input, or scripts that run alone.
- On the receiving side of the Agent: rejections that change no state; permission and
  manifest checks; listing and the ranges that status answers carry; several items in a
  transfer (chunks of all items are one set); capacity in bytes (jobs and requests are
  counted); the store client after its worker has exited; `close()` of the service, which
  waits for what the writer's `close()` waits for and aborts the verifications; pause and
  resume in the service module (the writer module has them).
- `V3TransferWriter` lets the database worker run posted requests in any order, which
  allows more than the FIFO port does. A control operation starts in a step of its own
  after the one before it has ended.
- `V3OfferDelivery` and `V3PeerRuntime` have one phone, one hello per connection, and no
  microtask windows between a resolved write and the loop that awaits it.
- `V3TransferProjection` has one transfer, one control at a time, and answers of the Agent
  and of the uploader in place of their internals; bytes, rates and counters are left out.
- `V3IncomingTransfer` has one item, and one control slot: a second resume in the same
  moment, which would start two coroutines, is left out.
- `DevicePairing` has one phone, one attempt of the Agent at a time; a removal of a device
  is one step at the Agent, which deletes the device and its secret in two.
- `V3TextDelivery` takes signatures for valid, and nonces for different; the clock of the
  phone is not set.
- `V3AdminEvents`: the message list of the open conversation, which a second effect of the
  page loads, is left out.
- `DeviceDiscovery` has one Agent and one phone in one network; other devices do not share
  their state.
- Rendering, navigation, permissions and packaging.
- Digests are collision-free; SQLite transactions are atomic and durable; `fsync` and
  `rename` do what they say.

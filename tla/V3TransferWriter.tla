--------------------------- MODULE V3TransferWriter ---------------------------
(***************************************************************************)
(* The upload queue of one incoming transfer (v3TransferWriter.ts) between *)
(* the HTTP handlers, the .part files and the database worker.             *)
(*                                                                         *)
(* The Agent's main thread runs a handler or a continuation to its next    *)
(* await, so that is one action here.  A database call is two steps: the   *)
(* worker thread runs the transaction, and later the main thread continues *)
(* with the reply; other handlers run in between.  Requests the main       *)
(* thread has posted may be run in any order (the port is in fact FIFO).   *)
(*                                                                         *)
(* A flush takes a batch of jobs through preflight, write + fsync, commit  *)
(* and acknowledgement.  Pause, resume, cancel and completion of one       *)
(* transfer are serialised behind each other (transferOperationTails) but  *)
(* not behind the flush.                                                   *)
(*                                                                         *)
(* Left out: rejections that change no state, the source device check (one *)
(* phone owns the transfer; V3TransferStore has the others) and chunk      *)
(* range checks.  Time is a timer that fires at any moment once set.       *)
(***************************************************************************)
EXTENDS V3TransferRow, Sequences, FiniteSetsExt

CONSTANTS
  Sender,               \* the phone that owns the transfer
  Torn,                 \* a byte range being overwritten, or left so by a failed write
  NoJob,                \* no job registered for a chunk key
  BatchSize,            \* jobs per flush
  MaxQueuedChunks,      \* jobs in one queue
  MaxQueuedRequests,    \* upload requests waiting, over all queues
  MaxQueuedRequestsPerTransfer,
  MaxJobs,              \* bound: jobs created since the process started
  MaxControls,          \* bound: pause, resume, cancel and completion requests
  MaxFaults,            \* bound: database and disk errors
  MaxStops              \* bound: process crashes and shutdowns

ASSUME WriterAssumption ==
  /\ BatchSize \in Nat \ {0}
  /\ MaxQueuedChunks \in Nat \ {0}
  /\ MaxQueuedRequests \in Nat \ {0}
  /\ MaxQueuedRequestsPerTransfer \in Nat \ {0}
  /\ MaxJobs \in Nat /\ MaxControls \in Nat /\ MaxFaults \in Nat /\ MaxStops \in Nat
  /\ NoJob \notin Nat
  /\ Torn \notin Digests \cup {NoDigest}
  /\ Sender \in Devices

VARIABLES
  row,       \* the durable transfer (SQLite)
  part,      \* content of each chunk's range in the .part files
  job,       \* the queued chunks since the process started, by job id
  queue,     \* the TransferWriteQueue object: flags, timer and its request count
  byKey,     \* queue.jobsByKey
  pending,   \* queue.pending
  flush,     \* queue.currentFlush: the batch and how far it is
  requests,  \* queuedChunkRequests of the writer
  op,        \* the control operation at the head of the transfer's tail
  tail,      \* control operations waiting behind it
  direct,    \* root of a beginCompletion the service posted past runCompletion
  agent,     \* the process: "up", "closing" or "down"
  seen,      \* statuses a handler can have read since the process started
  acked,     \* history: chunks acknowledged to the phone, with their content
  used       \* how much of the bounds is used up

queueVars   == <<job, queue, byKey, pending, flush, requests>>
controlVars == <<op, tail, direct>>
vars == <<row, part, job, queue, byKey, pending, flush, requests,
          op, tail, direct, agent, seen, acked, used>>

-----------------------------------------------------------------------------
Kinds == {"pause", "resume", "cancel", "complete"}

JobIds == 1..MaxJobs

FreshQueue == [live |-> FALSE, barrier |-> FALSE, cancelled |-> FALSE, paused |-> FALSE,
               stopping |-> FALSE, draining |-> FALSE, timer |-> FALSE,
               flushRequested |-> FALSE, requestCount |-> 0]

IdleFlush == [phase |-> "idle", batch |-> {}, accepted |-> {}, new |-> {}, error |-> "none"]

NoOp == [kind |-> "none", step |-> "none", sealed |-> FALSE, root |-> NoRoot, error |-> "none"]

Queued(j) == job[j].state = "queued"

\* canBeDiscarded, and the guard shared by startFlush, requestFlush and ensureTimer.
CanBeDiscarded(q) == ~q.barrier /\ ~q.paused /\ ~q.cancelled /\ ~q.stopping
CanFlush(q)       == ~q.paused /\ ~q.cancelled /\ ~q.stopping

Fault == used.faults < MaxFaults /\ used' = [used EXCEPT !.faults = @ + 1]

-----------------------------------------------------------------------------
(* The queue object.  Each operator takes the queue q and the pending jobs  *)
(* waiting as the handler has left them so far.                              *)

Hold(q, waiting) == queue' = q /\ pending' = waiting

\* ensureTimer
EnsureTimer(q, waiting) ==
  IF waiting # <<>> /\ CanFlush(q) /\ ~q.draining THEN [q EXCEPT !.timer = TRUE] ELSE q

\* startFlush, past its guards
StartFlush(q, waiting) ==
  LET n == IF Len(waiting) < BatchSize THEN Len(waiting) ELSE BatchSize
  IN /\ Hold([q EXCEPT !.timer = FALSE, !.flushRequested = FALSE],
             SubSeq(waiting, n + 1, Len(waiting)))
     /\ flush' = [IdleFlush EXCEPT !.phase = "preflight",
                                   !.batch = {waiting[i] : i \in 1..n}]

RequestFlush(q, waiting) ==
  IF CanFlush(q) /\ flush.phase = "idle" /\ waiting # <<>>
    THEN StartFlush(q, waiting)
    ELSE /\ Hold([q EXCEPT !.flushRequested = @ \/ (CanFlush(q) /\ flush.phase # "idle")],
                 waiting)
         /\ UNCHANGED flush

\* onIdle and removeTerminalQueue drop an idle queue object from the writer's map.
DiscardIf(discards, q, keys, waiting) ==
  IF discards /\ waiting = <<>> /\ (\A c \in Chunks : keys[c] = NoJob) THEN FreshQueue ELSE q

\* The flush promise settles and its finally handler runs: it starts the next
\* flush (always when draining, asked to or full; else if the deadline has
\* passed), or arms the timer, or reports an idle queue.  keys is jobsByKey
\* after the batch was settled.
FlushEnds(q, keys) ==
  \/ /\ pending # <<>> /\ CanFlush(q)
     /\ StartFlush(q, pending)
  \/ /\ pending # <<>>
     /\ CanFlush(q) => ~q.draining /\ ~q.flushRequested /\ Len(pending) < BatchSize
     /\ Hold(EnsureTimer(q, pending), pending)
     /\ flush' = IdleFlush
  \/ /\ pending = <<>>
     /\ Hold(DiscardIf(CanBeDiscarded(q), q, keys, pending), pending)
     /\ flush' = IdleFlush

-----------------------------------------------------------------------------
(* resolveJob and rejectJob, for the jobs of S in the order of their ids.    *)
(* Both remove the job's KEY from jobsByKey, and settle the job only if a    *)
(* job was registered under the key; settling a settled job does nothing.    *)

KeysWithout(S) == [c \in Chunks |-> IF \E j \in S : job[j].chunk = c THEN NoJob ELSE byKey[c]]

SettledBy(S) ==
  {j \in S : /\ Queued(j)
             /\ byKey[job[j].chunk] # NoJob
             /\ \A k \in S : job[k].chunk = job[j].chunk => j <= k}

\* The waiting requests a settled job releases (the finally of attachWaiter).
Released(S) == MapThenSumSet(LAMBDA j : job[j].waiters, SettledBy(S))

Settle(S, outcome) ==
  /\ job' = [j \in DOMAIN job |->
               IF j \in SettledBy(S) THEN [job[j] EXCEPT !.state = outcome, !.waiters = 0]
                                     ELSE job[j]]
  /\ byKey' = KeysWithout(S)
  /\ requests' = Larger(0, requests - Released(S))

Forget(q, S) == [q EXCEPT !.requestCount = Larger(0, @ - Released(S))]

Registered == {byKey[c] : c \in Chunks} \ {NoJob}

\* The flush settles the jobs of S with one outcome and ends.
SettleAndEnd(S, outcome) ==
  /\ Settle(S, outcome)
  /\ FlushEnds(Forget(queue, S), KeysWithout(S))

\* TransferWriteQueue.cancel
CancelQueue(q) ==
  IF q.cancelled
    THEN Hold(q, pending) /\ UNCHANGED <<job, byKey, requests>>
    ELSE /\ Hold([Forget(q, Registered) EXCEPT !.cancelled = TRUE, !.paused = FALSE,
                                               !.timer = FALSE], <<>>)
         /\ Settle(Registered, "TRANSFER_CLOSING")

-----------------------------------------------------------------------------
(* createIncomingTransfer: the transfer exists from here on. *)
CreateTransfer(manifest) ==
  /\ agent = "up"
  /\ row' = CreateOrGet(row, Sender, manifest).row
  /\ seen' = seen \cup {row'.status}
  /\ UNCHANGED <<part, queueVars, controlVars, agent, acked, used>>

(* Uploads.  uploadChunk reads the status, awaits the permission check and   *)
(* then enqueues, so the status it acts on may be old.                       *)

CanEnqueue ==
  /\ agent = "up"
  /\ seen \cap {"negotiating", "transferring"} # {}
  /\ ~queue.barrier /\ ~queue.cancelled /\ ~queue.stopping /\ ~queue.paused
  /\ queue.requestCount < MaxQueuedRequestsPerTransfer
  /\ requests < MaxQueuedRequests

\* A retry of a chunk still in the queue waits for the same job.
EnqueueRetry(c, d) ==
  LET j == byKey[c] IN
  /\ CanEnqueue
  /\ j # NoJob
  /\ job[j].digest = d
  /\ job' = [job EXCEPT ![j].waiters = @ + 1]
  /\ queue' = [queue EXCEPT !.requestCount = @ + 1]
  /\ requests' = requests + 1
  /\ UNCHANGED <<row, part, byKey, pending, flush, controlVars, agent, seen, acked, used>>

EnqueueChunk(c, d) ==
  LET q       == [queue EXCEPT !.live = TRUE, !.requestCount = @ + 1]
      waiting == Append(pending, Len(job) + 1)
  IN /\ CanEnqueue
     /\ byKey[c] = NoJob
     /\ Cardinality(Registered) < MaxQueuedChunks
     /\ Len(job) < MaxJobs
     /\ job' = Append(job, [chunk |-> c, digest |-> d, state |-> "queued", waiters |-> 1])
     /\ byKey' = [byKey EXCEPT ![c] = Len(job) + 1]
     /\ requests' = requests + 1
     /\ IF Len(waiting) >= BatchSize
          THEN RequestFlush(EnsureTimer(q, waiting), waiting)
          ELSE Hold(EnsureTimer(q, waiting), waiting) /\ UNCHANGED flush
     /\ UNCHANGED <<row, part, controlVars, agent, seen, acked, used>>

TimerFires ==
  /\ queue.timer
  /\ RequestFlush([queue EXCEPT !.timer = FALSE, !.flushRequested = TRUE], pending)
  /\ UNCHANGED <<row, part, job, byKey, requests, controlVars, agent, seen, acked, used>>

-----------------------------------------------------------------------------
(* The flush: persistBatch. *)

\* The worker runs preflightChunkBatch.
Preflight ==
  /\ flush.phase = "preflight"
  /\ \/ /\ flush' = [flush EXCEPT
              !.phase = "preflighted",
              !.error = WriteError(row, Sender),
              !.accepted = {j \in flush.batch :
                 Verdict(row, job[j].chunk, job[j].digest) # "CHUNK_CONFLICT"},
              !.new = {j \in flush.batch :
                 Verdict(row, job[j].chunk, job[j].digest) = "new"}]
        /\ UNCHANGED used
     \/ /\ Fault
        /\ flush' = [flush EXCEPT !.phase = "preflighted", !.error = "STORAGE_ERROR"]
  /\ UNCHANGED <<row, part, job, queue, byKey, pending, requests,
                 controlVars, agent, seen, acked>>

Proceeds == ~queue.cancelled /\ ~queue.stopping

\* Conflicting jobs of the batch are rejected, the others go on to the disk or,
\* if all are duplicates, straight to the commit.
Preflighted ==
  LET conflicts == flush.batch \ flush.accepted
      goesOn    == flush.accepted # {} /\ Proceeds
  IN /\ flush.phase = "preflighted"
     /\ \/ /\ flush.error # "none"
           /\ SettleAndEnd(flush.batch, flush.error)
           /\ UNCHANGED part
        \/ /\ flush.error = "none" /\ ~goesOn
           /\ SettleAndEnd(conflicts, "CHUNK_CONFLICT")
           /\ UNCHANGED part
        \/ /\ flush.error = "none" /\ goesOn
           /\ Settle(conflicts, "CHUNK_CONFLICT")
           /\ Hold(Forget(queue, conflicts), pending)
           /\ flush' = [flush EXCEPT !.phase = IF flush.new = {} THEN "commit" ELSE "writing"]
           /\ part' = [c \in Chunks |->
                         IF \E j \in flush.new : job[j].chunk = c THEN Torn ELSE part[c]]
     /\ UNCHANGED <<row, controlVars, agent, seen, acked, used>>

\* writeBatchToStaging returns: every range of the batch is written and fsynced.
Written ==
  /\ flush.phase = "writing"
  /\ part' = [c \in Chunks |->
                LET writers == {j \in flush.new : job[j].chunk = c}
                IN IF writers = {} THEN part[c]
                   ELSE job[CHOOSE j \in writers : \A k \in writers : k <= j].digest]
  /\ IF Proceeds
       THEN /\ flush' = [flush EXCEPT !.phase = "commit"]
            /\ UNCHANGED <<job, queue, byKey, pending, requests>>
       ELSE SettleAndEnd({}, "none")
  /\ UNCHANGED <<row, controlVars, agent, seen, acked, used>>

\* mutant: the write error is swallowed
WriteFailsSilently ==
  /\ flush.phase = "writing"
  /\ Fault
  /\ flush' = [flush EXCEPT !.phase = "commit"]
  /\ UNCHANGED <<row, part, job, queue, byKey, pending, requests,
                 controlVars, agent, seen, acked>>

\* writeBatchToStaging throws and leaves the ranges of the batch as they are.
WriteFails ==
  /\ flush.phase = "writing"
  /\ Fault
  /\ SettleAndEnd(flush.batch, "STORAGE_ERROR")
  /\ UNCHANGED <<row, part, controlVars, agent, seen, acked>>

UniqueKeys(S) == \A j, k \in S : job[j].chunk = job[k].chunk => j = k

\* The worker runs commitChunkBatch.
Commit ==
  LET keys  == {job[j].chunk : j \in flush.new}
      new   == [c \in keys |-> job[CHOOSE j \in flush.new : job[j].chunk = c].digest]
      error == Then(WriteError(row, Sender), Check(UniqueKeys(flush.new), "INVALID_CHUNK"))
      done  == IF error # "none" THEN Tx(row, error, row)
               ELSE CommitChunkBatch(row, Sender, new, {job[j].chunk : j \in flush.accepted})
  IN /\ flush.phase = "commit"
     /\ \/ /\ row' = done.row
           /\ flush' = [flush EXCEPT !.phase = "committed", !.error = done.error]
           /\ UNCHANGED used
        \/ /\ Fault
           /\ flush' = [flush EXCEPT !.phase = "committed", !.error = "STORAGE_ERROR"]
           /\ UNCHANGED row
     /\ seen' = seen \cup {row'.status}
     /\ UNCHANGED <<part, job, queue, byKey, pending, requests, controlVars, agent, acked>>

\* mutant: a failed commit is acknowledged
CommittedOrNot ==
  /\ flush.phase = "committed"
  /\ SettleAndEnd(flush.accepted, "acked")
  /\ acked' = acked \cup {<<job[j].chunk, job[j].digest>> : j \in SettledBy(flush.accepted)}
  /\ UNCHANGED <<row, part, controlVars, agent, seen, used>>

\* resolveAcknowledgements, or the catch that rejects the whole batch.
Committed ==
  /\ flush.phase = "committed"
  /\ IF flush.error = "none"
       THEN /\ SettleAndEnd(flush.accepted, "acked")
            /\ acked' = acked \cup {<<job[j].chunk, job[j].digest>> : j \in SettledBy(flush.accepted)}
       ELSE SettleAndEnd(flush.batch, flush.error) /\ UNCHANGED acked
  /\ UNCHANGED <<row, part, controlVars, agent, seen, used>>

-----------------------------------------------------------------------------
(* Control requests.  The service checks a status it has read (now possibly  *)
(* old) and queues the operation behind the transfer's earlier ones.         *)

Admits(kind) ==
  CASE kind = "pause"    -> {"negotiating", "transferring", "paused"}
    [] kind = "resume"   -> {"transferring", "paused"}
    [] kind = "cancel"   -> {"negotiating", "transferring", "paused", "completing", "cancelled"}
    [] kind = "complete" -> {"negotiating", "transferring"}

\* completionStarts lets one completion request of a transfer through at a time.
CompletionActive ==
  \/ op.kind = "complete" \/ direct # NoRoot
  \/ \E i \in DOMAIN tail : tail[i].kind = "complete"

UseControl == used.controls < MaxControls /\ used' = [used EXCEPT !.controls = @ + 1]

RequestControl(kind, root) ==
  /\ agent = "up"
  /\ seen \cap Admits(kind) # {}
  /\ kind = "complete" => ~CompletionActive
  /\ UseControl
  /\ tail' = Append(tail, [NoOp EXCEPT !.kind = kind, !.root = root])
  /\ UNCHANGED <<row, part, queueVars, op, direct, agent, seen, acked>>

\* A completion request whose status read found no writable transfer goes to the
\* store without passing the queue.
RequestDirectCompletion(root) ==
  /\ agent = "up"
  /\ seen \ {"absent", "negotiating", "transferring"} # {}
  /\ ~CompletionActive
  /\ UseControl
  /\ direct' = root
  /\ UNCHANGED <<row, part, queueVars, op, tail, agent, seen, acked>>

Starts(kind) == op.kind = "none" /\ tail # <<>> /\ Head(tail).kind = kind /\ tail' = Tail(tail)

At(step) == op' = [Head(tail) EXCEPT !.step = step]

BeginPause ==
  LET q       == [queue EXCEPT !.live = TRUE]
      freezes == ~q.barrier /\ ~q.cancelled /\ ~q.stopping
  IN /\ Starts("pause")
     /\ queue' = IF freezes THEN [q EXCEPT !.paused = TRUE, !.timer = FALSE] ELSE q
     /\ At(IF freezes /\ flush.phase # "idle" THEN "flush" ELSE "persist")
     /\ UNCHANGED <<row, part, job, byKey, pending, flush, requests, direct,
                    agent, seen, acked, used>>

\* The flush that pause awaits has settled.
PauseFlushed ==
  /\ op.kind = "pause" /\ op.step = "flush" /\ flush.phase = "idle"
  /\ op' = [op EXCEPT !.step = "persist"]
  /\ UNCHANGED <<row, part, queueVars, tail, direct, agent, seen, acked, used>>

BeginResume ==
  /\ Starts("resume")
  /\ queue' = [queue EXCEPT !.live = TRUE]
  /\ At("persist")
  /\ UNCHANGED <<row, part, job, byKey, pending, flush, requests, direct,
                 agent, seen, acked, used>>

BeginCancel ==
  LET q == [queue EXCEPT !.live = TRUE] IN
  /\ Starts("cancel")
  /\ op' = [Head(tail) EXCEPT !.step = "persist", !.sealed = q.barrier]
  /\ IF q.barrier THEN Hold(q, pending) /\ UNCHANGED <<job, byKey, requests>>
                  ELSE CancelQueue(q)
  /\ UNCHANGED <<row, part, flush, direct, agent, seen, acked, used>>

\* runCompletion: seal the queue and start to drain it.
BeginDrain ==
  LET q == [queue EXCEPT !.live = TRUE, !.barrier = TRUE, !.draining = TRUE,
                         !.timer = FALSE, !.flushRequested = TRUE]
  IN /\ Starts("complete")
     /\ ~queue.barrier /\ CanFlush(queue)
     /\ At("drain")
     /\ IF flush.phase = "idle" /\ pending # <<>>
          THEN StartFlush(q, pending)
          ELSE Hold(q, pending) /\ UNCHANGED flush
     /\ UNCHANGED <<row, part, job, byKey, requests, direct, agent, seen, acked, used>>

\* The seal is refused with TRANSFER_CLOSING and the service asks the store itself.
CompletionFallsBack ==
  /\ Starts("complete")
  /\ queue.barrier \/ ~CanFlush(queue)
  /\ direct' = Head(tail).root
  /\ op' = NoOp
  /\ UNCHANGED <<row, part, queueVars, agent, seen, acked, used>>

\* mutant: the drain does not wait for the flush it has started
DrainedEarly ==
  /\ op.kind = "complete" /\ op.step = "drain"
  /\ pending = <<>>
  /\ queue' = [queue EXCEPT !.draining = FALSE]
  /\ op' = [op EXCEPT !.step = "persist"]
  /\ UNCHANGED <<row, part, job, byKey, pending, flush, requests, tail, direct,
                 agent, seen, acked, used>>

Drained ==
  /\ op.kind = "complete" /\ op.step = "drain"
  /\ flush.phase = "idle" /\ pending = <<>>
  /\ queue' = [queue EXCEPT !.draining = FALSE]
  /\ op' = [op EXCEPT !.step = "persist"]
  /\ UNCHANGED <<row, part, job, byKey, pending, flush, requests, tail, direct,
                 agent, seen, acked, used>>

\* mutant: a control operation updates the row without its checks
UncheckedTransaction(o) ==
  Tx(row, "none", IF o.kind = "complete" THEN BeginCompletion(row, Sender, o.root).row
                  ELSE Bump([row EXCEPT !.status =
                               CASE o.kind = "pause" -> "paused"
                                 [] o.kind = "resume" -> "transferring"
                                 [] o.kind = "cancel" -> "cancelled"]))

Transaction(o) ==
  CASE o.kind = "pause"    -> PauseTransfer(row, Sender)
    [] o.kind = "resume"   -> ResumeTransfer(row, Sender)
    [] o.kind = "cancel"   -> CancelTransfer(row, Sender)
    [] o.kind = "complete" -> BeginCompletion(row, Sender, o.root)

\* The worker runs the transaction of the control operation.
Persist ==
  /\ op.step = "persist"
  /\ \/ /\ row' = Transaction(op).row
        /\ op' = [op EXCEPT !.step = "reply", !.error = Transaction(op).error]
        /\ UNCHANGED used
     \/ /\ Fault
        /\ op' = [op EXCEPT !.step = "reply", !.error = "STORAGE_ERROR"]
        /\ UNCHANGED row
  /\ seen' = seen \cup {row'.status}
  /\ UNCHANGED <<part, queueVars, tail, direct, agent, acked>>

PersistDirect ==
  /\ direct # NoRoot
  /\ direct' = NoRoot
  /\ \/ row' = BeginCompletion(row, Sender, direct).row /\ UNCHANGED used
     \/ Fault /\ UNCHANGED row
  /\ seen' = seen \cup {row'.status}
  /\ UNCHANGED <<part, queueVars, op, tail, agent, acked>>

Replied(kind) == op.kind = kind /\ op.step = "reply"

\* A pause, and any operation whose transaction threw, has nothing left to do.
EndOperation ==
  /\ Replied("pause") \/ ((Replied("resume") \/ Replied("cancel")) /\ op.error # "none")
  /\ op' = NoOp
  /\ UNCHANGED <<row, part, queueVars, tail, direct, agent, seen, acked, used>>

\* mutant: the row resumes, the queue does not
EndResumeStopped ==
  /\ Replied("resume") /\ op.error = "none"
  /\ op' = NoOp
  /\ UNCHANGED <<row, part, job, queue, byKey, pending, flush, requests, tail, direct,
                 agent, seen, acked, used>>

\* mutant: the queue resumes but nothing wakes it
EndResumeAsleep ==
  /\ Replied("resume") /\ op.error = "none"
  /\ op' = NoOp
  /\ queue' = [queue EXCEPT !.paused = FALSE]
  /\ UNCHANGED <<row, part, job, byKey, pending, flush, requests, tail, direct,
                 agent, seen, acked, used>>

\* resume of the queue, after the row says transferring
EndResume ==
  LET q == [queue EXCEPT !.paused = FALSE]
      reopens == ~queue.barrier /\ ~queue.cancelled /\ ~queue.stopping /\ queue.paused
  IN /\ Replied("resume") /\ op.error = "none"
     /\ op' = NoOp
     /\ IF ~reopens THEN UNCHANGED <<queue, pending, flush>>
        ELSE IF Len(pending) >= BatchSize THEN RequestFlush(q, pending)
        ELSE /\ Hold(DiscardIf(flush.phase = "idle" /\ CanBeDiscarded(q),
                               EnsureTimer(q, pending), byKey, pending), pending)
             /\ UNCHANGED flush
     /\ UNCHANGED <<row, part, job, byKey, requests, tail, direct, agent, seen, acked, used>>

\* The row says cancelled: a queue that was sealed is fenced only now.
CancelPersisted ==
  /\ Replied("cancel") /\ op.error = "none"
  /\ op' = [op EXCEPT !.step = "flush"]
  /\ IF op.sealed THEN CancelQueue(queue)
                  ELSE UNCHANGED <<job, queue, byKey, pending, requests>>
  /\ UNCHANGED <<row, part, flush, tail, direct, agent, seen, acked, used>>

\* mutant: the cancel does not wait for the flush it interrupts
EndCancelAtOnce ==
  /\ op.kind = "cancel" /\ op.step = "flush"
  /\ op' = NoOp
  /\ queue' = DiscardIf(flush.phase = "idle", queue, byKey, pending)
  /\ UNCHANGED <<row, part, job, byKey, pending, flush, requests, tail, direct,
                 agent, seen, acked, used>>

EndCancel ==
  /\ op.kind = "cancel" /\ op.step = "flush" /\ flush.phase = "idle"
  /\ op' = NoOp
  /\ queue' = DiscardIf(TRUE, queue, byKey, pending)
  /\ UNCHANGED <<row, part, job, byKey, pending, flush, requests, tail, direct,
                 agent, seen, acked, used>>

\* A completion that is durable drops the queue, any other reopens it.
EndComplete ==
  LET open == [queue EXCEPT !.barrier = FALSE] IN
  /\ Replied("complete")
  /\ op' = NoOp
  /\ queue' = IF op.error = "none"
                THEN DiscardIf(flush.phase = "idle", queue, byKey, pending)
                ELSE DiscardIf(flush.phase = "idle" /\ CanBeDiscarded(open), open, byKey, pending)
  /\ UNCHANGED <<row, part, job, byKey, pending, flush, requests, tail, direct,
                 agent, seen, acked, used>>

-----------------------------------------------------------------------------
(* The process. *)

UseStop == used.stops < MaxStops /\ used' = [used EXCEPT !.stops = @ + 1]

\* mutant: the stop leaves the jobs it will no longer flush in the queue
CloseKeepingJobs ==
  /\ agent = "up"
  /\ UseStop
  /\ agent' = "closing"
  /\ queue' = [queue EXCEPT !.stopping = TRUE, !.timer = FALSE]
  /\ UNCHANGED <<row, part, job, byKey, pending, flush, requests, controlVars, seen, acked>>

\* close(): reject what is not durable, then wait for the flush and a completion.
Close ==
  /\ agent = "up"
  /\ UseStop
  /\ agent' = "closing"
  /\ IF queue.live
       THEN /\ Hold([Forget(queue, Registered) EXCEPT !.stopping = TRUE, !.timer = FALSE], <<>>)
            /\ Settle(Registered, "TRANSFER_STORAGE_CLOSED")
       ELSE UNCHANGED <<job, queue, byKey, pending, requests>>
  /\ UNCHANGED <<row, part, flush, controlVars, seen, acked>>

\* Memory is gone; the database and the .part files stay as they are.
Down ==
  /\ agent' = "down"
  /\ job' = <<>> /\ queue' = FreshQueue /\ byKey' = [c \in Chunks |-> NoJob]
  /\ pending' = <<>> /\ flush' = IdleFlush /\ requests' = 0
  /\ op' = NoOp /\ tail' = <<>> /\ direct' = NoRoot
  /\ seen' = {}
  /\ UNCHANGED <<row, part, acked>>

Closed ==
  /\ agent = "closing"
  /\ flush.phase = "idle"
  /\ ~CompletionActive
  /\ Down
  /\ UNCHANGED used

Crash ==
  /\ agent # "down"
  /\ UseStop
  /\ Down

Restart ==
  /\ agent = "down"
  /\ agent' = "up"
  /\ seen' = {row.status}
  /\ UNCHANGED <<row, part, queueVars, controlVars, acked, used>>

-----------------------------------------------------------------------------
Init ==
  /\ row = AbsentRow
  /\ part = [c \in Chunks |-> NoDigest]
  /\ job = <<>> /\ queue = FreshQueue /\ byKey = [c \in Chunks |-> NoJob]
  /\ pending = <<>> /\ flush = IdleFlush /\ requests = 0
  /\ op = NoOp /\ tail = <<>> /\ direct = NoRoot
  /\ agent = "up" /\ seen = {row.status}
  /\ acked = {}
  /\ used = [controls |-> 0, faults |-> 0, stops |-> 0]

\* Steps of the environment: uploads, control requests, the end of the process.
Environment ==
  \/ \E m \in Manifests : CreateTransfer(m)
  \/ \E c \in Chunks, d \in Digests : EnqueueRetry(c, d) \/ EnqueueChunk(c, d)
  \/ \E kind \in Kinds \ {"complete"} : RequestControl(kind, NoRoot)
  \/ \E root \in Roots : RequestControl("complete", root) \/ RequestDirectCompletion(root)
  \/ Close \/ Crash \/ Restart

\* Steps the Agent and its worker thread take by themselves.
Flushing == Preflight \/ Preflighted \/ Written \/ WriteFails \/ Commit \/ Committed

Controlling ==
  \/ BeginPause \/ PauseFlushed \/ EndOperation
  \/ BeginResume \/ EndResume
  \/ BeginCancel \/ CancelPersisted \/ EndCancel
  \/ BeginDrain \/ CompletionFallsBack \/ Drained \/ EndComplete
  \/ Persist \/ PersistDirect

Next == Environment \/ TimerFires \/ Flushing \/ Controlling \/ Closed

Spec == Init /\ [][Next]_vars

\* The event loop, the timer, the disk and the worker thread keep running.
Fairness ==
  /\ WF_vars(TimerFires) /\ WF_vars(Flushing) /\ WF_vars(Controlling) /\ WF_vars(Closed)

FairSpec == Spec /\ Fairness

-----------------------------------------------------------------------------
(* A chunk row implies the chunk's content is in the .part file, through every  *)
(* failed write, crash, retry and conflicting upload of the same range: the     *)
(* write and the fsync come before the commit, and nothing writes a range that  *)
(* is durable already.                                                          *)
DurableIsOnDisk == \A c \in Stored(row) : part[c] = row.chunk[c]

(* No flush writes to the .part files of a transfer that has been sealed, which   *)
(* the verifier reads, nor once the writer's cancel has returned, for the service *)
(* deletes them next.  The direct call of beginCompletion does not wait for the   *)
(* queue; this holds all the same.                                                *)
EndedIsNotWritten ==
  \/ row.status \in {"completing", "completed", "failed"}
  \/ row.status = "cancelled" /\ op.kind # "cancel"
  => flush.phase # "writing"

(* What the phone was told is durable stays durable, with the content it sent,  *)
(* across crashes (the ACK is sent only after the commit).                      *)
AckedIsDurable == \A a \in acked : row.chunk[a[1]] = a[2]

(* A job that another job of its chunk has unregistered: jobs are settled by their *)
(* chunk, and one that is settled twice takes a newer job's registration with it.  *)
Orphaned(j) == Queued(j) /\ byKey[job[j].chunk] # j

(* "runs completion after all chunks accepted before the seal have either       *)
(* committed or failed": when the completion transaction is posted, no accepted *)
(* chunk is still waiting, but for orphans, whose requests never end.           *)
SealedQueueIsDrained ==
  op.kind = "complete" /\ op.step \in {"persist", "reply"} =>
    flush.phase = "idle" /\ \A j \in DOMAIN job : Queued(j) => Orphaned(j)

Unanswered(j) == j \in DOMAIN job /\ Queued(j) /\ ~Orphaned(j)

(* A pause stops the queue before it asks the database, and leaves it stopped when *)
(* the transaction fails or is refused, until the phone resumes or cancels.        *)
StoppedByFailedPause ==
  /\ agent = "up" /\ queue.paused /\ row.status # "paused"
  /\ op = NoOp /\ \A i \in DOMAIN tail : tail[i].kind = "complete"

(* The queue of a transfer that is not paused is left stopped by a pause or a     *)
(* resume that failed, and by nothing else: whatever else overlaps, the flag of   *)
(* the queue follows the row again when the last control has ended.               *)
OnlyFailuresStop ==
  [][StoppedByFailedPause' /\ ~StoppedByFailedPause =>
       op.kind \in {"pause", "resume"} /\ op.error # "none"]_vars

(* Every accepted upload is answered while the process runs and the transfer is   *)
(* not paused, through conflicts, failed batches, pauses, resumes and cancels in  *)
(* any order, but for the two cases above: a job that lost its registration, and  *)
(* a queue that a failed pause has stopped.                                       *)
ChunksSettle ==
  \A j \in JobIds :
    Unanswered(j) ~> (~Unanswered(j) \/ row.status = "paused" \/ StoppedByFailedPause \/ agent # "up")

(* close() returns: it waits for the flush and the completion of a queue that   *)
(* it has just stopped.                                                         *)
CloseEnds == (agent = "closing") ~> (agent = "down")

\* Nothing but the database worker's transactions touches the row: each control
\* operation and each chunk takes at most one revision.
Store == INSTANCE V3TransferStore WITH MaxRevision <- MaxControls + TotalBytes

(* The queue drives the durable transfer only through legal transactions.       *)
ImplementsStore == Store!Spec
=============================================================================

-------------------------- MODULE V3TransferService --------------------------
(***************************************************************************)
(* Completion, verification and cancellation of one incoming transfer      *)
(* (v3TransferService.ts) between the HTTP handlers, the writer's control  *)
(* operations, the verification worker, the staging directory and the      *)
(* database worker.                                                        *)
(*                                                                         *)
(* The port to the database worker is a queue: calls run in the order they *)
(* are posted and are answered in that order, and the main thread runs the *)
(* continuation of an answer to its next await.  So the port is a sequence *)
(* whose answered calls come first; Execute answers the first open call,   *)
(* and each continuation takes the answered call at the head.              *)
(*                                                                         *)
(* The phone has a few requests in flight at a time, one per slot, and may *)
(* repeat them for ever.                                                   *)
(*                                                                         *)
(* Left out: the upload queue, except that cancel closes it and that       *)
(* control operations wait for each other (V3TransferWriter has it, and    *)
(* shows that no flush writes once a cancel has returned); pause, resume   *)
(* and shutdown; permission checks.                                        *)
(***************************************************************************)
EXTENDS V3TransferRow, SequencesExt

CONSTANTS
  Sender,      \* the phone that owns the transfer
  Slots,       \* its requests in flight
  MaxFaults,   \* bound: database, disk and verification worker errors
  MaxStops     \* bound: process crashes

ASSUME ServiceAssumption ==
  /\ Sender \in Devices
  /\ MaxFaults \in Nat /\ MaxStops \in Nat
  /\ IsFiniteSet(Slots) /\ Slots \cap {"verifier", "startup", "nobody"} = {}

VARIABLES
  row,       \* the durable transfer (SQLite)
  part,      \* content of the staging directory
  request,   \* the request of each slot
  port,      \* calls posted to the database worker, answered ones first
  tail,      \* transferOperationTails: slots whose control operation runs or waits
  closed,    \* the writer's queue is cancelled: a failed cancel leaves it so
  fence,     \* the transfer is in cancellationFences
  plan,      \* attempt of the plan in verificationPlans, 0 if there is none
  task,      \* verificationTasks, by attempt
  cleanup,   \* an rm of the staging directory is running (cancellationCleanups)
  up,        \* the process runs
  gone,      \* history: a cancel has been answered with success
  used       \* how much of the bounds is used up

memory == <<request, port, tail, closed, fence, plan, task, cleanup, up>>
vars   == <<row, part, request, port, tail, closed, fence, plan, task, cleanup, up, gone, used>>

-----------------------------------------------------------------------------
Idle == [kind |-> "none", step |-> "none", root |-> NoRoot, awaits |-> {}]

\* A verification sends three progress reports: it reads, hashes, is done.
NewTask == [step |-> "reading", sent |-> 0, actual |-> NoRoot]

OpenCall == [from |-> "nobody", call |-> "none", attempt |-> 0, root |-> NoRoot, bytes |-> 0,
             phase |-> "idle", answer |-> [error |-> "open", status |-> "none",
                                           attempt |-> 0, flag |-> FALSE]]

Fault   == used.faults < MaxFaults /\ used' = [used EXCEPT !.faults = @ + 1]
UseStop == used.stops < MaxStops /\ used' = [used EXCEPT !.stops = @ + 1]

Staged == \E c \in Chunks : part[c] # NoDigest

Post(from, call) == Append(port, [OpenCall EXCEPT !.from = from, !.call = call])

\* The answer at the head of the port is for from, and its continuation takes it.
Answers(from, call) ==
  port # <<>> /\ Head(port).answer.error # "open" /\ Head(port).from = from /\ Head(port).call = call

Answer == Head(port).answer

\* The request of slot s goes on, or is answered.
Move(s, step) == request' = [request EXCEPT ![s].step = step]

Reply(s) == request' = [request EXCEPT ![s] = Idle]

\* startVerification
StartVerification(attempt, fenced) ==
  IF fenced THEN task
  ELSE [a \in DOMAIN task \cup {attempt} |-> IF a \in DOMAIN task THEN task[a] ELSE NewTask]

-----------------------------------------------------------------------------
(* The database worker runs the first open call of the port. *)

Effect(m) ==
  CASE m.call = "cancelTransfer"  -> CancelTransfer(row, Sender)
    [] m.call = "beginCompletion" -> BeginCompletion(row, Sender, m.root)
    [] m.call = "getStatus"       -> Tx(row, OwnerError(row, Sender), row)
    [] m.call = "setVerificationProgress" ->
         Tx(row, "none", SetVerificationProgress(row, m.attempt, m.bytes, m.phase))
    [] m.call = "markTransferCompleted" ->
         Tx(row, "none", MarkTransferCompleted(row, m.attempt, m.root))
    [] m.call = "markTransferFailed" ->
         Tx(row, "none", MarkTransferFailed(row, m.attempt, "PART_READ_ERROR", m.bytes))
    [] m.call \in {"getCompletionVerificationPlan", "listCancelledTransferIds"} ->
         Tx(row, "none", row)

\* The flag of an answer: beginCompletion returns a plan, a plan was found, or the
\* report of a verification was applied.
Flag(m, next) ==
  CASE m.call = "beginCompletion" -> next # row /\ next.status = "completing"
    [] m.call = "getCompletionVerificationPlan" -> IsCurrentAttempt(row, m.attempt)
    [] OTHER -> next # row

Execute ==
  \E i \in DOMAIN port :
    LET m == port[i]
        tx == Effect(m)
    IN /\ m.answer.error = "open"
       /\ \A k \in 1..(i - 1) : port[k].answer.error # "open"
       /\ \/ /\ row' = tx.row
             /\ port' = [port EXCEPT ![i].answer =
                  [error |-> tx.error, status |-> tx.row.status,
                   attempt |-> tx.row.attempt, flag |-> Flag(m, tx.row)]]
             /\ UNCHANGED used
          \/ /\ Fault
             /\ port' = [port EXCEPT ![i].answer.error = "STORAGE_ERROR"]
             /\ UNCHANGED row
       /\ UNCHANGED <<part, request, tail, closed, fence, plan, task, cleanup, up, gone>>

-----------------------------------------------------------------------------
(* The transfer is created and its chunks arrive through the upload queue. *)

CreateTransfer(manifest) ==
  /\ up
  /\ row' = CreateOrGet(row, Sender, manifest).row
  /\ UNCHANGED <<part, memory, gone, used>>

UploadChunk(c, d) ==
  /\ up /\ ~closed
  /\ Writable(row) /\ row.chunk[c] = NoDigest
  /\ part' = [part EXCEPT ![c] = d]
  /\ row' = CommitChunkBatch(row, Sender, [x \in {c} |-> d], {c}).row
  /\ UNCHANGED <<memory, gone, used>>

\* completeIncomingTransfer and cancelIncomingTransfer read the status first.
Request(s, kind, root) ==
  /\ up
  /\ request[s] = Idle
  /\ request' = [request EXCEPT ![s] = [Idle EXCEPT !.kind = kind, !.step = "status", !.root = root]]
  /\ port' = Post(s, "getStatus")
  /\ UNCHANGED <<row, part, tail, closed, fence, plan, task, cleanup, up, gone, used>>

StatusRead(s, kind) ==
  /\ request[s].kind = kind /\ request[s].step = "status"
  /\ Answers(s, "getStatus")

\* A control operation starts when the ones before it on the tail have ended.
Starts(s, kind) ==
  /\ tail # <<>> /\ Head(tail) = s
  /\ request[s].kind = kind /\ request[s].step = "queued"

-----------------------------------------------------------------------------
(* Completion. *)

\* completionStarts: another completion request of the transfer is past its status.
CompletionStarted ==
  \E s \in Slots : request[s].kind = "complete" /\ request[s].step \notin {"status", "none"}

\* A second completion request waits for the first one's result and changes nothing.
CompletionRead(s) ==
  /\ StatusRead(s, "complete")
  /\ \/ /\ Answer.error # "none" \/ CompletionStarted
        /\ Reply(s)
        /\ port' = Tail(port)
        /\ UNCHANGED tail
     \/ /\ Answer.error = "none" /\ ~CompletionStarted
        /\ IF Answer.status \in {"negotiating", "transferring"}
             THEN /\ Move(s, "queued")
                  /\ tail' = Append(tail, s)
                  /\ port' = Tail(port)
             ELSE /\ Move(s, "direct")
                  /\ port' = Append(Tail(port), [OpenCall EXCEPT !.from = s,
                               !.call = "beginCompletion", !.root = request[s].root])
                  /\ UNCHANGED tail
  /\ UNCHANGED <<row, part, closed, fence, plan, task, cleanup, up, gone, used>>

\* runCompletion.  A queue that a failed cancel left closed refuses the seal, and
\* the service calls the store past the writer.
CompletionStarts(s) ==
  /\ Starts(s, "complete")
  /\ IF closed THEN Move(s, "direct") /\ tail' = Tail(tail)
               ELSE Move(s, "sealed") /\ UNCHANGED tail
  /\ port' = Append(port, [OpenCall EXCEPT !.from = s, !.call = "beginCompletion",
                                           !.root = request[s].root])
  /\ UNCHANGED <<row, part, closed, fence, plan, task, cleanup, up, gone, used>>

CompletionBegun(s) ==
  /\ request[s].step \in {"sealed", "direct"}
  /\ Answers(s, "beginCompletion")
  /\ tail' = IF request[s].step = "sealed" THEN Tail(tail) ELSE tail
  /\ \/ /\ Answer.error # "none" \/ Answer.status # "completing"
        /\ Reply(s)
        /\ port' = Tail(port)
        /\ UNCHANGED <<plan, task>>
     \/ /\ Answer.error = "none" /\ Answer.status = "completing" /\ Answer.flag
        /\ Reply(s)
        /\ port' = Tail(port)
        /\ plan' = Answer.attempt
        /\ task' = StartVerification(Answer.attempt, fence)
     \/ /\ Answer.error = "none" /\ Answer.status = "completing" /\ ~Answer.flag
        /\ Move(s, "plan")
        /\ port' = Append(Tail(port), [OpenCall EXCEPT !.from = s,
                     !.call = "getCompletionVerificationPlan", !.attempt = Answer.attempt])
        /\ UNCHANGED <<plan, task>>
  /\ UNCHANGED <<row, part, closed, fence, cleanup, up, gone, used>>

\* The transfer was completing already: the plan is read again.
PlanRead(s) ==
  /\ Answers(s, "getCompletionVerificationPlan")
  /\ Reply(s)
  /\ port' = Tail(port)
  /\ IF Answer.error = "none" /\ Answer.flag
       THEN /\ plan' = Head(port).attempt
            /\ task' = StartVerification(Head(port).attempt, fence)
       ELSE UNCHANGED <<plan, task>>
  /\ UNCHANGED <<row, part, tail, closed, fence, cleanup, up, gone, used>>

-----------------------------------------------------------------------------
(* Verification. *)

Reporting(a) == \E i \in DOMAIN port : port[i].from = "verifier" /\ port[i].attempt = a

BytesRead == Cardinality({c \in Chunks : part[c] # NoDigest})

\* progressChain posts one progress report at a time.
ReportProgress(a) ==
  /\ ~Reporting(a)
  /\ \/ task[a].step = "reading" /\ task[a].sent = 0
     \/ task[a].step = "read" /\ task[a].sent < 3
  /\ port' = Append(port, [OpenCall EXCEPT
       !.from = "verifier", !.call = "setVerificationProgress", !.attempt = a,
       !.bytes = IF task[a].sent = 0 THEN 0 ELSE BytesRead,
       !.phase = CASE task[a].sent = 0 -> "reading" [] task[a].sent = 1 -> "hashing"
                   [] task[a].sent = 2 -> "done"])
  /\ UNCHANGED <<row, part, request, tail, closed, fence, plan, task, cleanup, up, gone, used>>

ProgressReported(a) ==
  /\ Answers("verifier", "setVerificationProgress") /\ Head(port).attempt = a
  /\ port' = Tail(port)
  /\ task' = [task EXCEPT ![a].sent = @ + 1]
  /\ UNCHANGED <<row, part, request, tail, closed, fence, plan, cleanup, up, gone, used>>

\* The verification worker's result: the content it read, or an item it could not
\* read.  From here on an abort comes too late.
FinishReading(a) ==
  /\ task[a].step = "reading"
  /\ \/ /\ task' = [task EXCEPT ![a].step = "read",
                                ![a].actual = IF BytesRead = TotalBytes THEN part ELSE NoRoot]
        /\ UNCHANGED used
     \/ /\ Fault
        /\ task' = [task EXCEPT ![a].step = "read"]
  /\ UNCHANGED <<row, part, request, port, tail, closed, fence, plan, cleanup, up, gone>>

ReportResult(a) ==
  /\ task[a].step = "read" /\ task[a].sent >= 3 /\ ~Reporting(a)
  /\ task' = [task EXCEPT ![a].step = "reporting"]
  /\ port' = Append(port, [OpenCall EXCEPT
       !.from = "verifier", !.attempt = a, !.root = task[a].actual, !.bytes = BytesRead,
       !.call = IF task[a].actual = NoRoot THEN "markTransferFailed" ELSE "markTransferCompleted"])
  /\ UNCHANGED <<row, part, request, tail, closed, fence, plan, cleanup, up, gone, used>>

\* The task settles and leaves verificationTasks; the answer of a progress report
\* still on its way is of no consequence.
EndTask(a, calls) ==
  /\ task' = [b \in DOMAIN task \ {a} |-> task[b]]
  /\ port' = [i \in DOMAIN calls |->
                IF calls[i].from = "verifier" /\ calls[i].attempt = a
                  THEN [calls[i] EXCEPT !.from = "nobody"] ELSE calls[i]]

ResultReported(a) ==
  /\ \/ Answers("verifier", "markTransferCompleted")
     \/ Answers("verifier", "markTransferFailed")
  /\ Head(port).attempt = a
  /\ EndTask(a, Tail(port))
  /\ plan' = IF Answer.error = "none" /\ Answer.flag /\ plan = a THEN 0 ELSE plan
  /\ UNCHANGED <<row, part, request, tail, closed, fence, cleanup, up, gone, used>>

\* The worker could not be started, or died: the transfer stays completing.
VerifierFails(a) ==
  /\ task[a].step = "reading"
  /\ Fault
  /\ EndTask(a, port)
  /\ UNCHANGED <<row, part, request, tail, closed, fence, plan, cleanup, up, gone>>

\* The worker of an aborted task has been terminated.
Terminated(a) ==
  /\ task[a].step = "terminating"
  /\ EndTask(a, port)
  /\ UNCHANGED <<row, part, request, tail, closed, fence, plan, cleanup, up, gone, used>>

\* An answer that nobody waits for.
Dropped ==
  /\ port # <<>> /\ Head(port).answer.error # "open" /\ Head(port).from = "nobody"
  /\ port' = Tail(port)
  /\ UNCHANGED <<row, part, request, tail, closed, fence, plan, task, cleanup, up, gone, used>>

-----------------------------------------------------------------------------
(* Cancellation. *)

\* mutant: a transfer that is cancelled already is answered at once
CancelReadOnce(s) ==
  /\ StatusRead(s, "cancel")
  /\ port' = Tail(port)
  /\ IF Answer.error = "none" /\ Cancellable(Answer.status)
       THEN Move(s, "queued") /\ fence' = TRUE /\ tail' = Append(tail, s)
       ELSE Reply(s) /\ UNCHANGED <<fence, tail>>
  /\ UNCHANGED <<row, part, closed, plan, task, cleanup, up, gone, used>>

CancelRead(s) ==
  /\ StatusRead(s, "cancel")
  /\ port' = Tail(port)
  /\ IF Answer.error = "none" /\ (Answer.status = "cancelled" \/ Cancellable(Answer.status))
       THEN Move(s, "queued") /\ fence' = TRUE /\ tail' = Append(tail, s)
       ELSE Reply(s) /\ UNCHANGED <<fence, tail>>
  /\ UNCHANGED <<row, part, closed, plan, task, cleanup, up, gone, used>>

CancelStarts(s) ==
  /\ Starts(s, "cancel")
  /\ closed' = TRUE
  /\ Move(s, "persist")
  /\ port' = Post(s, "cancelTransfer")
  /\ UNCHANGED <<row, part, tail, fence, plan, task, cleanup, up, gone, used>>

\* abortVerification: a worker that still reads is terminated.
Aborted(t) == IF t.step = "reading" THEN [t EXCEPT !.step = "terminating"] ELSE t

\* mutant: the tasks are told to stop, and not waited for
CancelPersistedNotWaiting(s) ==
  /\ Answers(s, "cancelTransfer")
  /\ tail' = Tail(tail)
  /\ IF Answer.error = "none"
       THEN /\ closed' = FALSE
            /\ Move(s, "abort")
            /\ task' = [a \in DOMAIN task |-> Aborted(task[a])]
            /\ port' = Tail(port)
       ELSE /\ Move(s, "restore")
            /\ port' = Append(Tail(port), [OpenCall EXCEPT !.from = s, !.call = "getStatus"])
            /\ UNCHANGED <<closed, task>>
  /\ UNCHANGED <<row, part, fence, plan, cleanup, up, gone, used>>

\* mutant: the staging directory is removed whether or not the row was cancelled
CancelPersistedOrNot(s) ==
  /\ Answers(s, "cancelTransfer")
  /\ tail' = Tail(tail)
  /\ closed' = FALSE
  /\ request' = [request EXCEPT ![s].step = "abort", ![s].awaits = DOMAIN task]
  /\ task' = [a \in DOMAIN task |-> Aborted(task[a])]
  /\ port' = Tail(port)
  /\ UNCHANGED <<row, part, fence, plan, cleanup, up, gone, used>>

CancelPersisted(s) ==
  /\ Answers(s, "cancelTransfer")
  /\ tail' = Tail(tail)
  /\ IF Answer.error = "none"
       THEN /\ closed' = FALSE
            /\ request' = [request EXCEPT ![s].step = "abort", ![s].awaits = DOMAIN task]
            /\ task' = [a \in DOMAIN task |-> Aborted(task[a])]
            /\ port' = Tail(port)
       ELSE /\ Move(s, "restore")
            /\ port' = Append(Tail(port), [OpenCall EXCEPT !.from = s, !.call = "getStatus"])
            /\ UNCHANGED <<closed, task>>
  /\ UNCHANGED <<row, part, fence, plan, cleanup, up, gone, used>>

\* The aborted tasks have settled: remove the directory, or join the removal that runs.
TasksAborted(s) ==
  /\ request[s].step = "abort"
  /\ request[s].awaits \cap DOMAIN task = {}
  /\ cleanup' = TRUE
  /\ Move(s, "remove")
  /\ UNCHANGED <<row, part, port, tail, closed, fence, plan, task, up, gone, used>>

Removing == {s \in Slots : request[s].step = "remove"}

\* rm ends for everyone who waits for it: the requests, or the startup cleanup.
Removed ==
  /\ cleanup
  /\ cleanup' = FALSE
  /\ part' = [c \in Chunks |-> NoDigest]
  /\ request' = [s \in Slots |-> IF s \in Removing THEN Idle ELSE request[s]]
  /\ gone' = (gone \/ Removing # {})
  /\ UNCHANGED <<row, port, tail, closed, fence, plan, task, up, used>>

RemoveFails ==
  /\ cleanup
  /\ Fault
  /\ cleanup' = FALSE
  /\ request' = [s \in Slots |-> IF s \in Removing THEN [request[s] EXCEPT !.step = "restore"]
                                                   ELSE request[s]]
  /\ port' = port \o SetToSeq({[OpenCall EXCEPT !.from = s, !.call = "getStatus"] : s \in Removing})
  /\ UNCHANGED <<row, part, tail, closed, fence, plan, task, up, gone>>

\* mutant: the fence is not lifted
RestoredKeepingFence(s) ==
  /\ request[s].step = "restore"
  /\ Answers(s, "getStatus")
  /\ Reply(s)
  /\ port' = Tail(port)
  /\ task' = IF Answer.error # "none" \/ Answer.status = "cancelled" \/ plan = 0 THEN task
             ELSE StartVerification(plan, FALSE)
  /\ UNCHANGED <<row, part, tail, closed, fence, plan, cleanup, up, gone, used>>

\* restoreVerificationAfterCancelledControlFailure
Restored(s) ==
  /\ request[s].step = "restore"
  /\ Answers(s, "getStatus")
  /\ Reply(s)
  /\ port' = Tail(port)
  /\ IF Answer.error # "none" \/ Answer.status = "cancelled" THEN UNCHANGED <<fence, task>>
     ELSE /\ fence' = FALSE
          /\ task' = IF plan = 0 THEN task ELSE StartVerification(plan, FALSE)
  /\ UNCHANGED <<row, part, tail, closed, plan, cleanup, up, gone, used>>

-----------------------------------------------------------------------------
(* The process. *)

Empty == [a \in {} |-> NewTask]

Crash ==
  /\ up /\ UseStop
  /\ up' = FALSE
  /\ request' = [s \in Slots |-> Idle] /\ port' = <<>> /\ tail' = <<>>
  /\ closed' = FALSE /\ fence' = FALSE /\ plan' = 0 /\ task' = Empty /\ cleanup' = FALSE
  /\ UNCHANGED <<row, part, gone>>

\* The constructor starts cleanupCancelledStagingOnStartup.
Restart ==
  /\ ~up
  /\ up' = TRUE
  /\ port' = Post("startup", "listCancelledTransferIds")
  /\ UNCHANGED <<row, part, request, tail, closed, fence, plan, task, cleanup, gone, used>>

CancelledListed ==
  /\ Answers("startup", "listCancelledTransferIds")
  /\ port' = Tail(port)
  /\ cleanup' = (cleanup \/ (Answer.error = "none" /\ Answer.status = "cancelled"))
  /\ UNCHANGED <<row, part, request, tail, closed, fence, plan, task, up, gone, used>>

-----------------------------------------------------------------------------
Init ==
  /\ row = AbsentRow
  /\ part = [c \in Chunks |-> NoDigest]
  /\ request = [s \in Slots |-> Idle] /\ port = <<>> /\ tail = <<>>
  /\ closed = FALSE /\ fence = FALSE /\ plan = 0 /\ task = Empty /\ cleanup = FALSE
  /\ up = TRUE /\ gone = FALSE
  /\ used = [faults |-> 0, stops |-> 0]

Complete == \E s \in Slots, root \in Roots : Request(s, "complete", root)
Cancel   == \E s \in Slots : Request(s, "cancel", NoRoot)

Environment ==
  \/ \E m \in Manifests : CreateTransfer(m)
  \/ \E c \in Chunks, d \in Digests : UploadChunk(c, d)
  \/ Complete \/ Cancel \/ Crash

\* The request of slot s goes on with an answer, or with what it has waited for.
Handle(s) ==
  \/ CompletionRead(s) \/ CompletionStarts(s) \/ CompletionBegun(s) \/ PlanRead(s)
  \/ CancelRead(s) \/ CancelStarts(s) \/ CancelPersisted(s) \/ TasksAborted(s) \/ Restored(s)

Verifying ==
  \/ Dropped \/ CancelledListed
  \/ \E a \in DOMAIN task :
       \/ ReportProgress(a) \/ ProgressReported(a) \/ FinishReading(a)
       \/ ReportResult(a) \/ ResultReported(a) \/ VerifierFails(a) \/ Terminated(a)

Cleaning == Removed \/ RemoveFails

Next ==
  \/ Environment \/ Execute \/ Verifying \/ Cleaning \/ Restart
  \/ \E s \in Slots : Handle(s)

Spec == Init /\ [][Next]_vars

\* The event loop, both workers and the disk keep running; a stopped Agent is
\* started again.
Fairness ==
  /\ WF_vars(Execute) /\ WF_vars(Verifying) /\ \A s \in Slots : WF_vars(Handle(s))
  /\ WF_vars(Cleaning) /\ WF_vars(Restart)

FairSpec == Spec /\ Fairness

\* A phone that waits for its completion keeps asking, with the root it computed.
PhoneRepeatsCompletion ==
  \A root \in Roots : SF_vars(root = row.requested /\ \E s \in Slots : Request(s, "complete", root))

\* A phone that cancels repeats its request until it is answered.
PhoneRepeatsCancel == SF_vars(row.status = "cancelled" /\ Cancel)

\* Nothing but crashes goes wrong.
NothingFails == [](used.faults = 0)

-----------------------------------------------------------------------------
(* A cancel that was answered with success stays: the staging directory is gone  *)
(* and nothing verifies the transfer, whatever completion, cancel or restore     *)
(* was under way and whatever comes after a restart.                             *)
CancelledIsQuiet == gone => row.status = "cancelled" /\ ~Staged /\ DOMAIN task = {}

(* The staging files have one user: rm never runs while a verification worker has *)
(* them open, and no two verifications run, across retries, new attempts, failed   *)
(* cancels and restores.                                                           *)
FilesHaveOneUser ==
  /\ cleanup => \A a \in DOMAIN task : task[a].step \notin {"reading", "terminating"}
  /\ Cardinality(DOMAIN task) <= 1

(* Only a cancelled transfer loses its files: a cancel that fails, or a cleanup  *)
(* at startup, never takes the content of a transfer that can still be verified. *)
StagingKept == row.status # "cancelled" => part = row.chunk

(* A sealed transfer gets its verdict if the phone repeats its completion: "Keep *)
(* the transfer completing for an explicit same-root completion retry when worker *)
(* startup, IPC, or a database mutation itself fails."                            *)
CompletingEnds ==
  PhoneRepeatsCompletion => (row.status = "completing" ~> row.status # "completing")

(* "Cancelled transfers retain their cleanup intent in SQLite and will be        *)
(* retried by an idempotent cancel request or the next process start": the files *)
(* go if the phone repeats its request, and, where nothing fails but the process, *)
(* without that.                                                                  *)
CancelledIsRemoved ==
  PhoneRepeatsCancel \/ NothingFails => (row.status = "cancelled" ~> ~Staged)
=============================================================================

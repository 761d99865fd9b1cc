-------------------------- MODULE V3TransferProjection --------------------------
(***************************************************************************)
(* One upload seen from the phone: the task of the in-memory store, its    *)
(* row in SQLite, the native uploader that outlives the screens, and the    *)
(* handlers of the screens that control it.                                *)
(*                                                                         *)
(* JavaScript runs one handler at a time; a handler gives way whenever it  *)
(* awaits a write, a native call or another handler, and events, timers    *)
(* and other handlers run there.  A flow is a handler under way: boot       *)
(* (recoverPersistedNativeTransfers), page (the transfer screen), control   *)
(* (a press of pause, resume, cancel or retry), start (the one promise that *)
(* ensureNativeTransferStarted shares) and evidence (the reconciliation of  *)
(* chunk digests after a mismatch).  A crash loses the memory of            *)
(* JavaScript; the native uploader dies with it or survives.                *)
(*                                                                         *)
(* The uploader and the Agent are modelled by what they answer, from the   *)
(* code of TransferController.kt.  A read of a snapshot or of the row is     *)
(* one step with its use, but for the rows the transfer screen reads.       *)
(***************************************************************************)
EXTENDS V3ProjectionRow, Sequences

CONSTANTS
  MaxRevision,   \* bound: the Agent reports progress below this revision
  MaxWire,       \* bound: native events on their way to JavaScript
  MaxUser,       \* bound: controls pressed and screens opened
  MaxTroubles    \* bound: losses of JavaScript, requests and transactions that fail

ASSUME ProjectionAssumption ==
  /\ MaxRevision \in Nat /\ MaxWire \in Nat \ {0} /\ MaxUser \in Nat /\ MaxTroubles \in Nat

VARIABLES
  agent,       \* the Agent's transfer: its status ("none" without one) and revision
  native,      \* the controller's record of the transfer
  wire,        \* native events on their way
  mem,         \* the task of the store; NoRow before it is hydrated
  disk,        \* the row
  upd,         \* the update that waits to be written, at most 100 ms
  jobs,        \* the queue of transactions (writeTail)
  flow,        \* the handlers under way
  reg,         \* operationIds: the native operation whose events are taken, 0 for none
  restarting,  \* restartingTransferIds
  left         \* what is left of the bounds

js == <<mem, upd, jobs, flow, reg, restarting>>
vars == <<agent, native, wire, mem, disk, upd, jobs, flow, reg, restarting, left>>

-----------------------------------------------------------------------------
Flows == {"boot", "page", "control", "start", "evidence"}

(* A flow: the step it is at, its operation, the task it started from, the row *)
(* or answer it holds, the transactions it still waits for, how often a missing *)
(* transfer was asked for, and what it was told.                                *)
Idle == [pc |-> "idle", op |-> "none", was |-> NoRow, row |-> NoRow, ahead |-> 0, tries |-> 0,
         note |-> "none"]

At(f, pc) == flow[f].pc = pc

\* A record of the controller: cmd is the control under way and was the status
\* before it; recon says that a cancel has still to be reconciled.
NoRecord == [op |-> 0, st |-> "none", rev |-> 0, cmd |-> "none", was |-> "none",
             recon |-> FALSE, bad |-> FALSE]

\* emitState, snapshot: while a control is under way all that is told is optimistic.
Event(r, optimistic) ==
  [op |-> r.op, st |-> r.st, rev |-> r.rev, opt |-> optimistic \/ r.cmd # "none", bad |-> r.bad]

\* A step of the controller that emits an event needs room for it.
Emits(events) == Len(wire) + Len(events) <= MaxWire /\ wire' = wire \o events

UserActs == left.user > 0 /\ left' = [left EXCEPT !.user = @ - 1]
Trouble  == left.troubles > 0 /\ left' = [left EXCEPT !.troubles = @ - 1]

Active == {"queued", "transferring", "recovering", "waiting_for_peer"}  \* isPausableTransferStatus

-----------------------------------------------------------------------------
(* Projections: what an update or an event does to the store and to the queue *)
(* of updates.                                                                 *)

Taken(u) == mem # NoRow /\ ~Ignored(mem, u)

\* applyNativeProjection, enqueueV3TransferProjectionUpdate
Enqueued(u)    == IF upd = NoUpdate THEN u ELSE Coalesced(upd, u)
Applied(u)     == IF Taken(u) THEN Merged(mem, u) ELSE mem
Persisting(u)  == IF Taken(u) THEN Enqueued(u) ELSE upd
Project(u)     == mem' = Applied(u) /\ upd' = Persisting(u)

\* acceptNativeTransferOperation, when busy tells of a restart under way
Accepts(op, busy) == ~busy /\ reg \in {0, op}

\* matchesPendingNativeControl
Matches(r, st) == \/ r.pend = "cancel" /\ st = "cancelled"
                  \/ r.pend = "pause" /\ st = "paused"
                  \/ r.pend = "resume" /\ st = "transferring"

ToUpdate(e) == [st |-> e.st, rev |-> e.rev, opt |-> e.opt, pend |-> "keep", settle |-> FALSE,
                bad |-> e.bad, scan |-> e.st = "recovering"]

Heard(e, busy)     == mem # NoRow /\ Accepts(e.op, busy)
Projected(e, busy) == /\ Heard(e, busy)
                      /\ e.opt => Matches(mem, e.st)
                      /\ Taken(ToUpdate(e))

\* projectNativeTransferEvent; persistChunkDigestMismatchEvidence asks for the
\* evidence flow, once, in the flows that result.
Handle(e, busy, flows) ==
  /\ reg' = IF Heard(e, busy) THEN e.op ELSE reg
  /\ IF Projected(e, busy) THEN Project(ToUpdate(e)) ELSE UNCHANGED <<mem, upd>>
  /\ flow' = IF Projected(e, busy) /\ e.bad /\ flows["evidence"] = Idle
               THEN [flows EXCEPT !["evidence"].pc = "asked", !["evidence"].row.rev = e.rev]
               ELSE flows

\* projectNativeTransferSnapshot, of the record there is
HandleSnapshot(busy, flows) ==
  IF native = NoRecord THEN flow' = flows /\ UNCHANGED <<mem, upd, reg>>
                       ELSE Handle(Event(native, FALSE), busy, flows)

\* projectNativeTransferStartFailure, when the start threw; the error decides
\* between the statuses.
ReportStart(note) ==
  IF note # "threw" \/ mem = NoRow \/ PendingCancellation(mem) THEN UNCHANGED <<mem, upd>>
  ELSE \E st \in {"waiting_for_peer", "failed"} :
         Project([NoUpdate EXCEPT !.st = st, !.rev = mem.rev, !.pend = "none"])

-----------------------------------------------------------------------------
(* SQLite: transactions run one after the other.  A flow that awaits one, or  *)
(* that reads after the pending writes, waits for those ahead of it.           *)

Job(k, u, f) == [k |-> k, u |-> u, w |-> f]

\* The operation that a press of a control asks for.
Operation(op) == IF op = "retry" THEN "resume" ELSE op

\* What a transaction does, or fails to do.
Throws(j) == (j.k = "begin" /\ Refused(disk)) \/ (j.k \notin {"prepare"} /\ disk = NoRow)
Done(j) == CASE j.k = "apply"    -> Written(disk, j.u)
             [] j.k = "begin"    -> Begun(disk, Operation(flow["control"].op), j.u.st)
             [] j.k = "prepare"  -> Prepared(disk)
             [] j.k = "mismatch" -> Contradicted(disk, j.u.rev)

\* Where a flow goes on when the transaction it awaits fails.
Thrown(fl) == CASE fl.pc \in {"begin", "reread"}           -> [fl EXCEPT !.pc = "unbegun", !.ahead = 0]
                [] fl.pc \in {"settling", "settled"}       -> [fl EXCEPT !.pc = "unsettled", !.ahead = 0]
                [] fl.pc = "manifest"                      -> [fl EXCEPT !.pc = "aborted", !.ahead = 0]
                [] OTHER                                   -> Idle

Nearer == [f \in Flows |-> [flow[f] EXCEPT !.ahead = IF @ > 0 THEN @ - 1 ELSE 0]]

RunJob ==
  /\ jobs # <<>>
  /\ jobs' = Tail(jobs)
  /\ LET j == Head(jobs)
     IN \/ /\ ~Throws(j)
           /\ disk' = Done(j)
           /\ flow' = Nearer
           /\ UNCHANGED left
        \/ /\ IF Throws(j) THEN UNCHANGED left ELSE Trouble
           /\ flow' = [Nearer EXCEPT ![j.w] = Thrown(@)]
           /\ UNCHANGED disk
  /\ UNCHANGED <<agent, native, wire, mem, upd, reg, restarting>>

\* scheduleProjectionFlush: the timer of flushV3TransferProjectionUpdates.  Its
\* transaction, which nobody awaits, is one step with the timer.
FlushTimer ==
  /\ upd # NoUpdate /\ jobs = <<>>
  /\ upd' = NoUpdate
  /\ \/ /\ disk' = IF disk = NoRow THEN disk ELSE Written(disk, upd)
        /\ UNCHANGED left
     \/ /\ Trouble
        /\ UNCHANGED disk
  /\ UNCHANGED <<agent, native, wire, mem, jobs, flow, reg, restarting>>

\* waitForPersistedWrites by flow f, now fl, with update u still to be written.
Flushed(u, f) == IF u = NoUpdate THEN jobs ELSE Append(jobs, Job("apply", u, f))
AwaitWrites(f, u, fl) ==
  /\ jobs' = Flushed(u, f)
  /\ upd' = NoUpdate
  /\ flow' = [flow EXCEPT ![f] = [fl EXCEPT !.ahead = Len(Flushed(u, f))]]

\* A transaction of flow fl of f, which waits for it.
AwaitJob(f, fl, k, u) ==
  /\ jobs' = Append(jobs, Job(k, u, f))
  /\ flow' = [flow EXCEPT ![f] = [fl EXCEPT !.ahead = Len(jobs) + 1]]

\* Flow f has reached step pc and nothing is ahead of it.
Reached(f, pc) == At(f, pc) /\ flow[f].ahead = 0
Goto(f, pc)    == flow' = [flow EXCEPT ![f].pc = pc]
Ends(f)        == flow' = [flow EXCEPT ![f] = Idle]

outside == <<agent, native, wire, disk, left>>
fence   == <<reg, restarting>>

-----------------------------------------------------------------------------
(* ensureNativeTransferStarted: one start at a time, shared by its callers.   *)

\* mutant: a control that waited for a start is not told that it has ended
ToldCallers(result) == [f \in Flows |->
  IF f = "start" THEN Idle
  ELSE IF flow[f].pc = "starting" THEN [flow[f] EXCEPT !.note = result, !.pc = "started"]
  ELSE flow[f]]

\* The callers of a start that ends with result are told; fl is the start itself.
Told(result) == [f \in Flows |->
  IF f = "start" THEN Idle
  ELSE IF flow[f].pc \in {"starting", "waiting"} THEN [flow[f] EXCEPT !.note = result,
         !.pc = IF @ = "starting" THEN "started" ELSE "waited"]
  ELSE flow[f]]

\* mutant: a pending cancel is started like another transfer
ReconcilesNothing(r) == FALSE

Reconciles(r) == PendingCancellation(r)

\* Caller c, now fl, asks for a start.  What startNativeTransferFromProjection does
\* up to its first await: a settled task is refused, a pending cancel is fenced.
CallStart(c, fl, recover) ==
  IF flow["start"] # Idle
    THEN /\ flow' = [flow EXCEPT ![c] = [fl EXCEPT !.pc = "starting"]]
         /\ UNCHANGED fence
  ELSE IF mem = NoRow \/ (IsTerminal(mem.st) /\ ~(mem.opt /\ mem.pend = "cancel"))
    THEN /\ flow' = [flow EXCEPT ![c] = [fl EXCEPT !.pc = "started",
                                             !.note = IF mem = NoRow THEN "threw" ELSE "false"]]
         /\ UNCHANGED fence
  ELSE /\ flow' = [flow EXCEPT ![c] = [fl EXCEPT !.pc = "starting"],
             !["start"] = [Idle EXCEPT !.op = recover, !.was = mem,
                             !.pc = IF Reconciles(mem) THEN "reconcile" ELSE "look"]]
       /\ reg' = IF Reconciles(mem) THEN 0 ELSE reg
       /\ restarting' = (restarting \/ Reconciles(mem))

Finish(result) == flow' = Told(result)

\* toStartProjection
StartProjection(s) ==
  [st |-> IF s.op = "recover" THEN "recovering" ELSE "transferring", rev |-> s.was.rev, opt |-> TRUE,
   pend |-> "keep", settle |-> FALSE, bad |-> FALSE, scan |-> s.op = "recover"]

\* The snapshot decides: a terminal record is projected, a living one is kept
\* unless it has to be recovered, and then it is fenced; the start is shown, and
\* loadV3ChunkDigestManifest waits for the pending writes.
StartLooks ==
  /\ At("start", "look")
  /\ LET s     == flow["start"]
         found == native # NoRecord
         keeps == found /\ (IsTerminal(native.st) \/ s.op # "recover")
         next  == [s EXCEPT !.pc = "manifest", !.note = IF found THEN "found" ELSE "none"]
     IN \/ /\ keeps
           /\ HandleSnapshot(restarting, Told(IF IsTerminal(native.st) THEN "false" ELSE "true"))
           /\ UNCHANGED <<jobs, restarting, left>>
        \/ /\ ~keeps
           /\ reg' = IF found THEN 0 ELSE reg
           /\ restarting' = (restarting \/ found)
           /\ mem' = Applied(StartProjection(s))
           /\ \/ /\ AwaitWrites("start", Persisting(StartProjection(s)), next)
                 /\ UNCHANGED left
              \/ /\ Trouble          \* getTransferSecret
                 /\ upd' = Persisting(StartProjection(s))
                 /\ flow' = [flow EXCEPT !["start"] = [next EXCEPT !.pc = "aborted"]]
                 /\ UNCHANGED jobs
  /\ UNCHANGED <<agent, native, wire, disk>>

\* What the Agent makes of a control, and when it refuses it.
Wanted(cmd) == CASE cmd = "pause" -> "paused" [] cmd = "resume" -> "transferring"
                 [] cmd = "cancel" -> "cancelled"
Accepted(cmd) == agent.st \in {"transferring", "paused"} \cup
                   (IF cmd = "cancel" THEN {"cancelled"} ELSE {})
Controlled(cmd) == IF agent.st = Wanted(cmd) THEN agent ELSE [st |-> Wanted(cmd), rev |-> agent.rev + 1]

\* retireRecord: a control under way is superseded, whether it reached the Agent or not.
Retires(pc) ==
  /\ agent' \in {agent} \cup {Controlled(cmd) : cmd \in {x \in {native.cmd} \ {"none"} : Accepted(x)}}
  /\ flow' = [flow EXCEPT !["start"].pc = pc, !["control"] =
       IF @.pc = "calling" THEN [@ EXCEPT !.pc = "caught", !.note = "superseded"] ELSE @]

\* replaceTransfer, replaceWithCancelledRecord: the record of the start's task
Replacement(st) == [NoRecord EXCEPT !.op = native.op + 1, !.st = st, !.rev = flow["start"].was.rev]

\* beginNativeTransferRestart, and the controller replaces its record
StartCalls ==
  /\ Reached("start", "manifest")
  /\ reg' = 0
  /\ restarting' = TRUE
  /\ native' = Replacement(StartProjection(flow["start"]).st)
  /\ Emits(<<Event(native', TRUE)>>)
  /\ Retires("called")
  /\ UNCHANGED <<mem, disk, upd, jobs, left>>

\* registerNativeTransferOperation, and the snapshot of the new record: no operation
\* is registered while a restart is under way.
StartEnds ==
  /\ At("start", "called")
  /\ restarting' = FALSE
  /\ HandleSnapshot(FALSE, Told("true"))
  /\ UNCHANGED jobs /\ UNCHANGED outside

\* The start fails: the record it was to replace goes on.
StartAborts ==
  /\ At("start", "aborted")
  /\ restarting' = FALSE
  /\ IF flow["start"].note = "found"
       THEN HandleSnapshot(FALSE, Told(IF IsTerminal(native.st) THEN "false" ELSE "true"))
       ELSE Finish("threw") /\ UNCHANGED <<mem, upd, reg>>
  /\ UNCHANGED jobs /\ UNCHANGED outside

\* reconcileNativeCancelledTransfer has answered with the settled record.
ReconcileEnds ==
  /\ At("start", "reconciled")
  /\ restarting' = FALSE
  /\ reg' = native.op
  /\ Project(ToUpdate([Event(native, FALSE) EXCEPT !.opt = FALSE]))
  /\ Finish("true")
  /\ UNCHANGED jobs /\ UNCHANGED outside

\* getTransferSecret fails before it, and no record is replaced.
ReconcileUnsigned ==
  /\ At("start", "reconcile")
  /\ Trouble
  /\ Goto("start", "unreconciled")
  /\ UNCHANGED <<agent, native, wire, disk, mem, upd, jobs, reg, restarting>>

\* It has failed: the record there is now is registered, not projected.
ReconcileAborts ==
  /\ At("start", "unreconciled")
  /\ restarting' = FALSE
  /\ reg' = native.op
  /\ Finish("threw")
  /\ UNCHANGED <<mem, upd, jobs>> /\ UNCHANGED outside

StartStep == \/ StartLooks \/ StartCalls \/ StartEnds \/ StartAborts
             \/ ReconcileEnds \/ ReconcileUnsigned \/ ReconcileAborts

-----------------------------------------------------------------------------
(* The controller and the Agent. *)

\* The record as it is after the Agent's snapshot a (applyRemoteSnapshot).
Synced(r, a) ==
  IF a.rev < r.rev THEN r
  ELSE [r EXCEPT !.rev = a.rev, !.bad = FALSE,
                 !.st = IF @ = "recovering" /\ a.st = "transferring" THEN @ ELSE a.st]

Runs == native # NoRecord /\ native.cmd = "none" /\ ~native.recon
          /\ native.st \in {"transferring", "recovering"}

Keeps(r) == /\ native' = r
            /\ Emits(<<Event(r, FALSE)>>)

\* runTransfer: create answers with the transfer there is.
NativeCreates ==
  /\ Runs
  /\ LET a == IF agent.st = "none" THEN [st |-> "transferring", rev |-> 1] ELSE agent
     IN /\ Synced(native, a) # native
        /\ agent' = a
        /\ Keeps(Synced(native, a))
  /\ UNCHANGED js /\ UNCHANGED <<disk, left>>

\* restoreRemoteDigests has ended; chunks are committed; the last one completes.
NativeUploads ==
  /\ Runs /\ agent.st = "transferring" /\ native.rev = agent.rev
  /\ \/ /\ native.st = "recovering"
        /\ UNCHANGED agent
        /\ Keeps([native EXCEPT !.st = "transferring"])
     \/ /\ native.st = "transferring" /\ agent.rev < MaxRevision
        /\ \E st \in {"transferring", "completed"} : agent' = [st |-> st, rev |-> agent.rev + 1]
        /\ Keeps(Synced(native, agent'))
  /\ UNCHANGED js /\ UNCHANGED <<disk, left>>

\* fail: the network, or a chunk whose digest differs from the Agent's
NativeFails ==
  /\ Runs
  /\ Trouble
  /\ \/ Keeps([native EXCEPT !.st = "waiting_for_peer"])
     \/ agent.st # "none" /\ Keeps([native EXCEPT !.st = "failed", !.bad = TRUE])
  /\ UNCHANGED js /\ UNCHANGED <<agent, disk>>

\* runStatusRepair of a record that waits
NativeRepairs ==
  /\ native.st = "waiting_for_peer" /\ native.cmd = "none" /\ agent.st # "none"
  /\ Keeps(Synced(native, agent))
  /\ UNCHANGED js /\ UNCHANGED <<agent, disk, left>>

\* The control flow, if it is still there, gets answer a or an error.
Answered(a)  == flow' = [flow EXCEPT !["control"] =
                  IF @.pc = "calling" THEN [@ EXCEPT !.pc = "answered", !.row.st = a.st, !.row.rev = a.rev]
                                      ELSE @]
\* retryNativeControl asks three times for a transfer that the Agent does not have.
MaxTries == 3
Refusal(err) ==
  LET call  == flow["control"]
      tries == call.tries + 1
  IN flow' = [flow EXCEPT !["control"] =
       IF call.pc # "calling" THEN call
       ELSE IF err = "notfound" /\ tries < MaxTries THEN [call EXCEPT !.pc = "call", !.tries = tries]
       ELSE [call EXCEPT !.pc = "caught", !.note = err]]

Released == [native EXCEPT !.cmd = "none", !.was = "none"]

\* launchQueuedControl: the Agent answers (applyControlResponse).
NativeControls ==
  /\ native.cmd # "none" /\ Accepted(native.cmd)
  /\ agent' = Controlled(native.cmd)
  /\ Keeps([Released EXCEPT !.st = agent'.st, !.rev = agent'.rev, !.bad = FALSE])
  /\ Answered(agent')
  /\ UNCHANGED <<mem, disk, upd, jobs, reg, restarting, left>>

\* It refuses, or the network fails before or after it: recoverAfterControlFailure
\* takes the Agent's status, or restores the status there was.
NativeControlFails ==
  /\ native.cmd # "none"
  /\ \/ /\ ~Accepted(native.cmd)
        /\ Refusal(IF agent.st = "none" THEN "notfound" ELSE "refused")
        /\ UNCHANGED <<agent, left>>
     \/ /\ Trouble
        /\ agent' \in {agent} \cup (IF Accepted(native.cmd) THEN {Controlled(native.cmd)} ELSE {})
        /\ Refusal("network")
  /\ \/ agent'.st # "none" /\ Keeps(Synced(Released, agent'))
     \/ /\ agent'.st = "none" \/ left'.troubles < left.troubles
        /\ Keeps([Released EXCEPT !.st = native.was])
  /\ UNCHANGED <<mem, disk, upd, jobs, reg, restarting>>

\* reconcileCancelledTransfer replaces the record, and then asks the Agent.
ReconcileReplaces ==
  /\ At("start", "reconcile")
  /\ native' = [Replacement("cancelled") EXCEPT !.recon = TRUE]
  /\ Retires("reconciling")
  /\ UNCHANGED <<wire, mem, disk, upd, jobs, reg, restarting, left>>

\* reconcileCancelledRecord, for the start or for scheduleCancelledReconciliation:
\* a missing transfer is cancelled, an ended one is taken over, another is cancelled.
Reconciled ==
  IF agent.st = "none" THEN [st |-> "cancelled", rev |-> native.rev]
  ELSE IF IsTerminal(agent.st) THEN agent
  ELSE Controlled("cancel")
NativeReconciles ==
  /\ native.recon
  /\ agent' = IF agent.st = "none" THEN agent ELSE Reconciled
  /\ Keeps([native EXCEPT !.recon = FALSE, !.st = Reconciled.st, !.rev = Reconciled.rev])
  /\ IF At("start", "reconciling") THEN Goto("start", "reconciled") ELSE UNCHANGED flow
  /\ UNCHANGED <<mem, disk, upd, jobs, reg, restarting, left>>

NativeReconcileFails ==
  /\ At("start", "reconciling")
  /\ Trouble
  /\ agent' \in {agent} \cup (IF agent.st = "none" THEN {} ELSE {Reconciled})
  /\ Goto("start", "unreconciled")
  /\ UNCHANGED <<native, wire, mem, disk, upd, jobs, reg, restarting>>

\* An event reaches JavaScript; one that finds no task waits (bufferEvent) for
\* replayBufferedNativeTransferEvents.
Deliver ==
  /\ wire # <<>> /\ mem # NoRow
  /\ wire' = Tail(wire)
  /\ Handle(Head(wire), restarting, flow)
  /\ UNCHANGED <<agent, native, disk, jobs, restarting, left>>

NativeStep == \/ NativeCreates \/ NativeUploads \/ NativeFails \/ NativeRepairs
              \/ NativeControls \/ NativeControlFails \/ ReconcileReplaces \/ NativeReconciles
              \/ NativeReconcileFails

-----------------------------------------------------------------------------
(* The controls of the transfer screen. *)

c == flow["control"]

\* The press: what it asks of the task and the status it shows.
Offered(op) == CASE op = "pause" -> mem.st \in Active
                 [] op \in {"resume", "cancel"} -> mem.st = "paused"
                 [] op = "retry" -> mem.st = "waiting_for_peer"
Optimistic(op) == Wanted(Operation(op))

\* Handler to beginPendingOperation, which shows the status before it is written.
Press(op) ==
  /\ c = Idle /\ mem # NoRow /\ mem.pend = "none" /\ Offered(op)
  /\ UserActs
  /\ mem' = [mem EXCEPT !.opt = TRUE, !.pend = Operation(op), !.st = Optimistic(op)]
  /\ AwaitJob("control", [Idle EXCEPT !.pc = "begin", !.op = op, !.was = mem], "begin",
              [NoUpdate EXCEPT !.st = Optimistic(op)])
  /\ UNCHANGED <<agent, native, wire, disk, upd, reg, restarting>>

BeginWritten ==
  /\ Reached("control", "begin")
  /\ AwaitWrites("control", upd, [c EXCEPT !.pc = "reread"])
  /\ UNCHANGED <<mem, reg, restarting>> /\ UNCHANGED outside

\* The row is merged, and waitForNativeTransferStart waits for a start under way.
Begins ==
  /\ Reached("control", "reread")
  /\ mem' = IF disk = NoRow THEN mem ELSE MergedPersisted(mem, disk)
  /\ Goto("control", IF flow["start"] = Idle THEN "look" ELSE "waiting")
  /\ UNCHANGED <<upd, jobs, reg, restarting>> /\ UNCHANGED outside

\* beginPendingOperation has failed: the task is as it was, unless it has moved on.
BeginFails ==
  /\ At("control", "unbegun")
  /\ mem' = IF mem.pend # Operation(c.op) \/ mem.rev > c.was.rev THEN mem ELSE c.was
  /\ Goto("control", "caught")
  /\ UNCHANGED <<upd, jobs, reg, restarting>> /\ UNCHANGED outside

\* waitForNativeTransferStart
Waited ==
  /\ At("control", "waited")
  /\ Goto("control", IF c.note = "threw" THEN "caught" ELSE "look")
  /\ UNCHANGED <<mem, upd, jobs, reg, restarting>> /\ UNCHANGED outside

\* The snapshot that says whether the control needs a start.
NeedsStart(op) == \/ native = NoRecord
                  \/ op = "resume" /\ native.st = "paused"
                  \/ op = "retry" /\ native.st # "waiting_for_peer"
ControlLooks ==
  /\ At("control", "look")
  /\ \/ /\ NeedsStart(c.op)
        /\ CallStart("control", c, "recover")
     \/ /\ ~NeedsStart(c.op)
        /\ IF c.op = "cancel" /\ Settled(mem) THEN Ends("control") ELSE Goto("control", "call")
        /\ UNCHANGED fence
  /\ UNCHANGED <<mem, upd, jobs>> /\ UNCHANGED outside

\* startNativeTask has returned.  A cancel that could not be started stays pending.
ControlStarted ==
  /\ At("control", "started")
  /\ ReportStart(c.note)
  /\ IF c.note = "true" /\ c.op # "retry"
       THEN IF native = NoRecord
              THEN flow' = [flow EXCEPT !["control"].pc = "caught", !["control"].note = "notfound"]
            ELSE IF c.op = "cancel" /\ Settled(mem) THEN Ends("control")
            ELSE Goto("control", "call")
     ELSE IF c.note = "true" \/ c.op = "cancel" \/ Settled(mem') THEN Ends("control")
     ELSE Goto("control", "caught")
  /\ UNCHANGED <<jobs, reg, restarting>> /\ UNCHANGED outside

\* beginCommand of the controller, one command at a time; it refuses a settled record.
ControlCalls ==
  /\ At("control", "call") /\ native.cmd = "none"
  /\ LET cmd == Operation(c.op)
     IN \/ /\ IsTerminal(native.st) /\ ~(cmd = "cancel" /\ native.st = "cancelled")
           /\ flow' = [flow EXCEPT !["control"].pc = "caught", !["control"].note = "refused"]
           /\ UNCHANGED <<native, wire>>
        \/ /\ ~IsTerminal(native.st) \/ (cmd = "cancel" /\ native.st = "cancelled")
           /\ native' = [native EXCEPT !.cmd = cmd, !.was = native.st, !.st = Wanted(cmd), !.bad = FALSE]
           /\ Emits(<<Event(native', TRUE)>>)
           /\ Goto("control", "calling")
  /\ UNCHANGED <<agent, mem, disk, upd, jobs, reg, restarting, left>>

\* resolvePendingOperation, from the answer: read the row, write the settlement.
ControlAnswered ==
  /\ At("control", "answered")
  /\ AwaitWrites("control", upd, [c EXCEPT !.pc = "settling"])
  /\ UNCHANGED <<mem, reg, restarting>> /\ UNCHANGED outside

Settlement == [NoUpdate EXCEPT !.st = c.row.st, !.rev = c.row.rev, !.pend = "none", !.settle = TRUE]

ControlSettles ==
  /\ Reached("control", "settling")
  /\ IF disk = NoRow \/ disk.pend \notin {"none", Operation(c.op)}
       THEN Goto("control", "unsettled") /\ UNCHANGED jobs
       ELSE AwaitJob("control", [c EXCEPT !.pc = "settled"], "apply", Settlement)
  /\ UNCHANGED <<mem, upd, reg, restarting>> /\ UNCHANGED outside

TakesAnswer == mem.pend = Operation(c.op) /\ mem.rev <= c.row.rev
Resolved    == [mem EXCEPT !.opt = FALSE, !.pend = "none", !.rev = c.row.rev, !.st = c.row.st]

\* A retry whose transfer the Agent does not have is settled as recovering, and started.
Restarts == c.op = "retry" /\ c.note = "notfound"

\* The settlement is written, or it is not: then the store adopts the answer anyway
\* and queues an update that repairs the row.
ControlEnds ==
  /\ \/ /\ Reached("control", "settled")
        /\ UNCHANGED upd
     \/ /\ At("control", "unsettled")
        /\ upd' = IF TakesAnswer THEN Enqueued([Settlement EXCEPT !.bad = mem.bad]) ELSE upd
  /\ mem' = IF TakesAnswer THEN Resolved ELSE mem
  /\ IF Restarts THEN Goto("control", "restart") ELSE Ends("control")
  /\ UNCHANGED <<jobs, reg, restarting>> /\ UNCHANGED outside

ControlRestarts ==
  /\ At("control", "restart")
  /\ CallStart("control", c, "recover")
  /\ UNCHANGED <<mem, upd, jobs>> /\ UNCHANGED outside

\* mutant: the status that the control showed stays
RolledBackShown(r) == [r EXCEPT !.opt = FALSE, !.pend = "none"]

\* rollbackPendingOperation of task r
RollsBack(r)  == r.pend = Operation(c.op) /\ r.opt /\ (IsTerminal(r.st) => r.st = "cancelled")
RolledBack(r) == [r EXCEPT !.opt = FALSE, !.pend = "none", !.st = c.was.st]
Rollback(r)   == [NoUpdate EXCEPT !.st = c.was.st, !.rev = r.rev, !.pend = "none", !.settle = TRUE]

ControlMissing ==
  /\ At("control", "caught") /\ Restarts
  /\ flow' = [flow EXCEPT !["control"].pc = "answered",
               !["control"].row.st = "recovering", !["control"].row.rev = c.was.rev]
  /\ UNCHANGED <<mem, upd, jobs, reg, restarting>> /\ UNCHANGED outside

\* The catch projects the snapshot.  A settled transfer is left as it is, the cancel
\* of a missing one is settled, another control is rolled back.
ControlCaught ==
  /\ At("control", "caught") /\ ~Restarts
  /\ LET e    == Event(native, FALSE)
         told == native # NoRecord /\ Projected(e, restarting)
         m    == IF told THEN Merged(mem, ToUpdate(e)) ELSE mem
     IN \/ /\ Settled(m)
           /\ HandleSnapshot(restarting, [flow EXCEPT !["control"] = Idle])
        \/ /\ ~Settled(m) /\ c.op = "cancel" /\ c.note = "notfound"
           /\ HandleSnapshot(restarting, [flow EXCEPT !["control"].pc = "answered",
                !["control"].row.st = "cancelled", !["control"].row.rev = c.was.rev])
        \/ /\ ~Settled(m) /\ ~(c.op = "cancel" /\ c.note = "notfound")
           /\ mem' = IF RollsBack(m) THEN RolledBack(m) ELSE m
           /\ upd' = LET q == IF told THEN Enqueued(ToUpdate(e)) ELSE upd
                     IN IF ~RollsBack(m) THEN q
                        ELSE IF q = NoUpdate THEN Rollback(m) ELSE Coalesced(q, Rollback(m))
           /\ reg' = IF native # NoRecord /\ Heard(e, restarting) THEN native.op ELSE reg
           /\ Ends("control")
  /\ UNCHANGED <<jobs, restarting>> /\ UNCHANGED outside

ControlStep == \/ BeginWritten \/ Begins \/ BeginFails \/ Waited \/ ControlLooks \/ ControlStarted
               \/ ControlCalls \/ ControlAnswered \/ ControlSettles \/ ControlEnds
               \/ ControlRestarts \/ ControlMissing \/ ControlCaught

-----------------------------------------------------------------------------
(* The transfer screen: it starts the queued transfer; it is opened            *)
(* (hydratePeer, then a recovery of what it finds) or retries a cancel.         *)

ShouldRecover(r) == ~IsTerminal(r.st) /\ r.st \notin {"queued", "paused"} /\ r.pend = "none"

\* startNextQueuedTransfer
StartQueued ==
  /\ flow["page"] = Idle /\ mem.st = "queued" /\ mem.pend = "none"
  /\ CallStart("page", Idle, "first")
  /\ UNCHANGED <<mem, upd, jobs>> /\ UNCHANGED outside

OpenPage ==
  /\ flow["page"] = Idle
  /\ UserActs
  /\ \/ /\ PendingCancellation(mem)
        /\ CallStart("page", Idle, "recover")
        /\ UNCHANGED <<upd, jobs>>
     \/ /\ AwaitWrites("page", upd, [Idle EXCEPT !.pc = "reading"])
        /\ UNCHANGED fence
  /\ UNCHANGED <<agent, native, wire, mem, disk>>

\* mutant: the row of the disk replaces the task
HydratedOver(p) == IF p = NoRow THEN mem ELSE p

\* mergePersistedTasks
Hydrated(p) == IF mem = NoRow \/ p = NoRow THEN (IF p = NoRow THEN mem ELSE p)
                                           ELSE MergedPersisted(mem, p)

PageStep ==
  /\ \/ /\ Reached("page", "reading")
        /\ flow' = [flow EXCEPT !["page"].pc = "read", !["page"].row = disk]
        /\ UNCHANGED <<mem, upd, reg, restarting>>
     \/ /\ At("page", "read")
        /\ mem' = Hydrated(flow["page"].row)
        /\ IF mem' # NoRow /\ ShouldRecover(mem') THEN Goto("page", "recover") ELSE Ends("page")
        /\ UNCHANGED <<upd, reg, restarting>>
     \/ /\ At("page", "recover")
        /\ CallStart("page", flow["page"], "recover")
        /\ UNCHANGED <<mem, upd>>
     \/ /\ At("page", "started")
        /\ ReportStart(flow["page"].note)
        /\ Ends("page") /\ UNCHANGED fence
  /\ UNCHANGED jobs /\ UNCHANGED outside

-----------------------------------------------------------------------------
(* The root: hydrateAll and replay, prepareForNativeRecovery, then a start. *)

BootStep ==
  /\ \/ /\ At("boot", "lost")
        /\ mem' = Hydrated(disk)
        /\ AwaitJob("boot", [Idle EXCEPT !.pc = "prepare"], "prepare", NoUpdate)
        /\ UNCHANGED <<upd, reg, restarting>>
     \/ /\ Reached("boot", "prepare")
        /\ IF disk.st = "recovering" \/ PendingCancellation(disk)
             THEN AwaitWrites("boot", upd, [Idle EXCEPT !.pc = "prepared"])
             ELSE Ends("boot") /\ UNCHANGED <<upd, jobs>>
        /\ UNCHANGED <<mem, reg, restarting>>
     \/ /\ Reached("boot", "prepared")
        /\ mem' = IF mem = NoRow \/ disk = NoRow THEN disk ELSE Recovering(mem, disk)
        /\ Goto("boot", "start")
        /\ UNCHANGED <<upd, jobs, reg, restarting>>
     \/ /\ At("boot", "start")
        /\ CallStart("boot", Idle, "recover")
        /\ UNCHANGED <<mem, upd, jobs>>
     \/ /\ At("boot", "started")
        /\ ReportStart(flow["boot"].note)
        /\ Ends("boot")
        /\ UNCHANGED <<jobs, reg, restarting>>
  /\ UNCHANGED outside

-----------------------------------------------------------------------------
(* reconcileV3AgentChunkDigests. *)

EvidenceStep ==
  /\ \/ /\ At("evidence", "asked")
        /\ AwaitWrites("evidence", upd, [flow["evidence"] EXCEPT !.pc = "flushed"])
        /\ UNCHANGED mem
     \/ /\ Reached("evidence", "flushed")
        /\ AwaitJob("evidence", [flow["evidence"] EXCEPT !.pc = "written"], "mismatch",
                    [NoUpdate EXCEPT !.rev = flow["evidence"].row.rev])
        /\ UNCHANGED <<mem, upd>>
     \/ /\ Reached("evidence", "written")
        /\ AwaitWrites("evidence", upd, [flow["evidence"] EXCEPT !.pc = "reread"])
        /\ UNCHANGED mem
     \/ /\ Reached("evidence", "reread")
        /\ mem' = Hydrated(disk)
        /\ Ends("evidence")
        /\ UNCHANGED <<upd, jobs>>
  /\ UNCHANGED fence /\ UNCHANGED outside

-----------------------------------------------------------------------------
\* JavaScript is lost, with the native uploader or without it.
Crash ==
  /\ Trouble
  /\ mem' = NoRow /\ upd' = NoUpdate /\ jobs' = <<>> /\ reg' = 0 /\ restarting' = FALSE
  /\ flow' = [f \in Flows |-> IF f = "boot" THEN [Idle EXCEPT !.pc = "lost"] ELSE Idle]
  /\ wire' = <<>>
  /\ native' \in {native, NoRecord}
  /\ UNCHANGED <<agent, disk>>

\* The transfer has just been created, or it was paused at the Agent's revision 2
\* and the uploader is as it was then, or has been restarted since.
Init ==
  /\ \/ /\ agent = [st |-> "none", rev |-> 0]
        /\ native = NoRecord /\ mem = Queued
     \/ /\ agent = [st |-> "paused", rev |-> 2]
        /\ native \in {NoRecord, [NoRecord EXCEPT !.op = 1, !.st = "paused", !.rev = 2]}
        /\ mem = [Queued EXCEPT !.st = "paused", !.rev = 2]
  /\ wire = <<>>
  /\ disk = mem /\ upd = NoUpdate /\ jobs = <<>>
  /\ flow = [f \in Flows |-> Idle]
  /\ reg = native.op /\ restarting = FALSE
  /\ left = [user |-> MaxUser, troubles |-> MaxTroubles]

JsStep == StartStep \/ ControlStep \/ PageStep \/ BootStep \/ EvidenceStep \/ FlushTimer \/ Deliver

Next == \/ JsStep \/ NativeStep \/ RunJob \/ Crash
        \/ StartQueued \/ OpenPage \/ \E op \in Controls \cup {"retry"} : Press(op)

Spec == Init /\ [][Next]_vars

\* JavaScript keeps running its handlers, SQLite its transactions, and the requests
\* of the controller end; what the user does and what fails is not owed.
Fairness == /\ WF_vars(StartStep) /\ WF_vars(ControlStep) /\ WF_vars(PageStep) /\ WF_vars(BootStep)
            /\ WF_vars(EvidenceStep) /\ WF_vars(FlushTimer) /\ WF_vars(Deliver) /\ WF_vars(RunJob)
            /\ WF_vars(NativeControls \/ NativeControlFails)
            /\ WF_vars(ReconcileReplaces \/ NativeReconciles)

FairSpec == Spec /\ Fairness

-----------------------------------------------------------------------------
(* Properties. *)

\* The task that a screen shows never goes back to an older revision of the Agent,
\* and a settled outcome stays, whatever stale row, snapshot, event or answer comes
\* after it; only a digest mismatch turns it into a failure.
MemoryNeverGoesBack ==
  [][(mem # NoRow /\ mem' # NoRow) =>
       /\ mem'.rev >= mem.rev
       /\ Settled(mem) => Settled(mem') /\ (mem'.st = mem.st \/ mem'.bad)]_vars

\* When the task is settled as completed, the Agent has completed the transfer; when it
\* is settled as cancelled, the Agent has cancelled it or does not have it, unless a
\* reconciliation of the cancel is not over, or the Agent did not have it when asked.
SettledIsAnswered ==
  [][Settled(mem') /\ ~Settled(mem) /\ mem # NoRow =>
       /\ mem'.st = "completed" => agent'.st = "completed"
       /\ mem'.st = "cancelled" => \/ agent'.st \in {"none", "cancelled"}
                                   \/ native'.recon
                                   \/ c.op = "cancel" /\ c.note = "notfound"]_vars

\* Whoever asks for a start, and whenever JavaScript was lost: a transfer whose cancel
\* is pending and not in the hands of a control is never given to an uploader again.
NoUploadAfterCancelIntent ==
  [][native'.op > native.op /\ ~native'.recon => ~(PendingCancellation(mem) /\ c = Idle)]_vars

\* The handlers do not wait for each other for ever: a control that was pressed ends.
PressesEnd == c # Idle ~> c = Idle

-----------------------------------------------------------------------------
(* A property the code does not have. *)

\* "Only a 404 or Agent response may clear the pending cancel intent": a transfer that
\* the phone shows or stores as cancelled is so at the Agent, or never reached it.
CancelledIsConfirmed ==
  \A r \in {mem, disk} : Settled(r) /\ r.st = "cancelled" => agent.st \in {"none", "cancelled"}
=============================================================================

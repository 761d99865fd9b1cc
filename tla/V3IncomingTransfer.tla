--------------------------- MODULE V3IncomingTransfer ---------------------------
(***************************************************************************)
(* One transfer from the Agent as the phone receives it: the offers of the *)
(* peer connection, the native download (ReceiveController.kt), the row    *)
(* its events are written to, and the user's controls.                     *)
(*                                                                         *)
(* The Agent is its record alone: an acknowledgement or a control is one   *)
(* step there (V3OutgoingTransfer has the reads and writes inside it).     *)
(* A native coroutine is cancelled only where it suspends: a request that  *)
(* is under way still reaches the Agent, its failure is still a failure of *)
(* the download, and a content root that is being computed still ends in a *)
(* published file.  Changes of the phone's                                 *)
(* database run one after the other, in the order they were asked for.     *)
(* Bytes, item boundaries and progress figures are left out.               *)
(***************************************************************************)
EXTENDS Integers, Sequences, FiniteSets

CONSTANTS
  LastChunk,    \* chunks are 1..LastChunk, downloaded in this order
  Jobs,         \* download coroutines at a time, cancelled ones included
  MaxOffers,    \* bound: offers of the transfer
  MaxControls,  \* bound: what the user presses
  MaxTroubles   \* bound: lost requests and answers, killed processes

ASSUME IncomingAssumption == LastChunk \in Nat \ {0} /\ MaxTroubles \in Nat

VARIABLES
  agent,   \* the Agent's record
  native,  \* the IncomingRecord
  job,     \* its download and those that were cancelled before
  file,    \* staging directory, chunks of the part file, published file
  writes,  \* changes that wait for the database
  starts,  \* startNativeIncomingTransfer calls under way, with the offer's revision
  row,     \* the row the user sees
  control, \* the control the user waits for
  past,    \* history: the whole content was verified and published (proved), the
           \* user deleted the files (deleted), a download began while a cancelled one
           \* was computing its content root (overlapped), a request of a cancelled
           \* download failed (late)
  used     \* how much of the bounds is used up

phone == <<native, job, file, writes, starts, row, control, past>>
vars == <<agent, phone, used>>

-----------------------------------------------------------------------------
All == 1..LastChunk
Idle == [step |-> "idle", chunk |-> 1, link |-> "job", revision |-> 0]
NoRecord == [status |-> "none", revision |-> 0]
NoFiles == [dir |-> FALSE, part |-> {}, final |-> FALSE]
NoControl == [op |-> "none", step |-> "idle", revision |-> 0]

Larger(a, b) == IF a > b THEN a ELSE b

Trouble == used.troubles < MaxTroubles /\ used' = [used EXCEPT !.troubles = @ + 1]

\* isOfferable; transfers that complete without a chunk are left out.
Offerable(status) == status \in {"waiting_for_peer", "transferring", "paused"}

\* isTransferReadable and isTransferAcknowledgable
Receivable(status) == status \in {"waiting_for_peer", "transferring"}

Terminal(status) == status \in {"completed", "cancelled", "failed"}

Event(n) == [op |-> "event", status |-> n.status, revision |-> n.revision]
Emit(n) == writes' = Append(writes, Event(n))

\* The coroutine that runs for the record.
Launch(free) ==
  /\ job[free] = Idle
  /\ job' = [job EXCEPT ![free] = [Idle EXCEPT !.step = "fetch"]]
  /\ past' = [past EXCEPT !.overlapped = @ \/ \E k \in Jobs : job[k].step = "root"]

\* record.job is cancelled; coroutines cancelled before stay what they are.
JobCancelled ==
  [j \in Jobs |-> IF job[j] # Idle /\ job[j].link = "job" THEN [job[j] EXCEPT !.link = "cancelled"] ELSE job[j]]

\* The record is removed: its coroutines keep it, with the revision it had.
RecordRemoved(revision) ==
  [j \in Jobs |-> IF job[j] # Idle /\ job[j].link # "orphan"
                     THEN [job[j] EXCEPT !.link = "orphan", !.revision = revision] ELSE job[j]]

Ends(j) == job' = [job EXCEPT ![j] = Idle]

-----------------------------------------------------------------------------
(* Offers. *)

\* Created at the Agent or repeated on a reconnect; markOfferDelivered.
Offer ==
  /\ Offerable(agent.status)
  /\ used.offers < MaxOffers
  /\ used' = [used EXCEPT !.offers = @ + 1]
  /\ agent' = IF agent.status = "waiting_for_peer"
                THEN [agent EXCEPT !.status = "transferring", !.revision = @ + 1] ELSE agent
  /\ writes' = Append(writes, [op |-> "offer", status |-> "transferring", revision |-> agent'.revision])
  /\ UNCHANGED <<native, job, file, starts, row, control, past>>

NextWrite(op) == writes # <<>> /\ Head(writes).op = op /\ writes' = Tail(writes)

\* createV3IncomingTransfer, and the check of handleMessage on its result
SaveOffer ==
  LET o == Head(writes)
      done == row.status \in {"completed", "cancelled"} IN
  /\ NextWrite("offer")
  /\ row' = CASE row.status = "none" -> [status |-> "transferring", revision |-> o.revision]
              [] done -> row
              [] OTHER -> [row EXCEPT !.revision = Larger(@, o.revision)]
  /\ starts' = IF done THEN starts ELSE Append(starts, o.revision)
  /\ UNCHANGED <<agent, native, job, file, control, past, used>>

\* start, which leaves a record that exists alone
Start(j) ==
  /\ starts # <<>>
  /\ starts' = Tail(starts)
  /\ IF native.status # "none"
       THEN UNCHANGED <<native, job, file, writes, past>>
       ELSE /\ native' = [status |-> "transferring", revision |-> Head(starts)]
            /\ Launch(j)
            /\ file' = [file EXCEPT !.dir = TRUE]
            /\ Emit(native')
  /\ UNCHANGED <<agent, row, control, used>>

\* mutant: an event has to be newer than the row
ApplyNewerEvent ==
  LET e == Head(writes)
      ignored == \/ row.status = "none" \/ e.revision <= row.revision
                 \/ Terminal(row.status) /\ e.status # row.status IN
  /\ NextWrite("event")
  /\ row' = IF ignored THEN row ELSE [status |-> e.status, revision |-> e.revision]
  /\ UNCHANGED <<agent, native, job, file, starts, control, past, used>>

\* applyV3IncomingTransferEvent
ApplyEvent ==
  LET e == Head(writes)
      ignored == \/ row.status = "none" \/ e.revision < row.revision
                 \/ Terminal(row.status) /\ e.status # row.status IN
  /\ NextWrite("event")
  /\ row' = IF ignored THEN row ELSE [status |-> e.status, revision |-> e.revision]
  /\ UNCHANGED <<agent, native, job, file, starts, control, past, used>>

DeleteRow ==
  /\ NextWrite("delete")
  /\ row' = NoRecord
  /\ UNCHANGED <<agent, native, job, file, starts, control, past, used>>

-----------------------------------------------------------------------------
(* The download. *)

\* The catch of startDownload: it runs for a cancelled coroutine too, unless what
\* it catches is the cancellation.  An orphan ends a record that is gone.
Fails(j) ==
  /\ file' = NoFiles
  /\ native' = IF job[j].link = "orphan" THEN native ELSE [native EXCEPT !.status = "failed"]
  /\ Emit([status |-> "failed",
            revision |-> IF job[j].link = "orphan" THEN job[j].revision ELSE native.revision])
  /\ Ends(j)
  /\ UNCHANGED <<starts, row, control>>

\* A request that failed: its error takes the place of the cancellation, so that a
\* cancelled coroutine deletes the files and ends the record as well.
RequestFails(j) ==
  /\ Fails(j)
  /\ past' = [past EXCEPT !.late = @ \/ job[j].link # "job"]

\* A cancelled coroutine ends before its next attempt.
NotRepeated(j) ==
  /\ job[j].link # "job"
  /\ Ends(j)
  /\ UNCHANGED <<native, file, writes, starts, row, control, past>>

\* mutant: the last chunk is acknowledged like the others, before the content root
FetchedThenAcknowledged(j) ==
  /\ job[j].step = "fetch" /\ Receivable(agent.status) /\ file.dir
  /\ file' = [file EXCEPT !.part = @ \cup {job[j].chunk}]
  /\ IF job[j].link = "job" THEN job' = [job EXCEPT ![j].step = "ack"] ELSE Ends(j)
  /\ UNCHANGED <<agent, native, writes, starts, row, control, past, used>>

\* downloadChunk: the bytes are in the part file, whoever still wants them
Fetched(j) ==
  /\ job[j].step = "fetch" /\ Receivable(agent.status) /\ file.dir
  /\ file' = [file EXCEPT !.part = @ \cup {job[j].chunk}]
  /\ IF job[j].link = "job"
       THEN job' = [job EXCEPT ![j].step = IF job[j].chunk = LastChunk THEN "root" ELSE "ack"]
       ELSE Ends(j)
  /\ UNCHANGED <<agent, native, writes, starts, row, control, past, used>>

\* Three attempts have failed, refused by the Agent or lost.
FetchFails(j) ==
  /\ job[j].step = "fetch"
  /\ IF Receivable(agent.status) /\ file.dir THEN Trouble ELSE UNCHANGED used
  /\ RequestFails(j) \/ NotRepeated(j)
  /\ UNCHANGED agent

\* The part file has the content root of the offer and replaces the final file.
Published(j) ==
  /\ job[j].step = "root" /\ file.part = All
  /\ file' = [file EXCEPT !.part = {}, !.final = TRUE]
  /\ past' = [past EXCEPT !.proved = TRUE]
  /\ IF job[j].link = "job" THEN job' = [job EXCEPT ![j].step = "ack"] ELSE Ends(j)
  /\ UNCHANGED <<agent, native, writes, starts, row, control, used>>

RootDiffers(j) ==
  /\ job[j].step = "root" /\ file.part # All
  /\ Fails(j)
  /\ UNCHANGED <<agent, past, used>>

\* The Agent takes an acknowledgement, for the first time or again.
AgentAcknowledges(j) ==
  LET new == job[j].chunk \notin agent.acknowledged
      acknowledged == agent.acknowledged \cup {job[j].chunk} IN
  /\ job[j].step = "ack" /\ Receivable(agent.status)
  /\ agent' = IF new THEN [status |-> IF acknowledged = All THEN "completed" ELSE agent.status,
                           revision |-> agent.revision + 1, acknowledged |-> acknowledged]
              ELSE agent
  /\ job' = [job EXCEPT ![j].step = "acked", ![j].revision = agent'.revision]
  /\ UNCHANGED <<native, file, writes, starts, row, control, past, used>>

\* Refused, or the request or its answer is lost: acknowledgements are not repeated.
AckFails(j) ==
  /\ \/ job[j].step = "ack" /\ ~Receivable(agent.status) /\ UNCHANGED used
     \/ job[j].step \in {"ack", "acked"} /\ Trouble
  /\ RequestFails(j)
  /\ UNCHANGED agent

\* acknowledgeChunk keeps the larger revision, in a cancelled coroutine too.
Acknowledged(j) ==
  LET revision == Larger(native.revision, job[j].revision)
      last == job[j].chunk = LastChunk IN
  /\ job[j].step = "acked"
  /\ IF job[j].link = "job"
       THEN /\ native' = [status |-> IF last THEN "completed" ELSE native.status, revision |-> revision]
            /\ writes' = writes \o <<Event([native' EXCEPT !.status = native.status])>>
                                \o (IF last THEN <<Event(native')>> ELSE <<>>)
            /\ IF last THEN Ends(j)
               ELSE job' = [job EXCEPT ![j] = [Idle EXCEPT !.step = "fetch", !.chunk = job[j].chunk + 1]]
       ELSE /\ native' = IF job[j].link = "orphan" THEN native ELSE [native EXCEPT !.revision = revision]
            /\ Ends(j)
            /\ UNCHANGED writes
  /\ UNCHANGED <<agent, file, starts, row, control, past, used>>

-----------------------------------------------------------------------------
(* The user's controls.  Without a record (the process was killed since) the  *)
(* native calls return at once.                                               *)

Press(op, shown) ==
  /\ control = NoControl /\ row.status \in shown
  /\ used.controls < MaxControls /\ used' = [used EXCEPT !.controls = @ + 1]

Posts(op) == control' = [NoControl EXCEPT !.op = op, !.step = "post"]

\* handleIncomingControl and pause
PressPause ==
  /\ Press("pause", {"transferring"})
  /\ IF native.status = "transferring" THEN Posts("pause") /\ job' = JobCancelled
     ELSE UNCHANGED <<control, job>>
  /\ UNCHANGED <<agent, native, file, writes, starts, row, past>>

PressResume ==
  /\ Press("resume", {"paused"})
  /\ IF native.status = "paused" THEN Posts("resume") ELSE UNCHANGED control
  /\ UNCHANGED <<agent, native, job, file, writes, starts, row, past>>

PressCancel ==
  /\ Press("cancel", {"transferring", "paused"})
  /\ IF native.status # "none" THEN Posts("cancel") ELSE UNCHANGED control
  /\ UNCHANGED <<agent, native, job, file, writes, starts, row, past>>

\* deleteRecord cancels what is shown to be under way.
PressDelete ==
  /\ Press("delete", {"transferring", "paused", "completed", "cancelled", "failed"})
  /\ IF ~Terminal(row.status) /\ native.status # "none" THEN Posts("delete")
     ELSE control' = [NoControl EXCEPT !.op = "delete", !.step = "files"]
  /\ UNCHANGED <<agent, native, job, file, writes, starts, row, past>>

Target == CASE control.op = "pause" -> "paused"
            [] control.op = "resume" -> "transferring"
            [] OTHER -> "cancelled"

\* setControlState
Allowed ==
  \/ agent.status = Target
  \/ ~Terminal(agent.status) /\ (control.op = "resume" => agent.status = "paused")
                             /\ (control.op = "pause" => Receivable(agent.status))

AgentControls ==
  /\ control.step = "post"
  /\ agent' = IF Allowed /\ agent.status # Target
                THEN [agent EXCEPT !.status = Target, !.revision = @ + 1] ELSE agent
  /\ control' = [control EXCEPT !.step = IF Allowed THEN "done" ELSE "refused", !.revision = agent'.revision]
  /\ UNCHANGED <<native, job, file, writes, starts, row, past, used>>

ControlLost ==
  /\ control.step \in {"post", "done"}
  /\ Trouble
  /\ control' = [control EXCEPT !.step = "refused"]
  /\ UNCHANGED <<agent, native, job, file, writes, starts, row, past>>

\* The rest of pause and resume.
Controlled(j) ==
  LET revision == Larger(native.revision, control.revision) IN
  /\ control.step = "done" /\ control.op \in {"pause", "resume"}
  /\ native' = [status |-> Target, revision |-> revision]
  /\ IF control.op = "resume"
       THEN Launch(j) /\ file' = [file EXCEPT !.dir = TRUE]
       ELSE UNCHANGED <<job, file, past>>
  /\ Emit(native')
  /\ control' = NoControl
  /\ UNCHANGED <<agent, starts, row, used>>

\* The rest of cancel.
Cancelled ==
  LET event == [status |-> "cancelled", revision |-> Larger(native.revision, control.revision)] IN
  /\ control.step = "done" /\ control.op \in {"cancel", "delete"}
  /\ native' = NoRecord
  /\ job' = RecordRemoved(event.revision)
  /\ file' = NoFiles
  /\ Emit(event)
  /\ control' = IF control.op = "delete" THEN [control EXCEPT !.step = "files"] ELSE NoControl
  /\ UNCHANGED <<agent, starts, row, past, used>>

\* mutant: only a cancel that fails ends the record
PauseFailureIgnored ==
  /\ control.step = "refused"
  /\ IF control.op \in {"resume", "pause"} THEN UNCHANGED <<native, writes>>
     ELSE native' = [native EXCEPT !.status = "failed"] /\ Emit(native')
  /\ control' = NoControl
  /\ UNCHANGED <<agent, job, file, starts, row, past, used>>

\* A resume that fails changes nothing; a pause or a cancel that fails ends the record.
ControlFails ==
  /\ control.step = "refused"
  /\ IF control.op = "resume" THEN UNCHANGED <<native, writes>>
     ELSE native' = [native EXCEPT !.status = "failed"] /\ Emit(native')
  /\ control' = NoControl
  /\ UNCHANGED <<agent, job, file, starts, row, past, used>>

\* deleteNativeIncomingTransferFiles, then deleteV3IncomingTransfer
DeleteFiles ==
  /\ control.step = "files"
  /\ file' = NoFiles
  /\ writes' = Append(writes, [op |-> "delete", status |-> "none", revision |-> 0])
  /\ control' = NoControl
  /\ past' = [past EXCEPT !.deleted = TRUE]
  /\ UNCHANGED <<agent, native, job, starts, row, used>>

-----------------------------------------------------------------------------
\* The app's process is killed: rows and files stay.
Kill ==
  /\ Trouble
  /\ native' = NoRecord /\ job' = [j \in Jobs |-> Idle] /\ control' = NoControl
  /\ writes' = <<>> /\ starts' = <<>>
  /\ UNCHANGED <<agent, file, row, past>>

\* The JavaScript runtime starts again over a living native module: events are
\* lost, and the snapshots are applied.
Reload ==
  /\ Trouble /\ control = NoControl
  /\ writes' = IF native.status = "none" THEN <<>> ELSE <<Event(native)>>
  /\ starts' = <<>>
  /\ UNCHANGED <<agent, native, job, file, row, control, past>>

-----------------------------------------------------------------------------
Init ==
  /\ agent = [status |-> "waiting_for_peer", revision |-> 1, acknowledged |-> {}]
  /\ native = NoRecord /\ row = NoRecord
  /\ job = [j \in Jobs |-> Idle]
  /\ file = NoFiles
  /\ writes = <<>> /\ starts = <<>>
  /\ control = NoControl
  /\ past = [proved |-> FALSE, deleted |-> FALSE, overlapped |-> FALSE, late |-> FALSE]
  /\ used = [offers |-> 0, controls |-> 0, troubles |-> 0]

Download(j) ==
  \/ Fetched(j) \/ FetchFails(j) \/ Published(j) \/ RootDiffers(j)
  \/ AgentAcknowledges(j) \/ AckFails(j) \/ Acknowledged(j)

Write == SaveOffer \/ ApplyEvent \/ DeleteRow

Presses == PressPause \/ PressResume \/ PressCancel \/ PressDelete

Control ==
  \/ AgentControls \/ ControlLost \/ Cancelled \/ ControlFails \/ DeleteFiles
  \/ \E j \in Jobs : Controlled(j)

Next ==
  \/ Offer \/ Write \/ (\E j \in Jobs : Start(j) \/ Download(j))
  \/ Presses \/ Control \/ Kill \/ Reload

Spec == Init /\ [][Next]_vars

\* Requests end (20 s call timeout), the database and the threads run.
Fairness ==
  /\ \A j \in Jobs : WF_vars(Download(j))
  /\ WF_vars(Write) /\ WF_vars(Control) /\ WF_vars(\E j \in Jobs : Start(j))

FairSpec == Spec /\ Fairness

-----------------------------------------------------------------------------
Working == {j \in Jobs : job[j] # Idle}

(* A row that says completed has its file until the user deletes it.  There are two *)
(* exceptions: a download that was paused at its content root ran on beside the     *)
(* next one, or a request of a paused download failed after all.                    *)
CompletedIsKept ==
  row.status = "completed" => file.final \/ past.deleted \/ past.overlapped \/ past.late

(* A download that runs ends: completed, paused, failed, cancelled or killed.    *)
DownloadsEnd == native.status = "transferring" ~> native.status # "transferring"

(* What the phone shows as under way is under way: no order of offers, events and   *)
(* controls leaves a row behind, as long as no request is lost, none of a paused    *)
(* download is refused, no process ends and the files are not deleted.  While a     *)
(* control is under way the row may lag: a failed event can be older than a row     *)
(* that a repeated offer has raised, until the cancel that follows emits its own.   *)
ShownIsReceived ==
  /\ used.troubles = 0 /\ ~past.late /\ ~past.deleted /\ row.status = "transferring"
  /\ writes = <<>> /\ starts = <<>> /\ control = NoControl
  => native.status = "transferring"

-----------------------------------------------------------------------------
(* A property the code does not have.                                           *)

(* "Keep the Agent transfer recoverable until the complete payload has passed    *)
(* its content-root check and has been atomically published": when the Agent has *)
(* completed the transfer and all has ended, the phone has the file.             *)
CompletedIsReceived ==
  agent.status = "completed" /\ Working = {} => file.final \/ past.deleted
=============================================================================

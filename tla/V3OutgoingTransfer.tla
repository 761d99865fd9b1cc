-------------------------- MODULE V3OutgoingTransfer --------------------------
(***************************************************************************)
(* The Agent's catalogue of outgoing files, for one transfer               *)
(* (v3OutgoingTransferService.ts): records in memory, changed by handlers  *)
(* at once, and one JSON file that a chain of writes brings up to date.    *)
(*                                                                         *)
(* A handler runs to its next await in one step.  acknowledgeChunk reads   *)
(* the chunk back from disk between its checks and its update.  Every      *)
(* update waits for a write of its own, and the writes run one after the   *)
(* other, each with the records as they are when it begins.                *)
(*                                                                         *)
(* Chunk contents are left out: the source snapshot never changes, and an  *)
(* acknowledgement with another digest is refused.                         *)
(***************************************************************************)
EXTENDS Integers, FiniteSets, SequencesExt

CONSTANTS
  Chunks,      \* chunks of the transfer's items
  Acks,        \* acknowledgements the phone has in flight
  NoChunk,     \* an acknowledgement slot that is free
  MaxRevision, \* bound: no handler takes the revision past it
  MaxFaults,   \* bound: failed reads and writes of the JSON file, lost source files
  MaxCrashes,  \* bound: process crashes
  MaxOthers    \* bound: changes of other transfers

ASSUME OutgoingAssumption ==
  /\ IsFiniteSet(Chunks) /\ NoChunk \notin Chunks
  /\ MaxRevision \in Nat /\ MaxFaults \in Nat /\ MaxCrashes \in Nat /\ MaxOthers \in Nat

VARIABLES
  record,    \* the transfer in memory
  file,      \* the transfer in outgoing-transfers.json
  writes,    \* writeTail: writes that wait for the one that runs
  running,   \* the records a running write has taken
  ack,       \* the chunk each acknowledgement in flight reads back
  source,    \* the snapshot of the source files exists
  ready,     \* load: down, loading, ready, or rejected for good
  unread,    \* this start could not read the file
  used       \* how much of the bounds is used up

vars == <<record, file, writes, running, ack, source, ready, unread, used>>

-----------------------------------------------------------------------------
Statuses == {"absent", "waiting_for_peer", "transferring", "paused", "completed",
             "failed", "cancelled"}

Records == [status : Statuses, revision : Nat, acknowledged : SUBSET Chunks]

Absent == [status |-> "absent", revision |-> 0, acknowledged |-> {}]

\* isTransferAcknowledgable and isTransferReadable; "preparing" is never stored.
Acknowledgable(status) == status \in {"waiting_for_peer", "transferring"}

Outstanding(status) == status = "paused" \/ Acknowledgable(status)

Change(r, status) == [r EXCEPT !.status = status, !.revision = @ + 1]

\* mutant: one write at a time is thought to be enough
PersistCoalesced(next) ==
  /\ next.revision <= MaxRevision
  /\ record' = next
  /\ writes' = IF running # {} THEN writes ELSE writes + 1

\* persist: every change queues a write of its own.
Persist(next) ==
  /\ next.revision <= MaxRevision
  /\ record' = next
  /\ writes' = writes + 1

Fault == used.faults < MaxFaults /\ used' = [used EXCEPT !.faults = @ + 1]

-----------------------------------------------------------------------------
\* create, after the source has been copied.  A transfer with nothing to send is
\* complete at once.
Create ==
  /\ ready = "ready"
  /\ record = Absent
  /\ Persist([Absent EXCEPT !.revision = 1,
                !.status = IF Chunks = {} THEN "completed" ELSE "waiting_for_peer"])
  /\ source' = TRUE
  /\ UNCHANGED <<file, running, ack, ready, unread, used>>

MarkOfferDelivered ==
  /\ ready = "ready"
  /\ record.status = "waiting_for_peer"
  /\ Persist(Change(record, "transferring"))
  /\ UNCHANGED <<file, running, ack, source, ready, unread, used>>

\* acknowledgeChunk and the readChunk it calls pass their checks and open the source.
BeginAcknowledge(s, c) ==
  /\ ready = "ready"
  /\ Acknowledgable(record.status)
  /\ ack[s] = NoChunk
  /\ source
  /\ ack' = [ack EXCEPT ![s] = c]
  /\ UNCHANGED <<record, file, writes, running, source, ready, unread, used>>

\* mutant: the last chunk is not counted
AcknowledgeCountingBefore(s) ==
  /\ ready = "ready"
  /\ ack[s] # NoChunk
  /\ ack' = [ack EXCEPT ![s] = NoChunk]
  /\ ack[s] \notin record.acknowledged
  /\ Persist([record EXCEPT !.acknowledged = @ \cup {ack[s]}, !.revision = @ + 1,
                !.status = IF record.acknowledged = Chunks THEN "completed" ELSE @])
  /\ UNCHANGED <<file, running, source, ready, unread, used>>

\* The chunk has been read and its digest compared.  The status is not looked at again.
Acknowledge(s) ==
  LET acknowledged == record.acknowledged \cup {ack[s]} IN
  /\ ready = "ready"
  /\ ack[s] # NoChunk
  /\ ack' = [ack EXCEPT ![s] = NoChunk]
  /\ IF ack[s] \in record.acknowledged
       THEN UNCHANGED <<record, writes>>
       ELSE Persist([record EXCEPT !.acknowledged = acknowledged, !.revision = @ + 1,
                       !.status = IF acknowledged = Chunks THEN "completed" ELSE @])
  /\ UNCHANGED <<file, running, source, ready, unread, used>>

\* The source cannot be read, or the digest is not the one the phone computed.
AcknowledgeFails(s) ==
  /\ ready = "ready"
  /\ ack[s] # NoChunk
  /\ ack' = [ack EXCEPT ![s] = NoChunk]
  /\ UNCHANGED <<record, file, writes, running, source, ready, unread, used>>

\* setControlState
Pause ==
  /\ ready = "ready"
  /\ Acknowledgable(record.status)
  /\ Persist(Change(record, "paused"))
  /\ UNCHANGED <<file, running, ack, source, ready, unread, used>>

Resume ==
  /\ ready = "ready"
  /\ record.status = "paused"
  /\ Persist(Change(record, "transferring"))
  /\ UNCHANGED <<file, running, ack, source, ready, unread, used>>

Cancel ==
  /\ ready = "ready"
  /\ Outstanding(record.status)
  /\ Persist(Change(record, "cancelled"))
  /\ UNCHANGED <<file, running, ack, source, ready, unread, used>>

\* Another transfer of the catalogue changes: its write takes this record along.
OtherPersists ==
  /\ ready = "ready"
  /\ used.others < MaxOthers
  /\ used' = [used EXCEPT !.others = @ + 1]
  /\ writes' = writes + 1
  /\ UNCHANGED <<record, file, running, ack, source, ready, unread>>

-----------------------------------------------------------------------------
(* The JSON file. *)

\* mutant: writes are not chained
UnchainedWriteBegins ==
  /\ writes > 0
  /\ writes' = writes - 1
  /\ running' = running \cup {record}
  /\ UNCHANGED <<record, file, ack, source, ready, unread, used>>

\* The next write of the chain takes the records as they are now.
WriteBegins ==
  /\ writes > 0 /\ running = {}
  /\ writes' = writes - 1
  /\ running' = {record}
  /\ UNCHANGED <<record, file, ack, source, ready, unread, used>>

\* The temporary file is renamed, and the request is answered with the record as
\* it is by then.  The write of a load lets the requests in.
WriteEnds ==
  /\ \E r \in running : file' = r /\ running' = running \ {r}
  /\ ready' = "ready"
  /\ UNCHANGED <<record, writes, ack, source, used, unread>>

\* The request is answered with an error and the chain goes on, but a load whose
\* write failed rejects every request until the next start.
WriteFails ==
  /\ running # {}
  /\ Fault
  /\ running' = {}
  /\ ready' = IF ready = "loading" THEN "rejected" ELSE ready
  /\ UNCHANGED <<record, file, writes, ack, source, unread>>

SourceLost ==
  /\ source
  /\ Fault
  /\ source' = FALSE
  /\ UNCHANGED <<record, file, writes, running, ack, ready, unread>>

Crash ==
  /\ ready # "down"
  /\ used.crashes < MaxCrashes
  /\ used' = [used EXCEPT !.crashes = @ + 1]
  /\ ready' = "down"
  /\ writes' = 0 /\ running' = {} /\ ack' = [s \in Acks |-> NoChunk]
  /\ UNCHANGED <<record, file, source, unread>>

\* load: a transfer whose source is gone has failed.
Load ==
  LET lost == Outstanding(file.status) /\ ~source IN
  /\ ready = "down"
  /\ ready' = IF lost THEN "loading" ELSE "ready"
  /\ record' = IF lost THEN Change(file, "failed") ELSE file
  /\ writes' = IF lost THEN 1 ELSE 0
  /\ unread' = FALSE
  /\ UNCHANGED <<file, running, ack, source, used>>

\* A file that cannot be read or parsed is taken for an empty catalogue, which the
\* next write puts in its place.
LoadEmpty ==
  /\ ready = "down"
  /\ Fault
  /\ ready' = "ready"
  /\ record' = Absent
  /\ unread' = TRUE
  /\ UNCHANGED <<file, writes, running, ack, source>>

\* The directory cannot be made: every request is rejected until the next start.
LoadRejected ==
  /\ ready = "down"
  /\ Fault
  /\ ready' = "rejected"
  /\ record' = Absent
  /\ unread' = TRUE
  /\ UNCHANGED <<file, writes, running, ack, source>>

-----------------------------------------------------------------------------
Init ==
  /\ record = Absent /\ file = Absent
  /\ writes = 0 /\ running = {}
  /\ ack = [s \in Acks |-> NoChunk]
  /\ source = FALSE
  /\ ready = "ready"
  /\ unread = FALSE
  /\ used = [faults |-> 0, crashes |-> 0, others |-> 0]

Next ==
  \/ Create \/ MarkOfferDelivered
  \/ \E s \in Acks, c \in Chunks : BeginAcknowledge(s, c)
  \/ \E s \in Acks : Acknowledge(s) \/ AcknowledgeFails(s)
  \/ Pause \/ Resume \/ Cancel \/ OtherPersists
  \/ WriteBegins \/ WriteEnds \/ WriteFails
  \/ SourceLost \/ Crash \/ Load \/ LoadEmpty \/ LoadRejected

Spec == Init /\ [][Next]_vars

-----------------------------------------------------------------------------
(* Every variable has its type. *)
TypeOK ==
  /\ record \in Records /\ file \in Records
  /\ writes \in Nat /\ running \subseteq Records
  /\ ack \in [Acks -> Chunks \cup {NoChunk}]
  /\ source \in BOOLEAN
  /\ ready \in {"down", "loading", "ready", "rejected"}
  /\ unread \in BOOLEAN
  /\ used \in [faults : 0..MaxFaults, crashes : 0..MaxCrashes, others : 0..MaxOthers]

(* Completed means acknowledged, chunk for chunk, and the last acknowledgement  *)
(* completes the transfer whenever it lands: no order of acknowledgements,      *)
(* repeats, controls and restarts leaves a transfer with nothing to send open.  *)
CompletionIsExact ==
  record.status # "absent" => (record.status = "completed" <=> record.acknowledged = Chunks)

(* Once the writes have drained, the file is what memory is, unless a write     *)
(* failed: no change falls between a write that had begun and the next one.     *)
NothingUnsaved ==
  ready = "ready" /\ writes = 0 /\ running = {} /\ used.faults = 0 => file = record

(* The file never goes back: the write that is renamed last has the newest      *)
(* records of all that have been renamed, across failed writes and restarts.    *)
(* The one way back is a start that took an unreadable file for an empty        *)
(* catalogue (v3OutgoingTransferService.ts:257-260), until it is read again.    *)
FileNeverGoesBack ==
  [][file'.revision > file.revision \/ file' = file \/ unread]_vars

-----------------------------------------------------------------------------
(* A property the code does not have.                                           *)

(* "cancelled and completed are terminal states": whatever was under way when a *)
(* transfer became terminal no longer changes it.                               *)
TerminalIsFinal ==
  [][ready = "ready" /\ record.status \in {"completed", "cancelled"} => record' = record]_vars
=============================================================================

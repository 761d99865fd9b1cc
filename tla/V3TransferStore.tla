--------------------------- MODULE V3TransferStore ---------------------------
(***************************************************************************)
(* The SQLite source of truth of one incoming transfer under every legal   *)
(* caller: the upload queue, the control handlers, the completion handler  *)
(* and any number of verification attempts, current or stale, call the     *)
(* transactions of v3TransferDatabaseWorker.ts in any order.  The worker   *)
(* thread runs one transaction at a time, so each is one action; a         *)
(* transaction that throws rolls back and is a stuttering step.            *)
(*                                                                         *)
(* This module is what the receive path promises about its durable state.  *)
(* V3TransferWriter and V3TransferService drive the same row through the   *)
(* queue and the verification tasks and are checked to implement it.       *)
(***************************************************************************)
EXTENDS V3TransferRow

CONSTANT MaxRevision   \* bound: no transaction takes the revision past it

ASSUME StoreAssumption == MaxRevision \in Nat

VARIABLE row

-----------------------------------------------------------------------------
Create(dev, manifest) == row' = CreateOrGet(row, dev, manifest).row

Commit(dev, new) == row' = CommitChunkBatch(row, dev, new, DOMAIN new).row

Complete(dev, root) == row' = BeginCompletion(row, dev, root).row

Pause(dev)  == row' = PauseTransfer(row, dev).row
Resume(dev) == row' = ResumeTransfer(row, dev).row
Cancel(dev) == row' = CancelTransfer(row, dev).row

\* What a verification task reports is about the attempt it was started for.
Progress(attempt, bytes, phase) ==
  row' = SetVerificationProgress(row, attempt, bytes, phase)
Verified(attempt, actual) ==
  row' = MarkTransferCompleted(row, attempt, actual)
Unverified(attempt, code, bytes) ==
  row' = MarkTransferFailed(row, attempt, code, bytes)

Batches == UNION {[S -> Digests] : S \in SUBSET Chunks}

Requests(dev) ==
  \/ \E m \in Manifests : Create(dev, m)
  \/ \E new \in Batches : Commit(dev, new)
  \/ \E root \in Roots : Complete(dev, root)
  \/ Pause(dev)
  \/ Resume(dev)
  \/ Cancel(dev)

VerificationReports(attempt) ==
  \/ \E bytes \in 0..TotalBytes, phase \in Phases : Progress(attempt, bytes, phase)
  \/ \E actual \in Roots : Verified(attempt, actual)
  \/ \E code \in {"PART_CONTENT_ROOT_MISMATCH", "PART_READ_ERROR"},
        bytes \in 0..TotalBytes : Unverified(attempt, code, bytes)

Init == row = AbsentRow

Transactions ==
  \/ \E dev \in Devices : Requests(dev)
  \/ \E attempt \in 0..row.attempt : VerificationReports(attempt)

Next == Transactions /\ row'.revision <= MaxRevision

Spec == Init /\ [][Next]_row

-----------------------------------------------------------------------------
(* The row has its type. *)
TypeOK == row \in Rows

(* The byte counter every ACK, SSE event and status poll reports is exactly  *)
(* what is durable, however batches were cut, retried or partly duplicated   *)
(* (commitChunkBatch adds the delta of the chunks it inserts).               *)
ReceivedIsStored == row.received = Cardinality(Stored(row))

(* A transfer past its seal has every chunk, and the root it was sealed with  *)
(* is the root of those chunks: beginCompletion derives it in the same        *)
(* transaction, and nothing commits a chunk afterwards.                       *)
SealedIsComplete ==
  row.status \in {"completing", "completed", "failed"} =>
    Stored(row) = Chunks /\ row.durable = row.chunk

(* "completed" is only ever said of content that is all there, that the sender *)
(* asked for, that the chunk rows describe and that the verifier read back     *)
(* from disk.                                                                  *)
CompletedIsVerified ==
  row.status = "completed" =>
    Stored(row) = Chunks /\ row.requested = row.chunk /\ row.durable = row.chunk /\ row.actual = row.chunk

(* The revision names the durable state: a transaction that changes anything  *)
(* a peer can see takes exactly the next revision, so a peer that drops       *)
(* events below its own revision never drops a newer state.  Only the insert  *)
(* itself starts at revision 0.                                               *)
RevisionNamesState ==
  [][row.status # "absent" => row'.revision = row.revision + 1]_row

(* completed and cancelled are final, and a failed transfer is only reopened  *)
(* by the retry of a failed read, with the root it was first sealed with.     *)
TerminalIsFinal ==
  [][/\ row.status \notin {"completed", "cancelled"}
     /\ row.status = "failed" =>
          /\ row.failure = "PART_READ_ERROR"
          /\ row'.status = "completing"
          /\ row'.requested = row.requested]_row

(* A chunk once durable is never replaced or lost, and no chunk becomes       *)
(* durable in a transfer that is paused, sealed or terminal.                  *)
DurableChunksAreFinal ==
  [][/\ \A c \in Stored(row) : row'.chunk[c] = row.chunk[c]
     /\ row'.chunk # row.chunk => Writable(row) /\ row'.status = "transferring"]_row

(* The verified byte count a peer sees never goes back, across progress       *)
(* reports of a stale or a retried attempt (the high-water mark that          *)
(* setVerificationProgress and transitionToCompleting keep).                  *)
VerifiedBytesMonotone == [][row'.vbytes >= row.vbytes]_row
=============================================================================

---------------------------- MODULE V3TransferRow ----------------------------
(***************************************************************************)
(* The durable state of one incoming V3 transfer and the SQL transactions  *)
(* of the Agent's database worker (v3TransferDatabaseWorker.ts), each as a *)
(* function from the stored row to the row it leaves and the error it      *)
(* throws.  A transaction that throws is rolled back: its row is the row   *)
(* it found.                                                               *)
(*                                                                         *)
(* Data abstraction.  A chunk is named by its (itemId, chunkIndex) key and *)
(* counts as one unit of bytes; a digest stands for a chunk's SHA-256 and  *)
(* so for its content.  A content root is the function from the chunks of  *)
(* the transfer to their digests (the root is a hash of exactly that), so  *)
(* equal roots mean equal content.                                         *)
(*                                                                         *)
(* A definition marked "mutant" is no part of the model: it is a plausible *)
(* bug in the definition after it, which the checks of the project must    *)
(* reject.                                                                 *)
(***************************************************************************)
EXTENDS Integers, FiniteSets

CONSTANTS
  Chunks,     \* keys of all the chunks of the transfer's items
  Digests,    \* what a chunk can contain
  NoDigest,   \* no v3_transfer_chunks row for the key
  NoRoot,     \* a root column that is NULL, or a completion row not inserted
  Devices,    \* paired phones
  Manifests,  \* what createOrGet compares beside the owner: names, types, sizes
  None        \* owner and manifest of a transfer that does not exist

ASSUME RowAssumption ==
  /\ IsFiniteSet(Chunks)
  /\ NoDigest \notin Digests
  /\ NoRoot \notin [Chunks -> Digests \cup {NoDigest}]

-----------------------------------------------------------------------------
Contents == [Chunks -> Digests \cup {NoDigest}]
Roots    == [Chunks -> Digests]

Statuses == {"absent", "negotiating", "transferring", "paused", "completing",
             "completed", "failed", "cancelled"}

FailureCodes == {"none", "CONTENT_ROOT_MISMATCH", "PART_CONTENT_ROOT_MISMATCH",
                 "PART_READ_ERROR"}

Phases == {"idle", "reading", "hashing", "done"}

PhaseRank(p) == CASE p = "idle"    -> 0
                  [] p = "reading" -> 1
                  [] p = "hashing" -> 2
                  [] p = "done"    -> 3

TotalBytes == Cardinality(Chunks)

Rows == [status    : Statuses,
         owner     : Devices \cup {None},
         manifest  : Manifests \cup {None},
         revision  : Nat,
         chunk     : Contents,
         received  : Nat,
         failure   : FailureCodes,
         attempt   : Nat,
         requested : Contents \cup {NoRoot},
         durable   : Contents \cup {NoRoot},
         actual    : Contents \cup {NoRoot},
         vbytes    : Nat,
         vphase    : Phases]

\* No row with this transfer id has been inserted.
AbsentRow ==
  [status |-> "absent", owner |-> None, manifest |-> None, revision |-> 0,
   chunk |-> [c \in Chunks |-> NoDigest], received |-> 0, failure |-> "none",
   attempt |-> 0, requested |-> NoRoot, durable |-> NoRoot, actual |-> NoRoot,
   vbytes |-> 0, vphase |-> "idle"]

Stored(r) == {c \in Chunks : r.chunk[c] # NoDigest}

\* A transaction leaves the next row, or throws and leaves the row it found.
Tx(r, error, next) == [row |-> IF error = "none" THEN next ELSE r, error |-> error]

\* A check that throws code, and checks made one after the other.
Check(holds, code)   == IF holds THEN "none" ELSE code
Then(first, second)  == IF first # "none" THEN first ELSE second

\* Every UPDATE of v3_transfers bumps the revision in the same statement.
Bump(r) == [r EXCEPT !.revision = @ + 1]

-----------------------------------------------------------------------------
\* createOrGet: insert the transfer, or return the one stored.
CreateOrGet(r, dev, manifest) ==
  Tx(r,
     Check(r.status = "absent" \/ (r.owner = dev /\ r.manifest = manifest),
           "TRANSFER_ID_CONFLICT"),
     IF r.status # "absent" THEN r
     ELSE [r EXCEPT !.status = "negotiating", !.owner = dev, !.manifest = manifest])

\* assertTransferOwner
OwnerError(r, dev) ==
  Then(Check(r.status # "absent", "TRANSFER_NOT_FOUND"),
       Check(r.owner = dev, "TRANSFER_FORBIDDEN"))

\* assertTransferOwnerAndWritable
Writable(r) == r.status \in {"negotiating", "transferring"}
WriteError(r, dev) ==
  Then(OwnerError(r, dev),
  Then(Check(r.status # "paused", "TRANSFER_PAUSED"),
       Check(Writable(r), "TRANSFER_CLOSING")))

\* mutant: other content for a durable chunk is written over it
VerdictOverwriting(r, c, d) == IF r.chunk[c] = d THEN "duplicate" ELSE "new"

\* preflightChunkBatch, for one chunk of a batch that passed WriteError.
Verdict(r, c, d) ==
  IF r.chunk[c] = NoDigest THEN "new"
  ELSE IF r.chunk[c] = d THEN "duplicate" ELSE "CHUNK_CONFLICT"

\* mutant: the byte counter adds duplicates
CommitCountingDuplicates(r, dev, new, acks) ==
  LET filled == [c \in Chunks |-> IF c \in DOMAIN new /\ r.chunk[c] = NoDigest
                                  THEN new[c] ELSE r.chunk[c]]
  IN Tx(r, Then(WriteError(r, dev), Check(\A c \in DOMAIN new : filled[c] = new[c], "CHUNK_CONFLICT")),
        Bump([r EXCEPT !.status = "transferring", !.chunk = filled,
                       !.received = @ + Cardinality(DOMAIN new)]))

\* mutant: INSERT OR REPLACE
CommitReplacing(r, dev, new, acks) ==
  LET filled == [c \in Chunks |-> IF c \in DOMAIN new THEN new[c] ELSE r.chunk[c]]
  IN Tx(r, WriteError(r, dev),
        Bump([r EXCEPT !.status = "transferring", !.chunk = filled,
                       !.received = Cardinality({c \in Chunks : filled[c] # NoDigest})]))

\* commitChunkBatch: new maps chunk keys to digests, acks is the set of keys to
\* acknowledge.  One conflicting chunk rolls the whole batch back.
CommitChunkBatch(r, dev, new, acks) ==
  LET inserted == {c \in DOMAIN new : r.chunk[c] = NoDigest}
      filled   == [c \in Chunks |-> IF c \in inserted THEN new[c] ELSE r.chunk[c]]
  IN Tx(r,
        Then(WriteError(r, dev),
        Then(Check(\A c \in DOMAIN new : filled[c] = new[c], "CHUNK_CONFLICT"),
             Check(\A c \in acks : filled[c] # NoDigest, "TRANSFER_CHUNK_NOT_FOUND"))),
        IF inserted = {} THEN r
        ELSE Bump([r EXCEPT !.status = "transferring", !.chunk = filled,
                            !.received = @ + Cardinality(inserted)]))

-----------------------------------------------------------------------------
\* isPausableTransferStatus and isCancellableTransferStatus, over the statuses
\* the worker stores.
Pausable(status)    == status \in {"negotiating", "transferring"}
Cancellable(status) == status \in {"paused", "completing"} \/ Pausable(status)

\* mutant: the status changes under the old revision
PauseWithoutRevision(r, dev) ==
  Tx(r, Then(OwnerError(r, dev), Check(Pausable(r.status), "TRANSFER_STATE_INVALID")),
     [r EXCEPT !.status = "paused"])

PauseTransfer(r, dev) ==
  Tx(r,
     Then(OwnerError(r, dev),
          Check(r.status = "paused" \/ Pausable(r.status), "TRANSFER_STATE_INVALID")),
     IF r.status = "paused" THEN r ELSE Bump([r EXCEPT !.status = "paused"]))

\* mutant: resume writes a status nothing else knows
ResumeToActive(r, dev) ==
  Tx(r, Then(OwnerError(r, dev), Check(r.status = "paused", "TRANSFER_STATE_INVALID")),
     Bump([r EXCEPT !.status = "active"]))

ResumeTransfer(r, dev) ==
  Tx(r,
     Then(OwnerError(r, dev),
          Check(r.status \in {"transferring", "paused"}, "TRANSFER_STATE_INVALID")),
     IF r.status = "transferring" THEN r ELSE Bump([r EXCEPT !.status = "transferring"]))

CancelTransfer(r, dev) ==
  Tx(r,
     Then(OwnerError(r, dev),
          Check(r.status = "cancelled" \/ Cancellable(r.status), "TRANSFER_STATE_INVALID")),
     IF r.status = "cancelled" THEN r
     ELSE Bump([r EXCEPT !.status = "cancelled", !.failure = "none",
                         !.vphase = IF r.status = "completing" THEN "done" ELSE @]))

-----------------------------------------------------------------------------
\* markContentRootMismatch, with the completion rows of the request.
ContentRootMismatch(r, root) ==
  Bump([r EXCEPT !.status = "failed", !.failure = "CONTENT_ROOT_MISMATCH",
                 !.requested = root, !.durable = r.chunk, !.actual = NoRoot,
                 !.vbytes = 0, !.vphase = "done"])

\* transitionToCompleting, with the completion rows of the request.  Only the
\* retry of a failed read keeps the verified byte count.
Completing(r, root) ==
  Bump([r EXCEPT !.status = "completing", !.failure = "none",
                 !.requested = root, !.durable = r.chunk, !.actual = NoRoot,
                 !.vbytes = IF r.status = "failed" THEN @ ELSE 0, !.vphase = "idle",
                 !.attempt = @ + 1])

\* A completion request that the worker answers from the row alone.
Settled(r) == \/ r.status \in {"completing", "completed"}
              \/ r.status = "failed" /\ r.failure # "PART_READ_ERROR"

\* beginCompletion
BeginCompletion(r, dev, root) ==
  Tx(r,
     Then(OwnerError(r, dev),
     Then(Check(r.status \notin {"paused", "cancelled"}, "TRANSFER_STATE_INVALID"),
     Then(Check(r.status \in {"completing", "completed", "failed"} => r.requested = root,
                "TRANSFER_COMPLETION_CONFLICT"),
          Check(Settled(r) \/ Stored(r) = Chunks, "TRANSFER_INCOMPLETE")))),
     IF Settled(r) THEN r
     ELSE IF root = r.chunk THEN Completing(r, root) ELSE ContentRootMismatch(r, root))

-----------------------------------------------------------------------------
\* mutant: the attempt number alone, whatever the transfer has become
IsNumberedAttempt(r, attempt) == r.attempt = attempt

\* isCurrentCompletionAttempt: results of any other attempt are dropped.
IsCurrentAttempt(r, attempt) == r.status = "completing" /\ r.attempt = attempt

Larger(a, b) == IF a < b THEN b ELSE a

\* mutant: the last report wins over the largest
ProgressWithoutHighWater(r, attempt, bytes, phase) ==
  IF ~IsCurrentAttempt(r, attempt) THEN r
  ELSE Bump([r EXCEPT !.vbytes = bytes, !.vphase = phase])

\* setVerificationProgress
SetVerificationProgress(r, attempt, bytes, phase) ==
  LET next    == [r EXCEPT !.vbytes = Larger(@, bytes), !.vphase = phase]
      applies == /\ IsCurrentAttempt(r, attempt)
                 /\ PhaseRank(phase) >= PhaseRank(r.vphase)
                 /\ next # r
  IN IF applies THEN Bump(next) ELSE r

\* mutant: what was read back is recorded, not compared
CompletedUnread(r, attempt, actual) ==
  IF ~IsCurrentAttempt(r, attempt) THEN r
  ELSE Bump([r EXCEPT !.status = "completed", !.failure = "none", !.actual = actual,
                      !.vbytes = TotalBytes, !.vphase = "done"])

\* markTransferCompleted: actual is what the verifier read back from the .part files.
MarkTransferCompleted(r, attempt, actual) ==
  LET match == actual = r.requested /\ actual = r.durable
  IN IF ~IsCurrentAttempt(r, attempt) THEN r
     ELSE Bump([r EXCEPT !.status  = IF match THEN "completed" ELSE "failed",
                         !.failure = IF match THEN "none" ELSE "PART_CONTENT_ROOT_MISMATCH",
                         !.actual = actual, !.vbytes = TotalBytes, !.vphase = "done"])

\* markTransferFailed
MarkTransferFailed(r, attempt, code, bytes) ==
  IF ~IsCurrentAttempt(r, attempt) THEN r
  ELSE Bump([r EXCEPT !.status = "failed", !.failure = code,
                      !.vbytes = Larger(@, bytes), !.vphase = "done"])
=============================================================================

------------------------ MODULE V3TransferWriterProofs ------------------------
(***************************************************************************)
(* Proofs about V3TransferWriter, for every set of chunks and contents,    *)
(* every size of batches and queues, and any number of faults and crashes. *)
(*                                                                         *)
(* What the store says of its row is taken from V3TransferStoreProofs: a   *)
(* step of the writer is a transaction of the store or leaves the row.     *)
(***************************************************************************)
EXTENDS V3TransferWriter, FiniteSetTheorems, SequenceTheorems, TLAPS

Row == INSTANCE V3TransferStoreProofs WITH MaxRevision <- MaxControls + TotalBytes

-----------------------------------------------------------------------------
(* Types.  The counts of waiting requests are left untyped: nothing here    *)
(* depends on them.                                                         *)

Errors == {"none", "STORAGE_ERROR", "TRANSFER_NOT_FOUND", "TRANSFER_FORBIDDEN",
           "TRANSFER_PAUSED", "TRANSFER_CLOSING", "INVALID_CHUNK", "CHUNK_CONFLICT",
           "TRANSFER_CHUNK_NOT_FOUND"}

Outcomes == Errors \cup {"queued", "acked", "TRANSFER_STORAGE_CLOSED"}

Jobs == [chunk : Chunks, digest : Digests, state : Outcomes, waiters : Nat]

IsQueue(q) ==
  /\ DOMAIN q = {"live", "barrier", "cancelled", "paused", "stopping", "draining",
                 "timer", "flushRequested", "requestCount"}
  /\ q.barrier \in BOOLEAN /\ q.cancelled \in BOOLEAN /\ q.stopping \in BOOLEAN

Waits(s, j) == \E i \in 1..Len(s) : s[i] = j

QueueTyped ==
  /\ job \in Seq(Jobs) /\ IsQueue(queue)
  /\ byKey \in [Chunks -> Nat \cup {NoJob}]
  /\ pending \in Seq(Nat)
  /\ \A j : Waits(pending, j) => j \in 1..Len(job)

\* A registered job is one of its chunk.
KeysKnown ==
  \A c \in Chunks : byKey[c] # NoJob => byKey[c] \in 1..Len(job) /\ job[byKey[c]].chunk = c

Flushes == [phase : {"idle", "preflight", "preflighted", "writing", "commit", "committed"},
            batch : SUBSET Nat, accepted : SUBSET Nat, new : SUBSET Nat, error : Errors]

FlushTyped ==
  /\ flush \in Flushes
  /\ flush.batch \subseteq 1..Len(job)
  /\ flush.accepted \subseteq flush.batch /\ flush.new \subseteq flush.accepted
  /\ flush.phase = "idle" => flush.batch = {}
  /\ flush.phase = "preflight" => flush.accepted = {}

\* Operations that wait for their turn, and the one that has it.
Waiting == {o \in [kind : Kinds, step : {"none"}, sealed : {FALSE}, root : Roots \cup {NoRoot},
                   error : {"none"}] : o.kind = "complete" => o.root \in Roots}

OpTyped ==
  /\ DOMAIN op = {"kind", "step", "sealed", "root", "error"}
  /\ op.kind \in Kinds \cup {"none"} /\ (op.kind = "complete" => op.root \in Roots)
  /\ op.step = "persist" => op.kind \in Kinds
  /\ tail \in Seq(Waiting) /\ direct \in Roots \cup {NoRoot}
  /\ acked \subseteq Chunks \X Digests
  /\ used \in [controls : Nat, faults : Nat, stops : Nat] /\ used.controls <= MaxControls

-----------------------------------------------------------------------------
(* The inductive invariant. *)

\* What the preflight found is true until the commit, which alone adds chunks;
\* after the write the files hold it, and after the commit the row says so.
FlushKnows ==
  /\ flush.phase \in {"preflighted", "writing", "commit"} =>
       \A j \in flush.accepted :
         row.chunk[job[j].chunk] = IF j \in flush.new THEN NoDigest ELSE job[j].digest
  /\ flush.phase = "writing" => flush.new # {}
  /\ flush.phase = "commit" /\ UniqueKeys(flush.new) =>
       \A j \in flush.new : part[job[j].chunk] = job[j].digest
  /\ flush.phase = "committed" /\ flush.error = "none" =>
       \A j \in flush.accepted : row.chunk[job[j].chunk] = job[j].digest

\* A flush that goes on after the row was cancelled is one that the cancel
\* which did it still waits for.
CancelWaits ==
  /\ row.status = "cancelled"
  /\ flush.phase = "writing" \/ (flush.phase = "preflighted" /\ flush.error = "none")
  => op.kind = "cancel" /\ op.step \in {"reply", "flush"} /\ op.error = "none"

\* The jobs that the flush will settle.
Held == IF flush.phase \in {"preflight", "preflighted"} THEN flush.batch ELSE flush.accepted

JobsHeld ==
  \A j \in 1..Len(job) : Queued(j) =>
    Orphaned(j) \/ j \in Held \/ Waits(pending, j)

ClosedIsEmpty == queue.cancelled \/ queue.stopping => \A c \in Chunks : byKey[c] = NoJob

\* A completion holds the seal, and after its drain nothing waits or runs.
SealHolds ==
  op.kind = "complete" => /\ queue.barrier
                          /\ op.step # "drain" => pending = <<>> /\ flush.phase = "idle"

\* Every control operation that was asked for has one revision left to take, until
\* its transaction has run.
Running == IF op.step \in {"persist", "drain"} \/ (op.kind = "pause" /\ op.step = "flush")
           THEN 1 ELSE 0
Asked   == IF direct # NoRoot THEN 1 ELSE 0
Owed    == Len(tail) + Running + Asked

Counted == row.revision + Owed <= used.controls + row.received

RowInv == Row!IInv /\ OpTyped /\ Counted /\ DurableIsOnDisk /\ AckedIsDurable

QueueInv == /\ QueueTyped /\ KeysKnown /\ FlushTyped /\ FlushKnows
            /\ CancelWaits /\ JobsHeld /\ ClosedIsEmpty /\ SealHolds

IInv == RowInv /\ QueueInv

-----------------------------------------------------------------------------
(* The row. *)

LEMMA Counting == /\ Row!IsFiniteSet(Chunks) /\ Row!TotalBytes = TotalBytes
                  /\ \A S : Row!Cardinality(S) = Cardinality(S)
<1>1. Row!IsFiniteSet(Chunks)
  BY RowAssumption DEF IsFiniteSet, Row!IsFiniteSet
<1>2. \A S : Row!Cardinality(S) = Cardinality(S)
  BY DEF Cardinality, Row!Cardinality
<1>. QED BY <1>1, <1>2 DEF TotalBytes, Row!TotalBytes

LEMMA Bound == TotalBytes \in Nat /\ MaxControls + TotalBytes \in Nat
BY RowAssumption, WriterAssumption, FS_CardinalityType DEF TotalBytes

\* The definitions of the two copies of the row are the same.
LEMMA SameRows == /\ Row!Rows = Rows /\ Row!Roots = Roots /\ Row!Contents = Contents
                  /\ Row!AbsentRow = AbsentRow /\ Row!Stored(row) = Stored(row)
<1>1. Row!Contents = Contents /\ Row!Roots = Roots
  BY DEF Row!Contents, Contents, Row!Roots, Roots
<1>2. Row!Statuses = Statuses /\ Row!FailureCodes = FailureCodes /\ Row!Phases = Phases
  BY DEF Row!Statuses, Statuses, Row!FailureCodes, FailureCodes, Row!Phases, Phases
<1>3. Row!Rows = Rows
  BY <1>1, <1>2 DEF Row!Rows, Rows
<1>4. Row!AbsentRow = AbsentRow /\ Row!Stored(row) = Stored(row)
  BY DEF Row!AbsentRow, AbsentRow, Row!Stored, Stored
<1>. QED BY <1>1, <1>3, <1>4

\* What the invariant of the store says of the row.
LEMMA RowKnows ==
  ASSUME Row!IInv
  PROVE  /\ row \in Rows /\ row.revision \in Nat /\ row.received \in Nat /\ row.chunk \in Contents
         /\ row.received = Cardinality(Stored(row))
         /\ row.status \in {"completing", "completed", "failed"} => Stored(row) = Chunks
<1>1. row \in Rows /\ row.received = Cardinality(Stored(row))
  BY SameRows, Counting DEF Row!IInv, Row!TypeOK, Row!ReceivedIsStored
<1>2. row.status \in {"completing", "completed", "failed"} => Stored(row) = Chunks
  BY SameRows DEF Row!IInv, Row!SealedIsComplete
<1>. QED BY <1>1, <1>2 DEF Rows

\* No more is received than there is.
LEMMA Received == ASSUME Row!IInv PROVE row.received <= TotalBytes
<1>1. Stored(row) \subseteq Chunks
  BY DEF Stored
<1>2. Cardinality(Stored(row)) <= Cardinality(Chunks)
  BY <1>1, RowAssumption, FS_Subset
<1>. QED BY <1>2, RowKnows DEF TotalBytes

LEMMA RowInitially == Row!Init => Row!IInv
BY Row!InitInv, Counting, Bound, RowAssumption

LEMMA RowStep == ASSUME Row!IInv, Row!Transactions \/ row' = row PROVE Row!IInv'
<1>1. Row!StepKinds
  <2>1. CASE Row!Transactions
    BY <2>1, Row!NextKinds, Counting, Bound, RowAssumption DEF Row!IInv
  <2>. QED BY <2>1 DEF Row!StepKinds
<1>. QED BY <1>1, Row!KindsPreserve, Counting, Bound, RowAssumption

(* A transaction is the same whoever calls it: the writer, the store that it  *)
(* implements, or the proofs about the store.                                 *)

LEMMA SameHelpers ==
  /\ \A S : Store!Cardinality(S) = Cardinality(S)
  /\ Store!TotalBytes = TotalBytes
  /\ \A r, dev : /\ WriteError(r, dev) = Row!WriteError(r, dev)
                 /\ WriteError(r, dev) = Store!WriteError(r, dev)
<1>1. \A S : Store!Cardinality(S) = Cardinality(S)
  BY DEF Cardinality, Store!Cardinality
<1>2. Store!TotalBytes = TotalBytes
  BY <1>1 DEF TotalBytes, Store!TotalBytes
<1>3. \A r, dev : /\ WriteError(r, dev) = Row!WriteError(r, dev)
                  /\ WriteError(r, dev) = Store!WriteError(r, dev)
  BY DEF WriteError, Row!WriteError, Store!WriteError, OwnerError, Row!OwnerError,
         Store!OwnerError, Writable, Row!Writable, Store!Writable,
         Then, Row!Then, Store!Then, Check, Row!Check, Store!Check
<1>. QED BY <1>1, <1>2, <1>3

LEMMA SamePause ==
  \A r, dev : /\ PauseTransfer(r, dev) = Row!PauseTransfer(r, dev)
              /\ PauseTransfer(r, dev) = Store!PauseTransfer(r, dev)
BY DEF PauseTransfer, Row!PauseTransfer, Store!PauseTransfer, OwnerError, Row!OwnerError,
       Store!OwnerError, Pausable, Row!Pausable, Store!Pausable, Tx, Row!Tx, Store!Tx,
       Then, Row!Then, Store!Then, Check, Row!Check, Store!Check, Bump, Row!Bump, Store!Bump

LEMMA SameResume ==
  \A r, dev : /\ ResumeTransfer(r, dev) = Row!ResumeTransfer(r, dev)
              /\ ResumeTransfer(r, dev) = Store!ResumeTransfer(r, dev)
BY DEF ResumeTransfer, Row!ResumeTransfer, Store!ResumeTransfer, OwnerError, Row!OwnerError,
       Store!OwnerError, Tx, Row!Tx, Store!Tx,
       Then, Row!Then, Store!Then, Check, Row!Check, Store!Check, Bump, Row!Bump, Store!Bump

LEMMA SameCancel ==
  \A r, dev : /\ CancelTransfer(r, dev) = Row!CancelTransfer(r, dev)
              /\ CancelTransfer(r, dev) = Store!CancelTransfer(r, dev)
BY DEF CancelTransfer, Row!CancelTransfer, Store!CancelTransfer, OwnerError, Row!OwnerError,
       Store!OwnerError, Cancellable, Row!Cancellable, Store!Cancellable,
       Pausable, Row!Pausable, Store!Pausable, Tx, Row!Tx, Store!Tx,
       Then, Row!Then, Store!Then, Check, Row!Check, Store!Check, Bump, Row!Bump, Store!Bump

LEMMA SameCreate ==
  \A r, dev, m : /\ CreateOrGet(r, dev, m) = Row!CreateOrGet(r, dev, m)
                 /\ CreateOrGet(r, dev, m) = Store!CreateOrGet(r, dev, m)
BY DEF CreateOrGet, Row!CreateOrGet, Store!CreateOrGet, Tx, Row!Tx, Store!Tx,
       Then, Row!Then, Store!Then, Check, Row!Check, Store!Check

LEMMA SameCompletion ==
  \A r, dev, root : /\ BeginCompletion(r, dev, root) = Row!BeginCompletion(r, dev, root)
                    /\ BeginCompletion(r, dev, root) = Store!BeginCompletion(r, dev, root)
BY DEF BeginCompletion, Row!BeginCompletion, Store!BeginCompletion, OwnerError, Row!OwnerError,
       Store!OwnerError, Settled, Row!Settled, Store!Settled, Stored, Row!Stored, Store!Stored,
       Completing, Row!Completing, Store!Completing, ContentRootMismatch,
       Row!ContentRootMismatch, Store!ContentRootMismatch, Tx, Row!Tx, Store!Tx,
       Then, Row!Then, Store!Then, Check, Row!Check, Store!Check, Bump, Row!Bump, Store!Bump

LEMMA SameCommit ==
  \A r, dev, new, acks :
    /\ CommitChunkBatch(r, dev, new, acks) = Row!CommitChunkBatch(r, dev, new, acks)
    /\ CommitChunkBatch(r, dev, new, acks) = Store!CommitChunkBatch(r, dev, new, acks)
<1>. TAKE r, dev, new, acks
<1>. DEFINE inserted == {c \in DOMAIN new : r.chunk[c] = NoDigest}
<1>1. /\ Row!Cardinality(inserted) = Cardinality(inserted)
      /\ Store!Cardinality(inserted) = Cardinality(inserted)
  BY Counting, SameHelpers
<1>2. /\ Row!Cardinality({c \in DOMAIN new : r.chunk[c] = NoDigest})
           = Cardinality({c \in DOMAIN new : r.chunk[c] = NoDigest})
      /\ Store!Cardinality({c \in DOMAIN new : r.chunk[c] = NoDigest})
           = Cardinality({c \in DOMAIN new : r.chunk[c] = NoDigest})
  BY <1>1
<1>3. CommitChunkBatch(r, dev, new, acks) = Row!CommitChunkBatch(r, dev, new, acks)
  BY <1>2, SameHelpers DEF CommitChunkBatch, Row!CommitChunkBatch, Tx, Row!Tx, Bump, Row!Bump,
     Then, Row!Then, Check, Row!Check
<1>4. CommitChunkBatch(r, dev, new, acks) = Store!CommitChunkBatch(r, dev, new, acks)
  BY <1>2, SameHelpers DEF CommitChunkBatch, Store!CommitChunkBatch, Tx, Store!Tx, Bump, Store!Bump,
     Then, Store!Then, Check, Store!Check
<1>. QED BY <1>3, <1>4

\* The writer's row is the row of the store.
LEMMA StoreIsRow == (Store!Init <=> Row!Init) /\ (Store!Transactions <=> Row!Transactions)
<1>1. Store!Init <=> Row!Init
  BY DEF Store!Init, Row!Init, Store!AbsentRow, Row!AbsentRow
<1>2. /\ Store!Batches = Row!Batches /\ Store!Roots = Row!Roots /\ Store!Phases = Row!Phases
      /\ Store!TotalBytes = Row!TotalBytes
  BY SameHelpers, Counting DEF Store!Batches, Row!Batches, Store!Roots, Row!Roots,
     Store!Contents, Row!Contents, Store!Phases, Row!Phases
<1>3. \A dev : Store!Requests(dev) <=> Row!Requests(dev)
  BY <1>2, SameCreate, SameCommit, SameCompletion, SamePause, SameResume, SameCancel
     DEF Store!Requests, Row!Requests, Store!Create, Row!Create, Store!Commit, Row!Commit,
         Store!Complete, Row!Complete, Store!Pause, Row!Pause, Store!Resume, Row!Resume,
         Store!Cancel, Row!Cancel
<1>4. \A attempt : Store!VerificationReports(attempt) <=> Row!VerificationReports(attempt)
  <2>1. \A r, attempt, bytes, phase : Store!SetVerificationProgress(r, attempt, bytes, phase)
                                      = Row!SetVerificationProgress(r, attempt, bytes, phase)
    BY DEF Store!SetVerificationProgress, Row!SetVerificationProgress, Store!IsCurrentAttempt,
       Row!IsCurrentAttempt, Store!PhaseRank, Row!PhaseRank, Store!Larger, Row!Larger,
       Store!Bump, Row!Bump
  <2>2. \A r, attempt, actual : Store!MarkTransferCompleted(r, attempt, actual)
                                = Row!MarkTransferCompleted(r, attempt, actual)
    BY <1>2 DEF Store!MarkTransferCompleted, Row!MarkTransferCompleted,
       Store!IsCurrentAttempt, Row!IsCurrentAttempt, Store!Bump, Row!Bump
  <2>3. \A r, attempt, code, bytes : Store!MarkTransferFailed(r, attempt, code, bytes)
                                     = Row!MarkTransferFailed(r, attempt, code, bytes)
    BY DEF Store!MarkTransferFailed, Row!MarkTransferFailed, Store!IsCurrentAttempt,
       Row!IsCurrentAttempt, Store!Larger, Row!Larger, Store!Bump, Row!Bump
  <2>. QED BY <1>2, <2>1, <2>2, <2>3 DEF Store!VerificationReports, Row!VerificationReports,
           Store!Progress, Row!Progress, Store!Verified, Row!Verified,
           Store!Unverified, Row!Unverified
<1>. QED BY <1>1, <1>3, <1>4 DEF Store!Transactions, Row!Transactions

-----------------------------------------------------------------------------
(* The steps of the writer that touch the row. *)

\* What every step but the commit does to the row: at most one revision, no chunk.
RowTouched == /\ row'.chunk = row.chunk /\ row'.received = row.received
              /\ row'.revision \in {row.revision, row.revision + 1}

LEMMA CreateTouches ==
  ASSUME Row!IInv, NEW m \in Manifests, CreateTransfer(m)
  PROVE  /\ Row!Transactions /\ RowTouched /\ row'.revision = row.revision
         /\ row'.status = "cancelled" => row.status = "cancelled"
<1>1. Row!Transactions
  BY SameCreate, WriterAssumption
     DEF CreateTransfer, Row!Transactions, Row!Requests, Row!Create
<1>2. /\ RowTouched /\ row'.revision = row.revision
      /\ row'.status = "cancelled" => row.status = "cancelled"
  BY RowKnows DEF CreateTransfer, CreateOrGet, Tx, Rows, RowTouched
<1>. QED BY <1>1, <1>2

LEMMA CompletionTouches ==
  ASSUME Row!IInv, NEW root \in Roots, row' = BeginCompletion(row, Sender, root).row
  PROVE  /\ Row!Transactions /\ RowTouched
         /\ row'.status = "cancelled" => row.status = "cancelled"
<1>1. Row!Transactions
  BY SameCompletion, SameRows, WriterAssumption DEF Row!Transactions, Row!Requests, Row!Complete
<1>2. row' \in {row, Completing(row, root), ContentRootMismatch(row, root)}
  BY DEF BeginCompletion, Tx
<1>3. RowTouched /\ (row'.status = "cancelled" => row.status = "cancelled")
  <2>1. /\ Completing(row, root).status = "completing"
        /\ Completing(row, root).chunk = row.chunk
        /\ Completing(row, root).received = row.received
        /\ Completing(row, root).revision = row.revision + 1
    BY RowKnows DEF Completing, Bump, Rows
  <2>2. /\ ContentRootMismatch(row, root).status = "failed"
        /\ ContentRootMismatch(row, root).chunk = row.chunk
        /\ ContentRootMismatch(row, root).received = row.received
        /\ ContentRootMismatch(row, root).revision = row.revision + 1
    BY RowKnows DEF ContentRootMismatch, Bump, Rows
  <2>. QED BY <1>2, <2>1, <2>2 DEF RowTouched
<1>. QED BY <1>1, <1>3

LEMMA ControlTouches ==
  ASSUME Row!IInv, OpTyped, op.kind \in Kinds, row' = Transaction(op).row
  PROVE  /\ Row!Transactions /\ RowTouched
         /\ row'.status = "cancelled" =>
              row.status = "cancelled" \/ (op.kind = "cancel" /\ Transaction(op).error = "none")
<1>1. CASE op.kind = "pause"
  <2>1. row' = PauseTransfer(row, Sender).row
    BY <1>1 DEF Transaction
  <2>2. Row!Transactions
    BY <2>1, SamePause, WriterAssumption DEF Row!Transactions, Row!Requests, Row!Pause
  <2>. QED BY <2>1, <2>2, RowKnows DEF PauseTransfer, Tx, Bump, Rows, RowTouched
<1>2. CASE op.kind = "resume"
  <2>1. row' = ResumeTransfer(row, Sender).row
    BY <1>2 DEF Transaction
  <2>2. Row!Transactions
    BY <2>1, SameResume, WriterAssumption DEF Row!Transactions, Row!Requests, Row!Resume
  <2>. QED BY <2>1, <2>2, RowKnows DEF ResumeTransfer, Tx, Bump, Rows, RowTouched
<1>3. CASE op.kind = "cancel"
  <2>1. Transaction(op) = CancelTransfer(row, Sender)
    BY <1>3 DEF Transaction
  <2>2. Row!Transactions
    BY <2>1, SameCancel, WriterAssumption DEF Row!Transactions, Row!Requests, Row!Cancel
  <2>3. RowTouched /\ (Transaction(op).error # "none" => row' = row)
    BY <2>1, RowKnows DEF CancelTransfer, Tx, Bump, Rows, RowTouched
  <2>. QED BY <1>3, <2>2, <2>3
<1>4. CASE op.kind = "complete"
  <2>1. op.root \in Roots /\ row' = BeginCompletion(row, Sender, op.root).row
    BY <1>4 DEF Transaction, OpTyped
  <2>. QED BY <2>1, CompletionTouches
<1>. QED BY <1>1, <1>2, <1>3, <1>4 DEF Kinds


\* What the commit does: it adds chunks that the files hold, for at most one
\* revision, and without an error every accepted job of the batch is stored.
CommitTouched ==
  /\ Row!Transactions \/ row' = row
  /\ \A c \in Stored(row) : row'.chunk[c] = row.chunk[c]
  /\ \A c \in Chunks : row'.chunk[c] # row.chunk[c] => part[c] = row'.chunk[c]
  /\ flush'.error = "none" => \A j \in flush.accepted : row'.chunk[job[j].chunk] = job[j].digest
  /\ row'.revision + row.received <= row.revision + row'.received
  /\ row'.status = "cancelled" => row.status = "cancelled"

LEMMA JobTyped ==
  ASSUME QueueTyped, NEW j \in 1..Len(job)
  PROVE  job[j] \in Jobs /\ job[j].chunk \in Chunks /\ job[j].digest \in Digests
<1>1. job[j] \in Jobs
  BY DEF QueueTyped
<1>. QED BY <1>1 DEF Jobs

LEMMA CommitTouches ==
  ASSUME Row!IInv, QueueTyped, FlushTyped, FlushKnows, Commit
  PROVE  CommitTouched
<1>. DEFINE keys     == {job[j].chunk : j \in flush.new}
            acks     == {job[j].chunk : j \in flush.accepted}
            new      == [c \in keys |-> job[CHOOSE j \in flush.new : job[j].chunk = c].digest]
            inserted == {c \in DOMAIN new : row.chunk[c] = NoDigest}
            filled   == [c \in Chunks |-> IF c \in inserted THEN new[c] ELSE row.chunk[c]]
            result   == CommitChunkBatch(row, Sender, new, acks)
<1>1. /\ flush.new \subseteq flush.accepted /\ flush.accepted \subseteq 1..Len(job)
      /\ \A j \in flush.accepted : job[j].chunk \in Chunks /\ job[j].digest \in Digests
  BY JobTyped DEF FlushTyped
<1>0. flush.phase = "commit"
  BY DEF Commit
<1>2. /\ keys \subseteq Chunks /\ new \in [keys -> Digests]
      /\ \A j \in flush.new : job[j].chunk \in keys
      /\ \A c \in keys : \E j \in flush.new : job[j].chunk = c
  BY <1>1
<1>3. \/ row' = row /\ flush'.error # "none"
      \/ /\ UniqueKeys(flush.new) /\ row' = result.row /\ result.error = "none"
  <2>1. DOMAIN flush = {"phase", "batch", "accepted", "new", "error"}
    BY DEF FlushTyped, Flushes
  <2>. DEFINE error == Then(WriteError(row, Sender), Check(UniqueKeys(flush.new), "INVALID_CHUNK"))
              done  == IF error # "none" THEN Tx(row, error, row) ELSE result
  <2>2. \/ row' = done.row /\ flush' = [flush EXCEPT !.phase = "committed", !.error = done.error]
        \/ row' = row /\ flush' = [flush EXCEPT !.phase = "committed", !.error = "STORAGE_ERROR"]
    BY DEF Commit
  <2>3. CASE error # "none"
    BY <2>1, <2>2, <2>3 DEF Tx
  <2>4. CASE error = "none"
    <3>1. UniqueKeys(flush.new)
      BY <2>4 DEF Then, Check
    <3>2. result.error # "none" => result.row = row
      BY DEF CommitChunkBatch, Tx
    <3>3. done = result
      BY <2>4
    <3>. HIDE DEF done, result, error
    <3>4. \/ row' = result.row /\ flush'.error = result.error
          \/ row' = row /\ flush'.error = "STORAGE_ERROR"
      BY <2>1, <2>2, <3>3
    <3>. QED BY <3>1, <3>2, <3>4
  <2>. QED BY <2>3, <2>4
<1>4. CASE row' = row /\ flush'.error # "none"
  BY <1>4, RowKnows DEF CommitTouched
<1>5. CASE UniqueKeys(flush.new) /\ row' = result.row /\ result.error = "none"
  <2>1. \A j \in flush.new : new[job[j].chunk] = job[j].digest
    BY <1>5 DEF UniqueKeys
  <2>2. /\ \A c \in keys : filled[c] = new[c]
        /\ row' = IF inserted = {} THEN row
                  ELSE Bump([row EXCEPT !.status = "transferring", !.chunk = filled,
                                        !.received = @ + Cardinality(inserted)])
    BY <1>2, <1>5 DEF CommitChunkBatch, Tx, Then, Check
  <2>. HIDE DEF keys, new
  <2>3. row'.chunk = filled /\ (row'.status = "cancelled" => row.status = "cancelled")
    BY <2>2, RowKnows DEF Bump, Rows, Contents
  <2>4. \A c \in Stored(row) : row'.chunk[c] = row.chunk[c]
    BY <2>3 DEF Stored
  <2>5. \A c \in Chunks : row'.chunk[c] # row.chunk[c] => part[c] = row'.chunk[c]
    <3>1. \A j \in flush.new : part[job[j].chunk] = job[j].digest
      BY <1>0, <1>1, <1>5 DEF FlushKnows
    <3>2. \A c \in inserted : part[c] = new[c]
      BY <1>2, <2>1, <3>1
    <3>. QED BY <2>3, <3>2
  <2>6. \A j \in flush.accepted : row'.chunk[job[j].chunk] = job[j].digest
    <3>1. ASSUME NEW j \in flush.new PROVE row'.chunk[job[j].chunk] = job[j].digest
      BY <1>2, <2>1, <2>2, <2>3
    <3>2. ASSUME NEW j \in flush.accepted \ flush.new
          PROVE  row'.chunk[job[j].chunk] = job[j].digest
      <4>1. row.chunk[job[j].chunk] = job[j].digest
        BY <1>0, <1>1, <3>2 DEF FlushKnows
      <4>2. job[j].chunk \in Stored(row)
        BY <1>1, <4>1, RowAssumption DEF Stored
      <4>. QED BY <2>4, <4>1, <4>2
    <3>. QED BY <3>1, <3>2
  <2>7. row'.revision + row.received <= row.revision + row'.received
    <3>1. inserted \subseteq Chunks
      BY <1>2
    <3>2. inserted # {} => Cardinality(inserted) \in Nat \ {0}
      BY <3>1, RowAssumption, FS_Subset, FS_CardinalityType, FS_EmptySet
    <3>3. inserted # {} => /\ row'.revision = row.revision + 1
                           /\ row'.received = row.received + Cardinality(inserted)
      BY <2>2, RowKnows DEF Bump, Rows
    <3>4. inserted = {} => row' = row
      BY <2>2
    <3>. QED BY <3>2, <3>3, <3>4, RowKnows
  <2>8. Row!Transactions
    <3>1. CommitChunkBatch(row, Sender, new, DOMAIN new).row = result.row
      <4>1. \A c \in DOMAIN new : filled[c] # NoDigest
        BY <1>2, <2>2, RowAssumption
      <4>. QED BY <1>5, <4>1 DEF CommitChunkBatch, Tx, Then, Check
    <3>2. new \in Row!Batches
      BY <1>2 DEF Row!Batches
    <3>3. row' = Row!CommitChunkBatch(row, Sender, new, DOMAIN new).row
      BY <1>5, <3>1, SameCommit
    <3>. QED BY <3>2, <3>3, WriterAssumption DEF Row!Transactions, Row!Requests, Row!Commit
  <2>. QED BY <2>3, <2>4, <2>5, <2>6, <2>7, <2>8 DEF CommitTouched
<1>. QED BY <1>3, <1>4, <1>5

-----------------------------------------------------------------------------
(* The queue's operators. *)

\* The flags that fence the queue are those of q.
Fenced(q) == /\ IsQueue(queue')
             /\ queue'.barrier = q.barrier
             /\ queue'.cancelled = q.cancelled
             /\ queue'.stopping = q.stopping

\* A new flush takes some of the waiting jobs, the others go on waiting.
Takes(waiting) ==
  /\ pending' \in Seq(Nat)
  /\ flush' \in Flushes /\ flush'.phase = "preflight"
  /\ flush'.accepted = {} /\ flush'.new = {}
  /\ \A j : Waits(waiting, j) <=> j \in flush'.batch \/ Waits(pending', j)

LEMMA Starting ==
  ASSUME NEW q, IsQueue(q), NEW waiting \in Seq(Nat), StartFlush(q, waiting)
  PROVE  Fenced(q) /\ Takes(waiting)
<1>. DEFINE n == IF Len(waiting) < BatchSize THEN Len(waiting) ELSE BatchSize
            rest == SubSeq(waiting, n + 1, Len(waiting))
<1>1. n \in Nat /\ n <= Len(waiting)
  BY WriterAssumption
<1>2. /\ pending' = rest
      /\ queue' = [q EXCEPT !.timer = FALSE, !.flushRequested = FALSE]
      /\ flush' = [IdleFlush EXCEPT !.phase = "preflight", !.batch = {waiting[i] : i \in 1..n}]
  BY DEF StartFlush, Hold
<1>. HIDE DEF n
<1>3. /\ rest \in Seq(Nat) /\ Len(rest) = Len(waiting) - n
      /\ \A i \in 1..Len(rest) : rest[i] = waiting[n + i]
  BY <1>1
<1>. HIDE DEF rest
<1>4. Fenced(q)
  BY <1>2 DEF Fenced, IsQueue
<1>5. /\ flush' \in Flushes /\ flush'.phase = "preflight"
      /\ flush'.accepted = {} /\ flush'.new = {} /\ flush'.batch = {waiting[i] : i \in 1..n}
  <2>. DEFINE batch == {waiting[i] : i \in 1..n}
  <2>1. batch \in SUBSET Nat
    BY <1>1
  <2>2. flush' = [phase |-> "preflight", batch |-> batch, accepted |-> {},
                  new |-> {}, error |-> "none"]
    BY <1>2 DEF IdleFlush
  <2>. HIDE DEF batch
  <2>3. flush' \in Flushes
    BY <2>1, <2>2 DEF Flushes, Errors
  <2>. QED BY <2>2, <2>3 DEF batch
<1>6. ASSUME NEW j PROVE Waits(waiting, j) <=> j \in flush'.batch \/ Waits(rest, j)
  <2>1. ASSUME NEW i \in 1..Len(waiting), i \notin 1..n PROVE Waits(rest, waiting[i])
    <3>1. i - n \in 1..Len(rest) /\ n + (i - n) = i
      BY <1>1, <1>3, <2>1
    <3>. QED BY <1>3, <3>1 DEF Waits
  <2>2. ASSUME NEW i \in 1..Len(rest) PROVE Waits(waiting, rest[i])
    <3>1. n + i \in 1..Len(waiting)
      BY <1>1, <1>3
    <3>. QED BY <1>3, <3>1 DEF Waits
  <2>3. 1..n \subseteq 1..Len(waiting)
    BY <1>1
  <2>. QED BY <1>5, <2>1, <2>2, <2>3 DEF Waits
<1>. QED BY <1>2, <1>3, <1>4, <1>5, <1>6 DEF Takes

LEMMA Timing ==
  ASSUME NEW q, IsQueue(q), NEW waiting
  PROVE  /\ IsQueue(EnsureTimer(q, waiting))
         /\ EnsureTimer(q, waiting).barrier = q.barrier
         /\ EnsureTimer(q, waiting).cancelled = q.cancelled
         /\ EnsureTimer(q, waiting).stopping = q.stopping
BY DEF EnsureTimer, IsQueue

LEMMA Requesting ==
  ASSUME NEW q, IsQueue(q), NEW waiting \in Seq(Nat), RequestFlush(q, waiting)
  PROVE  /\ Fenced(q)
         /\ \/ flush.phase = "idle" /\ waiting # <<>> /\ Takes(waiting)
            \/ flush' = flush /\ pending' = waiting
<1>1. CASE CanFlush(q) /\ flush.phase = "idle" /\ waiting # <<>>
  BY <1>1, Starting DEF RequestFlush
<1>2. CASE ~(CanFlush(q) /\ flush.phase = "idle" /\ waiting # <<>>)
  BY <1>2 DEF RequestFlush, Hold, Fenced, IsQueue
<1>. QED BY <1>1, <1>2

LEMMA Ending ==
  ASSUME QueueTyped, NEW q, IsQueue(q), NEW keys, FlushEnds(q, keys)
  PROVE  /\ Fenced(q)
         /\ Takes(pending) \/ (flush' = IdleFlush /\ pending' = pending)
<1>1. CASE CanFlush(q) /\ StartFlush(q, pending)
  BY <1>1, Starting DEF QueueTyped
<1>2. CASE Hold(EnsureTimer(q, pending), pending) /\ flush' = IdleFlush
  BY <1>2, Timing DEF Hold, Fenced
<1>3. CASE Hold(DiscardIf(CanBeDiscarded(q), q, keys, pending), pending) /\ flush' = IdleFlush
  BY <1>3 DEF Hold, DiscardIf, CanBeDiscarded, Fenced, IsQueue, FreshQueue
<1>. QED BY <1>1, <1>2, <1>3 DEF FlushEnds

\* The jobs keep their chunks, and the jobs of S and their keys are settled.
SettledJobs(S) ==
  /\ job' \in Seq(Jobs) /\ Len(job') = Len(job)
  /\ \A j \in 1..Len(job) : job'[j].chunk = job[j].chunk /\ job'[j].digest = job[j].digest
  /\ byKey' \in [Chunks -> Nat \cup {NoJob}] /\ KeysKnown'
  /\ \A c \in Chunks : byKey[c] = NoJob => byKey'[c] = NoJob
  /\ \A j \in 1..Len(job) : Queued(j)' => Queued(j) /\ (j \in S \/ Orphaned(j) => Orphaned(j)')

LEMMA Settling ==
  ASSUME QueueTyped, KeysKnown, NEW S \in SUBSET (1..Len(job)), NEW outcome \in Outcomes,
         Settle(S, outcome)
  PROVE  SettledJobs(S)
<1>1. /\ job' = [j \in 1..Len(job) |->
                   IF j \in SettledBy(S) THEN [job[j] EXCEPT !.state = outcome, !.waiters = 0]
                                         ELSE job[j]]
      /\ byKey' = KeysWithout(S)
  <2>1. DOMAIN job = 1..Len(job)
    BY DEF QueueTyped
  <2>. QED BY <2>1 DEF Settle
<1>2. \A j \in 1..Len(job) : job[j] \in Jobs
  BY JobTyped
<1>3. \A j \in 1..Len(job) : job'[j] \in Jobs
  <2>1. ASSUME NEW j \in 1..Len(job)
        PROVE  job[j] \in Jobs /\ [job[j] EXCEPT !.state = outcome, !.waiters = 0] \in Jobs
    BY <1>2 DEF Jobs
  <2>. QED BY <1>1, <2>1
<1>4. Len(job) \in Nat
  BY DEF QueueTyped
<1>5. job' \in Seq(Jobs) /\ Len(job') = Len(job)
  <2>1. job' \in [1..Len(job) -> Jobs]
    BY <1>1, <1>3
  <2>. QED BY <1>4, <2>1
<1>6. \A j \in 1..Len(job) : job'[j].chunk = job[j].chunk /\ job'[j].digest = job[j].digest
  BY <1>1, <1>2 DEF Jobs
<1>7. \A j \in 1..Len(job) : Queued(j)' => Queued(j)
  BY <1>1 DEF Queued, SettledBy
<1>8. \A c \in Chunks : byKey'[c] = NoJob \/ byKey'[c] = byKey[c]
  BY <1>1 DEF KeysWithout
<1>9. byKey' \in [Chunks -> Nat \cup {NoJob}] /\ KeysKnown'
  BY <1>1, <1>5, <1>6, <1>8 DEF QueueTyped, KeysKnown, KeysWithout
<1>10. \A j \in S : byKey'[job'[j].chunk] = NoJob
  BY <1>1, <1>6, JobTyped DEF KeysWithout
<1>11. ASSUME NEW j \in 1..Len(job), Queued(j)', j \in S \/ Orphaned(j) PROVE Orphaned(j)'
  <2>1. j # NoJob
    BY <1>4, WriterAssumption
  <2>2. byKey'[job'[j].chunk] # j
    BY <1>6, <1>8, <1>10, <1>11, <2>1, JobTyped DEF Orphaned
  <2>. QED BY <1>11, <2>2 DEF Orphaned
<1>. QED BY <1>5, <1>6, <1>7, <1>8, <1>9, <1>11 DEF SettledJobs

\* Settling every registered job leaves no key registered.
LEMMA SettlingAll ==
  ASSUME QueueTyped, KeysKnown, NEW outcome, Settle(Registered, outcome)
  PROVE  Registered \in SUBSET (1..Len(job)) /\ \A c \in Chunks : byKey'[c] = NoJob
<1>1. Registered \in SUBSET (1..Len(job))
  BY DEF Registered, KeysKnown
<1>2. ASSUME NEW c \in Chunks PROVE byKey'[c] = NoJob
  <2>1. byKey[c] # NoJob => byKey[c] \in Registered /\ job[byKey[c]].chunk = c
    BY DEF Registered, KeysKnown
  <2>. QED BY <2>1 DEF Settle, KeysWithout
<1>. QED BY <1>1, <1>2

LEMMA Forgetting ==
  ASSUME NEW q, IsQueue(q), NEW S
  PROVE  /\ IsQueue(Forget(q, S)) /\ Forget(q, S).barrier = q.barrier
         /\ Forget(q, S).cancelled = q.cancelled /\ Forget(q, S).stopping = q.stopping
BY DEF Forget, IsQueue

LEMMA Cancelling ==
  ASSUME QueueTyped, KeysKnown, NEW q, IsQueue(q), CancelQueue(q)
  PROVE  /\ IsQueue(queue') /\ queue'.barrier = q.barrier
         /\ \/ /\ q.cancelled /\ queue' = q /\ pending' = pending
               /\ job' = job /\ byKey' = byKey
            \/ /\ pending' = <<>> /\ SettledJobs(Registered)
               /\ \A c \in Chunks : byKey'[c] = NoJob
<1>1. CASE q.cancelled
  BY <1>1 DEF CancelQueue, Hold
<1>2. CASE ~q.cancelled
  <2>1. /\ pending' = <<>> /\ Settle(Registered, "TRANSFER_CLOSING")
        /\ queue' = [Forget(q, Registered) EXCEPT !.cancelled = TRUE, !.paused = FALSE,
                                                  !.timer = FALSE]
    BY <1>2 DEF CancelQueue, Hold
  <2>2. IsQueue(queue') /\ queue'.barrier = q.barrier
    BY <2>1, Forgetting DEF IsQueue
  <2>3. "TRANSFER_CLOSING" \in Outcomes
    BY DEF Outcomes, Errors
  <2>4. SettledJobs(Registered) /\ \A c \in Chunks : byKey'[c] = NoJob
    BY <2>1, <2>3, Settling, SettlingAll
  <2>. QED BY <2>1, <2>2, <2>4
<1>. QED BY <1>1, <1>2

-----------------------------------------------------------------------------
(* Steps that have the same effect on the queue.  A part of the invariant is  *)
(* kept by a step that leaves its variables.                                  *)

LEMMA Frames ==
  ASSUME IInv
  PROVE  /\ UNCHANGED row => Row!IInv'
         /\ UNCHANGED <<job, queue, byKey, pending>> => QueueTyped' /\ KeysKnown'
         /\ UNCHANGED <<flush, job>> => FlushTyped'
         /\ UNCHANGED <<op, tail, direct, acked, used>> => OpTyped'
         /\ UNCHANGED <<row, part, job, flush>> => FlushKnows'
         /\ UNCHANGED <<row, flush, op>> => CancelWaits'
         /\ UNCHANGED <<job, byKey, flush, pending>> => JobsHeld'
         /\ UNCHANGED <<queue, byKey>> => ClosedIsEmpty'
         /\ UNCHANGED <<op, queue, pending, flush>> => SealHolds'
         /\ UNCHANGED <<row, op, tail, direct, used>> => Counted'
         /\ UNCHANGED <<row, part>> => DurableIsOnDisk'
         /\ UNCHANGED <<row, acked>> => AckedIsDurable'
<1>1. UNCHANGED row => Row!IInv'
  BY RowStep DEF IInv, RowInv
<1>2. UNCHANGED <<job, queue, byKey, pending>> => QueueTyped' /\ KeysKnown'
  BY DEF IInv, QueueInv, QueueTyped, KeysKnown
<1>3. UNCHANGED <<flush, job>> => FlushTyped'
  BY DEF IInv, QueueInv, FlushTyped
<1>4. UNCHANGED <<op, tail, direct, acked, used>> => OpTyped'
  BY DEF IInv, RowInv, OpTyped
<1>5. UNCHANGED <<row, part, job, flush>> => FlushKnows'
  BY DEF IInv, QueueInv, FlushKnows, UniqueKeys
<1>6. UNCHANGED <<row, flush, op>> => CancelWaits'
  BY DEF IInv, QueueInv, CancelWaits
<1>7. UNCHANGED <<job, byKey, flush, pending>> => JobsHeld'
  BY DEF IInv, QueueInv, JobsHeld, Queued, Orphaned, Held
<1>8. UNCHANGED <<queue, byKey>> => ClosedIsEmpty'
  BY DEF IInv, QueueInv, ClosedIsEmpty
<1>9. UNCHANGED <<op, queue, pending, flush>> => SealHolds'
  BY DEF IInv, QueueInv, SealHolds
<1>10. UNCHANGED <<row, op, tail, direct, used>> => Counted'
  BY DEF IInv, RowInv, Counted, Owed, Running, Asked
<1>11. UNCHANGED <<row, part>> => DurableIsOnDisk'
  BY DEF IInv, RowInv, DurableIsOnDisk, Stored
<1>12. UNCHANGED <<row, acked>> => AckedIsDurable'
  BY DEF IInv, RowInv, AckedIsDurable
<1>. QED BY <1>1, <1>2, <1>3, <1>4, <1>5, <1>6, <1>7, <1>8, <1>9, <1>10, <1>11, <1>12

\* The flush knows as much of its jobs as long as they keep chunk and content.
LEMMA KnowsOn ==
  ASSUME FlushTyped, FlushKnows, UNCHANGED <<row, part, flush>>,
         \A j \in 1..Len(job) : job'[j].chunk = job[j].chunk /\ job'[j].digest = job[j].digest
  PROVE  FlushKnows'
<1>1. flush.accepted \subseteq 1..Len(job) /\ flush.new \subseteq 1..Len(job)
  BY DEF FlushTyped
<1>2. UniqueKeys(flush.new)' => UniqueKeys(flush.new)
  BY <1>1 DEF UniqueKeys
<1>. QED BY <1>1, <1>2 DEF FlushKnows

\* The flush settles jobs and ends.
LEMMA SettlingAndEnding ==
  ASSUME IInv, NEW S \in SUBSET (1..Len(job)), NEW outcome \in Outcomes,
         flush.phase # "idle", Held \subseteq S \/ queue.cancelled \/ queue.stopping,
         SettleAndEnd(S, outcome), UNCHANGED op
  PROVE  QueueInv'
<1>. USE DEF IInv, QueueInv
<1>1. SettledJobs(S)
  BY Settling DEF SettleAndEnd
<1>2. /\ IsQueue(queue') /\ queue'.barrier = queue.barrier
      /\ queue'.cancelled = queue.cancelled /\ queue'.stopping = queue.stopping
      /\ Takes(pending) \/ (flush' = IdleFlush /\ pending' = pending)
  <2>1. IsQueue(queue) /\ FlushEnds(Forget(queue, S), KeysWithout(S))
    BY DEF SettleAndEnd, QueueTyped
  <2>. QED BY <2>1, Forgetting, Ending DEF Fenced
<1>3. QueueTyped' /\ KeysKnown'
  BY <1>1, <1>2 DEF QueueTyped, SettledJobs, Takes
<1>4. FlushTyped' /\ FlushKnows' /\ CancelWaits'
  <2>1. flush'.batch \subseteq 1..Len(job') /\ flush'.phase \in {"idle", "preflight"}
    BY <1>1, <1>2 DEF QueueTyped, SettledJobs, Takes, IdleFlush
  <2>2. /\ flush' \in Flushes /\ flush'.accepted = {} /\ flush'.new = {}
        /\ flush'.phase = "idle" => flush'.batch = {}
    BY <1>2 DEF Takes, IdleFlush, Flushes, Errors
  <2>. QED BY <2>1, <2>2 DEF FlushTyped, FlushKnows, CancelWaits
<1>5. JobsHeld'
  <2>1. ASSUME NEW j \in 1..Len(job), Queued(j)', ~Orphaned(j)'
        PROVE  Waits(pending, j)
    <3>1. Queued(j) /\ ~Orphaned(j) /\ j \notin S
      BY <1>1, <2>1 DEF SettledJobs
    <3>2. byKey[job[j].chunk] # NoJob
      BY <3>1, JobTyped, WriterAssumption DEF Orphaned
    <3>3. j \notin Held
      BY <3>1, <3>2, JobTyped DEF ClosedIsEmpty
    <3>. QED BY <3>1, <3>3 DEF JobsHeld
  <2>2. \A j : Waits(pending, j) => j \in Held' \/ Waits(pending', j)
    BY <1>2 DEF Takes, Held
  <2>. QED BY <1>1, <2>1, <2>2 DEF JobsHeld, SettledJobs
<1>6. ClosedIsEmpty'
  BY <1>1, <1>2 DEF ClosedIsEmpty, SettledJobs
<1>7. SealHolds'
  BY <1>2 DEF SealHolds
<1>. QED BY <1>3, <1>4, <1>5, <1>6, <1>7

\* The queue is rescheduled: its flags change, or a flush takes waiting jobs.
LEMMA Rescheduling ==
  ASSUME IInv, UNCHANGED <<row, part, job, byKey>>, IsQueue(queue'),
         queue'.cancelled => queue.cancelled, queue'.stopping => queue.stopping,
         \/ flush.phase = "idle" /\ Takes(pending)
         \/ flush' = flush /\ pending' = pending
  PROVE  /\ QueueTyped' /\ KeysKnown' /\ FlushTyped' /\ FlushKnows'
         /\ JobsHeld' /\ ClosedIsEmpty'
<1>. USE DEF IInv, QueueInv
<1>1. QueueTyped' /\ KeysKnown' /\ ClosedIsEmpty'
  BY DEF QueueTyped, KeysKnown, ClosedIsEmpty, Takes
<1>2. CASE flush.phase = "idle" /\ Takes(pending)
  <2>1. FlushTyped' /\ FlushKnows'
    BY <1>2 DEF Takes, FlushTyped, FlushKnows, QueueTyped
  <2>2. Held = {} /\ \A j : Waits(pending, j) => j \in Held' \/ Waits(pending', j)
    BY <1>2 DEF Takes, Held, FlushTyped
  <2>3. JobsHeld'
    BY <2>2 DEF JobsHeld, Queued, Orphaned
  <2>. QED BY <1>1, <2>1, <2>3
<1>3. CASE flush' = flush /\ pending' = pending
  BY <1>1, <1>3, Frames
<1>. QED BY <1>2, <1>3

\* The queue rejects all its jobs and keeps only the running flush.
LEMMA Emptying ==
  ASSUME IInv, UNCHANGED <<row, part, flush>>, IsQueue(queue'), pending' = <<>>,
         SettledJobs(Registered), \A c \in Chunks : byKey'[c] = NoJob
  PROVE  /\ QueueTyped' /\ KeysKnown' /\ FlushTyped' /\ FlushKnows'
         /\ JobsHeld' /\ ClosedIsEmpty'
<1>. USE DEF IInv, QueueInv
<1>1. QueueTyped' /\ KeysKnown' /\ ClosedIsEmpty'
  BY DEF QueueTyped, KeysKnown, ClosedIsEmpty, SettledJobs, Waits
<1>2. FlushTyped' /\ FlushKnows'
  BY KnowsOn DEF FlushTyped, SettledJobs
<1>3. JobsHeld'
  <2>1. ASSUME NEW j \in 1..Len(job'), Queued(j)' PROVE Orphaned(j)'
    <3>1. j \in 1..Len(job) /\ job'[j].chunk = job[j].chunk /\ j \in Nat
      BY <1>1, <2>1 DEF SettledJobs, QueueTyped
    <3>2. j # NoJob /\ job'[j].chunk \in Chunks
      BY <3>1, JobTyped, WriterAssumption
    <3>. QED BY <2>1, <3>2 DEF Orphaned
  <2>. QED BY <2>1 DEF JobsHeld
<1>. QED BY <1>1, <1>2, <1>3

-----------------------------------------------------------------------------
(* The invariant holds initially, and every action keeps it. *)

LEMMA InitInv == Init => IInv
<1>. SUFFICES ASSUME Init PROVE IInv
  OBVIOUS
<1>1. Row!IInv
  BY RowInitially, SameRows DEF Init, Row!Init
<1>2. OpTyped /\ Counted
  BY RowAssumption, WriterAssumption
     DEF Init, OpTyped, NoOp, Counted, Owed, Running, Asked, AbsentRow, Kinds
<1>3. DurableIsOnDisk /\ AckedIsDurable
  BY DEF Init, DurableIsOnDisk, AckedIsDurable, Stored, AbsentRow
<1>4. QueueTyped /\ KeysKnown
  BY DEF Init, QueueTyped, KeysKnown, IsQueue, FreshQueue, Waits
<1>5. FlushTyped /\ FlushKnows /\ CancelWaits
  BY DEF Init, FlushTyped, IdleFlush, Flushes, Errors, FlushKnows, CancelWaits
<1>6. JobsHeld /\ ClosedIsEmpty /\ SealHolds
  BY DEF Init, JobsHeld, ClosedIsEmpty, FreshQueue, SealHolds, NoOp
<1>. QED BY <1>1, <1>2, <1>3, <1>4, <1>5, <1>6 DEF IInv, RowInv, QueueInv

LEMMA OwedIsNat == ASSUME OpTyped PROVE Owed \in Nat
<1>1. Len(tail) \in Nat
  BY DEF OpTyped
<1>2. Running \in Nat /\ Asked \in Nat
  BY DEF Running, Asked
<1>. QED BY <1>1, <1>2 DEF Owed

\* A step that touches the row and no chunk, and leaves the rest but the operations.
LEMMA RowTouchedPreserves ==
  ASSUME IInv, Row!Transactions, RowTouched, UNCHANGED <<part, queueVars, acked>>
  PROVE  /\ Row!IInv' /\ DurableIsOnDisk' /\ AckedIsDurable'
         /\ QueueTyped' /\ KeysKnown' /\ FlushTyped' /\ FlushKnows'
         /\ JobsHeld' /\ ClosedIsEmpty'
<1>1. Row!IInv'
  BY RowStep DEF IInv, RowInv
<1>2. DurableIsOnDisk' /\ AckedIsDurable'
  BY DEF IInv, RowInv, RowTouched, DurableIsOnDisk, AckedIsDurable, Stored
<1>3. QueueTyped' /\ KeysKnown' /\ FlushTyped' /\ JobsHeld' /\ ClosedIsEmpty'
  BY Frames DEF queueVars
<1>4. FlushKnows'
  BY DEF IInv, QueueInv, RowTouched, FlushKnows, queueVars, UniqueKeys
<1>. QED BY <1>1, <1>2, <1>3, <1>4

LEMMA CreateTransferPreserves == ASSUME IInv, NEW m \in Manifests, CreateTransfer(m) PROVE IInv'
<1>1. /\ Row!Transactions /\ RowTouched /\ row'.revision = row.revision
      /\ row'.status = "cancelled" => row.status = "cancelled"
  BY CreateTouches DEF IInv, RowInv
<1>2. UNCHANGED <<part, queueVars, op, tail, direct, acked, used>>
  BY DEF CreateTransfer, controlVars
<1>3. OpTyped' /\ SealHolds'
  BY <1>2, Frames DEF queueVars
<1>4. CancelWaits'
  BY <1>1, <1>2 DEF IInv, QueueInv, CancelWaits, queueVars
<1>5. Counted'
  BY <1>1, <1>2 DEF IInv, RowInv, RowTouched, Counted, Owed, Running, Asked
<1>. QED BY <1>1, <1>2, <1>3, <1>4, <1>5, RowTouchedPreserves DEF IInv, RowInv, QueueInv

\* A step that leaves the row, the files and the operations.
LEMMA RowKept ==
  ASSUME IInv, UNCHANGED <<row, part, op, tail, direct, acked, used>>
  PROVE  RowInv'
BY Frames DEF RowInv

LEMMA EnqueueRetryPreserves ==
  ASSUME IInv, NEW c \in Chunks, NEW d \in Digests, EnqueueRetry(c, d)
  PROVE  IInv'
<1>. USE DEF QueueInv
<1>1. UNCHANGED <<row, part, byKey, pending, flush, op, tail, direct, acked, used>>
  BY DEF EnqueueRetry, controlVars
<1>2. QueueTyped /\ KeysKnown /\ FlushTyped /\ FlushKnows /\ JobsHeld /\ SealHolds /\ ClosedIsEmpty
  BY DEF IInv
<1>3. byKey[c] \in 1..Len(job) /\ job' = [job EXCEPT ![byKey[c]].waiters = @ + 1]
  BY <1>2 DEF EnqueueRetry, KeysKnown
<1>4. /\ job' \in Seq(Jobs) /\ Len(job') = Len(job)
      /\ \A j \in 1..Len(job) : /\ job'[j].chunk = job[j].chunk
                                /\ job'[j].digest = job[j].digest
                                /\ job'[j].state = job[j].state
  <2>1. job \in Seq(Jobs) /\ \A j \in 1..Len(job) : job[j] \in Jobs
    BY <1>2 DEF QueueTyped
  <2>2. [job[byKey[c]] EXCEPT !.waiters = @ + 1] \in Jobs
    <3>1. job[byKey[c]] \in Jobs /\ job[byKey[c]].waiters + 1 \in Nat
      BY <1>3, <2>1 DEF Jobs
    <3>. QED BY <3>1 DEF Jobs
  <2>3. job' \in Seq(Jobs) /\ Len(job') = Len(job)
    BY <1>3, <2>1, <2>2, ExceptSeq
  <2>4. \A j \in 1..Len(job) :
          job'[j] = IF j = byKey[c] THEN [job[byKey[c]] EXCEPT !.waiters = @ + 1] ELSE job[j]
    BY <1>3, <2>1
  <2>. QED BY <2>1, <2>3, <2>4 DEF Jobs
<1>5. /\ IsQueue(queue') /\ queue'.barrier = queue.barrier
      /\ queue'.cancelled = queue.cancelled /\ queue'.stopping = queue.stopping
  BY <1>2 DEF EnqueueRetry, QueueTyped, IsQueue
<1>6. QueueTyped' /\ KeysKnown' /\ ClosedIsEmpty'
  BY <1>1, <1>2, <1>4, <1>5 DEF QueueTyped, KeysKnown, ClosedIsEmpty
<1>7. FlushTyped' /\ FlushKnows'
  BY <1>1, <1>2, <1>4, KnowsOn DEF FlushTyped
<1>8. JobsHeld' /\ SealHolds' /\ CancelWaits'
  BY <1>1, <1>2, <1>4, <1>5, Frames DEF JobsHeld, Queued, Orphaned, Held, SealHolds
<1>. QED BY <1>1, <1>6, <1>7, <1>8, RowKept DEF IInv

LEMMA TimerFiresPreserves == ASSUME IInv, TimerFires PROVE IInv'
<1>. USE DEF QueueInv
<1>1. UNCHANGED <<row, part, job, byKey, op, tail, direct, acked, used>>
  BY DEF TimerFires, controlVars
<1>2. IsQueue(queue) /\ pending \in Seq(Nat)
  BY DEF IInv, QueueTyped
<1>. DEFINE q == [queue EXCEPT !.timer = FALSE, !.flushRequested = TRUE]
<1>3. /\ IsQueue(q) /\ q.barrier = queue.barrier
      /\ q.cancelled = queue.cancelled /\ q.stopping = queue.stopping
  BY <1>2 DEF IsQueue
<1>4. RequestFlush(q, pending)
  BY DEF TimerFires
<1>. HIDE DEF q
<1>5. /\ IsQueue(queue') /\ queue'.barrier = queue.barrier
      /\ queue'.cancelled = queue.cancelled /\ queue'.stopping = queue.stopping
      /\ \/ flush.phase = "idle" /\ pending # <<>> /\ Takes(pending)
         \/ flush' = flush /\ pending' = pending
  BY <1>2, <1>3, <1>4, Requesting DEF Fenced
<1>6. SealHolds' /\ CancelWaits'
  BY <1>1, <1>5 DEF IInv, SealHolds, CancelWaits, Takes
<1>. QED BY <1>1, <1>5, <1>6, RowKept, Rescheduling DEF IInv

LEMMA EnqueueChunkPreserves ==
  ASSUME IInv, NEW c \in Chunks, NEW d \in Digests, EnqueueChunk(c, d)
  PROVE  IInv'
<1>. DEFINE n       == Len(job) + 1
            new     == [chunk |-> c, digest |-> d, state |-> "queued", waiters |-> 1]
            q       == [queue EXCEPT !.live = TRUE, !.requestCount = @ + 1]
            waiting == Append(pending, n)
<1>. USE DEF QueueInv
<1>1. /\ UNCHANGED <<row, part, op, tail, direct, acked, used>>
      /\ ~queue.barrier /\ ~queue.cancelled /\ ~queue.stopping /\ byKey[c] = NoJob
      /\ job' = Append(job, new) /\ byKey' = [byKey EXCEPT ![c] = n]
      /\ \/ RequestFlush(EnsureTimer(q, waiting), waiting)
         \/ Hold(EnsureTimer(q, waiting), waiting) /\ flush' = flush
  BY DEF EnqueueChunk, CanEnqueue, controlVars
<1>2. /\ QueueTyped /\ KeysKnown /\ FlushTyped /\ FlushKnows /\ JobsHeld /\ SealHolds
      /\ CancelWaits
  BY DEF IInv
<1>3. Len(job) \in Nat /\ job \in Seq(Jobs) /\ pending \in Seq(Nat) /\ n \in Nat
  BY <1>2 DEF QueueTyped
<1>4. /\ job' \in Seq(Jobs) /\ Len(job') = n /\ job'[n] = new
      /\ \A j \in 1..Len(job) : job'[j] = job[j]
  <2>1. new \in Jobs
    BY DEF Jobs, Outcomes
  <2>. HIDE DEF new
  <2>. QED BY <1>1, <1>3, <2>1
<1>5. waiting \in Seq(Nat) /\ \A j : Waits(waiting, j) <=> Waits(pending, j) \/ j = n
  <2>1. /\ waiting \in Seq(Nat) /\ Len(waiting) = Len(pending) + 1
        /\ waiting[Len(pending) + 1] = n /\ \A i \in 1..Len(pending) : waiting[i] = pending[i]
    BY <1>3
  <2>2. 1..Len(waiting) = 1..Len(pending) \cup {Len(pending) + 1}
    BY <1>3, <2>1
  <2>. HIDE DEF waiting, n
  <2>. QED BY <2>1, <2>2 DEF Waits
<1>6. /\ IsQueue(queue') /\ ~queue'.cancelled /\ ~queue'.stopping
      /\ \/ flush.phase = "idle" /\ Takes(waiting)
         \/ flush' = flush /\ pending' = waiting
  <2>1. IsQueue(q) /\ ~q.cancelled /\ ~q.stopping
    BY <1>1, <1>2 DEF QueueTyped, IsQueue
  <2>. HIDE DEF q, waiting
  <2>2. LET t == EnsureTimer(q, waiting) IN IsQueue(t) /\ ~t.cancelled /\ ~t.stopping
    BY <2>1, Timing
  <2>. QED BY <1>1, <1>5, <2>2, Requesting DEF Hold, Fenced
<1>. HIDE DEF waiting
<1>7. /\ pending' \in Seq(Nat)
      /\ \A j : Waits(pending', j) => Waits(pending, j) \/ j = n
      /\ \A j : Waits(pending, j) \/ j = n => j \in flush'.batch \/ Waits(pending', j)
  BY <1>5, <1>6 DEF Takes
<1>8. QueueTyped' /\ ClosedIsEmpty'
  <2>1. byKey' \in [Chunks -> Nat \cup {NoJob}]
    BY <1>1, <1>2, <1>3 DEF QueueTyped
  <2>2. ASSUME NEW j, Waits(pending', j) PROVE j \in 1..Len(job')
    BY <1>2, <1>3, <1>4, <1>7, <2>2 DEF QueueTyped
  <2>. QED BY <1>4, <1>6, <1>7, <2>1, <2>2 DEF QueueTyped, ClosedIsEmpty
<1>9. KeysKnown'
  BY <1>1, <1>2, <1>3, <1>4 DEF KeysKnown, QueueTyped
<1>10. FlushTyped' /\ FlushKnows' /\ CancelWaits'
  <2>1. CASE flush' = flush
    BY <1>1, <1>2, <1>3, <1>4, <2>1, KnowsOn DEF FlushTyped, CancelWaits
  <2>2. CASE Takes(waiting)
    <3>1. flush'.batch \subseteq 1..Len(job')
      BY <1>2, <1>3, <1>4, <1>5, <2>2 DEF Takes, QueueTyped
    <3>. QED BY <2>2, <3>1 DEF Takes, FlushTyped, FlushKnows, CancelWaits
  <2>. QED BY <1>6, <2>1, <2>2
<1>11. JobsHeld'
  <2>1. ASSUME NEW j \in 1..Len(job), Queued(j)', ~Orphaned(j)'
        PROVE  j \in Held' \/ Waits(pending', j)
    <3>1. Queued(j) /\ ~Orphaned(j)
      <4>1. job'[j] = job[j] /\ job[j].chunk \in Chunks /\ j # n
        BY <1>2, <1>3, <1>4, JobTyped
      <4>. QED BY <1>1, <1>2, <2>1, <4>1 DEF Queued, Orphaned, QueueTyped
    <3>2. j \in Held \/ Waits(pending, j)
      BY <1>2, <3>1 DEF JobsHeld
    <3>. QED BY <1>2, <1>5, <1>6, <3>2 DEF Takes, Held, FlushTyped
  <2>2. n \in Held' \/ Waits(pending', n)
    BY <1>5, <1>6 DEF Takes, Held
  <2>3. 1..Len(job') = 1..Len(job) \cup {n}
    BY <1>3, <1>4
  <2>. QED BY <2>1, <2>2, <2>3 DEF JobsHeld
<1>12. SealHolds'
  BY <1>1, <1>2 DEF SealHolds
<1>. QED BY <1>1, <1>8, <1>9, <1>10, <1>11, <1>12, RowKept DEF IInv

LEMMA PreflightPreserves == ASSUME IInv, Preflight PROVE IInv'
<1>. USE DEF IInv, QueueInv
<1>. DEFINE verdict(j) == Verdict(row, job[j].chunk, job[j].digest)
<1>1. /\ UNCHANGED <<row, part, job, queue, byKey, pending, op, tail, direct, acked>>
      /\ flush.phase = "preflight" /\ flush.accepted = {} /\ flush.new = {}
      /\ flush \in Flushes /\ flush.batch \subseteq 1..Len(job)
  BY DEF Preflight, controlVars, FlushTyped
<1>2. used'.controls = used.controls /\ used' \in [controls : Nat, faults : Nat, stops : Nat]
  BY DEF Preflight, Fault, RowInv, OpTyped
<1>3. /\ DOMAIN flush' = {"phase", "batch", "accepted", "new", "error"}
      /\ flush'.phase = "preflighted" /\ flush'.batch = flush.batch
      /\ \/ /\ flush'.accepted = {j \in flush.batch : verdict(j) # "CHUNK_CONFLICT"}
            /\ flush'.new = {j \in flush.batch : verdict(j) = "new"}
            /\ flush'.error = WriteError(row, Sender)
         \/ flush'.accepted = {} /\ flush'.new = {} /\ flush'.error = "STORAGE_ERROR"
  BY <1>1 DEF Preflight, Flushes
<1>4. FlushTyped'
  <2>1. WriteError(row, Sender) \in Errors
    BY DEF WriteError, OwnerError, Then, Check, Errors
  <2>2. /\ flush'.new \subseteq flush'.accepted /\ flush'.accepted \subseteq flush.batch
        /\ flush'.error \in Errors
    BY <1>3, <2>1 DEF Errors
  <2>3. flush' \in Flushes
    <3>1. flush.batch \in SUBSET Nat
      BY <1>1 DEF Flushes
    <3>2. flush' = [phase |-> "preflighted", batch |-> flush.batch, accepted |-> flush'.accepted,
                    new |-> flush'.new, error |-> flush'.error]
      BY <1>1 DEF Preflight, Flushes
    <3>. QED BY <2>2, <3>1, <3>2 DEF Flushes
  <2>. QED BY <1>1, <1>3, <2>2, <2>3 DEF FlushTyped
<1>5. FlushKnows'
  BY <1>1, <1>3 DEF Verdict, FlushKnows
<1>6. CancelWaits'
  <2>1. row.status = "cancelled" => WriteError(row, Sender) # "none"
    BY DEF WriteError, OwnerError, Then, Check, Writable
  <2>. QED BY <1>1, <1>3, <2>1 DEF CancelWaits
<1>7. JobsHeld' /\ SealHolds'
  BY <1>1, <1>3 DEF JobsHeld, Held, Queued, Orphaned, SealHolds
<1>8. RowInv'
  BY <1>1, <1>2, Frames DEF RowInv, OpTyped, Counted, Owed, Running, Asked
<1>. QED BY <1>1, <1>4, <1>5, <1>6, <1>7, <1>8, Frames

LEMMA PreflightedPreserves == ASSUME IInv, Preflighted PROVE IInv'
<1>. DEFINE conflicts == flush.batch \ flush.accepted
            goesOn    == flush.accepted # {} /\ Proceeds
<1>. USE DEF IInv, QueueInv
<1>1. /\ UNCHANGED <<row, op, tail, direct, acked, used>>
      /\ flush.phase = "preflighted" /\ flush.error \in Errors
      /\ flush.batch \in SUBSET (1..Len(job)) /\ conflicts \in SUBSET (1..Len(job))
  BY DEF Preflighted, controlVars, FlushTyped, Flushes
<1>2. "CHUNK_CONFLICT" \in Outcomes /\ Errors \subseteq Outcomes
  BY DEF Outcomes, Errors
<1>3. CASE SettleAndEnd(flush.batch, flush.error) /\ UNCHANGED part
  <2>1. QueueInv'
    BY <1>1, <1>2, <1>3, SettlingAndEnding DEF Held
  <2>. QED BY <1>1, <1>3, <2>1, RowKept
<1>4. CASE ~goesOn /\ SettleAndEnd(conflicts, "CHUNK_CONFLICT") /\ UNCHANGED part
  <2>1. Held \subseteq conflicts \/ queue.cancelled \/ queue.stopping
    BY <1>1, <1>4 DEF Held, Proceeds
  <2>2. QueueInv'
    BY <1>1, <1>2, <1>4, <2>1, SettlingAndEnding
  <2>. QED BY <1>1, <1>4, <2>2, RowKept
<1>5. CASE /\ flush.error = "none" /\ goesOn
           /\ Settle(conflicts, "CHUNK_CONFLICT")
           /\ Hold(Forget(queue, conflicts), pending)
           /\ flush' = [flush EXCEPT !.phase = IF flush.new = {} THEN "commit" ELSE "writing"]
           /\ part' = [c \in Chunks |->
                         IF \E j \in flush.new : job[j].chunk = c THEN Torn ELSE part[c]]
  <2>1. SettledJobs(conflicts)
    BY <1>1, <1>2, <1>5, Settling
  <2>2. /\ IsQueue(queue') /\ queue'.barrier = queue.barrier /\ pending' = pending
        /\ queue'.cancelled = queue.cancelled /\ queue'.stopping = queue.stopping
    BY <1>5, Forgetting DEF Hold, QueueTyped
  <2>3. /\ flush' \in Flushes /\ flush'.batch = flush.batch /\ flush'.error = flush.error
        /\ flush'.accepted = flush.accepted /\ flush'.new = flush.new
        /\ flush'.phase = IF flush.new = {} THEN "commit" ELSE "writing"
    BY <1>5 DEF FlushTyped, Flushes
  <2>4. QueueTyped' /\ KeysKnown' /\ ClosedIsEmpty'
    BY <2>1, <2>2 DEF QueueTyped, SettledJobs, ClosedIsEmpty
  <2>5. FlushTyped' /\ CancelWaits' /\ SealHolds'
    BY <1>1, <1>5, <2>1, <2>2, <2>3 DEF FlushTyped, SettledJobs, CancelWaits, SealHolds
  <2>6. FlushKnows'
    BY <1>1, <2>1, <2>3 DEF FlushKnows, FlushTyped, SettledJobs
  <2>7. JobsHeld'
    <3>1. ASSUME NEW j \in 1..Len(job), Queued(j)', ~Orphaned(j)'
          PROVE  j \in flush.accepted \/ Waits(pending, j)
      BY <1>1, <2>1, <3>1 DEF SettledJobs, JobsHeld, Held
    <3>. QED BY <2>1, <2>2, <2>3, <3>1 DEF JobsHeld, SettledJobs, Held
  <2>8. DurableIsOnDisk'
    <3>1. \A j \in flush.new : row.chunk[job[j].chunk] = NoDigest
      BY <1>1 DEF FlushKnows, FlushTyped
    <3>. QED BY <1>1, <1>5, <3>1 DEF RowInv, DurableIsOnDisk, Stored
  <2>9. RowInv'
    BY <1>1, <2>8, Frames DEF RowInv
  <2>. QED BY <2>4, <2>5, <2>6, <2>7, <2>9
<1>. QED BY <1>3, <1>4, <1>5 DEF Preflighted

LEMMA WrittenPreserves == ASSUME IInv, Written PROVE IInv'
<1>. DEFINE writers(c) == {j \in flush.new : job[j].chunk = c}
            last(c)    == CHOOSE j \in writers(c) : \A k \in writers(c) : k <= j
<1>. USE DEF IInv, QueueInv
<1>1. /\ UNCHANGED <<row, op, tail, direct, acked, used>> /\ flush.phase = "writing"
      /\ flush \in Flushes /\ flush.new \subseteq 1..Len(job)
      /\ part' = [c \in Chunks |-> IF writers(c) = {} THEN part[c] ELSE job[last(c)].digest]
  BY DEF Written, controlVars, FlushTyped
<1>2. RowInv'
  <2>1. \A c \in Chunks : row.chunk[c] # NoDigest => writers(c) = {}
    BY <1>1 DEF FlushKnows, FlushTyped
  <2>2. DurableIsOnDisk'
    BY <1>1, <2>1 DEF RowInv, DurableIsOnDisk, Stored
  <2>. QED BY <1>1, <2>2, Frames DEF RowInv
<1>3. CASE Proceeds
  <2>1. /\ flush' = [flush EXCEPT !.phase = "commit"]
        /\ UNCHANGED <<job, queue, byKey, pending>>
    BY <1>3 DEF Written
  <2>2. /\ flush' \in Flushes /\ flush'.phase = "commit" /\ flush'.batch = flush.batch
        /\ flush'.accepted = flush.accepted /\ flush'.new = flush.new
        /\ flush'.error = flush.error
    BY <1>1, <2>1 DEF Flushes
  <2>3. FlushTyped' /\ CancelWaits'
    BY <2>1, <2>2 DEF FlushTyped, CancelWaits
  <2>4. FlushKnows'
    <3>1. ASSUME UniqueKeys(flush.new), NEW j \in flush.new
          PROVE  part'[job[j].chunk] = job[j].digest
      <4>1. writers(job[j].chunk) = {j} /\ j \in Nat /\ job[j].chunk \in Chunks
        BY <1>1, <3>1, JobTyped DEF UniqueKeys
      <4>2. last(job[j].chunk) = j
        BY <4>1
      <4>. HIDE DEF writers, last
      <4>. QED BY <1>1, <4>1, <4>2
    <3>2. UniqueKeys(flush.new)' => UniqueKeys(flush.new)
      BY <2>1, <2>2 DEF UniqueKeys
    <3>3. \A j \in flush.accepted :
            row.chunk[job[j].chunk] = IF j \in flush.new THEN NoDigest ELSE job[j].digest
      BY <1>1 DEF FlushKnows
    <3>4. UniqueKeys(flush.new)' => \A j \in flush'.new : part'[job'[j].chunk] = job'[j].digest
      BY <2>1, <2>2, <3>1, <3>2
    <3>. HIDE DEF IInv
    <3>. QED BY <1>1, <2>1, <2>2, <3>3, <3>4 DEF FlushKnows
  <2>5. JobsHeld' /\ SealHolds'
    BY <1>1, <2>1, <2>2 DEF JobsHeld, Held, Queued, Orphaned, SealHolds
  <2>. QED BY <1>2, <2>1, <2>3, <2>4, <2>5, Frames
<1>4. CASE ~Proceeds
  <2>1. SettleAndEnd({}, "none") /\ (queue.cancelled \/ queue.stopping)
    BY <1>4 DEF Written, Proceeds
  <2>2. "none" \in Outcomes /\ {} \in SUBSET (1..Len(job))
    BY DEF Outcomes, Errors
  <2>. QED BY <1>1, <1>2, <2>1, <2>2, SettlingAndEnding
<1>. QED BY <1>3, <1>4

LEMMA WriteFailsPreserves == ASSUME IInv, WriteFails PROVE IInv'
<1>. USE DEF IInv, QueueInv
<1>1. /\ UNCHANGED <<row, part, op, tail, direct, acked>> /\ flush.phase = "writing"
      /\ flush.batch \in SUBSET (1..Len(job)) /\ flush.accepted \subseteq flush.batch
      /\ SettleAndEnd(flush.batch, "STORAGE_ERROR")
  BY DEF WriteFails, controlVars, FlushTyped
<1>2. used'.controls = used.controls /\ used' \in [controls : Nat, faults : Nat, stops : Nat]
  BY DEF WriteFails, Fault, RowInv, OpTyped
<1>3. RowInv'
  BY <1>1, <1>2, Frames DEF RowInv, OpTyped, Counted, Owed, Running, Asked
<1>4. "STORAGE_ERROR" \in Outcomes
  BY DEF Outcomes, Errors
<1>. QED BY <1>1, <1>3, <1>4, SettlingAndEnding DEF Held

LEMMA CommitPreserves == ASSUME IInv, Commit PROVE IInv'
<1>. USE DEF IInv, QueueInv
<1>1. /\ UNCHANGED <<part, job, queue, byKey, pending, op, tail, direct, acked>>
      /\ flush.phase = "commit" /\ flush \in Flushes
  BY DEF Commit, controlVars, FlushTyped
<1>2. CommitTouched
  BY CommitTouches DEF RowInv
<1>3. used'.controls = used.controls /\ used' \in [controls : Nat, faults : Nat, stops : Nat]
  BY DEF Commit, Fault, RowInv, OpTyped
<1>4. /\ flush' \in Flushes /\ flush'.phase = "committed" /\ flush'.batch = flush.batch
      /\ flush'.accepted = flush.accepted /\ flush'.new = flush.new
  <2>. DEFINE new == [c \in {job[j].chunk : j \in flush.new} |->
                       job[CHOOSE j \in flush.new : job[j].chunk = c].digest]
              acks == {job[j].chunk : j \in flush.accepted}
              error == Then(WriteError(row, Sender), Check(UniqueKeys(flush.new), "INVALID_CHUNK"))
              done  == IF error # "none" THEN Tx(row, error, row)
                       ELSE CommitChunkBatch(row, Sender, new, acks)
  <2>1. WriteError(row, Sender) \in Errors
    BY DEF WriteError, OwnerError, Then, Check, Errors
  <2>2. CommitChunkBatch(row, Sender, new, acks).error \in Errors
    <3>. HIDE DEF new, acks
    <3>. QED BY <2>1 DEF CommitChunkBatch, Tx, Then, Check, Errors
  <2>3. error \in Errors
    BY <2>1 DEF Then, Check, Errors
  <2>4. done.error \in Errors
    <3>. HIDE DEF new, acks, error
    <3>. QED BY <2>2, <2>3 DEF Tx
  <2>5. \E e \in Errors : flush' = [flush EXCEPT !.phase = "committed", !.error = e]
    <3>1. \/ flush' = [flush EXCEPT !.phase = "committed", !.error = done.error]
          \/ flush' = [flush EXCEPT !.phase = "committed", !.error = "STORAGE_ERROR"]
      BY DEF Commit
    <3>. HIDE DEF done
    <3>. QED BY <2>4, <3>1 DEF Errors
  <2>. QED BY <1>1, <2>5 DEF Flushes
<1>5. Row!IInv' /\ OpTyped'
  BY <1>1, <1>2, <1>3, RowStep DEF CommitTouched, RowInv, OpTyped
<1>6. DurableIsOnDisk'
  BY <1>1, <1>2 DEF CommitTouched, RowInv, DurableIsOnDisk, Stored
<1>7. AckedIsDurable'
  <2>1. \A a \in acked : a[1] \in Stored(row)
    BY RowAssumption DEF RowInv, AckedIsDurable, OpTyped, Stored
  <2>. QED BY <1>1, <1>2, <2>1 DEF CommitTouched, RowInv, AckedIsDurable
<1>8. Counted'
  <2>1. row'.revision \in Nat /\ row'.received \in Nat
    BY <1>5, SameRows DEF Row!IInv, Row!TypeOK, Rows
  <2>2. Owed \in Nat /\ Owed' = Owed
    BY <1>1, OwedIsNat DEF Owed, Running, Asked, RowInv
  <2>3. /\ row.revision + Owed <= used.controls + row.received /\ used.controls \in Nat
        /\ row.revision \in Nat /\ row.received \in Nat
    BY RowKnows DEF RowInv, Counted, OpTyped
  <2>4. row'.revision + row.received <= row.revision + row'.received
    BY <1>2 DEF CommitTouched
  <2>. QED BY <1>3, <2>1, <2>2, <2>3, <2>4 DEF Counted
<1>9. FlushTyped' /\ FlushKnows' /\ CancelWaits'
  BY <1>1, <1>2, <1>4 DEF FlushTyped, FlushKnows, CancelWaits, CommitTouched
<1>10. JobsHeld' /\ SealHolds'
  BY <1>1, <1>4 DEF JobsHeld, Held, Queued, Orphaned, SealHolds
<1>. QED BY <1>1, <1>5, <1>6, <1>7, <1>8, <1>9, <1>10, Frames DEF RowInv

LEMMA CommittedPreserves == ASSUME IInv, Committed PROVE IInv'
<1>. USE DEF IInv, QueueInv
<1>1. /\ UNCHANGED <<row, part, op, tail, direct, used>> /\ flush.phase = "committed"
      /\ flush.batch \in SUBSET (1..Len(job)) /\ flush.accepted \in SUBSET (1..Len(job))
      /\ flush.accepted \subseteq flush.batch /\ flush.error \in Errors
  BY DEF Committed, controlVars, FlushTyped, Flushes
<1>2. "acked" \in Outcomes /\ Errors \subseteq Outcomes
  BY DEF Outcomes
<1>3. CASE flush.error = "none"
  <2>1. /\ SettleAndEnd(flush.accepted, "acked")
        /\ acked' = acked \cup {<<job[j].chunk, job[j].digest>> : j \in SettledBy(flush.accepted)}
    BY <1>3 DEF Committed
  <2>2. \A j \in SettledBy(flush.accepted) :
          /\ row.chunk[job[j].chunk] = job[j].digest
          /\ job[j].chunk \in Chunks /\ job[j].digest \in Digests
    BY <1>1, <1>3, JobTyped DEF SettledBy, FlushKnows
  <2>3. OpTyped' /\ AckedIsDurable'
    BY <1>1, <2>1, <2>2 DEF RowInv, OpTyped, AckedIsDurable
  <2>4. RowInv'
    BY <1>1, <2>3, Frames DEF RowInv
  <2>. QED BY <1>1, <1>2, <2>1, <2>4, SettlingAndEnding DEF Held
<1>4. CASE flush.error # "none"
  <2>1. SettleAndEnd(flush.batch, flush.error) /\ acked' = acked
    BY <1>4 DEF Committed
  <2>. QED BY <1>1, <1>2, <2>1, RowKept, SettlingAndEnding DEF Held
<1>. QED BY <1>3, <1>4

-----------------------------------------------------------------------------
(* The control operations. *)

\* The count is kept by a step that leaves the row and owes no more than before.
LEMMA CountKept ==
  ASSUME IInv, UNCHANGED row, Owed' \in Nat, Owed' <= Owed, used'.controls = used.controls
  PROVE  Counted'
<1>1. /\ row.revision + Owed <= used.controls + row.received /\ used.controls \in Nat
      /\ row.revision \in Nat /\ row.received \in Nat /\ Owed \in Nat
  BY RowKnows, OwedIsNat DEF IInv, RowInv, Counted, OpTyped
<1>. QED BY <1>1 DEF Counted

\* The request at the head of the tail has its turn.
Turn(step) == At(step) \/ \E sealed : op' = [Head(tail) EXCEPT !.step = step, !.sealed = sealed]

LEMMA Begins ==
  ASSUME IInv, NEW kind, Starts(kind), NEW step \in {"persist", "flush", "drain"},
         Turn(step), UNCHANGED <<row, direct, acked, used>>
  PROVE  /\ OpTyped' /\ Counted' /\ op.kind = "none" /\ kind \in Kinds
         /\ op'.kind = kind /\ op'.step = step
<1>1. /\ op.kind = "none" /\ tail # <<>> /\ Head(tail).kind = kind /\ tail' = Tail(tail)
      /\ tail \in Seq(Waiting)
  BY DEF Starts, IInv, RowInv, OpTyped
<1>2. /\ Head(tail) \in Waiting /\ tail' \in Seq(Waiting)
      /\ Len(tail) \in Nat /\ Len(tail') \in Nat /\ Len(tail) = Len(tail') + 1
  <2>1. /\ Head(tail) \in Waiting /\ Tail(tail) \in Seq(Waiting)
        /\ Len(Tail(tail)) = Len(tail) - 1 /\ Len(tail) \in Nat
    BY <1>1, HeadTailProperties, LenProperties
  <2>. QED BY <1>1, <2>1, LenProperties
<1>3. /\ DOMAIN op' = {"kind", "step", "sealed", "root", "error"}
      /\ op'.kind = kind /\ op'.step = step /\ op'.root = Head(tail).root
      /\ kind \in Kinds /\ (kind = "complete" => Head(tail).root \in Roots)
  BY <1>1, <1>2 DEF Turn, At, Waiting
<1>4. OpTyped'
  BY <1>2, <1>3 DEF IInv, RowInv, OpTyped
<1>5. Running \in {0, 1} /\ Running' \in {0, 1} /\ Asked' = Asked /\ Asked \in {0, 1}
  BY DEF Running, Asked
<1>6. Owed' \in Nat /\ Owed' <= Owed
  BY <1>2, <1>5 DEF Owed
<1>. QED BY <1>1, <1>3, <1>4, <1>6, CountKept

LEMMA BeginPausePreserves == ASSUME IInv, BeginPause PROVE IInv'
<1>. DEFINE freezes == ~queue.barrier /\ ~queue.cancelled /\ ~queue.stopping
            step == IF freezes /\ flush.phase # "idle" THEN "flush" ELSE "persist"
            q == [queue EXCEPT !.live = TRUE]
<1>1. /\ UNCHANGED <<row, part, job, byKey, pending, flush, direct, acked, used>>
      /\ Starts("pause") /\ At(step)
      /\ queue' = IF freezes THEN [q EXCEPT !.paused = TRUE, !.timer = FALSE] ELSE q
  BY DEF BeginPause
<1>2. /\ IsQueue(queue') /\ queue'.cancelled = queue.cancelled
      /\ queue'.stopping = queue.stopping
  BY <1>1 DEF IInv, QueueInv, QueueTyped, IsQueue
<1>3. OpTyped' /\ Counted' /\ op.kind = "none" /\ op'.kind = "pause"
  BY <1>1, Begins DEF Turn
<1>4. CancelWaits' /\ SealHolds'
  BY <1>1, <1>3 DEF IInv, QueueInv, CancelWaits, SealHolds
<1>5. RowInv'
  BY <1>1, <1>3, Frames DEF RowInv
<1>. QED BY <1>1, <1>2, <1>4, <1>5, Rescheduling DEF IInv, QueueInv

LEMMA BeginResumePreserves == ASSUME IInv, BeginResume PROVE IInv'
<1>1. /\ UNCHANGED <<row, part, job, byKey, pending, flush, direct, acked, used>>
      /\ Starts("resume") /\ At("persist") /\ queue' = [queue EXCEPT !.live = TRUE]
  BY DEF BeginResume
<1>2. /\ IsQueue(queue') /\ queue'.cancelled = queue.cancelled
      /\ queue'.stopping = queue.stopping
  BY <1>1 DEF IInv, QueueInv, QueueTyped, IsQueue
<1>3. OpTyped' /\ Counted' /\ op.kind = "none" /\ op'.kind = "resume"
  BY <1>1, Begins DEF Turn
<1>4. CancelWaits' /\ SealHolds'
  BY <1>1, <1>3 DEF IInv, QueueInv, CancelWaits, SealHolds
<1>5. RowInv'
  BY <1>1, <1>3, Frames DEF RowInv
<1>. QED BY <1>1, <1>2, <1>4, <1>5, Rescheduling DEF IInv, QueueInv

LEMMA BeginCancelPreserves == ASSUME IInv, BeginCancel PROVE IInv'
<1>. DEFINE q == [queue EXCEPT !.live = TRUE]
<1>1. /\ UNCHANGED <<row, part, flush, direct, acked, used>> /\ Starts("cancel")
      /\ op' = [Head(tail) EXCEPT !.step = "persist", !.sealed = q.barrier]
      /\ IF q.barrier THEN Hold(q, pending) /\ UNCHANGED <<job, byKey, requests>>
                      ELSE CancelQueue(q)
  BY DEF BeginCancel
<1>2. OpTyped' /\ Counted' /\ op.kind = "none" /\ op'.kind = "cancel"
  BY <1>1, Begins DEF Turn
<1>3. CancelWaits' /\ SealHolds'
  BY <1>1, <1>2 DEF IInv, QueueInv, CancelWaits, SealHolds
<1>4. RowInv'
  BY <1>1, <1>2, Frames DEF RowInv
<1>5. /\ IsQueue(q) /\ q.cancelled = queue.cancelled /\ q.stopping = queue.stopping
      /\ QueueTyped /\ KeysKnown
  BY DEF IInv, QueueInv, QueueTyped, IsQueue
<1>. HIDE DEF q
<1>6. \/ queue' = q /\ pending' = pending /\ UNCHANGED <<job, byKey>>
      \/ /\ IsQueue(queue') /\ pending' = <<>> /\ SettledJobs(Registered)
         /\ \A c \in Chunks : byKey'[c] = NoJob
  BY <1>1, <1>5, Cancelling DEF Hold
<1>7. /\ QueueTyped' /\ KeysKnown' /\ FlushTyped' /\ FlushKnows'
      /\ JobsHeld' /\ ClosedIsEmpty'
  BY <1>1, <1>5, <1>6, Rescheduling, Emptying
<1>. QED BY <1>3, <1>4, <1>7 DEF IInv, QueueInv

LEMMA BeginDrainPreserves == ASSUME IInv, BeginDrain PROVE IInv'
<1>. DEFINE q == [queue EXCEPT !.live = TRUE, !.barrier = TRUE, !.draining = TRUE,
                               !.timer = FALSE, !.flushRequested = TRUE]
<1>1. /\ UNCHANGED <<row, part, job, byKey, direct, acked, used>>
      /\ Starts("complete") /\ At("drain")
      /\ IF flush.phase = "idle" /\ pending # <<>>
           THEN StartFlush(q, pending)
           ELSE Hold(q, pending) /\ UNCHANGED flush
  BY DEF BeginDrain
<1>2. OpTyped' /\ Counted' /\ op.kind = "none" /\ op'.kind = "complete" /\ op'.step = "drain"
  BY <1>1, Begins DEF Turn
<1>3. /\ IsQueue(q) /\ q.cancelled = queue.cancelled /\ q.stopping = queue.stopping /\ q.barrier
      /\ pending \in Seq(Nat)
  BY DEF IInv, QueueInv, QueueTyped, IsQueue
<1>. HIDE DEF q
<1>4. /\ IsQueue(queue') /\ queue'.cancelled = queue.cancelled
      /\ queue'.stopping = queue.stopping /\ queue'.barrier
      /\ \/ flush.phase = "idle" /\ Takes(pending)
         \/ flush' = flush /\ pending' = pending
  BY <1>1, <1>3, Starting DEF Hold, Fenced
<1>5. CancelWaits' /\ SealHolds'
  BY <1>1, <1>2, <1>4 DEF IInv, QueueInv, CancelWaits, SealHolds, Takes
<1>6. RowInv'
  BY <1>1, <1>2, Frames DEF RowInv
<1>. QED BY <1>1, <1>4, <1>5, <1>6, Rescheduling DEF IInv, QueueInv

\* A step of the operations alone.
LEMMA OperationsOnly ==
  ASSUME IInv, UNCHANGED <<row, part, queueVars, acked>>,
         OpTyped', Counted', SealHolds', CancelWaits'
  PROVE  IInv'
BY Frames DEF IInv, RowInv, QueueInv, queueVars

\* The operation is over.
LEMMA Ends ==
  ASSUME IInv, op' = NoOp, UNCHANGED <<row, tail, direct, acked, used>>
  PROVE  OpTyped' /\ Counted' /\ SealHolds'
<1>1. OpTyped' /\ SealHolds'
  BY DEF IInv, RowInv, OpTyped, SealHolds, NoOp, Kinds
<1>2. Len(tail) \in Nat /\ tail' = tail
  BY DEF IInv, RowInv, OpTyped
<1>3. Running \in {0, 1} /\ Running' = 0 /\ Asked' = Asked /\ Asked \in {0, 1}
  BY DEF Running, Asked, NoOp
<1>4. Owed' \in Nat /\ Owed' <= Owed
  BY <1>2, <1>3 DEF Owed
<1>. QED BY <1>1, <1>4, CountKept

\* A request is counted before it is owed.
LEMMA Requested ==
  ASSUME IInv, UNCHANGED row, Owed' \in Nat, Owed' <= Owed + 1, UseControl
  PROVE  Counted' /\ used' \in [controls : Nat, faults : Nat, stops : Nat]
         /\ used'.controls <= MaxControls
<1>1. /\ row.revision + Owed <= used.controls + row.received /\ used.controls \in Nat
      /\ used \in [controls : Nat, faults : Nat, stops : Nat] /\ used.controls < MaxControls
      /\ row.revision \in Nat /\ row.received \in Nat /\ Owed \in Nat
  BY RowKnows, OwedIsNat DEF IInv, RowInv, Counted, OpTyped, UseControl
<1>2. /\ used'.controls = used.controls + 1
      /\ used' \in [controls : Nat, faults : Nat, stops : Nat]
  BY <1>1 DEF UseControl
<1>. QED BY <1>1, <1>2, WriterAssumption DEF Counted

LEMMA RequestControlPreserves ==
  ASSUME IInv, NEW kind \in Kinds, NEW root \in Roots \cup {NoRoot},
         kind = "complete" => root \in Roots, RequestControl(kind, root)
  PROVE  IInv'
<1>. DEFINE o == [NoOp EXCEPT !.kind = kind, !.root = root]
<1>1. /\ UNCHANGED <<row, part, queueVars, op, direct, acked>>
      /\ tail' = Append(tail, o) /\ UseControl
  BY DEF RequestControl
<1>2. tail \in Seq(Waiting)
  BY DEF IInv, RowInv, OpTyped
<1>3. o \in Waiting
  BY DEF NoOp, Waiting
<1>. HIDE DEF o
<1>4. tail' \in Seq(Waiting) /\ Len(tail') = Len(tail) + 1 /\ Len(tail) \in Nat
  BY <1>1, <1>2, <1>3
<1>5. Running' = Running /\ Asked' = Asked /\ Running \in {0, 1} /\ Asked \in {0, 1}
  BY <1>1 DEF Running, Asked
<1>6. Owed' \in Nat /\ Owed' <= Owed + 1
  BY <1>4, <1>5 DEF Owed
<1>7. OpTyped' /\ Counted'
  BY <1>1, <1>4, <1>6, Requested DEF IInv, RowInv, OpTyped
<1>8. SealHolds' /\ CancelWaits'
  BY <1>1, Frames DEF queueVars
<1>. QED BY <1>1, <1>7, <1>8, OperationsOnly

LEMMA RequestDirectCompletionPreserves ==
  ASSUME IInv, NEW root \in Roots, RequestDirectCompletion(root)
  PROVE  IInv'
<1>1. /\ UNCHANGED <<row, part, queueVars, op, tail, acked>>
      /\ direct' = root /\ UseControl
  BY DEF RequestDirectCompletion
<1>2. Len(tail) \in Nat
  BY DEF IInv, RowInv, OpTyped
<1>3. Running' = Running /\ Running \in {0, 1} /\ Asked' \in {0, 1} /\ Asked \in {0, 1}
  BY <1>1 DEF Running, Asked
<1>4. Owed' \in Nat /\ Owed' <= Owed + 1
  BY <1>1, <1>2, <1>3 DEF Owed
<1>5. OpTyped' /\ Counted'
  BY <1>1, <1>4, Requested DEF IInv, RowInv, OpTyped
<1>6. SealHolds' /\ CancelWaits'
  BY <1>1, Frames DEF queueVars
<1>. QED BY <1>1, <1>5, <1>6, OperationsOnly

LEMMA PauseFlushedPreserves == ASSUME IInv, PauseFlushed PROVE IInv'
<1>1. /\ UNCHANGED <<row, part, queueVars, tail, direct, acked, used>>
      /\ op.kind = "pause" /\ op.step = "flush" /\ op' = [op EXCEPT !.step = "persist"]
      /\ flush.phase = "idle" /\ OpTyped
  BY DEF PauseFlushed, IInv, RowInv
<1>2. /\ DOMAIN op' = {"kind", "step", "sealed", "root", "error"}
      /\ op'.kind = "pause" /\ op'.step = "persist"
  BY <1>1 DEF OpTyped
<1>3. OpTyped'
  BY <1>1, <1>2 DEF OpTyped, Kinds
<1>4. Counted'
  <2>1. Running' = Running
    BY <1>1, <1>2 DEF Running
  <2>2. Owed' = Owed /\ Owed \in Nat
    BY <1>1, <2>1, OwedIsNat DEF Owed, Asked
  <2>. QED BY <1>1, <2>2, CountKept
<1>5. SealHolds' /\ CancelWaits'
  BY <1>1, <1>2 DEF SealHolds, CancelWaits, queueVars
<1>. QED BY <1>1, <1>3, <1>4, <1>5, OperationsOnly

LEMMA CompletionFallsBackPreserves == ASSUME IInv, CompletionFallsBack PROVE IInv'
<1>1. /\ UNCHANGED <<row, part, queueVars, acked, used>>
      /\ tail # <<>> /\ Head(tail).kind = "complete" /\ tail' = Tail(tail) /\ op.kind = "none"
      /\ direct' = Head(tail).root /\ op' = NoOp
  BY DEF CompletionFallsBack, Starts
<1>2. tail \in Seq(Waiting)
  BY DEF IInv, RowInv, OpTyped
<1>3. /\ Head(tail) \in Waiting /\ tail' \in Seq(Waiting)
      /\ Len(tail) \in Nat /\ Len(tail') = Len(tail) - 1 /\ Len(tail') \in Nat
  BY <1>1, <1>2, HeadTailProperties, LenProperties
<1>4. direct' \in Roots
  BY <1>1, <1>3 DEF Waiting
<1>5. OpTyped'
  BY <1>1, <1>3, <1>4 DEF IInv, RowInv, OpTyped, NoOp, Kinds
<1>6. Counted'
  <2>1. Running \in {0, 1} /\ Running' = 0 /\ Asked \in {0, 1} /\ Asked' \in {0, 1}
    BY <1>1 DEF Running, Asked, NoOp
  <2>2. Owed' \in Nat /\ Owed' <= Owed
    BY <1>3, <2>1 DEF Owed
  <2>. QED BY <1>1, <2>2, CountKept
<1>7. SealHolds' /\ CancelWaits'
  BY <1>1 DEF IInv, QueueInv, SealHolds, CancelWaits, NoOp, queueVars
<1>. QED BY <1>1, <1>5, <1>6, <1>7, OperationsOnly

LEMMA DrainedPreserves == ASSUME IInv, Drained PROVE IInv'
<1>1. /\ UNCHANGED <<row, part, job, byKey, pending, flush, tail, direct, acked, used>>
      /\ op.kind = "complete" /\ op.step = "drain" /\ op' = [op EXCEPT !.step = "persist"]
      /\ flush.phase = "idle" /\ pending = <<>> /\ queue' = [queue EXCEPT !.draining = FALSE]
      /\ OpTyped
  BY DEF Drained, IInv, RowInv
<1>2. /\ DOMAIN op' = {"kind", "step", "sealed", "root", "error"}
      /\ op'.kind = "complete" /\ op'.step = "persist" /\ op'.root = op.root
  BY <1>1 DEF OpTyped
<1>3. /\ IsQueue(queue') /\ queue'.cancelled = queue.cancelled
      /\ queue'.stopping = queue.stopping /\ queue'.barrier = queue.barrier
  BY <1>1 DEF IInv, QueueInv, QueueTyped, IsQueue
<1>4. OpTyped'
  BY <1>1, <1>2 DEF OpTyped, Kinds
<1>5. Counted'
  <2>1. Running' = Running
    BY <1>1, <1>2 DEF Running
  <2>2. Owed' = Owed /\ Owed \in Nat
    BY <1>1, <2>1, OwedIsNat DEF Owed, Asked
  <2>. QED BY <1>1, <2>2, CountKept
<1>6. SealHolds' /\ CancelWaits'
  BY <1>1, <1>2, <1>3 DEF IInv, QueueInv, SealHolds, CancelWaits
<1>7. RowInv'
  BY <1>1, <1>4, <1>5, Frames DEF RowInv
<1>. QED BY <1>1, <1>3, <1>6, <1>7, Rescheduling DEF IInv, QueueInv

\* A revision taken is one that was owed.
LEMMA Paid ==
  ASSUME IInv, Row!IInv', row'.received = row.received,
         row'.revision \in {row.revision, row.revision + 1},
         Owed' \in Nat, Owed = Owed' + 1, used'.controls = used.controls
  PROVE  Counted'
<1>1. /\ row.revision + Owed <= used.controls + row.received /\ used.controls \in Nat
      /\ row.revision \in Nat /\ row.received \in Nat
  BY RowKnows DEF IInv, RowInv, Counted, OpTyped
<1>. QED BY <1>1 DEF Counted

LEMMA PersistPreserves == ASSUME IInv, Persist PROVE IInv'
<1>1. /\ UNCHANGED <<part, queueVars, tail, direct, acked>> /\ op.step = "persist"
      /\ OpTyped /\ op.kind \in Kinds /\ Row!IInv
  BY DEF Persist, IInv, RowInv, OpTyped
<1>2. used'.controls = used.controls /\ used' \in [controls : Nat, faults : Nat, stops : Nat]
  BY <1>1 DEF Persist, Fault, OpTyped
<1>3. \E e : /\ op' = [op EXCEPT !.step = "reply", !.error = e]
             /\ \/ row' = Transaction(op).row /\ e = Transaction(op).error
                \/ row' = row
  BY <1>1 DEF Persist
<1>4. /\ RowTouched /\ (Row!Transactions \/ row' = row)
      /\ row'.status = "cancelled" /\ row.status # "cancelled" =>
           op.kind = "cancel" /\ op'.error = "none"
  <2>1. CASE row' = Transaction(op).row /\ op'.error = Transaction(op).error
    BY <1>1, <2>1, ControlTouches
  <2>2. CASE row' = row
    BY <2>2, <1>1, RowKnows DEF RowTouched
  <2>. QED BY <1>1, <1>3, <2>1, <2>2 DEF OpTyped
<1>5. /\ DOMAIN op' = {"kind", "step", "sealed", "root", "error"}
      /\ op'.kind = op.kind /\ op'.step = "reply" /\ op'.root = op.root
  BY <1>1, <1>3 DEF OpTyped
<1>6. OpTyped'
  BY <1>1, <1>2, <1>5 DEF OpTyped
<1>7. Row!IInv' /\ Counted'
  <2>1. Row!IInv'
    BY <1>1, <1>4, RowStep
  <2>2. Running = 1 /\ Running' = 0 /\ Asked' = Asked /\ Asked \in {0, 1}
    BY <1>1, <1>5 DEF Running, Asked
  <2>3. Len(tail) \in Nat /\ tail' = tail
    BY <1>1 DEF OpTyped
  <2>4. Owed' \in Nat /\ Owed = Owed' + 1
    BY <2>2, <2>3 DEF Owed
  <2>. QED BY <1>2, <1>4, <2>1, <2>4, Paid DEF RowTouched
<1>8. SealHolds'
  BY <1>1, <1>5 DEF IInv, QueueInv, SealHolds, queueVars
<1>9. CancelWaits'
  BY <1>1, <1>4, <1>5 DEF IInv, QueueInv, CancelWaits, queueVars
<1>10. CASE Row!Transactions
  BY <1>1, <1>4, <1>6, <1>7, <1>8, <1>9, <1>10, RowTouchedPreserves DEF IInv, RowInv, QueueInv
<1>11. CASE row' = row
  BY <1>1, <1>6, <1>7, <1>8, <1>9, <1>11, OperationsOnly
<1>. QED BY <1>4, <1>10, <1>11

LEMMA PersistDirectPreserves == ASSUME IInv, PersistDirect PROVE IInv'
<1>1. /\ UNCHANGED <<part, queueVars, op, tail, acked>>
      /\ direct \in Roots /\ direct # NoRoot /\ direct' = NoRoot
      /\ OpTyped /\ Row!IInv
      /\ row' = BeginCompletion(row, Sender, direct).row \/ row' = row
  BY DEF PersistDirect, IInv, RowInv, OpTyped
<1>2. used'.controls = used.controls /\ used' \in [controls : Nat, faults : Nat, stops : Nat]
  BY <1>1 DEF PersistDirect, Fault, OpTyped
<1>3. /\ RowTouched /\ (Row!Transactions \/ row' = row)
      /\ row'.status = "cancelled" => row.status = "cancelled"
  BY <1>1, CompletionTouches, RowKnows DEF RowTouched
<1>4. OpTyped'
  BY <1>1, <1>2 DEF OpTyped
<1>5. Row!IInv' /\ Counted'
  <2>1. Row!IInv'
    BY <1>1, <1>3, RowStep
  <2>2. Asked = 1 /\ Asked' = 0 /\ Running' = Running /\ Running \in {0, 1}
    BY <1>1 DEF Running, Asked
  <2>3. Len(tail) \in Nat /\ tail' = tail
    BY <1>1 DEF OpTyped
  <2>4. Owed' \in Nat /\ Owed = Owed' + 1
    BY <2>2, <2>3 DEF Owed
  <2>. QED BY <1>2, <1>3, <2>1, <2>4, Paid DEF RowTouched
<1>6. SealHolds' /\ CancelWaits'
  BY <1>1, <1>3 DEF IInv, QueueInv, SealHolds, CancelWaits, queueVars
<1>7. CASE Row!Transactions
  BY <1>1, <1>3, <1>4, <1>5, <1>6, <1>7, RowTouchedPreserves DEF IInv, RowInv, QueueInv
<1>8. CASE row' = row
  BY <1>1, <1>4, <1>5, <1>6, <1>8, OperationsOnly
<1>. QED BY <1>3, <1>7, <1>8

LEMMA EndOperationPreserves == ASSUME IInv, EndOperation PROVE IInv'
<1>1. /\ UNCHANGED <<row, part, queueVars, tail, direct, acked, used>> /\ op' = NoOp
      /\ op.kind # "cancel" \/ op.error # "none"
  BY DEF EndOperation, Replied
<1>2. CancelWaits'
  BY <1>1 DEF IInv, QueueInv, CancelWaits, queueVars
<1>. QED BY <1>1, <1>2, Ends, OperationsOnly

LEMMA EndResumePreserves == ASSUME IInv, EndResume PROVE IInv'
<1>. DEFINE q == [queue EXCEPT !.paused = FALSE]
            timed == DiscardIf(flush.phase = "idle" /\ CanBeDiscarded(q),
                               EnsureTimer(q, pending), byKey, pending)
<1>1. /\ UNCHANGED <<row, part, job, byKey, tail, direct, acked, used>>
      /\ op' = NoOp /\ op.kind = "resume"
      /\ \/ UNCHANGED <<queue, pending, flush>>
         \/ RequestFlush(q, pending)
         \/ Hold(timed, pending) /\ UNCHANGED flush
  BY DEF EndResume, Replied
<1>2. /\ IsQueue(q) /\ q.cancelled = queue.cancelled /\ q.stopping = queue.stopping
      /\ IsQueue(queue) /\ pending \in Seq(Nat)
  BY DEF IInv, QueueInv, QueueTyped, IsQueue
<1>. HIDE DEF q
<1>3. IsQueue(timed) /\ (timed.cancelled => queue.cancelled) /\ (timed.stopping => queue.stopping)
  BY <1>2, Timing DEF DiscardIf, FreshQueue, IsQueue
<1>. HIDE DEF timed
<1>4. /\ IsQueue(queue')
      /\ queue'.cancelled => queue.cancelled
      /\ queue'.stopping => queue.stopping
      /\ \/ flush.phase = "idle" /\ Takes(pending)
         \/ flush' = flush /\ pending' = pending
  BY <1>1, <1>2, <1>3, Requesting DEF Hold, Fenced
<1>5. CancelWaits'
  BY <1>1, <1>4 DEF IInv, QueueInv, CancelWaits, Takes
<1>6. RowInv' /\ SealHolds'
  BY <1>1, Ends, Frames DEF RowInv
<1>. QED BY <1>1, <1>4, <1>5, <1>6, Rescheduling DEF IInv, QueueInv

LEMMA CancelPersistedPreserves == ASSUME IInv, CancelPersisted PROVE IInv'
<1>1. /\ UNCHANGED <<row, part, flush, tail, direct, acked, used>>
      /\ op.kind = "cancel" /\ op.step = "reply" /\ op' = [op EXCEPT !.step = "flush"]
      /\ op.error = "none"
      /\ \/ CancelQueue(queue)
         \/ UNCHANGED <<job, queue, byKey, pending>>
      /\ OpTyped /\ IsQueue(queue) /\ QueueTyped /\ KeysKnown
  BY DEF CancelPersisted, Replied, IInv, RowInv, QueueInv, QueueTyped
<1>2. /\ DOMAIN op' = {"kind", "step", "sealed", "root", "error"}
      /\ op'.kind = "cancel" /\ op'.step = "flush" /\ op'.error = "none"
  BY <1>1 DEF OpTyped
<1>3. \/ UNCHANGED <<job, queue, byKey, pending>>
      \/ /\ IsQueue(queue') /\ pending' = <<>> /\ SettledJobs(Registered)
         /\ \A c \in Chunks : byKey'[c] = NoJob
  BY <1>1, Cancelling
<1>4. OpTyped'
  BY <1>1, <1>2 DEF OpTyped, Kinds
<1>5. Counted'
  <2>1. Running = 0 /\ Running' = 0
    BY <1>1, <1>2 DEF Running
  <2>2. Owed' = Owed /\ Owed \in Nat
    BY <1>1, <2>1, OwedIsNat DEF Owed, Asked
  <2>. QED BY <1>1, <2>2, CountKept
<1>6. SealHolds' /\ CancelWaits'
  BY <1>1, <1>2 DEF SealHolds, CancelWaits
<1>7. RowInv'
  BY <1>1, <1>4, <1>5, Frames DEF RowInv
<1>8. /\ QueueTyped' /\ KeysKnown' /\ FlushTyped' /\ FlushKnows'
      /\ JobsHeld' /\ ClosedIsEmpty'
  BY <1>1, <1>3, Frames, Emptying
<1>. QED BY <1>6, <1>7, <1>8 DEF IInv, QueueInv

\* The operation ends, and an idle queue may be dropped or reopened.
LEMMA EndAndDiscard ==
  ASSUME IInv, op' = NoOp, IsQueue(queue'),
         queue'.cancelled => queue.cancelled, queue'.stopping => queue.stopping,
         UNCHANGED <<row, part, job, byKey, pending, flush, tail, direct, acked, used>>,
         op.kind # "cancel" \/ flush.phase = "idle"
  PROVE  IInv'
<1>1. CancelWaits'
  BY DEF IInv, QueueInv, CancelWaits
<1>2. RowInv' /\ SealHolds'
  BY Ends, Frames DEF RowInv
<1>. QED BY <1>1, <1>2, Rescheduling DEF IInv, QueueInv

LEMMA EndCancelPreserves == ASSUME IInv, EndCancel PROVE IInv'
<1>1. /\ UNCHANGED <<row, part, job, byKey, pending, flush, tail, direct, acked, used>>
      /\ op' = NoOp /\ flush.phase = "idle" /\ queue' \in {queue, FreshQueue}
      /\ IsQueue(queue)
  BY DEF EndCancel, DiscardIf, IInv, QueueInv, QueueTyped
<1>2. IsQueue(FreshQueue) /\ ~FreshQueue.cancelled /\ ~FreshQueue.stopping
  BY DEF FreshQueue, IsQueue
<1>. QED BY <1>1, <1>2, EndAndDiscard

LEMMA EndCompletePreserves == ASSUME IInv, EndComplete PROVE IInv'
<1>. DEFINE open == [queue EXCEPT !.barrier = FALSE]
<1>1. /\ UNCHANGED <<row, part, job, byKey, pending, flush, tail, direct, acked, used>>
      /\ op' = NoOp /\ op.kind = "complete" /\ queue' \in {queue, open, FreshQueue}
      /\ IsQueue(queue)
  BY DEF EndComplete, Replied, DiscardIf, IInv, QueueInv, QueueTyped
<1>2. IsQueue(FreshQueue) /\ ~FreshQueue.cancelled /\ ~FreshQueue.stopping
  BY DEF FreshQueue, IsQueue
<1>3. IsQueue(open) /\ open.cancelled = queue.cancelled /\ open.stopping = queue.stopping
  BY <1>1 DEF IsQueue
<1>. HIDE DEF open
<1>. QED BY <1>1, <1>2, <1>3, EndAndDiscard

-----------------------------------------------------------------------------
(* The process. *)

LEMMA Stopping ==
  ASSUME IInv, UseStop
  PROVE  used'.controls = used.controls /\ used' \in [controls : Nat, faults : Nat, stops : Nat]
BY DEF IInv, RowInv, OpTyped, UseStop

LEMMA ClosePreserves == ASSUME IInv, Close PROVE IInv'
<1>1. /\ UNCHANGED <<row, part, flush, op, tail, direct, acked>>
      /\ \/ /\ queue' = [Forget(queue, Registered) EXCEPT !.stopping = TRUE, !.timer = FALSE]
            /\ pending' = <<>> /\ Settle(Registered, "TRANSFER_STORAGE_CLOSED")
         \/ UNCHANGED <<job, queue, byKey, pending>>
      /\ IsQueue(queue) /\ QueueTyped /\ KeysKnown
  BY DEF Close, Hold, controlVars, IInv, QueueInv, QueueTyped
<1>2. used'.controls = used.controls /\ used' \in [controls : Nat, faults : Nat, stops : Nat]
  BY Stopping DEF Close
<1>3. RowInv'
  BY <1>1, <1>2, Frames DEF IInv, RowInv, OpTyped, Counted, Owed, Running, Asked
<1>4. CancelWaits'
  BY <1>1, Frames
<1>5. CASE UNCHANGED <<job, queue, byKey, pending>>
  BY <1>1, <1>3, <1>5, Frames DEF IInv, QueueInv
<1>6. CASE /\ queue' = [Forget(queue, Registered) EXCEPT !.stopping = TRUE, !.timer = FALSE]
           /\ pending' = <<>> /\ Settle(Registered, "TRANSFER_STORAGE_CLOSED")
  <2>1. IsQueue(queue') /\ queue'.barrier = queue.barrier
    BY <1>1, <1>6, Forgetting DEF IsQueue
  <2>2. "TRANSFER_STORAGE_CLOSED" \in Outcomes
    BY DEF Outcomes
  <2>3. SettledJobs(Registered) /\ \A c \in Chunks : byKey'[c] = NoJob
    BY <1>1, <1>6, <2>2, Settling, SettlingAll
  <2>4. SealHolds'
    BY <1>1, <1>6, <2>1 DEF IInv, QueueInv, SealHolds
  <2>. QED BY <1>1, <1>3, <1>4, <1>6, <2>1, <2>3, <2>4, Emptying DEF IInv, QueueInv
<1>. QED BY <1>1, <1>5, <1>6

LEMMA DownPreserves ==
  ASSUME IInv, Down, used'.controls = used.controls,
         used' \in [controls : Nat, faults : Nat, stops : Nat]
  PROVE  IInv'
<1>1. UNCHANGED <<row, part, acked>>
  BY DEF Down
<1>2. OpTyped'
  BY <1>1 DEF IInv, RowInv, OpTyped, Down, NoOp, Kinds
<1>3. Counted'
  <2>1. Owed' = 0
    BY DEF Owed, Running, Asked, Down, NoOp
  <2>. QED BY <1>1, <2>1, OwedIsNat, CountKept DEF IInv, RowInv
<1>4. QueueTyped' /\ KeysKnown' /\ ClosedIsEmpty'
  BY DEF Down, QueueTyped, KeysKnown, IsQueue, FreshQueue, Waits, ClosedIsEmpty
<1>5. FlushTyped' /\ FlushKnows' /\ CancelWaits'
  BY DEF Down, FlushTyped, IdleFlush, Flushes, Errors, FlushKnows, CancelWaits
<1>6. JobsHeld' /\ SealHolds'
  BY DEF Down, JobsHeld, SealHolds, NoOp
<1>. QED BY <1>1, <1>2, <1>3, <1>4, <1>5, <1>6, Frames DEF IInv, RowInv, QueueInv

\* A step that leaves everything but the process and what it has read.
LEMMA NothingPreserves ==
  ASSUME IInv, UNCHANGED <<row, part, queueVars, controlVars, acked, used>>
  PROVE  IInv'
BY Frames DEF IInv, RowInv, QueueInv, queueVars, controlVars

LEMMA EnvironmentPreserves == ASSUME IInv, Environment PROVE IInv'
<1>1. ASSUME NEW m \in Manifests, CreateTransfer(m) PROVE IInv'
  BY <1>1, CreateTransferPreserves
<1>2. ASSUME NEW c \in Chunks, NEW d \in Digests, EnqueueRetry(c, d) \/ EnqueueChunk(c, d)
      PROVE  IInv'
  BY <1>2, EnqueueRetryPreserves, EnqueueChunkPreserves
<1>3. ASSUME NEW kind \in Kinds \ {"complete"}, RequestControl(kind, NoRoot) PROVE IInv'
  BY <1>3, RequestControlPreserves
<1>4. ASSUME NEW root \in Roots,
             RequestControl("complete", root) \/ RequestDirectCompletion(root)
      PROVE  IInv'
  BY <1>4, RequestControlPreserves, RequestDirectCompletionPreserves DEF Kinds
<1>5. CASE Close
  BY <1>5, ClosePreserves
<1>6. CASE Crash
  BY <1>6, Stopping, DownPreserves DEF Crash
<1>7. CASE Restart
  BY <1>7, NothingPreserves DEF Restart
<1>. QED BY <1>1, <1>2, <1>3, <1>4, <1>5, <1>6, <1>7 DEF Environment

LEMMA ClosedPreserves == ASSUME IInv, Closed PROVE IInv'
<1>1. used' = used /\ used \in [controls : Nat, faults : Nat, stops : Nat]
  BY DEF Closed, IInv, RowInv, OpTyped
<1>. QED BY <1>1, DownPreserves DEF Closed

LEMMA NextPreserves == ASSUME IInv, [Next]_vars PROVE IInv'
<1>1. CASE Environment
  BY <1>1, EnvironmentPreserves
<1>2. CASE TimerFires
  BY <1>2, TimerFiresPreserves
<1>3. CASE Flushing
  BY <1>3, PreflightPreserves, PreflightedPreserves, WrittenPreserves, WriteFailsPreserves,
     CommitPreserves, CommittedPreserves DEF Flushing
<1>4. CASE Controlling
  BY <1>4, BeginPausePreserves, PauseFlushedPreserves, EndOperationPreserves,
     BeginResumePreserves, EndResumePreserves, BeginCancelPreserves, CancelPersistedPreserves,
     EndCancelPreserves, BeginDrainPreserves, CompletionFallsBackPreserves, DrainedPreserves,
     EndCompletePreserves, PersistPreserves, PersistDirectPreserves DEF Controlling
<1>5. CASE Closed
  BY <1>5, ClosedPreserves
<1>6. CASE UNCHANGED vars
  BY <1>6, NothingPreserves DEF vars, queueVars, controlVars
<1>. QED BY <1>1, <1>2, <1>3, <1>4, <1>5, <1>6 DEF Next

(* The invariant holds in every behaviour of the queue.                         *)
THEOREM WriterInvariant == Spec => []IInv
<1>1. Init => IInv
  BY InitInv
<1>2. IInv /\ [Next]_vars => IInv'
  BY NextPreserves
<1>. QED BY <1>1, <1>2, PTL DEF Spec

-----------------------------------------------------------------------------
(* What the queue promises. *)

(* A stored chunk is on the disk (writeBatchToStaging before commitChunkBatch), *)
(* for every interleaving with retries, conflicts, failures and crashes.        *)
THEOREM DurableSafe == Spec => []DurableIsOnDisk
<1>1. IInv => DurableIsOnDisk
  BY DEF IInv, RowInv
<1>. QED BY <1>1, WriterInvariant, PTL

(* An acknowledged chunk stays stored with its content (resolveAcknowledgements *)
(* runs after the commit), across crashes and restarts.                         *)
THEOREM AckedSafe == Spec => []AckedIsDurable
<1>1. IInv => AckedIsDurable
  BY DEF IInv, RowInv
<1>. QED BY <1>1, WriterInvariant, PTL

(* When runCompletion posts its transaction, every accepted chunk has been      *)
(* committed or rejected, but for the orphans.                                  *)
THEOREM DrainedSafe == Spec => []SealedQueueIsDrained
<1>1. IInv => SealedQueueIsDrained
  <2>. SUFFICES ASSUME IInv, op.kind = "complete", op.step \in {"persist", "reply"}
                PROVE  flush.phase = "idle" /\ \A j \in DOMAIN job : Queued(j) => Orphaned(j)
    BY DEF SealedQueueIsDrained
  <2>1. pending = <<>> /\ flush.phase = "idle" /\ Held = {}
    BY DEF IInv, QueueInv, SealHolds, FlushTyped, Held
  <2>2. DOMAIN job = 1..Len(job) /\ \A j : ~Waits(pending, j)
    BY <2>1 DEF IInv, QueueInv, QueueTyped, Waits
  <2>. QED BY <2>1, <2>2 DEF IInv, QueueInv, JobsHeld
<1>. QED BY <1>1, WriterInvariant, PTL

(* No flush writes to the files of a transfer that is sealed, or that a cancel  *)
(* which has returned has ended.                                                *)
THEOREM EndedSafe == Spec => []EndedIsNotWritten
<1>1. IInv => EndedIsNotWritten
  <2>. SUFFICES ASSUME IInv, flush.phase = "writing"
                PROVE  /\ row.status \notin {"completing", "completed", "failed"}
                       /\ row.status = "cancelled" => op.kind = "cancel"
    BY DEF EndedIsNotWritten
  <2>1. PICK j \in flush.new : TRUE
    BY DEF IInv, QueueInv, FlushKnows
  <2>2. job[j].chunk \in Chunks /\ row.chunk[job[j].chunk] = NoDigest
    BY JobTyped DEF IInv, QueueInv, FlushKnows, FlushTyped
  <2>3. Stored(row) # Chunks
    BY <2>2 DEF Stored
  <2>. QED BY <2>3, RowKnows DEF IInv, RowInv, QueueInv, CancelWaits
<1>. QED BY <1>1, WriterInvariant, PTL

\* Every step of the queue is a transaction of the store, or none of its business.
LEMMA StepIsTransaction == ASSUME IInv, [Next]_vars PROVE Row!Transactions \/ row' = row
<1>. USE DEF IInv, RowInv
<1>1. CASE Environment
  BY <1>1, CreateTouches DEF Environment, EnqueueRetry, EnqueueChunk, RequestControl,
     RequestDirectCompletion, Close, Crash, Down, Restart
<1>2. CASE Flushing
  BY <1>2, CommitTouches DEF CommitTouched, QueueInv, Flushing, Preflight, Preflighted, Written,
     WriteFails, Committed
<1>3. CASE Persist
  BY <1>3, ControlTouches DEF Persist, OpTyped
<1>4. CASE PersistDirect
  BY <1>4, CompletionTouches DEF PersistDirect, OpTyped
<1>5. CASE Controlling /\ ~Persist /\ ~PersistDirect
  BY <1>5 DEF Controlling, BeginPause, PauseFlushed, EndOperation, BeginResume, EndResume,
     BeginCancel, CancelPersisted, EndCancel, BeginDrain, CompletionFallsBack, Drained,
     EndComplete
<1>6. CASE TimerFires \/ Closed \/ UNCHANGED vars
  BY <1>6 DEF TimerFires, Closed, Down, vars
<1>. QED BY <1>1, <1>2, <1>3, <1>4, <1>5, <1>6 DEF Next

RevisionBounded == row.revision <= MaxControls + TotalBytes

(* The queue implements the store: whatever it is asked for and whenever it     *)
(* stops, it drives the durable row through the store's transactions, and each  *)
(* revision is owed to a control operation or to a chunk.                       *)
THEOREM QueueImplementsStore == Spec => ImplementsStore
<1>1. Init => Store!Init
  BY StoreIsRow, SameRows DEF Init, Row!Init
<1>2. IInv => RevisionBounded
  BY RowKnows, Received, OwedIsNat, Bound, WriterAssumption
     DEF IInv, RowInv, Counted, OpTyped, RevisionBounded
<1>3. IInv /\ [Next]_vars /\ RevisionBounded' => [Store!Next]_row
  BY StepIsTransaction, StoreIsRow, SameHelpers DEF Store!Next, RevisionBounded
<1>4. Spec => []IInv
  BY WriterInvariant
<1>. QED BY <1>1, <1>2, <1>3, <1>4, PTL DEF Spec, ImplementsStore, Store!Spec
=============================================================================

------------------------ MODULE V3TransferStoreProofs ------------------------
(***************************************************************************)
(* Proofs about V3TransferStore, for every set of chunks, contents and     *)
(* phones.  Every step of the store is one of twelve kinds (StepKinds);    *)
(* the invariant and the action properties are proved kind by kind.        *)
(***************************************************************************)
EXTENDS V3TransferStore, FiniteSetTheorems, TLAPS

(* The kinds of step.  Each names what the transaction knew of the row and    *)
(* the row it left.                                                           *)
Inserted ==
  \E new \in Batches :
    LET inserted == {c \in DOMAIN new : row.chunk[c] = NoDigest}
    IN /\ Writable(row)
       /\ row' = [row EXCEPT !.status = "transferring", !.revision = @ + 1,
                             !.received = @ + Cardinality(inserted),
                             !.chunk = [c \in Chunks |-> IF c \in inserted THEN new[c]
                                                         ELSE row.chunk[c]]]

Created ==
  \E dev \in Devices, m \in Manifests :
    /\ row.status = "absent"
    /\ row' = [row EXCEPT !.status = "negotiating", !.owner = dev, !.manifest = m]

Paused == Writable(row) /\ row' = [row EXCEPT !.status = "paused", !.revision = @ + 1]

Resumed ==
  row.status = "paused" /\ row' = [row EXCEPT !.status = "transferring", !.revision = @ + 1]

Cancelled ==
  /\ row.status \in {"negotiating", "transferring", "paused", "completing"}
  /\ \E phase \in Phases :
       row' = [row EXCEPT !.status = "cancelled", !.failure = "none", !.vphase = phase,
                          !.revision = @ + 1]

\* A completion request reaches the chunks of a writable row or of a failed read.
Reopenable(root) ==
  /\ root \in Roots
  /\ Stored(row) = Chunks
  /\ \/ Writable(row)
     \/ /\ row.status = "failed" /\ row.failure = "PART_READ_ERROR"
        /\ row.requested = root

Sealed ==
  \E root \in Roots : /\ Reopenable(root) /\ root = row.chunk
                      /\ row' = Completing(row, root)

Mismatched ==
  \E root \in Roots : /\ Reopenable(root) /\ root # row.chunk
                      /\ row' = ContentRootMismatch(row, root)

\* The rows that verification reports write.
ProgressRow(bytes, phase) == [row EXCEPT !.vbytes = bytes, !.vphase = phase, !.revision = @ + 1]

ReadRow(status, code, actual) ==
  [row EXCEPT !.status = status, !.failure = code, !.actual = actual,
              !.vbytes = TotalBytes, !.vphase = "done", !.revision = @ + 1]

FailedRow(code, bytes) ==
  [row EXCEPT !.status = "failed", !.failure = code,
              !.vbytes = bytes, !.vphase = "done", !.revision = @ + 1]

Progressed ==
  /\ row.status = "completing"
  /\ \E bytes \in 0..TotalBytes, phase \in Phases :
       row' = ProgressRow(Larger(row.vbytes, bytes), phase)

Completed ==
  /\ row.status = "completing"
  /\ \E actual \in Roots : /\ actual = row.requested /\ actual = row.durable
                           /\ row' = ReadRow("completed", "none", actual)

\* The bytes read back are not the sealed content.
Refuted ==
  /\ row.status = "completing"
  /\ \E actual \in Roots : row' = ReadRow("failed", "PART_CONTENT_ROOT_MISMATCH", actual)

Failed ==
  /\ row.status = "completing"
  /\ \E code \in {"PART_CONTENT_ROOT_MISMATCH", "PART_READ_ERROR"}, bytes \in 0..TotalBytes :
       row' = FailedRow(code, Larger(row.vbytes, bytes))

StepKinds == \/ row' = row
             \/ Created \/ Inserted \/ Paused \/ Resumed \/ Cancelled
             \/ Sealed \/ Mismatched \/ Progressed \/ Completed
             \/ Refuted \/ Failed

-----------------------------------------------------------------------------
(* What the row's status says about the rest of the row. *)
StatusMeans ==
  /\ row.status \in {"absent", "negotiating", "transferring", "paused"} => row.vbytes = 0
  /\ row.status = "completing" => row.requested = row.chunk
  /\ row.status = "failed" /\ row.failure = "PART_READ_ERROR" => row.requested = row.chunk
  /\ row.vbytes <= TotalBytes

IInv == /\ TypeOK
        /\ ReceivedIsStored
        /\ SealedIsComplete
        /\ CompletedIsVerified
        /\ StatusMeans

LEMMA TotalIsNat == TotalBytes \in Nat
  BY RowAssumption, FS_CardinalityType DEF TotalBytes

LEMMA Names ==
  /\ {"absent", "negotiating", "transferring", "paused", "completing",
      "completed", "failed", "cancelled"} \subseteq Statuses
  /\ {"none", "CONTENT_ROOT_MISMATCH", "PART_CONTENT_ROOT_MISMATCH", "PART_READ_ERROR"}
       \subseteq FailureCodes
  /\ {"idle", "done"} \subseteq Phases
  BY DEF Statuses, FailureCodes, Phases

LEMMA NextKinds == TypeOK /\ Transactions => StepKinds
<1> SUFFICES ASSUME TypeOK, Transactions PROVE StepKinds OBVIOUS
<1> USE DEF Tx, Then, Check, Bump
<1>1. ASSUME NEW dev \in Devices, NEW m \in Manifests, Create(dev, m) PROVE StepKinds
  BY <1>1 DEF Create, CreateOrGet, StepKinds, Created
<1>2. ASSUME NEW dev \in Devices, NEW new \in Batches, Commit(dev, new) PROVE StepKinds
  <2> DEFINE inserted == {c \in DOMAIN new : row.chunk[c] = NoDigest}
             filled == [c \in Chunks |-> IF c \in inserted THEN new[c] ELSE row.chunk[c]]
  <2>1. row' = row \/ (/\ WriteError(row, dev) = "none"
                       /\ row' = [row EXCEPT !.status = "transferring", !.chunk = filled,
                                    !.received = @ + Cardinality(inserted),
                                    !.revision = @ + 1])
    BY <1>2 DEF Commit, CommitChunkBatch, TypeOK, Rows
  <2>2. WriteError(row, dev) = "none" => Writable(row)
    BY DEF WriteError
  <2> QED BY <2>1, <2>2 DEF StepKinds, Inserted
<1>3. ASSUME NEW dev \in Devices, NEW root \in Roots, Complete(dev, root) PROVE StepKinds
  <2>1. row' = row \/ (/\ Reopenable(root)
                       /\ row' = IF root = row.chunk THEN Completing(row, root)
                                 ELSE ContentRootMismatch(row, root))
    BY <1>3 DEF Complete, BeginCompletion, Reopenable, OwnerError, Settled, TypeOK, Rows,
                Statuses, Writable
  <2> QED BY <2>1 DEF StepKinds, Sealed, Mismatched
<1>4. ASSUME NEW dev \in Devices, Pause(dev) PROVE StepKinds
  BY <1>4 DEF Pause, PauseTransfer, StepKinds, Paused, Pausable, Writable, OwnerError, TypeOK, Rows
<1>5. ASSUME NEW dev \in Devices, Resume(dev) PROVE StepKinds
  BY <1>5 DEF Resume, ResumeTransfer, StepKinds, Resumed, OwnerError, TypeOK, Rows
<1>6. ASSUME NEW dev \in Devices, Cancel(dev) PROVE StepKinds
  <2>1. row' = row \/ (/\ Cancellable(row.status)
                       /\ row' = [row EXCEPT !.status = "cancelled", !.failure = "none",
                            !.vphase = IF row.status = "completing" THEN "done" ELSE @,
                            !.revision = @ + 1])
    BY <1>6 DEF Cancel, CancelTransfer, TypeOK, Rows
  <2>2. (IF row.status = "completing" THEN "done" ELSE row.vphase) \in Phases
    BY DEF TypeOK, Rows, Phases
  <2> QED BY <2>1, <2>2 DEF StepKinds, Cancelled, Cancellable, Pausable
<1>7. ASSUME NEW attempt \in 0..row.attempt, VerificationReports(attempt) PROVE StepKinds
  <2>1. CASE \E bytes \in 0..TotalBytes, phase \in Phases : Progress(attempt, bytes, phase)
    BY <2>1 DEF Progress, SetVerificationProgress, IsCurrentAttempt, StepKinds, Progressed,
                ProgressRow, TypeOK, Rows
  <2>2. CASE \E actual \in Roots : Verified(attempt, actual)
    BY <2>2 DEF Verified, MarkTransferCompleted, IsCurrentAttempt, StepKinds,
                Completed, Refuted, ReadRow, TypeOK, Rows
  <2>3. CASE \E code \in {"PART_CONTENT_ROOT_MISMATCH", "PART_READ_ERROR"},
                bytes \in 0..TotalBytes : Unverified(attempt, code, bytes)
    BY <2>3 DEF Unverified, MarkTransferFailed, IsCurrentAttempt, StepKinds, Failed,
                FailedRow, TypeOK, Rows
  <2> QED BY <1>7, <2>1, <2>2, <2>3 DEF VerificationReports
<1> QED BY <1>1, <1>2, <1>3, <1>4, <1>5, <1>6, <1>7 DEF Transactions, Requests

-----------------------------------------------------------------------------
(* An insert adds to the byte counter exactly the chunks it makes durable. *)
LEMMA InsertCounts ==
  ASSUME TypeOK, ReceivedIsStored, NEW new \in Batches,
         NEW added, added = {c \in DOMAIN new : row.chunk[c] = NoDigest},
         row'.chunk = [c \in Chunks |-> IF c \in added THEN new[c] ELSE row.chunk[c]],
         row'.received = row.received + Cardinality(added)
  PROVE  row'.received = Cardinality(Stored(row'))
<1>1. DOMAIN new \subseteq Chunks /\ \A c \in DOMAIN new : new[c] \in Digests
  BY DEF Batches
<1>2. Stored(row') = Stored(row) \cup added
  BY <1>1, RowAssumption DEF Stored
<1>3. IsFiniteSet(Stored(row)) /\ IsFiniteSet(added)
  <2>1. Stored(row) \subseteq Chunks /\ added \subseteq Chunks
    BY <1>1 DEF Stored
  <2> QED BY <2>1, RowAssumption, FS_Subset
<1>4. Cardinality(Stored(row) \cap added) = 0
  <2>1. Stored(row) \cap added = {}
    BY DEF Stored
  <2> QED BY <2>1, FS_EmptySet
<1>5. Cardinality(Stored(row)) \in Nat /\ Cardinality(added) \in Nat
  BY <1>3, FS_CardinalityType
<1>6. Cardinality(Stored(row) \cup added) = Cardinality(Stored(row)) + Cardinality(added)
  <2>1. Cardinality(Stored(row) \cup added) =
          Cardinality(Stored(row)) + Cardinality(added) - Cardinality(Stored(row) \cap added)
    BY <1>3, FS_Union, Zenon
  <2> QED BY <1>4, <1>5, <2>1
<1> QED BY <1>2, <1>6 DEF ReceivedIsStored

(* The rows a completion and a verification report write.                       *)
LEMMA SealTyped ==
  ASSUME row \in Rows, NEW root \in Contents
  PROVE  Completing(row, root) \in Rows /\ ContentRootMismatch(row, root) \in Rows
<1>1. row.revision + 1 \in Nat /\ row.attempt + 1 \in Nat /\ row.chunk \in Contents /\ 0 \in Nat
  BY DEF Rows
<1>2. (IF row.status = "failed" THEN row.vbytes ELSE 0) \in Nat
  BY DEF Rows
<1> QED BY <1>1, <1>2, Names, Zenon DEF Rows, Completing, ContentRootMismatch, Bump

LEMMA SealEffect ==
  ASSUME row \in Rows, NEW root
  PROVE  /\ \A next \in {Completing(row, root), ContentRootMismatch(row, root)} :
              /\ next.chunk = row.chunk /\ next.received = row.received
              /\ next.durable = row.chunk /\ next.requested = root
              /\ next.revision = row.revision + 1
         /\ Completing(row, root).status = "completing"
         /\ Completing(row, root).vbytes = IF row.status = "failed" THEN row.vbytes ELSE 0
         /\ ContentRootMismatch(row, root).status = "failed"
         /\ ContentRootMismatch(row, root).failure = "CONTENT_ROOT_MISMATCH"
         /\ ContentRootMismatch(row, root).vbytes = 0
  BY DEF Rows, Completing, ContentRootMismatch, Bump

LEMMA ReportTyped ==
  ASSUME row \in Rows
  PROVE  /\ \A bytes \in Nat, phase \in Phases : ProgressRow(bytes, phase) \in Rows
         /\ \A status \in Statuses, code \in FailureCodes, actual \in Contents :
              ReadRow(status, code, actual) \in Rows
         /\ \A code \in FailureCodes, bytes \in Nat : FailedRow(code, bytes) \in Rows
<1>1. row.revision + 1 \in Nat
  BY DEF Rows
<1> QED BY <1>1, Names, TotalIsNat, Zenon DEF Rows, ProgressRow, ReadRow, FailedRow

LEMMA ReportEffect ==
  ASSUME row \in Rows, NEW bytes, NEW actual, NEW phase, NEW code, NEW status
  PROVE  /\ \A next \in {ProgressRow(bytes, phase), ReadRow(status, code, actual),
                         FailedRow(code, bytes)} :
              /\ next.chunk = row.chunk /\ next.received = row.received
              /\ next.durable = row.durable /\ next.requested = row.requested
              /\ next.revision = row.revision + 1
         /\ ProgressRow(bytes, phase).status = row.status
         /\ ProgressRow(bytes, phase).vbytes = bytes
         /\ ReadRow(status, code, actual).status = status
         /\ ReadRow(status, code, actual).actual = actual
         /\ ReadRow(status, code, actual).vbytes = TotalBytes
         /\ FailedRow(code, bytes).status = "failed"
         /\ FailedRow(code, bytes).vbytes = bytes
  BY DEF Rows, ProgressRow, ReadRow, FailedRow

LEMMA LargerBytes ==
  ASSUME NEW n \in Nat, NEW bytes \in 0..TotalBytes
  PROVE  /\ Larger(n, bytes) \in Nat /\ Larger(n, bytes) >= n
         /\ n <= TotalBytes => Larger(n, bytes) <= TotalBytes
  BY TotalIsNat DEF Larger

(* What every verification report does to the row.                              *)
LEMMA Reports ==
  ASSUME row \in Rows, row.vbytes <= TotalBytes,
         Progressed \/ Completed \/ Refuted \/ Failed
  PROVE  /\ row' \in Rows
         /\ row.status = "completing"
         /\ row'.status \in {"completing", "completed", "failed"}
         /\ row'.status = "completed" => row'.actual = row.requested
         /\ row'.chunk = row.chunk /\ row'.received = row.received
         /\ row'.durable = row.durable /\ row'.requested = row.requested
         /\ row'.revision = row.revision + 1
         /\ row'.vbytes >= row.vbytes /\ row'.vbytes <= TotalBytes
<1>1. row.vbytes \in Nat /\ Roots \subseteq Contents
  BY DEF Rows, Roots, Contents
<1>2. "idle" \in Phases /\ {"completed", "failed"} \subseteq Statuses
      /\ {"none", "PART_CONTENT_ROOT_MISMATCH", "PART_READ_ERROR"} \subseteq FailureCodes
      /\ row.chunk \in Contents
  BY Names DEF Rows
<1>3. CASE Progressed
  <2>1. PICK bytes \in 0..TotalBytes, phase \in Phases :
          row' = ProgressRow(Larger(row.vbytes, bytes), phase)
    BY <1>3 DEF Progressed
  <2>2. row' \in Rows
    <3>1. Larger(row.vbytes, bytes) \in Nat
      BY <1>1, LargerBytes
    <3> QED BY <2>1, <3>1, ReportTyped
  <2>3. /\ row'.chunk = row.chunk /\ row'.received = row.received
        /\ row'.durable = row.durable /\ row'.requested = row.requested
        /\ row'.revision = row.revision + 1 /\ row'.status = row.status
        /\ row'.vbytes = Larger(row.vbytes, bytes)
    BY <2>1, ReportEffect
  <2>4. row'.vbytes >= row.vbytes /\ row'.vbytes <= TotalBytes
    BY <1>1, <2>3, LargerBytes
  <2> QED BY <1>3, <2>2, <2>3, <2>4 DEF Progressed
<1>4. CASE Completed
  <2>1. PICK actual \in Roots : actual = row.requested /\ row' = ReadRow("completed", "none", actual)
    BY <1>4 DEF Completed
  <2>2. row' \in Rows
    <3>1. actual \in Contents /\ "completed" \in Statuses /\ "none" \in FailureCodes
      BY <1>1, <1>2
    <3> QED BY <1>1, <1>2, <2>1, <3>1, ReportTyped
  <2> QED BY <1>1, <1>4, <2>1, <2>2, TotalIsNat, ReportEffect DEF Completed
<1>5. CASE Refuted
  <2>1. PICK actual \in Roots : row' = ReadRow("failed", "PART_CONTENT_ROOT_MISMATCH", actual)
    BY <1>5 DEF Refuted
  <2>2. row' \in Rows
    BY <1>1, <1>2, <2>1, ReportTyped
  <2> QED BY <1>1, <1>5, <2>1, <2>2, TotalIsNat, ReportEffect DEF Refuted
<1>6. CASE Failed
  <2>1. PICK code \in {"PART_CONTENT_ROOT_MISMATCH", "PART_READ_ERROR"}, bytes \in 0..TotalBytes :
          row' = FailedRow(code, Larger(row.vbytes, bytes))
    BY <1>6 DEF Failed
  <2>2. row' \in Rows
    <3>1. code \in FailureCodes /\ Larger(row.vbytes, bytes) \in Nat
      BY <1>1, <1>2, <2>1, LargerBytes
    <3> QED BY <1>2, <2>1, <3>1, ReportTyped
  <2>3. /\ row'.chunk = row.chunk /\ row'.received = row.received
        /\ row'.durable = row.durable /\ row'.requested = row.requested
        /\ row'.revision = row.revision + 1 /\ row'.status = "failed"
        /\ row'.vbytes = Larger(row.vbytes, bytes)
    BY <2>1, ReportEffect
  <2>4. row'.vbytes >= row.vbytes /\ row'.vbytes <= TotalBytes
    BY <1>1, <2>3, LargerBytes
  <2> QED BY <1>6, <2>2, <2>3, <2>4 DEF Failed
<1> QED BY <1>3, <1>4, <1>5, <1>6

LEMMA InitInv == Init => IInv
<1> SUFFICES ASSUME Init PROVE IInv OBVIOUS
<1> USE DEF Init, AbsentRow
<1>1. TypeOK
  BY DEF TypeOK, Rows, Statuses, Contents, FailureCodes, Phases
<1>2. Stored(row) = {}
  BY DEF Stored
<1>3. ReceivedIsStored
  BY <1>2, FS_EmptySet DEF ReceivedIsStored
<1>4. StatusMeans
  BY TotalIsNat DEF StatusMeans
<1> QED BY <1>1, <1>3, <1>4 DEF IInv, SealedIsComplete, CompletedIsVerified

(* Every kind of step but an insert leaves the chunks and the byte counter, so  *)
(* only the status-dependent parts of the invariant are at stake.               *)
LEMMA KindsPreserve == IInv /\ StepKinds => IInv'
<1> SUFFICES ASSUME IInv, StepKinds PROVE IInv' OBVIOUS
<1> USE DEF IInv
<1> row.revision + 1 \in Nat /\ row.attempt + 1 \in Nat
  BY DEF TypeOK, Rows
<1>0. CASE row' = row
  BY <1>0 DEF TypeOK, ReceivedIsStored, SealedIsComplete, CompletedIsVerified, StatusMeans
<1>1. CASE Inserted
  <2> DEFINE added(new) == {c \in DOMAIN new : row.chunk[c] = NoDigest}
             filled(new) == [c \in Chunks |-> IF c \in added(new) THEN new[c] ELSE row.chunk[c]]
  <2>1. PICK new \in Batches :
          /\ Writable(row)
          /\ row' = [row EXCEPT !.status = "transferring", !.revision = @ + 1,
                                !.received = @ + Cardinality(added(new)), !.chunk = filled(new)]
    BY <1>1 DEF Inserted
  <2>2. filled(new) \in Contents
    BY DEF Contents, Batches, TypeOK, Rows
  <2>3. Cardinality(added(new)) \in Nat
    <3>1. added(new) \subseteq Chunks
      BY DEF Batches
    <3> QED BY <3>1, RowAssumption, FS_Subset, FS_CardinalityType
  <2>4. row' \in Rows
    <3>1. row.received + Cardinality(added(new)) \in Nat
      BY <2>3 DEF TypeOK, Rows
    <3> HIDE DEF added, filled
    <3> QED BY <2>1, <2>2, <3>1, Names, Zenon DEF TypeOK, Rows
  <2>5. /\ row'.status = "transferring" /\ row'.vbytes = row.vbytes /\ row'.chunk = filled(new)
        /\ row'.received = row.received + Cardinality(added(new))
    BY <2>1 DEF TypeOK, Rows
  <2>6. row'.received = Cardinality(Stored(row'))
    <3> HIDE DEF added
    <3>1. added(new) = {c \in DOMAIN new : row.chunk[c] = NoDigest}
      BY DEF added
    <3> QED BY <2>5, <3>1, InsertCounts
  <2> QED BY <2>1, <2>4, <2>5, <2>6 DEF TypeOK, ReceivedIsStored, SealedIsComplete, CompletedIsVerified,
              StatusMeans, Writable
<1>2. CASE Created \/ Paused \/ Resumed \/ Cancelled
  <2>1. row' \in Rows
    <3> USE Names DEF TypeOK, Rows
    <3>1. CASE Created BY <3>1, Zenon DEF Created
    <3>2. CASE Paused \/ Resumed BY <3>2, Zenon DEF Paused, Resumed
    <3>3. CASE Cancelled BY <3>3, Zenon DEF Cancelled
    <3> QED BY <1>2, <3>1, <3>2, <3>3
  <2>2. /\ row'.chunk = row.chunk /\ row'.received = row.received /\ row'.vbytes = row.vbytes
        /\ row'.status \in {"negotiating", "transferring", "paused", "cancelled"}
    BY <1>2 DEF Created, Paused, Resumed, Cancelled, TypeOK, Rows
  <2>3. row'.status # "cancelled" => row.status \in {"absent", "negotiating", "transferring", "paused"}
    BY <1>2 DEF Created, Paused, Resumed, Cancelled, TypeOK, Rows, Writable
  <2> QED BY <2>1, <2>2, <2>3 DEF TypeOK, ReceivedIsStored, Stored, SealedIsComplete, CompletedIsVerified,
              StatusMeans
<1>3. CASE Sealed \/ Mismatched
  <2>1. row \in Rows /\ Roots \subseteq Contents
    BY DEF Roots, Contents, TypeOK
  <2>2. PICK root \in Roots :
          /\ Reopenable(root)
          /\ \/ root = row.chunk /\ row' = Completing(row, root)
             \/ row' = ContentRootMismatch(row, root)
    BY <1>3 DEF Sealed, Mismatched
  <2>3. row' \in Rows
    BY <2>1, <2>2, SealTyped
  <2>4. /\ row'.chunk = row.chunk /\ row'.received = row.received /\ row'.durable = row.chunk
        /\ row'.vbytes = 0 \/ row'.vbytes = row.vbytes
        /\ \/ row'.status = "completing" /\ row'.requested = row.chunk
           \/ row'.status = "failed" /\ row'.failure = "CONTENT_ROOT_MISMATCH"
    BY <2>1, <2>2, SealEffect
  <2>5. Stored(row') = Stored(row) /\ Stored(row) = Chunks
    BY <2>2, <2>4 DEF Stored, Reopenable
  <2>6. row'.vbytes <= TotalBytes
    BY <2>4, TotalIsNat DEF StatusMeans
  <2> QED BY <2>3, <2>4, <2>5, <2>6 DEF TypeOK, ReceivedIsStored, SealedIsComplete,
              CompletedIsVerified, StatusMeans
<1>4. CASE Progressed \/ Completed \/ Refuted \/ Failed
  <2>1. row \in Rows /\ row.vbytes <= TotalBytes
    BY DEF TypeOK, StatusMeans
  <2>2. /\ row' \in Rows
        /\ row.status = "completing"
        /\ row'.status \in {"completing", "completed", "failed"}
        /\ row'.status = "completed" => row'.actual = row.requested
        /\ row'.chunk = row.chunk /\ row'.received = row.received
        /\ row'.durable = row.durable /\ row'.requested = row.requested
        /\ row'.vbytes <= TotalBytes
    BY <1>4, <2>1, Reports
  <2>3. Stored(row') = Stored(row)
    BY <2>2 DEF Stored
  <2>4. row.durable = row.chunk /\ row.requested = row.chunk /\ Stored(row) = Chunks
    BY <2>2 DEF SealedIsComplete, StatusMeans
  <2>5. StatusMeans'
    BY <2>2, <2>4 DEF StatusMeans
  <2>6. SealedIsComplete' /\ CompletedIsVerified'
    BY <2>2, <2>3, <2>4 DEF SealedIsComplete, CompletedIsVerified
  <2>7. ReceivedIsStored'
    BY <2>2, <2>3 DEF ReceivedIsStored
  <2> QED BY <2>2, <2>5, <2>6, <2>7 DEF TypeOK
<1> QED BY <1>0, <1>1, <1>2, <1>3, <1>4 DEF StepKinds

LEMMA StepInv == IInv /\ [Next]_row => IInv'
<1> SUFFICES ASSUME IInv, [Next]_row PROVE IInv' OBVIOUS
<1>1. StepKinds
  BY NextKinds DEF Next, IInv, StepKinds
<1> QED BY <1>1, KindsPreserve

LEMMA Invariant == Spec => []IInv
BY InitInv, StepInv, PTL DEF Spec

-----------------------------------------------------------------------------
(* The row always has its type. *)
THEOREM TypeCorrect == Spec => []TypeOK
BY Invariant, PTL DEF IInv

(* The byte counter is exactly what is durable. *)
THEOREM ReceivedSafe == Spec => []ReceivedIsStored
BY Invariant, PTL DEF IInv

(* A sealed transfer is complete, and sealed with the root of its chunks. *)
THEOREM SealedSafe == Spec => []SealedIsComplete
BY Invariant, PTL DEF IInv

(* A completed transfer holds what was asked for, stored and read back. *)
THEOREM CompletedSafe == Spec => []CompletedIsVerified
BY Invariant, PTL DEF IInv

(* The revision names the durable state. *)
THEOREM RevisionSafe == Spec => RevisionNamesState
<1>1. IInv /\ [Next]_row => [row.status # "absent" => row'.revision = row.revision + 1]_row
  <2> SUFFICES ASSUME IInv, Next, row.status # "absent", row' # row
               PROVE row'.revision = row.revision + 1
    OBVIOUS
  <2>1. StepKinds BY NextKinds DEF Next, IInv
  <2>2. row \in Rows /\ row.vbytes <= TotalBytes
    BY DEF IInv, TypeOK, StatusMeans
  <2>3. CASE Inserted \/ Paused \/ Resumed \/ Cancelled
    BY <2>2, <2>3 DEF Inserted, Paused, Resumed, Cancelled, Rows
  <2>4. CASE Sealed \/ Mismatched
    BY <2>2, <2>4, SealEffect DEF Sealed, Mismatched
  <2>5. CASE Progressed \/ Completed \/ Refuted \/ Failed
    BY <2>2, <2>5, Reports
  <2> QED BY <2>1, <2>3, <2>4, <2>5 DEF StepKinds, Created
<1> QED BY <1>1, Invariant, PTL DEF Spec, RevisionNamesState

(* completed and cancelled are final; a failed read alone can be retried. *)
THEOREM TerminalSafe == Spec => TerminalIsFinal
<1> DEFINE P == /\ row.status \notin {"completed", "cancelled"}
                /\ row.status = "failed" =>
                     /\ row.failure = "PART_READ_ERROR"
                     /\ row'.status = "completing"
                     /\ row'.requested = row.requested
<1>1. IInv /\ [Next]_row => [P]_row
  <2> SUFFICES ASSUME IInv, Next, row' # row PROVE P
    OBVIOUS
  <2>1. StepKinds BY NextKinds DEF Next, IInv
  <2>2. CASE Sealed
    <3>1. PICK root \in Roots : Reopenable(root) /\ row' = Completing(row, root)
      BY <2>2 DEF Sealed
    <3>2. row'.status = "completing" /\ row'.requested = root
      BY <3>1, SealEffect DEF IInv, TypeOK
    <3> QED BY <3>1, <3>2 DEF Reopenable, Writable
  <2>3. CASE Mismatched
    <3>1. Writable(row)
      BY <2>3 DEF Mismatched, Reopenable, IInv, StatusMeans
    <3> QED BY <3>1 DEF Writable
  <2> QED BY <2>1, <2>2, <2>3 DEF StepKinds, Created, Inserted, Paused, Resumed, Cancelled,
              Progressed, Completed, Refuted, Failed, Writable
<1> QED BY <1>1, Invariant, PTL DEF Spec, TerminalIsFinal

(* Durable chunks are never replaced, and only a writable transfer gains any. *)
THEOREM ChunksSafe == Spec => DurableChunksAreFinal
<1> DEFINE P == /\ \A c \in Stored(row) : row'.chunk[c] = row.chunk[c]
                /\ row'.chunk # row.chunk => Writable(row) /\ row'.status = "transferring"
<1>1. IInv /\ [Next]_row => [P]_row
  <2> SUFFICES ASSUME IInv, Next, row' # row PROVE P
    OBVIOUS
  <2>1. StepKinds BY NextKinds DEF Next, IInv
  <2>2. CASE Inserted
    BY <2>2 DEF Inserted, Stored, IInv, TypeOK, Rows
  <2>3. row \in Rows /\ row.vbytes <= TotalBytes
    BY DEF IInv, TypeOK, StatusMeans
  <2>4. CASE Created \/ Paused \/ Resumed \/ Cancelled
    BY <2>3, <2>4 DEF Created, Paused, Resumed, Cancelled, Rows
  <2>5. CASE Sealed \/ Mismatched
    BY <2>3, <2>5, SealEffect DEF Sealed, Mismatched
  <2>6. CASE Progressed \/ Completed \/ Refuted \/ Failed
    BY <2>3, <2>6, Reports
  <2> QED BY <2>1, <2>2, <2>4, <2>5, <2>6 DEF StepKinds
<1> QED BY <1>1, Invariant, PTL DEF Spec, DurableChunksAreFinal

(* The verified bytes a peer sees never go back, over retries as well. *)
THEOREM VerifiedBytesSafe == Spec => VerifiedBytesMonotone
<1>1. IInv /\ [Next]_row => [row'.vbytes >= row.vbytes]_row
  <2> SUFFICES ASSUME IInv, Next, row' # row PROVE row'.vbytes >= row.vbytes
    OBVIOUS
  <2>1. StepKinds BY NextKinds DEF Next, IInv
  <2>2. row.vbytes \in Nat /\ row.vbytes <= TotalBytes /\ row \in Rows
    BY DEF IInv, StatusMeans, TypeOK, Rows
  <2>3. CASE Sealed
    <3>1. PICK root \in Roots : Reopenable(root) /\ row' = Completing(row, root)
      BY <2>3 DEF Sealed
    <3>2. row'.vbytes = IF row.status = "failed" THEN row.vbytes ELSE 0
      BY <2>2, <3>1, SealEffect
    <3>3. row.status = "failed" \/ row.vbytes = 0
      BY <3>1 DEF Reopenable, Writable, IInv, StatusMeans
    <3> QED BY <2>2, <3>2, <3>3
  <2>4. CASE Mismatched
    <3>1. PICK root \in Roots : /\ Reopenable(root) /\ root # row.chunk
                                /\ row' = ContentRootMismatch(row, root)
      BY <2>4 DEF Mismatched
    <3>2. row'.vbytes = 0
      BY <2>2, <3>1, SealEffect
    <3>3. row.vbytes = 0
      BY <3>1 DEF Reopenable, Writable, IInv, StatusMeans
    <3> QED BY <3>2, <3>3
  <2>5. CASE Progressed \/ Completed \/ Refuted \/ Failed
    BY <2>2, <2>5, Reports
  <2>6. CASE Created \/ Inserted \/ Paused \/ Resumed \/ Cancelled
    <3>1. row'.vbytes = row.vbytes
      BY <2>2, <2>6 DEF Created, Inserted, Paused, Resumed, Cancelled, Rows
    <3> QED BY <2>2, <3>1
  <2> QED BY <2>1, <2>3, <2>4, <2>5, <2>6 DEF StepKinds
<1> QED BY <1>1, Invariant, PTL DEF Spec, VerifiedBytesMonotone
=============================================================================

---------------------------- MODULE V3ProjectionRow ----------------------------
(***************************************************************************)
(* What the phone knows of one of its uploads, and how an update from the  *)
(* native uploader, from a control or from SQLite is merged into it: the    *)
(* rules of the in-memory store, of the SQLite row, and of the queue of    *)
(* updates between them.  The three rules differ, on purpose.              *)
(*                                                                         *)
(* Bytes, rates and counters are left out: every rule takes their maximum. *)
(* An update from the mobile screens carries the status of the task, so    *)
(* "transferring" stands for negotiating and preparing too.                *)
(***************************************************************************)
EXTENDS Integers, FiniteSets

Statuses == {"queued", "transferring", "recovering", "waiting_for_peer", "paused",
             "completed", "cancelled", "failed"}
Controls == {"pause", "resume", "cancel"}

\* A task of the store and a row of outgoing_transfer_v3_projection: rev is the
\* remoteRevision, opt isOptimistic, pend the pendingOperation, bad says that the
\* failure code is CHUNK_DIGEST_MISMATCH.
Rows == [st: Statuses, rev: Nat, opt: BOOLEAN, pend: Controls \cup {"none"}, bad: BOOLEAN]
NoRow == [st |-> "none", rev |-> 0, opt |-> FALSE, pend |-> "none", bad |-> FALSE]
Queued == [NoRow EXCEPT !.st = "queued"]

NoUpdate == [st |-> "none", rev |-> 0, opt |-> FALSE, pend |-> "keep", settle |-> FALSE,
             bad |-> FALSE, scan |-> FALSE]

IsTerminal(st) == st \in {"cancelled", "completed", "failed"}

\* hasPendingControl, isPendingCancellation, hasAuthoritativeTerminalTransfer
HasPending(r)          == r.opt /\ r.pend # "none"
PendingCancellation(r) == r.st = "cancelled" /\ r.opt /\ r.pend = "cancel" /\ ~r.bad
Settled(r)             == IsTerminal(r.st) /\ ~r.opt

Authoritative(u) == IsTerminal(u.st) /\ ~u.opt
ScanStarts(u)    == u.st = "recovering" /\ u.scan /\ u.opt

\* shouldIgnoreNativeProjection
Ignored(r, u) ==
  \/ r.bad /\ u.st # "failed"
  \/ u.rev < r.rev
  \/ HasPending(r) /\ u.st # "failed" /\ ~Authoritative(u)
  \/ /\ IsTerminal(r.st) /\ u.st # r.st
     /\ ~(r.opt /\ r.pend = "cancel" /\ (Authoritative(u) \/ u.st = "failed" \/ u.settle))

\* mergeNativeProjection
Merged(r, u) ==
  LET ends == u.st = "failed" \/ Authoritative(u)
  IN [st   |-> u.st,
      rev  |-> IF u.rev > r.rev THEN u.rev ELSE r.rev,
      opt  |-> ~ends /\ u.opt,
      pend |-> IF ends \/ u.pend = "none" THEN "none" ELSE r.pend,
      bad  |-> r.bad \/ (u.st = "failed" /\ u.bad)]

\* mergePersistedTask: row p of the disk into the task r
MergedPersisted(r, p) ==
  IF r.bad \/ p.bad
    THEN [r EXCEPT !.st = "failed", !.bad = TRUE, !.opt = FALSE, !.pend = "none",
                   !.rev = IF p.rev > @ THEN p.rev ELSE @]
  ELSE IF ~IsTerminal(r.st) /\ ~HasPending(r) /\ p.rev > r.rev THEN p
  ELSE [r EXCEPT !.rev = IF p.rev > @ THEN p.rev ELSE @]

\* mergeProjectionUpdates: update u comes after c, which waits to be written
Coalesced(c, u) ==
  IF u.rev < c.rev THEN c
  ELSE IF ScanStarts(u) THEN u
  ELSE IF IsTerminal(c.st) /\ u.st # c.st THEN c
  ELSE IF c.settle /\ ~u.settle /\ u.st # "failed" /\ u.rev <= c.rev THEN c
  ELSE u

\* applyProjectionUpdate: the reasons to ignore an update of the row
IgnoredByRow(r, u) ==
  \/ r.bad /\ u.st # "failed"
  \/ u.rev < r.rev
  \/ HasPending(r) /\ u.st # "failed" /\ ~Authoritative(u) /\ ~u.settle
  \/ /\ IsTerminal(r.st) /\ u.st # r.st
     /\ ~(r.opt /\ r.pend # "none" /\ (Authoritative(u) \/ u.st = "failed" \/ u.settle))

Written(r, u) ==
  IF IgnoredByRow(r, u) THEN r
  ELSE [st   |-> u.st,
        rev  |-> IF u.rev > r.rev THEN u.rev ELSE r.rev,
        opt  |-> ~Authoritative(u) /\ u.opt,
        pend |-> IF Authoritative(u) \/ u.st = "failed" \/ u.settle \/ u.pend = "none"
                   THEN "none" ELSE r.pend,
        bad  |-> r.bad \/ (u.st = "failed" /\ u.bad)]

\* beginV3TransferPendingOperation, which refuses a terminal row
Begun(r, operation, status) == [r EXCEPT !.pend = operation, !.opt = TRUE, !.st = status]
Refused(r) == r = NoRow \/ r.bad \/ IsTerminal(r.st)

\* isRecoveryCandidate and the UPDATE of prepareV3OutgoingTransfersForRecovery
Recoverable(r) == ~IsTerminal(r.st) /\ ~(r.st = "paused" /\ ~HasPending(r))

Prepared(r) ==
  IF Recoverable(r) THEN [r EXCEPT !.st = "recovering", !.pend = "none", !.opt = FALSE] ELSE r

\* reconcileV3AgentChunkDigests with evidence that a digest differs
Contradicted(r, revision) ==
  IF revision < r.rev \/ (IsTerminal(r.st) /\ ~r.bad) THEN r
  ELSE [r EXCEPT !.st = "failed", !.bad = TRUE, !.pend = "none", !.opt = FALSE, !.rev = revision]

\* prepareForNativeRecovery: a prepared row p into the task r
Recovering(r, p) ==
  IF PendingCancellation(p) THEN MergedPersisted(r, p)
  ELSE IF r.rev > p.rev \/ Settled(r) THEN r
  ELSE [MergedPersisted(r, p) EXCEPT !.opt = FALSE, !.pend = "none", !.st = "recovering"]
=============================================================================

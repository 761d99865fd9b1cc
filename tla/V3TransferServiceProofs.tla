------------------------ MODULE V3TransferServiceProofs ------------------------
(***************************************************************************)
(* Proofs about V3TransferService, for every transfer, any number of       *)
(* requests in flight and any number of errors and crashes.                *)
(*                                                                         *)
(* The argument is about the port: its answers are handled in the order in *)
(* which the database worker gave them, so an answer tells how the row was *)
(* before the answers behind it.                                           *)
(***************************************************************************)
EXTENDS V3TransferService, FiniteSetTheorems, SequenceTheorems, TLAPS

Sources   == Slots \cup {"verifier", "startup", "nobody"}
CallNames == {"getStatus", "beginCompletion", "getCompletionVerificationPlan",
              "setVerificationProgress", "markTransferCompleted", "markTransferFailed",
              "cancelTransfer", "listCancelledTransferIds"}
Errors    == {"open", "none", "STORAGE_ERROR", "TRANSFER_NOT_FOUND", "TRANSFER_FORBIDDEN",
              "TRANSFER_STATE_INVALID", "TRANSFER_COMPLETION_CONFLICT", "TRANSFER_INCOMPLETE"}
Replies   == [error : Errors, status : Statuses \cup {"none"}, attempt : Nat, flag : BOOLEAN]
Calls     == [from : Sources, call : CallNames, attempt : Nat, root : Contents \cup {NoRoot},
              bytes : Nat, phase : Phases, answer : Replies]
Steps     == {"none", "status", "queued", "sealed", "direct", "plan", "persist", "abort",
              "remove", "restore"}
Requests  == [kind : {"none", "complete", "cancel"}, step : Steps,
              root : Contents \cup {NoRoot}, awaits : SUBSET Nat]
Tasks     == [step : {"reading", "read", "reporting", "terminating"}, sent : Nat,
              actual : Contents \cup {NoRoot}]

RowTyped     == row \in Rows /\ (row.status = "absent" \/ row.owner = Sender) /\ part \in Contents
                /\ (row.status = "completing" => row.attempt # 0)
RequestTyped == request \in [Slots -> Requests]
PortTyped    == port \in Seq(Calls)
TaskTyped    == DOMAIN task \subseteq Nat \ {0} /\ task \in [DOMAIN task -> Tasks] /\ plan \in Nat
FlagsTyped   == up \in BOOLEAN /\ cleanup \in BOOLEAN /\ gone \in BOOLEAN

Typed == RowTyped /\ RequestTyped /\ PortTyped /\ TaskTyped /\ FlagsTyped

-----------------------------------------------------------------------------
(* The inductive invariant. *)

Open(m) == m.answer.error = "open"
Good(m) == m.answer.error = "none"
Mark(m) == m.call \in {"markTransferCompleted", "markTransferFailed"}

\* The call ended attempt a: the row took its verdict.
Verdicts(m, a) == Mark(m) /\ Good(m) /\ m.answer.flag /\ m.answer.attempt = a

\* The attempt is the row's last, not judged yet, or its verdict is behind position i.
Current(a, i) ==
  \/ a = row.attempt /\ row.status \in {"completing", "cancelled"}
  \/ \E j \in DOMAIN port : i < j /\ Verdicts(port[j], a)

\* What an answer says about the call.
AnswerMeans(m) ==
  Good(m) => /\ m.answer.attempt <= row.attempt
             /\ m.answer.status = "cancelled" => row.status = "cancelled"
             /\ m.answer.status = "completing" => m.answer.attempt # 0
             /\ m.call = "cancelTransfer" => m.answer.status = "cancelled"
             /\ m.call = "getCompletionVerificationPlan" /\ m.answer.flag =>
                  m.answer.status = "completing" /\ m.answer.attempt = m.attempt
             /\ Mark(m) /\ m.answer.flag => m.answer.attempt = m.attempt

\* Answers are given in the order of the calls, and tell of a row that never takes an
\* attempt or a cancellation back.
Follows(m, n) ==
  /\ Open(m) => Open(n)
  /\ Good(m) /\ Good(n) => /\ m.answer.attempt <= n.answer.attempt
                           /\ m.answer.status = "cancelled" => n.answer.status = "cancelled"

Answered ==
  /\ \A i \in DOMAIN port : AnswerMeans(port[i])
  /\ \A i, j \in DOMAIN port : i < j => Follows(port[i], port[j])
  /\ \A i \in DOMAIN port :
       Good(port[i]) /\ port[i].answer.status = "completing" => Current(port[i].answer.attempt, i)

\* An attempt the process knows of is no later than any answer still to be handled.
Known(a) == /\ a <= row.attempt /\ Current(a, 0)
            /\ \A i \in DOMAIN port : Good(port[i]) => a <= port[i].answer.attempt

Attempts == (\A a \in DOMAIN task : Known(a)) /\ (plan # 0 => Known(plan))

\* A verdict is posted by the task it ends, once.
Marking ==
  /\ \A i \in DOMAIN port : Mark(port[i]) =>
       /\ port[i].from = "verifier" /\ port[i].attempt \in DOMAIN task
       /\ task[port[i].attempt].step = "reporting"
  /\ \A i, j \in DOMAIN port :
       Mark(port[i]) /\ Mark(port[j]) /\ port[i].attempt = port[j].attempt => i = j

\* A stopped process does nothing, and a started one lists the cancelled transfers first.
Starting ==
  /\ ~up => port = <<>> /\ DOMAIN task = {} /\ ~cleanup /\ \A s \in Slots : request[s] = Idle
  /\ \A i \in DOMAIN port : port[i].from = "startup" => i = 1 /\ DOMAIN task = {}

\* Once a cancel is past the database, no answer can start a verification any more.
Final == gone \/ cleanup \/ \E s \in Slots : request[s].step \in {"abort", "remove"}

Quiet ==
  /\ Final => /\ row.status = "cancelled"
              /\ \A i \in DOMAIN port : Good(port[i]) => port[i].answer.status = "cancelled"
  /\ gone \/ cleanup \/ Removing # {} => DOMAIN task = {}
  /\ \A s \in Slots : request[s].step = "abort" => DOMAIN task \subseteq request[s].awaits
  /\ gone => ~Staged

IInv == Typed /\ StagingKept /\ Answered /\ Attempts /\ Marking /\ Starting /\ Quiet

-----------------------------------------------------------------------------
(* What the transactions do to the row. *)

LEMMA TotalIsNat == TotalBytes \in Nat
  BY RowAssumption, FS_CardinalityType DEF TotalBytes

LEMMA Names ==
  /\ {"absent", "negotiating", "transferring", "paused", "completing",
      "completed", "failed", "cancelled"} \subseteq Statuses
  /\ {"none", "CONTENT_ROOT_MISMATCH", "PART_CONTENT_ROOT_MISMATCH", "PART_READ_ERROR"}
       \subseteq FailureCodes
  /\ {"idle", "reading", "hashing", "done"} \subseteq Phases
  BY DEF Statuses, FailureCodes, Phases

\* A call leaves the content and the owner alone, never takes an attempt or a
\* cancellation back, and ends a completing attempt only with its verdict.
Leads(m, n, error) ==
  /\ n \in Rows /\ n.chunk = row.chunk /\ n.owner = row.owner
  /\ n.status = "absent" <=> row.status = "absent"
  /\ row.attempt <= n.attempt
  /\ n.status = "completing" => row.status = "completing" \/ n.attempt # 0
  /\ row.status = "cancelled" => n = row
  /\ row.status = "completing" =>
       n.attempt = row.attempt /\ (n.status \in {"completing", "cancelled"} \/ (Mark(m) /\ n # row))
  /\ error \in Errors
  /\ Mark(m) => error = "none" /\ (n # row => row.attempt = m.attempt /\ n.attempt = m.attempt)
  /\ m.call = "cancelTransfer" /\ error = "none" => n.status = "cancelled"
  /\ m.call = "getCompletionVerificationPlan" => n = row

LEMMA CancelLeads ==
  ASSUME row \in Rows, NEW m \in Calls, m.call = "cancelTransfer"
  PROVE  Leads(m, CancelTransfer(row, Sender).row, CancelTransfer(row, Sender).error)
<1>. DEFINE tx == CancelTransfer(row, Sender)
            n  == Bump([row EXCEPT !.status = "cancelled", !.failure = "none",
                         !.vphase = IF row.status = "completing" THEN "done" ELSE @])
            q  == IF row.status = "completing" THEN "done" ELSE row.vphase
<1>1. /\ n \in Rows /\ n.chunk = row.chunk /\ n.owner = row.owner /\ n.attempt = row.attempt
      /\ n.status = "cancelled"
  <2>1. row.revision + 1 \in Nat /\ q \in Phases
    BY Names DEF Rows
  <2>2. n = [row EXCEPT !.status = "cancelled", !.failure = "none", !.vphase = q,
                        !.revision = @ + 1]
    BY DEF Rows, Bump
  <2>. HIDE DEF n, q
  <2>3. n \in Rows
    BY <2>1, <2>2, Names, Zenon DEF Rows
  <2>. QED BY <2>2, <2>3 DEF Rows
<1>. HIDE DEF n
<1>2. \/ (tx.row = row /\ tx.error \in Errors /\ (tx.error = "none" => row.status = "cancelled"))
      \/ (tx.row = n /\ tx.error = "none" /\ row.status \notin {"cancelled", "absent"})
  BY DEF CancelTransfer, Tx, Then, Check, OwnerError, Errors, n
<1>3. ~Mark(m)
  BY DEF Mark
<1>4. row.attempt \in Nat
  BY DEF Rows
<1>. QED BY <1>1, <1>2, <1>3, <1>4 DEF Leads, Errors

LEMMA CompletionLeads ==
  ASSUME row \in Rows, NEW m \in Calls, m.call = "beginCompletion"
  PROVE  Leads(m, BeginCompletion(row, Sender, m.root).row, BeginCompletion(row, Sender, m.root).error)
<1>. DEFINE tx == BeginCompletion(row, Sender, m.root)
            a  == Completing(row, m.root)
            b  == ContentRootMismatch(row, m.root)
<1>1. row.revision + 1 \in Nat /\ row.attempt + 1 \in Nat /\ row.chunk \in Contents /\ 0 \in Nat
      /\ (IF row.status = "failed" THEN row.vbytes ELSE 0) \in Nat
      /\ m.root \in Contents \cup {NoRoot}
  BY DEF Rows, Calls
<1>2. a \in Rows /\ b \in Rows
  BY <1>1, Names, Zenon DEF Rows, Completing, ContentRootMismatch, Bump
<1>3. /\ a.chunk = row.chunk /\ a.owner = row.owner /\ a.attempt = row.attempt + 1
      /\ a.status = "completing"
      /\ b.chunk = row.chunk /\ b.owner = row.owner /\ b.attempt = row.attempt
      /\ b.status = "failed"
  BY DEF Rows, Completing, ContentRootMismatch, Bump
<1>. HIDE DEF a, b
<1>4. \/ (tx.row = row /\ tx.error \in Errors)
      \/ /\ tx.row \in {a, b}
         /\ tx.error = "none" /\ row.status \notin {"cancelled", "completing", "absent"}
  BY DEF BeginCompletion, Tx, Then, Check, OwnerError, Settled, Errors, a, b
<1>5. ~Mark(m)
  BY DEF Mark
<1>6. row.attempt \in Nat
  BY DEF Rows
<1>. QED BY <1>1, <1>2, <1>3, <1>4, <1>5, <1>6 DEF Leads, Errors

LEMMA ProgressLeads ==
  ASSUME row \in Rows, NEW m \in Calls, m.call = "setVerificationProgress"
  PROVE  Leads(m, SetVerificationProgress(row, m.attempt, m.bytes, m.phase), "none")
<1>. DEFINE n == Bump([row EXCEPT !.vbytes = Larger(@, m.bytes), !.vphase = m.phase])
<1>1. /\ n \in Rows /\ n.chunk = row.chunk /\ n.owner = row.owner /\ n.attempt = row.attempt
      /\ n.status = row.status
  <2>1. row.revision + 1 \in Nat /\ Larger(row.vbytes, m.bytes) \in Nat /\ m.phase \in Phases
    BY DEF Rows, Larger, Calls
  <2>2. n = [row EXCEPT !.vbytes = Larger(row.vbytes, m.bytes), !.vphase = m.phase,
                        !.revision = @ + 1]
    BY DEF Rows, Bump
  <2>. HIDE DEF n
  <2>3. n \in Rows
    BY <2>1, <2>2, Zenon DEF Rows
  <2>. QED BY <2>2, <2>3 DEF Rows
<1>. HIDE DEF n
<1>2. \/ SetVerificationProgress(row, m.attempt, m.bytes, m.phase) = row
      \/ /\ SetVerificationProgress(row, m.attempt, m.bytes, m.phase) = n
         /\ row.status = "completing"
  BY DEF SetVerificationProgress, IsCurrentAttempt, n
<1>3. ~Mark(m)
  BY DEF Mark
<1>4. row.attempt \in Nat
  BY DEF Rows
<1>. QED BY <1>1, <1>2, <1>3, <1>4 DEF Leads, Errors

LEMMA VerdictLeads ==
  ASSUME row \in Rows, NEW m \in Calls, Mark(m), NEW n,
         \/ n = MarkTransferCompleted(row, m.attempt, m.root)
         \/ n = MarkTransferFailed(row, m.attempt, "PART_READ_ERROR", m.bytes)
  PROVE  Leads(m, n, "none")
<1>1. n = row \/ /\ row.status = "completing" /\ row.attempt = m.attempt
                 /\ n \in Rows /\ n.chunk = row.chunk /\ n.owner = row.owner
                 /\ n.attempt = row.attempt /\ n.revision = row.revision + 1
                 /\ n.status \in {"completed", "failed"}
  <2>1. CASE n = MarkTransferCompleted(row, m.attempt, m.root)
    <3>. DEFINE match  == m.root = row.requested /\ m.root = row.durable
                status == IF match THEN "completed" ELSE "failed"
                code   == IF match THEN "none" ELSE "PART_CONTENT_ROOT_MISMATCH"
    <3>1. /\ status \in {"completed", "failed"} /\ status \in Statuses /\ code \in FailureCodes
          /\ m.root \in Contents \cup {NoRoot} /\ row.revision + 1 \in Nat
      BY Names DEF Calls, Rows
    <3>2. \/ n = row
          \/ /\ row.status = "completing" /\ row.attempt = m.attempt
             /\ n = [row EXCEPT !.status = status, !.failure = code, !.actual = m.root,
                                !.vbytes = TotalBytes, !.vphase = "done", !.revision = @ + 1]
      BY <2>1 DEF MarkTransferCompleted, IsCurrentAttempt, Bump, Rows
    <3>. HIDE DEF status, code
    <3>3. n \in Rows
      BY <3>1, <3>2, Names, TotalIsNat, Zenon DEF Rows
    <3>. QED BY <3>1, <3>2, <3>3 DEF Rows
  <2>2. CASE n = MarkTransferFailed(row, m.attempt, "PART_READ_ERROR", m.bytes)
    <3>. DEFINE bytes == Larger(row.vbytes, m.bytes)
    <3>1. bytes \in Nat /\ row.revision + 1 \in Nat
      BY DEF Calls, Rows, Larger
    <3>2. \/ n = row
          \/ /\ row.status = "completing" /\ row.attempt = m.attempt
             /\ n = [row EXCEPT !.status = "failed", !.failure = "PART_READ_ERROR",
                                !.vbytes = bytes, !.vphase = "done", !.revision = @ + 1]
      BY <2>2 DEF MarkTransferFailed, IsCurrentAttempt, Bump, Rows
    <3>. HIDE DEF bytes
    <3>3. n \in Rows
      BY <3>1, <3>2, Names, Zenon DEF Rows
    <3>. QED BY <3>2, <3>3 DEF Rows
  <2>. QED BY <2>1, <2>2
<1>2. m.call # "cancelTransfer" /\ m.call # "getCompletionVerificationPlan"
  BY DEF Mark
<1>. QED BY <1>1, <1>2 DEF Leads, Rows, Errors

LEMMA EffectLeads ==
  ASSUME row \in Rows, NEW m \in Calls
  PROVE  Leads(m, Effect(m).row, Effect(m).error)
<1>1. CASE m.call = "cancelTransfer"
  BY <1>1, CancelLeads DEF Effect
<1>2. CASE m.call = "beginCompletion"
  BY <1>2, CompletionLeads DEF Effect
<1>3. CASE m.call = "setVerificationProgress"
  BY <1>3, ProgressLeads DEF Effect, Tx
<1>4. CASE m.call = "markTransferCompleted"
  <2>1. Mark(m)
    BY <1>4 DEF Mark
  <2>. QED BY <1>4, <2>1, VerdictLeads DEF Effect, Tx
<1>5. CASE m.call = "markTransferFailed"
  <2>1. Mark(m)
    BY <1>5 DEF Mark
  <2>. QED BY <1>5, <2>1, VerdictLeads DEF Effect, Tx
<1>6. CASE m.call \in {"getStatus", "getCompletionVerificationPlan", "listCancelledTransferIds"}
  <2>1. Effect(m).row = row /\ Effect(m).error \in Errors
    BY <1>6 DEF Effect, Tx, OwnerError, Then, Check, Errors
  <2>2. ~Mark(m) /\ m.call # "cancelTransfer"
    BY <1>6 DEF Mark
  <2>. QED BY <2>1, <2>2 DEF Leads, Rows, Errors
<1>. QED BY <1>1, <1>2, <1>3, <1>4, <1>5, <1>6 DEF Calls, CallNames

-----------------------------------------------------------------------------
(* How the port changes. *)

\* A call goes on, or nobody waits for it any more.
Same(m, n) ==
  \/ m = n
  \/ m = [n EXCEPT !.from = "nobody"] /\ n.from = "verifier" /\ ~Mark(n)

\* q is the port without its first k calls, with open calls behind the others.
Kept(q, k) ==
  /\ q \in Seq(Calls) /\ k \in {0, 1} /\ Len(port) <= Len(q) + k
  /\ \A i \in DOMAIN q : IF i + k <= Len(port) THEN Same(q[i], port[i + k])
                                               ELSE Open(q[i]) /\ q[i].from # "startup"

\* None of the open calls behind the others is a verdict.
NoMarks(q, k) == \A i \in DOMAIN q : i + k > Len(port) => ~Mark(q[i])

LEMMA SameMeans ==
  ASSUME NEW m, NEW n \in Calls, Same(m, n)
  PROVE  /\ m.call = n.call /\ m.attempt = n.attempt /\ m.answer = n.answer
         /\ m.from = n.from \/ (m.from = "nobody" /\ n.from = "verifier" /\ ~Mark(n))
BY DEF Same, Calls

LEMMA Ports ==
  ASSUME NEW S, NEW s \in Seq(S)
  PROVE  Len(s) \in Nat /\ DOMAIN s = 1..Len(s) /\ \A i \in DOMAIN s : s[i] \in S
BY LenProperties, ElementOfSeq

LEMMA Unmoved == ASSUME PortTyped PROVE Kept(port, 0) /\ NoMarks(port, 0)
<1>1. Len(port) \in Nat /\ DOMAIN port = 1..Len(port)
  BY Ports DEF PortTyped
<1>. QED BY <1>1 DEF Kept, NoMarks, PortTyped, Same

LEMMA Posted ==
  ASSUME NEW q, NEW k, Kept(q, k), NEW m \in Calls, Open(m), m.from # "startup"
  PROVE  Kept(Append(q, m), k) /\ (~Mark(m) /\ NoMarks(q, k) => NoMarks(Append(q, m), k))
<1>. DEFINE a == Append(q, m)
<1>1. /\ a \in Seq(Calls) /\ Len(a) = Len(q) + 1
      /\ \A i \in 1..Len(q) : a[i] = q[i]
      /\ a[Len(q) + 1] = m
  BY AppendProperties DEF Kept
<1>2. Len(q) \in Nat /\ DOMAIN q = 1..Len(q) /\ DOMAIN a = 1..Len(a)
  BY <1>1, Ports DEF Kept
<1>. HIDE DEF a
<1>3. \A i \in DOMAIN a : i \in DOMAIN q \/ i = Len(q) + 1
  BY <1>1, <1>2
<1>4. k \in {0, 1} /\ Len(port) <= Len(q) + k
  BY DEF Kept
<1>5. CASE Len(port) \in Nat
  BY <1>1, <1>2, <1>3, <1>4, <1>5 DEF Kept, NoMarks
<1>. QED BY <1>5

LEMMA Taken ==
  ASSUME PortTyped, port # <<>>
  PROVE  /\ Kept(Tail(port), 1) /\ NoMarks(Tail(port), 1)
         /\ Head(port) = port[1] /\ 1 \in DOMAIN port /\ port[1] \in Calls
<1>1. /\ Tail(port) \in Seq(Calls) /\ Len(port) \in Nat \ {0} /\ Len(Tail(port)) = Len(port) - 1
      /\ Head(port) = port[1] /\ Head(port) \in Calls
      /\ \A i \in 1..Len(Tail(port)) : Tail(port)[i] = port[i + 1]
  BY HeadTailProperties, LenProperties, EmptySeq DEF PortTyped
<1>2. DOMAIN port = 1..Len(port) /\ DOMAIN Tail(port) = 1..Len(Tail(port))
  BY <1>1, Ports DEF PortTyped
<1>. QED BY <1>1, <1>2 DEF Kept, NoMarks, Same

\* A task ends: nobody waits for its reports.
Released(q, a) == [i \in DOMAIN q |-> IF q[i].from = "verifier" /\ q[i].attempt = a
                                        THEN [q[i] EXCEPT !.from = "nobody"] ELSE q[i]]

LEMMA ReleasedKept ==
  ASSUME PortTyped, NEW q, NEW k, Kept(q, k), NoMarks(q, k), NEW a,
         \A i \in DOMAIN q : q[i].attempt = a => ~Mark(q[i])
  PROVE  Kept(Released(q, a), k) /\ NoMarks(Released(q, a), k)
<1>. DEFINE r == Released(q, a)
<1>1. q \in Seq(Calls) /\ Len(q) \in Nat /\ DOMAIN q = 1..Len(q) /\ \A i \in DOMAIN q : q[i] \in Calls
  BY Ports DEF Kept
<1>2. \A i \in DOMAIN q : [q[i] EXCEPT !.from = "nobody"] \in Calls
  BY <1>1 DEF Calls, Sources
<1>3. r \in [1..Len(q) -> Calls]
  BY <1>1, <1>2 DEF Released
<1>4. r \in Seq(Calls) /\ Len(r) = Len(q) /\ DOMAIN r = DOMAIN q
  BY <1>1, <1>3, SeqDef, LenProperties
<1>5. ASSUME NEW i \in DOMAIN q
      PROVE  r[i] = q[i] \/ (/\ r[i] = [q[i] EXCEPT !.from = "nobody"]
                             /\ q[i].from = "verifier" /\ ~Mark(q[i]))
  BY <1>5 DEF Released
<1>. HIDE DEF r
<1>6. Len(port) \in Nat /\ DOMAIN port = 1..Len(port) /\ \A i \in DOMAIN port : port[i] \in Calls
  BY Ports DEF PortTyped
<1>7. ASSUME NEW i \in DOMAIN q
      PROVE  IF i + k <= Len(port) THEN Same(r[i], port[i + k])
                                   ELSE Open(r[i]) /\ r[i].from # "startup" /\ ~Mark(r[i])
  <2>1. IF i + k <= Len(port) THEN Same(q[i], port[i + k])
                              ELSE Open(q[i]) /\ q[i].from # "startup" /\ ~Mark(q[i])
    BY <1>1 DEF Kept, NoMarks
  <2>2. CASE r[i] = q[i]
    BY <2>1, <2>2
  <2>3. CASE r[i] = [q[i] EXCEPT !.from = "nobody"] /\ q[i].from = "verifier" /\ ~Mark(q[i])
    <3>1. CASE i + k <= Len(port)
      <4>1. i + k \in DOMAIN port
        BY <1>1, <1>6, <3>1 DEF Kept
      <4>2. port[i + k] \in Calls /\ Same(q[i], port[i + k])
        BY <1>6, <2>1, <3>1, <4>1
      <4>3. q[i] = port[i + k]
        BY <2>3, <4>2 DEF Same, Calls
      <4>. QED BY <2>3, <3>1, <4>3 DEF Same
    <3>2. CASE ~(i + k <= Len(port))
      BY <1>1, <2>1, <2>3, <3>2 DEF Open, Mark, Calls
    <3>. QED BY <3>1, <3>2
  <2>. QED BY <1>5, <2>2, <2>3
<1>8. Kept(r, k)
  BY <1>1, <1>4, <1>7 DEF Kept
<1>9. NoMarks(r, k)
  <2>. SUFFICES ASSUME NEW i \in DOMAIN r, i + k > Len(port) PROVE ~Mark(r[i])
    BY DEF NoMarks
  <2>1. i \in DOMAIN q /\ ~(i + k <= Len(port))
    BY <1>1, <1>4, <1>6 DEF Kept
  <2>. QED BY <1>7, <2>1
<1>. QED BY <1>8, <1>9 DEF r

-----------------------------------------------------------------------------
(* What the changes of the port, of the tasks and of the requests keep. *)

\* The calls of the new port that were in the old one.
LEMMA Kin ==
  ASSUME PortTyped, NEW k, Kept(port', k)
  PROVE  /\ \A i \in DOMAIN port' :
              \/ /\ i + k \in DOMAIN port /\ port'[i].call = port[i + k].call
                 /\ port'[i].attempt = port[i + k].attempt /\ port'[i].answer = port[i + k].answer
                 /\ \/ port'[i].from = port[i + k].from
                    \/ port'[i].from = "nobody" /\ ~Mark(port[i + k])
              \/ ~(i + k <= Len(port)) /\ Open(port'[i]) /\ port'[i].from # "startup"
         /\ \A j \in DOMAIN port : k < j =>
              j - k \in DOMAIN port' /\ port'[j - k].answer = port[j].answer
                                     /\ port'[j - k].call = port[j].call
         /\ k \in {0, 1} /\ DOMAIN port \subseteq Nat \ {0} /\ DOMAIN port' \subseteq Nat \ {0}
         /\ Len(port) \in Nat
<1>1. /\ Len(port) \in Nat /\ DOMAIN port = 1..Len(port)
      /\ \A i \in DOMAIN port : port[i] \in Calls
  BY Ports DEF PortTyped
<1>2. Len(port') \in Nat /\ DOMAIN port' = 1..Len(port')
  BY Ports DEF Kept
<1>3. k \in {0, 1} /\ Len(port) <= Len(port') + k
  BY DEF Kept
<1>4. ASSUME NEW i \in DOMAIN port', i + k <= Len(port)
      PROVE  /\ i + k \in DOMAIN port /\ port'[i].call = port[i + k].call
             /\ port'[i].attempt = port[i + k].attempt /\ port'[i].answer = port[i + k].answer
             /\ \/ port'[i].from = port[i + k].from
                \/ port'[i].from = "nobody" /\ ~Mark(port[i + k])
  <2>1. i + k \in DOMAIN port
    BY <1>1, <1>2, <1>3, <1>4
  <2>2. Same(port'[i], port[i + k])
    BY <1>4 DEF Kept
  <2>. QED BY <1>1, <2>1, <2>2, SameMeans
<1>5. ASSUME NEW i \in DOMAIN port', ~(i + k <= Len(port))
      PROVE  Open(port'[i]) /\ port'[i].from # "startup"
  BY <1>5 DEF Kept
<1>6. ASSUME NEW j \in DOMAIN port, k < j
      PROVE  j - k \in DOMAIN port' /\ (j - k) + k <= Len(port) /\ (j - k) + k = j
  BY <1>1, <1>2, <1>3, <1>6
<1>7. ASSUME NEW j \in DOMAIN port, k < j
      PROVE  j - k \in DOMAIN port' /\ port'[j - k].answer = port[j].answer
                                     /\ port'[j - k].call = port[j].call
  BY <1>4, <1>6, <1>7
<1>. QED BY <1>1, <1>2, <1>3, <1>4, <1>5, <1>7

LEMMA AnsweredKept ==
  ASSUME PortTyped, Answered, row' = row, NEW k, Kept(port', k)
  PROVE  Answered'
<1>1. ASSUME NEW i \in DOMAIN port', Good(port'[i]) \/ ~Open(port'[i])
      PROVE  i + k \in DOMAIN port /\ port'[i].call = port[i + k].call
             /\ port'[i].attempt = port[i + k].attempt /\ port'[i].answer = port[i + k].answer
  BY <1>1, Kin DEF Good, Open
<1>2. ASSUME NEW i \in DOMAIN port' PROVE AnswerMeans(port[i])'
  <2>1. CASE Good(port'[i])
    BY <1>1, <2>1 DEF Answered, AnswerMeans, Good, Mark
  <2>. QED BY <2>1 DEF AnswerMeans, Good
<1>3. ASSUME NEW i \in DOMAIN port', NEW j \in DOMAIN port', i < j
      PROVE  Follows(port'[i], port'[j])
  <2>1. i \in Nat /\ j \in Nat /\ k \in {0, 1}
    BY Kin
  <2>2. CASE i + k \in DOMAIN port /\ j + k \in DOMAIN port
    <3>1. Follows(port[i + k], port[j + k])
      BY <1>3, <2>1, <2>2 DEF Answered
    <3>2. port'[i].answer = port[i + k].answer \/ ~(i + k <= Len(port))
      BY Kin
    <3>3. port'[j].answer = port[j + k].answer \/ ~(j + k <= Len(port))
      BY Kin
    <3>4. i + k <= Len(port) /\ j + k <= Len(port)
      BY <2>2, Ports DEF PortTyped
    <3>. QED BY <3>1, <3>2, <3>3, <3>4 DEF Follows, Open, Good
  <2>3. CASE j + k \notin DOMAIN port
    <3>1. Open(port'[j])
      BY <2>3, Kin
    <3>. QED BY <3>1 DEF Follows, Open, Good
  <2>4. CASE i + k \notin DOMAIN port /\ j + k \in DOMAIN port
    <3>1. j + k <= Len(port) /\ i + k > Len(port)
      BY <2>1, <2>4, Ports DEF PortTyped
    <3>. QED BY <1>3, <2>1, <3>1, Ports DEF PortTyped
  <2>. QED BY <2>2, <2>3, <2>4
<1>4. ASSUME NEW i \in DOMAIN port', Good(port'[i]), port'[i].answer.status = "completing"
      PROVE  Current(port[i].answer.attempt, i)'
  <2>1. i + k \in DOMAIN port /\ port'[i].answer = port[i + k].answer /\ i \in Nat /\ k \in {0, 1}
    BY <1>1, <1>4, Kin
  <2>2. Current(port[i + k].answer.attempt, i + k)
    BY <1>4, <2>1 DEF Answered, Good
  <2>3. CASE \E j \in DOMAIN port : i + k < j /\ Verdicts(port[j], port[i + k].answer.attempt)
    <3>1. PICK j \in DOMAIN port : i + k < j /\ Verdicts(port[j], port[i + k].answer.attempt)
      BY <2>3
    <3>2. k < j /\ i < j - k /\ j \in Nat
      BY <2>1, <3>1, Kin
    <3>3. j - k \in DOMAIN port' /\ port'[j - k].answer = port[j].answer
                                 /\ port'[j - k].call = port[j].call
      BY <3>2, Kin
    <3>4. Verdicts(port'[j - k], port'[i].answer.attempt)
      BY <2>1, <3>1, <3>3 DEF Verdicts, Good, Mark
    <3>. QED BY <3>2, <3>3, <3>4 DEF Current
  <2>. QED BY <2>1, <2>2, <2>3 DEF Current
<1>. QED BY <1>2, <1>3, <1>4 DEF Answered

LEMMA KnownKept ==
  ASSUME PortTyped, row' = row, NEW k, Kept(port', k), NEW a, Known(a),
         k = 1 => ~Verdicts(port[1], a)
  PROVE  Known(a)'
<1>1. Current(a, 0)'
  <2>1. CASE \E j \in DOMAIN port : 0 < j /\ Verdicts(port[j], a)
    <3>1. PICK j \in DOMAIN port : 0 < j /\ Verdicts(port[j], a)
      BY <2>1
    <3>2. j \in Nat \ {0} /\ k \in {0, 1} /\ k < j /\ 0 < j - k
      BY <3>1, Kin
    <3>3. j - k \in DOMAIN port' /\ port'[j - k].answer = port[j].answer
                                 /\ port'[j - k].call = port[j].call
      BY <3>2, Kin
    <3>4. Verdicts(port'[j - k], a)
      BY <3>1, <3>3 DEF Verdicts, Good, Mark
    <3>. QED BY <3>2, <3>3, <3>4 DEF Current
  <2>. QED BY <2>1 DEF Known, Current
<1>2. ASSUME NEW i \in DOMAIN port', Good(port'[i]) PROVE a <= port'[i].answer.attempt
  <2>1. i + k \in DOMAIN port /\ port'[i].answer = port[i + k].answer
    BY <1>2, Kin DEF Good, Open
  <2>. QED BY <1>2, <2>1 DEF Known, Good
<1>. QED BY <1>1, <1>2 DEF Known

\* The attempts the process will know of are some it knew of, and one it has learnt of.
LEMMA AttemptsKept ==
  ASSUME PortTyped, row' = row, NEW k, Kept(port', k), Attempts,
         \A a \in DOMAIN task' : a \in DOMAIN task \/ a = plan \/ Known(a)',
         plan' \in {plan, 0} \/ Known(plan)',
         k = 1 => \A a \in DOMAIN task' \cup {plan'} : ~Verdicts(port[1], a),
         0 \notin DOMAIN task'
  PROVE  Attempts'
<1>1. ASSUME NEW a \in DOMAIN task' PROVE Known(a)'
  BY <1>1, KnownKept DEF Attempts
<1>2. ASSUME plan' # 0 PROVE Known(plan)'
  BY <1>2, KnownKept DEF Attempts
<1>. QED BY <1>1, <1>2 DEF Attempts

LEMMA MarkingKept ==
  ASSUME PortTyped, Marking, NEW k, Kept(port', k), NoMarks(port', k),
         \A i \in DOMAIN port : k < i /\ Mark(port[i]) =>
            port[i].attempt \in DOMAIN task' /\ task'[port[i].attempt].step = "reporting"
  PROVE  Marking'
<1>1. ASSUME NEW i \in DOMAIN port', Mark(port'[i])
      PROVE  /\ i + k \in DOMAIN port /\ k < i + k /\ Mark(port[i + k])
             /\ port'[i].from = port[i + k].from /\ port'[i].attempt = port[i + k].attempt
             /\ i \in Nat /\ k \in {0, 1}
  <2>1. i + k <= Len(port)
    BY <1>1, Kin DEF NoMarks
  <2>. QED BY <1>1, <2>1, Kin DEF Mark
<1>2. ASSUME NEW i \in DOMAIN port', Mark(port'[i])
      PROVE  /\ port'[i].from = "verifier" /\ port'[i].attempt \in DOMAIN task'
             /\ task'[port'[i].attempt].step = "reporting"
  BY <1>1, <1>2 DEF Marking
<1>3. ASSUME NEW i \in DOMAIN port', NEW j \in DOMAIN port', Mark(port'[i]), Mark(port'[j]),
             port'[i].attempt = port'[j].attempt
      PROVE  i = j
  <2>1. i + k = j + k
    BY <1>1, <1>3 DEF Marking
  <2>. QED BY <1>1, <1>3, <2>1
<1>. QED BY <1>2, <1>3 DEF Marking

LEMMA StartingKept ==
  ASSUME PortTyped, Starting, up, up', NEW k, Kept(port', k),
         k = 0 => DOMAIN task' \subseteq DOMAIN task
  PROVE  Starting'
<1>1. ASSUME NEW i \in DOMAIN port', port'[i].from = "startup"
      PROVE  i = 1 /\ DOMAIN task' = {}
  <2>1. i + k \in DOMAIN port /\ port[i + k].from = "startup"
    BY <1>1, Kin
  <2>2. i + k = 1 /\ DOMAIN task = {}
    BY <2>1 DEF Starting
  <2>3. i \in Nat \ {0} /\ k \in {0, 1}
    BY Kin
  <2>4. i = 1 /\ k = 0
    BY <2>2, <2>3
  <2>. QED BY <2>2, <2>4
<1>. QED BY <1>1 DEF Starting

\* A step that takes no cancel further.
LEMMA QuietKept ==
  ASSUME PortTyped, Quiet, row' = row, part' = part, gone' = gone, cleanup' => cleanup,
         NEW k, Kept(port', k),
         \A s \in Slots : request'[s].step \in {"abort", "remove"} => request'[s] = request[s],
         Final => DOMAIN task' \subseteq DOMAIN task
  PROVE  Quiet'
<1>1. Final' => Final
  BY DEF Final
<1>2. Removing' \subseteq Removing
  BY DEF Removing
<1>3. Final' => \A i \in DOMAIN port' : Good(port'[i]) => port'[i].answer.status = "cancelled"
  <2>. SUFFICES ASSUME Final', NEW i \in DOMAIN port', Good(port'[i])
                PROVE  port'[i].answer.status = "cancelled"
    OBVIOUS
  <2>1. i + k \in DOMAIN port /\ port'[i].answer = port[i + k].answer
    BY Kin DEF Good, Open
  <2>. QED BY <1>1, <2>1 DEF Quiet, Good
<1>4. gone' \/ cleanup' \/ Removing' # {} => DOMAIN task' = {}
  <2>1. gone \/ cleanup \/ Removing # {} => Final
    BY DEF Final, Removing
  <2>. QED BY <1>2, <2>1 DEF Quiet
<1>5. ASSUME NEW s \in Slots, request'[s].step = "abort"
      PROVE  DOMAIN task' \subseteq request'[s].awaits
  <2>1. request'[s] = request[s] /\ Final
    BY <1>5 DEF Final
  <2>. QED BY <1>5, <2>1 DEF Quiet
<1>6. Staged' = Staged
  BY DEF Staged
<1>. QED BY <1>1, <1>3, <1>4, <1>5, <1>6 DEF Quiet

-----------------------------------------------------------------------------
(* Helpers. *)

\* A conjunct of the invariant holds as long as its variables do not change.
LEMMA Frames ==
  /\ RowTyped /\ UNCHANGED <<row, part>> => RowTyped' /\ (StagingKept => StagingKept')
  /\ RequestTyped /\ UNCHANGED request => RequestTyped'
  /\ TaskTyped /\ UNCHANGED <<task, plan>> => TaskTyped'
  /\ FlagsTyped /\ UNCHANGED <<up, cleanup, gone>> => FlagsTyped'
<1>1. RowTyped /\ UNCHANGED <<row, part>> => RowTyped' /\ (StagingKept => StagingKept')
  BY DEF RowTyped, StagingKept
<1>2. RequestTyped /\ UNCHANGED request => RequestTyped'
  BY DEF RequestTyped
<1>3. TaskTyped /\ UNCHANGED <<task, plan>> => TaskTyped'
  BY DEF TaskTyped
<1>4. FlagsTyped /\ UNCHANGED <<up, cleanup, gone>> => FlagsTyped'
  BY DEF FlagsTyped
<1>. QED BY <1>1, <1>2, <1>3, <1>4

\* Only a process that runs has calls, requests, tasks or an rm.
LEMMA Runs ==
  ASSUME IInv, \/ port # <<>> \/ cleanup \/ DOMAIN task # {}
               \/ \E s \in Slots : request[s] # Idle
  PROVE  up
BY DEF IInv, Starting

LEMMA Waits ==
  ASSUME IInv, NEW s \in Slots, request[s].step # "none"
  PROVE  up
<1>1. request[s] # Idle
  BY DEF Idle
<1>. QED BY <1>1, Runs

\* The answer at the head of the port.
LEMMA Answering ==
  ASSUME IInv, NEW f, NEW c, Answers(f, c)
  PROVE  /\ up /\ 1 \in DOMAIN port /\ port[1] \in Calls /\ Answer = port[1].answer
         /\ Head(port) = port[1] /\ port[1].from = f /\ port[1].call = c
         /\ Kept(Tail(port), 1) /\ NoMarks(Tail(port), 1)
<1>1. port # <<>> /\ PortTyped
  BY DEF Answers, IInv, Typed
<1>. QED BY <1>1, Taken, Runs DEF Answers, Answer

LEMMA Moved ==
  ASSUME RequestTyped, NEW s \in Slots, NEW x \in Steps, Move(s, x)
  PROVE  /\ RequestTyped' /\ request'[s].step = x /\ request'[s].awaits = request[s].awaits
         /\ \A r \in Slots : r # s => request'[r] = request[r]
BY DEF RequestTyped, Requests, Move

LEMMA Replied ==
  ASSUME RequestTyped, NEW s \in Slots, Reply(s)
  PROVE  /\ RequestTyped' /\ request'[s].step = "none"
         /\ \A r \in Slots : r # s => request'[r] = request[r]
BY DEF RequestTyped, Requests, Reply, Idle, Steps

\* The calls that are posted.
New(m, f, c) == m \in Calls /\ Open(m) /\ m.from = f /\ m.call = c /\ m.from # "startup"

LEMMA NewCalls ==
  ASSUME NEW f \in Slots \cup {"verifier"}, NEW c \in CallNames, NEW a \in Nat,
         NEW x \in Contents \cup {NoRoot}, NEW b \in Nat, NEW p \in Phases
  PROVE  /\ New([OpenCall EXCEPT !.from = f, !.call = c], f, c)
         /\ New([OpenCall EXCEPT !.from = f, !.call = c, !.root = x], f, c)
         /\ New([OpenCall EXCEPT !.from = f, !.call = c, !.attempt = a], f, c)
         /\ New([OpenCall EXCEPT !.from = f, !.call = c, !.attempt = a, !.bytes = b, !.phase = p],
                f, c)
         /\ New([OpenCall EXCEPT !.from = f, !.attempt = a, !.root = x, !.bytes = b, !.call = c],
                f, c)
<1>1. f \in Sources /\ f # "startup"
  BY ServiceAssumption DEF Sources
<1>2. OpenCall \in [from : Sources, call : {"none"}, attempt : Nat, root : Contents \cup {NoRoot},
                    bytes : Nat, phase : Phases, answer : Replies]
      /\ OpenCall.answer.error = "open"
  BY DEF OpenCall, Sources, Phases, Replies, Errors
<1>3. New([OpenCall EXCEPT !.from = f, !.call = c], f, c)
  BY <1>1, <1>2 DEF New, Calls, Open
<1>4. New([OpenCall EXCEPT !.from = f, !.call = c, !.root = x], f, c)
  BY <1>1, <1>2 DEF New, Calls, Open
<1>5. New([OpenCall EXCEPT !.from = f, !.call = c, !.attempt = a], f, c)
  BY <1>1, <1>2 DEF New, Calls, Open
<1>6. New([OpenCall EXCEPT !.from = f, !.call = c, !.attempt = a, !.bytes = b, !.phase = p], f, c)
  BY <1>1, <1>2 DEF New, Calls, Open
<1>7. New([OpenCall EXCEPT !.from = f, !.attempt = a, !.root = x, !.bytes = b, !.call = c], f, c)
  BY <1>1, <1>2 DEF New, Calls, Open
<1>. QED BY <1>3, <1>4, <1>5, <1>6, <1>7

\* Whoever the process knows of is one attempt.
LEMMA OneAttempt ==
  ASSUME IInv, NEW a \in Nat, NEW b \in Nat, Known(a), Known(b)
  PROVE  a = b
<1>1. row.attempt \in Nat
  BY DEF IInv, Typed, RowTyped, Rows
<1>2. ASSUME NEW x \in Nat, NEW y \in Nat, Known(x), Known(y) PROVE y <= x
  <2>1. CASE x = row.attempt
    BY <1>1, <1>2, <2>1 DEF Known
  <2>2. CASE \E j \in DOMAIN port : 0 < j /\ Verdicts(port[j], x)
    BY <1>2, <2>2 DEF Known, Verdicts
  <2>. QED BY <1>2, <2>1, <2>2 DEF Known, Current
<1>. QED BY <1>1, <1>2

LEMMA BytesReadIsNat == BytesRead \in Nat
<1>1. IsFiniteSet({c \in Chunks : part[c] # NoDigest})
  BY RowAssumption, FS_Subset
<1>. QED BY <1>1, FS_CardinalityType DEF BytesRead

-----------------------------------------------------------------------------
(* The kinds of step that leave the row alone. *)

\* The tasks stay, and no cancel gets further.
LEMMA PlainInv ==
  ASSUME IInv, up, UNCHANGED <<row, part, plan, up, gone>>, cleanup' \in BOOLEAN, cleanup' => cleanup,
         NEW k, Kept(port', k), NoMarks(port', k), k = 1 => ~Mark(port[1]),
         RequestTyped',
         \A s \in Slots : request'[s].step \in {"abort", "remove"} => request'[s] = request[s],
         TaskTyped', DOMAIN task' = DOMAIN task,
         \A a \in DOMAIN task : task[a].step = "reporting" => task'[a].step = "reporting"
  PROVE  IInv'
<1>1. PortTyped /\ k \in {0, 1}
  BY DEF IInv, Typed, Kept
<1>2. Typed' /\ StagingKept'
  BY Frames DEF IInv, Typed, PortTyped, FlagsTyped, Kept
<1>3. Answered'
  BY <1>1, AnsweredKept DEF IInv
<1>4. Attempts'
  <2>1. 0 \notin DOMAIN task'
    BY DEF TaskTyped
  <2>2. k = 1 => \A a \in DOMAIN task' \cup {plan'} : ~Verdicts(port[1], a)
    BY DEF Verdicts
  <2>. QED BY <1>1, <2>1, <2>2, AttemptsKept DEF IInv
<1>5. Marking'
  BY <1>1, MarkingKept DEF IInv, Marking
<1>6. Starting'
  BY <1>1, StartingKept DEF IInv
<1>7. Quiet'
  BY <1>1, QuietKept DEF IInv
<1>. QED BY <1>2, <1>3, <1>4, <1>5, <1>6, <1>7 DEF IInv

\* An answer may start the verification of attempt b.
LEMMA StartInv ==
  ASSUME IInv, UNCHANGED <<row, part, up, cleanup, gone>>,
         up, 1 \in DOMAIN port, ~Mark(port[1]), Kept(port', 1), NoMarks(port', 1),
         RequestTyped', \A s \in Slots : request'[s].step \in {"abort", "remove"} => request'[s] = request[s],
         Good(port[1]), port[1].answer.status # "cancelled",
         NEW b \in Nat \ {0}, NEW fenced, task' = StartVerification(b, fenced),
         plan' \in {plan, b}, b = plan \/ Known(b)'
  PROVE  IInv'
<1>1. PortTyped /\ TaskTyped
  BY DEF IInv, Typed
<1>2. /\ DOMAIN task' \subseteq DOMAIN task \cup {b} /\ DOMAIN task \subseteq DOMAIN task'
      /\ \A a \in DOMAIN task : task'[a] = task[a]
      /\ \A a \in DOMAIN task' : a \in DOMAIN task \/ task'[a] = NewTask
      /\ task' \in [DOMAIN task' -> Tasks]
  <2>1. CASE task' = task
    BY <1>1, <2>1 DEF TaskTyped
  <2>2. CASE task' = [a \in DOMAIN task \cup {b} |-> IF a \in DOMAIN task THEN task[a] ELSE NewTask]
    <3>1. NewTask \in Tasks
      BY DEF NewTask, Tasks
    <3>. QED BY <1>1, <2>2, <3>1 DEF TaskTyped
  <2>. QED BY <2>1, <2>2 DEF StartVerification
<1>3. TaskTyped'
  BY <1>1, <1>2 DEF TaskTyped
<1>4. Typed' /\ StagingKept'
  BY <1>3, Frames DEF IInv, Typed, PortTyped, FlagsTyped, Kept
<1>5. Answered'
  BY <1>1, AnsweredKept DEF IInv
<1>6. Attempts'
  <2>1. \A a \in DOMAIN task' \cup {plan'} : ~Verdicts(port[1], a)
    BY DEF Verdicts
  <2>2. \A a \in DOMAIN task' : a \in DOMAIN task \/ a = plan \/ Known(a)'
    BY <1>2
  <2>3. plan' \in {plan, 0} \/ Known(plan)'
    <3>1. CASE plan' = plan
      BY <3>1
    <3>2. CASE plan' = b /\ plan' # plan
      BY <3>2 DEF Known, Current
    <3>. QED BY <3>1, <3>2
  <2>4. 0 \notin DOMAIN task'
    BY <1>3 DEF TaskTyped
  <2>. QED BY <1>1, <2>1, <2>2, <2>3, <2>4, AttemptsKept DEF IInv
<1>7. Marking'
  BY <1>1, <1>2, MarkingKept DEF IInv, Marking
<1>8. Starting'
  BY <1>1, StartingKept DEF IInv
<1>9. Quiet'
  <2>1. ~Final
    BY DEF IInv, Quiet
  <2>. QED BY <1>1, <2>1, QuietKept DEF IInv
<1>. QED BY <1>4, <1>5, <1>6, <1>7, <1>8, <1>9 DEF IInv

\* A task ends; the answer of its verdict, if there is one, has been taken.
LEMMA EndInv ==
  ASSUME IInv, UNCHANGED <<row, part, request, up, cleanup, gone>>,
         NEW k, NEW q, Kept(q, k), NoMarks(q, k), NEW a \in DOMAIN task, EndTask(a, q),
         \A i \in DOMAIN port : k < i /\ Mark(port[i]) => port[i].attempt # a,
         k = 1 => \A b \in DOMAIN task' \cup {plan'} : ~Verdicts(port[1], b),
         plan' \in {plan, 0}
  PROVE  IInv'
<1>1. PortTyped /\ TaskTyped /\ k \in {0, 1} /\ up
  BY Runs DEF IInv, Typed, Kept
<1>2. task' = [b \in DOMAIN task \ {a} |-> task[b]] /\ port' = Released(q, a)
  BY DEF EndTask, Released
<1>3. \A i \in DOMAIN q : q[i].attempt = a => ~Mark(q[i])
  <2>. SUFFICES ASSUME NEW i \in DOMAIN q, q[i].attempt = a, Mark(q[i]) PROVE FALSE
    OBVIOUS
  <2>1. /\ DOMAIN q = 1..Len(q) /\ DOMAIN port = 1..Len(port) /\ Len(q) \in Nat /\ Len(port) \in Nat
        /\ \A j \in DOMAIN port : port[j] \in Calls
    BY <1>1, Ports DEF Kept, PortTyped
  <2>2. i + k \in DOMAIN port /\ Same(q[i], port[i + k]) /\ k < i + k
    BY <1>1, <2>1 DEF Kept, NoMarks
  <2>3. Mark(port[i + k]) /\ port[i + k].attempt = a
    BY <2>1, <2>2, SameMeans DEF Mark
  <2>. QED BY <2>2, <2>3
<1>4. Kept(port', k) /\ NoMarks(port', k)
  BY <1>1, <1>2, <1>3, ReleasedKept
<1>5. /\ TaskTyped' /\ DOMAIN task' = DOMAIN task \ {a}
      /\ \A b \in DOMAIN task' : task'[b] = task[b]
  BY <1>1, <1>2 DEF TaskTyped
<1>6. Typed' /\ StagingKept'
  BY <1>4, <1>5, Frames DEF IInv, Typed, PortTyped, FlagsTyped, Kept
<1>7. Answered'
  BY <1>1, <1>4, AnsweredKept DEF IInv
<1>8. Attempts'
  <2>1. 0 \notin DOMAIN task'
    BY <1>5 DEF TaskTyped
  <2>. QED BY <1>1, <1>4, <1>5, <2>1, AttemptsKept DEF IInv
<1>9. Marking'
  BY <1>1, <1>4, <1>5, MarkingKept DEF IInv, Marking
<1>10. Starting'
  BY <1>1, <1>4, <1>5, StartingKept DEF IInv
<1>11. Quiet'
  BY <1>1, <1>4, <1>5, QuietKept DEF IInv
<1>. QED BY <1>6, <1>7, <1>8, <1>9, <1>10, <1>11 DEF IInv

-----------------------------------------------------------------------------
(* The steps of the requests. *)

\* A request of the phone moves on or is answered: no cancel gets further, and the
\* tasks stay.
LEMMA MovesInv ==
  ASSUME IInv, up, UNCHANGED <<row, part, plan, task, up, cleanup, gone>>,
         NEW s \in Slots, NEW x \in Steps \ {"abort", "remove"}, Move(s, x) \/ Reply(s),
         NEW k, Kept(port', k), NoMarks(port', k), k = 1 => ~Mark(port[1])
  PROVE  IInv'
<1>1. RequestTyped /\ TaskTyped
  BY DEF IInv, Typed
<1>2. /\ RequestTyped' /\ request'[s].step \notin {"abort", "remove"}
      /\ \A r \in Slots : r # s => request'[r] = request[r]
  BY <1>1, Moved, Replied
<1>3. TaskTyped' /\ cleanup' \in BOOLEAN /\ (cleanup' => cleanup)
  BY <1>1, Frames DEF IInv, Typed, FlagsTyped
<1>. QED BY <1>2, <1>3, PlainInv

\* The calls a request posts are no verdicts.
LEMMA NoVerdict ==
  ASSUME NEW m, NEW f, NEW c, New(m, f, c), c \notin {"markTransferCompleted", "markTransferFailed"}
  PROVE  m \in Calls /\ Open(m) /\ m.from # "startup" /\ ~Mark(m)
BY DEF New, Mark

LEMMA Names2 ==
  /\ {"getStatus", "beginCompletion", "getCompletionVerificationPlan", "cancelTransfer"} \subseteq CallNames
  /\ {"status", "queued", "sealed", "direct", "plan", "persist", "restore"} \subseteq Steps \ {"abort", "remove"}
  /\ Phases # {} /\ 0 \in Nat /\ NoRoot \in Contents \cup {NoRoot} /\ "idle" \in Phases
BY DEF CallNames, Steps, Phases

LEMMA RequestInv ==
  ASSUME IInv, NEW s \in Slots, NEW kind \in {"complete", "cancel"},
         NEW root \in Contents \cup {NoRoot}, Request(s, kind, root)
  PROVE  IInv'
<1>. DEFINE m == [OpenCall EXCEPT !.from = s, !.call = "getStatus"]
<1>1. PortTyped /\ RequestTyped /\ TaskTyped
  BY DEF IInv, Typed
<1>2. m \in Calls /\ Open(m) /\ m.from # "startup" /\ ~Mark(m)
  <2>1. New(m, s, "getStatus")
    BY Names2, NewCalls
  <2>. QED BY <2>1, NoVerdict
<1>3. port' = Append(port, m)
  BY DEF Request, Post
<1>. HIDE DEF m
<1>4. Kept(port', 0) /\ NoMarks(port', 0)
  BY <1>1, <1>2, <1>3, Unmoved, Posted
<1>5. /\ RequestTyped' /\ request'[s].step = "status"
      /\ \A r \in Slots : r # s => request'[r] = request[r]
  BY <1>1 DEF RequestTyped, Requests, Request, Idle, Steps
<1>6. TaskTyped' /\ cleanup' \in BOOLEAN /\ (cleanup' => cleanup)
  BY <1>1, Frames DEF IInv, Typed, FlagsTyped, Request
<1>. QED BY <1>4, <1>5, <1>6, PlainInv DEF Request

LEMMA CompletionReadInv == ASSUME IInv, NEW s \in Slots, CompletionRead(s) PROVE IInv'
<1>. DEFINE m == [OpenCall EXCEPT !.from = s, !.call = "beginCompletion", !.root = request[s].root]
<1>1. Answers(s, "getStatus")
  BY DEF CompletionRead, StatusRead
<1>2. /\ up /\ port[1].call = "getStatus" /\ Kept(Tail(port), 1) /\ NoMarks(Tail(port), 1)
      /\ ~Mark(port[1])
  BY <1>1, Answering DEF Mark
<1>3. m \in Calls /\ Open(m) /\ m.from # "startup" /\ ~Mark(m)
  <2>1. request[s].root \in Contents \cup {NoRoot}
    BY DEF IInv, Typed, RequestTyped, Requests
  <2>2. New(m, s, "beginCompletion")
    BY <2>1, Names2, NewCalls
  <2>. HIDE DEF m
  <2>. QED BY <2>2, NoVerdict
<1>. HIDE DEF m
<1>4. Kept(Append(Tail(port), m), 1) /\ NoMarks(Append(Tail(port), m), 1)
  BY <1>2, <1>3, Posted
<1>5. /\ port' = Tail(port) \/ port' = Append(Tail(port), m)
      /\ Reply(s) \/ Move(s, "queued") \/ Move(s, "direct")
      /\ UNCHANGED <<row, part, plan, task, up, cleanup, gone>>
  BY DEF CompletionRead, m
<1>6. Kept(port', 1) /\ NoMarks(port', 1)
  BY <1>2, <1>4, <1>5
<1>. QED BY <1>2, <1>5, <1>6, Names2, MovesInv

LEMMA CompletionStartsInv == ASSUME IInv, NEW s \in Slots, CompletionStarts(s) PROVE IInv'
<1>. DEFINE m == [OpenCall EXCEPT !.from = s, !.call = "beginCompletion", !.root = request[s].root]
<1>1. up /\ PortTyped
  <2>1. request[s].step = "queued"
    BY DEF CompletionStarts, Starts
  <2>. QED BY <2>1, Waits DEF IInv, Typed
<1>2. m \in Calls /\ Open(m) /\ m.from # "startup" /\ ~Mark(m)
  <2>1. request[s].root \in Contents \cup {NoRoot}
    BY DEF IInv, Typed, RequestTyped, Requests
  <2>2. New(m, s, "beginCompletion")
    BY <2>1, Names2, NewCalls
  <2>. HIDE DEF m
  <2>. QED BY <2>2, NoVerdict
<1>3. port' = Append(port, m)
  BY DEF CompletionStarts
<1>. HIDE DEF m
<1>4. Kept(port', 0) /\ NoMarks(port', 0)
  BY <1>1, <1>2, <1>3, Unmoved, Posted
<1>5. /\ Move(s, "direct") \/ Move(s, "sealed")
      /\ UNCHANGED <<row, part, plan, task, up, cleanup, gone>>
  BY DEF CompletionStarts
<1>. QED BY <1>1, <1>4, <1>5, Names2, MovesInv

\* The attempt that an answer names as completing.
LEMMA HeadKnown ==
  ASSUME IInv, row' = row, 1 \in DOMAIN port, Good(port[1]), Kept(port', 1),
         NEW b, b = port[1].answer.attempt, port[1].answer.status = "completing"
  PROVE  Known(b)' /\ b \in Nat
<1>1. PortTyped /\ Answered
  BY DEF IInv, Typed
<1>2. b \in Nat
  <2>1. port[1] \in Calls
    BY <1>1, Ports DEF PortTyped
  <2>. QED BY <2>1 DEF Calls, Replies
<1>3. b <= row.attempt /\ Current(b, 1)
  BY <1>1 DEF Answered, AnswerMeans
<1>4. Current(b, 0)'
  <2>1. CASE \E j \in DOMAIN port : 1 < j /\ Verdicts(port[j], b)
    <3>1. PICK j \in DOMAIN port : 1 < j /\ Verdicts(port[j], b)
      BY <2>1
    <3>2. j \in Nat /\ 0 < j - 1
      BY <1>1, <3>1, Kin
    <3>3. j - 1 \in DOMAIN port' /\ port'[j - 1].answer = port[j].answer
                                 /\ port'[j - 1].call = port[j].call
      BY <1>1, <3>1, Kin
    <3>4. Verdicts(port'[j - 1], b)
      BY <3>1, <3>3 DEF Verdicts, Good, Mark
    <3>. QED BY <3>2, <3>3, <3>4 DEF Current
  <2>. QED BY <1>3, <2>1 DEF Current
<1>5. ASSUME NEW i \in DOMAIN port', Good(port'[i]) PROVE b <= port'[i].answer.attempt
  <2>1. i + 1 \in DOMAIN port /\ port'[i].answer = port[i + 1].answer /\ i \in Nat \ {0}
    BY <1>1, <1>5, Kin DEF Good, Open
  <2>2. Follows(port[1], port[i + 1])
    BY <1>1, <2>1 DEF Answered
  <2>. QED BY <1>5, <2>1, <2>2 DEF Follows, Good
<1>. QED BY <1>2, <1>3, <1>4, <1>5 DEF Known

LEMMA CompletionBegunInv == ASSUME IInv, NEW s \in Slots, CompletionBegun(s) PROVE IInv'
<1>1. Answers(s, "beginCompletion")
  BY DEF CompletionBegun
<1>2. /\ up /\ port[1].call = "beginCompletion" /\ Kept(Tail(port), 1) /\ NoMarks(Tail(port), 1)
      /\ ~Mark(port[1]) /\ 1 \in DOMAIN port /\ port[1] \in Calls /\ Answer = port[1].answer
  BY <1>1, Answering DEF Mark
<1>3. UNCHANGED <<row, part, cleanup, up, gone>>
  BY DEF CompletionBegun
<1>4. CASE Reply(s) /\ port' = Tail(port) /\ UNCHANGED <<plan, task>>
  BY <1>2, <1>3, <1>4, Names2, MovesInv
<1>5. CASE /\ Answer.error = "none" /\ Answer.status = "completing" /\ Reply(s) /\ port' = Tail(port)
           /\ plan' = Answer.attempt /\ task' = StartVerification(Answer.attempt, fence)
  <2>1. PICK b : b = Answer.attempt
    OBVIOUS
  <2>2. Good(port[1]) /\ port[1].answer.status = "completing" /\ b = port[1].answer.attempt
    BY <1>2, <1>5, <2>1 DEF Good
  <2>3. row' = row /\ Kept(port', 1) /\ NoMarks(port', 1)
    BY <1>2, <1>3, <1>5
  <2>4. Known(b)' /\ b \in Nat
    BY <1>2, <2>2, <2>3, HeadKnown
  <2>5. /\ RequestTyped'
        /\ \A r \in Slots : request'[r].step \in {"abort", "remove"} => request'[r] = request[r]
    BY <1>5, Replied DEF IInv, Typed
  <2>6. b # 0
    BY <1>2, <2>2 DEF IInv, Answered, AnswerMeans
  <2>7. port[1].answer.status # "cancelled"
    BY <2>2
  <2>8. plan' \in {plan, b} /\ b \in Nat \ {0} /\ task' = StartVerification(b, fence)
    BY <1>5, <2>1, <2>4, <2>6
  <2>. QED BY <1>2, <1>3, <2>2, <2>3, <2>4, <2>5, <2>7, <2>8, StartInv
<1>6. CASE /\ Move(s, "plan") /\ UNCHANGED <<plan, task>>
           /\ port' = Append(Tail(port), [OpenCall EXCEPT !.from = s,
                        !.call = "getCompletionVerificationPlan", !.attempt = Answer.attempt])
  <2>. DEFINE m == [OpenCall EXCEPT !.from = s, !.call = "getCompletionVerificationPlan",
                                    !.attempt = Answer.attempt]
  <2>1. Answer.attempt \in Nat
    BY <1>2 DEF Calls, Replies
  <2>2. New(m, s, "getCompletionVerificationPlan")
    BY <2>1, Names2, NewCalls
  <2>3. port' = Append(Tail(port), m)
    BY <1>6
  <2>. HIDE DEF m
  <2>4. m \in Calls /\ Open(m) /\ m.from # "startup" /\ ~Mark(m)
    BY <2>2, NoVerdict
  <2>5. Kept(port', 1) /\ NoMarks(port', 1)
    BY <1>2, <2>3, <2>4, Posted
  <2>. QED BY <1>2, <1>3, <1>6, <2>5, Names2, MovesInv
<1>. QED BY <1>4, <1>5, <1>6 DEF CompletionBegun

LEMMA PlanReadInv == ASSUME IInv, NEW s \in Slots, PlanRead(s) PROVE IInv'
<1>1. Answers(s, "getCompletionVerificationPlan")
  BY DEF PlanRead
<1>2. /\ up /\ port[1].call = "getCompletionVerificationPlan" /\ Kept(Tail(port), 1)
      /\ NoMarks(Tail(port), 1) /\ ~Mark(port[1]) /\ 1 \in DOMAIN port /\ port[1] \in Calls
      /\ Answer = port[1].answer /\ Head(port) = port[1]
  BY <1>1, Answering DEF Mark
<1>3. UNCHANGED <<row, part, cleanup, up, gone>> /\ Reply(s) /\ port' = Tail(port)
  BY DEF PlanRead
<1>4. CASE UNCHANGED <<plan, task>>
  BY <1>2, <1>3, <1>4, Names2, MovesInv
<1>5. CASE /\ Answer.error = "none" /\ Answer.flag
           /\ plan' = Head(port).attempt /\ task' = StartVerification(Head(port).attempt, fence)
  <2>1. PICK b : b = port[1].attempt
    OBVIOUS
  <2>2. /\ Good(port[1]) /\ port[1].answer.status = "completing" /\ b = port[1].answer.attempt
        /\ b # 0
    BY <1>2, <1>5, <2>1 DEF Good, IInv, Answered, AnswerMeans
  <2>3. row' = row /\ Kept(port', 1) /\ NoMarks(port', 1)
    BY <1>2, <1>3
  <2>4. Known(b)' /\ b \in Nat
    BY <1>2, <2>2, <2>3, HeadKnown
  <2>5. /\ RequestTyped'
        /\ \A r \in Slots : request'[r].step \in {"abort", "remove"} => request'[r] = request[r]
    BY <1>3, Replied DEF IInv, Typed
  <2>6. port[1].answer.status # "cancelled"
    BY <2>2
  <2>7. plan' \in {plan, b} /\ b \in Nat \ {0} /\ task' = StartVerification(b, fence)
    BY <1>2, <1>5, <2>1, <2>2, <2>4
  <2>. QED BY <1>2, <1>3, <2>2, <2>3, <2>4, <2>5, <2>6, <2>7, StartInv
<1>. QED BY <1>4, <1>5 DEF PlanRead

LEMMA CancelReadInv == ASSUME IInv, NEW s \in Slots, CancelRead(s) PROVE IInv'
<1>1. Answers(s, "getStatus")
  BY DEF CancelRead, StatusRead
<1>2. /\ up /\ port[1].call = "getStatus" /\ Kept(Tail(port), 1) /\ NoMarks(Tail(port), 1)
      /\ ~Mark(port[1])
  BY <1>1, Answering DEF Mark
<1>3. /\ port' = Tail(port)
      /\ Reply(s) \/ Move(s, "queued")
      /\ UNCHANGED <<row, part, plan, task, up, cleanup, gone>>
  BY DEF CancelRead
<1>. QED BY <1>2, <1>3, Names2, MovesInv

LEMMA CancelStartsInv == ASSUME IInv, NEW s \in Slots, CancelStarts(s) PROVE IInv'
<1>. DEFINE m == [OpenCall EXCEPT !.from = s, !.call = "cancelTransfer"]
<1>1. up /\ PortTyped
  <2>1. request[s].step = "queued"
    BY DEF CancelStarts, Starts
  <2>. QED BY <2>1, Waits DEF IInv, Typed
<1>2. New(m, s, "cancelTransfer")
  BY Names2, NewCalls
<1>3. /\ port' = Append(port, m) /\ Move(s, "persist")
      /\ UNCHANGED <<row, part, plan, task, up, cleanup, gone>>
  BY DEF CancelStarts, Post
<1>. HIDE DEF m
<1>4. m \in Calls /\ Open(m) /\ m.from # "startup" /\ ~Mark(m)
  BY <1>2, NoVerdict
<1>5. Kept(port', 0) /\ NoMarks(port', 0)
  BY <1>1, <1>3, <1>4, Unmoved, Posted
<1>. QED BY <1>1, <1>3, <1>5, Names2, MovesInv

LEMMA CancelPersistedInv == ASSUME IInv, NEW s \in Slots, CancelPersisted(s) PROVE IInv'
<1>1. Answers(s, "cancelTransfer")
  BY DEF CancelPersisted
<1>2. /\ up /\ port[1].call = "cancelTransfer" /\ Kept(Tail(port), 1) /\ NoMarks(Tail(port), 1)
      /\ ~Mark(port[1]) /\ 1 \in DOMAIN port /\ Answer = port[1].answer
  BY <1>1, Answering DEF Mark
<1>3. UNCHANGED <<row, part, plan, cleanup, up, gone>>
  BY DEF CancelPersisted
<1>4. CASE Answer.error # "none"
  <2>. DEFINE m == [OpenCall EXCEPT !.from = s, !.call = "getStatus"]
  <2>1. New(m, s, "getStatus")
    BY Names2, NewCalls
  <2>2. Move(s, "restore") /\ port' = Append(Tail(port), m) /\ task' = task
    BY <1>4 DEF CancelPersisted
  <2>. HIDE DEF m
  <2>3. m \in Calls /\ Open(m) /\ m.from # "startup" /\ ~Mark(m)
    BY <2>1, NoVerdict
  <2>4. Kept(port', 1) /\ NoMarks(port', 1)
    BY <1>2, <2>2, <2>3, Posted
  <2>. QED BY <1>2, <1>3, <2>2, <2>4, Names2, MovesInv
<1>5. CASE Answer.error = "none"
  <2>1. /\ request' = [request EXCEPT ![s].step = "abort", ![s].awaits = DOMAIN task]
        /\ task' = [a \in DOMAIN task |-> Aborted(task[a])] /\ port' = Tail(port)
    BY <1>5 DEF CancelPersisted
  <2>2. PortTyped /\ TaskTyped /\ RequestTyped
    BY DEF IInv, Typed
  <2>3. /\ TaskTyped' /\ DOMAIN task' = DOMAIN task
        /\ \A a \in DOMAIN task : task[a].step = "reporting" => task'[a].step = "reporting"
    <3>1. \A a \in DOMAIN task : Aborted(task[a]) \in Tasks
      BY <2>2 DEF TaskTyped, Tasks, Aborted
    <3>2. \A a \in DOMAIN task : task[a].step = "reporting" => Aborted(task[a]).step = "reporting"
      BY DEF Aborted
    <3>. QED BY <1>3, <2>1, <2>2, <3>1, <3>2 DEF TaskTyped
  <2>4. /\ RequestTyped' /\ request'[s].step = "abort" /\ request'[s].awaits = DOMAIN task
        /\ \A r \in Slots : r # s => request'[r] = request[r]
    BY <2>1, <2>2 DEF RequestTyped, TaskTyped, Requests, Steps
  <2>5. Typed' /\ StagingKept'
    BY <1>2, <1>3, <2>1, <2>3, <2>4, Frames DEF IInv, Typed, PortTyped, FlagsTyped, Kept
  <2>6. Answered'
    BY <1>2, <1>3, <2>1, <2>2, AnsweredKept DEF IInv
  <2>7. Attempts'
    <3>1. 0 \notin DOMAIN task'
      BY <2>3 DEF TaskTyped
    <3>2. \A a \in DOMAIN task' \cup {plan'} : ~Verdicts(port[1], a)
      BY <1>2 DEF Verdicts
    <3>. QED BY <1>2, <1>3, <2>1, <2>2, <2>3, <3>1, <3>2, AttemptsKept DEF IInv
  <2>8. Marking'
    BY <1>2, <2>1, <2>2, <2>3, MarkingKept DEF IInv, Marking
  <2>9. Starting'
    BY <1>2, <1>3, <2>1, <2>2, <2>3, StartingKept DEF IInv
  <2>10. Quiet'
    <3>1. row.status = "cancelled" /\ port[1].answer.status = "cancelled" /\ Good(port[1])
      BY <1>2, <1>5 DEF IInv, Answered, AnswerMeans, Good
    <3>2. ASSUME NEW i \in DOMAIN port', Good(port'[i]) PROVE port'[i].answer.status = "cancelled"
      <4>1. i + 1 \in DOMAIN port /\ port'[i].answer = port[i + 1].answer /\ i \in Nat \ {0}
        BY <1>2, <2>1, <2>2, <3>2, Kin DEF Good, Open
      <4>2. Follows(port[1], port[i + 1])
        BY <1>2, <4>1 DEF IInv, Answered
      <4>. QED BY <3>1, <3>2, <4>1, <4>2 DEF Follows, Good
    <3>3. Removing' \subseteq Removing
      BY <2>4 DEF Removing
    <3>4. ASSUME NEW r \in Slots, request'[r].step = "abort"
          PROVE  DOMAIN task' \subseteq request'[r].awaits
      BY <2>3, <2>4, <3>4 DEF IInv, Quiet
    <3>. QED BY <1>3, <2>3, <3>1, <3>2, <3>3, <3>4 DEF IInv, Quiet, Staged
  <2>. QED BY <2>5, <2>6, <2>7, <2>8, <2>9, <2>10 DEF IInv
<1>. QED BY <1>4, <1>5

LEMMA TasksAbortedInv == ASSUME IInv, NEW s \in Slots, TasksAborted(s) PROVE IInv'
<1>1. /\ request[s].step = "abort" /\ request[s].awaits \cap DOMAIN task = {}
      /\ cleanup' = TRUE /\ Move(s, "remove")
      /\ UNCHANGED <<row, part, port, plan, task, up, gone>>
  BY DEF TasksAborted
<1>2. up /\ PortTyped /\ RequestTyped /\ TaskTyped
  BY <1>1, Waits DEF IInv, Typed
<1>3. /\ RequestTyped' /\ request'[s].step = "remove"
      /\ \A r \in Slots : r # s => request'[r] = request[r]
  BY <1>1, <1>2, Moved DEF Steps
<1>4. DOMAIN task = {}
  BY <1>1 DEF IInv, Quiet
<1>5. Typed' /\ StagingKept'
  BY <1>1, <1>2, <1>3, Frames DEF IInv, Typed, PortTyped, FlagsTyped
<1>6. Kept(port', 0) /\ NoMarks(port', 0)
  BY <1>1, <1>2, Unmoved
<1>7. Answered' /\ Attempts' /\ Marking'
  BY <1>1 DEF IInv, Answered, Attempts, Marking, AnswerMeans, Current, Known
<1>8. Starting'
  BY <1>1, <1>2, <1>6, StartingKept DEF IInv
<1>9. Quiet'
  <2>1. Final
    BY <1>1 DEF Final
  <2>2. ASSUME NEW r \in Slots, request'[r].step = "abort"
        PROVE  DOMAIN task' \subseteq request'[r].awaits
    BY <1>1, <1>4
  <2>. QED BY <1>1, <1>4, <2>1, <2>2 DEF IInv, Quiet, Staged
<1>. QED BY <1>5, <1>7, <1>8, <1>9 DEF IInv

LEMMA RestoredInv == ASSUME IInv, NEW s \in Slots, Restored(s) PROVE IInv'
<1>1. Answers(s, "getStatus")
  BY DEF Restored
<1>2. /\ up /\ port[1].call = "getStatus" /\ Kept(Tail(port), 1) /\ NoMarks(Tail(port), 1)
      /\ ~Mark(port[1]) /\ 1 \in DOMAIN port /\ Answer = port[1].answer
  BY <1>1, Answering DEF Mark
<1>3. UNCHANGED <<row, part, plan, cleanup, up, gone>> /\ Reply(s) /\ port' = Tail(port)
  BY DEF Restored
<1>4. CASE task' = task
  BY <1>2, <1>3, <1>4, Names2, MovesInv
<1>5. CASE /\ Answer.error = "none" /\ Answer.status # "cancelled" /\ plan # 0
           /\ task' = StartVerification(plan, FALSE)
  <2>1. PICK b : b = plan
    OBVIOUS
  <2>2. /\ RequestTyped'
        /\ \A r \in Slots : request'[r].step \in {"abort", "remove"} => request'[r] = request[r]
    BY <1>3, Replied DEF IInv, Typed
  <2>3. /\ Kept(port', 1) /\ NoMarks(port', 1) /\ b \in Nat \ {0}
        /\ Good(port[1]) /\ port[1].answer.status # "cancelled"
        /\ task' = StartVerification(b, FALSE) /\ plan' \in {plan, b}
    BY <1>2, <1>3, <1>5, <2>1 DEF Good, IInv, Typed, TaskTyped
  <2>. QED BY <1>2, <1>3, <2>1, <2>2, <2>3, StartInv
<1>. QED BY <1>4, <1>5 DEF Restored

-----------------------------------------------------------------------------
(* The steps of the verifications and of the removal. *)

LEMMA ReportProgressInv == ASSUME IInv, NEW a \in DOMAIN task, ReportProgress(a) PROVE IInv'
<1>1. PICK b, p :
        /\ b = IF task[a].sent = 0 THEN 0 ELSE BytesRead
        /\ p = CASE task[a].sent = 0 -> "reading" [] task[a].sent = 1 -> "hashing"
                 [] task[a].sent = 2 -> "done"
  OBVIOUS
<1>2. PortTyped /\ TaskTyped /\ RequestTyped /\ up
  BY Runs DEF IInv, Typed
<1>3. a \in Nat /\ task[a].sent \in Nat
  BY <1>2 DEF TaskTyped, Tasks
<1>4. b \in Nat /\ p \in Phases
  <2>1. task[a].sent \in {0, 1, 2}
    BY <1>3 DEF ReportProgress
  <2>. QED BY <1>1, <2>1, BytesReadIsNat DEF Phases
<1>. DEFINE m == [OpenCall EXCEPT !.from = "verifier", !.call = "setVerificationProgress",
                                  !.attempt = a, !.bytes = b, !.phase = p]
<1>5. port' = Append(port, m)
  BY <1>1 DEF ReportProgress
<1>6. New(m, "verifier", "setVerificationProgress")
  <2>1. "setVerificationProgress" \in CallNames
    BY DEF CallNames
  <2>. QED BY <1>3, <1>4, <2>1, NewCalls
<1>. HIDE DEF m
<1>7. m \in Calls /\ Open(m) /\ m.from # "startup" /\ ~Mark(m)
  BY <1>6, NoVerdict
<1>8. Kept(port', 0) /\ NoMarks(port', 0)
  BY <1>2, <1>5, <1>7, Unmoved, Posted
<1>9. UNCHANGED <<row, part, request, plan, task, cleanup, up, gone>>
  BY DEF ReportProgress
<1>10. RequestTyped' /\ TaskTyped' /\ cleanup' \in BOOLEAN
  BY <1>2, <1>9, Frames DEF IInv, Typed, FlagsTyped
<1>. QED BY <1>2, <1>8, <1>9, <1>10, PlainInv

LEMMA ProgressReportedInv == ASSUME IInv, NEW a \in DOMAIN task, ProgressReported(a) PROVE IInv'
<1>1. Answers("verifier", "setVerificationProgress")
  BY DEF ProgressReported
<1>2. /\ up /\ Kept(Tail(port), 1) /\ NoMarks(Tail(port), 1) /\ ~Mark(port[1])
  BY <1>1, Answering DEF Mark
<1>3. /\ port' = Tail(port) /\ task' = [task EXCEPT ![a].sent = @ + 1]
      /\ UNCHANGED <<row, part, request, plan, cleanup, up, gone>>
  BY DEF ProgressReported
<1>4. /\ TaskTyped' /\ DOMAIN task' = DOMAIN task
      /\ \A b \in DOMAIN task : task[b].step = "reporting" => task'[b].step = "reporting"
  <2>1. TaskTyped /\ task[a] \in Tasks
    BY DEF IInv, Typed, TaskTyped
  <2>2. PICK t : t = [task[a] EXCEPT !.sent = @ + 1]
    OBVIOUS
  <2>3. t \in Tasks /\ t.step = task[a].step
    BY <2>1, <2>2 DEF Tasks
  <2>4. task' = [task EXCEPT ![a] = t]
    BY <1>3, <2>2
  <2>. QED BY <1>3, <2>1, <2>3, <2>4 DEF TaskTyped
<1>5. RequestTyped' /\ cleanup' \in BOOLEAN
  BY <1>3, Frames DEF IInv, Typed, FlagsTyped
<1>. QED BY <1>2, <1>3, <1>4, <1>5, PlainInv

LEMMA FinishReadingInv == ASSUME IInv, NEW a \in DOMAIN task, FinishReading(a) PROVE IInv'
<1>1. PortTyped /\ TaskTyped /\ RequestTyped /\ up
  BY Runs DEF IInv, Typed
<1>2. /\ task[a].step = "reading"
      /\ UNCHANGED <<row, part, request, port, plan, cleanup, up, gone>>
  BY DEF FinishReading
<1>3. /\ TaskTyped' /\ DOMAIN task' = DOMAIN task
      /\ \A b \in DOMAIN task : task[b].step = "reporting" => task'[b].step = "reporting"
  <2>1. PICK x \in Contents \cup {NoRoot} :
          \/ task' = [task EXCEPT ![a].step = "read", ![a].actual = x]
          \/ task' = [task EXCEPT ![a].step = "read"]
    BY DEF FinishReading, IInv, Typed, RowTyped
  <2>. QED BY <1>1, <1>2, <2>1 DEF TaskTyped, Tasks
<1>4. Kept(port', 0) /\ NoMarks(port', 0)
  BY <1>1, <1>2, Unmoved
<1>5. RequestTyped' /\ cleanup' \in BOOLEAN
  BY <1>1, <1>2, Frames DEF IInv, Typed, FlagsTyped
<1>. QED BY <1>1, <1>2, <1>3, <1>4, <1>5, PlainInv

\* The verdict is posted: the only step that adds one.
LEMMA ReportResultInv == ASSUME IInv, NEW a \in DOMAIN task, ReportResult(a) PROVE IInv'
<1>1. PICK c : c = IF task[a].actual = NoRoot THEN "markTransferFailed" ELSE "markTransferCompleted"
  OBVIOUS
<1>2. PICK x, b : x = task[a].actual /\ b = BytesRead
  OBVIOUS
<1>3. PortTyped /\ TaskTyped /\ RequestTyped /\ up
  BY Runs DEF IInv, Typed
<1>4. a \in Nat /\ x \in Contents \cup {NoRoot} /\ b \in Nat /\ c \in CallNames
      /\ c \in {"markTransferCompleted", "markTransferFailed"} /\ "idle" \in Phases
  BY <1>1, <1>2, <1>3, BytesReadIsNat DEF TaskTyped, Tasks, CallNames, Phases
<1>. DEFINE m == [OpenCall EXCEPT !.from = "verifier", !.attempt = a, !.root = x, !.bytes = b,
                                  !.call = c]
<1>5. /\ port' = Append(port, m) /\ task' = [task EXCEPT ![a].step = "reporting"]
      /\ UNCHANGED <<row, part, request, plan, cleanup, up, gone>> /\ task[a].step = "read"
  BY <1>1, <1>2 DEF ReportResult
<1>6. New(m, "verifier", c) /\ m.attempt = a
  <2>1. New(m, "verifier", c)
    BY <1>4, NewCalls
  <2>. QED BY <2>1 DEF OpenCall
<1>. HIDE DEF m
<1>7. m \in Calls /\ Open(m) /\ m.from = "verifier" /\ m.from # "startup"
  BY <1>6 DEF New
<1>8. Kept(port', 0)
  BY <1>3, <1>5, <1>7, Unmoved, Posted
<1>9. /\ TaskTyped' /\ DOMAIN task' = DOMAIN task /\ task'[a].step = "reporting"
      /\ \A d \in DOMAIN task : d # a => task'[d] = task[d]
  BY <1>3, <1>5 DEF TaskTyped, Tasks
<1>10. Typed' /\ StagingKept'
  BY <1>5, <1>8, <1>9, Frames DEF IInv, Typed, PortTyped, FlagsTyped, Kept
<1>11. Answered'
  BY <1>3, <1>5, <1>8, AnsweredKept DEF IInv
<1>12. Attempts'
  <2>1. 0 \notin DOMAIN task'
    BY <1>9 DEF TaskTyped
  <2>. QED BY <1>3, <1>5, <1>8, <1>9, <2>1, AttemptsKept DEF IInv
<1>13. Marking'
  <2>1. /\ Len(port') = Len(port) + 1 /\ Len(port) \in Nat /\ port'[Len(port) + 1] = m
        /\ \A i \in 1..Len(port) : port'[i] = port[i]
        /\ DOMAIN port = 1..Len(port) /\ DOMAIN port' = 1..Len(port')
    BY <1>3, <1>5, <1>7, <1>8, Ports, AppendProperties DEF PortTyped, Kept
  <2>2. \A i \in DOMAIN port' : i \in DOMAIN port \/ i = Len(port) + 1
    BY <2>1
  <2>3. ASSUME NEW i \in DOMAIN port, Mark(port[i])
        PROVE  /\ port[i].from = "verifier" /\ port[i].attempt \in DOMAIN task
               /\ task[port[i].attempt].step = "reporting" /\ port[i].attempt # a
    BY <1>5, <2>3 DEF IInv, Marking
  <2>4. ASSUME NEW i \in DOMAIN port', Mark(port'[i])
        PROVE  /\ port'[i].from = "verifier" /\ port'[i].attempt \in DOMAIN task'
               /\ task'[port'[i].attempt].step = "reporting"
    BY <1>6, <1>7, <1>9, <2>1, <2>2, <2>3, <2>4
  <2>5. ASSUME NEW i \in DOMAIN port', NEW j \in DOMAIN port', Mark(port'[i]), Mark(port'[j]),
               port'[i].attempt = port'[j].attempt
        PROVE  i = j
    <3>1. CASE i \in DOMAIN port /\ j \in DOMAIN port
      BY <2>1, <2>5, <3>1 DEF IInv, Marking
    <3>2. CASE i = Len(port) + 1 \/ j = Len(port) + 1
      BY <1>6, <2>1, <2>2, <2>3, <2>5, <3>2
    <3>. QED BY <2>2, <3>1, <3>2
  <2>. QED BY <2>4, <2>5 DEF Marking
<1>14. Starting'
  BY <1>3, <1>5, <1>8, <1>9, StartingKept DEF IInv
<1>15. Quiet'
  BY <1>3, <1>5, <1>8, <1>9, QuietKept DEF IInv
<1>. QED BY <1>10, <1>11, <1>12, <1>13, <1>14, <1>15 DEF IInv

LEMMA ResultReportedInv == ASSUME IInv, NEW a \in DOMAIN task, ResultReported(a) PROVE IInv'
<1>1. PICK c \in {"markTransferCompleted", "markTransferFailed"} : Answers("verifier", c)
  BY DEF ResultReported
<1>2. /\ up /\ port[1].call = c /\ Kept(Tail(port), 1) /\ NoMarks(Tail(port), 1) /\ 1 \in DOMAIN port
      /\ Answer = port[1].answer /\ Head(port) = port[1] /\ Mark(port[1])
  BY <1>1, Answering DEF Mark
<1>3. /\ port[1].attempt = a /\ EndTask(a, Tail(port))
      /\ plan' = IF Answer.error = "none" /\ Answer.flag /\ plan = a THEN 0 ELSE plan
      /\ UNCHANGED <<row, part, request, up, cleanup, gone>>
  BY <1>2 DEF ResultReported
<1>4. \A i \in DOMAIN port : 1 < i /\ Mark(port[i]) => port[i].attempt # a
  BY <1>2, <1>3 DEF IInv, Marking
<1>5. ASSUME NEW b \in DOMAIN task' \cup {plan'}, Verdicts(port[1], b) PROVE FALSE
  <2>1. b = a
    BY <1>2, <1>3, <1>5 DEF Verdicts, IInv, Answered, AnswerMeans
  <2>2. a \notin DOMAIN task' /\ a # 0
    BY <1>3 DEF EndTask, IInv, Typed, TaskTyped
  <2>3. plan' # a
    BY <1>2, <1>3, <1>5, <2>1, <2>2 DEF Verdicts, Good
  <2>. QED BY <1>5, <2>1, <2>2, <2>3
<1>6. plan' \in {plan, 0}
  BY <1>3
<1>. QED BY <1>2, <1>3, <1>4, <1>5, <1>6, EndInv

LEMMA TaskStopsInv ==
  ASSUME IInv, NEW a \in DOMAIN task, VerifierFails(a) \/ Terminated(a) PROVE IInv'
<1>1. /\ EndTask(a, port) /\ task[a].step # "reporting"
      /\ UNCHANGED <<row, part, request, up, cleanup, gone, plan>>
  BY DEF VerifierFails, Terminated
<1>2. Kept(port, 0) /\ NoMarks(port, 0)
  BY Unmoved DEF IInv, Typed
<1>3. \A i \in DOMAIN port : 0 < i /\ Mark(port[i]) => port[i].attempt # a
  BY <1>1 DEF IInv, Marking
<1>. QED BY <1>1, <1>2, <1>3, EndInv

LEMMA DroppedInv == ASSUME IInv, Dropped PROVE IInv'
<1>1. /\ port # <<>> /\ Head(port).from = "nobody" /\ port' = Tail(port)
      /\ UNCHANGED <<row, part, request, plan, task, cleanup, up, gone>>
  BY DEF Dropped
<1>2. PortTyped /\ TaskTyped /\ RequestTyped /\ up
  BY <1>1, Runs DEF IInv, Typed
<1>3. Kept(port', 1) /\ NoMarks(port', 1) /\ 1 \in DOMAIN port /\ Head(port) = port[1]
  BY <1>1, <1>2, Taken
<1>4. ~Mark(port[1])
  BY <1>1, <1>3 DEF IInv, Marking
<1>5. RequestTyped' /\ TaskTyped' /\ cleanup' \in BOOLEAN
  BY <1>1, <1>2, Frames DEF IInv, Typed, FlagsTyped
<1>. QED BY <1>1, <1>2, <1>3, <1>4, <1>5, PlainInv

LEMMA RemovedInv == ASSUME IInv, Removed PROVE IInv'
<1>1. /\ cleanup /\ cleanup' = FALSE /\ part' = [c \in Chunks |-> NoDigest]
      /\ request' = [s \in Slots |-> IF s \in Removing THEN Idle ELSE request[s]]
      /\ gone' = (gone \/ Removing # {})
      /\ UNCHANGED <<row, port, plan, task, up>>
  BY DEF Removed
<1>2. PortTyped /\ TaskTyped /\ RequestTyped /\ up /\ row.status = "cancelled" /\ DOMAIN task = {}
  BY <1>1, Runs DEF IInv, Typed, Quiet, Final
<1>3. /\ RequestTyped'
      /\ \A s \in Slots : request'[s].step \notin {"remove"}
      /\ \A s \in Slots : request'[s].step = "abort" => request'[s] = request[s]
  BY <1>1, <1>2 DEF RequestTyped, Requests, Idle, Steps, Removing
<1>4. Typed' /\ StagingKept'
  BY <1>1, <1>2, <1>3, Frames DEF IInv, Typed, PortTyped, FlagsTyped, RowTyped, StagingKept, Contents
<1>5. Answered' /\ Attempts' /\ Marking'
  BY <1>1 DEF IInv, Answered, Attempts, Marking, AnswerMeans, Current, Known
<1>6. Kept(port', 0)
  BY <1>1, <1>2, Unmoved
<1>7. Starting'
  BY <1>1, <1>2, <1>6, StartingKept DEF IInv
<1>8. Quiet'
  <2>1. Final /\ ~Staged'
    BY <1>1 DEF Final, Staged
  <2>. QED BY <1>1, <1>2, <1>3, <2>1 DEF IInv, Quiet
<1>. QED BY <1>4, <1>5, <1>7, <1>8 DEF IInv

\* A sequence of new calls behind the port.
LEMMA PostedAll ==
  ASSUME PortTyped, NEW w \in Seq(Calls),
         \A i \in DOMAIN w : Open(w[i]) /\ w[i].from # "startup" /\ ~Mark(w[i])
  PROVE  Kept(port \o w, 0) /\ NoMarks(port \o w, 0)
<1>. DEFINE q == port \o w
<1>1. /\ q \in Seq(Calls) /\ Len(q) = Len(port) + Len(w)
      /\ \A i \in 1..Len(q) : q[i] = IF i <= Len(port) THEN port[i] ELSE w[i - Len(port)]
  BY ConcatProperties DEF PortTyped
<1>2. /\ Len(port) \in Nat /\ Len(w) \in Nat /\ Len(q) \in Nat
      /\ DOMAIN w = 1..Len(w) /\ DOMAIN q = 1..Len(q)
  BY <1>1, Ports DEF PortTyped
<1>. HIDE DEF q
<1>3. ASSUME NEW i \in DOMAIN q
      PROVE  IF i <= Len(port) THEN q[i] = port[i]
             ELSE Open(q[i]) /\ q[i].from # "startup" /\ ~Mark(q[i])
  <2>1. CASE i <= Len(port)
    BY <1>1, <1>2, <2>1
  <2>2. CASE ~(i <= Len(port))
    <3>1. i - Len(port) \in DOMAIN w /\ q[i] = w[i - Len(port)]
      BY <1>1, <1>2, <2>2
    <3>. QED BY <2>2, <3>1
  <2>. QED BY <2>1, <2>2
<1>4. ASSUME NEW i \in DOMAIN q
      PROVE  /\ IF i + 0 <= Len(port) THEN Same(q[i], port[i + 0])
                                       ELSE Open(q[i]) /\ q[i].from # "startup"
             /\ i + 0 > Len(port) => ~Mark(q[i])
  <2>1. i + 0 = i /\ i \in Nat
    BY <1>2
  <2>. QED BY <1>2, <1>3, <2>1 DEF Same
<1>. QED BY <1>1, <1>2, <1>4 DEF Kept, NoMarks, q

LEMMA SetToSeqTyped ==
  ASSUME NEW S, IsFiniteSet(S)
  PROVE  SetToSeq(S) \in Seq(S)
<1>1. PICK f \in Bijection(1..Cardinality(S), S) : TRUE
  BY FS_CardinalityType DEF ExistsBijection
<1>2. f \in [1..Cardinality(S) -> S] /\ IsInjective(f)
  BY <1>1 DEF Bijection, Injection, IsInjective
<1>3. SetToSeq(S) \in [1..Cardinality(S) -> S]
  BY <1>2 DEF SetToSeq
<1>4. Cardinality(S) \in Nat
  BY FS_CardinalityType
<1>. QED BY <1>3, <1>4, SeqDef

LEMMA RemoveFailsInv == ASSUME IInv, RemoveFails PROVE IInv'
<1>. DEFINE S == {[OpenCall EXCEPT !.from = s, !.call = "getStatus"] : s \in Removing}
            w == SetToSeq(S)
<1>1. /\ cleanup /\ cleanup' = FALSE /\ port' = port \o w
      /\ request' = [s \in Slots |-> IF s \in Removing THEN [request[s] EXCEPT !.step = "restore"]
                                                       ELSE request[s]]
      /\ UNCHANGED <<row, part, plan, task, up, gone>>
  BY DEF RemoveFails
<1>2. PortTyped /\ TaskTyped /\ RequestTyped /\ up
  BY <1>1, Runs DEF IInv, Typed
<1>3. \A m \in S : m \in Calls /\ Open(m) /\ m.from # "startup" /\ ~Mark(m)
  <2>. SUFFICES ASSUME NEW s \in Removing, NEW m, m = [OpenCall EXCEPT !.from = s, !.call = "getStatus"]
                PROVE  m \in Calls /\ Open(m) /\ m.from # "startup" /\ ~Mark(m)
    OBVIOUS
  <2>1. s \in Slots
    BY DEF Removing
  <2>2. New(m, s, "getStatus")
    BY <2>1, Names2, NewCalls
  <2>3. \A x : New(x, s, "getStatus") => x \in Calls /\ Open(x) /\ x.from # "startup" /\ ~Mark(x)
    BY NoVerdict
  <2>. QED BY <2>2, <2>3, Zenon
<1>4. w \in Seq(S)
  <2>1. IsFiniteSet(Removing)
    BY ServiceAssumption, FS_Subset DEF Removing
  <2>2. IsFiniteSet(S)
    <3>. DEFINE f == [s \in Removing |-> [OpenCall EXCEPT !.from = s, !.call = "getStatus"]]
    <3>1. f \in Surjection(Removing, S)
      BY DEF Surjection
    <3>. QED BY <2>1, <3>1, FS_Surjection
  <2>. QED BY <2>2, SetToSeqTyped
<1>. HIDE DEF S, w
<1>5. w \in Seq(Calls) /\ \A i \in DOMAIN w : w[i] \in S
  <2>1. w \in [1..Len(w) -> S] /\ Len(w) \in Nat /\ DOMAIN w = 1..Len(w)
    BY <1>4, Ports, LenProperties
  <2>2. w \in [1..Len(w) -> Calls]
    BY <1>3, <2>1
  <2>. QED BY <2>1, <2>2, SeqDef
<1>6. Kept(port', 0) /\ NoMarks(port', 0)
  BY <1>1, <1>2, <1>3, <1>5, PostedAll
<1>7. /\ RequestTyped'
      /\ \A s \in Slots : request'[s].step \in {"abort", "remove"} => request'[s] = request[s]
  BY <1>1, <1>2 DEF RequestTyped, Requests, Steps, Removing
<1>8. TaskTyped' /\ cleanup' \in BOOLEAN
  BY <1>1, <1>2, Frames
<1>. QED BY <1>1, <1>2, <1>6, <1>7, <1>8, PlainInv

-----------------------------------------------------------------------------
(* The process. *)

LEMMA CrashInv == ASSUME IInv, Crash PROVE IInv'
<1>1. /\ up' = FALSE /\ request' = [s \in Slots |-> Idle] /\ port' = <<>> /\ plan' = 0
      /\ task' = Empty /\ cleanup' = FALSE /\ UNCHANGED <<row, part, gone>>
  BY DEF Crash
<1>2. /\ task' = [a \in {} |-> NewTask] /\ DOMAIN task' = {}
      /\ port' \in Seq(Calls) /\ DOMAIN port' = {}
  <2>1. port' \in Seq(Calls) /\ Len(port') = 0
    BY <1>1, EmptySeq
  <2>2. DOMAIN port' = 1..0
    BY <2>1, Ports
  <2>. QED BY <1>1, <2>1, <2>2 DEF Empty
<1>3. RequestTyped' /\ \A s \in Slots : request'[s] = Idle /\ request'[s].step = "none"
  BY <1>1 DEF RequestTyped, Requests, Idle, Steps
<1>4. Typed' /\ StagingKept'
  BY <1>1, <1>2, <1>3, Frames DEF IInv, Typed, PortTyped, TaskTyped, FlagsTyped
<1>5. Answered' /\ Attempts' /\ Marking' /\ Starting'
  BY <1>1, <1>2, <1>3 DEF Answered, Attempts, Marking, Starting
<1>6. Quiet'
  BY <1>1, <1>2, <1>3 DEF IInv, Quiet, Final, Removing, Staged
<1>. QED BY <1>4, <1>5, <1>6 DEF IInv

LEMMA RestartInv == ASSUME IInv, Restart PROVE IInv'
<1>. DEFINE m == [OpenCall EXCEPT !.from = "startup", !.call = "listCancelledTransferIds"]
<1>1. /\ ~up /\ up' = TRUE /\ port' = Append(port, m)
      /\ UNCHANGED <<row, part, request, plan, task, cleanup, gone>>
  BY DEF Restart, Post
<1>2. /\ port = <<>> /\ DOMAIN task = {} /\ ~cleanup
      /\ \A s \in Slots : request[s].step = "none"
  BY <1>1 DEF IInv, Starting, Idle
<1>3. m \in Calls /\ Open(m) /\ ~Mark(m)
  BY DEF OpenCall, Calls, Sources, CallNames, Phases, Replies, Errors, Open, Mark
<1>. HIDE DEF m
<1>4. port' \in Seq(Calls) /\ DOMAIN port' = {1} /\ port'[1] = m
  <2>1. port \in Seq(Calls) /\ Len(port) = 0
    BY <1>2, EmptySeq
  <2>2. port' \in Seq(Calls) /\ Len(port') = 1 /\ port'[1] = m
    BY <1>1, <1>3, <2>1, AppendProperties
  <2>3. DOMAIN port' = 1..1
    BY <2>2, Ports
  <2>. QED BY <2>2, <2>3
<1>5. Typed' /\ StagingKept'
  BY <1>1, <1>4, Frames DEF IInv, Typed, PortTyped, FlagsTyped
<1>6. Answered' /\ Marking' /\ Starting'
  BY <1>1, <1>2, <1>3, <1>4 DEF Answered, Marking, Starting, AnswerMeans, Open, Good
<1>7. Attempts'
  <2>1. plan # 0 => plan = row.attempt /\ row.status \in {"completing", "cancelled"} /\ Known(plan)
    BY <1>2 DEF IInv, Attempts, Known, Current
  <2>2. plan # 0 => Known(plan)'
    BY <1>1, <1>3, <1>4, <2>1 DEF Known, Current, Good, Open
  <2>. QED BY <1>1, <1>2, <2>2 DEF Attempts
<1>8. Quiet'
  BY <1>1, <1>2, <1>3, <1>4 DEF IInv, Quiet, Final, Removing, Staged, Good, Open
<1>. QED BY <1>5, <1>6, <1>7, <1>8 DEF IInv

\* The staging of a transfer that is cancelled is removed at startup.
LEMMA CancelledListedInv == ASSUME IInv, CancelledListed PROVE IInv'
<1>1. Answers("startup", "listCancelledTransferIds")
  BY DEF CancelledListed
<1>2. /\ up /\ port[1].call = "listCancelledTransferIds" /\ port[1].from = "startup"
      /\ Kept(Tail(port), 1) /\ NoMarks(Tail(port), 1)
      /\ ~Mark(port[1]) /\ 1 \in DOMAIN port /\ Answer = port[1].answer
  BY <1>1, Answering DEF Mark
<1>3. /\ port' = Tail(port)
      /\ cleanup' = (cleanup \/ (Answer.error = "none" /\ Answer.status = "cancelled"))
      /\ UNCHANGED <<row, part, request, plan, task, up, gone>>
  BY DEF CancelledListed
<1>4. PortTyped /\ TaskTyped /\ RequestTyped /\ DOMAIN task = {}
  BY <1>2 DEF IInv, Typed, Starting
<1>5. CASE ~(Answer.error = "none" /\ Answer.status = "cancelled")
  <2>1. RequestTyped' /\ TaskTyped' /\ cleanup' \in BOOLEAN /\ (cleanup' => cleanup)
    BY <1>3, <1>4, <1>5, Frames DEF IInv, Typed, FlagsTyped
  <2>. QED BY <1>2, <1>3, <1>4, <2>1, PlainInv
<1>6. CASE Answer.error = "none" /\ Answer.status = "cancelled"
  <2>1. row.status = "cancelled" /\ Good(port[1]) /\ port[1].answer.status = "cancelled"
    BY <1>2, <1>6 DEF IInv, Answered, AnswerMeans, Good
  <2>2. Typed' /\ StagingKept'
    BY <1>2, <1>3, <1>4, Frames DEF IInv, Typed, PortTyped, FlagsTyped, Kept
  <2>3. Answered'
    BY <1>2, <1>3, <1>4, AnsweredKept DEF IInv
  <2>4. Attempts'
    <3>1. \A a \in DOMAIN task' \cup {plan'} : ~Verdicts(port[1], a)
      BY <1>2 DEF Verdicts
    <3>. QED BY <1>2, <1>3, <1>4, <3>1, AttemptsKept DEF IInv
  <2>5. Marking'
    BY <1>2, <1>3, <1>4, MarkingKept DEF IInv, Marking
  <2>6. Starting'
    BY <1>2, <1>3, <1>4, StartingKept DEF IInv
  <2>7. Quiet'
    <3>1. ASSUME NEW i \in DOMAIN port', Good(port'[i]) PROVE port'[i].answer.status = "cancelled"
      <4>1. i + 1 \in DOMAIN port /\ port'[i].answer = port[i + 1].answer /\ i \in Nat \ {0}
        BY <1>2, <1>3, <1>4, <3>1, Kin DEF Good, Open
      <4>2. Follows(port[1], port[i + 1])
        BY <1>2, <4>1 DEF IInv, Answered
      <4>. QED BY <2>1, <3>1, <4>1, <4>2 DEF Follows, Good
    <3>. QED BY <1>3, <1>4, <2>1, <3>1 DEF IInv, Quiet, Removing, Staged
  <2>. QED BY <2>2, <2>3, <2>4, <2>5, <2>6, <2>7 DEF IInv
<1>. QED BY <1>5, <1>6

-----------------------------------------------------------------------------
(* The steps that change the row. *)

\* A row that is neither sealed nor cancelled keeps nothing of an attempt.
LEMMA RowInv ==
  ASSUME IInv, UNCHANGED <<request, port, plan, task, cleanup, up, gone>>,
         RowTyped', StagingKept', row'.attempt = row.attempt,
         row.status \notin {"completing", "cancelled"}
  PROVE  IInv'
<1>1. Typed'
  BY Frames DEF IInv, Typed, PortTyped
<1>2. \A a, i : Current(a, i) => Current(a, i)'
  BY DEF Current
<1>3. Answered'
  BY <1>2 DEF IInv, Answered, AnswerMeans
<1>4. Attempts'
  BY <1>2 DEF IInv, Attempts, Known
<1>5. Marking' /\ Starting'
  BY DEF IInv, Marking, Starting
<1>6. Quiet'
  BY DEF IInv, Quiet, Final, Removing
<1>. QED BY <1>1, <1>3, <1>4, <1>5, <1>6 DEF IInv

\* Nothing has changed but what the model does not need.
LEMMA StutterInv ==
  ASSUME IInv, UNCHANGED <<row, part, request, port, plan, task, cleanup, up, gone>>
  PROVE  IInv'
BY Frames DEF IInv, Typed, PortTyped, Answered, AnswerMeans, Current, Attempts, Known, Marking,
              Starting, Quiet, Final, Removing, Staged

LEMMA CreateTransferInv == ASSUME IInv, NEW m \in Manifests, CreateTransfer(m) PROVE IInv'
<1>1. /\ row' = CreateOrGet(row, Sender, m).row
      /\ UNCHANGED <<part, request, port, plan, task, cleanup, up, gone>>
  BY DEF CreateTransfer, memory
<1>2. RowTyped /\ row \in Rows
  BY DEF IInv, Typed, RowTyped
<1>3. CASE row' = row
  BY <1>1, <1>3, StutterInv
<1>4. CASE /\ row.status = "absent"
           /\ row' = [row EXCEPT !.status = "negotiating", !.owner = Sender, !.manifest = m]
  <2>1. /\ row' \in Rows /\ row'.attempt = row.attempt /\ row'.chunk = row.chunk
        /\ row'.owner = Sender /\ row'.status = "negotiating"
    BY <1>2, <1>4, ServiceAssumption, Names DEF Rows
  <2>2. RowTyped' /\ StagingKept'
    BY <1>1, <1>4, <2>1 DEF RowTyped, StagingKept, IInv, Typed
  <2>. QED BY <1>1, <1>4, <2>1, <2>2, RowInv
<1>. QED BY <1>1, <1>3, <1>4 DEF CreateOrGet, Tx, Check

LEMMA UploadChunkInv ==
  ASSUME IInv, NEW c \in Chunks, NEW d \in Digests, UploadChunk(c, d) PROVE IInv'
<1>. DEFINE new    == [x \in {c} |-> d]
            filled == [row.chunk EXCEPT ![c] = d]
<1>1. /\ Writable(row) /\ row.chunk[c] = NoDigest /\ part' = [part EXCEPT ![c] = d]
      /\ row' = CommitChunkBatch(row, Sender, new, {c}).row
      /\ UNCHANGED <<request, port, plan, task, cleanup, up, gone>>
  BY DEF UploadChunk, memory
<1>2. /\ row \in Rows /\ row.chunk \in Contents /\ row.status \in {"negotiating", "transferring"}
      /\ row.owner = Sender /\ part = row.chunk /\ d # NoDigest
  BY <1>1, RowAssumption DEF IInv, Typed, RowTyped, Rows, Writable, StagingKept
<1>3. DOMAIN new = {c} /\ {x \in DOMAIN new : row.chunk[x] = NoDigest} = {c}
      /\ filled = [x \in Chunks |-> IF x \in {c} THEN new[x] ELSE row.chunk[x]]
      /\ filled[c] = d /\ filled \in Contents
  BY <1>1, <1>2 DEF Contents
<1>4. WriteError(row, Sender) = "none"
  BY <1>2 DEF WriteError, OwnerError, Then, Check, Writable
<1>5. row' = Bump([row EXCEPT !.status = "transferring", !.chunk = filled,
                              !.received = @ + Cardinality({c})])
  <2>. DEFINE ins == {x \in DOMAIN new : row.chunk[x] = NoDigest}
  <2>1. row' = Tx(row, Then(WriteError(row, Sender),
                        Then(Check(\A x \in DOMAIN new : filled[x] = new[x], "CHUNK_CONFLICT"),
                             Check(\A x \in {c} : filled[x] # NoDigest, "TRANSFER_CHUNK_NOT_FOUND"))),
                   IF ins = {} THEN row
                   ELSE Bump([row EXCEPT !.status = "transferring", !.chunk = filled,
                                         !.received = @ + Cardinality(ins)])).row
    BY <1>1, <1>3 DEF CommitChunkBatch
  <2>2. (\A x \in DOMAIN new : filled[x] = new[x]) /\ (\A x \in {c} : filled[x] # NoDigest)
    BY <1>2, <1>3
  <2>3. ins = {c} /\ ins # {}
    BY <1>3
  <2>. HIDE DEF new, filled, ins
  <2>. QED BY <1>4, <2>1, <2>2, <2>3 DEF Tx, Then, Check
<1>6. row.received + Cardinality({c}) \in Nat /\ row.revision + 1 \in Nat
  BY <1>2, FS_Singleton DEF Rows
<1>7. /\ row' \in Rows /\ row'.chunk = filled /\ row'.attempt = row.attempt
      /\ row'.owner = row.owner /\ row'.status = "transferring"
  <2>1. row' = [row EXCEPT !.status = "transferring", !.chunk = filled,
                           !.received = @ + Cardinality({c}), !.revision = @ + 1]
    BY <1>2, <1>5 DEF Bump, Rows
  <2>. HIDE DEF filled
  <2>2. row' \in Rows
    BY <1>2, <1>3, <1>6, <2>1, Names, Zenon DEF Rows
  <2>. QED BY <1>2, <2>1, <2>2 DEF Rows
<1>8. RowTyped' /\ StagingKept'
  BY <1>1, <1>2, <1>3, <1>7 DEF RowTyped, StagingKept
<1>. QED BY <1>1, <1>2, <1>7, <1>8, RowInv

\* The call at i is answered; x is the answer.
Executes(i, x) ==
  /\ Open(port[i]) /\ \A j \in 1..(i - 1) : ~Open(port[j])
  /\ port' = [port EXCEPT ![i].answer = x]
  /\ UNCHANGED <<part, request, plan, task, cleanup, up, gone>>

LEMMA Executed ==
  ASSUME PortTyped, NEW i \in DOMAIN port, NEW x \in Replies, Executes(i, x)
  PROVE  /\ port' \in Seq(Calls) /\ DOMAIN port' = DOMAIN port /\ i \in Nat \ {0}
         /\ DOMAIN port \subseteq Nat \ {0}
         /\ port'[i] = [port[i] EXCEPT !.answer = x] /\ port'[i].answer = x
         /\ \A j \in DOMAIN port : j # i => port'[j] = port[j]
         /\ \A j \in DOMAIN port : /\ port'[j].call = port[j].call /\ port'[j].from = port[j].from
                                   /\ port'[j].attempt = port[j].attempt
         /\ \A j \in DOMAIN port : j < i => ~Open(port[j])
         /\ \A j \in DOMAIN port : port[j] \in Calls
<1>1. Len(port) \in Nat /\ DOMAIN port = 1..Len(port) /\ \A j \in DOMAIN port : port[j] \in Calls
  BY Ports DEF PortTyped
<1>2. [port[i] EXCEPT !.answer = x] \in Calls
  BY <1>1 DEF Calls
<1>3. port' \in [1..Len(port) -> Calls]
  BY <1>1, <1>2 DEF Executes, PortTyped
<1>4. /\ DOMAIN port' = DOMAIN port /\ port'[i] = [port[i] EXCEPT !.answer = x]
      /\ \A j \in DOMAIN port : j # i => port'[j] = port[j]
  BY <1>1, <1>3 DEF Executes
<1>5. /\ port'[i].call = port[i].call /\ port'[i].from = port[i].from
      /\ port'[i].attempt = port[i].attempt /\ port'[i].answer = x
  BY <1>1, <1>4 DEF Calls
<1>6. \A j \in DOMAIN port : j < i => j \in 1..(i - 1)
  BY <1>1
<1>7. port' \in Seq(Calls)
  BY <1>1, <1>3, SeqDef
<1>. QED BY <1>1, <1>4, <1>5, <1>6, <1>7 DEF Executes

\* The database failed: the answer says nothing of the row.
LEMMA ExecuteFailsInv ==
  ASSUME IInv, NEW i \in DOMAIN port, NEW x \in Replies, Executes(i, x), x.error = "STORAGE_ERROR",
         row' = row
  PROVE  IInv'
<1>1. PortTyped /\ ~Good(port[i]) /\ ~Good(port'[i]) /\ ~Open(port'[i]) /\ Open(port[i])
  <2>1. PortTyped /\ port'[i].answer = x
    BY Executed DEF IInv, Typed
  <2>. QED BY <2>1 DEF Good, Open, Executes
<1>2. \A j \in DOMAIN port : j # i => port'[j] = port[j]
  BY <1>1, Executed
<1>3. /\ DOMAIN port' = DOMAIN port /\ DOMAIN port \subseteq Nat \ {0}
      /\ \A j \in DOMAIN port : /\ (Mark(port'[j]) <=> Mark(port[j])) /\ port'[j].from = port[j].from
                                /\ port'[j].attempt = port[j].attempt
      /\ \A j \in DOMAIN port : Good(port'[j]) <=> Good(port[j])
      /\ \A j \in DOMAIN port : j < i => ~Open(port[j])
  <2>1. \A j \in DOMAIN port : Good(port'[j]) <=> Good(port[j])
    BY <1>1, <1>2
  <2>2. \A j \in DOMAIN port : port'[j].call = port[j].call
    BY <1>1, Executed
  <2>3. \A j \in DOMAIN port : Mark(port'[j]) <=> Mark(port[j])
    BY <2>2 DEF Mark
  <2>. QED BY <1>1, <2>1, <2>3, Executed
<1>4. Typed' /\ StagingKept'
  BY <1>1, Executed, Frames DEF IInv, Typed, PortTyped, FlagsTyped, Executes
<1>5. \A a, j : Current(a, j) => Current(a, j)'
  <2>1. \A a : \A j \in DOMAIN port : Verdicts(port[j], a) => Verdicts(port'[j], a)
    BY <1>1, <1>2 DEF Verdicts
  <2>. QED BY <1>3, <2>1 DEF Current
<1>6. Answered'
  <2>1. ASSUME NEW j \in DOMAIN port PROVE AnswerMeans(port[j])'
    BY <1>1, <1>2 DEF IInv, Answered, AnswerMeans
  <2>2. ASSUME NEW j \in DOMAIN port, NEW l \in DOMAIN port, j < l PROVE Follows(port'[j], port'[l])
    <3>1. Follows(port[j], port[l]) /\ (j < i => ~Open(port[j])) /\ j \in Nat /\ l \in Nat
      BY <1>3, <2>2 DEF IInv, Answered
    <3>. QED BY <1>1, <1>2, <2>2, <3>1 DEF Follows
  <2>3. ASSUME NEW j \in DOMAIN port, Good(port'[j]), port'[j].answer.status = "completing"
        PROVE  Current(port[j].answer.attempt, j)'
    <3>1. port'[j] = port[j] /\ Good(port[j])
      BY <1>1, <1>2, <2>3
    <3>2. PICK a : a = port[j].answer.attempt
      OBVIOUS
    <3>3. Current(a, j)
      BY <2>3, <3>1, <3>2 DEF IInv, Answered
    <3>4. Current(a, j)'
      BY <1>5, <3>3
    <3>. QED BY <3>1, <3>2, <3>4
  <2>. QED BY <1>3, <2>1, <2>2, <2>3 DEF Answered
<1>7. Attempts'
  <2>1. \A a : Known(a) => Known(a)'
    BY <1>1, <1>2, <1>3, <1>5 DEF Known
  <2>. QED BY <2>1 DEF IInv, Attempts, Executes
<1>8. Marking' /\ Starting'
  <2>1. port # <<>> /\ up
    BY Runs, EmptySeq, Ports DEF IInv, Typed, PortTyped
  <2>. QED BY <1>3, <2>1 DEF IInv, Marking, Starting, Executes
<1>9. Quiet'
  <2>1. \A j \in DOMAIN port : Good(port'[j]) => Good(port[j]) /\ port'[j] = port[j]
    BY <1>1, <1>2
  <2>. QED BY <1>3, <2>1 DEF IInv, Quiet, Final, Removing, Staged, Executes
<1>. QED BY <1>4, <1>6, <1>7, <1>8, <1>9 DEF IInv

\* The call ran: the row is the one it led to, and the answer tells of it.
LEMMA ExecuteAnswersInv ==
  ASSUME IInv, NEW i \in DOMAIN port, NEW x \in Replies, Executes(i, x),
         row' = Effect(port[i]).row,
         x = [error |-> Effect(port[i]).error, status |-> row'.status, attempt |-> row'.attempt,
              flag |-> Flag(port[i], row')]
  PROVE  IInv'
<1>. DEFINE m == port[i]
<1>1. /\ PortTyped /\ RowTyped /\ row \in Rows /\ m \in Calls
      /\ DOMAIN port' = DOMAIN port /\ DOMAIN port \subseteq Nat \ {0}
      /\ port'[i].answer = x /\ Open(m)
      /\ \A j \in DOMAIN port : j # i => port'[j] = port[j]
      /\ \A j \in DOMAIN port : /\ port'[j].call = port[j].call /\ port'[j].from = port[j].from
                                /\ port'[j].attempt = port[j].attempt
      /\ \A j \in DOMAIN port : j < i => ~Open(port[j])
  BY Executed DEF IInv, Typed, RowTyped, Executes
<1>2. Leads(m, row', x.error) /\ x.status = row'.status /\ x.attempt = row'.attempt
      /\ x.flag = Flag(m, row')
  BY <1>1, EffectLeads
<1>3. /\ row' \in Rows /\ row'.chunk = row.chunk /\ row'.owner = row.owner
      /\ row'.attempt \in Nat /\ row.attempt \in Nat /\ row.attempt <= row'.attempt
      /\ row.status = "cancelled" => row'.status = "cancelled"
  BY <1>1, <1>2 DEF Leads, Rows
<1>4. \A j \in DOMAIN port : Mark(port'[j]) <=> Mark(port[j])
  BY <1>1 DEF Mark
<1>5. ASSUME NEW a, NEW j, j < i, Current(a, j) PROVE Current(a, j)'
  <2>1. CASE \E l \in DOMAIN port : j < l /\ Verdicts(port[l], a)
    <3>1. PICK l \in DOMAIN port : j < l /\ Verdicts(port[l], a)
      BY <2>1
    <3>2. l # i
      BY <1>1, <3>1 DEF Verdicts, Good, Open
    <3>3. Verdicts(port'[l], a)
      BY <1>1, <3>1, <3>2
    <3>. QED BY <1>1, <3>1, <3>3 DEF Current
  <2>2. CASE a = row.attempt /\ row.status \in {"completing", "cancelled"}
    <3>1. CASE row'.attempt = a /\ row'.status \in {"completing", "cancelled"}
      BY <3>1 DEF Current
    <3>2. CASE Mark(m) /\ row' # row
      <4>1. x.error = "none" /\ x.attempt = a /\ x.flag
        BY <1>2, <2>2, <3>2 DEF Leads, Flag, Mark
      <4>2. Verdicts(port'[i], a)
        BY <1>1, <1>4, <3>2, <4>1 DEF Verdicts, Good
      <4>. QED BY <1>1, <1>5, <4>2 DEF Current
    <3>. QED BY <1>2, <2>2, <3>1, <3>2 DEF Leads
  <2>. QED BY <1>5, <2>1, <2>2 DEF Current
<1>6. Typed' /\ StagingKept'
  <2>1. RowTyped'
    <3>1. row'.status = "completing" => row'.attempt # 0
      <4>1. row'.status = "completing" => row.status = "completing" \/ row'.attempt # 0
        BY <1>2 DEF Leads
      <4>2. row.status = "completing" => row'.attempt = row.attempt
        BY <1>2 DEF Leads
      <4>3. row.status = "completing" => row.attempt # 0
        BY <1>1 DEF RowTyped
      <4>. QED BY <4>1, <4>2, <4>3
    <3>2. row'.status = "absent" \/ row'.owner = Sender
      BY <1>1, <1>2 DEF Leads, RowTyped
    <3>3. part' \in Contents
      BY <1>1 DEF RowTyped, Executes
    <3>. QED BY <1>3, <3>1, <3>2, <3>3 DEF RowTyped
  <2>2. StagingKept'
    BY <1>3 DEF IInv, StagingKept, Executes
  <2>. QED BY <1>1, <2>1, <2>2, Executed, Frames DEF IInv, Typed, PortTyped, FlagsTyped, Executes
<1>7. Good(port'[i]) => /\ x.error = "none" /\ port'[i].answer.attempt = row'.attempt
                        /\ port'[i].answer.status = row'.status
                        /\ port'[i].answer.flag = Flag(m, row')
  BY <1>1, <1>2 DEF Good
<1>8. ASSUME NEW j \in DOMAIN port PROVE AnswerMeans(port[j])'
  <2>1. CASE j # i
    <3>1. port'[j] = port[j] /\ AnswerMeans(port[j])
      BY <1>1, <2>1 DEF IInv, Answered
    <3>2. port[j].answer.attempt \in Nat
      <4>1. port[j] \in Calls
        BY <1>1, Ports DEF PortTyped
      <4>. QED BY <4>1 DEF Calls, Replies
    <3>. QED BY <1>3, <3>1, <3>2 DEF AnswerMeans
  <2>2. CASE j = i
    <3>. SUFFICES ASSUME Good(port'[i]) PROVE AnswerMeans(port[i])'
      BY <2>2 DEF AnswerMeans
    <3>1. /\ port'[i].answer.attempt <= row'.attempt
          /\ port'[i].answer.status = "cancelled" => row'.status = "cancelled"
      BY <1>3, <1>7
    <3>2. port'[i].answer.status = "completing" => port'[i].answer.attempt # 0
      BY <1>6, <1>7 DEF Typed, RowTyped
    <3>3. port'[i].call = "cancelTransfer" => port'[i].answer.status = "cancelled"
      BY <1>1, <1>2, <1>7 DEF Leads
    <3>4. port'[i].call = "getCompletionVerificationPlan" /\ port'[i].answer.flag =>
            port'[i].answer.status = "completing" /\ port'[i].answer.attempt = port'[i].attempt
      BY <1>1, <1>2, <1>7 DEF Leads, Flag, IsCurrentAttempt
    <3>5. Mark(port'[i]) /\ port'[i].answer.flag => port'[i].answer.attempt = port'[i].attempt
      BY <1>1, <1>2, <1>4, <1>7 DEF Leads, Flag, Mark
    <3>. QED BY <3>1, <3>2, <3>3, <3>4, <3>5 DEF AnswerMeans
  <2>. QED BY <2>1, <2>2
<1>9. ASSUME NEW j \in DOMAIN port, NEW l \in DOMAIN port, j < l
      PROVE  Follows(port'[j], port'[l])
  <2>1. Follows(port[j], port[l]) /\ j \in Nat /\ l \in Nat /\ AnswerMeans(port[j])
    BY <1>1, <1>9 DEF IInv, Answered
  <2>2. CASE j # i /\ l # i
    BY <1>1, <2>1, <2>2
  <2>3. CASE l = i
    <3>1. port'[j] = port[j] /\ ~Open(port[j])
      BY <1>1, <1>9, <2>1, <2>3
    <3>2. port[j].answer.attempt \in Nat
      <4>1. port[j] \in Calls
        BY <1>1, Ports DEF PortTyped
      <4>. QED BY <4>1 DEF Calls, Replies
    <3>. QED BY <1>3, <1>7, <2>1, <2>3, <3>1, <3>2 DEF Follows, AnswerMeans
  <2>4. CASE j = i
    <3>1. port'[l] = port[l] /\ Open(port[l])
      BY <1>1, <1>9, <2>1, <2>4 DEF Follows
    <3>. QED BY <3>1 DEF Follows, Open, Good
  <2>. QED BY <2>2, <2>3, <2>4
<1>10. ASSUME NEW j \in DOMAIN port, Good(port'[j]), port'[j].answer.status = "completing"
       PROVE  Current(port[j].answer.attempt, j)'
  <2>1. CASE j = i
    BY <1>7, <1>10, <2>1 DEF Current
  <2>2. CASE j # i
    <3>1. port'[j] = port[j] /\ Good(port[j]) /\ j \in Nat /\ i \in Nat
      BY <1>1, <1>10, <2>2
    <3>2. j < i
      <4>1. i < j => Follows(port[i], port[j])
        BY DEF IInv, Answered
      <4>2. i < j => Open(port[j])
        BY <1>1, <4>1 DEF Follows
      <4>. QED BY <2>2, <3>1, <4>2 DEF Open, Good
    <3>3. PICK a : a = port[j].answer.attempt
      OBVIOUS
    <3>4. Current(a, j)
      BY <1>10, <3>1, <3>3 DEF IInv, Answered
    <3>5. Current(a, j)'
      BY <1>5, <3>2, <3>4
    <3>. QED BY <3>1, <3>3, <3>5
  <2>. QED BY <2>1, <2>2
<1>11. Answered'
  BY <1>1, <1>8, <1>9, <1>10 DEF Answered
<1>12. Attempts'
  <2>1. ASSUME NEW a \in Nat, Known(a) PROVE Known(a)'
    <3>1. a <= row'.attempt
      BY <1>3, <2>1 DEF Known
    <3>2. Current(a, 0)'
      BY <1>1, <1>5, <2>1 DEF Known
    <3>3. ASSUME NEW j \in DOMAIN port, Good(port'[j]) PROVE a <= port'[j].answer.attempt
      BY <1>1, <1>7, <2>1, <3>1, <3>3 DEF Known
    <3>. QED BY <1>1, <3>1, <3>2, <3>3 DEF Known
  <2>2. DOMAIN task \subseteq Nat /\ plan \in Nat
    BY DEF IInv, Typed, TaskTyped
  <2>. QED BY <2>1, <2>2 DEF IInv, Attempts, Executes
<1>13. Marking' /\ Starting'
  <2>1. port # <<>> /\ up
    BY Runs, EmptySeq, Ports DEF IInv, Typed, PortTyped
  <2>. QED BY <1>1, <1>4, <2>1 DEF IInv, Marking, Starting, Executes
<1>14. Quiet'
  <2>1. ASSUME Final PROVE row'.status = "cancelled"
    BY <1>3, <2>1 DEF IInv, Quiet
  <2>2. ASSUME Final, NEW j \in DOMAIN port, Good(port'[j])
        PROVE  port'[j].answer.status = "cancelled"
    BY <1>1, <1>7, <2>1, <2>2 DEF IInv, Quiet
  <2>. QED BY <1>1, <2>1, <2>2 DEF IInv, Quiet, Final, Removing, Staged, Executes
<1>. QED BY <1>6, <1>11, <1>12, <1>13, <1>14 DEF IInv

LEMMA ExecuteInv == ASSUME IInv, Execute PROVE IInv'
<1>1. PICK i \in DOMAIN port :
        /\ port[i].answer.error = "open" /\ \A k \in 1..(i - 1) : port[k].answer.error # "open"
        /\ \/ /\ row' = Effect(port[i]).row
              /\ port' = [port EXCEPT ![i].answer =
                   [error |-> Effect(port[i]).error, status |-> Effect(port[i]).row.status,
                    attempt |-> Effect(port[i]).row.attempt,
                    flag |-> Flag(port[i], Effect(port[i]).row)]]
           \/ /\ port' = [port EXCEPT ![i].answer.error = "STORAGE_ERROR"] /\ row' = row
        /\ UNCHANGED <<part, request, plan, task, cleanup, up, gone>>
  BY DEF Execute
<1>2. row \in Rows /\ PortTyped /\ port[i] \in Calls
  BY Ports DEF IInv, Typed, RowTyped, PortTyped
<1>3. CASE /\ row' = Effect(port[i]).row
           /\ port' = [port EXCEPT ![i].answer =
                [error |-> Effect(port[i]).error, status |-> Effect(port[i]).row.status,
                 attempt |-> Effect(port[i]).row.attempt,
                 flag |-> Flag(port[i], Effect(port[i]).row)]]
  <2>1. PICK x : x = [error |-> Effect(port[i]).error, status |-> row'.status,
                      attempt |-> row'.attempt, flag |-> Flag(port[i], row')]
    OBVIOUS
  <2>2. Effect(port[i]).error \in Errors /\ row' \in Rows
    BY <1>2, <1>3, EffectLeads DEF Leads
  <2>3. Flag(port[i], row') \in BOOLEAN
    BY DEF Flag, IsCurrentAttempt
  <2>4. x \in Replies
    BY <2>1, <2>2, <2>3 DEF Replies, Rows
  <2>5. Executes(i, x)
    BY <1>1, <1>3, <2>1 DEF Executes, Open
  <2>. QED BY <1>3, <2>1, <2>4, <2>5, ExecuteAnswersInv
<1>4. CASE port' = [port EXCEPT ![i].answer.error = "STORAGE_ERROR"] /\ row' = row
  <2>1. PICK x : x = [port[i].answer EXCEPT !.error = "STORAGE_ERROR"]
    OBVIOUS
  <2>2. x \in Replies /\ x.error = "STORAGE_ERROR"
    BY <1>2, <2>1 DEF Calls, Replies, Errors
  <2>3. Executes(i, x)
    BY <1>1, <1>4, <2>1 DEF Executes, Open
  <2>. QED BY <1>4, <2>2, <2>3, ExecuteFailsInv
<1>. QED BY <1>1, <1>3, <1>4

-----------------------------------------------------------------------------
(* The invariant. *)

LEMMA InitInv == Init => IInv
<1>. SUFFICES ASSUME Init PROVE IInv
  OBVIOUS
<1>1. \A c \in Chunks : part[c] = NoDigest
  BY DEF Init
<1>2. /\ part \in Contents /\ row = AbsentRow /\ row.chunk = part /\ row.status = "absent"
      /\ port = <<>> /\ DOMAIN port = {} /\ DOMAIN task = {} /\ plan = 0 /\ task = Empty
      /\ up /\ ~cleanup /\ ~gone /\ \A s \in Slots : request[s] = Idle /\ request[s].step = "none"
  BY DEF Init, AbsentRow, Contents, Empty, Idle
<1>3. RowTyped
  <2>1. AbsentRow \in Rows
    BY Names DEF AbsentRow, Rows, Contents
  <2>. QED BY <1>2, <2>1 DEF RowTyped
<1>4. RequestTyped
  <2>1. Idle \in Requests
    BY DEF Idle, Requests, Steps
  <2>. QED BY <2>1 DEF Init, RequestTyped
<1>5. PortTyped
  BY <1>2, EmptySeq DEF PortTyped
<1>6. TaskTyped
  BY <1>2 DEF TaskTyped, Empty
<1>7. FlagsTyped
  BY DEF Init, FlagsTyped
<1>8. StagingKept
  BY <1>2 DEF StagingKept
<1>9. Answered /\ Marking
  BY <1>2 DEF Answered, Marking
<1>10. Attempts
  BY <1>2 DEF Attempts
<1>11. Starting
  BY <1>2 DEF Starting
<1>12. Quiet
  BY <1>1, <1>2 DEF Quiet, Final, Removing, Staged
<1>. QED BY <1>3, <1>4, <1>5, <1>6, <1>7, <1>8, <1>9, <1>10, <1>11, <1>12 DEF IInv, Typed

LEMMA HandleInv == ASSUME IInv, NEW s \in Slots, Handle(s) PROVE IInv'
BY CompletionReadInv, CompletionStartsInv, CompletionBegunInv, PlanReadInv, CancelReadInv,
   CancelStartsInv, CancelPersistedInv, TasksAbortedInv, RestoredInv DEF Handle

LEMMA VerifyingInv == ASSUME IInv, Verifying PROVE IInv'
<1>1. CASE Dropped
  BY <1>1, DroppedInv
<1>2. CASE CancelledListed
  BY <1>2, CancelledListedInv
<1>3. ASSUME NEW a \in DOMAIN task,
             \/ ReportProgress(a) \/ ProgressReported(a) \/ FinishReading(a)
             \/ ReportResult(a) \/ ResultReported(a) \/ VerifierFails(a) \/ Terminated(a)
      PROVE  IInv'
  BY <1>3, ReportProgressInv, ProgressReportedInv, FinishReadingInv, ReportResultInv,
     ResultReportedInv, TaskStopsInv
<1>. QED BY <1>1, <1>2, <1>3 DEF Verifying

LEMMA EnvironmentInv == ASSUME IInv, Environment PROVE IInv'
<1>1. ASSUME NEW m \in Manifests, CreateTransfer(m) PROVE IInv'
  BY <1>1, CreateTransferInv
<1>2. ASSUME NEW c \in Chunks, NEW d \in Digests, UploadChunk(c, d) PROVE IInv'
  BY <1>2, UploadChunkInv
<1>3. CASE Complete
  <2>1. PICK s \in Slots, root \in Roots : Request(s, "complete", root)
    BY <1>3 DEF Complete
  <2>2. root \in Contents \cup {NoRoot}
    BY <2>1 DEF Roots, Contents
  <2>. QED BY <2>1, <2>2, RequestInv
<1>4. CASE Cancel
  <2>1. PICK s \in Slots : Request(s, "cancel", NoRoot)
    BY <1>4 DEF Cancel
  <2>. QED BY <2>1, RequestInv
<1>5. CASE Crash
  BY <1>5, CrashInv
<1>. QED BY <1>1, <1>2, <1>3, <1>4, <1>5 DEF Environment

LEMMA NextInv == IInv /\ [Next]_vars => IInv'
<1>. SUFFICES ASSUME IInv, [Next]_vars PROVE IInv'
  OBVIOUS
<1>1. CASE Environment
  BY <1>1, EnvironmentInv
<1>2. CASE Execute
  BY <1>2, ExecuteInv
<1>3. CASE Verifying
  BY <1>3, VerifyingInv
<1>4. CASE Cleaning
  BY <1>4, RemovedInv, RemoveFailsInv DEF Cleaning
<1>5. CASE Restart
  BY <1>5, RestartInv
<1>6. ASSUME NEW s \in Slots, Handle(s) PROVE IInv'
  BY <1>6, HandleInv
<1>7. CASE UNCHANGED vars
  BY <1>7, StutterInv DEF vars
<1>. QED BY <1>1, <1>2, <1>3, <1>4, <1>5, <1>6, <1>7 DEF Next

\* The port's answers are handled in the order in which the database worker gave them,
\* and an answer never takes back an attempt or a cancellation that an earlier one told
\* of: so no completion, restore or startup answer of v3TransferService.ts still on its
\* way can start a verification that a cancel has ended.
THEOREM ServiceInvariant == Spec => []IInv
<1>. QED BY InitInv, NextInv, PTL DEF Spec

\* A cancel answered with success stays answered: cancelIncomingTransfer has left no
\* staging file and no verification behind, and no completion, other cancel, failed
\* removal, restore or restart brings one back.
THEOREM QuietSafe == Spec => []CancelledIsQuiet
<1>1. IInv => CancelledIsQuiet
  BY DEF IInv, Quiet, Final, CancelledIsQuiet
<1>. QED BY <1>1, ServiceInvariant, PTL

\* cleanupCancelledStaging never removes the staging directory under a verification
\* worker, and startVerification never runs a second verification beside the first,
\* across retries, new attempts, failed cancels and restores.
THEOREM UserSafe == Spec => []FilesHaveOneUser
<1>1. IInv => FilesHaveOneUser
  <2>. SUFFICES ASSUME IInv PROVE FilesHaveOneUser
    OBVIOUS
  <2>1. cleanup => DOMAIN task = {}
    BY DEF IInv, Quiet
  <2>2. Cardinality(DOMAIN task) <= 1
    <3>1. CASE DOMAIN task = {}
      BY <3>1, FS_EmptySet
    <3>2. CASE DOMAIN task # {}
      <4>1. PICK a : a \in DOMAIN task
        BY <3>2
      <4>2. \A b \in DOMAIN task : b = a
        BY <4>1, OneAttempt DEF IInv, Typed, TaskTyped, Attempts
      <4>3. DOMAIN task = {a}
        BY <4>1, <4>2
      <4>. QED BY <4>3, FS_Singleton
    <3>. QED BY <3>1, <3>2
  <2>. QED BY <2>1, <2>2 DEF FilesHaveOneUser
<1>. QED BY <1>1, ServiceInvariant, PTL

\* Only a cancelled transfer loses its files: no failed cancel and no cleanup at
\* startup takes the content of a transfer that can still be verified.
THEOREM StagingSafe == Spec => []StagingKept
<1>1. IInv => StagingKept
  BY DEF IInv
<1>. QED BY <1>1, ServiceInvariant, PTL
=============================================================================

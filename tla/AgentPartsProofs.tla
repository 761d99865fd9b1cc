--------------------------- MODULE AgentPartsProofs ---------------------------
(***************************************************************************)
(* Proofs about the smaller parts, each in a section of its own: the       *)
(* catalogue of outgoing files (V3OutgoingTransfer), for every set of      *)
(* chunks and any number of acknowledgements in flight, failed writes and  *)
(* crashes; announcements (DeviceDiscovery), for every interval and        *)
(* lifetime; change notifications (V3TransferSseDebouncer, and with the    *)
(* page V3AdminEvents), for every period and any number of revisions,      *)
(* clock steps and mishaps; and the connections of one phone               *)
(* (V3OfferDelivery, and with the phone V3PeerRuntime), for any number of  *)
(* connections, breaks and texts and every finite set of transfers.        *)
(***************************************************************************)
EXTENDS V3OutgoingTransfer, DeviceDiscovery, V3AdminEvents, V3PeerRuntime,
        FiniteSetTheorems, SequenceTheorems, TLAPS

-----------------------------------------------------------------------------
(* The catalogue of outgoing files. *)

Exact(r) == r.status # "absent" => (r.status = "completed" <=> r.acknowledged = Chunks)

\* r is an earlier version of q, or q: versions of the record differ in revision.
NoNewer(r, q) == r.revision < q.revision \/ r = q

\* Memory is ahead of the running write, and both are ahead of a file that was read.
Ordered ==
  /\ ~unread => NoNewer(file, record) /\ \A r \in running : NoNewer(file, r)
  /\ \A r \in running : NoNewer(r, record)
  /\ \A r, q \in running : r = q

AllExact == Exact(record) /\ Exact(file) /\ \A r \in running : Exact(r)

\* With no write waiting, the running one or the file has the newest record.
Saved ==
  ready # "down" /\ writes = 0 /\ used.faults = 0
    => IF running = {} THEN file = record ELSE \A r \in running : r = record

IInv == TypeOK /\ Ordered /\ AllExact /\ Saved /\ (ready = "down" => running = {} /\ writes = 0)

LEMMA InitEstablishes == Init => IInv
<1> SUFFICES ASSUME Init PROVE IInv
  OBVIOUS
<1> USE OutgoingAssumption DEF Init, OutgoingAssumption
<1>1. Absent \in Records
  BY DEF Records, Statuses, Absent
<1>2. used \in [faults : 0..MaxFaults, crashes : 0..MaxCrashes, others : 0..MaxOthers]
  BY SMT
<1>3. TypeOK
  BY <1>1, <1>2 DEF TypeOK
<1>4. Ordered /\ AllExact /\ Saved
  BY DEF Ordered, AllExact, Saved, NoNewer, Exact, Absent
<1> QED BY <1>3, <1>4 DEF IInv

-----------------------------------------------------------------------------
(* A handler that persists a newer record keeps the invariant. *)
LEMMA PersistSafe ==
  ASSUME IInv, NEW next \in Records, Persist(next), Exact(next),
         next.revision > record.revision, ready = "ready",
         file' = file, running' = running, ready' = ready, unread' = unread, used' = used,
         ack' \in [Acks -> Chunks \cup {NoChunk}], source' \in BOOLEAN
  PROVE  IInv'
<1> USE DEF IInv, Persist
<1>1. record' = next /\ writes' = writes + 1 /\ writes \in Nat
  BY DEF TypeOK
<1>2. TypeOK'
  BY <1>1 DEF TypeOK
<1>3. Ordered'
  <2> DEFINE older == {r \in running \cup {file} : r \in running \/ ~unread}
  <2>1. \A r \in older : r \in Records /\ NoNewer(r, record)
    BY DEF TypeOK, Ordered
  <2>2. \A r \in older : NoNewer(r, next)
    BY <2>1, SMT DEF NoNewer, Records, TypeOK
  <2> QED BY <1>1, <2>2 DEF Ordered, NoNewer
<1>4. AllExact'
  BY <1>1 DEF AllExact, Exact
<1>5. Saved'
  BY <1>1, SMT DEF Saved
<1> QED BY <1>2, <1>3, <1>4, <1>5

\* What a change of the status leaves.
LEMMA ChangeSafe ==
  ASSUME NEW r \in Records, NEW next \in Statuses, Exact(r), Outstanding(r.status),
         next \notin {"absent", "completed"}
  PROVE  /\ Change(r, next) \in Records /\ Exact(Change(r, next))
         /\ Change(r, next).revision > r.revision
<1>1. r.revision \in Nat /\ r.revision + 1 \in Nat /\ r.acknowledged \subseteq Chunks
  BY DEF Records
<1>2. Change(r, next) \in Records
  BY <1>1 DEF Change, Records
<1>3. r.acknowledged # Chunks
  BY DEF Exact, Outstanding, Acknowledgable
<1>4. /\ Change(r, next).acknowledged = r.acknowledged
      /\ Change(r, next).status = next
      /\ Change(r, next).revision = r.revision + 1
  BY DEF Change, Records
<1> QED BY <1>1, <1>2, <1>3, <1>4, SMT DEF Exact

LEMMA ControlSafe ==
  ASSUME IInv, Pause \/ Resume \/ Cancel \/ MarkOfferDelivered
  PROVE  IInv'
<1>1. PICK next \in {"paused", "transferring", "cancelled"} :
        /\ Outstanding(record.status) /\ ready = "ready"
        /\ Persist(Change(record, next))
        /\ UNCHANGED <<file, running, ack, source, ready, unread, used>>
  BY DEF Pause, Resume, Cancel, MarkOfferDelivered, Outstanding, Acknowledgable
<1>2. next \in Statuses \ {"absent", "completed"}
  BY DEF Statuses
<1>3. record \in Records /\ Exact(record) /\ source \in BOOLEAN
      /\ ack \in [Acks -> Chunks \cup {NoChunk}]
  BY DEF IInv, TypeOK, AllExact
<1>4. /\ Change(record, next) \in Records /\ Exact(Change(record, next))
      /\ Change(record, next).revision > record.revision
  BY <1>1, <1>2, <1>3, ChangeSafe
<1> QED BY <1>1, <1>3, <1>4, PersistSafe

LEMMA CreateSafe == ASSUME IInv, Create PROVE IInv'
<1> DEFINE new == [Absent EXCEPT !.revision = 1,
                     !.status = IF Chunks = {} THEN "completed" ELSE "waiting_for_peer"]
<1>1. /\ new \in Records /\ new.revision = 1 /\ new.acknowledged = {}
      /\ new.status = IF Chunks = {} THEN "completed" ELSE "waiting_for_peer"
  BY DEF Records, Statuses, Absent
<1>2. Exact(new) /\ new.revision > record.revision
  BY <1>1 DEF Exact, Create, Absent
<1>3. /\ Persist(new) /\ ready = "ready" /\ source' = TRUE
      /\ UNCHANGED <<file, running, ack, ready, unread, used>>
  BY DEF Create
<1>4. ack \in [Acks -> Chunks \cup {NoChunk}]
  BY DEF IInv, TypeOK
<1> HIDE DEF new
<1> QED BY <1>1, <1>2, <1>3, <1>4, PersistSafe

LEMMA AcknowledgeSafe ==
  ASSUME IInv, NEW s \in Acks, Acknowledge(s)
  PROVE  IInv'
<1> DEFINE acknowledged == record.acknowledged \cup {ack[s]}
           new == [record EXCEPT !.acknowledged = acknowledged, !.revision = @ + 1,
                     !.status = IF acknowledged = Chunks THEN "completed" ELSE @]
<1>1. /\ record \in Records /\ Exact(record) /\ ack[s] \in Chunks
      /\ ack' \in [Acks -> Chunks \cup {NoChunk}] /\ source \in BOOLEAN
  BY DEF IInv, TypeOK, AllExact, Acknowledge
<1>2. CASE ack[s] \in record.acknowledged
  <2>1. UNCHANGED <<record, writes, file, running, source, ready, unread, used>>
    BY <1>2 DEF Acknowledge
  <2> QED BY <1>1, <2>1 DEF IInv, TypeOK, Ordered, NoNewer, AllExact, Exact, Saved
<1>3. CASE ack[s] \notin record.acknowledged
  <2>1. /\ Persist(new) /\ ready = "ready"
        /\ UNCHANGED <<file, running, source, ready, unread, used>>
    BY <1>3 DEF Acknowledge
  <2>2. /\ record.revision \in Nat /\ record.revision + 1 \in Nat /\ acknowledged \subseteq Chunks
        /\ record.status \in Statuses /\ "completed" \in Statuses
    BY <1>1 DEF Records, Statuses
  <2>3. /\ new \in Records
        /\ new.acknowledged = acknowledged /\ new.revision = record.revision + 1
        /\ new.status = IF acknowledged = Chunks THEN "completed" ELSE record.status
    BY <1>1, <2>2 DEF Records
  <2>4. record.acknowledged # Chunks
    BY <1>1, <1>3
  <2>5. Exact(new)
    BY <1>1, <2>3, <2>4 DEF Exact
  <2> HIDE DEF new
  <2>6. new.revision > record.revision
    BY <2>2, <2>3, SMT
  <2> QED BY <1>1, <2>1, <2>3, <2>5, <2>6, PersistSafe
<1> QED BY <1>2, <1>3

-----------------------------------------------------------------------------
LEMMA WriteBeginsSafe == ASSUME IInv, WriteBegins PROVE IInv'
<1> USE DEF IInv, WriteBegins
<1>1. TypeOK'
  BY DEF TypeOK
<1>2. Ordered' /\ AllExact' /\ Saved'
  BY DEF TypeOK, Ordered, NoNewer, AllExact, Exact, Saved
<1> QED BY <1>1, <1>2

LEMMA WriteEndsSafe == ASSUME IInv, WriteEnds PROVE IInv'
<1>1. PICK r \in running : file' = r /\ running' = running \ {r}
  BY DEF WriteEnds
<1>2. running' = {}
  BY <1>1 DEF IInv, Ordered
<1>3. ready # "down" /\ ready' = "ready" /\ UNCHANGED <<record, writes, ack, source, unread, used>>
  BY <1>1 DEF WriteEnds, IInv
<1>4. TypeOK'
  BY <1>1, <1>2, <1>3 DEF IInv, TypeOK
<1>5. Ordered' /\ AllExact' /\ Saved'
  BY <1>1, <1>2, <1>3 DEF IInv, Ordered, NoNewer, AllExact, Exact, Saved
<1> QED BY <1>3, <1>4, <1>5 DEF IInv

LEMMA FaultCounts == ASSUME IInv, Fault PROVE
  /\ used' \in [faults : 0..MaxFaults, crashes : 0..MaxCrashes, others : 0..MaxOthers] /\ used'.faults # 0
BY OutgoingAssumption, SMT DEF IInv, TypeOK, Fault, OutgoingAssumption

LEMMA WriteFailsSafe == ASSUME IInv, WriteFails PROVE IInv'
<1>1. used' \in [faults : 0..MaxFaults, crashes : 0..MaxCrashes, others : 0..MaxOthers] /\ used'.faults # 0
  BY FaultCounts DEF WriteFails
<1>2. /\ running' = {} /\ running # {}
      /\ ready' = IF ready = "loading" THEN "rejected" ELSE ready
      /\ UNCHANGED <<record, file, writes, ack, source, unread>>
  BY DEF WriteFails
<1>3. TypeOK'
  BY <1>1, <1>2 DEF IInv, TypeOK
<1>4. Ordered' /\ AllExact' /\ Saved'
  BY <1>1, <1>2 DEF IInv, Ordered, NoNewer, AllExact, Exact, Saved
<1> QED BY <1>2, <1>3, <1>4 DEF IInv

LEMMA SourceLostSafe == ASSUME IInv, SourceLost PROVE IInv'
<1>1. used' \in [faults : 0..MaxFaults, crashes : 0..MaxCrashes, others : 0..MaxOthers] /\ used'.faults # 0
  BY FaultCounts DEF SourceLost
<1>2. source' = FALSE /\ UNCHANGED <<record, file, writes, running, ack, ready, unread>>
  BY DEF SourceLost
<1>3. TypeOK'
  BY <1>1, <1>2 DEF IInv, TypeOK
<1>4. Ordered' /\ AllExact' /\ Saved'
  BY <1>1, <1>2 DEF IInv, Ordered, NoNewer, AllExact, Exact, Saved
<1> QED BY <1>2, <1>3, <1>4 DEF IInv

LEMMA CrashSafe == ASSUME IInv, Crash PROVE IInv'
<1>1. used' \in [faults : 0..MaxFaults, crashes : 0..MaxCrashes, others : 0..MaxOthers]
  BY OutgoingAssumption, SMT DEF IInv, TypeOK, Crash, OutgoingAssumption
<1>2. /\ ready' = "down" /\ writes' = 0 /\ running' = {}
      /\ ack' = [s \in Acks |-> NoChunk] /\ UNCHANGED <<record, file, source, unread>>
  BY DEF Crash
<1>3. TypeOK'
  BY <1>1, <1>2 DEF IInv, TypeOK
<1>4. Ordered' /\ AllExact' /\ Saved'
  BY <1>2 DEF IInv, Ordered, NoNewer, AllExact, Exact, Saved
<1> QED BY <1>2, <1>3, <1>4 DEF IInv

LEMMA LoadSafe == ASSUME IInv, Load PROVE IInv'
<1> DEFINE lost == Outstanding(file.status) /\ ~source
<1>1. /\ ready = "down" /\ ready' = (IF lost THEN "loading" ELSE "ready")
      /\ record' = (IF lost THEN Change(file, "failed") ELSE file)
      /\ writes' = (IF lost THEN 1 ELSE 0) /\ unread' = FALSE
      /\ UNCHANGED <<file, running, ack, source, used>>
  BY DEF Load
<1>2. file \in Records /\ Exact(file) /\ running = {}
  BY <1>1 DEF IInv, TypeOK, AllExact
<1>3. record' \in Records /\ Exact(record') /\ NoNewer(file, record')
  <2>1. CASE lost
    <3>1. "failed" \in Statuses
      BY DEF Statuses
    <3> QED BY <1>1, <1>2, <2>1, <3>1, ChangeSafe DEF NoNewer
  <2>2. CASE ~lost
    BY <1>1, <1>2, <2>2 DEF NoNewer
  <2> QED BY <2>1, <2>2
<1>4. TypeOK'
  BY <1>1, <1>3 DEF IInv, TypeOK
<1>5. Ordered' /\ AllExact'
  BY <1>1, <1>2, <1>3 DEF Ordered, NoNewer, AllExact, Exact
<1>6. Saved'
  BY <1>1, <1>2 DEF Saved
<1> QED BY <1>1, <1>4, <1>5, <1>6 DEF IInv

LEMMA LoadUnreadSafe == ASSUME IInv, LoadEmpty \/ LoadRejected PROVE IInv'
<1>1. /\ used' \in [faults : 0..MaxFaults, crashes : 0..MaxCrashes, others : 0..MaxOthers]
      /\ used'.faults # 0
  BY FaultCounts DEF LoadEmpty, LoadRejected
<1>2. /\ ready = "down" /\ ready' \in {"ready", "rejected"} /\ record' = Absent /\ unread' = TRUE
      /\ UNCHANGED <<file, writes, running, ack, source>>
  BY DEF LoadEmpty, LoadRejected
<1>3. Absent \in Records /\ Exact(Absent)
  BY DEF Records, Statuses, Absent, Exact
<1>4. TypeOK'
  BY <1>1, <1>2, <1>3 DEF IInv, TypeOK
<1>5. Ordered' /\ AllExact' /\ Saved'
  BY <1>1, <1>2, <1>3 DEF IInv, Ordered, NoNewer, AllExact, Exact, Saved
<1> QED BY <1>2, <1>4, <1>5 DEF IInv

LEMMA OtherPersistsSafe == ASSUME IInv, OtherPersists PROVE IInv'
<1>1. used' \in [faults : 0..MaxFaults, crashes : 0..MaxCrashes, others : 0..MaxOthers]
  BY OutgoingAssumption, SMT DEF IInv, TypeOK, OtherPersists, OutgoingAssumption
<1>2. /\ ready = "ready" /\ writes' = writes + 1 /\ writes \in Nat
      /\ UNCHANGED <<record, file, running, ack, source, ready, unread>>
  BY DEF OtherPersists, IInv, TypeOK
<1>3. TypeOK'
  BY <1>1, <1>2 DEF IInv, TypeOK
<1>4. Ordered' /\ AllExact'
  BY <1>2 DEF IInv, Ordered, NoNewer, AllExact, Exact
<1>5. writes' # 0
  BY <1>2, SMT
<1>6. Saved'
  BY <1>5 DEF Saved
<1> QED BY <1>2, <1>3, <1>4, <1>6 DEF IInv

\* Steps that change neither the record nor the file nor the writes.
LEMMA QuietSafe ==
  ASSUME IInv,
         \/ UNCHANGED vars
         \/ \E s \in Acks, c \in Chunks : BeginAcknowledge(s, c)
         \/ \E s \in Acks : AcknowledgeFails(s)
  PROVE  IInv'
<1>1. UNCHANGED <<record, file, writes, running, source, ready, unread, used>>
  BY DEF vars, BeginAcknowledge, AcknowledgeFails
<1>2. ack' \in [Acks -> Chunks \cup {NoChunk}]
  BY DEF IInv, TypeOK, vars, BeginAcknowledge, AcknowledgeFails
<1>3. TypeOK'
  BY <1>1, <1>2 DEF IInv, TypeOK
<1>4. Ordered' /\ AllExact' /\ Saved'
  BY <1>1 DEF IInv, Ordered, NoNewer, AllExact, Exact, Saved
<1> QED BY <1>1, <1>3, <1>4 DEF IInv

LEMMA StepSafe == IInv /\ [Next]_vars => IInv'
<1> SUFFICES ASSUME IInv, [Next]_vars PROVE IInv'
  OBVIOUS
<1>1. CASE Create
  BY <1>1, CreateSafe
<1>2. CASE Pause \/ Resume \/ Cancel \/ MarkOfferDelivered
  BY <1>2, ControlSafe
<1>3. CASE \E s \in Acks : Acknowledge(s)
  BY <1>3, AcknowledgeSafe
<1>4. CASE WriteBegins \/ WriteEnds \/ WriteFails
  BY <1>4, WriteBeginsSafe, WriteEndsSafe, WriteFailsSafe
<1>5. CASE SourceLost \/ Crash \/ Load \/ LoadEmpty \/ LoadRejected \/ OtherPersists
  BY <1>5, SourceLostSafe, CrashSafe, LoadSafe, LoadUnreadSafe, OtherPersistsSafe
<1>6. CASE \/ UNCHANGED vars
           \/ \E s \in Acks, c \in Chunks : BeginAcknowledge(s, c)
           \/ \E s \in Acks : AcknowledgeFails(s)
  BY <1>6, QuietSafe
<1> QED BY <1>1, <1>2, <1>3, <1>4, <1>5, <1>6 DEF Next

LEMMA Invariance == Spec => []IInv
BY InitEstablishes, StepSafe, PTL DEF Spec

-----------------------------------------------------------------------------
(* Types. *)
THEOREM TypeCorrect == Spec => []TypeOK
<1>1. IInv => TypeOK
  BY DEF IInv
<1> QED BY Invariance, <1>1, PTL

(* Completed and fully acknowledged are the same thing, for every set of chunks *)
(* and every order of acknowledgements, controls, crashes and restarts.         *)
THEOREM CompletionSafe == Spec => []CompletionIsExact
<1>1. IInv => CompletionIsExact
  BY DEF IInv, AllExact, Exact, CompletionIsExact
<1> QED BY Invariance, <1>1, PTL

(* Without failed writes, drained writes leave the file as memory is. *)
THEOREM SavedSafe == Spec => []NothingUnsaved
<1>1. IInv => NothingUnsaved
  BY DEF IInv, Saved, NothingUnsaved
<1> QED BY Invariance, <1>1, PTL

(* The catalogue on disk only ever moves to newer versions of a record, for any *)
(* number of failed reads and writes and restarts, unless the running process    *)
(* began with an empty catalogue because it could not read the file.             *)
THEOREM FileSafe == Spec => FileNeverGoesBack
<1>1. IInv /\ [Next]_vars => [file'.revision > file.revision \/ file' = file \/ unread]_vars
  <2> SUFFICES ASSUME IInv, Next PROVE file'.revision > file.revision \/ file' = file \/ unread
    BY DEF vars
  <2>1. CASE WriteEnds
    <3>1. PICK r \in running : file' = r
      BY <2>1 DEF WriteEnds
    <3> QED BY <3>1, SMT DEF IInv, Ordered, NoNewer, TypeOK, Records
  <2>2. CASE ~WriteEnds
    BY <2>2 DEF Next, Create, MarkOfferDelivered, BeginAcknowledge, Acknowledge,
       AcknowledgeFails, Pause, Resume, Cancel, WriteBegins, WriteFails, SourceLost, Crash, Load,
       LoadEmpty, LoadRejected, OtherPersists
  <2> QED BY <2>1, <2>2
<1> QED BY Invariance, <1>1, PTL DEF Spec, FileNeverGoesBack

-----------------------------------------------------------------------------
(* Discovery: the invariant counts.  What is listed was heard no longer ago than the
   announcements since then, heard or lost, explain, and the timer that is running. *)

Steps == {"off", "addressing", "identifying", "binding", "running", "failed"}

Typed ==
  /\ step \in [Ends -> Steps] /\ known \in [Ends -> Networks \cup {Nobody}]
  /\ announce \in [Ends -> Int] /\ age \in [Ends -> Int] /\ missed \in [Ends -> Int]
  /\ net \in Networks

\* A running end announces itself in time; nothing is expected of one that is not.
Counted ==
  \A e \in Ends :
    /\ 0 <= missed[e] /\ announce[e] <= Interval
    /\ IF Running(e) THEN 0 <= announce[e] ELSE missed[e] = Long

\* How long ago the announcement before those that e has lost can have been.
Since(e) == missed[e] * Interval + Interval - announce[e]

Listed == \A e \in Ends : known[e] # Nobody /\ missed[Other(e)] <= Tolerated => age[e] <= Since(Other(e))

DiscoveryInv == Typed /\ Counted /\ Listed

-----------------------------------------------------------------------------
LEMMA Others == \A e \in Ends : Other(e) \in Ends /\ Other(e) # e /\ Other(Other(e)) = e
BY DEF Ends, Other

\* The losses that are tolerated fit into the Ttl, the last interval included.
LEMMA Fits ==
  /\ Tolerated \in Nat /\ Long = Tolerated + 1
  /\ \A n \in Nat : n <= Tolerated => n * Interval + Interval < Ttl
<1> DEFINE q == (Ttl - 1) \div Interval
<1>1. Interval \in Nat /\ Interval > 0 /\ Ttl \in Nat /\ Ttl > Interval
  BY DiscoveryAssumption
<1>2. q \in Int /\ q * Interval <= Ttl - 1 /\ Ttl - 1 < q * Interval + Interval
  BY <1>1, Z3
<1>3. q >= 1
  <2>1. SUFFICES ASSUME q <= 0 PROVE FALSE
    BY <1>2
  <2>2. q * Interval <= 0
    BY <1>1, <1>2, <2>1, Z3
  <2>. QED BY <1>1, <1>2, <2>2
<1>4. ASSUME NEW n \in Nat, n <= q - 1 PROVE n * Interval + Interval < Ttl
  <2>1. (n + 1) * Interval <= q * Interval
    BY <1>1, <1>2, <1>4, Z3
  <2>2. (n + 1) * Interval = n * Interval + Interval
    BY <1>1, Z3
  <2>. HIDE DEF q
  <2>3. n * Interval \in Int /\ q * Interval \in Int
    BY <1>1, <1>2
  <2>. QED BY <1>1, <1>2, <2>1, <2>2, <2>3
<1>. QED BY <1>2, <1>3, <1>4 DEF Tolerated, Long

LEMMA Constants == Interval \in Nat /\ Interval > 0 /\ Nobody \notin Networks /\ Ends = {"agent", "phone"}
BY DiscoveryAssumption DEF Nobody, Networks, Ends

\* Since is a number, and one interval more for each loss.
LEMMA SinceIs ==
  ASSUME Typed, NEW e \in Ends
  PROVE  /\ missed[e] \in Int /\ announce[e] \in Int /\ Since(e) \in Int
         /\ missed[e] * Interval \in Int
         /\ (missed[e] + 1) * Interval = missed[e] * Interval + Interval
<1>1. missed[e] \in Int /\ announce[e] \in Int /\ Interval \in Int
  BY Constants DEF Typed
<1>2. missed[e] * Interval \in Int /\ (missed[e] + 1) * Interval = missed[e] * Interval + Interval
  BY <1>1, Z3
<1>3. Since(e) \in Int
  BY <1>1, <1>2 DEF Since
<1>. QED BY <1>1, <1>2, <1>3

\* An announcement keeps the count, whether it is heard or lost.
LEMMA Announcement ==
  ASSUME DiscoveryInv, NEW e \in Ends, Announces(e), step' \in [Ends -> Steps],
         \A d \in Ends \ {e} : step'[d] = step[d],
         step'[e] = "running", announce' = [announce EXCEPT ![e] = Interval], net' = net,
         (Running(e) /\ announce[e] = 0) \/ missed[e] = Long
  PROVE  DiscoveryInv'
<1>. USE Constants, Others, Fits
<1>1. /\ Typed /\ Counted /\ Listed
      /\ announce'[e] = Interval /\ \A d \in Ends \ {e} : announce'[d] = announce[d]
  BY DEF DiscoveryInv, Typed
<1>2. CASE Reaches(e) /\ Heard(Other(e))
  <2>1. /\ known' = [known EXCEPT ![Other(e)] = net] /\ age' = [age EXCEPT ![Other(e)] = 0]
        /\ missed' = [missed EXCEPT ![e] = 0]
    BY <1>2 DEF Heard
  <2>2. Typed'
    BY <1>1, <2>1 DEF Typed
  <2>3. Counted'
    BY <1>1, <2>1 DEF Counted, Typed, Running
  <2>4. Since(e)' = 0
    BY <1>1, <2>1 DEF Since, Typed
  <2>5. ASSUME NEW d \in Ends, known'[d] # Nobody, missed'[Other(d)] <= Tolerated
        PROVE  age'[d] <= Since(Other(d))'
    <3>1. CASE d = Other(e)
      BY <1>1, <2>1, <2>4, <3>1 DEF Typed
    <3>2. CASE d # Other(e)
      <4>1. d = e /\ Other(d) # e
        BY <3>2 DEF Ends, Other
      <4>2. Since(Other(d))' = Since(Other(d)) /\ age'[d] = age[d] /\ known'[d] = known[d]
            /\ missed'[Other(d)] = missed[Other(d)]
        BY <1>1, <2>1, <4>1 DEF Since, Typed
      <4>. QED BY <1>1, <2>5, <4>2 DEF Listed
    <3>. QED BY <3>1, <3>2
  <2>. QED BY <2>2, <2>3, <2>5 DEF DiscoveryInv, Listed
<1>3. CASE missed' = [missed EXCEPT ![e] = Missed(@)] /\ UNCHANGED <<known, age, screen>>
  <2>1. missed'[e] = Missed(missed[e]) /\ \A d \in Ends \ {e} : missed'[d] = missed[d]
    BY <1>1, <1>3 DEF Typed
  <2>2. missed[e] \in Int /\ 0 <= missed[e] /\ missed'[e] \in Int /\ 0 <= missed'[e]
    BY <1>1, <2>1 DEF Typed, Counted, Missed
  <2>3. Typed'
    BY <1>1, <1>3, <2>2 DEF Typed, Missed
  <2>4. Counted'
    BY <1>1, <2>1, <2>2 DEF Counted, Typed, Running
  <2>5. ASSUME NEW d \in Ends, known[d] # Nobody, missed'[Other(d)] <= Tolerated
        PROVE  age[d] <= Since(Other(d))'
    <3>1. CASE d = Other(e)
      <4>1. Other(d) = e
        BY <3>1
      <4>2. missed[e] <= Tolerated /\ missed'[e] = missed[e] + 1
        BY <2>1, <2>2, <2>5, <4>1 DEF Missed
      <4>3. announce[e] = 0
        BY <2>2, <4>2
      <4>4. age[d] <= missed[e] * Interval + Interval - 0
        BY <1>1, <2>5, <4>1, <4>2, <4>3 DEF Listed, Since
      <4>5. (missed[e] + 1) * Interval = missed[e] * Interval + Interval /\ missed[e] * Interval \in Int
        BY <1>1, SinceIs
      <4>6. Since(e)' = missed[e] * Interval + Interval
        BY <1>1, <4>2, <4>5 DEF Since
      <4>7. age[d] \in Int
        BY <1>1 DEF Typed
      <4>. QED BY <4>1, <4>4, <4>5, <4>6, <4>7
    <3>2. CASE d # Other(e)
      <4>1. Other(d) # e
        BY <3>2 DEF Ends, Other
      <4>2. Since(Other(d))' = Since(Other(d)) /\ missed'[Other(d)] = missed[Other(d)]
        BY <1>1, <2>1, <4>1 DEF Since
      <4>. QED BY <1>1, <2>5, <4>2 DEF Listed
    <3>. QED BY <3>1, <3>2
  <2>. QED BY <1>3, <2>3, <2>4, <2>5 DEF DiscoveryInv, Listed
<1>. QED BY <1>2, <1>3 DEF Announces

-----------------------------------------------------------------------------
LEMMA Initially == DiscoveryInit => DiscoveryInv
<1>. SUFFICES ASSUME DiscoveryInit PROVE DiscoveryInv
  OBVIOUS
<1>1. Long \in Int /\ Ttl \in Int /\ 0 <= Long
  BY Fits, DiscoveryAssumption
<1>2. Typed
  BY <1>1, Constants DEF DiscoveryInit, Typed, Steps, Networks
<1>3. Counted
  BY <1>1, Constants DEF DiscoveryInit, Counted, Running
<1>4. Listed
  BY DEF DiscoveryInit, Listed
<1>. QED BY <1>2, <1>3, <1>4 DEF DiscoveryInv

\* A step that leaves the count alone and lists nobody new.
LEMMA QuietStep ==
  ASSUME DiscoveryInv, step' \in [Ends -> Steps], \A e \in Ends : Running(e)' <=> Running(e),
         known' \in [Ends -> Networks \cup {Nobody}], \A e \in Ends : known'[e] \in {known[e], Nobody},
         UNCHANGED <<announce, age, missed>>, net' \in Networks
  PROVE  DiscoveryInv'
<1>1. Typed'
  BY DEF DiscoveryInv, Typed
<1>2. Counted'
  BY DEF DiscoveryInv, Counted
<1>3. \A e \in Ends : Since(e)' = Since(e)
  BY DEF Since
<1>4. Listed'
  BY <1>3, Others DEF DiscoveryInv, Listed
<1>. QED BY <1>1, <1>2, <1>4 DEF DiscoveryInv

LEMMA Inductive == DiscoveryInv /\ [DiscoveryNext]_discoveryVars => DiscoveryInv'
<1>. SUFFICES ASSUME DiscoveryInv, [DiscoveryNext]_discoveryVars PROVE DiscoveryInv'
  OBVIOUS
<1>. USE Constants, Others, Fits
<1>t. Typed /\ Counted /\ Listed
  BY DEF DiscoveryInv
<1>1. ASSUME NEW e \in Ends, Start(e) \/ Identified(e) PROVE DiscoveryInv'
  BY <1>1, <1>t, QuietStep DEF Start, Identified, Typed, Steps, Running
<1>2. CASE Addressed
  BY <1>2, <1>t, QuietStep DEF Addressed, Typed, Steps, Running
<1>3. ASSUME NEW e \in Ends, Bound(e) PROVE DiscoveryInv'
  <2>1. missed[e] = Long
    BY <1>3, <1>t DEF Bound, Counted, Running
  <2>2. step' \in [Ends -> Steps] /\ step'[e] = "running" /\ \A d \in Ends \ {e} : step'[d] = step[d]
    BY <1>3, <1>t DEF Bound, Typed, Steps
  <2>. QED BY <1>3, <2>1, <2>2, Announcement DEF Bound
<1>4. ASSUME NEW e \in Ends, StartFails(e) PROVE DiscoveryInv'
  BY <1>4, <1>t, QuietStep DEF StartFails, Typed, Steps, Running
<1>5. ASSUME NEW e \in Ends, Stop(e) PROVE DiscoveryInv'
  <2>. USE <1>5, <1>t DEF Stop, Stopped
  <2>1. Typed'
    <3>1. Long \in Int /\ Ttl \in Int
      BY DiscoveryAssumption
    <3>. QED BY <3>1 DEF Typed, Steps
  <2>2. Counted'
    BY DEF Typed, Counted, Running
  <2>3. ASSUME NEW d \in Ends, known'[d] # Nobody, missed'[Other(d)] <= Tolerated
        PROVE  age'[d] <= Since(Other(d))'
    <3>1. d # e /\ Other(d) = e
      BY <2>3 DEF Typed, Ends, Other
    <3>. QED BY <2>3, <3>1 DEF Typed
  <2>. QED BY <2>1, <2>2, <2>3 DEF DiscoveryInv, Listed
<1>6. ASSUME NEW e \in Ends, AnnounceTimer(e) PROVE DiscoveryInv'
  <2>1. step' \in [Ends -> Steps] /\ step'[e] = "running" /\ \A d \in Ends \ {e} : step'[d] = step[d]
    BY <1>6, <1>t DEF AnnounceTimer, Typed, Running
  <2>. QED BY <1>6, <2>1, Announcement DEF AnnounceTimer
<1>7. ASSUME NEW e \in Ends, CleanupTimer(e) PROVE DiscoveryInv'
  BY <1>7, <1>t, QuietStep DEF CleanupTimer, Forgotten, Typed, Running
<1>8. CASE Tick
  <2>. USE <1>8, <1>t DEF Tick
  <2>1. Typed'
    BY DiscoveryAssumption DEF Typed
  <2>2. Counted'
    BY DEF Typed, Counted, Due, Running
  <2>3. ASSUME NEW d \in Ends, known'[d] # Nobody, missed'[Other(d)] <= Tolerated
        PROVE  age'[d] <= Since(Other(d))'
    <3>1. Running(Other(d)) /\ announce'[Other(d)] = announce[Other(d)] - 1
      BY <2>3 DEF Typed, Counted
    <3>2. Since(Other(d))' = Since(Other(d)) + 1
      BY <3>1, SinceIs DEF Since
    <3>3. age[d] <= Since(Other(d))
      BY <2>3 DEF Listed
    <3>4. age[d] \in Int /\ age'[d] \in {age[d], age[d] + 1} /\ Since(Other(d)) \in Int
      BY SinceIs DEF Typed
    <3>. QED BY <3>2, <3>3, <3>4
  <2>. QED BY <2>1, <2>2, <2>3 DEF DiscoveryInv, Listed
<1>9. ASSUME NEW e \in Ends, ClockSet(e) PROVE DiscoveryInv'
  <2>. USE <1>9, <1>t DEF ClockSet
  <2>1. Typed'
    BY DiscoveryAssumption DEF Typed
  <2>2. Counted'
    BY DEF Typed, Counted, Running
  <2>3. ASSUME NEW d \in Ends, known'[d] # Nobody, missed'[Other(d)] <= Tolerated
        PROVE  age'[d] <= Since(Other(d))'
    <3>1. d # e
      BY <2>3 DEF Typed
    <3>2. Other(d) # Other(e) /\ age'[d] = age[d]
      BY <3>1 DEF Typed, Ends, Other
    <3>3. Since(Other(d))' = Since(Other(d)) /\ missed'[Other(d)] = missed[Other(d)]
      BY <3>2 DEF Typed, Since
    <3>. QED BY <2>3, <3>2, <3>3 DEF Listed
  <2>. QED BY <2>1, <2>2, <2>3 DEF DiscoveryInv, Listed
<1>10. CASE Move
  BY <1>10, <1>t, QuietStep DEF Move, Typed, Running
<1>11. CASE UNCHANGED discoveryVars
  BY <1>11, <1>t, QuietStep DEF discoveryVars, Typed, Running
<1>. QED BY <1>1, <1>2, <1>3, <1>4, <1>5, <1>6, <1>7, <1>8, <1>9, <1>10, <1>11 DEF DiscoveryNext, Starting

-----------------------------------------------------------------------------
\* What is forgotten by a running end is older than every loss that is tolerated explains.
LEMMA NotForgotten ==
  ASSUME DiscoveryInv, NEW e \in Ends, known[e] # Nobody, age[e] >= Ttl
  PROVE  missed[Other(e)] > Tolerated
<1>. USE Constants, Others, Fits
<1>1. SUFFICES ASSUME missed[Other(e)] <= Tolerated PROVE FALSE
  BY SinceIs DEF DiscoveryInv
<1>2. missed[Other(e)] \in Nat /\ announce[Other(e)] >= 0 /\ announce[Other(e)] \in Int
  BY <1>1, SinceIs DEF DiscoveryInv, Counted
<1>3. missed[Other(e)] * Interval + Interval < Ttl /\ missed[Other(e)] * Interval \in Int
  BY <1>1, <1>2, SinceIs DEF DiscoveryInv
<1>4. age[e] <= missed[Other(e)] * Interval + Interval - announce[Other(e)]
  BY <1>1 DEF DiscoveryInv, Listed, Since
<1>5. age[e] \in Int /\ Ttl \in Int
  BY DiscoveryAssumption DEF DiscoveryInv, Typed
<1>. QED BY <1>2, <1>3, <1>4, <1>5

\* An end that announces itself in time is forgotten by a running end only when
\* more announcements in a row were lost than fit into the lifetime, or a clock
\* was set: removeExpiredDevices, for every interval and lifetime of the options.
THEOREM ListedSafe == DiscoverySpec => LiveStaysListed
<1>. DEFINE Stays == \A e \in Ends : known[e] # Nobody /\ known'[e] = Nobody /\ step'[e] = "running"
                                    => missed[Other(e)] > Tolerated
<1>1. DiscoveryInv /\ [DiscoveryNext]_discoveryVars => [Stays]_discoveryVars
  <2>. SUFFICES ASSUME DiscoveryInv, DiscoveryNext, NEW d \in Ends,
                       known[d] # Nobody, known'[d] = Nobody, step'[d] = "running"
                PROVE  missed[Other(d)] > Tolerated
    OBVIOUS
  <2>. USE Constants, Others
  <2>t. Typed
    BY DEF DiscoveryInv
  <2>1. ASSUME NEW e \in Ends, Announces(e), UNCHANGED net PROVE FALSE
    BY <2>1, <2>t DEF Announces, Heard, Typed
  <2>2. ASSUME NEW e \in Ends, Stop(e) PROVE FALSE
    BY <2>2, <2>t DEF Stop, Stopped, Typed
  <2>3. ASSUME NEW e \in Ends, CleanupTimer(e) PROVE missed[Other(d)] > Tolerated
    <3>1. e = d /\ age[e] >= Ttl
      BY <2>3, <2>t DEF CleanupTimer, Forgotten, Typed
    <3>. QED BY <3>1, NotForgotten
  <2>4. ASSUME UNCHANGED known PROVE FALSE
    BY <2>4
  <2>5. ASSUME NEW e \in Ends, Start(e) \/ Identified(e) \/ StartFails(e) \/ ClockSet(e) PROVE UNCHANGED known
    BY <2>5 DEF Start, Identified, StartFails, ClockSet
  <2>6. Addressed \/ Tick \/ Move => UNCHANGED known
    BY DEF Addressed, Tick, Move
  <2>7. ASSUME NEW e \in Ends, Bound(e) \/ AnnounceTimer(e) PROVE Announces(e) /\ UNCHANGED net
    BY <2>7 DEF Bound, AnnounceTimer
  <2>. QED BY <2>1, <2>2, <2>3, <2>4, <2>5, <2>6, <2>7 DEF DiscoveryNext, Starting
<1>. QED BY <1>1, Initially, Inductive, PTL DEF DiscoverySpec, LiveStaysListed

-----------------------------------------------------------------------------
(* Change notifications. *)

(* Why the period holds although the code compares wall clock readings: the   *)
(* clock runs ahead of real time only by what it was put forward, an entry is  *)
(* kept under a timer that ends no earlier than the period, and no entry means *)
(* the period has passed or the Agent has closed.                              *)
EntryCoversPeriod ==
  IF state THEN timer # None /\ elapsed <= since + ahead /\ timer + since >= Period
           ELSE /\ timer = None /\ pending = None /\ elapsed = Period
                /\ closed \/ since = Period

(* What is pending is newer than what was emitted. *)
PendingIsNewer == pending # None => pending > emitted

DebouncerInv ==
  /\ DebouncerTypeOK
  /\ NewestIsOnItsWay
  /\ EntryCoversPeriod
  /\ PendingIsNewer
  /\ closed => ~state

USE DebouncerAssumption DEF DebouncerAssumption, None

LEMMA DebouncerInitEstablishes == DebouncerInit => DebouncerInv
<1> SUFFICES ASSUME DebouncerInit PROVE DebouncerInv
  OBVIOUS
<1>1. /\ state \in BOOLEAN /\ ~state /\ closed \in BOOLEAN /\ ~closed
      /\ high = None /\ pending = None /\ timer = None /\ emitted = None
      /\ elapsed = Period /\ since = Period /\ ahead = 0 /\ clockSet = 0
  BY DEF DebouncerInit
<1>2. DebouncerTypeOK /\ NewestIsOnItsWay /\ EntryCoversPeriod /\ PendingIsNewer /\ (closed => ~state)
  BY <1>1, SMT DEF DebouncerTypeOK, NewestIsOnItsWay, EntryCoversPeriod, PendingIsNewer
<1> QED BY <1>2 DEF DebouncerInv

(* What an action may do to the history: the emitted revision grows, and only  *)
(* when the period has passed or been skipped.                                *)
Emission == emitted' # emitted => since + ahead >= Period /\ emitted' > emitted

LEMMA NotifySafe ==
  ASSUME DebouncerInv, NEW revision \in 0..LastRevision, Notify(revision)
  PROVE  DebouncerInv' /\ Emission
<1> USE DEF DebouncerInv, DebouncerTypeOK, NewestIsOnItsWay, EntryCoversPeriod, PendingIsNewer, Emission
<1>1. CASE Quiet
  <2>1. since + ahead >= Period /\ emitted < revision
    BY <1>1, SMT DEF Notify, IsNews, Quiet
  <2>2. /\ high' = revision /\ emitted' = revision /\ since' = 0 /\ ahead' = 0 /\ state' = TRUE
        /\ elapsed' = 0 /\ pending' = None /\ timer' = Period
        /\ closed = FALSE /\ closed' = closed /\ clockSet' = clockSet
    BY <1>1 DEF Notify, EmitRevision
  <2> QED BY <2>1, <2>2, SMT
<1>2. CASE ~Quiet
  <2>1. /\ state = TRUE /\ timer # None
        /\ high' = revision /\ pending' = revision /\ timer' = timer
        /\ state' = state /\ elapsed' = elapsed /\ emitted' = emitted /\ since' = since /\ ahead' = ahead
        /\ closed = FALSE /\ closed' = closed /\ clockSet' = clockSet
    BY <1>2 DEF Notify, Quiet, Schedule
  <2>2. emitted < revision
    BY SMT DEF Notify, IsNews
  <2> QED BY <2>1, <2>2, SMT
<1> QED BY <1>1, <1>2

LEMMA OnTimerSafe == ASSUME DebouncerInv, OnTimer PROVE DebouncerInv' /\ Emission
<1> USE DEF DebouncerInv, DebouncerTypeOK, NewestIsOnItsWay, EntryCoversPeriod, PendingIsNewer, Emission
<1>1. /\ timer = 0 /\ state = TRUE /\ since = Period /\ closed = FALSE
      /\ high' = high /\ closed' = closed /\ clockSet' = clockSet
  BY SMT DEF OnTimer
<1>2. CASE pending = None
  <2>1. /\ state' \in BOOLEAN /\ ~state' /\ elapsed' = Period /\ timer' = None
        /\ pending' = pending /\ emitted' = emitted /\ since' = since /\ ahead' = ahead
    BY <1>2, <1>1 DEF OnTimer
  <2> QED BY <1>1, <1>2, <2>1, SMT
<1>3. CASE pending # None /\ elapsed < Period
  <2>1. /\ timer' = Period - elapsed /\ state' = state /\ elapsed' = elapsed
        /\ pending' = pending /\ emitted' = emitted /\ since' = since /\ ahead' = ahead
    BY <1>3, SMT DEF OnTimer
  <2> QED BY <1>1, <1>3, <2>1, SMT
<1>4. CASE pending # None /\ elapsed >= Period
  <2>1. /\ emitted' = pending /\ since' = 0 /\ ahead' = 0 /\ state' = TRUE /\ elapsed' = 0
        /\ pending' = None /\ timer' = Period
    BY <1>4, SMT DEF OnTimer, EmitRevision
  <2> QED BY <1>1, <1>4, <2>1, SMT
<1> QED BY <1>2, <1>3, <1>4, SMT

LEMMA CloseSafe == ASSUME DebouncerInv, Close PROVE DebouncerInv' /\ Emission
<1>1. /\ closed' \in BOOLEAN /\ closed' /\ state' \in BOOLEAN /\ ~state'
      /\ high' = None /\ elapsed' = Period
      /\ pending' = None /\ timer' = None
      /\ emitted' = emitted /\ since' = since /\ ahead' = ahead /\ clockSet' = clockSet
  BY DEF Close
<1>2. DebouncerTypeOK' /\ NewestIsOnItsWay' /\ PendingIsNewer' /\ (closed => ~state)' /\ Emission
  BY <1>1, SMT DEF DebouncerInv, DebouncerTypeOK, NewestIsOnItsWay, PendingIsNewer, Emission
<1>3. EntryCoversPeriod'
  BY <1>1, SMT DEF DebouncerInv, DebouncerTypeOK, EntryCoversPeriod
<1> QED BY <1>2, <1>3 DEF DebouncerInv

LEMMA TickSafe == ASSUME DebouncerInv, DebouncerTick PROVE DebouncerInv' /\ Emission
BY SMT DEF DebouncerInv, DebouncerTypeOK, NewestIsOnItsWay, EntryCoversPeriod, PendingIsNewer, Emission,
           DebouncerTick, Later, Earlier

LEMMA WallClockSetSafe ==
  ASSUME DebouncerInv, NEW ticks \in -2 * Period .. 2 * Period, WallClockSet(ticks)
  PROVE  DebouncerInv' /\ Emission
BY SMT DEF DebouncerInv, DebouncerTypeOK, NewestIsOnItsWay, EntryCoversPeriod, PendingIsNewer, Emission,
           WallClockSet, Capped

LEMMA StutterSafe == ASSUME DebouncerInv, UNCHANGED debouncerVars PROVE DebouncerInv' /\ Emission
BY DEF DebouncerInv, DebouncerTypeOK, NewestIsOnItsWay, EntryCoversPeriod, PendingIsNewer, Emission, debouncerVars

LEMMA DebouncerStepSafe == DebouncerInv /\ [DebouncerNext]_debouncerVars => DebouncerInv' /\ Emission
<1> SUFFICES ASSUME DebouncerInv, [DebouncerNext]_debouncerVars PROVE DebouncerInv' /\ Emission
  OBVIOUS
<1>1. CASE \E revision \in 0..LastRevision : Notify(revision)
  BY <1>1, NotifySafe
<1>2. CASE OnTimer
  BY <1>2, OnTimerSafe
<1>3. CASE Close
  BY <1>3, CloseSafe
<1>4. CASE DebouncerTick
  BY <1>4, TickSafe
<1>5. CASE \E ticks \in -2 * Period .. 2 * Period : WallClockSet(ticks)
  BY <1>5, WallClockSetSafe
<1>6. CASE UNCHANGED debouncerVars
  BY <1>6, StutterSafe
<1> QED BY <1>1, <1>2, <1>3, <1>4, <1>5, <1>6 DEF DebouncerNext

LEMMA DebouncerInvariance == DebouncerSpec => []DebouncerInv
<1>1. DebouncerInv /\ [DebouncerNext]_debouncerVars => DebouncerInv'
  BY DebouncerStepSafe
<1> QED BY DebouncerInitEstablishes, <1>1, PTL DEF DebouncerSpec

-----------------------------------------------------------------------------
(* Types, and the newest revision is never lost between the timer, the entry   *)
(* and the high-water mark.                                                   *)
THEOREM DebouncerTypeCorrect == DebouncerSpec => []DebouncerTypeOK
<1>1. DebouncerInv => DebouncerTypeOK
  BY DEF DebouncerInv
<1> QED BY DebouncerInvariance, <1>1, PTL

THEOREM NewestSafe == DebouncerSpec => []NewestIsOnItsWay
<1>1. DebouncerInv => NewestIsOnItsWay
  BY DEF DebouncerInv
<1> QED BY DebouncerInvariance, <1>1, PTL

(* No two emissions are closer than the period of real time less the ticks that *)
(* the wall clock was put forward between them; setting it back takes nothing.  *)
THEOREM SpacedSafe == DebouncerSpec => EmissionsAreSpaced
<1>1. DebouncerInv /\ [DebouncerNext]_debouncerVars => [emitted' # emitted => since + ahead >= Period]_debouncerVars
  BY DebouncerStepSafe DEF Emission
<1> QED BY DebouncerInvariance, <1>1, PTL DEF DebouncerSpec, EmissionsAreSpaced

(* The revisions that subscribers get grow. *)
THEOREM GrowsSafe == DebouncerSpec => EmittedGrows
<1>1. DebouncerInv /\ [DebouncerNext]_debouncerVars => [emitted' # emitted => emitted' > emitted]_debouncerVars
  BY DebouncerStepSafe DEF Emission
<1> QED BY DebouncerInvariance, <1>1, PTL DEF DebouncerSpec, EmittedGrows

\* What the Agent and the page do besides leaves the debouncer alone.
LEMMA EventsStep == ASSUME EventsNext PROVE [DebouncerNext]_debouncerVars
<1>1. ASSUME NEW r \in Revisions, Notified(r) PROVE [DebouncerNext]_debouncerVars
  BY <1>1 DEF Notified, DebouncerNext, Revisions
<1>2. ASSUME TimerFires \/ TimePasses \/ Disturbed PROVE DebouncerNext
  BY <1>2 DEF TimerFires, TimePasses, Disturbed, DebouncerNext
<1>3. ASSUME Commit \/ CommitSilently \/ OtherEvent \/ \E r \in Revisions : Repeated(r)
      PROVE  UNCHANGED debouncerVars
  BY <1>3 DEF Commit, CommitSilently, Repeated, OtherEvent
<1>4. ASSUME Reconnect \/ Breaks \/ Delivered \/ Refresh \/ AgentAnswers \/ LoadFails \/ Showing
      PROVE  UNCHANGED debouncerVars
  BY <1>4 DEF Reconnect, Breaks, Delivered, Refresh, AgentAnswers, LoadFails, Showing, Show, AgentWaits
<1> QED BY <1>1, <1>2, <1>3, <1>4 DEF EventsNext

(* With the handlers, the bus, the line and the page around it, the debouncer does *)
(* nothing else than what its own specification says, so that what is proved of it  *)
(* above holds of the whole way of an event.                                        *)
THEOREM EventsUseDebouncer == EventsSpec => DebouncerSpec
<1>1. EventsInit => DebouncerInit
  BY DEF EventsInit
<1>2. [EventsNext]_allVars => [DebouncerNext]_debouncerVars
  BY EventsStep DEF allVars
<1> QED BY <1>1, <1>2, PTL DEF EventsSpec, DebouncerSpec

-----------------------------------------------------------------------------
(* Peer connections: the offers an Agent has still to send (OffersInv), the        *)
(* phone's one socket and the texts on their way to it (PhoneInv).                 *)

Unsent(s) == {s[i] : i \in 1..Len(s)}

Links == [open: BOOLEAN, step: {"none", "authenticating", "writing", "idle"},
          authenticated: BOOLEAN, live: BOOLEAN, offers: Seq(Transfers),
          due: SUBSET Transfers, sent: SUBSET Transfers]

(* What was due when a connection authenticated has been sent or is still listed, and *)
(* a connection that accepts live events has come to the end of its list.             *)
CaughtUp(k) ==
  /\ k.step # "idle" => ~k.live
  /\ k.step = "writing" => k.offers # <<>> /\ k.due \subseteq k.sent \cup Unsent(k.offers)
  /\ k.live => k.due \subseteq k.sent

OffersInv == conn \in [Connections -> Links] /\ \A k \in Connections : CaughtUp(conn[k])

Phones == [app: {"active", "background"}, eligible: BOOLEAN, endpoint: Endpoints,
           current: Connections \cup {NoPeer}, timer: BOOLEAN, gaveUp: BOOLEAN]
Sockets == [state: {"none", "dialling", "open"}, endpoint: Endpoints]

OneSocket == \A k \in Connections : sock[k].state # "none" => phone.current = k

TextsKept ==
  \A m \in Texts, k \in Connections :
    k \in text[m].live => sock[k].state = "open" /\ m \in inbox[k] \cup saving \cup saved \cup unsaved

PhoneInv ==
  /\ phone \in Phones /\ sock \in [Connections -> Sockets] /\ address \in Endpoints
  /\ inbox \in [Connections -> SUBSET Texts]
  /\ text \in [Texts -> [state: {"new", "stored"}, live: SUBSET Connections]]
  /\ OneSocket /\ TextsKept

LEMMA OffersListed == Offers \subseteq Transfers /\ SetToSeq(Offers) \in Seq(Transfers) /\ Unsent(SetToSeq(Offers)) = Offers
<1> DEFINE n == Cardinality(Offers)
           f == SetToSeq(Offers)
<1>1. Offers \subseteq Transfers /\ IsFiniteSet(Offers)
  BY DeliveryAssumption, FS_Subset DEF Offers, DeliveryAssumption
<1>2. n \in Nat /\ ExistsBijection(1..n, Offers)
  BY <1>1, FS_CardinalityType
<1> HIDE DEF n
<1>3. \E g \in [1..n -> Offers] : IsInjective(g)
  BY <1>2 DEF ExistsBijection, Bijection, Injection, IsInjective
<1>4. f \in [1..n -> Offers] /\ IsInjective(f)
  BY <1>3 DEF SetToSeq, n
<1> HIDE DEF f
<1>5. f \in Injection(1..n, Offers)
  BY <1>4 DEF Injection, IsInjective
<1>6. IsFiniteSet(1..n) /\ Cardinality(1..n) = n
  BY <1>2, FS_Interval
<1>7. f \in Surjection(1..n, Offers)
  BY <1>1, <1>5, <1>6, FS_Injection DEF n
<1>8. f \in Seq(Offers) /\ Len(f) = n
  BY <1>2, <1>4
<1>9. Unsent(f) = Offers
  BY <1>4, <1>7, <1>8 DEF Unsent, Surjection
<1>10. f \in Seq(Transfers)
  BY <1>1, <1>2, <1>4, SeqDef
<1> QED BY <1>1, <1>9, <1>10 DEF f

LEMMA LinkKept ==
  ASSUME OffersInv, NEW k \in Connections, NEW x \in Links, CaughtUp(x),
         conn' = [conn EXCEPT ![k] = x]
  PROVE  OffersInv'
BY DEF OffersInv, CaughtUp

LEMMA UnusedLink == NoConnection \in Links /\ CaughtUp(NoConnection)
<1>1. <<>> \in Seq(Transfers)
  OBVIOUS
<1> QED BY <1>1 DEF NoConnection, Links, CaughtUp

LEMMA SendOffersKept ==
  ASSUME OffersInv, NEW c \in Connections, NEW k \in Links, ~k.live,
         k.due \subseteq k.sent \cup Unsent(k.offers), SendOffers(c, k)
  PROVE  OffersInv'
<1>1. CASE conn' = [conn EXCEPT ![c] = NoConnection]
  BY <1>1, UnusedLink, LinkKept
<1>2. ASSUME NEW n \in 0..Len(k.offers), k.open,
             LET sent == k.sent \cup {k.offers[i] : i \in 1..n}
             IN \/ /\ n = Len(k.offers)
                   /\ conn' = [conn EXCEPT ![c] = [k EXCEPT !.step = "idle", !.live = TRUE,
                                                            !.offers = <<>>, !.sent = sent]]
                \/ /\ n < Len(k.offers) /\ Waiting(k.offers[n + 1])
                   /\ conn' = [conn EXCEPT ![c] = [k EXCEPT !.step = "writing", !.sent = sent,
                                                            !.offers = SubSeq(@, n + 1, Len(@))]]
      PROVE  OffersInv'
  <2> DEFINE sent == k.sent \cup {k.offers[i] : i \in 1..n}
             rest == SubSeq(k.offers, n + 1, Len(k.offers))
  <2>1. k.offers \in Seq(Transfers) /\ k.sent \subseteq Transfers /\ k.due \subseteq Transfers
        /\ Len(k.offers) \in Nat /\ \A i \in 1..Len(k.offers) : k.offers[i] \in Transfers
    BY LenProperties, ElementOfSeq DEF Links
  <2>2. sent \subseteq Transfers /\ (n = Len(k.offers) => k.due \subseteq sent)
    BY <2>1 DEF Unsent
  <2>3. n < Len(k.offers) => /\ rest \in Seq(Transfers) /\ rest # <<>>
                             /\ k.due \subseteq sent \cup Unsent(rest)
    <3> SUFFICES ASSUME n < Len(k.offers)
                 PROVE  rest \in Seq(Transfers) /\ rest # <<>> /\ k.due \subseteq sent \cup Unsent(rest)
      OBVIOUS
    <3>1. /\ rest \in Seq(Transfers) /\ Len(rest) = Len(k.offers) - n
          /\ \A i \in 1..Len(rest) : rest[i] = k.offers[n + i]
      BY <2>1, SubSeqProperties
    <3>2. ASSUME NEW i \in 1..Len(k.offers) PROVE k.offers[i] \in sent \cup Unsent(rest)
      <4>1. CASE i <= n
        BY <2>1, <4>1
      <4>2. CASE i > n
        <5>1. i - n \in 1..Len(rest) /\ n + (i - n) = i
          BY <2>1, <3>1, <4>2
        <5> QED BY <3>1, <5>1 DEF Unsent
      <4> QED BY <2>1, <4>1, <4>2
    <3> HIDE DEF rest
    <3>3. rest # <<>>
      <4>1. Len(rest) # 0
        BY <2>1, <3>1
      <4>2. Len(<<>>) = 0
        OBVIOUS
      <4> QED BY <4>1, <4>2
    <3> QED BY <2>1, <3>1, <3>2, <3>3 DEF Unsent
  <2> HIDE DEF sent, rest
  <2>4. <<>> \in Seq(Transfers)
    OBVIOUS
  <2>5. CASE n = Len(k.offers) /\ conn' = [conn EXCEPT ![c] = [k EXCEPT !.step = "idle", !.live = TRUE,
                                                            !.offers = <<>>, !.sent = sent]]
    <3> DEFINE x == [k EXCEPT !.step = "idle", !.live = TRUE, !.offers = <<>>, !.sent = sent]
    <3>1. x \in Links /\ x.step = "idle" /\ x.due = k.due /\ x.sent = sent
      BY <2>2, <2>4 DEF Links
    <3>2. CaughtUp(x)
      BY <2>2, <2>5, <3>1 DEF CaughtUp
    <3> HIDE DEF x
    <3> QED BY <2>5, <3>1, <3>2, LinkKept DEF x
  <2>6. CASE n < Len(k.offers) /\ conn' = [conn EXCEPT ![c] = [k EXCEPT !.step = "writing", !.sent = sent,
                                                            !.offers = rest]]
    <3> DEFINE x == [k EXCEPT !.step = "writing", !.sent = sent, !.offers = rest]
    <3>1. x \in Links /\ x.step = "writing" /\ x.due = k.due /\ x.sent = sent /\ x.offers = rest /\ ~x.live
      BY <2>2, <2>3, <2>6 DEF Links
    <3>2. CaughtUp(x)
      BY <2>3, <2>6, <3>1 DEF CaughtUp
    <3> HIDE DEF x
    <3> QED BY <2>6, <3>1, <3>2, LinkKept DEF x
  <2> QED BY <1>2, <2>5, <2>6 DEF sent, rest
<1> QED BY <1>1, <1>2 DEF SendOffers

LEMMA EndedLink ==
  ASSUME NEW k \in Links, CaughtUp(k)
  PROVE  Ended(k) \in Links /\ (k.live => k.due \subseteq k.sent) /\ (~k.live => CaughtUp(Ended(k)))
BY UnusedLink DEF Ended, Links, CaughtUp

LEMMA OffersHandled ==
  ASSUME OffersInv, NEW c \in Connections, Handle(c)
  PROVE  OffersInv'
<1>1. conn[c] \in Links /\ CaughtUp(conn[c])
  BY DEF OffersInv
<1>2. conn[c].step \in {"authenticating", "writing"}
  BY DEF Handle, Authenticated, Rejected, Marked, MarkFails
<1>3. ~conn[c].live
  BY <1>1, <1>2 DEF CaughtUp
<1>4. CASE conn' = [conn EXCEPT ![c] = Ended(conn[c])]
  BY <1>1, <1>3, <1>4, EndedLink, LinkKept
<1>5. CASE Authenticated(c)
  <2> DEFINE order == SetToSeq(Offers)
             k     == [conn[c] EXCEPT !.authenticated = TRUE, !.offers = order, !.due = Offers]
  <2>1. Offers \subseteq Transfers /\ order \in Seq(Transfers) /\ Unsent(order) = Offers
    BY OffersListed
  <2> HIDE DEF order
  <2>2. k \in Links /\ ~k.live /\ k.due = Offers /\ k.offers = order
    BY <1>1, <1>3, <2>1 DEF Links
  <2>3. SendOffers(c, k)
    BY <1>5 DEF Authenticated, order, Offers
  <2> HIDE DEF k
  <2> QED BY <2>1, <2>2, <2>3, SendOffersKept
<1>6. CASE Marked(c)
  <2> DEFINE o == conn[c].offers
             k == [conn[c] EXCEPT !.offers = Tail(o), !.sent = @ \cup {Head(o)}]
  <2>1. o \in Seq(Transfers) /\ o # <<>> /\ conn[c].due \subseteq conn[c].sent \cup Unsent(o)
    BY <1>1, <1>6 DEF Marked, CaughtUp, Links
  <2>2. /\ Head(o) \in Transfers /\ Tail(o) \in Seq(Transfers) /\ Len(Tail(o)) = Len(o) - 1
        /\ Len(o) \in Nat /\ Len(o) > 0 /\ Head(o) = o[1]
        /\ \A i \in 1..Len(Tail(o)) : Tail(o)[i] = o[i + 1]
    BY <2>1, HeadTailProperties, LenProperties, EmptySeq
  <2>3. Unsent(o) \subseteq {Head(o)} \cup Unsent(Tail(o))
    <3>1. ASSUME NEW i \in 1..Len(o) PROVE o[i] \in {Head(o)} \cup Unsent(Tail(o))
      <4>1. CASE i # 1
        <5>1. i - 1 \in 1..Len(Tail(o)) /\ (i - 1) + 1 = i
          BY <2>2, <4>1
        <5> QED BY <2>2, <5>1 DEF Unsent
      <4> QED BY <2>2, <4>1
    <3> QED BY <3>1 DEF Unsent
  <2> HIDE DEF o
  <2>4. k \in Links /\ ~k.live /\ k.due = conn[c].due /\ k.offers = Tail(o) /\ k.sent = conn[c].sent \cup {Head(o)}
    BY <1>1, <1>3, <2>2 DEF Links
  <2>5. SendOffers(c, k)
    BY <1>6 DEF Marked, o
  <2> HIDE DEF k
  <2>6. k.due \subseteq k.sent \cup Unsent(k.offers)
    BY <2>1, <2>3, <2>4
  <2> QED BY <2>4, <2>5, <2>6, SendOffersKept
<1> QED BY <1>4, <1>5, <1>6 DEF Handle, Rejected, MarkFails

\* The requests that create transfers send to live connections.
LEMMA OffersManaged ==
  ASSUME OffersInv,
         \/ \E k \in Connections : Handle(k) \/ Connect(k) \/ Disconnect(k)
         \/ \E t \in Transfers : CreateTransfer(t) \/ Created(t) \/ CreatedMarked(t) \/ CreationFails(t)
              \/ PauseTransfer(t) \/ ResumeTransfer(t) \/ Finish(t)
         \/ conn' = [k \in Connections |-> IF conn[k].step \in {"none", "idle"} THEN NoConnection
                                            ELSE [conn[k] EXCEPT !.open = FALSE]]
         \/ UNCHANGED conn
  PROVE  OffersInv'
<1>1. \A k \in Connections : conn[k] \in Links /\ CaughtUp(conn[k])
  BY DEF OffersInv
<1>2. CASE UNCHANGED conn
  BY <1>2 DEF OffersInv, CaughtUp
<1>3. ASSUME NEW k \in Connections, Handle(k) PROVE OffersInv'
  BY <1>3, OffersHandled
<1>4. ASSUME NEW k \in Connections, Connect(k) PROVE OffersInv'
  <2> DEFINE x == [conn[k] EXCEPT !.open = TRUE, !.step = "authenticating"]
  <2>1. conn[k] = NoConnection /\ conn' = [conn EXCEPT ![k] = x]
    BY <1>4 DEF Connect, OffersInv
  <2>2. NoConnection \in Links /\ NoConnection.step = "none" /\ ~NoConnection.live
    BY UnusedLink DEF NoConnection
  <2>3. x \in Links /\ x.step = "authenticating" /\ ~x.live
    <3>1. x = [NoConnection EXCEPT !.open = TRUE, !.step = "authenticating"]
      BY <2>1
    <3> HIDE DEF x
    <3> QED BY <2>2, <3>1 DEF Links
  <2>4. x \in Links /\ CaughtUp(x)
    BY <2>3 DEF CaughtUp
  <2> HIDE DEF x
  <2> QED BY <2>1, <2>4, LinkKept
<1>5. ASSUME NEW k \in Links, CaughtUp(k)
      PROVE  [k EXCEPT !.open = FALSE] \in Links /\ CaughtUp([k EXCEPT !.open = FALSE])
  BY <1>5 DEF Links, CaughtUp
<1>6. ASSUME NEW k \in Connections, Disconnect(k) PROVE OffersInv'
  <2> DEFINE x == IF conn[k].step = "idle" THEN NoConnection ELSE [conn[k] EXCEPT !.open = FALSE]
  <2>1. conn' = [conn EXCEPT ![k] = x]
    BY <1>6 DEF Disconnect, OffersInv
  <2>2. x \in Links /\ CaughtUp(x)
    BY <1>1, <1>5, UnusedLink
  <2> HIDE DEF x
  <2> QED BY <2>1, <2>2, LinkKept
<1>7. ASSUME NEW t \in Transfers, conn' = SentLive(t) PROVE OffersInv'
  <2>1. ASSUME NEW k \in Connections PROVE SentLive(t)[k] \in Links /\ CaughtUp(SentLive(t)[k])
    <3>1. SentLive(t)[k] \in {conn[k], [conn[k] EXCEPT !.sent = @ \cup {t}]}
      BY DEF SentLive
    <3>2. [conn[k] EXCEPT !.sent = @ \cup {t}] \in Links /\ CaughtUp([conn[k] EXCEPT !.sent = @ \cup {t}])
      BY <1>1 DEF Links, CaughtUp
    <3> QED BY <1>1, <3>1, <3>2
  <2>2. SentLive(t) \in [Connections -> Links]
    BY <2>1 DEF SentLive
  <2> QED BY <1>7, <2>1, <2>2 DEF OffersInv, CaughtUp
<1>8. ASSUME NEW t \in Transfers,
             CreateTransfer(t) \/ Created(t) \/ CreatedMarked(t) \/ CreationFails(t)
             \/ PauseTransfer(t) \/ ResumeTransfer(t) \/ Finish(t)
      PROVE  UNCHANGED conn \/ conn' = SentLive(t)
  BY <1>8 DEF CreateTransfer, Created, CreatedMarked, CreationFails, PauseTransfer, ResumeTransfer, Finish
<1>9. CASE conn' = [k \in Connections |-> IF conn[k].step \in {"none", "idle"} THEN NoConnection
                                           ELSE [conn[k] EXCEPT !.open = FALSE]]
  <2>1. ASSUME NEW k \in Connections PROVE conn'[k] \in Links /\ CaughtUp(conn'[k])
    BY <1>1, <1>5, <1>9, UnusedLink
  <2> QED BY <1>9, <2>1 DEF OffersInv, CaughtUp
<1> QED BY <1>2, <1>3, <1>4, <1>6, <1>7, <1>8, <1>9

-----------------------------------------------------------------------------
(* The phone: a socket is left alone, or it is closed, and with it its frames. *)

\* A step that closes socket k, or none, and takes the phone from no other connection.
LEMMA SocketDropped ==
  ASSUME PhoneInv, NEW k, phone' \in Phones, Dropped, UNCHANGED <<address, saving, saved, unsaved>>,
         sock' \in {sock, Closed(sock, k)}, phone'.current \in {phone.current, NoPeer},
         phone'.current = phone.current \/ (k = phone.current /\ sock' = Closed(sock, k))
  PROVE  PhoneInv'
<1> USE RuntimeAssumption DEF RuntimeAssumption, PhoneInv
<1>1. NoSocket \in Sockets /\ NoSocket.state = "none"
  BY DEF NoSocket, Sockets, Endpoints
<1>2. sock' \in [Connections -> Sockets]
  BY <1>1 DEF Closed
<1>3. ASSUME NEW d \in Connections, sock'[d].state # "none"
      PROVE  sock'[d] = sock[d] /\ phone'.current = d
  <2>1. sock'[d] = sock[d] /\ (sock' = Closed(sock, k) => d # k)
    BY <1>1, <1>3 DEF Closed
  <2>2. phone.current = d
    BY <1>3, <2>1 DEF OneSocket
  <2> QED BY <2>1, <2>2
<1>4. inbox' = [d \in Connections |-> IF sock'[d].state = "open" THEN inbox[d] ELSE {}]
  BY DEF Dropped
<1>5. text' = [m \in Texts |-> [text[m] EXCEPT !.live = {d \in @ : sock'[d].state = "open"}]]
  BY DEF Dropped
<1>6. inbox' \in [Connections -> SUBSET Texts]
  BY <1>4
<1>7. ASSUME NEW m \in Texts
      PROVE  /\ text'[m] \in [state: {"new", "stored"}, live: SUBSET Connections]
             /\ text'[m].live = {d \in text[m].live : sock'[d].state = "open"}
  BY <1>5
<1>8. text' \in [Texts -> [state: {"new", "stored"}, live: SUBSET Connections]]
  BY <1>5, <1>7
<1>9. ASSUME NEW m \in Texts, NEW d \in Connections, d \in text'[m].live
      PROVE  sock'[d].state = "open" /\ m \in inbox'[d] \cup saving' \cup saved' \cup unsaved'
  <2>1. d \in text[m].live /\ sock'[d].state = "open"
    BY <1>7, <1>9
  <2> QED BY <1>4, <2>1 DEF TextsKept
<1>10. OneSocket'
  BY <1>3 DEF OneSocket
<1>11. TextsKept'
  BY <1>9 DEF TextsKept
<1> QED BY <1>2, <1>6, <1>8, <1>10, <1>11

LEMMA Reconciled ==
  ASSUME PhoneInv, NEW p \in Phones, p.current = phone.current, Reconcile(p, sock), Dropped,
         UNCHANGED <<address, saving, saved, unsaved>>
  PROVE  PhoneInv'
<1> DEFINE drop == /\ p.app = "active" /\ p.current # NoPeer
                   /\ ~p.eligible \/ sock[p.current].endpoint # p.endpoint
           dial == p.app = "active" /\ p.eligible /\ (drop \/ p.current = NoPeer)
           given == p.gaveUp /\ ~dial
<1>1. /\ given \in BOOLEAN
      /\ phone' = [p EXCEPT !.current = IF drop THEN NoPeer ELSE p.current, !.gaveUp = given]
      /\ sock' = IF drop THEN Closed(sock, p.current) ELSE sock
  BY DEF Reconcile
<1> HIDE DEF drop, dial, given
<1>2. /\ phone' \in Phones
      /\ phone'.current = IF drop THEN NoPeer ELSE phone.current
  BY <1>1 DEF Phones
<1> QED BY <1>1, <1>2, SocketDropped

LEMMA PhoneReconciles ==
  ASSUME PhoneInv, TrustChanges \/ PairedAgain \/ Foreground \/ ReconnectTimer
  PROVE  PhoneInv'
<1>1. phone \in Phones /\ address \in Endpoints
  BY DEF PhoneInv
<1>2. Dropped /\ UNCHANGED <<address, saving, saved, unsaved>>
  BY DEF TrustChanges, PairedAgain, Foreground, ReconnectTimer, AgentIdle
<1>3. ASSUME NEW eligible \in BOOLEAN, NEW e \in Endpoints,
             Reconcile([phone EXCEPT !.eligible = eligible, !.endpoint = e], sock)
      PROVE  PhoneInv'
  <2> DEFINE p == [phone EXCEPT !.eligible = eligible, !.endpoint = e]
  <2>1. p \in Phones /\ p.current = phone.current
    BY <1>1 DEF Phones
  <2> HIDE DEF p
  <2> QED BY <1>2, <1>3, <2>1, Reconciled DEF p
<1>4. CASE Reconcile([phone EXCEPT !.endpoint = address], sock)
  <2> DEFINE p == [phone EXCEPT !.endpoint = address]
  <2>1. p \in Phones /\ p.current = phone.current
    BY <1>1 DEF Phones
  <2> HIDE DEF p
  <2> QED BY <1>2, <1>4, <2>1, Reconciled DEF p
<1>5. CASE Reconcile([phone EXCEPT !.app = "active"], sock)
  <2> DEFINE p == [phone EXCEPT !.app = "active"]
  <2>1. p \in Phones /\ p.current = phone.current
    BY <1>1 DEF Phones
  <2> HIDE DEF p
  <2> QED BY <1>2, <1>5, <2>1, Reconciled DEF p
<1>6. CASE Reconcile([phone EXCEPT !.timer = FALSE], sock)
  <2> DEFINE p == [phone EXCEPT !.timer = FALSE]
  <2>1. p \in Phones /\ p.current = phone.current
    BY <1>1 DEF Phones
  <2> HIDE DEF p
  <2> QED BY <1>2, <1>6, <2>1, Reconciled DEF p
<1> QED BY <1>3, <1>4, <1>5, <1>6 DEF TrustChanges, PairedAgain, Foreground, ReconnectTimer

LEMMA PhoneCloses ==
  ASSUME PhoneInv, Background \/ \E k \in Connections : PhoneLoses(k)
  PROVE  PhoneInv'
<1>1. phone \in Phones
  BY DEF PhoneInv
<1>2. Dropped /\ UNCHANGED <<address, saving, saved, unsaved>>
  BY DEF Background, PhoneLoses, AgentIdle
<1>3. CASE Background
  <2>1. phone' = [phone EXCEPT !.app = "background", !.current = NoPeer] /\ sock' = Closed(sock, phone.current)
    BY <1>3 DEF Background
  <2>2. phone' \in Phones /\ phone'.current = NoPeer
    BY <1>1, <2>1 DEF Phones
  <2> QED BY <1>2, <2>1, <2>2, SocketDropped
<1>4. ASSUME NEW k \in Connections, PhoneLoses(k) PROVE PhoneInv'
  <2>1. /\ sock' = Closed(sock, k)
        /\ phone' = IF phone.current = k THEN [phone EXCEPT !.current = NoPeer, !.timer = TRUE] ELSE phone
    BY <1>4 DEF PhoneLoses, OnClose
  <2>2. /\ phone' \in Phones /\ phone'.current \in {phone.current, NoPeer}
        /\ phone'.current = phone.current \/ k = phone.current
    BY <1>1, <2>1 DEF Phones
  <2> QED BY <1>2, <2>1, <2>2, SocketDropped
<1> QED BY <1>3, <1>4

LEMMA PhoneGivesUp ==
  ASSUME PhoneInv, NEW e \in Endpoints, LookupFails(e)
  PROVE  PhoneInv'
<1>1. phone' = [phone EXCEPT !.gaveUp = phone.current = NoPeer]
      /\ UNCHANGED <<address, sock, inbox, saving, saved, unsaved, text>>
  BY DEF LookupFails, AgentIdle
<1>2. phone' \in Phones /\ phone'.current = phone.current
  BY <1>1 DEF PhoneInv, Phones
<1> QED BY <1>1, <1>2 DEF PhoneInv, OneSocket, TextsKept

LEMMA PhoneConnects ==
  ASSUME PhoneInv, NEW k \in Connections,
         (\E e \in Endpoints : Dial(e, k)) \/ Opens(k)
  PROVE  PhoneInv'
<1> USE RuntimeAssumption DEF RuntimeAssumption, PhoneInv
<1>1. UNCHANGED <<inbox, text, saving, saved, unsaved, address>>
  BY DEF Dial, Opens, AgentIdle
<1>2. CASE UNCHANGED <<phone, sock>>
  BY <1>1, <1>2 DEF OneSocket, TextsKept
<1>3. ASSUME NEW e \in Endpoints, phone.current = NoPeer, sock[k] = NoSocket,
             phone' = [phone EXCEPT !.current = k, !.gaveUp = FALSE],
             sock' = [sock EXCEPT ![k] = [state |-> "dialling", endpoint |-> e]]
      PROVE  PhoneInv'
  <2>1. phone' \in Phones /\ phone'.current = k
    BY <1>3 DEF Phones
  <2>2. sock' \in [Connections -> Sockets]
    BY <1>3 DEF Sockets
  <2>3. \A d \in Connections : sock[d].state = "none"
    BY <1>3 DEF OneSocket
  <2>4. OneSocket'
    BY <1>3, <2>1, <2>3 DEF OneSocket
  <2>5. TextsKept'
    BY <1>1, <2>3 DEF TextsKept
  <2> QED BY <1>1, <2>1, <2>2, <2>4, <2>5
<1>4. CASE Opens(k)
  <2>1. UNCHANGED phone /\ sock' = [sock EXCEPT ![k].state = "open"] /\ sock[k].state = "dialling"
    BY <1>4 DEF Opens
  <2>2. sock' \in [Connections -> Sockets]
    BY <2>1 DEF Sockets
  <2>3. \A d \in Connections : sock'[d].state # "none" => sock[d].state # "none"
    BY <2>1
  <2>4. \A d \in Connections : sock[d].state = "open" => sock'[d].state = "open"
    BY <2>1
  <2>5. OneSocket'
    BY <2>1, <2>3 DEF OneSocket
  <2>6. TextsKept'
    BY <1>1, <2>4 DEF TextsKept
  <2> QED BY <1>1, <2>1, <2>2, <2>5, <2>6
<1> QED BY <1>2, <1>3, <1>4 DEF Dial

LEMMA TextsHandled ==
  ASSUME PhoneInv, NEW m \in Texts,
         Appended(m) \/ Save(m) \/ SaveFails(m) \/ \E k \in Connections : Take(k, m)
  PROVE  PhoneInv'
<1> USE DEF PhoneInv
<1>1. UNCHANGED <<phone, sock, address>>
  BY DEF Appended, Save, SaveFails, Take, AgentIdle, PhoneIdle
<1>2. CASE Save(m) \/ SaveFails(m)
  <2>1. saving' \cup saved' \cup unsaved' = saving \cup saved \cup unsaved /\ UNCHANGED <<inbox, text>>
    BY <1>2 DEF Save, SaveFails
  <2> QED BY <1>1, <2>1 DEF OneSocket, TextsKept
<1>3. ASSUME NEW k \in Connections, Take(k, m) PROVE PhoneInv'
  <2>1. /\ inbox' = [inbox EXCEPT ![k] = @ \ {m}] /\ UNCHANGED <<text, saved, unsaved>>
        /\ saving' = IF phone.current = k THEN saving \cup {m} ELSE saving
    BY <1>3 DEF Take
  <2>2. inbox' \in [Connections -> SUBSET Texts]
    BY <2>1
  <2>3. ASSUME NEW n \in Texts, NEW d \in Connections, d \in text[n].live
        PROVE  sock[d].state = "open" /\ n \in inbox'[d] \cup saving' \cup saved' \cup unsaved'
    <3>1. sock[d].state = "open" /\ n \in inbox[d] \cup saving \cup saved \cup unsaved
      BY <2>3 DEF TextsKept
    <3>2. phone.current = d
      BY <3>1 DEF OneSocket
    <3> QED BY <2>1, <3>1, <3>2
  <2>4. TextsKept'
    BY <1>1, <2>1, <2>3 DEF TextsKept
  <2> QED BY <1>1, <2>1, <2>2, <2>4 DEF OneSocket
<1>4. CASE Appended(m)
  <2>1. /\ text' = [text EXCEPT ![m] = [state |-> "stored", live |-> Hearing]]
        /\ inbox' = [d \in Connections |-> IF d \in Hearing THEN inbox[d] \cup {m} ELSE inbox[d]]
        /\ UNCHANGED <<saving, saved, unsaved>>
    BY <1>4 DEF Appended, PhoneIdle
  <2>2. Hearing \subseteq Connections /\ \A d \in Hearing : sock[d].state = "open"
    BY DEF Hearing, Live
  <2>3. inbox' \in [Connections -> SUBSET Texts]
    BY <2>1
  <2>4. text' \in [Texts -> [state: {"new", "stored"}, live: SUBSET Connections]]
    BY <2>1, <2>2
  <2>5. TextsKept'
    BY <1>1, <2>1, <2>2 DEF TextsKept
  <2> QED BY <1>1, <2>3, <2>4, <2>5 DEF OneSocket
<1> QED BY <1>2, <1>3, <1>4

LEMMA AgentActs ==
  ASSUME PhoneInv, UNCHANGED <<phoneVars, text>>, address' \in Endpoints
  PROVE  PhoneInv'
BY DEF PhoneInv, phoneVars, OneSocket, TextsKept

LEMMA PeersBegin == RuntimeInit => OffersInv /\ PhoneInv
<1> SUFFICES ASSUME RuntimeInit PROVE OffersInv /\ PhoneInv
  OBVIOUS
<1>1. OffersInv
  BY UnusedLink DEF RuntimeInit, OfferInit, OffersInv
<1>2. phone \in Phones /\ address \in Endpoints
  BY DEF RuntimeInit, Phones, Endpoints
<1>3. sock \in [Connections -> Sockets] /\ OneSocket
  BY DEF RuntimeInit, NoSocket, Sockets, Endpoints, OneSocket
<1>4. /\ inbox \in [Connections -> SUBSET Texts]
      /\ text \in [Texts -> [state: {"new", "stored"}, live: SUBSET Connections]] /\ TextsKept
  BY DEF RuntimeInit, TextsKept
<1> QED BY <1>1, <1>2, <1>3, <1>4 DEF PhoneInv

LEMMA PeersStep == OffersInv /\ PhoneInv /\ [RuntimeNext]_runtimeVars => OffersInv' /\ PhoneInv'
<1> SUFFICES ASSUME OffersInv, PhoneInv, [RuntimeNext]_runtimeVars PROVE OffersInv' /\ PhoneInv'
  OBVIOUS
<1>1. CASE TrustChanges \/ PairedAgain \/ Background \/ Foreground \/ ReconnectTimer
  <2>1. UNCHANGED conn
    BY <1>1 DEF TrustChanges, PairedAgain, Background, Foreground, ReconnectTimer, AgentIdle, agentVars
  <2> QED BY <1>1, <2>1, OffersManaged, PhoneReconciles, PhoneCloses
<1>2. CASE Connecting
  <2>1. UNCHANGED conn \/ \E k \in Connections : Connect(k)
    BY <1>2 DEF Connecting, Dial, Opens, AgentIdle, agentVars
  <2>2. \E k \in Connections : (\E e \in Endpoints : Dial(e, k)) \/ Opens(k)
    BY <1>2 DEF Connecting
  <2> QED BY <2>1, <2>2, OffersManaged, PhoneConnects
<1>3. ASSUME NEW k \in Connections, PhoneLoses(k) PROVE OffersInv' /\ PhoneInv'
  <2>1. UNCHANGED conn
    BY <1>3 DEF PhoneLoses, AgentIdle, agentVars
  <2> QED BY <1>3, <2>1, OffersManaged, PhoneCloses
<1>4. ASSUME NEW k \in Connections, AgentLoses(k) PROVE OffersInv' /\ PhoneInv'
  <2>1. Disconnect(k) /\ UNCHANGED <<phoneVars, text, address>>
    BY <1>4 DEF AgentLoses
  <2> QED BY <2>1, OffersManaged, AgentActs DEF PhoneInv
<1>5. ASSUME NEW m \in Texts, Appended(m) \/ Save(m) \/ SaveFails(m) \/ \E k \in Connections : Take(k, m)
      PROVE  OffersInv' /\ PhoneInv'
  <2>1. UNCHANGED conn
    BY <1>5 DEF Appended, Save, SaveFails, Take, AgentIdle, agentVars
  <2> QED BY <1>5, <2>1, OffersManaged, TextsHandled
<1>6. CASE AgentMoves
  <2>1. UNCHANGED <<phoneVars, text>> /\ address' \in Endpoints
    BY <1>6 DEF AgentMoves
  <2> QED BY <1>6, <2>1, OffersManaged, AgentActs DEF AgentMoves
<1>7. CASE Manage
  <2>1. UNCHANGED <<phoneVars, text, address>>
    BY <1>7 DEF Manage
  <2> QED BY <1>7, <2>1, OffersManaged, AgentActs DEF Manage, PhoneInv
<1>9. ASSUME NEW e \in Endpoints, LookupFails(e) PROVE OffersInv' /\ PhoneInv'
  <2>1. UNCHANGED conn
    BY <1>9 DEF LookupFails, AgentIdle, agentVars
  <2> QED BY <1>9, <2>1, OffersManaged, PhoneGivesUp
<1>8. CASE UNCHANGED runtimeVars
  <2>1. UNCHANGED <<conn, phoneVars, text, address>>
    BY <1>8 DEF runtimeVars, agentVars
  <2> QED BY <2>1, OffersManaged, AgentActs DEF PhoneInv
<1> QED BY <1>1, <1>2, <1>3, <1>4, <1>5, <1>6, <1>7, <1>8, <1>9 DEF RuntimeNext

LEMMA PeersInvariant == RuntimeSpec => [](OffersInv /\ PhoneInv)
BY PeersBegin, PeersStep, PTL DEF RuntimeSpec

\* A connection that accepts live events has been sent all that was outstanding when it
\* authenticated (sendOutstandingOffers sets the flag after its loop).
THEOREM OffersSafe == RuntimeSpec => [](\A k \in Live : conn[k].due \subseteq conn[k].sent)
<1>1. OffersInv => \A k \in Live : conn[k].due \subseteq conn[k].sent
  BY DEF OffersInv, CaughtUp, Live
<1> QED BY <1>1, PeersInvariant, PTL

\* The phone has one socket at a time, its current connection, whatever calls of connect()
\* overlap.
THEOREM SocketsSafe == RuntimeSpec => []OneSocket
BY PeersInvariant, PTL DEF PhoneInv

\* A text that was sent over a connection which is still open is on its way, in the hands of
\* the phone, saved, or refused by the phone's database, and never lost in between: what
\* LiveTextIsSaved adds is that it gets to one of the last two.
THEOREM TextsSafe == RuntimeSpec => []TextsKept
BY PeersInvariant, PTL DEF PhoneInv
====

----------------------- MODULE V3IncomingTransferProofs -----------------------
(***************************************************************************)
(* Proofs about V3IncomingTransfer, for any number of chunks, coroutines,  *)
(* offers, controls and troubles.                                          *)
(***************************************************************************)
EXTENDS V3IncomingTransfer, SequenceTheorems, TLAPS

-----------------------------------------------------------------------------
(* Types. *)

AgentStatuses  == {"waiting_for_peer", "transferring", "paused", "completed", "cancelled"}
NativeStatuses == {"none", "transferring", "paused", "failed", "completed"}
Statuses       == {"none", "transferring", "paused", "failed", "completed", "cancelled"}
Steps          == {"idle", "fetch", "root", "ack", "acked"}

Changes == [op : {"offer", "event", "delete"}, status : Statuses, revision : Nat]

AgentTyped   == agent \in [status : AgentStatuses, revision : Nat, acknowledged : SUBSET All]
NativeTyped  == native \in [status : NativeStatuses, revision : Nat]
JobTyped     == /\ job \in [Jobs -> [step : Steps, chunk : All, link : {"job", "cancelled", "orphan"},
                                     revision : Nat]]
                /\ \A j \in Jobs : job[j].step = "idle" => job[j] = Idle
FileTyped    == file \in [dir : BOOLEAN, part : SUBSET All, final : BOOLEAN]
QueueTyped   == writes \in Seq(Changes) /\ starts \in Seq(Nat)
RowTyped     == row \in [status : Statuses, revision : Nat]
ControlTyped == /\ control \in [op : {"none", "pause", "resume", "cancel", "delete"},
                                step : {"idle", "post", "done", "refused", "files"}, revision : Nat]
                /\ control.step = "files" => control.op = "delete"
                /\ control.step = "idle" \/ control.op = "none" => control = NoControl
PastTyped    == /\ past \in [proved : BOOLEAN, deleted : BOOLEAN, overlapped : BOOLEAN, late : BOOLEAN]
                /\ used \in [offers : Nat, controls : Nat, troubles : Nat]

Typed == /\ AgentTyped /\ NativeTyped /\ JobTyped /\ FileTyped
         /\ QueueTyped /\ RowTyped /\ ControlTyped /\ PastTyped

-----------------------------------------------------------------------------
(* The inductive invariant: what is true whatever goes wrong. *)

\* The coroutine that the record knows and would cancel.
Linked(j)  == job[j].step # "idle" /\ job[j].link = "job"
NoneLinked == \A j \in Jobs : ~Linked(j)

\* A coroutine works on a chunk when the Agent has all before it.
Reached(j) == 1..(IF job[j].step = "acked" THEN job[j].chunk ELSE job[j].chunk - 1)

Acks ==
  /\ agent.acknowledged = All => agent.status = "completed"
  /\ \A j \in Jobs : Reached(j) \subseteq agent.acknowledged
  /\ \A j \in Jobs : job[j].step = "root" => job[j].chunk = LastChunk
  /\ \A j \in Jobs : job[j].step = "acked" /\ job[j].chunk = LastChunk =>
       agent.status = "completed" /\ job[j].revision = agent.revision

OneLinked == \A j, k \in Jobs : Linked(j) /\ Linked(k) => j = k

\* Without a record there are only coroutines of a cancelled one.
Orphans ==
  /\ native.status = "none" => \A j \in Jobs : job[j].step = "idle" \/ job[j].link = "orphan"
  /\ \A j \in Jobs : job[j].step # "idle" /\ job[j].link = "orphan" => agent.status = "cancelled"

Stopping == native.status = "paused" \/ control.op \in {"pause", "resume"} => NoneLinked

\* A control that the Agent has taken.
Controls ==
  /\ control.step \in {"post", "done", "refused"} => native.status # "none"
  /\ control.step = "done" /\ control.op \in {"cancel", "delete"} =>
       agent.status = "cancelled" /\ control.revision = agent.revision
  /\ control.step = "done" /\ control.op = "pause" =>
       agent.status = "paused" /\ control.revision = agent.revision
  /\ control.step = "done" /\ control.op = "resume" => agent.status \in {"transferring", "completed"}

HasOffer       == \E i \in 1..Len(writes) : writes[i].op = "offer"
CompletedComes == \E i \in 1..Len(writes) : writes[i].op = "event" /\ writes[i].status = "completed"

\* No record begins for a transfer that was not offered or that is complete.
NotOffered ==
  /\ agent.status = "waiting_for_peer" => native.status = "none"
  /\ native.status = "none" /\ agent.status \in {"waiting_for_peer", "completed"} =>
       starts = <<>> /\ ~HasOffer

\* The phone says, or will say, that the transfer is completed.
Told == row.status = "completed" \/ native.status = "completed" \/ CompletedComes

ToldIsOver ==
  Told => /\ agent.status = "completed" /\ native.status \in {"completed", "failed", "none"}
          /\ NoneLinked /\ control.op \notin {"pause", "resume"}

\* Only the coroutine that computes the content root has anything to do with the
\* file, and nothing takes it away once it is published, if no cancelled coroutine
\* runs on beside it or fails.
Finals ==
  ~past.deleted /\ ~past.overlapped /\ ~past.late =>
    /\ Told => file.final /\ \A j \in Jobs : job[j].step # "root"
    /\ \A j \in Jobs : Linked(j) /\ job[j].step \in {"ack", "acked"} /\ job[j].chunk = LastChunk
                         => file.final
    /\ \A j, k \in Jobs : j # k /\ job[j].step = "root" => ~Linked(k) /\ job[k].step # "root"

IInv == Typed /\ Acks /\ OneLinked /\ Orphans /\ Stopping /\ Controls /\ NotOffered /\ ToldIsOver /\ Finals

-----------------------------------------------------------------------------
(* Queues. *)

LEMMA Appended ==
  ASSUME NEW S, NEW s \in Seq(S), NEW e \in S, NEW t, t = Append(s, e)
  PROVE  /\ t \in Seq(S) /\ Len(s) \in Nat /\ Len(t) = Len(s) + 1 /\ t[Len(s) + 1] = e
         /\ \A i \in 1..Len(s) : t[i] = s[i]
BY AppendProperties, LenProperties

LEMMA Taken ==
  ASSUME NEW S, NEW s \in Seq(S), s # <<>>, NEW t, t = Tail(s)
  PROVE  /\ t \in Seq(S) /\ Head(s) \in S /\ Head(s) = s[1] /\ Len(s) \in Nat \ {0}
         /\ Len(t) = Len(s) - 1 /\ \A i \in 1..Len(t) : t[i] = s[i + 1]
BY HeadTailProperties, LenProperties, EmptySeq

\* The two ways in which events are added at the end of an acknowledgement.
LEMMA Joined ==
  ASSUME NEW S, NEW s \in Seq(S), NEW a \in S
  PROVE  /\ s \o <<a>> \o <<>> = Append(s, a)
         /\ \A b \in S : s \o <<a>> \o <<b>> = Append(Append(s, a), b)
<1>1. s \o <<a>> = Append(s, a) /\ Append(s, a) \in Seq(S)
  BY AppendIsConcat, AppendProperties
<1>2. Append(s, a) \o <<>> = Append(s, a)
  BY <1>1, ConcatEmptySeq
<1>3. \A b \in S : Append(s, a) \o <<b>> = Append(Append(s, a), b)
  BY <1>1, AppendIsConcat
<1>. QED BY <1>1, <1>2, <1>3

LEMMA WritesAppend ==
  ASSUME QueueTyped, NEW e \in Changes, writes' = Append(writes, e), UNCHANGED starts
  PROVE  /\ QueueTyped'
         /\ HasOffer' <=> HasOffer \/ e.op = "offer"
         /\ CompletedComes' <=> CompletedComes \/ (e.op = "event" /\ e.status = "completed")
<1>1. /\ writes' \in Seq(Changes) /\ Len(writes) \in Nat /\ Len(writes') = Len(writes) + 1
      /\ writes'[Len(writes) + 1] = e /\ \A i \in 1..Len(writes) : writes'[i] = writes[i]
  BY Appended DEF QueueTyped
<1>. QED BY <1>1 DEF QueueTyped, HasOffer, CompletedComes

LEMMA WritesTail ==
  ASSUME QueueTyped, writes # <<>>, writes' = Tail(writes)
  PROVE  /\ writes' \in Seq(Changes) /\ Head(writes) \in Changes
         /\ HasOffer' => HasOffer
         /\ CompletedComes' => CompletedComes
         /\ Head(writes).op = "offer" => HasOffer
         /\ Head(writes).op = "event" /\ Head(writes).status = "completed" => CompletedComes
<1>1. /\ writes' \in Seq(Changes) /\ Head(writes) \in Changes /\ Head(writes) = writes[1]
      /\ Len(writes) \in Nat \ {0} /\ Len(writes') = Len(writes) - 1
      /\ \A i \in 1..Len(writes') : writes'[i] = writes[i + 1]
  BY Taken DEF QueueTyped
<1>2. \A i \in 1..Len(writes') : i + 1 \in 1..Len(writes)
  BY <1>1
<1>3. 1 \in 1..Len(writes)
  BY <1>1
<1>. QED BY <1>1, <1>2, <1>3 DEF HasOffer, CompletedComes

LEMMA NothingWaits == writes = <<>> => ~HasOffer /\ ~CompletedComes
BY DEF HasOffer, CompletedComes

-----------------------------------------------------------------------------
(* Helpers. *)

\* A conjunct of the invariant holds as long as its variables do not change.
LEMMA Frames ==
  /\ AgentTyped /\ UNCHANGED agent => AgentTyped'
  /\ NativeTyped /\ UNCHANGED native => NativeTyped'
  /\ JobTyped /\ UNCHANGED job => JobTyped'
  /\ FileTyped /\ UNCHANGED file => FileTyped'
  /\ QueueTyped /\ UNCHANGED <<writes, starts>> => QueueTyped'
  /\ RowTyped /\ UNCHANGED row => RowTyped'
  /\ ControlTyped /\ UNCHANGED control => ControlTyped'
  /\ PastTyped /\ UNCHANGED <<past, used>> => PastTyped'
BY DEF AgentTyped, NativeTyped, JobTyped, FileTyped, QueueTyped, RowTyped, ControlTyped, PastTyped

LEMMA JobFrames ==
  /\ Acks /\ UNCHANGED <<agent, job>> => Acks'
  /\ OneLinked /\ UNCHANGED job => OneLinked'
  /\ Orphans /\ UNCHANGED <<native, job, agent>> => Orphans'
  /\ Stopping /\ UNCHANGED <<native, control, job>> => Stopping'
<1>1. Acks /\ UNCHANGED <<agent, job>> => Acks'
  BY DEF Acks, Reached
<1>2. OneLinked /\ UNCHANGED job => OneLinked'
  BY DEF OneLinked, Linked
<1>3. Orphans /\ UNCHANGED <<native, job, agent>> => Orphans'
  BY DEF Orphans
<1>4. Stopping /\ UNCHANGED <<native, control, job>> => Stopping'
  BY DEF Stopping, NoneLinked, Linked
<1>. QED BY <1>1, <1>2, <1>3, <1>4

LEMMA RestFrames ==
  /\ Controls /\ UNCHANGED <<control, native, agent>> => Controls'
  /\ NotOffered /\ UNCHANGED <<agent, native, starts, writes>> => NotOffered'
  /\ ToldIsOver /\ UNCHANGED <<row, native, writes, agent, job, control>> => ToldIsOver'
  /\ Finals /\ UNCHANGED <<past, row, native, writes, file, job>> => Finals'
<1>1. Controls /\ UNCHANGED <<control, native, agent>> => Controls'
  BY DEF Controls
<1>2. NotOffered /\ UNCHANGED <<agent, native, starts, writes>> => NotOffered'
  BY DEF NotOffered, HasOffer
<1>3. ToldIsOver /\ UNCHANGED <<row, native, writes, agent, job, control>> => ToldIsOver'
  BY DEF ToldIsOver, Told, CompletedComes, NoneLinked, Linked
<1>4. Finals /\ UNCHANGED <<past, row, native, writes, file, job>> => Finals'
  BY DEF Finals, Told, CompletedComes, NoneLinked, Linked
<1>. QED BY <1>1, <1>2, <1>3, <1>4

LEMMA Numbers == LastChunk \in Nat \ {0} /\ 1 \in All /\ LastChunk \in All
BY IncomingAssumption DEF IncomingAssumption, All

\* A coroutine ends: no other changes.
Ended(j) == job'[j] = Idle /\ \A k \in Jobs : k # j => job'[k] = job[k]

LEMMA EndsIs == ASSUME JobTyped, NEW j \in Jobs, Ends(j) PROVE JobTyped' /\ Ended(j)
<1>1. Idle \in [step : Steps, chunk : All, link : {"job", "cancelled", "orphan"}, revision : Nat]
  BY Numbers DEF Idle, Steps
<1>. QED BY <1>1 DEF JobTyped, Ends, Ended

\* When it ends, nothing is asked of it any more.
LEMMA EndedKeeps ==
  ASSUME JobTyped, NEW j \in Jobs, Ended(j), UNCHANGED agent
  PROVE  /\ Acks => Acks'
         /\ OneLinked => OneLinked'
         /\ NoneLinked => NoneLinked'
         /\ OneLinked /\ Linked(j) => NoneLinked'
         /\ \A k \in Jobs : job'[k].step # "idle" => k # j /\ job'[k] = job[k]
<1>1. Idle.step = "idle" /\ Idle.chunk = 1
  BY DEF Idle
<1>2. Acks => Acks'
  <2>1. Reached(j)' = {}
    BY <1>1 DEF Ended, Reached
  <2>2. \A k \in Jobs : k # j => Reached(k)' = Reached(k)
    BY DEF Ended, Reached
  <2>. QED BY <1>1, <2>1, <2>2 DEF Acks, Ended
<1>3. \A k \in Jobs : Linked(k)' => Linked(k) /\ k # j
  BY <1>1 DEF Ended, Linked
<1>. QED BY <1>1, <1>2, <1>3 DEF OneLinked, NoneLinked, Ended

-----------------------------------------------------------------------------
(* Coroutines that fail or end. *)

\* The failed event has the revision of the record the coroutine works for.
FailedAt(j) == IF job[j].link = "orphan" THEN job[j].revision ELSE native.revision

LEMMA FailsIs ==
  ASSUME Typed, NEW j \in Jobs, Fails(j)
  PROVE  /\ file' = NoFiles /\ NativeTyped' /\ native'.revision = native.revision
         /\ native'.status = IF job[j].link = "orphan" THEN native.status ELSE "failed"
         /\ [op |-> "event", status |-> "failed", revision |-> FailedAt(j)] \in Changes
         /\ writes' = Append(writes, [op |-> "event", status |-> "failed", revision |-> FailedAt(j)])
         /\ JobTyped' /\ Ended(j) /\ UNCHANGED <<starts, row, control>>
<1>1. native' = IF job[j].link = "orphan" THEN native ELSE [native EXCEPT !.status = "failed"]
  BY DEF Fails
<1>2. /\ NativeTyped' /\ native'.revision = native.revision
      /\ native'.status = IF job[j].link = "orphan" THEN native.status ELSE "failed"
  BY <1>1 DEF Typed, NativeTyped, NativeStatuses
<1>3. writes' = Append(writes, [op |-> "event", status |-> "failed", revision |-> FailedAt(j)])
  BY DEF Fails, Emit, Event, FailedAt
<1>4. FailedAt(j) \in Nat
  BY DEF Typed, NativeTyped, JobTyped, FailedAt
<1>5. [op |-> "event", status |-> "failed", revision |-> FailedAt(j)] \in Changes
  BY <1>4 DEF Changes, Statuses
<1>6. JobTyped' /\ Ended(j)
  BY EndsIs DEF Fails, Typed
<1>. QED BY <1>2, <1>3, <1>5, <1>6 DEF Fails

LEMMA FailsInv ==
  ASSUME IInv, NEW j \in Jobs, job[j].step # "idle", Fails(j), UNCHANGED agent, PastTyped',
         past'.deleted = past.deleted, past'.overlapped = past.overlapped, past.late => past'.late,
         Linked(j) \/ job[j].step = "root" \/ past'.late
  PROVE  IInv'
<1>. DEFINE e == [op |-> "event", status |-> "failed", revision |-> FailedAt(j)]
<1>1. /\ file' = NoFiles /\ NativeTyped' /\ JobTyped' /\ Ended(j) /\ UNCHANGED <<starts, row, control>>
      /\ native'.status = IF job[j].link = "orphan" THEN native.status ELSE "failed"
      /\ e \in Changes /\ writes' = Append(writes, e) /\ e.op = "event" /\ e.status = "failed"
  BY FailsIs DEF IInv
<1>. HIDE DEF e
<1>2. QueueTyped' /\ (HasOffer' <=> HasOffer) /\ (CompletedComes' <=> CompletedComes)
  BY <1>1, WritesAppend DEF IInv, Typed
<1>3. FileTyped'
  BY <1>1 DEF FileTyped, NoFiles
<1>4. Typed'
  BY <1>1, <1>2, <1>3, Frames DEF IInv, Typed
<1>5. /\ Acks' /\ OneLinked' /\ (NoneLinked => NoneLinked')
      /\ \A k \in Jobs : job'[k].step # "idle" => k # j /\ job'[k] = job[k]
  BY <1>1, EndedKeeps DEF IInv, Typed
<1>6. native.status = "none" => job[j].link = "orphan" /\ agent.status = "cancelled"
  BY DEF IInv, Orphans, Linked
<1>7. Orphans'
  BY <1>1, <1>5, <1>6 DEF IInv, Orphans
<1>8. Stopping' /\ Controls' /\ NotOffered'
  BY <1>1, <1>2, <1>5, <1>6 DEF IInv, Stopping, Controls, NotOffered
<1>9. Told' => Told
  BY <1>1, <1>2 DEF Told
<1>10. ToldIsOver'
  BY <1>1, <1>5, <1>9 DEF IInv, ToldIsOver
<1>11. Finals'
  <2>1. SUFFICES ASSUME ~past.deleted, ~past.overlapped, ~past.late, ~past'.late
                 PROVE  /\ Told => FALSE
                        /\ \A k \in Jobs : k # j => ~Linked(k)
    BY <1>5, <1>9 DEF IInv, Finals, Linked
  <2>2. Told => FALSE
    BY <2>1 DEF IInv, Finals, ToldIsOver, NoneLinked
  <2>3. \A k \in Jobs : k # j => ~Linked(k)
    BY <2>1 DEF IInv, Finals, OneLinked
  <2>. QED BY <2>2, <2>3
<1>. QED BY <1>4, <1>5, <1>7, <1>8, <1>10, <1>11 DEF IInv

\* A cancelled coroutine ends where it waited, or after a step that leaves the
\* published file where it is.
LEMMA EndsInv ==
  ASSUME IInv, NEW j \in Jobs, Ends(j), PastTyped', FileTyped', file.final => file'.final,
         past'.deleted = past.deleted, past'.overlapped = past.overlapped, past'.late = past.late,
         NativeTyped', native'.status = native.status,
         UNCHANGED <<agent, writes, starts, row, control>>
  PROVE  IInv'
<1>1. JobTyped' /\ Ended(j)
  BY EndsIs DEF IInv, Typed
<1>2. Typed'
  BY <1>1, Frames DEF IInv, Typed
<1>3. /\ Acks' /\ OneLinked' /\ (NoneLinked => NoneLinked')
      /\ \A k \in Jobs : job'[k].step # "idle" => k # j /\ job'[k] = job[k]
  BY <1>1, EndedKeeps DEF IInv, Typed
<1>4. Orphans' /\ Stopping'
  BY <1>3 DEF IInv, Orphans, Stopping
<1>5. Told' => Told
  BY DEF Told, CompletedComes
<1>6. ToldIsOver' /\ Finals'
  BY <1>3, <1>5 DEF IInv, ToldIsOver, Finals, Linked
<1>7. Controls' /\ NotOffered'
  BY DEF IInv, Controls, NotOffered, HasOffer
<1>. QED BY <1>2, <1>3, <1>4, <1>6, <1>7 DEF IInv

LEMMA TroubleIs == ASSUME PastTyped, Trouble PROVE used' \in [offers : Nat, controls : Nat, troubles : Nat]
                                                  /\ used'.troubles > 0
BY DEF PastTyped, Trouble

\* A request that fails: one of a cancelled coroutine is remembered.
LEMMA LateIs ==
  ASSUME PastTyped, NEW j \in Jobs, RequestFails(j)
  PROVE  /\ past' \in [proved : BOOLEAN, deleted : BOOLEAN, overlapped : BOOLEAN, late : BOOLEAN]
         /\ past'.deleted = past.deleted /\ past'.overlapped = past.overlapped
         /\ past'.late <=> past.late \/ job[j].link # "job"
<1>. DEFINE cancelled == job[j].link # "job"
<1>1. past' = [past EXCEPT !.late = @ \/ cancelled]
  BY DEF RequestFails
<1>. HIDE DEF cancelled
<1>2. /\ past' \in [proved : BOOLEAN, deleted : BOOLEAN, overlapped : BOOLEAN, late : BOOLEAN]
      /\ past'.deleted = past.deleted /\ past'.overlapped = past.overlapped
      /\ past'.late <=> past.late \/ cancelled
  BY <1>1 DEF PastTyped
<1>. QED BY <1>2 DEF cancelled

LEMMA RequestFailsInv ==
  ASSUME IInv, NEW j \in Jobs, job[j].step # "idle", RequestFails(j), UNCHANGED agent,
         UNCHANGED used \/ Trouble
  PROVE  IInv'
<1>1. /\ past' \in [proved : BOOLEAN, deleted : BOOLEAN, overlapped : BOOLEAN, late : BOOLEAN]
      /\ past'.deleted = past.deleted /\ past'.overlapped = past.overlapped
      /\ past'.late <=> past.late \/ job[j].link # "job"
  BY LateIs DEF IInv, Typed
<1>2. PastTyped'
  BY <1>1, TroubleIs DEF IInv, Typed, PastTyped
<1>3. Fails(j)
  BY DEF RequestFails
<1>. QED BY <1>1, <1>2, <1>3, FailsInv DEF Linked

LEMMA FetchFailsInv == ASSUME IInv, NEW j \in Jobs, FetchFails(j) PROVE IInv'
<1>1. CASE RequestFails(j)
  BY <1>1, RequestFailsInv DEF FetchFails
<1>2. CASE NotRepeated(j)
  <2>1. PastTyped'
    BY <1>2, TroubleIs DEF FetchFails, NotRepeated, IInv, Typed, PastTyped
  <2>. QED BY <1>2, <2>1, EndsInv, Frames DEF FetchFails, NotRepeated, IInv, Typed
<1>. QED BY <1>1, <1>2 DEF FetchFails

LEMMA AckFailsInv == ASSUME IInv, NEW j \in Jobs, AckFails(j) PROVE IInv'
BY RequestFailsInv DEF AckFails

LEMMA RootDiffersInv == ASSUME IInv, NEW j \in Jobs, RootDiffers(j) PROVE IInv'
BY FailsInv, Frames DEF RootDiffers, IInv, Typed

-----------------------------------------------------------------------------
(* Offers and the row. *)

LEMMA OfferIs ==
  ASSUME Typed, Offer
  PROVE  /\ agent.status \in {"waiting_for_peer", "transferring", "paused"} /\ AgentTyped'
         /\ IF agent.status = "waiting_for_peer"
              THEN /\ agent'.status = "transferring" /\ agent'.revision = agent.revision + 1
                   /\ agent'.acknowledged = agent.acknowledged
              ELSE agent' = agent
         /\ [op |-> "offer", status |-> "transferring", revision |-> agent'.revision] \in Changes
         /\ writes' = Append(writes, [op |-> "offer", status |-> "transferring", revision |-> agent'.revision])
         /\ UNCHANGED <<native, job, file, starts, row, control, past>>
         /\ PastTyped' /\ used'.troubles = used.troubles
<1>1. agent.status \in {"waiting_for_peer", "transferring", "paused"}
  BY DEF Offer, Offerable
<1>2. agent' = IF agent.status = "waiting_for_peer"
                 THEN [agent EXCEPT !.status = "transferring", !.revision = @ + 1] ELSE agent
  BY DEF Offer
<1>3. /\ AgentTyped'
      /\ IF agent.status = "waiting_for_peer"
           THEN /\ agent'.status = "transferring" /\ agent'.revision = agent.revision + 1
                /\ agent'.acknowledged = agent.acknowledged
           ELSE agent' = agent
  <2>. DEFINE next == agent.revision + 1
  <2>1. next \in Nat
    BY DEF Typed, AgentTyped
  <2>2. agent' = IF agent.status = "waiting_for_peer"
                   THEN [agent EXCEPT !.status = "transferring", !.revision = next] ELSE agent
    BY <1>2
  <2>. HIDE DEF next
  <2>3. /\ AgentTyped'
        /\ IF agent.status = "waiting_for_peer"
             THEN /\ agent'.status = "transferring" /\ agent'.revision = next
                  /\ agent'.acknowledged = agent.acknowledged
             ELSE agent' = agent
    BY <2>1, <2>2 DEF Typed, AgentTyped, AgentStatuses
  <2>. QED BY <2>3 DEF next
<1>4. [op |-> "offer", status |-> "transferring", revision |-> agent'.revision] \in Changes
  BY <1>3 DEF AgentTyped, Changes, Statuses
<1>5. used' = [used EXCEPT !.offers = @ + 1] /\ past' = past
  BY DEF Offer
<1>6. PastTyped' /\ used'.troubles = used.troubles
  BY <1>5 DEF Typed, PastTyped
<1>. QED BY <1>1, <1>3, <1>4, <1>6 DEF Offer

LEMMA OfferInv == ASSUME IInv, Offer PROVE IInv'
<1>. DEFINE e == [op |-> "offer", status |-> "transferring", revision |-> agent'.revision]
<1>1. /\ agent.status \in {"waiting_for_peer", "transferring", "paused"} /\ AgentTyped'
      /\ IF agent.status = "waiting_for_peer"
           THEN /\ agent'.status = "transferring" /\ agent'.acknowledged = agent.acknowledged
           ELSE agent' = agent
      /\ e \in Changes /\ e.op = "offer" /\ writes' = Append(writes, e)
      /\ UNCHANGED <<native, job, file, starts, row, control, past>> /\ PastTyped'
  BY OfferIs DEF IInv
<1>. HIDE DEF e
<1>2. QueueTyped' /\ (CompletedComes' <=> CompletedComes)
  BY <1>1, WritesAppend DEF IInv, Typed
<1>3. Typed'
  BY <1>1, <1>2, Frames DEF IInv, Typed
<1>4. agent'.status \in {"transferring", "paused"} /\ (agent'.status = "paused" => agent' = agent)
  BY <1>1
<1>5. Acks'
  BY <1>1 DEF IInv, Acks, Reached
<1>6. Orphans' /\ Controls' /\ NotOffered'
  BY <1>1, <1>4 DEF IInv, Orphans, Controls, NotOffered
<1>7. Told' <=> Told
  BY <1>1, <1>2 DEF Told
<1>8. ~Told'
  BY <1>1, <1>7 DEF IInv, ToldIsOver
<1>9. ToldIsOver' /\ Finals'
  BY <1>1, <1>7, <1>8 DEF IInv, ToldIsOver, Finals, Linked
<1>. QED BY <1>1, <1>3, <1>5, <1>6, <1>9, JobFrames DEF IInv

LEMMA SaveOfferIs ==
  ASSUME Typed, SaveOffer
  PROVE  /\ Head(writes).op = "offer" /\ writes # <<>> /\ writes' = Tail(writes) /\ RowTyped'
         /\ starts' = starts \/ starts' = Append(starts, Head(writes).revision)
         /\ row.status \notin {"none", "completed", "cancelled"} =>
              row'.status = row.status /\ row'.revision = Larger(row.revision, Head(writes).revision)
         /\ row.status \in {"completed", "cancelled"} => row' = row
         /\ row.status = "none" => row' = [status |-> "transferring", revision |-> Head(writes).revision]
         /\ row.status \notin {"completed", "cancelled"} => starts' = Append(starts, Head(writes).revision)
         /\ UNCHANGED <<agent, native, job, file, control, past, used>>
<1>1. Head(writes).op = "offer" /\ writes # <<>> /\ writes' = Tail(writes)
  BY DEF SaveOffer, NextWrite
<1>2. Head(writes).revision \in Nat
  BY <1>1, WritesTail DEF Typed, Changes
<1>3. /\ row.status = "none" => row' = [status |-> "transferring", revision |-> Head(writes).revision]
      /\ row.status \in {"completed", "cancelled"} => row' = row
      /\ row.status \notin {"none", "completed", "cancelled"} =>
           row' = [row EXCEPT !.revision = Larger(@, Head(writes).revision)]
  BY DEF SaveOffer
<1>4. /\ RowTyped'
      /\ row.status \notin {"none", "completed", "cancelled"} =>
              row'.status = row.status /\ row'.revision = Larger(row.revision, Head(writes).revision)
  BY <1>2, <1>3 DEF Typed, RowTyped, Statuses, Larger
<1>. QED BY <1>1, <1>3, <1>4 DEF SaveOffer

LEMMA SaveOfferInv == ASSUME IInv, SaveOffer PROVE IInv'
<1>1. /\ Head(writes).op = "offer" /\ writes # <<>> /\ writes' = Tail(writes) /\ RowTyped'
      /\ starts' = starts \/ starts' = Append(starts, Head(writes).revision)
      /\ row'.status = "completed" => row.status = "completed"
      /\ UNCHANGED <<agent, native, job, file, control, past, used>>
  BY SaveOfferIs DEF IInv, Typed, RowTyped
<1>2. /\ writes' \in Seq(Changes) /\ Head(writes) \in Changes /\ HasOffer
      /\ CompletedComes' => CompletedComes
  BY <1>1, WritesTail DEF IInv, Typed
<1>3. starts' \in Seq(Nat)
  <2>1. Head(writes).revision \in Nat /\ starts \in Seq(Nat)
    BY <1>2 DEF IInv, Typed, QueueTyped, Changes
  <2>2. Append(starts, Head(writes).revision) \in Seq(Nat)
    BY <2>1, AppendProperties
  <2>. QED BY <1>1, <2>1, <2>2
<1>4. Typed'
  BY <1>1, <1>2, <1>3, Frames DEF IInv, Typed, QueueTyped
<1>5. NotOffered'
  BY <1>1, <1>2 DEF IInv, NotOffered
<1>6. Told' => Told
  BY <1>1, <1>2 DEF Told
<1>7. ToldIsOver' /\ Finals'
  BY <1>1, <1>6 DEF IInv, ToldIsOver, Finals, Linked, NoneLinked
<1>. QED BY <1>1, <1>4, <1>5, <1>7, JobFrames, RestFrames DEF IInv

\* ApplyEvent and DeleteRow
LEMMA WriteInv == ASSUME IInv, ApplyEvent \/ DeleteRow PROVE IInv'
<1>1. writes # <<>> /\ writes' = Tail(writes) /\ UNCHANGED <<agent, native, job, file, starts, control, past, used>>
  BY DEF ApplyEvent, DeleteRow, NextWrite
<1>2. /\ writes' \in Seq(Changes) /\ Head(writes) \in Changes
      /\ HasOffer' => HasOffer
      /\ CompletedComes' => CompletedComes
      /\ Head(writes).op = "event" /\ Head(writes).status = "completed" => CompletedComes
  BY <1>1, WritesTail DEF IInv, Typed
<1>3. RowTyped' /\ (row'.status = "completed" => row.status = "completed" \/ CompletedComes)
  <2>1. CASE ApplyEvent
    <3>1. /\ Head(writes).op = "event"
          /\ row' = row \/ row' = [status |-> Head(writes).status, revision |-> Head(writes).revision]
      BY <2>1 DEF ApplyEvent, NextWrite
    <3>. QED BY <1>2, <3>1 DEF IInv, Typed, RowTyped, Changes
  <2>2. CASE DeleteRow
    BY <2>2 DEF DeleteRow, NoRecord, RowTyped, Statuses
  <2>. QED BY <2>1, <2>2
<1>4. Typed'
  BY <1>1, <1>2, <1>3, Frames DEF IInv, Typed, QueueTyped
<1>5. NotOffered'
  BY <1>1, <1>2 DEF IInv, NotOffered
<1>6. Told' => Told
  BY <1>1, <1>2, <1>3 DEF Told
<1>7. ToldIsOver' /\ Finals'
  BY <1>1, <1>6 DEF IInv, ToldIsOver, Finals, Linked, NoneLinked
<1>. QED BY <1>1, <1>4, <1>5, <1>7, JobFrames, RestFrames DEF IInv

-----------------------------------------------------------------------------
(* Coroutines that begin. *)

LEMMA LaunchIs ==
  ASSUME JobTyped, PastTyped, NEW j \in Jobs, Launch(j)
  PROVE  /\ JobTyped' /\ job[j].step = "idle"
         /\ job'[j].step = "fetch" /\ job'[j].chunk = 1 /\ job'[j].link = "job" /\ job'[j].revision = 0
         /\ \A k \in Jobs : k # j => job'[k] = job[k]
         /\ past' \in [proved : BOOLEAN, deleted : BOOLEAN, overlapped : BOOLEAN, late : BOOLEAN]
         /\ past'.deleted = past.deleted /\ past'.late = past.late
         /\ ~past'.overlapped => ~past.overlapped /\ \A k \in Jobs : job[k].step # "root"
<1>. DEFINE r == [Idle EXCEPT !.step = "fetch"]
<1>1. /\ r \in [step : Steps, chunk : All, link : {"job", "cancelled", "orphan"}, revision : Nat]
      /\ r.step = "fetch" /\ r.chunk = 1 /\ r.link = "job" /\ r.revision = 0
  BY Numbers DEF Idle, Steps
<1>2. job[j] = Idle /\ job' = [job EXCEPT ![j] = r]
  BY DEF Launch
<1>. HIDE DEF r
<1>3. /\ JobTyped' /\ job[j].step = "idle"
      /\ job'[j] = r /\ \A k \in Jobs : k # j => job'[k] = job[k]
  BY <1>1, <1>2 DEF JobTyped, Idle
<1>4. past' = [past EXCEPT !.overlapped = @ \/ \E k \in Jobs : job[k].step = "root"]
  BY DEF Launch
<1>. DEFINE root == \E k \in Jobs : job[k].step = "root"
<1>5. past' = [past EXCEPT !.overlapped = @ \/ root]
  BY <1>4
<1>. HIDE DEF root
<1>6. /\ past' \in [proved : BOOLEAN, deleted : BOOLEAN, overlapped : BOOLEAN, late : BOOLEAN]
      /\ past'.deleted = past.deleted /\ past'.late = past.late
      /\ ~past'.overlapped => ~past.overlapped /\ ~root
  BY <1>5 DEF PastTyped
<1>7. ~root => \A k \in Jobs : job[k].step # "root"
  BY DEF root
<1>. QED BY <1>1, <1>3, <1>6, <1>7

LEMMA LaunchKeeps ==
  ASSUME NEW j \in Jobs, job'[j].step = "fetch", job'[j].chunk = 1, job'[j].link = "job",
         \A k \in Jobs : k # j => job'[k] = job[k],
         UNCHANGED agent, Acks, NoneLinked
  PROVE  Acks' /\ OneLinked'
<1>1. Reached(j)' = {}
  BY DEF Reached
<1>2. \A k \in Jobs : k # j => Reached(k)' = Reached(k)
  BY DEF Reached
<1>3. Acks'
  BY <1>1, <1>2 DEF Acks
<1>4. OneLinked'
  BY DEF OneLinked, NoneLinked, Linked
<1>. QED BY <1>3, <1>4

LEMMA StartIs ==
  ASSUME Typed, NEW j \in Jobs, Start(j), native.status = "none"
  PROVE  /\ starts # <<>> /\ Head(starts) \in Nat /\ starts' = Tail(starts) /\ starts' \in Seq(Nat)
         /\ native' = [status |-> "transferring", revision |-> Head(starts)] /\ NativeTyped'
         /\ Launch(j) /\ file' = [file EXCEPT !.dir = TRUE]
         /\ [op |-> "event", status |-> "transferring", revision |-> Head(starts)] \in Changes
         /\ writes' = Append(writes, [op |-> "event", status |-> "transferring", revision |-> Head(starts)])
         /\ UNCHANGED <<agent, row, control, used>>
<1>1. starts # <<>> /\ starts' = Tail(starts)
  BY DEF Start
<1>2. starts' \in Seq(Nat) /\ Head(starts) \in Nat
  BY <1>1, HeadTailProperties DEF Typed, QueueTyped
<1>3. native' = [status |-> "transferring", revision |-> Head(starts)] /\ Emit(native')
  BY DEF Start
<1>4. /\ NativeTyped'
      /\ [op |-> "event", status |-> "transferring", revision |-> Head(starts)] \in Changes
  BY <1>2, <1>3 DEF NativeTyped, NativeStatuses, Changes, Statuses
<1>5. writes' = Append(writes, [op |-> "event", status |-> "transferring", revision |-> Head(starts)])
  BY <1>3 DEF Emit, Event
<1>. QED BY <1>1, <1>2, <1>3, <1>4, <1>5 DEF Start

LEMMA StartInv == ASSUME IInv, NEW j \in Jobs, Start(j) PROVE IInv'
<1>1. CASE native.status # "none"
  <2>1. /\ starts # <<>> /\ starts' = Tail(starts)
        /\ UNCHANGED <<agent, native, job, file, writes, row, control, past, used>>
    BY <1>1 DEF Start
  <2>2. QueueTyped'
    BY <2>1, HeadTailProperties DEF IInv, Typed, QueueTyped
  <2>3. NotOffered'
    BY <1>1, <2>1 DEF IInv, NotOffered
  <2>. QED BY <2>1, <2>2, <2>3, Frames, JobFrames, RestFrames DEF IInv, Typed
<1>2. CASE native.status = "none"
  <2>. DEFINE e == [op |-> "event", status |-> "transferring", revision |-> Head(starts)]
  <2>1. /\ starts # <<>> /\ starts' \in Seq(Nat)
        /\ native'.status = "transferring" /\ NativeTyped'
        /\ Launch(j) /\ file' = [file EXCEPT !.dir = TRUE]
        /\ e \in Changes /\ e.op = "event" /\ e.status = "transferring" /\ writes' = Append(writes, e)
        /\ UNCHANGED <<agent, row, control, used>>
    BY <1>2, StartIs DEF IInv
  <2>. HIDE DEF e
  <2>2. /\ JobTyped' /\ job[j].step = "idle"
        /\ job'[j].step = "fetch" /\ job'[j].chunk = 1 /\ job'[j].link = "job"
        /\ \A k \in Jobs : k # j => job'[k] = job[k]
        /\ PastTyped' /\ past'.deleted = past.deleted /\ past'.late = past.late
        /\ ~past'.overlapped => ~past.overlapped /\ \A k \in Jobs : job[k].step # "root"
    BY <2>1, LaunchIs DEF IInv, Typed, PastTyped
  <2>3. FileTyped' /\ file'.final = file.final
    BY <2>1 DEF IInv, Typed, FileTyped
  <2>4. writes' \in Seq(Changes) /\ (CompletedComes' <=> CompletedComes)
    <3>1. Len(writes) \in Nat /\ writes' \in Seq(Changes) /\ Len(writes') = Len(writes) + 1
          /\ writes'[Len(writes) + 1] = e /\ \A i \in 1..Len(writes) : writes'[i] = writes[i]
      BY <2>1, Appended DEF IInv, Typed, QueueTyped
    <3>. QED BY <2>1, <3>1 DEF CompletedComes
  <2>5. Typed'
    BY <2>1, <2>2, <2>3, <2>4, Frames DEF IInv, Typed, QueueTyped
  <2>6. NoneLinked /\ agent.status \notin {"waiting_for_peer", "completed"}
    BY <1>2, <2>1 DEF IInv, Orphans, NoneLinked, Linked, NotOffered
  <2>7. Acks' /\ OneLinked'
    BY <2>1, <2>2, <2>6, LaunchKeeps DEF IInv
  <2>8. Orphans'
    BY <2>1, <2>2 DEF IInv, Orphans
  <2>9. control.op \notin {"pause", "resume"}
    BY <1>2 DEF IInv, Typed, ControlTyped, Controls, NoControl
  <2>10. Stopping' /\ Controls' /\ NotOffered'
    BY <1>2, <2>1, <2>6, <2>9 DEF IInv, Stopping, Controls, NotOffered
  <2>11. ~Told'
    BY <1>2, <2>1, <2>4, <2>6 DEF IInv, Told, ToldIsOver
  <2>12. ToldIsOver' /\ Finals'
    BY <2>2, <2>6, <2>11 DEF ToldIsOver, Finals, Linked, NoneLinked
  <2>. QED BY <2>5, <2>7, <2>8, <2>10, <2>12 DEF IInv
<1>. QED BY <1>1, <1>2

-----------------------------------------------------------------------------
(* The steps of a coroutine. *)

LEMMA StepIs ==
  ASSUME JobTyped, NEW j \in Jobs, NEW s \in Steps, s # "idle", job[j].step # "idle",
         job' = [job EXCEPT ![j].step = s]
  PROVE  /\ JobTyped' /\ job'[j].step = s /\ job'[j].chunk = job[j].chunk
         /\ job'[j].link = job[j].link /\ job'[j].revision = job[j].revision
         /\ \A k \in Jobs : k # j => job'[k] = job[k]
<1>. DEFINE r == [job[j] EXCEPT !.step = s]
<1>1. /\ r \in [step : Steps, chunk : All, link : {"job", "cancelled", "orphan"}, revision : Nat]
      /\ r.step = s /\ r.chunk = job[j].chunk /\ r.link = job[j].link /\ r.revision = job[j].revision
  BY DEF JobTyped
<1>2. job' = [job EXCEPT ![j] = r]
  OBVIOUS
<1>. HIDE DEF r
<1>. QED BY <1>1, <1>2 DEF JobTyped

\* The record's coroutine goes on, to the content root or to an acknowledgement.
LEMMA GoesOnInv ==
  ASSUME IInv, NEW j \in Jobs, NEW s \in {"root", "ack"}, job[j].step \in {"fetch", "root"},
         job[j].link = "job", job' = [job EXCEPT ![j].step = s],
         s = "root" => job[j].chunk = LastChunk,
         s = "ack" /\ job[j].chunk = LastChunk => file'.final,
         FileTyped', file.final => file'.final,
         PastTyped', past'.deleted = past.deleted, past'.overlapped = past.overlapped, past'.late = past.late,
         UNCHANGED <<agent, native, writes, starts, row, control>>
  PROVE  IInv'
<1>1. /\ JobTyped' /\ job'[j].step = s /\ job'[j].chunk = job[j].chunk
      /\ job'[j].link = "job" /\ \A k \in Jobs : k # j => job'[k] = job[k]
  BY StepIs DEF IInv, Typed, Steps
<1>2. Typed'
  BY <1>1, Frames DEF IInv, Typed
<1>3. Linked(j) /\ \A k \in Jobs : Linked(k)' <=> Linked(k)
  BY <1>1 DEF Linked
<1>4. Acks'
  <2>1. \A k \in Jobs : Reached(k)' = Reached(k)
    BY <1>1 DEF Reached
  <2>. QED BY <1>1, <2>1 DEF IInv, Acks
<1>5. OneLinked' /\ Orphans' /\ Stopping'
  BY <1>1, <1>3 DEF IInv, OneLinked, Orphans, Stopping, NoneLinked, Linked
<1>6. ~Told'
  BY <1>3 DEF IInv, Told, CompletedComes, ToldIsOver, NoneLinked
<1>7. ToldIsOver'
  BY <1>6 DEF ToldIsOver
<1>8. Finals'
  BY <1>1, <1>3, <1>6 DEF IInv, Finals, OneLinked
<1>. QED BY <1>2, <1>4, <1>5, <1>7, <1>8, RestFrames DEF IInv

LEMMA FetchedInv == ASSUME IInv, NEW j \in Jobs, Fetched(j) PROVE IInv'
<1>1. /\ job[j].step = "fetch" /\ file' = [file EXCEPT !.part = @ \cup {job[j].chunk}]
      /\ UNCHANGED <<agent, native, writes, starts, row, control, past, used>>
  BY DEF Fetched
<1>2. FileTyped' /\ file'.final = file.final
  <2>. DEFINE part == file.part \cup {job[j].chunk}
  <2>1. part \in SUBSET All
    BY DEF IInv, Typed, FileTyped, JobTyped
  <2>2. file' = [file EXCEPT !.part = part]
    BY <1>1
  <2>. HIDE DEF part
  <2>. QED BY <2>1, <2>2 DEF IInv, Typed, FileTyped
<1>3. PastTyped'
  BY <1>1, Frames DEF IInv, Typed
<1>4. CASE job[j].link = "job"
  <2>. DEFINE s == IF job[j].chunk = LastChunk THEN "root" ELSE "ack"
  <2>1. job' = [job EXCEPT ![j].step = s]
    BY <1>4 DEF Fetched
  <2>2. /\ s \in {"root", "ack"}
        /\ s = "root" => job[j].chunk = LastChunk
        /\ s = "ack" => job[j].chunk # LastChunk
    OBVIOUS
  <2>. HIDE DEF s
  <2>. QED BY <1>1, <1>2, <1>3, <1>4, <2>1, <2>2, GoesOnInv
<1>5. CASE job[j].link # "job"
  BY <1>1, <1>2, <1>3, <1>5, EndsInv, Frames DEF Fetched, IInv, Typed
<1>. QED BY <1>4, <1>5

LEMMA PublishedInv == ASSUME IInv, NEW j \in Jobs, Published(j) PROVE IInv'
<1>1. /\ job[j].step = "root" /\ file' = [file EXCEPT !.part = {}, !.final = TRUE]
      /\ past' = [past EXCEPT !.proved = TRUE]
      /\ UNCHANGED <<agent, native, writes, starts, row, control, used>>
  BY DEF Published
<1>2. FileTyped' /\ file'.final = TRUE
  BY <1>1 DEF IInv, Typed, FileTyped
<1>3. PastTyped' /\ past'.deleted = past.deleted /\ past'.overlapped = past.overlapped
      /\ past'.late = past.late
  BY <1>1 DEF IInv, Typed, PastTyped
<1>4. CASE job[j].link = "job"
  BY <1>1, <1>2, <1>3, <1>4, GoesOnInv DEF Published
<1>5. CASE job[j].link # "job"
  BY <1>1, <1>2, <1>3, <1>5, EndsInv, Frames DEF Published, IInv, Typed
<1>. QED BY <1>4, <1>5

LEMMA AckIs ==
  ASSUME Typed, NEW j \in Jobs, AgentAcknowledges(j)
  PROVE  /\ job[j].step = "ack" /\ agent.status \in {"waiting_for_peer", "transferring"} /\ AgentTyped'
         /\ agent'.acknowledged = agent.acknowledged \cup {job[j].chunk}
         /\ IF job[j].chunk \in agent.acknowledged THEN agent' = agent
            ELSE /\ agent'.revision = agent.revision + 1
                 /\ agent'.status = IF agent'.acknowledged = All THEN "completed" ELSE agent.status
         /\ JobTyped' /\ job'[j].step = "acked" /\ job'[j].chunk = job[j].chunk
         /\ job'[j].link = job[j].link /\ job'[j].revision = agent'.revision
         /\ \A k \in Jobs : k # j => job'[k] = job[k]
         /\ UNCHANGED <<native, file, writes, starts, row, control, past, used>>
<1>. DEFINE acknowledged == agent.acknowledged \cup {job[j].chunk}
            next == agent.revision + 1
            status == IF acknowledged = All THEN "completed" ELSE agent.status
<1>1. job[j].step = "ack" /\ agent.status \in {"waiting_for_peer", "transferring"}
  BY DEF AgentAcknowledges, Receivable
<1>2. acknowledged \in SUBSET All /\ next \in Nat /\ status \in AgentStatuses
  BY DEF Typed, JobTyped, AgentTyped, AgentStatuses
<1>3. agent' = IF job[j].chunk \notin agent.acknowledged
                 THEN [status |-> status, revision |-> next, acknowledged |-> acknowledged] ELSE agent
  BY DEF AgentAcknowledges
<1>4. job[j].chunk \in agent.acknowledged => acknowledged = agent.acknowledged
  OBVIOUS
<1>5. agent'.acknowledged = acknowledged
  <2>. HIDE DEF acknowledged, next, status
  <2>. QED BY <1>3, <1>4
<1>6. /\ AgentTyped'
      /\ IF job[j].chunk \in agent.acknowledged THEN agent' = agent
         ELSE agent'.revision = next /\ agent'.status = status
  <2>. HIDE DEF acknowledged, next, status
  <2>. QED BY <1>2, <1>3 DEF Typed, AgentTyped
<1>. DEFINE r == [job[j] EXCEPT !.step = "acked", !.revision = agent'.revision]
<1>7. /\ r \in [step : Steps, chunk : All, link : {"job", "cancelled", "orphan"}, revision : Nat]
      /\ r.step = "acked" /\ r.chunk = job[j].chunk /\ r.link = job[j].link /\ r.revision = agent'.revision
  BY <1>6 DEF Typed, JobTyped, AgentTyped, Steps
<1>8. job' = [job EXCEPT ![j] = r]
  BY DEF AgentAcknowledges
<1>9. /\ JobTyped' /\ job'[j] = r /\ \A k \in Jobs : k # j => job'[k] = job[k]
  <2>. HIDE DEF r
  <2>. QED BY <1>7, <1>8 DEF Typed, JobTyped
<1>. QED BY <1>1, <1>5, <1>6, <1>7, <1>9 DEF AgentAcknowledges

LEMMA AgentAcknowledgesInv == ASSUME IInv, NEW j \in Jobs, AgentAcknowledges(j) PROVE IInv'
<1>1. /\ job[j].step = "ack" /\ agent.status \in {"waiting_for_peer", "transferring"} /\ AgentTyped'
      /\ agent'.acknowledged = agent.acknowledged \cup {job[j].chunk}
      /\ IF job[j].chunk \in agent.acknowledged THEN agent' = agent
         ELSE /\ agent'.revision = agent.revision + 1
              /\ agent'.status = IF agent'.acknowledged = All THEN "completed" ELSE agent.status
      /\ JobTyped' /\ job'[j].step = "acked" /\ job'[j].chunk = job[j].chunk
      /\ job'[j].link = job[j].link /\ job'[j].revision = agent'.revision
      /\ \A k \in Jobs : k # j => job'[k] = job[k]
      /\ UNCHANGED <<native, file, writes, starts, row, control, past, used>>
  BY AckIs DEF IInv
<1>2. Typed'
  BY <1>1, Frames DEF IInv, Typed
<1>3. agent'.status \in {agent.status, "completed"}
  BY <1>1
<1>4. agent'.acknowledged = All => agent'.status = "completed"
  BY <1>1 DEF IInv, Acks
<1>5. job[j].chunk \in All /\ job[j].chunk \in Nat /\ Reached(j) \subseteq agent.acknowledged
      /\ Reached(j) = 1..(job[j].chunk - 1)
  BY <1>1, Numbers DEF IInv, Typed, JobTyped, Acks, Reached, All
<1>6. Reached(j)' = 1..job[j].chunk
  BY <1>1 DEF Reached
<1>7. 1..job[j].chunk = 1..(job[j].chunk - 1) \cup {job[j].chunk}
  BY <1>5, Numbers DEF All
<1>8. Reached(j)' \subseteq agent'.acknowledged
  BY <1>1, <1>5, <1>6, <1>7
<1>9. job[j].chunk = LastChunk => agent'.status = "completed"
  <2>1. agent'.acknowledged \subseteq All
    BY <1>1 DEF AgentTyped
  <2>. QED BY <1>4, <1>6, <1>8, <2>1 DEF All
<1>10. \A k \in Jobs : job'[k].step = "acked" /\ job'[k].chunk = LastChunk => k = j
  BY <1>1 DEF IInv, Acks
<1>11. Acks'
  <2>1. \A k \in Jobs : k # j => Reached(k)' = Reached(k)
    BY <1>1 DEF Reached
  <2>2. \A k \in Jobs : Reached(k)' \subseteq agent'.acknowledged
    BY <1>1, <1>8, <2>1 DEF IInv, Acks
  <2>. QED BY <1>1, <1>4, <1>9, <1>10, <2>2 DEF IInv, Acks
<1>12. \A k \in Jobs : /\ Linked(k)' <=> Linked(k)
                       /\ job'[k].link = job[k].link
                       /\ job'[k].step = "idle" <=> job[k].step = "idle"
                       /\ job'[k].step = "root" <=> job[k].step = "root"
  BY <1>1 DEF Linked
<1>13. OneLinked' /\ Orphans' /\ Stopping'
  BY <1>1, <1>12 DEF IInv, OneLinked, Orphans, Stopping, NoneLinked
<1>14. native.status # "none"
  BY <1>1 DEF IInv, Orphans
<1>15. Controls' /\ NotOffered'
  BY <1>1, <1>3, <1>14 DEF IInv, Controls, NotOffered
<1>16. ~Told'
  BY <1>1 DEF IInv, ToldIsOver, Told, CompletedComes
<1>17. ToldIsOver' /\ Finals'
  BY <1>1, <1>12, <1>16 DEF IInv, ToldIsOver, Finals
<1>. QED BY <1>2, <1>11, <1>13, <1>15, <1>17 DEF IInv

\* The larger of the revisions that the record and the answer have.
LEMMA LargerIs == \A a, b \in Nat : Larger(a, b) \in {a, b} /\ Larger(a, b) >= a /\ Larger(a, b) >= b
BY DEF Larger

\* What the record says of itself in an event.
Says(status, revision) == [op |-> "event", status |-> status, revision |-> revision]

\* The revision that acknowledgeChunk leaves in the record.
AckedAt(j) == Larger(native.revision, job[j].revision)

LEMMA SaysIs ==
  ASSUME NEW status \in Statuses, NEW revision \in Nat
  PROVE  /\ Says(status, revision) \in Changes /\ Says(status, revision).op = "event"
         /\ Says(status, revision).status = status /\ Says(status, revision).revision = revision
BY DEF Says, Changes

LEMMA AcknowledgedIs ==
  ASSUME Typed, NEW j \in Jobs, Acknowledged(j)
  PROVE  /\ job[j].step = "acked" /\ UNCHANGED <<agent, file, starts, row, control, past, used>>
         /\ AckedAt(j) \in Nat /\ NativeTyped' /\ Says(native.status, AckedAt(j)) \in Changes
         /\ job[j].link = "job" /\ job[j].chunk = LastChunk =>
              /\ native' = [status |-> "completed", revision |-> AckedAt(j)]
              /\ writes' = Append(Append(writes, Says(native.status, AckedAt(j))), Says("completed", AckedAt(j)))
              /\ Ends(j)
         /\ job[j].link = "job" /\ job[j].chunk # LastChunk =>
              /\ native' = [status |-> native.status, revision |-> AckedAt(j)]
              /\ writes' = Append(writes, Says(native.status, AckedAt(j)))
              /\ JobTyped' /\ job'[j].step = "fetch" /\ job'[j].chunk = job[j].chunk + 1
              /\ job'[j].link = "job" /\ \A k \in Jobs : k # j => job'[k] = job[k]
         /\ job[j].link # "job" => /\ Ends(j) /\ writes' = writes /\ native'.status = native.status
                                   /\ native'.revision = IF job[j].link = "orphan" THEN native.revision
                                                         ELSE AckedAt(j)
<1>. DEFINE n == AckedAt(j)
<1>1. n \in Nat
  BY LargerIs DEF Typed, NativeTyped, JobTyped, AckedAt
<1>2. native.status \in Statuses /\ native.status \in NativeStatuses
  BY DEF Typed, NativeTyped, NativeStatuses, Statuses
<1>3. Says(native.status, n) \in Changes /\ Says("completed", n) \in Changes
  BY <1>1, <1>2, SaysIs DEF Statuses
<1>4. ASSUME job[j].link = "job", job[j].chunk = LastChunk
      PROVE  /\ native' = [status |-> "completed", revision |-> n]
             /\ writes' = Append(Append(writes, Says(native.status, n)), Says("completed", n))
             /\ Ends(j)
  <2>1. native' = [status |-> "completed", revision |-> n]
    BY <1>4 DEF Acknowledged, AckedAt
  <2>2. [native' EXCEPT !.status = native.status] = [status |-> native.status, revision |-> n]
    <3>. HIDE DEF n
    <3>. QED BY <2>1
  <2>3. writes' = writes \o <<Says(native.status, n)>> \o <<Says("completed", n)>>
    BY <1>4, <2>1, <2>2 DEF Acknowledged, Event, Says
  <2>4. writes' = Append(Append(writes, Says(native.status, n)), Says("completed", n))
    BY <1>3, <2>3, Joined DEF Typed, QueueTyped
  <2>. QED BY <1>4, <2>1, <2>4 DEF Acknowledged
<1>5. ASSUME job[j].link = "job", job[j].chunk # LastChunk
      PROVE  /\ native' = [status |-> native.status, revision |-> n]
             /\ writes' = Append(writes, Says(native.status, n))
             /\ JobTyped' /\ job'[j].step = "fetch" /\ job'[j].chunk = job[j].chunk + 1
             /\ job'[j].link = "job" /\ \A k \in Jobs : k # j => job'[k] = job[k]
  <2>1. native' = [status |-> native.status, revision |-> n]
    BY <1>5 DEF Acknowledged, AckedAt
  <2>2. [native' EXCEPT !.status = native.status] = [status |-> native.status, revision |-> n]
    <3>. HIDE DEF n
    <3>. QED BY <2>1
  <2>3. writes' = writes \o <<Says(native.status, n)>> \o <<>>
    BY <1>5, <2>1, <2>2 DEF Acknowledged, Event, Says
  <2>4. writes' = Append(writes, Says(native.status, n))
    BY <1>3, <2>3, Joined DEF Typed, QueueTyped
  <2>5. job[j].chunk + 1 \in All
    BY <1>5, Numbers DEF Typed, JobTyped, All
  <2>6. job' = [job EXCEPT ![j] = [Idle EXCEPT !.step = "fetch", !.chunk = job[j].chunk + 1]]
    BY <1>5 DEF Acknowledged
  <2>. DEFINE next == job[j].chunk + 1
              r == [Idle EXCEPT !.step = "fetch", !.chunk = next]
  <2>. HIDE DEF next
  <2>7. next \in All /\ next = job[j].chunk + 1 /\ job' = [job EXCEPT ![j] = r]
    BY <2>5, <2>6 DEF next
  <2>8. /\ r \in [step : Steps, chunk : All, link : {"job", "cancelled", "orphan"}, revision : Nat]
        /\ r.step = "fetch" /\ r.chunk = next /\ r.link = "job"
    BY <2>7 DEF Idle, Steps
  <2>. HIDE DEF r
  <2>9. JobTyped' /\ job'[j] = r /\ \A k \in Jobs : k # j => job'[k] = job[k]
    BY <2>7, <2>8 DEF Typed, JobTyped
  <2>. QED BY <2>1, <2>4, <2>7, <2>8, <2>9
<1>6. ASSUME job[j].link # "job"
      PROVE  /\ Ends(j) /\ writes' = writes /\ NativeTyped' /\ native'.status = native.status
             /\ native'.revision = IF job[j].link = "orphan" THEN native.revision ELSE n
  <2>1. Ends(j) /\ writes' = writes
    BY <1>6 DEF Acknowledged
  <2>2. native' = IF job[j].link = "orphan" THEN native ELSE [native EXCEPT !.revision = n]
    BY <1>6 DEF Acknowledged, AckedAt
  <2>3. /\ NativeTyped' /\ native'.status = native.status
        /\ native'.revision = IF job[j].link = "orphan" THEN native.revision ELSE n
    <3>. HIDE DEF n
    <3>. QED BY <1>1, <2>2 DEF Typed, NativeTyped
  <2>. QED BY <2>1, <2>3
<1>7. NativeTyped'
  <2>. HIDE DEF n
  <2>. QED BY <1>1, <1>2, <1>4, <1>5, <1>6 DEF NativeTyped, NativeStatuses
<1>. QED BY <1>1, <1>3, <1>4, <1>5, <1>6, <1>7 DEF Acknowledged

\* What the events of an acknowledgement add to the queue.
LEMMA AcknowledgedWrites ==
  ASSUME Typed, NEW j \in Jobs, Acknowledged(j)
  PROVE  /\ QueueTyped' /\ (HasOffer' <=> HasOffer)
         /\ job[j].link # "job" \/ job[j].chunk # LastChunk =>
              (CompletedComes' => CompletedComes \/ native.status = "completed")
<1>. DEFINE a == Says(native.status, AckedAt(j))
            b == Says("completed", AckedAt(j))
<1>1. /\ a \in Changes /\ a.op = "event" /\ a.status = native.status
      /\ b \in Changes /\ b.op = "event" /\ b.status = "completed"
  <2>1. AckedAt(j) \in Nat /\ native.status \in Statuses
    BY AcknowledgedIs DEF Typed, NativeTyped, NativeStatuses, Statuses
  <2>. QED BY <2>1, SaysIs DEF Statuses
<1>2. /\ starts' = starts
      /\ job[j].link = "job" /\ job[j].chunk = LastChunk => writes' = Append(Append(writes, a), b)
      /\ job[j].link = "job" /\ job[j].chunk # LastChunk => writes' = Append(writes, a)
      /\ job[j].link # "job" => writes' = writes
  BY AcknowledgedIs
<1>. HIDE DEF a, b
<1>3. CASE job[j].link # "job"
  BY <1>2, <1>3 DEF Typed, QueueTyped, HasOffer, CompletedComes
<1>4. CASE job[j].link = "job" /\ job[j].chunk # LastChunk
  BY <1>1, <1>2, <1>4, WritesAppend DEF Typed
<1>5. CASE job[j].link = "job" /\ job[j].chunk = LastChunk
  <2>. DEFINE s == Append(writes, a)
  <2>1. /\ s \in Seq(Changes) /\ Len(writes) \in Nat /\ Len(s) = Len(writes) + 1
        /\ s[Len(writes) + 1] = a /\ \A i \in 1..Len(writes) : s[i] = writes[i]
    BY <1>1, Appended DEF Typed, QueueTyped
  <2>2. writes' = Append(s, b)
    BY <1>2, <1>5
  <2>. HIDE DEF s
  <2>3. /\ writes' \in Seq(Changes) /\ Len(s) \in Nat /\ Len(writes') = Len(s) + 1
        /\ writes'[Len(s) + 1] = b /\ \A i \in 1..Len(s) : writes'[i] = s[i]
    BY <1>1, <2>1, <2>2, Appended
  <2>4. HasOffer' => HasOffer
    BY <1>1, <2>1, <2>3 DEF HasOffer
  <2>5. HasOffer => HasOffer'
    BY <2>1, <2>3 DEF HasOffer
  <2>. QED BY <1>2, <1>5, <2>3, <2>4, <2>5 DEF Typed, QueueTyped
<1>. QED BY <1>3, <1>4, <1>5

LEMMA AcknowledgedInv == ASSUME IInv, NEW j \in Jobs, Acknowledged(j) PROVE IInv'
<1>1. /\ job[j].step = "acked" /\ UNCHANGED <<agent, file, starts, row, control, past, used>> /\ NativeTyped'
  BY AcknowledgedIs DEF IInv
<1>2. FileTyped' /\ PastTyped'
  BY <1>1, Frames DEF IInv, Typed
<1>3. CASE job[j].link # "job"
  <2>1. Ends(j) /\ writes' = writes /\ native'.status = native.status
    BY <1>3, AcknowledgedIs DEF IInv
  <2>. QED BY <1>1, <1>2, <2>1, EndsInv
<1>4. CASE job[j].link = "job"
  <2>1. Linked(j) /\ ~Told /\ native.status \notin {"none", "paused", "completed"}
        /\ control.op \notin {"pause", "resume"}
    BY <1>1, <1>4 DEF IInv, Linked, Orphans, Stopping, NoneLinked, ToldIsOver, Told
  <2>2. QueueTyped' /\ (HasOffer' <=> HasOffer)
    BY AcknowledgedWrites DEF IInv
  <2>3. CASE job[j].chunk = LastChunk
    <3>1. Ends(j) /\ native'.status = "completed"
      BY <1>4, <2>3, AcknowledgedIs DEF IInv
    <3>2. JobTyped' /\ Ended(j)
      BY <3>1, EndsIs DEF IInv, Typed
    <3>3. /\ Acks' /\ OneLinked' /\ NoneLinked'
          /\ \A k \in Jobs : job'[k].step # "idle" => k # j /\ job'[k] = job[k]
      BY <1>1, <2>1, <3>2, EndedKeeps DEF IInv, Typed
    <3>4. Typed'
      BY <1>1, <1>2, <2>2, <3>2, Frames DEF IInv, Typed
    <3>5. Orphans' /\ Stopping'
      BY <1>1, <3>1, <3>3 DEF IInv, Orphans, Stopping
    <3>6. agent.status = "completed"
      BY <1>1, <2>3 DEF IInv, Acks
    <3>7. Controls' /\ NotOffered' /\ ToldIsOver'
      BY <1>1, <2>1, <2>2, <3>1, <3>3, <3>6 DEF IInv, Controls, NotOffered, ToldIsOver
    <3>8. Finals'
      BY <1>1, <2>1, <2>3, <3>3 DEF IInv, Finals, Linked, NoneLinked
    <3>. QED BY <3>3, <3>4, <3>5, <3>7, <3>8 DEF IInv
  <2>4. CASE job[j].chunk # LastChunk
    <3>1. native'.status = native.status
      BY <1>4, <2>4, AcknowledgedIs DEF IInv
    <3>2. /\ JobTyped' /\ job'[j].step = "fetch" /\ job'[j].chunk = job[j].chunk + 1 /\ job'[j].link = "job"
          /\ \A k \in Jobs : k # j => job'[k] = job[k]
      BY <1>4, <2>4, AcknowledgedIs DEF IInv
    <3>3. Typed'
      BY <1>1, <1>2, <2>2, <3>2, Frames DEF IInv, Typed
    <3>4. \A k \in Jobs : Linked(k)' <=> Linked(k)
      BY <2>1, <3>2 DEF Linked
    <3>5. \A k \in Jobs : Reached(k)' = Reached(k)
      <4>1. \A k \in Jobs : k # j => Reached(k)' = Reached(k)
        BY <3>2 DEF Reached
      <4>2. job'[j].chunk - 1 = job[j].chunk
        BY <3>2, Numbers DEF IInv, Typed, JobTyped, All
      <4>3. Reached(j) = 1..job[j].chunk
        BY <1>1 DEF Reached
      <4>4. Reached(j)' = 1..(job'[j].chunk - 1)
        BY <3>2 DEF Reached
      <4>5. Reached(j)' = Reached(j)
        BY <4>2, <4>3, <4>4
      <4>. QED BY <4>1, <4>5
    <3>6. Acks'
      BY <1>1, <3>2, <3>5 DEF IInv, Acks
    <3>7. OneLinked' /\ Orphans' /\ Stopping'
      BY <1>1, <1>4, <3>1, <3>2, <3>4, <2>1 DEF IInv, OneLinked, Orphans, Stopping, NoneLinked
    <3>8. Controls' /\ NotOffered'
      BY <1>1, <2>2, <3>1 DEF IInv, Controls, NotOffered
    <3>9. ~Told'
      BY <1>1, <2>1, <2>4, <3>1, AcknowledgedWrites DEF IInv, Told
    <3>10. ToldIsOver' /\ Finals'
      BY <1>1, <3>2, <3>4, <3>9 DEF IInv, ToldIsOver, Finals
    <3>. QED BY <3>3, <3>6, <3>7, <3>8, <3>10 DEF IInv
  <2>. QED BY <2>3, <2>4
<1>. QED BY <1>3, <1>4

-----------------------------------------------------------------------------
(* Controls. *)

\* Coroutines whose link changes are otherwise what they were.
LEMMA RelinkedKeeps ==
  ASSUME Acks, UNCHANGED agent,
         \A k \in Jobs : job'[k].step = job[k].step /\ job'[k].chunk = job[k].chunk,
         \A k \in Jobs : job[k].step = "acked" /\ job[k].chunk = LastChunk => job'[k].revision = job[k].revision,
         \A k \in Jobs : ~Linked(k)'
  PROVE  /\ Acks' /\ OneLinked' /\ NoneLinked'
         /\ Finals /\ ~Told' /\ UNCHANGED <<past.deleted, past.overlapped, past.late>> => Finals'
<1>1. \A k \in Jobs : Reached(k)' = Reached(k)
  BY DEF Reached
<1>2. Acks'
  BY <1>1 DEF Acks
<1>3. OneLinked' /\ NoneLinked'
  BY DEF OneLinked, NoneLinked
<1>4. Finals /\ ~Told' /\ UNCHANGED <<past.deleted, past.overlapped, past.late>> => Finals'
  BY DEF Finals
<1>. QED BY <1>2, <1>3, <1>4

LEMMA JobCancelledIs ==
  ASSUME JobTyped, job' = JobCancelled
  PROVE  /\ JobTyped'
         /\ \A k \in Jobs : /\ job'[k].step = job[k].step /\ job'[k].chunk = job[k].chunk
                            /\ job'[k].revision = job[k].revision /\ ~Linked(k)'
                            /\ job'[k].link = "orphan" <=> job[k].link = "orphan"
<1>. DEFINE r(k) == [job[k] EXCEPT !.link = "cancelled"]
<1>1. Idle.step = "idle"
  BY DEF Idle
<1>2. \A k \in Jobs : job'[k] = IF job[k].step # "idle" /\ job[k].link = "job" THEN r(k) ELSE job[k]
  BY <1>1 DEF JobTyped, JobCancelled
<1>3. \A k \in Jobs :
        /\ r(k) \in [step : Steps, chunk : All, link : {"job", "cancelled", "orphan"}, revision : Nat]
        /\ r(k).step = job[k].step /\ r(k).chunk = job[k].chunk /\ r(k).revision = job[k].revision
        /\ r(k).link = "cancelled"
  BY DEF JobTyped
<1>4. job' = [k \in Jobs |-> job'[k]]
  BY DEF JobCancelled
<1>. HIDE DEF r
<1>5. JobTyped'
  BY <1>2, <1>3, <1>4 DEF JobTyped
<1>. QED BY <1>2, <1>3, <1>5 DEF Linked

LEMMA RecordRemovedIs ==
  ASSUME JobTyped, NEW revision \in Nat, job' = RecordRemoved(revision)
  PROVE  /\ JobTyped'
         /\ \A k \in Jobs : /\ job'[k].step = job[k].step /\ job'[k].chunk = job[k].chunk
                            /\ job'[k].revision \in {job[k].revision, revision} /\ ~Linked(k)'
                            /\ job'[k].step = "idle" \/ job'[k].link = "orphan"
                            /\ job[k].link = "orphan" => job'[k] = job[k]
<1>. DEFINE r(k) == [job[k] EXCEPT !.link = "orphan", !.revision = revision]
<1>1. Idle.step = "idle"
  BY DEF Idle
<1>2. \A k \in Jobs : job'[k] = IF job[k].step # "idle" /\ job[k].link # "orphan" THEN r(k) ELSE job[k]
  BY <1>1 DEF JobTyped, RecordRemoved
<1>3. \A k \in Jobs :
        /\ r(k) \in [step : Steps, chunk : All, link : {"job", "cancelled", "orphan"}, revision : Nat]
        /\ r(k).step = job[k].step /\ r(k).chunk = job[k].chunk /\ r(k).revision = revision
        /\ r(k).link = "orphan"
  BY DEF JobTyped
<1>4. job' = [k \in Jobs |-> job'[k]]
  BY DEF RecordRemoved
<1>. HIDE DEF r
<1>5. JobTyped'
  BY <1>2, <1>3, <1>4 DEF JobTyped
<1>. QED BY <1>2, <1>3, <1>5 DEF Linked

\* A button: nothing but the bounds, the control and, for a pause, the coroutine.
LEMMA PressIs ==
  ASSUME Typed, NEW op, NEW shown, Press(op, shown), UNCHANGED past
  PROVE  control = NoControl /\ row.status \in shown /\ PastTyped' /\ used'.troubles = used.troubles
BY DEF Press, Typed, PastTyped

LEMMA PostsIs ==
  ASSUME NEW op \in {"pause", "resume", "cancel", "delete"}, Posts(op)
  PROVE  ControlTyped' /\ control'.op = op /\ control'.step = "post" /\ control'.revision = 0
BY DEF Posts, NoControl, ControlTyped

LEMMA FilesIs ==
  ASSUME control' = [NoControl EXCEPT !.op = "delete", !.step = "files"]
  PROVE  ControlTyped' /\ control'.op = "delete" /\ control'.step = "files"
BY DEF NoControl, ControlTyped

LEMMA PressPauseInv == ASSUME IInv, PressPause PROVE IInv'
<1>1. control = NoControl /\ PastTyped' /\ UNCHANGED <<agent, native, file, writes, starts, row, past>>
  BY PressIs DEF PressPause, IInv
<1>2. CASE native.status # "transferring"
  <2>1. UNCHANGED <<control, job>>
    BY <1>2 DEF PressPause
  <2>. QED BY <1>1, <2>1, Frames, JobFrames, RestFrames DEF IInv, Typed
<1>3. CASE native.status = "transferring"
  <2>1. job' = JobCancelled /\ ControlTyped' /\ control'.op = "pause" /\ control'.step = "post"
    BY <1>3, PostsIs DEF PressPause
  <2>2. /\ JobTyped'
        /\ \A k \in Jobs : /\ job'[k].step = job[k].step /\ job'[k].chunk = job[k].chunk
                           /\ job'[k].revision = job[k].revision /\ ~Linked(k)'
                           /\ job'[k].link = "orphan" <=> job[k].link = "orphan"
    BY <2>1, JobCancelledIs DEF IInv, Typed
  <2>3. Typed'
    BY <1>1, <2>1, <2>2, Frames DEF IInv, Typed
  <2>4. ~Told'
    BY <1>1, <1>3 DEF IInv, ToldIsOver, Told, CompletedComes
  <2>5. Acks' /\ OneLinked' /\ NoneLinked' /\ Finals'
    BY <1>1, <2>2, <2>4, RelinkedKeeps DEF IInv
  <2>6. Orphans' /\ Stopping' /\ Controls' /\ ToldIsOver'
    BY <1>1, <1>3, <2>1, <2>2, <2>4, <2>5 DEF IInv, Orphans, Stopping, Controls, ToldIsOver
  <2>. QED BY <1>1, <2>3, <2>5, <2>6, RestFrames DEF IInv
<1>. QED BY <1>2, <1>3

\* PressResume, PressCancel and PressDelete
LEMMA PressInv == ASSUME IInv, PressResume \/ PressCancel \/ PressDelete PROVE IInv'
<1>1. /\ control = NoControl /\ PastTyped'
      /\ UNCHANGED <<agent, native, job, file, writes, starts, row, past>>
  BY PressIs DEF PressResume, PressCancel, PressDelete, IInv
<1>2. /\ ControlTyped' /\ control'.step # "done"
      /\ control'.step \in {"post", "refused"} => native.status # "none"
      /\ control'.op = "pause" => FALSE
      /\ control'.op = "resume" => native.status = "paused"
  <2>1. CASE PressResume
    BY <1>1, <2>1, PostsIs DEF PressResume, IInv, Typed, ControlTyped, NoControl
  <2>2. CASE PressCancel
    BY <1>1, <2>2, PostsIs DEF PressCancel, IInv, Typed, ControlTyped, NoControl
  <2>3. CASE PressDelete
    <3>1. CASE ~Terminal(row.status) /\ native.status # "none"
      BY <2>3, <3>1, PostsIs DEF PressDelete
    <3>2. CASE ~(~Terminal(row.status) /\ native.status # "none")
      <4>1. control' = [NoControl EXCEPT !.op = "delete", !.step = "files"]
        BY <2>3, <3>2 DEF PressDelete
      <4>. QED BY <4>1, FilesIs
    <3>. QED BY <3>1, <3>2
  <2>. QED BY <2>1, <2>2, <2>3
<1>3. Typed'
  BY <1>1, <1>2, Frames DEF IInv, Typed
<1>4. Told' => Told
  BY <1>1 DEF Told, CompletedComes
<1>5. native.status = "paused" => NoneLinked /\ ~Told
  BY DEF IInv, Stopping, ToldIsOver
<1>6. Stopping' /\ Controls' /\ ToldIsOver'
  BY <1>1, <1>2, <1>4, <1>5 DEF IInv, Stopping, Controls, ToldIsOver, NoneLinked, Linked
<1>. QED BY <1>1, <1>3, <1>6, JobFrames, RestFrames DEF IInv

LEMMA AgentControlsIs ==
  ASSUME Typed, AgentControls
  PROVE  /\ control.step = "post" /\ AgentTyped' /\ ControlTyped' /\ control'.op = control.op
         /\ control'.revision = agent'.revision
         /\ control'.step = IF Allowed THEN "done" ELSE "refused"
         /\ IF Allowed /\ agent.status # Target
              THEN /\ agent'.status = Target /\ agent'.revision = agent.revision + 1
                   /\ agent'.acknowledged = agent.acknowledged
              ELSE agent' = agent
         /\ UNCHANGED <<native, job, file, writes, starts, row, past, used>>
<1>. DEFINE changes == Allowed /\ agent.status # Target
            next == agent.revision + 1
            step == IF Allowed THEN "done" ELSE "refused"
<1>1. control.step = "post" /\ UNCHANGED <<native, job, file, writes, starts, row, past, used>>
  BY DEF AgentControls
<1>2. next \in Nat /\ step \in {"done", "refused"} /\ Target \in AgentStatuses
  BY DEF Typed, AgentTyped, Target, AgentStatuses
<1>3. /\ agent' = IF changes THEN [agent EXCEPT !.status = Target, !.revision = next] ELSE agent
      /\ control' = [control EXCEPT !.step = step, !.revision = agent'.revision]
  BY DEF AgentControls
<1>4. control.op # "none"
  BY <1>1 DEF Typed, ControlTyped, NoControl
<1>5. /\ AgentTyped'
      /\ IF changes THEN /\ agent'.status = Target /\ agent'.revision = next
                         /\ agent'.acknowledged = agent.acknowledged
         ELSE agent' = agent
  <2>. HIDE DEF changes, next
  <2>. QED BY <1>2, <1>3 DEF Typed, AgentTyped
<1>6. ControlTyped' /\ control'.op = control.op /\ control'.step = step /\ control'.revision = agent'.revision
  <2>1. agent'.revision \in Nat
    BY <1>5 DEF AgentTyped
  <2>. HIDE DEF step
  <2>. QED BY <1>2, <1>3, <1>4, <2>1 DEF Typed, ControlTyped
<1>. QED BY <1>1, <1>5, <1>6

LEMMA AgentControlsInv == ASSUME IInv, AgentControls PROVE IInv'
<1>1. /\ control.step = "post" /\ AgentTyped' /\ ControlTyped' /\ control'.op = control.op
      /\ control'.revision = agent'.revision
      /\ control'.step = IF Allowed THEN "done" ELSE "refused"
      /\ IF Allowed /\ agent.status # Target
           THEN agent'.status = Target /\ agent'.acknowledged = agent.acknowledged
           ELSE agent' = agent
      /\ UNCHANGED <<native, job, file, writes, starts, row, past, used>>
  BY AgentControlsIs DEF IInv
<1>2. Typed'
  BY <1>1, Frames DEF IInv, Typed
<1>3. agent.status \in {"completed", "cancelled"} => agent' = agent
  BY <1>1 DEF Allowed, Terminal
<1>4. agent'.acknowledged = agent.acknowledged /\ (agent'.status = "waiting_for_peer" => agent' = agent)
  BY <1>1 DEF Target
<1>5. Acks'
  <2>1. \A k \in Jobs : Reached(k)' = Reached(k)
    BY <1>1 DEF Reached
  <2>. QED BY <1>1, <1>3, <1>4, <2>1 DEF IInv, Acks
<1>6. native.status # "none"
  BY <1>1 DEF IInv, Controls
<1>7. OneLinked' /\ Orphans' /\ Stopping'
  BY <1>1, <1>3, <1>6 DEF IInv, OneLinked, Orphans, Stopping, NoneLinked, Linked
<1>8. Controls'
  <2>1. control'.step = "done" => agent'.status = Target
    BY <1>1 DEF Allowed
  <2>. QED BY <1>1, <1>6, <2>1 DEF Controls, Target
<1>9. NotOffered'
  BY <1>1, <1>4, <1>6 DEF IInv, NotOffered
<1>10. Told' <=> Told
  BY <1>1 DEF Told, CompletedComes
<1>11. ToldIsOver'
  BY <1>1, <1>3, <1>10 DEF IInv, ToldIsOver, NoneLinked, Linked
<1>. QED BY <1>1, <1>2, <1>5, <1>7, <1>8, <1>9, <1>11, RestFrames DEF IInv

\* Nothing but the step of the control changes.
LEMMA ControlStepIs ==
  ASSUME ControlTyped, control.op # "none", NEW s \in {"post", "done", "refused"}, control' = [control EXCEPT !.step = s]
  PROVE  ControlTyped' /\ control'.step = s /\ control'.op = control.op /\ control'.revision = control.revision
BY DEF ControlTyped

LEMMA ControlLostInv == ASSUME IInv, ControlLost PROVE IInv'
<1>1. /\ control.step \in {"post", "done"} /\ control' = [control EXCEPT !.step = "refused"] /\ Trouble
      /\ UNCHANGED <<agent, native, job, file, writes, starts, row, past>>
  BY DEF ControlLost
<1>2. control.op # "none"
  BY <1>1 DEF IInv, Typed, ControlTyped, NoControl
<1>3. ControlTyped' /\ control'.step = "refused" /\ control'.op = control.op
  BY <1>1, <1>2, ControlStepIs DEF IInv, Typed
<1>4. PastTyped'
  BY <1>1, TroubleIs DEF IInv, Typed, PastTyped
<1>5. Typed'
  BY <1>1, <1>3, <1>4, Frames DEF IInv, Typed
<1>6. Stopping' /\ Controls' /\ ToldIsOver'
  BY <1>1, <1>3 DEF IInv, Stopping, Controls, ToldIsOver, Told, CompletedComes, NoneLinked, Linked
<1>. QED BY <1>1, <1>5, <1>6, JobFrames, RestFrames DEF IInv

\* The revision that postControl leaves in the record.
ControlledAt == Larger(native.revision, control.revision)

LEMMA NoControlTyped == control' = NoControl => ControlTyped' /\ control'.op = "none" /\ control'.step = "idle"
BY DEF ControlTyped, NoControl

LEMMA ControlledIs ==
  ASSUME Typed, NEW j \in Jobs, Controlled(j)
  PROVE  /\ control.step = "done" /\ control.op \in {"pause", "resume"} /\ control' = NoControl
         /\ Target \in {"paused", "transferring"} /\ (Target = "paused" <=> control.op = "pause")
         /\ ControlledAt \in Nat /\ native' = [status |-> Target, revision |-> ControlledAt] /\ NativeTyped'
         /\ Says(Target, ControlledAt) \in Changes /\ writes' = Append(writes, Says(Target, ControlledAt))
         /\ control.op = "pause" => UNCHANGED <<job, file, past>>
         /\ control.op = "resume" => Launch(j) /\ file' = [file EXCEPT !.dir = TRUE]
         /\ UNCHANGED <<agent, starts, row, used>>
<1>1. control.step = "done" /\ control.op \in {"pause", "resume"} /\ control' = NoControl
  BY DEF Controlled
<1>2. Target \in {"paused", "transferring"} /\ (Target = "paused" <=> control.op = "pause")
  BY <1>1 DEF Target
<1>3. ControlledAt \in Nat
  BY LargerIs DEF Typed, NativeTyped, ControlTyped, ControlledAt
<1>4. native' = [status |-> Target, revision |-> ControlledAt] /\ Emit(native')
  BY DEF Controlled, ControlledAt
<1>5. NativeTyped' /\ native'.status = Target /\ native'.revision = ControlledAt
  BY <1>2, <1>3, <1>4 DEF NativeTyped, NativeStatuses
<1>6. writes' = Append(writes, Says(Target, ControlledAt))
  BY <1>4, <1>5 DEF Emit, Event, Says
<1>7. Says(Target, ControlledAt) \in Changes
  BY <1>2, <1>3, SaysIs DEF Statuses
<1>. QED BY <1>1, <1>2, <1>3, <1>4, <1>5, <1>6, <1>7 DEF Controlled

LEMMA ControlledInv == ASSUME IInv, NEW j \in Jobs, Controlled(j) PROVE IInv'
<1>1. /\ control.step = "done" /\ control.op \in {"pause", "resume"}
      /\ Target \in {"paused", "transferring"} /\ (Target = "paused" <=> control.op = "pause")
      /\ native'.status = Target /\ NativeTyped'
      /\ UNCHANGED <<agent, starts, row, used>>
  BY ControlledIs DEF IInv
<1>2. ControlTyped' /\ control'.op = "none" /\ control'.step = "idle"
  BY ControlledIs, NoControlTyped DEF IInv
<1>3. QueueTyped' /\ (HasOffer' <=> HasOffer) /\ (CompletedComes' <=> CompletedComes)
  <2>1. /\ Says(Target, ControlledAt) \in Changes /\ writes' = Append(writes, Says(Target, ControlledAt))
        /\ Says(Target, ControlledAt).op = "event" /\ Says(Target, ControlledAt).status # "completed"
    BY <1>1, ControlledIs DEF IInv, Says
  <2>. QED BY <1>1, <2>1, WritesAppend DEF IInv, Typed
<1>4. NoneLinked /\ ~Told
  BY <1>1 DEF IInv, Stopping, ToldIsOver
<1>5. ~Told'
  BY <1>1, <1>3, <1>4 DEF Told
<1>6. Controls' /\ NotOffered' /\ ToldIsOver'
  BY <1>1, <1>2, <1>5 DEF IInv, Controls, NotOffered, ToldIsOver
<1>7. CASE control.op = "pause"
  <2>1. UNCHANGED <<job, file, past>>
    BY <1>7, ControlledIs DEF IInv
  <2>2. Typed'
    BY <1>1, <1>2, <1>3, <2>1, Frames DEF IInv, Typed
  <2>3. Orphans' /\ Stopping' /\ Finals'
    BY <1>1, <1>4, <1>5, <2>1 DEF IInv, Orphans, Stopping, Finals, NoneLinked, Linked
  <2>. QED BY <1>1, <1>6, <2>1, <2>2, <2>3, JobFrames DEF IInv
<1>8. CASE control.op = "resume"
  <2>1. /\ JobTyped' /\ job[j].step = "idle"
        /\ job'[j].step = "fetch" /\ job'[j].chunk = 1 /\ job'[j].link = "job"
        /\ \A k \in Jobs : k # j => job'[k] = job[k]
        /\ PastTyped' /\ past'.deleted = past.deleted /\ past'.late = past.late
        /\ ~past'.overlapped => ~past.overlapped /\ \A k \in Jobs : job[k].step # "root"
    BY <1>1, <1>8, LaunchIs, ControlledIs DEF IInv, Typed, PastTyped
  <2>2. FileTyped'
    BY <1>8, ControlledIs DEF IInv, Typed, FileTyped
  <2>3. Typed'
    BY <1>1, <1>2, <1>3, <2>1, <2>2, Frames DEF IInv, Typed
  <2>4. Acks' /\ OneLinked'
    BY <1>1, <1>4, <2>1, LaunchKeeps DEF IInv
  <2>5. Orphans' /\ Stopping'
    BY <1>1, <1>2, <1>8, <2>1 DEF IInv, Orphans, Stopping
  <2>6. Finals'
    BY <1>4, <1>5, <2>1 DEF Finals, Linked, NoneLinked
  <2>. QED BY <1>6, <2>3, <2>4, <2>5, <2>6 DEF IInv
<1>. QED BY <1>1, <1>7, <1>8

LEMMA CancelledIs ==
  ASSUME Typed, Cancelled
  PROVE  /\ control.step = "done" /\ control.op \in {"cancel", "delete"}
         /\ native' = NoRecord /\ NativeTyped' /\ file' = NoFiles /\ FileTyped'
         /\ ControlledAt \in Nat /\ job' = RecordRemoved(ControlledAt)
         /\ Says("cancelled", ControlledAt) \in Changes
         /\ writes' = Append(writes, Says("cancelled", ControlledAt))
         /\ ControlTyped' /\ control'.step \in {"idle", "files"} /\ control'.op \in {"none", "delete"}
         /\ UNCHANGED <<agent, starts, row, past, used>>
<1>1. /\ control.step = "done" /\ control.op \in {"cancel", "delete"}
      /\ native' = NoRecord /\ file' = NoFiles
      /\ control' = IF control.op = "delete" THEN [control EXCEPT !.step = "files"] ELSE NoControl
      /\ UNCHANGED <<agent, starts, row, past, used>>
  BY DEF Cancelled
<1>2. ControlledAt \in Nat
  BY LargerIs DEF Typed, NativeTyped, ControlTyped, ControlledAt
<1>3. /\ job' = RecordRemoved(ControlledAt)
      /\ writes' = Append(writes, Says("cancelled", ControlledAt))
  BY DEF Cancelled, Emit, Event, Says, ControlledAt
<1>4. Says("cancelled", ControlledAt) \in Changes
  BY <1>2, SaysIs DEF Statuses
<1>5. NativeTyped' /\ FileTyped'
  BY <1>1 DEF NoRecord, NoFiles, NativeTyped, NativeStatuses, FileTyped
<1>6. ControlTyped' /\ control'.step \in {"idle", "files"} /\ control'.op \in {"none", "delete"}
  <2>1. CASE control.op = "delete"
    BY <1>1, <2>1 DEF Typed, ControlTyped
  <2>2. CASE control.op # "delete"
    BY <1>1, <2>2, NoControlTyped
  <2>. QED BY <2>1, <2>2
<1>. QED BY <1>1, <1>2, <1>3, <1>4, <1>5, <1>6

LEMMA CancelledInv == ASSUME IInv, Cancelled PROVE IInv'
<1>1. /\ control.step = "done" /\ control.op \in {"cancel", "delete"}
      /\ native'.status = "none" /\ NativeTyped' /\ FileTyped'
      /\ ControlTyped' /\ control'.step \in {"idle", "files"} /\ control'.op \in {"none", "delete"}
      /\ UNCHANGED <<agent, starts, row, past, used>>
  BY CancelledIs DEF IInv, NoRecord
<1>2. QueueTyped' /\ (CompletedComes' <=> CompletedComes)
  <2>1. /\ Says("cancelled", ControlledAt) \in Changes
        /\ writes' = Append(writes, Says("cancelled", ControlledAt))
        /\ Says("cancelled", ControlledAt).status # "completed"
    BY CancelledIs DEF IInv, Says
  <2>. QED BY <1>1, <2>1, WritesAppend DEF IInv, Typed
<1>3. /\ JobTyped'
      /\ \A k \in Jobs : /\ job'[k].step = job[k].step /\ job'[k].chunk = job[k].chunk
                         /\ ~Linked(k)' /\ (job'[k].step = "idle" \/ job'[k].link = "orphan")
  BY CancelledIs, RecordRemovedIs DEF IInv, Typed
<1>4. Typed'
  BY <1>1, <1>2, <1>3, Frames DEF IInv, Typed
<1>5. agent.status = "cancelled"
  BY <1>1 DEF IInv, Controls
<1>6. ~Told'
  BY <1>1, <1>2, <1>5 DEF IInv, Told, ToldIsOver
<1>7. \A k \in Jobs : ~(job[k].step = "acked" /\ job[k].chunk = LastChunk)
  BY <1>5 DEF IInv, Acks
<1>8. Acks' /\ OneLinked' /\ NoneLinked' /\ Finals'
  BY <1>1, <1>3, <1>6, <1>7, RelinkedKeeps DEF IInv
<1>9. Orphans' /\ Stopping' /\ Controls' /\ NotOffered' /\ ToldIsOver'
  BY <1>1, <1>3, <1>5, <1>6, <1>8 DEF Orphans, Stopping, Controls, NotOffered, ToldIsOver
<1>. QED BY <1>4, <1>8, <1>9 DEF IInv

LEMMA ControlFailsIs ==
  ASSUME Typed, ControlFails
  PROVE  /\ control.step = "refused" /\ control' = NoControl
         /\ UNCHANGED <<agent, job, file, starts, row, past, used>>
         /\ control.op = "resume" => UNCHANGED <<native, writes>>
         /\ control.op # "resume" =>
              /\ native'.status = "failed" /\ native'.revision = native.revision /\ NativeTyped'
              /\ writes' = Append(writes, Says("failed", native.revision))
         /\ Says("failed", native.revision) \in Changes
<1>1. ASSUME control.op # "resume"
      PROVE  /\ native'.status = "failed" /\ native'.revision = native.revision /\ NativeTyped'
             /\ writes' = Append(writes, Says("failed", native.revision))
  <2>1. native' = [native EXCEPT !.status = "failed"] /\ Emit(native')
    BY <1>1 DEF ControlFails
  <2>2. native'.status = "failed" /\ native'.revision = native.revision /\ NativeTyped'
    BY <2>1 DEF Typed, NativeTyped, NativeStatuses
  <2>. QED BY <2>1, <2>2 DEF Emit, Event, Says
<1>2. Says("failed", native.revision) \in Changes
  BY SaysIs DEF Typed, NativeTyped, Statuses
<1>. QED BY <1>1, <1>2 DEF ControlFails

LEMMA ControlFailsInv == ASSUME IInv, ControlFails PROVE IInv'
<1>1. /\ control.step = "refused" /\ UNCHANGED <<agent, job, file, starts, row, past, used>>
      /\ ControlTyped' /\ control'.op = "none" /\ control'.step = "idle"
  BY ControlFailsIs, NoControlTyped DEF IInv
<1>2. /\ QueueTyped' /\ (HasOffer' <=> HasOffer) /\ (CompletedComes' <=> CompletedComes)
      /\ NativeTyped' /\ (native'.status = native.status \/ native'.status = "failed")
  <2>1. CASE control.op = "resume"
    BY <1>1, <2>1, ControlFailsIs DEF IInv, Typed, QueueTyped, NativeTyped, HasOffer, CompletedComes
  <2>2. CASE control.op # "resume"
    <3>1. /\ Says("failed", native.revision) \in Changes
          /\ writes' = Append(writes, Says("failed", native.revision))
          /\ Says("failed", native.revision).op = "event" /\ Says("failed", native.revision).status = "failed"
          /\ NativeTyped' /\ native'.status = "failed"
      BY <2>2, ControlFailsIs DEF IInv, Says
    <3>. QED BY <1>1, <3>1, WritesAppend DEF IInv, Typed
  <2>. QED BY <2>1, <2>2
<1>3. Typed'
  BY <1>1, <1>2, Frames DEF IInv, Typed
<1>4. native.status # "none"
  BY <1>1 DEF IInv, Controls
<1>5. Told' => Told
  BY <1>1, <1>2 DEF Told
<1>6. Orphans' /\ Stopping' /\ Controls' /\ NotOffered' /\ ToldIsOver' /\ Finals'
  BY <1>1, <1>2, <1>4, <1>5
     DEF IInv, Orphans, Stopping, Controls, NotOffered, ToldIsOver, Finals, NoneLinked, Linked
<1>. QED BY <1>1, <1>3, <1>6, JobFrames DEF IInv

LEMMA DeleteFilesInv == ASSUME IInv, DeleteFiles PROVE IInv'
<1>. DEFINE e == [op |-> "delete", status |-> "none", revision |-> 0]
<1>1. /\ file' = NoFiles /\ writes' = Append(writes, e) /\ past' = [past EXCEPT !.deleted = TRUE]
      /\ ControlTyped' /\ control'.op = "none" /\ control'.step = "idle"
      /\ UNCHANGED <<agent, native, job, starts, row, used>>
  BY NoControlTyped DEF DeleteFiles
<1>2. e \in Changes /\ e.op = "delete"
  BY DEF Changes, Statuses
<1>. HIDE DEF e
<1>3. QueueTyped' /\ (HasOffer' <=> HasOffer) /\ (CompletedComes' <=> CompletedComes)
  BY <1>1, <1>2, WritesAppend DEF IInv, Typed
<1>4. FileTyped' /\ PastTyped' /\ past'.deleted
  BY <1>1 DEF IInv, Typed, FileTyped, NoFiles, PastTyped
<1>5. Typed'
  BY <1>1, <1>3, <1>4, Frames DEF IInv, Typed
<1>6. Told' <=> Told
  BY <1>1, <1>3 DEF Told
<1>7. Stopping' /\ Controls' /\ NotOffered' /\ ToldIsOver' /\ Finals'
  BY <1>1, <1>3, <1>4, <1>6
     DEF IInv, Stopping, Controls, NotOffered, ToldIsOver, Finals, NoneLinked, Linked
<1>. QED BY <1>1, <1>5, <1>7, JobFrames DEF IInv

-----------------------------------------------------------------------------
(* Processes that end. *)

LEMMA KillInv == ASSUME IInv, Kill PROVE IInv'
<1>1. /\ native' = NoRecord /\ job' = [j \in Jobs |-> Idle] /\ control' = NoControl
      /\ writes' = <<>> /\ starts' = <<>> /\ UNCHANGED <<agent, file, row, past>> /\ Trouble
  BY DEF Kill
<1>2. /\ PastTyped' /\ ControlTyped' /\ control'.op = "none" /\ control'.step = "idle"
      /\ NativeTyped' /\ native'.status = "none"
  BY <1>1, TroubleIs, NoControlTyped
     DEF IInv, Typed, PastTyped, NoRecord, NativeTyped, NativeStatuses
<1>3. JobTyped' /\ \A k \in Jobs : job'[k].step = "idle" /\ job'[k].chunk = 1
  <2>1. /\ Idle \in [step : Steps, chunk : All, link : {"job", "cancelled", "orphan"}, revision : Nat]
        /\ Idle.step = "idle" /\ Idle.chunk = 1
    BY Numbers DEF Idle, Steps
  <2>. QED BY <1>1, <2>1 DEF JobTyped
<1>4. QueueTyped' /\ ~HasOffer' /\ ~CompletedComes'
  BY <1>1 DEF QueueTyped, HasOffer, CompletedComes
<1>5. Typed'
  BY <1>1, <1>2, <1>3, <1>4, Frames DEF IInv, Typed
<1>6. \A k \in Jobs : ~Linked(k)' /\ Reached(k)' = {}
  BY <1>3 DEF Linked, Reached
<1>7. Acks' /\ OneLinked'
  BY <1>1, <1>3, <1>6 DEF IInv, Acks, OneLinked
<1>8. Told' => Told
  BY <1>1, <1>2, <1>4 DEF Told
<1>9. Orphans' /\ Stopping' /\ Controls' /\ NotOffered' /\ ToldIsOver' /\ Finals'
  BY <1>1, <1>2, <1>3, <1>4, <1>6, <1>8
     DEF IInv, Orphans, Stopping, Controls, NotOffered, ToldIsOver, Finals, NoneLinked
<1>. QED BY <1>5, <1>7, <1>9 DEF IInv

LEMMA ReloadInv == ASSUME IInv, Reload PROVE IInv'
<1>1. /\ writes' = IF native.status = "none" THEN <<>> ELSE <<Event(native)>>
      /\ starts' = <<>> /\ UNCHANGED <<agent, native, job, file, row, control, past>> /\ Trouble
  BY DEF Reload
<1>2. PastTyped'
  BY <1>1, TroubleIs DEF IInv, Typed, PastTyped
<1>3. Event(native) \in Changes /\ Event(native).op = "event" /\ Event(native).status = native.status
  BY DEF IInv, Typed, NativeTyped, NativeStatuses, Event, Changes, Statuses
<1>4. QueueTyped' /\ ~HasOffer' /\ (CompletedComes' => native.status = "completed")
  BY <1>1, <1>3 DEF QueueTyped, HasOffer, CompletedComes
<1>5. Typed'
  BY <1>1, <1>2, <1>4, Frames DEF IInv, Typed
<1>6. Told' => Told
  BY <1>1, <1>4 DEF Told
<1>7. NotOffered' /\ ToldIsOver' /\ Finals'
  BY <1>1, <1>4, <1>6 DEF IInv, NotOffered, ToldIsOver, Finals, NoneLinked, Linked
<1>. QED BY <1>1, <1>5, <1>7, JobFrames, RestFrames DEF IInv

-----------------------------------------------------------------------------
(* The specification. *)

LEMMA InitInv == ASSUME Init PROVE IInv
<1>1. /\ agent = [status |-> "waiting_for_peer", revision |-> 1, acknowledged |-> {}]
      /\ native = NoRecord /\ row = NoRecord /\ job = [j \in Jobs |-> Idle] /\ file = NoFiles
      /\ writes = <<>> /\ starts = <<>> /\ control = NoControl
      /\ past = [proved |-> FALSE, deleted |-> FALSE, overlapped |-> FALSE, late |-> FALSE]
      /\ used = [offers |-> 0, controls |-> 0, troubles |-> 0]
  BY DEF Init
<1>2. JobTyped /\ \A k \in Jobs : job[k].step = "idle" /\ job[k].chunk = 1
  <2>1. /\ Idle \in [step : Steps, chunk : All, link : {"job", "cancelled", "orphan"}, revision : Nat]
        /\ Idle.step = "idle" /\ Idle.chunk = 1
    BY Numbers DEF Idle, Steps
  <2>. QED BY <1>1, <2>1 DEF JobTyped
<1>3. AgentTyped /\ agent.acknowledged # All
  BY <1>1, Numbers DEF AgentTyped, AgentStatuses
<1>4. NativeTyped /\ RowTyped /\ native.status = "none" /\ row.status = "none"
  BY <1>1 DEF NoRecord, NativeTyped, NativeStatuses, RowTyped, Statuses
<1>5. FileTyped /\ ControlTyped /\ PastTyped /\ control.op = "none" /\ control.step = "idle"
  BY <1>1 DEF NoFiles, NoControl, FileTyped, ControlTyped, PastTyped
<1>6. QueueTyped /\ ~HasOffer /\ ~CompletedComes
  BY <1>1 DEF QueueTyped, HasOffer, CompletedComes
<1>7. Typed
  BY <1>2, <1>3, <1>4, <1>5, <1>6 DEF Typed
<1>8. \A k \in Jobs : ~Linked(k) /\ Reached(k) = {}
  BY <1>2 DEF Linked, Reached
<1>9. Acks /\ OneLinked
  BY <1>1, <1>2, <1>3, <1>8 DEF Acks, OneLinked
<1>10. ~Told
  BY <1>4, <1>6 DEF Told
<1>11. Orphans /\ Stopping /\ Controls /\ NotOffered /\ ToldIsOver /\ Finals
  BY <1>1, <1>2, <1>4, <1>5, <1>6, <1>8, <1>10
     DEF Orphans, Stopping, Controls, NotOffered, ToldIsOver, Finals, NoneLinked
<1>. QED BY <1>7, <1>9, <1>11 DEF IInv

LEMMA NextInv == IInv /\ [Next]_vars => IInv'
<1>. SUFFICES ASSUME IInv, [Next]_vars PROVE IInv'
  OBVIOUS
<1>1. CASE Offer
  BY <1>1, OfferInv
<1>2. CASE Write
  BY <1>2, SaveOfferInv, WriteInv DEF Write
<1>3. ASSUME NEW j \in Jobs, Start(j) PROVE IInv'
  BY <1>3, StartInv
<1>4. ASSUME NEW j \in Jobs, Download(j) PROVE IInv'
  BY <1>4, FetchedInv, FetchFailsInv, PublishedInv, RootDiffersInv, AgentAcknowledgesInv, AckFailsInv,
     AcknowledgedInv DEF Download
<1>5. CASE Presses
  BY <1>5, PressPauseInv, PressInv DEF Presses
<1>6. CASE Control
  BY <1>6, AgentControlsInv, ControlLostInv, CancelledInv, ControlFailsInv, DeleteFilesInv, ControlledInv
     DEF Control
<1>7. CASE Kill \/ Reload
  BY <1>7, KillInv, ReloadInv
<1>8. CASE UNCHANGED vars
  <2>1. UNCHANGED <<agent, native, job, file, writes, starts, row, control, past, used>>
    BY <1>8 DEF vars, phone
  <2>. QED BY <2>1, Frames, JobFrames, RestFrames DEF IInv, Typed
<1>. QED BY <1>1, <1>2, <1>3, <1>4, <1>5, <1>6, <1>7, <1>8 DEF Next

(* Whatever is offered, pressed, lost or killed: types, at most one coroutine for *)
(* the record, acknowledgements in order, and what follows from each status.      *)
THEOREM IncomingInvariant == Spec => []IInv
<1>1. Init => IInv
  BY InitInv
<1>. QED BY <1>1, NextInv, PTL DEF Spec

(* A row that says completed has its file (CompletedIsKept): the record says so    *)
(* only when its last chunk has been acknowledged, which is asked after the file  *)
(* is published.  Then only the user takes the file away, or a cancelled download *)
(* that ran on beside the next one or had a request fail after its cancellation.  *)
THEOREM CompletedSafe == Spec => []CompletedIsKept
<1>1. IInv => CompletedIsKept
  BY DEF IInv, Finals, Told, CompletedIsKept, Typed, FileTyped, PastTyped
<1>. QED BY <1>1, IncomingInvariant, PTL

-----------------------------------------------------------------------------
(* The second invariant: what the row will say once the database has written  *)
(* what waits, when no request is lost, no process ends and no file is        *)
(* deleted.                                                                   *)

\* No row and no change that waits is newer than v.
Older(w, r, v) == r.revision <= v /\ \A i \in 1..Len(w) : w[i].revision <= v

Over == {"failed", "completed", "cancelled"}
Still == Over \cup {"paused"}

\* The event at i of the queue w will be written: no change before it is newer.
Decides(w, r, i, statuses) ==
  /\ w[i].op = "event" /\ w[i].status \in statuses /\ r.revision <= w[i].revision
  /\ \A k \in 1..i : w[k].revision <= w[i].revision

\* From k on, no event says that the transfer goes on.
Quiet(w, k) == \A i \in 1..Len(w) : i >= k /\ w[i].op = "event" => w[i].status \in Still

\* The row says, or will say, that the transfer has ended; that it does not run.
HeardEnd(w, r) == r.status \in Over \/ \E i \in 1..Len(w) : Decides(w, r, i, Over)
Heard(w, r) ==
  \/ r.status \in Over
  \/ r.status \in Still /\ Quiet(w, 1)
  \/ \E i \in 1..Len(w) : Decides(w, r, i, Still) /\ Quiet(w, i)

\* The Agent has the largest revision.
Bounded ==
  /\ Older(writes, row, agent.revision) /\ \A i \in 1..Len(starts) : starts[i] <= agent.revision
  /\ native.revision <= agent.revision /\ control.revision <= agent.revision
  /\ \A j \in Jobs : job[j].revision <= agent.revision

Deletes   == \A i \in 1..Len(writes) :
               IF writes[i].op = "delete" THEN past.deleted ELSE writes[i].status # "none"
LastComes == LastChunk \in agent.acknowledged => agent.acknowledged = All

\* Before the first record, and for every record.
Shown ==
  /\ native.status # "none" \/ starts # <<>> \/ agent.status = "cancelled" => row.status # "none"
  /\ native.status = "none" => agent.status \in {"waiting_for_peer", "transferring", "cancelled"}
  /\ native.status = "none" /\ agent.status # "cancelled" =>
       /\ \A i \in 1..Len(writes) : writes[i].op = "offer" /\ writes[i].revision = agent.revision
       /\ \A i \in 1..Len(starts) : starts[i] = agent.revision
       /\ row.status = "none" \/ (row.status = "transferring" /\ starts # <<>>)
       /\ agent.status = "waiting_for_peer" => writes = <<>> /\ starts = <<>>

Controlling ==
  /\ agent.status = "paused" => NoneLinked
  /\ control.step = "refused" => agent.status \in {"completed", "cancelled"}

\* The revision that the record has, or is about to take from the control's answer.
Known  == IF control.step = "done" THEN Larger(native.revision, control.revision) ELSE native.revision
AtLast == LastChunk = 1 \/ \E j \in Jobs : job[j].step # "idle" /\ job[j].link # "orphan"
                                           /\ job[j].chunk = LastChunk

\* At the last chunk the record knows the Agent's revision; so nothing that waits is
\* newer than what it says once the Agent has completed.
Kept ==
  /\ AtLast /\ agent.status \in {"transferring", "paused"} /\ native.status # "none" =>
       Known = agent.revision
  /\ agent.status = "completed" => Older(writes, row, Known)
  /\ \A j \in Jobs : Linked(j) /\ job[j].step = "acked" /\ job[j].chunk + 1 = LastChunk
                       /\ agent.status = "transferring" => job[j].revision = agent.revision

DirKept == agent.status # "cancelled" /\ native.status = "transferring" /\ ~NoneLinked => file.dir

CancelIsHeard ==
  agent.status = "cancelled" /\ ~(control.step = "done" /\ control.op \in {"cancel", "delete"}) =>
    HeardEnd(writes, row)

StopIsHeard ==
  agent.status # "cancelled" /\ native.status \in {"paused", "failed", "completed"} /\ control.step # "done" =>
    Heard(writes, row)

Calm == used.troubles = 0 /\ ~past.deleted /\ ~past.late

Hears == Shown /\ Controlling /\ Kept /\ DirKept /\ CancelIsHeard /\ StopIsHeard
SInv  == Bounded /\ Deletes /\ LastComes /\ (Calm => Hears)

LEMMA AppendOlder ==
  ASSUME NEW w \in Seq(Changes), NEW e \in Changes, NEW r, NEW v \in Nat, Older(w, r, v), e.revision <= v
  PROVE  Older(Append(w, e), r, v)
<1>1. /\ Len(w) \in Nat /\ Len(Append(w, e)) = Len(w) + 1 /\ Append(w, e)[Len(w) + 1] = e
      /\ \A i \in 1..Len(w) : Append(w, e)[i] = w[i]
  BY Appended
<1>2. \A i \in 1..Len(Append(w, e)) : i \in 1..Len(w) \/ i = Len(w) + 1
  BY <1>1
<1>. QED BY <1>1, <1>2 DEF Older

LEMMA AppendHeard ==
  ASSUME NEW w \in Seq(Changes), NEW e \in Changes, NEW r, NEW t, t = Append(w, e)
  PROVE  /\ t \in Seq(Changes)
         /\ HeardEnd(w, r) => HeardEnd(t, r)
         /\ Heard(w, r) /\ (e.op = "event" => e.status \in Still) => Heard(t, r)
         /\ Older(w, r, e.revision) /\ e.op = "event" /\ e.status \in Still => Heard(t, r)
         /\ Older(w, r, e.revision) /\ e.op = "event" /\ e.status \in Over => HeardEnd(t, r)
<1>. DEFINE n == Len(w)
<1>1. /\ t \in Seq(Changes) /\ n \in Nat /\ Len(t) = n + 1 /\ t[n + 1] = e
      /\ \A i \in 1..n : t[i] = w[i]
  BY Appended
<1>. HIDE DEF n
<1>2. 1..Len(t) = 1..n \cup {n + 1} /\ 1..Len(w) = 1..n
  BY <1>1 DEF n
<1>3. \A i \in 1..n : \A statuses : Decides(w, r, i, statuses) => Decides(t, r, i, statuses)
  <2>. SUFFICES ASSUME NEW i \in 1..n, NEW statuses, Decides(w, r, i, statuses)
                PROVE  Decides(t, r, i, statuses)
    OBVIOUS
  <2>1. \A k \in 1..i : k \in 1..n
    BY <1>1
  <2>. QED BY <1>1, <2>1 DEF Decides
<1>4. (e.op = "event" => e.status \in Still) => \A k : Quiet(w, k) => Quiet(t, k)
  BY <1>1, <1>2 DEF Quiet
<1>5. HeardEnd(w, r) => HeardEnd(t, r)
  BY <1>2, <1>3 DEF HeardEnd
<1>6. Heard(w, r) /\ (e.op = "event" => e.status \in Still) => Heard(t, r)
  BY <1>2, <1>3, <1>4 DEF Heard
<1>8. \A statuses : Older(w, r, e.revision) /\ e.op = "event" /\ e.status \in statuses => Decides(t, r, n + 1, statuses)
  <2>. SUFFICES ASSUME NEW statuses, Older(w, r, e.revision), e.op = "event", e.status \in statuses
                PROVE  Decides(t, r, n + 1, statuses)
    OBVIOUS
  <2>1. e.revision \in Nat
    BY DEF Changes
  <2>2. \A k \in 1..(n + 1) : t[k].revision <= e.revision
    <3>1. \A k \in 1..n : t[k].revision <= e.revision
      BY <1>1, <1>2 DEF Older
    <3>2. 1..(n + 1) = 1..n \cup {n + 1}
      BY <1>1
    <3>3. t[n + 1].revision <= e.revision
      BY <1>1, <2>1
    <3>. QED BY <3>1, <3>2, <3>3
  <2>. QED BY <1>1, <2>2 DEF Decides, Older
<1>9. (e.op = "event" => e.status \in Still) => Quiet(t, n + 1)
  BY <1>1, <1>2 DEF Quiet
<1>10. n + 1 \in 1..Len(t)
  BY <1>1
<1>11. Over \subseteq Still
  BY DEF Over, Still
<1>. QED BY <1>1, <1>5, <1>6, <1>8, <1>9, <1>10, <1>11 DEF Heard, HeardEnd

LEMMA TakeOlder ==
  ASSUME NEW w \in Seq(Changes), w # <<>>, NEW r, NEW q, NEW v \in Nat, Older(w, r, v),
         r.revision <= v /\ Head(w).revision <= v => q.revision <= v
  PROVE  Older(Tail(w), q, v)
<1>. DEFINE t == Tail(w)
            n == Len(t)
<1>1. /\ t \in Seq(Changes) /\ Head(w) = w[1] /\ n \in Nat
      /\ Len(w) = n + 1 /\ \A i \in 1..n : t[i] = w[i + 1]
  BY Taken
<1>. HIDE DEF t, n
<1>2. Len(t) = n /\ 1 \in 1..Len(w) /\ \A i \in 1..n : i + 1 \in 1..Len(w)
  BY <1>1 DEF n
<1>3. Head(w).revision <= v /\ r.revision <= v
  BY <1>1, <1>2 DEF Older
<1>4. \A i \in 1..n : t[i].revision <= v
  BY <1>1, <1>2 DEF Older
<1>5. Older(t, q, v)
  BY <1>2, <1>3, <1>4 DEF Older
<1>. QED BY <1>5 DEF t

\* The change at the head has been written: the row has its status, or nothing that
\* matters has changed.
LEMMA TakeHeard ==
  ASSUME NEW w \in Seq(Changes), w # <<>>, NEW t, t = Tail(w), NEW e, e = Head(w), NEW r, NEW q,
         r \in [status : Statuses, revision : Nat], q \in [status : Statuses, revision : Nat],
         r.status \in Over => q.status \in Over,
         \A v \in Nat : r.revision <= v /\ e.revision <= v => q.revision <= v,
         e.op # "event" /\ r.status \in Still => q.status \in Still,
         e.op = "event" => \/ q.status = e.status
                           \/ q.status = r.status /\ (e.revision < r.revision \/ r.status \in Over)
  PROVE  /\ t \in Seq(Changes)
         /\ HeardEnd(w, r) => HeardEnd(t, q)
         /\ Heard(w, r) => Heard(t, q)
<1>. DEFINE n == Len(t)
<1>1. /\ t \in Seq(Changes) /\ e \in Changes /\ e = w[1] /\ n \in Nat
      /\ Len(w) = n + 1 /\ \A i \in 1..n : t[i] = w[i + 1]
  BY Taken
<1>. HIDE DEF n
<1>2. Len(t) = n /\ 1 \in 1..Len(w) /\ \A i \in 1..n : i + 1 \in 1..Len(w)
  BY <1>1 DEF n
<1>4. \A i \in 1..Len(w) : i = 1 \/ (i - 1 \in 1..n /\ t[i - 1] = w[i])
  BY <1>1, <1>2
<1>5. \A i \in 1..n : \A statuses : Decides(w, r, i + 1, statuses) => Decides(t, q, i, statuses)
  <2>. SUFFICES ASSUME NEW i \in 1..n, NEW statuses, Decides(w, r, i + 1, statuses)
                PROVE  Decides(t, q, i, statuses)
    OBVIOUS
  <2>1. t[i] = w[i + 1] /\ t[i].op = "event" /\ t[i].status \in statuses /\ r.revision <= t[i].revision
        /\ t[i] \in Changes
    BY <1>1, <1>2 DEF Decides
  <2>2. 1 \in 1..(i + 1) /\ \A k \in 1..i : k \in 1..n /\ k + 1 \in 1..(i + 1)
    BY <1>1
  <2>3. e.revision <= t[i].revision /\ \A k \in 1..i : t[k].revision <= t[i].revision
    BY <1>1, <2>1, <2>2 DEF Decides
  <2>4. t[i].revision \in Nat
    BY <2>1 DEF Changes
  <2>. QED BY <2>1, <2>3, <2>4 DEF Decides
<1>6. \A i \in 1..n : Quiet(w, i + 1) => Quiet(t, i)
  BY <1>1, <1>2 DEF Quiet
<1>7. Quiet(w, 1) => Quiet(t, 1)
  BY <1>1, <1>2 DEF Quiet
<1>8. Over \subseteq Still /\ \A statuses : Decides(w, r, 1, statuses) => e.op = "event" /\ e.status \in statuses
                                                                     /\ r.revision <= e.revision
  BY <1>1 DEF Decides, Over, Still
<1>9. e.revision \in Nat /\ r.revision \in Nat
  BY <1>1 DEF Changes
<1>10. HeardEnd(w, r) => HeardEnd(t, q)
  <2>1. CASE r.status \in Over
    BY <2>1 DEF HeardEnd
  <2>2. CASE Decides(w, r, 1, Over)
    BY <1>8, <1>9, <2>2 DEF HeardEnd
  <2>3. ASSUME NEW i \in 1..Len(w), i # 1, Decides(w, r, i, Over) PROVE HeardEnd(t, q)
    <3>1. i - 1 \in 1..n /\ (i - 1) + 1 = i
      BY <1>4, <2>3
    <3>2. Decides(t, q, i - 1, Over)
      BY <1>5, <2>3, <3>1
    <3>. QED BY <1>2, <3>1, <3>2 DEF HeardEnd
  <2>. QED BY <2>1, <2>2, <2>3 DEF HeardEnd
<1>11. Heard(w, r) => Heard(t, q)
  <2>1. CASE r.status \in Over
    BY <2>1 DEF Heard
  <2>2. CASE r.status \in Still /\ Quiet(w, 1)
    <3>1. e.op = "event" => e.status \in Still
      BY <1>1, <1>2, <2>2 DEF Quiet
    <3>. QED BY <1>7, <2>2, <3>1 DEF Heard
  <2>3. CASE Decides(w, r, 1, Still) /\ Quiet(w, 1)
    <3>1. q.status \in Still
      BY <1>8, <1>9, <2>3
    <3>. QED BY <1>7, <2>3, <3>1 DEF Heard
  <2>4. ASSUME NEW i \in 1..Len(w), i # 1, Decides(w, r, i, Still), Quiet(w, i) PROVE Heard(t, q)
    <3>1. i - 1 \in 1..n /\ (i - 1) + 1 = i
      BY <1>4, <2>4
    <3>2. Decides(t, q, i - 1, Still) /\ Quiet(t, i - 1)
      BY <1>5, <1>6, <2>4, <3>1
    <3>. QED BY <1>2, <3>1, <3>2 DEF Heard
  <2>. QED BY <2>1, <2>2, <2>3, <2>4 DEF Heard
<1>. QED BY <1>1, <1>10, <1>11

-----------------------------------------------------------------------------
(* Revisions. *)

Bounds == Bounded /\ Deletes /\ LastComes

JobsBounded == \A k \in Jobs : job[k].revision <= agent.revision

\* At most one change is added.
Adds(e) == writes' = Append(writes, e) /\ e.revision <= agent'.revision
                                       /\ IF e.op = "delete" THEN past'.deleted ELSE e.status # "none"

LEMMA BoundsKeep ==
  ASSUME Typed, Typed', Bounds, agent.revision <= agent'.revision,
         LastComes', UNCHANGED row, past.deleted => past'.deleted,
         \A i \in 1..Len(starts') : starts'[i] <= agent'.revision,
         writes' = writes \/ \E e \in Changes : Adds(e),
         native'.revision <= agent'.revision, control'.revision <= agent'.revision, JobsBounded'
  PROVE  Bounds'
<1>1. agent.revision \in Nat /\ agent'.revision \in Nat /\ row.revision \in Nat /\ writes \in Seq(Changes)
  BY DEF Typed, AgentTyped, RowTyped, QueueTyped
<1>2. Older(writes, row, agent'.revision)
  <2>1. \A i \in 1..Len(writes) : writes[i] \in Changes
    BY <1>1
  <2>. QED BY <1>1, <2>1 DEF Bounds, Bounded, Older, Changes
<1>3. CASE writes' = writes
  <2>1. Bounded'
    BY <1>2, <1>3 DEF Bounded, Older, JobsBounded
  <2>2. Deletes'
    BY <1>3 DEF Bounds, Deletes
  <2>. QED BY <2>1, <2>2 DEF Bounds
<1>4. ASSUME NEW e \in Changes, Adds(e) PROVE Bounds'
  <2>1. /\ writes' \in Seq(Changes) /\ Len(writes) \in Nat /\ Len(writes') = Len(writes) + 1
        /\ writes'[Len(writes) + 1] = e /\ \A i \in 1..Len(writes) : writes'[i] = writes[i]
    BY <1>1, <1>4, Appended DEF Adds
  <2>2. Older(writes', row, agent'.revision)
    BY <1>1, <1>2, <1>4, AppendOlder DEF Adds
  <2>3. Bounded'
    BY <2>2 DEF Bounded, Older, JobsBounded
  <2>4. Deletes'
    BY <1>4, <2>1 DEF Adds, Bounds, Deletes
  <2>. QED BY <2>3, <2>4 DEF Bounds
<1>. QED BY <1>3, <1>4

\* The same for the steps that leave the Agent alone.
LEMMA BoundsRest ==
  ASSUME Typed, Typed', Bounds, UNCHANGED <<agent, row>>, past.deleted => past'.deleted,
         starts' = starts \/ starts' = <<>>,
         writes' = writes \/ \E e \in Changes : Adds(e),
         native'.revision <= agent.revision, control'.revision <= agent.revision,
         \A k \in Jobs : job'[k].revision <= agent.revision
  PROVE  Bounds'
<1>1. agent.revision \in Nat
  BY DEF Typed, AgentTyped
<1>2. \A i \in 1..Len(starts') : starts'[i] <= agent'.revision
  BY DEF Bounds, Bounded
<1>3. LastComes' /\ JobsBounded'
  BY DEF Bounds, LastComes, JobsBounded
<1>. QED BY <1>1, <1>2, <1>3, BoundsKeep

LEMMA EndedBounded ==
  ASSUME IInv, Bounds, NEW j \in Jobs, Ended(j) PROVE \A k \in Jobs : job'[k].revision <= agent.revision
<1>1. agent.revision \in Nat /\ Idle.revision = 0
  BY DEF IInv, Typed, AgentTyped, Idle
<1>. QED BY <1>1 DEF Bounds, Bounded, Ended

LEMMA OfferBounds == ASSUME IInv, IInv', Bounds, Offer PROVE Bounds'
<1>. DEFINE e == [op |-> "offer", status |-> "transferring", revision |-> agent'.revision]
<1>1. /\ agent.revision \in Nat /\ agent'.revision \in Nat /\ agent.revision <= agent'.revision
      /\ agent'.acknowledged = agent.acknowledged
      /\ e \in Changes /\ writes' = Append(writes, e)
      /\ UNCHANGED <<native, job, starts, row, control, past>>
  BY OfferIs DEF IInv, Typed, AgentTyped
<1>2. Adds(e)
  BY <1>1 DEF Adds
<1>3. LastComes'
  BY <1>1 DEF Bounds, LastComes
<1>4. \A n \in Nat : n <= agent.revision => n <= agent'.revision
  BY <1>1
<1>5. /\ native'.revision <= agent'.revision /\ control'.revision <= agent'.revision /\ JobsBounded'
      /\ \A i \in 1..Len(starts') : starts'[i] <= agent'.revision
  BY <1>1, <1>4 DEF IInv, Typed, NativeTyped, ControlTyped, JobTyped, QueueTyped, Bounds, Bounded, JobsBounded
<1>. QED BY <1>1, <1>2, <1>3, <1>5, BoundsKeep DEF IInv

\* What the row is after the change at the head of the queue.
LEMMA WrittenIs ==
  ASSUME IInv, SaveOffer \/ ApplyEvent
  PROVE  /\ writes # <<>> /\ writes' = Tail(writes) /\ Head(writes) \in Changes
         /\ row \in [status : Statuses, revision : Nat] /\ row' \in [status : Statuses, revision : Nat]
         /\ row.status \in Over => row'.status \in Over
         /\ \A v \in Nat : row.revision <= v /\ Head(writes).revision <= v => row'.revision <= v
         /\ Head(writes).op # "event" /\ row.status \in Still => row'.status \in Still
         /\ row.status # "none" /\ Head(writes).op = "event" =>
              \/ row'.status = Head(writes).status
              \/ row'.status = row.status /\ (Head(writes).revision < row.revision \/ row.status \in Over)
         /\ row.status # "none" => row'.status # "none" \/ Head(writes).status = "none"
<1>. DEFINE e == Head(writes)
<1>1. writes # <<>> /\ writes' = Tail(writes)
  BY DEF SaveOffer, ApplyEvent, NextWrite
<1>2. e \in Changes /\ e.revision \in Nat
  BY <1>1, WritesTail DEF IInv, Typed, Changes
<1>3. row \in [status : Statuses, revision : Nat] /\ row.revision \in Nat
  BY DEF IInv, Typed, RowTyped
<1>4. CASE SaveOffer
  <2>1. /\ e.op = "offer" /\ RowTyped'
        /\ row.status \notin {"none", "completed", "cancelled"} =>
             row'.status = row.status /\ row'.revision = Larger(row.revision, e.revision)
        /\ row.status \in {"completed", "cancelled"} => row' = row
        /\ row.status = "none" => row' = [status |-> "transferring", revision |-> e.revision]
    BY <1>4, SaveOfferIs DEF IInv
  <2>2. Larger(row.revision, e.revision) \in {row.revision, e.revision}
    BY <1>2, <1>3, LargerIs
  <2>3. \A v \in Nat : row.revision <= v /\ e.revision <= v => row'.revision <= v
    BY <2>1, <2>2
  <2>. HIDE DEF e
  <2>. QED BY <1>1, <1>2, <1>3, <2>1, <2>3 DEF e, RowTyped, Over, Still
<1>5. CASE ApplyEvent
  <2>1. /\ e.op = "event"
        /\ row' = IF row.status = "none" \/ e.revision < row.revision \/ (Terminal(row.status) /\ e.status # row.status)
                    THEN row ELSE [status |-> e.status, revision |-> e.revision]
    BY <1>5 DEF ApplyEvent, NextWrite
  <2>. HIDE DEF e
  <2>2. Terminal(row.status) <=> row.status \in Over
    BY DEF Terminal, Over
  <2>3. row' \in [status : Statuses, revision : Nat]
    BY <1>2, <1>3, <2>1 DEF Changes
  <2>4. \A v \in Nat : row.revision <= v /\ e.revision <= v => row'.revision <= v
    BY <2>1
  <2>5. row.status \in Over => row'.status \in Over
    BY <2>1, <2>2
  <2>6. row.status # "none" => \/ row'.status = e.status
                               \/ row'.status = row.status /\ (e.revision < row.revision \/ row.status \in Over)
    BY <2>1, <2>2
  <2>. QED BY <1>1, <1>2, <1>3, <2>1, <2>3, <2>4, <2>5, <2>6 DEF e
<1>. QED BY <1>4, <1>5

LEMMA WriteBounds == ASSUME IInv, IInv', Bounds, Write PROVE Bounds'
<1>1. /\ writes # <<>> /\ writes' = Tail(writes) /\ UNCHANGED <<agent, native, job, control, past>>
      /\ starts' = starts \/ starts' = Append(starts, Head(writes).revision)
      /\ row.revision <= agent.revision /\ Head(writes).revision <= agent.revision =>
           row'.revision <= agent.revision
  <2>1. CASE SaveOffer \/ ApplyEvent
    <3>1. starts' = starts \/ starts' = Append(starts, Head(writes).revision)
      BY <2>1, SaveOfferIs DEF ApplyEvent, IInv
    <3>. QED BY <2>1, <3>1, WrittenIs DEF SaveOffer, ApplyEvent, NextWrite, IInv, Typed, AgentTyped
  <2>2. CASE DeleteRow
    BY <2>2 DEF DeleteRow, NextWrite, NoRecord, IInv, Typed, AgentTyped
  <2>. QED BY <2>1, <2>2 DEF Write
<1>2. agent.revision \in Nat /\ writes \in Seq(Changes) /\ starts \in Seq(Nat) /\ starts' \in Seq(Nat)
  BY DEF IInv, Typed, AgentTyped, QueueTyped
<1>3. Older(writes', row', agent.revision)
  BY <1>1, <1>2, TakeOlder DEF Bounds, Bounded
<1>4. /\ Head(writes) = writes[1] /\ Len(writes) \in Nat \ {0} /\ Len(writes') = Len(writes) - 1
      /\ \A i \in 1..Len(writes') : writes'[i] = writes[i + 1]
      /\ Head(writes).revision \in Nat
  <2>1. /\ Head(writes) = writes[1] /\ Len(writes) \in Nat \ {0} /\ Len(writes') = Len(writes) - 1
        /\ \A i \in 1..Len(writes') : writes'[i] = writes[i + 1]
        /\ Head(writes) \in Changes
    BY <1>1, <1>2, Taken
  <2>. QED BY <2>1 DEF Changes
<1>5. Deletes'
  <2>1. \A i \in 1..Len(writes') : i + 1 \in 1..Len(writes)
    BY <1>4
  <2>. QED BY <1>1, <1>4, <2>1 DEF Bounds, Deletes
<1>6. \A i \in 1..Len(starts') : starts'[i] <= agent.revision
  <2>1. CASE starts' = starts
    BY <2>1 DEF Bounds, Bounded
  <2>2. CASE starts' = Append(starts, Head(writes).revision)
    <3>1. Head(writes).revision <= agent.revision
      BY <1>4 DEF Bounds, Bounded, Older
    <3>2. /\ Len(starts) \in Nat /\ Len(starts') = Len(starts) + 1
          /\ starts'[Len(starts) + 1] = Head(writes).revision
          /\ \A i \in 1..Len(starts) : starts'[i] = starts[i]
      BY <1>2, <1>4, <2>2, Appended
    <3>. QED BY <3>1, <3>2 DEF Bounds, Bounded
  <2>. QED BY <1>1, <2>1, <2>2
<1>7. Bounded'
  BY <1>1, <1>3, <1>6 DEF Bounds, Bounded, Older
<1>. QED BY <1>1, <1>5, <1>7 DEF Bounds, LastComes

LEMMA StartBounds == ASSUME IInv, IInv', Bounds, NEW j \in Jobs, Start(j) PROVE Bounds'
<1>0. agent.revision \in Nat /\ starts \in Seq(Nat)
  BY DEF IInv, Typed, AgentTyped, QueueTyped
<1>1. starts # <<>> /\ starts' = Tail(starts) /\ UNCHANGED <<agent, row, control, used>>
  BY DEF Start
<1>2. /\ Head(starts) = starts[1] /\ Len(starts) \in Nat \ {0} /\ Len(starts') = Len(starts) - 1
      /\ \A i \in 1..Len(starts') : starts'[i] = starts[i + 1]
  BY <1>0, <1>1, Taken
<1>3. Head(starts) <= agent.revision /\ \A i \in 1..Len(starts') : starts'[i] <= agent.revision
  <2>1. 1 \in 1..Len(starts) /\ \A i \in 1..Len(starts') : i + 1 \in 1..Len(starts)
    BY <1>2
  <2>. QED BY <1>2, <2>1 DEF Bounds, Bounded
<1>4. LastComes'
  BY <1>1 DEF Bounds, LastComes
<1>5. CASE native.status # "none"
  <2>1. UNCHANGED <<native, job, writes, past>>
    BY <1>5 DEF Start
  <2>2. native'.revision <= agent'.revision /\ control'.revision <= agent'.revision /\ JobsBounded'
    BY <1>1, <2>1 DEF Bounds, Bounded, JobsBounded
  <2>. QED BY <1>0, <1>1, <1>3, <1>4, <2>1, <2>2, BoundsKeep DEF IInv
<1>6. CASE native.status = "none"
  <2>. DEFINE e == [op |-> "event", status |-> "transferring", revision |-> Head(starts)]
  <2>1. /\ native'.revision = Head(starts) /\ Launch(j) /\ e \in Changes /\ writes' = Append(writes, e)
    BY <1>6, StartIs DEF IInv
  <2>2. /\ job'[j].revision = 0 /\ \A k \in Jobs : k # j => job'[k] = job[k]
        /\ past'.deleted = past.deleted
    BY <2>1, LaunchIs DEF IInv, Typed
  <2>3. native'.revision <= agent'.revision /\ control'.revision <= agent'.revision /\ JobsBounded'
    BY <1>0, <1>1, <1>3, <2>1, <2>2 DEF Bounds, Bounded, JobsBounded
  <2>4. Adds(e)
    BY <1>1, <1>3, <2>1 DEF Adds
  <2>. QED BY <1>0, <1>1, <1>3, <1>4, <2>1, <2>2, <2>3, <2>4, BoundsKeep DEF IInv
<1>. QED BY <1>5, <1>6

\* The steps of a coroutine that add nothing to the queue.
LEMMA QuietBounds ==
  ASSUME IInv, IInv', Bounds, UNCHANGED <<agent, row, writes, starts, native, control>>,
         past.deleted => past'.deleted,
         \A k \in Jobs : job'[k].revision = job[k].revision \/ job'[k].revision = 0
  PROVE  Bounds'
<1>1. agent.revision \in Nat
  BY DEF IInv, Typed, AgentTyped
<1>2. \A k \in Jobs : job'[k].revision <= agent.revision
  BY <1>1 DEF Bounds, Bounded
<1>3. native'.revision <= agent.revision /\ control'.revision <= agent.revision
  BY DEF Bounds, Bounded
<1>. QED BY <1>2, <1>3, BoundsRest DEF IInv

LEMMA EndsQuiet ==
  ASSUME IInv, NEW j \in Jobs, Ends(j)
  PROVE  \A k \in Jobs : job'[k].revision = job[k].revision \/ job'[k].revision = 0
<1>1. Ended(j) /\ Idle.revision = 0
  BY EndsIs DEF IInv, Typed, Idle
<1>. QED BY <1>1 DEF Ended

LEMMA FailsBounds ==
  ASSUME IInv, IInv', Bounds, NEW j \in Jobs, Fails(j), UNCHANGED agent, past'.deleted = past.deleted
  PROVE  Bounds'
<1>. DEFINE e == [op |-> "event", status |-> "failed", revision |-> FailedAt(j)]
<1>1. /\ native'.revision = native.revision /\ e \in Changes /\ writes' = Append(writes, e)
      /\ Ended(j) /\ UNCHANGED <<starts, row, control>>
  BY FailsIs DEF IInv
<1>2. FailedAt(j) <= agent.revision
  BY DEF FailedAt, Bounds, Bounded
<1>3. Adds(e)
  BY <1>1, <1>2 DEF Adds
<1>4. \A k \in Jobs : job'[k].revision <= agent.revision
  BY <1>1, EndedBounded
<1>5. native'.revision <= agent.revision /\ control'.revision <= agent.revision
  BY <1>1 DEF Bounds, Bounded
<1>. QED BY <1>1, <1>3, <1>4, <1>5, BoundsRest DEF IInv

LEMMA RequestFailsBounds ==
  ASSUME IInv, IInv', Bounds, NEW j \in Jobs, RequestFails(j) \/ NotRepeated(j), UNCHANGED agent
  PROVE  Bounds'
<1>1. CASE RequestFails(j)
  <2>1. Fails(j) /\ past'.deleted = past.deleted
    BY <1>1, LateIs DEF RequestFails, IInv, Typed
  <2>. QED BY <2>1, FailsBounds
<1>2. CASE NotRepeated(j)
  BY <1>2, EndsQuiet, QuietBounds DEF NotRepeated
<1>. QED BY <1>1, <1>2

LEMMA AgentAcknowledgesBounds ==
  ASSUME IInv, IInv', Bounds, NEW j \in Jobs, AgentAcknowledges(j) PROVE Bounds'
<1>1. /\ job[j].step = "ack"
      /\ agent'.acknowledged = agent.acknowledged \cup {job[j].chunk}
      /\ agent'.revision = agent.revision \/ agent'.revision = agent.revision + 1
      /\ job'[j].revision = agent'.revision /\ \A k \in Jobs : k # j => job'[k] = job[k]
      /\ UNCHANGED <<native, file, writes, starts, row, control, past, used>>
  BY AckIs DEF IInv
<1>2. agent.revision \in Nat /\ agent'.revision \in Nat /\ agent.revision <= agent'.revision
  BY <1>1 DEF IInv, Typed, AgentTyped
<1>3. LastComes'
  <2>1. CASE LastChunk \in agent.acknowledged
    BY <1>1, <2>1 DEF Bounds, LastComes, IInv, Typed, AgentTyped, JobTyped
  <2>2. CASE job[j].chunk = LastChunk
    <3>1. 1..(LastChunk - 1) \subseteq agent.acknowledged
      BY <1>1, <2>2 DEF IInv, Acks, Reached
    <3>2. All = 1..(LastChunk - 1) \cup {LastChunk}
      BY Numbers DEF All
    <3>3. agent'.acknowledged \subseteq All
      BY DEF IInv, Typed, AgentTyped
    <3>. QED BY <1>1, <2>2, <3>1, <3>2, <3>3 DEF LastComes
  <2>. QED BY <1>1, <2>1, <2>2 DEF LastComes
<1>4. \A n \in Nat : n <= agent.revision => n <= agent'.revision
  BY <1>2
<1>5. /\ native'.revision <= agent'.revision /\ control'.revision <= agent'.revision /\ JobsBounded'
      /\ \A i \in 1..Len(starts') : starts'[i] <= agent'.revision
  <2>1. /\ native.revision \in Nat /\ control.revision \in Nat /\ \A k \in Jobs : job[k].revision \in Nat
        /\ \A i \in 1..Len(starts) : starts[i] \in Nat
    BY DEF IInv, Typed, NativeTyped, ControlTyped, JobTyped, QueueTyped
  <2>2. JobsBounded'
    BY <1>1, <1>2, <1>4, <2>1 DEF Bounds, Bounded, JobsBounded
  <2>. QED BY <1>1, <1>4, <2>1, <2>2 DEF Bounds, Bounded
<1>. QED BY <1>1, <1>2, <1>3, <1>5, BoundsKeep DEF IInv

LEMMA AckedBounded == ASSUME Typed, Bounds, NEW j \in Jobs PROVE AckedAt(j) <= agent.revision
BY LargerIs DEF AckedAt, Bounds, Bounded, Typed, NativeTyped, JobTyped

LEMMA AcknowledgedBounds ==
  ASSUME IInv, IInv', Bounds, NEW j \in Jobs, Acknowledged(j) PROVE Bounds'
<1>. DEFINE a == Says(native.status, AckedAt(j))
            b == Says("completed", AckedAt(j))
<1>1. /\ UNCHANGED <<agent, file, starts, row, control, past, used>> /\ agent.revision \in Nat
      /\ AckedAt(j) \in Nat /\ AckedAt(j) <= agent.revision
  BY AcknowledgedIs, AckedBounded DEF IInv, Typed, AgentTyped
<1>2. /\ a \in Changes /\ a.op = "event" /\ a.revision = AckedAt(j) /\ a.status = native.status
      /\ b \in Changes /\ b.op = "event" /\ b.revision = AckedAt(j) /\ b.status = "completed"
  BY <1>1, SaysIs DEF IInv, Typed, NativeTyped, NativeStatuses, Statuses
<1>3. native'.revision <= agent.revision /\ native.revision <= agent.revision /\ control'.revision <= agent.revision
  <2>1. native.revision <= agent.revision /\ control'.revision <= agent.revision
    BY <1>1 DEF Bounds, Bounded
  <2>2. native'.revision \in {native.revision, AckedAt(j)}
    BY AcknowledgedIs DEF IInv
  <2>. QED BY <1>1, <2>1, <2>2
<1>4. \A k \in Jobs : job'[k].revision <= agent.revision
  <2>1. CASE job[j].link = "job" /\ job[j].chunk # LastChunk
    <3>1. job' = [job EXCEPT ![j] = [Idle EXCEPT !.step = "fetch", !.chunk = job[j].chunk + 1]]
      BY <2>1 DEF Acknowledged
    <3>2. [Idle EXCEPT !.step = "fetch", !.chunk = job[j].chunk + 1].revision = 0
      BY DEF Idle
    <3>3. \A k \in Jobs : job'[k].revision = 0 \/ job'[k] = job[k]
      BY <3>1, <3>2 DEF IInv, Typed, JobTyped
    <3>. QED BY <1>1, <3>3 DEF Bounds, Bounded
  <2>2. CASE job[j].link # "job" \/ job[j].chunk = LastChunk
    BY <2>2, AcknowledgedIs, EndsIs, EndedBounded DEF IInv, Typed
  <2>. QED BY <2>1, <2>2
<1>. HIDE DEF a, b
<1>5. CASE job[j].link # "job"
  BY <1>1, <1>3, <1>4, <1>5, AcknowledgedIs, BoundsRest DEF IInv
<1>6. CASE job[j].link = "job" /\ job[j].chunk # LastChunk
  <2>0. native.status # "none"
    BY <1>6, AcknowledgedIs DEF IInv, Orphans
  <2>1. writes' = Append(writes, a)
    BY <1>6, AcknowledgedIs DEF IInv, a
  <2>2. Adds(a)
    BY <1>1, <1>2, <2>0, <2>1 DEF Adds
  <2>. QED BY <1>1, <1>2, <1>3, <1>4, <2>2, BoundsRest DEF IInv
<1>7. CASE job[j].link = "job" /\ job[j].chunk = LastChunk
  <2>. DEFINE s == Append(writes, a)
  <2>1. writes' = Append(s, b)
    BY <1>7, AcknowledgedIs DEF IInv, a, b
  <2>2. writes \in Seq(Changes) /\ Older(writes, row, agent.revision)
    BY DEF IInv, Typed, QueueTyped, Bounds, Bounded
  <2>3. s \in Seq(Changes) /\ Older(s, row, agent.revision)
    BY <1>1, <1>2, <2>2, AppendOlder, AppendProperties
  <2>4. \A i \in 1..Len(s) : IF s[i].op = "delete" THEN past.deleted ELSE s[i].status # "none"
    <3>1. /\ Len(writes) \in Nat /\ Len(s) = Len(writes) + 1
          /\ s[Len(writes) + 1] = a /\ \A i \in 1..Len(writes) : s[i] = writes[i]
      BY <1>2, <2>2, Appended
    <3>2. \A i \in 1..Len(s) : i \in 1..Len(writes) \/ i = Len(writes) + 1
      BY <3>1
    <3>3. native.status # "none"
      BY <1>7, AcknowledgedIs DEF IInv, Orphans
    <3>. QED BY <1>2, <3>1, <3>2, <3>3 DEF Bounds, Deletes
  <2>. HIDE DEF s
  <2>5. Older(writes', row, agent.revision)
    BY <1>1, <1>2, <2>1, <2>3, AppendOlder
  <2>6. Deletes'
    <3>1. /\ Len(s) \in Nat /\ Len(writes') = Len(s) + 1
          /\ writes'[Len(s) + 1] = b /\ \A i \in 1..Len(s) : writes'[i] = s[i]
      BY <1>2, <2>1, <2>3, Appended
    <3>2. \A i \in 1..Len(writes') : i \in 1..Len(s) \/ i = Len(s) + 1
      BY <3>1
    <3>. QED BY <1>1, <1>2, <2>4, <3>1, <3>2 DEF Deletes
  <2>7. Bounded'
    BY <1>1, <1>3, <1>4, <2>5 DEF Bounds, Bounded, Older
  <2>. QED BY <1>1, <2>6, <2>7 DEF Bounds, LastComes
<1>. QED BY <1>5, <1>6, <1>7

LEMMA DownloadBounds == ASSUME IInv, IInv', Bounds, NEW j \in Jobs, Download(j) PROVE Bounds'
<1>1. CASE Fetched(j) \/ Published(j)
  <2>1. UNCHANGED <<agent, native, writes, starts, row, control>> /\ past'.deleted = past.deleted
    BY <1>1 DEF Fetched, Published, IInv, Typed, PastTyped
  <2>2. \A k \in Jobs : job'[k].revision = job[k].revision \/ job'[k].revision = 0
    <3>1. CASE job[j].link # "job"
      BY <1>1, <3>1, EndsQuiet DEF Fetched, Published
    <3>2. CASE job[j].link = "job"
      <4>1. PICK s \in {"root", "ack"} : job' = [job EXCEPT ![j].step = s]
        BY <1>1, <3>2 DEF Fetched, Published
      <4>2. job[j].step # "idle"
        BY <1>1 DEF Fetched, Published
      <4>. QED BY <4>1, <4>2, StepIs DEF IInv, Typed, Steps
    <3>. QED BY <3>1, <3>2
  <2>. QED BY <2>1, <2>2, QuietBounds
<1>2. CASE FetchFails(j) \/ AckFails(j)
  BY <1>2, RequestFailsBounds DEF FetchFails, AckFails
<1>3. CASE RootDiffers(j)
  BY <1>3, FailsBounds DEF RootDiffers
<1>. QED BY <1>1, <1>2, <1>3, AgentAcknowledgesBounds, AcknowledgedBounds DEF Download

LEMMA ControlledBounded ==
  ASSUME Typed, Bounds PROVE ControlledAt \in Nat /\ ControlledAt <= agent.revision
BY LargerIs DEF ControlledAt, Bounds, Bounded, Typed, NativeTyped, ControlTyped

\* A control's step that adds an event of the record.
LEMMA SaidBounds ==
  ASSUME IInv, IInv', Bounds, UNCHANGED <<agent, row, starts>>, past.deleted => past'.deleted,
         NEW status, status # "none", NEW n \in Nat, n <= agent.revision, Says(status, n) \in Changes,
         writes' = Append(writes, Says(status, n)),
         native'.revision <= agent.revision, control'.revision <= agent.revision,
         \A k \in Jobs : job'[k].revision <= agent.revision
  PROVE  Bounds'
<1>. DEFINE e == Says(status, n)
<1>1. e.revision = n /\ e.op = "event" /\ e.status # "none" /\ e \in Changes /\ writes' = Append(writes, e)
  BY DEF Says
<1>. HIDE DEF e
<1>2. Adds(e)
  BY <1>1 DEF Adds
<1>. QED BY <1>1, <1>2, BoundsRest DEF IInv

LEMMA ControlBounds == ASSUME IInv, IInv', Bounds, Control \/ Presses PROVE Bounds'
<1>0. /\ agent.revision \in Nat /\ agent'.revision \in Nat /\ 0 <= agent.revision
      /\ native.revision <= agent.revision /\ control.revision <= agent.revision
      /\ \A k \in Jobs : job[k].revision <= agent.revision
  BY DEF IInv, Typed, AgentTyped, Bounds, Bounded
<1>1. NoControl.revision = 0 /\ NoRecord.revision = 0 /\ NoFiles.final = FALSE
  BY DEF NoControl, NoRecord, NoFiles
<1>2. CASE Presses
  <2>1. UNCHANGED <<agent, row, writes, starts, native, past>>
    BY <1>2 DEF Presses, PressPause, PressResume, PressCancel, PressDelete
  <2>2. control'.revision <= agent.revision
    <3>1. \A op : Posts(op) => control'.revision = 0
      BY DEF Posts, NoControl
    <3>2. control' = [NoControl EXCEPT !.op = "delete", !.step = "files"] => control'.revision = 0
      BY DEF NoControl
    <3>. QED BY <1>0, <1>2, <3>1, <3>2 DEF Presses, PressPause, PressResume, PressCancel, PressDelete
  <2>3. \A k \in Jobs : job'[k].revision = job[k].revision
    <3>1. job' = job \/ job' = JobCancelled
      BY <1>2 DEF Presses, PressPause, PressResume, PressCancel, PressDelete
    <3>. QED BY <3>1, JobCancelledIs DEF IInv, Typed
  <2>. QED BY <1>0, <2>1, <2>2, <2>3, BoundsRest DEF IInv
<1>3. CASE AgentControls
  <2>1. /\ agent.revision <= agent'.revision /\ agent'.acknowledged = agent.acknowledged
        /\ control'.revision = agent'.revision
        /\ UNCHANGED <<native, job, file, writes, starts, row, past, used>>
    BY <1>0, <1>3, AgentControlsIs DEF IInv
  <2>2. \A n \in Nat : n <= agent.revision => n <= agent'.revision
    BY <1>0, <2>1
  <2>3. /\ native.revision \in Nat /\ \A k \in Jobs : job[k].revision \in Nat
        /\ \A i \in 1..Len(starts) : starts[i] \in Nat
    BY DEF IInv, Typed, NativeTyped, JobTyped, QueueTyped
  <2>4. JobsBounded'
    BY <1>0, <2>1, <2>2, <2>3 DEF JobsBounded
  <2>5. \A i \in 1..Len(starts') : starts'[i] <= agent'.revision
    BY <2>1, <2>2, <2>3 DEF Bounds, Bounded
  <2>6. LastComes'
    BY <2>1 DEF Bounds, LastComes
  <2>7. native'.revision <= agent'.revision /\ control'.revision <= agent'.revision
    BY <1>0, <2>1, <2>2, <2>3
  <2>. QED BY <2>1, <2>4, <2>5, <2>6, <2>7, BoundsKeep DEF IInv
<1>4. CASE ControlLost
  <2>1. UNCHANGED <<agent, row, writes, starts, native, past, job>> /\ control'.revision = control.revision
    BY <1>4 DEF ControlLost, IInv, Typed, ControlTyped
  <2>. QED BY <1>0, <2>1, BoundsRest DEF IInv
<1>5. ASSUME NEW j \in Jobs, Controlled(j) PROVE Bounds'
  <2>1. /\ control' = NoControl /\ native' = [status |-> Target, revision |-> ControlledAt]
        /\ Target # "none"
        /\ Says(Target, ControlledAt) \in Changes /\ writes' = Append(writes, Says(Target, ControlledAt))
        /\ control.op = "pause" => UNCHANGED <<job, file, past>>
        /\ control.op = "resume" => Launch(j)
        /\ control.op \in {"pause", "resume"}
        /\ UNCHANGED <<agent, starts, row, used>>
    BY <1>5, ControlledIs DEF IInv
  <2>2. (\A k \in Jobs : job'[k].revision <= agent.revision) /\ past'.deleted = past.deleted
    <3>1. CASE control.op = "pause"
      BY <1>0, <2>1, <3>1
    <3>2. CASE control.op = "resume"
      <4>1. job'[j].revision = 0 /\ (\A k \in Jobs : k # j => job'[k] = job[k]) /\ past'.deleted = past.deleted
        BY <2>1, <3>2, LaunchIs DEF IInv, Typed
      <4>. QED BY <1>0, <4>1
    <3>. QED BY <2>1, <3>1, <3>2
  <2>3. ControlledAt \in Nat /\ ControlledAt <= agent.revision
    BY ControlledBounded DEF IInv
  <2>. QED BY <1>0, <1>1, <2>1, <2>2, <2>3, SaidBounds
<1>6. CASE Cancelled
  <2>1. /\ native' = NoRecord /\ job' = RecordRemoved(ControlledAt) /\ Says("cancelled", ControlledAt) \in Changes
        /\ writes' = Append(writes, Says("cancelled", ControlledAt))
        /\ UNCHANGED <<agent, starts, row, past, used>>
    BY <1>6, CancelledIs DEF IInv
  <2>2. ControlledAt \in Nat /\ ControlledAt <= agent.revision
    BY ControlledBounded DEF IInv
  <2>3. \A k \in Jobs : job'[k].revision \in {job[k].revision, ControlledAt}
    BY <2>1, <2>2, RecordRemovedIs DEF IInv, Typed
  <2>4. control'.revision \in {0, control.revision}
    BY <1>6 DEF Cancelled, NoControl, IInv, Typed, ControlTyped
  <2>. QED BY <1>0, <1>1, <2>1, <2>2, <2>3, <2>4, SaidBounds
<1>7. CASE ControlFails
  <2>1. /\ control' = NoControl /\ UNCHANGED <<agent, job, file, starts, row, past, used>>
        /\ control.op = "resume" => UNCHANGED <<native, writes>>
        /\ control.op # "resume" => /\ native'.revision = native.revision
                                    /\ writes' = Append(writes, Says("failed", native.revision))
        /\ Says("failed", native.revision) \in Changes /\ native.revision \in Nat
    BY <1>7, ControlFailsIs DEF IInv, Typed, NativeTyped
  <2>2. CASE control.op = "resume"
    BY <1>0, <1>1, <2>1, <2>2, BoundsRest DEF IInv
  <2>3. CASE control.op # "resume"
    BY <1>0, <1>1, <2>1, <2>3, SaidBounds
  <2>. QED BY <2>2, <2>3
<1>8. CASE DeleteFiles
  <2>. DEFINE e == [op |-> "delete", status |-> "none", revision |-> 0]
  <2>1. /\ writes' = Append(writes, e) /\ past' = [past EXCEPT !.deleted = TRUE] /\ control' = NoControl
        /\ UNCHANGED <<agent, native, job, starts, row, used>>
    BY <1>8 DEF DeleteFiles
  <2>2. e \in Changes /\ e.op = "delete" /\ e.revision = 0 /\ past'.deleted
    BY <2>1 DEF Changes, Statuses, IInv, Typed, PastTyped
  <2>. HIDE DEF e
  <2>3. Adds(e)
    BY <1>0, <2>1, <2>2 DEF Adds
  <2>. QED BY <1>0, <1>1, <2>1, <2>2, <2>3, BoundsRest DEF IInv
<1>. QED BY <1>2, <1>3, <1>4, <1>5, <1>6, <1>7, <1>8 DEF Control

LEMMA EndsBounds == ASSUME IInv, IInv', Bounds, Kill \/ Reload PROVE Bounds'
<1>0. /\ agent.revision \in Nat /\ row.revision <= agent.revision /\ native.revision <= agent.revision
  BY DEF IInv, Typed, AgentTyped, Bounds, Bounded, Older
<1>1. CASE Kill
  <2>1. /\ writes' = <<>> /\ starts' = <<>> /\ UNCHANGED <<agent, file, row, past>>
        /\ native' = NoRecord /\ job' = [j \in Jobs |-> Idle] /\ control' = NoControl
    BY <1>1 DEF Kill
  <2>2. native'.revision = 0 /\ control'.revision = 0 /\ \A k \in Jobs : job'[k].revision = 0
    BY <2>1 DEF NoRecord, NoControl, Idle
  <2>3. Bounded'
    BY <1>0, <2>1, <2>2 DEF Bounded, Older
  <2>. QED BY <2>1, <2>3 DEF Bounds, Deletes, LastComes
<1>2. CASE Reload
  <2>1. /\ writes' = <<>> \/ (writes' = <<Event(native)>> /\ native.status # "none")
        /\ starts' = <<>> /\ UNCHANGED <<agent, native, job, file, row, control, past>>
    BY <1>2 DEF Reload
  <2>2. /\ Event(native).op = "event" /\ Event(native).revision = native.revision
        /\ Event(native).status = native.status
    BY DEF Event
  <2>3. Older(writes', row, agent.revision) /\ \A i \in 1..Len(writes') : writes'[i].op = "event" /\ writes'[i].status # "none"
    BY <1>0, <2>1, <2>2 DEF Older
  <2>4. Bounded'
    BY <2>1, <2>3 DEF Bounds, Bounded, Older
  <2>. QED BY <2>1, <2>3, <2>4 DEF Bounds, Deletes, LastComes
<1>. QED BY <1>1, <1>2

LEMMA InitBounds == ASSUME Init PROVE Bounds
<1>1. /\ agent = [status |-> "waiting_for_peer", revision |-> 1, acknowledged |-> {}]
      /\ native = NoRecord /\ row = NoRecord /\ job = [j \in Jobs |-> Idle]
      /\ writes = <<>> /\ starts = <<>> /\ control = NoControl
  BY DEF Init
<1>2. native.revision = 0 /\ row.revision = 0 /\ control.revision = 0 /\ \A k \in Jobs : job[k].revision = 0
  BY <1>1 DEF NoRecord, NoControl, Idle
<1>3. Bounded
  BY <1>1, <1>2 DEF Bounded, Older
<1>. QED BY <1>1, <1>3 DEF Bounds, Deletes, LastComes

LEMMA NextBounds == IInv /\ IInv' /\ Bounds /\ [Next]_vars => Bounds'
<1>. SUFFICES ASSUME IInv, IInv', Bounds, [Next]_vars PROVE Bounds'
  OBVIOUS
<1>1. CASE Next
  BY <1>1, OfferBounds, WriteBounds, StartBounds, DownloadBounds, ControlBounds, EndsBounds DEF Next
<1>2. CASE UNCHANGED vars
  BY <1>2 DEF vars, phone, Bounds, Bounded, Older, Deletes, LastComes
<1>. QED BY <1>1, <1>2

-----------------------------------------------------------------------------
(* What the row will say. *)

LEMMA HeardAfter ==
  /\ HeardEnd(writes, row)' <=> HeardEnd(writes', row')
  /\ Heard(writes, row)' <=> Heard(writes', row')
  /\ Older(writes, row, Known)' <=> Older(writes', row', Known')
BY DEF HeardEnd, Heard, Decides, Quiet, Older

LEMMA HearsFrames ==
  /\ Shown /\ UNCHANGED <<native, agent, row, starts, writes>> => Shown'
  /\ Controlling /\ UNCHANGED <<agent, control, job>> => Controlling'
  /\ DirKept /\ UNCHANGED <<agent, native, job, file>> => DirKept'
  /\ CancelIsHeard /\ UNCHANGED <<agent, control, writes, row>> => CancelIsHeard'
  /\ StopIsHeard /\ UNCHANGED <<agent, native, control, writes, row>> => StopIsHeard'
<1>1. Shown /\ UNCHANGED <<native, agent, row, starts, writes>> => Shown'
  BY DEF Shown
<1>2. Controlling /\ UNCHANGED <<agent, control, job>> => Controlling'
  BY DEF Controlling, NoneLinked, Linked
<1>3. DirKept /\ UNCHANGED <<agent, native, job, file>> => DirKept'
  BY DEF DirKept, NoneLinked, Linked
<1>4. CancelIsHeard /\ UNCHANGED <<agent, control, writes, row>> => CancelIsHeard'
  BY HeardAfter DEF CancelIsHeard
<1>5. StopIsHeard /\ UNCHANGED <<agent, native, control, writes, row>> => StopIsHeard'
  BY HeardAfter DEF StopIsHeard
<1>. QED BY <1>1, <1>2, <1>3, <1>4, <1>5

\* The record's revision, and what is asked of it when no coroutine begins or goes on.
LEMMA KeptFrames ==
  ASSUME Kept, UNCHANGED <<agent, native, control>>, AtLast' => AtLast,
         agent.status = "completed" => Older(writes', row', Known),
         \A k \in Jobs : Linked(k)' /\ job'[k].step = "acked" => job'[k] = job[k]
  PROVE  Kept'
<1>1. Known' = Known
  BY DEF Known
<1>2. \A k \in Jobs : Linked(k)' /\ job'[k].step = "acked" => Linked(k)
  BY DEF Linked
<1>. QED BY <1>1, <1>2, HeardAfter DEF Kept

LEMMA KnownIs ==
  ASSUME Typed, Bounds PROVE Known \in Nat /\ Known >= native.revision /\ Known <= agent.revision
BY LargerIs DEF Known, Typed, NativeTyped, ControlTyped, AgentTyped, Bounds, Bounded

\* Trouble, or the deletion of files, is the end of what is promised.
LEMMA CalmSteps ==
  ASSUME IInv, IInv', [Next]_vars, Calm'
  PROVE  Calm /\ ~Trouble /\ ~DeleteFiles /\ ~ControlLost /\ ~Kill /\ ~Reload
<1>1. Trouble => used'.troubles > 0
  BY TroubleIs DEF IInv, Typed
<1>2. ~Trouble
  BY <1>1 DEF Calm
<1>3. ~DeleteFiles
  BY DEF DeleteFiles, Calm, IInv, Typed, PastTyped
<1>4. used'.troubles = used.troubles
  <2>1. \/ UNCHANGED used \/ used' = [used EXCEPT !.offers = @ + 1] \/ used' = [used EXCEPT !.controls = @ + 1]
    BY <1>2 DEF Next, vars, phone, Offer, Write, SaveOffer, ApplyEvent, DeleteRow, Start, Download, Fetched, FetchFails,
       Published, RootDiffers, AgentAcknowledges, AckFails, Acknowledged, Presses, PressPause, PressResume,
       PressCancel, PressDelete, Press, Control, AgentControls, ControlLost, Cancelled, ControlFails,
       DeleteFiles, Controlled, Kill, Reload
  <2>. QED BY <2>1 DEF IInv, Typed, PastTyped
<1>5. (past.deleted => past'.deleted) /\ (past.late => past'.late)
  <2>0. CASE \E j \in Jobs : RequestFails(j)
    BY <2>0, LateIs DEF IInv, Typed
  <2>1. \/ UNCHANGED past
        \/ past' = [past EXCEPT !.proved = TRUE]
        \/ past' = [past EXCEPT !.overlapped = @ \/ \E k \in Jobs : job[k].step = "root"]
        \/ \E j \in Jobs : RequestFails(j)
    BY <1>2, <1>3 DEF Next, vars, phone, Offer, Write, SaveOffer, ApplyEvent, DeleteRow, Start, Launch, Download, Fetched,
       FetchFails, NotRepeated, Fails, Published, RootDiffers, AgentAcknowledges, AckFails, Acknowledged, Presses, PressPause, PressResume,
       PressCancel, PressDelete, Press, Control, AgentControls, ControlLost, Cancelled, ControlFails,
       Controlled, Kill, Reload
  <2>. DEFINE root == \E k \in Jobs : job[k].step = "root"
  <2>2. past' = [past EXCEPT !.overlapped = @ \/ root] =>
          (past.deleted => past'.deleted) /\ (past.late => past'.late)
    <3>. HIDE DEF root
    <3>. QED BY DEF IInv, Typed, PastTyped
  <2>3. past' = [past EXCEPT !.proved = TRUE] =>
          (past.deleted => past'.deleted) /\ (past.late => past'.late)
    BY DEF IInv, Typed, PastTyped
  <2>. QED BY <2>0, <2>1, <2>2, <2>3
<1>. QED BY <1>2, <1>3, <1>4, <1>5 DEF Calm, ControlLost, Kill, Reload

LEMMA OfferHears == ASSUME IInv, IInv', Bounds, Hears, Offer PROVE Hears'
<1>. DEFINE e == [op |-> "offer", status |-> "transferring", revision |-> agent'.revision]
<1>1. /\ agent.status \in {"waiting_for_peer", "transferring", "paused"}
      /\ IF agent.status = "waiting_for_peer" THEN agent'.status = "transferring" ELSE agent' = agent
      /\ e \in Changes /\ e.op = "offer" /\ e.revision = agent'.revision /\ writes' = Append(writes, e)
      /\ UNCHANGED <<native, job, file, starts, row, control, past>>
  BY OfferIs DEF IInv
<1>. HIDE DEF e
<1>2. writes \in Seq(Changes)
  BY DEF IInv, Typed, QueueTyped
<1>3. agent.status = "waiting_for_peer" => native.status = "none" /\ NoneLinked
  BY DEF IInv, NotOffered, Orphans, NoneLinked, Linked
<1>4. Shown'
  <2>1. /\ Len(writes) \in Nat /\ Len(writes') = Len(writes) + 1
        /\ writes'[Len(writes) + 1] = e /\ \A i \in 1..Len(writes) : writes'[i] = writes[i]
    BY <1>1, <1>2, Appended
  <2>2. \A i \in 1..Len(writes') : i \in 1..Len(writes) \/ i = Len(writes) + 1
    BY <2>1
  <2>3. agent.status = "waiting_for_peer" => writes = <<>> /\ starts = <<>>
    BY <1>3 DEF Hears, Shown
  <2>4. native.status = "none" => \A i \in 1..Len(writes') : writes'[i].op = "offer" /\ writes'[i].revision = agent'.revision
    <3>1. CASE agent.status = "waiting_for_peer"
      <4>1. Len(writes) = 0
        BY <2>3, <3>1
      <4>. QED BY <1>1, <2>1, <2>2, <4>1
    <3>2. CASE agent.status # "waiting_for_peer"
      BY <1>1, <2>1, <2>2, <3>2 DEF Hears, Shown
    <3>. QED BY <3>1, <3>2
  <2>5. native.status = "none" => \A i \in 1..Len(starts') : starts'[i] = agent'.revision
    BY <1>1, <2>3 DEF Hears, Shown
  <2>6. /\ agent'.status \in {"transferring", "paused"} /\ (agent'.status = "paused" => agent' = agent)
        /\ agent.status # "cancelled"
    BY <1>1
  <2>. QED BY <1>1, <2>4, <2>5, <2>6 DEF Hears, Shown
<1>5. Controlling' /\ DirKept'
  BY <1>1, <1>3 DEF Hears, Controlling, DirKept, NoneLinked, Linked
<1>6. Kept'
  <2>1. Known' = Known /\ (AtLast' <=> AtLast)
    BY <1>1 DEF Known, AtLast
  <2>2. \A k \in Jobs : Linked(k)' <=> Linked(k)
    BY <1>1 DEF Linked
  <2>. QED BY <1>1, <1>3, <2>1, <2>2 DEF Hears, Kept, NoneLinked
<1>7. CancelIsHeard'
  BY <1>1 DEF CancelIsHeard
<1>8. StopIsHeard'
  <2>1. Heard(writes, row) => Heard(writes', row)
    BY <1>1, <1>2, AppendHeard
  <2>. QED BY <1>1, <1>3, <2>1, HeardAfter DEF Hears, StopIsHeard
<1>. QED BY <1>4, <1>5, <1>6, <1>7, <1>8 DEF Hears

LEMMA WriteHears == ASSUME IInv, IInv', Bounds, Calm, Hears, Write PROVE Hears'
<1>1. writes # <<>> /\ writes' = Tail(writes) /\ UNCHANGED <<agent, native, job, file, control, past, used>>
  BY DEF Write, SaveOffer, ApplyEvent, DeleteRow, NextWrite
<1>2. /\ writes \in Seq(Changes) /\ Head(writes) = writes[1] /\ Len(writes) \in Nat \ {0} /\ 1 \in 1..Len(writes)
      /\ Len(writes') = Len(writes) - 1 /\ \A i \in 1..Len(writes') : writes'[i] = writes[i + 1]
      /\ \A i \in 1..Len(writes') : i + 1 \in 1..Len(writes)
  <2>1. writes \in Seq(Changes)
    BY DEF IInv, Typed, QueueTyped
  <2>2. /\ Head(writes) = writes[1] /\ Len(writes) \in Nat \ {0}
        /\ Len(writes') = Len(writes) - 1 /\ \A i \in 1..Len(writes') : writes'[i] = writes[i + 1]
    BY <1>1, <2>1, Taken
  <2>. QED BY <2>1, <2>2
<1>3. Head(writes).op # "delete" /\ Head(writes).status # "none"
  BY <1>2 DEF Bounds, Deletes, Calm
<1>4. SaveOffer \/ ApplyEvent
  BY <1>3 DEF Write, DeleteRow, NextWrite
<1>5. row.status # "none" => row'.status # "none"
  BY <1>3, <1>4, WrittenIs
<1>6. row.status # "none" => /\ HeardEnd(writes, row) => HeardEnd(writes', row')
                             /\ Heard(writes, row) => Heard(writes', row')
  BY <1>1, <1>2, <1>4, WrittenIs, TakeHeard
<1>7. Shown'
  <2>1. starts' # <<>> => starts # <<>> \/ row'.status # "none"
    <3>1. CASE SaveOffer
      BY <3>1, SaveOfferIs DEF IInv
    <3>2. CASE ApplyEvent
      BY <3>2 DEF ApplyEvent
    <3>. QED BY <1>4, <3>1, <3>2
  <2>2. ASSUME native.status = "none", agent.status # "cancelled"
        PROVE  /\ \A i \in 1..Len(writes') : writes'[i].op = "offer" /\ writes'[i].revision = agent.revision
               /\ \A i \in 1..Len(starts') : starts'[i] = agent.revision
               /\ row'.status = "transferring" /\ starts' # <<>>
               /\ agent.status # "waiting_for_peer"
    <3>1. /\ \A i \in 1..Len(writes) : writes[i].op = "offer" /\ writes[i].revision = agent.revision
          /\ \A i \in 1..Len(starts) : starts[i] = agent.revision
          /\ row.status = "none" \/ (row.status = "transferring" /\ starts # <<>>)
          /\ agent.status # "waiting_for_peer"
      BY <1>1, <2>2 DEF Hears, Shown
    <3>2. SaveOffer
      BY <1>2, <1>4, <3>1 DEF ApplyEvent, NextWrite
    <3>3. /\ starts' = Append(starts, Head(writes).revision)
          /\ row'.status = "transferring" /\ Head(writes).revision = agent.revision
      BY <1>2, <3>1, <3>2, SaveOfferIs DEF IInv
    <3>4. starts \in Seq(Nat) /\ agent.revision \in Nat
      BY DEF IInv, Typed, QueueTyped, AgentTyped
    <3>5. /\ Len(starts) \in Nat /\ Len(starts') = Len(starts) + 1 /\ starts'[Len(starts) + 1] = agent.revision
          /\ \A i \in 1..Len(starts) : starts'[i] = starts[i]
      BY <3>3, <3>4, Appended
    <3>6. \A i \in 1..Len(starts') : i \in 1..Len(starts) \/ i = Len(starts) + 1
      BY <3>5
    <3>7. starts' # <<>>
      BY <3>5
    <3>8. \A i \in 1..Len(starts') : starts'[i] = agent.revision
      BY <3>1, <3>5, <3>6
    <3>9. \A i \in 1..Len(writes') : writes'[i].op = "offer" /\ writes'[i].revision = agent.revision
      BY <1>2, <3>1
    <3>. QED BY <3>1, <3>3, <3>7, <3>8, <3>9
  <2>. QED BY <1>1, <1>5, <2>1, <2>2 DEF Hears, Shown
<1>8. Controlling' /\ DirKept'
  BY <1>1, HearsFrames DEF Hears
<1>9. Kept'
  <2>1. Known \in Nat /\ AtLast' = AtLast
    BY <1>1, KnownIs DEF IInv, AtLast
  <2>2. Older(writes, row, Known) => Older(writes', row', Known)
    BY <1>1, <1>2, <1>4, <2>1, WrittenIs, TakeOlder
  <2>3. agent.status = "completed" => Older(writes', row', Known)
    BY <2>2 DEF Hears, Kept
  <2>. QED BY <1>1, <2>1, <2>3, KeptFrames DEF Hears
<1>10. CancelIsHeard' /\ StopIsHeard'
  <2>1. agent.status = "cancelled" \/ native.status # "none" => row.status # "none"
    BY DEF Hears, Shown
  <2>. QED BY <1>1, <1>6, <2>1, HeardAfter DEF Hears, CancelIsHeard, StopIsHeard
<1>. QED BY <1>7, <1>8, <1>9, <1>10 DEF Hears

LEMMA StartHears == ASSUME IInv, IInv', Bounds, Hears, NEW j \in Jobs, Start(j) PROVE Hears'
<1>1. starts # <<>> /\ starts' = Tail(starts) /\ UNCHANGED <<agent, row, control, used>>
  BY DEF Start
<1>2. CASE native.status # "none"
  <2>1. UNCHANGED <<native, job, file, writes, past>>
    BY <1>2 DEF Start
  <2>2. Shown'
    BY <1>1, <1>2, <2>1 DEF Hears, Shown
  <2>3. Kept'
    BY <1>1, <2>1, HeardAfter DEF Hears, Kept, Known, AtLast, Linked
  <2>. QED BY <1>1, <2>1, <2>2, <2>3, HearsFrames DEF Hears
<1>3. CASE native.status = "none"
  <2>. DEFINE e == [op |-> "event", status |-> "transferring", revision |-> Head(starts)]
  <2>1. /\ native' = [status |-> "transferring", revision |-> Head(starts)] /\ Launch(j)
        /\ file' = [file EXCEPT !.dir = TRUE] /\ e \in Changes /\ writes' = Append(writes, e)
    BY <1>3, StartIs DEF IInv
  <2>. HIDE DEF e
  <2>2. native'.status = "transferring" /\ native'.revision = Head(starts)
    BY <2>1
  <2>3. /\ job'[j].step = "fetch" /\ job'[j].chunk = 1 /\ job'[j].link = "job"
        /\ \A k \in Jobs : k # j => job'[k] = job[k]
    BY <2>1, LaunchIs DEF IInv, Typed
  <2>4. NoneLinked /\ control.step # "done"
    BY <1>3 DEF IInv, Orphans, NoneLinked, Linked, Controls
  <2>5. Shown'
    BY <1>1, <2>2 DEF Hears, Shown
  <2>6. agent.status \in {"waiting_for_peer", "transferring", "cancelled"}
    BY <1>3 DEF Hears, Shown
  <2>7. Controlling'
    BY <1>1, <2>6 DEF Hears, Controlling
  <2>8. agent.status # "cancelled" => Head(starts) = agent.revision
    <3>1. starts \in Seq(Nat)
      BY DEF IInv, Typed, QueueTyped
    <3>2. Head(starts) = starts[1] /\ 1 \in 1..Len(starts)
      BY <1>1, <3>1, Taken
    <3>. QED BY <1>3, <3>2 DEF Hears, Shown
  <2>9. Kept'
    <3>1. Known' = Head(starts)
      BY <1>1, <2>2, <2>4 DEF Known
    <3>2. \A k \in Jobs : Linked(k)' => k = j
      BY <2>3, <2>4 DEF NoneLinked, Linked
    <3>. QED BY <1>1, <2>3, <2>6, <2>8, <3>1, <3>2 DEF Kept
  <2>10. DirKept'
    BY <2>1 DEF DirKept, IInv, Typed, FileTyped
  <2>11. CancelIsHeard'
    <3>1. writes \in Seq(Changes)
      BY DEF IInv, Typed, QueueTyped
    <3>2. HeardEnd(writes, row) => HeardEnd(writes', row)
      BY <2>1, <3>1, AppendHeard
    <3>. QED BY <1>1, <3>2, HeardAfter DEF Hears, CancelIsHeard
  <2>12. StopIsHeard'
    BY <2>2 DEF StopIsHeard
  <2>. QED BY <2>5, <2>7, <2>9, <2>10, <2>11, <2>12 DEF Hears
<1>. QED BY <1>2, <1>3

LEMMA KnownAfter ==
  ASSUME Typed', Bounds' PROVE Known' \in Nat /\ Known' >= native'.revision /\ Known' <= agent'.revision
<1>1. /\ native'.revision \in Nat /\ control'.revision \in Nat /\ agent'.revision \in Nat
      /\ native'.revision <= agent'.revision /\ control'.revision <= agent'.revision
  BY DEF Typed, NativeTyped, ControlTyped, AgentTyped, Bounds, Bounded
<1>. QED BY <1>1, LargerIs DEF Known

\* The same when the record learns of an acknowledgement or a control.
LEMMA KeptSteps ==
  ASSUME IInv, IInv', Bounds, Bounds', Kept, UNCHANGED agent, native'.status # "none" => native.status # "none",
         Known' >= Known, AtLast' => AtLast,
         agent.status = "completed" => Older(writes', row', Known'),
         \A k \in Jobs : Linked(k)' /\ job'[k].step = "acked" => job'[k] = job[k]
  PROVE  Kept'
<1>1. Known \in Nat /\ Known' \in Nat /\ Known <= agent.revision /\ Known' <= agent.revision /\ agent.revision \in Nat
  BY KnownIs, KnownAfter DEF IInv, Typed, AgentTyped
<1>2. Known = agent.revision => Known' = agent.revision
  BY <1>1
<1>3. \A k \in Jobs : Linked(k)' /\ job'[k].step = "acked" => Linked(k)
  BY DEF Linked
<1>. QED BY <1>2, <1>3, HeardAfter DEF Kept

-----------------------------------------------------------------------------
(* The coroutines, and what the row will say. *)

\* Steps that add nothing to the queue and leave the record as it is.
LEMMA QuietHears ==
  ASSUME IInv, Hears, UNCHANGED <<agent, native, row, starts, writes, control>>,
         AtLast' => AtLast, NoneLinked => NoneLinked', file.dir => file'.dir,
         \A k \in Jobs : Linked(k)' /\ job'[k].step = "acked" => job'[k] = job[k]
  PROVE  Hears'
<1>1. Shown' /\ CancelIsHeard' /\ StopIsHeard'
  BY HearsFrames DEF Hears
<1>2. Controlling' /\ DirKept'
  BY DEF Hears, Controlling, DirKept
<1>3. Older(writes', row', Known) <=> Older(writes, row, Known)
  BY DEF Older
<1>4. Kept'
  BY <1>3, KeptFrames DEF Hears, Kept
<1>. QED BY <1>1, <1>2, <1>4 DEF Hears

\* A coroutine that ends.
LEMMA EndsAtLast ==
  ASSUME JobTyped, NEW j \in Jobs, Ended(j)
  PROVE  /\ AtLast' => AtLast
         /\ NoneLinked => NoneLinked'
         /\ \A k \in Jobs : Linked(k)' /\ job'[k].step = "acked" => job'[k] = job[k]
<1>1. \A k \in Jobs : job'[k].step # "idle" => job'[k] = job[k]
  BY DEF Ended, Idle
<1>2. AtLast' => AtLast
  BY <1>1 DEF AtLast
<1>3. NoneLinked => NoneLinked'
  BY <1>1 DEF NoneLinked, Linked
<1>. QED BY <1>1, <1>2, <1>3 DEF Linked

LEMMA FetchedHears ==
  ASSUME IInv, Hears, NEW j \in Jobs, Fetched(j) \/ Published(j) PROVE Hears'
<1>1. /\ job[j].step \in {"fetch", "root"} /\ UNCHANGED <<agent, native, row, starts, writes, control>>
      /\ job[j].link = "job" => \E s \in {"root", "ack"} : job' = [job EXCEPT ![j].step = s]
      /\ job[j].link # "job" => Ends(j)
  BY DEF Fetched, Published
<1>2. file'.dir = file.dir
  <2>1. CASE Fetched(j)
    <3>. DEFINE part == file.part \cup {job[j].chunk}
    <3>1. file' = [file EXCEPT !.part = part]
      BY <2>1 DEF Fetched
    <3>. HIDE DEF part
    <3>. QED BY <3>1 DEF IInv, Typed, FileTyped
  <2>2. CASE Published(j)
    BY <2>2 DEF Published, IInv, Typed, FileTyped
  <2>. QED BY <2>1, <2>2
<1>3. CASE job[j].link = "job"
  <2>. PICK s \in {"root", "ack"} : job' = [job EXCEPT ![j].step = s]
    BY <1>1, <1>3
  <2>1. /\ job'[j].step = s /\ job'[j].chunk = job[j].chunk /\ job'[j].link = job[j].link
        /\ \A k \in Jobs : k # j => job'[k] = job[k]
    BY <1>1, StepIs DEF IInv, Typed, Steps
  <2>2. (AtLast' => AtLast) /\ (NoneLinked => NoneLinked')
    BY <1>1, <2>1 DEF AtLast, NoneLinked, Linked
  <2>3. \A k \in Jobs : Linked(k)' /\ job'[k].step = "acked" => job'[k] = job[k]
    BY <2>1 DEF Linked
  <2>. QED BY <1>1, <1>2, <2>2, <2>3, QuietHears
<1>4. CASE job[j].link # "job"
  <2>1. Ended(j)
    BY <1>1, <1>4, EndsIs DEF IInv, Typed
  <2>. QED BY <1>1, <1>2, <2>1, EndsAtLast, QuietHears DEF IInv, Typed
<1>. QED BY <1>3, <1>4

\* A coroutine that fails: what it says is heard, and the record it ends has said
\* nothing newer.
LEMMA FailsHears ==
  ASSUME IInv, IInv', Bounds, Bounds', Hears, NEW j \in Jobs, Linked(j) \/ job[j].step = "root", Fails(j), UNCHANGED agent,
         agent.status # "cancelled" /\ native.status = "transferring" /\ control.step # "done" =>
           Older(writes, row, native.revision)
  PROVE  Hears'
<1>. DEFINE e == [op |-> "event", status |-> "failed", revision |-> FailedAt(j)]
<1>1. /\ native'.revision = native.revision
      /\ native'.status = IF job[j].link = "orphan" THEN native.status ELSE "failed"
      /\ e \in Changes /\ e.op = "event" /\ e.status = "failed" /\ e.revision = FailedAt(j)
      /\ writes' = Append(writes, e) /\ Ended(j) /\ UNCHANGED <<starts, row, control>>
  BY FailsIs DEF IInv
<1>2. job[j].link = "orphan" => agent.status = "cancelled"
  BY DEF IInv, Orphans, Linked
<1>3. native.status = "none" => job[j].link = "orphan" /\ agent.status = "cancelled"
  BY <1>2 DEF IInv, Orphans, Linked
<1>. HIDE DEF e
<1>4. /\ AtLast' => AtLast
      /\ NoneLinked => NoneLinked'
      /\ \A k \in Jobs : Linked(k)' /\ job'[k].step = "acked" => job'[k] = job[k]
  BY <1>1, EndsAtLast DEF IInv, Typed
<1>5. /\ writes' \in Seq(Changes)
      /\ HeardEnd(writes, row) => HeardEnd(writes', row)
      /\ Heard(writes, row) => Heard(writes', row)
      /\ Older(writes, row, FailedAt(j)) => Heard(writes', row)
  <2>1. writes \in Seq(Changes) /\ "failed" \in Still
    BY DEF IInv, Typed, QueueTyped, Still, Over
  <2>2. /\ writes' \in Seq(Changes)
        /\ HeardEnd(writes, row) => HeardEnd(writes', row)
        /\ Heard(writes, row) /\ (e.op = "event" => e.status \in Still) => Heard(writes', row)
        /\ Older(writes, row, e.revision) /\ e.op = "event" /\ e.status \in Still => Heard(writes', row)
    BY <1>1, <2>1, AppendHeard
  <2>. QED BY <1>1, <2>1, <2>2
<1>6. Shown'
  BY <1>1, <1>3 DEF Hears, Shown
<1>7. Controlling'
  BY <1>1, <1>4 DEF Hears, Controlling
<1>8. Known' = Known /\ Known \in Nat /\ native.revision <= Known /\ native.revision \in Nat
  BY <1>1, KnownIs DEF Known, IInv, Typed, NativeTyped
<1>9. Kept'
  <2>1. agent.status = "completed" => Older(writes', row', Known')
    <3>1. SUFFICES ASSUME agent.status = "completed" PROVE Older(writes', row, Known)
      BY <1>1, <1>8
    <3>2. e.revision <= Known
      BY <1>1, <1>2, <1>8, <3>1 DEF FailedAt
    <3>. QED BY <1>1, <1>8, <3>1, <3>2, AppendOlder DEF Hears, Kept, IInv, Typed, QueueTyped
  <2>2. native'.status # "none" => native.status # "none"
    BY <1>1, <1>3
  <2>. QED BY <1>4, <1>8, <2>1, <2>2, KeptSteps DEF Hears
<1>10. DirKept'
  BY <1>1, <1>2, <1>3 DEF DirKept
<1>11. CancelIsHeard'
  BY <1>1, <1>5, HeardAfter DEF Hears, CancelIsHeard
<1>12. StopIsHeard'
  <2>1. SUFFICES ASSUME agent.status # "cancelled", control.step # "done" PROVE Heard(writes', row)
    BY <1>1, HeardAfter DEF StopIsHeard
  <2>2. FailedAt(j) = native.revision /\ native.status # "none"
    BY <1>2, <1>3, <2>1 DEF FailedAt
  <2>3. CASE native.status = "transferring"
    BY <1>5, <2>1, <2>2, <2>3
  <2>4. CASE native.status # "transferring"
    BY <1>5, <2>1, <2>2, <2>4 DEF Hears, StopIsHeard, IInv, Typed, NativeTyped, NativeStatuses
  <2>. QED BY <2>3, <2>4
<1>. QED BY <1>6, <1>7, <1>9, <1>10, <1>11, <1>12 DEF Hears

\* A request of the download that fails though no request is lost: the Agent has
\* refused it, or the staging directory is gone.
LEMMA RequestFailsHears ==
  ASSUME IInv, IInv', Bounds, Bounds', Hears, NEW j \in Jobs, Linked(j), RequestFails(j), UNCHANGED agent,
         ~Receivable(agent.status) \/ ~file.dir
  PROVE  Hears'
<1>1. Fails(j)
  BY DEF RequestFails
<1>2. ASSUME agent.status # "cancelled", native.status = "transferring", control.step # "done"
      PROVE  Older(writes, row, native.revision)
  <2>1. file.dir
    BY <1>2 DEF Hears, DirKept, NoneLinked
  <2>2. agent.status = "paused" => FALSE
    BY DEF Hears, Controlling, NoneLinked
  <2>3. agent.status = "completed"
    BY <1>2, <2>1, <2>2 DEF Receivable, IInv, Typed, AgentTyped, AgentStatuses
  <2>. QED BY <1>2, <2>3 DEF Hears, Kept, Known
<1>. QED BY <1>1, <1>2, FailsHears

LEMMA RefusedHears ==
  ASSUME IInv, IInv', Bounds, Bounds', Hears, ~Trouble, Calm', NEW j \in Jobs, FetchFails(j) \/ AckFails(j)
  PROVE  Hears'
<1>1. /\ job[j].step # "idle" /\ (RequestFails(j) \/ NotRepeated(j)) /\ UNCHANGED agent
      /\ ~Receivable(agent.status) \/ ~file.dir
  BY DEF FetchFails, AckFails
<1>2. CASE RequestFails(j)
  <2>1. Linked(j)
    BY <1>1, <1>2, LateIs DEF Calm, Linked, IInv, Typed
  <2>2. UNCHANGED agent
    BY DEF FetchFails, AckFails
  <2>. QED BY <1>1, <1>2, <2>1, <2>2, RequestFailsHears
<1>3. CASE NotRepeated(j)
  <2>1. Ended(j) /\ UNCHANGED <<native, file, writes, starts, row, control, agent>>
    BY <1>3, EndsIs DEF NotRepeated, FetchFails, AckFails, IInv, Typed
  <2>. QED BY <2>1, EndsAtLast, QuietHears DEF IInv, Typed
<1>. QED BY <1>1, <1>2, <1>3

LEMMA RootDiffersHears ==
  ASSUME IInv, IInv', Bounds, Bounds', Hears, NEW j \in Jobs, RootDiffers(j) PROVE Hears'
<1>1. job[j].step = "root" /\ Fails(j) /\ UNCHANGED agent
  BY DEF RootDiffers
<1>2. ASSUME agent.status # "cancelled", native.status = "transferring", control.step # "done"
      PROVE  Older(writes, row, native.revision)
  <2>1. job[j].link # "orphan" /\ job[j].chunk = LastChunk
    BY <1>1, <1>2 DEF IInv, Orphans, Acks
  <2>2. AtLast /\ Known = native.revision
    BY <1>1, <1>2, <2>1 DEF AtLast, Known
  <2>3. agent.status # "waiting_for_peer"
    BY <1>2 DEF IInv, NotOffered
  <2>4. CASE agent.status = "completed"
    BY <2>2, <2>4 DEF Hears, Kept
  <2>5. CASE agent.status \in {"transferring", "paused"}
    BY <1>2, <2>2, <2>5 DEF Hears, Kept, Bounds, Bounded
  <2>. QED BY <1>2, <2>3, <2>4, <2>5 DEF IInv, Typed, AgentTyped, AgentStatuses
<1>. QED BY <1>1, <1>2, FailsHears

\* When the Agent has all chunks but the last, a new acknowledgement completes it.
LEMMA NewIsLast ==
  ASSUME IInv, NEW j \in Jobs, AgentAcknowledges(j), 1..(LastChunk - 1) \subseteq agent.acknowledged, agent' # agent
  PROVE  agent'.status = "completed"
<1>1. /\ agent'.acknowledged = agent.acknowledged \cup {job[j].chunk} /\ job[j].chunk \notin agent.acknowledged
      /\ agent'.status = IF agent'.acknowledged = All THEN "completed" ELSE agent.status
      /\ agent'.acknowledged \subseteq All
  BY AckIs DEF IInv, AgentTyped
<1>2. All = 1..(LastChunk - 1) \cup {LastChunk}
  BY Numbers DEF All
<1>3. job[j].chunk = LastChunk
  BY <1>1, <1>2
<1>. QED BY <1>1, <1>2, <1>3

LEMMA AtLastReaches == ASSUME IInv, AtLast PROVE 1..(LastChunk - 1) \subseteq agent.acknowledged
<1>1. CASE LastChunk = 1
  BY <1>1
<1>2. ASSUME NEW k \in Jobs, job[k].chunk = LastChunk PROVE 1..(LastChunk - 1) \subseteq agent.acknowledged
  <2>1. 1..(LastChunk - 1) \subseteq Reached(k)
    BY <1>2, Numbers DEF Reached, All
  <2>. QED BY <2>1 DEF IInv, Acks
<1>. QED BY <1>1, <1>2 DEF AtLast

LEMMA AgentAcknowledgesHears ==
  ASSUME IInv, Bounds, Hears, NEW j \in Jobs, AgentAcknowledges(j) PROVE Hears'
<1>1. /\ job[j].step = "ack" /\ agent.status \in {"waiting_for_peer", "transferring"}
      /\ agent'.acknowledged = agent.acknowledged \cup {job[j].chunk}
      /\ IF job[j].chunk \in agent.acknowledged THEN agent' = agent
         ELSE agent'.status = IF agent'.acknowledged = All THEN "completed" ELSE agent.status
      /\ job'[j].step = "acked" /\ job'[j].chunk = job[j].chunk
      /\ job'[j].link = job[j].link /\ job'[j].revision = agent'.revision
      /\ \A k \in Jobs : k # j => job'[k] = job[k]
      /\ UNCHANGED <<native, file, writes, starts, row, control, past, used>>
  BY AckIs DEF IInv
<1>2. native.status # "none" /\ agent.status = "transferring" /\ job[j].link # "orphan"
  BY <1>1 DEF IInv, Orphans, NotOffered
<1>3. agent'.status \in {"transferring", "completed"} /\ (agent' # agent => job[j].chunk \notin agent.acknowledged)
  BY <1>1, <1>2
<1>4. (AtLast' <=> AtLast) /\ (NoneLinked' <=> NoneLinked) /\ (\A k \in Jobs : Linked(k)' <=> Linked(k))
  BY <1>1 DEF AtLast, NoneLinked, Linked
<1>5. Shown' /\ Controlling' /\ DirKept' /\ CancelIsHeard'
  BY <1>1, <1>2, <1>3, <1>4 DEF Hears, Shown, Controlling, DirKept, CancelIsHeard
<1>6. StopIsHeard'
  BY <1>1, <1>2, HeardAfter DEF Hears, StopIsHeard
<1>7. Known' = Known
  BY <1>1 DEF Known
<1>8. AtLast /\ agent'.status = "transferring" => Known = agent'.revision
  BY <1>2, AtLastReaches, NewIsLast DEF Hears, Kept
<1>9. agent'.status = "completed" => Older(writes, row, Known)
  <2>1. SUFFICES ASSUME agent'.status = "completed" PROVE Older(writes, row, Known)
    OBVIOUS
  <2>2. agent'.acknowledged = All /\ agent.acknowledged # All
    BY <1>1, <1>2, <2>1 DEF IInv, Acks
  <2>3. job[j].chunk = LastChunk
    BY <1>1, <2>2, Numbers DEF Bounds, LastComes
  <2>4. AtLast
    BY <1>1, <1>2, <2>3 DEF AtLast
  <2>. QED BY <1>2, <2>4 DEF Hears, Kept, Bounds, Bounded
<1>10. ASSUME NEW k \in Jobs, Linked(k)', job'[k].step = "acked", job'[k].chunk + 1 = LastChunk,
              agent'.status = "transferring"
       PROVE  job'[k].revision = agent'.revision
  <2>1. CASE k = j
    BY <1>1, <2>1
  <2>2. CASE k # j
    <3>1. job'[k] = job[k] /\ Linked(k)
      BY <1>1, <1>4, <1>10, <2>2
    <3>2. Reached(k) = 1..(LastChunk - 1)
      BY <1>10, <3>1, Numbers DEF Reached, IInv, Typed, JobTyped, All
    <3>3. agent' = agent
      BY <1>10, <3>2, NewIsLast DEF IInv, Acks
    <3>. QED BY <1>2, <1>10, <3>1, <3>3 DEF Hears, Kept
  <2>. QED BY <2>1, <2>2
<1>11. Kept'
  <2>1. Older(writes, row, Known)' <=> Older(writes, row, Known)
    BY <1>1, <1>7 DEF Older
  <2>. QED BY <1>3, <1>4, <1>7, <1>8, <1>9, <1>10, <2>1 DEF Kept
<1>. QED BY <1>5, <1>6, <1>11 DEF Hears

LEMMA OlderMore ==
  ASSUME NEW w \in Seq(Changes), NEW r, r.revision \in Nat, NEW u \in Nat, NEW v \in Nat, u <= v, Older(w, r, u)
  PROVE  Older(w, r, v)
<1>1. \A i \in 1..Len(w) : w[i] \in Changes
  BY ElementOfSeq
<1>2. \A i \in 1..Len(w) : w[i].revision \in Nat
  BY <1>1 DEF Changes
<1>. QED BY <1>2 DEF Older

LEMMA KnownGrows ==
  ASSUME Typed, Typed', UNCHANGED control, native'.revision >= native.revision PROVE Known' >= Known
<1>1. native.revision \in Nat /\ native'.revision \in Nat /\ control.revision \in Nat
  BY DEF Typed, NativeTyped, ControlTyped
<1>. QED BY <1>1 DEF Known, Larger

\* An acknowledgement that the record has given up brings it a revision at most.
LEMMA AcknowledgedLateHears ==
  ASSUME IInv, IInv', Bounds, Bounds', Hears, NEW j \in Jobs, Acknowledged(j), job[j].link # "job" PROVE Hears'
<1>1. /\ UNCHANGED <<agent, file, starts, row, control, writes>> /\ Ends(j) /\ native'.status = native.status
      /\ native'.revision \in {native.revision, AckedAt(j)}
  BY AcknowledgedIs DEF IInv
<1>2. Ended(j)
  BY <1>1, EndsIs DEF IInv, Typed
<1>3. /\ AtLast' => AtLast
      /\ NoneLinked => NoneLinked'
      /\ \A k \in Jobs : Linked(k)' /\ job'[k].step = "acked" => job'[k] = job[k]
  BY <1>2, EndsAtLast DEF IInv, Typed
<1>4. native'.revision >= native.revision
  BY <1>1, LargerIs DEF IInv, Typed, NativeTyped, JobTyped, AckedAt
<1>5. Known \in Nat /\ Known' \in Nat /\ Known' >= Known
  BY <1>1, <1>4, KnownIs, KnownAfter, KnownGrows DEF IInv
<1>6. Shown' /\ Controlling' /\ DirKept' /\ CancelIsHeard' /\ StopIsHeard'
  BY <1>1, <1>3, HeardAfter DEF Hears, Shown, Controlling, DirKept, CancelIsHeard, StopIsHeard
<1>7. agent.status = "completed" => Older(writes, row, Known')
  BY <1>5, OlderMore DEF Hears, Kept, IInv, Typed, QueueTyped, RowTyped
<1>8. Kept'
  <2>1. native'.status # "none" => native.status # "none"
    BY <1>1
  <2>2. agent.status = "completed" => Older(writes', row', Known')
    BY <1>1, <1>7
  <2>. QED BY <1>1, <1>3, <1>5, <2>1, <2>2, KeptSteps DEF Hears
<1>. QED BY <1>6, <1>8 DEF Hears

\* The record's coroutine does not wait for the answer of a pause or of a resume.
LEMMA LinkedIs ==
  ASSUME IInv, NEW j \in Jobs, Linked(j)
  PROVE  /\ native.status \in {"transferring", "failed"} /\ ~Told
         /\ control.step = "done" => agent.status = "cancelled"
<1>1. ~NoneLinked /\ native.status # "none"
  BY DEF IInv, NoneLinked, Linked, Orphans
<1>2. native.status # "paused" /\ control.op \notin {"pause", "resume"} /\ ~Told
  BY <1>1 DEF IInv, Stopping, ToldIsOver
<1>3. control.step = "done" => control.op \in {"cancel", "delete"}
  BY <1>2 DEF IInv, Typed, ControlTyped, NoControl
<1>. QED BY <1>1, <1>2, <1>3 DEF IInv, Typed, NativeTyped, NativeStatuses, Told, Controls

LEMMA AcknowledgedLastHears ==
  ASSUME IInv, IInv', Bounds, Bounds', Hears, NEW j \in Jobs, Acknowledged(j),
         job[j].link = "job", job[j].chunk = LastChunk
  PROVE  Hears'
<1>. DEFINE a == Says(native.status, AckedAt(j))
            b == Says("completed", AckedAt(j))
            w == Append(writes, a)
<1>1. /\ job[j].step = "acked" /\ UNCHANGED <<agent, file, starts, row, control, past, used>>
      /\ native' = [status |-> "completed", revision |-> AckedAt(j)]
      /\ a \in Changes /\ writes' = Append(w, b) /\ AckedAt(j) \in Nat
  BY AcknowledgedIs DEF IInv
<1>2. b \in Changes /\ b.op = "event" /\ b.status = "completed" /\ b.revision = AckedAt(j) /\ a.revision = AckedAt(j)
  BY <1>1, SaysIs DEF Says, Statuses
<1>. HIDE DEF a, b
<1>3. Linked(j) /\ native.status # "none" /\ agent.status = "completed" /\ job[j].revision = agent.revision
  BY <1>1, LinkedIs DEF Linked, IInv, Acks
<1>4. control.step # "done"
  BY <1>3, LinkedIs
<1>5. AckedAt(j) = agent.revision
  BY <1>3, LargerIs, AckedBounded DEF AckedAt, IInv, Typed, NativeTyped, JobTyped, AgentTyped
<1>6. Older(writes, row, agent.revision) /\ writes \in Seq(Changes) /\ agent.revision \in Nat
  BY DEF Bounds, Bounded, IInv, Typed, QueueTyped, AgentTyped
<1>7. w \in Seq(Changes) /\ Older(w, row, agent.revision)
  BY <1>1, <1>2, <1>5, <1>6, AppendOlder, AppendProperties
<1>. HIDE DEF w
<1>8. Heard(writes', row)
  <2>1. Older(w, row, b.revision) /\ b.op = "event" /\ b.status \in Still
    BY <1>2, <1>5, <1>7 DEF Still, Over
  <2>2. Older(w, row, b.revision) /\ b.op = "event" /\ b.status \in Still => Heard(writes', row)
    BY <1>1, <1>2, <1>7, AppendHeard
  <2>. QED BY <2>1, <2>2
<1>9. Older(writes', row, agent.revision)
  BY <1>1, <1>2, <1>5, <1>6, <1>7, AppendOlder
<1>10. Shown' /\ Controlling' /\ DirKept' /\ CancelIsHeard'
  BY <1>1, <1>3 DEF Hears, Shown, Controlling, DirKept, CancelIsHeard
<1>11. Kept'
  <2>1. Known' = agent.revision
    BY <1>1, <1>4, <1>5 DEF Known
  <2>. QED BY <1>1, <1>3, <1>9, <2>1, HeardAfter DEF Kept
<1>12. StopIsHeard'
  BY <1>1, <1>8, HeardAfter DEF StopIsHeard
<1>. QED BY <1>10, <1>11, <1>12 DEF Hears

LEMMA AcknowledgedNextHears ==
  ASSUME IInv, IInv', Bounds, Bounds', Hears, NEW j \in Jobs, Acknowledged(j),
         job[j].link = "job", job[j].chunk # LastChunk
  PROVE  Hears'
<1>. DEFINE a == Says(native.status, AckedAt(j))
<1>1. /\ job[j].step = "acked" /\ UNCHANGED <<agent, file, starts, row, control, past, used>>
      /\ native' = [status |-> native.status, revision |-> AckedAt(j)]
      /\ a \in Changes /\ writes' = Append(writes, a) /\ AckedAt(j) \in Nat
      /\ job'[j].step = "fetch" /\ job'[j].chunk = job[j].chunk + 1 /\ job'[j].link = "job"
      /\ \A k \in Jobs : k # j => job'[k] = job[k]
  BY AcknowledgedIs DEF IInv
<1>2. a.op = "event" /\ a.status = native.status /\ a.revision = AckedAt(j)
  BY DEF Says
<1>. HIDE DEF a
<1>3. Linked(j) /\ native.status \in {"transferring", "failed"} /\ agent.status # "paused"
  BY <1>1, LinkedIs DEF Linked, Hears, Controlling, NoneLinked
<1>4. agent.status # "cancelled" => control.step # "done"
  BY <1>3, LinkedIs
<1>5. native'.revision = AckedAt(j) /\ AckedAt(j) >= native.revision /\ AckedAt(j) >= job[j].revision
  BY <1>1, LargerIs DEF AckedAt, IInv, Typed, NativeTyped, JobTyped
<1>6. Known \in Nat /\ Known' \in Nat /\ Known' >= Known /\ Known' <= agent.revision /\ Known' >= AckedAt(j)
      /\ agent.revision \in Nat
  BY <1>1, <1>5, KnownIs, KnownAfter, KnownGrows DEF IInv, Typed, AgentTyped
<1>7. /\ writes \in Seq(Changes)
      /\ HeardEnd(writes, row) => HeardEnd(writes', row)
      /\ Heard(writes, row) /\ (a.op = "event" => a.status \in Still) => Heard(writes', row)
  <2>1. writes \in Seq(Changes)
    BY DEF IInv, Typed, QueueTyped
  <2>. QED BY <1>1, <2>1, AppendHeard
<1>8. Shown' /\ Controlling' /\ DirKept'
  BY <1>1, <1>3 DEF Hears, Shown, Controlling, DirKept, NoneLinked
<1>9. CancelIsHeard'
  BY <1>1, <1>7, HeardAfter DEF Hears, CancelIsHeard
<1>10. StopIsHeard'
  <2>1. native.status = "failed" => a.status \in Still
    BY <1>2 DEF Still, Over
  <2>. QED BY <1>1, <1>3, <1>7, <2>1, HeardAfter DEF Hears, StopIsHeard
<1>11. AtLast' /\ agent.status = "transferring" => Known' = agent.revision
  <2>1. CASE AtLast
    BY <1>3, <1>6, <2>1 DEF Hears, Kept
  <2>2. CASE ~AtLast
    <3>1. SUFFICES ASSUME AtLast', agent.status = "transferring" PROVE Known' = agent.revision
      OBVIOUS
    <3>2. job[j].chunk + 1 = LastChunk
      BY <1>1, <2>2, <3>1 DEF AtLast
    <3>3. job[j].revision = agent.revision
      BY <1>1, <1>3, <3>1, <3>2 DEF Hears, Kept
    <3>. QED BY <1>1, <1>5, <1>6, <3>3
  <2>. QED BY <2>1, <2>2
<1>12. agent.status = "completed" => Older(writes', row, Known')
  <2>1. agent.status = "completed" => Older(writes, row, Known')
    BY <1>6, <1>7, OlderMore DEF Hears, Kept, IInv, Typed, RowTyped
  <2>. QED BY <1>1, <1>2, <1>6, <1>7, <2>1, AppendOlder
<1>13. \A k \in Jobs : Linked(k)' /\ job'[k].step = "acked" => Linked(k) /\ job'[k] = job[k]
  BY <1>1 DEF Linked
<1>14. Kept'
  BY <1>1, <1>3, <1>11, <1>12, <1>13, HeardAfter DEF Hears, Kept
<1>. QED BY <1>8, <1>9, <1>10, <1>14 DEF Hears

LEMMA DownloadHears ==
  ASSUME IInv, IInv', Bounds, Bounds', Hears, ~Trouble, Calm', NEW j \in Jobs, Download(j) PROVE Hears'
BY FetchedHears, RefusedHears, RootDiffersHears, AgentAcknowledgesHears, AcknowledgedLateHears,
   AcknowledgedLastHears, AcknowledgedNextHears DEF Download

-----------------------------------------------------------------------------
(* The controls, and what the row will say. *)

\* A button is pressed; a pause cancels the coroutine.
LEMMA PressedHears ==
  ASSUME IInv, Hears, UNCHANGED <<agent, native, file, writes, starts, row>>,
         control.step = "idle", control'.step \in {"idle", "post", "files"},
         AtLast' => AtLast, NoneLinked => NoneLinked',
         \A k \in Jobs : Linked(k)' /\ job'[k].step = "acked" => job'[k] = job[k]
  PROVE  Hears'
<1>1. Known' = Known /\ \A k \in Jobs : Linked(k)' /\ job'[k].step = "acked" => Linked(k)
  BY DEF Known, Linked
<1>2. Older(writes, row, Known)' <=> Older(writes, row, Known)
  BY <1>1 DEF Older
<1>3. Kept'
  BY <1>1, <1>2 DEF Hears, Kept
<1>4. Shown' /\ Controlling' /\ DirKept'
  BY DEF Hears, Shown, Controlling, DirKept
<1>5. CancelIsHeard' /\ StopIsHeard'
  BY HeardAfter DEF Hears, CancelIsHeard, StopIsHeard
<1>. QED BY <1>3, <1>4, <1>5 DEF Hears

LEMMA PressesHears == ASSUME IInv, Hears, Presses PROVE Hears'
<1>1. control = NoControl /\ control.step = "idle" /\ UNCHANGED <<agent, native, file, writes, starts, row>>
  BY DEF Presses, PressPause, PressResume, PressCancel, PressDelete, Press, NoControl
<1>2. control' = control \/ (control'.step \in {"post", "files"})
  BY DEF Presses, PressPause, PressResume, PressCancel, PressDelete, Posts, NoControl
<1>3. job' = job \/ job' = JobCancelled
  BY DEF Presses, PressPause, PressResume, PressCancel, PressDelete
<1>4. CASE job' = job
  BY <1>1, <1>2, <1>4, PressedHears DEF AtLast, NoneLinked, Linked
<1>5. CASE job' = JobCancelled
  <2>1. \A k \in Jobs : /\ job'[k].step = job[k].step /\ job'[k].chunk = job[k].chunk /\ ~Linked(k)'
                        /\ job'[k].link = "orphan" <=> job[k].link = "orphan"
    BY <1>5, JobCancelledIs DEF IInv, Typed
  <2>2. (AtLast' => AtLast) /\ NoneLinked'
    BY <2>1 DEF AtLast, NoneLinked
  <2>. QED BY <1>1, <1>2, <2>1, <2>2, PressedHears
<1>. QED BY <1>3, <1>4, <1>5

\* The Agent takes a control or refuses it.
LEMMA AgentControlsHears == ASSUME IInv, IInv', Bounds, Bounds', Hears, AgentControls PROVE Hears'
<1>1. /\ control.step = "post" /\ control'.op = control.op /\ control'.revision = agent'.revision
      /\ control'.step = IF Allowed THEN "done" ELSE "refused"
      /\ IF Allowed /\ agent.status # Target THEN agent'.status = Target ELSE agent' = agent
      /\ UNCHANGED <<native, job, file, writes, starts, row, past, used>>
  BY AgentControlsIs DEF IInv
<1>2. native.status # "none" /\ agent.status # "waiting_for_peer" /\ control.op \in {"pause", "resume", "cancel", "delete"}
  BY <1>1 DEF IInv, Controls, NotOffered, Typed, ControlTyped, NoControl
<1>3. (Target = "paused" <=> control.op = "pause") /\ (Target = "cancelled" <=> control.op \in {"cancel", "delete"})
      /\ Target \in {"paused", "transferring", "cancelled"}
  BY <1>2 DEF Target
<1>4. agent.status \in {"completed", "cancelled"} => agent' = agent
  BY <1>1 DEF Allowed, Terminal
<1>5. ~Allowed => agent.status \in {"completed", "cancelled"} /\ agent' = agent
  BY <1>1, <1>2, <1>3 DEF Allowed, Terminal, Receivable, IInv, Typed, AgentTyped, AgentStatuses, Target
<1>6. Known = native.revision /\ Known \in Nat /\ Known' \in Nat /\ Known' >= Known /\ Known' <= agent'.revision
      /\ agent'.revision \in Nat
  BY <1>1, KnownIs, KnownAfter DEF Known, IInv, Typed, AgentTyped
<1>7. control'.step = "done" => Known' = agent'.revision
  <2>1. ASSUME control'.step = "done" PROVE Known' >= agent'.revision
    <3>1. native'.revision \in Nat /\ control'.revision \in Nat
      BY DEF IInv, Typed, NativeTyped, ControlTyped
    <3>. QED BY <1>1, <2>1, <3>1, LargerIs DEF Known
  <2>. QED BY <1>6, <2>1
<1>8. Shown' /\ DirKept'
  BY <1>1, <1>2, <1>4 DEF Hears, Shown, DirKept, NoneLinked, Linked
<1>9. (NoneLinked' <=> NoneLinked) /\ (AtLast' <=> AtLast) /\ (\A k \in Jobs : Linked(k)' <=> Linked(k))
  BY <1>1 DEF NoneLinked, AtLast, Linked
<1>10. control.op \in {"pause", "resume"} => NoneLinked
  BY DEF IInv, Stopping
<1>11. Controlling'
  BY <1>1, <1>3, <1>5, <1>9, <1>10 DEF Hears, Controlling
<1>12. Kept'
  <2>1. agent'.status \in {"transferring", "paused"} => Known' = agent'.revision
    BY <1>1, <1>5, <1>7
  <2>2. agent'.status = "completed" => Older(writes', row', Known')
    <3>1. SUFFICES ASSUME agent'.status = "completed" PROVE Older(writes, row, Known')
      BY <1>1
    <3>2. agent.status = "completed"
      BY <1>1, <1>3, <3>1
    <3>. QED BY <1>6, <3>2, OlderMore DEF Hears, Kept, IInv, Typed, QueueTyped, RowTyped
  <2>3. ASSUME NEW k \in Jobs, Linked(k)', job'[k].step = "acked", job'[k].chunk + 1 = LastChunk,
               agent'.status = "transferring"
        PROVE  job'[k].revision = agent'.revision
    <3>1. control.op \notin {"pause", "resume"}
      BY <1>9, <1>10, <2>3 DEF NoneLinked
    <3>2. agent' = agent
      BY <1>1, <1>2, <1>3, <2>3, <3>1
    <3>. QED BY <1>1, <1>9, <2>3, <3>2 DEF Hears, Kept
  <2>. QED BY <2>1, <2>2, <2>3, HeardAfter DEF Kept
<1>13. CancelIsHeard'
  <2>1. SUFFICES ASSUME agent'.status = "cancelled", ~(control'.step = "done" /\ control'.op \in {"cancel", "delete"})
                 PROVE  HeardEnd(writes, row)
    BY <1>1, HeardAfter DEF CancelIsHeard
  <2>2. agent.status = "cancelled"
    BY <1>1, <1>3, <2>1
  <2>. QED BY <1>1, <2>2 DEF Hears, CancelIsHeard
<1>14. StopIsHeard'
  BY <1>1, <1>5, HeardAfter DEF Hears, StopIsHeard
<1>. QED BY <1>8, <1>11, <1>12, <1>13, <1>14 DEF Hears

\* The record takes the answer of a pause or of a resume.
LEMMA ControlledHears == ASSUME IInv, IInv', Bounds, Bounds', Hears, NEW j \in Jobs, Controlled(j) PROVE Hears'
<1>. DEFINE a == Says(Target, ControlledAt)
<1>1. /\ control.step = "done" /\ control.op \in {"pause", "resume"}
      /\ (Target = "paused" <=> control.op = "pause") /\ Target \in {"paused", "transferring"}
      /\ ControlledAt \in Nat /\ native' = [status |-> Target, revision |-> ControlledAt]
      /\ a \in Changes /\ writes' = Append(writes, a)
      /\ control.op = "pause" => UNCHANGED <<job, file, past>>
      /\ UNCHANGED <<agent, starts, row, used>>
  BY ControlledIs DEF IInv
<1>2. control'.step = "idle"
  BY ControlledIs, NoControlTyped DEF IInv
<1>3. a.op = "event" /\ a.status = Target /\ a.revision = ControlledAt
  BY DEF Says
<1>. HIDE DEF a
<1>4. NoneLinked /\ native.status # "none" /\ native'.status = Target
  BY <1>1 DEF IInv, Stopping, Controls
<1>5. /\ control.op = "pause" => agent.status = "paused" /\ control.revision = agent.revision
      /\ control.op = "resume" => agent.status \in {"transferring", "completed"}
  BY <1>1 DEF IInv, Controls
<1>6. /\ control.op = "resume" =>
           /\ job'[j].step = "fetch" /\ job'[j].chunk = 1 /\ \A k \in Jobs : k # j => job'[k] = job[k]
           /\ file'.dir = TRUE
  BY <1>1, LaunchIs, ControlledIs DEF IInv, Typed, FileTyped
<1>7. Known = ControlledAt /\ Known' = ControlledAt /\ Known <= agent.revision
  BY <1>1, <1>2, KnownIs DEF Known, ControlledAt, IInv
<1>8. AtLast' => AtLast
  BY <1>1, <1>6 DEF AtLast
<1>9. \A k \in Jobs : ~(Linked(k)' /\ job'[k].step = "acked")
  BY <1>1, <1>4, <1>6 DEF NoneLinked, Linked
<1>10. Shown' /\ Controlling' /\ DirKept' /\ CancelIsHeard'
  BY <1>1, <1>2, <1>4, <1>5, <1>6 DEF Hears, Shown, Controlling, DirKept, CancelIsHeard, NoneLinked, Linked
<1>11. writes \in Seq(Changes)
  BY DEF IInv, Typed, QueueTyped
<1>12. Kept'
  <2>1. agent.status = "completed" => Older(writes', row', Known')
    BY <1>1, <1>3, <1>7, <1>11, AppendOlder DEF Hears, Kept
  <2>. QED BY <1>1, <1>4, <1>7, <1>8, <1>9, <2>1, HeardAfter DEF Hears, Kept
<1>13. StopIsHeard'
  <2>1. SUFFICES ASSUME control.op = "pause" PROVE Heard(writes', row)
    BY <1>1, <1>4, HeardAfter DEF StopIsHeard
  <2>2. ControlledAt = agent.revision
    BY <1>5, <1>7, <2>1, LargerIs DEF ControlledAt, IInv, Typed, NativeTyped, ControlTyped
  <2>3. Older(writes, row, a.revision) /\ a.op = "event" /\ a.status \in Still
    BY <1>1, <1>3, <2>1, <2>2 DEF Bounds, Bounded, Still
  <2>4. Older(writes, row, a.revision) /\ a.op = "event" /\ a.status \in Still => Heard(writes', row)
    BY <1>1, <1>11, AppendHeard
  <2>. QED BY <2>3, <2>4
<1>. QED BY <1>10, <1>12, <1>13 DEF Hears

LEMMA CancelledHears == ASSUME IInv, Bounds, Hears, Cancelled PROVE Hears'
<1>. DEFINE a == Says("cancelled", ControlledAt)
<1>1. /\ control.step = "done" /\ control.op \in {"cancel", "delete"} /\ native'.status = "none"
      /\ ControlledAt \in Nat /\ a \in Changes /\ writes' = Append(writes, a)
      /\ control'.step \in {"idle", "files"} /\ UNCHANGED <<agent, starts, row, past, used>>
  BY CancelledIs DEF IInv, NoRecord
<1>2. a.op = "event" /\ a.status = "cancelled" /\ a.revision = ControlledAt
  BY DEF Says
<1>. HIDE DEF a
<1>3. agent.status = "cancelled" /\ control.revision = agent.revision /\ native.status # "none"
  BY <1>1 DEF IInv, Controls
<1>4. ControlledAt = agent.revision
  BY <1>1, <1>3, LargerIs DEF ControlledAt, IInv, Typed, NativeTyped, ControlTyped, AgentTyped, Bounds, Bounded
<1>5. HeardEnd(writes', row)
  <2>1. writes \in Seq(Changes) /\ Older(writes, row, a.revision) /\ a.op = "event" /\ a.status \in Over
    BY <1>2, <1>4 DEF IInv, Typed, QueueTyped, Bounds, Bounded, Over
  <2>2. Older(writes, row, a.revision) /\ a.op = "event" /\ a.status \in Over => HeardEnd(writes', row)
    BY <1>1, <2>1, AppendHeard
  <2>. QED BY <2>1, <2>2
<1>6. Shown' /\ Controlling' /\ DirKept' /\ StopIsHeard' /\ Kept'
  BY <1>1, <1>3 DEF Hears, Shown, Controlling, DirKept, StopIsHeard, Kept
<1>7. CancelIsHeard'
  BY <1>1, <1>5, HeardAfter DEF CancelIsHeard
<1>. QED BY <1>6, <1>7 DEF Hears

LEMMA ControlFailsHears == ASSUME IInv, Bounds, Hears, ControlFails PROVE Hears'
<1>. DEFINE a == Says("failed", native.revision)
<1>1. /\ control.step = "refused" /\ UNCHANGED <<agent, job, file, starts, row, past, used>>
      /\ control.op = "resume" => UNCHANGED <<native, writes>>
      /\ control.op # "resume" => /\ native'.status = "failed" /\ native'.revision = native.revision
                                  /\ writes' = Append(writes, a)
      /\ a \in Changes
  BY ControlFailsIs DEF IInv
<1>2. control'.step = "idle"
  BY ControlFailsIs, NoControlTyped DEF IInv
<1>3. a.op = "event" /\ a.status = "failed" /\ a.revision = native.revision /\ native.revision \in Nat
  BY DEF Says, IInv, Typed, NativeTyped
<1>. HIDE DEF a
<1>4. agent.status \in {"completed", "cancelled"} /\ native.status # "none"
  BY <1>1 DEF Hears, Controlling, IInv, Controls
<1>5. Known = native.revision /\ Known' = native.revision
  BY <1>1, <1>2 DEF Known
<1>6. writes \in Seq(Changes)
  BY DEF IInv, Typed, QueueTyped
<1>7. /\ HeardEnd(writes, row) => HeardEnd(writes', row)
      /\ control.op # "resume" /\ Older(writes, row, native.revision) => Heard(writes', row)
  <2>1. CASE control.op = "resume"
    BY <1>1, <2>1
  <2>2. CASE control.op # "resume"
    <3>1. /\ HeardEnd(writes, row) => HeardEnd(writes', row)
          /\ Older(writes, row, a.revision) /\ a.op = "event" /\ a.status \in Still => Heard(writes', row)
      BY <1>1, <1>6, <2>2, AppendHeard
    <3>. QED BY <1>3, <3>1 DEF Still, Over
  <2>. QED BY <2>1, <2>2
<1>8. Shown' /\ Controlling' /\ DirKept'
  BY <1>1, <1>2, <1>4 DEF Hears, Shown, Controlling, DirKept, NoneLinked, Linked
<1>9. Kept'
  <2>1. agent.status = "completed" => Older(writes', row', Known')
    <3>1. Older(writes, row, native.revision) /\ a.revision <= native.revision => Older(Append(writes, a), row, native.revision)
      BY <1>1, <1>3, <1>6, AppendOlder
    <3>2. agent.status = "completed" => Older(writes, row, native.revision)
      BY <1>5 DEF Hears, Kept
    <3>3. writes' = writes \/ writes' = Append(writes, a)
      BY <1>1
    <3>4. a.revision <= native.revision
      BY <1>3
    <3>5. row' = row /\ Known' = native.revision
      BY <1>1, <1>5
    <3>. QED BY <3>1, <3>2, <3>3, <3>4, <3>5
  <2>. QED BY <1>1, <1>4, <2>1, HeardAfter DEF Kept
<1>10. CancelIsHeard'
  BY <1>1, <1>7, HeardAfter DEF Hears, CancelIsHeard
<1>11. StopIsHeard'
  <2>1. SUFFICES ASSUME agent.status = "completed", native'.status \in {"paused", "failed", "completed"}
                 PROVE  Heard(writes', row)
    BY <1>1, <1>4, HeardAfter DEF StopIsHeard
  <2>2. CASE control.op = "resume"
    <3>1. native' = native /\ writes' = writes
      BY <1>1, <2>2
    <3>2. Heard(writes, row)
      BY <1>1, <2>1, <3>1 DEF Hears, StopIsHeard
    <3>. QED BY <3>1, <3>2
  <2>3. CASE control.op # "resume"
    BY <1>5, <1>7, <2>1, <2>3 DEF Hears, Kept
  <2>. QED BY <2>2, <2>3
<1>. QED BY <1>8, <1>9, <1>10, <1>11 DEF Hears

LEMMA InitHears == ASSUME Init PROVE Hears
<1>1. /\ agent = [status |-> "waiting_for_peer", revision |-> 1, acknowledged |-> {}]
      /\ native = NoRecord /\ row = NoRecord /\ job = [j \in Jobs |-> Idle]
      /\ writes = <<>> /\ starts = <<>> /\ control = NoControl
  BY DEF Init
<1>2. native.status = "none" /\ row.status = "none" /\ control.step = "idle" /\ \A j \in Jobs : ~Linked(j)
  BY <1>1 DEF NoRecord, NoControl, Idle, Linked
<1>. QED BY <1>1, <1>2 DEF Hears, Shown, Controlling, Kept, DirKept, CancelIsHeard, StopIsHeard

LEMMA NextHears ==
  ASSUME IInv, IInv', Bounds, Bounds', Calm => Hears, [Next]_vars PROVE Calm' => Hears'
<1>. SUFFICES ASSUME Calm' PROVE Hears'
  OBVIOUS
<1>1. Calm /\ Hears /\ ~Trouble /\ ~DeleteFiles /\ ~ControlLost /\ ~Kill /\ ~Reload
  BY CalmSteps
<1>2. CASE Next
  <2>1. CASE Offer
    BY <1>1, <2>1, OfferHears
  <2>2. CASE Write
    BY <1>1, <2>2, WriteHears
  <2>3. CASE \E j \in Jobs : Start(j) \/ Download(j)
    BY <1>1, <2>3, StartHears, DownloadHears
  <2>4. CASE Presses
    BY <1>1, <2>4, PressesHears
  <2>5. CASE Control
    BY <1>1, <2>5, AgentControlsHears, CancelledHears, ControlFailsHears, ControlledHears DEF Control
  <2>. QED BY <1>1, <1>2, <2>1, <2>2, <2>3, <2>4, <2>5 DEF Next
<1>3. CASE UNCHANGED vars
  <2>1. UNCHANGED <<agent, native, row, starts, writes, control, file, job>>
    BY <1>3 DEF vars, phone
  <2>. QED BY <1>1, <2>1, QuietHears DEF AtLast, NoneLinked, Linked
<1>. QED BY <1>2, <1>3

\* No revision is ahead of the Agent's, and as long as no request is lost, none of a
\* paused download fails, no process ends and no file is deleted, the row says or will say how each transfer has ended or that
\* it is paused.
THEOREM ReceivedInvariant == Spec => [](IInv /\ SInv)
<1>. DEFINE S == Bounds /\ (Calm => Hears)
<1>1. Init => S
  BY InitBounds, InitHears
<1>2. IInv /\ IInv' /\ S /\ [Next]_vars => S'
  <2>1. Bounds' /\ IInv /\ IInv' /\ S /\ [Next]_vars => (Calm' => Hears')
    BY NextHears
  <2>. QED BY <2>1, NextBounds
<1>3. IInv /\ S => IInv /\ SInv
  BY DEF SInv, Bounds
<1>. HIDE DEF S
<1>. QED BY <1>1, <1>2, <1>3, IncomingInvariant, PTL DEF Spec

\* What the phone shows as under way is under way, whatever the order of offers, events
\* and controls, for any number of them, while no request is lost, none of a paused
\* download fails, no process ends and no file is deleted (ShownIsReceived).
THEOREM ShownSafe == Spec => []ShownIsReceived
<1>1. IInv /\ SInv => ShownIsReceived
  <2>. SUFFICES ASSUME IInv, SInv, used.troubles = 0, ~past.deleted, ~past.late,
                       row.status = "transferring", writes = <<>>, starts = <<>>, control = NoControl, native.status # "transferring"
                PROVE  FALSE
    BY DEF ShownIsReceived
  <2>1. Hears /\ control.step # "done"
    BY DEF SInv, Calm, NoControl
  <2>2. ~HeardEnd(writes, row) /\ ~Heard(writes, row)
    BY DEF HeardEnd, Heard, Over, Still
  <2>3. agent.status # "cancelled"
    BY <2>1, <2>2 DEF Hears, CancelIsHeard
  <2>4. native.status = "none"
    BY <2>1, <2>2, <2>3 DEF Hears, StopIsHeard, IInv, Typed, NativeTyped, NativeStatuses
  <2>. QED BY <2>1, <2>3, <2>4 DEF Hears, Shown
<1>. QED BY <1>1, ReceivedInvariant, PTL
===============================================================================

---------------------- MODULE V3TransferProjectionProofs ----------------------
(***************************************************************************)
(* Proofs about V3TransferProjection, whatever is pressed, lost or killed. *)
(* What the phone knows of an upload never goes back, because each of the  *)
(* rules of V3ProjectionRow keeps it, and because a task with a pending    *)
(* control is always shown as optimistic.  And nothing on the phone says   *)
(* completed before the Agent does.                                        *)
(***************************************************************************)
EXTENDS V3TransferProjection, SequenceTheorems, TLAPS

(* The statuses that can occur anywhere on the phone. *)
Possible == {st \in Statuses \cup {"none"} : st = "completed" => agent.st = "completed"}

(* The values of the variables, when S are the statuses. *)
Wide(S) == (Statuses \cup {"none"}) \ {"completed"} \subseteq S

Tasks(S) == {r \in [st: S, rev: Nat, opt: BOOLEAN, pend: Controls \cup {"none"}, bad: BOOLEAN] :
               r.pend # "none" => r.opt}
Updates(S) == [st: S, rev: Nat, opt: BOOLEAN, pend: {"keep", "none"}, settle: BOOLEAN,
               bad: BOOLEAN, scan: BOOLEAN]
Events(S)  == [op: Nat, st: S, rev: Nat, opt: BOOLEAN, bad: BOOLEAN]
Records(S) == [op: Nat, st: S, rev: Nat, cmd: Controls \cup {"none"}, was: S, recon: BOOLEAN,
               bad: BOOLEAN]
Pcs == {"idle", "lost", "prepare", "prepared", "start", "reading", "read", "recover", "begin",
        "unbegun", "reread", "look", "call", "calling", "caught", "answered", "settling", "settled",
        "unsettled", "restart", "starting", "started", "waiting", "waited", "reconcile", "reconciling",
        "reconciled", "unreconciled", "manifest", "called", "aborted", "asked", "flushed", "written"}
Presses == Controls \cup {"retry"}
Notes == {"none", "found", "true", "false", "threw", "notfound", "refused", "superseded", "network"}
Handlers(S) == [pc: Pcs, op: Presses \cup {"none", "first", "recover"}, was: Tasks(S), row: Tasks(S),
                ahead: Int, tries: Nat, note: Notes]
Jobs(S) == [k: {"apply", "begin", "prepare", "mismatch"}, u: Updates(S), w: Flows]
Agents == [st: {"none", "transferring", "paused", "completed", "cancelled"}, rev: Nat]

(* A control under way knows which it is. *)
Named(h) == h.op \in Presses \/ (h.op = "none" /\ h.pc = "idle")
Fine(F) == Named(F["control"])

Typed ==
  /\ agent \in Agents /\ native \in Records(Possible) /\ wire \in Seq(Events(Possible))
  /\ mem \in Tasks(Possible) /\ disk \in Tasks(Possible)
  /\ upd \in Updates(Possible) /\ jobs \in Seq(Jobs(Possible))
  /\ flow \in [Flows -> Handlers(Possible)]

IInv == Typed /\ Fine(flow)

(* What q may be after r. *)
Follows(r, q) == q.rev >= r.rev /\ (Settled(r) => Settled(q) /\ (q.st = r.st \/ q.bad))

-----------------------------------------------------------------------------
(* The rules. *)

LEMMA MergedFollows ==
  ASSUME NEW S, NEW r \in Tasks(S), NEW u \in Updates(S), ~Ignored(r, u)
  PROVE  /\ Merged(r, u) \in Tasks(S)
         /\ (u.opt /\ IsTerminal(u.st) => r.pend # "none") => Follows(r, Merged(r, u))
<1> USE DEF Tasks, Updates, Ignored, Merged, HasPending, Authoritative, IsTerminal
<1>1. /\ r.rev \in Nat /\ u.rev \in Nat /\ u.rev >= r.rev
      /\ Merged(r, u).st = u.st /\ Merged(r, u).rev = u.rev
  OBVIOUS
<1>2. Merged(r, u) \in Tasks(S)
  OBVIOUS
<1>3. ASSUME u.opt /\ IsTerminal(u.st) => r.pend # "none", Settled(r)
      PROVE  Settled(Merged(r, u)) /\ Merged(r, u).st = r.st
  BY <1>3 DEF Settled
<1> QED BY <1>1, <1>2, <1>3 DEF Follows

LEMMA PersistedFollows ==
  ASSUME NEW S, Wide(S), NEW r \in Tasks(S), NEW p \in Tasks(S)
  PROVE  MergedPersisted(r, p) \in Tasks(S) /\ Follows(r, MergedPersisted(r, p))
<1> USE DEF Tasks
<1>1. CASE r.bad \/ p.bad
  <2>1. "failed" \in S
    BY DEF Wide, Statuses
  <2> DEFINE q == [r EXCEPT !.st = "failed", !.bad = TRUE, !.opt = FALSE, !.pend = "none",
                            !.rev = IF p.rev > r.rev THEN p.rev ELSE r.rev]
  <2>2. MergedPersisted(r, p) = q
    BY <1>1 DEF MergedPersisted
  <2> DEFINE n == IF p.rev > r.rev THEN p.rev ELSE r.rev
  <2>4. n \in Nat /\ n >= r.rev
    OBVIOUS
  <2> HIDE DEF n
  <2>5. q = [r EXCEPT !.st = "failed", !.bad = TRUE, !.opt = FALSE, !.pend = "none", !.rev = n]
    BY DEF n
  <2>3. q \in Tasks(S) /\ q.st = "failed" /\ q.bad = TRUE /\ q.opt = FALSE /\ q.rev >= r.rev
    BY <2>1, <2>4, <2>5
  <2> HIDE DEF q
  <2> QED BY <2>2, <2>3 DEF Follows, Settled, IsTerminal
<1>2. CASE ~(r.bad \/ p.bad)
  BY <1>2 DEF MergedPersisted, Follows, Settled
<1> QED BY <1>1, <1>2

LEMMA RecoveringFollows ==
  ASSUME NEW S, Wide(S), NEW r \in Tasks(S), NEW p \in Tasks(S)
  PROVE  Recovering(r, p) \in Tasks(S) /\ Follows(r, Recovering(r, p))
<1> DEFINE q == MergedPersisted(r, p)
<1>1. q \in Tasks(S) /\ Follows(r, q)
  BY PersistedFollows
<1>2. CASE PendingCancellation(p) \/ r.rev > p.rev \/ Settled(r)
  BY <1>1, <1>2 DEF Recovering, Follows, Tasks
<1>3. CASE ~(PendingCancellation(p) \/ r.rev > p.rev \/ Settled(r))
  <2>1. "recovering" \in S
    BY DEF Wide, Statuses
  <2> HIDE DEF q
  <2>2. Recovering(r, p) = [q EXCEPT !.opt = FALSE, !.pend = "none", !.st = "recovering"]
    BY <1>3 DEF Recovering, q
  <2> QED BY <1>1, <1>3, <2>1, <2>2 DEF Follows, Tasks
<1> QED BY <1>2, <1>3

LEMMA HydratedFollows ==
  ASSUME NEW S, Wide(S), mem \in Tasks(S), NEW p \in Tasks(S)
  PROVE  Hydrated(p) \in Tasks(S) /\ (mem # NoRow => Follows(mem, Hydrated(p)))
BY PersistedFollows DEF Hydrated, Follows, Tasks

\* What a transaction makes of the row.
LEMMA RowKept ==
  ASSUME NEW S, Wide(S), NEW r \in Tasks(S)
  PROVE  /\ \A u \in Updates(S) : Written(r, u) \in Tasks(S)
         /\ \A op \in Controls \cup {"none"}, st \in S : Begun(r, op, st) \in Tasks(S)
         /\ Prepared(r) \in Tasks(S)
         /\ \A n \in Nat : Contradicted(r, n) \in Tasks(S)
<1> USE DEF Tasks
<1>1. "failed" \in S /\ "recovering" \in S
  BY DEF Wide, Statuses
<1>2. ASSUME NEW u \in Updates(S) PROVE Written(r, u) \in Tasks(S)
  BY DEF Written, IgnoredByRow, Authoritative, HasPending, Updates
<1>3. ASSUME NEW op \in Controls \cup {"none"}, NEW st \in S PROVE Begun(r, op, st) \in Tasks(S)
  BY DEF Begun
<1>4. Prepared(r) \in Tasks(S)
  BY <1>1 DEF Prepared
<1>5. ASSUME NEW n \in Nat PROVE Contradicted(r, n) \in Tasks(S)
  BY <1>1 DEF Contradicted
<1> QED BY <1>2, <1>3, <1>4, <1>5

LEMMA CoalescedKept ==
  ASSUME NEW S, NEW a \in Updates(S), NEW u \in Updates(S)
  PROVE  Coalesced(a, u) \in Updates(S)
BY DEF Coalesced

-----------------------------------------------------------------------------
(* Steps of JavaScript: the statuses that can occur are what they were. *)

(* What a step may do to the task. *)
Kept == mem # NoRow /\ mem' # NoRow => Follows(mem, mem')

LEMMA PossibleIsWide == Wide(Possible)
BY DEF Wide, Possible

LEMMA Same == IInv => Follows(mem, mem)
BY DEF IInv, Typed, Tasks, Follows

LEMMA JsTyped ==
  ASSUME UNCHANGED agent, agent \in Agents, native' \in Records(Possible),
         wire' \in Seq(Events(Possible)), mem' \in Tasks(Possible), disk' \in Tasks(Possible),
         upd' \in Updates(Possible), jobs' \in Seq(Jobs(Possible)),
         flow' \in [Flows -> Handlers(Possible)], Fine(flow)'
  PROVE  IInv'
<1>1. Possible' = Possible
  BY DEF Possible
<1> QED BY <1>1 DEF IInv, Typed

LEMMA Constants ==
  /\ NoRow \in Tasks(Possible) /\ NoUpdate \in Updates(Possible)
  /\ Idle \in Handlers(Possible) /\ NoRecord \in Records(Possible)
<1>1. "none" \in Possible
  BY DEF Possible
<1>2. NoRow \in Tasks(Possible) /\ NoUpdate \in Updates(Possible) /\ NoRecord \in Records(Possible)
  BY <1>1 DEF NoRow, NoUpdate, NoRecord, Tasks, Updates, Records
<1>3. Idle \in Handlers(Possible)
  BY <1>2 DEF Idle, Handlers, Pcs, Notes
<1> QED BY <1>2, <1>3

LEMMA FlowSet ==
  ASSUME NEW S, NEW F \in [Flows -> Handlers(S)], NEW f \in Flows, NEW h \in Handlers(S),
         Fine(F), f = "control" => Named(h)
  PROVE  [F EXCEPT ![f] = h] \in [Flows -> Handlers(S)] /\ Fine([F EXCEPT ![f] = h])
BY DEF Fine, Flows

LEMMA UpdateOfEvent ==
  ASSUME NEW S, NEW e \in Events(S)
  PROVE  /\ ToUpdate(e) \in Updates(S)
         /\ ToUpdate(e).st = e.st /\ ToUpdate(e).rev = e.rev /\ ToUpdate(e).opt = e.opt
BY DEF ToUpdate, Events, Updates

LEMMA EventOfRecord ==
  ASSUME NEW S, NEW r \in Records(S), NEW o \in BOOLEAN
  PROVE  Event(r, o) \in Events(S) /\ Event(r, o).rev = r.rev
<1> DEFINE b == o \/ r.cmd # "none"
<1>1. b \in BOOLEAN
  OBVIOUS
<1>2. Event(r, o) = [op |-> r.op, st |-> r.st, rev |-> r.rev, opt |-> b, bad |-> r.bad]
  BY DEF Event
<1> HIDE DEF b
<1> QED BY <1>1, <1>2 DEF Records, Events

\* What is projected is merged into the task and into what waits to be written.
LEMMA ProjectKept ==
  ASSUME IInv, NEW u \in Updates(Possible), u.opt /\ IsTerminal(u.st) => mem.pend # "none"
  PROVE  /\ Applied(u) \in Tasks(Possible) /\ Persisting(u) \in Updates(Possible)
         /\ Follows(mem, Applied(u))
<1>1. mem \in Tasks(Possible) /\ upd \in Updates(Possible)
  BY DEF IInv, Typed
<1>2. Enqueued(u) \in Updates(Possible)
  BY <1>1, CoalescedKept DEF Enqueued
<1>3. CASE Taken(u)
  BY <1>1, <1>2, <1>3, MergedFollows DEF Taken, Applied, Persisting
<1>4. CASE ~Taken(u)
  BY <1>1, <1>4, Same DEF Applied, Persisting
<1> QED BY <1>3, <1>4

LEMMA HandleKept ==
  ASSUME IInv, NEW e \in Events(Possible), NEW busy, NEW F \in [Flows -> Handlers(Possible)],
         Fine(F), Handle(e, busy, F)
  PROVE  /\ mem' \in Tasks(Possible) /\ upd' \in Updates(Possible) /\ Follows(mem, mem')
         /\ flow' \in [Flows -> Handlers(Possible)] /\ Fine(flow)'
<1>1. mem \in Tasks(Possible) /\ upd \in Updates(Possible)
  BY DEF IInv, Typed
<1>2. mem' \in Tasks(Possible) /\ upd' \in Updates(Possible) /\ Follows(mem, mem')
  <2>1. CASE Projected(e, busy)
    <3>1. Project(ToUpdate(e))
      BY <2>1 DEF Handle
    <3>2. e.opt => mem.pend # "none"
      BY <2>1 DEF Projected, Matches
    <3> QED BY <3>1, <3>2, UpdateOfEvent, ProjectKept DEF Project
  <2>2. CASE ~Projected(e, busy)
    <3>1. mem' = mem /\ upd' = upd
      BY <2>2 DEF Handle
    <3> QED BY <1>1, <3>1, Same
  <2> QED BY <2>1, <2>2
<1>3. flow' \in [Flows -> Handlers(Possible)] /\ Fine(flow')
  <2>1. CASE flow' = F
    BY <2>1
  <2>2. CASE flow' = [F EXCEPT !["evidence"].pc = "asked", !["evidence"].row.rev = e.rev]
    <3> DEFINE h == [F["evidence"] EXCEPT !.pc = "asked", !.row.rev = e.rev]
    <3>1. F["evidence"] \in Handlers(Possible)
      BY DEF Flows
    <3>2. e.rev \in Nat
      BY DEF Events
    <3>3. h \in Handlers(Possible)
      <4>1. F["evidence"].row \in Tasks(Possible)
        BY <3>1 DEF Handlers
      <4>2. [F["evidence"].row EXCEPT !.rev = e.rev] \in Tasks(Possible)
        BY <3>2, <4>1 DEF Tasks
      <4> QED BY <3>1, <4>2 DEF Handlers, Pcs
    <3>4. flow' = [F EXCEPT !["evidence"] = h]
      BY <2>2
    <3> HIDE DEF h
    <3> QED BY <3>3, <3>4, FlowSet DEF Flows
  <2> QED BY <2>1, <2>2 DEF Handle
<1> QED BY <1>2, <1>3 DEF Fine

\* The snapshot of the uploader's record is projected like an event.
LEMMA SnapshotKept ==
  ASSUME IInv, NEW busy, NEW F \in [Flows -> Handlers(Possible)], Fine(F), HandleSnapshot(busy, F)
  PROVE  /\ mem' \in Tasks(Possible) /\ upd' \in Updates(Possible) /\ Follows(mem, mem')
         /\ flow' \in [Flows -> Handlers(Possible)] /\ Fine(flow)'
<1>1. CASE native = NoRecord
  <2>1. flow' = F /\ mem' = mem /\ upd' = upd
    BY <1>1 DEF HandleSnapshot
  <2> QED BY <2>1, Same DEF IInv, Typed, Fine
<1>2. CASE native # NoRecord
  <2>1. Event(native, FALSE) \in Events(Possible)
    BY EventOfRecord DEF IInv, Typed
  <2> QED BY <1>2, <2>1, HandleKept DEF HandleSnapshot
<1> QED BY <1>1, <1>2

\* A start that failed.
LEMMA ReportKept ==
  ASSUME IInv, NEW note, ReportStart(note)
  PROVE  mem' \in Tasks(Possible) /\ upd' \in Updates(Possible) /\ Follows(mem, mem')
<1>1. CASE UNCHANGED <<mem, upd>>
  BY <1>1, Same DEF IInv, Typed
<1>2. ASSUME NEW st \in {"waiting_for_peer", "failed"},
             Project([NoUpdate EXCEPT !.st = st, !.rev = mem.rev, !.pend = "none"])
      PROVE  mem' \in Tasks(Possible) /\ upd' \in Updates(Possible) /\ Follows(mem, mem')
  <2> DEFINE u == [NoUpdate EXCEPT !.st = st, !.rev = mem.rev, !.pend = "none"]
  <2>1. st \in Possible /\ mem.rev \in Nat
    BY PossibleIsWide DEF Wide, Statuses, IInv, Typed, Tasks
  <2>2. u \in Updates(Possible) /\ u.opt = FALSE
    BY <2>1 DEF NoUpdate, Updates
  <2>3. Project(u)
    BY <1>2
  <2> HIDE DEF u
  <2> QED BY <2>2, <2>3, ProjectKept DEF Project
<1> QED BY <1>1, <1>2 DEF ReportStart

LEMMA Flow ==
  ASSUME IInv, NEW f \in Flows
  PROVE  /\ flow[f] \in Handlers(Possible) /\ (f = "control" => Named(flow[f]))
         /\ flow[f].was \in Tasks(Possible) /\ flow[f].row \in Tasks(Possible)
<1>1. flow[f] \in Handlers(Possible) /\ (f = "control" => Named(flow[f]))
  BY DEF IInv, Typed, Fine
<1> QED BY <1>1 DEF Handlers

LEMMA GotoKept ==
  ASSUME IInv, NEW f \in Flows, NEW pc \in Pcs, Goto(f, pc), f = "control" => ~At(f, "idle")
  PROVE  flow' \in [Flows -> Handlers(Possible)] /\ Fine(flow)'
<1> DEFINE h == [flow[f] EXCEPT !.pc = pc]
<1>1. h \in Handlers(Possible)
  BY Flow DEF Handlers
<1>2. f = "control" => Named(h)
  BY Flow DEF Named, At, Handlers
<1>3. flow' = [flow EXCEPT ![f] = h]
  BY DEF Goto
<1> HIDE DEF h
<1> QED BY <1>1, <1>2, <1>3, FlowSet DEF IInv, Typed, Fine

LEMMA EndsKept ==
  ASSUME IInv, NEW f \in Flows, Ends(f)
  PROVE  flow' \in [Flows -> Handlers(Possible)] /\ Fine(flow)'
<1>1. Named(Idle)
  BY DEF Named, Idle
<1> QED BY <1>1, Constants, FlowSet DEF Ends, IInv, Typed, Fine

LEMMA ToldKept ==
  ASSUME IInv, NEW note \in Notes
  PROVE  Told(note) \in [Flows -> Handlers(Possible)] /\ Fine(Told(note))
<1>1. ASSUME NEW f \in Flows
      PROVE  Told(note)[f] \in Handlers(Possible) /\ (f = "control" => Named(Told(note)[f]))
  <2> DEFINE pc == IF flow[f].pc = "starting" THEN "started" ELSE "waited"
             h  == [flow[f] EXCEPT !.note = note, !.pc = pc]
  <2>1. pc \in Pcs
    BY DEF Pcs
  <2> HIDE DEF pc
  <2>2. h \in Handlers(Possible) /\ h.op = flow[f].op
    BY <2>1, Flow DEF Handlers
  <2>3. flow[f].pc \in {"starting", "waiting"} /\ f = "control" => Named(h)
    BY <2>2, Flow DEF Named
  <2>4. \/ Told(note)[f] \in {Idle, flow[f]}
        \/ Told(note)[f] = h /\ flow[f].pc \in {"starting", "waiting"}
    BY DEF Told, pc
  <2>5. Named(Idle)
    BY DEF Named, Idle
  <2> HIDE DEF h
  <2> QED BY <2>2, <2>3, <2>4, <2>5, Flow, Constants
<1>2. Told(note) \in [Flows -> Handlers(Possible)]
  BY <1>1 DEF Told
<1> QED BY <1>1, <1>2 DEF Fine, Flows

LEMMA CallStartKept ==
  ASSUME IInv, NEW f \in Flows \ {"start"}, NEW h \in Handlers(Possible),
         f = "control" => h.op \in Presses, NEW how \in {"first", "recover"}, CallStart(f, h, how)
  PROVE  flow' \in [Flows -> Handlers(Possible)] /\ Fine(flow)'
<1> DEFINE pc     == IF Reconciles(mem) THEN "reconcile" ELSE "look"
           note   == IF mem = NoRow THEN "threw" ELSE "false"
           asks   == [h EXCEPT !.pc = "starting"]
           told   == [h EXCEPT !.pc = "started", !.note = note]
           starts == [Idle EXCEPT !.op = how, !.was = mem, !.pc = pc]
<1>1. pc \in Pcs /\ note \in Notes /\ {"starting", "started"} \subseteq Pcs /\ "start" \in Flows
  BY DEF Pcs, Notes, Flows
<1>2. \/ flow' = [flow EXCEPT ![f] = asks]
      \/ flow' = [flow EXCEPT ![f] = told]
      \/ flow' = [flow EXCEPT ![f] = asks, !["start"] = starts]
  BY DEF CallStart
<1>3. flow \in [Flows -> Handlers(Possible)] /\ Fine(flow) /\ mem \in Tasks(Possible)
  BY DEF IInv, Typed
<1> HIDE DEF pc, note
<1>4. asks \in Handlers(Possible) /\ told \in Handlers(Possible)
      /\ (f = "control" => Named(asks) /\ Named(told))
  BY <1>1 DEF Handlers, Named
<1>5. starts \in Handlers(Possible)
  BY <1>1, <1>3, Constants DEF Handlers
<1> HIDE DEF asks, told, starts
<1>6. flow' \in [Flows -> Handlers(Possible)] /\ Fine(flow')
  <2> DEFINE F == [flow EXCEPT ![f] = asks]
  <2>1. F \in [Flows -> Handlers(Possible)] /\ Fine(F)
    BY <1>3, <1>4, FlowSet
  <2>2. [flow EXCEPT ![f] = asks, !["start"] = starts] = [F EXCEPT !["start"] = starts]
    BY <1>3
  <2>3. CASE flow' = F \/ flow' = [flow EXCEPT ![f] = told]
    BY <2>1, <2>3, <1>3, <1>4, FlowSet
  <2> HIDE DEF F
  <2>4. CASE flow' = [F EXCEPT !["start"] = starts]
    BY <2>1, <2>4, <1>1, <1>5, FlowSet
  <2> QED BY <1>2, <2>2, <2>3, <2>4 DEF F
<1> QED BY <1>6 DEF Fine

LEMMA QueueKept ==
  ASSUME IInv, NEW f \in Flows, NEW u \in Updates(Possible),
         NEW k \in {"apply", "begin", "prepare", "mismatch"}
  PROVE  Append(jobs, Job(k, u, f)) \in Seq(Jobs(Possible))
<1>1. Job(k, u, f) \in Jobs(Possible)
  BY DEF Job, Jobs
<1> QED BY <1>1, AppendProperties DEF IInv, Typed

LEMMA AwaitWritesKept ==
  ASSUME IInv, NEW f \in Flows, NEW u \in Updates(Possible), NEW h \in Handlers(Possible),
         f = "control" => Named(h), AwaitWrites(f, u, h)
  PROVE  /\ upd' \in Updates(Possible) /\ jobs' \in Seq(Jobs(Possible))
         /\ flow' \in [Flows -> Handlers(Possible)] /\ Fine(flow)'
<1>1. jobs' \in Seq(Jobs(Possible)) /\ jobs' = Flushed(u, f)
  BY QueueKept DEF AwaitWrites, Flushed, IInv, Typed
<1>2. Len(jobs') \in Int
  BY <1>1, LenProperties
<1> DEFINE g == [h EXCEPT !.ahead = Len(jobs')]
<1>3. g \in Handlers(Possible) /\ (f = "control" => Named(g))
  BY <1>2 DEF Handlers, Named
<1>4. flow' = [flow EXCEPT ![f] = g]
  BY <1>1 DEF AwaitWrites
<1> HIDE DEF g
<1>5. flow' \in [Flows -> Handlers(Possible)] /\ Fine(flow')
  BY <1>3, <1>4, FlowSet DEF IInv, Typed
<1> QED BY <1>1, <1>5, Constants DEF AwaitWrites, Fine

LEMMA AwaitJobKept ==
  ASSUME IInv, NEW f \in Flows, NEW u \in Updates(Possible), NEW h \in Handlers(Possible),
         f = "control" => Named(h), NEW k \in {"apply", "begin", "prepare", "mismatch"},
         AwaitJob(f, h, k, u)
  PROVE  /\ jobs' \in Seq(Jobs(Possible))
         /\ flow' \in [Flows -> Handlers(Possible)] /\ Fine(flow)'
<1>1. jobs' \in Seq(Jobs(Possible))
  BY QueueKept DEF AwaitJob
<1>2. Len(jobs) + 1 \in Int
  BY LenProperties DEF IInv, Typed
<1> DEFINE g == [h EXCEPT !.ahead = Len(jobs) + 1]
<1>3. g \in Handlers(Possible) /\ (f = "control" => Named(g))
  BY <1>2 DEF Handlers, Named
<1>4. flow' = [flow EXCEPT ![f] = g]
  BY DEF AwaitJob
<1> HIDE DEF g
<1>5. flow' \in [Flows -> Handlers(Possible)] /\ Fine(flow')
  BY <1>3, <1>4, FlowSet DEF IInv, Typed
<1> QED BY <1>1, <1>5 DEF Fine

-----------------------------------------------------------------------------
(* SQLite. *)

LEMMA NearerKept == IInv => Nearer \in [Flows -> Handlers(Possible)] /\ Fine(Nearer)
<1> SUFFICES ASSUME IInv PROVE Nearer \in [Flows -> Handlers(Possible)] /\ Fine(Nearer)
  OBVIOUS
<1>1. ASSUME NEW f \in Flows
      PROVE  Nearer[f] \in Handlers(Possible) /\ (f = "control" => Named(Nearer[f]))
  <2> DEFINE n == IF flow[f].ahead > 0 THEN flow[f].ahead - 1 ELSE 0
             h == [flow[f] EXCEPT !.ahead = n]
  <2>1. Nearer[f] = h
    BY DEF Nearer
  <2>2. n \in Int
    BY Flow DEF Handlers
  <2> HIDE DEF n
  <2>3. h \in Handlers(Possible) /\ h.op = flow[f].op /\ h.pc = flow[f].pc
    BY <2>2, Flow DEF Handlers
  <2> QED BY <2>1, <2>3, Flow DEF Named
<1>2. Nearer \in [Flows -> Handlers(Possible)]
  BY <1>1 DEF Nearer
<1> QED BY <1>1, <1>2 DEF Fine, Flows

LEMMA ThrownKept ==
  ASSUME NEW S, Idle \in Handlers(S), NEW h \in Handlers(S)
  PROVE  Thrown(h) \in Handlers(S) /\ (Named(h) => Named(Thrown(h)))
<1>1. ASSUME NEW pc \in {"unbegun", "unsettled", "aborted"}, h.pc # "idle",
             Thrown(h) = [h EXCEPT !.pc = pc, !.ahead = 0]
      PROVE  Thrown(h) \in Handlers(S) /\ (Named(h) => Named(Thrown(h)))
  <2>1. pc \in Pcs
    BY DEF Pcs
  <2> DEFINE n == 0
  <2>2. n \in Int
    OBVIOUS
  <2> HIDE DEF n
  <2>3. [h EXCEPT !.pc = pc, !.ahead = n] \in Handlers(S) /\ [h EXCEPT !.pc = pc, !.ahead = n].op = h.op
    BY <2>1, <2>2 DEF Handlers
  <2>4. Thrown(h) \in Handlers(S) /\ Thrown(h).op = h.op
    BY <1>1, <2>3 DEF n
  <2> QED BY <1>1, <2>4 DEF Named
<1>2. Thrown(h) = Idle \/ (h.pc # "idle" /\ \E pc \in {"unbegun", "unsettled", "aborted"} :
                             Thrown(h) = [h EXCEPT !.pc = pc, !.ahead = 0])
  BY DEF Thrown
<1>3. Named(Idle)
  BY DEF Named, Idle
<1> QED BY <1>1, <1>2, <1>3

LEMMA DoneKept ==
  ASSUME IInv, NEW j \in Jobs(Possible)
  PROVE  Done(j) \in Tasks(Possible)
<1>1. disk \in Tasks(Possible) /\ j.u \in Updates(Possible)
  BY DEF IInv, Typed, Jobs
<1>2. Operation(flow["control"].op) \in Controls \cup {"none"}
  <2>1. Named(flow["control"])
    BY DEF IInv, Fine
  <2> QED BY <2>1 DEF Named, Presses, Operation, Controls
<1>3. j.u.st \in Possible /\ j.u.rev \in Nat
  BY <1>1 DEF Updates
<1>4. /\ Written(disk, j.u) \in Tasks(Possible)
      /\ Begun(disk, Operation(flow["control"].op), j.u.st) \in Tasks(Possible)
      /\ Prepared(disk) \in Tasks(Possible)
      /\ Contradicted(disk, j.u.rev) \in Tasks(Possible)
  BY <1>1, <1>2, <1>3, RowKept, PossibleIsWide
<1> QED BY <1>4 DEF Done, Jobs

LEMMA RunJobKept == IInv /\ RunJob => IInv' /\ Kept
<1> SUFFICES ASSUME IInv, RunJob PROVE IInv' /\ Kept
  OBVIOUS
<1>1. jobs # <<>> /\ jobs \in Seq(Jobs(Possible)) /\ jobs' = Tail(jobs)
  BY DEF RunJob, IInv, Typed
<1>2. Head(jobs) \in Jobs(Possible) /\ jobs' \in Seq(Jobs(Possible))
  BY <1>1, HeadTailProperties
<1>3. Head(jobs).w \in Flows
  BY <1>2 DEF Jobs
<1>4. disk' \in Tasks(Possible)
  BY <1>2, DoneKept DEF RunJob, IInv, Typed
<1>5. flow' \in [Flows -> Handlers(Possible)] /\ Fine(flow')
  <2>1. CASE flow' = Nearer
    BY <2>1, NearerKept
  <2>2. CASE flow' = [Nearer EXCEPT ![Head(jobs).w] = Thrown(@)]
    <3> DEFINE w == Head(jobs).w
               h == Nearer[w]
    <3>1. Nearer \in [Flows -> Handlers(Possible)] /\ Fine(Nearer)
      BY NearerKept
    <3>2. h \in Handlers(Possible) /\ (w = "control" => Named(h))
      BY <1>3, <3>1 DEF Fine
    <3>3. flow' = [Nearer EXCEPT ![w] = Thrown(h)]
      BY <2>2, <3>1
    <3> HIDE DEF h, w
    <3> QED BY <1>3, <3>1, <3>2, <3>3, ThrownKept, Constants, FlowSet DEF w
  <2> QED BY <2>1, <2>2 DEF RunJob
<1>6. UNCHANGED <<agent, native, wire, mem, upd>>
  BY DEF RunJob
<1>7. IInv'
  BY <1>2, <1>4, <1>5, <1>6, JsTyped DEF IInv, Typed, Fine
<1> QED BY <1>6, <1>7, Same DEF Kept

LEMMA FlushTimerKept == IInv /\ FlushTimer => IInv' /\ Kept
<1> SUFFICES ASSUME IInv, FlushTimer PROVE IInv' /\ Kept
  OBVIOUS
<1>1. disk' \in Tasks(Possible)
  <2>1. disk \in Tasks(Possible) /\ upd \in Updates(Possible)
    BY DEF IInv, Typed
  <2> QED BY <2>1, RowKept, PossibleIsWide DEF FlushTimer
<1>2. upd' \in Updates(Possible) /\ UNCHANGED <<agent, native, wire, mem, jobs, flow>>
  BY Constants DEF FlushTimer
<1>3. IInv'
  BY <1>1, <1>2, JsTyped DEF IInv, Typed, Fine
<1> QED BY <1>2, <1>3, Same DEF Kept

LEMMA DeliverKept == IInv /\ Deliver => IInv' /\ Kept
<1> SUFFICES ASSUME IInv, Deliver PROVE IInv' /\ Kept
  OBVIOUS
<1>1. wire # <<>> /\ wire \in Seq(Events(Possible)) /\ wire' = Tail(wire)
      /\ UNCHANGED <<agent, native, disk, jobs>> /\ Handle(Head(wire), restarting, flow)
  BY DEF Deliver, IInv, Typed
<1>2. Head(wire) \in Events(Possible) /\ wire' \in Seq(Events(Possible))
  BY <1>1, HeadTailProperties
<1>3. flow \in [Flows -> Handlers(Possible)] /\ Fine(flow)
  BY DEF IInv, Typed
<1>4. /\ mem' \in Tasks(Possible) /\ upd' \in Updates(Possible) /\ Follows(mem, mem')
      /\ flow' \in [Flows -> Handlers(Possible)] /\ Fine(flow)'
  BY <1>1, <1>2, <1>3, HandleKept
<1>5. IInv'
  BY <1>1, <1>2, <1>4, JsTyped DEF IInv, Typed
<1> QED BY <1>4, <1>5 DEF Kept

-----------------------------------------------------------------------------
(* The start. *)

LEMMA JsKept ==
  ASSUME IInv, UNCHANGED <<agent, native, wire, disk>>, mem' \in Tasks(Possible), Kept,
         upd' \in Updates(Possible), jobs' \in Seq(Jobs(Possible)),
         flow' \in [Flows -> Handlers(Possible)], Fine(flow)'
  PROVE  IInv' /\ Kept
BY JsTyped DEF IInv, Typed

LEMMA StartShown ==
  ASSUME IInv
  PROVE  /\ StartProjection(flow["start"]) \in Updates(Possible)
         /\ StartProjection(flow["start"]).st \in {"recovering", "transferring"}
<1> DEFINE s == flow["start"]
<1>1. s.was.rev \in Nat
  BY Flow DEF Flows, Tasks
<1>2. {"recovering", "transferring"} \subseteq Possible
  BY DEF Possible, Statuses
<1> HIDE DEF s
<1>3. /\ StartProjection(s) \in Updates(Possible)
      /\ StartProjection(s).st \in {"recovering", "transferring"}
  BY <1>1, <1>2 DEF StartProjection, Updates
<1> QED BY <1>3 DEF s

LEMMA StartLooksKept == IInv /\ StartLooks => IInv' /\ Kept
<1> SUFFICES ASSUME IInv, StartLooks PROVE IInv' /\ Kept
  OBVIOUS
<1> DEFINE s     == flow["start"]
           found == native # NoRecord
           res   == IF IsTerminal(native.st) THEN "false" ELSE "true"
           u     == StartProjection(s)
           note  == IF found THEN "found" ELSE "none"
           h     == [s EXCEPT !.pc = "manifest", !.note = note]
<1>1. UNCHANGED <<agent, native, wire, disk>>
  BY DEF StartLooks
<1>2. CASE HandleSnapshot(restarting, Told(res)) /\ UNCHANGED jobs
  <2>1. res \in Notes
    BY DEF Notes
  <2>2. Told(res) \in [Flows -> Handlers(Possible)] /\ Fine(Told(res))
    BY <2>1, ToldKept
  <2>3. /\ mem' \in Tasks(Possible) /\ upd' \in Updates(Possible) /\ Follows(mem, mem')
        /\ flow' \in [Flows -> Handlers(Possible)] /\ Fine(flow)'
    BY <1>2, <2>2, SnapshotKept
  <2> QED BY <1>1, <1>2, <2>3, JsKept DEF Kept, IInv, Typed
<1>3. CASE mem' = Applied(u) /\ AwaitWrites("start", Persisting(u), h)
  <2>1. u \in Updates(Possible) /\ ~IsTerminal(u.st)
    BY StartShown DEF IsTerminal
  <2>2. Applied(u) \in Tasks(Possible) /\ Persisting(u) \in Updates(Possible) /\ Follows(mem, Applied(u))
    BY <2>1, ProjectKept
  <2>3. "start" \in Flows /\ note \in Notes /\ "manifest" \in Pcs
    BY DEF Flows, Notes, Pcs
  <2> HIDE DEF note, u
  <2>4. s \in Handlers(Possible)
    BY <2>3, Flow
  <2> HIDE DEF s
  <2>5. h \in Handlers(Possible)
    BY <2>3, <2>4 DEF Handlers
  <2> HIDE DEF h
  <2>6. /\ upd' \in Updates(Possible) /\ jobs' \in Seq(Jobs(Possible))
        /\ flow' \in [Flows -> Handlers(Possible)] /\ Fine(flow)'
    BY <1>3, <2>2, <2>3, <2>5, AwaitWritesKept
  <2> QED BY <1>1, <1>3, <2>2, <2>6, JsKept DEF Kept
<1>4. CASE /\ mem' = Applied(u) /\ upd' = Persisting(u) /\ UNCHANGED jobs
           /\ flow' = [flow EXCEPT !["start"] = [h EXCEPT !.pc = "aborted"]]
  <2>1. u \in Updates(Possible) /\ ~IsTerminal(u.st)
    BY StartShown DEF IsTerminal
  <2>2. Applied(u) \in Tasks(Possible) /\ Persisting(u) \in Updates(Possible) /\ Follows(mem, Applied(u))
    BY <2>1, ProjectKept
  <2>3. "start" \in Flows /\ note \in Notes /\ "manifest" \in Pcs /\ "aborted" \in Pcs
    BY DEF Flows, Notes, Pcs
  <2> HIDE DEF note, u
  <2>4. s \in Handlers(Possible)
    BY <2>3, Flow
  <2> HIDE DEF s
  <2> DEFINE g == [h EXCEPT !.pc = "aborted"]
  <2>5. g \in Handlers(Possible)
    BY <2>3, <2>4 DEF Handlers
  <2> HIDE DEF h, g
  <2>6. flow \in [Flows -> Handlers(Possible)] /\ Fine(flow) /\ jobs' \in Seq(Jobs(Possible))
    BY <1>4 DEF IInv, Typed
  <2>7. flow' \in [Flows -> Handlers(Possible)] /\ Fine(flow)'
    BY <1>4, <2>3, <2>5, <2>6, FlowSet DEF g, Fine
  <2> QED BY <1>1, <1>4, <2>2, <2>6, <2>7, JsKept DEF Kept
<1> QED BY <1>2, <1>3, <1>4 DEF StartLooks

LEMMA RecordProjected ==
  ASSUME IInv, Project(ToUpdate([Event(native, FALSE) EXCEPT !.opt = FALSE]))
  PROVE  mem' \in Tasks(Possible) /\ upd' \in Updates(Possible) /\ Follows(mem, mem')
<1> DEFINE e == [Event(native, FALSE) EXCEPT !.opt = FALSE]
<1>1. e \in Events(Possible) /\ e.opt = FALSE
  <2>1. Event(native, FALSE) \in Events(Possible)
    BY EventOfRecord DEF IInv, Typed
  <2> QED BY <2>1 DEF Events
<1> HIDE DEF e
<1>2. ToUpdate(e) \in Updates(Possible) /\ ToUpdate(e).opt = FALSE
  BY <1>1, UpdateOfEvent
<1> QED BY <1>2, ProjectKept DEF Project, e

LEMMA StartEndsKept == IInv /\ (StartEnds \/ ReconcileEnds \/ ReconcileAborts) => IInv' /\ Kept
<1> SUFFICES ASSUME IInv, StartEnds \/ ReconcileEnds \/ ReconcileAborts PROVE IInv' /\ Kept
  OBVIOUS
<1>1. UNCHANGED <<agent, native, wire, disk, jobs>>
  BY DEF StartEnds, ReconcileEnds, ReconcileAborts, outside
<1>2. ASSUME NEW note \in {"true", "threw"}
      PROVE  Told(note) \in [Flows -> Handlers(Possible)] /\ Fine(Told(note))
  <2>1. {"true", "threw"} \subseteq Notes
    BY DEF Notes
  <2> QED BY <2>1, ToldKept
<1>3. /\ mem' \in Tasks(Possible) /\ upd' \in Updates(Possible) /\ Follows(mem, mem')
      /\ flow' \in [Flows -> Handlers(Possible)] /\ Fine(flow')
  <2>1. CASE StartEnds
    BY <1>2, <2>1, SnapshotKept DEF StartEnds, Fine
  <2>2. CASE ReconcileEnds
    BY <1>2, <2>2, RecordProjected DEF ReconcileEnds, Finish
  <2>3. CASE ReconcileAborts
    BY <1>2, <2>3, Same DEF ReconcileAborts, Finish, IInv, Typed
  <2> QED BY <2>1, <2>2, <2>3
<1>4. jobs' \in Seq(Jobs(Possible))
  BY <1>1 DEF IInv, Typed
<1> QED BY <1>1, <1>3, <1>4, JsKept DEF Kept, Fine

\* The start of a reconciliation that is not signed goes on to its end.
LEMMA UnsignedKept == IInv /\ ReconcileUnsigned => IInv' /\ Kept
<1> SUFFICES ASSUME IInv, ReconcileUnsigned PROVE IInv' /\ Kept
  OBVIOUS
<1>1. UNCHANGED <<agent, native, wire, disk, mem, upd, jobs>>
  BY DEF ReconcileUnsigned
<1>2. "start" \in Flows /\ "unreconciled" \in Pcs /\ flow["start"].pc # "idle"
  BY DEF Flows, Pcs, ReconcileUnsigned, At
<1>3. flow' \in [Flows -> Handlers(Possible)] /\ Fine(flow)'
  BY <1>2, GotoKept DEF ReconcileUnsigned
<1> QED BY <1>1, <1>3, Same, JsKept DEF Kept, IInv, Typed

LEMMA StartAbortsKept == IInv /\ StartAborts => IInv' /\ Kept
<1> SUFFICES ASSUME IInv, StartAborts PROVE IInv' /\ Kept
  OBVIOUS
<1>1. UNCHANGED <<agent, native, wire, disk, jobs>>
  BY DEF StartAborts, outside
<1> DEFINE res == IF IsTerminal(native.st) THEN "false" ELSE "true"
<1>2. res \in Notes /\ "threw" \in Notes
  BY DEF Notes
<1>3. jobs' \in Seq(Jobs(Possible))
  BY <1>1 DEF IInv, Typed
<1>4. CASE HandleSnapshot(FALSE, Told(res))
  <2>1. Told(res) \in [Flows -> Handlers(Possible)] /\ Fine(Told(res))
    BY <1>2, ToldKept
  <2> HIDE DEF res
  <2>2. /\ mem' \in Tasks(Possible) /\ upd' \in Updates(Possible) /\ Follows(mem, mem')
        /\ flow' \in [Flows -> Handlers(Possible)] /\ Fine(flow)'
    BY <1>4, <2>1, SnapshotKept
  <2> QED BY <1>1, <1>3, <2>2, JsKept DEF Kept
<1>5. CASE Finish("threw") /\ UNCHANGED <<mem, upd>>
  <2>1. flow' \in [Flows -> Handlers(Possible)] /\ Fine(flow')
    BY <1>2, <1>5, ToldKept DEF Finish
  <2> QED BY <1>1, <1>3, <1>5, <2>1, Same, JsKept DEF Kept, Fine, IInv, Typed
<1> QED BY <1>4, <1>5 DEF StartAborts

-----------------------------------------------------------------------------
(* The controls. *)

\* A control under way goes on.
LEMMA Control ==
  ASSUME IInv, c.pc # "idle"
  PROVE  /\ "control" \in Flows /\ c \in Handlers(Possible) /\ c.op \in Presses
         /\ c.was \in Tasks(Possible) /\ c.row \in Tasks(Possible)
         /\ \A pc \in Pcs, note \in Notes :
              /\ [c EXCEPT !.pc = pc] \in Handlers(Possible) /\ Named([c EXCEPT !.pc = pc])
              /\ [c EXCEPT !.pc = pc, !.note = note] \in Handlers(Possible)
              /\ Named([c EXCEPT !.pc = pc, !.note = note])
<1>1. "control" \in Flows
  BY DEF Flows
<1>2. c \in Handlers(Possible) /\ Named(c) /\ c.was \in Tasks(Possible) /\ c.row \in Tasks(Possible)
  BY <1>1, Flow DEF c
<1>3. c.op \in Presses
  BY <1>2 DEF Named
<1>4. ASSUME NEW pc \in Pcs, NEW note \in Notes
      PROVE  /\ [c EXCEPT !.pc = pc] \in Handlers(Possible) /\ Named([c EXCEPT !.pc = pc])
             /\ [c EXCEPT !.pc = pc, !.note = note] \in Handlers(Possible)
             /\ Named([c EXCEPT !.pc = pc, !.note = note])
  BY <1>2, <1>3 DEF Handlers, Named
<1> QED BY <1>1, <1>2, <1>3, <1>4

LEMMA BeginKept == IInv /\ (BeginWritten \/ Begins \/ BeginFails) => IInv' /\ Kept
<1> SUFFICES ASSUME IInv, BeginWritten \/ Begins \/ BeginFails PROVE IInv' /\ Kept
  OBVIOUS
<1>1. c.pc # "idle" /\ UNCHANGED <<agent, native, wire, disk>>
  BY DEF BeginWritten, Begins, BeginFails, Reached, At, outside, c
<1>2. /\ mem \in Tasks(Possible) /\ disk \in Tasks(Possible) /\ upd \in Updates(Possible)
      /\ jobs \in Seq(Jobs(Possible))
  BY DEF IInv, Typed
<1>3. mem' \in Tasks(Possible) /\ Follows(mem, mem')
  <2>1. CASE UNCHANGED mem
    BY <1>2, <2>1, Same
  <2>2. CASE mem' = MergedPersisted(mem, disk)
    BY <1>2, <2>2, PersistedFollows, PossibleIsWide
  <2>3. CASE mem' = c.was /\ mem.pend = Operation(c.op) /\ ~(mem.rev > c.was.rev)
    <3>1. c.was \in Tasks(Possible) /\ c.op \in Presses
      BY <1>1, Control
    <3>2. mem.pend # "none"
      BY <2>3, <3>1 DEF Operation, Presses, Controls
    <3>3. mem.opt /\ c.was.rev >= mem.rev
      BY <1>2, <2>3, <3>1, <3>2 DEF Tasks
    <3> QED BY <2>3, <3>1, <3>3 DEF Follows, Settled
  <2> QED BY <2>1, <2>2, <2>3 DEF BeginWritten, Begins, BeginFails
<1>4. /\ upd' \in Updates(Possible) /\ jobs' \in Seq(Jobs(Possible))
      /\ flow' \in [Flows -> Handlers(Possible)] /\ Fine(flow)'
  <2>1. CASE AwaitWrites("control", upd, [c EXCEPT !.pc = "reread"])
    <3>1. "reread" \in Pcs /\ "none" \in Notes
      BY DEF Pcs, Notes
    <3> QED BY <1>1, <1>2, <2>1, <3>1, Control, AwaitWritesKept
  <2>2. CASE UNCHANGED <<upd, jobs>> /\ \E pc \in {"look", "waiting", "caught"} : Goto("control", pc)
    <3>1. {"look", "waiting", "caught"} \subseteq Pcs
      BY DEF Pcs
    <3>2. flow' \in [Flows -> Handlers(Possible)] /\ Fine(flow)'
      BY <1>1, <2>2, <3>1, Control, GotoKept DEF At, c
    <3> QED BY <1>2, <2>2, <3>2
  <2> QED BY <2>1, <2>2 DEF BeginWritten, Begins, BeginFails
<1> QED BY <1>1, <1>3, <1>4, JsKept DEF Kept

LEMMA LooksKept == IInv /\ (Waited \/ ControlLooks) => IInv' /\ Kept
<1> SUFFICES ASSUME IInv, Waited \/ ControlLooks PROVE IInv' /\ Kept
  OBVIOUS
<1>1. c.pc # "idle" /\ UNCHANGED <<agent, native, wire, disk, mem, upd, jobs>>
  BY DEF Waited, ControlLooks, At, outside, c
<1>2. flow' \in [Flows -> Handlers(Possible)] /\ Fine(flow)'
  <2>1. CASE \E pc \in {"look", "call", "caught"} : Goto("control", pc)
    <3>1. {"look", "call", "caught"} \subseteq Pcs
      BY DEF Pcs
    <3> QED BY <1>1, <2>1, <3>1, Control, GotoKept DEF At, c
  <2>2. CASE Ends("control")
    BY <1>1, <2>2, Control, EndsKept
  <2>3. CASE CallStart("control", c, "recover")
    <3>1. "control" \in Flows \ {"start"}
      BY DEF Flows
    <3> QED BY <1>1, <2>3, <3>1, Control, CallStartKept
  <2> QED BY <2>1, <2>2, <2>3 DEF Waited, ControlLooks
<1> QED BY <1>1, <1>2, Same, JsKept DEF Kept, IInv, Typed

LEMMA ControlStartedKept == IInv /\ ControlStarted => IInv' /\ Kept
<1> SUFFICES ASSUME IInv, ControlStarted PROVE IInv' /\ Kept
  OBVIOUS
<1>1. c.pc # "idle" /\ UNCHANGED <<agent, native, wire, disk, jobs>>
  BY DEF ControlStarted, At, outside, c
<1>2. mem' \in Tasks(Possible) /\ upd' \in Updates(Possible) /\ Follows(mem, mem')
  BY ReportKept DEF ControlStarted
<1>3. flow' \in [Flows -> Handlers(Possible)] /\ Fine(flow)'
  <2>1. {"caught", "call"} \subseteq Pcs /\ "notfound" \in Notes
    BY DEF Pcs, Notes
  <2>2. CASE flow' = [flow EXCEPT !["control"].pc = "caught", !["control"].note = "notfound"]
    <3> DEFINE h == [c EXCEPT !.pc = "caught", !.note = "notfound"]
    <3>1. h \in Handlers(Possible) /\ Named(h) /\ "control" \in Flows
      BY <1>1, <2>1, Control
    <3>2. flow' = [flow EXCEPT !["control"] = h]
      BY <2>2, <3>1 DEF c, IInv, Typed
    <3> HIDE DEF h
    <3>3. flow' \in [Flows -> Handlers(Possible)] /\ Fine(flow')
      BY <3>1, <3>2, FlowSet DEF IInv, Typed
    <3> QED BY <3>3 DEF Fine
  <2>3. CASE Ends("control")
    BY <1>1, <2>3, Control, EndsKept
  <2>4. CASE \E pc \in {"call", "caught"} : Goto("control", pc)
    BY <1>1, <2>1, <2>4, Control, GotoKept DEF At, c
  <2> QED BY <2>2, <2>3, <2>4 DEF ControlStarted
<1>4. jobs' \in Seq(Jobs(Possible))
  BY <1>1 DEF IInv, Typed
<1> QED BY <1>1, <1>2, <1>3, <1>4, JsKept DEF Kept

LEMMA AnsweredKept == IInv /\ (ControlAnswered \/ ControlSettles) => IInv' /\ Kept
<1> SUFFICES ASSUME IInv, ControlAnswered \/ ControlSettles PROVE IInv' /\ Kept
  OBVIOUS
<1>1. c.pc # "idle" /\ UNCHANGED <<agent, native, wire, disk, mem>>
  BY DEF ControlAnswered, ControlSettles, Reached, At, outside, c
<1>2. {"settling", "settled", "unsettled"} \subseteq Pcs /\ "none" \in Notes
  BY DEF Pcs, Notes
<1>3. upd \in Updates(Possible) /\ jobs \in Seq(Jobs(Possible))
  BY DEF IInv, Typed
<1>4. /\ upd' \in Updates(Possible) /\ jobs' \in Seq(Jobs(Possible))
      /\ flow' \in [Flows -> Handlers(Possible)] /\ Fine(flow)'
  <2>1. CASE ControlAnswered
    BY <1>1, <1>2, <1>3, <2>1, Control, AwaitWritesKept DEF ControlAnswered
  <2>2. CASE Goto("control", "unsettled") /\ UNCHANGED <<upd, jobs>>
    BY <1>1, <1>2, <1>3, <2>2, Control, GotoKept DEF At, c
  <2>3. CASE AwaitJob("control", [c EXCEPT !.pc = "settled"], "apply", Settlement) /\ UNCHANGED upd
    <3>1. c.row.st \in Possible /\ c.row.rev \in Nat
      BY <1>1, Control DEF Tasks
    <3>2. Settlement \in Updates(Possible)
      BY <3>1 DEF Settlement, NoUpdate, Updates
    <3> QED BY <1>1, <1>2, <1>3, <2>3, <3>2, Control, AwaitJobKept
  <2> QED BY <2>1, <2>2, <2>3 DEF ControlSettles
<1> QED BY <1>1, <1>4, Same, JsKept DEF Kept, IInv, Typed

LEMMA ControlEndsKept == IInv /\ ControlEnds => IInv' /\ Kept
<1> SUFFICES ASSUME IInv, ControlEnds PROVE IInv' /\ Kept
  OBVIOUS
<1>1. /\ c.pc # "idle" /\ UNCHANGED <<agent, native, wire, disk, jobs>>
      /\ Ends("control") \/ Goto("control", "restart")
  BY DEF ControlEnds, Reached, At, outside, c
<1>2. mem \in Tasks(Possible) /\ upd \in Updates(Possible) /\ jobs \in Seq(Jobs(Possible))
  BY DEF IInv, Typed
<1>3. c.row \in Tasks(Possible) /\ c.op \in Presses
  BY <1>1, Control
<1>4. mem' \in Tasks(Possible) /\ Follows(mem, mem')
  <2>1. CASE TakesAnswer /\ mem' = Resolved
    <3>1. mem.pend # "none" /\ mem.rev <= c.row.rev
      BY <1>3, <2>1 DEF TakesAnswer, Operation, Presses, Controls
    <3>2. mem.opt
      BY <1>2, <3>1 DEF Tasks
    <3>3. Resolved \in Tasks(Possible) /\ Resolved.rev = c.row.rev
      BY <1>2, <1>3 DEF Resolved, Tasks
    <3>4. mem.rev \in Nat /\ c.row.rev \in Nat
      BY <1>2, <1>3 DEF Tasks
    <3> QED BY <2>1, <3>1, <3>2, <3>3, <3>4 DEF Follows, Settled
  <2>2. CASE mem' = mem
    BY <1>2, <2>2, Same
  <2> QED BY <2>1, <2>2 DEF ControlEnds
<1>5. upd' \in Updates(Possible)
  <2> DEFINE u == [Settlement EXCEPT !.bad = mem.bad]
  <2>1. c.row.st \in Possible /\ c.row.rev \in Nat /\ mem.bad \in BOOLEAN
    BY <1>2, <1>3 DEF Tasks
  <2>2. u \in Updates(Possible)
    BY <2>1 DEF Settlement, NoUpdate, Updates
  <2> HIDE DEF u
  <2>3. Enqueued(u) \in Updates(Possible)
    BY <1>2, <2>2, CoalescedKept DEF Enqueued
  <2> QED BY <1>2, <2>3 DEF ControlEnds, u
<1>6. flow' \in [Flows -> Handlers(Possible)] /\ Fine(flow)'
  <2>1. "restart" \in Pcs /\ "control" \in Flows
    BY DEF Pcs, Flows
  <2> QED BY <1>1, <2>1, EndsKept, GotoKept DEF At, c
<1> QED BY <1>1, <1>2, <1>4, <1>5, <1>6, JsKept DEF Kept

LEMMA ControlRestartsKept == IInv /\ ControlRestarts => IInv' /\ Kept
<1> SUFFICES ASSUME IInv, ControlRestarts PROVE IInv' /\ Kept
  OBVIOUS
<1>1. /\ c.pc # "idle" /\ UNCHANGED <<agent, native, wire, disk, mem, upd, jobs>>
      /\ CallStart("control", c, "recover")
  BY DEF ControlRestarts, At, outside, c
<1>2. flow' \in [Flows -> Handlers(Possible)] /\ Fine(flow)'
  BY <1>1, Control, CallStartKept DEF Named
<1> QED BY <1>1, <1>2, Same, JsKept DEF Kept, IInv, Typed

LEMMA ControlMissingKept == IInv /\ ControlMissing => IInv' /\ Kept
<1> SUFFICES ASSUME IInv, ControlMissing PROVE IInv' /\ Kept
  OBVIOUS
<1>1. c.pc # "idle" /\ UNCHANGED <<agent, native, wire, disk, mem, upd, jobs>>
  BY DEF ControlMissing, At, outside, c
<1>2. /\ "control" \in Flows /\ c \in Handlers(Possible) /\ c.op \in Presses
      /\ c.was \in Tasks(Possible) /\ c.row \in Tasks(Possible)
  BY <1>1, Control
<1> DEFINE r == [c.row EXCEPT !.st = "recovering", !.rev = c.was.rev]
           h == [c EXCEPT !.pc = "answered", !.row = r]
<1>3. "recovering" \in Possible /\ "answered" \in Pcs
  BY DEF Possible, Statuses, Pcs
<1>4. r \in Tasks(Possible)
  BY <1>2, <1>3 DEF Tasks
<1>5. flow \in [Flows -> Handlers(Possible)] /\ Fine(flow)
  BY DEF IInv, Typed
<1>6. flow' = [flow EXCEPT !["control"] = h]
  BY <1>2, <1>5 DEF ControlMissing, c, Handlers
<1> HIDE DEF r
<1>7. h \in Handlers(Possible) /\ Named(h)
  BY <1>2, <1>3, <1>4 DEF Handlers, Named
<1> HIDE DEF h
<1>8. flow' \in [Flows -> Handlers(Possible)] /\ Fine(flow)'
  BY <1>2, <1>5, <1>6, <1>7, FlowSet DEF Fine
<1> QED BY <1>1, <1>8, Same, JsKept DEF Kept, IInv, Typed

LEMMA ControlCaughtKept == IInv /\ ControlCaught => IInv' /\ Kept
<1> SUFFICES ASSUME IInv, ControlCaught PROVE IInv' /\ Kept
  OBVIOUS
<1> DEFINE e    == Event(native, FALSE)
           told == native # NoRecord /\ Projected(e, restarting)
           m    == IF told THEN Merged(mem, ToUpdate(e)) ELSE mem
           q    == IF told THEN Enqueued(ToUpdate(e)) ELSE upd
<1>1. c.pc # "idle" /\ UNCHANGED <<agent, native, wire, disk, jobs>>
  BY DEF ControlCaught, At, outside, c
<1>2. /\ mem \in Tasks(Possible) /\ upd \in Updates(Possible) /\ jobs \in Seq(Jobs(Possible))
      /\ flow \in [Flows -> Handlers(Possible)] /\ Fine(flow)
  BY DEF IInv, Typed
<1>3. /\ "control" \in Flows /\ c \in Handlers(Possible) /\ c.op \in Presses
      /\ c.was \in Tasks(Possible) /\ c.row \in Tasks(Possible)
  BY <1>1, Control
<1>4. CASE HandleSnapshot(restarting, [flow EXCEPT !["control"] = Idle])
  <2>1. Named(Idle)
    BY DEF Named, Idle
  <2>2. [flow EXCEPT !["control"] = Idle] \in [Flows -> Handlers(Possible)]
        /\ Fine([flow EXCEPT !["control"] = Idle])
    BY <1>2, <1>3, <2>1, Constants, FlowSet
  <2>3. /\ mem' \in Tasks(Possible) /\ upd' \in Updates(Possible) /\ Follows(mem, mem')
        /\ flow' \in [Flows -> Handlers(Possible)] /\ Fine(flow)'
    BY <1>4, <2>2, SnapshotKept
  <2> QED BY <1>1, <1>2, <2>3, JsKept DEF Kept
<1>5. CASE HandleSnapshot(restarting, [flow EXCEPT !["control"].pc = "answered",
             !["control"].row.st = "cancelled", !["control"].row.rev = c.was.rev])
  <2> DEFINE r == [c.row EXCEPT !.st = "cancelled", !.rev = c.was.rev]
             h == [c EXCEPT !.pc = "answered", !.row = r]
             F == [flow EXCEPT !["control"] = h]
  <2>1. "cancelled" \in Possible /\ "answered" \in Pcs
    BY DEF Possible, Statuses, Pcs
  <2>2. r \in Tasks(Possible)
    BY <1>3, <2>1 DEF Tasks
  <2>3. F = [flow EXCEPT !["control"].pc = "answered",
               !["control"].row.st = "cancelled", !["control"].row.rev = c.was.rev]
    BY <1>2, <1>3 DEF c, Handlers
  <2> HIDE DEF r
  <2>4. h \in Handlers(Possible) /\ Named(h)
    BY <1>3, <2>1, <2>2 DEF Handlers, Named
  <2> HIDE DEF h
  <2>5. F \in [Flows -> Handlers(Possible)] /\ Fine(F)
    BY <1>2, <1>3, <2>4, FlowSet
  <2> HIDE DEF F
  <2>6. /\ mem' \in Tasks(Possible) /\ upd' \in Updates(Possible) /\ Follows(mem, mem')
        /\ flow' \in [Flows -> Handlers(Possible)] /\ Fine(flow)'
    BY <1>5, <2>3, <2>5, SnapshotKept
  <2> QED BY <1>1, <1>2, <2>6, JsKept DEF Kept
<1>6. CASE /\ mem' = IF RollsBack(m) THEN RolledBack(m) ELSE m
           /\ upd' = IF ~RollsBack(m) THEN q
                     ELSE IF q = NoUpdate THEN Rollback(m) ELSE Coalesced(q, Rollback(m))
           /\ Ends("control")
  <2>1. e \in Events(Possible)
    BY EventOfRecord DEF IInv, Typed
  <2> HIDE DEF e
  <2>2. ToUpdate(e) \in Updates(Possible) /\ ToUpdate(e).opt = e.opt
    BY <2>1, UpdateOfEvent
  <2>3. told => ~Ignored(mem, ToUpdate(e)) /\ (e.opt => mem.pend # "none")
    BY DEF Projected, Taken, Matches
  <2>4. m \in Tasks(Possible) /\ Follows(mem, m)
    BY <1>2, <2>2, <2>3, MergedFollows, Same
  <2>5. q \in Updates(Possible)
    BY <1>2, <2>2, CoalescedKept DEF Enqueued
  <2> HIDE DEF m, q
  <2>6. c.was.st \in Possible
    BY <1>3 DEF Tasks
  <2>7. RolledBack(m) \in Tasks(Possible) /\ (RollsBack(m) => Follows(mem, RolledBack(m)))
    BY <2>4, <2>6 DEF RolledBack, RollsBack, Tasks, Follows, Settled
  <2>8. Rollback(m) \in Updates(Possible)
    BY <2>4, <2>6 DEF Rollback, NoUpdate, Updates, Tasks
  <2>9. mem' \in Tasks(Possible) /\ Follows(mem, mem') /\ upd' \in Updates(Possible)
    BY <1>6, <2>4, <2>5, <2>7, <2>8, CoalescedKept
  <2>10. flow' \in [Flows -> Handlers(Possible)] /\ Fine(flow)'
    BY <1>3, <1>6, EndsKept
  <2> QED BY <1>1, <1>2, <2>9, <2>10, JsKept DEF Kept
<1> QED BY <1>4, <1>5, <1>6 DEF ControlCaught

LEMMA PressKept ==
  ASSUME IInv, NEW op \in Presses, Press(op)
  PROVE  IInv' /\ Kept
<1> DEFINE st == Optimistic(op)
           h  == [Idle EXCEPT !.pc = "begin", !.op = op, !.was = mem]
           u  == [NoUpdate EXCEPT !.st = st]
<1>1. UNCHANGED <<agent, native, wire, disk, upd>>
  BY DEF Press
<1>2. mem \in Tasks(Possible) /\ upd \in Updates(Possible) /\ "control" \in Flows /\ "begin" \in Pcs
  BY DEF IInv, Typed, Flows, Pcs
<1>3. Operation(op) \in Controls /\ st \in Possible
  BY DEF Operation, Presses, Controls, Optimistic, Wanted, Possible, Statuses
<1>4. mem' = [mem EXCEPT !.opt = TRUE, !.pend = Operation(op), !.st = st]
  BY DEF Press
<1>5. ~Settled(mem)
  BY DEF Press, Offered, Active, Settled, IsTerminal, Presses, Controls
<1> HIDE DEF st
<1>6. mem' \in Tasks(Possible) /\ Follows(mem, mem')
  <2> DEFINE asked == Operation(op)
             r     == [mem EXCEPT !.opt = TRUE, !.pend = asked, !.st = st]
  <2>1. asked \in Controls
    BY <1>3
  <2> HIDE DEF asked
  <2>2. r \in Tasks(Possible) /\ r.rev = mem.rev /\ mem.rev \in Nat
    BY <1>2, <1>3, <2>1 DEF Tasks
  <2>3. mem' = r
    BY <1>4 DEF asked
  <2> HIDE DEF r
  <2> QED BY <1>5, <2>2, <2>3 DEF Follows
<1>7. u \in Updates(Possible)
  BY <1>3, Constants DEF NoUpdate, Updates
<1>8. h \in Handlers(Possible) /\ Named(h)
  BY <1>2, Constants DEF Handlers, Named
<1>9. AwaitJob("control", h, "begin", u)
  BY DEF Press, st
<1> HIDE DEF h, u
<1>10. /\ jobs' \in Seq(Jobs(Possible))
       /\ flow' \in [Flows -> Handlers(Possible)] /\ Fine(flow)'
  BY <1>2, <1>7, <1>8, <1>9, AwaitJobKept
<1> QED BY <1>1, <1>2, <1>6, <1>10, JsKept DEF Kept

-----------------------------------------------------------------------------
(* The screens, the root and the evidence. *)

LEMMA Shows ==
  ASSUME IInv, NEW f \in Flows \ {"control"}
  PROVE  /\ f \in Flows
         /\ \A pc \in Pcs : [flow[f] EXCEPT !.pc = pc] \in Handlers(Possible)
                           /\ [Idle EXCEPT !.pc = pc] \in Handlers(Possible)
BY Flow, Constants DEF Handlers

LEMMA StartQueuedKept == IInv /\ StartQueued => IInv' /\ Kept
<1> SUFFICES ASSUME IInv, StartQueued PROVE IInv' /\ Kept
  OBVIOUS
<1>1. UNCHANGED <<agent, native, wire, disk, mem, upd, jobs>> /\ CallStart("page", Idle, "first")
  BY DEF StartQueued, outside
<1>2. "page" \in Flows \ {"start"} /\ "page" # "control"
  BY DEF Flows
<1>3. flow' \in [Flows -> Handlers(Possible)] /\ Fine(flow)'
  BY <1>1, <1>2, Constants, CallStartKept
<1> QED BY <1>1, <1>3, Same, JsKept DEF Kept, IInv, Typed

LEMMA OpenPageKept == IInv /\ OpenPage => IInv' /\ Kept
<1> SUFFICES ASSUME IInv, OpenPage PROVE IInv' /\ Kept
  OBVIOUS
<1>1. UNCHANGED <<agent, native, wire, disk, mem>>
  BY DEF OpenPage
<1>2. "page" \in Flows \ {"start", "control"} /\ "reading" \in Pcs
  BY DEF Flows, Pcs
<1>3. upd \in Updates(Possible) /\ jobs \in Seq(Jobs(Possible))
  BY DEF IInv, Typed
<1>4. CASE CallStart("page", Idle, "recover") /\ UNCHANGED <<upd, jobs>>
  <2>1. flow' \in [Flows -> Handlers(Possible)] /\ Fine(flow)'
    BY <1>2, <1>4, Constants, CallStartKept
  <2> QED BY <1>1, <1>3, <1>4, <2>1, Same, JsKept DEF Kept, IInv, Typed
<1>5. CASE AwaitWrites("page", upd, [Idle EXCEPT !.pc = "reading"])
  <2>1. [Idle EXCEPT !.pc = "reading"] \in Handlers(Possible)
    BY <1>2, Shows
  <2>2. /\ upd' \in Updates(Possible) /\ jobs' \in Seq(Jobs(Possible))
        /\ flow' \in [Flows -> Handlers(Possible)] /\ Fine(flow)'
    BY <1>2, <1>3, <1>5, <2>1, AwaitWritesKept
  <2> QED BY <1>1, <2>2, Same, JsKept DEF Kept, IInv, Typed
<1> QED BY <1>4, <1>5 DEF OpenPage

LEMMA PageStepKept == IInv /\ PageStep => IInv' /\ Kept
<1> SUFFICES ASSUME IInv, PageStep PROVE IInv' /\ Kept
  OBVIOUS
<1> DEFINE p == flow["page"]
<1>1. UNCHANGED <<agent, native, wire, disk, jobs>>
  BY DEF PageStep, outside
<1>2. "page" \in Flows \ {"start", "control"} /\ {"read", "recover"} \subseteq Pcs
  BY DEF Flows, Pcs
<1>3. /\ mem \in Tasks(Possible) /\ upd \in Updates(Possible) /\ jobs \in Seq(Jobs(Possible))
      /\ flow \in [Flows -> Handlers(Possible)] /\ Fine(flow) /\ disk \in Tasks(Possible)
      /\ p \in Handlers(Possible) /\ p.row \in Tasks(Possible)
  BY <1>2, Flow DEF IInv, Typed
<1>4. CASE flow' = [flow EXCEPT !["page"].pc = "read", !["page"].row = disk] /\ UNCHANGED <<mem, upd>>
  <2> DEFINE h == [p EXCEPT !.pc = "read", !.row = disk]
  <2>1. h \in Handlers(Possible)
    BY <1>2, <1>3 DEF Handlers
  <2>2. flow' = [flow EXCEPT !["page"] = h]
    BY <1>2, <1>3, <1>4
  <2> HIDE DEF h
  <2>3. flow' \in [Flows -> Handlers(Possible)] /\ Fine(flow')
    BY <1>2, <1>3, <2>1, <2>2, FlowSet
  <2> QED BY <1>1, <1>3, <1>4, <2>3, Same, JsKept DEF Kept, Fine
<1>5. CASE /\ mem' = Hydrated(p.row) /\ UNCHANGED upd
           /\ Goto("page", "recover") \/ Ends("page")
  <2>1. mem' \in Tasks(Possible) /\ Kept
    BY <1>3, <1>5, HydratedFollows, PossibleIsWide DEF Kept
  <2>2. flow' \in [Flows -> Handlers(Possible)] /\ Fine(flow)'
    BY <1>2, <1>5, GotoKept, EndsKept
  <2> QED BY <1>1, <1>3, <1>5, <2>1, <2>2, JsKept
<1>6. CASE CallStart("page", p, "recover") /\ UNCHANGED <<mem, upd>>
  <2>1. flow' \in [Flows -> Handlers(Possible)] /\ Fine(flow)'
    BY <1>2, <1>3, <1>6, CallStartKept
  <2> QED BY <1>1, <1>3, <1>6, <2>1, Same, JsKept DEF Kept
<1>7. CASE ReportStart(p.note) /\ Ends("page")
  <2>1. mem' \in Tasks(Possible) /\ upd' \in Updates(Possible) /\ Follows(mem, mem')
    BY <1>7, ReportKept
  <2>2. flow' \in [Flows -> Handlers(Possible)] /\ Fine(flow)'
    BY <1>2, <1>7, EndsKept
  <2> QED BY <1>1, <1>3, <2>1, <2>2, JsKept DEF Kept
<1> QED BY <1>4, <1>5, <1>6, <1>7 DEF PageStep

LEMMA BootStepKept == IInv /\ BootStep => IInv' /\ Kept
<1> SUFFICES ASSUME IInv, BootStep PROVE IInv' /\ Kept
  OBVIOUS
<1>1. UNCHANGED <<agent, native, wire, disk>>
  BY DEF BootStep, outside
<1>2. "boot" \in Flows \ {"start", "control"} /\ {"prepare", "prepared", "start"} \subseteq Pcs
  BY DEF Flows, Pcs
<1>3. /\ mem \in Tasks(Possible) /\ upd \in Updates(Possible) /\ jobs \in Seq(Jobs(Possible))
      /\ disk \in Tasks(Possible)
  BY DEF IInv, Typed
<1>4. /\ [Idle EXCEPT !.pc = "prepare"] \in Handlers(Possible)
      /\ [Idle EXCEPT !.pc = "prepared"] \in Handlers(Possible)
  BY <1>2, Shows
<1>5. CASE /\ mem' = Hydrated(disk) /\ UNCHANGED upd
           /\ AwaitJob("boot", [Idle EXCEPT !.pc = "prepare"], "prepare", NoUpdate)
  <2>1. mem' \in Tasks(Possible) /\ Kept
    BY <1>3, <1>5, HydratedFollows, PossibleIsWide DEF Kept
  <2>2. /\ jobs' \in Seq(Jobs(Possible))
        /\ flow' \in [Flows -> Handlers(Possible)] /\ Fine(flow)'
    BY <1>2, <1>4, <1>5, Constants, AwaitJobKept
  <2> QED BY <1>1, <1>3, <1>5, <2>1, <2>2, JsKept
<1>6. CASE AwaitWrites("boot", upd, [Idle EXCEPT !.pc = "prepared"]) /\ UNCHANGED mem
  <2>1. /\ upd' \in Updates(Possible) /\ jobs' \in Seq(Jobs(Possible))
        /\ flow' \in [Flows -> Handlers(Possible)] /\ Fine(flow)'
    BY <1>2, <1>3, <1>4, <1>6, AwaitWritesKept
  <2> QED BY <1>1, <1>3, <1>6, <2>1, Same, JsKept DEF Kept
<1>7. CASE Ends("boot") /\ UNCHANGED <<mem, upd, jobs>>
  <2>1. flow' \in [Flows -> Handlers(Possible)] /\ Fine(flow)'
    BY <1>2, <1>7, EndsKept
  <2> QED BY <1>1, <1>3, <1>7, <2>1, Same, JsKept DEF Kept
<1>8. CASE /\ mem' = IF mem = NoRow \/ disk = NoRow THEN disk ELSE Recovering(mem, disk)
           /\ Goto("boot", "start") /\ UNCHANGED <<upd, jobs>>
  <2>1. mem' \in Tasks(Possible) /\ Kept
    <3>1. CASE mem = NoRow \/ disk = NoRow
      BY <1>3, <1>8, <3>1 DEF Kept
    <3>2. CASE ~(mem = NoRow \/ disk = NoRow)
      BY <1>3, <1>8, <3>2, RecoveringFollows, PossibleIsWide DEF Kept
    <3> QED BY <3>1, <3>2
  <2>2. flow' \in [Flows -> Handlers(Possible)] /\ Fine(flow)'
    BY <1>2, <1>8, GotoKept
  <2> QED BY <1>1, <1>3, <1>8, <2>1, <2>2, JsKept
<1>9. CASE CallStart("boot", Idle, "recover") /\ UNCHANGED <<mem, upd, jobs>>
  <2>1. flow' \in [Flows -> Handlers(Possible)] /\ Fine(flow)'
    BY <1>2, <1>9, Constants, CallStartKept
  <2> QED BY <1>1, <1>3, <1>9, <2>1, Same, JsKept DEF Kept
<1>10. CASE ReportStart(flow["boot"].note) /\ Ends("boot") /\ UNCHANGED jobs
  <2>1. mem' \in Tasks(Possible) /\ upd' \in Updates(Possible) /\ Follows(mem, mem')
    BY <1>10, ReportKept
  <2>2. flow' \in [Flows -> Handlers(Possible)] /\ Fine(flow)'
    BY <1>2, <1>10, EndsKept
  <2> QED BY <1>1, <1>3, <1>10, <2>1, <2>2, JsKept DEF Kept
<1> QED BY <1>5, <1>6, <1>7, <1>8, <1>9, <1>10 DEF BootStep

LEMMA EvidenceStepKept == IInv /\ EvidenceStep => IInv' /\ Kept
<1> SUFFICES ASSUME IInv, EvidenceStep PROVE IInv' /\ Kept
  OBVIOUS
<1> DEFINE g == flow["evidence"]
           u == [NoUpdate EXCEPT !.rev = g.row.rev]
<1>1. UNCHANGED <<agent, native, wire, disk>>
  BY DEF EvidenceStep, outside
<1>2. "evidence" \in Flows \ {"start", "control"} /\ {"flushed", "written", "reread"} \subseteq Pcs
  BY DEF Flows, Pcs
<1>3. /\ mem \in Tasks(Possible) /\ upd \in Updates(Possible) /\ jobs \in Seq(Jobs(Possible))
      /\ disk \in Tasks(Possible) /\ g.row \in Tasks(Possible)
  BY <1>2, Flow DEF IInv, Typed
<1>4. \A pc \in {"flushed", "written", "reread"} : [g EXCEPT !.pc = pc] \in Handlers(Possible)
  BY <1>2, Shows
<1>5. u \in Updates(Possible)
  BY <1>3, Constants DEF NoUpdate, Updates, Tasks
<1>6. CASE UNCHANGED mem /\ \E pc \in {"flushed", "reread"} : AwaitWrites("evidence", upd, [g EXCEPT !.pc = pc])
  <2>1. /\ upd' \in Updates(Possible) /\ jobs' \in Seq(Jobs(Possible))
        /\ flow' \in [Flows -> Handlers(Possible)] /\ Fine(flow)'
    BY <1>2, <1>3, <1>4, <1>6, AwaitWritesKept
  <2> QED BY <1>1, <1>3, <1>6, <2>1, Same, JsKept DEF Kept
<1>7. CASE AwaitJob("evidence", [g EXCEPT !.pc = "written"], "mismatch", u) /\ UNCHANGED <<mem, upd>>
  <2> HIDE DEF u
  <2>1. /\ jobs' \in Seq(Jobs(Possible))
        /\ flow' \in [Flows -> Handlers(Possible)] /\ Fine(flow)'
    BY <1>2, <1>4, <1>5, <1>7, AwaitJobKept
  <2> QED BY <1>1, <1>3, <1>7, <2>1, Same, JsKept DEF Kept
<1>8. CASE mem' = Hydrated(disk) /\ Ends("evidence") /\ UNCHANGED <<upd, jobs>>
  <2>1. mem' \in Tasks(Possible) /\ Kept
    BY <1>3, <1>8, HydratedFollows, PossibleIsWide DEF Kept
  <2>2. flow' \in [Flows -> Handlers(Possible)] /\ Fine(flow)'
    BY <1>2, <1>8, EndsKept
  <2> QED BY <1>1, <1>3, <1>8, <2>1, <2>2, JsKept
<1> QED BY <1>6, <1>7, <1>8 DEF EvidenceStep

-----------------------------------------------------------------------------
(* The uploader and the Agent: when the Agent moves on, more statuses can occur. *)

LEMMA WiderSeq ==
  ASSUME NEW A, NEW B, A \subseteq B
  PROVE  Seq(A) \subseteq Seq(B)
BY SeqDef

LEMMA Wider ==
  ASSUME NEW S, NEW T, S \subseteq T
  PROVE  /\ Tasks(S) \subseteq Tasks(T) /\ Updates(S) \subseteq Updates(T)
         /\ Events(S) \subseteq Events(T) /\ Records(S) \subseteq Records(T)
         /\ Handlers(S) \subseteq Handlers(T) /\ Jobs(S) \subseteq Jobs(T)
         /\ Seq(Events(S)) \subseteq Seq(Events(T)) /\ Seq(Jobs(S)) \subseteq Seq(Jobs(T))
         /\ [Flows -> Handlers(S)] \subseteq [Flows -> Handlers(T)]
<1>1. Tasks(S) \subseteq Tasks(T)
  BY DEF Tasks
<1>2. Updates(S) \subseteq Updates(T)
  BY DEF Updates
<1>3. Events(S) \subseteq Events(T)
  BY DEF Events
<1>4. Records(S) \subseteq Records(T)
  BY DEF Records
<1>5. Handlers(S) \subseteq Handlers(T)
  BY <1>1 DEF Handlers
<1>6. Jobs(S) \subseteq Jobs(T)
  BY <1>2 DEF Jobs
<1>7. [Flows -> Handlers(S)] \subseteq [Flows -> Handlers(T)]
  BY <1>5
<1> QED BY <1>1, <1>2, <1>3, <1>4, <1>5, <1>6, <1>7, WiderSeq

(* The Agent goes on, and what it has completed stays so. *)
GoesOn == agent' \in Agents /\ (agent.st = "completed" => agent'.st = "completed")

LEMMA GoesOnWidens ==
  ASSUME IInv, GoesOn
  PROVE  Possible \subseteq Possible' /\ agent'.st \in Possible'
BY DEF GoesOn, Possible, Agents, Statuses

LEMMA AgentKept ==
  ASSUME IInv, GoesOn, native' \in Records(Possible'), wire' \in Seq(Events(Possible')),
         UNCHANGED <<mem, disk, upd, jobs>>, flow' \in [Flows -> Handlers(Possible')], Fine(flow')
  PROVE  IInv' /\ Kept
<1>1. Possible \subseteq Possible'
  BY GoesOnWidens
<1>2. /\ mem' \in Tasks(Possible') /\ disk' \in Tasks(Possible') /\ upd' \in Updates(Possible')
      /\ jobs' \in Seq(Jobs(Possible'))
  BY <1>1, Wider DEF IInv, Typed
<1>3. IInv'
  BY <1>2 DEF IInv, Typed, GoesOn, Fine
<1> QED BY <1>3, Same DEF Kept

LEMMA EmitsKept ==
  ASSUME IInv, GoesOn, NEW r \in Records(Possible'), NEW o \in BOOLEAN, Emits(<<Event(r, o)>>)
  PROVE  wire' \in Seq(Events(Possible'))
<1>1. wire \in Seq(Events(Possible'))
  BY GoesOnWidens, Wider DEF IInv, Typed
<1>2. Event(r, o) \in Events(Possible')
  BY EventOfRecord
<1>3. <<Event(r, o)>> \in Seq(Events(Possible'))
  BY <1>2
<1> QED BY <1>1, <1>3, ConcatProperties DEF Emits

LEMMA KeepsKept ==
  ASSUME IInv, GoesOn, NEW r, r \in Records(Possible'), Keeps(r),
         UNCHANGED <<mem, disk, upd, jobs>>, flow' \in [Flows -> Handlers(Possible')], Fine(flow')
  PROVE  IInv' /\ Kept
<1>1. wire' \in Seq(Events(Possible'))
  BY EmitsKept DEF Keeps
<1> QED BY <1>1, AgentKept DEF Keeps

LEMMA FlowStays ==
  ASSUME IInv, GoesOn
  PROVE  /\ native \in Records(Possible') /\ flow \in [Flows -> Handlers(Possible')] /\ Fine(flow)
         /\ wire \in Seq(Events(Possible'))
BY GoesOnWidens, Wider DEF IInv, Typed

LEMMA SyncedKept ==
  ASSUME NEW S, NEW r \in Records(S), NEW a \in Agents, a.st \in S
  PROVE  Synced(r, a) \in Records(S)
BY DEF Synced, Records, Agents

LEMMA ControlledKept ==
  ASSUME IInv, NEW cmd \in Controls
  PROVE  /\ Controlled(cmd) \in Agents
         /\ Accepted(cmd) => agent.st # "completed"
<1>1. agent \in Agents
  BY DEF IInv, Typed
<1>2. Wanted(cmd) \in {"paused", "transferring", "cancelled"}
  BY DEF Wanted, Controls
<1>3. Controlled(cmd) \in Agents
  BY <1>1, <1>2 DEF Controlled, Agents
<1>4. Accepted(cmd) => agent.st # "completed"
  BY DEF Accepted
<1> QED BY <1>3, <1>4

LEMMA NativeCreatesKept == IInv /\ NativeCreates => IInv' /\ Kept
<1> SUFFICES ASSUME IInv, NativeCreates PROVE IInv' /\ Kept
  OBVIOUS
<1>1. agent \in Agents
  BY DEF IInv, Typed
<1>2. GoesOn
  BY <1>1 DEF NativeCreates, GoesOn, Agents
<1>3. Keeps(Synced(native, agent')) /\ UNCHANGED <<mem, disk, upd, jobs, flow>>
  BY DEF NativeCreates, js
<1>4. Synced(native, agent') \in Records(Possible')
  BY <1>2, FlowStays, GoesOnWidens, SyncedKept DEF GoesOn
<1> QED BY <1>2, <1>3, <1>4, FlowStays, KeepsKept

LEMMA NativeUploadsKept == IInv /\ NativeUploads => IInv' /\ Kept
<1> SUFFICES ASSUME IInv, NativeUploads PROVE IInv' /\ Kept
  OBVIOUS
<1>1. agent \in Agents
  BY DEF IInv, Typed
<1>2. GoesOn
  BY <1>1 DEF NativeUploads, GoesOn, Agents
<1>3. UNCHANGED <<mem, disk, upd, jobs, flow>>
  BY DEF NativeUploads, js
<1>4. Synced(native, agent') \in Records(Possible') /\ [native EXCEPT !.st = "transferring"] \in Records(Possible')
  <2>1. "transferring" \in Possible'
    BY DEF Possible, Statuses
  <2>2. [native EXCEPT !.st = "transferring"] \in Records(Possible')
    BY <1>2, <2>1, FlowStays DEF Records
  <2> QED BY <1>2, <2>2, FlowStays, GoesOnWidens, SyncedKept DEF GoesOn
<1>5. Keeps(Synced(native, agent')) \/ Keeps([native EXCEPT !.st = "transferring"])
  BY DEF NativeUploads
<1> QED BY <1>2, <1>3, <1>4, <1>5, FlowStays, KeepsKept

LEMMA NativeFailsKept == IInv /\ (NativeFails \/ NativeRepairs) => IInv' /\ Kept
<1> SUFFICES ASSUME IInv, NativeFails \/ NativeRepairs PROVE IInv' /\ Kept
  OBVIOUS
<1>1. GoesOn /\ UNCHANGED <<agent, mem, disk, upd, jobs, flow>>
  BY DEF NativeFails, NativeRepairs, js, IInv, Typed, GoesOn
<1>2. {"waiting_for_peer", "failed"} \subseteq Possible'
  BY DEF Possible, Statuses
<1>3. /\ [native EXCEPT !.st = "waiting_for_peer"] \in Records(Possible')
      /\ [native EXCEPT !.st = "failed", !.bad = TRUE] \in Records(Possible')
      /\ Synced(native, agent) \in Records(Possible')
  <2>1. native \in Records(Possible')
    BY <1>1, FlowStays
  <2>2. agent \in Agents /\ agent.st \in Possible'
    BY <1>1, GoesOnWidens DEF IInv, Typed
  <2>3. Synced(native, agent) \in Records(Possible')
    BY <2>1, <2>2, SyncedKept
  <2> QED BY <1>2, <2>1, <2>3 DEF Records
<1>4. \/ Keeps([native EXCEPT !.st = "waiting_for_peer"])
      \/ Keeps([native EXCEPT !.st = "failed", !.bad = TRUE])
      \/ Keeps(Synced(native, agent))
  BY DEF NativeFails, NativeRepairs
<1> QED BY <1>1, <1>3, <1>4, FlowStays, KeepsKept

\* What the uploader tells the control, if it is still there.
LEMMA ControlHears ==
  ASSUME NEW S, NEW F \in [Flows -> Handlers(S)], Fine(F), NEW x \in Handlers(S),
         x.op = F["control"].op
  PROVE  /\ [F EXCEPT !["control"] = IF @.pc = "calling" THEN x ELSE @] \in [Flows -> Handlers(S)]
         /\ Fine([F EXCEPT !["control"] = IF @.pc = "calling" THEN x ELSE @])
<1> DEFINE h == F["control"]
           y == IF h.pc = "calling" THEN x ELSE h
<1>1. "control" \in Flows
  BY DEF Flows
<1>2. h \in Handlers(S) /\ Named(h)
  BY <1>1 DEF Fine
<1>3. y \in Handlers(S) /\ (h.pc = "calling" => Named(y)) /\ (h.pc # "calling" => Named(y))
  BY <1>2 DEF Named
<1>4. [F EXCEPT !["control"] = IF @.pc = "calling" THEN x ELSE @] = [F EXCEPT !["control"] = y]
  BY <1>1
<1> HIDE DEF y
<1> QED BY <1>1, <1>3, <1>4, FlowSet

LEMMA AnsweredTyped ==
  ASSUME IInv, GoesOn, Answered(agent')
  PROVE  flow' \in [Flows -> Handlers(Possible')] /\ Fine(flow')
<1> DEFINE r == [flow["control"].row EXCEPT !.st = agent'.st, !.rev = agent'.rev]
           x == [flow["control"] EXCEPT !.pc = "answered", !.row = r]
<1>1. flow \in [Flows -> Handlers(Possible')] /\ Fine(flow)
  BY FlowStays
<1>2. flow["control"] \in Handlers(Possible') /\ "answered" \in Pcs
  BY <1>1 DEF Flows, Pcs
<1>3. flow["control"].row \in Tasks(Possible') /\ agent'.st \in Possible' /\ agent'.rev \in Nat
  BY <1>2, GoesOnWidens DEF Handlers, GoesOn, Agents
<1>4. r \in Tasks(Possible')
  BY <1>3 DEF Tasks
<1> HIDE DEF r
<1>5. x \in Handlers(Possible') /\ x.op = flow["control"].op
  BY <1>2, <1>4 DEF Handlers
<1>6. x = [flow["control"] EXCEPT !.pc = "answered", !.row.st = agent'.st, !.row.rev = agent'.rev]
  BY <1>2 DEF r, Handlers
<1>7. flow' = [flow EXCEPT !["control"] = IF @.pc = "calling" THEN x ELSE @]
  <2>1. flow' = [flow EXCEPT !["control"] = IF flow["control"].pc = "calling"
                   THEN [flow["control"] EXCEPT !.pc = "answered", !.row.st = agent'.st, !.row.rev = agent'.rev]
                   ELSE flow["control"]]
    BY <1>1 DEF Answered, Flows
  <2> HIDE DEF x
  <2> QED BY <1>1, <1>6, <2>1 DEF Flows
<1> HIDE DEF x
<1> QED BY <1>1, <1>5, <1>7, ControlHears

LEMMA RefusalTyped ==
  ASSUME IInv, GoesOn, NEW err \in Notes, Refusal(err)
  PROVE  flow' \in [Flows -> Handlers(Possible')] /\ Fine(flow')
<1> DEFINE h == flow["control"]
           x == IF err = "notfound" /\ h.tries + 1 < MaxTries
                  THEN [h EXCEPT !.pc = "call", !.tries = h.tries + 1]
                  ELSE [h EXCEPT !.pc = "caught", !.note = err]
<1>1. flow \in [Flows -> Handlers(Possible')] /\ Fine(flow)
  BY FlowStays
<1>2. h \in Handlers(Possible') /\ {"caught", "call"} \subseteq Pcs
  BY <1>1 DEF Flows, Pcs
<1>3. x \in Handlers(Possible') /\ x.op = h.op
  <2> HIDE DEF h
  <2>1. h.tries + 1 \in Nat
    BY <1>2 DEF Handlers
  <2> QED BY <1>2, <2>1 DEF Handlers
<1>4. flow' = [flow EXCEPT !["control"] = IF @.pc = "calling" THEN x ELSE @]
  <2>1. flow' = [flow EXCEPT !["control"] = IF h.pc = "calling" THEN x ELSE h]
    BY DEF Refusal
  <2> HIDE DEF x
  <2> QED BY <1>1, <2>1 DEF Flows
<1> HIDE DEF x
<1> QED BY <1>1, <1>3, <1>4, ControlHears

LEMMA ReleasedKept ==
  ASSUME NEW S, "none" \in S, native \in Records(S)
  PROVE  /\ Released \in Records(S)
         /\ \A st \in S, rev \in Nat :
              /\ [Released EXCEPT !.st = st, !.rev = rev, !.bad = FALSE] \in Records(S)
              /\ [Released EXCEPT !.st = st] \in Records(S)
              /\ [native EXCEPT !.recon = FALSE, !.st = st, !.rev = rev] \in Records(S)
BY DEF Released, Records

LEMMA NoneIsPossible == "none" \in Possible' /\ "cancelled" \in Possible'
BY DEF Possible, Statuses

LEMMA NativeControlsKept == IInv /\ NativeControls => IInv' /\ Kept
<1> SUFFICES ASSUME IInv, NativeControls PROVE IInv' /\ Kept
  OBVIOUS
<1>1. native.cmd \in Controls /\ Accepted(native.cmd) /\ agent' = Controlled(native.cmd)
  BY DEF NativeControls, IInv, Typed, Records
<1>2. GoesOn
  BY <1>1, ControlledKept DEF GoesOn
<1>3. agent'.st \in Possible' /\ agent'.rev \in Nat
  BY <1>2, GoesOnWidens DEF GoesOn, Agents
<1>4. [Released EXCEPT !.st = agent'.st, !.rev = agent'.rev, !.bad = FALSE] \in Records(Possible')
  BY <1>2, <1>3, NoneIsPossible, FlowStays, ReleasedKept
<1>5. flow' \in [Flows -> Handlers(Possible')] /\ Fine(flow')
  BY <1>2, AnsweredTyped DEF NativeControls
<1>6. UNCHANGED <<mem, disk, upd, jobs>>
      /\ Keeps([Released EXCEPT !.st = agent'.st, !.rev = agent'.rev, !.bad = FALSE])
  BY DEF NativeControls
<1> QED BY <1>2, <1>4, <1>5, <1>6, KeepsKept

LEMMA NativeControlFailsKept == IInv /\ NativeControlFails => IInv' /\ Kept
<1> SUFFICES ASSUME IInv, NativeControlFails PROVE IInv' /\ Kept
  OBVIOUS
<1>1. native.cmd \in Controls /\ agent \in Agents
  BY DEF NativeControlFails, IInv, Typed, Records
<1>2. agent' = agent \/ (Accepted(native.cmd) /\ agent' = Controlled(native.cmd))
  BY DEF NativeControlFails
<1>3. GoesOn
  BY <1>1, <1>2, ControlledKept DEF GoesOn
<1>4. agent' \in Agents /\ agent'.st \in Possible'
  BY <1>3, GoesOnWidens DEF GoesOn
<1>5. /\ Synced(Released, agent') \in Records(Possible')
      /\ [Released EXCEPT !.st = native.was] \in Records(Possible')
  <2>1. native \in Records(Possible')
    BY <1>3, FlowStays
  <2>2. Released \in Records(Possible')
    BY <2>1, NoneIsPossible, ReleasedKept
  <2>3. native.was \in Possible'
    BY <2>1 DEF Records
  <2>4. [Released EXCEPT !.st = native.was] \in Records(Possible')
    BY <2>2, <2>3 DEF Records
  <2> QED BY <1>4, <2>2, <2>4, SyncedKept
<1>6. \E err \in Notes : Refusal(err)
  <2>1. {"notfound", "refused", "network"} \subseteq Notes
    BY DEF Notes
  <2> QED BY <2>1 DEF NativeControlFails
<1>7. flow' \in [Flows -> Handlers(Possible')] /\ Fine(flow')
  BY <1>3, <1>6, RefusalTyped
<1>8. /\ UNCHANGED <<mem, disk, upd, jobs>>
      /\ Keeps(Synced(Released, agent')) \/ Keeps([Released EXCEPT !.st = native.was])
  BY DEF NativeControlFails
<1> QED BY <1>3, <1>5, <1>7, <1>8, KeepsKept

LEMMA RetiresKept ==
  ASSUME IInv, NEW pc \in Pcs, Retires(pc)
  PROVE  GoesOn /\ flow' \in [Flows -> Handlers(Possible')] /\ Fine(flow')
<1>1. GoesOn
  <2>1. CASE agent' = agent
    BY <2>1 DEF GoesOn, IInv, Typed
  <2>2. CASE native.cmd \in Controls /\ Accepted(native.cmd) /\ agent' = Controlled(native.cmd)
    BY <2>2, ControlledKept DEF GoesOn
  <2>3. native.cmd \in Controls \cup {"none"}
    BY DEF IInv, Typed, Records
  <2> QED BY <2>1, <2>2, <2>3 DEF Retires
<1>2. flow \in [Flows -> Handlers(Possible')] /\ Fine(flow) /\ {"start", "control"} \subseteq Flows
  BY <1>1, FlowStays DEF Flows
<1> DEFINE h == [flow["start"] EXCEPT !.pc = pc]
           F == [flow EXCEPT !["start"] = h]
           x == [flow["control"] EXCEPT !.pc = "caught", !.note = "superseded"]
<1>3. flow["start"] \in Handlers(Possible') /\ flow["control"] \in Handlers(Possible')
  BY <1>2
<1>4. h \in Handlers(Possible')
  BY <1>3 DEF Handlers
<1>5. "caught" \in Pcs /\ "superseded" \in Notes
  BY DEF Pcs, Notes
<1>6. x \in Handlers(Possible') /\ x.op = flow["control"].op
  BY <1>3, <1>5 DEF Handlers
<1>7. flow' = [F EXCEPT !["control"] = IF @.pc = "calling" THEN x ELSE @]
  BY <1>2 DEF Retires
<1> HIDE DEF h
<1>8. F \in [Flows -> Handlers(Possible')] /\ Fine(F) /\ F["control"] = flow["control"]
  BY <1>2, <1>4, FlowSet
<1> HIDE DEF x, F
<1>9. flow' \in [Flows -> Handlers(Possible')] /\ Fine(flow')
  BY <1>6, <1>7, <1>8, ControlHears
<1> QED BY <1>1, <1>9

\* The record that a start puts in the place of the one there was.
LEMMA ReplacementKept ==
  ASSUME IInv, GoesOn, NEW st \in Possible'
  PROVE  /\ Replacement(st) \in Records(Possible')
         /\ [Replacement(st) EXCEPT !.recon = TRUE] \in Records(Possible')
<1>1. native.op \in Nat /\ flow["start"].was.rev \in Nat /\ "none" \in Possible'
  BY Flow, NoneIsPossible DEF IInv, Typed, Records, Flows, Tasks
<1> DEFINE n == native.op + 1
           r == flow["start"].was.rev
<1>2. n \in Nat /\ r \in Nat
  BY <1>1
<1>3. Replacement(st) = [NoRecord EXCEPT !.op = n, !.st = st, !.rev = r]
  BY DEF Replacement
<1> HIDE DEF n, r
<1>4. Replacement(st) \in Records(Possible')
  BY <1>1, <1>2, <1>3 DEF NoRecord, Records
<1> QED BY <1>4 DEF Records

LEMMA StartCallsKept == IInv /\ StartCalls => IInv' /\ Kept
<1> SUFFICES ASSUME IInv, StartCalls PROVE IInv' /\ Kept
  OBVIOUS
<1>1. GoesOn /\ flow' \in [Flows -> Handlers(Possible')] /\ Fine(flow')
  <2>1. "called" \in Pcs
    BY DEF Pcs
  <2> QED BY <2>1, RetiresKept DEF StartCalls
<1>2. StartProjection(flow["start"]).st \in Possible'
  BY <1>1, StartShown, GoesOnWidens DEF Possible, Statuses
<1>3. native' \in Records(Possible')
  BY <1>1, <1>2, ReplacementKept DEF StartCalls
<1>4. wire' \in Seq(Events(Possible'))
  BY <1>1, <1>3, EmitsKept DEF StartCalls
<1>5. UNCHANGED <<mem, disk, upd, jobs>>
  BY DEF StartCalls
<1> QED BY <1>1, <1>3, <1>4, <1>5, AgentKept

LEMMA ReconcileReplacesKept == IInv /\ ReconcileReplaces => IInv' /\ Kept
<1> SUFFICES ASSUME IInv, ReconcileReplaces PROVE IInv' /\ Kept
  OBVIOUS
<1>1. GoesOn /\ flow' \in [Flows -> Handlers(Possible')] /\ Fine(flow')
  <2>1. "reconciling" \in Pcs
    BY DEF Pcs
  <2> QED BY <2>1, RetiresKept DEF ReconcileReplaces
<1>2. native' \in Records(Possible')
  BY <1>1, NoneIsPossible, ReplacementKept DEF ReconcileReplaces
<1>3. UNCHANGED <<wire, mem, disk, upd, jobs>>
  BY DEF ReconcileReplaces
<1> QED BY <1>1, <1>2, <1>3, FlowStays, AgentKept

LEMMA ReconciledKept ==
  ASSUME IInv
  PROVE  /\ agent.st # "none" => Reconciled \in Agents /\ (agent.st = "completed" => Reconciled = agent)
         /\ Reconciled.st \in {"cancelled", agent.st} /\ Reconciled.rev \in Nat
<1>1. agent \in Agents /\ native.rev \in Nat
  BY DEF IInv, Typed, Records
<1>2. Controlled("cancel") \in Agents /\ Controlled("cancel").st \in {"cancelled", agent.st}
  BY <1>1, ControlledKept DEF Controls, Controlled, Wanted
<1> QED BY <1>1, <1>2 DEF Reconciled, IsTerminal, Agents

LEMMA NativeReconcilesKept == IInv /\ (NativeReconciles \/ NativeReconcileFails) => IInv' /\ Kept
<1> SUFFICES ASSUME IInv, NativeReconciles \/ NativeReconcileFails PROVE IInv' /\ Kept
  OBVIOUS
<1>1. agent \in Agents /\ agent' \in {agent} \cup (IF agent.st = "none" THEN {} ELSE {Reconciled})
  BY DEF NativeReconciles, NativeReconcileFails, IInv, Typed
<1>2. GoesOn
  BY <1>1, ReconciledKept DEF GoesOn
<1>3. UNCHANGED <<mem, disk, upd, jobs>>
  BY DEF NativeReconciles, NativeReconcileFails
<1>4. flow' \in [Flows -> Handlers(Possible')] /\ Fine(flow')
  <2>1. {"reconciled", "unreconciled"} \subseteq Pcs /\ "start" \in Flows
    BY DEF Pcs, Flows
  <2>2. CASE UNCHANGED flow
    BY <1>2, <2>2, FlowStays
  <2>3. CASE \E pc \in {"reconciled", "unreconciled"} : Goto("start", pc)
    <3>1. flow' \in [Flows -> Handlers(Possible)] /\ Fine(flow')
      BY <2>1, <2>3, GotoKept DEF Fine
    <3> QED BY <1>2, <3>1, GoesOnWidens, Wider
  <2> QED BY <2>2, <2>3 DEF NativeReconciles, NativeReconcileFails
<1>5. CASE NativeReconciles
  <2> DEFINE r == [native EXCEPT !.recon = FALSE, !.st = Reconciled.st, !.rev = Reconciled.rev]
  <2>1. agent.st \in Possible
    BY <1>1 DEF Possible, Agents, Statuses
  <2>2. Reconciled.st \in Possible' /\ Reconciled.rev \in Nat
    BY <1>2, <2>1, ReconciledKept, NoneIsPossible, GoesOnWidens
  <2>3. r \in Records(Possible')
    BY <1>2, <2>2, NoneIsPossible, FlowStays, ReleasedKept
  <2>4. Keeps(r)
    BY <1>5 DEF NativeReconciles
  <2> HIDE DEF r
  <2> QED BY <1>2, <1>3, <1>4, <2>3, <2>4, KeepsKept
<1>6. CASE NativeReconcileFails
  BY <1>2, <1>3, <1>4, <1>6, FlowStays, AgentKept DEF NativeReconcileFails
<1> QED BY <1>5, <1>6

LEMMA ControlCallsKept == IInv /\ ControlCalls => IInv' /\ Kept
<1> SUFFICES ASSUME IInv, ControlCalls PROVE IInv' /\ Kept
  OBVIOUS
<1>1. c.pc # "idle" /\ UNCHANGED <<agent, mem, disk, upd, jobs>>
  BY DEF ControlCalls, At, c
<1>2. GoesOn
  BY <1>1 DEF GoesOn, IInv, Typed
<1>3. c.op \in Presses /\ {"caught", "calling"} \subseteq Pcs /\ "refused" \in Notes /\ "control" \in Flows
  BY <1>1, Control DEF Pcs, Notes
<1>4. CASE flow' = [flow EXCEPT !["control"].pc = "caught", !["control"].note = "refused"]
           /\ UNCHANGED <<native, wire>>
  <2> DEFINE h == [c EXCEPT !.pc = "caught", !.note = "refused"]
  <2>1. h \in Handlers(Possible) /\ Named(h)
    BY <1>1, <1>3, Control
  <2>2. flow' = [flow EXCEPT !["control"] = h]
    BY <1>3, <1>4 DEF c, IInv, Typed
  <2> HIDE DEF h
  <2>3. flow' \in [Flows -> Handlers(Possible)] /\ Fine(flow')
    BY <1>3, <2>1, <2>2, FlowSet DEF IInv, Typed
  <2>4. flow' \in [Flows -> Handlers(Possible')]
    BY <1>2, <2>3, GoesOnWidens, Wider
  <2> QED BY <1>1, <1>2, <1>4, <2>3, <2>4, FlowStays, AgentKept
<1>5. CASE /\ native' = [native EXCEPT !.cmd = Operation(c.op), !.was = native.st,
                                       !.st = Wanted(Operation(c.op)), !.bad = FALSE]
           /\ Emits(<<Event(native', TRUE)>>)
           /\ Goto("control", "calling")
  <2> DEFINE cmd == Operation(c.op)
             st  == Wanted(cmd)
  <2>1. cmd \in Controls
    BY <1>3 DEF Operation, Presses, Controls
  <2>2. st \in Possible'
    BY <2>1 DEF Wanted, Controls, Possible, Statuses
  <2> HIDE DEF cmd, st
  <2>3. [native EXCEPT !.cmd = cmd, !.was = native.st, !.st = st, !.bad = FALSE] \in Records(Possible')
    BY <1>2, <2>1, <2>2, FlowStays DEF Records
  <2>4. native' \in Records(Possible')
    BY <1>5, <2>3 DEF cmd, st
  <2>5. wire' \in Seq(Events(Possible'))
    BY <1>2, <1>5, <2>4, EmitsKept
  <2>6. flow' \in [Flows -> Handlers(Possible)] /\ Fine(flow')
    BY <1>1, <1>3, <1>5, GotoKept DEF At, c, Fine
  <2>7. flow' \in [Flows -> Handlers(Possible')]
    BY <1>2, <2>6, GoesOnWidens, Wider
  <2> QED BY <1>1, <1>2, <2>4, <2>5, <2>6, <2>7, AgentKept
<1> QED BY <1>4, <1>5 DEF ControlCalls

-----------------------------------------------------------------------------
(* The whole. *)

LEMMA CrashKept == IInv /\ Crash => IInv' /\ Kept
<1> SUFFICES ASSUME IInv, Crash PROVE IInv' /\ Kept
  OBVIOUS
<1>1. /\ UNCHANGED <<agent, disk>> /\ mem' = NoRow /\ upd' = NoUpdate /\ jobs' = <<>> /\ wire' = <<>>
      /\ native' \in {native, NoRecord}
  BY DEF Crash
<1>2. flow' \in [Flows -> Handlers(Possible)] /\ Fine(flow')
  <2>1. "lost" \in Pcs
    BY DEF Pcs
  <2>2. [Idle EXCEPT !.pc = "lost"] \in Handlers(Possible) /\ Idle \in Handlers(Possible)
    BY <2>1, Constants DEF Handlers
  <2>3. Named(Idle)
    BY DEF Named, Idle
  <2> QED BY <2>2, <2>3 DEF Crash, Fine, Flows
<1>3. native' \in Records(Possible) /\ wire' \in Seq(Events(Possible)) /\ jobs' \in Seq(Jobs(Possible))
  BY <1>1, Constants DEF IInv, Typed
<1>4. IInv'
  BY <1>1, <1>2, <1>3, Constants, JsTyped DEF IInv, Typed, Fine
<1> QED BY <1>1, <1>4 DEF Kept

LEMMA InitTyped == Init => IInv
<1> SUFFICES ASSUME Init PROVE IInv
  OBVIOUS
<1>1. {"none", "queued", "paused"} \subseteq Possible
  BY DEF Possible, Statuses
<1>2. agent \in Agents
  BY DEF Init, Agents
<1> DEFINE two == 2
           one == 1
<1>3. two \in Nat /\ one \in Nat
  OBVIOUS
<1> HIDE DEF two, one
<1>4. native \in Records(Possible)
  <2>1. [NoRecord EXCEPT !.op = one, !.st = "paused", !.rev = two] \in Records(Possible)
    BY <1>1, <1>3, Constants DEF Records
  <2>2. native \in {NoRecord, [NoRecord EXCEPT !.op = one, !.st = "paused", !.rev = two]}
    BY DEF Init, one, two
  <2> QED BY <2>1, <2>2, Constants
<1>5. mem \in Tasks(Possible) /\ disk = mem
  <2>1. Queued \in Tasks(Possible)
    BY <1>1, Constants DEF Queued, Tasks, NoRow
  <2>2. [Queued EXCEPT !.st = "paused", !.rev = two] \in Tasks(Possible)
    BY <1>1, <1>3, <2>1 DEF Tasks, Queued, NoRow
  <2>3. mem \in {Queued, [Queued EXCEPT !.st = "paused", !.rev = two]} /\ disk = mem
    BY DEF Init, two
  <2> QED BY <2>1, <2>2, <2>3
<1>6. wire = <<>> /\ jobs = <<>> /\ upd = NoUpdate /\ flow = [f \in Flows |-> Idle]
  BY DEF Init
<1>7. Fine(flow)
  BY <1>6 DEF Fine, Named, Idle, Flows
<1> QED BY <1>2, <1>4, <1>5, <1>6, <1>7, Constants DEF IInv, Typed

LEMMA StepKept == IInv /\ [Next]_vars => IInv' /\ (Kept \/ UNCHANGED vars)
<1> SUFFICES ASSUME IInv, [Next]_vars PROVE IInv' /\ (Kept \/ UNCHANGED vars)
  OBVIOUS
<1>1. CASE JsStep
  BY <1>1, StartLooksKept, StartCallsKept, StartEndsKept, UnsignedKept, StartAbortsKept, BeginKept,
     LooksKept, ControlStartedKept, ControlCallsKept, AnsweredKept, ControlEndsKept,
     ControlRestartsKept, ControlMissingKept, ControlCaughtKept,
     PageStepKept, BootStepKept, EvidenceStepKept, FlushTimerKept, DeliverKept
     DEF JsStep, StartStep, ControlStep
<1>2. CASE NativeStep
  BY <1>2, NativeCreatesKept, NativeUploadsKept, NativeFailsKept, NativeControlsKept,
     NativeControlFailsKept, ReconcileReplacesKept, NativeReconcilesKept DEF NativeStep
<1>3. CASE RunJob \/ Crash \/ StartQueued \/ OpenPage
  BY <1>3, RunJobKept, CrashKept, StartQueuedKept, OpenPageKept
<1>4. CASE \E op \in Controls \cup {"retry"} : Press(op)
  BY <1>4, PressKept DEF Presses
<1>5. CASE UNCHANGED vars
  BY <1>5 DEF vars, IInv, Typed, Fine, Possible
<1> QED BY <1>1, <1>2, <1>3, <1>4, <1>5 DEF Next

THEOREM TypeCorrect == Spec => []IInv
<1>1. Init => IInv
  BY InitTyped
<1>2. IInv /\ [Next]_vars => IInv'
  BY StepKept
<1> QED BY <1>1, <1>2, PTL DEF Spec

\* The task that a screen shows never goes back to an older revision of the Agent, and a
\* settled outcome stays: the merges of useV3TransferProjectionStore.
THEOREM MemorySafe == Spec => MemoryNeverGoesBack
<1>1. IInv /\ [Next]_vars =>
        [(mem # NoRow /\ mem' # NoRow) =>
           /\ mem'.rev >= mem.rev
           /\ Settled(mem) => Settled(mem') /\ (mem'.st = mem.st \/ mem'.bad)]_vars
  BY StepKept DEF Kept, Follows
<1> QED BY <1>1, TypeCorrect, PTL DEF Spec, MemoryNeverGoesBack

\* What the store or the row shows as completed, the Agent has completed.
THEOREM CompletedSafe ==
  Spec => [](\A r \in {mem, disk} : r.st = "completed" => agent.st = "completed")
<1>1. IInv => \A r \in {mem, disk} : r.st = "completed" => agent.st = "completed"
  BY DEF IInv, Typed, Tasks, Possible
<1> QED BY <1>1, TypeCorrect, PTL
=============================================================================

------------------------ MODULE V3TransferSseDebouncer ------------------------
(***************************************************************************)
(* The coalescing of change notifications of one transfer                  *)
(* (v3TransferSseDebouncer.ts).  Revisions arrive late, repeated and out   *)
(* of order, for every handler notifies what its own answer carried;       *)
(* subscribers get growing revisions, at most one per period.              *)
(*                                                                         *)
(* One tick of real time passes at a time.  The timer counts real time;    *)
(* the code compares readings of Date.now(), which can be set between two  *)
(* of them, back or forward.  Times are kept as durations, so that the model has no     *)
(* clock that grows.                                                       *)
(***************************************************************************)
EXTENDS Integers

CONSTANTS
  Period,      \* V3_TRANSFER_SSE_DEBOUNCE_MS, in ticks
  LastRevision, \* bound: the largest revision notified
  MaxClockSet  \* bound: times the wall clock is set

ASSUME DebouncerAssumption ==
  Period \in Nat \ {0} /\ LastRevision \in Nat /\ MaxClockSet \in Nat

VARIABLES
  high,     \* highWaterRevisions, None if there is no entry
  state,    \* states: the transfer has an entry
  elapsed,  \* now() - lastEmittedAt by the wall clock, counted up to Period
  pending,  \* pendingRevision, None if null
  timer,    \* ticks until timerHandle fires, None if no timer is armed
  closed,
  emitted,  \* history: the last revision emitted, None before the first
  since,    \* history: ticks of real time since then, counted up to Period
  ahead,    \* history: ticks the wall clock was put forward since then, counted up to Period
  clockSet  \* how often the clock has been set

debouncerVars == <<high, state, elapsed, pending, timer, closed, emitted, since, ahead, clockSet>>

None == -1

\* A duration one tick later, as far as it is counted.
Later(t)   == IF t < Period THEN t + 1 ELSE t
Earlier(t) == IF t > 0 THEN t - 1 ELSE t

-----------------------------------------------------------------------------
\* emitRevision: the entry is kept for a period in which it only collects.
EmitRevision(revision) ==
  /\ emitted' = revision /\ since' = 0 /\ ahead' = 0
  /\ state' = TRUE /\ elapsed' = 0 /\ pending' = None
  /\ timer' = Period

\* schedule leaves an armed timer alone.
Schedule(delay) == timer' = IF timer = None THEN delay ELSE timer

\* mutant: a transfer with nothing pending may emit
QuietWhenNothingPends == ~state \/ elapsed >= Period \/ pending = None

Quiet == ~state \/ elapsed >= Period

IsNews(revision) == revision > high

\* mutant: one pending revision is thought to be enough
NotifyKeepingFirst(revision) ==
  /\ ~closed
  /\ IsNews(revision)
  /\ high' = revision
  /\ IF Quiet THEN EmitRevision(revision)
     ELSE /\ pending' = IF pending = None THEN revision ELSE pending
          /\ Schedule(Period - elapsed)
          /\ UNCHANGED <<state, elapsed, emitted, since, ahead>>
  /\ UNCHANGED <<closed, clockSet>>

Notify(revision) ==
  /\ ~closed
  /\ IsNews(revision)
  /\ high' = revision
  /\ IF Quiet THEN EmitRevision(revision)
     ELSE /\ pending' = revision
          /\ Schedule(Period - elapsed)
          /\ UNCHANGED <<state, elapsed, emitted, since, ahead>>
  /\ UNCHANGED <<closed, clockSet>>

\* onTimer, at its time or later.  A cleared timer does not fire, so the callback
\* always finds its own generation.
OnTimer ==
  /\ timer = 0
  /\ \/ /\ pending = None
        /\ state' = FALSE /\ elapsed' = Period /\ timer' = None
        /\ UNCHANGED <<pending, emitted, since, ahead>>
     \/ /\ pending # None /\ elapsed < Period
        /\ timer' = Period - elapsed
        /\ UNCHANGED <<state, elapsed, pending, emitted, since, ahead>>
     \/ /\ pending # None /\ elapsed >= Period
        /\ EmitRevision(pending)
  /\ UNCHANGED <<high, closed, clockSet>>

Close ==
  /\ ~closed
  /\ closed' = TRUE
  /\ high' = None /\ state' = FALSE /\ elapsed' = Period /\ pending' = None /\ timer' = None
  /\ UNCHANGED <<emitted, since, ahead, clockSet>>

DebouncerTick ==
  /\ since' = Later(since)
  /\ elapsed' = Later(elapsed)
  /\ timer' = IF timer = None THEN None ELSE Earlier(timer)
  /\ UNCHANGED <<high, state, pending, closed, emitted, ahead, clockSet>>

Capped(t) == IF t > Period THEN Period ELSE t

\* The wall clock is set by up to two periods, forward or back.
WallClockSet(ticks) ==
  /\ state
  /\ clockSet < MaxClockSet
  /\ clockSet' = clockSet + 1
  /\ elapsed' = Capped(elapsed + ticks)
  /\ ahead' = IF ticks > 0 THEN Capped(ahead + ticks) ELSE ahead
  /\ UNCHANGED <<high, state, pending, timer, closed, emitted, since>>

-----------------------------------------------------------------------------
DebouncerInit ==
  /\ high = None /\ state = FALSE /\ elapsed = Period /\ pending = None /\ timer = None
  /\ closed = FALSE
  /\ emitted = None /\ since = Period /\ ahead = 0
  /\ clockSet = 0

DebouncerNext ==
  \/ \E revision \in 0..LastRevision : Notify(revision)
  \/ OnTimer \/ Close \/ DebouncerTick
  \/ \E ticks \in -2 * Period .. 2 * Period : WallClockSet(ticks)

DebouncerSpec == DebouncerInit /\ [][DebouncerNext]_debouncerVars

-----------------------------------------------------------------------------
(* Every variable has its type. *)
DebouncerTypeOK ==
  /\ high \in -1..LastRevision /\ pending \in -1..LastRevision /\ emitted \in -1..LastRevision
  /\ state \in BOOLEAN /\ closed \in BOOLEAN
  /\ elapsed \in Int /\ elapsed <= Period
  /\ timer \in Int /\ timer >= -1
  /\ since \in 0..Period /\ ahead \in 0..Period
  /\ clockSet \in 0..MaxClockSet

(* Something pending always has a timer that will look at it again, and it is the *)
(* newest revision known; a transfer with nothing pending has been told of that   *)
(* revision already.  So a revision can only be late, never lost.                 *)
NewestIsOnItsWay ==
  ~closed => IF pending # None THEN state /\ timer # None /\ pending = high
                               ELSE emitted = high

(* "At most one merged notification per transfer every 250 ms": the period is one *)
(* of real time, with late timers, with the entry reclaimed, and with a clock that *)
(* is set back.  A clock that is put forward takes no more off it than the ticks   *)
(* it skips.                                                                       *)
EmissionsAreSpaced == [][emitted' # emitted => since + ahead >= Period]_debouncerVars

(* Subscribers never go back: a delayed snapshot does not move them to an older   *)
(* revision, even when the entry of a quiet transfer has been reclaimed.          *)
EmittedGrows == [][emitted' # emitted => emitted' > emitted]_debouncerVars
=============================================================================

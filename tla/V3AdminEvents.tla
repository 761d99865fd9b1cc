----------------------------- MODULE V3AdminEvents -----------------------------
(***************************************************************************)
(* How a change of a transfer reaches the Agent's page: the debouncer      *)
(* (V3TransferSseDebouncer) emits it, the event bus keeps the last events  *)
(* for pages that reconnect (agentEventBus.ts), a line of server-sent      *)
(* events carries them (createAdminApp.ts), and the page loads everything  *)
(* again for every event it gets (App.tsx).                                *)
(*                                                                         *)
(* The page's loads run beside each other and may be answered in any       *)
(* order.  Transfers and revisions stand for all that the page shows.      *)
(***************************************************************************)
EXTENDS V3TransferSseDebouncer, SequencesExt

CONSTANTS
  MaxHistory,  \* MAX_EVENT_HISTORY
  MaxMishaps  \* bound: broken lines, failed loads and handlers, other events, presses

ASSUME EventsAssumption == MaxHistory \in Nat \ {0} /\ MaxMishaps \in Nat

VARIABLES
  data,     \* the revision the Agent would answer with
  unheard,  \* revisions whose handler has still to notify the debouncer
  silent,   \* committed revisions whose handler ended without notifying it
  events,   \* events published so far: event n is the n-th
  line,     \* the page's EventSource: what is under way, and the last id it got
  loading,  \* loads of the page the Agent has still to answer
  loaded,   \* answers under way to the page, by the revision they carry
  shown,    \* the revision on the page
  best,     \* history: the newest revision that was on the page
  error,    \* that the Agent cannot be reached: "never" said, "shown", or "gone" again
  mishaps

pageVars == <<line, loading, loaded, shown, best, error>>
allVars == <<debouncerVars, data, unheard, silent, events, pageVars, mishaps>>

-----------------------------------------------------------------------------
Revisions == 0..LastRevision

Mishap == mishaps < MaxMishaps /\ mishaps' = mishaps + 1

\* publish: the event is kept, and written to the line that subscribes.
Publish ==
  /\ events' = events + 1
  /\ line' = IF line.open THEN [line EXCEPT !.queue = Append(@, events + 1)] ELSE line

PublishEmitted == IF emitted' # emitted THEN Publish ELSE UNCHANGED <<events, line>>

History == {n \in 1..events : n > events - MaxHistory}

\* mutant: nothing is known to come after an event that is forgotten
EventsAfterKnown(last) == {n \in History : last \in History \cup {0} /\ n > last}

\* getEventsAfter: all that is kept, if the event is not.
EventsAfter(last) == {n \in History : last \in History => n > last}

PageWaits == UNCHANGED <<loading, loaded, shown, best, error>>

-----------------------------------------------------------------------------
(* The Agent. *)

\* A handler has committed a revision, and notifies of it after its last await.
Commit ==
  /\ data < LastRevision
  /\ data' = data + 1
  /\ unheard' = unheard \cup {data + 1}
  /\ PageWaits /\ UNCHANGED <<debouncerVars, silent, events, line, mishaps>>

\* The cancel is committed, and rm fails before the notification, or an offer is marked
\* as delivered, which nobody is told of.
CommitSilently ==
  /\ data < LastRevision /\ Mishap
  /\ data' = data + 1
  /\ silent' = silent \cup {data + 1}
  /\ PageWaits /\ UNCHANGED <<debouncerVars, unheard, events, line>>

\* The phone repeats its cancel, and rm succeeds.
Repeated(r) ==
  /\ r \in silent
  /\ silent' = silent \ {r}
  /\ unheard' = unheard \cup {r}
  /\ PageWaits /\ UNCHANGED <<debouncerVars, data, events, line, mishaps>>

Notified(r) ==
  /\ r \in unheard
  /\ unheard' = unheard \ {r}
  /\ IF ~closed /\ IsNews(r) THEN Notify(r) ELSE UNCHANGED debouncerVars
  /\ PublishEmitted
  /\ PageWaits /\ UNCHANGED <<data, silent, mishaps>>

TimerFires ==
  /\ OnTimer /\ PublishEmitted
  /\ PageWaits /\ UNCHANGED <<data, unheard, silent, mishaps>>

TimePasses ==
  /\ DebouncerTick
  /\ PageWaits /\ UNCHANGED <<data, unheard, silent, events, line, mishaps>>

\* The wall clock is set, or the service closes.
Disturbed ==
  /\ Close \/ \E ticks \in -2 * Period .. 2 * Period : WallClockSet(ticks)
  /\ PageWaits /\ UNCHANGED <<data, unheard, silent, events, line, mishaps>>

\* A device, a pairing, a message or a file changes.
OtherEvent ==
  /\ Mishap /\ Publish
  /\ PageWaits /\ UNCHANGED <<debouncerVars, data, unheard, silent>>

-----------------------------------------------------------------------------
(* The line and the page. *)

AgentWaits == UNCHANGED <<debouncerVars, data, unheard, silent, events>>

\* GET /api/admin/events: what is kept is written first, and then what comes.
Reconnect ==
  /\ ~line.open
  /\ line' = [line EXCEPT !.open = TRUE, !.queue = SetToSortSeq(EventsAfter(line.last), <)]
  /\ PageWaits /\ AgentWaits /\ UNCHANGED mishaps

Breaks ==
  /\ line.open /\ Mishap
  /\ line' = [line EXCEPT !.open = FALSE, !.queue = <<>>]
  /\ PageWaits /\ AgentWaits

\* mutant: an event during a load is thought to be covered by it
DeliveredWhileIdle ==
  /\ line.queue # <<>>
  /\ line' = [line EXCEPT !.queue = Tail(@), !.last = Head(line.queue)]
  /\ loading' = IF loading > 0 \/ (\E r \in Revisions : loaded[r] > 0) THEN loading ELSE 1
  /\ AgentWaits /\ UNCHANGED <<loaded, shown, best, error, mishaps>>

\* handleAgentEvent, handleTransferEvent: every event loads the page again.
Delivered ==
  /\ line.queue # <<>>
  /\ line' = [line EXCEPT !.queue = Tail(@), !.last = Head(line.queue)]
  /\ loading' = loading + 1
  /\ AgentWaits /\ UNCHANGED <<loaded, shown, best, error, mishaps>>

\* The button, and the end of every action of the user.
Refresh ==
  /\ Mishap
  /\ loading' = loading + 1
  /\ AgentWaits /\ UNCHANGED <<line, loaded, shown, best, error>>

AgentAnswers ==
  /\ loading > 0
  /\ loading' = loading - 1
  /\ loaded' = [loaded EXCEPT ![data] = @ + 1]
  /\ AgentWaits /\ UNCHANGED <<line, shown, best, error, mishaps>>

\* An action of the user that waited for the load takes the word of its failure away.
LoadFails ==
  /\ loading > 0 /\ Mishap
  /\ loading' = loading - 1
  /\ error' \in {"shown", "gone"}
  /\ AgentWaits /\ UNCHANGED <<line, loaded, shown, best>>

\* refresh goes on: the page shows what the answer carries, older or not.
Show(r) ==
  /\ loaded[r] > 0
  /\ loaded' = [loaded EXCEPT ![r] = @ - 1]
  /\ shown' = r /\ best' = IF r > best THEN r ELSE best
  /\ error' = IF error = "shown" THEN "gone" ELSE error
  /\ AgentWaits /\ UNCHANGED <<line, loading, mishaps>>

-----------------------------------------------------------------------------
EventsInit ==
  /\ DebouncerInit
  /\ data = 0 /\ unheard = {} /\ silent = {} /\ events = 0
  /\ line = [open |-> FALSE, queue |-> <<>>, last |-> 0]
  /\ loading = 1 /\ loaded = [r \in Revisions |-> 0]
  /\ shown = -1 /\ best = -1 /\ error = "never"
  /\ mishaps = 0

Showing == \E r \in Revisions : Show(r)

EventsNext ==
  \/ Commit \/ CommitSilently \/ (\E r \in Revisions : Repeated(r) \/ Notified(r)) \/ TimerFires \/ TimePasses \/ Disturbed \/ OtherEvent
  \/ Reconnect \/ Breaks \/ Delivered \/ Refresh \/ AgentAnswers \/ LoadFails \/ Showing

EventsSpec == EventsInit /\ [][EventsNext]_allVars

\* Time passes, handlers notify, timers fire, the browser connects again, and what is
\* sent arrives.
FairEventsSpec ==
  /\ EventsSpec
  /\ WF_allVars(TimePasses) /\ WF_allVars(TimerFires)
  /\ WF_allVars(\E r \in Revisions : Notified(r))
  /\ WF_allVars(Reconnect) /\ WF_allVars(Delivered) /\ WF_allVars(AgentAnswers)
  /\ \A r \in Revisions : WF_allVars(Show(r))

-----------------------------------------------------------------------------
(* Every revision a handler will notify of comes to the page, it or a newer one,   *)
(* whatever the debouncer has merged and however often the line broke, unless a    *)
(* load fails or the Agent closes.  (A load that was overtaken may put an older    *)
(* one back on the page, and may take away the word of a failure that came later.) *)
PageCatchesUp ==
  \A r \in 1..LastRevision : r \in unheard ~> best >= r \/ error # "never" \/ closed

-----------------------------------------------------------------------------
(* A property the code does not have.                                              *)

(* The same for every committed revision, also one whose handler failed behind its *)
(* commit (v3TransferService.ts:251-263) or never notifies.                        *)
PageShowsAll ==
  \A r \in 1..LastRevision : data = r ~> best >= r \/ error # "never" \/ closed
=============================================================================

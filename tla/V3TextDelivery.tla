---------------------------- MODULE V3TextDelivery ----------------------------
(***************************************************************************)
(* A text message from the phone to the Agent, and with it the way every   *)
(* signed request takes: the authenticator with its window of nonces, the  *)
(* lookups of the trusted device in a worker thread (twice for a message:  *)
(* to authenticate and to permit), and the worker that stores messages.    *)
(*                                                                         *)
(* Each message has one POST, whose nonce is its own; the network may      *)
(* deliver it twice and late, or lose it without a word.  Time passes in   *)
(* units of which a timestamp may be Skew off, and the clock of the Agent  *)
(* may be set.  Lookups time out at any time, and their answers come all   *)
(* the same.  The Agent may be started again, which forgets every nonce.   *)
(***************************************************************************)
EXTENDS Integers, SequencesExt, FiniteSetsExt

CONSTANTS
  Messages,        \* the phone's messages
  Offset,          \* how far the phone's clock is ahead of the Agent's at first
  Skew,            \* MAX_CLOCK_SKEW_MS
  NonceTtl,        \* NONCE_TTL_MS
  MaxNonces,       \* MAX_TRACKED_NONCES
  MaxOutstanding,  \* V3_TRUSTED_DEVICE_ACCESS_MAX_OUTSTANDING_REQUESTS
  MaxStep,         \* bound: by how much the clock of the Agent is set
  MaxAge,          \* bound: how old a POST becomes
  MaxTroubles      \* bound: failures, repetitions and changes by the users

\* The code has NonceTtl = 2 * Skew.
ASSUME TextAssumption ==
  /\ Skew \in Nat /\ NonceTtl = 2 * Skew /\ Offset \in Int
  /\ MaxStep \in Nat /\ MaxAge \in Nat /\ MaxAge > Skew
  /\ MaxNonces \in Nat \ {0} /\ MaxOutstanding \in Nat \ {0} /\ MaxTroubles \in Nat

VARIABLES
  row,          \* delivery_state of each message on the phone
  call,         \* handleSendText of each message
  age,          \* Agent's time less the timestamp of the POST
  ahead,        \* by how much the clock of the phone is ahead of the Agent's
  adrift,       \* sends nobody settles any more: lost without a word, the app
                \* killed, or their failure could not be written
  handler,      \* the Agent's handling of each copy of a POST
  usedNonces,   \* nonces, each with the age of its POST at which it expires
  outstanding,  \* lookups that occupy the worker
  pending,      \* lookups somebody waits for
  asked,        \* what the worker has still to read
  answers,      \* what it has answered and nobody has taken
  device,       \* what the Agent's database says of the phone
  stored,       \* v3_text_messages at the Agent, by sequence
  down,         \* workers that have failed
  accepted,     \* history: how often this process has authenticated each POST
  unsure,       \* history: POSTs it accepted that were exactly Skew ahead of its
                \* clock, or before its clock was set back
  allowed,      \* history: copies handled while the phone was allowed to send
  troubles

phoneVars  == <<row, call, age, ahead, adrift>>
accessVars == <<outstanding, pending, asked, answers>>
nonceVars  == <<usedNonces, accepted, unsure>>
agentVars  == <<handler, accessVars, nonceVars, device, stored, down, allowed>>
vars == <<phoneVars, agentVars, troubles>>

-----------------------------------------------------------------------------
Copies == Messages \X {1, 2}
Handling == {"authenticating", "permitting", "appending", "appended"}

Trouble == troubles < MaxTroubles /\ troubles' = troubles + 1

Posted(m) == age[m] <= MaxAge

\* isFreshTimestamp
Fresh(m) == age[m] \in -Skew..Skew

Step(c, s) == handler' = [handler EXCEPT ![c] = s]
Refuse(c) == Step(c, "refused")

\* request of the access client, with o and p outstanding and pending by now.  A
\* lookup is known by its caller and its turn.
Ask(c, turn, s, o, p) ==
  IF "access" \in down \/ Cardinality(o) >= MaxOutstanding
    THEN /\ Refuse(c)
         /\ outstanding' = o /\ pending' = p
         /\ UNCHANGED asked
    ELSE /\ Step(c, s)
         /\ outstanding' = o \cup {<<c, turn>>} /\ pending' = p \cup {<<c, turn>>}
         /\ asked' = Append(asked, <<c, turn>>)

-----------------------------------------------------------------------------
(* The phone. *)

AgentWaits == UNCHANGED agentVars

\* handleSendText: the message is kept before it is sent.
Send(m) ==
  /\ call[m] = "none"
  /\ row' = [row EXCEPT ![m] = "sending"]
  /\ call' = [call EXCEPT ![m] = "signing"]
  /\ AgentWaits /\ UNCHANGED <<age, ahead, adrift, troubles>>

SendUnsaved(m) ==
  /\ call[m] = "none" /\ Trouble
  /\ call' = [call EXCEPT ![m] = "failed"]
  /\ AgentWaits /\ UNCHANGED <<row, age, ahead, adrift>>

Post(m) ==
  /\ call[m] = "signing"
  /\ call' = [call EXCEPT ![m] = "waiting"]
  /\ age' = [age EXCEPT ![m] = -ahead]
  /\ AgentWaits /\ UNCHANGED <<row, ahead, adrift, troubles>>

NoSecret(m) ==
  /\ call[m] = "signing" /\ Trouble
  /\ call' = [call EXCEPT ![m] = "failed"]
  /\ AgentWaits /\ UNCHANGED <<row, age, ahead, adrift>>

\* The request or its answer is lost, and fetch is told so.
Lost(m) ==
  /\ call[m] = "waiting" /\ Trouble
  /\ call' = [call EXCEPT ![m] = "failed"]
  /\ AgentWaits /\ UNCHANGED <<row, age, ahead, adrift>>

\* It is lost without a word: fetch has no timeout.
LostSilently(m) ==
  /\ call[m] = "waiting" /\ Trouble
  /\ adrift' = adrift \cup {m}
  /\ AgentWaits /\ UNCHANGED <<row, call, age, ahead>>

\* mutant: an answer that is no message is not reported
TakeMessage(m) ==
  /\ call[m] = "waiting" /\ m \notin adrift
  /\ \E c \in {m} \X {1, 2} :
       /\ handler[c] = "answered"
       /\ call' = [call EXCEPT ![m] = "accepted"]
  /\ AgentWaits /\ UNCHANGED <<row, age, ahead, adrift, troubles>>

TakeAnswer(m) ==
  /\ call[m] = "waiting" /\ m \notin adrift
  /\ \E c \in {m} \X {1, 2} :
       /\ handler[c] \in {"answered", "refused"}
       /\ call' = [call EXCEPT ![m] = IF handler[c] = "answered" THEN "accepted" ELSE "failed"]
  /\ AgentWaits /\ UNCHANGED <<row, age, ahead, adrift, troubles>>

\* markTextMessageDelivery inserts the row if the user has deleted it, and
\* markTextMessageFailed does not.
MarkSent(m) ==
  /\ call[m] = "accepted"
  /\ row' = [row EXCEPT ![m] = "sent"]
  /\ call' = [call EXCEPT ![m] = "ended"]
  /\ AgentWaits /\ UNCHANGED <<age, ahead, adrift, troubles>>

\* A message that is accepted and cannot be marked has failed for the phone.
MarkSentFails(m) ==
  /\ call[m] = "accepted" /\ Trouble
  /\ call' = [call EXCEPT ![m] = "failed"]
  /\ AgentWaits /\ UNCHANGED <<row, age, ahead, adrift>>

MarkFailed(m) ==
  /\ call[m] = "failed"
  /\ row' = [row EXCEPT ![m] = IF @ = "none" THEN @ ELSE "failed"]
  /\ call' = [call EXCEPT ![m] = "ended"]
  /\ AgentWaits /\ UNCHANGED <<age, ahead, adrift, troubles>>

\* The error of this write is dropped, and the row goes on to say sending.
MarkFailedFails(m) ==
  /\ call[m] = "failed" /\ Trouble
  /\ call' = [call EXCEPT ![m] = "ended"]
  /\ adrift' = adrift \cup {m}
  /\ AgentWaits /\ UNCHANGED <<row, age, ahead>>

DeleteMessage(m) ==
  /\ row[m] # "none" /\ Trouble
  /\ row' = [row EXCEPT ![m] = "none"]
  /\ AgentWaits /\ UNCHANGED <<call, age, ahead, adrift>>

\* The process ends: nobody marks what was being sent.
Killed ==
  /\ Trouble
  /\ call' = [m \in Messages |-> IF call[m] = "none" THEN "none" ELSE "ended"]
  /\ adrift' = adrift \cup {m \in Messages : call[m] \notin {"none", "ended"}}
  /\ AgentWaits /\ UNCHANGED <<row, age, ahead>>

-----------------------------------------------------------------------------
(* The Agent's event loop. *)

PhoneWaits == UNCHANGED phoneVars

\* A copy of the POST arrives, whatever the phone does by now: its headers are
\* checked and the device is looked up.
Arrive(m, n) ==
  LET c == <<m, n>> IN
  /\ Posted(m) /\ handler[c] = "none"
  /\ IF n = 1 THEN UNCHANGED troubles ELSE handler[<<m, 1>>] # "none" /\ Trouble
  /\ IF Fresh(m) THEN Ask(c, 1, "authenticating", outstanding, pending)
                 ELSE Refuse(c) /\ UNCHANGED <<outstanding, pending, asked>>
  /\ allowed' = IF device = "allowed" THEN allowed \cup {c} ELSE allowed
  /\ PhoneWaits /\ UNCHANGED <<answers, nonceVars, device, stored, down>>

\* mutant: a nonce is kept for as long as a timestamp may be off
KeptForSkew == Skew

\* how long a nonce is kept
Kept == NonceTtl

\* removeExpiredNonces
Live == {u \in usedNonces : age[u[1]] < u[2]}

\* authenticate goes on after the lookup, and for an authentic request the service
\* looks up whether the device may send.
Authenticated(c, d, o, p) ==
  LET m == c[1]
      known == Fresh(m) /\ d # "removed"
      authentic == known /\ (\A u \in Live : u[1] # m) /\ Cardinality(Live) < MaxNonces
  IN IF authentic
       THEN /\ usedNonces' = Live \cup {<<m, age[m] + Kept>>}
            /\ accepted' = [accepted EXCEPT ![m] = @ + 1]
            /\ unsure' = IF age[m] = -Skew THEN unsure \cup {m} ELSE unsure
            /\ Ask(c, 2, "permitting", o, p)
       ELSE /\ Refuse(c)
            /\ usedNonces' = IF known THEN Live ELSE usedNonces
            /\ outstanding' = o /\ pending' = p
            /\ UNCHANGED <<accepted, unsure, asked>>

\* assertDeviceMaySend goes on, and the message goes to its worker.
Permitted(c, d, o, p) ==
  /\ Step(c, IF d = "allowed" /\ "store" \notin down THEN "appending" ELSE "refused")
  /\ outstanding' = o /\ pending' = p
  /\ UNCHANGED <<nonceVars, asked>>

\* handleWorkerMessage: an answer frees its place, and is used if somebody waits.
Answered ==
  /\ answers # <<>>
  /\ answers' = Tail(answers)
  /\ LET id == Head(answers).id
         d  == Head(answers).device
         o  == outstanding \ {id}
     IN IF id \notin pending
          THEN /\ outstanding' = o
               /\ UNCHANGED <<handler, pending, asked, nonceVars>>
        ELSE IF id[2] = 1 THEN Authenticated(id[1], d, o, pending \ {id})
                          ELSE Permitted(id[1], d, o, pending \ {id})
  /\ PhoneWaits /\ UNCHANGED <<device, stored, down, allowed, troubles>>

\* handleRequestTimeout
TimesOut(id) ==
  /\ id \in pending /\ Trouble
  /\ pending' = pending \ {id}
  /\ Refuse(id[1])
  /\ PhoneWaits
  /\ UNCHANGED <<outstanding, asked, answers, nonceVars, device, stored, down, allowed>>

\* The worker's answer: the service publishes the message and answers the phone.
Reply(c) ==
  /\ handler[c] = "appended"
  /\ Step(c, "answered")
  /\ PhoneWaits
  /\ UNCHANGED <<accessVars, nonceVars, device, stored, down, allowed, troubles>>

-----------------------------------------------------------------------------
(* The Agent's workers and the user. *)

\* mutant: the worker reads in the transaction it opened when it started
ReadSnapshot ==
  /\ asked # <<>>
  /\ asked' = Tail(asked)
  /\ answers' = Append(answers, [id |-> Head(asked), device |-> "allowed"])
  /\ PhoneWaits
  /\ UNCHANGED <<handler, outstanding, pending, nonceVars, device, stored, down, allowed, troubles>>

\* The access worker reads the device as it is now.
Read ==
  /\ asked # <<>>
  /\ asked' = Tail(asked)
  /\ answers' = Append(answers, [id |-> Head(asked), device |-> device])
  /\ PhoneWaits
  /\ UNCHANGED <<handler, outstanding, pending, nonceVars, device, stored, down, allowed, troubles>>

\* handleWorkerFailure, or close: everybody who waits is refused, now and later.
AccessFails ==
  /\ "access" \notin down /\ Trouble
  /\ down' = down \cup {"access"}
  /\ outstanding' = {} /\ pending' = {} /\ asked' = <<>> /\ answers' = <<>>
  /\ handler' = [c \in Copies |-> IF \E id \in pending : id[1] = c THEN "refused" ELSE handler[c]]
  /\ PhoneWaits /\ UNCHANGED <<nonceVars, device, stored, allowed>>

\* mutant: the service answers before the worker has stored the message
AppendAfterwards(c) ==
  /\ handler[c] = "appending"
  /\ Step(c, "appended")
  /\ PhoneWaits
  /\ UNCHANGED <<accessVars, nonceVars, device, stored, down, allowed, troubles>>

\* append: a message that is there already is answered again.
AppendMessage(c) ==
  /\ handler[c] = "appending"
  /\ Step(c, "appended")
  /\ stored' = IF Contains(stored, c[1]) THEN stored ELSE Append(stored, c[1])
  /\ PhoneWaits /\ UNCHANGED <<accessVars, nonceVars, device, down, allowed, troubles>>

\* fail, or close: also a request whose message is stored and not yet answered.
StoreFails ==
  /\ "store" \notin down /\ Trouble
  /\ down' = down \cup {"store"}
  /\ handler' = [c \in Copies |-> IF handler[c] \in {"appending", "appended"} THEN "refused" ELSE handler[c]]
  /\ PhoneWaits /\ UNCHANGED <<accessVars, nonceVars, device, stored, allowed>>

\* The Agent's user forbids or allows the phone to send, or removes it.
DeviceChanges ==
  /\ device # "removed" /\ Trouble
  /\ device' \in {"allowed", "disabled", "removed"} \ {device}
  /\ allowed' = IF device' = "allowed" THEN allowed \cup {c \in Copies : handler[c] \in Handling}
                                      ELSE allowed
  /\ PhoneWaits /\ UNCHANGED <<handler, accessVars, nonceVars, stored, down>>

\* The process ends and is started again: what it knew is gone, and who waits for an
\* answer is told that the connection is broken.
AgentRestarts ==
  /\ Trouble
  /\ outstanding' = {} /\ pending' = {} /\ asked' = <<>> /\ answers' = <<>>
  /\ handler' = [c \in Copies |-> IF handler[c] \in Handling THEN "refused" ELSE handler[c]]
  /\ usedNonces' = {} /\ down' = {}
  /\ accepted' = [m \in Messages |-> 0] /\ unsure' = {}
  /\ PhoneWaits /\ UNCHANGED <<device, stored, allowed>>

-----------------------------------------------------------------------------
(* Time. *)

ClocksMove == UNCHANGED <<row, call, adrift, handler, accessVars, usedNonces, accepted, device,
                          stored, down, allowed>>

\* The age of every POST changes by d.
Ages(d) ==
  /\ \A m \in Messages : Posted(m) => age[m] + d <= MaxAge
  /\ age' = [m \in Messages |-> IF Posted(m) THEN age[m] + d ELSE age[m]]
  /\ ClocksMove

Tick ==
  /\ \E m \in Messages : Posted(m)
  /\ Ages(1)
  /\ UNCHANGED <<ahead, unsure, troubles>>

\* The clock of the Agent is set.
ClockSet(d) ==
  /\ d # 0 /\ Trouble
  /\ Ages(d)
  /\ ahead' = ahead - d
  /\ unsure' = IF d > 0 THEN unsure ELSE unsure \cup {m \in Messages : accepted[m] > 0}

-----------------------------------------------------------------------------
Init ==
  /\ row = [m \in Messages |-> "none"] /\ call = [m \in Messages |-> "none"]
  /\ age = [m \in Messages |-> MaxAge + 1] /\ ahead = Offset /\ adrift = {}
  /\ handler = [c \in Copies |-> "none"]
  /\ usedNonces = {} /\ unsure = {}
  /\ outstanding = {} /\ pending = {} /\ asked = <<>> /\ answers = <<>>
  /\ device = "allowed" /\ stored = <<>> /\ down = {}
  /\ accepted = [m \in Messages |-> 0] /\ allowed = {}
  /\ troubles = 0

PhoneActs(m) == Post(m) \/ TakeAnswer(m) \/ MarkSent(m) \/ MarkFailed(m)

AgentActs ==
  \/ Answered \/ Read
  \/ \E c \in Copies : AppendMessage(c) \/ Reply(c)

PhoneFails(m) ==
  \/ SendUnsaved(m) \/ NoSecret(m) \/ Lost(m) \/ LostSilently(m)
  \/ MarkSentFails(m) \/ MarkFailedFails(m)

Next ==
  \/ \E m \in Messages : Send(m) \/ PhoneActs(m) \/ PhoneFails(m) \/ DeleteMessage(m)
  \/ \E m \in Messages, n \in {1, 2} : Arrive(m, n)
  \/ \E id \in Copies \X {1, 2} : TimesOut(id)
  \/ AgentActs \/ Killed \/ AccessFails \/ StoreFails \/ AgentRestarts \/ DeviceChanges
  \/ Tick \/ \E d \in -MaxStep..MaxStep : ClockSet(d)

Spec == Init /\ [][Next]_vars

\* The phone's code and the Agent's threads run, and the network delivers a request
\* in the end.  That it delivers an answer is not assumed: LostSilently keeps it for
\* ever, and a request that does not come is no different for the phone.
FairSpec ==
  /\ Spec
  /\ WF_vars(AgentActs)
  /\ \A m \in Messages : WF_vars(PhoneActs(m)) /\ WF_vars(Arrive(m, 1))

-----------------------------------------------------------------------------
(* A message is shown as sent only if the Agent has it: whatever was lost,         *)
(* repeated, timed out or failed on the way.                                       *)
SentIsStored == \A m \in Messages : row[m] = "sent" => Contains(stored, m)

(* "Nonce inspection and marking remain in one synchronous continuation": a request *)
(* is accepted at most once by one process of the Agent, however late its second    *)
(* copy comes, and also when the window has been full.  The code does not have this *)
(* of a request from exactly Skew in the future, whose nonce expires in the unit    *)
(* that ends its freshness, nor once the clock is set back.                         *)
AcceptedOnce == \A m \in Messages \ unsure : accepted[m] <= 1

(* A message is stored only for a phone that was allowed to send at some time while *)
(* the request was handled: the late answer of another request does not count.      *)
StoredWasAllowed == \A c \in Copies : handler[c] \in {"appending", "appended", "answered"} => c \in allowed

(* A send ends, and the row then does not say sending: whatever times out, fails or *)
(* starts again at the Agent.  It does not if the network loses it without a word   *)
(* (fetch has no timeout), the app is killed or the failure cannot be written.      *)
SendEnds ==
  \A m \in Messages :
    call[m] = "signing" ~> (call[m] = "ended" /\ row[m] # "sending") \/ m \in adrift
=============================================================================

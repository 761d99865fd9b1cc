------------------------- MODULE V3TextDeliveryProofs -------------------------
(***************************************************************************)
(* Proofs about V3TextDelivery, for any number of messages, every Skew,    *)
(* offset and setting of the clocks, and limits of any size.               *)
(***************************************************************************)
EXTENDS V3TextDelivery, SequenceTheorems, TLAPS

Lookups == Copies \X {1, 2}
Devices == {"allowed", "disabled", "removed"}
Answers == [id : Lookups, device : Devices]

Calls    == {"none", "signing", "waiting", "accepted", "failed", "ended"}
Handlers == Handling \cup {"none", "refused", "answered"}

CallTyped    == row \in [Messages -> {"none", "sending", "sent", "failed"}] /\ call \in [Messages -> Calls]
TimeTyped    == /\ age \in [Messages -> Int] /\ ahead \in Int
                /\ usedNonces \subseteq Messages \X Int
                /\ accepted \in [Messages -> Nat] /\ unsure \subseteq Messages
HandlerTyped == handler \in [Copies -> Handlers]
LookupTyped  == pending \in SUBSET Lookups /\ asked \in Seq(Lookups) /\ answers \in Seq(Answers)
DeviceTyped  == device \in Devices /\ stored \in Seq(Messages) /\ allowed \in SUBSET Copies

Typed == CallTyped /\ TimeTyped /\ HandlerTyped /\ LookupTyped /\ DeviceTyped

-----------------------------------------------------------------------------
(* The inductive invariant. *)

\* A message the phone will show as sent has been stored first.
Stored ==
  /\ \A m \in Messages : row[m] = "sent" \/ call[m] = "accepted" => Contains(stored, m)
  /\ \A c \in Copies : handler[c] \in {"appended", "answered"} => Contains(stored, c[1])

\* A POST that was not made has not arrived.
Arrived ==
  \A m \in Messages : call[m] \in {"none", "signing"} =>
    /\ age[m] = MaxAge + 1 /\ accepted[m] = 0
    /\ \A n \in {1, 2} : handler[<<m, n>>] = "none"

\* The nonce of an accepted POST stays in the window for as long as its timestamp
\* is fresh.
Held(m) == \E u \in usedNonces : u[1] = m /\ u[2] > Skew

Once ==
  \A m \in Messages \ unsure : /\ accepted[m] <= 1
                               /\ accepted[m] = 1 => age[m] > Skew \/ Held(m)

\* A handler waits for at most one lookup, and what the worker has still to do or
\* to say is about a handler that has asked for it.
Turn(c, turn) == handler[c] = IF turn = 1 THEN "authenticating" ELSE "permitting"

Has(c, turn) == handler[c] \notin IF turn = 1 THEN {"none"} ELSE {"none", "authenticating"}

Looking ==
  /\ \A id \in pending : Turn(id[1], id[2])
  /\ \A id \in Lookups : Contains(asked, id) => Has(id[1], id[2])
  /\ \A a \in Answers : Contains(answers, a) => Has(a.id[1], a.id[2])

\* allowed knows the copies that are handled while the phone may send, and those
\* whose lookup has found that it may.
Permits == {"appending", "appended", "answered"}

Allowing ==
  /\ \A c \in Copies : handler[c] \in Permits => c \in allowed
  /\ device = "allowed" => \A c \in Copies : handler[c] \in Handling => c \in allowed
  /\ \A a \in Answers :
       Contains(answers, a) /\ a.device = "allowed" /\ a.id \in pending => a.id[1] \in allowed

IInv == Typed /\ Stored /\ Arrived /\ Once /\ Looking /\ Allowing

-----------------------------------------------------------------------------
(* What a queue contains. *)

LEMMA ContainsEmpty == \A x : ~Contains(<<>>, x)
BY DEF Contains

LEMMA ContainsAppend ==
  ASSUME NEW S, NEW s \in Seq(S), NEW e \in S
  PROVE  /\ Append(s, e) \in Seq(S)
         /\ \A x : Contains(Append(s, e), x) <=> Contains(s, x) \/ x = e
<1>1. /\ Append(s, e) \in Seq(S) /\ Len(Append(s, e)) = Len(s) + 1 /\ Len(s) \in Nat
      /\ \A i \in 1..Len(s) : Append(s, e)[i] = s[i]
      /\ Append(s, e)[Len(s) + 1] = e
  BY AppendProperties, LenProperties
<1>. QED BY <1>1 DEF Contains

LEMMA ContainsTail ==
  ASSUME NEW S, NEW s \in Seq(S), s # <<>>
  PROVE  /\ Tail(s) \in Seq(S) /\ Head(s) \in S /\ Contains(s, Head(s))
         /\ \A x : Contains(Tail(s), x) => Contains(s, x)
<1>1. /\ Tail(s) \in Seq(S) /\ Head(s) \in S /\ Len(s) \in Nat \ {0} /\ Len(Tail(s)) = Len(s) - 1
      /\ Head(s) = s[1]
      /\ \A i \in 1..Len(Tail(s)) : Tail(s)[i] = s[i + 1]
  BY HeadTailProperties, LenProperties, EmptySeq
<1>2. Contains(s, Head(s))
  BY <1>1 DEF Contains
<1>3. ASSUME NEW x, Contains(Tail(s), x) PROVE Contains(s, x)
  <2>1. PICK i \in 1..Len(Tail(s)) : Tail(s)[i] = x
    BY <1>3 DEF Contains
  <2>2. i + 1 \in 1..Len(s) /\ s[i + 1] = x
    BY <1>1, <2>1
  <2>. QED BY <2>2 DEF Contains
<1>. QED BY <1>1, <1>2, <1>3

-----------------------------------------------------------------------------
(* Helpers. *)

\* A conjunct of the invariant holds as long as its variables do not change.
LEMMA Frames ==
  /\ CallTyped /\ UNCHANGED <<row, call>> => CallTyped'
  /\ TimeTyped /\ UNCHANGED <<age, ahead, usedNonces, accepted, unsure>> => TimeTyped'
  /\ HandlerTyped /\ UNCHANGED handler => HandlerTyped'
  /\ LookupTyped /\ UNCHANGED <<pending, asked, answers>> => LookupTyped'
  /\ DeviceTyped /\ UNCHANGED <<device, stored, allowed>> => DeviceTyped'
  /\ Stored /\ UNCHANGED <<row, call, handler, stored>> => Stored'
  /\ Arrived /\ UNCHANGED <<call, age, accepted, handler>> => Arrived'
  /\ Once /\ UNCHANGED <<age, usedNonces, accepted, unsure>> => Once'
  /\ Looking /\ UNCHANGED <<handler, pending, asked, answers>> => Looking'
  /\ Allowing /\ UNCHANGED <<handler, pending, answers, device, allowed>> => Allowing'
<1>1. CallTyped /\ UNCHANGED <<row, call>> => CallTyped'
  BY DEF CallTyped
<1>2. TimeTyped /\ UNCHANGED <<age, ahead, usedNonces, accepted, unsure>> => TimeTyped'
  BY DEF TimeTyped
<1>3. HandlerTyped /\ UNCHANGED handler => HandlerTyped'
  BY DEF HandlerTyped
<1>4. LookupTyped /\ UNCHANGED <<pending, asked, answers>> => LookupTyped'
  BY DEF LookupTyped
<1>5. DeviceTyped /\ UNCHANGED <<device, stored, allowed>> => DeviceTyped'
  BY DEF DeviceTyped
<1>6. Stored /\ UNCHANGED <<row, call, handler, stored>> => Stored'
  BY DEF Stored
<1>7. Arrived /\ UNCHANGED <<call, age, accepted, handler>> => Arrived'
  BY DEF Arrived
<1>8. Once /\ UNCHANGED <<age, usedNonces, accepted, unsure>> => Once'
  BY DEF Once, Held
<1>9. Looking /\ UNCHANGED <<handler, pending, asked, answers>> => Looking'
  BY DEF Looking, Turn, Has
<1>10. Allowing /\ UNCHANGED <<handler, pending, answers, device, allowed>> => Allowing'
  BY DEF Allowing
<1>. QED BY <1>1, <1>2, <1>3, <1>4, <1>5, <1>6, <1>7, <1>8, <1>9, <1>10

LEMMA CopyPair ==
  ASSUME NEW c \in Copies PROVE c[1] \in Messages /\ c[2] \in {1, 2} /\ c = <<c[1], c[2]>>
BY DEF Copies

LEMMA LookupPair ==
  ASSUME NEW id \in Lookups PROVE id[1] \in Copies /\ id[2] \in {1, 2} /\ id = <<id[1], id[2]>>
BY DEF Lookups

LEMMA Pairs == /\ \A m \in Messages, n \in {1, 2} : <<m, n>> \in Copies
               /\ \A c \in Copies, t \in {1, 2} : <<c, t>> \in Lookups
BY DEF Copies, Lookups

\* The handler of one copy takes a step.
LEMMA Stepped ==
  ASSUME HandlerTyped, NEW c \in Copies, NEW s \in Handlers, Step(c, s)
  PROVE  /\ HandlerTyped' /\ handler'[c] = s
         /\ \A b \in Copies : b # c => handler'[b] = handler[b]
BY DEF HandlerTyped, Step

\* A lookup that is asked for, or is not.
LEMMA AskKinds ==
  ASSUME NEW c, NEW turn, NEW s, NEW o, NEW p, Ask(c, turn, s, o, p)
  PROVE  \/ Step(c, s) /\ pending' = p \cup {<<c, turn>>} /\ asked' = Append(asked, <<c, turn>>)
         \/ Step(c, "refused") /\ pending' = p /\ asked' = asked
BY DEF Ask, Refuse

\* Handlers that take no step toward the phone keep what is said of stored messages.
LEMMA StoredKept ==
  ASSUME Stored, UNCHANGED <<row, call, stored>>,
         \A c \in Copies : handler'[c] \in {"appended", "answered"} => handler[c] \in {"appended", "answered"}
  PROVE  Stored'
BY DEF Stored

\* Only a POST that was made is handled and accepted.
LEMMA ArrivedKept ==
  ASSUME Arrived, UNCHANGED <<call, age>>,
         \A m \in Messages : \/ /\ accepted'[m] \in {accepted[m], 0}
                                /\ \A n \in {1, 2} : handler[<<m, n>>] = "none" => handler'[<<m, n>>] = "none"
                             \/ call[m] \notin {"none", "signing"}
  PROVE  Arrived'
BY DEF Arrived

\* A handler that goes on was made for a POST.
LEMMA HandledWasPosted ==
  ASSUME Arrived, NEW c \in Copies, handler[c] # "none"
  PROVE  call[c[1]] \notin {"none", "signing"}
<1>1. c[1] \in Messages /\ c[2] \in {1, 2} /\ handler[<<c[1], c[2]>>] # "none"
  BY CopyPair
<1>. QED BY <1>1 DEF Arrived

LEMMA AllowingKept ==
  ASSUME Allowing, device' = device, allowed \subseteq allowed',
         \A c \in Copies : handler'[c] \in Permits => handler[c] \in Permits \/ c \in allowed',
         \A c \in Copies : handler'[c] \in Handling => handler[c] \in Handling \/ c \in allowed'
                                                       \/ device # "allowed",
         \A a \in Answers : Contains(answers', a) /\ a.id \in pending'
                              => Contains(answers, a) /\ a.id \in pending
  PROVE  Allowing'
BY DEF Allowing

\* A handler has one lookup.
LEMMA OnePending ==
  ASSUME LookupTyped, Looking, NEW id \in pending, NEW k \in pending, k[1] = id[1]
  PROVE  k = id
<1>1. id \in Lookups /\ k \in Lookups
  BY DEF LookupTyped
<1>2. Turn(id[1], id[2]) /\ Turn(k[1], k[2])
  BY DEF Looking
<1>3. k[2] = id[2]
  BY <1>1, <1>2, LookupPair DEF Turn
<1>. QED BY <1>1, <1>3, LookupPair

-----------------------------------------------------------------------------
(* The phone.  Its steps leave the Agent alone. *)

LEMMA PhoneKept ==
  ASSUME IInv, AgentWaits, UNCHANGED <<age, ahead>>, CallTyped', Stored',
         \A m \in Messages : call'[m] \in {"none", "signing"} => call[m] \in {"none", "signing"}
  PROVE  IInv'
<1>1. /\ UNCHANGED <<handler, outstanding, pending, asked, answers>>
      /\ UNCHANGED <<usedNonces, accepted, unsure, device, stored, allowed>>
  BY DEF AgentWaits, agentVars, accessVars, nonceVars
<1>2. Arrived'
  BY <1>1 DEF IInv, Arrived
<1>. QED BY <1>1, <1>2, Frames DEF IInv, Typed

LEMMA SendInv == ASSUME IInv, NEW m \in Messages, Send(m) PROVE IInv'
<1>1. CallTyped'
  BY DEF IInv, Typed, CallTyped, Calls, Send
<1>2. Stored'
  BY DEF IInv, Typed, CallTyped, Stored, Send, AgentWaits, agentVars
<1>3. \A k \in Messages : call'[k] \in {"none", "signing"} => call[k] \in {"none", "signing"}
  BY DEF IInv, Typed, CallTyped, Send
<1>. QED BY <1>1, <1>2, <1>3, PhoneKept DEF Send

LEMMA PostInv == ASSUME IInv, NEW m \in Messages, Post(m) PROVE IInv'
<1>1. /\ UNCHANGED <<handler, outstanding, pending, asked, answers, row, ahead>>
      /\ UNCHANGED <<usedNonces, accepted, unsure, device, stored, allowed>>
  BY DEF Post, AgentWaits, agentVars, accessVars, nonceVars
<1>2. CallTyped'
  BY DEF IInv, Typed, CallTyped, Calls, Post
<1>3. TimeTyped'
  BY <1>1 DEF IInv, Typed, TimeTyped, Post
<1>4. Stored'
  BY <1>1 DEF IInv, Typed, CallTyped, Stored, Post
<1>5. /\ \A k \in Messages : k # m => call'[k] = call[k] /\ age'[k] = age[k]
      /\ call'[m] = "waiting" /\ call[m] = "signing"
  BY DEF IInv, Typed, CallTyped, TimeTyped, Post
<1>6. Arrived'
  BY <1>1, <1>5 DEF IInv, Arrived
<1>7. accepted[m] = 0
  BY <1>5 DEF IInv, Arrived
<1>8. Once'
  <2>1. SUFFICES ASSUME NEW k \in Messages \ unsure
                 PROVE  accepted[k] <= 1 /\ (accepted[k] = 1 => age'[k] > Skew \/ Held(k))
    BY <1>1 DEF Once, Held
  <2>. QED BY <1>5, <1>7 DEF IInv, Once
<1>. QED BY <1>1, <1>2, <1>3, <1>4, <1>6, <1>8, Frames DEF IInv, Typed

\* The other steps of a call, and DeleteMessage.
LEMMA CallInv ==
  ASSUME IInv, NEW m \in Messages,
         PhoneFails(m) \/ TakeAnswer(m) \/ MarkSent(m) \/ MarkFailed(m) \/ DeleteMessage(m)
  PROVE  IInv'
<1>1. AgentWaits /\ UNCHANGED <<age, ahead, handler, stored>>
  BY DEF PhoneFails, SendUnsaved, NoSecret, Lost, LostSilently, MarkSentFails, MarkFailedFails,
         TakeAnswer, MarkSent, MarkFailed, DeleteMessage, AgentWaits, agentVars
<1>2. /\ row' \in [Messages -> {"none", "sending", "sent", "failed"}]
      /\ call' \in [Messages -> Calls]
      /\ \A k \in Messages : k # m => row'[k] = row[k] /\ call'[k] = call[k]
      /\ call'[m] \in {"accepted", "failed", "ended"} \/ call'[m] = call[m]
      /\ row'[m] = "sent" => row[m] = "sent" \/ call[m] = "accepted"
      /\ call'[m] = "accepted" =>
           call[m] = "accepted" \/ \E c \in {m} \X {1, 2} : handler[c] = "answered"
  <2>1. CASE SendUnsaved(m) \/ NoSecret(m) \/ Lost(m)
    BY <2>1 DEF SendUnsaved, NoSecret, Lost, IInv, Typed, CallTyped, Calls
  <2>2. CASE LostSilently(m) \/ MarkSentFails(m) \/ MarkFailedFails(m)
    BY <2>2 DEF LostSilently, MarkSentFails, MarkFailedFails, IInv, Typed, CallTyped, Calls
  <2>3. CASE TakeAnswer(m)
    BY <2>3 DEF TakeAnswer, IInv, Typed, CallTyped, Calls
  <2>4. CASE MarkSent(m)
    BY <2>4 DEF MarkSent, IInv, Typed, CallTyped, Calls
  <2>5. CASE MarkFailed(m)
    BY <2>5 DEF MarkFailed, IInv, Typed, CallTyped, Calls
  <2>6. CASE DeleteMessage(m)
    BY <2>6 DEF DeleteMessage, IInv, Typed, CallTyped, Calls
  <2>. QED BY <2>1, <2>2, <2>3, <2>4, <2>5, <2>6 DEF PhoneFails
<1>3. \A c \in {m} \X {1, 2} : c \in Copies /\ c[1] = m
  BY DEF Copies
<1>4. row'[m] = "sent" \/ call'[m] = "accepted" => Contains(stored, m)
  BY <1>2, <1>3 DEF IInv, Stored
<1>5. Stored'
  BY <1>1, <1>2, <1>4 DEF IInv, Stored
<1>6. \A k \in Messages : call'[k] \in {"none", "signing"} => call[k] \in {"none", "signing"}
  BY <1>2
<1>7. CallTyped'
  BY <1>2 DEF CallTyped
<1>. QED BY <1>1, <1>5, <1>6, <1>7, PhoneKept

LEMMA KilledInv == ASSUME IInv, Killed PROVE IInv'
<1>1. CallTyped'
  BY DEF IInv, Typed, CallTyped, Calls, Killed
<1>2. \A k \in Messages : call'[k] \in {"none", "ended"} /\ (call'[k] = "none" => call[k] = "none")
  BY DEF Killed
<1>3. Stored'
  BY <1>2 DEF IInv, Stored, Killed, AgentWaits, agentVars
<1>. QED BY <1>1, <1>2, <1>3, PhoneKept DEF Killed

-----------------------------------------------------------------------------
(* Requests arrive, and lookups are answered. *)

LEMMA ArriveInv == ASSUME IInv, NEW m \in Messages, NEW n \in {1, 2}, Arrive(m, n) PROVE IInv'
<1>. DEFINE c == <<m, n>>
<1>1. c \in Copies /\ c[1] = m /\ handler[c] = "none" /\ Posted(m)
  BY Pairs DEF Arrive
<1>2. /\ UNCHANGED <<row, call, age, ahead, usedNonces, unsure, answers, device, stored, accepted>>
      /\ allowed' = IF device = "allowed" THEN allowed \cup {c} ELSE allowed
  BY DEF Arrive, PhoneWaits, phoneVars, nonceVars
<1>3. \/ Step(c, "authenticating") /\ pending' = pending \cup {<<c, 1>>}
         /\ asked' = Append(asked, <<c, 1>>)
      \/ Step(c, "refused") /\ pending' = pending /\ asked' = asked
  BY AskKinds DEF Arrive, Refuse
<1>4. PICK s \in {"authenticating", "refused"} :
        /\ Step(c, s)
        /\ \/ s = "refused" /\ pending' = pending /\ asked' = asked
           \/ /\ s = "authenticating" /\ pending' = pending \cup {<<c, 1>>}
              /\ asked' = Append(asked, <<c, 1>>)
  BY <1>3
<1>. HIDE DEF c
<1>5. /\ HandlerTyped' /\ handler'[c] = s
      /\ \A b \in Copies : b # c => handler'[b] = handler[b]
  BY <1>1, <1>4, Stepped DEF IInv, Typed, Handlers, Handling
<1>6. /\ asked' \in Seq(Lookups)
      /\ \A id : Contains(asked', id) => Contains(asked, id) \/ (id = <<c, 1>> /\ s = "authenticating")
  <2>1. <<c, 1>> \in Lookups /\ asked \in Seq(Lookups)
    BY <1>1, Pairs DEF IInv, Typed, LookupTyped
  <2>2. /\ Append(asked, <<c, 1>>) \in Seq(Lookups)
        /\ \A id : Contains(Append(asked, <<c, 1>>), id) <=> Contains(asked, id) \/ id = <<c, 1>>
    BY <2>1, ContainsAppend
  <2>. QED BY <1>4, <2>1, <2>2
<1>7. LookupTyped' /\ DeviceTyped'
  BY <1>1, <1>2, <1>4, <1>6, Pairs DEF IInv, Typed, LookupTyped, DeviceTyped
<1>8. Stored'
  BY <1>2, <1>5, StoredKept DEF IInv
<1>9. call[m] \notin {"none", "signing"}
  <2>1. age[m] # MaxAge + 1
    BY <1>1, TextAssumption DEF TextAssumption, IInv, Typed, TimeTyped, Posted
  <2>. QED BY <2>1 DEF IInv, Arrived
<1>10. \A k \in Messages : k # m => \A i \in {1, 2} : <<k, i>> # c
  BY DEF c
<1>11. Arrived'
  BY <1>2, <1>5, <1>9, <1>10, Pairs, ArrivedKept DEF IInv
<1>12. \A t \in {1, 2} : ~Turn(c, t) /\ ~Has(c, t)
  BY <1>1 DEF Turn, Has
<1>13. Looking'
  <2>1. ASSUME NEW id \in pending' PROVE Turn(id[1], id[2])'
    <3>1. CASE id \in pending
      <4>1. id \in Lookups /\ Turn(id[1], id[2])
        BY <3>1 DEF IInv, Typed, LookupTyped, Looking
      <4>2. id[1] # c
        BY <4>1, <1>12, LookupPair
      <4>. QED BY <4>1, <4>2, <1>5, LookupPair DEF Turn
    <3>2. CASE id = <<c, 1>> /\ s = "authenticating"
      BY <3>2, <1>5 DEF Turn
    <3>. QED BY <3>1, <3>2, <1>4, <2>1
  <2>2. \A b \in Copies, t \in {1, 2} : Has(b, t) => Has(b, t)'
    BY <1>5, <1>12 DEF Has
  <2>3. ASSUME NEW id \in Lookups, Contains(asked', id) PROVE Has(id[1], id[2])'
    <3>1. CASE Contains(asked, id)
      BY <3>1, <2>2, LookupPair DEF IInv, Looking
    <3>2. CASE id = <<c, 1>> /\ s = "authenticating"
      BY <3>2, <1>5 DEF Has
    <3>. QED BY <3>1, <3>2, <2>3, <1>6
  <2>4. ASSUME NEW a \in Answers, Contains(answers', a) PROVE Has(a.id[1], a.id[2])'
    BY <2>2, <2>4, <1>2, LookupPair DEF IInv, Looking, Answers
  <2>. QED BY <2>1, <2>3, <2>4 DEF Looking
<1>14. Allowing'
  <2>1. ASSUME NEW a \in Answers, Contains(answers', a), a.id \in pending'
        PROVE  Contains(answers, a) /\ a.id \in pending
    <3>1. Contains(answers, a) /\ Has(a.id[1], a.id[2]) /\ a.id \in Lookups
      BY <2>1, <1>2 DEF IInv, Looking, Answers
    <3>2. a.id[1] # c
      BY <3>1, <1>12, LookupPair
    <3>. QED BY <3>1, <3>2, <2>1, <1>4
  <2>2. \A b \in Copies : handler'[b] \in Permits => handler[b] \in Permits
    BY <1>5 DEF Permits
  <2>3. \A b \in Copies : handler'[b] \in Handling => handler[b] \in Handling \/ b \in allowed'
                                                       \/ device # "allowed"
    BY <1>5, <1>2
  <2>. QED BY <2>1, <2>2, <2>3, <1>2, AllowingKept DEF IInv
<1>. QED BY <1>2, <1>5, <1>7, <1>8, <1>11, <1>13, <1>14, Frames DEF IInv, Typed

\* A lookup is over, and its handler asks for no other.
LEMMA Settles ==
  ASSUME IInv, NEW id \in pending, NEW s \in {"refused", "appending"}, Step(id[1], s),
         pending' = pending \ {id}, asked' = asked, LookupTyped',
         \A a : Contains(answers', a) => Contains(answers, a),
         UNCHANGED <<row, call, age, device, stored, accepted, allowed>>, TimeTyped', Once',
         s = "appending" => id[1] \in allowed /\ handler[id[1]] = "permitting"
  PROVE  IInv'
<1>1. id \in Lookups /\ id[1] \in Copies /\ handler[id[1]] \in {"authenticating", "permitting"}
  BY LookupPair DEF IInv, Typed, LookupTyped, Looking, Turn
<1>2. /\ HandlerTyped' /\ handler'[id[1]] = s
      /\ \A b \in Copies : b # id[1] => handler'[b] = handler[b]
  BY <1>1, Stepped DEF IInv, Typed, Handlers, Handling
<1>3. Stored'
  BY <1>2, StoredKept DEF IInv
<1>4. \A b \in Copies : handler[b] = "none" => handler'[b] = "none"
  BY <1>1, <1>2
<1>5. Arrived'
  BY <1>4, Pairs, ArrivedKept DEF IInv
<1>6. Looking'
  <2>1. ASSUME NEW k \in pending' PROVE Turn(k[1], k[2])'
    <3>1. k \in pending /\ k # id /\ k \in Lookups
      BY DEF IInv, Typed, LookupTyped
    <3>2. k[1] # id[1]
      BY <3>1, OnePending DEF IInv, Typed
    <3>. QED BY <3>1, <3>2, <1>2, LookupPair DEF Turn, IInv, Looking
  <2>2. \A b \in Copies, t \in {1, 2} : Has(b, t) => Has(b, t)'
    BY <1>1, <1>2 DEF Has
  <2>3. \A k \in Lookups : Contains(asked', k) => Has(k[1], k[2])'
    BY <2>2, LookupPair DEF IInv, Looking
  <2>4. ASSUME NEW a \in Answers, Contains(answers', a) PROVE Has(a.id[1], a.id[2])'
    BY <2>2, <2>4, LookupPair DEF IInv, Looking, Answers
  <2>. QED BY <2>1, <2>3, <2>4 DEF Looking
<1>7. Allowing'
  <2>1. \A b \in Copies : handler'[b] \in Permits => handler[b] \in Permits \/ b \in allowed'
    BY <1>2 DEF Permits
  <2>2. \A b \in Copies : handler'[b] \in Handling => handler[b] \in Handling
    BY <1>1, <1>2 DEF Handling
  <2>. QED BY <2>1, <2>2, AllowingKept DEF IInv
<1>. QED BY <1>2, <1>3, <1>5, <1>6, <1>7, Frames DEF IInv, Typed

LEMMA TimesOutInv == ASSUME IInv, NEW id \in Lookups, TimesOut(id) PROVE IInv'
<1>1. /\ id \in pending /\ pending' = pending \ {id} /\ Step(id[1], "refused")
      /\ UNCHANGED <<row, call, age, ahead, asked, answers>>
      /\ UNCHANGED <<usedNonces, unsure, device, stored, accepted, allowed>>
  BY DEF TimesOut, Refuse, PhoneWaits, phoneVars, nonceVars
<1>2. LookupTyped'
  BY <1>1 DEF IInv, Typed, LookupTyped
<1>3. TimeTyped' /\ Once'
  BY <1>1, Frames DEF IInv, Typed
<1>. QED BY <1>1, <1>2, <1>3, Settles

\* A nonce that is kept beyond the freshness of its POST does not expire before.
LEMMA LiveHolds ==
  ASSUME TimeTyped, NEW m \in Messages, age[m] <= Skew, Held(m)
  PROVE  \E u \in Live : u[1] = m /\ u[2] > Skew
<1>1. PICK u \in usedNonces : u[1] = m /\ u[2] > Skew
  BY DEF Held
<1>2. u[2] \in Int /\ age[m] \in Int /\ Skew \in Int
  BY TextAssumption DEF TextAssumption, TimeTyped
<1>3. u \in Live
  BY <1>1, <1>2 DEF Live
<1>. QED BY <1>1, <1>3

\* Expired nonces leave the window, and with them nothing that is held.
LEMMA ExpireInv ==
  ASSUME TimeTyped, Once, UNCHANGED <<age, ahead, accepted, unsure>>, usedNonces' = Live
  PROVE  TimeTyped' /\ Once'
<1>1. TimeTyped'
  BY DEF TimeTyped, Live
<1>2. ASSUME NEW m \in Messages \ unsure, accepted[m] = 1 PROVE age[m] > Skew \/ Held(m)'
  <2>1. age[m] > Skew \/ Held(m)
    BY <1>2 DEF Once
  <2>2. age[m] \in Int /\ Skew \in Int
    BY TextAssumption DEF TextAssumption, TimeTyped
  <2>3. CASE age[m] <= Skew
    BY <2>1, <2>2, <2>3, LiveHolds DEF Held
  <2>. QED BY <2>2, <2>3
<1>3. Once'
  BY <1>2 DEF Once
<1>. QED BY <1>1, <1>3

\* A POST is accepted: it was not before, or nothing is said of it.
LEMMA OnceInv ==
  ASSUME TimeTyped, Once, NEW m \in Messages, Fresh(m), \A u \in Live : u[1] # m,
         UNCHANGED <<age, ahead>>,
         usedNonces' = Live \cup {<<m, age[m] + Kept>>}, accepted' = [accepted EXCEPT ![m] = @ + 1],
         unsure' = IF age[m] = -Skew THEN unsure \cup {m} ELSE unsure
  PROVE  TimeTyped' /\ Once'
<1>1. Kept = 2 * Skew /\ Skew \in Nat /\ age[m] \in -Skew..Skew /\ age[m] \in Int
  BY TextAssumption DEF TextAssumption, Kept, Fresh, TimeTyped
<1>2. TimeTyped'
  <2>1. <<m, age[m] + Kept>> \in Messages \X Int
    BY <1>1
  <2>2. accepted' \in [Messages -> Nat]
    BY DEF TimeTyped
  <2>. QED BY <2>1, <2>2 DEF TimeTyped, Live
<1>3. accepted'[m] = accepted[m] + 1 /\ accepted[m] \in Nat
      /\ \A k \in Messages : k # m => accepted'[k] = accepted[k]
  BY DEF TimeTyped
<1>4. ASSUME NEW k \in Messages \ unsure'
      PROVE  accepted'[k] <= 1 /\ (accepted'[k] = 1 => age[k] > Skew \/ Held(k)')
  <2>1. k \notin unsure
    BY <1>4
  <2>2. CASE k = m
    <3>1. age[m] # -Skew
      BY <1>4, <2>2
    <3>2. accepted[m] # 1
      BY <1>1, <2>1, <2>2, LiveHolds DEF Once
    <3>3. accepted'[m] <= 1
      BY <1>3, <2>1, <2>2, <3>2 DEF Once
    <3>4. age[m] + Kept > Skew
      BY <1>1, <3>1
    <3>5. Held(m)'
      <4>. DEFINE u == <<m, age[m] + Kept>>
      <4>1. u \in usedNonces' /\ u[1] = m /\ u[2] > Skew
        BY <3>4
      <4>. HIDE DEF u
      <4>. QED BY <4>1 DEF Held
    <3>. QED BY <2>2, <3>3, <3>5
  <2>3. CASE k # m
    <3>1. accepted[k] <= 1 /\ (accepted[k] = 1 => age[k] > Skew \/ Held(k))
      BY <2>1 DEF Once
    <3>2. age[k] \in Int
      BY DEF TimeTyped
    <3>3. age[k] <= Skew /\ Held(k) => Held(k)'
      BY LiveHolds DEF Held
    <3>. QED BY <1>1, <1>3, <2>3, <3>1, <3>2, <3>3
  <2>. QED BY <2>2, <2>3
<1>5. Once'
  BY <1>4 DEF Once
<1>. QED BY <1>2, <1>5

LEMMA AnsweredInv == ASSUME IInv, Answered PROVE IInv'
<1>. DEFINE id == Head(answers).id
            d  == Head(answers).device
            o  == outstanding \ {id}
<1>1. /\ answers # <<>> /\ answers' = Tail(answers)
      /\ UNCHANGED <<row, call, age, ahead, device, stored, down, allowed>>
  BY DEF Answered, PhoneWaits, phoneVars
<1>2. /\ answers' \in Seq(Answers) /\ Head(answers) \in Answers /\ Contains(answers, Head(answers))
      /\ \A a : Contains(answers', a) => Contains(answers, a)
  BY <1>1, ContainsTail DEF IInv, Typed, LookupTyped
<1>3. id \in Lookups /\ d \in Devices
  BY <1>2 DEF Answers
<1>4. /\ id \notin pending => UNCHANGED <<handler, pending, asked, usedNonces, accepted, unsure>>
      /\ id \in pending /\ id[2] = 1 => Authenticated(id[1], d, o, pending \ {id})
      /\ id \in pending /\ id[2] # 1 => Permitted(id[1], d, o, pending \ {id})
  BY DEF Answered, nonceVars
<1>5. d = "allowed" /\ id \in pending => id[1] \in allowed
  BY <1>2 DEF IInv, Allowing
<1>. HIDE DEF id, d, o
<1>6. id[1] \in Copies /\ id[2] \in {1, 2} /\ id = <<id[1], id[2]>> /\ id[1][1] \in Messages
  BY <1>3, LookupPair, CopyPair
<1>7. pending' \subseteq Lookups /\ asked' = asked => LookupTyped'
  BY <1>2 DEF IInv, Typed, LookupTyped
<1>8. CASE id \notin pending
  <2>1. UNCHANGED <<handler, pending, asked, usedNonces, accepted, unsure>>
    BY <1>4, <1>8
  <2>2. LookupTyped'
    BY <2>1, <1>7 DEF IInv, Typed, LookupTyped
  <2>3. Looking'
    BY <1>2, <2>1 DEF IInv, Looking, Turn, Has
  <2>4. Allowing'
    BY <1>1, <1>2, <2>1 DEF IInv, Allowing
  <2>. QED BY <1>1, <2>1, <2>2, <2>3, <2>4, Frames DEF IInv, Typed
<1>9. CASE id \in pending /\ id[2] # 1
  <2>1. Permitted(id[1], d, o, pending \ {id})
    BY <1>4, <1>9
  <2>2. PICK s \in {"refused", "appending"} : Step(id[1], s) /\ (s = "appending" => d = "allowed")
    BY <2>1 DEF Permitted
  <2>3. pending' = pending \ {id} /\ UNCHANGED <<usedNonces, accepted, unsure, asked>>
    BY <2>1 DEF Permitted, nonceVars
  <2>4. LookupTyped'
    BY <2>3, <1>7 DEF IInv, Typed, LookupTyped
  <2>5. handler[id[1]] = "permitting"
    BY <1>9 DEF IInv, Looking, Turn
  <2>6. TimeTyped' /\ Once'
    BY <1>1, <2>3, Frames DEF IInv, Typed
  <2>. QED BY <1>1, <1>2, <1>5, <1>9, <2>2, <2>3, <2>4, <2>5, <2>6, Settles
<1>10. CASE id \in pending /\ id[2] = 1
  <2>. DEFINE c == id[1]
              m == c[1]
  <2>1. Authenticated(c, d, o, pending \ {id}) /\ handler[c] = "authenticating"
    BY <1>4, <1>10 DEF IInv, Looking, Turn
  <2>2. \/ /\ Step(c, "refused") /\ pending' = pending \ {id} /\ asked' = asked
           /\ UNCHANGED <<accepted, unsure>> /\ usedNonces' \in {usedNonces, Live}
        \/ /\ usedNonces' = Live \cup {<<m, age[m] + Kept>>}
           /\ accepted' = [accepted EXCEPT ![m] = @ + 1]
           /\ unsure' = IF age[m] = -Skew THEN unsure \cup {m} ELSE unsure
           /\ Fresh(m) /\ \A u \in Live : u[1] # m
           /\ Ask(c, 2, "permitting", o, pending \ {id})
    BY <2>1 DEF Authenticated, Refuse
  <2>. HIDE DEF c, m
  <2>3. c \in Copies /\ m \in Messages /\ id = <<c, 1>> /\ c = id[1] /\ c = <<m, c[2]>> /\ c[2] \in {1, 2}
    BY <1>6, <1>10, CopyPair DEF c, m
  <2>4. CASE Step(c, "refused") /\ pending' = pending \ {id} /\ asked' = asked
             /\ UNCHANGED <<accepted, unsure>> /\ usedNonces' \in {usedNonces, Live}
    <3>1. LookupTyped'
      BY <2>4, <1>7 DEF IInv, Typed, LookupTyped
    <3>2. TimeTyped' /\ Once'
      BY <1>1, <2>4, ExpireInv, Frames DEF IInv, Typed
    <3>. QED BY <1>1, <1>2, <1>10, <2>3, <2>4, <3>1, <3>2, Settles
  <2>5. CASE /\ usedNonces' = Live \cup {<<m, age[m] + Kept>>}
             /\ accepted' = [accepted EXCEPT ![m] = @ + 1]
             /\ unsure' = IF age[m] = -Skew THEN unsure \cup {m} ELSE unsure
             /\ Fresh(m) /\ \A u \in Live : u[1] # m
             /\ Ask(c, 2, "permitting", o, pending \ {id})
    <3>1. TimeTyped' /\ Once'
      BY <2>3, <2>5, <1>1, OnceInv DEF IInv, Typed
    <3>2. PICK s \in {"permitting", "refused"} :
            /\ Step(c, s)
            /\ \/ s = "refused" /\ pending' = pending \ {id} /\ asked' = asked
               \/ /\ s = "permitting" /\ pending' = (pending \ {id}) \cup {<<c, 2>>}
                  /\ asked' = Append(asked, <<c, 2>>)
      BY <2>5, AskKinds
    <3>3. \A k \in Messages : k # m => accepted'[k] = accepted[k]
      BY <2>5 DEF IInv, Typed, TimeTyped
    <3>4. /\ HandlerTyped' /\ handler'[c] = s
          /\ \A b \in Copies : b # c => handler'[b] = handler[b]
      BY <2>3, <3>2, Stepped DEF IInv, Typed, Handlers, Handling
    <3>5. /\ asked' \in Seq(Lookups)
          /\ \A k : Contains(asked', k) => Contains(asked, k) \/ (k = <<c, 2>> /\ s = "permitting")
      <4>1. <<c, 2>> \in Lookups /\ asked \in Seq(Lookups)
        BY <2>3, Pairs DEF IInv, Typed, LookupTyped
      <4>2. /\ Append(asked, <<c, 2>>) \in Seq(Lookups)
            /\ \A k : Contains(Append(asked, <<c, 2>>), k) <=> Contains(asked, k) \/ k = <<c, 2>>
        BY <4>1, ContainsAppend
      <4>. QED BY <3>2, <4>1, <4>2
    <3>6. LookupTyped'
      BY <1>2, <2>3, <3>2, <3>5, Pairs DEF IInv, Typed, LookupTyped
    <3>7. Stored'
      BY <1>1, <3>4, StoredKept DEF IInv
    <3>8. call[m] \notin {"none", "signing"}
      <4>1. handler[c] # "none"
        BY <2>1 DEF c
      <4>2. call[c[1]] \notin {"none", "signing"}
        BY <4>1, <2>3, HandledWasPosted DEF IInv
      <4>. QED BY <4>2 DEF m
    <3>9. \A k \in Messages, n \in {1, 2} : k # m => <<k, n>> # c
      BY <2>3
    <3>10. Arrived'
      BY <1>1, <3>3, <3>4, <3>8, <3>9, Pairs, ArrivedKept DEF IInv
    <3>11. handler[c] = "authenticating" /\ ~Has(c, 2)
      BY <2>1 DEF c, Has
    <3>12. Looking'
      <4>1. ASSUME NEW k \in pending' PROVE Turn(k[1], k[2])'
        <5>1. CASE k \in pending \ {id}
          <6>1. k \in Lookups /\ Turn(k[1], k[2])
            BY <5>1 DEF IInv, Typed, LookupTyped, Looking
          <6>2. k[1] # c
            BY <5>1, <1>10, <2>3, OnePending DEF IInv, Typed
          <6>. QED BY <6>1, <6>2, <3>4, LookupPair DEF Turn
        <5>2. CASE k = <<c, 2>> /\ s = "permitting"
          BY <5>2, <3>4 DEF Turn
        <5>. QED BY <5>1, <5>2, <3>2, <4>1
      <4>2. \A b \in Copies, t \in {1, 2} : Has(b, t) => Has(b, t)'
        BY <3>4, <3>11 DEF Has
      <4>3. ASSUME NEW k \in Lookups, Contains(asked', k) PROVE Has(k[1], k[2])'
        <5>1. CASE Contains(asked, k)
          BY <5>1, <4>2, LookupPair DEF IInv, Looking
        <5>2. CASE k = <<c, 2>> /\ s = "permitting"
          BY <5>2, <3>4 DEF Has
        <5>. QED BY <5>1, <5>2, <4>3, <3>5
      <4>4. ASSUME NEW a \in Answers, Contains(answers', a) PROVE Has(a.id[1], a.id[2])'
        BY <4>2, <4>4, <1>2, LookupPair DEF IInv, Looking, Answers
      <4>. QED BY <4>1, <4>3, <4>4 DEF Looking
    <3>13. Allowing'
      <4>1. ASSUME NEW a \in Answers, Contains(answers', a), a.id \in pending'
            PROVE  Contains(answers, a) /\ a.id \in pending
        <5>1. Contains(answers, a) /\ Has(a.id[1], a.id[2])
          BY <4>1, <1>2 DEF IInv, Looking
        <5>2. a.id # <<c, 2>>
          BY <5>1, <3>11
        <5>. QED BY <5>1, <5>2, <4>1, <3>2
      <4>2. \A b \in Copies : handler'[b] \in Permits => handler[b] \in Permits
        BY <3>4 DEF Permits
      <4>3. \A b \in Copies : handler'[b] \in Handling => handler[b] \in Handling
        BY <3>4, <3>11 DEF Handling
      <4>. QED BY <4>1, <4>2, <4>3, <1>1, AllowingKept DEF IInv
    <3>. QED BY <1>1, <3>1, <3>4, <3>6, <3>7, <3>10, <3>12, <3>13, Frames DEF IInv, Typed
  <2>. QED BY <2>2, <2>4, <2>5
<1>. QED BY <1>6, <1>8, <1>9, <1>10

-----------------------------------------------------------------------------
(* The workers, the user and time. *)

LEMMA ReadInv == ASSUME IInv, Read PROVE IInv'
<1>. DEFINE e == [id |-> Head(asked), device |-> device]
<1>1. /\ asked # <<>> /\ asked' = Tail(asked) /\ answers' = Append(answers, e)
      /\ UNCHANGED <<row, call, age, ahead, handler, pending>>
      /\ UNCHANGED <<usedNonces, accepted, unsure, device, stored, allowed>>
  BY DEF Read, PhoneWaits, phoneVars, nonceVars
<1>2. /\ Tail(asked) \in Seq(Lookups) /\ Head(asked) \in Lookups /\ Contains(asked, Head(asked))
      /\ \A k : Contains(Tail(asked), k) => Contains(asked, k)
  BY <1>1, ContainsTail DEF IInv, Typed, LookupTyped
<1>3. e \in Answers /\ e.id = Head(asked) /\ e.device = device
  BY <1>2 DEF IInv, Typed, DeviceTyped, Answers
<1>. HIDE DEF e
<1>4. /\ answers' \in Seq(Answers)
      /\ \A a : Contains(answers', a) <=> Contains(answers, a) \/ a = e
  BY <1>1, <1>3, ContainsAppend DEF IInv, Typed, LookupTyped
<1>5. LookupTyped'
  BY <1>1, <1>2, <1>4 DEF IInv, Typed, LookupTyped
<1>6. Has(e.id[1], e.id[2])
  BY <1>2, <1>3 DEF IInv, Looking
<1>7. Looking'
  BY <1>1, <1>2, <1>4, <1>6 DEF IInv, Looking, Turn, Has
<1>8. e.device = "allowed" /\ e.id \in pending => e.id[1] \in allowed
  <2>1. SUFFICES ASSUME device = "allowed", e.id \in pending PROVE e.id[1] \in allowed
    BY <1>3
  <2>2. Turn(e.id[1], e.id[2])
    BY <2>1 DEF IInv, Looking
  <2>3. e.id[1] \in Copies /\ handler[e.id[1]] \in Handling
    BY <2>2, <1>2, <1>3, LookupPair DEF Turn, Handling
  <2>. QED BY <2>1, <2>3 DEF IInv, Allowing
<1>9. Allowing'
  BY <1>1, <1>4, <1>8 DEF IInv, Allowing
<1>. QED BY <1>1, <1>5, <1>7, <1>9, Frames DEF IInv, Typed

\* The steps of workers and of the Agent with no lookup: each handler stays where it
\* is, is refused, or goes on where it has been allowed to.
LEMMA HandlersMove ==
  ASSUME IInv, HandlerTyped', LookupTyped', DeviceTyped', Stored',
         UNCHANGED <<row, call, age, ahead, usedNonces, accepted, unsure, device, allowed>>,
         pending' \subseteq pending,
         \A k : Contains(asked', k) => Contains(asked, k),
         \A a : Contains(answers', a) => Contains(answers, a),
         \A c \in Copies : \/ handler'[c] = handler[c]
                           \/ handler'[c] = "refused" /\ handler[c] # "none"
                           \/ handler[c] = "appending" /\ handler'[c] = "appended"
                           \/ handler[c] = "appended" /\ handler'[c] = "answered",
         \A id \in pending' : handler'[id[1]] = handler[id[1]]
  PROVE  IInv'
<1>1. \A c \in Copies : handler[c] = "none" => handler'[c] = "none"
  OBVIOUS
<1>2. Arrived'
  BY <1>1, Pairs, ArrivedKept DEF IInv
<1>3. \A b \in Copies, t \in {1, 2} : Has(b, t) => Has(b, t)'
  BY DEF Has
<1>4. Looking'
  <2>1. \A id \in pending' : Turn(id[1], id[2])'
    BY DEF IInv, Looking, Turn
  <2>2. \A k \in Lookups : Contains(asked', k) => Has(k[1], k[2])'
    BY <1>3, LookupPair DEF IInv, Looking
  <2>3. ASSUME NEW a \in Answers, Contains(answers', a) PROVE Has(a.id[1], a.id[2])'
    BY <2>3, <1>3, LookupPair DEF IInv, Looking, Answers
  <2>. QED BY <2>1, <2>2, <2>3 DEF Looking
<1>5. Allowing'
  <2>1. \A c \in Copies : handler'[c] \in Permits => handler[c] \in Permits
    BY DEF Permits
  <2>2. \A c \in Copies : handler'[c] \in Handling => handler[c] \in Handling
    BY DEF Handling
  <2>. QED BY <2>1, <2>2, AllowingKept DEF IInv
<1>. QED BY <1>2, <1>4, <1>5, Frames DEF IInv, Typed

LEMMA ReplyInv == ASSUME IInv, NEW c \in Copies, Reply(c) PROVE IInv'
<1>1. /\ handler[c] = "appended" /\ Step(c, "answered")
      /\ UNCHANGED <<row, call, age, ahead, pending, asked, answers>>
      /\ UNCHANGED <<usedNonces, accepted, unsure, device, stored, allowed>>
  BY DEF Reply, PhoneWaits, phoneVars, accessVars, nonceVars
<1>2. /\ HandlerTyped' /\ handler'[c] = "answered"
      /\ \A b \in Copies : b # c => handler'[b] = handler[b]
  BY <1>1, Stepped DEF IInv, Typed, Handlers
<1>3. Stored'
  BY <1>1, <1>2 DEF IInv, Stored
<1>4. \A id \in pending : id[1] # c
  BY <1>1 DEF IInv, Looking, Turn
<1>5. \A id \in pending : id[1] \in Copies
  BY LookupPair DEF IInv, Typed, LookupTyped
<1>. QED BY <1>1, <1>2, <1>3, <1>4, <1>5, HandlersMove, Frames DEF IInv, Typed

LEMMA AppendInv == ASSUME IInv, NEW c \in Copies, AppendMessage(c) PROVE IInv'
<1>1. /\ handler[c] = "appending" /\ Step(c, "appended")
      /\ stored' = IF Contains(stored, c[1]) THEN stored ELSE Append(stored, c[1])
      /\ UNCHANGED <<row, call, age, ahead, pending, asked, answers>>
      /\ UNCHANGED <<usedNonces, accepted, unsure, device, allowed>>
  BY DEF AppendMessage, PhoneWaits, phoneVars, accessVars, nonceVars
<1>2. /\ HandlerTyped' /\ handler'[c] = "appended"
      /\ \A b \in Copies : b # c => handler'[b] = handler[b]
  BY <1>1, Stepped DEF IInv, Typed, Handlers, Handling
<1>3. stored' \in Seq(Messages) /\ (\A m : Contains(stored, m) => Contains(stored', m)) /\ Contains(stored', c[1])
  BY <1>1, CopyPair, ContainsAppend DEF IInv, Typed, DeviceTyped
<1>4. DeviceTyped'
  BY <1>1, <1>3 DEF IInv, Typed, DeviceTyped
<1>5. Stored'
  BY <1>1, <1>2, <1>3 DEF IInv, Stored
<1>6. \A id \in pending : id[1] # c
  BY <1>1 DEF IInv, Looking, Turn
<1>7. \A id \in pending : id[1] \in Copies
  BY LookupPair DEF IInv, Typed, LookupTyped
<1>. QED BY <1>1, <1>2, <1>4, <1>5, <1>6, <1>7, HandlersMove, Frames DEF IInv, Typed

LEMMA AccessFailsInv == ASSUME IInv, AccessFails PROVE IInv'
<1>1. /\ pending' = {} /\ asked' = <<>> /\ answers' = <<>>
      /\ handler' = [c \in Copies |-> IF \E id \in pending : id[1] = c THEN "refused" ELSE handler[c]]
      /\ UNCHANGED <<row, call, age, ahead, usedNonces, accepted, unsure, device, stored, allowed>>
  BY DEF AccessFails, PhoneWaits, phoneVars, nonceVars
<1>2. \A id \in pending : handler[id[1]] \in {"authenticating", "permitting"}
  BY DEF IInv, Looking, Turn
<1>3. \A c \in Copies : handler'[c] = handler[c] \/ (handler'[c] = "refused" /\ handler[c] # "none")
  BY <1>1, <1>2
<1>4. HandlerTyped'
  BY <1>1 DEF IInv, Typed, HandlerTyped, Handlers
<1>5. LookupTyped'
  BY <1>1 DEF LookupTyped
<1>6. Stored'
  BY <1>1, <1>3, StoredKept DEF IInv
<1>. QED BY <1>1, <1>3, <1>4, <1>5, <1>6, ContainsEmpty, HandlersMove, Frames DEF IInv, Typed

LEMMA StoreFailsInv == ASSUME IInv, StoreFails PROVE IInv'
<1>1. /\ handler' = [c \in Copies |-> IF handler[c] \in {"appending", "appended"} THEN "refused" ELSE handler[c]]
      /\ UNCHANGED <<row, call, age, ahead, pending, asked, answers>>
      /\ UNCHANGED <<usedNonces, accepted, unsure, device, stored, allowed>>
  BY DEF StoreFails, PhoneWaits, phoneVars, accessVars, nonceVars
<1>2. \A c \in Copies : handler'[c] = handler[c] \/ (handler'[c] = "refused" /\ handler[c] # "none")
  BY <1>1
<1>3. HandlerTyped'
  BY <1>1 DEF IInv, Typed, HandlerTyped, Handlers
<1>4. Stored'
  BY <1>1, <1>2, StoredKept DEF IInv
<1>5. \A id \in pending : handler'[id[1]] = handler[id[1]]
  <2>1. ASSUME NEW id \in pending PROVE handler'[id[1]] = handler[id[1]]
    <3>1. id \in Lookups /\ Turn(id[1], id[2])
      BY DEF IInv, Typed, LookupTyped, Looking
    <3>. QED BY <3>1, <1>1, LookupPair DEF Turn
  <2>. QED BY <2>1
<1>. QED BY <1>1, <1>2, <1>3, <1>4, <1>5, HandlersMove, Frames DEF IInv, Typed

LEMMA DeviceChangesInv == ASSUME IInv, DeviceChanges PROVE IInv'
<1>1. /\ device' \in Devices
      /\ allowed' = IF device' = "allowed" THEN allowed \cup {c \in Copies : handler[c] \in Handling}
                                           ELSE allowed
      /\ UNCHANGED <<row, call, age, ahead, handler, pending, asked, answers>>
      /\ UNCHANGED <<usedNonces, accepted, unsure, stored>>
  BY DEF DeviceChanges, Devices, PhoneWaits, phoneVars, accessVars, nonceVars
<1>2. DeviceTyped'
  BY <1>1 DEF IInv, Typed, DeviceTyped
<1>3. Allowing'
  BY <1>1 DEF IInv, Allowing
<1>. QED BY <1>1, <1>2, <1>3, Frames DEF IInv, Typed

LEMMA RestartsInv == ASSUME IInv, AgentRestarts PROVE IInv'
<1>1. /\ pending' = {} /\ asked' = <<>> /\ answers' = <<>>
      /\ handler' = [c \in Copies |-> IF handler[c] \in Handling THEN "refused" ELSE handler[c]]
      /\ usedNonces' = {} /\ accepted' = [m \in Messages |-> 0] /\ unsure' = {}
      /\ UNCHANGED <<row, call, age, ahead, device, stored, allowed>>
  BY DEF AgentRestarts, PhoneWaits, phoneVars
<1>2. \A c \in Copies : \/ handler'[c] = handler[c]
                        \/ handler'[c] = "refused" /\ handler[c] # "none"
  BY <1>1 DEF Handling
<1>3. CallTyped' /\ HandlerTyped' /\ LookupTyped' /\ DeviceTyped'
  BY <1>1, Frames DEF IInv, Typed, HandlerTyped, Handlers, LookupTyped
<1>4. TimeTyped' /\ Once'
  BY <1>1 DEF IInv, Typed, TimeTyped, Once
<1>5. Stored'
  BY <1>1, <1>2, StoredKept DEF IInv
<1>6. Arrived'
  BY <1>1, <1>2, Pairs, ArrivedKept DEF IInv
<1>7. Looking'
  BY <1>1, ContainsEmpty DEF Looking
<1>8. Allowing'
  BY <1>1, <1>2, ContainsEmpty, AllowingKept DEF IInv, Permits, Handling
<1>. QED BY <1>3, <1>4, <1>5, <1>6, <1>7, <1>8 DEF IInv, Typed

\* The ages change.
LEMMA AgesInv ==
  ASSUME IInv, NEW d \in Int, Ages(d), ahead' \in Int, unsure' \subseteq Messages, Once'
  PROVE  IInv'
<1>1. /\ age' = [m \in Messages |-> IF Posted(m) THEN age[m] + d ELSE age[m]]
      /\ UNCHANGED <<row, call, handler, pending, asked, answers>>
      /\ UNCHANGED <<usedNonces, accepted, device, stored, allowed>>
  BY DEF Ages, ClocksMove, accessVars
<1>2. TimeTyped'
  BY <1>1 DEF IInv, Typed, TimeTyped
<1>3. Arrived'
  <2>1. ASSUME NEW m \in Messages, age[m] = MaxAge + 1 PROVE age'[m] = age[m]
    BY <1>1, <2>1, TextAssumption DEF TextAssumption, Posted
  <2>. QED BY <1>1, <2>1 DEF IInv, Arrived
<1>. QED BY <1>1, <1>2, <1>3, Frames DEF IInv, Typed

LEMMA TickInv == ASSUME IInv, Tick PROVE IInv'
<1>1. /\ age' = [m \in Messages |-> IF Posted(m) THEN age[m] + 1 ELSE age[m]]
      /\ UNCHANGED <<ahead, usedNonces, accepted, unsure>>
  BY DEF Tick, Ages, ClocksMove
<1>2. ASSUME NEW m \in Messages PROVE age[m] > Skew => age'[m] > Skew
  BY <1>1, TextAssumption DEF TextAssumption, IInv, Typed, TimeTyped
<1>3. Once'
  BY <1>1, <1>2 DEF IInv, Once, Held
<1>4. ahead' \in Int /\ unsure' \subseteq Messages
  BY <1>1 DEF IInv, Typed, TimeTyped
<1>. QED BY <1>3, <1>4, AgesInv DEF Tick

\* Of the POSTs accepted before the clock is set back nothing is said.
LEMMA ClockSetInv == ASSUME IInv, NEW d \in -MaxStep..MaxStep, ClockSet(d) PROVE IInv'
<1>1. /\ age' = [m \in Messages |-> IF Posted(m) THEN age[m] + d ELSE age[m]]
      /\ UNCHANGED <<usedNonces, accepted>> /\ ahead' = ahead - d
      /\ unsure' = IF d > 0 THEN unsure ELSE unsure \cup {m \in Messages : accepted[m] > 0}
  BY DEF ClockSet, Ages, ClocksMove
<1>2. d \in Int
  BY TextAssumption DEF TextAssumption
<1>3. ahead' \in Int /\ unsure' \subseteq Messages
  BY <1>1, <1>2 DEF IInv, Typed, TimeTyped
<1>4. Once'
  <2>1. CASE d > 0
    <3>1. ASSUME NEW m \in Messages PROVE age[m] > Skew => age'[m] > Skew
      BY <1>1, <1>2, <2>1, TextAssumption DEF TextAssumption, IInv, Typed, TimeTyped
    <3>. QED BY <1>1, <2>1, <3>1 DEF IInv, Once, Held
  <2>2. CASE ~(d > 0)
    <3>1. ASSUME NEW m \in Messages \ unsure' PROVE accepted[m] = 0
      BY <1>1, <2>2 DEF IInv, Typed, TimeTyped
    <3>. QED BY <1>1, <3>1 DEF Once
  <2>. QED BY <2>1, <2>2
<1>. QED BY <1>2, <1>3, <1>4, AgesInv DEF ClockSet

-----------------------------------------------------------------------------
(* The theorems. *)

LEMMA InitInv == Init => IInv
<1>. SUFFICES ASSUME Init PROVE IInv
  OBVIOUS
<1>1. Typed
  <2>1. MaxAge + 1 \in Int /\ Offset \in Int
    BY TextAssumption DEF TextAssumption
  <2>. QED BY <2>1 DEF Init, Typed, CallTyped, TimeTyped, HandlerTyped, LookupTyped, DeviceTyped,
                  Calls, Handlers, Devices
<1>2. Stored /\ Once /\ Arrived
  BY Pairs DEF Init, Stored, Once, Arrived
<1>3. Looking /\ Allowing
  BY ContainsEmpty DEF Init, Looking, Allowing, Permits, Handling
<1>. QED BY <1>1, <1>2, <1>3 DEF IInv

LEMMA NextInv == IInv /\ [Next]_vars => IInv'
<1>. SUFFICES ASSUME IInv, [Next]_vars PROVE IInv'
  OBVIOUS
<1>1. CASE \E m \in Messages : Send(m) \/ PhoneActs(m) \/ PhoneFails(m) \/ DeleteMessage(m)
  BY <1>1, SendInv, PostInv, CallInv DEF PhoneActs
<1>2. CASE \E m \in Messages, n \in {1, 2} : Arrive(m, n)
  BY <1>2, ArriveInv
<1>3. CASE \E id \in Copies \X {1, 2} : TimesOut(id)
  BY <1>3, TimesOutInv DEF Lookups
<1>4. CASE AgentActs
  BY <1>4, AnsweredInv, ReadInv, AppendInv, ReplyInv DEF AgentActs
<1>5. CASE Killed \/ AccessFails \/ StoreFails \/ AgentRestarts \/ DeviceChanges \/ Tick
           \/ \E d \in -MaxStep..MaxStep : ClockSet(d)
  BY <1>5, KilledInv, AccessFailsInv, StoreFailsInv, RestartsInv, DeviceChangesInv, TickInv,
     ClockSetInv
<1>6. CASE UNCHANGED vars
  BY <1>6, Frames DEF vars, phoneVars, agentVars, accessVars, nonceVars, IInv, Typed
<1>. QED BY <1>1, <1>2, <1>3, <1>4, <1>5, <1>6 DEF Next

(* The inductive invariant holds throughout: of the phone's calls, the handlers,   *)
(* the lookups on their way, the nonces and the messages stored.                   *)
THEOREM TextInvariant == Spec => []IInv
BY InitInv, NextInv, PTL DEF Spec

(* What the phone shows as sent is in the Agent's table, for any number of         *)
(* messages, repetitions and failures of either worker (handleSendText and append).*)
THEOREM SentSafe == Spec => []SentIsStored
<1>1. IInv => SentIsStored
  BY DEF IInv, Stored, SentIsStored
<1>. QED BY <1>1, TextInvariant, PTL

(* A signed request is accepted once by one process of the Agent, whatever the     *)
(* clock skew, the offset of the phone's clock and the size of the window of       *)
(* nonces; of a request from exactly Skew in the future, or accepted before the    *)
(* clock was set back, nothing is said (authenticate).                             *)
THEOREM OnceSafe == Spec => []AcceptedOnce
<1>1. IInv => AcceptedOnce
  BY DEF IInv, Once, AcceptedOnce
<1>. QED BY <1>1, TextInvariant, PTL

(* A message is handed to its worker only for a phone that was allowed to send     *)
(* while the request was handled (assertDeviceMaySend and its lookups).            *)
THEOREM AllowedSafe == Spec => []StoredWasAllowed
<1>1. IInv => StoredWasAllowed
  BY DEF IInv, Allowing, Permits, StoredWasAllowed
<1>. QED BY <1>1, TextInvariant, PTL
=============================================================================

----------------------------- MODULE DevicePairing -----------------------------
(***************************************************************************)
(* Pairing in both directions between one Agent and one phone.  Either     *)
(* side shows a six-digit code; the other opens a WebSocket, says hello,   *)
(* submits the code with a request id of its own, and waits while a person *)
(* accepts or rejects.  Accepting issues a transfer secret, which the      *)
(* accepting side keeps for the device and sends in pairing.resolved.      *)
(*                                                                         *)
(* The phone's client reconnects and asks for the status of its request;   *)
(* the Agent's does not.  Expiry is a comparison with the clock in every   *)
(* operation of a service, and at the Agent a timer too.  A record counts  *)
(* down the time it has left, so that nothing bounds how long a run is; a  *)
(* timer may fire late.  A secret is named by the request it was issued    *)
(* for.  Hello and the message behind it are one message here, and answers *)
(* that a client ignores (peer.ready, pairing.pending) are left out.       *)
(***************************************************************************)
EXTENDS Integers, FiniteSets, SequencesExt

CONSTANTS
  Codes,       \* codes a session may have; one that no session has is a wrong code
  SessionTtl,  \* PAIRING_SESSION_TTL_MS, in ticks of the clock
  ApprovalTtl, \* PAIRING_APPROVAL_TTL_MS, PAIRING_REQUEST_TTL_MS
  OutcomeTtl,  \* PAIRING_OUTCOME_TTL_MS
  ClientWait,  \* PAIRING_WAIT_TIMEOUT_MS
  MaxAsks,     \* bound: pairing requests, of either side
  MaxSockets,  \* bound: connections
  MaxTroubles  \* bound: lost connections, failed writes, restarts, and changes of
               \* trust that are no pairing: a switched permission, a removed device

ASSUME PairingAssumption ==
  /\ {SessionTtl, ApprovalTtl, OutcomeTtl, ClientWait} \subseteq Nat \ {0}
  /\ ApprovalTtl < ClientWait
  /\ {MaxAsks, MaxSockets, MaxTroubles} \subseteq Nat

VARIABLES
  agent,    \* the Agent's row for the phone and the secret it holds
  phone,    \* the phone's row for the Agent, and its secret
  srv,      \* PairingService of the Agent
  mob,      \* MobilePairingService of the phone, its dialog, its decision being saved
  call,     \* verifyPairingCode and handleConfirmConnection on the phone
  init,     \* initiateMobilePairing on the Agent
  net,      \* the connections
  asked,    \* requests so far; the number of the last one
  given,    \* history: requests that were accepted, and their secret kept
  taken,    \* history: requests whose secret the side that asked has kept
  spoiled,  \* history: the last request was disturbed by another change of trust
  late,     \* history: what the Agent last read of the phone's request came from a
            \* connection the phone had left
  troubles  \* how much of the bound is used up

vars == <<agent, phone, srv, mob, call, init, net, asked, given, taken, spoiled, late, troubles>>
history == <<given, taken, spoiled, late>>

-----------------------------------------------------------------------------
(* Trust, as each side stores it: a row that allows receiving or not, a secret. *)
Rows == {"none", "off", "on"}
Distrust == [row |-> "none", secret |-> 0]

\* receiveEnabled: existing?.receiveEnabled ?? true
Kept(row) == IF row = "none" THEN "on" ELSE row

Sockets == 1..MaxSockets
NewSocket == [to |-> "none", client |-> "new", server |-> "none", up |-> <<>>, down |-> <<>>]

\* A message of the server reaches a client that still listens to that connection.
Sent(n, c, m) ==
  IF n[c].server = "open" /\ n[c].client = "open" THEN [n EXCEPT ![c].down = Append(@, m)] ELSE n

Resolved(id, status, secret) == [type |-> "resolved", id |-> id, status |-> status, secret |-> secret]
Error(code) == [type |-> "error", code |-> code]

\* Several requests expire at once.  A connection carries one message, so that no two
\* of them are bound to the same.
Told(n, P) ==
  [c \in Sockets |->
     LET mine == {p \in P : p.conn = c}
     IN IF mine = {} THEN n[c]
        ELSE Sent(n, c, Resolved((CHOOSE p \in mine : TRUE).id, "expired", 0))[c]]

\* The client closes its end: what it has sent still arrives.
Hung(n, c) == IF c = 0 THEN n ELSE [n EXCEPT ![c].client = "closed", ![c].down = <<>>]

\* The sheet is where a code is typed; known is the row as the press saw it.
NoCall == [pc |-> "idle", id |-> 0, left |-> 0, code |-> "none", conn |-> 0,
           submitted |-> FALSE, known |-> "none", sheet |-> FALSE]
NoInit == [pc |-> "idle", id |-> 0, left |-> 0, code |-> "none", conn |-> 0]
NoServer == [sessions |-> {}, pending |-> {}, outcomes |-> {}]
NoMobile == [sessions |-> {}, pending |-> <<>>, prompt |-> 0, saving |-> {}]

Trouble == troubles < MaxTroubles /\ troubles' = troubles + 1

\* new WebSocket: a connection still being set up.
Fresh == {c \in Sockets : net[c] = NewSocket}
Dial == CHOOSE c \in Fresh : TRUE
Dialled(n, to) == [n EXCEPT ![Dial] = [@ EXCEPT !.to = to, !.client = "opening"]]

-----------------------------------------------------------------------------
(* PairingService.  An operation works on w = [s |-> srv, n |-> net].          *)

\* completePairingRequest; sendPairingResolution tells the connection of the request.
Completed(w, p, status, secret) ==
  [s |-> [w.s EXCEPT !.pending = @ \ {p},
                     !.outcomes = @ \cup {[id |-> p.id, status |-> status, left |-> OutcomeTtl]}],
   n |-> Sent(w.n, p.conn, Resolved(p.id, status, secret))]

\* removeExpiredRecords
Swept(w) ==
  LET expired == {p \in w.s.pending : p.left = 0}
  IN [s |-> [sessions |-> {s \in w.s.sessions : s.left > 0},
             pending  |-> w.s.pending \ expired,
             outcomes |-> {o \in w.s.outcomes : o.left > 0} \cup
                            {[id |-> p.id, status |-> "expired", left |-> OutcomeTtl] : p \in expired}],
      n |-> Told(w.n, expired)]

\* requestPairingApproval, and the answer of handleMessage.  isPairingRequest only
\* repeats what the hello of the connection has been checked for.
Requested(w, c, m) ==
  LET matching == {s \in w.s.sessions : s.code = m.code}
  IN IF \E p \in w.s.pending : p.id = m.id THEN w
     ELSE IF matching = {} THEN [w EXCEPT !.n = Sent(@, c, Error("INVALID_PAIRING_CODE"))]
     ELSE [w EXCEPT !.s.sessions = @ \ matching,
                    !.s.pending = @ \cup {[id |-> m.id, conn |-> c, left |-> ApprovalTtl]}]

\* mutant: a reconnected client is not bound to its request
StatusUnbound(w, c, id) ==
  LET decided == {o \in w.s.outcomes : o.id = id}
  IN IF \E p \in w.s.pending : p.id = id THEN w
     ELSE IF decided # {}
       THEN [w EXCEPT !.n = Sent(@, c, Resolved(id, (CHOOSE o \in decided : TRUE).status, 0))]
     ELSE [w EXCEPT !.n = Sent(@, c, Error("PAIRING_REQUEST_NOT_FOUND"))]

\* pairing.status: a pending request is bound to the connection that asks, a decided
\* one is answered without its secret.
Status(w, c, id) ==
  LET decided == {o \in w.s.outcomes : o.id = id}
  IN IF \E p \in w.s.pending : p.id = id
       THEN [w EXCEPT !.s.pending = {IF p.id = id THEN [p EXCEPT !.conn = c] ELSE p : p \in @}]
     ELSE IF decided # {}
       THEN [w EXCEPT !.n = Sent(@, c, Resolved(id, (CHOOSE o \in decided : TRUE).status, 0))]
     ELSE [w EXCEPT !.n = Sent(@, c, Error("PAIRING_REQUEST_NOT_FOUND"))]

World == [s |-> srv, n |-> net]
Becomes(w) == srv' = w.s /\ net' = w.n

\* POST /api/pairing/sessions: createSession, with a code no session has.
AgentShowsCode ==
  LET w == Swept(World)
  IN \E code \in Codes \ {s.code : s \in w.s.sessions} :
       /\ Becomes([w EXCEPT !.s.sessions = @ \cup {[code |-> code, left |-> SessionTtl]}])
       /\ UNCHANGED <<agent, phone, mob, call, init, asked, history, troubles>>

\* peer.hello, then pairing.request or pairing.status.
AgentReceives(c) ==
  /\ net[c].to = "agent" /\ net[c].server = "open" /\ net[c].up # <<>>
  /\ LET m == Head(net[c].up)
         w == Swept([World EXCEPT !.n[c].up = Tail(@)])
     IN /\ Becomes(IF m.type = "request" THEN Requested(w, c, m) ELSE Status(w, c, m.id))
        /\ late' = IF m.id = call.id THEN c # call.conn ELSE late
  /\ UNCHANGED <<agent, phone, mob, call, init, asked, given, taken, spoiled, troubles>>

\* GET /api/pairing/requests, or the status of one.
AgentLists ==
  /\ World # Swept(World)
  /\ Becomes(Swept(World))
  /\ UNCHANGED <<agent, phone, mob, call, init, asked, history, troubles>>

\* approvePairingRequest: the row, the secret, and the resolution with the secret.
Approved(p) ==
  LET w == Swept(World)
  IN IF p \notin w.s.pending
       THEN /\ Becomes(w)
            /\ UNCHANGED <<agent, given>>
       ELSE /\ agent' = [row |-> Kept(agent.row), secret |-> p.id]
            /\ given' = given \cup {p.id}
            /\ Becomes(Completed(w, p, "approved", p.id))

AgentApproves(p) ==
  /\ Approved(p)
  /\ UNCHANGED <<phone, mob, call, init, asked, taken, spoiled, late, troubles>>

\* The write of the secret fails after that of the row, and the request stays.
AgentApprovesHalf(p) ==
  /\ Trouble
  /\ p.left > 0
  /\ agent' = [agent EXCEPT !.row = Kept(@)]
  /\ spoiled' = TRUE
  /\ Becomes(Swept(World))
  /\ UNCHANGED <<phone, mob, call, init, asked, given, taken, late>>

\* rejectPairingRequest
AgentRejects(p) ==
  /\ LET w == Swept(World)
     IN Becomes(IF p \in w.s.pending THEN Completed(w, p, "rejected", 0) ELSE w)
  /\ UNCHANGED <<agent, phone, mob, call, init, asked, history, troubles>>

\* The timer of requestPairingApproval.
ApprovalExpires(p) ==
  /\ p.left = 0
  /\ Becomes(Completed(World, p, "expired", 0))
  /\ UNCHANGED <<agent, phone, mob, call, init, asked, history, troubles>>

-----------------------------------------------------------------------------
(* The phone's client. *)

\* handleDevicePress, for an Agent that is not trusted
OpenSheet ==
  /\ phone.row = "none" /\ ~call.sheet
  /\ call' = [call EXCEPT !.sheet = TRUE]
  /\ UNCHANGED <<agent, phone, srv, mob, init, net, asked, history, troubles>>

\* Another change of trust is under way when a request starts.
Disturbed ==
  \/ call.pc # "idle" \/ init.pc # "idle" \/ mob.saving # {} \/ mob.pending # <<>> \/ srv.pending # {}
  \/ \E c \in Sockets : net[c].server = "open" /\ net[c].up # <<>>

\* submitPairingCode, handleConfirmConnection, verifyPairingCode; one at a time.
PhonePresses(code) ==
  /\ call.pc = "idle" /\ call.sheet
  /\ asked < MaxAsks /\ Fresh # {}
  /\ asked' = asked + 1
  /\ call' = [call EXCEPT !.pc = "waits", !.id = asked + 1, !.left = ClientWait, !.code = code,
                          !.conn = Dial, !.submitted = FALSE, !.known = phone.row]
  /\ net' = Dialled(net, "agent")
  /\ spoiled' = Disturbed
  /\ UNCHANGED <<agent, phone, srv, mob, init, given, taken, late, troubles>>

\* onopen: hello, and the request or, when it was submitted before, its status.
CallOpens ==
  /\ call.pc = "waits" /\ net[call.conn].client = "opening"
  /\ net' = [net EXCEPT ![call.conn] =
       [@ EXCEPT !.client = "open", !.server = "open",
          !.up = <<IF call.submitted THEN [type |-> "status", id |-> call.id]
                   ELSE [type |-> "request", id |-> call.id, code |-> call.code]>>]]
  /\ call' = [call EXCEPT !.submitted = TRUE]
  /\ UNCHANGED <<agent, phone, srv, mob, init, asked, history, troubles>>

\* scheduleReconnect and connect, after onclose or onerror
CallReconnects ==
  /\ call.pc = "waits" /\ net[call.conn].client = "closed"
  /\ Fresh # {}
  /\ call' = [call EXCEPT !.conn = Dial]
  /\ net' = Dialled(net, "agent")
  /\ UNCHANGED <<agent, phone, srv, mob, init, asked, history, troubles>>

\* finish, with an error: the sheet shows it and stays.
CallFails(n) ==
  /\ call' = [NoCall EXCEPT !.sheet = TRUE]
  /\ net' = Hung(n, call.conn)

\* onmessage; approved without a secret is taken for expired.
CallReceives ==
  /\ call.pc = "waits" /\ net[call.conn].client = "open" /\ net[call.conn].down # <<>>
  /\ LET m == Head(net[call.conn].down)
     IN IF m.type = "resolved" /\ m.status = "approved" /\ m.secret # 0
          THEN /\ call' = [call EXCEPT !.pc = "saves"]
               /\ net' = Hung(net, call.conn)
          ELSE CallFails(net)
  /\ UNCHANGED <<agent, phone, srv, mob, init, asked, history, troubles>>

\* mutant: the wait starts when the request has been submitted
CallTimesOutSubmitted ==
  /\ call.pc = "waits" /\ call.left = 0 /\ call.submitted
  /\ CallFails(net)
  /\ UNCHANGED <<agent, phone, srv, mob, init, asked, history, troubles>>

\* The timeout of verifyPairingCode, from its start.
CallTimesOut ==
  /\ call.pc = "waits" /\ call.left = 0
  /\ CallFails(net)
  /\ UNCHANGED <<agent, phone, srv, mob, init, asked, history, troubles>>

\* setTransferSecret ends, and saveTrustedDevice stores the row as the press knew it.
CallSaves ==
  /\ call.pc = "saves"
  /\ phone' = [row |-> Kept(call.known), secret |-> call.id]
  /\ taken' = taken \cup {call.id}
  /\ call' = NoCall
  /\ UNCHANGED <<agent, srv, mob, init, net, asked, given, spoiled, late, troubles>>

CallSaveFails ==
  /\ call.pc = "saves"
  /\ Trouble
  /\ CallFails(net)
  /\ UNCHANGED <<agent, phone, srv, mob, init, asked, history>>

-----------------------------------------------------------------------------
(* MobilePairingService and the dialog of the phone.                           *)

\* removeExpiredRecords of the phone, on w = [m |-> mob, n |-> net]: no timer runs it.
\* What came first expires first.
PhoneSwept(w) ==
  LET expired == {p \in ToSet(w.m.pending) : p.left = 0}
  IN [m |-> [w.m EXCEPT !.pending = SubSeq(@, Cardinality(expired) + 1, Len(@)),
                        !.sessions = {s \in @ : s.left > 0}],
      n |-> Told(w.n, expired)]

PhoneWorld == [m |-> mob, n |-> net]
PhoneBecomes(w) == mob' = w.m /\ net' = w.n

\* setIncomingPairingRequest(getPendingRequests()[0])
Prompted(w) == [w EXCEPT !.m.prompt = IF w.m.pending = <<>> THEN 0 ELSE Head(w.m.pending).id]

\* createSession: the new code replaces the one shown before.
PhoneShowsCode(code) ==
  /\ LET w == PhoneSwept(PhoneWorld)
     IN PhoneBecomes([w EXCEPT !.m.sessions = {[code |-> code, left |-> SessionTtl]}])
  /\ UNCHANGED <<agent, phone, srv, call, init, asked, history, troubles>>

\* activeSession
PhoneLooks ==
  /\ PhoneSwept(PhoneWorld) # PhoneWorld
  /\ PhoneBecomes(PhoneSwept(PhoneWorld))
  /\ UNCHANGED <<agent, phone, srv, call, init, asked, history, troubles>>

\* handleMessage and requestApproval; its listener shows the earliest request.
PhoneReceives(c) ==
  /\ net[c].to = "phone" /\ net[c].server = "open" /\ net[c].up # <<>>
  /\ LET m == Head(net[c].up)
         w == PhoneSwept([PhoneWorld EXCEPT !.n[c].up = Tail(@)])
         matching == {s \in w.m.sessions : s.code = m.code}
     IN IF matching = {}
          THEN PhoneBecomes([w EXCEPT !.n = Sent(@, c, Error("INVALID_PAIRING_CODE"))])
          ELSE PhoneBecomes(Prompted(
                 [w EXCEPT !.m.sessions = @ \ matching,
                           !.m.pending = Append(@, [id |-> m.id, conn |-> c, left |-> ApprovalTtl])]))
  /\ UNCHANGED <<agent, phone, srv, call, init, asked, history, troubles>>

\* handleIncomingPairingDecision and resolvePairingRequest: an accepted request is
\* answered at once, and its secret is saved after that.
PhoneDecides(status) ==
  /\ mob.prompt # 0
  /\ LET w == PhoneSwept(PhoneWorld)
         mine == {i \in DOMAIN w.m.pending : w.m.pending[i].id = mob.prompt}
     IN IF mine = {} THEN PhoneBecomes(Prompted(w))
        ELSE LET i == CHOOSE j \in mine : TRUE
                 p == w.m.pending[i]
                 v == [m |-> [w.m EXCEPT !.pending = RemoveAt(@, i)],
                       n |-> Sent(w.n, p.conn, Resolved(p.id, status, IF status = "approved" THEN p.id ELSE 0))]
             IN PhoneBecomes(IF status = "approved" THEN [v EXCEPT !.m.saving = @ \cup {p.id}]
                                                    ELSE Prompted(v))
  /\ UNCHANGED <<agent, phone, srv, call, init, asked, history, troubles>>

\* setTransferSecret ends; the row keeps what it says now.
PhoneSaves(id) ==
  /\ phone' = [row |-> Kept(phone.row), secret |-> id]
  /\ given' = given \cup {id}
  /\ PhoneBecomes(Prompted(PhoneSwept([PhoneWorld EXCEPT !.m.saving = @ \ {id}])))
  /\ UNCHANGED <<agent, srv, call, init, asked, taken, spoiled, late, troubles>>

\* The decision ends there, and the dialog keeps showing the request.
PhoneSaveFails(id) ==
  /\ Trouble
  /\ mob' = [mob EXCEPT !.saving = @ \ {id}]
  /\ spoiled' = TRUE
  /\ UNCHANGED <<agent, phone, srv, call, init, net, asked, given, taken, late>>

-----------------------------------------------------------------------------
(* The Agent's client. *)

\* POST /api/discovered-devices/:deviceId/pair; one at a time.
AgentPresses(code) ==
  /\ init.pc = "idle"
  /\ asked < MaxAsks /\ Fresh # {}
  /\ asked' = asked + 1
  /\ init' = [pc |-> "waits", id |-> asked + 1, left |-> ClientWait, code |-> code, conn |-> Dial]
  /\ net' = Dialled(net, "phone")
  /\ spoiled' = Disturbed
  /\ UNCHANGED <<agent, phone, srv, mob, call, given, taken, late, troubles>>

InitOpens ==
  /\ init.pc = "waits" /\ net[init.conn].client = "opening"
  /\ net' = [net EXCEPT ![init.conn] =
       [@ EXCEPT !.client = "open", !.server = "open",
                 !.up = <<[type |-> "request", id |-> init.id, code |-> init.code]>>]]
  /\ UNCHANGED <<agent, phone, srv, mob, call, init, asked, history, troubles>>

InitFails(n) ==
  /\ init' = NoInit
  /\ net' = Hung(n, init.conn)

\* mutant: the key of a device that is known is kept
InitStoresOnce == agent' = [row |-> Kept(agent.row), secret |-> IF agent.secret = 0 THEN init.id ELSE agent.secret]

\* setTransferSecret and upsert
InitStores == agent' = [row |-> Kept(agent.row), secret |-> init.id]

InitReceives ==
  /\ init.pc = "waits" /\ net[init.conn].client = "open" /\ net[init.conn].down # <<>>
  /\ LET m == Head(net[init.conn].down)
     IN IF m.type = "resolved" /\ m.status = "approved" /\ m.secret # 0
          THEN \/ /\ InitStores
                  /\ taken' = taken \cup {init.id}
                  /\ UNCHANGED <<spoiled, troubles>>
               \/ /\ Trouble      \* the write of the row fails
                  /\ agent' = [agent EXCEPT !.secret = init.id]
                  /\ spoiled' = TRUE
                  /\ UNCHANGED taken
          ELSE UNCHANGED <<agent, taken, spoiled, troubles>>
  /\ InitFails(net)
  /\ UNCHANGED <<phone, srv, mob, call, asked, given, late>>

InitTimesOut ==
  /\ init.pc = "waits" /\ init.left = 0
  /\ InitFails(net)
  /\ UNCHANGED <<agent, phone, srv, mob, call, asked, history, troubles>>

-----------------------------------------------------------------------------
(* Network, processes, people, time. *)

\* A connection cannot be set up, or is lost with what it carried: all of it, or the
\* answers only.  The Agent's client hears of an error, not of an orderly close.
Breaks(c) ==
  /\ net[c].client \in {"opening", "open"}
  /\ Trouble
  /\ \E up \in {<<>>, net[c].up} :
       net' = Hung([net EXCEPT ![c].up = up], c)
  /\ \/ /\ net[c].client = "open" \/ init.conn # c
        /\ UNCHANGED init
     \/ /\ init.conn = c
        /\ init' = NoInit
  /\ UNCHANGED <<agent, phone, srv, mob, call, asked, history>>

\* The process of one side ends: its ends of the connections close.
Stopped(who) ==
  [c \in Sockets |->
     IF net[c].to = who THEN [net[c] EXCEPT !.server = "closed", !.up = <<>>]
     ELSE IF net[c].client \in {"opening", "open"} THEN [net[c] EXCEPT !.client = "closed", !.down = <<>>]
     ELSE net[c]]

AgentRestarts ==
  /\ Trouble
  /\ srv' = NoServer /\ init' = NoInit
  /\ net' = Stopped("agent")
  /\ UNCHANGED <<agent, phone, mob, call, asked, history>>

PhoneRestarts ==
  /\ Trouble
  /\ mob' = NoMobile /\ call' = NoCall
  /\ net' = Stopped("phone")
  /\ UNCHANGED <<agent, phone, srv, init, asked, history>>

\* The client hears that the server has gone, after what it sent before.
ClientNotices(c) ==
  /\ net[c].client = "open" /\ net[c].server = "closed" /\ net[c].down = <<>>
  /\ net' = [net EXCEPT ![c].client = "closed"]
  /\ UNCHANGED <<agent, phone, srv, mob, call, init, asked, history, troubles>>

Switched(row) == IF row = "on" THEN "off" ELSE "on"

\* setReceiveEnabled, on either side
AgentSwitches ==
  /\ agent.row # "none"
  /\ Trouble
  /\ agent' = [agent EXCEPT !.row = Switched(@)]
  /\ UNCHANGED <<phone, srv, mob, call, init, net, asked, history>>

PhoneSwitches ==
  /\ phone.row # "none"
  /\ Trouble
  /\ phone' = [phone EXCEPT !.row = Switched(@)]
  /\ UNCHANGED <<agent, srv, mob, call, init, net, asked, history>>

AgentRemoves ==
  /\ agent.row # "none"
  /\ Trouble
  /\ agent' = Distrust
  /\ spoiled' = TRUE
  /\ UNCHANGED <<phone, srv, mob, call, init, net, asked, given, taken, late>>

\* The secret is deleted later, which may fail without more than a warning.
PhoneRemoves ==
  /\ phone.row # "none"
  /\ Trouble
  /\ \E secret \in {0, phone.secret} : phone' = [row |-> "none", secret |-> secret]
  /\ spoiled' = TRUE
  /\ UNCHANGED <<agent, srv, mob, call, init, net, asked, given, taken, late>>

Older(n) == IF n = 0 THEN 0 ELSE n - 1
OneOlder(x) == [x EXCEPT !.left = Older(@)]
Aged(S) == {OneOlder(x) : x \in S}

Tick ==
  /\ srv' = [sessions |-> Aged(srv.sessions), pending |-> Aged(srv.pending),
             outcomes |-> Aged(srv.outcomes)]
  /\ mob' = [mob EXCEPT !.sessions = Aged(@),
                        !.pending = [i \in DOMAIN mob.pending |-> OneOlder(mob.pending[i])]]
  /\ call' = [call EXCEPT !.left = Older(@)]
  /\ init' = [init EXCEPT !.left = Older(@)]
  /\ <<srv, mob, call, init>>' # <<srv, mob, call, init>>
  /\ UNCHANGED <<agent, phone, net, asked, history, troubles>>

-----------------------------------------------------------------------------
Init ==
  /\ agent = Distrust /\ phone = Distrust
  /\ srv = NoServer /\ mob = NoMobile
  /\ call = NoCall /\ init = NoInit
  /\ net = [c \in Sockets |-> NewSocket]
  /\ asked = 0
  /\ given = {} /\ taken = {} /\ spoiled = FALSE /\ late = FALSE
  /\ troubles = 0

AgentServes ==
  \/ AgentShowsCode \/ AgentLists
  \/ \E c \in Sockets : AgentReceives(c)
  \/ \E p \in srv.pending :
       AgentApproves(p) \/ AgentApprovesHalf(p) \/ AgentRejects(p) \/ ApprovalExpires(p)

PhoneCalls ==
  \/ OpenSheet \/ \E code \in Codes : PhonePresses(code)
  \/ CallOpens \/ CallReconnects \/ CallReceives \/ CallTimesOut \/ CallSaves \/ CallSaveFails

PhoneServes ==
  \/ \E code \in Codes : PhoneShowsCode(code)
  \/ PhoneLooks
  \/ \E c \in Sockets : PhoneReceives(c)
  \/ \E status \in {"approved", "rejected"} : PhoneDecides(status)
  \/ \E id \in mob.saving : PhoneSaves(id) \/ PhoneSaveFails(id)

AgentCalls ==
  \/ \E code \in Codes : AgentPresses(code)
  \/ InitOpens \/ InitReceives \/ InitTimesOut

Environment ==
  \/ \E c \in Sockets : Breaks(c) \/ ClientNotices(c)
  \/ AgentRestarts \/ PhoneRestarts
  \/ AgentSwitches \/ PhoneSwitches \/ AgentRemoves \/ PhoneRemoves
  \/ Tick

Next == AgentServes \/ PhoneCalls \/ PhoneServes \/ AgentCalls \/ Environment

Spec == Init /\ [][Next]_vars

\* Time passes, timers fire, messages that have arrived are read, and the secure
\* store of the phone answers.
FairSpec ==
  /\ Spec
  /\ WF_vars(Tick)
  /\ WF_vars(CallReceives \/ CallTimesOut) /\ WF_vars(CallSaves \/ CallSaveFails)
  /\ WF_vars(InitReceives \/ InitTimesOut)

-----------------------------------------------------------------------------
(* A phone that still waits, and whose connection the Agent has read, will be told: *)
(* that connection is the one its request is bound to, however often the phone came *)
(* back - unless the Agent has read, after it, a connection that the phone had left.*)
RequestIsBound ==
  \A p \in srv.pending :
    /\ call.pc = "waits" /\ call.id = p.id /\ call.submitted
    /\ net[call.conn].client = "open" /\ net[call.conn].server = "open"
    /\ net[call.conn].up = <<>> /\ ~late
    => p.conn = call.conn

Quiet == call.pc = "idle" /\ init.pc = "idle" /\ mob.saving = {}

(* When both sides have stored the last request and nothing else touched the trust  *)
(* meanwhile, they trust each other under the same secret: a first pairing, another *)
(* one on top of it, and one after a removal, a restart or a failed attempt.        *)
KeysAgree ==
  Quiet /\ ~spoiled /\ asked \in given \cap taken
    => agent.row # "none" /\ phone.row # "none" /\ agent.secret = phone.secret

(* Whoever asked gets an end, whatever became of the answer and of the other side.  *)
PairingEnds ==
  /\ call.pc # "idle" ~> call.pc = "idle"
  /\ init.pc # "idle" ~> init.pc = "idle"

-----------------------------------------------------------------------------
(* A property the code does not have.                                           *)

(* "The result is sent back to the mobile side over the WebSocket; when accepted,   *)
(* both sides save the trusted device": an acceptance that reaches the phone while  *)
(* it waits is one it can save the Agent from.                                      *)
BothSave ==
  call.pc = "waits" /\ net[call.conn].client = "open" /\ net[call.conn].down # <<>>
    => LET m == Head(net[call.conn].down)
       IN m.type = "resolved" /\ m.status = "approved" => m.secret # 0
=============================================================================

----------------------------- MODULE V3PeerRuntime -----------------------------
(***************************************************************************)
(* The peer connection from both ends: the phone's runtime that dials,     *)
(* keeps and drops it (v3PeerRealtimeRuntime.ts), and the Agent's manager  *)
(* of V3OfferDelivery, whose actions are taken over and which also sends   *)
(* text messages over the live connections.                                *)
(*                                                                         *)
(* connect() waits for two lookups before it looks at its connections; the *)
(* trusted device, the app's state and other connect() calls can change in *)
(* between.  Either end can lose a connection before the other notices.    *)
(* What the phone does with an offer is V3IncomingTransfer.                *)
(***************************************************************************)
EXTENDS V3OfferDelivery

CONSTANTS
  Texts,       \* text messages of the Agent's user
  NoPeer,      \* no connection
  MaxBreaks    \* bound: broken connections, failed lookups and saves, changes of trust, address or app

ASSUME RuntimeAssumption == NoPeer \notin Connections /\ MaxBreaks \in Nat

VARIABLES
  phone,    \* app state, the trusted Agent, current connection, reconnect timer; history: a
            \* lookup has failed since the Agent was dialled last
  dials,    \* connect() calls in their lookups, by the endpoint they were given
  sock,     \* the phone's sockets
  address,  \* the endpoint where the Agent listens
  inbox,    \* text frames sent to each socket
  text,     \* where each text is at the Agent, and who was live when it was sent
  saving,   \* frames whose handler waits for the database
  saved,    \* texts in the phone's database
  unsaved,  \* history: texts that could not be saved
  breaks

agentVars == <<status, creation, conn, faults>>
phoneVars == <<phone, dials, sock, inbox, saving, saved, unsaved>>
runtimeVars == <<agentVars, phoneVars, address, text, breaks>>

-----------------------------------------------------------------------------
Endpoints == {"here", "there"}
NoSocket == [state |-> "none", endpoint |-> "here"]

Break == breaks < MaxBreaks /\ breaks' = breaks + 1

Closed(s, c) == IF c = NoPeer THEN s ELSE [s EXCEPT ![c] = NoSocket]

\* reconcile: the connection that no longer fits is closed, and a device without one
\* is dialled.  p is the phone and s are its sockets by now.
Reconcile(p, s) ==
  LET drop == /\ p.app = "active" /\ p.current # NoPeer
              /\ ~p.eligible \/ s[p.current].endpoint # p.endpoint
      dial == p.app = "active" /\ p.eligible /\ (drop \/ p.current = NoPeer) IN
  /\ sock' = IF drop THEN Closed(s, p.current) ELSE s
  /\ phone' = [p EXCEPT !.current = IF drop THEN NoPeer ELSE @, !.gaveUp = @ /\ ~dial]
  /\ dials' = IF dial THEN [dials EXCEPT ![p.endpoint] = @ + 1] ELSE dials

\* The frames of a socket that is gone are not handled.
Dropped ==
  /\ inbox' = [c \in Connections |-> IF sock'[c].state = "open" THEN inbox[c] ELSE {}]
  /\ text' = [m \in Texts |-> [text[m] EXCEPT !.live = {c \in @ : sock'[c].state = "open"}]]

AgentIdle == UNCHANGED <<agentVars, address>>

-----------------------------------------------------------------------------
(* The phone. *)

\* The trusted devices change: removed, allowed to send or no longer, or paired at
\* an address that discovery knew.
TrustChanges ==
  /\ Break
  /\ \E eligible \in BOOLEAN, e \in Endpoints :
       Reconcile([phone EXCEPT !.eligible = eligible, !.endpoint = e], sock)
  /\ Dropped
  /\ AgentIdle /\ UNCHANGED <<saving, saved, unsaved>>

\* Only pairing again gives the phone the new address of the Agent.
PairedAgain ==
  /\ phone.endpoint # address
  /\ Reconcile([phone EXCEPT !.endpoint = address], sock)
  /\ Dropped
  /\ AgentIdle /\ UNCHANGED <<saving, saved, unsaved, breaks>>

Background ==
  /\ phone.app = "active" /\ Break
  /\ phone' = [phone EXCEPT !.app = "background", !.current = NoPeer]
  /\ sock' = Closed(sock, phone.current)
  /\ Dropped
  /\ AgentIdle /\ UNCHANGED <<dials, saving, saved, unsaved>>

Foreground ==
  /\ phone.app = "background"
  /\ Reconcile([phone EXCEPT !.app = "active"], sock)
  /\ Dropped
  /\ AgentIdle /\ UNCHANGED <<saving, saved, unsaved, breaks>>

ReconnectTimer ==
  /\ phone.timer
  /\ Reconcile([phone EXCEPT !.timer = FALSE], sock)
  /\ Dropped
  /\ AgentIdle /\ UNCHANGED <<saving, saved, unsaved, breaks>>

\* connect after its lookups.  A secret that was read before the device was removed
\* is still used.
Dial(e, c) ==
  /\ dials[e] > 0
  /\ dials' = [dials EXCEPT ![e] = @ - 1]
  /\ \/ /\ phone.current # NoPeer \/ ~phone.eligible
        /\ UNCHANGED <<phone, sock>>
     \/ /\ phone.current = NoPeer
        /\ sock[c] = NoSocket /\ conn[c] = NoConnection
        /\ phone' = [phone EXCEPT !.current = c, !.gaveUp = FALSE]
        /\ sock' = [sock EXCEPT ![c] = [state |-> "dialling", endpoint |-> e]]
  /\ AgentIdle /\ UNCHANGED <<inbox, saving, saved, unsaved, text, breaks>>

\* getTransferSecret or getDeviceId throws, or there is no secret: connect ends, and no
\* timer is set.
LookupFails(e) ==
  /\ dials[e] > 0 /\ Break
  /\ dials' = [dials EXCEPT ![e] = @ - 1]
  /\ phone' = [phone EXCEPT !.gaveUp = phone.current = NoPeer]
  /\ AgentIdle /\ UNCHANGED <<sock, inbox, saving, saved, unsaved, text>>

\* The socket opens, and the hello is answered: the phone authenticates.
Opens(c) ==
  /\ sock[c].state = "dialling" /\ sock[c].endpoint = address
  /\ Connect(c)
  /\ sock' = [sock EXCEPT ![c].state = "open"]
  /\ UNCHANGED <<phone, dials, inbox, saving, saved, unsaved, address, text, breaks>>

\* mutant: the runtime waits for the next change of its devices to dial again
ClosedQuietly(c) ==
  /\ sock' = Closed(sock, c)
  /\ phone' = IF phone.current = c THEN [phone EXCEPT !.current = NoPeer] ELSE phone

\* onclose
OnClose(c) ==
  /\ sock' = Closed(sock, c)
  /\ phone' = IF phone.current = c THEN [phone EXCEPT !.current = NoPeer, !.timer = TRUE] ELSE phone

\* Nobody listens there, or the Agent closed its end, or the network is gone.
PhoneLoses(c) ==
  /\ sock[c].state # "none"
  /\ IF \/ sock[c].state = "dialling" /\ sock[c].endpoint # address
        \/ sock[c].state = "open" /\ ~conn[c].open
       THEN UNCHANGED breaks ELSE Break
  /\ OnClose(c)
  /\ Dropped
  /\ AgentIdle /\ UNCHANGED <<dials, saving, saved, unsaved>>

\* onmessage and handleMessage: a text of the current connection
Take(c, m) ==
  /\ m \in inbox[c]
  /\ inbox' = [inbox EXCEPT ![c] = @ \ {m}]
  /\ saving' = IF phone.current = c THEN saving \cup {m} ELSE saving
  /\ AgentIdle /\ UNCHANGED <<phone, dials, sock, saved, unsaved, text, breaks>>

\* saveReceivedTextMessages
Save(m) ==
  /\ m \in saving
  /\ saving' = saving \ {m}
  /\ saved' = saved \cup {m}
  /\ AgentIdle /\ UNCHANGED <<phone, dials, sock, inbox, unsaved, text, breaks>>

\* It fails, or the lookup of the own id before it: onError is told, and the connection
\* stands.
SaveFails(m) ==
  /\ m \in saving /\ Break
  /\ saving' = saving \ {m}
  /\ unsaved' = unsaved \cup {m}
  /\ AgentIdle /\ UNCHANGED <<phone, dials, sock, inbox, saved, text>>

-----------------------------------------------------------------------------
(* The Agent. *)

PhoneIdle == UNCHANGED <<phone, dials, sock, saving, saved, unsaved, breaks>>

\* Its socket ends: after the phone closed its own, or for another reason.
AgentLoses(c) ==
  /\ IF sock[c].state # "open" THEN UNCHANGED breaks ELSE Break
  /\ Disconnect(c)
  /\ UNCHANGED <<phoneVars, address, text>>

AgentMoves ==
  /\ Break
  /\ address' \in Endpoints \ {address}
  /\ conn' = [c \in Connections |-> IF conn[c].step \in {"none", "idle"} THEN NoConnection
                                     ELSE [conn[c] EXCEPT !.open = FALSE]]
  /\ UNCHANGED <<status, creation, faults, phoneVars, text>>

Manage ==
  /\ \/ \E c \in Connections : Handle(c)
     \/ \E t \in Transfers : CreateTransfer(t) \/ Created(t) \/ CreatedMarked(t) \/ CreationFails(t)
                           \/ PauseTransfer(t) \/ ResumeTransfer(t) \/ Finish(t)
  /\ UNCHANGED <<phoneVars, address, text, breaks>>

\* Who hears of a text: the live connections the phone still has.
Hearing == {c \in Live : sock[c].state = "open"}

\* mutant: the first connection of the device gets it, live for the phone or not
AppendedToOne(m) ==
  /\ text[m].state = "new"
  /\ text' = [text EXCEPT ![m] = [state |-> "stored", live |-> Hearing]]
  /\ \E k \in Live : inbox' = [c \in Connections |-> IF c \in Hearing \cap {k} THEN inbox[c] \cup {m} ELSE inbox[c]]
  /\ UNCHANGED <<agentVars, address>> /\ PhoneIdle

\* sendFromAgent: append, then message.changed to the live connections
Appended(m) ==
  /\ text[m].state = "new"
  /\ text' = [text EXCEPT ![m] = [state |-> "stored", live |-> Hearing]]
  /\ inbox' = [c \in Connections |-> IF c \in Hearing THEN inbox[c] \cup {m} ELSE inbox[c]]
  /\ UNCHANGED <<agentVars, address>> /\ PhoneIdle

-----------------------------------------------------------------------------
RuntimeInit ==
  /\ OfferInit
  /\ phone = [app |-> "active", eligible |-> TRUE, endpoint |-> "here", current |-> NoPeer,
             timer |-> FALSE, gaveUp |-> FALSE]
  /\ dials = [e \in Endpoints |-> IF e = "here" THEN 1 ELSE 0]
  /\ sock = [c \in Connections |-> NoSocket]
  /\ address = "here"
  /\ inbox = [c \in Connections |-> {}]
  /\ text = [m \in Texts |-> [state |-> "new", live |-> {}]]
  /\ saving = {} /\ saved = {} /\ unsaved = {}
  /\ breaks = 0

Connecting == (\E e \in Endpoints, c \in Connections : Dial(e, c)) \/ \E c \in Connections : Opens(c)

RuntimeNext ==
  \/ TrustChanges \/ PairedAgain \/ Background \/ Foreground \/ ReconnectTimer \/ Connecting
  \/ \E c \in Connections : PhoneLoses(c) \/ AgentLoses(c)
  \/ \E c \in Connections, m \in Texts : Take(c, m)
  \/ \E e \in Endpoints : LookupFails(e)
  \/ \E m \in Texts : Save(m) \/ SaveFails(m) \/ Appended(m)
  \/ AgentMoves \/ Manage

RuntimeSpec == RuntimeInit /\ [][RuntimeNext]_runtimeVars

Noticed(c) == (PhoneLoses(c) \/ AgentLoses(c)) /\ UNCHANGED breaks

\* Lookups, timers and handlers end, and closed sockets are noticed.
RuntimeFairness ==
  /\ WF_runtimeVars(Connecting) /\ WF_runtimeVars(ReconnectTimer)
  /\ \A c \in Connections : /\ WF_runtimeVars(Noticed(c))
                            /\ WF_runtimeVars(Handle(c) /\ UNCHANGED <<phoneVars, address, text, breaks>>)
  /\ \A m \in Texts : WF_runtimeVars(Save(m)) /\ WF_runtimeVars(\E c \in Connections : Take(c, m))

FairRuntimeSpec == RuntimeSpec /\ RuntimeFairness

-----------------------------------------------------------------------------
\* The phone is in use, and what it trusts is where the Agent listens.
Wanted == phone.app = "active" /\ phone.eligible /\ phone.endpoint = address

\* The current connection has authenticated and is live.
Online == phone.current # NoPeer /\ phone.current \in Live

\* The Agent answered the authentication with an error and the phone stays connected.
Deaf == phone.current # NoPeer /\ LET k == conn[phone.current] IN k.open /\ k.step = "idle" /\ ~k.live

(* A phone in use gets its connection to an Agent it trusts back, whatever breaks   *)
(* or changes during a lookup, unless the Agent refuses it or a lookup of connect()  *)
(* itself fails (v3PeerRealtimeRuntime.ts:57-59 sets no timer then).  A device that  *)
(* moved is not found again by discovery, but dialled once it is paired anew.        *)
PhoneReconnects == Wanted ~> Online \/ Deaf \/ ~Wanted \/ phone.gaveUp

(* A text that is sent while the phone's connection is live is saved, unless that  *)
(* connection ends or the phone's database refuses it: beside older connections    *)
(* the Agent still takes for live.                                                 *)
LiveTextIsSaved ==
  \A m \in Texts, c \in Connections :
    (text[m].state = "stored" /\ c \in text[m].live /\ phone.current = c)
      ~> m \in saved \cup unsaved \/ phone.current # c

-----------------------------------------------------------------------------
(* A property the code does not have.                                           *)

(* The same without a way out for the lookups: a phone in use that is not refused  *)
(* dials again.                                                                    *)
PhoneAlwaysReconnects == Wanted ~> Online \/ Deaf \/ ~Wanted
=============================================================================

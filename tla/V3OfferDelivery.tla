---------------------------- MODULE V3OfferDelivery ----------------------------
(***************************************************************************)
(* How the Agent tells one phone of its outgoing transfers: over a         *)
(* WebSocket that has just authenticated (sendOutstandingOffers), or over  *)
(* the live ones when a transfer is created (sendOutgoingOffer).           *)
(*                                                                         *)
(* Every action is a handler up to its next wait for a thread or the disk: *)
(* the permission lookup of authenticate, and the write of the catalogue   *)
(* that markOfferDelivered waits for when it changes a transfer            *)
(* (V3OutgoingTransfer has that write; here it ends or fails).  A lost     *)
(* network leaves the Agent with an old connection beside the new one.     *)
(* Each connection says hello once, as the phone does.                     *)
(***************************************************************************)
EXTENDS Integers, SequencesExt

CONSTANTS
  Transfers,      \* outgoing transfers to the phone
  Connections,    \* connections at a time, each reused when it has ended
  MaxWriteFaults  \* bound: failed writes of the catalogue

ASSUME DeliveryAssumption == IsFiniteSet(Transfers) /\ MaxWriteFaults \in Nat

VARIABLES
  status,   \* what the catalogue says of each transfer
  creation, \* where the admin request that created each transfer is
  conn,     \* the connections
  faults    \* how much of the bound is used up

-----------------------------------------------------------------------------
(* A connection: registered with the manager, the step of its authentication,  *)
(* the flags, the offers it has still to send; and, as history, what was due    *)
(* when it authenticated and what it has sent.                                  *)
NoConnection == [open |-> FALSE, step |-> "none", authenticated |-> FALSE, live |-> FALSE,
                 offers |-> <<>>, due |-> {}, sent |-> {}]

\* isOfferable; transfers that complete without a chunk are left out.
Offerable(t) == status[t] \in {"waiting_for_peer", "transferring", "paused"}

WriteFault == faults < MaxWriteFaults /\ faults' = faults + 1

\* A connection whose handler has ended is forgotten once it is closed.
Ended(c) == IF c.open THEN [c EXCEPT !.step = "idle"] ELSE NoConnection

Live == {c \in Connections : conn[c].open /\ conn[c].authenticated /\ conn[c].live}

\* markOfferDelivered changes a transfer that waits, and only then writes.
Waiting(t) == status[t] = "waiting_for_peer"
Mark(t)    == status' = [status EXCEPT ![t] = "transferring"]

-----------------------------------------------------------------------------
(* Connections. *)

Connect(c) ==
  /\ conn[c] = NoConnection
  /\ conn' = [conn EXCEPT ![c].open = TRUE, ![c].step = "authenticating"]
  /\ UNCHANGED <<status, creation, faults>>

Rejected(c) ==
  /\ conn[c].step = "authenticating"
  /\ conn' = [conn EXCEPT ![c] = Ended(@)]
  /\ UNCHANGED <<status, creation, faults>>

\* The loop of sendOutstandingOffers, for connection c as k: offers are sent up to
\* the first one whose transfer has to be written.  It stops when the connection
\* is gone; a connection that comes to the end accepts live events.
SendOffers(c, k) ==
  \/ /\ ~k.open
     /\ conn' = [conn EXCEPT ![c] = NoConnection]
     /\ UNCHANGED status
  \/ \E n \in 0..Len(k.offers) :
       /\ k.open
       /\ \A i \in 1..n : ~Waiting(k.offers[i])
       /\ LET sent == k.sent \cup {k.offers[i] : i \in 1..n}
          IN \/ /\ n = Len(k.offers)
                /\ conn' = [conn EXCEPT ![c] = [k EXCEPT !.step = "idle", !.live = TRUE,
                                                         !.offers = <<>>, !.sent = sent]]
                /\ UNCHANGED status
             \/ /\ n < Len(k.offers) /\ Waiting(k.offers[n + 1])
                /\ conn' = [conn EXCEPT ![c] = [k EXCEPT !.step = "writing", !.sent = sent,
                                                         !.offers = SubSeq(@, n + 1, Len(@))]]
                /\ Mark(k.offers[n + 1])

\* mutant: a transfer that was delivered once is not offered again
OffersWaiting == {t \in Transfers : Waiting(t)}

\* getOffers
Offers == {t \in Transfers : Offerable(t)}

Authenticated(c) ==
  /\ conn[c].step = "authenticating"
  /\ SendOffers(c, [conn[c] EXCEPT !.authenticated = TRUE, !.offers = SetToSeq(Offers),
                       !.due = {t \in Transfers : Offerable(t)}])
  /\ UNCHANGED <<creation, faults>>

\* markOfferDelivered returns the offer, whatever has become of the transfer.
Marked(c) ==
  /\ conn[c].step = "writing"
  /\ SendOffers(c, [conn[c] EXCEPT !.offers = Tail(@), !.sent = @ \cup {Head(conn[c].offers)}])
  /\ UNCHANGED <<creation, faults>>

\* The phone is told that it is not authenticated, and the connection stays.
MarkFails(c) ==
  /\ conn[c].step = "writing"
  /\ WriteFault
  /\ conn' = [conn EXCEPT ![c] = Ended(@)]
  /\ UNCHANGED <<status, creation>>

\* remove; a handler that is under way ends on its own.
Disconnect(c) ==
  /\ conn[c].open
  /\ conn' = [conn EXCEPT ![c] = IF @.step = "idle" THEN NoConnection ELSE [@ EXCEPT !.open = FALSE]]
  /\ UNCHANGED <<status, creation, faults>>

-----------------------------------------------------------------------------
(* Transfers. *)

\* POST /api/outgoing-transfers: create keeps the record and writes the catalogue.
CreateTransfer(t) ==
  /\ status[t] = "none"
  /\ status' = [status EXCEPT ![t] = "waiting_for_peer"]
  /\ creation' = [creation EXCEPT ![t] = "creating"]
  /\ UNCHANGED <<conn, faults>>

SentLive(t) == [c \in Connections |-> IF c \in Live THEN [conn[c] EXCEPT !.sent = @ \cup {t}]
                                                     ELSE conn[c]]

\* sendOutgoingOffer, which gives up when the phone has no live connection.
Created(t) ==
  /\ creation[t] = "creating"
  /\ IF Live # {} /\ Waiting(t)
       THEN /\ creation' = [creation EXCEPT ![t] = "writing"]
            /\ Mark(t)
            /\ UNCHANGED conn
       ELSE /\ creation' = [creation EXCEPT ![t] = "ended"]
            /\ conn' = SentLive(t)
            /\ UNCHANGED status
  /\ UNCHANGED faults

CreatedMarked(t) ==
  /\ creation[t] = "writing"
  /\ creation' = [creation EXCEPT ![t] = "ended"]
  /\ conn' = SentLive(t)
  /\ UNCHANGED <<status, faults>>

CreationFails(t) ==
  /\ creation[t] \in {"creating", "writing"}
  /\ WriteFault
  /\ creation' = [creation EXCEPT ![t] = "failed"]
  /\ UNCHANGED <<status, conn>>

\* setControlState; a paused transfer is offered too.
PauseTransfer(t) ==
  /\ status[t] \in {"waiting_for_peer", "transferring"}
  /\ status' = [status EXCEPT ![t] = "paused"]
  /\ UNCHANGED <<creation, conn, faults>>

ResumeTransfer(t) ==
  /\ status[t] = "paused"
  /\ status' = [status EXCEPT ![t] = "transferring"]
  /\ UNCHANGED <<creation, conn, faults>>

\* The transfer completes, fails or is cancelled.
Finish(t) ==
  /\ Offerable(t)
  /\ status' = [status EXCEPT ![t] = "closed"]
  /\ UNCHANGED <<creation, conn, faults>>

-----------------------------------------------------------------------------
OfferInit ==
  /\ status = [t \in Transfers |-> "none"]
  /\ creation = [t \in Transfers |-> "none"]
  /\ conn = [c \in Connections |-> NoConnection]
  /\ faults = 0

Handle(c) ==
  Authenticated(c) \/ Rejected(c) \/ Marked(c) \/ MarkFails(c)

-----------------------------------------------------------------------------
(* A phone that reconnects is offered what is outstanding, unless the connection  *)
(* or the transfer ends first, or a write fails and the phone is told so.         *)
ReconnectOffers ==
  \A c \in Connections, t \in Transfers :
    conn[c].open /\ t \in conn[c].due
      ~> \/ t \in conn[c].sent \/ ~conn[c].open \/ ~Offerable(t)
         \/ conn[c].step = "idle" /\ ~conn[c].live

-----------------------------------------------------------------------------
(* A property the code does not have.                                           *)

(* The same sentence for every offer: a connection that accepts live events has   *)
(* been sent all that is outstanding, so that only later transfers need an event. *)
LiveMeansOffered ==
  \A c \in Live, t \in Transfers :
    Offerable(t) /\ creation[t] = "ended" => t \in conn[c].sent
=============================================================================

---------------------------- MODULE DeviceDiscovery ----------------------------
(***************************************************************************)
(* The Agent and a phone find each other by announcements over UDP         *)
(* (discoveryBroadcaster.ts, discoveryService.ts), and the phone's first   *)
(* screen shows what it has found (index.tsx).  Each end announces itself  *)
(* once in Interval, remembers what it heard, and forgets it after Ttl.    *)
(*                                                                         *)
(* Both ends are always in the same network, and may move to another one   *)
(* together.  An announcement arrives at once or is lost.                  *)
(***************************************************************************)
EXTENDS Integers

CONSTANTS
  Interval,    \* DEFAULT_ANNOUNCE_INTERVAL_MS, in ticks
  Ttl,         \* DEFAULT_DEVICE_TTL_MS, in ticks
  MaxTroubles  \* bound: losses, failed starts, stops, clock changes and moves

\* validateOptions
ASSUME DiscoveryAssumption ==
  Interval \in Nat \ {0} /\ Ttl \in Nat /\ Ttl > Interval /\ MaxTroubles \in Nat

VARIABLES
  step,      \* how far each end has started
  announce,  \* ticks until announceTimer fires
  cleanup,   \* ticks until cleanupTimer fires
  known,     \* devices: the network in which each end has heard the other
  age,       \* now - lastSeenAt, counted up to Ttl
  target,    \* the network to which the phone's announcements are directed
  screen,    \* discoveredDevices of the phone's screen
  net,       \* the network of both ends
  missed,    \* history: announcements of each end lost since one was heard
  troubles

discoveryVars == <<step, announce, cleanup, known, age, target, screen, net, missed, troubles>>

-----------------------------------------------------------------------------
Ends == {"agent", "phone"}
Other(e) == IF e = "agent" THEN "phone" ELSE "agent"
Networks == {"home", "work"}
Nobody == "nobody"

Trouble == troubles < MaxTroubles /\ troubles' = troubles + 1

Running(e) == step[e] = "running"

\* With more announcements lost in a row an end may be forgotten.
Tolerated == (Ttl - 1) \div Interval - 1
Missed(n) == IF n > Tolerated THEN n ELSE n + 1
Long == Tolerated + 1

\* mutant: a known device is updated without an event
EventWhenFound(e, k) ==
  screen' = IF e = "phone" /\ (screen = Nobody \/ k = Nobody) THEN k ELSE screen

\* deviceFound, deviceUpdated, deviceLost: the screen follows the service.
Event(e, k) == screen' = IF e = "phone" THEN k ELSE screen

\* handleMessage
Heard(e) ==
  /\ known' = [known EXCEPT ![e] = net]
  /\ age' = [age EXCEPT ![e] = 0]
  /\ missed' = [missed EXCEPT ![Other(e)] = 0]
  /\ Event(e, net)

\* What the phone sends to the broadcast address of a network it has left is lost.
Reaches(e) == Running(Other(e)) /\ (e = "phone" => target \in {net, "any"})

\* announce
Announces(e) ==
  \/ /\ Reaches(e) /\ Heard(Other(e))
     /\ UNCHANGED troubles
  \/ /\ IF Reaches(e) THEN Trouble ELSE UNCHANGED troubles
     /\ missed' = [missed EXCEPT ![e] = Missed(@)]
     /\ UNCHANGED <<known, age, screen>>

\* stop: the service that starts next is a new one.
Stopped(e) ==
  /\ step' = [step EXCEPT ![e] = "off"]
  /\ known' = [known EXCEPT ![e] = Nobody]
  /\ age' = [age EXCEPT ![e] = Ttl]
  /\ missed' = [missed EXCEPT ![e] = Long]
  /\ Event(e, Nobody)

-----------------------------------------------------------------------------
\* onReady, or the effect of the screen.
Start(e) ==
  /\ step[e] = "off"
  /\ step' = [step EXCEPT ![e] = IF e = "phone" THEN "addressing" ELSE "identifying"]
  /\ UNCHANGED <<announce, cleanup, known, age, target, screen, net, missed, troubles>>

\* getWifiIPv4BroadcastTargetAsync, which may not know the network.
Addressed ==
  /\ step["phone"] = "addressing"
  /\ step' = [step EXCEPT !["phone"] = "identifying"]
  /\ target' \in {net, "any"}
  /\ UNCHANGED <<announce, cleanup, known, age, screen, net, missed, troubles>>

Identified(e) ==
  /\ step[e] = "identifying"
  /\ step' = [step EXCEPT ![e] = "binding"]
  /\ UNCHANGED <<announce, cleanup, known, age, target, screen, net, missed, troubles>>

Bound(e) ==
  /\ step[e] = "binding"
  /\ step' = [step EXCEPT ![e] = "running"]
  /\ announce' = [announce EXCEPT ![e] = Interval]
  /\ cleanup' = [cleanup EXCEPT ![e] = Interval]
  /\ Announces(e)
  /\ UNCHANGED <<target, net>>

\* Nobody tries again.
StartFails(e) ==
  /\ step[e] \in {"identifying", "binding"} /\ Trouble
  /\ step' = [step EXCEPT ![e] = "failed"]
  /\ UNCHANGED <<announce, cleanup, known, age, target, screen, net, missed>>

\* The Agent is closed, the permission is taken away or the screen left.
Stop(e) ==
  /\ step[e] # "off" /\ Trouble
  /\ Stopped(e)
  /\ UNCHANGED <<announce, cleanup, target, net>>

AnnounceTimer(e) ==
  /\ Running(e) /\ announce[e] = 0
  /\ announce' = [announce EXCEPT ![e] = Interval]
  /\ Announces(e)
  /\ UNCHANGED <<step, cleanup, target, net>>

\* mutant: a device may miss one announcement less
ForgottenEarly(e) ==
  /\ age[e] >= Ttl - Interval
  /\ known' = [known EXCEPT ![e] = Nobody]
  /\ Event(e, Nobody)

Forgotten(e) ==
  /\ age[e] >= Ttl
  /\ known' = [known EXCEPT ![e] = Nobody]
  /\ Event(e, Nobody)

\* removeExpiredDevices
CleanupTimer(e) ==
  /\ Running(e) /\ cleanup[e] = 0
  /\ cleanup' = [cleanup EXCEPT ![e] = Interval]
  /\ \/ known[e] # Nobody /\ Forgotten(e)
     \/ (known[e] = Nobody \/ age[e] < Ttl) /\ UNCHANGED <<known, screen>>
  /\ UNCHANGED <<step, announce, age, target, net, missed, troubles>>

-----------------------------------------------------------------------------
(* The world. *)

Due == \E e \in Ends : Running(e) /\ (announce[e] = 0 \/ cleanup[e] = 0)

\* Timers are in time.
Tick ==
  /\ ~Due
  /\ age' = [e \in Ends |-> IF age[e] < Ttl THEN age[e] + 1 ELSE age[e]]
  /\ announce' = [e \in Ends |-> IF Running(e) THEN announce[e] - 1 ELSE announce[e]]
  /\ cleanup' = [e \in Ends |-> IF Running(e) THEN cleanup[e] - 1 ELSE cleanup[e]]
  /\ UNCHANGED <<step, known, target, screen, net, missed, troubles>>

\* The wall clock of an end is set forward or back.
ClockSet(e) ==
  /\ known[e] # Nobody /\ Trouble
  /\ age' \in {[age EXCEPT ![e] = Ttl], [age EXCEPT ![e] = @ - Ttl]}
  /\ missed' = [missed EXCEPT ![Other(e)] = Long]
  /\ UNCHANGED <<step, announce, cleanup, known, target, screen, net>>

Move ==
  /\ Trouble
  /\ net' \in Networks \ {net}
  /\ UNCHANGED <<step, announce, cleanup, known, age, target, screen, missed>>

-----------------------------------------------------------------------------
DiscoveryInit ==
  /\ step = [e \in Ends |-> "off"]
  /\ announce = [e \in Ends |-> Interval] /\ cleanup = [e \in Ends |-> Interval]
  /\ known = [e \in Ends |-> Nobody] /\ age = [e \in Ends |-> Ttl]
  /\ target = "any" /\ screen = Nobody /\ net = "home"
  /\ missed = [e \in Ends |-> Long]
  /\ troubles = 0

Starting(e) == Start(e) \/ Identified(e) \/ Bound(e) \/ (e = "phone" /\ Addressed)

DiscoveryNext ==
  \/ Tick \/ Move
  \/ \E e \in Ends :
       Starting(e) \/ StartFails(e) \/ Stop(e) \/ AnnounceTimer(e) \/ CleanupTimer(e) \/ ClockSet(e)

DiscoverySpec == DiscoveryInit /\ [][DiscoveryNext]_discoveryVars

\* Time passes, timers fire, and a start goes on.
FairDiscoverySpec ==
  /\ DiscoverySpec /\ WF_discoveryVars(Tick)
  /\ \A e \in Ends : WF_discoveryVars(Starting(e)) /\ WF_discoveryVars(AnnounceTimer(e)) /\ WF_discoveryVars(CleanupTimer(e))

-----------------------------------------------------------------------------
(* An end that announces itself is forgotten only when more announcements in a row  *)
(* were lost than fit into the Ttl, or the clock of the one who listens was set: by *)
(* the defaults, two may be lost.                                                   *)
LiveStaysListed ==
  [][\A e \in Ends : known[e] # Nobody /\ known'[e] = Nobody /\ step'[e] = "running"
                       => missed[Other(e)] > Tolerated]_discoveryVars

(* Two ends that both stay up find each other where they are now, unless the phone  *)
(* has moved since its search began: it announces itself to the network it left.    *)
NeighboursFindEachOther ==
  <>[](\A e \in Ends : Running(e))
    => <>[](known["phone"] = net /\ screen = net /\ (target \in {net, "any"} => known["agent"] = net))
=============================================================================

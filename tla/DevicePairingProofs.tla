-------------------------- MODULE DevicePairingProofs --------------------------
(***************************************************************************)
(* Proofs about DevicePairing, for every number of requests, connections   *)
(* and troubles, and any lifetimes.                                        *)
(***************************************************************************)
EXTENDS DevicePairing, FiniteSetTheorems, SequenceTheorems, TLAPS

Sessions == [code : Codes, left : Nat]
Pendings == [id : Nat, conn : Sockets, left : Nat]
Verdicts == {"approved", "rejected", "expired"}
Outcomes == [id : Nat, status : Verdicts, left : Nat]
Servers  == [sessions : SUBSET Sessions, pending : SUBSET Pendings, outcomes : SUBSET Outcomes]
Mobiles  == [sessions : SUBSET Sessions, pending : Seq(Pendings), prompt : Nat, saving : SUBSET Nat]
Codings  == Codes \cup {"none"}
Calls    == [pc : {"idle", "waits", "saves"}, id : Nat, left : Nat, code : Codings,
             conn : Sockets \cup {0}, submitted : BOOLEAN, known : Rows, sheet : BOOLEAN]
Inits    == [pc : {"idle", "waits"}, id : Nat, left : Nat, code : Codings, conn : Sockets \cup {0}]

Questions == [type : {"request"}, id : Nat, code : Codings] \cup [type : {"status"}, id : Nat]
Answers ==
  [type : {"resolved"}, id : Nat, status : Verdicts, secret : Nat] \cup
       [type : {"error"}, code : {"INVALID_PAIRING_CODE", "PAIRING_REQUEST_NOT_FOUND"}]

\* A connection carries one question at most.
Carried == {<<>>} \cup {<<q>> : q \in Questions}
Connections ==
  [to : {"none", "agent", "phone"}, client : {"new", "opening", "open", "closed"},
   server : {"none", "open", "closed"}, up : Carried, down : Seq(Answers)]
Nets == [Sockets -> Connections]

(* Every variable has its type. *)
TypeOK ==
  /\ agent \in [row : Rows, secret : Nat] /\ phone \in [row : Rows, secret : Nat]
  /\ srv \in Servers /\ mob \in Mobiles
  /\ call \in Calls /\ init \in Inits
  /\ net \in Nets
  /\ asked \in Nat /\ given \subseteq Nat /\ taken \subseteq Nat
  /\ spoiled \in BOOLEAN /\ late \in BOOLEAN /\ troubles \in Nat

\* The question a server has still to read.
Reading(c) == Head(net[c].up)
Asks(c, who) == net[c].to = who /\ net[c].up # <<>>

(* A question waits at an open end of a server, and a client that waits has a      *)
(* connection of its own, which leads to the other side.                           *)
Connected ==
  /\ \A c \in Sockets : net[c].up # <<>> =>
       net[c].server = "open" /\ net[c].client \in {"open", "closed"} /\ net[c].to # "none"
  /\ call.pc # "idle" => /\ call.conn \in Sockets /\ net[call.conn].to = "agent"
                          /\ net[call.conn].client # "new"
  /\ init.pc = "waits" => /\ init.conn \in Sockets /\ net[init.conn].to = "phone"
                          /\ net[init.conn].client # "new"

(* A request has the number it was pressed under. *)
Numbered ==
  /\ \A p \in srv.pending : p.id <= asked
  /\ \A i \in DOMAIN mob.pending : mob.pending[i].id <= asked
  /\ \A c \in Sockets : net[c].up # <<>> => Reading(c).id <= asked
  /\ \A id \in mob.saving \cup given \cup taken : id <= asked
  /\ call.pc # "idle" => call.id <= asked
  /\ init.pc # "idle" => init.id <= asked

(* The Agent reads a request once: it is still to be sent, or unread on one         *)
(* connection, or known to the service, which binds it to a connection that has     *)
(* been read.                                                                       *)
Requesting(c) == Asks(c, "agent") /\ Reading(c).type = "request"

OneRequest ==
  /\ \A c \in Sockets : Requesting(c) => \A p \in srv.pending : p.id # Reading(c).id
  /\ \A c, d \in Sockets :
       Requesting(c) /\ Requesting(d) /\ Reading(c).id = Reading(d).id => c = d
  /\ call.pc = "waits" /\ ~call.submitted =>
       /\ \A p \in srv.pending : p.id # call.id
       /\ \A c \in Sockets : Asks(c, "agent") => Reading(c).id # call.id
  /\ call.pc = "waits" /\ net[call.conn].up # <<>> => Reading(call.conn).id = call.id
  /\ \A p \in srv.pending : net[p.conn].up = <<>> /\ net[p.conn].client \in {"open", "closed"}

(* No two pending requests are bound to the same connection. *)
OneEach == \A p, q \in srv.pending : p.conn = q.conn \/ p.id = q.id => p = q

(* An undisturbed last request is the only one under way, and of one side; whoever  *)
(* has stored its secret holds it.                                                  *)
OnlyPhone ==
  /\ mob.pending = <<>> /\ mob.saving = {} /\ init.pc = "idle"
  /\ \A c \in Sockets : ~Asks(c, "phone")
  /\ \A c \in Sockets : Asks(c, "agent") => Reading(c).id = asked
  /\ \A p \in srv.pending : p.id = asked
  /\ call.pc # "idle" => call.id = asked

OnlyAgent ==
  /\ srv.pending = {} /\ call.pc = "idle"
  /\ \A c \in Sockets : ~Asks(c, "agent")
  /\ \A c \in Sockets : Asks(c, "phone") => Reading(c).id = asked
  /\ \A i \in DOMAIN mob.pending : mob.pending[i].id = asked
  /\ \A id \in mob.saving : id = asked
  /\ init.pc # "idle" => init.id = asked

Holds(side) == side.row # "none" /\ side.secret = asked

ByPhone == OnlyPhone /\ (asked \in given => Holds(agent)) /\ (asked \in taken => Holds(phone))
ByAgent == OnlyAgent /\ (asked \in given => Holds(phone)) /\ (asked \in taken => Holds(agent))

OneSecret == ~spoiled => ByPhone \/ ByAgent

IInv ==
  /\ TypeOK /\ Connected /\ Numbered
  /\ OneRequest /\ OneEach /\ RequestIsBound
  /\ OneSecret

-----------------------------------------------------------------------------
(* The helpers of the services only add answers. *)

SameQuestions(n, m) ==
  \A c \in Sockets : /\ m[c].to = n[c].to /\ m[c].up = n[c].up
                     /\ m[c].client = n[c].client /\ m[c].server = n[c].server

LEMMA SentAnswers ==
  ASSUME NEW n \in Nets, NEW c \in Sockets, NEW m \in Answers
  PROVE  Sent(n, c, m) \in Nets /\ SameQuestions(n, Sent(n, c, m))
<1>1. n[c] \in Connections /\ Append(n[c].down, m) \in Seq(Answers)
  BY DEF Nets, Connections
<1>2. [n[c] EXCEPT !.down = Append(@, m)] \in Connections
  BY <1>1 DEF Connections
<1>3. [n EXCEPT ![c].down = Append(@, m)] \in Nets
  BY <1>2 DEF Nets
<1>4. SameQuestions(n, [n EXCEPT ![c].down = Append(@, m)])
  BY <1>1 DEF SameQuestions, Nets, Connections
<1> QED BY <1>3, <1>4 DEF Sent, SameQuestions

LEMMA ErrorIsAnswer ==
  Error("INVALID_PAIRING_CODE") \in Answers /\ Error("PAIRING_REQUEST_NOT_FOUND") \in Answers
BY DEF Error, Answers

LEMMA ResolvedIsAnswer ==
  ASSUME NEW id \in Nat, NEW status \in Verdicts, NEW secret \in Nat
  PROVE  Resolved(id, status, secret) \in Answers
BY DEF Resolved, Answers

LEMMA ToldAnswers ==
  ASSUME NEW n \in Nets, NEW P \in SUBSET Pendings
  PROVE  Told(n, P) \in Nets /\ SameQuestions(n, Told(n, P))
<1>1. ASSUME NEW c \in Sockets
      PROVE  /\ Told(n, P)[c] \in Connections
             /\ Told(n, P)[c].to = n[c].to /\ Told(n, P)[c].up = n[c].up
             /\ Told(n, P)[c].client = n[c].client /\ Told(n, P)[c].server = n[c].server
  <2> DEFINE mine == {p \in P : p.conn = c}
             first == CHOOSE p \in mine : TRUE
             a == Resolved(first.id, "expired", 0)
  <2>1. CASE mine = {}
    <3>1. Told(n, P)[c] = n[c]
      BY <2>1 DEF Told
    <3> QED BY <3>1 DEF Nets
  <2>2. CASE mine # {}
    <3>1. Told(n, P)[c] = Sent(n, c, a)[c]
      BY <2>2 DEF Told
    <3>2. first \in mine
      BY <2>2
    <3>3. a \in Answers
      BY <3>2, ResolvedIsAnswer DEF Pendings, Verdicts
    <3>4. Sent(n, c, a) \in Nets /\ SameQuestions(n, Sent(n, c, a))
      BY <3>3, SentAnswers
    <3> HIDE DEF a, first, mine
    <3> QED BY <3>1, <3>4 DEF Nets, SameQuestions
  <2> QED BY <2>1, <2>2
<1>2. Told(n, P) = [c \in Sockets |-> Told(n, P)[c]]
  BY DEF Told
<1> QED BY <1>1, <1>2 DEF Nets, SameQuestions

LEMMA HungCloses ==
  ASSUME NEW n \in Nets, NEW c \in Sockets \cup {0}
  PROVE  /\ Hung(n, c) \in Nets
         /\ \A d \in Sockets : /\ Hung(n, c)[d].to = n[d].to /\ Hung(n, c)[d].up = n[d].up
                               /\ Hung(n, c)[d].server = n[d].server
                               /\ Hung(n, c)[d].client = IF d = c THEN "closed" ELSE n[d].client
<1>1. 0 \notin Sockets
  BY DEF Sockets
<1>2. CASE c = 0
  BY <1>1, <1>2 DEF Hung, Nets
<1>3. CASE c \in Sockets
  <2>1. n[c] \in Connections /\ <<>> \in Seq(Answers)
    BY <1>3 DEF Nets
  <2> DEFINE r == [n[c] EXCEPT !.client = "closed", !.down = <<>>]
  <2>2. /\ r \in Connections /\ r.to = n[c].to /\ r.up = n[c].up
        /\ r.server = n[c].server /\ r.client = "closed"
    BY <2>1 DEF Connections
  <2>3. Hung(n, c) = [n EXCEPT ![c] = r]
    BY <1>1, <1>3 DEF Hung
  <2> HIDE DEF r
  <2> QED BY <2>2, <2>3, <1>3 DEF Nets
<1> QED BY <1>2, <1>3

LEMMA SweptKeeps ==
  ASSUME NEW w, w.s \in Servers, w.n \in Nets
  PROVE  /\ Swept(w).s \in Servers /\ Swept(w).s.pending \subseteq w.s.pending
         /\ Swept(w).n \in Nets /\ SameQuestions(w.n, Swept(w).n)
<1> DEFINE expired == {p \in w.s.pending : p.left = 0}
<1>1. expired \in SUBSET Pendings /\ w.s.pending \ expired \in SUBSET Pendings
  BY DEF Servers
<1>2. Swept(w).n = Told(w.n, expired)
  BY DEF Swept
<1>3. {[id |-> p.id, status |-> "expired", left |-> OutcomeTtl] : p \in expired} \subseteq Outcomes
  BY <1>1, PairingAssumption DEF PairingAssumption, Outcomes, Pendings, Verdicts
<1>4. Swept(w).s \in Servers /\ Swept(w).s.pending \subseteq w.s.pending
  BY <1>1, <1>3 DEF Swept, Servers
<1> QED BY <1>1, <1>2, <1>4, ToldAnswers

LEMMA CompletedKeeps ==
  ASSUME NEW w, w.s \in Servers, w.n \in Nets, NEW p \in Pendings,
         NEW status \in Verdicts, NEW secret \in Nat
  PROVE  /\ Completed(w, p, status, secret).s \in Servers
         /\ Completed(w, p, status, secret).s.pending \subseteq w.s.pending
         /\ Completed(w, p, status, secret).n \in Nets
         /\ SameQuestions(w.n, Completed(w, p, status, secret).n)
<1>1. [id |-> p.id, status |-> status, left |-> OutcomeTtl] \in Outcomes
  BY PairingAssumption DEF PairingAssumption, Outcomes, Pendings
<1>2. /\ Completed(w, p, status, secret).s \in Servers
      /\ Completed(w, p, status, secret).s.pending \subseteq w.s.pending
  BY <1>1 DEF Completed, Servers
<1>3. p.id \in Nat /\ p.conn \in Sockets
  BY DEF Pendings
<1>4. Completed(w, p, status, secret).n = Sent(w.n, p.conn, Resolved(p.id, status, secret))
  BY DEF Completed
<1> QED BY <1>2, <1>3, <1>4, ResolvedIsAnswer, SentAnswers

LEMMA SweptElements ==
  ASSUME NEW s \in Seq(Pendings), NEW k \in Nat
  PROVE  /\ SubSeq(s, k + 1, Len(s)) \in Seq(Pendings)
         /\ ToSet(SubSeq(s, k + 1, Len(s))) \subseteq ToSet(s)
<1> DEFINE t == SubSeq(s, k + 1, Len(s))
<1>1. t \in Seq(Pendings)
  BY SMT
<1>2. ASSUME NEW i \in 1..Len(t) PROVE t[i] \in ToSet(s)
  <2>1. Len(t) = IF k < Len(s) THEN Len(s) - k ELSE 0
    BY SMT
  <2>2. t[i] = s[i + k] /\ i + k \in 1..Len(s)
    BY <2>1, SMT
  <2> QED BY <2>2 DEF ToSet
<1>3. ToSet(t) \subseteq ToSet(s)
  BY <1>1, <1>2 DEF ToSet
<1> QED BY <1>1, <1>3

LEMMA ExpiredCounted ==
  ASSUME NEW s \in Seq(Pendings)
  PROVE  Cardinality({p \in ToSet(s) : p.left = 0}) \in Nat
<1> DEFINE E == {p \in ToSet(s) : p.left = 0}
<1>1. IsFiniteSet(1..Len(s))
  BY FS_Interval
<1>2. IsFiniteSet(ToSet(s))
  <2>1. s \in Surjection(1..Len(s), ToSet(s))
    BY DEF Surjection, ToSet
  <2> QED BY <1>1, <2>1, FS_Surjection
<1>3. IsFiniteSet(E)
  BY <1>2, FS_Subset
<1> QED BY <1>3, FS_CardinalityType

LEMMA PhoneSweptKeeps ==
  ASSUME NEW w, w.m \in Mobiles, w.n \in Nets
  PROVE  /\ PhoneSwept(w).m \in Mobiles /\ PhoneSwept(w).m.saving = w.m.saving
         /\ PhoneSwept(w).m.prompt = w.m.prompt
         /\ ToSet(PhoneSwept(w).m.pending) \subseteq ToSet(w.m.pending)
         /\ PhoneSwept(w).n \in Nets /\ SameQuestions(w.n, PhoneSwept(w).n)
<1> DEFINE expired == {p \in ToSet(w.m.pending) : p.left = 0}
           k == Cardinality(expired)
           rest == SubSeq(w.m.pending, k + 1, Len(w.m.pending))
<1>1. w.m.pending \in Seq(Pendings)
  BY DEF Mobiles
<1>2. k \in Nat
  BY <1>1, ExpiredCounted
<1>3. rest \in Seq(Pendings) /\ ToSet(rest) \subseteq ToSet(w.m.pending)
  BY <1>1, <1>2, SweptElements
<1>4. expired \in SUBSET Pendings
  BY <1>1 DEF ToSet
<1>5. PhoneSwept(w).n = Told(w.n, expired)
  BY DEF PhoneSwept
<1>6. PhoneSwept(w).m = [w.m EXCEPT !.pending = rest, !.sessions = {s \in @ : s.left > 0}]
  BY DEF PhoneSwept
<1> HIDE DEF rest, expired
<1>7. /\ PhoneSwept(w).m \in Mobiles /\ PhoneSwept(w).m.saving = w.m.saving
      /\ PhoneSwept(w).m.prompt = w.m.prompt /\ PhoneSwept(w).m.pending = rest
  BY <1>3, <1>6 DEF Mobiles
<1> QED BY <1>3, <1>4, <1>5, <1>7, ToldAnswers

LEMMA PromptedKeeps ==
  ASSUME NEW w, w.m \in Mobiles
  PROVE  /\ Prompted(w).m \in Mobiles /\ Prompted(w).m.pending = w.m.pending
         /\ Prompted(w).m.saving = w.m.saving /\ Prompted(w).n = w.n
<1> DEFINE shown == IF w.m.pending = <<>> THEN 0 ELSE Head(w.m.pending).id
<1>1. shown \in Nat
  <2>1. ASSUME w.m.pending # <<>> PROVE Head(w.m.pending) \in Pendings
    BY <2>1 DEF Mobiles
  <2> QED BY <2>1 DEF Pendings
<1>2. Prompted(w) = [w EXCEPT !.m.prompt = shown]
  BY DEF Prompted
<1> HIDE DEF shown
<1> QED BY <1>1, <1>2 DEF Mobiles

-----------------------------------------------------------------------------
(* What most steps do: questions, requests and calls only become fewer. *)

LessNet ==
  \A c \in Sockets :
    /\ net'[c].to = net[c].to
    /\ net'[c].up \in {net[c].up, <<>>}
    /\ net'[c].client \in {net[c].client, "closed"} /\ (net[c].client = "new" => net'[c].client = "new")
    /\ net'[c].server \in {net[c].server, "closed"}
    /\ net'[c].up # <<>> => net'[c].server = net[c].server
    /\ net'[c].up # net[c].up =>
         net[c].to = "phone" \/ net'[c].client = "closed" \/ net'[c].server = "closed"

LessSrv ==
  \A p \in srv'.pending : \E q \in srv.pending : q.id = p.id /\ q.conn = p.conn

LessMob ==
  /\ \A i \in DOMAIN mob'.pending : \E j \in DOMAIN mob.pending : mob'.pending[i].id = mob.pending[j].id
  /\ \A id \in mob'.saving :
       id \in mob.saving \/ \E j \in DOMAIN mob.pending : id = mob.pending[j].id

LessCall ==
  /\ call'.pc # "idle" => call.pc # "idle" /\ call'.id = call.id /\ call'.conn = call.conn
  /\ call'.pc = "waits" => call.pc = "waits" /\ call'.submitted = call.submitted

LessInit == init'.pc # "idle" => init.pc # "idle" /\ init'.id = init.id /\ init'.conn = init.conn

SameHistory == asked' = asked /\ given' = given /\ taken' = taken

\* The trust of both sides is what it was, or the last request is disturbed.
SameTrust ==
  ~spoiled' => /\ ~spoiled
               /\ agent'.secret = agent.secret /\ (agent.row # "none" => agent'.row # "none")
               /\ phone'.secret = phone.secret /\ (phone.row # "none" => phone'.row # "none")

LEMMA QuestionIsRead ==
  ASSUME TypeOK, TypeOK', LessNet, NEW c \in Sockets, net'[c].up # <<>>
  PROVE  net'[c].up = net[c].up /\ net[c].up # <<>>
BY DEF LessNet

LEMMA ConnectedByLess ==
  ASSUME TypeOK, TypeOK', Connected, LessNet, LessCall, LessInit
  PROVE  Connected'
<1>1. \A c \in Sockets : net'[c].up # <<>> =>
        net'[c].server = "open" /\ net'[c].client \in {"open", "closed"} /\ net'[c].to # "none"
  BY QuestionIsRead DEF Connected, LessNet
<1>2. call'.pc # "idle" => /\ call'.conn \in Sockets /\ net'[call'.conn].to = "agent"
                            /\ net'[call'.conn].client # "new"
  BY DEF Connected, LessNet, LessCall
<1>3. init.pc # "idle" => init.pc = "waits"
  BY DEF TypeOK, Inits
<1>4. init'.pc = "waits" => /\ init'.conn \in Sockets /\ net'[init'.conn].to = "phone"
                            /\ net'[init'.conn].client # "new"
  BY <1>3 DEF Connected, LessNet, LessInit
<1> QED BY <1>1, <1>2, <1>4 DEF Connected

LEMMA NumberedByLess ==
  ASSUME TypeOK, TypeOK', Numbered, LessNet, LessSrv, LessMob, LessCall, LessInit,
         asked' = asked, \A id \in given' \cup taken' : id <= asked
  PROVE  Numbered'
<1>1. \A p \in srv'.pending : p.id <= asked'
  BY DEF Numbered, LessSrv
<1>2. \A i \in DOMAIN mob'.pending : mob'.pending[i].id <= asked'
  BY DEF Numbered, LessMob
<1>3. \A c \in Sockets : net'[c].up # <<>> => Head(net'[c].up).id <= asked'
  BY QuestionIsRead DEF Numbered, Reading
<1>4. \A id \in mob'.saving \cup given' \cup taken' : id <= asked'
  BY DEF Numbered, LessMob
<1>5. /\ call'.pc # "idle" => call'.id <= asked'
      /\ init'.pc # "idle" => init'.id <= asked'
  BY DEF Numbered, LessCall, LessInit
<1> QED BY <1>1, <1>2, <1>3, <1>4, <1>5 DEF Numbered, Reading

LEMMA OneRequestByLess ==
  ASSUME TypeOK, TypeOK', Connected, OneRequest, LessNet, LessSrv, LessCall
  PROVE  OneRequest'
<1>1. ASSUME NEW c \in Sockets, net'[c].up # <<>>
      PROVE  net'[c].up = net[c].up /\ net[c].up # <<>> /\ net'[c].to = net[c].to
  BY <1>1, QuestionIsRead DEF LessNet
<1>2. \A c \in Sockets : Requesting(c)' => \A p \in srv'.pending : p.id # Head(net'[c].up).id
  BY <1>1 DEF OneRequest, Requesting, Asks, Reading, LessSrv
<1>3. \A c, d \in Sockets :
        Requesting(c)' /\ Requesting(d)' /\ Head(net'[c].up).id = Head(net'[d].up).id => c = d
  BY <1>1 DEF OneRequest, Requesting, Asks, Reading
<1>4. call'.pc = "waits" /\ ~call'.submitted =>
        /\ \A p \in srv'.pending : p.id # call'.id
        /\ \A c \in Sockets : Asks(c, "agent")' => Head(net'[c].up).id # call'.id
  BY <1>1 DEF OneRequest, Asks, Reading, LessSrv, LessCall
<1>5. ASSUME NEW p \in srv'.pending
      PROVE  net'[p.conn].up = <<>> /\ net'[p.conn].client \in {"open", "closed"}
  <2>1. PICK q \in srv.pending : q.conn = p.conn
    BY DEF LessSrv
  <2>2. q.conn \in Sockets
    BY DEF TypeOK, Servers, Pendings
  <2>3. net[q.conn].up = <<>> /\ net[q.conn].client \in {"open", "closed"}
    BY DEF OneRequest
  <2> QED BY <2>1, <2>2, <2>3 DEF LessNet
<1>6. call'.pc = "waits" /\ net'[call'.conn].up # <<>> => Head(net'[call'.conn].up).id = call'.id
  BY <1>1 DEF OneRequest, Connected, LessCall, Reading
<1> QED BY <1>2, <1>3, <1>4, <1>5, <1>6 DEF OneRequest, Reading

LEMMA BoundByLess ==
  ASSUME TypeOK, TypeOK', Connected, RequestIsBound, LessNet, LessSrv, LessCall, late' = late
  PROVE  RequestIsBound'
<1> SUFFICES ASSUME NEW p \in srv'.pending,
                    call'.pc = "waits", call'.id = p.id, call'.submitted,
                    net'[call'.conn].client = "open", net'[call'.conn].server = "open",
                    net'[call'.conn].up = <<>>, ~late'
             PROVE  p.conn = call'.conn
  BY DEF RequestIsBound
<1>1. /\ call.pc = "waits" /\ call'.conn = call.conn /\ call.submitted /\ call.id = p.id
      /\ call.conn \in Sockets /\ net[call.conn].to = "agent"
  BY DEF LessCall, Connected
<1>2. net[call.conn].client = "open" /\ net[call.conn].server = "open" /\ net[call.conn].up = <<>>
  BY <1>1 DEF LessNet
<1>3. PICK q \in srv.pending : q.id = p.id /\ q.conn = p.conn
  BY DEF LessSrv
<1> QED BY <1>1, <1>2, <1>3 DEF RequestIsBound

LEMMA OnlyByLess ==
  ASSUME TypeOK, TypeOK', LessNet, LessSrv, LessMob, LessCall, LessInit, asked' = asked
  PROVE  (OnlyPhone => OnlyPhone') /\ (OnlyAgent => OnlyAgent')
<1>1. ASSUME NEW c \in Sockets, NEW who, Asks(c, who)'
      PROVE  Asks(c, who) /\ Head(net'[c].up) = Reading(c)
  BY <1>1, QuestionIsRead DEF LessNet, Asks, Reading
<1>2. ASSUME OnlyPhone PROVE OnlyPhone'
  <2>1. mob'.pending = <<>> /\ mob'.saving = {} /\ init'.pc = "idle"
    <3>1. DOMAIN mob'.pending = {}
      BY <1>2 DEF OnlyPhone, LessMob
    <3>2. mob'.pending \in Seq(Pendings)
      BY DEF TypeOK, Mobiles
    <3>3. mob'.pending = <<>>
      <4>1. Len(mob'.pending) \in Nat /\ DOMAIN mob'.pending = 1..Len(mob'.pending)
        BY <3>2
      <4>2. 1 \notin 1..Len(mob'.pending)
        BY <3>1, <4>1
      <4>3. Len(mob'.pending) = 0
        BY <4>1, <4>2
      <4> QED BY <3>2, <4>3
    <3> QED BY <1>2, <3>3 DEF OnlyPhone, LessMob, LessInit
  <2>2. /\ \A c \in Sockets : ~Asks(c, "phone")'
        /\ \A c \in Sockets : Asks(c, "agent")' => Head(net'[c].up).id = asked'
    BY <1>1, <1>2 DEF OnlyPhone
  <2>3. /\ \A p \in srv'.pending : p.id = asked'
        /\ call'.pc # "idle" => call'.id = asked'
    BY <1>2 DEF OnlyPhone, LessSrv, LessCall
  <2> QED BY <2>1, <2>2, <2>3 DEF OnlyPhone, Reading
<1>3. ASSUME OnlyAgent PROVE OnlyAgent'
  <2>1. srv'.pending = {} /\ call'.pc = "idle"
    BY <1>3 DEF OnlyAgent, LessSrv, LessCall
  <2>2. /\ \A c \in Sockets : ~Asks(c, "agent")'
        /\ \A c \in Sockets : Asks(c, "phone")' => Head(net'[c].up).id = asked'
    BY <1>1, <1>3 DEF OnlyAgent
  <2>3. /\ \A i \in DOMAIN mob'.pending : mob'.pending[i].id = asked'
        /\ \A id \in mob'.saving : id = asked'
        /\ init'.pc # "idle" => init'.id = asked'
    BY <1>3 DEF OnlyAgent, LessMob, LessInit
  <2> QED BY <2>1, <2>2, <2>3 DEF OnlyAgent, Reading
<1> QED BY <1>2, <1>3

LEMMA SecretByLess ==
  ASSUME TypeOK, TypeOK', OneSecret, LessNet, LessSrv, LessMob, LessCall, LessInit, SameHistory, SameTrust
  PROVE  OneSecret'
<1> SUFFICES ASSUME ~spoiled' PROVE ByPhone' \/ ByAgent'
  BY DEF OneSecret
<1>1. ByPhone \/ ByAgent
  BY DEF OneSecret, SameTrust
<1>2. (OnlyPhone => OnlyPhone') /\ (OnlyAgent => OnlyAgent')
  BY OnlyByLess DEF SameHistory
<1>3. (Holds(agent) => Holds(agent)') /\ (Holds(phone) => Holds(phone)')
  BY DEF SameTrust, SameHistory, Holds
<1> QED BY <1>1, <1>2, <1>3 DEF ByPhone, ByAgent, SameHistory

LEMMA IInvByLess ==
  ASSUME IInv, TypeOK', LessNet, LessSrv, LessMob, LessCall, LessInit, SameHistory, SameTrust,
         late' = late, OneEach'
  PROVE  IInv'
<1>1. \A id \in given' \cup taken' : id <= asked
  BY DEF IInv, Numbered, SameHistory
<1>2. Numbered'
  BY <1>1, NumberedByLess DEF IInv, SameHistory
<1>3. Connected' /\ OneRequest' /\ RequestIsBound' /\ OneSecret'
  BY ConnectedByLess, OneRequestByLess, BoundByLess, SecretByLess DEF IInv
<1> QED BY <1>2, <1>3 DEF IInv

-----------------------------------------------------------------------------
(* The Agent serves. *)

LEMMA WorldTyped == ASSUME TypeOK PROVE World.s = srv /\ World.n = net /\ srv \in Servers /\ net \in Nets
BY DEF World, TypeOK

\* A service that answers, and forgets requests, disturbs nothing.
LEMMA ServedLess ==
  ASSUME TypeOK, SameQuestions(net, net'), srv'.pending \subseteq srv.pending,
         UNCHANGED <<mob, call, init>>
  PROVE  LessNet /\ LessSrv /\ LessMob /\ LessCall /\ LessInit
<1>1. LessNet
  BY DEF LessNet, SameQuestions
<1>2. LessSrv /\ LessMob /\ LessCall /\ LessInit
  BY DEF LessSrv, LessMob, LessCall, LessInit
<1> QED BY <1>1, <1>2

LEMMA ServedSafe ==
  ASSUME IInv, srv' \in Servers, srv'.pending \subseteq srv.pending,
         net' \in Nets, SameQuestions(net, net'),
         UNCHANGED <<agent, phone, mob, call, init, asked, history, troubles>>
  PROVE  IInv'
<1>1. TypeOK'
  BY DEF IInv, TypeOK, history
<1>2. LessNet /\ LessSrv /\ LessMob /\ LessCall /\ LessInit
  BY ServedLess DEF IInv
<1>3. OneEach'
  BY DEF IInv, OneEach
<1>4. SameHistory /\ SameTrust /\ late' = late
  BY DEF SameHistory, SameTrust, history
<1> QED BY <1>1, <1>2, <1>3, <1>4, IInvByLess

LEMMA SweptWorld ==
  ASSUME TypeOK
  PROVE  /\ Swept(World).s \in Servers /\ Swept(World).s.pending \subseteq srv.pending
         /\ Swept(World).n \in Nets /\ SameQuestions(net, Swept(World).n)
BY WorldTyped, SweptKeeps

LEMMA AgentShowsCodeSafe == ASSUME IInv, AgentShowsCode PROVE IInv'
<1> DEFINE w == Swept(World)
<1>1. /\ w.s \in Servers /\ w.s.pending \subseteq srv.pending
      /\ w.n \in Nets /\ SameQuestions(net, w.n)
  BY SweptWorld DEF IInv
<1>2. PICK code \in Codes :
        /\ Becomes([w EXCEPT !.s.sessions = @ \cup {[code |-> code, left |-> SessionTtl]}])
        /\ UNCHANGED <<agent, phone, mob, call, init, asked, history, troubles>>
  BY DEF AgentShowsCode
<1>3. w = [s |-> w.s, n |-> w.n]
  BY DEF Swept
<1>4. srv' = [w.s EXCEPT !.sessions = @ \cup {[code |-> code, left |-> SessionTtl]}] /\ net' = w.n
  <2> HIDE DEF w
  <2> QED BY <1>2, <1>3 DEF Becomes
<1> HIDE DEF w
<1>5. [code |-> code, left |-> SessionTtl] \in Sessions
  BY PairingAssumption DEF PairingAssumption, Sessions
<1>6. srv' \in Servers /\ srv'.pending = w.s.pending
  BY <1>1, <1>4, <1>5 DEF Servers
<1> QED BY <1>1, <1>2, <1>4, <1>6, ServedSafe

LEMMA AgentListsSafe == ASSUME IInv, AgentLists PROVE IInv'
BY SweptWorld, ServedSafe DEF IInv, AgentLists, Becomes

LEMMA CompletedSwept ==
  ASSUME TypeOK, NEW p \in Pendings, NEW status \in Verdicts, NEW secret \in Nat
  PROVE  /\ Completed(Swept(World), p, status, secret).s \in Servers
         /\ Completed(Swept(World), p, status, secret).s.pending \subseteq srv.pending
         /\ Completed(Swept(World), p, status, secret).n \in Nets
         /\ SameQuestions(net, Completed(Swept(World), p, status, secret).n)
<1> DEFINE w == Swept(World)
<1>1. /\ w.s \in Servers /\ w.s.pending \subseteq srv.pending
      /\ w.n \in Nets /\ SameQuestions(net, w.n)
  BY SweptWorld
<1> HIDE DEF w
<1>2. /\ Completed(w, p, status, secret).s \in Servers
      /\ Completed(w, p, status, secret).s.pending \subseteq w.s.pending
      /\ Completed(w, p, status, secret).n \in Nets
      /\ SameQuestions(w.n, Completed(w, p, status, secret).n)
  BY <1>1, CompletedKeeps
<1>3. SameQuestions(net, Completed(w, p, status, secret).n)
  BY <1>1, <1>2 DEF SameQuestions
<1> QED BY <1>1, <1>2, <1>3 DEF w

LEMMA AgentRejectsSafe == ASSUME IInv, NEW p \in srv.pending, AgentRejects(p) PROVE IInv'
<1>1. TypeOK /\ p \in Pendings
  BY DEF IInv, TypeOK, Servers
<1>2. /\ srv' \in Servers /\ srv'.pending \subseteq srv.pending
      /\ net' \in Nets /\ SameQuestions(net, net')
  BY <1>1, SweptWorld, CompletedSwept DEF AgentRejects, Becomes, Verdicts
<1> QED BY <1>2, ServedSafe DEF AgentRejects

LEMMA ApprovalExpiresSafe == ASSUME IInv, NEW p \in srv.pending, ApprovalExpires(p) PROVE IInv'
<1>1. TypeOK /\ p \in Pendings
  BY DEF IInv, TypeOK, Servers
<1>2. /\ srv' \in Servers /\ srv'.pending \subseteq srv.pending
      /\ net' \in Nets /\ SameQuestions(net, net')
  BY <1>1, WorldTyped, CompletedKeeps DEF ApprovalExpires, Becomes, Verdicts
<1> QED BY <1>2, ServedSafe DEF ApprovalExpires

LEMMA KeptTrusts == \A row \in Rows : Kept(row) \in Rows /\ Kept(row) # "none"
BY DEF Kept, Rows

LEMMA AgentApprovesHalfSafe ==
  ASSUME IInv, NEW p \in srv.pending, AgentApprovesHalf(p) PROVE IInv'
<1>1. TypeOK
  BY DEF IInv
<1>2. /\ srv' \in Servers /\ srv'.pending \subseteq srv.pending
      /\ net' \in Nets /\ SameQuestions(net, net')
  BY <1>1, SweptWorld DEF AgentApprovesHalf, Becomes
<1>3. agent' \in [row : Rows, secret : Nat] /\ spoiled' = TRUE /\ troubles' \in Nat
  BY <1>1, KeptTrusts DEF AgentApprovesHalf, Trouble, TypeOK
<1>4. TypeOK'
  BY <1>1, <1>2, <1>3 DEF TypeOK, AgentApprovesHalf
<1>5. LessNet /\ LessSrv /\ LessMob /\ LessCall /\ LessInit
  BY <1>1, <1>2, ServedLess DEF AgentApprovesHalf
<1>6. OneEach' /\ SameHistory /\ SameTrust /\ late' = late
  BY <1>2, <1>3 DEF IInv, OneEach, SameHistory, SameTrust, AgentApprovesHalf
<1> QED BY <1>4, <1>5, <1>6, IInvByLess

LEMMA AgentApprovesSafe == ASSUME IInv, NEW p \in srv.pending, AgentApproves(p) PROVE IInv'
<1>1. TypeOK /\ p \in Pendings /\ p.id \in Nat /\ p.id <= asked
  BY DEF IInv, TypeOK, Servers, Pendings, Numbered
<1>2. CASE p \notin Swept(World).s.pending
  <2>1. /\ srv' \in Servers /\ srv'.pending \subseteq srv.pending
        /\ net' \in Nets /\ SameQuestions(net, net')
    BY <1>1, <1>2, SweptWorld DEF AgentApproves, Approved, Becomes
  <2>2. UNCHANGED <<agent, phone, mob, call, init, asked, history, troubles>>
    BY <1>2 DEF AgentApproves, Approved, history
  <2> QED BY <2>1, <2>2, ServedSafe
<1>3. CASE p \in Swept(World).s.pending
  <2>1. /\ srv' \in Servers /\ srv'.pending \subseteq srv.pending
        /\ net' \in Nets /\ SameQuestions(net, net')
    BY <1>1, <1>3, CompletedSwept DEF AgentApproves, Approved, Becomes, Verdicts
  <2>2. /\ agent' = [row |-> Kept(agent.row), secret |-> p.id] /\ given' = given \cup {p.id}
        /\ UNCHANGED <<phone, mob, call, init, asked, taken, spoiled, late, troubles>>
    BY <1>3 DEF AgentApproves, Approved
  <2>3. agent' \in [row : Rows, secret : Nat] /\ agent'.row # "none" /\ agent'.secret = p.id
    BY <1>1, <2>2, KeptTrusts DEF TypeOK
  <2>4. TypeOK'
    BY <1>1, <2>1, <2>2, <2>3 DEF TypeOK
  <2>5. LessNet /\ LessSrv /\ LessMob /\ LessCall /\ LessInit
    BY <1>1, <2>1, <2>2, ServedLess
  <2>6. Connected' /\ OneRequest' /\ OneEach' /\ RequestIsBound'
    BY <2>1, <2>2, <2>4, <2>5, ConnectedByLess, OneRequestByLess, BoundByLess DEF IInv, OneEach
  <2>7. Numbered'
    <3>1. \A id \in given' \cup taken' : id <= asked
      BY <1>1, <2>2 DEF IInv, Numbered
    <3> QED BY <2>2, <2>4, <2>5, <3>1, NumberedByLess DEF IInv
  <2>8. OneSecret'
    <3> SUFFICES ASSUME ~spoiled' PROVE ByPhone'
      BY DEF OneSecret
    <3>1. OnlyPhone /\ (asked \in taken => Holds(phone)) /\ p.id = asked
      BY <2>2 DEF IInv, OneSecret, ByPhone, ByAgent, OnlyPhone, OnlyAgent
    <3>2. OnlyPhone'
      BY <1>1, <2>2, <2>4, <2>5, <3>1, OnlyByLess
    <3>3. Holds(agent)' /\ (Holds(phone) => Holds(phone)')
      BY <2>2, <2>3, <3>1 DEF Holds
    <3> QED BY <2>2, <3>1, <3>2, <3>3 DEF ByPhone
  <2> QED BY <2>4, <2>6, <2>7, <2>8 DEF IInv
<1> QED BY <1>2, <1>3

(* The Agent reads a question.  What is left of the state is the sweep's, with the  *)
(* connection read.                                                                 *)

ReadOn(n, c) == [n EXCEPT ![c].up = Tail(@)]

LEMMA ReadKeeps ==
  ASSUME NEW n \in Nets, NEW c \in Sockets, n[c].up # <<>>
  PROVE  /\ ReadOn(n, c) \in Nets /\ ReadOn(n, c)[c].up = <<>>
         /\ Head(n[c].up) \in Questions
         /\ \A d \in Sockets :
              /\ ReadOn(n, c)[d].to = n[d].to /\ ReadOn(n, c)[d].client = n[d].client
              /\ ReadOn(n, c)[d].server = n[d].server
              /\ d # c => ReadOn(n, c)[d].up = n[d].up
<1>1. n[c] \in Connections
  BY DEF Nets
<1>2. PICK q \in Questions : n[c].up = <<q>>
  BY <1>1 DEF Connections, Carried
<1>3. Tail(n[c].up) = <<>> /\ Head(n[c].up) = q
  BY <1>2
<1> DEFINE r == [n[c] EXCEPT !.up = Tail(@)]
<1>4. /\ r \in Connections /\ r.up = <<>> /\ r.to = n[c].to
      /\ r.client = n[c].client /\ r.server = n[c].server
  BY <1>1, <1>3 DEF Connections, Carried
<1>5. ReadOn(n, c) = [n EXCEPT ![c] = r]
  BY DEF ReadOn
<1> HIDE DEF r
<1> QED BY <1>2, <1>3, <1>4, <1>5 DEF Nets

LEMMA AgentReceivesSafe ==
  ASSUME IInv, NEW c \in Sockets, AgentReceives(c)
  PROVE  IInv'
<1> DEFINE m == Head(net[c].up)
           v == [World EXCEPT !.n[c].up = Tail(@)]
           w == Swept(v)
           x == IF m.type = "request" THEN Requested(w, c, m) ELSE Status(w, c, m.id)
<1>1. /\ net[c].to = "agent" /\ net[c].server = "open" /\ net[c].up # <<>>
      /\ srv' = x.s /\ net' = x.n
      /\ late' = IF m.id = call.id THEN c # call.conn ELSE late
      /\ UNCHANGED <<agent, phone, mob, call, init, asked, given, taken, spoiled, troubles>>
  BY DEF AgentReceives, Becomes
<1>2. TypeOK /\ srv \in Servers /\ net \in Nets
  BY DEF IInv, TypeOK
<1>3. v.s = srv /\ v.n = ReadOn(net, c)
  BY DEF World, ReadOn
<1>4. /\ ReadOn(net, c) \in Nets /\ ReadOn(net, c)[c].up = <<>> /\ m \in Questions
      /\ \A d \in Sockets :
           /\ ReadOn(net, c)[d].to = net[d].to /\ ReadOn(net, c)[d].client = net[d].client
           /\ ReadOn(net, c)[d].server = net[d].server
           /\ d # c => ReadOn(net, c)[d].up = net[d].up
  BY <1>1, <1>2, ReadKeeps
<1>5. /\ w.s \in Servers /\ w.s.pending \subseteq srv.pending
      /\ w.n \in Nets /\ SameQuestions(ReadOn(net, c), w.n)
  <2> HIDE DEF v
  <2> QED BY <1>2, <1>3, <1>4, SweptKeeps
<1>6. w = [s |-> w.s, n |-> w.n]
  BY DEF Swept
<1> HIDE DEF w, v
<1>7. ASSUME NEW a \in Answers
      PROVE  /\ [w EXCEPT !.n = Sent(@, c, a)].s = w.s
             /\ [w EXCEPT !.n = Sent(@, c, a)].n \in Nets
             /\ SameQuestions(w.n, [w EXCEPT !.n = Sent(@, c, a)].n)
  BY <1>5, <1>6, SentAnswers
<1> DEFINE fresh == [id |-> m.id, conn |-> c, left |-> ApprovalTtl]
           bound == {IF p.id = m.id THEN [p EXCEPT !.conn = c] ELSE p : p \in w.s.pending}
<1>8. m.id \in Nat /\ fresh \in Pendings
  BY <1>4, PairingAssumption DEF PairingAssumption, Questions, Pendings
<1>9. /\ x.n \in Nets /\ SameQuestions(w.n, x.n)
      /\ x.s \in Servers
      /\ \/ x.s.pending = w.s.pending
         \/ /\ m.type = "request" /\ x.s.pending = w.s.pending \cup {fresh}
            /\ \A p \in w.s.pending : p.id # m.id
         \/ m.type = "status" /\ x.s.pending = bound
      /\ \A p \in x.s.pending : p.id = m.id /\ m.type = "status" => p.conn = c
  <2>1. SameQuestions(w.n, w.n)
    BY DEF SameQuestions
  <2>2. CASE m.type = "request"
    <3>1. x = Requested(w, c, m)
      BY <2>2
    <3>2. CASE \E p \in w.s.pending : p.id = m.id
      BY <1>5, <2>1, <2>2, <3>1, <3>2 DEF Requested
    <3>3. CASE ~(\E p \in w.s.pending : p.id = m.id) /\ {s \in w.s.sessions : s.code = m.code} = {}
      <4>1. x = [w EXCEPT !.n = Sent(@, c, Error("INVALID_PAIRING_CODE"))]
        BY <3>1, <3>3 DEF Requested
      <4> HIDE DEF x
      <4> QED BY <1>5, <1>7, <2>2, <4>1, ErrorIsAnswer
    <3>4. CASE ~(\E p \in w.s.pending : p.id = m.id) /\ {s \in w.s.sessions : s.code = m.code} # {}
      <4> DEFINE matching == {s \in w.s.sessions : s.code = m.code}
      <4>1. x = [w EXCEPT !.s.sessions = @ \ matching, !.s.pending = @ \cup {fresh}]
        BY <3>1, <3>4 DEF Requested
      <4> HIDE DEF matching, fresh, x
      <4>2. x.n = w.n /\ x.s = [w.s EXCEPT !.sessions = @ \ matching, !.pending = @ \cup {fresh}]
        BY <1>6, <4>1
      <4>3. x.s \in Servers /\ x.s.pending = w.s.pending \cup {fresh}
        BY <1>5, <1>8, <4>2 DEF Servers
      <4> QED BY <1>5, <2>1, <2>2, <3>4, <4>2, <4>3
    <3> QED BY <3>2, <3>3, <3>4
  <2>3. CASE m.type = "status"
    <3>1. x = Status(w, c, m.id)
      BY <2>3
    <3> DEFINE decided == {o \in w.s.outcomes : o.id = m.id}
    <3>2. CASE \E p \in w.s.pending : p.id = m.id
      <4>1. x = [w EXCEPT !.s.pending = bound]
        BY <3>1, <3>2 DEF Status
      <4>2. bound \in SUBSET Pendings
        BY <1>5 DEF Servers, Pendings
      <4>3. \A p \in bound : p.id = m.id => p.conn = c
        BY <1>5 DEF Servers, Pendings
      <4> HIDE DEF bound, x
      <4>4. x.n = w.n /\ x.s = [w.s EXCEPT !.pending = bound]
        BY <1>6, <4>1
      <4>5. x.s \in Servers /\ x.s.pending = bound
        BY <1>5, <4>2, <4>4 DEF Servers
      <4> QED BY <1>5, <2>1, <2>3, <4>3, <4>4, <4>5
    <3>3. CASE ~(\E p \in w.s.pending : p.id = m.id) /\ decided # {}
      <4> DEFINE o == CHOOSE y \in decided : TRUE
      <4>1. x = [w EXCEPT !.n = Sent(@, c, Resolved(m.id, o.status, 0))]
        BY <3>1, <3>3 DEF Status
      <4>2. o \in w.s.outcomes
        BY <3>3
      <4> HIDE DEF o
      <4>3. Resolved(m.id, o.status, 0) \in Answers
        BY <1>5, <1>8, <4>2, ResolvedIsAnswer DEF Servers, Outcomes
      <4> HIDE DEF x
      <4> QED BY <1>5, <1>7, <2>3, <3>3, <4>1, <4>3
    <3>4. CASE ~(\E p \in w.s.pending : p.id = m.id) /\ decided = {}
      <4>1. x = [w EXCEPT !.n = Sent(@, c, Error("PAIRING_REQUEST_NOT_FOUND"))]
        BY <3>1, <3>4 DEF Status
      <4> HIDE DEF x
      <4> QED BY <1>5, <1>7, <2>3, <3>4, <4>1, ErrorIsAnswer
    <3> QED BY <3>2, <3>3, <3>4
  <2> QED BY <1>4, <2>2, <2>3 DEF Questions
<1> HIDE DEF x
(* The step in the state's own terms. *)
<1>10. /\ net' \in Nets /\ net'[c].up = <<>>
       /\ \A d \in Sockets :
            /\ net'[d].to = net[d].to /\ net'[d].client = net[d].client
            /\ net'[d].server = net[d].server
            /\ d # c => net'[d].up = net[d].up
  BY <1>1, <1>4, <1>5, <1>9 DEF SameQuestions
<1>11. /\ srv' \in Servers
       /\ \A p \in srv'.pending : p.id = m.id /\ m.type = "status" => p.conn = c
       /\ \A p \in srv'.pending :
            \/ p \in srv.pending
            \/ p = fresh /\ m.type = "request" /\ \A q \in srv'.pending : q = fresh \/ q.id # m.id
            \/ m.type = "status" /\ p.id = m.id /\ p.conn = c
                 /\ \E q \in srv.pending : q.id = p.id /\ p = [q EXCEPT !.conn = c]
  <2>1. CASE x.s.pending = w.s.pending
    BY <1>1, <1>5, <1>9, <2>1
  <2>2. CASE m.type = "request" /\ x.s.pending = w.s.pending \cup {fresh}
             /\ \A p \in w.s.pending : p.id # m.id
    BY <1>1, <1>5, <1>9, <2>2
  <2>3. CASE m.type = "status" /\ x.s.pending = bound
    <3>1. ASSUME NEW p \in bound
          PROVE  \/ p \in srv.pending
                 \/ p.id = m.id /\ p.conn = c
                      /\ \E q \in srv.pending : q.id = p.id /\ p = [q EXCEPT !.conn = c]
      <4>1. PICK q \in w.s.pending : p = IF q.id = m.id THEN [q EXCEPT !.conn = c] ELSE q
        OBVIOUS
      <4>2. q \in srv.pending /\ q \in Pendings
        BY <1>5 DEF Servers
      <4> QED BY <4>1, <4>2 DEF Pendings
    <3> HIDE DEF bound
    <3> QED BY <1>1, <1>9, <2>3, <3>1
  <2> QED BY <1>9, <2>1, <2>2, <2>3
<1> HIDE DEF m, fresh, bound
<1>12. TypeOK'
  BY <1>1, <1>2, <1>10, <1>11 DEF TypeOK
<1>13. IInv /\ m = Reading(c) /\ Asks(c, "agent")
  BY <1>1 DEF Reading, Asks, m
<1>14. ASSUME NEW d \in Sockets, net'[d].up # <<>>
       PROVE  d # c /\ net'[d].up = net[d].up /\ net'[d].to = net[d].to
  BY <1>10, <1>14
<1>15. ASSUME NEW p \in srv'.pending
       PROVE  \/ p \in srv.pending /\ p.conn # c
              \/ p.id = m.id /\ p.conn = c
  BY <1>1, <1>11 DEF IInv, OneRequest, fresh
<1>16. Connected'
  BY <1>1, <1>10, <1>14 DEF IInv, Connected
<1>17. Numbered'
  <2>1. m.id <= asked
    BY <1>1, <1>13 DEF IInv, Numbered
  <2>2. \A p \in srv'.pending : p.id <= asked'
    BY <1>1, <1>15, <2>1 DEF IInv, Numbered
  <2>3. \A d \in Sockets : net'[d].up # <<>> => Head(net'[d].up).id <= asked'
    BY <1>1, <1>14 DEF IInv, Numbered, Reading
  <2> QED BY <1>1, <2>2, <2>3 DEF IInv, Numbered, Reading
<1>18. OneRequest'
  <2>1. \A d \in Sockets : Requesting(d)' => \A p \in srv'.pending : p.id # Head(net'[d].up).id
    <3> SUFFICES ASSUME NEW d \in Sockets, Requesting(d)', NEW p \in srv'.pending,
                        p.id = Head(net'[d].up).id
                 PROVE  FALSE
      OBVIOUS
    <3>1. Requesting(d) /\ Reading(d) = Head(net'[d].up) /\ d # c
      BY <1>14 DEF Requesting, Asks, Reading
    <3>2. p \notin srv.pending
      BY <3>1 DEF IInv, OneRequest
    <3>3. p.id = m.id
      BY <1>15, <3>2
    <3>4. CASE m.type = "request"
      BY <1>13, <3>1, <3>3, <3>4 DEF IInv, OneRequest, Requesting
    <3>5. CASE m.type # "request"
      <4>1. \E q \in srv.pending : q.id = p.id
        BY <1>11, <3>2, <3>5
      <4> QED BY <3>1, <4>1 DEF IInv, OneRequest
    <3> QED BY <3>4, <3>5
  <2>2. \A d, e \in Sockets :
          Requesting(d)' /\ Requesting(e)' /\ Head(net'[d].up).id = Head(net'[e].up).id => d = e
    BY <1>14 DEF IInv, OneRequest, Requesting, Asks, Reading
  <2>3. call'.pc = "waits" /\ ~call'.submitted =>
          /\ \A p \in srv'.pending : p.id # call'.id
          /\ \A d \in Sockets : Asks(d, "agent")' => Head(net'[d].up).id # call'.id
    BY <1>1, <1>13, <1>14, <1>15 DEF IInv, OneRequest, Asks, Reading
  <2>4. call'.pc = "waits" /\ net'[call'.conn].up # <<>> => Head(net'[call'.conn].up).id = call'.id
    BY <1>1, <1>14 DEF IInv, OneRequest, Connected, Reading
  <2>5. net[c].client \in {"open", "closed"}
    BY <1>1 DEF IInv, Connected
  <2>6. \A p \in srv'.pending : net'[p.conn].up = <<>> /\ net'[p.conn].client \in {"open", "closed"}
    <3> SUFFICES ASSUME NEW p \in srv'.pending
                 PROVE  net'[p.conn].up = <<>> /\ net'[p.conn].client \in {"open", "closed"}
      OBVIOUS
    <3>1. p.conn \in Sockets
      BY <1>12 DEF TypeOK, Servers, Pendings
    <3>2. CASE p.conn = c
      BY <1>10, <2>5, <3>2
    <3>3. CASE p.conn # c
      <4>1. p \in srv.pending
        BY <1>15, <3>3
      <4> QED BY <1>10, <3>1, <3>3, <4>1 DEF IInv, OneRequest
    <3> QED BY <3>2, <3>3
  <2> QED BY <2>1, <2>2, <2>3, <2>4, <2>6 DEF OneRequest, Reading
<1>19. OneEach'
  <2> SUFFICES ASSUME NEW p \in srv'.pending, NEW q \in srv'.pending,
                      p.conn = q.conn \/ p.id = q.id
               PROVE  p = q
    BY DEF OneEach
  <2>1. CASE p \in srv.pending /\ q \in srv.pending
    BY <2>1 DEF IInv, OneEach
  <2>2. CASE p \notin srv.pending \/ q \notin srv.pending
    <3>1. p.id = m.id \/ q.id = m.id
      BY <1>15, <2>2
    <3>2. p.conn = c \/ q.conn = c
      BY <1>15, <2>2
    <3>3. CASE m.type = "request"
      BY <1>11, <1>13, <1>15, <2>2, <3>1, <3>2, <3>3 DEF IInv, OneRequest, Requesting, fresh
    <3>4. CASE m.type # "request"
      <4>1. m.type = "status"
        BY <1>4, <3>4 DEF m, Questions
      <4>2. p.id = m.id /\ q.id = m.id /\ p.conn = c /\ q.conn = c
        BY <1>11, <1>15, <2>2, <3>1, <3>2, <4>1
      <4>3. p \notin srv.pending /\ q \notin srv.pending
        BY <1>1, <4>2 DEF IInv, OneRequest
      <4>4. /\ \E r \in srv.pending : r.id = p.id /\ p = [r EXCEPT !.conn = c]
            /\ \E r \in srv.pending : r.id = q.id /\ q = [r EXCEPT !.conn = c]
        BY <1>11, <3>4, <4>2, <4>3
      <4> QED BY <4>2, <4>4 DEF IInv, OneEach
    <3> QED BY <3>3, <3>4
  <2> QED BY <2>1, <2>2
<1>20. RequestIsBound'
  <2> SUFFICES ASSUME NEW p \in srv'.pending,
                      call'.pc = "waits", call'.id = p.id, call'.submitted,
                      net'[call'.conn].client = "open", net'[call'.conn].server = "open",
                      net'[call'.conn].up = <<>>, ~late'
               PROVE  p.conn = call'.conn
    BY DEF RequestIsBound
  <2>1. call' = call /\ call.conn \in Sockets /\ net[call.conn].to = "agent"
    BY <1>1 DEF IInv, Connected
  <2>2. CASE call.conn = c
    <3>1. p.id = m.id
      BY <1>1, <1>13, <2>1, <2>2 DEF IInv, OneRequest
    <3>2. CASE m.type = "request"
      <4>1. p \notin srv.pending
        BY <1>13, <3>1, <3>2 DEF IInv, OneRequest, Requesting
      <4> QED BY <1>15, <2>1, <2>2, <4>1
    <3>3. CASE m.type # "request"
      <4>1. m.type = "status"
        BY <1>4, <3>3 DEF m, Questions
      <4> QED BY <1>11, <2>1, <2>2, <3>1, <4>1
    <3> QED BY <3>2, <3>3
  <2>3. CASE call.conn # c
    <3>1. m.id # call.id /\ ~late
      BY <1>1, <2>1, <2>3 DEF m
    <3>2. p \in srv.pending
      BY <1>15, <2>1, <3>1
    <3> QED BY <1>10, <2>1, <2>3, <3>1, <3>2 DEF IInv, RequestIsBound
  <2> QED BY <2>2, <2>3
<1>21. OneSecret'
  <2> SUFFICES ASSUME ~spoiled PROVE ByPhone'
    BY <1>1 DEF OneSecret
  <2>1. ByPhone
    BY <1>13 DEF IInv, OneSecret, ByAgent, OnlyAgent
  <2>2. m.id = asked
    BY <1>13, <2>1 DEF ByPhone, OnlyPhone
  <2>3. \A p \in srv'.pending : p.id = asked
    BY <1>15, <2>1, <2>2 DEF ByPhone, OnlyPhone
  <2>4. /\ \A d \in Sockets : ~Asks(d, "phone")'
        /\ \A d \in Sockets : Asks(d, "agent")' => Head(net'[d].up).id = asked
    BY <1>14, <2>1 DEF ByPhone, OnlyPhone, Asks, Reading
  <2> QED BY <1>1, <2>1, <2>3, <2>4 DEF ByPhone, OnlyPhone, Holds, Reading
<1> QED BY <1>12, <1>16, <1>17, <1>18, <1>19, <1>20, <1>21 DEF IInv

-----------------------------------------------------------------------------
(* The clients. *)

LEMMA NoCallTyped == NoCall \in Calls /\ NoInit \in Inits
BY DEF NoCall, NoInit, Calls, Inits, Rows, Codings

\* A client that gives up hangs up.
LEMMA HungLess ==
  ASSUME IInv, NEW c \in Sockets \cup {0}, c # 0 => net[c].client # "new", net' = Hung(net, c)
  PROVE  net' \in Nets /\ LessNet
<1>1. /\ net' \in Nets
      /\ \A d \in Sockets : /\ net'[d].to = net[d].to /\ net'[d].up = net[d].up
                            /\ net'[d].server = net[d].server
                            /\ net'[d].client = IF d = c THEN "closed" ELSE net[d].client
  BY HungCloses DEF IInv, TypeOK
<1>2. 0 \notin Sockets
  BY DEF Sockets
<1> QED BY <1>1, <1>2 DEF LessNet

LEMMA OpenSheetSafe == ASSUME IInv, OpenSheet PROVE IInv'
<1>1. /\ call' = [call EXCEPT !.sheet = TRUE]
      /\ UNCHANGED <<agent, phone, srv, mob, init, net, asked, history, troubles>>
  BY DEF OpenSheet
<1>2. TypeOK'
  BY <1>1 DEF IInv, TypeOK, Calls, history
<1>3. LessNet /\ LessSrv /\ LessMob /\ LessCall /\ LessInit
  BY <1>1 DEF LessNet, LessSrv, LessMob, LessCall, LessInit, IInv, TypeOK, Calls
<1>4. SameHistory /\ SameTrust /\ late' = late /\ OneEach'
  BY <1>1 DEF SameHistory, SameTrust, history, IInv, OneEach
<1> QED BY <1>2, <1>3, <1>4, IInvByLess

LEMMA CallFailsSafe ==
  ASSUME IInv, call.pc # "idle", CallFails(net),
         UNCHANGED <<agent, phone, srv, mob, init, asked, history>>, troubles' \in Nat
  PROVE  IInv'
<1>1. call' = [NoCall EXCEPT !.sheet = TRUE] /\ net' = Hung(net, call.conn)
  BY DEF CallFails
<1>2. call' \in Calls /\ call'.pc = "idle"
  BY <1>1, NoCallTyped DEF Calls, NoCall
<1>3. net' \in Nets /\ LessNet
  BY <1>1, HungLess DEF IInv, Connected
<1>4. TypeOK'
  BY <1>2, <1>3 DEF IInv, TypeOK, history
<1>5. LessSrv /\ LessMob /\ LessCall /\ LessInit
  BY <1>2 DEF LessSrv, LessMob, LessCall, LessInit
<1>6. SameHistory /\ SameTrust /\ late' = late /\ OneEach'
  BY DEF SameHistory, SameTrust, history, IInv, OneEach
<1> QED BY <1>3, <1>4, <1>5, <1>6, IInvByLess

LEMMA CallTimesOutSafe == ASSUME IInv, CallTimesOut PROVE IInv'
<1>1. troubles' \in Nat /\ call.pc # "idle"
  BY DEF CallTimesOut, IInv, TypeOK
<1> QED BY <1>1, CallFailsSafe DEF CallTimesOut

LEMMA CallSaveFailsSafe == ASSUME IInv, CallSaveFails PROVE IInv'
<1>1. troubles' \in Nat /\ call.pc # "idle"
  BY DEF CallSaveFails, Trouble, IInv, TypeOK
<1> QED BY <1>1, CallFailsSafe DEF CallSaveFails

LEMMA CallReceivesSafe == ASSUME IInv, CallReceives PROVE IInv'
<1>1. /\ call.pc = "waits" /\ troubles' \in Nat
      /\ UNCHANGED <<agent, phone, srv, mob, init, asked, history, troubles>>
  BY DEF CallReceives, IInv, TypeOK
<1>2. CASE CallFails(net)
  BY <1>1, <1>2, CallFailsSafe
<1>3. CASE call' = [call EXCEPT !.pc = "saves"] /\ net' = Hung(net, call.conn)
  <2>1. call' \in Calls /\ LessCall
    BY <1>1, <1>3 DEF IInv, TypeOK, Calls, LessCall
  <2>2. net' \in Nets /\ LessNet
    BY <1>1, <1>3, HungLess DEF IInv, Connected
  <2>3. TypeOK'
    BY <1>1, <2>1, <2>2 DEF IInv, TypeOK, history
  <2>4. LessSrv /\ LessMob /\ LessInit
    BY <1>1 DEF LessSrv, LessMob, LessInit
  <2>5. SameHistory /\ SameTrust /\ late' = late /\ OneEach'
    BY <1>1 DEF SameHistory, SameTrust, history, IInv, OneEach
  <2> QED BY <2>1, <2>2, <2>3, <2>4, <2>5, IInvByLess
<1> QED BY <1>2, <1>3 DEF CallReceives

LEMMA CallSavesSafe == ASSUME IInv, CallSaves PROVE IInv'
<1>1. /\ call.pc = "saves" /\ phone' = [row |-> Kept(call.known), secret |-> call.id]
      /\ taken' = taken \cup {call.id} /\ call' = NoCall
      /\ UNCHANGED <<agent, srv, mob, init, net, asked, given, spoiled, late, troubles>>
  BY DEF CallSaves
<1>2. /\ phone' \in [row : Rows, secret : Nat] /\ phone'.row # "none" /\ phone'.secret = call.id
      /\ call.id \in Nat /\ call.id <= asked
  BY <1>1, KeptTrusts DEF IInv, TypeOK, Calls, Numbered
<1>3. TypeOK'
  BY <1>1, <1>2, NoCallTyped DEF IInv, TypeOK
<1>4. LessNet /\ LessSrv /\ LessMob /\ LessCall /\ LessInit
  BY <1>1 DEF LessNet, LessSrv, LessMob, LessCall, LessInit, NoCall
<1>5. Connected' /\ OneRequest' /\ OneEach' /\ RequestIsBound'
  BY <1>1, <1>3, <1>4, ConnectedByLess, OneRequestByLess, BoundByLess DEF IInv, OneEach
<1>6. Numbered'
  <2>1. \A id \in given' \cup taken' : id <= asked
    BY <1>1, <1>2 DEF IInv, Numbered
  <2> QED BY <1>1, <1>3, <1>4, <2>1, NumberedByLess DEF IInv
<1>7. OneSecret'
  <2> SUFFICES ASSUME ~spoiled' PROVE ByPhone'
    BY DEF OneSecret
  <2>1. OnlyPhone /\ (asked \in given => Holds(agent)) /\ call.id = asked
    BY <1>1 DEF IInv, OneSecret, ByPhone, ByAgent, OnlyPhone, OnlyAgent
  <2>2. OnlyPhone'
    BY <1>1, <1>3, <1>4, <2>1, OnlyByLess DEF IInv
  <2>3. Holds(phone)' /\ (Holds(agent) => Holds(agent)')
    BY <1>1, <1>2, <2>1 DEF Holds
  <2> QED BY <1>1, <2>1, <2>2, <2>3 DEF ByPhone
<1> QED BY <1>3, <1>5, <1>6, <1>7 DEF IInv

LEMMA InitFailsSafe ==
  ASSUME IInv, init.pc = "waits", InitFails(net), agent' \in [row : Rows, secret : Nat], SameTrust,
         UNCHANGED <<phone, srv, mob, call, asked, given, taken, late>>,
         spoiled' \in BOOLEAN, troubles' \in Nat
  PROVE  IInv'
<1>1. init' = NoInit /\ net' = Hung(net, init.conn)
  BY DEF InitFails
<1>2. init' \in Inits /\ init'.pc = "idle"
  BY <1>1, NoCallTyped DEF Inits, NoInit
<1>3. net' \in Nets /\ LessNet
  BY <1>1, HungLess DEF IInv, Connected
<1>4. TypeOK'
  BY <1>2, <1>3 DEF IInv, TypeOK
<1>5. LessSrv /\ LessMob /\ LessCall /\ LessInit
  BY <1>2 DEF LessSrv, LessMob, LessCall, LessInit
<1>6. SameHistory /\ OneEach'
  BY DEF SameHistory, IInv, OneEach
<1> QED BY <1>3, <1>4, <1>5, <1>6, IInvByLess

LEMMA InitTimesOutSafe == ASSUME IInv, InitTimesOut PROVE IInv'
<1>1. /\ init.pc = "waits" /\ InitFails(net)
      /\ UNCHANGED <<agent, phone, srv, mob, call, asked, given, taken, spoiled, late, troubles>>
  BY DEF InitTimesOut, history
<1>2. /\ agent' \in [row : Rows, secret : Nat] /\ spoiled' \in BOOLEAN /\ troubles' \in Nat
      /\ SameTrust
  BY <1>1 DEF IInv, TypeOK, SameTrust
<1> QED BY <1>1, <1>2, InitFailsSafe

LEMMA InitReceivesSafe == ASSUME IInv, InitReceives PROVE IInv'
<1>1. /\ init.pc = "waits" /\ InitFails(net) /\ init.id \in Nat /\ init.id <= asked
      /\ UNCHANGED <<phone, srv, mob, call, asked, given, late>>
  BY DEF InitReceives, IInv, TypeOK, Inits, Numbered
<1>2. CASE UNCHANGED <<agent, taken, spoiled, troubles>>
  <2>1. /\ agent' \in [row : Rows, secret : Nat] /\ spoiled' \in BOOLEAN /\ troubles' \in Nat
        /\ SameTrust
    BY <1>1, <1>2 DEF IInv, TypeOK, SameTrust
  <2> QED BY <1>1, <1>2, <2>1, InitFailsSafe
<1>3. CASE Trouble /\ agent' = [agent EXCEPT !.secret = init.id] /\ spoiled' = TRUE /\ UNCHANGED taken
  <2>1. /\ agent' \in [row : Rows, secret : Nat] /\ spoiled' \in BOOLEAN /\ troubles' \in Nat
        /\ SameTrust
    BY <1>1, <1>3 DEF IInv, TypeOK, SameTrust, Trouble
  <2> QED BY <1>1, <1>3, <2>1, InitFailsSafe
<1>4. CASE InitStores /\ taken' = taken \cup {init.id} /\ UNCHANGED <<spoiled, troubles>>
  <2>1. /\ agent' \in [row : Rows, secret : Nat] /\ agent'.row # "none" /\ agent'.secret = init.id
    BY <1>1, <1>4, KeptTrusts DEF IInv, TypeOK, InitStores
  <2>2. init' = NoInit /\ init' \in Inits /\ init'.pc = "idle"
    BY <1>1, NoCallTyped DEF InitFails, Inits, NoInit
  <2>3. net' \in Nets /\ LessNet
    BY <1>1, HungLess DEF IInv, Connected, InitFails
  <2>4. TypeOK'
    BY <1>1, <1>4, <2>1, <2>2, <2>3 DEF IInv, TypeOK
  <2>5. LessSrv /\ LessMob /\ LessCall /\ LessInit
    BY <1>1, <2>2 DEF LessSrv, LessMob, LessCall, LessInit
  <2>6. Connected' /\ OneRequest' /\ OneEach' /\ RequestIsBound'
    BY <1>1, <2>3, <2>4, <2>5, ConnectedByLess, OneRequestByLess, BoundByLess DEF IInv, OneEach
  <2>7. Numbered'
    <3>1. \A id \in given' \cup taken' : id <= asked
      BY <1>1, <1>4 DEF IInv, Numbered
    <3> QED BY <1>1, <2>3, <2>4, <2>5, <3>1, NumberedByLess DEF IInv
  <2>8. OneSecret'
    <3> SUFFICES ASSUME ~spoiled' PROVE ByAgent'
      BY DEF OneSecret
    <3>1. OnlyAgent /\ (asked \in given => Holds(phone)) /\ init.id = asked
      BY <1>1, <1>4 DEF IInv, OneSecret, ByPhone, ByAgent, OnlyPhone, OnlyAgent
    <3>2. OnlyAgent'
      BY <1>1, <2>3, <2>4, <2>5, <3>1, OnlyByLess DEF IInv
    <3>3. Holds(agent)' /\ (Holds(phone) => Holds(phone)')
      BY <1>1, <2>1, <3>1 DEF Holds
    <3> QED BY <1>1, <3>1, <3>2, <3>3 DEF ByAgent
  <2> QED BY <2>4, <2>6, <2>7, <2>8 DEF IInv
<1> QED BY <1>2, <1>3, <1>4 DEF InitReceives

(* A connection that is dialled carries nothing yet. *)
LEMMA DialledKeeps ==
  ASSUME TypeOK, Fresh # {}, NEW to \in {"agent", "phone"}
  PROVE  /\ Dial \in Sockets /\ net[Dial] = NewSocket
         /\ Dialled(net, to) \in Nets
         /\ Dialled(net, to)[Dial].to = to /\ Dialled(net, to)[Dial].client = "opening"
         /\ Dialled(net, to)[Dial].up = <<>>
         /\ \A d \in Sockets : d # Dial => Dialled(net, to)[d] = net[d]
<1>1. Dial \in Fresh
  BY DEF Dial
<1>2. Dial \in Sockets /\ net[Dial] = NewSocket /\ net \in Nets
  BY <1>1 DEF Fresh, TypeOK
<1> DEFINE r == [net[Dial] EXCEPT !.to = to, !.client = "opening"]
<1>3. r \in Connections /\ r.to = to /\ r.client = "opening" /\ r.up = <<>>
  <2>1. net[Dial] \in Connections
    BY <1>2 DEF Nets
  <2>2. net[Dial].up = <<>>
    BY <1>2 DEF NewSocket
  <2> QED BY <2>1, <2>2 DEF Connections
<1>4. Dialled(net, to) = [net EXCEPT ![Dial] = r]
  BY DEF Dialled
<1> HIDE DEF r
<1> QED BY <1>2, <1>3, <1>4 DEF Nets

\* What holds of every connection still holds when one is dialled.
LEMMA DialledQuestions ==
  ASSUME IInv, Fresh # {}, NEW to \in {"agent", "phone"}, net' = Dialled(net, to)
  PROVE  /\ net' \in Nets /\ Dial \in Sockets
         /\ net'[Dial].up = <<>> /\ net'[Dial].to = to /\ net'[Dial].client = "opening"
         /\ \A c \in Sockets : net'[c].up # <<>> => c # Dial /\ net'[c] = net[c]
         /\ \A c \in Sockets : net[c].client # "new" => c # Dial /\ net'[c] = net[c]
         /\ \A p \in srv.pending :
              net'[p.conn].up = <<>> /\ net'[p.conn].client \in {"open", "closed"}
<1>1. /\ Dial \in Sockets /\ net[Dial] = NewSocket
      /\ net' \in Nets /\ net'[Dial].to = to /\ net'[Dial].client = "opening" /\ net'[Dial].up = <<>>
      /\ \A d \in Sockets : d # Dial => net'[d] = net[d]
  BY DialledKeeps DEF IInv
<1>2. \A c \in Sockets : net[c].client # "new" => c # Dial /\ net'[c] = net[c]
  BY <1>1 DEF NewSocket
<1>3. \A p \in srv.pending : p.conn \in Sockets
  BY DEF IInv, TypeOK, Servers, Pendings
<1>4. \A p \in srv.pending : net'[p.conn].up = <<>> /\ net'[p.conn].client \in {"open", "closed"}
  BY <1>2, <1>3 DEF IInv, OneRequest
<1> QED BY <1>1, <1>2, <1>4

LEMMA PendingTyped ==
  ASSUME TypeOK
  PROVE  /\ \A p \in srv.pending : p.id \in Nat
         /\ \A i \in DOMAIN mob.pending : mob.pending[i].id \in Nat
<1>1. srv.pending \in SUBSET Pendings
  BY DEF TypeOK, Servers
<1>2. mob.pending \in Seq(Pendings)
  BY DEF TypeOK, Mobiles
<1>3. \A i \in DOMAIN mob.pending : mob.pending[i] \in Pendings
  BY <1>2
<1> QED BY <1>1, <1>3 DEF Pendings

\* Nothing is under way when a request is pressed that nothing disturbs.
LEMMA Undisturbed ==
  ASSUME IInv, ~Disturbed
  PROVE  /\ mob.pending = <<>> /\ mob.saving = {} /\ srv.pending = {}
         /\ init.pc = "idle" /\ call.pc = "idle"
         /\ \A c \in Sockets : net[c].up = <<>>
BY DEF IInv, Disturbed, Connected

LEMMA PhonePressesSafe ==
  ASSUME IInv, NEW code \in Codes, PhonePresses(code) PROVE IInv'
<1>1. /\ call.pc = "idle" /\ Fresh # {} /\ asked' = asked + 1
      /\ call' = [call EXCEPT !.pc = "waits", !.id = asked + 1, !.left = ClientWait, !.code = code,
                              !.conn = Dial, !.submitted = FALSE, !.known = phone.row]
      /\ net' = Dialled(net, "agent") /\ spoiled' = Disturbed
      /\ UNCHANGED <<agent, phone, srv, mob, init, given, taken, late, troubles>>
  BY DEF PhonePresses
<1>2. /\ net' \in Nets /\ Dial \in Sockets
      /\ net'[Dial].up = <<>> /\ net'[Dial].to = "agent" /\ net'[Dial].client = "opening"
      /\ \A c \in Sockets : net'[c].up # <<>> => c # Dial /\ net'[c] = net[c]
      /\ \A c \in Sockets : net[c].client # "new" => c # Dial /\ net'[c] = net[c]
      /\ \A p \in srv.pending : net'[p.conn].up = <<>> /\ net'[p.conn].client \in {"open", "closed"}
  BY <1>1, DialledQuestions
<1>3. /\ call' \in Calls /\ call'.pc = "waits" /\ call'.id = asked + 1 /\ call'.conn = Dial
      /\ ~call'.submitted
  <2>1. ClientWait \in Nat
    BY PairingAssumption DEF PairingAssumption
  <2>2. asked + 1 \in Nat /\ call \in Calls /\ phone.row \in Rows
    BY DEF IInv, TypeOK
  <2> QED BY <1>1, <1>2, <2>1, <2>2 DEF Calls, Codings
<1>4. spoiled' \in BOOLEAN /\ asked \in Nat
  BY <1>1 DEF Disturbed, IInv, TypeOK
<1>5. TypeOK'
  BY <1>1, <1>2, <1>3, <1>4 DEF IInv, TypeOK
<1>6. Connected'
  BY <1>1, <1>2, <1>3 DEF IInv, Connected
<1>7. Numbered'
  <2>1. /\ \A p \in srv.pending : p.id \in Nat
        /\ \A i \in DOMAIN mob.pending : mob.pending[i].id \in Nat
    BY PendingTyped DEF IInv
  <2>2. \A c \in Sockets : net[c].up # <<>> => Reading(c).id \in Nat
    BY ReadKeeps DEF IInv, TypeOK, Reading, Questions
  <2>3. \A id \in mob.saving \cup given \cup taken : id \in Nat
    BY DEF IInv, TypeOK, Mobiles
  <2>4. init.id \in Nat
    BY DEF IInv, TypeOK, Inits
  <2>5. \A n \in Nat : n <= asked => n <= asked'
    BY <1>1, <1>4
  <2>6. /\ \A p \in srv'.pending : p.id <= asked'
        /\ \A i \in DOMAIN mob'.pending : mob'.pending[i].id <= asked'
        /\ \A id \in mob'.saving \cup given' \cup taken' : id <= asked'
        /\ init'.pc # "idle" => init'.id <= asked'
        /\ call'.id <= asked'
    BY <1>1, <1>3, <1>4, <2>1, <2>3, <2>4, <2>5 DEF IInv, Numbered
  <2>7. \A c \in Sockets : net'[c].up # <<>> => Head(net'[c].up).id <= asked'
    BY <1>2, <2>2, <2>5 DEF IInv, Numbered, Reading
  <2> QED BY <2>6, <2>7 DEF Numbered, Reading
<1>8. \A id \in Nat : id <= asked => id # asked + 1
  BY <1>4
<1>9. OneRequest'
  <2>1. /\ \A c \in Sockets : Requesting(c)' => \A p \in srv'.pending : p.id # Head(net'[c].up).id
        /\ \A c, d \in Sockets :
             Requesting(c)' /\ Requesting(d)' /\ Head(net'[c].up).id = Head(net'[d].up).id => c = d
    BY <1>1, <1>2 DEF IInv, OneRequest, Requesting, Asks, Reading
  <2>2. \A p \in srv'.pending : p.id # call'.id
    BY <1>1, <1>3, <1>8 DEF IInv, Numbered, TypeOK, Servers, Pendings
  <2>3. \A c \in Sockets : net[c].up # <<>> => Reading(c).id \in Nat
    BY ReadKeeps DEF IInv, TypeOK, Reading, Questions
  <2>4. \A c \in Sockets : Asks(c, "agent")' => Head(net'[c].up).id # call'.id
    BY <1>2, <1>3, <1>8, <2>3 DEF IInv, Numbered, Asks, Reading
  <2> QED BY <1>1, <1>2, <1>3, <2>1, <2>2, <2>4 DEF OneRequest, Reading
<1>10. OneEach' /\ RequestIsBound'
  BY <1>1, <1>3 DEF IInv, OneEach, RequestIsBound
<1>11. OneSecret'
  <2> SUFFICES ASSUME ~spoiled' PROVE ByPhone'
    BY DEF OneSecret
  <2>1. /\ mob.pending = <<>> /\ mob.saving = {} /\ srv.pending = {}
        /\ init.pc = "idle" /\ \A c \in Sockets : net[c].up = <<>>
    BY <1>1, Undisturbed
  <2>2. \A c \in Sockets : net'[c].up = <<>>
    BY <1>2, <2>1
  <2>3. asked' \notin given' /\ asked' \notin taken'
    BY <1>1, <1>8 DEF IInv, Numbered, TypeOK
  <2> QED BY <1>1, <1>3, <2>1, <2>2, <2>3 DEF ByPhone, OnlyPhone, Asks
<1> QED BY <1>5, <1>6, <1>7, <1>9, <1>10, <1>11 DEF IInv

LEMMA AgentPressesSafe ==
  ASSUME IInv, NEW code \in Codes, AgentPresses(code) PROVE IInv'
<1>1. /\ init.pc = "idle" /\ Fresh # {} /\ asked' = asked + 1
      /\ init' = [pc |-> "waits", id |-> asked + 1, left |-> ClientWait, code |-> code, conn |-> Dial]
      /\ net' = Dialled(net, "phone") /\ spoiled' = Disturbed
      /\ UNCHANGED <<agent, phone, srv, mob, call, given, taken, late, troubles>>
  BY DEF AgentPresses
<1>2. /\ net' \in Nets /\ Dial \in Sockets
      /\ net'[Dial].up = <<>> /\ net'[Dial].to = "phone" /\ net'[Dial].client = "opening"
      /\ \A c \in Sockets : net'[c].up # <<>> => c # Dial /\ net'[c] = net[c]
      /\ \A c \in Sockets : net[c].client # "new" => c # Dial /\ net'[c] = net[c]
      /\ \A p \in srv.pending : net'[p.conn].up = <<>> /\ net'[p.conn].client \in {"open", "closed"}
  BY <1>1, DialledQuestions
<1>3. init' \in Inits /\ init'.pc = "waits" /\ init'.id = asked + 1 /\ init'.conn = Dial
  BY <1>1, <1>2, PairingAssumption DEF PairingAssumption, IInv, TypeOK, Inits, Codings
<1>4. spoiled' \in BOOLEAN /\ asked \in Nat
  BY <1>1 DEF Disturbed, IInv, TypeOK
<1>5. TypeOK'
  BY <1>1, <1>2, <1>3, <1>4 DEF IInv, TypeOK
<1>6. Connected'
  BY <1>1, <1>2, <1>3 DEF IInv, Connected
<1>7. Numbered'
  <2>1. /\ \A p \in srv.pending : p.id \in Nat
        /\ \A i \in DOMAIN mob.pending : mob.pending[i].id \in Nat
    BY PendingTyped DEF IInv
  <2>2. \A c \in Sockets : net[c].up # <<>> => Reading(c).id \in Nat
    BY ReadKeeps DEF IInv, TypeOK, Reading, Questions
  <2>3. \A id \in mob.saving \cup given \cup taken : id \in Nat
    BY DEF IInv, TypeOK, Mobiles
  <2>4. call.id \in Nat
    BY DEF IInv, TypeOK, Calls
  <2>5. \A n \in Nat : n <= asked => n <= asked'
    BY <1>1, <1>4
  <2>6. /\ \A p \in srv'.pending : p.id <= asked'
        /\ \A i \in DOMAIN mob'.pending : mob'.pending[i].id <= asked'
        /\ \A id \in mob'.saving \cup given' \cup taken' : id <= asked'
        /\ call'.pc # "idle" => call'.id <= asked'
        /\ init'.id <= asked'
    BY <1>1, <1>3, <1>4, <2>1, <2>3, <2>4, <2>5 DEF IInv, Numbered
  <2>7. \A c \in Sockets : net'[c].up # <<>> => Head(net'[c].up).id <= asked'
    BY <1>2, <2>2, <2>5 DEF IInv, Numbered, Reading
  <2> QED BY <2>6, <2>7 DEF Numbered, Reading
<1>8. call.pc # "idle" => call.conn \in Sockets /\ net'[call.conn] = net[call.conn]
  BY <1>2 DEF IInv, Connected
<1>9. OneRequest'
  BY <1>1, <1>2, <1>8 DEF IInv, OneRequest, Requesting, Asks, Reading
<1>10. OneEach' /\ RequestIsBound'
  BY <1>1, <1>8 DEF IInv, OneEach, RequestIsBound
<1>11. OneSecret'
  <2> SUFFICES ASSUME ~spoiled' PROVE ByAgent'
    BY DEF OneSecret
  <2>1. /\ mob.pending = <<>> /\ mob.saving = {} /\ srv.pending = {}
        /\ call.pc = "idle" /\ \A c \in Sockets : net[c].up = <<>>
    BY <1>1, Undisturbed
  <2>2. \A c \in Sockets : net'[c].up = <<>>
    BY <1>2, <2>1
  <2>3. \A id \in Nat : id <= asked => id # asked + 1
    BY <1>4
  <2>4. asked' \notin given' /\ asked' \notin taken'
    BY <1>1, <2>3 DEF IInv, Numbered, TypeOK
  <2>5. DOMAIN mob.pending = {}
    BY <2>1
  <2> QED BY <1>1, <1>3, <2>1, <2>2, <2>4, <2>5 DEF ByAgent, OnlyAgent, Asks
<1> QED BY <1>5, <1>6, <1>7, <1>9, <1>10, <1>11 DEF IInv

LEMMA CallReconnectsSafe == ASSUME IInv, CallReconnects PROVE IInv'
<1>1. /\ call.pc = "waits" /\ Fresh # {} /\ call' = [call EXCEPT !.conn = Dial]
      /\ net' = Dialled(net, "agent")
      /\ UNCHANGED <<agent, phone, srv, mob, init, asked, given, taken, spoiled, late, troubles>>
  BY DEF CallReconnects, history
<1>2. /\ net' \in Nets /\ Dial \in Sockets
      /\ net'[Dial].up = <<>> /\ net'[Dial].to = "agent" /\ net'[Dial].client = "opening"
      /\ \A c \in Sockets : net'[c].up # <<>> => c # Dial /\ net'[c] = net[c]
      /\ \A c \in Sockets : net[c].client # "new" => c # Dial /\ net'[c] = net[c]
      /\ \A p \in srv.pending : net'[p.conn].up = <<>> /\ net'[p.conn].client \in {"open", "closed"}
  BY <1>1, DialledQuestions
<1>3. /\ call' \in Calls /\ call'.pc = "waits" /\ call'.id = call.id /\ call'.conn = Dial
      /\ call'.submitted = call.submitted
  BY <1>1, <1>2 DEF IInv, TypeOK, Calls
<1>4. TypeOK'
  BY <1>1, <1>2, <1>3 DEF IInv, TypeOK
<1>5. Connected'
  BY <1>1, <1>2, <1>3 DEF IInv, Connected
<1>6. Numbered'
  BY <1>1, <1>2, <1>3 DEF IInv, Numbered, Reading
<1>7. OneRequest'
  BY <1>1, <1>2, <1>3 DEF IInv, OneRequest, Requesting, Asks, Reading
<1>8. OneEach' /\ RequestIsBound'
  BY <1>1, <1>2, <1>3 DEF IInv, OneEach, RequestIsBound
<1>9. OneSecret'
  <2> SUFFICES ASSUME ~spoiled' PROVE ByPhone'
    BY DEF OneSecret
  <2>1. ByPhone
    BY <1>1 DEF IInv, OneSecret, ByAgent, OnlyAgent
  <2> QED BY <1>1, <1>2, <1>3, <2>1 DEF ByPhone, OnlyPhone, Asks, Reading, Holds
<1> QED BY <1>4, <1>5, <1>6, <1>7, <1>8, <1>9 DEF IInv

\* A connection opens with one question.
LEMMA OpenedKeeps ==
  ASSUME TypeOK, NEW c \in Sockets, NEW q \in Questions,
         net' = [net EXCEPT ![c] = [@ EXCEPT !.client = "open", !.server = "open", !.up = <<q>>]]
  PROVE  /\ net' \in Nets
         /\ net'[c].up = <<q>> /\ Head(net'[c].up) = q /\ net'[c].up # <<>>
         /\ net'[c].to = net[c].to /\ net'[c].client = "open" /\ net'[c].server = "open"
         /\ \A d \in Sockets : d # c => net'[d] = net[d]
<1>1. net[c] \in Connections /\ net \in Nets
  BY DEF TypeOK, Nets
<1> DEFINE r == [net[c] EXCEPT !.client = "open", !.server = "open", !.up = <<q>>]
<1>2. /\ r \in Connections /\ r.up = <<q>> /\ r.to = net[c].to
      /\ r.client = "open" /\ r.server = "open"
  BY <1>1 DEF Connections, Carried
<1> HIDE DEF r
<1>3. net' = [net EXCEPT ![c] = r]
  BY DEF r
<1> QED BY <1>1, <1>2, <1>3 DEF Nets

LEMMA CallOpensSafe == ASSUME IInv, CallOpens PROVE IInv'
<1> DEFINE c == call.conn
           q == IF call.submitted THEN [type |-> "status", id |-> call.id]
                ELSE [type |-> "request", id |-> call.id, code |-> call.code]
<1>1. /\ call.pc = "waits" /\ net[c].client = "opening"
      /\ net' = [net EXCEPT ![c] = [@ EXCEPT !.client = "open", !.server = "open", !.up = <<q>>]]
      /\ call' = [call EXCEPT !.submitted = TRUE]
      /\ UNCHANGED <<agent, phone, srv, mob, init, asked, given, taken, spoiled, late, troubles>>
  BY DEF CallOpens, history
<1>2. /\ c \in Sockets /\ net[c].to = "agent" /\ net[c].up = <<>>
      /\ call.id \in Nat /\ call.id <= asked
  BY <1>1 DEF IInv, Connected, Numbered, TypeOK, Calls
<1>3. /\ q \in Questions /\ q.id = call.id
      /\ q.type = "request" => ~call.submitted
  BY <1>2 DEF IInv, TypeOK, Calls, Questions
<1>4. /\ call' \in Calls /\ call'.pc = "waits" /\ call'.id = call.id /\ call'.conn = c
      /\ call'.submitted
  BY <1>1 DEF IInv, TypeOK, Calls
<1> HIDE DEF q
<1>5. /\ net' \in Nets
      /\ net'[c].up = <<q>> /\ Head(net'[c].up) = q /\ net'[c].up # <<>>
      /\ net'[c].to = net[c].to /\ net'[c].client = "open" /\ net'[c].server = "open"
      /\ \A d \in Sockets : d # c => net'[d] = net[d]
  BY <1>1, <1>2, <1>3, OpenedKeeps DEF IInv
<1>6. \A p \in srv.pending : p.conn \in Sockets /\ p.conn # c
  BY <1>1 DEF IInv, TypeOK, Servers, Pendings, OneRequest
<1>7. TypeOK'
  BY <1>1, <1>4, <1>5 DEF IInv, TypeOK
<1>8. Connected'
  BY <1>1, <1>2, <1>4, <1>5 DEF IInv, Connected
<1>9. Numbered'
  BY <1>1, <1>2, <1>3, <1>4, <1>5 DEF IInv, Numbered, Reading
<1>10. OneRequest'
  <2>1. ASSUME NEW d \in Sockets, Requesting(d)'
        PROVE  \/ d = c /\ Head(net'[d].up) = q /\ ~call.submitted
               \/ d # c /\ Requesting(d) /\ Head(net'[d].up) = Reading(d)
    BY <1>3, <1>5, <2>1 DEF Requesting, Asks, Reading
  <2>2. \A d \in Sockets : Requesting(d)' => \A p \in srv'.pending : p.id # Head(net'[d].up).id
    BY <1>1, <1>3, <2>1 DEF IInv, OneRequest
  <2>3. \A d, e \in Sockets :
          Requesting(d)' /\ Requesting(e)' /\ Head(net'[d].up).id = Head(net'[e].up).id => d = e
    <3>1. \A d \in Sockets : Requesting(d) /\ ~call.submitted => Reading(d).id # call.id
      BY <1>1 DEF IInv, OneRequest, Requesting
    <3> QED BY <1>3, <2>1, <3>1 DEF IInv, OneRequest
  <2>4. \A p \in srv'.pending : net'[p.conn].up = <<>> /\ net'[p.conn].client \in {"open", "closed"}
    BY <1>1, <1>5, <1>6 DEF IInv, OneRequest
  <2> QED BY <1>3, <1>4, <1>5, <2>2, <2>3, <2>4 DEF OneRequest, Reading
<1>11. OneEach' /\ RequestIsBound'
  BY <1>1, <1>4, <1>5 DEF IInv, OneEach, RequestIsBound
<1>12. OneSecret'
  <2> SUFFICES ASSUME ~spoiled' PROVE ByPhone'
    BY DEF OneSecret
  <2>1. ByPhone
    BY <1>1 DEF IInv, OneSecret, ByAgent, OnlyAgent
  <2>2. /\ \A d \in Sockets : ~Asks(d, "phone")'
        /\ \A d \in Sockets : Asks(d, "agent")' => Head(net'[d].up).id = asked
    BY <1>1, <1>2, <1>3, <1>5, <2>1 DEF ByPhone, OnlyPhone, Asks, Reading
  <2> QED BY <1>1, <1>4, <2>1, <2>2 DEF ByPhone, OnlyPhone, Reading, Holds
<1> QED BY <1>7, <1>8, <1>9, <1>10, <1>11, <1>12 DEF IInv

LEMMA InitOpensSafe == ASSUME IInv, InitOpens PROVE IInv'
<1> DEFINE c == init.conn
           q == [type |-> "request", id |-> init.id, code |-> init.code]
<1>1. /\ init.pc = "waits" /\ net[c].client = "opening"
      /\ net' = [net EXCEPT ![c] = [@ EXCEPT !.client = "open", !.server = "open", !.up = <<q>>]]
      /\ UNCHANGED <<agent, phone, srv, mob, call, init, asked, given, taken, spoiled, late, troubles>>
  BY DEF InitOpens, history
<1>2. /\ c \in Sockets /\ net[c].to = "phone" /\ net[c].up = <<>>
      /\ init.id \in Nat /\ init.id <= asked
  BY <1>1 DEF IInv, Connected, Numbered, TypeOK, Inits
<1>3. q \in Questions /\ q.id = init.id
  BY <1>2 DEF IInv, TypeOK, Inits, Questions
<1> HIDE DEF q
<1>4. /\ net' \in Nets
      /\ net'[c].up = <<q>> /\ Head(net'[c].up) = q /\ net'[c].up # <<>>
      /\ net'[c].to = net[c].to /\ net'[c].client = "open" /\ net'[c].server = "open"
      /\ \A d \in Sockets : d # c => net'[d] = net[d]
  BY <1>1, <1>2, <1>3, OpenedKeeps DEF IInv
<1>5. \A p \in srv.pending : p.conn \in Sockets /\ p.conn # c
  BY <1>1 DEF IInv, TypeOK, Servers, Pendings, OneRequest
<1>6. call.pc # "idle" => call.conn \in Sockets /\ call.conn # c /\ net'[call.conn] = net[call.conn]
  BY <1>2, <1>4 DEF IInv, Connected
<1>7. TypeOK'
  BY <1>1, <1>4 DEF IInv, TypeOK
<1>8. Connected'
  BY <1>1, <1>2, <1>4 DEF IInv, Connected
<1>9. Numbered'
  BY <1>1, <1>2, <1>3, <1>4 DEF IInv, Numbered, Reading
<1>10. OneRequest'
  <2>1. ASSUME NEW d \in Sockets, Asks(d, "agent")' PROVE d # c /\ net'[d] = net[d]
    BY <1>2, <1>4, <2>1 DEF Asks
  <2>2. /\ \A d \in Sockets : Requesting(d)' => \A p \in srv'.pending : p.id # Head(net'[d].up).id
        /\ \A d, e \in Sockets :
             Requesting(d)' /\ Requesting(e)' /\ Head(net'[d].up).id = Head(net'[e].up).id => d = e
    BY <1>1, <2>1 DEF IInv, OneRequest, Requesting, Asks, Reading
  <2>3. call'.pc = "waits" /\ ~call'.submitted =>
          /\ \A p \in srv'.pending : p.id # call'.id
          /\ \A d \in Sockets : Asks(d, "agent")' => Head(net'[d].up).id # call'.id
    BY <1>1, <2>1 DEF IInv, OneRequest, Asks, Reading
  <2>4. /\ call'.pc = "waits" /\ net'[call'.conn].up # <<>> => Head(net'[call'.conn].up).id = call'.id
        /\ \A p \in srv'.pending : net'[p.conn].up = <<>> /\ net'[p.conn].client \in {"open", "closed"}
    BY <1>1, <1>4, <1>5, <1>6 DEF IInv, OneRequest, Reading
  <2> QED BY <2>2, <2>3, <2>4 DEF OneRequest, Reading
<1>11. OneEach' /\ RequestIsBound'
  BY <1>1, <1>6 DEF IInv, OneEach, RequestIsBound
<1>12. OneSecret'
  <2> SUFFICES ASSUME ~spoiled' PROVE ByAgent'
    BY DEF OneSecret
  <2>1. ByAgent
    BY <1>1 DEF IInv, OneSecret, ByPhone, OnlyPhone
  <2>2. /\ \A d \in Sockets : ~Asks(d, "agent")'
        /\ \A d \in Sockets : Asks(d, "phone")' => Head(net'[d].up).id = asked
    BY <1>1, <1>2, <1>3, <1>4, <2>1 DEF ByAgent, OnlyAgent, Asks, Reading
  <2> QED BY <1>1, <2>1, <2>2 DEF ByAgent, OnlyAgent, Reading, Holds
<1> QED BY <1>7, <1>8, <1>9, <1>10, <1>11, <1>12 DEF IInv

-----------------------------------------------------------------------------
(* The phone serves. *)

LEMMA PhoneSweptWorld ==
  ASSUME TypeOK
  PROVE  /\ PhoneSwept(PhoneWorld).m \in Mobiles /\ PhoneSwept(PhoneWorld).m.saving = mob.saving
         /\ PhoneSwept(PhoneWorld).m.prompt = mob.prompt
         /\ ToSet(PhoneSwept(PhoneWorld).m.pending) \subseteq ToSet(mob.pending)
         /\ PhoneSwept(PhoneWorld).n \in Nets /\ SameQuestions(net, PhoneSwept(PhoneWorld).n)
<1>1. PhoneWorld.m = mob /\ PhoneWorld.n = net /\ mob \in Mobiles /\ net \in Nets
  BY DEF PhoneWorld, TypeOK
<1> QED BY <1>1, PhoneSweptKeeps

LEMMA RemovedElements ==
  ASSUME NEW s \in Seq(Pendings), NEW i \in DOMAIN s
  PROVE  RemoveAt(s, i) \in Seq(Pendings) /\ ToSet(RemoveAt(s, i)) \subseteq ToSet(s)
<1> DEFINE a == SubSeq(s, 1, i - 1)
           b == SubSeq(s, i + 1, Len(s))
<1>1. i \in 1..Len(s)
  OBVIOUS
<1>2. a \in Seq(Pendings) /\ Len(a) = i - 1 /\ \A j \in 1..Len(a) : a[j] = s[j] /\ j \in 1..Len(s)
  BY <1>1
<1>3. b \in Seq(Pendings) /\ Len(b) = Len(s) - i
      /\ \A j \in 1..Len(b) : b[j] = s[i + j] /\ i + j \in 1..Len(s)
  BY <1>1
<1> HIDE DEF a, b
<1>4. /\ a \o b \in Seq(Pendings) /\ Len(a \o b) = Len(a) + Len(b)
      /\ \A j \in 1..Len(a) + Len(b) :
           (a \o b)[j] = IF j <= Len(a) THEN a[j] ELSE b[j - Len(a)]
  BY <1>2, <1>3, ConcatProperties
<1>5. ASSUME NEW j \in 1..Len(a \o b) PROVE (a \o b)[j] \in ToSet(s)
  <2>1. CASE j <= Len(a)
    <3>1. (a \o b)[j] = s[j] /\ j \in 1..Len(s)
      BY <1>2, <1>4, <2>1
    <3> QED BY <3>1 DEF ToSet
  <2>2. CASE ~(j <= Len(a))
    <3>1. j - Len(a) \in 1..Len(b) /\ j \in 1..Len(a) + Len(b)
      <4>1. Len(a) \in Nat /\ Len(b) \in Nat /\ j \in 1..Len(a) + Len(b)
        BY <1>2, <1>3, <1>4
      <4> QED BY <2>2, <4>1
    <3>2. (a \o b)[j] = s[i + (j - Len(a))] /\ i + (j - Len(a)) \in 1..Len(s)
      BY <1>3, <1>4, <2>2, <3>1
    <3> QED BY <3>2 DEF ToSet
  <2> QED BY <2>1, <2>2
<1>6. ToSet(a \o b) \subseteq ToSet(s)
  BY <1>4, <1>5 DEF ToSet
<1> QED BY <1>4, <1>6 DEF RemoveAt, a, b

\* A phone that answers, and forgets or decides requests, disturbs nothing.
LEMMA PhoneServedSafe ==
  ASSUME IInv, mob' \in Mobiles, ToSet(mob'.pending) \subseteq ToSet(mob.pending),
         \A id \in mob'.saving :
           id \in mob.saving \/ \E j \in DOMAIN mob.pending : id = mob.pending[j].id,
         net' \in Nets, SameQuestions(net, net'),
         UNCHANGED <<agent, phone, srv, call, init, asked, history, troubles>>
  PROVE  IInv'
<1>1. TypeOK'
  BY DEF IInv, TypeOK, history
<1>2. LessNet
  BY DEF LessNet, SameQuestions
<1>3. LessMob
  BY DEF LessMob, ToSet
<1>4. LessSrv /\ LessCall /\ LessInit
  BY DEF LessSrv, LessCall, LessInit
<1>5. OneEach' /\ SameHistory /\ SameTrust /\ late' = late
  BY DEF IInv, OneEach, SameHistory, SameTrust, history
<1> QED BY <1>1, <1>2, <1>3, <1>4, <1>5, IInvByLess

LEMMA PhoneShowsCodeSafe ==
  ASSUME IInv, NEW code \in Codes, PhoneShowsCode(code) PROVE IInv'
<1> DEFINE w == PhoneSwept(PhoneWorld)
<1>1. /\ w.m \in Mobiles /\ w.m.saving = mob.saving /\ ToSet(w.m.pending) \subseteq ToSet(mob.pending)
      /\ w.n \in Nets /\ SameQuestions(net, w.n)
  BY PhoneSweptWorld DEF IInv
<1>2. w = [m |-> w.m, n |-> w.n]
  BY DEF PhoneSwept
<1>3. /\ PhoneBecomes([w EXCEPT !.m.sessions = {[code |-> code, left |-> SessionTtl]}])
      /\ UNCHANGED <<agent, phone, srv, call, init, asked, history, troubles>>
  BY DEF PhoneShowsCode
<1> HIDE DEF w
<1>4. mob' = [w.m EXCEPT !.sessions = {[code |-> code, left |-> SessionTtl]}] /\ net' = w.n
  BY <1>2, <1>3 DEF PhoneBecomes
<1>5. [code |-> code, left |-> SessionTtl] \in Sessions
  BY PairingAssumption DEF PairingAssumption, Sessions
<1>6. mob' \in Mobiles /\ mob'.pending = w.m.pending /\ mob'.saving = mob.saving
  BY <1>1, <1>4, <1>5 DEF Mobiles
<1> QED BY <1>1, <1>3, <1>4, <1>6, PhoneServedSafe

LEMMA PhoneLooksSafe == ASSUME IInv, PhoneLooks PROVE IInv'
<1>1. /\ mob' \in Mobiles /\ mob'.saving = mob.saving /\ ToSet(mob'.pending) \subseteq ToSet(mob.pending)
      /\ net' \in Nets /\ SameQuestions(net, net')
      /\ UNCHANGED <<agent, phone, srv, call, init, asked, history, troubles>>
  BY PhoneSweptWorld DEF IInv, PhoneLooks, PhoneBecomes
<1> QED BY <1>1, PhoneServedSafe

LEMMA PhoneDecidesSafe ==
  ASSUME IInv, NEW status \in {"approved", "rejected"}, PhoneDecides(status) PROVE IInv'
<1> DEFINE w == PhoneSwept(PhoneWorld)
           mine == {i \in DOMAIN w.m.pending : w.m.pending[i].id = mob.prompt}
<1>1. /\ w.m \in Mobiles /\ w.m.saving = mob.saving /\ ToSet(w.m.pending) \subseteq ToSet(mob.pending)
      /\ w.n \in Nets /\ SameQuestions(net, w.n)
  BY PhoneSweptWorld DEF IInv
<1>2. w = [m |-> w.m, n |-> w.n]
  BY DEF PhoneSwept
<1>3. UNCHANGED <<agent, phone, srv, call, init, asked, history, troubles>>
  BY DEF PhoneDecides
<1>4. CASE mine = {}
  <2>1. PhoneBecomes(Prompted(w))
    BY <1>4 DEF PhoneDecides
  <2> HIDE DEF w
  <2>2. /\ mob' \in Mobiles /\ mob'.pending = w.m.pending /\ mob'.saving = mob.saving
        /\ net' = w.n
    BY <1>1, <2>1, PromptedKeeps DEF PhoneBecomes
  <2> QED BY <1>1, <1>3, <2>2, PhoneServedSafe
<1>5. CASE mine # {}
  <2> DEFINE i == CHOOSE j \in mine : TRUE
             p == w.m.pending[i]
             a == Resolved(p.id, status, IF status = "approved" THEN p.id ELSE 0)
             v == [m |-> [w.m EXCEPT !.pending = RemoveAt(@, i)], n |-> Sent(w.n, p.conn, a)]
  <2>1. PhoneBecomes(IF status = "approved" THEN [v EXCEPT !.m.saving = @ \cup {p.id}] ELSE Prompted(v))
    BY <1>5 DEF PhoneDecides
  <2>2. i \in DOMAIN w.m.pending
    BY <1>5
  <2> HIDE DEF i, mine
  <2>3. w.m.pending \in Seq(Pendings)
    BY <1>1 DEF Mobiles
  <2>4. p \in Pendings /\ p \in ToSet(w.m.pending)
    BY <2>2, <2>3 DEF ToSet
  <2> HIDE DEF w
  <2>5. PICK j \in DOMAIN mob.pending : p = mob.pending[j]
    BY <1>1, <2>4 DEF ToSet
  <2>6. /\ RemoveAt(w.m.pending, i) \in Seq(Pendings)
        /\ ToSet(RemoveAt(w.m.pending, i)) \subseteq ToSet(mob.pending)
    BY <1>1, <2>2, <2>3, RemovedElements
  <2> HIDE DEF p
  <2>7. a \in Answers /\ p.conn \in Sockets
    BY <2>4, ResolvedIsAnswer DEF Pendings, Verdicts
  <2>8. v.n \in Nets /\ SameQuestions(net, v.n)
    <3>1. Sent(w.n, p.conn, a) \in Nets /\ SameQuestions(w.n, Sent(w.n, p.conn, a))
      BY <1>1, <2>7, SentAnswers
    <3> QED BY <1>1, <3>1 DEF SameQuestions
  <2>9. /\ v.m \in Mobiles /\ v.m.saving = mob.saving
        /\ v.m.pending = RemoveAt(w.m.pending, i) /\ v = [m |-> v.m, n |-> v.n]
    BY <1>1, <2>6 DEF Mobiles
  <2> HIDE DEF v
  <2>10. CASE status = "approved"
    <3>1. mob' = [v.m EXCEPT !.saving = @ \cup {p.id}] /\ net' = v.n
      BY <2>1, <2>9, <2>10 DEF PhoneBecomes
    <3>2. /\ mob' \in Mobiles /\ mob'.pending = RemoveAt(w.m.pending, i)
          /\ mob'.saving = mob.saving \cup {p.id}
      BY <2>4, <2>9, <3>1 DEF Mobiles, Pendings
    <3> QED BY <1>3, <2>5, <2>6, <2>8, <3>1, <3>2, PhoneServedSafe
  <2>11. CASE status # "approved"
    <3>1. PhoneBecomes(Prompted(v))
      BY <2>1, <2>11
    <3>2. /\ mob' \in Mobiles /\ mob'.pending = RemoveAt(w.m.pending, i)
          /\ mob'.saving = mob.saving /\ net' = v.n
      BY <2>9, <3>1, PromptedKeeps DEF PhoneBecomes
    <3> QED BY <1>3, <2>6, <2>8, <3>2, PhoneServedSafe
  <2> QED BY <2>10, <2>11
<1> QED BY <1>4, <1>5

LEMMA PhoneSavesSafe == ASSUME IInv, NEW id \in mob.saving, PhoneSaves(id) PROVE IInv'
<1> DEFINE v == [PhoneWorld EXCEPT !.m.saving = @ \ {id}]
           w == PhoneSwept(v)
<1>1. /\ phone' = [row |-> Kept(phone.row), secret |-> id] /\ given' = given \cup {id}
      /\ PhoneBecomes(Prompted(w))
      /\ UNCHANGED <<agent, srv, call, init, asked, taken, spoiled, late, troubles>>
  BY DEF PhoneSaves
<1>2. TypeOK /\ mob \in Mobiles /\ net \in Nets /\ id \in Nat /\ id <= asked
  BY DEF IInv, TypeOK, Mobiles, Numbered
<1>3. /\ v.m \in Mobiles /\ v.m.pending = mob.pending /\ v.m.saving = mob.saving \ {id} /\ v.n = net
  BY <1>2 DEF PhoneWorld, Mobiles
<1> HIDE DEF v
<1>4. /\ w.m \in Mobiles /\ w.m.saving = mob.saving \ {id}
      /\ ToSet(w.m.pending) \subseteq ToSet(mob.pending)
      /\ w.n \in Nets /\ SameQuestions(net, w.n)
  BY <1>2, <1>3, PhoneSweptKeeps
<1> HIDE DEF w
<1>5. /\ mob' \in Mobiles /\ mob'.saving = mob.saving \ {id}
      /\ ToSet(mob'.pending) \subseteq ToSet(mob.pending)
      /\ net' \in Nets /\ SameQuestions(net, net')
  BY <1>1, <1>4, PromptedKeeps DEF PhoneBecomes
<1>6. phone' \in [row : Rows, secret : Nat] /\ phone'.row # "none" /\ phone'.secret = id
  BY <1>1, <1>2, KeptTrusts DEF TypeOK
<1>7. TypeOK'
  BY <1>1, <1>2, <1>5, <1>6 DEF TypeOK
<1>8. LessNet /\ LessSrv /\ LessMob /\ LessCall /\ LessInit
  <2>1. LessNet
    BY <1>5 DEF LessNet, SameQuestions
  <2>2. LessMob
    BY <1>5 DEF LessMob, ToSet
  <2> QED BY <1>1, <2>1, <2>2 DEF LessSrv, LessCall, LessInit
<1>9. Connected' /\ OneRequest' /\ OneEach' /\ RequestIsBound'
  BY <1>1, <1>7, <1>8, ConnectedByLess, OneRequestByLess, BoundByLess DEF IInv, OneEach
<1>10. Numbered'
  <2>1. \A n \in given' \cup taken' : n <= asked
    BY <1>1, <1>2 DEF IInv, Numbered
  <2> QED BY <1>1, <1>7, <1>8, <2>1, NumberedByLess DEF IInv
<1>11. OneSecret'
  <2> SUFFICES ASSUME ~spoiled' PROVE ByAgent'
    BY DEF OneSecret
  <2>1. OnlyAgent /\ (asked \in taken => Holds(agent)) /\ id = asked
    BY <1>1 DEF IInv, OneSecret, ByPhone, ByAgent, OnlyPhone, OnlyAgent
  <2>2. OnlyAgent'
    BY <1>1, <1>2, <1>7, <1>8, <2>1, OnlyByLess
  <2>3. Holds(phone)' /\ (Holds(agent) => Holds(agent)')
    BY <1>1, <1>6, <2>1 DEF Holds
  <2> QED BY <1>1, <2>1, <2>2, <2>3 DEF ByAgent
<1> QED BY <1>7, <1>9, <1>10, <1>11 DEF IInv

LEMMA PhoneSaveFailsSafe ==
  ASSUME IInv, NEW id \in mob.saving, PhoneSaveFails(id) PROVE IInv'
<1>1. /\ mob' = [mob EXCEPT !.saving = @ \ {id}] /\ spoiled' = TRUE /\ troubles' \in Nat
      /\ UNCHANGED <<agent, phone, srv, call, init, net, asked, given, taken, late>>
  BY DEF PhoneSaveFails, Trouble, IInv, TypeOK
<1>2. mob' \in Mobiles /\ mob'.pending = mob.pending /\ mob'.saving = mob.saving \ {id}
  BY <1>1 DEF IInv, TypeOK, Mobiles
<1>3. TypeOK'
  BY <1>1, <1>2 DEF IInv, TypeOK
<1>4. LessNet /\ LessSrv /\ LessMob /\ LessCall /\ LessInit
  BY <1>1, <1>2 DEF LessNet, LessSrv, LessMob, LessCall, LessInit
<1>5. OneEach' /\ SameHistory /\ SameTrust
  BY <1>1 DEF IInv, OneEach, SameHistory, SameTrust
<1> QED BY <1>1, <1>3, <1>4, <1>5, IInvByLess

LEMMA PhoneReceivesSafe == ASSUME IInv, NEW c \in Sockets, PhoneReceives(c) PROVE IInv'
<1> DEFINE m == Head(net[c].up)
           v == [PhoneWorld EXCEPT !.n[c].up = Tail(@)]
           w == PhoneSwept(v)
           matching == {s \in w.m.sessions : s.code = m.code}
           fresh == [id |-> m.id, conn |-> c, left |-> ApprovalTtl]
           x == [w EXCEPT !.m.sessions = @ \ matching, !.m.pending = Append(@, fresh)]
           y == [w EXCEPT !.n = Sent(@, c, Error("INVALID_PAIRING_CODE"))]
<1>1. /\ net[c].to = "phone" /\ net[c].server = "open" /\ net[c].up # <<>>
      /\ IF matching = {} THEN PhoneBecomes(y) ELSE PhoneBecomes(Prompted(x))
      /\ UNCHANGED <<agent, phone, srv, call, init, asked, given, taken, spoiled, late, troubles>>
  BY DEF PhoneReceives, history
<1>2. TypeOK /\ mob \in Mobiles /\ net \in Nets
  BY DEF IInv, TypeOK
<1>3. v.m = mob /\ v.n = ReadOn(net, c)
  BY DEF PhoneWorld, ReadOn
<1>4. /\ ReadOn(net, c) \in Nets /\ ReadOn(net, c)[c].up = <<>> /\ m \in Questions
      /\ \A d \in Sockets :
           /\ ReadOn(net, c)[d].to = net[d].to /\ ReadOn(net, c)[d].client = net[d].client
           /\ ReadOn(net, c)[d].server = net[d].server
           /\ d # c => ReadOn(net, c)[d].up = net[d].up
  BY <1>1, <1>2, ReadKeeps
<1>5. /\ w.m \in Mobiles /\ w.m.saving = mob.saving
      /\ ToSet(w.m.pending) \subseteq ToSet(mob.pending)
      /\ w.n \in Nets /\ SameQuestions(ReadOn(net, c), w.n)
  <2> HIDE DEF v
  <2> QED BY <1>2, <1>3, <1>4, PhoneSweptKeeps
<1>6. w = [m |-> w.m, n |-> w.n]
  BY DEF PhoneSwept
<1>7. m.id \in Nat /\ m.id <= asked /\ fresh \in Pendings
  <2>1. m.id \in Nat
    BY <1>4 DEF Questions
  <2>2. m.id <= asked
    BY <1>1 DEF IInv, Numbered, Reading
  <2>3. ApprovalTtl \in Nat
    BY PairingAssumption DEF PairingAssumption
  <2> QED BY <2>1, <2>2, <2>3 DEF Pendings
<1> HIDE DEF w, v, m
<1>8. ASSUME net' \in Nets, SameQuestions(w.n, net')
      PROVE  LessNet /\ net'[c].up = <<>> /\ LessSrv /\ LessCall /\ LessInit
             /\ \A d \in Sockets : d # c => net'[d].up = net[d].up
  BY <1>1, <1>4, <1>5, <1>8 DEF LessNet, SameQuestions, LessSrv, LessCall, LessInit
<1>9. CASE matching = {}
  <2>1. mob' = w.m /\ net' = Sent(w.n, c, Error("INVALID_PAIRING_CODE"))
    BY <1>1, <1>6, <1>9 DEF PhoneBecomes
  <2>2. net' \in Nets /\ SameQuestions(w.n, net')
    BY <1>5, <2>1, SentAnswers, ErrorIsAnswer
  <2>3. TypeOK'
    BY <1>1, <1>2, <1>5, <2>1, <2>2 DEF TypeOK
  <2>4. LessMob
    BY <1>5, <2>1 DEF LessMob, ToSet
  <2>5. OneEach' /\ SameHistory /\ SameTrust
    BY <1>1 DEF IInv, OneEach, SameHistory, SameTrust
  <2> QED BY <1>1, <1>8, <2>2, <2>3, <2>4, <2>5, IInvByLess
<1>10. CASE matching # {}
  <2>1. PhoneBecomes(Prompted(x))
    BY <1>1, <1>10
  <2> HIDE DEF matching, fresh
  <2>2. x.m = [w.m EXCEPT !.sessions = @ \ matching, !.pending = Append(@, fresh)] /\ x.n = w.n
    BY <1>6
  <2>3. w.m.pending \in Seq(Pendings) /\ Append(w.m.pending, fresh) \in Seq(Pendings)
    BY <1>5, <1>7 DEF Mobiles
  <2>4. /\ x.m \in Mobiles /\ x.m.pending = Append(w.m.pending, fresh) /\ x.m.saving = mob.saving
    <3> DEFINE t == Append(w.m.pending, fresh)
    <3>1. t \in Seq(Pendings) /\ x.m = [w.m EXCEPT !.sessions = @ \ matching, !.pending = t]
      BY <2>2, <2>3
    <3> HIDE DEF t, x
    <3>2. x.m \in Mobiles /\ x.m.pending = t /\ x.m.saving = w.m.saving
      BY <1>5, <3>1 DEF Mobiles
    <3> QED BY <1>5, <3>2 DEF t
  <2> HIDE DEF x
  <2>5. /\ mob' \in Mobiles /\ mob'.pending = Append(w.m.pending, fresh)
        /\ mob'.saving = mob.saving /\ net' = w.n
    BY <2>1, <2>2, <2>4, PromptedKeeps DEF PhoneBecomes
  <2>6. ASSUME NEW i \in DOMAIN mob'.pending
        PROVE  \/ mob'.pending[i].id = m.id
               \/ \E j \in DOMAIN mob.pending : mob'.pending[i].id = mob.pending[j].id
    <3>1. mob'.pending[i] = fresh \/ (i \in DOMAIN w.m.pending /\ mob'.pending[i] = w.m.pending[i])
      <4> DEFINE t == w.m.pending
      <4>1. t \in Seq(Pendings) /\ mob'.pending = Append(t, fresh) /\ fresh \in Pendings
        BY <1>7, <2>3, <2>5 DEF fresh
      <4> HIDE DEF t
      <4>2. Len(t) \in Nat /\ DOMAIN t = 1..Len(t) /\ DOMAIN mob'.pending = 1..Len(t) + 1
        BY <4>1, AppendProperties
      <4>3. /\ \A k \in 1..Len(t) : mob'.pending[k] = t[k]
            /\ mob'.pending[Len(t) + 1] = fresh
        BY <4>1, AppendProperties
      <4>4. i \in 1..Len(t) \/ i = Len(t) + 1
        BY <4>2
      <4>5. CASE i \in 1..Len(t)
        BY <4>2, <4>3, <4>5 DEF t
      <4>6. CASE i = Len(t) + 1
        BY <4>3, <4>6
      <4> QED BY <4>4, <4>5, <4>6
    <3> QED BY <1>5, <3>1 DEF ToSet, fresh
  <2>7. net' \in Nets /\ SameQuestions(w.n, net')
    BY <1>5, <2>5 DEF SameQuestions
  <2>8. LessNet /\ net'[c].up = <<>> /\ LessSrv /\ LessCall /\ LessInit
        /\ \A d \in Sockets : d # c => net'[d].up = net[d].up
    BY <1>8, <2>7
  <2>9. TypeOK'
    BY <1>1, <1>2, <2>5, <2>7 DEF TypeOK
  <2>10. Connected' /\ OneRequest' /\ OneEach' /\ RequestIsBound'
    BY <1>1, <2>8, <2>9, ConnectedByLess, OneRequestByLess, BoundByLess DEF IInv, OneEach
  <2>11. Numbered'
    <3>1. \A i \in DOMAIN mob'.pending : mob'.pending[i].id <= asked
      BY <1>7, <2>6 DEF IInv, Numbered
    <3>2. \A d \in Sockets : net'[d].up # <<>> => Head(net'[d].up).id <= asked
      BY <2>8 DEF IInv, Numbered, Reading
    <3> QED BY <1>1, <2>5, <3>1, <3>2 DEF IInv, Numbered, Reading
  <2>12. OneSecret'
    <3> SUFFICES ASSUME ~spoiled' PROVE ByAgent'
      BY DEF OneSecret
    <3>1. Asks(c, "phone") /\ m = Reading(c)
      BY <1>1 DEF Asks, Reading, m
    <3>2. ByAgent /\ m.id = asked
      BY <1>1, <3>1 DEF IInv, OneSecret, ByPhone, OnlyPhone, ByAgent, OnlyAgent
    <3>3. \A i \in DOMAIN mob'.pending : mob'.pending[i].id = asked
      BY <2>6, <3>2 DEF ByAgent, OnlyAgent
    <3>4. ASSUME NEW d \in Sockets, NEW who, Asks(d, who)'
          PROVE  Asks(d, who) /\ Head(net'[d].up) = Reading(d)
      BY <2>8, <3>4 DEF LessNet, Asks, Reading
    <3>5. /\ \A d \in Sockets : ~Asks(d, "agent")'
          /\ \A d \in Sockets : Asks(d, "phone")' => Head(net'[d].up).id = asked
      BY <3>2, <3>4 DEF ByAgent, OnlyAgent
    <3> QED BY <1>1, <2>5, <3>2, <3>3, <3>5 DEF ByAgent, OnlyAgent, Reading, Holds
  <2> QED BY <2>9, <2>10, <2>11, <2>12 DEF IInv
<1> QED BY <1>9, <1>10

-----------------------------------------------------------------------------
(* Network, processes, people, time. *)

LEMMA BreaksSafe == ASSUME IInv, NEW c \in Sockets, Breaks(c) PROVE IInv'
<1>1. /\ net[c].client \in {"opening", "open"} /\ troubles' \in Nat
      /\ UNCHANGED <<agent, phone, srv, mob, call, asked, given, taken, spoiled, late>>
  BY DEF Breaks, Trouble, IInv, TypeOK, history
<1>2. init' = init \/ init' = NoInit
  BY DEF Breaks
<1>3. PICK up \in {<<>>, net[c].up} : net' = Hung([net EXCEPT ![c].up = up], c)
  BY DEF Breaks
<1>4. net \in Nets /\ net[c] \in Connections
  BY DEF IInv, TypeOK, Nets
<1> DEFINE n == [net EXCEPT ![c].up = up]
           r == [net[c] EXCEPT !.up = up]
<1>5. n \in Nets /\ \A d \in Sockets :
        /\ n[d].to = net[d].to /\ n[d].client = net[d].client /\ n[d].server = net[d].server
        /\ n[d].up = IF d = c THEN up ELSE net[d].up
  <2>1. /\ r \in Connections /\ r.up = up /\ r.to = net[c].to
        /\ r.client = net[c].client /\ r.server = net[c].server
    BY <1>4 DEF Connections, Carried
  <2>2. n = [net EXCEPT ![c] = r]
    OBVIOUS
  <2> HIDE DEF r, n
  <2> QED BY <1>4, <2>1, <2>2 DEF Nets
<1> HIDE DEF n
<1>6. /\ net' \in Nets
      /\ \A d \in Sockets : /\ net'[d].to = net[d].to /\ net'[d].server = net[d].server
                            /\ net'[d].client = IF d = c THEN "closed" ELSE net[d].client
                            /\ net'[d].up = IF d = c THEN up ELSE net[d].up
  <2>1. net' = Hung(n, c) /\ c \in Sockets \cup {0}
    BY <1>3 DEF n
  <2> QED BY <1>5, <2>1, HungCloses
<1>7. TypeOK'
  BY <1>1, <1>2, <1>6, NoCallTyped DEF IInv, TypeOK
<1>8. LessNet
  BY <1>1, <1>6 DEF LessNet
<1>9. LessSrv /\ LessMob /\ LessCall /\ LessInit
  BY <1>1, <1>2 DEF LessSrv, LessMob, LessCall, LessInit, NoInit
<1>10. OneEach' /\ SameHistory /\ SameTrust
  BY <1>1 DEF IInv, OneEach, SameHistory, SameTrust
<1> QED BY <1>1, <1>7, <1>8, <1>9, <1>10, IInvByLess

LEMMA StoppedKeeps ==
  ASSUME IInv, NEW who \in {"agent", "phone"}, net' = Stopped(who)
  PROVE  net' \in Nets /\ LessNet
<1>1. ASSUME NEW c \in Sockets
      PROVE  /\ net'[c] \in Connections /\ net'[c].to = net[c].to
             /\ net'[c].up = IF net[c].to = who THEN <<>> ELSE net[c].up
             /\ net'[c].server = IF net[c].to = who THEN "closed" ELSE net[c].server
             /\ net'[c].client \in {net[c].client, "closed"}
             /\ net[c].client = "new" => net'[c].client = "new"
  <2>1. net[c] \in Connections /\ <<>> \in Seq(Answers)
    BY DEF IInv, TypeOK, Nets
  <2>2. net'[c] = IF net[c].to = who THEN [net[c] EXCEPT !.server = "closed", !.up = <<>>]
                  ELSE IF net[c].client \in {"opening", "open"}
                    THEN [net[c] EXCEPT !.client = "closed", !.down = <<>>]
                  ELSE net[c]
    BY DEF Stopped
  <2>3. CASE net[c].to = who
    BY <2>1, <2>2, <2>3 DEF Connections, Carried
  <2>4. CASE net[c].to # who /\ net[c].client \in {"opening", "open"}
    BY <2>1, <2>2, <2>4 DEF Connections
  <2>5. CASE net[c].to # who /\ net[c].client \notin {"opening", "open"}
    BY <2>1, <2>2, <2>5
  <2> QED BY <2>3, <2>4, <2>5
<1>2. net' = [c \in Sockets |-> net'[c]]
  BY DEF Stopped
<1>3. net' \in Nets
  BY <1>1, <1>2 DEF Nets
<1>4. LessNet
  BY <1>1 DEF LessNet
<1> QED BY <1>3, <1>4

LEMMA AgentRestartsSafe == ASSUME IInv, AgentRestarts PROVE IInv'
<1>1. /\ srv' = NoServer /\ init' = NoInit /\ net' = Stopped("agent") /\ troubles' \in Nat
      /\ UNCHANGED <<agent, phone, mob, call, asked, given, taken, spoiled, late>>
  BY DEF AgentRestarts, Trouble, IInv, TypeOK, history
<1>2. net' \in Nets /\ LessNet
  BY <1>1, StoppedKeeps
<1>3. srv' \in Servers /\ srv'.pending = {}
  BY <1>1 DEF NoServer, Servers
<1>4. TypeOK'
  BY <1>1, <1>2, <1>3, NoCallTyped DEF IInv, TypeOK
<1>5. LessSrv /\ LessMob /\ LessCall /\ LessInit /\ OneEach'
  BY <1>1, <1>3 DEF LessSrv, LessMob, LessCall, LessInit, NoInit, OneEach
<1>6. SameHistory /\ SameTrust
  BY <1>1 DEF SameHistory, SameTrust
<1> QED BY <1>1, <1>2, <1>4, <1>5, <1>6, IInvByLess

LEMMA PhoneRestartsSafe == ASSUME IInv, PhoneRestarts PROVE IInv'
<1>1. /\ mob' = NoMobile /\ call' = NoCall /\ net' = Stopped("phone") /\ troubles' \in Nat
      /\ UNCHANGED <<agent, phone, srv, init, asked, given, taken, spoiled, late>>
  BY DEF PhoneRestarts, Trouble, IInv, TypeOK, history
<1>2. net' \in Nets /\ LessNet
  BY <1>1, StoppedKeeps
<1>3. mob' \in Mobiles /\ DOMAIN mob'.pending = {} /\ mob'.saving = {}
  BY <1>1 DEF NoMobile, Mobiles
<1>4. TypeOK'
  BY <1>1, <1>2, <1>3, NoCallTyped DEF IInv, TypeOK
<1>5. LessSrv /\ LessMob /\ LessCall /\ LessInit /\ OneEach'
  BY <1>1, <1>3 DEF LessSrv, LessMob, LessCall, LessInit, NoCall, IInv, OneEach
<1>6. SameHistory /\ SameTrust
  BY <1>1 DEF SameHistory, SameTrust
<1> QED BY <1>1, <1>2, <1>4, <1>5, <1>6, IInvByLess

LEMMA ClientNoticesSafe == ASSUME IInv, NEW c \in Sockets, ClientNotices(c) PROVE IInv'
<1>1. /\ net[c].client = "open" /\ net' = [net EXCEPT ![c].client = "closed"]
      /\ UNCHANGED <<agent, phone, srv, mob, call, init, asked, given, taken, spoiled, late, troubles>>
  BY DEF ClientNotices, history
<1>2. net \in Nets /\ net[c] \in Connections
  BY DEF IInv, TypeOK, Nets
<1> DEFINE r == [net[c] EXCEPT !.client = "closed"]
<1>3. /\ r \in Connections /\ r.client = "closed" /\ r.to = net[c].to
      /\ r.up = net[c].up /\ r.server = net[c].server
  BY <1>2 DEF Connections
<1>4. net' = [net EXCEPT ![c] = r]
  BY <1>1
<1> HIDE DEF r
<1>5. net' \in Nets /\ LessNet
  BY <1>1, <1>2, <1>3, <1>4 DEF Nets, LessNet
<1>6. TypeOK'
  BY <1>1, <1>5 DEF IInv, TypeOK
<1>7. LessSrv /\ LessMob /\ LessCall /\ LessInit
  BY <1>1 DEF LessSrv, LessMob, LessCall, LessInit
<1>8. OneEach' /\ SameHistory /\ SameTrust
  BY <1>1 DEF IInv, OneEach, SameHistory, SameTrust
<1> QED BY <1>1, <1>5, <1>6, <1>7, <1>8, IInvByLess

\* A row is switched or removed.
LEMMA TrustChangesSafe ==
  ASSUME IInv, agent' \in [row : Rows, secret : Nat], phone' \in [row : Rows, secret : Nat],
         SameTrust, spoiled' \in BOOLEAN, troubles' \in Nat,
         UNCHANGED <<srv, mob, call, init, net, asked, given, taken, late>>
  PROVE  IInv'
<1>1. TypeOK'
  BY DEF IInv, TypeOK
<1>2. LessNet /\ LessSrv /\ LessMob /\ LessCall /\ LessInit
  BY DEF LessNet, LessSrv, LessMob, LessCall, LessInit
<1>3. OneEach' /\ SameHistory
  BY DEF IInv, OneEach, SameHistory
<1> QED BY <1>1, <1>2, <1>3, IInvByLess

LEMMA SwitchesSafe == ASSUME IInv, AgentSwitches \/ PhoneSwitches PROVE IInv'
<1>1. /\ agent \in [row : Rows, secret : Nat] /\ phone \in [row : Rows, secret : Nat]
      /\ spoiled \in BOOLEAN /\ troubles \in Nat
      /\ \A row \in Rows : Switched(row) \in Rows /\ Switched(row) # "none"
  BY DEF IInv, TypeOK, Switched, Rows
<1>2. CASE AgentSwitches
  <2>1. /\ agent' = [agent EXCEPT !.row = Switched(@)] /\ troubles' \in Nat
        /\ UNCHANGED <<phone, srv, mob, call, init, net, asked, given, taken, spoiled, late>>
    BY <1>1, <1>2 DEF AgentSwitches, Trouble, history
  <2>2. agent' \in [row : Rows, secret : Nat] /\ agent'.row # "none" /\ agent'.secret = agent.secret
    BY <1>1, <2>1
  <2> QED BY <1>1, <2>1, <2>2, TrustChangesSafe DEF SameTrust
<1>3. CASE PhoneSwitches
  <2>1. /\ phone' = [phone EXCEPT !.row = Switched(@)] /\ troubles' \in Nat
        /\ UNCHANGED <<agent, srv, mob, call, init, net, asked, given, taken, spoiled, late>>
    BY <1>1, <1>3 DEF PhoneSwitches, Trouble, history
  <2>2. phone' \in [row : Rows, secret : Nat] /\ phone'.row # "none" /\ phone'.secret = phone.secret
    BY <1>1, <2>1
  <2> QED BY <1>1, <2>1, <2>2, TrustChangesSafe DEF SameTrust
<1> QED BY <1>2, <1>3

LEMMA RemovesSafe == ASSUME IInv, AgentRemoves \/ PhoneRemoves PROVE IInv'
<1>1. /\ agent' \in [row : Rows, secret : Nat] /\ phone' \in [row : Rows, secret : Nat]
      /\ spoiled' = TRUE /\ troubles' \in Nat
      /\ UNCHANGED <<srv, mob, call, init, net, asked, given, taken, late>>
  BY DEF AgentRemoves, PhoneRemoves, Trouble, Distrust, Rows, IInv, TypeOK
<1> QED BY <1>1, TrustChangesSafe DEF SameTrust

LEMMA AgedKeeps ==
  /\ \A S \in SUBSET Sessions : Aged(S) \in SUBSET Sessions
  /\ \A S \in SUBSET Pendings : Aged(S) \in SUBSET Pendings
  /\ \A S \in SUBSET Outcomes : Aged(S) \in SUBSET Outcomes
BY DEF Aged, OneOlder, Older, Sessions, Pendings, Outcomes

LEMMA TickSafe == ASSUME IInv, Tick PROVE IInv'
<1>1. /\ srv' = [sessions |-> Aged(srv.sessions), pending |-> Aged(srv.pending),
                 outcomes |-> Aged(srv.outcomes)]
      /\ mob' = [mob EXCEPT !.sessions = Aged(@),
                            !.pending = [i \in DOMAIN mob.pending |-> OneOlder(mob.pending[i])]]
      /\ call' = [call EXCEPT !.left = Older(@)] /\ init' = [init EXCEPT !.left = Older(@)]
      /\ UNCHANGED <<agent, phone, net, asked, given, taken, spoiled, late, troubles>>
  BY DEF Tick, history
<1>2. TypeOK /\ srv \in Servers /\ mob \in Mobiles /\ mob.pending \in Seq(Pendings)
  BY DEF IInv, TypeOK, Mobiles
<1>3. srv' \in Servers
  BY <1>1, <1>2, AgedKeeps DEF Servers
<1> DEFINE t == [i \in DOMAIN mob.pending |-> OneOlder(mob.pending[i])]
<1>4. /\ t \in Seq(Pendings) /\ DOMAIN t = DOMAIN mob.pending
      /\ \A i \in DOMAIN mob.pending : t[i].id = mob.pending[i].id
  <2>1. ASSUME NEW p \in Pendings
        PROVE  OneOlder(p) \in Pendings /\ OneOlder(p).id = p.id
    BY DEF Pendings, Older, OneOlder
  <2>2. \A i \in DOMAIN mob.pending : mob.pending[i] \in Pendings
    BY <1>2
  <2>3. t \in [1..Len(mob.pending) -> Pendings] /\ Len(mob.pending) \in Nat
    BY <1>2, <2>1, <2>2
  <2> QED BY <2>1, <2>2, <2>3
<1>5. mob' = [mob EXCEPT !.sessions = Aged(@), !.pending = t]
  BY <1>1
<1> HIDE DEF t
<1>6. mob' \in Mobiles /\ mob'.pending = t /\ mob'.saving = mob.saving
  BY <1>2, <1>4, <1>5, AgedKeeps DEF Mobiles
<1>7. /\ call' \in Calls /\ call'.pc = call.pc /\ call'.id = call.id /\ call'.conn = call.conn
      /\ call'.submitted = call.submitted
      /\ init' \in Inits /\ init'.pc = init.pc /\ init'.id = init.id /\ init'.conn = init.conn
  BY <1>1 DEF IInv, TypeOK, Calls, Inits, Older
<1>8. TypeOK'
  BY <1>1, <1>3, <1>6, <1>7 DEF IInv, TypeOK
<1>9. \A p \in srv'.pending : \E q \in srv.pending : /\ p = OneOlder(q)
                                                     /\ q.id = p.id /\ q.conn = p.conn
  BY <1>1, <1>2 DEF Aged, OneOlder, Older, Servers, Pendings
<1>10. LessNet /\ LessSrv /\ LessMob /\ LessCall /\ LessInit
  BY <1>1, <1>4, <1>6, <1>7, <1>9 DEF LessNet, LessSrv, LessMob, LessCall, LessInit
<1>11. OneEach'
  <2> SUFFICES ASSUME NEW p \in srv'.pending, NEW q \in srv'.pending,
                      p.conn = q.conn \/ p.id = q.id
               PROVE  p = q
    BY DEF OneEach
  <2>1. PICK a \in srv.pending : p = OneOlder(a) /\ a.id = p.id /\ a.conn = p.conn
    BY <1>9
  <2>2. PICK b \in srv.pending : q = OneOlder(b) /\ b.id = q.id /\ b.conn = q.conn
    BY <1>9
  <2>3. a = b
    BY <2>1, <2>2 DEF IInv, OneEach
  <2> QED BY <2>1, <2>2, <2>3
<1>12. SameHistory /\ SameTrust
  BY <1>1 DEF SameHistory, SameTrust
<1> QED BY <1>1, <1>8, <1>10, <1>11, <1>12, IInvByLess

LEMMA StutterSafe == ASSUME IInv, UNCHANGED vars PROVE IInv'
<1>1. UNCHANGED <<agent, phone, srv, mob, call, init, net, asked, given, taken, spoiled, late, troubles>>
  BY DEF vars
<1>2. /\ agent' \in [row : Rows, secret : Nat] /\ phone' \in [row : Rows, secret : Nat]
      /\ spoiled' \in BOOLEAN /\ troubles' \in Nat /\ SameTrust
  BY <1>1 DEF IInv, TypeOK, SameTrust
<1> QED BY <1>1, <1>2, TrustChangesSafe

-----------------------------------------------------------------------------

LEMMA InitEstablishes == Init => IInv
<1> SUFFICES ASSUME Init PROVE IInv
  OBVIOUS
<1>1. /\ agent = Distrust /\ phone = Distrust /\ srv = NoServer /\ mob = NoMobile
      /\ call = NoCall /\ init = NoInit /\ net = [c \in Sockets |-> NewSocket]
      /\ asked = 0 /\ given = {} /\ taken = {} /\ spoiled = FALSE /\ late = FALSE /\ troubles = 0
  BY DEF Init
<1>2. NewSocket \in Connections
  BY DEF NewSocket, Connections, Carried
<1>3. NoServer \in Servers /\ NoMobile \in Mobiles /\ Distrust \in [row : Rows, secret : Nat]
  BY DEF NoServer, Servers, NoMobile, Mobiles, Distrust, Rows
<1>4. TypeOK
  BY <1>1, <1>2, <1>3, NoCallTyped DEF TypeOK, Nets
<1>5. \A c \in Sockets : net[c].up = <<>>
  BY <1>1 DEF NewSocket
<1>6. /\ srv.pending = {} /\ mob.pending = <<>> /\ DOMAIN mob.pending = {} /\ mob.saving = {}
      /\ call.pc = "idle" /\ init.pc = "idle"
  BY <1>1 DEF NoServer, NoMobile, NoCall, NoInit
<1>7. Connected /\ Numbered /\ OneRequest
  BY <1>1, <1>5, <1>6 DEF Connected, Numbered, OneRequest, Requesting, Asks
<1>8. OneEach /\ RequestIsBound
  BY <1>6 DEF OneEach, RequestIsBound
<1>9. OneSecret
  BY <1>1, <1>5, <1>6 DEF OneSecret, ByPhone, OnlyPhone, Asks
<1> QED BY <1>4, <1>7, <1>8, <1>9 DEF IInv

LEMMA StepSafe == IInv /\ [Next]_vars => IInv'
<1> SUFFICES ASSUME IInv, [Next]_vars PROVE IInv'
  OBVIOUS
<1>1. CASE AgentServes
  BY <1>1, AgentShowsCodeSafe, AgentListsSafe, AgentReceivesSafe, AgentApprovesSafe,
     AgentApprovesHalfSafe, AgentRejectsSafe, ApprovalExpiresSafe DEF AgentServes
<1>2. CASE PhoneCalls
  BY <1>2, OpenSheetSafe, PhonePressesSafe, CallOpensSafe, CallReconnectsSafe, CallReceivesSafe,
     CallTimesOutSafe, CallSavesSafe, CallSaveFailsSafe DEF PhoneCalls
<1>3. CASE PhoneServes
  BY <1>3, PhoneShowsCodeSafe, PhoneLooksSafe, PhoneReceivesSafe, PhoneDecidesSafe,
     PhoneSavesSafe, PhoneSaveFailsSafe DEF PhoneServes
<1>4. CASE AgentCalls
  BY <1>4, AgentPressesSafe, InitOpensSafe, InitReceivesSafe, InitTimesOutSafe DEF AgentCalls
<1>5. CASE Environment
  BY <1>5, BreaksSafe, ClientNoticesSafe, AgentRestartsSafe, PhoneRestartsSafe, SwitchesSafe,
     RemovesSafe, TickSafe DEF Environment
<1>6. CASE UNCHANGED vars
  BY <1>6, StutterSafe
<1> QED BY <1>1, <1>2, <1>3, <1>4, <1>5, <1>6 DEF Next

LEMMA Invariance == Spec => []IInv
BY InitEstablishes, StepSafe, PTL DEF Spec

(* Every variable keeps its type, and what the sweep of the services relies on holds: *)
(* no two pending requests are bound to one connection, or have one id.               *)
THEOREM TypeCorrect == Spec => [](TypeOK /\ OneEach)
<1>1. IInv => TypeOK /\ OneEach
  BY DEF IInv
<1> QED BY Invariance, <1>1, PTL

(* A phone that still waits, and whose connection the Agent has read, will be told:   *)
(* however many connections it went through, its request is bound to that one.        *)
THEOREM RequestBound == Spec => []RequestIsBound
<1>1. IInv => RequestIsBound
  BY DEF IInv
<1> QED BY Invariance, <1>1, PTL

(* Both sides that stored the last request hold the same secret, whoever asked, unless *)
(* another attempt was under way when it began or the trust changed otherwise since:  *)
(* through earlier attempts, expiry, lost connections and restarts.                   *)
THEOREM KeysAgreed == Spec => []KeysAgree
<1>1. IInv => KeysAgree
  BY DEF IInv, KeysAgree, OneSecret, ByPhone, ByAgent, Holds
<1> QED BY Invariance, <1>1, PTL
=============================================================================

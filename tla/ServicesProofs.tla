--------------------------- MODULE ServicesProofs ---------------------------
(***************************************************************************)
(* The services of a power device, for every set of conditions, sessions    *)
(* and outlets and any number of pushes, edits and troubles: a flapping     *)
(* input is one outage, the NUT server's clients are those logged in, and   *)
(* the bridge switches a UPS's relay only after it agreed with it once.     *)
(***************************************************************************)
EXTENDS Services, InductionLemmas, FiniteSetTheorems, TLAPS

(***************************************************************************)
(* The NUT server.                                                          *)
(***************************************************************************)
Wants == {Nut!Want(p) : p \in Specs \cup {Stopped}} \cup {Stopped}
Session == [ip : Ips \cup {Stopped}, spec : Wants, login : Logins \cup {NoLogin}, in : BOOLEAN]

\* A session that is not closed came from an address, and a closed one is not
\* logged in.
NutInv ==
  /\ push \in Specs \cup {Stopped} /\ spec \in Wants
  /\ sess \in [Sessions -> Session] /\ clients \in [Ips -> Nat]
  /\ \A s \in Sessions : sess[s] = Nut!Closed \/ sess[s].ip \in Ips
  /\ ClientsAreLoggedIn

LEMMA ClosedType == Nut!Closed \in Session /\ Nut!Closed.in = FALSE /\ Nut!Closed.ip \notin Ips
  BY ServicesAssumption DEF Nut!Closed, Session, Wants

LEMMA NutInits == Nut!Init => NutInv
<1> SUFFICES ASSUME Nut!Init PROVE NutInv
  OBVIOUS
<1>1. sess = [s \in Sessions |-> Nut!Closed] /\ clients = [i \in Ips |-> 0] /\ push = Stopped /\ spec = Stopped
  BY DEF Nut!Init
<1>2. sess \in [Sessions -> Session] /\ \A s \in Sessions : sess[s] = Nut!Closed
  BY <1>1, ClosedType
<1>3. \A ip \in Ips : Nut!LoggedIn(ip) = {}
  BY <1>2, ClosedType DEF Nut!LoggedIn
<1>4. Cardinality({}) = 0
  BY FS_EmptySet
<1>5. ClientsAreLoggedIn
  BY <1>1, <1>3, <1>4 DEF ClientsAreLoggedIn
<1> QED
  BY <1>1, <1>2, <1>5 DEF NutInv, Wants

LEMMA LoggedInFinite == \A ip : IsFiniteSet(Nut!LoggedIn(ip)) /\ Cardinality(Nut!LoggedIn(ip)) \in Nat
<1> TAKE ip
<1>1. Nut!LoggedIn(ip) \subseteq Sessions /\ IsFiniteSet(Sessions)
  BY ServicesAssumption DEF Nut!LoggedIn
<1> QED
  BY <1>1, FS_Subset, FS_CardinalityType

\* Steps that log nobody in or out.
LEMMA NutQuiet ==
  ASSUME NutInv, push' \in Specs \cup {Stopped}, spec' \in Wants, clients' = clients,
         sess' \in [Sessions -> Session],
         \A s \in Sessions : sess'[s] = Nut!Closed \/ sess'[s].ip \in Ips,
         \A s \in Sessions : sess'[s].in = sess[s].in /\ (sess[s].in => sess'[s].ip = sess[s].ip)
  PROVE  NutInv'
<1>1. \A ip : Nut!LoggedIn(ip)' = Nut!LoggedIn(ip)
  BY DEF Nut!LoggedIn
<1>2. ClientsAreLoggedIn'
  BY <1>1 DEF NutInv, ClientsAreLoggedIn
<1> QED
  BY <1>2 DEF NutInv

LEMMA NutSteps ==
  ASSUME NutInv, Nut!Next
  PROVE  NutInv'
<1>1. CASE \E p \in Specs \cup {Stopped} : Nut!Push(p)
  BY <1>1, NutQuiet DEF Nut!Push, NutInv
<1>2. CASE Nut!ApplyNUT
  BY <1>2, NutQuiet DEF Nut!ApplyNUT, NutInv, Wants
<1>8. CASE Nut!AcceptFails
  BY <1>8, NutQuiet DEF Nut!AcceptFails, NutInv
<1>3. CASE \E p \in {Nut!Want(q).port : q \in {r \in Specs : r.enabled}} : Nut!PortTaken(p)
  BY <1>3, NutQuiet DEF Nut!PortTaken, NutInv
<1>4. ASSUME NEW s \in Sessions, NEW ip \in Ips, Nut!Accept(s, ip) PROVE NutInv'
  <2> DEFINE new == [ip |-> ip, spec |-> spec, login |-> NoLogin, in |-> FALSE]
  <2>1. sess[s] = Nut!Closed /\ sess' = [sess EXCEPT ![s] = new] /\ push' = push /\ spec' = spec /\ clients' = clients
    BY <1>4 DEF Nut!Accept
  <2>2. new \in Session /\ new.in = FALSE /\ new.ip \in Ips
    BY DEF NutInv, Session
  <2> HIDE DEF new
  <2>3. sess' \in [Sessions -> Session] /\ \A x \in Sessions : sess'[x] = IF x = s THEN new ELSE sess[x]
    BY <2>1, <2>2 DEF NutInv
  <2> QED
    BY <2>1, <2>2, <2>3, ClosedType, NutQuiet DEF NutInv
<1>5. ASSUME NEW s \in Sessions, NEW l \in Logins, Nut!Authenticate(s, l) PROVE NutInv'
  <2> DEFINE new == [sess[s] EXCEPT !.login = l]
  <2>1. sess[s] # Nut!Closed /\ sess' = [sess EXCEPT ![s] = new] /\ push' = push /\ spec' = spec /\ clients' = clients
    BY <1>5 DEF Nut!Authenticate
  <2>2. new \in Session /\ new.in = sess[s].in /\ new.ip = sess[s].ip
    BY DEF NutInv, Session
  <2> HIDE DEF new
  <2>3. sess' \in [Sessions -> Session] /\ \A x \in Sessions : sess'[x] = IF x = s THEN new ELSE sess[x]
    BY <2>1, <2>2 DEF NutInv
  <2> QED
    BY <2>1, <2>2, <2>3, NutQuiet DEF NutInv
<1>6. ASSUME NEW s \in Sessions, NEW id \in Ids, Nut!Login(s, id) PROVE NutInv'
  <2> DEFINE new == [sess[s] EXCEPT !.in = TRUE]
             at == sess[s].ip
  <2>1. /\ sess[s] # Nut!Closed /\ sess' = [sess EXCEPT ![s] = new] /\ push' = push /\ spec' = spec
        /\ clients' = [clients EXCEPT ![at] = IF sess[s].in THEN @ ELSE @ + 1]
    BY <1>6 DEF Nut!Login
  <2>2. new \in Session /\ new.in /\ new.ip = at /\ at \in Ips
    BY <2>1 DEF NutInv, Session
  <2> HIDE DEF new
  <2>3. sess' \in [Sessions -> Session] /\ \A x \in Sessions : sess'[x] = IF x = s THEN new ELSE sess[x]
    BY <2>1, <2>2 DEF NutInv
  <2>4. \A ip \in Ips : Nut!LoggedIn(ip)' = IF ip = at THEN Nut!LoggedIn(ip) \cup {s} ELSE Nut!LoggedIn(ip)
    BY <2>2, <2>3 DEF Nut!LoggedIn
  <2>5. clients' \in [Ips -> Nat]
    BY <2>1, <2>2 DEF NutInv
  <2>6. \A ip \in Ips : clients[ip] = Cardinality(Nut!LoggedIn(ip))
    BY DEF NutInv, ClientsAreLoggedIn
  <2>7. \A ip \in Ips : clients'[ip] = Cardinality(Nut!LoggedIn(ip)')
    <3>1. CASE sess[s].in
      <4>1. Nut!LoggedIn(at) \cup {s} = Nut!LoggedIn(at)
        BY <3>1 DEF Nut!LoggedIn
      <4> QED
        BY <2>1, <2>2, <2>4, <2>6, <3>1, <4>1 DEF NutInv
    <3>2. CASE ~sess[s].in
      <4>1. s \notin Nut!LoggedIn(at)
        BY <3>2 DEF Nut!LoggedIn
      <4>2. Cardinality(Nut!LoggedIn(at) \cup {s}) = Cardinality(Nut!LoggedIn(at)) + 1
        BY <4>1, LoggedInFinite, FS_AddElement
      <4>3. \A ip \in Ips : clients'[ip] = IF ip = at THEN clients[ip] + 1 ELSE clients[ip]
        BY <2>1, <2>2, <3>2 DEF NutInv
      <4> QED
        BY <2>4, <2>6, <4>2, <4>3
    <3> QED
      BY <3>1, <3>2
  <2>8. ClientsAreLoggedIn'
    BY <2>7 DEF ClientsAreLoggedIn
  <2> QED
    BY <2>1, <2>2, <2>3, <2>5, <2>8 DEF NutInv
<1>7. ASSUME NEW s \in Sessions, Nut!End(s) PROVE NutInv'
  <2> DEFINE at == sess[s].ip
             closed == Nut!Closed
  <2>1. /\ sess[s] # closed /\ sess' = [sess EXCEPT ![s] = closed] /\ push' = push /\ spec' = spec
        /\ clients' = [clients EXCEPT ![at] = IF sess[s].in THEN @ - 1 ELSE @]
    BY <1>7 DEF Nut!End
  <2>2. closed \in Session /\ closed.in = FALSE /\ at \in Ips
    BY <2>1, ClosedType DEF NutInv
  <2> HIDE DEF closed
  <2>3. sess' \in [Sessions -> Session] /\ \A x \in Sessions : sess'[x] = IF x = s THEN closed ELSE sess[x]
    BY <2>1, <2>2 DEF NutInv
  <2>4. \A ip \in Ips : Nut!LoggedIn(ip)' = Nut!LoggedIn(ip) \ {s}
    BY <2>2, <2>3 DEF Nut!LoggedIn
  <2>6. \A ip \in Ips : clients[ip] = Cardinality(Nut!LoggedIn(ip)) /\ clients[ip] \in Nat
    BY DEF NutInv, ClientsAreLoggedIn
  <2>5. \A ip \in Ips : s \in Nut!LoggedIn(ip) <=> ip = at /\ sess[s].in
    BY DEF Nut!LoggedIn
  <2>7. \A ip \in Ips : clients'[ip] = Cardinality(Nut!LoggedIn(ip)') /\ clients'[ip] \in Nat
    <3> TAKE ip \in Ips
    <3>1. CASE s \in Nut!LoggedIn(ip)
      <4>1. /\ Cardinality(Nut!LoggedIn(ip) \ {s}) = Cardinality(Nut!LoggedIn(ip)) - 1
            /\ IsFiniteSet(Nut!LoggedIn(ip) \ {s})
        BY <3>1, LoggedInFinite, FS_RemoveElement
      <4>2. Cardinality(Nut!LoggedIn(ip) \ {s}) \in Nat
        BY <4>1, FS_CardinalityType
      <4>3. clients'[ip] = clients[ip] - 1
        BY <2>1, <2>2, <2>5, <3>1 DEF NutInv
      <4> QED
        BY <2>4, <2>6, <4>1, <4>2, <4>3
    <3>2. CASE s \notin Nut!LoggedIn(ip)
      <4>1. Nut!LoggedIn(ip) \ {s} = Nut!LoggedIn(ip)
        BY <3>2
      <4>2. clients'[ip] = clients[ip]
        BY <2>1, <2>2, <2>5, <3>2 DEF NutInv
      <4> QED
        BY <2>4, <2>6, <4>1, <4>2
    <3> QED
      BY <3>1, <3>2
  <2>8. ClientsAreLoggedIn' /\ clients' \in [Ips -> Nat]
    <3>1. ClientsAreLoggedIn'
      BY <2>7 DEF ClientsAreLoggedIn
    <3>2. DOMAIN clients' = Ips /\ clients' = [i \in Ips |-> clients'[i]]
      BY <2>1 DEF NutInv
    <3> QED
      BY <2>7, <3>1, <3>2
  <2> QED
    BY <2>1, <2>2, <2>3, <2>8 DEF NutInv, closed
<1> QED
  BY <1>1, <1>2, <1>3, <1>4, <1>5, <1>6, <1>7, <1>8 DEF Nut!Next

LEMMA NutRests == ASSUME NutInv, UNCHANGED nutVars PROVE NutInv'
<1>1. /\ push' = push /\ spec' = spec /\ sess' = sess /\ clients' = clients
  BY DEF nutVars
<1> QED
  BY <1>1, NutQuiet DEF NutInv

\* For every number of sessions, addresses and pushed blocks: the addresses
\* the NUT server reports as its clients are counted once per session that is
\* logged in, however logins, second logins, ends and restarts of the listener
\* interleave (Server.session).
THEOREM ClientsCounted == Spec => []ClientsAreLoggedIn
<1>1. Init => NutInv
  BY NutInits DEF Init
<1>2. ASSUME NutInv, [Next]_vars PROVE NutInv'
  <2>1. CASE NutStep
    BY <1>2, <2>1, NutSteps DEF NutStep, OfNut
  <2>2. CASE ~NutStep
    BY <1>2, <2>2, NutRests DEF Next, CardStep, OfCard, PowerStep, LogStep, vars
  <2> QED
    BY <2>1, <2>2
<1>3. NutInv => ClientsAreLoggedIn
  BY DEF NutInv
<1> QED
  BY <1>1, <1>2, <1>3, PTL DEF Spec

(***************************************************************************)
(* The outlets of a UPS.                                                    *)
(***************************************************************************)
\* Applying outlets is allowed from the first round that finds nothing to
\* switch, and not before.
CardInv ==
  /\ relay = [o \in Outlets |-> relay[o]]
  /\ (everOutletApplied /\ card # "pdu" /\ ~Allow) => agreed

\* The first round that applies finds nothing to switch.
LEMMA FirstApplyAgrees ==
  (~Card!HoldsInitialOutletPush /\ ~everOutletApplied /\ card # "pdu" /\ ~Allow) => Card!PlanOutlets = {}
  BY DEF Card!HoldsInitialOutletPush

LEMMA CardSteps ==
  ASSUME CardInv, Card!Next
  PROVE  CardInv' /\ Card!NoSurprise
<1>1. CASE Card!CardApplies \/ Card!Edit \/ Card!CollectFails \/ Card!Settle \/ Card!Crash \/ Card!Collect
           \/ Card!ApplyAddress \/ Card!ApplySyslog \/ Card!Hold
  <2>1. relay' = relay /\ everOutletApplied' = everOutletApplied /\ card' = card /\ agreed' = agreed
    BY <1>1 DEF Card!CardApplies, Card!Edit, Card!CollectFails, Card!Settle, Card!Crash, Card!Collect,
                Card!ApplyAddress, Card!ApplySyslog, Card!Hold, Card!device
  <2> QED
    BY <2>1 DEF CardInv, Card!NoSurprise
<1>2. CASE Card!Start
  BY <1>2 DEF Card!Start, Card!device, CardInv, Card!NoSurprise
<1>3. CASE Card!CycleOutlets
  BY <1>3 DEF Card!CycleOutlets, CardInv, Card!NoSurprise
<1>4. ASSUME NEW o \in Outlets, Card!RebootEnds(o) \/ Card!Hand(o) \/ Card!Relayctl(o)
      PROVE  CardInv' /\ Card!NoSurprise
  <2>1. everOutletApplied' = everOutletApplied /\ card' = card /\ agreed' = agreed /\ turn' = turn
    BY <1>4 DEF Card!RebootEnds, Card!Hand, Card!Relayctl
  <2>2. relay' = [relay EXCEPT ![o] = TRUE] \/ relay' = [relay EXCEPT ![o] = ~@] \/ relay' = relay
    BY <1>4 DEF Card!RebootEnds, Card!Hand, Card!Relayctl, Card!device
  <2>3. relay' = [x \in Outlets |-> relay'[x]]
    BY <2>2 DEF CardInv
  <2> QED
    BY <2>1, <2>3 DEF CardInv, Card!NoSurprise
<1>5. ASSUME NEW done, Card!Switched(done), done \subseteq Card!PlanOutlets
      PROVE  /\ relay' = [o \in Outlets |-> relay'[o]]
             /\ Card!PlanOutlets = {} => relay' = relay
  BY <1>5 DEF Card!Switched, CardInv
<1>6. CASE Card!ApplyOutlets
  <2>1. /\ Card!Switched(Card!PlanOutlets) /\ ~Card!HoldsInitialOutletPush /\ card' = card
        /\ everOutletApplied' = TRUE /\ agreed' = (agreed \/ Card!PlanOutlets = {})
    BY <1>6 DEF Card!ApplyOutlets
  <2> QED
    BY <1>5, <2>1, FirstApplyAgrees DEF CardInv, Card!NoSurprise
<1>7. CASE Card!ApplyOutletsFails
  <2>1. PICK failed, lost : Card!Switched((Card!PlanOutlets \ failed) \cup lost)
                            /\ lost \subseteq failed /\ failed \subseteq Card!PlanOutlets
    BY <1>7 DEF Card!ApplyOutletsFails
  <2>2. /\ ~Card!HoldsInitialOutletPush /\ card' = card
        /\ everOutletApplied' = everOutletApplied /\ agreed' = agreed
    BY <1>7 DEF Card!ApplyOutletsFails
  <2>3. (Card!PlanOutlets \ failed) \cup lost \subseteq Card!PlanOutlets
    BY <2>1
  <2>4. relay' = [o \in Outlets |-> relay'[o]] /\ (Card!PlanOutlets = {} => relay' = relay)
    BY <1>5, <2>1, <2>3
  <2> QED
    BY <2>2, <2>4, FirstApplyAgrees DEF CardInv, Card!NoSurprise
<1> QED
  BY <1>1, <1>2, <1>3, <1>4, <1>6, <1>7 DEF Card!Next, Card!Round

\* For every set of outlets and any number of edits, switches by hand, power
\* cycles, failed commands and crashes: bringing a UPS's outlets to the
\* controller's settings moves a relay only after this run has found the two
\* equal once (holdInitialOutletPush); a power cycle somebody asks for is not
\* held (CycleOutlets).
THEOREM HeldUntilAgreed == Spec => NoSurprise
<1>1. Init => CardInv
  BY DEF Init, Card!Init, CardInv
<1>2. ASSUME CardInv, [Next]_vars
      PROVE  CardInv' /\ [kind = "card" => Card!NoSurprise]_vars
  <2>1. CASE CardStep
    BY <1>2, <2>1, CardSteps DEF CardStep, OfCard
  <2>2. CASE UNCHANGED vars
    BY <1>2, <2>2 DEF vars, cardVars, CardInv
  <2>3. CASE PowerStep \/ NutStep \/ LogStep
    <3>1. kind # "card" /\ UNCHANGED cardVars
      BY <2>3 DEF PowerStep, NutStep, LogStep, OfNut
    <3> QED
      BY <1>2, <3>1 DEF cardVars, CardInv
  <2> QED
    BY <1>2, <2>1, <2>2, <2>3 DEF Next
<1> QED
  BY <1>1, <1>2, PTL DEF Spec, NoSurprise

(***************************************************************************)
(* The power log.                                                           *)
(***************************************************************************)
\* The tracker's count of an open outage is at most the readings it keeps, and
\* the readings counted all showed the alarm gone.
Counted(c) ==
  LET n == conds[c].okRun
  IN  /\ n < RecoverPolls /\ n <= Len(recent)
      /\ \A k \in 0..(n - 1) : recent[Len(recent) - k][c] = "cleared"

PowerType ==
  /\ ups \in Power!Readings /\ seeded \in BOOLEAN
  /\ conds \in [Conds -> [active : BOOLEAN, okRun : Nat]]
  /\ recent \in Seq(Power!Readings) /\ Len(recent) <= RecoverPolls

\* What the tracker takes for an outage is open in the log, is one the last
\* reading may still show, and is counted by the readings kept.
PowerInv ==
  /\ PowerType
  /\ seeded <=> recent # <<>>
  /\ seeded => open = {c \in Conds : conds[c].active}
  /\ \A c \in Conds : conds[c].active => Counted(c)
  /\ recent # <<>> => \A c \in Conds : recent[Len(recent)][c] = "raised" => conds[c].active
  /\ Power!OneOutage

\* What recent becomes when a reading joins it.
Window(s, r) == IF Len(Append(s, r)) > RecoverPolls THEN Tail(Append(s, r)) ELSE Append(s, r)

LEMMA WindowMoves ==
  ASSUME NEW s, NEW r, s \in Seq(Power!Readings), r \in Power!Readings, Len(s) <= RecoverPolls
  PROVE  /\ Window(s, r) \in Seq(Power!Readings) /\ Window(s, r) # <<>>
         /\ Len(Window(s, r)) = (IF Len(s) < RecoverPolls THEN Len(s) + 1 ELSE RecoverPolls)
         /\ Window(s, r)[Len(Window(s, r))] = r
         /\ \A k \in 1..(Len(Window(s, r)) - 1) : Window(s, r)[Len(Window(s, r)) - k] = s[Len(s) - (k - 1)]
<1> USE ServicesAssumption
<1>1. /\ Append(s, r) \in Seq(Power!Readings) /\ Len(Append(s, r)) = Len(s) + 1 /\ Len(s) \in Nat
      /\ \A i \in 1..(Len(s) + 1) : Append(s, r)[i] = IF i = Len(s) + 1 THEN r ELSE s[i]
  OBVIOUS
<1>2. CASE Len(s) < RecoverPolls
  <2>1. Window(s, r) = Append(s, r)
    BY <1>1, <1>2 DEF Window
  <2> QED
    BY <1>1, <1>2, <2>1
<1>3. CASE Len(s) = RecoverPolls
  <2> DEFINE t == Append(s, r)
  <2>1. Window(s, r) = Tail(t)
    BY <1>1, <1>3 DEF Window
  <2>2. t \in Seq(Power!Readings) /\ t # <<>> /\ Len(t) = RecoverPolls + 1
    BY <1>1, <1>3
  <2> HIDE DEF t
  <2>3. /\ Tail(t) \in Seq(Power!Readings) /\ Len(Tail(t)) = RecoverPolls
        /\ \A i \in 1..RecoverPolls : Tail(t)[i] = t[i + 1]
    BY <2>2
  <2>4. \A i \in 1..(RecoverPolls + 1) : t[i] = IF i = RecoverPolls + 1 THEN r ELSE s[i]
    BY <1>1, <1>3 DEF t
  <2>5. Tail(t)[RecoverPolls] = r /\ Tail(t) # <<>>
    BY <2>3, <2>4
  <2>6. \A k \in 1..(RecoverPolls - 1) : Tail(t)[RecoverPolls - k] = s[RecoverPolls - (k - 1)]
    <3> TAKE k \in 1..(RecoverPolls - 1)
    <3> DEFINE i == RecoverPolls - k
    <3>1. i \in 1..RecoverPolls /\ i + 1 \in 1..RecoverPolls /\ i + 1 = RecoverPolls - (k - 1)
      OBVIOUS
    <3> HIDE DEF i
    <3>2. Tail(t)[i] = s[i + 1]
      BY <2>3, <2>4, <3>1
    <3> QED
      BY <3>1, <3>2 DEF i
  <2> QED
    BY <1>3, <2>1, <2>3, <2>5, <2>6
<1> QED
  BY <1>1, <1>2, <1>3

LEMMA PowerInits == Power!Init => PowerInv
<1> SUFFICES ASSUME Power!Init PROVE PowerInv
  OBVIOUS
<1>1. /\ ups \in Power!Readings /\ seeded = FALSE /\ conds = [c \in Conds |-> [active |-> FALSE, okRun |-> 0]]
      /\ said = {} /\ recent = <<>>
  BY DEF Power!Init, Power!Fresh
<1>2. conds \in [Conds -> [active : BOOLEAN, okRun : Nat]]
  BY <1>1
<1>3. Len(recent) <= RecoverPolls /\ recent \in Seq(Power!Readings)
  BY <1>1, ServicesAssumption
<1>4. PowerType
  BY <1>1, <1>2, <1>3 DEF PowerType
<1> QED
  BY <1>1, <1>4 DEF PowerInv, Power!OneOutage

\* A condition over one reading.
LEMMA StepKinds ==
  ASSUME NEW k \in [active : BOOLEAN, okRun : Nat], NEW level
  PROVE  LET n == Power!Step(k, level) IN
         /\ n \in [active : BOOLEAN, okRun : Nat]
         /\ level = "raised" => n.active
         /\ (n.active /\ level # "cleared") => n.okRun = 0
         /\ (n.active /\ level = "cleared") => k.active /\ n.okRun = k.okRun + 1 /\ n.okRun < RecoverPolls
         /\ (k.active /\ ~n.active) => level = "cleared" /\ k.okRun + 1 >= RecoverPolls
  BY ServicesAssumption DEF Power!Step, Power!Recovers, Power!Fresh

\* The window after a poll counts an alarm that went on through it.
LEMMA CountGoesOn ==
  ASSUME PowerInv, recent' = Window(recent, ups), NEW c \in Conds, conds[c].active, ups[c] = "cleared",
         NEW n \in Nat, n = conds[c].okRun + 1, n <= RecoverPolls
  PROVE  /\ n <= Len(recent')
         /\ \A k \in 0..(n - 1) : recent'[Len(recent') - k][c] = "cleared"
<1> USE ServicesAssumption
<1>1. recent \in Seq(Power!Readings) /\ Len(recent) <= RecoverPolls /\ ups \in Power!Readings /\ Len(recent) \in Nat
  BY DEF PowerInv, PowerType
<1>2. conds[c].okRun \in Nat /\ Counted(c)
  BY DEF PowerInv, PowerType
<1>3. /\ Len(recent') = (IF Len(recent) < RecoverPolls THEN Len(recent) + 1 ELSE RecoverPolls)
      /\ recent'[Len(recent')] = ups
      /\ \A k \in 1..(Len(recent') - 1) : recent'[Len(recent') - k] = recent[Len(recent) - (k - 1)]
  BY <1>1, WindowMoves
<1>4. conds[c].okRun <= Len(recent) /\ \A k \in 0..(conds[c].okRun - 1) : recent[Len(recent) - k][c] = "cleared"
  BY <1>2 DEF Counted
<1>5. n <= Len(recent') /\ Len(recent') \in Nat
  BY <1>1, <1>2, <1>3, <1>4
<1>6. ASSUME NEW k \in 0..(n - 1) PROVE recent'[Len(recent') - k][c] = "cleared"
  <2>1. CASE k = 0
    BY <1>3, <1>5, <2>1
  <2>2. CASE k # 0
    <3>1. k \in 1..(Len(recent') - 1) /\ k - 1 \in 0..(conds[c].okRun - 1)
      BY <1>2, <1>5, <2>2
    <3> QED
      BY <1>3, <1>4, <3>1
  <2> QED
    BY <2>1, <2>2
<1> QED
  BY <1>5, <1>6

\* A recovery is said of an alarm that was on and is off.
LEMMA SaidRecovery ==
  ASSUME Power!Observe, NEW c \in Conds, Power!Line("recovery", c) \in said'
  PROVE  seeded /\ conds[c].active /\ ~conds'[c].active
  BY DEF Power!Observe, Power!Line

LEMMA Observed == ASSUME PowerInv, Power!Observe PROVE PowerInv'
<1> USE ServicesAssumption
<1>1. /\ ups' = ups /\ seeded' = TRUE /\ recent' = Window(recent, ups)
      /\ conds' = IF seeded THEN Power!Stepped ELSE Power!Seeded
  BY DEF Power!Observe, Window
<1>2. /\ recent \in Seq(Power!Readings) /\ Len(recent) <= RecoverPolls /\ ups \in Power!Readings
      /\ conds \in [Conds -> [active : BOOLEAN, okRun : Nat]] /\ Len(recent) \in Nat
  BY DEF PowerInv, PowerType
<1>3. /\ recent' \in Seq(Power!Readings) /\ recent' # <<>> /\ recent'[Len(recent')] = ups
      /\ Len(recent') = (IF Len(recent) < RecoverPolls THEN Len(recent) + 1 ELSE RecoverPolls)
  BY <1>1, <1>2, WindowMoves
<1>4. seeded => \A c \in Conds : conds'[c] = Power!Step(conds[c], ups[c])
  BY <1>1 DEF Power!Stepped
<1>5. ~seeded => \A c \in Conds : conds'[c].active = (ups[c] = "raised") /\ conds'[c].okRun = 0
  BY <1>1 DEF Power!Seeded
<1>6. conds' \in [Conds -> [active : BOOLEAN, okRun : Nat]]
  <2>1. CASE seeded
    <3>1. \A c \in Conds : Power!Step(conds[c], ups[c]) \in [active : BOOLEAN, okRun : Nat]
      BY <1>2, StepKinds
    <3> QED
      BY <1>1, <2>1, <3>1 DEF Power!Stepped
  <2>2. CASE ~seeded
    BY <1>1, <2>2 DEF Power!Seeded
  <2> QED
    BY <2>1, <2>2
<1>7. \A c \in Conds : ups[c] = "raised" => conds'[c].active
  <2> TAKE c \in Conds
  <2> HAVE ups[c] = "raised"
  <2>1. CASE seeded
    <3>1. Power!Step(conds[c], ups[c]).active
      BY <1>2, StepKinds
    <3> QED
      BY <1>4, <2>1, <3>1
  <2>2. CASE ~seeded
    <3>1. (ups[c] = "raised") = TRUE
      OBVIOUS
    <3> QED
      BY <1>5, <2>2, <3>1
  <2> QED
    BY <2>1, <2>2
<1>8. ASSUME NEW c \in Conds, conds'[c].active PROVE Counted(c)'
  <2>1. CASE conds'[c].okRun = 0
    BY <1>3, <2>1 DEF Counted
  <2>2. CASE conds'[c].okRun # 0
    <3>1. seeded
      BY <1>5, <2>2
    <3>2. ups[c] = "cleared" /\ conds[c].active /\ conds'[c].okRun = conds[c].okRun + 1 /\ conds'[c].okRun < RecoverPolls
      BY <1>2, <1>4, <1>8, <2>2, <3>1, StepKinds
    <3>3. conds'[c].okRun \in Nat /\ conds'[c].okRun <= RecoverPolls
      BY <1>6, <3>2
    <3> QED
      BY <1>1, <3>2, <3>3, CountGoesOn DEF Counted
  <2> QED
    BY <2>1, <2>2
<1>9. open' = {c \in Conds : conds'[c].active}
  <2>1. CASE seeded
    <3>1. open = {c \in Conds : conds[c].active}
      BY <2>1 DEF PowerInv
    <3> QED
      BY <1>1, <2>1, <3>1 DEF Power!Observe
  <2>2. CASE ~seeded
    BY <1>1, <2>2 DEF Power!Observe
  <2> QED
    BY <2>1, <2>2
<1>10. ASSUME NEW c \in Conds, Power!Line("recovery", c) \in said'
       PROVE  Len(recent') = RecoverPolls /\ \A i \in DOMAIN recent' : recent'[i][c] = "cleared"
  <2>1. seeded /\ conds[c].active /\ ~conds'[c].active
    BY <1>10, SaidRecovery
  <2>2. ups[c] = "cleared" /\ conds[c].okRun + 1 >= RecoverPolls
    BY <1>2, <1>4, <2>1, StepKinds
  <2>3. conds[c].okRun \in Nat /\ conds[c].okRun < RecoverPolls
    BY <1>2, <2>1 DEF PowerInv, Counted
  <2>4. RecoverPolls = conds[c].okRun + 1
    BY <2>2, <2>3
  <2>5. RecoverPolls <= Len(recent') /\ \A k \in 0..(RecoverPolls - 1) : recent'[Len(recent') - k][c] = "cleared"
    BY <1>1, <2>1, <2>2, <2>4, CountGoesOn
  <2>6. Len(recent') = RecoverPolls
    BY <1>2, <1>3, <2>5
  <2>7. \A i \in 1..RecoverPolls : recent'[i][c] = "cleared"
    <3> TAKE i \in 1..RecoverPolls
    <3>1. RecoverPolls - i \in 0..(RecoverPolls - 1) /\ RecoverPolls - (RecoverPolls - i) = i
      OBVIOUS
    <3> QED
      BY <2>5, <2>6, <3>1
  <2>8. DOMAIN recent' = 1..RecoverPolls
    BY <1>3, <2>6
  <2> QED
    BY <2>6, <2>7, <2>8
<1>11. PowerType'
  BY <1>1, <1>2, <1>3, <1>6 DEF PowerType
<1>12. Power!OneOutage'
  BY <1>3, <1>7, <1>9, <1>10 DEF Power!OneOutage, Power!Last
<1> QED
  BY <1>1, <1>3, <1>7, <1>8, <1>9, <1>11, <1>12 DEF PowerInv

\* Steps that leave the tracker alone and report no recovery.
LEMMA PowerQuiet ==
  ASSUME PowerInv, ups' \in Power!Readings, UNCHANGED <<seeded, conds, open, recent>>,
         \A c \in Conds : Power!Line("recovery", c) \in said' => Power!Line("recovery", c) \in said
  PROVE  PowerInv'
<1>1. PowerType'
  BY DEF PowerInv, PowerType
<1>2. \A c \in Conds : Counted(c)' <=> Counted(c)
  BY DEF Counted
<1>3. Power!OneOutage'
  BY DEF PowerInv, Power!OneOutage
<1> QED
  BY <1>1, <1>2, <1>3 DEF PowerInv

LEMMA PowerSteps == ASSUME PowerInv, Power!Next PROVE PowerInv'
<1>1. CASE Power!Change
  BY <1>1, PowerQuiet DEF Power!Change
<1>2. CASE Power!Observe
  BY <1>2, Observed
<1>3. CASE Power!Failed
  <2>1. \A c \in Conds : Power!Line("recovery", c) \notin said'
    BY <1>3 DEF Power!Failed, Power!Line
  <2>2. ups' \in Power!Readings /\ UNCHANGED <<seeded, conds, open, recent>>
    BY <1>3 DEF Power!Failed, PowerInv, PowerType
  <2> QED
    BY <2>1, <2>2, PowerQuiet
<1>4. CASE Power!Restart
  <2>1. /\ ups' = ups /\ seeded' = FALSE /\ conds' = [c \in Conds |-> [active |-> FALSE, okRun |-> 0]]
        /\ said' = {} /\ recent' = <<>>
    BY <1>4 DEF Power!Restart, Power!Fresh
  <2>2. conds' \in [Conds -> [active : BOOLEAN, okRun : Nat]]
    BY <2>1
  <2>3. Len(recent') <= RecoverPolls /\ recent' \in Seq(Power!Readings)
    BY <2>1, ServicesAssumption
  <2>4. PowerType'
    BY <2>1, <2>2, <2>3 DEF PowerInv, PowerType
  <2> QED
    BY <2>1, <2>4 DEF PowerInv, Power!OneOutage
<1> QED
  BY <1>1, <1>2, <1>3, <1>4 DEF Power!Next

\* For every set of conditions and every number of polls a recovery takes: the
\* log ends an outage only after that many readings in a row showed the alarm
\* gone, whatever polls failed between them, and an alarm the last reading
\* shows is an open outage (Tracker.Observe).
THEOREM FlapsAreOneOutage == Spec => []OneOutage
<1>1. Init => PowerInv
  BY PowerInits DEF Init
<1>2. ASSUME PowerInv, [Next]_vars PROVE PowerInv'
  <2>1. CASE PowerStep
    BY <1>2, <2>1, PowerSteps DEF PowerStep
  <2>2. CASE ~PowerStep
    <3>1. UNCHANGED powerVars
      BY <1>2, <2>2 DEF Next, CardStep, OfCard, NutStep, OfNut, LogStep, vars
    <3>2. UNCHANGED <<ups, seeded, conds, open, recent, said>>
      BY <3>1 DEF powerVars
    <3>3. ups' \in Power!Readings
      BY <1>2, <3>2 DEF PowerInv, PowerType
    <3> QED
      BY <1>2, <3>2, <3>3, PowerQuiet
  <2> QED
    BY <2>1, <2>2
<1>3. PowerInv => OneOutage
  BY DEF PowerInv, OneOutage
<1> QED
  BY <1>1, <1>2, <1>3, PTL DEF Spec

(***************************************************************************)
(* The exchange log.                                                        *)
(***************************************************************************)
LineT == [n : Nat, size : Nat, count : Nat]

LogType ==
  /\ file \in [0..Keep -> Seq(LineT) \cup {NoFile}] /\ isOpen \in BOOLEAN
  /\ quiet404 \in Nat /\ todo \in Seq(LineT) /\ pc \in {"idle", "encode", "remove", "move", "open"} /\ gen \in 0..Keep
  /\ accepted \in Seq(Nat) /\ seen404 \in Nat /\ logged404 \in Nat /\ lost404 \in Nat /\ lines \in Nat

\* The 404s the write under way stands for: the run before it when there are
\* two lines to write or the bridge stops, the first of a run, or none.
Due ==
  IF pc = "idle" THEN IF quiet404 > 1 THEN quiet404 - 1 ELSE 0 ELSE Head(todo).count
Writing ==
  \/ Len(todo) = 2 /\ quiet404 > 1 /\ todo[1].count = quiet404 - 1 /\ todo[2].count = 0
  \/ Len(todo) = 1 /\ quiet404 \in {0, 1}

Balance == /\ seen404 = logged404 + lost404 + Due
           /\ pc # "idle" => Writing

\* The live file is there while it is open, and a rotation has made room for
\* the file it moves next.
Rotation ==
  /\ isOpen => file[0] # NoFile
  /\ pc \in {"remove", "move", "open"} => ~isOpen
  /\ pc = "move" => gen \in 0..(Keep - 1) /\ file[gen + 1] = NoFile

\* File i holds the accepted lines after number b[i + 1] up to number b[i].
Cut(b) ==
  /\ b \in [0..(Keep + 1) -> Nat] /\ b[0] = Len(accepted)
  /\ \A i \in 0..Keep : /\ b[i + 1] <= b[i] /\ Len(Log!Lines(i)) = b[i] - b[i + 1]
                        /\ \A j \in 1..(b[i] - b[i + 1]) : Log!Lines(i)[j] = accepted[b[i + 1] + j]

LogInv == LogType /\ Balance /\ Rotation /\ \E b : Cut(b)

LEMMA LinesType ==
  ASSUME NEW i \in 0..Keep, LogType
  PROVE  /\ Log!Lines(i) \in Seq(Nat)
         /\ file[i] = NoFile => Log!Lines(i) = <<>>
         /\ file[i] # NoFile => /\ file[i] \in Seq(LineT) /\ Len(Log!Lines(i)) = Len(file[i])
                                /\ \A j \in 1..Len(file[i]) : Log!Lines(i)[j] = file[i][j].n
<1>1. CASE file[i] = NoFile
  BY <1>1 DEF Log!Lines
<1>2. CASE file[i] # NoFile
  <2> DEFINE f == file[i]
  <2>1. f \in Seq(LineT)
    BY <1>2 DEF LogType
  <2>2. Log!Lines(i) = [j \in DOMAIN f |-> f[j].n]
    BY <1>2 DEF Log!Lines
  <2> HIDE DEF f
  <2>3. DOMAIN f = 1..Len(f) /\ Len(f) \in Nat /\ \A j \in 1..Len(f) : f[j] \in LineT
    BY <2>1
  <2>4. \A j \in 1..Len(f) : f[j].n \in Nat
    BY <2>3 DEF LineT
  <2>5. [j \in 1..Len(f) |-> f[j].n] \in Seq(Nat) /\ Len([j \in 1..Len(f) |-> f[j].n]) = Len(f)
    BY <2>3, <2>4
  <2> QED
    BY <1>2, <2>1, <2>2, <2>3, <2>5 DEF f
<1> QED
  BY <1>1, <1>2

\* The sequence s is what is left of t after m.
Tailed(s, t, m) ==
  /\ s \in Seq(Nat) /\ m \in Nat /\ m <= Len(t) /\ Len(s) = Len(t) - m
  /\ \A j \in 1..Len(s) : s[j] = t[m + j]

\* The log is the accepted lines after number b[Keep + 1].
Tails == \A b : Cut(b) => Tailed(Log!Log, accepted, b[Keep + 1])
LEMMA LogIs == LogType => Tails
<1> SUFFICES ASSUME LogType, NEW b, Cut(b) PROVE Tailed(Log!Log, accepted, b[Keep + 1])
  BY DEF Tails
<1> DEFINE N == Keep + 1
           seqs == [i \in 1..N |-> Log!Lines(Log!Oldest[i])]
<1>1. N \in Nat \ {0} /\ Keep \in Nat
  BY ServicesAssumption
<1>2. \A i \in 1..N : Log!Oldest[i] = N - i /\ N - i \in 0..Keep
  BY <1>1 DEF Log!Oldest
<1>3. \A i \in 1..N : seqs[i] = Log!Lines(N - i)
  BY <1>2
<1>4. seqs \in [1..N -> Seq(Nat)]
  BY <1>2, <1>3, LinesType
<1>5. Log!Log = FlattenSeq(seqs)
  BY DEF Log!Log, Log!FlattenSeq, FlattenSeq
<1> HIDE DEF seqs, N
<1>0. PICK f : Flattens(f, seqs, N, Nat)
  BY <1>1, <1>4, FlattenIs
<1>6. /\ f \in [1..N -> Seq(Nat)] /\ FlattenSeq(seqs) = f[N] /\ f[1] = seqs[1]
      /\ \A i \in 1..(N - 1) : f[i + 1] = f[i] \o seqs[i + 1]
  BY <1>0 DEF Flattens
<1>7. b \in [0..N -> Nat] /\ b[0] = Len(accepted) /\ Len(accepted) \in Nat
  <2>1. b \in [0..N -> Nat] /\ b[0] = Len(accepted)
    BY Zenon DEF Cut, N
  <2>2. accepted \in Seq(Nat)
    BY DEF LogType
  <2> QED
    BY <2>1, <2>2
<1>8. \A i \in 1..N : /\ b[N - i] \in Nat /\ b[(N - i) + 1] \in Nat /\ b[(N - i) + 1] <= b[N - i]
                      /\ seqs[i] \in Seq(Nat) /\ Len(seqs[i]) = b[N - i] - b[(N - i) + 1]
                      /\ \A j \in 1..Len(seqs[i]) : seqs[i][j] = accepted[b[(N - i) + 1] + j]
  <2> TAKE i \in 1..N
  <2> DEFINE k == N - i
  <2>1. k \in 0..Keep /\ k + 1 \in 0..N /\ k \in 0..N
    BY <1>1 DEF N
  <2>2. b[k] \in Nat /\ b[k + 1] \in Nat
    BY <1>7, <2>1
  <2>3. seqs[i] = Log!Lines(k) /\ seqs[i] \in Seq(Nat)
    BY <1>3, <1>4
  <2> HIDE DEF k
  <2>4. /\ b[k + 1] <= b[k] /\ Len(Log!Lines(k)) = b[k] - b[k + 1]
        /\ \A j \in 1..(b[k] - b[k + 1]) : Log!Lines(k)[j] = accepted[b[k + 1] + j]
    BY <2>1 DEF Cut
  <2>5. /\ b[k + 1] <= b[k] /\ Len(seqs[i]) = b[k] - b[k + 1]
        /\ \A j \in 1..Len(seqs[i]) : seqs[i][j] = accepted[b[k + 1] + j]
    BY <2>3, <2>4
  <2> QED
    BY <2>2, <2>3, <2>5 DEF k
<1> DEFINE T == {i \in 1..N : /\ b[N] <= b[N - i] /\ Len(f[i]) = b[N - i] - b[N]
                              /\ \A j \in 1..Len(f[i]) : f[i][j] = accepted[b[N] + j]}
<1>9. 1 \in T
  <2>1. 1 \in 1..N /\ (N - 1) + 1 = N
    BY <1>1
  <2> QED
    BY <1>6, <1>8, <2>1
<1>10. ASSUME NEW i \in 1..(N - 1), i \in T PROVE i + 1 \in T
  <2> DEFINE k == N - (i + 1)
  <2>1. i \in 1..N /\ i + 1 \in 1..N /\ k + 1 = N - i /\ k \in 0..N
    BY <1>1
  <2>2. b[k] \in Nat /\ b[k + 1] \in Nat /\ b[N] \in Nat
    BY <1>1, <1>7, <2>1
  <2>3. /\ b[N] <= b[k + 1] /\ Len(f[i]) = b[k + 1] - b[N] /\ \A j \in 1..Len(f[i]) : f[i][j] = accepted[b[N] + j]
    BY <1>10, <2>1
  <2>4. /\ b[k + 1] <= b[k] /\ seqs[i + 1] \in Seq(Nat) /\ Len(seqs[i + 1]) = b[k] - b[k + 1]
        /\ \A j \in 1..Len(seqs[i + 1]) : seqs[i + 1][j] = accepted[b[k + 1] + j]
    BY <1>8, <2>1
  <2>5. f[i] \in Seq(Nat) /\ f[i + 1] = f[i] \o seqs[i + 1]
    BY <1>6, <2>1
  <2> DEFINE s == f[i]
             t == seqs[i + 1]
  <2>9. s \in Seq(Nat) /\ t \in Seq(Nat)
    BY <2>4, <2>5
  <2> HIDE DEF s, t
  <2>6. /\ Len(s \o t) = Len(s) + Len(t) /\ Len(s) \in Nat /\ Len(t) \in Nat
        /\ \A j \in 1..(Len(s) + Len(t)) : (s \o t)[j] = IF j <= Len(s) THEN s[j] ELSE t[j - Len(s)]
    BY <2>9, ConcatProperties
  <2>10. f[i] = s /\ seqs[i + 1] = t /\ f[i + 1] = s \o t
    BY <2>5 DEF s, t
  <2> HIDE DEF k
  <2>7. Len(f[i + 1]) = b[k] - b[N] /\ b[N] <= b[k]
    <3>1. Len(s) = b[k + 1] - b[N] /\ Len(t) = b[k] - b[k + 1]
      BY <2>3, <2>4, <2>10
    <3>2. Len(f[i + 1]) = Len(s) + Len(t)
      BY <2>6, <2>10
    <3>3. b[N] <= b[k + 1] /\ b[k + 1] <= b[k]
      BY <2>3, <2>4
    <3> HIDE DEF N
    <3> QED
      BY <2>2, <3>1, <3>2, <3>3
  <2>8. ASSUME NEW j \in 1..Len(f[i + 1]) PROVE f[i + 1][j] = accepted[b[N] + j]
    <3>1. CASE j <= Len(f[i])
      BY <2>3, <2>6, <2>10, <3>1
    <3>2. CASE ~(j <= Len(f[i]))
      <4>1. j - Len(f[i]) \in 1..Len(seqs[i + 1])
        BY <2>6, <2>10, <3>2
      <4>2. b[k + 1] + (j - Len(f[i])) = b[N] + j
        BY <2>2, <2>3, <2>6, <2>10
      <4> QED
        BY <2>4, <2>6, <2>10, <3>2, <4>1, <4>2
    <3> QED
      BY <3>1, <3>2
  <2> QED
    BY <2>1, <2>7, <2>8 DEF k
<1>11. 1..N \subseteq T
  <2> HIDE DEF T
  <2> QED
    BY <1>1, <1>9, <1>10, Upwards
<1>12. N \in T /\ N - N = 0 /\ N \in 1..N
  BY <1>1, <1>11
<1>13. f[N] \in Seq(Nat) /\ b[N] \in Nat
  BY <1>1, <1>6, <1>7
<1> QED
  BY <1>5, <1>6, <1>7, <1>12, <1>13 DEF N, Tailed

LEMMA TailIsSuffix ==
  ASSUME NEW s, NEW t \in Seq(Nat), NEW m, Tailed(s, t, m)
  PROVE  Log!IsSuffix(s, t)
<1>1. s \in Seq(Nat) /\ m \in Nat /\ m <= Len(t) /\ Len(s) = Len(t) - m /\ Len(s) \in Nat /\ Len(t) \in Nat
  BY DEF Tailed
<1> DEFINE rs == [i \in 1..Len(s) |-> s[(Len(s) - i) + 1]]
           rt == [i \in 1..Len(t) |-> t[(Len(t) - i) + 1]]
<1>2. rs \in Seq(Nat) /\ Len(rs) = Len(s) /\ rt \in Seq(Nat) /\ Len(rt) = Len(t)
  <2>1. \A i \in 1..Len(s) : s[(Len(s) - i) + 1] \in Nat
    BY <1>1
  <2>2. \A i \in 1..Len(t) : t[(Len(t) - i) + 1] \in Nat
    BY <1>1
  <2> QED
    BY <1>1, <2>1, <2>2
<1>3. ASSUME NEW i \in 1..Len(s) PROVE rs[i] = rt[i]
  <2>1. (Len(s) - i) + 1 \in 1..Len(s) /\ m + ((Len(s) - i) + 1) = (Len(t) - i) + 1 /\ i \in 1..Len(t)
    BY <1>1
  <2> QED
    BY <2>1 DEF Tailed
<1> HIDE DEF rs, rt
<1>4. SubSeq(rs, 1, Len(rs)) = SubSeq(rt, 1, Len(rs))
  <2>1. /\ SubSeq(rs, 1, Len(rs)) = [i \in 1..Len(s) |-> rs[i]]
        /\ SubSeq(rt, 1, Len(rs)) = [i \in 1..Len(s) |-> rt[i]]
    <3>1. \A u, n : (u \in Seq(Nat) /\ n \in Nat /\ n <= Len(u)) => SubSeq(u, 1, n) = [i \in 1..n |-> u[i]]
      <4> SUFFICES ASSUME NEW u, NEW n, u \in Seq(Nat), n \in Nat, n <= Len(u)
                   PROVE  SubSeq(u, 1, n) = [i \in 1..n |-> u[i]]
        OBVIOUS
      <4>1. Len(u) \in Nat /\ \A i \in 1..n : i \in 1..Len(u)
        OBVIOUS
      <4>2. SubSeq(u, 1, n) = [i \in 1..((1 + n) - 1) |-> u[(i + 1) - 1]]
        BY SMT
      <4>3. (1 + n) - 1 = n /\ \A i \in 1..n : (i + 1) - 1 = i
        OBVIOUS
      <4> QED
        BY <4>2, <4>3
    <3> QED
      BY <1>1, <1>2, <3>1
  <2> QED
    BY <1>3, <2>1
<1>5. Log!Reverse(s) = rs /\ Log!Reverse(t) = rt
  BY DEF Log!Reverse, rs, rt
<1> QED
  <2>1. Len(rs) <= Len(rt)
    BY <1>1, <1>2
  <2>2. Log!IsPrefix(rs, rt)
    BY <1>4, <2>1 DEF Log!IsPrefix
  <2> QED
    BY <1>5, <2>2 DEF Log!IsSuffix

\* A step that appends, or drops what the oldest generation holds.
LEMMA Newest ==
  ASSUME LogType, LogType', NEW b, NEW b2, Cut(b), Cut(b2)',
         Len(accepted) <= Len(accepted'), \A j \in 1..Len(accepted) : accepted'[j] = accepted[j],
         b2[Keep + 1] = b[Keep + 1] \/ b2[Keep + 1] = b[Keep]
  PROVE  Log!KeepsNewest
<1> DEFINE l == Log!Log
           l2 == Log!Log'
           m == b[Keep + 1]
           m2 == b2[Keep + 1]
<1>1. accepted \in Seq(Nat) /\ accepted' \in Seq(Nat) /\ Len(accepted) \in Nat /\ Len(accepted') \in Nat
  <2>1. accepted \in Seq(Nat)
    BY DEF LogType
  <2>2. accepted' \in Seq(Nat)
    BY DEF LogType
  <2> QED
    BY <2>1, <2>2
<1>2. Tailed(l, accepted, m)
  BY LogIs DEF Tails
<1>3. (LogType => Tails)'
  BY LogIs, PTL
<1>4. Tailed(l2, accepted', m2)
  BY <1>3 DEF Tails
<1>5. Log!IsSuffix(l2, accepted')
  BY <1>1, <1>4, TailIsSuffix
<1>6. /\ b[Keep] \in Nat /\ m \in Nat /\ m <= b[Keep] /\ Len(Log!Lines(Keep)) = b[Keep] - m
      /\ \A j \in 1..(b[Keep] - m) : Log!Lines(Keep)[j] = accepted[m + j]
  <2>1. Keep \in 0..Keep /\ Keep \in 0..(Keep + 1) /\ Keep + 1 \in 0..(Keep + 1)
    BY ServicesAssumption
  <2>2. b \in [0..(Keep + 1) -> Nat]
    BY DEF Cut
  <2>3. b[Keep] \in Nat /\ m \in Nat
    BY <2>1, <2>2
  <2> QED
    BY <2>1, <2>3 DEF Cut
<1>7. Log!Lines(Keep) \in Seq(Nat)
  BY ServicesAssumption, LinesType
<1> HIDE DEF l, l2, m, m2
<1>8. ASSUME NEW x \in Log!ToSet(l), x \notin Log!ToSet(l2) PROVE x \in Log!ToSet(Log!Lines(Keep))
  <2>1. PICK j \in 1..Len(l) : x = accepted[m + j]
    <3>1. l \in Seq(Nat) /\ \A j \in 1..Len(l) : l[j] = accepted[m + j]
      BY <1>2 DEF Tailed
    <3>2. PICK j \in DOMAIN l : x = l[j]
      BY <1>8 DEF Log!ToSet
    <3>3. j \in 1..Len(l)
      BY <3>1, <3>2
    <3> QED
      BY <3>1, <3>2, <3>3
  <2>2. j \in Nat /\ m + j \in 1..Len(accepted) /\ m + j \in 1..Len(accepted') /\ x = accepted'[m + j]
    <3>1. m \in Nat /\ Len(l) = Len(accepted) - m
      BY <1>2 DEF Tailed
    <3>2. j \in Nat /\ m + j \in 1..Len(accepted) /\ m + j \in 1..Len(accepted')
      BY <1>1, <2>1, <3>1
    <3> QED
      BY <2>1, <3>2
  <2>3. ~(m + j > m2)
    <3> SUFFICES ASSUME m + j > m2 PROVE FALSE
      OBVIOUS
    <3>1. (m + j) - m2 \in 1..Len(l2) /\ m2 + ((m + j) - m2) = m + j
      BY <1>1, <1>2, <1>4, <2>2 DEF Tailed
    <3>2. l2[(m + j) - m2] = x /\ (m + j) - m2 \in DOMAIN l2
      BY <1>4, <2>2, <3>1 DEF Tailed
    <3> QED
      BY <1>8, <3>2 DEF Log!ToSet
  <2>4. m2 = b[Keep] /\ j \in 1..(b[Keep] - m)
    <3>1. m \in Nat /\ b[Keep] \in Nat /\ j \in Nat /\ j # 0
      BY <1>6, <2>1, <2>2
    <3>2. m2 \in Nat
      BY <1>4 DEF Tailed
    <3>3. m2 = m \/ m2 = b[Keep]
      BY DEF m, m2
    <3> QED
      BY <2>3, <3>1, <3>2, <3>3
  <2>5. Log!Lines(Keep)[j] = x /\ j \in DOMAIN Log!Lines(Keep)
    <3>1. Log!Lines(Keep)[j] = x
      BY <1>6, <2>1, <2>4
    <3>2. DOMAIN Log!Lines(Keep) = 1..(b[Keep] - m)
      BY <1>6, <1>7
    <3> QED
      BY <2>4, <3>1, <3>2
  <2> QED
    BY <2>5 DEF Log!ToSet
<1> QED
  BY <1>5, <1>8 DEF Log!KeepsNewest, l, l2

LEMMA EmptyFile == <<>> \in Seq(LineT) /\ <<>> # NoFile /\ 0 \in 0..Keep
<1>1. <<>> \in Seq(LineT)
  BY EmptySeq
<1>2. NoFile \notin Seq(LineT)
  BY ServicesAssumption DEF LineT
<1>3. 0 \in 0..Keep
  BY ServicesAssumption
<1> QED
  BY <1>1, <1>2, <1>3

LEMMA LogInits == Log!Init => LogInv
<1> SUFFICES ASSUME Log!Init PROVE LogInv
  OBVIOUS
<1>1. LogType
  <2>1. file \in [0..Keep -> Seq(LineT) \cup {NoFile}]
    <3> DEFINE e == <<>>
    <3>1. e \in Seq(LineT) /\ file = [i \in 0..Keep |-> IF i = 0 THEN e ELSE NoFile]
      BY EmptyFile DEF Log!Init
    <3> HIDE DEF e
    <3> QED
      BY <3>1
  <2>2. todo \in Seq(LineT) /\ accepted \in Seq(Nat)
    BY EmptySeq DEF Log!Init
  <2>3. gen \in 0..Keep
    BY EmptyFile DEF Log!Init
  <2> QED
    BY <2>1, <2>2, <2>3 DEF Log!Init, LogType
<1>2. Balance /\ Rotation
  <2>1. file[0] = <<>> /\ <<>> \in Seq(LineT)
    BY EmptyFile DEF Log!Init
  <2>2. file[0] # NoFile
    BY <2>1, EmptyFile
  <2>3. Rotation
    BY <2>2 DEF Log!Init, Rotation
  <2>4. quiet404 = 0 /\ pc = "idle" /\ seen404 = 0 /\ logged404 = 0 /\ lost404 = 0
    BY Zenon DEF Log!Init
  <2> QED
    BY <2>3, <2>4 DEF Balance, Due
<1>3. \A i \in 0..Keep : Log!Lines(i) = <<>>
  <2> TAKE i \in 0..Keep
  <2>1. CASE file[i] = NoFile
    BY <2>1 DEF Log!Lines
  <2>2. CASE file[i] = <<>>
    <3>1. Len(Log!Lines(i)) = 0 /\ Log!Lines(i) \in Seq(Nat)
      BY <1>1, <2>2, LinesType
    <3> QED
      BY <3>1
  <2> QED
    BY <2>1, <2>2 DEF Log!Init
<1>4. Cut([i \in 0..(Keep + 1) |-> 0])
  <2> DEFINE b == [i \in 0..(Keep + 1) |-> 0]
  <2>1. \A i \in 0..Keep : i \in 0..(Keep + 1) /\ i + 1 \in 0..(Keep + 1)
    BY ServicesAssumption
  <2>2. b \in [0..(Keep + 1) -> Nat] /\ b[0] = 0 /\ \A i \in 0..Keep : b[i] = 0 /\ b[i + 1] = 0
    BY <2>1, ServicesAssumption
  <2>3. Len(accepted) = 0
    BY DEF Log!Init
  <2> HIDE DEF b
  <2>4. Cut(b)
    BY <1>3, <2>2, <2>3 DEF Cut
  <2> QED
    BY <2>4 DEF b
<1> QED
  BY <1>1, <1>2, <1>4 DEF LogInv

\* Steps that leave the lines of every file as they are.
SameLines == accepted' = accepted /\ \A i \in 0..Keep : Log!Lines(i)' = Log!Lines(i)
LEMMA CutStays == ASSUME SameLines, NEW b, Cut(b) PROVE Cut(b)'
  BY DEF SameLines, Cut

LEMMA FilesSame == ASSUME accepted' = accepted, file' = file PROVE SameLines
  BY DEF SameLines, Log!Lines

\* The live file is made when it is not there.
LEMMA LiveMade ==
  ASSUME LogType, accepted' = accepted, file' = [file EXCEPT ![0] = IF @ = NoFile THEN <<>> ELSE @]
  PROVE  SameLines /\ file'[0] # NoFile /\ file' \in [0..Keep -> Seq(LineT) \cup {NoFile}]
<1>1. 0 \in 0..Keep /\ <<>> \in Seq(LineT) /\ <<>> # NoFile
  BY EmptyFile
<1> DEFINE f0 == IF file[0] = NoFile THEN <<>> ELSE file[0]
<1>2. f0 \in Seq(LineT) /\ f0 # NoFile
  BY <1>1 DEF LogType
<1>3. file' = [file EXCEPT ![0] = f0]
  OBVIOUS
<1> HIDE DEF f0
<1>4. file'[0] = f0 /\ \A i \in 0..Keep : i # 0 => file'[i] = file[i]
  BY <1>1, <1>3 DEF LogType
<1>5. file' \in [0..Keep -> Seq(LineT) \cup {NoFile}]
  BY <1>2, <1>3 DEF LogType
<1>6. ASSUME NEW i \in 0..Keep PROVE Log!Lines(i)' = Log!Lines(i)
  <2>1. CASE i # 0 \/ file[0] # NoFile
    <3>1. file'[i] = file[i]
      BY <1>4, <2>1 DEF f0
    <3> QED
      BY <3>1 DEF Log!Lines
  <2>2. CASE i = 0 /\ file[0] = NoFile
    <3>1. file'[i] = <<>> /\ file'[i] # NoFile
      BY <1>1, <1>4, <2>2 DEF f0
    <3>2. Log!Lines(i)' = [j \in DOMAIN file'[i] |-> file'[i][j].n]
      BY <3>1 DEF Log!Lines
    <3>3. Log!Lines(i)' = [j \in {} |-> file'[i][j].n]
      BY <3>1, <3>2
    <3>4. [j \in {} |-> file'[i][j].n] = <<>>
      OBVIOUS
    <3> QED
      BY <2>2, <3>3, <3>4 DEF Log!Lines
  <2> QED
    BY <2>1, <2>2
<1> QED
  BY <1>2, <1>4, <1>5, <1>6 DEF SameLines

\* A write under way has a line to write.
LEMMA HasLine ==
  ASSUME LogType, Balance, pc # "idle"
  PROVE  /\ Writing /\ Len(todo) \in {1, 2} /\ todo # <<>> /\ Head(todo) = todo[1] /\ Head(todo) \in LineT
         /\ Head(todo).n \in Nat /\ Head(todo).count \in Nat
         /\ Tail(todo) \in Seq(LineT) /\ Len(Tail(todo)) = Len(todo) - 1
         /\ Len(todo) = 2 => Tail(todo)[1] = todo[2]
<1>1. Writing /\ todo \in Seq(LineT)
  BY DEF Balance, LogType
<1>2. Len(todo) \in {1, 2}
  BY <1>1 DEF Writing
<1>3. todo # <<>>
  BY <1>1, <1>2
<1>4. /\ Head(todo) = todo[1] /\ Head(todo) \in LineT /\ Tail(todo) \in Seq(LineT) /\ Len(Tail(todo)) = Len(todo) - 1
      /\ Len(todo) = 2 => Tail(todo)[1] = todo[2]
  BY <1>1, <1>2, <1>3
<1>5. Head(todo).n \in Nat /\ Head(todo).count \in Nat
  BY <1>4 DEF LineT
<1> QED
  BY <1>1, <1>2, <1>3, <1>4, <1>5

\* A line of the write that is made up.
LEMMA LineOf ==
  ASSUME NEW n \in Nat, NEW size \in Nat, NEW count \in Nat
  PROVE  Log!Line(n, size, count) \in LineT /\ Log!Line(n, size, count).count = count
  BY DEF LineT, Log!Line

LEMMA OneLine ==
  ASSUME NEW l \in LineT
  PROVE  <<l>> \in Seq(LineT) /\ Len(<<l>>) = 1 /\ <<l>>[1] = l /\ Head(<<l>>) = l
  OBVIOUS

LEMMA TwoLines ==
  ASSUME NEW l \in LineT, NEW l2 \in LineT
  PROVE  /\ <<l, l2>> \in Seq(LineT) /\ Len(<<l, l2>>) = 2 /\ <<l, l2>>[1] = l /\ <<l, l2>>[2] = l2
         /\ Head(<<l, l2>>) = l
  OBVIOUS

\* What a write begins with.
LEMMA Begins ==
  ASSUME LogType, Log!Write404First \/ Log!Write \/ Log!Close
  PROVE  /\ todo' \in Seq(LineT) /\ quiet404' \in Nat /\ Writing' /\ pc' = "encode" /\ pc = "idle"
         /\ seen404' \in Nat /\ seen404' - Head(todo').count = seen404 - Due /\ lines' \in Nat
         /\ Head(todo').count \in Nat
<1>0. quiet404 \in Nat /\ seen404 \in Nat /\ lines \in Nat /\ Sizes \subseteq Nat
  BY ServicesAssumption DEF LogType
<1>1. CASE Log!Write404First
  <2>1. PICK size \in Sizes : todo' = <<Log!Line(lines + 1, size, 1)>>
    BY <1>1 DEF Log!Write404First
  <2> DEFINE l == Log!Line(lines + 1, size, 1)
  <2>2. l \in LineT /\ l.count = 1 /\ todo' = <<l>>
    <3>1. lines + 1 \in Nat /\ size \in Nat /\ 1 \in Nat
      BY <1>0
    <3> QED
      BY <2>1, <3>1, LineOf
  <2> HIDE DEF l
  <2>3. todo' \in Seq(LineT) /\ Len(todo') = 1 /\ todo'[1] = l /\ Head(todo') = l
    BY <2>2, OneLine
  <2>4. /\ pc = "idle" /\ quiet404 = 0 /\ quiet404' = 1 /\ seen404' = seen404 + 1 /\ lines' = lines + 1 /\ pc' = "encode"
    BY <1>1 DEF Log!Write404First
  <2>5. Writing'
    BY <2>2, <2>3, <2>4 DEF Writing
  <2>6. Due = 0
    BY <2>4 DEF Due
  <2> QED
    BY <1>0, <2>2, <2>3, <2>4, <2>5, <2>6
<1>2. CASE Log!Write
  <2>1. /\ pc = "idle" /\ pc' = "encode" /\ seen404' = seen404 /\ lines' = lines + Len(todo')
        /\ quiet404' = IF quiet404 > 1 THEN quiet404 ELSE 0
    BY <1>2 DEF Log!Write
  <2>2. PICK size \in Sizes : todo' = IF quiet404 > 1
          THEN <<Log!Line(lines + 1, 1, quiet404 - 1), Log!Line(lines + 2, size, 0)>> ELSE <<Log!Line(lines + 1, size, 0)>>
    BY <1>2 DEF Log!Write
  <2>3. CASE quiet404 > 1
    <3> DEFINE l == Log!Line(lines + 1, 1, quiet404 - 1)
               l2 == Log!Line(lines + 2, size, 0)
    <3>1. l \in LineT /\ l.count = quiet404 - 1 /\ l2 \in LineT /\ l2.count = 0
      <4>1. lines + 1 \in Nat /\ lines + 2 \in Nat /\ size \in Nat /\ 1 \in Nat /\ 0 \in Nat /\ quiet404 - 1 \in Nat
        BY <1>0, <2>3
      <4> QED
        BY <4>1, LineOf
    <3>2. todo' = <<l, l2>>
      BY <2>2, <2>3
    <3> HIDE DEF l, l2
    <3>3. todo' \in Seq(LineT) /\ Len(todo') = 2 /\ todo'[1] = l /\ todo'[2] = l2 /\ Head(todo') = l
      BY <3>1, <3>2, TwoLines
    <3>4. Writing'
      BY <1>0, <2>1, <2>3, <3>1, <3>3 DEF Writing
    <3>5. Due = quiet404 - 1
      BY <2>1, <2>3 DEF Due
    <3> QED
      BY <1>0, <2>1, <2>3, <3>1, <3>3, <3>4, <3>5
  <2>4. CASE ~(quiet404 > 1)
    <3> DEFINE l == Log!Line(lines + 1, size, 0)
    <3>1. l \in LineT /\ l.count = 0
      <4>1. lines + 1 \in Nat /\ size \in Nat /\ 0 \in Nat
        BY <1>0
      <4> QED
        BY <4>1, LineOf
    <3>2. todo' = <<l>>
      BY <2>2, <2>4
    <3> HIDE DEF l
    <3>3. todo' \in Seq(LineT) /\ Len(todo') = 1 /\ todo'[1] = l /\ Head(todo') = l
      BY <3>1, <3>2, OneLine
    <3>4. Writing'
      BY <1>0, <2>1, <2>4, <3>1, <3>3 DEF Writing
    <3>5. Due = 0
      BY <2>1, <2>4 DEF Due
    <3> QED
      BY <1>0, <2>1, <2>4, <3>1, <3>3, <3>4, <3>5
  <2> QED
    BY <2>3, <2>4
<1>3. CASE Log!Close
  <2> DEFINE l == Log!Line(lines + 1, 1, quiet404 - 1)
  <2>1. /\ pc = "idle" /\ pc' = "encode" /\ seen404' = seen404 /\ lines' = lines + 1
        /\ quiet404 > 1 /\ quiet404' = 0 /\ todo' = <<l>>
    BY <1>3 DEF Log!Close
  <2>2. l \in LineT /\ l.count = quiet404 - 1
    <3>1. lines + 1 \in Nat /\ 1 \in Nat /\ quiet404 - 1 \in Nat
      BY <1>0, <2>1
    <3> QED
      BY <3>1, LineOf
  <2> HIDE DEF l
  <2>3. todo' \in Seq(LineT) /\ Len(todo') = 1 /\ todo'[1] = l /\ Head(todo') = l
    BY <2>1, <2>2, OneLine
  <2>4. Writing'
    BY <2>1, <2>3 DEF Writing
  <2>5. Due = quiet404 - 1
    BY <2>1 DEF Due
  <2> QED
    BY <1>0, <2>1, <2>2, <2>3, <2>4, <2>5
<1> QED
  BY <1>1, <1>2, <1>3

\* Every step accounts for the 404s it counts, writes or drops.
LEMMA StaysBalanced == ASSUME LogType, Balance, Log!Next PROVE Balance'
<1>0. quiet404 \in Nat /\ seen404 \in Nat /\ logged404 \in Nat /\ lost404 \in Nat
  BY DEF LogType
<1>1. CASE Log!Write404Again
  <2>1. pc = "idle" /\ pc' = pc /\ quiet404 > 0 /\ quiet404' = quiet404 + 1 /\ seen404' = seen404 + 1
    BY <1>1 DEF Log!Write404Again
  <2>2. UNCHANGED <<logged404, lost404>>
    BY <1>1 DEF Log!Write404Again
  <2>3. Due' = quiet404 /\ Due = quiet404 - 1
    BY <1>0, <2>1 DEF Due
  <2> QED
    BY <1>0, <2>1, <2>2, <2>3 DEF Balance
<1>2. CASE Log!Write404First \/ Log!Write \/ Log!Close
  <2>1. UNCHANGED <<logged404, lost404>>
    BY <1>2 DEF Log!Write404First, Log!Write, Log!Close
  <2>2. Due' = Head(todo').count
    BY <1>2, Begins DEF Due
  <2>3. seen404' \in Nat /\ Head(todo').count \in Nat /\ seen404' - Head(todo').count = seen404 - Due
    BY <1>2, Begins
  <2>4. Due \in Nat /\ seen404 = logged404 + lost404 + Due
    <3>1. pc = "idle"
      BY <1>2, Begins
    <3> QED
      BY <1>0, <3>1 DEF Balance, Due
  <2>5. seen404' = logged404' + lost404' + Due'
    <3> DEFINE c == Head(todo').count
    <3>1. Due' = c /\ c \in Nat /\ seen404' \in Nat /\ seen404' - c = seen404 - Due
      BY <2>2, <2>3
    <3> DEFINE s2 == seen404'
    <3>2. s2 \in Nat /\ s2 - c = seen404 - Due
      BY <3>1
    <3> HIDE DEF c, s2
    <3>3. s2 = logged404 + lost404 + c
      BY <1>0, <2>4, <3>1, <3>2
    <3> QED
      BY <2>1, <3>1, <3>3 DEF s2
  <2> QED
    BY <1>2, <2>5, Begins DEF Balance
<1>3. CASE Log!Reopen \/ Log!Rotate \/ Log!RemoveOldest \/ Log!MoveUp \/ Log!OpenLive
  <2>1. pc # "idle" /\ pc' # "idle" /\ UNCHANGED <<quiet404, todo, seen404, logged404, lost404>>
    BY <1>3 DEF Log!Reopen, Log!Rotate, Log!RemoveOldest, Log!MoveUp, Log!Moved, Log!OpenLive
  <2>2. Due' = Due /\ (Writing' <=> Writing)
    BY <2>1 DEF Due, Writing
  <2> QED
    BY <2>1, <2>2 DEF Balance
<1>4. CASE Log!OpenFails \/ Log!WriteFails
  <2>1. /\ pc # "idle" /\ pc' = "idle" /\ UNCHANGED <<quiet404, seen404, logged404>>
        /\ lost404' = lost404 + (IF quiet404 > 1 THEN 0 ELSE Head(todo).count)
    BY <1>4 DEF Log!OpenFails, Log!WriteFails, Log!Fails
  <2>2. /\ todo # <<>> /\ Head(todo) = todo[1] /\ Due = Head(todo).count /\ Due \in Nat
        /\ Writing /\ seen404 = logged404 + lost404 + Due
    BY <2>1, HasLine DEF Balance, Due
  <2>3. CASE quiet404 > 1
    <3>1. Due = quiet404 - 1 /\ Due' = quiet404 - 1
      BY <1>0, <2>1, <2>2, <2>3 DEF Writing, Due
    <3>2. lost404' = lost404
      BY <1>0, <2>1, <2>3
    <3> QED
      BY <2>1, <2>2, <3>1, <3>2 DEF Balance
  <2>4. CASE ~(quiet404 > 1)
    <3>1. Due' = 0
      BY <2>1, <2>4 DEF Due
    <3>2. lost404' = lost404 + Due
      BY <2>1, <2>2, <2>4
    <3> QED
      BY <1>0, <2>1, <2>2, <3>1, <3>2 DEF Balance
  <2> QED
    BY <2>3, <2>4
<1>5. CASE Log!AppendLine
  <2>1. /\ pc = "encode" /\ UNCHANGED <<seen404, lost404>> /\ logged404' = logged404 + Head(todo).count
        /\ todo' = Tail(todo) /\ pc' = IF Len(todo) > 1 THEN "encode" ELSE "idle"
        /\ quiet404' = IF Len(todo) > 1 THEN 0 ELSE quiet404
    BY <1>5 DEF Log!AppendLine
  <2>2. /\ Len(todo) \in {1, 2} /\ Head(todo) = todo[1] /\ Due = Head(todo).count /\ Head(todo).count \in Nat
        /\ Tail(todo) \in Seq(LineT) /\ Len(Tail(todo)) = Len(todo) - 1
        /\ (Len(todo) = 2 => Tail(todo)[1] = todo[2]) /\ Writing /\ seen404 = logged404 + lost404 + Due
    BY <2>1, HasLine DEF Balance, Due
  <2>6. logged404' = logged404 + Due /\ Due \in Nat
    BY <2>1, <2>2
  <2>3. CASE Len(todo) = 2
    <3>1. pc' = "encode" /\ quiet404' = 0 /\ todo[2].count = 0
      BY <2>1, <2>2, <2>3 DEF Writing
    <3>2. todo' \in Seq(LineT) /\ Len(todo') = 1 /\ todo'[1] = todo[2]
      <4> DEFINE t == Tail(todo)
      <4>1. t \in Seq(LineT) /\ Len(t) = 1 /\ t[1] = todo[2] /\ todo' = t
        BY <2>1, <2>2, <2>3
      <4> HIDE DEF t
      <4> QED
        BY <4>1
    <3>3. Head(todo') = todo'[1]
      BY <3>2
    <3>4. Due' = 0 /\ Writing'
      BY <3>1, <3>2, <3>3 DEF Due, Writing
    <3> QED
      BY <1>0, <2>1, <2>2, <2>6, <3>4 DEF Balance
  <2>4. CASE Len(todo) = 1
    <3>1. pc' = "idle" /\ quiet404' \in {0, 1}
      BY <2>1, <2>2, <2>4 DEF Writing
    <3>2. Due' = 0
      BY <3>1 DEF Due
    <3> QED
      BY <1>0, <2>1, <2>2, <2>6, <3>1, <3>2 DEF Balance
  <2> QED
    BY <2>2, <2>3, <2>4
<1>6. CASE Log!Crash
  <2>1. pc' = "idle" /\ quiet404' = 0 /\ seen404' = 0 /\ logged404' = 0 /\ lost404' = 0
    BY <1>6 DEF Log!Crash
  <2> QED
    BY <2>1 DEF Balance, Due
<1> QED
  BY <1>1, <1>2, <1>3, <1>4, <1>5, <1>6 DEF Log!Next

\* The types and the rotation's file operations.
LEMMA StaysRotating == ASSUME LogType, Balance, Rotation, Log!Next PROVE LogType' /\ Rotation'
<1> DEFINE Files == [0..Keep -> Seq(LineT) \cup {NoFile}]
<1>0. /\ quiet404 \in Nat /\ seen404 \in Nat /\ logged404 \in Nat /\ lost404 \in Nat /\ lines \in Nat /\ file \in Files
      /\ gen \in 0..Keep /\ Keep \in Nat \ {0} /\ accepted \in Seq(Nat) /\ todo \in Seq(LineT)
  BY ServicesAssumption DEF LogType
<1>1. CASE Log!Write404Again
  <2>1. UNCHANGED <<file, isOpen, pc, gen, todo, accepted, logged404, lost404, lines>>
    BY <1>1 DEF Log!Write404Again
  <2>2. quiet404' \in Nat /\ seen404' \in Nat
    BY <1>0, <1>1 DEF Log!Write404Again
  <2> QED
    BY <2>1, <2>2 DEF LogType, Rotation
<1>2. CASE Log!Write404First \/ Log!Write \/ Log!Close
  <2>1. UNCHANGED <<file, isOpen, gen, accepted, logged404, lost404>>
    BY <1>2 DEF Log!Write404First, Log!Write, Log!Close
  <2>2. todo' \in Seq(LineT) /\ quiet404' \in Nat /\ pc' = "encode" /\ seen404' \in Nat /\ lines' \in Nat
    BY <1>2, Begins
  <2> QED
    BY <2>1, <2>2 DEF LogType, Rotation
<1>3. CASE Log!Reopen \/ Log!OpenLive \/ Log!Crash
  <2>1. /\ file' = [file EXCEPT ![0] = IF @ = NoFile THEN <<>> ELSE @] /\ accepted' = accepted /\ lines' = lines
        /\ isOpen' = TRUE /\ pc' \in {"encode", "idle"} /\ gen' \in {gen, 0} /\ quiet404' \in {quiet404, 0}
        /\ seen404' \in {seen404, 0} /\ logged404' \in {logged404, 0} /\ lost404' \in {lost404, 0}
        /\ todo' \in {todo, <<>>}
    BY <1>3 DEF Log!Reopen, Log!OpenLive, Log!Crash
  <2>2. file'[0] # NoFile /\ file' \in Files
    BY <2>1, LiveMade
  <2>3. todo' \in Seq(LineT)
    BY <1>0, <2>1, EmptyFile
  <2>4. gen' \in 0..Keep
    BY <1>0, <2>1
  <2> QED
    <3>1. quiet404' \in Nat /\ seen404' \in Nat /\ logged404' \in Nat /\ lost404' \in Nat /\ lines' \in Nat
      BY <1>0, <2>1
    <3>2. isOpen' \in BOOLEAN /\ accepted' \in Seq(Nat) /\ pc' \in {"encode", "idle"}
      BY <1>0, <2>1
    <3>3. LogType'
      BY <2>2, <2>3, <2>4, <3>1, <3>2 DEF LogType
    <3> QED
      BY <2>2, <3>2, <3>3 DEF Rotation
<1>4. CASE Log!OpenFails \/ Log!WriteFails
  <2>1. /\ UNCHANGED <<file, isOpen, gen, accepted, quiet404, seen404, logged404, lines>> /\ pc' = "idle" /\ todo' = <<>>
        /\ pc # "idle" /\ lost404' = lost404 + (IF quiet404 > 1 THEN 0 ELSE Head(todo).count)
    BY <1>4 DEF Log!OpenFails, Log!WriteFails, Log!Fails
  <2>2. lost404' \in Nat
    <3>1. Head(todo).count \in Nat
      BY <2>1, HasLine
    <3> QED
      BY <1>0, <2>1, <3>1
  <2>3. todo' \in Seq(LineT)
    BY <2>1, EmptyFile
  <2> QED
    BY <2>1, <2>2, <2>3 DEF LogType, Rotation
<1>5. CASE Log!AppendLine
  <2> DEFINE h == Head(todo)
  <2>1. /\ pc = "encode" /\ isOpen /\ file' = [file EXCEPT ![0] = Append(@, h)] /\ accepted' = Append(accepted, h.n)
        /\ logged404' = logged404 + h.count /\ todo' = Tail(todo) /\ pc' \in {"encode", "idle"} /\ quiet404' \in {0, quiet404}
        /\ UNCHANGED <<gen, isOpen, seen404, lost404, lines>>
    BY <1>5 DEF Log!AppendLine
  <2>2. h \in LineT /\ h.n \in Nat /\ h.count \in Nat /\ Tail(todo) \in Seq(LineT)
    BY <2>1, HasLine
  <2> HIDE DEF h
  <2>3. file[0] \in Seq(LineT)
    BY <1>0, <2>1 DEF Rotation
  <2> DEFINE f0 == Append(file[0], h)
  <2>4. f0 \in Seq(LineT)
    BY <2>2, <2>3
  <2>5. file' = [file EXCEPT ![0] = f0]
    BY <2>1
  <2>6. f0 # NoFile
    BY <2>4, ServicesAssumption DEF LineT
  <2> HIDE DEF f0
  <2>7. file' \in Files /\ file'[0] = f0
    BY <1>0, <2>4, <2>5
  <2>8. accepted' \in Seq(Nat) /\ logged404' \in Nat
    BY <1>0, <2>1, <2>2
  <2>9. LogType'
    BY <1>0, <2>1, <2>2, <2>7, <2>8 DEF LogType
  <2> QED
    BY <2>1, <2>6, <2>7, <2>9 DEF Rotation
<1>6. CASE Log!Rotate
  <2>1. UNCHANGED <<file, gen, quiet404, todo, accepted, seen404, logged404, lost404, lines>> /\ isOpen' = FALSE /\ pc' = "remove"
    BY <1>6 DEF Log!Rotate
  <2> QED
    BY <2>1 DEF LogType, Rotation
<1>7. CASE Log!RemoveOldest
  <2>1. /\ pc = "remove" /\ file' = [file EXCEPT ![Keep] = NoFile] /\ pc' = "move" /\ gen' = Keep - 1
        /\ UNCHANGED <<isOpen, quiet404, todo, accepted, seen404, logged404, lost404, lines>>
    BY <1>7 DEF Log!RemoveOldest
  <2>2. Keep \in 0..Keep /\ gen' \in 0..(Keep - 1) /\ gen' \in 0..Keep /\ gen' + 1 = Keep
    BY <1>0, <2>1
  <2>3. file' \in Files /\ file'[gen' + 1] = NoFile
    BY <1>0, <2>1, <2>2
  <2>4. isOpen' = FALSE
    BY <2>1 DEF Rotation, LogType
  <2> QED
    BY <2>1, <2>2, <2>3, <2>4 DEF LogType, Rotation
<1>8. CASE Log!MoveUp
  <2>1. /\ pc = "move" /\ pc' = IF gen = 0 THEN "open" ELSE "move"
        /\ gen' = IF gen = 0 THEN 0 ELSE gen - 1
        /\ file' = IF file[gen] = NoFile THEN file ELSE [file EXCEPT ![gen + 1] = file[gen], ![gen] = NoFile]
        /\ UNCHANGED <<isOpen, quiet404, todo, accepted, seen404, logged404, lost404, lines>>
    BY <1>8 DEF Log!MoveUp, Log!Moved
  <2>2. gen \in 0..Keep /\ gen + 1 \in 0..Keep /\ gen + 1 # gen
    BY <1>0, <2>1 DEF Rotation
  <2>3. file' \in Files /\ file'[gen] = NoFile
    <3>1. CASE file[gen] = NoFile
      BY <1>0, <2>1, <3>1
    <3>2. CASE file[gen] # NoFile
      <4> DEFINE f == file[gen]
      <4>1. file' = [file EXCEPT ![gen + 1] = f, ![gen] = NoFile] /\ f \in Seq(LineT) \cup {NoFile}
        BY <1>0, <2>1, <2>2, <3>2
      <4> HIDE DEF f
      <4> QED
        BY <1>0, <2>2, <4>1
    <3> QED
      BY <3>1, <3>2
  <2>4. isOpen' = FALSE
    BY <2>1 DEF Rotation, LogType
  <2>5. gen' \in 0..Keep /\ (pc' = "move" => gen' \in 0..(Keep - 1) /\ gen' + 1 = gen)
    BY <1>0, <2>1, <2>2
  <2> QED
    BY <2>1, <2>3, <2>4, <2>5 DEF LogType, Rotation
<1> QED
  BY <1>1, <1>2, <1>3, <1>4, <1>5, <1>6, <1>7, <1>8 DEF Log!Next

\* How a step moves the cuts: none, the oldest generation goes, a file moves
\* up, or a line is appended.
Moves(b, b2) == Cut(b2)' /\ (b2[Keep + 1] = b[Keep + 1] \/ b2[Keep + 1] = b[Keep])

LEMMA CutOf ==
  ASSUME NEW b, Cut(b), NEW i \in 0..Keep
  PROVE  /\ b[i] \in Nat /\ b[i + 1] \in Nat /\ b[i + 1] <= b[i] /\ Len(Log!Lines(i)) = b[i] - b[i + 1]
         /\ \A j \in 1..(b[i] - b[i + 1]) : Log!Lines(i)[j] = accepted[b[i + 1] + j]
<1>1. i \in 0..(Keep + 1) /\ i + 1 \in 0..(Keep + 1)
  BY ServicesAssumption
<1>2. b \in [0..(Keep + 1) -> Nat]
  BY DEF Cut
<1> QED
  BY <1>1, <1>2 DEF Cut

\* No cut is past the end.
LEMMA CutBelow == ASSUME LogType, NEW b, Cut(b) PROVE \A i \in 0..(Keep + 1) : b[i] <= Len(accepted)
<1> DEFINE N == Keep + 1
           T == {i \in 0..N : b[i] <= Len(accepted)}
<1>1. N \in Nat /\ b \in [0..N -> Nat] /\ b[0] = Len(accepted)
  BY ServicesAssumption DEF Cut
<1>2. Len(accepted) \in Nat
  BY DEF LogType
<1>3. 0 \in T
  BY <1>1, <1>2
<1>4. \A i \in 0..(N - 1) : i \in T => i + 1 \in T
  <2> TAKE i \in 0..(N - 1)
  <2>1. i \in 0..Keep /\ i + 1 \in 0..N /\ i \in 0..N
    BY ServicesAssumption
  <2>2. b[i] \in Nat /\ b[i + 1] \in Nat /\ b[i + 1] <= b[i]
    BY <2>1, CutOf
  <2> QED
    BY <1>2, <2>1, <2>2
<1>5. 1 \in T /\ N \in Nat \ {0}
  <2>1. 0 \in 0..(N - 1) /\ 0 + 1 = 1 /\ N \in Nat \ {0}
    BY ServicesAssumption
  <2> QED
    BY <1>3, <1>4, <2>1
<1>6. \A i \in 1..(N - 1) : i \in T => i + 1 \in T
  BY <1>1, <1>4
<1> HIDE DEF T
<1>7. 1..N \subseteq T
  BY <1>1, <1>5, <1>6, Upwards
<1>8. \A i \in 0..N : i = 0 \/ i \in 1..N
  BY <1>1
<1>9. \A i \in 0..N : i \in T
  BY <1>3, <1>7, <1>8
<1> QED
  BY <1>9 DEF T

LEMMA OldestGoes == ASSUME LogType, NEW b, Cut(b), Log!RemoveOldest PROVE \E b2 : Moves(b, b2)
<1> DEFINE N == Keep + 1
           b2 == [b EXCEPT ![N] = b[Keep]]
<1>1. /\ file' = [file EXCEPT ![Keep] = NoFile] /\ accepted' = accepted /\ file \in [0..Keep -> Seq(LineT) \cup {NoFile}]
  BY DEF Log!RemoveOldest, LogType
<1>2. Keep \in Nat /\ Keep \in 0..Keep /\ Keep \in 0..N /\ N \in 0..N /\ 0 \in 0..N /\ N # 0
  BY ServicesAssumption
<1>3. b \in [0..N -> Nat] /\ b[0] = Len(accepted) /\ b[Keep] \in Nat
  BY <1>2 DEF Cut
<1> DEFINE k == b[Keep]
<1> HIDE DEF N, k
<1>4. b2 \in [0..N -> Nat] /\ b2[N] = k /\ \A i \in 0..N : i # N => b2[i] = b[i]
  BY <1>2, <1>3 DEF k
<1> HIDE DEF b2
<1>5. ASSUME NEW i \in 0..Keep
      PROVE  /\ b2[i + 1] <= b2[i] /\ Len(Log!Lines(i)') = b2[i] - b2[i + 1]
             /\ \A j \in 1..(b2[i] - b2[i + 1]) : Log!Lines(i)'[j] = accepted[b2[i + 1] + j]
  <2>1. i \in 0..N /\ i + 1 \in 0..N /\ i # N /\ (i # Keep => i + 1 # N)
    BY <1>2 DEF N
  <2>2. CASE i # Keep
    <3>1. b2[i] = b[i] /\ b2[i + 1] = b[i + 1]
      BY <1>4, <2>1, <2>2
    <3>2. Log!Lines(i)' = Log!Lines(i)
      BY <1>1, <2>2 DEF Log!Lines
    <3> QED
      BY <3>1, <3>2, CutOf
  <2>3. CASE i = Keep
    <3>1. b2[i] = k /\ b2[i + 1] = k /\ k \in Nat
      BY <1>3, <1>4, <2>1, <2>3 DEF N, k
    <3>2. Log!Lines(i)' = <<>>
      BY <1>1, <2>3 DEF Log!Lines
    <3> QED
      BY <3>1, <3>2
  <2> QED
    BY <2>2, <2>3
<1>6. b2[0] = Len(accepted)
  BY <1>2, <1>3, <1>4
<1>7. Cut(b2)'
  BY <1>1, <1>4, <1>5, <1>6 DEF Cut, N
<1> QED
  BY <1>4, <1>7 DEF Moves, N, k

LEMMA FileMoves ==
  ASSUME LogType, Rotation, NEW b, Cut(b), Log!MoveUp, file[gen] # NoFile PROVE \E b2 : Moves(b, b2)
<1>0. PICK g : g = gen
  OBVIOUS
<1> DEFINE N == Keep + 1
           k == b[g]
           f == file[g]
           b2 == [b EXCEPT ![g + 1] = k]
<1>1. /\ file' = [file EXCEPT ![g + 1] = f, ![g] = NoFile] /\ accepted' = accepted
      /\ file \in [0..Keep -> Seq(LineT) \cup {NoFile}] /\ pc = "move"
  BY <1>0 DEF Log!MoveUp, Log!Moved, LogType
<1>2. g \in 0..(Keep - 1) /\ file[g + 1] = NoFile /\ Keep \in Nat
  BY <1>0, <1>1, ServicesAssumption DEF Rotation
<1>3. b \in [0..N -> Nat] /\ b[0] = Len(accepted)
  BY DEF Cut
<1>4. g \in 0..Keep /\ g + 1 \in 0..Keep /\ g \in 0..N /\ g + 1 \in 0..N /\ g + 1 # N /\ g + 1 # 0 /\ N \in 0..N /\ 0 \in 0..N
  BY <1>2
<1>5. k \in Nat
  BY <1>3, <1>4
<1>6. Log!Lines(g + 1) = <<>> /\ b[g + 1] = b[(g + 1) + 1]
  <2>1. Log!Lines(g + 1) = <<>>
    BY <1>2 DEF Log!Lines
  <2>2. b[g + 1] \in Nat /\ b[(g + 1) + 1] \in Nat /\ 0 = b[g + 1] - b[(g + 1) + 1]
    BY <1>4, <2>1, CutOf
  <2> QED
    BY <2>1, <2>2
<1> HIDE DEF N, k, f
<1>7. b2 \in [0..N -> Nat] /\ b2[g + 1] = k /\ \A i \in 0..N : i # g + 1 => b2[i] = b[i]
  BY <1>3, <1>4, <1>5
<1> HIDE DEF b2
<1>8. file'[g + 1] = f /\ file'[g] = NoFile /\ \A i \in 0..Keep : (i # g /\ i # g + 1) => file'[i] = file[i]
  BY <1>1, <1>2, <1>4
<1>9. ASSUME NEW i \in 0..Keep
      PROVE  /\ b2[i + 1] <= b2[i] /\ Len(Log!Lines(i)') = b2[i] - b2[i + 1]
             /\ \A j \in 1..(b2[i] - b2[i + 1]) : Log!Lines(i)'[j] = accepted[b2[i + 1] + j]
  <2>1. i \in 0..N /\ i + 1 \in 0..N /\ (i # g => i + 1 # g + 1)
    BY <1>2 DEF N
  <2>2. CASE i # g /\ i # g + 1
    <3>1. b2[i] = b[i] /\ b2[i + 1] = b[i + 1]
      BY <1>7, <2>1, <2>2
    <3>2. Log!Lines(i)' = Log!Lines(i)
      BY <1>8, <2>2 DEF Log!Lines
    <3> QED
      BY <3>1, <3>2, CutOf
  <2>3. CASE i = g
    <3>1. b2[i] = k /\ b2[i + 1] = k
      <4>1. g # g + 1
        BY <1>2
      <4> QED
        BY <1>4, <1>7, <2>3, <4>1 DEF k
    <3>2. Log!Lines(i)' = <<>>
      BY <1>8, <2>3 DEF Log!Lines
    <3> QED
      BY <1>5, <3>1, <3>2
  <2>4. CASE i = g + 1
    <3>1. b2[i] = k /\ b2[i + 1] = b[g + 1]
      <4>1. i + 1 # g + 1
        BY <1>2, <2>4
      <4>2. b2[i + 1] = b[(g + 1) + 1]
        BY <1>7, <2>1, <2>4, <4>1
      <4> QED
        BY <1>6, <1>7, <2>4, <4>2
    <3>2. Log!Lines(i)' = Log!Lines(g)
      BY <1>0, <1>8, <2>4 DEF Log!Lines, f
    <3> QED
      BY <1>4, <3>1, <3>2, CutOf DEF k
  <2> QED
    BY <2>2, <2>3, <2>4
<1>10. b2[0] = Len(accepted) /\ b2[N] = b[N]
  BY <1>3, <1>4, <1>7
<1>11. Cut(b2)'
  BY <1>1, <1>7, <1>9, <1>10 DEF Cut, N
<1> QED
  BY <1>10, <1>11 DEF Moves, N

LEMMA LineAdded ==
  ASSUME LogType, LogType', Balance, Rotation, NEW b, Cut(b), Log!AppendLine
  PROVE  \E b2 : Moves(b, b2)
<1>0. PICK n : n = Len(accepted)
  OBVIOUS
<1> DEFINE N == Keep + 1
           h == Head(todo)
           f == file[0]
           b2 == [b EXCEPT ![0] = n + 1]
<1>1. /\ file' = [file EXCEPT ![0] = Append(f, h)] /\ accepted' = Append(accepted, h.n) /\ isOpen /\ pc = "encode"
      /\ file \in [0..Keep -> Seq(LineT) \cup {NoFile}] /\ accepted \in Seq(Nat)
  BY DEF Log!AppendLine, LogType
<1>2. h \in LineT /\ h.n \in Nat
  BY <1>1, HasLine
<1>3. Keep \in Nat \ {0} /\ 0 \in 0..Keep /\ 0 \in 0..N /\ N \in 0..N /\ N # 0
  BY ServicesAssumption
<1>4. f \in Seq(LineT) /\ f # NoFile
  BY <1>1, <1>3 DEF Rotation
<1>5. b \in [0..N -> Nat] /\ b[0] = n
  BY <1>0 DEF Cut
<1>6. n \in Nat
  BY <1>0, <1>1
<1> HIDE DEF h, N, f
<1> DEFINE a2 == Append(accepted, h.n)
           f2 == Append(f, h)
<1>7. Len(a2) = n + 1 /\ a2[n + 1] = h.n /\ \A j \in 1..n : a2[j] = accepted[j]
  BY <1>0, <1>1, <1>2
<1>8. Len(f) \in Nat /\ f2 \in Seq(LineT) /\ Len(f2) = Len(f) + 1 /\ f2[Len(f) + 1] = h /\ \A j \in 1..Len(f) : f2[j] = f[j]
  BY <1>2, <1>4
<1>9. accepted' = a2 /\ file'[0] = f2 /\ (\A i \in 0..Keep : i # 0 => file'[i] = file[i])
  BY <1>1, <1>3
<1>10. f2 # NoFile
  BY <1>8, ServicesAssumption DEF LineT
<1> HIDE DEF a2, f2
<1>11. b2 \in [0..N -> Nat] /\ b2[0] = n + 1 /\ \A i \in 0..N : i # 0 => b2[i] = b[i]
  BY <1>3, <1>5, <1>6
<1> HIDE DEF b2
<1>12. /\ b[1] \in Nat /\ b[1] <= n /\ Len(Log!Lines(0)) = n - b[1]
       /\ \A j \in 1..(n - b[1]) : Log!Lines(0)[j] = accepted[b[1] + j]
  <2>1. /\ b[0 + 1] \in Nat /\ b[0 + 1] <= b[0] /\ Len(Log!Lines(0)) = b[0] - b[0 + 1]
        /\ \A j \in 1..(b[0] - b[0 + 1]) : Log!Lines(0)[j] = accepted[b[0 + 1] + j]
    BY <1>3, CutOf, Zenon
  <2>2. 0 + 1 = 1
    OBVIOUS
  <2> QED
    BY <1>5, <2>1, <2>2
<1>13. Len(f) = n - b[1] /\ \A j \in 1..(n - b[1]) : f[j].n = accepted[b[1] + j]
  <2>1. Len(Log!Lines(0)) = Len(f) /\ \A j \in 1..Len(f) : Log!Lines(0)[j] = f[j].n
    BY <1>3, <1>4, LinesType DEF f
  <2> QED
    BY <1>12, <2>1
<1>14. Len(Log!Lines(0)') = Len(f2) /\ \A j \in 1..Len(f2) : Log!Lines(0)'[j] = f2[j].n
  <2>1. Log!Lines(0)' = [j \in DOMAIN f2 |-> f2[j].n]
    BY <1>9, <1>10 DEF Log!Lines
  <2>2. DOMAIN f2 = 1..Len(f2) /\ Len(f2) \in Nat
    BY <1>8
  <2>3. \A j \in 1..Len(f2) : f2[j].n \in Nat
    <3>1. \A j \in 1..Len(f2) : f2[j] \in LineT
      BY <1>8
    <3> QED
      BY <3>1 DEF LineT
  <2>4. [j \in 1..Len(f2) |-> f2[j].n] \in Seq(Nat) /\ Len([j \in 1..Len(f2) |-> f2[j].n]) = Len(f2)
    BY <2>2, <2>3
  <2> QED
    BY <2>1, <2>2, <2>4
<1>15. ASSUME NEW i \in 0..Keep
       PROVE  /\ b2[i + 1] <= b2[i] /\ Len(Log!Lines(i)') = b2[i] - b2[i + 1]
              /\ \A j \in 1..(b2[i] - b2[i + 1]) : Log!Lines(i)'[j] = a2[b2[i + 1] + j]
  <2>1. i \in 0..N /\ i + 1 \in 0..N /\ i + 1 # 0 /\ b2[i + 1] = b[i + 1]
    <3>1. i \in 0..N /\ i + 1 \in 0..N /\ i + 1 # 0
      BY <1>3 DEF N
    <3> QED
      BY <1>11, <3>1
  <2>2. CASE i # 0
    <3>1. b2[i] = b[i] /\ b[i] \in Nat /\ b[i + 1] \in Nat
      BY <1>5, <1>11, <2>1, <2>2
    <3>2. Log!Lines(i)' = Log!Lines(i)
      BY <1>9, <2>2 DEF Log!Lines
    <3>3. b[i] <= n
      BY <1>0, <2>1, CutBelow DEF N
    <3>4. /\ b[i + 1] <= b[i] /\ Len(Log!Lines(i)) = b[i] - b[i + 1]
          /\ \A j \in 1..(b[i] - b[i + 1]) : Log!Lines(i)[j] = accepted[b[i + 1] + j]
      BY CutOf
    <3>5. \A j \in 1..(b[i] - b[i + 1]) : b[i + 1] + j \in 1..n
      BY <1>6, <3>1, <3>3
    <3> QED
      <4>1. \A j \in 1..(b[i] - b[i + 1]) : a2[b[i + 1] + j] = accepted[b[i + 1] + j]
        BY <1>7, <3>5
      <4>2. b2[i + 1] = b[i + 1] /\ b2[i] = b[i]
        BY <2>1, <3>1
      <4> QED
        BY <3>2, <3>4, <4>1, <4>2
  <2>3. CASE i = 0
    <3>1. b2[i + 1] = b[1] /\ b2[i] = n + 1
      BY <1>11, <2>1, <2>3
    <3>2. ASSUME NEW j \in 1..((n + 1) - b[1]) PROVE f2[j].n = a2[b[1] + j]
      <4>1. CASE j \in 1..(n - b[1])
        <5>1. b[1] + j \in 1..n /\ j \in 1..Len(f)
          BY <1>6, <1>12, <1>13, <4>1
        <5> QED
          BY <1>7, <1>8, <1>13, <4>1, <5>1
      <4>2. CASE j = (n + 1) - b[1]
        <5>1. b[1] + j = n + 1 /\ j = Len(f) + 1
          BY <1>6, <1>12, <1>13, <4>2
        <5> QED
          BY <1>7, <1>8, <5>1
      <4> QED
        BY <1>6, <1>12, <4>1, <4>2
    <3>3. Len(f2) = (n + 1) - b[1] /\ b[1] <= n + 1
      BY <1>6, <1>8, <1>12, <1>13
    <3> QED
      BY <1>14, <2>3, <3>1, <3>2, <3>3
  <2> QED
    BY <2>2, <2>3
<1>16. Cut(b2)'
  BY <1>7, <1>9, <1>11, <1>15 DEF Cut, N
<1>17. b2[N] = b[N]
  BY <1>3, <1>11
<1> QED
  BY <1>16, <1>17 DEF Moves, N

LEMMA CutMoves ==
  ASSUME LogType, LogType', Balance, Rotation, NEW b, Cut(b), Log!Next
  PROVE  /\ \E b2 : Moves(b, b2)
         /\ Len(accepted) <= Len(accepted') /\ \A j \in 1..Len(accepted) : accepted'[j] = accepted[j]
<1>0. accepted \in Seq(Nat) /\ Len(accepted) \in Nat
  <2>1. accepted \in Seq(Nat)
    BY DEF LogType
  <2> QED
    BY <2>1
<1>1. CASE SameLines
  <2>1. Moves(b, b)
    BY <1>1, CutStays DEF Moves
  <2> QED
    BY <1>0, <1>1, <2>1 DEF SameLines
<1>2. CASE Log!RemoveOldest
  <2>1. accepted' = accepted
    BY <1>2 DEF Log!RemoveOldest
  <2> QED
    BY <1>0, <1>2, <2>1, OldestGoes
<1>3. CASE Log!MoveUp
  <2>1. accepted' = accepted
    BY <1>3 DEF Log!MoveUp, Log!Moved
  <2>2. CASE file[gen] = NoFile
    <3>1. file' = file
      BY <1>3, <2>2 DEF Log!MoveUp
    <3> QED
      BY <1>1, <2>1, <3>1, FilesSame
  <2>3. CASE file[gen] # NoFile
    BY <1>0, <1>3, <2>1, <2>3, FileMoves
  <2> QED
    BY <2>2, <2>3
<1>4. CASE Log!AppendLine
  <2>1. accepted' = Append(accepted, Head(todo).n) /\ Head(todo).n \in Nat
    BY <1>4, HasLine DEF Log!AppendLine
  <2> DEFINE x == Head(todo).n
  <2>2. accepted' = Append(accepted, x) /\ x \in Nat
    BY <2>1
  <2> HIDE DEF x
  <2>3. Len(accepted) <= Len(accepted') /\ \A j \in 1..Len(accepted) : accepted'[j] = accepted[j]
    BY <1>0, <2>2
  <2> QED
    BY <1>4, <2>3, LineAdded
<1>5. CASE Log!Write404Again \/ Log!Write404First \/ Log!Write \/ Log!Close \/ Log!OpenFails
           \/ Log!WriteFails \/ Log!Rotate
  <2>1. accepted' = accepted /\ file' = file
    BY <1>5 DEF Log!Write404Again, Log!Write404First, Log!Write, Log!Close, Log!OpenFails, Log!WriteFails,
                Log!Rotate
  <2> QED
    BY <1>1, <2>1, FilesSame
<1>6. CASE Log!Reopen \/ Log!OpenLive \/ Log!Crash
  <2>1. accepted' = accepted /\ file' = [file EXCEPT ![0] = IF @ = NoFile THEN <<>> ELSE @]
    BY <1>6 DEF Log!Reopen, Log!OpenLive, Log!Crash
  <2> QED
    BY <1>1, <2>1, LiveMade
<1> QED
  BY <1>2, <1>3, <1>4, <1>5, <1>6 DEF Log!Next

LEMMA LogSteps == ASSUME LogInv, Log!Next PROVE LogInv' /\ Log!KeepsNewest
<1>1. LogType /\ Balance /\ Rotation
  BY DEF LogInv
<1>2. PICK b : Cut(b)
  BY DEF LogInv
<1>3. Balance' /\ LogType' /\ Rotation'
  BY <1>1, StaysBalanced, StaysRotating
<1>4. PICK b2 : Moves(b, b2)
  BY <1>1, <1>2, <1>3, CutMoves
<1>5. Cut(b2)'
  BY <1>4 DEF Moves
<1>6. LogInv'
  BY <1>3, <1>5 DEF LogInv
<1>7. Len(accepted) <= Len(accepted') /\ \A j \in 1..Len(accepted) : accepted'[j] = accepted[j]
  BY <1>1, <1>2, <1>3, CutMoves
<1>8. Log!KeepsNewest
  BY <1>1, <1>2, <1>3, <1>4, <1>5, <1>7, Newest DEF Moves
<1> QED
  BY <1>6, <1>8

LEMMA LogRests == ASSUME LogInv, UNCHANGED logVars PROVE LogInv'
<1>1. /\ file' = file /\ isOpen' = isOpen /\ quiet404' = quiet404 /\ todo' = todo /\ pc' = pc /\ gen' = gen
      /\ accepted' = accepted /\ seen404' = seen404 /\ logged404' = logged404 /\ lost404' = lost404 /\ lines' = lines
  BY DEF logVars
<1>2. LogType' /\ Rotation' /\ Balance'
  BY <1>1 DEF LogInv, LogType, Rotation, Balance, Due, Writing
<1>3. PICK b : Cut(b)
  BY DEF LogInv
<1>4. Cut(b)'
  BY <1>1, <1>3, FilesSame, CutStays
<1> QED
  BY <1>2, <1>4 DEF LogInv

\* For every number of generations, every size of a line and every cap: the
\* files of the exchange log, oldest first, stay the newest lines accepted,
\* in order and without a gap, through rotations, failed opens and writes and
\* crashes at any of their file operations, a step takes out nothing but the
\* oldest generation, and every plain 404 since the start is in the log, in the
\* running count or in a write that failed (Recorder.write and rotate).
THEOREM LogIsKept == Spec => LogKept
<1>1. Init => LogInv
  BY LogInits DEF Init
<1>2. ASSUME LogInv, [Next]_vars PROVE LogInv' /\ (UNCHANGED vars \/ (kind = "log" => Log!KeepsNewest))
  <2>1. CASE LogStep
    BY <1>2, <2>1, LogSteps DEF LogStep
  <2>2. CASE ~LogStep
    <3>1. UNCHANGED logVars /\ (UNCHANGED vars \/ kind # "log")
      BY <1>2, <2>2 DEF Next, CardStep, OfCard, NutStep, OfNut, PowerStep, vars
    <3> QED
      BY <1>2, <3>1, LogRests
  <2> QED
    BY <2>1, <2>2
<1>3. LogInv => Log!All404sCounted
  <2> SUFFICES ASSUME LogInv, pc = "idle"
               PROVE  seen404 = logged404 + (IF quiet404 > 1 THEN quiet404 - 1 ELSE 0) + lost404
    BY DEF Log!All404sCounted
  <2>1. seen404 = logged404 + lost404 + (IF quiet404 > 1 THEN quiet404 - 1 ELSE 0)
    BY DEF LogInv, Balance, Due
  <2>2. quiet404 \in Nat /\ logged404 \in Nat /\ lost404 \in Nat
    BY DEF LogInv, LogType
  <2> QED
    BY <2>1, <2>2
<1>4. LogInv /\ [Next]_vars => LogInv'
  BY <1>2
<1>5. LogInv /\ [Next]_vars => [kind = "log" => Log!KeepsNewest]_vars
  BY <1>2
<1> QED
  BY <1>1, <1>3, <1>4, <1>5, PTL DEF Spec, LogKept

=============================================================================

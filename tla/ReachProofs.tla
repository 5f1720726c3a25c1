---------------------------- MODULE ReachProofs ----------------------------
(***************************************************************************)
(* Both drivers that move the address they reach their switch at implement  *)
(* Findable, for every set of addresses, subnets, gateways and pushes and   *)
(* any number of faults; and an undone SONiC move leaves CONFIG_DB as it    *)
(* was.                                                                     *)
(***************************************************************************)
EXTENDS Reach, FiniteSetTheorems, SequenceTheorems, TLAPS

(***************************************************************************)
(* Arista.  Until the confirmation is answered, the address the bridge      *)
(* dials is the one the switch boots with and the one it is at or returns   *)
(* to; from the confirmation on, the new one is.                            *)
(***************************************************************************)
Settings == [ip : Addr, gw : Gateways \cup {NoGateway}]

AristaTypeOK ==
  /\ running \in Settings /\ startup \in Settings /\ apush \in Settings
  /\ revert \in Settings \cup {NoSetting}
  /\ host \in Addr /\ url \in Addr
  /\ ajob = Arista!Idle \/ ajob \in [at : {"commit", "prove", "confirm", "answer"}, new : Settings]

\* Where the switch is found while the bridge reaches it at a.
Anchored(a) ==
  /\ a \notin Dead /\ startup.ip = a
  /\ IF revert = NoSetting THEN running.ip = a ELSE revert.ip = a

AristaInv ==
  /\ AristaTypeOK
  /\ ajob.at # "answer" => Anchored(host)
  /\ ajob.at = "answer" => Anchored(ajob.new.ip) /\ revert = NoSetting

LEMMA AristaInits == Arista!Init => AristaInv
  BY AddressAssumption DEF Arista!Init, AristaInv, AristaTypeOK, Anchored, Settings, Arista!Idle

LEMMA AristaFound ==
  ASSUME AristaInv
  PROVE  /\ Arista!At \subseteq Addr /\ Arista!Known \subseteq Addr
         /\ Arista!At \cap Arista!Known # {}
  BY AddressAssumption DEF AristaInv, AristaTypeOK, Anchored, Settings, Arista!Idle, Arista!At, Arista!Known

LEMMA AristaSteps ==
  ASSUME AristaInv, Arista!Next
  PROVE  /\ AristaInv'
         /\ \/ Arista!Known' = Arista!Known
            \/ Arista!At' = Arista!At /\ Arista!Known' \subseteq Arista!Known \cup Arista!At
  <1> USE AddressAssumption DEF AristaInv, AristaTypeOK, Anchored, Arista!Idle, Arista!At, Arista!Known,
        Arista!Answers
  <1>1. CASE \E d \in Arista!Settings : Arista!Push(d)
    BY <1>1 DEF Arista!Push, Arista!Settings, Settings
  <1>2. CASE Arista!Collect
    BY <1>2 DEF Arista!Collect
  <1>3. CASE Arista!ApplyAddress
    BY <1>3 DEF Arista!ApplyAddress, Settings
  <1>4. CASE Arista!Committed
    BY <1>4 DEF Arista!Committed, Settings
  <1>5. CASE Arista!Prove
    BY <1>5 DEF Arista!Prove, Settings
  <1>6. CASE Arista!GiveUp
    BY <1>6 DEF Arista!GiveUp
  <1>7. CASE Arista!Confirm
    BY <1>7 DEF Arista!Confirm, Settings
  <1>8. CASE Arista!Confirmed
    BY <1>8 DEF Arista!Confirmed, Settings
  <1>9. CASE Arista!Timer
    BY <1>9 DEF Arista!Timer, Settings
  <1>10. CASE Arista!OperatorUpdatesUrl
    BY <1>10 DEF Arista!OperatorUpdatesUrl
  <1>11. CASE Arista!Restart
    BY <1>11 DEF Arista!Restart
  <1>12. CASE Arista!SwitchReload
    BY <1>12 DEF Arista!SwitchReload, Settings
  <1>. QED
    BY <1>1, <1>2, <1>3, <1>4, <1>5, <1>6, <1>7, <1>8, <1>9, <1>10, <1>11, <1>12
      DEF Arista!Next, Arista!Proceed

(***************************************************************************)
(* SONiC.  The state of a move is told by the commands it has left.         *)
(***************************************************************************)
Route == {{}} \cup {{g} : g \in Gateways}
Args == Addr \cup {NoAddr} \cup SUBSET Gateways
Quiet == [op : {"ip show", "save"}, arg : Addr \cup {NoAddr}] \cup [op : {"route add", "route del"}, arg : SUBSET Gateways]
Commands == [op : {"ip add", "ip remove", "promote", "ip show", "route add", "route del", "save"}, arg : Args]
Contents == [cfg : SUBSET Addr, hops : SUBSET Gateways]
Switch == [cfg : SUBSET Addr, kernel : SUBSET Addr, older : SUBSET (Addr \X Addr), hops : SUBSET Gateways,
           promote : BOOLEAN, saved : Contents]
Jobs == [at : {"same", "first", "prove", "finish", "undo"}, ops : Seq(Commands), via : Addr, old : Addr,
         new : Addr, gw : Route, stale : SUBSET Gateways, before : Contents]

SonicTypeOK ==
  /\ sw \in Switch
  /\ savedDial \in Addr \cup {NoAddr} /\ pendingDial \in Addr \cup {NoAddr}
  /\ sview \in [cfg : SUBSET Addr, kernel : SUBSET Addr, hops : SUBSET Gateways]
  /\ spush \in [ip : Addr, gw : Route]
  /\ sjob = Sonic!Idle \/ sjob \in Jobs

\* The kernel's addresses are in CONFIG_DB, and CONFIG_DB holds no fewer
\* addresses than what is saved: a move adds one before it removes one.
Accounted ==
  /\ sw.kernel \subseteq sw.cfg
  /\ IsFiniteSet(sw.cfg) /\ IsFiniteSet(sw.saved.cfg)
  /\ Cardinality(sw.saved.cfg) <= Cardinality(sw.cfg)

\* CONFIG_DB holds one address more than what is saved, so the switch does
\* not restart (SwitchRestart) before that one is saved or gone.
Surplus == Cardinality(sw.saved.cfg) < Cardinality(sw.cfg)

\* The move has added its address: the kernel has it as its youngest, and the
\* bridge still reaches the switch at another.
Brought ==
  /\ Surplus
  /\ sjob.new \notin sjob.before.cfg /\ sw.cfg = sjob.before.cfg \cup {sjob.new}
  /\ \A b \in sw.kernel \ {sjob.new} : <<b, sjob.new>> \in sw.older
  /\ Sonic!Dial \in Sonic!Answers \ {sjob.new}

\* And its route.
Routed == sjob.gw \cap sjob.before.hops = {} /\ sw.hops = sjob.before.hops \cup sjob.gw

RouteAdd == Sonic!If(sjob.gw # {}, Sonic!Op("route add", sjob.gw))
RouteDel == Sonic!If(sjob.gw # {}, Sonic!Op("route del", sjob.gw))

InFirst ==
  \/ /\ sjob.ops = <<Sonic!Op("ip add", sjob.new)>> \o RouteAdd
     /\ Sonic!Dial \in Sonic!Answers /\ Sonic!Config(sw) = sjob.before
  \/ sjob.ops = RouteAdd /\ Brought /\ sw.hops = sjob.before.hops
  \/ sjob.ops = <<>> /\ Brought /\ Routed

InFinish ==
  /\ sjob.new # sjob.old /\ sjob.via = sjob.new /\ pendingDial = sjob.new
  /\ \/ sjob.ops = Sonic!Finish(sjob.old, sjob.new, sjob.gw, sjob.stale) /\ Surplus
     \/ sjob.ops = Tail(Sonic!Finish(sjob.old, sjob.new, sjob.gw, sjob.stale)) /\ Surplus /\ sw.promote
     \/ sjob.ops \in Seq(Quiet)

InUndo ==
  \/ sjob.ops = <<Sonic!Op("ip remove", sjob.new)>> \o RouteDel /\ Brought /\ Routed
  \/ sjob.ops = RouteDel /\ sw.cfg = sjob.before.cfg /\ Routed
  \/ sjob.ops = <<>> /\ Sonic!Config(sw) = sjob.before

Stage ==
  /\ sjob.at = "same" => sjob.ops \in Seq(Quiet)
  /\ sjob.at = "first" => sjob.new # sjob.old /\ InFirst
  /\ sjob.at = "prove" => sjob.new # sjob.old /\ Brought /\ Routed
  /\ sjob.at = "finish" => InFinish
  /\ sjob.at = "undo" => InUndo

Met == Sonic!Answers \cap Sonic!Known # {}

SonicInv == SonicTypeOK /\ Accounted /\ Stage /\ Met

(***************************************************************************)
(* Sequences of commands.                                                   *)
(***************************************************************************)
LEMMA Consed ==
  ASSUME NEW S, NEW a \in S, NEW t \in Seq(S)
  PROVE  /\ <<a>> \o t \in Seq(S) /\ <<a>> \o t # <<>>
         /\ Head(<<a>> \o t) = a /\ Tail(<<a>> \o t) = t
<1> DEFINE s == <<a>>
           w == s \o t
<1>1. s \in Seq(S) /\ Len(s) = 1 /\ s[1] = a
  OBVIOUS
<1> HIDE DEF s
<1>0. /\ w \in Seq(S) /\ Len(w) = Len(s) + Len(t)
      /\ \A i \in 1 .. Len(s) + Len(t) : w[i] = IF i <= Len(s) THEN s[i] ELSE t[i - Len(s)]
  BY <1>1, ConcatProperties
<1> HIDE DEF w
<1>2. /\ w \in Seq(S) /\ Len(w) = 1 + Len(t)
      /\ \A i \in 1 .. 1 + Len(t) : w[i] = IF i <= 1 THEN s[i] ELSE t[i - 1]
  BY <1>0, <1>1
<1>3. w # <<>> /\ Head(w) = a
  BY <1>1, <1>2
<1>4. Tail(w) \in Seq(S) /\ Len(Tail(w)) = Len(t) /\ \A i \in 1 .. Len(t) : Tail(w)[i] = w[i + 1]
  BY <1>2, <1>3, HeadTailProperties
<1>5. \A i \in 1 .. Len(t) : Tail(w)[i] = t[i]
  BY <1>2, <1>4
<1>6. Tail(w) = t
  BY <1>4, <1>5, SeqEqual
<1> QED
  BY <1>2, <1>3, <1>6 DEF w, s

\* What is left of a sequence after its first two commands.
LEMMA Beheaded ==
  ASSUME NEW S, NEW Q, NEW w \in Seq(S), Len(w) >= 2, \A i \in 3 .. Len(w) : w[i] \in Q
  PROVE  /\ w # <<>> /\ Head(w) = w[1] /\ Tail(w) # <<>> /\ Tail(w) \in Seq(S)
         /\ Head(Tail(w)) = w[2] /\ Tail(Tail(w)) \in Seq(Q)
<1> DEFINE u == Tail(w)
           v == Tail(u)
<1>1. w # <<>> /\ Head(w) = w[1]
  OBVIOUS
<1>2. u \in Seq(S) /\ Len(u) = Len(w) - 1 /\ \A i \in 1 .. Len(u) : u[i] = w[i + 1]
  BY <1>1, HeadTailProperties
<1> HIDE DEF u
<1>3. u # <<>> /\ Head(u) = w[2]
  BY <1>2
<1>4. v \in Seq(S) /\ Len(v) = Len(u) - 1 /\ \A i \in 1 .. Len(v) : v[i] = u[i + 1]
  BY <1>2, <1>3, HeadTailProperties
<1> HIDE DEF v
<1>5. ASSUME NEW i \in 1 .. Len(v) PROVE v[i] \in Q
  <2>1. Len(w) \in Nat /\ Len(u) \in Nat /\ Len(v) \in Nat /\ i \in Int
    BY <1>2, <1>4
  <2>2. i + 1 \in 1 .. Len(u) /\ (i + 1) + 1 \in 3 .. Len(w)
    BY <1>2, <1>4, <2>1
  <2>3. v[i] = u[i + 1] /\ u[i + 1] = w[(i + 1) + 1]
    BY <1>2, <1>4, <2>2
  <2> QED
    BY <2>2, <2>3
<1>6. v \in Seq(Q)
  BY <1>4, <1>5, IsASeq
<1> QED
  BY <1>1, <1>2, <1>3, <1>6 DEF u, v

LEMMA OpTypes ==
  /\ \A a \in Addr : /\ Sonic!Op("ip add", a) \in Commands /\ Sonic!Op("ip remove", a) \in Commands
                     /\ Sonic!Op("ip show", a) \in Quiet
  /\ \A g \in SUBSET Gateways : Sonic!Op("route add", g) \in Quiet /\ Sonic!Op("route del", g) \in Quiet
  /\ Sonic!Op("promote", NoAddr) \in Commands /\ Sonic!Op("save", NoAddr) \in Quiet
  /\ Quiet \subseteq Commands
  BY DEF Sonic!Op, Quiet, Commands, Args

LEMMA OneCommand ==
  ASSUME NEW S, NEW o \in S
  PROVE  <<o>> \in Seq(S)
  OBVIOUS

LEMMA QuietSeqs ==
  /\ Seq(Quiet) \subseteq Seq(Commands)
  /\ \A c \in BOOLEAN, o \in Quiet : Sonic!If(c, o) \in Seq(Quiet)
<1>1. Quiet \subseteq Commands
  BY OpTypes
<1> QED
  BY <1>1 DEF Sonic!If

LEMMA FinishShape ==
  ASSUME NEW old \in Addr, NEW new \in Addr, NEW gw \in SUBSET Gateways, NEW stale \in SUBSET Gateways
  PROVE  LET w == Sonic!Finish(old, new, gw, stale)
         IN  /\ w \in Seq(Commands) /\ w # <<>> /\ Head(w) = Sonic!Op("promote", NoAddr)
             /\ Tail(w) \in Seq(Commands) /\ Tail(w) # <<>> /\ Head(Tail(w)) = Sonic!Op("ip remove", old)
             /\ Tail(Tail(w)) \in Seq(Quiet)
<1> DEFINE p == Sonic!Op("promote", NoAddr)
           r == Sonic!Op("ip remove", old)
           h == Sonic!Op("ip show", new)
           m == Sonic!MoveFinish(old, new)
           t == Sonic!Stale(gw, stale)
           v == Sonic!Op("save", NoAddr)
           x == m \o t
           w == x \o <<v>>
<1>1. p \in Commands /\ r \in Commands /\ h \in Quiet /\ v \in Quiet /\ Quiet \subseteq Commands
  BY OpTypes
<1>2. t \in Seq(Quiet) /\ t \in Seq(Commands)
  BY OpTypes, QuietSeqs DEF Sonic!Stale, Sonic!If
<1> HIDE DEF p, r, h, t, v
<1>3. m = <<p, r, h>>
  BY DEF Sonic!MoveFinish, p, r, h
<1>4. m \in Seq(Commands) /\ Len(m) = 3 /\ m[1] = p /\ m[2] = r /\ m[3] = h
  BY <1>1, <1>3
<1>5. <<v>> \in Seq(Commands) /\ Len(<<v>>) = 1 /\ <<v>>[1] = v
  BY <1>1
<1> HIDE DEF m
<1>0. /\ x \in Seq(Commands) /\ Len(x) = Len(m) + Len(t)
      /\ \A i \in 1 .. Len(m) + Len(t) : x[i] = IF i <= Len(m) THEN m[i] ELSE t[i - Len(m)]
  BY <1>2, <1>4, ConcatProperties
<1> HIDE DEF x
<1>6. /\ x \in Seq(Commands) /\ Len(x) = 3 + Len(t)
      /\ \A i \in 1 .. 3 + Len(t) : x[i] = IF i <= 3 THEN m[i] ELSE t[i - 3]
  BY <1>0, <1>4
<1>7. /\ w \in Seq(Commands) /\ Len(w) = Len(x) + 1
      /\ \A i \in 1 .. Len(x) + 1 : w[i] = IF i <= Len(x) THEN x[i] ELSE <<v>>[i - Len(x)]
  BY <1>5, <1>6, ConcatProperties
<1> HIDE DEF w
<1>8. w[1] = p /\ w[2] = r /\ Len(w) >= 2
  BY <1>2, <1>4, <1>6, <1>7
<1>9. \A i \in 3 .. Len(w) : w[i] \in Quiet
  <2> SUFFICES ASSUME NEW i \in 3 .. Len(w) PROVE w[i] \in Quiet
    OBVIOUS
  <2>1. CASE i = 3
    BY <2>1, <1>1, <1>2, <1>4, <1>6, <1>7
  <2>2. CASE i \in 4 .. Len(x)
    <3>1. w[i] = t[i - 3] /\ i - 3 \in 1 .. Len(t)
      BY <2>2, <1>2, <1>6, <1>7
    <3> QED
      BY <3>1, <1>2
  <2>3. CASE i = Len(x) + 1
    BY <2>3, <1>1, <1>2, <1>5, <1>6, <1>7
  <2> QED
    BY <2>1, <2>2, <2>3, <1>2, <1>6, <1>7
<1>10. w = Sonic!Finish(old, new, gw, stale)
  BY DEF w, x, m, t, v, Sonic!Finish
<1> QED
  BY <1>7, <1>8, <1>9, <1>10, Beheaded DEF p, r

(***************************************************************************)
(* What a command does to the switch.                                       *)
(***************************************************************************)
LEMMA Adds ==
  ASSUME NEW s \in Switch, NEW a \in Addr
  PROVE  LET o == Sonic!Op("ip add", a)
             t == Sonic!After(s, o)
         IN  /\ Sonic!Accepts(s, o) <=> a \notin s.cfg
             /\ t \in Switch /\ t.cfg = s.cfg \cup {a} /\ t.kernel = s.kernel \cup {a}
             /\ t.older = s.older \cup {<<b, a>> : b \in s.kernel}
             /\ t.hops = s.hops /\ t.promote = s.promote /\ t.saved = s.saved
<1> DEFINE o == Sonic!Op("ip add", a)
<1>1. o.op = "ip add" /\ o.arg = a
  BY DEF Sonic!Op
<1> HIDE DEF o
<1>2. Sonic!After(s, o) = [s EXCEPT !.cfg = @ \cup {a}, !.kernel = @ \cup {a},
                                    !.older = @ \cup {<<b, a>> : b \in s.kernel}]
  BY <1>1 DEF Sonic!After
<1>3. Sonic!Accepts(s, o) <=> a \notin s.cfg
  BY <1>1 DEF Sonic!Accepts
<1> DEFINE order == s.older \cup {<<b, a>> : b \in s.kernel}
           C == s.cfg \cup {a}
           K == s.kernel \cup {a}
<1>4. order \in SUBSET (Addr \X Addr) /\ C \in SUBSET Addr /\ K \in SUBSET Addr
  BY DEF Switch
<1>5. Sonic!After(s, o) = [s EXCEPT !.cfg = C, !.kernel = K, !.older = order]
  BY <1>2
<1> HIDE DEF order, C, K
<1>6. LET t == Sonic!After(s, o)
      IN  /\ t \in Switch /\ t.cfg = C /\ t.kernel = K /\ t.older = order
          /\ t.hops = s.hops /\ t.promote = s.promote /\ t.saved = s.saved
  BY <1>4, <1>5 DEF Switch
<1> QED
  BY <1>3, <1>6 DEF o, order, C, K

LEMMA Removes ==
  ASSUME NEW s \in Switch, NEW a \in Addr
  PROVE  LET o == Sonic!Op("ip remove", a)
             t == Sonic!After(s, o)
         IN  /\ Sonic!Accepts(s, o) <=> a \in s.cfg
             /\ t \in Switch /\ t.cfg = s.cfg \ {a} /\ t.kernel = Sonic!KernelRemove(s, a)
             /\ t.hops = s.hops /\ t.promote = s.promote /\ t.saved = s.saved
<1> DEFINE o == Sonic!Op("ip remove", a)
           kept == Sonic!KernelRemove(s, a)
<1>1. o.op = "ip remove" /\ o.arg = a
  BY DEF Sonic!Op
<1>2. kept \in SUBSET Addr
  BY DEF Sonic!KernelRemove, Switch
<1> HIDE DEF o, kept
<1>3. Sonic!After(s, o) = [s EXCEPT !.cfg = @ \ {a}, !.kernel = kept, !.older = @ \cap (kept \X kept)]
  BY <1>1 DEF Sonic!After, kept
<1>4. Sonic!Accepts(s, o) <=> a \in s.cfg
  BY <1>1 DEF Sonic!Accepts
<1> DEFINE cfg2 == s.cfg \ {a}
           older2 == s.older \cap (kept \X kept)
           t == Sonic!After(s, o)
<1>5. cfg2 \in SUBSET Addr /\ older2 \in SUBSET (Addr \X Addr)
  <2>1. s.cfg \in SUBSET Addr /\ s.older \in SUBSET (Addr \X Addr)
    BY DEF Switch
  <2> QED
    BY <2>1
<1>6. t = [s EXCEPT !.cfg = cfg2, !.kernel = kept, !.older = older2]
  BY <1>3
<1> HIDE DEF cfg2, older2, t
<1>7. /\ t \in Switch /\ t.cfg = cfg2 /\ t.kernel = kept
      /\ t.hops = s.hops /\ t.promote = s.promote /\ t.saved = s.saved
  BY <1>2, <1>5, <1>6 DEF Switch
<1> QED
  BY <1>4, <1>7 DEF o, kept, t, cfg2

LEMMA Promotes ==
  ASSUME NEW s \in Switch
  PROVE  LET o == Sonic!Op("promote", NoAddr)
             t == Sonic!After(s, o)
         IN  /\ Sonic!Accepts(s, o)
             /\ t \in Switch /\ t.promote /\ t.cfg = s.cfg /\ t.kernel = s.kernel /\ t.saved = s.saved
<1> DEFINE o == Sonic!Op("promote", NoAddr)
<1>1. o.op = "promote"
  BY DEF Sonic!Op
<1> HIDE DEF o
<1>2. Sonic!After(s, o) = [s EXCEPT !.promote = TRUE]
  BY <1>1 DEF Sonic!After
<1>3. Sonic!Accepts(s, o)
  BY <1>1 DEF Sonic!Accepts
<1> QED
  BY <1>2, <1>3 DEF Switch, o

\* The commands that leave the addresses alone; a save can only level what is
\* saved with what is configured.
LEMMA Quiets ==
  ASSUME NEW s \in Switch, NEW o \in Quiet, Sonic!Accepts(s, o)
  PROVE  LET t == Sonic!After(s, o)
         IN  /\ t \in Switch /\ t.cfg = s.cfg /\ t.kernel = s.kernel /\ t.older = s.older
             /\ t.saved \in {s.saved, Sonic!Config(s)}
             /\ o.op = "route add" => t.hops = s.hops \cup o.arg /\ o.arg \cap s.hops = {} /\ t.saved = s.saved
             /\ o.op = "route del" => t.hops = s.hops \ o.arg /\ t.saved = s.saved
<1>1. CASE o.op = "ip show"
  BY <1>1 DEF Sonic!After
<1>2. CASE o.op = "route add"
  <2>1. Sonic!After(s, o) = [s EXCEPT !.hops = @ \cup o.arg]
    BY <1>2 DEF Sonic!After
  <2>2. o.arg \cap s.hops = {} /\ o.arg \in SUBSET Gateways
    BY <1>2 DEF Sonic!Accepts, Quiet
  <2> QED
    BY <1>2, <2>1, <2>2 DEF Switch
<1>3. CASE o.op = "route del"
  <2>1. Sonic!After(s, o) = [s EXCEPT !.hops = @ \ o.arg]
    BY <1>3 DEF Sonic!After
  <2> QED
    BY <1>3, <2>1 DEF Switch
<1>4. CASE o.op = "save"
  <2>1. Sonic!After(s, o) = [s EXCEPT !.saved = Sonic!Config(s)]
    BY <1>4 DEF Sonic!After
  <2>2. Sonic!Config(s) \in Contents
    BY DEF Sonic!Config, Switch, Contents
  <2> QED
    BY <1>4, <2>1, <2>2 DEF Switch
<1> QED
  BY <1>1, <1>2, <1>3, <1>4 DEF Quiet

(***************************************************************************)
(* The steps of the SONiC driver and its switch.                            *)
(***************************************************************************)
SonicMove ==
  \/ Sonic!Known' = Sonic!Known
  \/ Sonic!Answers' = Sonic!Answers /\ Sonic!Known' \subseteq Sonic!Known \cup Sonic!Answers

LEMMA SonicFound ==
  ASSUME SonicInv
  PROVE  /\ Sonic!Answers \subseteq Addr /\ Sonic!Known \subseteq Addr
         /\ Sonic!Answers \cap Sonic!Known # {}
  BY AddressAssumption DEF SonicInv, SonicTypeOK, Met, Switch, Sonic!Answers, Sonic!Known, Sonic!Dial

LEMMA SonicInits == Sonic!Init => SonicInv
<1> SUFFICES ASSUME Sonic!Init PROVE SonicInv
  OBVIOUS
<1>1. PICK hops \in {{}, Gateways} \cup {{g} : g \in Gateways} :
        sw = [cfg |-> {Home}, kernel |-> {Home}, older |-> {}, hops |-> hops, promote |-> FALSE,
              saved |-> [cfg |-> {Home}, hops |-> hops]]
  BY DEF Sonic!Init
<1>2. Home \in Addr /\ Home \notin Dead /\ NoAddr \notin Addr /\ hops \in SUBSET Gateways
  BY AddressAssumption
<1>3. sw \in Switch
  BY <1>1, <1>2 DEF Switch, Contents
<1>4. SonicTypeOK
  BY <1>2, <1>3 DEF SonicTypeOK, Sonic!Init, Sonic!NoView, Route
<1>5. IsFiniteSet({Home}) /\ Cardinality({Home}) = 1
  BY FS_Singleton
<1>6. Accounted
  BY <1>1, <1>5 DEF Accounted
<1>7. Stage
  BY DEF Stage, Sonic!Init, Sonic!Idle
<1>8. Met
  BY <1>1, <1>2 DEF Met, Sonic!Answers, Sonic!Known, Sonic!Dial, Sonic!Init
<1> QED
  BY <1>4, <1>6, <1>7, <1>8 DEF SonicInv

\* A run reaches the switch at an address it answers at, which becomes the
\* one dialled.
LEMMA Dials ==
  ASSUME SonicTypeOK, NEW to \in Sonic!Known, Sonic!Runs(to) \/ Sonic!MissedDial(to), sw' = sw
  PROVE  /\ savedDial' \in Addr \cup {NoAddr} /\ pendingDial' \in Addr \cup {NoAddr}
         /\ Sonic!Dial' = to /\ to \in Sonic!Answers /\ to \in Addr
         /\ Sonic!Answers' = Sonic!Answers /\ Sonic!Known' \subseteq Sonic!Known \cup Sonic!Answers
         /\ Met'
<1>1. to \in Sonic!Answers /\ to \in Addr /\ to # NoAddr
  BY AddressAssumption DEF Sonic!Runs, Sonic!MissedDial, Sonic!Answers, SonicTypeOK, Switch
<1>2. Sonic!Answers' = Sonic!Answers
  BY DEF Sonic!Answers
<1>3. CASE UNCHANGED <<savedDial, pendingDial>> /\ to = Sonic!Dial
  BY <1>1, <1>2, <1>3 DEF SonicTypeOK, Sonic!Known, Sonic!Dial, Met
<1>4. CASE Sonic!AdoptDial(to)
  BY <1>1, <1>2, <1>4 DEF SonicTypeOK, Sonic!Known, Sonic!Dial, Met, Sonic!AdoptDial
<1> QED
  BY <1>3, <1>4 DEF Sonic!Runs, Sonic!MissedDial

LEMMA IdleAt == Sonic!Idle.at = "idle"
  BY DEF Sonic!Idle

LEMMA IdleSteps ==
  ASSUME SonicInv,
         (\E d \in Pushes : Sonic!Push(d)) \/ Sonic!ConnectionLost \/ Sonic!Crash \/ Sonic!UndoDone \/ Sonic!SameDone
  PROVE  SonicInv' /\ SonicMove
<1>1. sw' = sw /\ savedDial' = savedDial /\ pendingDial' = pendingDial /\ sjob'.at = "idle"
  BY IdleAt DEF Sonic!Push, Sonic!ConnectionLost, Sonic!Crash, Sonic!UndoDone, Sonic!SameDone
<1>2. Sonic!Answers' = Sonic!Answers /\ Sonic!Known' = Sonic!Known
  BY <1>1 DEF Sonic!Answers, Sonic!Known, Sonic!Dial
<1>3. sview' \in [cfg : SUBSET Addr, kernel : SUBSET Addr, hops : SUBSET Gateways]
  <2>1. CASE Sonic!SameDone
    <3>1. sjob \in Jobs
      BY <2>1, IdleAt DEF Sonic!SameDone, SonicInv, SonicTypeOK
    <3> QED
      BY <2>1, <3>1 DEF Sonic!SameDone, Sonic!NoteAddress, SonicInv, SonicTypeOK, Jobs, Route
  <2>2. CASE Sonic!Crash
    BY <2>2 DEF Sonic!Crash, Sonic!NoView
  <2> QED
    BY <2>1, <2>2 DEF Sonic!Push, Sonic!ConnectionLost, Sonic!UndoDone, SonicInv, SonicTypeOK
<1>4. spush' \in [ip : Addr, gw : Route]
  BY AddressAssumption DEF Sonic!Push, Sonic!ConnectionLost, Sonic!Crash, Sonic!UndoDone, Sonic!SameDone, SonicInv,
     SonicTypeOK, Route
<1>5. sjob' = Sonic!Idle \/ sjob' = sjob
  BY DEF Sonic!Push, Sonic!ConnectionLost, Sonic!Crash, Sonic!UndoDone, Sonic!SameDone
<1>6. SonicTypeOK'
  BY <1>1, <1>3, <1>4, <1>5 DEF SonicInv, SonicTypeOK, Sonic!Idle
<1>7. Accounted' /\ Met'
  BY <1>1, <1>2 DEF SonicInv, Accounted, Met
<1>8. Stage'
  BY <1>1 DEF Stage
<1> QED
  BY <1>2, <1>6, <1>7, <1>8 DEF SonicInv, SonicMove

LEMMA Collects ==
  ASSUME SonicInv, Sonic!Collect \/ Sonic!CollectMissing
  PROVE  SonicInv' /\ SonicMove
<1>1. /\ sw' = sw /\ spush' = spush /\ sjob' = sjob /\ sjob.at = "idle"
      /\ sview' = [cfg |-> sw.cfg, kernel |-> sw.kernel, hops |-> sw.hops]
  BY DEF Sonic!Collect, Sonic!CollectMissing, Sonic!Collected
<1>2. PICK to \in Sonic!Known : Sonic!Runs(to) \/ Sonic!MissedDial(to)
  BY DEF Sonic!Collect, Sonic!CollectMissing
<1>3. /\ savedDial' \in Addr \cup {NoAddr} /\ pendingDial' \in Addr \cup {NoAddr}
      /\ Sonic!Answers' = Sonic!Answers /\ Sonic!Known' \subseteq Sonic!Known \cup Sonic!Answers /\ Met'
  BY <1>1, <1>2, Dials DEF SonicInv
<1>4. SonicTypeOK'
  BY <1>1, <1>3 DEF SonicInv, SonicTypeOK, Switch, Sonic!Idle
<1>5. Accounted' /\ Stage'
  BY <1>1 DEF SonicInv, Accounted, Stage
<1> QED
  BY <1>3, <1>4, <1>5 DEF SonicInv, SonicMove

LEMMA Applies ==
  ASSUME SonicInv, Sonic!ApplyAddress
  PROVE  SonicInv' /\ SonicMove
<1>1. sjob.at = "idle" /\ sw' = sw /\ sview' = sview /\ spush' = spush
  BY DEF Sonic!ApplyAddress
<1> DEFINE gw == Sonic!Batch("first", <<>>, Home).gw
           add == Sonic!If(gw # {}, Sonic!Op("route add", gw))
           first == Sonic!First(Sonic!Dial, spush.ip, gw)
           same == first \o Sonic!Stale(gw, sview.hops) \o <<Sonic!Op("save", NoAddr)>>
<1>2. PICK to \in Sonic!Known :
        /\ Sonic!Runs(to)
        /\ sjob' = IF spush.ip = Sonic!Dial THEN Sonic!Batch("same", same, to) ELSE Sonic!Batch("first", first, to)
  BY DEF Sonic!ApplyAddress, Sonic!Batch
<1>3. /\ savedDial' \in Addr \cup {NoAddr} /\ pendingDial' \in Addr \cup {NoAddr}
      /\ Sonic!Dial' = to /\ to \in Sonic!Answers /\ to \in Addr
      /\ Sonic!Answers' = Sonic!Answers /\ Sonic!Known' \subseteq Sonic!Known \cup Sonic!Answers /\ Met'
  BY <1>1, <1>2, Dials DEF SonicInv
<1>4. Sonic!Dial \in Addr /\ spush.ip \in Addr /\ sview.hops \in SUBSET Gateways /\ spush.gw \in Route
  BY AddressAssumption DEF SonicInv, SonicTypeOK, Sonic!Dial
<1>5. gw = IF spush.gw # {} /\ spush.gw # sview.hops THEN spush.gw ELSE {}
  BY DEF Sonic!Batch
<1>6. gw \in Route /\ gw \in SUBSET Gateways
  BY <1>4, <1>5 DEF Route
<1> HIDE DEF gw
<1>7. add \in Seq(Quiet) /\ add \in Seq(Commands)
  BY <1>6, OpTypes, QuietSeqs
<1> HIDE DEF add
<1>8. Sonic!Config(sw) \in Contents
  BY DEF SonicInv, SonicTypeOK, Sonic!Config, Switch, Contents
<1>9. \A at \in {"same", "first"}, ops \in Seq(Commands) :
        /\ Sonic!Batch(at, ops, to) \in Jobs
        /\ LET b == Sonic!Batch(at, ops, to)
           IN  /\ b.at = at /\ b.ops = ops /\ b.old = Sonic!Dial /\ b.new = spush.ip /\ b.gw = gw
               /\ b.before = Sonic!Config(sw)
  BY <1>3, <1>4, <1>6, <1>8 DEF Sonic!Batch, Jobs, gw
<1>10. Accounted'
  BY <1>1 DEF SonicInv, Accounted
<1>11. CASE spush.ip = Sonic!Dial
  <2> DEFINE rest == Sonic!Stale(gw, sview.hops)
             save == <<Sonic!Op("save", NoAddr)>>
  <2>1. first = <<>> \o add
    BY <1>11 DEF Sonic!First, Sonic!If, add
  <2>2. first \in Seq(Quiet)
    BY <2>1, <1>7, ConcatEmptySeq
  <2>3. rest \in Seq(Quiet)
    BY <1>4, OpTypes, QuietSeqs DEF Sonic!Stale
  <2>4. save \in Seq(Quiet)
    BY OpTypes, OneCommand, Zenon
  <2> HIDE DEF first, rest, save
  <2>5. first \o rest \in Seq(Quiet)
    BY <2>2, <2>3, ConcatProperties
  <2>6. (first \o rest) \o save \in Seq(Quiet)
    BY <2>4, <2>5, ConcatProperties
  <2>7. same \in Seq(Quiet)
    BY <2>6 DEF rest, save
  <2> HIDE DEF same
  <2>8. sjob' \in Jobs /\ sjob'.at = "same" /\ sjob'.ops \in Seq(Quiet)
    BY <1>2, <1>9, <1>11, <2>7, QuietSeqs
  <2>9. SonicTypeOK'
    BY <1>1, <1>3, <2>8 DEF SonicInv, SonicTypeOK
  <2>10. Stage'
    BY <2>8 DEF Stage
  <2> QED
    BY <1>3, <1>10, <2>9, <2>10 DEF SonicInv, SonicMove
<1>12. CASE spush.ip # Sonic!Dial
  <2> DEFINE o == Sonic!Op("ip add", spush.ip)
  <2>1. first = <<o>> \o add
    BY <1>12 DEF Sonic!First, Sonic!If, add
  <2>2. o \in Commands
    BY <1>4, OpTypes
  <2> HIDE DEF o
  <2>3. first \in Seq(Commands)
    BY <2>1, <2>2, <1>7, Consed
  <2> HIDE DEF first, same
  <2>4. /\ sjob' \in Jobs /\ sjob'.at = "first" /\ sjob'.ops = first /\ sjob'.old = Sonic!Dial
        /\ sjob'.new = spush.ip /\ sjob'.gw = gw /\ sjob'.before = Sonic!Config(sw)
    BY <1>2, <1>9, <1>12, <2>3
  <2>5. SonicTypeOK'
    BY <1>1, <1>3, <2>4 DEF SonicInv, SonicTypeOK
  <2>6. RouteAdd' = add
    BY <2>4 DEF RouteAdd, add, Sonic!If, Sonic!Op
  <2>7. Sonic!Config(sw)' = Sonic!Config(sw)
    BY <1>1 DEF Sonic!Config
  <2>8. sjob'.ops = <<Sonic!Op("ip add", sjob'.new)>> \o RouteAdd'
    BY <2>1, <2>4, <2>6 DEF o
  <2>9. InFirst'
    BY <1>3, <2>4, <2>7, <2>8 DEF InFirst, Sonic!Op
  <2>10. Stage'
    BY <1>12, <2>4, <2>9 DEF Stage
  <2> QED
    BY <1>3, <1>10, <2>5, <2>10 DEF SonicInv, SonicMove
<1> QED
  BY <1>11, <1>12

LEMMA ProveSteps ==
  ASSUME SonicInv, Sonic!FirstDone \/ Sonic!Prove \/ Sonic!NotProven
  PROVE  SonicInv' /\ SonicMove
<1>1. sjob \in Jobs /\ sjob.at \in {"first", "prove"} /\ sw' = sw /\ sview' = sview /\ spush' = spush
  BY IdleAt DEF Sonic!FirstDone, Sonic!Prove, Sonic!NotProven, Sonic!UndoAddress, SonicInv, SonicTypeOK
<1>2. Sonic!Answers' = Sonic!Answers /\ Accounted'
  BY <1>1 DEF Sonic!Answers, SonicInv, Accounted
<1>3. CASE Sonic!FirstDone
  <2>1. sjob' = [sjob EXCEPT !.at = "prove"] /\ savedDial' = savedDial /\ pendingDial' = pendingDial
    BY <1>3 DEF Sonic!FirstDone
  <2>2. /\ sjob' \in Jobs /\ sjob'.at = "prove" /\ sjob'.old = sjob.old /\ sjob'.new = sjob.new
        /\ sjob'.gw = sjob.gw /\ sjob'.before = sjob.before
    BY <1>1, <2>1 DEF Jobs
  <2>3. sjob.ops = <<>> /\ sjob.at = "first" /\ sjob.new # sjob.old /\ InFirst
    BY <1>3 DEF Sonic!FirstDone, Sonic!Done, SonicInv, Stage
  <2>4. <<Sonic!Op("ip add", sjob.new)>> \o RouteAdd # <<>>
    <3>1. Sonic!Op("ip add", sjob.new) \in Commands /\ RouteAdd \in Seq(Commands)
      BY <1>1, OpTypes, QuietSeqs DEF Jobs, Route, RouteAdd
    <3> QED
      BY <3>1, Consed
  <2>5. RouteAdd = <<>> => sjob.gw = {}
    BY DEF RouteAdd, Sonic!If
  <2>6. Brought /\ Routed
    BY <2>3, <2>4, <2>5 DEF InFirst, Routed
  <2>7. (Brought /\ Routed)'
    BY <1>1, <1>2, <2>1, <2>2, <2>6 DEF Brought, Routed, Surplus, Sonic!Dial
  <2>8. SonicTypeOK'
    BY <1>1, <2>1, <2>2 DEF SonicInv, SonicTypeOK
  <2>9. Stage'
    BY <2>2, <2>3, <2>7 DEF Stage
  <2>10. Sonic!Known' = Sonic!Known /\ Met'
    BY <1>2, <2>1 DEF SonicInv, Met, Sonic!Known, Sonic!Dial
  <2> QED
    BY <1>2, <2>8, <2>9, <2>10 DEF SonicInv, SonicMove
<1>4. CASE Sonic!Prove
  <2> DEFINE ops == Sonic!Finish(sjob.old, sjob.new, sjob.gw, sjob.stale)
  <2>1. /\ sjob.at = "prove" /\ sjob.new \in Sonic!Answers /\ savedDial' = savedDial /\ pendingDial' = sjob.new
        /\ sjob' = [sjob EXCEPT !.at = "finish", !.via = sjob.new, !.ops = ops]
    BY <1>4 DEF Sonic!Prove
  <2>2. ops \in Seq(Commands)
    BY <1>1, FinishShape DEF Jobs, Route
  <2> HIDE DEF ops
  <2>3. /\ sjob' \in Jobs /\ sjob'.at = "finish" /\ sjob'.old = sjob.old /\ sjob'.new = sjob.new
        /\ sjob'.gw = sjob.gw /\ sjob'.stale = sjob.stale /\ sjob'.via = sjob.new /\ sjob'.ops = ops
    BY <1>1, <2>1, <2>2 DEF Jobs
  <2>4. sjob.new # sjob.old /\ Surplus
    BY <2>1 DEF SonicInv, Stage, Brought
  <2>5. Surplus'
    BY <1>1, <2>4 DEF Surplus
  <2>6. sjob'.ops = Sonic!Finish(sjob'.old, sjob'.new, sjob'.gw, sjob'.stale)
    BY <2>3 DEF ops
  <2>7. sjob'.ops = Sonic!Finish(sjob.old, sjob.new, sjob.gw, sjob.stale)'
    BY <2>6 DEF Sonic!Finish, Sonic!MoveFinish, Sonic!Stale, Sonic!If, Sonic!Op
  <2>8. InFinish'
    BY <2>1, <2>3, <2>4, <2>5, <2>7 DEF InFinish
  <2>9. Stage'
    BY <2>3, <2>8 DEF Stage
  <2>10. sjob.new \in Addr /\ sjob.new # NoAddr
    BY <1>1, AddressAssumption DEF Jobs
  <2>11. SonicTypeOK'
    BY <1>1, <2>1, <2>3, <2>10 DEF SonicInv, SonicTypeOK
  <2>12. Sonic!Known' \subseteq Sonic!Known \cup Sonic!Answers /\ Met'
    BY <1>2, <2>1, <2>10 DEF Met, Sonic!Known, Sonic!Dial
  <2> QED
    BY <1>2, <2>9, <2>11, <2>12 DEF SonicInv, SonicMove
<1>5. CASE Sonic!NotProven
  <2> DEFINE ops == Sonic!Undo(sjob.new, sjob.gw)
  <2>1. sjob.at = "prove" /\ Brought /\ Routed
    BY <1>5 DEF Sonic!NotProven, SonicInv, Stage
  <2>2. PICK to \in Sonic!Known : Sonic!Runs(to) /\ sjob' = [sjob EXCEPT !.at = "undo", !.via = to, !.ops = ops]
    BY <1>5 DEF Sonic!NotProven, Sonic!UndoAddress
  <2>3. savedDial' = savedDial /\ pendingDial' = pendingDial /\ to \in Addr
    <3>1. Sonic!Dial \in Sonic!Answers
      BY <2>1 DEF Brought
    <3>2. Sonic!Dial \in Addr
      BY AddressAssumption DEF SonicInv, SonicTypeOK, Sonic!Dial
    <3> QED
      BY <2>2, <3>1, <3>2 DEF Sonic!Runs
  <2>4. ops = <<Sonic!Op("ip remove", sjob.new)>> \o RouteDel
    BY DEF Sonic!Undo, RouteDel
  <2>5. Sonic!Op("ip remove", sjob.new) \in Commands /\ RouteDel \in Seq(Commands)
    BY <1>1, OpTypes, QuietSeqs DEF Jobs, Route, RouteDel
  <2> DEFINE o == Sonic!Op("ip remove", sjob.new)
             t == RouteDel
  <2> HIDE DEF ops, o, t
  <2>6. ops \in Seq(Commands)
    <3>1. ops = <<o>> \o t /\ o \in Commands /\ t \in Seq(Commands)
      BY <2>4, <2>5 DEF o, t
    <3> QED
      BY <3>1, Consed
  <2>7. /\ sjob' \in Jobs /\ sjob'.at = "undo" /\ sjob'.new = sjob.new /\ sjob'.gw = sjob.gw
        /\ sjob'.before = sjob.before /\ sjob'.ops = ops
    BY <1>1, <2>2, <2>3, <2>6 DEF Jobs
  <2>8. (Brought /\ Routed)'
    BY <1>1, <1>2, <2>1, <2>3, <2>7 DEF Brought, Routed, Surplus, Sonic!Dial
  <2>9. sjob'.ops = (<<Sonic!Op("ip remove", sjob.new)>> \o RouteDel)'
    BY <2>4, <2>7 DEF RouteDel, Sonic!If, Sonic!Op
  <2>10. Stage'
    BY <2>7, <2>8, <2>9 DEF Stage, InUndo
  <2>11. SonicTypeOK'
    BY <1>1, <2>3, <2>7 DEF SonicInv, SonicTypeOK
  <2>12. Sonic!Known' = Sonic!Known /\ Met'
    BY <1>2, <2>3 DEF SonicInv, Met, Sonic!Known, Sonic!Dial
  <2> QED
    BY <1>2, <2>10, <2>11, <2>12 DEF SonicInv, SonicMove
<1> QED
  BY <1>3, <1>4, <1>5

LEMMA FinishDone ==
  ASSUME SonicInv, Sonic!FinishDone
  PROVE  SonicInv' /\ SonicMove
<1>1. sjob \in Jobs /\ sjob.at = "finish" /\ sw' = sw /\ spush' = spush /\ sjob' = Sonic!Idle
  BY IdleAt DEF Sonic!FinishDone, SonicInv, SonicTypeOK
<1>2. sjob.new \in Sonic!Answers
  BY <1>1 DEF Sonic!FinishDone, Sonic!Done, SonicInv, Stage, InFinish
<1>3. savedDial' = sjob.new /\ pendingDial' = NoAddr /\ sjob.new \in Addr /\ sjob.new # NoAddr
  BY <1>1, AddressAssumption DEF Sonic!FinishDone, Sonic!AdoptDial, Jobs
<1>4. sview' \in [cfg : SUBSET Addr, kernel : SUBSET Addr, hops : SUBSET Gateways]
  BY <1>1 DEF Sonic!FinishDone, Sonic!NoteAddress, SonicInv, SonicTypeOK, Jobs, Route
<1>5. SonicTypeOK'
  BY <1>1, <1>3, <1>4 DEF SonicInv, SonicTypeOK, Sonic!Idle
<1>6. Accounted' /\ Stage'
  BY <1>1, IdleAt DEF SonicInv, Accounted, Stage, Sonic!Idle
<1>7. /\ Sonic!Answers' = Sonic!Answers /\ Sonic!Known' \subseteq Sonic!Known \cup Sonic!Answers
      /\ Met'
  BY <1>1, <1>2, <1>3 DEF Sonic!Answers, Sonic!Known, Sonic!Dial, Met
<1> QED
  BY <1>5, <1>6, <1>7 DEF SonicInv, SonicMove

LEMMA OtherSave ==
  ASSUME SonicInv, Sonic!OtherSave
  PROVE  SonicInv' /\ SonicMove
<1> DEFINE o == Sonic!Op("save", NoAddr)
<1>1. /\ sw' = Sonic!After(sw, o) /\ sjob' = sjob /\ sjob.at = "idle" /\ sview' = sview /\ spush' = spush
      /\ savedDial' = savedDial /\ pendingDial' = pendingDial
  BY DEF Sonic!OtherSave
<1>2. o \in Quiet /\ Sonic!Accepts(sw, o)
  BY OpTypes DEF Sonic!Accepts, Sonic!Op
<1>3. /\ sw' \in Switch /\ sw'.cfg = sw.cfg /\ sw'.kernel = sw.kernel
      /\ sw'.saved \in {sw.saved, Sonic!Config(sw)}
  BY <1>1, <1>2, Quiets DEF SonicInv, SonicTypeOK
<1>4. SonicTypeOK'
  BY <1>1, <1>3 DEF SonicInv, SonicTypeOK, Sonic!Idle
<1>5. Cardinality(sw.cfg) \in Nat
  BY FS_CardinalityType DEF SonicInv, Accounted
<1>6. Sonic!Config(sw).cfg = sw.cfg
  BY DEF Sonic!Config
<1>7. Accounted'
  BY <1>3, <1>5, <1>6 DEF SonicInv, Accounted
<1>8. Stage'
  BY <1>1 DEF Stage
<1>9. Sonic!Known' = Sonic!Known /\ Met'
  BY <1>1, <1>3 DEF SonicInv, Met, Sonic!Answers, Sonic!Known, Sonic!Dial
<1> QED
  BY <1>4, <1>7, <1>8, <1>9 DEF SonicInv, SonicMove

LEMMA Restarts ==
  ASSUME SonicInv, Sonic!SwitchRestart
  PROVE  SonicInv' /\ SonicMove
<1>1. sw.saved = Sonic!Config(sw) /\ savedDial' = savedDial /\ pendingDial' = pendingDial /\ sview' = sview
      /\ spush' = spush /\ sjob' = IF Sonic!Running THEN Sonic!Idle ELSE sjob
  BY DEF Sonic!SwitchRestart, Sonic!ComesUp
<1>2. PICK order \in Sonic!SetToSeqs(sw.saved.cfg) :
        sw' = [sw EXCEPT !.cfg = sw.saved.cfg, !.hops = sw.saved.hops, !.kernel = sw.saved.cfg, !.promote = FALSE,
                         !.older = Sonic!Added(order, sw.saved.cfg)]
  BY DEF Sonic!SwitchRestart, Sonic!ComesUp
<1>3. sw.saved.cfg = sw.cfg /\ sw.saved.hops = sw.hops
  BY <1>1 DEF Sonic!Config
<1>4. sw' \in Switch /\ sw'.cfg = sw.cfg /\ sw'.kernel = sw.cfg /\ sw'.saved = sw.saved
  <2> DEFINE kept == Sonic!Added(order, sw.saved.cfg)
  <2>1. kept \in SUBSET (Addr \X Addr)
    BY DEF Sonic!Added, SonicInv, SonicTypeOK, Switch, Contents
  <2> HIDE DEF kept
  <2>2. sw' = [sw EXCEPT !.cfg = sw.saved.cfg, !.hops = sw.saved.hops, !.kernel = sw.saved.cfg, !.promote = FALSE,
                         !.older = kept]
    BY <1>2 DEF kept
  <2> QED
    BY <1>3, <2>1, <2>2 DEF SonicInv, SonicTypeOK, Switch
<1>5. ~Surplus
  <2>1. Cardinality(sw.cfg) \in Nat
    BY FS_CardinalityType DEF SonicInv, Accounted
  <2> QED
    BY <1>3, <2>1 DEF Surplus
<1>6. sjob'.at = "idle" /\ (sjob' = Sonic!Idle \/ sjob' = sjob)
  <2>1. sjob.at # "prove"
    BY <1>5 DEF SonicInv, Stage, Brought
  <2> QED
    BY <1>1, <2>1, IdleAt DEF Sonic!Running, SonicInv, SonicTypeOK, Jobs
<1>7. SonicTypeOK'
  BY <1>1, <1>4, <1>6 DEF SonicInv, SonicTypeOK, Sonic!Idle
<1>8. Accounted'
  BY <1>3, <1>4 DEF SonicInv, Accounted
<1>9. Stage'
  BY <1>6 DEF Stage
<1>10. Sonic!Known' = Sonic!Known /\ Met'
  BY <1>1, <1>4 DEF SonicInv, Accounted, Met, Sonic!Answers, Sonic!Known, Sonic!Dial
<1> QED
  BY <1>7, <1>8, <1>9, <1>10 DEF SonicInv, SonicMove

\* A subnet's youngest address is its primary only when it is alone in it, so
\* its removal takes no other with it.
LEMMA YoungestAlone ==
  ASSUME NEW s \in Switch, NEW a \in Addr, \A b \in s.kernel \ {a} : <<b, a>> \in s.older
  PROVE  Sonic!KernelRemove(s, a) = s.kernel \ {a}
  BY DEF Sonic!KernelRemove, Sonic!Primary

\* What a refused command leaves behind.
LEMMA Refusals ==
  ASSUME SonicInv, sw' = sw, sjob' = Sonic!Idle, savedDial' = savedDial, pendingDial' = pendingDial,
         sview' = sview, spush' = spush
  PROVE  SonicInv'
  BY IdleAt DEF SonicInv, SonicTypeOK, Accounted, Stage, Met, Sonic!Answers, Sonic!Known, Sonic!Dial, Sonic!Idle

\* The frame of an accepted command.
Accepted(o) ==
  /\ sjob \in Jobs /\ sjob.ops # <<>> /\ o = Head(sjob.ops) /\ sjob.via \in Sonic!Answers
  /\ Sonic!Accepts(sw, o) /\ sw' = Sonic!After(sw, o)
  /\ sjob' = [sjob EXCEPT !.ops = Tail(@)]
  /\ savedDial' = savedDial /\ pendingDial' = pendingDial /\ sview' = sview /\ spush' = spush

LEMMA AcceptedFrame ==
  ASSUME SonicInv, NEW o, Accepted(o), sw' \in Switch
  PROVE  /\ SonicTypeOK' /\ Sonic!Known' = Sonic!Known /\ Sonic!Dial' = Sonic!Dial
         /\ sjob' \in Jobs /\ sjob'.ops = Tail(sjob.ops) /\ sjob'.at = sjob.at /\ sjob'.via = sjob.via
         /\ sjob'.old = sjob.old /\ sjob'.new = sjob.new /\ sjob'.gw = sjob.gw /\ sjob'.stale = sjob.stale
         /\ sjob'.before = sjob.before
         /\ RouteAdd' = RouteAdd /\ RouteDel' = RouteDel
<1>1. Tail(sjob.ops) \in Seq(Commands)
  BY HeadTailProperties DEF Accepted, Jobs
<1> DEFINE t == Tail(sjob.ops)
<1>2. sjob \in Jobs /\ sjob' = [sjob EXCEPT !.ops = t]
  BY DEF Accepted
<1> HIDE DEF t
<1>3. /\ sjob' \in Jobs /\ sjob'.ops = t /\ sjob'.at = sjob.at /\ sjob'.via = sjob.via
      /\ sjob'.old = sjob.old /\ sjob'.new = sjob.new /\ sjob'.gw = sjob.gw /\ sjob'.stale = sjob.stale
      /\ sjob'.before = sjob.before
  BY <1>1, <1>2 DEF Jobs, t
<1>4. RouteAdd' = RouteAdd /\ RouteDel' = RouteDel
  BY <1>3 DEF RouteAdd, RouteDel, Sonic!If, Sonic!Op
<1>5. SonicTypeOK'
  BY <1>3 DEF Accepted, SonicInv, SonicTypeOK
<1>6. Sonic!Known' = Sonic!Known /\ Sonic!Dial' = Sonic!Dial
  BY DEF Accepted, Sonic!Known, Sonic!Dial
<1> QED
  BY <1>3, <1>4, <1>5, <1>6 DEF t

\* A command that leaves the addresses alone.
LEMMA QuietFrame ==
  ASSUME SonicInv, NEW o \in Quiet, Accepted(o)
  PROVE  /\ sw' \in Switch /\ sw'.cfg = sw.cfg /\ sw'.kernel = sw.kernel /\ sw'.older = sw.older
         /\ Accounted' /\ Met' /\ Sonic!Answers' = Sonic!Answers
         /\ o.op = "route add" => sw'.hops = sw.hops \cup o.arg /\ o.arg \cap sw.hops = {} /\ (Surplus => Surplus')
         /\ o.op = "route del" => sw'.hops = sw.hops \ o.arg
<1>1. /\ sw' \in Switch /\ sw'.cfg = sw.cfg /\ sw'.kernel = sw.kernel /\ sw'.older = sw.older
      /\ sw'.saved \in {sw.saved, Sonic!Config(sw)}
      /\ o.op = "route add" => sw'.hops = sw.hops \cup o.arg /\ o.arg \cap sw.hops = {} /\ sw'.saved = sw.saved
      /\ o.op = "route del" => sw'.hops = sw.hops \ o.arg
  BY Quiets DEF Accepted, SonicInv, SonicTypeOK
<1>2. Cardinality(sw.cfg) \in Nat
  BY FS_CardinalityType DEF SonicInv, Accounted
<1>3. Sonic!Config(sw).cfg = sw.cfg
  BY DEF Sonic!Config
<1>4. Accounted'
  <2>1. sw'.cfg = sw.cfg /\ sw'.kernel = sw.kernel /\ (sw'.saved.cfg = sw.saved.cfg \/ sw'.saved.cfg = sw.cfg)
    BY <1>1, <1>3
  <2> QED
    BY <1>2, <2>1 DEF SonicInv, Accounted
<1>5. Sonic!Known' = Sonic!Known /\ Sonic!Answers' = Sonic!Answers
  BY <1>1 DEF Accepted, Sonic!Known, Sonic!Dial, Sonic!Answers
<1>6. Met'
  BY <1>5 DEF SonicInv, Met
<1>7. sw'.saved = sw.saved => (Surplus => Surplus')
  BY <1>1 DEF Surplus
<1> QED
  BY <1>1, <1>4, <1>5, <1>6, <1>7

LEMMA QuietRuns ==
  ASSUME SonicInv, NEW o, Accepted(o), sjob.at \in {"same", "finish"}, sjob.ops \in Seq(Quiet)
  PROVE  SonicInv' /\ SonicMove
<1>1. o \in Quiet /\ Tail(sjob.ops) \in Seq(Quiet)
  BY HeadTailProperties DEF Accepted
<1>2. sw' \in Switch /\ Accounted' /\ Met'
  BY <1>1, QuietFrame
<1>3. /\ SonicTypeOK' /\ Sonic!Known' = Sonic!Known
      /\ sjob'.ops = Tail(sjob.ops) /\ sjob'.at = sjob.at /\ sjob'.via = sjob.via
      /\ sjob'.old = sjob.old /\ sjob'.new = sjob.new
  BY <1>2, AcceptedFrame
<1>4. pendingDial' = pendingDial
  BY DEF Accepted
<1>5. sjob.at = "finish" => InFinish'
  BY <1>1, <1>3, <1>4 DEF SonicInv, Stage, InFinish
<1>6. Stage'
  BY <1>1, <1>3, <1>5 DEF Stage
<1> QED
  BY <1>2, <1>3, <1>6 DEF SonicInv, SonicMove

LEMMA FirstRuns ==
  ASSUME SonicInv, NEW o, Accepted(o), sjob.at = "first"
  PROVE  SonicInv' /\ SonicMove
<1>1. sjob.new # sjob.old /\ InFirst /\ sjob.ops # <<>> /\ o = Head(sjob.ops)
  BY DEF SonicInv, Stage, Accepted
<1>2. sjob \in Jobs /\ sjob.new \in Addr /\ sjob.gw \in SUBSET Gateways /\ sw \in Switch
  BY DEF Accepted, Jobs, Route, SonicInv, SonicTypeOK
<1>3. Sonic!Op("ip add", sjob.new) \in Commands /\ RouteAdd \in Seq(Commands)
  BY <1>2, OpTypes, QuietSeqs DEF RouteAdd
<1> DEFINE add == Sonic!Op("ip add", sjob.new)
           t == RouteAdd
<1>4. CASE /\ sjob.ops = <<add>> \o t
           /\ Sonic!Dial \in Sonic!Answers /\ Sonic!Config(sw) = sjob.before
  <2> HIDE DEF add, t
  <2>1. o = add /\ Tail(sjob.ops) = t
    <3>1. add \in Commands /\ t \in Seq(Commands)
      BY <1>3 DEF add, t
    <3> QED
      BY <1>1, <1>4, <3>1, Consed
  <2>2. /\ sjob.new \notin sw.cfg
        /\ sw' \in Switch /\ sw'.cfg = sw.cfg \cup {sjob.new} /\ sw'.kernel = sw.kernel \cup {sjob.new}
        /\ sw'.older = sw.older \cup {<<b, sjob.new>> : b \in sw.kernel}
        /\ sw'.hops = sw.hops /\ sw'.saved = sw.saved
    <3>1. Sonic!Accepts(sw, add) /\ sw' = Sonic!After(sw, add)
      BY <2>1 DEF Accepted
    <3> QED
      BY <3>1, <1>2, Adds DEF add
  <2>3. /\ SonicTypeOK' /\ Sonic!Known' = Sonic!Known /\ Sonic!Dial' = Sonic!Dial
        /\ sjob'.ops = t /\ sjob'.at = "first" /\ sjob'.old = sjob.old /\ sjob'.new = sjob.new
        /\ sjob'.gw = sjob.gw /\ sjob'.before = sjob.before /\ RouteAdd' = RouteAdd
    BY <2>1, <2>2, AcceptedFrame
  <2>4. sjob.before.cfg = sw.cfg /\ sjob.before.hops = sw.hops
    <3>1. sjob.before = [cfg |-> sw.cfg, hops |-> sw.hops]
      BY <1>4 DEF Sonic!Config
    <3> QED
      BY <3>1
  <2>5. /\ IsFiniteSet(sw'.cfg) /\ Cardinality(sw'.cfg) = Cardinality(sw.cfg) + 1
        /\ Cardinality(sw.cfg) \in Nat /\ Cardinality(sw.saved.cfg) \in Nat
        /\ Cardinality(sw.saved.cfg) <= Cardinality(sw.cfg)
    <3>1. IsFiniteSet(sw.cfg) /\ IsFiniteSet(sw.saved.cfg) /\ Cardinality(sw.saved.cfg) <= Cardinality(sw.cfg)
      BY DEF SonicInv, Accounted
    <3>2. Cardinality(sw.cfg) \in Nat /\ Cardinality(sw.saved.cfg) \in Nat
      BY <3>1, FS_CardinalityType
    <3>3. IsFiniteSet(sw.cfg \cup {sjob.new}) /\ Cardinality(sw.cfg \cup {sjob.new}) = Cardinality(sw.cfg) + 1
      BY <2>2, <3>1, FS_AddElement
    <3> QED
      BY <2>2, <3>1, <3>2, <3>3
  <2>6. Surplus' /\ Accounted'
    BY <2>2, <2>5 DEF Surplus, Accounted, SonicInv
  <2>7. Sonic!Answers \subseteq Sonic!Answers'
    BY <2>2 DEF Sonic!Answers
  <2>8. Sonic!Dial \in Sonic!Answers' \ {sjob.new}
    BY <1>4, <2>2, <2>7 DEF SonicInv, Accounted, Sonic!Answers
  <2>9. \A b \in sw'.kernel \ {sjob.new} : <<b, sjob.new>> \in sw'.older
    BY <2>2
  <2>10. Brought'
    BY <2>2, <2>3, <2>4, <2>6, <2>8, <2>9 DEF Brought
  <2>11. Stage'
    <3>1. sjob'.ops = RouteAdd'
      BY <2>3 DEF t
    <3>2. sw'.hops = sjob'.before.hops
      BY <2>2, <2>3, <2>4
    <3>3. InFirst'
      BY <2>10, <3>1, <3>2 DEF InFirst
    <3> QED
      BY <1>1, <2>3, <3>3 DEF Stage
  <2>12. Met'
    BY <2>3, <2>7 DEF SonicInv, Met
  <2> QED
    BY <2>3, <2>6, <2>11, <2>12 DEF SonicInv, SonicMove
<1>5. CASE sjob.ops = RouteAdd /\ Brought /\ sw.hops = sjob.before.hops
  <2>1. o = Sonic!Op("route add", sjob.gw) /\ Tail(sjob.ops) = <<>>
    <3>1. sjob.ops = <<Sonic!Op("route add", sjob.gw)>>
      BY <1>1, <1>5 DEF RouteAdd, Sonic!If
    <3> DEFINE x == Sonic!Op("route add", sjob.gw)
    <3> HIDE DEF x
    <3>2. sjob.ops = <<x>>
      BY <3>1 DEF x
    <3>3. Head(sjob.ops) = x /\ Tail(sjob.ops) = <<>>
      BY <3>2
    <3> QED
      BY <1>1, <3>3 DEF x
  <2>2. o \in Quiet /\ o.op = "route add" /\ o.arg = sjob.gw
    BY <1>2, <2>1, OpTypes DEF Sonic!Op
  <2>3. /\ sw' \in Switch /\ sw'.cfg = sw.cfg /\ sw'.kernel = sw.kernel /\ sw'.older = sw.older
        /\ Accounted' /\ Met' /\ Sonic!Answers' = Sonic!Answers
        /\ sw'.hops = sw.hops \cup sjob.gw /\ sjob.gw \cap sw.hops = {}
        /\ (Surplus => Surplus')
    BY <2>2, QuietFrame
  <2>4. /\ SonicTypeOK' /\ Sonic!Known' = Sonic!Known /\ Sonic!Dial' = Sonic!Dial
        /\ sjob'.ops = <<>> /\ sjob'.at = "first" /\ sjob'.old = sjob.old /\ sjob'.new = sjob.new
        /\ sjob'.gw = sjob.gw /\ sjob'.before = sjob.before
    BY <2>1, <2>3, AcceptedFrame
  <2>5. Brought' /\ Routed'
    BY <1>5, <2>3, <2>4 DEF Brought, Routed
  <2>6. Stage'
    BY <1>1, <2>4, <2>5 DEF Stage, InFirst
  <2> QED
    BY <2>3, <2>4, <2>6 DEF SonicInv, SonicMove
<1> QED
  BY <1>1, <1>4, <1>5 DEF InFirst

LEMMA FinishRuns ==
  ASSUME SonicInv, NEW o, Accepted(o), sjob.at = "finish"
  PROVE  SonicInv' /\ SonicMove
<1> DEFINE ops == Sonic!Finish(sjob.old, sjob.new, sjob.gw, sjob.stale)
<1>1. InFinish /\ o = Head(sjob.ops) /\ sjob.via \in Sonic!Answers
  BY DEF SonicInv, Stage, Accepted
<1>2. /\ sjob \in Jobs /\ sjob.new \in Addr /\ sjob.old \in Addr /\ sjob.gw \in SUBSET Gateways
      /\ sjob.stale \in SUBSET Gateways /\ sw \in Switch
  BY DEF Accepted, Jobs, Route, SonicInv, SonicTypeOK
<1>3. /\ Head(ops) = Sonic!Op("promote", NoAddr) /\ Head(Tail(ops)) = Sonic!Op("ip remove", sjob.old)
      /\ Tail(Tail(ops)) \in Seq(Quiet)
  BY <1>2, FinishShape
<1>4. sjob.new # sjob.old /\ sjob.via = sjob.new /\ pendingDial = sjob.new /\ pendingDial' = pendingDial
  BY <1>1 DEF InFinish, Accepted
<1>5. sjob'.old = sjob.old /\ sjob'.new = sjob.new /\ sjob'.gw = sjob.gw /\ sjob'.stale = sjob.stale =>
        ops' = ops
  BY DEF Sonic!Finish, Sonic!MoveFinish, Sonic!Stale, Sonic!If, Sonic!Op
<1> HIDE DEF ops
<1>6. CASE sjob.ops = ops /\ Surplus
  <2>1. sw' = Sonic!After(sw, Sonic!Op("promote", NoAddr))
    BY <1>1, <1>3, <1>6 DEF Accepted
  <2>2. sw' \in Switch /\ sw'.promote /\ sw'.cfg = sw.cfg /\ sw'.kernel = sw.kernel /\ sw'.saved = sw.saved
    BY <1>2, <2>1, Promotes
  <2>3. /\ SonicTypeOK' /\ Sonic!Known' = Sonic!Known
        /\ sjob'.ops = Tail(sjob.ops) /\ sjob'.at = "finish" /\ sjob'.via = sjob.via
        /\ sjob'.old = sjob.old /\ sjob'.new = sjob.new /\ sjob'.gw = sjob.gw /\ sjob'.stale = sjob.stale
    BY <2>2, AcceptedFrame
  <2>4. Accounted' /\ Surplus' /\ Met'
    BY <1>6, <2>2, <2>3 DEF SonicInv, Accounted, Surplus, Met, Sonic!Answers
  <2>5. sjob'.ops = Tail(ops')
    BY <1>5, <1>6, <2>3
  <2>6. InFinish'
    BY <1>4, <2>2, <2>3, <2>4, <2>5 DEF InFinish, ops
  <2>7. Stage'
    BY <2>3, <2>6 DEF Stage
  <2> QED
    BY <2>3, <2>4, <2>7 DEF SonicInv, SonicMove
<1>7. CASE sjob.ops = Tail(ops) /\ Surplus /\ sw.promote
  <2>1. o = Sonic!Op("ip remove", sjob.old) /\ Tail(sjob.ops) \in Seq(Quiet)
    BY <1>1, <1>3, <1>7
  <2>2. /\ sjob.old \in sw.cfg
        /\ sw' \in Switch /\ sw'.cfg = sw.cfg \ {sjob.old} /\ sw'.kernel = Sonic!KernelRemove(sw, sjob.old)
        /\ sw'.saved = sw.saved
    <3>1. Sonic!Accepts(sw, Sonic!Op("ip remove", sjob.old)) /\ sw' = Sonic!After(sw, Sonic!Op("ip remove", sjob.old))
      BY <2>1 DEF Accepted
    <3> QED
      BY <1>2, <3>1, Removes
  <2>3. sw'.kernel = sw.kernel \ {sjob.old}
    BY <1>7, <2>2 DEF Sonic!KernelRemove
  <2>4. /\ SonicTypeOK' /\ Sonic!Known' = Sonic!Known
        /\ sjob'.ops = Tail(sjob.ops) /\ sjob'.at = "finish" /\ sjob'.via = sjob.via
        /\ sjob'.old = sjob.old /\ sjob'.new = sjob.new
    BY <2>2, AcceptedFrame
  <2>5. Accounted'
    <3>1. /\ IsFiniteSet(sw.cfg) /\ IsFiniteSet(sw.saved.cfg) /\ sw.kernel \subseteq sw.cfg
          /\ Cardinality(sw.saved.cfg) < Cardinality(sw.cfg)
      BY <1>7 DEF SonicInv, Accounted, Surplus
    <3>2. Cardinality(sw.cfg) \in Nat /\ Cardinality(sw.saved.cfg) \in Nat
      BY <3>1, FS_CardinalityType
    <3>3. IsFiniteSet(sw.cfg \ {sjob.old}) /\ Cardinality(sw.cfg \ {sjob.old}) = Cardinality(sw.cfg) - 1
      BY <2>2, <3>1, FS_RemoveElement
    <3>4. sw'.cfg = sw.cfg \ {sjob.old} /\ sw'.saved = sw.saved /\ sw'.kernel \subseteq sw.cfg \ {sjob.old}
      BY <2>2, <2>3, <3>1
    <3> QED
      BY <3>1, <3>2, <3>3, <3>4 DEF Accounted
  <2>6. sjob.new \in Sonic!Answers' /\ sjob.new \in Sonic!Known
    BY <1>1, <1>2, <1>4, <2>3, AddressAssumption DEF Sonic!Answers, Sonic!Known
  <2>7. Met'
    BY <2>4, <2>6 DEF Met
  <2>8. InFinish'
    BY <1>4, <2>1, <2>4 DEF InFinish
  <2>9. Stage'
    BY <2>4, <2>8 DEF Stage
  <2> QED
    BY <2>4, <2>5, <2>7, <2>9 DEF SonicInv, SonicMove
<1>8. CASE sjob.ops \in Seq(Quiet)
  BY <1>8, QuietRuns
<1> QED
  BY <1>1, <1>6, <1>7, <1>8 DEF InFinish, ops

LEMMA UndoRuns ==
  ASSUME SonicInv, NEW o, Accepted(o), sjob.at = "undo"
  PROVE  SonicInv' /\ SonicMove
<1>1. InUndo /\ sjob.ops # <<>> /\ o = Head(sjob.ops)
  BY DEF SonicInv, Stage, Accepted
<1>2. sjob \in Jobs /\ sjob.new \in Addr /\ sjob.gw \in SUBSET Gateways /\ sw \in Switch
  BY DEF Accepted, Jobs, Route, SonicInv, SonicTypeOK
<1>3. Sonic!Op("ip remove", sjob.new) \in Commands /\ RouteDel \in Seq(Commands)
  BY <1>2, OpTypes, QuietSeqs DEF RouteDel
<1> DEFINE rem == Sonic!Op("ip remove", sjob.new)
           t == RouteDel
<1>4. CASE sjob.ops = <<rem>> \o t /\ Brought /\ Routed
  <2> HIDE DEF rem, t
  <2>1. o = rem /\ Tail(sjob.ops) = t
    <3>1. rem \in Commands /\ t \in Seq(Commands)
      BY <1>3 DEF rem, t
    <3> QED
      BY <1>1, <1>4, <3>1, Consed
  <2>2. /\ sjob.new \in sw.cfg
        /\ sw' \in Switch /\ sw'.cfg = sw.cfg \ {sjob.new} /\ sw'.kernel = Sonic!KernelRemove(sw, sjob.new)
        /\ sw'.saved = sw.saved /\ sw'.hops = sw.hops
    <3>1. Sonic!Accepts(sw, rem) /\ sw' = Sonic!After(sw, rem)
      BY <2>1 DEF Accepted
    <3> QED
      BY <1>2, <3>1, Removes DEF rem
  <2>3. sw'.kernel = sw.kernel \ {sjob.new}
    BY <1>2, <1>4, <2>2, YoungestAlone DEF Brought
  <2>4. /\ SonicTypeOK' /\ Sonic!Known' = Sonic!Known
        /\ sjob'.ops = t /\ sjob'.at = "undo" /\ sjob'.new = sjob.new
        /\ sjob'.gw = sjob.gw /\ sjob'.before = sjob.before /\ RouteDel' = RouteDel
    BY <2>1, <2>2, AcceptedFrame
  <2>5. Accounted'
    <3>1. /\ IsFiniteSet(sw.cfg) /\ IsFiniteSet(sw.saved.cfg) /\ sw.kernel \subseteq sw.cfg
          /\ Cardinality(sw.saved.cfg) < Cardinality(sw.cfg)
      BY <1>4 DEF SonicInv, Accounted, Brought, Surplus
    <3>2. Cardinality(sw.cfg) \in Nat /\ Cardinality(sw.saved.cfg) \in Nat
      BY <3>1, FS_CardinalityType
    <3>3. IsFiniteSet(sw.cfg \ {sjob.new}) /\ Cardinality(sw.cfg \ {sjob.new}) = Cardinality(sw.cfg) - 1
      BY <2>2, <3>1, FS_RemoveElement
    <3>4. sw'.cfg = sw.cfg \ {sjob.new} /\ sw'.saved = sw.saved /\ sw'.kernel \subseteq sw.cfg \ {sjob.new}
      BY <2>2, <2>3, <3>1
    <3> QED
      BY <3>1, <3>2, <3>3, <3>4 DEF Accounted
  <2>6. Met'
    BY <1>4, <2>3, <2>4, AddressAssumption
      DEF Brought, Met, Sonic!Answers, Sonic!Known, Sonic!Dial, SonicInv, SonicTypeOK
  <2>7. sw'.cfg = sjob'.before.cfg
    BY <1>4, <2>2, <2>4 DEF Brought
  <2>8. Routed'
    BY <1>4, <2>2, <2>4 DEF Routed
  <2>9. sjob'.ops = RouteDel'
    BY <2>4 DEF t
  <2>10. Stage'
    BY <2>4, <2>7, <2>8, <2>9 DEF Stage, InUndo
  <2> QED
    BY <2>4, <2>5, <2>6, <2>10 DEF SonicInv, SonicMove
<1>5. CASE sjob.ops = RouteDel /\ sw.cfg = sjob.before.cfg /\ Routed
  <2>1. o = Sonic!Op("route del", sjob.gw) /\ Tail(sjob.ops) = <<>>
    <3>1. sjob.ops = <<Sonic!Op("route del", sjob.gw)>>
      BY <1>1, <1>5 DEF RouteDel, Sonic!If
    <3> DEFINE x == Sonic!Op("route del", sjob.gw)
    <3> HIDE DEF x
    <3>2. sjob.ops = <<x>>
      BY <3>1 DEF x
    <3>3. Head(sjob.ops) = x /\ Tail(sjob.ops) = <<>>
      BY <3>2
    <3> QED
      BY <1>1, <3>3 DEF x
  <2>2. o \in Quiet /\ o.op = "route del" /\ o.arg = sjob.gw
    BY <1>2, <2>1, OpTypes DEF Sonic!Op
  <2>3. /\ sw' \in Switch /\ sw'.cfg = sw.cfg /\ Accounted' /\ Met' /\ sw'.hops = sw.hops \ sjob.gw
    BY <2>2, QuietFrame
  <2>4. /\ SonicTypeOK' /\ Sonic!Known' = Sonic!Known
        /\ sjob'.ops = <<>> /\ sjob'.at = "undo" /\ sjob'.before = sjob.before
    BY <2>1, <2>3, AcceptedFrame
  <2>5. sw'.cfg = sjob.before.cfg /\ sw'.hops = sjob.before.hops
    BY <1>5, <2>3 DEF Routed
  <2>6. sjob.before = [cfg |-> sjob.before.cfg, hops |-> sjob.before.hops]
    BY <1>2 DEF Jobs, Contents
  <2>7. Sonic!Config(sw)' = sjob'.before
    BY <2>4, <2>5, <2>6 DEF Sonic!Config
  <2>8. Stage'
    BY <2>4, <2>7 DEF Stage, InUndo
  <2> QED
    BY <2>3, <2>4, <2>8 DEF SonicInv, SonicMove
<1> QED
  BY <1>1, <1>4, <1>5 DEF InUndo

LEMMA RunsOp ==
  ASSUME SonicInv, Sonic!RunOp
  PROVE  SonicInv' /\ SonicMove
<1> DEFINE o == Head(sjob.ops)
<1>1. CASE Sonic!Accepts(sw, o)
  <2>1. sjob \in Jobs
    BY IdleAt DEF Sonic!RunOp, Sonic!Running, SonicInv, SonicTypeOK
  <2>2. Accepted(o)
    BY <1>1, <2>1 DEF Accepted, Sonic!RunOp
  <2>3. sjob.at \in {"same", "first", "finish", "undo"}
    BY DEF Sonic!RunOp, Sonic!Running
  <2>4. sjob.at = "same" => sjob.ops \in Seq(Quiet)
    BY DEF SonicInv, Stage
  <2> QED
    BY <2>2, <2>3, <2>4, QuietRuns, FirstRuns, FinishRuns, UndoRuns
<1>2. CASE ~Sonic!Accepts(sw, o)
  <2>1. /\ sw' = sw /\ sjob' = Sonic!Idle /\ savedDial' = savedDial /\ pendingDial' = pendingDial
        /\ sview' = sview /\ spush' = spush
    BY <1>2 DEF Sonic!RunOp
  <2>2. Sonic!Known' = Sonic!Known
    BY <2>1 DEF Sonic!Known, Sonic!Dial
  <2> QED
    BY <2>1, <2>2, Refusals DEF SonicMove
<1> QED
  BY <1>1, <1>2

LEMMA SonicSteps ==
  ASSUME SonicInv, Sonic!Next
  PROVE  SonicInv' /\ SonicMove
  BY IdleSteps, Collects, Applies, ProveSteps, FinishDone, OtherSave, Restarts, RunsOp
    DEF Sonic!Next, Sonic!Proceed

(***************************************************************************)
(* Both.                                                                    *)
(***************************************************************************)
Inv == kind \in {"sonic", "arista"} /\ SonicInv /\ AristaInv

LEMMA InitInv == Init => Inv
  BY SonicInits, AristaInits DEF Init, Inv

LEMMA SonicStutter ==
  ASSUME SonicInv, UNCHANGED sonicVars
  PROVE  SonicInv' /\ Sonic!Known' = Sonic!Known /\ Sonic!Answers' = Sonic!Answers
<1>1. Sonic!Known' = Sonic!Known /\ Sonic!Answers' = Sonic!Answers /\ Sonic!Dial' = Sonic!Dial
  BY DEF sonicVars, Sonic!Known, Sonic!Answers, Sonic!Dial
<1>2. SonicTypeOK' /\ Accounted' /\ Met'
  BY <1>1 DEF sonicVars, SonicInv, SonicTypeOK, Accounted, Met, Sonic!Idle
<1>3. RouteAdd' = RouteAdd /\ RouteDel' = RouteDel /\ (Brought <=> Brought') /\ (Routed <=> Routed')
  BY <1>1 DEF sonicVars, RouteAdd, RouteDel, Sonic!If, Sonic!Op, Brought, Surplus, Routed
<1>4. InFirst => InFirst'
  BY <1>1, <1>3 DEF sonicVars, InFirst, Sonic!Op, Sonic!Config
<1>5. InFinish => InFinish'
  BY DEF sonicVars, InFinish, Surplus, Sonic!Finish, Sonic!MoveFinish, Sonic!Stale, Sonic!If, Sonic!Op
<1>6. InUndo => InUndo'
  BY <1>1, <1>3 DEF sonicVars, InUndo, Sonic!Op, Sonic!Config
<1>7. Stage'
  BY <1>3, <1>4, <1>5, <1>6 DEF sonicVars, SonicInv, Stage
<1> QED
  BY <1>1, <1>2, <1>7 DEF SonicInv

LEMMA AristaStutter ==
  ASSUME AristaInv, UNCHANGED aristaVars
  PROVE  AristaInv' /\ Arista!Known' = Arista!Known /\ Arista!At' = Arista!At
  BY DEF aristaVars, AristaInv, AristaTypeOK, Anchored, Arista!Idle, Arista!Known, Arista!At

LEMMA NextInv ==
  ASSUME Inv, [Next]_vars
  PROVE  /\ Inv'
         /\ \/ Known' = Known
            \/ At' = At /\ Known' \subseteq Known \cup At
<1>1. CASE SonicStep
  <2>1. kind = "sonic" /\ kind' = kind /\ Sonic!Next /\ UNCHANGED aristaVars
    BY <1>1 DEF SonicStep
  <2>2. SonicInv' /\ SonicMove /\ AristaInv'
    BY <2>1, SonicSteps, AristaStutter DEF Inv
  <2> QED
    BY <2>1, <2>2 DEF Inv, At, Known, SonicMove
<1>2. CASE AristaStep
  <2>1. kind = "arista" /\ kind' = kind /\ Arista!Next /\ UNCHANGED sonicVars
    BY <1>2 DEF AristaStep
  <2>2. /\ AristaInv' /\ SonicInv'
        /\ \/ Arista!Known' = Arista!Known
           \/ Arista!At' = Arista!At /\ Arista!Known' \subseteq Arista!Known \cup Arista!At
    BY <2>1, AristaSteps, SonicStutter DEF Inv
  <2> QED
    BY <2>1, <2>2 DEF Inv, At, Known
<1>3. CASE UNCHANGED vars
  <2>1. kind' = kind /\ UNCHANGED sonicVars /\ UNCHANGED aristaVars
    BY <1>3 DEF vars, sonicVars, aristaVars
  <2> QED
    BY <2>1, SonicStutter, AristaStutter DEF Inv, At, Known
<1> QED
  BY <1>1, <1>2, <1>3 DEF Next

LEMMA Found ==
  ASSUME Inv
  PROVE  At \subseteq Addr /\ Known \subseteq Addr /\ At \cap Known # {}
  BY SonicFound, AristaFound DEF Inv, At, Known

\* Both drivers implement Findable (NeverLost), whatever the addresses, the
\* subnets, the pushes and the number of lost connections, crashes and
\* restarts: one of the addresses the bridge would dial is one the switch
\* answers at or returns to (SONiC's pending dial target and its fallback,
\* EOS's commit timer).
THEOREM FindsItsSwitch == Spec => NeverLost
<1>1. Init => F!Init
  BY InitInv, Found DEF F!Init, F!Meet
<1>2. Inv /\ [Next]_vars => Inv'
  BY NextInv
<1>3. Inv /\ Inv' /\ [Next]_vars => [F!Next]_(F!vars)
  <2> SUFFICES ASSUME Inv, Inv', [Next]_vars PROVE F!Next
    OBVIOUS
  <2>1. (At \subseteq Addr /\ Known \subseteq Addr /\ At \cap Known # {})'
    BY Found, PTL
  <2>2. Known' = Known \/ (At' = At /\ Known' \subseteq Known \cup At)
    BY NextInv
  <2> QED
    BY <2>1, <2>2 DEF F!Next, F!SwitchMoves, F!BridgeMoves, F!Meet
<1> QED
  BY <1>1, <1>2, <1>3, InitInv, PTL DEF Spec, NeverLost, F!Spec

\* A SONiC move whose proof failed and whose undo ran to its end leaves
\* CONFIG_DB as the move found it (undoAddress).
THEOREM UndoIsClean == Spec => []UndoneIsUntouched
<1>1. Inv /\ [Next]_vars => Inv'
  BY NextInv
<1>2. Inv => UndoneIsUntouched
  <2> SUFFICES ASSUME Inv, sjob.at = "undo", sjob.ops = <<>> PROVE Sonic!Config(sw) = sjob.before
    BY DEF UndoneIsUntouched, Sonic!UndoneIsUntouched
  <2>1. InUndo /\ sjob \in Jobs
    BY IdleAt DEF Inv, SonicInv, Stage, SonicTypeOK
  <2>2. <<Sonic!Op("ip remove", sjob.new)>> \o RouteDel # <<>>
    <3>1. Sonic!Op("ip remove", sjob.new) \in Commands /\ RouteDel \in Seq(Commands)
      BY <2>1, OpTypes, QuietSeqs DEF Jobs, Route, RouteDel
    <3> QED
      BY <3>1, Consed
  <2>3. CASE sjob.ops = RouteDel /\ sw.cfg = sjob.before.cfg /\ Routed
    <3>0. RouteDel = <<>> => sjob.gw = {}
      BY DEF RouteDel, Sonic!If
    <3>1. sjob.gw = {}
      BY <2>3, <3>0
    <3>2. sw.hops = sjob.before.hops
      BY <2>3, <3>1 DEF Routed
    <3>3. sjob.before = [cfg |-> sjob.before.cfg, hops |-> sjob.before.hops]
      BY <2>1 DEF Jobs, Contents
    <3> QED
      BY <2>3, <3>2, <3>3 DEF Sonic!Config
  <2> QED
    BY <2>1, <2>2, <2>3 DEF InUndo
<1> QED
  BY <1>1, <1>2, InitInv, PTL DEF Spec

=============================================================================

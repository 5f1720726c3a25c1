------------------------------ MODULE SonicAcl ------------------------------
(***************************************************************************)
(* DHCP guarding and the controller's ACL rules on a SONiC switch: the      *)
(* rules of a push become three ACL tables of the driver's own (aclSet),    *)
(* the tables are brought in line by one batch of CONFIG_DB writes that is  *)
(* a diff against the last collect (applyACL), and a set that would cut the *)
(* bridge off from the switch is held.  A batch may be cut off anywhere; a  *)
(* switch whose rules drop the bridge's own packets cannot be collected     *)
(* again.                                                                   *)
(*                                                                         *)
(* A side of a rule is the set of addresses it covers.  Tables are 1 (DUI_DHCP_GUARD),*)
(* 2 (DUI_IP_ACL) and 3 (DUI_MAC_ACL), in their order of writing.  The      *)
(* ports a table binds are in SonicPlan; here a binding is current, stale   *)
(* or not the driver's.  Ports are 22, a privileged one and an ephemeral    *)
(* one.                                                                     *)
(***************************************************************************)
EXTENDS Integers, Sequences, FiniteSets, FiniteSetsExt, SequencesExt

CONSTANTS Hosts, Bridge, Switch,   \* IPv4 addresses: all, the bridge's, the switch's
          Macs, Gateway,           \* MACs: all, the peer the bridge's frames come from,
          OwnMac, Broadcast,       \* the switch's and everybody's
          Vlans, MgmtVlan,         \* UniFi's VLANs on the switch, the one its address is on
          NativeVlan,              \* the stand-in for UniFi's VLAN 1
          Pushes,                  \* the configs the controller may push
          MaxPushes, MaxFaults, MaxRules,
          None

ASSUME AddressAssumption ==
  /\ Bridge \in Hosts /\ Switch \in Hosts /\ Gateway \in Macs /\ OwnMac \in Macs /\ Broadcast \in Macs
  /\ Vlans \subseteq Nat \ {0} /\ IsFiniteSet(Vlans) /\ NativeVlan \in Nat \ {0}
  /\ MgmtVlan \in Vlans /\ NativeVlan \notin Vlans

Guard == 1
IpAcl == 2
MacAcl == 3
Tables == {Guard, IpAcl, MacAcl}

Ssh == 22
Low == 1000
Ephemeral == 50000
Ports == {Ssh, Low, Ephemeral}

\* The controller's rules as desiredACLs hands them on; oneSport is a rule that
\* names one source port, captured one whose shape a capture has shown (a range
\* of source ports has not).
Protos == {"any", "tcp", "udp", "icmp"}
IpRule == [permit : BOOLEAN, proto : Protos, src : SUBSET Hosts, dst : SUBSET Hosts, sports : SUBSET Ports,
           dports : SUBSET Ports, oneSport : BOOLEAN, captured : BOOLEAN]
MacRule == [permit : BOOLEAN, vlan : Nat, src : SUBSET Macs, dst : SUBSET Macs, captured : BOOLEAN]
Trusted == [vlan : Nat, server : Hosts \cup {None}]
NameStride == 100   \* more than a VLAN has guard rules

ASSUME PushAssumption ==
  \A p \in Pushes : /\ p.snooping \in BOOLEAN \cup {None}
                     /\ p.guards \in Seq(Trusted) /\ Len(p.guards) < NameStride
                     /\ p.ips \in Seq(IpRule) /\ p.macs \in Seq(MacRule)
                     /\ \A i \in DOMAIN p.ips : p.ips[i].captured => p.ips[i].oneSport \/ p.ips[i].sports = Ports

IpPackets == [proto : {"tcp", "udp"}, src : Hosts, dst : Hosts, sport : Ports, dport : Ports]
Frames == [vlan : Vlans \cup {NativeVlan}, src : Macs, dst : Macs]

VARIABLES
  db,       \* ACL_TABLE and ACL_RULE of the driver's tables on the switch
  view,     \* the driver's copy
  from,     \* the bridge's address as the switch sees it, or None
  path,     \* what the last collect says of the management traffic at layer 2
  l2,       \* orchagent has the L2 table type
  push, want, ops, sim, running,
  settled,  \* the last batch ran to its end and nothing happened since
  lists,    \* VLAN -> the server lists the controller has pushed for it
  pushes, faults

vars == <<db, view, from, path, l2, push, want, ops, sim, running, settled, lists, pushes, faults>>

SonicVlan(v) == IF v = 1 THEN NativeVlan ELSE v

(***************************************************************************)
(* The rules of a push.                                                     *)
(***************************************************************************)
\* A VLAN's trusted servers in the order of the push, once each; one that
\* is not an IPv4 address is skipped.
Servers(guards, v) ==
  FoldLeft(LAMBDA list, g : IF g.vlan # v \/ g.server \notin Hosts \/ g.server \in ToSet(list)
                            THEN list ELSE Append(list, g.server), <<>>, guards)

\* Rule k of VLAN v, 0 being its DROP.
GuardName(v, k) == NameStride * v + k

\* Mutant: the DROP is written above the FORWARDs.
GuardRulesDropFirst(guards, vlans) ==
  LET guarded == {v \in Vlans : Servers(guards, v) # <<>> /\ v # NativeVlan /\ SonicVlan(v) \in vlans}
      Rule(v, k) == IF k = 0 THEN [prio |-> 9001, permit |-> FALSE, fields |-> [vlan |-> SonicVlan(v), servers |-> Hosts]]
                    ELSE [prio |-> 9000, permit |-> TRUE,
                          fields |-> [vlan |-> SonicVlan(v), servers |-> {Servers(guards, v)[k]}]]
  IN [n \in UNION {{GuardName(v, k) : k \in 0..Len(Servers(guards, v))} : v \in guarded} |-> Rule(n \div NameStride, n % NameStride)]

GuardRules(guards, vlans) ==
  LET guarded == {v \in Vlans : Servers(guards, v) # <<>> /\ v # NativeVlan /\ SonicVlan(v) \in vlans}
      Rule(v, k) == IF k = 0 THEN [prio |-> 8000, permit |-> FALSE, fields |-> [vlan |-> SonicVlan(v), servers |-> Hosts]]
                    ELSE [prio |-> 9000, permit |-> TRUE,
                          fields |-> [vlan |-> SonicVlan(v), servers |-> {Servers(guards, v)[k]}]]
  IN [n \in UNION {{GuardName(v, k) : k \in 0..Len(Servers(guards, v))} : v \in guarded} |-> Rule(n \div NameStride, n % NameStride)]

\* Which packets the fields of a rule of table t match.
Matches(t, f, p) ==
  CASE t = Guard -> p.vlan = f.vlan /\ p.server \in f.servers
    [] t = IpAcl -> /\ f.proto \in {"any", p.proto} /\ p.src \in f.src /\ p.dst \in f.dst
                    /\ p.sport \in f.sports /\ p.dport \in f.dports
    [] t = MacAcl -> p.vlan = f.vlan /\ p.src \in f.src /\ p.dst \in f.dst

IpFields(a) == [proto |-> a.proto, src |-> a.src, dst |-> a.dst, sports |-> a.sports, dports |-> a.dports]
MacFields(a) == [vlan |-> SonicVlan(a.vlan), src |-> a.src, dst |-> a.dst]

\* A rule the table cannot express holds the whole set.
IpInexpressible(a) == a.proto \notin {"any", "tcp", "udp"} \/ (a.proto = "any" /\ (a.sports # Ports \/ a.dports # Ports))

\* The controller's rule N is RULE_N at priority 9999-N.
InOrder(acls, Fields(_)) ==
  [n \in DOMAIN acls |-> [prio |-> 9999 - n, permit |-> acls[n].permit, fields |-> Fields(acls[n])]]

(***************************************************************************)
(* The check for the bridge's own traffic.                                  *)
(***************************************************************************)
\* Mutant: an Allow for some sources counts although the bridge's is unknown.
CutsManagementTrusting(acls, src, dials) ==
  \E addr \in dials :
    LET Considered(a) == /\ a.proto \in {"any", "tcp"} /\ ~a.oneSport
                         /\ addr \in a.dst /\ Ssh \in a.dports
                         /\ src = None \/ src \in a.src
    IN \E i \in DOMAIN acls : Considered(acls[i]) /\ ~acls[i].permit /\ \A j \in 1..i - 1 : ~Considered(acls[j])

\* The first rule that decides the bridge's SSH to an address it dials is a
\* Block.  A rule naming one source port is taken not to match; with the
\* bridge's address unknown every source counts, and an Allow decides only
\* with source Any.
CutsManagement(acls, src, dials) ==
  \E addr \in dials :
    LET Considered(a) == /\ a.proto \in {"any", "tcp"} /\ ~a.oneSport
                         /\ addr \in a.dst /\ Ssh \in a.dports
                         /\ src = None \/ src \in a.src
        Decides(a) == Considered(a) /\ (~a.permit \/ src # None \/ a.src = Hosts)
    IN \E i \in DOMAIN acls : Decides(acls[i]) /\ ~acls[i].permit /\ \A j \in 1..i - 1 : ~Decides(acls[j])

\* The same for frames from the peers to the switch's MAC or broadcast (ARP);
\* vlan 0 is none, -1 unknown.
CutsManagementMAC(acls, p) ==
  /\ p.vlan # 0
  /\ \E src \in (IF p.peers = {} THEN {None} ELSE p.peers), dst \in p.dsts :
       LET Decides(a) == /\ p.vlan < 0 \/ SonicVlan(a.vlan) = p.vlan
                         /\ dst \in a.dst
                         /\ src = None \/ src \in a.src
                         /\ ~a.permit \/ src # None \/ a.src = Macs
       IN \E i \in DOMAIN acls : Decides(acls[i]) /\ ~acls[i].permit /\ \A j \in 1..i - 1 : ~Decides(acls[j])

\* desiredACLs: a rule whose shape no capture has shown holds its kind.
Captured(acls) == \A i \in DOMAIN acls : acls[i].captured

IpHeld(p) ==
  \/ ~Captured(p.ips) \/ Len(p.ips) > MaxRules
  \/ \E i \in DOMAIN p.ips : IpInexpressible(p.ips[i])
  \/ CutsManagement(p.ips, from, {Switch})

MacHeld(p) ==
  \/ ~Captured(p.macs) \/ ~l2 \/ Len(p.macs) > MaxRules
  \/ \E i \in DOMAIN p.macs : p.macs[i].vlan = NativeVlan \/ p.macs[i].vlan \notin 1..4094
  \/ CutsManagementMAC(p.macs, path)

\* aclSet: the tables the push speaks of and their rules; a held set is left
\* as it is on the switch.
AclSet(p) ==
  [t \in (IF p.snooping = None THEN {} ELSE {Guard})
         \cup (IF IpHeld(p) THEN {} ELSE {IpAcl}) \cup (IF MacHeld(p) THEN {} ELSE {MacAcl}) |->
     CASE t = Guard -> IF p.snooping = TRUE THEN GuardRules(p.guards, {SonicVlan(v) : v \in Vlans}) ELSE <<>>
       [] t = IpAcl -> InOrder(p.ips, IpFields)
       [] t = MacAcl -> InOrder(p.macs, MacFields)]

(***************************************************************************)
(* applyACL.                                                                *)
(***************************************************************************)
\* byPriority: the higher priority first, ties by name.
Above(rules, a, b) == rules[a].prio > rules[b].prio \/ (rules[a].prio = rules[b].prio /\ a < b)
Highest(rules, names) == CHOOSE r \in names : \A q \in names \ {r} : Above(rules, r, q)
Lowest(rules, names) == CHOOSE r \in names : \A q \in names \ {r} : Above(rules, q, r)

Without(f, n) == [x \in DOMAIN f \ {n} |-> f[x]]
With(f, n, v) == [x \in DOMAIN f \cup {n} |-> IF x = n THEN v ELSE f[x]]

\* One command on CONFIG_DB.  Removing a table leaves its rules.
RunOn(s, o) ==
  CASE o.op = "bind" -> [s EXCEPT ![o.table].bound = "ours"]
    [] o.op = "remove" -> [s EXCEPT ![o.table].bound = "none"]
    [] o.op = "del" -> [s EXCEPT ![o.table].rules = Without(@, o.rule)]
    [] o.op = "set" -> [s EXCEPT ![o.table].rules = With(@, o.rule, o.to)]

Add(pl, o) == [ops |-> Append(pl.ops, o), sim |-> RunOn(pl.sim, o)]

\* Lowest priority first: the highest is the last step of the fold.
DropRules(pl, t, names) ==
  MapThenFoldSet(LAMBDA r, p : Add(p, [op |-> "del", table |-> t, rule |-> r]), pl,
                 LAMBDA r : r, LAMBDA ns : Highest(pl.sim[t].rules, ns), names)

\* A changed rule is deleted and written whole.
WriteRule(p, t, have, r, to) ==
  LET gone == IF r \in DOMAIN have THEN Add(p, [op |-> "del", table |-> t, rule |-> r]) ELSE p
  IN IF r \in DOMAIN have /\ have[r] = to THEN p
     ELSE Add(gone, [op |-> "set", table |-> t, rule |-> r, to |-> to])

\* Highest priority first.
WriteRules(pl, t, rules) ==
  MapThenFoldSet(LAMBDA r, p : WriteRule(p, t, pl.sim[t].rules, r, rules[r]), pl,
                 LAMBDA r : r, LAMBDA ns : Lowest(rules, ns), DOMAIN rules)

\* Mutant: a stale rule of a table that stays is left.
SyncTableKeeps(pl, t, rules) ==
  LET cur == pl.sim[t].bound
      foreign == cur = "foreign"
      cleared == IF DOMAIN rules = {} \/ foreign THEN DropRules(pl, t, DOMAIN pl.sim[t].rules) ELSE pl
      removed == IF (DOMAIN rules = {} \/ foreign) /\ cur # "none" THEN Add(cleared, [op |-> "remove", table |-> t]) ELSE cleared
      bound == IF removed.sim[t].bound = "ours" THEN removed ELSE Add(removed, [op |-> "bind", table |-> t])
  IN IF DOMAIN rules = {} THEN removed ELSE WriteRules(bound, t, rules)

\* A table that goes, or is not the driver's shape, loses its rules first; one
\* that stays is bound first, then its stale rules go.
SyncTable(pl, t, rules) ==
  LET cur == pl.sim[t].bound
      foreign == cur = "foreign"
      cleared == IF DOMAIN rules = {} \/ foreign THEN DropRules(pl, t, DOMAIN pl.sim[t].rules) ELSE pl
      removed == IF (DOMAIN rules = {} \/ foreign) /\ cur # "none" THEN Add(cleared, [op |-> "remove", table |-> t]) ELSE cleared
      bound == IF removed.sim[t].bound = "ours" THEN removed ELSE Add(removed, [op |-> "bind", table |-> t])
  IN IF DOMAIN rules = {} THEN removed
     ELSE WriteRules(DropRules(bound, t, DOMAIN bound.sim[t].rules \ DOMAIN rules), t, rules)

\* The tables in their order; one the push does not speak of is left.
SyncWanted(pl, t, w) == IF t \in DOMAIN w THEN SyncTable(pl, t, w[t]) ELSE pl
AclBatch(s, w) == SyncWanted(SyncWanted(SyncWanted([ops |-> <<>>, sim |-> s], Guard, w), IpAcl, w), MacAcl, w)

(***************************************************************************)
(* What the switch does with a packet, and whether the bridge gets in.      *)
(***************************************************************************)
Permits(s, t, p) ==
  LET table == s[t]
      hits == {r \in DOMAIN table.rules : Matches(t, table.rules[r].fields, p)}
      top == {r \in hits : \A q \in hits : table.rules[q].prio <= table.rules[r].prio}
  IN table.bound = "none" \/ hits = {} \/ \E r \in top : table.rules[r].permit

BridgeSsh == [proto |-> "tcp", src |-> Bridge, dst |-> Switch, sport |-> Ephemeral, dport |-> Ssh]
BridgeFrame(dst) == [vlan |-> SonicVlan(MgmtVlan), src |-> Gateway, dst |-> dst]
MgmtDsts == {OwnMac, Broadcast}
Reachable(s) == Permits(s, IpAcl, BridgeSsh) /\ \A dst \in MgmtDsts : Permits(s, MacAcl, BridgeFrame(dst))

\* mgmtL2: the VLAN may be unknown, the peers too; the gateway and the far end
\* may both be known.
Paths == [vlan : {SonicVlan(MgmtVlan), -1}, dsts : {MgmtDsts},
          peers : {{}} \cup {{Gateway} \cup others : others \in SUBSET (Macs \ MgmtDsts)}]

(***************************************************************************)
(* The cycle.                                                               *)
(***************************************************************************)
Init ==
  /\ db = [t \in Tables |-> [bound |-> "none", rules |-> <<>>]]
  /\ from \in {Bridge, None}
  /\ path \in Paths
  /\ l2 \in BOOLEAN
  /\ view = None /\ push = None /\ want = None /\ ops = <<>> /\ sim = None /\ running = FALSE
  /\ settled = FALSE /\ lists = [v \in Vlans |-> {}] /\ pushes = 0 /\ faults = 0

\* The controller pushes between the loop's cycles.
Push(p) ==
  /\ ~running /\ view = None /\ pushes < MaxPushes /\ p # push
  /\ push' = p /\ pushes' = pushes + 1 /\ settled' = FALSE
  /\ lists' = [v \in Vlans |-> lists[v] \cup IF p.snooping = TRUE THEN {Servers(p.guards, v)} \ {<<>>} ELSE {}]
  /\ UNCHANGED <<db, view, from, path, l2, want, ops, sim, running, faults>>

\* A collect, unless the switch's own rules drop the bridge's packets.
Collect ==
  /\ ~running /\ view = None /\ push # None /\ Reachable(db)
  /\ view' = db
  /\ UNCHANGED <<db, from, path, l2, push, want, ops, sim, running, settled, lists, pushes, faults>>

CutOff == ~running /\ view = None /\ ~Reachable(db) /\ UNCHANGED vars

\* ApplyDevice: the intent, and the batch that brings the tables in line.
Apply ==
  /\ ~running /\ view # None
  /\ want' = AclSet(push)
  /\ \E b \in {AclBatch(view, want')} : ops' = b.ops /\ sim' = b.sim
  /\ running' = TRUE /\ settled' = FALSE
  /\ UNCHANGED <<db, view, from, path, l2, push, lists, pushes, faults>>

RunOp ==
  /\ running /\ ops # <<>>
  /\ db' = RunOn(db, Head(ops)) /\ ops' = Tail(ops)
  /\ UNCHANGED <<view, from, path, l2, push, want, sim, running, settled, lists, pushes, faults>>

\* The cycle's end; the next one collects anew.
Commit ==
  /\ running /\ ops = <<>>
  /\ running' = FALSE /\ sim' = None /\ view' = None /\ settled' = (db = sim)
  /\ UNCHANGED <<db, from, path, l2, push, want, ops, lists, pushes, faults>>

ConnectionLost ==
  /\ running /\ ops # <<>> /\ faults < MaxFaults
  /\ running' = FALSE /\ ops' = <<>> /\ sim' = None /\ view' = None /\ settled' = FALSE /\ faults' = faults + 1
  /\ UNCHANGED <<db, from, path, l2, push, want, lists, pushes>>

\* A port or PortChannel comes or goes, or somebody remakes the table by hand.
Rebound(t, b) ==
  /\ faults < MaxFaults /\ db[t].bound # "none" /\ ~running
  /\ db' = [db EXCEPT ![t].bound = b] /\ faults' = faults + 1 /\ settled' = FALSE
  /\ UNCHANGED <<view, from, path, l2, push, want, ops, sim, running, lists, pushes>>

Next ==
  \/ \E p \in Pushes : Push(p)
  \/ Collect \/ CutOff \/ Apply \/ RunOp \/ Commit \/ ConnectionLost
  \/ \E t \in Tables, b \in {"stale", "foreign"} : Rebound(t, b)

Spec == Init /\ [][Next]_vars

(***************************************************************************)
(* Properties.                                                              *)
(***************************************************************************)
\* What the controller's ordered list says of a packet: the first rule that
\* matches decides, everything else passes.
FirstMatch(t, acls, Fields(_), p) ==
  LET Hit(i) == Matches(t, Fields(acls[i]), p)
  IN \A i \in DOMAIN acls : Hit(i) /\ (\A j \in 1..i - 1 : ~Hit(j)) => acls[i].permit

\* After a batch that ran to its end the tables decide every packet as the
\* push does: IP and MAC rules by first match, whatever was on the switch
\* before, and of the DHCP replies on a guarded VLAN only the trusted
\* servers' pass.
RulesMeanThePush ==
  settled =>
    /\ IpAcl \in DOMAIN want => \A p \in IpPackets : Permits(db, IpAcl, p) = FirstMatch(IpAcl, push.ips, IpFields, p)
    /\ MacAcl \in DOMAIN want => \A f \in Frames : Permits(db, MacAcl, f) = FirstMatch(MacAcl, push.macs, MacFields, f)
    /\ Guard \in DOMAIN want => \A v \in Vlans, h \in Hosts :
         Permits(db, Guard, [vlan |-> SonicVlan(v), server |-> h]) =
           (push.snooping = TRUE /\ Servers(push.guards, v) # <<>> => h \in ToSet(Servers(push.guards, v)))

\* What the check for the bridge's own traffic takes for granted: a rule that
\* names one source port misses the bridge's; with the VLAN unknown, an Allow
\* is on it (an Allow from Any on VLAN 2 and a Block from Any on the
\* switch's own are let through then, and cut the bridge off).
Foreseen(p) ==
  /\ \A i \in DOMAIN p.ips : p.ips[i].oneSport => Ephemeral \notin p.ips[i].sports
  /\ path.vlan < 0 => \A i \in DOMAIN p.macs : p.macs[i].permit => SonicVlan(p.macs[i].vlan) = SonicVlan(MgmtVlan)

\* No foreseen set that was written to its end cuts the bridge off, whether
\* or not the driver knows the bridge's address and the peer's MAC.
NeverCutOff == settled /\ Foreseen(push) => Reachable(db)

Forwarded(v, h) ==
  \E r \in DOMAIN db[Guard].rules : /\ db[Guard].rules[r].permit
                                     /\ Matches(Guard, db[Guard].rules[r].fields, [vlan |-> SonicVlan(v), server |-> h])

\* "A guard's FORWARD never trails its DROP" (acl.go, applyACL), as far as it
\* holds: of a VLAN whose server list has not changed, the DROP is on the
\* switch only with every FORWARD, at every moment of every batch.
GuardOrder ==
  \A v \in Vlans : Cardinality(lists[v]) = 1 /\ GuardName(v, 0) \in DOMAIN db[Guard].rules =>
    \A h \in UNION {ToSet(s) : s \in lists[v]} :
      Forwarded(v, h)

=============================================================================

----------------------------- MODULE SonicSwitch -----------------------------
(***************************************************************************)
(* A SONiC switch as its CLI treats the driver's commands: what CONFIG_DB   *)
(* holds (swState in state.go, the FixtureRunner's sections in fixture.go), *)
(* which commands it refuses, and what an accepted one changes.             *)
(*                                                                         *)
(* Names are numbers: lane i of cage c is 10*c+i (lane 0 keeps the cage's   *)
(* name through a split and a join), PortChannel n is 100+n.  A cage runs   *)
(* in mode 1 (one port) or mode 2 (two).  Of a port's fields the model      *)
(* keeps admin state, MTU, speed and one storm-control rate; description,   *)
(* FEC and STP settings are written and read like the admin state.  Of the  *)
(* driver's ACL tables it keeps the ports they bind (the rules are in       *)
(* SonicAcl), of IGMP snooping the VLAN rows and the static members.        *)
(***************************************************************************)
EXTENDS Integers, Sequences, FiniteSets, FiniteSetsExt, SequencesExt

CONSTANTS Cages,        \* the switch's cages, small naturals
          NativeVlan    \* options.native_vlan, the stand-in for UniFi's VLAN 1

ASSUME CagesAssumption == Cages \subseteq 1..9 /\ Cages # {}

Modes == {1, 2}
ModeSpeeds(m) == IF m = 1 THEN {100, 40} ELSE {25, 10}
ModeDefault(m) == IF m = 1 THEN 100 ELSE 25
DefaultMTU == 9100
BridgeMTU == 9100

Lane(c, i) == 10 * c + i
CageOf(l) == l \div 10
Children(c, m) == {Lane(c, i) : i \in 0..m - 1}
PortChannel(n) == 100 + n

\* A PORT row as a breakout leaves it: down, no MTU (APPL_DB says 9100).
NewPort(m, mtu) == [up |-> FALSE, mtu |-> mtu, speed |-> ModeDefault(m), storm |-> 0]

(***************************************************************************)
(* Reading CONFIG_DB.                                                       *)
(***************************************************************************)
Field(s, l) ==
  IF l \in DOMAIN s.port THEN s.port[l] ELSE [up |-> FALSE, mtu |-> 0, speed |-> 0, storm |-> 0]

CagePorts(s, c) == {l \in DOMAIN s.port : CageOf(l) = c}
LagOf(s, i) == {pc \in DOMAIN s.lags : i \in s.lags[pc].members}
MirrorTo(s, i) == {m \in s.mirrors : m.dst = i}
MembersOf(s, i) == {m \in s.members : m.iface = i}
MemberIDs(s, i) == {m.vid : m \in MembersOf(s, i)}
StaticsOf(s, i, vid) == {r \in s.statics : r.iface = i /\ r.vid = vid}

\* Every port outside a PortChannel, and every PortChannel with members.
Bindable(s) ==
  {l \in DOMAIN s.port : LagOf(s, l) = {}} \cup {pc \in DOMAIN s.lags : s.lags[pc].members # {}}

(***************************************************************************)
(* What the switch refuses.                                                 *)
(***************************************************************************)
RefusesPort(s, o) ==
  \/ o.iface \notin DOMAIN s.port
  \/ o.op = "speed" /\ o.val \notin ModeSpeeds(s.mode[CageOf(o.iface)])
  \/ o.op = "mtu" /\ LagOf(s, o.iface) # {}
  \/ o.op = "stormDel" /\ s.port[o.iface].storm = 0

RefusesMember(s, o) ==
  LET ids == IF o.skip = {} THEN o.ids ELSE s.vlans \ o.skip
  IN \/ ~(ids \subseteq s.vlans)
     \/ /\ o.op = "memberAdd"
        /\ \/ o.iface \notin DOMAIN s.port \cup DOMAIN s.lags
           \/ LagOf(s, o.iface) # {}
           \/ MirrorTo(s, o.iface) # {}
           \/ ids \cap MemberIDs(s, o.iface) # {}
           \/ ~o.tagged /\ \E m \in MembersOf(s, o.iface) : ~m.tagged
     \/ /\ o.op = "memberDel"
        /\ \/ ~(ids \subseteq MemberIDs(s, o.iface))
           \/ \E vid \in ids : StaticsOf(s, o.iface, vid) # {}

RefusesLag(s, o) ==
  \/ o.op = "pcAdd" /\ o.pc \in DOMAIN s.lags
  \/ o.op # "pcAdd" /\ o.pc \notin DOMAIN s.lags
  \/ o.op = "pcDel" /\ o.pc \in DOMAIN s.lags /\ s.lags[o.pc].members # {}
  \/ o.op = "pcDel" /\ MembersOf(s, o.pc) # {}
  \/ /\ o.op = "lagAdd"
     /\ \/ o.iface \notin DOMAIN s.port
        \/ MembersOf(s, o.iface) # {}
        \/ LagOf(s, o.iface) # {}
        \/ s.port[o.iface].mtu # s.lags[o.pc].mtu
        \/ o.iface \in s.acl
  \/ o.op = "lagDel" /\ o.iface \notin s.lags[o.pc].members

RefusesMirror(s, o) ==
  \/ o.op = "mirrorDel" /\ \A m \in s.mirrors : m.name # o.name
  \/ /\ o.op = "mirrorAdd"
     /\ \/ \E m \in s.mirrors : m.name = o.name
        \/ MembersOf(s, o.dst) # {}
        \/ LagOf(s, o.dst) # {}

\* config acl add table -p: an empty list, or a port that cannot be bound.
RefusesAcl(s, o) == o.ports = {} \/ ~(o.ports \subseteq Bindable(s))

\* The snooping rows and their static members (l2mcd's tables).
RefusesL2mc(s, o) ==
  \/ o.op = "rowsSet" /\ ~(o.rows \subseteq s.vlans)
  \/ o.op = "staticsSet"
     /\ \E r \in o.rows : r.vid \notin s.rows \/ r.vid \notin MemberIDs(s, r.iface)
  \/ o.op = "staticDel" /\ o.row \notin s.statics

Refuses(s, o) ==
  CASE o.op \in {"admin", "mtu", "portMtu", "speed", "stormAdd", "stormDel"} -> RefusesPort(s, o)
    [] o.op \in {"memberAdd", "memberDel"} -> RefusesMember(s, o)
    [] o.op \in {"pcAdd", "pcDel", "pcMtu", "pcLacp", "lagAdd", "lagDel"} -> RefusesLag(s, o)
    [] o.op \in {"mirrorAdd", "mirrorDel"} -> RefusesMirror(s, o)
    [] o.op = "aclBind" -> RefusesAcl(s, o)
    [] o.op \in {"staticDel", "rowsDel", "rowsSet", "staticsDel", "staticsSet"} -> RefusesL2mc(s, o)
    [] o.op = "vlanAdd" -> o.ids \cap s.vlans # {}
    [] o.op = "vlanMtu" -> o.vid \notin s.vlans
    [] OTHER -> FALSE

(***************************************************************************)
(* What an accepted command changes.                                        *)
(***************************************************************************)
SetPort(s, l, f) == [s EXCEPT !.port = (l :> f) @@ @]

PortEffect(s, o) ==
  LET p == Field(s, o.iface)
  IN CASE o.op = "admin" -> SetPort(s, o.iface, [p EXCEPT !.up = o.val])
       [] o.op \in {"mtu", "portMtu"} -> SetPort(s, o.iface, [p EXCEPT !.mtu = o.val])
       [] o.op = "speed" -> SetPort(s, o.iface, [p EXCEPT !.speed = o.val])
       [] o.op = "stormDel" -> SetPort(s, o.iface, [p EXCEPT !.storm = 0])
       [] o.op = "stormAdd" -> SetPort(s, o.iface, [p EXCEPT !.storm = o.val])

MemberEffect(s, o, ids) ==
  IF o.op = "memberAdd"
  THEN [s EXCEPT !.members = @ \cup {[iface |-> o.iface, vid |-> v, tagged |-> o.tagged] : v \in ids}]
  ELSE [s EXCEPT !.members = {m \in @ : ~(m.iface = o.iface /\ m.vid \in ids)}]

LagEffect(s, o) ==
  CASE o.op = "pcAdd" ->
         [s EXCEPT !.lags = (o.pc :> [mtu |-> DefaultMTU, own |-> TRUE, members |-> {}]) @@ @]
    [] o.op = "pcDel" ->
         [s EXCEPT !.lags = [x \in DOMAIN @ \ {o.pc} |-> @[x]], !.members = {m \in @ : m.iface # o.pc}]
    [] o.op = "pcMtu" -> [s EXCEPT !.lags[o.pc].mtu = o.val]
    [] o.op = "pcLacp" -> [s EXCEPT !.lags[o.pc].own = TRUE]
    [] o.op = "lagAdd" -> [s EXCEPT !.lags[o.pc].members = @ \cup {o.iface}]
    [] o.op = "lagDel" -> [s EXCEPT !.lags[o.pc].members = @ \ {o.iface}]

L2mcEffect(s, o) ==
  CASE o.op = "staticDel" -> [s EXCEPT !.statics = @ \ {o.row}]
    [] o.op = "staticsDel" -> [s EXCEPT !.statics = @ \ o.rows]
    [] o.op = "rowsDel" -> [s EXCEPT !.rows = @ \ o.rows]
    [] o.op = "rowsSet" -> [s EXCEPT !.rows = @ \cup o.rows]
    [] o.op = "staticsSet" -> [s EXCEPT !.statics = @ \cup o.rows]

\* The commands whose effect the driver's copy and the switch share.
Effect(s, o) ==
  CASE o.op \in {"admin", "mtu", "portMtu", "speed", "stormAdd", "stormDel"} -> PortEffect(s, o)
    [] o.op \in {"memberAdd", "memberDel"} -> MemberEffect(s, o, o.ids)
    [] o.op \in {"pcAdd", "pcDel", "pcMtu", "pcLacp", "lagAdd", "lagDel"} -> LagEffect(s, o)
    [] o.op = "mirrorDel" -> [s EXCEPT !.mirrors = {m \in @ : m.name # o.name}]
    [] o.op = "mirrorAdd" ->
         [s EXCEPT !.mirrors = {m \in @ : m.name # o.name} \cup {[name |-> o.name, dst |-> o.dst, src |-> o.src]}]
    [] o.op = "aclBind" -> [s EXCEPT !.acl = o.ports]
    [] o.op = "aclDrop" -> [s EXCEPT !.acl = {}]
    [] o.op \in {"staticDel", "rowsDel", "rowsSet", "staticsDel", "staticsSet"} -> L2mcEffect(s, o)
    [] o.op = "vlanMtu" -> [s EXCEPT !.vmtu = (o.vid :> o.val) @@ @]
    [] o.op = "kernelMtu" -> [s EXCEPT !.kmtu = (o.vid :> o.val) @@ @]

\* config interface breakout -f on the switch: everything that names a port
\* going away goes, from the ACL list and the mirror sessions too.
BreakoutOnSwitch(s, c, m) ==
  LET gone == CagePorts(s, c)
  IN [s EXCEPT !.mode[c] = m,
        !.port = [l \in Children(c, m) |-> NewPort(m, DefaultMTU)]
                 @@ [l \in DOMAIN @ \ gone |-> @[l]],
        !.members = {x \in @ : x.iface \notin gone},
        !.lags = [pc \in DOMAIN @ |-> [@[pc] EXCEPT !.members = @ \ gone]],
        !.mirrors = {x \in @ : x.dst \notin gone /\ x.src \cap gone = {}},
        !.acl = @ \ gone]

\* One accepted command on the switch; `-e` takes the VLANs that exist now.
RunOn(s, o) ==
  CASE o.op = "breakout" -> IF s.mode[o.cage] = o.val THEN s ELSE BreakoutOnSwitch(s, o.cage, o.val)
    [] o.op \in {"memberAdd", "memberDel"} ->
         MemberEffect(s, o, IF o.skip = {} THEN o.ids ELSE s.vlans \ o.skip)
    [] o.op = "vlanAdd" ->
         [s EXCEPT !.vlans = @ \cup o.ids,
                   !.vmtu = [v \in o.ids |-> 0] @@ @,
                   !.kmtu = [v \in o.ids |-> BridgeMTU] @@ @]
    [] OTHER -> Effect(s, o)
=============================================================================

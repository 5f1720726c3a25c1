---------------------------- MODULE ProxmoxNode ----------------------------
(***************************************************************************)
(* One Proxmox node under the controller: a guest's port, the node's bond,  *)
(* the spanning tree of its bridge, snooping and NTP (apply.go, lag.go and  *)
(* the parts of collector.go they work from).                               *)
(*                                                                         *)
(* A guest's NIC options are written with qm or pct and hot-applied.  The   *)
(* node's network is written in two halves: pvesh stages a change and a     *)
(* second pvesh applies what is staged, as does a boot.  The bridge works   *)
(* from the last poll, which reads the running network and never the staged *)
(* one; every command may fail, or its answer be lost.                      *)
(***************************************************************************)
EXTENDS Naturals, Sequences, FiniteSets, SequencesExt

CONSTANTS Nics,           \* the node's NICs, in kernel order
          Bond,           \* the bridge member that is the bond
          Nets, Wirings,  \* networks a node is found with, and how it is cabled
          Uncabled,
          Intents,        \* what the controller may push
          MaxChanges, MaxFailures, NoView

VARIABLES net, staged,    \* the running network, and /etc/network/interfaces.new
          wire,           \* the switch behind every NIC, and whether LLDP names it
          mstpd,          \* the bridge is under mstpd
          guest,          \* the guest: whether it is on this node, and its NIC options
          tap,            \* its port in mstpd
          host,           \* the bridge's and chrony's settings
          intent,         \* the controller's push
          known,          \* the last poll
          turn, work,     \* where the loop's round is, and the commands still to run
          left            \* the changes and the failures still to come

vars == <<net, staged, wire, mstpd, guest, tap, host, intent, known, turn, work, left>>

All == {0}  \* every VLAN
NewTap == [edge |-> FALSE, guard |-> FALSE]

Spend(cause) == left[cause] > 0 /\ left' = [left EXCEPT ![cause] = @ - 1]

\* A bond is staged and not there yet.
HalfMade == staged.mode # "none" /\ net.mode = "none"

(***************************************************************************)
(* The node.                                                                *)
(***************************************************************************)
\* The physical ports, from the last port down: the bridge's members in
\* kernel order, a bond as its slaves, then every other NIC of the box.
PhysicalMembers(n) ==
  LET plain == n.bridge \cap Nics
      slaves == IF Bond \in n.bridge THEN n.slaves ELSE {}
      Each(nics, Member(_)) ==
        LET s == SetToSortSeq(nics, <) IN [i \in DOMAIN s |-> [nic |-> s[i], member |-> Member(s[i])]]
  IN  Each(plain, LAMBDA c : c) \o Each(slaves, LAMBDA c : Bond) \o Each(Nics \ (plain \cup slaves), LAMBDA c : c)

\* What a guest's options mean on a VLAN-aware bridge.
VlanFromConfig(c) ==
  [native |-> IF c.tag = 0 THEN 1 ELSE c.tag,
   tagged |-> IF c.tag = 0 /\ c.trunks = {} THEN All ELSE c.trunks]

\* The network a node is left with by the commands of a plan.
After(o) ==
  CASE o.do = "mode" -> staged' = [staged EXCEPT !.mode = o.to] /\ UNCHANGED <<net, guest, tap, host>>
    [] o.do = "create" -> staged' = [staged EXCEPT !.mode = "lacp", !.slaves = o.to] /\ UNCHANGED <<net, guest, tap, host>>
    [] o.do = "members" -> staged' = [staged EXCEPT !.bridge = o.to] /\ UNCHANGED <<net, guest, tap, host>>
    [] o.do = "reload" -> net' = staged /\ UNCHANGED <<staged, guest, tap, host>>
    [] o.do \in {"nic", "bounce"} ->  \* a new VLAN membership plugs the tap anew
         /\ guest' = o.to
         /\ tap' = IF o.to.tag = guest.tag /\ o.to.trunks = guest.trunks THEN tap ELSE NewTap
         /\ UNCHANGED <<net, staged, host>>
    [] o.do = "guard" -> tap' = [tap EXCEPT !.guard = o.to] /\ UNCHANGED <<net, staged, guest, host>>
    [] OTHER ->
         /\ host' = CASE o.do = "version" -> [host EXCEPT !.version = o.to]
                      [] o.do = "snoop" -> [host EXCEPT !.snoop = o.to]
                      [] o.do = "ntp" -> [host EXCEPT !.ntp = o.to, !.own = @ /\ ~o.own]
         /\ UNCHANGED <<net, staged, guest, tap>>

\* qm, pct and mstpctl know the guests of their own node only; pvesh makes a
\* bond once.
Accepts(o) ==
  CASE o.do \in {"nic", "bounce", "guard"} -> guest.here
    [] o.do = "create" -> staged.mode = "none"
    [] OTHER -> TRUE

\* The guest moves away or back with its options, or is started again.
GuestMoves ==
  /\ Spend("failures")
  /\ \/ guest' = [guest EXCEPT !.here = ~@]
     \/ guest.here /\ UNCHANGED guest
  /\ tap' = NewTap
  /\ UNCHANGED <<net, staged, wire, mstpd, host, intent, known, turn, work>>

\* Somebody changes the node's own settings.
ByHand ==
  /\ Spend("failures")
  /\ \/ guest' = [guest EXCEPT !.down = ~@] /\ UNCHANGED <<tap, host>>
     \/ host' = [host EXCEPT !.snoop = ~@] /\ UNCHANGED <<guest, tap>>
     \/ host' = [host EXCEPT !.own = TRUE] /\ UNCHANGED <<guest, tap>>
     \/ tap' = [tap EXCEPT !.guard = ~@] /\ UNCHANGED <<guest, host>>
  /\ UNCHANGED <<net, staged, wire, mstpd, intent, known, turn, work>>

\* A boot takes the staged network; mstpctl and sysfs writes are gone.  Not
\* with a bond staged that is in no bridge yet: the outcome is ifupdown's.
Reboot ==
  /\ Spend("failures") /\ (HalfMade => Bond \in staged.bridge)
  /\ net' = staged /\ tap' = NewTap
  /\ host' = [host EXCEPT !.prio = FALSE, !.version = "rstp", !.snoop = TRUE]
  /\ work' = <<>>
  /\ UNCHANGED <<staged, wire, mstpd, guest, intent, known, turn>>

(***************************************************************************)
(* Polls.                                                                   *)
(***************************************************************************)
\* enforceSTP: with every poll the node's priority and the guests' edge ports.
EnforceSTP ==
  /\ host' = [host EXCEPT !.prio = @ \/ mstpd]
  /\ tap' = [tap EXCEPT !.edge = @ \/ (mstpd /\ guest.here)]

Collect ==
  /\ turn = "collect" /\ turn' = "cycle"
  /\ known' = [net |-> net, guest |-> guest, guard |-> tap.guard, host |-> host]
  /\ \/ EnforceSTP /\ UNCHANGED left
     \/ mstpd /\ Spend("failures") /\ UNCHANGED <<host, tap>>
  /\ UNCHANGED <<net, staged, wire, mstpd, guest, intent, work>>

CollectFails ==
  /\ turn = "collect" /\ known # NoView /\ turn' = "cycle" /\ Spend("failures")
  /\ UNCHANGED <<net, staged, wire, mstpd, guest, tap, host, intent, known, work>>

\* A push comes with the answer to an inform.
Push(i) ==
  /\ turn = "cycle" /\ work = <<>> /\ i # intent /\ Spend("changes")
  /\ intent' = i
  /\ UNCHANGED <<net, staged, wire, mstpd, guest, tap, host, known, turn, work>>

(***************************************************************************)
(* Guest ports.                                                             *)
(***************************************************************************)
VlanToConfig(d) ==
  LET tag == IF d.native = 1 THEN 0 ELSE d.native
      trunks == d.tagged \ {d.native}
  IN  CASE d.tagged = All /\ d.native = 1 -> [tag |-> 0, trunks |-> {}]
        [] d.tagged = All -> [tag |-> tag, trunks |-> All]
        [] OTHER -> [tag |-> IF d.native = 1 /\ trunks = {} THEN 1 ELSE tag, trunks |-> trunks]

PlanPort ==
  LET want == VlanToConfig(intent)
  IN  [known.guest EXCEPT !.down = ~intent.on, !.tag = want.tag, !.trunks = want.trunks]

If(b, ops) == IF b THEN ops ELSE <<>>

GuestOps == If(known.guest.here /\ PlanPort # known.guest, <<[do |-> "nic", to |-> PlanPort]>>)

GuardOps ==
  If(mstpd /\ known.guest.here /\ known.guard # intent.guard, <<[do |-> "guard", to |-> intent.guard]>>)

\* CyclePort writes the NIC down and back to what the last poll showed.
CyclePort ==
  /\ turn = "cycle" /\ work = <<>> /\ known.guest.here /\ Spend("failures")
  /\ work' = <<[do |-> "bounce", to |-> [known.guest EXCEPT !.down = TRUE]], [do |-> "bounce", to |-> known.guest]>>
  /\ turn' = "device"
  /\ UNCHANGED <<net, staged, wire, mstpd, guest, tap, host, intent, known>>

(***************************************************************************)
(* Link aggregation.                                                        *)
(***************************************************************************)
\* Mutant: any neighbour will do.
SameNeighbourAny(nics) == \A a \in nics : wire[a].heard
\* Every member has a neighbour, and it is the same switch.
SameNeighbour(nics) == \A a, b \in nics : wire[a].heard /\ wire[b].heard /\ wire[a].switch = wire[b].switch

Ports == PhysicalMembers(known.net)
Aggregate == {Ports[p] : p \in intent.lag \cap DOMAIN Ports}
Members == {u.nic : u \in Aggregate}

\* Refused: guest ports, single members, members of different switches.
Eligible == intent.lag \subseteq DOMAIN Ports /\ Cardinality(intent.lag) > 1 /\ SameNeighbour(Members)

Reload == [do |-> "reload", to |-> {}]

\* A bond is converted as a whole.
Convert ==
  If(Eligible /\ (\A u \in Aggregate : u.member = Bond) /\ Members = known.net.slaves /\ known.net.mode # "lacp",
     <<[do |-> "mode", to |-> "lacp"], Reload>>)

\* Plain NICs: the bond takes their place among the members of all uplinks.
ReplaceMembers == ({Ports[p].member : p \in DOMAIN Ports} \ Members) \cup {Bond}

Create ==
  If(Eligible /\ \A u \in Aggregate : u.member = u.nic,
     <<[do |-> "create", to |-> Members], [do |-> "members", to |-> ReplaceMembers], Reload>>)

\* An LACP bond none of whose slaves is aggregated any more.
Restore ==
  If(Bond \in known.net.bridge /\ known.net.mode = "lacp" /\ \A u \in Aggregate : u.member # Bond,
     <<[do |-> "mode", to |-> "backup"], Reload>>)

(***************************************************************************)
(* The node's settings (ApplyDevice).                                       *)
(***************************************************************************)
WantSnoop == IF 1 \in DOMAIN intent.snoop THEN intent.snoop[1] ELSE \E v \in DOMAIN intent.snoop : intent.snoop[v]

\* The bridge's STP version, its snooping, and chrony's servers: the file of
\* the bridge and the distribution's own lines, commented out.
DeviceOps ==
  If(mstpd /\ intent.stp \notin {"off", known.host.version}, <<[do |-> "version", to |-> intent.stp]>>)
  \o If(DOMAIN intent.snoop # {} /\ WantSnoop # known.host.snoop, <<[do |-> "snoop", to |-> WantSnoop]>>)
  \o If(known.host.ntp # intent.ntp \/ known.host.own, <<[do |-> "ntp", to |-> intent.ntp, own |-> known.host.own]>>)

(***************************************************************************)
(* The loop's round: a poll, perhaps a power cycle, the node's settings and *)
(* the ports, each a list of commands run until one fails.                  *)
(***************************************************************************)
Idle == work = <<>>
Rest == UNCHANGED <<net, staged, wire, mstpd, guest, tap, host, intent, known>>

NoCycle == turn = "cycle" /\ Idle /\ turn' = "device" /\ UNCHANGED <<work, left>> /\ Rest

ApplyDevice ==
  /\ turn = "device" /\ Idle /\ turn' = "ports"
  /\ work' = DeviceOps
  /\ UNCHANGED left /\ Rest

ApplyPorts ==
  /\ turn = "ports" /\ Idle /\ turn' = "collect"
  /\ work' = GuestOps \o Convert \o Create \o Restore \o GuardOps
  /\ UNCHANGED left /\ Rest

\* What the driver notes in its view when a command succeeds: a mode with the
\* reload after it, a new bond not at all.
Noted(o) ==
  CASE o.do = "nic" -> [known EXCEPT !.guest = o.to]
    [] o.do = "guard" -> [known EXCEPT !.guard = o.to]
    [] o.do = "version" -> [known EXCEPT !.host.version = o.to]
    [] o.do = "snoop" -> [known EXCEPT !.host.snoop = o.to]
    [] o.do = "ntp" -> [known EXCEPT !.host.ntp = o.to, !.host.own = FALSE]
    [] o.do = "reload" /\ known.net.mode # "none" -> [known EXCEPT !.net.mode = staged.mode]
    [] OTHER -> known

RunCommand ==
  /\ ~Idle /\ Accepts(Head(work)) /\ After(Head(work))
  /\ known' = Noted(Head(work)) /\ work' = Tail(work)
  /\ UNCHANGED <<wire, mstpd, intent, turn, left>>

Refused == ~Idle /\ ~Accepts(Head(work)) /\ work' = <<>> /\ UNCHANGED <<turn, left>> /\ Rest

\* A command fails, or it ran and its answer is lost; only a guard was noted
\* before it was sent.
CommandFails ==
  /\ ~Idle /\ Spend("failures") /\ work' = <<>>
  /\ \/ Accepts(Head(work)) /\ After(Head(work))
     \/ UNCHANGED <<net, staged, guest, tap, host>>
  /\ known' = IF Head(work).do = "guard" THEN Noted(Head(work)) ELSE known
  /\ UNCHANGED <<wire, mstpd, intent, turn>>

\* The bridge ends between two commands.
Restart ==
  /\ Spend("failures") /\ known # NoView
  /\ known' = NoView /\ turn' = "collect" /\ work' = <<>>
  /\ UNCHANGED <<net, staged, wire, mstpd, guest, tap, host, intent>>

\* The network has a path out that works.
Works(n, w) ==
  LET cabled == {c \in Nics : w[c].switch # Uncabled}
  IN  \/ n.bridge \cap cabled # {}
      \/ Bond \in n.bridge /\ n.mode = "backup" /\ n.slaves \cap cabled # {}
      \/ Bond \in n.bridge /\ n.slaves \subseteq cabled /\ \A c, d \in n.slaves : w[c].switch = w[d].switch

Init ==
  /\ net \in Nets /\ staged = net /\ wire \in Wirings /\ Works(net, wire) /\ mstpd \in BOOLEAN
  /\ guest = [here |-> TRUE, down |-> FALSE, tag |-> 0, trunks |-> {}]
  /\ tap = NewTap
  /\ host = [prio |-> FALSE, version |-> "rstp", snoop |-> TRUE, ntp |-> "", own |-> TRUE]
  /\ intent \in Intents /\ known = NoView
  /\ turn = "collect" /\ work = <<>>
  /\ left = [changes |-> MaxChanges, failures |-> MaxFailures]

Round == Collect \/ NoCycle \/ ApplyDevice \/ ApplyPorts \/ RunCommand \/ Refused

Next ==
  \/ Round
  \/ CollectFails \/ CyclePort \/ CommandFails \/ Restart
  \/ GuestMoves \/ ByHand \/ Reboot
  \/ \E i \in Intents : Push(i)

(***************************************************************************)
(* Properties.                                                              *)
(***************************************************************************)
\* The bridge never takes its node off the network.
On == Works(net, wire)

\* The bond follows the aggregate over all its slaves.
Aggregated ==
  LET ports == PhysicalMembers(net)
      slaves == {p \in DOMAIN ports : ports[p].member = Bond}
  IN  /\ slaves # {} /\ intent.lag = slaves /\ SameNeighbour(net.slaves) => net.mode = "lacp"
      /\ net.mode = "lacp" => intent.lag \cap slaves # {}

\* The node is as the controller wants it.  A bond that was staged and never
\* applied keeps refusing the aggregate and what would come after it.
Reached ==
  /\ guest.here =>
       /\ guest.down = ~intent.on
       /\ VlanFromConfig(guest) =
            [native |-> intent.native, tagged |-> IF intent.tagged = All THEN All ELSE intent.tagged \ {intent.native}]
  /\ mstpd => host.prio /\ host.version = (IF intent.stp = "off" THEN host.version ELSE intent.stp)
  /\ mstpd /\ guest.here => tap.edge
  /\ DOMAIN intent.snoop # {} => host.snoop = WantSnoop
  /\ host.ntp = intent.ntp /\ ~host.own
  /\ ~HalfMade => Aggregated /\ (mstpd /\ guest.here => tap.guard = intent.guard)
=============================================================================

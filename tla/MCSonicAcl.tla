----------------------------- MODULE MCSonicAcl -----------------------------
(* One kind of rule varies per push: every IP list of up to two of five      *)
(* rules and four odd ones, every MAC list of up to two of four, two odd     *)
(* ones and one with an Allow on another VLAN, five guard configurations     *)
(* with snooping on and off.                                                 *)
EXTENDS SonicAcl

Ip(permit, proto, src, dports) ==
  [permit |-> permit, proto |-> proto, src |-> src, dst |-> Hosts, sports |-> Ports, oneSport |-> FALSE,
   dports |-> dports, captured |-> TRUE]
IpRules ==
  {Ip(TRUE, "any", {Bridge}, Ports), Ip(TRUE, "tcp", Hosts, {Ssh}), Ip(FALSE, "any", Hosts, Ports),
   Ip(TRUE, "any", Hosts \ {Bridge}, Ports), [Ip(FALSE, "tcp", Hosts, Ports) EXCEPT !.sports = {Low}, !.oneSport = TRUE]}
OddIp == {Ip(TRUE, "icmp", Hosts, Ports), Ip(FALSE, "udp", {Bridge}, Ports), [Ip(TRUE, "tcp", Hosts, Ports) EXCEPT !.captured = FALSE],
          [Ip(FALSE, "tcp", Hosts, Ports) EXCEPT !.sports = {Ephemeral}, !.oneSport = TRUE]}

Mac(permit, vlan, src, dst) == [permit |-> permit, vlan |-> vlan, src |-> src, dst |-> dst, captured |-> TRUE]
MacRules ==
  {Mac(TRUE, 1, {Gateway}, Macs), Mac(FALSE, 1, Macs, Macs), Mac(FALSE, 1, Macs \ {Gateway}, Macs), Mac(FALSE, 2, Macs, {OwnMac})}
OddMac == {Mac(FALSE, 1, {Gateway}, {Broadcast}), Mac(FALSE, 5000, Macs, Macs)}

OtherVlanFirst == <<Mac(TRUE, 2, Macs, Macs), Mac(FALSE, 1, Macs, Macs)>>

Lists(S) == {<<>>} \cup {<<a>> : a \in S} \cup {<<a, b>> : a, b \in S}

Quiet == [snooping |-> None, guards |-> <<>>, ips |-> <<>>, macs |-> <<>>]
Trust(v, h) == [vlan |-> v, server |-> h]
Guards ==
  {<<>>, <<Trust(1, Bridge)>>, <<Trust(1, Bridge), Trust(2, Switch)>>,
   <<Trust(2, Switch), Trust(1, Bridge), Trust(1, None), Trust(2, Switch)>>}
MoreGuards == Guards \cup {<<Trust(2, Bridge), Trust(2, Switch)>>}

MCPushes ==
  {[Quiet EXCEPT !.ips = s] : s \in Lists(IpRules) \cup {<<a>> : a \in OddIp}}
  \cup {[Quiet EXCEPT !.macs = s] : s \in Lists(MacRules) \cup {<<a>> : a \in OddMac} \cup {OtherVlanFirst}}
  \cup {[Quiet EXCEPT !.snooping = b, !.guards = g] : b \in BOOLEAN, g \in MoreGuards}
=============================================================================

--------------------------- MODULE MCAristaPorts ---------------------------
(* Three pushes: the cage joined and the copper port plain; the cage split,  *)
(* mirrored to the copper port; both in a Port-Channel.  An operator joins   *)
(* the cage, shuts a lane, moves a VLAN or removes a mirror session.         *)
EXTENDS AristaPorts

Plain ==
  [on |-> TRUE, auto |-> TRUE, speed |-> 0, native |-> 1, tagged |-> {0}, fec |-> "", storm |-> [type |-> "", pct |-> 0],
   stp |-> TRUE, opmode |-> "switch", lag |-> 1, mirror |-> 2]
Level(pct) == [type |-> "level", pct |-> pct]
Rate == [type |-> "rate", pct |-> 2]

Joined ==
  [port |-> <<[Plain EXCEPT !.storm = Rate],
              [Plain EXCEPT !.auto = FALSE, !.speed = 100, !.native = 10, !.tagged = {1}, !.fec = "cl-91", !.storm = Level(1)]>>,
   vlans |-> {1, 10}, stp |-> [on |-> TRUE, version |-> "mstp"], lines |-> {"ntp a"}, snmp |-> "1", igmp |-> {1}]
Split ==
  [port |-> <<[Plain EXCEPT !.auto = FALSE, !.speed = 10, !.opmode = "mirror", !.stp = FALSE],
              [Plain EXCEPT !.on = FALSE, !.auto = FALSE, !.speed = 25, !.native = 10, !.tagged = {1}, !.fec = "rs-fec", !.storm = Level(1)]>>,
   vlans |-> {1, 10}, stp |-> [on |-> TRUE, version |-> "stp"], lines |-> {"ntp a", "log b"}, snmp |-> "3", igmp |-> {}]
Bundled ==
  [port |-> <<[Plain EXCEPT !.native = 10, !.tagged = {}, !.opmode = "aggregate"],
              [Plain EXCEPT !.native = 10, !.tagged = {}, !.opmode = "aggregate", !.fec = "disabled", !.storm = Level(2)]>>,
   vlans |-> {1, 10}, stp |-> [on |-> FALSE, version |-> ""], lines |-> {}, snmp |-> "", igmp |-> {10}]
MCPushes == {Joined, Split, Bundled}

MCByHand(c) ==
  {[c EXCEPT !.lane["2/1"].speed = 100], [c EXCEPT !.lane["2/2"].on = FALSE],
   [c EXCEPT !.lane["2/1"].access = 1, !.lane["2/1"].native = 1],
   [c EXCEPT !.mon[1] = [src |-> {}, dst |-> FALSE]]}
=============================================================================

----------------------------- MODULE MCSonicPlan -----------------------------
(* Two cages under every pair of the port intents below, and a third that   *)
(* stays a trunk: an ACL table never has only joining ports to bind.        *)
EXTENDS SonicPlan

MCModule == [c \in Cages |-> IF c = 2 THEN <<[ports |-> 2, speed |-> 25], [ports |-> 1, speed |-> 40]>> ELSE <<>>]

Port(c, lag, mirror, native, all, speed) ==
  [cage |-> c, lag |-> lag, mirror |-> mirror, native |-> native, all |-> all, tagged |-> {},
   speed |-> speed, up |-> TRUE, mtu |-> 1500, storm |-> 1]

\* A split trunk, a joined one that is down, two aggregates (PortChannel2 is
\* there already), a mirror destination, an automatic speed.
Roles1 ==
  {Port(1, 0, 0, 1, TRUE, 25), Port(1, 1, 0, 1, TRUE, 100), Port(1, 0, 2, 1, FALSE, 100),
   [Port(1, 0, 0, 2, FALSE, 100) EXCEPT !.tagged = {3}, !.up = FALSE]}
Roles2 ==
  {Port(2, 0, 0, 1, FALSE, 0), Port(2, 1, 0, 1, TRUE, 100), Port(2, 2, 0, 1, TRUE, 100),
   [Port(2, 0, 0, 2, FALSE, 10) EXCEPT !.tagged = {3}, !.mtu = 9100]}

\* The ports of the last push are refused or left alone, its ACLs and
\* snooping are off.
Odd == [ports |-> <<Port(1, 0, 0, NativeVlan, FALSE, 100), [Port(2, 0, 0, 2, FALSE, 25) EXCEPT !.tagged = {1}]>>,
        vlans |-> {1, 2}, acl |-> FALSE, snoop |-> {}]

MCPushes ==
  {Odd} \cup {[ports |-> <<a, b, Port(3, 0, 0, 1, TRUE, 100)>>, vlans |-> {1, 2, 3}, acl |-> TRUE, snoop |-> {1, 2}]
              : a \in Roles1, b \in Roles2}
=============================================================================

------------------------------ MODULE MCReach ------------------------------
(* Three addresses in the switch's subnet and one nothing answers at.        *)
EXTENDS Reach

CONSTANTS a1, a2, a3, dead, g1, g2

MCAddr == {a1, a2, a3, dead}
MCDead == {dead}
MCSubnet(a) == a = dead
MCPushes ==
  {[ip |-> a1, gw |-> {}], [ip |-> a2, gw |-> {g1}], [ip |-> a2, gw |-> {g2}], [ip |-> a3, gw |-> {}],
   [ip |-> dead, gw |-> {g2}]}
=============================================================================

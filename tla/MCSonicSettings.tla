-------------------------- MODULE MCSonicSettings --------------------------
(* Two values of the port settings; two addresses, a pool of both and a log  *)
(* host, two pushes that share them for either use and may put two log hosts *)
(* at one address, a switch found with the image's own community.            *)
EXTENDS SonicSettings

CONSTANTS a, b, pool, log, public, private

MCAddr == {a, b}
MCPool(h) == IF h = pool THEN {a, b} ELSE {a}
To(host, port) == [host |-> host, port |-> port]
MCPushes ==
  {[ntp |-> <<To(pool, 123)>>, syslog |-> <<To(log, 514), To(b, 514)>>, snmp |-> private],
   [ntp |-> <<To(pool, 123), To(a, 123)>>, syslog |-> <<To(log, 1514), To(pool, 514)>>, snmp |-> NoCommunity]}
MCFactory ==
  [cfg |-> [ntp |-> [x \in MCAddr |-> 0], syslog |-> [x \in MCAddr |-> 0], snmp |-> {public}], yml |-> {public}]
=============================================================================

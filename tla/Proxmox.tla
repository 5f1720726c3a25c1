------------------------------ MODULE Proxmox ------------------------------
(***************************************************************************)
(* The Proxmox driver: the numbering of a cluster's guests (PortTags) and   *)
(* what the bridge of one node writes to it (ProxmoxNode).  The two share   *)
(* the poll that both start from and no state: each runs with the other at  *)
(* rest.                                                                    *)
(***************************************************************************)
EXTENDS PortTags

CONSTANTS Nics, Bond, Nets, Wirings, Uncabled, Intents, MaxChanges, MaxFailures, NoView

VARIABLES kind,  \* the part that runs
          net, staged, wire, mstpd, guest, tap, host, intent, known, turn, work, left

nodeVars == <<net, staged, wire, mstpd, guest, tap, host, intent, known, turn, work, left>>
driverVars == <<kind, vars, nodeVars>>

Node == INSTANCE ProxmoxNode

AnyNode == CHOOSE c \in Nets \X Wirings \X Intents : Node!Works(c[1], c[2])

DriverInit ==
  /\ kind \in {"tags", "node"}
  /\ Init /\ (kind = "node" => numbering = "node" /\ \A g \in Guests : place[g] = Nowhere)
  /\ Node!Init /\ (kind = "tags" => <<net, wire, intent>> = AnyNode /\ ~mstpd)

OfTags(A) == kind = "tags" /\ A /\ UNCHANGED <<kind, nodeVars>>
OfNode(A) == kind = "node" /\ A /\ UNCHANGED <<kind, vars>>

TagsStep == OfTags(Next)
NodeStep == OfNode(Node!Next)

\* The loop of every bridge goes on, and every command has a timeout.
DriverSpec ==
  /\ DriverInit /\ [][TagsStep \/ NodeStep]_driverVars
  /\ \A h \in Hosts : WF_driverVars(OfTags(Poll(h) \/ WriteTag(h)))
  /\ WF_driverVars(OfNode(Node!Round))

\* The bridge never takes its node off the network (lag.go: "applying it would
\* take the node off the network"), and once nobody interferes the guest's
\* port, the spanning tree, snooping, NTP and the bond are what the controller
\* wants, whatever failed, was cut off, moved or changed by hand before.
Follows == [](kind = "node" => Node!On) /\ <>[](kind = "node" => Node!Reached)
=============================================================================

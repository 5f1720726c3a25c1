---------------------------- MODULE MCPortTags ----------------------------
(* A cluster of two nodes, and a node with three NICs found with one of      *)
(* them in the bridge, or with two of them bonded.                           *)
EXTENDS Proxmox

CONSTANTS HostA, HostB, UplinksA, UplinksB, EditPorts

MCUplinks == [h \in {HostA, HostB} |-> IF h = HostA THEN UplinksA ELSE UplinksB]

(* A cluster with its first guest, or an empty one. *)
MCPlacements == {p \in [Guests -> Hosts \cup {Nowhere}] : p[1] = Nowhere => \A g \in Guests : p[g] = Nowhere}

(* Hand edits use the cluster's scope or name the first node: each is the  *)
(* wrong scope under the other numbering.                                  *)
MCEditClaims == [port : EditPorts, scope : {"c", HostA}]

(* The bond is no NIC and sorts after them. *)
MCNets ==
    {[bridge |-> {1}, slaves |-> {}, mode |-> "none"],
     [bridge |-> {Bond}, slaves |-> {1, 2}, mode |-> "backup"]}

(* All NICs at one switch; or at two, and one that is not plugged in. *)
To(switch, heard) == [switch |-> switch, heard |-> heard]
MCWirings ==
    {<<To("s1", TRUE), To("s1", TRUE), To("s1", TRUE)>>,
     <<To("s1", TRUE), To("s2", TRUE), To(Uncabled, FALSE)>>}

MCIntents ==
    {[on |-> TRUE, native |-> 1, tagged |-> {0}, guard |-> TRUE, lag |-> {1, 2},
      stp |-> "stp", snoop |-> <<>>, ntp |-> "a"],
     [on |-> TRUE, native |-> 10, tagged |-> {1, 10}, guard |-> FALSE, lag |-> {2, 3},
      stp |-> "rstp", snoop |-> [v \in {10} |-> TRUE], ntp |-> ""],
     [on |-> FALSE, native |-> 1, tagged |-> {}, guard |-> FALSE, lag |-> {},
      stp |-> "off", snoop |-> <<FALSE>>, ntp |-> "a"]}
===========================================================================

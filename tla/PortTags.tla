----------------------------- MODULE PortTags -----------------------------
(***************************************************************************)
(* How the bridges of a Proxmox cluster number its guests                  *)
(* (internal/drivers/proxmox/tags.go and Collect of collector.go).  Every  *)
(* node has a bridge process of its own; they share nothing but the tags   *)
(* of the guests, where a port number is written by the bridge of the node *)
(* the guest lives on and read by all.  A poll reads the tags, numbers the *)
(* guests and then rewrites tags one command at a time, while guests are   *)
(* created, cloned, moved, destroyed and tagged by hand.                   *)
(*                                                                         *)
(* Abstractions.  A guest has one NIC on the bridge and is a number, its   *)
(* place in the order (vmid, kind, index) in which NICs are numbered.  A   *)
(* claim is a "unifi." tag for this bridge: a port and a scope, "c" or the *)
(* host an "h" tag names.  A port the node's uplinks took stands for any   *)
(* other tag out of range and for malformed ones: they are ignored and     *)
(* replaced.  Tags that are not the bridge's are carried along by a        *)
(* rewrite and left out.                                                   *)
(***************************************************************************)
EXTENDS Integers, Sequences, FiniteSetsExt

CONSTANTS
    Hosts,      \* the nodes, each with its bridge
    Nowhere,    \* the place of a guest that does not exist
    NumGuests,  \* guests, in the order of their vmid
    NumPorts,   \* ports of every switch
    Uplinks,    \* host -> its physical ports, which take the top slots
    Numberings, \* "cluster", "node" or both
    Placements, \* where the guests may be at first
    EditClaims, \* the claims an operator writes by hand
    MaxTags,    \* bound: claims a guest may carry
    Budget      \* bound: what operators, failed writes and restarts may do, in steps

Guests == 1..NumGuests
NoPort == 0
Claims == [port : 1..NumPorts, scope : Hosts \cup {"c"}]

ASSUME TagsAssumption ==
    /\ Nowhere \notin Hosts /\ "c" \notin Hosts
    /\ NumGuests \in Nat /\ NumPorts \in Nat /\ MaxTags \in Nat
    /\ Uplinks \in [Hosts -> 0..NumPorts - 1]
    /\ Numberings \subseteq {"cluster", "node"}
    /\ Placements \subseteq [Guests -> Hosts \cup {Nowhere}]
    /\ EditClaims \subseteq Claims
    /\ Budget \in Nat

VARIABLES
    numbering,  \* the cluster's numbering option
    place,      \* guest -> the node it lives on
    tags,       \* guest -> its claims, in the order of its config
    shown,      \* host -> the port of every guest at its last poll
    todo,       \* host -> rewrites its last poll asked for and did not make yet
    budget,     \* what is left of the bound
    settled     \* history: guests whose number every bridge agreed on

vars == <<numbering, place, tags, shown, todo, budget, settled>>

(* Bridges started on a cluster whose guests they never numbered. *)
Init ==
    /\ numbering \in Numberings
    /\ place \in Placements
    /\ tags = [g \in Guests |-> <<>>]
    /\ shown = [h \in Hosts |-> [g \in Guests |-> NoPort]]
    /\ todo = [h \in Hosts |-> {}]
    /\ budget = Budget
    /\ settled = {}

---------------------------------------------------------------------------
(* assignPorts *)

(* The slots below the node's physical ports. *)
Slots(h) == 1..NumPorts - Uplinks[h]

(* The NICs a bridge numbers: all of the cluster's, or those of its node. *)
Visible(h) == {g \in Guests : place[g] # Nowhere /\ (numbering = "node" => place[g] = h)}

Scope(g) == IF numbering = "cluster" THEN "c" ELSE place[g]

(* A claim this bridge follows: in range, and of the numbering in use. *)
Valid(h, g, c) == c.port \in Slots(h) /\ c.scope = Scope(g)

(* Mutant: a port that is already taken is taken again. *)
ClaimedTwice(h) ==
    [g \in Guests |->
        LET valid == {k \in DOMAIN tags[g] : Valid(h, g, tags[g][k])}
        IN  IF g \in Visible(h) /\ valid # {} THEN tags[g][Min(valid)].port ELSE NoPort]

(* First pass, in guest order: each NIC takes the first of its valid       *)
(* claims that no NIC before it took.                                      *)
Claimed(h) ==
    LET valid == [g \in Guests |-> {k \in DOMAIN tags[g] : g \in Visible(h) /\ Valid(h, g, tags[g][k])}]
    IN  CHOOSE ports \in [Guests -> {NoPort} \cup Slots(h)] : \A g \in Guests :
            LET open == {k \in valid[g] : \A x \in 1..g - 1 : ports[x] # tags[g][k].port}
            IN  ports[g] = IF open = {} THEN NoPort ELSE tags[g][Min(open)].port

(* Mutant: the claims are not read, everyone is numbered in order. *)
NumberedAfresh(h, claimed) ==
    [g \in Guests |->
        LET rank == Cardinality({x \in Visible(h) : x <= g})
        IN  IF g \in Visible(h) /\ rank \in Slots(h) THEN rank ELSE NoPort]

(* Second pass: the NICs left over take the lowest free ports, as long as  *)
(* there are any.                                                          *)
Numbered(h, claimed) ==
    LET free == Slots(h) \ Range(claimed)
        unnumbered == {g \in Visible(h) : claimed[g] = NoPort}
    IN  CHOOSE ports \in [Guests -> {NoPort} \cup Slots(h)] : \A g \in Guests :
            LET open == free \ {ports[x] : x \in 1..g - 1}
            IN  ports[g] = IF g \in unnumbered /\ open # {} THEN Min(open) ELSE claimed[g]

Ports(h) == Numbered(h, Claimed(h))

(* The claims a guest of this node should carry. *)
Wanted(g, port) == IF port = NoPort THEN <<>> ELSE <<[port |-> port, scope |-> Scope(g)]>>

(* Mutant: only guests without a tag are tagged. *)
RetagsUntagged(h, ports) ==
    {[guest |-> g, tags |-> Wanted(g, ports[g])] :
        g \in {x \in Guests : place[x] = h /\ tags[x] = <<>> /\ ports[x] # NoPort}}

(* The guests of this node that carry anything else, each to be retagged. *)
Retags(h, ports) ==
    {[guest |-> g, tags |-> Wanted(g, ports[g])] :
        g \in {x \in Guests : place[x] = h /\ tags[x] # Wanted(x, ports[x])}}

---------------------------------------------------------------------------
(* The state the cluster comes to rest in: no rewrite is under way, no     *)
(* poll would show anything else, every guest carries exactly the number   *)
(* its own bridge shows, and the other bridges show the same.              *)
AtRest ==
    /\ \A h \in Hosts : todo[h] = {}
    /\ \A g \in Guests : place[g] # Nowhere => tags[g] = Wanted(g, shown[place[g]][g])
    /\ \A h \in Hosts : \A g \in Visible(h) : shown[h][g] = shown[place[g]][g]
    /\ \A h \in Hosts : shown[h] = Ports(h)

(* The guests that are shown by the bridge of their node. *)
OnAPort == {g \in Guests : place[g] # Nowhere /\ shown[place[g]][g] # NoPort}

(* History: disturbing a cluster at rest records who had a port by then. *)
Settled == IF AtRest THEN OnAPort ELSE settled

Disturb == budget > 0 /\ budget' = budget - 1

(* Collect: the script reads the cluster's config files, build numbers the *)
(* guests.                                                                 *)
Poll(h) ==
    /\ todo[h] = {}
    /\ UNCHANGED <<numbering, place, tags, budget, settled>>
    /\ \E claimed \in {Claimed(h)} : \E ports \in {Numbered(h, claimed)} :
         /\ shown' = [shown EXCEPT ![h] = ports]
         /\ todo' = [todo EXCEPT ![h] = Retags(h, ports)]

(* writeTags: one "qm set --tags" per guest, in guest order.  The tool     *)
(* only knows guests of its own node; an error is logged and the next poll *)
(* asks again.                                                             *)
WriteTag(h) ==
    /\ \E r \in todo[h] :
         /\ \A q \in todo[h] : r.guest <= q.guest
         /\ \/ place[r.guest] = h /\ tags' = [tags EXCEPT ![r.guest] = r.tags] /\ UNCHANGED budget
            \/ place[r.guest] # h /\ UNCHANGED <<tags, budget>>
            \/ place[r.guest] = h /\ Disturb /\ UNCHANGED tags
         /\ todo' = [todo EXCEPT ![h] = @ \ {r}]
    /\ UNCHANGED <<numbering, place, shown, settled>>

(* The bridge of a node ends; it keeps nothing. *)
Restart(h) ==
    /\ Disturb
    /\ shown' = [shown EXCEPT ![h] = [g \in Guests |-> NoPort]]
    /\ todo' = [todo EXCEPT ![h] = {}]
    /\ settled' = Settled
    /\ UNCHANGED <<numbering, place, tags>>

---------------------------------------------------------------------------
(* The cluster's operators. *)

Create(g, h) ==
    /\ place[g] = Nowhere /\ Disturb
    /\ place' = [place EXCEPT ![g] = h]
    /\ settled' = Settled
    /\ UNCHANGED <<numbering, tags, shown, todo>>

(* A clone or a restored backup carries the tags of the original. *)
Clone(g, of, h) ==
    /\ place[g] = Nowhere /\ place[of] # Nowhere /\ Disturb
    /\ place' = [place EXCEPT ![g] = h]
    /\ tags' = [tags EXCEPT ![g] = tags[of]]
    /\ settled' = {}
    /\ UNCHANGED <<numbering, shown, todo>>

Destroy(g) ==
    /\ place[g] # Nowhere /\ Disturb
    /\ place' = [place EXCEPT ![g] = Nowhere]
    /\ tags' = [tags EXCEPT ![g] = <<>>]
    /\ settled' = Settled \ {g}
    /\ UNCHANGED <<numbering, shown, todo>>

Migrate(g, h) ==
    /\ place[g] \notin {Nowhere, h} /\ Disturb
    /\ place' = [place EXCEPT ![g] = h]
    /\ settled' = IF numbering = "node" THEN Settled \ {g} ELSE Settled
    /\ UNCHANGED <<numbering, tags, shown, todo>>

(* A claim is set by hand, alone or before the ones that are there. *)
Tag(g, c) ==
    /\ place[g] # Nowhere /\ Disturb
    /\ \E s \in {<<c>>, <<c>> \o tags[g]} :
         Len(s) <= MaxTags /\ tags' = [tags EXCEPT ![g] = s]
    /\ settled' = {}
    /\ UNCHANGED <<numbering, place, shown, todo>>

Bridges == \E h \in Hosts : Poll(h) \/ WriteTag(h) \/ Restart(h)

Operators ==
    \/ \E g \in Guests, h \in Hosts : Create(g, h) \/ Migrate(g, h)
    \/ \E g, of \in Guests, h \in Hosts : Clone(g, of, h)
    \/ \E g \in Guests : Destroy(g)
    \/ \E g \in Guests, c \in EditClaims : Tag(g, c)

Next == Bridges \/ Operators

Spec == Init /\ [][Next]_vars

(* Every bridge keeps polling and works through its rewrites: Run loops    *)
(* for ever and every command has a timeout.                               *)
FairSpec == Spec /\ \A h \in Hosts : WF_vars(Poll(h) \/ WriteTag(h))

---------------------------------------------------------------------------
(* Properties *)

(* tags.go: "Two guests claiming one port ...: the lower VMID keeps it".   *)
(* Whatever clones, hand edits, migrations and half-finished rewrites left *)
(* in the tags, no bridge shows two guests on one port: the loop would     *)
(* write one guest's config to the other.                                  *)
OnePortEach ==
    \A h \in Hosts : \A g1, g2 \in Guests :
        g1 # g2 /\ shown[h][g1] # NoPort => shown[h][g1] # shown[h][g2]

(* docs/drivers/proxmox.md, section 1c: "Under cluster numbering a         *)
(* migrated guest keeps its port", and a guest that is shown keeps it in   *)
(* general.  Once the bridges agree on a guest's number, no rewrite of any *)
(* bridge changes it, through migrations, new and destroyed guests, failed *)
(* writes and restarts, until someone clones a guest or edits a tag.       *)
KeepsPort ==
    [][\A g \in settled \cap settled' : tags'[g] = tags[g]]_vars

(* tags.go: a failed rewrite is "retried on the next poll", a duplicate    *)
(* "is retagged by its owner".  When the operators rest, the cluster does: *)
(* the races of bridges that number new guests at the same time, stale     *)
(* rewrites and duplicates are resolved, and all bridges agree.            *)
Settles == <>[]AtRest

===========================================================================

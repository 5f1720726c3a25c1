--------------------------- MODULE ProxmoxProofs ---------------------------
(***************************************************************************)
(* The numbering of a Proxmox cluster's guests, for every number of nodes,  *)
(* guests and ports and any number of disturbances: no bridge ever shows two *)
(* guests on one port, and no bridge rewrites a number all of them agreed   *)
(* on.                                                                      *)
(*                                                                         *)
(* The two passes that number the guests are functions defined by course-   *)
(* of-values recursion on the guest; that they exist is Course of           *)
(* InductionLemmas.                                                         *)
(***************************************************************************)
EXTENDS Proxmox, InductionLemmas, SequenceTheorems, TLAPS

(***************************************************************************)
(* The invariant.                                                           *)
(***************************************************************************)
TagsType ==
  /\ numbering \in {"cluster", "node"}
  /\ place \in [Guests -> Hosts \cup {Nowhere}]
  /\ tags \in [Guests -> Seq(Claims)]
  /\ shown \in [Hosts -> [Guests -> 0..NumPorts]]
  /\ todo \in [Hosts -> SUBSET [guest : Guests, tags : Seq(Claims)]]
  /\ settled \subseteq Guests

\* A list of claims without a claim c.
Lacks(list, c) == \A k \in DOMAIN list : list[k] # c

\* A guest's number cannot be taken from it: it carries just its claim, every
\* bridge that numbers it has the port, and no other guest carries the claim
\* or is about to.
Frozen(g) ==
  /\ place[g] # Nowhere
  /\ \E c \in Claims :
       /\ tags[g] = <<c>> /\ c.scope = Scope(g)
       /\ \A h \in Hosts : g \in Visible(h) => c.port \in Slots(h)
       /\ \A x \in Guests \ {g} : Lacks(tags[x], c)
       /\ \A h \in Hosts : \A r \in todo[h] : r.guest # g /\ Lacks(r.tags, c)

TagsInv ==
  /\ TagsType
  /\ \A g \in Guests : place[g] = Nowhere => tags[g] = <<>>
  /\ OnePortEach
  /\ \A g \in settled : Frozen(g)

(***************************************************************************)
(* The two passes.                                                          *)
(***************************************************************************)
LEMMA SlotsArePorts ==
  ASSUME NEW h \in Hosts
  PROVE  Slots(h) \subseteq 1..NumPorts /\ Slots(h) \subseteq Nat /\ NoPort \notin Slots(h) /\ NoPort \in Nat
  BY TagsAssumption DEF Slots, NoPort

\* The claims of a guest that are still to be had when those before it took
\* theirs.
OpenClaims(h, ports, g) ==
  {k \in DOMAIN tags[g] : /\ g \in Visible(h) /\ Valid(h, g, tags[g][k])
                          /\ \A x \in 1..(g - 1) : ports[x] # tags[g][k].port}
ClaimOf(h, ports, g) ==
  IF OpenClaims(h, ports, g) = {} THEN NoPort ELSE tags[g][Min(OpenClaims(h, ports, g))].port

LEMMA OpenClaim ==
  ASSUME TagsType, NEW h \in Hosts, NEW g \in Guests, NEW ports
  PROVE  \/ OpenClaims(h, ports, g) = {} /\ ClaimOf(h, ports, g) = NoPort
         \/ \E k \in OpenClaims(h, ports, g) : ClaimOf(h, ports, g) = tags[g][k].port
<1>1. tags[g] \in Seq(Claims)
  BY DEF TagsType
<1>2. OpenClaims(h, ports, g) \subseteq Nat
  BY <1>1 DEF OpenClaims
<1>3. CASE OpenClaims(h, ports, g) # {}
  <2>1. Min(OpenClaims(h, ports, g)) \in OpenClaims(h, ports, g)
    BY <1>2, <1>3, MinIsLeast
  <2> QED
    BY <1>3, <2>1 DEF ClaimOf
<1> QED
  BY <1>3 DEF ClaimOf

LEMMA ClaimedIs ==
  ASSUME TagsType, NEW h \in Hosts
  PROVE  /\ Claimed(h) \in [Guests -> {NoPort} \cup Slots(h)]
         /\ \A g \in Guests : Claimed(h)[g] = ClaimOf(h, Claimed(h), g)
<1> DEFINE D == {NoPort} \cup Slots(h)
           F == [f \in [1..NumGuests -> D] |-> [g \in 1..NumGuests |-> ClaimOf(h, f, g)]]
<1>1. ASSUME NEW f, NEW g \in Guests PROVE ClaimOf(h, f, g) \in D
  BY <1>1, OpenClaim DEF OpenClaims, Valid
<1>2. ASSUME NEW f1, NEW f2, NEW g \in Guests, \A x \in 1..(g - 1) : f1[x] = f2[x]
      PROVE  ClaimOf(h, f1, g) = ClaimOf(h, f2, g)
  <2>1. OpenClaims(h, f1, g) = OpenClaims(h, f2, g)
    BY <1>2 DEF OpenClaims
  <2> QED
    BY <2>1 DEF ClaimOf
<1>3. NumGuests \in Nat /\ Guests = 1..NumGuests /\ D # {}
  BY TagsAssumption DEF Guests
<1> HIDE DEF D
<1>4. F \in [[1..NumGuests -> D] -> [1..NumGuests -> D]]
  BY <1>1, <1>3
<1>5. Causal(F, D, NumGuests)
  BY <1>2, <1>3, <1>4 DEF Causal
<1>6. \A f \in [1..NumGuests -> D], g \in 1..NumGuests : F[f][g] = ClaimOf(h, f, g)
  OBVIOUS
<1> HIDE DEF F
<1>7. PICK f : IsCourse(f, F, D, NumGuests)
  BY <1>3, <1>5, Course
<1> DEFINE valid == [g \in Guests |-> {k \in DOMAIN tags[g] : g \in Visible(h) /\ Valid(h, g, tags[g][k])}]
           Fits(p) == \A g \in Guests :
             LET open == {k \in valid[g] : \A x \in 1..g - 1 : p[x] # tags[g][k].port}
             IN  p[g] = IF open = {} THEN NoPort ELSE tags[g][Min(open)].port
<1>8. ASSUME NEW p PROVE Fits(p) <=> \A g \in Guests : p[g] = ClaimOf(h, p, g)
  <2>1. \A g \in Guests : {k \in valid[g] : \A x \in 1..g - 1 : p[x] # tags[g][k].port} = OpenClaims(h, p, g)
    BY DEF OpenClaims
  <2> QED
    BY <2>1 DEF ClaimOf
<1> HIDE DEF Fits
<1>9. Fits(f) /\ f \in [Guests -> D]
  <2>1. \A g \in Guests : f[g] = ClaimOf(h, f, g)
    BY <1>3, <1>6, <1>7 DEF IsCourse
  <2> QED
    BY <1>3, <1>7, <1>8, <2>1 DEF IsCourse
<1>10. Claimed(h) = CHOOSE p \in [Guests -> D] : Fits(p)
  BY DEF Claimed, D, Fits
<1>11. Claimed(h) \in [Guests -> D] /\ Fits(Claimed(h))
  BY <1>9, <1>10
<1> QED
  BY <1>8, <1>11 DEF D

\* The number of a guest, when those before it have theirs.
OpenPorts(h, claimed, ports, g) == (Slots(h) \ Range(claimed)) \ {ports[x] : x \in 1..(g - 1)}
NumberOf(h, claimed, ports, g) ==
  IF g \in Visible(h) /\ claimed[g] = NoPort /\ OpenPorts(h, claimed, ports, g) # {}
  THEN Min(OpenPorts(h, claimed, ports, g)) ELSE claimed[g]

LEMMA OpenPort ==
  ASSUME NEW h \in Hosts, NEW g \in Guests, NEW claimed, NEW ports
  PROVE  \/ NumberOf(h, claimed, ports, g) = claimed[g]
         \/ claimed[g] = NoPort /\ NumberOf(h, claimed, ports, g) \in OpenPorts(h, claimed, ports, g)
<1>1. OpenPorts(h, claimed, ports, g) \subseteq Nat
  BY SlotsArePorts DEF OpenPorts
<1> QED
  BY <1>1, MinIsLeast DEF NumberOf

LEMMA NumberedIs ==
  ASSUME NEW h \in Hosts, NEW claimed \in [Guests -> {NoPort} \cup Slots(h)]
  PROVE  /\ Numbered(h, claimed) \in [Guests -> {NoPort} \cup Slots(h)]
         /\ \A g \in Guests : Numbered(h, claimed)[g] = NumberOf(h, claimed, Numbered(h, claimed), g)
<1> DEFINE D == {NoPort} \cup Slots(h)
           F == [f \in [1..NumGuests -> D] |-> [g \in 1..NumGuests |-> NumberOf(h, claimed, f, g)]]
<1>1. ASSUME NEW f, NEW g \in Guests PROVE NumberOf(h, claimed, f, g) \in D
  BY <1>1, OpenPort DEF OpenPorts
<1>2. ASSUME NEW f1, NEW f2, NEW g \in Guests, \A x \in 1..(g - 1) : f1[x] = f2[x]
      PROVE  NumberOf(h, claimed, f1, g) = NumberOf(h, claimed, f2, g)
  <2>1. OpenPorts(h, claimed, f1, g) = OpenPorts(h, claimed, f2, g)
    BY <1>2 DEF OpenPorts
  <2> QED
    BY <2>1 DEF NumberOf
<1>3. NumGuests \in Nat /\ Guests = 1..NumGuests /\ D # {}
  BY TagsAssumption DEF Guests
<1> HIDE DEF D
<1>4. F \in [[1..NumGuests -> D] -> [1..NumGuests -> D]]
  BY <1>1, <1>3
<1>5. Causal(F, D, NumGuests)
  BY <1>2, <1>3, <1>4 DEF Causal
<1>6. \A f \in [1..NumGuests -> D], g \in 1..NumGuests : F[f][g] = NumberOf(h, claimed, f, g)
  OBVIOUS
<1> HIDE DEF F
<1>7. PICK f : IsCourse(f, F, D, NumGuests)
  BY <1>3, <1>5, Course
<1> DEFINE free == Slots(h) \ Range(claimed)
           unnumbered == {g \in Visible(h) : claimed[g] = NoPort}
           Fits(p) == \A g \in Guests :
             LET open == free \ {p[x] : x \in 1..g - 1}
             IN  p[g] = IF g \in unnumbered /\ open # {} THEN Min(open) ELSE claimed[g]
<1>8. ASSUME NEW p PROVE Fits(p) <=> \A g \in Guests : p[g] = NumberOf(h, claimed, p, g)
  <2>1. \A g \in Guests : free \ {p[x] : x \in 1..g - 1} = OpenPorts(h, claimed, p, g)
    BY DEF OpenPorts
  <2> QED
    BY <2>1 DEF NumberOf
<1> HIDE DEF Fits
<1>9. Fits(f) /\ f \in [Guests -> D]
  <2>1. \A g \in Guests : f[g] = NumberOf(h, claimed, f, g)
    BY <1>3, <1>6, <1>7 DEF IsCourse
  <2> QED
    BY <1>3, <1>7, <1>8, <2>1 DEF IsCourse
<1>10. Numbered(h, claimed) = CHOOSE p \in [Guests -> D] : Fits(p)
  BY DEF Numbered, D, Fits
<1>11. Numbered(h, claimed) \in [Guests -> D] /\ Fits(Numbered(h, claimed))
  BY <1>9, <1>10
<1> QED
  BY <1>8, <1>11 DEF D

(***************************************************************************)
(* What a poll shows.                                                       *)
(***************************************************************************)
\* No two guests on one port.
Apart(ports) == \A g1, g2 \in Guests : g1 # g2 /\ ports[g1] # NoPort => ports[g1] # ports[g2]

LEMMA GuestOrder == \A g1, g2 \in Guests : g1 # g2 => g1 \in 1..(g2 - 1) \/ g2 \in 1..(g1 - 1)
  BY TagsAssumption DEF Guests

LEMMA ClaimedApart == ASSUME TagsType, NEW h \in Hosts PROVE Apart(Claimed(h))
<1> DEFINE c == Claimed(h)
<1>1. ASSUME NEW g1 \in Guests, NEW g2 \in Guests, g1 \in 1..(g2 - 1), c[g2] # NoPort PROVE c[g1] # c[g2]
  <2>1. c[g2] = ClaimOf(h, c, g2)
    BY ClaimedIs
  <2>2. PICK k \in OpenClaims(h, c, g2) : c[g2] = tags[g2][k].port
    BY <1>1, <2>1, OpenClaim
  <2> QED
    BY <1>1, <2>2 DEF OpenClaims
<1> HIDE DEF c
<1>2. Apart(c)
  BY <1>1, GuestOrder DEF Apart
<1> QED
  BY <1>2 DEF c

LEMMA NumberedApart ==
  ASSUME NEW h \in Hosts, NEW c \in [Guests -> {NoPort} \cup Slots(h)], Apart(c)
  PROVE  Apart(Numbered(h, c))
<1> DEFINE n == Numbered(h, c)
<1>1. \A g \in Guests : n[g] = NumberOf(h, c, n, g)
  BY NumberedIs
<1> HIDE DEF n
<1>2. \A g \in Guests : n[g] = c[g] \/ n[g] \in OpenPorts(h, c, n, g)
  BY <1>1, OpenPort
<1>3. \A g, x \in Guests : n[g] \in OpenPorts(h, c, n, g) => n[g] # c[x] /\ (x \in 1..(g - 1) => n[g] # n[x])
  BY DEF OpenPorts, Range
<1>4. ASSUME NEW g1 \in Guests, NEW g2 \in Guests, g1 \in 1..(g2 - 1), n[g1] # NoPort PROVE n[g1] # n[g2]
  BY <1>2, <1>3, <1>4, GuestOrder DEF Apart
<1>5. ASSUME NEW g1 \in Guests, NEW g2 \in Guests, g1 \in 1..(g2 - 1), n[g2] # NoPort PROVE n[g1] # n[g2]
  BY <1>4, <1>5
<1>6. Apart(n)
  BY <1>4, <1>5, GuestOrder DEF Apart
<1> QED
  BY <1>6 DEF n

LEMMA PortsApart ==
  ASSUME TagsType, NEW h \in Hosts
  PROVE  /\ Ports(h) \in [Guests -> {NoPort} \cup Slots(h)] /\ Ports(h) \in [Guests -> 0..NumPorts]
         /\ Apart(Ports(h))
<1>1. Claimed(h) \in [Guests -> {NoPort} \cup Slots(h)] /\ Apart(Claimed(h))
  BY ClaimedIs, ClaimedApart
<1>2. Ports(h) \in [Guests -> {NoPort} \cup Slots(h)] /\ Apart(Ports(h))
  BY <1>1, NumberedIs, NumberedApart DEF Ports
<1>3. {NoPort} \cup Slots(h) \subseteq 0..NumPorts
  BY SlotsArePorts, TagsAssumption DEF NoPort
<1> QED
  BY <1>2, <1>3

\* Guests that a bridge numbers are of one scope to it.
LEMMA OneScope ==
  ASSUME TagsType, NEW h \in Hosts, NEW x \in Visible(h), NEW g \in Visible(h)
  PROVE  Scope(x) = Scope(g)
  BY DEF TagsType, Visible, Scope

LEMMA SameClaim == \A a, b \in Claims : a.port = b.port /\ a.scope = b.scope => a = b
  BY DEF Claims

\* A frozen guest is shown on its port by every bridge that numbers it.
LEMMA FrozenPort ==
  ASSUME TagsType, NEW h \in Hosts, NEW g \in Guests, g \in Visible(h), NEW c \in Claims,
         tags[g] = <<c>>, c.scope = Scope(g), c.port \in Slots(h),
         \A x \in Guests \ {g} : Lacks(tags[x], c)
  PROVE  Ports(h)[g] = c.port
<1> DEFINE cl == Claimed(h)
<1>1. cl[g] = ClaimOf(h, cl, g) /\ \A x \in Guests : cl[x] = ClaimOf(h, cl, x)
  BY ClaimedIs
<1>2. cl \in [Guests -> {NoPort} \cup Slots(h)]
  BY ClaimedIs
<1> HIDE DEF cl
<1>3. ASSUME NEW x \in 1..(g - 1) PROVE cl[x] # c.port
  <2>1. x \in Guests \ {g}
    BY TagsAssumption DEF Guests
  <2>2. SUFFICES ASSUME cl[x] = c.port PROVE FALSE
    OBVIOUS
  <2>3. c.port # NoPort
    BY SlotsArePorts
  <2>4. PICK k \in OpenClaims(h, cl, x) : cl[x] = tags[x][k].port
    BY <1>1, <2>1, <2>2, <2>3, OpenClaim
  <2>5. k \in DOMAIN tags[x] /\ x \in Visible(h) /\ tags[x][k].scope = Scope(x)
    BY <2>4 DEF OpenClaims, Valid
  <2>6. tags[x][k] \in Claims
    <3>1. tags[x] \in Seq(Claims)
      BY <2>1 DEF TagsType
    <3> QED
      BY <2>5, <3>1
  <2>7. tags[x][k].scope = c.scope
    BY <2>5, OneScope
  <2>8. tags[x][k] = c
    BY <2>2, <2>4, <2>6, <2>7, SameClaim
  <2> QED
    BY <2>1, <2>5, <2>8 DEF Lacks
<1>4. DOMAIN tags[g] = {1} /\ tags[g][1] = c
  OBVIOUS
<1>5. OpenClaims(h, cl, g) = {1}
  BY <1>3, <1>4 DEF OpenClaims, Valid
<1>6. cl[g] = c.port
  BY <1>1, <1>4, <1>5, OpenClaim
<1>7. Numbered(h, cl)[g] = c.port
  <2>1. cl[g] # NoPort
    BY <1>6, SlotsArePorts
  <2>2. Numbered(h, cl)[g] = NumberOf(h, cl, Numbered(h, cl), g)
    BY <1>2, NumberedIs
  <2> QED
    BY <1>6, <2>1, <2>2 DEF NumberOf
<1> QED
  BY <1>7 DEF Ports, cl

(***************************************************************************)
(* The steps.                                                               *)
(***************************************************************************)
LEMMA WantedClaims ==
  ASSUME TagsType, NEW g \in Guests, place[g] \in Hosts, NEW port \in 0..NumPorts
  PROVE  /\ Wanted(g, port) \in Seq(Claims)
         /\ port = NoPort => Wanted(g, port) = <<>>
         /\ port # NoPort => \E c \in Claims : Wanted(g, port) = <<c>> /\ c.port = port /\ c.scope = Scope(g)
<1>1. CASE port = NoPort
  BY <1>1 DEF Wanted
<1>2. CASE port # NoPort
  <2> DEFINE c == [port |-> port, scope |-> Scope(g)]
  <2>1. port \in 1..NumPorts
    BY <1>2, TagsAssumption DEF NoPort
  <2>2. c \in Claims /\ c.port = port /\ c.scope = Scope(g)
    BY <2>1 DEF Claims, Scope, TagsType
  <2>3. Wanted(g, port) = <<c>>
    BY <1>2 DEF Wanted
  <2> HIDE DEF c
  <2> QED
    BY <1>2, <2>2, <2>3
<1> QED
  BY <1>1, <1>2

LEMMA PlacedOnHost == ASSUME TagsType, NEW g \in Guests, place[g] # Nowhere PROVE place[g] \in Hosts
  BY DEF TagsType

\* At rest every guest on a port is frozen.
LEMMA RestFreezes == ASSUME TagsInv, AtRest, NEW g \in OnAPort PROVE Frozen(g)
<1> DEFINE at == place[g]
           p == shown[at][g]
<1>1. g \in Guests /\ at # Nowhere /\ p # NoPort
  BY DEF OnAPort
<1>2. TagsType /\ at \in Hosts
  BY <1>1, PlacedOnHost DEF TagsInv
<1>3. tags[g] = Wanted(g, p) /\ p \in 0..NumPorts
  BY <1>1, <1>2 DEF AtRest, TagsType
<1>4. PICK c \in Claims : tags[g] = <<c>> /\ c.port = p /\ c.scope = Scope(g)
  BY <1>1, <1>2, <1>3, WantedClaims
<1>5. ASSUME NEW h \in Hosts, g \in Visible(h) PROVE c.port \in Slots(h)
  <2>1. shown[h][g] = p /\ shown[h] = Ports(h)
    BY <1>5 DEF AtRest
  <2>2. p \in {NoPort} \cup Slots(h)
    BY <1>1, <1>2, <2>1, PortsApart
  <2> QED
    BY <1>1, <1>4, <2>2
<1>6. ASSUME NEW x \in Guests \ {g} PROVE Lacks(tags[x], c)
  <2>1. CASE place[x] = Nowhere
    <3>1. tags[x] = <<>>
      BY <2>1 DEF TagsInv
    <3> QED
      BY <3>1 DEF Lacks
  <2>2. CASE place[x] # Nowhere
    <3> DEFINE q == shown[place[x]][x]
    <3>1. tags[x] = Wanted(x, q) /\ place[x] \in Hosts
      BY <1>2, <2>2, PlacedOnHost DEF AtRest
    <3>2. q \in 0..NumPorts
      BY <1>2, <3>1 DEF TagsType
    <3>3. CASE q = NoPort
      <4>1. tags[x] = <<>>
        BY <1>2, <3>1, <3>2, <3>3, WantedClaims
      <4> QED
        BY <4>1 DEF Lacks
    <3>4. CASE q # NoPort
      <4>1. PICK d \in Claims : tags[x] = <<d>> /\ d.port = q /\ d.scope = Scope(x)
        BY <1>2, <3>1, <3>2, <3>4, WantedClaims
      <4>2. d # c
        <5> SUFFICES ASSUME d = c PROVE FALSE
          OBVIOUS
        <5>1. Scope(x) = Scope(g) /\ q = p
          BY <1>4, <4>1
        <5>2. x \in Visible(at)
          BY <1>1, <1>2, <2>2, <5>1 DEF Visible, Scope, TagsType
        <5>3. shown[at][x] = q
          BY <1>2, <5>2 DEF AtRest
        <5>4. shown[at][g] # shown[at][x]
          BY <1>1, <1>2 DEF TagsInv, OnePortEach
        <5> QED
          BY <5>1, <5>3, <5>4
      <4> QED
        BY <4>1, <4>2 DEF Lacks
    <3> QED
      BY <3>3, <3>4
  <2> QED
    BY <2>1, <2>2
<1>7. \A h \in Hosts : todo[h] = {}
  BY DEF AtRest
<1> QED
  BY <1>1, <1>4, <1>5, <1>6, <1>7 DEF Frozen

LEMMA SettledFrozen == ASSUME TagsInv PROVE Settled \subseteq Guests /\ \A g \in Settled : Frozen(g)
<1>1. OnAPort \subseteq Guests
  BY DEF OnAPort
<1> QED
  BY <1>1, RestFreezes DEF Settled, TagsInv, TagsType

\* Steps that write no new claim: a guest's tags stay, go, or become what was
\* asked for before.
LEMMA StaysFrozen ==
  ASSUME TagsType, NEW g \in Guests, Frozen(g), numbering' = numbering, place'[g] # Nowhere,
         tags'[g] = tags[g], numbering = "node" => place'[g] = place[g],
         \A x \in Guests \ {g} : \/ tags'[x] = tags[x] \/ tags'[x] = <<>>
                                 \/ \E h \in Hosts : \E r \in todo[h] : tags'[x] = r.tags,
         \A h \in Hosts : todo'[h] \subseteq todo[h]
  PROVE  Frozen(g)'
<1>1. PICK c \in Claims : /\ tags[g] = <<c>> /\ c.scope = Scope(g)
                          /\ \A h \in Hosts : g \in Visible(h) => c.port \in Slots(h)
                          /\ \A x \in Guests \ {g} : Lacks(tags[x], c)
                          /\ \A h \in Hosts : \A r \in todo[h] : r.guest # g /\ Lacks(r.tags, c)
  BY DEF Frozen
<1>2. Scope(g)' = Scope(g)
  BY DEF Scope, TagsType
<1>3. \A h \in Hosts : g \in Visible(h)' => g \in Visible(h)
  BY DEF Visible, Frozen
<1>4. Lacks(<<>>, c)
  BY DEF Lacks
<1>5. \A x \in Guests \ {g} : Lacks(tags'[x], c)
  BY <1>1, <1>4
<1>6. \A h \in Hosts : \A r \in todo'[h] : r.guest # g /\ Lacks(r.tags, c)
  BY <1>1
<1>7. \A h \in Hosts : Slots(h)' = Slots(h)
  BY DEF Slots
<1>8. tags'[g] = <<c>> /\ c.scope = Scope(g)' /\ \A h \in Hosts : g \in Visible(h)' => c.port \in Slots(h)'
  BY <1>1, <1>2, <1>3, <1>7
<1> QED
  BY <1>5, <1>6, <1>8 DEF Frozen, Lacks

LEMMA TagsInits == Init => TagsInv
<1> SUFFICES ASSUME Init PROVE TagsInv
  OBVIOUS
<1>1. /\ tags = [g \in Guests |-> <<>>] /\ shown = [h \in Hosts |-> [g \in Guests |-> NoPort]]
      /\ todo = [h \in Hosts |-> {}] /\ settled = {}
  BY DEF Init
<1>2. numbering \in {"cluster", "node"} /\ place \in [Guests -> Hosts \cup {Nowhere}]
  BY TagsAssumption DEF Init
<1>3. NoPort \in 0..NumPorts
  BY TagsAssumption DEF NoPort
<1>4. shown \in [Hosts -> [Guests -> 0..NumPorts]]
  BY <1>1, <1>3
<1>5. tags \in [Guests -> Seq(Claims)]
  BY <1>1
<1>6. TagsType
  BY <1>1, <1>2, <1>4, <1>5 DEF TagsType
<1> QED
  BY <1>1, <1>6 DEF TagsInv, OnePortEach

LEMMA PollKeeps == ASSUME TagsInv, NEW h \in Hosts, Poll(h) PROVE TagsInv'
<1> DEFINE ports == Ports(h)
<1>1. /\ shown' = [shown EXCEPT ![h] = ports] /\ todo' = [todo EXCEPT ![h] = Retags(h, ports)]
      /\ numbering' = numbering /\ place' = place /\ tags' = tags /\ settled' = settled
  BY DEF Poll, Ports
<1>2. TagsType
  BY DEF TagsInv
<1>3. ports \in [Guests -> 0..NumPorts] /\ Apart(ports)
  BY <1>2, PortsApart
<1> HIDE DEF ports
<1>4. \A r \in Retags(h, ports) :
        \E x \in Guests : /\ r = [guest |-> x, tags |-> Wanted(x, ports[x])]
                          /\ place[x] = h /\ tags[x] # Wanted(x, ports[x])
  BY DEF Retags
<1>5. \A x \in Guests : place[x] = h => Wanted(x, ports[x]) \in Seq(Claims)
  BY <1>2, <1>3, WantedClaims
<1>6. Retags(h, ports) \subseteq [guest : Guests, tags : Seq(Claims)]
  BY <1>4, <1>5
<1>7. TagsType'
  BY <1>1, <1>2, <1>3, <1>6 DEF TagsType
<1>8. OnePortEach'
  <2>1. \A k \in Hosts : shown'[k] = IF k = h THEN ports ELSE shown[k]
    BY <1>1, <1>2 DEF TagsType
  <2> QED
    BY <1>3, <2>1 DEF TagsInv, OnePortEach, Apart
<1>9. ASSUME NEW g \in settled PROVE Frozen(g)'
  <2>1. g \in Guests /\ Frozen(g)
    BY <1>2, <1>9 DEF TagsInv, TagsType
  <2>2. PICK c \in Claims : /\ tags[g] = <<c>> /\ c.scope = Scope(g)
                            /\ \A k \in Hosts : g \in Visible(k) => c.port \in Slots(k)
                            /\ \A x \in Guests \ {g} : Lacks(tags[x], c)
                            /\ \A k \in Hosts : \A r \in todo[k] : r.guest # g /\ Lacks(r.tags, c)
    BY <2>1 DEF Frozen
  <2>3. g \in Visible(h) => ports[g] = c.port /\ c.port # NoPort
    BY <1>2, <2>1, <2>2, FrozenPort, SlotsArePorts DEF ports
  <2>4. ASSUME NEW r \in Retags(h, ports) PROVE r.guest # g /\ Lacks(r.tags, c)
    <3>1. PICK x \in Guests : /\ r = [guest |-> x, tags |-> Wanted(x, ports[x])]
                              /\ place[x] = h /\ tags[x] # Wanted(x, ports[x])
      BY <1>4
    <3>2. ports[x] \in 0..NumPorts /\ h # Nowhere /\ x \in Visible(h)
      BY <1>3, <3>1, TagsAssumption DEF Visible
    <3>3. x # g
      <4> SUFFICES ASSUME x = g PROVE FALSE
        OBVIOUS
      <4>1. ports[g] = c.port /\ c.port # NoPort /\ ports[g] \in 0..NumPorts /\ place[g] \in Hosts
        BY <2>3, <3>1, <3>2
      <4>2. PICK d \in Claims : Wanted(g, ports[g]) = <<d>> /\ d.port = ports[g] /\ d.scope = Scope(g)
        BY <1>2, <2>1, <4>1, WantedClaims
      <4>3. d = c
        BY <2>2, <4>1, <4>2, SameClaim
      <4> QED
        BY <2>2, <3>1, <4>2, <4>3
    <3>4. Lacks(Wanted(x, ports[x]), c)
      <4>1. CASE ports[x] = NoPort
        <5>1. Wanted(x, ports[x]) = <<>>
          BY <1>2, <3>1, <3>2, <4>1, WantedClaims
        <5> QED
          BY <5>1 DEF Lacks
      <4>2. CASE ports[x] # NoPort
        <5>1. PICK d \in Claims : Wanted(x, ports[x]) = <<d>> /\ d.port = ports[x] /\ d.scope = Scope(x)
          BY <1>2, <3>1, <3>2, <4>2, WantedClaims
        <5>2. d # c
          <6> SUFFICES ASSUME d = c PROVE FALSE
            OBVIOUS
          <6>1. Scope(x) = Scope(g)
            BY <2>2, <5>1
          <6>2. g \in Visible(h)
            BY <1>2, <2>1, <3>1, <3>2, <6>1 DEF Visible, Scope, TagsType, Frozen
          <6>3. ports[g] = ports[x]
            BY <2>3, <5>1, <6>2
          <6> QED
            BY <1>3, <2>1, <3>3, <4>2, <6>3 DEF Apart
        <5> QED
          BY <5>1, <5>2 DEF Lacks
      <4> QED
        BY <4>1, <4>2
    <3> QED
      BY <3>1, <3>3, <3>4
  <2>5. \A k \in Hosts : todo'[k] = IF k = h THEN Retags(h, ports) ELSE todo[k]
    BY <1>1, <1>2 DEF TagsType
  <2>6. \A k \in Hosts : \A r \in todo'[k] : r.guest # g /\ Lacks(r.tags, c)
    BY <2>2, <2>4, <2>5
  <2>7. Scope(g)' = Scope(g) /\ \A k \in Hosts : Visible(k)' = Visible(k) /\ Slots(k)' = Slots(k)
    BY <1>1 DEF Scope, Visible, Slots
  <2> QED
    BY <1>1, <2>1, <2>2, <2>6, <2>7 DEF Frozen, Lacks
<1> QED
  BY <1>1, <1>7, <1>8, <1>9 DEF TagsInv

\* What every other step has in common.
LEMMA Kept ==
  ASSUME TagsInv, numbering' = numbering,
         place' \in [Guests -> Hosts \cup {Nowhere}], tags' \in [Guests -> Seq(Claims)],
         \A g \in Guests : place'[g] = Nowhere => tags'[g] = <<>>,
         \A h \in Hosts : shown'[h] = shown[h] \/ shown'[h] = [g \in Guests |-> NoPort],
         shown' = [h \in Hosts |-> shown'[h]], todo' = [h \in Hosts |-> todo'[h]],
         \A h \in Hosts : todo'[h] \subseteq todo[h],
         settled' \subseteq Guests, \A g \in settled' : Frozen(g)'
  PROVE  TagsInv'
<1>1. TagsType
  BY DEF TagsInv
<1>2. NoPort \in 0..NumPorts
  BY TagsAssumption DEF NoPort
<1>3. \A h \in Hosts : shown'[h] \in [Guests -> 0..NumPorts]
  BY <1>1, <1>2 DEF TagsType
<1>4. \A h \in Hosts : todo'[h] \in SUBSET [guest : Guests, tags : Seq(Claims)]
  BY <1>1 DEF TagsType
<1>5. shown' \in [Hosts -> [Guests -> 0..NumPorts]]
  BY <1>3
<1>6. todo' \in [Hosts -> SUBSET [guest : Guests, tags : Seq(Claims)]]
  BY <1>4
<1>7. TagsType'
  BY <1>1, <1>5, <1>6 DEF TagsType
<1>8. OnePortEach'
  BY DEF TagsInv, OnePortEach
<1> QED
  BY <1>7, <1>8 DEF TagsInv

LEMMA BridgeSteps ==
  ASSUME TagsInv, NEW h \in Hosts, Poll(h) \/ WriteTag(h) \/ Restart(h)
  PROVE  TagsInv' /\ \A g \in settled \cap settled' : tags'[g] = tags[g]
<1>1. TagsType /\ \A g \in settled : g \in Guests /\ Frozen(g)
  BY DEF TagsInv, TagsType
<1>2. CASE Poll(h)
  BY <1>2, PollKeeps DEF Poll
<1>3. CASE WriteTag(h)
  <2>1. PICK r \in todo[h] :
          /\ \/ (place[r.guest] = h /\ tags' = [tags EXCEPT ![r.guest] = r.tags]) \/ tags' = tags
          /\ todo' = [todo EXCEPT ![h] = @ \ {r}]
    BY <1>3 DEF WriteTag
  <2>2. UNCHANGED <<numbering, place, shown, settled>>
    BY <1>3 DEF WriteTag
  <2>3. r.guest \in Guests /\ r.tags \in Seq(Claims)
    BY <1>1, <2>1 DEF TagsType
  <2>4. /\ tags' \in [Guests -> Seq(Claims)]
        /\ \A x \in Guests : tags'[x] = tags[x] \/ (x = r.guest /\ place[x] = h /\ tags'[x] = r.tags)
    BY <1>1, <2>1, <2>3 DEF TagsType
  <2>5. /\ todo' = [k \in Hosts |-> todo'[k]] /\ \A k \in Hosts : todo'[k] \subseteq todo[k]
    BY <1>1, <2>1 DEF TagsType
  <2>6. \A g \in settled : tags'[g] = tags[g]
    <3> TAKE g \in settled
    <3>1. r.guest # g
      BY <1>1, <2>1 DEF Frozen
    <3> QED
      BY <1>1, <2>4, <3>1
  <2>7. ASSUME NEW g \in settled PROVE Frozen(g)'
    <3>1. place'[g] # Nowhere /\ g \in Guests /\ Frozen(g)
      BY <1>1, <2>2 DEF Frozen
    <3>2. \A x \in Guests \ {g} : tags'[x] = tags[x] \/ \E k \in Hosts : \E q \in todo[k] : tags'[x] = q.tags
      BY <2>1, <2>4
    <3> QED
      BY <1>1, <2>2, <2>5, <2>6, <3>1, <3>2, StaysFrozen
  <2>8. \A g \in Guests : place'[g] = Nowhere => tags'[g] = <<>>
    BY <2>2, <2>4, TagsAssumption DEF TagsInv
  <2>9. shown' = [k \in Hosts |-> shown'[k]] /\ place' \in [Guests -> Hosts \cup {Nowhere}] /\ settled' \subseteq Guests
    BY <1>1, <2>2 DEF TagsType
  <2> QED
    BY <2>2, <2>4, <2>5, <2>6, <2>7, <2>8, <2>9, Kept
<1>4. CASE Restart(h)
  <2>1. /\ shown' = [shown EXCEPT ![h] = [g \in Guests |-> NoPort]] /\ todo' = [todo EXCEPT ![h] = {}]
        /\ settled' = Settled /\ UNCHANGED <<numbering, place, tags>>
    BY <1>4 DEF Restart
  <2>2. shown' = [k \in Hosts |-> shown'[k]] /\ \A k \in Hosts : shown'[k] \in {shown[k], [g \in Guests |-> NoPort]}
    BY <1>1, <2>1 DEF TagsType
  <2>3. todo' = [k \in Hosts |-> todo'[k]] /\ \A k \in Hosts : todo'[k] \subseteq todo[k]
    BY <1>1, <2>1 DEF TagsType
  <2>4. settled' \subseteq Guests /\ \A g \in settled' : Frozen(g)
    BY <2>1, SettledFrozen
  <2>5. ASSUME NEW g \in settled' PROVE Frozen(g)'
    <3>1. place'[g] # Nowhere /\ g \in Guests /\ Frozen(g)
      BY <2>1, <2>4 DEF Frozen
    <3> QED
      BY <1>1, <2>1, <2>3, <3>1, StaysFrozen
  <2>6. place' \in [Guests -> Hosts \cup {Nowhere}] /\ tags' \in [Guests -> Seq(Claims)]
    BY <1>1, <2>1 DEF TagsType
  <2>7. \A g \in Guests : place'[g] = Nowhere => tags'[g] = <<>>
    BY <2>1 DEF TagsInv
  <2> QED
    BY <2>1, <2>2, <2>3, <2>4, <2>5, <2>6, <2>7, Kept
<1> QED
  BY <1>2, <1>3, <1>4

\* A step of the operators moves or retags one guest.
LEMMA OperatorSteps ==
  ASSUME TagsInv, Operators
  PROVE  TagsInv' /\ \A g \in settled \cap settled' : tags'[g] = tags[g]
<1>1. TagsType /\ \A g \in Settled : g \in Guests /\ Frozen(g)
  BY SettledFrozen DEF TagsInv
<1>2. \A g \in settled : g \in Guests /\ Frozen(g)
  BY DEF TagsInv, TagsType
<1>3. UNCHANGED <<numbering, shown, todo>>
  BY DEF Operators, Create, Migrate, Clone, Destroy, Tag
<1>4. ASSUME NEW x \in Guests, NEW to \in Hosts \cup {Nowhere}, NEW list \in Seq(Claims),
             place' = [place EXCEPT ![x] = to], tags' = [tags EXCEPT ![x] = list],
             to = Nowhere => list = <<>>, settled' \subseteq Settled,
             \/ settled' = {}
             \/ list = tags[x] /\ place[x] = Nowhere
             \/ list = tags[x] /\ to # Nowhere /\ (numbering = "node" => x \notin settled')
             \/ list = <<>> /\ x \notin settled'
      PROVE  TagsInv' /\ \A g \in settled \cap settled' : tags'[g] = tags[g]
  <2>1. /\ place' \in [Guests -> Hosts \cup {Nowhere}] /\ tags' \in [Guests -> Seq(Claims)]
        /\ \A g \in Guests : /\ place'[g] = IF g = x THEN to ELSE place[g]
                             /\ tags'[g] = IF g = x THEN list ELSE tags[g]
    BY <1>1, <1>4 DEF TagsType
  <2>2. \A g \in Guests : place'[g] = Nowhere => tags'[g] = <<>>
    BY <1>4, <2>1 DEF TagsInv
  <2>3. ASSUME NEW g \in settled' PROVE Frozen(g)' /\ tags'[g] = tags[g]
    <3>1. g \in Guests /\ Frozen(g) /\ place[g] # Nowhere
      BY <1>1, <1>4 DEF Frozen
    <3>2. tags'[g] = tags[g] /\ place'[g] # Nowhere /\ (numbering = "node" => place'[g] = place[g])
      BY <1>4, <2>1, <3>1
    <3>3. \A y \in Guests \ {g} : tags'[y] = tags[y] \/ tags'[y] = <<>>
      BY <1>4, <2>1
    <3>4. Frozen(g)'
      BY <1>1, <1>3, <3>1, <3>2, <3>3, StaysFrozen
    <3> QED
      BY <3>2, <3>4
  <2>4. shown' = [k \in Hosts |-> shown'[k]] /\ todo' = [k \in Hosts |-> todo'[k]] /\ settled' \subseteq Guests
    BY <1>1, <1>3, <1>4 DEF TagsType
  <2>5. TagsInv'
    BY <1>3, <2>1, <2>2, <2>3, <2>4, Kept
  <2> QED
    BY <2>3, <2>5
<1>5. \A x \in Guests : /\ tags[x] \in Seq(Claims) /\ place[x] \in Hosts \cup {Nowhere}
                        /\ tags = [tags EXCEPT ![x] = tags[x]] /\ place = [place EXCEPT ![x] = place[x]]
  BY <1>1 DEF TagsType
<1>6. ASSUME NEW g \in Guests, NEW h \in Hosts, Create(g, h) PROVE TagsInv' /\ \A x \in settled \cap settled' : tags'[x] = tags[x]
  <2>1. h \in Hosts \cup {Nowhere} /\ h # Nowhere /\ place[g] = Nowhere /\ place' = [place EXCEPT ![g] = h] /\ tags' = tags /\ settled' = Settled
    BY <1>6, TagsAssumption DEF Create
  <2> QED
    BY <1>4, <1>5, <2>1
<1>7. ASSUME NEW g \in Guests, NEW h \in Hosts, Migrate(g, h) PROVE TagsInv' /\ \A x \in settled \cap settled' : tags'[x] = tags[x]
  <2>1. /\ h \in Hosts \cup {Nowhere} /\ h # Nowhere /\ place' = [place EXCEPT ![g] = h] /\ tags' = tags
        /\ settled' \subseteq Settled /\ (numbering = "node" => g \notin settled')
    BY <1>7, TagsAssumption DEF Migrate
  <2> QED
    BY <1>4, <1>5, <2>1
<1>8. ASSUME NEW g \in Guests, NEW of \in Guests, NEW h \in Hosts, Clone(g, of, h)
      PROVE TagsInv' /\ \A x \in settled \cap settled' : tags'[x] = tags[x]
  <2>1. /\ h \in Hosts \cup {Nowhere} /\ h # Nowhere /\ place' = [place EXCEPT ![g] = h]
        /\ tags' = [tags EXCEPT ![g] = tags[of]] /\ settled' = {} /\ tags[of] \in Seq(Claims)
    BY <1>5, <1>8, TagsAssumption DEF Clone
  <2> QED
    BY <1>4, <2>1
<1>9. ASSUME NEW g \in Guests, Destroy(g) PROVE TagsInv' /\ \A x \in settled \cap settled' : tags'[x] = tags[x]
  <2>1. /\ place' = [place EXCEPT ![g] = Nowhere] /\ tags' = [tags EXCEPT ![g] = <<>>]
        /\ settled' \subseteq Settled /\ g \notin settled' /\ <<>> \in Seq(Claims) /\ Nowhere \in Hosts \cup {Nowhere}
    BY <1>9 DEF Destroy
  <2> QED
    BY <1>4, <2>1
<1>10. ASSUME NEW g \in Guests, NEW c \in EditClaims, Tag(g, c) PROVE TagsInv' /\ \A x \in settled \cap settled' : tags'[x] = tags[x]
  <2>1. c \in Claims /\ place[g] # Nowhere /\ place' = place /\ settled' = {}
    BY <1>10, TagsAssumption DEF Tag
  <2>2. PICK s \in {<<c>>, <<c>> \o tags[g]} : tags' = [tags EXCEPT ![g] = s]
    BY <1>10 DEF Tag
  <2>3. s \in Seq(Claims)
    <3> DEFINE one == <<c>>
    <3>1. one \in Seq(Claims) /\ tags[g] \in Seq(Claims)
      BY <1>5, <2>1
    <3>2. s = one \/ s = one \o tags[g]
      BY <2>2
    <3> HIDE DEF one
    <3>3. one \o tags[g] \in Seq(Claims)
      BY <3>1, ConcatProperties
    <3> QED
      BY <3>1, <3>2, <3>3
  <2>4. place' = [place EXCEPT ![g] = place[g]] /\ place[g] \in Hosts \cup {Nowhere}
    BY <1>5, <2>1
  <2> QED
    BY <1>4, <2>1, <2>2, <2>3, <2>4
<1> QED
  BY <1>6, <1>7, <1>8, <1>9, <1>10 DEF Operators

LEMMA TagsSteps ==
  ASSUME TagsInv, [TagsStep \/ NodeStep]_driverVars
  PROVE  TagsInv' /\ [\A g \in settled \cap settled' : tags'[g] = tags[g]]_vars
<1>1. CASE TagsStep
  BY <1>1, BridgeSteps, OperatorSteps DEF TagsStep, OfTags, Next, Bridges
<1>2. CASE ~TagsStep
  <2>1. UNCHANGED vars
    BY <1>2 DEF NodeStep, OfNode, driverVars
  <2>2. UNCHANGED <<numbering, place, tags, shown, todo, settled>>
    BY <2>1 DEF vars
  <2>3. \A g \in Guests : Frozen(g) => Frozen(g)'
    BY <2>2 DEF Frozen, Scope, Visible, Slots, Lacks
  <2>4. TagsInv'
    BY <2>2, <2>3 DEF TagsInv, TagsType, OnePortEach
  <2> QED
    BY <2>1, <2>4
<1> QED
  BY <1>1, <1>2

(***************************************************************************)
(* The theorems.                                                            *)
(***************************************************************************)
\* For every cluster and any number of clones, moves, hand edits, failed
\* writes and restarts: no bridge shows two guests on one port (assignPorts).
THEOREM PortsAreDistinct == DriverSpec => []OnePortEach
<1>1. DriverInit => TagsInv
  BY TagsInits DEF DriverInit
<1>2. ASSUME TagsInv, [TagsStep \/ NodeStep]_driverVars PROVE TagsInv'
  BY <1>2, TagsSteps
<1>3. TagsInv => OnePortEach
  BY DEF TagsInv
<1> QED
  BY <1>1, <1>2, <1>3, PTL DEF DriverSpec

\* For every cluster: from the moment all bridges agree on a guest's number no
\* bridge rewrites it, through moves, new and destroyed guests, stale rewrites,
\* failed writes and restarts, until someone clones a guest or edits a tag
\* (assignPorts, retags).
THEOREM AgreedPortsStay == DriverSpec => KeepsPort
<1>1. DriverInit => TagsInv
  BY TagsInits DEF DriverInit
<1>2. ASSUME TagsInv, [TagsStep \/ NodeStep]_driverVars
      PROVE  TagsInv' /\ [\A g \in settled \cap settled' : tags'[g] = tags[g]]_vars
  BY <1>2, TagsSteps
<1> QED
  BY <1>1, <1>2, PTL DEF DriverSpec, KeepsPort

=============================================================================

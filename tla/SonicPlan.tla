------------------------------ MODULE SonicPlan ------------------------------
(***************************************************************************)
(* The SONiC driver's write path: one inform cycle collects the switch,     *)
(* creates the VLANs of the push (EnsureVLANs), brings the ACL binding and  *)
(* the snooping tables in line (ApplyDevice), plans the ports as a diff     *)
(* against its copy of CONFIG_DB, runs the plan as one `set -e` batch, and  *)
(* brings binding and snooping in line again (ApplyPorts).  The driver      *)
(* never reads back what it wrote: on success the plan's own copy becomes   *)
(* its view.  A command the switch refuses, or a lost connection, stops the *)
(* batch where it is.                                                       *)
(*                                                                         *)
(* Left out: the wording of notes, config save, the YANG preconditions of a *)
(* breakout (MGMT rows, NTP source), switches without platform.json, copper *)
(* autonegotiation and mirror-incapable SAIs.                               *)
(***************************************************************************)
EXTENDS SonicSwitch

CONSTANTS Module,      \* cage -> the configurations its module runs, native first; <<>> if none
          Pushes,      \* the configs the controller may push
          MaxPushes,   \* how many it pushes
          MaxFaults,   \* lost connections, failed collects and changes by hand
          None         \* no value yet

VARIABLES
  sw,      \* CONFIG_DB on the switch
  view,    \* Collector.state, the driver's copy of it
  last,    \* of Collector.last: cage -> its lanes in order, and the lowest port MTU
  site,    \* Collector.siteVLANs, or None
  push,    \* the push the loop applies, or None
  stage,   \* where the cycle is
  ops,     \* what is left of the running batch
  sim,     \* the plan's copy, the view once the batch has run
  running, \* a batch is on the switch
  fresh,   \* this cycle collected, and nothing but its own batches happened since
  done,    \* the last cycle ran to the end and nothing happened since
  tries,   \* undisturbed cycles in a row that did not run to the end
  pushes, faults

vars == <<sw, view, last, site, push, stage, ops, sim, running, fresh, done, tries, pushes, faults>>

(***************************************************************************)
(* The plan: a copy of CONFIG_DB, the commands so far, the cages' lanes.    *)
(***************************************************************************)
Ascending(S) == SetToSortSeq(S, LAMBDA a, b : a < b)

\* Mutant: the plan forgets that -f removes the cage's VLAN memberships.
BreakoutKeepsMembers(s, c, m) ==
  LET gone == CagePorts(s, c)
  IN [s EXCEPT !.mode[c] = m,
        !.port = [l \in Children(c, m) |-> NewPort(m, 0)] @@ [l \in DOMAIN @ \ gone |-> @[l]],
        !.lags = [pc \in DOMAIN @ |-> [@[pc] EXCEPT !.members = @ \ gone]]]

\* swState.applyBreakout: the driver's own account of a breakout.  It leaves
\* the ACL list, the mirror sessions and the static groups as they are.
BreakoutInPlan(s, c, m) ==
  LET gone == CagePorts(s, c)
  IN [s EXCEPT !.mode[c] = m,
        !.port = [l \in Children(c, m) |-> NewPort(m, 0)] @@ [l \in DOMAIN @ \ gone |-> @[l]],
        !.members = {x \in @ : x.iface \notin gone},
        !.lags = [pc \in DOMAIN @ |-> [@[pc] EXCEPT !.members = @ \ gone]]]

Add(pl, o) == [pl EXCEPT !.ops = Append(@, o), !.sim = Effect(@, o)]
AddIf(cond, pl, o) == IF cond THEN Add(pl, o) ELSE pl

AddBreakout(pl, c, m) ==
  LET s == BreakoutInPlan(pl.sim, c, m)
  IN [pl EXCEPT !.ops = Append(@, [op |-> "breakout", cage |-> c, val |-> m]),
                !.sim = s, !.lanes[c] = Ascending(CagePorts(s, c))]

\* UniFi's VLAN 1 is Vlan<native_vlan> here.
SonicID(v) == IF v = 1 THEN NativeVlan ELSE v

Collides(d) == d.native = NativeVlan \/ NativeVlan \in d.tagged
TagsVlan1(d) == d.native # 1 /\ 1 \in d.tagged

(***************************************************************************)
(* Mirror sessions.                                                         *)
(***************************************************************************)
MirrorOK(d) == d.mirror \in Cages \ {d.cage}
MirrorSource(pl, d) == ToSet(pl.lanes[d.mirror])
AsWanted(pl, d, m) == d.mirror > 0 /\ MirrorOK(d) /\ m.src = MirrorSource(pl, d)

MirrorRemoval(pl, d) ==
  LET cur == MirrorTo(pl.sim, Head(pl.lanes[d.cage]))
  IN IF cur = {} THEN pl
     ELSE LET m == CHOOSE x \in cur : \A y \in cur : x.name <= y.name
          IN AddIf(~AsWanted(pl, d, m), pl, [op |-> "mirrorDel", name |-> m.name])

(***************************************************************************)
(* VLAN membership.                                                         *)
(***************************************************************************)
\* One command for all of ids: -e when they are every VLAN but the native
\* one and the port's untagged one.  A deletion first takes the port out of
\* the static groups.
VlanMembers(pl, iface, verb, ids, tagged, others) ==
  LET except == pl.sim.vlans \ ids
      skip == IF /\ Cardinality(ids) > 1
                 /\ NativeVlan \in except
                 /\ except \subseteq {NativeVlan} \cup others
              THEN except ELSE {}
      statics == IF verb = "memberDel" THEN {r \in pl.sim.statics : r.iface = iface /\ r.vid \in ids} ELSE {}
      cleared == FoldSet(LAMBDA r, p : Add(p, [op |-> "staticDel", row |-> r]), pl, statics)
  IN AddIf(ids # {}, IF ids = {} THEN pl ELSE cleared,
           [op |-> verb, iface |-> iface, ids |-> ids, tagged |-> tagged, skip |-> skip])

StripVLANs(pl, iface) == VlanMembers(pl, iface, "memberDel", MemberIDs(pl.sim, iface), FALSE, {})

Untagged(d) == IF d.native = 0 THEN {} ELSE {SonicID(d.native)}
Tagged(pl, d) ==
  (IF d.all THEN pl.site \ {NativeVlan} ELSE {SonicID(v) : v \in d.tagged}) \ (Untagged(d) \cup {1})

\* The memberships d asks for, of VLANs that exist.
WantVLANs(pl, d) ==
  {[vid |-> v, tagged |-> FALSE] : v \in Untagged(d) \cap pl.sim.vlans}
  \cup {[vid |-> v, tagged |-> TRUE] : v \in Tagged(pl, d) \cap pl.sim.vlans}

SetsVLANs(d) == ~TagsVlan1(d) /\ (d.native # 0 \/ d.all \/ d.tagged # {})

SyncVLANs(pl, iface, d) ==
  LET want == WantVLANs(pl, d)
      have == {[vid |-> m.vid, tagged |-> m.tagged] : m \in MembersOf(pl.sim, iface)}
      Ids(S, t) == {x.vid : x \in {y \in S : y.tagged = t}}
      after == Ids(want, FALSE)
      going == Ids(have \ want, FALSE)
      p1 == VlanMembers(pl, iface, "memberDel", Ids(have \ want, TRUE), TRUE, after \cup going)
      p2 == VlanMembers(p1, iface, "memberDel", going, FALSE, {})
      p3 == VlanMembers(p2, iface, "memberAdd", Ids(want \ have, FALSE), FALSE, {})
  IN IF SetsVLANs(d) THEN VlanMembers(p3, iface, "memberAdd", Ids(want \ have, TRUE), TRUE, after) ELSE pl

(***************************************************************************)
(* Per-port state.                                                          *)
(***************************************************************************)
LaneSpeeds(pl, c, v) ==
  FoldLeft(LAMBDA p, l : AddIf(Field(p.sim, l).speed # v, p, [op |-> "speed", iface |-> l, val |-> v]),
           pl, pl.lanes[c])

\* Why a cage cannot be broken out now: -f would silently take it out of its
\* aggregate or mirror session.
BreakoutBlocked(pl, d) ==
  \/ d.lag > 0 \/ d.mirror > 0
  \/ \E l \in CagePorts(pl.sim, d.cage) :
       LagOf(pl.sim, l) # {} \/ \E m \in pl.sim.mirrors : l = m.dst \/ l \in m.src

\* want: a speed and, for a module, the number of ports.
BreakoutSpeed(pl, d, want) ==
  LET Fits(m) == want.speed \in ModeSpeeds(m) /\ want.ports \in {0, m}
      fitting == {m \in Modes : Fits(m)}
      target == CHOOSE m \in fitting :
                  \A n \in fitting : \/ ModeDefault(m) = want.speed
                                     \/ ModeDefault(n) # want.speed /\ m <= n
  IN IF Fits(pl.sim.mode[d.cage]) THEN LaneSpeeds(pl, d.cage, want.speed)
     ELSE IF fitting = {} \/ BreakoutBlocked(pl, d) THEN pl
     ELSE LaneSpeeds(AddBreakout(pl, d.cage, target), d.cage, want.speed)

\* The cage's configuration: its ports and their one speed, 0 if they differ.
LaneCfg(pl, c) ==
  LET speeds == {Field(pl.sim, l).speed : l \in ToSet(pl.lanes[c])}
  IN [ports |-> Len(pl.lanes[c]), speed |-> IF Cardinality(speeds) = 1 THEN Max(speeds) ELSE 0]

\* "auto": what the module runs, else the highest speed of an unsplit cage.
AutoSpeed(pl, d) ==
  IF Module[d.cage] # <<>>
  THEN IF LaneCfg(pl, d.cage) \in ToSet(Module[d.cage]) THEN pl
       ELSE BreakoutSpeed(pl, d, Head(Module[d.cage]))
  ELSE IF Len(pl.lanes[d.cage]) > 1 THEN pl
  ELSE BreakoutSpeed(pl, d, [ports |-> 0, speed |-> Max(UNION {ModeSpeeds(m) : m \in Modes})])

Speed(pl, d) ==
  IF d.speed = 0 THEN AutoSpeed(pl, d) ELSE BreakoutSpeed(pl, d, [ports |-> 0, speed |-> d.speed])

\* A LAG member runs at its PortChannel's MTU, and the CLI refuses to change
\* its own: the PortChannel moves through CONFIG_DB and the member with it.
LaneMTU(pl, d, l) ==
  LET lag == LagOf(pl.sim, l)
      differs == Field(pl.sim, l).mtu # d.mtu
      pcMtu(pc) == [op |-> "pcMtu", pc |-> pc, val |-> d.mtu]
      own == [op |-> "portMtu", iface |-> l, val |-> d.mtu]
  IN IF lag = {} THEN AddIf(differs, pl, [op |-> "mtu", iface |-> l, val |-> d.mtu])
     ELSE LET pc == CHOOSE x \in lag : TRUE
          IN IF pl.sim.lags[pc].mtu # d.mtu THEN AddIf(differs, Add(pl, pcMtu(pc)), own)
             ELSE AddIf(differs /\ pcMtu(pc) \in ToSet(pl.ops), pl, own)

\* Mutant: a rate is written again whether or not it differs.
StormAlways(pl, d, l) ==
  LET cleared == AddIf(Field(pl.sim, l).storm # 0, pl, [op |-> "stormDel", iface |-> l])
  IN Add(cleared, [op |-> "stormAdd", iface |-> l, val |-> d.storm * Field(pl.sim, l).speed])

\* A rate is a percentage of the configured speed; a changed one is deleted first.
Storm(pl, d, l) ==
  LET want == d.storm * Field(pl.sim, l).speed
      have == Field(pl.sim, l).storm
      cleared == AddIf(have # 0, pl, [op |-> "stormDel", iface |-> l])
  IN IF want = have THEN pl ELSE AddIf(want # 0, cleared, [op |-> "stormAdd", iface |-> l, val |-> want])

LaneState(pl, d, l) ==
  LET admin == AddIf(Field(pl.sim, l).up # d.up, pl, [op |-> "admin", iface |-> l, val |-> d.up])
  IN Storm(LaneMTU(admin, d, l), d, l)

\* The speed first: a breakout replaces the lanes the rest is written on.
PortState(pl, d) ==
  LET p == Speed(pl, d) IN FoldLeft(LAMBDA q, l : LaneState(q, d, l), p, p.lanes[d.cage])

(***************************************************************************)
(* Aggregates.                                                              *)
(***************************************************************************)
LagLeaves(pl, d) ==
  FoldLeft(LAMBDA p, l :
             LET out == LagOf(p.sim, l) \ (IF d.lag > 0 THEN {PortChannel(d.lag)} ELSE {})
             IN FoldSet(LAMBDA pc, q : Add(q, [op |-> "lagDel", pc |-> pc, iface |-> l]), p, out),
           pl, pl.lanes[d.cage])

\* The joining lanes leave the driver's ACL table, which binds every port.
AclUnbind(pl, joining) ==
  LET keep == pl.sim.acl \ joining
  IN AddIf(keep # pl.sim.acl /\ keep # {}, pl, [op |-> "aclBind", ports |-> keep])

\* Mutant: the lane joins with the VLANs it has.
JoinUnstripped(pl, pc, l) ==
  LET made == AddIf(pc \notin DOMAIN pl.sim.lags, pl, [op |-> "pcAdd", pc |-> pc])
  IN Add(made, [op |-> "lagAdd", pc |-> pc, iface |-> l])

\* A PortChannel that is missing is made; the MTUs must agree, so an empty
\* PortChannel takes the lane's and a lane takes that of one with members.
JoinLane(pl, pc, l) ==
  LET made == AddIf(pc \notin DOMAIN pl.sim.lags, pl, [op |-> "pcAdd", pc |-> pc])
      mtu == Field(made.sim, l).mtu
      lag == made.sim.lags[pc]
      levelled == IF mtu \in {0, lag.mtu} THEN made
                  ELSE IF lag.members = {} THEN Add(made, [op |-> "pcMtu", pc |-> pc, val |-> mtu])
                  ELSE Add(made, [op |-> "mtu", iface |-> l, val |-> lag.mtu])
  IN Add(StripVLANs(levelled, l), [op |-> "lagAdd", pc |-> pc, iface |-> l])

Joining(pl, pc, d) ==
  SelectSeq(pl.lanes[d.cage], LAMBDA l : pc \notin DOMAIN pl.sim.lags \/ l \notin pl.sim.lags[pc].members)

\* The PortChannel carries the VLAN intent of its first member.
JoinLag(pl, pc, members) ==
  LET joined == FoldLeft(LAMBDA p, d : FoldLeft(LAMBDA q, l : JoinLane(q, pc, l), p, Joining(p, pc, d)), pl, members)
      lacp == AddIf(~joined.sim.lags[pc].own, joined, [op |-> "pcLacp", pc |-> pc])
  IN SyncVLANs(lacp, pc, members[1])

\* Mutant: a PortChannel a cut-off batch left without members stays.
UnwantedEmptied(pl, ds) ==
  {pc \in DOMAIN pl.sim.lags :
     /\ pl.sim.lags[pc].members = {}
     /\ \A i \in DOMAIN ds : ds[i].lag = 0 \/ PortChannel(ds[i].lag) # pc
     /\ \E i \in DOMAIN pl.ops : pl.ops[i].op = "lagDel" /\ pl.ops[i].pc = pc}

\* A memberless PortChannel nobody wants goes if this plan emptied it or the
\* driver made it; one made by hand stays.
Unwanted(pl, ds) ==
  {pc \in DOMAIN pl.sim.lags :
     /\ pl.sim.lags[pc].members = {}
     /\ \A i \in DOMAIN ds : ds[i].lag = 0 \/ PortChannel(ds[i].lag) # pc
     /\ \/ pl.sim.lags[pc].own
        \/ \E i \in DOMAIN pl.ops : pl.ops[i].op = "lagDel" /\ pl.ops[i].pc = pc}

LagJoins(pl, ds) ==
  LET lags == Ascending({ds[i].lag : i \in DOMAIN ds} \ {0})
      Members(n) == SelectSeq(ds, LAMBDA d : d.lag = n)
      joining == UNION {ToSet(Joining(pl, PortChannel(ds[i].lag), ds[i])) : i \in {j \in DOMAIN ds : ds[j].lag > 0}}
      joined == FoldLeft(LAMBDA p, n : JoinLag(p, PortChannel(n), Members(n)), AclUnbind(pl, joining), lags)
  IN FoldLeft(LAMBDA p, pc : Add(StripVLANs(p, pc), [op |-> "pcDel", pc |-> pc]),
              joined, Ascending(Unwanted(joined, ds)))

\* SONiC refuses a mirror destination with VLAN config.
MirrorAdd(pl, d) ==
  LET dst == Head(pl.lanes[d.cage])
      cleared == AddIf(\E m \in pl.sim.mirrors : m.name = d.cage, pl, [op |-> "mirrorDel", name |-> d.cage])
  IN IF d.mirror = 0 \/ ~MirrorOK(d) \/ (\E m \in MirrorTo(pl.sim, dst) : AsWanted(pl, d, m)) THEN pl
     ELSE Add(StripVLANs(cleared, dst),
              [op |-> "mirrorAdd", name |-> d.cage, dst |-> dst, src |-> MirrorSource(pl, d)])

\* The managed VLANs follow the ports' MTU, in CONFIG_DB and in the kernel
\* (which a VLAN's netdev takes no further than the Bridge's).
VlanMTUs(pl, ds) ==
  LET want == Min({ds[i].mtu : i \in DOMAIN ds})
      kernel == Min({want, BridgeMTU})
      One(p, v) ==
        LET cfg == AddIf(p.sim.vmtu[v] # want /\ (p.sim.vmtu[v] # 0 \/ want # DefaultMTU), p,
                         [op |-> "vlanMtu", vid |-> v, val |-> want])
        IN AddIf(v \in DOMAIN cfg.sim.kmtu /\ cfg.sim.kmtu[v] # kernel, cfg,
                 [op |-> "kernelMtu", vid |-> v, val |-> kernel])
  IN IF ds = <<>> THEN pl ELSE FoldLeft(One, pl, Ascending(({NativeVlan} \cup pl.site) \cap pl.sim.vlans))

(***************************************************************************)
(* newPlan: the phases in their order.                                      *)
(***************************************************************************)
NewPlan(s, ls, st, desired) ==
  LET ds == SelectSeq(desired, LAMBDA d : ~Collides(d))
      start == [sim |-> s, ops |-> <<>>, lanes |-> ls, site |-> IF st = None THEN s.vlans \ {NativeVlan} ELSE st]
      mirrors == FoldLeft(MirrorRemoval, start, ds)
      left == FoldLeft(LagLeaves, mirrors, ds)
      states == FoldLeft(PortState, left, ds)
      vlans == FoldLeft(LAMBDA p, d : FoldLeft(LAMBDA q, l : SyncVLANs(q, l, d), p, p.lanes[d.cage]),
                        states, SelectSeq(ds, LAMBDA d : d.lag = 0 /\ d.mirror = 0))
      joined == LagJoins(vlans, ds)
  IN VlanMTUs(FoldLeft(MirrorAdd, joined, ds), ds)

(***************************************************************************)
(* The other batches of a cycle.                                            *)
(***************************************************************************)
\* A list that names the stand-in is refused whole.
VlanIDs == {SonicID(v) : v \in push.vlans}
MissingVLANs == IF NativeVlan \in push.vlans THEN {} ELSE VlanIDs \ view.vlans

\* A new VLAN takes the ports' lowest MTU from the start.
VlanBatch ==
  LET made == [sim |-> [view EXCEPT !.vlans = @ \cup MissingVLANs, !.vmtu = [v \in MissingVLANs |-> 0] @@ @],
               ops |-> <<[op |-> "vlanAdd", ids |-> MissingVLANs]>>]
  IN IF MissingVLANs = {} THEN [sim |-> view, ops |-> <<>>]
     ELSE IF last.mtu \in {0, DefaultMTU} THEN made
     ELSE FoldLeft(LAMBDA p, v : Add(p, [op |-> "vlanMtu", vid |-> v, val |-> last.mtu]), made, Ascending(MissingVLANs))

\* Mutant: a table that exists is not bound again.
AclBoundOnce ==
  LET start == [sim |-> view, ops |-> <<>>]
  IN IF ~push.acl THEN AddIf(view.acl # {}, start, [op |-> "aclDrop"])
     ELSE AddIf(view.acl = {}, start, [op |-> "aclBind", ports |-> Bindable(view)])

AclBatch ==
  LET start == [sim |-> view, ops |-> <<>>]
  IN IF ~push.acl THEN AddIf(view.acl # {}, start, [op |-> "aclDrop"])
     ELSE AddIf(view.acl # Bindable(view), start, [op |-> "aclBind", ports |-> Bindable(view)])

\* The wanted rows; the reserved groups name every member of a snooping VLAN.
WantRows == {SonicID(v) : v \in push.snoop} \cap view.vlans
WantStatics == {[iface |-> m.iface, vid |-> m.vid] : m \in {x \in view.members : x.vid \in WantRows}}

\* Members go before rows, rows are set before members.
IgmpBatch ==
  LET p1 == AddIf(view.statics \ WantStatics # {}, [sim |-> view, ops |-> <<>>],
                  [op |-> "staticsDel", rows |-> view.statics \ WantStatics])
      p2 == AddIf(view.rows \ WantRows # {}, p1, [op |-> "rowsDel", rows |-> view.rows \ WantRows])
      p3 == AddIf(WantRows \ view.rows # {}, p2, [op |-> "rowsSet", rows |-> WantRows \ view.rows])
  IN AddIf(WantStatics \ view.statics # {}, p3, [op |-> "staticsSet", rows |-> WantStatics \ view.statics])

Batch ==
  CASE stage = "vlans" -> VlanBatch
    [] stage \in {"devAcl", "acl"} -> AclBatch
    [] stage \in {"devIgmp", "igmp"} -> IgmpBatch
    [] stage = "ports" -> NewPlan(view, last.lanes, site, push.ports)

\* ensureVLANs and ApplyDevice are logged when they fail; ApplyPorts ends the cycle.
AfterStage == [vlans |-> "devAcl", devAcl |-> "devIgmp", devIgmp |-> "ports",
               ports |-> "acl", acl |-> "igmp", igmp |-> "idle"]
AfterFailure == [vlans |-> "devAcl", devAcl |-> "ports", devIgmp |-> "ports",
                 ports |-> "idle", acl |-> "idle", igmp |-> "idle"]

(***************************************************************************)
(* The cycle.                                                               *)
(***************************************************************************)
\* A switch with its factory L2 preset and one PortChannel made by hand.
FactorySwitch ==
  [mode |-> [c \in Cages |-> 1],
   port |-> [l \in {Lane(c, 0) : c \in Cages} |-> [NewPort(1, DefaultMTU) EXCEPT !.up = TRUE]],
   vlans |-> {NativeVlan}, vmtu |-> (NativeVlan :> 0), kmtu |-> (NativeVlan :> BridgeMTU),
   members |-> {[iface |-> Lane(c, 0), vid |-> NativeVlan, tagged |-> FALSE] : c \in Cages},
   lags |-> (PortChannel(2) :> [mtu |-> 1500, own |-> FALSE, members |-> {}]),
   mirrors |-> {}, acl |-> {}, rows |-> {}, statics |-> {}]

Init ==
  /\ sw = FactorySwitch
  /\ view = None /\ last = None /\ site = None /\ push = None
  /\ stage = "idle" /\ ops = <<>> /\ sim = None /\ running = FALSE
  /\ fresh = FALSE /\ done = FALSE /\ tries = 0 /\ pushes = 0 /\ faults = 0

\* Collector.build reads every section and replaces both copies.
Collect ==
  /\ stage = "idle" /\ push # None
  /\ view' = sw
  /\ last' = [lanes |-> [c \in Cages |-> Ascending(CagePorts(sw, c))],
              mtu |-> Min({sw.port[l].mtu : l \in DOMAIN sw.port})]
  /\ stage' = "vlans" /\ fresh' = TRUE
  /\ UNCHANGED <<sw, site, push, ops, sim, running, done, tries, pushes, faults>>

\* The loop goes on with the last snapshot when a collect fails.
CollectFailed ==
  /\ stage = "idle" /\ view # None /\ faults < MaxFaults
  /\ stage' = "vlans" /\ fresh' = FALSE /\ done' = FALSE /\ tries' = 0 /\ faults' = faults + 1
  /\ UNCHANGED <<sw, view, last, site, push, ops, sim, running, pushes>>

Plan ==
  /\ stage # "idle" /\ ~running
  /\ site' = IF stage = "vlans" /\ NativeVlan \notin push.vlans THEN VlanIDs \ {NativeVlan} ELSE site
  /\ \E b \in {Batch} : ops' = b.ops /\ sim' = b.sim
  /\ running' = TRUE
  /\ UNCHANGED <<sw, view, last, push, stage, fresh, done, tries, pushes, faults>>

RunOp ==
  /\ running /\ ops # <<>> /\ ~Refuses(sw, Head(ops))
  /\ sw' = RunOn(sw, Head(ops)) /\ ops' = Tail(ops)
  /\ UNCHANGED <<view, last, site, push, stage, sim, running, fresh, done, tries, pushes, faults>>

\* The batch has run: the plan's copy is the view.  The cycle is done after
\* the last one, if every one of them ran.
Commit ==
  /\ running /\ ops = <<>>
  /\ view' = sim /\ running' = FALSE /\ sim' = None /\ stage' = AfterStage[stage]
  /\ done' = (done \/ (stage = "igmp" /\ fresh))
  /\ tries' = IF stage = "igmp" /\ fresh THEN 0 ELSE tries
  /\ UNCHANGED <<sw, last, site, push, ops, fresh, pushes, faults>>

\* The driver's view stays what it was before the batch.
Stop ==
  /\ running' = FALSE /\ ops' = <<>> /\ sim' = None /\ stage' = AfterFailure[stage]
  /\ fresh' = FALSE /\ done' = FALSE
  /\ UNCHANGED <<sw, view, last, site, push, pushes>>

Refused ==
  /\ running /\ ops # <<>> /\ Refuses(sw, Head(ops))
  /\ tries' = IF fresh THEN tries + 1 ELSE tries
  /\ Stop /\ UNCHANGED faults

ConnectionLost ==
  /\ running /\ ops # <<>> /\ faults < MaxFaults
  /\ faults' = faults + 1 /\ tries' = 0
  /\ Stop

\* An operator at the controller: only between cycles, which the one loop
\* goroutine takes in turn.
Push(p) ==
  /\ stage = "idle" /\ pushes < MaxPushes /\ p # push
  /\ push' = p /\ pushes' = pushes + 1 /\ done' = FALSE /\ tries' = 0
  /\ UNCHANGED <<sw, view, last, site, stage, ops, sim, running, fresh, faults>>

\* A VLAN somebody makes on the switch, at any moment.
AddVlanByHand(v) ==
  /\ faults < MaxFaults /\ v \notin sw.vlans
  /\ sw' = RunOn(sw, [op |-> "vlanAdd", ids |-> {v}])
  /\ faults' = faults + 1 /\ fresh' = FALSE /\ done' = FALSE /\ tries' = 0
  /\ UNCHANGED <<view, last, site, push, stage, ops, sim, running, pushes>>

Next ==
  \/ Collect \/ CollectFailed \/ Plan \/ RunOp \/ Commit \/ Refused \/ ConnectionLost
  \/ \E p \in Pushes : Push(p)
  \/ AddVlanByHand(NativeVlan + 1)

Spec == Init /\ [][Next]_vars

(***************************************************************************)
(* Properties.                                                              *)
(***************************************************************************)
\* What both copies must agree on: a port without an MTU runs at 9100.
Config(s) ==
  [mode |-> s.mode, vlans |-> s.vlans, vmtu |-> s.vmtu, members |-> s.members, lags |-> s.lags,
   mirrors |-> s.mirrors, rows |-> s.rows, statics |-> s.statics,
   port |-> [l \in DOMAIN s.port |-> [s.port[l] EXCEPT !.mtu = IF @ = 0 THEN DefaultMTU ELSE @]]]

\* The driver never reads back a write: after each batch of an undisturbed
\* cycle its computed copy of CONFIG_DB is the switch's, the ACL binding too
\* once the cycle has ended (a breakout's -f changes that list behind it).
ViewIsSwitch ==
  /\ fresh /\ ~running => Config(view) = Config(sw)
  /\ done /\ stage = "idle" => view.acl = sw.acl

\* The switch refuses no command of a plan made from a fresh collect: the
\* order of the phases clears every dependency SONiC checks (members before
\* an aggregate, VLANs before a mirror, static groups before a membership,
\* MTUs before a join).  The ACL unbind inside the port batch is excepted:
\* its list may name a lane or PortChannel that the same plan removed.
BatchAccepted ==
  fresh /\ running /\ ops # <<>> /\ ~(stage = "ports" /\ Head(ops).op = "aclBind") => ~Refuses(sw, Head(ops))

\* "A second apply of the same intent runs no command" (sonic.md 7): after a
\* cycle that ran to the end, no batch holds a command, but for the kernel
\* MTU of a VLAN only the next collect sees.
SecondApplyEmpty ==
  done /\ running => \A i \in DOMAIN ops : ops[i].op = "kernelMtu"

\* The VLAN memberships a push asks of an interface.
Asked(d) ==
  {[vid |-> SonicID(d.native), tagged |-> FALSE]}
  \cup {[vid |-> SonicID(v), tagged |-> TRUE] : v \in (IF d.all THEN push.vlans \ {1} ELSE d.tagged) \ {d.native}}

Carries(i, d) ==
  SetsVLANs(d) => {[vid |-> m.vid, tagged |-> m.tagged] : m \in MembersOf(sw, i)} = {x \in Asked(d) : x.vid \in sw.vlans}

FirstOf(n) == push.ports[Min({i \in DOMAIN push.ports : push.ports[i].lag = n /\ ~Collides(push.ports[i])})]

\* The switch holds what port intent d says.
Holds(d) ==
  LET ls == CagePorts(sw, d.cage)
      mirrored == \E m \in sw.mirrors : ls \cap m.src # {}
  IN /\ \A l \in ls : sw.port[l].up = d.up /\ sw.port[l].mtu = d.mtu
                       /\ sw.port[l].storm = d.storm * sw.port[l].speed
     /\ d.speed # 0 /\ d.lag = 0 /\ d.mirror = 0 /\ ~mirrored => \A l \in ls : sw.port[l].speed = d.speed
     /\ \A l \in ls : LagOf(sw, l) = IF d.lag > 0 THEN {PortChannel(d.lag)} ELSE {}
     /\ IF d.lag > 0 THEN Carries(PortChannel(d.lag), FirstOf(d.lag))
        ELSE IF d.mirror > 0 THEN
             \E m \in sw.mirrors : m.dst = Lane(d.cage, 0) /\ m.src = CagePorts(sw, d.mirror)
        ELSE \A l \in ls : Carries(l, d)
     /\ d.mirror = 0 => \A m \in sw.mirrors : m.dst \notin ls

\* After a cycle that ran to the end the switch holds the push: every port
\* that was not refused, no PortChannel of the driver's left without members,
\* the ACL table on exactly the ports it may bind, snooping's static groups
\* exactly the VLANs' members.
IntentReached ==
  done /\ stage = "idle" =>
    /\ \A i \in DOMAIN push.ports : Collides(push.ports[i]) \/ Holds(push.ports[i])
    /\ \A pc \in DOMAIN sw.lags : sw.lags[pc].own => sw.lags[pc].members # {}
    /\ sw.acl = IF push.acl THEN Bindable(sw) ELSE {}
    /\ sw.rows = {SonicID(v) : v \in push.snoop} \cap sw.vlans
    /\ sw.statics = {[iface |-> m.iface, vid |-> m.vid] : m \in {x \in sw.members : x.vid \in sw.rows}}

\* A batch that was refused or cut off leaves the switch half-written; the
\* next undisturbed cycle, which collects and plans anew, is refused at most
\* once more before one runs to the end.
Heals == tries <= 1
=============================================================================

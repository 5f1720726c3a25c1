---------------------------- MODULE AristaPorts ----------------------------
(***************************************************************************)
(* The port and switch settings of an Arista EOS switch against the         *)
(* controller's push: EnsureVLANs, ApplyDevice and ApplyPorts, each one     *)
(* batch of commands computed from the last snapshot, stopped by the first  *)
(* command the switch refuses and saved at its end, and CyclePort.  Port 1  *)
(* is a copper port, port 2 a QSFP cage that a lane speed splits into lanes *)
(* of their own config and that the snapshot folds back into one port.  The *)
(* lanes' admin speeds come from the media map, which only every            *)
(* MediaRefresh-th poll reads again.                                        *)
(*                                                                         *)
(* A speed is in Gbit/s, 0 for auto.  The trunk {0} is `allowed vlan all`.  *)
(* Descriptions, FEC's third value, the BPDU guard and the STP priority,    *)
(* plain values compared and written like the ones here, and the SSH keys   *)
(* are left out; storm control has one level; the NTP, syslog and SNMP      *)
(* lines are one set.                                                       *)
(***************************************************************************)
EXTENDS Naturals, SequencesExt

CONSTANTS Pushes,        \* the pushed keys: port (a sequence), vlans, stp, lines, snmp, igmp
          ByHand(_),     \* the configs an operator may make of one
          MediaRefresh,  \* polls between two reads of the media map
          MaxFaults,     \* bound: changes by hand, cut batches, reloads, restarts
          Calm           \* rounds the properties allow the driver

ASSUME AristaAssumption == MediaRefresh \in Nat \ {0} /\ MaxFaults \in Nat /\ Calm \in Nat \ {0}

VARIABLES
  cfg, startup,  \* the switch's running and saved config
  push,
  view,          \* the last snapshot, with the Port-Channel read beside it
  props,         \* the cached admin speed of each lane
  polls,         \* modulo MediaRefresh
  turn, job,     \* the round's next step, the batch under way
  dirty,         \* running differs from saved by something other than a full batch
  calm,          \* undisturbed rounds, up to Calm
  faults

vars == <<cfg, startup, push, view, props, polls, turn, job, dirty, calm, faults>>

Ports == {1, 2}
Names == {"1", "2/1", "2/2"}
Splits(speed) == speed \in 1..39

\* The interfaces `show interfaces` lists for a port.
LanesOf(c, p) ==
  IF p = 1 THEN <<"1">> ELSE IF Splits(c.lane["2/1"].speed) THEN <<"2/1", "2/2">> ELSE <<"2/1">>
First(p) == IF p = 1 THEN "1" ELSE "2/1"
Listed(c, p) == ToSet(LanesOf(c, p))

Access1 == [mode |-> "access", access |-> 1, native |-> 1, trunk |-> {0}]
Default == [on |-> TRUE, speed |-> 0, fec |-> "", fast |-> FALSE, filter |-> FALSE, storm |-> 0, lag |-> 0] @@ Access1
Factory ==
  [lane |-> [n \in Names |-> Default], pc |-> [made |-> FALSE] @@ Access1,
   mon |-> [p \in Ports |-> [src |-> {}, dst |-> FALSE]], vlans |-> {1}, stp |-> "mstp", lines |-> {}, noIgmp |-> {}]

Idle == [kind |-> "idle", ops |-> <<>>]
NoView == [known |-> FALSE]

Init ==
  /\ cfg = Factory /\ startup = Factory
  /\ push \in Pushes
  /\ view = NoView /\ props = [n \in Names |-> 0] /\ polls = 0
  /\ turn = "collect" /\ job = Idle
  /\ dirty = FALSE /\ calm = 0 /\ faults = 0

Fault == faults < MaxFaults /\ faults' = faults + 1

(***************************************************************************)
(* The switch.                                                              *)
(***************************************************************************)
Accepts(c, o) == o.f = "no monitor" => c.mon[o.at].src # {} \/ c.mon[o.at].dst

\* channel-group and `interface Port-Channel` both make the Port-Channel.
After(c, o) ==
  CASE o.f = "no monitor" -> [c EXCEPT !.mon[o.at] = [src |-> {}, dst |-> FALSE]]
    [] o.f = "source"     -> [c EXCEPT !.mon[o.at].src = @ \cup {o.v}]
    [] o.f = "dest"       -> [c EXCEPT !.mon[o.at].dst = TRUE]
    [] o.f = "vlan"       -> [c EXCEPT !.vlans = @ \cup o.v]
    [] o.f = "stp"        -> [c EXCEPT !.stp = o.v]
    [] o.f = "line"       -> [c EXCEPT !.lines = @ \cup {o.v}]
    [] o.f = "no line"    -> [c EXCEPT !.lines = @ \ {o.v}]
    [] o.f = "igmp"       -> [c EXCEPT !.noIgmp = @ \ {o.v}]
    [] o.f = "no igmp"    -> [c EXCEPT !.noIgmp = @ \cup {o.v}]
    [] o.f = "lag"        -> [c EXCEPT !.lane[o.at].lag = o.v, !.pc.made = @ \/ o.v # 0]
    [] o.f = "save"       -> c
    [] OTHER -> IF o.at = "pc" THEN [c EXCEPT !.pc[o.f] = o.v, !.pc.made = TRUE]
                               ELSE [c EXCEPT !.lane[o.at][o.f] = o.v]

Operator(c) ==
  /\ c # cfg /\ Fault
  /\ cfg' = c
  /\ dirty' = TRUE /\ calm' = 0
  /\ UNCHANGED <<startup, push, view, props, polls, turn, job>>

\* The switch comes back with its saved config; a batch under way is lost.
Reload ==
  /\ Fault
  /\ cfg' = startup
  /\ dirty' = FALSE
  /\ calm' = IF dirty \/ job # Idle THEN 0 ELSE calm
  /\ job' = Idle /\ turn' = "collect"
  /\ UNCHANGED <<startup, push, view, props, polls>>

(***************************************************************************)
(* The snapshot.                                                            *)
(***************************************************************************)
\* applyVLANState, portChannelVLANs: the mode tells which VLANs count.
Switchport(l) ==
  IF l.mode = "access" THEN [mode |-> "access", native |-> l.access, trunk |-> {}]
  ELSE [mode |-> "trunk", native |-> l.native, trunk |-> l.trunk]

\* A session counts for its destination; of several sources any may be read.
MirrorOf(c, p) == IF c.mon[p].dst /\ c.mon[p].src # {} THEN c.mon[p].src ELSE {0}

\* Lane 1 stands for the cage where the running config is read, any lane for
\* its state, storm control and group.
Fold(c, sp, p, storm, mirror) ==
  LET first == c.lane[First(p)]
      lanes == {c.lane[n] : n \in Listed(c, p)}
  IN  [lanes |-> LanesOf(c, p), on |-> \E l \in lanes : l.on,
       vlan |-> Switchport(first), speed |-> sp[First(p)],
       diverge |-> \E n \in Listed(c, p) : Switchport(c.lane[n]) # Switchport(first) \/ sp[n] # sp[First(p)],
       fec |-> first.fec, edge |-> first.fast /\ first.filter, storm |-> storm,
       lag |-> IF \E l \in lanes : l.lag # 0 THEN 1 ELSE 0, mirror |-> mirror]

StormOf(c, p) ==
  LET set == {c.lane[n].storm : n \in Listed(c, p)} \ {0} IN IF set = {} THEN {0} ELSE set

Views(c, sp) ==
  {[known |-> TRUE, fresh |-> TRUE,
    port |-> [p \in Ports |-> Fold(c, sp, p, s[p], m[p])],
    pc |-> IF c.pc.made THEN Switchport(c.pc) ELSE [mode |-> "", native |-> 0, trunk |-> {}],
    vlans |-> c.vlans, stp |-> c.stp, lines |-> c.lines,
    igmp |-> c.vlans \ c.noIgmp, noIgmp |-> c.vlans \cap c.noIgmp] :
   s \in {f \in [Ports -> {0, 1, 2}] : \A p \in Ports : f[p] \in StormOf(c, p)},
   m \in {f \in [Ports -> {0} \cup Ports] : \A p \in Ports : f[p] \in MirrorOf(c, p)}}

(***************************************************************************)
(* The intent: what the loop makes of the pushed keys.                      *)
(***************************************************************************)
\* A port without VLAN keys is a trunk of everything; storm control by rate is
\* left off.
DesiredPort(k) ==
  [on |-> k.on, speed |-> IF k.auto THEN 0 ELSE k.speed,
   native |-> IF k.tagged = {0} THEN 1 ELSE k.native, tagged |-> k.tagged,
   fec |-> CASE k.fec \in {"cl-91", "rs-fec"} -> "rs" [] k.fec \in {"disabled", "none", "off"} -> "off" [] OTHER -> "nil",
   storm |-> IF k.storm.type = "level" THEN k.storm.pct ELSE 0,
   edge |-> ~k.stp, lag |-> IF k.opmode = "aggregate" THEN k.lag ELSE 0,
   mirror |-> IF k.opmode = "mirror" THEN k.mirror ELSE 0]
Desired == [p \in Ports |-> DesiredPort(push.port[p])]

\* The mode ApplyDevice makes of it; EOS has no classic STP.
DesiredSTP == IF ~push.stp.on THEN "none" ELSE IF push.stp.version = "mstp" THEN "mstp" ELSE "rstp"

\* SNMP is managed also when it is off, and v3 is not taken.
DesiredLines == push.lines \cup (IF push.snmp = "1" THEN {"snmp"} ELSE {})

\* With any IGMP key, a VLAN without one is off.
DesiredIGMP == IF push.igmp = {} THEN [on |-> {}, off |-> {}] ELSE [on |-> push.igmp, off |-> push.vlans \ push.igmp]

(***************************************************************************)
(* The plan.                                                                *)
(***************************************************************************)
Op(f, at, v) == [f |-> f, at |-> at, v |-> v]
If(b, ops) == IF b THEN ops ELSE <<>>
Commands(f, at, vs) == SetToSeq({Op(f, at, v) : v \in vs})

DesiredVLAN(d) ==
  IF d.tagged = {} THEN [mode |-> "access", native |-> d.native, trunk |-> {}]
  ELSE [mode |-> "trunk", native |-> d.native, trunk |-> IF d.tagged = {0} THEN {0} ELSE d.tagged \cup {d.native}]

VlanCommands(have, diverge, d) ==
  LET want == DesiredVLAN(d)
  IN  IF ~diverge /\ have = want THEN <<>>
      ELSE IF want.mode = "access" THEN <<<<"mode", "access">>, <<"access", want.native>>>>
      ELSE <<<<"mode", "trunk">>, <<"native", want.native>>, <<"trunk", want.trunk>>>>

\* Auto is written on copper only.
SpeedCommands(p, d) ==
  LET v == view.port[p]
  IN  IF d.speed > 0 THEN If(v.speed # d.speed \/ v.diverge, <<<<"speed", d.speed>>>>)
      ELSE If(p = 1 /\ v.speed # 0, <<<<"speed", 0>>>>)

\* What goes to every lane of the port.
LaneCommands(p, d) ==
  LET v == view.port[p]
  IN  If(d.on # v.on, <<<<"on", d.on>>>>)
      \o If(d.lag = 0, VlanCommands(v.vlan, v.diverge, d))
      \o If(d.lag # v.lag, <<<<"lag", d.lag>>>>)
      \o If(d.fec \notin {"nil", v.fec} /\ ~(d.fec = "off" /\ v.fec = ""), <<<<"fec", d.fec>>>>)
      \o If(d.storm # v.storm, <<<<"storm", d.storm>>>>)
      \o If(d.edge # v.edge, <<<<"fast", d.edge>>, <<"filter", d.edge>>>>)

To(lane, cmds) == [i \in DOMAIN cmds |-> Op(cmds[i][1], lane, cmds[i][2])]

\* Mutant: a lane speed goes to lane 1 only.
EveryLaneNever(d) == FALSE
EveryLane(d) == Splits(d.speed)

PortOps(p, d) ==
  LET lanes == view.port[p].lanes
  IN  FlattenSeq([i \in DOMAIN lanes |->
        To(lanes[i], If(i = 1 \/ EveryLane(d), SpeedCommands(p, d)) \o LaneCommands(p, d))])

\* The session of a destination has its number.
MirrorOps(p, d) ==
  LET v == view.port[p]
  IN  IF d.mirror # 0 /\ v.mirror # d.mirror
      THEN If(v.mirror # 0, <<Op("no monitor", p, 0)>>) \o <<Op("source", p, d.mirror), Op("dest", p, 0)>>
      ELSE If(d.mirror = 0 /\ v.mirror # 0, <<Op("no monitor", p, 0)>>)

\* The Port-Channel takes the VLANs of its first member.
LagPorts == {p \in Ports : Desired[p].lag # 0}
LagIntent == Desired[CHOOSE p \in LagPorts : \A q \in LagPorts : p <= q]
LagOps ==
  IF LagPorts = {} THEN <<>>
  ELSE To("pc", VlanCommands(view.pc, FALSE, LagIntent))

PortBatch ==
  FlattenSeq([p \in Ports |-> MirrorOps(p, Desired[p])])
  \o FlattenSeq([p \in Ports |-> PortOps(p, Desired[p])]) \o LagOps

\* The ports PlanPorts names.  Mutant: the Port-Channel's are forgotten.
PlanPortsNoLag ==
  {p \in Ports : view.port[p].mirror # Desired[p].mirror \/ PortOps(p, Desired[p]) # <<>>}
PlanPorts ==
  {p \in Ports : \/ view.port[p].mirror # Desired[p].mirror
                 \/ PortOps(p, Desired[p]) # <<>>
                 \/ p \in LagPorts /\ LagOps # <<>>}

VlanBatch == If(~(push.vlans \subseteq view.vlans), <<Op("vlan", 0, push.vlans \ view.vlans)>>)

DeviceBatch ==
  If(DesiredSTP # view.stp, <<Op("stp", 0, DesiredSTP)>>)
  \o Commands("igmp", 0, DesiredIGMP.on \ view.igmp) \o Commands("no igmp", 0, DesiredIGMP.off \ view.noIgmp)
  \o Commands("line", 0, DesiredLines \ view.lines) \o Commands("no line", 0, view.lines \ DesiredLines)

(***************************************************************************)
(* The driver.                                                              *)
(***************************************************************************)
Push(p) ==
  /\ turn = "collect" /\ job = Idle /\ push # p
  /\ push' = p /\ calm' = 0
  /\ UNCHANGED <<cfg, startup, view, props, polls, turn, job, dirty, faults>>

\* Mutant: the media map is read once.
RefreshedOnce == ~view.known
Refreshed == ~view.known \/ (polls + 1) % MediaRefresh = 0

Collect ==
  /\ turn = "collect" /\ job = Idle
  /\ turn' = "vlans"
  /\ polls' = (polls + 1) % MediaRefresh
  /\ props' = IF Refreshed THEN [n \in Names |-> cfg.lane[n].speed] ELSE props
  /\ view' \in Views(cfg, props')
  /\ UNCHANGED <<cfg, startup, push, job, dirty, calm, faults>>

\* The round goes on with the snapshot it has.
CollectFails ==
  /\ turn = "collect" /\ job = Idle /\ view.known /\ Fault
  /\ turn' = "vlans" /\ polls' = (polls + 1) % MediaRefresh
  /\ view' = [view EXCEPT !.fresh = FALSE]
  /\ UNCHANGED <<cfg, startup, push, props, job, dirty, calm>>

\* A batch, or on to the next step when there is nothing to write.
Start(kind, ops) == job' = IF ops = <<>> THEN Idle ELSE [kind |-> kind, ops |-> ops \o <<Op("save", 0, 0)>>]

EnsureVLANs ==
  /\ turn = "vlans" /\ job = Idle
  /\ turn' = "device" /\ Start("vlans", VlanBatch)
  /\ UNCHANGED <<cfg, startup, push, view, props, polls, dirty, calm, faults>>

ApplyDevice ==
  /\ turn = "device" /\ job = Idle
  /\ turn' = "ports" /\ Start("device", DeviceBatch)
  /\ UNCHANGED <<cfg, startup, push, view, props, polls, dirty, calm, faults>>

Counted(done) == calm' = IF done /\ view.fresh /\ calm < Calm THEN calm + 1 ELSE calm

ApplyPorts ==
  /\ turn = "ports" /\ job = Idle
  /\ turn' = "collect" /\ Start("ports", PortBatch)
  /\ Counted(PortBatch = <<>>)
  /\ UNCHANGED <<cfg, startup, push, view, props, polls, dirty, faults>>

\* A port-cycle command: every lane down and, three seconds later, up.
CyclePort(p) ==
  /\ turn = "collect" /\ job = Idle /\ view.known /\ Fault
  /\ LET lanes == view.port[p].lanes
         all(b) == [i \in DOMAIN lanes |-> Op("on", lanes[i], b)]
     IN  job' = [kind |-> "cycle", ops |-> all(FALSE) \o all(TRUE)]
  /\ dirty' = TRUE /\ calm' = 0
  /\ UNCHANGED <<cfg, startup, push, view, props, polls, turn>>

RunOp ==
  /\ job.ops # <<>> /\ Accepts(cfg, Head(job.ops))
  /\ cfg' = After(cfg, Head(job.ops))
  /\ IF Head(job.ops).f = "save" THEN startup' = cfg /\ dirty' = FALSE ELSE UNCHANGED <<startup, dirty>>
  /\ job' = [job EXCEPT !.ops = Tail(@)]
  /\ UNCHANGED <<push, view, props, polls, turn, calm, faults>>

\* The first command refused ends the batch; what ran stays, unsaved.
Refused ==
  /\ job.ops # <<>> /\ ~Accepts(cfg, Head(job.ops))
  /\ job' = Idle /\ dirty' = TRUE /\ calm' = 0
  /\ UNCHANGED <<cfg, startup, push, view, props, polls, turn, faults>>

Cut ==
  /\ job # Idle /\ Fault
  /\ job' = Idle /\ dirty' = TRUE /\ calm' = 0
  /\ UNCHANGED <<cfg, startup, push, view, props, polls, turn>>

\* The snapshot as the driver takes it to be after a batch.  The
\* Port-Channel's VLANs stay as they were read.
Written(v, p, d) ==
  [v EXCEPT !.on = d.on, !.speed = IF d.speed > 0 \/ p = 1 THEN d.speed ELSE @,
            !.vlan = DesiredVLAN(d), !.diverge = FALSE, !.fec = IF d.fec = "nil" THEN @ ELSE d.fec,
            !.storm = d.storm, !.edge = d.edge, !.lag = d.lag, !.mirror = d.mirror]

AfterBatch ==
  CASE job.kind = "vlans"  -> [view EXCEPT !.vlans = @ \cup push.vlans]
    [] job.kind = "device" ->
         [view EXCEPT !.stp = IF push.stp.on THEN "rstp" ELSE "none", !.lines = DesiredLines,
                      !.igmp = (@ \cup DesiredIGMP.on) \ DesiredIGMP.off, !.noIgmp = (@ \cup DesiredIGMP.off) \ DesiredIGMP.on]
    [] job.kind = "ports"  -> [view EXCEPT !.port = [p \in Ports |-> Written(@[p], p, Desired[p])]]
    [] job.kind = "cycle"  -> view

Commit ==
  /\ job # Idle /\ job.ops = <<>>
  /\ view' = AfterBatch
  /\ job' = Idle
  /\ Counted(job.kind = "ports")
  /\ UNCHANGED <<cfg, startup, push, props, polls, turn, dirty, faults>>

\* The bridge starts again and reads everything.
Crash ==
  /\ Fault
  /\ view' = NoView /\ polls' = 0 /\ job' = Idle /\ turn' = "collect"
  /\ dirty' = (dirty \/ job # Idle) /\ calm' = IF job # Idle THEN 0 ELSE calm
  /\ UNCHANGED <<cfg, startup, push, props>>

Next ==
  \/ \E c \in ByHand(cfg) : Operator(c)
  \/ Reload
  \/ \E p \in Pushes : Push(p)
  \/ Collect \/ CollectFails \/ EnsureVLANs \/ ApplyDevice \/ ApplyPorts
  \/ \E p \in Ports : CyclePort(p)
  \/ RunOp \/ Refused \/ Cut \/ Commit \/ Crash

Spec == Init /\ [][Next]_vars

(***************************************************************************)
(* Properties.                                                              *)
(***************************************************************************)
\* What the fold lets the driver see through, of one port.
PortReached(p) ==
  LET d == Desired[p]
      lanes == {cfg.lane[n] : n \in Listed(cfg, p)}
      first == cfg.lane[First(p)]
  IN  /\ (\E l \in lanes : l.on) = d.on
      /\ d.lag = 0 => \A l \in lanes : Switchport(l) = DesiredVLAN(d) /\ l.lag = 0
      /\ d.lag # 0 => \E l \in lanes : l.lag = d.lag
      /\ d.speed > 0 \/ p = 1 => \A l \in lanes : l.speed = d.speed
      /\ d.fec = "rs" => first.fec = "rs"
      /\ d.edge = (first.fast /\ first.filter)
      /\ d.storm # 0 => \E l \in lanes : l.storm = d.storm
      /\ d.storm = 0 => \A l \in lanes : l.storm = 0
      /\ d.mirror # 0 => cfg.mon[p].dst /\ d.mirror \in cfg.mon[p].src
      /\ d.mirror = 0 => ~(cfg.mon[p].dst /\ cfg.mon[p].src # {})

\* Calm rounds bring the switch to the push, whatever was cut off, refused,
\* changed by hand or taken from a stale media map before and among them, and
\* a reload of the switch keeps it there.
Reached ==
  calm = Calm /\ job = Idle =>
    /\ \A p \in Ports : PortReached(p)
    /\ LagPorts # {} => cfg.pc.made /\ Switchport(cfg.pc) = DesiredVLAN(LagIntent)
    /\ push.vlans \subseteq cfg.vlans /\ cfg.stp = DesiredSTP /\ cfg.lines = DesiredLines
    /\ DesiredIGMP.on \cap cfg.noIgmp = {} /\ DesiredIGMP.off \subseteq cfg.noIgmp

\* There a snapshot leaves nothing to write, where what it shows does not hang
\* on the order lanes or sources are read in.
Rests ==
  (/\ calm = Calm /\ job = Idle /\ turn = "vlans" /\ view.fresh
   /\ \A p \in Ports : StormOf(cfg, p) = {view.port[p].storm} /\ MirrorOf(cfg, p) = {view.port[p].mirror})
  => VlanBatch \o DeviceBatch \o PortBatch = <<>>

\* PlanPorts, by which the loop holds the first push, names a port whenever
\* ApplyPorts would write anything.
HoldSeesAll == view.known /\ PlanPorts = {} => PortBatch = <<>>

=============================================================================

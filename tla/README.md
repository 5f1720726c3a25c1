# A TLA+ model of disunified

disunified bridges devices that are not UniFi's (SONiC and Arista switches,
Proxmox and Podman hosts, APC power devices) into a UniFi controller. For each
device it polls the device through a driver, sends the controller the informs
a UniFi device would send, handles the replies, and writes the configuration
the controller pushes back to the device. Two parties therefore configure the
same device, the bridge stands between them with state of its own (in memory
and in a state file), and it can be restarted at any moment. This directory
models the protocol core and the write paths of the drivers, checks them with
TLC and proves the main safety properties of both with TLAPS.

1. Inventory; 2. Plan; 3. Modules and how they follow the code; 4. What the
runs check; 5. Disagreements; 6. What is proved; 7. What is not modelled.

## 1. Inventory

Paths are relative to `src/`.

| component | state | operations | interacts with |
|---|---|---|---|
| adoption state (`internal/device/state.go`, `session.go`) | key, adopted flag, claimed cfgversion and its text, pending push, emulated firmware; the state file | `NewSession`, `Apply` (setparam, setstate, cmd, upgrade, noop), `MarkApplied`, `SetSnapshot`, `PinVersion`, `Save`, `Load` | the loop calls it; the controller's replies drive it |
| inform loop (`internal/informloop/loop.go`) | loop state, `everApplied`, `everOutletApplied`, layout, fresh ports, failure counters | `Run`, `informOnce`, `collect`, `applyPending`, `reconcile`, the holds, `withholdFreshPorts`, device-wide settings, address | session, driver, controller, provisioning hooks |
| provisioning (`internal/unifiapi`) | none of its own: a read-modify-write of the controller's device config | `Provision`, `seedOverrides`, outlet overrides | called at start, on connect, on a layout change, on a hold |
| bridge process (`cmd/disunified/main.go`) | the options of each device | `runOne`: open with retries, session, provision hook, loop | everything |
| UniFi controller | external | adopt, push, reset, noop | replies to informs; REST API |
| SONiC driver (`internal/drivers/sonic`) | last collect, its own copy of CONFIG_DB, `sonic-managed.json` (pins, dial targets), ACL and L2 intents, dead-man latch | `Collect`, `EnsureVLANs`, `ApplyDevice`, `ApplyPorts`, `ApplyAddress`, `applyACL`, `applyL2`, `confirmL2` | loop; the switch over SSH batches that may be cut off |
| Arista driver (`internal/drivers/arista-eos`) | last snapshot, cached media map, transport | `Collect`, `EnsureVLANs`, `ApplyDevice`, `ApplyPorts`, `PlanPorts`, `CyclePort`, `ApplyAddress` | loop; eAPI batches, the switch's commit timer |
| Proxmox driver (`internal/drivers/proxmox`) | guest NICs, port numbers kept in guest tags, uplinks, bonds, mstpd ports | `Collect`, `assignPorts`, `writeTags`, `ApplyPorts`, `ApplyDevice`, `applyLAG`, `CyclePort` | loop, other nodes' bridges |
| APC drivers (`apc-pdu`, `apc-ups`, `apc-backups`, `apcnmc`) | last snapshot, addressing mode, `SyslogApplier` | `ApplyOutlets`, `CycleOutlet`, `ApplyAddress`, `ApplyDevice` | loop; a card that applies uploads in its own time |
| NUT server (`internal/nutd`) | listener, its settings, logged-in clients | `ApplyNUT`, client sessions | loop, NUT clients |
| power events (`internal/powerevent`) | active conditions, run of good polls, lost contact | `Observe`, `Failed` | loop |
| recorder (`internal/informloop/recorder.go`) | live file and its size, generations, collapsed 404s | `write`, `rotate`, `Close` | loop |
| system_cfg parser, payload tables, device model, model choice, configuration file | none | pure functions | loop, session |
| SSH runner (`internal/sshrun`) | kept connection | `Run`, `Close` | drivers |
| Podman driver, `reach`, `stub` | last snapshot | collect; Podman: turn the uplink static in place | loop |
| SONiC image patches, scripts | none over time | | |

What is hard here:

* **Two writers.** The device is changed behind the controller's back and the
  controller's config behind the device's back. What the bridge may overwrite
  depends on what it saw earlier (first-push hold, outlet hold, fresh ports).
* **Claims.** The reported cfgversion stops the controller from resending. A
  version claimed too early, or for the wrong text, is never repaired.
* **Crashes and cuts.** Anything may end between a write to the device, the
  mark and the save; a batch of commands may stop at any command, because it
  was refused or because the connection went.
* **Views.** The drivers plan from a snapshot, or from their own calculation
  of what their writes did. Guests move, lanes come and go, people type.
* **Cutting the branch.** An address move, an ACL, spanning tree or a bond can
  take away the path the bridge itself uses.
* **Progress.** Retries, holds, reconciles, stale polls and dropped uploads
  share one cycle; nothing may wait for ever.

`PROJECT.json` lists each hazard at its line with the properties aimed at it.

## 2. Plan

Done: the session and its file; the inform loop; the numbering of guests; the
two address moves against one abstract promise; the SONiC write path, its ACL
tables, spanning tree and device settings; the Arista ports; the Proxmox node;
the APC cards, power events, NUT server and recorder; and the proofs of section 6.

Next, in this order:

1. Proofs: `HoldSeesAll` of `AristaPorts`, then `BatchAccepted` of `SonicPlan`
   with the trace of a batch as in `SonicAclProofs`.
2. Podman's `ApplyAddress`, and renames that fail one by one and short writes
   in `Recorder`.
3. `Provision` in detail (names, VLANs by network, outlet overrides).
4. The translation from a parsed system_cfg to desired ports, as an operator
   against a reference definition.

## 3. Modules and how they follow the code

The modules fall into three groups. `SessionState`, `Session` and `InformLoop`
are the protocol core. The driver modules each model one write path of one
driver down to the single command that may fail. `Reach`, `SonicSettings`,
`Services` and `Proxmox` put driver modules side by side: they `INSTANCE` two
or four of them and a variable `kind` says which one a behaviour is about.
That is sound because the parts share no variable in the code either (an
address move and a commit timer are on different switches; the NUT server, the
power log, the recorder and the card read one snapshot and write none of each
other's state), so interleaving them would only multiply the states. Where
parts do share state (the session and the loop; ports, bindings and snooping of
a SONiC switch; address, outlets and syslog of a card) they are one module.

### The core

**`SessionState`** holds the record `State` and what each reply makes of it, as
operators: `SetAdopt`, `SetDefault`, `ApplySetparam` (with `ParkOrClaim`: a
reply with a system_cfg is parked, one without claims its version at once),
`ApplySetstate`, `ApplyUpgrade`, `MarkedApplied`, and the firmware fiction
(`FictionStands`, `DropFiction`, `LoadedState`). A system_cfg is a value, a
cfgversion a number (0 for the "0" and the empty string), a key either the
factory key or the adopted one.

**`Session`** is one session with its file and the device's real firmware.
`Apply(r)` is `Session.Apply` with its save when something changed;
`BeginApply`/`MarkApplied`/`ApplyFailed` are the loop reading the pending push
and coming back to it later, with any replies in between; `SetSnapshot` is a
poll; `Start` and `Crash` are a process of `runOne`, possibly with another
`-version`; a save is atomic (temporary file and rename) and may fail.

**`InformLoop`** is the loop. `pc` walks through one cycle: `Collect` or
`CollectFailed`; `Exchange` (answered) or `Unanswered` (lost, refused, garbage);
then the steps of `applyPending` or `reconcile` in the order of the code:

| job | steps |
|---|---|
| push, ports | `Plan`/`PlanHeld`, `ApplySettings`, `Write`/`WriteFailed`, `Mark` |
| push, outlets | `ApplySettings`, `Plan`/`PlanHeld`, `Write`/`WriteFailed`, `Mark` |
| push, no control | `ApplySettings`, `Mark` |
| reconcile | `ApplySettings`, `Plan`/`PlanHeld`, `Write`/`WriteFailed` |

Between any two steps the environment moves: `Drift`, `DriftSettings`,
`Arrive`, `Depart` on the device, `Adopt`, `Forget`, `EditPort`, `EditAddr`,
`EditSettings` at the controller, `Crash` of the process. Provisioning is part
of the steps that call it (`Start`, `Collect`, `Exchange`, `PlanHeld`), as the
hooks are synchronous calls in the code.

A port or outlet is a slot with an *occupant* (the identity `collect` compares:
the interface and what is behind it; never reused) and a value. One value
stands for all port settings, one for all device-wide settings, one for the
address mode, since the loop treats each group alike; what the drivers make of
them is in the driver modules. `snap` is the session's snapshot, `seen` the
driver's view, which includes what it wrote since.

The controller is external: it adopts a device it was told to, pushes its
config until its version is reported, resets a forgotten device that still
uses its key, and answers other informs with an error status.
`trusted`, `agreed` and `nextOcc` are history variables: no guard of the bridge
reads them.

### SONiC

**`SonicSwitch`** is CONFIG_DB as far as the driver writes it (lanes of a cage,
VLAN members, PortChannels, mirror sessions, ACL binding, snooping rows) and
what SONiC does with one command: `Refuses`, and the effect, `breakout -f`
with all it removes included. It is external behaviour, taken from the
driver's own simulation and fixtures and from what its comments say the switch
refuses.

**`SonicPlan`** is one cycle over it: `Collect`, then `EnsureVLANs`,
`ApplyDevice` and `ApplyPorts`, each a batch of commands computed from the
driver's view; `RunOp` runs one command, a refused one or `ConnectionLost` ends
the batch; a batch that ran to its end makes the plan's own copy the view. The
phases of `planPorts` (speeds and breakouts, leaving aggregates, joining them,
VLANs, mirrors, storm control) are operators applied in the code's order.

**`SonicAcl`** has the three tables, the translation of rules and guards into
them (`aclSet`), the diff by which they are written (`applyACL`), and the two
tests that hold a set which would cut the bridge off (`cutsManagement`,
`cutsManagementMAC`). What a written table does to a packet is defined
separately, so that the rules can be compared with the push's first match.
Deleting and writing the rules of a table are folds over a set of names, in the
order of `byPriority`. What the driver knows of its own traffic is part of the
initial state (`Paths`, as `mgmtL2` computes it): the bridge's address or none,
the MACs its frames may come from or none, the VLAN of the switch's address or
-1. The bridge gets in when its SSH, its frames to the switch's MAC and its
broadcasts (ARP) pass. A collect that resolves some peer but not the one the
bridge's frames come from is left out: the collect itself arrived from it.
`PushAssumption` holds of what `desiredACLs` hands
on: a rule whose shape a capture has shown names one source port or all.

**`SonicAddress`** is `ApplyAddress` as the code has it: add the address, prove
it on a second connection, record it as a pending dial target, finish through
it, adopt it, or undo; and `dialCandidates` with the fallback of `dial.go`. The
kernel's addresses are a set with the relation `older`, which of two was added
first: the address of a subnet with none older is its primary (`Primary`), and
removing it takes the others along. The next hops of the default route are a
set too; the switch deletes them one at a time.

**`SonicL2`** is spanning tree: the two halves of the intent, the batch that
installs, configures, arms and starts, the confirmation on a fresh connection,
the timer, and the daemon that re-reads its config. The timer keeps the
switch's own time: `Deadman` may fire between any two steps of a round or of a
batch (the dead-man's run itself, stop, tear down, mark and start, is one step);
`Reboot` takes it away, `ConnectionLost` and `Crash` end a batch anywhere, and
after `CollectFails` the round goes on with the last view. `unmarked` and
`untimed` are history variables: no step reads them, they name the causes
excepted by the two properties. **`SonicDevice`** is `applyDevice` with the pins
and their file, which may fail to be saved (`CommitManaged`), the saved config
and the SNMP container that re-imports `snmp.yml`; a push that only changes
`snmp.yml` ends without a `config save` (`RewriteYml`). **`SonicSettings`** holds both, and states
of the constants that a server is an address or a hostname with a port, no
hostname an address, and that addresses and communities are finitely many
(`ServersAssumption`).

### Arista

**`AristaPorts`** has a copper port and a cage of four lanes, the running and
the startup config, the snapshot that folds lanes into one port, and the media
map that is re-read only every `mediaRefreshEvery` polls. Each of
`EnsureVLANs`, `ApplyDevice` and `ApplyPorts` is one eAPI batch, run command by
command. **`AristaAddress`** is the address move: a config session committed
under a timer, proved on a new transport, confirmed, or reverted.

**`Findable`** is the abstract promise of an address move: the switch and the
bridge change sides one at a time, the bridge learns only addresses the switch
answers at, and one address it would dial is always one the switch answers at
or returns to. **`Reach`** maps both drivers to it (`F == INSTANCE Findable
WITH at <- ..., known <- ...`) and `NeverLost == F!Spec`.

### Proxmox

**`PortTags`** is a Proxmox cluster with one bridge per node. All they share is
the tags of the guests. `Poll(h)` is `Collect`: it reads the tags and numbers
the guests as `assignPorts` does (`Claimed`: the valid claims in guest order;
`Numbered`: the lowest free ports for the rest; `Retags`: the guests of this
node whose claims differ). `WriteTag(h)` is one command of `writeTags`, the one
of the least guest left, which fails or finds that the guest has left; `Restart(h)` loses what is pending. The
operators create, clone, destroy, migrate and tag guests between any two of
these steps. `settled` is history: who had a port when the cluster was last at
rest.

**`ProxmoxNode`** is one node: the running network and the staged
`interfaces.new`, the switch behind each NIC, a guest's NIC options and its tap
in mstpd, the bridge's settings. `Collect`, `ApplyDevice`, `ApplyPorts` and
`CyclePort` plan a list of commands; `RunCommand`, `Refused` and `CommandFails`
run it. Guests move, people edit, the node reboots and the bridge restarts.
**`Proxmox`** holds both.

### Power devices

**`ApcCard`** is a card of one of three kinds behind the outlet branch of the
loop: relays are switched at once, names, address and syslog hosts are uploads,
and an upload that arrives while another is being applied is dropped. An upload
that is reported as failed may have been taken (`MayBeStored`), as a relay
command may; a restarted bridge may find the card still at an upload of the
process before (`Start`). `unread` is history: the card applied a syslog upload
its applier was not waiting for.
**`PowerEvents`**, **`NutServer`** and **`Recorder`** follow their packages
function by function; a rotation of the recorder is one step per file operation,
from `Keep` down to the live file; an accept loop that ended (`deaf`) leaves the
port bound. **`Services`** holds the four.

## 4. What the runs check

Each bound is a budget on causes from outside (`Bounds`, `MaxFaults`,
`MaxPushes`, `Budget`, ...); the bridge's own steps are not bounded, so cycles,
retries and re-pushes repeat without limit. One or two of each cause let it
strike at every step.

Passing:

* **`session`** (406,770 states). *ClaimMatchesText*: a push's version never
  stands next to another push's text, in memory or on disk. *TruthWins*: a
  device that is not pinned reports its own version or a fiction based on it.
  *NothingLost*: unless the last save failed the file equals the memory
  (fiction aside). Two pushes are enough for a push to replace the one being
  applied; two firmware versions and two real changes for an upgrade and a
  rollback; one failed write and one restart for each to fall anywhere.
* **`loop_slots`** (454,899 states): two slots, ports or outlets, control on or
  off in each process. *TypeOK* is the module's type invariant.
  *ClaimedIsWritten*: the step that starts to claim a push finds every
  controlled slot that is not withheld as the push wants it. *NoBlindWrite*: a
  slot is overwritten only if this process saw controller and device agree on
  its occupant, or (ports) it was there at the baseline of a process that
  starts from an applied push. Two slots are what partial writes and an arrival
  next to a settled port need.
* **`loop_live`** (608,903 states): one slot, address and settings with two
  values, and one each of edit, forget and re-adopt, fault, drift and restart.
  *InSync*: whenever the controller sees its own version and stops pushing, the
  text the bridge follows is its current config. *StateAgrees*: PENDING, the
  adopted flag and the factory key go together. *Converges*: the device ends up
  and stays as the last applied push wants it even if no inform is answered
  again. *Completes*: if informs keep being answered, an adoption completes and
  the device ends up reporting the controller's version, unless its first push
  is held by a conflict an operator must resolve.
* **`port_tags`** (288,916 states): a cluster of two nodes, three guests and two
  slots for them, both numberings, any two disturbances; and a node of three
  NICs, plain or bonded, at one switch or two, three intents, one change of
  each kind and two failures. *OnePortEach*: no bridge shows two guests on one
  port, whatever the tags hold. *KeepsPort*: once the bridges agree on a
  guest's number no rewrite changes it, until a guest is cloned or a tag edited
  (or, under node numbering, the guest migrates). *Settles*: when the
  disturbances end, all bridges come to the same numbers, tags and port tables
  agree, and nothing is rewritten any more. *Follows*: the bridge never takes
  its node off the network, and once nobody interferes the node is as the
  controller wants it.
* **`sonic_plan`** (453,607 states): three cages under every pair of four roles
  for two of them, two pushes, one fault. *ViewIsSwitch*: the driver's computed
  copy equals CONFIG_DB after each batch of an undisturbed cycle.
  *BatchAccepted*: the switch refuses no command planned from a fresh collect.
  *SecondApplyEmpty*: a second apply of the same push runs no command.
  *IntentReached*: after a cycle that ran to its end the switch holds the push.
  *Heals*: after a cut or refused batch at most one more undisturbed cycle is
  refused.
* **`sonic_acl`** (2,437,327 states): pairs of pushes from every list of up to
  two of five IP or four MAC rules, odd ones with them (a shape never captured,
  one source port, an Allow on another VLAN, a Block of broadcasts, a VLAN out
  of range) and ten guard configurations, one cut batch; the bridge's address,
  the peers' MACs (one or two) and the management VLAN known or not. *RulesMeanThePush*: the tables decide every packet as the push's
  first match does, whatever was there before. *NeverCutOff*: no set that was
  written to its end cuts the bridge off, unless it is one the driver's check
  does not see through (`Foreseen`: a rule on one source port that happens to be
  the bridge's; with the VLAN unknown, an Allow on another VLAN). *GuardOrder*:
  of a VLAN whose servers did not change, the DROP never stands without its
  FORWARDs, at any moment.
* **`reach`** (391,192 states): four addresses, one of which nothing answers at,
  two gateways, two faults. *NeverLost* is the refinement of `Findable`;
  *UndoneIsUntouched*: a move that was undone leaves CONFIG_DB as it was;
  *Reunites*: the address the bridge dials is again and again one the switch
  answers at.
* **`services`** (379,945 states). *OneOutage*, *OutagesEnd*: a flapping input
  is one outage, and polls of a calm device close every outage.
  *ClientsAreLoggedIn*: the reported clients are the logged-in sessions.
  *ServesThePush*: the NUT server ends up with the pushed settings, bound to
  their port, whatever bind failed (whether it still accepts is another matter,
  section 5).
  *LogKept*: the log is the newest lines without a gap, through a crash inside
  a rotation and writes that fail, and every plain 404 since the start is in the
  log, in the running count or in a write that failed. *NoSurprise*: bringing a
  UPS's outlets to the controller's settings moves a relay only in a process
  that has once found the two equal; a power cycle asked for by relayctl
  (`CycleOutlets`, `loop.go:658-687`) is an order of its own and is not held.
  *RelaysReach*, *SettingsReach*: relays, names, address and syslog
  hosts end up as asked, through failed calls, power cycles, restarts and
  dropped uploads, but for hosts given up and for an applier that an upload it
  does not know of has misled (`Misled`, section 5). Two edits are what that
  exception needs, to hosts and back. For the Back-UPS alone the run was also
  made with two troubles (196,858 states).
* **`sonic_settings`** (1,073,200 states), two faults, two firings, one value of
  the per-port settings (what matters is that a config differs, which the loop
  guard and spanning tree itself provide). *UndoneStaysDown*:
  spanning tree the dead-man undid stays down until the controller had it off,
  unless a config planned on an older collect was written over the mark.
  *Returns*: a switch cut off by spanning tree gives it up by itself: it has a
  timer running, the script that is about to arm it, or a config with spanning
  tree off; three causes that leave it without one are excepted by name
  (`untimed`, section 5).
  *OnlyThePush*: a push that went through leaves its servers and community and
  no others, those added by hand included, over restarts. *NoChurn*: the next apply writes nothing whatever
  the names resolve to now, unless two log hosts of the push are at one address
  under different ports (`Apart`). The second push lets that happen: the switch
  keeps one entry per address, so either host replaces the other at every
  apply.
* **`arista_ports`** (974,197 states): three pushes (joined cage, split and
  mirrored cage, Port-Channel), four changes by hand, one fault, a media map
  read every third poll. *Reached*: seven calm rounds bring the switch to the
  push (two reads of the media map and the batches between them), a reload of
  the switch included. *Rests*: there a snapshot leaves nothing to write.
  *HoldSeesAll*: `PlanPorts` names a port whenever `ApplyPorts` would write.

Violations (each a disagreement between a comment and the code; details in
`PROJECT.json`, findings):

* **`first_push`**: a forget leaves `SystemCfg` and `everApplied` in place, so
  the first push of the next adoption is not held. `NoBlindWrite` is what the
  hold does guarantee; `WrittenOnlyIfAgreed` is the stronger reading of its
  comment.
* **`deadman`**: `NotEnabledAgain` is `UndoneStaysDown` without its exception,
  the plain reading of `l2d.py:801-803` and `sonic.md:2848-2849`. What breaks it
  is a timer that fires between a round's collect and the write planned on it,
  or before a round whose collect failed: the mark is written over unseen.

### Fairness

`FairSpec` of the loop assumes weak fairness of the bridge's own steps and of
its restart, nothing else. `Run` loops until its context ends, every call it
makes to the device and the controller has a timeout (`CollectTimeout`,
`ApplyTimeout`, the HTTP client's), and the deployment restarts the process
(`deploy/compose.yaml`: `restart: always`). Drifts, edits and answers from the
controller are never assumed; `Completes` states its need of answered informs
as a hypothesis.

The driver modules assume the same of the loop's rounds and of a command under
way, which runs or fails: `Poll`/`WriteTag` of each bridge, `Node!Round`,
`Card!Round`, `Sonic!Collect` and `Proceed`, `Nut!ApplyNUT`. Beyond the bridge
they assume that Arista's commit timer runs out, that a card applies an upload
it took, that an outlet's power cycle ends, and that the settle time of a
syslog upload passes. `OutagesEnd` and `SettingsReach` state what they need of
polls and idle cards as hypotheses. Disturbances are bounded, so the liveness
properties are about a system left alone at some point.

## 5. Disagreements

What the code does that a comment or document says otherwise, or that a model
leaves out, or a property excepts, to hold. Two of them are the runs above.

Core:

* A firmware fiction that is dropped in memory is not saved
  (`device/session.go:203`), so after a rollback and a restart it returns;
  `state.go:31-37` says the truth is reported again.
* A guest that arrives while the bridge restarts is part of the next process's
  baseline and is overwritten (`informloop/loop.go:1407`; the comment at
  224-227 says such ports are not written until a push matches them).
* The previous push that shows "changed by hand" may belong to an earlier
  adoption, so a re-adoption's default turns a static device to DHCP
  (`loop.go:1139` against 1056-1058). A failed change to DHCP is never retried.
* Seeding takes an operator's disabled port for one it disabled itself
  (`unifiapi/seed.go:218` against `cmd/disunified/main.go:584-585`).

SONiC:

* The ACL unbind inside the port batch may name a lane or PortChannel the same
  plan removed (`acl.go:648`, called at `control.go:320-322`); the batch is
  refused once. `BatchAccepted` excepts it, `Heals` bounds it.
* When a VLAN's server list changes, a guard's FORWARD can trail its DROP
  (`acl.go:690-694` and `sonic.md:3280-3283` say never). `cutsManagement`
  takes a rule on one source port for one that misses the bridge's own port,
  and a rewrite in progress can cut the bridge off between two writes.
* With the VLAN of the switch's address unknown (a collect that reports no
  address), `cutsManagementMAC` skips its VLAN test for Blocks and Allows alike
  (`acl.go:456`, 465-467; 386 and 409 say that every VLAN counts). An Allow from
  Any on VLAN 2 then hides a Block from Any on VLAN 1, the switch's own: the set
  is written, and the switch drops the bridge's frames and with them the push
  that would take the rule back. The attempt to prove `NeverCutOff` for an
  unknown VLAN showed it; `Foreseen` leaves out just these sets, and without
  that condition `sonic_acl` finds the switch cut off.
* A batch cut off before `config save` is applied and never saved: the next
  plan is empty. A restart of such a switch brings it up with an address the
  bridge may not dial (`dial.go:10-18` speaks of the half-done move);
  `SonicAddress` leaves that restart out.
* After a connection lost behind `ip add`, later attempts are refused with
  "already has"; a `route del` that is refused ends a move unsaved.
* A cut-off switch may be left without its dead-man timer. `sonic.md:2843-2845`
  says that "a first enable runs under a 180 s dead-man timer armed in the same
  batch before the service starts", and the error at `l2.go:362` that "the
  switch undoes spanning tree by itself". Not so (1) when the batch ends between
  the config (`l2.go:320-323`) and the timer (328-331) while the daemon, running
  for loop protection, reads its config again by itself; (2) when the switch
  reboots with the timer pending: the timer is a transient unit, the daemon is
  enabled at boot; (3) when the driver writes an enabled config over one the
  dead-man has undone, because the collect it planned on still showed spanning
  tree running: then it arms nothing (`l2.go:327`). `Returns` excepts these three
  and no other; each sets `untimed`, and without it `sonic_settings` fails.
* The same stale collect makes the driver write over the dead-man's mark
  (`l2.go:319-323`, run `deadman`); `UndoneStaysDown` excepts it by `unmarked`.
* Servers an operator added by hand are removed: `applyDevice` makes the
  controller's list the switch's (`device.go:281-284`, 316-322).
  `device.go:23-25` says of the managed file that with it "a later push removes
  only those and never the operator's own", and `sonic.md:727-728` to "leave
  others", for NTP, with the "same ownership rule" for syslog; the SNMP row
  (729) says both that every other community goes and that `public` is left
  alone. `OnlyThePush` states what the code does.
* A `sonic-managed.json` that could not be written is only logged
  (`device.go:451-453`) and written again only with the next change; a restart
  then starts from the older pins. `OnlyThePush` and `NoChurn` are about pushes
  whose pins are in the file.
* Two syslog hosts that resolve to one address with different ports replace
  each other every cycle; an unreadable `snmp.yml` brings its communities back;
  an enable whose confirmation failed is not confirmed again.

Arista:

* FEC and storm control of lanes a split created are never written
  (`apply.go:148-149` and `loop.go:586-590` say on the next reconcile), because
  the folded port already shows them. `PortReached` asks them of the first or
  of some lane.
* A mirror session made by hand makes `no monitor session N` fail and with it
  every port batch; a batch cut off before `write memory` is not saved until
  the next one; a media map whose refresh fails waits another 30 polls; a
  Port-Channel's VLANs are not updated in the view (`apply.go:44-46`).
* An answer to the confirming commit that is lost leaves the bridge at the old
  address; `AristaAddress` leaves it out.

Proxmox:

* Nodes with different numbers of physical ports drop different claims and
  number the same untagged guest differently (`tags.go:129` against 115-117).
  The two nodes of `port_tags` have as many ports as each other.
* A bond whose creation was staged and not finished makes every later `create`
  fail; `Follows` exempts the aggregate then, and a boot in that state is left
  out. `bridgeMembers` (`lag.go:205`) counts NICs that are in no bridge, so
  making a bond puts every spare NIC in. Bonding NICs that are not the last
  ones renumbers the ports behind them, and the aggregate then names others.
* chrony's sources are written and, if the reload fails, never reloaded.

APC and services:

* A name longer than 23 characters is compared uncut and uploaded every cycle
  (`apc-pdu/apply.go:59`; the comment at 80-83 says that is what the cut
  avoids). The driver's note of DHCP is set before the card took the upload, so
  a dropped one is not repeated; a static address equal to the lease is dropped
  likewise. `SettingsReach` is about static addresses for this reason.
* The PDU driver has no `PlanOutlets`, so its first push is not held;
  `NoSurprise` is about the UPSs. A poll during a power cycle makes the
  reconcile cut it short. A Back-UPS without netmask or host name uploads its
  address every cycle.
* A late upload can leave a card's syslog hosts wrong for good. The applier
  reads the section at the start and after an upload of its own only
  (`apcnmc/syslog.go:199-222`), while a card takes seconds to a minute to apply
  one (149-153). A bridge that restarts in that time, or whose upload was taken
  although it was reported as failed (242-244: no note of it is kept), holds an
  old copy of the section; when the hosts asked for are those of the old copy it
  uploads nothing, and the card sends to the other ones. Any other change of the
  hosts repairs it. `SettingsReach` excepts this state (`Misled`), and without
  the exception `services` fails.
* Any error of `Accept` ends `serve` (`nutd/server.go:133-135`; "closed", says
  the comment, but running out of file descriptors is another): the listener
  stays bound and applying the same block is a no-op, so nobody is served until
  the block changes. `ServesThePush` claims the settings and the port only.
* A rename that fails while a rotation goes on costs more than "a rotation, not
  the log" (`recorder.go:114-116`): after a failed `.2` to `.3`, `.1` is moved
  over `.2` and its lines are lost (125-132). A `Write` that stops in the middle
  of a line (109-111) leaves the part in the file, to which the next line is
  appended. `Recorder` has neither; it has the `Write` that writes nothing.
* NUT sessions keep the settings they were accepted under, and status is served
  stale while polls fail (`nutd/server.go:136`).

## 6. What is proved

Each theorem holds for every value of the constants, from the named assumptions
on them only; the bounds on faults, restarts and pushes are arbitrary numbers.
The assumptions say what the code takes for granted (a positive number of
generations, a file marker that is no file, addresses that are addresses); TLC
evaluates them in every run. Each proof has a lemma for Init, a lemma per action
or group of actions, and a temporal step; the strengthened invariants were
checked with TLC on small instances before they were proved.

**`InformLoopProofs`**, for every number of slots, every set of settings, every
`Planner`/`AllowInitial`/`Seeding`/`StaleAfter`:

* **`TypeCorrect`**: `TypeOK`, together with `JobRuns`: while an apply is under
  way there is a job. The second part is needed because a step of an apply
  reads the job; it says that a reconcile is never begun without an applied
  text.
* **`ClaimIsCurrent`**: `InSync`. Not inductive as it stands, as a push is
  parked long before it is claimed. `SyncInv` says the same of the pending push
  in memory and on disk, and that no version the bridge holds is newer than the
  controller's; every change the controller makes to its config takes a new
  version and leaves them all behind.
* **`WritesAreTrusted`**: `NoBlindWrite`. `BlindInv` says why the driver's view
  of a slot may be written: everything seen on a slot that is not fresh is
  trusted (`Known`) once a push was applied and from the moment an apply has
  passed its hold (`Cleared`); an applied text implies `everApplied` where
  ports are controlled; the layout is the one of the last poll. It is
  conditional on `Guarded`, as the code's promise is.
* **`ClaimsAreWritten`**: `ClaimedIsWritten`. `ClaimInv` says that the pending
  push stays the one an apply began with, and that at `mark` every slot seen is
  as that push wants it. That only `Mark` starts to claim a push is a lemma
  (`OnlyMarkClaims`): an adoption reply claims the adoption version only.
* **`StatesAgree`**: `StateAgrees`, strengthened by the same agreement in the
  state file, from which a restart takes all three.

**`SessionProofs`**, for every set of pushes, firmware versions and pins:

* **`ClaimsMatch`**: `ClaimMatchesText`, strengthened to the parked push, whose
  version and text belong together in memory and in the file: it is what
  `MarkApplied` and a restart turn into a claim.
* **`TruthReported`**: `TruthWins`. The invariant says which version is shown:
  the emulated one exactly as long as the state has one, and that one is based
  on what the last poll saw.
* **`FileIsCurrent`**: `NothingLost`, inductive with the types.

**`ProxmoxProofs`**, for every number of nodes, guests and ports and either
numbering:

* **`PortsAreDistinct`**: `OnePortEach`. The two passes of `assignPorts` are
  functions by recursion on the guest. `InductionLemmas` shows that such a
  function exists and has the values its equation says (`Course`), from the
  fact that a set of naturals has a least element.
* **`AgreedPortsStay`**: `KeepsPort`. `TagsInv` says of every guest whose number
  all bridges agreed on that it is `Frozen`: it carries just its claim, every
  bridge that numbers it has that port, no other guest carries the claim, and
  no pending rewrite, however stale, is about to give it one or take it away.
  The last part is what makes it inductive: a rewrite is computed at one poll
  and written after any number of others.

**`ReachProofs`**, for every set of addresses, subnets, gateways and pushes:

* **`FindsItsSwitch`**: `NeverLost`, that both address moves implement
  `Findable`. Arista: until the confirmation is answered the address the bridge
  dials is the one the switch boots with and the one it is at or returns to
  (`AristaInv`). SONiC: `Stage` says for each step of the move what is in
  CONFIG_DB, in the kernel and in the saved config, and which address is
  recorded as the pending dial target; `Accounted` that the kernel holds no
  address CONFIG_DB has not, and that no save was of more addresses than there
  are now; `Met` that a dial target answers. The difficulty is the removal of a
  primary address that takes its secondaries along.
* **`UndoIsClean`**: `UndoneIsUntouched`, from the same invariant.

**`SonicSettingsProofs`**, for any number of firings and faults, and, from
`ServersAssumption`, for any addresses, hostnames, pushes and answers of the DNS:

* **`CutOffReturns`**: `Returns`. A config that asks for spanning tree is proven
  (it is up and the bridge has its path), or the timer runs, or the script that
  arms it, or one of the three causes has struck (`Guarded`); that a later batch
  keeps this needs that a service seen running is installed and runs
  (`Standing`) and that a batch which enables without arming was planned on a
  view with spanning tree running (`Planned`). The timer firing between any two
  steps is harmless here: it takes the config's spanning tree away.
* **`StaysDown`**: `UndoneStaysDown`. Until the controller has had spanning tree
  off or the mark was written over unseen, the mark of the last firing is in the
  config; a view that has it gives plans that keep it, and no off the driver saw
  is held against it (`Marked`). Marks are numbered by the firings, so that an
  older one is not taken for the last (`Numbered`).
* **`LeavesOnlyThePush`**: `OnlyThePush`. What a plan computes is a lemma about
  the fold of `applyDevice` (`ServersAre`, `PlanIsSound`): for every address the
  last command about it says what it ends with (`Ends`), the addresses that end
  with a server are those of the push under the new pins (`Meant`), and a pin
  whose address is on the switch is kept. `DeviceInv` says of a batch under way
  that it was planned for the push at hand and, from a fresh view, that its
  commands lead from the switch as it is to the one planned (`Underway`); of a
  push that went through, that the switch, its saved config and the driver's
  view are one and `snmp.yml` holds no other community (`Done`), which is what a
  restart of the switch or of its snmp container starts from.
* **`AppliesOnce`**: `NoChurn`, from the same invariant: with every server of the
  push on the switch under its port, every pass over the list finds each server
  in place and writes nothing.

**`SonicAclProofs`**, for every set of addresses, MACs, VLANs, rules and pushes,
from `AddressAssumption` and `PushAssumption`:

* **`TablesMeanThePush`**: `RulesMeanThePush`. What a batch computes is a lemma
  about the folds of `applyACL` (`Drops`, `Writes`, `SyncTableIs`, `AclBatchIs`:
  the tables the push speaks of end with its rules, bound, and the others as
  they were, whatever was there and in whichever order the names are taken);
  what a table of rules at falling priorities decides is another
  (`FirstHitDecides`). The invariant says that the commands still to run lead
  from the tables as they are to the simulated ones.
* **`BridgeStaysConnected`**: `NeverCutOff`, for `Foreseen` pushes. The two tests
  are sound (`IpReachable`, `MacReachable`): a set they let through has no Block
  that is the first match of the bridge's packets or of its frames to the switch
  or to everybody, also where its address or
  the peer is unknown. A table the push does not speak of is as it was at the
  collect, and a collect succeeds only if the bridge gets in.
* **`ForwardsComeFirst`**: `GuardOrder`. This one is about every moment of a
  batch. `Safely` says of a list of commands that the guard table is `Sound`
  (a DROP only with the FORWARDs of its list) after each of them; deleting the
  lowest priority first and writing the highest first keep it so, for a VLAN
  whose list is the one it always had. `OrderInv` carries it through cut
  batches and rebound tables.

**`ServicesProofs`**:

* **`ClientsCounted`**: `ClientsAreLoggedIn`, for any finite set of sessions.
* **`HeldUntilAgreed`**: `NoSurprise`; outlets are only brought to the
  controller's settings in a process that has agreed once (power cycles are not
  part of it).
* **`FlapsAreOneOutage`**: `OneOutage`, for any number of polls a recovery takes.
  The count of good polls is the number of readings at the end of the window of
  recent ones that show the alarm gone (`Counted`).
* **`LogIsKept`**: `LogKept`, for any number of generations, any cap and any
  sizes. `Cut(b)` says that file i holds the accepted lines after number
  b[i + 1] up to number b[i]; a rotation moves one cut per file operation, and
  `Rotation` that a rename never meets a file in its place, also after a crash
  left a gap among the generations. That the files one after the other are then
  the end of the accepted lines is an induction over the generations (`LogIs`).
  `Balance` accounts for the 404s of the write under way, so that a count whose
  write fails is still counted.

Induction over data is done in set form: the least element of the set of
counterexamples (`Least`, `Upwards`, `SubsetInduction` of `InductionLemmas`),
which needs no operator parameter. `FoldExists` gives a fold over a finite set
the values its equation says.

Only model-checked, and why:

* Liveness (`Converges`, `Completes`, `Settles`, `Follows`, `Reunites`,
  `OutagesEnd`, `ServesThePush`, `RelaysReach`, `SettingsReach`): fairness and
  ENABLED are outside the prover's reach.
* The properties of `SonicPlan`, `Reached` and `Rests` of `AristaPorts`: they are
  about what folds over the commands of a batch compute, with many more kinds
  of commands than the batches of `SonicAcl` and `SonicDevice`, and (`Heals`,
  `Reached`) about a number of rounds.
* `HoldSeesAll` of `AristaPorts` says that two plans computed from one view
  agree.

## 7. What is not modelled

* **Pure functions**: the system_cfg parser, the payload tables, device naming
  and the choice of a UniFi model, the configuration file, the parsing of what
  devices answer. They keep no state; the models take their results. Child
  devices are a stateless translation of a snapshot.
* **Transport**: the SSH runner, SNMP, Modbus, eAPI and the web session appear
  as a command or batch that runs, fails or is cut off.
* **Podman** (one write, listed as a hazard), **`reach`** and **`stub`**,
  **image patches** and scripts.
* **In the core**: names; a control scope that is a subset of the ports; pushes
  that name VLANs the site does not have; locate; the inform interval and its
  change by the controller; several controllers; the firmware fiction inside
  `InformLoop` (it does not touch the push protocol; `Session` has it); the
  rate limit of provisioning as a clock (it is one of the reasons a call does
  nothing).
* **In the drivers**: what each module's header names, chiefly values that are
  compared and written like others that are modelled (descriptions, time zone,
  SSH keys, host names); SONiC switches without `platform.json`; the
  loop-protection frames of `l2d.py`; guests with several NICs on a bridge;
  single renames of the recorder that fail and writes that stop half way.

---------------------------- MODULE InformLoop ----------------------------
(***************************************************************************)
(* One device's inform loop (internal/informloop/loop.go) with everything  *)
(* it talks to: the device behind its driver, the UniFi controller, and    *)
(* the state file.  The loop polls the device, informs the controller,     *)
(* handles the reply, and then either applies a pending config push or     *)
(* re-applies the last applied one.                                        *)
(*                                                                         *)
(* A process is a program counter that walks through one cycle:            *)
(*                                                                         *)
(*   down -> (Start) -> first reconcile -> idle                            *)
(*   idle -> (Collect) -> inform -> (Exchange | Unanswered)                *)
(*        -> settings, plan, write, mark in the order of the code -> idle  *)
(*                                                                         *)
(* Between any two steps the device drifts, guests come and go, operators  *)
(* edit the controller, and the process can end.                           *)
(*                                                                         *)
(* Abstractions.                                                           *)
(*  - A port (or outlet) is a slot.  What is plugged into it is its        *)
(*    occupant, a number that is never reused, 0 for a free slot; the      *)
(*    identity collect() compares (interface name and the interfaces       *)
(*    behind it).  Its configuration is one value, "on" or "off", where    *)
(*    "on" stands for the controller's default for a port nobody set.      *)
(*  - A system_cfg is the value for every slot, the management address     *)
(*    mode, and one value for all the device-wide settings (VLAN list,     *)
(*    STP, NTP, syslog, NUT, SSH keys), which are applied alike: each      *)
(*    error is logged, the next reconcile repeats the whole.               *)
(*  - The HTTP round trip is one step: what happens between the            *)
(*    controller's answer and its handling commutes with it, and a reply   *)
(*    that is lost on the way is a case of its own.                        *)
(*  - The rate limit of provisioning (10 s) is one of the reasons a        *)
(*    provisioning call may do nothing, like an API error.                 *)
(*  - Commands that leave nothing behind (locate, port and outlet cycle,   *)
(*    reboot) and the inform interval are left out.                        *)
(***************************************************************************)
EXTENDS SessionState

CONSTANTS
    NumSlots,      \* ports or outlets under control
    Addrs,         \* management address modes in use, of {"dhcp", "static"}
    Devs,          \* values of the device-wide settings
    DefaultDev,    \* the controller's defaults for them
    NoLayout,      \* layoutSig == "": no collect yet in this process
    NoJob,         \* no apply in progress
    Kinds,         \* device kinds of the run, of {"ports", "outlets"}
    Controls,      \* whether a process may write (control: on / off)
    Planner,       \* the driver can plan a write (Planner, OutletPlanner)
    AllowInitial,  \* control.allow_initial_changes
    Seeding,       \* the bridge has an API key: provisioning runs
    StaleAfter,    \* collect failures before informs are withheld
    Bounds         \* bounds on faults, crashes, moves, drifts, edits, forgets

Slots == 1..NumSlots
Vals == {"on", "off"}
Overrides == Vals \cup {"unset"}
Causes == {"faults", "crashes", "moves", "drifts", "edits", "forgets"}
Occupants == Nat
Contents == [occ : Occupants, val : Vals]
Free == [occ |-> 0, val |-> "on"]

Jobs == [why : {"push", "reconcile"}, ver : Nat, cfg : Cfgs,
         prev : Cfgs \cup {NoCfg}, slots : SUBSET Slots]

(* The texts of SessionState.Cfgs are the controller's configurations. *)
ASSUME CfgsAssumption == Cfgs = [ports : [Slots -> Vals], addr : Addrs, dev : Devs]
ASSUME LoopAssumption ==
    /\ NumSlots \in Nat
    /\ Addrs \subseteq {"dhcp", "static"} /\ "dhcp" \in Addrs
    /\ DefaultDev \in Devs
    /\ Kinds \subseteq {"ports", "outlets"} /\ Controls \subseteq BOOLEAN
    /\ Planner \in BOOLEAN /\ AllowInitial \in BOOLEAN /\ Seeding \in BOOLEAN
    /\ StaleAfter \in Nat \ {0}
    /\ Bounds \in [Causes -> Nat]
ASSUME EmptyAssumption == NoLayout \notin [Slots -> Nat] /\ NoJob \notin Jobs

VARIABLES
    (* the bridge process *)
    pc,            \* where it is in its cycle
    st,            \* Session.st
    disk,          \* the state file
    state,         \* Loop.state
    control,       \* Controller / OutletController set in this process
    everApplied,   \* Loop.everApplied
    everOutlet,    \* Loop.everOutletApplied
    fresh,         \* Loop.freshPorts
    layout,        \* Loop.layoutByPort: slot -> occupant at the last change
    failures,      \* Loop.collectFailures
    job,           \* the push or reconcile being applied
    snap,          \* the session's snapshot: the slots at the last collect
    seen,          \* the driver's view: snap plus what it wrote since
    (* the device *)
    kind,          \* "ports": a switch, "outlets": a power device
    live,          \* slot -> what is there and how it is configured
    devAddr,       \* the device's address mode
    devSettings,   \* the device-wide settings in force
    (* the controller *)
    cState,        \* what it thinks of the device
    cVer,          \* the version of its current config
    cCfg,          \* its config: port overrides, address mode, settings
    (* the bounds and the history *)
    left,          \* how often each cause may still strike
    nextOcc,       \* the next new occupant
    trusted,       \* occupants this process may overwrite (see NoBlindWrite)
    agreed         \* occupants on which a push of this adoption and the device agreed

bridge == <<pc, st, disk, state, control, everApplied, everOutlet, fresh,
            layout, failures, job, snap, seen>>
device == <<kind, live, devAddr, devSettings>>
controller == <<cState, cVer, cCfg>>
history == <<nextOcc, trusted, agreed>>
vars == <<bridge, device, controller, history, left>>

TypeOK ==
    /\ pc \in {"down", "idle", "inform", "settings", "plan", "write", "mark"}
    /\ st \in States /\ disk \in States
    /\ state \in {"PENDING", "ADOPTING", "CONNECTED"}
    /\ control \in BOOLEAN /\ everApplied \in BOOLEAN /\ everOutlet \in BOOLEAN
    /\ fresh \subseteq Slots
    /\ layout \in [Slots -> Occupants] \cup {NoLayout}
    /\ failures \in Nat
    /\ job \in Jobs \cup {NoJob}
    /\ snap \in [Slots -> Contents] /\ seen \in [Slots -> Contents]
    /\ kind \in Kinds
    /\ live \in [Slots -> Contents]
    /\ devAddr \in Addrs /\ devSettings \in Devs
    /\ cState \in {"none", "wanted", "managed", "forgotten"}
    /\ cVer \in Nat
    /\ cCfg \in [ports : [Slots -> Overrides], addr : Addrs, dev : Devs]
    /\ left \in [Causes -> Nat]
    /\ nextOcc \in Nat
    /\ trusted \subseteq Nat /\ agreed \subseteq Nat

---------------------------------------------------------------------------
(* Bounds.  A fault is anything that fails: a poll, a write to the device, *)
(* a call of the REST API, a write of the state file.                      *)

Spend(cause) ==
    left[cause] > 0 /\ left' = [left EXCEPT ![cause] = @ - 1]

Spending(n) ==
    left.faults >= n /\ left' = [left EXCEPT !.faults = @ - n]

Fault(ok) == IF ok THEN 0 ELSE 1

(* A call that is made may fail; one that is not made cannot. *)
Outcomes(made) == IF made THEN BOOLEAN ELSE {TRUE}

---------------------------------------------------------------------------
(* The controller's config as the device sees it. *)

FreshCfg == [ports |-> [p \in Slots |-> "unset"], addr |-> "dhcp", dev |-> DefaultDev]

Text(c) ==
    [ports |-> [p \in Slots |-> IF c.ports[p] = "unset" THEN "on" ELSE c.ports[p]],
     addr |-> c.addr, dev |-> c.dev]

(* seedOverrides: what provisioning writes back as port overrides.  A free *)
(* slot is seeded disabled; an occupied port that has no override, or the  *)
(* disabled one a free slot gets, is seeded from its own state (nothing to *)
(* seed when that is the default); every other override is left alone.     *)
(* Without port control only released slots are cleared.                   *)
SeedOverride(override, content, seed) ==
    CASE content.occ = 0 /\ (seed \/ override = "off") -> "off"
      [] content.occ = 0 /\ ~seed /\ override # "off" -> "unset"
      [] content.occ # 0 /\ seed /\ override \in {"unset", "off"} ->
            IF content.val = "on" THEN "unset" ELSE "off"
      [] OTHER -> override

Seeded(c, slots, seed) ==
    [c EXCEPT !.ports = [p \in Slots |-> SeedOverride(c.ports[p], slots[p], seed)]]

(* provision, the hook of Start, OnConnected, OnLayoutChange and OnHeld:   *)
(* one read-modify-write of the device's config through the REST API.      *)
CanProvision(adopted) ==
    Seeding /\ kind = "ports" /\ adopted /\ cState = "managed"

Provision(slots, adopted, seed, ok) ==
    IF CanProvision(adopted) /\ ok
    THEN /\ cCfg' = Seeded(cCfg, slots, seed)
         /\ cVer' = IF cCfg' # cCfg THEN cVer + 1 ELSE cVer
         /\ UNCHANGED cState
    ELSE UNCHANGED controller

---------------------------------------------------------------------------
(* The process starts an apply.  reconcile passes no previous push. *)

Begin(s, why, ctl) ==
    /\ job' = IF why = "push"
              THEN [why |-> why, ver |-> s.pendingCfgVersion, cfg |-> s.pendingSystemCfg,
                    prev |-> s.systemCfg, slots |-> Slots]
              ELSE [why |-> why, ver |-> s.cfgVersion, cfg |-> s.systemCfg,
                    prev |-> NoCfg, slots |-> Slots]
    /\ pc' = IF why = "push" /\ ctl /\ kind = "ports" THEN "plan" ELSE "settings"

Finish == pc' = "idle" /\ job' = NoJob

(* Mutant: a reconcile before the first applied push. *)
ReconcileNothing(s, ctl) == Begin(s, "reconcile", ctl)

(* reconcile does nothing before the first applied push. *)
Reconcile(s, ctl) == IF IsApplied(s) THEN Begin(s, "reconcile", ctl) ELSE Finish

(* Mutant: a push waits while there is something to reconcile. *)
ReconcileFirst(s) ==
    IF IsPending(s) /\ ~IsApplied(s) THEN Begin(s, "push", control) ELSE Reconcile(s, control)

(* if !applyPending { reconcile } *)
ApplyPendingOrReconcile(s) ==
    IF IsPending(s) THEN Begin(s, "push", control) ELSE Reconcile(s, control)

Occs(slots) == {slots[p].occ : p \in Slots} \ {0}

Init ==
    /\ pc = "down" /\ st = FreshState /\ disk = FreshState
    /\ state = "PENDING" /\ control = FALSE
    /\ everApplied = FALSE /\ everOutlet = FALSE
    /\ fresh = {} /\ layout = NoLayout /\ failures = 0 /\ job = NoJob
    /\ kind \in Kinds
    /\ live \in {f \in [Slots -> [occ : 0..NumSlots, val : Vals]] :
                 \A p \in Slots : \/ f[p].occ = p
                                  \/ kind = "ports" /\ f[p] = Free}
    /\ snap = [p \in Slots |-> Free] /\ seen = [p \in Slots |-> Free]
    /\ devAddr \in Addrs /\ devSettings \in Devs
    /\ cState = "none" /\ cVer = 1 /\ cCfg = FreshCfg
    /\ left = Bounds
    /\ nextOcc = NumSlots + 1 /\ trusted = {} /\ agreed = {}

(* runOne opens the device, which polls it once, loads the state file and  *)
(* builds the session and the loop; provision runs, and Run reconciles     *)
(* before its first cycle.  The firmware part of NewSession is Session's.  *)
Start(ctl) ==
    /\ pc = "down"
    /\ st' = disk
    /\ control' = ctl
    /\ state' = IF disk.adopted THEN "CONNECTED" ELSE "PENDING"
    /\ everApplied' = IsApplied(disk)
    /\ everOutlet' = FALSE
    /\ fresh' = {} /\ layout' = NoLayout /\ failures' = 0
    /\ snap' = live /\ seen' = live
    /\ trusted' = IF kind = "ports" /\ IsApplied(disk) THEN Occs(live) ELSE {}
    /\ \E ok \in Outcomes(CanProvision(disk.adopted)) :
         /\ Provision(live, disk.adopted, ctl, ok)
         /\ Spending(Fault(ok))
    /\ Reconcile(disk, ctl)
    /\ UNCHANGED <<disk, device, nextOcc, agreed>>

(* The process ends, at any point of its cycle. *)
Crash ==
    /\ pc # "down"
    /\ Spend("crashes")
    /\ pc' = "down" /\ job' = NoJob
    /\ st' = FreshState /\ state' = "PENDING" /\ control' = FALSE
    /\ everApplied' = FALSE /\ everOutlet' = FALSE
    /\ fresh' = {} /\ layout' = NoLayout /\ failures' = 0
    /\ snap' = [p \in Slots |-> Free] /\ seen' = [p \in Slots |-> Free]
    /\ trusted' = {}
    /\ UNCHANGED <<disk, device, controller, nextOcc, agreed>>

---------------------------------------------------------------------------
(* collect: a poll that succeeded.  The first one of a process is the      *)
(* baseline of the layout; after that, an occupant that was not there at   *)
(* the last layout is fresh, and the controller is provisioned from it.    *)
Arrivals(slots) == {p \in Slots : slots[p].occ \notin {0, layout[p]}}

Collect ==
    LET occs == [p \in Slots |-> live[p].occ]
        baseline == layout = NoLayout
        changed == layout \notin {NoLayout, occs}
    IN  /\ pc = "idle"
        /\ pc' = "inform"
        /\ snap' = live /\ seen' = live
        /\ failures' = 0
        /\ layout' = occs
        /\ fresh' = IF changed THEN fresh \cup Arrivals(live) ELSE fresh
        /\ trusted' = IF baseline /\ everApplied /\ kind = "ports"
                      THEN trusted \cup Occs(live) ELSE trusted
        /\ \E ok \in Outcomes(changed /\ CanProvision(st.adopted)) :
             /\ IF changed THEN Provision(live, st.adopted, control, ok) ELSE UNCHANGED controller
             /\ Spending(Fault(ok))
        /\ UNCHANGED <<st, disk, state, control, everApplied, everOutlet, job,
                       device, nextOcc, agreed>>

(* A poll that failed keeps the previous snapshot.  After StaleAfter in a  *)
(* row the cycle ends here: no inform and no reconcile.                    *)
CollectFailed ==
    /\ pc = "idle"
    /\ Spend("faults")
    /\ failures' = failures + 1
    /\ pc' = IF failures + 1 < StaleAfter THEN "inform" ELSE "idle"
    /\ UNCHANGED <<st, disk, state, control, everApplied, everOutlet, fresh, layout,
                   job, snap, seen, device, controller, history>>

---------------------------------------------------------------------------
(* The controller (external), as the recorded replies show it: it adopts a *)
(* device it was told to with a setparam that carries the key and a        *)
(* version of its own, pushes its config until the device reports its      *)
(* version, resets a device it was told to forget, and answers every other *)
(* inform with an error status.                                            *)
AdoptionVersion == 1

Adopting == cState \in {"wanted", "managed"} /\ st.key = DefaultKey
Knows == cState = "managed" /\ st.key # DefaultKey
Resetting == cState = "forgotten" /\ st.key # DefaultKey

Answers == Adopting \/ Knows \/ Resetting

Reply ==
    CASE Adopting -> Setparam(TRUE, AdoptionVersion, NoCfg, "unset")
      [] Knows /\ st.cfgVersion # cVer -> Setparam(FALSE, cVer, Text(cCfg), "unset")
      [] Resetting -> Cmd("setdefault")
      [] OTHER -> Cmd("noop")

(* What receiving the inform does to the controller. *)
Received ==
    CASE cState = "wanted" /\ st.key = DefaultKey ->
            cState' = "managed" /\ cVer' = cVer + 1 /\ UNCHANGED cCfg
      [] cState = "forgotten" /\ st.key = DefaultKey ->
            cState' = "none" /\ UNCHANGED <<cVer, cCfg>>
      [] OTHER -> UNCHANGED controller

(* Mutant: a factory reset keeps the loop's state. *)
AfterEffectsNoReset(r) ==
    IF r.type = "setparam" /\ AdoptsKey(st, r) THEN "ADOPTING" ELSE state

(* The effects of a reply on Loop.state: CONNECTED is only reached by a    *)
(* reply to an inform that was sent adopted.                               *)
AfterEffects(r) ==
    CASE r.type = "setdefault" -> "PENDING"
      [] r.type = "setparam" /\ AdoptsKey(st, r) -> "ADOPTING"
      [] OTHER -> state

(* informOnce: the inform is answered; the session takes the reply and     *)
(* persists what changed, the handshake may complete and provision, and    *)
(* the cycle goes on to the pending push, or to a reconcile.               *)
Exchange ==
    LET r == Reply
        s == ApplyReply(st, r, NoFw)
        connected == state = "ADOPTING" /\ s.adopted /\ AfterEffects(r) = "ADOPTING"
    IN  /\ pc = "inform" /\ Answers
        /\ st' = s
        /\ state' = IF connected THEN "CONNECTED" ELSE AfterEffects(r)
        /\ \E saved \in Outcomes(s # st), ok \in Outcomes(connected /\ CanProvision(s.adopted)) :
             /\ disk' = IF s # st /\ saved THEN s ELSE disk
             /\ IF connected THEN Provision(snap, s.adopted, control, ok) ELSE Received
             /\ Spending(Fault(saved) + Fault(ok))
        /\ agreed' = IF r.type = "setdefault" THEN {} ELSE agreed
        /\ ApplyPendingOrReconcile(s)
        /\ UNCHANGED <<control, everApplied, everOutlet, fresh, layout, failures, snap,
                       seen, device, nextOcc, trusted>>

(* Mutant: a cycle without an answer ends without a reconcile. *)
UnansweredNoReconcile ==
    /\ pc = "inform"
    /\ Received \/ UNCHANGED controller
    /\ Finish
    /\ UNCHANGED <<st, disk, state, control, everApplied, everOutlet, fresh, layout,
                   failures, snap, seen, device, history, left>>

(* The inform or its reply is lost, or the answer is an error status: the  *)
(* deferred reconcile still runs.                                          *)
Unanswered ==
    /\ pc = "inform"
    /\ Received \/ UNCHANGED controller
    /\ Reconcile(st, control)
    /\ UNCHANGED <<st, disk, state, control, everApplied, everOutlet, fresh, layout,
                   failures, snap, seen, device, history, left>>

---------------------------------------------------------------------------
(* Applying a push or a reconcile. *)

(* addressIntent: a static address is applied whenever it is pushed; DHCP, *)
(* which is also the default of every adopted device, only when the push   *)
(* followed before was static.                                             *)
AddressIntent(prev, cfg) ==
    CASE cfg.addr = "static" -> "static"
      [] cfg.addr = "dhcp" /\ prev # NoCfg /\ prev.addr = "static" -> "dhcp"
      [] OTHER -> devAddr

(* ensureVLANs, applyDeviceSettings, applyNUT, applySyslog, installSSHKeys *)
(* and applyAddress: an error is logged and the apply goes on.  Without    *)
(* port or outlet control this is all there is, and a push counts as       *)
(* followed.                                                               *)
ApplySettings ==
    /\ pc = "settings"
    /\ \E devOk, addrOk \in BOOLEAN :
         /\ devSettings' = IF devOk THEN job.cfg.dev ELSE devSettings
         /\ devAddr' = IF addrOk THEN AddressIntent(job.prev, job.cfg) ELSE devAddr
         /\ devOk \/ job.cfg.dev # devSettings
         /\ addrOk \/ AddressIntent(job.prev, job.cfg) # devAddr
         /\ Spending(Fault(devOk) + Fault(addrOk))
    /\ CASE ~control /\ job.why = "push" -> pc' = "mark" /\ UNCHANGED job
         [] ~control /\ job.why = "reconcile" -> Finish
         [] control /\ kind = "ports" /\ job.why = "push" -> pc' = "write" /\ UNCHANGED job
         [] OTHER -> pc' = "plan" /\ UNCHANGED job
    /\ UNCHANGED <<st, disk, state, control, everApplied, everOutlet, fresh, layout, failures,
                   snap, seen, kind, live, controller, history>>

(* PlanPorts / PlanOutlets: the slots the apply would change, against what *)
(* the driver saw last.                                                    *)
WouldChange == {p \in Slots : seen[p].occ # 0 /\ seen[p].val # job.cfg.ports[p]}

Matching == {seen[p].occ : p \in Slots \ WouldChange} \ {0}

(* holdInitialPush and holdInitialOutletPush.  The first is consulted for  *)
(* pushes only, the second for reconciles too; control.allow_initial_      *)
(* changes reaches the loop only where ports are controlled.               *)
Holds ==
    /\ Planner /\ WouldChange # {}
    /\ \/ kind = "ports" /\ job.why = "push" /\ ~everApplied /\ ~AllowInitial
       \/ kind = "outlets" /\ ~everOutlet

(* Mutant: ports that arrived are written like the others. *)
WithheldNone == {}

(* withholdFreshPorts *)
Withheld == IF Planner /\ ~AllowInitial /\ kind = "ports" THEN fresh \cap WouldChange ELSE {}

PlanHeld ==
    /\ pc = "plan" /\ Holds
    /\ Finish
    /\ \E ok \in Outcomes(CanProvision(st.adopted)) :
         /\ Provision(snap, st.adopted, control, ok)
         /\ Spending(Fault(ok))
    /\ UNCHANGED <<st, disk, state, control, everApplied, everOutlet, fresh, layout, failures,
                   snap, seen, device, history>>

Plan ==
    /\ pc = "plan" /\ ~Holds
    /\ job' = [job EXCEPT !.slots = Slots \ Withheld]
    /\ fresh' = IF Planner /\ ~AllowInitial THEN Withheld ELSE fresh
    /\ pc' = IF kind = "ports" /\ job.why = "push" THEN "settings" ELSE "write"
    /\ trusted' = trusted \cup Matching
    /\ agreed' = IF job.ver > AdoptionVersion THEN agreed \cup Matching ELSE agreed
    /\ UNCHANGED <<st, disk, state, control, everApplied, everOutlet, layout, failures,
                   snap, seen, device, controller, nextOcc, left>>

(* ApplyPorts / ApplyOutlets: the driver writes the difference between the *)
(* desired state and what it saw last.  What it saw may be gone: a guest   *)
(* that left or was replaced cannot be written, which is an error.         *)
ToWrite == job.slots \cap WouldChange
Gone == {p \in ToWrite : live[p].occ # seen[p].occ}

Written(slots, done) ==
    [p \in Slots |-> IF p \in done THEN [slots[p] EXCEPT !.val = job.cfg.ports[p]] ELSE slots[p]]

Write ==
    /\ pc = "write" /\ Gone = {}
    /\ live' = Written(live, ToWrite)
    /\ seen' = Written(seen, ToWrite)
    /\ everApplied' = (everApplied \/ job.why = "push")
    /\ everOutlet' = (everOutlet \/ kind = "outlets")
    /\ IF job.why = "push" THEN pc' = "mark" /\ UNCHANGED job ELSE Finish
    /\ UNCHANGED <<st, disk, state, control, fresh, layout, failures, snap, kind, devAddr,
                   devSettings, controller, history, left>>

(* Mutant: the driver's error is dropped, the push is marked applied. *)
WriteErrorDropped ==
    /\ pc = "write"
    /\ Spending(Fault(Gone # {}))
    /\ \E done \in SUBSET (ToWrite \ Gone) :
         live' = Written(live, done) /\ seen' = Written(seen, done)
    /\ IF job.why = "push" THEN pc' = "mark" /\ UNCHANGED job ELSE Finish
    /\ UNCHANGED <<st, disk, state, control, everApplied, everOutlet, fresh, layout, failures,
                   snap, kind, devAddr, devSettings, controller, history>>

(* Any part of the writes may have been made when the driver gives up; the *)
(* push stays pending.                                                     *)
WriteFailed ==
    /\ pc = "write"
    /\ Spending(Fault(Gone # {}))
    /\ \E done \in SUBSET (ToWrite \ Gone) :
         live' = Written(live, done) /\ seen' = Written(seen, done)
    /\ Finish
    /\ UNCHANGED <<st, disk, state, control, everApplied, everOutlet, fresh, layout, failures,
                   snap, kind, devAddr, devSettings, controller, history>>

(* session.MarkApplied and its save. *)
Mark ==
    /\ pc = "mark"
    /\ st' = MarkedApplied(st, job.ver)
    /\ \E saved \in Outcomes(st' # st) :
         /\ disk' = IF st' # st /\ saved THEN st' ELSE disk
         /\ Spending(Fault(saved))
    /\ Finish
    /\ UNCHANGED <<state, control, everApplied, everOutlet, fresh, layout, failures,
                   snap, seen, device, controller, history>>

---------------------------------------------------------------------------
(* What goes on around the bridge. *)

(* Someone changes a port or the settings behind the controller's back. *)
Drift(p) ==
    /\ Spend("drifts")
    /\ live[p].occ # 0
    /\ \E v \in Vals \ {live[p].val} : live' = [live EXCEPT ![p].val = v]
    /\ UNCHANGED <<bridge, kind, devAddr, devSettings, controller, history>>

DriftSettings(d) ==
    /\ Spend("drifts")
    /\ d # devSettings /\ devSettings' = d
    /\ UNCHANGED <<bridge, kind, live, devAddr, controller, history>>

(* A guest arrives on a port with its own config, or leaves it; a cage is  *)
(* split or joined.                                                        *)
Arrive(p, v) ==
    /\ kind = "ports"
    /\ Spend("moves")
    /\ live' = [live EXCEPT ![p] = [occ |-> nextOcc, val |-> v]]
    /\ nextOcc' = nextOcc + 1
    /\ UNCHANGED <<bridge, kind, devAddr, devSettings, controller, trusted, agreed>>

Depart(p) ==
    /\ kind = "ports" /\ live[p].occ # 0
    /\ Spend("moves")
    /\ live' = [live EXCEPT ![p] = Free]
    /\ UNCHANGED <<bridge, kind, devAddr, devSettings, controller, history>>

(* The operator at the controller. *)
Adopt ==
    /\ cState = "none" /\ cState' = "wanted"
    /\ UNCHANGED <<bridge, device, cVer, cCfg, history, left>>

Forget ==
    /\ cState = "managed" /\ Spend("forgets")
    /\ cState' = "forgotten" /\ cCfg' = FreshCfg
    /\ UNCHANGED <<bridge, device, cVer, nextOcc, trusted, agreed>>

Edit(cfg) ==
    /\ cState = "managed" /\ Spend("edits")
    /\ cfg # cCfg /\ cCfg' = cfg
    /\ cVer' = cVer + 1
    /\ UNCHANGED <<bridge, device, cState, nextOcc, trusted, agreed>>

EditPort(p, v) ==
    Edit([cCfg EXCEPT !.ports[p] = v])

EditAddr(a) ==
    Edit([cCfg EXCEPT !.addr = a])

EditSettings(d) ==
    Edit([cCfg EXCEPT !.dev = d])

---------------------------------------------------------------------------
LoopStep ==
    \/ Collect \/ CollectFailed \/ Exchange \/ Unanswered
    \/ ApplySettings \/ PlanHeld \/ Plan \/ Write \/ WriteFailed \/ Mark

Environment ==
    \/ \E p \in Slots : Drift(p) \/ Depart(p)
    \/ \E p \in Slots, v \in Vals : Arrive(p, v) \/ EditPort(p, v)
    \/ \E d \in Devs : DriftSettings(d) \/ EditSettings(d)
    \/ \E a \in Addrs : EditAddr(a)
    \/ Adopt \/ Forget

Next == LoopStep \/ (\E ctl \in Controls : Start(ctl)) \/ Crash \/ Environment

Spec == Init /\ [][Next]_vars

(* A process keeps cycling (Run loops for ever; a call that hangs is cut   *)
(* off by its timeout) and is started again when it ends (deploy: restart  *)
(* always).  Nothing is assumed of the controller, the network or people.  *)
Fairness == WF_vars(LoopStep) /\ WF_vars(\E ctl \in Controls : Start(ctl))

FairSpec == Spec /\ Fairness

---------------------------------------------------------------------------
(* Safety *)

(* state.go: CfgVersion is the version of SystemCfg.  Whenever the         *)
(* controller sees its own version reported and stops pushing, the config  *)
(* the bridge follows, in memory and after any restart, is exactly the     *)
(* controller's current config, through adoptions, forgets, edits, seeds,  *)
(* lost replies and failed saves.                                          *)
Synchronized(s) ==
    cState = "managed" /\ s.cfgVersion = cVer => s.systemCfg = Text(cCfg)

InSync == Synchronized(st) /\ Synchronized(disk)

(* loop.go: "the device keeps reporting the old cfgversion until" a push   *)
(* is applied.  A step that starts to claim a push leaves every controlled *)
(* slot that is not withheld as the push wants it, as far as the driver    *)
(* can see.                                                                *)
ClaimsPush == pc # "down" /\ pc' # "down" /\ st'.cfgVersion \notin {0, AdoptionVersion, st.cfgVersion}

ClaimedIsWritten ==
    [][ClaimsPush /\ control =>
        \A p \in Slots \ fresh :
            seen[p].occ # 0 => seen[p].val = st'.systemCfg.ports[p]]_vars

(* The bridge overwrites a port or an outlet only if, in this process,     *)
(* controller and device were once seen to agree on what is plugged in     *)
(* there -- or, for a port, if it was there when the process took its      *)
(* baseline and a push had been applied before.  This is what the first-   *)
(* push hold, the per-process outlet hold and the withholding of fresh     *)
(* ports (loop.go) promise together.                                       *)
BridgeWrites(p) == pc = "write" /\ pc' # "write" /\ live'[p] # live[p]

Guarded == Planner /\ ~AllowInitial

NoBlindWrite ==
    [][\A p \in Slots : Guarded /\ BridgeWrites(p) => live[p].occ \in trusted]_vars

(* The loop's state, the reported default flag and the key in use never    *)
(* contradict each other: PENDING exactly while the device is unadopted,   *)
(* which is exactly while it signs with the factory key.                   *)
StateAgrees ==
    pc # "down" =>
        /\ state = "PENDING" <=> ~st.adopted
        /\ st.adopted <=> st.key = AdoptedKey

---------------------------------------------------------------------------
(* Liveness *)

(* The comment of informOnce: a cycle reconciles whether or not the        *)
(* controller answered.  Once people stop changing the device it ends up,  *)
(* and stays, as the last applied push wants it, fresh ports aside, even   *)
(* if no inform is ever answered again.                                    *)
AsApplied ==
    pc # "down" /\ control /\ kind = "ports" /\ IsApplied(st) =>
        /\ devSettings = st.systemCfg.dev
        /\ \A p \in Slots \ fresh :
                live[p].occ # 0 => live[p].val = st.systemCfg.ports[p]

Converges == <>[]AsApplied

(* The first push of an adoption waits for an operator: a port is          *)
(* configured in the controller otherwise than the device has it.          *)
Conflict == ~everApplied /\ \E p \in Slots : live[p].occ # 0 /\ live[p].val # Text(cCfg).ports[p]

(* If informs keep being answered, an adoption that was asked for          *)
(* completes and the device ends up reporting the controller's version,    *)
(* unless its first push is held by such a conflict.                       *)
Settled ==
    /\ cState # "wanted"
    /\ cState = "managed" /\ pc # "down" =>
          state = "CONNECTED" /\ (st.cfgVersion = cVer \/ Conflict)

Completes == []<><<Exchange>>_vars => <>[]Settled

---------------------------------------------------------------------------
(* What comments of the code promise and the code does not keep. *)

(* Config.AllowInitialChanges and Loop.freshPorts: "The loop holds such a  *)
(* push until a push arrives that changes nothing"; ports that appeared    *)
(* "are not written until a push matches their live state".                *)
WrittenOnlyIfAgreed ==
    [][\A p \in Slots : Guarded /\ BridgeWrites(p) => live[p].occ \in agreed]_vars

===========================================================================

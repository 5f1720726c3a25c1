------------------------- MODULE InformLoopProofs -------------------------
(* Theorems about the inform loop, for every number of slots, every set of *)
(* settings and every bound on what may go wrong.                          *)
EXTENDS InformLoop, TLAPS

---------------------------------------------------------------------------
(* What the operators of the model return. *)

(* Whatever reply the modelled controller sends, the session's state stays *)
(* a state.                                                                *)
LEMMA ReplyType ==
    ASSUME TypeOK
    PROVE  /\ ApplyReply(st, Reply, NoFw) \in States
           /\ Text(cCfg) \in Cfgs
<1>1. Text(cCfg) \in Cfgs
    BY CfgsAssumption, LoopAssumption DEF TypeOK, Text, Overrides, Vals
<1>2. CASE Reply = Setparam(TRUE, AdoptionVersion, NoCfg, "unset")
    BY <1>1, <1>2 DEF TypeOK, States, ApplyReply, ApplySetparam, ParkOrClaim, AdoptsKey,
        Setparam, AdoptionVersion, Keys, AdoptedKey, DefaultKey
<1>3. CASE Reply = Setparam(FALSE, cVer, Text(cCfg), "unset")
    BY <1>1, <1>3 DEF TypeOK, States, ApplyReply, ApplySetparam, ParkOrClaim, AdoptsKey,
        Setparam, Keys, AdoptedKey, DefaultKey
<1>4. CASE Reply = Cmd("setdefault")
    BY <1>1, <1>4 DEF TypeOK, States, ApplyReply, SetDefault, Cmd, Keys, DefaultKey
<1>5. CASE Reply = Cmd("noop")
    BY <1>1, <1>5 DEF TypeOK, ApplyReply, Cmd
<1> QED
    BY <1>2, <1>3, <1>4, <1>5 DEF Reply, Adopting, Knows, Resetting

LEMMA SeededType ==
    ASSUME TypeOK, NEW slots \in [Slots -> Contents], NEW seed \in BOOLEAN
    PROVE  Seeded(cCfg, slots, seed) \in [ports : [Slots -> Overrides], addr : Addrs, dev : Devs]
<1>1. \A p \in Slots : SeedOverride(cCfg.ports[p], slots[p], seed) \in Overrides
    BY DEF TypeOK, SeedOverride, Overrides, Vals, Contents
<1> QED
    BY <1>1 DEF TypeOK, Seeded

LEMMA ProvisionType ==
    ASSUME TypeOK, NEW slots \in [Slots -> Contents], NEW adopted \in BOOLEAN,
           NEW seed \in BOOLEAN, NEW ok \in BOOLEAN, Provision(slots, adopted, seed, ok)
    PROVE  /\ cState' = cState
           /\ cVer' \in Nat
           /\ cCfg' \in [ports : [Slots -> Overrides], addr : Addrs, dev : Devs]
BY SeededType DEF TypeOK, Provision, controller

LEMMA BeginType ==
    ASSUME NEW s \in States, NEW why \in {"push", "reconcile"}, NEW ctl \in BOOLEAN,
           why = "push" => IsPending(s), why = "reconcile" => IsApplied(s),
           Begin(s, why, ctl)
    PROVE  job' \in Jobs /\ pc' \in {"plan", "settings"}
BY DEF States, IsPending, IsApplied, Begin, Jobs

LEMMA ReconcileType ==
    ASSUME NEW s \in States, NEW ctl \in BOOLEAN, Reconcile(s, ctl)
    PROVE  job' \in Jobs \cup {NoJob} /\ pc' \in {"plan", "settings", "idle"}
BY BeginType DEF Reconcile, Finish

LEMMA SpendingType ==
    ASSUME TypeOK, NEW n \in Nat, Spending(n)
    PROVE  left' \in [Causes -> Nat]
BY DEF TypeOK, Spending, Causes

LEMMA SpendType ==
    ASSUME TypeOK, NEW c \in Causes, Spend(c)
    PROVE  left' \in [Causes -> Nat]
BY DEF TypeOK, Spend

LEMMA ReceivedType ==
    ASSUME TypeOK, Received
    PROVE  /\ cState' \in {"none", "wanted", "managed", "forgotten"}
           /\ cVer' \in Nat
           /\ cCfg' = cCfg
BY DEF TypeOK, Received, controller

LEMMA WrittenType ==
    ASSUME TypeOK, job \in Jobs, NEW slots \in [Slots -> Contents], NEW done \in SUBSET Slots
    PROVE  Written(slots, done) \in [Slots -> Contents]
BY CfgsAssumption DEF Written, Contents, Jobs, Vals

(* While an apply is under way there is a job. *)
JobRuns == pc \in {"settings", "plan", "write", "mark"} => job \in Jobs

LEMMA JobBegins ==
    ASSUME NEW s \in States, NEW ctl \in BOOLEAN,
           \/ Reconcile(s, ctl)
           \/ IsPending(s) /\ Begin(s, "push", ctl)
    PROVE  /\ job' \in Jobs \cup {NoJob} /\ pc' \in {"plan", "settings", "idle"}
           /\ JobRuns'
BY BeginType DEF Reconcile, Finish, JobRuns

---------------------------------------------------------------------------
(* Type correctness. *)

LEMMA InitType == Init => TypeOK /\ JobRuns
<1> SUFFICES ASSUME Init PROVE TypeOK /\ JobRuns
    OBVIOUS
<1>1. live \in [Slots -> Contents] /\ Free \in Contents
    BY DEF Init, Contents, Occupants, Free, Vals
<1>2. FreshState \in States
    BY DEF FreshState, States, Keys
<1>3. FreshCfg \in [ports : [Slots -> Overrides], addr : Addrs, dev : Devs]
    BY LoopAssumption DEF FreshCfg, Overrides
<1>4. left \in [Causes -> Nat] /\ nextOcc \in Nat
    BY LoopAssumption DEF Init
<1>5. snap \in [Slots -> Contents] /\ seen \in [Slots -> Contents]
    BY <1>1 DEF Init
<1>6. pc = "down" /\ JobRuns
    BY DEF Init, JobRuns
<1> QED
    BY <1>1, <1>2, <1>3, <1>4, <1>5, <1>6 DEF Init, TypeOK

LEMMA StartType ==
    ASSUME TypeOK, NEW ctl \in Controls, Start(ctl)
    PROVE  TypeOK' /\ JobRuns'
<1>1. PICK ok \in BOOLEAN : Provision(live, disk.adopted, ctl, ok) /\ Spending(Fault(ok))
    BY DEF Start, Outcomes
<1>2. ctl \in BOOLEAN /\ disk.adopted \in BOOLEAN
    BY LoopAssumption DEF TypeOK, States
<1>3. /\ cState' = cState
      /\ cVer' \in Nat
      /\ cCfg' \in [ports : [Slots -> Overrides], addr : Addrs, dev : Devs]
    BY <1>1, <1>2, ProvisionType DEF TypeOK
<1>4. left' \in [Causes -> Nat]
    BY <1>1, SpendingType DEF Fault
<1>5. /\ job' \in Jobs \cup {NoJob} /\ pc' \in {"plan", "settings", "idle"}
      /\ JobRuns'
    BY <1>2, JobBegins DEF Start, TypeOK
<1>6. Occs(live) \subseteq Nat
    BY DEF Occs, TypeOK, Contents, Occupants
<1> QED
    BY <1>2, <1>3, <1>4, <1>5, <1>6 DEF Start, TypeOK, device, IsApplied

LEMMA CollectType ==
    ASSUME TypeOK, Collect
    PROVE  TypeOK' /\ JobRuns'
<1>1. PICK ok \in BOOLEAN :
        /\ \/ Provision(live, st.adopted, control, ok)
           \/ UNCHANGED controller
        /\ Spending(Fault(ok))
    BY DEF Collect, Outcomes
<1>2. /\ cState' = cState
      /\ cVer' \in Nat
      /\ cCfg' \in [ports : [Slots -> Overrides], addr : Addrs, dev : Devs]
    BY <1>1, ProvisionType DEF TypeOK, States, controller
<1>3. left' \in [Causes -> Nat]
    BY <1>1, SpendingType DEF Fault
<1>4. Occs(live) \subseteq Nat
    BY DEF Occs, TypeOK, Contents, Occupants
<1>5. [p \in Slots |-> live[p].occ] \in [Slots -> Occupants]
    BY DEF TypeOK, Contents
<1>6. layout' \in [Slots -> Occupants] \cup {NoLayout}
    BY <1>5 DEF Collect
<1>7. fresh' \subseteq Slots
    BY DEF Collect, TypeOK, Arrivals
<1> QED
    BY <1>2, <1>3, <1>4, <1>6, <1>7 DEF Collect, TypeOK, device, JobRuns

LEMMA ExchangeType ==
    ASSUME TypeOK, Exchange
    PROVE  TypeOK' /\ JobRuns'
<1> DEFINE s == ApplyReply(st, Reply, NoFw)
<1>1. s \in States
    BY ReplyType
<1>2. PICK saved \in BOOLEAN, ok \in BOOLEAN :
        /\ disk' \in {s, disk}
        /\ Provision(snap, s.adopted, control, ok) \/ Received
        /\ Spending(Fault(saved) + Fault(ok))
    BY DEF Exchange, Outcomes
<1>3. /\ cState' \in {"none", "wanted", "managed", "forgotten"}
      /\ cVer' \in Nat
      /\ cCfg' \in [ports : [Slots -> Overrides], addr : Addrs, dev : Devs]
  <2>1. s.adopted \in BOOLEAN /\ control \in BOOLEAN /\ snap \in [Slots -> Contents]
    BY <1>1 DEF TypeOK, States
  <2> QED
    BY <1>2, <2>1, ProvisionType, ReceivedType DEF TypeOK
<1>4. left' \in [Causes -> Nat]
  <2>1. Fault(saved) + Fault(ok) \in Nat
    BY DEF Fault
  <2> QED
    BY <1>2, <2>1, SpendingType
<1>5. /\ job' \in Jobs \cup {NoJob} /\ pc' \in {"plan", "settings", "idle"}
      /\ JobRuns'
    BY <1>1, JobBegins DEF Exchange, ApplyPendingOrReconcile, TypeOK
<1>6. state' \in {"PENDING", "ADOPTING", "CONNECTED"}
    BY DEF Exchange, AfterEffects, TypeOK
<1> QED
    BY <1>1, <1>2, <1>3, <1>4, <1>5, <1>6 DEF Exchange, TypeOK, device

LEMMA ApplySettingsType ==
    ASSUME TypeOK, JobRuns, ApplySettings
    PROVE  TypeOK' /\ JobRuns'
<1>1. job \in Jobs /\ job.cfg.dev \in Devs /\ job.cfg.addr \in Addrs
    BY CfgsAssumption DEF JobRuns, ApplySettings, Jobs
<1>2. AddressIntent(job.prev, job.cfg) \in Addrs
    BY <1>1, LoopAssumption DEF AddressIntent, TypeOK
<1>3. PICK devOk \in BOOLEAN, addrOk \in BOOLEAN :
        /\ devSettings' = IF devOk THEN job.cfg.dev ELSE devSettings
        /\ devAddr' = IF addrOk THEN AddressIntent(job.prev, job.cfg) ELSE devAddr
        /\ devOk \/ job.cfg.dev # devSettings
        /\ addrOk \/ AddressIntent(job.prev, job.cfg) # devAddr
        /\ Spending(Fault(devOk) + Fault(addrOk))
    BY Zenon DEF ApplySettings
<1>4. left' \in [Causes -> Nat]
  <2>1. Fault(devOk) + Fault(addrOk) \in Nat
    BY DEF Fault
  <2> QED
    BY <1>3, <2>1, SpendingType
<1>5. devSettings' \in Devs /\ devAddr' \in Addrs
    BY <1>1, <1>2, <1>3 DEF TypeOK
<1>6. /\ pc' \in {"mark", "idle", "write", "plan"}
      /\ \/ job' = job
         \/ pc' = "idle" /\ job' = NoJob
    BY DEF ApplySettings, Finish
<1> QED
    BY <1>1, <1>4, <1>5, <1>6 DEF ApplySettings, TypeOK, JobRuns, controller, history

LEMMA ApplyType ==
    ASSUME TypeOK, JobRuns, PlanHeld \/ Plan \/ Write \/ WriteFailed \/ Mark
    PROVE  TypeOK' /\ JobRuns'
<1>1. job \in Jobs
    BY DEF JobRuns, PlanHeld, Plan, Write, WriteFailed, Mark
<1>2. ToWrite \subseteq Slots /\ Withheld \subseteq Slots
    BY DEF ToWrite, WouldChange, Withheld
<1>3. CASE PlanHeld
  <2>1. PICK ok \in BOOLEAN : Provision(snap, st.adopted, control, ok) /\ Spending(Fault(ok))
    BY <1>3 DEF PlanHeld, Outcomes
  <2>2. st.adopted \in BOOLEAN /\ control \in BOOLEAN /\ snap \in [Slots -> Contents]
    BY DEF TypeOK, States
  <2>3. /\ cState' = cState
        /\ cVer' \in Nat
        /\ cCfg' \in [ports : [Slots -> Overrides], addr : Addrs, dev : Devs]
    BY <2>1, <2>2, ProvisionType
  <2>4. left' \in [Causes -> Nat]
    BY <2>1, SpendingType DEF Fault
  <2> QED
    BY <1>3, <2>3, <2>4 DEF PlanHeld, Finish, TypeOK, JobRuns, device, history
<1>4. CASE Plan
  <2>1. job' \in Jobs /\ fresh' \subseteq Slots /\ pc' \in {"settings", "write"}
    BY <1>1, <1>2, <1>4 DEF Plan, Jobs, TypeOK
  <2>2. Matching \subseteq Nat
    BY DEF Matching, TypeOK, Contents, Occupants
  <2>3. trusted' \subseteq Nat /\ agreed' \subseteq Nat
    BY <1>4, <2>2 DEF Plan, TypeOK
  <2> QED
    BY <1>4, <2>1, <2>3 DEF Plan, TypeOK, JobRuns, device, controller
<1>5. CASE Write
  <2>1. live' \in [Slots -> Contents] /\ seen' \in [Slots -> Contents]
    BY <1>1, <1>2, <1>5, WrittenType DEF Write, TypeOK
  <2>2. everApplied' \in BOOLEAN /\ everOutlet' \in BOOLEAN
    BY <1>5 DEF Write, TypeOK
  <2>3. pc' \in {"mark", "idle"} /\ job' \in {job, NoJob} /\ (pc' = "mark" => job' = job)
    BY <1>5 DEF Write, Finish
  <2> QED
    BY <1>1, <1>5, <2>1, <2>2, <2>3 DEF Write, TypeOK, JobRuns, controller, history
<1>6. CASE WriteFailed
  <2>1. PICK done \in SUBSET (ToWrite \ Gone) :
            live' = Written(live, done) /\ seen' = Written(seen, done)
    BY <1>6 DEF WriteFailed
  <2>2. live' \in [Slots -> Contents] /\ seen' \in [Slots -> Contents]
    BY <1>1, <1>2, <2>1, WrittenType DEF TypeOK
  <2>3. left' \in [Causes -> Nat]
    BY <1>6, SpendingType DEF WriteFailed, Fault
  <2> QED
    BY <1>6, <2>2, <2>3 DEF WriteFailed, Finish, TypeOK, JobRuns, controller, history
<1>7. CASE Mark
  <2>1. st' \in States
    BY <1>7 DEF Mark, MarkedApplied, States, TypeOK
  <2>2. PICK saved \in BOOLEAN : disk' \in {st', disk} /\ Spending(Fault(saved))
    BY <1>7 DEF Mark, Outcomes
  <2>3. left' \in [Causes -> Nat]
    BY <2>2, SpendingType DEF Fault
  <2> QED
    BY <1>7, <2>1, <2>2, <2>3 DEF Mark, Finish, TypeOK, JobRuns, device, controller, history
<1> QED
    BY <1>3, <1>4, <1>5, <1>6, <1>7

LEMMA OtherStepsType ==
    ASSUME TypeOK, JobRuns, CollectFailed \/ Unanswered \/ Crash
    PROVE  TypeOK' /\ JobRuns'
<1>1. CASE CollectFailed
    BY <1>1, SpendType DEF CollectFailed, TypeOK, JobRuns, device, controller, history, Causes
<1>2. CASE Unanswered
  <2>1. /\ cState' \in {"none", "wanted", "managed", "forgotten"}
        /\ cVer' \in Nat
        /\ cCfg' = cCfg
    BY <1>2, ReceivedType DEF Unanswered, controller, TypeOK
  <2>2. /\ job' \in Jobs \cup {NoJob} /\ pc' \in {"plan", "settings", "idle"}
        /\ JobRuns'
    BY <1>2, JobBegins DEF Unanswered, TypeOK
  <2> QED
    BY <1>2, <2>1, <2>2 DEF Unanswered, TypeOK, device, history
<1>3. CASE Crash
  <2>1. FreshState \in States /\ [p \in Slots |-> Free] \in [Slots -> Contents]
    BY DEF FreshState, States, Keys, Free, Contents, Occupants, Vals
  <2>2. left' \in [Causes -> Nat]
    BY <1>3, SpendType DEF Crash, Causes
  <2> QED
    BY <1>3, <2>1, <2>2 DEF Crash, TypeOK, JobRuns, device, controller
<1> QED
    BY <1>1, <1>2, <1>3

LEMMA EnvironmentType ==
    ASSUME TypeOK, JobRuns, Environment
    PROVE  TypeOK' /\ JobRuns'
<1>1. ASSUME NEW p \in Slots, Drift(p) PROVE TypeOK' /\ JobRuns'
  <2>1. live' \in [Slots -> Contents]
    BY <1>1 DEF Drift, TypeOK, Contents
  <2> QED
    BY <1>1, <2>1, SpendType DEF Drift, TypeOK, JobRuns, bridge, controller, history, Causes
<1>2. ASSUME NEW p \in Slots, Depart(p) PROVE TypeOK' /\ JobRuns'
  <2>1. live' \in [Slots -> Contents]
    BY <1>2 DEF Depart, TypeOK, Contents, Free, Occupants, Vals
  <2> QED
    BY <1>2, <2>1, SpendType DEF Depart, TypeOK, JobRuns, bridge, controller, history, Causes
<1>3. ASSUME NEW p \in Slots, NEW v \in Vals, Arrive(p, v) PROVE TypeOK' /\ JobRuns'
  <2>1. live' \in [Slots -> Contents] /\ nextOcc' \in Nat
    BY <1>3 DEF Arrive, TypeOK, Contents, Occupants
  <2> QED
    BY <1>3, <2>1, SpendType DEF Arrive, TypeOK, JobRuns, bridge, controller, Causes
<1>4. ASSUME NEW d \in Devs, DriftSettings(d) PROVE TypeOK' /\ JobRuns'
    BY <1>4, SpendType DEF DriftSettings, TypeOK, JobRuns, bridge, controller, history, Causes
<1>5. ASSUME NEW cfg \in [ports : [Slots -> Overrides], addr : Addrs, dev : Devs], Edit(cfg)
      PROVE  TypeOK' /\ JobRuns'
    BY <1>5, SpendType DEF Edit, TypeOK, JobRuns, bridge, device, Causes
<1>6. ASSUME NEW p \in Slots, NEW v \in Vals, EditPort(p, v) PROVE TypeOK' /\ JobRuns'
    BY <1>5, <1>6 DEF EditPort, TypeOK, Overrides
<1>7. ASSUME NEW d \in Devs, EditSettings(d) PROVE TypeOK' /\ JobRuns'
    BY <1>5, <1>7 DEF EditSettings, TypeOK
<1>8. ASSUME NEW a \in Addrs, EditAddr(a) PROVE TypeOK' /\ JobRuns'
    BY <1>5, <1>8 DEF EditAddr, TypeOK
<1>9. CASE Adopt
    BY <1>9 DEF Adopt, TypeOK, JobRuns, bridge, device, history
<1>10. CASE Forget
  <2>1. cCfg' \in [ports : [Slots -> Overrides], addr : Addrs, dev : Devs]
    BY <1>10, LoopAssumption DEF Forget, FreshCfg, Overrides
  <2> QED
    BY <1>10, <2>1, SpendType DEF Forget, TypeOK, JobRuns, bridge, device, Causes
<1> QED
    BY <1>1, <1>2, <1>3, <1>4, <1>6, <1>7, <1>8, <1>9, <1>10 DEF Environment

LEMMA NextType == TypeOK /\ JobRuns /\ [Next]_vars => TypeOK' /\ JobRuns'
<1> SUFFICES ASSUME TypeOK, JobRuns, [Next]_vars PROVE TypeOK' /\ JobRuns'
    OBVIOUS
<1>1. CASE LoopStep
    BY <1>1, CollectType, ExchangeType, ApplySettingsType, ApplyType, OtherStepsType DEF LoopStep
<1>2. ASSUME NEW ctl \in Controls, Start(ctl) PROVE TypeOK' /\ JobRuns'
    BY <1>2, StartType
<1>3. CASE Crash
    BY <1>3, OtherStepsType
<1>4. CASE Environment
    BY <1>4, EnvironmentType
<1>5. CASE UNCHANGED vars
    BY <1>5 DEF vars, bridge, device, controller, history, TypeOK, JobRuns
<1> QED
    BY <1>1, <1>2, <1>3, <1>4, <1>5 DEF Next

(* Every reachable state of the loop, the device and the controller is     *)
(* well typed, and every apply in progress has its push or its reconcile:  *)
(* a reconcile is never started without an applied system_cfg.             *)
THEOREM TypeCorrect == Spec => [](TypeOK /\ JobRuns)
<1> QED
    BY InitType, NextType, PTL DEF Spec

---------------------------------------------------------------------------
(* A claimed version means its text.  InSync alone is not inductive: a     *)
(* push is parked long before it is claimed.  The strengthening says the   *)
(* same of the pending push, and that no version the bridge holds is newer *)
(* than the controller's, so that every change the controller makes to its *)
(* config leaves all of them behind.                                       *)

Current(s, cs, ver, cfg) ==
    /\ s.cfgVersion <= ver /\ s.pendingCfgVersion <= ver
    /\ cs = "managed" =>
         /\ s.cfgVersion = ver => s.systemCfg = Text(cfg)
         /\ s.pendingCfgVersion = ver => s.pendingSystemCfg = Text(cfg)

VersionInv == cVer >= 1 /\ (cState = "managed" => cVer > AdoptionVersion)

SyncInv ==
    /\ VersionInv
    /\ Current(st, cState, cVer, cCfg)
    /\ Current(disk, cState, cVer, cCfg)

(* What any step does to the controller: nothing, a new version, or a      *)
(* device it does not manage.                                              *)
ControllerMoves ==
    \/ UNCHANGED controller
    \/ cVer' = cVer + 1
    \/ cVer' = cVer /\ cState' # "managed"

LEMMA MovesKeepVersion ==
    ASSUME TypeOK, VersionInv, ControllerMoves
    PROVE  VersionInv'
BY DEF TypeOK, VersionInv, ControllerMoves, controller, AdoptionVersion

LEMMA MovesKeepCurrent ==
    ASSUME TypeOK, ControllerMoves, NEW s \in States, Current(s, cState, cVer, cCfg)
    PROVE  Current(s, cState', cVer', cCfg')
BY DEF TypeOK, ControllerMoves, controller, Current, States

LEMMA ProvisionMoves ==
    ASSUME TypeOK, NEW slots, NEW adopted, NEW seed, NEW ok, Provision(slots, adopted, seed, ok)
    PROVE  ControllerMoves
BY DEF Provision, ControllerMoves, controller

LEMMA ReceivedMoves ==
    ASSUME TypeOK, Received
    PROVE  ControllerMoves
BY DEF Received, ControllerMoves, controller

LEMMA NextMoves ==
    ASSUME TypeOK, JobRuns, [Next]_vars
    PROVE  ControllerMoves
<1>1. ASSUME NEW ctl \in Controls, Start(ctl) PROVE ControllerMoves
    BY <1>1, ProvisionMoves DEF Start
<1>2. CASE Collect
    BY <1>2, ProvisionMoves DEF Collect, ControllerMoves
<1>3. CASE Exchange
    BY <1>3, ProvisionMoves, ReceivedMoves DEF Exchange
<1>4. CASE Unanswered
    BY <1>4, ReceivedMoves DEF Unanswered, ControllerMoves
<1>5. CASE PlanHeld
    BY <1>5, ProvisionMoves DEF PlanHeld
<1>6. CASE CollectFailed \/ ApplySettings \/ Plan \/ Write \/ WriteFailed \/ Mark \/ Crash
    BY <1>6 DEF CollectFailed, ApplySettings, Plan, Write, WriteFailed, Mark, Crash, ControllerMoves
<1>7. CASE Environment
    BY <1>7 DEF Environment, Drift, Depart, Arrive, DriftSettings, EditPort, EditSettings,
        EditAddr, Edit, Adopt, Forget, ControllerMoves, TypeOK
<1>8. CASE UNCHANGED vars
    BY <1>8 DEF vars, ControllerMoves
<1> QED
    BY <1>1, <1>2, <1>3, <1>4, <1>5, <1>6, <1>7, <1>8 DEF Next, LoopStep

(* What any step makes of the session's state and of the state file is     *)
(* either there already, or fresh, or the result of a reply or a mark.     *)
LEMMA ReplyCurrent ==
    ASSUME TypeOK, VersionInv, Current(st, cState, cVer, cCfg)
    PROVE  Current(ApplyReply(st, Reply, NoFw), cState, cVer, cCfg)
<1> DEFINE u == ApplyReply(st, Reply, NoFw)
<1>1. CASE Reply = Setparam(TRUE, AdoptionVersion, NoCfg, "unset")
  <2>1. ParkOrClaim(st, Reply) = [st EXCEPT !.cfgVersion = AdoptionVersion]
    BY <1>1 DEF ParkOrClaim, Setparam, AdoptionVersion
  <2>2. u = ApplySetparam(st, Reply)
    BY <1>1 DEF ApplyReply, Setparam
  <2>3. /\ u.cfgVersion = AdoptionVersion
        /\ u.pendingCfgVersion = st.pendingCfgVersion
        /\ u.pendingSystemCfg = st.pendingSystemCfg
    BY <2>1, <2>2 DEF TypeOK, States, ApplySetparam
  <2> HIDE DEF u
  <2>4. Current(u, cState, cVer, cCfg)
    BY <2>3 DEF TypeOK, VersionInv, Current, AdoptionVersion
  <2> QED
    BY <2>4 DEF u
<1>2. CASE Reply = Setparam(FALSE, cVer, Text(cCfg), "unset") /\ st.cfgVersion # cVer
  <2>1. Text(cCfg) # NoCfg
    BY ReplyType, NoCfgAssumption
  <2>2. ParkOrClaim(st, Reply) = [st EXCEPT !.pendingCfgVersion = cVer,
                                            !.pendingSystemCfg = Text(cCfg)]
    BY <1>2, <2>1 DEF ParkOrClaim, Setparam
  <2>3. u = ApplySetparam(st, Reply)
    BY <1>2 DEF ApplyReply, Setparam
  <2>4. /\ u.cfgVersion = st.cfgVersion
        /\ u.pendingCfgVersion = cVer
        /\ u.pendingSystemCfg = Text(cCfg)
    BY <2>2, <2>3 DEF TypeOK, States, ApplySetparam
  <2> HIDE DEF u
  <2>5. st.cfgVersion # cVer /\ cVer <= cVer /\ st.cfgVersion <= cVer
    BY <1>2 DEF TypeOK, Current
  <2>6. Current(u, cState, cVer, cCfg)
    BY <2>4, <2>5 DEF Current
  <2> QED
    BY <2>6 DEF u
<1>3. CASE Reply = Cmd("setdefault")
  <2>1. u = SetDefault(st)
    BY <1>3 DEF ApplyReply, Cmd
  <2>2. /\ u.cfgVersion = 0
        /\ u.pendingCfgVersion = st.pendingCfgVersion
        /\ u.pendingSystemCfg = st.pendingSystemCfg
    BY <2>1 DEF TypeOK, States, SetDefault
  <2> HIDE DEF u
  <2>3. Current(u, cState, cVer, cCfg)
    BY <2>2 DEF TypeOK, VersionInv, Current, AdoptionVersion
  <2> QED
    BY <2>3 DEF u
<1>4. CASE Reply = Cmd("noop")
    BY <1>4 DEF ApplyReply, Cmd
<1> QED
    BY <1>1, <1>2, <1>3, <1>4 DEF Reply, Adopting, Knows, Resetting

LEMMA MarkCurrent ==
    ASSUME TypeOK, VersionInv, Current(st, cState, cVer, cCfg)
    PROVE  Current(MarkedApplied(st, job.ver), cState, cVer, cCfg)
BY DEF TypeOK, States, MarkedApplied, Current, VersionInv, AdoptionVersion

LEMMA FreshCurrent ==
    ASSUME TypeOK, VersionInv
    PROVE  Current(FreshState, cState, cVer, cCfg)
BY DEF TypeOK, VersionInv, FreshState, Current, AdoptionVersion

LEMMA NextSync ==
    ASSUME TypeOK, JobRuns, SyncInv, [Next]_vars
    PROVE  SyncInv'
<1>1. TypeOK' /\ ControllerMoves /\ VersionInv'
    BY NextType, NextMoves, MovesKeepVersion DEF SyncInv
<1>2. Current(st', cState, cVer, cCfg) /\ Current(disk', cState, cVer, cCfg)
  <2>1. ASSUME NEW ctl \in Controls, Start(ctl) PROVE st' = disk /\ disk' = disk
    BY <2>1 DEF Start
  <2>2. CASE Exchange
    <3>1. st' = ApplyReply(st, Reply, NoFw) /\ disk' \in {st', disk}
        BY <2>2 DEF Exchange
    <3> QED
        BY <3>1, ReplyCurrent DEF SyncInv
  <2>3. CASE Mark
    <3>1. st' = MarkedApplied(st, job.ver) /\ disk' \in {st', disk}
        BY <2>3 DEF Mark
    <3> QED
        BY <3>1, MarkCurrent DEF SyncInv
  <2>4. CASE Crash
    BY <2>4, FreshCurrent DEF Crash, SyncInv
  <2>5. CASE Collect \/ CollectFailed \/ Unanswered \/ ApplySettings \/ PlanHeld \/ Plan \/ Write
             \/ WriteFailed
    BY <2>5 DEF Collect, CollectFailed, Unanswered, ApplySettings, PlanHeld, Plan, Write,
        WriteFailed, SyncInv
  <2>6. CASE Environment
    BY <2>6 DEF Environment, Drift, Depart, Arrive, DriftSettings, EditPort, EditSettings,
        EditAddr, Edit, Adopt, Forget, bridge, SyncInv
  <2>7. CASE UNCHANGED vars
    BY <2>7 DEF vars, bridge, SyncInv
  <2> QED
    BY <2>1, <2>2, <2>3, <2>4, <2>5, <2>6, <2>7 DEF Next, LoopStep, SyncInv
<1>3. Current(st', cState', cVer', cCfg') /\ Current(disk', cState', cVer', cCfg')
    BY <1>1, <1>2, MovesKeepCurrent DEF TypeOK
<1> QED
    BY <1>1, <1>3 DEF SyncInv

LEMMA InitSync == Init => SyncInv
BY DEF Init, SyncInv, VersionInv, Current, FreshState

(* For any number of slots and any number of faults, restarts, edits and   *)
(* forgets: whenever the controller sees its own version reported and so   *)
(* stops pushing, the system_cfg the bridge follows, in memory and in the  *)
(* state file, is the controller's current config.                         *)
THEOREM ClaimIsCurrent == Spec => []InSync
<1>1. SyncInv => InSync
    BY DEF SyncInv, Current, InSync, Synchronized
<1>2. TypeOK /\ JobRuns /\ SyncInv /\ [Next]_vars => SyncInv'
    BY NextSync
<1> QED
    BY <1>1, <1>2, InitSync, InitType, NextType, PTL DEF Spec

---------------------------------------------------------------------------
(* No blind writes.  The argument needs to know, all the time, why the     *)
(* driver's view of a slot may be written: everything seen there that is   *)
(* not marked fresh is trusted (Known), once a push was applied and from   *)
(* the moment an apply has passed its hold.                                *)

Known == \A p \in Slots \ fresh : seen[p].occ \in trusted \cup {0}

Pushing == job.why = "push"

(* The apply has passed the hold and the withholding. *)
Cleared == pc = "write" \/ (pc = "settings" /\ control /\ kind = "ports" /\ Pushing)

KnownInv ==
    /\ kind = "ports" /\ pc # "down" /\ everApplied => Known
    /\ kind = "outlets" /\ pc # "down" /\ everOutlet => Known
    /\ Cleared => Known /\ job.slots \cap fresh = {}

(* Port control and an applied push mean everApplied, in the very process  *)
(* that applied it and in every later one.                                 *)
AppliedInv ==
    /\ kind = "ports" /\ pc # "down" /\ control /\ IsApplied(st) => everApplied
    /\ kind = "ports" /\ pc \in {"settings", "plan"} /\ control /\ ~Pushing => everApplied
    /\ kind = "ports" /\ pc = "mark" /\ control => everApplied
    /\ pc = "plan" => control

(* The layout is the one of the last poll, and outlets do not move. *)
LayoutInv ==
    /\ layout # NoLayout => \A p \in Slots : layout[p] = seen[p].occ
    /\ kind = "outlets" => fresh = {}
    /\ kind = "outlets" /\ pc # "down" => \A p \in Slots : seen[p].occ = live[p].occ

BlindInv == Guarded => KnownInv /\ AppliedInv /\ LayoutInv

LEMMA InitBlind == Init => BlindInv
BY DEF Init, BlindInv, KnownInv, AppliedInv, LayoutInv, Cleared, Free

(* A push of a controlled switch starts with its plan, a reconcile with    *)
(* the settings and only after an applied push.                            *)
LEMMA BeginsWhere ==
    ASSUME NEW s, NEW ctl \in BOOLEAN,
           \/ Reconcile(s, ctl)
           \/ IsPending(s) /\ Begin(s, "push", ctl)
    PROVE  \/ pc' = "idle"
           \/ pc' = "settings" /\ job'.why = "reconcile" /\ IsApplied(s)
           \/ pc' = "settings" /\ ~(ctl /\ kind = "ports") /\ job'.why = "push"
           \/ pc' = "plan" /\ ctl /\ kind = "ports" /\ job'.why = "push"
BY DEF Reconcile, Begin, Finish

LEMMA StartBlind ==
    ASSUME TypeOK, NEW ctl \in Controls, Start(ctl)
    PROVE  BlindInv'
<1>1. ctl \in BOOLEAN
    BY LoopAssumption
<1>2. \/ pc' = "idle"
      \/ pc' = "settings" /\ job'.why = "reconcile" /\ IsApplied(disk)
  <2>1. Reconcile(disk, ctl)
    BY DEF Start
  <2> QED
    BY <2>1 DEF Reconcile, Begin, Finish
<1>3. /\ kind' = kind /\ control' = ctl /\ st' = disk
      /\ everApplied' = IsApplied(disk) /\ everOutlet' = FALSE
      /\ fresh' = {} /\ layout' = NoLayout /\ seen' = live /\ live' = live
      /\ trusted' = IF kind = "ports" /\ IsApplied(disk) THEN Occs(live) ELSE {}
    BY DEF Start, device
<1>4. KnownInv'
  <2>1. ASSUME kind' = "ports", everApplied' PROVE Known'
    BY <1>3, <2>1 DEF Known, Occs
  <2> QED
    BY <1>2, <1>3, <2>1 DEF KnownInv, Cleared, Pushing
<1>5. AppliedInv'
    BY <1>2, <1>3 DEF AppliedInv
<1>6. LayoutInv'
    BY <1>3 DEF LayoutInv
<1> QED
    BY <1>4, <1>5, <1>6 DEF BlindInv

LEMMA CollectBlind ==
    ASSUME TypeOK, BlindInv, Guarded, Collect
    PROVE  BlindInv'
<1> DEFINE occs == [p \in Slots |-> live[p].occ]
           changed == layout \notin {NoLayout, occs}
<1>1. KnownInv /\ AppliedInv /\ LayoutInv
    BY DEF BlindInv
<1>2. /\ pc = "idle" /\ pc' = "inform"
      /\ kind' = kind /\ control' = control /\ st' = st /\ live' = live
      /\ everApplied' = everApplied /\ everOutlet' = everOutlet
      /\ layout' = occs /\ seen' = live
      /\ fresh' = IF changed THEN fresh \cup Arrivals(live) ELSE fresh
      /\ trusted' = IF layout = NoLayout /\ everApplied /\ kind = "ports"
                    THEN trusted \cup Occs(live) ELSE trusted
    BY DEF Collect, device
<1>3. kind = "outlets" => fresh' = {} /\ \A p \in Slots : live[p].occ = seen[p].occ
  <2> SUFFICES ASSUME kind = "outlets" PROVE fresh' = {} /\ \A p \in Slots : live[p].occ = seen[p].occ
    OBVIOUS
  <2>1. fresh = {} /\ \A p \in Slots : live[p].occ = seen[p].occ
    BY <1>1, <1>2 DEF LayoutInv
  <2>2. layout # NoLayout => layout = occs
    BY <1>1, <2>1 DEF LayoutInv, TypeOK
  <2> QED
    BY <1>2, <2>1, <2>2
<1>4. ASSUME kind = "ports", everApplied PROVE Known'
  <2> SUFFICES ASSUME NEW p \in Slots \ fresh' PROVE live[p].occ \in trusted' \cup {0}
    BY <1>2 DEF Known
  <2>1. CASE layout = NoLayout
    BY <1>2, <1>4, <2>1 DEF Occs
  <2>2. CASE layout # NoLayout
    <3>1. layout[p] = seen[p].occ /\ seen[p].occ \in trusted \cup {0}
      <4>1. p \notin fresh
        BY <1>2
      <4> QED
        BY <1>1, <1>2, <1>4, <2>2, <4>1 DEF LayoutInv, KnownInv, Known
    <3>2. live[p].occ \in {0, layout[p]}
      <4>1. CASE layout = occs
        BY <4>1
      <4>2. CASE layout # occs
        BY <1>2, <2>2, <4>2 DEF Arrivals
      <4> QED
        BY <4>1, <4>2
    <3> QED
        BY <1>2, <3>1, <3>2
  <2> QED
    BY <2>1, <2>2
<1>5. ASSUME kind = "outlets", everOutlet PROVE Known'
  <2>1. Known
    BY <1>1, <1>2, <1>5 DEF KnownInv
  <2>2. \A p \in Slots : live[p].occ \in trusted \cup {0}
    BY <1>1, <1>3, <1>5, <2>1 DEF Known, LayoutInv
  <2> QED
    BY <1>2, <2>2 DEF Known
<1>6. KnownInv'
    BY <1>2, <1>4, <1>5 DEF KnownInv, Cleared
<1>7. AppliedInv'
    BY <1>1, <1>2 DEF AppliedInv
<1>8. LayoutInv'
  <2>1. \A p \in Slots : layout'[p] = seen'[p].occ
    BY <1>2
  <2> QED
    BY <1>2, <1>3, <2>1 DEF LayoutInv
<1> QED
    BY <1>6, <1>7, <1>8 DEF BlindInv

(* The controller never changes what was applied last. *)
LEMMA ReplyKeepsApplied ==
    ASSUME TypeOK
    PROVE  ApplyReply(st, Reply, NoFw).systemCfg = st.systemCfg
<1>1. CASE Reply = Setparam(TRUE, AdoptionVersion, NoCfg, "unset")
    BY <1>1 DEF TypeOK, States, ApplyReply, ApplySetparam, ParkOrClaim, Setparam
<1>2. CASE Reply = Setparam(FALSE, cVer, Text(cCfg), "unset")
    BY <1>2 DEF TypeOK, States, ApplyReply, ApplySetparam, ParkOrClaim, Setparam
<1>3. CASE Reply = Cmd("setdefault")
    BY <1>3 DEF TypeOK, States, ApplyReply, SetDefault, Cmd
<1>4. CASE Reply = Cmd("noop")
    BY <1>4 DEF ApplyReply, Cmd
<1> QED
    BY <1>1, <1>2, <1>3, <1>4 DEF Reply, Adopting, Knows, Resetting

LEMMA InformBlind ==
    ASSUME TypeOK, BlindInv, Guarded, Exchange \/ Unanswered
    PROVE  BlindInv'
<1>1. KnownInv /\ AppliedInv /\ LayoutInv
    BY DEF BlindInv
<1>2. /\ pc = "inform"
      /\ kind' = kind /\ control' = control /\ live' = live
      /\ everApplied' = everApplied /\ everOutlet' = everOutlet
      /\ layout' = layout /\ seen' = seen /\ fresh' = fresh /\ trusted' = trusted
    BY DEF Exchange, Unanswered, device, history
<1>3. IsApplied(st') <=> IsApplied(st)
    BY ReplyKeepsApplied DEF Exchange, Unanswered, IsApplied
<1>4. control \in BOOLEAN
    BY DEF TypeOK
<1>5. \/ pc' = "idle"
      \/ pc' = "settings" /\ job'.why = "reconcile" /\ IsApplied(st')
      \/ pc' = "settings" /\ ~(control /\ kind = "ports") /\ job'.why = "push"
      \/ pc' = "plan" /\ control /\ kind = "ports" /\ job'.why = "push"
  <2>1. CASE Exchange
    <3>1. ApplyPendingOrReconcile(st')
        BY <2>1 DEF Exchange
    <3> QED
        BY <1>4, <3>1, BeginsWhere DEF ApplyPendingOrReconcile
  <2>2. CASE Unanswered
    <3>1. Reconcile(st, control) /\ st' = st
        BY <2>2 DEF Unanswered
    <3> QED
        BY <1>4, <3>1, BeginsWhere
  <2> QED
    BY <2>1, <2>2
<1>6. KnownInv'
    BY <1>1, <1>2, <1>5 DEF KnownInv, Cleared, Known, Pushing
<1>7. AppliedInv'
    BY <1>1, <1>2, <1>3, <1>5 DEF AppliedInv, Pushing
<1>8. LayoutInv'
    BY <1>1, <1>2 DEF LayoutInv
<1> QED
    BY <1>6, <1>7, <1>8 DEF BlindInv

LEMMA PlanBlind ==
    ASSUME TypeOK, JobRuns, BlindInv, Guarded, Plan
    PROVE  BlindInv'
<1>1. KnownInv /\ AppliedInv /\ LayoutInv
    BY DEF BlindInv
<1>2. job \in Jobs /\ Pushing \in BOOLEAN
    BY DEF JobRuns, Plan, Pushing
<1>3. /\ pc = "plan" /\ ~Holds
      /\ kind' = kind /\ control' = control /\ st' = st /\ live' = live
      /\ everApplied' = everApplied /\ everOutlet' = everOutlet
      /\ layout' = layout /\ seen' = seen
      /\ fresh' = Withheld /\ trusted' = trusted \cup Matching
    BY DEF Plan, Guarded, device
<1>4. /\ job'.slots = Slots \ Withheld /\ job'.why = job.why
      /\ pc' = IF kind = "ports" /\ Pushing THEN "settings" ELSE "write"
    BY <1>2 DEF Plan, Jobs, Pushing
<1>5. kind \in {"ports", "outlets"}
    BY LoopAssumption DEF TypeOK
<1>6. Known'
  <2> SUFFICES ASSUME NEW p \in Slots \ Withheld, seen[p].occ # 0
               PROVE  seen[p].occ \in trusted \cup Matching
    BY <1>3 DEF Known
  <2>1. CASE p \notin WouldChange
    BY <2>1 DEF Matching
  <2>2. CASE p \in WouldChange
    <3>1. p \notin fresh
        BY <1>1, <1>5, <2>2 DEF Withheld, Guarded, LayoutInv
    <3>2. Known
      <4>1. CASE kind = "ports"
        <5>1. everApplied
            BY <1>1, <1>3, <2>2, <4>1 DEF Holds, Guarded, AppliedInv, Pushing
        <5> QED
            BY <1>1, <1>3, <4>1, <5>1 DEF KnownInv
      <4>2. CASE kind = "outlets"
        <5>1. everOutlet
            BY <1>3, <2>2, <4>2 DEF Holds, Guarded
        <5> QED
            BY <1>1, <1>3, <4>2, <5>1 DEF KnownInv
      <4> QED
        BY <1>5, <4>1, <4>2
    <3> QED
        BY <3>1, <3>2 DEF Known
  <2> QED
    BY <2>1, <2>2
<1>7. job'.slots \cap fresh' = {}
    BY <1>3, <1>4
<1>8. KnownInv'
    BY <1>6, <1>7 DEF KnownInv
<1>9. AppliedInv'
    BY <1>1, <1>3, <1>4 DEF AppliedInv, Pushing
<1>10. LayoutInv'
    BY <1>1, <1>3 DEF LayoutInv, Withheld
<1> QED
    BY <1>8, <1>9, <1>10 DEF BlindInv

LEMMA ApplySettingsBlind ==
    ASSUME TypeOK, JobRuns, BlindInv, Guarded, ApplySettings
    PROVE  BlindInv'
<1>1. KnownInv /\ AppliedInv /\ LayoutInv
    BY DEF BlindInv
<1>2. job \in Jobs
    BY DEF JobRuns, ApplySettings
<1>3. /\ pc = "settings"
      /\ kind' = kind /\ control' = control /\ st' = st /\ live' = live
      /\ everApplied' = everApplied /\ everOutlet' = everOutlet
      /\ layout' = layout /\ seen' = seen /\ fresh' = fresh /\ trusted' = trusted
    BY DEF ApplySettings, history
<1>4. \/ ~control /\ pc' \in {"mark", "idle"}
      \/ control /\ kind = "ports" /\ Pushing /\ pc' = "write" /\ job' = job
      \/ control /\ ~(kind = "ports" /\ Pushing) /\ pc' = "plan" /\ job' = job
    BY <1>2 DEF ApplySettings, Finish, TypeOK, Jobs, Pushing
<1>5. KnownInv'
  <2>1. Cleared' => Cleared /\ job' = job
    BY <1>3, <1>4 DEF Cleared
  <2> QED
    BY <1>1, <1>3, <1>4, <2>1 DEF KnownInv, Known
<1>6. AppliedInv'
    BY <1>1, <1>3, <1>4 DEF AppliedInv, Pushing
<1>7. LayoutInv'
    BY <1>1, <1>3, <1>4 DEF LayoutInv
<1> QED
    BY <1>5, <1>6, <1>7 DEF BlindInv

LEMMA WriteBlind ==
    ASSUME TypeOK, JobRuns, BlindInv, Guarded, Write \/ WriteFailed
    PROVE  BlindInv'
<1>1. KnownInv /\ AppliedInv /\ LayoutInv
    BY DEF BlindInv
<1>2. job \in Jobs
    BY DEF JobRuns, Write, WriteFailed
<1>3. /\ pc = "write" /\ pc' \in {"mark", "idle"}
      /\ kind' = kind /\ control' = control /\ st' = st
      /\ layout' = layout /\ fresh' = fresh /\ trusted' = trusted
    BY DEF Write, WriteFailed, Finish, history
<1>4. PICK done : live' = Written(live, done) /\ seen' = Written(seen, done)
    BY DEF Write, WriteFailed
<1>5. \A p \in Slots : live'[p].occ = live[p].occ /\ seen'[p].occ = seen[p].occ
    BY <1>4 DEF Written, TypeOK, Contents
<1>6. Known'
    BY <1>1, <1>3, <1>5 DEF KnownInv, Cleared, Known
<1>7. KnownInv'
    BY <1>3, <1>6 DEF KnownInv, Cleared
<1>8. (everApplied => everApplied') /\ (pc' = "mark" => everApplied')
  <2>1. CASE Write
    <3>1. everApplied' = (everApplied \/ job.why = "push") /\ (pc' = "mark" => job.why = "push")
        BY <2>1 DEF Write, Finish
    <3> QED
        BY <3>1
  <2>2. CASE WriteFailed
    BY <2>2 DEF WriteFailed, Finish
  <2> QED
    BY <2>1, <2>2
<1>9. AppliedInv'
    BY <1>1, <1>3, <1>8 DEF AppliedInv
<1>10. LayoutInv'
    BY <1>1, <1>3, <1>5 DEF LayoutInv
<1> QED
    BY <1>7, <1>9, <1>10 DEF BlindInv

LEMMA OthersBlind ==
    ASSUME TypeOK, BlindInv, Guarded, CollectFailed \/ PlanHeld \/ Mark
    PROVE  BlindInv'
<1>1. KnownInv /\ AppliedInv /\ LayoutInv
    BY DEF BlindInv
<1>2. /\ pc' \in {"inform", "idle"} /\ pc # "down"
      /\ kind' = kind /\ control' = control /\ live' = live
      /\ everApplied' = everApplied /\ everOutlet' = everOutlet
      /\ layout' = layout /\ seen' = seen /\ fresh' = fresh /\ trusted' = trusted
    BY DEF CollectFailed, PlanHeld, Mark, Finish, device, history
<1>3. kind = "ports" /\ control /\ IsApplied(st') => everApplied
  <2>1. CASE pc = "mark"
    BY <1>1, <2>1 DEF AppliedInv
  <2>2. CASE pc # "mark"
    BY <1>1, <1>2, <2>2 DEF AppliedInv, CollectFailed, PlanHeld, Mark
  <2> QED
    BY <2>1, <2>2
<1>4. KnownInv'
    BY <1>1, <1>2 DEF KnownInv, Cleared, Known
<1>5. AppliedInv'
    BY <1>2, <1>3 DEF AppliedInv
<1>6. LayoutInv'
    BY <1>1, <1>2 DEF LayoutInv
<1> QED
    BY <1>4, <1>5, <1>6 DEF BlindInv

LEMMA CrashBlind ==
    ASSUME TypeOK, Crash
    PROVE  BlindInv'
BY DEF Crash, device, BlindInv, KnownInv, AppliedInv, LayoutInv, Cleared

LEMMA EnvironmentBlind ==
    ASSUME TypeOK, BlindInv, Guarded, Environment \/ UNCHANGED vars
    PROVE  BlindInv'
<1>1. KnownInv /\ AppliedInv /\ LayoutInv
    BY DEF BlindInv
<1>2. UNCHANGED bridge /\ kind' = kind /\ trusted' = trusted
    BY DEF Environment, Drift, Depart, Arrive, DriftSettings, EditPort, EditSettings, EditAddr,
        Edit, Adopt, Forget, device, history, vars
<1>3. kind = "outlets" => \A p \in Slots : live'[p].occ = live[p].occ
  <2>1. ASSUME NEW q \in Slots, Drift(q) PROVE \A p \in Slots : live'[p].occ = live[p].occ
    BY <2>1 DEF Drift, TypeOK, Contents
  <2>2. ASSUME NEW q \in Slots, Depart(q) PROVE kind # "outlets"
    BY <2>2 DEF Depart
  <2>3. ASSUME NEW q \in Slots, NEW v \in Vals, Arrive(q, v) PROVE kind # "outlets"
    BY <2>3 DEF Arrive
  <2>4. ASSUME \/ \E q \in Slots, v \in Vals : EditPort(q, v)
               \/ \E d \in Devs : DriftSettings(d) \/ EditSettings(d)
               \/ \E a \in Addrs : EditAddr(a)
               \/ Adopt \/ Forget \/ UNCHANGED vars
        PROVE  live' = live
    BY <2>4 DEF EditPort, DriftSettings, EditSettings, EditAddr, Edit, Adopt, Forget, device, vars
  <2> QED
    BY <2>1, <2>2, <2>3, <2>4 DEF Environment
<1>4. KnownInv' /\ AppliedInv'
    BY <1>1, <1>2 DEF bridge, KnownInv, AppliedInv, Cleared, Known, Pushing
<1>5. LayoutInv'
    BY <1>1, <1>2, <1>3 DEF bridge, LayoutInv
<1> QED
    BY <1>4, <1>5 DEF BlindInv

LEMMA NextBlind ==
    ASSUME TypeOK, JobRuns, BlindInv, [Next]_vars
    PROVE  BlindInv'
<1>1. CASE ~Guarded
    BY <1>1 DEF BlindInv, Guarded
<1>2. CASE Guarded
    BY <1>2, StartBlind, CollectBlind, InformBlind, PlanBlind, ApplySettingsBlind, WriteBlind,
        OthersBlind, CrashBlind, EnvironmentBlind DEF Next, LoopStep
<1> QED
    BY <1>1, <1>2

(* For any number of slots and any interleaving with guests that come and  *)
(* go, drifts, faults, restarts and re-adoptions: the bridge changes a     *)
(* port or an outlet only if what is plugged in there is what the driver   *)
(* saw, and this process saw the controller and the device agree on it, or *)
(* (a port) found it at its baseline after an earlier applied push.        *)
THEOREM WritesAreTrusted == Spec => NoBlindWrite
<1>1. TypeOK /\ JobRuns /\ BlindInv /\ [Next]_vars =>
        [\A p \in Slots : Guarded /\ BridgeWrites(p) => live[p].occ \in trusted]_vars
  <2> SUFFICES ASSUME TypeOK, JobRuns, BlindInv, [Next]_vars, Guarded,
                      NEW p \in Slots, BridgeWrites(p)
               PROVE  live[p].occ \in trusted
    OBVIOUS
  <2>1. pc = "write" /\ pc' # "write" /\ live'[p] # live[p]
    BY DEF BridgeWrites
  <2>2. Write \/ WriteFailed
    <3>1. ~ \E ctl \in Controls : Start(ctl)
        BY <2>1 DEF Start
    <3>2. ~(Collect \/ CollectFailed \/ Exchange \/ Unanswered)
        BY <2>1 DEF Collect, CollectFailed, Exchange, Unanswered
    <3>3. ~(ApplySettings \/ PlanHeld \/ Plan \/ Mark)
        BY <2>1 DEF ApplySettings, PlanHeld, Plan, Mark
    <3>4. ~Crash
        BY <2>1 DEF Crash, device
    <3>5. ~Environment
        BY <2>1 DEF Environment, Drift, Depart, Arrive, DriftSettings, EditPort, EditSettings,
            EditAddr, Edit, Adopt, Forget, bridge
    <3>6. ~UNCHANGED vars
        BY <2>1 DEF vars, bridge
    <3> QED
        BY <3>1, <3>2, <3>3, <3>4, <3>5, <3>6 DEF Next, LoopStep
  <2>3. PICK done \in SUBSET (ToWrite \ Gone) : live' = Written(live, done)
    BY <2>2 DEF Write, WriteFailed
  <2>4. p \in ToWrite \ Gone
    BY <2>1, <2>3 DEF Written, TypeOK
  <2>5. live[p].occ = seen[p].occ /\ seen[p].occ # 0 /\ p \in job.slots
    BY <2>4 DEF ToWrite, Gone, WouldChange
  <2>6. Known /\ p \notin fresh
    BY <2>1, <2>5 DEF BlindInv, KnownInv, Cleared
  <2> QED
    BY <2>5, <2>6 DEF Known
<1>2. TypeOK /\ JobRuns /\ BlindInv /\ [Next]_vars => BlindInv'
    BY NextBlind
<1> QED
    BY <1>1, <1>2, InitBlind, InitType, NextType, PTL DEF Spec, NoBlindWrite

---------------------------------------------------------------------------
(* A claimed push is written.  While a push is applied, the session's      *)
(* pending push stays the one the apply began with; the write covers every *)
(* slot that is not withheld.                                              *)

AsPushed == \A p \in Slots \ fresh : seen[p].occ # 0 => seen[p].val = job.cfg.ports[p]

ClaimInv ==
    /\ pc \in {"settings", "plan", "write", "mark"} /\ Pushing =>
          job.ver = st.pendingCfgVersion /\ job.cfg = st.pendingSystemCfg
    /\ Cleared => Slots \ fresh \subseteq job.slots
    /\ pc = "mark" => Pushing
    /\ pc = "mark" /\ control => AsPushed
    /\ pc = "plan" => control

LEMMA InitClaim == Init => ClaimInv
BY DEF Init, ClaimInv, Cleared

LEMMA BeginsWith ==
    ASSUME NEW s, NEW ctl \in BOOLEAN,
           \/ Reconcile(s, ctl)
           \/ IsPending(s) /\ Begin(s, "push", ctl),
           pc' # "idle", job'.why = "push"
    PROVE  job'.ver = s.pendingCfgVersion /\ job'.cfg = s.pendingSystemCfg
BY DEF Reconcile, Begin, Finish

LEMMA NextClaim ==
    ASSUME TypeOK, JobRuns, ClaimInv, [Next]_vars
    PROVE  ClaimInv'
<1>1. ASSUME NEW ctl \in Controls, Start(ctl) PROVE ClaimInv'
  <2>1. pc' \in {"idle", "settings"} /\ (pc' = "settings" => job'.why = "reconcile")
    <3>1. Reconcile(disk, ctl)
        BY <1>1 DEF Start
    <3> QED
        BY <3>1 DEF Reconcile, Begin, Finish
  <2> QED
    BY <2>1 DEF ClaimInv, Cleared, Pushing
<1>2. CASE Exchange
  <2>1. st' = ApplyReply(st, Reply, NoFw) /\ ApplyPendingOrReconcile(st')
    BY <1>2 DEF Exchange
  <2>2. control' = control /\ kind' = kind /\ control \in BOOLEAN
    BY <1>2 DEF Exchange, device, TypeOK
  <2>3. \/ Reconcile(st', control)
        \/ IsPending(st') /\ Begin(st', "push", control)
    BY <2>1 DEF ApplyPendingOrReconcile
  <2>4. \/ pc' = "idle"
        \/ pc' = "settings" /\ job'.why = "reconcile"
        \/ pc' = "settings" /\ ~(control /\ kind = "ports") /\ job'.why = "push"
        \/ pc' = "plan" /\ control /\ kind = "ports" /\ job'.why = "push"
    BY <2>2, <2>3, BeginsWhere
  <2>5. pc' # "idle" /\ job'.why = "push" =>
            job'.ver = st'.pendingCfgVersion /\ job'.cfg = st'.pendingSystemCfg
    BY <2>2, <2>3, BeginsWith
  <2> QED
    BY <2>2, <2>4, <2>5 DEF ClaimInv, Cleared, Pushing
<1>3. CASE Unanswered
  <2>1. Reconcile(st, control)
    BY <1>3 DEF Unanswered
  <2>2. pc' \in {"idle", "settings"} /\ (pc' = "settings" => job'.why = "reconcile")
    BY <2>1 DEF Reconcile, Begin, Finish
  <2> QED
    BY <2>2 DEF ClaimInv, Cleared, Pushing
<1>4. CASE ApplySettings
  <2>1. job \in Jobs
    BY <1>4 DEF JobRuns, ApplySettings
  <2>2. /\ pc = "settings" /\ st' = st /\ kind' = kind /\ control' = control
        /\ fresh' = fresh /\ seen' = seen
    BY <1>4 DEF ApplySettings
  <2>3. \/ pc' = "idle"
        \/ ~control /\ Pushing /\ pc' = "mark" /\ job' = job
        \/ control /\ kind = "ports" /\ Pushing /\ pc' = "write" /\ job' = job
        \/ control /\ ~(kind = "ports" /\ Pushing) /\ pc' = "plan" /\ job' = job
    BY <1>4, <2>1 DEF ApplySettings, Finish, TypeOK, Jobs, Pushing
  <2>4. Cleared' => Cleared /\ job' = job
    BY <2>2, <2>3 DEF Cleared
  <2> QED
    BY <2>2, <2>3, <2>4 DEF ClaimInv, Pushing
<1>5. CASE Plan
  <2>1. job \in Jobs
    BY <1>5 DEF JobRuns, Plan
  <2>2. /\ pc = "plan" /\ pc' \in {"settings", "write"} /\ st' = st
        /\ fresh' = IF Planner /\ ~AllowInitial THEN Withheld ELSE fresh
    BY <1>5 DEF Plan
  <2>3. /\ job'.slots = Slots \ Withheld /\ job'.why = job.why
        /\ job'.ver = job.ver /\ job'.cfg = job.cfg
    BY <1>5, <2>1 DEF Plan, Jobs
  <2>4. Withheld \subseteq fresh'
    BY <2>2 DEF Withheld
  <2> QED
    BY <2>2, <2>3, <2>4 DEF ClaimInv, Pushing
<1>6. CASE Write
  <2>1. job \in Jobs /\ pc = "write" /\ pc' \in {"mark", "idle"}
    BY <1>6 DEF JobRuns, Write, Finish
  <2>2. st' = st /\ control' = control /\ fresh' = fresh /\ seen' = Written(seen, ToWrite)
    BY <1>6 DEF Write
  <2>3. pc' = "mark" => job' = job /\ Pushing
    BY <1>6, <2>1 DEF Write, Finish, Pushing
  <2>4. Slots \ fresh \subseteq job.slots
    BY <2>1 DEF ClaimInv, Cleared
  <2>5. \A p \in Slots \ fresh : seen'[p].occ # 0 => seen'[p].val = job.cfg.ports[p]
    <3> SUFFICES ASSUME NEW p \in Slots \ fresh, seen'[p].occ # 0
                 PROVE  seen'[p].val = job.cfg.ports[p]
        OBVIOUS
    <3>1. CASE p \in ToWrite
        BY <2>2, <3>1 DEF Written, TypeOK, Contents
    <3>2. CASE p \notin ToWrite
      <4>1. seen'[p] = seen[p]
        BY <2>2, <3>2 DEF Written
      <4> QED
        BY <2>4, <3>2, <4>1 DEF ToWrite, WouldChange
    <3> QED
        BY <3>1, <3>2
  <2>6. pc' = "mark" => AsPushed'
    BY <2>2, <2>3, <2>5 DEF AsPushed
  <2> QED
    BY <2>1, <2>2, <2>3, <2>6 DEF ClaimInv, Cleared, Pushing
<1>7. CASE Collect \/ CollectFailed \/ PlanHeld \/ WriteFailed \/ Mark \/ Crash
    BY <1>7 DEF Collect, CollectFailed, PlanHeld, WriteFailed, Mark, Crash, Finish, ClaimInv, Cleared
<1>8. CASE Environment \/ UNCHANGED vars
  <2>1. UNCHANGED bridge /\ kind' = kind
    BY <1>8 DEF Environment, Drift, Depart, Arrive, DriftSettings, EditPort, EditSettings,
        EditAddr, Edit, Adopt, Forget, device, vars
  <2> QED
    BY <2>1 DEF bridge, ClaimInv, Cleared, Pushing, AsPushed
<1> QED
    BY <1>1, <1>2, <1>3, <1>4, <1>5, <1>6, <1>7, <1>8 DEF Next, LoopStep

(* Only a mark starts to claim a push. *)
LEMMA OnlyMarkClaims ==
    ASSUME TypeOK, [Next]_vars, ClaimsPush
    PROVE  Mark
<1>1. ~Exchange
  <2> SUFFICES ASSUME Exchange PROVE FALSE
    OBVIOUS
  <2>1. ApplyReply(st, Reply, NoFw).cfgVersion \in {0, AdoptionVersion, st.cfgVersion}
    <3>1. CASE Reply = Setparam(TRUE, AdoptionVersion, NoCfg, "unset")
        BY <3>1 DEF TypeOK, States, ApplyReply, ApplySetparam, ParkOrClaim, Setparam
    <3>2. CASE Reply = Setparam(FALSE, cVer, Text(cCfg), "unset")
      <4>1. Text(cCfg) # NoCfg
        BY ReplyType, NoCfgAssumption
      <4> QED
        BY <3>2, <4>1 DEF TypeOK, States, ApplyReply, ApplySetparam, ParkOrClaim, Setparam
    <3>3. CASE Reply = Cmd("setdefault")
        BY <3>3 DEF TypeOK, States, ApplyReply, SetDefault, Cmd
    <3>4. CASE Reply = Cmd("noop")
        BY <3>4 DEF ApplyReply, Cmd
    <3> QED
        BY <3>1, <3>2, <3>3, <3>4 DEF Reply, Adopting, Knows, Resetting
  <2> QED
    BY <2>1 DEF Exchange, ClaimsPush
<1>2. ~Crash /\ ~ \E ctl \in Controls : Start(ctl)
    BY DEF ClaimsPush, Crash, Start
<1>3. ASSUME st' = st PROVE FALSE
    BY <1>3 DEF ClaimsPush
<1>4. ~(Collect \/ CollectFailed \/ Unanswered \/ ApplySettings \/ PlanHeld \/ Plan \/ Write
        \/ WriteFailed)
    BY <1>3 DEF Collect, CollectFailed, Unanswered, ApplySettings, PlanHeld, Plan, Write, WriteFailed
<1>5. ~Environment /\ ~UNCHANGED vars
    BY <1>3 DEF Environment, Drift, Depart, Arrive, DriftSettings, EditPort, EditSettings,
        EditAddr, Edit, Adopt, Forget, bridge, vars
<1> QED
    BY <1>1, <1>2, <1>4, <1>5 DEF Next, LoopStep

(* The step that starts to claim a push's version leaves every controlled  *)
(* slot that is not withheld as that push wants it: a failed or partial    *)
(* write, a hold or an interrupted apply is never claimed.                 *)
THEOREM ClaimsAreWritten == Spec => ClaimedIsWritten
<1>1. TypeOK /\ JobRuns /\ ClaimInv /\ [Next]_vars =>
        [ClaimsPush /\ control => \A p \in Slots \ fresh :
            seen[p].occ # 0 => seen[p].val = st'.systemCfg.ports[p]]_vars
  <2> SUFFICES ASSUME TypeOK, JobRuns, ClaimInv, [Next]_vars, ClaimsPush, control
               PROVE  \A p \in Slots \ fresh :
                          seen[p].occ # 0 => seen[p].val = st'.systemCfg.ports[p]
    OBVIOUS
  <2>1. Mark
    BY OnlyMarkClaims
  <2>2. st' = MarkedApplied(st, job.ver) /\ pc = "mark"
    BY <2>1 DEF Mark
  <2>3. job.ver = st.pendingCfgVersion /\ job.cfg = st.pendingSystemCfg /\ AsPushed
    BY <2>2 DEF ClaimInv
  <2>4. st'.systemCfg = job.cfg
    BY <2>2, <2>3 DEF MarkedApplied, TypeOK, States
  <2> QED
    BY <2>3, <2>4 DEF AsPushed
<1>2. TypeOK /\ JobRuns /\ ClaimInv /\ [Next]_vars => ClaimInv'
    BY NextClaim
<1> QED
    BY <1>1, <1>2, InitClaim, InitType, NextType, PTL DEF Spec, ClaimedIsWritten

---------------------------------------------------------------------------
(* The loop's state, the adoption flag and the key.  A restart takes all   *)
(* three from the state file, so the file must agree with itself too.      *)

KeyAgrees(s) == s.adopted <=> s.key = AdoptedKey

AgreeInv == KeyAgrees(st) /\ KeyAgrees(disk) /\ StateAgrees

LEMMA InitAgrees == Init => AgreeInv
BY DEF Init, AgreeInv, KeyAgrees, StateAgrees, FreshState, DefaultKey, AdoptedKey

LEMMA ExchangeAgrees ==
    ASSUME TypeOK, AgreeInv, Exchange
    PROVE  KeyAgrees(st') /\ (state' = "PENDING" <=> ~st'.adopted)
<1>1. st' = ApplyReply(st, Reply, NoFw) /\ pc = "inform"
    BY DEF Exchange
<1>2. \/ state' = AfterEffects(Reply)
      \/ state' = "CONNECTED" /\ state = "ADOPTING" /\ AfterEffects(Reply) = "ADOPTING"
    BY DEF Exchange
<1>3. KeyAgrees(st) /\ (state = "PENDING" <=> ~st.adopted) /\ st \in States
    BY <1>1 DEF AgreeInv, StateAgrees, TypeOK
<1>4. CASE Reply = Setparam(TRUE, AdoptionVersion, NoCfg, "unset") /\ st.key = DefaultKey
  <2>1. AdoptsKey(st, Reply) /\ AfterEffects(Reply) = "ADOPTING"
    BY <1>4 DEF AdoptsKey, Setparam, AfterEffects
  <2>2. ParkOrClaim(st, Reply) = [st EXCEPT !.cfgVersion = AdoptionVersion]
    BY <1>4 DEF ParkOrClaim, Setparam, AdoptionVersion
  <2>3. st' = ApplySetparam(st, Reply)
    BY <1>1, <1>4 DEF ApplyReply, Setparam
  <2>4. st'.key = AdoptedKey /\ st'.adopted = TRUE
    BY <1>3, <2>1, <2>2, <2>3 DEF ApplySetparam, States
  <2> QED
    BY <1>2, <2>1, <2>4 DEF KeyAgrees
<1>5. CASE Reply = Setparam(FALSE, cVer, Text(cCfg), "unset")
  <2>1. ~AdoptsKey(st, Reply) /\ AfterEffects(Reply) = state
    BY <1>5 DEF AdoptsKey, Setparam, AfterEffects
  <2>2. st' = ApplySetparam(st, Reply)
    BY <1>1, <1>5 DEF ApplyReply, Setparam
  <2>3. ParkOrClaim(st, Reply).key = st.key /\ ParkOrClaim(st, Reply).adopted = st.adopted
    BY <1>3 DEF ParkOrClaim, States
  <2>4. ParkOrClaim(st, Reply) \in States
    BY <1>3, <1>5, ReplyType DEF ParkOrClaim, States, Setparam, TypeOK
  <2>5. st'.key = st.key /\ st'.adopted = st.adopted
    BY <2>1, <2>2, <2>3, <2>4 DEF ApplySetparam, States
  <2> QED
    BY <1>2, <1>3, <2>1, <2>5 DEF KeyAgrees
<1>6. CASE Reply = Cmd("setdefault")
  <2>1. st' = SetDefault(st) /\ AfterEffects(Reply) = "PENDING"
    BY <1>1, <1>6 DEF ApplyReply, Cmd, AfterEffects
  <2>2. st'.key = DefaultKey /\ st'.adopted = FALSE
    BY <1>3, <2>1 DEF SetDefault, States
  <2> QED
    BY <1>2, <2>1, <2>2 DEF KeyAgrees, DefaultKey, AdoptedKey
<1>7. CASE Reply = Cmd("noop")
  <2>1. st' = st /\ AfterEffects(Reply) = state
    BY <1>1, <1>7 DEF ApplyReply, Cmd, AfterEffects
  <2> QED
    BY <1>2, <1>3, <2>1 DEF KeyAgrees
<1> QED
    BY <1>4, <1>5, <1>6, <1>7 DEF Reply, Adopting, Knows, Resetting

LEMMA NextAgrees ==
    ASSUME TypeOK, AgreeInv, [Next]_vars
    PROVE  AgreeInv'
<1>1. ASSUME NEW ctl \in Controls, Start(ctl) PROVE AgreeInv'
    BY <1>1 DEF Start, AgreeInv, KeyAgrees, StateAgrees
<1>2. CASE Exchange
  <2>1. disk' \in {st', disk}
    BY <1>2 DEF Exchange
  <2> QED
    BY <1>2, <2>1, ExchangeAgrees DEF AgreeInv, KeyAgrees, StateAgrees
<1>3. CASE Mark
  <2>1. /\ pc = "mark" /\ pc' = "idle" /\ state' = state /\ disk' \in {st', disk}
        /\ st' = MarkedApplied(st, job.ver)
    BY <1>3 DEF Mark, Finish
  <2>2. st'.key = st.key /\ st'.adopted = st.adopted
    BY <2>1 DEF MarkedApplied, TypeOK, States
  <2> QED
    BY <2>1, <2>2 DEF AgreeInv, KeyAgrees, StateAgrees
<1>4. CASE Crash
    BY <1>4 DEF Crash, AgreeInv, KeyAgrees, StateAgrees, FreshState, DefaultKey, AdoptedKey
<1>5. CASE Collect \/ CollectFailed \/ Unanswered \/ ApplySettings \/ PlanHeld \/ Plan \/ Write
           \/ WriteFailed
  <2>1. pc # "down" /\ st' = st /\ disk' = disk /\ state' = state
    BY <1>5 DEF Collect, CollectFailed, Unanswered, ApplySettings, PlanHeld, Plan, Write, WriteFailed
  <2> QED
    BY <2>1 DEF AgreeInv, KeyAgrees, StateAgrees
<1>6. CASE Environment \/ UNCHANGED vars
  <2>1. UNCHANGED bridge
    BY <1>6 DEF Environment, Drift, Depart, Arrive, DriftSettings, EditPort, EditSettings,
        EditAddr, Edit, Adopt, Forget, vars
  <2> QED
    BY <2>1 DEF bridge, AgreeInv, KeyAgrees, StateAgrees
<1> QED
    BY <1>1, <1>2, <1>3, <1>4, <1>5, <1>6 DEF Next, LoopStep

(* PENDING, the adoption flag and the factory key go together in every     *)
(* running process, after any reply, failed save and restart.              *)
THEOREM StatesAgree == Spec => []StateAgrees
<1>1. TypeOK /\ AgreeInv /\ [Next]_vars => AgreeInv'
    BY NextAgrees
<1>2. AgreeInv => StateAgrees
    BY DEF AgreeInv
<1> QED
    BY <1>1, <1>2, InitAgrees, InitType, NextType, PTL DEF Spec

===========================================================================

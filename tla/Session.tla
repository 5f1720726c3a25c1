------------------------------ MODULE Session ------------------------------
(***************************************************************************)
(* One device session (internal/device/session.go): the state a bridge     *)
(* process holds in memory, the state file it persists, the firmware       *)
(* version it reports, and the controller replies, polls, restarts and     *)
(* firmware changes of the device that move them.  The inform loop is      *)
(* reduced to what it does to the session: it reads the pending push,      *)
(* applies it, and marks it applied some time later.                       *)
(***************************************************************************)
EXTENDS SessionState

CONSTANTS
    CfgOf,        \* the push version -> system_cfg text the controller sends
    MgmtVersion,  \* the cfgversion of a setparam or setstate without a push
    Pins,         \* versions an operator may name with -version; NoFw = none
    MaxMoves,     \* bound: firmware changes of the real device
    MaxFailures,  \* bound: state file writes that fail
    MaxCrashes    \* bound: restarts of the bridge

PushVersions == DOMAIN CfgOf

ASSUME PushAssumption ==
    /\ MgmtVersion \in Nat /\ PushVersions \subseteq Nat \ {0, MgmtVersion}
    /\ \A v \in PushVersions : CfgOf[v] \in Cfgs
ASSUME PinsAssumption == Pins \subseteq Firmwares \cup {NoFw}
ASSUME SessionBounds == MaxMoves \in Nat /\ MaxFailures \in Nat /\ MaxCrashes \in Nat

VARIABLES
    up,           \* a bridge process runs
    st,           \* Session.st
    disk,         \* the state file
    version,      \* desc.Version: the firmware version the informs report
    snapVersion,  \* System.Version of the session's snapshot
    pin,          \* the operator's -version of this process
    applying,     \* the push version the loop is applying, 0 = none
    devVersion,   \* the device's real firmware version
    unsaved,      \* history: the last write of the state file failed
    left          \* what is left of the bounds

vars == <<up, st, disk, version, snapVersion, pin, applying, devVersion, unsaved, left>>

Init ==
    /\ up = FALSE
    /\ st = FreshState
    /\ disk = FreshState
    /\ version = NoFw
    /\ snapVersion = NoFw
    /\ pin \in Pins
    /\ applying = 0
    /\ devVersion \in Firmwares
    /\ unsaved = FALSE
    /\ left = [moves |-> MaxMoves, failures |-> MaxFailures, crashes |-> MaxCrashes]

---------------------------------------------------------------------------
Pinned == pin # NoFw

(* Mutant: the state from before the reply is written. *)
SaveTooEarly(s) ==
    disk' = st /\ unsaved' = FALSE /\ UNCHANGED left

(* Store.Save writes a temporary file and renames it: all or nothing. *)
Save(s) ==
    \/ disk' = s /\ unsaved' = FALSE /\ UNCHANGED left
    \/ /\ left.failures > 0
       /\ left' = [left EXCEPT !.failures = @ - 1]
       /\ unsaved' = TRUE
       /\ UNCHANGED disk

(* SetSnapshot: the snapshot reports the device's version v. *)
SnapshotState(s, v) ==
    IF Pinned \/ s.firmware = NoFw \/ FictionStands(s, v) THEN s ELSE DropFiction(s)

SnapshotVersion(s, current, v) ==
    IF Pinned \/ FictionStands(s, v) THEN current ELSE v

(* runOne: open the device, load the state file, NewSession with the       *)
(* operator's version or the device's own, then the first SetSnapshot.     *)
Start ==
    /\ ~up
    /\ up' = TRUE
    /\ LET v == IF Pinned THEN pin ELSE devVersion
           s == LoadedState(disk, v)
       IN  /\ st' = SnapshotState(s, devVersion)
           /\ version' = SnapshotVersion(s, LoadedVersion(disk, v), devVersion)
    /\ snapVersion' = devVersion
    /\ UNCHANGED <<disk, pin, applying, devVersion, unsaved, left>>

(* A collect that succeeded hands the session a new snapshot. *)
SetSnapshot ==
    /\ up
    /\ snapVersion' = devVersion
    /\ st' = SnapshotState(st, devVersion)
    /\ version' = SnapshotVersion(st, version, devVersion)
    /\ UNCHANGED <<up, disk, pin, applying, devVersion, unsaved, left>>

Replies ==
    {Cmd("set-adopt"), Cmd("setdefault"), Cmd("noop"), Setstate(MgmtVersion),
     Setparam(TRUE, MgmtVersion, NoCfg, "true"), Setparam(FALSE, 0, NoCfg, "false")}
    \cup {Setparam(FALSE, v, CfgOf[v], "unset") : v \in PushVersions}
    \cup {UpgradeTo(fw) : fw \in Firmwares}

(* Session.Apply: the state is saved only when the reply changed it, so a  *)
(* write that failed is not repeated until something else changes.         *)
Apply(r) ==
    /\ up
    /\ st' = ApplyReply(st, r, snapVersion)
    /\ version' = IF r.type = "upgrade" THEN r.fw ELSE version
    /\ IF st' # st THEN Save(st') ELSE UNCHANGED <<disk, unsaved, left>>
    /\ UNCHANGED <<up, snapVersion, pin, applying, devVersion>>

(* Loop.applyPending reads the pending push ... *)
BeginApply ==
    /\ up /\ applying = 0 /\ IsPending(st)
    /\ applying' = st.pendingCfgVersion
    /\ UNCHANGED <<up, st, disk, version, snapVersion, pin, devVersion, unsaved, left>>

(* ... and gives up, leaving it pending, or marks it applied. *)
ApplyFailed ==
    /\ up /\ applying # 0
    /\ applying' = 0
    /\ UNCHANGED <<up, st, disk, version, snapVersion, pin, devVersion, unsaved, left>>

MarkApplied ==
    /\ up /\ applying # 0
    /\ st' = MarkedApplied(st, applying)
    /\ applying' = 0
    /\ IF st.pendingCfgVersion = applying THEN Save(st') ELSE UNCHANGED <<disk, unsaved, left>>
    /\ UNCHANGED <<up, version, snapVersion, pin, devVersion>>

(* The device itself is upgraded or rolled back. *)
DeviceMoves(v) ==
    /\ left.moves > 0
    /\ devVersion # v
    /\ devVersion' = v
    /\ left' = [left EXCEPT !.moves = @ - 1]
    /\ UNCHANGED <<up, st, disk, version, snapVersion, pin, applying, unsaved>>

(* The process ends; the operator may name another version for the next. *)
Crash(newPin) ==
    /\ up /\ left.crashes > 0
    /\ up' = FALSE
    /\ st' = FreshState
    /\ version' = NoFw
    /\ snapVersion' = NoFw
    /\ applying' = 0
    /\ pin' = newPin
    /\ left' = [left EXCEPT !.crashes = @ - 1]
    /\ UNCHANGED <<disk, devVersion, unsaved>>

Next ==
    \/ Start
    \/ SetSnapshot
    \/ \E r \in Replies : Apply(r)
    \/ BeginApply
    \/ ApplyFailed
    \/ MarkApplied
    \/ \E v \in Firmwares : DeviceMoves(v)
    \/ \E p \in Pins : Crash(p)

Spec == Init /\ [][Next]_vars

---------------------------------------------------------------------------
(* Properties *)

(* state.go: "SystemCfg is the last system_cfg fully applied to the        *)
(* switch, and CfgVersion above is its version".  Whatever order pushes,   *)
(* re-pushes, adoption replies, late MarkApplied calls, failed writes and  *)
(* restarts come in, a push's version is never reported, nor kept in the   *)
(* state file, next to another push's text.                                *)
ClaimMatchesText ==
    \A s \in {st, disk} :
        s.cfgVersion \in PushVersions => s.systemCfg = CfgOf[s.cfgVersion]

(* session.go, SetSnapshot: a device that is not pinned reports its own    *)
(* firmware version, or the version of an emulated upgrade that was made   *)
(* while it ran the version it still runs.                                 *)
TruthWins ==
    up /\ ~Pinned =>
        \/ version = snapVersion
        \/ version = st.firmware /\ st.firmwareBase \in {NoFw, snapVersion}

(* The state file is not older than the memory: unless the last write of   *)
(* it failed, a restart finds the key, the reported cfgversion and both    *)
(* pushes exactly as they were (the firmware fiction aside, which          *)
(* SetSnapshot drops without saving).                                      *)
NothingLost ==
    up /\ ~unsaved => DropFiction(disk) = DropFiction(st)

===========================================================================

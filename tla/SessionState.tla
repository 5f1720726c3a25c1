--------------------------- MODULE SessionState ---------------------------
(***************************************************************************)
(* The persisted adoption state of one bridged device and what each        *)
(* controller reply makes of it: type State of internal/device/state.go    *)
(* and the reply handlers of internal/device/session.go, as operators on   *)
(* one record.  Session.tla and InformLoop.tla build their state machines  *)
(* on them.                                                                *)
(*                                                                         *)
(* Abstractions.  A system_cfg text is a member of Cfgs, NoCfg is the      *)
(* empty text.  A cfgversion is a natural number, 0 for "0" and for the    *)
(* empty string of a State without a push.  A firmware version is a        *)
(* member of Firmwares, NoFw is the empty string.  The auth key is either  *)
(* the factory key or the one key this controller hands out.  The inform   *)
(* URL is left out (there is one controller to inform), and so are the     *)
(* contents of the setstate tables that are echoed back to it.             *)
(***************************************************************************)
EXTENDS Naturals

CONSTANTS
    Cfgs,       \* the system_cfg texts the controller can push
    NoCfg,      \* the empty system_cfg
    Firmwares,  \* firmware version strings, of the device and of upgrades
    NoFw        \* the empty version string

ASSUME NoCfgAssumption == NoCfg \notin Cfgs
ASSUME NoFwAssumption == NoFw \notin Firmwares

DefaultKey == "default"
AdoptedKey == "adopted"
Keys == {DefaultKey, AdoptedKey}

States ==
    [key : Keys, cfgVersion : Nat, adopted : BOOLEAN, useAESGCM : BOOLEAN,
     provisioned : BOOLEAN, systemCfg : Cfgs \cup {NoCfg},
     pendingCfgVersion : Nat, pendingSystemCfg : Cfgs \cup {NoCfg},
     firmware : Firmwares \cup {NoFw}, firmwareBase : Firmwares \cup {NoFw}]

(* A missing state file is a fresh device; NewSession fills in the key. *)
FreshState ==
    [key |-> DefaultKey, cfgVersion |-> 0, adopted |-> FALSE,
     useAESGCM |-> FALSE, provisioned |-> FALSE, systemCfg |-> NoCfg,
     pendingCfgVersion |-> 0, pendingSystemCfg |-> NoCfg,
     firmware |-> NoFw, firmwareBase |-> NoFw]

---------------------------------------------------------------------------
(* Replies.  A setparam always carries mgmt_cfg; the rest is optional.     *)

Setparam(authkey, ver, cfg, gcm) ==
    [type |-> "setparam", authkey |-> authkey, ver |-> ver, cfg |-> cfg, gcm |-> gcm]
Cmd(name) == [type |-> name]
Setstate(ver) == [type |-> "setstate", ver |-> ver]
UpgradeTo(fw) == [type |-> "upgrade", fw |-> fw]

(* cmd set-adopt / adopt: rotates the key unconditionally. *)
SetAdopt(s) == [s EXCEPT !.key = AdoptedKey, !.adopted = TRUE]

(* cmd setdefault.  SystemCfg and the pending push are left as they are. *)
SetDefault(s) ==
    [s EXCEPT !.adopted = FALSE, !.key = DefaultKey, !.cfgVersion = 0,
              !.useAESGCM = FALSE, !.provisioned = FALSE]

(* Mutant: the version of a push is claimed when it arrives. *)
ClaimOnArrival(s, r) ==
    [s EXCEPT !.cfgVersion = IF r.ver # 0 THEN r.ver ELSE @,
              !.pendingCfgVersion = IF r.cfg # NoCfg THEN r.ver ELSE @,
              !.pendingSystemCfg = IF r.cfg # NoCfg THEN r.cfg ELSE @]

(* A reply that carries a system_cfg is parked as pending and its version  *)
(* is not claimed; one without claims its version at once.                 *)
ParkOrClaim(s, r) ==
    CASE r.cfg # NoCfg -> [s EXCEPT !.pendingCfgVersion = r.ver, !.pendingSystemCfg = r.cfg]
      [] r.cfg = NoCfg /\ r.ver # 0 -> [s EXCEPT !.cfgVersion = r.ver]
      [] OTHER -> s

AdoptsKey(s, r) == r.authkey /\ s.key = DefaultKey

ApplySetparam(s, r) ==
    LET t == ParkOrClaim(s, r)
        u == IF AdoptsKey(s, r) THEN [t EXCEPT !.key = AdoptedKey, !.adopted = TRUE] ELSE t
    IN  [u EXCEPT !.useAESGCM = IF r.gcm = "unset" THEN @ ELSE r.gcm = "true"]

ApplySetstate(s, r) ==
    [s EXCEPT !.cfgVersion = IF r.ver # 0 THEN r.ver ELSE @, !.provisioned = TRUE]

(* An emulated upgrade remembers the device's own version as its base. *)
ApplyUpgrade(s, fw, deviceVersion) ==
    IF fw = NoFw THEN s ELSE [s EXCEPT !.firmware = fw, !.firmwareBase = deviceVersion]

ApplyReply(s, r, deviceVersion) ==
    CASE r.type = "set-adopt"  -> SetAdopt(s)
      [] r.type = "setdefault" -> SetDefault(s)
      [] r.type = "setparam"   -> ApplySetparam(s, r)
      [] r.type = "setstate"   -> ApplySetstate(s, r)
      [] r.type = "upgrade"    -> ApplyUpgrade(s, r.fw, deviceVersion)
      [] OTHER                 -> s        \* noop, reboot, locate, cycles

---------------------------------------------------------------------------
(* The push protocol. *)

IsPending(s) == s.pendingSystemCfg # NoCfg
IsApplied(s) == s.systemCfg # NoCfg

(* Mutant: the check for a superseded push is forgotten. *)
MarkedAppliedAnyway(s, ver) ==
    [s EXCEPT !.cfgVersion = ver, !.systemCfg = s.pendingSystemCfg,
              !.pendingCfgVersion = 0, !.pendingSystemCfg = NoCfg]

(* MarkApplied: only the push that is still pending is claimed. *)
MarkedApplied(s, ver) ==
    IF s.pendingCfgVersion # ver THEN s
    ELSE [s EXCEPT !.cfgVersion = ver, !.systemCfg = s.pendingSystemCfg,
                   !.pendingCfgVersion = 0, !.pendingSystemCfg = NoCfg]

---------------------------------------------------------------------------
(* The firmware fiction. *)

(* Mutant: the device's own version is not compared. *)
FictionStandsForever(s, v) == s.firmware # NoFw

FictionStands(s, v) == s.firmware # NoFw /\ s.firmwareBase \in {NoFw, v}

DropFiction(s) == [s EXCEPT !.firmware = NoFw, !.firmwareBase = NoFw]

(* NewSession from the loaded state of a device that reports version v. *)
LoadedState(s, v) ==
    IF s.firmware = NoFw \/ FictionStands(s, v) THEN s ELSE DropFiction(s)

LoadedVersion(s, v) == IF FictionStands(s, v) THEN s.firmware ELSE v
===========================================================================

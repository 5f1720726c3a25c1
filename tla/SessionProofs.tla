--------------------------- MODULE SessionProofs ---------------------------
(* Theorems about one device session, for every set of pushes, firmware    *)
(* versions and pins, and every bound on what may go wrong.                *)
EXTENDS Session, TLAPS

---------------------------------------------------------------------------
(* Types, and what the operators of the model return. *)

(* The session's variables are of their types; an apply under way is of a  *)
(* push.                                                                   *)
SessionTypeOK ==
    /\ up \in BOOLEAN /\ unsaved \in BOOLEAN
    /\ st \in States /\ disk \in States
    /\ version \in Firmwares \cup {NoFw} /\ snapVersion \in Firmwares \cup {NoFw}
    /\ pin \in Pins /\ devVersion \in Firmwares
    /\ applying \in Nat
    /\ left \in [moves : Nat, failures : Nat, crashes : Nat]

LEMMA FreshIsState == FreshState \in States
BY DEF FreshState, States, Keys, DefaultKey

(* The fiction is dropped from a state and nothing else is. *)
LEMMA DropFictionKeeps ==
    ASSUME NEW s \in States
    PROVE  /\ DropFiction(s) \in States
           /\ DropFiction(s) = [s EXCEPT !.firmware = NoFw, !.firmwareBase = NoFw]
           /\ DropFiction(s).firmware = NoFw
           /\ DropFiction(s).cfgVersion = s.cfgVersion /\ DropFiction(s).systemCfg = s.systemCfg
           /\ DropFiction(s).pendingCfgVersion = s.pendingCfgVersion
           /\ DropFiction(s).pendingSystemCfg = s.pendingSystemCfg
           /\ DropFiction(DropFiction(s)) = DropFiction(s)
BY DEF DropFiction, States

(* A poll or a start makes of a state that state or the one without its    *)
(* fiction.                                                                *)
LEMMA SnapshotKeeps ==
    ASSUME NEW s \in States, NEW v
    PROVE  SnapshotState(s, v) \in {s, DropFiction(s)} /\ LoadedState(s, v) \in {s, DropFiction(s)}
BY DEF SnapshotState, LoadedState

LEMMA StartKeeps ==
    ASSUME SessionTypeOK, Start
    PROVE  st' \in States /\ st' \in {disk, DropFiction(disk)}
<1>1. PICK v, s : s = LoadedState(disk, v) /\ st' = SnapshotState(s, devVersion)
    BY DEF Start
<1>2. s \in {disk, DropFiction(disk)} /\ s \in States
    BY <1>1, SnapshotKeeps, DropFictionKeeps DEF SessionTypeOK
<1>3. st' \in {s, DropFiction(s)}
    BY <1>1, <1>2, SnapshotKeeps
<1>4. /\ DropFiction(disk) \in States /\ DropFiction(DropFiction(disk)) = DropFiction(disk)
      /\ disk \in States
    BY DropFictionKeeps DEF SessionTypeOK
<1>5. CASE s = disk
    BY <1>3, <1>4, <1>5
<1>6. CASE s = DropFiction(disk)
    BY <1>3, <1>4, <1>6
<1> QED
    BY <1>2, <1>5, <1>6

(* Every reply of the controller makes a state of a state. *)
LEMMA ReplyType ==
    ASSUME NEW s \in States, NEW r \in Replies, NEW v \in Firmwares \cup {NoFw}
    PROVE  ApplyReply(s, r, v) \in States
<1> USE PushAssumption DEF States, Keys, DefaultKey, AdoptedKey
<1>1. CASE r = Cmd("set-adopt")
    BY <1>1 DEF Cmd, ApplyReply, SetAdopt
<1>7. CASE r = Cmd("setdefault")
    BY <1>7 DEF Cmd, ApplyReply, SetDefault
<1>8. CASE r = Cmd("noop")
    BY <1>8 DEF Cmd, ApplyReply
<1>2. CASE r = Setstate(MgmtVersion)
    BY <1>2 DEF Setstate, ApplyReply, ApplySetstate
<1>3. CASE r = Setparam(TRUE, MgmtVersion, NoCfg, "true")
    BY <1>3 DEF Setparam, ApplyReply, ApplySetparam, ParkOrClaim, AdoptsKey
<1>4. CASE r = Setparam(FALSE, 0, NoCfg, "false")
    BY <1>4 DEF Setparam, ApplyReply, ApplySetparam, ParkOrClaim, AdoptsKey
<1>5. ASSUME NEW w \in PushVersions, r = Setparam(FALSE, w, CfgOf[w], "unset")
      PROVE  ApplyReply(s, r, v) \in States
    BY <1>5 DEF Setparam, ApplyReply, ApplySetparam, ParkOrClaim, AdoptsKey
<1>6. ASSUME NEW fw \in Firmwares, r = UpgradeTo(fw)
      PROVE  ApplyReply(s, r, v) \in States
    BY <1>6 DEF UpgradeTo, ApplyReply, ApplyUpgrade
<1> QED
    BY <1>1, <1>2, <1>3, <1>4, <1>5, <1>6, <1>7, <1>8 DEF Replies

LEMMA SaveType ==
    ASSUME SessionTypeOK, NEW s \in States, Save(s)
    PROVE  /\ disk' \in States /\ unsaved' \in BOOLEAN
           /\ left' \in [moves : Nat, failures : Nat, crashes : Nat]
           /\ disk' \in {s, disk} /\ (~unsaved' => disk' = s)
<1>1. CASE disk' = s /\ unsaved' = FALSE /\ UNCHANGED left
    BY <1>1 DEF SessionTypeOK
<1>2. CASE /\ left.failures > 0 /\ left' = [left EXCEPT !.failures = @ - 1]
           /\ unsaved' = TRUE /\ UNCHANGED disk
    BY <1>2 DEF SessionTypeOK
<1> QED
    BY <1>1, <1>2 DEF Save

LEMMA InitType == Init => SessionTypeOK
<1> SUFFICES ASSUME Init PROVE SessionTypeOK
    OBVIOUS
<1>1. left \in [moves : Nat, failures : Nat, crashes : Nat] /\ applying \in Nat
    BY SessionBounds DEF Init
<1>2. up \in BOOLEAN /\ unsaved \in BOOLEAN
    BY Zenon DEF Init
<1> QED
    BY <1>1, <1>2, FreshIsState, Zenon DEF Init, SessionTypeOK

(* What a step of the session does to the state and its file, with types:  *)
(* the frame every invariant below is proved in.                           *)
LEMMA NextType ==
    ASSUME SessionTypeOK, [Next]_vars
    PROVE  SessionTypeOK'
<1>1. CASE Start
  <2>1. version' \in Firmwares \cup {NoFw}
    BY <1>1, PinsAssumption
       DEF Start, SnapshotVersion, LoadedVersion, FictionStands, SessionTypeOK, States
  <2> QED
    BY <1>1, <2>1, StartKeeps DEF Start, SessionTypeOK
<1>2. CASE SetSnapshot
  <2>1. st' \in States
    BY <1>2, SnapshotKeeps, DropFictionKeeps DEF SetSnapshot, SessionTypeOK
  <2> QED
    BY <1>2, <2>1 DEF SetSnapshot, SnapshotVersion, SessionTypeOK
<1>3. ASSUME NEW r \in Replies, Apply(r) PROVE SessionTypeOK'
  <2>1. st' \in States
    BY <1>3, ReplyType DEF Apply, SessionTypeOK
  <2>2. version' \in Firmwares \cup {NoFw}
    BY <1>3 DEF Apply, Replies, Cmd, Setstate, Setparam, UpgradeTo, SessionTypeOK
  <2> QED
    BY <1>3, <2>1, <2>2, SaveType DEF Apply, SessionTypeOK
<1>4. CASE BeginApply \/ ApplyFailed
    BY <1>4 DEF BeginApply, ApplyFailed, SessionTypeOK, States
<1>5. CASE MarkApplied
  <2>1. st' \in States
    BY <1>5 DEF MarkApplied, MarkedApplied, SessionTypeOK, States
  <2>2. /\ disk' \in States /\ unsaved' \in BOOLEAN
        /\ left' \in [moves : Nat, failures : Nat, crashes : Nat]
    <3>1. CASE Save(st')
      BY <2>1, <3>1, SaveType
    <3>2. CASE UNCHANGED <<disk, unsaved, left>>
      BY <3>2 DEF SessionTypeOK
    <3> QED
      BY <1>5, <3>1, <3>2 DEF MarkApplied
  <2> QED
    BY <1>5, <2>1, <2>2 DEF MarkApplied, SessionTypeOK
<1>6. ASSUME NEW v \in Firmwares, DeviceMoves(v) PROVE SessionTypeOK'
    BY <1>6 DEF DeviceMoves, SessionTypeOK
<1>7. ASSUME NEW p \in Pins, Crash(p) PROVE SessionTypeOK'
  <2>1. left' \in [moves : Nat, failures : Nat, crashes : Nat] /\ applying' \in Nat
    BY <1>7 DEF Crash, SessionTypeOK
  <2>2. up' \in BOOLEAN
    BY <1>7, Zenon DEF Crash
  <2> QED
    BY <1>7, <2>1, <2>2, FreshIsState, Zenon DEF Crash, SessionTypeOK
<1>8. CASE UNCHANGED vars
    BY <1>8 DEF vars, SessionTypeOK
<1> QED
    BY <1>1, <1>2, <1>3, <1>4, <1>5, <1>6, <1>7, <1>8 DEF Next

---------------------------------------------------------------------------
(* Claims.  A push is claimed long after it was parked, so the invariant   *)
(* must also know whose text the pending one is: the text of the pending   *)
(* version, and no version without a text.                                 *)

Claims(s) ==
    /\ s.cfgVersion \in PushVersions => s.systemCfg = CfgOf[s.cfgVersion]
    /\ s.pendingSystemCfg = NoCfg => s.pendingCfgVersion = 0
    /\ s.pendingSystemCfg # NoCfg =>
         s.pendingCfgVersion \in PushVersions /\ s.pendingSystemCfg = CfgOf[s.pendingCfgVersion]

ClaimInv == Claims(st) /\ Claims(disk)

LEMMA FreshClaims == Claims(FreshState)
BY PushAssumption DEF FreshState, Claims

LEMMA DropFictionClaims ==
    ASSUME NEW s \in States, Claims(s)
    PROVE  Claims(DropFiction(s))
BY DropFictionKeeps DEF Claims

LEMMA ReplyClaims ==
    ASSUME NEW s \in States, Claims(s), NEW r \in Replies, NEW v
    PROVE  Claims(ApplyReply(s, r, v))
<1> USE PushAssumption, NoCfgAssumption DEF States, Claims
<1>1. CASE r = Cmd("set-adopt")
    BY <1>1 DEF Cmd, ApplyReply, SetAdopt
<1>2. CASE r = Cmd("setdefault")
    BY <1>2 DEF Cmd, ApplyReply, SetDefault
<1>3. CASE r = Cmd("noop")
    BY <1>3 DEF Cmd, ApplyReply
<1>4. CASE r = Setstate(MgmtVersion)
    BY <1>4 DEF Setstate, ApplyReply, ApplySetstate
<1>5. CASE r = Setparam(TRUE, MgmtVersion, NoCfg, "true")
    BY <1>5 DEF Setparam, ApplyReply, ApplySetparam, ParkOrClaim, AdoptsKey
<1>6. CASE r = Setparam(FALSE, 0, NoCfg, "false")
    BY <1>6 DEF Setparam, ApplyReply, ApplySetparam, ParkOrClaim, AdoptsKey
<1>7. ASSUME NEW w \in PushVersions, r = Setparam(FALSE, w, CfgOf[w], "unset")
      PROVE  Claims(ApplyReply(s, r, v))
    BY <1>7 DEF Setparam, ApplyReply, ApplySetparam, ParkOrClaim, AdoptsKey
<1>8. ASSUME NEW fw \in Firmwares, r = UpgradeTo(fw)
      PROVE  Claims(ApplyReply(s, r, v))
    BY <1>8 DEF UpgradeTo, ApplyReply, ApplyUpgrade
<1> QED
    BY <1>1, <1>2, <1>3, <1>4, <1>5, <1>6, <1>7, <1>8 DEF Replies

(* A push that is still pending when it is marked is claimed with its own  *)
(* text; one that was replaced is not claimed.                             *)
LEMMA MarkClaims ==
    ASSUME NEW s \in States, Claims(s), NEW ver \in Nat \ {0}
    PROVE  Claims(MarkedApplied(s, ver))
BY PushAssumption DEF MarkedApplied, Claims, States

LEMMA NextClaims ==
    ASSUME SessionTypeOK, ClaimInv, [Next]_vars
    PROVE  ClaimInv'
<1>1. CASE Start
    BY <1>1, StartKeeps, DropFictionClaims DEF Start, SessionTypeOK, ClaimInv
<1>2. CASE SetSnapshot
    BY <1>2, SnapshotKeeps, DropFictionClaims DEF SetSnapshot, SessionTypeOK, ClaimInv
<1>3. ASSUME NEW r \in Replies, Apply(r) PROVE ClaimInv'
  <2>1. st' \in States /\ Claims(st')
    BY <1>3, ReplyType, ReplyClaims DEF Apply, SessionTypeOK, ClaimInv
  <2>2. disk' \in {st', disk}
    BY <1>3, <2>1, SaveType DEF Apply
  <2> QED
    BY <2>1, <2>2 DEF ClaimInv
<1>4. CASE MarkApplied
  <2>1. st' = MarkedApplied(st, applying) /\ applying \in Nat \ {0}
    BY <1>4 DEF MarkApplied, SessionTypeOK
  <2>2. st' \in States /\ Claims(st')
    BY <2>1, MarkClaims DEF MarkedApplied, SessionTypeOK, States, ClaimInv
  <2>3. disk' \in {st', disk}
    BY <1>4, <2>2, SaveType DEF MarkApplied
  <2> QED
    BY <2>2, <2>3 DEF ClaimInv
<1>5. ASSUME NEW p \in Pins, Crash(p) PROVE ClaimInv'
    BY <1>5, FreshClaims DEF Crash, ClaimInv
<1>6. CASE BeginApply \/ ApplyFailed \/ (\E v \in Firmwares : DeviceMoves(v)) \/ UNCHANGED vars
    BY <1>6 DEF BeginApply, ApplyFailed, DeviceMoves, vars, ClaimInv
<1> QED
    BY <1>1, <1>2, <1>3, <1>4, <1>5, <1>6 DEF Next

(* ClaimMatchesText: a push's version is never reported, nor kept in the   *)
(* state file, next to another push's text, whatever order replies, late   *)
(* MarkApplied calls, failed writes and restarts come in (Session.Apply,   *)
(* Session.MarkApplied).                                                   *)
THEOREM ClaimsMatch == Spec => []ClaimMatchesText
<1>1. Init => ClaimInv
    BY FreshClaims DEF Init, ClaimInv
<1>2. SessionTypeOK /\ ClaimInv /\ [Next]_vars => ClaimInv'
    BY NextClaims
<1>3. ClaimInv => ClaimMatchesText
    BY DEF ClaimInv, Claims, ClaimMatchesText
<1> QED
    BY <1>1, <1>2, <1>3, InitType, NextType, PTL DEF Spec

---------------------------------------------------------------------------
(* Firmware.  The version reported without a pin is the emulated one       *)
(* exactly as long as the state has one, and that one is based on what the *)
(* last poll saw.                                                          *)

TruthInv ==
    up /\ ~Pinned =>
        IF st.firmware = NoFw THEN version = snapVersion
        ELSE version = st.firmware /\ st.firmwareBase \in {NoFw, snapVersion}

LEMMA NextTruth ==
    ASSUME SessionTypeOK, TruthInv, [Next]_vars
    PROVE  TruthInv'
<1>1. CASE Start
  <2> SUFFICES ASSUME ~Pinned PROVE TruthInv'
    BY <1>1 DEF Start, TruthInv, Pinned
  <2> DEFINE s == LoadedState(disk, devVersion)
  <2>1. /\ st' = SnapshotState(s, devVersion) /\ snapVersion' = devVersion
        /\ version' = SnapshotVersion(s, LoadedVersion(disk, devVersion), devVersion)
    BY <1>1 DEF Start
  <2>2. CASE FictionStands(disk, devVersion)
    BY <2>1, <2>2 DEF LoadedState, LoadedVersion, SnapshotState, SnapshotVersion, FictionStands, TruthInv
  <2>3. CASE ~FictionStands(disk, devVersion)
    <3>1. s.firmware = NoFw
      BY <2>3, DropFictionKeeps DEF LoadedState, SessionTypeOK
    <3> QED
      BY <2>1, <3>1 DEF SnapshotState, SnapshotVersion, FictionStands, TruthInv
  <2> QED
    BY <2>2, <2>3
<1>2. CASE SetSnapshot
  <2> SUFFICES ASSUME ~Pinned PROVE TruthInv'
    BY <1>2 DEF SetSnapshot, TruthInv, Pinned
  <2>1. CASE FictionStands(st, devVersion)
    BY <1>2, <2>1 DEF SetSnapshot, SnapshotState, SnapshotVersion, FictionStands, TruthInv
  <2>2. CASE ~FictionStands(st, devVersion)
    <3>1. st'.firmware = NoFw
      BY <1>2, <2>2, DropFictionKeeps DEF SetSnapshot, SnapshotState, SessionTypeOK
    <3> QED
      BY <1>2, <2>2, <3>1 DEF SetSnapshot, SnapshotVersion, TruthInv
  <2> QED
    BY <2>1, <2>2
<1>3. ASSUME NEW r \in Replies, Apply(r) PROVE TruthInv'
  <2>1. CASE r.type = "upgrade"
    <3>1. r.fw \in Firmwares /\ r.fw # NoFw
      BY <2>1, NoFwAssumption DEF Replies, Cmd, Setstate, Setparam, UpgradeTo
    <3> QED
      BY <1>3, <2>1, <3>1 DEF Apply, ApplyReply, ApplyUpgrade, SessionTypeOK, States, TruthInv
  <2>2. CASE r.type # "upgrade"
    <3>1. st'.firmware = st.firmware /\ st'.firmwareBase = st.firmwareBase
      BY <1>3, <2>2 DEF Apply, ApplyReply, SetAdopt, SetDefault, ApplySetparam, ParkOrClaim,
         ApplySetstate, SessionTypeOK, States
    <3> QED
      BY <1>3, <2>2, <3>1 DEF Apply, TruthInv, Pinned
  <2> QED
    BY <2>1, <2>2
<1>4. CASE MarkApplied
  <2>1. st'.firmware = st.firmware /\ st'.firmwareBase = st.firmwareBase
    BY <1>4 DEF MarkApplied, MarkedApplied, SessionTypeOK, States
  <2> QED
    BY <1>4, <2>1 DEF MarkApplied, TruthInv, Pinned
<1>5. ASSUME NEW p \in Pins, Crash(p) PROVE TruthInv'
    BY <1>5 DEF Crash, TruthInv
<1>6. CASE BeginApply \/ ApplyFailed \/ (\E v \in Firmwares : DeviceMoves(v)) \/ UNCHANGED vars
    BY <1>6 DEF BeginApply, ApplyFailed, DeviceMoves, vars, TruthInv, Pinned
<1> QED
    BY <1>1, <1>2, <1>3, <1>4, <1>5, <1>6 DEF Next

(* TruthWins: a device that is not pinned reports its own firmware version *)
(* or one emulated while it ran what it still runs (Session.SetSnapshot,   *)
(* NewSession).                                                            *)
THEOREM TruthReported == Spec => []TruthWins
<1>1. Init => TruthInv
    BY DEF Init, TruthInv
<1>2. SessionTypeOK /\ TruthInv /\ [Next]_vars => TruthInv'
    BY NextTruth
<1>3. TruthInv => TruthWins
    BY DEF TruthInv, TruthWins
<1> QED
    BY <1>1, <1>2, <1>3, InitType, NextType, PTL DEF Spec

---------------------------------------------------------------------------
(* The state file. *)

LEMMA NextKeeps ==
    ASSUME SessionTypeOK, NothingLost, [Next]_vars
    PROVE  NothingLost'
<1>1. CASE Start
    BY <1>1, StartKeeps, DropFictionKeeps DEF Start, SessionTypeOK, NothingLost
<1>2. CASE SetSnapshot
    BY <1>2, SnapshotKeeps, DropFictionKeeps DEF SetSnapshot, SessionTypeOK, NothingLost
<1>3. ASSUME NEW r \in Replies, Apply(r) PROVE NothingLost'
  <2>1. st' \in States
    BY <1>3, ReplyType DEF Apply, SessionTypeOK
  <2>2. CASE st' = st
    BY <1>3, <2>2 DEF Apply, NothingLost
  <2>3. CASE st' # st
    BY <1>3, <2>1, <2>3, SaveType DEF Apply, NothingLost
  <2> QED
    BY <2>2, <2>3
<1>4. CASE MarkApplied
  <2>1. st' \in States
    BY <1>4 DEF MarkApplied, MarkedApplied, SessionTypeOK, States
  <2>2. CASE st.pendingCfgVersion = applying
    BY <1>4, <2>1, <2>2, SaveType DEF MarkApplied, NothingLost
  <2>3. CASE st.pendingCfgVersion # applying
    BY <1>4, <2>3 DEF MarkApplied, MarkedApplied, NothingLost
  <2> QED
    BY <2>2, <2>3
<1>5. ASSUME NEW p \in Pins, Crash(p) PROVE NothingLost'
    BY <1>5 DEF Crash, NothingLost
<1>6. CASE BeginApply \/ ApplyFailed \/ (\E v \in Firmwares : DeviceMoves(v)) \/ UNCHANGED vars
    BY <1>6 DEF BeginApply, ApplyFailed, DeviceMoves, vars, NothingLost
<1> QED
    BY <1>1, <1>2, <1>3, <1>4, <1>5, <1>6 DEF Next

(* NothingLost: unless the last write failed the state file is what the    *)
(* process holds, the firmware fiction aside (Store.Save, Session.Apply).  *)
THEOREM FileIsCurrent == Spec => []NothingLost
<1>1. Init => NothingLost
    BY DEF Init, NothingLost
<1>2. SessionTypeOK /\ NothingLost /\ [Next]_vars => NothingLost'
    BY NextKeeps
<1> QED
    BY <1>1, <1>2, InitType, NextType, PTL DEF Spec

===========================================================================

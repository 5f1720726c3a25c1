--------------------------- MODULE SonicSettings ---------------------------
(***************************************************************************)
(* The switch-wide settings of a SONiC switch: spanning tree by             *)
(* disunified-l2d under its dead-man timer (SonicL2), and the time, log and *)
(* SNMP servers (SonicDevice).  ApplyDevice runs both, one after the other, *)
(* over files and tables the other never touches; each runs here with the   *)
(* other at rest.                                                           *)
(***************************************************************************)
EXTENDS Naturals, Sequences, FiniteSets

CONSTANTS Settings, MaxFires, None,
          Hosts, Pool(_), Addr, Communities, Pushes, Factory, NoAddr, NoCommunity,
          MaxFaults

ASSUME SettingsAssumption ==
  /\ MaxFires \in Nat \ {0} /\ MaxFaults \in Nat
  /\ \A h \in Hosts : Pool(h) \subseteq Addr
  /\ Factory.yml \subseteq Communities

\* A server is an address or a hostname, with a port.
ASSUME ServersAssumption ==
  /\ IsFiniteSet(Addr) /\ IsFiniteSet(Communities)
  /\ NoAddr \notin Addr /\ Hosts \cap Addr = {}
  /\ Factory.cfg \in [ntp : [Addr -> Nat], syslog : [Addr -> Nat], snmp : SUBSET Communities]
  /\ \A p \in Pushes : /\ p.snmp \in Communities \cup {NoCommunity}
                        /\ \A k \in {"ntp", "syslog"} : p[k] \in Seq([host : Hosts \cup Addr, port : Nat \ {0}])

VARIABLES kind,   \* the half that runs
          sw, cuts, intent, want, seen, l2view, turn, l2job, asked, unmarked, untimed,
          cfg, saved, yml, view, pins, file, push, job, settled,
          faults

l2Vars == <<sw, cuts, intent, want, seen, l2view, turn, l2job, asked, unmarked, untimed>>
deviceVars == <<cfg, saved, yml, view, pins, file, push, job, settled>>
vars == <<kind, l2Vars, deviceVars, faults>>

L2 == INSTANCE SonicL2 WITH push <- intent, view <- l2view, job <- l2job
Device == INSTANCE SonicDevice

Init ==
  /\ kind \in {"l2", "device"}
  /\ L2!Init /\ (kind = "l2" \/ (sw.mstpd = "" /\ ~cuts /\ intent = CHOOSE i \in L2!Intents : TRUE))
  /\ Device!Init /\ (kind = "device" \/ push = CHOOSE p \in Pushes : TRUE)

L2Step == kind = "l2" /\ L2!Next /\ UNCHANGED <<kind, deviceVars>>
DeviceStep == kind = "device" /\ Device!Next /\ UNCHANGED <<kind, l2Vars>>

Next == L2Step \/ DeviceStep

Spec == Init /\ [][Next]_vars

(***************************************************************************)
(* Properties.                                                              *)
(***************************************************************************)
\* Spanning tree the dead-man timer undid stays down until the controller has
\* had it off, over restarts of the bridge and of the daemon and over intents
\* the driver still holds (applyL2's latch), unless a config planned on a
\* collect from before the firing was written over the mark.
UndoneStaysDown == L2!UndoneStaysDown

\* A switch that a first enable of spanning tree cut off from the bridge has a
\* timer running that takes it back (applyL2's batch, confirmL2), unless the
\* batch ended between config and timer, a reboot took the timer away, or the
\* driver had it for running when the timer had undone it.
Returns == L2!Returns

\* As l2d.py (deadman) and docs/drivers/sonic.md say: once the timer has fired,
\* spanning tree is not enabled again before the controller has had it off.
NotEnabledAgain == L2!NotEnabledAgain

\* A device push that went through leaves its servers and its community on the
\* switch and no others, those an operator added by hand included, over
\* restarts of switch and bridge (applyDevice).
OnlyThePush == Device!OnlyThePush

\* After such a push the next apply writes nothing, whatever the hostnames now
\* resolve to (pinnedIP and the pins on disk).
NoChurn == Device!NoChurn
=============================================================================

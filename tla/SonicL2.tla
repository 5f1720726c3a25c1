------------------------------ MODULE SonicL2 ------------------------------
(***************************************************************************)
(* Spanning tree on a SONiC image without an STP daemon: the driver         *)
(* installs disunified-l2d, writes its config from the two halves of a push *)
(* (ApplyDevice, ApplyPorts) and starts or reloads it (applyL2); a first    *)
(* enable runs under a dead-man timer on the switch that a fresh connection *)
(* cancels (confirmL2), and that undoes spanning tree and marks the config  *)
(* otherwise.  The daemon reads its config again by itself.  Spanning tree  *)
(* may cut the bridge off; a batch may be cut off; both sides restart.      *)
(*                                                                         *)
(* The timer keeps the switch's own time: it fires between any two steps.   *)
(* The dead-man's run is one step.  The per-port settings are one value;    *)
(* the three installed files are one.                                       *)
(***************************************************************************)
EXTENDS Integers, Sequences

CONSTANTS Settings,   \* values of the per-port settings
          MaxFires,   \* bound: times the dead-man fires
          MaxFaults,  \* bound: connections lost, collects and builds failed, restarts
          None

VARIABLES
  sw,      \* the switch: config file, what is installed and running, the timer
  cuts,    \* spanning tree, once up, takes the bridge's path to the switch
  push,    \* the controller's intent
  want,    \* the driver's copy of it: the bridge's half and the ports' half
  seen,    \* deadmanSeen, stpOffSeen
  view,    \* sw at the last collect, or None
  turn,    \* the next step of the loop's round
  job,     \* the batch under way, and the confirmation after it
  asked,   \* spanning tree was off in UniFi when the timer fired, or since
  faults,
  \* History, which no step reads:
  unmarked,  \* a mark the driver had not collected was written over
  untimed    \* spanning tree was configured and its timer not armed, or lost

vars == <<sw, cuts, push, want, seen, view, turn, job, asked, faults, unmarked, untimed>>

NoConf == [stp |-> FALSE, guard |-> FALSE, set |-> None, deadman |-> 0]
Idle == [at |-> "idle", ops |-> <<>>, conf |-> NoConf]
Intents == [stp : BOOLEAN, guard : BOOLEAN, set : Settings]

Reachable == ~(sw.up /\ cuts)

Init ==
  /\ \E mstpd \in {"", "yes"} :
       sw = [conf |-> NoConf, installed |-> FALSE, service |-> FALSE, up |-> FALSE, timer |-> FALSE, mstpd |-> mstpd, fired |-> 0]
  /\ cuts \in BOOLEAN
  /\ push \in Intents
  /\ want = [stp |-> None, ports |-> None]
  /\ seen = [deadman |-> 0, off |-> FALSE]
  /\ view = None /\ turn = "collect" /\ job = Idle /\ asked = TRUE /\ faults = 0
  /\ unmarked = FALSE /\ untimed = FALSE

Fault == faults < MaxFaults /\ faults' = faults + 1

Untimed(s, now) == untimed' = (s.conf.stp /\ (untimed \/ now))

(***************************************************************************)
(* The switch.                                                              *)
(***************************************************************************)
\* A restart, a reload or the daemon's own round: the config is read again.
Synced(s) == [s EXCEPT !.up = s.service /\ s.conf.stp /\ s.mstpd = "yes"]

Sync ==
  /\ sw # Synced(sw)
  /\ sw' = Synced(sw)
  /\ UNCHANGED <<cuts, push, want, seen, view, turn, job, asked, faults, unmarked, untimed>>

\* --deadman: stop, tear down, mark the config, start again.
Deadman ==
  /\ sw.timer /\ sw.fired < MaxFires
  /\ sw' = [sw EXCEPT !.timer = FALSE, !.up = FALSE, !.service = TRUE, !.fired = @ + 1,
                      !.conf = [@ EXCEPT !.stp = FALSE, !.deadman = sw.fired + 1]]
  /\ asked' = ~push.stp
  /\ unmarked' = FALSE /\ untimed' = FALSE
  /\ UNCHANGED <<cuts, push, want, seen, view, turn, job, faults>>

Build ==
  /\ sw.mstpd = "building"
  /\ sw' = [sw EXCEPT !.mstpd = "yes"]
  /\ UNCHANGED <<cuts, push, want, seen, view, turn, job, asked, faults, unmarked, untimed>>

BuildFails ==
  /\ sw.mstpd = "building" /\ Fault
  /\ sw' = [sw EXCEPT !.mstpd = ""]
  /\ UNCHANGED <<cuts, push, want, seen, view, turn, job, asked, unmarked, untimed>>

\* Cables move while spanning tree is down.
Rewire ==
  /\ ~sw.up
  /\ cuts' = ~cuts
  /\ UNCHANGED <<sw, push, want, seen, view, turn, job, asked, faults, unmarked, untimed>>

\* The config asks for spanning tree and the timer is still to be armed.
Window ==
  /\ job.at = "batch" /\ job.conf.stp /\ sw.conf.stp
  /\ "arm" \in {job.ops[i] : i \in DOMAIN job.ops}

\* The timer is a transient unit; the daemon is enabled at boot.  A batch
\* under way ends.
Reboot ==
  /\ Fault
  /\ sw' = Synced([sw EXCEPT !.timer = FALSE, !.service = sw.installed])
  /\ job' = IF job.at = "batch" THEN Idle ELSE job
  /\ Untimed(sw, sw.timer \/ Window)
  /\ UNCHANGED <<cuts, push, want, seen, view, turn, asked, unmarked>>

After(s, o, conf) ==
  CASE o = "install" -> [s EXCEPT !.installed = TRUE]
    [] o = "conf"    -> [s EXCEPT !.conf = conf]
    [] o = "disarm"  -> [s EXCEPT !.timer = FALSE]
    [] o = "arm"     -> [s EXCEPT !.timer = TRUE]
    [] o = "start"   -> Synced([s EXCEPT !.service = TRUE])

(***************************************************************************)
(* The driver.                                                              *)
(***************************************************************************)
\* With the answer to the inform that reports the collect.
Push(p) ==
  /\ turn = "device" /\ job = Idle /\ push # p
  /\ push' = p
  /\ asked' = (asked \/ ~p.stp)
  /\ UNCHANGED <<sw, cuts, want, seen, view, turn, job, faults, unmarked, untimed>>

Collect ==
  /\ turn = "collect" /\ job = Idle /\ Reachable
  /\ turn' = "device"
  /\ view' = sw
  /\ UNCHANGED <<sw, cuts, push, want, seen, job, asked, faults, unmarked, untimed>>

\* A collect that fails keeps the last view; the round goes on with it.
CollectFails ==
  /\ turn = "collect" /\ job = Idle
  /\ IF Reachable THEN Fault ELSE UNCHANGED faults
  /\ turn' = "device"
  /\ UNCHANGED <<sw, cuts, push, want, seen, view, job, asked, unmarked, untimed>>

Wanted(w) == [stp |-> w.stp, guard |-> w.ports.guard, set |-> w.ports.set, deadman |-> 0]

\* A mark of the dead-man the driver has not seen yet takes back the off it saw.
Latch(w, s) ==
  IF view.conf.deadman \notin {0, s.deadman} THEN [deadman |-> view.conf.deadman, off |-> FALSE] ELSE s

\* Mutant: the mark on the switch is not looked at.
HeldForgotten(w, s) == Wanted(w)
Held(w, s) ==
  IF view.conf.deadman # 0 /\ w.stp /\ ~Latch(w, s).off
  THEN [Wanted(w) EXCEPT !.stp = FALSE, !.deadman = view.conf.deadman] ELSE Wanted(w)

\* Spanning tree waits until mstpd is there.
Runnable(c) == [c EXCEPT !.stp = c.stp /\ view.mstpd = "yes"]

Batch(c) ==
  LET arm == c.stp /\ ~(view.service /\ view.conf.stp)
  IN  (IF view.installed THEN <<>> ELSE <<"install">>)
      \o (IF view.conf # c THEN <<"conf">> ELSE <<>>)
      \o (IF arm THEN <<"disarm", "arm">> ELSE <<>>)
      \o (IF ~view.service \/ ~view.installed \/ view.conf # c THEN <<"start">> ELSE <<>>)

\* applyL2, with the intent w and what is seen of the dead-man.
ApplyL2(w, s) ==
  LET held == Held(w, s)
      conf == Runnable(held)
      build == held.stp /\ view.mstpd = ""
  IN  IF view = None \/ w.stp = None \/ w.ports = None
         \/ (~w.stp /\ ~w.ports.guard /\ view.conf.set = None)
      THEN seen' = s /\ UNCHANGED <<sw, job>>
      ELSE /\ seen' = Latch(w, s)
           /\ sw' = IF build /\ sw.mstpd = "" /\ Reachable THEN [sw EXCEPT !.mstpd = "building"] ELSE sw
           /\ job' = IF ~Reachable \/ Batch(conf) = <<>> \/ (held.stp /\ ~conf.stp /\ ~conf.guard /\ view.conf.set = None) THEN Idle
                     ELSE [at |-> "batch", ops |-> Batch(conf), conf |-> conf]

ApplyDevice ==
  /\ turn = "device" /\ job = Idle
  /\ turn' = "ports"
  /\ want' = [want EXCEPT !.stp = push.stp]
  /\ ApplyL2(want', [seen EXCEPT !.off = seen.off \/ ~push.stp])
  /\ UNCHANGED <<cuts, push, view, asked, faults, unmarked, untimed>>

ApplyPorts ==
  /\ turn = "ports" /\ job = Idle
  /\ turn' = "collect"
  /\ want' = [want EXCEPT !.ports = [guard |-> push.guard, set |-> push.set]]
  /\ ApplyL2(want', seen)
  /\ UNCHANGED <<cuts, push, view, asked, faults, unmarked, untimed>>

\* The script is on the switch: it runs on when spanning tree cuts the path.
RunOp ==
  /\ job.at = "batch" /\ job.ops # <<>>
  /\ LET o == Head(job.ops)
     IN  /\ sw' = After(sw, o, job.conf)
         /\ unmarked' = (unmarked \/ (o = "conf" /\ sw.conf.deadman \notin {0, view.conf.deadman}))
         /\ IF o = "arm" THEN untimed' = FALSE
            ELSE Untimed(sw', o = "conf" /\ ~sw.conf.stp /\ view.service /\ view.conf.stp)
  /\ job' = [job EXCEPT !.ops = Tail(@)]
  /\ UNCHANGED <<cuts, push, want, seen, view, turn, asked, faults>>

\* The batch is done: the view follows it, a first enable is confirmed.
Commit ==
  /\ job.at = "batch" /\ job.ops = <<>>
  /\ view' = [view EXCEPT !.conf = job.conf, !.installed = TRUE, !.service = TRUE]
  /\ job' = IF job.conf.stp /\ ~(view.service /\ view.conf.stp) THEN [job EXCEPT !.at = "confirm"] ELSE Idle
  /\ UNCHANGED <<sw, cuts, push, want, seen, turn, asked, faults, unmarked, untimed>>

\* Mutant: the connection the batch came over is taken for the proof.
ConfirmAnyway ==
  /\ job.at = "confirm"
  /\ sw' = [sw EXCEPT !.timer = FALSE]
  /\ job' = Idle
  /\ UNCHANGED <<cuts, push, want, seen, view, turn, asked, faults, unmarked, untimed>>
Confirm ==
  /\ job.at = "confirm" /\ Reachable /\ sw.up
  /\ sw' = [sw EXCEPT !.timer = FALSE]
  /\ job' = Idle
  /\ UNCHANGED <<cuts, push, want, seen, view, turn, asked, faults, unmarked, untimed>>

\* Ten attempts fail, or the bridge's time for the apply is over; or the
\* answer to the batch does not arrive, the switch having cut itself off.
NotConfirmed ==
  /\ job.at = "confirm" \/ (job.at = "batch" /\ job.ops = <<>> /\ ~Reachable)
  /\ job' = Idle
  /\ UNCHANGED <<sw, cuts, push, want, seen, view, turn, asked, faults, unmarked, untimed>>

ConnectionLost ==
  /\ job.at = "batch" /\ Fault
  /\ job' = Idle
  /\ Untimed(sw, Window /\ ~sw.timer)
  /\ UNCHANGED <<sw, cuts, push, want, seen, view, turn, asked, unmarked>>

Crash ==
  /\ Fault
  /\ want' = [stp |-> None, ports |-> None] /\ seen' = [deadman |-> 0, off |-> FALSE]
  /\ view' = None /\ turn' = "collect" /\ job' = Idle
  /\ Untimed(sw, Window /\ ~sw.timer)
  /\ UNCHANGED <<sw, cuts, push, asked, unmarked>>

Next ==
  \/ Sync \/ Deadman \/ Build \/ BuildFails \/ Rewire \/ Reboot
  \/ \E p \in Intents : Push(p)
  \/ Collect \/ CollectFails \/ ApplyDevice \/ ApplyPorts
  \/ RunOp \/ Commit \/ Confirm \/ NotConfirmed \/ ConnectionLost \/ Crash

(***************************************************************************)
(* Properties.                                                              *)
(***************************************************************************)
\* A switch that spanning tree cut off gives it up by itself: the timer runs,
\* the script is about to arm it, or the config, which the daemon reads again,
\* has it off.  Not so only where a batch ended between the config and the
\* timer, where a reboot took the timer away, and where the driver took an
\* undone spanning tree for a running one.
Returns == Reachable \/ sw.timer \/ Window \/ ~sw.conf.stp \/ untimed

\* Spanning tree the dead-man undid does not come up again before the
\* controller has had it off: not after a restart of the bridge, not from the
\* daemon's own rounds, not from an intent the driver held from before.  Not
\* so only where a batch planned on an older collect wrote over the mark.
UndoneStaysDown == sw.fired > 0 /\ ~asked /\ ~unmarked => ~sw.up

\* The same without the exception, as the comments have it.
NotEnabledAgain == sw.fired > 0 /\ ~asked => ~sw.up
=============================================================================

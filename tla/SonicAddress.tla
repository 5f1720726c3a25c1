---------------------------- MODULE SonicAddress ----------------------------
(***************************************************************************)
(* The SONiC driver moves the address it reaches the switch at, to the one  *)
(* of the controller's IP Settings: ApplyAddress adds the new address,       *)
(* proves it with a fresh connection, records it as a pending dial target   *)
(* and removes the old one through it; the runner falls back to the other   *)
(* addresses it knows when the current one does not answer.  A batch runs   *)
(* command by command and may be cut off anywhere, the bridge may crash, and*)
(* the switch may restart.                                                  *)
(*                                                                         *)
(* The DNS servers of the same batch, the on-switch transport and the       *)
(* prefix length are left out.  The dial target, the adopted address and    *)
(* the pending one are persisted by the same call that sets them, so memory *)
(* and sonic-managed.json are one.                                          *)
(***************************************************************************)
EXTENDS Integers, Sequences, FiniteSets, SequencesExt

CONSTANTS Addr,       \* the addresses IP Settings name
          Dead,       \* those nothing answers at (a subnet the switch is not in)
          Home,       \* the address the config file names
          Gateways,
          Pushes,     \* the IP Settings the controller may push; gw is the hops of a route: one, or none
          MaxFaults,
          Subnet(_),  \* the subnet of an address
          NoAddr

VARIABLES
  sw,         \* the switch: CONFIG_DB's addresses and next hops, the kernel's addresses and
              \* which of two was added first, what is saved
  savedDial,  \* the address a move adopted
  pendingDial,\* the address a move was switching to
  view,       \* the last collect of sw
  push,       \* the pushed IP Settings
  job,        \* where ApplyAddress is
  faults

vars == <<sw, savedDial, pendingDial, view, push, job, faults>>

Config(s) == [cfg |-> s.cfg, hops |-> s.hops]
Idle == [at |-> "idle"]
NoView == [cfg |-> {}, kernel |-> {}, hops |-> {}]

Dial == IF savedDial = NoAddr THEN Home ELSE savedDial
Known == {Dial, pendingDial, Home} \ {NoAddr}
\* Mutant: the pending target is not tried.
DialCandidatesSettled == SelectSeq(<<savedDial, Home>>, LAMBDA a : a \notin {NoAddr, Dial})
DialCandidates == SelectSeq(<<pendingDial, savedDial, Home>>, LAMBDA a : a \notin {NoAddr, Dial})
Answers == sw.kernel \ Dead

(***************************************************************************)
(* The commands of a batch on the switch.                                   *)
(***************************************************************************)
Op(name, arg) == [op |-> name, arg |-> arg]

\* The address of a subnet that was added first is its primary.
Primary(s, a) == a \in s.kernel /\ \A b \in s.kernel : Subnet(b) = Subnet(a) => <<b, a>> \notin s.older

\* promote_secondaries is 0: a subnet's primary address takes its secondaries with it.
KernelRemove(s, a) ==
  {b \in s.kernel : b # a /\ ~(Primary(s, a) /\ ~s.promote /\ Subnet(b) = Subnet(a))}

\* The hops of a route are deleted one at a time; a list of hops names none.
Accepts(s, o) ==
  CASE o.op = "ip add"    -> o.arg \notin s.cfg
    [] o.op = "ip remove" -> o.arg \in s.cfg
    [] o.op = "ip show"   -> o.arg \in s.kernel
    [] o.op = "route add" -> o.arg \cap s.hops = {}
    [] o.op = "route del" -> Cardinality(o.arg) = 1 /\ o.arg \subseteq s.hops
    [] OTHER              -> TRUE

After(s, o) ==
  CASE o.op = "ip add"    -> [s EXCEPT !.cfg = @ \cup {o.arg}, !.kernel = @ \cup {o.arg},
                                       !.older = @ \cup {<<b, o.arg>> : b \in s.kernel}]
    [] o.op = "ip remove" -> LET kept == KernelRemove(s, o.arg)
                             IN  [s EXCEPT !.cfg = @ \ {o.arg}, !.kernel = kept, !.older = @ \cap (kept \X kept)]
    [] o.op = "route add" -> [s EXCEPT !.hops = @ \cup o.arg]
    [] o.op = "route del" -> [s EXCEPT !.hops = @ \ o.arg]
    [] o.op = "promote"   -> [s EXCEPT !.promote = TRUE]
    [] o.op = "save"      -> [s EXCEPT !.saved = Config(s)]
    [] OTHER              -> s

(***************************************************************************)
(* The batches of a move from old to new; gw is the wanted gateway's route  *)
(* when it changes, stale the route it replaces.                            *)
(***************************************************************************)
If(cond, o) == IF cond THEN <<o>> ELSE <<>>

First(old, new, gw) ==
  If(old # new, Op("ip add", new)) \o If(gw # {}, Op("route add", gw))

MoveFinish(old, new) == <<Op("promote", NoAddr), Op("ip remove", old), Op("ip show", new)>>

Stale(gw, stale) == If(gw # {} /\ stale # {}, Op("route del", stale))

Finish(old, new, gw, stale) == MoveFinish(old, new) \o Stale(gw, stale) \o <<Op("save", NoAddr)>>

\* Mutant: the route the move brought stays.
UndoAddressOnly(new, gw) == <<Op("ip remove", new)>>
Undo(new, gw) == <<Op("ip remove", new)>> \o If(gw # {}, Op("route del", gw))

(***************************************************************************)
(* The driver.                                                              *)
(***************************************************************************)
Init ==
  /\ \E hops \in {{}, Gateways} \cup {{g} : g \in Gateways} :
       sw = [cfg |-> {Home}, kernel |-> {Home}, older |-> {}, hops |-> hops, promote |-> FALSE,
             saved |-> [cfg |-> {Home}, hops |-> hops]]
  /\ savedDial = NoAddr /\ pendingDial = NoAddr
  /\ view = NoView
  /\ push = [ip |-> Home, gw |-> {}]
  /\ job = Idle /\ faults = 0

AdoptDial(a) == savedDial' = a /\ pendingDial' = NoAddr

\* The runner reaches the switch at `to`: the current address, or the first
\* of the candidates that answers, which is adopted.
FallsBackTo(to) ==
  \E i \in DOMAIN DialCandidates :
    DialCandidates[i] = to /\ \A j \in 1..(i - 1) : DialCandidates[j] \notin Answers

Runs(to) ==
  /\ to \in Answers
  /\ \/ to = Dial /\ UNCHANGED <<savedDial, pendingDial>>
     \/ Dial \notin Answers /\ FallsBackTo(to) /\ AdoptDial(to)

\* A dial that fails although the switch is there sends the runner on to the others.
MissedDial(to) == Dial \in Answers /\ to \in Answers /\ FallsBackTo(to) /\ AdoptDial(to)

Push(d) ==
  /\ job.at = "idle"
  /\ push' = d
  /\ UNCHANGED <<sw, savedDial, pendingDial, view, job, faults>>

Collected == view' = [cfg |-> sw.cfg, kernel |-> sw.kernel, hops |-> sw.hops]

Collect ==
  /\ job.at = "idle"
  /\ \E to \in Known : Runs(to)
  /\ Collected
  /\ UNCHANGED <<sw, push, job, faults>>

CollectMissing ==
  /\ faults < MaxFaults /\ faults' = faults + 1
  /\ job.at = "idle"
  /\ \E to \in Known : MissedDial(to)
  /\ Collected
  /\ UNCHANGED <<sw, push, job>>

Movable == Dial \in view.kernel /\ Dial \in view.cfg

Batch(at, ops, via) ==
  [at |-> at, ops |-> ops, via |-> via, old |-> Dial, new |-> push.ip,
   gw |-> IF push.gw # {} /\ push.gw # view.hops THEN push.gw ELSE {}, stale |-> view.hops,
   before |-> Config(sw)]

ApplyAddress ==
  /\ job.at = "idle" /\ Movable
  /\ push.ip # Dial \/ push.gw \notin {{}, view.hops}
  /\ \E to \in Known :
       LET gw == Batch("first", <<>>, to).gw
           same == First(Dial, push.ip, gw) \o Stale(gw, view.hops) \o <<Op("save", NoAddr)>>
       IN  /\ Runs(to)
           /\ job' = IF push.ip = Dial THEN Batch("same", same, to)
                     ELSE Batch("first", First(Dial, push.ip, gw), to)
  /\ UNCHANGED <<sw, view, push, faults>>

Running == job.at \in {"same", "first", "finish", "undo"}

RunOp ==
  /\ Running /\ job.ops # <<>> /\ job.via \in Answers
  /\ IF Accepts(sw, Head(job.ops))
     THEN sw' = After(sw, Head(job.ops)) /\ job' = [job EXCEPT !.ops = Tail(@)]
     ELSE UNCHANGED sw /\ job' = Idle
  /\ UNCHANGED <<savedDial, pendingDial, view, push, faults>>

NoteAddress ==
  view' = [cfg |-> (view.cfg \ {job.old}) \cup {job.new},
           kernel |-> (view.kernel \ {job.old}) \cup {job.new},
           hops |-> IF job.gw # {} THEN job.gw ELSE view.hops]

Done == Running /\ job.ops = <<>> /\ job.via \in Answers

SameDone ==
  /\ Done /\ job.at = "same"
  /\ NoteAddress /\ job' = Idle
  /\ UNCHANGED <<sw, savedDial, pendingDial, push, faults>>

FirstDone ==
  /\ Done /\ job.at = "first"
  /\ job' = [job EXCEPT !.at = "prove"]
  /\ UNCHANGED <<sw, savedDial, pendingDial, view, push, faults>>

\* Mutant: the target is recorded only when the move is done.
ProveUnrecorded ==
  /\ job.at = "prove" /\ job.new \in Answers
  /\ job' = [job EXCEPT !.at = "finish", !.via = job.new, !.ops = Finish(job.old, job.new, job.gw, job.stale)]
  /\ UNCHANGED <<sw, savedDial, pendingDial, view, push, faults>>

\* The new address answers a fresh connection: it is a dial target before the
\* old one goes.
Prove ==
  /\ job.at = "prove" /\ job.new \in Answers
  /\ pendingDial' = job.new
  /\ job' = [job EXCEPT !.at = "finish", !.via = job.new, !.ops = Finish(job.old, job.new, job.gw, job.stale)]
  /\ UNCHANGED <<sw, savedDial, view, push, faults>>

UndoAddress ==
  /\ \E to \in Known :
       /\ Runs(to)
       /\ job' = [job EXCEPT !.at = "undo", !.via = to, !.ops = Undo(job.new, job.gw)]
  /\ UNCHANGED <<sw, view, push, faults>>

NotProven ==
  /\ job.at = "prove"
  /\ UndoAddress

FinishDone ==
  /\ Done /\ job.at = "finish"
  /\ AdoptDial(job.new) /\ NoteAddress /\ job' = Idle
  /\ UNCHANGED <<sw, push, faults>>

UndoDone ==
  /\ Done /\ job.at = "undo"
  /\ job' = Idle
  /\ UNCHANGED <<sw, savedDial, pendingDial, view, push, faults>>

\* The connection of a batch, or its answer, is lost.
ConnectionLost ==
  /\ faults < MaxFaults /\ faults' = faults + 1
  /\ Running
  /\ job' = Idle
  /\ UNCHANGED <<sw, savedDial, pendingDial, view, push>>

Crash ==
  /\ faults < MaxFaults /\ faults' = faults + 1
  /\ job' = Idle /\ view' = NoView
  /\ UNCHANGED <<sw, savedDial, pendingDial, push>>

\* Another batch of the driver ends in a save.
OtherSave ==
  /\ job.at = "idle" /\ Dial \in Answers
  /\ sw' = After(sw, Op("save", NoAddr))
  /\ UNCHANGED <<savedDial, pendingDial, view, push, job, faults>>

\* Which of two addresses was added first, when they are added in this order.
Added(order, addrs) == {p \in addrs \X addrs : \E i, j \in DOMAIN order : i < j /\ p = <<order[i], order[j]>>}

\* The kernel's addresses come up in CONFIG_DB's order, which is any.
ComesUp ==
  /\ faults < MaxFaults /\ faults' = faults + 1
  /\ \E order \in SetToSeqs(sw.saved.cfg) :
       sw' = [sw EXCEPT !.cfg = sw.saved.cfg, !.hops = sw.saved.hops, !.kernel = sw.saved.cfg, !.promote = FALSE,
                        !.older = Added(order, sw.saved.cfg)]
  /\ job' = IF Running THEN Idle ELSE job
  /\ UNCHANGED <<savedDial, pendingDial, view, push>>

\* A restart of a switch with unsaved changes is left out: dial.go has no
\* candidate for the address it then comes up with (README, Disagreements).
SwitchRestart == sw.saved = Config(sw) /\ ComesUp

Proceed ==
  RunOp \/ SameDone \/ FirstDone \/ Prove \/ NotProven \/ FinishDone \/ UndoDone

Next ==
  \/ \E d \in Pushes : Push(d)
  \/ Collect \/ CollectMissing \/ ApplyAddress \/ Proceed
  \/ ConnectionLost \/ Crash \/ OtherSave \/ SwitchRestart

(***************************************************************************)
(* The abstraction, and the properties.                                     *)
(***************************************************************************)
\* A move whose proof failed and whose undo ran to its end leaves CONFIG_DB as
\* the move found it: the address and the route it brought are gone, and
\* nothing else is (undoAddress).
UndoneIsUntouched == job.at = "undo" /\ job.ops = <<>> => Config(sw) = job.before
=============================================================================

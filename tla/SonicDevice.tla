---------------------------- MODULE SonicDevice ----------------------------
(***************************************************************************)
(* The switch-wide settings of a SONiC switch: its NTP servers, syslog      *)
(* hosts and SNMP communities, against the controller's push (applyDevice). *)
(* The driver plans from its view of the switch, pins what each hostname    *)
(* resolved to, and keeps the pins in sonic-managed.json.  The switch keeps *)
(* a saved config, and its snmp container imports the communities of        *)
(* snmp.yml at every start.                                                 *)
(*                                                                         *)
(* NTP servers are syslog hosts with one port.  The time zone, the host     *)
(* name and NTP's source interface, plain values of the same batch, are     *)
(* left out, and the spanning tree of images that have a daemon.            *)
(***************************************************************************)
EXTENDS Naturals, SequencesExt

CONSTANTS
  Hosts,       \* hostnames a push may name
  Pool(_),     \* the addresses a hostname may resolve to
  Addr,
  Communities,
  Pushes,      \* records of ntp, syslog (sequences of servers), snmp
  Factory,     \* the switch as it is found: cfg, yml
  MaxFaults,   \* bound: changes by hand, lost connections, failed saves, restarts
  NoAddr, NoCommunity

VARIABLES
  cfg,      \* CONFIG_DB: ntp, syslog (address to port, 0 for none), snmp
  saved,    \* config_db.json
  yml,      \* the communities of snmp.yml
  view,     \* cfg and yml as the driver knows them
  pins,     \* each hostname's resolution, for either use
  file,     \* the pins in sonic-managed.json
  push, job,
  settled,  \* the push went through from a collect on, all its names resolved
            \* and the pins in the file
  faults

vars == <<cfg, saved, yml, view, pins, file, push, job, settled, faults>>

Kinds == {"ntp", "syslog"}
NoView == [cfg |-> Factory.cfg, yml |-> {}, known |-> FALSE, fresh |-> FALSE]
NoPins == [k \in Kinds |-> [h \in Hosts |-> NoAddr]]
Idle == [at |-> "idle", ops |-> <<>>, drop |-> {}, sim |-> Factory.cfg, pins |-> NoPins]

Init ==
  /\ cfg = Factory.cfg /\ saved = Factory.cfg /\ yml = Factory.yml
  /\ view = NoView
  /\ pins = NoPins /\ file = pins
  /\ push \in Pushes /\ job = Idle
  /\ settled = FALSE /\ faults = 0

Fault == faults < MaxFaults /\ faults' = faults + 1

(***************************************************************************)
(* The switch.                                                              *)
(***************************************************************************)
\* snmp_yml_to_configdb.py adds every community of the file and removes none.
SNMPStart(c) == [c EXCEPT !.snmp = @ \cup yml]

Accepts(o) ==
  CASE o.op = "add" -> cfg[o.kind][o.ip] = 0
    [] o.op = "del" -> cfg[o.kind][o.ip] # 0
    [] o.op = "community add" -> o.name \notin cfg.snmp
    [] o.op = "community del" -> o.name \in cfg.snmp

\* Either community command restarts the snmp container.
After(c, o) ==
  CASE o.op = "add" -> [c EXCEPT ![o.kind][o.ip] = o.port]
    [] o.op = "del" -> [c EXCEPT ![o.kind][o.ip] = 0]
    [] o.op = "community add" -> SNMPStart([c EXCEPT !.snmp = @ \cup {o.name}])
    [] o.op = "community del" -> SNMPStart([c EXCEPT !.snmp = @ \ {o.name}])

\* Somebody adds or removes a server or a community by hand, unsaved.
Operator(c) ==
  /\ cfg # c /\ Fault
  /\ cfg' = c
  /\ settled' = FALSE /\ view' = [view EXCEPT !.fresh = FALSE]
  /\ UNCHANGED <<saved, yml, pins, file, push, job>>

ByHand ==
  {[cfg EXCEPT !.ntp[a] = 123] : a \in Addr} \cup {[cfg EXCEPT !.syslog[a] = 0] : a \in Addr}
  \cup {SNMPStart([cfg EXCEPT !.snmp = @ \cup {n}]) : n \in Communities}

\* A reboot starts from the saved config; a batch under way is cut off.
Reboot ==
  /\ Fault
  /\ cfg' = SNMPStart(saved)
  /\ job' = Idle
  /\ view' = [view EXCEPT !.fresh = FALSE]
  /\ UNCHANGED <<saved, yml, pins, file, push, settled>>

(***************************************************************************)
(* The plan.                                                                *)
(***************************************************************************)
\* Mutant: a hostname is resolved anew at every apply.
PinnedIPNew(h, pinned, on, dns) == IF h \in Addr THEN h ELSE dns[h]
PinnedIP(h, pinned, on, dns) ==
  IF h \in Addr THEN h
  ELSE IF pinned[h] # NoAddr /\ on[pinned[h]] # 0 THEN pinned[h]
  ELSE dns[h]

\* One server of the push; acc holds the servers so far, the pins, the
\* addresses wanted and the commands.
Server(kind, acc, e, dns) ==
  LET ip == PinnedIP(e.host, acc.pins, acc.on, dns)
      cur == acc.on[ip]
      add == [op |-> "add", kind |-> kind, ip |-> ip, port |-> e.port]
      del == [op |-> "del", kind |-> kind, ip |-> ip]
      pinned == IF e.host \in Hosts THEN [acc.pins EXCEPT ![e.host] = ip] ELSE acc.pins
  IN  IF ip = NoAddr THEN [acc EXCEPT !.pins[e.host] = NoAddr]
      ELSE [on |-> [acc.on EXCEPT ![ip] = e.port],
            pins |-> pinned,
            want |-> acc.want \cup {ip},
            ops |-> acc.ops \o (IF cur = e.port THEN <<>> ELSE IF cur = 0 THEN <<add>> ELSE <<del, add>>)]

\* The controller's list is the switch's: every other server goes, and the
\* pin of every hostname that left the list.
Servers(kind, dns) ==
  LET acc == FoldLeft(LAMBDA a, e : Server(kind, a, e, dns),
                      [on |-> view.cfg[kind], pins |-> pins[kind], want |-> {}, ops |-> <<>>], push[kind])
      named == {push[kind][i].host : i \in DOMAIN push[kind]}
  IN  [ops |-> acc.ops \o SetToSeq({[op |-> "del", kind |-> kind, ip |-> a] : a \in {x \in Addr : acc.on[x] # 0} \ acc.want}),
       on |-> [a \in Addr |-> IF a \in acc.want THEN acc.on[a] ELSE 0],
       pins |-> [h \in Hosts |-> IF h \in named THEN acc.pins[h] ELSE NoAddr]]

Wanted == {push.snmp} \ {NoCommunity}

SnmpOps ==
  SetToSeq({[op |-> "community add", name |-> n] : n \in Wanted \ view.cfg.snmp})
  \o SetToSeq({[op |-> "community del", name |-> n] : n \in view.cfg.snmp \ Wanted})

YmlDrop == view.yml \ Wanted

Ops(dns) == Servers("ntp", dns).ops \o Servers("syslog", dns).ops \o SnmpOps

\* The switch as the driver takes it to be after the batch.
Sim(dns) == [ntp |-> Servers("ntp", dns).on, syslog |-> Servers("syslog", dns).on, snmp |-> Wanted]

Resolved(p) == \A k \in Kinds : \A e \in ToSet(push[k]) : e.host \in Hosts => p[k][e.host] # NoAddr

Answers == {d \in [Hosts -> Addr \cup {NoAddr}] : \A h \in Hosts : d[h] \in Pool(h) \cup {NoAddr}}

(***************************************************************************)
(* The driver.                                                              *)
(***************************************************************************)
Push(p) ==
  /\ job = Idle /\ push # p
  /\ push' = p /\ settled' = FALSE
  /\ UNCHANGED <<cfg, saved, yml, view, pins, file, job, faults>>

Collect ==
  /\ job = Idle
  /\ view' = [cfg |-> cfg, yml |-> yml, known |-> TRUE, fresh |-> TRUE]
  /\ UNCHANGED <<cfg, saved, yml, pins, file, push, job, settled, faults>>

\* commitManaged: the pins are kept in memory and in the file; a save that
\* fails is logged.
CommitManaged(p) ==
  /\ pins' = p
  /\ \/ file' = p /\ UNCHANGED faults
     \/ Fault /\ UNCHANGED file

\* snmp.yml goes first, then the batch; with neither, the pins are kept.  What
\* a batch cut off before its save left in place is found and never saved.
ApplyDevice(dns) ==
  LET planned == [k \in Kinds |-> Servers(k, dns).pins]
  IN  /\ job = Idle /\ view.known
      /\ IF YmlDrop = {} /\ Ops(dns) = <<>>
         THEN /\ CommitManaged(planned) /\ UNCHANGED job
              /\ settled' = ((settled \/ (view.fresh /\ saved = cfg /\ Resolved(planned))) /\ file' = planned)
         ELSE /\ job' = [at |-> IF YmlDrop # {} THEN "yml" ELSE "batch", ops |-> Ops(dns), drop |-> YmlDrop,
                         sim |-> Sim(dns), pins |-> planned]
              /\ settled' = FALSE /\ UNCHANGED <<pins, file, faults>>
      /\ UNCHANGED <<cfg, saved, yml, view, push>>

\* With nothing else to write the apply ends here, and nothing is saved.
RewriteYml ==
  /\ job.at = "yml"
  /\ yml' = yml \ job.drop
  /\ view' = [view EXCEPT !.yml = @ \ job.drop]
  /\ IF job.ops = <<>>
     THEN /\ CommitManaged(job.pins)
          /\ settled' = (view.fresh /\ saved = cfg /\ Resolved(job.pins) /\ file' = job.pins)
          /\ job' = Idle
     ELSE job' = [job EXCEPT !.at = "batch"] /\ UNCHANGED <<pins, file, settled, faults>>
  /\ UNCHANGED <<cfg, saved, push>>

RunOp ==
  /\ job.at = "batch" /\ job.ops # <<>> /\ Accepts(Head(job.ops))
  /\ cfg' = After(cfg, Head(job.ops))
  /\ job' = [job EXCEPT !.ops = Tail(@)]
  /\ UNCHANGED <<saved, yml, view, pins, file, push, settled, faults>>

\* A command the switch refuses ends the batch; nothing is saved.
Refused ==
  /\ job.at = "batch" /\ job.ops # <<>> /\ ~Accepts(Head(job.ops))
  /\ job' = Idle /\ view' = [view EXCEPT !.fresh = FALSE]
  /\ UNCHANGED <<cfg, saved, yml, pins, file, push, settled, faults>>

\* config save ends the batch.  Mutant: the running config is not saved.
SaveNone == saved
Save == cfg

Commit ==
  /\ job.at = "batch" /\ job.ops = <<>>
  /\ saved' = Save
  /\ view' = [view EXCEPT !.cfg = job.sim]
  /\ CommitManaged(job.pins)
  /\ settled' = (view.fresh /\ Resolved(job.pins) /\ file' = job.pins)
  /\ job' = Idle
  /\ UNCHANGED <<cfg, yml, push>>

ConnectionLost ==
  /\ job # Idle /\ Fault
  /\ job' = Idle /\ view' = [view EXCEPT !.fresh = FALSE]
  /\ UNCHANGED <<cfg, saved, yml, pins, file, push, settled>>

\* The bridge starts again, with the pins of sonic-managed.json.
Crash ==
  /\ Fault
  /\ view' = NoView /\ pins' = file /\ job' = Idle
  /\ UNCHANGED <<cfg, saved, yml, file, push, settled>>

Next ==
  \/ \E c \in ByHand : Operator(c)
  \/ Reboot
  \/ \E p \in Pushes : Push(p)
  \/ Collect
  \/ \E d \in Answers : ApplyDevice(d)
  \/ RewriteYml \/ RunOp \/ Refused \/ Commit \/ ConnectionLost \/ Crash

(***************************************************************************)
(* Properties.                                                              *)
(***************************************************************************)
At(e, pinned) == IF e.host \in Addr THEN e.host ELSE pinned[e.host]
Listed(kind) == {<<At(e, file[kind]), e.port>> : e \in ToSet(push[kind])}
On(kind) == {a \in Addr : cfg[kind][a] # 0}

\* A push that went through leaves on the switch the servers it names, by the
\* addresses they were pinned to, and its one community, and nothing else:
\* also over restarts of the switch and of its snmp container, and of the
\* bridge.  Of two servers at one address the switch keeps one.
OnlyThePush ==
  settled =>
    /\ \A k \in Kinds : /\ {<<a, cfg[k][a]>> : a \in On(k)} \subseteq Listed(k)
                          /\ {s[1] : s \in Listed(k)} \subseteq On(k)
    /\ cfg.snmp = Wanted

\* No two servers of the push are at one address under different ports (such
\* two replace each other at every apply).
Apart == \A k \in Kinds : \A s, t \in Listed(k) : s[1] = t[1] => s[2] = t[2]

\* After a push that went through, what a hostname resolves to no longer
\* matters: whatever the answers, the next apply writes nothing, also from a
\* view that is older than a restart of the switch, and with the pins a
\* restarted bridge reads back.
NoChurn ==
  settled /\ view.known /\ Apart =>
    \A d \in Answers : Ops(d) = <<>> /\ YmlDrop = {}
=============================================================================

---------------------------- MODULE AristaAddress ----------------------------
(***************************************************************************)
(* The Arista driver moves its switch's management address in a             *)
(* configuration session committed with a timer: the switch takes the new   *)
(* address at once and puts the old one back unless the session is          *)
(* confirmed.  The driver dials the new address, confirms through it, and   *)
(* only then reaches the switch there.  Requests and answers are separate   *)
(* steps, so the timer may fire between any two of them.                    *)
(*                                                                         *)
(* A setting is an address and a gateway; name servers, written in the same *)
(* session, are left out.                                                   *)
(***************************************************************************)
EXTENDS FiniteSets

CONSTANTS Addr, Dead, Url,   \* Url: the address the config file names
          Gateways, NoGateway,
          NoSetting

Settings == [ip : Addr, gw : Gateways \cup {NoGateway}]

VARIABLES
  running,  \* the switch's running configuration
  revert,   \* what a commit timer returns it to, or NoSetting
  startup,  \* its startup configuration
  host,     \* the address the bridge's transport dials
  url,      \* the address in the config file
  view, push, job

vars == <<running, revert, startup, host, url, view, push, job>>

Idle == [at |-> "idle", new |-> NoSetting]

Answers == {running.ip} \ Dead
At == ({running.ip} \cup (IF revert = NoSetting THEN {} ELSE {revert.ip})) \ Dead
Known == {host} \cup (IF job.at \in {"confirm", "answer"} THEN {job.new.ip} ELSE {})

Init ==
  /\ running \in [ip : {Url}, gw : Gateways \cup {NoGateway}] /\ startup = running /\ revert = NoSetting
  /\ host = Url /\ url = Url
  /\ view = NoSetting /\ push = running /\ job = Idle

Push(d) ==
  /\ job.at = "idle"
  /\ push' = d
  /\ UNCHANGED <<running, revert, startup, host, url, view, job>>

Collect ==
  /\ job.at = "idle" /\ host \in Answers
  /\ view' = running
  /\ UNCHANGED <<running, revert, startup, host, url, push, job>>

\* The session is committed with its timer.  The snapshot must hold the
\* address the bridge dials.  A session that waits for its confirmation
\* refuses another commit.
ApplyAddress ==
  /\ job.at = "idle"
  /\ view # NoSetting /\ view.ip = host /\ (view.ip # push.ip \/ push.gw \notin {NoGateway, view.gw})
  /\ host \in Answers /\ revert = NoSetting
  /\ running' = [ip |-> push.ip, gw |-> IF push.gw = NoGateway THEN running.gw ELSE push.gw]
  /\ revert' = running
  /\ job' = [at |-> "commit", new |-> running']
  /\ UNCHANGED <<startup, host, url, view, push>>

\* The answer to the commit arrives; a change of gateway alone is confirmed
\* through the transport there is.
Committed ==
  /\ job.at = "commit"
  /\ job' = [job EXCEPT !.at = IF job.new.ip = host THEN "confirm" ELSE "prove"]
  /\ UNCHANGED <<running, revert, startup, host, url, view, push>>

Prove ==
  /\ job.at = "prove" /\ job.new.ip \in Answers
  /\ job' = [job EXCEPT !.at = "confirm"]
  /\ UNCHANGED <<running, revert, startup, host, url, view, push>>

\* The commit, the dial or the confirmation fails: the timer is left to it.
GiveUp ==
  /\ job.at \in {"commit", "prove", "confirm"}
  /\ job' = Idle
  /\ UNCHANGED <<running, revert, startup, host, url, view, push>>

Confirm ==
  /\ job.at = "confirm" /\ job.new.ip \in Answers /\ revert # NoSetting
  /\ revert' = NoSetting /\ startup' = running
  /\ job' = [job EXCEPT !.at = "answer"]
  /\ UNCHANGED <<running, host, url, view, push>>

Confirmed ==
  /\ job.at = "answer"
  /\ host' = job.new.ip /\ view' = job.new /\ job' = Idle
  /\ UNCHANGED <<running, revert, startup, url, push>>

Timer ==
  /\ revert # NoSetting
  /\ running' = revert /\ revert' = NoSetting
  /\ UNCHANGED <<startup, host, url, view, push, job>>

OperatorUpdatesUrl ==
  /\ url # host
  /\ url' = host
  /\ UNCHANGED <<running, revert, startup, host, view, push, job>>

\* The bridge restarts once the operator has updated url:.
Restart ==
  /\ url = host /\ job.at # "answer"
  /\ host' = url /\ view' = NoSetting /\ job' = Idle
  /\ UNCHANGED <<running, revert, startup, url, push>>

SwitchReload ==
  /\ running' = startup /\ revert' = NoSetting
  /\ UNCHANGED <<startup, host, url, view, push, job>>

Proceed == Committed \/ Prove \/ GiveUp \/ Confirm \/ Confirmed

Next ==
  \/ \E d \in Settings : Push(d)
  \/ Collect \/ ApplyAddress \/ Proceed \/ Timer
  \/ OperatorUpdatesUrl \/ Restart \/ SwitchReload

=============================================================================

----------------------------- MODULE NutServer -----------------------------
(***************************************************************************)
(* The NUT server (nutd.Server): ApplyNUT starts, reconfigures or stops the *)
(* listener to match the push and is called on every push and reconcile; a  *)
(* session keeps the settings its listener was started with, logs its client*)
(* in and counts it out again when it ends, however it ends.  Another        *)
(* process may hold the wanted port.                                        *)
(*                                                                         *)
(* What GET and LIST answer changes no state and is left out, except for    *)
(* the list of clients.                                                     *)
(***************************************************************************)
EXTENDS Integers, FiniteSets, FiniteSetsExt

CONSTANTS Sessions,   \* connections that may be open at once
          Ips,        \* the addresses they come from
          Specs,      \* the nutserver blocks the controller may push
          Ids, Logins,\* UPS names and logins clients try
          Stopped, NoLogin, MaxPushes

VARIABLES push,      \* the pushed block, or Stopped
          spec,      \* what is running, or Stopped
          ln,        \* the listener: the port it is bound to, or 0
          deaf,      \* serve has returned on an error of Accept: the port stays bound, nobody is accepted
          busy,      \* ports other processes hold
          sess,      \* the connections
          clients,   \* address -> logged-in sessions
          pushes

vars == <<push, spec, ln, deaf, busy, sess, clients, pushes>>

Closed == [ip |-> Stopped, spec |-> Stopped, login |-> NoLogin, in |-> FALSE]

Init ==
  /\ push = Stopped /\ spec = Stopped /\ ln = 0 /\ deaf = FALSE /\ busy = {}
  /\ sess = [s \in Sessions |-> Closed]
  /\ clients = [i \in Ips |-> 0]
  /\ pushes = 0

\* Defaults: port 3493, the name "ups"; a login that is not required is dropped.
Want(p) ==
  IF p = Stopped \/ ~p.enabled THEN Stopped
  ELSE [enabled |-> TRUE, port |-> IF p.port <= 0 THEN 3493 ELSE p.port, id |-> IF p.id = "" THEN "ups" ELSE p.id,
        required |-> p.required, login |-> IF p.required THEN p.login ELSE NoLogin]

Push(p) ==
  /\ pushes < MaxPushes /\ pushes' = pushes + 1
  /\ push' = p
  /\ UNCHANGED <<spec, ln, deaf, busy, sess, clients>>

\* Mutant: the settings are noted before the port is bound.
ApplyNUTNotedFirst ==
  /\ Want(push) # spec
  /\ spec' = Want(push)
  /\ ln' = IF Want(push) = Stopped \/ Want(push).port \in busy THEN 0 ELSE Want(push).port
  /\ deaf' = FALSE
  /\ UNCHANGED <<push, busy, sess, clients, pushes>>
\* The old listener is closed before the new port is bound.
ApplyNUT ==
  /\ Want(push) # spec
  /\ LET bound == Want(push) # Stopped /\ Want(push).port \notin busy
     IN  /\ spec' = IF bound THEN Want(push) ELSE Stopped
         /\ ln' = IF bound THEN Want(push).port ELSE 0
  /\ deaf' = FALSE
  /\ UNCHANGED <<push, busy, sess, clients, pushes>>

Accept(s, ip) ==
  /\ ln # 0 /\ ~deaf /\ sess[s] = Closed
  /\ sess' = [sess EXCEPT ![s] = [ip |-> ip, spec |-> spec, login |-> NoLogin, in |-> FALSE]]
  /\ UNCHANGED <<push, spec, ln, deaf, busy, clients, pushes>>

\* Any error of Accept ends serve, and applying the same block again is a no-op.
AcceptFails ==
  /\ ln # 0 /\ ~deaf /\ deaf' = TRUE
  /\ UNCHANGED <<push, spec, ln, busy, sess, clients, pushes>>

\* USERNAME and PASSWORD, good for the next LOGIN.
Authenticate(s, login) ==
  /\ sess[s] # Closed
  /\ sess' = [sess EXCEPT ![s].login = login]
  /\ UNCHANGED <<push, spec, ln, deaf, busy, clients, pushes>>

Refused(s, id) ==
  \/ id # sess[s].spec.id
  \/ sess[s].spec.required /\ sess[s].login # sess[s].spec.login

\* Mutant: a second LOGIN of a session counts again.
LoginAgain(s, id) ==
  /\ sess[s] # Closed /\ ~Refused(s, id) /\ clients[sess[s].ip] < Cardinality(Sessions) + 1
  /\ sess' = [sess EXCEPT ![s].in = TRUE]
  /\ clients' = [clients EXCEPT ![sess[s].ip] = @ + 1]
  /\ UNCHANGED <<push, spec, ln, deaf, busy, pushes>>
Login(s, id) ==
  /\ sess[s] # Closed /\ ~Refused(s, id)
  /\ sess' = [sess EXCEPT ![s].in = TRUE]
  /\ clients' = [clients EXCEPT ![sess[s].ip] = IF sess[s].in THEN @ ELSE @ + 1]
  /\ UNCHANGED <<push, spec, ln, deaf, busy, pushes>>

\* LOGOUT, the peer closes, or it is idle for five minutes.
End(s) ==
  /\ sess[s] # Closed
  /\ sess' = [sess EXCEPT ![s] = Closed]
  /\ clients' = [clients EXCEPT ![sess[s].ip] = IF sess[s].in THEN @ - 1 ELSE @]
  /\ UNCHANGED <<push, spec, ln, deaf, busy, pushes>>

\* Another process takes a port, or frees it.
PortTaken(p) ==
  /\ p # ln
  /\ busy' = IF p \in busy THEN busy \ {p} ELSE busy \cup {p}
  /\ UNCHANGED <<push, spec, ln, deaf, sess, clients, pushes>>

Next ==
  \/ \E p \in Specs \cup {Stopped} : Push(p)
  \/ ApplyNUT \/ AcceptFails
  \/ \E s \in Sessions :
       \/ \E ip \in Ips : Accept(s, ip)
       \/ \E l \in Logins : Authenticate(s, l)
       \/ \E id \in Ids : Login(s, id)
       \/ End(s)
  \/ \E p \in {Want(q).port : q \in {r \in Specs : r.enabled}} : PortTaken(p)

\* The sessions logged in from an address.
LoggedIn(ip) == {s \in Sessions : sess[s].ip = ip /\ sess[s].in}
=============================================================================

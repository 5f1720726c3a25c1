------------------------------ MODULE Services ------------------------------
(***************************************************************************)
(* What the bridge does for a power device: the outlets, address and syslog *)
(* settings of its card, the power events of a UPS, the NUT server it runs  *)
(* for it and the log of its exchanges.  The four share no variable (the    *)
(* NUT server and the tracker read the same snapshot and write none), so    *)
(* their interleavings add nothing and each runs with the others at rest.   *)
(***************************************************************************)
EXTENDS Naturals, Sequences, FiniteSets

CONSTANTS Conds, Hysteresis, Tests, CommLostAfter, RecoverPolls,
          Sessions, Ips, Specs, Ids, Logins, Stopped, NoLogin, MaxPushes,
          MaxSize, Keep, Sizes, MaxLines, Max404s, NoFile,
          Cards, Outlets, Main, ControlOutlets, Names, Truncate, Addresses, Lease, Servers, HostLists,
          NumServers, MaxMisses, Allow, NoUpload, NoAddress, Nobody, MaxEdits, MaxTroubles

ASSUME ServicesAssumption ==
  /\ CommLostAfter \in Nat \ {0} /\ RecoverPolls \in Nat \ {0} /\ Hysteresis \subseteq Conds
  /\ IsFiniteSet(Sessions) /\ Stopped \notin Ips
  /\ MaxSize \in Nat \ {0} /\ Keep \in Nat \ {0} /\ Sizes \subseteq Nat \ {0}
  /\ NoFile \notin Seq([n : Nat, size : Nat, count : Nat])
  /\ Cards \subseteq {"pdu", "ups", "backups"} /\ Main \in Outlets /\ ControlOutlets \subseteq Outlets
  /\ Truncate \in [Names -> Names] /\ NumServers \in Nat /\ MaxMisses \in Nat \ {0}
  /\ HostLists \subseteq Seq(Servers) /\ Allow \in BOOLEAN

VARIABLES kind,   \* the service that runs
          ups, test, seeded, conds, lastTest, failures, commLost, said, open, outOfContact, recent,
          push, spec, ln, deaf, busy, sess, clients, pushes,
          file, isOpen, quiet404, todo, pc, gen, accepted, seen404, logged404, lost404, lines,
          card, relay, rebooting, label, address, syslog, applying, wanted, pending, previous, seen, dhcp,
          applier, everOutletApplied, cycles, turn, agreed, unread, left

powerVars == <<ups, test, seeded, conds, lastTest, failures, commLost, said, open, outOfContact, recent>>
nutVars == <<push, spec, ln, deaf, busy, sess, clients, pushes>>
logVars == <<file, isOpen, quiet404, todo, pc, gen, accepted, seen404, logged404, lost404, lines>>
cardVars == <<card, relay, rebooting, label, address, syslog, applying, wanted, pending, previous, seen, dhcp,
              applier, everOutletApplied, cycles, turn, agreed, unread, left>>
vars == <<kind, powerVars, nutVars, logVars, cardVars>>

Power == INSTANCE PowerEvents
Nut == INSTANCE NutServer
Log == INSTANCE Recorder
Card == INSTANCE ApcCard

Init ==
  /\ kind \in {"card", "power", "nut", "log"}
  /\ Power!Init /\ (kind = "power" \/ (test = "" /\ \A c \in Conds : ups[c] = "cleared"))
  /\ Nut!Init /\ Log!Init
  /\ Card!Init /\ (kind = "card" \/ (card = "ups" /\ address = "dhcp" /\ \A o \in Outlets : relay[o]))

OfCard(A) == kind = "card" /\ A /\ UNCHANGED <<kind, powerVars, nutVars, logVars>>
OfNut(A) == kind = "nut" /\ A /\ UNCHANGED <<kind, powerVars, logVars, cardVars>>

CardStep == OfCard(Card!Next)
PowerStep == kind = "power" /\ Power!Next /\ UNCHANGED <<kind, nutVars, logVars, cardVars>>
NutStep == OfNut(Nut!Next)
LogStep == kind = "log" /\ Log!Next /\ UNCHANGED <<kind, powerVars, nutVars, cardVars>>

Next == CardStep \/ PowerStep \/ NutStep \/ LogStep

\* The loop goes on with its rounds, and every reconcile hands the pushed block
\* to the NUT server again; a card gets done with an upload and with a power
\* cycle, and the clock goes on.
Fairness ==
  /\ WF_vars(OfNut(Nut!ApplyNUT))
  /\ WF_vars(OfCard(Card!Round)) /\ WF_vars(OfCard(Card!CardApplies)) /\ WF_vars(OfCard(Card!Settle))
  /\ \A o \in Outlets : WF_vars(OfCard(Card!RebootEnds(o)))

Spec == Init /\ [][Next]_vars /\ Fairness

(***************************************************************************)
(* Properties.                                                              *)
(***************************************************************************)
\* A flapping input is one outage in the power log, and an outage the last
\* successful poll shows is open in it (Tracker.Observe).
OneOutage == Power!OneOutage

\* nut_client_ips is exact: the sessions counted for an address are those
\* open and logged in from it, whichever listener accepted them and however
\* they end (Server.session's count in and out).
ClientsAreLoggedIn == \A ip \in Ips : clients[ip] = Cardinality(Nut!LoggedIn(ip))

\* The log's files stay the newest lines accepted, in order and without a
\* gap, and a step loses at most the oldest generation, also when a crash cuts
\* a rotation off and the next one starts over (rotate); and every plain 404
\* since the start is in the log, in the running count or in a write that
\* failed, whatever happens around the count (write).
LogKept == []Log!All404sCounted /\ [][kind = "log" => Log!KeepsNewest]_vars

\* Once the device stays calm, polls that succeed again and again close every
\* outage in the power log (Tracker.Observe).
OutagesEnd ==
  (/\ <>[](\A c \in Conds : ups[c] = "cleared")
   /\ []<><<Power!Observe>>_vars /\ <>[]seeded) => <>[](open = {})

\* Once other processes leave the ports alone, the NUT server is set up as the
\* controller last pushed and bound to its port, whatever bind failed before
\* (ApplyNUT).  Whether it still accepts anybody is another matter (serve).
ServesThePush ==
  <>[](busy = {}) => <>[](spec = Nut!Want(push) /\ ln = (IF spec = Stopped THEN 0 ELSE spec.port))

\* Bringing a UPS's outlets to the controller's settings moves a relay only in
\* a run of the bridge that has found the two equal once, whatever was switched
\* or edited while it was down (holdInitialOutletPush).  A power cycle asked
\* for by relayctl is an order of its own and is not held (CycleOutlets).
NoSurprise == [][kind = "card" => Card!NoSurprise]_vars

\* Once nobody interferes, every relay the bridge may switch is as the
\* controller asks, through failed and half-done commands, power cycles and
\* restarts, unless a UPS's first push is held (ApplyOutlets).
RelaysReach == <>[](kind = "card" => Card!RelaysReached)

\* When rounds keep finding the card done with its uploads, it ends up with
\* the controller's outlet names, cut to its limit, at the controller's static
\* address and with its syslog hosts, however many uploads were dropped on the
\* way; hosts the card missed too often are given up, and an upload the
\* SyslogApplier does not know of may mislead it (Card!Misled).
SettingsReach ==
  []<>(turn = "address" /\ applying = NoUpload) => <>[](kind = "card" => Card!SettingsReached)
=============================================================================

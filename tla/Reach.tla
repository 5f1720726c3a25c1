------------------------------- MODULE Reach -------------------------------
(***************************************************************************)
(* The two drivers that move the address they reach their own switch at,    *)
(* against what both promise (Findable): the bridge is never left with no   *)
(* address of a switch that is there.  A bridge drives one switch of either *)
(* kind; the other kind's variables keep their initial values.              *)
(***************************************************************************)
EXTENDS Sequences, FiniteSets

CONSTANTS Addr, Dead, Home, Gateways, Subnet(_), Pushes, MaxFaults, NoAddr, NoGateway, NoSetting

ASSUME AddressAssumption ==
  /\ Home \in Addr \ Dead /\ Dead \subseteq Addr /\ NoAddr \notin Addr
  /\ NoSetting \notin [ip : Addr, gw : Gateways \cup {NoGateway}]
  /\ Pushes \subseteq [ip : Addr, gw : {{}} \cup {{g} : g \in Gateways}]

VARIABLES kind,   \* the driver
          sw, savedDial, pendingDial, sview, spush, sjob, faults,
          running, revert, startup, host, url, aview, apush, ajob

Sonic == INSTANCE SonicAddress WITH view <- sview, push <- spush, job <- sjob
Arista == INSTANCE AristaAddress WITH Url <- Home, view <- aview, push <- apush, job <- ajob

sonicVars == <<sw, savedDial, pendingDial, sview, spush, sjob, faults>>
aristaVars == <<running, revert, startup, host, url, aview, apush, ajob>>
vars == <<kind, sonicVars, aristaVars>>

Init ==
  /\ kind \in {"sonic", "arista"}
  /\ Sonic!Init /\ (kind = "arista" => sw.hops = {})
  /\ Arista!Init /\ (kind = "sonic" => running.gw = NoGateway)

SonicStep == kind = "sonic" /\ Sonic!Next /\ UNCHANGED <<kind, aristaVars>>
AristaStep == kind = "arista" /\ Arista!Next /\ UNCHANGED <<kind, sonicVars>>

Next == SonicStep \/ AristaStep

\* The loop polls on; an apply under way ends, the commit timer runs out.
Fairness ==
  /\ WF_vars(kind = "sonic" /\ Sonic!Collect /\ UNCHANGED <<kind, aristaVars>>)
  /\ WF_vars(kind = "sonic" /\ (Sonic!Proceed \/ Sonic!ConnectionLost) /\ UNCHANGED <<kind, aristaVars>>)
  /\ WF_vars(kind = "arista" /\ Arista!Proceed /\ UNCHANGED <<kind, sonicVars>>)
  /\ WF_vars(kind = "arista" /\ Arista!Timer /\ UNCHANGED <<kind, sonicVars>>)

Spec == Init /\ [][Next]_vars /\ Fairness

At == IF kind = "sonic" THEN Sonic!Answers ELSE Arista!At
Known == IF kind = "sonic" THEN Sonic!Known ELSE Arista!Known

(***************************************************************************)
(* Properties.                                                              *)
(***************************************************************************)
F == INSTANCE Findable WITH at <- At, known <- Known

\* Both drivers keep the promise of Findable through every interleaving of
\* their steps with lost connections, crashes of the bridge, restarts of the
\* switch and the commit timer: one of the addresses the bridge would dial is
\* one the switch answers at or returns to, and the bridge learns an address
\* only from a switch that answers at it.
NeverLost == F!Spec

\* A SONiC move whose proof failed and whose undo ran to its end leaves
\* CONFIG_DB as the move found it.
UndoneIsUntouched == Sonic!UndoneIsUntouched

\* Whatever was cut off, the address the bridge dials is again and again one
\* the switch answers at: the fallback adopts one, the commit timer returns.
Reunites ==
  []<>(IF kind = "sonic" THEN Sonic!Dial \in Sonic!Answers ELSE host \in Arista!Answers)

=============================================================================

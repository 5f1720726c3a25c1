---------------------------- MODULE PowerEvents ----------------------------
(***************************************************************************)
(* The power-event log of a UPS (powerevent.Tracker): a poll that succeeds  *)
(* is observed, one that fails counts towards lost contact; an alarm is     *)
(* raised by the first poll that shows it and cleared after RecoverPolls    *)
(* polls in a row that show it gone.  The bridge may restart.               *)
(*                                                                         *)
(* A reading says of every condition whether it is raised, cleared or, where*)
(* there is hysteresis, neither.  The log is kept as its reader sees it: the*)
(* outages that are open, and whether contact is lost.                      *)
(***************************************************************************)
EXTENDS Naturals, Sequences, SequencesExt

CONSTANTS Conds,          \* the alarms that have a recovery
          Hysteresis,     \* those with a band between raised and cleared
          Tests,          \* outcomes of a self-test; "" is none
          CommLostAfter, RecoverPolls

Final == {"passed", "failed", "refused", "aborted"}
Levels(c) == {"raised", "cleared"} \cup (IF c \in Hysteresis THEN {"between"} ELSE {})
Readings == {r \in [Conds -> {"raised", "cleared", "between"}] : \A c \in Conds : r[c] \in Levels(c)}

VARIABLES
  ups, test,          \* the device's state, its last self-test
  seeded, conds, lastTest, failures, commLost,   \* the tracker
  said,               \* the lines of the last poll
  open, outOfContact, \* the log's reader: outages not recovered, contact lost
  recent              \* the last RecoverPolls readings

vars == <<ups, test, seeded, conds, lastTest, failures, commLost, said, open, outOfContact, recent>>

Line(event, about) == [event |-> event, about |-> about]
Fresh == [active |-> FALSE, okRun |-> 0]

Init ==
  /\ ups \in Readings /\ test \in Tests
  /\ seeded = FALSE /\ conds = [c \in Conds |-> Fresh] /\ lastTest = "" /\ failures = 0 /\ commLost = FALSE
  /\ said = {} /\ open = {} /\ outOfContact = FALSE /\ recent = <<>>

\* The device's state changes between polls.
Change ==
  /\ ups' \in Readings /\ test' \in Tests
  /\ UNCHANGED <<seeded, conds, lastTest, failures, commLost, said, open, outOfContact, recent>>

Recovers(k) == k.okRun + 1 >= RecoverPolls

\* Mutant: a poll that shows the alarm again does not start the count over.
StepUncounted(k, level) ==
  CASE ~k.active /\ level = "raised" -> [active |-> TRUE, okRun |-> 0]
    [] k.active /\ level = "cleared" -> IF Recovers(k) THEN Fresh ELSE [k EXCEPT !.okRun = @ + 1]
    [] OTHER -> k
\* Mutant: an active alarm starts its count over before it is looked at.
StepStartsOver(k, level) ==
  CASE ~k.active /\ level = "raised" -> [active |-> TRUE, okRun |-> 0]
    [] k.active -> [k EXCEPT !.okRun = 0]
    [] OTHER -> k
Step(k, level) ==
  CASE ~k.active /\ level = "raised" -> [active |-> TRUE, okRun |-> 0]
    [] k.active /\ level = "cleared" -> IF Recovers(k) THEN Fresh ELSE [k EXCEPT !.okRun = @ + 1]
    [] k.active /\ level # "cleared" -> [k EXCEPT !.okRun = 0]
    [] OTHER -> k

Seeded == [c \in Conds |-> [active |-> ups[c] = "raised", okRun |-> 0]]
Stepped == [c \in Conds |-> Step(conds[c], ups[c])]

\* A poll succeeds.  The first one is the baseline.
Observe ==
  LET next == IF seeded THEN Stepped ELSE Seeded
      alarms == {c \in Conds : seeded /\ ~conds[c].active /\ next[c].active}
      recoveries == {c \in Conds : seeded /\ conds[c].active /\ ~next[c].active}
  IN  /\ conds' = next
      /\ seeded' = TRUE /\ lastTest' = test /\ failures' = 0 /\ commLost' = FALSE
      /\ said' = {Line("alarm", c) : c \in alarms} \cup {Line("recovery", c) : c \in recoveries}
                 \cup {Line("comm_restored", "") : x \in {y \in {1} : commLost}}
                 \cup {Line("initial_state", "") : x \in {y \in {1} : ~seeded}}
                 \cup {Line("self_test", t) : t \in {u \in {test} \cap Final : seeded /\ u # lastTest}}
      /\ open' = IF seeded THEN (open \ recoveries) \cup alarms ELSE {c \in Conds : next[c].active}
      /\ outOfContact' = (outOfContact /\ ~commLost)
      /\ recent' = LET r == Append(recent, ups) IN IF Len(r) > RecoverPolls THEN Tail(r) ELSE r
      /\ UNCHANGED <<ups, test>>

\* A poll fails; the count stops at the number that means lost contact.
Failed ==
  /\ failures' = IF failures < CommLostAfter THEN failures + 1 ELSE failures
  /\ commLost' = (commLost \/ failures' >= CommLostAfter)
  /\ said' = IF commLost' /\ ~commLost THEN {Line("comm_lost", "")} ELSE {}
  /\ outOfContact' = (outOfContact \/ (commLost' /\ ~commLost))
  /\ UNCHANGED <<ups, test, seeded, conds, lastTest, open, recent>>

\* The bridge restarts; the reader of the log starts over with it.
Restart ==
  /\ seeded' = FALSE /\ conds' = [c \in Conds |-> Fresh] /\ lastTest' = "" /\ failures' = 0 /\ commLost' = FALSE
  /\ said' = {} /\ open' = {} /\ outOfContact' = FALSE /\ recent' = <<>>
  /\ UNCHANGED <<ups, test>>

Next == Change \/ Observe \/ Failed \/ Restart

\* A recovery is logged only when the last RecoverPolls readings all showed
\* the alarm gone (failed polls between them count for nothing), so a
\* flapping input is one outage; and an outage the last reading shows is open.
OneOutage ==
  /\ \A c \in Conds : Line("recovery", c) \in said =>
       Len(recent) = RecoverPolls /\ \A i \in DOMAIN recent : recent[i][c] = "cleared"
  /\ recent # <<>> => \A c \in Conds : Last(recent)[c] = "raised" => c \in open
=============================================================================

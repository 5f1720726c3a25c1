------------------------ MODULE SonicSettingsProofs ------------------------
(* Theorems about spanning tree under its dead-man timer, for all port      *)
(* settings and any number of firings and faults, and about the time, log   *)
(* and SNMP servers, for all pushes, addresses and answers of the DNS.      *)
EXTENDS SonicSettings, InductionLemmas, SequenceTheorems, FunctionTheorems, TLAPS

---------------------------------------------------------------------------
(* Types. *)

Confs == [stp : BOOLEAN, guard : BOOLEAN, set : Settings \cup {None}, deadman : Nat]
Switches ==
  [conf : Confs, installed : BOOLEAN, service : BOOLEAN, up : BOOLEAN, timer : BOOLEAN,
   mstpd : {"", "building", "yes"}, fired : Nat]
Wants ==
  [stp : BOOLEAN \cup {None}, ports : [guard : BOOLEAN, set : Settings] \cup {None}]

(* What can be left of a batch: its commands come in one order, and every   *)
(* batch ends by starting or reloading the daemon.                          *)
ToInstall ==
  {<<"install", "start">>, <<"install", "conf", "start">>,
   <<"install", "disarm", "arm", "start">>, <<"install", "conf", "disarm", "arm", "start">>}
ToWrite ==
  {<<"conf", "start">>, <<"conf", "disarm", "arm", "start">>,
   <<"install", "conf", "start">>, <<"install", "conf", "disarm", "arm", "start">>}
ToArm ==
  {<<"arm", "start">>, <<"disarm", "arm", "start">>, <<"conf", "disarm", "arm", "start">>,
   <<"install", "disarm", "arm", "start">>, <<"install", "conf", "disarm", "arm", "start">>}
Ending == {<<>>, <<"start">>}
Scripts == ToInstall \cup ToWrite \cup ToArm \cup Ending

Jobs == [at : {"idle", "batch", "confirm"}, ops : Scripts, conf : Confs]

L2TypeOK ==
  /\ sw \in Switches /\ cuts \in BOOLEAN /\ intent \in L2!Intents
  /\ want \in Wants /\ seen \in [deadman : Nat, off : BOOLEAN]
  /\ l2view \in Switches \cup {None}
  /\ turn \in {"collect", "device", "ports"} /\ l2job \in Jobs
  /\ asked \in BOOLEAN /\ unmarked \in BOOLEAN /\ untimed \in BOOLEAN
  /\ l2job.at # "idle" => l2view \in Switches
  /\ l2job.at = "batch" => l2view # None

---------------------------------------------------------------------------
(* What is left of a batch after its first command. *)

LEMMA Start1 == Head(<<"start">>) = "start" /\ Tail(<<"start">>) = <<>>
OBVIOUS
LEMMA Start2 ==
  /\ Head(<<"arm", "start">>) = "arm" /\ Tail(<<"arm", "start">>) = <<"start">>
  /\ Head(<<"conf", "start">>) = "conf" /\ Tail(<<"conf", "start">>) = <<"start">>
  /\ Head(<<"install", "start">>) = "install" /\ Tail(<<"install", "start">>) = <<"start">>
OBVIOUS
LEMMA Start3 ==
  /\ Head(<<"disarm", "arm", "start">>) = "disarm"
  /\ Tail(<<"disarm", "arm", "start">>) = <<"arm", "start">>
  /\ Head(<<"install", "conf", "start">>) = "install"
  /\ Tail(<<"install", "conf", "start">>) = <<"conf", "start">>
OBVIOUS
LEMMA Start4 ==
  /\ Head(<<"conf", "disarm", "arm", "start">>) = "conf"
  /\ Tail(<<"conf", "disarm", "arm", "start">>) = <<"disarm", "arm", "start">>
  /\ Head(<<"install", "disarm", "arm", "start">>) = "install"
  /\ Tail(<<"install", "disarm", "arm", "start">>) = <<"disarm", "arm", "start">>
OBVIOUS
LEMMA Start5 ==
  /\ Head(<<"install", "conf", "disarm", "arm", "start">>) = "install"
  /\ Tail(<<"install", "conf", "disarm", "arm", "start">>) = <<"conf", "disarm", "arm", "start">>
OBVIOUS

(* No script is in a class by accident. *)
LEMMA Classes ==
  /\ <<>> \notin ToInstall \cup ToWrite \cup ToArm
  /\ <<"start">> \notin ToInstall \cup ToWrite \cup ToArm /\ <<"start">> # <<>>
  /\ <<"arm", "start">> \notin ToInstall \cup ToWrite \cup Ending
  /\ <<"disarm", "arm", "start">> \notin ToInstall \cup ToWrite \cup Ending
  /\ <<"conf", "start">> \notin ToInstall \cup ToArm \cup Ending
  /\ <<"conf", "disarm", "arm", "start">> \notin ToInstall \cup Ending
  /\ <<"install", "start">> \notin ToWrite \cup ToArm \cup Ending
  /\ <<"install", "conf", "start">> \notin ToArm \cup Ending
  /\ <<"install", "disarm", "arm", "start">> \notin ToWrite \cup Ending
  /\ <<"install", "conf", "disarm", "arm", "start">> \notin Ending
BY DEF ToInstall, ToWrite, ToArm, Ending

LEMMA NextCommand ==
  ASSUME NEW ops \in Scripts, ops # <<>>
  PROVE  /\ Tail(ops) \in Scripts \ ToInstall
         /\ ops \in ToInstall =>
              /\ Head(ops) = "install" /\ Tail(ops) \notin Ending \ {<<"start">>}
              /\ (ops \in ToWrite <=> Tail(ops) \in ToWrite)
              /\ (ops \in ToArm <=> Tail(ops) \in ToArm)
         /\ ops \in ToWrite \ ToInstall =>
              /\ Head(ops) = "conf" /\ Tail(ops) \notin ToWrite
              /\ (ops \in ToArm <=> Tail(ops) \in ToArm)
              /\ ops \notin ToArm => Tail(ops) = <<"start">>
              /\ Tail(ops) # <<>>
         /\ ops \in ToArm \ (ToInstall \cup ToWrite) =>
              \/ Head(ops) = "disarm" /\ Tail(ops) \in ToArm \ ToWrite
              \/ Head(ops) = "arm" /\ Tail(ops) = <<"start">>
         /\ ops \in Ending => Head(ops) = "start" /\ Tail(ops) = <<>>
<1> USE Start1, Start2, Start3, Start4, Start5, Classes DEF Scripts, ToInstall, ToWrite, ToArm, Ending
<1>1. CASE ops = <<"start">>
  BY <1>1
<1>2. CASE ops = <<"arm", "start">>
  BY <1>2
<1>3. CASE ops = <<"disarm", "arm", "start">>
  BY <1>3
<1>4. CASE ops = <<"conf", "start">>
  BY <1>4
<1>5. CASE ops = <<"conf", "disarm", "arm", "start">>
  BY <1>5
<1>6. CASE ops = <<"install", "start">>
  BY <1>6
<1>7. CASE ops = <<"install", "conf", "start">>
  BY <1>7
<1>8. CASE ops = <<"install", "disarm", "arm", "start">>
  BY <1>8
<1>9. CASE ops = <<"install", "conf", "disarm", "arm", "start">>
  BY <1>9
<1> QED
  BY <1>1, <1>2, <1>3, <1>4, <1>5, <1>6, <1>7, <1>8, <1>9

(* The timer is still to be armed in the scripts that arm it. *)
LEMMA ArmAhead ==
  ASSUME NEW ops \in Scripts
  PROVE  "arm" \in {ops[i] : i \in DOMAIN ops} <=> ops \in ToArm
<1>1. CASE ops \in {<<>>, <<"start">>}
  BY <1>1, Classes
<1>2. CASE ops \in {<<"arm", "start">>, <<"disarm", "arm", "start">>}
  BY <1>2 DEF ToArm
<1>3. CASE ops \in {<<"conf", "start">>, <<"install", "start">>, <<"install", "conf", "start">>}
  BY <1>3, Classes
<1>4. CASE ops = <<"conf", "disarm", "arm", "start">>
  BY <1>4 DEF ToArm
<1>5. CASE ops = <<"install", "disarm", "arm", "start">>
  BY <1>5 DEF ToArm
<1>6. CASE ops = <<"install", "conf", "disarm", "arm", "start">>
  BY <1>6 DEF ToArm
<1> QED
  BY <1>1, <1>2, <1>3, <1>4, <1>5, <1>6 DEF Scripts, ToInstall, ToWrite, ToArm, Ending

---------------------------------------------------------------------------
(* How the batch is put together. *)

(* Two sequences are joined into the one that reads first one, then the     *)
(* other.                                                                   *)
LEMMA Joined ==
  ASSUME NEW S, NEW s \in Seq(S), NEW t \in Seq(S), NEW r \in Seq(S),
         Len(r) = Len(s) + Len(t),
         \A i \in 1 .. Len(s) : r[i] = s[i], \A i \in 1 .. Len(t) : r[Len(s) + i] = t[i]
  PROVE  s \o t = r
<1>1. s \o t \in Seq(S) /\ Len(s \o t) = Len(s) + Len(t)
  BY ConcatProperties
<1>2. \A i \in 1 .. Len(s) + Len(t) : (s \o t)[i] = IF i <= Len(s) THEN s[i] ELSE t[i - Len(s)]
  BY ConcatProperties
<1>3. \A i \in 1 .. Len(s) + Len(t) : i <= Len(s) \/ i - Len(s) \in 1 .. Len(t)
  OBVIOUS
<1>4. \A i \in 1 .. Len(r) : (s \o t)[i] = r[i]
  BY <1>2, <1>3, SMTT(20)
<1> QED
  BY <1>1, <1>4, SeqEqual

LEMMA Join11 ==
  ASSUME NEW S, NEW a \in S, NEW b \in S
  PROVE  <<a>> \o <<b>> = <<a, b>>
<1> DEFINE s == <<a>>
           t == <<b>>
           r == <<a, b>>
<1>1. /\ s \in Seq(S) /\ t \in Seq(S) /\ r \in Seq(S)
      /\ Len(s) = 1 /\ Len(t) = 1 /\ Len(r) = 2
  OBVIOUS
<1>2. s[1] = r[1] /\ t[1] = r[2]
  OBVIOUS
<1> HIDE DEF s, t, r
<1>3. Len(r) = Len(s) + Len(t)
  BY <1>1
<1>4. \A i \in 1 .. Len(s) : r[i] = s[i]
  BY <1>1, <1>2
<1>5. \A i \in 1 .. Len(t) : r[Len(s) + i] = t[i]
  BY <1>1, <1>2
<1>6. s \o t = r
  BY <1>1, <1>3, <1>4, <1>5, Joined, Zenon
<1> QED
  BY <1>6 DEF s, t, r

LEMMA Join12 ==
  ASSUME NEW S, NEW a \in S, NEW b \in S, NEW c \in S
  PROVE  <<a>> \o <<b, c>> = <<a, b, c>>
<1> DEFINE s == <<a>>
           t == <<b, c>>
           r == <<a, b, c>>
<1>1. /\ s \in Seq(S) /\ t \in Seq(S) /\ r \in Seq(S)
      /\ Len(s) = 1 /\ Len(t) = 2 /\ Len(r) = 3
  OBVIOUS
<1>2. s[1] = r[1] /\ t[1] = r[2] /\ t[2] = r[3]
  OBVIOUS
<1> HIDE DEF s, t, r
<1>3. Len(r) = Len(s) + Len(t)
  BY <1>1
<1>4. \A i \in 1 .. Len(s) : r[i] = s[i]
  BY <1>1, <1>2
<1>5. \A i \in 1 .. Len(t) : r[Len(s) + i] = t[i]
  BY <1>1, <1>2
<1>6. s \o t = r
  BY <1>1, <1>3, <1>4, <1>5, Joined, Zenon
<1> QED
  BY <1>6 DEF s, t, r

LEMMA Join21 ==
  ASSUME NEW S, NEW a \in S, NEW b \in S, NEW c \in S
  PROVE  <<a, b>> \o <<c>> = <<a, b, c>>
<1> DEFINE s == <<a, b>>
           t == <<c>>
           r == <<a, b, c>>
<1>1. /\ s \in Seq(S) /\ t \in Seq(S) /\ r \in Seq(S)
      /\ Len(s) = 2 /\ Len(t) = 1 /\ Len(r) = 3
  OBVIOUS
<1>2. s[1] = r[1] /\ s[2] = r[2] /\ t[1] = r[3]
  OBVIOUS
<1> HIDE DEF s, t, r
<1>3. Len(r) = Len(s) + Len(t)
  BY <1>1
<1>4. \A i \in 1 .. Len(s) : r[i] = s[i]
  BY <1>1, <1>2
<1>5. \A i \in 1 .. Len(t) : r[Len(s) + i] = t[i]
  BY <1>1, <1>2
<1>6. s \o t = r
  BY <1>1, <1>3, <1>4, <1>5, Joined, Zenon
<1> QED
  BY <1>6 DEF s, t, r

LEMMA Join22 ==
  ASSUME NEW S, NEW a \in S, NEW b \in S, NEW c \in S, NEW d \in S
  PROVE  <<a, b>> \o <<c, d>> = <<a, b, c, d>>
<1> DEFINE s == <<a, b>>
           t == <<c, d>>
           r == <<a, b, c, d>>
<1>1. /\ s \in Seq(S) /\ t \in Seq(S) /\ r \in Seq(S)
      /\ Len(s) = 2 /\ Len(t) = 2 /\ Len(r) = 4
  OBVIOUS
<1>2. s[1] = r[1] /\ s[2] = r[2] /\ t[1] = r[3] /\ t[2] = r[4]
  OBVIOUS
<1> HIDE DEF s, t, r
<1>3. Len(r) = Len(s) + Len(t)
  BY <1>1
<1>4. \A i \in 1 .. Len(s) : r[i] = s[i]
  BY <1>1, <1>2
<1>5. \A i \in 1 .. Len(t) : r[Len(s) + i] = t[i]
  BY <1>1, <1>2
<1>6. s \o t = r
  BY <1>1, <1>3, <1>4, <1>5, Joined, Zenon
<1> QED
  BY <1>6 DEF s, t, r

LEMMA Join31 ==
  ASSUME NEW S, NEW a \in S, NEW b \in S, NEW c \in S, NEW d \in S
  PROVE  <<a, b, c>> \o <<d>> = <<a, b, c, d>>
<1> DEFINE s == <<a, b, c>>
           t == <<d>>
           r == <<a, b, c, d>>
<1>1. /\ s \in Seq(S) /\ t \in Seq(S) /\ r \in Seq(S)
      /\ Len(s) = 3 /\ Len(t) = 1 /\ Len(r) = 4
  OBVIOUS
<1>2. s[1] = r[1] /\ s[2] = r[2] /\ s[3] = r[3] /\ t[1] = r[4]
  OBVIOUS
<1> HIDE DEF s, t, r
<1>3. Len(r) = Len(s) + Len(t)
  BY <1>1
<1>4. \A i \in 1 .. Len(s) : r[i] = s[i]
  BY <1>1, <1>2
<1>5. \A i \in 1 .. Len(t) : r[Len(s) + i] = t[i]
  BY <1>1, <1>2
<1>6. s \o t = r
  BY <1>1, <1>3, <1>4, <1>5, Joined, Zenon
<1> QED
  BY <1>6 DEF s, t, r

LEMMA Join41 ==
  ASSUME NEW S, NEW a \in S, NEW b \in S, NEW c \in S, NEW d \in S, NEW e \in S
  PROVE  <<a, b, c, d>> \o <<e>> = <<a, b, c, d, e>>
<1> DEFINE s == <<a, b, c, d>>
           t == <<e>>
           r == <<a, b, c, d, e>>
<1>1. /\ s \in Seq(S) /\ t \in Seq(S) /\ r \in Seq(S)
      /\ Len(s) = 4 /\ Len(t) = 1 /\ Len(r) = 5
  OBVIOUS
<1>2. s[1] = r[1] /\ s[2] = r[2] /\ s[3] = r[3] /\ s[4] = r[4] /\ t[1] = r[5]
  OBVIOUS
<1> HIDE DEF s, t, r
<1>3. Len(r) = Len(s) + Len(t)
  BY <1>1
<1>4. \A i \in 1 .. Len(s) : r[i] = s[i]
  BY <1>1, <1>2
<1>5. \A i \in 1 .. Len(t) : r[Len(s) + i] = t[i]
  BY <1>1, <1>2
<1>6. s \o t = r
  BY <1>1, <1>3, <1>4, <1>5, Joined, Zenon
<1> QED
  BY <1>6 DEF s, t, r

(* applyL2's batch for the config c: it installs, writes and arms exactly   *)
(* what the view lacks.                                                     *)
LEMMA BatchIs ==
  ASSUME l2view \in Switches, NEW c \in Confs
  PROVE  /\ L2!Batch(c) \in Scripts
         /\ L2!Batch(c) \notin ToInstall => L2!Batch(c) = <<>> \/ l2view.installed
         /\ L2!Batch(c) = <<>> => l2view.installed
         /\ L2!Batch(c) \in ToWrite <=> l2view.conf # c
         /\ L2!Batch(c) \in ToArm <=> c.stp /\ ~(l2view.service /\ l2view.conf.stp)
<1> DEFINE arm == c.stp /\ ~(l2view.service /\ l2view.conf.stp)
           a == IF l2view.installed THEN <<>> ELSE <<"install">>
           b == IF l2view.conf # c THEN <<"conf">> ELSE <<>>
           d == IF arm THEN <<"disarm", "arm">> ELSE <<>>
           e == IF ~l2view.service \/ ~l2view.installed \/ l2view.conf # c THEN <<"start">> ELSE <<>>
           Cmds == {"install", "conf", "disarm", "arm", "start"}
<1>1. L2!Batch(c) = a \o b \o d \o e
  BY DEF L2!Batch
<1>2. arm => ~l2view.service \/ l2view.conf # c
  BY DEF Switches, Confs
<1>3. \A s \in {<<>>, <<"install">>, <<"conf">>, <<"start">>, <<"disarm", "arm">>, <<"install", "conf">>,
                <<"install", "disarm", "arm">>, <<"conf", "disarm", "arm">>,
                <<"install", "conf", "disarm", "arm">>} : s \o <<>> = s /\ <<>> \o s = s
  <2>1. /\ <<>> \in Seq(Cmds)
        /\ \A x \in Cmds : <<x>> \in Seq(Cmds)
        /\ \A x, y \in Cmds : <<x, y>> \in Seq(Cmds)
        /\ \A x, y, z \in Cmds : <<x, y, z>> \in Seq(Cmds)
        /\ \A w, x, y, z \in Cmds : <<w, x, y, z>> \in Seq(Cmds)
    OBVIOUS
  <2>2. \A s \in Seq(Cmds) : s \o <<>> = s /\ <<>> \o s = s
    BY ConcatEmptySeq
  <2> QED
    BY <2>1, <2>2
<1> HIDE DEF arm, a, b, d, e
<1>4. "install" \in Cmds /\ "conf" \in Cmds /\ "disarm" \in Cmds /\ "arm" \in Cmds /\ "start" \in Cmds
  OBVIOUS
<1> HIDE DEF Cmds
<1>5. /\ <<"install">> \o <<"conf">> = <<"install", "conf">>
      /\ <<"install">> \o <<"start">> = <<"install", "start">>
      /\ <<"conf">> \o <<"start">> = <<"conf", "start">>
  BY <1>4, Join11
<1>6. /\ <<"install">> \o <<"disarm", "arm">> = <<"install", "disarm", "arm">>
      /\ <<"conf">> \o <<"disarm", "arm">> = <<"conf", "disarm", "arm">>
  BY <1>4, Join12
<1>7. /\ <<"disarm", "arm">> \o <<"start">> = <<"disarm", "arm", "start">>
      /\ <<"install", "conf">> \o <<"start">> = <<"install", "conf", "start">>
  BY <1>4, Join21
<1>8. <<"install", "conf">> \o <<"disarm", "arm">> = <<"install", "conf", "disarm", "arm">>
  BY <1>4, Join22
<1>9. /\ <<"install", "disarm", "arm">> \o <<"start">> = <<"install", "disarm", "arm", "start">>
      /\ <<"conf", "disarm", "arm">> \o <<"start">> = <<"conf", "disarm", "arm", "start">>
  BY <1>4, Join31
<1>10. <<"install", "conf", "disarm", "arm">> \o <<"start">> = <<"install", "conf", "disarm", "arm", "start">>
  <2>1. \A v, w, x, y, z \in Cmds : <<v, w, x, y>> \o <<z>> = <<v, w, x, y, z>>
    BY Join41, Zenon
  <2> QED
    BY <2>1, <1>4
<1>11. CASE l2view.installed /\ l2view.conf = c /\ ~arm /\ l2view.service
  <2>1. a = <<>> /\ b = <<>>
    BY <1>11 DEF a, b
  <2>2. d = <<>> /\ e = <<>>
    BY <1>2, <1>11 DEF d, e
  <2>3. L2!Batch(c) = <<>>
    BY <2>1, <2>2, <1>1, <1>3, <1>5, <1>6, <1>7, <1>8, <1>9, <1>10
  <2> QED
    BY <2>3, <1>11, Classes DEF arm, Scripts, ToInstall, ToWrite, ToArm, Ending
<1>12. CASE l2view.installed /\ l2view.conf = c /\ ~arm /\ ~l2view.service
  <2>1. a = <<>> /\ b = <<>>
    BY <1>12 DEF a, b
  <2>2. d = <<>> /\ e = <<"start">>
    BY <1>2, <1>12 DEF d, e
  <2>3. L2!Batch(c) = <<"start">>
    BY <2>1, <2>2, <1>1, <1>3, <1>5, <1>6, <1>7, <1>8, <1>9, <1>10
  <2> QED
    BY <2>3, <1>12, Classes DEF arm, Scripts, ToInstall, ToWrite, ToArm, Ending
<1>13. CASE l2view.installed /\ l2view.conf = c /\ arm
  <2>1. a = <<>> /\ b = <<>>
    BY <1>13 DEF a, b
  <2>2. d = <<"disarm", "arm">> /\ e = <<"start">>
    BY <1>2, <1>13 DEF d, e
  <2>3. L2!Batch(c) = <<"disarm", "arm", "start">>
    BY <2>1, <2>2, <1>1, <1>3, <1>5, <1>6, <1>7, <1>8, <1>9, <1>10
  <2> QED
    BY <2>3, <1>13, Classes DEF arm, Scripts, ToInstall, ToWrite, ToArm, Ending
<1>14. CASE l2view.installed /\ l2view.conf # c /\ ~arm
  <2>1. a = <<>> /\ b = <<"conf">>
    BY <1>14 DEF a, b
  <2>2. d = <<>> /\ e = <<"start">>
    BY <1>2, <1>14 DEF d, e
  <2>3. L2!Batch(c) = <<"conf", "start">>
    BY <2>1, <2>2, <1>1, <1>3, <1>5, <1>6, <1>7, <1>8, <1>9, <1>10
  <2> QED
    BY <2>3, <1>14, Classes DEF arm, Scripts, ToInstall, ToWrite, ToArm, Ending
<1>15. CASE l2view.installed /\ l2view.conf # c /\ arm
  <2>1. a = <<>> /\ b = <<"conf">>
    BY <1>15 DEF a, b
  <2>2. d = <<"disarm", "arm">> /\ e = <<"start">>
    BY <1>2, <1>15 DEF d, e
  <2>3. L2!Batch(c) = <<"conf", "disarm", "arm", "start">>
    BY <2>1, <2>2, <1>1, <1>3, <1>5, <1>6, <1>7, <1>8, <1>9, <1>10
  <2> QED
    BY <2>3, <1>15, Classes DEF arm, Scripts, ToInstall, ToWrite, ToArm, Ending
<1>16. CASE ~l2view.installed /\ l2view.conf = c /\ ~arm
  <2>1. a = <<"install">> /\ b = <<>>
    BY <1>16 DEF a, b
  <2>2. d = <<>> /\ e = <<"start">>
    BY <1>2, <1>16 DEF d, e
  <2>3. L2!Batch(c) = <<"install", "start">>
    BY <2>1, <2>2, <1>1, <1>3, <1>5, <1>6, <1>7, <1>8, <1>9, <1>10
  <2> QED
    BY <2>3, <1>16, Classes DEF arm, Scripts, ToInstall, ToWrite, ToArm, Ending
<1>17. CASE ~l2view.installed /\ l2view.conf = c /\ arm
  <2>1. a = <<"install">> /\ b = <<>>
    BY <1>17 DEF a, b
  <2>2. d = <<"disarm", "arm">> /\ e = <<"start">>
    BY <1>2, <1>17 DEF d, e
  <2>3. L2!Batch(c) = <<"install", "disarm", "arm", "start">>
    BY <2>1, <2>2, <1>1, <1>3, <1>5, <1>6, <1>7, <1>8, <1>9, <1>10
  <2> QED
    BY <2>3, <1>17, Classes DEF arm, Scripts, ToInstall, ToWrite, ToArm, Ending
<1>18. CASE ~l2view.installed /\ l2view.conf # c /\ ~arm
  <2>1. a = <<"install">> /\ b = <<"conf">>
    BY <1>18 DEF a, b
  <2>2. d = <<>> /\ e = <<"start">>
    BY <1>2, <1>18 DEF d, e
  <2>3. L2!Batch(c) = <<"install", "conf", "start">>
    BY <2>1, <2>2, <1>1, <1>3, <1>5, <1>6, <1>7, <1>8, <1>9, <1>10
  <2> QED
    BY <2>3, <1>18, Classes DEF arm, Scripts, ToInstall, ToWrite, ToArm, Ending
<1>19. CASE ~l2view.installed /\ l2view.conf # c /\ arm
  <2>1. a = <<"install">> /\ b = <<"conf">>
    BY <1>19 DEF a, b
  <2>2. d = <<"disarm", "arm">> /\ e = <<"start">>
    BY <1>2, <1>19 DEF d, e
  <2>3. L2!Batch(c) = <<"install", "conf", "disarm", "arm", "start">>
    BY <2>1, <2>2, <1>1, <1>3, <1>5, <1>6, <1>7, <1>8, <1>9, <1>10
  <2> QED
    BY <2>3, <1>19, Classes DEF arm, Scripts, ToInstall, ToWrite, ToArm, Ending
<1> HIDE DEF arm
<1> QED
  BY <1>11, <1>12, <1>13, <1>14, <1>15, <1>16, <1>17, <1>18, <1>19

---------------------------------------------------------------------------
(* The inductive invariant of Returns. *)

(* What is on the switch stays on it: the daemon runs only installed, and   *)
(* what the driver saw installed still is.                                  *)
Standing ==
  /\ sw.up => sw.service /\ sw.mstpd = "yes"
  /\ sw.service \/ sw.timer => sw.installed
  /\ l2job.at = "batch" /\ l2job.ops \notin ToInstall => sw.installed
  /\ l2view # None => (l2view.installed => sw.installed)

(* Spanning tree the timer may leave alone: it is up and the bridge has its *)
(* path.                                                                    *)
Proven == sw.conf.stp /\ sw.up /\ ~cuts

(* The script that is about to arm the timer, by what is left of it. *)
Armed ==
  l2job.at = "batch" /\ l2job.conf.stp /\ sw.conf.stp /\ l2job.ops \in ToArm

(* A config that asks for spanning tree is proven, or the timer runs, or    *)
(* the script that arms it, or one of the three exceptions happened.        *)
Guarded == sw.conf.stp => Proven \/ sw.timer \/ Armed \/ untimed

(* Only a batch that enables arms the timer; one that enables without it    *)
(* was planned on a view where spanning tree runs.                          *)
Planned ==
  /\ l2job.at = "batch" /\ l2job.ops \in ToArm => l2job.conf.stp
  /\ l2job.at = "batch" /\ l2job.ops \in ToWrite \ ToArm /\ l2job.conf.stp =>
       l2view.service /\ l2view.conf.stp

ReturnInv == Standing /\ Guarded /\ Planned

---------------------------------------------------------------------------
(* The inductive invariant of UndoneStaysDown. *)

(* A mark is the number of a firing. *)
Numbered ==
  /\ sw.conf.deadman <= sw.fired /\ seen.deadman <= sw.fired
  /\ l2view # None => l2view.conf.deadman <= sw.fired
  /\ l2job.conf.deadman <= sw.fired

(* Until the controller has had spanning tree off, the mark of the last     *)
(* firing is in the config and in every plan made on a view that has it,    *)
(* and no off the driver saw is held against it.                            *)
Marked ==
  sw.fired > 0 /\ ~asked /\ ~unmarked =>
    /\ intent.stp /\ ~sw.up /\ ~sw.conf.stp /\ sw.conf.deadman = sw.fired
    /\ l2job.at = "batch" /\ l2view.conf.deadman = sw.fired => ~l2job.conf.stp /\ l2job.conf.deadman = sw.fired
    /\ seen.deadman = sw.fired => ~seen.off

DownInv == Numbered /\ Marked /\ (turn = "ports" => want.stp = intent.stp)

---------------------------------------------------------------------------
(* What the operators of the switch and of the driver return. *)

(* The daemon reads its config: only whether it runs changes. *)
LEMMA SyncedIs ==
  ASSUME NEW s \in Switches
  PROVE  /\ L2!Synced(s) \in Switches
         /\ L2!Synced(s).up <=> s.service /\ s.conf.stp /\ s.mstpd = "yes"
         /\ L2!Synced(s).conf = s.conf /\ L2!Synced(s).installed = s.installed
         /\ L2!Synced(s).service = s.service /\ L2!Synced(s).timer = s.timer
         /\ L2!Synced(s).mstpd = s.mstpd /\ L2!Synced(s).fired = s.fired
BY DEF L2!Synced, Switches, Confs

(* A mark the driver has not seen yet takes back the off it saw; looking    *)
(* again changes nothing.                                                   *)
LEMMA LatchIs ==
  ASSUME l2view \in Switches, NEW w, NEW x, NEW s \in [deadman : Nat, off : BOOLEAN]
  PROVE  /\ L2!Latch(w, s) \in [deadman : Nat, off : BOOLEAN]
         /\ L2!Latch(x, L2!Latch(w, s)) = L2!Latch(w, s)
         /\ L2!Latch(w, s) = s \/ L2!Latch(w, s).deadman = l2view.conf.deadman
         /\ L2!Latch(w, s).off => s.off /\ L2!Latch(w, s) = s
         /\ L2!Latch(w, s) = s => l2view.conf.deadman \in {0, s.deadman}
<1>1. l2view.conf.deadman \in Nat
  BY DEF Switches, Confs
<1>2. CASE l2view.conf.deadman \in {0, s.deadman}
  <2>1. L2!Latch(w, s) = s /\ L2!Latch(x, s) = s
    BY <1>2 DEF L2!Latch
  <2> QED
    BY <1>2, <2>1
<1>3. CASE l2view.conf.deadman \notin {0, s.deadman}
  <2> DEFINE t == [deadman |-> l2view.conf.deadman, off |-> FALSE]
  <2>1. L2!Latch(w, s) = t
    BY <1>3 DEF L2!Latch
  <2>2. L2!Latch(x, t) = t
    BY DEF L2!Latch
  <2>3. t # s /\ t \in [deadman : Nat, off : BOOLEAN] /\ t.deadman = l2view.conf.deadman /\ ~t.off
    BY <1>1, <1>3
  <2> HIDE DEF t
  <2> QED
    BY <2>1, <2>2, <2>3
<1> QED
  BY <1>2, <1>3

(* The config applyL2 plans on a view. *)
LEMMA ConfIs ==
  ASSUME l2view \in Switches, NEW w \in Wants, w.stp # None, w.ports # None,
         NEW s \in [deadman : Nat, off : BOOLEAN]
  PROVE  LET c == L2!Runnable(L2!Held(w, s))
             held == l2view.conf.deadman # 0 /\ w.stp /\ ~L2!Latch(w, s).off
         IN  /\ c \in Confs /\ w.stp \in BOOLEAN
             /\ c.stp <=> w.stp /\ l2view.mstpd = "yes" /\ ~held
             /\ held => c.deadman = l2view.conf.deadman
             /\ ~held => c.deadman = 0
<1>1. w.stp \in BOOLEAN /\ w.ports \in [guard : BOOLEAN, set : Settings]
  BY DEF Wants
<1>2. /\ L2!Wanted(w) \in Confs /\ (L2!Wanted(w).stp <=> w.stp)
      /\ L2!Wanted(w).deadman = 0
  BY <1>1 DEF L2!Wanted, Confs
<1>3. CASE l2view.conf.deadman # 0 /\ w.stp /\ ~L2!Latch(w, s).off
  <2>1. L2!Held(w, s) = [L2!Wanted(w) EXCEPT !.stp = FALSE, !.deadman = l2view.conf.deadman]
    BY <1>3 DEF L2!Held
  <2> QED
    BY <1>1, <1>2, <1>3, <2>1 DEF L2!Runnable, Confs, Switches
<1>4. CASE ~(l2view.conf.deadman # 0 /\ w.stp /\ ~L2!Latch(w, s).off)
  <2>1. L2!Held(w, s) = L2!Wanted(w)
    BY <1>4 DEF L2!Held
  <2> QED
    BY <1>1, <1>2, <1>4, <2>1 DEF L2!Runnable, Confs, Switches
<1> QED
  BY <1>3, <1>4

LEMMA IdleIs == L2!Idle \in Jobs /\ L2!Idle.at = "idle" /\ L2!Idle.conf = L2!NoConf /\ L2!NoConf.deadman = 0
BY DEF L2!Idle, L2!NoConf, Jobs, Confs, Scripts, Ending

(* applyL2 leaves the driver idle, or with the batch of the config it plans; *)
(* all it does to the switch at once is to ask for a build of mstpd.         *)
LEMMA ApplyIs ==
  ASSUME L2TypeOK, l2job = L2!Idle, NEW w \in Wants, NEW s \in [deadman : Nat, off : BOOLEAN],
         L2!ApplyL2(w, s)
  PROVE  /\ seen' \in [deadman : Nat, off : BOOLEAN]
         /\ seen' = s \/ (l2view # None /\ seen' = L2!Latch(w, s))
         /\ sw' \in Switches /\ sw'.conf = sw.conf /\ sw'.installed = sw.installed
         /\ sw'.service = sw.service /\ sw'.up = sw.up /\ sw'.timer = sw.timer /\ sw'.fired = sw.fired
         /\ sw.mstpd = "yes" => sw'.mstpd = "yes"
         /\ \/ l2job' = L2!Idle
            \/ /\ l2view # None /\ w.stp # None /\ w.ports # None /\ L2!Reachable
               /\ seen' = L2!Latch(w, s) /\ L2!Batch(L2!Runnable(L2!Held(w, s))) # <<>>
               /\ l2job' = [at |-> "batch", ops |-> L2!Batch(L2!Runnable(L2!Held(w, s))),
                            conf |-> L2!Runnable(L2!Held(w, s))]
<1> DEFINE conf == L2!Runnable(L2!Held(w, s))
           held == L2!Held(w, s)
           skip == \/ l2view = None \/ w.stp = None \/ w.ports = None
                   \/ ~w.stp /\ ~w.ports.guard /\ l2view.conf.set = None
<1>1. CASE skip
  <2>1. seen' = s /\ UNCHANGED <<sw, l2job>>
    BY <1>1, Zenon DEF L2!ApplyL2
  <2>2. l2job' = L2!Idle /\ sw' = sw /\ sw \in Switches /\ seen' = s
    BY <2>1, Zenon DEF L2TypeOK
  <2> HIDE DEF conf, held, skip
  <2> QED
    BY <2>2, Zenon
<1>2. CASE ~skip
  <2>1. l2view \in Switches /\ l2view # None /\ w.stp # None /\ w.ports # None
    BY <1>2 DEF L2TypeOK
  <2>2. /\ seen' = L2!Latch(w, s)
        /\ sw' = IF held.stp /\ l2view.mstpd = "" /\ sw.mstpd = "" /\ L2!Reachable
                 THEN [sw EXCEPT !.mstpd = "building"] ELSE sw
        /\ l2job' = IF \/ ~L2!Reachable \/ L2!Batch(conf) = <<>>
                       \/ held.stp /\ ~conf.stp /\ ~conf.guard /\ l2view.conf.set = None
                    THEN L2!Idle ELSE [at |-> "batch", ops |-> L2!Batch(conf), conf |-> conf]
    BY <1>2, Zenon DEF L2!ApplyL2
  <2>3. seen' \in [deadman : Nat, off : BOOLEAN]
    BY <2>1, <2>2, LatchIs
  <2>4. \/ l2job' = L2!Idle
        \/ /\ L2!Reachable /\ L2!Batch(conf) # <<>>
           /\ l2job' = [at |-> "batch", ops |-> L2!Batch(conf), conf |-> conf]
    BY <2>2
  <2> HIDE DEF conf, held
  <2>5. /\ sw' \in Switches /\ sw'.conf = sw.conf /\ sw'.installed = sw.installed
        /\ sw'.service = sw.service /\ sw'.up = sw.up /\ sw'.timer = sw.timer /\ sw'.fired = sw.fired
        /\ sw.mstpd = "yes" => sw'.mstpd = "yes"
    BY <2>2 DEF L2TypeOK, Switches
  <2> QED
    BY <2>1, <2>2, <2>3, <2>4, <2>5 DEF conf
<1> QED
  BY <1>1, <1>2

(* The batch of a planned config is a job. *)
LEMMA PlanIs ==
  ASSUME l2view \in Switches, NEW w \in Wants, w.stp # None, w.ports # None,
         NEW s \in [deadman : Nat, off : BOOLEAN]
  PROVE  LET c == L2!Runnable(L2!Held(w, s))
         IN  [at |-> "batch", ops |-> L2!Batch(c), conf |-> c] \in Jobs
<1> DEFINE c == L2!Runnable(L2!Held(w, s))
<1>1. c \in Confs
  BY ConfIs
<1> HIDE DEF c
<1>2. L2!Batch(c) \in Scripts
  BY <1>1, BatchIs
<1>3. [at |-> "batch", ops |-> L2!Batch(c), conf |-> c] \in Jobs
  BY <1>1, <1>2 DEF Jobs
<1> QED
  BY <1>3 DEF c

(* One command of a batch. *)
LEMMA AfterIs ==
  ASSUME NEW s, NEW c
  PROVE  /\ L2!After(s, "install", c) = [s EXCEPT !.installed = TRUE]
         /\ L2!After(s, "conf", c) = [s EXCEPT !.conf = c]
         /\ L2!After(s, "disarm", c) = [s EXCEPT !.timer = FALSE]
         /\ L2!After(s, "arm", c) = [s EXCEPT !.timer = TRUE]
         /\ L2!After(s, "start", c) = L2!Synced([s EXCEPT !.service = TRUE])
BY DEF L2!After

LEMMA AfterType ==
  ASSUME NEW s \in Switches, NEW c \in Confs,
         NEW o \in {"install", "conf", "disarm", "arm", "start"}
  PROVE  L2!After(s, o, c) \in Switches
<1>1. /\ [s EXCEPT !.installed = TRUE] \in Switches /\ [s EXCEPT !.conf = c] \in Switches
      /\ [s EXCEPT !.timer = FALSE] \in Switches /\ [s EXCEPT !.timer = TRUE] \in Switches
      /\ [s EXCEPT !.service = TRUE] \in Switches
  BY DEF Switches
<1>2. L2!Synced([s EXCEPT !.service = TRUE]) \in Switches
  BY <1>1, SyncedIs
<1> QED
  <2>1. CASE o = "install"
    BY <2>1, <1>1, AfterIs, Zenon
  <2>2. CASE o = "conf"
    BY <2>2, <1>1, AfterIs, Zenon
  <2>3. CASE o = "disarm"
    BY <2>3, <1>1, AfterIs, Zenon
  <2>4. CASE o = "arm"
    BY <2>4, <1>1, AfterIs, Zenon
  <2>5. CASE o = "start"
    BY <2>5, <1>2, AfterIs, Zenon
  <2> QED
    BY <2>1, <2>2, <2>3, <2>4, <2>5

(* The commands of a batch that has some left. *)
LEMMA CommandIs ==
  ASSUME L2TypeOK, L2!RunOp
  PROVE  /\ Head(l2job.ops) \in {"install", "conf", "disarm", "arm", "start"}
         /\ l2job.ops \in Scripts /\ l2job.ops # <<>> /\ l2job' \in Jobs
         /\ l2job'.at = "batch" /\ l2job'.conf = l2job.conf /\ l2job'.ops = Tail(l2job.ops)
         /\ l2job.conf \in Confs
<1>1. l2job.ops \in Scripts /\ l2job.ops # <<>> /\ l2job.at = "batch" /\ l2job.conf \in Confs
  BY DEF L2TypeOK, Jobs, L2!RunOp
<1>2. Tail(l2job.ops) \in Scripts
  BY <1>1, NextCommand
<1>3. /\ l2job' \in Jobs /\ l2job'.at = "batch" /\ l2job'.conf = l2job.conf
      /\ l2job'.ops = Tail(l2job.ops)
  BY <1>2 DEF L2TypeOK, Jobs, L2!RunOp
<1>4. Head(l2job.ops) \in {"install", "conf", "disarm", "arm", "start"}
  BY <1>1, NextCommand DEF Scripts
<1> QED
  BY <1>1, <1>3, <1>4

(* The dead-man turns spanning tree off and marks the config. *)
LEMMA FiredIs ==
  ASSUME L2TypeOK, L2!Deadman
  PROVE  /\ sw' \in Switches
         /\ ~sw'.timer /\ ~sw'.up /\ sw'.service /\ sw'.fired = sw.fired + 1
         /\ ~sw'.conf.stp /\ sw'.conf.deadman = sw.fired + 1
         /\ sw'.installed = sw.installed /\ sw'.mstpd = sw.mstpd
<1> DEFINE c == [sw.conf EXCEPT !.stp = FALSE, !.deadman = sw.fired + 1]
<1>1. sw' = [sw EXCEPT !.timer = FALSE, !.up = FALSE, !.service = TRUE, !.fired = sw.fired + 1, !.conf = c]
  BY DEF L2!Deadman
<1>2. sw \in Switches /\ sw.conf \in Confs /\ sw.fired \in Nat /\ sw.fired + 1 \in Nat
  <2>1. sw \in Switches
    BY DEF L2TypeOK
  <2>2. sw.conf \in Confs /\ sw.fired \in Nat
    BY <2>1 DEF Switches
  <2>3. sw.fired + 1 \in Nat
    BY <2>2
  <2> QED
    BY <2>1, <2>2, <2>3
<1>3. c \in Confs /\ ~c.stp /\ c.deadman = sw.fired + 1
  <2> DEFINE n == sw.fired + 1
  <2> HIDE DEF n
  <2>1. n \in Nat
    BY <1>2 DEF n
  <2>2. [sw.conf EXCEPT !.stp = FALSE, !.deadman = n] \in Confs
    BY <1>2, <2>1 DEF Confs
  <2>3. [sw.conf EXCEPT !.stp = FALSE, !.deadman = n].deadman = n
    BY <1>2 DEF Confs
  <2>4. ~[sw.conf EXCEPT !.stp = FALSE, !.deadman = n].stp
    BY <1>2 DEF Confs
  <2> QED
    BY <2>2, <2>3, <2>4 DEF n
<1> HIDE DEF c
<1> QED
  BY <1>1, <1>2, <1>3 DEF Switches

LEMMA L2InitType == L2!Init => L2TypeOK
<1> SUFFICES ASSUME L2!Init PROVE L2TypeOK
  OBVIOUS
<1>1. sw \in Switches
  <2>1. PICK mstpd \in {"", "yes"} :
          sw = [conf |-> L2!NoConf, installed |-> FALSE, service |-> FALSE, up |-> FALSE,
                timer |-> FALSE, mstpd |-> mstpd, fired |-> 0]
    BY Zenon DEF L2!Init
  <2>2. L2!NoConf \in Confs
    BY DEF L2!NoConf, Confs
  <2> QED
    BY <2>1, <2>2 DEF Switches
<1>2. want \in Wants /\ seen \in [deadman : Nat, off : BOOLEAN]
  BY DEF L2!Init, Wants
<1>3. l2job \in Jobs /\ l2job.at = "idle"
  BY IdleIs DEF L2!Init
<1>4. asked \in BOOLEAN /\ cuts \in BOOLEAN /\ unmarked \in BOOLEAN /\ untimed \in BOOLEAN
  BY Zenon DEF L2!Init
<1> QED
  BY <1>1, <1>2, <1>3, <1>4, Zenon DEF L2!Init, L2TypeOK

LEMMA L2NextType ==
  ASSUME L2TypeOK, L2!Next
  PROVE  L2TypeOK'
<1>1. CASE L2!Sync
  BY <1>1, SyncedIs DEF L2!Sync, L2TypeOK
<1>2. CASE L2!Deadman
  <2>1. sw' \in Switches
    BY <1>2, FiredIs
  <2>2. asked' \in BOOLEAN
    BY <1>2 DEF L2!Deadman, L2TypeOK, L2!Intents
  <2> QED
    BY <1>2, <2>1, <2>2 DEF L2!Deadman, L2TypeOK
<1>3. CASE L2!Build \/ L2!BuildFails
  <2>1. sw' \in Switches
    BY <1>3, ZenonT(40) DEF L2!Build, L2!BuildFails, L2TypeOK, Switches
  <2> QED
    BY <1>3, <2>1 DEF L2!Build, L2!BuildFails, L2TypeOK
<1>4. CASE L2!Rewire
  BY <1>4 DEF L2!Rewire, L2TypeOK
<1>5. CASE L2!Reboot
  <2>1. [sw EXCEPT !.timer = FALSE, !.service = sw.installed] \in Switches
    BY DEF L2TypeOK, Switches
  <2>2. sw' \in Switches
    BY <1>5, <2>1, SyncedIs DEF L2!Reboot
  <2>3. untimed' \in BOOLEAN
    BY <1>5 DEF L2!Reboot, L2!Untimed
  <2> QED
    BY <1>5, <2>2, <2>3, IdleIs DEF L2!Reboot, L2TypeOK
<1>6. ASSUME NEW p \in L2!Intents, L2!Push(p) PROVE L2TypeOK'
  <2>1. asked' \in BOOLEAN
    BY <1>6 DEF L2!Push, L2TypeOK, L2!Intents
  <2> QED
    BY <1>6, <2>1 DEF L2!Push, L2TypeOK
<1>7. CASE L2!Collect \/ L2!CollectFails
  BY <1>7, IdleIs DEF L2!Collect, L2!CollectFails, L2TypeOK
<1>8. CASE L2!ApplyDevice
  <2>1. want' \in Wants
    BY <1>8 DEF L2!ApplyDevice, L2TypeOK, Wants, L2!Intents
  <2>2. [seen EXCEPT !.off = seen.off \/ ~intent.stp] \in [deadman : Nat, off : BOOLEAN]
    BY DEF L2TypeOK, L2!Intents
  <2>3. L2!ApplyL2(want', [seen EXCEPT !.off = seen.off \/ ~intent.stp]) /\ l2job = L2!Idle
    BY <1>8 DEF L2!ApplyDevice
  <2>4. sw' \in Switches /\ seen' \in [deadman : Nat, off : BOOLEAN]
    BY <2>1, <2>2, <2>3, ApplyIs
  <2>5. l2job' \in Jobs /\ (l2job'.at # "idle" => l2view # None /\ l2view \in Switches)
    BY <2>1, <2>2, <2>3, ApplyIs, PlanIs, IdleIs DEF L2TypeOK
  <2> QED
    BY <1>8, <2>1, <2>4, <2>5 DEF L2!ApplyDevice, L2TypeOK
<1>9. CASE L2!ApplyPorts
  <2>1. want' \in Wants
    BY <1>9 DEF L2!ApplyPorts, L2TypeOK, Wants, L2!Intents
  <2>3. L2!ApplyL2(want', seen) /\ l2job = L2!Idle /\ seen \in [deadman : Nat, off : BOOLEAN]
    BY <1>9 DEF L2!ApplyPorts, L2TypeOK
  <2>4. sw' \in Switches /\ seen' \in [deadman : Nat, off : BOOLEAN]
    BY <2>1, <2>3, ApplyIs
  <2>5. l2job' \in Jobs /\ (l2job'.at # "idle" => l2view # None /\ l2view \in Switches)
    BY <2>1, <2>3, ApplyIs, PlanIs, IdleIs DEF L2TypeOK
  <2> QED
    BY <1>9, <2>1, <2>4, <2>5 DEF L2!ApplyPorts, L2TypeOK
<1>10. CASE L2!RunOp
  <2>1. sw' \in Switches
    <3>1. sw' = L2!After(sw, Head(l2job.ops), l2job.conf) /\ sw \in Switches
      BY <1>10 DEF L2!RunOp, L2TypeOK
    <3>2. /\ Head(l2job.ops) \in {"install", "conf", "disarm", "arm", "start"}
          /\ l2job.conf \in Confs
      BY <1>10, CommandIs
    <3>3. \A o \in {"install", "conf", "disarm", "arm", "start"} : L2!After(sw, o, l2job.conf) \in Switches
      BY <3>1, <3>2, AfterType
    <3> QED
      BY <3>1, <3>2, <3>3
  <2>2. unmarked' \in BOOLEAN /\ untimed' \in BOOLEAN
    BY <1>10 DEF L2!RunOp, L2!Untimed
  <2> QED
    BY <1>10, <2>1, <2>2, CommandIs DEF L2!RunOp, L2TypeOK
<1>11. CASE L2!Commit
  <2>1. l2view' \in Switches
    BY <1>11 DEF L2!Commit, L2TypeOK, Switches, Jobs
  <2>2. l2job' \in Jobs /\ l2job'.at # "batch"
    BY <1>11, IdleIs DEF L2!Commit, L2TypeOK, Jobs
  <2> QED
    BY <1>11, <2>1, <2>2 DEF L2!Commit, L2TypeOK
<1>12. CASE L2!Confirm \/ L2!NotConfirmed
  <2>1. sw' \in Switches
    BY <1>12 DEF L2!Confirm, L2!NotConfirmed, L2TypeOK, Switches
  <2> QED
    BY <1>12, <2>1, IdleIs DEF L2!Confirm, L2!NotConfirmed, L2TypeOK
<1>13. CASE L2!ConnectionLost
  BY <1>13, IdleIs DEF L2!ConnectionLost, L2!Untimed, L2TypeOK
<1>14. CASE L2!Crash
  <2>1. want' \in Wants /\ seen' \in [deadman : Nat, off : BOOLEAN]
    BY <1>14 DEF L2!Crash, Wants
  <2> QED
    BY <1>14, <2>1, IdleIs DEF L2!Crash, L2!Untimed, L2TypeOK
<1> QED
  BY <1>1, <1>2, <1>3, <1>4, <1>5, <1>6, <1>7, <1>8, <1>9, <1>10, <1>11, <1>12, <1>13, <1>14 DEF L2!Next

---------------------------------------------------------------------------
(* A switch that was cut off comes back. *)

LEMMA WindowIs ==
  ASSUME L2TypeOK
  PROVE  L2!Window <=> Armed
<1>1. l2job.ops \in Scripts
  BY DEF L2TypeOK, Jobs
<1> QED
  BY <1>1, ArmAhead DEF L2!Window, Armed

LEMMA SyncReturns ==
  ASSUME L2TypeOK, ReturnInv, L2!Sync
  PROVE  ReturnInv'
<1>1. sw \in Switches
  BY DEF L2TypeOK
<1>2. /\ sw'.up <=> sw.service /\ sw.conf.stp /\ sw.mstpd = "yes"
      /\ sw'.conf = sw.conf /\ sw'.installed = sw.installed /\ sw'.service = sw.service
      /\ sw'.timer = sw.timer /\ sw'.mstpd = sw.mstpd
  BY <1>1, SyncedIs DEF L2!Sync
<1>3. UNCHANGED <<cuts, l2view, l2job, untimed>>
  BY DEF L2!Sync
<1> QED
  BY <1>2, <1>3 DEF ReturnInv, Standing, Guarded, Planned, Armed, Proven

LEMMA DeadmanReturns ==
  ASSUME L2TypeOK, ReturnInv, L2!Deadman
  PROVE  ReturnInv'
<1>1. /\ ~sw'.timer /\ ~sw'.up /\ sw'.service /\ ~sw'.conf.stp
      /\ sw'.installed = sw.installed /\ sw'.mstpd = sw.mstpd
  BY FiredIs
<1>2. UNCHANGED <<l2view, l2job>> /\ sw.timer
  BY DEF L2!Deadman
<1> QED
  BY <1>1, <1>2 DEF ReturnInv, Standing, Guarded, Planned

LEMMA BuildReturns ==
  ASSUME L2TypeOK, ReturnInv, L2!Build \/ L2!BuildFails
  PROVE  ReturnInv'
<1>1. sw \in Switches
  BY DEF L2TypeOK
<1>2. /\ sw'.up = sw.up /\ ~sw.up /\ sw'.conf = sw.conf /\ sw'.installed = sw.installed
      /\ sw'.service = sw.service /\ sw'.timer = sw.timer
  BY <1>1 DEF L2!Build, L2!BuildFails, Switches, ReturnInv, Standing
<1>3. UNCHANGED <<cuts, l2view, l2job, untimed>>
  BY DEF L2!Build, L2!BuildFails
<1> QED
  BY <1>2, <1>3 DEF ReturnInv, Standing, Guarded, Planned, Armed, Proven

LEMMA RewireReturns ==
  ASSUME L2TypeOK, ReturnInv, L2!Rewire
  PROVE  ReturnInv'
<1>1. UNCHANGED <<sw, l2view, l2job, untimed>> /\ ~sw.up
  BY DEF L2!Rewire
<1> QED
  BY <1>1 DEF ReturnInv, Standing, Guarded, Planned, Armed, Proven

(* The daemon is enabled at boot and comes up as it was; a timer that ran,  *)
(* or was about to, is gone.                                                *)
LEMMA RebootReturns ==
  ASSUME L2TypeOK, ReturnInv, L2!Reboot
  PROVE  ReturnInv'
<1> DEFINE s == [sw EXCEPT !.timer = FALSE, !.service = sw.installed]
<1>1. /\ s \in Switches /\ s.conf = sw.conf /\ s.installed = sw.installed /\ s.service = sw.installed
      /\ ~s.timer /\ s.mstpd = sw.mstpd
  BY DEF L2TypeOK, Switches
<1>2. sw' = L2!Synced(s) /\ UNCHANGED <<cuts, l2view>> /\ untimed' = (sw.conf.stp /\ (untimed \/ sw.timer \/ Armed))
  BY WindowIs DEF L2!Reboot, L2!Untimed
<1> HIDE DEF s
<1>3. /\ sw'.up <=> sw.installed /\ sw.conf.stp /\ sw.mstpd = "yes"
      /\ sw'.conf = sw.conf /\ sw'.installed = sw.installed /\ sw'.service = sw.installed
      /\ ~sw'.timer /\ sw'.mstpd = sw.mstpd
  BY <1>1, <1>2, SyncedIs
<1>4. l2job'.at # "batch"
  BY IdleIs DEF L2!Reboot
<1> QED
  BY <1>2, <1>3, <1>4 DEF ReturnInv, Standing, Guarded, Planned, Proven

LEMMA PushReturns ==
  ASSUME ReturnInv, NEW p, L2!Push(p)
  PROVE  ReturnInv'
<1>1. UNCHANGED <<sw, cuts, l2view, l2job, untimed>>
  BY DEF L2!Push
<1> QED
  BY <1>1 DEF ReturnInv, Standing, Guarded, Planned, Armed, Proven

LEMMA CollectReturns ==
  ASSUME L2TypeOK, ReturnInv, L2!Collect \/ L2!CollectFails
  PROVE  ReturnInv'
<1>1. l2job = L2!Idle /\ l2view' \in {sw, l2view} /\ UNCHANGED <<sw, cuts, l2job, untimed>>
  BY DEF L2!Collect, L2!CollectFails
<1> QED
  BY <1>1, IdleIs DEF ReturnInv, Standing, Guarded, Planned, Armed, Proven

LEMMA ConfirmReturns ==
  ASSUME L2TypeOK, ReturnInv, L2!Confirm
  PROVE  ReturnInv'
<1>1. sw \in Switches
  BY DEF L2TypeOK
<1>2. /\ sw'.up /\ sw.up /\ sw'.conf = sw.conf /\ sw'.installed = sw.installed
      /\ sw'.service = sw.service /\ ~sw'.timer /\ sw'.mstpd = sw.mstpd
      /\ L2!Reachable /\ l2job.at = "confirm"
  BY <1>1 DEF L2!Confirm, Switches
<1>3. UNCHANGED <<cuts, l2view>> /\ l2job' = L2!Idle
  BY DEF L2!Confirm
<1> QED
  BY <1>2, <1>3, IdleIs DEF ReturnInv, Standing, Guarded, Planned, Proven, L2!Reachable

(* The job ends early: between the config and the timer that is noted.      *)
LEMMA EndReturns ==
  ASSUME L2TypeOK, ReturnInv, L2!NotConfirmed \/ L2!ConnectionLost \/ L2!Crash
  PROVE  ReturnInv'
<1>1. UNCHANGED <<sw, cuts>> /\ l2job' = L2!Idle /\ l2view' \in {l2view, None}
  BY DEF L2!NotConfirmed, L2!ConnectionLost, L2!Crash
<1>2. Armed /\ ~sw.timer => untimed'
  <2>1. CASE L2!NotConfirmed
    BY <2>1, Classes DEF L2!NotConfirmed, Armed
  <2>2. CASE L2!ConnectionLost \/ L2!Crash
    BY <2>2, WindowIs DEF L2!ConnectionLost, L2!Crash, L2!Untimed, Armed
  <2> QED
    BY <2>1, <2>2
<1>3. sw.conf.stp /\ untimed => untimed'
  BY DEF L2!NotConfirmed, L2!ConnectionLost, L2!Crash, L2!Untimed
<1> QED
  BY <1>1, <1>2, <1>3, IdleIs DEF ReturnInv, Standing, Guarded, Planned, Armed, Proven

LEMMA RunOpReturns ==
  ASSUME L2TypeOK, ReturnInv, L2!RunOp
  PROVE  ReturnInv'
<1>1. /\ l2job.ops \in Scripts /\ l2job.ops # <<>> /\ l2job'.at = "batch" /\ l2job.at = "batch"
      /\ l2job'.conf = l2job.conf /\ l2job'.ops = Tail(l2job.ops)
  BY CommandIs DEF L2!RunOp
<1>2. sw \in Switches /\ sw' = L2!After(sw, Head(l2job.ops), l2job.conf)
  BY DEF L2!RunOp, L2TypeOK
<1>3. /\ UNCHANGED <<cuts, l2view>>
      /\ Head(l2job.ops) # "arm" => (untimed' <=> sw'.conf.stp /\ (untimed \/
           (Head(l2job.ops) = "conf" /\ ~sw.conf.stp /\ l2view.service /\ l2view.conf.stp)))
  BY DEF L2!RunOp, L2!Untimed
<1>4. CASE l2job.ops \in ToInstall
  <2>1. Head(l2job.ops) = "install"
    BY <1>1, <1>4, NextCommand
  <2>2. /\ sw'.installed /\ sw'.conf = sw.conf /\ sw'.service = sw.service /\ sw'.up = sw.up
        /\ sw'.timer = sw.timer /\ sw'.mstpd = sw.mstpd
    <3>1. sw' = [sw EXCEPT !.installed = TRUE]
      BY <1>2, <2>1, AfterIs, ZenonT(40)
    <3> QED
      BY <1>2, <3>1, ZenonT(40) DEF Switches
  <2>3. /\ Tail(l2job.ops) \notin ToInstall /\ Tail(l2job.ops) # <<>> /\ l2job.ops \notin Ending
        /\ (l2job.ops \in ToWrite <=> Tail(l2job.ops) \in ToWrite)
        /\ (l2job.ops \in ToArm <=> Tail(l2job.ops) \in ToArm)
    <3>1. /\ Tail(l2job.ops) \notin ToInstall /\ Tail(l2job.ops) \notin Ending \ {<<"start">>}
          /\ (l2job.ops \in ToWrite <=> Tail(l2job.ops) \in ToWrite)
          /\ (l2job.ops \in ToArm <=> Tail(l2job.ops) \in ToArm)
          /\ l2job.ops \in Ending => Head(l2job.ops) = "start"
      BY <1>1, <1>4, NextCommand
    <3>2. <<>> \in Ending \ {<<"start">>}
      BY Classes DEF Ending
    <3> QED
      BY <2>1, <3>1, <3>2
  <2> QED
    BY <1>1, <1>3, <2>1, <2>2, <2>3 DEF ReturnInv, Standing, Guarded, Planned, Armed, Proven
<1>5. CASE l2job.ops \in ToWrite \ ToInstall
  <2>1. Head(l2job.ops) = "conf"
    BY <1>1, <1>5, NextCommand
  <2>2. /\ sw'.conf = l2job.conf /\ sw'.installed = sw.installed /\ sw'.service = sw.service
        /\ sw'.up = sw.up /\ sw'.timer = sw.timer /\ sw'.mstpd = sw.mstpd
    <3>1. sw' = [sw EXCEPT !.conf = l2job.conf]
      BY <1>2, <2>1 DEF L2!After
    <3> QED
      BY <1>2, <3>1 DEF Switches
  <2>3. /\ Tail(l2job.ops) \notin ToWrite /\ Tail(l2job.ops) # <<>> /\ l2job.ops \notin Ending
        /\ (l2job.ops \in ToArm <=> Tail(l2job.ops) \in ToArm)
    BY <1>1, <1>5, <2>1, NextCommand
  <2> QED
    BY <1>1, <1>3, <1>5, <2>1, <2>2, <2>3 DEF ReturnInv, Standing, Guarded, Planned, Armed, Proven
<1>6. CASE Head(l2job.ops) = "disarm" /\ l2job.ops \in ToArm \ (ToInstall \cup ToWrite)
  <2>1. /\ sw'.conf = sw.conf /\ sw'.installed = sw.installed /\ sw'.service = sw.service
        /\ sw'.up = sw.up /\ ~sw'.timer /\ sw'.mstpd = sw.mstpd
    <3>1. sw' = [sw EXCEPT !.timer = FALSE]
      BY <1>2, <1>6, AfterIs, Zenon
    <3> QED
      BY <1>2, <3>1 DEF Switches
  <2>2. Tail(l2job.ops) \in ToArm \ ToWrite /\ Tail(l2job.ops) # <<>>
    <3>1. \/ Head(l2job.ops) = "disarm" /\ Tail(l2job.ops) \in ToArm \ ToWrite
          \/ Head(l2job.ops) = "arm"
      BY <1>1, <1>6, NextCommand
    <3> QED
      BY <1>6, <3>1, Classes
  <2> QED
    BY <1>1, <1>3, <1>6, <2>1, <2>2 DEF ReturnInv, Standing, Guarded, Planned, Armed, Proven
<1>7. CASE Head(l2job.ops) = "arm" /\ l2job.ops \in ToArm \ (ToInstall \cup ToWrite)
  <2>1. /\ sw'.conf = sw.conf /\ sw'.installed = sw.installed /\ sw'.service = sw.service
        /\ sw'.up = sw.up /\ sw'.timer /\ sw'.mstpd = sw.mstpd
    <3>1. sw' = [sw EXCEPT !.timer = TRUE]
      BY <1>2, <1>7, AfterIs, Zenon
    <3> QED
      BY <1>2, <3>1 DEF Switches
  <2>2. Tail(l2job.ops) = <<"start">> /\ <<"start">> \in Ending /\ <<"start">> # <<>>
    BY <1>1, <1>7, NextCommand, Classes DEF Ending
  <2> QED
    BY <1>1, <1>3, <1>7, <2>1, <2>2, Classes DEF ReturnInv, Standing, Guarded, Planned, Armed, Proven
<1>8. CASE l2job.ops \in Ending
  <2>1. Head(l2job.ops) = "start" /\ Tail(l2job.ops) = <<>>
    BY <1>1, <1>8, NextCommand
  <2>2. /\ [sw EXCEPT !.service = TRUE] \in Switches
        /\ sw' = L2!Synced([sw EXCEPT !.service = TRUE])
    BY <1>2, <2>1, AfterIs DEF Switches
  <2>3. /\ sw'.conf = sw.conf /\ sw'.installed = sw.installed /\ sw'.service
        /\ sw'.timer = sw.timer /\ sw'.mstpd = sw.mstpd
        /\ sw'.up <=> sw.conf.stp /\ sw.mstpd = "yes"
    <3> DEFINE s == [sw EXCEPT !.service = TRUE]
    <3>1. /\ s.conf = sw.conf /\ s.installed = sw.installed /\ s.service
          /\ s.timer = sw.timer /\ s.mstpd = sw.mstpd /\ s \in Switches
      BY <1>2 DEF Switches
    <3>2. sw' = L2!Synced(s)
      BY <2>2
    <3> HIDE DEF s
    <3> QED
      BY <3>1, <3>2, SyncedIs
  <2>4. l2job.ops = <<"start">>
    BY <1>1, <1>8 DEF Ending
  <2> QED
    BY <1>1, <1>3, <2>1, <2>3, <2>4, Classes DEF ReturnInv, Standing, Guarded, Planned, Armed, Proven, Ending
<1> QED
  BY <1>1, <1>4, <1>5, <1>6, <1>7, <1>8, NextCommand DEF Scripts

LEMMA CommitReturns ==
  ASSUME L2TypeOK, ReturnInv, L2!Commit
  PROVE  ReturnInv'
<1>1. /\ l2job.at = "batch" /\ l2job.ops = <<>> /\ UNCHANGED <<sw, cuts, untimed>> /\ l2job \in Jobs
      /\ l2job' \in {[l2job EXCEPT !.at = "confirm"], L2!Idle}
  BY DEF L2!Commit, L2TypeOK
<1>2. l2job'.at # "batch"
  BY <1>1, IdleIs DEF Jobs
<1> QED
  BY <1>1, <1>2, Classes DEF ReturnInv, Standing, Guarded, Planned, Armed, Proven

(* The batch applyL2 plans, of either half. *)
LEMMA ApplyReturns ==
  ASSUME L2TypeOK, ReturnInv, l2job = L2!Idle, NEW w \in Wants, NEW s \in [deadman : Nat, off : BOOLEAN],
         L2!ApplyL2(w, s), UNCHANGED <<cuts, l2view, untimed>>
  PROVE  ReturnInv'
<1> DEFINE c == L2!Runnable(L2!Held(w, s))
<1>1. /\ sw'.conf = sw.conf /\ sw'.installed = sw.installed
      /\ sw'.service = sw.service /\ sw'.up = sw.up /\ sw'.timer = sw.timer
      /\ sw.mstpd = "yes" => sw'.mstpd = "yes"
      /\ \/ l2job' = L2!Idle
         \/ /\ l2view # None /\ w.stp # None /\ w.ports # None
            /\ L2!Batch(c) # <<>> /\ l2job' = [at |-> "batch", ops |-> L2!Batch(c), conf |-> c]
  BY ApplyIs
<1>2. CASE l2job' = L2!Idle
  BY <1>1, <1>2, IdleIs DEF ReturnInv, Standing, Guarded, Planned, Armed, Proven
<1>3. CASE /\ l2view # None /\ w.stp # None /\ w.ports # None
           /\ L2!Batch(c) # <<>> /\ l2job' = [at |-> "batch", ops |-> L2!Batch(c), conf |-> c]
  <2>1. l2view \in Switches
    BY <1>3 DEF L2TypeOK
  <2>2. c \in Confs
    BY <1>3, <2>1, ConfIs
  <2> HIDE DEF c
  <2>3. /\ L2!Batch(c) \notin ToInstall => l2view.installed
        /\ L2!Batch(c) \in ToArm <=> c.stp /\ ~(l2view.service /\ l2view.conf.stp)
    BY <1>3, <2>1, <2>2, BatchIs
  <2>4. l2job'.at = "batch" /\ l2job'.ops = L2!Batch(c) /\ l2job'.conf = c
    BY <1>3
  <2> QED
    BY <1>1, <1>3, <2>3, <2>4, IdleIs DEF ReturnInv, Standing, Guarded, Planned, Armed, Proven
<1> QED
  BY <1>1, <1>2, <1>3

LEMMA DeviceReturns ==
  ASSUME L2TypeOK, ReturnInv, L2!ApplyDevice
  PROVE  ReturnInv'
<1> DEFINE s == [seen EXCEPT !.off = seen.off \/ ~intent.stp]
<1>1. l2job = L2!Idle /\ UNCHANGED <<cuts, l2view, untimed>> /\ L2!ApplyL2(want', s)
  BY DEF L2!ApplyDevice
<1>2. want' \in Wants /\ s \in [deadman : Nat, off : BOOLEAN]
  BY DEF L2!ApplyDevice, L2TypeOK, Wants, L2!Intents
<1> HIDE DEF s
<1> QED
  BY <1>1, <1>2, ApplyReturns

LEMMA PortsReturns ==
  ASSUME L2TypeOK, ReturnInv, L2!ApplyPorts
  PROVE  ReturnInv'
<1>1. l2job = L2!Idle /\ UNCHANGED <<cuts, l2view, untimed>> /\ L2!ApplyL2(want', seen)
  BY DEF L2!ApplyPorts
<1>2. want' \in Wants /\ seen \in [deadman : Nat, off : BOOLEAN]
  BY DEF L2!ApplyPorts, L2TypeOK, Wants, L2!Intents
<1> QED
  BY <1>1, <1>2, ApplyReturns

LEMMA L2InitReturns == L2!Init => ReturnInv
<1> SUFFICES ASSUME L2!Init PROVE ReturnInv
  OBVIOUS
<1>1. PICK mstpd \in {"", "yes"} :
        sw = [conf |-> L2!NoConf, installed |-> FALSE, service |-> FALSE, up |-> FALSE,
              timer |-> FALSE, mstpd |-> mstpd, fired |-> 0]
  BY Zenon DEF L2!Init
<1>2. l2job = L2!Idle /\ l2view = None
  BY Zenon DEF L2!Init
<1> QED
  BY <1>1, <1>2, IdleIs DEF L2!NoConf, ReturnInv, Standing, Guarded, Planned, Armed, Proven

LEMMA L2NextReturns ==
  ASSUME L2TypeOK, ReturnInv, L2!Next
  PROVE  ReturnInv'
BY SyncReturns, DeadmanReturns, BuildReturns, RewireReturns, RebootReturns, PushReturns, CollectReturns,
   DeviceReturns, PortsReturns, RunOpReturns, CommitReturns, ConfirmReturns, EndReturns,
   Zenon DEF L2!Next

---------------------------------------------------------------------------
(* What the dead-man undid stays down. *)

LEMMA L2InitDown == L2!Init => DownInv
<1> SUFFICES ASSUME L2!Init PROVE DownInv
  OBVIOUS
<1>1. sw.fired = 0 /\ sw.conf.deadman = 0
  <2>1. PICK mstpd \in {"", "yes"} :
          sw = [conf |-> L2!NoConf, installed |-> FALSE, service |-> FALSE, up |-> FALSE,
                timer |-> FALSE, mstpd |-> mstpd, fired |-> 0]
    BY Zenon DEF L2!Init
  <2> QED
    BY <2>1, IdleIs
<1>2. l2job = L2!Idle /\ l2view = None /\ turn = "collect" /\ seen.deadman = 0
  BY DEF L2!Init
<1>3. Numbered /\ Marked
  BY <1>1, <1>2, IdleIs DEF Numbered, Marked
<1> QED
  BY <1>2, <1>3 DEF DownInv

(* What else the steps do: they leave firings and marks alone. *)
LEMMA QuietDown ==
  ASSUME L2TypeOK, DownInv,
         sw'.fired = sw.fired, sw'.conf = sw.conf, sw'.up => sw.up \/ sw.conf.stp,
         UNCHANGED <<intent, want, seen, l2view, turn, asked>>, unmarked => unmarked',
         UNCHANGED l2job \/ (l2job' = L2!Idle) \/ (l2job'.at = "batch" /\ l2job.at = "batch" /\ l2job'.conf = l2job.conf)
  PROVE  DownInv'
<1>1. /\ l2job'.conf.deadman = l2job.conf.deadman \/ l2job'.conf.deadman = 0
      /\ l2job'.at = "batch" => l2job.at = "batch" /\ l2job'.conf = l2job.conf
  BY IdleIs
<1>2. sw.fired \in Nat
  BY DEF L2TypeOK, Switches
<1>3. Numbered'
  BY <1>1, <1>2 DEF DownInv, Numbered
<1>4. Marked'
  BY <1>1 DEF DownInv, Marked
<1> QED
  BY <1>3, <1>4 DEF DownInv

LEMMA FiresDown ==
  ASSUME L2TypeOK, DownInv, L2!Deadman
  PROVE  DownInv'
<1>1. /\ ~sw'.up /\ sw'.fired = sw.fired + 1
      /\ ~sw'.conf.stp /\ sw'.conf.deadman = sw.fired + 1
  BY FiredIs
<1>2. UNCHANGED <<intent, want, seen, l2view, turn, l2job>> /\ asked' = ~intent.stp
  BY DEF L2!Deadman
<1>3. /\ sw.fired \in Nat /\ seen.deadman \in Nat /\ l2job.conf.deadman \in Nat
      /\ l2view # None => l2view.conf.deadman \in Nat
  BY DEF L2TypeOK, Switches, Jobs, Confs
<1>4. /\ sw.conf.deadman <= sw.fired /\ seen.deadman <= sw.fired /\ l2job.conf.deadman <= sw.fired
      /\ l2view # None => l2view.conf.deadman <= sw.fired
  BY DEF DownInv, Numbered
<1>5. Numbered'
  BY <1>1, <1>2, <1>3, <1>4 DEF Numbered
<1>6. ~asked' => intent.stp
  BY <1>2 DEF L2TypeOK, L2!Intents
<1>7. seen.deadman # sw.fired + 1 /\ (l2job.at = "batch" => l2view.conf.deadman # sw.fired + 1)
  BY <1>3, <1>4 DEF L2TypeOK
<1>8. Marked'
  BY <1>1, <1>2, <1>6, <1>7 DEF Marked
<1> QED
  BY <1>2, <1>5, <1>8 DEF DownInv

LEMMA PushDown ==
  ASSUME L2TypeOK, DownInv, NEW p \in L2!Intents, L2!Push(p)
  PROVE  DownInv'
<1>1. /\ UNCHANGED <<sw, want, seen, l2view, turn, l2job, unmarked>> /\ turn = "device"
      /\ intent' = p /\ asked' = (asked \/ ~p.stp) /\ p.stp \in BOOLEAN
  BY DEF L2!Push, L2!Intents
<1> QED
  BY <1>1 DEF DownInv, Numbered, Marked

LEMMA CollectDown ==
  ASSUME L2TypeOK, DownInv, L2!Collect \/ L2!CollectFails
  PROVE  DownInv'
<1>1. /\ turn' = "device" /\ l2job = L2!Idle /\ l2view' \in {sw, l2view}
      /\ UNCHANGED <<sw, intent, want, seen, l2job, asked, unmarked>>
  BY DEF L2!Collect, L2!CollectFails
<1> QED
  BY <1>1, IdleIs DEF DownInv, Numbered, Marked

LEMMA CrashDown ==
  ASSUME L2TypeOK, DownInv, L2!Crash
  PROVE  DownInv'
<1>1. /\ UNCHANGED <<sw, intent, asked, unmarked>> /\ l2job' = L2!Idle /\ l2view' = None /\ turn' = "collect"
      /\ seen'.deadman = 0
  BY DEF L2!Crash
<1>2. sw.fired \in Nat
  BY DEF L2TypeOK, Switches
<1> QED
  BY <1>1, <1>2, IdleIs DEF DownInv, Numbered, Marked

(* What the driver plans on a view that has the mark keeps it: an off from  *)
(* before does not count.                                                   *)
LEMMA ApplyDown ==
  ASSUME L2TypeOK, DownInv, l2job = L2!Idle,
         NEW w \in Wants, w.stp = intent.stp,
         NEW s \in [deadman : Nat, off : BOOLEAN], s.deadman = seen.deadman,
         s.off => seen.off \/ ~intent.stp,
         L2!ApplyL2(w, s), UNCHANGED <<intent, l2view, asked, unmarked>>,
         turn' = "ports" => want'.stp = intent.stp
  PROVE  DownInv'
<1> DEFINE c == L2!Runnable(L2!Held(w, s))
           seen2 == L2!Latch(w, s)
<1>1. /\ sw'.conf = sw.conf /\ sw'.up = sw.up /\ sw'.fired = sw.fired
      /\ seen' \in [deadman : Nat, off : BOOLEAN]
      /\ seen' = s \/ (l2view # None /\ seen' = seen2)
      /\ \/ l2job' = L2!Idle
         \/ /\ l2view # None /\ w.stp # None /\ w.ports # None
            /\ l2job' = [at |-> "batch", ops |-> L2!Batch(c), conf |-> c]
  BY ApplyIs
<1>2. l2view # None => l2view \in Switches
  BY DEF L2TypeOK
<1>3. l2view # None =>
        /\ seen2 \in [deadman : Nat, off : BOOLEAN]
        /\ seen2 = s \/ seen2.deadman = l2view.conf.deadman
        /\ seen2.off => s.off /\ seen2 = s
        /\ seen2 = s => l2view.conf.deadman \in {0, s.deadman}
  BY <1>2, LatchIs
<1>4. l2view # None /\ w.stp # None /\ w.ports # None =>
        /\ c \in Confs /\ w.stp \in BOOLEAN
        /\ c.stp <=> w.stp /\ l2view.mstpd = "yes" /\ ~(l2view.conf.deadman # 0 /\ w.stp /\ ~seen2.off)
        /\ (l2view.conf.deadman # 0 /\ w.stp /\ ~seen2.off) => c.deadman = l2view.conf.deadman
        /\ ~(l2view.conf.deadman # 0 /\ w.stp /\ ~seen2.off) => c.deadman = 0
  BY <1>2, ConfIs
<1> HIDE DEF c, seen2
<1>5. /\ sw.fired \in Nat /\ 0 <= sw.fired
      /\ sw.conf.deadman <= sw.fired /\ seen.deadman <= sw.fired
      /\ l2view # None => l2view.conf.deadman <= sw.fired
  <2>1. sw.fired \in Nat
    BY DEF L2TypeOK, Switches
  <2> QED
    BY <2>1 DEF DownInv, Numbered
<1>6. Numbered'
  <2>1. l2job'.conf.deadman <= sw.fired
    BY <1>1, <1>4, <1>5, IdleIs
  <2>2. seen'.deadman <= sw.fired
    BY <1>1, <1>3, <1>5
  <2> QED
    BY <1>1, <1>5, <2>1, <2>2 DEF Numbered
<1>7. ASSUME sw.fired > 0, ~asked, ~unmarked
      PROVE  /\ l2job'.at = "batch" /\ l2view.conf.deadman = sw.fired => ~l2job'.conf.stp /\ l2job'.conf.deadman = sw.fired
             /\ seen'.deadman = sw.fired => ~seen'.off
  <2>1. intent.stp /\ (seen.deadman = sw.fired => ~seen.off)
    BY <1>7 DEF DownInv, Marked
  <2>2. s.deadman = sw.fired => ~s.off
    BY <2>1
  <2>3. l2view # None => (seen2.deadman = sw.fired => ~seen2.off)
    BY <1>3, <2>2
  <2>4. l2view # None /\ l2view.conf.deadman = sw.fired => ~seen2.off /\ l2view.conf.deadman # 0
    BY <1>3, <1>5, <1>7, <2>2
  <2>5. l2view # None /\ w.stp # None /\ w.ports # None /\ l2view.conf.deadman = sw.fired => ~c.stp /\ c.deadman = sw.fired
    BY <1>4, <2>1, <2>4
  <2> QED
    BY <1>1, <2>2, <2>3, <2>5, IdleIs
<1>8. Marked'
  BY <1>1, <1>7 DEF DownInv, Marked
<1> QED
  BY <1>6, <1>8 DEF DownInv

LEMMA L2NextDown ==
  ASSUME L2TypeOK, DownInv, L2!Next
  PROVE  DownInv'
<1>0. sw \in Switches
  BY DEF L2TypeOK
<1>1. CASE L2!Sync
  <2>1. sw'.fired = sw.fired /\ sw'.conf = sw.conf /\ (sw'.up => sw.conf.stp)
    BY <1>0, <1>1, SyncedIs DEF L2!Sync
  <2> QED
    BY <1>1, <2>1, QuietDown DEF L2!Sync
<1>2. CASE L2!Build \/ L2!BuildFails
  <2>1. sw'.fired = sw.fired /\ sw'.conf = sw.conf /\ sw'.up = sw.up
    BY <1>0, <1>2 DEF L2!Build, L2!BuildFails, Switches
  <2>2. UNCHANGED <<intent, want, seen, l2view, turn, asked, unmarked, l2job>>
    BY <1>2 DEF L2!Build, L2!BuildFails
  <2> QED
    BY <2>1, <2>2, QuietDown
<1>3. CASE L2!Rewire
  BY <1>3, QuietDown DEF L2!Rewire
<1>4. CASE L2!Reboot
  <2> DEFINE s == [sw EXCEPT !.timer = FALSE, !.service = sw.installed]
  <2>1. s \in Switches /\ s.conf = sw.conf /\ s.fired = sw.fired
    BY <1>0 DEF Switches
  <2>2. sw' = L2!Synced(s)
    BY <1>4 DEF L2!Reboot
  <2> HIDE DEF s
  <2>3. sw'.fired = sw.fired /\ sw'.conf = sw.conf /\ (sw'.up => sw.conf.stp)
    BY <2>1, <2>2, SyncedIs
  <2> QED
    BY <1>4, <2>3, QuietDown DEF L2!Reboot
<1>5. CASE L2!Confirm
  <2>1. sw'.fired = sw.fired /\ sw'.conf = sw.conf /\ sw'.up = sw.up
    BY <1>0, <1>5 DEF L2!Confirm, Switches
  <2> QED
    BY <1>5, <2>1, QuietDown DEF L2!Confirm
<1>6. CASE L2!NotConfirmed \/ L2!ConnectionLost
  BY <1>6, QuietDown DEF L2!NotConfirmed, L2!ConnectionLost
<1>7. CASE L2!ApplyDevice
  <2> DEFINE s == [seen EXCEPT !.off = seen.off \/ ~intent.stp]
  <2>1. /\ want' \in Wants /\ want'.stp = intent.stp /\ intent.stp \in BOOLEAN
        /\ s \in [deadman : Nat, off : BOOLEAN] /\ s.deadman = seen.deadman
        /\ s.off => seen.off \/ ~intent.stp
    BY <1>7 DEF L2!ApplyDevice, L2TypeOK, Wants, L2!Intents
  <2>2. /\ l2job = L2!Idle /\ L2!ApplyL2(want', s)
        /\ UNCHANGED <<intent, l2view, asked, unmarked>>
    BY <1>7 DEF L2!ApplyDevice
  <2> HIDE DEF s
  <2> QED
    BY <2>1, <2>2, ApplyDown
<1>8. CASE L2!ApplyPorts
  <2>1. want' \in Wants /\ want'.stp = want.stp /\ seen \in [deadman : Nat, off : BOOLEAN]
    BY <1>8 DEF L2!ApplyPorts, L2TypeOK, Wants, L2!Intents
  <2>2. /\ turn = "ports" /\ turn' = "collect" /\ l2job = L2!Idle /\ L2!ApplyL2(want', seen)
        /\ UNCHANGED <<intent, l2view, asked, unmarked>> /\ want.stp = intent.stp
    BY <1>8 DEF L2!ApplyPorts, DownInv
  <2> QED
    BY <2>1, <2>2, ApplyDown
<1>9. CASE L2!RunOp
  <2>1. /\ Head(l2job.ops) \in {"install", "conf", "disarm", "arm", "start"}
        /\ l2job'.at = "batch" /\ l2job.at = "batch" /\ l2job'.conf = l2job.conf /\ l2job.conf \in Confs
    BY <1>9, CommandIs DEF L2!RunOp
  <2>2. /\ sw' = L2!After(sw, Head(l2job.ops), l2job.conf) /\ UNCHANGED <<intent, want, seen, l2view, turn, asked>>
        /\ unmarked => unmarked'
        /\ Head(l2job.ops) = "conf" /\ ~unmarked' => ~unmarked /\ sw.conf.deadman \in {0, l2view.conf.deadman}
    BY <1>9 DEF L2!RunOp
  <2>3. CASE Head(l2job.ops) = "conf"
    <3>1. sw' = [sw EXCEPT !.conf = l2job.conf]
      BY <2>2, <2>3 DEF L2!After
    <3>2. sw'.conf = l2job.conf /\ sw'.up = sw.up /\ sw'.fired = sw.fired
      BY <1>0, <3>1 DEF Switches
    <3>3. sw.fired \in Nat
      BY <1>0 DEF Switches
    <3> QED
      BY <2>1, <2>2, <2>3, <3>2, <3>3 DEF DownInv, Numbered, Marked
  <2>4. CASE Head(l2job.ops) = "install"
    <3>1. sw' = [sw EXCEPT !.installed = TRUE]
      BY <2>2, <2>4 DEF L2!After
    <3>2. sw'.conf = sw.conf /\ sw'.up = sw.up /\ sw'.fired = sw.fired
      BY <1>0, <3>1 DEF Switches
    <3> QED
      BY <2>1, <2>2, <3>2, QuietDown
  <2>5. CASE Head(l2job.ops) \in {"disarm", "arm"}
    <3>1. sw' = [sw EXCEPT !.timer = FALSE] \/ sw' = [sw EXCEPT !.timer = TRUE]
      BY <2>2, <2>5 DEF L2!After
    <3>2. sw'.conf = sw.conf /\ sw'.up = sw.up /\ sw'.fired = sw.fired
      BY <1>0, <3>1 DEF Switches
    <3> QED
      BY <2>1, <2>2, <3>2, QuietDown
  <2>6. CASE Head(l2job.ops) = "start"
    <3> DEFINE s == [sw EXCEPT !.service = TRUE]
    <3>1. s \in Switches /\ s.conf = sw.conf /\ s.fired = sw.fired
      BY <1>0 DEF Switches
    <3>2. sw' = L2!Synced(s)
      BY <2>2, <2>6, AfterIs
    <3> HIDE DEF s
    <3>3. sw'.fired = sw.fired /\ sw'.conf = sw.conf /\ (sw'.up => sw.conf.stp)
      BY <3>1, <3>2, SyncedIs
    <3> QED
      BY <2>1, <2>2, <3>3, QuietDown
  <2> QED
    BY <2>1, <2>3, <2>4, <2>5, <2>6
<1>10. CASE L2!Commit
  <2>1. /\ l2job.at = "batch" /\ UNCHANGED <<sw, intent, want, seen, turn, asked, unmarked>>
        /\ l2view \in Switches /\ l2job \in Jobs
        /\ l2view' = [l2view EXCEPT !.conf = l2job.conf, !.installed = TRUE, !.service = TRUE]
        /\ l2job' = [l2job EXCEPT !.at = "confirm"] \/ l2job' = L2!Idle
    BY <1>10 DEF L2!Commit, L2TypeOK
  <2>2. l2view'.conf = l2job.conf
    BY <2>1 DEF Switches
  <2>3. l2job'.at # "batch" /\ (l2job'.conf = l2job.conf \/ l2job'.conf.deadman = 0)
    BY <2>1, IdleIs DEF Jobs
  <2>4. sw.fired \in Nat
    BY <1>0 DEF Switches
  <2> QED
    BY <2>1, <2>2, <2>3, <2>4 DEF DownInv, Numbered, Marked
<1> QED
  BY <1>1, <1>2, <1>3, <1>4, <1>5, <1>6, <1>7, <1>8, <1>9, <1>10, FiresDown, PushDown, CollectDown, CrashDown,
     Zenon DEF L2!Next

---------------------------------------------------------------------------
(* The time, log and SNMP servers: types. *)

Entry == [host : Hosts \cup Addr, port : Nat \ {0}]
Servers == Seq(Entry)
PortMap == [Addr -> Nat]
Pinned == [Hosts -> Addr \cup {NoAddr}]
Tables == [ntp : PortMap, syslog : PortMap, snmp : SUBSET Communities]
PinSets == [Device!Kinds -> Pinned]
ServerOps(k) ==
  [op : {"add"}, kind : {k}, ip : Addr, port : Nat \ {0}] \cup [op : {"del"}, kind : {k}, ip : Addr]
NameOp == {"community add", "community del"}
NameOps == [op : NameOp, name : Communities]
Commands == ServerOps("ntp") \cup ServerOps("syslog") \cup NameOps
Views == [cfg : Tables, yml : SUBSET Communities, known : BOOLEAN, fresh : BOOLEAN]
DeviceJobs == [at : {"idle", "yml", "batch"}, ops : Seq(Commands), drop : SUBSET Communities, sim : Tables, pins : PinSets]

LEMMA KindIs ==
  ASSUME NEW k \in Device!Kinds
  PROVE  k = "ntp" \/ k = "syslog"
  BY DEF Device!Kinds

LEMMA TableOf ==
  ASSUME NEW c \in Tables, NEW k \in Device!Kinds
  PROVE  c[k] \in PortMap
  BY KindIs DEF Tables

LEMMA PushIs ==
  ASSUME NEW p \in Pushes, NEW k \in Device!Kinds
  PROVE  p[k] \in Servers
  BY ServersAssumption DEF Servers, Entry, Device!Kinds

---------------------------------------------------------------------------
(* What a list of commands leads to.  For a server, the last command about   *)
(* its address says what it ends with; the communities end as wanted if      *)
(* each that differs has its command and no command is about another.        *)

Touches(o, k, a) == o.op \in {"add", "del"} /\ o.kind = k /\ o.ip = a
ValueOf(o) == IF o.op = "add" THEN o.port ELSE 0

Ends(ops, k, from, to) ==
  \A a \in Addr :
    /\ (\A i \in DOMAIN ops : ~Touches(ops[i], k, a)) => to[a] = from[a]
    /\ \A i \in DOMAIN ops :
         Touches(ops[i], k, a) /\ (\A j \in DOMAIN ops : j > i => ~Touches(ops[j], k, a)) => to[a] = ValueOf(ops[i])

Names(ops, op) == {ops[i].name : i \in {j \in DOMAIN ops : ops[j].op = op}}

CommunitiesEnd(ops, from, to, imported) ==
  /\ imported \subseteq to
  /\ Names(ops, "community add") \subseteq to
  /\ Names(ops, "community del") \cap to = {}
  /\ from \ to \subseteq Names(ops, "community del")
  /\ to \ from \subseteq Names(ops, "community add")

Leads(ops, c, s, imported) ==
  /\ Ends(ops, "ntp", c.ntp, s.ntp)
  /\ Ends(ops, "syslog", c.syslog, s.syslog)
  /\ CommunitiesEnd(ops, c.snmp, s.snmp, imported)

LEMMA ConcatIs ==
  ASSUME NEW S, NEW p \in Seq(S), NEW q \in Seq(S)
  PROVE  /\ p \o q \in Seq(S) /\ Len(p \o q) = Len(p) + Len(q)
         /\ DOMAIN p = 1..Len(p) /\ DOMAIN q = 1..Len(q) /\ DOMAIN (p \o q) = 1..Len(p) + Len(q)
         /\ Len(p) \in Nat /\ Len(q) \in Nat
         /\ \A i \in 1..Len(p) : (p \o q)[i] = p[i]
         /\ \A i \in 1..Len(q) : Len(p) + i \in DOMAIN (p \o q) /\ (p \o q)[Len(p) + i] = q[i]
         /\ \A i \in DOMAIN (p \o q) : i \in DOMAIN p \/ (i > Len(p) /\ i - Len(p) \in DOMAIN q /\ (p \o q)[i] = q[i - Len(p)])
  OBVIOUS

LEMMA EndsJoin ==
  ASSUME NEW S, NEW p \in Seq(S), NEW q \in Seq(S), NEW k, NEW from, NEW mid, NEW to,
         Ends(p, k, from, mid), Ends(q, k, mid, to)
  PROVE  Ends(p \o q, k, from, to)
<1> DEFINE r == p \o q
<1>0. /\ DOMAIN p = 1..Len(p) /\ DOMAIN q = 1..Len(q) /\ DOMAIN r = 1..Len(p) + Len(q)
      /\ Len(p) \in Nat /\ Len(q) \in Nat
      /\ \A i \in DOMAIN p : i \in DOMAIN r /\ r[i] = p[i]
      /\ \A i \in DOMAIN q : Len(p) + i \in DOMAIN r /\ r[Len(p) + i] = q[i]
      /\ \A i \in DOMAIN r : i \in DOMAIN p \/ (i > Len(p) /\ i - Len(p) \in DOMAIN q /\ r[i] = q[i - Len(p)])
  BY ConcatIs
<1> HIDE DEF r
<1> SUFFICES ASSUME NEW a \in Addr
             PROVE  /\ (\A i \in DOMAIN r : ~Touches(r[i], k, a)) => to[a] = from[a]
                    /\ \A i \in DOMAIN r :
                         Touches(r[i], k, a) /\ (\A j \in DOMAIN r : j > i => ~Touches(r[j], k, a)) => to[a] = ValueOf(r[i])
  BY DEF Ends, r
<1>1. ASSUME \A i \in DOMAIN r : ~Touches(r[i], k, a) PROVE to[a] = from[a]
  <2>1. \A i \in DOMAIN p : ~Touches(p[i], k, a)
    BY <1>0, <1>1
  <2>2. \A i \in DOMAIN q : ~Touches(q[i], k, a)
    BY <1>0, <1>1
  <2> QED
    BY <2>1, <2>2 DEF Ends
<1>2. ASSUME NEW i \in DOMAIN r, Touches(r[i], k, a), \A j \in DOMAIN r : j > i => ~Touches(r[j], k, a)
      PROVE  to[a] = ValueOf(r[i])
  <2>1. CASE i \in DOMAIN p
    <3>1. r[i] = p[i] /\ \A j \in DOMAIN p : j > i => ~Touches(p[j], k, a)
      BY <1>0, <1>2, <2>1
    <3>2. ASSUME NEW j \in DOMAIN q PROVE ~Touches(q[j], k, a)
      <4>1. Len(p) + j \in DOMAIN r /\ Len(p) + j > i /\ r[Len(p) + j] = q[j]
        BY <1>0, <2>1
      <4> QED
        BY <1>2, <4>1
    <3>3. mid[a] = ValueOf(p[i])
      BY <1>2, <2>1, <3>1 DEF Ends
    <3>4. to[a] = mid[a]
      BY <3>2 DEF Ends
    <3> QED
      BY <3>1, <3>3, <3>4
  <2>2. CASE i \notin DOMAIN p
    <3>1. i > Len(p) /\ i - Len(p) \in DOMAIN q /\ r[i] = q[i - Len(p)]
      BY <1>0, <2>2
    <3>2. PICK n \in DOMAIN q : n = i - Len(p)
      BY <3>1
    <3>3. ASSUME NEW j \in DOMAIN q, j > n PROVE ~Touches(q[j], k, a)
      <4>1. Len(p) + j \in DOMAIN r /\ Len(p) + j > i /\ r[Len(p) + j] = q[j]
        BY <1>0, <3>2, <3>3
      <4> QED
        BY <1>2, <4>1
    <3>4. Touches(q[n], k, a) /\ r[i] = q[n]
      BY <1>2, <3>1, <3>2
    <3>5. to[a] = ValueOf(q[n])
      BY <3>3, <3>4 DEF Ends
    <3> QED
      BY <3>4, <3>5
  <2> QED
    BY <2>1, <2>2
<1> QED
  BY <1>1, <1>2

\* Commands that are not about servers of kind k leave them.
LEMMA EndsApart ==
  ASSUME NEW ops, NEW k, NEW from, \A i \in DOMAIN ops : ops[i].op \in {"add", "del"} => ops[i].kind # k
  PROVE  Ends(ops, k, from, from)
  BY DEF Ends, Touches

LEMMA EndsOne ==
  ASSUME NEW o, NEW k, NEW from \in PortMap, o.op \in {"add", "del"}, o.kind = k, o.ip \in Addr
  PROVE  Ends(<<o>>, k, from, [from EXCEPT ![o.ip] = ValueOf(o)])
<1>1. DOMAIN <<o>> = {1} /\ <<o>>[1] = o
  OBVIOUS
<1> QED
  BY <1>1 DEF Ends, Touches, PortMap

LEMMA EndsNone ==
  ASSUME NEW k, NEW from \in PortMap, NEW to \in PortMap
  PROVE  Ends(<<>>, k, from, to) <=> to = from
<1>1. DOMAIN <<>> = {}
  OBVIOUS
<1> QED
  BY <1>1 DEF Ends, PortMap

\* The first command is done.
LEMMA EndsTail ==
  ASSUME NEW S, NEW ops \in Seq(S), ops # <<>>, NEW k, NEW from \in PortMap, NEW mid \in PortMap, NEW to,
         Ends(ops, k, from, to), Head(ops).op \in {"add", "del"} /\ Head(ops).kind = k => Head(ops).ip \in Addr,
         mid = IF Head(ops).op \in {"add", "del"} /\ Head(ops).kind = k
               THEN [from EXCEPT ![Head(ops).ip] = ValueOf(Head(ops))] ELSE from
  PROVE  Ends(Tail(ops), k, mid, to)
<1> DEFINE t == Tail(ops)
<1>0. /\ DOMAIN ops = 1..Len(ops) /\ DOMAIN t = 1..Len(ops) - 1 /\ Len(ops) \in Nat /\ 1 \in DOMAIN ops
      /\ \A i \in DOMAIN t : i + 1 \in DOMAIN ops /\ t[i] = ops[i + 1]
      /\ \A i \in DOMAIN ops : i = 1 \/ (i - 1 \in DOMAIN t /\ t[i - 1] = ops[i])
      /\ Head(ops) = ops[1]
  OBVIOUS
<1> HIDE DEF t
<1> SUFFICES ASSUME NEW a \in Addr
             PROVE  /\ (\A i \in DOMAIN t : ~Touches(t[i], k, a)) => to[a] = mid[a]
                    /\ \A i \in DOMAIN t :
                         Touches(t[i], k, a) /\ (\A j \in DOMAIN t : j > i => ~Touches(t[j], k, a)) => to[a] = ValueOf(t[i])
  BY DEF Ends, t
<1>1. ASSUME \A i \in DOMAIN t : ~Touches(t[i], k, a) PROVE to[a] = mid[a]
  <2>1. \A i \in DOMAIN ops : i > 1 => ~Touches(ops[i], k, a)
    BY <1>0, <1>1
  <2>2. CASE Touches(ops[1], k, a)
    <3>1. to[a] = ValueOf(ops[1])
      BY <1>0, <2>1, <2>2 DEF Ends
    <3>2. mid[a] = ValueOf(ops[1])
      BY <1>0, <2>2 DEF Touches, PortMap
    <3> QED
      BY <3>1, <3>2
  <2>3. CASE ~Touches(ops[1], k, a)
    <3>1. to[a] = from[a]
      BY <1>0, <2>1, <2>3 DEF Ends
    <3>2. mid[a] = from[a]
      BY <1>0, <2>3 DEF Touches, PortMap
    <3> QED
      BY <3>1, <3>2
  <2> QED
    BY <2>2, <2>3
<1>2. ASSUME NEW i \in DOMAIN t, Touches(t[i], k, a), \A j \in DOMAIN t : j > i => ~Touches(t[j], k, a)
      PROVE  to[a] = ValueOf(t[i])
  <2>1. PICK n \in DOMAIN ops : n = i + 1 /\ ops[n] = t[i]
    BY <1>0
  <2>2. ASSUME NEW j \in DOMAIN ops, j > n PROVE ~Touches(ops[j], k, a)
    <3>1. j - 1 \in DOMAIN t /\ t[j - 1] = ops[j] /\ j - 1 > i
      BY <1>0, <2>1, <2>2
    <3> QED
      BY <1>2, <3>1
  <2> QED
    BY <1>2, <2>1, <2>2 DEF Ends
<1> QED
  BY <1>1, <1>2

LEMMA NamesTail ==
  ASSUME NEW S, NEW ops \in Seq(S), ops # <<>>, NEW op
  PROVE  Names(ops, op) = Names(Tail(ops), op) \cup (IF Head(ops).op = op THEN {Head(ops).name} ELSE {})
<1> DEFINE t == Tail(ops)
<1>0. /\ 1 \in DOMAIN ops /\ Head(ops) = ops[1]
      /\ \A i \in DOMAIN t : i + 1 \in DOMAIN ops /\ t[i] = ops[i + 1]
      /\ \A i \in DOMAIN ops : i = 1 \/ (i - 1 \in DOMAIN t /\ t[i - 1] = ops[i])
  OBVIOUS
<1> HIDE DEF t
<1>1. ASSUME NEW n \in Names(ops, op) PROVE n \in Names(t, op) \/ (Head(ops).op = op /\ n = Head(ops).name)
  <2>1. PICK i \in DOMAIN ops : ops[i].op = op /\ n = ops[i].name
    BY DEF Names
  <2> QED
    BY <1>0, <2>1 DEF Names
<1>2. ASSUME NEW n \in Names(t, op) PROVE n \in Names(ops, op)
  <2>1. PICK i \in DOMAIN t : t[i].op = op /\ n = t[i].name
    BY DEF Names
  <2> QED
    BY <1>0, <2>1 DEF Names
<1>3. Head(ops).op = op => Head(ops).name \in Names(ops, op)
  BY <1>0 DEF Names
<1> QED
  BY <1>1, <1>2, <1>3 DEF t

LEMMA NamesJoin ==
  ASSUME NEW S, NEW p \in Seq(S), NEW q \in Seq(S), NEW op
  PROVE  Names(p \o q, op) = Names(p, op) \cup Names(q, op)
<1> DEFINE r == p \o q
<1>0. /\ \A i \in DOMAIN p : i \in DOMAIN r /\ r[i] = p[i]
      /\ \A i \in DOMAIN q : Len(p) + i \in DOMAIN r /\ r[Len(p) + i] = q[i]
      /\ \A i \in DOMAIN r : (i \in DOMAIN p /\ r[i] = p[i]) \/ (i - Len(p) \in DOMAIN q /\ r[i] = q[i - Len(p)])
  BY ConcatIs
<1> HIDE DEF r
<1>1. ASSUME NEW n \in Names(r, op) PROVE n \in Names(p, op) \/ n \in Names(q, op)
  <2>1. PICK i \in DOMAIN r : r[i].op = op /\ n = r[i].name
    BY DEF Names
  <2> QED
    BY <1>0, <2>1 DEF Names
<1>2. ASSUME NEW n \in Names(p, op) PROVE n \in Names(r, op)
  <2>1. PICK i \in DOMAIN p : p[i].op = op /\ n = p[i].name
    BY DEF Names
  <2> QED
    BY <1>0, <2>1 DEF Names
<1>3. ASSUME NEW n \in Names(q, op) PROVE n \in Names(r, op)
  <2>1. PICK i \in DOMAIN q : q[i].op = op /\ n = q[i].name
    BY DEF Names
  <2> QED
    BY <1>0, <2>1 DEF Names
<1> QED
  BY <1>1, <1>2, <1>3 DEF r

---------------------------------------------------------------------------
(* One command on the switch. *)

LEMMA ThenIs ==
  ASSUME NEW c \in Tables, NEW o \in Commands, yml \subseteq Communities
  PROVE  LET d == Device!After(c, o) IN
         /\ d \in Tables
         /\ d.ntp = IF o.op \in {"add", "del"} /\ o.kind = "ntp" THEN [c.ntp EXCEPT ![o.ip] = ValueOf(o)] ELSE c.ntp
         /\ d.syslog = IF o.op \in {"add", "del"} /\ o.kind = "syslog" THEN [c.syslog EXCEPT ![o.ip] = ValueOf(o)] ELSE c.syslog
         /\ d.snmp = IF o.op = "community add" THEN c.snmp \cup {o.name} \cup yml
                     ELSE IF o.op = "community del" THEN (c.snmp \ {o.name}) \cup yml ELSE c.snmp
<1>1. CASE o \in ServerOps("ntp")
  <2>1. o.op \in {"add", "del"} /\ o.kind = "ntp" /\ o.ip \in Addr /\ (o.op = "add" => o.port \in Nat)
    BY <1>1 DEF ServerOps
  <2>2. Device!After(c, o) = [c EXCEPT !.ntp = [c.ntp EXCEPT ![o.ip] = ValueOf(o)]]
    BY <2>1 DEF Device!After, ValueOf, Tables
  <2>3. [c.ntp EXCEPT ![o.ip] = ValueOf(o)] \in PortMap
    BY <2>1 DEF ValueOf, Tables, PortMap
  <2> QED
    BY <2>1, <2>2, <2>3 DEF Tables
<1>2. CASE o \in ServerOps("syslog")
  <2>1. o.op \in {"add", "del"} /\ o.kind = "syslog" /\ o.ip \in Addr /\ (o.op = "add" => o.port \in Nat)
    BY <1>2 DEF ServerOps
  <2>2. Device!After(c, o) = [c EXCEPT !.syslog = [c.syslog EXCEPT ![o.ip] = ValueOf(o)]]
    BY <2>1 DEF Device!After, ValueOf, Tables
  <2>3. [c.syslog EXCEPT ![o.ip] = ValueOf(o)] \in PortMap
    BY <2>1 DEF ValueOf, Tables, PortMap
  <2> QED
    BY <2>1, <2>2, <2>3 DEF Tables
<1>3. CASE o \in NameOps
  <2>1. o.op \in {"community add", "community del"} /\ o.name \in Communities
    BY <1>3 DEF NameOp, NameOps
  <2>2. CASE o.op = "community add"
    <3>1. Device!After(c, o) = [c EXCEPT !.snmp = c.snmp \cup {o.name} \cup yml]
      BY <2>2 DEF Device!After, Device!SNMPStart, Tables
    <3>2. c.snmp \cup {o.name} \cup yml \in SUBSET Communities
      BY <2>1 DEF Tables
    <3> QED
      BY <2>2, <3>1, <3>2 DEF Tables
  <2>3. CASE o.op = "community del"
    <3>1. Device!After(c, o) = [c EXCEPT !.snmp = (c.snmp \ {o.name}) \cup yml]
      BY <2>3 DEF Device!After, Device!SNMPStart, Tables
    <3>2. (c.snmp \ {o.name}) \cup yml \in SUBSET Communities
      BY DEF Tables
    <3> QED
      BY <2>3, <3>1, <3>2 DEF Tables
  <2> QED
    BY <2>1, <2>2, <2>3
<1> QED
  BY <1>1, <1>2, <1>3 DEF Commands

LEMMA LeadsOn ==
  ASSUME NEW c \in Tables, NEW s \in Tables, NEW ops \in Seq(Commands), ops # <<>>, yml \subseteq Communities,
         Leads(ops, c, s, yml)
  PROVE  Leads(Tail(ops), Device!After(c, Head(ops)), s, yml)
<1>0. PICK o \in Commands : o = Head(ops)
  OBVIOUS
<1>1. PICK d \in Tables :
         /\ d = Device!After(c, o)
         /\ d.ntp = IF o.op \in {"add", "del"} /\ o.kind = "ntp" THEN [c.ntp EXCEPT ![o.ip] = ValueOf(o)] ELSE c.ntp
         /\ d.syslog = IF o.op \in {"add", "del"} /\ o.kind = "syslog" THEN [c.syslog EXCEPT ![o.ip] = ValueOf(o)] ELSE c.syslog
         /\ d.snmp = IF o.op = "community add" THEN c.snmp \cup {o.name} \cup yml
                     ELSE IF o.op = "community del" THEN (c.snmp \ {o.name}) \cup yml ELSE c.snmp
  BY ThenIs
<1>2. o.op \in {"add", "del"} => o.ip \in Addr
  BY DEF Commands, ServerOps, NameOp, NameOps
<1>3. c.ntp \in PortMap /\ c.syslog \in PortMap /\ d.ntp \in PortMap /\ d.syslog \in PortMap
  BY DEF Tables
<1>4. Ends(Tail(ops), "ntp", d.ntp, s.ntp)
  BY <1>0, <1>1, <1>2, <1>3, EndsTail DEF Leads
<1>5. Ends(Tail(ops), "syslog", d.syslog, s.syslog)
  BY <1>0, <1>1, <1>2, <1>3, EndsTail DEF Leads
<1>6. CommunitiesEnd(Tail(ops), d.snmp, s.snmp, yml)
  <2>1. Names(ops, "community add") = Names(Tail(ops), "community add") \cup (IF o.op = "community add" THEN {o.name} ELSE {})
    BY <1>0, NamesTail
  <2>2. Names(ops, "community del") = Names(Tail(ops), "community del") \cup (IF o.op = "community del" THEN {o.name} ELSE {})
    BY <1>0, NamesTail
  <2>3. CommunitiesEnd(ops, c.snmp, s.snmp, yml)
    BY DEF Leads
  <2> QED
    BY <1>1, <2>1, <2>2, <2>3 DEF CommunitiesEnd
<1> QED
  BY <1>0, <1>1, <1>4, <1>5, <1>6 DEF Leads

LEMMA LeadsThere ==
  ASSUME NEW c \in Tables, NEW s \in Tables, NEW y, Leads(<<>>, c, s, y)
  PROVE  c = s /\ y \subseteq c.snmp
<1>1. c.ntp \in PortMap /\ c.syslog \in PortMap /\ s.ntp \in PortMap /\ s.syslog \in PortMap
  BY DEF Tables
<1>2. c.ntp = s.ntp /\ c.syslog = s.syslog
  BY <1>1, EndsNone DEF Leads
<1>3. Names(<<>>, "community add") = {} /\ Names(<<>>, "community del") = {}
  BY DEF Names
<1>4. c.snmp = s.snmp /\ y \subseteq s.snmp
  BY <1>3 DEF Leads, CommunitiesEnd
<1> QED
  BY <1>2, <1>4 DEF Tables

---------------------------------------------------------------------------
(* SetToSeq lists a finite set. *)

LEMMA ListOf ==
  ASSUME NEW S, IsFiniteSet(S)
  PROVE  LET f == Device!SetToSeq(S) IN f \in Seq(S) /\ (\A x \in S : \E i \in DOMAIN f : f[i] = x) /\ (S = {} <=> f = <<>>)
<1> DEFINE n == Cardinality(S)
           f == Device!SetToSeq(S)
<1>1. n \in Nat /\ IsFiniteSet(1..n) /\ Cardinality(1..n) = n
  BY FS_CardinalityType, FS_Interval
<1>2. PICK g : g \in Bijection(1..n, S)
  BY <1>1, FS_SameCardinalityBij DEF ExistsBijection
<1>3. g \in [1..n -> S] /\ \A x, y \in DOMAIN g : g[x] = g[y] => x = y
  BY <1>2 DEF Bijection, Injection, IsInjective
<1>4. f = CHOOSE h \in [1..n -> S] : \A x, y \in DOMAIN h : h[x] = h[y] => x = y
  BY DEF Device!SetToSeq, Device!IsInjective, Device!Cardinality, Cardinality
<1>5. f \in [1..n -> S] /\ \A x, y \in DOMAIN f : f[x] = f[y] => x = y
  <2> DEFINE D == [1..n -> S]
             P(h) == \A x, y \in DOMAIN h : h[x] = h[y] => x = y
  <2>1. g \in D /\ P(g) /\ f = CHOOSE h \in D : P(h)
    BY <1>3, <1>4
  <2> HIDE DEF f, D, P
  <2>2. f \in D /\ P(f)
    BY <2>1
  <2> QED
    BY <2>2 DEF D, P
<1> HIDE DEF f
<1>6. f \in Injection(1..n, S)
  BY <1>5 DEF Injection, IsInjective
<1>7. f \in Surjection(1..n, S)
  BY <1>1, <1>6, FS_Injection
<1>8. \A x \in S : \E i \in DOMAIN f : f[i] = x
  BY <1>7 DEF Surjection
<1>9. f \in Seq(S) /\ DOMAIN f = 1..n
  BY <1>1, <1>5
<1>10. S = {} => f = <<>>
  <2>1. n = 0 <=> S = {}
    BY FS_EmptySet
  <2> QED
    BY <1>1, <1>9, <2>1
<1>11. f = <<>> => S = {}
  BY <1>8
<1> QED
  BY <1>8, <1>9, <1>10, <1>11 DEF f

---------------------------------------------------------------------------
(* One server of the push (Server), and all of them (Servers). *)

Accs(k) == [on : PortMap, pins : Pinned, want : SUBSET Addr, ops : Seq(ServerOps(k))]

LEMMA AnswerIs ==
  ASSUME NEW dns \in Device!Answers
  PROVE  dns \in Pinned
  BY DEF Device!Answers, Pinned

LEMMA PinnedIs ==
  ASSUME NEW h \in Hosts \cup Addr, NEW pinned \in Pinned, NEW on \in PortMap, NEW dns \in Pinned
  PROVE  LET ip == Device!PinnedIP(h, pinned, on, dns) IN
         /\ ip \in Addr \cup {NoAddr}
         /\ h \in Addr => ip = h
         /\ h \in Hosts /\ pinned[h] # NoAddr /\ on[pinned[h]] # 0 => ip = pinned[h]
         /\ ip = NoAddr => h \in Hosts
  BY ServersAssumption DEF Device!PinnedIP, Pinned

\* What is written for a server at ip with port now.
Change(k, ip, now, port) ==
  IF now = port THEN <<>>
  ELSE IF now = 0 THEN <<[op |-> "add", kind |-> k, ip |-> ip, port |-> port]>>
  ELSE <<[op |-> "del", kind |-> k, ip |-> ip], [op |-> "add", kind |-> k, ip |-> ip, port |-> port]>>

LEMMA ChangeIs ==
  ASSUME NEW k, NEW ip \in Addr, NEW on \in PortMap, NEW port \in Nat \ {0}
  PROVE  /\ Change(k, ip, on[ip], port) \in Seq(ServerOps(k))
         /\ Ends(Change(k, ip, on[ip], port), k, on, [on EXCEPT ![ip] = port])
<1> DEFINE add == [op |-> "add", kind |-> k, ip |-> ip, port |-> port]
           del == [op |-> "del", kind |-> k, ip |-> ip]
           to == [on EXCEPT ![ip] = port]
           off == [on EXCEPT ![ip] = 0]
<1>1. add \in ServerOps(k) /\ del \in ServerOps(k)
  BY DEF ServerOps
<1>2. to \in PortMap /\ off \in PortMap
  BY DEF PortMap
<1>3. /\ add.op \in {"add", "del"} /\ add.kind = k /\ add.ip = ip /\ ValueOf(add) = port
      /\ del.op \in {"add", "del"} /\ del.kind = k /\ del.ip = ip /\ ValueOf(del) = 0
  BY DEF ValueOf
<1> HIDE DEF add, del
<1>4. CASE on[ip] = port
  <2>1. to = on
    BY <1>4 DEF PortMap
  <2>2. Change(k, ip, on[ip], port) = <<>>
    BY <1>4 DEF Change
  <2>3. <<>> \in Seq(ServerOps(k))
    OBVIOUS
  <2>4. Ends(<<>>, k, on, to)
    <3> HIDE DEF to
    <3> QED
      BY <1>2, <2>1, EndsNone
  <2> QED
    BY <2>2, <2>3, <2>4
<1>5. CASE on[ip] # port /\ on[ip] = 0
  <2>1. Change(k, ip, on[ip], port) = <<add>>
    BY <1>5 DEF Change, add
  <2>2. Ends(<<add>>, k, on, to)
    BY <1>3, EndsOne
  <2>3. <<add>> \in Seq(ServerOps(k))
    BY <1>1
  <2> QED
    BY <2>1, <2>2, <2>3
<1>6. CASE on[ip] # port /\ on[ip] # 0
  <2>1. Change(k, ip, on[ip], port) = <<del, add>> /\ <<del, add>> = <<del>> \o <<add>>
    BY <1>6 DEF Change, add, del
  <2>2. Ends(<<del>>, k, on, off)
    BY <1>3, EndsOne
  <2>3. [off EXCEPT ![ip] = port] = to
    BY DEF PortMap
  <2>4. Ends(<<add>>, k, off, to)
    BY <1>2, <1>3, <2>3, EndsOne
  <2>5. <<add>> \in Seq(ServerOps(k)) /\ <<del>> \in Seq(ServerOps(k)) /\ <<del, add>> \in Seq(ServerOps(k))
    BY <1>1
  <2> HIDE DEF to, off
  <2>6. Ends(<<del>> \o <<add>>, k, on, to)
    BY <2>2, <2>4, <2>5, EndsJoin
  <2> QED
    BY <2>1, <2>5, <2>6 DEF to
<1> QED
  BY <1>4, <1>5, <1>6

ServerStep(k, acc, e, dns, ip, next) ==
  /\ ip = Device!PinnedIP(e.host, acc.pins, acc.on, dns)
  /\ next = Device!Server(k, acc, e, dns)
  /\ next.pins = IF e.host \in Hosts THEN [acc.pins EXCEPT ![e.host] = ip] ELSE acc.pins
  /\ ip = NoAddr => next.on = acc.on /\ next.want = acc.want /\ next.ops = acc.ops
  /\ ip # NoAddr => /\ next.on = [acc.on EXCEPT ![ip] = e.port]
                    /\ next.want = acc.want \cup {ip}
                    /\ next.ops = acc.ops \o Change(k, ip, acc.on[ip], e.port)

LEMMA ServerIs ==
  ASSUME NEW k, NEW acc \in Accs(k), NEW e \in Entry, NEW dns \in Pinned
  PROVE  \E ip \in Addr \cup {NoAddr}, next \in Accs(k) : ServerStep(k, acc, e, dns, ip, next)
<1>0. e.host \in Hosts \cup Addr /\ e.port \in Nat \ {0} /\ acc.on \in PortMap /\ acc.pins \in Pinned /\ acc.want \subseteq Addr
      /\ acc.ops \in Seq(ServerOps(k))
  BY DEF Entry, Accs
<1>1. PICK ip : ip = Device!PinnedIP(e.host, acc.pins, acc.on, dns)
  OBVIOUS
<1>2. ip \in Addr \cup {NoAddr} /\ (ip = NoAddr => e.host \in Hosts)
  BY <1>0, <1>1, PinnedIs
<1> DEFINE next == Device!Server(k, acc, e, dns)
           pins1 == IF e.host \in Hosts THEN [acc.pins EXCEPT ![e.host] = ip] ELSE acc.pins
<1>3. pins1 \in Pinned
  BY <1>0, <1>2 DEF Pinned
<1>4. CASE ip = NoAddr
  <2>1. next = [acc EXCEPT !.pins[e.host] = NoAddr]
    BY <1>1, <1>4 DEF Device!Server
  <2>2. next = [acc EXCEPT !.pins = pins1]
    BY <1>2, <1>4, <2>1 DEF Accs
  <2> HIDE DEF next, pins1
  <2>3. next \in Accs(k) /\ next.pins = pins1 /\ next.on = acc.on /\ next.want = acc.want /\ next.ops = acc.ops
    BY <1>3, <2>2 DEF Accs
  <2> QED
    BY <1>1, <1>2, <1>4, <2>3 DEF next, pins1, ServerStep
<1>5. CASE ip # NoAddr
  <2>0. ip \in Addr
    BY <1>2, <1>5
  <2>1. next = [on |-> [acc.on EXCEPT ![ip] = e.port], pins |-> pins1, want |-> acc.want \cup {ip},
                ops |-> acc.ops \o Change(k, ip, acc.on[ip], e.port)]
    BY <1>1, <1>5 DEF Device!Server, Change
  <2>2. [acc.on EXCEPT ![ip] = e.port] \in PortMap /\ acc.want \cup {ip} \subseteq Addr
    BY <1>0, <2>0 DEF PortMap
  <2>3. acc.ops \o Change(k, ip, acc.on[ip], e.port) \in Seq(ServerOps(k))
    <3>1. Change(k, ip, acc.on[ip], e.port) \in Seq(ServerOps(k))
      BY <1>0, <2>0, ChangeIs
    <3> QED
      BY <1>0, <3>1, ConcatIs
  <2> HIDE DEF next, pins1
  <2>4. next \in Accs(k)
    BY <1>3, <2>1, <2>2, <2>3 DEF Accs
  <2>5. /\ next.on = [acc.on EXCEPT ![ip] = e.port] /\ next.pins = pins1 /\ next.want = acc.want \cup {ip}
        /\ next.ops = acc.ops \o Change(k, ip, acc.on[ip], e.port)
    BY <2>1
  <2> QED
    BY <1>1, <1>2, <1>5, <2>4, <2>5 DEF next, pins1, ServerStep
<1> QED
  BY <1>4, <1>5

(* The pass over the first n servers of list, begun with on0 and pins0. *)
AsListed(list, on, pinned) == \A j \in DOMAIN list : Device!At(list[j], pinned) \in Addr /\ on[Device!At(list[j], pinned)] = list[j].port
Passed(acc, list, n, k, on0, pins0) ==
  /\ Ends(acc.ops, k, on0, acc.on)
  /\ \A a \in Addr : on0[a] # 0 => acc.on[a] # 0
  /\ \A a \in acc.want : \E j \in 1..n : a = Device!At(list[j], acc.pins) /\ acc.on[a] = list[j].port
  /\ \A j \in 1..n : Device!At(list[j], acc.pins) \in acc.want \cup {NoAddr}
  /\ \A h \in Hosts : pins0[h] # NoAddr /\ on0[pins0[h]] # 0 => acc.pins[h] = pins0[h]
  /\ AsListed(list, on0, pins0) => acc.ops = <<>> /\ acc.on = on0

LEMMA PassBegins ==
  ASSUME NEW k, NEW list \in Servers, NEW on0 \in PortMap, NEW pins0 \in Pinned
  PROVE  LET acc == [on |-> on0, pins |-> pins0, want |-> {}, ops |-> <<>>] IN acc \in Accs(k) /\ Passed(acc, list, 0, k, on0, pins0)
<1> DEFINE acc == [on |-> on0, pins |-> pins0, want |-> {}, ops |-> <<>>]
<1>1. acc.on = on0 /\ acc.pins = pins0 /\ acc.want = {} /\ acc.ops = <<>>
  OBVIOUS
<1>2. <<>> \in Seq(ServerOps(k))
  OBVIOUS
<1>3. acc \in Accs(k)
  BY <1>2 DEF Accs
<1> HIDE DEF acc
<1>4. Ends(acc.ops, k, on0, acc.on)
  BY <1>1, EndsNone
<1>5. 1..0 = {}
  OBVIOUS
<1>6. Passed(acc, list, 0, k, on0, pins0)
  BY <1>1, <1>4, <1>5 DEF Passed
<1> QED
  BY <1>3, <1>6 DEF acc

LEMMA PassGoesOn ==
  ASSUME NEW k, NEW list \in Servers, NEW on0 \in PortMap, NEW pins0 \in Pinned, NEW dns \in Pinned,
         NEW n \in Nat, n + 1 \in DOMAIN list, NEW acc \in Accs(k), Passed(acc, list, n, k, on0, pins0)
  PROVE  LET next == Device!Server(k, acc, list[n + 1], dns) IN next \in Accs(k) /\ Passed(next, list, n + 1, k, on0, pins0)
<1>p. PICK e : e = list[n + 1]
  OBVIOUS
<1>q. DOMAIN list = 1..Len(list) /\ Len(list) \in Nat /\ e \in Entry /\ \A j \in DOMAIN list : list[j] \in Entry
  BY <1>p DEF Servers
<1>0. /\ \A j \in DOMAIN list : list[j].host \in Hosts \cup Addr /\ list[j].port \in Nat \ {0}
      /\ e \in Entry /\ 1..n \subseteq DOMAIN list
  BY <1>q DEF Entry
<1>r. PICK ip \in Addr \cup {NoAddr}, next \in Accs(k) : ServerStep(k, acc, e, dns, ip, next)
  BY <1>0, ServerIs
<1>1. /\ ip = Device!PinnedIP(e.host, acc.pins, acc.on, dns)
      /\ next = Device!Server(k, acc, e, dns)
      /\ next.pins = IF e.host \in Hosts THEN [acc.pins EXCEPT ![e.host] = ip] ELSE acc.pins
      /\ ip = NoAddr => next.on = acc.on /\ next.want = acc.want /\ next.ops = acc.ops
      /\ ip # NoAddr => /\ next.on = [acc.on EXCEPT ![ip] = e.port]
                        /\ next.want = acc.want \cup {ip}
                        /\ next.ops = acc.ops \o Change(k, ip, acc.on[ip], e.port)
  BY <1>r DEF ServerStep
<1>2. /\ acc.on \in PortMap /\ acc.pins \in Pinned /\ acc.want \subseteq Addr /\ acc.ops \in Seq(ServerOps(k))
      /\ next.on \in PortMap /\ next.pins \in Pinned /\ next.want \subseteq Addr
  BY DEF Accs
<1>3. /\ e.host \in Hosts \cup Addr /\ e.port \in Nat \ {0}
      /\ e.host \in Addr => ip = e.host
      /\ e.host \in Hosts /\ acc.pins[e.host] # NoAddr /\ acc.on[acc.pins[e.host]] # 0 => ip = acc.pins[e.host]
      /\ ip = NoAddr => e.host \in Hosts
  <2>1. e.host \in Hosts \cup Addr /\ e.port \in Nat \ {0}
    BY <1>0 DEF Entry
  <2>2. PICK h, pinned, on : h = e.host /\ pinned = acc.pins /\ on = acc.on
    OBVIOUS
  <2>3. PICK x : x = Device!PinnedIP(h, pinned, on, dns)
    OBVIOUS
  <2>4. /\ h \in Addr => x = h
        /\ h \in Hosts /\ pinned[h] # NoAddr /\ on[pinned[h]] # 0 => x = pinned[h]
        /\ x = NoAddr => h \in Hosts
    BY <1>2, <2>1, <2>2, <2>3, PinnedIs
  <2> QED
    BY <1>1, <2>1, <2>2, <2>3, <2>4
<1>a. /\ Ends(acc.ops, k, on0, acc.on)
      /\ \A a \in Addr : on0[a] # 0 => acc.on[a] # 0
      /\ \A a \in acc.want : \E j \in 1..n : a = Device!At(list[j], acc.pins) /\ acc.on[a] = list[j].port
      /\ \A j \in 1..n : Device!At(list[j], acc.pins) \in acc.want \cup {NoAddr}
      /\ \A h \in Hosts : pins0[h] # NoAddr /\ on0[pins0[h]] # 0 => acc.pins[h] = pins0[h]
      /\ AsListed(list, on0, pins0) => acc.ops = <<>> /\ acc.on = on0
  BY DEF Passed
<1>4. \A a \in acc.want : acc.on[a] # 0
  BY <1>0, <1>a

\* The address of a server that was passed before does not change.
<1>5. ASSUME NEW j \in 1..n
      PROVE  \/ Device!At(list[j], next.pins) = Device!At(list[j], acc.pins)
             \/ Device!At(list[j], acc.pins) \notin acc.want /\ Device!At(list[j], next.pins) = ip
  <2>1. list[j].host \in Hosts \cup Addr
    BY <1>0
  <2>2. CASE list[j].host \in Addr
    BY <2>2 DEF Device!At
  <2>3. CASE list[j].host \in Hosts /\ list[j].host # e.host
    BY <1>1, <1>2, <2>3, ServersAssumption DEF Device!At, Pinned
  <2>4. CASE list[j].host \in Hosts /\ list[j].host = e.host
    <3>1. Device!At(list[j], acc.pins) = acc.pins[e.host] /\ Device!At(list[j], next.pins) = ip
      BY <1>1, <1>2, <2>4, ServersAssumption DEF Device!At, Pinned
    <3>2. CASE acc.pins[e.host] \in acc.want
      <4>1. acc.pins[e.host] # NoAddr /\ acc.on[acc.pins[e.host]] # 0
        BY <1>2, <1>4, <3>2, ServersAssumption
      <4> QED
        BY <1>3, <2>4, <3>1, <4>1
    <3> QED
      BY <3>1, <3>2
  <2> QED
    BY <2>1, <2>2, <2>3, <2>4
<1>6. Device!At(e, next.pins) = ip
  BY <1>1, <1>2, <1>3, ServersAssumption DEF Device!At, Pinned
<1>7. Ends(next.ops, k, on0, next.on)
  <2>1. CASE ip = NoAddr
    BY <1>1, <1>a, <2>1
  <2>2. CASE ip # NoAddr
    <3>1. /\ Change(k, ip, acc.on[ip], e.port) \in Seq(ServerOps(k))
          /\ Ends(Change(k, ip, acc.on[ip], e.port), k, acc.on, [acc.on EXCEPT ![ip] = e.port])
      BY <1>2, <1>3, <2>2, ChangeIs
    <3>2. PICK q : q = Change(k, ip, acc.on[ip], e.port)
      OBVIOUS
    <3>3. Ends(acc.ops \o q, k, on0, next.on)
      BY <1>1, <1>2, <1>a, <2>2, <3>1, <3>2, EndsJoin
    <3> QED
      BY <1>1, <2>2, <3>2, <3>3
  <2> QED
    BY <2>1, <2>2
<1>8. ASSUME NEW a \in Addr, on0[a] # 0 PROVE next.on[a] # 0
  BY <1>1, <1>2, <1>3, <1>a, <1>8 DEF PortMap
<1>9. ASSUME NEW a \in next.want PROVE \E j \in 1..n + 1 : a = Device!At(list[j], next.pins) /\ next.on[a] = list[j].port
  <2>1. CASE ip # NoAddr /\ a = ip
    <3>1. n + 1 \in 1..n + 1 /\ list[n + 1] = e
      BY <1>p
    <3>2. next.on[a] = e.port
      BY <1>1, <1>2, <2>1 DEF PortMap
    <3> QED
      BY <1>6, <2>1, <3>1, <3>2
  <2>2. CASE a \in acc.want /\ (ip = NoAddr \/ a # ip)
    <3>1. PICK j \in 1..n : a = Device!At(list[j], acc.pins) /\ acc.on[a] = list[j].port
      BY <1>a, <2>2
    <3>2. Device!At(list[j], next.pins) = a
      BY <1>5, <2>2, <3>1
    <3>3. next.on[a] = acc.on[a]
      BY <1>1, <1>2, <2>2 DEF PortMap
    <3>4. j \in 1..n + 1
      OBVIOUS
    <3> QED
      BY <3>1, <3>2, <3>3, <3>4
  <2> QED
    BY <1>1, <2>1, <2>2
<1>10. ASSUME NEW j \in 1..n + 1 PROVE Device!At(list[j], next.pins) \in next.want \cup {NoAddr}
  <2>1. ip \in next.want \cup {NoAddr} /\ acc.want \subseteq next.want
    BY <1>1
  <2>2. CASE j \in 1..n
    BY <1>5, <1>a, <2>1, <2>2
  <2>3. CASE j = n + 1
    BY <1>6, <1>p, <2>1, <2>3
  <2> QED
    BY <2>2, <2>3
<1>11. ASSUME NEW h \in Hosts, pins0[h] # NoAddr, on0[pins0[h]] # 0 PROVE next.pins[h] = pins0[h]
  <2>1. acc.pins[h] = pins0[h] /\ acc.on[acc.pins[h]] # 0
    BY <1>a, <1>11 DEF Pinned
  <2> QED
    BY <1>1, <1>2, <1>3, <1>11, <2>1 DEF Pinned
<1>12. ASSUME AsListed(list, on0, pins0) PROVE next.ops = <<>> /\ next.on = on0
  <2>1. Device!At(e, pins0) \in Addr /\ on0[Device!At(e, pins0)] = e.port
    BY <1>p, <1>12 DEF AsListed
  <2>2. ip = Device!At(e, pins0)
    <3>1. CASE e.host \in Addr
      BY <1>3, <3>1 DEF Device!At
    <3>2. CASE e.host \notin Addr
      <4>1. e.host \in Hosts /\ Device!At(e, pins0) = pins0[e.host]
        BY <1>3, <3>2 DEF Device!At
      <4>2. pins0[e.host] # NoAddr /\ on0[pins0[e.host]] # 0
        BY <1>3, <2>1, <4>1, ServersAssumption
      <4>3. acc.pins[e.host] = pins0[e.host] /\ acc.on[acc.pins[e.host]] # 0
        BY <1>a, <2>1, <4>1, <4>2
      <4> QED
        BY <1>3, <4>1, <4>2, <4>3
    <3> QED
      BY <3>1, <3>2
  <2>3. ip \in Addr /\ ip # NoAddr /\ acc.on = on0 /\ acc.ops = <<>> /\ acc.on[ip] = e.port
    BY <1>a, <1>12, <2>1, <2>2, ServersAssumption
  <2>4. next.on = [on0 EXCEPT ![ip] = on0[ip]]
    BY <1>1, <2>3
  <2>5. next.ops = <<>> \o <<>>
    BY <1>1, <2>3 DEF Change
  <2> QED
    BY <2>4, <2>5 DEF PortMap
<1>13. Passed(next, list, n + 1, k, on0, pins0)
  BY <1>7, <1>8, <1>9, <1>10, <1>11, <1>12 DEF Passed
<1> QED
  BY <1>1, <1>p, <1>13

LEMMA LastOf ==
  ASSUME NEW N \in Nat, NEW T \in SUBSET (1..N), T # {}
  PROVE  Device!Max(T) \in T /\ \A y \in T : Device!Max(T) >= y
<1> DEFINE S == 1..N
           R == {e \in S \X S : e[1] > e[2]}
<1>1. IsFiniteSet(S) /\ S \subseteq Nat
  BY FS_Interval
<1>2. \A x, y \in S : <<x, y>> \in R <=> x > y
  OBVIOUS
<1> HIDE DEF R, S
<1>3. Orders(R, S)
  BY <1>1, <1>2 DEF Orders
<1>4. PICK r \in T : FirstIn(R, T, r)
  BY <1>1, <1>3, FirstExists DEF S
<1>5. ASSUME NEW y \in T PROVE r >= y
  <2>1. r \in Nat /\ y \in Nat /\ r \in S /\ y \in S
    BY <1>1 DEF S
  <2>2. CASE y = r
    BY <2>1, <2>2
  <2>3. CASE y # r
    <3>1. <<r, y>> \in R
      BY <1>4, <2>3 DEF FirstIn
    <3>2. r > y
      BY <1>2, <2>1, <3>1
    <3> QED
      BY <2>1, <3>2
  <2> QED
    BY <2>2, <2>3
<1> QED
  BY <1>4, <1>5 DEF Device!Max

\* The servers that go, and the driver's copy without them.
Stale(acc) == {x \in Addr : acc.on[x] # 0} \ acc.want
DelsOf(k, X) == Device!SetToSeq({[op |-> "del", kind |-> k, ip |-> a] : a \in X})
Dels(k, acc) == DelsOf(k, Stale(acc))
Named(list) == {list[i].host : i \in DOMAIN list}
Result(k, list, acc) ==
  [ops |-> acc.ops \o Dels(k, acc),
   on |-> [a \in Addr |-> IF a \in acc.want THEN acc.on[a] ELSE 0],
   pins |-> [h \in Hosts |-> IF h \in Named(list) THEN acc.pins[h] ELSE NoAddr]]

LEMMA PassEnds ==
  ASSUME NEW k, NEW dns \in Pinned, push[k] \in Servers, view.cfg[k] \in PortMap, pins[k] \in Pinned
  PROVE  \E acc \in Accs(k) : /\ Passed(acc, push[k], Len(push[k]), k, view.cfg[k], pins[k])
                               /\ Device!Servers(k, dns) = Result(k, push[k], acc)
<1>1. PICK list \in Servers, on0 \in PortMap, pins0 \in Pinned : list = push[k] /\ on0 = view.cfg[k] /\ pins0 = pins[k]
  OBVIOUS
<1> DEFINE S == DOMAIN list
           D == Accs(k)
           base == [on |-> on0, pins |-> pins0, want |-> {}, ops |-> <<>>]
           Step(acc, e) == Device!Server(k, acc, e, dns)
           C == [T \in SUBSET S |-> Device!Max(T)]
           F == [i \in S |-> [acc \in D |-> Step(acc, list[i])]]
<1>2. S = 1..Len(list) /\ Len(list) \in Nat /\ IsFiniteSet(S) /\ \A i \in S : list[i] \in Entry
  BY FS_Interval DEF Servers
<1>3. ASSUME NEW T \in SUBSET S, T # {} PROVE Device!Max(T) \in T
  BY <1>2, <1>3, LastOf
<1>4. base \in D /\ Passed(base, list, 0, k, on0, pins0)
  BY PassBegins
<1> HIDE DEF base, D
<1>5. ASSUME NEW acc \in D, NEW e \in Entry PROVE Step(acc, e) \in D
  <2>1. PICK ip \in Addr \cup {NoAddr}, next \in Accs(k) : ServerStep(k, acc, e, dns, ip, next)
    BY <1>5, ServerIs DEF D
  <2> QED
    BY <2>1 DEF ServerStep, D
<1>a. ASSUME NEW n \in Nat, n + 1 \in S, NEW acc \in D, Passed(acc, list, n, k, on0, pins0)
      PROVE  Step(acc, list[n + 1]) \in D /\ Passed(Step(acc, list[n + 1]), list, n + 1, k, on0, pins0)
  BY <1>a, PassGoesOn DEF D
<1>6. Device!Servers(k, dns) =
        LET acc == Device!FoldLeft(LAMBDA x, e : Device!Server(k, x, e, dns), base, list) IN Result(k, list, acc)
  BY <1>1 DEF Device!Servers, Result, Dels, DelsOf, Stale, Named, base
<1> HIDE DEF Step
<1>7. F \in [S -> [D -> D]]
  BY <1>2, <1>5
<1>8. \A T \in SUBSET S : T # {} => C[T] \in T
  BY <1>3
<1>9. PICK h : IsFold(h, S, D, base, C, F)
  <2> HIDE DEF C, F, S
  <2> QED
    BY <1>2, <1>4, <1>7, <1>8, FoldExists
<1>10. h = [T \in SUBSET S |-> IF T = {} THEN base ELSE Step(h[T \ {Device!Max(T)}], list[Device!Max(T)])]
  <2>1. ASSUME NEW T \in SUBSET S, T # {} PROVE h[T] = Step(h[T \ {Device!Max(T)}], list[Device!Max(T)])
    <3>1. C[T] = Device!Max(T) /\ C[T] \in S /\ h[T \ {C[T]}] \in D
      BY <1>3, <1>9, <2>1 DEF IsFold
    <3>2. h[T] = F[C[T]][h[T \ {C[T]}]]
      BY <1>9, <2>1 DEF IsFold
    <3> QED
      BY <3>1, <3>2
  <2> QED
    BY <1>9, <2>1 DEF IsFold
<1> DEFINE g == CHOOSE i : i = [T \in SUBSET S |-> IF T = {} THEN base ELSE Step(i[T \ {Device!Max(T)}], list[Device!Max(T)])]
<1>11. g = [T \in SUBSET S |-> IF T = {} THEN base ELSE Step(g[T \ {Device!Max(T)}], list[Device!Max(T)])]
  BY <1>10
<1>12. Device!FoldLeft(LAMBDA x, e : Device!Server(k, x, e, dns), base, list) = g[S]
  BY DEF Device!FoldLeft, Device!MapThenFoldSet, Step
<1> HIDE DEF g
<1>13. g[{}] = base /\ \A T \in SUBSET S : T # {} => g[T] = Step(g[T \ {Device!Max(T)}], list[Device!Max(T)])
  <2> HIDE DEF S
  <2> QED
    BY <1>11, Zenon
<1> DEFINE Good(n) == g[1..n] \in D /\ Passed(g[1..n], list, n, k, on0, pins0)
           G == {i \in Nat \ {0} : Good(i - 1)}
<1>14. 1 \in G
  <2>1. 1..0 = {} /\ 1 - 1 = 0
    OBVIOUS
  <2> QED
    BY <1>4, <1>13, <2>1
<1>15. ASSUME NEW i \in 1..Len(list), i \in G PROVE i + 1 \in G
  <2>1. PICK n \in Nat : n = i - 1 /\ n + 1 = i /\ n + 1 \in S /\ i + 1 \in Nat \ {0} /\ (i + 1) - 1 = i
    <3>1. i \in Nat /\ i \in S /\ i >= 1
      BY <1>2
    <3>2. i - 1 \in Nat /\ (i - 1) + 1 = i /\ i + 1 \in Nat \ {0} /\ (i + 1) - 1 = i
      BY <3>1
    <3> QED
      BY <3>1, <3>2
  <2>2. Good(n)
    BY <1>15, <2>1
  <2>3. 1..i \in SUBSET S /\ 1..i # {} /\ i \in 1..i
    <3>1. i \in Nat /\ 1 <= i /\ i <= Len(list) /\ Len(list) \in Nat
      BY <1>2
    <3>2. i \in 1..i
      BY <3>1
    <3>3. ASSUME NEW x \in 1..i PROVE x \in S
      BY <1>2, <3>1
    <3> QED
      BY <3>2, <3>3
  <2>4. Device!Max(1..i) = i
    <3>1. Device!Max(1..i) \in 1..i /\ Device!Max(1..i) >= i
      BY <1>2, <2>3, LastOf
    <3> QED
      BY <3>1
  <2>5. (1..i) \ {i} = 1..n
    BY <2>1
  <2>6. g[1..i] = Step(g[1..n], list[n + 1])
    BY <1>13, <2>1, <2>3, <2>4, <2>5
  <2>7. g[1..i] \in D /\ Passed(g[1..i], list, n + 1, k, on0, pins0)
    BY <1>a, <2>1, <2>2, <2>6
  <2>8. Good(i)
    BY <2>1, <2>7
  <2> QED
    BY <2>1, <2>8
<1> HIDE DEF G
<1>16. 1..Len(list) + 1 \subseteq G
  <2>1. PICK N \in Nat : N = Len(list) + 1 /\ N - 1 = Len(list)
    BY <1>2
  <2>2. \A i \in 1..N - 1 : i \in G => i + 1 \in G
    BY <1>15, <2>1
  <2>3. 1..N \subseteq G
    BY <1>14, <2>2, Upwards
  <2> QED
    BY <2>1, <2>3
<1>17. Good(Len(list))
  <2>1. Len(list) + 1 \in 1..Len(list) + 1 /\ (Len(list) + 1) - 1 = Len(list)
    BY <1>2
  <2>2. Len(list) + 1 \in G
    BY <1>16, <2>1
  <2> QED
    BY <2>1, <2>2 DEF G
<1>18. g[S] \in D /\ Passed(g[S], list, Len(list), k, on0, pins0)
  BY <1>2, <1>17
<1>19. Device!Servers(k, dns) = Result(k, list, g[S])
  BY <1>6, <1>12
<1> QED
  BY <1>1, <1>18, <1>19 DEF D

(* The servers on the switch are those of a list: each is one of the list,   *)
(* and each of the list that resolved is on it.                              *)
Meant(on, list, pinned) ==
  /\ \A a \in Addr : on[a] # 0 => \E j \in DOMAIN list : a = Device!At(list[j], pinned) /\ on[a] = list[j].port
  /\ \A j \in DOMAIN list : Device!At(list[j], pinned) = NoAddr \/ (Device!At(list[j], pinned) \in Addr /\ on[Device!At(list[j], pinned)] # 0)

LEMMA DelsAre ==
  ASSUME NEW k, NEW X \in SUBSET Addr
  PROVE  LET f == DelsOf(k, X) IN
         /\ f \in Seq(ServerOps(k))
         /\ X = {} => f = <<>>
         /\ \A i \in DOMAIN f : f[i].op = "del" /\ f[i].kind = k /\ f[i].ip \in X
         /\ \A a \in X : \E i \in DOMAIN f : f[i].ip = a
<1> DEFINE S == {[op |-> "del", kind |-> k, ip |-> a] : a \in X}
           f == Device!SetToSeq(S)
           m == [a \in X |-> [op |-> "del", kind |-> k, ip |-> a]]
<1>1. IsFiniteSet(X)
  BY ServersAssumption, FS_Subset
<1>2. m \in Surjection(X, S)
  BY DEF Surjection
<1>3. IsFiniteSet(S)
  BY <1>1, <1>2, FS_Surjection
<1>4. \A o \in S : o \in ServerOps(k) /\ o.op = "del" /\ o.kind = k /\ o.ip \in X
  BY DEF ServerOps
<1>5. ASSUME NEW a \in X PROVE \E o \in S : o.ip = a
  <2>1. m[a] \in S /\ m[a].ip = a
    OBVIOUS
  <2> QED
    BY <2>1
<1>6. X = {} => S = {}
  OBVIOUS
<1> HIDE DEF S
<1>7. f \in Seq(S) /\ (\A x \in S : \E i \in DOMAIN f : f[i] = x) /\ (S = {} <=> f = <<>>)
  BY <1>3, ListOf
<1> HIDE DEF f
<1>8. \A i \in DOMAIN f : f[i] \in S
  BY <1>7
<1>9. f \in Seq(ServerOps(k))
  BY <1>4, <1>7
<1>10. \A a \in X : \E i \in DOMAIN f : f[i].ip = a
  BY <1>5, <1>7
<1> QED
  BY <1>4, <1>6, <1>7, <1>8, <1>9, <1>10 DEF f, S, DelsOf

LEMMA ResultEnds ==
  ASSUME NEW k, NEW list \in Servers, NEW acc \in Accs(k), NEW on0 \in PortMap, Ends(acc.ops, k, on0, acc.on)
  PROVE  LET r == Result(k, list, acc) IN
         r.ops \in Seq(ServerOps(k)) /\ r.on \in PortMap /\ r.pins \in Pinned /\ Ends(r.ops, k, on0, r.on)
<1> DEFINE r == Result(k, list, acc)
           f == Dels(k, acc)
<1>1. acc.on \in PortMap /\ acc.pins \in Pinned /\ acc.want \subseteq Addr /\ acc.ops \in Seq(ServerOps(k))
  BY DEF Accs
<1>2. r.ops = acc.ops \o f /\ r.on = [a \in Addr |-> IF a \in acc.want THEN acc.on[a] ELSE 0]
      /\ r.pins = [h \in Hosts |-> IF h \in Named(list) THEN acc.pins[h] ELSE NoAddr]
  BY DEF Result
<1>3. r.on \in PortMap /\ r.pins \in Pinned
  BY <1>1, <1>2 DEF PortMap, Pinned
<1> HIDE DEF r
<1>4. Stale(acc) \in SUBSET Addr
  BY DEF Stale
<1>5. /\ f \in Seq(ServerOps(k))
      /\ \A i \in DOMAIN f : f[i].op = "del" /\ f[i].kind = k /\ f[i].ip \in Stale(acc)
      /\ \A a \in Stale(acc) : \E i \in DOMAIN f : f[i].ip = a
  BY <1>4, DelsAre DEF Dels
<1> HIDE DEF f
<1>6. Ends(f, k, acc.on, r.on)
  <2> SUFFICES ASSUME NEW a \in Addr
               PROVE  /\ (\A i \in DOMAIN f : ~Touches(f[i], k, a)) => r.on[a] = acc.on[a]
                      /\ \A i \in DOMAIN f : Touches(f[i], k, a) => r.on[a] = ValueOf(f[i])
    BY DEF Ends
  <2>1. CASE a \in Stale(acc)
    <3>1. r.on[a] = 0
      BY <1>2, <2>1 DEF Stale
    <3>2. \E i \in DOMAIN f : Touches(f[i], k, a)
      BY <1>5, <2>1 DEF Touches
    <3> QED
      BY <1>5, <3>1, <3>2 DEF ValueOf
  <2>2. CASE a \notin Stale(acc)
    <3>1. r.on[a] = acc.on[a]
      BY <1>1, <1>2, <2>2 DEF Stale, PortMap
    <3>2. \A i \in DOMAIN f : ~Touches(f[i], k, a)
      BY <1>5, <2>2 DEF Touches
    <3> QED
      BY <3>1, <3>2
  <2> QED
    BY <2>1, <2>2
<1>7. acc.ops \o f \in Seq(ServerOps(k))
  BY <1>1, <1>5, ConcatIs
<1>8. Ends(acc.ops \o f, k, on0, r.on)
  BY <1>1, <1>5, <1>6, EndsJoin
<1> QED
  BY <1>2, <1>3, <1>7, <1>8 DEF r

LEMMA ResultMeant ==
  ASSUME NEW k, NEW list \in Servers, NEW acc \in Accs(k), NEW on0 \in PortMap, NEW pins0 \in Pinned,
         Passed(acc, list, Len(list), k, on0, pins0)
  PROVE  LET r == Result(k, list, acc) IN
         /\ Meant(r.on, list, r.pins)
         /\ \A h \in Named(list) \cap Hosts : pins0[h] # NoAddr /\ on0[pins0[h]] # 0 => r.pins[h] = pins0[h]
         /\ Meant(on0, list, pins0) /\ AsListed(list, on0, pins0) => r.ops = <<>>
<1> DEFINE r == Result(k, list, acc)
<1>1. acc.on \in PortMap /\ acc.pins \in Pinned /\ acc.want \subseteq Addr /\ acc.ops \in Seq(ServerOps(k))
  BY DEF Accs
<1>2. r.ops = acc.ops \o Dels(k, acc) /\ r.on = [a \in Addr |-> IF a \in acc.want THEN acc.on[a] ELSE 0]
      /\ r.pins = [h \in Hosts |-> IF h \in Named(list) THEN acc.pins[h] ELSE NoAddr]
  BY DEF Result
<1> HIDE DEF r
<1>3. DOMAIN list = 1..Len(list) /\ \A j \in DOMAIN list : list[j].host \in Hosts \cup Addr /\ list[j].port \in Nat \ {0}
  <2>1. DOMAIN list = 1..Len(list) /\ \A j \in DOMAIN list : list[j] \in Entry
    BY DEF Servers
  <2> QED
    BY <2>1 DEF Entry
<1>4. /\ \A a \in acc.want : \E j \in DOMAIN list : a = Device!At(list[j], acc.pins) /\ acc.on[a] = list[j].port
      /\ \A j \in DOMAIN list : Device!At(list[j], acc.pins) \in acc.want \cup {NoAddr}
      /\ \A h \in Hosts : pins0[h] # NoAddr /\ on0[pins0[h]] # 0 => acc.pins[h] = pins0[h]
      /\ AsListed(list, on0, pins0) => acc.ops = <<>> /\ acc.on = on0
  BY <1>3 DEF Passed
<1>5. ASSUME NEW j \in DOMAIN list PROVE Device!At(list[j], r.pins) = Device!At(list[j], acc.pins)
  BY <1>2, <1>3 DEF Device!At, Named
<1>6. ASSUME NEW a \in Addr PROVE r.on[a] # 0 <=> a \in acc.want
  <2>1. a \in acc.want => acc.on[a] # 0
    BY <1>3, <1>4
  <2> QED
    BY <1>2, <2>1
<1>7. ASSUME NEW a \in Addr, r.on[a] # 0
      PROVE  \E j \in DOMAIN list : a = Device!At(list[j], r.pins) /\ r.on[a] = list[j].port
  <2>1. a \in acc.want /\ r.on[a] = acc.on[a]
    BY <1>2, <1>6, <1>7
  <2> QED
    BY <1>4, <1>5, <2>1
<1>8. ASSUME NEW j \in DOMAIN list
      PROVE  Device!At(list[j], r.pins) = NoAddr \/ (Device!At(list[j], r.pins) \in Addr /\ r.on[Device!At(list[j], r.pins)] # 0)
  BY <1>1, <1>4, <1>5, <1>6
<1>9. Meant(r.on, list, r.pins)
  BY <1>7, <1>8 DEF Meant
<1>10. ASSUME NEW h \in Named(list) \cap Hosts, pins0[h] # NoAddr, on0[pins0[h]] # 0 PROVE r.pins[h] = pins0[h]
  BY <1>2, <1>4, <1>10
<1>11. ASSUME Meant(on0, list, pins0), AsListed(list, on0, pins0) PROVE r.ops = <<>>
  <2>1. acc.ops = <<>> /\ acc.on = on0
    BY <1>4, <1>11
  <2>2. ASSUME NEW a \in Addr, on0[a] # 0 PROVE a \in acc.want
    <3>1. PICK j \in DOMAIN list : a = Device!At(list[j], pins0)
      BY <1>11, <2>2 DEF Meant
    <3>2. Device!At(list[j], acc.pins) = a
      <4>1. CASE list[j].host \in Addr
        BY <3>1, <4>1 DEF Device!At
      <4>2. CASE list[j].host \notin Addr
        <5>1. list[j].host \in Hosts /\ pins0[list[j].host] = a /\ a # NoAddr
          BY <1>3, <3>1, <4>2, ServersAssumption DEF Device!At
        <5>2. acc.pins[list[j].host] = a
          BY <1>4, <2>2, <5>1
        <5> QED
          BY <4>2, <5>2 DEF Device!At
      <4> QED
        BY <4>1, <4>2
    <3>3. a # NoAddr
      BY ServersAssumption
    <3> QED
      BY <1>4, <3>2, <3>3
  <2>3. Stale(acc) = {} /\ {} \in SUBSET Addr
    BY <2>1, <2>2 DEF Stale
  <2>4. Dels(k, acc) = <<>>
    BY <2>3, DelsAre DEF Dels
  <2> QED
    BY <1>2, <2>1, <2>4
<1> QED
  BY <1>9, <1>10, <1>11 DEF r

LEMMA ServersAre ==
  ASSUME NEW k, NEW dns \in Pinned, push[k] \in Servers, view.cfg[k] \in PortMap, pins[k] \in Pinned
  PROVE  LET r == Device!Servers(k, dns) IN
         /\ r.ops \in Seq(ServerOps(k)) /\ r.on \in PortMap /\ r.pins \in Pinned
         /\ Ends(r.ops, k, view.cfg[k], r.on)
         /\ Meant(r.on, push[k], r.pins)
         /\ \A h \in Named(push[k]) \cap Hosts : pins[k][h] # NoAddr /\ view.cfg[k][pins[k][h]] # 0 => r.pins[h] = pins[k][h]
         /\ Meant(view.cfg[k], push[k], pins[k]) /\ AsListed(push[k], view.cfg[k], pins[k]) => r.ops = <<>>
<1>1. PICK list \in Servers, on0 \in PortMap, pins0 \in Pinned : list = push[k] /\ on0 = view.cfg[k] /\ pins0 = pins[k]
  OBVIOUS
<1>2. PICK acc \in Accs(k) : Passed(acc, list, Len(list), k, on0, pins0) /\ Device!Servers(k, dns) = Result(k, list, acc)
  BY <1>1, PassEnds
<1>3. Ends(acc.ops, k, on0, acc.on)
  BY <1>2 DEF Passed
<1>4. PICK r : r = Result(k, list, acc)
  OBVIOUS
<1>5. r.ops \in Seq(ServerOps(k)) /\ r.on \in PortMap /\ r.pins \in Pinned /\ Ends(r.ops, k, on0, r.on)
  BY <1>3, <1>4, ResultEnds
<1>6. /\ Meant(r.on, list, r.pins)
      /\ \A h \in Named(list) \cap Hosts : pins0[h] # NoAddr /\ on0[pins0[h]] # 0 => r.pins[h] = pins0[h]
      /\ Meant(on0, list, pins0) /\ AsListed(list, on0, pins0) => r.ops = <<>>
  BY <1>2, <1>4, ResultMeant
<1> QED
  BY <1>1, <1>2, <1>4, <1>5, <1>6

---------------------------------------------------------------------------
(* The plan of one apply. *)

NameList(op, X) == Device!SetToSeq({[op |-> op, name |-> n] : n \in X})

LEMMA SeqWider ==
  ASSUME NEW S, NEW T, \A x \in S : x \in T, NEW f \in Seq(S)
  PROVE  f \in Seq(T)
<1>1. Len(f) \in Nat /\ f \in [1..Len(f) -> S]
  OBVIOUS
<1>2. f \in [1..Len(f) -> T]
  BY <1>1
<1> QED
  BY <1>1, <1>2

LEMMA NamesAre ==
  ASSUME NEW op \in NameOp, NEW X \in SUBSET Communities
  PROVE  LET f == NameList(op, X) IN
         /\ f \in Seq(NameOps) /\ (X = {} => f = <<>>)
         /\ Names(f, op) = X
         /\ \A other : other # op => Names(f, other) = {}
<1> DEFINE S == {[op |-> op, name |-> n] : n \in X}
           f == Device!SetToSeq(S)
           m == [n \in X |-> [op |-> op, name |-> n]]
<1>1. IsFiniteSet(X)
  BY ServersAssumption, FS_Subset
<1>2. m \in Surjection(X, S)
  BY DEF Surjection
<1>3. IsFiniteSet(S)
  BY <1>1, <1>2, FS_Surjection
<1>4. ASSUME NEW o \in S PROVE o \in NameOps /\ o.op = op /\ o.name \in X
  <2>1. PICK n \in X : o = [op |-> op, name |-> n]
    OBVIOUS
  <2>2. n \in Communities
    OBVIOUS
  <2> QED
    BY <2>1, <2>2 DEF NameOps
<1>5. ASSUME NEW n \in X PROVE \E o \in S : o.name = n
  <2>1. m[n] \in S /\ m[n].name = n
    OBVIOUS
  <2> QED
    BY <2>1
<1>6. X = {} => S = {}
  OBVIOUS
<1> HIDE DEF S
<1>7. f \in Seq(S) /\ (\A x \in S : \E i \in DOMAIN f : f[i] = x) /\ (S = {} <=> f = <<>>)
  BY <1>3, ListOf
<1> HIDE DEF f
<1>8. ASSUME NEW i \in DOMAIN f PROVE f[i] \in S
  BY <1>7
<1>9. f \in Seq(NameOps)
  BY <1>4, <1>7, SeqWider
<1>10. Names(f, op) = X
  <2>1. ASSUME NEW n \in X PROVE n \in Names(f, op)
    <3>1. PICK o \in S : o.name = n
      BY <1>5
    <3>2. PICK i \in DOMAIN f : f[i] = o
      BY <1>7
    <3> QED
      BY <1>4, <3>1, <3>2 DEF Names
  <2>2. ASSUME NEW n \in Names(f, op) PROVE n \in X
    <3>1. PICK i \in DOMAIN f : n = f[i].name
      BY DEF Names
    <3> QED
      BY <1>4, <1>8, <3>1
  <2> QED
    BY <2>1, <2>2
<1>11. \A other : other # op => Names(f, other) = {}
  BY <1>4, <1>8 DEF Names
<1> QED
  BY <1>6, <1>7, <1>9, <1>10, <1>11 DEF f, S, NameList

LEMMA OpsApart == "community add" \in NameOp /\ "community del" \in NameOp /\ "community add" # "community del"
  BY Zenon DEF NameOp

LEMMA NoNames ==
  ASSUME NEW k, NEW f \in Seq(ServerOps(k))
  PROVE  \A op \in NameOp : Names(f, op) = {}
<1>1. \A i \in DOMAIN f : f[i].op \in {"add", "del"}
  <2>1. \A i \in DOMAIN f : f[i] \in ServerOps(k)
    OBVIOUS
  <2> QED
    BY <2>1 DEF ServerOps
<1>2. ASSUME NEW op \in NameOp PROVE op \notin {"add", "del"}
  BY Zenon DEF NameOp
<1> QED
  BY <1>1, <1>2 DEF Names

LEMMA KindsApart ==
  ASSUME NEW k, NEW f \in Seq(ServerOps(k)), NEW other, other # k, NEW on
  PROVE  Ends(f, other, on, on)
<1>1. \A i \in DOMAIN f : f[i].kind = k
  <2>1. \A i \in DOMAIN f : f[i] \in ServerOps(k)
    OBVIOUS
  <2> QED
    BY <2>1 DEF ServerOps
<1> QED
  BY <1>1, EndsApart

LEMMA NamesApart ==
  ASSUME NEW f \in Seq(NameOps), NEW k, NEW on
  PROVE  Ends(f, k, on, on)
<1>1. \A i \in DOMAIN f : f[i].op \notin {"add", "del"}
  <2>1. \A i \in DOMAIN f : f[i] \in NameOps
    OBVIOUS
  <2>2. \A op \in NameOp : op \notin {"add", "del"}
    BY Zenon DEF NameOp
  <2> QED
    BY <2>1, <2>2 DEF NameOps
<1> QED
  BY <1>1, EndsApart

\* The four parts of a batch, one after the other.
LEMMA PartsLead ==
  ASSUME NEW n \in Seq(ServerOps("ntp")), NEW s \in Seq(ServerOps("syslog")),
         NEW c \in Tables, NEW d \in Tables, NEW imported, imported \subseteq d.snmp,
         Ends(n, "ntp", c.ntp, d.ntp), Ends(s, "syslog", c.syslog, d.syslog)
  PROVE  LET ops == n \o s \o (NameList("community add", d.snmp \ c.snmp) \o NameList("community del", c.snmp \ d.snmp)) IN
         ops \in Seq(Commands) /\ Leads(ops, c, d, imported)
<1>1. PICK a, r : a = NameList("community add", d.snmp \ c.snmp) /\ r = NameList("community del", c.snmp \ d.snmp)
  OBVIOUS
<1>2. d.snmp \ c.snmp \in SUBSET Communities /\ c.snmp \ d.snmp \in SUBSET Communities
  BY DEF Tables
<1>3. a \in Seq(NameOps) /\ Names(a, "community add") = d.snmp \ c.snmp /\ Names(a, "community del") = {}
  <2>1. Names(a, "community del") = {}
    BY <1>1, <1>2, NamesAre, OpsApart, Zenon
  <2> QED
    BY <1>1, <1>2, <2>1, NamesAre, OpsApart, Zenon
<1>4. r \in Seq(NameOps) /\ Names(r, "community del") = c.snmp \ d.snmp /\ Names(r, "community add") = {}
  <2>1. Names(r, "community add") = {}
    BY <1>1, <1>2, NamesAre, OpsApart, Zenon
  <2> QED
    BY <1>1, <1>2, <2>1, NamesAre, OpsApart, Zenon
<1>5. ServerOps("ntp") \subseteq Commands /\ ServerOps("syslog") \subseteq Commands /\ NameOps \subseteq Commands
  BY DEF Commands
<1>6. n \in Seq(Commands) /\ s \in Seq(Commands) /\ a \in Seq(Commands) /\ r \in Seq(Commands)
  <2>1. n \in Seq(Commands)
    BY <1>5, SeqWider
  <2>2. s \in Seq(Commands)
    BY <1>5, SeqWider
  <2>3. a \in Seq(Commands)
    BY <1>3, <1>5, SeqWider
  <2>4. r \in Seq(Commands)
    BY <1>4, <1>5, SeqWider
  <2> QED
    BY <2>1, <2>2, <2>3, <2>4
<1>7. PICK p, q, ops : p = n \o s /\ q = a \o r /\ ops = p \o q
  OBVIOUS
<1>8. p \in Seq(Commands) /\ q \in Seq(Commands) /\ q \in Seq(NameOps)
  BY <1>3, <1>4, <1>6, <1>7, ConcatIs
<1>9. ops \in Seq(Commands)
  BY <1>7, <1>8, ConcatIs
<1>10. Ends(ops, "ntp", c.ntp, d.ntp)
  <2>1. Ends(s, "ntp", d.ntp, d.ntp)
    BY KindsApart
  <2>2. Ends(p, "ntp", c.ntp, d.ntp)
    BY <1>6, <1>7, <2>1, EndsJoin
  <2>3. Ends(q, "ntp", d.ntp, d.ntp)
    BY <1>8, NamesApart
  <2> QED
    BY <1>7, <1>8, <2>2, <2>3, EndsJoin
<1>11. Ends(ops, "syslog", c.syslog, d.syslog)
  <2>1. Ends(n, "syslog", c.syslog, c.syslog)
    BY KindsApart
  <2>2. Ends(p, "syslog", c.syslog, d.syslog)
    BY <1>6, <1>7, <2>1, EndsJoin
  <2>3. Ends(q, "syslog", d.syslog, d.syslog)
    BY <1>8, NamesApart
  <2> QED
    BY <1>7, <1>8, <2>2, <2>3, EndsJoin
<1>12. ASSUME NEW op \in NameOp PROVE Names(ops, op) = Names(a, op) \cup Names(r, op)
  <2>1. Names(p, op) = Names(n, op) \cup Names(s, op)
    BY <1>6, <1>7, NamesJoin
  <2>2. Names(n, op) = {} /\ Names(s, op) = {}
    BY NoNames
  <2>3. Names(q, op) = Names(a, op) \cup Names(r, op)
    BY <1>6, <1>7, NamesJoin
  <2>4. Names(ops, op) = Names(p, op) \cup Names(q, op)
    <3>1. p \in Seq(Commands) /\ q \in Seq(Commands)
      BY <1>8
    <3>2. Names(p \o q, op) = Names(p, op) \cup Names(q, op)
      BY <3>1, NamesJoin
    <3> QED
      BY <1>7, <3>2
  <2> QED
    BY <2>1, <2>2, <2>3, <2>4
<1>13. CommunitiesEnd(ops, c.snmp, d.snmp, imported)
  <2>1. Names(ops, "community add") = d.snmp \ c.snmp
    BY <1>3, <1>4, <1>12, OpsApart, Zenon
  <2>2. Names(ops, "community del") = c.snmp \ d.snmp
    BY <1>3, <1>4, <1>12, OpsApart, Zenon
  <2> QED
    BY <2>1, <2>2, Zenon DEF CommunitiesEnd
<1> QED
  BY <1>1, <1>7, <1>9, <1>10, <1>11, <1>13 DEF Leads

PlannedPins(dns) == [k \in Device!Kinds |-> Device!Servers(k, dns).pins]

LEMMA PlanIsSound ==
  ASSUME NEW dns \in Pinned, view \in Views, pins \in PinSets, push \in Pushes
  PROVE  /\ Device!Ops(dns) \in Seq(Commands) /\ Device!Sim(dns) \in Tables /\ PlannedPins(dns) \in PinSets
         /\ Leads(Device!Ops(dns), view.cfg, Device!Sim(dns), view.yml \ Device!YmlDrop)
         /\ Device!Sim(dns).snmp = Device!Wanted
         /\ \A k \in Device!Kinds : Meant(Device!Sim(dns)[k], push[k], PlannedPins(dns)[k])
         /\ \A k \in Device!Kinds : \A h \in Named(push[k]) \cap Hosts :
              pins[k][h] # NoAddr /\ view.cfg[k][pins[k][h]] # 0 => PlannedPins(dns)[k][h] = pins[k][h]
         /\ (\A k \in Device!Kinds : Meant(view.cfg[k], push[k], pins[k]) /\ AsListed(push[k], view.cfg[k], pins[k]))
              /\ view.cfg.snmp = Device!Wanted => Device!Ops(dns) = <<>>
<1>1. PICK c \in Tables : c = view.cfg
  BY DEF Views
<1>2. Device!Wanted \in SUBSET Communities
  BY ServersAssumption DEF Device!Wanted
<1>3. ASSUME NEW k \in Device!Kinds PROVE push[k] \in Servers /\ view.cfg[k] \in PortMap /\ pins[k] \in Pinned
  BY <1>1, PushIs, TableOf DEF PinSets
<1>4. "ntp" \in Device!Kinds /\ "syslog" \in Device!Kinds
  BY DEF Device!Kinds
<1>5. PICK n, s : n = Device!Servers("ntp", dns) /\ s = Device!Servers("syslog", dns)
  OBVIOUS
<1>6. /\ n.ops \in Seq(ServerOps("ntp")) /\ n.on \in PortMap /\ n.pins \in Pinned
      /\ Ends(n.ops, "ntp", c["ntp"], n.on)
      /\ Meant(n.on, push["ntp"], n.pins)
      /\ \A h \in Named(push["ntp"]) \cap Hosts : pins["ntp"][h] # NoAddr /\ c["ntp"][pins["ntp"][h]] # 0 => n.pins[h] = pins["ntp"][h]
      /\ Meant(c["ntp"], push["ntp"], pins["ntp"]) /\ AsListed(push["ntp"], c["ntp"], pins["ntp"]) => n.ops = <<>>
  BY <1>1, <1>3, <1>4, <1>5, ServersAre
<1>7. /\ s.ops \in Seq(ServerOps("syslog")) /\ s.on \in PortMap /\ s.pins \in Pinned
      /\ Ends(s.ops, "syslog", c["syslog"], s.on)
      /\ Meant(s.on, push["syslog"], s.pins)
      /\ \A h \in Named(push["syslog"]) \cap Hosts : pins["syslog"][h] # NoAddr /\ c["syslog"][pins["syslog"][h]] # 0 => s.pins[h] = pins["syslog"][h]
      /\ Meant(c["syslog"], push["syslog"], pins["syslog"]) /\ AsListed(push["syslog"], c["syslog"], pins["syslog"]) => s.ops = <<>>
  BY <1>1, <1>3, <1>4, <1>5, ServersAre
<1>8. PICK d : d = Device!Sim(dns)
  OBVIOUS
<1>9. d \in Tables /\ d.ntp = n.on /\ d.syslog = s.on /\ d.snmp = Device!Wanted /\ d["ntp"] = n.on /\ d["syslog"] = s.on
  BY <1>2, <1>5, <1>6, <1>7, <1>8 DEF Device!Sim, Tables
<1>10. Device!Ops(dns) = n.ops \o s.ops \o (NameList("community add", d.snmp \ c.snmp) \o NameList("community del", c.snmp \ d.snmp))
  BY <1>1, <1>5, <1>9 DEF Device!Ops, Device!SnmpOps, NameList
<1>11. c["ntp"] = c.ntp /\ c["syslog"] = c.syslog
  OBVIOUS
<1>12. view.yml \ Device!YmlDrop \subseteq d.snmp
  BY <1>9 DEF Device!YmlDrop
<1>13. Ends(n.ops, "ntp", c.ntp, d.ntp) /\ Ends(s.ops, "syslog", c.syslog, d.syslog)
  BY <1>6, <1>7, <1>9, <1>11
<1>14. Device!Ops(dns) \in Seq(Commands) /\ Leads(Device!Ops(dns), c, d, view.yml \ Device!YmlDrop)
  BY <1>6, <1>7, <1>9, <1>10, <1>12, <1>13, PartsLead
<1>15. PlannedPins(dns)["ntp"] = n.pins /\ PlannedPins(dns)["syslog"] = s.pins
  BY <1>4, <1>5 DEF PlannedPins
<1>16. PlannedPins(dns) \in PinSets
  <2>1. \A k \in Device!Kinds : Device!Servers(k, dns).pins \in Pinned
    BY <1>5, <1>6, <1>7, KindIs
  <2> QED
    BY <2>1 DEF PlannedPins, PinSets
<1>17. ASSUME NEW k \in Device!Kinds
       PROVE  /\ Meant(d[k], push[k], PlannedPins(dns)[k])
              /\ \A h \in Named(push[k]) \cap Hosts :
                   pins[k][h] # NoAddr /\ view.cfg[k][pins[k][h]] # 0 => PlannedPins(dns)[k][h] = pins[k][h]
  <2>1. CASE k = "ntp"
    BY <1>1, <1>6, <1>9, <1>15, <2>1
  <2>2. CASE k = "syslog"
    BY <1>1, <1>7, <1>9, <1>15, <2>2
  <2> QED
    BY <2>1, <2>2, KindIs
<1>18. ASSUME \A k \in Device!Kinds : Meant(view.cfg[k], push[k], pins[k]) /\ AsListed(push[k], view.cfg[k], pins[k]),
              view.cfg.snmp = Device!Wanted
       PROVE  Device!Ops(dns) = <<>>
  <2>1. n.ops = <<>>
    BY <1>1, <1>4, <1>6, <1>18
  <2>2. s.ops = <<>>
    BY <1>1, <1>4, <1>7, <1>18
  <2>3. d.snmp \ c.snmp = {} /\ c.snmp \ d.snmp = {} /\ {} \in SUBSET Communities
    BY <1>1, <1>9, <1>18
  <2>4. NameList("community add", {}) = <<>> /\ NameList("community del", {}) = <<>>
    BY <2>3, NamesAre, OpsApart, Zenon
  <2>5. Device!Ops(dns) = <<>> \o <<>> \o (<<>> \o <<>>)
    BY <1>10, <2>1, <2>2, <2>3, <2>4
  <2> QED
    BY <2>5
<1> QED
  BY <1>1, <1>8, <1>9, <1>14, <1>16, <1>17, <1>18

---------------------------------------------------------------------------
(* The invariant of the time, log and SNMP servers.  A batch under way was   *)
(* planned for the push at hand, and from a fresh view its commands lead     *)
(* from the switch as it is to the one planned.  A push that went through    *)
(* is on the switch, saved, and as the driver knows it.                      *)

MeantBy(c, p, pinned) == \A k \in Device!Kinds : Meant(c[k], p[k], pinned[k])

Underway ==
  /\ MeantBy(job.sim, push, job.pins) /\ job.sim.snmp = Device!Wanted
  /\ view.fresh => /\ view.yml = yml /\ Leads(job.ops, cfg, job.sim, yml \ job.drop)
                   /\ job.at = "batch" => yml \ job.drop = yml

Done ==
  /\ job.at = "idle" /\ saved = cfg /\ cfg.snmp = Device!Wanted /\ yml \subseteq Device!Wanted
  /\ view.known => view.cfg = cfg /\ view.yml = yml
  /\ file = pins /\ Device!Resolved(pins) /\ MeantBy(cfg, push, pins)

DeviceTypeOK ==
  /\ cfg \in Tables /\ saved \in Tables /\ yml \in SUBSET Communities
  /\ view \in Views /\ pins \in PinSets /\ file \in PinSets
  /\ push \in Pushes /\ job \in DeviceJobs /\ settled \in BOOLEAN

DeviceInv ==
  /\ DeviceTypeOK
  /\ job.at # "batch" /\ view.fresh => view.cfg = cfg /\ view.yml = yml
  /\ job.at # "idle" => Underway
  /\ settled => Done

---------------------------------------------------------------------------
(* Every step keeps it. *)

LEMMA AtRest ==
  /\ Device!Idle \in DeviceJobs /\ Device!Idle.at = "idle"
  /\ Device!NoView \in Views /\ ~Device!NoView.known /\ ~Device!NoView.fresh
  /\ Device!NoPins \in PinSets
<1>1. Factory.cfg \in Tables
  BY ServersAssumption DEF Tables, PortMap
<1>2. Device!NoPins \in PinSets
  BY DEF Device!NoPins, PinSets, Pinned
<1>3. <<>> \in Seq(Commands)
  OBVIOUS
<1>4. Device!Idle \in DeviceJobs /\ Device!Idle.at = "idle"
  BY <1>1, <1>2, <1>3 DEF Device!Idle, DeviceJobs
<1>5. Device!NoView \in Views /\ ~Device!NoView.known /\ ~Device!NoView.fresh
  BY <1>1 DEF Device!NoView, Views
<1> QED
  BY <1>2, <1>4, <1>5

LEMMA DeviceInitInv == Device!Init => DeviceInv
<1> SUFFICES ASSUME Device!Init PROVE DeviceInv
  OBVIOUS
<1>1. cfg = Factory.cfg /\ saved = Factory.cfg /\ yml = Factory.yml /\ view = Device!NoView /\ pins = Device!NoPins
      /\ file = pins /\ push \in Pushes /\ job = Device!Idle /\ settled = FALSE
  BY DEF Device!Init
<1>2. Factory.cfg \in Tables
  BY ServersAssumption DEF Tables, PortMap
<1>3. Factory.yml \in SUBSET Communities
  BY SettingsAssumption
<1>4. DeviceTypeOK
  BY <1>1, <1>2, <1>3, AtRest DEF DeviceTypeOK
<1> QED
  BY <1>1, <1>4, AtRest DEF DeviceInv

LEMMA SameWanted ==
  ASSUME push' = push
  PROVE  Device!Wanted' = Device!Wanted
  BY DEF Device!Wanted

LEMMA SameResolved ==
  ASSUME push' = push, pins' = pins, Device!Resolved(pins)
  PROVE  Device!Resolved(pins)'
  BY DEF Device!Resolved

LEMMA StaysDone ==
  ASSUME Done, cfg' = cfg, saved' = saved, yml' = yml, push' = push, pins' = pins, file' = file, job'.at = "idle",
         view'.known => view'.cfg = cfg /\ view'.yml = yml
  PROVE  Done'
<1>1. saved' = cfg' /\ cfg'.snmp = Device!Wanted' /\ yml' \subseteq Device!Wanted'
  BY SameWanted DEF Done
<1>2. Device!Resolved(pins)'
  BY SameResolved DEF Done
<1>3. MeantBy(cfg, push, pins)'
  BY DEF Done, MeantBy
<1>4. file' = pins'
  BY DEF Done
<1> QED
  BY <1>1, <1>2, <1>3, <1>4 DEF Done

LEMMA Imports ==
  ASSUME NEW c \in Tables, yml \in SUBSET Communities
  PROVE  /\ Device!SNMPStart(c) \in Tables
         /\ yml \subseteq c.snmp => Device!SNMPStart(c) = c
  BY DEF Device!SNMPStart, Tables

LEMMA StaleIs ==
  ASSUME NEW v \in Views
  PROVE  LET w == [v EXCEPT !.fresh = FALSE] IN
         w \in Views /\ w.known = v.known /\ w.cfg = v.cfg /\ w.yml = v.yml /\ w.fresh = FALSE
  BY DEF Views

LEMMA OperatorKeeps ==
  ASSUME DeviceInv, NEW c \in Device!ByHand, Device!Operator(c)
  PROVE  DeviceInv'
<1>1. cfg' = c /\ settled' = FALSE /\ view' = [view EXCEPT !.fresh = FALSE]
      /\ UNCHANGED <<saved, yml, pins, file, push, job>>
  BY DEF Device!Operator
<1>2. cfg \in Tables /\ yml \in SUBSET Communities /\ view \in Views
  BY DEF DeviceInv, DeviceTypeOK
<1>3. c \in Tables
  <2>1. CASE c \in {[cfg EXCEPT !.ntp[a] = 123] : a \in Addr}
    BY <1>2, <2>1 DEF Tables, PortMap
  <2>2. CASE c \in {[cfg EXCEPT !.syslog[a] = 0] : a \in Addr}
    BY <1>2, <2>2 DEF Tables, PortMap
  <2>3. CASE c \in {Device!SNMPStart([cfg EXCEPT !.snmp = @ \cup {n}]) : n \in Communities}
    <3>1. PICK n \in Communities : c = Device!SNMPStart([cfg EXCEPT !.snmp = @ \cup {n}])
      BY <2>3
    <3>2. [cfg EXCEPT !.snmp = @ \cup {n}] \in Tables
      BY <1>2 DEF Tables
    <3> QED
      BY <1>2, <3>1, <3>2, Imports
  <2> QED
    BY <2>1, <2>2, <2>3 DEF Device!ByHand
<1>4. view' \in Views /\ ~view'.fresh
  BY <1>1, <1>2, StaleIs
<1>5. DeviceTypeOK'
  BY <1>1, <1>3, <1>4 DEF DeviceInv, DeviceTypeOK
<1>6. job'.at # "idle" => Underway'
  BY <1>1, <1>4, SameWanted DEF DeviceInv, Underway, MeantBy
<1> QED
  BY <1>1, <1>4, <1>5, <1>6 DEF DeviceInv

\* A batch cut off: the job is at rest and the view no longer fresh.
LEMMA CutOffKeeps ==
  ASSUME DeviceInv, job' = Device!Idle, view' = [view EXCEPT !.fresh = FALSE],
         UNCHANGED <<saved, yml, pins, file, push, settled>>, cfg' \in Tables, settled => cfg' = cfg
  PROVE  DeviceInv'
<1>1. view' \in Views /\ view'.known = view.known /\ view'.cfg = view.cfg /\ view'.yml = view.yml /\ ~view'.fresh
  <2>1. view \in Views
    BY DEF DeviceInv, DeviceTypeOK
  <2> QED
    BY <2>1, StaleIs
<1>2. DeviceTypeOK'
  BY <1>1, AtRest DEF DeviceInv, DeviceTypeOK
<1>3. settled' => Done'
  <2>1. ASSUME settled PROVE Done'
    <3>1. Done
      BY <2>1 DEF DeviceInv
    <3>2. view'.known => view'.cfg = cfg /\ view'.yml = yml
      BY <1>1, <3>1 DEF Done
    <3> QED
      BY <2>1, <3>1, <3>2, AtRest, StaysDone
  <2> QED
    BY <2>1
<1> QED
  BY <1>1, <1>2, <1>3, AtRest DEF DeviceInv

LEMMA RebootKeeps ==
  ASSUME DeviceInv, Device!Reboot
  PROVE  DeviceInv'
<1>1. saved \in Tables /\ yml \in SUBSET Communities
  BY DEF DeviceInv, DeviceTypeOK
<1>2. cfg' = Device!SNMPStart(saved) /\ job' = Device!Idle /\ view' = [view EXCEPT !.fresh = FALSE]
      /\ UNCHANGED <<saved, yml, pins, file, push, settled>>
  BY DEF Device!Reboot
<1>3. cfg' \in Tables
  BY <1>1, <1>2, Imports
<1>4. ASSUME settled PROVE cfg' = cfg
  <2>1. saved = cfg /\ yml \subseteq saved.snmp
    BY <1>4 DEF DeviceInv, Done
  <2> QED
    BY <1>1, <1>2, <2>1, Imports
<1> QED
  BY <1>2, <1>3, <1>4, CutOffKeeps

LEMMA EndKeeps ==
  ASSUME DeviceInv, Device!Refused \/ Device!ConnectionLost
  PROVE  DeviceInv'
<1>1. cfg' = cfg /\ job' = Device!Idle /\ view' = [view EXCEPT !.fresh = FALSE]
      /\ UNCHANGED <<saved, yml, pins, file, push, settled>>
  BY DEF Device!Refused, Device!ConnectionLost
<1>2. cfg' \in Tables
  BY <1>1 DEF DeviceInv, DeviceTypeOK
<1> QED
  BY <1>1, <1>2, CutOffKeeps

LEMMA PushKeeps ==
  ASSUME DeviceInv, NEW p \in Pushes, Device!Push(p)
  PROVE  DeviceInv'
<1>1. job = Device!Idle /\ push' = p /\ settled' = FALSE /\ UNCHANGED <<cfg, saved, yml, view, pins, file, job>>
  BY DEF Device!Push
<1>2. DeviceTypeOK'
  BY <1>1 DEF DeviceInv, DeviceTypeOK
<1> QED
  BY <1>1, <1>2, AtRest DEF DeviceInv

LEMMA CollectKeeps ==
  ASSUME DeviceInv, Device!Collect
  PROVE  DeviceInv'
<1>1. job = Device!Idle /\ view' = [cfg |-> cfg, yml |-> yml, known |-> TRUE, fresh |-> TRUE]
      /\ UNCHANGED <<cfg, saved, yml, pins, file, push, job, settled>>
  BY DEF Device!Collect
<1>2. view' \in Views /\ view'.cfg = cfg /\ view'.yml = yml
  BY <1>1 DEF DeviceInv, DeviceTypeOK, Views
<1>3. DeviceTypeOK'
  BY <1>1, <1>2 DEF DeviceInv, DeviceTypeOK
<1>4. settled' => Done'
  BY <1>1, <1>2, AtRest, StaysDone DEF DeviceInv
<1> QED
  BY <1>1, <1>2, <1>3, <1>4, AtRest DEF DeviceInv

LEMMA CrashKeeps ==
  ASSUME DeviceInv, Device!Crash
  PROVE  DeviceInv'
<1>1. view' = Device!NoView /\ pins' = file /\ job' = Device!Idle /\ UNCHANGED <<cfg, saved, yml, file, push, settled>>
  BY DEF Device!Crash
<1>2. settled => pins' = pins
  BY <1>1 DEF DeviceInv, Done
<1>3. DeviceTypeOK'
  BY <1>1, AtRest DEF DeviceInv, DeviceTypeOK
<1>4. settled' => Done'
  BY <1>1, <1>2, AtRest, StaysDone DEF DeviceInv
<1> QED
  BY <1>1, <1>3, <1>4, AtRest DEF DeviceInv

LEMMA AfterTable ==
  ASSUME NEW c \in Tables, NEW o \in Commands, yml \in SUBSET Communities
  PROVE  Device!After(c, o) \in Tables
<1>1. yml \subseteq Communities
  OBVIOUS
<1> QED
  BY <1>1, ThenIs, Zenon

\* The pins as commitManaged leaves them.
LEMMA ManagedIs ==
  ASSUME NEW p \in PinSets, Device!CommitManaged(p), DeviceInv
  PROVE  pins' = p /\ pins' \in PinSets /\ file' \in PinSets
  BY DEF Device!CommitManaged, DeviceInv, DeviceTypeOK

LEMMA RewriteKeeps ==
  ASSUME DeviceInv, Device!RewriteYml
  PROVE  DeviceInv'
<1>1. job.at = "yml" /\ yml' = yml \ job.drop /\ view' = [view EXCEPT !.yml = @ \ job.drop]
      /\ UNCHANGED <<cfg, saved, push>>
  BY DEF Device!RewriteYml
<1>2. view \in Views /\ job \in DeviceJobs /\ yml \in SUBSET Communities /\ cfg \in Tables
  BY DEF DeviceInv, DeviceTypeOK
<1>3. view' \in Views /\ view'.fresh = view.fresh /\ view'.yml = view.yml \ job.drop /\ view'.cfg = view.cfg
  BY <1>1, <1>2 DEF Views
<1>4. Underway
  BY <1>1 DEF DeviceInv
<1>5. job.sim \in Tables /\ job.pins \in PinSets
  BY <1>2 DEF DeviceJobs
<1>6. CASE job.ops = <<>>
  <2>1. /\ Device!CommitManaged(job.pins) /\ job' = Device!Idle
        /\ settled' = (view.fresh /\ saved = cfg /\ Device!Resolved(job.pins) /\ file' = job.pins)
    BY <1>6 DEF Device!RewriteYml
  <2>2. pins' = job.pins /\ pins' \in PinSets /\ file' \in PinSets
    BY <1>5, <2>1, ManagedIs
  <2>3. settled' \in BOOLEAN
    BY <2>1
  <2>4. DeviceTypeOK'
    BY <1>1, <1>2, <1>3, <2>1, <2>2, <2>3, AtRest DEF DeviceInv, DeviceTypeOK
  <2>5. view.fresh => view'.cfg = cfg' /\ view'.yml = yml'
    BY <1>1, <1>3 DEF DeviceInv
  <2>6. ASSUME settled' PROVE Done'
    <3>1. view.fresh /\ saved = cfg /\ Device!Resolved(job.pins) /\ file' = job.pins
      BY <2>1, <2>6
    <3>2. Leads(<<>>, cfg, job.sim, yml')
      BY <1>1, <1>4, <1>6, <3>1 DEF Underway
    <3>3. cfg = job.sim /\ yml' \subseteq cfg.snmp
      BY <1>2, <1>5, <3>2, LeadsThere
    <3>4. cfg'.snmp = Device!Wanted' /\ yml' \subseteq Device!Wanted'
      BY <1>1, <1>4, <3>3, SameWanted DEF Underway
    <3>5. Device!Resolved(pins)'
      BY <1>1, <2>2, <3>1 DEF Device!Resolved
    <3>6. MeantBy(cfg, push, pins)'
      BY <1>1, <1>4, <2>2, <3>3 DEF Underway, MeantBy
    <3> QED
      BY <1>1, <2>1, <2>2, <2>5, <3>1, <3>4, <3>5, <3>6, AtRest DEF Done
  <2> QED
    BY <1>3, <2>1, <2>4, <2>5, <2>6, AtRest DEF DeviceInv
<1>7. CASE job.ops # <<>>
  <2>1. job' = [job EXCEPT !.at = "batch"] /\ UNCHANGED <<pins, file, settled>>
    BY <1>7 DEF Device!RewriteYml
  <2>2. job' \in DeviceJobs /\ job'.at = "batch" /\ job'.ops = job.ops /\ job'.drop = job.drop
        /\ job'.sim = job.sim /\ job'.pins = job.pins
    BY <1>2, <2>1 DEF DeviceJobs
  <2>3. DeviceTypeOK'
    BY <1>1, <1>2, <1>3, <2>1, <2>2 DEF DeviceInv, DeviceTypeOK
  <2>4. Underway'
    <3>1. MeantBy(job.sim, push, job.pins)'
      BY <1>1, <1>4, <2>2 DEF Underway, MeantBy
    <3>2. job'.sim.snmp = Device!Wanted'
      BY <1>1, <1>4, <2>2, SameWanted DEF Underway
    <3>3. yml' \ job'.drop = yml \ job.drop /\ yml' \ job'.drop = yml'
      BY <1>1, <2>2
    <3>4. view'.fresh => view'.yml = yml'
      BY <1>1, <1>3, <1>4 DEF Underway
    <3>5. view'.fresh => Leads(job'.ops, cfg', job'.sim, yml' \ job'.drop)
      BY <1>1, <1>3, <1>4, <2>2, <3>3 DEF Underway
    <3> QED
      BY <3>1, <3>2, <3>3, <3>4, <3>5 DEF Underway
  <2>5. ~settled'
    BY <1>1, <2>1 DEF DeviceInv, Done
  <2> QED
    BY <2>2, <2>3, <2>4, <2>5 DEF DeviceInv
<1> QED
  BY <1>6, <1>7

LEMMA RunOpKeeps ==
  ASSUME DeviceInv, Device!RunOp
  PROVE  DeviceInv'
<1>1. job.at = "batch" /\ job.ops # <<>> /\ cfg' = Device!After(cfg, Head(job.ops))
      /\ job' = [job EXCEPT !.ops = Tail(@)] /\ UNCHANGED <<saved, yml, view, pins, file, push, settled>>
  BY DEF Device!RunOp
<1>2. cfg \in Tables /\ job \in DeviceJobs /\ yml \in SUBSET Communities
  BY DEF DeviceInv, DeviceTypeOK
<1>3. job.ops \in Seq(Commands) /\ job.sim \in Tables
  BY <1>2 DEF DeviceJobs
<1>4. Head(job.ops) \in Commands /\ Tail(job.ops) \in Seq(Commands)
  BY <1>1, <1>3
<1>5. cfg' \in Tables
  BY <1>1, <1>2, <1>4, AfterTable
<1>6. job' \in DeviceJobs /\ job'.at = "batch" /\ job'.ops = Tail(job.ops) /\ job'.drop = job.drop
      /\ job'.sim = job.sim /\ job'.pins = job.pins
  BY <1>1, <1>2, <1>4 DEF DeviceJobs
<1>7. DeviceTypeOK'
  BY <1>1, <1>5, <1>6 DEF DeviceInv, DeviceTypeOK
<1>8. Underway
  BY <1>1 DEF DeviceInv
<1>9. view'.fresh => Leads(job'.ops, cfg', job'.sim, yml' \ job'.drop)
  <2>1. ASSUME view.fresh PROVE Leads(Tail(job.ops), Device!After(cfg, Head(job.ops)), job.sim, yml)
    <3>1. Leads(job.ops, cfg, job.sim, yml)
      BY <1>1, <1>8, <2>1 DEF Underway
    <3> QED
      BY <1>1, <1>2, <1>3, <3>1, LeadsOn
  <2>2. view.fresh => yml' \ job'.drop = yml
    BY <1>1, <1>6, <1>8 DEF Underway
  <2> QED
    BY <1>1, <1>6, <2>1, <2>2
<1>10. Underway'
  <2>1. MeantBy(job.sim, push, job.pins)'
    BY <1>1, <1>6, <1>8 DEF Underway, MeantBy
  <2>2. job'.sim.snmp = Device!Wanted'
    BY <1>1, <1>6, <1>8, SameWanted DEF Underway
  <2>3. view'.fresh => view'.yml = yml' /\ yml' \ job'.drop = yml'
    BY <1>1, <1>6, <1>8 DEF Underway
  <2> QED
    BY <1>9, <2>1, <2>2, <2>3 DEF Underway
<1>11. ~settled'
  BY <1>1 DEF DeviceInv, Done
<1> QED
  BY <1>6, <1>7, <1>10, <1>11 DEF DeviceInv

LEMMA CommitKeeps ==
  ASSUME DeviceInv, Device!Commit
  PROVE  DeviceInv'
<1>1. job.at = "batch" /\ job.ops = <<>> /\ saved' = cfg /\ view' = [view EXCEPT !.cfg = job.sim]
      /\ Device!CommitManaged(job.pins) /\ settled' = (view.fresh /\ Device!Resolved(job.pins) /\ file' = job.pins)
      /\ job' = Device!Idle /\ UNCHANGED <<cfg, yml, push>>
  BY DEF Device!Commit, Device!Save
<1>2. cfg \in Tables /\ view \in Views /\ job \in DeviceJobs
  BY DEF DeviceInv, DeviceTypeOK
<1>3. job.sim \in Tables /\ job.pins \in PinSets
  BY <1>2 DEF DeviceJobs
<1>9. pins' = job.pins /\ pins' \in PinSets /\ file' \in PinSets
  BY <1>1, <1>3, ManagedIs
<1>4. view' \in Views /\ view'.cfg = job.sim /\ view'.yml = view.yml /\ view'.fresh = view.fresh
  BY <1>1, <1>2, <1>3 DEF Views
<1>5. DeviceTypeOK'
  <2>1. settled' \in BOOLEAN
    BY <1>1
  <2> QED
    BY <1>1, <1>2, <1>4, <1>9, <2>1, AtRest DEF DeviceInv, DeviceTypeOK
<1>6. Underway
  BY <1>1 DEF DeviceInv
<1>7. ASSUME view.fresh PROVE cfg = job.sim /\ yml \subseteq cfg.snmp /\ view.yml = yml
  <2>1. Leads(<<>>, cfg, job.sim, yml) /\ view.yml = yml
    BY <1>1, <1>6, <1>7 DEF Underway
  <2> QED
    BY <1>2, <1>3, <2>1, LeadsThere
<1>8. ASSUME settled' PROVE Done'
  <2>1. view.fresh /\ Device!Resolved(job.pins) /\ file' = job.pins
    BY <1>1, <1>8
  <2>2. cfg'.snmp = Device!Wanted' /\ yml' \subseteq Device!Wanted'
    BY <1>1, <1>6, <1>7, <2>1, SameWanted DEF Underway
  <2>3. Device!Resolved(pins)'
    BY <1>1, <1>9, <2>1 DEF Device!Resolved
  <2>4. MeantBy(cfg, push, pins)'
    BY <1>1, <1>6, <1>7, <1>9, <2>1 DEF Underway, MeantBy
  <2> QED
    BY <1>1, <1>4, <1>7, <1>9, <2>1, <2>2, <2>3, <2>4, AtRest DEF Done
<1> QED
  BY <1>1, <1>4, <1>5, <1>7, <1>8, AtRest DEF DeviceInv

\* A hostname whose address is on the switch keeps it at the next apply.
LEMMA KeepsResolved ==
  ASSUME DeviceInv, Done, view.known, NEW dns \in Pinned
  PROVE  Device!Resolved(PlannedPins(dns))
<1>1. view \in Views /\ pins \in PinSets /\ push \in Pushes
  BY DEF DeviceInv, DeviceTypeOK
<1>2. PICK planned : planned = PlannedPins(dns)
  OBVIOUS
<1>3. \A k \in Device!Kinds : \A h \in Named(push[k]) \cap Hosts :
        pins[k][h] # NoAddr /\ view.cfg[k][pins[k][h]] # 0 => planned[k][h] = pins[k][h]
  BY <1>1, <1>2, PlanIsSound
<1>4. ASSUME NEW k \in Device!Kinds, NEW e \in Device!ToSet(push[k]), e.host \in Hosts
      PROVE  planned[k][e.host] # NoAddr
  <2>1. PICK j \in DOMAIN push[k] : e = push[k][j]
    BY DEF Device!ToSet
  <2>2. pins[k][e.host] # NoAddr
    BY <1>4 DEF Done, Device!Resolved
  <2>3. e.host \notin Addr
    BY <1>4, ServersAssumption
  <2>4. Device!At(e, pins[k]) = pins[k][e.host]
    BY <2>3 DEF Device!At
  <2>5. cfg[k][pins[k][e.host]] # 0
    BY <2>1, <2>2, <2>4 DEF Done, MeantBy, Meant
  <2>6. e.host \in Named(push[k]) \cap Hosts
    BY <1>4, <2>1 DEF Named
  <2>7. view.cfg = cfg
    BY DEF Done
  <2> QED
    BY <1>3, <2>2, <2>5, <2>6, <2>7
<1> QED
  BY <1>2, <1>4 DEF Device!Resolved

LEMMA ApplyKeeps ==
  ASSUME DeviceInv, NEW dns \in Device!Answers, Device!ApplyDevice(dns)
  PROVE  DeviceInv'
<1>1. PICK planned, sim, ops :
        planned = PlannedPins(dns) /\ sim = Device!Sim(dns) /\ ops = Device!Ops(dns)
  OBVIOUS
<1>2. dns \in Pinned
  BY DEF Device!Answers, Pinned
<1>3. /\ cfg \in Tables /\ saved \in Tables /\ yml \in SUBSET Communities /\ view \in Views /\ pins \in PinSets
      /\ push \in Pushes /\ job \in DeviceJobs /\ settled \in BOOLEAN
  BY DEF DeviceInv, DeviceTypeOK
<1>4. /\ ops \in Seq(Commands) /\ sim \in Tables /\ planned \in PinSets
      /\ Leads(ops, view.cfg, sim, view.yml \ Device!YmlDrop)
      /\ sim.snmp = Device!Wanted
      /\ MeantBy(sim, push, planned)
  BY <1>1, <1>2, <1>3, PlanIsSound DEF MeantBy
<1>5. job.at = "idle" /\ job = Device!Idle /\ view.known /\ UNCHANGED <<cfg, saved, yml, view, push>>
  BY AtRest DEF Device!ApplyDevice
<1>6. view.fresh => view.cfg = cfg /\ view.yml = yml
  BY <1>5 DEF DeviceInv
<1>7. view.cfg \in Tables /\ view.yml \in SUBSET Communities
  BY <1>3 DEF Views
<1>8. CASE Device!YmlDrop = {} /\ ops = <<>>
  <2>1. Device!CommitManaged(planned) /\ job' = job
        /\ settled' = ((settled \/ (view.fresh /\ saved = cfg /\ Device!Resolved(planned))) /\ file' = planned)
    BY <1>1, <1>8 DEF Device!ApplyDevice, PlannedPins
  <2>6. pins' = planned /\ pins' \in PinSets /\ file' \in PinSets
    BY <1>4, <2>1, ManagedIs
  <2>2. settled' \in BOOLEAN
    BY <1>3, <2>1
  <2>3. DeviceTypeOK'
    BY <1>3, <1>5, <2>1, <2>2, <2>6 DEF DeviceTypeOK
  <2>4. view.cfg = sim /\ view.yml \subseteq sim.snmp
    <3>1. Leads(<<>>, view.cfg, sim, view.yml)
      BY <1>4, <1>8
    <3> QED
      BY <1>4, <1>7, <3>1, LeadsThere
  <2>5. ASSUME settled' PROVE Done'
    <3>1. view.cfg = cfg /\ view.yml = yml /\ saved = cfg /\ Device!Resolved(planned)
      <4>1. CASE settled
        <5>1. Done
          BY <4>1 DEF DeviceInv
        <5>2. Device!Resolved(planned)
          BY <1>1, <1>2, <1>5, <5>1, KeepsResolved
        <5> QED
          BY <1>5, <5>1, <5>2 DEF Done
      <4>2. CASE ~settled
        BY <1>6, <2>1, <2>5, <4>2
      <4> QED
        BY <4>1, <4>2
    <3>2. saved' = cfg' /\ cfg'.snmp = Device!Wanted' /\ yml' \subseteq Device!Wanted'
      BY <1>4, <1>5, <2>4, <3>1, SameWanted
    <3>3. Device!Resolved(pins)'
      BY <1>5, <2>6, <3>1 DEF Device!Resolved
    <3>4. MeantBy(cfg, push, pins)'
      BY <1>4, <1>5, <2>6, <2>4, <3>1 DEF MeantBy
    <3> QED
      BY <1>5, <2>1, <2>5, <2>6, <3>1, <3>2, <3>3, <3>4 DEF Done
  <2> QED
    BY <1>5, <1>6, <2>1, <2>3, <2>5 DEF DeviceInv
<1>9. CASE ~(Device!YmlDrop = {} /\ ops = <<>>)
  <2>1. /\ job' = [at |-> IF Device!YmlDrop # {} THEN "yml" ELSE "batch", ops |-> ops, drop |-> Device!YmlDrop,
                   sim |-> sim, pins |-> planned]
        /\ settled' = FALSE /\ UNCHANGED <<pins, file>>
    BY <1>1, <1>9 DEF Device!ApplyDevice, PlannedPins
  <2>2. Device!YmlDrop \in SUBSET Communities
    BY <1>7 DEF Device!YmlDrop
  <2>3. job' \in DeviceJobs /\ job'.at # "idle" /\ (job'.at = "batch" => job'.drop = {}) /\ job'.ops = ops
        /\ job'.drop = Device!YmlDrop /\ job'.sim = sim /\ job'.pins = planned
    BY <1>4, <2>1, <2>2 DEF DeviceJobs
  <2>4. DeviceTypeOK'
    BY <1>5, <2>1, <2>3 DEF DeviceInv, DeviceTypeOK
  <2>5. Underway'
    <3>1. MeantBy(job.sim, push, job.pins)'
      BY <1>4, <1>5, <2>3 DEF MeantBy
    <3>2. job'.sim.snmp = Device!Wanted'
      BY <1>4, <1>5, <2>3, SameWanted
    <3>3. view'.fresh => view'.yml = yml' /\ Leads(job'.ops, cfg', job'.sim, yml' \ job'.drop)
      BY <1>4, <1>5, <1>6, <2>3
    <3>4. job'.at = "batch" => yml' \ job'.drop = yml'
      BY <2>3
    <3> QED
      BY <3>1, <3>2, <3>3, <3>4 DEF Underway
  <2> QED
    BY <1>5, <1>6, <2>1, <2>3, <2>4, <2>5 DEF DeviceInv
<1> QED
  BY <1>8, <1>9

LEMMA DeviceNextKeeps ==
  ASSUME DeviceInv, Device!Next
  PROVE  DeviceInv'
<1>1. CASE \E c \in Device!ByHand : Device!Operator(c)
  BY <1>1, OperatorKeeps
<1>2. CASE \E p \in Pushes : Device!Push(p)
  BY <1>2, PushKeeps
<1>3. CASE \E d \in Device!Answers : Device!ApplyDevice(d)
  BY <1>3, ApplyKeeps
<1> QED
  BY <1>1, <1>2, <1>3, RebootKeeps, CollectKeeps, RewriteKeeps, RunOpKeeps, EndKeeps, CommitKeeps, CrashKeeps,
     Zenon DEF Device!Next

LEMMA DeviceRests ==
  ASSUME DeviceInv, UNCHANGED deviceVars
  PROVE  DeviceInv'
<1>1. UNCHANGED <<cfg, saved, yml, view, pins, file, push, job, settled>>
  BY DEF deviceVars
<1>2. DeviceTypeOK'
  BY <1>1 DEF DeviceInv, DeviceTypeOK
<1>3. Underway => Underway'
  BY <1>1, SameWanted DEF Underway, MeantBy
<1>4. Done => Done'
  <2>1. ASSUME Done PROVE Done'
    <3>1. job'.at = "idle" /\ (view'.known => view'.cfg = cfg /\ view'.yml = yml)
      BY <1>1, <2>1 DEF Done
    <3> QED
      BY <1>1, <2>1, <3>1, StaysDone
  <2> QED
    BY <2>1
<1> QED
  BY <1>1, <1>2, <1>3, <1>4 DEF DeviceInv

---------------------------------------------------------------------------
(* What the invariant says of a push that went through. *)

LEMMA DoneListed ==
  ASSUME DeviceInv, settled, NEW k \in Device!Kinds, NEW j \in DOMAIN push[k]
  PROVE  LET a == Device!At(push[k][j], pins[k]) IN a \in Addr /\ cfg[k][a] # 0
<1>1. Done
  BY DEF DeviceInv
<1>2. PICK e : e = push[k][j]
  OBVIOUS
<1>3. e \in Entry
  <2>1. push[k] \in Servers
    BY PushIs DEF DeviceInv, DeviceTypeOK
  <2> QED
    BY <1>2, <2>1 DEF Servers
<1>4. e.host \in Hosts \cup Addr
  BY <1>3 DEF Entry
<1>5. e \in Device!ToSet(push[k])
  BY <1>2 DEF Device!ToSet
<1>6. Device!At(e, pins[k]) # NoAddr
  <2>1. CASE e.host \in Addr
    BY <2>1, ServersAssumption DEF Device!At
  <2>2. CASE e.host \notin Addr
    <3>1. pins[k][e.host] # NoAddr
      BY <1>1, <1>4, <1>5, <2>2 DEF Done, Device!Resolved
    <3> QED
      BY <2>2, <3>1 DEF Device!At
  <2> QED
    BY <2>1, <2>2
<1>7. Meant(cfg[k], push[k], pins[k])
  BY <1>1 DEF Done, MeantBy
<1> QED
  BY <1>2, <1>6, <1>7 DEF Meant

LEMMA DoneIsThePush == DeviceInv => OnlyThePush
<1> SUFFICES ASSUME DeviceInv, settled
             PROVE  /\ \A k \in Device!Kinds : /\ {<<a, cfg[k][a]>> : a \in Device!On(k)} \subseteq Device!Listed(k)
                                                 /\ {s[1] : s \in Device!Listed(k)} \subseteq Device!On(k)
                    /\ cfg.snmp = Device!Wanted
  BY DEF OnlyThePush, Device!OnlyThePush
<1>1. Done /\ file = pins
  BY DEF DeviceInv, Done
<1>2. ASSUME NEW k \in Device!Kinds, NEW a \in Device!On(k) PROVE <<a, cfg[k][a]>> \in Device!Listed(k)
  <2>1. a \in Addr /\ cfg[k][a] # 0
    BY <1>2 DEF Device!On
  <2>2. Meant(cfg[k], push[k], pins[k])
    BY <1>1 DEF Done, MeantBy
  <2>3. PICK j \in DOMAIN push[k] : a = Device!At(push[k][j], pins[k]) /\ cfg[k][a] = push[k][j].port
    BY <2>1, <2>2 DEF Meant
  <2>4. push[k][j] \in Device!ToSet(push[k])
    BY DEF Device!ToSet
  <2> QED
    BY <1>1, <2>3, <2>4 DEF Device!Listed
<1>3. ASSUME NEW k \in Device!Kinds, NEW s \in Device!Listed(k) PROVE s[1] \in Device!On(k)
  <2>1. PICK e \in Device!ToSet(push[k]) : s = <<Device!At(e, file[k]), e.port>>
    BY DEF Device!Listed
  <2>2. PICK j \in DOMAIN push[k] : e = push[k][j]
    BY DEF Device!ToSet
  <2>3. Device!At(e, pins[k]) \in Addr /\ cfg[k][Device!At(e, pins[k])] # 0
    BY <2>2, DoneListed
  <2>4. s[1] = Device!At(e, pins[k])
    BY <1>1, <2>1
  <2> QED
    BY <2>3, <2>4 DEF Device!On
<1>4. cfg.snmp = Device!Wanted
  BY <1>1 DEF Done
<1> QED
  BY <1>2, <1>3, <1>4

LEMMA DoneIsQuiet == DeviceInv => NoChurn
<1> SUFFICES ASSUME DeviceInv, settled, view.known, Device!Apart, NEW dns \in Device!Answers
             PROVE  Device!Ops(dns) = <<>> /\ Device!YmlDrop = {}
  BY DEF NoChurn, Device!NoChurn
<1>1. Done /\ file = pins /\ view \in Views /\ pins \in PinSets /\ push \in Pushes
  BY DEF DeviceInv, DeviceTypeOK, Done
<1>2. view.cfg = cfg /\ view.yml = yml
  BY <1>1 DEF Done
<1>3. ASSUME NEW k \in Device!Kinds PROVE AsListed(push[k], cfg[k], pins[k])
  <2>1. Meant(cfg[k], push[k], pins[k])
    BY <1>1 DEF Done, MeantBy
  <2>2. ASSUME NEW j \in DOMAIN push[k]
        PROVE  Device!At(push[k][j], pins[k]) \in Addr /\ cfg[k][Device!At(push[k][j], pins[k])] = push[k][j].port
    <3>1. PICK a : a = Device!At(push[k][j], pins[k])
      OBVIOUS
    <3>2. a \in Addr /\ cfg[k][a] # 0
      BY <3>1, DoneListed
    <3>3. PICK i \in DOMAIN push[k] : a = Device!At(push[k][i], pins[k]) /\ cfg[k][a] = push[k][i].port
      BY <2>1, <3>2 DEF Meant
    <3>4. push[k][i] \in Device!ToSet(push[k]) /\ push[k][j] \in Device!ToSet(push[k])
      BY DEF Device!ToSet
    <3>5. <<a, push[k][i].port>> \in Device!Listed(k) /\ <<a, push[k][j].port>> \in Device!Listed(k)
      BY <1>1, <3>1, <3>3, <3>4 DEF Device!Listed
    <3>6. push[k][i].port = push[k][j].port
      <4>1. PICK s, t : s = <<a, push[k][i].port>> /\ t = <<a, push[k][j].port>>
        OBVIOUS
      <4>2. s \in Device!Listed(k) /\ t \in Device!Listed(k) /\ s[1] = t[1]
        BY <3>5, <4>1
      <4>3. s[2] = t[2]
        BY <4>2 DEF Device!Apart
      <4> QED
        BY <4>1, <4>3
    <3> QED
      BY <3>1, <3>2, <3>3, <3>6
  <2> QED
    BY <2>2 DEF AsListed
<1>4. \A k \in Device!Kinds : Meant(view.cfg[k], push[k], pins[k]) /\ AsListed(push[k], view.cfg[k], pins[k])
  BY <1>1, <1>2, <1>3 DEF Done, MeantBy
<1>5. view.cfg.snmp = Device!Wanted
  BY <1>1, <1>2 DEF Done
<1>6. dns \in Pinned
  BY DEF Device!Answers, Pinned
<1>7. Device!Ops(dns) = <<>>
  BY <1>1, <1>4, <1>5, <1>6, PlanIsSound
<1>8. Device!YmlDrop = {}
  BY <1>1, <1>2 DEF Done, Device!YmlDrop
<1> QED
  BY <1>7, <1>8

---------------------------------------------------------------------------
(* The theorems. *)

L2Inv == L2TypeOK /\ ReturnInv /\ DownInv

LEMMA L2Invariant == Spec => []L2Inv
<1>1. Init => L2Inv
  BY L2InitType, L2InitReturns, L2InitDown DEF Init, L2Inv
<1>2. L2Inv /\ [Next]_vars => L2Inv'
  <2> SUFFICES ASSUME L2Inv, [Next]_vars PROVE L2Inv'
    OBVIOUS
  <2>1. CASE L2!Next
    BY <2>1, L2NextType, L2NextReturns, L2NextDown DEF L2Inv
  <2>2. CASE UNCHANGED l2Vars
    <3>1. UNCHANGED <<sw, cuts, intent, want, seen, l2view, turn, l2job, asked, unmarked, untimed>>
      BY <2>2 DEF l2Vars
    <3>2. L2TypeOK'
      BY <3>1 DEF L2Inv, L2TypeOK
    <3>3. ReturnInv'
      BY <3>1 DEF L2Inv, ReturnInv, Standing, Guarded, Planned, Armed, Proven
    <3>4. DownInv'
      BY <3>1 DEF L2Inv, DownInv, Numbered, Marked
    <3> QED
      BY <3>2, <3>3, <3>4 DEF L2Inv
  <2> QED
    BY <2>1, <2>2 DEF Next, L2Step, DeviceStep, vars
<1> QED
  BY <1>1, <1>2, PTL DEF Spec

(* Spanning tree the dead-man undid stays down until the controller has had *)
(* it off (applyL2's latch), for any number of firings at any moment, of    *)
(* restarts and of connections lost, and whatever the intents, unless a     *)
(* config planned on a collect from before the firing was written over the  *)
(* mark.                                                                    *)
THEOREM StaysDown == Spec => []UndoneStaysDown
<1>1. L2Inv => UndoneStaysDown
  BY DEF L2Inv, DownInv, Marked, UndoneStaysDown, L2!UndoneStaysDown
<1> QED
  BY <1>1, L2Invariant, PTL

(* A switch that a first enable of spanning tree cut off from the bridge    *)
(* has a timer running that takes it back, or the script that is about to   *)
(* arm it, or a config that has it off (applyL2's batch, confirmL2), unless *)
(* a batch ended between config and timer, a reboot took the timer away, or *)
(* the driver took an undone spanning tree for a running one.               *)
THEOREM CutOffReturns == Spec => []Returns
<1>1. L2Inv => Returns
  BY WindowIs DEF L2Inv, ReturnInv, Guarded, Proven, Returns, L2!Returns, L2!Reachable
<1> QED
  BY <1>1, L2Invariant, PTL

LEMMA DeviceInvariant == Spec => []DeviceInv
<1>1. Init => DeviceInv
  BY DeviceInitInv DEF Init
<1>2. DeviceInv /\ [Next]_vars => DeviceInv'
  <2> SUFFICES ASSUME DeviceInv, [Next]_vars PROVE DeviceInv'
    OBVIOUS
  <2>1. CASE Device!Next
    BY <2>1, DeviceNextKeeps
  <2>2. CASE UNCHANGED deviceVars
    BY <2>2, DeviceRests
  <2> QED
    BY <2>1, <2>2 DEF Next, L2Step, DeviceStep, vars
<1> QED
  BY <1>1, <1>2, PTL DEF Spec

(* A push that went through leaves on the switch its servers, at the         *)
(* addresses their names were pinned to, and its community, and nothing      *)
(* else, for every list of servers, whatever the names resolve to, over any  *)
(* number of restarts of the switch and of the bridge (applyDevice).         *)
THEOREM LeavesOnlyThePush == Spec => []OnlyThePush
  BY DeviceInvariant, DoneIsThePush, PTL

(* After such a push the next apply writes nothing, whatever the hostnames   *)
(* now resolve to, unless two servers of the push share an address under     *)
(* different ports (pinnedIP, the pins in sonic-managed.json).               *)
THEOREM AppliesOnce == Spec => []NoChurn
  BY DeviceInvariant, DoneIsQuiet, PTL

=============================================================================

--------------------------- MODULE SonicAclProofs ---------------------------
(***************************************************************************)
(* What the ACL tables of SonicAcl decide, proved for any addresses, VLANs,  *)
(* rules, pushes and faults.  The static part shows what the folds of       *)
(* applyACL compute (SyncTableIs, AclBatchIs: the batch leaves the tables    *)
(* the push speaks of with its rules and the others as they were), what a    *)
(* table of ordered rules decides (FirstHitDecides) and that the two tests   *)
(* for the bridge's own traffic are sound (IpReachable, MacReachable).  The  *)
(* dynamic part carries through every step that a batch under way ends in    *)
(* the simulated tables, and that those of a batch that ended hold what      *)
(* aclSet made of the push; and, for the guards, that every single command   *)
(* of a batch leaves a DROP only beside its FORWARDs (Safely, OrderInv).     *)
(***************************************************************************)
EXTENDS SonicAcl, InductionLemmas, FiniteSetTheorems, TLAPS

Fields ==
  [vlan : Nat, servers : SUBSET Hosts]
  \cup [proto : Protos, src : SUBSET Hosts, dst : SUBSET Hosts, sports : SUBSET Ports, dports : SUBSET Ports]
  \cup [vlan : Nat, src : SUBSET Macs, dst : SUBSET Macs]
Rule == [prio : Int, permit : BOOLEAN, fields : Fields]
FiniteNames == {N \in SUBSET Nat : IsFiniteSet(N)}
RuleMaps == UNION {[N -> Rule] : N \in FiniteNames}
Bounds == {"none", "ours", "stale", "foreign"}
Table == [bound : Bounds, rules : RuleMaps]
Dbs == [Tables -> Table]
Commands ==
  [op : {"bind", "remove"}, table : Tables]
  \cup [op : {"del"}, table : Tables, rule : Nat]
  \cup [op : {"set"}, table : Tables, rule : Nat, to : Rule]
Plans == [ops : Seq(Commands), sim : Dbs]

LEMMA NoRules == <<>> \in RuleMaps /\ DOMAIN <<>> = {}
<1>1. {} \in FiniteNames
  BY FS_EmptySet DEF FiniteNames
<1>2. <<>> \in [{} -> Rule]
  OBVIOUS
<1> QED
  BY <1>1, <1>2 DEF RuleMaps

LEMMA MapShape ==
  ASSUME NEW m
  PROVE  m \in RuleMaps <=> /\ m = [x \in DOMAIN m |-> m[x]] /\ DOMAIN m \in FiniteNames
                            /\ \A x \in DOMAIN m : m[x] \in Rule
<1>1. ASSUME m \in RuleMaps PROVE /\ m = [x \in DOMAIN m |-> m[x]] /\ DOMAIN m \in FiniteNames
                                  /\ \A x \in DOMAIN m : m[x] \in Rule
  BY <1>1 DEF RuleMaps
<1>2. ASSUME m = [x \in DOMAIN m |-> m[x]], DOMAIN m \in FiniteNames, \A x \in DOMAIN m : m[x] \in Rule
      PROVE m \in RuleMaps
  BY <1>2 DEF RuleMaps
<1> QED
  BY <1>1, <1>2

\* The lowest and the highest of a set of rules are in the set, below and above
\* all the others.
LEMMA ExtremesAreIn ==
  ASSUME NEW m \in RuleMaps, NEW T \in SUBSET DOMAIN m, T # {}
  PROVE  /\ Highest(m, T) \in T /\ \A x \in T \ {Highest(m, T)} : Above(m, Highest(m, T), x)
         /\ Lowest(m, T) \in T /\ \A x \in T \ {Lowest(m, T)} : Above(m, x, Lowest(m, T))
<1> DEFINE S == DOMAIN m
           R == {e \in S \X S : Above(m, e[1], e[2])}
           Q == {e \in S \X S : Above(m, e[2], e[1])}
<1>1. IsFiniteSet(S) /\ S \subseteq Nat /\ \A x \in S : m[x].prio \in Int
  BY MapShape DEF FiniteNames, Rule
<1>2. \A x, y \in S : (<<x, y>> \in R <=> Above(m, x, y)) /\ (<<x, y>> \in Q <=> Above(m, y, x))
  OBVIOUS
<1>3. /\ \A x, y \in S : x # y => Above(m, x, y) \/ Above(m, y, x)
      /\ \A x, y, z \in S : Above(m, x, y) /\ Above(m, y, z) => Above(m, x, z)
  BY <1>1 DEF Above
<1> HIDE DEF R, Q
<1>4. Orders(R, S) /\ Orders(Q, S)
  BY <1>2, <1>3 DEF Orders
<1>5. PICK r \in T : FirstIn(R, T, r)
  BY <1>1, <1>4, FirstExists
<1>6. PICK q \in T : FirstIn(Q, T, q)
  BY <1>1, <1>4, FirstExists
<1>7. (\A x \in T \ {r} : Above(m, r, x)) /\ (\A x \in T \ {q} : Above(m, x, q))
  BY <1>2, <1>5, <1>6 DEF FirstIn
<1> HIDE DEF S
<1> QED
  BY <1>7 DEF Highest, Lowest

\* What a command does to the tables.
WithRules(s, t, m) == [s EXCEPT ![t] = [bound |-> s[t].bound, rules |-> m]]
WithBound(s, t, b) == [s EXCEPT ![t] = [bound |-> b, rules |-> s[t].rules]]

LEMMA TableShape ==
  ASSUME NEW s \in Dbs, NEW t \in Tables
  PROVE  /\ s[t] = [bound |-> s[t].bound, rules |-> s[t].rules]
         /\ s[t].rules \in RuleMaps /\ s[t].bound \in Bounds
  BY DEF Dbs, Table

LEMMA WithRulesIs ==
  ASSUME NEW s \in Dbs, NEW t \in Tables, NEW m \in RuleMaps
  PROVE  /\ WithRules(s, t, m) \in Dbs
         /\ WithRules(s, t, m)[t].rules = m /\ WithRules(s, t, m)[t].bound = s[t].bound
         /\ \A u \in Tables \ {t} : WithRules(s, t, m)[u] = s[u]
  BY DEF Dbs, Table, WithRules

LEMMA OtherRules ==
  ASSUME NEW s \in Dbs, NEW t \in Tables, NEW m \in RuleMaps, NEW u \in Tables, u # t
  PROVE  WithRules(s, t, m)[u] = s[u]
  BY WithRulesIs

LEMMA WithBoundIs ==
  ASSUME NEW s \in Dbs, NEW t \in Tables, NEW b \in Bounds
  PROVE  /\ WithBound(s, t, b) \in Dbs
         /\ WithBound(s, t, b)[t].rules = s[t].rules /\ WithBound(s, t, b)[t].bound = b
         /\ \A u \in Tables \ {t} : WithBound(s, t, b)[u] = s[u]
  BY DEF Dbs, Table, WithBound

LEMMA MapsStay ==
  ASSUME NEW m \in RuleMaps, NEW r \in Nat
  PROVE  /\ Without(m, r) \in RuleMaps
         /\ \A to \in Rule : With(m, r, to) \in RuleMaps
<1>1. DOMAIN m \in FiniteNames /\ \A x \in DOMAIN m : m[x] \in Rule
  BY MapShape
<1>2. DOMAIN m \ {r} \in FiniteNames /\ DOMAIN m \cup {r} \in FiniteNames
  BY <1>1, FS_RemoveElement, FS_AddElement DEF FiniteNames
<1>3. Without(m, r) \in [DOMAIN m \ {r} -> Rule]
  BY <1>1 DEF Without
<1>4. \A to \in Rule : With(m, r, to) \in [DOMAIN m \cup {r} -> Rule]
  BY <1>1 DEF With
<1> QED
  BY <1>2, <1>3, <1>4 DEF RuleMaps

LEMMA RunOnIs ==
  ASSUME NEW s \in Dbs, NEW t \in Tables
  PROVE  /\ RunOn(s, [op |-> "bind", table |-> t]) = WithBound(s, t, "ours")
         /\ RunOn(s, [op |-> "remove", table |-> t]) = WithBound(s, t, "none")
         /\ \A r \in Nat : RunOn(s, [op |-> "del", table |-> t, rule |-> r]) = WithRules(s, t, Without(s[t].rules, r))
         /\ \A r \in Nat, to \in Rule :
              RunOn(s, [op |-> "set", table |-> t, rule |-> r, to |-> to]) = WithRules(s, t, With(s[t].rules, r, to))
<1>1. s[t] = [bound |-> s[t].bound, rules |-> s[t].rules]
  BY TableShape
<1>2. \A b : [s[t] EXCEPT !.bound = b] = [bound |-> b, rules |-> s[t].rules]
  BY <1>1
<1>3. \A m : [s[t] EXCEPT !.rules = m] = [bound |-> s[t].bound, rules |-> m]
  BY <1>1
<1>4. RunOn(s, [op |-> "bind", table |-> t]) = WithBound(s, t, "ours")
  BY <1>2 DEF RunOn, WithBound
<1>5. RunOn(s, [op |-> "remove", table |-> t]) = WithBound(s, t, "none")
  BY <1>2 DEF RunOn, WithBound
<1>6. ASSUME NEW r \in Nat
      PROVE  RunOn(s, [op |-> "del", table |-> t, rule |-> r]) = WithRules(s, t, Without(s[t].rules, r))
  BY <1>3 DEF RunOn, WithRules
<1>7. ASSUME NEW r \in Nat, NEW to \in Rule
      PROVE  RunOn(s, [op |-> "set", table |-> t, rule |-> r, to |-> to]) = WithRules(s, t, With(s[t].rules, r, to))
  BY <1>3 DEF RunOn, WithRules
<1> QED
  BY <1>4, <1>5, <1>6, <1>7

LEMMA AddIs ==
  ASSUME NEW pl \in Plans, NEW o \in Commands, RunOn(pl.sim, o) \in Dbs
  PROVE  Add(pl, o) \in Plans /\ Add(pl, o).sim = RunOn(pl.sim, o)
<1>1. Append(pl.ops, o) \in Seq(Commands)
  BY DEF Plans
<1> QED
  BY <1>1 DEF Add, Plans

LEMMA AddDel ==
  ASSUME NEW pl \in Plans, NEW t \in Tables, NEW r \in Nat
  PROVE  /\ Add(pl, [op |-> "del", table |-> t, rule |-> r]) \in Plans
         /\ Add(pl, [op |-> "del", table |-> t, rule |-> r]).sim = WithRules(pl.sim, t, Without(pl.sim[t].rules, r))
<1>1. pl.sim \in Dbs
  BY DEF Plans
<1>2. PICK o : o = [op |-> "del", table |-> t, rule |-> r]
  OBVIOUS
<1>3. o \in Commands
  BY <1>2 DEF Commands
<1>4. RunOn(pl.sim, o) = WithRules(pl.sim, t, Without(pl.sim[t].rules, r))
  BY <1>1, <1>2, RunOnIs
<1>5. RunOn(pl.sim, o) \in Dbs
  <2>1. Without(pl.sim[t].rules, r) \in RuleMaps
    BY <1>1, TableShape, MapsStay
  <2> QED
    BY <1>1, <1>4, <2>1, WithRulesIs
<1> QED
  BY <1>2, <1>3, <1>4, <1>5, AddIs

LEMMA AddSet ==
  ASSUME NEW pl \in Plans, NEW t \in Tables, NEW r \in Nat, NEW to \in Rule
  PROVE  /\ Add(pl, [op |-> "set", table |-> t, rule |-> r, to |-> to]) \in Plans
         /\ Add(pl, [op |-> "set", table |-> t, rule |-> r, to |-> to]).sim = WithRules(pl.sim, t, With(pl.sim[t].rules, r, to))
<1>1. pl.sim \in Dbs
  BY DEF Plans
<1>2. PICK o : o = [op |-> "set", table |-> t, rule |-> r, to |-> to]
  OBVIOUS
<1>3. o \in Commands
  BY <1>2 DEF Commands
<1>4. RunOn(pl.sim, o) = WithRules(pl.sim, t, With(pl.sim[t].rules, r, to))
  BY <1>1, <1>2, RunOnIs
<1>5. RunOn(pl.sim, o) \in Dbs
  <2>1. With(pl.sim[t].rules, r, to) \in RuleMaps
    BY <1>1, TableShape, MapsStay
  <2> QED
    BY <1>1, <1>4, <2>1, WithRulesIs
<1> QED
  BY <1>2, <1>3, <1>4, <1>5, AddIs

LEMMA AddBind ==
  ASSUME NEW pl \in Plans, NEW t \in Tables
  PROVE  /\ Add(pl, [op |-> "bind", table |-> t]) \in Plans
         /\ Add(pl, [op |-> "bind", table |-> t]).sim = WithBound(pl.sim, t, "ours")
<1>1. pl.sim \in Dbs
  BY DEF Plans
<1>2. PICK o : o = [op |-> "bind", table |-> t]
  OBVIOUS
<1>3. o \in Commands
  BY <1>2 DEF Commands
<1>4. RunOn(pl.sim, o) = WithBound(pl.sim, t, "ours")
  BY <1>1, <1>2, RunOnIs
<1>5. RunOn(pl.sim, o) \in Dbs
  BY <1>1, <1>4, WithBoundIs DEF Bounds
<1> QED
  BY <1>2, <1>3, <1>4, <1>5, AddIs

LEMMA AddRemove ==
  ASSUME NEW pl \in Plans, NEW t \in Tables
  PROVE  /\ Add(pl, [op |-> "remove", table |-> t]) \in Plans
         /\ Add(pl, [op |-> "remove", table |-> t]).sim = WithBound(pl.sim, t, "none")
<1>1. pl.sim \in Dbs
  BY DEF Plans
<1>2. PICK o : o = [op |-> "remove", table |-> t]
  OBVIOUS
<1>3. o \in Commands
  BY <1>2 DEF Commands
<1>4. RunOn(pl.sim, o) = WithBound(pl.sim, t, "none")
  BY <1>1, <1>2, RunOnIs
<1>5. RunOn(pl.sim, o) \in Dbs
  BY <1>1, <1>4, WithBoundIs DEF Bounds
<1> QED
  BY <1>2, <1>3, <1>4, <1>5, AddIs

\* A typed command leaves the tables typed.
LEMMA RunOnType ==
  ASSUME NEW s \in Dbs, NEW o \in Commands
  PROVE  RunOn(s, o) \in Dbs
<1>1. o.table \in Tables
  BY DEF Commands
<1>2. CASE o \in [op : {"bind", "remove"}, table : Tables]
  <2>1. o = [op |-> o.op, table |-> o.table] /\ o.op \in {"bind", "remove"}
    BY <1>2
  <2>2. RunOn(s, o) = WithBound(s, o.table, "ours") \/ RunOn(s, o) = WithBound(s, o.table, "none")
    BY <1>1, <2>1, RunOnIs
  <2>3. "ours" \in Bounds /\ "none" \in Bounds
    BY DEF Bounds
  <2>4. WithBound(s, o.table, "ours") \in Dbs
    BY <1>1, <2>3, WithBoundIs
  <2>5. WithBound(s, o.table, "none") \in Dbs
    BY <1>1, <2>3, WithBoundIs
  <2> QED
    BY <2>2, <2>4, <2>5
<1>3. CASE o \in [op : {"del"}, table : Tables, rule : Nat]
  <2>1. o = [op |-> "del", table |-> o.table, rule |-> o.rule] /\ o.rule \in Nat
    BY <1>3
  <2>2. RunOn(s, o) = WithRules(s, o.table, Without(s[o.table].rules, o.rule))
    BY <1>1, <2>1, RunOnIs
  <2>3. Without(s[o.table].rules, o.rule) \in RuleMaps
    BY <1>1, <2>1, TableShape, MapsStay
  <2> QED
    BY <1>1, <2>2, <2>3, WithRulesIs
<1>4. CASE o \in [op : {"set"}, table : Tables, rule : Nat, to : Rule]
  <2>1. o = [op |-> "set", table |-> o.table, rule |-> o.rule, to |-> o.to] /\ o.rule \in Nat /\ o.to \in Rule
    BY <1>4
  <2>2. RunOn(s, o) = WithRules(s, o.table, With(s[o.table].rules, o.rule, o.to))
    BY <1>1, <2>1, RunOnIs
  <2>3. With(s[o.table].rules, o.rule, o.to) \in RuleMaps
    BY <1>1, <2>1, TableShape, MapsStay
  <2> QED
    BY <1>1, <2>2, <2>3, WithRulesIs
<1> QED
  BY <1>2, <1>3, <1>4 DEF Commands

\* What is left of a table's rules, and what a table's rules become while
\* those of a set of names are written.
Left(m, ns) == [x \in DOMAIN m \ ns |-> m[x]]
Written(m, rules, ns) == [x \in DOMAIN m \cup ns |-> IF x \in ns THEN rules[x] ELSE m[x]]

LEMMA LeftIs ==
  ASSUME NEW m \in RuleMaps, NEW ns \in SUBSET DOMAIN m
  PROVE  /\ Left(m, ns) \in RuleMaps /\ DOMAIN Left(m, ns) = DOMAIN m \ ns
         /\ \A r \in ns : Left(m, ns) = Without(Left(m, ns \ {r}), r)
         /\ Left(m, {}) = m
<1>1. m = [x \in DOMAIN m |-> m[x]] /\ DOMAIN m \in FiniteNames /\ \A x \in DOMAIN m : m[x] \in Rule
  BY MapShape
<1>2. DOMAIN m \ ns \in FiniteNames
  BY <1>1, FS_Subset DEF FiniteNames
<1>3. Left(m, ns) \in [DOMAIN m \ ns -> Rule]
  BY <1>1 DEF Left
<1>4. ASSUME NEW r \in ns PROVE Left(m, ns) = Without(Left(m, ns \ {r}), r)
  <2>1. (DOMAIN m \ (ns \ {r})) \ {r} = DOMAIN m \ ns
    OBVIOUS
  <2> QED
    BY <2>1 DEF Left, Without
<1>5. Left(m, {}) = m
  BY <1>1, DOMAIN m \ {} = DOMAIN m DEF Left
<1> QED
  BY <1>2, <1>3, <1>4, <1>5 DEF RuleMaps

LEMMA WrittenIs ==
  ASSUME NEW m \in RuleMaps, NEW rules \in RuleMaps, NEW ns \in SUBSET DOMAIN rules
  PROVE  /\ Written(m, rules, ns) \in RuleMaps
         /\ \A r \in ns : /\ r \in DOMAIN m /\ m[r] = rules[r] => Written(m, rules, ns) = Written(m, rules, ns \ {r})
                          /\ r \in DOMAIN m =>
                               Written(m, rules, ns) = With(Without(Written(m, rules, ns \ {r}), r), r, rules[r])
                          /\ Written(m, rules, ns) = With(Written(m, rules, ns \ {r}), r, rules[r])
         /\ Written(m, rules, {}) = m
<1>1. /\ m = [x \in DOMAIN m |-> m[x]] /\ DOMAIN m \in FiniteNames /\ \A x \in DOMAIN m : m[x] \in Rule
      /\ DOMAIN rules \in FiniteNames /\ \A x \in DOMAIN rules : rules[x] \in Rule
  BY MapShape
<1>2. DOMAIN m \cup ns \in FiniteNames
  <2>1. IsFiniteSet(ns)
    BY <1>1, FS_Subset DEF FiniteNames
  <2> QED
    BY <1>1, <2>1, FS_Union DEF FiniteNames
<1>3. Written(m, rules, ns) \in [DOMAIN m \cup ns -> Rule]
  BY <1>1 DEF Written
<1>4. ASSUME NEW r \in ns, r \in DOMAIN m, m[r] = rules[r]
      PROVE  Written(m, rules, ns) = Written(m, rules, ns \ {r})
  <2>1. DOMAIN m \cup (ns \ {r}) = DOMAIN m \cup ns
    BY <1>4
  <2> QED
    BY <1>4, <2>1 DEF Written
<1>5. ASSUME NEW r \in ns, r \in DOMAIN m
      PROVE  Written(m, rules, ns) = With(Without(Written(m, rules, ns \ {r}), r), r, rules[r])
  <2>1. ((DOMAIN m \cup (ns \ {r})) \ {r}) \cup {r} = DOMAIN m \cup ns
    BY <1>5
  <2> QED
    BY <1>5, <2>1 DEF Written, With, Without
<1>6. ASSUME NEW r \in ns PROVE Written(m, rules, ns) = With(Written(m, rules, ns \ {r}), r, rules[r])
  <2>1. (DOMAIN m \cup (ns \ {r})) \cup {r} = DOMAIN m \cup ns
    OBVIOUS
  <2> QED
    BY <2>1 DEF Written, With
<1>7. Written(m, rules, {}) = m
  BY <1>1, DOMAIN m \cup {} = DOMAIN m DEF Written
<1> QED
  BY <1>2, <1>3, <1>4, <1>5, <1>6, <1>7 DEF RuleMaps

LEMMA WithRulesTwice ==
  ASSUME NEW s \in Dbs, NEW t \in Tables, NEW m1 \in RuleMaps, NEW m2
  PROVE  WithRules(WithRules(s, t, m1), t, m2) = WithRules(s, t, m2)
  BY DEF WithRules, Dbs, Table

LEMMA WithRulesSame ==
  ASSUME NEW s \in Dbs, NEW t \in Tables
  PROVE  WithRules(s, t, s[t].rules) = s
  BY TableShape DEF WithRules, Dbs

\* dropRules one rule after the other: g[T] is the plan when the rules of T are
\* dropped, the highest of them last.
Drops(g, pl, t, names) ==
  /\ DropRules(pl, t, names) = g[names] /\ g[{}] = pl
  /\ \A T \in SUBSET names : T # {} =>
       g[T] = Add(g[T \ {Highest(pl.sim[t].rules, T)}], [op |-> "del", table |-> t, rule |-> Highest(pl.sim[t].rules, T)])
  /\ \A T \in SUBSET names : g[T] \in Plans /\ g[T].sim = WithRules(pl.sim, t, Left(pl.sim[t].rules, T))

LEMMA DropsExist ==
  ASSUME NEW pl \in Plans, NEW t \in Tables, NEW names, names \in SUBSET DOMAIN pl.sim[t].rules
  PROVE  \E g : Drops(g, pl, t, names)
<1> DEFINE have == pl.sim[t].rules
           C == [T \in SUBSET names |-> Highest(have, T)]
           F == [r \in names |-> [p \in Plans |-> Add(p, [op |-> "del", table |-> t, rule |-> r])]]
<1>1. pl.sim \in Dbs /\ have \in RuleMaps
  BY TableShape DEF Plans
<1>2. IsFiniteSet(names) /\ names \subseteq Nat
  BY <1>1, MapShape, FS_Subset DEF FiniteNames
<1>3. ASSUME NEW T \in SUBSET names, T # {} PROVE Highest(have, T) \in T
  BY <1>1, <1>3, ExtremesAreIn
<1>4. F \in [names -> [Plans -> Plans]]
  BY <1>2, AddDel
<1>5. \A T \in SUBSET names : T # {} => C[T] \in T
  BY <1>3
<1>6. PICK h : IsFold(h, names, Plans, pl, C, F)
  <2> HIDE DEF C, F
  <2> QED
    BY <1>2, <1>4, <1>5, FoldExists
<1>7. h = [T \in SUBSET names |->
             IF T = {} THEN pl
             ELSE Add(h[T \ {Highest(have, T)}], [op |-> "del", table |-> t, rule |-> Highest(have, T)])]
  <2>1. ASSUME NEW T \in SUBSET names, T # {}
        PROVE  h[T] = Add(h[T \ {Highest(have, T)}], [op |-> "del", table |-> t, rule |-> Highest(have, T)])
    <3>1. C[T] = Highest(have, T) /\ C[T] \in names /\ h[T \ {C[T]}] \in Plans
      BY <1>3, <1>6, <2>1 DEF IsFold
    <3>2. h[T] = F[C[T]][h[T \ {C[T]}]]
      BY <1>6, <2>1 DEF IsFold
    <3> QED
      BY <3>1, <3>2
  <2> QED
    BY <1>6, <2>1 DEF IsFold
<1> DEFINE g == CHOOSE i : i = [T \in SUBSET names |->
             IF T = {} THEN pl
             ELSE Add(i[T \ {Highest(have, T)}], [op |-> "del", table |-> t, rule |-> Highest(have, T)])]
<1>8. g = [T \in SUBSET names |->
             IF T = {} THEN pl
             ELSE Add(g[T \ {Highest(have, T)}], [op |-> "del", table |-> t, rule |-> Highest(have, T)])]
  <2> HIDE DEF have
  <2> QED
    BY <1>7
<1>9. DropRules(pl, t, names) = g[names]
  BY DEF DropRules, MapThenFoldSet
<1> HIDE DEF g, have
<1>10. g[{}] = pl /\ \A T \in SUBSET names : T # {} =>
          g[T] = Add(g[T \ {Highest(have, T)}], [op |-> "del", table |-> t, rule |-> Highest(have, T)])
  BY <1>8, Zenon
<1> DEFINE G == {T \in SUBSET names : g[T] \in Plans /\ g[T].sim = WithRules(pl.sim, t, Left(have, T))}
<1>11. {} \in G
  <2>1. Left(have, {}) = have
    BY <1>1, LeftIs
  <2>2. WithRules(pl.sim, t, have) = pl.sim
    BY <1>1, WithRulesSame DEF have
  <2> QED
    BY <1>10, <2>1, <2>2
<1>12. ASSUME NEW T \in SUBSET names, T # {}, \A x \in T : T \ {x} \in G PROVE T \in G
  <2> DEFINE r == Highest(have, T)
             U == T \ {r}
  <2>1. r \in T /\ r \in Nat
    BY <1>2, <1>3, <1>12
  <2>2. U \in G
    BY <1>12, <2>1
  <2>3. g[T] = Add(g[U], [op |-> "del", table |-> t, rule |-> r])
    BY <1>10, <1>12
  <2>4. /\ T \in SUBSET DOMAIN have /\ U \in SUBSET DOMAIN have
        /\ Left(have, T) = Without(Left(have, U), r) /\ Left(have, T) \in RuleMaps /\ Left(have, U) \in RuleMaps
    <3>1. T \in SUBSET DOMAIN have /\ U \in SUBSET DOMAIN have
      BY DEF have
    <3> HIDE DEF r
    <3>2. Left(have, T) \in RuleMaps /\ \A x \in T : Left(have, T) = Without(Left(have, T \ {x}), x)
      BY <1>1, <3>1, LeftIs
    <3>3. Left(have, U) \in RuleMaps
      <4> HIDE DEF U
      <4> QED
        BY <1>1, <3>1, LeftIs
    <3> QED
      BY <2>1, <3>1, <3>2, <3>3
  <2> HIDE DEF r, U
  <2>5. g[U] \in Plans /\ g[U].sim = WithRules(pl.sim, t, Left(have, U))
    BY <2>2
  <2>6. g[U].sim[t].rules = Left(have, U)
    BY <1>1, <2>4, <2>5, WithRulesIs
  <2>7. g[T] \in Plans /\ g[T].sim = WithRules(g[U].sim, t, Without(Left(have, U), r))
    <3>1. PICK p : p = g[U]
      OBVIOUS
    <3>2. p \in Plans /\ p.sim[t].rules = Left(have, U)
      BY <2>5, <2>6, <3>1
    <3>3. /\ Add(p, [op |-> "del", table |-> t, rule |-> r]) \in Plans
          /\ Add(p, [op |-> "del", table |-> t, rule |-> r]).sim = WithRules(p.sim, t, Without(p.sim[t].rules, r))
      BY <2>1, <3>2, AddDel
    <3> QED
      BY <2>3, <3>1, <3>2, <3>3
  <2>8. WithRules(g[U].sim, t, Left(have, T)) = WithRules(pl.sim, t, Left(have, T))
    BY <1>1, <2>4, <2>5, WithRulesTwice
  <2> QED
    BY <2>4, <2>7, <2>8
<1>13. Hereditary(G, names)
  BY <1>12 DEF Hereditary
<1> HIDE DEF G
<1>14. SUBSET names \subseteq G
  BY <1>2, <1>11, <1>13, SubsetInduction
<1>15. \A T \in SUBSET names : g[T] \in Plans /\ g[T].sim = WithRules(pl.sim, t, Left(have, T))
  BY <1>14 DEF G
<1> QED
  BY <1>9, <1>10, <1>15 DEF Drops, have

\* What dropRules makes of the tables: the rules named are gone, nothing else
\* has changed.
LEMMA DropRulesIs ==
  ASSUME NEW pl \in Plans, NEW t \in Tables, NEW names, names \in SUBSET DOMAIN pl.sim[t].rules
  PROVE  /\ DropRules(pl, t, names) \in Plans
         /\ DropRules(pl, t, names).sim = WithRules(pl.sim, t, Left(pl.sim[t].rules, names))
<1>1. PICK g : Drops(g, pl, t, names)
  BY DropsExist
<1> QED
  BY <1>1 DEF Drops

\* One rule written, from a table that holds the rules written before it.
LEMMA WriteRuleIs ==
  ASSUME NEW p \in Plans, NEW t \in Tables, NEW have \in RuleMaps, NEW r \in Nat, NEW to \in Rule
  PROVE  /\ WriteRule(p, t, have, r, to) \in Plans
         /\ WriteRule(p, t, have, r, to).sim =
              IF r \in DOMAIN have /\ have[r] = to THEN p.sim
              ELSE IF r \in DOMAIN have THEN WithRules(p.sim, t, With(Without(p.sim[t].rules, r), r, to))
              ELSE WithRules(p.sim, t, With(p.sim[t].rules, r, to))
<1>1. p.sim \in Dbs /\ p.sim[t].rules \in RuleMaps
  BY TableShape DEF Plans
<1>2. CASE r \in DOMAIN have /\ have[r] = to
  BY <1>2 DEF WriteRule
<1>3. CASE r \in DOMAIN have /\ have[r] # to
  <2>1. PICK gone : gone = Add(p, [op |-> "del", table |-> t, rule |-> r])
    OBVIOUS
  <2>2. WriteRule(p, t, have, r, to) = Add(gone, [op |-> "set", table |-> t, rule |-> r, to |-> to])
    BY <1>3, <2>1 DEF WriteRule
  <2>3. gone \in Plans /\ gone.sim = WithRules(p.sim, t, Without(p.sim[t].rules, r))
    BY <2>1, AddDel
  <2>4. Without(p.sim[t].rules, r) \in RuleMaps
    BY <1>1, MapsStay
  <2>5. gone.sim[t].rules = Without(p.sim[t].rules, r)
    BY <1>1, <2>3, <2>4, WithRulesIs
  <2>6. /\ WriteRule(p, t, have, r, to) \in Plans
        /\ WriteRule(p, t, have, r, to).sim = WithRules(gone.sim, t, With(gone.sim[t].rules, r, to))
    BY <2>2, <2>3, AddSet
  <2>7. WithRules(gone.sim, t, With(gone.sim[t].rules, r, to)) = WithRules(p.sim, t, With(gone.sim[t].rules, r, to))
    BY <1>1, <2>3, <2>4, WithRulesTwice
  <2> QED
    BY <1>3, <2>5, <2>6, <2>7
<1>4. CASE r \notin DOMAIN have
  <2>1. WriteRule(p, t, have, r, to) = Add(p, [op |-> "set", table |-> t, rule |-> r, to |-> to])
    BY <1>4 DEF WriteRule
  <2>2. /\ WriteRule(p, t, have, r, to) \in Plans
        /\ WriteRule(p, t, have, r, to).sim = WithRules(p.sim, t, With(p.sim[t].rules, r, to))
    BY <2>1, AddSet
  <2> QED
    BY <1>4, <2>2
<1> QED
  BY <1>2, <1>3, <1>4

\* The writes one after the other: g[T] is the plan when the rules of T are
\* written, the lowest of them last.
Writes(g, pl, t, rules) ==
  /\ WriteRules(pl, t, rules) = g[DOMAIN rules] /\ g[{}] = pl
  /\ \A T \in SUBSET DOMAIN rules : T # {} =>
       g[T] = WriteRule(g[T \ {Lowest(rules, T)}], t, pl.sim[t].rules, Lowest(rules, T), rules[Lowest(rules, T)])
  /\ \A T \in SUBSET DOMAIN rules :
       g[T] \in Plans /\ g[T].sim = WithRules(pl.sim, t, Written(pl.sim[t].rules, rules, T))

LEMMA WritesExist ==
  ASSUME NEW pl \in Plans, NEW t \in Tables, NEW rules \in RuleMaps
  PROVE  \E g : Writes(g, pl, t, rules)
<1> DEFINE have == pl.sim[t].rules
           names == DOMAIN rules
           C == [T \in SUBSET names |-> Lowest(rules, T)]
           F == [r \in names |-> [p \in Plans |-> WriteRule(p, t, have, r, rules[r])]]
<1>1. pl.sim \in Dbs /\ have \in RuleMaps
  BY TableShape DEF Plans
<1>2. IsFiniteSet(names) /\ names \subseteq Nat /\ \A r \in names : rules[r] \in Rule
  BY MapShape DEF FiniteNames
<1>3. ASSUME NEW T \in SUBSET names, T # {} PROVE Lowest(rules, T) \in T
  BY <1>3, ExtremesAreIn
<1> HIDE DEF have
<1>4. ASSUME NEW r \in names, NEW p \in Plans PROVE WriteRule(p, t, have, r, rules[r]) \in Plans
  BY <1>1, <1>2, WriteRuleIs
<1>5. F \in [names -> [Plans -> Plans]]
  BY <1>4
<1>6. \A T \in SUBSET names : T # {} => C[T] \in T
  BY <1>3
<1>7. PICK h : IsFold(h, names, Plans, pl, C, F)
  <2> HIDE DEF C, F, names
  <2> QED
    BY <1>2, <1>5, <1>6, FoldExists
<1>8. h = [T \in SUBSET names |->
             IF T = {} THEN pl
             ELSE WriteRule(h[T \ {Lowest(rules, T)}], t, have, Lowest(rules, T), rules[Lowest(rules, T)])]
  <2>1. ASSUME NEW T \in SUBSET names, T # {}
        PROVE  h[T] = WriteRule(h[T \ {Lowest(rules, T)}], t, have, Lowest(rules, T), rules[Lowest(rules, T)])
    <3>1. C[T] = Lowest(rules, T) /\ C[T] \in names /\ h[T \ {C[T]}] \in Plans
      BY <1>3, <1>7, <2>1 DEF IsFold
    <3>2. h[T] = F[C[T]][h[T \ {C[T]}]]
      BY <1>7, <2>1 DEF IsFold
    <3> QED
      BY <3>1, <3>2
  <2> QED
    BY <1>7, <2>1 DEF IsFold
<1> DEFINE g == CHOOSE i : i = [T \in SUBSET names |->
             IF T = {} THEN pl
             ELSE WriteRule(i[T \ {Lowest(rules, T)}], t, have, Lowest(rules, T), rules[Lowest(rules, T)])]
<1>9. g = [T \in SUBSET names |->
             IF T = {} THEN pl
             ELSE WriteRule(g[T \ {Lowest(rules, T)}], t, have, Lowest(rules, T), rules[Lowest(rules, T)])]
  BY <1>8
<1>10. WriteRules(pl, t, rules) = g[names]
  BY DEF WriteRules, MapThenFoldSet, have
<1> HIDE DEF g, names
<1>11. g[{}] = pl /\ \A T \in SUBSET names : T # {} =>
          g[T] = WriteRule(g[T \ {Lowest(rules, T)}], t, have, Lowest(rules, T), rules[Lowest(rules, T)])
  BY <1>9, Zenon
<1> DEFINE G == {T \in SUBSET names : g[T] \in Plans /\ g[T].sim = WithRules(pl.sim, t, Written(have, rules, T))}
<1>12. {} \in G
  <2>1. Written(have, rules, {}) = have
    BY <1>1, WrittenIs
  <2>2. WithRules(pl.sim, t, have) = pl.sim
    BY <1>1, WithRulesSame DEF have
  <2> QED
    BY <1>11, <2>1, <2>2
<1>13. ASSUME NEW T \in SUBSET names, T # {}, \A x \in T : T \ {x} \in G PROVE T \in G
  <2> DEFINE r == Lowest(rules, T)
             U == T \ {r}
  <2>1. r \in T /\ r \in Nat /\ rules[r] \in Rule
    BY <1>2, <1>3, <1>13
  <2>2. U \in G /\ T \in SUBSET names /\ U \in SUBSET names
    BY <1>13, <2>1
  <2>3. g[T] = WriteRule(g[U], t, have, r, rules[r])
    BY <1>11, <1>13
  <2> HIDE DEF r
  <2>4. /\ Written(have, rules, T) \in RuleMaps
        /\ r \in DOMAIN have /\ have[r] = rules[r] => Written(have, rules, T) = Written(have, rules, U)
        /\ r \in DOMAIN have => Written(have, rules, T) = With(Without(Written(have, rules, U), r), r, rules[r])
        /\ Written(have, rules, T) = With(Written(have, rules, U), r, rules[r])
    BY <1>1, <2>1, <2>2, WrittenIs DEF names
  <2> HIDE DEF U
  <2>5. Written(have, rules, U) \in RuleMaps
    BY <1>1, <2>2, WrittenIs DEF names
  <2>6. PICK p : p = g[U]
    OBVIOUS
  <2>7. p \in Plans /\ p.sim = WithRules(pl.sim, t, Written(have, rules, U))
    BY <2>2, <2>6
  <2>8. p.sim[t].rules = Written(have, rules, U)
    BY <1>1, <2>5, <2>7, WithRulesIs
  <2>9. /\ g[T] \in Plans
        /\ g[T].sim = IF r \in DOMAIN have /\ have[r] = rules[r] THEN p.sim
                      ELSE IF r \in DOMAIN have THEN WithRules(p.sim, t, With(Without(p.sim[t].rules, r), r, rules[r]))
                      ELSE WithRules(p.sim, t, With(p.sim[t].rules, r, rules[r]))
    BY <1>1, <2>1, <2>3, <2>6, <2>7, WriteRuleIs
  <2>10. WithRules(p.sim, t, Written(have, rules, T)) = WithRules(pl.sim, t, Written(have, rules, T))
    BY <1>1, <2>5, <2>7, WithRulesTwice
  <2>11. g[T].sim = WithRules(pl.sim, t, Written(have, rules, T))
    BY <2>4, <2>7, <2>8, <2>9, <2>10
  <2> QED
    BY <2>9, <2>11
<1>14. Hereditary(G, names)
  BY <1>13 DEF Hereditary
<1> HIDE DEF G
<1>15. SUBSET names \subseteq G
  BY <1>2, <1>12, <1>14, SubsetInduction
<1>16. \A T \in SUBSET names : g[T] \in Plans /\ g[T].sim = WithRules(pl.sim, t, Written(have, rules, T))
  BY <1>15 DEF G
<1> QED
  BY <1>10, <1>11, <1>16 DEF Writes, have, names

\* What writing a set of rules makes of the tables.
LEMMA WriteRulesIs ==
  ASSUME NEW pl \in Plans, NEW t \in Tables, NEW rules \in RuleMaps
  PROVE  /\ WriteRules(pl, t, rules) \in Plans
         /\ WriteRules(pl, t, rules).sim = WithRules(pl.sim, t, Written(pl.sim[t].rules, rules, DOMAIN rules))
<1>1. PICK g : Writes(g, pl, t, rules)
  BY WritesExist
<1> QED
  BY <1>1 DEF Writes

\* A table brought in line: gone with its rules, or the driver's with exactly
\* the rules wanted.
Synced(tb, rules) ==
  /\ DOMAIN rules = {} => tb.bound = "none" /\ DOMAIN tb.rules = {}
  /\ DOMAIN rules # {} => tb.bound = "ours" /\ tb.rules = rules
Only(pl, q, t) == q \in Plans /\ \A u \in Tables \ {t} : q.sim[u] = pl.sim[u]

LEMMA DropOnly ==
  ASSUME NEW pl \in Plans, NEW t \in Tables, NEW names, names \in SUBSET DOMAIN pl.sim[t].rules
  PROVE  /\ Only(pl, DropRules(pl, t, names), t)
         /\ DropRules(pl, t, names).sim[t].bound = pl.sim[t].bound
         /\ DropRules(pl, t, names).sim[t].rules = Left(pl.sim[t].rules, names)
         /\ DOMAIN DropRules(pl, t, names).sim[t].rules = DOMAIN pl.sim[t].rules \ names
<1>1. PICK q : q = DropRules(pl, t, names)
  OBVIOUS
<1>2. pl.sim \in Dbs /\ pl.sim[t].rules \in RuleMaps
  BY TableShape DEF Plans
<1>3. q \in Plans /\ q.sim = WithRules(pl.sim, t, Left(pl.sim[t].rules, names))
  BY <1>1, DropRulesIs
<1>4. PICK m : m = Left(pl.sim[t].rules, names)
  OBVIOUS
<1>5. m \in RuleMaps /\ DOMAIN m = DOMAIN pl.sim[t].rules \ names
  BY <1>2, <1>4, LeftIs
<1>6. q.sim[t].rules = m /\ q.sim[t].bound = pl.sim[t].bound /\ \A u \in Tables \ {t} : q.sim[u] = pl.sim[u]
  BY <1>2, <1>3, <1>4, <1>5, WithRulesIs
<1> QED
  BY <1>1, <1>3, <1>4, <1>5, <1>6 DEF Only

LEMMA BindOnly ==
  ASSUME NEW pl \in Plans, NEW t \in Tables
  PROVE  /\ Only(pl, Add(pl, [op |-> "bind", table |-> t]), t)
         /\ Add(pl, [op |-> "bind", table |-> t]).sim[t].bound = "ours"
         /\ Add(pl, [op |-> "bind", table |-> t]).sim[t].rules = pl.sim[t].rules
         /\ Only(pl, Add(pl, [op |-> "remove", table |-> t]), t)
         /\ Add(pl, [op |-> "remove", table |-> t]).sim[t].bound = "none"
         /\ Add(pl, [op |-> "remove", table |-> t]).sim[t].rules = pl.sim[t].rules
<1>1. pl.sim \in Dbs
  BY DEF Plans
<1>2. PICK q : q = Add(pl, [op |-> "bind", table |-> t])
  OBVIOUS
<1>3. q \in Plans /\ q.sim = WithBound(pl.sim, t, "ours")
  BY <1>2, AddBind
<1>4. PICK p : p = Add(pl, [op |-> "remove", table |-> t])
  OBVIOUS
<1>5. p \in Plans /\ p.sim = WithBound(pl.sim, t, "none")
  BY <1>4, AddRemove
<1>6. q.sim[t].bound = "ours" /\ q.sim[t].rules = pl.sim[t].rules /\ \A u \in Tables \ {t} : q.sim[u] = pl.sim[u]
  <2>1. PICK b : b = "ours"
    OBVIOUS
  <2>2. b \in Bounds /\ q.sim = WithBound(pl.sim, t, b)
    BY <1>3, <2>1 DEF Bounds
  <2>3. q.sim[t].rules = pl.sim[t].rules /\ q.sim[t].bound = b /\ \A u \in Tables \ {t} : q.sim[u] = pl.sim[u]
    BY <1>1, <2>2, WithBoundIs
  <2> QED
    BY <2>1, <2>3
<1>7. p.sim[t].bound = "none" /\ p.sim[t].rules = pl.sim[t].rules /\ \A u \in Tables \ {t} : p.sim[u] = pl.sim[u]
  <2>1. PICK b : b = "none"
    OBVIOUS
  <2>2. b \in Bounds /\ p.sim = WithBound(pl.sim, t, b)
    BY <1>5, <2>1 DEF Bounds
  <2>3. p.sim[t].rules = pl.sim[t].rules /\ p.sim[t].bound = b /\ \A u \in Tables \ {t} : p.sim[u] = pl.sim[u]
    BY <1>1, <2>2, WithBoundIs
  <2> QED
    BY <2>1, <2>3
<1> QED
  BY <1>2, <1>3, <1>4, <1>5, <1>6, <1>7 DEF Only

\* The rules that are left are all overwritten.
LEMMA WriteOnly ==
  ASSUME NEW pl \in Plans, NEW t \in Tables, NEW rules \in RuleMaps, DOMAIN pl.sim[t].rules \subseteq DOMAIN rules
  PROVE  /\ Only(pl, WriteRules(pl, t, rules), t)
         /\ WriteRules(pl, t, rules).sim[t].bound = pl.sim[t].bound
         /\ WriteRules(pl, t, rules).sim[t].rules = rules
<1>1. PICK q : q = WriteRules(pl, t, rules)
  OBVIOUS
<1>2. pl.sim \in Dbs
  BY DEF Plans
<1>3. q \in Plans /\ q.sim = WithRules(pl.sim, t, Written(pl.sim[t].rules, rules, DOMAIN rules))
  BY <1>1, WriteRulesIs
<1>4. Written(pl.sim[t].rules, rules, DOMAIN rules) = rules
  <2>1. DOMAIN pl.sim[t].rules \cup DOMAIN rules = DOMAIN rules
    OBVIOUS
  <2>2. rules = [x \in DOMAIN rules |-> rules[x]]
    BY MapShape
  <2> QED
    BY <2>1, <2>2 DEF Written
<1>5. q.sim[t].rules = rules /\ q.sim[t].bound = pl.sim[t].bound /\ \A u \in Tables \ {t} : q.sim[u] = pl.sim[u]
  BY <1>2, <1>3, <1>4, WithRulesIs
<1> QED
  BY <1>1, <1>3, <1>5 DEF Only

\* Whatever was on the switch, a table that is synced holds what is wanted
\* and no other table is touched.
LEMMA SyncTableIs ==
  ASSUME NEW pl \in Plans, NEW t \in Tables, NEW rules \in RuleMaps
  PROVE  Only(pl, SyncTable(pl, t, rules), t) /\ Synced(SyncTable(pl, t, rules).sim[t], rules)
<1> DEFINE cur == pl.sim[t].bound
           goes == DOMAIN rules = {} \/ cur = "foreign"
<1>1. PICK cleared : cleared = IF goes THEN DropRules(pl, t, DOMAIN pl.sim[t].rules) ELSE pl
  OBVIOUS
<1>2. PICK removed : removed = IF goes /\ cur # "none" THEN Add(cleared, [op |-> "remove", table |-> t]) ELSE cleared
  OBVIOUS
<1>3. PICK bound : bound = IF removed.sim[t].bound = "ours" THEN removed ELSE Add(removed, [op |-> "bind", table |-> t])
  OBVIOUS
<1>4. SyncTable(pl, t, rules) =
        IF DOMAIN rules = {} THEN removed
        ELSE WriteRules(DropRules(bound, t, DOMAIN bound.sim[t].rules \ DOMAIN rules), t, rules)
  BY <1>1, <1>2, <1>3 DEF SyncTable
<1>5. Only(pl, cleared, t) /\ cleared.sim[t].bound = cur /\ (goes => DOMAIN cleared.sim[t].rules = {})
  <2>1. CASE goes
    <3>1. cleared = DropRules(pl, t, DOMAIN pl.sim[t].rules)
      BY <1>1, <2>1
    <3>2. DOMAIN pl.sim[t].rules \ DOMAIN pl.sim[t].rules = {}
      OBVIOUS
    <3> QED
      BY <3>1, <3>2, DropOnly
  <2>2. CASE ~goes
    BY <1>1, <2>2 DEF Only
  <2> QED
    BY <2>1, <2>2
<1> HIDE DEF goes, cur
<1>6. Only(pl, removed, t) /\ (goes => removed.sim[t].bound = "none" /\ DOMAIN removed.sim[t].rules = {})
  <2>1. CASE goes /\ cur # "none"
    <3>1. removed = Add(cleared, [op |-> "remove", table |-> t]) /\ cleared \in Plans
      BY <1>2, <1>5, <2>1 DEF Only
    <3>2. Only(cleared, removed, t) /\ removed.sim[t].bound = "none" /\ removed.sim[t].rules = cleared.sim[t].rules
      BY <3>1, BindOnly
    <3> QED
      BY <1>5, <2>1, <3>2 DEF Only
  <2>2. CASE ~(goes /\ cur # "none")
    BY <1>2, <1>5, <2>2
  <2> QED
    BY <2>1, <2>2
<1>7. CASE DOMAIN rules = {}
  BY <1>4, <1>6, <1>7 DEF goes, Synced
<1>8. CASE DOMAIN rules # {}
  <2>1. Only(pl, bound, t) /\ bound.sim[t].bound = "ours"
    <3>1. CASE removed.sim[t].bound = "ours"
      BY <1>3, <1>6, <3>1
    <3>2. CASE removed.sim[t].bound # "ours"
      <4>1. bound = Add(removed, [op |-> "bind", table |-> t]) /\ removed \in Plans
        BY <1>3, <1>6, <3>2 DEF Only
      <4>2. Only(removed, bound, t) /\ bound.sim[t].bound = "ours"
        BY <4>1, BindOnly
      <4> QED
        BY <1>6, <4>2 DEF Only
    <3> QED
      BY <3>1, <3>2
  <2>2. PICK names : names = DOMAIN bound.sim[t].rules \ DOMAIN rules
    OBVIOUS
  <2>3. PICK kept : kept = DropRules(bound, t, names)
    OBVIOUS
  <2>4. Only(bound, kept, t) /\ kept.sim[t].bound = "ours" /\ DOMAIN kept.sim[t].rules = DOMAIN bound.sim[t].rules \ names
    BY <2>1, <2>2, <2>3, DropOnly DEF Only
  <2>5. kept \in Plans /\ DOMAIN kept.sim[t].rules \subseteq DOMAIN rules
    BY <2>2, <2>4 DEF Only
  <2>6. PICK q : q = WriteRules(kept, t, rules)
    OBVIOUS
  <2>7. Only(kept, q, t) /\ q.sim[t].bound = kept.sim[t].bound /\ q.sim[t].rules = rules
    BY <2>5, <2>6, WriteOnly
  <2>8. SyncTable(pl, t, rules) = q
    BY <1>4, <1>8, <2>2, <2>3, <2>6
  <2>9. Only(pl, q, t)
    BY <2>1, <2>4, <2>7 DEF Only
  <2> QED
    BY <1>8, <2>4, <2>7, <2>8, <2>9 DEF Synced
<1> QED
  BY <1>7, <1>8

\* The batch: the tables wanted are synced, the others are as they were.
Wants(w) == DOMAIN w \subseteq Tables /\ \A t \in DOMAIN w : w[t] \in RuleMaps

LEMMA SyncWantedIs ==
  ASSUME NEW pl \in Plans, NEW t \in Tables, NEW w, Wants(w)
  PROVE  /\ Only(pl, SyncWanted(pl, t, w), t)
         /\ t \in DOMAIN w => Synced(SyncWanted(pl, t, w).sim[t], w[t])
         /\ t \notin DOMAIN w => SyncWanted(pl, t, w).sim[t] = pl.sim[t]
<1>1. CASE t \in DOMAIN w
  BY <1>1, SyncTableIs DEF SyncWanted, Wants
<1>2. CASE t \notin DOMAIN w
  BY <1>2 DEF SyncWanted, Only
<1> QED
  BY <1>1, <1>2

LEMMA AclBatchIs ==
  ASSUME NEW s \in Dbs, NEW w, Wants(w)
  PROVE  /\ AclBatch(s, w) \in Plans
         /\ \A t \in Tables : /\ t \in DOMAIN w => Synced(AclBatch(s, w).sim[t], w[t])
                              /\ t \notin DOMAIN w => AclBatch(s, w).sim[t] = s[t]
<1>1. PICK p0 : p0 = [ops |-> <<>>, sim |-> s]
  OBVIOUS
<1>2. PICK p1 : p1 = SyncWanted(p0, Guard, w)
  OBVIOUS
<1>3. PICK p2 : p2 = SyncWanted(p1, IpAcl, w)
  OBVIOUS
<1>4. PICK p3 : p3 = SyncWanted(p2, MacAcl, w)
  OBVIOUS
<1>5. AclBatch(s, w) = p3
  BY <1>1, <1>2, <1>3, <1>4 DEF AclBatch
<1>6. p0 \in Plans /\ p0.sim = s
  BY <1>1, <<>> \in Seq(Commands) DEF Plans
<1>7. Guard \in Tables /\ IpAcl \in Tables /\ MacAcl \in Tables
  BY DEF Tables
<1>8. /\ Only(p0, p1, Guard) /\ (Guard \in DOMAIN w => Synced(p1.sim[Guard], w[Guard]))
      /\ Guard \notin DOMAIN w => p1.sim[Guard] = p0.sim[Guard]
  BY <1>2, <1>6, <1>7, SyncWantedIs
<1>9. /\ Only(p1, p2, IpAcl) /\ (IpAcl \in DOMAIN w => Synced(p2.sim[IpAcl], w[IpAcl]))
      /\ IpAcl \notin DOMAIN w => p2.sim[IpAcl] = p1.sim[IpAcl]
  BY <1>3, <1>7, <1>8, SyncWantedIs DEF Only
<1>10. /\ Only(p2, p3, MacAcl) /\ (MacAcl \in DOMAIN w => Synced(p3.sim[MacAcl], w[MacAcl]))
       /\ MacAcl \notin DOMAIN w => p3.sim[MacAcl] = p2.sim[MacAcl]
  BY <1>4, <1>7, <1>9, SyncWantedIs DEF Only
<1>11. p3.sim[Guard] = p1.sim[Guard] /\ p3.sim[IpAcl] = p2.sim[IpAcl] /\ p1.sim[IpAcl] = s[IpAcl]
       /\ p2.sim[MacAcl] = s[MacAcl]
  BY <1>6, <1>8, <1>9, <1>10 DEF Only, Tables, Guard, IpAcl, MacAcl
<1> QED
  BY <1>5, <1>6, <1>8, <1>9, <1>10, <1>11 DEF Only, Tables

\* Rules at falling priorities.
Ordered(m, n) == DOMAIN m = 1..n /\ \A i \in 1..n : m[i].prio = 9999 - i
Hits(t, m, p) == {i \in DOMAIN m : Matches(t, m[i].fields, p)}
FirstHitPermits(t, m, p) ==
  \A i \in DOMAIN m : i \in Hits(t, m, p) /\ (\A j \in 1..i - 1 : j \notin Hits(t, m, p)) => m[i].permit

\* A table that holds rules at falling priorities decides a packet by the
\* first that matches.
LEMMA FirstHitDecides ==
  ASSUME NEW s, NEW t, NEW p, NEW n \in Nat, NEW m, Ordered(m, n), Synced(s[t], m)
  PROVE  Permits(s, t, p) <=> FirstHitPermits(t, m, p)
<1>1. CASE DOMAIN m = {}
  BY <1>1 DEF Permits, Synced, FirstHitPermits
<1>2. CASE DOMAIN m # {}
  <2> DEFINE H == Hits(t, m, p)
             top == {r \in H : \A q \in H : m[q].prio <= m[r].prio}
  <2>1. s[t].bound = "ours" /\ s[t].rules = m
    BY <1>2 DEF Synced
  <2>2. Permits(s, t, p) <=> (H = {} \/ \E r \in top : m[r].permit)
    BY <2>1 DEF Permits, Hits
  <2>3. H \subseteq 1..n /\ H \subseteq Nat /\ \A i \in H : i \in 1..n /\ m[i].prio = 9999 - i
    BY DEF Hits, Ordered
  <2>4. DOMAIN m = 1..n
    BY DEF Ordered
  <2> HIDE DEF H
  <2>5. CASE H = {}
    BY <2>2, <2>5 DEF FirstHitPermits, H
  <2>6. CASE H # {}
    <3>1. PICK i \in H : \A y \in H : i <= y
      <4>1. H \subseteq Nat
        BY <2>3
      <4> QED
        BY <2>6, <4>1, Least
    <3>2. i \in top
      BY <2>3, <3>1
    <3>3. \A r \in top : r = i
      BY <2>3, <3>1
    <3>4. \A j \in 1..i - 1 : j \notin H
      BY <2>3, <3>1
    <3>5. \A k \in H : (\A j \in 1..k - 1 : j \notin H) => k = i
      <4> SUFFICES ASSUME NEW k \in H, \A j \in 1..k - 1 : j \notin H, k # i PROVE FALSE
        OBVIOUS
      <4>1. i \in 1..k - 1
        BY <2>3, <3>1
      <4> QED
        BY <3>1, <4>1
    <3>6. FirstHitPermits(t, m, p) <=> m[i].permit
      BY <2>3, <2>4, <3>1, <3>4, <3>5 DEF FirstHitPermits, H
    <3> QED
      BY <2>2, <2>6, <3>2, <3>3, <3>6
  <2> QED
    BY <2>5, <2>6
<1> QED
  BY <1>1, <1>2

LEMMA VlanIsNat ==
  ASSUME NEW v \in Nat
  PROVE  SonicVlan(v) \in Nat
  BY AddressAssumption DEF SonicVlan

IpTable(acls) == InOrder(acls, IpFields)
MacTable(acls) == InOrder(acls, MacFields)

LEMMA IpInOrder ==
  ASSUME NEW acls, acls \in Seq(IpRule)
  PROVE  LET m == IpTable(acls)
         IN /\ m \in RuleMaps /\ Len(acls) \in Nat /\ Ordered(m, Len(acls)) /\ DOMAIN acls = 1..Len(acls)
            /\ \A i \in DOMAIN acls : m[i].permit = acls[i].permit /\ m[i].fields = IpFields(acls[i])
<1> DEFINE n == Len(acls)
           m == IpTable(acls)
<1>1. n \in Nat /\ DOMAIN acls = 1..n /\ \A i \in 1..n : acls[i] \in IpRule
  OBVIOUS
<1>2. ASSUME NEW i \in 1..n
      PROVE  acls[i].permit \in BOOLEAN /\ IpFields(acls[i]) \in Fields
  BY <1>1 DEF IpRule, IpFields, Fields
<1>3. m = [i \in 1..n |-> [prio |-> 9999 - i, permit |-> acls[i].permit, fields |-> IpFields(acls[i])]]
  BY <1>1 DEF InOrder, IpTable
<1>4. 1..n \in FiniteNames
  BY <1>1, FS_Interval DEF FiniteNames
<1> HIDE DEF m, n
<1>5. ASSUME NEW i \in 1..n
      PROVE  m[i] \in Rule /\ m[i].permit = acls[i].permit /\ m[i].fields = IpFields(acls[i]) /\ m[i].prio = 9999 - i
  BY <1>1, <1>2, <1>3 DEF Rule
<1>6. m \in [1..n -> Rule]
  BY <1>3, <1>5
<1>7. m \in RuleMaps
  BY <1>4, <1>6 DEF RuleMaps
<1>8. Ordered(m, n)
  BY <1>5, <1>6 DEF Ordered
<1> QED
  BY <1>1, <1>5, <1>7, <1>8 DEF m, n

LEMMA MacInOrder ==
  ASSUME NEW acls, acls \in Seq(MacRule)
  PROVE  LET m == MacTable(acls)
         IN /\ m \in RuleMaps /\ Len(acls) \in Nat /\ Ordered(m, Len(acls)) /\ DOMAIN acls = 1..Len(acls)
            /\ \A i \in DOMAIN acls : m[i].permit = acls[i].permit /\ m[i].fields = MacFields(acls[i])
<1> DEFINE n == Len(acls)
           m == MacTable(acls)
<1>1. n \in Nat /\ DOMAIN acls = 1..n /\ \A i \in 1..n : acls[i] \in MacRule
  OBVIOUS
<1>2. ASSUME NEW i \in 1..n
      PROVE  acls[i].permit \in BOOLEAN /\ MacFields(acls[i]) \in Fields
  <2>1. acls[i].vlan \in Nat
    BY <1>1 DEF MacRule
  <2>2. SonicVlan(acls[i].vlan) \in Nat
    BY <2>1, VlanIsNat
  <2> QED
    BY <1>1, <2>2 DEF MacRule, MacFields, Fields
<1>3. m = [i \in 1..n |-> [prio |-> 9999 - i, permit |-> acls[i].permit, fields |-> MacFields(acls[i])]]
  BY <1>1 DEF InOrder, MacTable
<1>4. 1..n \in FiniteNames
  BY <1>1, FS_Interval DEF FiniteNames
<1> HIDE DEF m, n
<1>5. ASSUME NEW i \in 1..n
      PROVE  m[i] \in Rule /\ m[i].permit = acls[i].permit /\ m[i].fields = MacFields(acls[i]) /\ m[i].prio = 9999 - i
  BY <1>1, <1>2, <1>3 DEF Rule
<1>6. m \in [1..n -> Rule]
  BY <1>3, <1>5
<1>7. m \in RuleMaps
  BY <1>4, <1>6 DEF RuleMaps
<1>8. Ordered(m, n)
  BY <1>5, <1>6 DEF Ordered
<1> QED
  BY <1>1, <1>5, <1>7, <1>8 DEF m, n

\* The trusted servers of a VLAN are addresses, no more of them than the push
\* has guards.
LEMMA ServersAre ==
  ASSUME NEW guards, guards \in Seq(Trusted), NEW v
  PROVE  Servers(guards, v) \in Seq(Hosts) /\ Len(Servers(guards, v)) <= Len(guards)
<1> DEFINE S == DOMAIN guards
           D == Seq(Hosts)
           Trust(list, e) == IF e.vlan # v \/ e.server \notin Hosts \/ e.server \in ToSet(list)
                             THEN list ELSE Append(list, e.server)
           C == [T \in SUBSET S |-> Max(T)]
           F == [i \in S |-> [list \in D |-> Trust(list, guards[i])]]
<1>1. S = 1..Len(guards) /\ Len(guards) \in Nat
  OBVIOUS
<1>2. IsFiniteSet(S) /\ S \subseteq Nat /\ Cardinality(S) = Len(guards)
  BY <1>1, FS_Interval
<1>3. ASSUME NEW T \in SUBSET S, T # {} PROVE Max(T) \in T
  <2> DEFINE R == {e \in S \X S : e[1] > e[2]}
  <2>1. \A x, y \in S : <<x, y>> \in R <=> x > y
    OBVIOUS
  <2> HIDE DEF R
  <2>2. Orders(R, S)
    BY <1>2, <2>1 DEF Orders
  <2>3. PICK r \in T : FirstIn(R, T, r)
    BY <1>2, <1>3, <2>2, FirstExists
  <2>4. ASSUME NEW y \in T PROVE r >= y
    <3> HIDE DEF S
    <3>1. r \in Nat /\ y \in Nat /\ r \in S /\ y \in S
      BY <1>2, <2>3
    <3>2. CASE y = r
      BY <3>1, <3>2
    <3>3. CASE y # r
      <4>1. <<r, y>> \in R
        BY <2>3, <3>3 DEF FirstIn
      <4>2. r > y
        BY <2>1, <3>1, <4>1
      <4> QED
        BY <3>1, <4>2
    <3> QED
      BY <3>2, <3>3
  <2> QED
    BY <2>4 DEF Max
<1>4. ASSUME NEW list \in D, NEW e PROVE Trust(list, e) \in D /\ Len(Trust(list, e)) <= Len(list) + 1
  BY <1>4
<1> HIDE DEF Trust
<1>5. F \in [S -> [D -> D]]
  BY <1>4
<1>6. \A T \in SUBSET S : T # {} => C[T] \in T
  BY <1>3
<1>7. <<>> \in D
  BY EmptySeq
<1>8. PICK h : IsFold(h, S, D, <<>>, C, F)
  <2> HIDE DEF C, F, S, D
  <2> QED
    BY <1>2, <1>5, <1>6, <1>7, FoldExists
<1>9. h = [T \in SUBSET S |-> IF T = {} THEN <<>> ELSE Trust(h[T \ {Max(T)}], guards[Max(T)])]
  <2>1. ASSUME NEW T \in SUBSET S, T # {} PROVE h[T] = Trust(h[T \ {Max(T)}], guards[Max(T)])
    <3>1. C[T] = Max(T) /\ C[T] \in S /\ h[T \ {C[T]}] \in D
      <4> HIDE DEF D
      <4> QED
        BY <1>3, <1>8, <2>1 DEF IsFold
    <3>2. h[T] = F[C[T]][h[T \ {C[T]}]]
      BY <1>8, <2>1 DEF IsFold
    <3> QED
      BY <3>1, <3>2
  <2> QED
    BY <1>8, <2>1 DEF IsFold
<1> DEFINE g == CHOOSE i : i = [T \in SUBSET S |-> IF T = {} THEN <<>> ELSE Trust(i[T \ {Max(T)}], guards[Max(T)])]
<1>10. g = [T \in SUBSET S |-> IF T = {} THEN <<>> ELSE Trust(g[T \ {Max(T)}], guards[Max(T)])]
  BY <1>9
<1>11. Servers(guards, v) = g[S]
  BY DEF Servers, FoldLeft, MapThenFoldSet, Trust
<1> HIDE DEF g, S
<1>12. g[{}] = <<>> /\ \A T \in SUBSET S : T # {} => g[T] = Trust(g[T \ {Max(T)}], guards[Max(T)])
  BY <1>10, Zenon
<1> DEFINE G == {T \in SUBSET S : g[T] \in D /\ Len(g[T]) <= Cardinality(T)}
<1>13. {} \in G
  <2>1. Len(<<>>) = 0 /\ Cardinality({}) = 0
    BY FS_EmptySet
  <2>2. Len(g[{}]) = 0
    BY <1>12, <2>1
  <2>3. g[{}] \in D /\ Len(g[{}]) <= Cardinality({})
    BY <1>7, <1>12, <2>1, <2>2
  <2> QED
    BY <2>3
<1>14. ASSUME NEW T \in SUBSET S, T # {}, \A x \in T : T \ {x} \in G PROVE T \in G
  <2> DEFINE U == T \ {Max(T)}
  <2>1. Max(T) \in T /\ U \in G
    BY <1>3, <1>14
  <2>2. IsFiniteSet(T) /\ Cardinality(T) \in Nat /\ Cardinality(U) = Cardinality(T) - 1
    BY <1>2, <2>1, FS_Subset, FS_CardinalityType, FS_RemoveElement
  <2>3. g[U] \in D /\ Len(g[U]) <= Cardinality(U) /\ Len(g[U]) \in Nat
    BY <2>1
  <2>4. PICK list : list = g[U]
    OBVIOUS
  <2>5. g[T] = Trust(list, guards[Max(T)])
    BY <1>12, <1>14, <2>4
  <2>6. g[T] \in D /\ Len(g[T]) <= Len(list) + 1
    BY <1>4, <2>3, <2>4, <2>5
  <2>7. Len(g[T]) \in Nat
    BY <2>6
  <2> HIDE DEF U, D
  <2> QED
    BY <2>2, <2>3, <2>4, <2>6, <2>7
<1>15. Hereditary(G, S)
  BY <1>14 DEF Hereditary
<1> HIDE DEF G, D
<1>16. S \in G
  BY <1>2, <1>13, <1>15, SubsetInduction
<1> QED
  BY <1>2, <1>11, <1>16 DEF G, D

LEMMA VlansDistinct ==
  ASSUME NEW u \in Vlans, NEW v \in Vlans, SonicVlan(u) = SonicVlan(v)
  PROVE  u = v
  BY AddressAssumption DEF SonicVlan

\* The rules of the guard table, without the arithmetic of their names.
Guarded(gs) == {v \in Vlans : Servers(gs, v) # <<>>}
GuardKeys(gs) == {e \in Vlans \X Nat : e[1] \in Guarded(gs) /\ e[2] \in 0..Len(Servers(gs, e[1]))}
GuardRule(gs, v, k) ==
  IF k = 0 THEN [prio |-> 8000, permit |-> FALSE, fields |-> [vlan |-> SonicVlan(v), servers |-> Hosts]]
  ELSE [prio |-> 9000, permit |-> TRUE, fields |-> [vlan |-> SonicVlan(v), servers |-> {Servers(gs, v)[k]}]]
GuardTable(gs) == GuardRules(gs, {SonicVlan(v) : v \in Vlans})
IsGuardTable(m, gs) ==
  /\ \A n \in DOMAIN m : \E e \in GuardKeys(gs) : n = GuardName(e[1], e[2])
  /\ \A e \in GuardKeys(gs) : GuardName(e[1], e[2]) \in DOMAIN m /\ m[GuardName(e[1], e[2])] = GuardRule(gs, e[1], e[2])

LEMMA NameDecodes ==
  ASSUME NEW v \in Nat, NEW k \in Nat, k < NameStride
  PROVE  GuardName(v, k) \in Nat /\ GuardName(v, k) \div NameStride = v /\ GuardName(v, k) % NameStride = k
  BY DEF GuardName, NameStride

LEMMA GuardRulesAre ==
  ASSUME NEW gs, gs \in Seq(Trusted), Len(gs) < NameStride
  PROVE  GuardTable(gs) \in RuleMaps /\ IsGuardTable(GuardTable(gs), gs)
<1> DEFINE m == GuardTable(gs)
           Names(v) == {GuardName(v, k) : k \in 0..Len(Servers(gs, v))}
           dom == UNION {Names(v) : v \in Guarded(gs)}
<1>1. ASSUME NEW v \in Vlans
      PROVE  Servers(gs, v) \in Seq(Hosts) /\ Len(Servers(gs, v)) \in Nat /\ Len(Servers(gs, v)) < NameStride
  <2>1. Servers(gs, v) \in Seq(Hosts) /\ Len(Servers(gs, v)) <= Len(gs)
    BY ServersAre
  <2>2. Len(Servers(gs, v)) \in Nat /\ Len(gs) \in Nat
    BY <2>1
  <2> QED
    BY <2>1, <2>2 DEF NameStride
<1>2. Guarded(gs) \subseteq Vlans /\ Vlans \subseteq Nat /\ IsFiniteSet(Vlans)
  BY AddressAssumption DEF Guarded
<1>3. {v \in Vlans : Servers(gs, v) # <<>> /\ v # NativeVlan /\ SonicVlan(v) \in {SonicVlan(u) : u \in Vlans}} = Guarded(gs)
  BY AddressAssumption DEF Guarded
<1>4. m = [n \in dom |-> GuardRule(gs, n \div NameStride, n % NameStride)]
  BY <1>3 DEF GuardTable, GuardRules, GuardRule
<1>5. ASSUME NEW v \in Guarded(gs), NEW k \in 0..Len(Servers(gs, v))
      PROVE  /\ GuardName(v, k) \in dom /\ GuardName(v, k) \in Nat
             /\ GuardName(v, k) \div NameStride = v /\ GuardName(v, k) % NameStride = k
  <2>1. v \in Nat /\ k \in Nat /\ k < NameStride
    <3>1. v \in Vlans /\ v \in Nat
      BY <1>2
    <3>2. PICK l : l = Len(Servers(gs, v))
      OBVIOUS
    <3>3. l \in Nat /\ l < NameStride
      BY <1>1, <3>1, <3>2
    <3>4. k \in 0..l
      BY <3>2
    <3> QED
      BY <3>1, <3>3, <3>4 DEF NameStride
  <2> QED
    BY <2>1, NameDecodes
<1>6. ASSUME NEW v \in Guarded(gs), NEW k \in 0..Len(Servers(gs, v)) PROVE GuardRule(gs, v, k) \in Rule
  <2>1. SonicVlan(v) \in Nat
    BY <1>2, VlanIsNat
  <2>2. CASE k = 0
    <3>1. [vlan |-> SonicVlan(v), servers |-> Hosts] \in Fields
      BY <2>1 DEF Fields
    <3> QED
      BY <2>2, <3>1 DEF GuardRule, Rule
  <2>3. CASE k # 0
    <3>1. k \in 1..Len(Servers(gs, v)) /\ Servers(gs, v) \in Seq(Hosts)
      <4>1. v \in Vlans
        BY <1>2
      <4>2. Servers(gs, v) \in Seq(Hosts) /\ Len(Servers(gs, v)) \in Nat
        BY <1>1, <4>1
      <4> QED
        BY <2>3, <4>2
    <3>2. Servers(gs, v)[k] \in Hosts
      BY <3>1
    <3>3. [vlan |-> SonicVlan(v), servers |-> {Servers(gs, v)[k]}] \in Fields
      BY <2>1, <3>2 DEF Fields
    <3> QED
      BY <2>3, <3>3 DEF GuardRule, Rule
  <2> QED
    BY <2>2, <2>3
<1>7. IsFiniteSet(dom)
  <2>1. IsFiniteSet(Guarded(gs))
    BY <1>2, FS_Subset
  <2>2. IsFiniteSet({Names(v) : v \in Guarded(gs)})
    <3>1. PICK Sets : Sets = {Names(v) : v \in Guarded(gs)}
      OBVIOUS
    <3> DEFINE f == [v \in Guarded(gs) |-> Names(v)]
    <3>2. f \in Surjection(Guarded(gs), Sets)
      BY <3>1 DEF Surjection
    <3> HIDE DEF f
    <3>3. IsFiniteSet(Sets)
      BY <2>1, <3>2, FS_Surjection
    <3> QED
      BY <3>1, <3>3
  <2>3. ASSUME NEW v \in Guarded(gs) PROVE IsFiniteSet(Names(v))
    <3>1. PICK Ks : Ks = 0..Len(Servers(gs, v))
      OBVIOUS
    <3>2. IsFiniteSet(Ks)
      BY <1>1, <1>2, <3>1, FS_Interval
    <3> DEFINE f == [k \in Ks |-> GuardName(v, k)]
    <3>3. f \in Surjection(Ks, Names(v))
      BY <3>1 DEF Surjection
    <3> HIDE DEF f, Names
    <3> QED
      BY <3>2, <3>3, FS_Surjection
  <2> HIDE DEF Names
  <2> QED
    BY <2>2, <2>3, FS_UNION
<1>8. ASSUME NEW n \in dom
      PROVE  \E v \in Guarded(gs) : \E k \in 0..Len(Servers(gs, v)) : n = GuardName(v, k)
  OBVIOUS
<1> HIDE DEF dom, Names, m
<1>9. ASSUME NEW v \in Guarded(gs), NEW k \in 0..Len(Servers(gs, v))
      PROVE  GuardName(v, k) \in dom /\ m[GuardName(v, k)] = GuardRule(gs, v, k)
  <2>1. PICK n : n = GuardName(v, k)
    OBVIOUS
  <2>2. n \in dom /\ n \div NameStride = v /\ n % NameStride = k
    BY <1>5, <2>1
  <2>3. m[n] = GuardRule(gs, n \div NameStride, n % NameStride)
    BY <1>4, <2>2
  <2> QED
    BY <2>1, <2>2, <2>3
<1>10. ASSUME NEW n \in dom PROVE n \in Nat /\ m[n] \in Rule
  BY <1>5, <1>6, <1>8, <1>9
<1>11. dom \in FiniteNames /\ m \in [dom -> Rule]
  BY <1>4, <1>7, <1>10 DEF FiniteNames
<1>12. m \in RuleMaps
  BY <1>11 DEF RuleMaps
<1>13. ASSUME NEW n \in DOMAIN m PROVE \E e \in GuardKeys(gs) : n = GuardName(e[1], e[2])
  <2>a. PICK v \in Guarded(gs) : \E k \in 0..Len(Servers(gs, v)) : n = GuardName(v, k)
    BY <1>8, <1>11
  <2>1. PICK k \in 0..Len(Servers(gs, v)) : n = GuardName(v, k)
    BY <2>a
  <2>2. v \in Vlans /\ k \in Nat
    BY <1>1, <1>2
  <2>3. PICK e : e = <<v, k>>
    OBVIOUS
  <2>4. e \in Vlans \X Nat /\ e[1] = v /\ e[2] = k
    BY <2>2, <2>3
  <2>5. e \in GuardKeys(gs)
    BY <2>4 DEF GuardKeys
  <2> QED
    BY <2>1, <2>4, <2>5
<1>14. ASSUME NEW e \in GuardKeys(gs)
       PROVE  GuardName(e[1], e[2]) \in DOMAIN m /\ m[GuardName(e[1], e[2])] = GuardRule(gs, e[1], e[2])
  <2>1. e[1] \in Guarded(gs) /\ e[2] \in 0..Len(Servers(gs, e[1]))
    BY DEF GuardKeys
  <2> QED
    BY <1>9, <1>11, <2>1
<1> QED
  BY <1>12, <1>13, <1>14 DEF IsGuardTable, m

\* A first Block that matches the bridge's SSH is one the check finds.
LEMMA IpReachable ==
  ASSUME NEW ips, ips \in Seq(IpRule), NEW a \in {Bridge, None},
         \A i \in DOMAIN ips : ips[i].oneSport \/ ips[i].sports = Ports,
         \A i \in DOMAIN ips : ips[i].oneSport => Ephemeral \notin ips[i].sports,
         ~CutsManagement(ips, a, {Switch})
  PROVE  FirstHitPermits(IpAcl, IpTable(ips), BridgeSsh)
<1> DEFINE n == Len(ips)
           m == IpTable(ips)
           H == Hits(IpAcl, m, BridgeSsh)
           Considered(r) == /\ r.proto \in {"any", "tcp"} /\ ~r.oneSport /\ Switch \in r.dst /\ Ssh \in r.dports
                            /\ a = None \/ a \in r.src
           Decides(r) == Considered(r) /\ (~r.permit \/ a # None \/ r.src = Hosts)
           Deciders == {i \in 1..n : Decides(ips[i])}
<1>1. /\ n \in Nat /\ DOMAIN ips = 1..n /\ DOMAIN m = 1..n
      /\ \A i \in 1..n : m[i].permit = ips[i].permit /\ m[i].fields = IpFields(ips[i]) /\ ips[i] \in IpRule
  BY IpInOrder DEF Ordered
<1>2. ASSUME NEW i \in 1..n
      PROVE  i \in H <=> /\ ips[i].proto \in {"any", "tcp"} /\ Bridge \in ips[i].src /\ Switch \in ips[i].dst
                         /\ Ephemeral \in ips[i].sports /\ Ssh \in ips[i].dports
  <2>1. i \in H <=> Matches(IpAcl, IpFields(ips[i]), BridgeSsh)
    BY <1>1 DEF Hits
  <2> QED
    BY <2>1 DEF Matches, Guard, IpAcl, MacAcl, IpFields, BridgeSsh
<1>3. ASSUME NEW i \in 1..n PROVE ips[i].oneSport <=> Ephemeral \notin ips[i].sports
  BY <1>1 DEF Ports
<1>4. ~(\E i \in 1..n : Decides(ips[i]) /\ ~ips[i].permit /\ \A j \in 1..i - 1 : ~Decides(ips[j]))
  BY <1>1 DEF CutsManagement
<1> HIDE DEF m, n, H
<1> SUFFICES ASSUME NEW i \in 1..n, i \in H, \A j \in 1..i - 1 : j \notin H, ~ips[i].permit PROVE FALSE
  BY <1>1 DEF FirstHitPermits, m, H
<1>5. i \in Deciders
  <2>1. a = None \/ a \in ips[i].src
    BY <1>2
  <2> QED
    BY <1>2, <1>3, <2>1
<1>6. Deciders \subseteq Nat
  BY <1>1
<1>7. PICK k \in Deciders : \A y \in Deciders : k <= y
  <2> HIDE DEF Deciders
  <2> QED
    BY <1>5, <1>6, Least
<1>8. k \in 1..n /\ i \in 1..n /\ k <= i /\ k \in Nat /\ i \in Nat
  BY <1>1, <1>5, <1>7
<1>9. \A j \in 1..k - 1 : j \in 1..n /\ j \notin Deciders
  BY <1>1, <1>7, <1>8
<1>10. \A j \in 1..k - 1 : ~Decides(ips[j])
  BY <1>9
<1>11. Decides(ips[k])
  BY <1>7
<1>12. ips[k].permit
  BY <1>4, <1>8, <1>10, <1>11
<1>13. k \in H
  <2>1. Bridge \in ips[k].src
    <3>1. Bridge \in Hosts
      BY AddressAssumption
    <3> QED
      BY <1>11, <1>12, <3>1
  <2>2. Ephemeral \in ips[k].sports
    BY <1>3, <1>8, <1>11
  <2> QED
    BY <1>2, <1>8, <1>11, <2>1, <2>2
<1>14. k \notin 1..i - 1
  BY <1>13
<1>15. k = i
  BY <1>8, <1>14
<1> QED
  BY <1>12, <1>15

\* The same for the frames of the management traffic.
LEMMA MacReachable ==
  ASSUME NEW macs, macs \in Seq(MacRule), NEW pth \in Paths, NEW dst \in MgmtDsts,
         pth.vlan < 0 => \A i \in DOMAIN macs : macs[i].permit => SonicVlan(macs[i].vlan) = SonicVlan(MgmtVlan),
         ~CutsManagementMAC(macs, pth)
  PROVE  FirstHitPermits(MacAcl, MacTable(macs), BridgeFrame(dst))
<1> DEFINE n == Len(macs)
           m == MacTable(macs)
           H == Hits(MacAcl, m, BridgeFrame(dst))
<1>1. /\ n \in Nat /\ DOMAIN macs = 1..n /\ DOMAIN m = 1..n
      /\ \A i \in 1..n : m[i].permit = macs[i].permit /\ m[i].fields = MacFields(macs[i]) /\ macs[i] \in MacRule
  BY MacInOrder DEF Ordered
<1>2. PICK mv : mv = SonicVlan(MgmtVlan)
  OBVIOUS
<1>3. mv \in Nat /\ mv # 0
  BY <1>2, AddressAssumption DEF SonicVlan
<1>4. ASSUME NEW i \in 1..n
      PROVE  i \in H <=> SonicVlan(macs[i].vlan) = mv /\ Gateway \in macs[i].src /\ dst \in macs[i].dst
  <2>1. i \in H <=> Matches(MacAcl, MacFields(macs[i]), BridgeFrame(dst))
    BY <1>1 DEF Hits
  <2> QED
    BY <1>2, <2>1 DEF Matches, Guard, IpAcl, MacAcl, MacFields, BridgeFrame
<1>5. pth.vlan \in {mv, -1} /\ (pth.peers = {} \/ Gateway \in pth.peers) /\ pth.dsts = MgmtDsts
  BY <1>2 DEF Paths
<1>6. pth.vlan # 0 /\ (pth.vlan < 0 <=> pth.vlan # mv)
  BY <1>3, <1>5
<1>7. PICK src : src \in (IF pth.peers = {} THEN {None} ELSE pth.peers) /\ (src = None \/ src = Gateway)
  BY <1>5
<1> DEFINE Decides(r) == /\ pth.vlan < 0 \/ SonicVlan(r.vlan) = pth.vlan
                         /\ dst \in r.dst
                         /\ src = None \/ src \in r.src
                         /\ ~r.permit \/ src # None \/ r.src = Macs
           Deciders == {i \in 1..n : Decides(macs[i])}
<1>8. ~(\E i \in 1..n : Decides(macs[i]) /\ ~macs[i].permit /\ \A j \in 1..i - 1 : ~Decides(macs[j]))
  <2> SUFFICES ASSUME NEW i \in 1..n, Decides(macs[i]), ~macs[i].permit, \A j \in 1..i - 1 : ~Decides(macs[j])
               PROVE  CutsManagementMAC(macs, pth)
    OBVIOUS
  <2> DEFINE D(s, d, r) == /\ pth.vlan < 0 \/ SonicVlan(r.vlan) = pth.vlan
                           /\ d \in r.dst
                           /\ s = None \/ s \in r.src
                           /\ ~r.permit \/ s # None \/ r.src = Macs
             Cuts(s, d) == \E x \in DOMAIN macs : D(s, d, macs[x]) /\ ~macs[x].permit /\ \A j \in 1..x - 1 : ~D(s, d, macs[j])
  <2>1. Cuts(src, dst)
    BY <1>1
  <2>2. dst \in pth.dsts
    BY <1>5
  <2>3. CutsManagementMAC(macs, pth) <=>
          pth.vlan # 0 /\ \E s \in (IF pth.peers = {} THEN {None} ELSE pth.peers), d \in pth.dsts : Cuts(s, d)
    BY DEF CutsManagementMAC
  <2> HIDE DEF Cuts
  <2> QED
    BY <1>6, <1>7, <2>1, <2>2, <2>3
<1> HIDE DEF m, n, H
<1> SUFFICES ASSUME NEW i \in 1..n, i \in H, \A j \in 1..i - 1 : j \notin H, ~macs[i].permit PROVE FALSE
  BY <1>1 DEF FirstHitPermits, m, H
<1>9. i \in Deciders
  BY <1>4, <1>6, <1>7
<1>10. Deciders \subseteq Nat
  BY <1>1
<1>11. PICK k \in Deciders : \A y \in Deciders : k <= y
  <2> HIDE DEF Deciders
  <2> QED
    BY <1>9, <1>10, Least
<1>12. k \in 1..n /\ i \in 1..n /\ k <= i /\ k \in Nat /\ i \in Nat
  BY <1>1, <1>9, <1>11
<1>13. \A j \in 1..k - 1 : j \in 1..n /\ j \notin Deciders
  BY <1>1, <1>11, <1>12
<1>14. \A j \in 1..k - 1 : ~Decides(macs[j])
  BY <1>13
<1>15. Decides(macs[k])
  BY <1>11
<1>16. macs[k].permit
  BY <1>8, <1>12, <1>14, <1>15
<1>17. k \in H
  <2>1. Gateway \in macs[k].src
    <3>1. Gateway \in Macs
      BY AddressAssumption
    <3> QED
      BY <1>7, <1>15, <1>16, <3>1
  <2>2. SonicVlan(macs[k].vlan) = mv
    BY <1>1, <1>2, <1>6, <1>12, <1>15, <1>16
  <2> QED
    BY <1>4, <1>12, <1>15, <2>1, <2>2
<1>18. k \notin 1..i - 1
  BY <1>17
<1>19. k = i
  BY <1>12, <1>18
<1> QED
  BY <1>16, <1>19

\* Of the DHCP replies on a guarded VLAN the guard table lets the trusted
\* servers' pass, and all others on a VLAN that is not guarded.
LEMMA GuardDecides ==
  ASSUME NEW gs, gs \in Seq(Trusted), NEW m, IsGuardTable(m, gs), NEW s, Synced(s[Guard], m),
         NEW v \in Vlans, NEW h \in Hosts
  PROVE  Permits(s, Guard, [vlan |-> SonicVlan(v), server |-> h]) <=>
           (Servers(gs, v) # <<>> => h \in ToSet(Servers(gs, v)))
<1> DEFINE pk == [vlan |-> SonicVlan(v), server |-> h]
           H == Hits(Guard, m, pk)
           sv == Servers(gs, v)
           Name(k) == GuardName(v, k)
<1>1. sv \in Seq(Hosts) /\ Len(sv) \in Nat
  BY ServersAre
<1>2. ASSUME NEW n \in H
      PROVE  \E k \in 0..Len(sv) : /\ n = Name(k) /\ v \in Guarded(gs) /\ m[n] = GuardRule(gs, v, k)
                                   /\ k # 0 => h = sv[k]
  <2>1. n \in DOMAIN m /\ Matches(Guard, m[n].fields, pk)
    BY DEF Hits
  <2>2. PICK e \in GuardKeys(gs) : n = GuardName(e[1], e[2])
    BY <2>1 DEF IsGuardTable
  <2>3. m[n] = GuardRule(gs, e[1], e[2])
    BY <2>2 DEF IsGuardTable
  <2>4. e[1] \in Vlans /\ e[1] \in Guarded(gs) /\ e[2] \in 0..Len(Servers(gs, e[1]))
    BY DEF GuardKeys
  <2>5. m[n].fields.vlan = SonicVlan(v) /\ h \in m[n].fields.servers
    BY <2>1 DEF Matches, Guard, IpAcl, MacAcl
  <2>6. SonicVlan(e[1]) = SonicVlan(v)
    BY <2>3, <2>5 DEF GuardRule
  <2>7. e[1] = v
    BY <2>4, <2>6, VlansDistinct
  <2>8. e[2] # 0 => h = sv[e[2]]
    BY <2>3, <2>5, <2>7 DEF GuardRule
  <2> QED
    BY <2>2, <2>3, <2>4, <2>7, <2>8
<1>3. ASSUME NEW k \in 0..Len(sv), v \in Guarded(gs), k = 0 \/ h = sv[k]
      PROVE  Name(k) \in H /\ m[Name(k)] = GuardRule(gs, v, k)
  <2>1. PICK e : e = <<v, k>>
    OBVIOUS
  <2>2. e \in Vlans \X Nat /\ e[1] = v /\ e[2] = k
    BY <1>1, <2>1
  <2>3. e \in GuardKeys(gs)
    BY <1>3, <2>2 DEF GuardKeys
  <2>4. Name(k) \in DOMAIN m /\ m[Name(k)] = GuardRule(gs, v, k)
    BY <2>2, <2>3 DEF IsGuardTable
  <2>5. GuardRule(gs, v, k).fields.vlan = SonicVlan(v) /\ h \in GuardRule(gs, v, k).fields.servers
    BY <1>3 DEF GuardRule
  <2>6. Matches(Guard, GuardRule(gs, v, k).fields, pk)
    BY <2>5 DEF Matches, Guard, IpAcl, MacAcl
  <2> QED
    BY <2>4, <2>6 DEF Hits
<1>4. /\ \A k \in 1..Len(sv) : GuardRule(gs, v, k).permit /\ GuardRule(gs, v, k).prio = 9000
      /\ ~GuardRule(gs, v, 0).permit /\ GuardRule(gs, v, 0).prio = 8000
  BY DEF GuardRule
<1>5. ToSet(sv) = {sv[k] : k \in 1..Len(sv)}
  BY <1>1 DEF ToSet
<1> HIDE DEF H, Name, pk
<1> DEFINE top == {r \in H : \A q \in H : m[q].prio <= m[r].prio}
<1>6. DOMAIN m # {} => (Permits(s, Guard, pk) <=> (H = {} \/ \E r \in top : m[r].permit))
  BY DEF Permits, Synced, Hits, H
<1>7. DOMAIN m = {} => Permits(s, Guard, pk) /\ H = {}
  BY DEF Permits, Synced, Hits, H
<1>8. v \in Guarded(gs) <=> sv # <<>>
  BY DEF Guarded
<1> HIDE DEF sv
<1>9. CASE sv = <<>>
  <2>1. H = {}
    BY <1>2, <1>8, <1>9
  <2>2. Permits(s, Guard, pk)
    BY <1>6, <1>7, <2>1
  <2> QED
    BY <1>9, <2>2 DEF pk, sv
<1>10. CASE sv # <<>> /\ h \in ToSet(sv)
  <2>1. PICK k \in 1..Len(sv) : h = sv[k]
    BY <1>5, <1>10
  <2>2. k \in 0..Len(sv)
    BY <1>1
  <2>3. Name(k) \in H /\ m[Name(k)].permit /\ m[Name(k)].prio = 9000
    BY <1>3, <1>4, <1>8, <1>10, <2>1, <2>2
  <2>4. \A n \in H : m[n].prio \in {8000, 9000}
    <3> SUFFICES ASSUME NEW n \in H PROVE m[n].prio \in {8000, 9000}
      OBVIOUS
    <3>1. PICK j \in 0..Len(sv) : m[n] = GuardRule(gs, v, j)
      BY <1>2
    <3>2. j = 0 \/ j \in 1..Len(sv)
      BY <1>1
    <3> QED
      BY <1>4, <3>1, <3>2
  <2>5. Name(k) \in top
    BY <2>3, <2>4
  <2>6. Permits(s, Guard, pk)
    <3> HIDE DEF top
    <3>1. \E r \in top : m[r].permit
      BY <2>3, <2>5
    <3>2. DOMAIN m # {}
      BY <2>3 DEF H, Hits
    <3> QED
      BY <1>6, <3>1, <3>2
  <2> QED
    BY <1>10, <2>6 DEF pk, sv
<1>11. CASE sv # <<>> /\ h \notin ToSet(sv)
  <2>1. 0 \in 0..Len(sv)
    BY <1>1
  <2>2. Name(0) \in H
    BY <1>3, <1>8, <1>11, <2>1
  <2>3. ASSUME NEW n \in H PROVE ~m[n].permit
    <3>1. PICK j \in 0..Len(sv) : m[n] = GuardRule(gs, v, j) /\ (j # 0 => h = sv[j])
      BY <1>2, <2>3
    <3>2. j = 0 \/ j \in 1..Len(sv)
      BY <1>1
    <3>3. j = 0
      BY <1>5, <1>11, <3>1, <3>2
    <3> QED
      BY <1>4, <3>1, <3>3
  <2>4. DOMAIN m # {}
    BY <2>2 DEF H, Hits
  <2>5. ~Permits(s, Guard, pk)
    BY <1>6, <2>2, <2>3, <2>4
  <2> QED
    BY <1>11, <2>5 DEF pk, sv
<1> QED
  BY <1>9, <1>10, <1>11

\* What the tables a push speaks of are to hold, and what was checked of them.
Meant(w, p, a, pth) ==
  /\ Wants(w)
  /\ Guard \in DOMAIN w => w[Guard] = IF p.snooping = TRUE THEN GuardTable(p.guards) ELSE <<>>
  /\ IpAcl \in DOMAIN w => w[IpAcl] = IpTable(p.ips) /\ Captured(p.ips) /\ ~CutsManagement(p.ips, a, {Switch})
  /\ MacAcl \in DOMAIN w => w[MacAcl] = MacTable(p.macs) /\ ~CutsManagementMAC(p.macs, pth)

LEMMA AclSetIsMeant ==
  ASSUME NEW p \in Pushes
  PROVE  Meant(AclSet(p), p, from, path)
<1>1. PICK w : w = AclSet(p)
  OBVIOUS
<1>2. /\ p.guards \in Seq(Trusted) /\ Len(p.guards) < NameStride
      /\ p.ips \in Seq(IpRule) /\ p.macs \in Seq(MacRule)
  BY PushAssumption
<1>3. /\ DOMAIN w \subseteq Tables
      /\ IpAcl \in DOMAIN w => ~IpHeld(p)
      /\ MacAcl \in DOMAIN w => ~MacHeld(p)
  BY <1>1 DEF AclSet, Tables, Guard, IpAcl, MacAcl
<1>4. /\ Guard \in DOMAIN w => w[Guard] = IF p.snooping = TRUE THEN GuardTable(p.guards) ELSE <<>>
      /\ IpAcl \in DOMAIN w => w[IpAcl] = IpTable(p.ips)
      /\ MacAcl \in DOMAIN w => w[MacAcl] = MacTable(p.macs)
  BY <1>1 DEF AclSet, Guard, IpAcl, MacAcl, GuardTable, IpTable, MacTable
<1>5. IpTable(p.ips) \in RuleMaps /\ MacTable(p.macs) \in RuleMaps
  BY <1>2, IpInOrder, MacInOrder
<1>6. GuardTable(p.guards) \in RuleMaps /\ <<>> \in RuleMaps
  BY <1>2, GuardRulesAre, NoRules
<1>7. Wants(w)
  BY <1>3, <1>4, <1>5, <1>6 DEF Wants, Tables
<1>8. /\ IpAcl \in DOMAIN w => Captured(p.ips) /\ ~CutsManagement(p.ips, from, {Switch})
      /\ MacAcl \in DOMAIN w => ~CutsManagementMAC(p.macs, path)
  BY <1>3 DEF IpHeld, MacHeld
<1> QED
  BY <1>1, <1>4, <1>7, <1>8 DEF Meant

-----------------------------------------------------------------------------
\* The tables d after a batch for w that started from the tables s.
Brought(d, s, w) ==
  \A t \in Tables : (t \in DOMAIN w => Synced(d[t], w[t])) /\ (t \notin DOMAIN w => d[t] = s[t])

\* The inductive invariant.  A batch starts from a copy of tables that let
\* the bridge in and works towards them brought in line with the set meant;
\* the tables of a batch that ran to its end came about that way.
IInv ==
  /\ db \in Dbs /\ from \in {Bridge, None} /\ path \in Paths
  /\ push # None => push \in Pushes
  /\ view # None => view \in Dbs /\ Reachable(view) /\ push # None
  /\ running => /\ view # None /\ ops \in Seq(Commands)
                /\ Meant(want, push, from, path) /\ Brought(sim, view, want)
  /\ settled => /\ ~running /\ push # None /\ Meant(want, push, from, path)
                /\ \E s \in Dbs : Reachable(s) /\ Brought(db, s, want)

LEMMA SameTableSamePacket ==
  ASSUME NEW d, NEW s, NEW t, d[t] = s[t], NEW p
  PROVE  Permits(d, t, p) <=> Permits(s, t, p)
  BY DEF Permits

LEMMA InitIsInv == Init => IInv
<1> SUFFICES ASSUME Init PROVE IInv
  OBVIOUS
<1>1. db \in Dbs
  <2>1. [bound |-> "none", rules |-> <<>>] \in Table
    BY NoRules DEF Table, Bounds
  <2> QED
    BY <2>1 DEF Init, Dbs
<1> QED
  BY <1>1 DEF Init, IInv, Paths

LEMMA NextKeepsInv == IInv /\ [Next]_vars => IInv'
<1> SUFFICES ASSUME IInv, [Next]_vars PROVE IInv'
  OBVIOUS
<1>1. ASSUME NEW p \in Pushes, Push(p) PROVE IInv'
  BY <1>1 DEF IInv, Push
<1>2. CASE Collect
  BY <1>2 DEF IInv, Collect, Reachable
<1>3. CASE CutOff \/ UNCHANGED vars
  BY <1>3 DEF IInv, CutOff, vars, Reachable
<1>4. CASE Apply
  <2>1. view \in Dbs /\ view # None /\ push \in Pushes /\ ~running
    BY <1>4 DEF IInv, Apply
  <2>2. want' = AclSet(push)
    BY <1>4 DEF Apply
  <2>3. Meant(want', push, from, path)
    BY <2>1, <2>2, AclSetIsMeant
  <2>4. PICK w : w = want'
    OBVIOUS
  <2>5. PICK b : b = AclBatch(view, w)
    OBVIOUS
  <2>6. ops' = b.ops /\ sim' = b.sim
    BY <1>4, <2>4, <2>5 DEF Apply
  <2>7. Wants(w)
    BY <2>3, <2>4 DEF Meant
  <2>8. b \in Plans /\ Brought(b.sim, view, w)
    BY <2>1, <2>5, <2>7, AclBatchIs DEF Brought
  <2>9. ops' \in Seq(Commands) /\ Brought(sim', view, want')
    BY <2>4, <2>6, <2>8 DEF Plans
  <2>10. UNCHANGED <<db, view, from, path, push>> /\ running' = TRUE /\ settled' = FALSE
    BY <1>4 DEF Apply
  <2>11. Meant(want, push, from, path)' /\ Brought(sim, view, want)'
    BY <2>3, <2>9, <2>10
  <2> QED
    BY <2>1, <2>9, <2>10, <2>11 DEF IInv, Reachable
<1>5. CASE RunOp
  <2>1. running /\ ~settled /\ ops \in Seq(Commands) /\ ops # <<>> /\ db \in Dbs
    BY <1>5 DEF IInv, RunOp
  <2>2. Head(ops) \in Commands /\ Tail(ops) \in Seq(Commands)
    BY <2>1
  <2>3. RunOn(db, Head(ops)) \in Dbs
    BY <2>1, <2>2, RunOnType
  <2>4. db' \in Dbs /\ ops' \in Seq(Commands)
    BY <1>5, <2>2, <2>3 DEF RunOp
  <2>5. UNCHANGED <<view, from, path, push, want, sim, running, settled>>
    BY <1>5 DEF RunOp
  <2> QED
    BY <2>1, <2>4, <2>5 DEF IInv, Reachable
<1>6. CASE Commit
  <2>1. running /\ view \in Dbs /\ Reachable(view) /\ push # None /\ Meant(want, push, from, path) /\ Brought(sim, view, want)
    BY <1>6 DEF IInv, Commit
  <2>2. /\ UNCHANGED <<db, from, path, push, want>>
        /\ running' = FALSE /\ view' = None /\ settled' = (db = sim)
    BY <1>6 DEF Commit
  <2>3. settled' => \E s \in Dbs : Reachable(s) /\ Brought(db, s, want)
    BY <2>1, <2>2
  <2>4. (\E s \in Dbs : Reachable(s) /\ Brought(db, s, want)) => (\E s \in Dbs : Reachable(s) /\ Brought(db, s, want))'
    BY <2>2
  <2> QED
    BY <2>1, <2>2, <2>3, <2>4 DEF IInv
<1>7. CASE ConnectionLost
  BY <1>7 DEF IInv, ConnectionLost
<1>8. ASSUME NEW t \in Tables, NEW b \in {"stale", "foreign"}, Rebound(t, b) PROVE IInv'
  <2>1. db \in Dbs /\ db' = [db EXCEPT ![t].bound = b]
    BY <1>8 DEF IInv, Rebound
  <2>2. db' \in Dbs
    BY <2>1 DEF Dbs, Table, Bounds
  <2>3. UNCHANGED <<view, from, path, push, want, ops, sim, running>> /\ settled' = FALSE /\ ~running
    BY <1>8 DEF Rebound
  <2> QED
    BY <2>2, <2>3 DEF IInv, Reachable
<1> QED
  BY <1>1, <1>2, <1>3, <1>4, <1>5, <1>6, <1>7, <1>8 DEF Next

LEMMA InvHolds == Spec => []IInv
<1> QED
  BY InitIsInv, NextKeepsInv, PTL DEF Spec

LEMMA InvKeepsReachable == IInv => NeverCutOff
<1> SUFFICES ASSUME IInv, settled, Foreseen(push) PROVE Reachable(db)
  BY DEF NeverCutOff
<1>1. push \in Pushes /\ Meant(want, push, from, path) /\ from \in {Bridge, None} /\ path \in Paths
  BY DEF IInv
<1>2. PICK s \in Dbs : Reachable(s) /\ Brought(db, s, want)
  BY DEF IInv
<1>3. /\ push.ips \in Seq(IpRule) /\ push.macs \in Seq(MacRule)
      /\ \A i \in DOMAIN push.ips : push.ips[i].captured => push.ips[i].oneSport \/ push.ips[i].sports = Ports
  BY <1>1, PushAssumption
<1>4. IpAcl \in Tables /\ MacAcl \in Tables
  BY DEF Tables
<1>5. Permits(db, IpAcl, BridgeSsh)
  <2>1. CASE IpAcl \in DOMAIN want
    <3>1. want[IpAcl] = IpTable(push.ips) /\ Captured(push.ips) /\ ~CutsManagement(push.ips, from, {Switch})
      BY <1>1, <2>1 DEF Meant
    <3>2. \A i \in DOMAIN push.ips : push.ips[i].oneSport \/ push.ips[i].sports = Ports
      BY <1>3, <3>1 DEF Captured
    <3>3. \A i \in DOMAIN push.ips : push.ips[i].oneSport => Ephemeral \notin push.ips[i].sports
      BY DEF Foreseen
    <3>4. FirstHitPermits(IpAcl, IpTable(push.ips), BridgeSsh)
      BY <1>1, <1>3, <3>1, <3>2, <3>3, IpReachable
    <3>5. Synced(db[IpAcl], IpTable(push.ips))
      BY <1>2, <1>4, <2>1, <3>1 DEF Brought
    <3>6. Ordered(IpTable(push.ips), Len(push.ips)) /\ Len(push.ips) \in Nat
      BY <1>3, IpInOrder
    <3> QED
      BY <3>4, <3>5, <3>6, FirstHitDecides
  <2>2. CASE IpAcl \notin DOMAIN want
    BY <1>2, <1>4, <2>2, SameTableSamePacket DEF Brought, Reachable
  <2> QED
    BY <2>1, <2>2
<1>6. ASSUME NEW dst \in MgmtDsts PROVE Permits(db, MacAcl, BridgeFrame(dst))
  <2>1. CASE MacAcl \in DOMAIN want
    <3>1. want[MacAcl] = MacTable(push.macs) /\ ~CutsManagementMAC(push.macs, path)
      BY <1>1, <2>1 DEF Meant
    <3>2. path.vlan < 0 => \A i \in DOMAIN push.macs :
            push.macs[i].permit => SonicVlan(push.macs[i].vlan) = SonicVlan(MgmtVlan)
      BY DEF Foreseen
    <3>3. FirstHitPermits(MacAcl, MacTable(push.macs), BridgeFrame(dst))
      BY <1>1, <1>3, <3>1, <3>2, MacReachable
    <3>4. Synced(db[MacAcl], MacTable(push.macs))
      BY <1>2, <1>4, <2>1, <3>1 DEF Brought
    <3>5. Ordered(MacTable(push.macs), Len(push.macs)) /\ Len(push.macs) \in Nat
      BY <1>3, MacInOrder
    <3> QED
      BY <3>3, <3>4, <3>5, FirstHitDecides
  <2>2. CASE MacAcl \notin DOMAIN want
    BY <1>2, <1>4, <2>2, SameTableSamePacket DEF Brought, Reachable
  <2> QED
    BY <2>1, <2>2
<1> QED
  BY <1>5, <1>6 DEF Reachable

\* cutsManagement and cutsManagementMAC suffice: no set that was written to
\* its end cuts the bridge off, with any number of rules and addresses, from
\* any tables and after any cut-off batch, unless the push has one of the two
\* shapes the check takes for granted it has not (Foreseen).
THEOREM BridgeStaysConnected == Spec => []NeverCutOff
<1> QED
  BY InvHolds, InvKeepsReachable, PTL

LEMMA InvMeansThePush == IInv => RulesMeanThePush
<1> SUFFICES ASSUME IInv, settled PROVE RulesMeanThePush
  BY DEF RulesMeanThePush
<1>1. push \in Pushes /\ Meant(want, push, from, path)
  BY DEF IInv
<1>2. PICK s \in Dbs : Brought(db, s, want)
  BY DEF IInv
<1>3. /\ push.ips \in Seq(IpRule) /\ push.macs \in Seq(MacRule)
      /\ push.guards \in Seq(Trusted) /\ Len(push.guards) < NameStride
  BY <1>1, PushAssumption
<1>4. Guard \in Tables /\ IpAcl \in Tables /\ MacAcl \in Tables
  BY DEF Tables
<1>5. ASSUME IpAcl \in DOMAIN want, NEW p \in IpPackets
      PROVE  Permits(db, IpAcl, p) = FirstMatch(IpAcl, push.ips, IpFields, p)
  <2>1. Synced(db[IpAcl], IpTable(push.ips))
    BY <1>1, <1>2, <1>4, <1>5 DEF Brought, Meant
  <2>2. PICK m : m = IpTable(push.ips)
    OBVIOUS
  <2>3. /\ Ordered(m, Len(push.ips)) /\ Len(push.ips) \in Nat /\ DOMAIN push.ips = 1..Len(push.ips)
        /\ \A i \in DOMAIN push.ips : m[i].permit = push.ips[i].permit /\ m[i].fields = IpFields(push.ips[i])
    BY <1>3, <2>2, IpInOrder
  <2>4. Permits(db, IpAcl, p) <=> FirstHitPermits(IpAcl, m, p)
    BY <2>1, <2>2, <2>3, FirstHitDecides
  <2>5. FirstHitPermits(IpAcl, m, p) <=> FirstMatch(IpAcl, push.ips, IpFields, p)
    <3>1. DOMAIN m = DOMAIN push.ips
      BY <2>3 DEF Ordered
    <3>2. \A i \in DOMAIN push.ips : i \in Hits(IpAcl, m, p) <=> Matches(IpAcl, IpFields(push.ips[i]), p)
      BY <2>3, <3>1 DEF Hits
    <3>3. \A i \in DOMAIN push.ips : \A j \in 1..i - 1 : j \in DOMAIN push.ips
      BY <2>3
    <3> QED
      BY <2>3, <3>1, <3>2, <3>3 DEF FirstHitPermits, FirstMatch
  <2> QED
    BY <2>4, <2>5 DEF Permits, FirstMatch
<1>6. ASSUME MacAcl \in DOMAIN want, NEW p \in Frames
      PROVE  Permits(db, MacAcl, p) = FirstMatch(MacAcl, push.macs, MacFields, p)
  <2>1. Synced(db[MacAcl], MacTable(push.macs))
    BY <1>1, <1>2, <1>4, <1>6 DEF Brought, Meant
  <2>2. PICK m : m = MacTable(push.macs)
    OBVIOUS
  <2>3. /\ Ordered(m, Len(push.macs)) /\ Len(push.macs) \in Nat /\ DOMAIN push.macs = 1..Len(push.macs)
        /\ \A i \in DOMAIN push.macs : m[i].permit = push.macs[i].permit /\ m[i].fields = MacFields(push.macs[i])
    BY <1>3, <2>2, MacInOrder
  <2>4. Permits(db, MacAcl, p) <=> FirstHitPermits(MacAcl, m, p)
    BY <2>1, <2>2, <2>3, FirstHitDecides
  <2>5. FirstHitPermits(MacAcl, m, p) <=> FirstMatch(MacAcl, push.macs, MacFields, p)
    <3>1. DOMAIN m = DOMAIN push.macs
      BY <2>3 DEF Ordered
    <3>2. \A i \in DOMAIN push.macs : i \in Hits(MacAcl, m, p) <=> Matches(MacAcl, MacFields(push.macs[i]), p)
      BY <2>3, <3>1 DEF Hits
    <3>3. \A i \in DOMAIN push.macs : \A j \in 1..i - 1 : j \in DOMAIN push.macs
      BY <2>3
    <3> QED
      BY <2>3, <3>1, <3>2, <3>3 DEF FirstHitPermits, FirstMatch
  <2> QED
    BY <2>4, <2>5 DEF Permits, FirstMatch
<1>7. ASSUME Guard \in DOMAIN want, NEW v \in Vlans, NEW h \in Hosts
      PROVE  Permits(db, Guard, [vlan |-> SonicVlan(v), server |-> h]) =
               (push.snooping = TRUE /\ Servers(push.guards, v) # <<>> => h \in ToSet(Servers(push.guards, v)))
  <2>1. Synced(db[Guard], want[Guard])
    BY <1>2, <1>4, <1>7 DEF Brought
  <2>2. CASE push.snooping = TRUE
    <3>1. PICK m : m = GuardTable(push.guards)
      OBVIOUS
    <3>2. Synced(db[Guard], m)
      BY <1>1, <1>7, <2>1, <2>2, <3>1 DEF Meant
    <3>3. IsGuardTable(m, push.guards)
      BY <1>3, <3>1, GuardRulesAre
    <3>4. Permits(db, Guard, [vlan |-> SonicVlan(v), server |-> h]) <=>
            (Servers(push.guards, v) # <<>> => h \in ToSet(Servers(push.guards, v)))
      BY <1>3, <3>2, <3>3, GuardDecides
    <3> QED
      BY <2>2, <3>4 DEF Permits
  <2>3. CASE push.snooping # TRUE
    <3>1. want[Guard] = <<>>
      BY <1>1, <1>7, <2>3 DEF Meant
    <3>2. db[Guard].bound = "none"
      BY <2>1, <3>1, NoRules DEF Synced
    <3> QED
      BY <2>3, <3>2 DEF Permits
  <2> QED
    BY <2>2, <2>3
<1> QED
  BY <1>5, <1>6, <1>7 DEF RulesMeanThePush

\* After a batch that ran to its end the tables decide every packet as the
\* push does, whatever was on the switch before: the rules at priorities
\* 9999-N by first match, the guard's FORWARDs above its DROP.
THEOREM TablesMeanThePush == Spec => []RulesMeanThePush
<1> QED
  BY InvHolds, InvMeansThePush, PTL

-----------------------------------------------------------------------------
\* The rule of a VLAN with the servers L at place k.
ListRule(L, v, k) ==
  IF k = 0 THEN [prio |-> 8000, permit |-> FALSE, fields |-> [vlan |-> SonicVlan(v), servers |-> Hosts]]
  ELSE [prio |-> 9000, permit |-> TRUE, fields |-> [vlan |-> SonicVlan(v), servers |-> {L[k]}]]
Places == 0..NameStride - 1
ShortLists == {L \in Seq(Hosts) : Len(L) < NameStride}

\* Of the rules m, those of VLAN v are rules of the list L, and its DROP is
\* there only with every FORWARD.
Upright(m, v, L) ==
  /\ \A k \in Places : GuardName(v, k) \in DOMAIN m => k \in 0..Len(L) /\ m[GuardName(v, k)] = ListRule(L, v, k)
  /\ GuardName(v, 0) \in DOMAIN m => \A k \in 1..Len(L) : GuardName(v, k) \in DOMAIN m

\* The rules m are fit for the lists the controller has pushed.
Sound(m, ls) ==
  \A v \in Vlans : /\ ls[v] = {} => \A k \in Places : GuardName(v, k) \notin DOMAIN m
                   /\ \A L : ls[v] = {L} => Upright(m, v, L)

\* What a command makes of the rules of the guard table.
Effect(m, o) ==
  CASE o.table = Guard /\ o.op = "del" -> Without(m, o.rule)
    [] o.table = Guard /\ o.op = "set" -> With(m, o.rule, o.to)
    [] OTHER -> m

\* The rules st[0], st[1], ... the commands os lead through from m are sound.
Walk(st, m, os, ls) ==
  /\ st[0] = m
  /\ \A i \in 1..Len(os) : st[i] = Effect(st[i - 1], os[i])
  /\ \A i \in 0..Len(os) : Sound(st[i], ls)
Safely(m, os, ls) == \E st : Walk(st, m, os, ls)
SafePlan(m, pl, ls) == \E st : Walk(st, m, pl.ops, ls) /\ st[Len(pl.ops)] = pl.sim[Guard].rules

LEMMA EffectIs ==
  ASSUME NEW s \in Dbs, NEW o \in Commands
  PROVE  RunOn(s, o)[Guard].rules = Effect(s[Guard].rules, o)
<1>1. o.table \in Tables /\ Guard \in Tables
  BY DEF Commands, Tables
<1>2. CASE o \in [op : {"bind", "remove"}, table : Tables]
  <2>1. o = [op |-> o.op, table |-> o.table] /\ o.op \in {"bind", "remove"}
    BY <1>2
  <2>2. RunOn(s, o) = WithBound(s, o.table, "ours") \/ RunOn(s, o) = WithBound(s, o.table, "none")
    BY <1>1, <2>1, RunOnIs
  <2>3. RunOn(s, o)[Guard].rules = s[Guard].rules
    <3>1. PICK b \in Bounds : RunOn(s, o) = WithBound(s, o.table, b)
      BY <2>2 DEF Bounds
    <3>2. WithBound(s, o.table, b)[o.table].rules = s[o.table].rules /\ \A u \in Tables \ {o.table} : WithBound(s, o.table, b)[u] = s[u]
      BY <1>1, WithBoundIs
    <3> QED
      BY <1>1, <3>1, <3>2
  <2>4. Effect(s[Guard].rules, o) = s[Guard].rules
    BY <2>1 DEF Effect
  <2> QED
    BY <2>3, <2>4
<1>3. CASE o \in [op : {"del"}, table : Tables, rule : Nat]
  <2>1. o = [op |-> "del", table |-> o.table, rule |-> o.rule] /\ o.rule \in Nat
    BY <1>3
  <2>2. RunOn(s, o) = WithRules(s, o.table, Without(s[o.table].rules, o.rule))
    BY <1>1, <2>1, RunOnIs
  <2>3. Without(s[o.table].rules, o.rule) \in RuleMaps
    BY <1>1, <2>1, TableShape, MapsStay
  <2>4. RunOn(s, o)[Guard].rules = IF o.table = Guard THEN Without(s[Guard].rules, o.rule) ELSE s[Guard].rules
    BY <1>1, <2>2, <2>3, WithRulesIs
  <2> QED
    BY <2>1, <2>4 DEF Effect
<1>4. CASE o \in [op : {"set"}, table : Tables, rule : Nat, to : Rule]
  <2>1. o = [op |-> "set", table |-> o.table, rule |-> o.rule, to |-> o.to] /\ o.rule \in Nat /\ o.to \in Rule
    BY <1>4
  <2>2. RunOn(s, o) = WithRules(s, o.table, With(s[o.table].rules, o.rule, o.to))
    BY <1>1, <2>1, RunOnIs
  <2>3. With(s[o.table].rules, o.rule, o.to) \in RuleMaps
    BY <1>1, <2>1, TableShape, MapsStay
  <2>4. RunOn(s, o)[Guard].rules = IF o.table = Guard THEN With(s[Guard].rules, o.rule, o.to) ELSE s[Guard].rules
    BY <1>1, <2>2, <2>3, WithRulesIs
  <2> QED
    BY <2>1, <2>4 DEF Effect
<1> QED
  BY <1>2, <1>3, <1>4 DEF Commands

\* A plan stays safe if the rules its next command leaves are sound.
LEMMA AddSafely ==
  ASSUME NEW pl \in Plans, NEW o \in Commands, NEW m, NEW ls, SafePlan(m, pl, ls), Sound(RunOn(pl.sim, o)[Guard].rules, ls)
  PROVE  SafePlan(m, Add(pl, o), ls)
<1> DEFINE n == Len(pl.ops)
           q == Add(pl, o)
           new == RunOn(pl.sim, o)[Guard].rules
<1>1. PICK st : Walk(st, m, pl.ops, ls) /\ st[n] = pl.sim[Guard].rules
  BY DEF SafePlan
<1>2. pl.ops \in Seq(Commands) /\ n \in Nat /\ pl.sim \in Dbs
  BY DEF Plans
<1>3. PICK os : os = Append(pl.ops, o)
  OBVIOUS
<1>4. Len(os) = n + 1 /\ os[n + 1] = o /\ \A i \in 1..n : os[i] = pl.ops[i]
  BY <1>2, <1>3
<1>5. q.ops = os /\ q.sim[Guard].rules = new
  BY <1>3 DEF Add
<1>6. new = Effect(st[n], o)
  BY <1>1, <1>2, EffectIs
<1> HIDE DEF n, q, new
<1> DEFINE su == [i \in 0..n + 1 |-> IF i = n + 1 THEN new ELSE st[i]]
<1>7. su[n + 1] = new /\ \A i \in 0..n : su[i] = st[i]
  BY <1>2
<1> HIDE DEF su
<1>8. su[0] = m
  BY <1>1, <1>2, <1>7 DEF Walk
<1>9. ASSUME NEW i \in 1..n + 1 PROVE su[i] = Effect(su[i - 1], os[i])
  <2>1. CASE i = n + 1
    <3>1. i - 1 = n /\ n \in 0..n
      BY <1>2, <2>1
    <3> QED
      BY <1>4, <1>6, <1>7, <2>1, <3>1
  <2>2. CASE i # n + 1
    <3>1. i \in 1..n /\ i \in 0..n /\ i - 1 \in 0..n
      BY <1>2, <2>2
    <3>2. st[i] = Effect(st[i - 1], pl.ops[i])
      BY <1>1, <3>1 DEF Walk, n
    <3> QED
      BY <1>4, <1>7, <3>1, <3>2
  <2> QED
    BY <2>1, <2>2
<1>10. ASSUME NEW i \in 0..n + 1 PROVE Sound(su[i], ls)
  <2>1. CASE i = n + 1
    BY <1>7, <2>1 DEF new
  <2>2. CASE i # n + 1
    <3>1. i \in 0..n
      BY <1>2, <2>2
    <3> QED
      BY <1>1, <1>7, <3>1 DEF Walk, n
  <2> QED
    BY <2>1, <2>2
<1>11. Walk(su, m, os, ls)
  BY <1>4, <1>8, <1>9, <1>10 DEF Walk
<1> QED
  BY <1>4, <1>5, <1>7, <1>11 DEF SafePlan, q

\* A safe plan leaves sound rules.
LEMMA SafeIsSound ==
  ASSUME NEW pl \in Plans, NEW m, NEW ls, SafePlan(m, pl, ls)
  PROVE  Sound(pl.sim[Guard].rules, ls)
<1>1. PICK st : Walk(st, m, pl.ops, ls) /\ st[Len(pl.ops)] = pl.sim[Guard].rules
  BY DEF SafePlan
<1>2. Len(pl.ops) \in 0..Len(pl.ops)
  BY DEF Plans
<1> QED
  BY <1>1, <1>2 DEF Walk

\* Running the first command leaves sound rules and a safe rest.
LEMMA TailSafely ==
  ASSUME NEW m, NEW os \in Seq(Commands), os # <<>>, NEW ls, Safely(m, os, ls)
  PROVE  Sound(Effect(m, Head(os)), ls) /\ Safely(Effect(m, Head(os)), Tail(os), ls)
<1>1. PICK st : Walk(st, m, os, ls)
  BY DEF Safely
<1>2. PICK n : n = Len(os)
  OBVIOUS
<1>3. n \in Nat /\ n >= 1 /\ Head(os) = os[1] /\ Len(Tail(os)) = n - 1 /\ \A i \in 1..n - 1 : Tail(os)[i] = os[i + 1]
  BY <1>2
<1>4. st[1] = Effect(m, Head(os)) /\ Sound(st[1], ls)
  <2>1. 1 \in 1..n /\ 1 \in 0..n /\ 1 - 1 = 0
    BY <1>3
  <2>2. st[1] = Effect(st[1 - 1], os[1]) /\ st[0] = m /\ Sound(st[1], ls)
    BY <1>1, <1>2, <2>1 DEF Walk
  <2> QED
    BY <1>3, <2>1, <2>2
<1> DEFINE su == [i \in 0..n - 1 |-> st[i + 1]]
<1>5. \A i \in 0..n - 1 : su[i] = st[i + 1]
  OBVIOUS
<1> HIDE DEF su
<1>6. su[0] = Effect(m, Head(os))
  BY <1>3, <1>4, <1>5
<1>7. ASSUME NEW i \in 1..n - 1 PROVE su[i] = Effect(su[i - 1], Tail(os)[i])
  <2>1. i + 1 \in 1..n /\ (i + 1) - 1 = i /\ i \in 0..n - 1 /\ i - 1 \in 0..n - 1 /\ (i - 1) + 1 = i
    BY <1>3
  <2>2. st[i + 1] = Effect(st[(i + 1) - 1], os[i + 1])
    BY <1>1, <1>2, <2>1 DEF Walk
  <2> QED
    BY <1>3, <1>5, <2>1, <2>2
<1>8. ASSUME NEW i \in 0..n - 1 PROVE Sound(su[i], ls)
  <2>1. i + 1 \in 0..n
    BY <1>3
  <2> QED
    BY <1>1, <1>2, <1>5, <2>1 DEF Walk
<1>9. Walk(su, Effect(m, Head(os)), Tail(os), ls)
  BY <1>3, <1>6, <1>7, <1>8 DEF Walk
<1> QED
  BY <1>4, <1>9 DEF Safely

\* T holds with a rule every lower one of names, every higher one of rules.
Below(have, names, T) == \A x \in T, y \in names : Above(have, x, y) => y \in T
Upper(rules, T) == \A x \in T, y \in DOMAIN rules : Above(rules, y, x) => y \in T

\* With a FORWARD the DROP is dropped too.
Together(have, names, ls) ==
  \A v \in Vlans : \A L : ls[v] = {L} =>
    \A k \in Places : GuardName(v, k) \in names /\ GuardName(v, 0) \in DOMAIN have => GuardName(v, 0) \in names

LEMMA PlacesAre ==
  ASSUME NEW L \in ShortLists
  PROVE  Len(L) \in Nat /\ 0 \in Places /\ \A k \in 1..Len(L) : k \in Places /\ k # 0
<1>1. Len(L) \in Nat /\ Len(L) < NameStride
  BY DEF ShortLists
<1> QED
  BY <1>1 DEF Places, NameStride

\* A FORWARD stands above its DROP.
LEMMA ForwardIsAbove ==
  ASSUME NEW m, NEW v, NEW L, Upright(m, v, L), NEW k \in Places, k # 0,
         GuardName(v, k) \in DOMAIN m, GuardName(v, 0) \in DOMAIN m
  PROVE  Above(m, GuardName(v, k), GuardName(v, 0))
<1>1. 0 \in Places
  BY DEF Places, NameStride
<1>2. m[GuardName(v, k)] = ListRule(L, v, k) /\ m[GuardName(v, 0)] = ListRule(L, v, 0)
  BY <1>1 DEF Upright
<1>3. ListRule(L, v, k).prio = 9000 /\ ListRule(L, v, 0).prio = 8000
  BY DEF ListRule
<1> QED
  BY <1>2, <1>3 DEF Above

\* Dropping the lowest of a set of rules first leaves sound rules all along.
LEMMA LeftSound ==
  ASSUME NEW have, NEW names, names \in SUBSET DOMAIN have, NEW ls, ls \in [Vlans -> SUBSET ShortLists],
         Sound(have, ls), Together(have, names, ls), NEW T, T \in SUBSET names, Below(have, names, T)
  PROVE  Sound(Left(have, T), ls)
<1>1. PICK m : m = Left(have, T)
  OBVIOUS
<1>2. DOMAIN m = DOMAIN have \ T /\ \A x \in DOMAIN m : m[x] = have[x]
  BY <1>1 DEF Left
<1>3. ASSUME NEW v \in Vlans, ls[v] = {}, NEW k \in Places PROVE GuardName(v, k) \notin DOMAIN m
  BY <1>2, <1>3 DEF Sound
<1>4. ASSUME NEW v \in Vlans, NEW L, ls[v] = {L} PROVE Upright(m, v, L)
  <2>1. Upright(have, v, L) /\ L \in ShortLists
    BY <1>4 DEF Sound
  <2>2. ASSUME NEW k \in Places, GuardName(v, k) \in DOMAIN m
        PROVE  k \in 0..Len(L) /\ m[GuardName(v, k)] = ListRule(L, v, k)
    BY <1>2, <2>1, <2>2 DEF Upright
  <2>3. ASSUME GuardName(v, 0) \in DOMAIN m, NEW k \in 1..Len(L) PROVE GuardName(v, k) \in DOMAIN m
    <3>1. GuardName(v, 0) \in DOMAIN have /\ GuardName(v, 0) \notin T
      BY <1>2, <2>3
    <3>2. GuardName(v, k) \in DOMAIN have
      BY <2>1, <3>1 DEF Upright
    <3>3. k \in Places /\ k # 0
      BY <2>1, PlacesAre
    <3>4. Above(have, GuardName(v, k), GuardName(v, 0))
      BY <2>1, <3>1, <3>2, <3>3, ForwardIsAbove
    <3>5. ASSUME GuardName(v, k) \in T PROVE FALSE
      <4>1. GuardName(v, 0) \in names
        BY <1>4, <3>1, <3>3, <3>5 DEF Together
      <4> QED
        BY <3>1, <3>4, <3>5, <4>1 DEF Below
    <3> QED
      BY <1>2, <3>2, <3>5
  <2> QED
    BY <2>2, <2>3 DEF Upright
<1>5. Sound(m, ls)
  BY <1>3, <1>4 DEF Sound
<1> QED
  BY <1>1, <1>5

\* Writing the highest first does.
LEMMA WrittenSound ==
  ASSUME NEW have, NEW rules, NEW ls, ls \in [Vlans -> SUBSET ShortLists],
         Sound(have, ls), Sound(rules, ls), NEW T, T \in SUBSET DOMAIN rules, Upper(rules, T)
  PROVE  Sound(Written(have, rules, T), ls)
<1>1. PICK m : m = Written(have, rules, T)
  OBVIOUS
<1>2. DOMAIN m = DOMAIN have \cup T /\ \A x \in DOMAIN m : m[x] = IF x \in T THEN rules[x] ELSE have[x]
  BY <1>1 DEF Written
<1>3. ASSUME NEW v \in Vlans, ls[v] = {}, NEW k \in Places PROVE GuardName(v, k) \notin DOMAIN m
  BY <1>2, <1>3 DEF Sound
<1>4. ASSUME NEW v \in Vlans, NEW L, ls[v] = {L} PROVE Upright(m, v, L)
  <2>1. Upright(have, v, L) /\ Upright(rules, v, L) /\ L \in ShortLists
    BY <1>4 DEF Sound
  <2>2. ASSUME NEW k \in Places, GuardName(v, k) \in DOMAIN m
        PROVE  k \in 0..Len(L) /\ m[GuardName(v, k)] = ListRule(L, v, k)
    <3>1. CASE GuardName(v, k) \in T
      BY <1>2, <2>1, <2>2, <3>1 DEF Upright
    <3>2. CASE GuardName(v, k) \notin T
      BY <1>2, <2>1, <2>2, <3>2 DEF Upright
    <3> QED
      BY <3>1, <3>2
  <2>3. ASSUME GuardName(v, 0) \in DOMAIN m, NEW k \in 1..Len(L) PROVE GuardName(v, k) \in DOMAIN m
    <3>1. CASE GuardName(v, 0) \in DOMAIN have
      BY <1>2, <2>1, <3>1 DEF Upright
    <3>2. CASE GuardName(v, 0) \in T
      <4>1. GuardName(v, 0) \in DOMAIN rules /\ GuardName(v, k) \in DOMAIN rules
        BY <2>1, <3>2 DEF Upright
      <4>2. k \in Places /\ k # 0
        BY <2>1, PlacesAre
      <4>3. Above(rules, GuardName(v, k), GuardName(v, 0))
        BY <2>1, <4>1, <4>2, ForwardIsAbove
      <4>4. GuardName(v, k) \in T
        BY <3>2, <4>1, <4>3 DEF Upper
      <4> QED
        BY <1>2, <4>4
    <3> QED
      BY <1>2, <2>3, <3>1, <3>2
  <2> QED
    BY <2>2, <2>3 DEF Upright
<1>5. Sound(m, ls)
  BY <1>3, <1>4 DEF Sound
<1> QED
  BY <1>1, <1>5

\* A rule that has changed is of no VLAN whose list has not.
LEMMA GoneSound ==
  ASSUME NEW have, NEW rules, NEW ls, ls \in [Vlans -> SUBSET ShortLists], Sound(have, ls), Sound(rules, ls),
         NEW r, r \in DOMAIN have, r \in DOMAIN rules, have[r] # rules[r], NEW w, Sound(w, ls)
  PROVE  Sound(Without(w, r), ls)
<1>1. PICK m : m = Without(w, r)
  OBVIOUS
<1>2. DOMAIN m = DOMAIN w \ {r} /\ \A x \in DOMAIN m : m[x] = w[x]
  BY <1>1 DEF Without
<1>3. ASSUME NEW v \in Vlans, ls[v] = {}, NEW k \in Places PROVE GuardName(v, k) \notin DOMAIN m
  BY <1>2, <1>3 DEF Sound
<1>4. ASSUME NEW v \in Vlans, NEW L, ls[v] = {L} PROVE Upright(m, v, L)
  <2>1. Upright(have, v, L) /\ Upright(rules, v, L) /\ Upright(w, v, L) /\ L \in ShortLists
    BY <1>4 DEF Sound
  <2>2. ASSUME NEW k \in Places PROVE GuardName(v, k) # r
    <3>1. SUFFICES ASSUME GuardName(v, k) = r PROVE FALSE
      OBVIOUS
    <3>2. have[r] = ListRule(L, v, k) /\ rules[r] = ListRule(L, v, k)
      BY <2>1, <3>1 DEF Upright
    <3> QED
      BY <3>2
  <2>3. \A k \in Places : GuardName(v, k) \in DOMAIN m <=> GuardName(v, k) \in DOMAIN w
    BY <1>2, <2>2
  <2>4. 0 \in Places /\ \A k \in 1..Len(L) : k \in Places
    BY <2>1, PlacesAre
  <2> QED
    BY <1>2, <2>1, <2>3, <2>4 DEF Upright
<1>5. Sound(m, ls)
  BY <1>3, <1>4 DEF Sound
<1> QED
  BY <1>1, <1>5

\* dropRules is safe.
LEMMA DropSafely ==
  ASSUME NEW pl \in Plans, NEW t \in Tables, NEW names, names \in SUBSET DOMAIN pl.sim[t].rules,
         NEW m, NEW ls, ls \in [Vlans -> SUBSET ShortLists], SafePlan(m, pl, ls),
         t = Guard => Together(pl.sim[t].rules, names, ls)
  PROVE  SafePlan(m, DropRules(pl, t, names), ls)
<1> DEFINE have == pl.sim[t].rules
<1>1. pl.sim \in Dbs /\ have \in RuleMaps /\ Guard \in Tables
  BY TableShape DEF Plans, Tables
<1>2. IsFiniteSet(names) /\ names \subseteq Nat /\ \A x \in names : have[x].prio \in Int
  BY <1>1, MapShape, FS_Subset DEF FiniteNames, Rule
<1>3. PICK g : Drops(g, pl, t, names)
  BY DropsExist
<1>4. Sound(pl.sim[Guard].rules, ls)
  BY SafeIsSound
<1>5. /\ DropRules(pl, t, names) = g[names] /\ g[{}] = pl
      /\ \A T \in SUBSET names : T # {} =>
           g[T] = Add(g[T \ {Highest(have, T)}], [op |-> "del", table |-> t, rule |-> Highest(have, T)])
      /\ \A T \in SUBSET names : g[T] \in Plans /\ g[T].sim = WithRules(pl.sim, t, Left(have, T))
  BY <1>3 DEF Drops
<1>6. names \in SUBSET DOMAIN have /\ (t = Guard => Together(have, names, ls) /\ Sound(have, ls))
  BY <1>4
<1> HIDE DEF have
<1> DEFINE G == {T \in SUBSET names : Below(have, names, T) => SafePlan(m, g[T], ls)}
<1>7. {} \in G
  BY <1>5
<1>8. ASSUME NEW T \in SUBSET names, T # {}, \A x \in T : T \ {x} \in G PROVE T \in G
  <2> SUFFICES ASSUME Below(have, names, T) PROVE SafePlan(m, g[T], ls)
    OBVIOUS
  <2>1. PICK r : r = Highest(have, T)
    OBVIOUS
  <2>2. r \in T /\ r \in Nat /\ \A x \in T \ {r} : Above(have, r, x)
    BY <1>1, <1>2, <1>6, <1>8, <2>1, ExtremesAreIn
  <2>3. PICK U : U = T \ {r}
    OBVIOUS
  <2>4. Below(have, names, U)
    <3>1. SUFFICES ASSUME NEW x \in U, NEW y \in names, Above(have, x, y) PROVE y \in U
      BY DEF Below
    <3>2. x \in T /\ x \in names /\ r \in names /\ Above(have, r, x)
      BY <2>2, <2>3
    <3>3. y \in T
      BY <3>1, <3>2 DEF Below
    <3>4. y # r
      BY <1>2, <3>1, <3>2 DEF Above
    <3> QED
      BY <2>3, <3>3, <3>4
  <2>5. SafePlan(m, g[U], ls) /\ U \in SUBSET names
    BY <1>8, <2>2, <2>3, <2>4
  <2>6. PICK o : o = [op |-> "del", table |-> t, rule |-> r]
    OBVIOUS
  <2>7. o \in Commands
    BY <2>2, <2>6 DEF Commands
  <2>8. g[T] = Add(g[U], o)
    BY <1>5, <1>8, <2>1, <2>3, <2>6
  <2>9. g[T].sim = RunOn(g[U].sim, o)
    BY <2>8 DEF Add
  <2>10. Sound(g[T].sim[Guard].rules, ls)
    <3>1. g[T].sim = WithRules(pl.sim, t, Left(have, T)) /\ Left(have, T) \in RuleMaps
      <4>1. T \in SUBSET DOMAIN have
        BY <1>6
      <4> QED
        BY <1>1, <1>5, <4>1, LeftIs
    <3>2. CASE t = Guard
      <4>1. g[T].sim[Guard].rules = Left(have, T)
        BY <1>1, <3>1, <3>2, WithRulesIs
      <4>2. Sound(Left(have, T), ls)
        BY <1>6, <3>2, LeftSound
      <4> QED
        BY <4>1, <4>2
    <3>3. CASE t # Guard
      <4>1. g[T].sim[Guard] = pl.sim[Guard]
        BY <1>1, <3>1, <3>3, WithRulesIs
      <4> QED
        BY <1>4, <4>1
    <3> QED
      BY <3>2, <3>3
  <2> QED
    BY <1>5, <2>5, <2>7, <2>8, <2>9, <2>10, AddSafely
<1>9. Hereditary(G, names)
  BY <1>8 DEF Hereditary
<1> HIDE DEF G
<1>10. names \in G
  BY <1>2, <1>7, <1>9, SubsetInduction
<1>11. Below(have, names, names)
  BY DEF Below
<1> QED
  BY <1>5, <1>10, <1>11 DEF G

\* Writing one rule is safe if it leaves sound rules, and a changed one does
\* so while it is gone.
LEMMA WriteRuleSafely ==
  ASSUME NEW p \in Plans, NEW t \in Tables, NEW have \in RuleMaps, NEW r \in Nat, NEW to \in Rule,
         NEW m, NEW ls, SafePlan(m, p, ls),
         Sound(WriteRule(p, t, have, r, to).sim[Guard].rules, ls),
         t = Guard /\ r \in DOMAIN have /\ have[r] # to => Sound(Without(p.sim[t].rules, r), ls)
  PROVE  SafePlan(m, WriteRule(p, t, have, r, to), ls)
<1>1. p.sim \in Dbs /\ p.sim[t].rules \in RuleMaps /\ Guard \in Tables
  BY TableShape DEF Plans, Tables
<1>2. PICK o : o = [op |-> "set", table |-> t, rule |-> r, to |-> to]
  OBVIOUS
<1>3. PICK d : d = [op |-> "del", table |-> t, rule |-> r]
  OBVIOUS
<1>4. o \in Commands /\ d \in Commands
  BY <1>2, <1>3 DEF Commands
<1>5. CASE r \in DOMAIN have /\ have[r] = to
  BY <1>5 DEF WriteRule
<1>6. CASE r \in DOMAIN have /\ have[r] # to
  <2>1. PICK gone : gone = Add(p, d)
    OBVIOUS
  <2>2. WriteRule(p, t, have, r, to) = Add(gone, o)
    BY <1>2, <1>3, <1>6, <2>1 DEF WriteRule
  <2>3. gone \in Plans /\ gone.sim = WithRules(p.sim, t, Without(p.sim[t].rules, r))
    BY <1>3, <2>1, AddDel
  <2>4. Sound(gone.sim[Guard].rules, ls)
    <3>1. Without(p.sim[t].rules, r) \in RuleMaps
      BY <1>1, MapsStay
    <3>2. CASE t = Guard
      <4>1. gone.sim[Guard].rules = Without(p.sim[t].rules, r)
        BY <1>1, <2>3, <3>1, <3>2, WithRulesIs
      <4> QED
        BY <1>6, <3>2, <4>1
    <3>3. CASE t # Guard
      <4>1. PICK rest \in RuleMaps : rest = Without(p.sim[t].rules, r)
        BY <3>1
      <4>2. PICK s \in Dbs : s = p.sim
        BY <1>1
      <4>3. WithRules(s, t, rest)[Guard] = s[Guard]
        BY <1>1, <3>3, OtherRules
      <4>4. gone.sim[Guard] = p.sim[Guard]
        BY <2>3, <4>1, <4>2, <4>3
      <4>5. Sound(p.sim[Guard].rules, ls)
        BY SafeIsSound
      <4> QED
        BY <4>4, <4>5
    <3> QED
      BY <3>2, <3>3
  <2>5. gone.sim = RunOn(p.sim, d)
    BY <2>1 DEF Add
  <2>6. SafePlan(m, gone, ls)
    BY <1>4, <2>1, <2>4, <2>5, AddSafely
  <2>7. WriteRule(p, t, have, r, to).sim = RunOn(gone.sim, o)
    BY <2>2 DEF Add
  <2> QED
    BY <1>4, <2>2, <2>3, <2>6, <2>7, AddSafely
<1>7. CASE r \notin DOMAIN have
  <2>1. WriteRule(p, t, have, r, to) = Add(p, o)
    BY <1>2, <1>7 DEF WriteRule
  <2>2. WriteRule(p, t, have, r, to).sim = RunOn(p.sim, o)
    BY <2>1 DEF Add
  <2> QED
    BY <1>4, <2>1, <2>2, AddSafely
<1> QED
  BY <1>5, <1>6, <1>7

LEMMA WriteSafely ==
  ASSUME NEW pl \in Plans, NEW t \in Tables, NEW rules \in RuleMaps,
         NEW m, NEW ls, ls \in [Vlans -> SUBSET ShortLists], SafePlan(m, pl, ls),
         t = Guard => Sound(rules, ls)
  PROVE  SafePlan(m, WriteRules(pl, t, rules), ls)
<1> DEFINE have == pl.sim[t].rules
           names == DOMAIN rules
<1>1. pl.sim \in Dbs /\ have \in RuleMaps /\ Guard \in Tables
  BY TableShape DEF Plans, Tables
<1>2. IsFiniteSet(names) /\ names \subseteq Nat /\ \A x \in names : rules[x] \in Rule /\ rules[x].prio \in Int
  BY MapShape DEF FiniteNames, Rule
<1>3. PICK g : Writes(g, pl, t, rules)
  BY WritesExist
<1>4. Sound(pl.sim[Guard].rules, ls)
  BY SafeIsSound
<1>5. /\ WriteRules(pl, t, rules) = g[names] /\ g[{}] = pl
      /\ \A T \in SUBSET names : T # {} =>
           g[T] = WriteRule(g[T \ {Lowest(rules, T)}], t, have, Lowest(rules, T), rules[Lowest(rules, T)])
      /\ \A T \in SUBSET names : g[T] \in Plans /\ g[T].sim = WithRules(pl.sim, t, Written(have, rules, T))
  BY <1>3 DEF Writes
<1>6. t = Guard => Sound(have, ls) /\ Sound(rules, ls)
  BY <1>4
<1> HIDE DEF have
<1>7. ASSUME NEW T \in SUBSET names
      PROVE  /\ Written(have, rules, T) \in RuleMaps
             /\ t = Guard => g[T].sim[Guard].rules = Written(have, rules, T)
             /\ t # Guard => g[T].sim[Guard] = pl.sim[Guard]
             /\ Upper(rules, T) => Sound(g[T].sim[Guard].rules, ls)
  <2>1. Written(have, rules, T) \in RuleMaps /\ g[T].sim = WithRules(pl.sim, t, Written(have, rules, T))
    BY <1>1, <1>5, WrittenIs
  <2>2. /\ t = Guard => g[T].sim[Guard].rules = Written(have, rules, T)
        /\ t # Guard => g[T].sim[Guard] = pl.sim[Guard]
    <3>1. PICK w \in RuleMaps : w = Written(have, rules, T)
      BY <2>1
    <3>2. PICK s \in Dbs : s = pl.sim
      BY DEF Plans
    <3>3. WithRules(s, t, w)[t].rules = w
      BY WithRulesIs
    <3>4. ASSUME t # Guard PROVE WithRules(s, t, w)[Guard] = s[Guard]
      BY <1>1, <3>4, OtherRules
    <3> QED
      BY <2>1, <3>1, <3>2, <3>3, <3>4
  <2>3. ASSUME Upper(rules, T), t = Guard PROVE Sound(Written(have, rules, T), ls)
    BY <1>6, <2>3, WrittenSound
  <2> QED
    BY <1>4, <2>1, <2>2, <2>3
<1> DEFINE G == {T \in SUBSET names : Upper(rules, T) => SafePlan(m, g[T], ls)}
<1>8. {} \in G
  BY <1>5
<1>9. ASSUME NEW T \in SUBSET names, T # {}, \A x \in T : T \ {x} \in G PROVE T \in G
  <2> SUFFICES ASSUME Upper(rules, T) PROVE SafePlan(m, g[T], ls)
    OBVIOUS
  <2>1. PICK r : r = Lowest(rules, T)
    OBVIOUS
  <2>2. r \in T /\ r \in Nat /\ rules[r] \in Rule /\ \A x \in T \ {r} : Above(rules, x, r)
    BY <1>2, <1>9, <2>1, ExtremesAreIn
  <2>3. PICK U : U = T \ {r}
    OBVIOUS
  <2>4. Upper(rules, U)
    <3>1. SUFFICES ASSUME NEW x \in U, NEW y \in names, Above(rules, y, x) PROVE y \in U
      BY DEF Upper
    <3>2. x \in T /\ x \in names /\ r \in names /\ Above(rules, x, r)
      BY <2>2, <2>3
    <3>3. y \in T
      BY <3>1, <3>2 DEF Upper
    <3>4. y # r
      BY <1>2, <3>1, <3>2 DEF Above
    <3> QED
      BY <2>3, <3>3, <3>4
  <2>5. SafePlan(m, g[U], ls) /\ U \in SUBSET names
    BY <1>9, <2>2, <2>3, <2>4
  <2>6. PICK p : p = g[U]
    OBVIOUS
  <2>7. g[T] = WriteRule(p, t, have, r, rules[r])
    BY <1>5, <1>9, <2>1, <2>3, <2>6
  <2>8. p \in Plans /\ Sound(p.sim[Guard].rules, ls) /\ Sound(g[T].sim[Guard].rules, ls)
    BY <1>5, <1>7, <2>4, <2>5, <2>6
  <2>9. ASSUME t = Guard, r \in DOMAIN have, have[r] # rules[r] PROVE Sound(Without(p.sim[t].rules, r), ls)
    <3>1. r \in DOMAIN rules
      BY <2>2
    <3>2. PICK w : w = p.sim[t].rules
      OBVIOUS
    <3>3. Sound(w, ls)
      BY <2>8, <2>9, <3>2
    <3>4. Sound(Without(w, r), ls)
      BY <1>6, <2>9, <3>1, <3>3, GoneSound
    <3> QED
      BY <3>2, <3>4
  <2>10. PICK to : to = rules[r]
    OBVIOUS
  <2>11. SafePlan(m, WriteRule(p, t, have, r, to), ls)
    BY <1>1, <2>2, <2>5, <2>6, <2>7, <2>8, <2>9, <2>10, WriteRuleSafely
  <2> QED
    BY <2>7, <2>10, <2>11
<1>10. Hereditary(G, names)
  BY <1>9 DEF Hereditary
<1> HIDE DEF G
<1>11. names \in G
  BY <1>2, <1>8, <1>10, SubsetInduction
<1>12. Upper(rules, names)
  BY DEF Upper
<1> QED
  BY <1>5, <1>11, <1>12 DEF G

\* Binding and removing leave the rules.
LEMMA BindSafely ==
  ASSUME NEW pl \in Plans, NEW t \in Tables, NEW m, NEW ls, SafePlan(m, pl, ls)
  PROVE  /\ SafePlan(m, Add(pl, [op |-> "bind", table |-> t]), ls)
         /\ SafePlan(m, Add(pl, [op |-> "remove", table |-> t]), ls)
<1>1. ASSUME NEW o \in [op : {"bind", "remove"}, table : Tables] PROVE SafePlan(m, Add(pl, o), ls)
  <2>1. o \in Commands /\ pl.sim \in Dbs
    BY DEF Commands, Plans
  <2>2. Effect(pl.sim[Guard].rules, o) = pl.sim[Guard].rules
    BY DEF Effect
  <2>3. Sound(RunOn(pl.sim, o)[Guard].rules, ls)
    BY <2>1, <2>2, EffectIs, SafeIsSound
  <2> QED
    BY <2>1, <2>3, AddSafely
<1> QED
  BY <1>1

\* A table is brought in line safely.
LEMMA SyncSafely ==
  ASSUME NEW pl \in Plans, NEW t \in Tables, NEW rules \in RuleMaps,
         NEW m, NEW ls, ls \in [Vlans -> SUBSET ShortLists], SafePlan(m, pl, ls),
         t = Guard => Sound(rules, ls)
  PROVE  SafePlan(m, SyncTable(pl, t, rules), ls)
<1> DEFINE cur == pl.sim[t].bound
           goes == DOMAIN rules = {} \/ cur = "foreign"
<1>1. PICK cleared : cleared = IF goes THEN DropRules(pl, t, DOMAIN pl.sim[t].rules) ELSE pl
  OBVIOUS
<1>2. PICK removed : removed = IF goes /\ cur # "none" THEN Add(cleared, [op |-> "remove", table |-> t]) ELSE cleared
  OBVIOUS
<1>3. PICK bound : bound = IF removed.sim[t].bound = "ours" THEN removed ELSE Add(removed, [op |-> "bind", table |-> t])
  OBVIOUS
<1>4. SyncTable(pl, t, rules) =
        IF DOMAIN rules = {} THEN removed
        ELSE WriteRules(DropRules(bound, t, DOMAIN bound.sim[t].rules \ DOMAIN rules), t, rules)
  BY <1>1, <1>2, <1>3 DEF SyncTable
<1>5. cleared \in Plans /\ SafePlan(m, cleared, ls)
  <2>1. CASE goes
    <3>1. PICK names : names = DOMAIN pl.sim[t].rules
      OBVIOUS
    <3>2. Together(pl.sim[t].rules, names, ls)
      BY <3>1 DEF Together
    <3>3. cleared = DropRules(pl, t, names) /\ names \in SUBSET DOMAIN pl.sim[t].rules
      BY <1>1, <2>1, <3>1
    <3> QED
      BY <3>2, <3>3, DropSafely, DropRulesIs
  <2>2. CASE ~goes
    BY <1>1, <2>2
  <2> QED
    BY <2>1, <2>2
<1> HIDE DEF goes, cur
<1>6. removed \in Plans /\ SafePlan(m, removed, ls)
  BY <1>2, <1>5, BindSafely, BindOnly DEF Only
<1>7. bound \in Plans /\ SafePlan(m, bound, ls)
  BY <1>3, <1>6, BindSafely, BindOnly DEF Only
<1>8. CASE DOMAIN rules = {}
  BY <1>4, <1>6, <1>8
<1>9. CASE DOMAIN rules # {}
  <2>1. PICK names : names = DOMAIN bound.sim[t].rules \ DOMAIN rules
    OBVIOUS
  <2>2. PICK kept : kept = DropRules(bound, t, names)
    OBVIOUS
  <2>3. ASSUME t = Guard PROVE Together(bound.sim[t].rules, names, ls)
    <3>1. PICK have : have = bound.sim[t].rules
      OBVIOUS
    <3>2. Sound(have, ls) /\ Sound(rules, ls)
      BY <1>7, <2>3, <3>1, SafeIsSound
    <3>3. ASSUME NEW v \in Vlans, NEW L, ls[v] = {L}, NEW k \in Places, GuardName(v, k) \in names,
                 GuardName(v, 0) \in DOMAIN have
          PROVE  GuardName(v, 0) \in names
      <4>1. Upright(have, v, L) /\ Upright(rules, v, L) /\ L \in ShortLists
        BY <3>2, <3>3 DEF Sound
      <4>2. k \in 0..Len(L) /\ GuardName(v, k) \in DOMAIN have /\ GuardName(v, k) \notin DOMAIN rules
        BY <2>1, <3>1, <3>3, <4>1 DEF Upright
      <4>3. k = 0 \/ k \in 1..Len(L)
        BY <4>1, <4>2, PlacesAre
      <4>4. GuardName(v, 0) \notin DOMAIN rules
        BY <4>1, <4>2, <4>3 DEF Upright
      <4> QED
        BY <2>1, <3>1, <3>3, <4>4
    <3> QED
      BY <3>1, <3>3 DEF Together
  <2>4. kept \in Plans /\ SafePlan(m, kept, ls)
    <3>1. names \in SUBSET DOMAIN bound.sim[t].rules
      BY <2>1
    <3> QED
      BY <1>7, <2>2, <2>3, <3>1, DropSafely, DropRulesIs
  <2> QED
    BY <1>4, <1>9, <2>1, <2>2, <2>4, WriteSafely
<1> QED
  BY <1>8, <1>9

\* The whole batch is safe.
LEMMA BatchSafely ==
  ASSUME NEW s \in Dbs, NEW w, Wants(w), NEW ls, ls \in [Vlans -> SUBSET ShortLists],
         Sound(s[Guard].rules, ls), Guard \in DOMAIN w => Sound(w[Guard], ls)
  PROVE  Safely(s[Guard].rules, AclBatch(s, w).ops, ls)
<1>1. PICK m : m = s[Guard].rules
  OBVIOUS
<1>2. ASSUME NEW pl \in Plans, NEW t \in Tables, SafePlan(m, pl, ls)
      PROVE  SyncWanted(pl, t, w) \in Plans /\ SafePlan(m, SyncWanted(pl, t, w), ls)
  <2>1. SyncWanted(pl, t, w) \in Plans
    BY SyncWantedIs DEF Only
  <2>2. CASE t \in DOMAIN w
    <3>1. w[t] \in RuleMaps /\ (t = Guard => Sound(w[t], ls))
      BY <2>2 DEF Wants
    <3>2. SafePlan(m, SyncTable(pl, t, w[t]), ls)
      BY <1>2, <3>1, SyncSafely
    <3> QED
      BY <2>1, <2>2, <3>2 DEF SyncWanted
  <2>3. CASE t \notin DOMAIN w
    BY <1>2, <2>1, <2>3 DEF SyncWanted
  <2> QED
    BY <2>2, <2>3
<1>3. PICK p0 : p0 = [ops |-> <<>>, sim |-> s]
  OBVIOUS
<1>4. p0 \in Plans
  BY <1>3, <<>> \in Seq(Commands) DEF Plans
<1>5. SafePlan(m, p0, ls)
  <2> DEFINE st == [i \in {0} |-> m]
  <2>1. p0.ops = <<>> /\ Len(p0.ops) = 0 /\ p0.sim[Guard].rules = m /\ st[0] = m
    BY <1>1, <1>3
  <2> HIDE DEF st
  <2>2. Walk(st, m, p0.ops, ls)
    BY <1>1, <2>1 DEF Walk
  <2> QED
    BY <2>1, <2>2 DEF SafePlan
<1>6. Guard \in Tables /\ IpAcl \in Tables /\ MacAcl \in Tables
  BY DEF Tables
<1>7. PICK p1 : p1 = SyncWanted(p0, Guard, w)
  OBVIOUS
<1>8. PICK p2 : p2 = SyncWanted(p1, IpAcl, w)
  OBVIOUS
<1>9. PICK p3 : p3 = SyncWanted(p2, MacAcl, w)
  OBVIOUS
<1>10. p1 \in Plans /\ SafePlan(m, p1, ls)
  BY <1>2, <1>4, <1>5, <1>6, <1>7
<1>11. p2 \in Plans /\ SafePlan(m, p2, ls)
  BY <1>2, <1>6, <1>8, <1>10
<1>12. p3 \in Plans /\ SafePlan(m, p3, ls)
  BY <1>2, <1>6, <1>9, <1>11
<1>13. AclBatch(s, w) = p3
  BY <1>3, <1>7, <1>8, <1>9 DEF AclBatch
<1> QED
  BY <1>1, <1>12, <1>13 DEF SafePlan, Safely

\* The rules a push asks for are sound for the lists with its own among them.
LEMMA GuardTableSound ==
  ASSUME NEW gs, gs \in Seq(Trusted), Len(gs) < NameStride, NEW ls, ls \in [Vlans -> SUBSET ShortLists],
         \A v \in Vlans : Servers(gs, v) # <<>> => Servers(gs, v) \in ls[v]
  PROVE  Sound(GuardTable(gs), ls)
<1>1. PICK m : m = GuardTable(gs)
  OBVIOUS
<1>2. IsGuardTable(m, gs)
  BY <1>1, GuardRulesAre
<1>3. ASSUME NEW v \in Vlans, NEW k \in Places, GuardName(v, k) \in DOMAIN m
      PROVE  Servers(gs, v) \in ls[v] /\ k \in 0..Len(Servers(gs, v)) /\ m[GuardName(v, k)] = GuardRule(gs, v, k)
  <2>1. PICK e \in GuardKeys(gs) : GuardName(v, k) = GuardName(e[1], e[2])
    BY <1>2, <1>3 DEF IsGuardTable
  <2>2. e[1] \in Vlans /\ e[2] \in Nat /\ e[1] \in Guarded(gs) /\ e[2] \in 0..Len(Servers(gs, e[1]))
    BY DEF GuardKeys
  <2>3. PICK u : u = e[1]
    OBVIOUS
  <2>4. PICK j : j = e[2]
    OBVIOUS
  <2>5. Servers(gs, u) # <<>> /\ Servers(gs, u) \in ls[u] /\ Servers(gs, u) \in ShortLists
    BY <2>2, <2>3 DEF Guarded
  <2>6. j < NameStride
    <3>1. PICK L : L = Servers(gs, u)
      OBVIOUS
    <3>2. j \in Nat /\ j \in 0..Len(L) /\ L \in ShortLists
      BY <2>2, <2>3, <2>4, <2>5, <3>1
    <3> QED
      BY <3>2 DEF ShortLists, NameStride
  <2>7. u \in Nat /\ v \in Nat /\ k \in Nat /\ k < NameStride /\ j \in Nat
    <3>1. \A x \in Vlans : x \in Nat
      BY AddressAssumption
    <3>2. u \in Vlans /\ j \in Nat
      BY <2>2, <2>3, <2>4
    <3>3. k \in Nat /\ k < NameStride
      BY DEF Places, NameStride
    <3> QED
      BY <3>1, <3>2, <3>3
  <2>8. u = v /\ j = k
    <3>1. GuardName(v, k) = GuardName(u, j)
      BY <2>1, <2>3, <2>4
    <3>2. GuardName(v, k) \div NameStride = v /\ GuardName(v, k) % NameStride = k
      BY <2>7, NameDecodes
    <3>3. GuardName(u, j) \div NameStride = u /\ GuardName(u, j) % NameStride = j
      BY <2>6, <2>7, NameDecodes
    <3> QED
      BY <3>1, <3>2, <3>3
  <2>9. m[GuardName(e[1], e[2])] = GuardRule(gs, e[1], e[2])
    BY <1>2, <2>1 DEF IsGuardTable
  <2> QED
    BY <2>2, <2>3, <2>4, <2>5, <2>8, <2>9
<1>4. ASSUME NEW v \in Vlans, NEW L, ls[v] = {L} PROVE Upright(m, v, L)
  <2>1. \A k \in Places : GuardName(v, k) \in DOMAIN m => Servers(gs, v) = L
    BY <1>3, <1>4
  <2>2. ASSUME NEW k \in Places, GuardName(v, k) \in DOMAIN m
        PROVE  k \in 0..Len(L) /\ m[GuardName(v, k)] = ListRule(L, v, k)
    BY <1>3, <2>1, <2>2 DEF GuardRule, ListRule
  <2>3. ASSUME GuardName(v, 0) \in DOMAIN m, NEW k \in 1..Len(L) PROVE GuardName(v, k) \in DOMAIN m
    <3>1. L \in ShortLists /\ 0 \in Places
      BY <1>4 DEF Places, NameStride
    <3>2. PICK h : h = <<v, k>>
      OBVIOUS
    <3>3. Servers(gs, v) = L /\ Servers(gs, v) # <<>> /\ k \in Nat /\ k \in 0..Len(L)
      <4>1. Servers(gs, v) = L
        BY <2>1, <2>3, <3>1
      <4>2. L # <<>>
        BY <2>3, <3>1 DEF ShortLists
      <4>3. Len(L) \in Nat
        BY <3>1, PlacesAre
      <4> QED
        BY <4>1, <4>2, <4>3
    <3>4. h \in GuardKeys(gs) /\ h[1] = v /\ h[2] = k
      BY <3>2, <3>3 DEF GuardKeys, Guarded
    <3>5. GuardName(h[1], h[2]) \in DOMAIN m
      BY <1>2, <3>4 DEF IsGuardTable
    <3> QED
      BY <3>4, <3>5
  <2> QED
    BY <2>2, <2>3 DEF Upright
<1>5. Sound(m, ls)
  BY <1>3, <1>4 DEF Sound
<1> QED
  BY <1>1, <1>5

\* The invariant behind GuardOrder: the lists are those pushed, the rules on
\* the switch are sound for them, and a batch under way keeps them so.
OrderInv ==
  /\ lists \in [Vlans -> SUBSET ShortLists] /\ \A v \in Vlans : IsFiniteSet(lists[v])
  /\ push # None /\ push.snooping = TRUE =>
       \A v \in Vlans : Servers(push.guards, v) # <<>> => Servers(push.guards, v) \in lists[v]
  /\ Sound(db[Guard].rules, lists)
  /\ view # None /\ ~running => view[Guard].rules = db[Guard].rules
  /\ running => Safely(db[Guard].rules, ops, lists)

LEMMA InitOrders == Init => OrderInv
<1> SUFFICES ASSUME Init PROVE OrderInv
  OBVIOUS
<1>1. db[Guard].rules = <<>> /\ DOMAIN <<>> = {}
  BY NoRules DEF Init, Tables
<1>2. \A v \in Vlans : lists[v] = {}
  BY DEF Init
<1>3. Sound(db[Guard].rules, lists)
  BY <1>1, <1>2 DEF Sound
<1>4. lists \in [Vlans -> SUBSET ShortLists] /\ \A v \in Vlans : IsFiniteSet(lists[v])
  BY FS_EmptySet DEF Init
<1> QED
  BY <1>3, <1>4 DEF OrderInv, Init

\* A push adds its own lists only.
LEMMA PushOrders ==
  ASSUME IInv, OrderInv, NEW p \in Pushes, Push(p)
  PROVE  OrderInv'
<1>1. p.guards \in Seq(Trusted) /\ Len(p.guards) < NameStride
  BY PushAssumption
<1> DEFINE new(v) == IF p.snooping = TRUE THEN {Servers(p.guards, v)} \ {<<>>} ELSE {}
<1>2. lists' = [v \in Vlans |-> lists[v] \cup new(v)]
  BY DEF Push
<1>3. \A v \in Vlans : lists'[v] = lists[v] \cup new(v)
  BY <1>2
<1>4. ASSUME NEW v \in Vlans PROVE new(v) \in SUBSET ShortLists /\ IsFiniteSet(new(v))
  <2>1. Servers(p.guards, v) \in Seq(Hosts) /\ Len(Servers(p.guards, v)) <= Len(p.guards)
    BY <1>1, ServersAre
  <2>2. Servers(p.guards, v) \in ShortLists
    <3>1. Len(Servers(p.guards, v)) \in Nat /\ Len(p.guards) \in Nat
      BY <1>1, <2>1
    <3> QED
      BY <1>1, <2>1, <3>1 DEF ShortLists, NameStride
  <2>3. new(v) \in SUBSET {Servers(p.guards, v)} /\ IsFiniteSet({Servers(p.guards, v)})
    BY FS_Singleton
  <2> QED
    BY <2>2, <2>3, FS_Subset
<1>5. \A v \in Vlans : p.snooping = TRUE /\ Servers(p.guards, v) # <<>> => Servers(p.guards, v) \in new(v)
  OBVIOUS
<1> HIDE DEF new
<1>6. lists' \in [Vlans -> SUBSET ShortLists] /\ \A v \in Vlans : IsFiniteSet(lists'[v])
  <2>1. lists \in [Vlans -> SUBSET ShortLists] /\ \A v \in Vlans : IsFiniteSet(lists[v])
    BY DEF OrderInv
  <2>2. ASSUME NEW v \in Vlans PROVE IsFiniteSet(lists'[v])
    <3>1. IsFiniteSet(lists[v] \cup new(v))
      BY <1>4, <2>1, FS_Union
    <3> QED
      BY <1>3, <3>1
  <2> QED
    BY <1>2, <1>4, <2>1, <2>2
<1>7. Sound(db[Guard].rules, lists')
  <2>1. Sound(db[Guard].rules, lists) /\ 0 \in Places
    BY DEF OrderInv, Places, NameStride
  <2>2. ASSUME NEW v \in Vlans, lists'[v] = {} PROVE lists[v] = {}
    BY <1>3, <2>2
  <2>3. ASSUME NEW v \in Vlans, NEW L, lists'[v] = {L} PROVE Upright(db[Guard].rules, v, L)
    <3>1. lists[v] = {L} \/ lists[v] = {}
      BY <1>3, <2>3
    <3>2. CASE lists[v] = {L}
      BY <2>1, <3>2 DEF Sound
    <3>3. CASE lists[v] = {}
      BY <2>1, <3>3 DEF Sound, Upright
    <3> QED
      BY <3>1, <3>2, <3>3
  <2> QED
    BY <2>1, <2>2, <2>3 DEF Sound
<1>8. push' = p /\ db' = db /\ view' = None /\ running' = FALSE
  BY DEF Push, IInv
<1>9. \A v \in Vlans : p.snooping = TRUE /\ Servers(p.guards, v) # <<>> => Servers(p.guards, v) \in lists'[v]
  BY <1>3, <1>5
<1> QED
  BY <1>6, <1>7, <1>8, <1>9 DEF OrderInv

LEMMA NextOrders == IInv /\ IInv' /\ OrderInv /\ [Next]_vars => OrderInv'
<1> SUFFICES ASSUME IInv, IInv', OrderInv, [Next]_vars PROVE OrderInv'
  OBVIOUS
<1>1. ASSUME NEW p \in Pushes, Push(p) PROVE OrderInv'
  BY <1>1, PushOrders
<1>2. CASE Collect
  BY <1>2 DEF OrderInv, Collect
<1>3. CASE CutOff \/ UNCHANGED vars
  BY <1>3 DEF OrderInv, CutOff, vars
<1>4. CASE Apply
  <2>1. view \in Dbs /\ view # None /\ push \in Pushes /\ push # None /\ ~running
    BY <1>4 DEF IInv, Apply
  <2>2. PICK w : w = AclSet(push)
    OBVIOUS
  <2>3. Meant(w, push, from, path)
    BY <2>1, <2>2, AclSetIsMeant
  <2>4. ops' = AclBatch(view, w).ops
    BY <1>4, <2>2 DEF Apply
  <2>5. Guard \in DOMAIN w => Sound(w[Guard], lists)
    <3>1. Sound(<<>>, lists)
      BY NoRules DEF Sound, Upright
    <3>2. ASSUME push.snooping = TRUE PROVE Sound(GuardTable(push.guards), lists)
      <4>1. push.guards \in Seq(Trusted) /\ Len(push.guards) < NameStride
        BY <2>1, PushAssumption
      <4> QED
        BY <2>1, <3>2, <4>1, GuardTableSound DEF OrderInv
    <3> QED
      BY <2>3, <3>1, <3>2 DEF Meant
  <2>6. Sound(view[Guard].rules, lists) /\ view[Guard].rules = db[Guard].rules
    BY <2>1 DEF OrderInv
  <2>7. Safely(view[Guard].rules, AclBatch(view, w).ops, lists)
    <3>1. Wants(w) /\ lists \in [Vlans -> SUBSET ShortLists]
      BY <2>3 DEF Meant, OrderInv
    <3> QED
      BY <2>1, <2>5, <2>6, <3>1, BatchSafely
  <2>8. Safely(db[Guard].rules, ops', lists)
    BY <2>4, <2>6, <2>7
  <2>9. UNCHANGED <<db, view, push, lists>> /\ running' = TRUE
    BY <1>4 DEF Apply
  <2> QED
    BY <2>8, <2>9 DEF OrderInv
<1>5. CASE RunOp
  <2>1. running /\ ops \in Seq(Commands) /\ ops # <<>> /\ db \in Dbs /\ Safely(db[Guard].rules, ops, lists)
    BY <1>5 DEF IInv, OrderInv, RunOp
  <2>2. Head(ops) \in Commands
    BY <2>1
  <2>3. db'[Guard].rules = Effect(db[Guard].rules, Head(ops)) /\ ops' = Tail(ops)
    BY <1>5, <2>1, <2>2, EffectIs DEF RunOp
  <2>4. Sound(db'[Guard].rules, lists) /\ Safely(db'[Guard].rules, ops', lists)
    BY <2>1, <2>3, TailSafely
  <2>5. UNCHANGED <<view, push, running, lists>>
    BY <1>5 DEF RunOp
  <2> QED
    BY <2>1, <2>4, <2>5 DEF OrderInv
<1>6. CASE Commit
  BY <1>6 DEF OrderInv, Commit
<1>7. CASE ConnectionLost
  BY <1>7 DEF OrderInv, ConnectionLost
<1>8. ASSUME NEW t \in Tables, NEW b \in {"stale", "foreign"}, Rebound(t, b) PROVE OrderInv'
  <2>1. db \in Dbs /\ db' = [db EXCEPT ![t].bound = b] /\ Guard \in Tables
    BY <1>8 DEF IInv, Rebound, Tables
  <2>2. db'[Guard].rules = db[Guard].rules
    BY <2>1 DEF Dbs, Table
  <2>3. UNCHANGED <<view, push, running, lists>> /\ ~running
    BY <1>8 DEF Rebound
  <2> QED
    BY <2>2, <2>3 DEF OrderInv
<1> QED
  BY <1>1, <1>2, <1>3, <1>4, <1>5, <1>6, <1>7, <1>8 DEF Next

LEMMA OrderedIsForwarded == OrderInv => GuardOrder
<1> SUFFICES ASSUME OrderInv, NEW v \in Vlans, Cardinality(lists[v]) = 1, GuardName(v, 0) \in DOMAIN db[Guard].rules,
                    NEW s \in lists[v], NEW h \in ToSet(s)
             PROVE  Forwarded(v, h)
  BY DEF GuardOrder
<1>1. PICK L : lists[v] = {L}
  BY FS_Singleton DEF OrderInv
<1>2. s = L /\ L \in ShortLists
  BY <1>1 DEF OrderInv
<1>3. Upright(db[Guard].rules, v, L)
  BY <1>1 DEF OrderInv, Sound
<1>4. PICK k \in 1..Len(L) : h = L[k]
  BY <1>2 DEF ToSet, ShortLists
<1>5. k \in Places /\ k # 0
  BY <1>2, PlacesAre
<1>6. PICK r : r = GuardName(v, k)
  OBVIOUS
<1>7. r \in DOMAIN db[Guard].rules /\ db[Guard].rules[r] = ListRule(L, v, k)
  BY <1>3, <1>5, <1>6 DEF Upright
<1>8. ListRule(L, v, k).permit = TRUE /\ ListRule(L, v, k).fields = [vlan |-> SonicVlan(v), servers |-> {h}]
  BY <1>4, <1>5 DEF ListRule
<1>9. Matches(Guard, [vlan |-> SonicVlan(v), servers |-> {h}], [vlan |-> SonicVlan(v), server |-> h])
  <2>1. PICK f : f = [vlan |-> SonicVlan(v), servers |-> {h}]
    OBVIOUS
  <2>2. PICK p : p = [vlan |-> SonicVlan(v), server |-> h]
    OBVIOUS
  <2>3. p.vlan = f.vlan /\ p.server \in f.servers
    BY <2>1, <2>2
  <2>4. Matches(Guard, f, p)
    BY <2>3 DEF Matches, Guard, IpAcl, MacAcl
  <2> QED
    BY <2>1, <2>2, <2>4
<1> QED
  BY <1>7, <1>8, <1>9 DEF Forwarded

\* applyACL's order of deletes and writes suffices: of a VLAN whose server list
\* has not changed the DROP is on the switch only with every FORWARD, after
\* every single command, for any number of VLANs and servers and whatever
\* batches were cut off before.
THEOREM ForwardsComeFirst == Spec => []GuardOrder
<1>1. IInv /\ OrderInv /\ [Next]_vars => (IInv /\ OrderInv)'
  BY NextKeepsInv, NextOrders
<1>2. Spec => [](IInv /\ OrderInv)
  BY <1>1, InitIsInv, InitOrders, PTL DEF Spec
<1> QED
  BY <1>2, OrderedIsForwarded, PTL

=============================================================================

-------------------------- MODULE InductionLemmas --------------------------
(***************************************************************************)
(* Induction over the naturals in set form: a set of naturals that is not   *)
(* empty has a least element.  From it, that functions defined by recursion *)
(* exist and have the values their equations say.                           *)
(***************************************************************************)
EXTENDS Integers, Sequences, FiniteSets, SequencesExt, WellFoundedInduction, FiniteSetTheorems, SequenceTheorems, TLAPS

LEMMA Least ==
  ASSUME NEW T, T \subseteq Nat, T # {}
  PROVE  \E x \in T : \A y \in T : x <= y
<1> DEFINE R == OpToRel(<, Nat)
<1>1. IsWellFoundedOn(R, Nat)
  BY NatLessThanWellFounded
<1>2. \A x, y \in Nat : y < x => <<y, x>> \in R
  BY DEF OpToRel
<1> HIDE DEF R
<1>3. PICK x \in T : \A y \in T : ~(<<y, x>> \in R)
  BY <1>1, WFMin
<1>4. \A y \in T : ~(y < x)
  BY <1>2, <1>3
<1> QED
  BY <1>4

LEMMA MinIsLeast ==
  ASSUME NEW T, T \subseteq Nat, T # {}
  PROVE  Min(T) \in T /\ \A y \in T : Min(T) <= y
  BY Least DEF Min

\* What F makes of a function at a number hangs on the numbers before it.
Causal(F, D, N) ==
  /\ F \in [[1..N -> D] -> [1..N -> D]]
  /\ \A f1, f2 \in [1..N -> D], g \in 1..N : (\A x \in 1..(g - 1) : f1[x] = f2[x]) => F[f1][g] = F[f2][g]
IsCourse(f, F, D, N) == f \in [1..N -> D] /\ \A g \in 1..N : f[g] = F[f][g]

\* A function given by what came before every argument exists.
LEMMA Course ==
  ASSUME NEW N \in Nat, NEW D, D # {}, NEW F, Causal(F, D, N)
  PROVE  \E f : IsCourse(f, F, D, N)
<1> USE DEF Causal
<1> DEFINE Good(n) == \E f \in [1..N -> D] : \A g \in 1..n : f[g] = F[f][g]
           Bad == {n \in 0..N : ~Good(n)}
<1>1. Good(0)
  <2>1. PICK d \in D : TRUE
    OBVIOUS
  <2>2. [g \in 1..N |-> d] \in [1..N -> D]
    OBVIOUS
  <2>3. 1..0 = {}
    OBVIOUS
  <2> QED
    BY <2>2, <2>3
<1>2. ASSUME NEW n \in 0..N, n < N, Good(n) PROVE Good(n + 1)
  <2>1. PICK f \in [1..N -> D] : \A g \in 1..n : f[g] = F[f][g]
    BY <1>2
  <2> DEFINE e == F[f][n + 1]
             f2 == [f EXCEPT ![n + 1] = e]
  <2>2. n + 1 \in 1..N /\ F[f] \in [1..N -> D]
    BY <1>2
  <2>3. e \in D
    BY <2>2
  <2>4. f2 \in [1..N -> D] /\ f2[n + 1] = e /\ \A g \in 1..n : f2[g] = f[g]
    BY <1>2, <2>2, <2>3
  <2> HIDE DEF f2
  <2>5. ASSUME NEW g \in 1..(n + 1) PROVE f2[g] = F[f2][g]
    <3>1. g \in 1..N /\ \A x \in 1..(g - 1) : f[x] = f2[x]
      BY <1>2, <2>4
    <3>2. F[f][g] = F[f2][g]
      BY <2>4, <3>1
    <3>3. CASE g = n + 1
      BY <2>4, <3>2, <3>3
    <3>4. CASE g # n + 1
      <4>1. g \in 1..n
        BY <1>2, <3>4
      <4> QED
        BY <2>1, <2>4, <3>2, <4>1
    <3> QED
      BY <3>3, <3>4
  <2> QED
    BY <2>4, <2>5
<1> HIDE DEF Good
<1>3. Bad = {}
  <2> SUFFICES ASSUME Bad # {} PROVE FALSE
    OBVIOUS
  <2>1. PICK n \in Bad : \A y \in Bad : n <= y
    <3>1. Bad \subseteq Nat
      BY 0..N \subseteq Nat
    <3> QED
      BY <3>1, Least
  <2>2. n # 0
    BY <1>1
  <2>3. n - 1 \in 0..N /\ n - 1 < N /\ n - 1 \notin Bad /\ (n - 1) + 1 = n
    BY <2>1, <2>2
  <2>4. Good(n - 1)
    BY <2>3
  <2>5. Good((n - 1) + 1)
    BY <1>2, <2>3, <2>4
  <2> QED
    BY <2>3, <2>5
<1>4. Good(N)
  BY <1>3
<1> QED
  BY <1>4 DEF Good, IsCourse

\* A set of numbers that holds 1 and with every number its successor is all.
LEMMA Upwards ==
  ASSUME NEW N \in Nat, NEW T, 1 \in T, \A i \in 1..(N - 1) : i \in T => i + 1 \in T
  PROVE  1..N \subseteq T
<1> DEFINE Bad == {i \in 1..N : i \notin T}
<1> SUFFICES ASSUME Bad # {} PROVE FALSE
  OBVIOUS
<1>1. Bad \subseteq Nat
  BY 1..N \subseteq Nat
<1>2. PICK i \in Bad : \A y \in Bad : i <= y
  BY <1>1, Least
<1>3. i # 1 /\ i \in 1..N
  BY <1>2
<1>4. i - 1 \in 1..(N - 1) /\ i - 1 \in 1..N /\ (i - 1) + 1 = i /\ ~(i <= i - 1)
  BY <1>3
<1>5. i - 1 \in T
  BY <1>2, <1>4
<1> QED
  BY <1>2, <1>4, <1>5

\* What FlattenSeq computes, sequence by sequence.
Flattens(f, seqs, N, S) ==
  /\ f \in [1..N -> Seq(S)]
  /\ FlattenSeq(seqs) = f[N] /\ f[1] = seqs[1]
  /\ \A i \in 1..(N - 1) : f[i + 1] = f[i] \o seqs[i + 1]

LEMMA FlattenIs ==
  ASSUME NEW S, NEW N \in Nat \ {0}, NEW seqs, seqs \in [1..N -> Seq(S)]
  PROVE  \E f : Flattens(f, seqs, N, S)
<1> DEFINE D == Seq(S)
           F == [f \in [1..N -> D] |-> [i \in 1..N |-> IF i = 1 THEN seqs[i] ELSE f[i - 1] \o seqs[i]]]
<1>1. D # {}
  BY <<>> \in Seq(S)
<1>2. \A s, t \in D : s \o t \in D
  BY ConcatProperties
<1> HIDE DEF D
<1>3. \A i \in 1..N : seqs[i] \in D /\ (i # 1 => i - 1 \in 1..N /\ i - 1 \in 1..(i - 1))
  BY DEF D
<1>4. Causal(F, D, N)
  BY <1>2, <1>3 DEF Causal
<1>5. \A f \in [1..N -> D] : F[f] = [i \in 1..N |-> IF i = 1 THEN seqs[i] ELSE f[i - 1] \o seqs[i]]
  OBVIOUS
<1> HIDE DEF F
<1>6. PICK f : IsCourse(f, F, D, N)
  BY <1>1, <1>4, Course
<1>7. f = [i \in 1..N |-> IF i = 1 THEN seqs[i] ELSE f[i - 1] \o seqs[i]]
  BY <1>5, <1>6 DEF IsCourse
<1> DEFINE g == CHOOSE h : h = [i \in 1..N |-> IF i = 1 THEN seqs[i] ELSE h[i - 1] \o seqs[i]]
<1>8. g = [i \in 1..N |-> IF i = 1 THEN seqs[i] ELSE g[i - 1] \o seqs[i]]
  BY <1>7
<1>9. seqs \in Seq(D) /\ Len(seqs) = N /\ Len(seqs) # 0
  BY DEF D
<1>10. FlattenSeq(seqs) = g[N]
  BY <1>9 DEF FlattenSeq
<1> HIDE DEF g
<1>11. g[1] = seqs[1] /\ \A i \in 1..(N - 1) : g[i + 1] = g[i] \o seqs[i + 1]
  <2>1. \A i \in 1..N : g[i] = IF i = 1 THEN seqs[i] ELSE g[i - 1] \o seqs[i]
    BY <1>8, Zenon
  <2>2. ASSUME NEW i \in 1..(N - 1) PROVE g[i + 1] = g[i] \o seqs[i + 1]
    <3>1. i + 1 \in 1..N /\ i + 1 # 1 /\ (i + 1) - 1 = i
      OBVIOUS
    <3> QED
      BY <2>1, <3>1
  <2>3. 1 \in 1..N
    OBVIOUS
  <2> QED
    BY <2>1, <2>2, <2>3
<1> DEFINE T == {i \in 1..N : g[i] \in D}
<1>12. 1..N \subseteq T
  <2>1. 1 \in T
    BY <1>3, <1>11
  <2>2. ASSUME NEW i \in 1..(N - 1), i \in T PROVE i + 1 \in T
    <3>1. i + 1 \in 1..N
      OBVIOUS
    <3>2. g[i] \o seqs[i + 1] \in D
      BY <1>2, <1>3, <2>2, <3>1
    <3> QED
      BY <1>11, <3>1, <3>2
  <2> HIDE DEF T
  <2> QED
    BY <2>1, <2>2, Upwards
<1>13. g \in [1..N -> D]
  BY <1>8, <1>12
<1> QED
  BY <1>10, <1>11, <1>13 DEF D, Flattens

\* Induction over the subsets of a finite set: a set of sets that holds the
\* empty one, and every one it holds all but one element of, holds them all.
Hereditary(G, S) == \A T \in SUBSET S : T # {} /\ (\A x \in T : T \ {x} \in G) => T \in G

LEMMA SubsetInduction ==
  ASSUME NEW S, IsFiniteSet(S), NEW G, {} \in G, Hereditary(G, S)
  PROVE  SUBSET S \subseteq G
<1> DEFINE Bad == {n \in Nat : \E T \in SUBSET S : T \notin G /\ Cardinality(T) = n}
<1> SUFFICES ASSUME NEW U \in SUBSET S, U \notin G PROVE FALSE
  OBVIOUS
<1>1. \A T \in SUBSET S : IsFiniteSet(T) /\ Cardinality(T) \in Nat
  BY FS_Subset, FS_CardinalityType
<1>2. Bad # {} /\ Bad \subseteq Nat
  BY <1>1
<1>3. PICK n \in Bad : \A y \in Bad : n <= y
  BY <1>2, Least
<1>4. PICK T \in SUBSET S : T \notin G /\ Cardinality(T) = n
  BY <1>3
<1>5. ASSUME NEW x \in T PROVE T \ {x} \in G
  <2>1. Cardinality(T \ {x}) = n - 1
    BY <1>1, <1>4, FS_RemoveElement
  <2>2. n \in Nat /\ n - 1 \in Nat /\ ~(n <= n - 1)
    BY <1>1, <1>3, <2>1, T \ {x} \in SUBSET S
  <2>3. n - 1 \notin Bad
    BY <1>3, <2>2
  <2> QED
    BY <2>1, <2>2, <2>3
<1> QED
  BY <1>4, <1>5 DEF Hereditary

\* A strict total order on a finite set, as a relation R, has a first element
\* in every subset that is not empty.
Orders(R, S) ==
  /\ \A x, y \in S : x # y => <<x, y>> \in R \/ <<y, x>> \in R
  /\ \A x, y, z \in S : <<x, y>> \in R /\ <<y, z>> \in R => <<x, z>> \in R
FirstIn(R, T, r) == r \in T /\ \A q \in T \ {r} : <<r, q>> \in R

LEMMA FirstExists ==
  ASSUME NEW S, IsFiniteSet(S), NEW R, Orders(R, S), NEW T \in SUBSET S, T # {}
  PROVE  \E r \in T : FirstIn(R, T, r)
<1> DEFINE G == {U \in SUBSET S : U = {} \/ \E r \in U : FirstIn(R, U, r)}
<1>1. {} \in G
  OBVIOUS
<1>2. ASSUME NEW U \in SUBSET S, U # {}, \A x \in U : U \ {x} \in G PROVE U \in G
  <2>1. PICK x \in U : TRUE
    BY <1>2
  <2>2. CASE U \ {x} = {}
    BY <2>1, <2>2 DEF FirstIn
  <2>3. CASE U \ {x} # {}
    <3>1. PICK r \in U \ {x} : FirstIn(R, U \ {x}, r)
      BY <1>2, <2>1, <2>3
    <3>2. CASE <<r, x>> \in R
      <4>1. FirstIn(R, U, r)
        BY <3>1, <3>2 DEF FirstIn
      <4> QED
        BY <3>1, <4>1
    <3>3. CASE <<x, r>> \in R
      <4>1. ASSUME NEW q \in U \ {x} PROVE <<x, q>> \in R
        <5>1. CASE q = r
          BY <3>3, <5>1
        <5>2. CASE q # r
          <6>1. <<r, q>> \in R
            BY <3>1, <4>1, <5>2 DEF FirstIn
          <6>2. x \in S /\ r \in S /\ q \in S
            BY <2>1, <3>1, <4>1
          <6> QED
            BY <3>3, <6>1, <6>2 DEF Orders
        <5> QED
          BY <5>1, <5>2
      <4>2. FirstIn(R, U, x)
        BY <2>1, <4>1 DEF FirstIn
      <4> QED
        BY <4>2
    <3>4. x \in S /\ r \in S /\ r # x
      BY <2>1, <3>1
    <3> QED
      BY <3>2, <3>3, <3>4 DEF Orders
  <2> QED
    BY <2>2, <2>3
<1>3. Hereditary(G, S)
  BY <1>2 DEF Hereditary
<1> HIDE DEF G
<1>4. T \in G
  BY <1>1, <1>3, SubsetInduction
<1> QED
  BY <1>4 DEF G

\* The fold over a finite set S that takes the element C[T] of what is left
\* last: the function its recursion defines.
IsFold(h, S, D, base, C, F) ==
  /\ h \in [SUBSET S -> D] /\ h[{}] = base
  /\ \A T \in SUBSET S : T # {} => h[T] = F[C[T]][h[T \ {C[T]}]]

LEMMA FoldExists ==
  ASSUME NEW S, IsFiniteSet(S), NEW D, NEW base \in D, NEW C, NEW F, F \in [S -> [D -> D]],
         \A T \in SUBSET S : T # {} => C[T] \in T
  PROVE  \E h : IsFold(h, S, D, base, C, F)
<1> DEFINE N == Cardinality(S) + 1
           E == [SUBSET S -> D]
           Step(e) == [T \in SUBSET S |-> IF T = {} THEN base ELSE F[C[T]][e[T \ {C[T]}]]]
           G == [f \in [1..N -> E] |-> [g \in 1..N |-> IF g = 1 THEN [T \in SUBSET S |-> base] ELSE Step(f[g - 1])]]
<1>1. Cardinality(S) \in Nat /\ N \in Nat
  BY FS_CardinalityType
<1>2. [T \in SUBSET S |-> base] \in E
  OBVIOUS
<1>3. ASSUME NEW e \in E PROVE Step(e) \in E /\ \A T \in SUBSET S : Step(e)[T] = IF T = {} THEN base ELSE F[C[T]][e[T \ {C[T]}]]
  <2>1. ASSUME NEW T \in SUBSET S, T # {} PROVE F[C[T]][e[T \ {C[T]}]] \in D
    <3>1. C[T] \in S /\ T \ {C[T]} \in SUBSET S
      BY <2>1
    <3>2. e[T \ {C[T]}] \in D /\ F[C[T]] \in [D -> D]
      BY <3>1
    <3> QED
      BY <3>2
  <2> QED
    BY <2>1
<1> HIDE DEF Step, E, N
<1>4. \A g \in 1..N : g # 1 => g - 1 \in 1..N /\ g - 1 \in 1..(g - 1)
  BY <1>1
<1>5. Causal(G, E, N)
  BY <1>2, <1>3, <1>4 DEF Causal
<1>6. \A f \in [1..N -> E] : \A g \in 1..N : G[f][g] = IF g = 1 THEN [T \in SUBSET S |-> base] ELSE Step(f[g - 1])
  OBVIOUS
<1> HIDE DEF G
<1>7. E # {}
  BY <1>2
<1>8. PICK f : IsCourse(f, G, E, N)
  BY <1>1, <1>5, <1>7, Course
<1> DEFINE h == [T \in SUBSET S |-> f[Cardinality(T) + 1][T]]
<1>9. ASSUME NEW T \in SUBSET S PROVE IsFiniteSet(T) /\ Cardinality(T) \in Nat /\ Cardinality(T) + 1 \in 1..N
  <2>1. IsFiniteSet(T) /\ Cardinality(T) <= Cardinality(S)
    BY FS_Subset
  <2>2. Cardinality(T) \in Nat
    BY <2>1, FS_CardinalityType
  <2> QED
    BY <1>1, <2>1, <2>2 DEF N
<1>10. ASSUME NEW T \in SUBSET S PROVE h[T] = f[Cardinality(T) + 1][T] /\ h[T] \in D
  <2>1. f[Cardinality(T) + 1] \in E
    BY <1>8, <1>9 DEF IsCourse
  <2> QED
    BY <2>1 DEF E
<1>11. h \in [SUBSET S -> D]
  BY <1>10
<1> HIDE DEF h
<1>12. h[{}] = base
  <2>1. Cardinality({}) + 1 = 1
    BY FS_EmptySet
  <2>2. {} \in SUBSET S /\ 1 \in 1..N
    BY <1>9, <2>1
  <2>3. f[1] = [T \in SUBSET S |-> base]
    BY <1>6, <1>8, <2>2 DEF IsCourse
  <2> QED
    BY <1>10, <2>1, <2>2, <2>3
<1>13. ASSUME NEW T \in SUBSET S, T # {} PROVE h[T] = F[C[T]][h[T \ {C[T]}]]
  <2> DEFINE U == T \ {C[T]}
  <2>1. C[T] \in T /\ U \in SUBSET S
    BY <1>13
  <2>2. Cardinality(U) = Cardinality(T) - 1
    BY <1>9, <2>1, FS_RemoveElement
  <2> DEFINE g == Cardinality(T) + 1
  <2>3. g \in 1..N /\ g # 1 /\ g - 1 = Cardinality(U) + 1 /\ g - 1 \in 1..N
    BY <1>9, <2>1, <2>2
  <2>4. h[U] = f[g - 1][U] /\ h[T] = f[g][T]
    BY <1>10, <2>1, <2>3
  <2> HIDE DEF g
  <2>5. f \in [1..N -> E] /\ f[g] = G[f][g]
    BY <1>8, <2>3 DEF IsCourse
  <2>6. PICK e : e = f[g - 1]
    OBVIOUS
  <2>7. e \in E /\ f[g] = Step(e)
    BY <1>6, <2>3, <2>5, <2>6
  <2>8. Step(e)[T] = F[C[T]][e[U]]
    BY <1>3, <1>13, <2>7
  <2> QED
    BY <2>4, <2>6, <2>7, <2>8
<1> QED
  BY <1>11, <1>12, <1>13 DEF IsFold

=============================================================================

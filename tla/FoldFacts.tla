------------------------------ MODULE FoldFacts ------------------------------
(***************************************************************************)
(* Induction without operator parameters, and with it what the folds and   *)
(* sums of the community modules compute.                                  *)
(***************************************************************************)
EXTENDS SequencesExt, FiniteSetTheorems, WellFoundedInduction, TLAPS

-----------------------------------------------------------------------------
(* Induction *)

\* A set of naturals with 0 and the successor of each of its members.
LEMMA Induction ==
    ASSUME NEW T, 0 \in T, \A n \in Nat : n \in T => n + 1 \in T
    PROVE  Nat \subseteq T
<1> DEFINE B == Nat \ T
<1> SUFFICES ASSUME B # {}  PROVE FALSE
  OBVIOUS
<1>1. PICK m \in B : \A k \in B : ~(<<k, m>> \in OpToRel(<, Nat))
  <2>1. B \subseteq Nat
    OBVIOUS
  <2> HIDE DEF B
  <2>2. QED  BY <2>1, WFMin, NatLessThanWellFounded
<1>2. \A k \in B : ~(k < m)
  BY <1>1 DEF OpToRel
<1>3. m # 0 /\ m \in Nat
  OBVIOUS
<1>4. m - 1 \in Nat /\ m - 1 < m /\ m = (m - 1) + 1
  BY <1>3
<1>5. m - 1 \in T
  BY <1>2, <1>4
<1>6. QED  BY <1>4, <1>5

\* A set of subsets of S that has every subset it has all but one element of.
LEMMA SubsetInduction ==
    ASSUME NEW S, IsFiniteSet(S), NEW F,
           \A s \in SUBSET S : (\A x \in s : s \ {x} \in F) => s \in F
    PROVE  SUBSET S \subseteq F
<1> DEFINE T == {n \in Nat : \A s \in SUBSET S : Cardinality(s) = n => s \in F}
<1>1. \A s \in SUBSET S : IsFiniteSet(s) /\ Cardinality(s) \in Nat
  BY FS_Subset, FS_CardinalityType
<1>2. 0 \in T
  <2>1. \A s \in SUBSET S : Cardinality(s) = 0 => s = {}
    BY <1>1, FS_EmptySet
  <2>2. QED  BY <2>1
<1>3. ASSUME NEW n \in Nat, n \in T  PROVE n + 1 \in T
  <2> SUFFICES ASSUME NEW s \in SUBSET S, Cardinality(s) = n + 1  PROVE s \in F
    OBVIOUS
  <2>1. ASSUME NEW x \in s  PROVE s \ {x} \in F
    <3>1. Cardinality(s \ {x}) = Cardinality(s) - 1
      BY <1>1, FS_RemoveElement
    <3>2. Cardinality(s \ {x}) = n /\ s \ {x} \in SUBSET S
      BY <3>1
    <3>3. QED  BY <1>3, <3>2
  <2>2. QED  BY <2>1
<1>4. Nat \subseteq T
  <2> HIDE DEF T
  <2>1. QED  BY <1>2, <1>3, Induction
<1>5. QED  BY <1>1, <1>4

-----------------------------------------------------------------------------
(* Iteration over the subsets of a set *)

\* What MapThenFoldSet asks of its iter, for an order of choice and a step
\* that are functions.
Iterates(it, S, base, pick, step) ==
    \A s \in SUBSET S :
        it[s] = IF s = {} THEN base ELSE step[<<pick[s], it[s \ {pick[s]}]>>]

LEMMA IterExists ==
    ASSUME NEW S, IsFiniteSet(S), NEW V, NEW base \in V,
           NEW pick, \A s \in SUBSET S : s # {} => pick[s] \in s,
           NEW step, \A x \in S, v \in V : step[<<x, v>>] \in V
    PROVE  \E it \in [SUBSET S -> V] : Iterates(it, S, base, pick, step)
<1> DEFINE Small(n) == {s \in SUBSET S : Cardinality(s) <= n}
           Good(g, n) == \A s \in Small(n) :
              g[s] = IF s = {} THEN base ELSE step[<<pick[s], g[s \ {pick[s]}]>>]
           T == {n \in Nat : \E g \in [Small(n) -> V] : Good(g, n)}
<1>1. \A s \in SUBSET S : IsFiniteSet(s) /\ Cardinality(s) \in Nat
  BY FS_Subset, FS_CardinalityType
<1>2. 0 \in T
  <2>1. \A s \in Small(0) : s = {}
    BY <1>1, FS_EmptySet
  <2> DEFINE g == [s \in Small(0) |-> base]
  <2>2. g \in [Small(0) -> V] /\ Good(g, 0)
    BY <2>1
  <2> HIDE DEF Small, Good, g
  <2>3. QED  BY <2>2
<1>3. ASSUME NEW n \in Nat, n \in T  PROVE n + 1 \in T
  <2>1. PICK g \in [Small(n) -> V] : Good(g, n)
    BY <1>3
  <2> DEFINE h == [s \in Small(n + 1) |->
                     IF s = {} THEN base ELSE step[<<pick[s], g[s \ {pick[s]}]>>]]
  <2>2. ASSUME NEW s \in Small(n + 1), s # {}
        PROVE  pick[s] \in s /\ pick[s] \in S /\ s \ {pick[s]} \in Small(n)
    <3>1. pick[s] \in s /\ pick[s] \in S
      BY <2>2
    <3>2. Cardinality(s \ {pick[s]}) = Cardinality(s) - 1 /\ Cardinality(s) \in Nat
      BY <1>1, <3>1, FS_RemoveElement
    <3>3. Cardinality(s) <= n + 1
      OBVIOUS
    <3>4. QED  BY <3>1, <3>2, <3>3
  <2>3. h \in [Small(n + 1) -> V]
    <3>1. ASSUME NEW s \in Small(n + 1), s # {}
          PROVE  step[<<pick[s], g[s \ {pick[s]}]>>] \in V
      <4>1. g[s \ {pick[s]}] \in V
        BY <2>2, <3>1
      <4>2. QED  BY <2>2, <3>1, <4>1
    <3> HIDE DEF Small
    <3>2. QED  BY <3>1
  <2>4. \A s \in Small(n) : s \in Small(n + 1) /\ h[s] = g[s]
    <3>1. ASSUME NEW s \in Small(n)  PROVE s \in Small(n + 1)
      BY <1>1
    <3> HIDE DEF Small
    <3>2. QED  BY <2>1, <3>1
  <2>5. Good(h, n + 1)
    <3> SUFFICES ASSUME NEW s \in Small(n + 1)
                 PROVE  h[s] = IF s = {} THEN base ELSE step[<<pick[s], h[s \ {pick[s]}]>>]
      OBVIOUS
    <3>1. CASE s = {}
      BY <3>1
    <3>2. CASE s # {}
      <4>1. h[s \ {pick[s]}] = g[s \ {pick[s]}]
        BY <2>2, <2>4, <3>2
      <4> HIDE DEF Small
      <4>2. QED  BY <3>2, <4>1
    <3>3. QED  BY <3>1, <3>2
  <2> HIDE DEF Small, Good, h
  <2>6. QED  BY <2>3, <2>5
<1>4. Cardinality(S) \in T
  <2>1. Cardinality(S) \in Nat
    BY FS_CardinalityType
  <2> HIDE DEF T
  <2>2. QED  BY <1>2, <1>3, <2>1, Induction
<1>5. Small(Cardinality(S)) = SUBSET S
  BY FS_Subset
<1>6. PICK g \in [SUBSET S -> V] : Good(g, Cardinality(S))
  <2> HIDE DEF Small, Good
  <2>1. QED  BY <1>4, <1>5
<1>7. Iterates(g, S, base, pick, step)
  <2> HIDE DEF Small
  <2>1. QED  BY <1>5, <1>6 DEF Iterates
<1>8. QED  BY <1>7

-----------------------------------------------------------------------------
(* Sums *)

SumOver(f, S) == MapThenSumSet(LAMBDA x : f[x], S)

\* The sums of f over the subsets of S, in the order of MapThenSumSet.
Anyone(s) == CHOOSE x \in s : TRUE
Sums(it, f, S) ==
    \A s \in SUBSET S :
        it[s] = IF s = {} THEN 0 ELSE f[Anyone(s)] + it[s \ {Anyone(s)}]

LEMMA SumsExist ==
    ASSUME NEW S, IsFiniteSet(S), NEW f, \A x \in S : f[x] \in Nat
    PROVE  \E it \in [SUBSET S -> Nat] : Sums(it, f, S)
<1> DEFINE pick == [s \in SUBSET S |-> Anyone(s)]
           step == [z \in S \X Nat |-> f[z[1]] + z[2]]
<1>1. \A s \in SUBSET S : s # {} => pick[s] \in s
  BY DEF Anyone
<1>2. \A x \in S, v \in Nat : step[<<x, v>>] = f[x] + v /\ step[<<x, v>>] \in Nat
  OBVIOUS
<1> HIDE DEF step
<1>3. PICK it \in [SUBSET S -> Nat] : Iterates(it, S, 0, pick, step)
  <2> HIDE DEF pick
  <2>1. QED  BY <1>1, <1>2, IterExists
<1>4. Sums(it, f, S)
  <2> SUFFICES ASSUME NEW s \in SUBSET S, s # {}
               PROVE  it[s] = f[Anyone(s)] + it[s \ {Anyone(s)}]
    BY <1>3 DEF Sums, Iterates
  <2>1. Anyone(s) \in S /\ it[s \ {Anyone(s)}] \in Nat
    BY <1>1
  <2>2. it[s] = step[<<Anyone(s), it[s \ {Anyone(s)}]>>]
    BY <1>3 DEF Iterates
  <2>3. QED  BY <1>2, <2>1, <2>2
<1>5. QED  BY <1>4

\* Two such functions are one where their summands agree.
LEMMA SumsAgree ==
    ASSUME NEW S, IsFiniteSet(S), NEW T \in SUBSET S, NEW f, NEW g,
           \A x \in T : f[x] = g[x],
           NEW i, NEW j, Sums(i, f, S), Sums(j, g, T)
    PROVE  \A s \in SUBSET T : i[s] = j[s]
<1> DEFINE F == {s \in SUBSET T : i[s] = j[s]}
<1>1. IsFiniteSet(T)
  BY FS_Subset
<1>2. ASSUME NEW s \in SUBSET T, \A x \in s : s \ {x} \in F  PROVE s \in F
  <2>1. CASE s = {}
    BY <2>1 DEF Sums
  <2>2. CASE s # {}
    <3>1. Anyone(s) \in s
      BY <2>2 DEF Anyone
    <3>2. i[s \ {Anyone(s)}] = j[s \ {Anyone(s)}] /\ f[Anyone(s)] = g[Anyone(s)]
      BY <1>2, <3>1
    <3>3. QED  BY <2>2, <3>2 DEF Sums
  <2>3. QED  BY <2>1, <2>2
<1>3. SUBSET T \subseteq F
  <2> HIDE DEF F
  <2>1. QED  BY <1>1, <1>2, SubsetInduction
<1>4. QED  BY <1>3

LEMMA SumsType ==
    ASSUME NEW S, IsFiniteSet(S), NEW f, \A x \in S : f[x] \in Nat,
           NEW it, Sums(it, f, S)
    PROVE  \A s \in SUBSET S : it[s] \in Nat
<1>1. PICK j \in [SUBSET S -> Nat] : Sums(j, f, S)
  BY SumsExist
<1>2. \A s \in SUBSET S : it[s] = j[s]
  BY <1>1, SumsAgree
<1>3. QED  BY <1>2

\* The order does not matter.
LEMMA SumsInAnyOrder ==
    ASSUME NEW S, IsFiniteSet(S), NEW f, \A x \in S : f[x] \in Nat,
           NEW it, Sums(it, f, S), NEW t \in SUBSET S, NEW y \in t
    PROVE  it[t] = f[y] + it[t \ {y}]
<1> DEFINE F == {s \in SUBSET S : \A x \in s : it[s] = f[x] + it[s \ {x}]}
<1>1. ASSUME NEW s \in SUBSET S, \A x \in s : s \ {x} \in F  PROVE s \in F
  <2> SUFFICES ASSUME NEW x \in s  PROVE it[s] = f[x] + it[s \ {x}]
    OBVIOUS
  <2> DEFINE c == Anyone(s)
  <2>1. c \in s /\ it[s] = f[c] + it[s \ {c}]
    BY DEF Anyone, Sums
  <2> HIDE DEF c
  <2>2. CASE x = c
    BY <2>1, <2>2
  <2>3. CASE x # c
    <3>1. /\ it[s \ {c}] = f[x] + it[(s \ {c}) \ {x}]
          /\ it[s \ {x}] = f[c] + it[(s \ {x}) \ {c}]
      BY <1>1, <2>1, <2>3
    <3>2. (s \ {c}) \ {x} = (s \ {x}) \ {c}
      OBVIOUS
    <3>3. f[c] \in Nat /\ f[x] \in Nat /\ it[(s \ {x}) \ {c}] \in Nat
      BY <2>1, SumsType
    <3>4. \A a, b, n \in Nat : a + (b + n) = b + (a + n)
      OBVIOUS
    <3>5. f[c] + (f[x] + it[(s \ {x}) \ {c}]) = f[x] + (f[c] + it[(s \ {x}) \ {c}])
      BY <3>3, <3>4
    <3>6. QED  BY <2>1, <3>1, <3>2, <3>5, Zenon
  <2>4. QED  BY <2>2, <2>3
<1>2. SUBSET S \subseteq F
  <2>1. \A s \in SUBSET S : (\A x \in s : s \ {x} \in F) => s \in F
    BY <1>1
  <2> HIDE DEF F
  <2>2. QED  BY <2>1, SubsetInduction, Zenon
<1>3. QED  BY <1>2

LEMMA SumUnfolds ==
    ASSUME NEW S, IsFiniteSet(S), NEW f, \A x \in S : f[x] \in Nat
    PROVE  \E it : Sums(it, f, S) /\ SumOver(f, S) = it[S]
<1> DEFINE It == CHOOSE it : it = [s \in SUBSET S |->
                   IF s = {} THEN 0 ELSE f[Anyone(s)] + it[s \ {Anyone(s)}]]
<1>1. SumOver(f, S) = It[S]
  BY DEF SumOver, MapThenSumSet, MapThenFoldSet, Anyone
<1>2. PICK j \in [SUBSET S -> Nat] : Sums(j, f, S)
  BY SumsExist
<1>3. j = [s \in SUBSET S |-> IF s = {} THEN 0 ELSE f[Anyone(s)] + j[s \ {Anyone(s)}]]
  BY <1>2 DEF Sums
<1>4. It = [s \in SUBSET S |-> IF s = {} THEN 0 ELSE f[Anyone(s)] + It[s \ {Anyone(s)}]]
  BY <1>3
<1> HIDE DEF It
<1>5. Sums(It, f, S)
  BY <1>4 DEF Sums
<1>6. QED  BY <1>1, <1>5

\* A sum of naturals is a natural, an element adds its summand, and nothing
\* else counts.
LEMMA SumFacts ==
    ASSUME NEW S, IsFiniteSet(S), NEW f, \A x \in S : f[x] \in Nat
    PROVE  /\ SumOver(f, S) \in Nat
           /\ S = {} => SumOver(f, S) = 0
           /\ \A x \in S : SumOver(f, S) = f[x] + SumOver(f, S \ {x})
<1>1. PICK i : Sums(i, f, S) /\ SumOver(f, S) = i[S]
  BY SumUnfolds
<1>2. ASSUME NEW y \in S  PROVE i[S] = f[y] + i[S \ {y}]
  BY <1>1, SumsInAnyOrder
<1>3. S \in SUBSET S
  OBVIOUS
<1>4. ASSUME NEW x \in S  PROVE SumOver(f, S) = f[x] + SumOver(f, S \ {x})
  <2> DEFINE R == S \ {x}
  <2>1. IsFiniteSet(R) /\ R \in SUBSET S /\ R \in SUBSET R /\ \A y \in R : f[y] \in Nat
    BY FS_Subset
  <2>2. i[S] = f[x] + i[R]
    BY <1>2, <1>3
  <2> HIDE DEF R
  <2>3. PICK j : Sums(j, f, R) /\ SumOver(f, R) = j[R]
    BY <2>1, SumUnfolds
  <2>4. i[R] = j[R]
    BY <1>1, <2>1, <2>3, SumsAgree
  <2>5. QED  BY <1>1, <2>2, <2>3, <2>4 DEF R
<1>5. SumOver(f, S) \in Nat
  <2>1. \A s \in SUBSET S : i[s] \in Nat
    BY <1>1, SumsType
  <2>2. QED  BY <1>1, <1>3, <2>1
<1>6. S = {} => SumOver(f, S) = 0
  BY <1>1, <1>3 DEF Sums
<1>7. QED  BY <1>4, <1>5, <1>6

LEMMA SumDependsOnSummands ==
    ASSUME NEW S, IsFiniteSet(S), NEW f, NEW g,
           \A x \in S : f[x] \in Nat /\ g[x] = f[x]
    PROVE  SumOver(g, S) = SumOver(f, S)
<1>1. PICK i : Sums(i, f, S) /\ SumOver(f, S) = i[S]
  BY SumUnfolds
<1>2. PICK j : Sums(j, g, S) /\ SumOver(g, S) = j[S]
  BY SumUnfolds
<1>3. i[S] = j[S]
  BY <1>1, <1>2, SumsAgree
<1>4. QED  BY <1>1, <1>2, <1>3

\* One summand changes.
LEMMA SumChanges ==
    ASSUME NEW S, IsFiniteSet(S), NEW f, NEW g,
           \A x \in S : f[x] \in Nat /\ g[x] \in Nat,
           NEW x \in S, \A y \in S \ {x} : g[y] = f[y]
    PROVE  /\ SumOver(f, S) \in Nat /\ SumOver(g, S) \in Nat
           /\ SumOver(g, S) + f[x] = SumOver(f, S) + g[x]
<1> DEFINE R == S \ {x}
<1>1. IsFiniteSet(R) /\ \A y \in R : f[y] \in Nat /\ g[y] = f[y]
  BY FS_Subset
<1>2. SumOver(f, S) \in Nat /\ SumOver(f, S) = f[x] + SumOver(f, R)
  BY SumFacts
<1>3. SumOver(g, S) \in Nat /\ SumOver(g, S) = g[x] + SumOver(g, R)
  BY SumFacts
<1> HIDE DEF R
<1>4. SumOver(g, R) = SumOver(f, R) /\ SumOver(f, R) \in Nat
  <2>1. \A y \in R : f[y] \in Nat
    BY <1>1
  <2>2. SumOver(f, R) \in Nat
    BY <1>1, <2>1, SumFacts
  <2>3. QED  BY <1>1, <2>2, SumDependsOnSummands
<1>5. \A a, b, c \in Nat : (a + c) + b = (b + c) + a
  OBVIOUS
<1>6. f[x] \in Nat /\ g[x] \in Nat
  OBVIOUS
<1>7. (g[x] + SumOver(f, R)) + f[x] = (f[x] + SumOver(f, R)) + g[x]
  BY <1>4, <1>5, <1>6
<1>8. QED  BY <1>2, <1>3, <1>4, <1>7

LEMMA SumOfNothing ==
    ASSUME NEW S, IsFiniteSet(S), NEW f, \A x \in S : f[x] = 0
    PROVE  SumOver(f, S) = 0
<1>1. PICK i : Sums(i, f, S) /\ SumOver(f, S) = i[S]
  BY SumUnfolds
<1> DEFINE F == {s \in SUBSET S : i[s] = 0}
<1>2. ASSUME NEW s \in SUBSET S, \A x \in s : s \ {x} \in F  PROVE s \in F
  <2>1. CASE s = {}
    BY <1>1, <2>1 DEF Sums
  <2>2. CASE s # {}
    <3>1. Anyone(s) \in s
      BY <2>2 DEF Anyone
    <3>2. i[s] = f[Anyone(s)] + i[s \ {Anyone(s)}]
      BY <1>1, <2>2 DEF Sums
    <3>3. f[Anyone(s)] = 0 /\ i[s \ {Anyone(s)}] = 0
      BY <1>2, <3>1
    <3>4. QED  BY <3>2, <3>3
  <2>3. QED  BY <2>1, <2>2
<1>3. SUBSET S \subseteq F
  <2>1. \A s \in SUBSET S : (\A x \in s : s \ {x} \in F) => s \in F
    BY <1>2
  <2> HIDE DEF F
  <2>2. QED  BY <2>1, SubsetInduction, Zenon
<1>4. QED  BY <1>1, <1>3

\* A sum is at least the number of its positive summands.
LEMMA SumBoundsCount ==
    ASSUME NEW S, IsFiniteSet(S), NEW f, \A x \in S : f[x] \in Nat
    PROVE  Cardinality({x \in S : f[x] > 0}) <= SumOver(f, S)
<1> DEFINE P(s) == {x \in s : f[x] > 0}
           F == {s \in SUBSET S : Cardinality(P(s)) <= SumOver(f, s)}
<1>1. \A s \in SUBSET S : /\ IsFiniteSet(s) /\ \A x \in s : f[x] \in Nat
                         /\ P(s) \in SUBSET S
  BY FS_Subset
<1>2. \A s \in SUBSET S : IsFiniteSet(P(s)) /\ Cardinality(P(s)) \in Nat
  BY <1>1, FS_Subset, FS_CardinalityType
<1>3. ASSUME NEW s \in SUBSET S, \A x \in s : s \ {x} \in F  PROVE s \in F
  <2>1. CASE s = {}
    <3>1. P(s) = {} /\ Cardinality({}) = 0
      BY <2>1, FS_EmptySet
    <3>2. SumOver(f, s) = 0
      BY <1>1, <2>1, SumFacts
    <3>3. QED  BY <3>1, <3>2
  <2>2. ASSUME NEW x \in s  PROVE s \in F
    <3>1. Cardinality(P(s \ {x})) <= SumOver(f, s \ {x}) /\ s \ {x} \in SUBSET S
      BY <1>3
    <3>2. SumOver(f, s) = f[x] + SumOver(f, s \ {x})
      BY <1>1, SumFacts
    <3>3. SumOver(f, s \ {x}) \in Nat
      BY <1>1, <3>1, SumFacts
    <3>4. f[x] \in Nat
      BY <1>1
    <3>5. CASE f[x] > 0
      <4>1. P(s \ {x}) = P(s) \ {x} /\ x \in P(s)
        BY <3>5
      <4>2. Cardinality(P(s) \ {x}) = Cardinality(P(s)) - 1
        <5> HIDE DEF P
        <5>1. QED  BY <1>2, <4>1, FS_RemoveElement
      <4>3. Cardinality(P(s)) \in Nat
        BY <1>2
      <4> HIDE DEF P
      <4>4. Cardinality(P(s)) - 1 <= SumOver(f, s \ {x})
        BY <3>1, <4>1, <4>2
      <4>5. \A a, b, c \in Nat : a - 1 <= b /\ c > 0 => a <= c + b
        OBVIOUS
      <4>6. Cardinality(P(s)) <= SumOver(f, s)
        BY <3>2, <3>3, <3>4, <3>5, <4>3, <4>4, <4>5
      <4>7. QED  BY <4>6 DEF P
    <3>6. CASE ~(f[x] > 0)
      <4>1. P(s \ {x}) = P(s) /\ f[x] = 0
        BY <3>4, <3>6
      <4> HIDE DEF P
      <4>2. Cardinality(P(s)) <= SumOver(f, s)
        BY <3>1, <3>2, <3>3, <4>1
      <4>3. QED  BY <4>2 DEF P
    <3>7. QED  BY <3>5, <3>6
  <2>3. QED  BY <2>1, <2>2
<1>4. SUBSET S \subseteq F
  <2>1. \A s \in SUBSET S : (\A x \in s : s \ {x} \in F) => s \in F
    BY <1>3
  <2> HIDE DEF F
  <2>2. QED  BY <2>1, SubsetInduction, Zenon
<1>5. QED  BY <1>4

-----------------------------------------------------------------------------
(* Folds over sequences *)

LEMMA MaxFacts ==
    ASSUME NEW n \in Nat, NEW s \in SUBSET (1..n), s # {}
    PROVE  Max(s) \in s /\ \A y \in s : Max(s) >= y
<1> DEFINE F == {t \in SUBSET (1..n) : t = {} \/ \E m \in t : \A y \in t : m >= y}
<1>1. IsFiniteSet(1..n)
  BY FS_Interval
<1>2. ASSUME NEW t \in SUBSET (1..n), \A x \in t : t \ {x} \in F  PROVE t \in F
  <2> SUFFICES ASSUME NEW x \in t  PROVE \E m \in t : \A y \in t : m >= y
    OBVIOUS
  <2>1. CASE t \ {x} = {}
    BY <2>1
  <2>2. CASE t \ {x} # {}
    <3>1. PICK m \in t \ {x} : \A y \in t \ {x} : m >= y
      BY <1>2, <2>2
    <3>2. CASE m >= x
      BY <3>1, <3>2
    <3>3. CASE x >= m
      <4>1. \A y \in t : x >= y
        BY <3>1, <3>3
      <4>2. QED  BY <4>1
    <3>4. QED  BY <3>2, <3>3
  <2>3. QED  BY <2>1, <2>2
<1>3. SUBSET (1..n) \subseteq F
  <2>1. \A t \in SUBSET (1..n) : (\A x \in t : t \ {x} \in F) => t \in F
    BY <1>2
  <2> HIDE DEF F
  <2>2. QED  BY <1>1, <2>1, SubsetInduction, Zenon
<1>4. QED  BY <1>3 DEF Max

\* The prefixes of a sequence, as sets of positions.
LEMMA MaxOfPrefix ==
    ASSUME NEW k \in Nat, k # 0
    PROVE  1..k # {} /\ Max(1..k) = k /\ (1..k) \ {Max(1..k)} = 1..(k - 1)
<1>1. 1..k \in SUBSET (1..k) /\ 1..k # {} /\ k \in 1..k
  OBVIOUS
<1>2. Max(1..k) \in 1..k /\ \A y \in 1..k : Max(1..k) >= y
  BY <1>1, MaxFacts
<1>3. Max(1..k) = k
  BY <1>1, <1>2
<1>4. QED  BY <1>1, <1>3

\* A step on positions and values in V, and what FoldLeft asks of its iter.
StepIn(step, n, V) == \A x \in 1..n, v \in V : step[<<x, v>>] \in V
Folds(it, n, base, step) ==
    \A s \in SUBSET (1..n) :
        it[s] = IF s = {} THEN base ELSE step[<<Max(s), it[s \ {Max(s)}]>>]

LEMMA FoldIterExists ==
    ASSUME NEW V, NEW base \in V, NEW n \in Nat, NEW step, StepIn(step, n, V)
    PROVE  \E it \in [SUBSET (1..n) -> V] : Folds(it, n, base, step)
<1> DEFINE pick == [s \in SUBSET (1..n) |-> Max(s)]
<1>1. IsFiniteSet(1..n)
  BY FS_Interval
<1>2. \A s \in SUBSET (1..n) : s # {} => pick[s] \in s
  BY MaxFacts
<1>3. PICK it \in [SUBSET (1..n) -> V] : Iterates(it, 1..n, base, pick, step)
  <2>1. \A x \in 1..n, v \in V : step[<<x, v>>] \in V
    BY DEF StepIn
  <2> HIDE DEF pick
  <2>2. QED  BY <1>1, <1>2, <2>1, IterExists
<1>4. QED  BY <1>3 DEF Iterates, Folds

\* Such an iter on the prefixes: the values of a fold, one step after another.
Steps(it, n, base, step, V) ==
    /\ it[{}] = base
    /\ \A s \in SUBSET (1..n) : s # {} /\ it[s \ {Max(s)}] \in V =>
          it[s] = step[<<Max(s), it[s \ {Max(s)}]>>]
Runs(p, n, base, step) ==
    p[0] = base /\ \A k \in 1..n : p[k] = step[<<k, p[k - 1]>>]

LEMMA FoldRuns ==
    ASSUME NEW V, NEW base \in V, NEW n \in Nat, NEW step, StepIn(step, n, V),
           NEW it, Steps(it, n, base, step, V)
    PROVE  \E p \in [0..n -> V] : Runs(p, n, base, step) /\ it[1..n] = p[n]
<1> DEFINE p == [k \in 0..n |-> it[1..k]]
           T == {k \in Nat : k <= n => p[k] \in V}
<1>1. p[0] = base
  <2>1. 1..0 = {} /\ 0 \in 0..n
    OBVIOUS
  <2>2. QED  BY <2>1 DEF Steps
<1>2. ASSUME NEW k \in 1..n, p[k - 1] \in V
      PROVE  p[k] = step[<<k, p[k - 1]>>] /\ p[k] \in V
  <2>1. k \in Nat /\ k # 0 /\ k - 1 \in 0..n /\ k \in 0..n /\ 1..k \in SUBSET (1..n)
    OBVIOUS
  <2>2. 1..k # {} /\ Max(1..k) = k /\ (1..k) \ {Max(1..k)} = 1..(k - 1)
    BY <2>1, MaxOfPrefix
  <2>3. it[1..(k - 1)] \in V
    BY <1>2, <2>1
  <2>4. it[1..k] = step[<<k, it[1..(k - 1)]>>]
    BY <2>1, <2>2, <2>3 DEF Steps
  <2>5. QED  BY <2>1, <2>3, <2>4 DEF StepIn
<1>3. it[1..n] = p[n]
  OBVIOUS
<1>4. p = [k \in 0..n |-> p[k]]
  OBVIOUS
<1> HIDE DEF p
<1>5. 0 \in T
  BY <1>1
<1>6. ASSUME NEW k \in Nat, k \in T  PROVE k + 1 \in T
  <2> SUFFICES ASSUME k + 1 <= n  PROVE p[k + 1] \in V
    OBVIOUS
  <2>1. k + 1 \in 1..n /\ (k + 1) - 1 = k /\ p[k] \in V
    BY <1>6
  <2>2. QED  BY <1>2, <2>1
<1>7. Nat \subseteq T
  <2> HIDE DEF T
  <2>1. QED  BY <1>5, <1>6, Induction
<1>8. \A k \in 0..n : p[k] \in V
  BY <1>7
<1>9. Runs(p, n, base, step)
  <2>1. \A k \in 1..n : k - 1 \in 0..n
    OBVIOUS
  <2>2. QED  BY <1>1, <1>2, <1>8, <2>1 DEF Runs
<1>10. p \in [0..n -> V]
  BY <1>4, <1>8
<1>11. QED  BY <1>3, <1>9, <1>10

\* Two folds that go on alike end alike.
Alike(p, r, n) ==
    p[0] = r[0] /\ \A k \in 1..n : p[k - 1] = r[k - 1] => p[k] = r[k]

LEMMA SameFold ==
    ASSUME NEW n \in Nat, NEW p, NEW r, Alike(p, r, n)
    PROVE  \A k \in 0..n : p[k] = r[k]
<1> DEFINE T == {k \in Nat : k <= n => p[k] = r[k]}
<1>1. 0 \in T
  BY DEF Alike
<1>2. ASSUME NEW k \in Nat, k \in T  PROVE k + 1 \in T
  <2> SUFFICES ASSUME k + 1 <= n  PROVE p[k + 1] = r[k + 1]
    OBVIOUS
  <2>1. k + 1 \in 1..n /\ (k + 1) - 1 = k /\ p[k] = r[k]
    BY <1>2
  <2>2. p[(k + 1) - 1] = r[(k + 1) - 1] => p[k + 1] = r[k + 1]
    BY <2>1 DEF Alike
  <2>3. QED  BY <2>1, <2>2
<1>3. Nat \subseteq T
  <2> HIDE DEF T
  <2>1. QED  BY <1>1, <1>2, Induction
<1>4. QED  BY <1>3

\* A set of sequences with the empty one and all that are one longer than one
\* of its members.
LEMMA SeqInduction ==
    ASSUME NEW V, NEW F, <<>> \in F,
           \A q \in Seq(V) : q \in F => \A x \in V : Append(q, x) \in F
    PROVE  Seq(V) \subseteq F
<1> DEFINE T == {n \in Nat : \A q \in Seq(V) : Len(q) = n => q \in F}
<1>1. 0 \in T
  <2>1. \A q \in Seq(V) : Len(q) = 0 => q = <<>>
    OBVIOUS
  <2>2. QED  BY <2>1
<1>2. ASSUME NEW n \in Nat, n \in T  PROVE n + 1 \in T
  <2> SUFFICES ASSUME NEW q \in Seq(V), Len(q) = n + 1  PROVE q \in F
    OBVIOUS
  <2> DEFINE r == [k \in 1..n |-> q[k]]
  <2>1. r \in Seq(V) /\ Len(r) = n /\ q[n + 1] \in V
    OBVIOUS
  <2>2. q = Append(r, q[n + 1])
    OBVIOUS
  <2>3. r \in F
    BY <1>2, <2>1
  <2> HIDE DEF r
  <2>4. QED  BY <2>1, <2>2, <2>3
<1>3. Nat \subseteq T
  <2> HIDE DEF T
  <2>1. QED  BY <1>1, <1>2, Induction
<1>4. QED  BY <1>3
=============================================================================

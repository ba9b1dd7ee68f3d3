-------------------------------- MODULE Sums --------------------------------
(***************************************************************************)
(* Sums over finite sets of rows.  SumFunctionOnSet adds up by recursion   *)
(* over a function that picks an element of each set; that the function    *)
(* exists, and the laws of sums, follow by induction over subsets, which   *)
(* is used in the form of a minimal counterexample (WFMin).  The other     *)
(* inductions, over counts and measures, are stated in the same way: with  *)
(* a set of the things that are to be shown.                               *)
(***************************************************************************)
EXTENDS Integers, FiniteSets, FiniteSetsExt, FiniteSetTheorems, TLAPS

\* A set of subsets with whatever has all its proper subsets there has them all.
LEMMA SubsetInduction ==
  ASSUME NEW S, IsFiniteSet(S), NEW Good,
         \A s \in SUBSET S : (\A t \in SUBSET s : t # s => t \in Good) => s \in Good
  PROVE  \A s \in SUBSET S : s \in Good
<1> SUFFICES ASSUME NEW b \in SUBSET S, b \notin Good PROVE FALSE
  OBVIOUS
<1> DEFINE Bad == (SUBSET S) \ Good
<1>1. IsWellFoundedOn(StrictSubsetOrdering(S), FiniteSubsetsOf(S))
  BY FS_StrictSubsetOrderingWellFounded
<1>2. Bad \subseteq FiniteSubsetsOf(S) /\ Bad # {}
  BY FS_Subset DEF FiniteSubsetsOf
<1> HIDE DEF Bad
<1>3. \E s \in Bad : \A t \in Bad : ~ (<<t, s>> \in StrictSubsetOrdering(S))
  BY <1>1, <1>2, WFMin
<1> USE DEF Bad
<1>4. PICK s \in Bad : \A t \in Bad : ~ (<<t, s>> \in StrictSubsetOrdering(S))
  BY <1>3
<1>5. ASSUME NEW t \in SUBSET s, t # s PROVE t \in Good
  <2>1. t \in SUBSET S /\ <<t, s>> \in StrictSubsetOrdering(S)
    BY <1>4, <1>5 DEF StrictSubsetOrdering
  <2>2. QED BY <1>4, <2>1
<1>6. QED BY <1>4, <1>5

LEMMA CountInduction ==
  ASSUME NEW Good, 0 \in Good, \A n \in Nat : n \in Good => n + 1 \in Good
  PROVE  Nat \subseteq Good
<1> SUFFICES ASSUME NEW m \in Nat, m \notin Good PROVE FALSE
  OBVIOUS
<1> DEFINE Bad == Nat \ Good
<1>1. Bad \subseteq Nat /\ Bad # {}
  OBVIOUS
<1>2. \E n \in Bad : \A k \in Bad : ~ (<<k, n>> \in OpToRel(<, Nat))
  BY <1>1, NatLessThanWellFounded, WFMin
<1>3. PICK n \in Bad : \A k \in Bad : ~ (<<k, n>> \in OpToRel(<, Nat))
  BY <1>2
<1>4. n \in Nat /\ n \notin Good /\ n # 0
  BY <1>3
<1>5. n - 1 \in Nat /\ n - 1 < n
  BY <1>4
<1>6. <<n - 1, n>> \in OpToRel(<, Nat)
  BY <1>4, <1>5 DEF OpToRel
<1>7. n - 1 \in Good
  BY <1>3, <1>5, <1>6
<1>8. (n - 1) + 1 \in Good
  BY <1>5, <1>7
<1>9. QED BY <1>4, <1>8

\* What holds of a thing when it holds of all that measure less holds of everything.
LEMMA MeasureInduction ==
  ASSUME NEW S, NEW m \in [S -> Nat], NEW Good,
         \A s \in S : (\A t \in S : m[t] < m[s] => t \in Good) => s \in Good
  PROVE  S \subseteq Good
<1> DEFINE Upto == {k \in Nat : \A s \in S : m[s] < k => s \in Good}
<1>1. \A s \in S : m[s] \in Nat
  OBVIOUS
<1>2. 0 \in Upto
  BY <1>1
<1>3. ASSUME NEW k \in Nat, k \in Upto PROVE k + 1 \in Upto
  <2>1. ASSUME NEW s \in S, m[s] < k + 1 PROVE s \in Good
    <3>1. \A t \in S : m[t] < m[s] => m[t] < k
      BY <1>1, <2>1
    <3>2. \A t \in S : m[t] < m[s] => t \in Good
      BY <1>3, <3>1
    <3>3. QED BY <3>2
  <2>2. QED BY <2>1
<1> HIDE DEF Upto
<1>4. Nat \subseteq Upto
  BY <1>2, <1>3, CountInduction
<1>5. ASSUME NEW s \in S PROVE s \in Good
  <2>1. m[s] + 1 \in Upto /\ m[s] < m[s] + 1
    BY <1>1, <1>4
  <2>2. QED BY <2>1 DEF Upto
<1>6. QED BY <1>5

\* Bounded naturals have a greatest one, which Max picks.
LEMMA MaxIs ==
  ASSUME NEW j \in Nat, NEW S \in SUBSET (0 .. j), S # {}
  PROVE  Max(S) \in S /\ \A y \in S : y <= Max(S)
<1> DEFINE Good == {n \in Nat : (\E y \in S : y >= j - n) => \E x \in S : \A y \in S : x >= y}
<1>1. 0 \in Good
  <2>1. ASSUME NEW y \in S, y >= j PROVE \A z \in S : y >= z
    BY <2>1
  <2>2. QED BY <2>1
<1>2. ASSUME NEW n \in Nat, n \in Good PROVE n + 1 \in Good
  <2> SUFFICES ASSUME NEW y \in S, y >= j - (n + 1)
               PROVE  \E x \in S : \A z \in S : x >= z
    OBVIOUS
  <2>1. CASE \E z \in S : z >= j - n
    BY <1>2, <2>1
  <2>2. CASE \A z \in S : z < j - n
    <3>1. \A z \in S : y >= z
      BY <2>2
    <3>2. QED BY <3>1
  <2>3. QED BY <2>1, <2>2
<1> HIDE DEF Good
<1>3. j \in Good
  BY <1>1, <1>2, CountInduction
<1>4. \E y \in S : y >= j - j
  <2>1. \A y \in S : y >= j - j
    OBVIOUS
  <2>2. QED BY <2>1
<1>5. \E x \in S : \A y \in S : x >= y
  BY <1>3, <1>4 DEF Good
<1>6. Max(S) \in S /\ \A y \in S : Max(S) >= y
  BY <1>5, Zenon DEF Max
<1>7. QED BY <1>6

-----------------------------------------------------------------------------
(* The recursive function of the library computes the sum it says *)

\* The element a sum takes out first.
Picked(s) == CHOOSE x \in s : TRUE

LEMMA PickedIn == ASSUME NEW s, s # {} PROVE Picked(s) \in s
BY DEF Picked

\* The function SumFunctionOnSet is defined by.
SumTable(f, S) ==
  CHOOSE g : g = [s \in SUBSET S |->
                    IF s = {} THEN 0
                    ELSE f[CHOOSE x \in s : TRUE] + g[s \ {CHOOSE x \in s : TRUE}]]

LEMMA SumIsInTable ==
  ASSUME NEW f, NEW S
  PROVE  SumFunctionOnSet(f, S) = SumTable(f, S)[S]
BY DEF SumFunctionOnSet, FoldFunctionOnSet, MapThenFoldSet, SumTable

\* The value of the function at s, from those at smaller sets.
SumAt(f, g, s) == IF s = {} THEN 0 ELSE f[Picked(s)] + g[s \ {Picked(s)}]

LEMMA Smaller ==
  ASSUME NEW s, IsFiniteSet(s), s # {}
  PROVE  /\ Picked(s) \in s /\ IsFiniteSet(s \ {Picked(s)})
         /\ Cardinality(s) \in Nat /\ Cardinality(s \ {Picked(s)}) \in Nat
         /\ Cardinality(s) = Cardinality(s \ {Picked(s)}) + 1
<1>1. Picked(s) \in s
  BY PickedIn
<1>2. /\ IsFiniteSet(s \ {Picked(s)})
      /\ Cardinality(s \ {Picked(s)}) = Cardinality(s) - 1
  BY <1>1, FS_RemoveElement
<1>3. Cardinality(s) \in Nat /\ Cardinality(s \ {Picked(s)}) \in Nat
  BY <1>2, FS_CardinalityType
<1>4. QED BY <1>1, <1>2, <1>3

IsSumTable(f, S, g) == g = [s \in SUBSET S |-> SumAt(f, g, s)]

LEMMA SumTableExists ==
  ASSUME NEW S, IsFiniteSet(S), NEW f
  PROVE  \E g : IsSumTable(f, S, g)
<1> DEFINE Solves(g, n) == \A s \in SUBSET S : Cardinality(s) <= n => g[s] = SumAt(f, g, s)
           Good == {n \in Nat : \E g : Solves(g, n)}
<1>1. \A s \in SUBSET S : IsFiniteSet(s) /\ Cardinality(s) \in Nat
  BY FS_Subset, FS_CardinalityType
<1>2. 0 \in Good
  <2> DEFINE g == [s \in SUBSET S |-> 0]
  <2>1. \A s \in SUBSET S : Cardinality(s) <= 0 => s = {}
    BY <1>1, FS_EmptySet
  <2>2. Solves(g, 0)
    BY <2>1 DEF SumAt
  <2>3. QED BY <2>2
<1>3. ASSUME NEW n \in Nat, n \in Good
      PROVE  n + 1 \in Good
  <2>1. PICK g : Solves(g, n)
    BY <1>3
  <2> DEFINE h == [s \in SUBSET S |-> IF Cardinality(s) <= n THEN g[s] ELSE SumAt(f, g, s)]
  <2>2. ASSUME NEW s \in SUBSET S, Cardinality(s) <= n + 1
        PROVE  h[s] = SumAt(f, h, s)
    <3>1. h[s] = SumAt(f, g, s)
      BY <2>1
    <3>2. CASE s = {}
      BY <3>1, <3>2 DEF SumAt
    <3>3. CASE s # {}
      <4>1. s \ {Picked(s)} \in SUBSET S /\ Cardinality(s \ {Picked(s)}) <= n
        BY <1>1, <2>2, <3>3, Smaller
      <4>2. h[s \ {Picked(s)}] = g[s \ {Picked(s)}]
        BY <4>1
      <4> HIDE DEF h
      <4>3. QED BY <3>1, <3>3, <4>2 DEF SumAt
    <3>4. QED BY <3>2, <3>3
  <2> HIDE DEF h
  <2>3. Solves(h, n + 1)
    BY <2>2
  <2>4. QED BY <2>3
<1>4. Cardinality(S) \in Good
  <2> HIDE DEF Good
  <2>1. QED BY <1>1, <1>2, <1>3, CountInduction
<1>5. PICK g : Solves(g, Cardinality(S))
  BY <1>4
<1> DEFINE h == [s \in SUBSET S |-> g[s]]
<1>6. ASSUME NEW s \in SUBSET S PROVE h[s] = SumAt(f, h, s)
  <2>1. g[s] = SumAt(f, g, s)
    BY <1>5, FS_Subset
  <2>2. CASE s = {}
    BY <2>1, <2>2 DEF SumAt
  <2>3. CASE s # {}
    BY <2>1, <2>3, PickedIn DEF SumAt
  <2>4. QED BY <2>2, <2>3
<1>7. IsSumTable(f, S, h)
  <2>1. h = [s \in SUBSET S |-> h[s]]
    OBVIOUS
  <2> HIDE DEF h
  <2>2. QED BY <1>6, <2>1 DEF IsSumTable
<1>8. QED BY <1>7, Zenon

LEMMA TableEquation ==
  ASSUME NEW S, IsFiniteSet(S), NEW f, NEW s \in SUBSET S
  PROVE  SumTable(f, S)[s] = SumAt(f, SumTable(f, S), s)
<1>1. PICK h : IsSumTable(f, S, h)
  BY SumTableExists
<1>2. h = [t \in SUBSET S |->
             IF t = {} THEN 0
             ELSE f[CHOOSE x \in t : TRUE] + h[t \ {CHOOSE x \in t : TRUE}]]
  BY <1>1 DEF IsSumTable, SumAt, Picked
<1>3. SumTable(f, S) = [t \in SUBSET S |->
             IF t = {} THEN 0
             ELSE f[CHOOSE x \in t : TRUE] + SumTable(f, S)[t \ {CHOOSE x \in t : TRUE}]]
  BY <1>2, Zenon DEF SumTable
<1>4. SumTable(f, S) = [t \in SUBSET S |-> SumAt(f, SumTable(f, S), t)]
  BY <1>3, Zenon DEF SumAt, Picked
<1>5. QED BY <1>4

LEMMA TablesAgree ==
  ASSUME NEW S, IsFiniteSet(S), NEW f, NEW T \in SUBSET S
  PROVE  SumTable(f, S)[T] = SumFunctionOnSet(f, T)
<1> DEFINE Good == {s \in SUBSET T : SumTable(f, S)[s] = SumTable(f, T)[s]}
<1>1. IsFiniteSet(T)
  BY FS_Subset
<1>2. ASSUME NEW s \in SUBSET T, \A t \in SUBSET s : t # s => t \in Good
      PROVE  s \in Good
  <2>1. /\ SumTable(f, S)[s] = SumAt(f, SumTable(f, S), s)
        /\ SumTable(f, T)[s] = SumAt(f, SumTable(f, T), s)
    BY <1>1, TableEquation
  <2>2. CASE s = {}
    BY <2>1, <2>2 DEF SumAt
  <2>3. CASE s # {}
    <3>1. s \ {Picked(s)} \in Good
      BY <1>2, <2>3, PickedIn
    <3>2. QED BY <2>1, <3>1 DEF SumAt
  <2>4. QED BY <2>2, <2>3
<1>3. T \in Good
  <2> HIDE DEF Good
  <2>1. QED BY <1>1, <1>2, SubsetInduction
<1>4. QED BY <1>3, SumIsInTable

-----------------------------------------------------------------------------
(* Laws of sums *)

LEMMA SumOfNone ==
  ASSUME NEW f
  PROVE  SumFunctionOnSet(f, {}) = 0
BY TableEquation, SumIsInTable, FS_EmptySet DEF SumAt

LEMMA SumPicks ==
  ASSUME NEW S, IsFiniteSet(S), S # {}, NEW f
  PROVE  SumFunctionOnSet(f, S) = f[Picked(S)] + SumFunctionOnSet(f, S \ {Picked(S)})
<1>1. SumTable(f, S)[S] = SumAt(f, SumTable(f, S), S)
  BY TableEquation
<1>2. SumTable(f, S)[S \ {Picked(S)}] = SumFunctionOnSet(f, S \ {Picked(S)})
  BY TablesAgree
<1>3. QED BY <1>1, <1>2, SumIsInTable DEF SumAt

\* A sum of integers is one.
LEMMA SumType ==
  ASSUME NEW S, IsFiniteSet(S), NEW f, \A x \in S : f[x] \in Int
  PROVE  SumFunctionOnSet(f, S) \in Int
<1> DEFINE Good == {s \in SUBSET S : SumFunctionOnSet(f, s) \in Int}
<1>1. ASSUME NEW s \in SUBSET S, \A t \in SUBSET s : t # s => t \in Good
      PROVE  s \in Good
  <2>1. CASE s = {}
    BY <2>1, SumOfNone
  <2>2. CASE s # {}
    <3>1. Picked(s) \in s /\ s \ {Picked(s)} \in Good
      BY <1>1, <2>2, PickedIn
    <3>2. IsFiniteSet(s)
      BY FS_Subset
    <3>3. SumFunctionOnSet(f, s) = f[Picked(s)] + SumFunctionOnSet(f, s \ {Picked(s)})
      BY <2>2, <3>2, SumPicks
    <3>4. f[Picked(s)] \in Int
      BY <3>1
    <3>5. QED BY <3>1, <3>3, <3>4
  <2>3. QED BY <2>1, <2>2
<1>2. S \in Good
  <2> HIDE DEF Good
  <2>1. QED BY <1>1, SubsetInduction
<1>3. QED BY <1>2

\* A sum over rows grows by the row that is added, as the sums of balances.py do when
\* a payment or an adjustment is inserted.
THEOREM SumAdds ==
  ASSUME NEW S, IsFiniteSet(S), NEW f, \A x \in S : f[x] \in Int,
         NEW T \in SUBSET S, NEW y \in S \ T
  PROVE  SumFunctionOnSet(f, T \cup {y}) = SumFunctionOnSet(f, T) + f[y]
<1> DEFINE Sum(s) == SumFunctionOnSet(f, s)
           Good == {s \in SUBSET S : \A z \in S \ s : Sum(s \cup {z}) = Sum(s) + f[z]}
<1>1. \A s \in SUBSET S : IsFiniteSet(s) /\ Sum(s) \in Int
  BY FS_Subset, SumType
<1>2. \A s \in SUBSET S : s # {} => Picked(s) \in s /\ Sum(s) = f[Picked(s)] + Sum(s \ {Picked(s)})
  BY <1>1, SumPicks, PickedIn
<1> HIDE DEF Sum
<1>3. ASSUME NEW s \in SUBSET S, \A t \in SUBSET s : t # s => t \in Good, NEW z \in S \ s
      PROVE  Sum(s \cup {z}) = Sum(s) + f[z]
  <2>1. s \cup {z} \in SUBSET S /\ s \cup {z} # {}
    OBVIOUS
  <2>2. PICK x \in s \cup {z} : Sum(s \cup {z}) = f[x] + Sum((s \cup {z}) \ {x})
    BY <1>2, <2>1
  <2>3. CASE x = z
    <3>1. (s \cup {z}) \ {x} = s
      BY <2>3
    <3>2. Sum(s \cup {z}) = f[z] + Sum(s)
      BY <2>2, <2>3, <3>1
    <3>3. Sum(s) \in Int /\ f[z] \in Int
      BY <1>1
    <3>4. QED BY <3>2, <3>3
  <2>4. CASE x # z
    <3>1. x \in s /\ s \ {x} \in Good
      BY <1>3, <2>2, <2>4
    <3>2. (s \cup {z}) \ {x} = (s \ {x}) \cup {z} /\ (s \ {x}) \cup {x} = s
      BY <2>4, <3>1
    <3>3. Sum((s \ {x}) \cup {z}) = Sum(s \ {x}) + f[z]
      BY <3>1
    <3>4. Sum(s) = Sum(s \ {x}) + f[x]
      <4>1. x \in S \ (s \ {x})
        BY <3>1
      <4>2. Sum((s \ {x}) \cup {x}) = Sum(s \ {x}) + f[x]
        BY <3>1, <4>1
      <4>3. QED BY <3>2, <4>2
    <3>5. Sum(s \ {x}) \in Int /\ f[x] \in Int /\ f[z] \in Int
      BY <1>1, <3>1
    <3>6. Sum(s \cup {z}) = f[x] + (Sum(s \ {x}) + f[z])
      BY <2>2, <3>2, <3>3
    <3>7. QED BY <3>4, <3>5, <3>6
  <2>5. QED BY <2>3, <2>4
<1>4. T \in Good
  <2>1. \A s \in SUBSET S : (\A t \in SUBSET s : t # s => t \in Good) => s \in Good
    BY <1>3
  <2> HIDE DEF Good
  <2>2. QED BY <2>1, SubsetInduction
<1>5. QED BY <1>4 DEF Sum

\* Equal summands, equal sums.
LEMMA SumsEqual ==
  ASSUME NEW S, IsFiniteSet(S), NEW f, NEW g, \A x \in S : f[x] = g[x]
  PROVE  SumFunctionOnSet(f, S) = SumFunctionOnSet(g, S)
<1> DEFINE Good == {s \in SUBSET S : SumFunctionOnSet(f, s) = SumFunctionOnSet(g, s)}
<1>1. ASSUME NEW s \in SUBSET S, \A t \in SUBSET s : t # s => t \in Good
      PROVE  s \in Good
  <2>1. CASE s = {}
    BY <2>1, SumOfNone
  <2>2. CASE s # {}
    <3>1. Picked(s) \in s /\ s \ {Picked(s)} \in Good
      BY <1>1, <2>2, PickedIn
    <3>2. IsFiniteSet(s)
      BY FS_Subset
    <3>3. /\ SumFunctionOnSet(f, s) = f[Picked(s)] + SumFunctionOnSet(f, s \ {Picked(s)})
          /\ SumFunctionOnSet(g, s) = g[Picked(s)] + SumFunctionOnSet(g, s \ {Picked(s)})
      BY <2>2, <3>2, SumPicks
    <3>4. QED BY <3>1, <3>3
  <2>3. QED BY <2>1, <2>2
<1>2. S \in Good
  <2> HIDE DEF Good
  <2>1. QED BY <1>1, SubsetInduction
<1>3. QED BY <1>2

\* Sums of counts are counts.
LEMMA SumNat ==
  ASSUME NEW S, IsFiniteSet(S), NEW f, \A x \in S : f[x] \in Nat
  PROVE  SumFunctionOnSet(f, S) \in Nat
<1> DEFINE Good == {s \in SUBSET S : SumFunctionOnSet(f, s) \in Nat}
<1>1. ASSUME NEW s \in SUBSET S, \A t \in SUBSET s : t # s => t \in Good
      PROVE  s \in Good
  <2>1. CASE s = {}
    BY <2>1, SumOfNone
  <2>2. CASE s # {}
    <3>1. Picked(s) \in s /\ s \ {Picked(s)} \in Good
      BY <1>1, <2>2, PickedIn
    <3>2. IsFiniteSet(s)
      BY FS_Subset
    <3>3. SumFunctionOnSet(f, s) = f[Picked(s)] + SumFunctionOnSet(f, s \ {Picked(s)})
      BY <2>2, <3>2, SumPicks
    <3>4. f[Picked(s)] \in Nat
      BY <3>1
    <3>5. QED BY <3>1, <3>3, <3>4
  <2>3. QED BY <2>1, <2>2
<1>2. S \in Good
  <2> HIDE DEF Good
  <2>1. QED BY <1>1, SubsetInduction
<1>3. QED BY <1>2

LEMMA FiniteImage ==
  ASSUME NEW S, IsFiniteSet(S), NEW h
  PROVE  /\ IsFiniteSet({h[x] : x \in S})
         /\ (\A x, y \in S : h[x] = h[y] => x = y)
              => Cardinality({h[x] : x \in S}) = Cardinality(S)
<1> DEFINE T == {h[x] : x \in S}
           f == [x \in S |-> h[x]]
<1>1. f \in Surjection(S, T)
  BY DEF Surjection
<1>2. (\A x, y \in S : h[x] = h[y] => x = y) => f \in Injection(S, T)
  BY DEF Injection, IsInjective
<1> HIDE DEF T, f
<1>3. IsFiniteSet(T) /\ (Cardinality(T) = Cardinality(S) <=> f \in Injection(S, T))
  BY <1>1, FS_Surjection
<1>4. QED BY <1>2, <1>3 DEF T

\* Rows may be added up under other names, if no two get the same.
LEMMA SumRenamed ==
  ASSUME NEW S, IsFiniteSet(S), NEW f, NEW g, NEW h,
         \A x \in S : f[x] \in Int /\ g[h[x]] = f[x],
         \A x, y \in S : h[x] = h[y] => x = y
  PROVE  SumFunctionOnSet(g, {h[x] : x \in S}) = SumFunctionOnSet(f, S)
<1> DEFINE Names(s) == {h[x] : x \in s}
           Good == {s \in SUBSET S : SumFunctionOnSet(g, Names(s)) = SumFunctionOnSet(f, s)}
<1>1. \A s \in SUBSET S : IsFiniteSet(s) /\ IsFiniteSet(Names(s))
  BY FS_Subset, FiniteImage
<1>2. ASSUME NEW s \in SUBSET S, \A t \in SUBSET s : t # s => t \in Good
      PROVE  s \in Good
  <2>1. CASE s = {}
    <3>1. Names(s) = {}
      BY <2>1
    <3>2. QED BY <2>1, <3>1, SumOfNone
  <2>2. CASE s # {}
    <3> DEFINE y == Picked(s)
               t == s \ {y}
    <3>1. y \in s /\ t \in SUBSET s /\ t # s
      BY <2>2, PickedIn
    <3>2. SumFunctionOnSet(g, Names(t)) = SumFunctionOnSet(f, t)
      BY <1>2, <3>1
    <3>3. SumFunctionOnSet(f, s) = f[y] + SumFunctionOnSet(f, t)
      BY <1>1, <2>2, SumPicks
    <3> DEFINE N == Names(s)
               M == Names(t)
    <3>4. /\ IsFiniteSet(N) /\ M \in SUBSET N /\ h[y] \in N \ M /\ N = M \cup {h[y]}
          /\ \A n \in N : g[n] \in Int
      <4>1. IsFiniteSet(N)
        BY <1>1
      <4>2. \A x \in s : g[h[x]] \in Int
        OBVIOUS
      <4>3. h[y] \in N /\ h[y] \notin M
        BY <3>1
      <4>4. QED BY <3>1, <4>1, <4>2, <4>3
    <3>5. SumFunctionOnSet(f, t) \in Int /\ f[y] \in Int /\ g[h[y]] = f[y]
      BY <1>1, <3>1, SumType
    <3> HIDE DEF y, t, N, M
    <3>6. SumFunctionOnSet(g, N) = SumFunctionOnSet(g, M) + g[h[y]]
      BY <3>4, SumAdds
    <3>7. SumFunctionOnSet(g, N) = SumFunctionOnSet(f, s)
      BY <3>2, <3>3, <3>5, <3>6 DEF M
    <3>8. QED BY <3>7 DEF N
  <2>3. QED BY <2>1, <2>2
<1>3. S \in Good
  <2> HIDE DEF Good
  <2>1. QED BY <1>2, SubsetInduction
<1>4. QED BY <1>3

\* What two sets without a common row add up to.
LEMMA SumUnion ==
  ASSUME NEW S, IsFiniteSet(S), NEW f, \A x \in S : f[x] \in Int,
         NEW T \in SUBSET S, NEW U \in SUBSET S, T \cap U = {}
  PROVE  SumFunctionOnSet(f, T \cup U) = SumFunctionOnSet(f, T) + SumFunctionOnSet(f, U)
<1> DEFINE Sum(s) == SumFunctionOnSet(f, s)
           Good == {s \in SUBSET U : Sum(T \cup s) = Sum(T) + Sum(s)}
<1>1. \A s \in SUBSET S : IsFiniteSet(s) /\ Sum(s) \in Int
  BY FS_Subset, SumType
<1>2. ASSUME NEW s \in SUBSET U, \A t \in SUBSET s : t # s => t \in Good
      PROVE  s \in Good
  <2>1. CASE s = {}
    <3>1. T \cup s = T /\ Sum(s) = 0 /\ Sum(T) \in Int
      BY <1>1, <2>1, SumOfNone
    <3>2. QED BY <3>1
  <2>2. CASE s # {}
    <3> DEFINE y == Picked(s)
               t == s \ {y}
               V == T \cup t
    <3>1. /\ y \in s /\ t \in SUBSET s /\ t # s /\ t \in SUBSET S
          /\ V \in SUBSET S /\ y \in S \ V /\ T \cup s = V \cup {y}
          /\ t \in SUBSET S /\ y \in S \ t /\ s = t \cup {y}
      BY <2>2, PickedIn
    <3>2. Sum(V) = Sum(T) + Sum(t)
      BY <1>2, <3>1
    <3>3. f[y] \in Int /\ Sum(T) \in Int /\ Sum(t) \in Int
      BY <1>1, <3>1
    <3> HIDE DEF y, t, V
    <3>4. SumFunctionOnSet(f, V \cup {y}) = SumFunctionOnSet(f, V) + f[y]
      BY <3>1, SumAdds
    <3>5. SumFunctionOnSet(f, t \cup {y}) = SumFunctionOnSet(f, t) + f[y]
      BY <3>1, SumAdds
    <3>6. Sum(T \cup s) = Sum(V) + f[y] /\ Sum(s) = Sum(t) + f[y]
      BY <3>1, <3>4, <3>5
    <3> HIDE DEF Sum
    <3>7. Sum(T \cup s) = Sum(T) + Sum(s)
      BY <3>2, <3>3, <3>6
    <3>8. QED BY <3>7
  <2>3. QED BY <2>1, <2>2
<1>3. U \in Good
  <2>1. IsFiniteSet(U)
    BY <1>1
  <2> HIDE DEF Good
  <2>2. QED BY <1>2, <2>1, SubsetInduction
<1>4. QED BY <1>3

LEMMA SumNegated ==
  ASSUME NEW S, IsFiniteSet(S), NEW f, NEW g, \A x \in S : f[x] \in Int /\ g[x] = -f[x]
  PROVE  SumFunctionOnSet(g, S) = -SumFunctionOnSet(f, S)
<1> DEFINE Good == {s \in SUBSET S : SumFunctionOnSet(g, s) = -SumFunctionOnSet(f, s)}
<1>1. ASSUME NEW s \in SUBSET S, \A t \in SUBSET s : t # s => t \in Good
      PROVE  s \in Good
  <2>1. CASE s = {}
    BY <2>1, SumOfNone
  <2>2. CASE s # {}
    <3>1. IsFiniteSet(s) /\ Picked(s) \in s
      BY <2>2, FS_Subset, PickedIn
    <3>2. /\ SumFunctionOnSet(f, s) = f[Picked(s)] + SumFunctionOnSet(f, s \ {Picked(s)})
          /\ SumFunctionOnSet(g, s) = g[Picked(s)] + SumFunctionOnSet(g, s \ {Picked(s)})
      BY <2>2, <3>1, SumPicks
    <3>3. SumFunctionOnSet(g, s \ {Picked(s)}) = -SumFunctionOnSet(f, s \ {Picked(s)})
      BY <1>1, <3>1
    <3>4. SumFunctionOnSet(f, s \ {Picked(s)}) \in Int
      <4>1. IsFiniteSet(s \ {Picked(s)}) /\ \A x \in s \ {Picked(s)} : f[x] \in Int
        BY <3>1, FS_Subset
      <4>2. QED BY <4>1, SumType
    <3>5. f[Picked(s)] \in Int /\ g[Picked(s)] = -f[Picked(s)]
      BY <3>1
    <3>6. SumFunctionOnSet(g, s) = -SumFunctionOnSet(f, s)
      BY <3>2, <3>3, <3>4, <3>5
    <3>7. QED BY <3>6
  <2>3. QED BY <2>1, <2>2
<1>2. S \in Good
  <2> HIDE DEF Good
  <2>1. QED BY <1>1, SubsetInduction
<1>3. QED BY <1>2

=============================================================================

----------------------------- MODULE FiniteFolds -----------------------------
(***************************************************************************)
(* Sums over finite sets, as SumFunctionOnSet of the module Functions      *)
(* computes them, folds over sequences (FoldLeft) and concatenations of    *)
(* sequences (FlattenSeq).  The facts are stated with functions and sets   *)
(* in the place of operators, so that they can be cited for any of them.   *)
(***************************************************************************)
EXTENDS Integers, Functions, FiniteSetsExt, FiniteSetTheorems, SequencesExt, SequenceTheorems, TLAPS

\* Induction over the natural numbers, for the set of those that have a property: if it
\* lacked a number m, then n |-> n + 1 would map those of its elements that are below m
\* into those without 0, of which there are fewer.
LEMMA SetInduction ==
  ASSUME NEW T \in SUBSET Nat, 0 \in T, \A n \in T : n + 1 \in T
  PROVE  T = Nat
<1> SUFFICES ASSUME NEW m \in Nat, m \notin T PROVE FALSE
  OBVIOUS
<1> DEFINE A == T \cap (0..m)
           B == A \ {0}
           f == [n \in A |-> n + 1]
<1>1. IsFiniteSet(0..m)
  BY FS_Interval
<1>2. IsFiniteSet(A) /\ IsFiniteSet(B)
  BY <1>1, FS_Subset
<1>3. 0 \in A
  OBVIOUS
<1>4. Cardinality(B) < Cardinality(A)
  <2> HIDE DEF A
  <2>1. Cardinality(B) = Cardinality(A) - 1 /\ Cardinality(A) \in Nat
    BY <1>2, <1>3, FS_RemoveElement, FS_CardinalityType
  <2> QED
    BY <2>1
<1>5. f \in [A -> B]
  OBVIOUS
<1>6. \E x, y \in A : x # y /\ f[x] = f[y]
  <2> HIDE DEF f, A, B
  <2> QED
    BY <1>2, <1>4, <1>5, FS_PigeonHole
<1> QED
  BY <1>6

-----------------------------------------------------------------------------
Pick(s) == CHOOSE x \in s : TRUE

\* One step of a sum, given the sums over smaller sets.
Step(f, g, s) == IF s = {} THEN 0 ELSE f[Pick(s)] + g[s \ {Pick(s)}]

\* The sets that have at most n elements.
UpTo(S, n) == {s \in SUBSET S : Cardinality(s) <= n}

SumsOf(f, g, D) == g = [s \in D |-> Step(f, g, s)]

LEMMA PickIn == ASSUME NEW s, s # {} PROVE Pick(s) \in s
BY DEF Pick

\* The table of the sums over all subsets exists.
LEMMA SumsExist ==
  ASSUME NEW f, NEW S, IsFiniteSet(S)
  PROVE  \E g : SumsOf(f, g, SUBSET S)
<1> DEFINE T == {n \in Nat : \E g : SumsOf(f, g, UpTo(S, n))}
<1>0. \A s \in SUBSET S : IsFiniteSet(s) /\ Cardinality(s) \in Nat
  BY FS_Subset, FS_CardinalityType
<1>1. 0 \in T
  <2> DEFINE g == [s \in UpTo(S, 0) |-> 0]
  <2>1. \A s \in UpTo(S, 0) : s = {}
    BY <1>0, FS_EmptySet DEF UpTo
  <2>2. SumsOf(f, g, UpTo(S, 0))
    BY <2>1 DEF SumsOf, Step
  <2> HIDE DEF g
  <2> QED
    BY <2>2
<1>2. ASSUME NEW n \in T
      PROVE  n + 1 \in T
  <2>1. n \in Nat
    OBVIOUS
  <2>2. PICK g : SumsOf(f, g, UpTo(S, n))
    OBVIOUS
  <2> DEFINE h == [s \in UpTo(S, n + 1) |-> Step(f, g, s)]
  <2>3. \A s \in UpTo(S, n + 1) : s # {} => s \ {Pick(s)} \in UpTo(S, n)
    <3> TAKE s \in UpTo(S, n + 1)
    <3> HAVE s # {}
    <3>1. s \in SUBSET S /\ Pick(s) \in s
      BY PickIn DEF UpTo
    <3>2. Cardinality(s \ {Pick(s)}) = Cardinality(s) - 1 /\ Cardinality(s) \in Nat
      BY <1>0, <3>1, FS_RemoveElement
    <3>3. Cardinality(s) <= n + 1
      BY DEF UpTo
    <3> QED
      BY <2>1, <3>1, <3>2, <3>3 DEF UpTo
  <2>4. \A s \in UpTo(S, n) : s \in UpTo(S, n + 1) /\ h[s] = g[s]
    <3> TAKE s \in UpTo(S, n)
    <3>1. s \in UpTo(S, n + 1)
      BY <1>0, <2>1 DEF UpTo
    <3>2. g[s] = Step(f, g, s)
      BY <2>2 DEF SumsOf
    <3> QED
      BY <3>1, <3>2
  <2>5. \A s \in UpTo(S, n + 1) : Step(f, g, s) = Step(f, h, s)
    BY <2>3, <2>4 DEF Step
  <2>6. SumsOf(f, h, UpTo(S, n + 1))
    BY <2>5 DEF SumsOf
  <2> HIDE DEF h
  <2> QED
    BY <2>1, <2>6
<1>3. T = Nat
  <2> HIDE DEF T
  <2>1. T \in SUBSET Nat
    BY DEF T
  <2> QED
    BY <1>1, <1>2, <2>1, SetInduction
<1>4. Cardinality(S) \in Nat
  BY FS_CardinalityType
<1>5. UpTo(S, Cardinality(S)) = SUBSET S
  <2>1. \A s \in SUBSET S : Cardinality(s) <= Cardinality(S)
    BY FS_Subset
  <2> QED
    BY <2>1 DEF UpTo
<1>6. PICK g : SumsOf(f, g, UpTo(S, Cardinality(S)))
  BY <1>3, <1>4
<1> QED
  BY <1>5, <1>6

\* Two tables agree on the sets they share.
LEMMA SumsAgree ==
  ASSUME NEW f, NEW S, NEW R, IsFiniteSet(S), NEW g, NEW h, 
         SumsOf(f, g, SUBSET S), SumsOf(f, h, SUBSET R), NEW s \in SUBSET S, s \in SUBSET R
  PROVE  g[s] = h[s]
<1> DEFINE T == {n \in Nat : \A u \in (SUBSET S) \cap (SUBSET R) : Cardinality(u) = n => g[u] = h[u]}
<1>0. \A u \in SUBSET S : IsFiniteSet(u) /\ Cardinality(u) \in Nat
  BY FS_Subset, FS_CardinalityType
<1>1. \A u \in (SUBSET S) \cap (SUBSET R) : g[u] = Step(f, g, u) /\ h[u] = Step(f, h, u)
  BY DEF SumsOf
<1>2. 0 \in T
  BY <1>0, <1>1, FS_EmptySet DEF Step
<1>3. ASSUME NEW n \in T
      PROVE  n + 1 \in T
  <2>1. SUFFICES ASSUME NEW u \in (SUBSET S) \cap (SUBSET R), Cardinality(u) = n + 1
                 PROVE  g[u] = h[u]
    OBVIOUS
  <2>2. u # {} /\ n \in Nat
    <3>1. n \in Nat /\ Cardinality({}) = 0
      BY FS_EmptySet
    <3> QED
      BY <2>1, <3>1
  <2>3. Pick(u) \in u
    BY <2>2, PickIn
  <2>4. Cardinality(u \ {Pick(u)}) = n
    <3>1. IsFiniteSet(u)
      BY <1>0
    <3>2. Cardinality(u \ {Pick(u)}) = Cardinality(u) - 1
      BY <2>3, <3>1, FS_RemoveElement
    <3> QED
      BY <2>1, <2>2, <3>2
  <2>5. g[u \ {Pick(u)}] = h[u \ {Pick(u)}]
    BY <2>4
  <2> QED
    BY <1>1, <2>2, <2>5 DEF Step
<1>4. T = Nat
  <2> HIDE DEF T
  <2>1. T \in SUBSET Nat
    BY DEF T
  <2> QED
    BY <1>2, <1>3, <2>1, SetInduction
<1>5. s \in (SUBSET S) \cap (SUBSET R) /\ Cardinality(s) \in T
  BY <1>0, <1>4
<1> QED
  BY <1>5

\* What SumFunctionOnSet returns is in the table.
LEMMA SumInTable ==
  ASSUME NEW f, NEW S, IsFiniteSet(S), NEW g, SumsOf(f, g, SUBSET S)
  PROVE  SumFunctionOnSet(f, S) = g[S]
<1> DEFINE iter == CHOOSE h : SumsOf(f, h, SUBSET S)
<1>1. SumsOf(f, iter, SUBSET S)
  OBVIOUS
<1>2. SumFunctionOnSet(f, S) = iter[S]
  BY DEF SumFunctionOnSet, FoldFunctionOnSet, MapThenFoldSet, SumsOf, Step, Pick
<1> HIDE DEF iter
<1> QED
  BY <1>1, <1>2, SumsAgree

LEMMA SumEmpty == ASSUME NEW f PROVE SumFunctionOnSet(f, {}) = 0
<1>1. PICK g : SumsOf(f, g, SUBSET {})
  BY SumsExist, FS_EmptySet
<1>2. SumFunctionOnSet(f, {}) = g[{}]
  BY <1>1, SumInTable, FS_EmptySet
<1>3. g[{}] = Step(f, g, {})
  BY <1>1 DEF SumsOf
<1> QED
  BY <1>2, <1>3 DEF Step

LEMMA SumPick ==
  ASSUME NEW f, NEW S, IsFiniteSet(S), S # {}
  PROVE  SumFunctionOnSet(f, S) = f[Pick(S)] + SumFunctionOnSet(f, S \ {Pick(S)})
<1> DEFINE R == S \ {Pick(S)}
<1>1. PICK g : SumsOf(f, g, SUBSET S)
  BY SumsExist
<1>2. IsFiniteSet(R) /\ R \in SUBSET S
  BY FS_Subset
<1>3. PICK h : SumsOf(f, h, SUBSET R)
  BY <1>2, SumsExist
<1>4. SumFunctionOnSet(f, S) = g[S]
  BY <1>1, SumInTable
<1>5. SumFunctionOnSet(f, R) = h[R]
  <2> HIDE DEF R
  <2> QED
    BY <1>2, <1>3, SumInTable
<1>6. h[R] = g[R]
  <2> HIDE DEF R
  <2> QED
    BY <1>1, <1>2, <1>3, SumsAgree
<1>7. g[S] = f[Pick(S)] + g[R]
  BY <1>1 DEF SumsOf, Step
<1> QED
  BY <1>4, <1>5, <1>6, <1>7

-----------------------------------------------------------------------------
\* Sums of natural numbers.

LEMMA SumType ==
  ASSUME NEW f, NEW S, IsFiniteSet(S), \A x \in S : f[x] \in Nat
  PROVE  SumFunctionOnSet(f, S) \in Nat
<1> DEFINE T == {n \in Nat : \A u \in SUBSET S : Cardinality(u) = n => SumFunctionOnSet(f, u) \in Nat}
<1>0. \A u \in SUBSET S : IsFiniteSet(u) /\ Cardinality(u) \in Nat
  BY FS_Subset, FS_CardinalityType
<1>1. 0 \in T
  BY <1>0, FS_EmptySet, SumEmpty
<1>2. ASSUME NEW n \in T
      PROVE  n + 1 \in T
  <2>1. SUFFICES ASSUME NEW u \in SUBSET S, Cardinality(u) = n + 1
                 PROVE  SumFunctionOnSet(f, u) \in Nat
    OBVIOUS
  <2>2. n \in Nat /\ u # {} /\ IsFiniteSet(u)
    <3>1. n \in Nat /\ Cardinality({}) = 0
      BY FS_EmptySet
    <3> QED
      BY <1>0, <2>1, <3>1
  <2>3. Pick(u) \in u
    BY <2>2, PickIn
  <2>4. Cardinality(u \ {Pick(u)}) = n
    <3>1. Cardinality(u \ {Pick(u)}) = Cardinality(u) - 1
      BY <2>2, <2>3, FS_RemoveElement
    <3> QED
      BY <2>1, <2>2, <3>1
  <2>5. SumFunctionOnSet(f, u \ {Pick(u)}) \in Nat /\ f[Pick(u)] \in Nat
    BY <2>3, <2>4
  <2>6. SumFunctionOnSet(f, u) = f[Pick(u)] + SumFunctionOnSet(f, u \ {Pick(u)})
    BY <2>2, SumPick
  <2> QED
    BY <2>5, <2>6
<1>3. T = Nat
  <2> HIDE DEF T
  <2>1. T \in SUBSET Nat
    BY DEF T
  <2> QED
    BY <1>1, <1>2, <2>1, SetInduction
<1>4. Cardinality(S) \in T /\ S \in SUBSET S
  BY <1>0, <1>3
<1> QED
  BY <1>4

\* Any element may be the one that is taken out.
LEMMA SumRemove ==
  ASSUME NEW f, NEW S, IsFiniteSet(S), \A y \in S : f[y] \in Nat, NEW x \in S
  PROVE  SumFunctionOnSet(f, S) = f[x] + SumFunctionOnSet(f, S \ {x})
<1> DEFINE T == {n \in Nat : \A u \in SUBSET S : \A y \in u :
                   Cardinality(u) = n =>
                     SumFunctionOnSet(f, u) = f[y] + SumFunctionOnSet(f, u \ {y})}
<1>0. \A u \in SUBSET S : IsFiniteSet(u) /\ Cardinality(u) \in Nat /\ SumFunctionOnSet(f, u) \in Nat
  <2> TAKE u \in SUBSET S
  <2>1. IsFiniteSet(u) /\ Cardinality(u) \in Nat
    BY FS_Subset, FS_CardinalityType
  <2> QED
    BY <2>1, SumType
<1>1. 0 \in T
  BY <1>0, FS_EmptySet
<1>2. ASSUME NEW n \in T
      PROVE  n + 1 \in T
  <2>1. SUFFICES ASSUME NEW u \in SUBSET S, NEW y \in u, Cardinality(u) = n + 1
                 PROVE  SumFunctionOnSet(f, u) = f[y] + SumFunctionOnSet(f, u \ {y})
    OBVIOUS
  <2> DEFINE z == Pick(u)
  <2>2. n \in Nat /\ IsFiniteSet(u) /\ z \in u
    BY <1>0, PickIn
  <2>3. SumFunctionOnSet(f, u) = f[z] + SumFunctionOnSet(f, u \ {z})
    BY <2>2, SumPick
  <2> HIDE DEF z
  <2>4. CASE y = z
    BY <2>3, <2>4
  <2>5. CASE y # z
    <3>1. Cardinality(u \ {y}) = n /\ Cardinality(u \ {z}) = n
      <4>1. /\ Cardinality(u \ {y}) = Cardinality(u) - 1
            /\ Cardinality(u \ {z}) = Cardinality(u) - 1
        BY <2>2, FS_RemoveElement
      <4> QED
        BY <2>1, <2>2, <4>1
    <3>2. SumFunctionOnSet(f, u \ {y}) = f[z] + SumFunctionOnSet(f, (u \ {y}) \ {z})
      BY <2>2, <2>5, <3>1
    <3>3. SumFunctionOnSet(f, u \ {z}) = f[y] + SumFunctionOnSet(f, (u \ {z}) \ {y})
      BY <2>2, <2>5, <3>1
    <3>4. (u \ {y}) \ {z} = (u \ {z}) \ {y}
      OBVIOUS
    <3>5. f[y] \in Nat /\ f[z] \in Nat /\ SumFunctionOnSet(f, (u \ {z}) \ {y}) \in Nat
      BY <1>0, <2>2
    <3>6. SumFunctionOnSet(f, u \ {y}) = f[z] + SumFunctionOnSet(f, (u \ {z}) \ {y})
      BY <3>2, <3>4
    <3>7. \A a, b, c \in Nat : b + (a + c) = a + (b + c)
      OBVIOUS
    <3> QED
      BY <2>3, <3>3, <3>5, <3>6, <3>7
  <2> QED
    BY <2>4, <2>5
<1>3. T = Nat
  <2> HIDE DEF T
  <2>1. T \in SUBSET Nat
    BY DEF T
  <2> QED
    BY <1>1, <1>2, <2>1, SetInduction
<1>4. Cardinality(S) \in T /\ S \in SUBSET S
  BY <1>0, <1>3
<1> QED
  BY <1>4

LEMMA SumAdd ==
  ASSUME NEW f, NEW S, IsFiniteSet(S), NEW R, NEW x \in R, S = R \ {x}, \A y \in R : f[y] \in Nat
  PROVE  SumFunctionOnSet(f, R) = f[x] + SumFunctionOnSet(f, S)
<1>1. IsFiniteSet(R)
  <2>1. R = S \cup {x}
    OBVIOUS
  <2> QED
    BY <2>1, FS_AddElement
<1> QED
  BY <1>1, SumRemove

\* A sum depends on the values over its set only, and is monotone in them.
LEMMA SumMonotone ==
  ASSUME NEW f, NEW g, NEW S, IsFiniteSet(S),
         \A x \in S : f[x] \in Nat /\ g[x] \in Nat /\ f[x] <= g[x]
  PROVE  SumFunctionOnSet(f, S) <= SumFunctionOnSet(g, S)
<1> DEFINE T == {n \in Nat : \A u \in SUBSET S :
                   Cardinality(u) = n => SumFunctionOnSet(f, u) <= SumFunctionOnSet(g, u)}
<1>0. \A u \in SUBSET S : /\ IsFiniteSet(u) /\ Cardinality(u) \in Nat
                          /\ SumFunctionOnSet(f, u) \in Nat /\ SumFunctionOnSet(g, u) \in Nat
  <2> TAKE u \in SUBSET S
  <2>1. IsFiniteSet(u) /\ Cardinality(u) \in Nat
    BY FS_Subset, FS_CardinalityType
  <2> QED
    BY <2>1, SumType
<1>1. 0 \in T
  BY <1>0, FS_EmptySet, SumEmpty
<1>2. ASSUME NEW n \in T
      PROVE  n + 1 \in T
  <2>1. SUFFICES ASSUME NEW u \in SUBSET S, Cardinality(u) = n + 1
                 PROVE  SumFunctionOnSet(f, u) <= SumFunctionOnSet(g, u)
    OBVIOUS
  <2>2. n \in Nat /\ u # {} /\ IsFiniteSet(u)
    <3>1. n \in Nat /\ Cardinality({}) = 0
      BY FS_EmptySet
    <3> QED
      BY <1>0, <2>1, <3>1
  <2>3. PICK z \in u : TRUE
    BY <2>2
  <2>4. Cardinality(u \ {z}) = n
    <3>1. Cardinality(u \ {z}) = Cardinality(u) - 1
      BY <2>2, FS_RemoveElement
    <3> QED
      BY <2>1, <2>2, <3>1
  <2>5. SumFunctionOnSet(f, u \ {z}) <= SumFunctionOnSet(g, u \ {z})
    BY <2>4
  <2>6. /\ SumFunctionOnSet(f, u) = f[z] + SumFunctionOnSet(f, u \ {z})
        /\ SumFunctionOnSet(g, u) = g[z] + SumFunctionOnSet(g, u \ {z})
    BY <2>2, SumRemove
  <2>7. /\ f[z] \in Nat /\ g[z] \in Nat /\ f[z] <= g[z]
        /\ SumFunctionOnSet(f, u \ {z}) \in Nat /\ SumFunctionOnSet(g, u \ {z}) \in Nat
    BY <1>0
  <2> QED
    BY <2>5, <2>6, <2>7
<1>3. T = Nat
  <2> HIDE DEF T
  <2>1. T \in SUBSET Nat
    BY DEF T
  <2> QED
    BY <1>1, <1>2, <2>1, SetInduction
<1>4. Cardinality(S) \in T /\ S \in SUBSET S
  BY <1>0, <1>3
<1> QED
  BY <1>4

LEMMA SumSame ==
  ASSUME NEW f, NEW g, NEW S, IsFiniteSet(S), \A x \in S : f[x] \in Nat /\ f[x] = g[x]
  PROVE  SumFunctionOnSet(f, S) = SumFunctionOnSet(g, S)
<1>1. \A x \in S : f[x] \in Nat /\ g[x] \in Nat /\ f[x] <= g[x] /\ g[x] <= f[x]
  OBVIOUS
<1>2. /\ SumFunctionOnSet(f, S) <= SumFunctionOnSet(g, S)
      /\ SumFunctionOnSet(g, S) <= SumFunctionOnSet(f, S)
  BY <1>1, SumMonotone
<1>3. SumFunctionOnSet(f, S) \in Nat /\ SumFunctionOnSet(g, S) \in Nat
  BY <1>1, SumType
<1> QED
  BY <1>2, <1>3

\* A smaller set has a smaller sum.
LEMMA SumSubset ==
  ASSUME NEW f, NEW S, IsFiniteSet(S), \A x \in S : f[x] \in Nat, NEW R \in SUBSET S
  PROVE  SumFunctionOnSet(f, R) <= SumFunctionOnSet(f, S)
<1> DEFINE T == {n \in Nat : \A u \in SUBSET S : 
                   R \subseteq u /\ Cardinality(u) = n => SumFunctionOnSet(f, R) <= SumFunctionOnSet(f, u)}
<1>0. \A u \in SUBSET S : IsFiniteSet(u) /\ Cardinality(u) \in Nat /\ SumFunctionOnSet(f, u) \in Nat
  <2> TAKE u \in SUBSET S
  <2>1. IsFiniteSet(u) /\ Cardinality(u) \in Nat
    BY FS_Subset, FS_CardinalityType
  <2> QED
    BY <2>1, SumType
<1>1. 0 \in T
  <2>1. \A u \in SUBSET S : R \subseteq u /\ Cardinality(u) = 0 => R = u
    BY <1>0, FS_EmptySet
  <2> QED
    BY <1>0, <2>1
<1>2. ASSUME NEW n \in T
      PROVE  n + 1 \in T
  <2>1. SUFFICES ASSUME NEW u \in SUBSET S, R \subseteq u, Cardinality(u) = n + 1
                 PROVE  SumFunctionOnSet(f, R) <= SumFunctionOnSet(f, u)
    OBVIOUS
  <2>2. CASE R = u
    BY <1>0, <2>2
  <2>3. CASE R # u
    <3>1. PICK z \in u : z \notin R
      BY <2>1, <2>3
    <3>2. Cardinality(u \ {z}) = n
      <4>1. Cardinality(u \ {z}) = Cardinality(u) - 1 /\ n \in Nat
        BY <1>0, FS_RemoveElement
      <4> QED
        BY <2>1, <4>1
    <3>3. SumFunctionOnSet(f, R) <= SumFunctionOnSet(f, u \ {z})
      BY <2>1, <3>1, <3>2
    <3>4. SumFunctionOnSet(f, u) = f[z] + SumFunctionOnSet(f, u \ {z})
      BY <1>0, SumRemove
    <3>5. f[z] \in Nat /\ SumFunctionOnSet(f, R) \in Nat /\ SumFunctionOnSet(f, u \ {z}) \in Nat
      BY <1>0
    <3> QED
      BY <3>3, <3>4, <3>5
  <2> QED
    BY <2>2, <2>3
<1>3. T = Nat
  <2> HIDE DEF T
  <2>1. T \in SUBSET Nat
    BY DEF T
  <2> QED
    BY <1>1, <1>2, <2>1, SetInduction
<1>4. Cardinality(S) \in T /\ S \in SUBSET S
  BY <1>0, <1>3
<1> QED
  BY <1>4

\* Sums over the first elements of a sequence.
LEMMA SumOfFirst ==
  ASSUME NEW i \in Nat \ {0}, NEW f, \A j \in 1..i : f[j] \in Nat
  PROVE  SumFunctionOnSet(f, 1..i) = f[i] + SumFunctionOnSet(f, 1..(i - 1))
<1> DEFINE R == 1..i
           S == 1..(i - 1)
<1>1. i \in R /\ S = R \ {i} /\ \A j \in R : f[j] \in Nat
  OBVIOUS
<1>2. IsFiniteSet(S)
  BY FS_Interval
<1> HIDE DEF R, S
<1>3. SumFunctionOnSet(f, R) = f[i] + SumFunctionOnSet(f, S)
  BY <1>1, <1>2, SumAdd
<1> QED
  BY <1>3 DEF R, S

-----------------------------------------------------------------------------
\* Products, which the arithmetic of the provers does not order by itself.
LEMMA ProductStep ==
  ASSUME NEW c \in Nat, NEW a \in Nat, NEW b \in Nat, a < b
  PROVE  a * c \in Nat /\ b * c \in Nat /\ a * c + c <= b * c
<1> DEFINE d == b - a - 1
<1>1. d \in Nat /\ b = a + 1 + d
  OBVIOUS
<1> HIDE DEF d
<1>2. b * c = (a + 1) * c + d * c
  BY <1>1
<1>3. (a + 1) * c = a * c + c
  OBVIOUS
<1>4. a * c \in Nat /\ d * c \in Nat
  BY <1>1
<1> QED
  BY <1>2, <1>3, <1>4

LEMMA ProductMonotone ==
  ASSUME NEW c \in Nat, NEW a \in Nat, NEW b \in Nat, a <= b
  PROVE  a * c \in Nat /\ b * c \in Nat /\ a * c <= b * c
<1>1. CASE a = b
  BY <1>1
<1>2. CASE a < b
  BY <1>2, ProductStep
<1> QED
  BY <1>1, <1>2

\* A sum of values that are at most c.
LEMMA SumBound ==
  ASSUME NEW f, NEW S, IsFiniteSet(S), NEW c \in Nat, \A x \in S : f[x] \in Nat /\ f[x] <= c
  PROVE  SumFunctionOnSet(f, S) <= Cardinality(S) * c
<1> DEFINE T == {n \in Nat : \A u \in SUBSET S :
                   Cardinality(u) = n => SumFunctionOnSet(f, u) <= n * c}
<1>0. \A u \in SUBSET S : /\ IsFiniteSet(u) /\ Cardinality(u) \in Nat
                          /\ SumFunctionOnSet(f, u) \in Nat
  <2> TAKE u \in SUBSET S
  <2>1. IsFiniteSet(u) /\ Cardinality(u) \in Nat
    BY FS_Subset, FS_CardinalityType
  <2> QED
    BY <2>1, SumType
<1>1. 0 \in T
  BY <1>0, FS_EmptySet, SumEmpty
<1>2. ASSUME NEW n \in T
      PROVE  n + 1 \in T
  <2>1. SUFFICES ASSUME NEW u \in SUBSET S, Cardinality(u) = n + 1
                 PROVE  SumFunctionOnSet(f, u) <= (n + 1) * c
    OBVIOUS
  <2>2. n \in Nat /\ u # {} /\ IsFiniteSet(u)
    <3>1. n \in Nat /\ Cardinality({}) = 0
      BY FS_EmptySet
    <3> QED
      BY <1>0, <2>1, <3>1
  <2>3. PICK z \in u : TRUE
    BY <2>2
  <2>4. Cardinality(u \ {z}) = n
    <3>1. Cardinality(u \ {z}) = Cardinality(u) - 1
      BY <2>2, FS_RemoveElement
    <3> QED
      BY <2>1, <2>2, <3>1
  <2>5. SumFunctionOnSet(f, u \ {z}) <= n * c
    BY <2>4
  <2>6. SumFunctionOnSet(f, u) = f[z] + SumFunctionOnSet(f, u \ {z})
    BY <2>2, SumRemove
  <2>7. f[z] \in Nat /\ f[z] <= c /\ SumFunctionOnSet(f, u \ {z}) \in Nat
    BY <1>0
  <2>8. n * c \in Nat /\ (n + 1) * c \in Nat /\ n * c + c <= (n + 1) * c
    BY <2>2, ProductStep
  <2> QED
    BY <2>5, <2>6, <2>7, <2>8
<1>3. T = Nat
  <2> HIDE DEF T
  <2>1. T \in SUBSET Nat
    BY DEF T
  <2> QED
    BY <1>1, <1>2, <2>1, SetInduction
<1>4. Cardinality(S) \in T /\ S \in SUBSET S
  BY <1>0, <1>3
<1> QED
  BY <1>4

\* A finite set of numbers that is not empty has a maximum.
LEMMA MaxOf ==
  ASSUME NEW S \in SUBSET Nat, IsFiniteSet(S), S # {}
  PROVE  Max(S) \in S /\ \A x \in S : x <= Max(S)
<1> DEFINE T == {n \in Nat : \A u \in SUBSET S :
                   Cardinality(u) = n + 1 => \E x \in u : \A y \in u : x >= y}
<1>0. \A u \in SUBSET S : IsFiniteSet(u) /\ Cardinality(u) \in Nat
  BY FS_Subset, FS_CardinalityType
<1>1. ASSUME NEW n \in Nat, NEW u \in SUBSET S, Cardinality(u) = n + 1
      PROVE  /\ u # {} /\ IsFiniteSet(u)
             /\ \A z \in u : Cardinality(u \ {z}) = n
  <2>1. Cardinality({}) = 0 /\ IsFiniteSet(u)
    BY <1>0, FS_EmptySet
  <2>2. \A z \in u : Cardinality(u \ {z}) = Cardinality(u) - 1
    BY <2>1, FS_RemoveElement
  <2> QED
    BY <1>1, <2>1, <2>2
<1>2. 0 \in T
  <2> SUFFICES ASSUME NEW u \in SUBSET S, Cardinality(u) = 0 + 1
               PROVE  \E x \in u : \A y \in u : x >= y
    OBVIOUS
  <2>1. PICK z \in u : TRUE
    BY <1>1
  <2>2. Cardinality(u \ {z}) = 0 /\ IsFiniteSet(u \ {z})
    BY <1>0, <1>1, FS_RemoveElement
  <2>3. u \ {z} = {}
    BY <2>2, FS_EmptySet
  <2>4. \A y \in u : y = z /\ y \in Nat
    BY <2>3
  <2> QED
    BY <2>1, <2>4
<1>3. ASSUME NEW n \in T
      PROVE  n + 1 \in T
  <2> SUFFICES ASSUME NEW u \in SUBSET S, Cardinality(u) = (n + 1) + 1
               PROVE  \E x \in u : \A y \in u : x >= y
    OBVIOUS
  <2>0. n \in Nat /\ n + 1 \in Nat
    OBVIOUS
  <2>1. PICK z \in u : Cardinality(u \ {z}) = n + 1
    <3> DEFINE m == n + 1
    <3>1. m \in Nat /\ Cardinality(u) = m + 1
      BY <2>0
    <3> HIDE DEF m
    <3>2. u # {} /\ \A z \in u : Cardinality(u \ {z}) = m
      BY <1>1, <3>1
    <3> QED
      BY <3>2 DEF m
  <2>2. PICK x \in u \ {z} : \A y \in u \ {z} : x >= y
    BY <2>1
  <2>3. \A y \in u : y \in Nat /\ (y = z \/ y \in u \ {z})
    OBVIOUS
  <2>4. CASE x >= z
    BY <2>2, <2>3, <2>4
  <2>5. CASE z >= x
    BY <2>2, <2>3, <2>5
  <2> QED
    BY <2>3, <2>4, <2>5
<1>4. T = Nat
  <2> HIDE DEF T
  <2>1. T \in SUBSET Nat
    BY DEF T
  <2> QED
    BY <1>2, <1>3, <2>1, SetInduction
<1>5. \E n \in Nat : Cardinality(S) = n + 1
  <2>1. Cardinality(S) \in Nat /\ Cardinality(S) # 0
    BY <1>0, FS_EmptySet
  <2> QED
    BY <2>1
<1>6. PICK x \in S : \A y \in S : x >= y
  BY <1>4, <1>5
<1>7. Max(S) \in S /\ \A y \in S : Max(S) >= y
  BY <1>6 DEF Max
<1> QED
  BY <1>7

-----------------------------------------------------------------------------
\* Folds over sequences.

\* Maxima of the sets that a fold over a sequence looks at.
LEMMA MaxBelow ==
  ASSUME NEW m \in Nat, NEW t \in SUBSET (1..m), t # {}
  PROVE  Max(t) \in 1..m /\ t \ {Max(t)} \in SUBSET (1..(Max(t) - 1))
<1>1. t \in SUBSET Nat /\ IsFiniteSet(1..m)
  BY FS_Interval
<1>2. IsFiniteSet(t)
  BY <1>1, FS_Subset
<1>3. Max(t) \in t /\ \A x \in t : x <= Max(t)
  BY <1>1, <1>2, MaxOf
<1>4. PICK M : M = Max(t)
  OBVIOUS
<1>5. \A x \in t : x \in 1..m /\ x <= M
  BY <1>3, <1>4
<1>6. M \in 1..m
  BY <1>3, <1>4, <1>5
<1>7. \A x \in t \ {M} : x \in 1..(M - 1)
  BY <1>5, <1>6
<1> QED
  BY <1>4, <1>6, <1>7

LEMMA MaxInitial ==
  ASSUME NEW i \in Nat, i # 0
  PROVE  Max(1..i) = i /\ (1..i) \ {i} = 1..(i - 1) /\ (1..i) # {}
<1>1. (1..i) \in SUBSET (1..i) /\ i \in 1..i /\ (1..i) # {}
  OBVIOUS
<1>2. (1..i) \in SUBSET Nat /\ IsFiniteSet(1..i)
  BY FS_Interval
<1>3. Max(1..i) \in 1..i /\ \A x \in 1..i : x <= Max(1..i)
  BY <1>1, <1>2, MaxOf
<1> QED
  BY <1>1, <1>3

LEMMA Climbs ==
  ASSUME NEW X, NEW n \in Nat, NEW h, h[0] \in X,
         \A i \in 1..n : h[i - 1] \in X => h[i] \in X
  PROVE  \A i \in 0..n : h[i] \in X
<1> DEFINE T == {i \in Nat : i <= n => h[i] \in X}
<1>1. 0 \in T
  OBVIOUS
<1>2. ASSUME NEW i \in T PROVE i + 1 \in T
  <2>1. i + 1 <= n => i + 1 \in 1..n /\ (i + 1) - 1 = i /\ i <= n
    OBVIOUS
  <2> QED
    BY <2>1
<1>3. T = Nat
  <2> HIDE DEF T
  <2>1. T \in SUBSET Nat
    BY DEF T
  <2> QED
    BY <1>1, <1>2, <2>1, SetInduction
<1> QED
  BY <1>3

\* Ops has the functions F that stand for what is folded.
Ops(X, Y) == [X \X Y -> X]

\* The table of a fold of F over s, for the sets of the first m positions.
FoldOf(F, b, s, m, g) ==
  g = [t \in SUBSET (1..m) |->
         IF t = {} THEN b ELSE F[<<g[t \ {Max(t)}], s[Max(t)]>>]]

LEMMA FoldExists ==
  ASSUME NEW X, NEW Y, NEW F \in Ops(X, Y), NEW b \in X, NEW n \in Nat, NEW s \in [1..n -> Y]
  PROVE  \E g \in [SUBSET (1..n) -> X] : FoldOf(F, b, s, n, g)
<1> DEFINE T == {m \in Nat : m <= n => \E g \in [SUBSET (1..m) -> X] : FoldOf(F, b, s, m, g)}
<1>1. 0 \in T
  <2> DEFINE g == [t \in SUBSET (1..0) |-> b]
  <2>1. \A t \in SUBSET (1..0) : t = {}
    OBVIOUS
  <2>2. g \in [SUBSET (1..0) -> X] /\ FoldOf(F, b, s, 0, g)
    BY <2>1 DEF FoldOf
  <2> QED
    BY <2>2
<1>2. ASSUME NEW m \in T PROVE m + 1 \in T
  <2>0. m \in Nat /\ m + 1 \in Nat
    OBVIOUS
  <2> SUFFICES m + 1 <= n => \E g \in [SUBSET (1..(m + 1)) -> X] : FoldOf(F, b, s, m + 1, g)
    BY <2>0
  <2> HAVE m + 1 <= n
  <2>1. PICK g \in [SUBSET (1..m) -> X] : FoldOf(F, b, s, m, g)
    <3>1. m <= n
      BY <2>0
    <3> QED
      BY <3>1
  <2> DEFINE E(f, t) == IF t = {} THEN b ELSE F[<<f[t \ {Max(t)}], s[Max(t)]>>]
             h == [t \in SUBSET (1..(m + 1)) |-> E(g, t)]
  <2>2. \A t \in SUBSET (1..(m + 1)) : t # {} =>
          Max(t) \in 1..(m + 1) /\ t \ {Max(t)} \in SUBSET (1..m)
    <3> TAKE t \in SUBSET (1..(m + 1))
    <3> HAVE t # {}
    <3> QED
      BY <2>0, MaxBelow
  <2>3. \A t \in SUBSET (1..m) : t \in SUBSET (1..(m + 1)) /\ h[t] = g[t]
    <3> TAKE t \in SUBSET (1..m)
    <3>1. t \in SUBSET (1..(m + 1))
      BY <2>0
    <3>2. g[t] = E(g, t)
      BY <2>1 DEF FoldOf
    <3> QED
      BY <3>1, <3>2
  <2>4. \A t \in SUBSET (1..(m + 1)) : E(g, t) = E(h, t) /\ E(g, t) \in X
    <3> TAKE t \in SUBSET (1..(m + 1))
    <3>1. CASE t = {}
      BY <3>1
    <3>2. CASE t # {}
      <4> DEFINE u == t \ {Max(t)}
      <4>1. Max(t) \in 1..n /\ u \in SUBSET (1..m)
        BY <2>0, <2>2, <3>2
      <4>2. g[u] = h[u] /\ g[u] \in X /\ s[Max(t)] \in Y
        BY <2>3, <4>1
      <4> HIDE DEF u, h
      <4>3. E(g, t) = F[<<g[u], s[Max(t)]>>] /\ E(h, t) = F[<<h[u], s[Max(t)]>>]
        BY <3>2 DEF u
      <4> QED
        BY <4>2, <4>3 DEF Ops
    <3> QED
      BY <3>1, <3>2
  <2>5. h \in [SUBSET (1..(m + 1)) -> X]
    BY <2>4
  <2>6. FoldOf(F, b, s, m + 1, h)
    <3>1. h = [t \in SUBSET (1..(m + 1)) |-> E(h, t)]
      <4> HIDE DEF E
      <4> QED
        BY <2>4
    <3> HIDE DEF h
    <3> QED
      BY <3>1 DEF FoldOf
  <2> HIDE DEF h
  <2> QED
    BY <2>5, <2>6
<1>3. T = Nat
  <2> HIDE DEF T
  <2>1. T \in SUBSET Nat
    BY DEF T
  <2> QED
    BY <1>1, <1>2, <2>1, SetInduction
<1>4. n \in T
  <2> HIDE DEF T
  <2> QED
    BY <1>3
<1>5. n <= n => \E g \in [SUBSET (1..n) -> X] : FoldOf(F, b, s, n, g)
  BY <1>4
<1>6. n <= n
  OBVIOUS
<1> QED
  BY <1>5, <1>6, Zenon

\* A table that is computed by F as long as what it has computed is in X.
ComputedBy(F, X, b, n, s, iter) ==
  /\ iter[{}] = b
  /\ \A t \in SUBSET (1..n) : t # {} /\ iter[t \ {Max(t)}] \in X =>
       iter[t] = F[<<iter[t \ {Max(t)}], s[Max(t)]>>]

\* The way from b to the result v, by one element after the other.
Walked(F, b, n, s, v, h) ==
  /\ h[0] = b /\ h[n] = v
  /\ \A i \in 1..n : h[i] = F[<<h[i - 1], s[i]>>]

LEMMA FoldSteps ==
  ASSUME NEW X, NEW Y, NEW F \in Ops(X, Y), NEW b \in X, NEW n \in Nat, NEW s \in [1..n -> Y],
         NEW iter, ComputedBy(F, X, b, n, s, iter)
  PROVE  \E h \in [0..n -> X] : Walked(F, b, n, s, iter[1..n], h)
<1> DEFINE h == [i \in 0..n |-> iter[1..i]]
<1>1. h[0] = b /\ n \in 0..n
  <2>1. 1..0 = {} /\ 0 \in 0..n
    OBVIOUS
  <2> QED
    BY <2>1 DEF ComputedBy
<1>2. \A i \in 1..n : h[i - 1] \in X => h[i] = F[<<h[i - 1], s[i]>>] /\ h[i] \in X
  <2> TAKE i \in 1..n
  <2> HAVE h[i - 1] \in X
  <2>1. (1..i) \in SUBSET (1..n) /\ i \in 0..n /\ i - 1 \in 0..n /\ i # 0 /\ i \in Nat /\ s[i] \in Y
    OBVIOUS
  <2>2. Max(1..i) = i /\ (1..i) \ {i} = 1..(i - 1) /\ (1..i) # {}
    BY <2>1, MaxInitial
  <2>3. iter[(1..i) \ {Max(1..i)}] \in X
    BY <2>1, <2>2
  <2>4. iter[1..i] = F[<<iter[(1..i) \ {Max(1..i)}], s[Max(1..i)]>>]
    BY <2>1, <2>2, <2>3 DEF ComputedBy
  <2>5. h[i] = iter[1..i] /\ h[i - 1] = iter[1..(i - 1)]
    BY <2>1
  <2> HIDE DEF h
  <2>6. h[i] = F[<<h[i - 1], s[i]>>]
    BY <2>2, <2>4, <2>5
  <2> QED
    BY <2>1, <2>6 DEF Ops
<1>3. \A i \in 0..n : h[i] \in X
  <2> HIDE DEF h
  <2> QED
    BY <1>1, <1>2, Climbs
<1>4. \A i \in 1..n : h[i] = F[<<h[i - 1], s[i]>>]
  <2> TAKE i \in 1..n
  <2>1. i - 1 \in 0..n
    OBVIOUS
  <2> HIDE DEF h
  <2> QED
    BY <1>2, <1>3, <2>1
<1>5. h \in [0..n -> X] /\ h[n] = iter[1..n]
  BY <1>1, <1>3
<1> HIDE DEF h
<1>6. Walked(F, b, n, s, iter[1..n], h)
  BY <1>1, <1>4, <1>5 DEF Walked
<1> QED
  BY <1>5, <1>6

-----------------------------------------------------------------------------
\* What FlattenSeq computes, step by step.
LEMMA FlattenTable ==
  ASSUME NEW S, NEW ss \in Seq(Seq(S))
  PROVE  \E f \in [0..Len(ss) -> Seq(S)] :
           /\ f[0] = <<>> /\ FlattenSeq(ss) = f[Len(ss)]
           /\ \A i \in 1..Len(ss) : f[i] = f[i - 1] \o ss[i]
<1> DEFINE X == Seq(S)
           n == Len(ss)
           F == [p \in X \X X |-> p[1] \o p[2]]
<1>1. n \in Nat /\ ss \in [1..n -> X] /\ <<>> \in X
  OBVIOUS
<1>2. F \in Ops(X, X)
  BY DEF Ops
<1>3. PICK g \in [SUBSET (1..n) -> X] : FoldOf(F, <<>>, ss, n, g)
  <2> HIDE DEF X, F, n
  <2> QED
    BY <1>1, <1>2, FoldExists
<1> DEFINE f == [i \in 0..n |-> g[1..i]]
<1>4. \A i \in 0..n : (1..i) \in SUBSET (1..n) /\ f[i] = g[1..i] /\ f[i] \in X
  <2> TAKE i \in 0..n
  <2>1. (1..i) \in SUBSET (1..n)
    BY <1>1
  <2> HIDE DEF X
  <2> QED
    BY <2>1
<1>5. f[0] = <<>>
  <2>1. 1..0 = {} /\ 0 \in 0..n
    BY <1>1
  <2> HIDE DEF f
  <2> QED
    BY <1>3, <1>4, <2>1 DEF FoldOf
<1>6. \A i \in 1..n : f[i] = f[i - 1] \o ss[i]
  <2> TAKE i \in 1..n
  <2>1. i \in Nat /\ i # 0 /\ i \in 0..n /\ i - 1 \in 0..n
    BY <1>1
  <2>2. Max(1..i) = i /\ (1..i) \ {i} = 1..(i - 1) /\ (1..i) # {}
    BY <2>1, MaxInitial
  <2>3. g[1..i] = F[<<g[1..(i - 1)], ss[i]>>]
    <3>1. (1..i) \in SUBSET (1..n)
      BY <1>4, <2>1
    <3>2. g[1..i] = IF (1..i) = {} THEN <<>> ELSE F[<<g[(1..i) \ {Max(1..i)}], ss[Max(1..i)]>>]
      <4> HIDE DEF F, n, X
      <4> QED
        BY <1>3, <3>1 DEF FoldOf
    <3> HIDE DEF F, n, X
    <3> QED
      BY <2>2, <3>2
  <2>4. g[1..(i - 1)] \in X /\ ss[i] \in X
    BY <1>1, <1>4, <2>1
  <2>5. F[<<g[1..(i - 1)], ss[i]>>] = g[1..(i - 1)] \o ss[i]
    BY <2>4
  <2> HIDE DEF f, F
  <2> QED
    BY <1>4, <2>1, <2>3, <2>5
<1> DEFINE E(h, i) == IF i = 1 THEN ss[i] ELSE h[i - 1] \o ss[i]
           Is(h) == h = [i \in 1..n |-> E(h, i)]
           flatten == CHOOSE h : Is(h)
           k == [i \in 1..n |-> f[i]]
<1>7. Is(k)
  <2>1. \A i \in 1..n : f[i] = E(k, i)
    <3> TAKE i \in 1..n
    <3>1. CASE i = 1
      <4> HIDE DEF f, k, X
      <4>1. f[i] = f[0] \o ss[i] /\ ss[i] \in X
        <5>1. f[i] = f[i - 1] \o ss[i]
          BY <1>6
        <5>2. ss[i] \in X
          BY <1>1
        <5>3. i - 1 = 0
          BY <3>1
        <5> QED
          BY <5>1, <5>2, <5>3
      <4>2. f[0] \o ss[i] = ss[i]
        BY <1>5, <4>1 DEF X
      <4> QED
        BY <3>1, <4>1, <4>2
    <3>2. CASE i # 1
      <4>1. i - 1 \in 1..n
        BY <1>1, <3>2
      <4> HIDE DEF f
      <4> QED
        BY <1>6, <3>2, <4>1
    <3> QED
      BY <3>1, <3>2
  <2> HIDE DEF E, f
  <2> QED
    BY <2>1
<1>8. Is(flatten)
  <2> HIDE DEF Is, k
  <2> QED
    BY <1>7
<1>9. \A i \in 1..n : flatten[i] = f[i]
  <2> DEFINE T == {i \in Nat : i \in 1..n => flatten[i] = f[i]}
  <2> HIDE DEF flatten, f
  <2>1. 0 \in T
    OBVIOUS
  <2>2. ASSUME NEW i \in T PROVE i + 1 \in T
    <3> SUFFICES ASSUME i + 1 \in 1..n PROVE flatten[i + 1] = f[i + 1]
      OBVIOUS
    <3>1. flatten[i + 1] = E(flatten, i + 1)
      <4> HIDE DEF E
      <4> QED
        BY <1>8
    <3>2. CASE i = 0
      <4> HIDE DEF X
      <4>0. PICK j \in 1..n : j = i + 1
        OBVIOUS
      <4>1. f[j] = f[0] \o ss[j] /\ ss[j] \in X /\ j = 1
        <5>1. f[j] = f[j - 1] \o ss[j]
          BY <1>6
        <5>2. ss[j] \in X
          BY <1>1
        <5>3. j - 1 = 0 /\ j = 1
          BY <3>2, <4>0
        <5> QED
          BY <5>1, <5>2, <5>3
      <4>2. f[0] \o ss[j] = ss[j]
        BY <1>5, <4>1 DEF X
      <4> QED
        BY <3>1, <3>2, <4>0, <4>1, <4>2
    <3>3. CASE i # 0
      <4>1. i \in 1..n /\ (i + 1) - 1 = i /\ i + 1 # 1
        BY <1>1, <3>3
      <4>2. flatten[i] = f[i] /\ f[i + 1] = f[i] \o ss[i + 1]
        BY <1>6, <4>1
      <4> QED
        BY <3>1, <4>1, <4>2
    <3> QED
      BY <3>2, <3>3
  <2>3. T = Nat
    <3> HIDE DEF T
    <3>1. T \in SUBSET Nat
      BY DEF T
    <3> QED
      BY <2>1, <2>2, <3>1, SetInduction
  <2>4. \A i \in 1..n : i \in T
    <3> HIDE DEF T
    <3> QED
      BY <1>1, <2>3
  <2> QED
    BY <2>4
<1>10. FlattenSeq(ss) = f[n]
  <2>1. CASE n = 0
    <3>1. FlattenSeq(ss) = ss /\ ss = <<>>
      BY <2>1 DEF FlattenSeq
    <3> HIDE DEF f
    <3> QED
      BY <1>5, <2>1, <3>1
  <2>2. CASE n # 0
    <3>1. FlattenSeq(ss) = flatten[n]
      BY <2>2 DEF FlattenSeq
    <3>2. n \in 1..n
      BY <1>1, <2>2
    <3> HIDE DEF f, flatten
    <3> QED
      BY <1>9, <3>1, <3>2
  <2> QED
    BY <2>1, <2>2
<1> HIDE DEF f
<1>11. f \in [0..n -> X]
  BY <1>4 DEF f
<1> QED
  BY <1>5, <1>6, <1>10, <1>11

\* Induction over sequences, for the set of those that have a property.
LEMMA SequenceInduction ==
  ASSUME NEW Y, NEW T \in SUBSET Seq(Y), <<>> \in T, \A s \in T, y \in Y : Append(s, y) \in T
  PROVE  T = Seq(Y)
<1> SUFFICES ASSUME NEW s \in Seq(Y) PROVE s \in T
  OBVIOUS
<1> DEFINE K == {k \in Nat : k <= Len(s) => SubSeq(s, 1, k) \in T}
<1>1. 0 \in K
  <2>1. SubSeq(s, 1, 0) = <<>>
    OBVIOUS
  <2> QED
    BY <2>1
<1>2. ASSUME NEW k \in K PROVE k + 1 \in K
  <2>1. k \in Nat
    OBVIOUS
  <2> SUFFICES ASSUME k + 1 <= Len(s) PROVE SubSeq(s, 1, k + 1) \in T
    BY <2>1
  <2>2. SubSeq(s, 1, k) \in T /\ s[k + 1] \in Y
    <3>1. k <= Len(s) /\ k + 1 \in 1..Len(s)
      BY <2>1
    <3> QED
      BY <3>1
  <2>3. SubSeq(s, 1, k + 1) = Append(SubSeq(s, 1, k), s[k + 1])
    <3> DEFINE m == k + 1
    <3>1. 1 \in 1..Len(s) /\ m \in 1..Len(s) /\ m - 1 = k
      BY <2>1
    <3> HIDE DEF m
    <3>2. SubSeq(s, 1, m) = SubSeq(s, 1, m - 1) \o <<s[m]>>
      BY <3>1, SubSeqRecursiveSecond
    <3>3. SubSeq(s, 1, k) \in Seq(Y) /\ s[m] \in Y
      BY <2>2, <3>1
    <3>4. Append(SubSeq(s, 1, k), s[m]) = SubSeq(s, 1, k) \o <<s[m]>>
      BY <3>3, AppendIsConcat
    <3> QED
      BY <3>1, <3>2, <3>4 DEF m
  <2> QED
    BY <2>2, <2>3
<1>3. K = Nat
  <2> HIDE DEF K
  <2>1. K \in SUBSET Nat
    BY DEF K
  <2> QED
    BY <1>1, <1>2, <2>1, SetInduction
<1>4. Len(s) \in K
  <2> HIDE DEF K
  <2> QED
    BY <1>3
<1>5. SubSeq(s, 1, Len(s)) = s
  BY SubSeqFull
<1>6. SubSeq(s, 1, Len(s)) \in T
  BY <1>4
<1> QED
  BY <1>5, <1>6

LEMMA FlattenEmpty == FlattenSeq(<<>>) = <<>>
BY DEF FlattenSeq

LEMMA FlattenType ==
  ASSUME NEW S, NEW ss \in Seq(Seq(S))
  PROVE  FlattenSeq(ss) \in Seq(S)
<1>1. PICK f \in [0..Len(ss) -> Seq(S)] : FlattenSeq(ss) = f[Len(ss)]
  BY FlattenTable
<1>2. Len(ss) \in 0..Len(ss)
  OBVIOUS
<1> QED
  BY <1>1, <1>2

LEMMA FlattenAppend ==
  ASSUME NEW S, NEW ss \in Seq(Seq(S)), NEW x \in Seq(S)
  PROVE  FlattenSeq(Append(ss, x)) = FlattenSeq(ss) \o x
<1> DEFINE X == Seq(S)
           n == Len(ss)
           tt == Append(ss, x)
<1>1. n \in Nat /\ tt \in Seq(X) /\ Len(tt) = n + 1 /\ tt[n + 1] = x /\ \A i \in 1..n : tt[i] = ss[i]
  BY AppendProperties
<1>2. PICK f \in [0..n -> X] :
        /\ f[0] = <<>> /\ FlattenSeq(ss) = f[n]
        /\ \A i \in 1..n : f[i] = f[i - 1] \o ss[i]
  BY FlattenTable
<1>3. PICK g \in [0..Len(tt) -> X] :
        /\ g[0] = <<>> /\ FlattenSeq(tt) = g[Len(tt)]
        /\ \A i \in 1..Len(tt) : g[i] = g[i - 1] \o tt[i]
  BY <1>1, FlattenTable
<1> HIDE DEF tt, X, n
<1> DEFINE T == {i \in Nat : i <= n => g[i] = f[i]}
<1>4. 0 \in T
  BY <1>2, <1>3
<1>5. ASSUME NEW i \in T PROVE i + 1 \in T
  <2>1. i \in Nat
    OBVIOUS
  <2> SUFFICES ASSUME i + 1 <= n PROVE g[i + 1] = f[i + 1]
    BY <2>1
  <2> DEFINE m == i + 1
  <2>2. m \in 1..n /\ m \in 1..(n + 1) /\ m - 1 = i /\ i <= n
    BY <1>1, <2>1
  <2> HIDE DEF m
  <2>3. g[i] = f[i]
    BY <2>2
  <2>4. g[m] = g[i] \o tt[m] /\ f[m] = f[i] \o ss[m] /\ tt[m] = ss[m]
    BY <1>1, <1>2, <1>3, <2>2
  <2> QED
    BY <2>3, <2>4 DEF m
<1>6. T = Nat
  <2> HIDE DEF T
  <2>1. T \in SUBSET Nat
    BY DEF T
  <2> QED
    BY <1>4, <1>5, <2>1, SetInduction
<1>7. n \in T
  <2> HIDE DEF T
  <2> QED
    BY <1>1, <1>6
<1>8. g[n] = f[n]
  BY <1>1, <1>7
<1> DEFINE m == n + 1
<1>9. m \in 1..Len(tt) /\ m - 1 = n /\ Len(tt) = m /\ tt[m] = x
  BY <1>1
<1> HIDE DEF m
<1>10. g[m] = g[n] \o x
  BY <1>3, <1>9
<1> QED
  BY <1>2, <1>3, <1>8, <1>9, <1>10 DEF tt

-----------------------------------------------------------------------------
\* The concatenation of what N has for the elements of s.
\* Maps has the functions N that there are; its name is what the provers go by.
Maps(Y, S) == [Y -> Seq(S)]
Mapped(N, s) == [i \in DOMAIN s |-> N[s[i]]]
Flat(N, s) == FlattenSeq(Mapped(N, s))

LEMMA FlatEmpty == ASSUME NEW N PROVE Flat(N, <<>>) = <<>>
<1>1. Mapped(N, <<>>) = <<>>
  BY DEF Mapped
<1> QED
  BY <1>1, FlattenEmpty DEF Flat

LEMMA MappedType ==
  ASSUME NEW Y, NEW S, NEW N \in Maps(Y, S), NEW s \in Seq(Y)
  PROVE  /\ Mapped(N, s) \in Seq(Seq(S)) /\ Len(Mapped(N, s)) = Len(s)
         /\ \A i \in 1..Len(s) : Mapped(N, s)[i] = N[s[i]]
BY DEF Mapped, Maps

LEMMA MapsType == ASSUME NEW Y, NEW S, NEW N \in Maps(Y, S), NEW y \in Y PROVE N[y] \in Seq(S)
BY DEF Maps

LEMMA FlatType ==
  ASSUME NEW Y, NEW S, NEW N \in Maps(Y, S), NEW s \in Seq(Y)
  PROVE  Flat(N, s) \in Seq(S)
<1>1. Mapped(N, s) \in Seq(Seq(S))
  BY MappedType
<1> QED
  BY <1>1, FlattenType DEF Flat

LEMMA FlatAppend ==
  ASSUME NEW Y, NEW S, NEW N \in Maps(Y, S), NEW s \in Seq(Y), NEW y \in Y
  PROVE  Flat(N, Append(s, y)) = Flat(N, s) \o N[y]
<1> DEFINE Z == Seq(S)
           ss == Mapped(N, s)
           t == Append(s, y)
           tt == Mapped(N, t)
<1>1. t \in Seq(Y) /\ Len(t) = Len(s) + 1 /\ t[Len(s) + 1] = y /\ \A i \in 1..Len(s) : t[i] = s[i]
  BY AppendProperties
<1>2. ss \in Seq(Z) /\ Len(ss) = Len(s) /\ tt \in Seq(Z) /\ Len(tt) = Len(t)
  <2>1. ss \in Seq(Z) /\ Len(ss) = Len(s)
    BY MappedType
  <2> HIDE DEF t
  <2>2. tt \in Seq(Z) /\ Len(tt) = Len(t)
    BY <1>1, MappedType
  <2> QED
    BY <2>1, <2>2
<1>3. N[y] \in Z
  BY MapsType
<1>4. tt = Append(ss, N[y])
  <2> DEFINE uu == Append(ss, N[y])
  <2>1. uu \in Seq(Z) /\ Len(uu) = Len(s) + 1 /\ uu[Len(s) + 1] = N[y] /\ \A i \in 1..Len(s) : uu[i] = ss[i]
    <3> HIDE DEF ss, Z
    <3> QED
      BY <1>2, <1>3, AppendProperties
  <2>2. \A i \in 1..Len(s) : ss[i] = N[s[i]]
    BY MappedType
  <2>3. \A i \in 1..(Len(s) + 1) : tt[i] = N[t[i]]
    <3> HIDE DEF t
    <3> QED
      BY <1>1, MappedType
  <2>4. \A i \in 1..(Len(s) + 1) : i \in 1..Len(s) \/ i = Len(s) + 1
    OBVIOUS
  <2> HIDE DEF uu, tt, ss, t, Z
  <2>5. \A i \in 1..Len(tt) : tt[i] = uu[i]
    BY <1>1, <1>2, <2>1, <2>2, <2>3, <2>4
  <2> QED
    BY <1>1, <1>2, <2>1, <2>5, SeqEqual DEF uu
<1> HIDE DEF ss
<1>5. FlattenSeq(Append(ss, N[y])) = FlattenSeq(ss) \o N[y]
  <2> DEFINE v == N[y]
  <2>1. ss \in Seq(Seq(S)) /\ v \in Seq(S)
    BY <1>2, <1>3
  <2> HIDE DEF v
  <2>2. FlattenSeq(Append(ss, v)) = FlattenSeq(ss) \o v
    BY <2>1, FlattenAppend
  <2> QED
    BY <2>2 DEF v
<1> QED
  BY <1>4, <1>5 DEF Flat, ss

LEMMA FlatOne ==
  ASSUME NEW Y, NEW S, NEW N \in Maps(Y, S), NEW y \in Y
  PROVE  Flat(N, <<y>>) = N[y]
<1>1. <<y>> = Append(<<>>, y) /\ <<>> \in Seq(Y)
  OBVIOUS
<1>2. Flat(N, Append(<<>>, y)) = Flat(N, <<>>) \o N[y]
  BY <1>1, FlatAppend
<1>3. <<>> \o N[y] = N[y]
  BY MapsType, ConcatEmptySeq
<1> QED
  BY <1>1, <1>2, <1>3, FlatEmpty

LEMMA FlatConcat ==
  ASSUME NEW Y, NEW S, NEW N \in Maps(Y, S), NEW s \in Seq(Y), NEW t \in Seq(Y)
  PROVE  Flat(N, s \o t) = Flat(N, s) \o Flat(N, t)
<1> DEFINE T == {u \in Seq(Y) : Flat(N, s \o u) = Flat(N, s) \o Flat(N, u)}
<1>1. <<>> \in T
  <2>1. s \o <<>> = s /\ <<>> \in Seq(Y)
    BY ConcatEmptySeq
  <2>2. Flat(N, s) \o <<>> = Flat(N, s)
    BY FlatType, ConcatEmptySeq
  <2> QED
    BY <2>1, <2>2, FlatEmpty
<1>2. ASSUME NEW u \in T, NEW y \in Y PROVE Append(u, y) \in T
  <2>1. u \in Seq(Y) /\ Flat(N, s \o u) = Flat(N, s) \o Flat(N, u)
    OBVIOUS
  <2>2. s \o Append(u, y) = Append(s \o u, y) /\ s \o u \in Seq(Y) /\ Append(u, y) \in Seq(Y)
    BY <2>1
  <2>3. Flat(N, Append(s \o u, y)) = Flat(N, s \o u) \o N[y]
    BY <2>2, FlatAppend
  <2>4. Flat(N, Append(u, y)) = Flat(N, u) \o N[y]
    BY <2>1, FlatAppend
  <2>5. Flat(N, s) \in Seq(S) /\ Flat(N, u) \in Seq(S) /\ N[y] \in Seq(S)
    BY <2>1, FlatType, MapsType
  <2>6. (Flat(N, s) \o Flat(N, u)) \o N[y] = Flat(N, s) \o (Flat(N, u) \o N[y])
    <3> DEFINE a == Flat(N, s)
               b == Flat(N, u)
               c == N[y]
    <3>1. a \in Seq(S) /\ b \in Seq(S) /\ c \in Seq(S)
      BY <2>5
    <3> HIDE DEF T, a, b, c
    <3>2. (a \o b) \o c = a \o (b \o c)
      BY <3>1, ConcatAssociative
    <3> QED
      BY <3>2 DEF a, b, c
  <2> QED
    BY <2>1, <2>2, <2>3, <2>4, <2>6
<1>3. T = Seq(Y)
  <2> HIDE DEF T
  <2>1. T \in SUBSET Seq(Y)
    BY DEF T
  <2> QED
    BY <1>1, <1>2, <2>1, SequenceInduction
<1>4. t \in T
  <2> HIDE DEF T
  <2> QED
    BY <1>3
<1> QED
  BY <1>4

\* What is concatenated may itself be a concatenation.
LEMMA FlatFlat ==
  ASSUME NEW Y, NEW Z, NEW S, NEW M \in Maps(Y, Z), NEW N \in Maps(Z, S), NEW s \in Seq(Y)
  PROVE  Flat(N, Flat(M, s)) = Flat([y \in Y |-> Flat(N, M[y])], s)
<1> DEFINE L == [y \in Y |-> Flat(N, M[y])]
           T == {u \in Seq(Y) : Flat(N, Flat(M, u)) = Flat(L, u)}
<1>0. L \in Maps(Y, S)
  <2>1. \A y \in Y : Flat(N, M[y]) \in Seq(S)
    BY FlatType, MapsType
  <2> QED
    BY <2>1 DEF Maps
<1>1. <<>> \in T
  BY FlatEmpty
<1>2. ASSUME NEW u \in T, NEW y \in Y PROVE Append(u, y) \in T
  <2>1. u \in Seq(Y) /\ Flat(N, Flat(M, u)) = Flat(L, u) /\ L[y] = Flat(N, M[y]) /\ M[y] \in Seq(Z)
    BY MapsType
  <2> HIDE DEF L, T
  <2>2. Append(u, y) \in Seq(Y) /\ Flat(M, u) \in Seq(Z)
    <3>1. Append(u, y) \in Seq(Y)
      BY <2>1
    <3>2. Flat(M, u) \in Seq(Z)
      BY <2>1, FlatType
    <3> QED
      BY <3>1, <3>2
  <2>3. Flat(M, Append(u, y)) = Flat(M, u) \o M[y]
    BY <2>1, FlatAppend
  <2>4. Flat(N, Flat(M, u) \o M[y]) = Flat(N, Flat(M, u)) \o Flat(N, M[y])
    <3> DEFINE v == Flat(M, u)
               w == M[y]
    <3>1. v \in Seq(Z) /\ w \in Seq(Z)
      BY <2>1, <2>2
    <3> HIDE DEF v, w
    <3>2. Flat(N, v \o w) = Flat(N, v) \o Flat(N, w)
      BY <3>1, FlatConcat
    <3> QED
      BY <3>2 DEF v, w
  <2>5. Flat(L, Append(u, y)) = Flat(L, u) \o L[y]
    BY <1>0, <2>1, FlatAppend
  <2> QED
    BY <2>1, <2>2, <2>3, <2>4, <2>5 DEF T
<1>3. T = Seq(Y)
  <2> HIDE DEF T
  <2>1. T \in SUBSET Seq(Y)
    BY DEF T
  <2> QED
    BY <1>1, <1>2, <2>1, SequenceInduction
<1>4. s \in T
  <2> HIDE DEF T
  <2> QED
    BY <1>3
<1> QED
  BY <1>4

LEMMA FlatSame ==
  ASSUME NEW N, NEW M, NEW s, \A i \in DOMAIN s : N[s[i]] = M[s[i]]
  PROVE  Flat(N, s) = Flat(M, s)
<1>1. Mapped(N, s) = Mapped(M, s)
  BY DEF Mapped
<1> QED
  BY <1>1 DEF Flat

\* One element for each.
Singles(g) == [y \in DOMAIN g |-> <<g[y]>>]

LEMMA FlatSingles ==
  ASSUME NEW Y, NEW S, NEW g, DOMAIN g = Y, Singles(g) \in Maps(Y, S), NEW s \in Seq(Y)
  PROVE  Flat(Singles(g), s) = [i \in DOMAIN s |-> g[s[i]]]
<1> DEFINE N == Singles(g)
           Is(u) == [i \in DOMAIN u |-> g[u[i]]]
           T == {u \in Seq(Y) : Flat(N, u) = Is(u)}
<1>0. N \in Maps(Y, S) /\ \A y \in Y : N[y] = <<g[y]>> /\ g[y] \in S
  <2>1. \A y \in Y : N[y] = <<g[y]>> /\ N[y] \in Seq(S)
    BY DEF Maps, Singles
  <2>2. \A y \in Y : <<g[y]>>[1] \in S
    BY <2>1
  <2> QED
    BY <2>1, <2>2
<1>1. <<>> \in T
  <2>1. Is(<<>>) = <<>>
    OBVIOUS
  <2> HIDE DEF Is
  <2> QED
    BY <2>1, FlatEmpty
<1>2. ASSUME NEW u \in T, NEW y \in Y PROVE Append(u, y) \in T
  <2>1. u \in Seq(Y) /\ Flat(N, u) = Is(u) /\ N[y] = <<g[y]>>
    BY <1>0
  <2>2. Is(u) \in Seq(S) /\ Len(Is(u)) = Len(u) /\ g[y] \in S
    BY <1>0, <2>1
  <2> DEFINE v == Append(u, y)
  <2>3. v \in Seq(Y) /\ Len(v) = Len(u) + 1 /\ v[Len(u) + 1] = y /\ \A i \in 1..Len(u) : v[i] = u[i]
    BY <2>1, AppendProperties
  <2>4. Is(u) \o <<g[y]>> = Append(Is(u), g[y])
    BY <2>2, AppendIsConcat
  <2>5. Append(Is(u), g[y]) = Is(v)
    <3> HIDE DEF v
    <3>1. DOMAIN u = 1..Len(u) /\ DOMAIN v = 1..Len(v) /\ Len(u) \in Nat
      BY <2>1, <2>3
    <3> DEFINE a == Is(u)
               b == Append(a, g[y])
    <3>2. \A i \in 1..Len(u) : a[i] = g[u[i]]
      BY <3>1
    <3> HIDE DEF a
    <3>3. b \in Seq(S) /\ Len(b) = Len(u) + 1 /\ b[Len(u) + 1] = g[y] /\ \A i \in 1..Len(u) : b[i] = a[i]
      BY <2>2, AppendProperties DEF a
    <3>4. Is(v) \in Seq(S) /\ Len(Is(v)) = Len(v)
      BY <1>0, <2>3
    <3>5. \A i \in 1..Len(v) : b[i] = Is(v)[i]
      <4> HIDE DEF b
      <4> TAKE i \in 1..Len(v)
      <4>1. i \in 1..Len(u) \/ i = Len(u) + 1
        BY <2>3, <3>1
      <4> QED
        BY <2>3, <3>1, <3>2, <3>3, <4>1
    <3> HIDE DEF b, Is
    <3> QED
      BY <2>3, <3>3, <3>4, <3>5, SeqEqual DEF a, b
  <2> HIDE DEF Is, N
  <2>6. Flat(N, Append(u, y)) = Flat(N, u) \o N[y]
    BY <1>0, <2>1, FlatAppend
  <2> QED
    BY <2>1, <2>3, <2>4, <2>5, <2>6 DEF T
<1>3. T = Seq(Y)
  <2> HIDE DEF T
  <2>1. T \in SUBSET Seq(Y)
    BY DEF T
  <2> QED
    BY <1>1, <1>2, <2>1, SequenceInduction
<1>4. s \in T
  <2> HIDE DEF T
  <2> QED
    BY <1>3
<1> QED
  BY <1>4

\* A measure M of what has been folded grows by what N has for each element.
Grows(M, N, h, s) == \A i \in 1..Len(s) : M[h[i]] = M[h[i - 1]] \o N[s[i]]

AddsUp(M, N, h, s) == M[h[Len(s)]] = M[h[0]] \o Flat(N, s)
Measured(X, Y, S, M, N, h, s) ==
  /\ M \in Maps(X, S) /\ N \in Maps(Y, S) /\ s \in Seq(Y)
  /\ h \in [0..Len(s) -> X] /\ Grows(M, N, h, s)

LEMMA FoldMeasured ==
  ASSUME NEW X, NEW Y, NEW S, NEW M, NEW N, NEW h, NEW s, Measured(X, Y, S, M, N, h, s)
  PROVE  AddsUp(M, N, h, s)
<1>a. /\ M \in Maps(X, S) /\ N \in Maps(Y, S) /\ s \in Seq(Y)
      /\ h \in [0..Len(s) -> X] /\ Grows(M, N, h, s)
  BY DEF Measured
<1> USE <1>a
<1> DEFINE T == {i \in Nat : i <= Len(s) => M[h[i]] = M[h[0]] \o Flat(N, SubSeq(s, 1, i))}
<1>0. Len(s) \in Nat /\ \A i \in 0..Len(s) : M[h[i]] \in Seq(S)
  BY MapsType
<1>1. 0 \in T
  <2>1. SubSeq(s, 1, 0) = <<>>
    OBVIOUS
  <2>2. M[h[0]] \o <<>> = M[h[0]]
    BY <1>0, ConcatEmptySeq
  <2> QED
    BY <2>1, <2>2, FlatEmpty
<1>2. ASSUME NEW k \in T PROVE k + 1 \in T
  <2>1. k \in Nat
    OBVIOUS
  <2> SUFFICES ASSUME k + 1 <= Len(s)
               PROVE  M[h[k + 1]] = M[h[0]] \o Flat(N, SubSeq(s, 1, k + 1))
    BY <2>1
  <2> DEFINE m == k + 1
  <2>2. m \in 1..Len(s) /\ m - 1 = k /\ k <= Len(s) /\ 1 \in 1..Len(s) /\ k \in 0..Len(s) /\ 0 \in 0..Len(s)
    BY <1>0, <2>1
  <2>3. M[h[k]] = M[h[0]] \o Flat(N, SubSeq(s, 1, k))
    BY <2>2
  <2> HIDE DEF m, T
  <2>4. M[h[m]] = M[h[k]] \o N[s[m]] /\ s[m] \in Y
    BY <2>2 DEF Grows
  <2> DEFINE u == SubSeq(s, 1, k)
  <2>5. u \in Seq(Y)
    BY <2>2
  <2>6. SubSeq(s, 1, m) = Append(u, s[m])
    <3>1. SubSeq(s, 1, m) = SubSeq(s, 1, m - 1) \o <<s[m]>>
      BY <2>2, SubSeqRecursiveSecond
    <3>2. Append(u, s[m]) = u \o <<s[m]>>
      BY <2>4, <2>5, AppendIsConcat
    <3> QED
      BY <2>2, <3>1, <3>2
  <2> HIDE DEF u
  <2>7. Flat(N, Append(u, s[m])) = Flat(N, u) \o N[s[m]]
    <3> DEFINE y == s[m]
    <3>1. y \in Y
      BY <2>4
    <3> HIDE DEF y
    <3>2. Flat(N, Append(u, y)) = Flat(N, u) \o N[y]
      BY <2>5, <3>1, FlatAppend
    <3> QED
      BY <3>2 DEF y
  <2> DEFINE a == M[h[0]]
             b == Flat(N, u)
             c == N[s[m]]
  <2>8. a \in Seq(S) /\ b \in Seq(S) /\ c \in Seq(S)
    <3>1. a \in Seq(S)
      BY <1>0, <2>2
    <3>2. b \in Seq(S)
      BY <2>5, FlatType
    <3>3. c \in Seq(S)
      BY <2>4, MapsType
    <3> QED
      BY <3>1, <3>2, <3>3
  <2>9. M[h[m]] = (a \o b) \o c
    BY <2>3, <2>4 DEF u
  <2>10. Flat(N, SubSeq(s, 1, m)) = b \o c
    BY <2>6, <2>7
  <2> HIDE DEF a, b, c
  <2>11. (a \o b) \o c = a \o (b \o c)
    BY <2>8, ConcatAssociative
  <2> QED
    BY <2>9, <2>10, <2>11 DEF m, a
<1>3. T = Nat
  <2> HIDE DEF T
  <2>1. T \in SUBSET Nat
    BY DEF T
  <2> QED
    BY <1>1, <1>2, <2>1, SetInduction
<1>4. Len(s) \in T
  <2> HIDE DEF T
  <2> QED
    BY <1>0, <1>3
<1>5. SubSeq(s, 1, Len(s)) = s
  BY SubSeqFull
<1>6. M[h[Len(s)]] = M[h[0]] \o Flat(N, SubSeq(s, 1, Len(s)))
  <2>1. PICK n : n = Len(s)
    OBVIOUS
  <2>2. n \in T /\ n <= n
    <3> HIDE DEF T
    <3> QED
      BY <1>0, <1>4, <2>1
  <2>3. M[h[n]] = M[h[0]] \o Flat(N, SubSeq(s, 1, n))
    BY <2>1, <2>2
  <2> QED
    BY <2>1, <2>3
<1> QED
  BY <1>5, <1>6 DEF AddsUp

LEMMA FlatNothing ==
  ASSUME NEW Y, NEW S, NEW N \in Maps(Y, S), NEW s \in Seq(Y), \A y \in Y : N[y] = <<>>
  PROVE  Flat(N, s) = <<>>
<1> DEFINE T == {u \in Seq(Y) : Flat(N, u) = <<>>}
<1>1. <<>> \in T
  BY FlatEmpty
<1>2. ASSUME NEW u \in T, NEW y \in Y PROVE Append(u, y) \in T
  <2>1. u \in Seq(Y) /\ Flat(N, u) = <<>> /\ N[y] = <<>> /\ Append(u, y) \in Seq(Y)
    OBVIOUS
  <2>2. Flat(N, Append(u, y)) = Flat(N, u) \o N[y]
    BY <2>1, FlatAppend
  <2>3. <<>> \o <<>> = <<>>
    OBVIOUS
  <2> QED
    BY <2>1, <2>2, <2>3
<1>3. T = Seq(Y)
  <2> HIDE DEF T
  <2>1. T \in SUBSET Seq(Y)
    BY DEF T
  <2> QED
    BY <1>1, <1>2, <2>1, SequenceInduction
<1>4. s \in T
  <2> HIDE DEF T
  <2> QED
    BY <1>3
<1> QED
  BY <1>4
=============================================================================

----------------------------- MODULE ItemProofs -----------------------------
(***************************************************************************)
(* Proofs about the operators that TaskRun works on the items of an answer *)
(* with: what sorting, filtering and cutting a sequence make of it,        *)
(* whatever its length.                                                    *)
(***************************************************************************)
EXTENDS TaskRun, FiniteSetTheorems, SequenceTheorems, WellFoundedInduction, TLAPS

-----------------------------------------------------------------------------
(* Sets of numbers in their order.                                         *)

Less == OpToRel(<, Nat)

\* A set of naturals that is not empty has a least element: what stands in for induction.
LEMMA LeastOf == ASSUME NEW T \in SUBSET Nat, T # {}
                 PROVE  \E n \in T : \A m \in T : n <= m
<1>1. IsWellFoundedOn(Less, Nat)
  BY NatLessThanWellFounded DEF Less
<1>2. PICK n \in T : \A m \in T : <<m, n>> \notin Less
  BY <1>1, WFMin, Zenon
<1>3. Less = {p \in Nat \X Nat : p[1] < p[2]}
  BY DEF Less, OpToRel
<1>4. ASSUME NEW m \in T, m < n
      PROVE  FALSE
  <2>1. <<m, n>> \in {p \in Nat \X Nat : p[1] < p[2]}
    BY <1>4
  <2>2. QED
    BY <1>2, <1>3, <2>1
<1>5. QED
  BY <1>2, <1>4

Enumerates(f, S) == /\ f \in [1..Cardinality(S) -> S]
                    /\ \A i, j \in 1..Cardinality(S) : i < j => f[i] < f[j]

\* A finite set of naturals can be written down in its order.
LEMMA Enumerable == ASSUME NEW S \in SUBSET Nat, IsFiniteSet(S)
                    PROVE  \E f : Enumerates(f, S)
<1> DEFINE Counter(n) == \E U \in SUBSET Nat : /\ IsFiniteSet(U) /\ Cardinality(U) = n
                                               /\ ~\E f : Enumerates(f, U)
           T == {n \in Nat : Counter(n)}
<1>1. SUFFICES ASSUME T # {}
               PROVE  FALSE
  <2>1. Cardinality(S) \in Nat
    BY FS_CardinalityType
  <2>2. QED
    BY <2>1
<1>2. PICK n \in T : \A m \in T : n <= m
  BY <1>1, LeastOf
<1>3. PICK U \in SUBSET Nat : /\ IsFiniteSet(U) /\ Cardinality(U) = n
                              /\ ~\E f : Enumerates(f, U)
  BY <1>2
<1>4. U # {}
  <2>1. ASSUME U = {}
        PROVE  Enumerates([i \in 1..0 |-> 0], U)
    BY <2>1, FS_EmptySet DEF Enumerates
  <2>2. QED
    BY <1>3, <2>1
<1>5. PICK m \in U : \A x \in U : m <= x
  BY <1>3, <1>4, LeastOf
<1> DEFINE V == U \ {m}
<1>6. /\ IsFiniteSet(V) /\ V \in SUBSET Nat /\ Cardinality(V) = n - 1
      /\ n \in Nat /\ n # 0
  BY <1>2, <1>3, <1>4, FS_RemoveElement, FS_EmptySet
<1>7. n - 1 \notin T /\ n - 1 \in Nat
  BY <1>2, <1>6
<1>8. PICK g : Enumerates(g, V)
  BY <1>6, <1>7
<1> DEFINE f == [i \in 1..n |-> IF i = 1 THEN m ELSE g[i - 1]]
<1>9. g \in [1..(n - 1) -> V] /\ \A i, j \in 1..(n - 1) : i < j => g[i] < g[j]
  BY <1>6, <1>8 DEF Enumerates
<1>10. ASSUME NEW i \in 1..n, i # 1
       PROVE  /\ i - 1 \in 1..(n - 1) /\ f[i] = g[i - 1]
              /\ f[i] \in V /\ f[i] \in U /\ m < f[i]
  <2>1. i - 1 \in 1..(n - 1) /\ f[i] = g[i - 1]
    BY <1>6, <1>10
  <2>2. f[i] \in V
    BY <1>9, <2>1
  <2>3. m <= f[i] /\ m # f[i] /\ m \in Nat /\ f[i] \in Nat
    BY <1>3, <1>5, <2>2
  <2>4. QED
    BY <2>1, <2>2, <2>3
<1>11. f \in [1..n -> U]
  BY <1>10
<1>12. ASSUME NEW i \in 1..n, NEW j \in 1..n, i < j
       PROVE  f[i] < f[j]
  <2>1. CASE i = 1
    BY <1>6, <1>10, <1>12, <2>1
  <2>2. CASE i # 1
    <3>1. j # 1 /\ i - 1 < j - 1
      BY <1>6, <1>12, <2>2
    <3>2. QED
      BY <1>9, <1>10, <2>2, <3>1
  <2>3. QED
    BY <2>1, <2>2
<1>13. Enumerates(f, U)
  BY <1>3, <1>11, <1>12 DEF Enumerates
<1>14. QED
  BY <1>3, <1>13

\* Writing a set down in its order leaves none of it out.
LEMMA EnumeratesAll ==
  ASSUME NEW S \in SUBSET Nat, IsFiniteSet(S), NEW f, Enumerates(f, S)
  PROVE  \A x \in S : \E i \in 1..Cardinality(S) : f[i] = x
<1> DEFINE n == Cardinality(S)
<1>1. n \in Nat
  BY FS_CardinalityType
<1>2. ASSUME NEW i \in 1..n, NEW j \in 1..n, f[i] = f[j]
      PROVE  i = j
  <2>1. f[i] \in Nat /\ f[j] \in Nat
    BY DEF Enumerates
  <2>2. ~(i < j) /\ ~(j < i)
    BY <1>2, <2>1 DEF Enumerates
  <2>3. QED
    BY <1>1, <2>2
<1>3. f \in Injection(1..n, S)
  BY <1>2 DEF Injection, IsInjective, Enumerates
<1>4. Cardinality(1..n) = n
  BY <1>1, FS_Interval
<1>5. f \in Surjection(1..n, S)
  BY <1>3, <1>4, FS_Injection
<1>6. QED
  BY <1>5 DEF Surjection

\* There is one way to write a set down in its order: where two first differ, the lesser
\* number is missing from the other.
LEMMA OneOrder ==
  ASSUME NEW S \in SUBSET Nat, IsFiniteSet(S), NEW f, Enumerates(f, S), NEW g, Enumerates(g, S)
  PROVE  f = g
<1> DEFINE n == Cardinality(S)
           Differ == {k \in 1..n : f[k] # g[k]}
<1>1. n \in Nat
  BY FS_CardinalityType
<1>2. /\ f \in [1..n -> S] /\ \A i, j \in 1..n : i < j => f[i] < f[j]
      /\ g \in [1..n -> S] /\ \A i, j \in 1..n : i < j => g[i] < g[j]
  BY DEF Enumerates
<1>3. /\ \A x \in S : \E i \in 1..n : f[i] = x
      /\ \A x \in S : \E i \in 1..n : g[i] = x
  BY EnumeratesAll
<1>4. \A k \in 1..n : f[k] \in Nat /\ g[k] \in Nat /\ f[k] \in S /\ g[k] \in S
  BY <1>2
<1>5. SUFFICES ASSUME f # g
               PROVE  FALSE
  OBVIOUS
<1> HIDE DEF n
<1>6. Differ # {}
  <2>1. SUFFICES ASSUME \A k \in 1..n : f[k] = g[k]
                 PROVE  f = g
    BY <1>5
  <2>2. f = [k \in 1..n |-> f[k]] /\ g = [k \in 1..n |-> g[k]]
    BY <1>2
  <2>3. QED
    BY <2>1, <2>2, Zenon
<1>7. Differ \in SUBSET Nat
  BY <1>1
<1>8. PICK k \in Differ : \A m \in Differ : k <= m
  BY <1>6, <1>7, LeastOf
<1>9. k \in 1..n /\ f[k] # g[k] /\ \A m \in 1..n : m < k => f[m] = g[m]
  BY <1>1, <1>8
<1>10. CASE f[k] < g[k]
  <2>1. PICK j \in 1..n : g[j] = f[k]
    BY <1>3, <1>4, <1>9
  <2>2. CASE j < k
    <3>1. f[j] = g[j] /\ f[j] < f[k]
      BY <1>2, <1>9, <2>2
    <3>2. QED
      BY <1>4, <1>9, <2>1, <3>1
  <2>3. CASE k < j
    <3>1. g[k] < g[j]
      BY <1>2, <1>9, <2>3
    <3>2. QED
      BY <1>4, <1>9, <1>10, <2>1, <3>1
  <2>4. QED
    BY <1>1, <1>4, <1>9, <1>10, <2>1, <2>2, <2>3
<1>11. CASE g[k] < f[k]
  <2>1. PICK j \in 1..n : f[j] = g[k]
    BY <1>3, <1>4, <1>9
  <2>2. CASE j < k
    <3>1. f[j] = g[j] /\ g[j] < g[k]
      BY <1>2, <1>9, <2>2
    <3>2. QED
      BY <1>4, <1>9, <2>1, <3>1
  <2>3. CASE k < j
    <3>1. f[k] < f[j]
      BY <1>2, <1>9, <2>3
    <3>2. QED
      BY <1>4, <1>9, <1>11, <2>1, <3>1
  <2>4. QED
    BY <1>1, <1>4, <1>9, <1>11, <2>1, <2>2, <2>3
<1>12. QED
  BY <1>4, <1>9, <1>10, <1>11

\* Sorted gives every number of the set, once and in order.
LEMMA SortedIs == ASSUME NEW S \in SUBSET Nat, IsFiniteSet(S)
                  PROVE  /\ Cardinality(S) \in Nat /\ Enumerates(Sorted(S), S)
                         /\ \A x \in S : \E i \in 1..Cardinality(S) : Sorted(S)[i] = x
<1> DEFINE n == Cardinality(S)
           f == Sorted(S)
<1>1. Enumerates(f, S)
  <2>1. \E g \in [1..n -> S] : \A i, j \in 1..n : i < j => g[i] < g[j]
    BY Enumerable DEF Enumerates
  <2>2. QED
    BY <2>1 DEF Enumerates, Sorted
<1>2. QED
  BY <1>1, EnumeratesAll, FS_CardinalityType

-----------------------------------------------------------------------------
(* Sequences of items.                                                     *)

\* A function on the first n numbers is a sequence of length n.
LEMMA FunctionIsSeq ==
  ASSUME NEW S, NEW n \in Nat, NEW f \in [1..n -> S]
  PROVE  f \in Seq(S) /\ Len(f) = n /\ DOMAIN f = 1..n
<1>1. f \in Seq(S)
  BY SeqDef
<1>2. DOMAIN f = 1..n /\ DOMAIN f = 1..Len(f) /\ Len(f) \in Nat
  BY <1>1, LenProperties
<1>3. Len(f) = n
  BY <1>2
<1>4. QED
  BY <1>1, <1>2, <1>3

\* There are n numbers up to n.
LEMMA CountTo ==
  ASSUME NEW n \in Nat
  PROVE  IsFiniteSet(1..n) /\ Cardinality(1..n) = n
<1>1. IsFiniteSet(1..n) /\ Cardinality(1..n) = IF 1 > n THEN 0 ELSE n - 1 + 1
  BY FS_Interval
<1>2. QED
  BY <1>1

\* What is at some places of a sequence: as many items as places, and those.
LEMMA PlacesAre ==
  ASSUME NEW s \in Seq(Nat), NEW I \in SUBSET DOMAIN s
  PROVE  /\ AtPlaces(s, I) \in Seq(Nat) /\ Len(AtPlaces(s, I)) = Cardinality(I)
         /\ Cardinality(I) \in Nat /\ Cardinality(I) <= Len(s)
         /\ ToSet(AtPlaces(s, I)) = {s[i] : i \in I}
         /\ I = DOMAIN s => Cardinality(I) = Len(s)
<1> DEFINE n == Cardinality(I)
           f == Sorted(I)
           q == AtPlaces(s, I)
<1>1. DOMAIN s = 1..Len(s) /\ Len(s) \in Nat
  BY LenProperties
<1>2. IsFiniteSet(DOMAIN s) /\ Cardinality(DOMAIN s) = Len(s)
  BY <1>1, CountTo
<1>3. IsFiniteSet(I) /\ n <= Len(s)
  BY <1>2, FS_Subset
<1>4. I \in SUBSET Nat
  BY <1>1
<1>5. /\ n \in Nat /\ f \in [1..n -> I] /\ \A x \in I : \E i \in 1..n : f[i] = x
  BY <1>3, <1>4, SortedIs DEF Enumerates
<1>6. q = [i \in 1..n |-> s[f[i]]]
  BY DEF AtPlaces
<1>7. q \in Seq(Nat) /\ Len(q) = n /\ DOMAIN q = 1..n
  <2>1. q \in [1..n -> Nat]
    BY <1>1, <1>5, <1>6, LenProperties
  <2>2. QED
    BY <1>5, <2>1, FunctionIsSeq
<1>8. ToSet(q) = {s[i] : i \in I}
  <2>1. \A i \in 1..n : f[i] \in I /\ q[i] = s[f[i]]
    BY <1>5, <1>6
  <2>2. \A x \in I : \E i \in 1..n : q[i] = s[x]
    BY <1>5, <2>1
  <2>3. ToSet(q) = {q[i] : i \in 1..n}
    BY <1>7 DEF ToSet
  <2> HIDE DEF q, f, n
  <2>4. QED
    BY <2>1, <2>2, <2>3
<1>9. QED
  BY <1>2, <1>3, <1>5, <1>7, <1>8

\* The items of a sequence are as many as its places, or fewer.
LEMMA ToSetFinite ==
  ASSUME NEW s \in Seq(Nat)
  PROVE  /\ IsFiniteSet(ToSet(s)) /\ ToSet(s) \in SUBSET Nat
         /\ Cardinality(ToSet(s)) \in Nat /\ Cardinality(ToSet(s)) <= Len(s)
<1>1. DOMAIN s = 1..Len(s) /\ Len(s) \in Nat
  BY LenProperties
<1>2. IsFiniteSet(DOMAIN s) /\ Cardinality(DOMAIN s) = Len(s)
  BY <1>1, CountTo
<1>3. s \in Surjection(DOMAIN s, ToSet(s))
  BY DEF Surjection, ToSet
<1>4. IsFiniteSet(ToSet(s)) /\ Cardinality(ToSet(s)) <= Len(s)
  BY <1>2, <1>3, FS_Surjection
<1>5. QED
  BY <1>4, FS_CardinalityType DEF ToSet

\* The items of a sequence that are in a set.
LEMMA OnlyIs ==
  ASSUME NEW s \in Seq(Nat), NEW S
  PROVE  /\ Only(s, S) \in Seq(Nat) /\ Len(Only(s, S)) <= Len(s)
         /\ ToSet(Only(s, S)) = ToSet(s) \cap S
         /\ ToSet(s) \subseteq S => Len(Only(s, S)) = Len(s)
<1> DEFINE I == {i \in DOMAIN s : s[i] \in S}
<1>1. I \in SUBSET DOMAIN s /\ Only(s, S) = AtPlaces(s, I)
  BY DEF Only
<1>2. {s[i] : i \in I} = ToSet(s) \cap S
  BY DEF ToSet
<1>3. ToSet(s) \subseteq S => I = DOMAIN s
  BY DEF ToSet
<1> HIDE DEF I
<1>4. QED
  BY <1>1, <1>2, <1>3, PlacesAre

\* The first n items, or all.
LEMMA TakeIs ==
  ASSUME NEW s \in Seq(Nat), NEW n \in Nat
  PROVE  /\ Take(s, n) \in Seq(Nat) /\ Len(Take(s, n)) = IF n < Len(s) THEN n ELSE Len(s)
         /\ ToSet(Take(s, n)) \subseteq ToSet(s)
         /\ \A i \in 1..Len(Take(s, n)) : Take(s, n)[i] = s[i]
         /\ Len(s) <= n => Take(s, n) = s
<1> DEFINE m == IF n < Len(s) THEN n ELSE Len(s)
           q == Take(s, n)
<1>1. Len(s) \in Nat /\ m \in Nat /\ m <= Len(s) /\ DOMAIN s = 1..Len(s)
  BY LenProperties
<1>2. q = SubSeq(s, 1, m)
  BY DEF Take
<1>3. q \in Seq(Nat) /\ Len(q) = m /\ \A i \in 1..m : q[i] = s[i]
  <2>1. \A i \in 1..m : s[i] \in Nat
    BY <1>1, LenProperties
  <2>2. /\ q \in Seq(Nat) /\ Len(q) = IF 1 <= m THEN m - 1 + 1 ELSE 0
        /\ \A i \in 1..m - 1 + 1 : q[i] = s[1 + i - 1]
    BY <1>1, <1>2, <2>1, SubSeqProperties
  <2> HIDE DEF q, m
  <2>3. QED
    BY <1>1, <2>2
<1>4. DOMAIN q = 1..m
  BY <1>3, LenProperties
<1>5. ToSet(q) \subseteq ToSet(s)
  BY <1>1, <1>3, <1>4 DEF ToSet
<1>6. ASSUME Len(s) <= n
      PROVE  q = s
  <2>0. ~(n < Len(s))
    BY <1>6, LenProperties
  <2>1. m = Len(s)
    BY <2>0
  <2> HIDE DEF q, m
  <2>2. Len(q) = Len(s) /\ \A i \in 1..Len(q) : q[i] = s[i]
    BY <1>3, <2>1
  <2>3. QED
    BY <1>3, <2>2, SeqEqual
<1>7. QED
  BY <1>3, <1>5, <1>6

\* The last n items, or all.
LEMMA LastOfIs ==
  ASSUME NEW s \in Seq(Nat), NEW n \in Nat
  PROVE  /\ LastOf(s, n) \in Seq(Nat) /\ Len(LastOf(s, n)) = IF n < Len(s) THEN n ELSE Len(s)
         /\ ToSet(LastOf(s, n)) \subseteq ToSet(s)
         /\ Len(s) <= n => LastOf(s, n) = s
<1> DEFINE a == IF n < Len(s) THEN Len(s) - n + 1 ELSE 1
           m == IF n < Len(s) THEN n ELSE Len(s)
           q == LastOf(s, n)
<1>1. /\ Len(s) \in Nat /\ m \in Nat /\ a \in Nat /\ a > 0 /\ DOMAIN s = 1..Len(s)
      /\ m = Len(s) - a + 1
  BY LenProperties
<1>2. q = SubSeq(s, a, Len(s))
  BY DEF LastOf
<1>3. q \in Seq(Nat) /\ Len(q) = m /\ \A i \in 1..m : i + a - 1 \in 1..Len(s) /\ q[i] = s[i + a - 1]
  <2>1. \A i \in a..Len(s) : s[i] \in Nat
    BY <1>1, LenProperties
  <2>2. /\ q \in Seq(Nat) /\ Len(q) = IF a <= Len(s) THEN Len(s) - a + 1 ELSE 0
        /\ \A i \in 1..Len(s) - a + 1 : q[i] = s[a + i - 1]
    BY <1>1, <1>2, <2>1, SubSeqProperties
  <2> HIDE DEF q, m, a
  <2>3. \A i \in 1..m : i + a - 1 \in 1..Len(s) /\ a + i - 1 = i + a - 1
    BY <1>1
  <2>4. QED
    BY <1>1, <2>2, <2>3
<1>4. DOMAIN q = 1..m
  BY <1>3, LenProperties
<1>5. ToSet(q) \subseteq ToSet(s)
  BY <1>1, <1>3, <1>4 DEF ToSet
<1>6. ASSUME Len(s) <= n
      PROVE  q = s
  <2>0. ~(n < Len(s))
    BY <1>6, LenProperties
  <2>1. m = Len(s) /\ a = 1
    BY <2>0
  <2> HIDE DEF q, m, a
  <2>2. Len(q) = Len(s) /\ \A i \in 1..Len(q) : q[i] = s[i]
    BY <1>1, <1>3, <2>1
  <2>3. QED
    BY <1>3, <2>2, SeqEqual
<1>7. QED
  BY <1>3, <1>5, <1>6

\* Sorting keeps the items, each of them once.
LEMMA SortedItems ==
  ASSUME NEW S \in SUBSET Nat, IsFiniteSet(S)
  PROVE  /\ Sorted(S) \in Seq(Nat) /\ Len(Sorted(S)) = Cardinality(S)
         /\ ToSet(Sorted(S)) = S
<1>1. /\ Cardinality(S) \in Nat /\ Sorted(S) \in [1..Cardinality(S) -> S]
      /\ \A x \in S : \E i \in 1..Cardinality(S) : Sorted(S)[i] = x
  BY SortedIs DEF Enumerates
<1>2. Sorted(S) \in Seq(Nat) /\ Len(Sorted(S)) = Cardinality(S)
      /\ DOMAIN Sorted(S) = 1..Cardinality(S)
  BY <1>1, FunctionIsSeq
<1>3. QED
  BY <1>1, <1>2 DEF ToSet

\* Items in any order are those items.
LEMMA AnyOrder ==
  ASSUME NEW S \in SUBSET Nat, IsFiniteSet(S), NEW q \in SetToSeqs(S)
  PROVE  q \in Seq(Nat) /\ Len(q) = Cardinality(S) /\ ToSet(q) = S
<1> DEFINE n == Cardinality(S)
<1>1. n \in Nat
  BY FS_CardinalityType
<1>2. q \in [1..n -> S] /\ \A i, j \in 1..n : i # j => q[i] # q[j]
  BY DEF SetToSeqs
<1>3. q \in Injection(1..n, S)
  BY <1>2 DEF Injection, IsInjective
<1>4. Cardinality(1..n) = n
  BY <1>1, FS_Interval
<1>5. q \in Surjection(1..n, S)
  BY <1>3, <1>4, FS_Injection
<1>6. q \in Seq(Nat) /\ Len(q) = n /\ DOMAIN q = 1..n
  BY <1>1, <1>2, FunctionIsSeq
<1>7. /\ \A i \in 1..n : q[i] \in S
      /\ \A x \in S : \E i \in 1..n : q[i] = x
  BY <1>2, <1>5 DEF Surjection
<1> HIDE DEF n
<1>8. ToSet(q) = {q[i] : i \in 1..n}
  BY <1>6 DEF ToSet
<1>9. ToSet(q) = S
  BY <1>7, <1>8
<1>10. QED
  BY <1>6, <1>9 DEF n

Increasing(s) == \A i, j \in 1..Len(s) : i < j => s[i] < s[j]

\* What is in order is what sorting gives.
LEMMA SortedAlready ==
  ASSUME NEW s \in Seq(Nat), Increasing(s)
  PROVE  s = Sorted(ToSet(s))
<1> DEFINE S == ToSet(s)
<1>1. DOMAIN s = 1..Len(s) /\ Len(s) \in Nat /\ \A i \in 1..Len(s) : s[i] \in Nat
  BY LenProperties, ElementOfSeq
<1>2. /\ IsFiniteSet(S) /\ S \in SUBSET Nat
      /\ Cardinality(S) \in Nat /\ Cardinality(S) <= Len(s)
  BY ToSetFinite
<1>3. s \in [1..Len(s) -> S]
  BY <1>1 DEF ToSet
<1> HIDE DEF S
<1>4. ASSUME NEW i \in 1..Len(s), NEW j \in 1..Len(s), s[i] = s[j]
      PROVE  i = j
  <2>1. ~(i < j) /\ ~(j < i)
    BY <1>1, <1>4 DEF Increasing
  <2>2. QED
    BY <1>1, <2>1
<1>5. s \in Injection(1..Len(s), S)
  BY <1>3, <1>4 DEF Injection, IsInjective
<1>6. Len(s) <= Cardinality(S)
  BY <1>1, <1>2, <1>5, CountTo, FS_Injection
<1>7. Len(s) = Cardinality(S)
  BY <1>1, <1>2, <1>6
<1>8. Enumerates(s, S)
  BY <1>3, <1>7 DEF Enumerates, Increasing
<1>9. QED
  BY <1>2, <1>8, SortedIs, OneOrder DEF S

\* Sorting puts in order, and leaving items out keeps the order.
LEMMA StaysIncreasing ==
  /\ \A S \in SUBSET Nat : IsFiniteSet(S) => Increasing(Sorted(S))
  /\ \A s \in Seq(Nat) : Increasing(s) => \A S : Increasing(Only(s, S))
<1>1. ASSUME NEW S \in SUBSET Nat, IsFiniteSet(S)
      PROVE  Increasing(Sorted(S))
  BY <1>1, SortedIs, SortedItems DEF Enumerates, Increasing
<1>2. ASSUME NEW s \in Seq(Nat), Increasing(s), NEW S
      PROVE  Increasing(Only(s, S))
  <2> DEFINE I == {i \in DOMAIN s : s[i] \in S}
             f == Sorted(I)
             q == Only(s, S)
  <2>1. DOMAIN s = 1..Len(s) /\ Len(s) \in Nat
    BY LenProperties
  <2>2. I \in SUBSET DOMAIN s /\ q = AtPlaces(s, I)
    BY DEF Only
  <2>3. IsFiniteSet(I) /\ I \in SUBSET Nat
    BY <2>1, <2>2, CountTo, FS_Subset
  <2> HIDE DEF I
  <2>4. /\ f \in [1..Cardinality(I) -> I] /\ Cardinality(I) \in Nat
        /\ \A i, j \in 1..Cardinality(I) : i < j => f[i] < f[j]
    BY <2>3, SortedIs DEF Enumerates
  <2>5. Len(q) = Cardinality(I)
    BY <2>2, PlacesAre
  <2>6. q = [i \in 1..Cardinality(I) |-> s[f[i]]]
    BY <2>2 DEF AtPlaces
  <2> HIDE DEF f, q
  <2>7. ASSUME NEW i \in 1..Len(q), NEW j \in 1..Len(q), i < j
        PROVE  q[i] < q[j]
    <3>1. f[i] \in 1..Len(s) /\ f[j] \in 1..Len(s) /\ f[i] < f[j]
      BY <2>1, <2>2, <2>4, <2>5, <2>7
    <3>2. s[f[i]] < s[f[j]]
      BY <1>2, <3>1 DEF Increasing
    <3>3. QED
      BY <2>5, <2>6, <3>2
  <2>8. QED
    BY <2>7 DEF Increasing, q
<1>3. QED
  BY <1>1, <1>2

\* Among the numbers up to n that are in a set with 0 there is a greatest.
LEMMA GreatestIs ==
  ASSUME NEW n \in Nat, NEW S \in SUBSET (0..n), 0 \in S
  PROVE  Max(S) \in Nat
<1> DEFINE T == {k \in Nat : \A x \in S : x <= k}
<1>1. n \in T
  OBVIOUS
<1>2. PICK k \in T : \A m \in T : k <= m
  BY <1>1, LeastOf
<1>3. k \in S
  <2>1. SUFFICES ASSUME k \notin S
                 PROVE  FALSE
    OBVIOUS
  <2>2. k # 0 /\ k \in Nat /\ k - 1 \in Nat
    BY <1>2, <2>1
  <2>3. \A x \in S : x <= k - 1
    BY <1>2, <2>1
  <2>4. QED
    BY <1>2, <2>2, <2>3
<1>4. \A y \in S : k >= y
  BY <1>2
<1>5. Max(S) \in S
  BY <1>3, <1>4 DEF Max
<1>6. S \subseteq Nat
  OBVIOUS
<1>7. QED
  BY <1>5, <1>6, Zenon

\* The first of no numbers.
LEMMA FrontOfNone == ASSUME NEW n \in Nat
                     PROVE  Take(Sorted({}), n) = <<>> /\ ToSet(<<>>) = {}
<1>1. /\ Sorted({}) \in Seq(Nat) /\ Len(Sorted({})) = 0
  BY SortedItems, FS_EmptySet
<1>2. Sorted({}) = <<>>
  BY <1>1, EmptySeq
<1>3. <<>> \in Seq(Nat) /\ Len(<<>>) = 0
  BY EmptySeq
<1>4. Len(<<>>) <= n
  BY <1>3
<1>5. Take(<<>>, n) = <<>>
  BY <1>3, <1>4, TakeIs
<1>6. QED
  BY <1>2, <1>5 DEF ToSet

-----------------------------------------------------------------------------
(* Searching.                                                              *)

\* In an increasing enumeration every number is at least as far from the first one as its
\* place is.
LEMMA FarApart ==
  ASSUME NEW S \in SUBSET Nat, IsFiniteSet(S)
  PROVE  \A k \in 1..Cardinality(S) : Sorted(S)[k] >= Sorted(S)[1] + (k - 1)
<1> DEFINE n == Cardinality(S)
           f == Sorted(S)
           Near == {k \in 1..n : ~(f[k] >= f[1] + (k - 1))}
<1>1. /\ n \in Nat /\ f \in [1..n -> S]
      /\ \A i, j \in 1..n : i < j => f[i] < f[j]
  BY SortedIs DEF Enumerates
<1>2. \A k \in 1..n : f[k] \in Nat
  BY <1>1
<1> HIDE DEF n, f
<1>3. SUFFICES ASSUME Near # {}
               PROVE  FALSE
  BY DEF n, f
<1>4. Near \in SUBSET Nat
  BY <1>1
<1>5. PICK k \in Near : \A m \in Near : k <= m
  BY <1>3, <1>4, LeastOf
<1>6. k \in 1..n /\ ~(f[k] >= f[1] + (k - 1)) /\ 1 \in 1..n
  BY <1>1, <1>5
<1>7. k # 1
  BY <1>2, <1>6
<1>8. k - 1 \in 1..n /\ k - 1 < k
  BY <1>1, <1>6, <1>7
<1>9. f[k - 1] >= f[1] + (k - 1 - 1)
  <2>1. k - 1 \notin Near
    BY <1>1, <1>5, <1>8
  <2>2. QED
    BY <1>8, <2>1
<1>10. f[k - 1] < f[k]
  BY <1>1, <1>6, <1>8
<1>11. QED
  BY <1>1, <1>2, <1>6, <1>8, <1>9, <1>10

\* The first line that matches is among those shown: there are no more than half of the
\* limit before it.
LEMMA ContextShowsMatch ==
  ASSUME NEW lines \in Seq(Nat), NEW max \in Nat, max > 1,
         NEW i \in ToSet(lines), Wanted(i)
  PROVE  \E j \in ToSet(extractLogContext(lines, max)) : Wanted(j)
<1> DEFINE half == IF max \div 2 < 1 THEN 1 ELSE max \div 2
           near == {k \in DOMAIN lines :
                     \E j \in (k - half)..(k + half) : j \in DOMAIN lines /\ Wanted(lines[j])}
           hits == {k \in DOMAIN lines : Wanted(lines[k])}
           f == Sorted(near)
           n == Cardinality(near)
           q == AtPlaces(lines, near)
<1>1. half \in Nat /\ half > 0 /\ half + 1 <= max
  OBVIOUS
<1>2. DOMAIN lines = 1..Len(lines) /\ Len(lines) \in Nat
  BY LenProperties
<1>3. extractLogContext(lines, max) = Take(q, max)
  BY DEF extractLogContext
<1> HIDE DEF half
<1>4. hits # {} /\ hits \in SUBSET Nat
  BY <1>2 DEF ToSet
<1>5. PICK m \in hits : \A x \in hits : m <= x
  BY <1>4, LeastOf
<1>6. m \in DOMAIN lines /\ m \in Nat /\ Wanted(lines[m])
  BY <1>4, <1>5
<1>7. m \in near
  <2>1. m \in (m - half)..(m + half)
    BY <1>1, <1>6
  <2>2. QED
    BY <1>6, <2>1
<1>8. \A k \in near : k \in Nat /\ m - half <= k
  <2>1. SUFFICES ASSUME NEW k \in near
                 PROVE  k \in Nat /\ m - half <= k
    OBVIOUS
  <2>2. PICK j \in (k - half)..(k + half) : j \in DOMAIN lines /\ Wanted(lines[j])
    OBVIOUS
  <2>3. m <= j /\ k \in Nat
    BY <1>2, <1>5, <2>2
  <2>4. QED
    BY <1>1, <1>6, <2>2, <2>3
<1>9. IsFiniteSet(near) /\ near \in SUBSET Nat /\ near \in SUBSET DOMAIN lines
  <2>1. near \in SUBSET DOMAIN lines
    OBVIOUS
  <2> HIDE DEF near
  <2>2. IsFiniteSet(DOMAIN lines) /\ DOMAIN lines \subseteq Nat
    BY <1>2, CountTo
  <2>3. IsFiniteSet(near)
    BY <2>1, <2>2, FS_Subset
  <2>4. QED
    BY <2>1, <2>2, <2>3
<1> HIDE DEF near
<1>10. /\ n \in Nat /\ f \in [1..n -> near]
       /\ \A x \in near : \E k \in 1..n : f[k] = x
       /\ \A k \in 1..n : f[k] >= f[1] + (k - 1)
  BY <1>9, SortedIs, FarApart DEF Enumerates
<1>11. /\ q \in Seq(Nat) /\ Len(q) = n
       /\ q = [k \in 1..n |-> lines[f[k]]]
  BY <1>9, PlacesAre DEF AtPlaces
<1> HIDE DEF f, n, q
<1>12. PICK k \in 1..n : f[k] = m
  BY <1>7, <1>10
<1>13. k <= max
  <2>1. f[1] \in near /\ f[1] \in Nat /\ m - half <= f[1]
    BY <1>8, <1>10, <1>12
  <2>2. m >= f[1] + (k - 1)
    BY <1>10, <1>12
  <2>3. k \in Nat
    BY <1>12
  <2>4. QED
    BY <1>1, <1>6, <2>1, <2>2, <2>3
<1>14. /\ Take(q, max) \in Seq(Nat)
       /\ Len(Take(q, max)) = IF max < n THEN max ELSE n
       /\ \A x \in 1..Len(Take(q, max)) : Take(q, max)[x] = q[x]
  BY <1>11, TakeIs
<1>15. k \in 1..Len(Take(q, max))
  BY <1>10, <1>12, <1>13, <1>14
<1>16. Take(q, max)[k] = lines[m]
  BY <1>11, <1>12, <1>14, <1>15
<1>17. lines[m] \in ToSet(Take(q, max))
  <2>1. DOMAIN Take(q, max) = 1..Len(Take(q, max))
    BY <1>14, LenProperties
  <2>2. QED
    BY <1>15, <1>16, <2>1 DEF ToSet
<1>18. QED
  BY <1>3, <1>6, <1>17
=============================================================================

--------------------------- MODULE NumbersProofs ----------------------------
(***************************************************************************)
(* Proofs about Numbers: for words of any width, any number of attempts    *)
(* and any length of a second.  The provers know neither powers of two nor *)
(* induction: the first follow from the number of subsets of a finite set, *)
(* the second from the least counterexample.                               *)
(***************************************************************************)
EXTENDS Numbers, FiniteSetTheorems, WellFoundedInduction, TLAPS

-----------------------------------------------------------------------------
(* The least element of a set of naturals.                                 *)

Below == OpToRel(<, Nat)

\* A smaller natural number is Below a larger one.
LEMMA BelowIntro == ASSUME NEW m \in Nat, NEW n \in Nat, m < n
                    PROVE  <<m, n>> \in Below
<1>1. Below = {p \in Nat \X Nat : p[1] < p[2]}
  BY DEF Below, OpToRel
<1>2. <<m, n>> \in {p \in Nat \X Nat : p[1] < p[2]}
  OBVIOUS
<1>3. QED
  BY <1>1, <1>2

\* A set of naturals that is not empty has a least element: what stands in for induction.
LEMMA LeastElement == ASSUME NEW T \in SUBSET Nat, T # {}
                      PROVE  \E n \in T : \A m \in T : n <= m
<1>1. IsWellFoundedOn(Below, Nat)
  BY NatLessThanWellFounded DEF Below
<1>2. PICK n \in T : \A m \in T : <<m, n>> \notin Below
  BY <1>1, WFMin, Zenon
<1>3. \A m \in T : ~(m < n)
  BY <1>2, BelowIntro
<1>4. \A m \in T : n <= m
  BY <1>3
<1>5. QED
  BY <1>4

-----------------------------------------------------------------------------
(* Powers of two.                                                          *)

\* A set of n elements has 2^n subsets.
LEMMA PowerCounts == ASSUME NEW n \in Nat
                     PROVE  /\ IsFiniteSet(SUBSET (1..n))
                            /\ 2^n = Cardinality(SUBSET (1..n)) /\ 2^n \in Nat
<1>1. IsFiniteSet(1..n) /\ Cardinality(1..n) = n
  BY FS_Interval
<1>2. Cardinality(SUBSET (1..n)) = 2^Cardinality(1..n) /\ IsFiniteSet(SUBSET (1..n))
  BY <1>1, FS_SUBSET, Zenon
<1>3. Cardinality(SUBSET (1..n)) \in Nat
  BY <1>2, FS_CardinalityType, Zenon
<1>4. QED
  BY <1>1, <1>2, <1>3, Zenon

\* Half the subsets of 1..n+1 hold n+1: they are as many as those that do not.
LEMMA PowerDoubles == ASSUME NEW n \in Nat
                      PROVE  2^(n + 1) = 2 * 2^n
<1> DEFINE Low  == SUBSET (1..n)
           High == {X \in SUBSET (1..n + 1) : n + 1 \in X}
           add  == [X \in Low |-> X \cup {n + 1}]
<1>1. IsFiniteSet(Low) /\ 2^n = Cardinality(Low) /\ 2^n \in Nat
  BY PowerCounts
<1>2. n + 1 \in Nat /\ 2^(n + 1) = Cardinality(SUBSET (1..n + 1))
  BY PowerCounts
<1>3. 1..n + 1 = (1..n) \cup {n + 1} /\ n + 1 \notin 1..n
  OBVIOUS
<1>4. add \in Bijection(Low, High)
  <2> HIDE DEF Low, High
  <2>1. \A X \in Low : X \cup {n + 1} \in High
    BY <1>3 DEF Low, High
  <2>2. \A X, Y \in Low : X \cup {n + 1} = Y \cup {n + 1} => X = Y
    BY <1>3 DEF Low
  <2>3. \A Y \in High : Y \ {n + 1} \in Low /\ (Y \ {n + 1}) \cup {n + 1} = Y
    BY <1>3 DEF Low, High
  <2>4. add \in [Low -> High]
    BY <2>1
  <2>5. add \in Injection(Low, High)
    BY <2>2, <2>4 DEF Injection, IsInjective
  <2>6. add \in Surjection(Low, High)
    BY <2>3, <2>4 DEF Surjection
  <2>7. QED
    BY <2>5, <2>6 DEF Bijection
<1>5. IsFiniteSet(High) /\ Cardinality(High) = Cardinality(Low)
  BY <1>1, <1>4, FS_Bijection DEF ExistsBijection
<1>6. SUBSET (1..n + 1) = Low \cup High /\ Low \cap High = {}
  BY <1>3
<1>7. Cardinality(Low \cup High) = Cardinality(Low) + Cardinality(High) - Cardinality({})
  BY <1>1, <1>5, <1>6, FS_Union, Zenon
<1>8. Cardinality({}) = 0
  BY FS_EmptySet
<1> HIDE DEF Low, High
<1>9. Cardinality(Low \cup High) = 2 * 2^n
  BY <1>1, <1>5, <1>7, <1>8
<1>10. QED
  BY <1>2, <1>6, <1>9, Zenon

\* No power of two is zero.
LEMMA PowerPositive == ASSUME NEW n \in Nat
                       PROVE  2^n \in Nat /\ 2^n > 0
<1>1. IsFiniteSet(SUBSET (1..n)) /\ 2^n = Cardinality(SUBSET (1..n)) /\ 2^n \in Nat
  BY PowerCounts
<1>2. SUBSET (1..n) # {}
  OBVIOUS
<1>3. Cardinality(SUBSET (1..n)) # 0
  BY <1>1, <1>2, FS_EmptySet, Zenon
<1>4. QED
  BY <1>1, <1>3

\* The first power is one.
LEMMA PowerOfZero == 2^0 = 1
<1>1. IsFiniteSet(1..0) /\ Cardinality(1..0) = 0
  BY FS_Interval
<1>2. 2^0 = Cardinality(SUBSET (1..0))
  BY PowerCounts
<1>3. SUBSET (1..0) = {{}}
  OBVIOUS
<1>4. QED
  BY <1>2, <1>3, FS_Singleton, Zenon

-----------------------------------------------------------------------------
(* Words.                                                                  *)

\* There are as many words below zero as from zero on, and 2^Width in all.
LEMMA WordBounds == /\ MaxWord \in Nat /\ MaxWord > 1
                    /\ MinWord = -MaxWord - 1
                    /\ 2^Width = 2 * MaxWord + 2
<1> DEFINE w == Width - 1
<1>1. w \in Nat /\ w = (w - 1) + 1 /\ w - 1 \in Nat /\ Width = w + 1
  BY NumbersAssumption
<1>2. w - 1 = (w - 2) + 1 /\ w - 2 \in Nat
  BY NumbersAssumption
<1>3. 2^(w - 2) \in Nat /\ 2^(w - 2) > 0
  BY <1>2, PowerPositive
<1>4. 2^(w - 1) = 2 * 2^(w - 2)
  BY <1>2, PowerDoubles
<1>5. 2^w = 2 * 2^(w - 1)
  BY <1>1, PowerDoubles
<1>6. 2^Width = 2 * 2^w
  BY <1>1, PowerDoubles
<1> HIDE DEF w
<1>7. 2^w \in Nat /\ 2^w > 2
  BY <1>3, <1>4, <1>5
<1>8. MaxWord = 2^w - 1 /\ MinWord = -(2^w)
  BY DEF MaxWord, MinWord, w
<1>9. QED
  BY <1>6, <1>7, <1>8

\* What is less than a modulus is its own remainder.
LEMMA SmallRemainder == ASSUME NEW n \in Nat, NEW m \in Nat, n < m
                        PROVE  n % m = n
  OBVIOUS

\* A word is not changed by being stored.
LEMMA WrapFits == ASSUME NEW n \in Words
                  PROVE  Wrap(n) = n
<1>1. n \in Int /\ MinWord <= n /\ n <= MaxWord
  BY WordBounds DEF Words
<1>2. n - MinWord \in Nat /\ 2^Width \in Nat /\ n - MinWord < 2^Width
  BY <1>1, WordBounds
<1>3. (n - MinWord) % 2^Width = n - MinWord
  BY <1>2, SmallRemainder
<1>4. QED
  BY <1>1, <1>3, WordBounds DEF Wrap

\* The words are the integers from MinWord to MaxWord.
LEMMA WordsAre == ASSUME NEW n \in Int, -MaxWord - 1 <= n, n <= MaxWord
                  PROVE  n \in Words
  BY WordBounds DEF Words

-----------------------------------------------------------------------------
(* ValidateTimerange.                                                      *)

\* A span that fits a Duration is compared as it is.
LEMMA RelativeGuarded ==
  ASSUME NEW range \in Words, NEW max \in Guardrails, ValidateRelative(range, max)
  PROVE  RangeGuarded'
<1> DEFINE units == IF range <= 0 THEN DefaultRange ELSE range
           span  == units * Second
<1>1. units \in Int /\ units > 0 /\ max \in Int /\ max > 0 /\ Second \in Int /\ Second > 0
  BY WordBounds, NumbersAssumption DEF Words, Guardrails, DefaultRange
<1> HIDE DEF units
<1>2. span \in Int /\ span > 0
  BY <1>1
<1>3. call' = [fn |-> "relative", max |-> max, span |-> span]
  BY DEF ValidateRelative, units
<1>4. result' = Verdict(Wrap(span), max)
  BY DEF ValidateRelative, RelativeSpan, units
<1> HIDE DEF span
<1>5. ASSUME span <= MaxWord
      PROVE  /\ result' = (IF span > max THEN Refused ELSE Value(span))
             /\ (result'.ok <=> span <= max)
  <2>1. span \in Words
    BY <1>2, <1>5, WordBounds, WordsAre
  <2>2. Wrap(span) = span
    BY <2>1, WrapFits
  <2>3. QED
    BY <1>1, <1>2, <1>4, <2>2 DEF Verdict, Refused, Value
<1>6. (call.fn)' = "relative" /\ (call.span)' = span /\ (call.max)' = max
  BY <1>3
<1>7. QED
  BY <1>1, <1>2, <1>5, <1>6 DEF RangeGuarded, Fits

\* A span that a Duration can hold, either way round, is compared by its length.
LEMMA AbsoluteGuarded ==
  ASSUME NEW from \in Int, NEW to \in Int, NEW max \in Guardrails,
         ValidateAbsolute(from, to, max)
  PROVE  RangeGuarded'
<1> DEFINE span == to - from
           diff == Sub(to, from)
<1>1. max \in Int /\ 0 < max /\ max < MaxWord /\ MaxWord \in Int /\ MinWord = -MaxWord - 1
  BY WordBounds DEF Guardrails
<1>2. span \in Int
  OBVIOUS
<1>3. (call.fn)' = "absolute" /\ (call.span)' = span /\ (call.max)' = max
  BY DEF ValidateAbsolute
<1>4. result' = Verdict(Absolute(diff), max)
  BY DEF ValidateAbsolute
<1>5. diff = IF span > MaxWord THEN MaxWord ELSE IF span < MinWord THEN MinWord ELSE span
  BY DEF Sub
<1> HIDE DEF span, diff
<1>6. ASSUME span > MinWord
      PROVE  result'.ok <=> span <= max /\ -span <= max
  <2>1. diff \in Int /\ diff = IF span > MaxWord THEN MaxWord ELSE span
    BY <1>1, <1>2, <1>5, <1>6
  <2>2. CASE diff < 0
    <3>1. -diff \in Words
      BY <1>1, <1>6, <2>1, <2>2, WordsAre
    <3>2. Absolute(diff) = -diff
      BY <2>2, <3>1, WrapFits DEF Absolute
    <3>3. result'.ok <=> ~(-diff > max)
      BY <1>4, <3>2 DEF Verdict, Refused, Value
    <3>4. QED
      BY <1>1, <1>2, <2>1, <2>2, <3>3
  <2>3. CASE ~(diff < 0)
    <3>1. result'.ok <=> ~(diff > max)
      BY <1>4, <2>3 DEF Absolute, Verdict, Refused, Value
    <3>2. QED
      BY <1>1, <1>2, <2>1, <2>3, <3>1
  <2>4. QED
    BY <2>2, <2>3
<1>7. QED
  BY <1>3, <1>6 DEF RangeGuarded, Fits

-----------------------------------------------------------------------------
(* AsIntOK and AsDurationOK.                                               *)

\* A number that is accepted is the one that was sent.
LEMMA IntKept ==
  ASSUME NEW n \in Large, NEW kind \in {"int", "float"}, AsIntOK(kind, n)
  PROVE  NumberKept'
<1>1. n \in Int /\ MaxWord \in Int /\ MinWord = -MaxWord - 1
  BY WordBounds DEF Large, FloatMax
<1>2. CASE kind = "float"
  <2>1. (call.halves)' = n /\ result' \in int64FromFloat(n)
    BY <1>2 DEF AsIntOK
  <2>2. SUFFICES ASSUME result'.ok, n # 2 * FloatMax
                 PROVE  2 * result'.val = n
    BY <2>1 DEF NumberKept, FloatMax, MaxWord
  <2>3. /\ n % 2 = 0 /\ 2 * MinWord <= n /\ n <= 2 * FloatMax
        /\ result' \in {Value(m) : m \in FromFloat(n \div 2)}
    BY <1>1, <2>1, <2>2 DEF int64FromFloat, Refused, FloatMax
  <2>4. n \div 2 \in Int /\ n = 2 * (n \div 2)
    BY <1>1, <2>3
  <2>5. n \div 2 \in Words
    BY <1>1, <2>2, <2>3, <2>4, WordsAre DEF FloatMax
  <2>6. result' = Value(n \div 2)
    BY <2>3, <2>5 DEF FromFloat
  <2>7. QED
    BY <2>4, <2>6 DEF Value
<1>3. CASE kind = "int"
  <2>1. (call.halves)' = 2 * n /\ result' = asInt64OK(n)
    BY <1>3 DEF AsIntOK
  <2>2. result'.ok => result'.val = n
    BY <2>1 DEF asInt64OK, Refused, Value
  <2>3. QED
    BY <2>1, <2>2 DEF NumberKept
<1>4. QED
  BY <1>2, <1>3

\* Multiplication keeps the order.
LEMMA TimesGrows == ASSUME NEW a \in Nat, NEW b \in Nat, NEW c \in Nat, a <= b
                    PROVE  a * c <= b * c /\ a * c \in Nat
<1>1. PICK d \in Nat : b = a + d
  <2>1. b - a \in Nat /\ b = a + (b - a)
    OBVIOUS
  <2>2. QED
    BY <2>1
<1>2. b * c = a * c + d * c /\ a * c \in Nat /\ d * c \in Nat
  BY <1>1
<1>3. QED
  BY <1>2

\* A duration that is accepted is the one that was sent, whatever its kind.
LEMMA SecondsKept ==
  ASSUME NEW n \in Large, NEW kind \in {"int", "float", "text"}, AsDurationOK(kind, n)
  PROVE  DurationKept'
<1>1. n \in Int /\ MaxWord \in Nat /\ MinWord = -MaxWord - 1
  BY WordBounds DEF Large, FloatMax
<1>2. CASE kind = "float"
  <2>1. (call.halves)' = n /\ result' \in durationFromFloatSeconds(n)
    BY <1>2 DEF AsDurationOK
  <2>2. SUFFICES ASSUME result'.ok, n # 2 * FloatMax
                 PROVE  result'.val >= 0 /\ result'.val = TowardZero(n)
    BY <2>1 DEF DurationKept, FloatMax, MaxWord
  <2>3. ~(n < 0 \/ n > 2 * FloatMax) /\ result' \in {Value(m) : m \in FromFloat(n \div 2)}
    BY <2>1, <2>2 DEF durationFromFloatSeconds, Refused
  <2>4. n \in Nat /\ n < 2 * FloatMax /\ n \div 2 \in Nat /\ 2 * (n \div 2) <= n
    BY <1>1, <2>2, <2>3 DEF FloatMax
  <2>5. n \div 2 \in Words
    BY <1>1, <2>4, WordsAre DEF FloatMax
  <2>6. result' = Value(n \div 2) /\ TowardZero(n) = n \div 2
    BY <1>1, <2>3, <2>5 DEF FromFloat, TowardZero
  <2>7. QED
    BY <2>4, <2>6 DEF Value
<1>3. CASE kind = "int"
  <2>1. (call.halves)' = 2 * n * Second /\ result' = Seconds(n)
    BY <1>3 DEF AsDurationOK
  <2>2. SUFFICES ASSUME result'.ok
                 PROVE  result'.val >= 0 /\ result'.val = TowardZero(2 * n * Second)
    BY <2>1 DEF DurationKept
  <2> DEFINE most == MaxWord \div Second
  <2>3. ~(n < 0) /\ ~(n > most) /\ result' = Value(Wrap(n * Second))
    BY <2>1, <2>2 DEF Seconds, Refused
  <2>4. Second \in Nat /\ Second > 0 /\ most \in Nat /\ most * Second <= MaxWord
    BY <1>1, NumbersAssumption
  <2> HIDE DEF most
  <2>5. n \in Nat /\ n <= most
    BY <1>1, <2>3, <2>4
  <2>6. n * Second \in Nat /\ n * Second <= MaxWord
    BY <1>1, <2>4, <2>5, TimesGrows
  <2>7. Wrap(n * Second) = n * Second
    BY <1>1, <2>6, WordsAre, WrapFits
  <2>8. TowardZero(2 * n * Second) = n * Second
    <3> DEFINE nanos == n * Second
    <3>1. 2 * n * Second = 2 * nanos /\ nanos \in Nat
      BY <2>4, <2>5, <2>6
    <3> HIDE DEF nanos
    <3>2. (2 * nanos) \div 2 = nanos /\ ~(2 * nanos < 0)
      BY <3>1
    <3>3. TowardZero(2 * nanos) = nanos
      BY <3>2 DEF TowardZero
    <3>4. QED
      BY <3>1, <3>3 DEF nanos
  <2>9. QED
    BY <2>3, <2>6, <2>7, <2>8 DEF Value
<1>4. CASE kind = "text"
  <2>1. (call.halves)' = n /\ (call.kind)' = "text" /\ result' = ParseDuration(n)
    BY <1>4 DEF AsDurationOK
  <2>2. result'.ok => result'.val = TowardZero(n)
    BY <2>1 DEF ParseDuration, Refused, Value
  <2>3. QED
    BY <2>1, <2>2 DEF DurationKept, FloatMax, MaxWord
<1>5. QED
  BY <1>2, <1>3, <1>4

\* A time.Duration is taken as it is, negative or not.
LEMMA DurationTaken ==
  ASSUME NEW n \in Words, AsDurationOK("duration", n)
  PROVE  DurationKept'
<1>1. n \in Int
  BY WordBounds DEF Words
<1>2. (call.halves)' = 2 * n /\ (call.kind)' = "duration" /\ result'.val = n
  BY DEF AsDurationOK, Value
<1>3. TowardZero(2 * n) = n
  BY <1>1 DEF TowardZero
<1>4. QED
  BY <1>2, <1>3 DEF DurationKept, FloatMax, MaxWord

-----------------------------------------------------------------------------
(* nextBackoff.                                                            *)

\* The delays before the jitter, one per failure: the recursion of nextBackoff has a value.
LEMMA DelaysExist ==
  ASSUME NEW base \in Int, NEW max \in Int, NEW attempt \in Nat
  PROVE  \E g : g = [i \in 0..attempt |-> IF i = 0 THEN base ELSE Doubling(g[i - 1], max)]
<1> DEFINE Delays(g, n) == g = [i \in 0..n |-> IF i = 0 THEN base ELSE Doubling(g[i - 1], max)]
           Without == {n \in Nat : ~\E g : Delays(g, n)}
<1>1. SUFFICES ASSUME Without # {}
               PROVE  FALSE
  OBVIOUS
<1>2. Without \in SUBSET Nat
  OBVIOUS
<1> HIDE DEF Without
<1>3. PICK n \in Without : \A m \in Without : n <= m
  BY <1>1, <1>2, LeastElement
<1>4. n \in Nat /\ ~\E g : Delays(g, n)
  BY <1>3 DEF Without
<1>5. CASE n = 0
  <2> DEFINE g == [i \in 0..0 |-> base]
  <2>1. g = [i \in 0..0 |-> IF i = 0 THEN base ELSE Doubling(g[i - 1], max)]
    OBVIOUS
  <2>2. Delays(g, 0)
    BY <2>1
  <2>3. QED
    BY <1>4, <1>5, <2>2
<1>6. CASE n > 0
  <2>1. n - 1 \in Nat /\ ~(n <= n - 1)
    BY <1>4, <1>6
  <2>2. PICK g : Delays(g, n - 1)
    BY <1>3, <2>1 DEF Without
  <2> DEFINE h == [i \in 0..n |-> IF i = n THEN Doubling(g[n - 1], max) ELSE g[i]]
  <2>3. \A i \in 0..n - 1 : g[i] = IF i = 0 THEN base ELSE Doubling(g[i - 1], max)
    BY <2>2
  <2>4. \A i \in 0..n : h[i] = IF i = 0 THEN base ELSE Doubling(h[i - 1], max)
    BY <1>4, <1>6, <2>3
  <2>5. h = [i \in 0..n |-> h[i]]
    OBVIOUS
  <2> HIDE DEF h
  <2>6. Delays(h, n)
    BY <2>4, <2>5
  <2>7. QED
    BY <1>4, <2>6
<1>7. QED
  BY <1>4, <1>5, <1>6

\* With room for the jitter, doubling a delay from 1 to the maximum gives another, and the
\* maximum from half of it on.
LEMMA DoublingStep ==
  ASSUME NEW max \in Nat, max <= MaxWord, NEW delay \in 1..max
  PROVE  /\ Doubling(delay, max) \in 1..max
         /\ Doubling(delay, max) = max \/ Doubling(delay, max) = 2 * delay
<1>1. CASE delay >= max \div 2
  BY <1>1 DEF Doubling
<1>2. CASE ~(delay >= max \div 2)
  <2>1. 2 * delay \in 1..max
    BY <1>2
  <2>2. 2 * delay \in Words
    BY <2>1, WordBounds, WordsAre
  <2>3. Doubling(delay, max) = 2 * delay
    BY <1>2, <2>2, WrapFits DEF Doubling
  <2>4. QED
    BY <2>1, <2>3
<1>3. QED
  BY <1>1, <1>2

\* After any number of failures the delay is between 1 and the maximum, and no less than
\* the base doubled that many times, up to the maximum.
LEMMA DelaysBounded ==
  ASSUME NEW base \in Nat, base > 0, NEW max \in Nat, base <= max, max <= MaxWord,
         NEW attempt \in Nat, NEW g,
         g = [i \in 0..attempt |-> IF i = 0 THEN base ELSE Doubling(g[i - 1], max)]
  PROVE  g[attempt] \in 1..max /\ g[attempt] >= Least(base * 2^attempt, max)
<1> DEFINE Good(i) == g[i] \in 1..max /\ (g[i] = max \/ g[i] >= base * 2^i)
           Bad == {i \in 0..attempt : ~Good(i)}
<1>1. \A i \in 0..attempt : g[i] = IF i = 0 THEN base ELSE Doubling(g[i - 1], max)
  OBVIOUS
<1>2. Bad = {}
  <2>1. SUFFICES ASSUME Bad # {}
                 PROVE  FALSE
    OBVIOUS
  <2>2. Bad \in SUBSET Nat
    OBVIOUS
  <2> HIDE DEF Bad
  <2>3. PICK n \in Bad : \A m \in Bad : n <= m
    BY <2>1, <2>2, LeastElement
  <2>4. n \in 0..attempt /\ ~Good(n)
    BY <2>3 DEF Bad
  <2>5. CASE n = 0
    <3>1. g[0] = base
      BY <1>1, <2>4
    <3>2. Good(0)
      BY <3>1, PowerOfZero
    <3>3. QED
      BY <2>4, <2>5, <3>2
  <2>6. CASE n # 0
    <3> DEFINE p == n - 1
    <3>1. p \in Nat /\ p \in 0..attempt /\ n = p + 1
      BY <2>4, <2>6
    <3> HIDE DEF p
    <3>2. Good(p)
      BY <2>3, <3>1 DEF Bad
    <3>3. g[n] = Doubling(g[p], max)
      BY <1>1, <2>4, <2>6, <3>1
    <3>4. g[n] \in 1..max /\ (g[n] = max \/ g[n] = 2 * g[p])
      BY <3>2, <3>3, DoublingStep
    <3>5. 2^p \in Nat /\ 2^n = 2 * 2^p
      BY <3>1, PowerPositive, PowerDoubles
    <3>6. base * 2^n = 2 * (base * 2^p) /\ base * 2^p \in Nat
      BY <3>5
    <3>7. g[p] \in 1..max /\ (g[p] = max \/ g[p] >= base * 2^p)
      BY <3>2
    <3>8. g[n] = max \/ g[n] >= base * 2^n
      <4>1. CASE g[p] = max
        BY <3>4, <3>7, <4>1
      <4>2. CASE g[p] >= base * 2^p
        <5>1. 2 * g[p] >= 2 * (base * 2^p)
          BY <3>6, <3>7, <4>2
        <5>2. QED
          BY <3>4, <3>6, <5>1
      <4>3. QED
        BY <3>7, <4>1, <4>2
    <3>9. QED
      BY <2>4, <3>4, <3>8
  <2>7. QED
    BY <2>5, <2>6
<1>3. Good(attempt)
  <2>1. attempt \in 0..attempt
    OBVIOUS
  <2> HIDE DEF Good
  <2>2. QED
    BY <1>2, <2>1
<1>4. 2^attempt \in Nat
  BY PowerPositive
<1>5. base * 2^attempt \in Nat
  BY <1>4
<1>6. QED
  BY <1>3, <1>5 DEF Least

\* The delay of a call lies between the base doubled once for each failure, up to the
\* maximum, and one and a half times the maximum.
LEMMA BackoffResult ==
  ASSUME NEW base \in Nat, base > 0, NEW max \in Nat, base <= max, max + max \div 2 <= MaxWord,
         NEW attempt \in Nat, NEW d \in nextBackoff(base, max, attempt)
  PROVE  /\ d \in Int /\ 0 < d /\ d <= max + max \div 2
         /\ d >= Least(base * 2^attempt, max)
<1> DEFINE f[i \in 0..attempt] == IF i = 0 THEN base ELSE Doubling(f[i - 1], max)
<1>1. d \in LET positive == IF f[attempt] <= 0 THEN base ELSE f[attempt]
                delay    == Least(positive, max)
            IN {Wrap(delay + j) : j \in Jitter(delay)}
  BY DEF nextBackoff
<1> DEFINE Delays(g) == g = [i \in 0..attempt |-> IF i = 0 THEN base ELSE Doubling(g[i - 1], max)]
<1>2. f = [i \in 0..attempt |-> IF i = 0 THEN base ELSE Doubling(f[i - 1], max)]
  <2>1. \E g : Delays(g)
    <3>1. base \in Int /\ max \in Int
      OBVIOUS
    <3>2. QED
      BY <3>1, DelaysExist, Zenon
  <2>2. f = CHOOSE g : Delays(g)
    OBVIOUS
  <2> HIDE DEF f, Delays
  <2>3. Delays(f)
    BY <2>1, <2>2, Zenon
  <2>4. QED
    BY <2>3 DEF Delays
<1> HIDE DEF f, Delays
<1>3. max <= MaxWord /\ max \in Int /\ max \div 2 \in Int /\ MaxWord \in Int
  BY WordBounds
<1> DEFINE delay == f[attempt]
           target == Least(base * 2^attempt, max)
<1>4. delay \in 1..max /\ delay >= target
  BY <1>2, <1>3, DelaysBounded
<1> HIDE DEF delay, target
<1>5. PICK j \in Jitter(delay) : d = Wrap(delay + j)
  <2>1. (IF delay <= 0 THEN base ELSE delay) = delay /\ Least(delay, max) = delay
    BY <1>3, <1>4 DEF Least
  <2>2. d \in {Wrap(delay + j) : j \in Jitter(delay)}
    BY <1>1, <2>1 DEF delay
  <2>3. QED
    BY <2>2
<1>6. j \in Nat /\ j <= delay \div 2
  BY <1>4, <1>5 DEF Jitter
<1>7. delay \div 2 <= max \div 2
  BY <1>3, <1>4
<1>8. delay + j \in Int /\ 0 < delay + j /\ delay + j <= max + max \div 2
  BY <1>3, <1>4, <1>6, <1>7
<1>9. d = delay + j
  <2>1. delay + j \in Words
    BY <1>3, <1>8, WordsAre
  <2>2. QED
    BY <1>5, <2>1, WrapFits
<1>10. target \in Int
  <2>1. 2^attempt \in Nat
    BY PowerPositive
  <2>2. base * 2^attempt \in Int
    BY <2>1
  <2>3. QED
    BY <2>2 DEF target, Least
<1>11. d >= target
  BY <1>4, <1>6, <1>9, <1>10
<1>12. QED
  BY <1>8, <1>9, <1>11 DEF target

\* A maximum lower than the base counts as the base (NewClient).
LEMMA BackoffKept ==
  ASSUME NEW base \in 1..MaxWord, NEW max \in 1..MaxWord, NEW attempt \in 0..MaxAttempts,
         Backoff(base, max, attempt)
  PROVE  BackoffBounded' /\ BackoffGrows'
<1> DEFINE most == IF max < base THEN base ELSE max
<1>1. MaxWord \in Int /\ MaxAttempts \in Int
  BY WordBounds, NumbersAssumption
<1>2. base \in Nat /\ base > 0 /\ most \in Nat /\ base <= most /\ attempt \in Nat
  BY <1>1
<1> HIDE DEF most
<1>3. PICK d \in nextBackoff(base, most, attempt) : result' = Value(d)
  BY DEF Backoff, most
<1>4. /\ (call.base)' = base /\ (call.max)' = most /\ (call.attempt)' = attempt
      /\ (result.val)' = d
  BY <1>3 DEF Backoff, Value, most
<1>5. ASSUME most + most \div 2 <= MaxWord
      PROVE  /\ 0 < d /\ d <= most + most \div 2
             /\ d >= Least(base * 2^attempt, most)
  BY <1>2, <1>3, <1>5, BackoffResult
<1>6. MaxWord' = MaxWord
  BY DEF MaxWord
<1>7. BackoffBounded'
  BY <1>4, <1>5, <1>6 DEF BackoffBounded
<1>8. BackoffGrows'
  BY <1>4, <1>5, <1>6 DEF BackoffGrows, Target
<1>9. QED
  BY <1>7, <1>8

-----------------------------------------------------------------------------
(* The theorems.                                                           *)

\* Before a call there is nothing to keep to.
LEMMA Start == ASSUME Init
               PROVE  BackoffBounded /\ BackoffGrows /\ RangeGuarded /\ NumberKept /\ DurationKept
  BY DEF Init, NoCall, BackoffBounded, BackoffGrows, RangeGuarded, NumberKept, DurationKept

\* A call of one function is not a call of another.
LEMMA OtherCalls ==
  /\ (call.fn)' # "nextBackoff" => BackoffBounded' /\ BackoffGrows'
  /\ (call.fn)' \notin {"relative", "absolute"} => RangeGuarded'
  /\ (call.fn)' # "AsIntOK" => NumberKept'
  /\ (call.fn)' # "AsDurationOK" => DurationKept'
  BY DEF BackoffBounded, BackoffGrows, RangeGuarded, NumberKept, DurationKept

\* Whatever is called, with whatever arguments, the result is as it should be.
LEMMA CallStep ==
  ASSUME Next
  PROVE  BackoffBounded' /\ BackoffGrows' /\ RangeGuarded' /\ NumberKept' /\ DurationKept'
<1>1. CASE \E base, max \in 1..MaxWord, attempt \in 0..MaxAttempts : Backoff(base, max, attempt)
  <2>1. BackoffBounded' /\ BackoffGrows'
    BY <1>1, BackoffKept
  <2>2. (call.fn)' = "nextBackoff"
    BY <1>1 DEF Backoff
  <2>3. QED
    BY <2>1, <2>2, OtherCalls
<1>2. CASE \E range \in Words, max \in Guardrails : ValidateRelative(range, max)
  <2>1. RangeGuarded'
    BY <1>2, RelativeGuarded
  <2>2. (call.fn)' = "relative"
    BY <1>2 DEF ValidateRelative
  <2>3. QED
    BY <2>1, <2>2, OtherCalls
<1>3. CASE \E from, to \in 0..FloatMax + 1, max \in Guardrails : ValidateAbsolute(from, to, max)
  <2>1. RangeGuarded'
    <3>1. FloatMax + 1 \in Int
      BY WordBounds DEF FloatMax
    <3>2. QED
      BY <1>3, <3>1, AbsoluteGuarded
  <2>2. (call.fn)' = "absolute"
    BY <1>3 DEF ValidateAbsolute
  <2>3. QED
    BY <2>1, <2>2, OtherCalls
<1>4. CASE \E n \in Large, kind \in {"int", "float"} : AsIntOK(kind, n)
  <2>1. NumberKept'
    BY <1>4, IntKept
  <2>2. (call.fn)' = "AsIntOK"
    BY <1>4 DEF AsIntOK
  <2>3. QED
    BY <2>1, <2>2, OtherCalls
<1>5. CASE \/ \E n \in Large, kind \in {"int", "float", "text"} : AsDurationOK(kind, n)
           \/ \E n \in Words : AsDurationOK("duration", n)
  <2>1. DurationKept'
    BY <1>5, SecondsKept, DurationTaken
  <2>2. (call.fn)' = "AsDurationOK"
    BY <1>5 DEF AsDurationOK
  <2>3. QED
    BY <2>1, <2>2, OtherCalls
<1>6. QED
  BY <1>1, <1>2, <1>3, <1>4, <1>5 DEF Next

\* A call that is over stays as it is.
LEMMA IdleStep ==
  ASSUME UNCHANGED vars
  PROVE  /\ BackoffBounded => BackoffBounded'
         /\ BackoffGrows => BackoffGrows'
         /\ RangeGuarded => RangeGuarded'
         /\ NumberKept => NumberKept'
         /\ DurationKept => DurationKept'
  BY DEF vars, BackoffBounded, BackoffGrows, Target, Least, RangeGuarded, Fits, NumberKept,
         DurationKept, TowardZero, FloatMax, MaxWord, MinWord

\* Client.nextBackoff: a delay is above zero and at most half as long again as the maximum,
\* after any number of attempts.
THEOREM BackoffInBounds == Spec => []BackoffBounded
<1>1. Init => BackoffBounded
  BY Start
<1>2. BackoffBounded /\ [Next]_vars => BackoffBounded'
  BY CallStep, IdleStep
<1>3. QED
  BY <1>1, <1>2, PTL DEF Spec

\* Client.nextBackoff: a delay is never below the base doubled for each failure, or the maximum.
THEOREM BackoffDoubles == Spec => []BackoffGrows
<1>1. Init => BackoffGrows
  BY Start
<1>2. BackoffGrows /\ [Next]_vars => BackoffGrows'
  BY CallStep, IdleStep
<1>3. QED
  BY <1>1, <1>2, PTL DEF Spec

\* ValidateTimerange: a range passes if, and only if, it is no longer than the maximum.
THEOREM RangesGuarded == Spec => []RangeGuarded
<1>1. Init => RangeGuarded
  BY Start
<1>2. RangeGuarded /\ [Next]_vars => RangeGuarded'
  BY CallStep, IdleStep
<1>3. QED
  BY <1>1, <1>2, PTL DEF Spec

\* AsIntOK: a number that is accepted is the one that was sent.
THEOREM NumbersKept == Spec => []NumberKept
<1>1. Init => NumberKept
  BY Start
<1>2. NumberKept /\ [Next]_vars => NumberKept'
  BY CallStep, IdleStep
<1>3. QED
  BY <1>1, <1>2, PTL DEF Spec

\* AsDurationOK: a duration that is accepted is the one that was sent, to the nanosecond; one
\* sent as a number of seconds is not negative.
THEOREM DurationsKept == Spec => []DurationKept
<1>1. Init => DurationKept
  BY Start
<1>2. DurationKept /\ [Next]_vars => DurationKept'
  BY CallStep, IdleStep
<1>3. QED
  BY <1>1, <1>2, PTL DEF Spec
=============================================================================

------------------------------- MODULE Induction -------------------------------
(***************************************************************************)
(* Induction and recursion over the natural numbers for the proofs of this *)
(* project.  The library states them for operators, which the provers      *)
(* cannot instantiate; here they are about sets and functions.             *)
(***************************************************************************)
EXTENDS Integers, FiniteSets, SequencesExt, FiniteSetTheorems, SequenceTheorems,
        WellFoundedInduction, TLAPS

\* A nonempty set of natural numbers has a least element.
LEMMA HasLeast ==
  ASSUME NEW S, S \subseteq Nat, S # {}
  PROVE  \E k \in S : \A m \in S : k <= m
<1>1. PICK k \in S : \A m \in S : ~(<<m, k>> \in OpToRel(<, Nat))
  BY WFMin, NatLessThanWellFounded
<1>2. \A m \in S : ~(m < k)
  BY <1>1 DEF OpToRel
<1>3. \A m \in S : m \in Nat /\ k \in Nat
  OBVIOUS
<1> QED BY <1>2, <1>3

\* A bounded one has a greatest.
LEMMA HasGreatest ==
  ASSUME NEW n \in Nat, NEW S, S \subseteq 0 .. n, S # {}
  PROVE  \E k \in S : \A m \in S : m <= k
<1>1. PICK d \in {n - k : k \in S} : \A e \in {n - k : k \in S} : d <= e
  <2>1. {n - k : k \in S} \subseteq Nat /\ {n - k : k \in S} # {}
    <3>1. \A k \in S : n - k \in Nat
      OBVIOUS
    <3> QED BY <3>1
  <2> QED BY <2>1, HasLeast
<1>2. PICK k \in S : d = n - k
  OBVIOUS
<1>3. \A m \in S : n - k <= n - m
  BY <1>1, <1>2
<1>4. \A m \in S : m \in 0 .. n /\ k \in 0 .. n
  OBVIOUS
<1> QED BY <1>3, <1>4

\* A set that has 0 and with each number the next has all of them.
LEMMA NatInduct ==
  ASSUME NEW S, 0 \in S, \A n \in Nat : n \in S => n + 1 \in S
  PROVE  \A n \in Nat : n \in S
<1>1. SUFFICES ASSUME Nat \ S # {} PROVE FALSE
  OBVIOUS
<1>2. PICK k \in Nat \ S : \A m \in Nat \ S : k <= m
  <2> DEFINE T == Nat \ S
  <2>1. T \subseteq Nat /\ T # {}
    BY <1>1
  <2>2. \E k \in T : \A m \in T : k <= m
    <3> HIDE DEF T
    <3> QED BY <2>1, HasLeast
  <2> QED BY <2>2
<1>3. k # 0 /\ k - 1 \in Nat
  BY <1>2
<1>4. k - 1 \in S
  BY <1>2, <1>3
<1>5. k - 1 + 1 \in S
  BY <1>3, <1>4
<1> QED BY <1>2, <1>5

\* The same from one bound to another.
LEMMA IntervalInduct ==
  ASSUME NEW m \in Nat, NEW n \in Nat, NEW S, m \in S,
         \A k \in m .. n - 1 : k \in S => k + 1 \in S
  PROVE  \A k \in m .. n : k \in S
<1> DEFINE T == {k \in Nat : m + k \in S \/ m + k > n}
<1>1. 0 \in T
  OBVIOUS
<1>2. \A k \in Nat : k \in T => k + 1 \in T
  <2>1. SUFFICES ASSUME NEW k \in Nat, k \in T, m + (k + 1) <= n
                 PROVE  m + (k + 1) \in S
    OBVIOUS
  <2>2. m + k \in m .. n - 1 /\ m + k \in S
    BY <2>1
  <2>3. (m + k) + 1 \in S
    BY <2>2
  <2> QED BY <2>3
<1>3. \A k \in Nat : k \in T
  <2> HIDE DEF T
  <2> QED BY <1>1, <1>2, NatInduct
<1>4. TAKE k \in m .. n
<1>5. k - m \in Nat /\ m + (k - m) = k /\ ~(k > n)
  OBVIOUS
<1> QED BY <1>3, <1>5

-----------------------------------------------------------------------------
(* Recursion *)

\* The functions that follow the step up to n.
RunsTo(X, x, step, n) ==
  {g \in [Nat -> X] : g[0] = x /\ \A k \in Nat : k < n => g[k + 1] = step[<<k, g[k]>>]}

\* There is one for every n, and any two agree where both follow it.
LEMMA RunsExist ==
  ASSUME NEW X, NEW x \in X, NEW step \in [Nat \X X -> X]
  PROVE  \A n \in Nat : RunsTo(X, x, step, n) # {}
<1> DEFINE S == {n \in Nat : RunsTo(X, x, step, n) # {}}
<1>1. 0 \in S
  <2> DEFINE g == [n \in Nat |-> x]
  <2>1. g \in RunsTo(X, x, step, 0)
    BY DEF RunsTo
  <2> QED BY <2>1
<1>2. ASSUME NEW n \in Nat, n \in S PROVE n + 1 \in S
  <2>1. PICK g \in [Nat -> X] :
          g[0] = x /\ \A k \in Nat : k < n => g[k + 1] = step[<<k, g[k]>>]
    BY <1>2 DEF RunsTo
  <2> DEFINE h == [k \in Nat |-> IF k = n + 1 THEN step[<<n, g[n]>>] ELSE g[k]]
  <2>2. h \in [Nat -> X]
    OBVIOUS
  <2>3. h[0] = x
    BY <2>1
  <2>4. ASSUME NEW k \in Nat, k < n + 1 PROVE h[k + 1] = step[<<k, h[k]>>]
    <3>1. h[k] = g[k] /\ k + 1 \in Nat
      BY <2>4
    <3>2. CASE k = n
      BY <3>1, <3>2
    <3>3. CASE k # n
      <4>1. k < n /\ k + 1 # n + 1
        BY <2>4, <3>3
      <4>2. h[k + 1] = g[k + 1]
        BY <4>1, <3>1
      <4> QED BY <4>1, <4>2, <3>1, <2>1
    <3> QED BY <3>2, <3>3
  <2>5. h \in RunsTo(X, x, step, n + 1)
    <3> HIDE DEF h
    <3> QED BY <2>2, <2>3, <2>4 DEF RunsTo
  <2> QED BY <2>5
<1>3. \A n \in Nat : n \in S
  <2> HIDE DEF S
  <2> QED BY <1>1, <1>2, NatInduct
<1> QED BY <1>3

\* Two runs of one recursion agree as far as both go.
LEMMA RunsAgree ==
  ASSUME NEW X, NEW x \in X, NEW step \in [Nat \X X -> X], NEW m \in Nat, NEW n \in Nat,
         NEW g \in RunsTo(X, x, step, m), NEW h \in RunsTo(X, x, step, n)
  PROVE  \A k \in Nat : k <= m /\ k <= n => g[k] = h[k]
<1> DEFINE S == {k \in Nat : k <= m /\ k <= n => g[k] = h[k]}
<1>1. 0 \in S
  BY DEF RunsTo
<1>2. ASSUME NEW k \in Nat, k \in S PROVE k + 1 \in S
  <2>1. SUFFICES ASSUME k + 1 <= m, k + 1 <= n PROVE g[k + 1] = h[k + 1]
    OBVIOUS
  <2>2. g[k] = h[k] /\ k < m /\ k < n
    BY <1>2, <2>1
  <2> QED BY <2>2 DEF RunsTo
<1>3. \A k \in Nat : k \in S
  <2> HIDE DEF S
  <2> QED BY <1>1, <1>2, NatInduct
<1> QED BY <1>3

Recurs(f, x, step) == f[0] = x /\ \A n \in Nat : f[n + 1] = step[<<n, f[n]>>]

\* A step has a function that follows it for ever.
LEMMA Recursion ==
  ASSUME NEW X, NEW x \in X, NEW step \in [Nat \X X -> X]
  PROVE  \E f \in [Nat -> X] : Recurs(f, x, step)
<1> DEFINE g(n) == CHOOSE h \in RunsTo(X, x, step, n) : TRUE
           f == [n \in Nat |-> g(n)[n]]
<1>1. \A n \in Nat : g(n) \in RunsTo(X, x, step, n)
  BY RunsExist
<1>2. \A n \in Nat : /\ g(n) \in [Nat -> X] /\ g(n)[0] = x
                     /\ \A k \in Nat : k < n => g(n)[k + 1] = step[<<k, g(n)[k]>>]
  BY <1>1 DEF RunsTo
<1>3. f \in [Nat -> X] /\ f[0] = x
  <2>1. ASSUME NEW n \in Nat PROVE g(n)[n] \in X
    <3> HIDE DEF g
    <3> QED BY <1>2
  <2>2. g(0)[0] = x
    BY <1>2
  <2>3. f \in [Nat -> X] /\ f[0] = g(0)[0]
    <3> HIDE DEF g
    <3> QED BY <2>1
  <2> HIDE DEF g, f
  <2> QED BY <2>2, <2>3
<1>4. ASSUME NEW n \in Nat PROVE f[n + 1] = step[<<n, f[n]>>]
  <2>1. g(n + 1)[n] = g(n)[n]
    <3>1. g(n + 1) \in RunsTo(X, x, step, n + 1) /\ g(n) \in RunsTo(X, x, step, n)
      BY <1>1
    <3>2. n + 1 \in Nat /\ n <= n + 1 /\ n <= n
      OBVIOUS
    <3> HIDE DEF g
    <3>3. PICK a : a = g(n + 1)
      OBVIOUS
    <3>4. PICK b : b = g(n)
      OBVIOUS
    <3>5. a \in RunsTo(X, x, step, n + 1) /\ b \in RunsTo(X, x, step, n) /\ n + 1 \in Nat
      BY <3>1, <3>2, <3>3, <3>4
    <3>6. \A k \in Nat : k <= n + 1 /\ k <= n => a[k] = b[k]
      BY <3>5, RunsAgree
    <3> QED BY <3>2, <3>3, <3>4, <3>6
  <2>2. g(n + 1)[n + 1] = step[<<n, g(n + 1)[n]>>]
    BY <1>2
  <2> QED BY <2>1, <2>2
<1> HIDE DEF f
<1> QED BY <1>3, <1>4 DEF Recurs

RecursFrom(f, m, n, x, step) ==
  /\ m <= n => f[m] = x
  /\ \A k \in m .. n - 1 : f[k + 1] = step[<<k + 1, f[k]>>]

\* The same between two bounds, with the number of the step.
LEMMA IntervalRecursion ==
  ASSUME NEW m \in Nat, NEW n \in Nat, NEW X, NEW x \in X, NEW step \in [Nat \X X -> X]
  PROVE  \E f \in [m .. n -> X] : RecursFrom(f, m, n, x, step)
<1> DEFINE shifted == [p \in Nat \X X |-> step[<<m + p[1] + 1, p[2]>>]]
<1>1. shifted \in [Nat \X X -> X]
  OBVIOUS
<1>2. PICK g \in [Nat -> X] : g[0] = x /\ \A k \in Nat : g[k + 1] = shifted[<<k, g[k]>>]
  <2> HIDE DEF shifted
  <2>1. \E g \in [Nat -> X] : Recurs(g, x, shifted)
    BY <1>1, Recursion
  <2> QED BY <2>1 DEF Recurs
<1> DEFINE f == [k \in m .. n |-> g[k - m]]
<1>3. f \in [m .. n -> X] /\ (m <= n => f[m] = x)
  BY <1>2
<1>4. ASSUME NEW k \in m .. n - 1 PROVE f[k + 1] = step[<<k + 1, f[k]>>]
  <2>1. k - m \in Nat /\ (k + 1) - m = (k - m) + 1 /\ m + (k - m) + 1 = k + 1
        /\ k \in m .. n /\ k + 1 \in m .. n
    OBVIOUS
  <2>2. g[(k - m) + 1] = shifted[<<k - m, g[k - m]>>]
    BY <2>1, <1>2
  <2>3. shifted[<<k - m, g[k - m]>>] = step[<<m + (k - m) + 1, g[k - m]>>]
    BY <2>1, <1>2
  <2> QED BY <2>1, <2>2, <2>3
<1> HIDE DEF f
<1> QED BY <1>3, <1>4 DEF RecursFrom

\* f has the states that the step leads through from x, one for each number up to N.
Steps(f, N, x, step) ==
  f = [k \in 0 .. N |-> IF k = 0 THEN x ELSE step[<<k, f[k - 1]>>]]

\* There is such a function.
LEMMA StepsExist ==
  ASSUME NEW N \in Nat, NEW X, NEW x \in X, NEW step \in [Nat \X X -> X]
  PROVE  \E f : Steps(f, N, x, step)
<1>1. PICK g \in [0 .. N -> X] : RecursFrom(g, 0, N, x, step)
  <2>1. 0 \in Nat
    OBVIOUS
  <2> QED BY <2>1, IntervalRecursion
<1>2. g[0] = x /\ \A k \in 0 .. N - 1 : g[k + 1] = step[<<k + 1, g[k]>>]
  BY <1>1 DEF RecursFrom
<1>3. ASSUME NEW k \in 0 .. N, k # 0 PROVE g[k] = step[<<k, g[k - 1]>>]
  <2>1. k - 1 \in 0 .. N - 1 /\ (k - 1) + 1 = k
    BY <1>3
  <2> QED BY <1>2, <2>1
<1>4. g = [k \in 0 .. N |-> IF k = 0 THEN x ELSE step[<<k, g[k - 1]>>]]
  BY <1>1, <1>2, <1>3
<1> QED BY <1>4 DEF Steps

-----------------------------------------------------------------------------
(* The members of a set of numbers, in their order *)

UpTo(S, n) == {m \in S : m <= n}
Rank(S, n) == Cardinality(UpTo(S, n))

\* From one number to the next the rank grows by one, or not at all.
LEMMA RankSteps ==
  ASSUME NEW N \in Nat, NEW S, S \subseteq 1 .. N, NEW n \in Nat
  PROVE  /\ IsFiniteSet(UpTo(S, n)) /\ Rank(S, n) \in Nat
         /\ Rank(S, n + 1) = IF n + 1 \in S THEN Rank(S, n) + 1 ELSE Rank(S, n)
<1>1. IsFiniteSet(1 .. N)
  BY FS_Interval
<1>2. UpTo(S, n) \in SUBSET (1 .. N)
  BY DEF UpTo
<1>3. IsFiniteSet(UpTo(S, n))
  BY <1>1, <1>2, FS_Subset
<1>4. Cardinality(UpTo(S, n)) \in Nat
  BY <1>3, FS_CardinalityType
<1>5. CASE n + 1 \in S
  <2>1. UpTo(S, n + 1) = UpTo(S, n) \cup {n + 1} /\ n + 1 \notin UpTo(S, n)
    <3>1. \A m \in S : m \in Nat
      OBVIOUS
    <3>2. \A m \in S : m <= n + 1 <=> m <= n \/ m = n + 1
      BY <3>1
    <3>3. ~(n + 1 <= n)
      OBVIOUS
    <3> QED BY <1>5, <3>2, <3>3 DEF UpTo
  <2>2. Cardinality(UpTo(S, n) \cup {n + 1}) = Cardinality(UpTo(S, n)) + 1
    BY <1>3, <2>1, FS_AddElement
  <2> QED BY <1>3, <1>4, <1>5, <2>1, <2>2 DEF Rank
<1>6. CASE n + 1 \notin S
  <2>1. \A m \in S : m <= n + 1 <=> m <= n
    <3>1. \A m \in S : m \in Nat /\ m # n + 1
      BY <1>6
    <3> QED BY <3>1
  <2>2. UpTo(S, n + 1) = UpTo(S, n)
    BY <2>1 DEF UpTo
  <2> QED BY <1>3, <1>4, <1>6, <2>2 DEF Rank
<1> QED BY <1>5, <1>6

\* The rank of a greater number is no smaller.
LEMMA RankGrows ==
  ASSUME NEW N \in Nat, NEW S, S \subseteq 1 .. N, NEW m \in Nat, NEW n \in Nat, m <= n
  PROVE  Rank(S, m) <= Rank(S, n)
<1>1. IsFiniteSet(UpTo(S, n)) /\ UpTo(S, m) \in SUBSET UpTo(S, n)
  <2>1. IsFiniteSet(UpTo(S, n))
    BY RankSteps
  <2>2. \A k \in S : k \in Nat
    OBVIOUS
  <2>3. \A k \in S : k <= m => k <= n
    BY <2>2
  <2> QED BY <2>1, <2>3 DEF UpTo
<1> QED BY <1>1, FS_Subset DEF Rank

\* The ranks number the members from 1 on, a larger one later.
LEMMA Ranks ==
  ASSUME NEW N \in Nat, NEW S, S \subseteq 1 .. N
  PROVE  /\ IsFiniteSet(S) /\ Cardinality(S) \in Nat
         /\ \A k \in 1 .. Cardinality(S) : \E n \in S : Rank(S, n) = k
         /\ \A n \in S : Rank(S, n) \in 1 .. Cardinality(S)
         /\ \A m, n \in S : m < n => Rank(S, m) < Rank(S, n)
<1>1. Rank(S, N) = Cardinality(S) /\ UpTo(S, N) = S /\ UpTo(S, 0) = {}
  <2>1. \A m \in S : m <= N /\ ~(m <= 0)
    <3>1. \A m \in S : m \in 1 .. N
      OBVIOUS
    <3> QED BY <3>1
  <2>2. UpTo(S, N) = S /\ UpTo(S, 0) = {}
    BY <2>1 DEF UpTo
  <2> QED BY <2>2 DEF Rank
<1>2. IsFiniteSet(S) /\ Cardinality(S) \in Nat
  <2>1. IsFiniteSet(UpTo(S, N)) /\ Rank(S, N) \in Nat
    BY RankSteps
  <2> QED BY <1>1, <2>1
<1>3. Rank(S, 0) = 0
  BY <1>1, FS_EmptySet DEF Rank
<1>4. \A n \in Nat : Rank(S, n) \in Nat
  BY RankSteps
<1>5. ASSUME NEW k \in 1 .. Cardinality(S) PROVE \E n \in S : Rank(S, n) = k
  <2> DEFINE T == {n \in 0 .. N : k <= Rank(S, n)}
  <2>1. T \subseteq Nat /\ T # {}
    <3>1. N \in T
      BY <1>1, <1>2
    <3> QED BY <3>1
  <2>2. PICK n \in T : \A m \in T : n <= m
    <3> HIDE DEF T
    <3> QED BY <2>1, HasLeast
  <2>3. n # 0 /\ n \in 1 .. N
    BY <1>3, <2>2
  <2>4. n - 1 \in 0 .. N /\ n - 1 \notin T
    BY <2>2, <2>3
  <2>5. Rank(S, n - 1) < k /\ k <= Rank(S, n)
    BY <1>4, <2>2, <2>4
  <2>6. Rank(S, n - 1 + 1) = IF n - 1 + 1 \in S THEN Rank(S, n - 1) + 1 ELSE Rank(S, n - 1)
    <3>1. n - 1 \in Nat
      BY <2>3
    <3> QED BY <3>1, RankSteps
  <2>7. n - 1 + 1 = n
    BY <2>3
  <2>8. Rank(S, n - 1) \in Nat /\ Rank(S, n) \in Nat
    BY <1>4, <2>3, <2>4
  <2>9. n \in S /\ Rank(S, n) = k
    <3> HIDE DEF T
    <3> QED BY <2>5, <2>6, <2>7, <2>8
  <2> QED BY <2>9
<1>6. ASSUME NEW m \in Nat, NEW n \in S, m < n PROVE Rank(S, m) < Rank(S, n)
  <2>1. n \in 1 .. N /\ n - 1 \in Nat /\ m <= n - 1 /\ n - 1 + 1 = n
    BY <1>6
  <2>2. Rank(S, m) <= Rank(S, n - 1)
    BY <2>1, RankGrows
  <2>3. Rank(S, n - 1 + 1) = IF n - 1 + 1 \in S THEN Rank(S, n - 1) + 1 ELSE Rank(S, n - 1)
    BY <2>1, RankSteps
  <2>4. Rank(S, n) = Rank(S, n - 1) + 1
    BY <2>1, <2>3
  <2>5. Rank(S, m) \in Nat /\ Rank(S, n - 1) \in Nat
    BY <1>4, <2>1
  <2> QED BY <2>2, <2>4, <2>5
<1>7. ASSUME NEW n \in S PROVE Rank(S, n) \in 1 .. Cardinality(S)
  <2>1. n \in 1 .. N /\ 0 < n
    OBVIOUS
  <2>2. Rank(S, 0) < Rank(S, n) /\ Rank(S, n) <= Rank(S, N)
    <3>1. Rank(S, 0) < Rank(S, n)
      BY <2>1, <1>6
    <3>2. Rank(S, n) <= Rank(S, N)
      <4>1. n \in Nat /\ n <= N
        BY <2>1
      <4> QED BY <4>1, RankGrows
    <3> QED BY <3>1, <3>2
  <2>3. Rank(S, n) \in Nat
    BY <1>4, <2>1
  <2> QED BY <1>1, <1>2, <1>3, <2>2, <2>3
<1> QED
  <2>1. \A m, n \in S : m < n => Rank(S, m) < Rank(S, n)
    BY <1>6
  <2> QED BY <1>2, <1>5, <1>7, <2>1

\* The member of rank k.
Nth(S, k) == CHOOSE n \in S : Rank(S, n) = k

\* One after the other, each once.
LEMMA Enumerates ==
  ASSUME NEW N \in Nat, NEW S, S \subseteq 1 .. N
  PROVE  /\ \A k \in 1 .. Cardinality(S) : Nth(S, k) \in S /\ Rank(S, Nth(S, k)) = k
         /\ \A n \in S : Rank(S, n) \in 1 .. Cardinality(S) /\ Nth(S, Rank(S, n)) = n
<1>1. \A k \in 1 .. Cardinality(S) : Nth(S, k) \in S /\ Rank(S, Nth(S, k)) = k
  <2>1. \A k \in 1 .. Cardinality(S) : \E n \in S : Rank(S, n) = k
    BY Ranks
  <2> QED BY <2>1 DEF Nth
<1>2. ASSUME NEW n \in S
      PROVE  Rank(S, n) \in 1 .. Cardinality(S) /\ Nth(S, Rank(S, n)) = n
  <2>1. Rank(S, n) \in 1 .. Cardinality(S)
    BY Ranks
  <2>2. PICK m : m = Nth(S, Rank(S, n))
    OBVIOUS
  <2>3. m \in S /\ Rank(S, m) = Rank(S, n)
    BY <1>1, <2>1, <2>2
  <2>4. m \in Nat /\ n \in Nat /\ Rank(S, n) \in Nat
    BY <2>1, <2>3
  <2>5. ~(m < n) /\ ~(n < m)
    <3>1. \A a, b \in S : a < b => Rank(S, a) < Rank(S, b)
      BY Ranks
    <3> QED BY <3>1, <2>3, <2>4
  <2>6. m = n
    BY <2>4, <2>5
  <2> QED BY <2>1, <2>2, <2>6
<1> QED BY <1>1, <1>2

\* Two neighbours are next to each other among the members too.
LEMMA NthOfNeighbour ==
  ASSUME NEW N \in Nat, NEW S, S \subseteq 1 .. N, NEW n \in S, n + 1 \in S
  PROVE  /\ Rank(S, n) \in 1 .. Cardinality(S) - 1 /\ Rank(S, n + 1) = Rank(S, n) + 1
         /\ Nth(S, Rank(S, n)) = n /\ Nth(S, Rank(S, n) + 1) = n + 1
<1>1. Rank(S, n + 1) = Rank(S, n) + 1
  <2>1. n \in Nat
    OBVIOUS
  <2> QED BY <2>1, RankSteps
<1>2. /\ Rank(S, n) \in 1 .. Cardinality(S) /\ Nth(S, Rank(S, n)) = n
      /\ Rank(S, n + 1) \in 1 .. Cardinality(S) /\ Nth(S, Rank(S, n + 1)) = n + 1
  BY Enumerates
<1>3. Cardinality(S) \in Nat
  BY Ranks
<1> QED BY <1>1, <1>2, <1>3

\* The ends: the smallest number that may be a member, and the largest.
LEMMA NthOfEnds ==
  ASSUME NEW N \in Nat, NEW S, S \subseteq 1 .. N
  PROVE  /\ 1 \in S => 1 <= Cardinality(S) /\ Nth(S, 1) = 1
         /\ N \in S => 1 <= Cardinality(S) /\ Nth(S, Cardinality(S)) = N
<1>1. Cardinality(S) \in Nat
  BY Ranks
<1>2. ASSUME 1 \in S PROVE 1 <= Cardinality(S) /\ Nth(S, 1) = 1
  <2>1. UpTo(S, 0) = {}
    <3>1. \A m \in S : m \in 1 .. N /\ ~(m <= 0)
      OBVIOUS
    <3> QED BY <3>1 DEF UpTo
  <2>2. Rank(S, 0) = 0
    BY <2>1, FS_EmptySet DEF Rank
  <2>3. Rank(S, 0 + 1) = IF 0 + 1 \in S THEN Rank(S, 0) + 1 ELSE Rank(S, 0)
    BY RankSteps
  <2>4. Rank(S, 1) = 1
    BY <1>2, <2>2, <2>3
  <2>5. Rank(S, 1) \in 1 .. Cardinality(S) /\ Nth(S, Rank(S, 1)) = 1
    BY <1>2, Enumerates
  <2> QED BY <1>1, <2>4, <2>5
<1>3. ASSUME N \in S PROVE 1 <= Cardinality(S) /\ Nth(S, Cardinality(S)) = N
  <2>1. UpTo(S, N) = S
    <3>1. \A m \in S : m <= N
      <4>1. \A m \in S : m \in 1 .. N
        OBVIOUS
      <4> QED BY <4>1
    <3> QED BY <3>1 DEF UpTo
  <2>2. Rank(S, N) \in 1 .. Cardinality(S) /\ Nth(S, Rank(S, N)) = N
    BY <1>3, Enumerates
  <2> QED BY <1>1, <2>1, <2>2 DEF Rank
<1> QED BY <1>2, <1>3

\* Of all numbers up to N, number k is the one of rank k.
LEMMA NthOfAll ==
  ASSUME NEW N \in Nat
  PROVE  Cardinality(1 .. N) = N /\ \A k \in 1 .. N : Nth(1 .. N, k) = k
<1>1. Cardinality(1 .. N) = N
  BY FS_Interval
<1>2. ASSUME NEW k \in 1 .. N PROVE Rank(1 .. N, k) = k
  <2>1. UpTo(1 .. N, k) = 1 .. k
    BY DEF UpTo
  <2>2. Cardinality(1 .. k) = k
    BY FS_Interval
  <2> QED BY <2>1, <2>2 DEF Rank
<1>3. ASSUME NEW k \in 1 .. N PROVE Nth(1 .. N, k) = k
  <2> DEFINE S == 1 .. N
  <2>1. S \subseteq 1 .. N /\ k \in S /\ Rank(S, k) = k
    BY <1>2
  <2> HIDE DEF S
  <2>2. Nth(S, Rank(S, k)) = k
    BY <2>1, Enumerates
  <2> QED BY <2>1, <2>2 DEF S
<1> QED BY <1>1, <1>3

-----------------------------------------------------------------------------
(* Sequences one after the other *)

\* The sequence all is those of seqs one after the other: pos[c] elements are of
\* the first c.
Laid(seqs, all, pos) ==
  /\ pos \in [0 .. Len(seqs) -> Nat] /\ pos[0] = 0
  /\ \A c \in 1 .. Len(seqs) : pos[c] = pos[c - 1] + Len(seqs[c])
  /\ Len(all) = pos[Len(seqs)]
  /\ \A c \in 1 .. Len(seqs), k \in Nat :
       k \in 1 .. Len(seqs[c]) => all[pos[c - 1] + k] = seqs[c][k]

\* What the library's FlattenSeq gives.
LEMMA Flattened ==
  ASSUME NEW X, NEW seqs \in Seq(Seq(X))
  PROVE  FlattenSeq(seqs) \in Seq(X) /\ \E pos : Laid(seqs, FlattenSeq(seqs), pos)
<1>1. PICK N \in Nat : N = Len(seqs)
  OBVIOUS
<1>2. \A c \in 1 .. N : seqs[c] \in Seq(X) /\ Len(seqs[c]) \in Nat
  BY <1>1
<1>3. CASE N = 0
  <2>1. seqs = <<>> /\ FlattenSeq(seqs) = seqs
    <3>1. Len(seqs) = 0
      BY <1>1, <1>3
    <3> QED BY <3>1, EmptySeq DEF FlattenSeq
  <2> DEFINE none == [k \in 0 .. 0 |-> 0]
  <2>2. Laid(<<>>, <<>>, none)
    BY DEF Laid
  <2>3. \E pos : Laid(<<>>, <<>>, pos)
    <3> HIDE DEF none
    <3> QED BY <2>2
  <2>4. <<>> \in Seq(X)
    OBVIOUS
  <2> QED BY <2>1, <2>3, <2>4
<1>4. CASE N # 0
  <2>1. 1 \in Nat /\ 1 \in 1 .. N /\ seqs[1] \in Seq(X)
    BY <1>2, <1>4
  <2> DEFINE Y == Seq(X)
             step == [p \in Nat \X Y |-> IF p[1] \in 1 .. N THEN p[2] \o seqs[p[1]] ELSE p[2]]
  <2>2. step \in [Nat \X Y -> Y]
    <3>1. ASSUME NEW p \in Nat \X Y PROVE (IF p[1] \in 1 .. N THEN p[2] \o seqs[p[1]] ELSE p[2]) \in Y
      <4>1. p[2] \in Seq(X) /\ (p[1] \in 1 .. N => seqs[p[1]] \in Seq(X))
        BY <1>2
      <4>2. p[1] \in 1 .. N => p[2] \o seqs[p[1]] \in Seq(X)
        BY <4>1, ConcatProperties
      <4> QED BY <4>1, <4>2
    <3> QED BY <3>1
  <2>3. PICK f \in [1 .. N -> Y] : RecursFrom(f, 1, N, seqs[1], step)
    <3> HIDE DEF Y, step
    <3>1. seqs[1] \in Y
      BY <2>1 DEF Y
    <3> QED BY <2>1, <2>2, <3>1, IntervalRecursion
  <2>4. f[1] = seqs[1]
    <3>1. 1 <= N
      BY <1>4
    <3> QED BY <2>3, <3>1 DEF RecursFrom
  <2>5. ASSUME NEW c \in 1 .. N, c # 1 PROVE f[c] = f[c - 1] \o seqs[c]
    <3>1. c - 1 \in 1 .. N - 1 /\ (c - 1) + 1 = c /\ c - 1 \in 1 .. N /\ c \in Nat
      BY <2>5
    <3>2. f[(c - 1) + 1] = step[<<(c - 1) + 1, f[c - 1]>>]
      BY <2>3, <3>1 DEF RecursFrom
    <3>3. <<c, f[c - 1]>> \in Nat \X Y
      BY <3>1
    <3>4. step[<<c, f[c - 1]>>] = f[c - 1] \o seqs[c]
      BY <3>3
    <3> QED BY <3>1, <3>2, <3>4
  <2> HIDE DEF step
  <2> DEFINE Is(g) == g = [c \in 1 .. N |-> IF c = 1 THEN seqs[c] ELSE g[c - 1] \o seqs[c]]
  <2>6. Is(f)
    <3>1. ASSUME NEW c \in 1 .. N PROVE f[c] = IF c = 1 THEN seqs[c] ELSE f[c - 1] \o seqs[c]
      BY <2>4, <2>5
    <3>2. f = [c \in 1 .. N |-> f[c]]
      OBVIOUS
    <3> HIDE DEF Y
    <3> QED BY <3>1, <3>2
  <2>7. FlattenSeq(seqs) = (CHOOSE g : Is(g))[N]
    BY <1>1, <1>4 DEF FlattenSeq
  <2>8. PICK g : g = CHOOSE e : Is(e)
    OBVIOUS
  <2>9. Is(g) /\ FlattenSeq(seqs) = g[N]
    <3> HIDE DEF Is
    <3> QED BY <2>6, <2>7, <2>8
  <2>10. g[1] = seqs[1] /\ \A c \in 1 .. N : c # 1 => g[c] = g[c - 1] \o seqs[c]
    BY <2>1, <2>9
  <2> DEFINE pos == [c \in 0 .. N |-> IF c = 0 THEN 0 ELSE Len(g[c])]
             S == {c \in 1 .. N :
                     /\ g[c] \in Seq(X) /\ \A d \in 0 .. c : pos[d] \in Nat
                     /\ \A d \in 1 .. c : pos[d] = pos[d - 1] + Len(seqs[d])
                     /\ \A d \in 1 .. c, k \in Nat : k \in 1 .. Len(seqs[d]) =>
                          pos[d - 1] + k <= pos[c] /\ g[c][pos[d - 1] + k] = seqs[d][k]}
  <2>11. 1 \in S
    <3>1. pos[0] = 0 /\ pos[1] = Len(seqs[1]) /\ 1 - 1 = 0
      BY <2>1, <2>10
    <3>2. \A d \in 1 .. 1 : d = 1
      OBVIOUS
    <3>3. \A k \in Nat : 0 + k = k /\ (k \in 1 .. Len(seqs[1]) => k <= Len(seqs[1]))
      OBVIOUS
    <3>4. Len(seqs[1]) = 0 + Len(seqs[1]) /\ Len(seqs[1]) \in Nat
      BY <1>2, <2>1
    <3>5. \A d \in 0 .. 1 : d = 0 \/ d = 1
      OBVIOUS
    <3> HIDE DEF pos
    <3>6. g[1] \in Seq(X) /\ \A d \in 0 .. 1 : pos[d] \in Nat
      BY <2>1, <2>10, <3>1, <3>4, <3>5
    <3>7. pos[1] = pos[1 - 1] + Len(seqs[1])
      BY <3>1, <3>4
    <3>8. ASSUME NEW k \in Nat, k \in 1 .. Len(seqs[1])
          PROVE  pos[1 - 1] + k <= pos[1] /\ g[1][pos[1 - 1] + k] = seqs[1][k]
      BY <2>10, <3>1, <3>3, <3>8
    <3> QED BY <2>1, <3>2, <3>6, <3>7, <3>8
  <2>12. ASSUME NEW c \in 1 .. N - 1, c \in S PROVE c + 1 \in S
    <3>1. c \in 1 .. N /\ c + 1 \in 1 .. N /\ c + 1 # 1 /\ (c + 1) - 1 = c /\ c \in 0 .. N
          /\ c # 0 /\ c + 1 # 0 /\ c + 1 \in 0 .. N
      OBVIOUS
    <3>2. g[c + 1] = g[c] \o seqs[c + 1] /\ g[c] \in Seq(X) /\ seqs[c + 1] \in Seq(X)
      BY <1>2, <2>10, <2>12, <3>1
    <3>3. /\ g[c + 1] \in Seq(X) /\ Len(g[c + 1]) = Len(g[c]) + Len(seqs[c + 1])
          /\ \A i \in 1 .. Len(g[c]) + Len(seqs[c + 1]) :
               g[c + 1][i] = IF i <= Len(g[c]) THEN g[c][i] ELSE seqs[c + 1][i - Len(g[c])]
      <4>1. PICK s \in Seq(X), t \in Seq(X) : s = g[c] /\ t = seqs[c + 1]
        BY <3>2
      <4>2. g[c + 1] = s \o t
        BY <3>2, <4>1
      <4>3. /\ s \o t \in Seq(X) /\ Len(s \o t) = Len(s) + Len(t)
            /\ \A i \in 1 .. Len(s) + Len(t) :
                 (s \o t)[i] = IF i <= Len(s) THEN s[i] ELSE t[i - Len(s)]
        BY ConcatProperties
      <4>4. PICK u : u = s \o t
        OBVIOUS
      <4>5. PICK m, n : m = Len(s) /\ n = Len(t)
        OBVIOUS
      <4>6. /\ u \in Seq(X) /\ Len(u) = m + n
            /\ \A i \in 1 .. m + n : u[i] = IF i <= m THEN s[i] ELSE t[i - m]
        BY <4>3, <4>4, <4>5, Zenon
      <4>7. u = g[c + 1] /\ m = Len(g[c]) /\ n = Len(seqs[c + 1])
        BY <4>1, <4>2, <4>4, <4>5
      <4> HIDE DEF pos
      <4> QED BY <4>1, <4>6, <4>7
    <3>5. PICK a \in Nat, b \in Nat : a = Len(g[c]) /\ b = Len(seqs[c + 1])
      BY <3>2
    <3>4. pos[c] = a /\ pos[c + 1] = a + b
      BY <3>1, <3>3, <3>5
    <3>8. \A d \in 0 .. c : pos[d] \in Nat
      BY <2>12
    <3>9. /\ \A d \in 1 .. c : pos[d] = pos[d - 1] + Len(seqs[d])
          /\ \A d \in 1 .. c, k \in Nat : k \in 1 .. Len(seqs[d]) =>
               pos[d - 1] + k <= pos[c] /\ g[c][pos[d - 1] + k] = seqs[d][k]
      BY <2>12
    <3> HIDE DEF pos
    <3>6. ASSUME NEW d \in 1 .. c + 1, NEW k \in Nat, k \in 1 .. Len(seqs[d])
          PROVE  pos[d - 1] + k <= pos[c + 1] /\ g[c + 1][pos[d - 1] + k] = seqs[d][k]
      <4>1. CASE d = c + 1
        <5>1. pos[d - 1] = a /\ k \in 1 .. b
          BY <3>1, <3>4, <3>5, <3>6, <4>1
        <5>2. a + k \in 1 .. a + b /\ ~(a + k <= a) /\ (a + k) - a = k
          BY <5>1
        <5>3. g[c + 1][a + k] = seqs[c + 1][(a + k) - a]
          BY <3>3, <3>5, <5>2
        <5>4. a + k <= pos[c + 1]
          BY <3>4, <5>2
        <5> QED BY <4>1, <5>1, <5>2, <5>3, <5>4
      <4>2. CASE d \in 1 .. c
        <5>1. pos[d - 1] + k <= a /\ g[c][pos[d - 1] + k] = seqs[d][k]
          BY <3>4, <3>6, <3>9, <4>2
        <5>2. d - 1 \in 0 .. c
          BY <3>1, <4>2
        <5>3. PICK p \in Nat : p = pos[d - 1]
          BY <3>8, <5>2
        <5>4. p + k \in 1 .. a + b /\ p + k <= a /\ p + k <= a + b
          <6>1. Len(seqs[d]) \in Nat
            BY <1>2, <3>1, <4>2
          <6>2. k >= 1 /\ p + k <= a
            BY <3>6, <5>1, <5>3, <6>1
          <6> QED BY <6>2
        <5>5. g[c + 1][p + k] = g[c][p + k]
          BY <3>3, <3>5, <5>4
        <5> QED BY <3>4, <5>1, <5>3, <5>4, <5>5
      <4> QED BY <4>1, <4>2
    <3>7. ASSUME NEW d \in 1 .. c + 1 PROVE pos[d] = pos[d - 1] + Len(seqs[d])
      <4>1. CASE d = c + 1
        BY <3>1, <3>4, <3>5, <4>1
      <4>2. CASE d \in 1 .. c
        BY <3>9, <4>2
      <4> QED BY <4>1, <4>2
    <3>10. ASSUME NEW d \in 0 .. c + 1 PROVE pos[d] \in Nat
      <4>1. d \in 0 .. c \/ d = c + 1
        BY <3>1
      <4> QED BY <3>4, <3>8, <4>1
    <3> QED BY <3>1, <3>3, <3>6, <3>7, <3>10
  <2>13. \A c \in 1 .. N : c \in S
    <3> HIDE DEF S
    <3> QED BY <2>1, <2>11, <2>12, IntervalInduct
  <2>14. N \in 1 .. N /\ N \in S
    <3>1. N \in 1 .. N
      BY <1>4
    <3> HIDE DEF S
    <3> QED BY <2>13, <3>1
  <2>15. Laid(seqs, g[N], pos)
    <3>1. pos \in [0 .. N -> Nat]
      <4>1. \A c \in 0 .. N : pos[c] \in Nat
        BY <2>14
      <4>2. pos = [c \in 0 .. N |-> pos[c]]
        OBVIOUS
      <4> HIDE DEF pos
      <4> QED BY <4>1, <4>2
    <3>2. pos[0] = 0 /\ pos[N] = Len(g[N])
      BY <1>4
    <3> HIDE DEF pos
    <3> QED BY <1>1, <2>14, <3>1, <3>2 DEF Laid
  <2>16. g[N] \in Seq(X) /\ \E q : Laid(seqs, g[N], q)
    <3> HIDE DEF pos
    <3> QED BY <2>14, <2>15
  <2> QED BY <2>9, <2>16
<1> QED BY <1>3, <1>4

\* Later parts of what is laid out begin later.
LEMMA LaidGrows ==
  ASSUME NEW X, NEW seqs \in Seq(Seq(X)), NEW all, NEW pos, Laid(seqs, all, pos),
         NEW c \in 0 .. Len(seqs), NEW d \in c .. Len(seqs)
  PROVE  pos[c] <= pos[d]
<1>1. PICK N \in Nat : N = Len(seqs)
  OBVIOUS
<1>2. \A k \in 0 .. N : pos[k] \in Nat
  BY <1>1 DEF Laid
<1>3. \A k \in 1 .. N : pos[k] = pos[k - 1] + Len(seqs[k]) /\ Len(seqs[k]) \in Nat
  BY <1>1 DEF Laid
<1> DEFINE S == {k \in c .. N : pos[c] <= pos[k]}
<1>4. c \in Nat /\ c \in S
  BY <1>1, <1>2
<1>5. ASSUME NEW k \in c .. N - 1, k \in S PROVE k + 1 \in S
  <2>1. k + 1 \in 1 .. N /\ k \in 0 .. N /\ (k + 1) - 1 = k /\ k + 1 \in c .. N
    BY <1>1, <1>4
  <2>2. pos[k + 1] = pos[k] + Len(seqs[k + 1]) /\ Len(seqs[k + 1]) \in Nat
    BY <1>3, <2>1
  <2>3. pos[c] <= pos[k] /\ pos[c] \in Nat /\ pos[k] \in Nat
    BY <1>1, <1>2, <1>5, <2>1
  <2>4. pos[c] <= pos[k + 1]
    BY <2>2, <2>3
  <2> QED BY <2>1, <2>4
<1>6. \A k \in c .. N : k \in S
  <2> HIDE DEF S
  <2> QED BY <1>4, <1>5, IntervalInduct
<1> QED BY <1>1, <1>6

\* A place belongs to a part.
InSome(seqs, pos, i) ==
  \E c \in 1 .. Len(seqs) : \E k \in 1 .. Len(seqs[c]) : i = pos[c - 1] + k

\* Every place does.
LEMMA LaidSomewhere ==
  ASSUME NEW X, NEW seqs \in Seq(Seq(X)), NEW all, NEW pos, Laid(seqs, all, pos),
         NEW i \in 1 .. Len(all)
  PROVE  InSome(seqs, pos, i)
<1>1. PICK N \in Nat : N = Len(seqs)
  OBVIOUS
<1>2. \A k \in 0 .. N : pos[k] \in Nat
  BY <1>1 DEF Laid
<1>3. \A k \in 1 .. N : pos[k] = pos[k - 1] + Len(seqs[k]) /\ Len(seqs[k]) \in Nat
  BY <1>1 DEF Laid
<1>4. i \in 1 .. pos[N] /\ pos[0] = 0
  BY <1>1 DEF Laid
<1> DEFINE S == {c \in 0 .. N : i <= pos[c]}
<1>5. PICK c \in S : \A d \in S : c <= d
  <2>1. S \subseteq Nat /\ N \in S
    BY <1>2, <1>4
  <2> HIDE DEF S
  <2> QED BY <2>1, HasLeast
<1>6. c \in 1 .. N /\ c - 1 \in 0 .. N /\ c - 1 \notin S
  BY <1>2, <1>4, <1>5
<1>7. pos[c - 1] < i /\ i <= pos[c]
  BY <1>2, <1>4, <1>5, <1>6
<1>8. pos[c] = pos[c - 1] + Len(seqs[c]) /\ pos[c - 1] \in Nat /\ i \in Nat /\ Len(seqs[c]) \in Nat
  BY <1>2, <1>3, <1>4, <1>6
<1>9. i - pos[c - 1] \in 1 .. Len(seqs[c]) /\ i = pos[c - 1] + (i - pos[c - 1])
  <2>1. PICK x \in Nat : x = pos[c - 1]
    BY <1>8
  <2>2. PICK K \in Nat : K = Len(seqs[c])
    BY <1>8
  <2>3. x < i /\ i <= x + K /\ i \in Nat
    BY <1>7, <1>8, <2>1, <2>2
  <2>4. i - x \in 1 .. K /\ i = x + (i - x)
    BY <2>3
  <2> QED BY <2>1, <2>2, <2>4
<1> QED BY <1>1, <1>6, <1>9 DEF InSome

\* The first parts by themselves end where the next one begins.
LEMMA LaidPrefix ==
  ASSUME NEW X, NEW seqs \in Seq(Seq(X)), NEW all, NEW pos, Laid(seqs, all, pos),
         NEW n \in 0 .. Len(seqs)
  PROVE  Len(FlattenSeq(SubSeq(seqs, 1, n))) = pos[n]
<1>1. PICK N \in Nat : N = Len(seqs)
  OBVIOUS
<1>2. PICK t : t = SubSeq(seqs, 1, n)
  OBVIOUS
<1>3. t \in Seq(Seq(X)) /\ Len(t) = n /\ \A c \in 1 .. n : t[c] = seqs[c]
  <2>1. n \in Nat /\ (n = 0 \/ n \in 1 .. N)
    BY <1>1
  <2>2. \A k \in 1 .. n : seqs[k] \in Seq(X)
    BY <1>1, <2>1
  <2>3. t = [k \in 1 .. n |-> seqs[k]]
    <3>1. (n - 1) + 1 = n /\ \A k \in 1 .. n : (1 + k) - 1 = k
      BY <2>1
    <3>2. SubSeq(seqs, 1, n) = [k \in 1 .. n |-> seqs[k]]
      BY <2>1
    <3> QED BY <1>2, <3>2
  <2> QED BY <2>1, <2>2, <2>3
<1>4. PICK q : Laid(t, FlattenSeq(t), q)
  BY <1>3, Flattened
<1> DEFINE S == {k \in 0 .. n : q[k] = pos[k]}
<1>5. 0 \in S
  BY <1>4 DEF Laid
<1>6. ASSUME NEW k \in 0 .. n - 1, k \in S PROVE k + 1 \in S
  <2>1. k + 1 \in 1 .. n /\ k + 1 \in 1 .. N /\ (k + 1) - 1 = k /\ k + 1 \in 0 .. n
    BY <1>1
  <2>2. q[k + 1] = q[k] + Len(t[k + 1])
    BY <1>3, <1>4, <2>1 DEF Laid
  <2>3. pos[k + 1] = pos[k] + Len(seqs[k + 1])
    BY <1>1, <2>1 DEF Laid
  <2>4. q[k + 1] = pos[k + 1]
    BY <1>3, <1>6, <2>1, <2>2, <2>3
  <2> QED BY <2>1, <2>4
<1>7. n \in S
  <2>1. 0 \in Nat /\ n \in Nat /\ n \in 0 .. n
    BY <1>1
  <2> HIDE DEF S
  <2> QED BY <1>5, <1>6, <2>1, IntervalInduct
<1>8. Len(FlattenSeq(t)) = q[n]
  BY <1>3, <1>4 DEF Laid
<1> QED BY <1>2, <1>7, <1>8

-----------------------------------------------------------------------------
(* A set in a sequence *)

\* A sequence of the members of S, each once.
Lists(q, S) == IsInjective(q) /\ Range(q) = S

\* What the library's SetToSeq gives for a finite set.
LEMMA SetIsListed ==
  ASSUME NEW S, IsFiniteSet(S)
  PROVE  SetToSeq(S) \in Seq(S) /\ Lists(SetToSeq(S), S)
<1>1. PICK n \in Nat : n = Cardinality(S) /\ ExistsBijection(1 .. n, S)
  BY FS_CardinalityType
<1>2. PICK g : g \in [1 .. n -> S] /\ IsInjective(g)
  BY <1>1 DEF ExistsBijection, Bijection, Injection
<1>3. PICK q : q = SetToSeq(S)
  OBVIOUS
<1>4. q \in [1 .. n -> S] /\ IsInjective(q)
  BY <1>1, <1>2, <1>3 DEF SetToSeq
<1>5. q \in Surjection(1 .. n, S)
  <2>1. Cardinality(1 .. n) = n
    BY FS_Interval
  <2>2. q \in Injection(1 .. n, S)
    BY <1>4 DEF Injection
  <2> QED BY <1>1, <2>1, <2>2, FS_Injection
<1>6. Range(q) = S
  BY <1>4, <1>5 DEF Range, Surjection
<1>7. q \in Seq(S)
  BY <1>4
<1> QED BY <1>3, <1>4, <1>6, <1>7 DEF Lists

\* The queue when its first element is taken and others are put behind it.
LEMMA NextQueue ==
  ASSUME NEW X, NEW q \in Seq(X), NEW t \in Seq(X), NEW Q, NEW T,
         Lists(q, Q), Lists(t, T), Q \cap T = {}, q # <<>>
  PROVE  /\ Head(q) \in Q /\ Tail(q) \o t \in Seq(X)
         /\ Lists(Tail(q) \o t, (Q \ {Head(q)}) \cup T)
<1>1. PICK L \in Nat : L = Len(q)
  OBVIOUS
<1>2. PICK K \in Nat : K = Len(t)
  OBVIOUS
<1>3. L >= 1 /\ DOMAIN q = 1 .. L /\ DOMAIN t = 1 .. K /\ Head(q) = q[1]
  BY <1>1, <1>2
<1>4. /\ \A i, j \in 1 .. L : q[i] = q[j] => i = j
      /\ \A i, j \in 1 .. K : t[i] = t[j] => i = j
      /\ Q = {q[i] : i \in 1 .. L} /\ T = {t[i] : i \in 1 .. K}
  BY <1>3 DEF Lists, IsInjective, Range
<1>5. PICK u \in Seq(X) : /\ u = Tail(q) /\ Len(u) = L - 1
                          /\ \A i \in 1 .. L - 1 : u[i] = q[i + 1]
  <2>1. /\ Tail(q) \in Seq(X) /\ Len(Tail(q)) = Len(q) - 1
        /\ \A i \in 1 .. Len(Tail(q)) : Tail(q)[i] = q[i + 1]
    BY HeadTailProperties
  <2>2. PICK u : u = Tail(q)
    OBVIOUS
  <2>3. u \in Seq(X) /\ Len(u) = L - 1 /\ \A i \in 1 .. L - 1 : u[i] = q[i + 1]
    BY <1>1, <2>1, <2>2
  <2> QED BY <2>2, <2>3
<1>6. PICK v \in Seq(X) :
        /\ v = u \o t /\ Len(v) = (L - 1) + K
        /\ \A i \in 1 .. (L - 1) + K : v[i] = IF i <= L - 1 THEN u[i] ELSE t[i - (L - 1)]
  <2>1. /\ u \o t \in Seq(X) /\ Len(u \o t) = Len(u) + Len(t)
        /\ \A i \in 1 .. Len(u) + Len(t) :
             (u \o t)[i] = IF i <= Len(u) THEN u[i] ELSE t[i - Len(u)]
    BY ConcatProperties
  <2>2. PICK v : v = u \o t
    OBVIOUS
  <2>3. /\ v \in Seq(X) /\ Len(v) = (L - 1) + K
        /\ \A i \in 1 .. (L - 1) + K : v[i] = IF i <= L - 1 THEN u[i] ELSE t[i - (L - 1)]
    BY <1>2, <1>5, <2>1, <2>2
  <2> QED BY <2>2, <2>3
<1>7. \A i \in 1 .. (L - 1) + K :
        \/ i + 1 \in 2 .. L /\ v[i] = q[i + 1]
        \/ ~(i <= L - 1) /\ i - (L - 1) \in 1 .. K /\ v[i] = t[i - (L - 1)]
  <2>1. ASSUME NEW i \in 1 .. (L - 1) + K, i <= L - 1
        PROVE  i + 1 \in 2 .. L /\ v[i] = q[i + 1]
    <3>1. i \in 1 .. L - 1 /\ i + 1 \in 2 .. L
      BY <1>3, <2>1
    <3> QED BY <1>5, <1>6, <2>1, <3>1
  <2>2. ASSUME NEW i \in 1 .. (L - 1) + K, ~(i <= L - 1)
        PROVE  i - (L - 1) \in 1 .. K /\ v[i] = t[i - (L - 1)]
    <3>1. i - (L - 1) \in 1 .. K
      BY <1>3, <2>2
    <3> QED BY <1>6, <2>2, <3>1
  <2> QED BY <2>1, <2>2
<1>8. DOMAIN v = 1 .. (L - 1) + K
  BY <1>6
<1>9. IsInjective(v)
  <2>1. ASSUME NEW i \in 1 .. (L - 1) + K, NEW j \in 1 .. (L - 1) + K, v[i] = v[j]
        PROVE  i = j
    <3>1. CASE i + 1 \in 2 .. L /\ v[i] = q[i + 1] /\ j + 1 \in 2 .. L /\ v[j] = q[j + 1]
      <4>1. 2 .. L \subseteq 1 .. L
        OBVIOUS
      <4>2. i + 1 \in 1 .. L /\ j + 1 \in 1 .. L /\ q[i + 1] = q[j + 1]
        BY <2>1, <3>1, <4>1
      <4>3. i + 1 = j + 1
        BY <1>4, <4>2
      <4> QED BY <4>3
    <3>2. CASE /\ i - (L - 1) \in 1 .. K /\ v[i] = t[i - (L - 1)]
               /\ j - (L - 1) \in 1 .. K /\ v[j] = t[j - (L - 1)]
      <4>1. i - (L - 1) = j - (L - 1)
        BY <1>4, <2>1, <3>2
      <4> QED BY <4>1
    <3>3. CASE /\ i + 1 \in 2 .. L /\ v[i] = q[i + 1]
               /\ j - (L - 1) \in 1 .. K /\ v[j] = t[j - (L - 1)]
      <4>1. v[i] \in Q /\ v[j] \in T
        <5>1. i + 1 \in 1 .. L
          BY <3>3
        <5> QED BY <1>4, <3>3, <5>1
      <4> QED BY <2>1, <4>1
    <3>4. CASE /\ j + 1 \in 2 .. L /\ v[j] = q[j + 1]
               /\ i - (L - 1) \in 1 .. K /\ v[i] = t[i - (L - 1)]
      <4>1. v[j] \in Q /\ v[i] \in T
        <5>1. j + 1 \in 1 .. L
          BY <3>4
        <5> QED BY <1>4, <3>4, <5>1
      <4> QED BY <2>1, <4>1
    <3> QED BY <1>7, <3>1, <3>2, <3>3, <3>4
  <2> QED BY <1>8, <2>1 DEF IsInjective
<1>10. Range(v) = (Q \ {q[1]}) \cup T
  <2>1. ASSUME NEW i \in 1 .. (L - 1) + K PROVE v[i] \in (Q \ {q[1]}) \cup T
    <3>1. CASE i + 1 \in 2 .. L /\ v[i] = q[i + 1]
      <4>1. i + 1 \in 1 .. L /\ 1 \in 1 .. L /\ i + 1 # 1
        BY <1>3, <3>1
      <4>2. q[i + 1] # q[1] /\ q[i + 1] \in Q
        BY <1>4, <4>1
      <4> QED BY <3>1, <4>2
    <3>2. CASE i - (L - 1) \in 1 .. K /\ v[i] = t[i - (L - 1)]
      BY <1>4, <3>2
    <3> QED BY <1>7, <3>1, <3>2
  <2>2. ASSUME NEW x \in Q \ {q[1]} PROVE x \in Range(v)
    <3>1. PICK j \in 1 .. L : x = q[j]
      BY <1>4
    <3>2. j # 1
      BY <2>2, <3>1
    <3>3. j - 1 \in 1 .. L - 1 /\ (j - 1) + 1 = j /\ j - 1 \in 1 .. (L - 1) + K /\ j - 1 <= L - 1
      BY <1>3, <3>2
    <3>4. v[j - 1] = q[j]
      BY <1>5, <1>6, <3>3
    <3> QED BY <1>8, <3>1, <3>3, <3>4 DEF Range
  <2>3. ASSUME NEW x \in T PROVE x \in Range(v)
    <3>1. PICK j \in 1 .. K : x = t[j]
      BY <1>4
    <3>2. /\ (L - 1) + j \in 1 .. (L - 1) + K /\ ~((L - 1) + j <= L - 1)
          /\ ((L - 1) + j) - (L - 1) = j
      BY <1>3
    <3>3. v[(L - 1) + j] = t[j]
      BY <1>6, <3>2
    <3> QED BY <1>8, <3>1, <3>2, <3>3 DEF Range
  <2>4. Range(v) \subseteq (Q \ {q[1]}) \cup T
    BY <1>8, <2>1 DEF Range
  <2> QED BY <2>2, <2>3, <2>4
<1>11. Head(q) \in Q
  <2>1. 1 \in 1 .. L
    BY <1>3
  <2> QED BY <1>3, <1>4, <2>1
<1> QED BY <1>3, <1>5, <1>6, <1>9, <1>10, <1>11 DEF Lists

=============================================================================

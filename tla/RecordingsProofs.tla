-------------------------- MODULE RecordingsProofs --------------------------
(***************************************************************************)
(* Proofs about recordings on their way into training: the datasets that   *)
(* freeze them and the batch test that makes them, with the schedule of    *)
(* its trials, for any number of trials, states, seeds, runs, datasets,    *)
(* editors and changes.                                                    *)
(***************************************************************************)
EXTENDS MCRecordings, FiniteSetTheorems, WellFoundedInduction, TLAPS
-----------------------------------------------------------------------------
(***************************************************************************)
(* Induction over the ids of datasets.  It goes by sets, not by a          *)
(* predicate: the intervals 1..n below a set of numbers are well-founded   *)
(* under strict inclusion, so the set has a least element.  The recursive  *)
(* functions Loaded and Reached, the sums and the rounds of a schedule get *)
(* their equations from it.                                                *)
(***************************************************************************)
\* A set of numbers has a least one.
LEMMA LeastOf ==
  ASSUME NEW T \in SUBSET Nat, T # {}
  PROVE  \E n \in T : \A m \in T : n <= m
<1> DEFINE F == {1..n : n \in T}
<1>1. F \subseteq FiniteSubsetsOf(Nat)
  <2>1. \A n \in T : IsFiniteSet(1..n)
    BY FS_Interval
  <2>2. \A n \in T : 1..n \in SUBSET Nat
    OBVIOUS
  <2> QED
    BY <2>1, <2>2 DEF FiniteSubsetsOf
<1>2. \E x \in F : \A y \in F : ~(<<y, x>> \in StrictSubsetOrdering(Nat))
  <2>1. F # {}
    OBVIOUS
  <2> QED
    BY <2>1, <1>1, WFMin, FS_StrictSubsetOrderingWellFounded
<1>3. PICK n \in T : \A m \in T : ~(<<1..m, 1..n>> \in StrictSubsetOrdering(Nat))
  BY <1>2
<1>4. ASSUME NEW m \in T, m < n PROVE <<1..m, 1..n>> \in StrictSubsetOrdering(Nat)
  <2>1. 1..m \in SUBSET Nat /\ 1..n \in SUBSET Nat
    OBVIOUS
  <2>2. 1..m \subseteq 1..n /\ n \in 1..n /\ n \notin 1..m
    BY <1>4
  <2> QED
    BY <2>1, <2>2 DEF StrictSubsetOrdering
<1>5. ASSUME NEW m \in T PROVE n <= m
  <2>1. ~(m < n)
    BY <1>3, <1>4
  <2> QED
    BY <2>1
<1> QED
  BY <1>5

\* What holds of 0, and of the next number whenever it holds of one, holds of n.
LEMMA Climb ==
  ASSUME NEW n \in Nat, NEW S, 0 \in S, \A m \in 0..n-1 : m \in S => m + 1 \in S
  PROVE  \A m \in 0..n : m \in S
<1> DEFINE T == {m \in 0..n : m \notin S}
<1>1. SUFFICES ASSUME T # {} PROVE FALSE
  OBVIOUS
<1>2. PICK k \in T : \A m \in T : k <= m
  <2>1. T \in SUBSET Nat
    OBVIOUS
  <2> HIDE DEF T
  <2> QED
    BY <2>1, <1>1, LeastOf
<1>3. k # 0 /\ k - 1 \in 0..n-1
  BY <1>2
<1>4. k - 1 \in S
  BY <1>2, <1>3
<1> QED
  BY <1>2, <1>3, <1>4
-----------------------------------------------------------------------------
(***************************************************************************)
(* The schedule of a test: sums of counts.                                 *)
(***************************************************************************)
\* The sums of the first numbers, one after the other.
Sums(n, f, s) == s \in [0..n -> Nat] /\ s[0] = 0 /\ \A k \in 1..n : s[k] = s[k-1] + f[k]

\* Evaluation!SumTo is the last of them.
LEMMA SumSteps ==
  ASSUME NEW n \in Nat, NEW f \in [1..n -> Nat]
  PROVE  \E s : Sums(n, f, s) /\ Evaluation!SumTo(n, f) = s[n]
<1> DEFINE T == {m \in 0..n : \E s : Sums(m, f, s)}
<1>1. 0 \in T
  <2> DEFINE s == [k \in 0..0 |-> 0]
  <2>1. s \in [0..0 -> Nat] /\ s[0] = 0 /\ \A k \in 1..0 : s[k] = s[k-1] + f[k]
    OBVIOUS
  <2> HIDE DEF s
  <2> QED
    BY <2>1 DEF Sums
<1>2. ASSUME NEW m \in 0..n-1, m \in T PROVE m + 1 \in T
  <2>1. PICK s : Sums(m, f, s)
    BY <1>2
  <2> DEFINE t == [k \in 0..m+1 |-> IF k <= m THEN s[k] ELSE s[m] + f[m+1]]
  <2>2. t \in [0..m+1 -> Nat] /\ t[0] = 0
    BY <2>1 DEF Sums
  <2>3. ASSUME NEW k \in 1..m+1 PROVE t[k] = t[k-1] + f[k]
    <3>1. CASE k = m + 1
      BY <3>1
    <3>2. CASE k # m + 1
      <4>1. k \in 1..m /\ k - 1 \in 0..m
        BY <3>2
      <4>2. t[k] = s[k] /\ t[k-1] = s[k-1]
        BY <4>1
      <4> HIDE DEF t
      <4> QED
        BY <2>1, <4>1, <4>2 DEF Sums
    <3> QED
      BY <3>1, <3>2
  <2>4. m + 1 \in 0..n
    OBVIOUS
  <2> HIDE DEF t
  <2> QED
    BY <2>2, <2>3, <2>4 DEF Sums
<1>3. n \in T
  <2> HIDE DEF T
  <2>1. \A m \in 0..n : m \in T
    BY <1>1, <1>2, Climb
  <2> QED
    BY <2>1
<1>4. PICK s : Sums(n, f, s)
  BY <1>3
<1> DEFINE sum[k \in 0..n] == IF k = 0 THEN 0 ELSE sum[k-1] + f[k]
<1>5. s = [k \in 0..n |-> IF k = 0 THEN 0 ELSE s[k-1] + f[k]]
  <2>1. s = [k \in 0..n |-> s[k]]
    BY <1>4 DEF Sums
  <2>2. \A k \in 0..n : s[k] = IF k = 0 THEN 0 ELSE s[k-1] + f[k]
    BY <1>4 DEF Sums
  <2> QED
    BY <2>1, <2>2
<1>6. sum = [k \in 0..n |-> IF k = 0 THEN 0 ELSE sum[k-1] + f[k]]
  BY <1>5
<1>7. Evaluation!SumTo(n, f) = sum[n]
  BY DEF Evaluation!SumTo
<1> HIDE DEF sum
<1>8. \A k \in 0..n : sum[k] = IF k = 0 THEN 0 ELSE sum[k-1] + f[k]
  BY <1>6
<1>9. sum[n] = s[n]
  <2> DEFINE U == {k \in 0..n : sum[k] = s[k]}
  <2>1. 0 \in U
    BY <1>4, <1>8 DEF Sums
  <2>2. ASSUME NEW k \in 0..n-1, k \in U PROVE k + 1 \in U
    <3>1. k + 1 \in 1..n /\ (k + 1) - 1 = k /\ k + 1 # 0
      OBVIOUS
    <3>2. sum[k+1] = sum[k] + f[k+1] /\ s[k+1] = s[k] + f[k+1]
      BY <1>4, <1>8, <3>1 DEF Sums
    <3> QED
      BY <2>2, <3>1, <3>2
  <2> HIDE DEF U
  <2>3. \A k \in 0..n : k \in U
    BY <2>1, <2>2, Climb
  <2> QED
    BY <2>3 DEF U
<1> QED
  BY <1>4, <1>7, <1>9

\* A sum exceeds another by what its numbers do: one at each place of T.
LEMMA SumAdd ==
  ASSUME NEW n \in Nat, NEW f \in [1..n -> Nat], NEW g \in [1..n -> Nat], NEW T \in SUBSET (1..n),
         \A i \in 1..n : g[i] = f[i] + (IF i \in T THEN 1 ELSE 0)
  PROVE  Evaluation!SumTo(n, g) = Evaluation!SumTo(n, f) + Cardinality(T)
<1>1. PICK s : Sums(n, f, s) /\ Evaluation!SumTo(n, f) = s[n]
  BY SumSteps
<1>2. PICK t : Sums(n, g, t) /\ Evaluation!SumTo(n, g) = t[n]
  BY SumSteps
<1> DEFINE U == {k \in 0..n : IsFiniteSet(T \cap 1..k) /\ t[k] = s[k] + Cardinality(T \cap 1..k)}
<1>3. 0 \in U
  <2>1. T \cap 1..0 = {}
    OBVIOUS
  <2> QED
    BY <1>1, <1>2, <2>1, FS_EmptySet DEF Sums
<1>4. ASSUME NEW k \in 0..n-1, k \in U PROVE k + 1 \in U
  <2> DEFINE S == T \cap 1..k
  <2>1. IsFiniteSet(S) /\ t[k] = s[k] + Cardinality(S) /\ Cardinality(S) \in Nat
    BY <1>4, FS_CardinalityType
  <2>2. k + 1 \in 1..n /\ (k + 1) - 1 = k /\ k + 1 \notin S
    OBVIOUS
  <2>3. t[k+1] = t[k] + g[k+1] /\ s[k+1] = s[k] + f[k+1] /\ s[k] \in Nat /\ f[k+1] \in Nat
    BY <1>1, <1>2, <2>2 DEF Sums
  <2>4. T \cap 1..k+1 = IF k + 1 \in T THEN S \cup {k+1} ELSE S
    OBVIOUS
  <2>5. IsFiniteSet(S \cup {k+1}) /\ Cardinality(S \cup {k+1}) = Cardinality(S) + 1
    <3> HIDE DEF S
    <3> QED
      BY <2>1, <2>2, FS_AddElement
  <2> DEFINE R == T \cap 1..k+1
  <2> HIDE DEF S, R
  <2>6. CASE k + 1 \in T
    <3>1. IsFiniteSet(R) /\ Cardinality(R) = Cardinality(S) + 1
      BY <2>4, <2>5, <2>6 DEF R
    <3>2. t[k+1] = s[k+1] + Cardinality(R)
      BY <3>1, <2>1, <2>2, <2>3, <2>6
    <3> QED
      BY <2>2, <3>1, <3>2 DEF R
  <2>7. CASE k + 1 \notin T
    <3>1. R = S
      BY <2>4, <2>7 DEF R
    <3>2. IsFiniteSet(R) /\ t[k+1] = s[k+1] + Cardinality(R)
      BY <3>1, <2>1, <2>2, <2>3, <2>7
    <3> QED
      BY <2>2, <3>2 DEF R
  <2> QED
    BY <2>6, <2>7
<1>5. n \in U
  <2> HIDE DEF U
  <2>1. \A k \in 0..n : k \in U
    BY <1>3, <1>4, Climb
  <2> QED
    BY <2>1
<1>6. T \cap 1..n = T
  OBVIOUS
<1> QED
  BY <1>1, <1>2, <1>5, <1>6

\* A sum of equal numbers.
LEMMA SumConst ==
  ASSUME NEW n \in Nat, NEW a \in Nat
  PROVE  Evaluation!SumTo(n, [i \in 1..n |-> a]) = n * a
<1> DEFINE f == [i \in 1..n |-> a]
<1>1. PICK s : Sums(n, f, s) /\ Evaluation!SumTo(n, f) = s[n]
  BY SumSteps
<1> DEFINE U == {k \in 0..n : s[k] = k * a}
<1>2. 0 \in U
  BY <1>1 DEF Sums
<1>3. ASSUME NEW k \in 0..n-1, k \in U PROVE k + 1 \in U
  <2>1. k + 1 \in 1..n /\ (k + 1) - 1 = k /\ f[k+1] = a
    OBVIOUS
  <2>2. s[k+1] = s[k] + a
    BY <1>1, <2>1 DEF Sums
  <2>3. (k + 1) * a = k * a + a
    OBVIOUS
  <2> QED
    BY <1>3, <2>1, <2>2, <2>3
<1>4. n \in U
  <2> HIDE DEF U
  <2>1. \A k \in 0..n : k \in U
    BY <1>2, <1>3, Climb
  <2> QED
    BY <2>1
<1> QED
  BY <1>1, <1>4

\* A sum is at least each of its numbers.
LEMMA SumCovers ==
  ASSUME NEW n \in Nat, NEW f \in [1..n -> Nat], NEW i \in 1..n
  PROVE  Evaluation!SumTo(n, f) \in Nat /\ f[i] <= Evaluation!SumTo(n, f)
<1>1. PICK s : Sums(n, f, s) /\ Evaluation!SumTo(n, f) = s[n]
  BY SumSteps
<1> DEFINE U == {k \in 0..n : k >= i => f[i] <= s[k]}
<1>2. 0 \in U
  OBVIOUS
<1>3. ASSUME NEW k \in 0..n-1, k \in U PROVE k + 1 \in U
  <2>1. k + 1 \in 1..n /\ (k + 1) - 1 = k
    OBVIOUS
  <2>2. s[k+1] = s[k] + f[k+1] /\ s[k] \in Nat /\ f[k+1] \in Nat /\ f[i] \in Nat
    BY <1>1, <2>1 DEF Sums
  <2>3. k + 1 >= i => k >= i \/ k + 1 = i
    OBVIOUS
  <2> QED
    BY <1>3, <2>1, <2>2, <2>3
<1>4. n \in U
  <2> HIDE DEF U
  <2>1. \A k \in 0..n : k \in U
    BY <1>2, <1>3, Climb
  <2> QED
    BY <2>1
<1> QED
  BY <1>1, <1>4 DEF Sums
-----------------------------------------------------------------------------
(***************************************************************************)
(* The columns of a row.                                                   *)
(***************************************************************************)
\* The columns that come before column i.
Before(left, i) == {k \in DOMAIN left : left[k] > left[i] \/ (left[k] = left[i] /\ k < i)}

\* They are fewer than the columns.
LEMMA BeforeIsFinite ==
  ASSUME NEW n \in Nat, NEW left \in [1..n -> Nat], NEW i \in 1..n
  PROVE  /\ IsFiniteSet(Before(left, i)) /\ Cardinality(Before(left, i)) \in 0..n-1
<1> DEFINE B == Before(left, i)
<1>1. IsFiniteSet(1..n) /\ Cardinality(1..n) = n
  BY FS_Interval
<1>2. B \in SUBSET (1..n) /\ i \notin B
  BY DEF Before
<1> HIDE DEF B
<1>3. IsFiniteSet(B) /\ Cardinality(B) <= n /\ Cardinality(B) # n
  BY <1>1, <1>2, FS_Subset
<1>4. Cardinality(B) \in Nat
  BY <1>3, FS_CardinalityType
<1>5. Cardinality(B) \in 0..n-1
  BY <1>3, <1>4
<1> QED
  BY <1>3, <1>5 DEF B

\* A column that comes before another has fewer before it.
LEMMA BeforeGrows ==
  ASSUME NEW n \in Nat, NEW left \in [1..n -> Nat], NEW i \in 1..n, NEW j \in Before(left, i)
  PROVE  Cardinality(Before(left, j)) < Cardinality(Before(left, i))
<1> DEFINE B == Before(left, i)
           C == Before(left, j)
<1>1. j \in 1..n
  BY DEF Before
<1>2. C \subseteq B /\ j \in B /\ j \notin C
  BY DEF Before
<1>3. IsFiniteSet(B) /\ IsFiniteSet(C) /\ Cardinality(B) \in Nat /\ Cardinality(C) \in Nat
  BY <1>1, BeforeIsFinite
<1> HIDE DEF B, C
<1>4. Cardinality(C) <= Cardinality(B) /\ Cardinality(B) # Cardinality(C)
  BY <1>2, <1>3, FS_Subset
<1>5. Cardinality(C) < Cardinality(B)
  BY <1>3, <1>4
<1> QED
  BY <1>5 DEF B, C

\* A row of degree d takes d columns, and with a column every one that has
\* more seeds left.
LEMMA ColumnsOf ==
  ASSUME NEW n \in Nat, NEW left \in [1..n -> Nat], NEW d \in 0..n
  PROVE  LET columns == Evaluation!LargestLeft(left, d)
         IN  /\ columns \in SUBSET (1..n) /\ IsFiniteSet(columns) /\ Cardinality(columns) = d
             /\ \A i \in columns, k \in 1..n : left[k] > left[i] => k \in columns
<1> DEFINE columns == Evaluation!LargestLeft(left, d)
           rank == [i \in 1..n |-> Cardinality(Before(left, i)) + 1]
<1>1. columns = {i \in 1..n : rank[i] <= d}
  <2>1. columns = {i \in 1..n : Cardinality(Before(left, i)) < d}
    <3>1. \A S : Evaluation!Cardinality(S) = Cardinality(S)
      BY DEF Evaluation!Cardinality, Cardinality
    <3> QED
      BY <3>1 DEF Evaluation!LargestLeft, Before
  <2>2. \A i \in 1..n : Cardinality(Before(left, i)) \in Int
    BY BeforeIsFinite
  <2> QED
    BY <2>1, <2>2
<1>2. rank \in [1..n -> 1..n]
  <2>1. \A i \in 1..n : Cardinality(Before(left, i)) \in 0..n-1
    BY BeforeIsFinite
  <2> QED
    BY <2>1
<1>3. ASSUME NEW i \in 1..n, NEW k \in 1..n, k \in Before(left, i) PROVE rank[k] < rank[i]
  <2>1. Cardinality(Before(left, i)) \in Int /\ Cardinality(Before(left, k)) \in Int
    BY BeforeIsFinite
  <2> QED
    BY <1>3, <2>1, BeforeGrows
<1>4. ASSUME NEW i \in 1..n, NEW k \in 1..n, i # k PROVE k \in Before(left, i) \/ i \in Before(left, k)
  BY <1>4 DEF Before
<1>5. ASSUME NEW i \in 1..n, NEW k \in 1..n, left[k] > left[i] PROVE k \in Before(left, i)
  BY <1>5 DEF Before
<1> HIDE DEF columns, rank
<1>6. \A i, k \in 1..n : rank[i] = rank[k] => i = k
  <2> SUFFICES ASSUME NEW i \in 1..n, NEW k \in 1..n, rank[i] = rank[k], i # k PROVE FALSE
    OBVIOUS
  <2>1. rank[i] \in Int /\ rank[k] \in Int
    BY <1>2
  <2> QED
    BY <1>3, <1>4, <2>1
<1>7. IsFiniteSet(1..n) /\ Cardinality(1..n) = n
  BY FS_Interval
<1>8. rank \in Surjection(1..n, 1..n)
  <2>1. rank \in Injection(1..n, 1..n)
    BY <1>2, <1>6 DEF Injection, IsInjective
  <2> QED
    BY <1>7, <2>1, FS_Injection
<1>9. IsFiniteSet(columns) /\ Cardinality(columns) = d
  <2> DEFINE low == [i \in columns |-> rank[i]]
  <2>1. low \in [columns -> 1..d]
    BY <1>1, <1>2
  <2>2. \A i, k \in columns : low[i] = low[k] => i = k
    BY <1>1, <1>6
  <2>3. ASSUME NEW v \in 1..d PROVE \E i \in columns : low[i] = v
    <3>1. v \in 1..n
      OBVIOUS
    <3>2. PICK i \in 1..n : rank[i] = v
      BY <1>8, <3>1 DEF Surjection
    <3>3. i \in columns
      BY <1>1, <3>2
    <3> QED
      BY <3>2, <3>3
  <2> HIDE DEF low
  <2>4. low \in Injection(columns, 1..d) /\ low \in Surjection(columns, 1..d)
    BY <2>1, <2>2, <2>3 DEF Injection, IsInjective, Surjection
  <2>5. IsFiniteSet(1..d) /\ Cardinality(1..d) = d
    BY FS_Interval
  <2> QED
    BY <2>4, <2>5, FS_Injection
<1>10. ASSUME NEW i \in columns, NEW k \in 1..n, left[k] > left[i] PROVE k \in columns
  <2>1. i \in 1..n /\ rank[i] <= d /\ rank[i] \in Int /\ rank[k] \in Int
    BY <1>1, <1>2
  <2>2. rank[k] < rank[i]
    BY <1>3, <1>5, <1>10, <2>1
  <2> QED
    BY <1>1, <2>1, <2>2
<1> QED
  BY <1>1, <1>9, <1>10 DEF columns
-----------------------------------------------------------------------------
(***************************************************************************)
(* The partial round.                                                      *)
(***************************************************************************)
\* What a division leaves.
LEMMA DivMod ==
  ASSUME NEW n \in Nat \ {0}, NEW m \in Nat
  PROVE  m \div n \in Nat /\ m % n \in 0..n-1 /\ m = n * (m \div n) + (m % n)
OBVIOUS

\* A multiple grows with its factor.
LEMMA MulMono ==
  ASSUME NEW a \in Nat, NEW b \in Nat, NEW c \in Nat, a <= b
  PROVE  c * a <= c * b
<1> DEFINE d == b - a
<1>1. d \in Nat /\ b = a + d
  OBVIOUS
<1> HIDE DEF d
<1>2. c * (a + d) = c * a + c * d
  BY <1>1
<1>3. c * d \in Nat /\ c * a \in Nat
  BY <1>1
<1> QED
  BY <1>1, <1>2, <1>3

\* The degrees share the remainder out, to within one.
LEMMA DegreesShare ==
  ASSUME NEW n \in Nat \ {0}, NEW m \in Nat
  PROVE  /\ Evaluation!Degrees(n, m) \in [1..n -> Nat]
         /\ \A i \in 1..n : Evaluation!Degrees(n, m)[i] \in {m \div n, m \div n + 1}
         /\ Evaluation!SumTo(n, Evaluation!Degrees(n, m)) = m
<1> DEFINE q == m \div n
           t == m % n
<1>1. q \in Nat /\ t \in 0..n-1 /\ m = n * q + t
  BY DivMod
<1>2. Evaluation!Degrees(n, m) = [i \in 1..n |-> q + (IF i <= t THEN 1 ELSE 0)]
  BY DEF Evaluation!Degrees
<1> HIDE DEF q, t
<1> DEFINE f == [i \in 1..n |-> q]
           g == Evaluation!Degrees(n, m)
<1>3. f \in [1..n -> Nat] /\ g \in [1..n -> Nat] /\ 1..t \in SUBSET (1..n)
  BY <1>1, <1>2
<1>4. \A i \in 1..n : g[i] = f[i] + (IF i \in 1..t THEN 1 ELSE 0)
  BY <1>1, <1>2
<1>5. Evaluation!SumTo(n, f) = n * q
  BY <1>1, SumConst
<1>6. Cardinality(1..t) = t
  BY <1>1, FS_Interval
<1>7. \A i \in 1..n : g[i] \in {q, q + 1}
  BY <1>1, <1>2
<1> HIDE DEF f, g
<1>8. Evaluation!SumTo(n, g) = Evaluation!SumTo(n, f) + Cardinality(1..t)
  BY <1>3, <1>4, SumAdd
<1> QED
  BY <1>1, <1>3, <1>5, <1>6, <1>7, <1>8 DEF g, q

\* The round, row after row.
Rounds(states, seeds, m, s) ==
  /\ s[0] = [left |-> Evaluation!Degrees(seeds, m), pairs |-> {}, raised |-> FALSE]
  /\ \A r \in 1..states : s[r] = Evaluation!NextRow(s[r-1], r, Evaluation!Degrees(states, m)[r])

\* The partial round is the last of them.
LEMMA RoundSteps ==
  ASSUME NEW states \in Nat, NEW seeds \in Nat, NEW m \in Nat
  PROVE  \E s : Rounds(states, seeds, m, s) /\ Evaluation!PartialRound(states, seeds, m) = s[states]
<1> DEFINE rows == Evaluation!Degrees(states, m)
           start == [left |-> Evaluation!Degrees(seeds, m), pairs |-> {}, raised |-> FALSE]
           T == {k \in 0..states : \E s :
                   s = [r \in 0..k |-> IF r = 0 THEN start ELSE Evaluation!NextRow(s[r-1], r, rows[r])]}
<1> HIDE DEF rows, start
<1>1. 0 \in T
  <2> DEFINE s == [r \in 0..0 |-> start]
  <2>1. s = [r \in 0..0 |-> IF r = 0 THEN start ELSE Evaluation!NextRow(s[r-1], r, rows[r])]
    OBVIOUS
  <2> HIDE DEF s
  <2> QED
    BY <2>1
<1>2. ASSUME NEW k \in 0..states-1, k \in T PROVE k + 1 \in T
  <2>1. PICK s : s = [r \in 0..k |-> IF r = 0 THEN start ELSE Evaluation!NextRow(s[r-1], r, rows[r])]
    BY <1>2
  <2> DEFINE t == [r \in 0..k+1 |-> IF r <= k THEN s[r] ELSE Evaluation!NextRow(s[k], k + 1, rows[k+1])]
  <2>2. ASSUME NEW r \in 0..k+1
        PROVE  t[r] = IF r = 0 THEN start ELSE Evaluation!NextRow(t[r-1], r, rows[r])
    <3>1. CASE r = k + 1
      <4>1. t[k] = s[k] /\ r # 0 /\ r - 1 = k
        BY <3>1
      <4>2. t[r] = Evaluation!NextRow(s[k], k + 1, rows[k+1])
        BY <3>1
      <4> HIDE DEF t
      <4> QED
        BY <3>1, <4>1, <4>2
    <3>2. CASE r # k + 1
      <4>1. r \in 0..k
        BY <3>2
      <4>2. s[r] = IF r = 0 THEN start ELSE Evaluation!NextRow(s[r-1], r, rows[r])
        BY <2>1, <4>1
      <4>3. t[r] = s[r] /\ (r # 0 => t[r-1] = s[r-1])
        BY <4>1
      <4> HIDE DEF t
      <4> QED
        BY <4>2, <4>3
    <3> QED
      BY <3>1, <3>2
  <2>3. t = [r \in 0..k+1 |-> t[r]]
    OBVIOUS
  <2> HIDE DEF t
  <2>4. t = [r \in 0..k+1 |-> IF r = 0 THEN start ELSE Evaluation!NextRow(t[r-1], r, rows[r])]
    BY <2>2, <2>3
  <2> QED
    BY <2>4
<1>3. states \in T
  <2> HIDE DEF T
  <2>1. \A k \in 0..states : k \in T
    BY <1>1, <1>2, Climb
  <2> QED
    BY <2>1
<1> DEFINE round[r \in 0..states] == IF r = 0 THEN start ELSE Evaluation!NextRow(round[r-1], r, rows[r])
<1>4. \E s : s = [r \in 0..states |-> IF r = 0 THEN start ELSE Evaluation!NextRow(s[r-1], r, rows[r])]
  BY <1>3
<1>5. round = [r \in 0..states |-> IF r = 0 THEN start ELSE Evaluation!NextRow(round[r-1], r, rows[r])]
  BY <1>4
<1>6. Evaluation!PartialRound(states, seeds, m) = round[states]
  BY DEF Evaluation!PartialRound, rows, start
<1> HIDE DEF round
<1>7. round[0] = start /\ \A r \in 1..states : round[r] = Evaluation!NextRow(round[r-1], r, rows[r])
  <2>1. \A r \in 0..states : round[r] = IF r = 0 THEN start ELSE Evaluation!NextRow(round[r-1], r, rows[r])
    BY <1>5
  <2>2. \A r \in 1..states : r \in 0..states /\ r # 0
    OBVIOUS
  <2> QED
    BY <2>1, <2>2
<1> QED
  BY <1>6, <1>7 DEF Rounds, rows, start

\* After r rows of the partial round, whose rows have the degrees rows and
\* whose columns the degrees owed.
RoundInv(states, seeds, m, r, now) ==
  LET rows == Evaluation!Degrees(states, m)
      owed == Evaluation!Degrees(seeds, m)
  IN  /\ now.left \in [1..seeds -> Nat]
      /\ \E a \in Nat : \A c \in 1..seeds : now.left[c] \in {a, a + 1}
      /\ ~now.raised
      /\ now.pairs \subseteq (1..r) \X (1..seeds)
      /\ \A k \in 1..r : LET cs == {c \in 1..seeds : <<k, c>> \in now.pairs}
                         IN  IsFiniteSet(cs) /\ Cardinality(cs) = rows[k]
      /\ \A c \in 1..seeds : LET rs == {k \in 1..r : <<k, c>> \in now.pairs}
                             IN  IsFiniteSet(rs) /\ now.left[c] + Cardinality(rs) = owed[c]

\* A row of degree d takes from columns that have seeds left, and leaves them even.
RowTakes(n, d, before, row) ==
  LET left    == before.left
      columns == Evaluation!LargestLeft(left, d)
      now     == Evaluation!NextRow(before, row, d)
  IN  /\ columns \in SUBSET (1..n) /\ IsFiniteSet(columns) /\ Cardinality(columns) = d
      /\ \A c \in columns : left[c] > 0
      /\ now.left \in [1..n -> Nat]
      /\ \A c \in 1..n : left[c] = now.left[c] + (IF c \in columns THEN 1 ELSE 0)
      /\ \E b \in Nat : \A c \in 1..n : now.left[c] \in {b, b + 1}
      /\ Evaluation!SumTo(n, left) = Evaluation!SumTo(n, now.left) + d
      /\ now.pairs = before.pairs \cup ({row} \X columns)
      /\ now.raised = (before.raised \/ \E c \in columns : left[c] = 0)

\* It does when its columns have at least d seeds left, and are even.
LEMMA RowsTake ==
  ASSUME NEW n \in Nat, NEW d \in 0..n, NEW before, before.left \in [1..n -> Nat],
         \E a \in Nat : \A c \in 1..n : before.left[c] \in {a, a + 1},
         d <= Evaluation!SumTo(n, before.left), NEW row
  PROVE  RowTakes(n, d, before, row)
<1> DEFINE left == before.left
<1>1. left \in [1..n -> Nat] /\ d <= Evaluation!SumTo(n, left)
  OBVIOUS
<1>2. PICK a \in Nat : \A c \in 1..n : left[c] \in {a, a + 1}
  OBVIOUS
<1> DEFINE columns == Evaluation!LargestLeft(left, d)
           now == Evaluation!NextRow(before, row, d)
           T == {c \in 1..n : left[c] = a + 1}
<1>3. /\ columns \in SUBSET (1..n) /\ IsFiniteSet(columns) /\ Cardinality(columns) = d
      /\ \A i \in columns, k \in 1..n : left[k] > left[i] => k \in columns
  BY <1>1, ColumnsOf
<1>4. now = [left |-> [c \in DOMAIN left |-> IF c \in columns /\ left[c] > 0 THEN left[c] - 1 ELSE left[c]],
             pairs |-> before.pairs \cup ({row} \X columns),
             raised |-> before.raised \/ \E c \in columns : left[c] = 0]
  BY DEF Evaluation!NextRow
<1> HIDE DEF left, columns, now
<1>5. now.left = [c \in 1..n |-> IF c \in columns /\ left[c] > 0 THEN left[c] - 1 ELSE left[c]]
  BY <1>1, <1>2, <1>4
<1>6. now.pairs = before.pairs \cup ({row} \X columns)
  BY <1>4
<1>7. now.raised = (before.raised \/ \E c \in columns : left[c] = 0)
  BY <1>4
<1>8. T \subseteq columns \/ columns \subseteq T
  <2> SUFFICES ASSUME NEW k \in T, k \notin columns, NEW i \in columns, i \notin T PROVE FALSE
    OBVIOUS
  <2>1. left[k] = a + 1 /\ left[i] = a /\ k \in 1..n
    BY <1>1, <1>2, <1>3
  <2> QED
    BY <1>3, <2>1
<1>9. a = 0 => columns \subseteq T
  <2> SUFFICES ASSUME a = 0, T \subseteq columns PROVE columns \subseteq T
    BY <1>8
  <2> DEFINE none == [i \in 1..n |-> 0]
  <2>1. none \in [1..n -> Nat] /\ T \in SUBSET (1..n)
    OBVIOUS
  <2>2. \A i \in 1..n : left[i] = none[i] + (IF i \in T THEN 1 ELSE 0)
    BY <1>1, <1>2
  <2>3. Evaluation!SumTo(n, none) = 0
    <3>1. Evaluation!SumTo(n, none) = n * 0
      BY SumConst
    <3> QED
      BY <3>1
  <2> HIDE DEF none, T
  <2>4. Evaluation!SumTo(n, left) = Evaluation!SumTo(n, none) + Cardinality(T)
    BY <1>1, <1>2, <2>1, <2>2, SumAdd
  <2>5. IsFiniteSet(T) /\ Cardinality(T) <= d /\ Cardinality(T) \in Nat
    BY <1>3, FS_Subset, FS_CardinalityType
  <2>6. Cardinality(T) = d
    BY <1>1, <1>2, <2>3, <2>4, <2>5
  <2>7. T = columns
    BY <1>3, <2>6, FS_Subset
  <2> QED
    BY <2>7
<1>10. ASSUME NEW c \in columns PROVE left[c] > 0
  <2>1. left[c] \in {a, a + 1}
    BY <1>1, <1>2, <1>3
  <2>2. CASE a = 0
    BY <1>9, <2>2
  <2>3. CASE a # 0
    BY <2>1, <2>3
  <2> QED
    BY <2>2, <2>3
<1>11. now.left \in [1..n -> Nat]
  <2>1. \A c \in 1..n : left[c] > 0 => left[c] - 1 \in Nat
    BY <1>1, <1>2
  <2> QED
    BY <1>1, <1>2, <1>5, <2>1
<1>12. \A c \in 1..n : left[c] = now.left[c] + (IF c \in columns THEN 1 ELSE 0)
  <2> TAKE c \in 1..n
  <2>1. left[c] \in Nat /\ (c \in columns => left[c] > 0)
    BY <1>1, <1>10
  <2>2. now.left[c] = IF c \in columns /\ left[c] > 0 THEN left[c] - 1 ELSE left[c]
    BY <1>5
  <2> QED
    BY <2>1, <2>2
<1>13. \E b \in Nat : \A c \in 1..n : now.left[c] \in {b, b + 1}
  <2>1. CASE columns \subseteq T
    <3>1. \A c \in 1..n : now.left[c] \in {a, a + 1}
      <4> TAKE c \in 1..n
      <4>1. left[c] \in {a, a + 1} /\ now.left[c] \in Nat /\ (c \in columns => left[c] = a + 1)
        BY <1>1, <1>2, <1>11, <2>1
      <4> QED
        BY <1>12, <4>1
    <3> QED
      BY <3>1
  <2>2. CASE ~(columns \subseteq T)
    <3>1. T \subseteq columns /\ a # 0 /\ a - 1 \in Nat
      BY <1>8, <1>9, <2>2
    <3>2. \A c \in 1..n : now.left[c] \in {a - 1, (a - 1) + 1}
      <4> TAKE c \in 1..n
      <4>1. left[c] \in {a, a + 1} /\ now.left[c] \in Nat /\ (left[c] = a + 1 => c \in columns)
        BY <1>1, <1>2, <1>11, <3>1
      <4> QED
        BY <1>12, <4>1
    <3> QED
      BY <3>1, <3>2
  <2> QED
    BY <2>1, <2>2
<1>14. Evaluation!SumTo(n, left) = Evaluation!SumTo(n, now.left) + d
  BY <1>1, <1>2, <1>3, <1>11, <1>12, SumAdd
<1> QED
  BY <1>3, <1>6, <1>7, <1>10, <1>11, <1>12, <1>13, <1>14 DEF columns, now, left, RowTakes

\* The sums of the first numbers grow.
LEMMA SumsGrow ==
  ASSUME NEW n \in Nat, NEW f \in [1..n -> Nat], NEW s, Sums(n, f, s), NEW i \in 0..n
  PROVE  s[i] <= s[n]
<1> DEFINE U == {k \in 0..n : k >= i => s[i] <= s[k]}
<1>1. 0 \in U
  BY DEF Sums
<1>2. ASSUME NEW k \in 0..n-1, k \in U PROVE k + 1 \in U
  <2>1. k + 1 \in 1..n /\ (k + 1) - 1 = k
    OBVIOUS
  <2>2. s[k+1] = s[k] + f[k+1] /\ s[k] \in Nat /\ f[k+1] \in Nat /\ s[i] \in Nat
    BY <2>1 DEF Sums
  <2>3. k + 1 >= i => k >= i \/ k + 1 = i
    OBVIOUS
  <2> QED
    BY <1>2, <2>1, <2>2, <2>3
<1>3. n \in U
  <2> HIDE DEF U
  <2>1. \A k \in 0..n : k \in U
    BY <1>1, <1>2, Climb
  <2> QED
    BY <2>1
<1> QED
  BY <1>3

\* No row of a partial round asks for more columns than there are.
LEMMA RowsFit ==
  ASSUME NEW states \in Nat \ {0}, NEW seeds \in Nat \ {0}, NEW m \in 0..states*seeds-1,
         NEW r \in 1..states
  PROVE  Evaluation!Degrees(states, m)[r] \in 0..seeds
<1> DEFINE q == m \div states
           t == m % states
<1>1. q \in Nat /\ t \in 0..states-1 /\ m = states * q + t
  <2>1. m \in Nat
    OBVIOUS
  <2> QED
    BY <2>1, DivMod
<1>2. Evaluation!Degrees(states, m)[r] \in {q, q + 1}
  <2>1. m \in Nat
    OBVIOUS
  <2> QED
    BY <2>1, DegreesShare
<1> HIDE DEF q, t
<1>3. ASSUME seeds <= q PROVE FALSE
  <2>1. states * seeds <= states * q
    BY <1>1, <1>3, MulMono
  <2>2. states * seeds \in Nat /\ states * q \in Nat /\ m < states * seeds
    BY <1>1
  <2> QED
    BY <1>1, <2>1, <2>2
<1> QED
  BY <1>1, <1>2, <1>3

\* One row of the round keeps its invariant.
LEMMA RoundStep ==
  ASSUME NEW states \in Nat \ {0}, NEW seeds \in Nat \ {0}, NEW m \in 0..states*seeds-1,
         NEW r \in 1..states, NEW before, RoundInv(states, seeds, m, r - 1, before),
         Evaluation!Degrees(states, m)[r] <= Evaluation!SumTo(seeds, before.left)
  PROVE  LET now == Evaluation!NextRow(before, r, Evaluation!Degrees(states, m)[r])
         IN  /\ RoundInv(states, seeds, m, r, now)
             /\ Evaluation!SumTo(seeds, before.left)
                  = Evaluation!SumTo(seeds, now.left) + Evaluation!Degrees(states, m)[r]
<1> DEFINE d == Evaluation!Degrees(states, m)[r]
           left == before.left
           now == Evaluation!NextRow(before, r, d)
           columns == Evaluation!LargestLeft(left, d)
           row(x, k) == {c \in 1..seeds : <<k, c>> \in x.pairs}
           column(x, k, c) == {i \in 1..k : <<i, c>> \in x.pairs}
<1>1. d \in 0..seeds
  BY RowsFit
<1>2. left \in [1..seeds -> Nat] /\ ~before.raised /\ before.pairs \subseteq (1..r-1) \X (1..seeds)
  BY DEF RoundInv
<1>3. \A k \in 1..r-1 : /\ IsFiniteSet(row(before, k))
                        /\ Cardinality(row(before, k)) = Evaluation!Degrees(states, m)[k]
  BY DEF RoundInv
<1>4. \A c \in 1..seeds : /\ IsFiniteSet(column(before, r - 1, c))
                          /\ left[c] + Cardinality(column(before, r - 1, c)) = Evaluation!Degrees(seeds, m)[c]
  BY DEF RoundInv
<1>5. \E a \in Nat : \A c \in 1..seeds : left[c] \in {a, a + 1}
  BY DEF RoundInv
<1>6. /\ columns \in SUBSET (1..seeds) /\ IsFiniteSet(columns) /\ Cardinality(columns) = d
      /\ \A c \in columns : left[c] > 0
      /\ now.left \in [1..seeds -> Nat]
      /\ \A c \in 1..seeds : left[c] = now.left[c] + (IF c \in columns THEN 1 ELSE 0)
      /\ \E b \in Nat : \A c \in 1..seeds : now.left[c] \in {b, b + 1}
      /\ Evaluation!SumTo(seeds, left) = Evaluation!SumTo(seeds, now.left) + d
      /\ now.pairs = before.pairs \cup ({r} \X columns)
      /\ now.raised = (before.raised \/ \E c \in columns : left[c] = 0)
  <2> HIDE DEF d
  <2>1. d <= Evaluation!SumTo(seeds, left) /\ seeds \in Nat
    BY DEF d
  <2>2. RowTakes(seeds, d, before, r)
    BY <1>1, <1>2, <1>5, <2>1, RowsTake
  <2> QED
    BY <2>2 DEF RowTakes
<1> HIDE DEF d, left, now, columns
<1>7. ~now.raised
  <2>1. \A c \in columns : left[c] # 0
    BY <1>6
  <2> QED
    BY <1>2, <1>6, <2>1
<1>8. now.pairs \subseteq (1..r) \X (1..seeds)
  <2>1. 1..r-1 \subseteq 1..r /\ r \in 1..r
    OBVIOUS
  <2> QED
    BY <1>2, <1>6, <2>1
<1>9. ASSUME NEW k \in 1..r
      PROVE  IsFiniteSet(row(now, k)) /\ Cardinality(row(now, k)) = Evaluation!Degrees(states, m)[k]
  <2>1. CASE k = r
    <3>1. row(now, k) = columns
      <4>1. \A c \in 1..seeds : <<r, c>> \notin before.pairs
        BY <1>2
      <4>2. \A c \in 1..seeds : <<r, c>> \in now.pairs <=> c \in columns
        BY <1>6, <4>1
      <4> QED
        BY <1>6, <2>1, <4>2
    <3> QED
      BY <1>6, <2>1, <3>1 DEF d
  <2>2. CASE k # r
    <3>1. row(now, k) = row(before, k) /\ k \in 1..r-1
      BY <1>6, <2>2
    <3> QED
      BY <1>3, <3>1
  <2> QED
    BY <2>1, <2>2
<1>10. ASSUME NEW c \in 1..seeds
       PROVE  /\ IsFiniteSet(column(now, r, c))
              /\ now.left[c] + Cardinality(column(now, r, c)) = Evaluation!Degrees(seeds, m)[c]
  <2> DEFINE C == column(before, r - 1, c)
  <2>1. column(now, r, c) = IF c \in columns THEN C \cup {r} ELSE C
    BY <1>2, <1>6
  <2>2. IsFiniteSet(C) /\ left[c] + Cardinality(C) = Evaluation!Degrees(seeds, m)[c]
    BY <1>4
  <2>8. r \notin C
    OBVIOUS
  <2>3. Cardinality(C) \in Nat /\ left[c] \in Nat /\ now.left[c] \in Nat
    BY <1>2, <1>6, <2>2, FS_CardinalityType
  <2>4. IsFiniteSet(C \cup {r}) /\ Cardinality(C \cup {r}) = Cardinality(C) + 1
    <3> HIDE DEF C
    <3> QED
      BY <2>2, <2>8, FS_AddElement
  <2>5. left[c] = now.left[c] + (IF c \in columns THEN 1 ELSE 0)
    BY <1>6
  <2> DEFINE D == column(now, r, c)
  <2> HIDE DEF C, D
  <2>6. CASE c \in columns
    <3>1. IsFiniteSet(D) /\ Cardinality(D) = Cardinality(C) + 1
      BY <2>1, <2>4, <2>6 DEF D
    <3>2. IsFiniteSet(D) /\ now.left[c] + Cardinality(D) = Evaluation!Degrees(seeds, m)[c]
      BY <2>2, <2>3, <2>5, <2>6, <3>1
    <3> QED
      BY <3>2 DEF D
  <2>7. CASE c \notin columns
    <3>1. D = C
      BY <2>1, <2>7 DEF D
    <3>2. IsFiniteSet(D) /\ now.left[c] + Cardinality(D) = Evaluation!Degrees(seeds, m)[c]
      BY <2>2, <2>3, <2>5, <2>7, <3>1
    <3> QED
      BY <3>2 DEF D
  <2> QED
    BY <2>6, <2>7
<1>11. RoundInv(states, seeds, m, r, now)
  BY <1>6, <1>7, <1>8, <1>9, <1>10 DEF RoundInv
<1> QED
  BY <1>6, <1>11 DEF now, d, left

\* The partial round raises nothing, gives every row and every column its
\* degree, and leaves no column anything.
RoundFits(states, seeds, m) ==
  LET now == Evaluation!PartialRound(states, seeds, m)
  IN  /\ ~now.raised /\ \A c \in 1..seeds : now.left[c] = 0
      /\ \A r \in 1..states : LET cs == {c \in 1..seeds : <<r, c>> \in now.pairs}
                              IN  IsFiniteSet(cs) /\ Cardinality(cs) = Evaluation!Degrees(states, m)[r]
      /\ \A c \in 1..seeds : LET rs == {r \in 1..states : <<r, c>> \in now.pairs}
                             IN  IsFiniteSet(rs) /\ Cardinality(rs) = Evaluation!Degrees(seeds, m)[c]

\* The round starts with its invariant.
LEMMA RoundStarts ==
  ASSUME NEW states \in Nat \ {0}, NEW seeds \in Nat \ {0}, NEW m \in Nat
  PROVE  LET start == [left |-> Evaluation!Degrees(seeds, m), pairs |-> {}, raised |-> FALSE]
         IN  RoundInv(states, seeds, m, 0, start) /\ Evaluation!SumTo(seeds, start.left) = m
<1> DEFINE start == [left |-> Evaluation!Degrees(seeds, m), pairs |-> {}, raised |-> FALSE]
<1>1. /\ Evaluation!Degrees(seeds, m) \in [1..seeds -> Nat]
      /\ Evaluation!SumTo(seeds, Evaluation!Degrees(seeds, m)) = m
      /\ \A i \in 1..seeds : Evaluation!Degrees(seeds, m)[i] \in {m \div seeds, m \div seeds + 1}
  BY DegreesShare
<1>2. start.left = Evaluation!Degrees(seeds, m) /\ start.pairs = {} /\ ~start.raised
  OBVIOUS
<1>3. m \div seeds \in Nat
  BY DivMod
<1>4. \A c \in 1..seeds : {k \in 1..0 : <<k, c>> \in start.pairs} = {}
  BY <1>2
<1> HIDE DEF start
<1>5. ASSUME NEW c \in 1..seeds
      PROVE  LET rs == {k \in 1..0 : <<k, c>> \in start.pairs}
             IN  IsFiniteSet(rs) /\ start.left[c] + Cardinality(rs) = Evaluation!Degrees(seeds, m)[c]
  <2>1. IsFiniteSet({}) /\ Cardinality({}) = 0
    BY FS_EmptySet
  <2>2. Evaluation!Degrees(seeds, m)[c] \in Nat
    BY <1>1
  <2> QED
    BY <1>2, <1>4, <2>1, <2>2
<1>6. \E a \in Nat : \A c \in 1..seeds : start.left[c] \in {a, a + 1}
  BY <1>1, <1>2, <1>3
<1>7. \A k \in 1..0 : LET cs == {c \in 1..seeds : <<k, c>> \in start.pairs}
                      IN  IsFiniteSet(cs) /\ Cardinality(cs) = Evaluation!Degrees(states, m)[k]
  OBVIOUS
<1>8. RoundInv(states, seeds, m, 0, start)
  BY <1>1, <1>2, <1>5, <1>6, <1>7 DEF RoundInv
<1> QED
  BY <1>1, <1>2, <1>8 DEF start

\* It does for every remainder.
LEMMA PartialRoundFits ==
  ASSUME NEW states \in Nat \ {0}, NEW seeds \in Nat \ {0}, NEW m \in 0..states*seeds-1
  PROVE  RoundFits(states, seeds, m)
<1> DEFINE rows == Evaluation!Degrees(states, m)
<1>1. m \in Nat /\ states \in Nat /\ seeds \in Nat
  OBVIOUS
<1>2. rows \in [1..states -> Nat] /\ Evaluation!SumTo(states, rows) = m
  BY <1>1, DegreesShare
<1> HIDE DEF rows
<1>3. PICK p : Sums(states, rows, p) /\ Evaluation!SumTo(states, rows) = p[states]
  BY <1>1, <1>2, SumSteps
<1>0. \A r \in 1..states : \A x :
           /\ RoundInv(states, seeds, m, r - 1, x)
           /\ Evaluation!Degrees(states, m)[r] <= Evaluation!SumTo(seeds, x.left)
         =>
           /\ RoundInv(states, seeds, m, r, Evaluation!NextRow(x, r, Evaluation!Degrees(states, m)[r]))
           /\ Evaluation!SumTo(seeds, x.left)
                = Evaluation!SumTo(seeds, Evaluation!NextRow(x, r, Evaluation!Degrees(states, m)[r]).left)
                    + Evaluation!Degrees(states, m)[r]
  BY RoundStep
<1>4. PICK s : Rounds(states, seeds, m, s) /\ Evaluation!PartialRound(states, seeds, m) = s[states]
  BY <1>1, RoundSteps
<1> DEFINE U == {r \in 0..states : /\ RoundInv(states, seeds, m, r, s[r])
                                   /\ Evaluation!SumTo(seeds, s[r].left) = m - p[r]}
<1>5. 0 \in U
  <2>1. s[0] = [left |-> Evaluation!Degrees(seeds, m), pairs |-> {}, raised |-> FALSE]
    BY <1>4 DEF Rounds
  <2>2. RoundInv(states, seeds, m, 0, s[0]) /\ Evaluation!SumTo(seeds, s[0].left) = m
    BY <1>1, <2>1, RoundStarts
  <2>3. p[0] = 0
    BY <1>3 DEF Sums
  <2> QED
    BY <1>1, <2>2, <2>3
<1>6. ASSUME NEW k \in 0..states-1, k \in U PROVE k + 1 \in U
  <2> DEFINE r == k + 1
             d == rows[r]
  <2>1. r \in 1..states /\ r - 1 = k /\ r \in 0..states
    OBVIOUS
  <2>2. s[r] = Evaluation!NextRow(s[k], r, rows[r])
    BY <1>4, <2>1 DEF Rounds, rows
  <2>3. RoundInv(states, seeds, m, r - 1, s[k]) /\ Evaluation!SumTo(seeds, s[k].left) = m - p[k]
    BY <1>6, <2>1
  <2> HIDE DEF r
  <2>4. p[r] = p[k] + d /\ p[r] <= m /\ d \in Nat /\ p[k] \in Nat
    <3>1. p[r] <= p[states]
      BY <1>1, <1>2, <1>3, <2>1, SumsGrow
    <3>2. p[r] = p[r-1] + rows[r] /\ p[k] \in Nat
      BY <1>3, <2>1 DEF Sums
    <3>3. rows[r] \in Nat
      BY <1>2, <2>1
    <3> QED
      BY <1>2, <1>3, <2>1, <3>1, <3>2, <3>3
  <2>5. d <= Evaluation!SumTo(seeds, s[k].left)
    BY <1>1, <2>3, <2>4
  <2>6. /\ RoundInv(states, seeds, m, r, s[r])
        /\ Evaluation!SumTo(seeds, s[k].left) = Evaluation!SumTo(seeds, s[r].left) + d
    <3> DEFINE before == s[k]
               next == Evaluation!NextRow(before, r, Evaluation!Degrees(states, m)[r])
    <3>1. next = s[r]
      BY <2>2 DEF rows
    <3>2. /\ Evaluation!Degrees(states, m)[r] <= Evaluation!SumTo(seeds, before.left)
          /\ RoundInv(states, seeds, m, r - 1, before)
      BY <2>3, <2>5 DEF rows
    <3>3. before = s[k]
      OBVIOUS
    <3> HIDE DEF before
    <3>4. /\ RoundInv(states, seeds, m, r, next)
          /\ Evaluation!SumTo(seeds, before.left)
               = Evaluation!SumTo(seeds, next.left) + Evaluation!Degrees(states, m)[r]
      BY <1>0, <2>1, <3>2
    <3> HIDE DEF next
    <3> QED
      BY <3>1, <3>3, <3>4 DEF rows
  <2>7. Evaluation!SumTo(seeds, s[r].left) \in Nat
    <3>1. s[r].left \in [1..seeds -> Nat] /\ 1 \in 1..seeds
      BY <2>6 DEF RoundInv
    <3> QED
      BY <1>1, <3>1, SumCovers
  <2>8. Evaluation!SumTo(seeds, s[r].left) = m - p[r]
    BY <1>1, <2>3, <2>4, <2>6, <2>7
  <2>9. r \in U
    BY <2>1, <2>6, <2>8
  <2> QED
    BY <2>9 DEF r
<1>7. states \in U
  <2> HIDE DEF U
  <2>1. \A r \in 0..states : r \in U
    BY <1>1, <1>5, <1>6, Climb
  <2> QED
    BY <1>1, <2>1
<1> DEFINE now == s[states]
<1>8. RoundInv(states, seeds, m, states, now) /\ Evaluation!SumTo(seeds, now.left) = 0
  BY <1>1, <1>2, <1>3, <1>7
<1> HIDE DEF now, U
<1>9. \A c \in 1..seeds : now.left[c] = 0
  <2> TAKE c \in 1..seeds
  <2>1. now.left \in [1..seeds -> Nat]
    BY <1>8 DEF RoundInv
  <2>2. now.left[c] <= 0
    BY <1>1, <1>8, <2>1, SumCovers
  <2> QED
    BY <2>1, <2>2
<1>10. ASSUME NEW c \in 1..seeds
       PROVE  LET rs == {r \in 1..states : <<r, c>> \in now.pairs}
              IN  IsFiniteSet(rs) /\ Cardinality(rs) = Evaluation!Degrees(seeds, m)[c]
  <2> DEFINE rs == {r \in 1..states : <<r, c>> \in now.pairs}
  <2>1. IsFiniteSet(rs) /\ now.left[c] + Cardinality(rs) = Evaluation!Degrees(seeds, m)[c]
    BY <1>8 DEF RoundInv
  <2> HIDE DEF rs
  <2>2. Cardinality(rs) \in Nat /\ now.left[c] = 0
    BY <1>9, <2>1, FS_CardinalityType
  <2>3. Cardinality(rs) = Evaluation!Degrees(seeds, m)[c]
    BY <2>1, <2>2
  <2> QED
    BY <2>1, <2>3 DEF rs
<1>11. /\ ~now.raised
       /\ \A r \in 1..states : LET cs == {c \in 1..seeds : <<r, c>> \in now.pairs}
                               IN  IsFiniteSet(cs) /\ Cardinality(cs) = Evaluation!Degrees(states, m)[r]
  BY <1>8 DEF RoundInv
<1>12. Evaluation!PartialRound(states, seeds, m) = now
  BY <1>4 DEF now
<1> QED
  BY <1>9, <1>10, <1>11, <1>12 DEF RoundFits
-----------------------------------------------------------------------------
(***************************************************************************)
(* The whole schedule.                                                     *)
(***************************************************************************)
\* Numbers that are all one of two neighbours differ by at most one.
LEMMA Neighbours ==
  ASSUME NEW S, NEW f, f = [x \in S |-> f[x]], NEW a \in Nat, \A x \in S : f[x] \in {a, a + 1}
  PROVE  Evaluation!Even(f)
<1>1. DOMAIN f = S
  OBVIOUS
<1>2. ASSUME NEW x \in S, NEW y \in S PROVE f[x] <= f[y] + 1
  <2>1. f[x] \in {a, a + 1} /\ f[y] \in {a, a + 1}
    OBVIOUS
  <2> QED
    BY <2>1
<1> QED
  BY <1>1, <1>2 DEF Evaluation!Even

\* A line of the schedule holds the full rounds, and its degree.
LEMMA LineSum ==
  ASSUME NEW n \in Nat, NEW F \in Nat, NEW g \in [1..n -> Nat], NEW T \in SUBSET (1..n),
         \A i \in 1..n : g[i] = F + (IF i \in T THEN 1 ELSE 0)
  PROVE  Evaluation!SumTo(n, g) = n * F + Cardinality(T)
<1> DEFINE f == [i \in 1..n |-> F]
<1>1. f \in [1..n -> Nat] /\ g \in [1..n -> Nat] /\ T \in SUBSET (1..n)
  OBVIOUS
<1>2. \A i \in 1..n : g[i] = f[i] + (IF i \in T THEN 1 ELSE 0)
  OBVIOUS
<1>3. Evaluation!SumTo(n, f) = n * F
  BY SumConst
<1> HIDE DEF f
<1>4. Evaluation!SumTo(n, g) = Evaluation!SumTo(n, f) + Cardinality(T)
  BY <1>1, <1>2, SumAdd, ZenonT(30)
<1> QED
  BY <1>3, <1>4

\* What ScheduleBalanced says of a request.
Balanced(trials, states, seeds) ==
  LET s == Evaluation!Schedule(trials, states, seeds)
  IN  /\ ~s.raised
      /\ Evaluation!TrialCount(s, states, seeds) = trials
      /\ Evaluation!Even(s.count)
      /\ Evaluation!Even([r \in 1..states |-> Evaluation!StateCount(s, seeds, r)])
      /\ Evaluation!Even([c \in 1..seeds |-> Evaluation!SeedCountOf(s, states, c)])

\* It holds of every one.
LEMMA SchedulesBalance ==
  ASSUME NEW trials \in Nat, NEW states \in Nat \ {0}, NEW seeds \in Nat \ {0}
  PROVE  Balanced(trials, states, seeds)
<1> DEFINE pc == states * seeds
           F == trials \div pc
           m == trials % pc
           s == Evaluation!Schedule(trials, states, seeds)
           pairs == Evaluation!PartialRound(states, seeds, m).pairs
           rows == Evaluation!Degrees(states, m)
           owed == Evaluation!Degrees(seeds, m)
           row(r) == {c \in 1..seeds : <<r, c>> \in pairs}
           column(c) == {r \in 1..states : <<r, c>> \in pairs}
<1>1. pc \in Nat \ {0} /\ pc = states * seeds
  <2>1. states * 1 <= states * seeds
    BY MulMono
  <2>2. states * seeds \in Nat /\ states * 1 = states
    OBVIOUS
  <2> QED
    BY <2>1, <2>2
<1>2. s.count = [p \in (1..states) \X (1..seeds) |-> F + (IF p \in pairs THEN 1 ELSE 0)]
  BY DEF Evaluation!Schedule
<1>3. s.raised = (\/ Evaluation!PartialRound(states, seeds, m).raised
                  \/ \E c \in 1..seeds : Evaluation!PartialRound(states, seeds, m).left[c] # 0)
  BY DEF Evaluation!Schedule
<1> HIDE DEF pc, s
<1>4. F \in Nat /\ m \in 0..pc-1 /\ trials = pc * F + m
  BY <1>1, DivMod
<1>5. m \in 0..states*seeds-1 /\ m \in Nat
  BY <1>1, <1>4
<1> HIDE DEF F, m
<1>6. RoundFits(states, seeds, m)
  BY <1>5, PartialRoundFits
<1>7. ~s.raised
  BY <1>3, <1>6 DEF RoundFits
<1>8. \A r \in 1..states : IsFiniteSet(row(r)) /\ Cardinality(row(r)) = rows[r]
  BY <1>6 DEF RoundFits
<1>9. \A c \in 1..seeds : IsFiniteSet(column(c)) /\ Cardinality(column(c)) = owed[c]
  BY <1>6 DEF RoundFits
<1> HIDE DEF pairs, rows, owed
<1>10. Evaluation!Even(s.count)
  <2>1. s.count = [p \in (1..states) \X (1..seeds) |-> s.count[p]]
    BY <1>2
  <2>2. \A p \in (1..states) \X (1..seeds) : s.count[p] \in {F, F + 1}
    BY <1>2, <1>4
  <2> QED
    BY <1>4, <2>1, <2>2, Neighbours
<1>11. ASSUME NEW r \in 1..states PROVE Evaluation!StateCount(s, seeds, r) = seeds * F + rows[r]
  <2> DEFINE g == [c \in 1..seeds |-> s.count[<<r, c>>]]
  <2>1. g = [c \in 1..seeds |-> F + (IF c \in row(r) THEN 1 ELSE 0)]
    BY <1>2
  <2>2. row(r) \in SUBSET (1..seeds) /\ seeds \in Nat
    OBVIOUS
  <2>3. Evaluation!StateCount(s, seeds, r) = Evaluation!SumTo(seeds, g)
    BY DEF Evaluation!StateCount
  <2>4. Evaluation!SumTo(seeds, g) = seeds * F + Cardinality(row(r))
    <3> DEFINE T == row(r)
    <3>1. /\ T \in SUBSET (1..seeds) /\ g \in [1..seeds -> Nat]
          /\ \A c \in 1..seeds : g[c] = F + (IF c \in T THEN 1 ELSE 0)
      BY <1>4, <2>1, <2>2
    <3> HIDE DEF g, T
    <3>2. Evaluation!SumTo(seeds, g) = seeds * F + Cardinality(T)
      BY <1>4, <2>2, <3>1, LineSum
    <3> QED
      BY <3>2 DEF T
  <2> QED
    BY <1>8, <2>3, <2>4
<1>12. ASSUME NEW c \in 1..seeds PROVE Evaluation!SeedCountOf(s, states, c) = states * F + owed[c]
  <2> DEFINE g == [r \in 1..states |-> s.count[<<r, c>>]]
  <2>1. g = [r \in 1..states |-> F + (IF r \in column(c) THEN 1 ELSE 0)]
    BY <1>2
  <2>2. column(c) \in SUBSET (1..states) /\ states \in Nat
    OBVIOUS
  <2>3. Evaluation!SeedCountOf(s, states, c) = Evaluation!SumTo(states, g)
    BY DEF Evaluation!SeedCountOf
  <2>4. Evaluation!SumTo(states, g) = states * F + Cardinality(column(c))
    <3> DEFINE T == column(c)
    <3>1. /\ T \in SUBSET (1..states) /\ g \in [1..states -> Nat]
          /\ \A r \in 1..states : g[r] = F + (IF r \in T THEN 1 ELSE 0)
      BY <1>4, <2>1, <2>2
    <3> HIDE DEF g, T
    <3>2. Evaluation!SumTo(states, g) = states * F + Cardinality(T)
      BY <1>4, <2>2, <3>1, LineSum
    <3> QED
      BY <3>2 DEF T
  <2> QED
    BY <1>9, <2>3, <2>4
<1>13. Evaluation!Even([r \in 1..states |-> Evaluation!StateCount(s, seeds, r)])
  <2> DEFINE f == [r \in 1..states |-> Evaluation!StateCount(s, seeds, r)]
             q == m \div states
  <2>1. q \in Nat /\ \A r \in 1..states : rows[r] \in {q, q + 1}
    BY <1>5, DivMod, DegreesShare DEF rows
  <2> HIDE DEF q
  <2>2. seeds * F \in Nat /\ seeds * F + q \in Nat
    BY <1>4, <2>1
  <2>3. f = [r \in 1..states |-> f[r]]
    OBVIOUS
  <2>4. \A r \in 1..states : f[r] \in {seeds * F + q, (seeds * F + q) + 1}
    <3> TAKE r \in 1..states
    <3>1. f[r] = seeds * F + rows[r]
      BY <1>11
    <3> HIDE DEF f
    <3> QED
      BY <2>1, <2>2, <3>1
  <2> HIDE DEF f
  <2>5. Evaluation!Even(f)
    BY <2>2, <2>3, <2>4, Neighbours
  <2> QED
    BY <2>5 DEF f
<1>14. Evaluation!Even([c \in 1..seeds |-> Evaluation!SeedCountOf(s, states, c)])
  <2> DEFINE f == [c \in 1..seeds |-> Evaluation!SeedCountOf(s, states, c)]
             q == m \div seeds
  <2>1. q \in Nat /\ \A c \in 1..seeds : owed[c] \in {q, q + 1}
    BY <1>5, DivMod, DegreesShare DEF owed
  <2> HIDE DEF q
  <2>2. states * F \in Nat /\ states * F + q \in Nat
    BY <1>4, <2>1
  <2>3. f = [c \in 1..seeds |-> f[c]]
    OBVIOUS
  <2>4. \A c \in 1..seeds : f[c] \in {states * F + q, (states * F + q) + 1}
    <3> TAKE c \in 1..seeds
    <3>1. f[c] = states * F + owed[c]
      BY <1>12
    <3> HIDE DEF f
    <3> QED
      BY <2>1, <2>2, <3>1
  <2> HIDE DEF f
  <2>5. Evaluation!Even(f)
    BY <2>2, <2>3, <2>4, Neighbours
  <2> QED
    BY <2>5 DEF f
<1>15. Evaluation!TrialCount(s, states, seeds) = trials
  <2> DEFINE f == [r \in 1..states |-> Evaluation!StateCount(s, seeds, r)]
             q == m \div states
             t == m % states
             a == seeds * F + q
  <2>1. q \in Nat /\ t \in 0..states-1 /\ m = states * q + t
    BY <1>5, DivMod
  <2>2. rows = [r \in 1..states |-> q + (IF r <= t THEN 1 ELSE 0)]
    BY DEF rows, Evaluation!Degrees
  <2> HIDE DEF q, t
  <2>3. seeds * F \in Nat
    BY <1>4
  <2>4. a \in Nat
    BY <2>1, <2>3
  <2>5. f = [r \in 1..states |-> a + (IF r \in 1..t THEN 1 ELSE 0)]
    <3>1. \A r \in 1..states : f[r] = a + (IF r \in 1..t THEN 1 ELSE 0)
      <4> TAKE r \in 1..states
      <4>1. f[r] = seeds * F + rows[r]
        BY <1>11
      <4>2. rows[r] = q + (IF r \in 1..t THEN 1 ELSE 0)
        BY <2>1, <2>2
      <4> HIDE DEF f
      <4> QED
        BY <2>1, <2>3, <4>1, <4>2
    <3>2. f = [r \in 1..states |-> f[r]]
      OBVIOUS
    <3> HIDE DEF f, a
    <3> QED
      BY <3>1, <3>2
  <2>6. Evaluation!TrialCount(s, states, seeds) = Evaluation!SumTo(states, f)
    BY DEF Evaluation!TrialCount
  <2>7. 1..t \in SUBSET (1..states) /\ Cardinality(1..t) = t
    <3>1. Cardinality(1..t) = t
      BY <2>1, FS_Interval
    <3> QED
      BY <2>1, <3>1
  <2>8. Evaluation!SumTo(states, f) = states * a + t
    <3> DEFINE T == 1..t
    <3>1. /\ T \in SUBSET (1..states) /\ f \in [1..states -> Nat]
          /\ \A r \in 1..states : f[r] = a + (IF r \in T THEN 1 ELSE 0)
      BY <2>4, <2>5, <2>7
    <3> HIDE DEF f, a, T
    <3>2. Evaluation!SumTo(states, f) = states * a + Cardinality(T)
      BY <2>4, <3>1, LineSum
    <3> QED
      BY <2>7, <3>2 DEF T
  <2>9. states * a = states * (seeds * F) + states * q
    BY <2>1, <2>3
  <2>10. states * (seeds * F) = pc * F
    BY <1>1, <1>4
  <2>11. pc * F \in Nat /\ states * q \in Nat
    BY <1>1, <1>4, <2>1
  <2> HIDE DEF f, a
  <2> QED
    BY <1>4, <2>1, <2>6, <2>8, <2>9, <2>10, <2>11
<1> QED
  BY <1>7, <1>10, <1>13, <1>14, <1>15 DEF Balanced, s
-----------------------------------------------------------------------------
(***************************************************************************)
(* The training datasets.                                                  *)
(***************************************************************************)
\* Ids are handed out in order: a dataset is younger than its parent.
Below(n) == {None} \cup 1..n-1

\* Labels of dataset d: none outside its members.
Labels(d) == {l \in [Runs -> 0..MaxChanges] : \A r \in Runs \ set[d].members : l[r] = 0}

JobRecords ==
  [step : {"none", "resolving", "queued", "resolved", "frozen", "labelled", "created"},
   parent : Datasets \cup {None}, members : SUBSET Runs, id : 1..Ids + 1, late : SUBSET Runs]

DatasetsShape ==
  /\ kept \in SUBSET Runs /\ test \in SUBSET Runs /\ global \in [Runs -> 0..MaxChanges]
  /\ live \in SUBSET Datasets /\ indexed \in SUBSET live
  /\ set \in [Datasets -> [members : SUBSET Runs, parent : Datasets \cup {None}, healthy : BOOLEAN]]
  /\ job \in JobRecords
  /\ changes \in 0..MaxChanges

\* What the job has made, and what it has not made yet.
CreationInv ==
  /\ job.step # "none" => job.id <= Ids
  /\ job.step \notin {"frozen", "labelled", "created"} => live \subseteq 1..job.id-1
  /\ job.step \in {"frozen", "labelled"} => job.id \in live
  /\ live \subseteq 1..job.id
  /\ job.parent \in Below(job.id)

\* The frozen sets, and those that are not there.
FrozenInv ==
  /\ \A d \in Datasets : set[d].parent \in Below(d)
  /\ \A d \in Datasets \ live : owned[d] = NoFile

LabelsInv == owned \in [Datasets -> [Runs -> 0..MaxChanges + 1]]
             /\ \A d \in Datasets : owned[d] = NoFile \/ owned[d] \in Labels(d)

TestsInv == Resolved => job.members \cap test \subseteq job.late

EditorsInv == editor \in [Editors -> [scope : Datasets \cup {None}, run : Runs \cup {None}, seen : 0..MaxChanges]]

DatasetsIInv ==
  DatasetsShape /\ CreationInv /\ FrozenInv /\ LabelsInv /\ SourcesHeld /\ TestsInv /\ EditorsInv
USE DEF Datasets

\* What the labels of a dataset are made of.
LEMMA LoadedOfParent ==
  ASSUME FrozenInv, NEW d \in Datasets, NEW f, NEW g,
         \A e \in 1..d-1 : f[e] = g[e]
  PROVE  LoadedFrom(f, d) = LoadedFrom(g, d)
<1>1. set[d].parent # None => f[set[d].parent] = g[set[d].parent]
  BY DEF FrozenInv, Below
<1> QED
  BY <1>1 DEF LoadedFrom

\* Loaded is what its recursive definition says: labels exist for 1..n, by
\* induction on n.
LEMMA LoadedIs ==
  ASSUME FrozenInv
  PROVE  Loaded = [d \in Datasets |-> LoadedFrom(Loaded, d)]
<1> DEFINE S == {n \in 0..Ids : \E f : f = [d \in 1..n |-> LoadedFrom(f, d)]}
<1>1. 0 \in S
  <2> DEFINE f == [d \in 1..0 |-> 0]
  <2>1. f = [d \in 1..0 |-> LoadedFrom(f, d)]
    OBVIOUS
  <2>2. 0 \in 0..Ids
    BY DatasetsAssumption
  <2> HIDE DEF f
  <2>3. \E h : h = [d \in 1..0 |-> LoadedFrom(h, d)]
    BY <2>1
  <2> QED
    BY <2>2, <2>3
<1>2. ASSUME NEW m \in 0..Ids-1, m \in S PROVE m + 1 \in S
  <2>1. PICK f : f = [d \in 1..m |-> LoadedFrom(f, d)]
    BY <1>2
  <2> DEFINE g == [d \in 1..m+1 |-> IF d <= m THEN f[d] ELSE LoadedFrom(f, d)]
  <2>2. ASSUME NEW d \in 1..m+1 PROVE g[d] = LoadedFrom(g, d)
    <3>1. d \in Datasets /\ \A e \in 1..d-1 : f[e] = g[e]
      BY DatasetsAssumption
    <3>2. LoadedFrom(f, d) = LoadedFrom(g, d)
      <4> HIDE DEF g
      <4> QED
        BY <3>1, LoadedOfParent
    <3>3. g[d] = LoadedFrom(f, d)
      BY <2>1
    <3> QED
      BY <3>2, <3>3
  <2>3. g = [d \in 1..m+1 |-> LoadedFrom(g, d)]
    <3>1. g = [d \in 1..m+1 |-> g[d]]
      OBVIOUS
    <3> HIDE DEF g
    <3> QED
      BY <2>2, <3>1
  <2>4. m + 1 \in 0..Ids
    BY DatasetsAssumption
  <2> HIDE DEF g
  <2> QED
    BY <2>3, <2>4
<1>3. Ids \in S
  <2>1. Ids \in Nat /\ \A m \in 0..Ids-1 : m \in S => m + 1 \in S
    BY <1>2, DatasetsAssumption
  <2> HIDE DEF S
  <2> QED
    BY <2>1, <1>1, Climb
<1>4. \E f : f = [d \in Datasets |-> LoadedFrom(f, d)]
  BY <1>3
<1> QED
  BY <1>4, Zenon DEF Loaded

\* The same for the datasets a load reaches.
LEMMA ReachedOfParent ==
  ASSUME FrozenInv, NEW d \in Datasets, NEW f, NEW g,
         \A e \in 1..d-1 : f[e] = g[e]
  PROVE  ReachedFrom(f, d) = ReachedFrom(g, d)
<1>1. set[d].parent # None => f[set[d].parent] = g[set[d].parent]
  BY DEF FrozenInv, Below
<1> QED
  BY <1>1 DEF ReachedFrom

\* Reached is what its recursive definition says.
LEMMA ReachedIs ==
  ASSUME FrozenInv
  PROVE  Reached = [d \in Datasets |-> ReachedFrom(Reached, d)]
<1> DEFINE S == {n \in 0..Ids : \E f : f = [d \in 1..n |-> ReachedFrom(f, d)]}
<1>1. 0 \in S
  <2> DEFINE f == [d \in 1..0 |-> 0]
  <2>1. f = [d \in 1..0 |-> ReachedFrom(f, d)]
    OBVIOUS
  <2>2. 0 \in 0..Ids
    BY DatasetsAssumption
  <2> HIDE DEF f
  <2>3. \E h : h = [d \in 1..0 |-> ReachedFrom(h, d)]
    BY <2>1
  <2> QED
    BY <2>2, <2>3
<1>2. ASSUME NEW m \in 0..Ids-1, m \in S PROVE m + 1 \in S
  <2>1. PICK f : f = [d \in 1..m |-> ReachedFrom(f, d)]
    BY <1>2
  <2> DEFINE g == [d \in 1..m+1 |-> IF d <= m THEN f[d] ELSE ReachedFrom(f, d)]
  <2>2. ASSUME NEW d \in 1..m+1 PROVE g[d] = ReachedFrom(g, d)
    <3>1. d \in Datasets /\ \A e \in 1..d-1 : f[e] = g[e]
      BY DatasetsAssumption
    <3>2. ReachedFrom(f, d) = ReachedFrom(g, d)
      <4> HIDE DEF g
      <4> QED
        BY <3>1, ReachedOfParent
    <3>3. g[d] = ReachedFrom(f, d)
      BY <2>1
    <3> QED
      BY <3>2, <3>3
  <2>3. g = [d \in 1..m+1 |-> ReachedFrom(g, d)]
    <3>1. g = [d \in 1..m+1 |-> g[d]]
      OBVIOUS
    <3> HIDE DEF g
    <3> QED
      BY <2>2, <3>1
  <2>4. m + 1 \in 0..Ids
    BY DatasetsAssumption
  <2> HIDE DEF g
  <2> QED
    BY <2>3, <2>4
<1>3. Ids \in S
  <2>1. Ids \in Nat /\ \A m \in 0..Ids-1 : m \in S => m + 1 \in S
    BY <1>2, DatasetsAssumption
  <2> HIDE DEF S
  <2> QED
    BY <2>1, <1>1, Climb
<1>4. \E f : f = [d \in Datasets |-> ReachedFrom(f, d)]
  BY <1>3
<1> QED
  BY <1>4, Zenon DEF Reached

\* Loading gives labels of the dataset, none outside its members.
LEMMA LoadedTyped ==
  ASSUME DatasetsShape, FrozenInv, LabelsInv
  PROVE  \A d \in Datasets : Loaded[d] \in Labels(d)
<1> DEFINE S == {n \in 0..Ids : \A d \in 1..n : Loaded[d] \in Labels(d)}
<1>1. 0 \in S
  BY DatasetsAssumption
<1>2. ASSUME NEW m \in 0..Ids-1, m \in S PROVE m + 1 \in S
  <2> DEFINE d == m + 1
             p == set[d].parent
  <2>1. d \in Datasets /\ m + 1 \in 0..Ids
    BY DatasetsAssumption
  <2>2. Loaded[d] = LoadedFrom(Loaded, d)
    BY <2>1, LoadedIs
  <2>3. p # None => Loaded[p] \in [Runs -> 0..MaxChanges]
    <3>1. p # None => p \in 1..m
      BY <2>1 DEF FrozenInv, Below
    <3> QED
      BY <3>1, <1>2 DEF Labels
  <2>4. owned[d] # NoFile => owned[d] \in [Runs -> 0..MaxChanges]
    BY <2>1 DEF LabelsInv, Labels
  <2>5. global \in [Runs -> 0..MaxChanges] /\ MaxChanges \in Nat
    BY DatasetsAssumption DEF DatasetsShape
  <2>6. LoadedFrom(Loaded, d) \in Labels(d)
    <3> HIDE DEF d
    <3> QED
      BY SMTT(40), <2>3, <2>4, <2>5 DEF LoadedFrom, FillMissing, Labels
  <2>7. \A e \in 1..m+1 : Loaded[e] \in Labels(e)
    BY <2>2, <2>6, <1>2
  <2> QED
    BY <2>1, <2>7
<1>3. Ids \in S
  <2>1. Ids \in Nat /\ \A m \in 0..Ids-1 : m \in S => m + 1 \in S
    BY <1>2, DatasetsAssumption
  <2> HIDE DEF S
  <2> QED
    BY <2>1, <1>1, Climb
<1> QED
  BY <1>3

\* Loading keeps every label the file has.
LEMMA LoadedKeeps ==
  ASSUME FrozenInv, LabelsInv, NEW d \in Datasets, NEW r \in Runs,
         owned[d] # NoFile, owned[d][r] # 0
  PROVE  Loaded[d][r] = owned[d][r]
<1>1. Loaded[d] = LoadedFrom(Loaded, d)
  BY LoadedIs
<1>2. r \in set[d].members
  BY DEF LabelsInv, Labels
<1> QED
  BY <1>1, <1>2 DEF LoadedFrom, FillMissing

\* Only datasets that are there are loaded with one that is.
LEMMA ReachedLive ==
  ASSUME DatasetsShape, FrozenInv, SourcesHeld
  PROVE  \A d \in live : d \in Reached[d] /\ Reached[d] \subseteq live
<1> DEFINE S == {n \in 0..Ids : \A d \in 1..n : d \in live => d \in Reached[d] /\ Reached[d] \subseteq live}
<1>1. 0 \in S
  BY DatasetsAssumption
<1>2. ASSUME NEW m \in 0..Ids-1, m \in S PROVE m + 1 \in S
  <2> DEFINE d == m + 1
             p == set[d].parent
  <2>1. d \in Datasets /\ m + 1 \in 0..Ids
    BY DatasetsAssumption
  <2>2. Reached[d] = ReachedFrom(Reached, d)
    BY <2>1, ReachedIs
  <2>3. p # None /\ d \in live => Reached[p] \subseteq live
    <3>1. p # None => p \in 1..m
      BY <2>1 DEF FrozenInv, Below
    <3>2. p # None /\ d \in live => p \in live
      BY <2>1 DEF SourcesHeld
    <3> QED
      BY <3>1, <3>2, <1>2
  <2>4. d \in live => d \in ReachedFrom(Reached, d) /\ ReachedFrom(Reached, d) \subseteq live
    <3> HIDE DEF d
    <3> QED
      BY <2>3 DEF ReachedFrom
  <2>5. \A e \in 1..m+1 : e \in live => e \in Reached[e] /\ Reached[e] \subseteq live
    BY <2>2, <2>4, <1>2
  <2> QED
    BY <2>1, <2>5
<1>3. Ids \in S
  <2>1. Ids \in Nat /\ \A m \in 0..Ids-1 : m \in S => m + 1 \in S
    BY <1>2, DatasetsAssumption
  <2> HIDE DEF S
  <2> QED
    BY <2>1, <1>1, Climb
<1> QED
  BY <1>3 DEF DatasetsShape

\* What a load writes: labels of datasets that are there, and no other label
\* in the place of one that a file has.
LEMMA AfterLoadKeeps ==
  ASSUME DatasetsShape, FrozenInv, LabelsInv, SourcesHeld, NEW s \in live
  PROVE  /\ AfterLoad(s) \in [Datasets -> [Runs -> 0..MaxChanges + 1]]
         /\ AfterLoad(s)[s] = Loaded[s] /\ s \in Datasets
         /\ \A d \in Datasets : AfterLoad(s)[d] = NoFile \/ AfterLoad(s)[d] \in Labels(d)
         /\ \A d \in Datasets \ live : AfterLoad(s)[d] = NoFile
         /\ \A d \in Datasets, r \in Runs :
              owned[d] # NoFile /\ owned[d][r] # 0 => AfterLoad(s)[d][r] = owned[d][r]
<1>1. \A d \in Datasets : Loaded[d] \in Labels(d)
  BY LoadedTyped
<1>2. s \in Reached[s] /\ Reached[s] \subseteq live /\ live \subseteq Datasets
  BY ReachedLive DEF DatasetsShape
<1>3. \A d \in Datasets : Labels(d) \subseteq [Runs -> 0..MaxChanges + 1]
  BY DatasetsAssumption DEF Labels
<1>4. AfterLoad(s) \in [Datasets -> [Runs -> 0..MaxChanges + 1]]
  BY <1>1, <1>2, <1>3 DEF AfterLoad, LabelsInv
<1>5. \A d \in Datasets : AfterLoad(s)[d] = NoFile \/ AfterLoad(s)[d] \in Labels(d)
  BY <1>1 DEF AfterLoad, LabelsInv
<1>6. \A d \in Datasets \ live : AfterLoad(s)[d] = NoFile
  BY <1>2 DEF AfterLoad, FrozenInv
<1>7. ASSUME NEW d \in Datasets, NEW r \in Runs, owned[d] # NoFile, owned[d][r] # 0
      PROVE  AfterLoad(s)[d][r] = owned[d][r]
  BY <1>7, LoadedKeeps DEF AfterLoad
<1> QED
  BY <1>2, <1>4, <1>5, <1>6, <1>7 DEF AfterLoad

\* A verdict on a dataset changes neither its members nor its parent.
HealthOnly(s) ==
  /\ s \in [Datasets -> [members : SUBSET Runs, parent : Datasets \cup {None}, healthy : BOOLEAN]]
  /\ \A d \in Datasets : s[d].members = set[d].members /\ s[d].parent = set[d].parent

\* get and the writers of verdicts change no more than that.
LEMMA VerdictsOnly ==
  ASSUME DatasetsShape
  PROVE  /\ \A S : HealthOnly(Checked(S))
         /\ \A d, h : h \in BOOLEAN => HealthOnly(WithHealth(d, h))
<1>1. ASSUME NEW S PROVE HealthOnly(Checked(S))
  <2>1. ASSUME NEW d \in Datasets
        PROVE  /\ Checked(S)[d] \in [members : SUBSET Runs, parent : Datasets \cup {None}, healthy : BOOLEAN]
               /\ Checked(S)[d].members = set[d].members /\ Checked(S)[d].parent = set[d].parent
    BY DEF Checked, DatasetsShape
  <2>2. Checked(S) = [d \in Datasets |-> Checked(S)[d]]
    BY DEF Checked
  <2> QED
    BY <2>1, <2>2 DEF HealthOnly
<1>2. ASSUME NEW d, NEW h \in BOOLEAN PROVE HealthOnly(WithHealth(d, h))
  BY DEF WithHealth, Readable, HealthOnly, DatasetsShape
<1> QED
  BY <1>1, <1>2

\* A step that only writes verdicts keeps the invariant.
LEMMA VerdictKeeps ==
  ASSUME DatasetsIInv, HealthOnly(set'),
         UNCHANGED <<kept, test, global, live, owned, indexed, job, editor, changes>>
  PROVE  DatasetsIInv'
<1> USE DatasetsAssumption DEF HealthOnly, DatasetsIInv
<1>1. DatasetsShape'
  BY DEF DatasetsShape
<1>2. CreationInv' /\ FrozenInv'
  BY DEF CreationInv, FrozenInv, Below
<1>3. LabelsInv'
  BY DEF LabelsInv, Labels
<1>4. SourcesHeld'
  BY DEF SourcesHeld, Resolved, DatasetsShape
<1>5. TestsInv' /\ EditorsInv'
  BY DEF TestsInv, EditorsInv, Resolved
<1> QED
  BY <1>1, <1>2, <1>3, <1>4, <1>5

\* Every step of the datasets keeps the invariant.
LEMMA DatasetsStep ==
  ASSUME DatasetsIInv, Next
  PROVE  DatasetsIInv'
<1>a. \A d \in Datasets : Loaded[d] \in Labels(d)
  BY LoadedTyped DEF DatasetsIInv
<1>b. \A s \in live :
         /\ AfterLoad(s) \in [Datasets -> [Runs -> 0..MaxChanges + 1]] /\ AfterLoad(s)[s] = Loaded[s]
         /\ \A d \in Datasets : AfterLoad(s)[d] = NoFile \/ AfterLoad(s)[d] \in Labels(d)
         /\ \A d \in Datasets \ live : AfterLoad(s)[d] = NoFile
  BY AfterLoadKeeps DEF DatasetsIInv
<1>c. /\ Over.step = "none" /\ Over.parent = None /\ Over.id = job.id + 1
      /\ job.id <= Ids => Over \in JobRecords
  BY SMTT(30), DatasetsAssumption DEF Over, NoJob, JobRecords, DatasetsIInv, DatasetsShape
<1>d. \A d : HealthOnly(WithHealth(d, FALSE))
  <2>1. FALSE \in BOOLEAN
    OBVIOUS
  <2> QED
    BY <2>1, VerdictsOnly DEF DatasetsIInv
<1> USE DatasetsAssumption DEF DatasetsIInv, DatasetsShape, CreationInv, FrozenInv, LabelsInv,
       SourcesHeld, TestsInv, EditorsInv, Below, Labels, Resolved, runVars, labelVars
<1>1. ASSUME \E p \in Datasets \cup {None}, R \in SUBSET Runs : Resolve(p, R)
      PROVE  DatasetsIInv'
  <2>1. job' \in JobRecords
    BY ZenonT(40), <1>1 DEF Resolve, Available, Eligible, JobRecords
  <2>2. DatasetsShape'
    BY <1>1, <2>1 DEF Resolve, Available, Eligible
  <2>3. CreationInv'
    BY <1>1, <2>1 DEF Resolve, Available, Eligible, JobRecords
  <2>4. FrozenInv'
    BY <1>1, <2>1 DEF Resolve, Available, Eligible, JobRecords
  <2>5. LabelsInv'
    BY <1>1, <2>1 DEF Resolve, Available, Eligible, JobRecords
  <2>6. SourcesHeld'
    BY <1>1, <2>1 DEF Resolve, Available, Eligible, JobRecords
  <2>7. TestsInv'
    BY <1>1, <2>1 DEF Resolve, Available, Eligible, JobRecords
  <2>8. EditorsInv'
    BY <1>1, <2>1 DEF Resolve, Available, Eligible, JobRecords
  <2> QED
    BY <2>2, <2>3, <2>4, <2>5, <2>6, <2>7, <2>8
<1>2. ASSUME Submit
      PROVE  DatasetsIInv'
  <2>1. job' \in JobRecords
    BY <1>2 DEF Submit, JobRecords
  <2>2. DatasetsShape'
    BY <1>2, <2>1 DEF Submit
  <2>3. CreationInv'
    BY <1>2, <2>1 DEF Submit, JobRecords
  <2>4. FrozenInv'
    BY <1>2, <2>1 DEF Submit, JobRecords
  <2>5. LabelsInv'
    BY <1>2, <2>1 DEF Submit, JobRecords
  <2>6. SourcesHeld'
    BY <1>2, <2>1 DEF Submit, JobRecords
  <2>7. TestsInv'
    BY <1>2, <2>1 DEF Submit, JobRecords
  <2>8. EditorsInv'
    BY <1>2, <2>1 DEF Submit, JobRecords
  <2> QED
    BY <2>2, <2>3, <2>4, <2>5, <2>6, <2>7, <2>8
<1>3. ASSUME GetParentAndPreview
      PROVE  DatasetsIInv'
  <2>1. HealthOnly(set')
    BY <1>3, VerdictsOnly DEF GetParentAndPreview
  <2>2. \/ /\ job' = [job EXCEPT !.step = "resolved"]
           /\ job.parent \in live \cup {None} /\ job.members \subseteq kept /\ job.members \cap test = {}
        \/ job' = Over
    BY <1>3 DEF GetParentAndPreview, Preview, Available, Eligible, IsTest, JobRecords
  <2>3. /\ job.step = "queued" /\ job.id <= Ids
        /\ UNCHANGED <<kept, test, global, live, owned, indexed, editor, changes>>
    BY <1>3 DEF GetParentAndPreview
  <2>4. job' \in JobRecords
    <3>1. [job EXCEPT !.step = "resolved"] \in JobRecords
      BY DEF JobRecords
    <3> QED
      BY <2>2, <2>3, <3>1, <1>c
  <2>5. DatasetsShape'
    BY <2>1, <2>3, <2>4 DEF HealthOnly
  <2>6. CreationInv'
    BY <2>2, <2>3 DEF Over, NoJob, JobRecords
  <2>7. FrozenInv' /\ LabelsInv'
    BY <2>1, <2>3 DEF HealthOnly
  <2>8. SourcesHeld'
    BY <2>1, <2>2, <2>3 DEF HealthOnly, Over, NoJob, JobRecords
  <2>9. TestsInv'
    BY <2>2, <2>3, <1>c DEF JobRecords
  <2>10. EditorsInv'
    BY <2>3
  <2> QED
    BY <2>5, <2>6, <2>7, <2>8, <2>9, <2>10
<1>4. ASSUME Freeze
      PROVE  DatasetsIInv'
  <2>1. /\ job.step = "resolved" /\ job.id \in Datasets /\ job.id \notin live
        /\ UNCHANGED <<kept, test, global, owned, indexed, editor, changes>>
    BY <1>4 DEF Freeze, JobRecords
  <2>2. CASE job.members \subseteq kept
    <3>1. /\ live' = live \cup {job.id} /\ job' = [job EXCEPT !.step = "frozen"]
          /\ set' = [set EXCEPT ![job.id] =
                       [members |-> job.members, parent |-> job.parent, healthy |-> TRUE]]
      BY <1>4, <2>2 DEF Freeze
    <3>2. job' \in JobRecords
      BY <2>1, <3>1 DEF JobRecords
    <3>3. set' \in [Datasets -> [members : SUBSET Runs, parent : Datasets \cup {None}, healthy : BOOLEAN]]
      BY <2>1, <3>1 DEF JobRecords
    <3>4. /\ set'[job.id].members = job.members /\ set'[job.id].parent = job.parent
          /\ \A d \in Datasets : d # job.id => set'[d] = set[d]
      BY <2>1, <3>1
    <3>5. DatasetsShape'
      BY <2>1, <3>1, <3>2, <3>3
    <3>6. CreationInv'
      BY <2>1, <3>1 DEF JobRecords
    <3>7. FrozenInv'
      BY <2>1, <3>1, <3>4
    <3>8. LabelsInv'
      <4>1. ASSUME NEW d \in Datasets
            PROVE  owned[d] = NoFile \/ owned[d] \in Labels(d)'
        <5>1. CASE d = job.id
          BY <2>1, <5>1
        <5>2. CASE d # job.id
          BY <3>4, <5>2
        <5> QED
          BY <5>1, <5>2
      <4> QED
        BY <2>1, <4>1
    <3>9. SourcesHeld'
      BY <2>1, <3>1, <3>4 DEF JobRecords
    <3>10. TestsInv' /\ EditorsInv'
      BY <2>1, <3>1 DEF JobRecords
    <3> QED
      BY <3>5, <3>6, <3>7, <3>8, <3>9, <3>10
  <2>3. CASE ~(job.members \subseteq kept)
    <3>1. job' = Over /\ UNCHANGED <<live, set>>
      BY <1>4, <2>3 DEF Freeze
    <3>2. job' \in JobRecords
      BY <2>1, <3>1, <1>c
    <3>3. DatasetsShape' /\ FrozenInv' /\ LabelsInv' /\ EditorsInv'
      BY <2>1, <3>1, <3>2
    <3>4. job'.step = "none" /\ job'.parent = None /\ job'.id = job.id + 1 /\ job.id \in 1..Ids
      BY <2>1, <3>1, <1>c
    <3>5. CreationInv'
      BY <2>1, <3>1, <3>4
    <3>6. SourcesHeld' /\ TestsInv'
      BY <2>1, <3>1, <3>4
    <3> QED
      BY <3>3, <3>5, <3>6
  <2> QED
    BY <2>2, <2>3
<1>5. ASSUME CopyLabels
      PROVE  DatasetsIInv'
  <2>1. /\ job.step = "frozen" /\ job' = [job EXCEPT !.step = "labelled"] /\ owned' = AfterLoad(job.id)
        /\ UNCHANGED <<kept, test, global, live, set, indexed, editor, changes>>
    BY <1>5 DEF CopyLabels
  <2>2. job.id \in live
    BY <2>1
  <2>3. /\ owned' \in [Datasets -> [Runs -> 0..MaxChanges + 1]]
        /\ \A d \in Datasets : owned'[d] = NoFile \/ owned'[d] \in Labels(d)
        /\ \A d \in Datasets \ live : owned'[d] = NoFile
    BY SMTT(30), <2>1, <2>2, <1>b
  <2>4. job' \in JobRecords
    BY <2>1 DEF JobRecords
  <2>5. DatasetsShape' /\ EditorsInv'
    BY <2>1, <2>4
  <2>6. CreationInv' /\ SourcesHeld' /\ TestsInv'
    BY <2>1 DEF JobRecords
  <2>7. FrozenInv' /\ LabelsInv'
    BY <2>1, <2>3
  <2> QED
    BY <2>5, <2>6, <2>7
<1>6. ASSUME Upsert
      PROVE  DatasetsIInv'
  <2>1. job' \in JobRecords
    BY <1>6 DEF Upsert, JobRecords
  <2>2. DatasetsShape'
    BY <1>6, <2>1 DEF Upsert
  <2>3. CreationInv'
    BY <1>6, <2>1 DEF Upsert, JobRecords
  <2>4. FrozenInv'
    BY <1>6, <2>1 DEF Upsert, JobRecords
  <2>5. LabelsInv'
    BY <1>6, <2>1 DEF Upsert, JobRecords
  <2>6. SourcesHeld'
    BY <1>6, <2>1 DEF Upsert, JobRecords
  <2>7. TestsInv'
    BY <1>6, <2>1 DEF Upsert, JobRecords
  <2>8. EditorsInv'
    BY <1>6, <2>1 DEF Upsert, JobRecords
  <2> QED
    BY <2>2, <2>3, <2>4, <2>5, <2>6, <2>7, <2>8
<1>7. ASSUME Complete
      PROVE  DatasetsIInv'
  <2>1. job' \in JobRecords
    BY <1>7 DEF Complete, Over, NoJob, JobRecords
  <2>2. job' = [job EXCEPT !.step = job'.step] \/ (job'.step = "none" /\ job'.parent = None /\ job'.id = job.id + 1)
    BY <1>7 DEF Complete, Over, NoJob
  <2>3. DatasetsShape'
    BY <1>7, <2>1, <2>2 DEF Complete, Over, NoJob
  <2>4. CreationInv'
    BY <1>7, <2>1, <2>2 DEF Complete, Over, NoJob, JobRecords
  <2>5. FrozenInv'
    BY <1>7, <2>1, <2>2 DEF Complete, Over, NoJob, JobRecords
  <2>6. LabelsInv'
    BY <1>7, <2>1, <2>2 DEF Complete, Over, NoJob, JobRecords
  <2>7. SourcesHeld'
    BY <1>7, <2>1, <2>2 DEF Complete, Over, NoJob, JobRecords
  <2>8. TestsInv'
    BY <1>7, <2>1, <2>2 DEF Complete, Over, NoJob, JobRecords
  <2>9. EditorsInv'
    BY <1>7, <2>1, <2>2 DEF Complete, Over, NoJob, JobRecords
  <2> QED
    BY <2>3, <2>4, <2>5, <2>6, <2>7, <2>8, <2>9
<1>8. ASSUME NEW d \in Datasets, Get(d)
      PROVE  DatasetsIInv'
  BY <1>8, VerdictKeeps, VerdictsOnly DEF Get
<1>9. ASSUME \E d \in Datasets : VerifyLoad(d)
      PROVE  DatasetsIInv'
  <2>1. DatasetsShape'
    BY <1>9 DEF VerifyLoad
  <2>2. CreationInv'
    BY <1>9 DEF VerifyLoad
  <2>3. FrozenInv'
    BY <1>9 DEF VerifyLoad
  <2>4. LabelsInv'
    BY <1>9 DEF VerifyLoad
  <2>5. SourcesHeld'
    BY <1>9 DEF VerifyLoad
  <2>6. TestsInv'
    BY <1>9 DEF VerifyLoad
  <2>7. EditorsInv'
    BY <1>9 DEF VerifyLoad
  <2> QED
    BY <2>1, <2>2, <2>3, <2>4, <2>5, <2>6, <2>7
<1>10. ASSUME NEW d \in Datasets, DeleteDataset(d)
      PROVE  DatasetsIInv'
  <2>1. /\ d \in live /\ live' = live \ {d} /\ indexed' = indexed \ {d}
        /\ owned' = [owned EXCEPT ![d] = NoFile] /\ set' = [Checked(live) EXCEPT ![d] = Absent]
        /\ UNCHANGED <<kept, test, global, job, editor, changes>>
    BY <1>10 DEF DeleteDataset
  <2>2. /\ \A c \in live : set[c].parent # d
        /\ job.step \notin {"none", "resolving"} => job.parent # d
        /\ job.step \notin {"frozen", "labelled"}
    BY <1>10 DEF DeleteDataset, Unreferenced, Pending, LockFree
  <2>3. /\ set' \in [Datasets -> [members : SUBSET Runs, parent : Datasets \cup {None}, healthy : BOOLEAN]]
        /\ set'[d].members = {} /\ set'[d].parent = None
        /\ \A c \in Datasets : c # d => set'[c].members = set[c].members /\ set'[c].parent = set[c].parent
    <3>1. HealthOnly(Checked(live))
      BY VerdictsOnly
    <3> QED
      BY <2>1, <3>1 DEF HealthOnly, Absent
  <2>4. DatasetsShape' /\ CreationInv'
    BY <2>1, <2>2, <2>3
  <2>5. FrozenInv'
    <3>1. \A c \in Datasets : set'[c].parent \in Below(c)
      BY <2>3
    <3>2. \A c \in Datasets \ live' : owned'[c] = NoFile
      BY <2>1
    <3> QED
      BY <3>1, <3>2
  <2>6. LabelsInv'
    <3>1. NoFile \in [Runs -> 0..MaxChanges + 1]
      BY DEF NoFile
    <3>2. \A c \in Datasets : owned'[c] = IF c = d THEN NoFile ELSE owned[c]
      BY <2>1
    <3> QED
      BY SMTT(30), <2>1, <2>3, <3>1, <3>2
  <2>7. SourcesHeld'
    BY <2>1, <2>2, <2>3
  <2>8. TestsInv' /\ EditorsInv'
    BY <2>1
  <2> QED
    BY <2>4, <2>5, <2>6, <2>7, <2>8
<1>11. ASSUME VerifyHash
      PROVE  DatasetsIInv'
  <2>1. DatasetsShape'
    BY <1>11 DEF VerifyHash
  <2>2. CreationInv'
    BY <1>11 DEF VerifyHash
  <2>3. FrozenInv'
    BY <1>11 DEF VerifyHash
  <2>4. LabelsInv'
    BY <1>11 DEF VerifyHash
  <2>5. SourcesHeld'
    BY <1>11 DEF VerifyHash
  <2>6. TestsInv'
    BY <1>11 DEF VerifyHash
  <2>7. EditorsInv'
    BY <1>11 DEF VerifyHash
  <2> QED
    BY <2>1, <2>2, <2>3, <2>4, <2>5, <2>6, <2>7
<1>12. ASSUME VerifyWrite
      PROVE  DatasetsIInv'
  <2>1. HealthOnly(set')
    BY <1>12, VerdictsOnly DEF VerifyWrite
  <2> QED
    BY <1>12, <2>1, VerdictKeeps DEF VerifyWrite
<1>13. ASSUME \E r \in Runs, force \in BOOLEAN : ReadReferences(r, force)
      PROVE  DatasetsIInv'
  <2>1. DatasetsShape'
    BY <1>13 DEF ReadReferences
  <2>2. CreationInv'
    BY <1>13 DEF ReadReferences
  <2>3. FrozenInv'
    BY <1>13 DEF ReadReferences
  <2>4. LabelsInv'
    BY <1>13 DEF ReadReferences
  <2>5. SourcesHeld'
    BY <1>13 DEF ReadReferences
  <2>6. TestsInv'
    BY <1>13 DEF ReadReferences
  <2>7. EditorsInv'
    BY <1>13 DEF ReadReferences
  <2> QED
    BY <2>1, <2>2, <2>3, <2>4, <2>5, <2>6, <2>7
<1>14. ASSUME DeleteRun
      PROVE  DatasetsIInv'
  <2>1. DatasetsShape'
    BY <1>14 DEF DeleteRun, Unqueued, Pending
  <2>2. CreationInv'
    BY <1>14 DEF DeleteRun, Unqueued, Pending
  <2>3. FrozenInv'
    BY <1>14 DEF DeleteRun, Unqueued, Pending
  <2>4. LabelsInv'
    BY <1>14 DEF DeleteRun, Unqueued, Pending
  <2>5. SourcesHeld'
    BY <1>14 DEF DeleteRun, Unqueued, Pending
  <2>6. TestsInv'
    BY <1>14 DEF DeleteRun, Unqueued, Pending
  <2>7. EditorsInv'
    BY <1>14 DEF DeleteRun, Unqueued, Pending
  <2> QED
    BY <2>1, <2>2, <2>3, <2>4, <2>5, <2>6, <2>7
<1>15. ASSUME RereadReferences
      PROVE  DatasetsIInv'
  <2>1. DatasetsShape'
    BY <1>15 DEF RereadReferences
  <2>2. CreationInv'
    BY <1>15 DEF RereadReferences
  <2>3. FrozenInv'
    BY <1>15 DEF RereadReferences
  <2>4. LabelsInv'
    BY <1>15 DEF RereadReferences
  <2>5. SourcesHeld'
    BY <1>15 DEF RereadReferences
  <2>6. TestsInv'
    BY <1>15 DEF RereadReferences
  <2>7. EditorsInv'
    BY <1>15 DEF RereadReferences
  <2> QED
    BY <2>1, <2>2, <2>3, <2>4, <2>5, <2>6, <2>7
<1>16. ASSUME MarkBroken
      PROVE  DatasetsIInv'
  <2>1. HealthOnly(set')
    <3>1. CASE UNCHANGED set
      BY <3>1 DEF HealthOnly
    <3>2. CASE \E d \in deleter.refs : set' = WithHealth(d, FALSE)
      <4>1. PICK d \in deleter.refs : set' = WithHealth(d, FALSE)
        BY <3>2
      <4>2. HealthOnly(WithHealth(d, FALSE))
        BY <1>d
      <4> QED
        BY <4>1, <4>2 DEF HealthOnly
    <3> QED
      BY <1>16, <3>1, <3>2 DEF MarkBroken
  <2> QED
    BY <1>16, <2>1, VerdictKeeps DEF MarkBroken
<1>17. ASSUME NEW r \in Runs, SetTest(r)
      PROVE  DatasetsIInv'
  <2>1. /\ test' = Toggled(r) /\ changes < MaxChanges /\ changes' = changes + 1
        /\ job' = IF Resolved THEN [job EXCEPT !.late = @ \cup {r}] ELSE job
        /\ UNCHANGED <<kept, global, live, set, owned, indexed, editor>>
    BY <1>17 DEF SetTest
  <2>2. /\ job' \in JobRecords
        /\ job'.step = job.step /\ job'.parent = job.parent /\ job'.id = job.id /\ job'.members = job.members
        /\ Resolved => job'.late = job.late \cup {r}
    BY <2>1 DEF JobRecords
  <2>3. test' \in SUBSET Runs /\ test' \subseteq test \cup {r}
    BY <2>1 DEF Toggled
  <2>4. DatasetsShape'
    BY <2>1, <2>2, <2>3
  <2>5. CreationInv' /\ FrozenInv' /\ LabelsInv' /\ SourcesHeld' /\ EditorsInv'
    BY <2>1, <2>2
  <2>6. TestsInv'
    BY <2>2, <2>3
  <2> QED
    BY <2>4, <2>5, <2>6
<1>18. ASSUME NEW e \in Editors, NEW scope \in Datasets \cup {None}, NEW r \in Runs, View(e, scope, r)
      PROVE  DatasetsIInv'
  <2>1. UNCHANGED <<kept, test, global, live, set, indexed, job, changes>>
    BY <1>18 DEF View
  <2>2. scope # None => scope \in live /\ owned' = AfterLoad(scope)
    BY <1>18 DEF View, Member, Readable
  <2>3. scope = None => owned' = owned
    BY <1>18 DEF View
  <2>4. /\ owned' \in [Datasets -> [Runs -> 0..MaxChanges + 1]]
        /\ \A d \in Datasets : owned'[d] = NoFile \/ owned'[d] \in Labels(d)
        /\ \A d \in Datasets \ live : owned'[d] = NoFile
    <3>1. CASE scope = None
      BY <2>3, <3>1
    <3>2. CASE scope # None
      <4>1. scope \in live /\ owned' = AfterLoad(scope)
        BY <2>2, <3>2
      <4>2. /\ AfterLoad(scope) \in [Datasets -> [Runs -> 0..MaxChanges + 1]]
            /\ \A d \in Datasets : AfterLoad(scope)[d] = NoFile \/ AfterLoad(scope)[d] \in Labels(d)
            /\ \A d \in Datasets \ live : AfterLoad(scope)[d] = NoFile
        BY <1>b, <4>1
      <4> QED
        BY <4>1, <4>2
    <3> QED
      BY <3>1, <3>2
  <2>5. Label(scope, r) \in 0..MaxChanges
    <3>1. CASE scope = None
      BY <3>1 DEF Label
    <3>2. CASE scope # None
      BY <3>2, <1>a DEF Label
    <3> QED
      BY <3>1, <3>2
  <2>6. EditorsInv'
    <3>1. \/ editor' = [editor EXCEPT ![e] = NoEdit]
          \/ editor' = [editor EXCEPT ![e] = [scope |-> scope, run |-> r, seen |-> Label(scope, r)]]
      BY <1>18 DEF View
    <3>2. NoEdit \in [scope : Datasets \cup {None}, run : Runs \cup {None}, seen : 0..MaxChanges]
      BY DEF NoEdit
    <3>3. [scope |-> scope, run |-> r, seen |-> Label(scope, r)]
             \in [scope : Datasets \cup {None}, run : Runs \cup {None}, seen : 0..MaxChanges]
      BY <2>5
    <3>4. CASE editor' = [editor EXCEPT ![e] = NoEdit]
      BY <3>2, <3>4
    <3>5. CASE editor' = [editor EXCEPT ![e] = [scope |-> scope, run |-> r, seen |-> Label(scope, r)]]
      BY <3>3, <3>5
    <3> QED
      BY <3>1, <3>4, <3>5
  <2>7. DatasetsShape' /\ CreationInv' /\ SourcesHeld' /\ TestsInv'
    BY <2>1
  <2>8. FrozenInv' /\ LabelsInv'
    BY <2>1, <2>4
  <2> QED
    BY <2>6, <2>7, <2>8
<1>19. ASSUME NEW e \in Editors, Save(e)
      PROVE  DatasetsIInv'
  <2> DEFINE r == editor[e].run
             d == editor[e].scope
  <2>1. /\ changes < MaxChanges /\ changes' = changes + 1 /\ editor' = [editor EXCEPT ![e] = NoEdit]
        /\ UNCHANGED <<kept, test, live, set, indexed, job>>
    BY <1>19 DEF Save
  <2>2. r \in Runs /\ (d # None => d \in live /\ d \in Datasets /\ r \in set[d].members)
    BY <1>19 DEF Save, Editable, Member, Readable
  <2>3. PICK new : /\ new \in {changes + 1} \cup (IF d = None THEN {} ELSE {global[r]} \ {0})
                   /\ IF d = None THEN global' = [global EXCEPT ![r] = new] /\ UNCHANGED owned
                      ELSE owned' = Written(d, r, new) /\ UNCHANGED global
    BY <1>19 DEF Save
  <2>4. new \in 0..MaxChanges
    BY <2>1, <2>2, <2>3
  <2>5. global' \in [Runs -> 0..MaxChanges]
    BY <2>2, <2>3, <2>4
  <2>6. /\ owned' \in [Datasets -> [Runs -> 0..MaxChanges + 1]]
        /\ \A c \in Datasets : owned'[c] = NoFile \/ owned'[c] \in Labels(c)
        /\ \A c \in Datasets \ live : owned'[c] = NoFile
    <3>1. CASE d = None
      BY <2>3, <3>1
    <3>2. CASE d # None
      <4>1. /\ AfterLoad(d) \in [Datasets -> [Runs -> 0..MaxChanges + 1]]
            /\ AfterLoad(d)[d] = Loaded[d] /\ Loaded[d] \in Labels(d)
            /\ \A c \in Datasets : AfterLoad(d)[c] = NoFile \/ AfterLoad(d)[c] \in Labels(c)
            /\ \A c \in Datasets \ live : AfterLoad(d)[c] = NoFile
        BY <2>2, <3>2, <1>a, <1>b
      <4>2. /\ owned'[d] = [Loaded[d] EXCEPT ![r] = new]
            /\ \A c \in Datasets : c # d => owned'[c] = AfterLoad(d)[c]
            /\ owned' = [owned' EXCEPT ![d] = @] /\ DOMAIN owned' = Datasets
        BY SMTT(30), <2>2, <2>3, <3>2, <4>1 DEF Written
      <4>3. owned'[d] \in Labels(d) /\ owned'[d] \in [Runs -> 0..MaxChanges + 1]
        BY SMTT(30), <2>2, <2>4, <3>2, <4>1, <4>2
      <4>4. owned' = [c \in Datasets |-> owned'[c]]
        BY <2>2, <2>3, <3>2, <4>1 DEF Written
      <4> QED
        BY ZenonT(40), <2>2, <3>2, <4>1, <4>2, <4>3, <4>4
    <3> QED
      BY <3>1, <3>2
  <2>7. EditorsInv'
    <3>1. NoEdit \in [scope : Datasets \cup {None}, run : Runs \cup {None}, seen : 0..MaxChanges]
      BY DEF NoEdit
    <3> QED
      BY <2>1, <3>1
  <2>8. DatasetsShape' /\ CreationInv' /\ SourcesHeld' /\ TestsInv'
    BY <2>1, <2>5
  <2>9. FrozenInv' /\ LabelsInv'
    BY <2>1, <2>6
  <2> QED
    BY <2>7, <2>8, <2>9
<1>20. ASSUME NEW e \in Editors, Close(e)
      PROVE  DatasetsIInv'
  <2>1. NoEdit \in [scope : Datasets \cup {None}, run : Runs \cup {None}, seen : 0..MaxChanges]
    BY DEF NoEdit
  <2>2. EditorsInv'
    BY <1>20, <2>1 DEF Close
  <2> QED
    BY <1>20, <2>2 DEF Close
<1>21. ASSUME Restart
      PROVE  DatasetsIInv'
  <2>1. /\ changes < MaxChanges /\ changes' = changes + 1 /\ indexed' = indexed \cup live
        /\ UNCHANGED <<kept, test, global, live, set, owned, editor>>
    BY <1>21 DEF Restart
  <2>2. /\ job' \in JobRecords
        /\ \/ job' = job /\ job.step = "none"
           \/ job'.step = "none" /\ job'.parent = None /\ job'.id = job.id + 1
    <3>1. CASE job.step = "none"
      BY <1>21, <3>1 DEF Restart
    <3>2. CASE job.step # "none"
      <4>1. job' = Over /\ job.id <= Ids
        BY <1>21, <3>2 DEF Restart
      <4> QED
        BY <4>1, <1>c
    <3> QED
      BY <3>1, <3>2
  <2>3. DatasetsShape' /\ FrozenInv' /\ LabelsInv' /\ EditorsInv'
    BY <2>1, <2>2
  <2>4. CASE job' = job
    BY <2>1, <2>3, <2>4
  <2>5. CASE job'.step = "none" /\ job'.parent = None /\ job'.id = job.id + 1
    <3>1. CreationInv'
      BY <2>1, <2>2, <2>5 DEF JobRecords
    <3>2. SourcesHeld' /\ TestsInv'
      BY <2>1, <2>5
    <3> QED
      BY <2>3, <3>1, <3>2
  <2> QED
    BY <2>2, <2>4, <2>5
<1> HIDE DEF DatasetsIInv
<1> QED
  BY <1>1, <1>2, <1>3, <1>4, <1>5, <1>6, <1>7, <1>8, <1>9, <1>10, <1>11, <1>12, <1>13, <1>14, <1>15,
     <1>16, <1>17, <1>18, <1>19, <1>20, <1>21 DEF Next, JobStep

\* What the labels of a dataset become where a load writes them.
LEMMA LoadKeepsLabels ==
  ASSUME DatasetsIInv, NEW s \in live, NEW d \in live, NEW r \in Runs,
         owned[d] # NoFile, owned[d][r] # 0
  PROVE  AfterLoad(s)[d][r] = owned[d][r]
<1>1. d \in Datasets
  BY DEF DatasetsIInv, DatasetsShape
<1> QED
  BY <1>1, AfterLoadKeeps DEF DatasetsIInv

\* A step that adds no dataset and writes no label.
LEMMA NothingChosen ==
  ASSUME live' \subseteq live, \A d \in live' : owned'[d] = owned[d], UNCHANGED global
  PROVE  HeldOut /\ LabelsKept
BY DEF HeldOut, LabelsKept

\* No step goes back on a choice: neither on a run held out for tests nor on
\* a label that was set.
LEMMA ChoicesStep ==
  ASSUME DatasetsIInv, Next
  PROVE  HeldOut /\ LabelsKept
<1>1. ASSUME Freeze
      PROVE  HeldOut /\ LabelsKept
  <2>1. HeldOut
    <3>1. job.step = "resolved" /\ job.id \in Datasets
      BY <1>1 DEF Freeze, DatasetsIInv, DatasetsShape, CreationInv, JobRecords
    <3>2. job.members \cap test \subseteq job.late
      BY <3>1 DEF Resolved, DatasetsIInv, TestsInv
    <3>3. CASE job.members \subseteq kept
      <4>1. live' = live \cup {job.id}
        BY <1>1, <3>3 DEF Freeze
      <4>2. set'[job.id].members = job.members
        <5>1. set' = [set EXCEPT ![job.id] =
                        [members |-> job.members, parent |-> job.parent, healthy |-> TRUE]]
          BY <1>1, <3>3 DEF Freeze
        <5> QED
          BY <3>1, <5>1 DEF DatasetsIInv, DatasetsShape
      <4> QED
        BY <3>2, <4>1, <4>2 DEF HeldOut
    <3>4. CASE ~(job.members \subseteq kept)
      BY <1>1, <3>4 DEF Freeze, HeldOut
    <3> QED
      BY <3>3, <3>4
  <2>2. LabelsKept
    BY <1>1 DEF Freeze, labelVars, LabelsKept
  <2> QED
    BY <2>1, <2>2
<1>2. ASSUME CopyLabels
      PROVE  HeldOut /\ LabelsKept
  <2>1. job.id \in live
    BY <1>2 DEF CopyLabels, DatasetsIInv, CreationInv
  <2>2. owned' = AfterLoad(job.id) /\ UNCHANGED <<live, global>>
    BY <1>2 DEF CopyLabels
  <2>3. ASSUME NEW d \in live, NEW r \in Runs, owned[d] # NoFile, owned[d][r] # 0
        PROVE  owned'[d][r] = owned[d][r]
    BY <2>1, <2>2, <2>3, LoadKeepsLabels
  <2> QED
    BY <2>2, <2>3 DEF HeldOut, LabelsKept
<1>3. ASSUME NEW d \in Datasets, DeleteDataset(d)
      PROVE  HeldOut /\ LabelsKept
  <2>1. live' = live \ {d} /\ owned' = [owned EXCEPT ![d] = NoFile] /\ UNCHANGED global
    BY <1>3 DEF DeleteDataset
  <2>2. \A c \in live' : owned'[c] = owned[c]
    BY <2>1 DEF DatasetsIInv, LabelsInv, DatasetsShape
  <2> QED
    BY <2>1, <2>2, NothingChosen
<1>4. ASSUME DeleteRun
      PROVE  HeldOut /\ LabelsKept
  <2>1. UNCHANGED <<live, owned>>
    BY <1>4 DEF DeleteRun
  <2>2. \A r \in kept' : global'[r] = global[r]
    BY <1>4 DEF DeleteRun, DatasetsIInv, DatasetsShape
  <2> QED
    BY <2>1, <2>2 DEF HeldOut, LabelsKept
<1>5. ASSUME NEW e \in Editors, NEW scope \in Datasets \cup {None}, NEW r \in Runs, View(e, scope, r)
      PROVE  HeldOut /\ LabelsKept
  <2>1. UNCHANGED <<live, global>>
    BY <1>5 DEF View
  <2>2. CASE scope = None
    <3>1. UNCHANGED owned
      BY <1>5, <2>2 DEF View
    <3> QED
      BY <2>1, <3>1, NothingChosen
  <2>3. CASE scope # None
    <3>1. scope \in live /\ owned' = AfterLoad(scope)
      BY <1>5, <2>3 DEF View, Member, Readable
    <3>2. ASSUME NEW d \in live, NEW q \in Runs, owned[d] # NoFile, owned[d][q] # 0
          PROVE  owned'[d][q] = owned[d][q]
      BY <3>1, <3>2, LoadKeepsLabels
    <3> QED
      BY <2>1, <3>2 DEF HeldOut, LabelsKept
  <2> QED
    BY <2>2, <2>3
<1>6. ASSUME NEW e \in Editors, Save(e)
      PROVE  HeldOut /\ LabelsKept
  <2> DEFINE r == editor[e].run
             d == editor[e].scope
  <2>1. /\ editor[e] = [scope |-> d, run |-> r, seen |-> editor[e].seen]
        /\ editor[e].seen = Label(d, r)
        /\ UNCHANGED <<kept, live>>
    BY <1>6 DEF Save, Unrevised, runVars, DatasetsIInv, EditorsInv
  <2>2. Shown(d, r, Label(d, r))
    BY <2>1 DEF Shown
  <2>3. r \in Runs /\ (d # None => d \in live /\ d \in Datasets)
    BY <1>6 DEF Save, Editable, Member, Readable, DatasetsIInv, DatasetsShape
  <2>4. PICK new : IF d = None THEN global' = [global EXCEPT ![r] = new] /\ UNCHANGED owned
                   ELSE owned' = Written(d, r, new) /\ UNCHANGED global
    BY <1>6 DEF Save
  <2>5. HeldOut
    BY <2>1 DEF HeldOut
  <2>6. CASE d = None
    <3>1. \A q \in Runs : q # r => global'[q] = global[q]
      BY <2>4, <2>6 DEF DatasetsIInv, DatasetsShape
    <3>2. Shown(None, r, global[r])
      BY <2>2, <2>6 DEF Label
    <3> HIDE DEF r, d
    <3>3. UNCHANGED owned
      BY <2>4, <2>6
    <3>4. kept \subseteq Runs
      BY DEF DatasetsIInv, DatasetsShape
    <3>5. \A q \in kept' : global[q] # global'[q] => Shown(None, q, global[q])
      BY <2>1, <3>1, <3>2, <3>4
    <3> QED
      BY <2>5, <3>3, <3>5 DEF LabelsKept
  <2>7. CASE d # None
    <3>1. UNCHANGED global /\ owned' = Written(d, r, new)
      BY <2>4, <2>7
    <3>2. AfterLoad(d) \in [Datasets -> [Runs -> 0..MaxChanges + 1]]
      BY <2>3, <2>7, AfterLoadKeeps DEF DatasetsIInv
    <3>3. ASSUME NEW c \in live, NEW q \in Runs, owned[c] # NoFile, owned[c][q] # 0, c # d \/ q # r
          PROVE  owned'[c][q] = owned[c][q]
      <4>1. AfterLoad(d)[c][q] = owned[c][q]
        BY <2>3, <2>7, <3>3, LoadKeepsLabels
      <4>2. c \in Datasets
        BY DEF DatasetsIInv, DatasetsShape
      <4>3. owned'[c][q] = AfterLoad(d)[c][q]
        BY <2>3, <2>7, <3>1, <3>2, <3>3, <4>2 DEF Written
      <4> QED
        BY <4>1, <4>3
    <3>4. owned[d] # NoFile /\ owned[d][r] # 0 => Shown(d, r, owned[d][r])
      <4>1. owned[d] # NoFile /\ owned[d][r] # 0 => Loaded[d][r] = owned[d][r]
        BY <2>3, <2>7, LoadedKeeps DEF DatasetsIInv
      <4> QED
        BY <2>2, <2>7, <4>1 DEF Label
    <3> HIDE DEF r, d
    <3>5. \A c \in live \cap live', q \in Runs :
             owned[c] # NoFile /\ owned[c][q] \notin {0, owned'[c][q]} => Shown(c, q, owned[c][q])
      BY <3>3, <3>4
    <3> QED
      BY <2>5, <3>1, <3>5 DEF LabelsKept
  <2> QED
    BY <2>6, <2>7
<1>7. CASE UNCHANGED <<live, global, owned>>
  BY <1>7, NothingChosen
<1> QED
  BY <1>1, <1>2, <1>3, <1>4, <1>5, <1>6, <1>7 DEF Next, JobStep, Resolve, Submit,
     GetParentAndPreview, Upsert, Complete, Get, VerifyLoad, VerifyHash, VerifyWrite,
     ReadReferences, RereadReferences, MarkBroken, SetTest, Close, Restart, labelVars, runVars
-----------------------------------------------------------------------------
(***************************************************************************)
(* The batch test.                                                         *)
(***************************************************************************)
Stopped == {"STOPPING", "CANCELED"}

(* Types, what a read that is under way holds, and the streak of errors.   *)
FlagsOK == told \in BOOLEAN /\ alive \in BOOLEAN /\ stop \in BOOLEAN /\ shared \in BOOLEAN /\ exit \in BOOLEAN
ReaderRecords == [job : Evaluation!Terminal \cup {Unread}, file : Evaluation!Record, again : BOOLEAN]
TestShape ==
  /\ request \in Evaluation!Requests /\ scheduled \in 0..MaxLaunched
  /\ job \in Evaluation!Open \cup Evaluation!Terminal \cup {"absent"}
  /\ at \in {"none", "boot", "setup", "next", "episode", "closing", "ended"}
  /\ record \in Evaluation!Record /\ file \in Evaluation!Record
  /\ errors \in 0..ErrorLimit /\ envs \in Nat
  /\ stopper = NoRead \/ stopper \in [job : Evaluation!Open \cup Evaluation!Terminal,
                                      file : Evaluation!Record \cup {Unread}]
  /\ reader = NoRead \/ reader \in ReaderRecords
  /\ at \notin {"closing", "ended"} => errors < ErrorLimit

(* The job, its runner and its process: who was told to stop was stopped   *)
(* by somebody, and a reader that has seen an outcome has seen the last.   *)
JobInv ==
  /\ job \in {"absent", "QUEUED"} => at = "none" /\ ~alive /\ ~told /\ ~stop
  /\ alive => job \in {"RUNNING", "STOPPING"} /\ (job = "STOPPING" => told)
  /\ told \/ stop => job \in Stopped
  /\ stopper # NoRead => stopper.job \in Stopped /\ job \in Stopped
  /\ reader # NoRead => IF reader.job = Unread THEN ~reader.again ELSE job = reader.job /\ ~alive
  /\ scheduled = 0 <=> job = "absent"
  /\ job = "absent" => file.status = "gone" /\ reader = NoRead

(* A process that returned 0 has written every trial, and nobody who is    *)
(* not a stop puts an older file in its place.                             *)
OutcomeInv ==
  /\ Evaluation!OutcomeHonest
  /\ at \in {"none", "boot"} => record = Evaluation!At("gone", 0)
  /\ record.status = "COMPLETED" => record.trials = scheduled
  /\ record.status = "CANCELED" => stop
  /\ exit => at = "ended"
  /\ job = "COMPLETED" => exit
  /\ exit /\ (job = "COMPLETED" \/ (job = "RUNNING" /\ alive)) =>
       file.status = "gone" \/ file.trials = scheduled
  /\ reader # NoRead /\ reader.job = "COMPLETED" /\ reader.again => reader.file.trials = scheduled

EnvironmentInv ==
  /\ Evaluation!EnvironmentAccounted
  /\ at = "episode" => shared

TestIInv == FlagsOK /\ TestShape /\ JobInv /\ OutcomeInv /\ EnvironmentInv

(* The vocabulary of the test, expanded throughout.                        *)
USE RecordingsAssumption DEF Evaluation!EvaluationAssumption, Evaluation!Active,
   Evaluation!Terminal, Evaluation!Open, Evaluation!Record, Evaluation!At, Evaluation!procVars,
   Evaluation!jobVars, Evaluation!backendVars, Stopped, ReaderRecords

(* Every step of the test keeps the invariant.                             *)
LEMMA TestStep ==
  ASSUME TestIInv, Evaluation!Next
  PROVE  TestIInv'
<1> USE DEF TestIInv, FlagsOK, TestShape, JobInv, OutcomeInv, Evaluation!OutcomeHonest,
            EnvironmentInv, Evaluation!EnvironmentAccounted
<1>1. ASSUME Evaluation!Start
      PROVE  TestIInv'
  <2>1. FlagsOK'
    BY <1>1 DEF Evaluation!Start, Evaluation!Requests
  <2>2. TestShape'
    <3>1. request' \in Evaluation!Requests
      BY <1>1 DEF Evaluation!Start, Evaluation!Requests
    <3>2. request.trials \in Nat
      BY DEF Evaluation!Requests
    <3> QED
      BY <1>1, <3>1, <3>2 DEF Evaluation!Start
  <2>3. JobInv'
    BY <1>1 DEF Evaluation!Start, Evaluation!Requests
  <2>4. OutcomeInv' /\ EnvironmentInv'
    BY <1>1 DEF Evaluation!Start, Evaluation!Requests
  <2> QED
    BY <2>1, <2>2, <2>3, <2>4
<1>2. ASSUME Evaluation!StartFails
      PROVE  TestIInv'
  <2>1. FlagsOK'
    BY <1>2 DEF Evaluation!StartFails, Evaluation!Requests
  <2>2. TestShape'
    <3>1. request' \in Evaluation!Requests
      BY <1>2 DEF Evaluation!StartFails, Evaluation!Requests
    <3>2. request.trials \in Nat
      BY DEF Evaluation!Requests
    <3> QED
      BY <1>2, <3>1, <3>2 DEF Evaluation!StartFails
  <2>3. JobInv'
    BY <1>2 DEF Evaluation!StartFails, Evaluation!Requests
  <2>4. OutcomeInv' /\ EnvironmentInv'
    BY <1>2 DEF Evaluation!StartFails, Evaluation!Requests
  <2> QED
    BY <2>1, <2>2, <2>3, <2>4
<1>3. ASSUME Evaluation!Dispatch
      PROVE  TestIInv'
  <2>1. FlagsOK'
    BY <1>3 DEF Evaluation!Dispatch
  <2>2. TestShape'
    BY <1>3 DEF Evaluation!Dispatch
  <2>3. JobInv'
    BY <1>3 DEF Evaluation!Dispatch
  <2>4. OutcomeInv' /\ EnvironmentInv'
    BY <1>3 DEF Evaluation!Dispatch
  <2> QED
    BY <2>1, <2>2, <2>3, <2>4
<1>4. ASSUME Evaluation!Boot
      PROVE  TestIInv'
  <2>1. FlagsOK'
    BY <1>4 DEF Evaluation!Boot
  <2>2. TestShape'
    BY <1>4 DEF Evaluation!Boot
  <2>3. JobInv'
    BY <1>4 DEF Evaluation!Boot
  <2>4. OutcomeInv' /\ EnvironmentInv'
    BY <1>4 DEF Evaluation!Boot
  <2> QED
    BY <2>1, <2>2, <2>3, <2>4
<1>5. ASSUME Evaluation!SetUp
      PROVE  TestIInv'
  <2>1. FlagsOK'
    BY <1>5 DEF Evaluation!SetUp
  <2>2. TestShape'
    <3>1. record' \in Evaluation!Record
      BY <1>5 DEF Evaluation!SetUp
    <3> QED
      BY <1>5, <3>1 DEF Evaluation!SetUp
  <2>3. JobInv'
    BY <1>5 DEF Evaluation!SetUp
  <2>4. OutcomeInv' /\ EnvironmentInv'
    BY <1>5 DEF Evaluation!SetUp
  <2> QED
    BY <2>1, <2>2, <2>3, <2>4
<1>6. ASSUME Evaluation!SetUpFails
      PROVE  TestIInv'
  <2>1. FlagsOK'
    BY <1>6 DEF Evaluation!SetUpFails, Evaluation!Blamed
  <2>2. TestShape'
    BY <1>6 DEF Evaluation!SetUpFails, Evaluation!Blamed
  <2>3. JobInv'
    BY <1>6 DEF Evaluation!SetUpFails, Evaluation!Blamed
  <2>4. OutcomeInv' /\ EnvironmentInv'
    BY <1>6 DEF Evaluation!SetUpFails, Evaluation!Blamed
  <2> QED
    BY <2>1, <2>2, <2>3, <2>4
<1>7. ASSUME Evaluation!LeaveLoop
      PROVE  TestIInv'
  <2>1. FlagsOK'
    BY <1>7 DEF Evaluation!LeaveLoop
  <2>2. TestShape'
    BY <1>7 DEF Evaluation!LeaveLoop
  <2>3. JobInv'
    BY <1>7 DEF Evaluation!LeaveLoop
  <2>4. OutcomeInv' /\ EnvironmentInv'
    BY <1>7 DEF Evaluation!LeaveLoop
  <2> QED
    BY <2>1, <2>2, <2>3, <2>4
<1>8. ASSUME Evaluation!StartEpisode
      PROVE  TestIInv'
  <2>1. FlagsOK'
    BY <1>8 DEF Evaluation!StartEpisode
  <2>2. TestShape'
    BY <1>8 DEF Evaluation!StartEpisode
  <2>3. JobInv'
    BY <1>8 DEF Evaluation!StartEpisode
  <2>4. OutcomeInv' /\ EnvironmentInv'
    BY <1>8 DEF Evaluation!StartEpisode
  <2> QED
    BY <2>1, <2>2, <2>3, <2>4
<1>9. ASSUME Evaluation!EpisodeEnds
      PROVE  TestIInv'
  <2>1. FlagsOK'
    BY <1>9 DEF Evaluation!EpisodeEnds, Evaluation!Append, Evaluation!Blamed
  <2>2. TestShape'
    BY <1>9 DEF Evaluation!EpisodeEnds, Evaluation!Append, Evaluation!Blamed
  <2>3. JobInv'
    BY <1>9 DEF Evaluation!EpisodeEnds, Evaluation!Append, Evaluation!Blamed
  <2>4. OutcomeInv' /\ EnvironmentInv'
    BY <1>9 DEF Evaluation!EpisodeEnds, Evaluation!Append, Evaluation!Blamed
  <2> QED
    BY <2>1, <2>2, <2>3, <2>4
<1>10. ASSUME Evaluation!EpisodeFails
      PROVE  TestIInv'
  <2>1. FlagsOK'
    BY <1>10 DEF Evaluation!EpisodeFails, Evaluation!Append, Evaluation!Blamed, Evaluation!Discard
  <2>2. TestShape'
    BY <1>10 DEF Evaluation!EpisodeFails, Evaluation!Append, Evaluation!Blamed, Evaluation!Discard
  <2>3. JobInv'
    BY <1>10 DEF Evaluation!EpisodeFails, Evaluation!Append, Evaluation!Blamed, Evaluation!Discard
  <2>4. OutcomeInv' /\ EnvironmentInv'
    BY <1>10 DEF Evaluation!EpisodeFails, Evaluation!Append, Evaluation!Blamed, Evaluation!Discard
  <2> QED
    BY <2>1, <2>2, <2>3, <2>4
<1>11. ASSUME Evaluation!EnvironmentFails
      PROVE  TestIInv'
  <2>1. FlagsOK'
    BY <1>11 DEF Evaluation!EnvironmentFails, Evaluation!Append, Evaluation!Blamed
  <2>2. TestShape'
    BY <1>11 DEF Evaluation!EnvironmentFails, Evaluation!Append, Evaluation!Blamed
  <2>3. JobInv'
    BY <1>11 DEF Evaluation!EnvironmentFails, Evaluation!Append, Evaluation!Blamed
  <2>4. OutcomeInv' /\ EnvironmentInv'
    BY <1>11 DEF Evaluation!EnvironmentFails, Evaluation!Append, Evaluation!Blamed
  <2> QED
    BY <2>1, <2>2, <2>3, <2>4
<1>12. ASSUME Evaluation!EpisodeInterrupted
      PROVE  TestIInv'
  <2>1. FlagsOK'
    BY <1>12 DEF Evaluation!EpisodeInterrupted
  <2>2. TestShape'
    BY <1>12 DEF Evaluation!EpisodeInterrupted
  <2>3. JobInv'
    BY <1>12 DEF Evaluation!EpisodeInterrupted
  <2>4. OutcomeInv' /\ EnvironmentInv'
    BY <1>12 DEF Evaluation!EpisodeInterrupted
  <2> QED
    BY <2>1, <2>2, <2>3, <2>4
<1>13. ASSUME Evaluation!Finish
      PROVE  TestIInv'
  <2>1. FlagsOK'
    BY <1>13 DEF Evaluation!Finish, Evaluation!Unloaded
  <2>2. TestShape'
    BY <1>13 DEF Evaluation!Finish, Evaluation!Unloaded
  <2>3. JobInv'
    BY <1>13 DEF Evaluation!Finish, Evaluation!Unloaded
  <2>4. OutcomeInv' /\ EnvironmentInv'
    BY <1>13 DEF Evaluation!Finish, Evaluation!Unloaded
  <2> QED
    BY <2>1, <2>2, <2>3, <2>4
<1>14. ASSUME Evaluation!Killed
      PROVE  TestIInv'
  <2>1. FlagsOK'
    BY <1>14 DEF Evaluation!Killed
  <2>2. TestShape'
    BY <1>14 DEF Evaluation!Killed
  <2>3. JobInv'
    BY <1>14 DEF Evaluation!Killed
  <2>4. OutcomeInv' /\ EnvironmentInv'
    BY <1>14 DEF Evaluation!Killed
  <2> QED
    BY <2>1, <2>2, <2>3, <2>4
<1>15. ASSUME Evaluation!JobEnds
      PROVE  TestIInv'
  <2>1. FlagsOK'
    BY <1>15 DEF Evaluation!JobEnds
  <2>2. TestShape'
    BY <1>15 DEF Evaluation!JobEnds
  <2>3. JobInv'
    BY <1>15 DEF Evaluation!JobEnds
  <2>4. OutcomeInv' /\ EnvironmentInv'
    BY <1>15 DEF Evaluation!JobEnds
  <2> QED
    BY <2>1, <2>2, <2>3, <2>4
<1>16. ASSUME Evaluation!RunnerDies
      PROVE  TestIInv'
  <2>1. FlagsOK'
    BY <1>16 DEF Evaluation!RunnerDies
  <2>2. TestShape'
    BY <1>16 DEF Evaluation!RunnerDies
  <2>3. JobInv'
    BY <1>16 DEF Evaluation!RunnerDies
  <2>4. OutcomeInv' /\ EnvironmentInv'
    BY <1>16 DEF Evaluation!RunnerDies
  <2> QED
    BY <2>1, <2>2, <2>3, <2>4
<1>17. ASSUME Evaluation!StopJob
      PROVE  TestIInv'
  <2>1. FlagsOK'
    BY <1>17 DEF Evaluation!StopJob
  <2>2. TestShape'
    BY <1>17 DEF Evaluation!StopJob
  <2>3. JobInv'
    BY <1>17 DEF Evaluation!StopJob
  <2>4. OutcomeInv' /\ EnvironmentInv'
    BY <1>17 DEF Evaluation!StopJob
  <2> QED
    BY <2>1, <2>2, <2>3, <2>4
<1>18. ASSUME Evaluation!StopRead
      PROVE  TestIInv'
  <2>1. FlagsOK'
    BY <1>18 DEF Evaluation!StopRead
  <2>2. TestShape'
    BY <1>18 DEF Evaluation!StopRead
  <2>3. JobInv'
    BY <1>18 DEF Evaluation!StopRead
  <2>4. OutcomeInv' /\ EnvironmentInv'
    BY <1>18 DEF Evaluation!StopRead
  <2> QED
    BY <2>1, <2>2, <2>3, <2>4
<1>19. ASSUME Evaluation!StopWrite
      PROVE  TestIInv'
  <2>1. FlagsOK'
    BY <1>19 DEF Evaluation!StopWrite
  <2>2. TestShape'
    BY <1>19 DEF Evaluation!StopWrite
  <2>3. JobInv'
    BY <1>19 DEF Evaluation!StopWrite
  <2>4. OutcomeInv' /\ EnvironmentInv'
    BY <1>19 DEF Evaluation!StopWrite
  <2> QED
    BY <2>1, <2>2, <2>3, <2>4
<1>20. ASSUME Evaluation!SyncBegin
      PROVE  TestIInv'
  <2>1. FlagsOK'
    BY <1>20 DEF Evaluation!SyncBegin
  <2>2. TestShape'
    BY <1>20 DEF Evaluation!SyncBegin
  <2>3. JobInv'
    BY <1>20 DEF Evaluation!SyncBegin
  <2>4. OutcomeInv' /\ EnvironmentInv'
    BY <1>20 DEF Evaluation!SyncBegin
  <2> QED
    BY <2>1, <2>2, <2>3, <2>4
<1>21. ASSUME Evaluation!SyncReadJob
      PROVE  TestIInv'
  <2>1. FlagsOK'
    BY <1>21 DEF Evaluation!SyncReadJob, Evaluation!Reconciled
  <2>2. TestShape'
    <3>1. reader \in ReaderRecords
      BY <1>21 DEF Evaluation!SyncReadJob
    <3>2. reader' \in ReaderRecords \cup {NoRead}
      BY <1>21, <3>1 DEF Evaluation!SyncReadJob
    <3>3. job' \in Evaluation!Open \cup Evaluation!Terminal \cup {"absent"}
      BY <1>21 DEF Evaluation!SyncReadJob, Evaluation!Reconciled
    <3> QED
      BY <1>21, <3>2, <3>3 DEF Evaluation!SyncReadJob
  <2>3. JobInv'
    BY <1>21 DEF Evaluation!SyncReadJob, Evaluation!Reconciled
  <2>4. OutcomeInv' /\ EnvironmentInv'
    BY <1>21 DEF Evaluation!SyncReadJob, Evaluation!Reconciled
  <2> QED
    BY <2>1, <2>2, <2>3, <2>4
<1>22. ASSUME Evaluation!SyncReadLatest
      PROVE  TestIInv'
  <2>1. FlagsOK'
    BY <1>22 DEF Evaluation!SyncReadLatest
  <2>2. TestShape'
    <3>1. reader \in ReaderRecords
      BY <1>22 DEF Evaluation!SyncReadLatest
    <3>2. reader' \in ReaderRecords \cup {NoRead}
      BY <1>22, <3>1 DEF Evaluation!SyncReadLatest
    <3> QED
      BY <1>22, <3>2 DEF Evaluation!SyncReadLatest
  <2>3. JobInv'
    BY <1>22 DEF Evaluation!SyncReadLatest
  <2>4. OutcomeInv' /\ EnvironmentInv'
    BY <1>22 DEF Evaluation!SyncReadLatest
  <2> QED
    BY <2>1, <2>2, <2>3, <2>4
<1>23. ASSUME Evaluation!SyncWrite
      PROVE  TestIInv'
  <2>1. FlagsOK'
    BY <1>23 DEF Evaluation!SyncWrite
  <2>r. reader \in ReaderRecords /\ reader.job \in Evaluation!Terminal
    BY <1>23 DEF Evaluation!SyncWrite
  <2>f. /\ file' \in Evaluation!Record
        /\ file'.status = reader.job /\ file'.trials = reader.file.trials
    BY <1>23, <2>r DEF Evaluation!SyncWrite
  <2>2. TestShape'
    BY <1>23, <2>f DEF Evaluation!SyncWrite
  <2>3. JobInv'
    BY <1>23 DEF Evaluation!SyncWrite
  <2>4. OutcomeInv' /\ EnvironmentInv'
    BY <1>23, <2>f DEF Evaluation!SyncWrite
  <2> QED
    BY <2>1, <2>2, <2>3, <2>4
<1>24. ASSUME Evaluation!Delete
      PROVE  TestIInv'
  <2>1. FlagsOK'
    BY <1>24 DEF Evaluation!Delete
  <2>2. TestShape'
    BY <1>24 DEF Evaluation!Delete
  <2>3. JobInv'
    BY <1>24 DEF Evaluation!Delete
  <2>4. OutcomeInv' /\ EnvironmentInv'
    BY <1>24 DEF Evaluation!Delete
  <2> QED
    BY <2>1, <2>2, <2>3, <2>4
<1> HIDE DEF TestIInv
<1> QED
  BY <1>1, <1>2, <1>3, <1>4, <1>5, <1>6, <1>7, <1>8, <1>9, <1>10, <1>11, <1>12, <1>13, <1>14, <1>15,
     <1>16, <1>17, <1>18, <1>19, <1>20, <1>21, <1>22, <1>23, <1>24 DEF Evaluation!Next,
     Evaluation!ProcessStep, Evaluation!SyncStep, Evaluation!StopStep

(* A test begins within the invariant.                                     *)
LEMMA TestInit == Evaluation!Init => TestIInv
<1> SUFFICES ASSUME Evaluation!Init PROVE TestIInv
  OBVIOUS
<1> USE DEF Evaluation!Init
<1>1. FlagsOK
  BY DEF FlagsOK
<1>2. TestShape
  BY DEF TestShape
<1>3. JobInv
  BY DEF JobInv
<1>4. OutcomeInv
  BY DEF OutcomeInv, Evaluation!OutcomeHonest
<1>5. EnvironmentInv
  BY DEF EnvironmentInv, Evaluation!EnvironmentAccounted
<1> QED
  BY <1>1, <1>2, <1>3, <1>4, <1>5 DEF TestIInv

(* The invariant says of the test what is wanted of it.                    *)
LEMMA TestKeeps ==
  ASSUME TestIInv
  PROVE  Evaluation!TypeOK /\ Evaluation!OutcomeHonest /\ Evaluation!EnvironmentAccounted
<1>1. {told, alive, stop, shared, exit} \subseteq BOOLEAN
  BY DEF TestIInv, FlagsOK
<1>2. \/ stopper = NoRead
      \/ stopper.job \in Evaluation!Open \cup Evaluation!Terminal /\ stopper.file \in Evaluation!Record \cup {Unread}
  BY DEF TestIInv, TestShape
<1>3. \/ reader = NoRead
      \/ reader.job \in Evaluation!Terminal \cup {Unread} /\ reader.file \in Evaluation!Record
  BY DEF TestIInv, TestShape
<1> QED
  BY <1>1, <1>2, <1>3 DEF TestIInv, TestShape, OutcomeInv, EnvironmentInv, Evaluation!TypeOK

-----------------------------------------------------------------------------
(***************************************************************************)
(* Both parts.                                                             *)
(***************************************************************************)
(* No dataset, no job: the invariant holds at first.                       *)
LEMMA DatasetsInit == Init => DatasetsIInv
<1> SUFFICES ASSUME Init PROVE DatasetsIInv
  OBVIOUS
<1> USE DatasetsAssumption DEF Init, NoJob
<1>1. DatasetsShape
  <2>1. job \in JobRecords
    <3>1. job = [step |-> "none", parent |-> None, members |-> {}, id |-> 1, late |-> {}]
      OBVIOUS
    <3>2. 1 \in 1..Ids + 1
      OBVIOUS
    <3> QED
      BY <3>1, <3>2 DEF JobRecords
  <2>2. Absent \in [members : SUBSET Runs, parent : Datasets \cup {None}, healthy : BOOLEAN]
    BY DEF Absent
  <2> QED
    BY <2>1, <2>2 DEF DatasetsShape
<1>2. CreationInv
  BY DEF CreationInv, Below
<1>3. FrozenInv
  BY DEF FrozenInv, Absent, Below
<1>4. LabelsInv
  BY DEF LabelsInv, NoFile
<1>5. SourcesHeld /\ TestsInv
  BY DEF SourcesHeld, TestsInv, Resolved
<1>6. EditorsInv
  BY DEF EditorsInv, NoEdit
<1> QED
  BY <1>1, <1>2, <1>3, <1>4, <1>5, <1>6 DEF DatasetsIInv

(* The invariant has the types and the sources of the datasets in it.      *)
LEMMA DatasetsKeep ==
  ASSUME DatasetsIInv
  PROVE  TypeOK /\ SourcesHeld
BY DEF DatasetsIInv, DatasetsShape, LabelsInv, JobRecords, TypeOK

(* A run is of one part from its first state on, and steps that part only. *)
LEMMA PartStep ==
  ASSUME PartsNext
  PROVE  /\ part' = part
         /\ part = "evaluation" => Evaluation!Next
         /\ part = "datasets" => Next
BY DEF PartsNext

(* The invariant of the part that is there.                                *)
PartsIInv ==
  /\ part = "datasets" => DatasetsIInv
  /\ part = "evaluation" => TestIInv

(* It holds in every reachable state.                                      *)
LEMMA PartsInvariant == PartsSpec => []PartsIInv
<1>1. PartsInit => PartsIInv
  BY DatasetsInit, TestInit DEF PartsInit, PartsIInv
<1>2. PartsIInv /\ [PartsNext]_parts => PartsIInv'
  <2> SUFFICES ASSUME PartsIInv, [PartsNext]_parts PROVE PartsIInv'
    OBVIOUS
  <2>1. CASE PartsNext
    BY <2>1, PartStep, DatasetsStep, TestStep DEF PartsIInv
  <2>2. CASE UNCHANGED parts
    <3>1. DatasetsIInv => DatasetsIInv'
      BY <2>2 DEF parts, DatasetsIInv, DatasetsShape, CreationInv, FrozenInv, LabelsInv, Labels,
         SourcesHeld, Resolved, TestsInv, EditorsInv
    <3>2. TestIInv => TestIInv'
      BY <2>2 DEF parts, TestIInv, FlagsOK, TestShape, JobInv, OutcomeInv, Evaluation!OutcomeHonest,
         EnvironmentInv, Evaluation!EnvironmentAccounted, Evaluation!Requests
    <3> QED
      BY <2>2, <3>1, <3>2 DEF parts, PartsIInv
  <2> QED
    BY <2>1, <2>2
<1>3. PartsSpec => PartsInit /\ [][PartsNext]_parts
  BY PTL DEF PartsSpec
<1> QED
  BY <1>1, <1>2, <1>3, PTL

(* From the second resolution of its selection to its end, a dataset job   *)
(* finds its runs and its parent in place, and every derived dataset has   *)
(* its parent: the tests for pending jobs and for children leave no gap.   *)
THEOREM SourcesAreHeld == PartsSpec => []DatasetSourcesHeld
<1>1. PartsIInv => DatasetSourcesHeld
  BY DatasetsKeep DEF PartsIInv, DatasetSourcesHeld
<1> QED
  BY <1>1, PartsInvariant, PTL

(* No dataset freezes a run that was held out for tests before its job     *)
(* resolved the selection for the last time, and no label that was set     *)
(* changes but by the save of a tab that was shown it.                     *)
THEOREM ChoicesAreKept == PartsSpec => ChoicesKept
<1>1. PartsIInv /\ [PartsNext]_parts => [part = "datasets" => HeldOut /\ LabelsKept]_parts
  BY PartStep, ChoicesStep DEF PartsIInv
<1>2. PartsSpec => [][PartsNext]_parts
  BY PTL DEF PartsSpec
<1> QED
  BY <1>1, <1>2, PartsInvariant, PTL DEF ChoicesKept

(* Whoever wrote evaluation.json last, a test shown COMPLETED holds every  *)
(* scheduled trial and one shown CANCELED was stopped by somebody; and no  *)
(* simulator environment is left behind or closed twice.                   *)
THEOREM TestIsAccounted == PartsSpec => []TestAccounted
<1>1. PartsIInv => TestAccounted
  BY TestKeeps DEF PartsIInv, TestAccounted
<1> QED
  BY <1>1, PartsInvariant, PTL

(* A previewed schedule is balanced: neither RuntimeError is raised, there *)
(* are as many trials as asked, and the trials per state, per seed and per *)
(* pair of them each differ by at most one, for every request.             *)
THEOREM SchedulesAreBalanced == PartsSpec => []ScheduleBalanced
<1>1. TestIInv => Evaluation!ScheduleBalanced
  <2> SUFFICES ASSUME TestIInv PROVE Evaluation!ScheduleBalanced
    OBVIOUS
  <2> DEFINE trials == request.trials
             states == request.states
             asked == request.asked
             seeds == Evaluation!SeedCount(trials, states, asked)
  <2>1. trials \in Nat \ {0} /\ states \in Nat \ {0} /\ asked \in Nat
    BY DEF TestIInv, TestShape, Evaluation!Requests
  <2>2. seeds \in Nat \ {0}
    <3> HIDE DEF trials, states, asked
    <3>1. CASE asked = 0
      <4> DEFINE m == trials + states - 1
                 q == m \div states
      <4>1. m \in Nat /\ m >= states
        BY <2>1
      <4> HIDE DEF m
      <4>2. q \in Nat /\ m % states \in 0..states-1 /\ m = states * q + (m % states)
        BY <2>1, <4>1, DivMod
      <4> HIDE DEF q
      <4>3. q # 0
        <5>1. states * 0 = 0
          BY <2>1
        <5> QED
          BY <2>1, <4>1, <4>2, <5>1
      <4>4. seeds = q
        BY <3>1 DEF Evaluation!SeedCount, q, m
      <4> QED
        BY <4>2, <4>3, <4>4
    <3>2. CASE asked # 0
      BY <2>1, <3>2 DEF Evaluation!SeedCount
    <3> QED
      BY <3>1, <3>2
  <2> HIDE DEF trials, states, asked, seeds
  <2>3. Balanced(trials, states, seeds)
    BY <2>1, <2>2, SchedulesBalance
  <2> QED
    BY <2>3 DEF Balanced, Evaluation!ScheduleBalanced, Evaluation!Previewed, trials, states, asked, seeds
<1>2. PartsIInv => ScheduleBalanced
  BY <1>1 DEF PartsIInv, ScheduleBalanced
<1> QED
  BY <1>2, PartsInvariant, PTL
=============================================================================

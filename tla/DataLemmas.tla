------------------------------- MODULE DataLemmas -------------------------------
(***************************************************************************)
(* Facts about the data the models are built from: least numbers,          *)
(* induction up to a number, the existence of recursive functions on an    *)
(* interval, the remainder of a ring index, and Subsequence.               *)
(*                                                                         *)
(* Each is stated about sets and functions rather than operators, so that  *)
(* it can be cited for any predicate or step a module defines.             *)
(***************************************************************************)
EXTENDS Subsequences, Totals, Sequences, FiniteSetTheorems, SequenceTheorems, WellFoundedInduction, TLAPS

\* A set of natural numbers with a member has a least one.
LEMMA LeastNat ==
    ASSUME NEW T \in SUBSET Nat, T # {}
    PROVE  \E x \in T : \A y \in T : x <= y
<1>1. \E x \in T : \A y \in T : ~ (<<y, x>> \in OpToRel(<, Nat))
  BY NatLessThanWellFounded, WFMin
<1>2. PICK x \in T : \A y \in T : ~ (<<y, x>> \in OpToRel(<, Nat))
  BY <1>1
<1>3. ASSUME NEW y \in T PROVE x <= y
  <2>1. x \in Nat /\ y \in Nat
    OBVIOUS
  <2>2. ~ (<<y, x>> \in OpToRel(<, Nat))
    BY <1>2
  <2>3. ~ (y < x)
    BY <2>1, <2>2 DEF OpToRel
  <2> QED BY <2>1, <2>3
<1> QED BY <1>3

\* Induction up to n, for the set of numbers that have a property.
LEMMA IntervalInduction ==
    ASSUME NEW n \in Nat, NEW T, 0 \in T, \A k \in 0 .. n - 1 : k \in T => k + 1 \in T
    PROVE  0 .. n \subseteq T
<1> DEFINE Missing == {k \in 0 .. n : k \notin T}
<1>1. SUFFICES ASSUME Missing # {} PROVE FALSE
  OBVIOUS
<1>2. Missing \in SUBSET Nat
  OBVIOUS
<1>3. PICK m \in Missing : \A y \in Missing : m <= y
  <2> HIDE DEF Missing
  <2> QED BY <1>1, <1>2, LeastNat
<1>4. m \in 0 .. n /\ m \notin T /\ m # 0
  OBVIOUS
<1>5. m - 1 \in 0 .. n - 1 /\ m - 1 \in 0 .. n /\ ~(m <= m - 1) /\ (m - 1) + 1 = m
  BY <1>4
<1>6. m - 1 \in T
  BY <1>3, <1>5
<1> QED BY <1>4, <1>5, <1>6

\* g is the run of the step f, which may look at the number of the step,
\* from x.
IsRun(g, x, f, n) == g[0] = x /\ \A k \in 1 .. n : g[k] = f[<<k, g[k - 1]>>]
Runs(S, x, f, n) == {g \in [0 .. n -> S] : IsRun(g, x, f, n)}

\* Such a run exists.
LEMMA RecursionExists ==
    ASSUME NEW S, NEW x \in S, NEW n \in Nat, NEW f \in [(1 .. n) \X S -> S]
    PROVE  Runs(S, x, f, n) # {}
<1>0. \A k \in 1 .. n : \A y \in S : f[<<k, y>>] \in S
  OBVIOUS
<1>. SUFFICES \E g \in [0 .. n -> S] :
                 g[0] = x /\ \A k \in 1 .. n : g[k] = f[<<k, g[k - 1]>>]
  BY DEF Runs, IsRun
<1> DEFINE Run(m, g) == g[0] = x /\ \A k \in 1 .. m : g[k] = f[<<k, g[k - 1]>>]
           T == {m \in 0 .. n : \E g \in [0 .. m -> S] : Run(m, g)}
<1>1. 0 \in T
  <2> DEFINE h == [k \in 0 .. 0 |-> x]
  <2>1. h \in [0 .. 0 -> S] /\ h[0] = x
    OBVIOUS
  <2>2. \A k \in 1 .. 0 : FALSE
    OBVIOUS
  <2> HIDE DEF h
  <2>3. Run(0, h)
    BY <2>1, <2>2
  <2>4. 0 \in 0 .. n
    OBVIOUS
  <2> QED BY <2>1, <2>3, <2>4
<1>2. ASSUME NEW m \in 0 .. n - 1, m \in T PROVE m + 1 \in T
  <2>1. PICK g \in [0 .. m -> S] : Run(m, g)
    BY <1>2
  <2> DEFINE h == [k \in 0 .. m + 1 |-> IF k = m + 1 THEN f[<<m + 1, g[m]>>] ELSE g[k]]
  <2>2. m \in Nat /\ m + 1 \in Nat /\ m + 1 \in 0 .. n /\ g[m] \in S
    OBVIOUS
  <2>3. h \in [0 .. m + 1 -> S]
    <3>1. f[<<m + 1, g[m]>>] \in S
      BY <2>2, <1>0
    <3> QED BY <2>2, <3>1
  <2>4. h[0] = x
    BY <2>1, <2>2
  <2>5. ASSUME NEW k \in 1 .. m + 1 PROVE h[k] = f[<<k, h[k - 1]>>]
    <3>1. CASE k = m + 1
      <4>1. h[k] = f[<<m + 1, g[m]>>] /\ h[k - 1] = g[m]
        BY <3>1, <2>2
      <4> QED BY <4>1, <3>1
    <3>2. CASE k # m + 1
      <4>1. k \in 1 .. m /\ k - 1 \in 0 .. m
        BY <3>2, <2>2
      <4>2. h[k] = g[k] /\ h[k - 1] = g[k - 1]
        BY <4>1, <3>2, <2>2
      <4> QED BY <4>1, <4>2, <2>1
    <3> QED BY <3>1, <3>2
  <2> HIDE DEF h
  <2> QED BY <2>2, <2>3, <2>4, <2>5
<1>3. 0 .. n \subseteq T
  <2> HIDE DEF T
  <2> QED BY <1>1, <1>2, IntervalInduction
<1>4. n \in T
  <2> HIDE DEF T
  <2> QED BY <1>3
<1> QED BY <1>4

\* The index of the i-th place from h in a ring of n.
LEMMA RingIndex ==
    ASSUME NEW n \in Nat \ {0}, NEW h \in 0 .. n - 1, NEW i \in 0 .. n
    PROVE  (h + i) % n = IF h + i < n THEN h + i ELSE h + i - n
<1>1. CASE h + i < n
  BY <1>1
<1>2. CASE ~(h + i < n)
  BY <1>2
<1> QED BY <1>1, <1>2

\* The positions below one of a finite set, and how their number grows.
LEMMA BelowFinite ==
    ASSUME NEW I \in SUBSET Nat, IsFiniteSet(I), NEW i
    PROVE  /\ IsFiniteSet(Below(I, i))
           /\ Cardinality(Below(I, i)) \in Nat
           /\ Cardinality(Below(I, i)) <= Cardinality(I)
           /\ Cardinality(I) \in Nat
<1>1. Below(I, i) \in SUBSET I
  BY DEF Below
<1> QED BY <1>1, FS_Subset, FS_CardinalityType

LEMMA BelowGrows ==
    ASSUME NEW I \in SUBSET Nat, IsFiniteSet(I), NEW i \in I, NEW j \in I, i < j
    PROVE  Cardinality(Below(I, i)) < Cardinality(Below(I, j))
<1>1. i \in Nat /\ j \in Nat
  OBVIOUS
<1>2. Below(I, i) \in SUBSET Below(I, j)
  <2> SUFFICES ASSUME NEW x \in I, x < i PROVE x < j
    BY DEF Below
  <2> QED BY <1>1
<1>3. i \in Below(I, j) /\ i \notin Below(I, i)
  BY <1>1 DEF Below
<1>4. IsFiniteSet(Below(I, j)) /\ Cardinality(Below(I, j)) \in Nat /\ Cardinality(Below(I, i)) \in Nat
  BY BelowFinite
<1>5. Cardinality(Below(I, i)) <= Cardinality(Below(I, j))
  BY <1>2, <1>4, FS_Subset
<1>6. Cardinality(Below(I, i)) # Cardinality(Below(I, j))
  BY <1>2, <1>3, <1>4, FS_Subset
<1> QED BY <1>4, <1>5, <1>6

\* For every k up to its size a finite set of numbers has a k-th smallest.
LEMMA NthExists ==
    ASSUME NEW I \in SUBSET Nat, IsFiniteSet(I), NEW k \in 1 .. Cardinality(I)
    PROVE  \E i \in I : Cardinality(Below(I, i)) = k - 1
<1> DEFINE Has(n) == \E i \in I : Cardinality(Below(I, i)) = n - 1
           Missing == {n \in 1 .. Cardinality(I) : ~Has(n)}
<1>0. Cardinality(I) \in Nat
  BY FS_CardinalityType
<1>1. SUFFICES ASSUME Missing # {} PROVE FALSE
  BY DEF Missing
<1>2. Missing \in SUBSET Nat
  BY <1>0
<1>3. PICK m \in Missing : \A y \in Missing : m <= y
  <2> HIDE DEF Missing
  <2> QED BY <1>1, <1>2, LeastNat
<1>4. m \in 1 .. Cardinality(I) /\ ~Has(m)
  OBVIOUS
<1>5. m \in Nat /\ m >= 1 /\ m <= Cardinality(I)
  BY <1>4, <1>0
<1>6. CASE m = 1
  <2>1. I # {}
    BY <1>5, FS_EmptySet
  <2>2. PICK i \in I : \A y \in I : i <= y
    BY <2>1, LeastNat
  <2>3. Below(I, i) = {}
    <3> SUFFICES ASSUME NEW x \in I, x < i PROVE FALSE
      BY DEF Below
    <3>1. i <= x /\ i \in Nat /\ x \in Nat
      BY <2>2
    <3> QED BY <3>1
  <2>4. Cardinality(Below(I, i)) = m - 1
    BY <2>3, <1>6, FS_EmptySet
  <2> QED BY <2>4, <1>4
<1>7. CASE m > 1
  <2>1. m - 1 \in 1 .. Cardinality(I) /\ ~(m <= m - 1)
    BY <1>5, <1>7, <1>0
  <2>2. Has(m - 1)
    BY <2>1, <1>3
  <2>3. PICK i \in I : Cardinality(Below(I, i)) = m - 2
    BY <2>2, <1>5
  <2> DEFINE Up == {j \in I : i < j}
             Down == Below(I, i) \cup {i}
  <2>4. i \notin Below(I, i) /\ i \in Nat
    BY DEF Below
  <2>5. IsFiniteSet(Below(I, i))
    BY BelowFinite
  <2>6. Cardinality(Down) = m - 1
    <3>1. Cardinality(Down) = Cardinality(Below(I, i)) + 1
      BY <2>4, <2>5, FS_AddElement
    <3> QED BY <3>1, <2>3, <1>5
  <2>7. Up # {}
    <3>1. SUFFICES ASSUME Up = {} PROVE FALSE
      OBVIOUS
    <3>2. I = Down
      <4>1. ASSUME NEW x \in I PROVE x < i \/ x = i
        <5>1. x \in Nat /\ i \in Nat /\ ~(i < x)
          BY <3>1
        <5> QED BY <5>1
      <4> QED BY <4>1 DEF Below
    <3> QED BY <3>2, <2>6, <1>5
  <2>8. PICK n \in Up : \A y \in Up : n <= y
    <3>1. Up \in SUBSET Nat
      OBVIOUS
    <3> HIDE DEF Up
    <3> QED BY <3>1, <2>7, LeastNat
  <2>9. Below(I, n) = Down
    <3>1. ASSUME NEW x \in I PROVE x < n <=> x < i \/ x = i
      <4>1. x \in Nat /\ i \in Nat /\ n \in Nat /\ i < n
        BY <2>8
      <4>2. i < x => n <= x
        BY <2>8
      <4> QED BY <4>1, <4>2
    <3> QED BY <3>1 DEF Below
  <2>10. Cardinality(Below(I, n)) = m - 1 /\ n \in I
    BY <2>6, <2>9
  <2> QED BY <2>10, <1>4
<1> QED BY <1>5, <1>6, <1>7

\* Subsequence takes members of the sequence only, one per position of I and
\* every one of them, as often as it was there.
LEMMA SubsequenceProperties ==
    ASSUME NEW S, NEW seq \in Seq(S), NEW I \in SUBSET DOMAIN seq
    PROVE  /\ Subsequence(seq, I) \in Seq(S)
           /\ IsFiniteSet(I)
           /\ Len(Subsequence(seq, I)) = Cardinality(I)
           /\ Cardinality(I) \in Nat
           /\ Cardinality(I) <= Len(seq)
           /\ DOMAIN Subsequence(seq, I) = 1 .. Cardinality(I)
           /\ \A k \in 1 .. Cardinality(I) :
                Nth(I, k) \in I /\ Subsequence(seq, I)[k] = seq[Nth(I, k)]
           /\ \A i \in I : \E k \in 1 .. Cardinality(I) : Nth(I, k) = i
<1> DEFINE n == Len(seq)
<1>1. n \in Nat /\ DOMAIN seq = 1 .. n
  OBVIOUS
<1>2. IsFiniteSet(1 .. n) /\ Cardinality(1 .. n) = n
  <2>1. 1 \in Int /\ n \in Int
    BY <1>1
  <2>2. IsFiniteSet(1 .. n) /\ Cardinality(1 .. n) = IF 1 > n THEN 0 ELSE n - 1 + 1
    <3> HIDE DEF n
    <3> QED BY <2>1, FS_Interval
  <2> QED BY <2>2, <1>1
<1>3. IsFiniteSet(I) /\ Cardinality(I) <= n /\ Cardinality(I) \in Nat
  BY <1>1, <1>2, FS_Subset, FS_CardinalityType
<1>4. I \in SUBSET Nat
  BY <1>1
<1>5. ASSUME NEW k \in 1 .. Cardinality(I)
      PROVE  Nth(I, k) \in I /\ Cardinality(Below(I, Nth(I, k))) = k - 1
  BY <1>3, <1>4, NthExists DEF Nth
<1>6. ASSUME NEW i \in I PROVE \E k \in 1 .. Cardinality(I) : Nth(I, k) = i
  <2> DEFINE k == Cardinality(Below(I, i)) + 1
  <2>1. Cardinality(Below(I, i)) \in Nat
    BY <1>3, <1>4, BelowFinite
  <2>2. Cardinality(Below(I, i)) < Cardinality(I)
    <3>1. Below(I, i) \in SUBSET I /\ i \notin Below(I, i)
      BY <1>4 DEF Below
    <3>2. Cardinality(Below(I, i)) <= Cardinality(I)
      BY <1>3, <1>4, BelowFinite
    <3>3. Cardinality(Below(I, i)) # Cardinality(I)
      BY <3>1, <1>3, FS_Subset
    <3> QED BY <3>2, <3>3, <2>1, <1>3
  <2>3. k \in 1 .. Cardinality(I) /\ k - 1 = Cardinality(Below(I, i))
    BY <2>1, <2>2, <1>3
  <2> HIDE DEF k
  <2>4. Nth(I, k) \in I /\ Cardinality(Below(I, Nth(I, k))) = Cardinality(Below(I, i))
    BY <1>5, <2>3
  <2>5. Nth(I, k) \in Nat /\ i \in Nat
    BY <1>4, <2>4
  <2>6. ~(Nth(I, k) < i)
    BY <2>4, <2>1, <1>3, <1>4, BelowGrows
  <2>7. ~(i < Nth(I, k))
    BY <2>4, <2>1, <1>3, <1>4, BelowGrows
  <2> QED BY <2>3, <2>5, <2>6, <2>7
<1>7. \A k \in 1 .. Cardinality(I) : seq[Nth(I, k)] \in S
  BY <1>5, <1>1
<1>8. Subsequence(seq, I) \in [1 .. Cardinality(I) -> S]
  BY <1>7 DEF Subsequence
<1>9. Subsequence(seq, I) \in Seq(S) /\ Len(Subsequence(seq, I)) = Cardinality(I)
  BY <1>8, <1>3
<1>10. \A k \in 1 .. Cardinality(I) : Subsequence(seq, I)[k] = seq[Nth(I, k)]
  BY DEF Subsequence
<1> QED BY <1>3, <1>5, <1>6, <1>8, <1>9, <1>10

\* One more position behind the others appends its member.
LEMMA SubsequenceGrows ==
    ASSUME NEW S, NEW seq \in Seq(S), NEW I \in SUBSET DOMAIN seq,
           NEW m \in DOMAIN seq, \A i \in I : i < m
    PROVE  Subsequence(seq, I \cup {m}) = Append(Subsequence(seq, I), seq[m])
<1> DEFINE J == I \cup {m}
           n == Cardinality(I)
<1>1. J \in SUBSET DOMAIN seq /\ I \in SUBSET Nat /\ J \in SUBSET Nat /\ m \in Nat
  OBVIOUS
<1>2. IsFiniteSet(I) /\ n \in Nat /\ Subsequence(seq, I) \in Seq(S)
      /\ Len(Subsequence(seq, I)) = n /\ IsFiniteSet(J) /\ Cardinality(J) \in Nat
  <2> HIDE DEF J
  <2> QED BY <1>1, SubsequenceProperties
<1>3. m \notin I
  BY <1>1
<1>4. Cardinality(J) = n + 1
  BY <1>2, <1>3, FS_AddElement
<1>5. ASSUME NEW k \in 1 .. n PROVE Nth(J, k) = Nth(I, k)
  <2>1. Nth(I, k) \in I /\ Cardinality(Below(I, Nth(I, k))) = k - 1
    BY <1>1, <1>2, NthExists DEF Nth
  <2>2. Below(J, Nth(I, k)) = Below(I, Nth(I, k))
    <3>1. ~(m < Nth(I, k))
      <4>1. Nth(I, k) < m /\ Nth(I, k) \in Nat
        BY <2>1, <1>1
      <4> QED BY <4>1, <1>1
    <3> QED BY <3>1 DEF Below
  <2>3. k \in 1 .. Cardinality(J)
    BY <1>2, <1>4
  <2>4. Nth(J, k) \in J /\ Cardinality(Below(J, Nth(J, k))) = k - 1
    <3> HIDE DEF J
    <3> QED BY <1>1, <1>2, <2>3, NthExists DEF Nth
  <2>5. Nth(I, k) \in J /\ Cardinality(Below(J, Nth(I, k))) = k - 1
    BY <2>1, <2>2
  <2> HIDE DEF J
  <2>6. Nth(I, k) \in Nat /\ Nth(J, k) \in Nat /\ k - 1 \in Int
    BY <1>1, <2>1, <2>4
  <2>7. ~(Nth(I, k) < Nth(J, k)) /\ ~(Nth(J, k) < Nth(I, k))
    BY <1>1, <1>2, <2>4, <2>5, <2>6, BelowGrows
  <2> QED BY <2>6, <2>7
<1>6. Nth(J, n + 1) = m
  <2>1. n + 1 \in 1 .. Cardinality(J)
    BY <1>2, <1>4
  <2>2. Nth(J, n + 1) \in J /\ Cardinality(Below(J, Nth(J, n + 1))) = (n + 1) - 1
    <3> HIDE DEF J
    <3> QED BY <1>1, <1>2, <2>1, NthExists DEF Nth
  <2>3. Below(J, m) = I
    BY <1>1 DEF Below
  <2>4. CASE Nth(J, n + 1) # m
    <3>1. Nth(J, n + 1) < m
      BY <2>2, <2>4
    <3>2. Cardinality(Below(J, Nth(J, n + 1))) < Cardinality(Below(J, m))
      <4>1. m \in J
        OBVIOUS
      <4> HIDE DEF J
      <4> QED BY <1>1, <1>2, <2>2, <3>1, <4>1, BelowGrows
    <3> QED BY <2>2, <2>3, <3>2, <1>2
  <2> QED BY <2>4
<1>7. Subsequence(seq, J) = [k \in 1 .. n + 1 |-> IF k = n + 1 THEN seq[m] ELSE Subsequence(seq, I)[k]]
  <2>1. Subsequence(seq, J) = [k \in 1 .. n + 1 |-> seq[Nth(J, k)]]
    BY <1>4 DEF Subsequence
  <2>2. ASSUME NEW k \in 1 .. n + 1
        PROVE  seq[Nth(J, k)] = IF k = n + 1 THEN seq[m] ELSE Subsequence(seq, I)[k]
    <3>1. CASE k = n + 1
      BY <3>1, <1>6
    <3>2. CASE k # n + 1
      <4>1. k \in 1 .. n
        BY <3>2, <1>2
      <4>2. Nth(J, k) = Nth(I, k)
        BY <4>1, <1>5
      <4> HIDE DEF J
      <4> QED BY <3>2, <4>1, <4>2 DEF Subsequence
    <3> QED BY <3>1, <3>2
  <2> HIDE DEF J
  <2> QED BY <2>1, <2>2
<1>8. seq[m] \in S
  OBVIOUS
<1> DEFINE B == Subsequence(seq, I)
<1>9. Append(B, seq[m]) = [k \in 1 .. n + 1 |-> IF k = n + 1 THEN seq[m] ELSE B[k]]
  <2>1. B \in Seq(S) /\ Len(B) = n /\ n \in Nat
    BY <1>2
  <2> HIDE DEF B, n
  <2> DEFINE R == Append(B, seq[m])
  <2>2. R \in Seq(S) /\ Len(R) = n + 1 /\ (\A i \in 1 .. n : R[i] = B[i]) /\ R[n + 1] = seq[m]
    BY <2>1, <1>8, AppendProperties
  <2> HIDE DEF R
  <2>3. R \in [1 .. n + 1 -> S]
    BY <2>2
  <2>4. \A k \in 1 .. n + 1 : R[k] = IF k = n + 1 THEN seq[m] ELSE B[k]
    BY <2>1, <2>2
  <2>5. R = [k \in 1 .. n + 1 |-> IF k = n + 1 THEN seq[m] ELSE B[k]]
    BY <2>3, <2>4
  <2> QED BY <2>5 DEF R
<1> QED BY <1>7, <1>9

-----------------------------------------------------------------------------
(* Totals.                                                                 *)

\* The sums of a sequence's first numbers, one by one.
LEMMA TotalRun ==
    ASSUME NEW ns \in Seq(Nat)
    PROVE  \E g \in [0 .. Len(ns) -> Nat] :
             /\ g[0] = 0 /\ \A k \in 1 .. Len(ns) : g[k] = g[k - 1] + ns[k]
             /\ Total(ns) = g[Len(ns)]
<1> DEFINE n == Len(ns)
           step == [p \in (1 .. n) \X Nat |-> p[2] + ns[p[1]]]
           Is(h) == h = [k \in 0 .. n |-> IF k = 0 THEN 0 ELSE h[k - 1] + ns[k]]
           sum == CHOOSE h : Is(h)
           T == {k \in 0 .. n : sum[k] \in Nat}
<1>1. n \in Nat /\ \A k \in 1 .. n : ns[k] \in Nat
  OBVIOUS
<1>2. step \in [(1 .. n) \X Nat -> Nat] /\ \A k \in 1 .. n : \A y \in Nat : step[<<k, y>>] = y + ns[k]
  <2> HIDE DEF n
  <2>1. \A p \in (1 .. n) \X Nat : p[2] + ns[p[1]] \in Nat
    <3> SUFFICES ASSUME NEW p \in (1 .. n) \X Nat PROVE p[2] + ns[p[1]] \in Nat
      OBVIOUS
    <3>1. p[1] \in 1 .. n /\ p[2] \in Nat
      OBVIOUS
    <3> QED BY <3>1, <1>1
  <2>2. step \in [(1 .. n) \X Nat -> Nat]
    BY <2>1
  <2>3. ASSUME NEW k \in 1 .. n, NEW y \in Nat PROVE step[<<k, y>>] = y + ns[k]
    OBVIOUS
  <2> QED BY <2>2, <2>3
<1> HIDE DEF step
<1>3. PICK g \in [0 .. n -> Nat] : g[0] = 0 /\ \A k \in 1 .. n : g[k] = step[<<k, g[k - 1]>>]
  <2>1. Runs(Nat, 0, step, n) # {}
    <3> HIDE DEF n
    <3> QED BY <1>1, <1>2, RecursionExists
  <2> QED BY <2>1 DEF Runs, IsRun
<1>4. \A k \in 1 .. n : g[k] = g[k - 1] + ns[k]
  <2>1. \A k \in 1 .. n : g[k - 1] \in Nat
    BY <1>1
  <2> QED BY <2>1, <1>2, <1>3
<1>5. Is(g)
  BY <1>1, <1>3, <1>4
<1>6. Is(sum)
  <2> HIDE DEF Is
  <2> QED BY <1>5
<1> HIDE DEF sum
<1>7. sum[0] = 0 /\ (\A k \in 1 .. n : sum[k] = sum[k - 1] + ns[k]) /\ DOMAIN sum = 0 .. n
      /\ sum = [k \in 0 .. n |-> sum[k]]
  <2> HIDE DEF n
  <2>1. sum = [k \in 0 .. n |-> IF k = 0 THEN 0 ELSE sum[k - 1] + ns[k]]
    BY <1>6
  <2>2. DOMAIN sum = 0 .. n
    BY <2>1, Zenon
  <2>3. ASSUME NEW k \in 0 .. n PROVE sum[k] = IF k = 0 THEN 0 ELSE sum[k - 1] + ns[k]
    BY <2>1, Zenon
  <2>4. sum = [k \in 0 .. n |-> sum[k]]
    <3>1. sum = [k \in DOMAIN sum |-> sum[k]]
      BY <2>1
    <3> QED BY <2>2, <3>1
  <2>5. 0 \in 0 .. n /\ \A k \in 1 .. n : k \in 0 .. n /\ k # 0
    BY <1>1
  <2> QED BY <2>2, <2>3, <2>4, <2>5
<1>8. 0 .. n \subseteq T
  <2>1. 0 \in T
    BY <1>1, <1>7
  <2>2. ASSUME NEW k \in 0 .. n - 1, k \in T PROVE k + 1 \in T
    <3>1. k + 1 \in 1 .. n /\ (k + 1) - 1 = k
      BY <1>1
    <3>2. sum[k + 1] = sum[k] + ns[k + 1]
      BY <3>1, <1>7
    <3> QED BY <3>1, <3>2, <2>2, <1>1
  <2> HIDE DEF T
  <2> QED BY <1>1, <2>1, <2>2, IntervalInduction
<1>9. sum \in [0 .. n -> Nat]
  BY <1>7, <1>8
<1>10. Total(ns) = sum[n]
  BY DEF Total, sum
<1> HIDE DEF n
<1> QED BY <1>7, <1>9, <1>10 DEF n

LEMMA TotalType ==
    ASSUME NEW ns \in Seq(Nat)
    PROVE  Total(ns) \in Nat
<1>1. Len(ns) \in 0 .. Len(ns)
  OBVIOUS
<1> QED BY <1>1, TotalRun

LEMMA TotalEmpty ==
    Total(<<>>) = 0
<1>1. <<>> \in Seq(Nat) /\ Len(<<>>) = 0
  OBVIOUS
<1> QED BY <1>1, TotalRun

\* Two runs of sums agree as long as their numbers do.
Adds(g, ns, n) == \A k \in 1 .. n : g[k] = g[k - 1] + ns[k]
LEMMA TotalUnique ==
    ASSUME NEW n \in Nat, NEW g, NEW h, NEW ns, g[0] = h[0], Adds(g, ns, n), Adds(h, ns, n)
    PROVE  g[n] = h[n]
<1> DEFINE T == {k \in 0 .. n : g[k] = h[k]}
<1>1. 0 \in T
  OBVIOUS
<1>2. ASSUME NEW k \in 0 .. n - 1, k \in T PROVE k + 1 \in T
  <2>1. k + 1 \in 1 .. n /\ (k + 1) - 1 = k
    OBVIOUS
  <2>2. g[k + 1] = g[k] + ns[k + 1] /\ h[k + 1] = h[k] + ns[k + 1]
    BY <2>1 DEF Adds
  <2> QED BY <2>1, <2>2, <1>2
<1>3. 0 .. n \subseteq T
  <2> HIDE DEF T
  <2> QED BY <1>1, <1>2, IntervalInduction
<1> QED BY <1>3

LEMMA TotalAppend ==
    ASSUME NEW ns \in Seq(Nat), NEW x \in Nat
    PROVE  Total(Append(ns, x)) = Total(ns) + x
<1> DEFINE n == Len(ns)
           ms == Append(ns, x)
<1>1. ms \in Seq(Nat) /\ Len(ms) = n + 1 /\ ms[n + 1] = x /\ n \in Nat
      /\ \A k \in 1 .. n : ms[k] = ns[k]
  BY AppendProperties
<1> HIDE DEF ms
<1>2. PICK g \in [0 .. n -> Nat] : g[0] = 0 /\ (\A k \in 1 .. n : g[k] = g[k - 1] + ns[k])
                                   /\ Total(ns) = g[n]
  BY TotalRun
<1>3. PICK h \in [0 .. n + 1 -> Nat] :
        h[0] = 0 /\ (\A k \in 1 .. n + 1 : h[k] = h[k - 1] + ms[k]) /\ Total(ms) = h[n + 1]
  BY <1>1, TotalRun
<1>4. h[n + 1] = h[n] + x
  <2>1. n + 1 \in 1 .. n + 1 /\ (n + 1) - 1 = n
    BY <1>1
  <2> QED BY <2>1, <1>1, <1>3
<1>5. \A k \in 1 .. n : h[k] = h[k - 1] + ms[k]
  BY <1>1, <1>3
<1>6. g[n] = h[n]
  <2>1. Adds(h, ns, n) /\ Adds(g, ns, n) /\ g[0] = h[0] /\ n \in Nat
    BY <1>1, <1>2, <1>3, <1>5 DEF Adds
  <2> HIDE DEF n
  <2> QED BY <2>1, TotalUnique
<1> QED BY <1>2, <1>3, <1>4, <1>6 DEF ms

LEMMA ConcatAppend ==
    ASSUME NEW S, NEW s \in Seq(S), NEW t \in Seq(S), NEW x \in S
    PROVE  s \o Append(t, x) = Append(s \o t, x) /\ s \o t \in Seq(S)
<1> DEFINE u == Append(t, x)
           v == s \o t
           a == s \o u
           b == Append(v, x)
           n == Len(s)
           m == Len(t)
<1>1. /\ u \in Seq(S) /\ Len(u) = m + 1 /\ u[m + 1] = x /\ (\A i \in 1 .. m : u[i] = t[i])
      /\ n \in Nat /\ m \in Nat
  BY AppendProperties
<1>2. /\ v \in Seq(S) /\ Len(v) = n + m
      /\ \A i \in 1 .. n + m : v[i] = IF i <= n THEN s[i] ELSE t[i - n]
  BY ConcatProperties
<1> HIDE DEF u, v
<1>3. /\ a \in Seq(S) /\ Len(a) = n + (m + 1)
      /\ \A i \in 1 .. n + (m + 1) : a[i] = IF i <= n THEN s[i] ELSE u[i - n]
  <2>1. /\ a \in Seq(S) /\ Len(a) = n + Len(u)
        /\ \A i \in 1 .. n + Len(u) : a[i] = IF i <= n THEN s[i] ELSE u[i - n]
    BY <1>1, ConcatProperties
  <2>2. Len(u) = m + 1
    BY <1>1
  <2> HIDE DEF a, n, m
  <2> QED BY <2>1, <2>2
<1>4. /\ b \in Seq(S) /\ Len(b) = n + m + 1 /\ b[n + m + 1] = x
      /\ \A i \in 1 .. n + m : b[i] = v[i]
  <2>1. /\ b \in Seq(S) /\ Len(b) = Len(v) + 1 /\ b[Len(v) + 1] = x
        /\ \A i \in 1 .. Len(v) : b[i] = v[i]
    <3>1. v \in Seq(S)
      BY <1>2
    <3> QED BY <3>1, AppendProperties
  <2>2. Len(v) = n + m
    BY <1>2
  <2> HIDE DEF b, n, m
  <2> QED BY <2>1, <2>2
<1> HIDE DEF a, b, n, m
<1>5. ASSUME NEW i \in 1 .. Len(a) PROVE a[i] = b[i]
  <2>1. CASE i = n + m + 1
    <3>1. ~(i <= n) /\ i - n = m + 1 /\ i \in 1 .. n + (m + 1)
      BY <2>1, <1>1
    <3> QED BY <2>1, <3>1, <1>1, <1>3, <1>4
  <2>2. CASE i # n + m + 1
    <3>1. i \in 1 .. n + m /\ i \in 1 .. n + (m + 1) /\ (~(i <= n) => i - n \in 1 .. m)
      BY <2>2, <1>1, <1>3
    <3> QED BY <3>1, <1>1, <1>2, <1>3, <1>4
  <2> QED BY <2>1, <2>2
<1>6. Len(a) = Len(b)
  BY <1>1, <1>3, <1>4
<1>7. a = b
  BY <1>3, <1>4, <1>5, <1>6, SeqEqual
<1> QED BY <1>2, <1>7 DEF a, b, u, v

LEMMA TotalConcat ==
    ASSUME NEW ns \in Seq(Nat), NEW ms \in Seq(Nat)
    PROVE  Total(ns \o ms) = Total(ns) + Total(ms)
<1> DEFINE n == Len(ms)
           part == [k \in 0 .. n |-> SubSeq(ms, 1, k)]
           T == {k \in 0 .. n : Total(ns \o part[k]) = Total(ns) + Total(part[k])}
<1>1. n \in Nat /\ Total(ns) \in Nat /\ \A k \in 1 .. n : ms[k] \in Nat
  BY TotalType
<1>2. ASSUME NEW k \in 0 .. n
      PROVE  part[k] \in Seq(Nat) /\ part[k] = SubSeq(ms, 1, k)
  <2>1. \A i \in 1 .. k : ms[i] \in Nat
    BY <1>1
  <2>2. k \in Int /\ 1 \in Int
    OBVIOUS
  <2>3. SubSeq(ms, 1, k) \in Seq(Nat)
    BY <2>1, <2>2, SubSeqProperties
  <2> QED BY <2>3
<1>3. 0 \in T
  <2>1. part[0] = <<>>
    BY <1>1
  <2>2. ns \o <<>> = ns
    OBVIOUS
  <2> HIDE DEF part
  <2>3. Total(ns \o part[0]) = Total(ns) + Total(part[0])
    <3>1. Total(ns \o part[0]) = Total(ns) /\ Total(part[0]) = 0
      BY <2>1, <2>2, TotalEmpty
    <3> QED BY <3>1, <1>1
  <2> QED BY <1>1, <2>3
<1>4. ASSUME NEW k \in 0 .. n - 1, k \in T PROVE k + 1 \in T
  <2> DEFINE x == ms[k + 1]
             p == part[k]
  <2>1. k + 1 \in 0 .. n /\ k \in 0 .. n /\ k + 1 \in 1 .. n /\ k + 1 \in 1 .. Len(ms) /\ 1 \in 1 .. Len(ms) + 1
    BY <1>1
  <2>2. x \in Nat /\ p \in Seq(Nat) /\ part[k + 1] \in Seq(Nat)
    BY <1>1, <1>2, <2>1
  <2>3. part[k + 1] = Append(p, x)
    <3>1. part[k + 1] = SubSeq(ms, 1, k + 1) /\ p = SubSeq(ms, 1, k)
      BY <1>2, <2>1
    <3>2. SubSeq(ms, 1, k + 1) = Append(SubSeq(ms, 1, k), x)
      BY <2>1
    <3> QED BY <3>1, <3>2
  <2>4. ns \o Append(p, x) = Append(ns \o p, x) /\ ns \o p \in Seq(Nat)
    <3> HIDE DEF p, x, part
    <3>1. p \in Seq(Nat) /\ x \in Nat
      BY <2>2
    <3> QED BY <3>1, ConcatAppend
  <2>5. Total(ns \o p) = Total(ns) + Total(p) /\ Total(p) \in Nat
    BY <1>4, <2>2, TotalType
  <2>6. Total(Append(ns \o p, x)) = Total(ns \o p) + x /\ Total(Append(p, x)) = Total(p) + x
    <3> HIDE DEF p, x
    <3> QED BY <2>2, <2>4, TotalAppend
  <2>7. Total(ns \o part[k + 1]) = Total(ns) + Total(part[k + 1])
    <3> HIDE DEF p, x, part
    <3> QED BY <2>2, <2>3, <2>4, <2>5, <2>6, <1>1
  <2> HIDE DEF p, x, part
  <2> QED BY <2>1, <2>7
<1>5. n \in T
  <2> HIDE DEF T
  <2>1. 0 .. n \subseteq T
    BY <1>1, <1>3, <1>4, IntervalInduction
  <2> QED BY <2>1, <1>1
<1>6. part[n] = ms
  BY <1>1
<1> HIDE DEF part, n
<1> QED BY <1>5, <1>6

\* The sequence without the number at j.
Omitting(ns, j) == SubSeq(ns, 1, j - 1) \o SubSeq(ns, j + 1, Len(ns))

LEMMA OmittingType ==
    ASSUME NEW S, NEW s \in Seq(S), NEW j \in 1 .. Len(s)
    PROVE  /\ Omitting(s, j) \in Seq(S) /\ Len(Omitting(s, j)) = Len(s) - 1
           /\ \A k \in 1 .. Len(s) - 1 : Omitting(s, j)[k] = IF k < j THEN s[k] ELSE s[k + 1]
<1> DEFINE a == SubSeq(s, 1, j - 1)
           b == SubSeq(s, j + 1, Len(s))
           n == Len(s)
<1>1. n \in Nat /\ \A i \in 1 .. n : s[i] \in S
  OBVIOUS
<1>2. /\ a \in Seq(S) /\ Len(a) = j - 1 /\ \A i \in 1 .. j - 1 : a[i] = s[i]
  <2>1. 1 \in Int /\ j - 1 \in Int /\ (\A i \in 1 .. j - 1 : s[i] \in S)
    BY <1>1
  <2>2. /\ a \in Seq(S) /\ Len(a) = (IF 1 <= j - 1 THEN (j - 1) - 1 + 1 ELSE 0)
        /\ \A i \in 1 .. (j - 1) - 1 + 1 : a[i] = s[1 + i - 1]
    BY <2>1, SubSeqProperties
  <2> HIDE DEF a
  <2> QED BY <2>2
<1>3. /\ b \in Seq(S) /\ Len(b) = n - j /\ \A i \in 1 .. n - j : b[i] = s[j + i]
  <2>1. j + 1 \in Int /\ n \in Int /\ (\A i \in j + 1 .. n : s[i] \in S) /\ j \in 1 .. n
    BY <1>1
  <2>2. /\ b \in Seq(S) /\ Len(b) = (IF j + 1 <= n THEN n - (j + 1) + 1 ELSE 0)
        /\ \A i \in 1 .. n - (j + 1) + 1 : b[i] = s[(j + 1) + i - 1]
    BY <2>1, SubSeqProperties
  <2> HIDE DEF b, n
  <2>3. Len(b) = n - j
    BY <2>1, <2>2, <1>1
  <2>4. ASSUME NEW i \in 1 .. n - j PROVE b[i] = s[j + i]
    <3>1. i \in 1 .. n - (j + 1) + 1 /\ (j + 1) + i - 1 = j + i
      BY <1>1
    <3> QED BY <3>1, <2>2
  <2> QED BY <2>2, <2>3, <2>4
<1> HIDE DEF a, b
<1> DEFINE c == a \o b
<1>4. c \in Seq(S) /\ Len(c) = Len(a) + Len(b)
      /\ \A i \in 1 .. Len(a) + Len(b) : c[i] = IF i <= Len(a) THEN a[i] ELSE b[i - Len(a)]
  BY <1>2, <1>3, ConcatProperties
<1> HIDE DEF c
<1>5. Len(a) + Len(b) = n - 1
  BY <1>1, <1>2, <1>3
<1>6. ASSUME NEW k \in 1 .. n - 1 PROVE c[k] = IF k < j THEN s[k] ELSE s[k + 1]
  <2>1. CASE k < j
    <3>1. k <= Len(a) /\ k \in 1 .. j - 1 /\ k \in 1 .. Len(a) + Len(b)
      BY <2>1, <1>1, <1>2, <1>5
    <3> QED BY <2>1, <3>1, <1>2, <1>4
  <2>2. CASE ~(k < j)
    <3>1. ~(k <= Len(a)) /\ k - Len(a) \in 1 .. n - j /\ k \in 1 .. Len(a) + Len(b)
          /\ j + (k - Len(a)) = k + 1
      BY <2>2, <1>1, <1>2, <1>5
    <3> QED BY <2>2, <3>1, <1>3, <1>4
  <2> QED BY <2>1, <2>2
<1> QED BY <1>4, <1>5, <1>6 DEF Omitting, a, b, c

LEMMA TotalOmitting ==
    ASSUME NEW ns \in Seq(Nat), NEW j \in 1 .. Len(ns)
    PROVE  /\ Total(ns) = Total(Omitting(ns, j)) + ns[j] /\ ns[j] \in Nat
           /\ Total(Omitting(ns, j)) \in Nat
<1> DEFINE n == Len(ns)
           a == SubSeq(ns, 1, j - 1)
           b == SubSeq(ns, j + 1, n)
<1>1. n \in Nat /\ \A i \in 1 .. n : ns[i] \in Nat
  OBVIOUS
<1>2. a \in Seq(Nat)
  <2>1. 1 \in Int /\ j - 1 \in Int /\ (\A i \in 1 .. j - 1 : ns[i] \in Nat)
    BY <1>1
  <2> QED BY <2>1, SubSeqProperties
<1>3. b \in Seq(Nat)
  <2>1. j + 1 \in Int /\ n \in Int /\ (\A i \in j + 1 .. n : ns[i] \in Nat)
    BY <1>1
  <2> QED BY <2>1, SubSeqProperties
<1>4. ns = Append(a, ns[j]) \o b
  <2>1. Append(a, ns[j]) = SubSeq(ns, 1, j)
    BY <1>1
  <2>2. SubSeq(ns, 1, j) \o SubSeq(ns, j + 1, n) = SubSeq(ns, 1, n)
    <3>1. 1 \in 1 .. Len(ns) + 1 /\ j \in 1 - 1 .. Len(ns) /\ n \in j .. Len(ns)
      BY <1>1
    <3> HIDE DEF n
    <3> QED BY <3>1, ConcatAdjacentSubSeq
  <2>3. SubSeq(ns, 1, n) = ns
    BY <1>1
  <2> QED BY <2>1, <2>2, <2>3
<1>5. ns[j] \in Nat
  OBVIOUS
<1>6. Omitting(ns, j) = a \o b
  BY DEF Omitting
<1> HIDE DEF a, b
<1>7. Append(a, ns[j]) \in Seq(Nat) /\ a \o b \in Seq(Nat)
  BY <1>2, <1>3, <1>5
<1>8. Total(ns) = (Total(a) + ns[j]) + Total(b)
  <2>1. Total(ns) = Total(Append(a, ns[j])) + Total(b)
    BY <1>3, <1>4, <1>7, TotalConcat
  <2> QED BY <2>1, <1>2, <1>5, TotalAppend
<1>9. Total(a \o b) = Total(a) + Total(b) /\ Total(a) \in Nat /\ Total(b) \in Nat /\ Total(a \o b) \in Nat
  BY <1>2, <1>3, <1>7, TotalConcat, TotalType
<1> QED BY <1>5, <1>6, <1>8, <1>9

\* Two sequences that differ in one place.
LEMMA TotalChange ==
    ASSUME NEW ns \in Seq(Nat), NEW ms \in Seq(Nat), Len(ns) = Len(ms), NEW j \in 1 .. Len(ns),
           \A i \in 1 .. Len(ns) : i # j => ns[i] = ms[i]
    PROVE  Total(ns) + ms[j] = Total(ms) + ns[j]
<1> DEFINE n == Len(ns)
           a == Omitting(ns, j)
           b == Omitting(ms, j)
<1>1. a \in Seq(Nat) /\ Len(a) = n - 1 /\ \A k \in 1 .. n - 1 : a[k] = IF k < j THEN ns[k] ELSE ns[k + 1]
  BY OmittingType
<1>2. b \in Seq(Nat) /\ Len(b) = n - 1 /\ \A k \in 1 .. n - 1 : b[k] = IF k < j THEN ms[k] ELSE ms[k + 1]
  <2>1. j \in 1 .. Len(ms) /\ Len(ms) = n
    OBVIOUS
  <2> QED BY <2>1, OmittingType
<1> HIDE DEF a, b
<1>3. n \in Nat
  OBVIOUS
<1>4. ASSUME NEW k \in 1 .. n - 1 PROVE a[k] = b[k]
  <2>1. k \in 1 .. n /\ k + 1 \in 1 .. n /\ (k < j => k # j) /\ (~(k < j) => k + 1 # j)
    BY <1>3
  <2> QED BY <2>1, <1>1, <1>2
<1>5. a = b
  <2> HIDE DEF n
  <2>1. Len(a) = Len(b)
    BY <1>1, <1>2
  <2>2. \A k \in 1 .. Len(a) : a[k] = b[k]
    BY <1>1, <1>4
  <2> QED BY <1>1, <1>2, <2>1, <2>2, SeqEqual
<1>6. Total(ns) = Total(a) + ns[j] /\ Total(ms) = Total(b) + ms[j] /\ Total(a) \in Nat
      /\ ns[j] \in Nat /\ ms[j] \in Nat
  BY TotalOmitting DEF a, b
<1> QED BY <1>5, <1>6

\* What the members of a sequence weigh together.
Weigh(w, s) == [i \in DOMAIN s |-> w[s[i]]]
Weight(w, s) == Total(Weigh(w, s))

LEMMA WeighType ==
    ASSUME NEW S, NEW w \in [S -> Nat], NEW s \in Seq(S)
    PROVE  /\ Weigh(w, s) \in Seq(Nat) /\ Len(Weigh(w, s)) = Len(s)
           /\ \A i \in 1 .. Len(s) : Weigh(w, s)[i] = w[s[i]]
           /\ Weight(w, s) \in Nat
<1>1. Len(s) \in Nat /\ DOMAIN s = 1 .. Len(s) /\ \A i \in 1 .. Len(s) : w[s[i]] \in Nat
  OBVIOUS
<1>2. Weigh(w, s) \in [1 .. Len(s) -> Nat] /\ \A i \in 1 .. Len(s) : Weigh(w, s)[i] = w[s[i]]
  BY <1>1 DEF Weigh
<1>3. Weigh(w, s) \in Seq(Nat) /\ Len(Weigh(w, s)) = Len(s)
  BY <1>1, <1>2
<1> QED BY <1>2, <1>3, TotalType DEF Weight

IsWeighed(w, s) ==
    /\ Weigh(w, s) \in Seq(Nat) /\ Len(Weigh(w, s)) = Len(s)
    /\ \A i \in 1 .. Len(s) : Weigh(w, s)[i] = w[s[i]]
LEMMA WeighedAll ==
    ASSUME NEW S, NEW w \in [S -> Nat], NEW s \in Seq(S)
    PROVE  IsWeighed(w, s)
BY WeighType DEF IsWeighed

LEMMA WeightEmpty ==
    ASSUME NEW w
    PROVE  Weight(w, <<>>) = 0
<1>1. Weigh(w, <<>>) = <<>>
  BY DEF Weigh
<1> QED BY <1>1, TotalEmpty DEF Weight

LEMMA WeightAppend ==
    ASSUME NEW S, NEW w \in [S -> Nat], NEW s \in Seq(S), NEW x \in S
    PROVE  Weight(w, Append(s, x)) = Weight(w, s) + w[x]
<1> DEFINE t == Append(s, x)
           a == Weigh(w, s)
           b == Weigh(w, t)
           n == Len(s)
           y == w[x]
           c == Append(a, y)
<1>1. t \in Seq(S) /\ Len(t) = n + 1 /\ t[n + 1] = x /\ n \in Nat /\ \A i \in 1 .. n : t[i] = s[i]
  BY AppendProperties
<1> HIDE DEF t
<1>2. a \in Seq(Nat) /\ Len(a) = n /\ (\A i \in 1 .. n : a[i] = w[s[i]]) /\ y \in Nat
  <2>1. IsWeighed(w, s) /\ y \in Nat
    BY WeighedAll
  <2> QED BY <2>1, Zenon DEF IsWeighed
<1>3. b \in Seq(Nat) /\ Len(b) = n + 1 /\ \A i \in 1 .. n + 1 : b[i] = w[t[i]]
  <2>0. IsWeighed(w, t)
    BY <1>1, WeighedAll
  <2>1. b \in Seq(Nat) /\ Len(b) = Len(t) /\ \A i \in 1 .. Len(t) : b[i] = w[t[i]]
    BY <2>0, Zenon DEF IsWeighed
  <2>2. Len(t) = n + 1
    BY <1>1
  <2> HIDE DEF b, n
  <2> QED BY <2>1, <2>2
<1> HIDE DEF a, b, y
<1>4. c \in Seq(Nat) /\ Len(c) = n + 1 /\ c[n + 1] = y /\ \A i \in 1 .. n : c[i] = a[i]
  <2>1. c \in Seq(Nat) /\ Len(c) = Len(a) + 1 /\ c[Len(a) + 1] = y /\ \A i \in 1 .. Len(a) : c[i] = a[i]
    <3>1. a \in Seq(Nat) /\ y \in Nat
      BY <1>2
    <3> QED BY <3>1, AppendProperties
  <2>2. Len(a) = n
    BY <1>2
  <2> HIDE DEF c, n
  <2> QED BY <2>1, <2>2
<1> HIDE DEF c, n
<1>5. ASSUME NEW i \in 1 .. Len(b) PROVE b[i] = c[i]
  <2>1. CASE i = n + 1
    BY <2>1, <1>1, <1>3, <1>4 DEF y
  <2>2. CASE i # n + 1
    <3>1. i \in 1 .. n /\ i \in 1 .. n + 1
      BY <2>2, <1>1, <1>3
    <3>2. b[i] = w[t[i]] /\ t[i] = s[i]
      BY <3>1, <1>1, <1>3
    <3>3. c[i] = a[i] /\ a[i] = w[s[i]]
      BY <3>1, <1>2, <1>4 DEF n
    <3> QED BY <3>2, <3>3
  <2> QED BY <2>1, <2>2
<1>6. Len(b) = Len(c)
  BY <1>3, <1>4
<1>7. b = c
  BY <1>3, <1>4, <1>5, <1>6, SeqEqual
<1>8. Total(c) = Total(a) + y
  <2>1. a \in Seq(Nat) /\ y \in Nat
    BY <1>2
  <2> QED BY <2>1, TotalAppend DEF c
<1> QED BY <1>7, <1>8 DEF Weight, a, b, y, t

LEMMA WeightConcat ==
    ASSUME NEW S, NEW w \in [S -> Nat], NEW s \in Seq(S), NEW t \in Seq(S)
    PROVE  Weight(w, s \o t) = Weight(w, s) + Weight(w, t)
<1> DEFINE u == s \o t
           a == Weigh(w, s)
           b == Weigh(w, t)
           c == Weigh(w, u)
           d == a \o b
           n == Len(s)
           m == Len(t)
<1>0. ASSUME NEW z \in Seq(S)
      PROVE  Weigh(w, z) \in Seq(Nat) /\ Len(Weigh(w, z)) = Len(z)
             /\ \A i \in 1 .. Len(z) : Weigh(w, z)[i] = w[z[i]]
  <2>1. IsWeighed(w, z)
    BY WeighedAll
  <2> QED BY <2>1 DEF IsWeighed
<1>1. u \in Seq(S) /\ Len(u) = n + m /\ n \in Nat /\ m \in Nat
      /\ \A i \in 1 .. n + m : u[i] = IF i <= n THEN s[i] ELSE t[i - n]
  BY ConcatProperties
<1>2. /\ a \in Seq(Nat) /\ Len(a) = n /\ \A i \in 1 .. n : a[i] = w[s[i]]
      /\ b \in Seq(Nat) /\ Len(b) = m /\ \A i \in 1 .. m : b[i] = w[t[i]]
  <2>1. a \in Seq(Nat) /\ Len(a) = n /\ \A i \in 1 .. n : a[i] = w[s[i]]
    BY <1>0
  <2>2. b \in Seq(Nat) /\ Len(b) = m /\ \A i \in 1 .. m : b[i] = w[t[i]]
    BY <1>0
  <2> QED BY <2>1, <2>2
<1> HIDE DEF u
<1>3. c \in Seq(Nat) /\ Len(c) = n + m /\ \A i \in 1 .. n + m : c[i] = w[u[i]]
  <2>1. c \in Seq(Nat) /\ Len(c) = Len(u) /\ \A i \in 1 .. Len(u) : c[i] = w[u[i]]
    <3>1. u \in Seq(S)
      BY <1>1
    <3> QED BY <3>1, <1>0
  <2>2. Len(u) = n + m
    BY <1>1
  <2> HIDE DEF c, n, m
  <2> QED BY <2>1, <2>2
<1> HIDE DEF a, b, c
<1>4. d \in Seq(Nat) /\ Len(d) = n + m
      /\ \A i \in 1 .. n + m : d[i] = IF i <= n THEN a[i] ELSE b[i - n]
  <2>1. a \in Seq(Nat) /\ b \in Seq(Nat)
    BY <1>2
  <2>2. d \in Seq(Nat) /\ Len(d) = Len(a) + Len(b)
        /\ \A i \in 1 .. Len(a) + Len(b) : d[i] = IF i <= Len(a) THEN a[i] ELSE b[i - Len(a)]
    BY <2>1, ConcatProperties
  <2>3. Len(a) = n /\ Len(b) = m
    BY <1>2
  <2> HIDE DEF d, n, m
  <2> QED BY <2>2, <2>3
<1> HIDE DEF d, n, m
<1>5. ASSUME NEW i \in 1 .. Len(c) PROVE c[i] = d[i]
  <2>1. i \in 1 .. n + m /\ (i <= n => i \in 1 .. n) /\ (~(i <= n) => i - n \in 1 .. m)
    BY <1>1, <1>3
  <2>2. c[i] = w[u[i]] /\ u[i] = (IF i <= n THEN s[i] ELSE t[i - n])
    BY <2>1, <1>1, <1>3
  <2>3. d[i] = IF i <= n THEN a[i] ELSE b[i - n]
    BY <2>1, <1>4
  <2>4. CASE i <= n
    <3>1. a[i] = w[s[i]]
      BY <2>1, <2>4, <1>2
    <3> QED BY <3>1, <2>2, <2>3, <2>4
  <2>5. CASE ~(i <= n)
    <3>1. b[i - n] = w[t[i - n]]
      BY <2>1, <2>5, <1>2
    <3> QED BY <3>1, <2>2, <2>3, <2>5
  <2> QED BY <2>4, <2>5
<1>6. Len(c) = Len(d)
  BY <1>3, <1>4
<1>7. c = d
  BY <1>3, <1>4, <1>5, <1>6, SeqEqual
<1>8. Total(d) = Total(a) + Total(b)
  <2>1. a \in Seq(Nat) /\ b \in Seq(Nat)
    BY <1>2
  <2> QED BY <2>1, TotalConcat DEF d
<1> QED BY <1>7, <1>8 DEF Weight, a, b, c, u

\* What the first members weigh, one by one.
LEMMA WeightRun ==
    ASSUME NEW S, NEW w \in [S -> Nat], NEW s \in Seq(S)
    PROVE  \E g \in [0 .. Len(s) -> Nat] :
             /\ g[0] = 0 /\ \A k \in 1 .. Len(s) : g[k] = g[k - 1] + w[s[k]]
             /\ Weight(w, s) = g[Len(s)]
<1> DEFINE n == Len(s)
           ns == Weigh(w, s)
<1>1. ns \in Seq(Nat) /\ Len(ns) = n /\ \A i \in 1 .. n : ns[i] = w[s[i]]
  BY WeighType
<1> HIDE DEF ns, n
<1>2. PICK g \in [0 .. Len(ns) -> Nat] :
        /\ g[0] = 0 /\ \A k \in 1 .. Len(ns) : g[k] = g[k - 1] + ns[k]
        /\ Total(ns) = g[Len(ns)]
  BY <1>1, TotalRun
<1>3. g \in [0 .. n -> Nat] /\ g[0] = 0 /\ (\A k \in 1 .. n : g[k] = g[k - 1] + w[s[k]])
      /\ Total(ns) = g[n]
  BY <1>1, <1>2
<1> QED BY <1>3 DEF Weight, ns, n

\* The member at i alone.
LEMMA WeightOne ==
    ASSUME NEW S, NEW w \in [S -> Nat], NEW s \in Seq(S), NEW i \in DOMAIN s
    PROVE  Weight(w, Subsequence(s, {i})) = w[s[i]]
<1>1. Subsequence(s, {}) = <<>>
  <2>1. Cardinality({}) = 0
    BY FS_EmptySet
  <2> QED BY <2>1 DEF Subsequence
<1>2. {} \in SUBSET DOMAIN s /\ {} \cup {i} = {i} /\ s[i] \in S /\ <<>> \in Seq(S) /\ w[s[i]] \in Nat
  OBVIOUS
<1>3. Subsequence(s, {} \cup {i}) = Append(Subsequence(s, {}), s[i])
  BY <1>2, SubsequenceGrows
<1>4. Weight(w, Append(<<>>, s[i])) = Weight(w, <<>>) + w[s[i]]
  BY <1>2, WeightAppend
<1> QED BY <1>1, <1>2, <1>3, <1>4, WeightEmpty

\* What is taken out of a sequence and what is left weigh as much as the whole.
LEMMA WeightSplit ==
    ASSUME NEW S, NEW w \in [S -> Nat], NEW s \in Seq(S), NEW I \in SUBSET DOMAIN s
    PROVE  /\ Weight(w, s) = Weight(w, Subsequence(s, I)) + Weight(w, Subsequence(s, DOMAIN s \ I))
           /\ Weight(w, Subsequence(s, I)) \in Nat /\ Weight(w, Subsequence(s, DOMAIN s \ I)) \in Nat
           /\ Weight(w, s) \in Nat
<1> DEFINE n == Len(s)
           J(k) == {i \in I : i <= k}
           K(k) == {i \in DOMAIN s \ I : i <= k}
           a(k) == Weight(w, Subsequence(s, J(k)))
           b(k) == Weight(w, Subsequence(s, K(k)))
<1>1. n \in Nat /\ DOMAIN s = 1 .. n /\ \A k \in 1 .. n : s[k] \in S /\ w[s[k]] \in Nat
  OBVIOUS
<1>2. PICK g \in [0 .. n -> Nat] :
        /\ g[0] = 0 /\ \A k \in 1 .. n : g[k] = g[k - 1] + w[s[k]]
        /\ Weight(w, s) = g[n]
  BY WeightRun
<1>3. ASSUME NEW k \in 0 .. n
      PROVE  /\ J(k) \in SUBSET DOMAIN s /\ K(k) \in SUBSET DOMAIN s
             /\ Subsequence(s, J(k)) \in Seq(S) /\ Subsequence(s, K(k)) \in Seq(S)
             /\ a(k) \in Nat /\ b(k) \in Nat
  <2>1. J(k) \in SUBSET DOMAIN s /\ K(k) \in SUBSET DOMAIN s
    OBVIOUS
  <2> HIDE DEF J, K
  <2>2. Subsequence(s, J(k)) \in Seq(S) /\ Subsequence(s, K(k)) \in Seq(S)
    BY <2>1, SubsequenceProperties
  <2> QED BY <2>1, <2>2, WeighType
<1> DEFINE T == {k \in 0 .. n : g[k] = a(k) + b(k)}
<1>4. 0 \in T
  <2>1. J(0) = {} /\ K(0) = {}
    BY <1>1
  <2>2. Subsequence(s, {}) = <<>>
    <3>1. Cardinality({}) = 0
      BY FS_EmptySet
    <3> QED BY <3>1 DEF Subsequence
  <2>3. a(0) = 0 /\ b(0) = 0
    BY <2>1, <2>2, WeightEmpty
  <2> HIDE DEF a, b
  <2> QED BY <2>3, <1>1, <1>2
<1>5. ASSUME NEW k \in 0 .. n - 1, k \in T PROVE k + 1 \in T
  <2>1. k + 1 \in 1 .. n /\ k + 1 \in 0 .. n /\ k \in 0 .. n /\ (k + 1) - 1 = k /\ k + 1 \in DOMAIN s
    BY <1>1
  <2> DEFINE x == s[k + 1]
  <2>2. g[k + 1] = g[k] + w[x] /\ g[k] = a(k) + b(k) /\ x \in S /\ w[x] \in Nat
    BY <1>1, <1>2, <1>5, <2>1
  <2>3. CASE k + 1 \in I
    <3>1. J(k + 1) = J(k) \cup {k + 1} /\ K(k + 1) = K(k)
      BY <2>1, <2>3, <1>1
    <3>2. \A i \in J(k) : i < k + 1
      BY <1>1
    <3>3. Subsequence(s, J(k + 1)) = Append(Subsequence(s, J(k)), x)
      <4>1. J(k) \in SUBSET DOMAIN s
        BY <1>3, <2>1
      <4> HIDE DEF J
      <4> QED BY <3>1, <3>2, <4>1, <2>1, SubsequenceGrows
    <3>4. a(k + 1) = a(k) + w[x]
      <4>1. Subsequence(s, J(k)) \in Seq(S)
        BY <1>3, <2>1
      <4> HIDE DEF J, x
      <4> QED BY <3>3, <4>1, <2>2, WeightAppend
    <3>5. b(k + 1) = b(k)
      BY <3>1
    <3>6. a(k) \in Nat /\ b(k) \in Nat
      BY <1>3, <2>1
    <3>7. g[k + 1] = a(k + 1) + b(k + 1)
      <4> HIDE DEF a, b, x
      <4> QED BY <3>4, <3>5, <3>6, <2>2
    <3> QED BY <3>7, <2>1
  <2>4. CASE k + 1 \notin I
    <3>1. K(k + 1) = K(k) \cup {k + 1} /\ J(k + 1) = J(k)
      BY <2>1, <2>4, <1>1
    <3>2. \A i \in K(k) : i < k + 1
      BY <1>1
    <3>3. Subsequence(s, K(k + 1)) = Append(Subsequence(s, K(k)), x)
      <4>1. K(k) \in SUBSET DOMAIN s
        BY <1>3, <2>1
      <4> HIDE DEF K
      <4> QED BY <3>1, <3>2, <4>1, <2>1, SubsequenceGrows
    <3>4. b(k + 1) = b(k) + w[x]
      <4>1. Subsequence(s, K(k)) \in Seq(S)
        BY <1>3, <2>1
      <4> HIDE DEF K, x
      <4> QED BY <3>3, <4>1, <2>2, WeightAppend
    <3>5. a(k + 1) = a(k)
      BY <3>1
    <3>6. a(k) \in Nat /\ b(k) \in Nat
      BY <1>3, <2>1
    <3>7. g[k + 1] = a(k + 1) + b(k + 1)
      <4> HIDE DEF a, b, x
      <4> QED BY <3>4, <3>5, <3>6, <2>2
    <3> QED BY <3>7, <2>1
  <2> QED BY <2>3, <2>4
<1>6. n \in T
  <2> HIDE DEF T
  <2>1. 0 .. n \subseteq T
    BY <1>1, <1>4, <1>5, IntervalInduction
  <2> QED BY <2>1, <1>1
<1>7. J(n) = I /\ K(n) = DOMAIN s \ I
  BY <1>1
<1>8. n \in 0 .. n
  BY <1>1
<1>9. g[n] = a(n) + b(n) /\ a(n) \in Nat /\ b(n) \in Nat
  BY <1>3, <1>6, <1>8
<1>10. a(n) = Weight(w, Subsequence(s, I)) /\ b(n) = Weight(w, Subsequence(s, DOMAIN s \ I))
  BY <1>7
<1> HIDE DEF a, b
<1> QED BY <1>2, <1>9, <1>10

\* The same, as one fact about w, s and I.
SplitsAt(w, s, I) ==
    /\ Weight(w, s) = Weight(w, Subsequence(s, I)) + Weight(w, Subsequence(s, DOMAIN s \ I))
    /\ Weight(w, Subsequence(s, I)) \in Nat /\ Weight(w, Subsequence(s, DOMAIN s \ I)) \in Nat
    /\ Weight(w, s) \in Nat
LEMMA WeightSplits ==
    ASSUME NEW S, NEW w \in [S -> Nat], NEW s \in Seq(S), NEW I \in SUBSET DOMAIN s
    PROVE  SplitsAt(w, s, I)
BY WeightSplit DEF SplitsAt

LEMMA WeightOmitting ==
    ASSUME NEW S, NEW w \in [S -> Nat], NEW s \in Seq(S), NEW j \in 1 .. Len(s)
    PROVE  /\ Weight(w, s) = Weight(w, Omitting(s, j)) + w[s[j]]
           /\ w[s[j]] \in Nat /\ Weight(w, Omitting(s, j)) \in Nat
<1> DEFINE n == Len(s)
           r == Omitting(s, j)
           a == Weigh(w, s)
           b == Weigh(w, r)
           c == Omitting(a, j)
<1>1. n \in Nat /\ r \in Seq(S) /\ Len(r) = n - 1
      /\ \A k \in 1 .. n - 1 : r[k] = IF k < j THEN s[k] ELSE s[k + 1]
  BY OmittingType
<1> HIDE DEF r
<1>2. a \in Seq(Nat) /\ Len(a) = n /\ \A i \in 1 .. n : a[i] = w[s[i]]
  BY WeighedAll DEF IsWeighed
<1>3. b \in Seq(Nat) /\ Len(b) = n - 1 /\ \A i \in 1 .. n - 1 : b[i] = w[r[i]]
  <2>1. IsWeighed(w, r)
    BY <1>1, WeighedAll
  <2>2. b \in Seq(Nat) /\ Len(b) = Len(r) /\ \A i \in 1 .. Len(r) : b[i] = w[r[i]]
    BY <2>1 DEF IsWeighed
  <2>3. Len(r) = n - 1
    BY <1>1
  <2> HIDE DEF b, n
  <2> QED BY <2>2, <2>3
<1> HIDE DEF a, b
<1>4. c \in Seq(Nat) /\ Len(c) = n - 1
      /\ \A k \in 1 .. n - 1 : c[k] = IF k < j THEN a[k] ELSE a[k + 1]
  <2>1. a \in Seq(Nat) /\ j \in 1 .. Len(a) /\ Len(a) = n
    BY <1>2
  <2>2. c \in Seq(Nat) /\ Len(c) = Len(a) - 1
        /\ \A k \in 1 .. Len(a) - 1 : c[k] = IF k < j THEN a[k] ELSE a[k + 1]
    BY <2>1, OmittingType
  <2> HIDE DEF c, n
  <2> QED BY <2>1, <2>2
<1> HIDE DEF c
<1>5. j \in 1 .. n
  OBVIOUS
<1> HIDE DEF n
<1>6. ASSUME NEW k \in 1 .. Len(b) PROVE b[k] = c[k]
  <2>1. k \in 1 .. n - 1 /\ k \in 1 .. n /\ k + 1 \in 1 .. n
    BY <1>1, <1>3
  <2>2. b[k] = w[r[k]] /\ r[k] = (IF k < j THEN s[k] ELSE s[k + 1])
    BY <2>1, <1>1, <1>3
  <2>3. c[k] = (IF k < j THEN a[k] ELSE a[k + 1]) /\ a[k] = w[s[k]] /\ a[k + 1] = w[s[k + 1]]
    BY <2>1, <1>2, <1>4
  <2> QED BY <2>2, <2>3
<1>7. Len(b) = Len(c)
  BY <1>3, <1>4
<1>8. b = c
  BY <1>3, <1>4, <1>6, <1>7, SeqEqual
<1>9. Total(a) = Total(c) + a[j] /\ a[j] \in Nat /\ Total(c) \in Nat
  <2>1. a \in Seq(Nat) /\ j \in 1 .. Len(a)
    BY <1>2, <1>5
  <2> QED BY <2>1, TotalOmitting DEF c
<1>10. a[j] = w[s[j]]
  BY <1>2, <1>5
<1> QED BY <1>8, <1>9, <1>10 DEF Weight, a, b, r

\* q lists the n members of X, each once.
Lists(q, n, X) ==
    /\ q \in [1 .. n -> X]
    /\ \A i, j \in 1 .. n : q[i] = q[j] => i = j
    /\ \A x \in X : \E i \in 1 .. n : q[i] = x

\* In whatever order they are listed, they weigh the same.
LEMMA WeightOfLists ==
    ASSUME NEW S, NEW w \in [S -> Nat], NEW n \in Nat, NEW X \in SUBSET S,
           NEW q, Lists(q, n, X), NEW p, Lists(p, n, X)
    PROVE  Weight(w, q) = Weight(w, p)
<1> DEFINE Same(k) == \A Y \in SUBSET S : \A a, b \in [1 .. k -> Y] :
                         Lists(a, k, Y) /\ Lists(b, k, Y) => Weight(w, a) = Weight(w, b)
           T == {k \in 0 .. n : Same(k)}
<1>1. 0 \in T
  <2>1. ASSUME NEW Y \in SUBSET S, NEW a \in [1 .. 0 -> Y], NEW b \in [1 .. 0 -> Y]
        PROVE  a = b
    OBVIOUS
  <2>2. Same(0)
    BY <2>1
  <2> HIDE DEF Same
  <2> QED BY <2>2
<1>2. ASSUME NEW k \in 0 .. n - 1, k \in T PROVE k + 1 \in T
  <2>0. k \in Nat /\ k + 1 \in 0 .. n /\ k + 1 \in 1 .. k + 1
    OBVIOUS
  <2>1. ASSUME NEW Y \in SUBSET S, NEW a \in [1 .. k + 1 -> Y], NEW b \in [1 .. k + 1 -> Y],
               Lists(a, k + 1, Y), Lists(b, k + 1, Y)
        PROVE  Weight(w, a) = Weight(w, b)
    <3> DEFINE x == a[k + 1]
               Z == Y \ {x}
    <3>1. x \in Y /\ x \in S /\ Z \in SUBSET S
      BY <2>0
    <3>2. a \in Seq(S) /\ Len(a) = k + 1 /\ b \in Seq(S) /\ Len(b) = k + 1
      <4>1. a \in [1 .. k + 1 -> S] /\ b \in [1 .. k + 1 -> S]
        OBVIOUS
      <4> QED BY <4>1, <2>0
    <3>3. PICK j \in 1 .. k + 1 : b[j] = x
      BY <2>1, <3>1 DEF Lists
    <3> HIDE DEF x
    <3>4. ASSUME NEW c, Lists(c, k + 1, Y), c \in Seq(S), Len(c) = k + 1,
                 NEW m \in 1 .. k + 1, c[m] = x
          PROVE  Lists(Omitting(c, m), k, Z)
      <4> DEFINE d == Omitting(c, m)
      <4>1. d \in Seq(S) /\ Len(d) = k
            /\ \A i \in 1 .. k : d[i] = IF i < m THEN c[i] ELSE c[i + 1]
        <5>1. m \in 1 .. Len(c) /\ Len(c) - 1 = k
          BY <3>4, <2>0
        <5>2. d \in Seq(S) /\ Len(d) = Len(c) - 1
              /\ \A i \in 1 .. Len(c) - 1 : d[i] = IF i < m THEN c[i] ELSE c[i + 1]
          BY <3>4, <5>1, OmittingType
        <5> HIDE DEF d
        <5> QED BY <5>1, <5>2
      <4> HIDE DEF d
      <4> DEFINE At(i) == IF i < m THEN i ELSE i + 1
      <4>2. ASSUME NEW i \in 1 .. k PROVE At(i) \in 1 .. k + 1 /\ At(i) # m /\ d[i] = c[At(i)]
        BY <2>0, <4>1
      <4>3. ASSUME NEW i \in 1 .. k PROVE d[i] \in Z
        <5>1. c[At(i)] \in Y /\ c[At(i)] # c[m]
          BY <4>2, <3>4 DEF Lists
        <5> QED BY <5>1, <4>2, <3>4
      <4>4. ASSUME NEW i \in 1 .. k, NEW l \in 1 .. k, d[i] = d[l] PROVE i = l
        <5>1. At(i) = At(l)
          <6>1. \A a1, b1 \in 1 .. k + 1 : c[a1] = c[b1] => a1 = b1
            BY <3>4, Zenon DEF Lists
          <6> DEFINE ai == At(i)
                     al == At(l)
          <6>2. c[ai] = d[i] /\ ai \in 1 .. k + 1
            BY <4>2
          <6>3. c[al] = d[l] /\ al \in 1 .. k + 1
            BY <4>2
          <6> HIDE DEF ai, al
          <6>4. ai = al
            BY <4>4, <6>1, <6>2, <6>3, Zenon
          <6> QED BY <6>4, Zenon DEF ai, al
        <5>2. i \in Int /\ l \in Int /\ m \in Int
          BY <2>0
        <5>3. \A a1, b1, m1 \in Int :
                (IF a1 < m1 THEN a1 ELSE a1 + 1) = (IF b1 < m1 THEN b1 ELSE b1 + 1) => a1 = b1
          OBVIOUS
        <5> QED BY <5>1, <5>2, <5>3, Zenon
      <4>5. ASSUME NEW z \in Z PROVE \E i \in 1 .. k : d[i] = z
        <5>1. PICK l \in 1 .. k + 1 : c[l] = z
          BY <3>4 DEF Lists
        <5>2. l # m
          BY <5>1, <3>4
        <5>3. CASE l < m
          <6>1. l \in 1 .. k /\ At(l) = l
            BY <5>3, <2>0
          <6> QED BY <6>1, <4>2, <5>1
        <5>4. CASE ~(l < m)
          <6>1. l - 1 \in 1 .. k /\ At(l - 1) = l
            BY <5>2, <5>4, <2>0
          <6> QED BY <6>1, <4>2, <5>1
        <5> QED BY <5>3, <5>4
      <4>6. d \in [1 .. k -> Z]
        <5>1. DOMAIN d = 1 .. k /\ d \in [1 .. k -> S]
          BY <4>1
        <5> QED BY <5>1, <4>3
      <4>7. Lists(d, k, Z)
        BY <4>3, <4>4, <4>5, <4>6 DEF Lists
      <4> QED BY <4>7 DEF d
    <3> DEFINE u == Omitting(a, k + 1)
               v == Omitting(b, j)
    <3>5. Lists(u, k, Z)
      BY <3>2, <3>4, <2>0, <2>1 DEF x
    <3>6. Lists(v, k, Z)
      BY <3>2, <3>3, <3>4, <2>1
    <3>7. Weight(w, u) = Weight(w, v)
      <4>1. u \in [1 .. k -> Z] /\ v \in [1 .. k -> Z]
        BY <3>5, <3>6 DEF Lists
      <4>2. Same(k)
        BY <1>2
      <4> HIDE DEF u, v, Z
      <4> QED BY <3>1, <3>5, <3>6, <4>1, <4>2
    <3>8. Weight(w, a) = Weight(w, u) + w[x]
      <4>1. k + 1 \in 1 .. Len(a)
        BY <3>2, <2>0
      <4> QED BY <3>2, <4>1, WeightOmitting DEF x
    <3>9. Weight(w, b) = Weight(w, v) + w[x]
      <4>1. j \in 1 .. Len(b)
        BY <3>2
      <4>2. Weight(w, b) = Weight(w, v) + w[b[j]]
        BY <3>2, <4>1, WeightOmitting
      <4> QED BY <4>2, <3>3
    <3> QED BY <3>7, <3>8, <3>9
  <2>2. Same(k + 1)
    BY <2>1
  <2> HIDE DEF Same
  <2> QED BY <2>0, <2>2
<1>3. n \in T
  <2> HIDE DEF T
  <2>1. 0 .. n \subseteq T
    BY <1>1, <1>2, IntervalInduction
  <2> QED BY <2>1
<1>4. q \in [1 .. n -> X] /\ p \in [1 .. n -> X]
  BY DEF Lists
<1> QED BY <1>3, <1>4

\* Lists of two disjoint sets, one after the other, are a list of both.
LEMMA ListsConcat ==
    ASSUME NEW n \in Nat, NEW X, NEW q, Lists(q, n, X),
           NEW m \in Nat, NEW Y, NEW p, Lists(p, m, Y), X \cap Y = {}
    PROVE  Lists(q \o p, n + m, X \cup Y)
<1> DEFINE r == q \o p
           Z == X \cup Y
<1>1. q \in [1 .. n -> X] /\ p \in [1 .. m -> Y]
  BY DEF Lists
<1>2. q \in Seq(Z) /\ Len(q) = n /\ p \in Seq(Z) /\ Len(p) = m
  <2>1. q \in [1 .. n -> Z] /\ p \in [1 .. m -> Z]
    BY <1>1
  <2> HIDE DEF Z
  <2> QED BY <2>1
<1>3. /\ r \in Seq(Z) /\ Len(r) = n + m
      /\ \A i \in 1 .. n + m : r[i] = IF i <= n THEN q[i] ELSE p[i - n]
  <2> HIDE DEF Z
  <2>1. /\ r \in Seq(Z) /\ Len(r) = Len(q) + Len(p)
        /\ \A i \in 1 .. Len(q) + Len(p) : r[i] = IF i <= Len(q) THEN q[i] ELSE p[i - Len(q)]
    BY <1>2, ConcatProperties
  <2> HIDE DEF r
  <2> QED BY <1>2, <2>1
<1> HIDE DEF r
<1>4. r \in [1 .. n + m -> Z]
  <2> HIDE DEF Z
  <2> QED BY <1>3
<1>5. ASSUME NEW i \in 1 .. n + m
      PROVE  /\ i <= n => i \in 1 .. n /\ r[i] = q[i] /\ r[i] \in X
             /\ ~(i <= n) => i - n \in 1 .. m /\ r[i] = p[i - n] /\ r[i] \in Y
  <2>1. (i <= n => i \in 1 .. n) /\ (~(i <= n) => i - n \in 1 .. m)
    OBVIOUS
  <2>2. r[i] = IF i <= n THEN q[i] ELSE p[i - n]
    BY <1>3
  <2> QED BY <2>1, <2>2, <1>1
<1>6. ASSUME NEW i \in 1 .. n + m, NEW j \in 1 .. n + m, r[i] = r[j] PROVE i = j
  <2>1. CASE i <= n
    <3>1. j <= n
      BY <2>1, <1>5, <1>6
    <3>2. i \in 1 .. n /\ j \in 1 .. n /\ q[i] = q[j]
      BY <2>1, <3>1, <1>5, <1>6
    <3> QED BY <3>2 DEF Lists
  <2>2. CASE ~(i <= n)
    <3>1. ~(j <= n)
      BY <2>2, <1>5, <1>6
    <3>2. i - n \in 1 .. m /\ j - n \in 1 .. m /\ p[i - n] = p[j - n]
      BY <2>2, <3>1, <1>5, <1>6
    <3>3. i - n = j - n
      BY <3>2 DEF Lists
    <3> QED BY <3>3
  <2> QED BY <2>1, <2>2
<1>7. ASSUME NEW z \in Z PROVE \E i \in 1 .. n + m : r[i] = z
  <2>1. CASE z \in X
    <3>1. PICK i \in 1 .. n : q[i] = z
      BY <2>1 DEF Lists
    <3>2. i \in 1 .. n + m /\ i <= n
      OBVIOUS
    <3> QED BY <3>1, <3>2, <1>5
  <2>2. CASE z \in Y
    <3>1. PICK i \in 1 .. m : p[i] = z
      BY <2>2 DEF Lists
    <3>2. n + i \in 1 .. n + m /\ ~(n + i <= n) /\ (n + i) - n = i
      OBVIOUS
    <3> QED BY <3>1, <3>2, <1>5
  <2> QED BY <2>1, <2>2
<1> HIDE DEF Z
<1> QED BY <1>4, <1>6, <1>7 DEF Lists, r, Z

LEMMA ListsSize ==
    ASSUME NEW n \in Nat, NEW X, NEW q, Lists(q, n, X)
    PROVE  IsFiniteSet(X) /\ Cardinality(X) = n
<1>1. q \in Bijection(1 .. n, X)
  <2>1. q \in [1 .. n -> X] /\ (\A i, j \in 1 .. n : q[i] = q[j] => i = j)
        /\ \A x \in X : \E i \in 1 .. n : q[i] = x
    BY DEF Lists
  <2>2. IsInjective(q)
    BY <2>1 DEF IsInjective
  <2> QED BY <2>1, <2>2 DEF Bijection, Injection, Surjection
<1>2. ExistsBijection(1 .. n, X)
  BY <1>1 DEF ExistsBijection
<1> QED BY <1>2, FS_CountingElements, FS_NatBijection

\* A list of as many members as there are lists them all.
LEMMA ListsAll ==
    ASSUME NEW X, IsFiniteSet(X), NEW q \in [1 .. Cardinality(X) -> X],
           \A i, j \in 1 .. Cardinality(X) : q[i] = q[j] => i = j
    PROVE  Lists(q, Cardinality(X), X)
<1> DEFINE n == Cardinality(X)
           Y == {q[i] : i \in 1 .. n}
<1>1. n \in Nat
  BY FS_CardinalityType
<1>2. Y \subseteq X
  OBVIOUS
<1>3. Lists(q, n, Y)
  <2>1. q \in [1 .. n -> Y]
    OBVIOUS
  <2> QED BY <2>1 DEF Lists
<1>4. Cardinality(Y) = n
  BY <1>1, <1>3, ListsSize
<1>5. Y = X
  BY <1>2, <1>4, FS_Subset
<1> QED BY <1>3, <1>5

\* The run of Listed: the members it has picked so far are distinct.
Picked(s, k, X) ==
    s \in Seq(X) /\ Len(s) = k /\ \A i, j \in 1 .. k : s[i] = s[j] => i = j

LEMMA PickedNext ==
    ASSUME NEW X, IsFiniteSet(X), NEW k \in Nat, k < Cardinality(X), NEW s, Picked(s, k, X)
    PROVE  /\ (CHOOSE x \in X : \A i \in DOMAIN s : s[i] # x) \in X
           /\ Picked(Append(s, CHOOSE x \in X : \A i \in DOMAIN s : s[i] # x), k + 1, X)
<1> DEFINE x == CHOOSE y \in X : \A i \in DOMAIN s : s[i] # y
           Y == {s[i] : i \in 1 .. k}
           t == Append(s, x)
<1>1. s \in Seq(X) /\ Len(s) = k /\ DOMAIN s = 1 .. k /\ s \in [1 .. k -> X]
      /\ \A i, j \in 1 .. k : s[i] = s[j] => i = j
  BY DEF Picked
<1>2. Lists(s, k, Y)
  <2>1. s \in [1 .. k -> Y]
    BY <1>1
  <2> QED BY <1>1, <2>1 DEF Lists
<1>3. Cardinality(Y) = k
  BY <1>2, ListsSize
<1>4. Y # X
  BY <1>3
<1>5. \E y \in X : \A i \in DOMAIN s : s[i] # y
  <2>1. Y \subseteq X
    BY <1>1
  <2>2. PICK y \in X : y \notin Y
    BY <1>4, <2>1
  <2> QED BY <2>2, <1>1
<1>6. x \in X /\ \A i \in 1 .. k : s[i] # x
  BY <1>1, <1>5
<1> HIDE DEF x
<1>7. t \in Seq(X) /\ Len(t) = k + 1 /\ t[k + 1] = x /\ \A i \in 1 .. k : t[i] = s[i]
  <2>1. t \in Seq(X) /\ Len(t) = Len(s) + 1 /\ t[Len(s) + 1] = x /\ \A i \in 1 .. Len(s) : t[i] = s[i]
    BY <1>1, <1>6, AppendProperties
  <2> QED BY <2>1, <1>1
<1> HIDE DEF t
<1>8. ASSUME NEW i \in 1 .. k + 1, NEW j \in 1 .. k + 1, t[i] = t[j] PROVE i = j
  <2>1. (i = k + 1 \/ i \in 1 .. k) /\ (j = k + 1 \/ j \in 1 .. k)
    OBVIOUS
  <2> QED BY <2>1, <1>1, <1>6, <1>7, <1>8
<1>9. Picked(t, k + 1, X)
  BY <1>7, <1>8 DEF Picked
<1> QED BY <1>6, <1>9 DEF t, x

\* Listed lists a finite set.
LEMMA ListedLists ==
    ASSUME NEW X, IsFiniteSet(X)
    PROVE  Lists(Listed(X), Cardinality(X), X)
<1> DEFINE n == Cardinality(X)
           Free(s) == CHOOSE x \in X : \A i \in DOMAIN s : s[i] # x
           step == [p \in (1 .. n) \X Seq(X) |->
                      IF Free(p[2]) \in X THEN Append(p[2], Free(p[2])) ELSE p[2]]
           Is(h) == h = [k \in 0 .. n |-> IF k = 0 THEN <<>> ELSE Append(h[k - 1], Free(h[k - 1]))]
           list == CHOOSE h : Is(h)
<1>1. n \in Nat
  BY FS_CardinalityType
<1>2. /\ step \in [(1 .. n) \X Seq(X) -> Seq(X)]
      /\ \A k \in 1 .. n : \A s \in Seq(X) : Free(s) \in X => step[<<k, s>>] = Append(s, Free(s))
  <2> HIDE DEF Free
  <2>1. ASSUME NEW s \in Seq(X)
        PROVE  (IF Free(s) \in X THEN Append(s, Free(s)) ELSE s) \in Seq(X)
    OBVIOUS
  <2> QED BY <2>1
<1> HIDE DEF step
<1>3. PICK g \in [0 .. n -> Seq(X)] : g[0] = <<>> /\ \A k \in 1 .. n : g[k] = step[<<k, g[k - 1]>>]
  <2>1. Runs(Seq(X), <<>>, step, n) # {}
    <3>1. <<>> \in Seq(X)
      OBVIOUS
    <3> HIDE DEF n
    <3> QED BY <1>1, <1>2, <3>1, RecursionExists
  <2> QED BY <2>1 DEF Runs, IsRun
<1>4. ASSUME NEW k \in 0 .. n - 1, Picked(g[k], k, X)
      PROVE  g[k + 1] = Append(g[k], Free(g[k])) /\ Picked(g[k + 1], k + 1, X)
  <2>1. k \in Nat /\ k < Cardinality(X) /\ k \in 0 .. n /\ k + 1 \in 1 .. n /\ (k + 1) - 1 = k
    BY <1>1
  <2>2. Free(g[k]) \in X /\ Picked(Append(g[k], Free(g[k])), k + 1, X)
    BY <1>4, <2>1, PickedNext
  <2> HIDE DEF Free
  <2>3. g[k + 1] = step[<<k + 1, g[k]>>] /\ g[k] \in Seq(X)
    BY <1>3, <2>1
  <2> QED BY <1>2, <2>1, <2>2, <2>3
<1> DEFINE T == {k \in 0 .. n : Picked(g[k], k, X)}
<1>5. 0 .. n \subseteq T
  <2>1. 0 \in T
    <3>1. <<>> \in Seq(X) /\ Len(<<>>) = 0
      OBVIOUS
    <3> QED BY <1>1, <1>3, <3>1 DEF Picked
  <2>2. ASSUME NEW k \in 0 .. n - 1, k \in T PROVE k + 1 \in T
    <3>1. k + 1 \in 0 .. n
      BY <1>1
    <3>2. Picked(g[k + 1], k + 1, X)
      BY <2>2, <1>4
    <3> QED BY <3>1, <3>2
  <2> HIDE DEF T
  <2> QED BY <1>1, <2>1, <2>2, IntervalInduction
<1>6. \A k \in 1 .. n : g[k] = Append(g[k - 1], Free(g[k - 1]))
  <2> SUFFICES ASSUME NEW k \in 1 .. n PROVE g[k] = Append(g[k - 1], Free(g[k - 1]))
    OBVIOUS
  <2>1. k - 1 \in 0 .. n - 1 /\ k - 1 \in 0 .. n /\ (k - 1) + 1 = k
    BY <1>1
  <2>2. Picked(g[k - 1], k - 1, X)
    BY <2>1, <1>5
  <2> HIDE DEF Free
  <2>3. g[(k - 1) + 1] = Append(g[k - 1], Free(g[k - 1]))
    BY <2>1, <2>2, <1>4
  <2> QED BY <2>1, <2>3
<1>7. Is(g)
  <2> HIDE DEF Free
  <2>1. g = [k \in 0 .. n |-> g[k]]
    BY <1>3
  <2>2. \A k \in 0 .. n : g[k] = IF k = 0 THEN <<>> ELSE Append(g[k - 1], Free(g[k - 1]))
    BY <1>1, <1>3, <1>6
  <2> QED BY <2>1, <2>2
<1>8. Is(list)
  <2> HIDE DEF Is
  <2> QED BY <1>7
<1>9. Listed(X) = list[n]
  BY DEF Listed
<1> HIDE DEF list
<1>10. /\ list[0] = <<>> /\ DOMAIN list = 0 .. n
       /\ \A k \in 1 .. n : list[k] = Append(list[k - 1], Free(list[k - 1]))
  <2> HIDE DEF Free
  <2>1. list = [k \in 0 .. n |-> IF k = 0 THEN <<>> ELSE Append(list[k - 1], Free(list[k - 1]))]
    BY <1>8
  <2>2. DOMAIN list = 0 .. n
    BY <2>1, Zenon
  <2>3. ASSUME NEW k \in 0 .. n
        PROVE  list[k] = IF k = 0 THEN <<>> ELSE Append(list[k - 1], Free(list[k - 1]))
    BY <2>1, Zenon
  <2> QED BY <1>1, <2>2, <2>3
<1> DEFINE U == {k \in 0 .. n : list[k] = g[k]}
<1>11. 0 .. n \subseteq U
  <2>1. 0 \in U
    BY <1>1, <1>3, <1>10
  <2>2. ASSUME NEW k \in 0 .. n - 1, k \in U PROVE k + 1 \in U
    <3>1. k + 1 \in 1 .. n /\ k + 1 \in 0 .. n /\ (k + 1) - 1 = k /\ k \in 0 .. n
      BY <1>1
    <3> HIDE DEF Free
    <3>2. list[k + 1] = Append(list[k], Free(list[k])) /\ g[k + 1] = Append(g[k], Free(g[k]))
      BY <3>1, <1>6, <1>10
    <3> QED BY <3>1, <3>2, <2>2
  <2> HIDE DEF U
  <2> QED BY <1>1, <2>1, <2>2, IntervalInduction
<1>12. n \in 0 .. n
  BY <1>1
<1>13. Picked(list[n], n, X)
  BY <1>5, <1>11, <1>12
<1>14. list[n] \in [1 .. n -> X] /\ \A i, j \in 1 .. n : list[n][i] = list[n][j] => i = j
  BY <1>13 DEF Picked
<1>15. Lists(list[n], n, X)
  BY <1>14, ListsAll
<1> QED BY <1>9, <1>15

\* Smaller numbers add up to less.
LEMMA TotalMonotone ==
    ASSUME NEW ns \in Seq(Nat), NEW ms \in Seq(Nat), Len(ms) = Len(ns),
           \A i \in 1 .. Len(ns) : ms[i] <= ns[i]
    PROVE  Total(ms) <= Total(ns)
<1> DEFINE n == Len(ns)
<1>1. PICK g \in [0 .. n -> Nat] :
        /\ g[0] = 0 /\ \A k \in 1 .. n : g[k] = g[k - 1] + ns[k]
        /\ Total(ns) = g[n]
  BY TotalRun
<1>2. PICK h \in [0 .. n -> Nat] :
        /\ h[0] = 0 /\ \A k \in 1 .. n : h[k] = h[k - 1] + ms[k]
        /\ Total(ms) = h[n]
  <2>1. PICK h \in [0 .. Len(ms) -> Nat] :
          /\ h[0] = 0 /\ \A k \in 1 .. Len(ms) : h[k] = h[k - 1] + ms[k]
          /\ Total(ms) = h[Len(ms)]
    BY TotalRun
  <2> QED BY <2>1
<1> DEFINE T == {k \in 0 .. n : h[k] <= g[k]}
<1>3. 0 \in T
  BY <1>1, <1>2
<1>4. ASSUME NEW k \in 0 .. n - 1, k \in T PROVE k + 1 \in T
  <2>1. k + 1 \in 1 .. n /\ k + 1 \in 0 .. n /\ (k + 1) - 1 = k /\ k \in 0 .. n
    OBVIOUS
  <2>2. g[k + 1] = g[k] + ns[k + 1] /\ h[k + 1] = h[k] + ms[k + 1]
    BY <1>1, <1>2, <2>1
  <2>3. g[k] \in Nat /\ h[k] \in Nat /\ ns[k + 1] \in Nat /\ ms[k + 1] \in Nat
        /\ h[k] <= g[k] /\ ms[k + 1] <= ns[k + 1]
    <3>1. g[k] \in Nat /\ h[k] \in Nat
      BY <1>1, <1>2, <2>1
    <3>2. ns[k + 1] \in Nat /\ ms[k + 1] \in Nat
      <4>1. k + 1 \in 1 .. Len(ns) /\ k + 1 \in 1 .. Len(ms)
        BY <2>1
      <4> QED BY <4>1
    <3>3. h[k] <= g[k]
      BY <1>4
    <3>4. ms[k + 1] <= ns[k + 1]
      BY <2>1
    <3> QED BY <3>1, <3>2, <3>3, <3>4
  <2> QED BY <2>1, <2>2, <2>3
<1>5. n \in T
  <2>1. n \in Nat /\ n \in 0 .. n
    OBVIOUS
  <2> HIDE DEF T, n
  <2>2. 0 .. n \subseteq T
    BY <1>3, <1>4, <2>1, IntervalInduction
  <2> QED BY <2>1, <2>2
<1> QED BY <1>1, <1>2, <1>5

LEMMA WeightMonotone ==
    ASSUME NEW S, NEW f \in [S -> Nat], NEW g \in [S -> Nat], NEW q \in Seq(S),
           \A x \in S : g[x] <= f[x]
    PROVE  Weight(g, q) <= Weight(f, q)
<1>1. IsWeighed(f, q) /\ IsWeighed(g, q)
  BY WeighedAll
<1> DEFINE a == Weigh(f, q)
           b == Weigh(g, q)
<1>2. a \in Seq(Nat) /\ Len(a) = Len(q) /\ b \in Seq(Nat) /\ Len(b) = Len(q)
      /\ (\A i \in 1 .. Len(q) : a[i] = f[q[i]]) /\ \A i \in 1 .. Len(q) : b[i] = g[q[i]]
  BY <1>1, Zenon DEF IsWeighed
<1> HIDE DEF a, b
<1>3. \A i \in 1 .. Len(q) : q[i] \in S
  OBVIOUS
<1>4. \A i \in 1 .. Len(a) : b[i] <= a[i]
  BY <1>2, <1>3
<1>5. Total(b) <= Total(a)
  BY <1>2, <1>4, TotalMonotone
<1> QED BY <1>5 DEF Weight, a, b

\* What a member weighs is all that counts.
LEMMA WeightAgrees ==
    ASSUME NEW S, NEW q \in Seq(S), NEW f, NEW g, \A x \in S : g[x] = f[x]
    PROVE  Weight(g, q) = Weight(f, q)
<1>1. \A i \in DOMAIN q : q[i] \in S
  OBVIOUS
<1>2. Weigh(g, q) = Weigh(f, q)
  BY <1>1 DEF Weigh
<1> QED BY <1>2 DEF Weight

-----------------------------------------------------------------------------
(* Sums over a finite set.                                                 *)

\* The order in which the domain is listed does not matter.
LEMMA SumOfList ==
    ASSUME NEW X, NEW f \in [X -> Nat], NEW n \in Nat, NEW q, Lists(q, n, X)
    PROVE  SumOf(f) = Weight(f, q) /\ SumOf(f) \in Nat
<1> DEFINE p == Listed(X)
<1>1. IsFiniteSet(X) /\ Cardinality(X) = n
  BY ListsSize
<1>2. Lists(p, n, X)
  BY <1>1, ListedLists
<1>3. SumOf(f) = Weight(f, p)
  <2>1. DOMAIN f = X
    OBVIOUS
  <2> QED BY <2>1 DEF SumOf, Weight, Weigh
<1> HIDE DEF p
<1>4. Weight(f, p) = Weight(f, q)
  <2>1. X \in SUBSET X
    OBVIOUS
  <2> QED BY <1>2, <2>1, WeightOfLists
<1>5. p \in Seq(X)
  <2>1. p \in [1 .. n -> X]
    BY <1>2 DEF Lists
  <2> QED BY <2>1
<1>6. Weight(f, p) \in Nat
  BY <1>5, WeighType
<1> QED BY <1>3, <1>4, <1>6

\* A function on part of its domain.
Narrowed(f, Y) == [y \in Y |-> f[y]]

\* The sum over a set is that over any part of it and over the rest.
LEMMA SumOfSplit ==
    ASSUME NEW X, IsFiniteSet(X), NEW f \in [X -> Nat], NEW Y \in SUBSET X
    PROVE  /\ SumOf(f) = SumOf(Narrowed(f, Y)) + SumOf(Narrowed(f, X \ Y))
           /\ SumOf(f) \in Nat /\ SumOf(Narrowed(f, Y)) \in Nat /\ SumOf(Narrowed(f, X \ Y)) \in Nat
<1> DEFINE Z == X \ Y
           n == Cardinality(Y)
           m == Cardinality(Z)
           q == Listed(Y)
           p == Listed(Z)
           fY == Narrowed(f, Y)
           fZ == Narrowed(f, Z)
<1>1. IsFiniteSet(Y) /\ IsFiniteSet(Z)
  BY FS_Subset
<1>2. Lists(q, n, Y) /\ Lists(p, m, Z) /\ n \in Nat /\ m \in Nat
  BY <1>1, ListedLists, FS_CardinalityType
<1>3. Y \cup Z = X /\ Y \cap Z = {} /\ Z \in SUBSET X
  OBVIOUS
<1>4. /\ fY \in [Y -> Nat] /\ \A y \in Y : fY[y] = f[y]
      /\ fZ \in [Z -> Nat] /\ \A y \in Z : fZ[y] = f[y]
  BY DEF Narrowed
<1> HIDE DEF Z, n, m, q, p, fY, fZ
<1>5. Lists(q \o p, n + m, X)
  BY <1>2, <1>3, ListsConcat
<1>6. q \in Seq(Y) /\ p \in Seq(Z) /\ q \in Seq(X) /\ p \in Seq(X)
  <2>1. q \in [1 .. n -> Y] /\ p \in [1 .. m -> Z]
    BY <1>2 DEF Lists
  <2>2. q \in [1 .. n -> X] /\ p \in [1 .. m -> X]
    BY <2>1, <1>3
  <2> QED BY <2>1, <2>2, <1>2
<1>7. SumOf(f) = Weight(f, q \o p) /\ SumOf(f) \in Nat
  <2>1. n + m \in Nat
    BY <1>2
  <2> QED BY <1>5, <2>1, SumOfList
<1>8. SumOf(fY) = Weight(fY, q) /\ SumOf(fY) \in Nat
  BY <1>2, <1>4, SumOfList
<1>9. SumOf(fZ) = Weight(fZ, p) /\ SumOf(fZ) \in Nat
  BY <1>2, <1>4, SumOfList
<1>10. Weight(f, q \o p) = Weight(f, q) + Weight(f, p)
  BY <1>6, WeightConcat
<1>11. Weight(fY, q) = Weight(f, q) /\ Weight(fZ, p) = Weight(f, p)
  <2>1. \A y \in Y : fY[y] = f[y]
    BY <1>4
  <2>2. \A y \in Z : fZ[y] = f[y]
    BY <1>4
  <2>3. Weight(fY, q) = Weight(f, q)
    <3>1. q \in Seq(Y)
      BY <1>6
    <3> QED BY <3>1, <2>1, WeightAgrees
  <2>4. Weight(fZ, p) = Weight(f, p)
    <3>1. p \in Seq(Z)
      BY <1>6
    <3> QED BY <3>1, <2>2, WeightAgrees
  <2> QED BY <2>3, <2>4
<1>12. SumOf(f) = SumOf(fY) + SumOf(fZ)
  BY <1>7, <1>8, <1>9, <1>10, <1>11
<1> QED BY <1>7, <1>8, <1>9, <1>12 DEF fY, fZ, Z

\* The sum over one member, and over none.
LEMMA SumOfOne ==
    ASSUME NEW x, NEW f \in [{x} -> Nat]
    PROVE  SumOf(f) = f[x]
<1> DEFINE q == <<x>>
<1>1. Lists(q, 1, {x})
  BY DEF Lists
<1>2. f[x] \in Nat /\ q \in Seq({x}) /\ q = Append(<<>>, x) /\ <<>> \in Seq({x}) /\ x \in {x}
  OBVIOUS
<1>3. SumOf(f) = Weight(f, q)
  <2> HIDE DEF q
  <2> QED BY <1>1, SumOfList
<1>4. Weight(f, Append(<<>>, x)) = Weight(f, <<>>) + f[x]
  BY <1>2, WeightAppend
<1> HIDE DEF q
<1> QED BY <1>2, <1>3, <1>4, WeightEmpty

LEMMA SumOfNone ==
    ASSUME NEW f \in [{} -> Nat]
    PROVE  SumOf(f) = 0
<1>1. Lists(<<>>, 0, {})
  BY DEF Lists
<1>2. SumOf(f) = Weight(f, <<>>)
  BY <1>1, SumOfList
<1> QED BY <1>2, WeightEmpty

LEMMA SumOfMonotone ==
    ASSUME NEW X, IsFiniteSet(X), NEW f \in [X -> Nat], NEW g \in [X -> Nat],
           \A x \in X : g[x] <= f[x]
    PROVE  SumOf(g) <= SumOf(f)
<1> DEFINE n == Cardinality(X)
           q == Listed(X)
<1>1. Lists(q, n, X) /\ n \in Nat
  BY ListedLists, FS_CardinalityType
<1> HIDE DEF n, q
<1>2. q \in Seq(X)
  <2>1. q \in [1 .. n -> X]
    BY <1>1 DEF Lists
  <2> QED BY <2>1, <1>1
<1>3. SumOf(f) = Weight(f, q) /\ SumOf(g) = Weight(g, q)
  BY <1>1, SumOfList
<1> QED BY <1>2, <1>3, WeightMonotone

\* A sum grows by no more than its one new or larger term does.
LEMMA SumOfGrows ==
    ASSUME NEW X, IsFiniteSet(X), NEW f \in [X -> Nat], NEW x, NEW d \in Nat,
           NEW Y, Y \subseteq X \cup {x}, NEW g \in [Y -> Nat],
           \A y \in Y \ {x} : g[y] <= f[y],
           x \in Y => g[x] <= d + (IF x \in X THEN f[x] ELSE 0)
    PROVE  SumOf(g) <= SumOf(f) + d /\ SumOf(g) \in Nat /\ SumOf(f) \in Nat
<1> DEFINE Z  == Y \ {x}
           U  == X \ {x}
           gZ == Narrowed(g, Z)
           fU == Narrowed(f, U)
           fZ == Narrowed(fU, Z)
           e  == SumOf(Narrowed(f, X \cap {x}))
           k  == SumOf(Narrowed(g, Y \cap {x}))
           sf == SumOf(f)
           sg == SumOf(g)
           sZ == SumOf(gZ)
           sU == SumOf(fU)
           rU == SumOf(Narrowed(fU, U \ Z))
           tZ == SumOf(fZ)
<1>1. IsFiniteSet(Y) /\ IsFiniteSet(Z) /\ IsFiniteSet(U)
  <2>1. IsFiniteSet(X \cup {x})
    BY FS_AddElement
  <2>2. IsFiniteSet(Y)
    BY <2>1, FS_Subset
  <2> QED BY <2>2, FS_Subset
<1>2. Z \in SUBSET Y /\ Y \ Z = Y \cap {x} /\ U \in SUBSET X /\ X \ U = X \cap {x} /\ Z \in SUBSET U
  OBVIOUS
<1>3. fU \in [U -> Nat] /\ (\A y \in U : fU[y] = f[y]) /\ gZ \in [Z -> Nat] /\ \A y \in Z : gZ[y] = g[y]
  BY DEF Narrowed
<1>4. fZ \in [Z -> Nat] /\ \A y \in Z : fZ[y] = f[y]
  <2> HIDE DEF fU
  <2> QED BY <1>2, <1>3 DEF Narrowed
<1>5. sg = sZ + k /\ sg \in Nat /\ sZ \in Nat /\ k \in Nat
  <2> HIDE DEF Z
  <2> QED BY <1>1, <1>2, SumOfSplit
<1>6. sf = sU + e /\ sf \in Nat /\ sU \in Nat /\ e \in Nat
  <2>1. SumOf(f) = SumOf(Narrowed(f, U)) + SumOf(Narrowed(f, X \ U))
        /\ SumOf(f) \in Nat /\ SumOf(Narrowed(f, U)) \in Nat /\ SumOf(Narrowed(f, X \ U)) \in Nat
    <3>1. U \in SUBSET X
      BY <1>2
    <3> HIDE DEF U
    <3> QED BY <3>1, SumOfSplit
  <2> QED BY <2>1, <1>2
<1>7. sU = tZ + rU /\ tZ \in Nat /\ rU \in Nat
  <2> HIDE DEF U, Z, fU
  <2> QED BY <1>1, <1>2, <1>3, SumOfSplit
<1>8. sZ <= tZ
  <2>1. \A y \in Z : gZ[y] <= fZ[y]
    BY <1>3, <1>4
  <2> HIDE DEF Z, gZ, fZ
  <2> QED BY <1>1, <1>3, <1>4, <2>1, SumOfMonotone
<1>9. e = IF x \in X THEN f[x] ELSE 0
  <2>1. CASE x \in X
    <3>1. X \cap {x} = {x} /\ Narrowed(f, {x}) \in [{x} -> Nat] /\ Narrowed(f, {x})[x] = f[x]
      BY <2>1 DEF Narrowed
    <3>2. SumOf(Narrowed(f, {x})) = Narrowed(f, {x})[x]
      BY <3>1, SumOfOne
    <3> QED BY <2>1, <3>1, <3>2
  <2>2. CASE x \notin X
    <3>1. X \cap {x} = {} /\ Narrowed(f, {}) \in [{} -> Nat]
      BY <2>2 DEF Narrowed
    <3>2. SumOf(Narrowed(f, {})) = 0
      BY <3>1, SumOfNone
    <3> QED BY <2>2, <3>1, <3>2
  <2> QED BY <2>1, <2>2
<1>10. k = IF x \in Y THEN g[x] ELSE 0
  <2>1. CASE x \in Y
    <3>1. Y \cap {x} = {x} /\ Narrowed(g, {x}) \in [{x} -> Nat] /\ Narrowed(g, {x})[x] = g[x]
      BY <2>1 DEF Narrowed
    <3>2. SumOf(Narrowed(g, {x})) = Narrowed(g, {x})[x]
      BY <3>1, SumOfOne
    <3> QED BY <2>1, <3>1, <3>2
  <2>2. CASE x \notin Y
    <3>1. Y \cap {x} = {} /\ Narrowed(g, {}) \in [{} -> Nat]
      BY <2>2 DEF Narrowed
    <3>2. SumOf(Narrowed(g, {})) = 0
      BY <3>1, SumOfNone
    <3> QED BY <2>2, <3>1, <3>2
  <2> QED BY <2>1, <2>2
<1> HIDE DEF e, k, sf, sg, sZ, sU, rU, tZ
<1>11. k <= d + e
  BY <1>5, <1>6, <1>9, <1>10
<1>12. sg <= sf + d
  BY <1>5, <1>6, <1>7, <1>8, <1>11
<1> QED BY <1>5, <1>6, <1>12 DEF sg, sf

\* Nothing adds up to nothing.
LEMMA SumOfZero ==
    ASSUME NEW X, IsFiniteSet(X), NEW f \in [X -> Nat], \A x \in X : f[x] = 0
    PROVE  SumOf(f) = 0
<1> DEFINE q == Listed(X)
           n == Cardinality(X)
<1>1. Lists(q, n, X) /\ n \in Nat
  BY ListedLists, FS_CardinalityType
<1> HIDE DEF q, n
<1>2. q \in Seq(X) /\ Len(q) = n /\ \A k \in 1 .. n : f[q[k]] = 0
  <2>1. q \in [1 .. n -> X]
    BY <1>1 DEF Lists
  <2>2. q \in Seq(X) /\ Len(q) = n
    BY <2>1, <1>1
  <2> QED BY <2>1, <2>2
<1>3. SumOf(f) = Weight(f, q)
  BY <1>1, SumOfList
<1>4. PICK g \in [0 .. Len(q) -> Nat] :
        /\ g[0] = 0 /\ \A k \in 1 .. Len(q) : g[k] = g[k - 1] + f[q[k]]
        /\ Weight(f, q) = g[Len(q)]
  BY <1>2, WeightRun
<1> DEFINE T == {k \in 0 .. n : g[k] = 0}
<1>5. ASSUME NEW k \in 0 .. n - 1, k \in T PROVE k + 1 \in T
  <2>1. k + 1 \in 1 .. n /\ k + 1 \in 0 .. n /\ (k + 1) - 1 = k
    BY <1>1
  <2>2. g[k + 1] = g[k] + f[q[k + 1]] /\ f[q[k + 1]] = 0
    BY <1>2, <1>4, <2>1
  <2> QED BY <1>5, <2>1, <2>2
<1>6. n \in T
  <2>1. 0 \in T
    BY <1>1, <1>4
  <2> HIDE DEF T
  <2>2. 0 .. n \subseteq T
    BY <1>1, <1>5, <2>1, IntervalInduction
  <2> QED BY <1>1, <2>2
<1> QED BY <1>2, <1>3, <1>4, <1>6
=============================================================================

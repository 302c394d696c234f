-------------------------------- MODULE Totals --------------------------------
(***************************************************************************)
(* What the numbers of a sequence, or the values of a function, add up to: *)
(* Iterator::sum.  Recursive functions rather than folds, which is what    *)
(* lets the proofs reason about them (DataLemmas).                         *)
(***************************************************************************)
EXTENDS Integers, Sequences, FiniteSets

Total(ns) ==
    LET sum[k \in 0 .. Len(ns)] == IF k = 0 THEN 0 ELSE sum[k - 1] + ns[k]
    IN  sum[Len(ns)]

\* The members of a finite set, in some order.
Listed(X) ==
    LET list[k \in 0 .. Cardinality(X)] ==
          IF k = 0 THEN <<>>
          ELSE LET s == list[k - 1]
               IN  Append(s, CHOOSE x \in X : \A i \in DOMAIN s : s[i] # x)
    IN  list[Cardinality(X)]

\* The sum of a function's values over its finite domain.
SumOf(f) == LET q == Listed(DOMAIN f) IN Total([i \in DOMAIN q |-> f[q[i]]])
=============================================================================

---------------------------- MODULE MCLiveWatch ----------------------------
(* TLC instances of LiveWatch.                                             *)
EXTENDS LiveWatch, TLC

CONSTANTS f1, f2, c1, c2

MCDirOf == [f \in Files |-> "d"]
TextsAppend == {<<"a">>, <<"a", "b">>}
TextsMixed == {<<"a">>, <<"a", "b">>, <<"b">>}
TextsLong == {<<"a">>, <<"a", "b", "b">>, <<"a", "b", "b", "c">>}
OneRegion == [r \in {"wide"} |-> 4]
\* How often f1 is written; another file stays as it was (or is removed).
Writes(n) == [f \in Files |-> IF f = f1 THEN n ELSE 1]
WritesTwo == Writes(2)
WritesThree == Writes(3)
ConnSymmetry == Permutations(Conns)
NarrowRegion == [r \in {"narrow"} |-> 1]
=============================================================================

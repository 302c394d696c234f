----------------------------- MODULE MCAtpLink -----------------------------
(* Instances of AtpLink for TLC: the origins, regions and bounds are given *)
(* by the .cfg files.                                                      *)
EXTENDS AtpLink, TLC

\* Region names are interchangeable.
Symmetry == Permutations(Regions)
=============================================================================

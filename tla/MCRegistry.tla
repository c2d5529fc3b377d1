----------------------------- MODULE MCRegistry -----------------------------
(* The registry with one purpose, two versions of a notice, one processor,   *)
(* one source, two sites and two handlers.                                   *)
EXTENDS Registry, TLC

CONSTANTS w1, w2, survey, v1, v2, lab, rig, north, south

TwoWorkers == {w1, w2}
OnePurpose == {survey}
TwoNotices == {v1, v2}
OneProcessor == {lab}
OneSource == {rig}
TwoSites == {north, south}
Symmetry ==
  Permutations(TwoWorkers) \cup Permutations(TwoNotices) \cup Permutations(TwoSites)
=============================================================================

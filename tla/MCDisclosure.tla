---------------------------- MODULE MCDisclosure ----------------------------
(* Disclosure with two people who may have one name, one link, one export  *)
(* and two handlers.                                                         *)
EXTENDS Disclosure, TLC

CONSTANTS w1, w2, ann, ben, l1, e1

TwoWorkers == {w1, w2}
MCPeople == {ann, ben}
MCNames == {1, 2}
MCLinks == {l1}
OneExport == {e1}
Symmetry == Permutations(TwoWorkers)
=============================================================================

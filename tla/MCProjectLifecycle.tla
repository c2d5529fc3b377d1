------------------------- MODULE MCProjectLifecycle -------------------------
(* ProjectLifecycle with two request handlers on the notices of one project. *)
EXTENDS ProjectLifecycle, TLC

CONSTANTS w1, w2, n1, n2, n3, ntc, english, core, wording, rewording

MCWorkers == {w1, w2}
ThreeNotices == {n1, n2, n3}
MCCodes == {ntc}
OneLanguage == {english}
MCPurposes == {core}
TwoTexts == {wording, rewording}
Symmetry ==
  Permutations(MCWorkers) \cup Permutations(ThreeNotices) \cup Permutations(TwoTexts)
=============================================================================

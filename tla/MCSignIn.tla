------------------------------ MODULE MCSignIn ------------------------------
(* SignIn with two request handlers and up to two sessions of one account of *)
(* the staff, whose role does or does not need a second factor.              *)
EXTENDS SignIn, TLC

CONSTANTS w1, w2, t1, t2, dpo, rnd

MCWorkers == {w1, w2}
MCTokens == {t1, t2}
MCRoles == {dpo, rnd}
MCMfaRoles == {dpo}
Symmetry == Permutations(MCWorkers) \cup Permutations(MCTokens)
=============================================================================

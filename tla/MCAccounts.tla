----------------------------- MODULE MCAccounts -----------------------------
(* An account with one login name and two passwords, three handlers, and     *)
(* lockout at the third failure.                                             *)
EXTENDS Accounts, TLC

CONSTANTS w1, w2, w3, email, old, new

ThreeWorkers == {w1, w2, w3}
OneName == {email}
TwoPasswords == {old, new}
Symmetry == Permutations(ThreeWorkers) \cup Permutations(TwoPasswords)
=============================================================================

SPECIFICATION Spec
CONSTANTS
  w1 = w1
  w2 = w2
  t1 = t1
  t2 = t2
  dpo = dpo
  rnd = rnd
  Workers <- MCWorkers
  Tokens <- MCTokens
  Roles <- MCRoles
  StaffRoles <- MCRoles
  MfaRoles <- MCMfaRoles
  MaxAttempts = 2
  MaxCodes = 2
  MaxMinted = 3
  MaxGuesses = 2
INVARIANTS SecondFactor GuessesCounted LiveIsIndexed
PROPERTY EndedStaysEnded
SYMMETRY Symmetry

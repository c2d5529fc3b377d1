SPECIFICATION AccountsSpec
CONSTANTS
  w1 = w1
  w2 = w2
  w3 = w3
  email = email
  old = old
  new = new
  Handlers <- ThreeWorkers
  Names <- OneName
  Passwords <- TwoPasswords
  LoginMaxAttempts = 3
  Quota = 1
INVARIANTS AccountsTypeOK LockoutCounts
SYMMETRY Symmetry

SPECIFICATION Spec
CONSTANTS
  s1 = s1
  s2 = s2
  Sessions <- TwoSessions
  Addresses <- TwoAddresses
  Google = "google"
  MaxGuesses = 1
  MaxOpen = 2
  MaxCalls = 0
  Settings <- SecurityAction
  MaxBeside = 1
  CodeSet = 1
  Faults = FALSE
SYMMETRY AnySessions
INVARIANT CodesNeedAuthenticator
CHECK_DEADLOCK FALSE

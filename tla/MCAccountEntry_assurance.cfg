SPECIFICATION Spec
CONSTANTS
  s1 = s1
  s2 = s2
  Sessions <- TwoSessions
  Addresses <- TwoAddresses
  Google = "google"
  MaxGuesses = 1
  MaxOpen = 2
  MaxBeside = 0
  MaxCalls = 1
  Settings <- OnlyAuthenticator
  CodeSet = 1
  Faults = FALSE
SYMMETRY AnySessions
PROPERTY EmailChangeShowsAuthenticator
CHECK_DEADLOCK FALSE

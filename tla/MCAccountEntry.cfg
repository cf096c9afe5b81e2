SPECIFICATION Spec
CONSTANTS
  s1 = s1
  s2 = s2
  Sessions <- TwoSessions
  Addresses <- TwoAddresses
  Google = "google"
  MaxGuesses = 1
  MaxOpen = 2
  MaxBeside = 1
  MaxCalls = 2
  Settings <- SecurityAction
  CodeSet = 1
  Faults = TRUE
CONSTRAINT AddressAlone
SYMMETRY AnySessions
INVARIANTS
  TypeOK
  
  PagesAgreeWithHandlers
PROPERTIES
  AuthenticatorGuardsChanges
  GoogleIsLinkedOnPurpose
CHECK_DEADLOCK FALSE

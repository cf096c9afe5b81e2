SPECIFICATION LoggedInSpec
CONSTANTS
  Browsers <- ThreeBrowsers
  MaxRefresh = 1
  MaxAttempts = 1
INVARIANTS
  TypeOK
  ServedTokensAreCurrent
PROPERTIES
  CancelledNeverSignsIn
  NothingIsForgotten
  LiveLoginSurvives
  EndedLoginsAreReleased
CHECK_DEADLOCK FALSE

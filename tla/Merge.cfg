SPECIFICATION FairSpec
CONSTANTS
  a = a
  b = b
  none = none
  Texts <- MCTexts
  Sides <- MCSides
  NoPath <- MCNoPath
  MaxDisturbs = 1
  MaxOpens = 1
  MaxReloads = 1
  MaxChecks = 2
  MaxTries = 2
INVARIANT OneSession
PROPERTIES Guarded KeepsDecisions Settles
CHECK_DEADLOCK FALSE

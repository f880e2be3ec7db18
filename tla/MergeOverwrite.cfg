SPECIFICATION Spec
CONSTANTS
  a = a
  b = b
  none = none
  Texts <- MCTexts
  Sides <- MCSides
  NoPath <- MCNoPath
  MaxDisturbs = 2
  MaxOpens = 1
  MaxReloads = 0
  MaxChecks = 2
  MaxTries = 1
PROPERTY RefusesMoved
CHECK_DEADLOCK FALSE

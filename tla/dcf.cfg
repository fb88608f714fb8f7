SPECIFICATION Spec
CONSTANTS
  Phases <- EachPhase
  Starts <- BothStarts
  NoisySeconds <- EachField
  MaxFlips = 1
  MaxLost = 1
  MaxExtra = 1
  MaxMinutes = 4
INVARIANTS
  TypeOK
  ClockFollows
PROPERTIES
  TakenIsPresent
  CleanMinuteSets
CHECK_DEADLOCK FALSE

SPECIFICATION Spec
CONSTANTS
  HttpCommands <- SomeHttp
  Attempts = 2
  TimeTries = 1
  EspTries = 3
  MaxRequests = 2
  MaxPresses = 1
  WireMax = 2
INVARIANTS
  TypeOK
  ExecutedWasSent
  OkEarned
PROPERTIES
  OkMeansWanted

SPECIFICATION Spec
CONSTANTS
  SEC = 3
  MIN = 2
  HRS = 2
  NoOpen = 3
  Erased = 9
  OpenTimes <- SomeOpenTimes
  MaxSyncs = 2
  MaxLag = 1
  TicksInside = 1
INVARIANTS
  TypeOK
  SyncNeverAhead
PROPERTIES
  MorningNotMissed
  AlarmOncePerDay
  DisabledNeverFires

SPECIFICATION Spec
CONSTANTS
  INPUT_VALID_COUNT = 0
  CountMod = 2
  SLIDER_DOWN_TIME = 1
  SLIDER_UP_TIME_MAX = 5
  TIME_UPDATE_INTERVAL = 1
  TIME_UPDATE_MAXAGE = 1
  MAX_WAKE_TIME = 1
  TimeTries = 2
  EspTries = 3
  BlockTicks = 1
  DoorTravel = 1
  Alarms = {TRUE, FALSE}
  ButtonInputs <- AllButtons
  Commands <- NoCommands
  TornReads = TRUE
INVARIANTS
  TypeOK
  SleepQuiet
  DriveInv
PROPERTIES
  NoUpDownReversal
  DriveSpec

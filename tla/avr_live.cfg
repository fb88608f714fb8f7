SPECIFICATION FairSpec
CONSTANTS
  INPUT_VALID_COUNT = 0
  CountMod = 2
  SLIDER_DOWN_TIME = 1
  SLIDER_UP_TIME_MAX = 5
  TIME_UPDATE_INTERVAL = 1
  TIME_UPDATE_MAXAGE = 1
  MAX_WAKE_TIME = 1
  TimeTries = 1
  EspTries = 2
  BlockTicks = 1
  DoorTravel = 1
  Alarms = {TRUE, FALSE}
  ButtonInputs <- AllButtons
  Commands <- NoCommands
  TornReads = FALSE
PROPERTIES
  MoveCompletes
  SleepsWhenLeftAlone
  WakesUp

SPECIFICATION FairSpec
CONSTANTS
  INPUT_VALID_COUNT = 0
  CountMod = 2
  SLIDER_DOWN_TIME = 1
  SLIDER_UP_TIME_MAX = 5
  TIME_UPDATE_INTERVAL = 2
  TIME_UPDATE_MAXAGE = 2
  MAX_WAKE_TIME = 3
  TimeTries = 2
  EspTries = 3
  BlockTicks = 1
  DoorTravel = 1
  Alarms = {TRUE, FALSE}
  ButtonInputs <- EitherButton
  Commands <- NoCommands
  TornReads = FALSE
PROPERTIES
  AlarmOpens

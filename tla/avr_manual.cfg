SPECIFICATION Spec
CONSTANTS
  INPUT_VALID_COUNT = 0
  CountMod = 2
  SLIDER_DOWN_TIME = 2
  SLIDER_UP_TIME_MAX = 5
  TIME_UPDATE_INTERVAL = 1
  TIME_UPDATE_MAXAGE = 1
  MAX_WAKE_TIME = 1
  TimeTries = 2
  EspTries = 3
  BlockTicks = 1
  DoorTravel = 2
  Alarms = {FALSE}
  ButtonInputs <- AllButtons
  Commands <- AllCommands
  TornReads = TRUE
INVARIANTS
  IdleWhenAsleep
  LoweringBounded
PROPERTIES
  NoDownUpReversal
  OpensFully
  ClosesFully
  MotorStartsWithEspOff

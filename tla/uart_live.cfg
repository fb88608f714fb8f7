SPECIFICATION FairSpec
CONSTANTS
  HttpCommands <- SliderHttp
  Attempts = 2
  TimeTries = 1
  EspTries = 3
  MaxRequests = 1
  MaxPresses = 1
  WireMax = 1
PROPERTIES
  EspComesBack

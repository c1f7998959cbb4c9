CONSTANTS
  Slots = {1, 2}
  Requests = {r1, r2}
  Nil = Nil
  ReliableTimeout = 14
  Interval = 6
  IdleLimit = 33
  MinFrames = 2
  Pace = 2
  FramedWait = 2
  RttLow = 1
  RttHigh = 2
  RttInit = 1
  Growth = 2
  Delay = 1
  MaxTries = 1
  MaxQueue = 2
SPECIFICATION TimingSpec
 
PROPERTIES KeepalivesPatient

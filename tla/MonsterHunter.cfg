CONSTANTS
  Sessions = {s1, s2, s3}
  Lobbies = {1}
  MaxRoomId = 2
  Capacities = {2}
  Rules = {"t1", "quest", "started"}
  MaxRooms = 1
  AreaCapacity = 2
  LandCapacity = 2
  TownsPerCategory = 2
  PageRows = 1
SPECIFICATION Spec
CONSTRAINT ThirdFindsAreaFull
SYMMETRY Symmetry
  
PROPERTIES HunterSteps

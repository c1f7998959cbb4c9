CONSTANTS
  Sessions = {s1, s2, s3}
  Lobbies = {1, 2}
  MaxRoomId = 2
  Capacities = {2}
  Rules = {"open", "closed"}
  MaxRooms = 2
  AreaCapacity = 2
  MaxListedRooms = 1
  PageRows = 1
SPECIFICATION BothSpec
CONSTRAINT TwoAreasOrTwoRooms
SYMMETRY Symmetry
  
PROPERTIES ScenarioHearsNothing

CONSTANTS
  Sessions = {s1, s2, s3}
  Lobbies = {1}
  MaxRoomId = 1
  Capacities = {2, 3}
  Rules = {0}
  MaxRooms = 1
  MoreLobbies = {2, 3}
SPECIFICATION BetaSpec
CONSTRAINT CountsOrRaces
SYMMETRY Symmetry
INVARIANTS  SenderIsAcked CountsAgree
PROPERTIES TransitionIsBarrier

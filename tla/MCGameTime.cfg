SPECIFICATION FairSpec
CONSTANTS
  p1 = p1
  p2 = p2
  PlayerId = {p1}
  VehicleType = {"bike"}
  MCLength = 2
  Place <- MCPlace
  Direction = {"up"}
  ZeroDirection = "up"
  Move <- MCMove
  Speed <- MCSpeed
  Near <- MCNear
  POINT_BOX_VALUE = 100
  points_to_win = 200
  point_box_spawn_period = 2
  Delay = {1, 2, 3}
  Garbage = Garbage
  MaxTicks = 4
  MaxPlayers = 2
INVARIANTS
  SpawnRate
  ScoreTakesTime
PROPERTIES
  GameEnds
  StopReturns

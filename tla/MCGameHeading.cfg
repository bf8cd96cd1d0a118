SPECIFICATION FairSpec
CONSTANTS
  p1 = p1
  PlayerId = {p1}
  VehicleType = {"bike"}
  MCLength = 3
  Place <- MCPlace
  Direction <- MCDirection
  ZeroDirection = 0
  Move <- MCMove
  Speed <- MCSpeed
  Near = {}
  POINT_BOX_VALUE = 100
  points_to_win = 100
  point_box_spawn_period = 1
  Delay = {1}
  Garbage = Garbage
  MaxTicks = 1
  MaxPlayers = 1
PROPERTIES
  ZeroIsNorth

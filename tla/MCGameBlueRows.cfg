SPECIFICATION Spec
CONSTANTS
  p1 = p1
  p2 = p2
  PlayerId = {p1}
  VehicleType = {"bike"}
  MCLength = 2
  Place <- MCPlace
  Direction = {"up"}
  ZeroDirection = "up"
  Move <- MCMove
  Speed <- MCSpeed
  Near <- MCNear
  POINT_BOX_VALUE = 100
  points_to_win = 100
  point_box_spawn_period = 1
  Delay = {2}
  Garbage = Garbage
  MaxTicks = 2
  MaxPlayers = 1
INVARIANTS
  BluePlayersRecorded

SPECIFICATION Spec
CONSTANTS
  p1 = p1
  PlayerId = {p1}
  VehicleType = {"bike"}
  POINT_BOX_COLLECT_DISTANCE = 3
  MetersPerLatitude = 2
  MetersPerLongitude <- MCMetersPerLongitude
  Place <- MCPlace
  Direction = {"up"}
  ZeroDirection = "up"
  Move <- MCMove
  Speed <- MCSpeed
  Near <- MCNear
  POINT_BOX_VALUE = 100
  points_to_win = 200
  StartTeam <- MCStartTeam
  StartBoxes <- MCStartBoxes
CHECK_DEADLOCK FALSE
INVARIANTS
  LoopsComputeMovement
  OrderKept
  NothingCloseLeft
PROPERTIES
  LoopsEnd

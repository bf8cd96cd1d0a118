SPECIFICATION Spec
CONSTANTS
  p1 = p1
  p2 = p2
  PlayerId = {p1, p2}
  VehicleType = {"bike"}
  MCLength = 3
  Place <- MCPlace
  Direction = {"up"}
  ZeroDirection = "up"
  Move <- MCMove
  Speed <- MCSpeed
  Near <- MCNear
  POINT_BOX_VALUE = 100
  points_to_win = 200
  point_box_spawn_period = 1
  Delay = {2}
  Garbage = Garbage
  MaxTicks = 3
  MaxPlayers = 2
SYMMETRY MCSymmetry
INVARIANTS
  TypeOK
  BoxAccounting
  PointsConserved
  DuplicateStands
  StatisticsAgree
  RecordedBeforeStop
PROPERTIES
  NoBoxLeftBehind
  StatusOrder

SPECIFICATION Spec
CONSTANTS
  p1 = p1
  p2 = p2
  PlayerId = {p1}
  VehicleType = {"bike"}
  Place = {"here"}
  Direction = {"ahead"}
  ZeroDirection = "ahead"
  Move <- MCMove
  Speed <- MCSpeed
  Near = {}
  POINT_BOX_VALUE = 100
  points_to_win = 100
  Address = {"nat"}
  Port = {1, 2}
  Sources <- MCSources
  Announcements <- MCOneClient
  MaxAnnounced = 1
  MaxSequence = 1
  MaxRestarts = 0
CHECK_DEADLOCK FALSE
INVARIANTS
  AcceptedInputGiven

SPECIFICATION FairSpec
CONSTANTS
  p1 = p1
  p2 = p2
  PlayerId = {p1, p2}
  VehicleType = {"bike"}
  Place = {"here"}
  Direction = {"ahead"}
  ZeroDirection = "ahead"
  Move <- MCMove
  Speed <- MCSpeed
  Near = {}
  POINT_BOX_VALUE = 100
  points_to_win = 100
  Address = {"nat"}
  Port = {1, 2}
  Sources <- MCSources
  Announcements <- MCAnyList
  MaxAnnounced = 3
  MaxSequence = 2
  MaxRestarts = 1
CHECK_DEADLOCK FALSE
INVARIANTS
  TypeOK
  OneDatagram
  InputAgrees
  ClientsPlay
PROPERTIES
  InputNeverOlder
  AnnouncedServed

SPECIFICATION SmallSpec
CONSTANTS
  Sockets = {s1, s2, s3}
  Accounts = {s1}
  MaxRooms = 2
  MaxIds = 3
  SeatChoices = {2, 3}
  MaxRequests = 1
  MaxDoubled = 0
  NoRoom = NoRoom
  NoSocket = NoSocket
SYMMETRY Alike
CHECK_DEADLOCK FALSE
INVARIANTS
  LobbyTypeOK
  IndexesAgree
  HostIsListed
  AbsenceIsTimed
PROPERTIES
  StartsWithTwo

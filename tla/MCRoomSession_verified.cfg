SPECIFICATION SessionSpec
CONSTANTS
  Conns = {o, g1, g2}
  Owner = o
  ConnectionPoolSize = 1
  RoomIds = {r1}
  MaxMessages = 5
  NoConn = NoConn
  NoBody = NoBody
SYMMETRY GuestSymmetry
VIEW SessionView
CHECK_DEADLOCK FALSE
INVARIANT AcceptedWasVerified

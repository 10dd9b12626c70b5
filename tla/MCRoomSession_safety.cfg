\* An owner and three guests that come and go; five messages: the room, three
\* requests and an answer, or two requests and both answers.
SPECIFICATION SessionSpec
CONSTANTS
  Conns = {o, g1, g2, g3}
  Owner = o
  ConnectionPoolSize = 1
  RoomIds = {r1}
  MaxMessages = 5
  NoConn = NoConn
  NoBody = NoBody
SYMMETRY GuestSymmetry
VIEW SessionView
CHECK_DEADLOCK FALSE
INVARIANTS CrossedOnlyAfterDeparture JoinedIsInRoom OneRequestAtATime

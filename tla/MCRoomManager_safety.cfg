SPECIFICATION Spec
CONSTANTS
  Conns = {c1, c2, c3}
  RoomIds = {r1, r2}
  ConnectionPoolSize = 1
  MaxMessages = 4
  NoConn = NoConn
  NoBody = NoBody
SYMMETRY Symmetry
CHECK_DEADLOCK FALSE
INVARIANTS TypeOK OneRoomPerOwner ReapedLeavesRooms
PROPERTIES RemovedRoomEvicts GuestSlotNotStolen

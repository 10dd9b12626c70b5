\* Two connections and the room manager, three buffers: all of them in use at once.
SPECIFICATION Spec
CONSTANTS
  Containers = {k1, k2, k3}
  Readers = {c1, c2}
  RoomManager = RoomManager
  MaxPayloads = 4
  NoContainer = NoContainer
  Oversize = Oversize
SYMMETRY BufferSymmetry
CHECK_DEADLOCK FALSE
INVARIANTS BuffersAccountedFor HandedOverIntact PayloadAsMeant

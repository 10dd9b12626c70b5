SPECIFICATION Spec
CONSTANTS
  Containers = {k1, k2, k3}
  Readers = {c1, c2}
  RoomManager = RoomManager
  MaxPayloads = 4
  NoContainer = NoContainer
  Oversize = Oversize
SYMMETRY BufferSymmetry
CHECK_DEADLOCK FALSE
INVARIANT NoPayloadWhenNoneMeant

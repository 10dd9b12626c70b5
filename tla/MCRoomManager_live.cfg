\* Two connections and channels that hold both: nobody may hang for ever.
SPECIFICATION FairSpec
CONSTANTS
  Conns = {c1, c2}
  RoomIds = {r1}
  ConnectionPoolSize = 2
  MaxMessages = 3
  NoConn = NoConn
  NoBody = NoBody
CHECK_DEADLOCK FALSE
PROPERTIES EvictedIsReaped MessageIsHandedOver

\* Two connections, channels of one slot: closers block on a full channel.
SPECIFICATION FairSpec
CONSTANTS
  Conns = {c1, c2}
  ConnectionPoolSize = 1
  MaxMessages = 1
  RMThread = RMThread
  StopThread = StopThread
  NoConn = NoConn
CHECK_DEADLOCK FALSE
INVARIANT BlocksOnlyPastPoolSize
PROPERTIES ImplementsClientLink CloseReturnsAnnounced BrokenIsAnnounced StopTerminates

\* Two owner streams, two guests that ask to join, both using id 1, one WRTE.
SPECIFICATION Spec
CONSTANTS
  GuestIds = {1}
  MaxStreams = 2
  MaxSessions = 2
  MaxWrites = 1
  Dispatcher = Dispatcher
CHECK_DEADLOCK FALSE
INVARIANTS OneUnacknowledgedWrite TokenNotLost OneClosePerStream NoDeviceLeak SessionIsolation

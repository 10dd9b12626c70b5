\* One stream, two guests one after the other, one WRTE.
SPECIFICATION FairSpec
CONSTANTS
  GuestIds = {1}
  MaxStreams = 1
  MaxSessions = 2
  MaxWrites = 1
  Dispatcher = Dispatcher
CHECK_DEADLOCK FALSE
PROPERTIES PumpsEnd DeviceEndReachesGuest WriteIsAnswered DepartedGuestIsReleased

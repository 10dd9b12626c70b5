\* Two local connections; after the two answers three messages of either kind.
SPECIFICATION FairSpec
CONSTANTS
  Locals = {c1, c2}
  MaxMessages = 5
  NoLocal = NoLocal
CHECK_DEADLOCK FALSE
INVARIANTS ContainersAccountedFor CleanedUpBeforeClose EndIsShownOnceJoined
PROPERTIES TakenByCurrentRelay LossEndsGuest QuitEnds

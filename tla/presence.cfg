SPECIFICATION PresenceSpec
CONSTANTS
  Sockets = {s1, s2, s3}
  MaxFailures = 1
INVARIANTS
  PresenceInv
PROPERTIES
  DeletesLiveOnlyIfMiscounted
  GoneGoesOffline
CHECK_DEADLOCK FALSE

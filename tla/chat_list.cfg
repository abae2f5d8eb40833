SPECIFICATION ListSpec
CONSTANTS
  None = None
  Convs = {c1, c2}
  Me = Me
  Peer = Peer
  MaxMessages = 2
  MaxEvents = 2
PROPERTIES
  SecondPairOnlyByOverlap
  BadgeRisesOnlyIfVisited
  PreviewGoesBackOnlyIfLate

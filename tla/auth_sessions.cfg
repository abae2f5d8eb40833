SPECIFICATION Spec
CONSTANTS
  Tabs = {t1, t2}
  Jars = {home, office}
  Resets = {r1}
  MaxLinks = 1
INVARIANTS
  SessionInv
PROPERTIES
  EndedSessionReopensOnly
  StaleChecksOnlyOvertaken
  CallsEnd

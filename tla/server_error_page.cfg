SPECIFICATION FairSpec
CONSTANTS
  s1 = s1  s2 = s2
  Session <- OneClient
  NoSession = NoSession
PROPERTIES ErrorShown
CHECK_DEADLOCK FALSE

SPECIFICATION LoopSpec
CONSTANTS
  s1 = s1  s2 = s2
  Session <- TwoClients
  NoSession = NoSession
INVARIANTS TypeOK DeadlineGuards CutForAReason
PROPERTIES NoLateAnswer WrittenIsReleased EverySessionEnds
CHECK_DEADLOCK FALSE

SPECIFICATION Spec
CONSTANTS
  Client = {c1}
  Link = {page}
  Word = {1, 2}
  Texts <- TwoVersions
  MaxCalls = 1
INVARIANTS WordsSaved
CHECK_DEADLOCK FALSE

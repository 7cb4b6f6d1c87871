SPECIFICATION FairSpec
CONSTANTS
  Client = {c1, c2}
  Link = {page, other}
  Word = {1, 2}
  Texts <- TwoVersions
  MaxCalls = 2
INVARIANTS TypeOK OneVersion PairAccepted SoleOwner CompleteUnlessAbandoned
PROPERTIES RowsFinal CallsEnd
CHECK_DEADLOCK FALSE

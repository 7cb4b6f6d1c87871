SPECIFICATION SearchSpec
CONSTANTS
  Client = {c1}
  Link = {1, 2, 3}
  Word = {1, 2}
  Texts <- OnlySecond
  MaxCalls = 3
  Queries <- Requests
  Keyword <- Spelling
  Rejected = {"Search1", "a"}
  ResultSize = 2
INVARIANTS AllWordsHeld
CHECK_DEADLOCK FALSE

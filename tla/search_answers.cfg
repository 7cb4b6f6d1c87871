SPECIFICATION SearchSpec
CONSTANTS
  Client = {c1}
  Link = {1, 2, 3}
  Word = {1, 2}
  Texts <- BothOrOne
  MaxCalls = 3
  Queries <- Requests
  Keyword <- Spelling
  Rejected = {"Search1", "a"}
  ResultSize = 2
INVARIANTS NoMatchesHonest BestFirst
PROPERTIES RelevanceBounded
CHECK_DEADLOCK FALSE

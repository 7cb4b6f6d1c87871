SPECIFICATION FairSpec
CONSTANTS
  Name <- Names
  Word <- Words
  Short <- Shorts
  Mark = {"/"}
  Response <- Answers
  NoPage = NoPage
  Binary = Binary
  Queued <- Urls
  HrefParts <- Parts
INVARIANTS OneRedirect LastAnswerOnly InBounds NoWordLost CountedForAReason QueuedUrlsKeep UsualHrefsResolve StoredThenLinked
PROPERTIES ParseEnds
CHECK_DEADLOCK FALSE

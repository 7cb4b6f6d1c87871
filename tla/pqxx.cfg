SPECIFICATION FairSpec
CONSTANTS
  Client = {c1, c2}
  Link = {page}
  Word = {1, 2}
  Texts <- TwoWords
  MaxCalls <- OnceOrTwice
INVARIANTS OutcomeHonest
PROPERTIES ImplementsDB_Client CallsReturn
CHECK_DEADLOCK FALSE

SPECIFICATION FairSpec
CONSTANTS
  Calls = {c1, c2}
  NoCall = NoCall
  Devices = {d1, d2}
  Kinds = {"read", "readMulti"}
  NoService = NoService
  Lists <- LateLists
  NumIds = 1
  Size = 1
  Lifetime = 2
  MaxRuns = 1
INVARIANTS
  AnswerFits
PROPERTIES
  EveryRequestReturns

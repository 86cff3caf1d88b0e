SPECIFICATION Spec
CONSTANTS
  Calls = {c1, c2, c3}
  NoCall = NoCall
  Devices = {d1}
  Kinds = {"read", "write", "readMulti", "writeMulti"}
  NoService = NoService
  Lists <- SafetyLists
  NumIds = 2
  Size = 1
  Lifetime = 2
  MaxRuns = 1
SYMMETRY Symmetry
INVARIANTS
  IdsReturned
  AnswersOwnRequest
PROPERTIES
  AnsweredNotResent

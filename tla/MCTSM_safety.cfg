SPECIFICATION Spec
CONSTANTS
  Calls = {c1, c2, c3}
  NoCall = NoCall
  Peers = {p1, p2}
  Services = {s1}
  NoService = NoService
  NumIds = 2
  IdCap = 3
  Size = 2
  MaxReceives = 2
SYMMETRY Symmetry
INVARIANTS
  TypeOK
  StatesFollowOwners
  NoSendOnClosed
  PoolsConserved
  PutNeverBlocks
PROPERTIES
  UnreadReplyKept
  ImplementsTransactions

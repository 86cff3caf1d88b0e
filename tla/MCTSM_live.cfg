SPECIFICATION FairSpec
CONSTANTS
  Calls = {c1, c2, c3}
  NoCall = NoCall
  Peers = {p1}
  Services = {s1}
  NoService = NoService
  NumIds = 2
  IdCap = 3
  Size = 1
  MaxReceives = 2
PROPERTIES
  EveryCallReturns
  ReuseDistance

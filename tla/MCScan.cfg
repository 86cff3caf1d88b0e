SPECIFICATION FairSpec
CONSTANTS
  a = a
  b = b
  c = c
  d = d
  Devices = {a, b, c, d}
  NoDevice = NoDevice
  Workers = {w1, w2}
  ScanSize = 2
  MaxInstance = 11
  Grows = {0, 1, 2}
  Instance <- MCInstance
CHECK_DEADLOCK FALSE
INVARIANTS
  MergedOnce
  SavedButForBacklog
PROPERTIES
  DiscoverReturns

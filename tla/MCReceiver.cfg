SPECIFICATION FairReceiveSpec
CONSTANTS
  Loops = {l1, l2}
  Packets = {p1, p2}
  Foreign = {p2}
  Nothing = Nothing
  Buffers = {b1, b2, b3, b4}
  NoBuffer = NoBuffer
INVARIANTS
  BuffersAccounted
  HandlersKeepTheirPacket
  PayloadsOutliveBuffers
PROPERTIES
  LoopsEnd

SPECIFICATION Spec
CONSTANTS
  Values <- MCValues
  Dates <- MCDates
  Headers <- MCHeaders
  NetworkLists <- MCNetworkLists
  Apdus <- MCApdus
  Reads <- MCReads
  Announcements <- MCAnnouncements
  Searches <- MCSearches
  Frames <- MCFrames
  Writes <- MCWrites
  Lists <- MCLists
  Replies <- MCReplies
  DeviceReplies <- MCDeviceReplies
  Asked <- MCAsked
  MaxCut = 40
  MaxArray = 8
INVARIANTS
  PacketsReadBack
  RepliesReadBack
  CutNeverMisread
  DevicesReadBack
PROPERTIES
  DecoderGetsOn

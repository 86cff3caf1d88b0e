SPECIFICATION FairSpec
CONSTANTS
  Values = {}
  Dates = {}
  Headers = {}
  NetworkLists = {}
  Apdus = {}
  Reads = {}
  Announcements = {}
  Searches = {}
  Frames = {}
  Writes = {}
  Lists = {}
  Replies = {}
  DeviceReplies <- MCNested
  Asked <- MCAsked
  MaxCut = 0
  MaxArray = 2
PROPERTIES
  WholeRepliesDecoded

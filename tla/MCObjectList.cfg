SPECIFICATION ObjectsSpec
CONSTANTS
  o1 = o1
  o2 = o2
  o3 = o3
  o4 = o4
  DeviceObjects = {o1, o2, o3, o4}
  NoObject = NoObject
  Proprietary = {o2}
  Lists <- MCLists
  MaxApdus <- MCMaxApdus
  ItemSize = 2
  Chunk = 2
  MaxChanges = 2
INVARIANTS
  ListComplete
PROPERTIES
  ObjectsReturns

SPECIFICATION Spec
CONSTANTS
  local = local
  station = station
  routed = routed
  foreign = foreign
  Devices = {local, station, routed, foreign}
  NoDevice = NoDevice
  Handle = local
  ArrayAll = 1000
  MaxInstance = 4
  MaxReceived = 3
  NoMac <- MCNoMac
  Place <- MCPlace
  Instance <- MCInstance
  Options <- MCOptions
  QueryAnswers <- MCQueryAnswers
  Background <- MCBackground
CONSTRAINT
  Apart
CHECK_DEADLOCK FALSE
INVARIANTS
  DevicesListed
  NetworksListed
  FoundReachable
  CompletedByAsked

SPECIFICATION Spec
CONSTANTS
  Stations = {s1, s2}
  Removable = {s2}
  ConnIds = {c1, c2}
  Consumers = {k1, k2}
  Packets <- MCPackets
  DefaultChannels = 1
  MaxChannels = 2
  MaxPacket = 4
  MaxStorage = 3
  InitStock = 2
  Word = 16
  MaxPublished = 1
  MaxReconnects = 1
  MaxRestarts = 1
  NoConnection = NoConnection
INVARIANTS
  TypeOK
  ChannelsRespected
PROPERTIES
  GoodsLostOnlyWithStation
  OverfullOnlyByReturn
  TopicsDrained
  TakenTwiceOnlyByReconnect

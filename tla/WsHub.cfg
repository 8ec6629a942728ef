SPECIFICATION FairSpec
CONSTANTS
  Conns = {"c1", "c2"}
  Posts = {"p"}
  TenantOf <- MCTwoTenants
  RoomOf <- MCToAll
  Buffer = 2
  Frames <- MCFrames
INVARIANTS
  NoSendOnClosed
  OneWriter
  SenderOrder
  RoomsSeparate
PROPERTIES
  BroadcastReturns
  DisconnectCleansUp

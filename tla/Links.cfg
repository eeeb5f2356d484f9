\* The transports of a platform and the links of two.
CONSTANTS
  Writer = {w1, w2}
  Payload <- MCPayload
  Header = 2
  BufSize = 5
  NoByte = NoByte
  CutsMessage = FALSE
  OneWriter = TRUE
  Interface = {i1, i2}
  MaxDeaths = 3
  DiesAnytime = FALSE
  Module <- MCModule
  Packets <- MCPackets
  Buffers = 2
  MaxLost = 1
  MaxInFlight = 3
  Peer <- MCPeer
  Depth = 1
  MaxSends = 1
  Sender = {1, 2}
  ChannelNum = 2
  Sizes <- MCSizes
  FragmentSize = 2
  BufferSize = 6
  MaxDatagrams = 2
  FirstCounter = 12
  LostWhen <- MCLostWhen
  Platform = {pa, pb}
  Repository = {r1, r2}
  MaxStarts = 4
  Parts = {"tcp", "link", "udp", "port", "datagrams", "status"}
SPECIFICATION Spec
INVARIANTS LinksWellFormed MessagesWhole MessagesArrive
PROPERTIES ImplementsChannel StreamDelivered LinksReconnected PortsServed StatusExchanged
CHECK_DEADLOCK FALSE

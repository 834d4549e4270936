SPECIFICATION FairSpec
CONSTANTS
  HEAD = 2
  MAX_PACKET_BUF_SIZE = 3
  SEND_RETRY_LIMIT = 3
  SOCKET_ROOM = 3
  MaxPackets = 3
  App = app
  Own = own
  NoHandler = none
  MaxLosses = 1
CHECK_DEADLOCK FALSE
INVARIANTS StreamTypeOK BufferHasRoom WholeInOrder ReconnectIsArmed
PROPERTIES ConnectionComesBack SentIsDelivered

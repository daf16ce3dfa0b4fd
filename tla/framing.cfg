SPECIFICATION FramingSpec
CONSTANTS
  PACKET_COUNTER_CAP = 3
  MaxPackets = 4
  MaxTimeouts = 1
  MaxLost = 1
  Payloads <- MCPayloads
INVARIANT GapIsReal
PROPERTIES ImplementsPacketChannel Resync
CHECK_DEADLOCK FALSE

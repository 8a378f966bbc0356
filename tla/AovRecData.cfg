SPECIFICATION Spec
CONSTANTS
  Packet <- AFewPackets
  Junk = {2, 7}
  DataSize = 6
  MaxPackets = 4
INVARIANTS
  TypeOK
  Aligned
PROPERTIES
  ImplementsChannel
  ReceiveReturns
CHECK_DEADLOCK FALSE

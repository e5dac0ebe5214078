SPECIFICATION Spec
CONSTANTS
  Base = 16
  FixedSize = 2
  MaxDatagram = 250
  IpLength = {1, 2}
  LoginLength = {0, 1, 15, 16, 17}
  PayloadLength = {0, 1, 16, 190, 240}
INVARIANTS
  TypeOK
  MessageArrives
  PunchArrives
CHECK_DEADLOCK FALSE

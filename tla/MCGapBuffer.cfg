SPECIFICATION MCSpec
CONSTANTS
  Sessions = {s1, s2}
  Blank = Blank
  Packets <- MCPackets
  Times = {1, 2}
  Oversize = {3}
  kCapacity = 2
  kMoldEndOfSessionCount = 9
  ClockModulus = 16
  CfgSession = Blank
  AcceptSessionChange = TRUE
  ExpectedFirstSeq = 0
  GapTimeout = 1
  RetryInterval = 1
  MaxRetransmitCount = 2
  MaxSeq = 4
  MaxPacket = 2
  MaxDelivered = 2
INVARIANTS TypeOK InOrderOnce WindowSound GapTracked RequestsOnlyMissing GapEventExact
PROPERTIES NoEviction
SYMMETRY MCSymmetry

SPECIFICATION MCReceiverSpec
CONSTANTS
  Sessions = {s1}
  Blank = Blank
  Packets <- MCPackets
  Times = {}
  Oversize = {}
  kCapacity = 2
  kMoldEndOfSessionCount = 9
  ClockModulus = 64
  CfgSession = Blank
  AcceptSessionChange = FALSE
  ExpectedFirstSeq = 1
  GapTimeout = 1
  RetryInterval = 2
  MaxRetransmitCount = 2
  KernelTimestamps = TRUE
  RealtimeOffset = 20
  MaxQueueing = 1
  TickInterval = 1
  MaxDatagramsPerPoll = 2
  MaxSeq = 3
  MaxTime = 6
  LastSession = s1
PROPERTIES RequestPacing

SPECIFICATION MCReceiverSpec
CONSTANTS
  Sessions = {s1, s2}
  Blank = Blank
  Packets <- MCPackets
  Times = {}
  Oversize = {}
  kCapacity = 2
  kMoldEndOfSessionCount = 9
  ClockModulus = 64
  CfgSession = Blank
  AcceptSessionChange = TRUE
  ExpectedFirstSeq = 1
  GapTimeout = 1
  RetryInterval = 2
  MaxRetransmitCount = 2
  KernelTimestamps = FALSE
  RealtimeOffset = 20
  MaxQueueing = 1
  TickInterval = 1
  MaxDatagramsPerPoll = 2
  MaxSeq = 3
  MaxTime = 6
  LastSession = s2
PROPERTIES RequestPacing NoOverdueRequest

SPECIFICATION FairRecoverySpec
CONSTANTS
  Sessions = {s1}
  Blank = Blank
  TheSession = s1
  Packets <- MCPackets
  Times = {1}
  Oversize = {}
  kCapacity = 2
  kMoldEndOfSessionCount = 9
  ClockModulus = 16
  CfgSession = Blank
  AcceptSessionChange = FALSE
  ExpectedFirstSeq = 1
  GapTimeout = 0
  RetryInterval = 0
  MaxRetransmitCount = 3
  FinalSeq = 3
  MaxReply = 2
INVARIANTS RequestsExist CompleteIsTrue
PROPERTIES EventuallyComplete

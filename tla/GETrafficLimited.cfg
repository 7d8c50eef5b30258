SPECIFICATION FairSpec
CONSTANTS
  Distribution = "uniform"
  PacketSize = 1
  Draws <- UniformDraws
  MaxBytes = 3
  Gaps <- ZeroOrTwo
  OnTimes <- OneOrTwo
  OffTimes <- ZeroOrOne
  StopTimes <- NeverOrFive
  MaxDraws = 8
INVARIANTS TypeOK OneChainEach ClosedIsSilent
PROPERTIES StopsAtTheLimit LimitReached
CHECK_DEADLOCK FALSE

SPECIFICATION Spec
CONSTANTS
  Distribution = "exponential"
  PacketSize = 1
  Draws <- ExponentialDraws
  MaxBytes = 0
  Gaps <- ZeroOrTwo
  OnTimes <- OneOrTwo
  OffTimes <- ZeroOrOne
  StopTimes <- NeverOrFive
  MaxDraws = 20
INVARIANT PacketSizeInRange
CHECK_DEADLOCK FALSE

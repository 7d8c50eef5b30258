CONSTANTS
  p1 = p1
  p2 = p2
  p3 = p3
  f1 = f1
  f2 = f2
  host = host
  aggr1 = aggr1
  aggr2 = aggr2
  edge = edge
  Packets <- TwoPackets
  Flows <- OneFlow
  FlowOf <- SameFlow
  Routes <- EcmpPaths
  LoggedFlows <- OneFlow
  TimeWarmUp = 1
  MaxDelay = 2
  AppStart = 1
  StartTimes = {0}
  StopTimes = {}
  EndTime = 4
SPECIFICATION Spec
INVARIANTS TypeOK Conserved TracksTheNetwork HopsBalance StagesAgree
PROPERTIES CountsFates
CHECK_DEADLOCK FALSE

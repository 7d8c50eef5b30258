CONSTANTS
  p1 = p1
  p2 = p2
  p3 = p3
  f1 = f1
  f2 = f2
  host = host
  aggr1 = aggr1
  aggr2 = aggr2
  edge = edge
  Packets <- ThreePackets
  Flows <- TwoFlows
  FlowOf <- LastDiffers
  Routes <- ShortPaths
  LoggedFlows <- OneFlow
  TimeWarmUp = 2
  MaxDelay = 1
  AppStart = 1
  StartTimes = {0, 3}
  StopTimes = {2}
  EndTime = 4
SPECIFICATION Spec
INVARIANTS Accounted ExcessIsWarmUp
CHECK_DEADLOCK FALSE

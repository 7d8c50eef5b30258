CONSTANTS
  Kinds <- FlowLogKinds
  Lead <- FlowLogLead
  TimeWindow = 8
  TimeWarmUp = 4
  StopTime = 34
  Second = 4
  MinPackets = 1
  MaxPackets = 4
SPECIFICATION Spec
INVARIANTS TypeOK NoPacketLost
PROPERTY ReportsEveryWindow
CHECK_DEADLOCK FALSE

CONSTANTS
  Kinds <- MimicLogKinds
  Lead <- MimicLogLead
  TimeWindow = 4
  TimeWarmUp = 2
  StopTime = 27
  Second = 3
  MinPackets = 2
  MaxPackets = 4
SPECIFICATION Spec
INVARIANTS RowIsItsWindow RowsTile StampNamesWindow
CHECK_DEADLOCK FALSE

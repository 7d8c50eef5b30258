CONSTANTS
  Queues <- TreeQueues
  StageOf <- TreeStageOf
  NoQueue <- TreeNoQueue
  Splits <- TreeSplits
  Files <- WindowFiles
  Windows = 2
SPECIFICATION Spec
INVARIANTS TypeOK VectorsInStep SplitsFollowTheirRoutes LatencyIsOfItsRoute
           RowsAreLines
PROPERTY NothingArrivesLate
CHECK_DEADLOCK FALSE

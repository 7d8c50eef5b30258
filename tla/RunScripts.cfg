SPECIFICATION FairSpec
CONSTANTS
  Hops <- Queues
  FirstHop = 1
  NumSeeds = 2
  Windows <- ManyWindows
  MaxRounds = 2
  MaxTrainings = 1
  MaxFailures = 1
  None = None
  Partial = Partial
INVARIANTS TypeOK MergedIsOfOneRound RowsAverageOneEach SeedReportsAreCurrent
           SeedReportsAreOfOneRound
PROPERTIES MergedJoinsFlows ScriptsEnd

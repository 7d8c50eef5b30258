SPECIFICATION Spec
CONSTANTS
  Hops <- Queues
  FirstHop = 1
  NumSeeds = 2
  Windows <- SingleWindows
  MaxRounds = 1
  MaxTrainings = 0
  MaxFailures = 0
  None = None
  Partial = Partial
INVARIANT MergedIdsAgree

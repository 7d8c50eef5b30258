SPECIFICATION Spec
CONSTANTS
  Hops <- Queues
  FirstHop = 1
  NumSeeds = 2
  Windows <- PlainWindows
  MaxRounds = 1
  MaxTrainings = 1
  MaxFailures = 0
  None = None
  Partial = Partial
INVARIANT EvaluatesTheNewModel

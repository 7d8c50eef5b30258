CONSTANT Trees <- SomeTrees
SPECIFICATION Spec
INVARIANTS TypeOK SplitsAreShortestWalks ReverseFlow SplitsCounted
CHECK_DEADLOCK FALSE

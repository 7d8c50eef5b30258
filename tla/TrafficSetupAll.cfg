SPECIFICATION FairSpec
CONSTANTS
  NumNodes = 4
  Patterns <- AllPatterns
  Files <- ShortFiles
INVARIANTS TypeOK SourcesReachSinks GroupedBindsOnce
PROPERTY SetupEnds
CHECK_DEADLOCK FALSE

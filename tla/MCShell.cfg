\* Three lines, four processes, two Ctrl-C.
SPECIFICATION FairSpec
CONSTANTS
  Lines <- MCLines
  MaxLines = 3
  MaxForks = 4
  MaxInts = 2
INVARIANTS
  ForegroundFirst
  BackgroundTracked
PROPERTIES
  BackgroundSpared
  PromptReturns
  ExitEnds

SPECIFICATION FairSpec
CONSTANTS
  MaxRuns = 3
  InputOvertakes = TRUE
INVARIANTS
  CurrentRunOnly
PROPERTIES
  ReplayStops
  EndIsShown
\* The user may click on nothing more: then everything comes to rest.
CHECK_DEADLOCK FALSE

SPECIFICATION FairSpec
CONSTANTS
  Capacity = 1
  MaxTime = 1
  MaxItems = 2
  MaxBatch = 1
  MaxDelay = 1
  MaxRequests = 4
  Intervals = {1, 2}
PROPERTIES
  ItemsLeave
  StopReturns
  ErrorStopsRepeated
\* The user may ask for nothing more: then everything comes to rest.
CHECK_DEADLOCK FALSE

SPECIFICATION Spec
CONSTANTS
  Capacity = 2
  MaxTime = 1
  MaxItems = 4
  MaxBatch = 2
  MaxDelay = 1
  MaxRequests = 4
  Intervals = {1}
INVARIANTS
  PermitsCoverItems
  NeverEarly
PROPERTIES
  RefinesTimedDelivery
\* The user may ask for nothing more: then everything comes to rest.
CHECK_DEADLOCK FALSE

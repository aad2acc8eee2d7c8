SPECIFICATION FairSpec
CONSTANTS
  MaxRequests = 3
  MaxSpurious = 1
PROPERTIES
  RequestReturns
  HeardIsAnswered
  HandlerStops
  ImplementsRegister
\* A stopped handler does nothing more, nor does one whose thread is gone and that nobody
\* uses or stops.
CHECK_DEADLOCK FALSE

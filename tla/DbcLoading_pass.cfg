SPECIFICATION LoadingSpec
CONSTANTS
  Bytes = 3
  ByteSize = 2
  TableSize = 2
  Ids = {0, 1, 2}
  Lengths = {1, 3}
  MaxInt = 60
  Names <- MCNames
  Numbers <- MCNumbers
  Strings <- MCStrings
  Documents <- MCDocuments
  Files <- MCFiles
  Configs <- MCConfigs
  Requests <- MCRequests
INVARIANTS
  
  EncodedBitsAreRead
  EncodedMeansAsked
  
\* The user need not load a DBC, and nobody has to send.
CHECK_DEADLOCK FALSE

SPECIFICATION FileSpec
CONSTANTS
  d1 = d1
  Dash = Dash
  Frames <- MCFrames
  DbcMessages <- MCMessages
  Schemas <- MCSchemas
  IdRange = 4
  ByteRange = 4
  Capacity = 4
  PageSize = 2
  MaxWrites = 3
INVARIANTS
  AllOrNothing
  PageIsSlice
  
\* Nobody has to write, to page or to play.
CHECK_DEADLOCK FALSE

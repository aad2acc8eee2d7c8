SPECIFICATION FairSpec
CONSTANTS
  Slots = 4
  Kinds = {"raw", "dbc"}
  MaxMessages = 5
  MaxSessions = 2
INVARIANTS
  SlotsApart
  EndedIsComplete
PROPERTIES
  SessionEnds
  ImplementsChannel
\* Nobody has to send a message or to click.
CHECK_DEADLOCK FALSE

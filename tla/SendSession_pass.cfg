SPECIFICATION Spec
CONSTANTS
  d1 = d1
  d2 = d2
  m1 = m1
  m2 = m2
  s = s
  t = t
  Nil = Nil
  Current = Current
  DataBits = {0, 1}
  Dbcs = {d1, d2}
  MessagesOf <- MCMessagesOf
  Dlc <- MCDlc
  RowValues <- MCRowValues
  Minimum = 0
  Maximum = 1
  RawFrames <- MCRawFrames
  RuleLists <- MCRuleLists
  MaxEvents = 2
  MaxSessions = 2
INVARIANTS
  LiveEvaluators
  
  
  VerdictIsOfFrame
PROPERTIES
  OnlyDbcTears
CHECK_DEADLOCK FALSE

SPECIFICATION Spec
CONSTANTS
  TableSize = 2
  Window = 1
  Holding = 2
  s = s
  t = t
  Signals = {s, t}
  Dbcs <- MCDbcs
  NoDbc = NoDbc
  Nil = Nil
  Ids = {1}
  MaxFrames = 2
  MaxTime = 3
  MaxSelected = 2
  MaxParsed = 1
  Plotted <- MCPlotted
INVARIANTS
  AveragesAreRight
  OverlayTells
  TimesIncrease
  
  OnlyLossTears
CHECK_DEADLOCK FALSE

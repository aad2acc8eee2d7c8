SPECIFICATION InputSpec
CONSTANTS
  e1 = e1
  e2 = e2
  a = a
  signal = signal
  Editors <- MCEditors
  Symbols <- MCSymbols
  Keys = {signal}
  CanKeys = {signal}
  MessageOf <- MCMessageOf
  Values = {0, 1}
  Zero = 0
  Nil = Nil
  None = None
  MaxObjects = 2
  MaxNodes <- MCMaxNodes
  Letters <- MCLetters
  Kinds = {"operator"}
INVARIANTS FunctionReadsLive
CHECK_DEADLOCK FALSE

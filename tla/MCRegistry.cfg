\* Two threads that call twice each, and an application that registers.
CONSTANTS
  Threads = {t1, t2}
  Library <- MCLibrary
  Others = {"App"}
  Extensions <- MCExtensions
  Methods <- MCMethods
  Names = {"vta", "txt"}
  Calls = {"readImage", "save"}
  MaxCalls = 2
\* The threads stop when they have called often enough.
CHECK_DEADLOCK FALSE
SPECIFICATION Spec
INVARIANTS
  IInv
  TableStandsStill
  EachHandlerOnce
  AnswersAreRight
PROPERTIES
  EveryCallReturns

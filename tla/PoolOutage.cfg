SPECIFICATION Spec
CONSTANTS
  Conns = {c1, c2}
  Handlers = {h1, h2}
  TimedHandlers = {}
  Main = main
  NoConn = NoConn
  DbMayFail = TRUE
  PrepareMayFail = FALSE
SYMMETRY Symmetry
INVARIANTS HandedOutPrepared

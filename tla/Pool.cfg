SPECIFICATION FairSpec
CONSTANTS
  Conns = {c1, c2}
  Handlers = {h1, h2, h3, h4}
  TimedHandlers = {h2, h3, h4}
  Main = main
  NoConn = NoConn
  DbMayFail = TRUE
  PrepareMayFail = TRUE
INVARIANTS TypeOK Conservation NoLostWakeup EveryConnectionTried StartupNeverBlocks
PROPERTIES AcquireProgress ImplementsLease

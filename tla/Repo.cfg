SPECIFICATION FairSpec
CONSTANTS
  Conns = {c1, c2}
  Threads = {t1, t2}
  NoConn = NoConn
  NoReq = NoReq
  r1 = r1
  r2 = r2
  r3 = r3
  Requests = {r1, r2, r3}
  Batch <- MixedBatches
INVARIANTS TypeOK AtomicSaves PayloadIsItsEvents AckedIsStored ReadsAreWhole
PROPERTIES HoldersRelease ImplementsStore

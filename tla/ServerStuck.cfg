SPECIFICATION FairSpec
CONSTANTS
  t1 = t1
  t2 = t2
  t3 = t3
  c1 = c1
  c2 = c2
  c3 = c3
  c4 = c4
  Threads <- TwoThreads
  Conns <- ThreeConns
  MaxSize = 1
  Dummy = Dummy
  NoConn = NoConn
  NoThread = NoThread
PROPERTY
  ShutdownCompletes

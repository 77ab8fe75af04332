SPECIFICATION FairSpec
CONSTANTS
  a = a
  b = b
  c = c
  d = d
  t1 = t1
  t2 = t2
  t3 = t3
  Threads <- ThreeThreads
  Urls <- SmallSite
  StartUrl = a
  Links <- SmallSiteLinks
  Outcomes <- SmallSiteFaulty
  Dummy = Dummy
  NoUrl = NoUrl
  NoThread = NoThread
PROPERTY
  ShutdownCompletes
  PoolDissolves
INVARIANTS
  TypeOK
  CriticalSection
  FetchedOnce
  DummyNotRequested
  NullDirUnused
  NoLostWakeup
  InProgressExact

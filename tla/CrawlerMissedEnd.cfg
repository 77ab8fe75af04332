SPECIFICATION UndisturbedSpec
CONSTANTS
  a = a
  b = b
  c = c
  d = d
  t1 = t1
  t2 = t2
  t3 = t3
  Threads <- TwoThreads
  Urls <- SmallSite
  StartUrl = a
  Links <- SmallSiteLinks
  Outcomes <- SmallSitePages
  Dummy = Dummy
  NoUrl = NoUrl
  NoThread = NoThread
PROPERTY
  CrawlFinishes

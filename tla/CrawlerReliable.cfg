SPECIFICATION Spec
CONSTANTS
  a = a
  b = b
  c = c
  d = d
  t1 = t1
  t2 = t2
  t3 = t3
  Threads <- ThreeThreads
  Urls <- Site
  StartUrl = a
  Links <- SiteLinks
  Outcomes <- SitePages
  Dummy = Dummy
  NoUrl = NoUrl
  NoThread = NoThread
INVARIANTS
  JobExecutorSeesAll
PROPERTY
  CrawlPromise

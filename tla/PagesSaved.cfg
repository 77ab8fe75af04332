SPECIFICATION CorpusSpec
CONSTANTS
  t1 = t1
  t2 = t2
  t3 = t3
  p1 = p1
  p2 = p2
  p3 = p3
  p4 = p4
  p5 = p5
  Threads <- ThreeThreads
  Pages <- SitePages
  Path <- SitePath
  NoPage = NoPage
  MaxWorkers = 3
INVARIANTS
  TypeOK
  ListedOnce
  WrittenListed
  NoDirectoryEmpty
  GivenOnce
  Searchable
SYMMETRY Symmetry

SPECIFICATION Spec
CONSTANTS
  w1 = w1
  w2 = w2
  d1 = d1
  d2 = d2
  d3 = d3
  Workers <- TwoWorkers
  Given <- SiteGiven
  Files <- SiteFiles
  Contents <- SiteContents
  Words <- SiteWords
  Commands <- SiteCommands
  Directory = Directory
INVARIANTS
  SearchExact
  CountsExact

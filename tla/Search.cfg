SPECIFICATION FairSpec
CONSTANTS
  c1 = c1
  c2 = c2
  c3 = c3
  w1 = w1
  Clients <- TwoClients
  Workers <- OneWorker
  MaxExits = 2
  Startup = Startup
  Nobody = Nobody
INVARIANTS
  TypeOK
  OwnAnswer
  WholeAnswer
  NotLeftBehind
PROPERTY
  SearchEnds

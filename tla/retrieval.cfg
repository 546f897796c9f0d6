CONSTANTS
  imp = imp
  dec = dec
  fun = fun
  body = body
  cls = cls
  Blank = Blank
  NoSymbol = NoSymbol
  WindowLines = 2
  RrfK = 4
  CandidateK = 3
  Unit = 210
  TopK = 2
  Projects = {"p"}
  Paths = {"x", "y"}
  Clients = {"script", "server"}
  Queries = {fun, imp}
  Indexers = {"script"}
  Files <- MCFiles
  Absent = Absent
  NoJob = NoJob
  NoIndex = NoIndex
  NoSearch = NoSearch
  Nearness <- MCNearness
  Relevance <- MCRelevance
  MaxEdits = 2
  MaxJobs = 2
SPECIFICATION Spec
INVARIANTS
  IndexMatchesDisk
  EveryLineIsIndexed
  IndexerSearchesWhatItStored
  AgreementWins

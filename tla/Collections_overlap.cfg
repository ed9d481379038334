SPECIFICATION FairSpec
CONSTANTS
  Values <- MCValues
  NoValue = "none"
  Placeholders = {"long"}
  TooLong = {"long"}
  Similarity <- MCSimilarity
  Sources = {"api", "csv"}
  NoSource = "no source"
  Priority <- MCPriority
  Keys = {"a1", "c1", "c2"}
  SourceOf <- MCSourceOf
  Offers <- MCOffers
  OptOuts = {}
  Limit = 20
  MaxLeads = 3
  MaxTime = 2
  w1 = w1
  w2 = w2
  Collectors = {w1, w2}
  API = "request"
  NoKey = "no key"
INVARIANTS TypeOK OwnerLinked LinksKnown RecordsClean
PROPERTIES CollectionsEnd

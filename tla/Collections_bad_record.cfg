SPECIFICATION Spec
CONSTANTS
  Values <- MCValues
  NoValue = "none"
  Placeholders = {"long"}
  TooLong = {"long"}
  Similarity <- MCSimilarity
  Sources = {"api", "csv"}
  NoSource = "no source"
  Priority <- MCPriority
  Keys = {"a1", "c1", "c2"}
  SourceOf <- MCSourceOf
  Offers <- MCLongOffers
  OptOuts <- MCOptOuts
  Limit = 20
  MaxLeads = 3
  MaxTime = 2
  w1 = w1
  Collectors = {w1}
  API = "request"
  NoKey = "no key"
INVARIANTS RunsSurvive

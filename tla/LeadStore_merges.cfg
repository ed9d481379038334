SPECIFICATION Spec
CONSTANTS
  Values <- MCValues
  NoValue = "none"
  Placeholders = {"n/a"}
  Similarity <- MCSimilarity
  Sources = {"api", "csv"}
  NoSource = "no source"
  Priority <- MCPriority
  Keys = {"a1", "c1", "c2", "c3"}
  SourceOf <- MCSourceOf
  Offers <- MCOffers
  OptOuts <- MCOptOuts
  Limit = 2
  MaxLeads = 4
  MaxTime = 3
INVARIANTS TypeOK OwnerExplained NeverReturns ErasureLasts MergeIgnoresOrder
PROPERTIES KnownNeverRecreated MergedOnExactMatch NewLeadIsNew

SPECIFICATION Spec
CONSTANTS
  NPages = 3
  MaxPerPage = 2
  MaxItems = 3
INVARIANT CollectsListing
PROPERTY CollectionEnds
CHECK_DEADLOCK FALSE

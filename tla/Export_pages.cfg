SPECIFICATION Spec
SYMMETRY WriterSymmetry
CONSTANTS
    csv = csv
    fi = fi
    Names = {csv}
    Places = {fi}
    None = None
    Writers = {w1, w2}
    MaxId = 3
    MaxChanges = 2
    Samples <- MCSamples
    Filters <- MCFilters
    Limits <- MCLimits
    Cursors <- MCCursors
    DEFAULT_PAGE_SIZE = 1
    MAX_PAGE_SIZE = 2
    BATCH_SIZE = 2
INVARIANTS TypeOK GivenInOrder NothingMissed OnlyWhatWasThere CountExact
CHECK_DEADLOCK FALSE

SPECIFICATION MCSpec
CONSTANTS
    Pages <- MCPages
    Typed <- MCTyped
    MaxChanges = 3
    Steps = {2}
    MaxDays = 8
INVARIANT FiresOnPosixDays
PROPERTY OptOutHonoured
CHECK_DEADLOCK FALSE

\* A kernel that takes what fits of a record.
CONSTANTS
    ChanCap = 1
    SockCap = 3
    Splits = TRUE
    PtyCap = 1
    Nothing = Nothing
    Garbage = Garbage
    MaxIn = 2
    MaxOut = 3
SPECIFICATION Spec
INVARIANT NothingLost
\* A session ends.
CHECK_DEADLOCK FALSE

\* A kernel that takes a record whole or not at all.
CONSTANTS
    ChanCap = 1
    SockCap = 2
    Splits = FALSE
    PtyCap = 1
    Nothing = Nothing
    Garbage = Garbage
    MaxIn = 4
    MaxOut = 3
SPECIFICATION FairSpec
INVARIANTS TypeOK NothingLost
PROPERTY SessionReleased
\* A session ends.
CHECK_DEADLOCK FALSE

\* Does an attach cancel the grace timer?
CONSTANTS
    None = None
    Sessions = {t1}
    Conns = {c1, c2}
    ScrollCap = 2
    ReplayChunk = 2
    QueueCap = 2
    OutCap = 1
    InCap = 1
    MaxOut = 0
SPECIFICATION FairSpec
PROPERTY OwnedStaysHeld
\* The supply of connections is finite: a run may end with all of them gone.
CHECK_DEADLOCK FALSE

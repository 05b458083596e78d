\* One session that two connections take from each other, abandon or lose.
CONSTANTS
    None = None
    Sessions = {t1}
    Conns = {c1, c2}
    ScrollCap = 2
    ReplayChunk = 2
    QueueCap = 2
    OutCap = 1
    InCap = 1
    MaxOut = 4
SPECIFICATION FairSpec
INVARIANTS TypeOK ServedIsOwner HeldForAReason NoLossNoRepeat
PROPERTIES AttachAnswered DetachedIsCollected RemovedIsReclaimed
\* The supply of connections is finite: a run may end with all of them gone.
CHECK_DEADLOCK FALSE

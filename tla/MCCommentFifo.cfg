\* Three writers on two FIFOs, more than the session may submit.
CONSTANTS
    Fifos = {f1, f2}
    Writers = {w1, w2, w3}
    MaxChunks = 1
    MaxPayload = 1
    MaxComments = 2
    QueueCap = 1
    AckCap = 1
SPECIFICATION FairSpec
INVARIANTS TypeOK EachIsAnswered
PROPERTY SessionEnds
\* A session ends.
CHECK_DEADLOCK FALSE

\* One session beside static requests; statd dies once.
CONSTANTS
    s1 = s1  s2 = s2  a1 = a1  a2 = a2  dir = dir  plain = plain  mapped = mapped
    Sessions = {s1}
    Articles = {a1, a2}
    Target <- MCTarget
    Templates <- MCTemplates
    Peer <- MCPeer
    Clients = {plain}
    Canon <- MCCanon
    Web = Web
    Broken = Broken
    QueueCap = 1
    ReadsCap = 1
    MaxBatch = 2
    MaxCount = 2
    MaxGets = 2
    MaxCrashes = 1
    MaxPublish = 0
SPECIFICATION Spec
INVARIANTS TotalsAgree CountsWhatHappened
\* The sessions end, and the requests are bounded.
CHECK_DEADLOCK FALSE

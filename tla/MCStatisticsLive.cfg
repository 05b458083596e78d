\* A session ends while statd may hang; the files are rewritten twice; counters at their limit.
CONSTANTS
    s1 = s1  s2 = s2  a1 = a1  a2 = a2  dir = dir  plain = plain  mapped = mapped
    Sessions = {s1}
    Articles = {a1, a2}
    Target <- MCTarget
    Templates <- MCTemplates
    Peer <- MCPeer
    Clients = {}
    Canon <- MCCanon
    Web = Web
    Broken = Broken
    QueueCap = 1
    ReadsCap = 1
    MaxBatch = 1
    MaxCount = 1
    MaxGets = 0
    MaxCrashes = 1
    MaxPublish = 2
SPECIFICATION FairSpec
INVARIANT TypeOK
PROPERTIES SessionCloses RoutesCatchUp
\* The sessions end, and the requests are bounded.
CHECK_DEADLOCK FALSE

\* A reader that pages through changes; two submissions, a clock that steps both ways.
CONSTANTS
    None = None
    Targets = {t1}
    Ips = {ip1}
    Texts = {x1}
    Handlers = {h1}
    Readers = {q1}
    MaxId = 2
    Clock = {0, 1, 3}
    RateLimit = 1
    RateWindow = 1
    DupWindow = 0
    PageLimit = 1
    MaxTries = 2
SPECIFICATION FairSpec
INVARIANTS RateLimited SnapshotIsOneRevision
PROPERTY FailStop

\* Safety: two targets, replies, moderation, crashes and power loss.
CONSTANTS
    None = None
    Targets = {t1, t2}
    Ips = {ip1}
    Texts = {x1}
    Handlers = {h1, h2}
    Readers = {}
    MaxId = 3
    Clock = {0}
    RateLimit = 4
    RateWindow = 1
    DupWindow = 0
    PageLimit = 1
    MaxTries = 2
SPECIFICATION Spec
SYMMETRY Symmetry
INVARIANTS TypeOK OpenSucceeds PublicListIsSound
PROPERTY RefinesLog

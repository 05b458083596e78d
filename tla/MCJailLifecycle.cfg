\* Two runs of jaild, three session ids in each, one session per peer at a time, two in all.
CONSTANTS
    Ips = {i1, i2}
    MaxSid = 3
    MaxRuns = 2
    Limits = 2
    MaxTotal = 2
    MaxPerIp = 1
    None = None
SPECIFICATION Spec
SYMMETRY Symmetry
INVARIANTS TypeOK NoUnlimitedGuest JailsWithinQuota DatasetsReclaimed
PROPERTY FreshAccounting
\* Neither runs nor session ids go on for ever.
CHECK_DEADLOCK FALSE

\* Two callers and the idle sweep share the cache of a host nobody edits.
SPECIFICATION FairSpec
CONSTANTS
    Callers = {c1, c2}
    Editors = {}
    Deleters = {}
    Testers = {}
    Janitor = janitor
    Conns = {k1, k2, k3}
    Addrs = {a}
    MaxEdits = 0
    MaxReinstalls = 0
    None = None
INVARIANTS
    CacheIsSound
PROPERTIES
    WaitEnds
\* The host may be deleted or the bounded dials used up.
CHECK_DEADLOCK FALSE

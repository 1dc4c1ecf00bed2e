\* A host is reinstalled, edited, deleted and tested while dials of it are in flight.
SPECIFICATION ConnSpec
CONSTANTS
    Callers = {c1}
    Editors = {e1}
    Deleters = {x1}
    Testers = {t1}
    Janitor = janitor
    Conns = {k1, k2}
    Addrs = {a, b}
    MaxEdits = 1
    MaxReinstalls = 1
    None = None
SYMMETRY Symmetry
INVARIANTS
    StaleOnlyByOverlap
 
\* The host may be deleted or the bounded dials used up.
CHECK_DEADLOCK FALSE

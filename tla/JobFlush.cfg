\* An output reader next to the job's own goroutine, two overlapping timer
\* callbacks, a failing statement and a crash at any point.
SPECIFICATION FairSpec
CONSTANTS
    Main = main
    Loggers = {l1}
    Timers = {t1, t2}
    MaxContent = 3
    MaxDbErrors = 1
INVARIANTS
    OneFlusher
    CleanMeansSaved
PROPERTIES
    ImplementsRecord
    ChangesLand
\* A finished or pruned job takes no further step.
CHECK_DEADLOCK FALSE

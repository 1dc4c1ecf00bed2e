\* A job that completed must not stay "running" in its row.
SPECIFICATION FairSpec
CONSTANTS
    Main = main
    Loggers = {l1}
    Timers = {t1}
    MaxContent = 1
    MaxDbErrors = 0
PROPERTY CompletionIsRecorded
CHECK_DEADLOCK FALSE

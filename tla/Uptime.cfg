\* The scheduler, one "check now", the user and a restart.
SPECIFICATION FairSpec
CONSTANTS
    Scheduler = scheduler
    Manual = {n1}
    User = user
    Retries = 2
    MaxFails = 2
    MaxCrashes = 1

    
    
PROPERTIES
    PausedIsQuiet
    RecoveryCloses

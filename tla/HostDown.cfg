\* The poll loop next to one poll of the API, a restart and a statement that fails.
SPECIFICATION FairSpec
CONSTANTS
    Ticker = ticker
    Extra = {x1}
    Retries = 2
    MaxCrashes = 1
    MaxErrors = 1
INVARIANTS
    AlertsAreSound
PROPERTIES
    AlertFollowsTheHost

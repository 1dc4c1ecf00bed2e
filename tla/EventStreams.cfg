\* Three streams of one host, one after the other or side by side.
SPECIFICATION FairStreams
CONSTANTS
    Streams = {s1, s2, s3}
    None = none
\* Every stream has run and the server is shut down.
CHECK_DEADLOCK FALSE
INVARIANTS
    RegisteredIsAlive
PROPERTIES
    LeavesOthersAlone
    StreamsFollowTheHost

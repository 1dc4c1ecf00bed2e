SPECIFICATION Spec
CONSTANTS
  MaxCommit = 2
  MaxEvents = 2
  MaxLoad = 3
INVARIANTS
    WatchIsHonest
    
    
PROPERTIES
    BarNeverMovesBack
    WatchEnds
CHECK_DEADLOCK FALSE

\* A planned label that appears twice and one that is not planned.
SPECIFICATION ListSpec
CONSTANTS
    Pull = pull
    Start = start
    Extra = extra
    Labels <- MCLabels
    Plan <- MCPlan
    MaxSteps = 6
CHECK_DEADLOCK FALSE
INVARIANTS
    RunningIsCurrent
    FinishedIsClosed
PROPERTIES
    EndedIsFinal

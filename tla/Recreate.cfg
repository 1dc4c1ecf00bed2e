\* Two jobs, at once or one after the other, and calls that fail.
SPECIFICATION Spec
CONSTANTS
    Old = old
    Jobs = {j1, j2}
    MaxSec = 2
    MaxFaults = 3
    MaxCrashes = 2
SYMMETRY Symmetry
INVARIANTS
    ContainerIsSafe
    EndsInPlace
\* The jobs are done.
CHECK_DEADLOCK FALSE

CONSTANTS
    Keys = {k1, k2}
    MaxRequests = 2
    Window = 3
    Horizon = 7
SPECIFICATION Spec
INVARIANTS SlidingBound RefusedOnlyAfterMax
\* at Horizon with every key refused nothing is left to do
CHECK_DEADLOCK FALSE

CONSTANTS
    p = p
    q = q
    Deployments <- AloneAndShared
SPECIFICATION Spec
INVARIANTS TypeOK KeptIsLatest LostOnlyWhenFull FilesBounded NoLineTwice
\* all lines have been recorded
CHECK_DEADLOCK FALSE

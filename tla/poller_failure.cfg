CONSTANTS
    Polls = {p}
    MaxEntries = 1
    MaxClears = 0
    MaxFailures = 1
SPECIFICATION FairSpec
PROPERTY UpdatesKeepComing
\* nothing moves once the session is closed or the process ended
CHECK_DEADLOCK FALSE

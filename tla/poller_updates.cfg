CONSTANTS
    Polls = {p, q}
    MaxEntries = 3
    MaxClears = 1
    MaxFailures = 1
SPECIFICATION FairSpec
INVARIANT NextPollNotices
PROPERTY UpdatesWhileAlive
\* nothing moves once the session is closed or the process ended
CHECK_DEADLOCK FALSE

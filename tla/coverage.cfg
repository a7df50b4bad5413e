CONSTANTS
    History <- Commits
    Prereleases = {2}
    Fetches <- SomeFetches
    MaxFailures = 1
    MaxPackages = 1
SPECIFICATION FairSpec
INVARIANTS TypeOK WatchTellsDrift
PROPERTIES PublishesWhatItDescribes CatchesUp

CONSTANTS
    NPeers = 2
    MaxLoad = 2
SPECIFICATION FairSpec
INVARIANTS TypeOK OneAtATime OneActive CompletedHasReset
PROPERTIES KeepsDriven SessionEnds EndsByItself TriedOnce ImplementsSession ImplementsSelection

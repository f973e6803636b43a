CONSTANTS
    MaxEvents = 1
SPECIFICATION FairSpec
INVARIANTS TypeOK OnOffAgrees HeadResolves
PROPERTIES HeadSettles
CHECK_DEADLOCK FALSE

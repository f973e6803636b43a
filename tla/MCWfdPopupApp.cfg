CONSTANTS
    p1 = p1
    p2 = p2
    NoPeer = NoPeer
    Peer <- Peers
    NameLen <- NameLens
    MacLen = 3
    MaxLeaked = 1
SPECIFICATION FairSpec
INVARIANTS TypeOK PopupOpen  ProgressHasHandle
PROPERTIES ProgressGoes AcceptsLive
CHECK_DEADLOCK FALSE

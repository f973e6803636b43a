CONSTANTS
    p1 = p1
    p2 = p2
    Peer <- Peers
    Strangers <- AnyStranger
SPECIFICATION Spec
INVARIANTS TypeOK ListedTwice NoGhost FailedAreTimed
SYMMETRY Symmetry
CHECK_DEADLOCK FALSE

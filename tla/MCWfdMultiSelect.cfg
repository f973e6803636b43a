CONSTANTS
    p1 = p1
    p2 = p2
    p3 = p3
    NoPeer = NoPeer
    Peer <- Peers
    MaxPeers = 3
SPECIFICATION Spec
INVARIANTS TypeOK ItemsAreFresh TickedCanConnect ScreenTells AsksOnlyTicked AsksSelected
SYMMETRY Symmetry

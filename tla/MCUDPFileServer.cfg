SPECIFICATION Spec
CONSTANTS
    Modulus = 4
    WindowSize = 2
    Peer = {p1, p2}
    ServerAddr = p1
    MaxRetransmissions = 5
    None = None
    Arriving = {0, 3}
    MaxArrivals = 3
    MaxSends = 5
    Base = 4
CHECK_DEADLOCK FALSE
INVARIANTS TypeOK PendingAccounted WindowExact RoundTrip

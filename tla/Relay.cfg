SPECIFICATION Spec
CONSTANTS
    Peers = {p1, p2, p3}
    NoPeer = NoPeer
    MaxClients = 3
    MaxPackets = 2
    Malformed = {}
SYMMETRY PeerSymmetry
INVARIANTS NoUseAfterFree AssertionsHold NoPacketDiscarded
           OnlyOthersSinceJoining SenderOrderKept DroppedOnlyForDeparted

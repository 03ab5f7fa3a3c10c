SPECIFICATION FairSpec
CONSTANTS
    Peers = {p1, p2}
    NoPeer = NoPeer
    MaxClients = 3
    MaxPackets = 2
    Malformed = {1}
PROPERTIES EventuallyRelayed

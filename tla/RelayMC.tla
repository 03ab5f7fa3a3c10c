------------------------------ MODULE RelayMC -------------------------------
EXTENDS Relay, TLC

PeerSymmetry == Permutations(Peers)
=============================================================================

SPECIFICATION FairSpec
CONSTANTS
    MaxLoads = 3
    MaxPackets = 2
INVARIANTS ReplicaValid OriginalIsLocal ReplicaLikeLocal OneReplicaPerMap SafeUnlessRaced TornOnlyIfOverlapped WeaponsOnce
PROPERTIES ReplicaAppears PositionFollowed

SPECIFICATION FairSpec
CONSTANTS
    Procs = {host, g1}
    Server = host
    MaxSpawns = 1
    MaxFires = 0
PROPERTIES AwaitedEnemyAppears

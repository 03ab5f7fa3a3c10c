SPECIFICATION FairSpec
CONSTANTS
    Procs = {host, g1}
    Server = host
    MaxSpawns = 2
    MaxFires = 1
INVARIANTS NoEcho OneCopy OnlyAnnouncedEnemies
PROPERTIES EnemyAppears

SPECIFICATION FairSpec
CONSTANTS
    Procs = {g1, g2}
    Nobody = Nobody
INVARIANTS OneHost LosersNeverHost
PROPERTIES Joins HolderBecomesHost EndsWithItsHost

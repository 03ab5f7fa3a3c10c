SPECIFICATION Spec
CONSTANTS
    Procs = {g1}
    Nobody = Nobody
INVARIANTS InitializedOnce

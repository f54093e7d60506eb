SPECIFICATION CacheSpec
CONSTANTS
    Conns = {c1, c2, c3}
    Nonces = {n1, n2}
    Skew = 1
    Horizon = 2
    MaxTime = 3
SYMMETRY Symmetry
CHECK_DEADLOCK FALSE
INVARIANT CacheTypeOK
PROPERTIES AdmissionsApart AdmittedOnce

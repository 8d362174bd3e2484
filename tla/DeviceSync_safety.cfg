SPECIFICATION Spec
CONSTANTS
    Replica = {r1, r2, r3}
    Device = {d1, d2}
    Writers = {d1}
    K = 1
    Collects = TRUE
    MaxEntries = 1
    MaxMishaps = 1
INVARIANT LocalHeadIsBacked
PROPERTIES UnpulledIsKept
SYMMETRY Symmetry
CHECK_DEADLOCK FALSE

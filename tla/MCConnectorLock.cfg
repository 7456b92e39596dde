SPECIFICATION Spec
CONSTANTS
    p1 = p1
    p2 = p2
    p3 = p3
    w1 = w1
    w2 = w2
    w3 = w3
    w4 = w4
    RedisConfigured = TRUE
    Proc = {p1, p2, p3}
    Worker = {w1, w2, w3, w4}
    ProcOf <- MixedProcOf
INVARIANTS LocalExclusion LocalOwned SoloExclusion

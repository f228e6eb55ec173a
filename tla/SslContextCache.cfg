\* Two clients, two configurations at three addresses, room for two contexts.
CONSTANTS
    Clients = {c1, c2}
    Configs = {A, B}
    Addrs = {a1, a2, a3}
    MaxSize = 2
    TTL = 1
    MaxTime = 3
    MaxCtx = 4
    None = None
SPECIFICATION Spec
SYMMETRY CacheSymmetry
INVARIANTS Bookkeeping RightConfiguration
PROPERTIES NoStaleHit
CHECK_DEADLOCK FALSE

\* Two clients that verify certificates and two that do not share one tunnel.
CONSTANTS
    s1 = s1
    s2 = s2
    l1 = l1
    l2 = l2
    Clients = {s1, s2, l1, l2}
    Strict = {s1, s2}
    NoClient = NoClient
    MaxBytes = 3
SPECIFICATION Spec
INVARIANTS Bookkeeping NoUseAfterFree StrictVerified WireOrder CloseReachesClient
PROPERTIES Reclaimed
CHECK_DEADLOCK FALSE

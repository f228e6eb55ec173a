\* Three requests and one slot, or one request and its body.
CONSTANTS
    Reqs = {r1, r2, r3}
    MaxRequests = 1
    MaxWrites = 3
    MaxDrains = 1
SPECIFICATION Spec
SYMMETRY ReqSymmetry
CONSTRAINT Bounds
INVARIANTS Counted NoLostWakeup WaitersAccounted QueuesAnnounced
PROPERTIES ImplementsRequestQueue
CHECK_DEADLOCK FALSE

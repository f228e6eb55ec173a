\* Two requests and one slot: what must happen in the end.
CONSTANTS
    Reqs = {r1, r2}
    MaxRequests = 1
    MaxWrites = 0
    MaxDrains = 0
SPECIFICATION Spec
PROPERTIES AbortedWaiterEnds ScheduledIsServed
CHECK_DEADLOCK FALSE

\* Three workers and room for two alerts; every method may be tried.
CONSTANTS
    Workers = {w1, w2, w3}
    Methods = {"eventfd2", "eventfd", "pipe2", "pipe", "socketpair"}
    Capacity = 2
    Chunk = 1
    MaxFds = 4
    Unset = Unset
SPECIFICATION AlertSpec
INVARIANTS NoLeak
PROPERTIES ForeignUntouched WorkTaken
CHECK_DEADLOCK FALSE

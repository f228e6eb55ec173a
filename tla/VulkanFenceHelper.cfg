SPECIFICATION Spec
CONSTANTS
    MaxTasks = 3
    MaxGenerations = 3
INVARIANTS FencesInUse NoEarlyCleanup EachTaskOnce
PROPERTIES FencesRetire
CHECK_DEADLOCK FALSE

\* Two processes on one data directory, and every order of their signals.
CONSTANTS
    Procs = {p1, p2}
    None = None
SPECIFICATION Spec
INVARIANTS LockInv
PROPERTIES TermTerminates ReloadReported

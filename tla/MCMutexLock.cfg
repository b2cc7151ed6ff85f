SPECIFICATION MutexSpec
CONSTANTS
    Threads = {t1, t2, t3, t4}
    NoThread = NoThread
    Conds = {"c", "d"}
SYMMETRY Symmetry
INVARIANTS NeverFalselyHeld HolderExact QuietWhenOut
PROPERTIES ImplementsMonitor

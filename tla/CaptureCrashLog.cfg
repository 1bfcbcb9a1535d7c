SPECIFICATION Spec
CONSTANTS
    Threads = {t1, t2, worker}
    Worker = worker
    Signatures = {s1, s2}
    MaxPending = 2
    MaxLog = 3
    TrimTo = 2
    RingSize = 2
    MaxTracked = 1
    Window = 2
    Budgets <- MCBudgets
SYMMETRY Symmetry
INVARIANTS
    CrashIsOnDisk

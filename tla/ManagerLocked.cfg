\* Every request that takes the instance lock, which is not reclaimed; one guest survives
\* SIGKILL.
SPECIFICATION Spec
CONSTANTS
    Ids = {1}
    Workers = {w1, w2}
    Jobs = {j1}
    Guests = {g1, g2}
    Ops = {"Create", "Start", "Stop", "Hold", "Deploy", "Destroy", "WaitForAdb"}
    Options = {"skip_adb_wait", "wait_for_adb", "verify_boot"}
    Unkillable = {g2}
    MaxCreates = 1
    MaxCrashes = 0
    None = None
    EmptyDir = EmptyDir
VIEW NoHistory
SYMMETRY WorkerSymmetry
INVARIANT TypeOK
INVARIANT NoOrphanedGuest
INVARIANT SettledStateTrue
INVARIANT StartingInProgress

\* Create-starts, which take only id_lock, against prunes, which take no lock, and against
\* stops and destroys whose instance lock may have been reclaimed in use.
SPECIFICATION Spec
CONSTANTS
    Ids = {1}
    Workers = {w1, w2}
    Jobs = {j1}
    Guests = {g1, g2}
    Ops = {"CreateStart", "Stop", "Destroy", "PruneAll", "PruneExpired"}
    Options = {"skip_adb_wait", "wait_for_adb", "verify_boot", "prepare_fails", "lock_reclaimed"}
    Unkillable = {}
    MaxCreates = 2
    MaxCrashes = 0
    None = None
    EmptyDir = EmptyDir
VIEW NoCopies
SYMMETRY Symmetry
INVARIANT OneLiveGuest

\* The daemon is killed and restarted; destroys may time out and go on in the background.
\* No instance lock is reclaimed in use.
SPECIFICATION Spec
CONSTANTS
    Ids = {1}
    Workers = {w1, w2}
    Jobs = {j1}
    Guests = {g1, g2}
    Ops = {"Create", "Start", "Stop", "Destroy"}
    Options = {"skip_adb_wait", "wait_for_adb", "prepare_fails", "destroy_timeout"}
    Unkillable = {}
    MaxCreates = 1
    MaxCrashes = 1
    None = None
    EmptyDir = EmptyDir
VIEW NoCopies
SYMMETRY Symmetry
INVARIANT OneLiveGuest

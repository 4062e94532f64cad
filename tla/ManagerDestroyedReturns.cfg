\* A destroy against the exit watcher of the guest.
SPECIFICATION Spec
CONSTANTS
    Ids = {1}
    Workers = {w1, w2}
    Jobs = {j1}
    Guests = {g1}
    Ops = {"Create", "Start", "Destroy"}
    Options = {"skip_adb_wait", "wait_for_adb"}
    Unkillable = {}
    MaxCreates = 1
    MaxCrashes = 0
    None = None
    EmptyDir = EmptyDir
INVARIANT DestroyedStaysGone

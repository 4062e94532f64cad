\* Fair threads: two create-starts wait for each other at id_lock, the adb wait included,
\* while destroys make room for the second guest of an instance.
SPECIFICATION FairSpec
CONSTANTS
    Ids = {1}
    Workers = {w1, w2}
    Jobs = {j1}
    Guests = {g1, g2}
    Ops = {"CreateStart", "Destroy"}
    Options = {"skip_adb_wait", "wait_for_adb", "verify_boot", "prepare_fails"}
    Unkillable = {}
    MaxCreates = 2
    MaxCrashes = 0
    None = None
    EmptyDir = EmptyDir
VIEW NoCopies
PROPERTY RequestsAnswered
PROPERTY WatchedHandleCleared

\* prune-all against a hold that is answered while it runs.
SPECIFICATION Spec
CONSTANTS
    Ids = {1}
    Workers = {w1, w2}
    Jobs = {j1}
    Guests = {g1}
    Ops = {"Create", "Hold", "PruneAll"}
    Options = {}
    Unkillable = {}
    MaxCreates = 1
    MaxCrashes = 0
    None = None
    EmptyDir = EmptyDir
INVARIANT HeldNeverPruned

\* Requests for one instance, creates, removals and restarts.
SPECIFICATION Spec
CONSTANTS
    Slots = 3
    Targets = {1}
    Workers = {w1, w2, w3}
    Mutexes = {1, 2, 3, 4}
    None = None
    Junk = Junk
SYMMETRY Symmetry
INVARIANT TypeOK
INVARIANT FreshUnlessRevived
INVARIANT NoFalseFull
INVARIANT NoLeakedLock
INVARIANT ExclusiveUnlessReclaimed
PROPERTY ImplementsInstanceLock

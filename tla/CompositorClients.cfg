\* Two clients with one surface, one pool and one buffer each, numbered alike.
SPECIFICATION Spec
CONSTANTS
    Clients = {c1, c2}
    Surfaces = {s1}
    Pools = {p1}
    Buffers = {b1}
    Callbacks = {}
    None = None
INVARIANT ShowsCommitter
CHECK_DEADLOCK FALSE

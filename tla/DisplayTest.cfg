\* One compositor, one test client, PID 1.
SPECIFICATION FairSpec
CONSTANT None = None
INVARIANT TypeOK
INVARIANT SuccessMeansShown
INVARIANT NeverDrawsUnmapped
INVARIANT CodeTrueUnlessLost
INVARIANT ZombiesSignalled
PROPERTY ClientEnds
\* PID 1 exits or spins in the end.
CHECK_DEADLOCK FALSE

\* Once both calls have returned no step is left: the end of the calls is
\* not a deadlock.
CONSTANTS
    g1 = g1
    g2 = g2
    Nil = Nil
    Goroutines <- MCGoroutines
    Versions <- MCVersions
SYMMETRY Symmetry
SPECIFICATION Spec
CHECK_DEADLOCK FALSE
INVARIANT EveryCallerGetsBuiltInfo
INVARIANT ParseMatchesSemVer

\* Two runs; a preview between two stable releases; MaxTime is past the hour of
\* the first news and the fetch after it.
CONSTANTS
    Handler = {c1, c2}
    Last = 3
    Kind <- MCKind
    TTL = 1
    Timeout = 1
    Builds <- MCBuilds
    MaxTime = 2
SPECIFICATION UpdateSpec
SYMMETRY HandlerSymmetry
CHECK_DEADLOCK FALSE
INVARIANTS NoDowngrade ProgramRuns
PROPERTIES NewsBounded ToldIsTrue UpdatesInPlace

\* A query without a limit, over more rows than the engine returns by default.
SPECIFICATION WalkSpec
CONSTANTS
    Limits = {0}
    DefaultLimit = 2
    MaxTime = 4
    MaxExpired = 0
    MaxFailures = 0
INVARIANT NoCursorMeansNoMore

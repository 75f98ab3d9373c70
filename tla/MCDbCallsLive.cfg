\* A database that is open, or none, and two goroutines with every op.
SPECIFICATION FairSpec
CONSTANTS
    Calls = {c1, c2}
    Paths = {p1}
    Ops = {"ingest", "tryIngest", "flush", "countLogs", "stats", "export", "maintain",
           "snapshot"}
    MaxInFlight = 0
PROPERTY ClosedEngineIsDropped

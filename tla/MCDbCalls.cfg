\* Three goroutines, one on-disk path, a database open at the start or none, a cap of one.
SPECIFICATION Spec
CONSTANTS
    Calls = {c1, c2, c3}
    Paths = {p1}
    Ops = {"ingest", "tryIngest", "countLogs"}
    MaxInFlight = 1
SYMMETRY CallSymmetry
INVARIANTS
    CauseReachesItsCaller
    OnlyEarlyLeaversStrandCauses
    HandlesAreNotReused
    EngineLivesWhileUsed
    OneWriterPerPath
    CapBoundsAdmitted

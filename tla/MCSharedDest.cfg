\* Two versions fetched into one -dest directory.
SPECIFICATION Spec
CONSTANTS
    Runs = {r1, r2, r3}
    Requests <- SharedDestRequests
    Manifest <- Sums
    MuslHost = FALSE
INVARIANT UpToDateMatches

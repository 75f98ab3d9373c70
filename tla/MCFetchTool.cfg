\* Three overlapping runs on the default cache and on an unmixed -dest; every
\* directory name of up to three characters, in every dialect.
SPECIFICATION ToolSpec
CONSTANTS
    Runs = {r1, r2, r3}
    Requests <- CacheRequests
    Manifest <- Sums
    MuslHost = TRUE
    MaxDir = 3
SYMMETRY RunSymmetry
INVARIANTS
    InstalledIsVerified
    EmitsAskedArchive
    SidecarComesLast
    NoTempLeftBehind
    DirectoryIsOneArgument

CONSTANTS
    Builds = {1, 2}
    NoBuild = 0
    Hashes <- MCHashes
    HashOf <- MCHashOf
    NoHash = "none"
    Requests = {r1, r2}
    KeepNewest = 1
    Apart = TRUE
    MaxFailures = 0
SPECIFICATION Spec
INVARIANTS AlwaysServesDb

SPECIFICATION Spec
CONSTANTS
    Names = {n1, n2}
    Requests = {r1, r2}
    Manual = Manual
    NoServer = NoServer
    SharePackages = TRUE
    MaxDisturbances = 0
SYMMETRY RequestSymmetry
INVARIANT ChangesAreKept

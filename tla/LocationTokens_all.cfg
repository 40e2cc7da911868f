\* Handlers are finite: when all have answered nothing is left to do.
SPECIFICATION Spec
CONSTANTS
    Installs = {d1, d2}
    Callbacks = {c1, c2}
    Requests = {r1, r2}
    Previews = {v1}
    Locations = {l1}
    Elsewhere = Elsewhere
    Keys = {k1, k2}
    MaxPairs = 3
    MaxStarts = 3
    None = None
SYMMETRY Symmetry
CHECK_DEADLOCK FALSE
INVARIANTS
    NeverForgotten
    OneClaimant
    InstalledTrue
    StoredPairLives
